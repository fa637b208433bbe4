---------------------------- MODULE EventReports ----------------------------
(***************************************************************************)
(* What a program that prints statistics promises: every event is counted  *)
(* by somebody, and appears once in what is printed, some time later.  Of  *)
(* a count that has once gone back, nothing more is promised.              *)
(***************************************************************************)
EXTENDS Integers

CONSTANT Counter

VARIABLES
  back,       \* counters that have gone back
  counted,    \* counter |-> what was counted
  reported    \* counter |-> the sum of the differences printed

vars == <<back, counted, reported>>

Init ==
  /\ back = {}
  /\ counted = [w \in Counter |-> 0] /\ reported = [w \in Counter |-> 0]

Count(w) ==
  /\ back' \in {back, back \cup {w}}
  /\ w \in back' \/ counted'[w] > counted[w]
  /\ counted' = [counted EXCEPT ![w] = counted'[w]]
  /\ UNCHANGED reported

(* Nothing is taken back, nothing is printed twice or before it happened. *)
Report ==
  /\ \A w \in Counter : w \in back \/ reported'[w] \in reported[w] .. counted[w]
  /\ UNCHANGED <<back, counted>>

Next == Report \/ \E w \in Counter : Count(w)

Spec == Init /\ [][Next]_vars
=============================================================================
