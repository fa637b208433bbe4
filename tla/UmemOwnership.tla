--------------------------- MODULE UmemOwnership ---------------------------
(***************************************************************************)
(* What the four rings of AF_XDP are for: handing UMEM frames to and fro   *)
(* between an application and the kernel.  Each frame has one owner        *)
(*   app    the application, which may do with it as it likes              *)
(*   fill   the kernel, which may receive a packet into it                 *)
(*   rx     the application, which has a received packet in it             *)
(*   tx     the kernel, which sends the packet in it                       *)
(*   comp   the application, once it notices that the kernel is done       *)
(* and changes hands only along this cycle.                                *)
(***************************************************************************)
CONSTANT Frame

VARIABLE owner

Init == owner = [f \in Frame |-> "app"]

(* The frames of S go from one owner to another in one step. *)
Give(S, from, to) ==
  /\ \A f \in S : owner[f] = from
  /\ owner' = [f \in Frame |-> IF f \in S THEN to ELSE owner[f]]

(* Submitting FILL slots hands over all the frames in them. *)
Post == \E S \in SUBSET Frame : Give(S, "app", "fill")

Receive  == \E f \in Frame : Give({f}, "fill", "rx")
Discard  == \E f \in Frame : Give({f}, "rx", "app")
Reply    == \E f \in Frame : Give({f}, "rx", "tx")
Complete == \E f \in Frame : Give({f}, "tx", "comp")
Reap     == \E f \in Frame : Give({f}, "comp", "app")

Next == Post \/ Receive \/ Discard \/ Reply \/ Complete \/ Reap

Spec == Init /\ [][Next]_owner
=============================================================================
