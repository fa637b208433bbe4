---------------------------- MODULE MCXdpRedirect ----------------------------
(* Three environments; the index of the third is one tx_port has no room for. *)
EXTENDS XdpRedirect, TLC

CONSTANTS e1, e2, e3, c1, c2, c3, c4

Env3 == {e1, e2, e3}
Command4 == {c1, c2, c3, c4}
IfIndex3 == e1 :> 1 @@ e2 :> 2 @@ e3 :> 3
JobsWithout3 ==   \* nothing is done on the third; only the first is redirected to it
  {j \in Job : j.env # e3 /\ (j.kind = "redirect" => j.env = e1 /\ j.to # e3)
              /\ (j.kind = "router" => j.env = e1)
              /\ (j.kind = "user" => j.env = e1 /\ j.to = e3)}
CommandsAlike == Permutations(Command4)
=============================================================================
