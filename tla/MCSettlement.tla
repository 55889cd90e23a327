---------------------------- MODULE MCSettlement ----------------------------
(* The demo alone, or two runs with a shorter script at once.              *)
EXTENDS Settlement

CONSTANTS r1, r2

MCGenesis == [policy |-> Fresh, vault |-> 150, time |-> 0]

Short == <<Swap(60, "owner"), Revocation>>

MCPlans ==
  {[run \in Runs |-> IF run = r1 THEN Demo ELSE <<>>], [run \in Runs |-> Short]}
=============================================================================
