-------------------------------- MODULE Wish --------------------------------
(***************************************************************************)
(* What packages/core makes of a user's wish before there is a policy: a   *)
(* budget in base units and the candidate that it is spent on.             *)
(***************************************************************************)
EXTENDS BudgetText, Candidates

(* What core makes of a wish is exact, and depends on nothing that anybody *)
(* merely claims: the budget, and the token that is picked for it.         *)
WishExact == BudgetExact /\ PickIndependent
=============================================================================
