------------------------------ MODULE Mandate ------------------------------
(***************************************************************************)
(* What a policy promises its owner, with none of the mechanism: the agent *)
(* may spend from what the mandate holds only while it is active and       *)
(* unexpired, at most cap at a time and limit in all, each spend consuming *)
(* one nonce; only an active mandate can be revoked, a revoked one never   *)
(* spends again, and only then may the owner take back what is left.       *)
(* Accounts a mandate holds never lose tokens in any other way.            *)
(*                                                                         *)
(* Mandates do not interfere, so a step is a step or a pause of each.      *)
(***************************************************************************)
EXTENDS Integers

CONSTANTS Mandates, Accounts

VARIABLES
  now,
  mandate,   \* phase, cap, limit, deadline, spent and nonce of a mandate
  held       \* held[m][t]: tokens of account t that mandate m controls

vars == <<now, mandate, held>>

None == [phase |-> "none"]

Init ==
  /\ now = 0
  /\ mandate = [m \in Mandates |-> None]

----------------------------------------------------------------------------
SameHoldings(m) == \A t \in Accounts : held'[m][t] = held[m][t]

Open(m) ==
  /\ mandate[m].phase = "none"
  /\ mandate'[m].phase = "active"
  /\ 0 < mandate'[m].cap /\ mandate'[m].cap <= mandate'[m].limit
  /\ now < mandate'[m].deadline
  /\ mandate'[m].spent = 0 /\ mandate'[m].nonce = 0
  /\ SameHoldings(m)

Fund(m) ==
  /\ mandate'[m] = mandate[m]
  /\ \A t \in Accounts : held'[m][t] >= held[m][t]

(* One account pays the whole amount and no other account loses anything.  *)
Spend(m) ==
  /\ mandate[m].phase = "active"
  /\ now < mandate[m].deadline
  /\ \E vault \in Accounts :
       LET amount == held[m][vault] - held'[m][vault] IN
       /\ 0 < amount /\ amount <= mandate[m].cap
       /\ mandate[m].spent + amount <= mandate[m].limit
       /\ mandate'[m] = [mandate[m] EXCEPT !.spent = @ + amount, !.nonce = @ + 1]
       /\ \A t \in Accounts \ {vault} : held'[m][t] >= held[m][t]

Revoke(m) ==
  /\ mandate[m].phase = "active"
  /\ mandate'[m] = [mandate[m] EXCEPT !.phase = "revoked"]
  /\ SameHoldings(m)

Reclaim(m) ==
  /\ mandate[m].phase = "revoked"
  /\ mandate'[m] = mandate[m]

Step(m) == Open(m) \/ Fund(m) \/ Spend(m) \/ Revoke(m) \/ Reclaim(m)

Next ==
  /\ now' >= now
  /\ \A m \in Mandates : Step(m)

Spec == Init /\ [][Next]_vars
=============================================================================
