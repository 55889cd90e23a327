----------------------------- MODULE AtMostOnce -----------------------------
(***************************************************************************)
(* What a client promises of each request it may make: a request has its   *)
(* effect once or never; one that was refused, or not made yet, has none;  *)
(* the client calls a request done only when the effect is final, and      *)
(* forgets nothing it said.  Of a request it lost sight of it says only    *)
(* that.  If FailureIsFinal it calls a request failed only when it will    *)
(* never have an effect.                                                   *)
(***************************************************************************)
CONSTANTS Requests, FailureIsFinal

VARIABLES
  stage,    \* what the client says of a request
  effect    \* whether its effect is open, applied for good or void for good

vars == <<stage, effect>>

Init ==
  /\ stage = [r \in Requests |-> "drafted"]
  /\ effect = [r \in Requests |-> "open"]

Becomes(r, s) == stage' = [stage EXCEPT ![r] = s] /\ UNCHANGED effect

Offer(r) == stage[r] = "drafted" /\ Becomes(r, "offered")
Refuse(r) == stage[r] = "drafted" /\ effect[r] = "open" /\ Becomes(r, "refused")
LoseSight(r) == stage[r] \in {"drafted", "offered"} /\ Becomes(r, "unknown")
Succeed(r) == stage[r] = "offered" /\ effect[r] = "applied" /\ Becomes(r, "done")

Fail(r) ==
  /\ stage[r] = "offered"
  /\ FailureIsFinal => effect[r] = "void"
  /\ Becomes(r, "failed")

Settle(r) ==
  /\ stage[r] \in {"offered", "unknown"} \/ (stage[r] = "failed" /\ ~FailureIsFinal)
  /\ effect[r] = "open"
  /\ \E e \in {"applied", "void"} : effect' = [effect EXCEPT ![r] = e]
  /\ UNCHANGED stage

Next ==
  \E r \in Requests :
    Offer(r) \/ Refuse(r) \/ LoseSight(r) \/ Succeed(r) \/ Fail(r) \/ Settle(r)

Spec == Init /\ [][Next]_vars
=============================================================================
