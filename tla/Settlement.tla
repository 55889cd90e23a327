----------------------------- MODULE Settlement -----------------------------
(***************************************************************************)
(* How a client settles requests: the runs of scripts/demo.ts over the Rpc *)
(* of packages/sdk, each asking, signing, simulating, sending and waiting  *)
(* in turn, several of them over one policy.  Any call to the node can     *)
(* fail, and the answer to sendTransaction can be lost after the node took *)
(* the transaction.                                                        *)
(***************************************************************************)
EXTENDS Cluster, SwapDecision

CONSTANTS
  Runs,         \* processes that run the script, with the same keys
  Evaluating,   \* those that ask evaluateTransaction instead of simulate
  Plans         \* what the runs may be asked to do

VARIABLES
  script,       \* what each run asks for, in order; nothing if it takes no part
  pc,           \* where a run is in its current request
  nonce,        \* the nonce that a run read from the policy
  slot,         \* what was confirmed when its transaction was simulated
  shown,        \* what a run told its user of each request so far
  faulty        \* history: a call failed, a wait ran out, a hash or the policy expired

vars == <<clusterVars, script, pc, nonce, slot, shown, faulty>>

runVars == <<script, pc, nonce, slot, shown, faulty>>

Step == [kind: {"swap"}, amount: Nat, recipient: {"owner", "attacker"}] \cup [kind: {"revoke"}]

ASSUME SettlementAssumption ==
  /\ Evaluating \subseteq Runs
  /\ Plans \subseteq [Runs -> Seq(Step)]
  /\ MaxForks \in Nat

ASSUME NoTxAssumption == NoTx \notin [run: Runs, step: Nat, nonce: Nat]

RATE == 1000
MIN_RATE == 990

Swap(amount, recipient) == [kind |-> "swap", amount |-> amount, recipient |-> recipient]
Revocation == [kind |-> "revoke"]

(* What scripts/demo.ts asks for.                                          *)
Demo ==
  <<Swap(60, "owner"), Swap(101, "owner"), Swap(91, "owner"), Swap(1, "attacker"),
    Swap(60, "attacker"), Revocation, Swap(1, "owner")>>

(* The fixture of scripts/bootstrap.ts, in whole tokens, and its deadline. *)
Fresh ==
  [agent |-> "agent", executor |-> "executor", active |-> TRUE, expires_at |-> 1,
   nonce |-> 0, max_amount |-> 100, total_limit |-> 150, spent |-> 0,
   min_rate |-> MIN_RATE, token_allowed |-> TRUE, allowed_recipients |-> {"owner"}]

ASSUME GenesisAssumption == Genesis = [policy |-> Fresh, vault |-> 150, time |-> 0]

----------------------------------------------------------------------------
RequestOf(run) == script[run][Len(shown[run]) + 1]
TxOf(run) == [run |-> run, step |-> Len(shown[run]) + 1, nonce |-> nonce[run]]

(* swapIx and revokeIx, executed on the given accounts.                    *)
Outcome(tx, state) ==
  LET ask == script[tx.run][tx.step]
      args == [agent |-> "agent", executor |-> "executor", nonce |-> tx.nonce,
               amount |-> ask.amount, min_output |-> ask.amount * MIN_RATE,
               recipient |-> ask.recipient]
      error == Decision(state.policy, RATE, state.vault, state.time, args)
  IN
  IF ask.kind = "revoke"
  THEN [error |-> "Ok", state |-> [state EXCEPT !.policy.active = FALSE]]
  ELSE [error |-> error,
        state |-> IF error = "Ok"
                  THEN [state EXCEPT !.policy = Charge(@, args), !.vault = @ - ask.amount]
                  ELSE state]

----------------------------------------------------------------------------
(* Faulty variants.                                                        *)
Simulation_Finalized(tx) == Outcome(tx, StateAt(rooted)).error

Settled_Confirmed(tx) == AppliedBy(confirmed, tx)
Settled_AnyStatus(tx) == AppliedBy(rooted, tx) \/ FailedBy(rooted, tx)

GiveUp_Never(run) == FALSE /\ UNCHANGED vars

----------------------------------------------------------------------------
Init ==
  /\ ClusterInit
  /\ script \in Plans
  /\ pc = [run \in Runs |-> IF script[run] = <<>> THEN "finished" ELSE "ready"]
  /\ nonce = [run \in Runs |-> 0]
  /\ slot = [run \in Runs |-> 0]
  /\ shown = [run \in Runs |-> <<>>]
  /\ faulty = FALSE

Tells(run, what, next) ==
  /\ shown' = [shown EXCEPT ![run] = Append(@, what)]
  /\ pc' = [pc EXCEPT ![run] = next]

(* The end of a request, and of the run after the last one.                *)
Concludes(run, what) ==
  Tells(run, what, IF Len(shown[run]) + 1 = Len(script[run]) THEN "finished" ELSE "ready")

(* An exception ends the run.                                              *)
Throws(run, what) == Tells(run, what, "thrown")

(* Simulation, and the preflight of sendTransaction, look at what is       *)
(* confirmed, with the transaction's signatures verified.                  *)
Simulation(tx) == Outcome(tx, StateAt(confirmed)).error

(* A status counts as success when it is finalized and has no error.       *)
Settled(tx) == AppliedBy(rooted, tx)

(* account, decodePolicy, transaction: the nonce is read and signed for.   *)
Build(run) ==
  /\ pc[run] = "ready"
  /\ pc' = [pc EXCEPT ![run] = IF RequestOf(run).kind = "revoke" THEN "cleared" ELSE "signed"]
  /\ nonce' = [nonce EXCEPT ![run] =
                 IF RequestOf(run).kind = "revoke" THEN @ ELSE StateAt(confirmed).policy.nonce]
  /\ UNCHANGED <<script, clusterVars, slot, shown, faulty>>

(* A transaction that the simulation rejects is shown and never sent.      *)
Simulate(run) ==
  LET error == Simulation(TxOf(run)) IN
  /\ pc[run] = "signed"
  /\ slot' = [slot EXCEPT ![run] = confirmed]
  /\ IF error = "Ok"
     THEN pc' = [pc EXCEPT ![run] = "cleared"] /\ UNCHANGED shown
     ELSE Concludes(run, error)
  /\ UNCHANGED <<script, clusterVars, nonce, faulty>>

(* evaluateTransaction turns a failing call into a denial.                 *)
EvaluateFails(run) ==
  /\ pc[run] = "signed" /\ run \in Evaluating
  /\ Concludes(run, "SIMULATION_UNAVAILABLE")
  /\ faulty' = TRUE
  /\ UNCHANGED <<script, clusterVars, nonce, slot>>

(* Every other call that fails before the transaction is out.              *)
CallFails(run) ==
  /\ pc[run] \in {"ready", "cleared"} \/ (pc[run] = "signed" /\ run \notin Evaluating)
  /\ Throws(run, "RPC_FAILED")
  /\ faulty' = TRUE
  /\ UNCHANGED <<script, clusterVars, nonce, slot>>

Send(run) ==
  /\ pc[run] = "cleared"
  /\ Simulation(TxOf(run)) = "Ok"
  /\ Accept(TxOf(run))
  /\ pc' = [pc EXCEPT ![run] = "sent"]
  /\ UNCHANGED <<script, nonce, slot, shown, faulty>>

PreflightFails(run) ==
  /\ pc[run] = "cleared"
  /\ Simulation(TxOf(run)) # "Ok"
  /\ Throws(run, "PREFLIGHT_FAILED")
  /\ UNCHANGED <<script, clusterVars, nonce, slot, faulty>>

(* The node took the transaction and its answer never arrived.             *)
AnswerLost(run) ==
  /\ pc[run] = "cleared"
  /\ Simulation(TxOf(run)) = "Ok"
  /\ Accept(TxOf(run))
  /\ Throws(run, "ANSWER_LOST")
  /\ faulty' = TRUE
  /\ UNCHANGED <<script, nonce, slot>>

(* One poll of confirm: an error counts as soon as any block has it.       *)
Poll(run) ==
  /\ pc[run] = "sent"
  /\ \/ FailedBy(Len(blocks), TxOf(run)) /\ Throws(run, "TRANSACTION_FAILED")
     \/ Settled(TxOf(run)) /\ Concludes(run, "FINALIZED")
  /\ UNCHANGED <<script, clusterVars, nonce, slot, faulty>>

(* A status call that fails ends the wait as the timeout does.             *)
GiveUp(run) ==
  /\ pc[run] = "sent"
  /\ Throws(run, "CONFIRMATION_UNKNOWN")
  /\ faulty' = TRUE
  /\ UNCHANGED <<script, clusterVars, nonce, slot>>

Advance(run) ==
  \/ Build(run) \/ Simulate(run) \/ EvaluateFails(run) \/ CallFails(run)
  \/ Send(run) \/ PreflightFails(run) \/ AnswerLost(run) \/ Poll(run) \/ GiveUp(run)

Executes == \E tx \in waiting : Land(tx, Outcome(tx, StateAt(Len(blocks))))

(* A slot without any of these transactions, in which the chain's time     *)
(* reaches the deadline of the policy.                                     *)
Elapse ==
  LET state == StateAt(Len(blocks)) IN
  /\ state.time < Fresh.expires_at
  /\ Intrude([state EXCEPT !.time = Fresh.expires_at])

ClusterMoves ==
  /\ \/ (Executes \/ Confirm \/ Finalize \/ Abandon) /\ UNCHANGED faulty
     \/ (Elapse \/ \E tx \in waiting : Expire(tx)) /\ faulty' = TRUE
  /\ UNCHANGED <<script, pc, nonce, slot, shown>>

Next == ClusterMoves \/ \E run \in Runs : Advance(run)

(* A run never sits still: calls return or fail within their 20 seconds,   *)
(* and the wait ends after 60.  Of the cluster, that it makes blocks.      *)
Spec ==
  /\ Init /\ [][Next]_vars
  /\ \A run \in Runs : WF_vars(Advance(run))
  /\ WF_vars(Executes /\ UNCHANGED runVars)
  /\ WF_vars(Confirm /\ UNCHANGED runVars)
  /\ WF_vars(Finalize /\ UNCHANGED runVars)
----------------------------------------------------------------------------
Requests == UNION { { <<run, k>> : k \in DOMAIN plan[run] } : run \in Runs, plan \in Plans }

Alone(run) == \A other \in Runs \ {run} : script[other] = <<>>

Is(tx, request) == tx # NoTx /\ tx.run = request[1] /\ tx.step = request[2]

(* A request is undecided while its transaction is out and can still land, *)
(* or has landed where it can still be abandoned.                          *)
Undecided(request) ==
  \/ \E tx \in waiting : Is(tx, request)
  \/ \E n \in rooted + 1 .. Len(blocks) : Is(blocks[n].tx, request)

StageOf(request) ==
  LET run == request[1]
      told == shown[run]
  IN
  IF request[2] \in DOMAIN told
  THEN LET what == told[request[2]] IN
       CASE what = "FINALIZED" -> "done"
         [] what = "TRANSACTION_FAILED" -> "failed"
         [] what \in {"CONFIRMATION_UNKNOWN", "ANSWER_LOST"} -> "unknown"
         [] what \in {"RPC_FAILED", "PREFLIGHT_FAILED"} -> "drafted"
         [] OTHER -> "refused"
  ELSE IF pc[run] = "sent" /\ request[2] = Len(told) + 1 THEN "offered" ELSE "drafted"

EffectOf(request) ==
  IF \E n \in 1 .. rooted : Is(blocks[n].tx, request)
  THEN IF \E n \in 1 .. rooted : Is(blocks[n].tx, request) /\ ~Failed(n)
       THEN "applied" ELSE "void"
  ELSE IF \E tx \in expired : Is(tx, request) THEN "void" ELSE "open"

Promise == INSTANCE AtMostOnce
  WITH FailureIsFinal <- FALSE,
       stage <- [request \in Requests |-> StageOf(request)],
       effect <- [request \in Requests |-> EffectOf(request)]
----------------------------------------------------------------------------
(* Unknown settlement is never retried: a run has at most one request out, *)
(* and before it signs the next one the last is decided for good.          *)
NoBlindRetry ==
  \A run \in Runs : \A i, j \in DOMAIN script[run] :
    /\ Undecided(<<run, i>>) /\ Undecided(<<run, j>>) => i = j
    /\ Undecided(<<run, i>>) => pc[run] \in {"sent", "thrown"}

(* ALLOW is provisional, and nothing else: a transaction that was allowed  *)
(* and fails as expired lands after a slot that is later than the          *)
(* simulation and in which the deadline passed; one that fails in another  *)
(* way lands behind another transaction that changed the policy, a spend   *)
(* or a revocation.                                                        *)
ProvisionalOnly ==
  \A n \in DOMAIN blocks :
    LET tx == blocks[n].tx IN
    tx # NoTx /\ tx = TxOf(tx.run) /\ Failed(n) =>
      \E m \in slot[tx.run] + 1 .. n - 1 :
        ~Failed(m) /\ (blocks[m].tx = NoTx <=> blocks[n].error = "Expired")

(* What a run told its user of a request is so, for as long as there is a  *)
(* chain: done is final, denied has no effect, one request has one effect. *)
RequestsHonoured == Promise!Spec

(* What the demo is there to show: one swap and, limit by limit, every     *)
(* denial.                                                                 *)
WalkThrough ==
  <<"FINALIZED", "MaxTransactionExceeded", "CumulativeLimitExceeded",
    "RecipientNotAllowed", "RecipientNotAllowed", "FINALIZED", "Revoked">>

(* No run waits for ever, not even for a transaction that never lands.     *)
(* Alone on its policy, whatever the forks, the demo ends with all of its  *)
(* walk-through shown, or with an exception, or a denial as expired, after *)
(* a call that failed, a wait that ran out or a deadline that passed.      *)
EveryRunEnds ==
  <>(\A run \in Runs :
       /\ pc[run] \in {"finished", "thrown"}
       /\ Alone(run) /\ script[run] = Demo =>
            \/ pc[run] = "finished" /\ shown[run] = WalkThrough
            \/ /\ faulty
               /\ pc[run] = "thrown" \/ \E k \in DOMAIN Demo : shown[run][k] = "Expired")
=============================================================================
