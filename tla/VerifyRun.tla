----------------------------- MODULE VerifyRun -----------------------------
(***************************************************************************)
(* scripts/verify-chain.ts: a suite of attempts against a fresh fixture,   *)
(* each recorded, simulated, announced in the report, broadcast, awaited   *)
(* and examined against the accounts before and after it.  Meanwhile other *)
(* holders of the fixture's keys act, forks are abandoned, calls fail and  *)
(* the process may be killed.  Whenever the script waits, every assignment *)
(* to the report has been saved, so the model keeps the file only.         *)
(* Amounts are in units of UNIT and one base unit is 1.                    *)
(***************************************************************************)
EXTENDS Cluster, SwapDecision

CONSTANT MaxForeign    \* bound: transactions of others, an early deadline among them

VARIABLES
  pc,         \* where the script is in its current attempt
  report,     \* the saved report
  nonce,      \* the nonce the current attempt signed
  foreign,    \* how many transactions of others have landed
  disturbed   \* history: something happened that a quiet run does not meet

vars == <<clusterVars, pc, report, nonce, foreign, disturbed>>

----------------------------------------------------------------------------
RATE == 1000
MIN_RATE == 990

Policies == {"main", "blocked", "expiring"}
Others == {"poolQuote", "poolOutput", "recipient", "attacker", "ownerQuote"}

(* Time is 0 until the expiring policy's deadline passes, then 1.          *)
APolicy(token_allowed, expires_at) ==
  [agent |-> "agent", executor |-> "executor", active |-> TRUE, expires_at |-> expires_at,
   nonce |-> 0, max_amount |-> 100, total_limit |-> 150, spent |-> 0, min_rate |-> MIN_RATE,
   token_allowed |-> token_allowed, allowed_recipients |-> {"recipient"}]

(* The tokens in a policy's vault go by the policy's name.                 *)
Fixture ==
  [time |-> 0,
   policies |-> [p \in Policies |-> IF p = "main" THEN APolicy(TRUE, 2) ELSE NoAccount],
   tokens |-> [[t \in Policies \cup Others |-> 0]
                 EXCEPT !["main"] = 150, !["poolOutput"] = 1000000]]

ASSUME VerifyRunAssumption ==
  /\ Genesis = Fixture
  /\ MaxForeign \in Nat /\ MaxForks \in Nat

(* The attempts in their order.  nonce is "policy" unless it is stated.    *)
aSwap(amount, expect) ==
  [kind |-> "swap", policy |-> "main", amount |-> amount, min_output |-> amount * MIN_RATE,
   recipient |-> "recipient", agent |-> "agent", executor |-> "executor",
   nonce |-> "policy", waits |-> FALSE, expect |-> expect]

aCreation(policy, token_allowed, expires_at) ==
  [kind |-> "create", policy |-> policy, token_allowed |-> token_allowed,
   expires_at |-> expires_at, waits |-> FALSE, expect |-> "Ok"]

Script ==
  <<aSwap(60, "Ok"),
    aSwap(101, "MaxTransactionExceeded"),
    aSwap(91, "CumulativeLimitExceeded"),
    [aSwap(1, "RecipientNotAllowed") EXCEPT !.recipient = "attacker"],
    [aSwap(60, "RecipientNotAllowed") EXCEPT !.recipient = "attacker"],
    [aSwap(1, "StaleNonce") EXCEPT !.nonce = "zero"],
    [aSwap(1, "ConstraintHasOne") EXCEPT !.agent = "outsider"],
    [aSwap(1, "ConstraintHasOne") EXCEPT !.executor = "outsider"],
    [aSwap(1, "SlippageExceeded") EXCEPT !.min_output = MIN_RATE - 1],
    [aSwap(1, "SlippageExceeded") EXCEPT !.min_output = RATE + 1],
    aSwap(90, "Ok"),
    aCreation("blocked", FALSE, 2),
    [aSwap(1, "ProgramNotAllowed") EXCEPT !.policy = "blocked"],
    aCreation("expiring", TRUE, 1),
    [aSwap(1, "Expired") EXCEPT !.policy = "expiring", !.waits = TRUE],
    [kind |-> "revoke", policy |-> "main", waits |-> FALSE, expect |-> "Ok"],
    aSwap(1, "Revoked"),
    [aSwap(1, "Revoked") EXCEPT !.recipient = "attacker"]>>

(* A transaction of the suite is never somebody else's.                    *)
ASSUME NoTxAssumption == NoTx \notin [attempt: 1 .. Len(Script), nonce: Nat]

----------------------------------------------------------------------------
(* What a transaction of the suite does to the accounts.                   *)

Exchanged(tokens, p, r) ==
  [tokens EXCEPT ![p] = @ - r.amount, !["poolQuote"] = @ + r.amount,
                 !["poolOutput"] = @ - r.amount * RATE,
                 ![r.recipient] = @ + r.amount * RATE]

Swapped(s, p, r) ==
  [s EXCEPT !.policies[p] = Charge(@, r), !.tokens = Exchanged(@, p, r)]

SwapOutcome(s, p, r) ==
  LET error == Decision(s.policies[p], RATE, s.tokens[p], s.time, r) IN
  [error |-> error, state |-> IF error = "Ok" THEN Swapped(s, p, r) ELSE s]

CreateOutcome(s, ask) ==
  IF s.policies[ask.policy] = NoAccount /\ ask.expires_at > s.time
  THEN [error |-> "Ok",
        state |-> [s EXCEPT !.policies[ask.policy] = APolicy(ask.token_allowed, ask.expires_at),
                            !.tokens[ask.policy] = 2]]
  ELSE [error |-> "InvalidPolicy", state |-> s]

Outcome(tx, s) ==
  LET ask == Script[tx.attempt] IN
  CASE ask.kind = "swap" -> SwapOutcome(s, ask.policy, [ask EXCEPT !.nonce = tx.nonce])
    [] ask.kind = "create" -> CreateOutcome(s, ask)
    [] OTHER -> [error |-> "Ok", state |-> [s EXCEPT !.policies["main"].active = FALSE]]

----------------------------------------------------------------------------
(* snapshot: one policy, its vault and the fixture's other accounts.       *)
Snapshot(p, n) ==
  [policy |-> StateAt(n).policies[p],
   tokens |-> [t \in {p} \cup Others |-> StateAt(n).tokens[t]]]

(* Faulty variants: balances are not compared, swaps are not asserted.     *)
Unchanged_PolicyOnly(before, after) == before.policy = after.policy

Verdict_Landed(ask, before, after, error) == ask.kind = "create" => error = "Ok"

Unchanged(before, after) == before = after

Success(before, after, amount) ==
  /\ after.policy = [before.policy EXCEPT !.spent = @ + amount, !.nonce = @ + 1]
  /\ after.tokens =
       [t \in DOMAIN before.tokens |-> before.tokens[t] +
          CASE t \in Policies -> -amount
            [] t = "poolQuote" -> amount
            [] t = "poolOutput" -> -amount * RATE
            [] t = "recipient" -> amount * RATE
            [] OTHER -> 0]

(* The assertions after an attempt landed: before and after are positions  *)
(* of the finalized chain, error what the finalized transaction ended with.*)
Verdict(ask, before, after, error) ==
  /\ error = ask.expect
  /\ CASE ask.kind = "swap" /\ ask.expect # "Ok" ->
            Unchanged(Snapshot(ask.policy, before), Snapshot(ask.policy, after))
       [] ask.kind = "swap" /\ ask.expect = "Ok" ->
            Success(Snapshot(ask.policy, before), Snapshot(ask.policy, after), ask.amount)
       [] ask.kind = "create" ->
            /\ StateAt(after).policies[ask.policy] = APolicy(ask.token_allowed, ask.expires_at)
            /\ StateAt(after).tokens[ask.policy] = 2
            /\ Unchanged(Snapshot("main", before), Snapshot("main", after))
       [] OTHER ->
            LET policy == StateAt(before).policies["main"] IN
            Snapshot("main", after) =
              [Snapshot("main", before) EXCEPT !.policy = [policy EXCEPT !.active = FALSE]]

(* The fixture checks at the start.                                        *)
FixtureFresh ==
  LET s == StateAt(rooted) IN
  /\ s.policies["main"] = APolicy(TRUE, 2)
  /\ s.tokens["main"] = 150 /\ s.tokens["poolOutput"] >= 150 * RATE

----------------------------------------------------------------------------
(* Faulty variants of the steps below.                                     *)
Signed_AtFinality(step) == step = "landed"

Settled_Confirmed(n) == n \in 1 .. confirmed

ChainTimeReached_Trusted(ask) == TRUE

----------------------------------------------------------------------------
Attempts == report.attempts
Last == Len(Attempts)
Ask == Script[Last]
Tx == [attempt |-> Last, nonce |-> nonce]

Init ==
  /\ ClusterInit
  /\ pc = "begin"
  /\ report = [status |-> "RUNNING", attempts |-> <<>>]
  /\ nonce = 0 /\ foreign = 0 /\ disturbed = FALSE

(* The attempt in hand is rewritten and the report saved: to a file aside, *)
(* then renamed, so that the report is never half written.                 *)
Saves(attempt) == report' = [report EXCEPT !.attempts[Last] = attempt]

(* The handler at the end of the script.                                   *)
Fails == report' = [report EXCEPT !.status = "FAILED"] /\ pc' = "stopped"

Begin ==
  /\ pc = "begin"
  /\ IF FixtureFresh THEN pc' = "next" /\ UNCHANGED report ELSE Fails
  /\ UNCHANGED <<clusterVars, nonce, foreign, disturbed>>

(* The suite compares the expiry with the time of the finalized chain.     *)
ChainTimeReached(ask) == ask.waits => StateAt(rooted).time >= 1

(* The snapshot before, and the attempt as PENDING.                        *)
Record ==
  LET ask == Script[Last + 1] IN
  /\ pc = "next" /\ Last < Len(Script)
  /\ ChainTimeReached(ask)
  /\ nonce' = IF ask.kind = "swap" /\ ask.nonce = "policy"
              THEN StateAt(rooted).policies[ask.policy].nonce ELSE 0
  /\ report' = [report EXCEPT !.attempts = Append(@,
       [result |-> "PENDING", signature |-> FALSE, error |-> "none", executed |-> FALSE,
        before |-> rooted, after |-> rooted, passed |-> FALSE])]
  /\ pc' = "recorded"
  /\ UNCHANGED <<clusterVars, foreign, disturbed>>

Simulation(tx) == Outcome(tx, StateAt(confirmed)).error

(* The verdict of the simulation is saved before it is compared.           *)
Simulate ==
  LET error == Simulation(Tx)
      saved == [Attempts[Last] EXCEPT !.result = IF error = "Ok" THEN "ALLOW" ELSE "DENY"]
  IN
  /\ pc = "recorded"
  /\ IF error = Ask.expect
     THEN Saves(saved) /\ pc' = "simulated"
     ELSE /\ report' = [report EXCEPT !.attempts[Last] = saved, !.status = "FAILED"]
          /\ pc' = "stopped"
  /\ UNCHANGED <<clusterVars, nonce, foreign, disturbed>>

(* After which step the signature is in the report.                        *)
Signed(step) == step \in {"announced", "landed"}

Announce ==
  /\ pc = "simulated"
  /\ Saves([Attempts[Last] EXCEPT !.signature = Signed("announced")])
  /\ pc' = "announced"
  /\ UNCHANGED <<clusterVars, nonce, foreign, disturbed>>

(* Expected denials skip the preflight.                                    *)
Admitted == Ask.expect # "Ok" \/ Simulation(Tx) = "Ok"

Send ==
  /\ pc = "announced"
  /\ IF Admitted
     THEN Accept(Tx) /\ pc' = "sent" /\ UNCHANGED report
     ELSE Fails /\ UNCHANGED clusterVars
  /\ UNCHANGED <<nonce, foreign, disturbed>>

(* The answer to sendTransaction is lost on its way.                       *)
AnswerLost ==
  /\ pc = "announced" /\ Admitted
  /\ Accept(Tx)
  /\ Fails
  /\ disturbed' = TRUE
  /\ UNCHANGED <<nonce, foreign>>

(* Any other call that fails.                                              *)
CallFails ==
  /\ pc \in {"begin", "next", "recorded", "announced", "landed"}
  /\ Fails
  /\ disturbed' = TRUE
  /\ UNCHANGED <<clusterVars, nonce, foreign>>

(* Only a transaction without an error gets the executed signature.        *)
Executed(error) == error = "Ok"

(* finalized has seen the transaction.                                     *)
Settled(n) == n \in 1 .. rooted

Observe ==
  /\ pc = "sent"
  /\ \E n \in DOMAIN blocks :
       /\ Settled(n) /\ blocks[n].tx = Tx
       /\ Saves([Attempts[Last] EXCEPT !.error = blocks[n].error,
                                       !.executed = Executed(blocks[n].error),
                                       !.signature = Signed("landed")])
  /\ pc' = "landed"
  /\ UNCHANGED <<clusterVars, nonce, foreign, disturbed>>

(* 120 seconds without an outcome, or without the chain reaching expiry.   *)
GiveUp ==
  /\ \/ pc = "sent"
     \/ pc = "next" /\ Last < Len(Script) /\ Script[Last + 1].waits
  /\ Fails
  /\ disturbed' = TRUE
  /\ UNCHANGED <<clusterVars, nonce, foreign>>

(* The snapshot after, and the assertions.                                 *)
Examine ==
  LET attempt == Attempts[Last]
      passed == Verdict(Ask, attempt.before, rooted, attempt.error)
      saved == [attempt EXCEPT !.after = rooted, !.passed = passed]
  IN
  /\ pc = "landed"
  /\ IF passed
     THEN Saves(saved) /\ pc' = "next"
     ELSE /\ report' = [report EXCEPT !.attempts[Last] = saved, !.status = "FAILED"]
          /\ pc' = "stopped"
  /\ UNCHANGED <<clusterVars, nonce, foreign, disturbed>>

Finish ==
  /\ pc = "next" /\ Last = Len(Script)
  /\ report' = [report EXCEPT !.status = "PASSED"]
  /\ pc' = "stopped"
  /\ UNCHANGED <<clusterVars, nonce, foreign, disturbed>>

Run ==
  Begin \/ Record \/ Simulate \/ Announce \/ Send \/ AnswerLost \/ CallFails \/ Observe
    \/ GiveUp \/ Examine \/ Finish

(* The process is killed; the file stays as it is.                         *)
Crash ==
  /\ pc # "stopped"
  /\ pc' = "stopped"
  /\ disturbed' = TRUE
  /\ UNCHANGED <<clusterVars, report, nonce, foreign>>

----------------------------------------------------------------------------
(* The cluster, and the others on it.                                      *)
Latest == StateAt(Len(blocks))

script == <<pc, report, nonce>>

Executes ==
  /\ \E tx \in waiting : Land(tx, Outcome(tx, Latest))
  /\ UNCHANGED <<script, foreign, disturbed>>

Confirms == Confirm /\ UNCHANGED <<script, foreign, disturbed>>
Finalizes == Finalize /\ UNCHANGED <<script, foreign, disturbed>>
Abandons == Abandon /\ UNCHANGED <<script, foreign, disturbed>>

Expires ==
  /\ \E tx \in waiting : Expire(tx)
  /\ disturbed' = TRUE
  /\ UNCHANGED <<script, foreign>>

(* A second holder of the agent's keys, the owner, or anyone with tokens,  *)
(* while the suite runs or after its end.                                  *)
Interferes ==
  /\ foreign < MaxForeign
  /\ foreign' = foreign + 1
  /\ disturbed' = TRUE
  /\ LET swap == [aSwap(10, "Ok") EXCEPT !.nonce = Latest.policies["main"].nonce] IN
     \/ Intrude(SwapOutcome(Latest, "main", swap).state)
     \/ Intrude([Latest EXCEPT !.policies["main"].active = FALSE])
     \/ \E t \in {"main", "recipient", "attacker"} :
          Intrude([Latest EXCEPT !.tokens[t] = @ + 1])
  /\ UNCHANGED script

(* The deadline passes; early, if the expiring policy is not there yet,    *)
(* which counts as an act of others.                                       *)
Tick(early) ==
  /\ Latest.time = 0
  /\ early <=> StateAt(rooted).policies["expiring"] = NoAccount
  /\ Intrude([Latest EXCEPT !.time = 1])
  /\ early => foreign < MaxForeign
  /\ foreign' = IF early THEN foreign + 1 ELSE foreign
  /\ disturbed' = (disturbed \/ early)
  /\ UNCHANGED script

Next ==
  \/ Run \/ Crash
  \/ Executes \/ Confirms \/ Finalizes \/ Abandons \/ Expires \/ Interferes
  \/ \E early \in BOOLEAN : Tick(early)

(* The script goes on: every call returns or fails within 20 seconds and   *)
(* both waits end after 120.  The cluster makes blocks and its time passes.*)
Spec ==
  /\ Init /\ [][Next]_vars
  /\ WF_vars(Run) /\ WF_vars(Executes) /\ WF_vars(Confirms) /\ WF_vars(Finalizes)
  /\ WF_vars(Tick(FALSE))
----------------------------------------------------------------------------
Requests == DOMAIN Script

StageOf(k) ==
  IF k \notin DOMAIN Attempts \/ ~Attempts[k].signature THEN "drafted"
  ELSE CASE Attempts[k].error = "Ok" -> "done"
         [] Attempts[k].error \notin {"Ok", "none"} -> "failed"
         [] Attempts[k].error = "none" /\ pc = "announced" -> "drafted"
         [] Attempts[k].error = "none" /\ pc = "sent" -> "offered"
         [] OTHER -> "unknown"

EffectOf(k) ==
  IF \E n \in 1 .. rooted : blocks[n].tx # NoTx /\ blocks[n].tx.attempt = k
  THEN IF \E n \in 1 .. rooted : blocks[n].tx # NoTx /\ blocks[n].tx.attempt = k /\ ~Failed(n)
       THEN "applied" ELSE "void"
  ELSE IF \E tx \in expired : tx.attempt = k THEN "void" ELSE "open"

Promise == INSTANCE AtMostOnce
  WITH FailureIsFinal <- TRUE,
       stage <- [k \in Requests |-> StageOf(k)],
       effect <- [k \in Requests |-> EffectOf(k)]
----------------------------------------------------------------------------
(* A timed-out request must not erase an admitted attempt: whatever the    *)
(* node ever took, its signature is in the report on disk, after a lost    *)
(* answer and after a crash too.                                           *)
EveryBroadcastReported ==
  \A tx \in Accepted : tx.attempt \in DOMAIN Attempts /\ Attempts[tx.attempt].signature

(* What the report says of an attempt is what became final: the executed   *)
(* signature is kept for transactions without an error, a passed attempt   *)
(* ended as the suite expected, and all that changed in its accounts       *)
(* between its two snapshots it changed itself.  (Two acts of others that  *)
(* undo each other would go unseen; no two of Interferes do.)              *)
ReportTrue ==
  \A k \in DOMAIN Attempts :
    LET a == Attempts[k] IN
    /\ a.error # "none" =>
         /\ a.executed <=> EffectOf(k) = "applied"
         /\ ~a.executed <=> EffectOf(k) = "void"
    /\ a.passed =>
         /\ a.error = Script[k].expect
         /\ Script[k].kind = "swap" =>
              \A n \in a.before + 1 .. a.after :
                blocks[n].tx = NoTx =>
                  Snapshot(Script[k].policy, n) = Snapshot(Script[k].policy, n - 1)

(* PASSED covers every attempt and means exact accounting, whatever others *)
(* do before the suite's end or after it: the suite's two swaps, and       *)
(* nobody else, spent the whole limit, all of it was paid for to the       *)
(* recipient, and the policy is revoked for good.  (Of the attacker's      *)
(* account it says nothing: the suite compares it within an attempt only.) *)
PassedSuite ==
  report.status = "PASSED" =>
    /\ Last = Len(Script) /\ \A k \in 1 .. Last : Attempts[k].passed
    /\ \A n \in rooted .. Len(blocks) :
         /\ StateAt(n).policies["main"].spent = 150 /\ StateAt(n).policies["main"].nonce = 2
         /\ ~StateAt(n).policies["main"].active
         /\ StateAt(n).tokens["recipient"] >= 150 * RATE

(* What the report says of a transaction stays true: each is executed once *)
(* or never, and an outcome is reported only when it is final.             *)
RequestsHonoured == Promise!Spec

(* The suite comes to an end, whatever the cluster does, and left alone it *)
(* passes: every one of its expectations is what the program does.         *)
SuiteEnds == <>(pc = "stopped" /\ (disturbed \/ report.status = "PASSED"))
=============================================================================
