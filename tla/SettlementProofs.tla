-------------------------- MODULE SettlementProofs --------------------------
(***************************************************************************)
(* Theorems about Settlement for any number of runs, whatever they are     *)
(* asked to do, and any number of forks.                                   *)
(***************************************************************************)
EXTENDS Settlement, WellFoundedInduction, TLAPS

(* What a run can tell its user of a request.                              *)
Errors ==
  {"ConstraintHasOne", "Revoked", "Expired", "StaleNonce", "InvalidAmount",
   "MaxTransactionExceeded", "Overflow", "CumulativeLimitExceeded", "ProgramNotAllowed",
   "SlippageExceeded", "RecipientNotAllowed", "InsufficientFunds"}
Unsent == {"RPC_FAILED", "PREFLIGHT_FAILED"}
Refusals == Errors \cup {"SIMULATION_UNAVAILABLE"}
Unsure == {"TRANSACTION_FAILED", "CONFIRMATION_UNKNOWN", "ANSWER_LOST"}
Answers == Unsent \cup Refusals \cup Unsure \cup {"FINALIZED"}

Places == {"ready", "signed", "cleared", "sent", "finished", "thrown"}

(* The policy as create_policy made it, charged and revoked.               *)
Policy ==
  [agent: {"agent"}, executor: {"executor"}, active: BOOLEAN, expires_at: {1},
   nonce: Nat, max_amount: {100}, total_limit: {150}, spent: Nat,
   min_rate: {MIN_RATE}, token_allowed: {TRUE}, allowed_recipients: {{"owner"}}]
Accounts == [policy: Policy, vault: Int, time: {0, 1}]
Transaction == [run: Runs, step: Nat, nonce: Nat]
Block == [tx: Transaction \cup {NoTx}, error: Errors \cup {"Ok"}, state: Accounts]

TypeInv ==
  /\ script \in Plans
  /\ pc \in [Runs -> Places] /\ nonce \in [Runs -> Nat] /\ slot \in [Runs -> Nat]
  /\ shown \in [Runs -> Seq(Answers)]
  /\ blocks \in Seq(Block) /\ waiting \subseteq Transaction /\ expired \subseteq Transaction
  /\ confirmed \in 0 .. Len(blocks) /\ rooted \in 0 .. confirmed

(* A run has a request to work on until it has ended.                      *)
PlanInv ==
  \A run \in Runs :
    /\ Len(shown[run]) <= Len(script[run])
    /\ pc[run] \notin {"finished", "thrown"} => Len(shown[run]) < Len(script[run])

Taken == waiting \cup expired \cup ({ blocks[n].tx : n \in DOMAIN blocks } \ {NoTx})

Current(tx) == pc[tx.run] = "sent" /\ tx = TxOf(tx.run)

(* What the node took, a run sent for a request of its script: an earlier  *)
(* one, or the one it is waiting for.                                      *)
SentInv ==
  \A tx \in Taken :
    /\ tx.step \in DOMAIN script[tx.run]
    /\ tx.step <= Len(shown[tx.run]) \/ Current(tx)

(* There is one transaction of a request, in one place.                    *)
OnceInv ==
  /\ \A tx, ty \in Taken : tx.run = ty.run /\ tx.step = ty.step => tx = ty
  /\ waiting \cap expired = {}
  /\ \A n \in DOMAIN blocks : blocks[n].tx \notin waiting \cup expired
  /\ \A m, n \in DOMAIN blocks : blocks[m].tx # NoTx /\ blocks[m].tx = blocks[n].tx => m = n

(* What is still open is what a run waits for, or gave up with.            *)
OpenInv ==
  \A tx \in waiting \cup ({ blocks[n].tx : n \in rooted + 1 .. Len(blocks) } \ {NoTx}) :
    \/ Current(tx)
    \/ /\ pc[tx.run] = "thrown" /\ tx.step = Len(shown[tx.run])
       /\ shown[tx.run][tx.step] \in Unsure

(* Every block holds what its transaction does to the accounts before it,  *)
(* or a later time.  So between two blocks of different accounts a         *)
(* transaction did not fail, and between two times the deadline passed.    *)
Explained(b, state) ==
  IF b.tx = NoTx
  THEN /\ b.error = "Ok"
       /\ b.state.policy = state.policy /\ b.state.vault = state.vault
  ELSE b.error = Outcome(b.tx, state).error /\ b.state = Outcome(b.tx, state).state

Between(m, n) ==
  /\ \/ StateAt(m).policy = StateAt(n).policy /\ StateAt(m).vault = StateAt(n).vault
     \/ \E k \in m + 1 .. n : ~Failed(k) /\ blocks[k].tx # NoTx
  /\ \/ StateAt(m).time = StateAt(n).time
     \/ \E k \in m + 1 .. n : ~Failed(k) /\ blocks[k].tx = NoTx

ChainInv ==
  /\ \A n \in DOMAIN blocks : Explained(blocks[n], StateAt(n - 1))
  /\ \A m, n \in 0 .. Len(blocks) : m <= n => Between(m, n)

(* What is sent would have succeeded where it was simulated, and lands     *)
(* only after that.                                                        *)
SlotInv ==
  \A run \in Runs :
    /\ slot[run] <= confirmed
    /\ pc[run] \in {"cleared", "sent"} => Outcome(TxOf(run), StateAt(slot[run])).error = "Ok"
    /\ pc[run] = "sent" =>
         \A n \in DOMAIN blocks : blocks[n].tx = TxOf(run) => slot[run] < n

IInv ==
  TypeInv /\ PlanInv /\ SentInv /\ OnceInv /\ OpenInv /\ ChainInv /\ SlotInv

----------------------------------------------------------------------------
(* What the program answers.                                               *)

(* Of the numbers in a set one comes first.                                *)
LEMMA Earliest ==
  ASSUME NEW T, T \subseteq Nat, T # {}
  PROVE  \E x \in T : \A y \in T : ~(y < x)
<1>1. PICK R : R = OpToRel(<, Nat)
  OBVIOUS
<1>2. \A x, y : <<y, x>> \in R <=> x \in Nat /\ y \in Nat /\ y < x
  BY <1>1 DEF OpToRel
<1>3. \E x \in T : \A y \in T : <<y, x>> \notin R
  <2>1. IsWellFoundedOn(R, Nat)
    BY <1>1, NatLessThanWellFounded
  <2> QED
    BY <2>1, WFMin
<1> QED
  BY <1>2, <1>3

(* It is the first of the checks that fail that answers.                  *)
LEMMA FirstOf ==
  ASSUME NEW checks, DOMAIN checks = 1 .. 13
  PROVE  \/ (\A i \in 1 .. 13 : checks[i].ok) /\ FirstFailure(checks) = "Ok"
         \/ \E i \in 1 .. 13 : ~checks[i].ok /\ FirstFailure(checks) = checks[i].error
<1>1. PICK failing : failing = { i \in 1 .. 13 : ~checks[i].ok }
  OBVIOUS
<1>2. CASE failing = {}
  BY <1>1, <1>2 DEF FirstFailure
<1>3. CASE failing # {}
  <2> DEFINE first == CHOOSE i \in 1 .. 13 : ~checks[i].ok /\ \A j \in 1 .. i - 1 : checks[j].ok
  <2>1. PICK x \in failing : \A y \in failing : ~(y < x)
    BY <1>1, <1>3, Earliest
  <2>2. ~checks[x].ok /\ \A j \in 1 .. x - 1 : checks[j].ok
    BY <1>1, <2>1
  <2>3. first \in 1 .. 13 /\ ~checks[first].ok
    BY <1>1, <2>2
  <2>4. FirstFailure(checks) = checks[first].error
    BY <1>1, <2>2 DEF FirstFailure
  <2> QED
    BY <2>3, <2>4
<1> QED
  BY <1>2, <1>3

(* The program succeeds or answers with one of its errors.                 *)
LEMMA DecisionRange ==
  ASSUME NEW p, NEW rate, NEW vault, NEW now, NEW r
  PROVE  Decision(p, rate, vault, now, r) \in Errors \cup {"Ok"}
<1>1. PICK checks : checks = Checks(p, rate, vault, now, r)
  OBVIOUS
<1>2. DOMAIN checks = 1 .. 13 /\ \A i \in 1 .. 13 : checks[i].error \in Errors
  BY <1>1 DEF Checks, Errors
<1> QED
  BY <1>1, <1>2, FirstOf DEF Decision

(* That the deadline has passed is all that can stop what succeeded on the *)
(* same accounts before,                                                   *)
LEMMA OnlyExpires ==
  ASSUME NEW p, NEW rate, NEW vault, NEW r, NEW t, NEW u,
         Decision(p, rate, vault, t, r) = "Ok", Decision(p, rate, vault, u, r) # "Ok"
  PROVE  Decision(p, rate, vault, u, r) = "Expired"
<1>1. PICK before, checks : /\ before = Checks(p, rate, vault, t, r)
                            /\ checks = Checks(p, rate, vault, u, r)
  OBVIOUS
<1>2. DOMAIN before = 1 .. 13 /\ DOMAIN checks = 1 .. 13 /\ checks[3].error = "Expired"
  BY <1>1 DEF Checks
<1>3. \A i \in 1 .. 13 : before[i].error \in Errors
  BY <1>1 DEF Checks, Errors
<1>4. \A i \in 1 .. 13 : i # 3 /\ before[i].ok => checks[i].ok
  BY <1>1 DEF Checks
<1>5. \A i \in 1 .. 13 : before[i].ok
  BY <1>1, <1>2, <1>3, FirstOf DEF Decision, Errors
<1>6. \E i \in 1 .. 13 : ~checks[i].ok /\ FirstFailure(checks) = checks[i].error
  BY <1>1, <1>2, FirstOf DEF Decision
<1> QED
  BY <1>1, <1>2, <1>4, <1>5, <1>6 DEF Decision

(* and it answers Expired only when that has happened.                     *)
LEMMA ExpiresLater ==
  ASSUME NEW p, NEW rate, NEW vault, NEW r, NEW t,
         NEW q, NEW rest, NEW u, q.expires_at = p.expires_at,
         Decision(p, rate, vault, t, r) = "Ok", Decision(q, rate, rest, u, r) = "Expired"
  PROVE  t # u
<1>1. PICK before, checks : /\ before = Checks(p, rate, vault, t, r)
                            /\ checks = Checks(q, rate, rest, u, r)
  OBVIOUS
<1>2. /\ DOMAIN before = 1 .. 13 /\ DOMAIN checks = 1 .. 13
      /\ before[3].ok = (t < p.expires_at) /\ checks[3].ok = (u < q.expires_at)
  BY <1>1 DEF Checks
<1>3. \A i \in 1 .. 13 : before[i].error \in Errors
  BY <1>1 DEF Checks, Errors
<1>4. \A i \in 1 .. 13 : checks[i].error = "Expired" => i = 3
  BY <1>1 DEF Checks
<1>5. before[3].ok
  BY <1>1, <1>2, <1>3, FirstOf DEF Decision, Errors
<1>6. ~checks[3].ok
  BY <1>1, <1>2, <1>4, FirstOf DEF Decision
<1> QED
  BY <1>2, <1>5, <1>6

LEMMA ChargeType ==
  ASSUME NEW p \in Policy, NEW r, r.amount \in Nat
  PROVE  Charge(p, r) \in Policy
<1> DEFINE total == p.spent + r.amount
           next == p.nonce + 1
<1>1. total \in Nat /\ next \in Nat
  BY DEF Policy
<1> HIDE DEF total, next
<1> DEFINE q == [p EXCEPT !.spent = total]
<1>2. q \in Policy
  BY <1>1 DEF Policy
<1>3. Charge(p, r) = [q EXCEPT !.nonce = next]
  BY DEF Charge, Policy, total, next
<1> HIDE DEF q
<1>4. [q EXCEPT !.nonce = next] \in Policy
  BY <1>1, <1>2 DEF Policy
<1> QED
  BY ONLY <1>3, <1>4

(* A revoked policy is a policy.                                           *)
LEMMA RevokedType ==
  ASSUME NEW p \in Policy, NEW q, q = [p EXCEPT !.active = FALSE]
  PROVE  q \in Policy
BY DEF Policy

(* What a transaction makes of the accounts: a failing one leaves them as  *)
(* they are.                                                               *)
LEMMA OutcomeType ==
  ASSUME TypeInv, NEW tx \in Transaction, tx.step \in DOMAIN script[tx.run],
         NEW state \in Accounts
  PROVE  /\ Outcome(tx, state).error \in Errors \cup {"Ok"}
         /\ Outcome(tx, state).state \in Accounts
         /\ Outcome(tx, state).error # "Ok" => Outcome(tx, state).state = state
         /\ Outcome(tx, state).state.time = state.time
<1> DEFINE ask == script[tx.run][tx.step]
           args == [agent |-> "agent", executor |-> "executor", nonce |-> tx.nonce,
                    amount |-> ask.amount, min_output |-> ask.amount * MIN_RATE,
                    recipient |-> ask.recipient]
           error == Decision(state.policy, RATE, state.vault, state.time, args)
           spent == [state EXCEPT !.policy = Charge(@, args), !.vault = @ - ask.amount]
           revoked == [state EXCEPT !.policy.active = FALSE]
<1>1. tx.run \in Runs /\ script \in [Runs -> Seq(Step)]
  BY SettlementAssumption DEF TypeInv, Transaction, SettlementAssumption
<1>2. ask \in Step
  BY <1>1
<1>3. CASE ask.kind = "revoke"
  <2>1. Outcome(tx, state) = [error |-> "Ok", state |-> revoked]
    BY <1>3 DEF Outcome
  <2>2. revoked \in Accounts /\ revoked.time = state.time
    <3>1. PICK p \in Policy : p = [state.policy EXCEPT !.active = FALSE]
      BY RevokedType DEF Accounts
    <3>2. revoked = [state EXCEPT !.policy = p]
      BY <3>1 DEF Accounts
    <3> QED
      BY ONLY <3>2, state \in Accounts, p \in Policy DEF Accounts
  <2> HIDE DEF revoked
  <2> QED
    BY <2>1, <2>2
<1>4. CASE ask.kind # "revoke"
  <2>1. ask.amount \in Nat
    BY <1>2, <1>4 DEF Step
  <2>2. Outcome(tx, state) = [error |-> error, state |-> IF error = "Ok" THEN spent ELSE state]
    BY <1>4 DEF Outcome
  <2>3. error \in Errors \cup {"Ok"}
    BY DecisionRange
  <2>4. spent \in Accounts /\ spent.time = state.time
    <3>1. args.amount = ask.amount
      OBVIOUS
    <3> HIDE DEF args
    <3>2. Charge(state.policy, args) \in Policy
      BY <2>1, <3>1, ChargeType DEF Accounts
    <3>3. state.vault - ask.amount \in Int
      BY <2>1 DEF Accounts
    <3> QED
      BY <3>2, <3>3 DEF Accounts
  <2> HIDE DEF spent, error
  <2> QED
    BY <2>2, <2>3, <2>4
<1> QED
  BY <1>3, <1>4

LEMMA StateType ==
  ASSUME TypeInv, NEW n \in 0 .. Len(blocks)
  PROVE  StateAt(n) \in Accounts
<1>1. blocks \in Seq(Block)
  BY DEF TypeInv
<1>2. CASE n = 0
  <2>1. Genesis = [policy |-> Fresh, vault |-> 150, time |-> 0]
    BY GenesisAssumption DEF GenesisAssumption
  <2>2. Fresh \in Policy
    BY DEF Fresh, Policy
  <2> HIDE DEF Fresh
  <2> QED
    BY <1>2, <2>1, <2>2 DEF StateAt, Accounts
<1>3. CASE n # 0
  <2>1. blocks[n] \in Block
    BY <1>1, <1>3
  <2> QED
    BY <1>3, <2>1 DEF StateAt, Block
<1> QED
  BY <1>2, <1>3

----------------------------------------------------------------------------
(* What a run does.                                                        *)

Same(run) ==
  /\ pc'[run] = pc[run] /\ nonce'[run] = nonce[run] /\ slot'[run] = slot[run]
  /\ shown'[run] = shown[run]

Posts(run) ==
  /\ pc[run] = "cleared" /\ Outcome(TxOf(run), StateAt(confirmed)).error = "Ok"
  /\ waiting' = IF TxOf(run) \in Accepted THEN waiting ELSE waiting \cup {TxOf(run)}

(* It gets on with a request,                                              *)
Prepares(run) ==
  /\ pc[run] \in {"ready", "signed"} /\ pc'[run] \in {"signed", "cleared"}
  /\ shown'[run] = shown[run] /\ waiting' = waiting
  /\ slot'[run] \in {slot[run], confirmed}
  /\ pc'[run] = "cleared" => Outcome(TxOf(run)', StateAt(slot'[run])).error = "Ok"

(* sends its transaction,                                                  *)
Offers(run) ==
  /\ Posts(run)
  /\ pc'[run] = "sent" /\ nonce'[run] = nonce[run] /\ slot'[run] = slot[run]
  /\ shown'[run] = shown[run]

(* or says what became of it.                                              *)
Speaks(run, what) ==
  /\ shown'[run] = Append(shown[run], what)
  /\ slot'[run] \in {slot[run], confirmed}
  /\ \/ pc'[run] = "thrown"
     \/ pc'[run] = IF Len(shown[run]) + 1 = Len(script[run]) THEN "finished" ELSE "ready"
  /\ \/ /\ pc[run] = "sent" /\ waiting' = waiting
        /\ \/ what \in {"TRANSACTION_FAILED", "CONFIRMATION_UNKNOWN"} /\ pc'[run] = "thrown"
           \/ what = "FINALIZED" /\ AppliedBy(rooted, TxOf(run))
     \/ Posts(run) /\ what = "ANSWER_LOST" /\ pc'[run] = "thrown"
     \/ /\ pc[run] \in {"ready", "signed", "cleared"} /\ waiting' = waiting
        /\ what \in Unsent \cup Refusals

(* A run with a request to work on signs what is in its script.            *)
LEMMA RequestType ==
  ASSUME TypeInv, PlanInv, NEW run \in Runs, pc[run] \notin {"finished", "thrown"}
  PROVE  /\ TxOf(run) \in Transaction /\ TxOf(run).run = run
         /\ TxOf(run).step = Len(shown[run]) + 1
         /\ TxOf(run).step \in DOMAIN script[run]
         /\ script[run] \in Seq(Step) /\ shown[run] \in Seq(Answers)
<1>1. script[run] \in Seq(Step) /\ shown[run] \in Seq(Answers) /\ nonce[run] \in Nat
  BY SettlementAssumption DEF TypeInv, SettlementAssumption
<1>2. Len(shown[run]) < Len(script[run]) /\ Len(shown[run]) \in Nat /\ Len(script[run]) \in Nat
  BY <1>1 DEF PlanInv
<1>3. DOMAIN script[run] = 1 .. Len(script[run])
  BY <1>1
<1>4. Len(shown[run]) + 1 \in DOMAIN script[run] /\ Len(shown[run]) + 1 \in Nat
  BY <1>2, <1>3
<1> QED
  BY <1>1, <1>4 DEF TxOf, Transaction

(* What telling does.                                                      *)
LEMMA Telling ==
  ASSUME TypeInv, NEW run \in Runs, NEW what \in Answers, NEW next \in Places,
         Tells(run, what, next)
  PROVE  /\ shown' \in [Runs -> Seq(Answers)] /\ pc' \in [Runs -> Places]
         /\ shown'[run] = Append(shown[run], what) /\ pc'[run] = next
         /\ \A other \in Runs \ {run} : shown'[other] = shown[other] /\ pc'[other] = pc[other]
  BY DEF TypeInv, Tells

(* An action of a run leaves the chain and the others alone.               *)
LEMMA AdvanceStep ==
  ASSUME TypeInv, PlanInv, NEW run \in Runs, Advance(run)
  PROVE  /\ UNCHANGED <<script, blocks, confirmed, rooted, expired, forks>>
         /\ pc' \in [Runs -> Places] /\ nonce' \in [Runs -> Nat] /\ slot' \in [Runs -> Nat]
         /\ shown' \in [Runs -> Seq(Answers)]
         /\ \A other \in Runs \ {run} : Same(other)
         /\ pc[run] \notin {"finished", "thrown"}
         /\ \/ Prepares(run) \/ Offers(run)
            \/ \E what \in Answers : Speaks(run, what)
<1> DEFINE R == RequestOf(run)
           next == IF Len(shown[run]) + 1 = Len(script[run]) THEN "finished" ELSE "ready"
<1>0. /\ pc \in [Runs -> Places] /\ nonce \in [Runs -> Nat] /\ slot \in [Runs -> Nat]
      /\ shown \in [Runs -> Seq(Answers)] /\ confirmed \in Nat
      /\ confirmed \in 0 .. Len(blocks)
  BY DEF TypeInv
<1>1. CASE Build(run)
  <2>1. /\ pc[run] = "ready" /\ UNCHANGED <<script, clusterVars, slot, shown, faulty>>
        /\ pc' = [pc EXCEPT ![run] = IF R.kind = "revoke" THEN "cleared" ELSE "signed"]
        /\ nonce' = [nonce EXCEPT ![run] =
                       IF R.kind = "revoke" THEN @ ELSE StateAt(confirmed).policy.nonce]
    BY <1>1 DEF Build
  <2>2. StateAt(confirmed).policy.nonce \in Nat
    BY <1>0, StateType DEF Accounts, Policy
  <2>3. ASSUME R.kind = "revoke" PROVE Outcome(TxOf(run)', StateAt(slot'[run])).error = "Ok"
    <3>1. script[(TxOf(run)').run][(TxOf(run)').step] = R
      BY <2>1 DEF TxOf, RequestOf
    <3> QED
      BY <2>3, <3>1 DEF Outcome
  <2> HIDE DEF R
  <2>4. /\ pc' \in [Runs -> Places] /\ nonce' \in [Runs -> Nat]
        /\ pc'[run] = IF R.kind = "revoke" THEN "cleared" ELSE "signed"
        /\ \A other \in Runs \ {run} : pc'[other] = pc[other] /\ nonce'[other] = nonce[other]
    BY <1>0, <2>1, <2>2 DEF Places
  <2>5. Prepares(run)
    BY <2>1, <2>3, <2>4 DEF Prepares, clusterVars
  <2> QED
    BY <1>0, <2>1, <2>4, <2>5 DEF Same, clusterVars
<1>2. CASE Simulate(run)
  <2> DEFINE error == Simulation(TxOf(run))
  <2>1. /\ pc[run] = "signed" /\ UNCHANGED <<script, clusterVars, nonce, faulty>>
        /\ slot' = [slot EXCEPT ![run] = confirmed]
        /\ IF error = "Ok"
           THEN pc' = [pc EXCEPT ![run] = "cleared"] /\ UNCHANGED shown
           ELSE Concludes(run, error)
    BY <1>2 DEF Simulate
  <2>2. error \in Errors \cup {"Ok"}
    BY <1>0, <2>1, StateType, RequestType, OutcomeType DEF Simulation
  <2>3. /\ slot' \in [Runs -> Nat] /\ slot'[run] = confirmed
        /\ \A other \in Runs \ {run} : slot'[other] = slot[other]
    BY <1>0, <2>1
  <2>4. CASE error = "Ok"
    <3>1. TxOf(run)' = TxOf(run) /\ StateAt(slot'[run]) = StateAt(confirmed)
      BY <2>1, <2>3, <2>4 DEF TxOf
    <3>2. Outcome(TxOf(run)', StateAt(slot'[run])).error = "Ok"
      <4>1. Outcome(TxOf(run), StateAt(confirmed)).error = "Ok"
        BY <2>4 DEF Simulation
      <4> QED
        BY <3>1, <4>1
    <3> HIDE DEF error
    <3>3. /\ pc' \in [Runs -> Places] /\ pc'[run] = "cleared"
          /\ \A other \in Runs \ {run} : pc'[other] = pc[other]
      BY <1>0, <2>1, <2>4 DEF Places
    <3>4. Prepares(run)
      BY <2>1, <2>3, <2>4, <3>2, <3>3 DEF Prepares, clusterVars
    <3> QED
      BY <1>0, <2>1, <2>3, <2>4, <3>3, <3>4 DEF Same, clusterVars
  <2>5. CASE error # "Ok"
    <3>1. Tells(run, error, next) /\ error \in Errors /\ next \in Places
      BY <2>1, <2>2, <2>5 DEF Concludes, Places
    <3> HIDE DEF error, next
    <3>2. error \in Answers /\ error \in Unsent \cup Refusals
      BY <3>1 DEF Answers, Refusals
    <3>3. /\ shown' \in [Runs -> Seq(Answers)] /\ pc' \in [Runs -> Places]
          /\ shown'[run] = Append(shown[run], error) /\ pc'[run] = next
          /\ \A other \in Runs \ {run} : shown'[other] = shown[other] /\ pc'[other] = pc[other]
      BY <3>1, <3>2, Telling
    <3>4. Speaks(run, error)
      BY <2>1, <2>3, <3>2, <3>3 DEF Speaks, clusterVars, next
    <3> QED
      BY <1>0, <2>1, <2>3, <3>2, <3>3, <3>4 DEF Same, clusterVars
  <2> QED
    BY <2>4, <2>5
<1>3. CASE Send(run)
  <2>1. /\ pc[run] = "cleared" /\ Posts(run)
        /\ pc' = [pc EXCEPT ![run] = "sent"]
        /\ UNCHANGED <<script, nonce, slot, shown, blocks, confirmed, rooted, expired, forks>>
    BY <1>3 DEF Send, Posts, Simulation, Accept
  <2>2. /\ pc' \in [Runs -> Places] /\ pc'[run] = "sent"
        /\ \A other \in Runs \ {run} : pc'[other] = pc[other]
    BY <1>0, <2>1 DEF Places
  <2>3. Offers(run)
    BY <2>1, <2>2 DEF Offers
  <2> QED
    BY <1>0, <2>1, <2>2, <2>3 DEF Same
<1>4. ASSUME NEW what \in Answers, NEW there \in Places,
             Tells(run, what, there), there = "thrown" \/ there = next,
             pc[run] \notin {"finished", "thrown"},
             UNCHANGED <<script, blocks, confirmed, rooted, expired, forks, nonce, slot>>,
             \/ /\ pc[run] = "sent" /\ waiting' = waiting
                /\ \/ what \in {"TRANSACTION_FAILED", "CONFIRMATION_UNKNOWN"} /\ there = "thrown"
                   \/ what = "FINALIZED" /\ AppliedBy(rooted, TxOf(run))
             \/ Posts(run) /\ what = "ANSWER_LOST" /\ there = "thrown"
             \/ /\ pc[run] \in {"ready", "signed", "cleared"} /\ waiting' = waiting
                /\ what \in Unsent \cup Refusals
      PROVE  /\ UNCHANGED <<script, blocks, confirmed, rooted, expired, forks>>
             /\ pc' \in [Runs -> Places] /\ nonce' \in [Runs -> Nat] /\ slot' \in [Runs -> Nat]
             /\ shown' \in [Runs -> Seq(Answers)]
             /\ \A other \in Runs \ {run} : Same(other)
             /\ pc[run] \notin {"finished", "thrown"}
             /\ \/ Prepares(run) \/ Offers(run)
                \/ \E told \in Answers : Speaks(run, told)
  <2>1. /\ shown' \in [Runs -> Seq(Answers)] /\ pc' \in [Runs -> Places]
        /\ shown'[run] = Append(shown[run], what) /\ pc'[run] = there
        /\ \A other \in Runs \ {run} : shown'[other] = shown[other] /\ pc'[other] = pc[other]
    BY <1>4, Telling
  <2>2. Speaks(run, what)
    BY <1>4, <2>1 DEF Speaks, next
  <2> QED
    BY <1>0, <1>4, <2>1, <2>2 DEF Same
<1>5. /\ "thrown" \in Places /\ next \in Places
      /\ "SIMULATION_UNAVAILABLE" \in Answers /\ "SIMULATION_UNAVAILABLE" \in Refusals
      /\ "RPC_FAILED" \in Answers /\ "RPC_FAILED" \in Unsent
      /\ "PREFLIGHT_FAILED" \in Answers /\ "PREFLIGHT_FAILED" \in Unsent
      /\ "ANSWER_LOST" \in Answers /\ "TRANSACTION_FAILED" \in Answers
      /\ "CONFIRMATION_UNKNOWN" \in Answers /\ "FINALIZED" \in Answers
  BY DEF Places, Answers, Refusals, Unsent, Unsure
<1> HIDE DEF next
<1>6. CASE EvaluateFails(run)
  BY <1>4, <1>5, <1>6 DEF EvaluateFails, Concludes, clusterVars, next
<1>7. CASE CallFails(run)
  BY <1>4, <1>5, <1>7 DEF CallFails, Throws, clusterVars
<1>8. CASE PreflightFails(run)
  BY <1>4, <1>5, <1>8 DEF PreflightFails, Throws, clusterVars
<1>9. CASE AnswerLost(run)
  <2>1. /\ Posts(run) /\ pc[run] = "cleared" /\ Tells(run, "ANSWER_LOST", "thrown")
        /\ UNCHANGED <<script, blocks, confirmed, rooted, expired, forks, nonce, slot>>
    BY <1>9 DEF AnswerLost, Posts, Simulation, Accept, Throws
  <2> QED
    BY <1>4, <1>5, <2>1
<1>10. CASE Poll(run)
  <2>1. /\ pc[run] = "sent"
        /\ UNCHANGED <<script, blocks, confirmed, rooted, expired, forks, nonce, slot, waiting>>
    BY <1>10 DEF Poll, clusterVars
  <2>2. CASE Tells(run, "TRANSACTION_FAILED", "thrown")
    BY <1>4, <1>5, <2>1, <2>2
  <2>3. CASE AppliedBy(rooted, TxOf(run)) /\ Tells(run, "FINALIZED", next)
    BY <1>4, <1>5, <2>1, <2>3
  <2> QED
    BY <1>10, <2>2, <2>3 DEF Poll, Throws, Concludes, Settled, next
<1>11. CASE GiveUp(run)
  BY <1>4, <1>5, <1>11 DEF GiveUp, Throws, clusterVars
<1> QED
  BY <1>1, <1>2, <1>3, <1>6, <1>7, <1>8, <1>9, <1>10, <1>11 DEF Advance

----------------------------------------------------------------------------
(* What the cluster does.                                                  *)

Open == waiting \cup ({ blocks[n].tx : n \in rooted + 1 .. Len(blocks) } \ {NoTx})

LEMMA NoTxIsNone == NoTx \notin Transaction
  BY NoTxAssumption DEF Transaction

(* One more block on top of the others.                                    *)
LEMMA Appended ==
  ASSUME TypeInv, NEW b \in Block, blocks' = Append(blocks, b), NEW L, L = Len(blocks)
  PROVE  /\ blocks' \in Seq(Block) /\ L \in Nat /\ Len(blocks') = L + 1
         /\ DOMAIN blocks = 1 .. L /\ DOMAIN blocks' = 1 .. L + 1
         /\ \A i \in 1 .. L : blocks'[i] = blocks[i]
         /\ blocks'[L + 1] = b
         /\ \A n \in 0 .. L : StateAt(n)' = StateAt(n)
         /\ StateAt(L + 1)' = b.state
<1>1. /\ blocks' \in Seq(Block) /\ L \in Nat /\ Len(blocks') = L + 1
      /\ DOMAIN blocks = 1 .. L /\ DOMAIN blocks' = 1 .. L + 1
      /\ \A i \in 1 .. L : blocks'[i] = blocks[i]
      /\ blocks'[L + 1] = b
  BY DEF TypeInv
<1>2. \A n \in 0 .. L : StateAt(n)' = StateAt(n)
  BY <1>1 DEF StateAt
<1>3. StateAt(L + 1)' = b.state
  BY <1>1 DEF StateAt
<1> QED
  BY <1>1, <1>2, <1>3

(* Only the first of them are left.                                        *)
LEMMA Cut ==
  ASSUME TypeInv, NEW n \in 0 .. Len(blocks), blocks' = SubSeq(blocks, 1, n)
  PROVE  /\ blocks' \in Seq(Block) /\ Len(blocks') = n
         /\ DOMAIN blocks = 1 .. Len(blocks) /\ DOMAIN blocks' = 1 .. n
         /\ Len(blocks) \in Nat
         /\ \A i \in 1 .. n : blocks'[i] = blocks[i]
         /\ \A i \in 0 .. n : StateAt(i)' = StateAt(i)
<1>1. /\ blocks' \in Seq(Block) /\ Len(blocks') = n
      /\ DOMAIN blocks = 1 .. Len(blocks) /\ DOMAIN blocks' = 1 .. n
      /\ Len(blocks) \in Nat
      /\ \A i \in 1 .. n : blocks'[i] = blocks[i]
  BY DEF TypeInv
<1>2. \A i \in 0 .. n : StateAt(i)' = StateAt(i)
  BY <1>1 DEF StateAt
<1> QED
  BY <1>1, <1>2

(* A transaction in the next block, whose effect is that of a transaction  *)
(* of the script on the accounts that the others left.                     *)
LEMMA Landing ==
  ASSUME TypeInv, SentInv, NEW tx \in waiting, NEW L, L = Len(blocks),
         Land(tx, Outcome(tx, StateAt(Len(blocks))))
  PROVE  \E b \in Block :
           /\ b.tx = tx /\ blocks' = Append(blocks, b) /\ tx # NoTx
           /\ Explained(b, StateAt(L))
           /\ b.error # "Ok" => b.state = StateAt(L)
           /\ b.state.time = StateAt(L).time
<1> DEFINE o == Outcome(tx, StateAt(L))
           b == [tx |-> tx, error |-> o.error, state |-> o.state]
<1>1. tx \in Transaction /\ tx.step \in DOMAIN script[tx.run] /\ tx # NoTx
  BY NoTxIsNone DEF TypeInv, SentInv, Taken
<1>2. StateAt(L) \in Accounts
  <2>1. L \in 0 .. Len(blocks)
    BY DEF TypeInv
  <2> QED
    BY <2>1, StateType
<1>3. /\ o.error \in Errors \cup {"Ok"} /\ o.state \in Accounts
      /\ o.error # "Ok" => o.state = StateAt(L)
      /\ o.state.time = StateAt(L).time
  BY <1>1, <1>2, OutcomeType
<1>4. blocks' = Append(blocks, b)
  BY DEF Land
<1> HIDE DEF o
<1>5. b \in Block /\ b.tx = tx /\ b.error = o.error /\ b.state = o.state
  BY <1>1, <1>3 DEF Block
<1> HIDE DEF b
<1> QED
  BY <1>1, <1>3, <1>4, <1>5 DEF o, Explained

(* A slot in which the deadline passes changes the time alone.             *)
LEMMA Passing ==
  ASSUME TypeInv, NEW L, L = Len(blocks), Elapse
  PROVE  /\ UNCHANGED <<confirmed, rooted, waiting, expired>>
         /\ \E b \in Block :
              /\ b.tx = NoTx /\ b.error = "Ok" /\ blocks' = Append(blocks, b)
              /\ Explained(b, StateAt(L))
<1>1. PICK old, new : old = StateAt(L) /\ new = [old EXCEPT !.time = Fresh.expires_at]
  OBVIOUS
<1>2. Intrude(new)
  BY <1>1 DEF Elapse
<1>3. old \in Accounts
  <2>1. L \in 0 .. Len(blocks)
    BY DEF TypeInv
  <2> QED
    BY <1>1, <2>1, StateType
<1>4. Fresh.expires_at = 1
  BY DEF Fresh
<1>5. new = [old EXCEPT !.time = 1]
  BY <1>1, <1>4
<1>6. new \in Accounts /\ new.policy = old.policy /\ new.vault = old.vault
  BY ONLY <1>3, <1>5 DEF Accounts
<1>7. PICK b : b = [tx |-> NoTx, error |-> "Ok", state |-> new]
  OBVIOUS
<1>8. b \in Block
  BY <1>6, <1>7 DEF Block
<1>9. Explained(b, StateAt(L))
  BY <1>1, <1>6, <1>7 DEF Explained
<1> QED
  BY <1>2, <1>7, <1>8, <1>9 DEF Intrude

(* Either way there is one more block.                                     *)
LEMMA Growing ==
  ASSUME TypeInv, SentInv, NEW L, L = Len(blocks), Executes \/ Elapse
  PROVE  \E b \in Block :
           /\ blocks' = Append(blocks, b) /\ Explained(b, StateAt(L))
           /\ b.tx \in waiting \/ (b.tx = NoTx /\ b.error = "Ok")
           /\ b.tx = NoTx => b.error = "Ok"
           /\ b.error # "Ok" => b.state = StateAt(L)
           /\ b.tx # NoTx => b.state.time = StateAt(L).time
           /\ waiting' = waiting \ {b.tx} /\ UNCHANGED <<confirmed, rooted, expired>>
<1>1. CASE Executes
  <2>1. PICK tx \in waiting : Land(tx, Outcome(tx, StateAt(Len(blocks))))
    BY <1>1 DEF Executes
  <2>2. waiting' = waiting \ {tx} /\ UNCHANGED <<confirmed, rooted, expired>>
    BY <2>1 DEF Land
  <2> QED
    BY <2>1, <2>2, Landing
<1>2. CASE Elapse
  <2>1. waiting = waiting \ {NoTx}
    BY NoTxIsNone DEF TypeInv
  <2> QED
    BY <1>2, <2>1, Passing
<1> QED
  BY <1>1, <1>2

(* Nothing comes into the cluster by itself, nothing that is open is       *)
(* forgotten, and what is confirmed stays.                                 *)
LEMMA ClusterStep ==
  ASSUME TypeInv, SentInv, OnceInv, ClusterMoves
  PROVE  /\ UNCHANGED <<script, pc, nonce, slot, shown>>
         /\ blocks' \in Seq(Block) /\ waiting' \subseteq Transaction
         /\ expired' \subseteq Transaction
         /\ confirmed' \in 0 .. Len(blocks') /\ rooted' \in 0 .. confirmed'
         /\ confirmed' >= confirmed
         /\ Taken' \subseteq Taken /\ Open' \subseteq Open /\ OnceInv'
         /\ \A n \in 0 .. confirmed : StateAt(n)' = StateAt(n)
         /\ \A n \in DOMAIN blocks' :
              n > confirmed \/ (n \in DOMAIN blocks /\ blocks'[n] = blocks[n])
<1>1. UNCHANGED <<script, pc, nonce, slot, shown>>
  BY DEF ClusterMoves
<1>2. /\ confirmed \in 0 .. Len(blocks) /\ rooted \in 0 .. confirmed
      /\ Len(blocks) \in Nat /\ blocks \in Seq(Block) /\ DOMAIN blocks = 1 .. Len(blocks)
      /\ waiting \subseteq Transaction /\ expired \subseteq Transaction
  BY DEF TypeInv
<1>3. CASE Executes \/ Elapse
  <2>1. PICK L : L = Len(blocks)
    OBVIOUS
  <2>2. PICK b \in Block :
          /\ blocks' = Append(blocks, b) /\ b.tx \in waiting \cup {NoTx}
          /\ waiting' = waiting \ {b.tx} /\ UNCHANGED <<confirmed, rooted, expired>>
    BY <1>3, <2>1, Growing
  <2>3. /\ blocks' \in Seq(Block) /\ L \in Nat /\ Len(blocks') = L + 1
        /\ DOMAIN blocks = 1 .. L /\ DOMAIN blocks' = 1 .. L + 1
        /\ \A i \in 1 .. L : blocks'[i] = blocks[i]
        /\ blocks'[L + 1] = b
        /\ \A n \in 0 .. L : StateAt(n)' = StateAt(n)
    BY <2>1, <2>2, Appended
  <2>4. /\ waiting' = waiting \ {b.tx} /\ waiting' \subseteq waiting
        /\ UNCHANGED <<confirmed, rooted, expired>>
    BY <2>2
  <2>5. \A n \in 1 .. L + 1 : n \in 1 .. L \/ n = L + 1
    BY <2>3
  <2>6. Taken' \subseteq Taken
    BY <2>2, <2>3, <2>4, <2>5 DEF Taken
  <2>7. Open' \subseteq Open
    <3>1. \A n \in rooted + 1 .. L + 1 : n \in 1 .. L + 1 /\ (n \in rooted + 1 .. L \/ n = L + 1)
      BY <1>2, <2>3
    <3> QED
      BY <2>1, <2>2, <2>3, <2>4, <2>5, <3>1 DEF Open
  <2>8. OnceInv'
    <3>1. \A ty, tz \in Taken' : ty.run = tz.run /\ ty.step = tz.step => ty = tz
      BY <2>6 DEF OnceInv
    <3>2. waiting' \cap expired' = {}
      BY <2>4 DEF OnceInv
    <3>3. \A n \in DOMAIN blocks' : blocks'[n].tx \notin waiting' \cup expired'
      BY <1>2, <2>2, <2>3, <2>4, <2>5, NoTxIsNone DEF OnceInv
    <3>4. \A m, n \in DOMAIN blocks' :
            blocks'[m].tx # NoTx /\ blocks'[m].tx = blocks'[n].tx => m = n
      BY <2>2, <2>3, <2>5 DEF OnceInv
    <3> QED
      BY <3>1, <3>2, <3>3, <3>4 DEF OnceInv
  <2>9. /\ confirmed' \in 0 .. Len(blocks') /\ rooted' \in 0 .. confirmed'
        /\ confirmed' >= confirmed
    BY <1>2, <2>1, <2>3, <2>4
  <2>10. \A n \in 0 .. confirmed : n \in 0 .. L
    BY <1>2, <2>1
  <2>11. \A n \in 1 .. L + 1 : n > confirmed \/ n \in 1 .. L
    BY <1>2, <2>1
  <2> QED
    BY <1>1, <1>2, <2>3, <2>4, <2>6, <2>7, <2>8, <2>9, <2>10, <2>11
<1>4. CASE \/ Confirm \/ Finalize
  <2>1. UNCHANGED <<blocks, waiting, expired>>
    BY <1>4 DEF Confirm, Finalize
  <2>2. /\ confirmed' \in 0 .. Len(blocks') /\ rooted' \in 0 .. confirmed'
        /\ confirmed' >= confirmed /\ rooted <= rooted'
        /\ rooted \in Nat /\ rooted' \in Nat
    BY <1>2, <1>4 DEF Confirm, Finalize
  <2>3. Taken' = Taken
    BY <2>1 DEF Taken
  <2>4. Open' \subseteq Open
    <3>1. PICK m \in Nat : m = rooted' /\ rooted <= m
      BY <2>2
    <3>2. PICK k \in Nat : k = rooted
      BY <2>2
    <3>3. k <= m
      BY <3>1, <3>2
    <3>4. PICK l \in Nat : l = Len(blocks)
      BY <1>2
    <3>5. \A n \in m + 1 .. l : n \in k + 1 .. l
      BY ONLY <3>3
    <3> QED
      BY <2>1, <3>1, <3>2, <3>4, <3>5 DEF Open
  <2>5. OnceInv'
    BY <2>1, <2>3 DEF OnceInv
  <2>6. \A n : StateAt(n)' = StateAt(n)
    BY <2>1 DEF StateAt
  <2>7. rooted' \in 0 .. confirmed'
    BY <1>2, <2>2
  <2> QED
    BY <1>1, <1>2, <2>1, <2>2, <2>3, <2>4, <2>5, <2>6, <2>7
<1>5. CASE Abandon
  <2>1. PICK n \in confirmed .. Len(blocks) - 1 :
          /\ blocks' = SubSeq(blocks, 1, n)
          /\ waiting' = waiting \cup ({ blocks[i].tx : i \in n + 1 .. Len(blocks) } \ {NoTx})
    BY <1>5 DEF Abandon
  <2>2. n \in 0 .. Len(blocks) /\ UNCHANGED <<confirmed, rooted, expired>>
    BY <1>2, <1>5, <2>1 DEF Abandon
  <2>3. /\ blocks' \in Seq(Block) /\ Len(blocks') = n
        /\ DOMAIN blocks' = 1 .. n
        /\ \A i \in 1 .. n : blocks'[i] = blocks[i]
        /\ \A i \in 0 .. n : StateAt(i)' = StateAt(i)
    BY <2>1, <2>2, Cut
  <2>4. \A i \in n + 1 .. Len(blocks) : i \in DOMAIN blocks /\ i \in rooted + 1 .. Len(blocks)
    BY <1>2, <2>1
  <2>5. waiting' \subseteq waiting \cup ({ blocks[i].tx : i \in n + 1 .. Len(blocks) } \ {NoTx})
    BY <2>1
  <2>6. \A i \in 1 .. n : i \in DOMAIN blocks /\ \A j \in n + 1 .. Len(blocks) : i # j
    BY <1>2, <2>2
  <2>7. Taken' \subseteq Taken
    BY <2>2, <2>3, <2>4, <2>5, <2>6 DEF Taken
  <2>8. Open' \subseteq Open
    <3>1. \A i \in rooted + 1 .. n : i \in 1 .. n /\ i \in rooted + 1 .. Len(blocks)
      BY <1>2, <2>2
    <3> QED
      BY <2>2, <2>3, <2>4, <2>5, <3>1 DEF Open
  <2>9. OnceInv'
    <3>1. \A ty, tz \in Taken' : ty.run = tz.run /\ ty.step = tz.step => ty = tz
      BY <2>7 DEF OnceInv
    <3>2. waiting' \cap expired' = {}
      BY <2>2, <2>4, <2>5 DEF OnceInv
    <3>3. \A i \in DOMAIN blocks' : blocks'[i].tx \notin waiting' \cup expired'
      BY <2>2, <2>3, <2>4, <2>5, <2>6 DEF OnceInv
    <3>4. \A i, j \in DOMAIN blocks' :
            blocks'[i].tx # NoTx /\ blocks'[i].tx = blocks'[j].tx => i = j
      BY <2>3, <2>6 DEF OnceInv
    <3> QED
      BY <3>1, <3>2, <3>3, <3>4 DEF OnceInv
  <2>10. /\ confirmed' \in 0 .. Len(blocks') /\ rooted' \in 0 .. confirmed'
         /\ confirmed' >= confirmed
    BY <1>2, <2>1, <2>2, <2>3
  <2>11. \A i \in 0 .. confirmed : i \in 0 .. n
    BY <1>2, <2>1
  <2>12. waiting' \subseteq Transaction
    <3>1. \A i \in DOMAIN blocks : blocks[i] \in Block
      BY <1>2
    <3> QED
      BY <1>2, <2>4, <2>5, <3>1 DEF Block
  <2> QED
    BY <1>1, <1>2, <2>2, <2>3, <2>6, <2>7, <2>8, <2>9, <2>10, <2>11, <2>12
<1>6. CASE \E tx \in waiting : Expire(tx)
  <2>1. PICK tx \in waiting : waiting' = waiting \ {tx} /\ expired' = expired \cup {tx}
    BY <1>6 DEF Expire
  <2>2. UNCHANGED <<blocks, confirmed, rooted>>
    BY <1>6 DEF Expire
  <2>3. Taken' \subseteq Taken /\ Open' \subseteq Open
    BY <2>1, <2>2 DEF Taken, Open
  <2>4. OnceInv'
    <3>1. \A ty, tz \in Taken' : ty.run = tz.run /\ ty.step = tz.step => ty = tz
      BY <2>3 DEF OnceInv
    <3> QED
      BY <2>1, <2>2, <3>1 DEF OnceInv
  <2>5. \A n : StateAt(n)' = StateAt(n)
    BY <2>2 DEF StateAt
  <2> QED
    BY <1>1, <1>2, <2>1, <2>2, <2>3, <2>4, <2>5
<1> QED
  BY <1>3, <1>4, <1>5, <1>6 DEF ClusterMoves

(* It is about the blocks and the scripts alone.                           *)
LEMMA Retold ==
  ASSUME script' = script, NEW b, NEW state, Explained(b, state)
  PROVE  (Explained(b, state))'
BY DEF Explained, Outcome

LEMMA BetweenSame ==
  ASSUME NEW m, NEW n, Between(m, n),
         StateAt(m)' = StateAt(m), StateAt(n)' = StateAt(n),
         \A k \in m + 1 .. n : blocks'[k] = blocks[k]
  PROVE  Between(m, n)'
BY DEF Between, Failed

LEMMA ChainSame ==
  ASSUME ChainInv, UNCHANGED <<script, blocks>>
  PROVE  ChainInv'
<1>1. \A n : StateAt(n)' = StateAt(n)
  BY DEF StateAt
<1>2. ASSUME NEW i \in DOMAIN blocks
      PROVE  (Explained(blocks[i], StateAt(i - 1)))'
  <2>1. PICK b, state : b = blocks[i] /\ state = StateAt(i - 1)
    OBVIOUS
  <2>2. blocks'[i] = b /\ StateAt(i - 1)' = state
    BY <1>1, <2>1
  <2>3. (Explained(b, state))'
    BY <2>1, Retold DEF ChainInv
  <2> QED
    BY <2>2, <2>3 DEF Explained
<1>3. ASSUME NEW m \in 0 .. Len(blocks), NEW n \in 0 .. Len(blocks), m <= n
      PROVE  Between(m, n)'
  BY <1>1, <1>3, BetweenSame DEF ChainInv
<1> QED
  BY <1>2, <1>3 DEF ChainInv

(* The accounts change only where a transaction did not fail, the time     *)
(* only where the deadline passed.                                         *)
LEMMA ChainGrows ==
  ASSUME TypeInv, SentInv, ChainInv, ClusterMoves
  PROVE  ChainInv'
<1>1. script' = script /\ Len(blocks) \in Nat /\ DOMAIN blocks = 1 .. Len(blocks)
  BY DEF ClusterMoves, TypeInv
<1>2. ASSUME UNCHANGED blocks PROVE ChainInv'
  BY <1>1, <1>2, ChainSame
<1>3. ASSUME NEW l \in 0 .. Len(blocks), blocks' = SubSeq(blocks, 1, l) PROVE ChainInv'
  <2>1. /\ Len(blocks') = l /\ DOMAIN blocks' = 1 .. l
        /\ \A i \in 1 .. l : blocks'[i] = blocks[i]
        /\ \A i \in 0 .. l : StateAt(i)' = StateAt(i)
    BY <1>3, Cut
  <2>2. /\ \A i \in 1 .. l : i \in DOMAIN blocks /\ i - 1 \in 0 .. l
        /\ \A i \in 0 .. l : i \in 0 .. Len(blocks)
    BY <1>1
  <2>3. ASSUME NEW i \in 1 .. l PROVE (Explained(blocks[i], StateAt(i - 1)))'
    <3>1. PICK b, state : b = blocks[i] /\ state = StateAt(i - 1)
      OBVIOUS
    <3>2. blocks'[i] = b /\ StateAt(i - 1)' = state
      BY <2>1, <2>2, <3>1
    <3>3. (Explained(b, state))'
      BY <1>1, <2>2, <3>1, Retold DEF ChainInv
    <3> QED
      BY <3>2, <3>3 DEF Explained
  <2>4. ASSUME NEW m \in 0 .. l, NEW n \in 0 .. l, m <= n PROVE Between(m, n)'
    <3>1. Between(m, n)
      BY <2>2, <2>4 DEF ChainInv
    <3>2. \A k \in m + 1 .. n : k \in 1 .. l
      OBVIOUS
    <3> QED
      BY <2>1, <3>1, <3>2, BetweenSame
  <2> QED
    BY <2>1, <2>3, <2>4 DEF ChainInv
<1>4. CASE Executes \/ Elapse
  <2>1. PICK L : L = Len(blocks)
    OBVIOUS
  <2>2. PICK b \in Block :
          /\ blocks' = Append(blocks, b) /\ Explained(b, StateAt(L))
          /\ b.tx = NoTx => b.error = "Ok"
          /\ b.error # "Ok" => b.state = StateAt(L)
          /\ b.tx # NoTx => b.state.time = StateAt(L).time
    BY <1>4, <2>1, Growing
  <2>3. /\ L \in Nat /\ Len(blocks') = L + 1 /\ DOMAIN blocks' = 1 .. L + 1
        /\ \A i \in 1 .. L : blocks'[i] = blocks[i]
        /\ blocks'[L + 1] = b
        /\ \A n \in 0 .. L : StateAt(n)' = StateAt(n)
        /\ StateAt(L + 1)' = b.state
    BY <2>1, <2>2, Appended
  <2>4. \A i \in 1 .. L : i \in DOMAIN blocks /\ i - 1 \in 0 .. L
    BY <1>1, <2>1
  <2>5. ASSUME NEW i \in 1 .. L + 1 PROVE (Explained(blocks[i], StateAt(i - 1)))'
    <3>1. PICK c, state : c = blocks'[i] /\ state = StateAt(i - 1)'
      OBVIOUS
    <3>2. Explained(c, state)
      <4>1. CASE i \in 1 .. L
        BY <2>3, <2>4, <3>1, <4>1 DEF ChainInv
      <4>2. CASE i = L + 1
        <5>1. i - 1 = L /\ L \in 0 .. L
          BY <2>3, <4>2
        <5> QED
          BY <2>2, <2>3, <3>1, <4>2, <5>1
      <4> QED
        BY <2>3, <4>1, <4>2
    <3>3. (Explained(c, state))'
      BY <1>1, <3>2, Retold
    <3> QED
      BY <3>1, <3>3 DEF Explained
  <2>6. ASSUME NEW m \in 0 .. L, NEW n \in 0 .. L, m <= n PROVE Between(m, n)'
    <3>1. Between(m, n)
      BY <2>1, <2>6 DEF ChainInv
    <3>2. \A k \in m + 1 .. n : k \in 1 .. L
      BY <2>3
    <3> QED
      BY <2>3, <3>1, <3>2, BetweenSame
  <2>7. ASSUME NEW m \in 0 .. L PROVE Between(m, L + 1)'
    <3>1. /\ L \in 0 .. L /\ m <= L /\ L + 1 \in m + 1 .. L + 1
          /\ \A k \in m + 1 .. L : k \in m + 1 .. L + 1
      BY <2>3
    <3>2. Between(m, L)'
      BY <2>6, <3>1
    <3>3. \/ /\ StateAt(m)'.policy = StateAt(L + 1)'.policy
             /\ StateAt(m)'.vault = StateAt(L + 1)'.vault
          \/ \E k \in m + 1 .. L + 1 : ~(Failed(k)') /\ blocks'[k].tx # NoTx
      <4>1. CASE b.error = "Ok" /\ b.tx # NoTx
        BY <2>3, <3>1, <4>1 DEF Failed
      <4>2. CASE b.error # "Ok" \/ b.tx = NoTx
        <5>1. /\ StateAt(L + 1)'.policy = StateAt(L)'.policy
              /\ StateAt(L + 1)'.vault = StateAt(L)'.vault
          BY <2>2, <2>3, <3>1, <4>2 DEF Explained
        <5> QED
          BY <3>1, <3>2, <5>1 DEF Between
      <4> QED
        BY <4>1, <4>2
    <3>4. \/ StateAt(m)'.time = StateAt(L + 1)'.time
          \/ \E k \in m + 1 .. L + 1 : ~(Failed(k)') /\ blocks'[k].tx = NoTx
      <4>1. CASE b.tx = NoTx
        BY <2>2, <2>3, <3>1, <4>1 DEF Failed
      <4>2. CASE b.tx # NoTx
        <5>1. StateAt(L + 1)'.time = StateAt(L)'.time
          BY <2>2, <2>3, <3>1, <4>2
        <5> QED
          BY <3>1, <3>2, <5>1 DEF Between
      <4> QED
        BY <4>1, <4>2
    <3> QED
      BY <3>3, <3>4 DEF Between
  <2>8. Between(L + 1, L + 1)'
    BY DEF Between
  <2>9. ASSUME NEW m \in 0 .. L + 1, NEW n \in 0 .. L + 1, m <= n PROVE Between(m, n)'
    <3>1. \/ m \in 0 .. L /\ n \in 0 .. L
          \/ m \in 0 .. L /\ n = L + 1
          \/ m = L + 1 /\ n = L + 1
      BY <2>3, <2>9
    <3> QED
      BY <2>6, <2>7, <2>8, <2>9, <3>1
  <2> QED
    BY <2>3, <2>5, <2>9 DEF ChainInv
<1>5. CASE Abandon
  <2>1. PICK l \in confirmed .. Len(blocks) - 1 : blocks' = SubSeq(blocks, 1, l)
    BY <1>5 DEF Abandon
  <2>2. l \in 0 .. Len(blocks)
    BY <2>1 DEF TypeInv
  <2> QED
    BY <1>3, <2>1, <2>2
<1>6. CASE Confirm \/ Finalize \/ \E tx \in waiting : Expire(tx)
  BY <1>2, <1>6 DEF Confirm, Finalize, Expire
<1> QED
  BY <1>4, <1>5, <1>6 DEF ClusterMoves

----------------------------------------------------------------------------
(* What keeps the invariant.                                               *)

Inv == TypeInv /\ PlanInv /\ SentInv /\ OnceInv /\ OpenInv

LEMMA TakenType ==
  ASSUME TypeInv, NEW tx \in Taken
  PROVE  tx \in Transaction /\ tx # NoTx
<1>1. \A n \in DOMAIN blocks : blocks[n] \in Block
  BY DEF TypeInv
<1> QED
  BY <1>1, NoTxIsNone DEF TypeInv, Taken, Block

(* A run that is about to send has nothing else with the node.             *)
LEMMA NothingOut ==
  ASSUME Inv, NEW run \in Runs, pc[run] \notin {"sent", "finished", "thrown"}
  PROVE  \A tx \in Taken : tx.run = run => tx.step <= Len(shown[run]) /\ tx # TxOf(run)
<1> SUFFICES ASSUME NEW tx \in Taken, tx.run = run
             PROVE  tx.step <= Len(shown[run]) /\ tx # TxOf(run)
  OBVIOUS
<1>1. tx.step <= Len(shown[run])
  BY DEF Inv, SentInv, Current
<1>2. TxOf(run).step = Len(shown[run]) + 1 /\ Len(shown[run]) \in Nat
  BY RequestType DEF Inv
<1>3. ~(Len(shown[run]) + 1 <= Len(shown[run]))
  BY <1>2
<1> QED
  BY <1>1, <1>2, <1>3

(* What a run says is one more answer.                                     *)
LEMMA Spoken ==
  ASSUME TypeInv, NEW run \in Runs, NEW what \in Answers,
         shown'[run] = Append(shown[run], what), NEW told, told = shown[run]
  PROVE  /\ told \in Seq(Answers) /\ Len(told) \in Nat
         /\ Len(shown'[run]) = Len(told) + 1
         /\ shown'[run][Len(told) + 1] = what
         /\ \A i \in 1 .. Len(told) : shown'[run][i] = told[i]
         /\ DOMAIN told = 1 .. Len(told) /\ DOMAIN (shown'[run]) = 1 .. Len(told) + 1
  BY DEF TypeInv

(* The node has what it had, and at most what the run just posted.         *)
LEMMA AdvanceTakes ==
  ASSUME Inv, NEW run \in Runs, Advance(run)
  PROVE  /\ Taken' = Taken /\ Open' = Open /\ waiting' = waiting
         \/ /\ Posts(run) /\ waiting' = waiting \cup {TxOf(run)}
            /\ TxOf(run) \in Transaction /\ TxOf(run) \notin Taken
            /\ Taken' = Taken \cup {TxOf(run)} /\ Open' = Open \cup {TxOf(run)}
<1>1. UNCHANGED <<blocks, rooted, expired>>
  BY AdvanceStep DEF Inv
<1>2. CASE waiting' = waiting
  BY <1>1, <1>2 DEF Taken, Open
<1>3. CASE Posts(run)
  <2>1. TxOf(run) \notin Taken /\ TxOf(run) \in Transaction
    BY <1>3, NothingOut, RequestType DEF Posts, Inv
  <2>2. TxOf(run) \notin Accepted
    BY <2>1 DEF Accepted, Landed, Taken
  <2>3. waiting' = waiting \cup {TxOf(run)}
    BY <1>3, <2>2 DEF Posts
  <2> QED
    BY <1>1, <1>3, <2>1, <2>3 DEF Taken, Open
<1> QED
  BY <1>2, <1>3, AdvanceStep DEF Inv, Prepares, Offers, Speaks

LEMMA PlanStep ==
  ASSUME Inv, NEW run \in Runs, Advance(run)
  PROVE  PlanInv'
<1> SUFFICES ASSUME NEW other \in Runs
             PROVE  /\ Len(shown'[other]) <= Len(script[other])
                    /\ pc'[other] \notin {"finished", "thrown"} =>
                         Len(shown'[other]) < Len(script[other])
  BY AdvanceStep DEF Inv, PlanInv
<1>1. CASE other # run
  BY <1>1, AdvanceStep DEF Inv, PlanInv, Same
<1>2. CASE other = run
  <2>1. PICK l \in Nat, m \in Nat : l = Len(shown[run]) /\ m = Len(script[run])
    BY SettlementAssumption DEF Inv, TypeInv, SettlementAssumption
  <2>2. l < m
    BY <2>1, AdvanceStep DEF Inv, PlanInv
  <2>3. CASE shown'[run] = shown[run]
    BY <1>2, <2>1, <2>2, <2>3
  <2>4. CASE \E what \in Answers : Speaks(run, what)
    <3>1. /\ Len(shown'[run]) = l + 1
          /\ pc'[run] = "thrown" \/ pc'[run] = IF l + 1 = m THEN "finished" ELSE "ready"
      BY <2>1, <2>4, Spoken DEF Inv, Speaks
    <3>2. l + 1 <= m /\ (l + 1 # m => l + 1 < m)
      BY <2>2
    <3> QED
      BY <1>2, <2>1, <3>1, <3>2
  <2> QED
    BY <2>3, <2>4, AdvanceStep DEF Inv, Prepares, Offers
<1> QED
  BY <1>1, <1>2

LEMMA SentStep ==
  ASSUME Inv, NEW run \in Runs, Advance(run)
  PROVE  SentInv'
<1> SUFFICES ASSUME NEW tx \in Taken'
             PROVE  /\ tx.step \in DOMAIN script[tx.run]
                    /\ tx.step <= Len(shown'[tx.run]) \/ Current(tx)'
  BY AdvanceStep DEF Inv, SentInv
<1>1. tx \in Taken \/ (Posts(run) /\ tx = TxOf(run))
  BY AdvanceTakes
<1>2. tx.step \in DOMAIN script[tx.run]
  BY <1>1, RequestType DEF Inv, SentInv, Posts
<1>3. tx.run \in Runs /\ tx.step \in Int
  <2>1. tx \in Transaction
    BY <1>1, TakenType, RequestType DEF Inv, Posts
  <2> QED
    BY <2>1 DEF Transaction
<1>4. CASE tx.run # run
  <2>1. tx \in Taken
    BY <1>1, <1>4 DEF TxOf
  <2>2. Same(tx.run)
    BY <1>3, <1>4, AdvanceStep DEF Inv
  <2>3. tx.step <= Len(shown[tx.run]) \/ Current(tx)
    BY <2>1 DEF Inv, SentInv
  <2> QED
    BY <1>2, <2>2, <2>3 DEF Current, TxOf, Same
<1>5. CASE tx.run = run
  <2>1. PICK l \in Nat : l = Len(shown[run])
    BY DEF Inv, TypeInv
  <2>2. /\ pc[run] # "sent" => tx.step <= l \/ (Posts(run) /\ tx = TxOf(run))
        /\ pc[run] = "sent" => tx.step <= l \/ tx.step = l + 1
        /\ tx = TxOf(run) => tx.step = l + 1
    <3>1. TxOf(run).step = l + 1
      BY <2>1 DEF TxOf
    <3>2. tx.step <= l \/ (pc[run] = "sent" /\ tx = TxOf(run)) \/ (Posts(run) /\ tx = TxOf(run))
      BY <1>1, <1>5, <2>1 DEF Inv, SentInv, Current
    <3> QED
      BY <3>1, <3>2
  <2>3. CASE Prepares(run)
    <3>1. tx.step <= l
      BY <2>2, <2>3 DEF Prepares, Posts
    <3> QED
      BY <1>2, <1>5, <2>1, <2>3, <3>1 DEF Prepares
  <2>4. CASE Offers(run)
    <3>1. TxOf(run)' = TxOf(run)
      BY <2>4 DEF Offers, TxOf
    <3>2. tx.step <= l \/ tx = TxOf(run)
      BY <2>2, <2>4 DEF Offers, Posts
    <3> QED
      BY <1>2, <1>5, <2>1, <2>4, <3>1, <3>2 DEF Offers, Current
  <2>5. CASE \E what \in Answers : Speaks(run, what)
    <3>1. Len(shown'[run]) = l + 1
      BY <2>1, <2>5, Spoken DEF Inv, Speaks
    <3>2. tx.step <= l \/ tx.step = l + 1
      BY <2>2
    <3>3. tx.step <= l + 1
      BY <1>3, <3>2
    <3> QED
      BY <1>2, <1>5, <3>1, <3>3
  <2> QED
    BY <2>3, <2>4, <2>5, AdvanceStep DEF Inv
<1> QED
  BY <1>4, <1>5

LEMMA OnceStep ==
  ASSUME Inv, NEW run \in Runs, Advance(run)
  PROVE  OnceInv'
<1>0. UNCHANGED <<blocks, expired>>
  BY AdvanceStep DEF Inv
<1>1. CASE Taken' = Taken /\ waiting' = waiting
  BY <1>0, <1>1 DEF Inv, OnceInv
<1>2. CASE /\ Posts(run) /\ waiting' = waiting \cup {TxOf(run)}
           /\ TxOf(run) \in Transaction /\ TxOf(run) \notin Taken
           /\ Taken' = Taken \cup {TxOf(run)}
  <2>1. PICK t : t = TxOf(run)
    OBVIOUS
  <2>2. t \notin expired /\ \A n \in DOMAIN blocks : blocks[n].tx # t
    BY <1>2, <2>1, NoTxIsNone DEF Taken
  <2>3. \A tx \in Taken : ~(tx.run = t.run /\ tx.step = t.step)
    <3>1. PICK l \in Nat : l = Len(shown[run])
      BY DEF Inv, TypeInv
    <3>2. t.run = run /\ t.step = l + 1
      BY <2>1, <3>1 DEF TxOf
    <3>3. \A tx \in Taken : tx.run = run => tx.step <= l
      BY <1>2, <3>1, NothingOut DEF Posts
    <3> QED
      BY <3>2, <3>3
  <2>4. \A tx, ty \in Taken' : tx.run = ty.run /\ tx.step = ty.step => tx = ty
    BY <1>2, <2>1, <2>3 DEF Inv, OnceInv
  <2>5. waiting' \cap expired' = {}
    BY <1>0, <1>2, <2>1, <2>2 DEF Inv, OnceInv
  <2>6. \A n \in DOMAIN blocks' : blocks'[n].tx \notin waiting' \cup expired'
    BY <1>0, <1>2, <2>1, <2>2 DEF Inv, OnceInv
  <2>7. \A m, n \in DOMAIN blocks' :
          blocks'[m].tx # NoTx /\ blocks'[m].tx = blocks'[n].tx => m = n
    BY <1>0 DEF Inv, OnceInv
  <2> QED
    BY <2>4, <2>5, <2>6, <2>7 DEF OnceInv
<1> QED
  BY <1>1, <1>2, AdvanceTakes

(* What is final is not open any more.                                     *)
LEMMA FinalIsShut ==
  ASSUME TypeInv, OnceInv, NEW n \in 1 .. rooted
  PROVE  blocks[n].tx \notin Open /\ n \in DOMAIN blocks
<1>1. /\ n \in DOMAIN blocks
      /\ \A m \in rooted + 1 .. Len(blocks) : m \in DOMAIN blocks /\ m # n
  BY DEF TypeInv
<1> QED
  BY <1>1 DEF OnceInv, Open

LEMMA OpenStep ==
  ASSUME Inv, NEW run \in Runs, Advance(run)
  PROVE  OpenInv'
<1> SUFFICES ASSUME NEW tx \in Open'
             PROVE  \/ Current(tx)'
                    \/ /\ pc'[tx.run] = "thrown" /\ tx.step = Len(shown'[tx.run])
                       /\ shown'[tx.run][tx.step] \in Unsure
  BY DEF OpenInv, Open
<1>1. \/ tx \in Open /\ waiting' = waiting
      \/ tx \in Open /\ pc[run] = "cleared"
      \/ Posts(run) /\ tx = TxOf(run) /\ waiting' # waiting
  <2>1. waiting \subseteq Taken
    BY DEF Taken
  <2> QED
    BY <2>1, AdvanceTakes DEF Posts
<1>2. ASSUME tx \in Open
      PROVE  /\ \/ Current(tx)
                \/ /\ pc[tx.run] = "thrown" /\ tx.step = Len(shown[tx.run])
                   /\ shown[tx.run][tx.step] \in Unsure
             /\ tx \in Taken
  <2>1. rooted + 1 .. Len(blocks) \subseteq DOMAIN blocks
    BY DEF Inv, TypeInv
  <2> QED
    BY <1>2, <2>1 DEF Inv, OpenInv, Open, Taken
<1>3. tx.run \in Runs
  <2>1. tx \in Transaction
    BY <1>1, <1>2, TakenType, RequestType DEF Inv, Posts
  <2> QED
    BY <2>1 DEF Transaction
<1>4. CASE tx.run # run
  <2>1. Same(tx.run) /\ tx \in Open
    BY <1>1, <1>3, <1>4, AdvanceStep DEF Inv, TxOf
  <2> QED
    BY <1>2, <2>1 DEF Current, TxOf, Same
<1>5. CASE tx.run = run
  <2>1. pc[run] \notin {"finished", "thrown"}
    BY AdvanceStep DEF Inv
  <2>2. \/ pc[run] = "sent" /\ tx = TxOf(run) /\ tx \in Open
        \/ Posts(run) /\ tx = TxOf(run) /\ waiting' # waiting
    BY <1>1, <1>2, <1>5, <2>1 DEF Current
  <2>3. CASE Prepares(run)
    BY <2>2, <2>3 DEF Prepares, Posts
  <2>4. CASE Offers(run)
    <3>1. TxOf(run)' = TxOf(run) /\ pc'[run] = "sent"
      BY <2>4 DEF Offers, TxOf
    <3> QED
      BY <1>5, <2>2, <3>1 DEF Current
  <2>5. ASSUME NEW what \in Answers, Speaks(run, what), what # "FINALIZED", tx = TxOf(run),
               pc[run] = "sent" \/ what = "ANSWER_LOST"
        PROVE  /\ pc'[tx.run] = "thrown" /\ tx.step = Len(shown'[tx.run])
               /\ shown'[tx.run][tx.step] \in Unsure
    <3>1. pc'[run] = "thrown" /\ what \in Unsure
      BY <2>5 DEF Speaks, Posts, Unsure, Unsent, Refusals, Errors
    <3>2. tx.step = Len(shown[run]) + 1
      BY <2>5 DEF TxOf
    <3>3. Len(shown'[run]) = Len(shown[run]) + 1 /\ shown'[run][Len(shown[run]) + 1] = what
      BY <2>5, Spoken DEF Inv, Speaks
    <3> QED
      BY <1>5, <3>1, <3>2, <3>3
  <2>6. ASSUME NEW what \in Answers, Speaks(run, what)
        PROVE  \/ pc[run] = "sent" /\ what # "FINALIZED"
               \/ what = "ANSWER_LOST"
    <3>1. CASE AppliedBy(rooted, TxOf(run)) /\ tx \in Open /\ tx = TxOf(run)
      <4>1. PICK n \in 1 .. rooted : blocks[n].tx = TxOf(run)
        BY <3>1 DEF AppliedBy
      <4> QED
        BY <3>1, <4>1, FinalIsShut DEF Inv
    <3> QED
      BY <2>2, <2>6, <3>1 DEF Speaks, Posts, Unsent, Refusals, Errors
  <2> QED
    BY <2>2, <2>3, <2>4, <2>5, <2>6, AdvanceStep DEF Inv
<1> QED
  BY <1>4, <1>5

LEMMA SlotStep ==
  ASSUME Inv, SlotInv, NEW run \in Runs, Advance(run)
  PROVE  SlotInv'
<1>0. /\ UNCHANGED <<script, blocks, confirmed>> /\ confirmed \in Nat
      /\ \A n : StateAt(n)' = StateAt(n)
  <2>1. UNCHANGED <<script, blocks, confirmed>>
    BY AdvanceStep DEF Inv
  <2> QED
    BY <2>1 DEF StateAt, Inv, TypeInv
<1> SUFFICES ASSUME NEW other \in Runs
             PROVE  /\ slot'[other] <= confirmed
                    /\ pc'[other] \in {"cleared", "sent"} =>
                         (Outcome(TxOf(other), StateAt(slot[other])))'.error = "Ok"
                    /\ pc'[other] = "sent" =>
                         \A n \in DOMAIN blocks : blocks[n].tx = TxOf(other)' => slot'[other] < n
  BY <1>0 DEF SlotInv
<1>1. ASSUME slot'[other] = slot[other] \/ slot'[other] = confirmed
      PROVE  slot'[other] <= confirmed
  BY <1>0, <1>1 DEF SlotInv
<1>2. PICK n, state : n = slot'[other] /\ state = StateAt(n)
  OBVIOUS
<1>3. StateAt(slot[other])' = state
  BY <1>0, <1>2
<1>4. PICK tx : tx = TxOf(other)'
  OBVIOUS
<1>5. (Outcome(TxOf(other), StateAt(slot[other])))' = Outcome(tx, state)
  BY <1>0, <1>3, <1>4 DEF Outcome
<1>6. ASSUME Same(other)
      PROVE  tx = TxOf(other) /\ n = slot[other]
  BY <1>2, <1>4, <1>6 DEF Same, TxOf
<1>7. CASE other # run
  <2>1. Same(other)
    BY <1>7, AdvanceStep DEF Inv
  <2> QED
    BY <1>1, <1>2, <1>4, <1>5, <1>6, <2>1 DEF SlotInv, Same
<1>8. CASE other = run /\ Prepares(run)
  <2>1. pc'[other] = "cleared" => Outcome(tx, state).error = "Ok"
    BY <1>2, <1>4, <1>8 DEF Prepares
  <2> QED
    BY <1>1, <1>5, <1>8, <2>1 DEF Prepares
<1>9. CASE other = run /\ Offers(run)
  <2>1. /\ pc'[run] = "sent" /\ pc[run] = "cleared" /\ tx = TxOf(run) /\ n = slot[run]
    BY <1>2, <1>4, <1>9 DEF Offers, Posts, TxOf
  <2>2. Outcome(tx, state).error = "Ok" /\ slot'[other] <= confirmed
    BY <1>1, <1>2, <1>9, <2>1 DEF SlotInv, Offers
  <2>3. \A i \in DOMAIN blocks : blocks[i].tx # tx
    <3>1. tx.run = run /\ tx # NoTx
      BY <2>1, RequestType, NoTxIsNone DEF TxOf, Inv
    <3>2. \A i \in DOMAIN blocks : blocks[i].tx # NoTx => blocks[i].tx \in Taken
      BY DEF Taken
    <3> QED
      BY <2>1, <3>1, <3>2, NothingOut
  <2> QED
    BY <1>4, <1>5, <2>2, <2>3
<1>10. CASE other = run /\ \E what \in Answers : Speaks(run, what)
  BY <1>1, <1>10 DEF Speaks
<1> QED
  BY <1>7, <1>8, <1>9, <1>10, AdvanceStep DEF Inv

LEMMA AdvanceKeeps ==
  ASSUME IInv, NEW run \in Runs, Advance(run)
  PROVE  IInv'
<1>0. Inv /\ ChainInv /\ SlotInv
  BY DEF IInv, Inv
<1>1. TypeInv'
  <2>1. /\ UNCHANGED <<script, blocks, confirmed, rooted, expired>>
        /\ pc' \in [Runs -> Places] /\ nonce' \in [Runs -> Nat] /\ slot' \in [Runs -> Nat]
        /\ shown' \in [Runs -> Seq(Answers)]
    BY <1>0, AdvanceStep DEF Inv
  <2>2. waiting' \subseteq Transaction
    BY <1>0, AdvanceTakes DEF Inv, TypeInv
  <2> QED
    BY <1>0, <2>1, <2>2 DEF Inv, TypeInv
<1>2. ChainInv'
  BY <1>0, AdvanceStep, ChainSame DEF Inv
<1> QED
  BY <1>0, <1>1, <1>2, PlanStep, SentStep, OnceStep, OpenStep, SlotStep DEF IInv

(* What the cluster does happens behind the back of the runs.              *)
LEMMA ClusterKeeps ==
  ASSUME IInv, ClusterMoves
  PROVE  IInv'
<1>0. /\ TypeInv /\ PlanInv /\ SentInv /\ OnceInv /\ OpenInv /\ ChainInv /\ SlotInv
      /\ UNCHANGED <<script, pc, nonce, slot, shown>>
      /\ Taken' \subseteq Taken /\ Open' \subseteq Open /\ OnceInv'
  BY ClusterStep DEF IInv
<1>1. TypeInv'
  <2>1. /\ blocks' \in Seq(Block) /\ waiting' \subseteq Transaction
        /\ expired' \subseteq Transaction
        /\ confirmed' \in 0 .. Len(blocks') /\ rooted' \in 0 .. confirmed'
    BY <1>0, ClusterStep
  <2> QED
    BY <1>0, <2>1 DEF TypeInv
<1>2. PlanInv'
  BY <1>0 DEF PlanInv
<1>3. \A tx : Current(tx)' <=> Current(tx)
  BY <1>0 DEF Current, TxOf
<1>4. SentInv'
  BY <1>0, <1>3 DEF SentInv
<1>5. OpenInv'
  <2>1. \A tx \in Open : \/ Current(tx)
                       \/ /\ pc[tx.run] = "thrown" /\ tx.step = Len(shown[tx.run])
                          /\ shown[tx.run][tx.step] \in Unsure
    BY <1>0 DEF OpenInv, Open
  <2>2. \A tx \in Open' : \/ Current(tx)'
                        \/ /\ pc'[tx.run] = "thrown" /\ tx.step = Len(shown'[tx.run])
                           /\ shown'[tx.run][tx.step] \in Unsure
    BY <1>0, <1>3, <2>1
  <2> QED
    BY <2>2 DEF OpenInv, Open
<1>6. ChainInv'
  BY <1>0, ChainGrows
<1>7. SlotInv'
  <2> SUFFICES ASSUME NEW run \in Runs
               PROVE  /\ slot[run] <= confirmed'
                      /\ pc[run] \in {"cleared", "sent"} =>
                           (Outcome(TxOf(run), StateAt(slot[run])))'.error = "Ok"
                      /\ pc[run] = "sent" =>
                           \A n \in DOMAIN blocks' : blocks'[n].tx = TxOf(run)' => slot[run] < n
    BY <1>0 DEF SlotInv
  <2>1. PICK c \in Nat, d \in Nat, s \in Nat :
          c = confirmed /\ d = confirmed' /\ c <= d /\ s = slot[run] /\ s <= c
    <3>1. confirmed \in Nat /\ slot[run] \in Nat /\ slot[run] <= confirmed
      BY <1>0 DEF TypeInv, SlotInv
    <3>2. confirmed' \in Nat
      BY <1>1 DEF TypeInv
    <3>3. confirmed <= confirmed'
      <4>1. confirmed' >= confirmed
        BY <1>0, ClusterStep
      <4> QED
        BY <3>1, <3>2, <4>1
    <3> QED
      BY <3>1, <3>2, <3>3
  <2>2. PICK tx, state : tx = TxOf(run) /\ state = StateAt(slot[run])
    OBVIOUS
  <2>3. TxOf(run)' = tx
    BY <1>0, <2>2 DEF TxOf
  <2>4. StateAt(slot[run])' = state
    <3>1. StateAt(s)' = StateAt(s)
      BY <1>0, <2>1, ClusterStep
    <3> QED
      BY <1>0, <2>1, <2>2, <3>1 DEF StateAt
  <2>5. (Outcome(TxOf(run), StateAt(slot[run])))' = Outcome(tx, state)
    BY <1>0, <2>3, <2>4 DEF Outcome
  <2>6. pc[run] \in {"cleared", "sent"} => Outcome(tx, state).error = "Ok"
    BY <1>0, <2>2 DEF SlotInv
  <2>7. slot[run] <= confirmed'
    BY <2>1
  <2>8. ASSUME pc[run] = "sent", NEW n \in DOMAIN blocks', blocks'[n].tx = tx
        PROVE  slot[run] < n
    <3>1. CASE n \in DOMAIN blocks /\ blocks'[n] = blocks[n]
      BY <1>0, <2>2, <2>8, <3>1 DEF SlotInv
    <3>2. CASE n > confirmed
      <4>1. n \in Nat
        BY <1>1, <2>8 DEF TypeInv
      <4> QED
        BY <2>1, <3>2, <4>1
    <3> QED
      BY <1>0, <2>8, <3>1, <3>2, ClusterStep
  <2> QED
    BY <2>3, <2>5, <2>6, <2>7, <2>8
<1> QED
  BY <1>0, <1>1, <1>2, <1>4, <1>5, <1>6, <1>7 DEF IInv

LEMMA Starts == Init => IInv
<1> SUFFICES ASSUME Init PROVE IInv
  OBVIOUS
<1>1. /\ script \in Plans /\ script \in [Runs -> Seq(Step)]
      /\ blocks = <<>> /\ confirmed = 0 /\ rooted = 0 /\ waiting = {} /\ expired = {}
      /\ pc = [run \in Runs |-> IF script[run] = <<>> THEN "finished" ELSE "ready"]
      /\ nonce = [run \in Runs |-> 0] /\ slot = [run \in Runs |-> 0]
      /\ shown = [run \in Runs |-> <<>>]
  BY SettlementAssumption DEF Init, ClusterInit, SettlementAssumption
<1>2. Len(blocks) = 0 /\ DOMAIN blocks = {}
  BY <1>1
<1>3. TypeInv
  <2>1. blocks \in Seq(Block) /\ waiting \subseteq Transaction /\ expired \subseteq Transaction
    BY <1>1
  <2>2. pc \in [Runs -> Places] /\ nonce \in [Runs -> Nat] /\ slot \in [Runs -> Nat]
    BY <1>1 DEF Places
  <2>3. shown \in [Runs -> Seq(Answers)]
    <3>1. <<>> \in Seq(Answers)
      OBVIOUS
    <3> QED
      BY <1>1, <3>1
  <2>4. confirmed \in 0 .. Len(blocks) /\ rooted \in 0 .. confirmed
    BY <1>1, <1>2
  <2> QED
    BY <1>1, <2>1, <2>2, <2>3, <2>4 DEF TypeInv
<1>4. PlanInv
  <2> SUFFICES ASSUME NEW run \in Runs
               PROVE  /\ Len(shown[run]) <= Len(script[run])
                      /\ pc[run] \notin {"finished", "thrown"} =>
                           Len(shown[run]) < Len(script[run])
    BY DEF PlanInv
  <2>1. script[run] \in Seq(Step) /\ Len(shown[run]) = 0
    BY <1>1
  <2>2. Len(script[run]) \in Nat /\ (Len(script[run]) = 0 => script[run] = <<>>)
    BY <2>1
  <2>3. pc[run] \notin {"finished", "thrown"} => script[run] # <<>>
    BY <1>1
  <2> QED
    BY <2>1, <2>2, <2>3
<1>5. Taken = {} /\ SentInv /\ OnceInv
  BY <1>1, <1>2 DEF Taken, SentInv, OnceInv
<1>6. OpenInv
  <2>1. waiting \cup { blocks[n].tx : n \in rooted + 1 .. Len(blocks) } = {}
    BY <1>1, <1>2
  <2> QED
    BY <2>1 DEF OpenInv
<1>7. ChainInv
  <2>1. \A m, n \in 0 .. Len(blocks) : Between(m, n)
    BY <1>2 DEF Between
  <2> QED
    BY <1>2, <2>1 DEF ChainInv
<1>8. SlotInv
  BY <1>1 DEF SlotInv
<1> QED
  BY <1>3, <1>4, <1>5, <1>6, <1>7, <1>8 DEF IInv

LEMMA Rests == IInv /\ UNCHANGED vars => IInv'
<1> SUFFICES ASSUME IInv, UNCHANGED vars PROVE IInv'
  OBVIOUS
<1>1. /\ UNCHANGED <<script, pc, nonce, slot, shown>>
      /\ UNCHANGED <<blocks, confirmed, rooted, waiting, expired>>
  BY DEF vars, clusterVars
<1>2. \A n : StateAt(n)' = StateAt(n)
  BY <1>1 DEF StateAt
<1>3. \A tx : (Current(tx)' <=> Current(tx)) /\ \A run : TxOf(run)' = TxOf(run)
  BY <1>1 DEF Current, TxOf
<1>4. TypeInv' /\ PlanInv' /\ Taken' = Taken /\ OnceInv'
  BY <1>1 DEF IInv, TypeInv, PlanInv, Taken, OnceInv
<1>5. SentInv' /\ OpenInv'
  BY <1>1, <1>3, <1>4 DEF IInv, SentInv, OpenInv
<1>6. ChainInv'
  BY <1>1, ChainSame DEF IInv
<1>7. SlotInv'
  <2> SUFFICES ASSUME NEW run \in Runs
               PROVE  pc[run] \in {"cleared", "sent"} =>
                        (Outcome(TxOf(run), StateAt(slot[run])))'.error = "Ok"
    BY <1>1, <1>3 DEF IInv, SlotInv
  <2>1. PICK tx, state : tx = TxOf(run) /\ state = StateAt(slot[run])
    OBVIOUS
  <2>2. TxOf(run)' = tx /\ StateAt(slot[run])' = state
    BY <1>1, <1>3, <2>1 DEF StateAt
  <2>3. (Outcome(TxOf(run), StateAt(slot[run])))' = Outcome(tx, state)
    BY <1>1, <2>2 DEF Outcome
  <2> QED
    BY <2>1, <2>3 DEF IInv, SlotInv
<1> QED
  BY <1>4, <1>5, <1>6, <1>7 DEF IInv

(* The invariant is inductive: it holds whatever forks, expires or is lost.*)
THEOREM Invariant == Spec => []IInv
<1>1. IInv /\ [Next]_vars => IInv'
  BY AdvanceKeeps, ClusterKeeps, Rests DEF Next
<1> QED
  BY Starts, <1>1, PTL DEF Spec

----------------------------------------------------------------------------
(* A run has at most one request out, and it does not go on before that    *)
(* one is decided for good: NoBlindRetry of Settlement.                    *)
THEOREM RetryHeld == Spec => []NoBlindRetry
<1>1. IInv => NoBlindRetry
  <2> SUFFICES ASSUME IInv, NEW run \in Runs
               PROVE  \A i, j \in DOMAIN script[run] :
                        /\ Undecided(<<run, i>>) /\ Undecided(<<run, j>>) => i = j
                        /\ Undecided(<<run, i>>) => pc[run] \in {"sent", "thrown"}
    BY DEF NoBlindRetry
  <2> DEFINE out == IF pc[run] = "sent" THEN Len(shown[run]) + 1 ELSE Len(shown[run])
  <2>1. ASSUME NEW i, Undecided(<<run, i>>)
        PROVE  i = out /\ pc[run] \in {"sent", "thrown"}
    <3>1. PICK tx \in Open : tx.run = run /\ tx.step = i
      BY <2>1 DEF Undecided, Open, Is
    <3>2. CASE Current(tx)
      BY <3>1, <3>2 DEF Current, TxOf
    <3>3. CASE pc[tx.run] = "thrown" /\ tx.step = Len(shown[tx.run])
      BY <3>1, <3>3
    <3> QED
      BY <3>1, <3>2, <3>3 DEF IInv, OpenInv, Open
  <2> HIDE DEF out
  <2> QED
    BY <2>1
<1> QED
  BY Invariant, <1>1, PTL

(* What was allowed and fails as expired, fails where the deadline passed  *)
(* after the simulation, and what fails in another way behind a            *)
(* transaction that changed the accounts: ProvisionalOnly of Settlement.   *)
THEOREM AllowIsProvisional == Spec => []ProvisionalOnly
<1>1. IInv => ProvisionalOnly
  <2> SUFFICES ASSUME IInv, NEW n \in DOMAIN blocks, NEW tx, tx = blocks[n].tx, tx # NoTx,
                      tx = TxOf(tx.run), Failed(n)
               PROVE  \E m \in slot[tx.run] + 1 .. n - 1 :
                        ~Failed(m) /\ (blocks[m].tx = NoTx <=> blocks[n].error = "Expired")
    BY DEF ProvisionalOnly
  <2>1. PICK run \in Runs : run = tx.run /\ tx \in Transaction
    <3>1. tx \in Transaction
      BY TakenType DEF IInv, Taken
    <3> QED
      BY <3>1 DEF Transaction
  <2>2. pc[run] = "sent" /\ tx.step \in DOMAIN script[run]
    <3>1. PICK l \in Nat : l = Len(shown[run])
      BY DEF IInv, TypeInv
    <3>2. tx.step = l + 1
      BY <2>1, <3>1 DEF TxOf
    <3>3. /\ tx.step <= l \/ pc[run] = "sent"
          /\ tx.step \in DOMAIN script[run]
      BY <2>1, <3>1 DEF IInv, SentInv, Taken, Current
    <3> QED
      BY <3>2, <3>3
  <2>3. PICK s \in Nat, k \in Nat, l \in Nat :
          s = slot[run] /\ k = n - 1 /\ l = Len(blocks) /\ s <= k /\ k <= l
    <3>1. slot[run] \in Nat /\ n \in Nat /\ Len(blocks) \in Nat /\ n <= Len(blocks) /\ n >= 1
      BY DEF IInv, TypeInv
    <3>2. slot[run] < n
      BY <2>1, <2>2 DEF IInv, SlotInv
    <3> QED
      BY <3>1, <3>2
  <2>4. PICK old, new : old = StateAt(s) /\ new = StateAt(k)
    OBVIOUS
  <2>5. s \in 0 .. Len(blocks) /\ k \in 0 .. Len(blocks) /\ s <= k
    BY <2>3
  <2>6. old \in Accounts /\ new \in Accounts /\ Between(s, k)
    BY <2>4, <2>5, StateType DEF IInv, ChainInv
  <2>7. Outcome(tx, old).error = "Ok"
    BY <2>1, <2>2, <2>3, <2>4 DEF IInv, SlotInv
  <2>8. blocks[n].error = Outcome(tx, new).error /\ blocks[n].error # "Ok"
    BY <2>3, <2>4 DEF IInv, ChainInv, Explained, Failed
  <2>9. PICK args : \/ Outcome(tx, new).error = "Ok"
                    \/ \A state \in {old, new} :
                         Outcome(tx, state).error =
                           Decision(state.policy, RATE, state.vault, state.time, args)
    <3>1. CASE script[tx.run][tx.step].kind = "revoke"
      BY <3>1 DEF Outcome
    <3>2. CASE script[tx.run][tx.step].kind # "revoke"
      BY <3>2 DEF Outcome
    <3> QED
      BY <3>1, <3>2
  <2>10. /\ Decision(old.policy, RATE, old.vault, old.time, args) = "Ok"
         /\ Decision(new.policy, RATE, new.vault, new.time, args) = blocks[n].error
    BY <2>7, <2>8, <2>9
  <2>11. CASE blocks[n].error = "Expired"
    <3>1. old.policy.expires_at = new.policy.expires_at
      BY <2>6 DEF Accounts, Policy
    <3>2. old.time # new.time
      BY <2>10, <2>11, <3>1, ExpiresLater
    <3> QED
      BY <2>1, <2>3, <2>4, <2>6, <2>11, <3>2 DEF Between
  <2>12. CASE blocks[n].error # "Expired"
    <3>1. ~(old.policy = new.policy /\ old.vault = new.vault)
      BY <2>8, <2>10, <2>12, OnlyExpires
    <3> QED
      BY <2>1, <2>3, <2>4, <2>6, <2>12, <3>1 DEF Between
  <2> QED
    BY <2>11, <2>12
<1> QED
  BY Invariant, <1>1, PTL

----------------------------------------------------------------------------
(* What a run tells its user of a request is so.                           *)

(* What a request may be called once its answer is there.                  *)
Called(what) ==
  CASE what = "FINALIZED" -> "done"
    [] what = "TRANSACTION_FAILED" -> "failed"
    [] what \in {"CONFIRMATION_UNKNOWN", "ANSWER_LOST"} -> "unknown"
    [] what \in Unsent -> "drafted"
    [] OTHER -> "refused"

LEMMA CalledAs ==
  /\ Called("FINALIZED") = "done" /\ Called("TRANSACTION_FAILED") = "failed"
  /\ Called("CONFIRMATION_UNKNOWN") = "unknown" /\ Called("ANSWER_LOST") = "unknown"
  /\ \A what \in Unsent : Called(what) = "drafted"
  /\ \A what \in Refusals : Called(what) = "refused"
BY DEF Called, Unsent, Refusals, Errors

LEMMA StageCases ==
  ASSUME NEW run, NEW k
  PROVE  /\ k \in DOMAIN shown[run] => StageOf(<<run, k>>) = Called(shown[run][k])
         /\ k \notin DOMAIN shown[run] =>
              StageOf(<<run, k>>) = IF pc[run] = "sent" /\ k = Len(shown[run]) + 1
                                    THEN "offered" ELSE "drafted"
         /\ k \in DOMAIN (shown'[run]) => StageOf(<<run, k>>)' = Called(shown'[run][k])
         /\ k \notin DOMAIN (shown'[run]) =>
              StageOf(<<run, k>>)' = IF pc'[run] = "sent" /\ k = Len(shown'[run]) + 1
                                     THEN "offered" ELSE "drafted"
<1>1. <<run, k>>[1] = run /\ <<run, k>>[2] = k
  OBVIOUS
<1> QED
  BY <1>1 DEF StageOf, Called, Unsent

LEMMA RequestShape ==
  ASSUME NEW r \in Requests
  PROVE  \E run \in Runs, k \in Nat : r = <<run, k>>
<1>1. PICK run \in Runs, plan \in Plans : r \in { <<run, k>> : k \in DOMAIN plan[run] }
  BY DEF Requests
<1>2. plan[run] \in Seq(Step)
  BY SettlementAssumption DEF SettlementAssumption
<1>3. \A k \in DOMAIN plan[run] : k \in Nat
  BY <1>2
<1> QED
  BY <1>1, <1>3

LEMMA Scripted ==
  ASSUME TypeInv, NEW run \in Runs, NEW k \in DOMAIN script[run]
  PROVE  <<run, k>> \in Requests
<1>1. PICK S : S = { <<run, j>> : j \in DOMAIN script[run] }
  OBVIOUS
<1>2. <<run, k>> \in S /\ script \in Plans
  BY <1>1 DEF TypeInv
<1>3. S \in { { <<r, j>> : j \in DOMAIN plan[r] } : r \in Runs, plan \in Plans }
  BY <1>1, <1>2
<1> QED
  BY <1>2, <1>3 DEF Requests

(* The stage is about what a run does, the effect about what is final.     *)
LEMMA EffectSame ==
  ASSUME rooted' = rooted, expired' = expired,
         \A n \in 1 .. rooted : blocks'[n] = blocks[n]
  PROVE  \A r : EffectOf(r)' = EffectOf(r)
BY DEF EffectOf, Failed

LEMMA Moves ==
  ASSUME NEW r \in Requests, NEW s, StageOf(r)' = s,
         \A q \in Requests \ {r} : StageOf(q)' = StageOf(q),
         \A q \in Requests : EffectOf(q)' = EffectOf(q)
  PROVE  Promise!Becomes(r, s)
<1>1. [request \in Requests |-> StageOf(request)'] =
        [[request \in Requests |-> StageOf(request)] EXCEPT ![r] = s]
  OBVIOUS
<1>2. [request \in Requests |-> EffectOf(request)'] =
        [request \in Requests |-> EffectOf(request)]
  OBVIOUS
<1> QED
  BY <1>1, <1>2 DEF Promise!Becomes

LEMMA Stutters ==
  ASSUME \A q \in Requests : StageOf(q)' = StageOf(q),
         \A q \in Requests : EffectOf(q)' = EffectOf(q)
  PROVE  UNCHANGED Promise!vars
<1>1. [request \in Requests |-> StageOf(request)'] =
        [request \in Requests |-> StageOf(request)]
  OBVIOUS
<1>2. [request \in Requests |-> EffectOf(request)'] =
        [request \in Requests |-> EffectOf(request)]
  OBVIOUS
<1> QED
  BY <1>1, <1>2 DEF Promise!vars

LEMMA Settles ==
  ASSUME NEW r \in Requests, StageOf(r) \in {"offered", "unknown", "failed"},
         EffectOf(r) = "open", EffectOf(r)' \in {"applied", "void"},
         \A q \in Requests : StageOf(q)' = StageOf(q),
         \A q \in Requests \ {r} : EffectOf(q)' = EffectOf(q)
  PROVE  Promise!Next
<1>1. [request \in Requests |-> StageOf(request)'] =
        [request \in Requests |-> StageOf(request)]
  OBVIOUS
<1>2. PICK e \in {"applied", "void"} : e = EffectOf(r)'
  OBVIOUS
<1>3. [request \in Requests |-> EffectOf(request)'] =
        [[request \in Requests |-> EffectOf(request)] EXCEPT ![r] = e]
  BY <1>2
<1>4. Promise!Settle(r)
  BY <1>1, <1>3 DEF Promise!Settle
<1> QED
  BY <1>4 DEF Promise!Next

(* The requests that a run is not working on stay what they were called.   *)
LEMMA StageSame ==
  ASSUME TypeInv, NEW run \in Runs, NEW k \in Nat,
         \/ Same(run)
         \/ /\ k # Len(shown[run]) + 1
            /\ \/ shown'[run] = shown[run]
               \/ /\ pc'[run] # "sent"
                  /\ \E what \in Answers : shown'[run] = Append(shown[run], what)
  PROVE  StageOf(<<run, k>>)' = StageOf(<<run, k>>)
<1>1. CASE Same(run)
  <2>1. pc'[run] = pc[run] /\ shown'[run] = shown[run]
    BY <1>1 DEF Same
  <2> QED
    BY <2>1, StageCases
<1>2. CASE k # Len(shown[run]) + 1 /\ shown'[run] = shown[run]
  BY <1>2, StageCases
<1>3. ASSUME k # Len(shown[run]) + 1, pc'[run] # "sent",
             NEW what \in Answers, shown'[run] = Append(shown[run], what)
      PROVE  StageOf(<<run, k>>)' = StageOf(<<run, k>>)
  <2>1. PICK told : told = shown[run]
    OBVIOUS
  <2>2. /\ Len(told) \in Nat /\ \A i \in 1 .. Len(told) : shown'[run][i] = told[i]
        /\ DOMAIN told = 1 .. Len(told) /\ DOMAIN (shown'[run]) = 1 .. Len(told) + 1
    BY <1>3, <2>1, Spoken
  <2>3. CASE k \in 1 .. Len(told)
    <3>1. k \in DOMAIN shown[run] /\ k \in DOMAIN (shown'[run]) /\ shown'[run][k] = shown[run][k]
      BY <2>1, <2>2, <2>3
    <3> QED
      BY <3>1, StageCases
  <2>4. CASE k \notin 1 .. Len(told)
    <3>1. k \notin DOMAIN shown[run] /\ k \notin DOMAIN (shown'[run])
      BY <1>3, <2>1, <2>2, <2>4
    <3> QED
      BY <1>3, <3>1, StageCases
  <2> QED
    BY <2>3, <2>4
<1> QED
  BY <1>1, <1>2, <1>3

LEMMA PromiseAdvance ==
  ASSUME Inv, NEW run \in Runs, Advance(run)
  PROVE  Promise!Next \/ UNCHANGED Promise!vars
<1>0. PICK l \in Nat : l = Len(shown[run])
  BY DEF Inv, TypeInv
<1>1. PICK r : l = Len(shown[run]) /\ r = <<run, l + 1>>
  BY <1>0
<1>2. /\ TxOf(run).run = run /\ TxOf(run).step = l + 1 /\ r \in Requests
      /\ TxOf(run) # NoTx
  <2>1. pc[run] \notin {"finished", "thrown"}
    BY AdvanceStep DEF Inv
  <2>2. /\ TxOf(run).run = run /\ TxOf(run).step = l + 1 /\ l + 1 \in DOMAIN script[run]
        /\ TxOf(run) # NoTx
    BY <1>1, <2>1, RequestType, NoTxIsNone DEF Inv
  <2> QED
    BY <1>1, <2>2, Scripted DEF Inv
<1>3. \A q : EffectOf(q)' = EffectOf(q)
  <2>1. UNCHANGED <<blocks, rooted, expired>>
    BY AdvanceStep DEF Inv
  <2> QED
    BY <2>1, EffectSame
<1>4. StageOf(r) = IF pc[run] = "sent" THEN "offered" ELSE "drafted"
  <2>1. l + 1 \notin DOMAIN shown[run]
    BY <1>1 DEF Inv, TypeInv
  <2> QED
    BY <1>1, <2>1, StageCases
<1>5. ASSUME \/ shown'[run] = shown[run]
             \/ /\ pc'[run] # "sent"
                /\ \E what \in Answers : shown'[run] = Append(shown[run], what)
      PROVE  \A q \in Requests \ {r} : StageOf(q)' = StageOf(q)
  <2> SUFFICES ASSUME NEW q \in Requests, q # r PROVE StageOf(q)' = StageOf(q)
    OBVIOUS
  <2>1. PICK other \in Runs, k \in Nat : q = <<other, k>>
    BY RequestShape
  <2>2. CASE other # run
    <3>1. Same(other)
      BY <2>2, AdvanceStep DEF Inv
    <3>2. StageOf(<<other, k>>)' = StageOf(<<other, k>>)
      BY <3>1, StageSame DEF Inv
    <3> QED
      BY <2>1, <3>2
  <2>3. CASE other = run
    <3>1. k # Len(shown[run]) + 1
      BY <1>1, <2>1, <2>3
    <3>2. StageOf(<<run, k>>)' = StageOf(<<run, k>>)
      BY <1>5, <3>1, StageSame DEF Inv
    <3> QED
      BY <2>1, <2>3, <3>2
  <2> QED
    BY <2>2, <2>3
<1>6. ASSUME shown'[run] = shown[run]
      PROVE  StageOf(r)' = IF pc'[run] = "sent" THEN "offered" ELSE "drafted"
  <2>1. l + 1 \notin DOMAIN (shown'[run]) /\ l + 1 = Len(shown'[run]) + 1
    BY <1>1, <1>6 DEF Inv, TypeInv
  <2>2. StageOf(<<run, l + 1>>)' = IF pc'[run] = "sent" THEN "offered" ELSE "drafted"
    BY <2>1, StageCases
  <2> QED
    BY <1>1, <2>2
<1>7. CASE Prepares(run)
  <2>1. StageOf(r)' = StageOf(r)
    BY <1>4, <1>6, <1>7 DEF Prepares
  <2> QED
    BY <1>3, <1>5, <1>7, <2>1, Stutters DEF Prepares
<1>8. CASE Offers(run)
  <2>1. StageOf(r) = "drafted" /\ StageOf(r)' = "offered"
    BY <1>4, <1>6, <1>8 DEF Offers, Posts
  <2>2. Promise!Becomes(r, "offered")
    BY <1>2, <1>3, <1>5, <1>8, <2>1, Moves DEF Offers
  <2>3. Promise!Offer(r)
    BY <1>2, <2>1, <2>2 DEF Promise!Offer
  <2> QED
    BY <1>2, <2>3 DEF Promise!Next
<1>9. ASSUME NEW what \in Answers, Speaks(run, what)
      PROVE  Promise!Next \/ UNCHANGED Promise!vars
  <2>1. StageOf(r)' = Called(what)
    <3>1. l + 1 \in DOMAIN (shown'[run]) /\ shown'[run][l + 1] = what
      BY <1>1, <1>9, Spoken DEF Inv, Speaks
    <3>2. StageOf(<<run, l + 1>>)' = Called(what)
      BY <3>1, StageCases
    <3> QED
      BY <1>1, <3>2
  <2>2. \A q \in Requests \ {r} : StageOf(q)' = StageOf(q)
    BY <1>5, <1>9 DEF Speaks
  <2>3. Promise!Becomes(r, Called(what))
    BY <1>2, <1>3, <2>1, <2>2, Moves
  <2>4. CASE pc[run] = "sent" /\ what = "TRANSACTION_FAILED"
    <3>1. StageOf(r) = "offered" /\ Called(what) = "failed"
      BY <1>4, <2>4, CalledAs
    <3>2. Promise!Fail(r)
      BY <1>2, <2>3, <3>1 DEF Promise!Fail
    <3> QED
      BY <1>2, <3>2 DEF Promise!Next
  <2>5. CASE pc[run] = "sent" /\ what = "FINALIZED" /\ AppliedBy(rooted, TxOf(run))
    <3>1. StageOf(r) = "offered" /\ Called(what) = "done"
      BY <1>4, <2>5, CalledAs
    <3>2. PICK n \in 1 .. rooted : blocks[n].tx = TxOf(run) /\ ~Failed(n)
      BY <2>5 DEF AppliedBy
    <3>3. Is(blocks[n].tx, r)
      BY <1>1, <1>2, <3>2 DEF Is
    <3>4. EffectOf(r) = "applied"
      BY <3>2, <3>3 DEF EffectOf
    <3>5. Promise!Succeed(r)
      BY <1>2, <2>3, <3>1, <3>4 DEF Promise!Succeed
    <3> QED
      BY <1>2, <3>5 DEF Promise!Next
  <2>6. CASE /\ pc[run] \in {"sent", "cleared"}
             /\ what \in {"CONFIRMATION_UNKNOWN", "ANSWER_LOST"}
    <3>1. StageOf(r) \in {"drafted", "offered"} /\ Called(what) = "unknown"
      BY <1>4, <2>6, CalledAs
    <3>2. Promise!LoseSight(r)
      BY <1>2, <2>3, <3>1 DEF Promise!LoseSight
    <3> QED
      BY <1>2, <3>2 DEF Promise!Next
  <2>7. CASE pc[run] \in {"ready", "signed", "cleared"} /\ what \in Unsent
    <3>1. StageOf(r) = "drafted" /\ Called(what) = "drafted"
      BY <1>4, <2>7, CalledAs
    <3> QED
      BY <1>3, <2>1, <2>2, <3>1, Stutters
  <2>8. CASE pc[run] \in {"ready", "signed", "cleared"} /\ what \in Refusals
    <3>1. StageOf(r) = "drafted" /\ Called(what) = "refused"
      BY <1>4, <2>8, CalledAs
    <3>2. \A tx \in Taken : ~Is(tx, r)
      <4>1. \A tx \in Taken : tx.run = run => tx.step <= l
        BY <1>1, <2>8, NothingOut
      <4>2. ~(l + 1 <= l)
        OBVIOUS
      <4> QED
        BY <1>1, <4>1, <4>2 DEF Is
    <3>3. EffectOf(r) = "open"
      <4>1. 1 .. rooted \subseteq DOMAIN blocks
        BY DEF Inv, TypeInv
      <4> QED
        BY <3>2, <4>1 DEF EffectOf, Taken, Is
    <3>4. Promise!Refuse(r)
      BY <1>2, <2>3, <3>1, <3>3 DEF Promise!Refuse
    <3> QED
      BY <1>2, <3>4 DEF Promise!Next
  <2> QED
    BY <1>9, <2>4, <2>5, <2>6, <2>7, <2>8 DEF Speaks, Posts
<1> QED
  BY <1>7, <1>8, <1>9, AdvanceStep DEF Inv

(* A request whose transaction is still open is one the client asked, and  *)
(* has not called done.                                                    *)
LEMMA OpenRequest ==
  ASSUME Inv, NEW tx \in Open, NEW r, r = <<tx.run, tx.step>>
  PROVE  /\ tx \in Taken /\ r \in Requests
         /\ StageOf(r) \in {"offered", "unknown", "failed"}
<1>1. tx \in Taken
  <2>1. rooted + 1 .. Len(blocks) \subseteq DOMAIN blocks
    BY DEF Inv, TypeInv
  <2> QED
    BY <2>1 DEF Open, Taken
<1>2. PICK run \in Runs, k \in Nat : run = tx.run /\ k = tx.step /\ k \in DOMAIN script[run]
  <2>1. tx \in Transaction
    BY <1>1, TakenType DEF Inv
  <2> QED
    BY <1>1, <2>1 DEF Inv, SentInv, Transaction
<1>3. r \in Requests
  BY <1>2, Scripted DEF Inv
<1>4. PICK l \in Nat : l = Len(shown[run]) /\ DOMAIN shown[run] = 1 .. l
  BY DEF Inv, TypeInv
<1>5. CASE Current(tx)
  <2>1. pc[run] = "sent" /\ k = l + 1
    BY <1>2, <1>4, <1>5 DEF Current, TxOf
  <2>2. k \notin DOMAIN shown[run]
    BY <1>4, <2>1
  <2>3. StageOf(<<run, k>>) = "offered"
    BY <1>4, <2>1, <2>2, StageCases
  <2> QED
    BY <1>1, <1>2, <1>3, <2>3
<1>6. CASE k = l /\ shown[run][k] \in Unsure
  <2>1. k \in DOMAIN shown[run]
    BY <1>2, <1>4, <1>6 DEF Inv, TypeInv, PlanInv
  <2>2. StageOf(<<run, k>>) = Called(shown[run][k])
    BY <2>1, StageCases
  <2> QED
    BY <1>1, <1>2, <1>3, <1>6, <2>2, CalledAs DEF Unsure
<1> QED
  BY <1>2, <1>4, <1>5, <1>6 DEF Inv, OpenInv, Open

LEMMA PromiseCluster ==
  ASSUME Inv, ClusterMoves
  PROVE  Promise!Next \/ UNCHANGED Promise!vars
<1>0. /\ confirmed \in 0 .. Len(blocks) /\ rooted \in 0 .. confirmed
      /\ Len(blocks) \in Nat /\ DOMAIN blocks = 1 .. Len(blocks)
  BY DEF Inv, TypeInv
<1>1. \A q \in Requests : StageOf(q)' = StageOf(q)
  <2> SUFFICES ASSUME NEW q \in Requests PROVE StageOf(q)' = StageOf(q)
    OBVIOUS
  <2>1. shown' = shown /\ pc' = pc
    BY DEF ClusterMoves
  <2>2. PICK run \in Runs, k \in Nat : q = <<run, k>>
    BY RequestShape
  <2>3. StageOf(<<run, k>>)' = StageOf(<<run, k>>)
    BY <2>1, StageCases
  <2> QED
    BY <2>2, <2>3
<1>2. ASSUME rooted' = rooted, expired' = expired,
             \A n \in 1 .. rooted : blocks'[n] = blocks[n]
      PROVE  UNCHANGED Promise!vars
  BY <1>1, <1>2, EffectSame, Stutters
<1>3. CASE Executes \/ Elapse
  <2>1. PICK L \in Nat : L = Len(blocks)
    BY <1>0
  <2>2. rooted' = rooted /\ expired' = expired
    BY <1>3, <2>1, Growing DEF Inv
  <2>3. PICK b \in Block : blocks' = Append(blocks, b)
    BY <1>3, <2>1, Growing DEF Inv
  <2>4. \A i \in 1 .. L : blocks'[i] = blocks[i]
    BY <2>1, <2>3, Appended DEF Inv
  <2>5. \A n \in 1 .. rooted : n \in 1 .. L
    BY <1>0, <2>1
  <2> QED
    BY <1>2, <2>2, <2>4, <2>5
<1>4. CASE Confirm
  BY <1>2, <1>4 DEF Confirm
<1>5. CASE Abandon
  <2>1. PICK n \in confirmed .. Len(blocks) - 1 : blocks' = SubSeq(blocks, 1, n)
    BY <1>5 DEF Abandon
  <2>2. n \in 0 .. Len(blocks) /\ \A i \in 1 .. rooted : i \in 1 .. n
    BY <1>0, <2>1
  <2>3. \A i \in 1 .. n : blocks'[i] = blocks[i]
    BY <2>1, <2>2, Cut DEF Inv
  <2> QED
    BY <1>2, <1>5, <2>2, <2>3 DEF Abandon
<1>6. ASSUME NEW tx \in Open, NEW r, r = <<tx.run, tx.step>>
      PROVE  /\ \A ty \in Taken : Is(ty, r) => ty = tx
             /\ \A q \in Requests \ {r} : ~Is(tx, q)
             /\ Is(tx, r)
  <2>1. tx \in Taken /\ tx # NoTx
    BY <1>6, OpenRequest, TakenType DEF Inv
  <2>2. \A ty \in Taken : Is(ty, r) => ty = tx
    BY <1>6, <2>1 DEF Inv, OnceInv, Is
  <2>3. ASSUME NEW q \in Requests, Is(tx, q) PROVE q = r
    <3>1. PICK run \in Runs, k \in Nat : q = <<run, k>>
      BY RequestShape
    <3> QED
      BY <1>6, <2>3, <3>1 DEF Is
  <2> QED
    BY <1>6, <2>1, <2>2, <2>3 DEF Is
<1>7. \A n \in 1 .. rooted :
        n \in DOMAIN blocks /\ (blocks[n].tx = NoTx \/ blocks[n].tx \in Taken \ Open)
  BY FinalIsShut DEF Inv, Taken
<1>8. ASSUME Finalize, NEW q, ~Is(blocks[rooted + 1].tx, q)
      PROVE  EffectOf(q)' = EffectOf(q)
  <2>1. PICK k \in Nat : k = rooted
    BY <1>0
  <2>2. rooted' = k + 1 /\ UNCHANGED <<blocks, expired>>
    BY <1>8, <2>1 DEF Finalize
  <2>3. \A n \in 1 .. k + 1 : Is(blocks[n].tx, q) => n \in 1 .. k
    BY <1>8, <2>1
  <2>4. \A n \in 1 .. k : n \in 1 .. k + 1
    OBVIOUS
  <2>5. /\ (\E n \in 1 .. k + 1 : Is(blocks[n].tx, q)) <=> (\E n \in 1 .. k : Is(blocks[n].tx, q))
        /\ (\E n \in 1 .. k + 1 : Is(blocks[n].tx, q) /\ ~Failed(n)) <=>
             (\E n \in 1 .. k : Is(blocks[n].tx, q) /\ ~Failed(n))
    BY <2>3, <2>4
  <2>6. \A n : Failed(n)' <=> Failed(n)
    BY <2>2 DEF Failed
  <2> QED
    BY <2>1, <2>2, <2>5, <2>6 DEF EffectOf
<1>9. CASE Finalize /\ blocks[rooted + 1].tx = NoTx
  <2>1. \A q \in Requests : EffectOf(q)' = EffectOf(q)
    BY <1>8, <1>9 DEF Is
  <2> QED
    BY <1>1, <2>1, Stutters
<1>10. CASE Finalize /\ blocks[rooted + 1].tx # NoTx
  <2>1. PICK k \in Nat : k = rooted /\ k < confirmed /\ k + 1 \in 1 .. Len(blocks)
    BY <1>0, <1>10 DEF Finalize
  <2>2. rooted' = k + 1 /\ UNCHANGED <<blocks, expired>>
    BY <1>10, <2>1 DEF Finalize
  <2>3. PICK tx : tx = blocks[k + 1].tx
    OBVIOUS
  <2>4. tx \in Open
    <3>1. k + 1 \in rooted + 1 .. Len(blocks)
      BY <1>0, <2>1
    <3> QED
      BY <1>10, <2>1, <2>3, <3>1 DEF Open
  <2>5. PICK r : r = <<tx.run, tx.step>>
    OBVIOUS
  <2>6. /\ \A ty \in Taken : Is(ty, r) => ty = tx
        /\ \A q \in Requests \ {r} : ~Is(tx, q)
        /\ Is(tx, r)
    BY <1>6, <2>4, <2>5
  <2>7. r \in Requests /\ StageOf(r) \in {"offered", "unknown", "failed"}
    BY <2>4, <2>5, OpenRequest
  <2>8. \A n \in 1 .. k + 1 : n \in 1 .. k \/ n = k + 1
    BY <2>1
  <2>9. EffectOf(r) = "open"
    <3>1. \A n \in 1 .. rooted : ~Is(blocks[n].tx, r)
      BY <1>7, <2>4, <2>6 DEF Is
    <3>2. \A ty \in expired : ~Is(ty, r)
      <4>1. tx \notin expired
        BY <2>1, <2>3, <1>0 DEF Inv, OnceInv
      <4> QED
        BY <2>6, <4>1 DEF Taken
    <3> QED
      BY <3>1, <3>2 DEF EffectOf
  <2>10. EffectOf(r)' \in {"applied", "void"}
    <3>1. k + 1 \in 1 .. k + 1 /\ Is(blocks'[k + 1].tx, r)
      BY <2>2, <2>3, <2>6
    <3> QED
      BY <2>2, <3>1 DEF EffectOf
  <2>11. \A q \in Requests \ {r} : EffectOf(q)' = EffectOf(q)
    BY <1>8, <1>10, <2>1, <2>3, <2>6
  <2> QED
    BY <1>1, <2>7, <2>9, <2>10, <2>11, Settles
<1>11. CASE \E tx \in waiting : Expire(tx)
  <2>1. PICK tx \in waiting : Expire(tx)
    BY <1>11
  <2>2. expired' = expired \cup {tx} /\ UNCHANGED <<blocks, rooted>>
    BY <2>1 DEF Expire
  <2>3. tx \in Open
    BY DEF Open
  <2>4. PICK r : r = <<tx.run, tx.step>>
    OBVIOUS
  <2>5. /\ \A ty \in Taken : Is(ty, r) => ty = tx
        /\ \A q \in Requests \ {r} : ~Is(tx, q)
        /\ Is(tx, r)
    BY <1>6, <2>3, <2>4
  <2>6. r \in Requests /\ StageOf(r) \in {"offered", "unknown", "failed"}
    BY <2>3, <2>4, OpenRequest
  <2>7. \A n \in 1 .. rooted : ~Is(blocks[n].tx, r)
    BY <1>7, <2>3, <2>5 DEF Is
  <2>8. EffectOf(r) = "open"
    <3>1. \A ty \in expired : ~Is(ty, r)
      BY <2>5 DEF Taken, Inv, OnceInv
    <3> QED
      BY <2>7, <3>1 DEF EffectOf
  <2>9. EffectOf(r)' \in {"applied", "void"}
    BY <2>2, <2>5, <2>7 DEF EffectOf
  <2>10. ASSUME NEW q \in Requests \ {r} PROVE EffectOf(q)' = EffectOf(q)
    <3>1. ~Is(tx, q)
      BY <2>5
    <3>2. (\E ty \in expired' : Is(ty, q)) <=> (\E ty \in expired : Is(ty, q))
      BY <2>2, <3>1
    <3>3. \A n : Failed(n)' <=> Failed(n)
      BY <2>2 DEF Failed
    <3> QED
      BY <2>2, <3>2, <3>3 DEF EffectOf
  <2> QED
    BY <1>1, <2>6, <2>8, <2>9, <2>10, Settles
<1> QED
  BY <1>3, <1>4, <1>5, <1>9, <1>10, <1>11 DEF ClusterMoves

(* Whatever the node, the network and the other runs do, what a run told   *)
(* its user stays true, and no request has its effect twice: Settlement    *)
(* implements AtMostOnce, RequestsHonoured.                                *)
THEOREM Honoured == Spec => RequestsHonoured
<1>1. Init => Promise!Init
  <2> SUFFICES ASSUME Init PROVE Promise!Init
    OBVIOUS
  <2>1. /\ shown = [run \in Runs |-> <<>>] /\ blocks = <<>> /\ rooted = 0 /\ expired = {}
        /\ \A run \in Runs : pc[run] # "sent"
    BY DEF Init, ClusterInit
  <2>2. ASSUME NEW q \in Requests PROVE StageOf(q) = "drafted" /\ EffectOf(q) = "open"
    <3>1. PICK run \in Runs, k \in Nat : q = <<run, k>>
      BY RequestShape
    <3>2. k \notin DOMAIN shown[run] /\ pc[run] # "sent"
      BY <2>1
    <3>3. StageOf(<<run, k>>) = "drafted"
      BY <3>2, StageCases
    <3>4. EffectOf(q) = "open"
      BY <2>1 DEF EffectOf
    <3> QED
      BY <3>1, <3>3, <3>4
  <2> QED
    BY <2>2 DEF Promise!Init
<1>2. IInv /\ [Next]_vars => [Promise!Next]_Promise!vars
  <2> SUFFICES ASSUME IInv, [Next]_vars PROVE [Promise!Next]_Promise!vars
    OBVIOUS
  <2>1. Inv
    BY DEF IInv, Inv
  <2>2. CASE UNCHANGED vars
    <3>1. UNCHANGED <<shown, pc, blocks, rooted, expired>>
      BY <2>2 DEF vars, clusterVars
    <3>2. \A q \in Requests : StageOf(q)' = StageOf(q)
      BY <3>1 DEF StageOf
    <3>3. \A q : EffectOf(q)' = EffectOf(q)
      BY <3>1, EffectSame
    <3> QED
      BY <3>2, <3>3, Stutters
  <2>3. CASE ClusterMoves
    BY <2>1, <2>3, PromiseCluster
  <2>4. CASE \E run \in Runs : Advance(run)
    BY <2>1, <2>4, PromiseAdvance
  <2> QED
    BY <2>2, <2>3, <2>4 DEF Next
<1> QED
  BY Invariant, <1>1, <1>2, PTL DEF Spec, RequestsHonoured, Promise!Spec
=============================================================================
