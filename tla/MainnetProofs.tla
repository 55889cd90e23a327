--------------------------- MODULE MainnetProofs ---------------------------
(***************************************************************************)
(* Theorems about MainnetPolicy, for any keys, accounts, instructions and  *)
(* bounds.                                                                 *)
(***************************************************************************)
EXTENDS MainnetPolicy, WellFoundedInduction, TLAPS

Approval ==
  [amount: U64Range, nonce: U64Range, timestamp: U64Range, sent: Nat, at: Nat]

(* What CHECK_SPEND approved, when the transaction t lands on policy p.    *)
ApprovalOf(t, p) ==
  [amount |-> t.call.amount, nonce |-> p.nonce, timestamp |-> t.call.timestamp,
   sent |-> t.sent, at |-> now]

(* Only an account that holds a policy ever approved anything.             *)
ApprovalsHaveAPolicy ==
  \A a \in Accounts : approvals[a] # <<>> => account[a].version = VERSION

IInv ==
  /\ TypeOK
  /\ SpentWithinBudget
  /\ approvals \in [Accounts -> Seq(Approval)]
  /\ ApprovalsHaveAPolicy

----------------------------------------------------------------------------
(* The tag tells which instruction a call is.                              *)
LEMMA CallTypes ==
  ASSUME NEW c \in Calls
  PROVE  /\ c.account \in Accounts
         /\ c.tag = CREATE_POLICY => c \in CreateCall
         /\ c.tag = REVOKE_POLICY => c \in RevokeCall
         /\ c.tag = CHECK_SPEND => c \in SpendCall
  BY MainnetAssumption
  DEF CreateCall, RevokeCall, SpendCall, CREATE_POLICY, REVOKE_POLICY, CHECK_SPEND

(* The two records the handlers write are accounts.                        *)
LEMMA CreatedType ==
  ASSUME NEW c \in CreateCall
  PROVE  Created(c) \in Account
  BY MaxU64Assumption DEF Created, CreateCall, Account, U64Range, VERSION

LEMMA SpentType ==
  ASSUME NEW p \in Account, NEW amount \in U64Range,
         Fits(p.spent + amount), Fits(p.nonce + 1)
  PROVE  Spent(p, amount) \in Account
<1>1. ASSUME NEW s \in U64Range, NEW n \in U64Range
      PROVE  [p EXCEPT !.spent = s, !.nonce = n] \in Account
  BY DEF Account
<1>2. p.spent + amount \in U64Range /\ p.nonce + 1 \in U64Range
  BY MaxU64Assumption DEF Account, U64Range, Fits
<1> QED BY <1>1, <1>2 DEF Spent

(* A landed transaction was signed at most MaxDelay ago and is one of the  *)
(* calls clients sign.                                                     *)
LEMMA Landed ==
  ASSUME TypeOK, NEW t \in inflight, Lands(t)
  PROVE  /\ t.call \in Calls
         /\ t.sent \in Nat /\ t.sent <= now /\ now <= t.sent + MaxDelay
         /\ now' = now /\ inflight' \subseteq inflight
  BY MainnetAssumption DEF TypeOK, Lands

----------------------------------------------------------------------------
LEMMA InitHolds == Init => IInv
<1> SUFFICES ASSUME Init PROVE IInv
    OBVIOUS
<1>1. Zeroed \in Account
  BY MaxU64Assumption DEF Zeroed, Account, U64Range
<1>2. TypeOK
  BY <1>1, MainnetAssumption DEF Init, TypeOK
<1>3. SpentWithinBudget
  BY DEF Init, SpentWithinBudget, Zeroed
<1>4. approvals \in [Accounts -> Seq(Approval)] /\ ApprovalsHaveAPolicy
  BY DEF Init, ApprovalsHaveAPolicy
<1> QED BY <1>2, <1>3, <1>4 DEF IInv

LEMMA CreatePolicyPreserves ==
  ASSUME IInv, NEW t \in inflight, CreatePolicy(t)
  PROVE  IInv'
<1> DEFINE c == t.call
<1> USE DEF IInv
<1>1. t.call \in Calls /\ now' = now /\ inflight' \subseteq inflight
  BY Landed DEF CreatePolicy
<1>2. c \in CreateCall /\ c.account \in Accounts
  BY <1>1, CallTypes DEF CreatePolicy, Dispatched
<1>3. Created(c) \in Account
  BY <1>2, CreatedType
<1>4. account' = [account EXCEPT ![c.account] = Created(c)] /\ approvals' = approvals
  BY DEF CreatePolicy
<1>5. DataLen[c.account] >= POLICY_LEN
  BY DEF CreatePolicy, Sized
<1>6. TypeOK'
  BY <1>1, <1>2, <1>3, <1>4, <1>5 DEF TypeOK
<1>7. Created(c).spent <= Created(c).budget /\ Created(c).version = VERSION
  BY <1>2 DEF Created, CreateCall, U64Range
<1>8. SpentWithinBudget' /\ ApprovalsHaveAPolicy'
  BY <1>2, <1>4, <1>7 DEF SpentWithinBudget, ApprovalsHaveAPolicy, TypeOK
<1> QED BY <1>4, <1>6, <1>8

LEMMA RevokePolicyPreserves ==
  ASSUME IInv, NEW t \in inflight, RevokePolicy(t)
  PROVE  IInv'
<1> DEFINE a == t.call.account
<1> USE DEF IInv
<1>1. t.call \in Calls /\ now' = now /\ inflight' \subseteq inflight
  BY Landed DEF RevokePolicy
<1>2. a \in Accounts
  BY <1>1, CallTypes
<1>3. account' = [account EXCEPT ![a] = [account[a] EXCEPT !.active = 0]]
        /\ approvals' = approvals
  BY DEF RevokePolicy
<1>4. account[a] \in Account /\ account[a] # Zeroed
  BY <1>2 DEF RevokePolicy, TypeOK, Zeroed, VERSION
<1>5. /\ [account[a] EXCEPT !.active = 0] \in Account
      /\ [account[a] EXCEPT !.active = 0].spent = account[a].spent
      /\ [account[a] EXCEPT !.active = 0].budget = account[a].budget
      /\ [account[a] EXCEPT !.active = 0].version = account[a].version
  BY <1>4 DEF Account
<1>6. TypeOK'
  BY <1>1, <1>2, <1>3, <1>4, <1>5 DEF TypeOK
<1>7. SpentWithinBudget' /\ ApprovalsHaveAPolicy'
  BY <1>2, <1>3, <1>5 DEF SpentWithinBudget, ApprovalsHaveAPolicy, TypeOK
<1> QED BY <1>3, <1>6, <1>7

(* What an approved spend does, for the lemma below and for timeliness.    *)
LEMMA CheckSpendStep ==
  ASSUME IInv, NEW t \in inflight, CheckSpend(t)
  PROVE  LET c == t.call
             p == account[c.account]
         IN
         /\ c \in SpendCall /\ c.account \in Accounts
         /\ p \in Account /\ p.version = VERSION /\ p.active = 1
         /\ p.spent + c.amount <= p.budget
         /\ account' = [account EXCEPT ![c.account] = Spent(p, c.amount)]
         /\ approvals' = [approvals EXCEPT ![c.account] = Append(@, ApprovalOf(t, p))]
         /\ t.sent \in Nat /\ c.timestamp <= p.expiry
         /\ now > p.expiry + MaxDelay => c.timestamp < t.sent
<1> DEFINE c == t.call
           p == account[c.account]
<1> USE DEF IInv
<1>1. c \in Calls /\ t.sent \in Nat /\ now <= t.sent + MaxDelay
  BY Landed DEF CheckSpend
<1>2. c \in SpendCall /\ c.account \in Accounts
  BY <1>1, CallTypes DEF CheckSpend, Dispatched
<1>3. p \in Account
  BY <1>2 DEF TypeOK
<1>4. c.timestamp <= p.expiry /\ p.spent + c.amount <= p.budget
  BY DEF CheckSpend, SpendAllowed
<1>5. p.expiry \in Int /\ now \in Int /\ MaxDelay \in Int
  <2>1. p.expiry \in U64Range
    BY <1>3 DEF Account
  <2> QED BY <2>1, MainnetAssumption DEF U64Range, TypeOK
<1>6. now > p.expiry + MaxDelay => c.timestamp < t.sent
  <2>1. c.timestamp \in Int
    BY <1>2 DEF SpendCall, U64Range
  <2> QED BY <1>1, <1>4, <1>5, <2>1
<1> QED BY <1>1, <1>2, <1>3, <1>4, <1>6 DEF CheckSpend, Spendable, ApprovalOf

LEMMA CheckSpendPreserves ==
  ASSUME IInv, NEW t \in inflight, CheckSpend(t)
  PROVE  IInv'
<1> DEFINE c == t.call
           p == account[c.account]
           entry == ApprovalOf(t, p)
<1>1. /\ c \in SpendCall /\ c.account \in Accounts
      /\ p \in Account /\ p.version = VERSION /\ p.active = 1
      /\ p.spent + c.amount <= p.budget
      /\ account' = [account EXCEPT ![c.account] = Spent(p, c.amount)]
      /\ approvals' = [approvals EXCEPT ![c.account] = Append(@, entry)]
  BY CheckSpendStep
<1> USE DEF IInv
<1>2. now' = now /\ inflight' \subseteq inflight
  BY Landed DEF CheckSpend
<1>3. c.amount \in U64Range
  BY <1>1 DEF SpendCall
<1>4. Spent(p, c.amount) \in Account
  <2>1. Fits(p.spent + c.amount) /\ Fits(p.nonce + 1)
    BY DEF CheckSpend, SpendAllowed
  <2> QED BY <1>1, <1>3, <2>1, SpentType
<1>5. /\ Spent(p, c.amount).spent = p.spent + c.amount
      /\ Spent(p, c.amount).budget = p.budget
      /\ Spent(p, c.amount).version = p.version
  BY <1>1 DEF Spent, Account
<1>6. p # Zeroed
  BY <1>1 DEF Zeroed, VERSION
<1>7. TypeOK'
  BY <1>1, <1>2, <1>4, <1>6 DEF TypeOK
<1>8. approvals' \in [Accounts -> Seq(Approval)]
  <2>1. entry \in Approval
    BY <1>1, <1>3, CheckSpendStep, MainnetAssumption
    DEF Approval, ApprovalOf, SpendCall, Account, TypeOK
  <2>2. Append(approvals[c.account], entry) \in Seq(Approval)
    BY <1>1, <2>1
  <2> QED BY <1>1, <2>2
<1>9. SpentWithinBudget' /\ ApprovalsHaveAPolicy'
  BY <1>1, <1>4, <1>5 DEF SpentWithinBudget, ApprovalsHaveAPolicy, TypeOK
<1> QED BY <1>7, <1>8, <1>9

LEMMA OthersPreserve ==
  ASSUME IInv, \/ \E t \in inflight : Lose(t)
               \/ \E c \in Calls : Send(c)
               \/ Tick
               \/ UNCHANGED vars
  PROVE  IInv' /\ account' = account /\ approvals' = approvals
<1>1. account' = account /\ approvals' = approvals
  BY DEF Lose, Send, Tick, vars
<1>2. TypeOK'
  <2>1. CASE \E t \in inflight : Lose(t)
    BY <1>1, <2>1 DEF IInv, TypeOK, Lose
  <2>2. CASE \E c \in Calls : Send(c)
    BY <1>1, <2>2, MainnetAssumption DEF IInv, TypeOK, Send
  <2>3. CASE Tick
    BY <1>1, <2>3, MainnetAssumption DEF IInv, TypeOK, Tick
  <2>4. CASE UNCHANGED vars
    BY <1>1, <2>4 DEF IInv, TypeOK, vars
  <2> QED BY <2>1, <2>2, <2>3, <2>4
<1> QED BY <1>1, <1>2 DEF IInv, SpentWithinBudget, ApprovalsHaveAPolicy

(* The invariant behind the theorems: counters fit, within budget, and an  *)
(* account that approved a spend holds a policy.                           *)
THEOREM Invariance == Spec => []IInv
<1>1. IInv /\ [Next]_vars => IInv'
  <2> SUFFICES ASSUME IInv, [Next]_vars PROVE IInv'
      OBVIOUS
  <2>1. CASE \E t \in inflight : CreatePolicy(t)
    BY <2>1, CreatePolicyPreserves
  <2>2. CASE \E t \in inflight : RevokePolicy(t)
    BY <2>2, RevokePolicyPreserves
  <2>3. CASE \E t \in inflight : CheckSpend(t)
    BY <2>3, CheckSpendPreserves
  <2>4. CASE \/ \E t \in inflight : Lose(t)
             \/ \E c \in Calls : Send(c)
             \/ Tick
             \/ UNCHANGED vars
    BY <2>4, OthersPreserve
  <2> QED BY <2>1, <2>2, <2>3, <2>4 DEF Next
<1> QED BY InitHolds, <1>1, PTL DEF Spec

(* No handler writes a counter that does not fit in its 8 bytes, nor into  *)
(* an account too small for a policy.                                      *)
THEOREM TypeCorrect == Spec => []TypeOK
<1>1. IInv => TypeOK
  BY DEF IInv
<1> QED BY Invariance, <1>1, PTL

(* For every budget and every sequence of landed transactions, with or     *)
(* without accounts written over: spent stays within the budget.           *)
THEOREM BudgetHeld == Spec => []SpentWithinBudget
<1>1. IInv => SpentWithinBudget
  BY DEF IInv
<1> QED BY Invariance, <1>1, PTL

----------------------------------------------------------------------------
(* If clients create policies in new accounts only, a revoked policy is    *)
(* never written again except by a further revocation, which changes       *)
(* nothing; docs/MAINNET_WIRE_FORMAT.md promises it without that condition.*)
THEOREM RevocationFinal ==
  ASSUME FreshAccountsOnly = TRUE
  PROVE  Spec => RevokedIsFinal
<1>1. ASSUME IInv, [Next]_vars, NEW a \in Accounts,
             account[a].version = VERSION, account[a].active = 0
      PROVE  account'[a] = account[a]
  <2>1. ASSUME NEW t \in inflight, CreatePolicy(t)
        PROVE  account'[a] = account[a]
    <3>1. account[t.call.account] = Zeroed
      BY <2>1, FreshAccountsOnly = TRUE DEF CreatePolicy
    <3>2. t.call.account # a
      BY <1>1, <3>1 DEF Zeroed, VERSION
    <3> QED BY <1>1, <2>1, <3>2 DEF CreatePolicy, IInv, TypeOK
  <2>2. ASSUME NEW t \in inflight, RevokePolicy(t)
        PROVE  account'[a] = account[a]
    <3>1. account[a] \in Account
      BY <1>1 DEF IInv, TypeOK
    <3>2. [account[a] EXCEPT !.active = 0] = account[a]
      BY <1>1, <3>1 DEF Account
    <3>3. account' = [account EXCEPT ![t.call.account] =
                        [account[t.call.account] EXCEPT !.active = 0]]
      BY <2>2 DEF RevokePolicy
    <3> QED BY <1>1, <3>2, <3>3 DEF IInv, TypeOK
  <2>3. ASSUME NEW t \in inflight, CheckSpend(t)
        PROVE  account'[a] = account[a]
    <3>1. /\ account[t.call.account].active = 1
          /\ account' = [account EXCEPT ![t.call.account] =
                           Spent(account[t.call.account], t.call.amount)]
      BY <1>1, <2>3, CheckSpendStep
    <3>2. t.call.account # a
      BY <1>1, <3>1
    <3> QED BY <1>1, <3>1, <3>2 DEF IInv, TypeOK
  <2> QED BY <1>1, <2>1, <2>2, <2>3, OthersPreserve DEF Next
<1>2. IInv /\ [Next]_vars =>
        [\A a \in Accounts : account[a].version = VERSION /\ account[a].active = 0
           => account'[a] = account[a]]_vars
  BY <1>1
<1> QED BY Invariance, <1>2, PTL DEF Spec, RevokedIsFinal

(* If clients create policies in new accounts only, whatever times callers *)
(* write: an approval is claimed to be in time, and one that comes later   *)
(* than a transaction lives after expiry was dated back.                   *)
THEOREM ApprovalsInTime ==
  ASSUME FreshAccountsOnly = TRUE
  PROVE  Spec => []ApprovedInTime
<1>1. Init => ApprovedInTime
  BY DEF Init, ApprovedInTime
<1>2. ASSUME IInv, ApprovedInTime, [Next]_vars
      PROVE  ApprovedInTime'
  <2>1. ASSUME NEW t \in inflight, CreatePolicy(t)
        PROVE  ApprovedInTime'
    <3> DEFINE b == t.call.account
    <3>1. b \in Accounts
      BY <1>2, <2>1, Landed, CallTypes DEF CreatePolicy, IInv
    <3>2. approvals[b] = <<>>
      <4>1. account[b] = Zeroed
        BY <2>1, FreshAccountsOnly = TRUE DEF CreatePolicy
      <4> QED BY <1>2, <3>1, <4>1 DEF IInv, ApprovalsHaveAPolicy, Zeroed, VERSION
    <3>3. account' = [account EXCEPT ![b] = Created(t.call)] /\ approvals' = approvals
      BY <2>1 DEF CreatePolicy
    <3> QED BY <1>2, <3>1, <3>2, <3>3 DEF ApprovedInTime, IInv, TypeOK
  <2>2. ASSUME NEW t \in inflight, RevokePolicy(t)
        PROVE  ApprovedInTime'
    <3> DEFINE b == t.call.account
    <3>1. account' = [account EXCEPT ![b] = [account[b] EXCEPT !.active = 0]]
            /\ approvals' = approvals
      BY <2>2 DEF RevokePolicy
    <3>2. \A a \in Accounts : account'[a].expiry = account[a].expiry
      BY <1>2, <3>1 DEF IInv, TypeOK, Account
    <3> QED BY <1>2, <3>1, <3>2 DEF ApprovedInTime
  <2>3. ASSUME NEW t \in inflight, CheckSpend(t)
        PROVE  ApprovedInTime'
    <3> DEFINE b == t.call.account
               entry == ApprovalOf(t, account[b])
               InTime(spend, expiry) ==
                 /\ spend.timestamp <= expiry
                 /\ spend.at > expiry + MaxDelay => spend.timestamp < spend.sent
    <3>1. /\ b \in Accounts /\ account[b] \in Account
          /\ account' = [account EXCEPT ![b] = Spent(account[b], t.call.amount)]
          /\ approvals' = [approvals EXCEPT ![b] = Append(@, entry)]
          /\ InTime(entry, account[b].expiry)
      BY <1>2, <2>3, CheckSpendStep DEF ApprovalOf
    <3>2. \A a \in Accounts : account'[a].expiry = account[a].expiry
      BY <1>2, <3>1 DEF IInv, TypeOK, Account, Spent
    <3>3. ASSUME NEW a \in Accounts, NEW i \in DOMAIN approvals'[a]
          PROVE  InTime(approvals'[a][i], account[a].expiry)
      <4>1. CASE a # b
        BY <1>2, <3>1, <3>3, <4>1 DEF ApprovedInTime, IInv
      <4>2. CASE a = b
        <5>1. approvals[b] \in Seq(Approval)
          BY <1>2, <3>1 DEF IInv
        <5>2. approvals'[b] = Append(approvals[b], entry)
          BY <1>2, <3>1 DEF IInv
        <5>3. i \in 1 .. Len(approvals[b]) + 1
          BY <3>3, <4>2, <5>1, <5>2
        <5>4. CASE i \in DOMAIN approvals[b]
          <6>1. approvals'[b][i] = approvals[b][i]
            BY <5>1, <5>2, <5>4
          <6> QED BY <1>2, <3>1, <4>2, <5>4, <6>1 DEF ApprovedInTime
        <5>5. CASE i = Len(approvals[b]) + 1
          BY <3>1, <4>2, <5>1, <5>2, <5>5
        <5> QED BY <5>1, <5>3, <5>4, <5>5
      <4> QED BY <4>1, <4>2
    <3> QED BY <3>2, <3>3 DEF ApprovedInTime
  <2> QED BY <1>2, <2>1, <2>2, <2>3, OthersPreserve DEF Next, ApprovedInTime
<1>3. IInv /\ ApprovedInTime /\ [Next]_vars => ApprovedInTime'
  BY <1>2
<1> QED BY Invariance, <1>1, <1>3, PTL DEF Spec

----------------------------------------------------------------------------
(* If clients create policies in new accounts only, the counters account   *)
(* for every approval.                                                     *)

(* T adds up what a log approved.                                          *)
AddsUp(log, T) ==
  T = [i \in 0 .. Len(log) |-> IF i = 0 THEN 0 ELSE T[i - 1] + log[i].amount]

Reconciled(a) ==
  /\ \E T : AddsUp(approvals[a], T) /\ T[Len(approvals[a])] = account[a].spent
  /\ \A i \in DOMAIN approvals[a] :
       approvals[a][i].nonce + Len(approvals[a]) - i + 1 = account[a].nonce

LogInv == \A a \in Accounts : Reconciled(a)

(* Of the numbers in a set one comes first.                                *)
LEMMA Earliest ==
  ASSUME NEW D, D \subseteq Nat, D # {}
  PROVE  \E x \in D : \A y \in D : ~(y < x)
<1>1. PICK R : R = OpToRel(<, Nat)
  OBVIOUS
<1>2. \A x, y : <<y, x>> \in R <=> x \in Nat /\ y \in Nat /\ y < x
  BY <1>1 DEF OpToRel
<1>3. \E x \in D : \A y \in D : <<y, x>> \notin R
  <2>1. IsWellFoundedOn(R, Nat)
    BY <1>1, NatLessThanWellFounded
  <2> QED
    BY <2>1, WFMin
<1> QED
  BY <1>2, <1>3

(* A log has one sum.                                                      *)
LEMMA OneSum ==
  ASSUME NEW log, Len(log) \in Nat, NEW S, AddsUp(log, S), NEW T, AddsUp(log, T)
  PROVE  S[Len(log)] = T[Len(log)]
<1>1. PICK n \in Nat : n = Len(log)
  OBVIOUS
<1>2. /\ \A i \in 0 .. n : S[i] = IF i = 0 THEN 0 ELSE S[i - 1] + log[i].amount
      /\ \A i \in 0 .. n : T[i] = IF i = 0 THEN 0 ELSE T[i - 1] + log[i].amount
  BY <1>1 DEF AddsUp
<1>3. PICK D : D = { i \in 0 .. n : S[i] # T[i] }
  OBVIOUS
<1>4. CASE D = {}
  <2>1. n \in 0 .. n
    OBVIOUS
  <2> QED
    BY <1>1, <1>3, <1>4, <2>1
<1>5. CASE D # {}
  <2>1. D \subseteq Nat
    BY <1>3
  <2>2. PICK x \in D : \A y \in D : ~(y < x)
    BY <1>5, <2>1, Earliest
  <2>3. x \in 0 .. n /\ S[x] # T[x]
    BY <1>3, <2>2
  <2>4. x # 0
    BY <1>2, <2>3
  <2>5. x - 1 \in 0 .. n /\ x - 1 < x
    BY <2>3, <2>4
  <2>6. S[x - 1] = T[x - 1]
    BY <1>3, <2>2, <2>5
  <2>7. S[x] = T[x]
    BY <1>2, <2>3, <2>4, <2>6
  <2> QED
    BY <2>3, <2>7
<1> QED
  BY <1>4, <1>5

LEMMA LogInvImplies ==
  ASSUME IInv, LogInv
  PROVE  ApprovalsReconcile
<1> SUFFICES ASSUME NEW a \in Accounts
             PROVE  LET log == approvals[a]
                        Total[i \in 0 .. Len(log)] ==
                          IF i = 0 THEN 0 ELSE Total[i - 1] + log[i].amount
                    IN
                    /\ account[a].spent = Total[Len(log)]
                    /\ \A i \in DOMAIN log :
                         log[i].nonce + Len(log) - i + 1 = account[a].nonce
  BY DEF ApprovalsReconcile
<1> DEFINE log == approvals[a]
           Total[i \in 0 .. Len(log)] == IF i = 0 THEN 0 ELSE Total[i - 1] + log[i].amount
<1>1. Len(log) \in Nat
  BY DEF IInv
<1>2. PICK T : AddsUp(log, T) /\ T[Len(log)] = account[a].spent
  BY DEF LogInv, Reconciled
<1>3. AddsUp(log, Total)
  BY <1>2 DEF AddsUp
<1>4. Total[Len(log)] = account[a].spent
  <2> HIDE DEF Total
  <2> QED
    BY <1>1, <1>2, <1>3, OneSum
<1>5. \A i \in DOMAIN log : log[i].nonce + Len(log) - i + 1 = account[a].nonce
  BY DEF LogInv, Reconciled
<1> QED
  BY <1>4, <1>5

(* A log's sum grows by the entry appended to it.                          *)
LEMMA AddsUpAppend ==
  ASSUME NEW log \in Seq(Approval), NEW e \in Approval,
         NEW T, AddsUp(log, T), T[Len(log)] \in Int
  PROVE  \E U : /\ AddsUp(Append(log, e), U)
                /\ U[Len(log) + 1] = T[Len(log)] + e.amount
<1>1. PICK n \in Nat : n = Len(log)
  OBVIOUS
<1>2. PICK next : next = Append(log, e)
  OBVIOUS
<1>3. /\ Len(next) = n + 1
      /\ \A i \in 1 .. n : next[i] = log[i]
      /\ next[n + 1] = e
  BY <1>1, <1>2
<1>4. \A i \in 0 .. n : T[i] = IF i = 0 THEN 0 ELSE T[i - 1] + log[i].amount
  BY <1>1 DEF AddsUp
<1>5. PICK U : U = [i \in 0 .. n + 1 |-> IF i <= n THEN T[i] ELSE T[n] + e.amount]
  OBVIOUS
<1>6. /\ \A i \in 0 .. n : U[i] = T[i]
      /\ U[n + 1] = T[n] + e.amount
  BY <1>5
<1>7. ASSUME NEW i \in 0 .. n + 1
      PROVE  U[i] = IF i = 0 THEN 0 ELSE U[i - 1] + next[i].amount
  <2>1. CASE i = 0
    BY <1>4, <1>6, <2>1
  <2>2. CASE i \in 1 .. n
    <3>1. i - 1 \in 0 .. n /\ i \in 0 .. n /\ i # 0
      BY <2>2
    <3> QED
      BY <1>3, <1>4, <1>6, <2>2, <3>1
  <2>3. CASE i = n + 1
    <3>1. i - 1 = n /\ n \in 0 .. n /\ i # 0
      BY <2>3
    <3> QED
      BY <1>3, <1>6, <2>3, <3>1
  <2> QED
    BY <2>1, <2>2, <2>3
<1>8. U = [i \in 0 .. n + 1 |-> IF i = 0 THEN 0 ELSE U[i - 1] + next[i].amount]
  BY <1>5, <1>7
<1> QED
  BY <1>1, <1>2, <1>3, <1>6, <1>8 DEF AddsUp

(* Reconciled looks at nothing else of an account.                         *)
LEMMA SameCounters ==
  ASSUME NEW a \in Accounts, Reconciled(a),
         approvals'[a] = approvals[a],
         account'[a].spent = account[a].spent, account'[a].nonce = account[a].nonce
  PROVE  Reconciled(a)'
  BY DEF Reconciled

(* A policy that has approved nothing has spent nothing.                   *)
LEMMA NothingApproved ==
  ASSUME NEW a \in Accounts, approvals'[a] = <<>>, account'[a].spent = 0
  PROVE  Reconciled(a)'
<1>1. PICK T : T = [i \in 0 .. 0 |-> 0]
  OBVIOUS
<1>2. AddsUp(<<>>, T) /\ T[0] = 0
  <2>1. \A i \in 0 .. 0 : i = 0
    OBVIOUS
  <2>2. Len(<<>>) = 0
    OBVIOUS
  <2> QED
    BY <1>1, <2>1, <2>2 DEF AddsUp
<1>3. Len(<<>>) = 0 /\ DOMAIN <<>> = {}
  OBVIOUS
<1> QED
  BY <1>2, <1>3 DEF Reconciled

LEMMA CreateReconciles ==
  ASSUME FreshAccountsOnly = TRUE, IInv, LogInv, NEW t \in inflight, CreatePolicy(t)
  PROVE  LogInv'
<1>1. PICK b : b = t.call.account
  OBVIOUS
<1>2. b \in Accounts
  BY <1>1, Landed, CallTypes DEF CreatePolicy, IInv
<1>3. approvals[b] = <<>>
  <2>1. account[b] = Zeroed
    BY <1>1, FreshAccountsOnly = TRUE DEF CreatePolicy
  <2> QED
    BY <1>2, <2>1 DEF IInv, ApprovalsHaveAPolicy, Zeroed, VERSION
<1>4. account' = [account EXCEPT ![b] = Created(t.call)] /\ approvals' = approvals
  BY <1>1 DEF CreatePolicy
<1>5. ASSUME NEW a \in Accounts
      PROVE  Reconciled(a)'
  <2>1. CASE a = b
    <3>1. account'[a] = Created(t.call)
      BY <1>2, <1>4, <2>1 DEF IInv, TypeOK
    <3>2. account'[a].spent = 0
      BY <3>1 DEF Created
    <3> QED
      BY <1>3, <1>4, <2>1, <3>2, NothingApproved
  <2>2. CASE a # b
    <3>1. account'[a] = account[a]
      BY <1>4, <2>2 DEF IInv, TypeOK
    <3> QED
      BY <1>4, <3>1, SameCounters DEF LogInv
  <2> QED
    BY <2>1, <2>2
<1> QED
  BY <1>5 DEF LogInv

LEMMA RevokeReconciles ==
  ASSUME IInv, LogInv, NEW t \in inflight, RevokePolicy(t)
  PROVE  LogInv'
<1>1. PICK b : b = t.call.account
  OBVIOUS
<1>2. account' = [account EXCEPT ![b] = [account[b] EXCEPT !.active = 0]]
        /\ approvals' = approvals
  BY <1>1 DEF RevokePolicy
<1>3. ASSUME NEW a \in Accounts
      PROVE  account'[a].spent = account[a].spent /\ account'[a].nonce = account[a].nonce
  BY <1>2 DEF IInv, TypeOK, Account
<1> QED
  BY <1>2, <1>3, SameCounters DEF LogInv

LEMMA SpendReconciles ==
  ASSUME IInv, LogInv, NEW t \in inflight, CheckSpend(t)
  PROVE  LogInv'
<1>1. PICK b : b = t.call.account
  OBVIOUS
<1>2. PICK entry : entry = ApprovalOf(t, account[b])
  OBVIOUS
<1>3. /\ t.call \in SpendCall /\ b \in Accounts /\ account[b] \in Account
      /\ account' = [account EXCEPT ![b] = Spent(account[b], t.call.amount)]
      /\ approvals' = [approvals EXCEPT ![b] = Append(@, entry)]
  BY <1>1, <1>2, CheckSpendStep
<1>4. PICK log \in Seq(Approval) : log = approvals[b]
  BY <1>3 DEF IInv
<1>5. PICK amount \in U64Range : amount = t.call.amount
  BY <1>3 DEF SpendCall
<1>6. account[b].spent \in Int /\ account[b].nonce \in Int
  BY <1>3 DEF Account, U64Range
<1>7. /\ account'[b].spent = account[b].spent + amount
      /\ account'[b].nonce = account[b].nonce + 1
      /\ approvals'[b] = Append(log, entry)
  <2>1. account'[b] = Spent(account[b], amount)
    BY <1>3, <1>5 DEF IInv, TypeOK
  <2>2. /\ Spent(account[b], amount).spent = account[b].spent + amount
        /\ Spent(account[b], amount).nonce = account[b].nonce + 1
    BY <1>3 DEF Spent, Account
  <2>3. approvals'[b] = Append(log, entry)
    BY <1>3, <1>4 DEF IInv
  <2> QED
    BY <2>1, <2>2, <2>3
<1>8. entry \in Approval /\ entry.amount = amount /\ entry.nonce = account[b].nonce
  <2>1. t.sent \in Nat
    BY CheckSpendStep
  <2> QED
    BY <1>2, <1>3, <1>5, <2>1, MainnetAssumption
    DEF Approval, ApprovalOf, SpendCall, Account, IInv, TypeOK
<1>9. \E U : AddsUp(Append(log, entry), U) /\ U[Len(log) + 1] = account'[b].spent
  <2>1. PICK T : AddsUp(log, T) /\ T[Len(log)] = account[b].spent
    BY <1>3, <1>4 DEF LogInv, Reconciled
  <2> QED
    BY <1>6, <1>7, <1>8, <2>1, AddsUpAppend
<1>10. ASSUME NEW i \in DOMAIN Append(log, entry)
       PROVE  Append(log, entry)[i].nonce + (Len(log) + 1) - i + 1 = account'[b].nonce
  <2>1. PICK n \in Nat : n = Len(log)
    OBVIOUS
  <2>2. i \in 1 .. n + 1
    BY <2>1
  <2>3. CASE i \in 1 .. n
    <3>1. Append(log, entry)[i] = log[i]
      BY <2>1, <2>3
    <3>2. log[i].nonce + n - i + 1 = account[b].nonce
      BY <1>3, <1>4, <2>1, <2>3 DEF LogInv, Reconciled
    <3>3. log[i].nonce \in Int
      <4>1. log[i] \in Approval
        BY <2>1, <2>3
      <4> QED
        BY <4>1 DEF Approval, U64Range
    <3> QED
      BY <1>6, <1>7, <2>1, <2>3, <3>1, <3>2, <3>3
  <2>4. CASE i = n + 1
    <3>1. Append(log, entry)[i] = entry
      BY <2>1, <2>4
    <3> QED
      BY <1>6, <1>7, <1>8, <2>1, <2>4, <3>1
  <2> QED
    BY <2>2, <2>3, <2>4
<1>11. Len(Append(log, entry)) = Len(log) + 1
  OBVIOUS
<1>12. Reconciled(b)'
  BY <1>7, <1>9, <1>10, <1>11 DEF Reconciled
<1>13. ASSUME NEW a \in Accounts
       PROVE  Reconciled(a)'
  <2>1. CASE a # b
    <3>1. account'[a] = account[a] /\ approvals'[a] = approvals[a]
      BY <1>3, <2>1 DEF IInv, TypeOK
    <3> QED
      BY <3>1, SameCounters DEF LogInv
  <2> QED
    BY <1>12, <2>1
<1> QED
  BY <1>13 DEF LogInv

(* An account's counters reconcile with everything the program approved    *)
(* there, whatever transactions landed in whatever order: spent is the sum *)
(* of the approvals, and their nonces are consecutive up to the stored one.*)
(* The sum is carried in the invariant as a witness, so that no induction  *)
(* over the log is needed.                                                 *)
THEOREM ApprovalsHeld ==
  ASSUME FreshAccountsOnly = TRUE
  PROVE  Spec => []ApprovalsReconcile
<1>1. Init => LogInv
  <2> SUFFICES ASSUME Init, NEW a \in Accounts
               PROVE  Reconciled(a)
    BY DEF LogInv
  <2>1. approvals[a] = <<>> /\ account[a].spent = 0
    BY DEF Init, Zeroed
  <2>2. PICK T : T = [i \in 0 .. 0 |-> 0]
    OBVIOUS
  <2>3. AddsUp(<<>>, T) /\ T[0] = 0
    <3>1. \A i \in 0 .. 0 : i = 0
      OBVIOUS
    <3>2. Len(<<>>) = 0
      OBVIOUS
    <3> QED
      BY <2>2, <3>1, <3>2 DEF AddsUp
  <2>4. Len(<<>>) = 0 /\ DOMAIN <<>> = {}
    OBVIOUS
  <2> QED
    BY <2>1, <2>3, <2>4 DEF Reconciled
<1>2. ASSUME IInv, LogInv, [Next]_vars
      PROVE  LogInv'
  <2>1. CASE \E t \in inflight : CreatePolicy(t)
    BY <1>2, <2>1, FreshAccountsOnly = TRUE, CreateReconciles
  <2>2. CASE \E t \in inflight : RevokePolicy(t)
    BY <1>2, <2>2, RevokeReconciles
  <2>3. CASE \E t \in inflight : CheckSpend(t)
    BY <1>2, <2>3, SpendReconciles
  <2>4. CASE account' = account /\ approvals' = approvals
    BY <1>2, <2>4 DEF LogInv, Reconciled
  <2> QED
    BY <1>2, <2>1, <2>2, <2>3, <2>4, OthersPreserve DEF Next
<1>3. IInv /\ LogInv /\ [Next]_vars => LogInv'
  BY <1>2
<1>4. IInv /\ LogInv => ApprovalsReconcile
  BY LogInvImplies
<1> QED
  BY Invariance, <1>1, <1>3, <1>4, PTL DEF Spec
=============================================================================
