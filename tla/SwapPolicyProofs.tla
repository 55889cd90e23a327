-------------------------- MODULE SwapPolicyProofs --------------------------
(***************************************************************************)
(* Theorems about SwapPolicy for all wallets, accounts and instructions:   *)
(* its invariants, that it implements Mandate, and what its steps move.    *)
(***************************************************************************)
EXTENDS SwapPolicy, PolicyLemmas

(* What a swap does to a policy record: two counters change, no terms.     *)
Counted(p, s, n) == [p EXCEPT !.spent = s, !.nonce = n]

(* A counted policy is a policy with the same terms.                       *)
LEMMA SpentRecord ==
  ASSUME NEW p \in PolicyV2, NEW s \in U64Range, NEW n \in U64Range
  PROVE  LET q == Counted(p, s, n) IN
         /\ q \in PolicyV2
         /\ q.spent = s /\ q.nonce = n
         /\ q.max_amount = p.max_amount /\ q.total_limit = p.total_limit
         /\ q.expires_at = p.expires_at /\ q.active = p.active
         /\ q.min_rate = p.min_rate /\ q.pool = p.pool
         /\ q.allowed_recipients = p.allowed_recipients
         /\ q.allowed_programs = p.allowed_programs
  BY DEF PolicyV2, Counted

USE DEF Fits, U64Range

----------------------------------------------------------------------------
(* Types of the values that the instructions compute.                      *)

(* The output of a swap is a product of two naturals.                      *)
LEMMA ProductType ==
  ASSUME NEW m \in Nat, NEW n \in Nat
  PROVE  m * n \in Nat
  OBVIOUS

(* The addresses of the accounts that the instructions create.             *)
LEMMA PdaTypes ==
  /\ \A c \in PoolArgs : PoolPda(c.admin, c.output_mint) \in PoolAddresses
  /\ \A c \in PolicyArgs : PolicyPda(c.owner, c.agent) \in PolicyAddresses
  /\ \A c \in PolicyArgs : c.pool \in PoolAddresses
  BY SwapPolicyAssumption
  DEF SwapPolicyAssumption, PolicyArgType, PoolAddresses, PolicyAddresses

(* The history of charges stays a natural number per policy.               *)
LEMMA ChargedType ==
  ASSUME TypeOK, NEW pl
  PROVE  Charged(pl) \in [PolicyAddresses -> Nat]
  BY DEF Charged, TypeOK

(* Emitting an event keeps every log a sequence of events.                 *)
LEMMA EmitType ==
  ASSUME TypeOK, NEW a \in PolicyAddresses, NEW event \in Event, Emit(a, event)
  PROVE  events' \in [PolicyAddresses -> Seq(Event)]
  BY DEF Emit, TypeOK

----------------------------------------------------------------------------
(* Type correctness.                                                       *)

LEMMA TypeInit == Init => TypeOK
<1> SUFFICES ASSUME Init PROVE TypeOK
  OBVIOUS
<1> USE DEF Init
<1>1. ChainTypeOK
  BY TypeChainInit
<1>2. events \in [PolicyAddresses -> Seq(Event)]
  OBVIOUS
<1> QED
  BY <1>1, <1>2 DEF TypeOK, Exists

LEMMA TypeNext == TypeOK /\ [Next]_vars => TypeOK'
<1> SUFFICES ASSUME TypeOK, [Next]_vars PROVE TypeOK'
  OBVIOUS
<1>1. ASSUME NEW c \in PoolArgs, NEW pl \in Placements, CreatePool(c, pl)
      PROVE  TypeOK'
  <2> USE <1>1 DEF CreatePool
  <2>1. ChainTypeOK'
    BY PlaceType DEF TypeOK, ChainTypeOK
  <2>2. pools' \in [PoolAddresses -> Pool \cup {NoAccount}]
    BY PdaTypes, SwapPolicyAssumption DEF TypeOK, SwapPolicyAssumption, PoolArgType, Pool
  <2>3. charged' \in [PolicyAddresses -> Nat]
    BY ChargedType
  <2> QED
    BY <2>1, <2>2, <2>3 DEF TypeOK, Exists
<1>2. ASSUME NEW c \in PolicyArgs, NEW pl \in Placements, CreatePolicy(c, pl)
      PROVE  TypeOK'
  <2> USE <1>2 DEF CreatePolicy
  <2> DEFINE a == PolicyPda(c.owner, c.agent)
  <2>0. a \in PolicyAddresses /\ c \in PolicyArgType /\ c.pool \in PoolAddresses
    BY PdaTypes, SwapPolicyAssumption DEF SwapPolicyAssumption
  <2>1. ChainTypeOK'
    BY PlaceType DEF TypeOK, ChainTypeOK
  <2>2. /\ policies' \in [PolicyAddresses -> PolicyV2 \cup {NoAccount}]
        /\ \A b \in PolicyAddresses : b # a => policies'[b] = policies[b]
        /\ policies'[a].allowed_recipients = c.allowed_recipients
        /\ policies'[a].allowed_programs = c.allowed_programs
    BY <2>0, MaxU64Assumption DEF TypeOK, PolicyArgType, PolicyV2, POLICY_VERSION
  <2>3. charged' \in [PolicyAddresses -> Nat]
    BY ChargedType
  <2>4. [kind |-> "PolicyCreated", owner |-> c.owner, agent |-> c.agent] \in Event
    BY <2>0 DEF PolicyArgType, Event
  <2>5. events' \in [PolicyAddresses -> Seq(Event)]
    BY <2>0, <2>4, EmitType
  <2>6. \A b \in PolicyAddresses : Exists(b)' =>
          /\ Len(policies'[b].allowed_recipients) <= MAX_RECIPIENTS
          /\ Len(policies'[b].allowed_programs) <= MAX_PROGRAMS
    BY <2>2 DEF TypeOK, Exists, ValidateAllowlists
  <2> QED
    BY <2>1, <2>2, <2>3, <2>5, <2>6 DEF TypeOK
<1>3. ASSUME NEW owner \in Wallets, NEW a \in PolicyAddresses, NEW pl \in Placements,
             Revoke(owner, a, pl)
      PROVE  TypeOK'
  <2> USE <1>3 DEF Revoke, CanRevoke
  <2>1. ChainTypeOK'
    BY PlaceType DEF TypeOK, ChainTypeOK
  <2>2. policies[a] \in PolicyV2
    BY DEF TypeOK
  <2>3. policies' = [policies EXCEPT ![a] = [policies[a] EXCEPT !.active = FALSE]]
    OBVIOUS
  <2>4. [policies[a] EXCEPT !.active = FALSE] \in PolicyV2
    BY <2>2 DEF PolicyV2
  <2>5. policies' \in [PolicyAddresses -> PolicyV2 \cup {NoAccount}]
    BY <2>3, <2>4 DEF TypeOK
  <2>6. \A b \in PolicyAddresses : Exists(b)' =>
          /\ Len(policies'[b].allowed_recipients) <= MAX_RECIPIENTS
          /\ Len(policies'[b].allowed_programs) <= MAX_PROGRAMS
    BY <2>2, <2>3 DEF TypeOK, Exists, PolicyV2
  <2>7. charged' \in [PolicyAddresses -> Nat]
    BY ChargedType
  <2>8. [kind |-> "Revoked", at |-> now] \in Event
    BY DEF Event, TypeOK, ChainTypeOK
  <2>9. events' \in [PolicyAddresses -> Seq(Event)]
    BY <2>8, EmitType
  <2> QED
    BY <2>1, <2>5, <2>6, <2>7, <2>9 DEF TypeOK
<1>4. ASSUME NEW r \in SwapRequests, NEW pl \in Placements, ExecuteSwap(r, pl)
      PROVE  TypeOK'
  <2> USE <1>4 DEF ExecuteSwap
  <2> DEFINE p == policies[r.policy]
             output == r.amount * pools[r.pool].rate
             paid == AfterTransfer(balance, r.vault, r.pool_quote, r.amount)
             q == Counted(p, p.spent + r.amount, p.nonce + 1)
  <2>1. /\ r.policy \in PolicyAddresses /\ r.pool \in PoolAddresses
        /\ r.vault \in TokenAccounts /\ r.pool_quote \in TokenAccounts
        /\ r.pool_output \in TokenAccounts /\ r.recipient \in TokenAccounts
        /\ r.amount \in U64Range /\ r.nonce \in U64Range
    BY SwapPolicyAssumption DEF SwapPolicyAssumption, SwapRequestType
  <2>2. p \in PolicyV2 /\ pools[r.pool] \in Pool
    BY <2>1 DEF TypeOK
  <2>3. output \in U64Range
    <3>1. output <= MaxU64
      BY DEF Priced
    <3>2. r.amount \in Nat /\ pools[r.pool].rate \in Nat
      BY <2>1, <2>2, MaxU64Assumption DEF Pool
    <3>3. output \in Nat
      BY ONLY <3>2, ProductType
    <3> QED
      BY ONLY <3>1, <3>3, MaxU64Assumption
  <2>4. paid \in [TokenAccounts -> U64Range]
    BY <2>1, AfterTransferType DEF TypeOK, ChainTypeOK
  <2>5. balance' \in [TokenAccounts -> U64Range]
    BY <2>1, <2>3, <2>4, AfterTransferType
  <2>6. ChainTypeOK'
    BY <2>5, PlaceType DEF TypeOK, ChainTypeOK
  <2>7. p.spent + r.amount \in U64Range /\ p.nonce + 1 \in U64Range
    <3>1. p.spent + r.amount <= MaxU64 /\ p.nonce + 1 <= MaxU64
      BY DEF ValidateSpend
    <3>2. p.spent \in Nat /\ p.nonce \in Nat /\ r.amount \in Nat
      BY <2>1, <2>2, MaxU64Assumption DEF PolicyV2
    <3> QED
      BY ONLY <3>1, <3>2, MaxU64Assumption
  <2>8. policies' = [policies EXCEPT ![r.policy] = q]
    BY <2>1, <2>2 DEF PolicyV2, Counted
  <2>9. /\ q \in PolicyV2
        /\ q.allowed_recipients = p.allowed_recipients
        /\ q.allowed_programs = p.allowed_programs
    <3>1. \A s, n \in U64Range :
            /\ Counted(p, s, n) \in PolicyV2
            /\ Counted(p, s, n).allowed_recipients = p.allowed_recipients
            /\ Counted(p, s, n).allowed_programs = p.allowed_programs
      BY ONLY <2>2, SpentRecord
    <3> QED
      BY ONLY <2>7, <3>1, Zenon
  <2>10. /\ policies' \in [PolicyAddresses -> PolicyV2 \cup {NoAccount}]
         /\ \A b \in PolicyAddresses : Exists(b)' =>
              /\ Len(policies'[b].allowed_recipients) <= MAX_RECIPIENTS
              /\ Len(policies'[b].allowed_programs) <= MAX_PROGRAMS
    <3> HIDE DEF q
    <3>1. p # NoAccount
      OBVIOUS
    <3> QED
      BY ONLY <2>1, <2>8, <2>9, <3>1, TypeOK DEF TypeOK, Exists
  <2>11. charged' \in [PolicyAddresses -> Nat]
    BY <2>1, ChargedType
  <2>12. [kind |-> "Executed", amount |-> r.amount, output |-> output, nonce |-> r.nonce,
          spent |-> p.spent + r.amount, at |-> now] \in Event
    BY <2>1, <2>3, <2>7 DEF Event, TypeOK, ChainTypeOK
  <2>13. events' \in [PolicyAddresses -> Seq(Event)]
    BY <2>1, <2>12, EmitType
  <2> QED
    BY <2>6, <2>10, <2>11, <2>13 DEF TypeOK
<1>5. ASSUME NEW r \in RecoverRequests, NEW pl \in Placements, Recover(r, pl)
      PROVE  TypeOK'
  <2> USE <1>5 DEF Recover, CanRecover
  <2>1. r.vault \in TokenAccounts /\ r.destination \in TokenAccounts /\ r.amount \in U64Range
    BY SwapPolicyAssumption DEF SwapPolicyAssumption, RecoverRequestType
  <2>2. balance' \in [TokenAccounts -> U64Range]
    BY <2>1, AfterTransferType DEF TypeOK, ChainTypeOK
  <2>3. ChainTypeOK'
    BY <2>2, PlaceType DEF TypeOK, ChainTypeOK
  <2>4. charged' \in [PolicyAddresses -> Nat]
    BY ChargedType
  <2> QED
    BY <2>3, <2>4 DEF TypeOK, Exists
<1>6. CASE Environment
  BY <1>6, TypeEnvironment DEF Environment, TypeOK, Exists
<1>7. CASE UNCHANGED vars
  BY <1>7 DEF vars, TypeOK, ChainTypeOK, Exists
<1> QED
  BY <1>1, <1>2, <1>3, <1>4, <1>5, <1>6, <1>7 DEF Next

(* Every reachable state is well typed: sums and products never leave u64  *)
(* and the allowlists fit the space of the account.                        *)
THEOREM TypeCorrect == Spec => []TypeOK
<1> QED
  BY TypeInit, TypeNext, PTL DEF Spec

----------------------------------------------------------------------------
(* The budget.  SpentWithinLimit is inductive once policies are typed; the *)
(* pools need their two mints told apart for the theorems that follow.     *)

MintsDiffer ==
  \A q \in PoolAddresses : pools[q] # NoAccount => pools[q].quote_mint # pools[q].output_mint

IInv == TypeOK /\ SpentWithinLimit /\ MintsDiffer

LEMMA IInvInit == Init => IInv
  BY TypeInit DEF Init, IInv, SpentWithinLimit, MintsDiffer, Exists

LEMMA MintsDifferNext == TypeOK /\ MintsDiffer /\ [Next]_vars => MintsDiffer'
<1> SUFFICES ASSUME TypeOK, MintsDiffer, [Next]_vars PROVE MintsDiffer'
  OBVIOUS
<1>1. ASSUME NEW c \in PoolArgs, NEW pl \in Placements, CreatePool(c, pl)
      PROVE  MintsDiffer'
  BY <1>1, PdaTypes DEF CreatePool, MintsDiffer, TypeOK
<1>2. CASE pools' = pools
  BY <1>2 DEF MintsDiffer
<1> QED
  BY <1>1, <1>2 DEF Next, CreatePolicy, Revoke, ExecuteSwap, Recover, Environment, vars

LEMMA SpentNext == TypeOK /\ SpentWithinLimit /\ [Next]_vars => SpentWithinLimit'
<1> SUFFICES ASSUME TypeOK, SpentWithinLimit, [Next]_vars PROVE SpentWithinLimit'
  OBVIOUS
<1>1. ASSUME NEW c \in PolicyArgs, NEW pl \in Placements, CreatePolicy(c, pl)
      PROVE  SpentWithinLimit'
  <2> DEFINE a == PolicyPda(c.owner, c.agent)
  <2>1. c.total_limit \in Nat /\ a \in PolicyAddresses
    BY PdaTypes, SwapPolicyAssumption, MaxU64Assumption DEF SwapPolicyAssumption, PolicyArgType
  <2>2. /\ policies'[a].spent = 0 /\ policies'[a].total_limit = c.total_limit
        /\ \A b \in PolicyAddresses : b # a => policies'[b] = policies[b]
    BY <1>1, <2>1 DEF CreatePolicy, TypeOK
  <2> QED
    BY <2>1, <2>2 DEF SpentWithinLimit, Exists
<1>2. ASSUME NEW owner \in Wallets, NEW a \in PolicyAddresses, NEW pl \in Placements,
             Revoke(owner, a, pl)
      PROVE  SpentWithinLimit'
  <2>1. policies[a] \in PolicyV2
    BY <1>2 DEF Revoke, CanRevoke, TypeOK
  <2>2. /\ policies'[a].spent = policies[a].spent
        /\ policies'[a].total_limit = policies[a].total_limit
        /\ \A b \in PolicyAddresses : b # a => policies'[b] = policies[b]
    BY <1>2, <2>1 DEF Revoke, TypeOK, PolicyV2
  <2> QED
    BY <1>2, <2>2 DEF SpentWithinLimit, Exists, Revoke, CanRevoke
<1>3. ASSUME NEW r \in SwapRequests, NEW pl \in Placements, ExecuteSwap(r, pl)
      PROVE  SpentWithinLimit'
  <2> DEFINE p == policies[r.policy]
  <2>1. r.policy \in PolicyAddresses
    BY SwapPolicyAssumption DEF SwapPolicyAssumption, SwapRequestType
  <2>2. p \in PolicyV2
    BY <1>3, <2>1 DEF ExecuteSwap, TypeOK
  <2>3. p.spent + r.amount <= p.total_limit
    BY <1>3 DEF ExecuteSwap, ValidateSpend
  <2>4. /\ policies'[r.policy].spent = p.spent + r.amount
        /\ policies'[r.policy].total_limit = p.total_limit
        /\ \A b \in PolicyAddresses : b # r.policy => policies'[b] = policies[b]
    BY <1>3, <2>1, <2>2 DEF ExecuteSwap, TypeOK, PolicyV2
  <2> QED
    BY <2>3, <2>4 DEF SpentWithinLimit, Exists
<1>4. CASE policies' = policies
  BY <1>4 DEF SpentWithinLimit, Exists
<1> QED
  BY <1>1, <1>2, <1>3, <1>4 DEF Next, CreatePool, Recover, Environment, vars

LEMMA IInvNext == IInv /\ [Next]_vars => IInv'
  BY TypeNext, MintsDifferNext, SpentNext DEF IInv

(* The inductive invariant holds throughout.                               *)
THEOREM Invariance == Spec => []IInv
<1> QED
  BY IInvInit, IInvNext, PTL DEF Spec

(* No interleaving of instructions, transfers and time takes what a policy *)
(* spent beyond the total its owner signed for.                            *)
THEOREM BudgetHeld == Spec => []SpentWithinLimit
<1>1. IInv => SpentWithinLimit
  BY DEF IInv
<1> QED
  BY <1>1, Invariance, PTL

----------------------------------------------------------------------------
(* One spend per transaction: what execute_swap's look at the instructions *)
(* sysvar and at the stack height is worth.                                *)

(* A transaction cannot have charged an account that is not there.  The    *)
(* step that creates a policy needs this of the moment before.             *)
ChargedExists ==
  \A a \in PolicyAddresses : ~Exists(a) => charged[a] = 0

TxInv == TypeOK /\ OneSpendPerTransaction /\ ChargedExists

(* The cap of a policy is a number.                                        *)
LEMMA CapType ==
  ASSUME TypeOK, NEW a \in PolicyAddresses, Exists(a)
  PROVE  policies[a].max_amount \in Nat
<1>1. policies[a] \in PolicyV2
  BY DEF TypeOK, Exists
<1> QED
  BY <1>1, MaxU64Assumption DEF PolicyV2, U64Range

(* A swap that passes the check is the first instruction of its            *)
(* transaction: one that follows another, or a wrapper's later call, is    *)
(* placed after "other" or at height 2.                                    *)
LEMMA OnlyInstructionBegins ==
  ASSUME TypeOK, NEW pl, Place(pl), OnlyInstruction(pl)
  PROVE  pl.begins
<1>1. tx \in Placement
  BY DEF TypeOK, ChainTypeOK
<1>2. CASE tx.after /\ pl.before = "other"
  BY <1>2 DEF OnlyInstruction
<1>3. CASE tx.height = 2 /\ pl = [tx EXCEPT !.begins = FALSE]
  <2>1. pl.height = 2
    BY <1>1, <1>3 DEF Placement
  <2> QED
    BY <2>1 DEF OnlyInstruction
<1> QED
  BY <1>2, <1>3 DEF Place, Follows

(* An instruction that charges nothing leaves the charges or clears them.  *)
LEMMA NotCharged ==
  ASSUME TypeOK, NEW pl, NEW a \in PolicyAddresses, charged' = Charged(pl)
  PROVE  charged'[a] = charged[a] \/ charged'[a] = 0
  BY DEF Charged, TypeOK

(* Such an instruction keeps the invariant if it leaves the policies.      *)
LEMMA PoliciesKept ==
  ASSUME TypeOK, OneSpendPerTransaction, ChargedExists, UNCHANGED policies,
         \A a \in PolicyAddresses : charged'[a] = charged[a] \/ charged'[a] = 0
  PROVE  OneSpendPerTransaction' /\ ChargedExists'
<1>1. ASSUME NEW a \in PolicyAddresses, Exists(a)
      PROVE  charged'[a] <= policies[a].max_amount
  <2>1. policies[a].max_amount \in Nat /\ charged[a] <= policies[a].max_amount
    BY <1>1, CapType DEF OneSpendPerTransaction
  <2> QED
    BY <2>1
<1> QED
  BY <1>1 DEF OneSpendPerTransaction, ChargedExists, Exists

LEMMA TxInvInit == Init => TxInv
  BY TypeInit DEF Init, TxInv, OneSpendPerTransaction, ChargedExists, Exists

LEMMA TxInvNext == TxInv /\ [Next]_vars => TxInv'
<1> SUFFICES ASSUME TypeOK, OneSpendPerTransaction, ChargedExists, [Next]_vars
             PROVE  OneSpendPerTransaction' /\ ChargedExists'
  BY TypeNext DEF TxInv
<1>1. ASSUME NEW c \in PoolArgs, NEW pl \in Placements, CreatePool(c, pl)
      PROVE  OneSpendPerTransaction' /\ ChargedExists'
  BY <1>1, NotCharged, PoliciesKept DEF CreatePool
<1>2. ASSUME NEW c \in PolicyArgs, NEW pl \in Placements, CreatePolicy(c, pl)
      PROVE  OneSpendPerTransaction' /\ ChargedExists'
  <2> DEFINE a == PolicyPda(c.owner, c.agent)
  <2>1. a \in PolicyAddresses /\ c.max_amount \in Nat
    BY PdaTypes, SwapPolicyAssumption, MaxU64Assumption
    DEF SwapPolicyAssumption, PolicyArgType, U64Range
  <2>2. \A b \in PolicyAddresses : charged'[b] = charged[b] \/ charged'[b] = 0
    BY <1>2, NotCharged DEF CreatePolicy
  <2>3. ~Exists(a)
    BY <1>2 DEF CreatePolicy, NewAccount, Exists
  <2>4. charged'[a] = 0
    BY <2>1, <2>2, <2>3 DEF ChargedExists
  <2>5. /\ policies'[a].max_amount = c.max_amount
        /\ \A b \in PolicyAddresses : b # a => policies'[b] = policies[b]
    BY <1>2, <2>1 DEF CreatePolicy, TypeOK
  <2>6. ASSUME NEW b \in PolicyAddresses, b # a
        PROVE  /\ Exists(b)' => charged'[b] <= policies'[b].max_amount
               /\ ~Exists(b)' => charged'[b] = 0
    <3>1. policies'[b] = policies[b] /\ (charged'[b] = charged[b] \/ charged'[b] = 0)
      BY <2>2, <2>5, <2>6
    <3>2. CASE Exists(b)
      <4>1. policies[b].max_amount \in Nat /\ charged[b] <= policies[b].max_amount
        BY <3>2, CapType DEF OneSpendPerTransaction
      <4> QED
        BY <3>1, <3>2, <4>1 DEF Exists
    <3>3. CASE ~Exists(b)
      BY <3>1, <3>3 DEF Exists, ChargedExists
    <3> QED
      BY <3>2, <3>3
  <2> QED
    BY <2>1, <2>4, <2>5, <2>6 DEF OneSpendPerTransaction, ChargedExists
<1>3. ASSUME NEW owner \in Wallets, NEW a \in PolicyAddresses, NEW pl \in Placements,
             Revoke(owner, a, pl)
      PROVE  OneSpendPerTransaction' /\ ChargedExists'
  <2>1. policies[a] \in PolicyV2
    BY <1>3 DEF Revoke, CanRevoke, TypeOK
  <2>2. \A b \in PolicyAddresses :
          /\ Exists(b)' => Exists(b) /\ policies'[b].max_amount = policies[b].max_amount
          /\ ~Exists(b)' => ~Exists(b)
    <3>1. policies'[a] = [policies[a] EXCEPT !.active = FALSE]
      BY <1>3 DEF Revoke, TypeOK
    <3>2. policies'[a] \in PolicyV2 /\ policies'[a].max_amount = policies[a].max_amount
      BY <2>1, <3>1 DEF PolicyV2
    <3>3. \A b \in PolicyAddresses : b # a => policies'[b] = policies[b]
      BY <1>3 DEF Revoke, TypeOK
    <3> QED
      BY <2>1, <3>2, <3>3, NoAccountAssumption DEF Exists, NoAccountAssumption
  <2>3. \A b \in PolicyAddresses : charged'[b] = charged[b] \/ charged'[b] = 0
    BY <1>3, NotCharged DEF Revoke
  <2>4. \A b \in PolicyAddresses : Exists(b) =>
          policies[b].max_amount \in Nat /\ charged[b] <= policies[b].max_amount
    BY CapType DEF OneSpendPerTransaction
  <2>5. \A b \in PolicyAddresses : Exists(b)' => charged'[b] <= policies'[b].max_amount
    BY <2>2, <2>3, <2>4
  <2>6. \A b \in PolicyAddresses : ~Exists(b)' => charged'[b] = 0
    BY <2>2, <2>3 DEF ChargedExists
  <2> QED
    BY <2>5, <2>6 DEF OneSpendPerTransaction, ChargedExists
<1>4. ASSUME NEW r \in SwapRequests, NEW pl \in Placements, ExecuteSwap(r, pl)
      PROVE  OneSpendPerTransaction' /\ ChargedExists'
  <2> DEFINE p == policies[r.policy]
  <2>1. r.policy \in PolicyAddresses /\ r.amount \in Nat
    BY SwapPolicyAssumption, MaxU64Assumption
    DEF SwapPolicyAssumption, SwapRequestType, U64Range
  <2>2. pl.begins
    BY <1>4, OnlyInstructionBegins DEF ExecuteSwap
  <2>3. \A b \in PolicyAddresses : charged'[b] = IF b = r.policy THEN r.amount ELSE 0
    BY <1>4, <2>1, <2>2 DEF ExecuteSwap, Charged
  <2>4. p \in PolicyV2 /\ r.amount <= p.max_amount
    BY <1>4, <2>1 DEF ExecuteSwap, TypeOK, ValidateSpend
  <2>5. /\ Exists(r.policy)' /\ policies'[r.policy].max_amount = p.max_amount
        /\ \A b \in PolicyAddresses : b # r.policy => policies'[b] = policies[b]
    <3>1. policies' = [policies EXCEPT ![r.policy] = Counted(p, p.spent + r.amount, p.nonce + 1)]
      BY <1>4, <2>1, <2>4 DEF ExecuteSwap, TypeOK, PolicyV2, Counted
    <3>2. Exists(r.policy)'
      <4>1. p.spent + r.amount <= MaxU64 /\ p.nonce + 1 <= MaxU64
        BY <1>4 DEF ExecuteSwap, ValidateSpend, Fits
      <4>2. p.spent + r.amount \in U64Range /\ p.nonce + 1 \in U64Range
        <5>1. p.spent \in Nat /\ p.nonce \in Nat
          BY <2>4, MaxU64Assumption DEF PolicyV2, U64Range
        <5> QED
          BY ONLY <2>1, <4>1, <5>1, MaxU64Assumption DEF U64Range
      <4>3. Counted(p, p.spent + r.amount, p.nonce + 1) \in PolicyV2
        BY <2>4, <4>2, SpentRecord
      <4> QED
        BY <2>1, <3>1, <4>3, NoAccountAssumption DEF NoAccountAssumption, TypeOK, Exists
    <3>3. Counted(p, p.spent + r.amount, p.nonce + 1).max_amount = p.max_amount
      BY <2>4 DEF Counted, PolicyV2
    <3> QED
      BY <2>1, <3>1, <3>2, <3>3 DEF TypeOK
  <2>6. \A b \in PolicyAddresses : Exists(b) => policies[b].max_amount \in Nat
    BY CapType
  <2>7. ASSUME NEW b \in PolicyAddresses, Exists(b)'
        PROVE  charged'[b] <= policies'[b].max_amount
    <3>1. CASE b = r.policy
      BY <2>3, <2>4, <2>5, <3>1
    <3>2. CASE b # r.policy
      BY <2>3, <2>5, <2>6, <2>7, <3>2 DEF Exists
    <3> QED
      BY <3>1, <3>2
  <2>8. \A b \in PolicyAddresses : ~Exists(b)' => charged'[b] = 0
    BY <2>3, <2>5
  <2> QED
    BY <2>7, <2>8 DEF OneSpendPerTransaction, ChargedExists
<1>5. ASSUME NEW r \in RecoverRequests, NEW pl \in Placements, Recover(r, pl)
      PROVE  OneSpendPerTransaction' /\ ChargedExists'
  BY <1>5, NotCharged, PoliciesKept DEF Recover
<1>6. CASE Environment
  BY <1>6, PoliciesKept DEF Environment
<1>7. CASE UNCHANGED vars
  BY <1>7, PoliciesKept DEF vars
<1> QED
  BY <1>1, <1>2, <1>3, <1>4, <1>5, <1>6, <1>7 DEF Next

(* However a transaction is put together, and whatever wraps the calls, it *)
(* charges a policy no more than one maximum amount.                       *)
THEOREM OneSpendHeld == Spec => []OneSpendPerTransaction
<1>1. TxInv => OneSpendPerTransaction
  BY DEF TxInv
<1> QED
  BY <1>1, TxInvInit, TxInvNext, PTL DEF Spec

----------------------------------------------------------------------------
(* The log.  What it says of a policy is inductive once the policies and   *)
(* the events are typed.                                                   *)

(* The log of one policy; a swap is charged at most the cap, too.          *)
LogKept(a) ==
  LET p == policies[a] IN
  IF p = NoAccount
  THEN events[a] = <<>>
  ELSE Reconciled("Executed", events[a], p.max_amount, p.expires_at, p.nonce, p.spent, p.active)

LogInv == TypeOK /\ \A a \in PolicyAddresses : LogKept(a)

LEMMA LogInvImplies == LogInv => LogReconciles
  BY DEF LogInv, LogKept, LogReconciles, Reconciled

(* A policy that the step leaves alone keeps its log.                      *)
LEMMA LogUntouched ==
  ASSUME NEW a \in PolicyAddresses, LogKept(a),
         policies'[a] = policies[a], events'[a] = events[a]
  PROVE  LogKept(a)'
  BY DEF LogKept

LEMMA LogCreate ==
  ASSUME LogInv, NEW c \in PolicyArgs, NEW pl \in Placements, CreatePolicy(c, pl),
         NEW a \in PolicyAddresses
  PROVE  LogKept(a)'
<1> DEFINE b == PolicyPda(c.owner, c.agent)
<1>1. b \in PolicyAddresses
  BY PdaTypes
<1>2. CASE a # b
  <2>1. policies'[a] = policies[a] /\ events'[a] = events[a]
    BY <1>1, <1>2 DEF CreatePolicy, Emit, LogInv, TypeOK
  <2> QED
    BY <2>1, LogUntouched DEF LogInv
<1>3. CASE a = b
  <2> DEFINE event == [kind |-> "PolicyCreated", owner |-> c.owner, agent |-> c.agent]
  <2>1. events[a] = <<>>
    BY <1>3 DEF CreatePolicy, NewAccount, LogInv, LogKept
  <2>2. events'[a] = Append(<<>>, event) /\ event.kind = "PolicyCreated"
    BY <1>1, <1>3, <2>1 DEF CreatePolicy, Emit, LogInv, TypeOK
  <2>3. /\ policies'[a] # NoAccount
        /\ policies'[a].nonce = 0 /\ policies'[a].spent = 0 /\ policies'[a].active = TRUE
    <3>1. /\ policies'[a].nonce = 0 /\ policies'[a].spent = 0 /\ policies'[a].active = TRUE
          /\ policies'[a] \in PolicyV2
      BY <1>1, <1>3, PdaTypes, SwapPolicyAssumption, MaxU64Assumption
      DEF CreatePolicy, LogInv, TypeOK, SwapPolicyAssumption, PolicyArgType, PolicyV2
    <3> QED
      BY <3>1, NoAccountAssumption DEF NoAccountAssumption
  <2> HIDE DEF event
  <2>4. Reconciled("Executed", events'[a], policies'[a].max_amount, policies'[a].expires_at,
                   0, 0, TRUE)
    BY <2>2, LogOpened DEF ChargeKinds
  <2> QED
    BY <2>3, <2>4 DEF LogKept
<1> QED
  BY <1>2, <1>3

LEMMA LogRevoke ==
  ASSUME LogInv, NEW owner \in Wallets, NEW b \in PolicyAddresses, NEW pl \in Placements,
         Revoke(owner, b, pl), NEW a \in PolicyAddresses
  PROVE  LogKept(a)'
<1>1. CASE a # b
  <2>1. policies'[a] = policies[a] /\ events'[a] = events[a]
    BY <1>1 DEF Revoke, Emit, LogInv, TypeOK
  <2> QED
    BY <2>1, LogUntouched DEF LogInv
<1>2. CASE a = b
  <2> DEFINE p == policies[a]
             q == policies'[a]
             event == [kind |-> "Revoked", at |-> now]
  <2>1. p \in PolicyV2 /\ p # NoAccount /\ q = [p EXCEPT !.active = FALSE]
    BY <1>2 DEF Revoke, CanRevoke, LogInv, TypeOK
  <2>2. /\ q \in PolicyV2 /\ q.active = FALSE
        /\ q.max_amount = p.max_amount /\ q.expires_at = p.expires_at
        /\ q.nonce = p.nonce /\ q.spent = p.spent
    BY <2>1 DEF PolicyV2
  <2>3. q # NoAccount
    BY <2>2, NoAccountAssumption DEF NoAccountAssumption
  <2>4. /\ events'[a] = Append(events[a], event) /\ event.kind = "Revoked"
        /\ event \in Event /\ events[a] \in Seq(Event)
    BY <1>2 DEF Revoke, Emit, LogInv, TypeOK, ChainTypeOK, Event
  <2>5. Reconciled("Executed", events[a], p.max_amount, p.expires_at, p.nonce, p.spent, p.active)
    BY <2>1 DEF LogInv, LogKept
  <2> HIDE DEF p, q, event
  <2>6. Reconciled("Executed", events'[a], p.max_amount, p.expires_at, p.nonce, p.spent, FALSE)
    BY <2>4, <2>5, LogRevoked DEF ChargeKinds
  <2>7. Reconciled("Executed", events'[a], q.max_amount, q.expires_at, q.nonce, q.spent, q.active)
    BY <2>2, <2>6
  <2> QED
    BY <2>3, <2>7 DEF LogKept, q
<1> QED
  BY <1>1, <1>2

LEMMA LogSwap ==
  ASSUME LogInv, NEW r \in SwapRequests, NEW pl \in Placements, ExecuteSwap(r, pl),
         NEW a \in PolicyAddresses
  PROVE  LogKept(a)'
<1>1. /\ r.policy \in PolicyAddresses /\ r.pool \in PoolAddresses
      /\ r.amount \in U64Range /\ r.nonce \in U64Range
  BY SwapPolicyAssumption DEF SwapPolicyAssumption, SwapRequestType
<1>2. CASE a # r.policy
  <2>1. policies'[a] = policies[a] /\ events'[a] = events[a]
    BY <1>1, <1>2 DEF ExecuteSwap, Emit, LogInv, TypeOK
  <2> QED
    BY <2>1, LogUntouched DEF LogInv
<1>3. CASE a = r.policy
  <2> DEFINE p == policies[a]
             q == policies'[a]
             event == [kind |-> "Executed", amount |-> r.amount,
                       output |-> r.amount * pools[r.pool].rate, nonce |-> r.nonce,
                       spent |-> p.spent + r.amount, at |-> now]
  <2>1. p \in PolicyV2 /\ p # NoAccount /\ p.active = TRUE
    BY <1>3 DEF ExecuteSwap, LogInv, TypeOK, ValidateSpend, PolicyV2
  <2>2. /\ now < p.expires_at /\ r.nonce = p.nonce
        /\ r.amount > 0 /\ r.amount <= p.max_amount
        /\ p.spent + r.amount <= MaxU64 /\ p.nonce + 1 <= MaxU64
    BY <1>3 DEF ExecuteSwap, ValidateSpend
  <2>3. p.spent \in Nat /\ p.nonce \in Nat /\ r.amount \in Nat
    BY <1>1, <2>1, MaxU64Assumption DEF PolicyV2
  <2>4. PICK s \in U64Range, n \in U64Range : s = p.spent + r.amount /\ n = p.nonce + 1
    BY ONLY <2>2, <2>3, MaxU64Assumption
  <2>5. q = Counted(p, s, n)
    BY <1>3, <2>1, <2>4 DEF ExecuteSwap, LogInv, TypeOK, Counted, PolicyV2
  <2>6. /\ q \in PolicyV2 /\ q.active = p.active
        /\ q.spent = s /\ q.nonce = n
        /\ q.max_amount = p.max_amount /\ q.expires_at = p.expires_at
    BY ONLY <2>1, <2>5, SpentRecord, s \in U64Range, n \in U64Range
  <2>7. q # NoAccount
    BY ONLY <2>6, NoAccountAssumption
  <2>8. events'[a] = Append(events[a], event)
    BY <1>3 DEF ExecuteSwap, Emit, LogInv, TypeOK
  <2>9. events[a] \in Seq(Event) /\ events'[a] \in Seq(Event)
    BY TypeNext DEF LogInv, TypeOK, Next
  <2>10. event \in {event} \cup Event /\ events[a] \in Seq({event} \cup Event)
    <3> HIDE DEF event
    <3> QED
      BY <2>9
  <2>11. /\ event.kind = "Executed" /\ event.nonce = p.nonce
         /\ event.spent = p.spent + event.amount /\ event.spent = s
         /\ 0 < event.amount /\ event.amount <= p.max_amount /\ event.at < p.expires_at
    BY <2>2, <2>3, <2>4
  <2>12. Reconciled("Executed", events[a], p.max_amount, p.expires_at, p.nonce, p.spent, TRUE)
    BY <2>1 DEF LogInv, LogKept
  <2> HIDE DEF p, q, event
  <2>13. Reconciled("Executed", Append(events[a], event), p.max_amount, p.expires_at,
                    p.nonce + 1, event.spent, TRUE)
    BY <2>10, <2>11, <2>12, LogCharged DEF ChargeKinds
  <2>14. Reconciled("Executed", events'[a], q.max_amount, q.expires_at, q.nonce, q.spent, q.active)
    BY <2>1, <2>4, <2>6, <2>8, <2>11, <2>13
  <2> QED
    BY <2>7, <2>14 DEF LogKept, q
<1> QED
  BY <1>2, <1>3

LEMMA LogInvInit == Init => LogInv
  BY TypeInit DEF Init, LogInv, LogKept

LEMMA LogInvNext == LogInv /\ [Next]_vars => LogInv'
<1> SUFFICES ASSUME LogInv, [Next]_vars, NEW a \in PolicyAddresses PROVE LogKept(a)'
  BY TypeNext DEF LogInv
<1>1. CASE UNCHANGED <<policies, events>>
  BY <1>1, LogUntouched DEF LogInv
<1> QED
  BY <1>1, LogCreate, LogRevoke, LogSwap
  DEF Next, CreatePool, Recover, Environment, vars

(* The log that a policy's clients read reconstructs the account: swaps    *)
(* numbered from 0 with running totals, none after a revocation or the     *)
(* deadline, whatever else happens on the chain.                           *)
THEOREM LogHeld == Spec => []LogReconciles
<1> QED
  BY LogInvImplies, LogInvInit, LogInvNext, PTL DEF Spec

----------------------------------------------------------------------------
(* SwapPolicy implements Mandate: each instruction is, for every policy, a *)
(* step of its mandate or leaves it alone.  The action properties about    *)
(* tokens follow from the same account of what each step moves.            *)

(* Addresses of policies, of pools and of wallets never coincide.          *)
LEMMA AddressesDisjoint ==
  ASSUME NEW a \in PolicyAddresses
  PROVE  a \notin Wallets /\ a \notin PoolAddresses
<1>1. a \in Pdas
  BY SwapPolicyAssumption
  DEF SwapPolicyAssumption, PolicyArgType, PolicyAddresses, Pdas
<1>2. a \notin PoolAddresses
  BY DEF PolicyAddresses, PoolAddresses, PolicyPda, PoolPda
<1> QED
  BY <1>1, <1>2, ChainAssumption DEF ChainAssumption

(* A mandate whose policy is untouched and whose accounts lose nothing is  *)
(* at most funded.                                                         *)
LEMMA FundStep ==
  ASSUME NEW a \in PolicyAddresses, policies'[a] = policies[a],
         \A t \in TokenAccounts : HeldBy(a)'[t] >= HeldBy(a)[t]
  PROVE  Mdt!Step(a)
<1>1. Mdt!Fund(a)
  BY DEF Mdt!Fund, MandateOf
<1> QED
  BY <1>1 DEF Mdt!Step

(* The same when no token and no authority moved.                          *)
LEMMA IdleStep ==
  ASSUME TypeOK, NEW a \in PolicyAddresses, policies'[a] = policies[a],
         UNCHANGED <<balance, authority>>
  PROVE  Mdt!Step(a)
<1>1. \A t \in TokenAccounts : HeldBy(a)'[t] >= HeldBy(a)[t]
  <2>1. \A t \in TokenAccounts : balance[t] \in Int
    BY MaxU64Assumption DEF TypeOK, ChainTypeOK
  <2>2. \A t \in TokenAccounts : HeldBy(a)[t] \in Int /\ HeldBy(a)'[t] = HeldBy(a)[t]
    BY <2>1 DEF HeldBy
  <2> QED
    BY ONLY <2>2
<1> QED
  BY <1>1, FundStep

(* The same when every account of the policy that loses tokens is another  *)
(* address's: authority does not move and losers are not held by a.        *)
LEMMA BystanderStep ==
  ASSUME TypeOK, NEW a \in PolicyAddresses, policies'[a] = policies[a],
         authority' = authority,
         \A t \in TokenAccounts : authority[t] = a => balance'[t] >= balance[t]
  PROVE  Mdt!Step(a)
<1>1. \A t \in TokenAccounts : HeldBy(a)'[t] >= HeldBy(a)[t]
  BY MaxU64Assumption DEF HeldBy
<1> QED
  BY <1>1, FundStep

----------------------------------------------------------------------------
LEMMA RefinementInit == Init => Mdt!Init
  BY DEF Init, ChainInit, Mdt!Init, Mdt!None, MandateOf

LEMMA CreatePolicyStep ==
  ASSUME TypeOK, NEW c \in PolicyArgs, NEW pl \in Placements, CreatePolicy(c, pl),
         NEW a \in PolicyAddresses
  PROVE  Mdt!Step(a)
<1>1. CASE a # PolicyPda(c.owner, c.agent)
  BY <1>1, IdleStep DEF CreatePolicy, TypeOK
<1>2. CASE a = PolicyPda(c.owner, c.agent)
  <2>1. c \in PolicyArgType
    BY SwapPolicyAssumption DEF SwapPolicyAssumption
  <2>2. policies[a] = NoAccount
    BY <1>2 DEF CreatePolicy, NewAccount
  <2>3. policies'[a] = [version |-> POLICY_VERSION, owner |-> c.owner, agent |-> c.agent,
          executor |-> c.executor, pool |-> c.pool, max_amount |-> c.max_amount,
          total_limit |-> c.total_limit, spent |-> 0, expires_at |-> c.expires_at,
          nonce |-> 0, min_rate |-> c.min_rate, active |-> TRUE,
          allowed_recipients |-> c.allowed_recipients,
          allowed_programs |-> c.allowed_programs]
    BY <1>2 DEF CreatePolicy, TypeOK
  <2>4. policies'[a] \in PolicyV2
    <3>1. c.pool \in PoolAddresses
      BY PdaTypes
    <3> QED
      BY ONLY <2>1, <2>3, <3>1, MaxU64Assumption DEF PolicyArgType, PolicyV2
  <2>5. policies'[a] # NoAccount
    BY <2>4, NoAccountAssumption
  <2>6. MandateOf(policies[a]) = [phase |-> "none"]
    BY <2>2 DEF MandateOf
  <2>7. MandateOf(policies'[a]) =
          [phase |-> "active", cap |-> c.max_amount, limit |-> c.total_limit,
           deadline |-> c.expires_at, spent |-> 0, nonce |-> 0]
    BY <2>3, <2>5 DEF MandateOf
  <2>8. 0 < c.max_amount /\ c.max_amount <= c.total_limit /\ now < c.expires_at
    BY <2>1, MaxU64Assumption DEF CreatePolicy, PolicyArgType, TypeOK, ChainTypeOK
  <2>9. \A t \in TokenAccounts : HeldBy(a)'[t] = HeldBy(a)[t]
    BY DEF CreatePolicy, HeldBy
  <2>10. Mdt!Open(a)
    BY <2>6, <2>7, <2>8, <2>9, <2>2, <2>5 DEF Mdt!Open, Mdt!SameHoldings, MandateOf
  <2> QED
    BY <2>10 DEF Mdt!Step
<1> QED
  BY <1>1, <1>2

LEMMA RevokeStep ==
  ASSUME TypeOK, NEW owner \in Wallets, NEW b \in PolicyAddresses, NEW pl \in Placements,
         Revoke(owner, b, pl), NEW a \in PolicyAddresses
  PROVE  Mdt!Step(a)
<1>1. CASE a # b
  BY <1>1, IdleStep DEF Revoke, TypeOK
<1>2. CASE a = b
  <2> DEFINE p == policies[a]
  <2>1. p \in PolicyV2 /\ p # NoAccount
    BY <1>2 DEF Revoke, CanRevoke, TypeOK
  <2>2. policies'[a] = [p EXCEPT !.active = FALSE]
    BY <1>2 DEF Revoke, TypeOK
  <2>3. CASE ~p.active
    <3>1. policies'[a] = p
      BY <2>1, <2>2, <2>3 DEF PolicyV2
    <3> QED
      BY <3>1, IdleStep DEF Revoke
  <2>4. CASE p.active
    <3>1. policies'[a] # NoAccount
      BY <2>1, <2>2, NoAccountAssumption DEF PolicyV2
    <3>2. MandateOf(p) =
            [phase |-> "active", cap |-> p.max_amount, limit |-> p.total_limit,
             deadline |-> p.expires_at, spent |-> p.spent, nonce |-> p.nonce]
      BY <2>1, <2>4 DEF MandateOf
    <3>3. MandateOf(policies'[a]) =
            [phase |-> "revoked", cap |-> p.max_amount, limit |-> p.total_limit,
             deadline |-> p.expires_at, spent |-> p.spent, nonce |-> p.nonce]
      BY <2>1, <2>2, <3>1 DEF MandateOf, PolicyV2
    <3>4. \A t \in TokenAccounts : HeldBy(a)'[t] = HeldBy(a)[t]
      BY DEF Revoke, HeldBy
    <3>5. Mdt!Revoke(a)
      BY <3>2, <3>3, <3>4 DEF Mdt!Revoke, Mdt!SameHoldings, MandateOf
    <3> QED
      BY <3>5 DEF Mdt!Step
  <2> QED
    BY <2>3, <2>4
<1> QED
  BY <1>1, <1>2

(* The four accounts of a swap are distinct, so that each of them gains or *)
(* loses exactly its share and no other account changes.                   *)
LEMMA SwapEffect ==
  ASSUME IInv, NEW r \in SwapRequests, NEW pl \in Placements, ExecuteSwap(r, pl)
  PROVE  LET output == r.amount * pools[r.pool].rate IN
         /\ balance'[r.vault] = balance[r.vault] - r.amount
         /\ balance'[r.pool_quote] = balance[r.pool_quote] + r.amount
         /\ balance'[r.pool_output] = balance[r.pool_output] - output
         /\ balance'[r.recipient] = balance[r.recipient] + output
         /\ output \in Nat
         /\ \A t \in TokenAccounts \ {r.vault, r.pool_output} : balance'[t] >= balance[t]
<1> DEFINE pool == pools[r.pool]
           output == r.amount * pool.rate
           paid == AfterTransfer(balance, r.vault, r.pool_quote, r.amount)
<1>1. /\ r.policy \in PolicyAddresses /\ r.pool \in PoolAddresses
      /\ r.vault \in TokenAccounts /\ r.pool_quote \in TokenAccounts
      /\ r.pool_output \in TokenAccounts /\ r.recipient \in TokenAccounts
      /\ r.amount \in U64Range
  BY SwapPolicyAssumption DEF SwapPolicyAssumption, SwapRequestType
<1>2. pool \in Pool /\ pool.quote_mint # pool.output_mint
  BY <1>1 DEF ExecuteSwap, IInv, TypeOK, MintsDiffer
<1>3. output \in U64Range /\ output \in Nat
  <2>1. output <= MaxU64
    BY DEF ExecuteSwap, Priced
  <2>2. r.amount \in Nat /\ pool.rate \in Nat
    BY <1>1, <1>2, MaxU64Assumption DEF Pool
  <2>3. output \in Nat
    BY ONLY <2>2, ProductType
  <2> QED
    BY ONLY <2>1, <2>3, MaxU64Assumption
<1>4. /\ r.vault # r.pool_quote /\ r.vault # r.pool_output /\ r.vault # r.recipient
      /\ r.pool_quote # r.pool_output /\ r.pool_quote # r.recipient
      /\ r.pool_output # r.recipient
  <2>1. /\ MintOf[r.vault] = pool.quote_mint /\ MintOf[r.pool_quote] = pool.quote_mint
        /\ MintOf[r.pool_output] = pool.output_mint
        /\ MintOf[r.recipient] = pool.output_mint
        /\ r.vault # r.pool_quote /\ r.pool_output # r.recipient
    BY DEF ExecuteSwap, ValidateToken, Distinct
  <2> QED
    BY <1>2, <2>1
<1>5. balance \in [TokenAccounts -> U64Range]
  BY DEF IInv, TypeOK, ChainTypeOK
<1>6. paid \in [TokenAccounts -> U64Range]
  BY <1>1, <1>5, AfterTransferType DEF ExecuteSwap
<1>7. /\ paid[r.vault] = balance[r.vault] - r.amount
      /\ paid[r.pool_quote] = balance[r.pool_quote] + r.amount
      /\ \A t \in TokenAccounts : t # r.vault /\ t # r.pool_quote => paid[t] = balance[t]
      /\ \A t \in TokenAccounts : t # r.vault => paid[t] >= balance[t]
  <2>1. /\ r.vault \in TokenAccounts /\ r.pool_quote \in TokenAccounts
        /\ r.amount \in U64Range /\ r.vault # r.pool_quote
    BY <1>1, <1>4
  <2> QED
    BY ONLY <2>1, <1>5, TransferEffect
<1>8. balance' = AfterTransfer(paid, r.pool_output, r.recipient, output)
  BY DEF ExecuteSwap
<1>9. /\ balance'[r.pool_output] = paid[r.pool_output] - output
      /\ balance'[r.recipient] = paid[r.recipient] + output
      /\ \A t \in TokenAccounts :
           t # r.pool_output /\ t # r.recipient => balance'[t] = paid[t]
      /\ \A t \in TokenAccounts : t # r.pool_output => balance'[t] >= paid[t]
  <2> HIDE DEF paid, output
  <2>1. /\ r.pool_output \in TokenAccounts /\ r.recipient \in TokenAccounts
        /\ output \in U64Range /\ r.pool_output # r.recipient
    BY <1>1, <1>3, <1>4
  <2> DEFINE after == AfterTransfer(paid, r.pool_output, r.recipient, output)
  <2>2. /\ \A t \in TokenAccounts : t # r.pool_output => after[t] >= paid[t]
        /\ \A t \in TokenAccounts :
             t # r.pool_output /\ t # r.recipient => after[t] = paid[t]
        /\ after[r.pool_output] = paid[r.pool_output] - output
        /\ after[r.recipient] = paid[r.recipient] + output
    BY ONLY <2>1, <1>6, TransferEffect
  <2> HIDE DEF after
  <2> QED
    BY ONLY <2>2, <1>8 DEF after
<1>10. balance' \in [TokenAccounts -> U64Range]
  BY <1>1, <1>3, <1>6, <1>8, AfterTransferType DEF ExecuteSwap
<1>11. \A t \in TokenAccounts : balance[t] \in Int /\ paid[t] \in Int /\ balance'[t] \in Int
  BY <1>5, <1>6, <1>10, MaxU64Assumption
<1>12. \A t \in TokenAccounts \ {r.vault, r.pool_output} : balance'[t] >= balance[t]
  <2> HIDE DEF paid, output
  <2> QED
    BY ONLY <1>7, <1>9, <1>11
<1> HIDE DEF paid, output
<1>13. /\ balance'[r.vault] = balance[r.vault] - r.amount
       /\ balance'[r.pool_quote] = balance[r.pool_quote] + r.amount
       /\ balance'[r.pool_output] = balance[r.pool_output] - output
       /\ balance'[r.recipient] = balance[r.recipient] + output
  BY ONLY <1>1, <1>4, <1>7, <1>9
<1> QED
  BY ONLY <1>3, <1>12, <1>13 DEF output, pool

LEMMA ExecuteSwapStep ==
  ASSUME IInv, NEW r \in SwapRequests, NEW pl \in Placements, ExecuteSwap(r, pl),
         NEW a \in PolicyAddresses
  PROVE  Mdt!Step(a)
<1>1. /\ r.policy \in PolicyAddresses /\ r.pool \in PoolAddresses
      /\ r.vault \in TokenAccounts /\ r.amount \in U64Range
  BY SwapPolicyAssumption DEF SwapPolicyAssumption, SwapRequestType
<1>2. authority[r.vault] = r.policy /\ authority[r.pool_output] = r.pool
      /\ authority' = authority
  BY DEF ExecuteSwap, ValidateToken
<1>3. \A t \in TokenAccounts \ {r.vault} : authority[t] = a => balance'[t] >= balance[t]
  BY <1>1, <1>2, SwapEffect, AddressesDisjoint
<1>4. CASE a # r.policy
  <2>1. \A t \in TokenAccounts : authority[t] = a => balance'[t] >= balance[t]
    BY <1>2, <1>3, <1>4
  <2>2. policies'[a] = policies[a]
    BY <1>4 DEF ExecuteSwap, IInv, TypeOK
  <2> QED
    BY <1>2, <2>1, <2>2, BystanderStep DEF IInv
<1>5. CASE a = r.policy
  <2> DEFINE p == policies[a]
             amount == HeldBy(a)[r.vault] - HeldBy(a)'[r.vault]
  <2>1. p \in PolicyV2 /\ p # NoAccount
    BY <1>5 DEF ExecuteSwap, IInv, TypeOK
  <2>2. /\ p.active /\ now < p.expires_at /\ r.amount > 0 /\ r.amount <= p.max_amount
        /\ p.spent + r.amount <= p.total_limit
        /\ p.spent + r.amount <= MaxU64 /\ p.nonce + 1 <= MaxU64
    BY <1>5 DEF ExecuteSwap, ValidateSpend
  <2>3. policies'[a] = Counted(p, p.spent + r.amount, p.nonce + 1)
    BY <1>5, <2>1 DEF ExecuteSwap, IInv, TypeOK, Counted, PolicyV2
  <2>4. p.spent + r.amount \in U64Range /\ p.nonce + 1 \in U64Range
    <3>1. p.spent \in Nat /\ p.nonce \in Nat /\ r.amount \in Nat
      BY <1>1, <2>1, MaxU64Assumption DEF PolicyV2
    <3> QED
      BY ONLY <2>2, <3>1, MaxU64Assumption
  <2>5. MandateOf(p) =
          [phase |-> "active", cap |-> p.max_amount, limit |-> p.total_limit,
           deadline |-> p.expires_at, spent |-> p.spent, nonce |-> p.nonce]
    BY <2>1, <2>2 DEF MandateOf
  <2>6. MandateOf(policies'[a]) =
          [phase |-> "active", cap |-> p.max_amount, limit |-> p.total_limit,
           deadline |-> p.expires_at, spent |-> p.spent + r.amount, nonce |-> p.nonce + 1]
    <3> DEFINE q == policies'[a]
    <3>1. PICK s \in U64Range, n \in U64Range : s = p.spent + r.amount /\ n = p.nonce + 1
      BY ONLY <2>4
    <3>2. q = Counted(p, s, n)
      BY ONLY <2>3, <3>1
    <3>3. /\ q \in PolicyV2 /\ q.active = p.active
          /\ q.spent = s /\ q.nonce = n
          /\ q.max_amount = p.max_amount /\ q.total_limit = p.total_limit
          /\ q.expires_at = p.expires_at
      BY ONLY <2>1, <3>2, SpentRecord, s \in U64Range, n \in U64Range
    <3>4. q # NoAccount
      BY ONLY <3>3, NoAccountAssumption
    <3> QED
      BY ONLY <2>2, <3>1, <3>3, <3>4 DEF MandateOf
  <2>7. amount = r.amount
    <3>1. balance[r.vault] \in Int /\ r.amount \in Int
      BY <1>1, MaxU64Assumption DEF IInv, TypeOK, ChainTypeOK
    <3>2. amount = balance[r.vault] - balance'[r.vault]
      BY <1>1, <1>2, <1>5 DEF HeldBy
    <3>3. balance'[r.vault] = balance[r.vault] - r.amount
      BY SwapEffect
    <3> HIDE DEF amount
    <3> QED
      BY ONLY <3>1, <3>2, <3>3
  <2>8. \A t \in TokenAccounts \ {r.vault} : HeldBy(a)'[t] >= HeldBy(a)[t]
    BY <1>2, <1>3 DEF HeldBy
  <2>9. Mdt!Spend(a)
    <3> DEFINE m == MandateOf(p)
               n == MandateOf(policies'[a])
    <3>0. r.vault \in TokenAccounts
      BY <1>1
    <3>1. n = [m EXCEPT !.spent = m.spent + amount, !.nonce = m.nonce + 1]
      <4>1. /\ m = [phase |-> "active", cap |-> p.max_amount, limit |-> p.total_limit,
                    deadline |-> p.expires_at, spent |-> p.spent, nonce |-> p.nonce]
            /\ n = [phase |-> "active", cap |-> p.max_amount, limit |-> p.total_limit,
                    deadline |-> p.expires_at, spent |-> p.spent + r.amount,
                    nonce |-> p.nonce + 1]
        BY ONLY <2>5, <2>6
      <4> HIDE DEF m, n, amount, p
      <4>2. /\ p.max_amount \in Int /\ p.total_limit \in Int /\ p.expires_at \in Int
            /\ p.spent \in Int /\ p.nonce \in Int /\ r.amount \in Int
        BY <1>1, <2>1, MaxU64Assumption DEF PolicyV2, p
      <4>3. /\ m \in MandateRecord /\ n \in MandateRecord
            /\ n.phase = m.phase /\ n.cap = m.cap /\ n.limit = m.limit
            /\ n.deadline = m.deadline
        BY ONLY <4>1, <4>2 DEF MandateRecord
      <4>4. PICK s \in Int, k \in Int : s = m.spent + amount /\ k = m.nonce + 1
        BY ONLY <2>7, <4>1, <4>2
      <4>5. n.spent = s /\ n.nonce = k
        BY ONLY <2>7, <4>1, <4>2, <4>4
      <4>6. n = CountedMandate(m, s, k)
        BY ONLY <4>3, <4>5, s \in Int, k \in Int, MandateCounted
      <4> QED
        BY ONLY <4>4, <4>6 DEF CountedMandate
    <3>2. /\ m.phase = "active" /\ now < m.deadline
          /\ 0 < amount /\ amount <= m.cap /\ m.spent + amount <= m.limit
      <4>1. r.amount \in Int
        BY <1>1, MaxU64Assumption
      <4> QED
        BY ONLY <2>2, <2>5, <2>7, <4>1
    <3>3. \E vault \in TokenAccounts :
            LET loss == HeldBy(a)[vault] - HeldBy(a)'[vault] IN
            /\ 0 < loss /\ loss <= m.cap /\ m.spent + loss <= m.limit
            /\ n = [m EXCEPT !.spent = m.spent + loss, !.nonce = m.nonce + 1]
            /\ \A t \in TokenAccounts \ {vault} : HeldBy(a)'[t] >= HeldBy(a)[t]
      <4> r.vault \in TokenAccounts
        BY <3>0
      <4> WITNESS r.vault \in TokenAccounts
      <4> QED
        BY ONLY <2>8, <3>1, <3>2
    <3> QED
      BY ONLY <3>2, <3>3, a \in PolicyAddresses DEF Mdt!Spend
  <2> QED
    BY <2>9 DEF Mdt!Step
<1> QED
  BY <1>4, <1>5

LEMMA RecoverStep ==
  ASSUME IInv, NEW r \in RecoverRequests, NEW pl \in Placements, Recover(r, pl),
         NEW a \in PolicyAddresses
  PROVE  Mdt!Step(a)
<1>1. /\ r.policy \in PolicyAddresses /\ r.vault \in TokenAccounts
      /\ r.destination \in TokenAccounts /\ r.amount \in U64Range
  BY SwapPolicyAssumption DEF SwapPolicyAssumption, RecoverRequestType
<1>2. /\ policies' = policies /\ authority' = authority
      /\ authority[r.vault] = r.policy /\ ~policies[r.policy].active
      /\ policies[r.policy] # NoAccount
  BY DEF Recover, CanRecover, Recoverable, ValidateToken
<1>3. CASE a # r.policy
  <2>1. balance \in [TokenAccounts -> U64Range]
    BY DEF IInv, TypeOK, ChainTypeOK
  <2>2. \A t \in TokenAccounts : t # r.vault => balance'[t] >= balance[t]
    BY <1>1, <2>1, TransferEffect DEF Recover
  <2>3. \A t \in TokenAccounts : authority[t] = a => balance'[t] >= balance[t]
    BY <1>2, <1>3, <2>2
  <2> QED
    BY <1>2, <2>3, BystanderStep DEF IInv
<1>4. CASE a = r.policy
  <2>1. MandateOf(policies[a]).phase = "revoked"
    BY <1>2, <1>4 DEF MandateOf
  <2>2. Mdt!Reclaim(a)
    BY <1>2, <2>1 DEF Mdt!Reclaim, MandateOf
  <2> QED
    BY <2>2 DEF Mdt!Step
<1> QED
  BY <1>3, <1>4

(* Wallets move only their own tokens, and hand over only their accounts.  *)
LEMMA EnvironmentStep ==
  ASSUME TypeOK, Environment, NEW a \in PolicyAddresses
  PROVE  Mdt!Step(a)
<1>1. policies' = policies /\ a \notin Wallets
  BY AddressesDisjoint DEF Environment
<1>2. \A t \in TokenAccounts : HeldBy(a)'[t] >= HeldBy(a)[t]
  BY <1>1, EnvironmentKeeps DEF Environment, TypeOK
<1> QED
  BY <1>1, <1>2, FundStep

LEMMA RefinementNext == IInv /\ [Next]_vars => [Mdt!Next]_(Mdt!vars)
<1> SUFFICES ASSUME IInv, [Next]_vars PROVE Mdt!Next
  OBVIOUS
<1>1. now' >= now
  <2>1. now \in Int
    BY DEF IInv, TypeOK, ChainTypeOK
  <2>2. now' = now \/ now' = now + 1
    BY DEF Next, CreatePool, CreatePolicy, Revoke, ExecuteSwap, Recover, Environment,
           ChainNext, WalletTransfer, SetAuthority, Encumber, Tick, vars
  <2> QED
    BY <2>1, <2>2
<1>2. ASSUME NEW a \in PolicyAddresses
      PROVE  Mdt!Step(a)
  <2> USE DEF IInv
  <2>1. ASSUME NEW c \in PoolArgs, NEW pl \in Placements, CreatePool(c, pl)
        PROVE  Mdt!Step(a)
    BY <2>1, IdleStep DEF CreatePool
  <2>2. ASSUME NEW c \in PolicyArgs, NEW pl \in Placements, CreatePolicy(c, pl)
        PROVE  Mdt!Step(a)
    BY <2>2, CreatePolicyStep
  <2>3. ASSUME NEW owner \in Wallets, NEW b \in PolicyAddresses, NEW pl \in Placements,
               Revoke(owner, b, pl)
        PROVE  Mdt!Step(a)
    BY <2>3, RevokeStep
  <2>4. ASSUME NEW r \in SwapRequests, NEW pl \in Placements, ExecuteSwap(r, pl)
        PROVE  Mdt!Step(a)
    BY <2>4, ExecuteSwapStep
  <2>5. ASSUME NEW r \in RecoverRequests, NEW pl \in Placements, Recover(r, pl)
        PROVE  Mdt!Step(a)
    BY <2>5, RecoverStep
  <2>6. CASE Environment
    BY <2>6, EnvironmentStep
  <2>7. CASE UNCHANGED vars
    BY <2>7, IdleStep DEF vars
  <2> QED
    BY <2>1, <2>2, <2>3, <2>4, <2>5, <2>6, <2>7 DEF Next
<1> QED
  BY <1>1, <1>2 DEF Mdt!Next

(* Under every interleaving of instructions, token transfers, authority    *)
(* changes and time, each policy behaves as its mandate says: within cap,  *)
(* limit and deadline, one nonce per spend, never again once revoked, and  *)
(* nothing leaves its vaults otherwise.                                    *)
THEOREM MandateImplemented == Spec => MandateHonoured
<1>1. Init => Mdt!Init
  BY RefinementInit
<1>2. IInv /\ [Next]_vars => [Mdt!Next]_(Mdt!vars)
  BY RefinementNext
<1> QED
  BY <1>1, <1>2, Invariance, PTL DEF Spec, MandateHonoured, Mdt!Spec

----------------------------------------------------------------------------
(* Which steps take tokens from an address that no wallet signs for.       *)

(* Every balance is a number, before and after a step.                     *)
LEMMA BalanceType ==
  ASSUME IInv, [Next]_vars
  PROVE  \A t \in TokenAccounts : balance[t] \in Int /\ balance'[t] \in Int /\ balance'[t] >= 0
<1>1. TypeOK /\ TypeOK'
  BY TypeNext DEF IInv
<1> QED
  BY <1>1, MaxU64Assumption DEF TypeOK, ChainTypeOK

(* Wallets take no tokens from an account of a program address.            *)
LEMMA EnvironmentTakesNothing ==
  ASSUME IInv, Environment, NEW a, a \notin Wallets,
         NEW t \in TokenAccounts, authority[t] = a
  PROVE  ~(Gain(t) < 0)
<1>1. HeldBy(a)'[t] >= HeldBy(a)[t]
  BY EnvironmentKeeps DEF Environment, IInv, TypeOK
<1>2. HeldBy(a)[t] = balance[t]
  BY DEF HeldBy
<1>3. HeldBy(a)'[t] = balance'[t] \/ HeldBy(a)'[t] = 0
  BY DEF HeldBy
<1>4. balance[t] \in Int /\ balance'[t] \in Int /\ balance'[t] >= 0
  BY BalanceType DEF Next
<1> QED
  BY ONLY <1>1, <1>2, <1>3, <1>4 DEF Gain

(* A recovery takes from the vault alone and gives all of it to another    *)
(* account, which is the owner's.                                          *)
LEMMA RecoverEffect ==
  ASSUME IInv, NEW r \in RecoverRequests, NEW pl \in Placements, Recover(r, pl)
  PROVE  /\ r.policy \in PolicyAddresses /\ Exists(r.policy)
         /\ ~policies[r.policy].active
         /\ authority[r.vault] = r.policy
         /\ r.destination \in TokenAccounts
         /\ authority[r.destination] = policies[r.policy].owner
         /\ MintOf[r.destination] = MintOf[r.vault]
         /\ Gain(r.destination) = -Gain(r.vault)
         /\ \A t \in TokenAccounts \ {r.vault} : ~(Gain(t) < 0)
<1>1. /\ r.policy \in PolicyAddresses /\ r.vault \in TokenAccounts
      /\ r.destination \in TokenAccounts /\ r.amount \in U64Range
  BY SwapPolicyAssumption DEF SwapPolicyAssumption, RecoverRequestType
<1>2. /\ Exists(r.policy) /\ ~policies[r.policy].active
      /\ authority[r.vault] = r.policy
      /\ authority[r.destination] = policies[r.policy].owner
      /\ MintOf[r.destination] = MintOf[r.vault]
      /\ balance' = AfterTransfer(balance, r.vault, r.destination, r.amount)
  BY DEF Recover, CanRecover, Recoverable, ValidateToken, Exists
<1>3. r.vault # r.destination
  <2>1. policies[r.policy].owner \in Wallets
    BY <1>1, <1>2 DEF IInv, TypeOK, Exists, PolicyV2
  <2> QED
    BY <1>1, <1>2, <2>1, AddressesDisjoint
<1>4. balance \in [TokenAccounts -> U64Range]
  BY DEF IInv, TypeOK, ChainTypeOK
<1>5. r.amount \in Int /\ \A t \in TokenAccounts : balance[t] \in Int /\ balance'[t] \in Int
  BY <1>1, BalanceType, MaxU64Assumption DEF Next
<1>6. /\ balance'[r.vault] = balance[r.vault] - r.amount
      /\ balance'[r.destination] = balance[r.destination] + r.amount
      /\ \A t \in TokenAccounts : t # r.vault => balance'[t] >= balance[t]
  BY ONLY <1>1, <1>2, <1>3, <1>4, TransferEffect
<1>7. Gain(r.destination) = -Gain(r.vault)
  BY ONLY <1>1, <1>5, <1>6 DEF Gain
<1>8. \A t \in TokenAccounts \ {r.vault} : ~(Gain(t) < 0)
  BY ONLY <1>5, <1>6 DEF Gain
<1> QED
  BY <1>1, <1>2, <1>7, <1>8

(* What a swap does, account by account and to the policy's counter.       *)
LEMMA SwapGains ==
  ASSUME IInv, NEW r \in SwapRequests, NEW pl \in Placements, ExecuteSwap(r, pl)
  PROVE  /\ r.policy \in PolicyAddresses /\ r.pool \in PoolAddresses
         /\ r.vault \in TokenAccounts /\ r.pool_quote \in TokenAccounts
         /\ r.recipient \in TokenAccounts
         /\ r.amount \in Nat /\ pools[r.pool].rate \in Nat
         /\ Gain(r.vault) = -r.amount
         /\ Gain(r.pool_quote) = r.amount
         /\ Gain(r.pool_output) = -(r.amount * pools[r.pool].rate)
         /\ Gain(r.recipient) = r.amount * pools[r.pool].rate
         /\ \A t \in TokenAccounts : Gain(t) < 0 => t = r.vault \/ t = r.pool_output
         /\ policies'[r.policy].spent - policies[r.policy].spent = r.amount
         /\ \A a \in PolicyAddresses : a # r.policy => policies'[a] = policies[a]
<1> DEFINE output == r.amount * pools[r.pool].rate
<1>1. /\ r.policy \in PolicyAddresses /\ r.pool \in PoolAddresses
      /\ r.vault \in TokenAccounts /\ r.pool_quote \in TokenAccounts
      /\ r.pool_output \in TokenAccounts /\ r.recipient \in TokenAccounts
      /\ r.amount \in Nat
  BY SwapPolicyAssumption, MaxU64Assumption DEF SwapPolicyAssumption, SwapRequestType
<1>2. /\ pools[r.pool] \in Pool /\ policies[r.policy] \in PolicyV2
  BY <1>1 DEF ExecuteSwap, IInv, TypeOK
<1>3. pools[r.pool].rate \in Nat /\ policies[r.policy].spent \in Nat
  BY <1>2, MaxU64Assumption DEF Pool, PolicyV2
<1>4. \A t \in TokenAccounts : balance[t] \in Int /\ balance'[t] \in Int
  BY BalanceType DEF Next
<1>5. /\ balance'[r.vault] = balance[r.vault] - r.amount
      /\ balance'[r.pool_quote] = balance[r.pool_quote] + r.amount
      /\ balance'[r.pool_output] = balance[r.pool_output] - output
      /\ balance'[r.recipient] = balance[r.recipient] + output
      /\ output \in Nat
      /\ \A t \in TokenAccounts \ {r.vault, r.pool_output} : balance'[t] >= balance[t]
  BY SwapEffect
<1>6. /\ policies'[r.policy].spent = policies[r.policy].spent + r.amount
      /\ \A a \in PolicyAddresses : a # r.policy => policies'[a] = policies[a]
  BY <1>1, <1>2 DEF ExecuteSwap, IInv, TypeOK, PolicyV2
<1> HIDE DEF output
<1>7. /\ Gain(r.vault) = -r.amount
      /\ Gain(r.pool_quote) = r.amount
      /\ Gain(r.pool_output) = -output
      /\ Gain(r.recipient) = output
      /\ \A t \in TokenAccounts : Gain(t) < 0 => t = r.vault \/ t = r.pool_output
  BY ONLY <1>1, <1>4, <1>5 DEF Gain
<1>8. policies'[r.policy].spent - policies[r.policy].spent = r.amount
  BY ONLY <1>1, <1>3, <1>6
<1> QED
  BY <1>1, <1>3, <1>6, <1>7, <1>8 DEF output

(* A step that moves no tokens loses none.                                 *)
LEMMA NothingMoved ==
  ASSUME IInv, UNCHANGED balance
  PROVE  \A t \in TokenAccounts : ~(Gain(t) < 0)
<1>1. \A t \in TokenAccounts : balance[t] \in Int
  BY MaxU64Assumption DEF IInv, TypeOK, ChainTypeOK
<1> QED
  BY <1>1 DEF Gain

(* Only three kinds of step take tokens from any account: the wallets' own *)
(* transactions, a swap and a recovery.                                    *)
LEMMA LosingSteps ==
  ASSUME IInv, [Next]_vars, NEW t \in TokenAccounts, Gain(t) < 0
  PROVE  \/ \E r \in SwapRequests, pl \in Placements : ExecuteSwap(r, pl)
         \/ \E r \in RecoverRequests, pl \in Placements : Recover(r, pl)
         \/ Environment
<1>1. CASE UNCHANGED balance
  BY <1>1, NothingMoved
<1> QED
  BY <1>1 DEF Next, CreatePool, CreatePolicy, Revoke, vars

----------------------------------------------------------------------------
(* The three promises about tokens.                                        *)

LEMMA VaultOutflowStep ==
  ASSUME IInv, [Next]_vars, NEW a \in PolicyAddresses, NEW v \in TokenAccounts,
         authority[v] = a, Gain(v) < 0
  PROVE  /\ Exists(a)
         /\ IF policies[a].active
            THEN policies'[a].spent - policies[a].spent = -Gain(v)
            ELSE \E d \in TokenAccounts :
                   /\ authority[d] = policies[a].owner /\ MintOf[d] = MintOf[v]
                   /\ Gain(d) = -Gain(v)
<1>1. ASSUME NEW r \in SwapRequests, NEW pl \in Placements, ExecuteSwap(r, pl)
      PROVE  /\ Exists(a) /\ policies[a].active
             /\ policies'[a].spent - policies[a].spent = -Gain(v)
  <2>1. v = r.vault \/ v = r.pool_output
    BY <1>1, SwapGains
  <2>2. /\ authority[r.pool_output] = r.pool /\ authority[r.vault] = r.policy
        /\ policies[r.policy] # NoAccount /\ policies[r.policy].active
    BY <1>1 DEF ExecuteSwap, ValidateToken, ValidateSpend
  <2>3. r.pool \in PoolAddresses /\ a \notin PoolAddresses
    BY <1>1, SwapGains, AddressesDisjoint
  <2>4. v = r.vault /\ a = r.policy
    BY <2>1, <2>2, <2>3
  <2>5. /\ Gain(r.vault) = -r.amount /\ r.amount \in Nat
        /\ policies'[r.policy].spent - policies[r.policy].spent = r.amount
    BY <1>1, SwapGains
  <2>6. -Gain(r.vault) = r.amount
    BY ONLY <2>5
  <2> QED
    BY <2>2, <2>4, <2>5, <2>6 DEF Exists
<1>2. ASSUME NEW r \in RecoverRequests, NEW pl \in Placements, Recover(r, pl)
      PROVE  /\ Exists(a) /\ ~policies[a].active
             /\ \E d \in TokenAccounts :
                  /\ authority[d] = policies[a].owner /\ MintOf[d] = MintOf[v]
                  /\ Gain(d) = -Gain(v)
  <2>1. v = r.vault /\ a = r.policy
    BY <1>2, RecoverEffect
  <2> QED
    BY <1>2, <2>1, RecoverEffect
<1>3. CASE Environment
  BY <1>3, EnvironmentTakesNothing, AddressesDisjoint
<1> QED
  BY <1>1, <1>2, <1>3, LosingSteps

(* No token leaves a vault unaccounted for: an active policy has charged   *)
(* it, a revoked one hands it to its owner.                                *)
THEOREM VaultAccounted == Spec => VaultOutflow
<1> DEFINE Promise ==
      \A a \in PolicyAddresses, v \in TokenAccounts :
        authority[v] = a /\ Gain(v) < 0 =>
          /\ Exists(a)
          /\ IF policies[a].active
             THEN policies'[a].spent - policies[a].spent = -Gain(v)
             ELSE \E d \in TokenAccounts :
                    /\ authority[d] = policies[a].owner /\ MintOf[d] = MintOf[v]
                    /\ Gain(d) = -Gain(v)
<1>1. IInv /\ [Next]_vars => Promise
  BY VaultOutflowStep
<1>2. Spec => [][Promise]_vars
  <2> HIDE DEF Promise
  <2> QED
    BY <1>1, Invariance, PTL DEF Spec
<1> QED
  BY <1>2 DEF VaultOutflow

LEMMA PoolPriceStep ==
  ASSUME IInv, [Next]_vars, NEW q \in PoolAddresses, NEW t \in TokenAccounts,
         authority[t] = q, Gain(t) < 0
  PROVE  /\ pools[q] # NoAccount /\ MintOf[t] = pools[q].output_mint
         /\ \E u \in TokenAccounts :
              /\ authority[u] = q /\ MintOf[u] = pools[q].quote_mint
              /\ Gain(u) * pools[q].rate = -Gain(t)
<1>1. ASSUME NEW r \in SwapRequests, NEW pl \in Placements, ExecuteSwap(r, pl)
      PROVE  /\ pools[q] # NoAccount /\ MintOf[t] = pools[q].output_mint
             /\ \E u \in TokenAccounts :
                  /\ authority[u] = q /\ MintOf[u] = pools[q].quote_mint
                  /\ Gain(u) * pools[q].rate = -Gain(t)
  <2>1. /\ pools[r.pool] # NoAccount
        /\ authority[r.vault] = r.policy
        /\ authority[r.pool_output] = r.pool
        /\ MintOf[r.pool_output] = pools[r.pool].output_mint
        /\ authority[r.pool_quote] = r.pool
        /\ MintOf[r.pool_quote] = pools[r.pool].quote_mint
    BY <1>1 DEF ExecuteSwap, ValidateToken
  <2>2. t = r.pool_output /\ q = r.pool
    BY <1>1, <2>1, SwapGains, AddressesDisjoint
  <2>3. /\ r.pool_quote \in TokenAccounts
        /\ Gain(r.pool_quote) = r.amount
        /\ Gain(r.pool_output) = -(r.amount * pools[r.pool].rate)
        /\ r.amount \in Nat /\ pools[r.pool].rate \in Nat
    BY <1>1, SwapGains
  <2>4. Gain(r.pool_quote) * pools[r.pool].rate = -Gain(r.pool_output)
    <3> DEFINE product == r.amount * pools[r.pool].rate
    <3>1. product \in Nat
      BY ONLY <2>3, ProductType
    <3>2. Gain(r.pool_output) = -product /\ Gain(r.pool_quote) * pools[r.pool].rate = product
      BY <2>3
    <3> HIDE DEF product
    <3> QED
      BY ONLY <3>1, <3>2
  <2> QED
    BY <2>1, <2>2, <2>3, <2>4
<1>2. ASSUME NEW r \in RecoverRequests, NEW pl \in Placements, Recover(r, pl)
      PROVE  FALSE
  BY <1>2, RecoverEffect, AddressesDisjoint
<1>3. CASE Environment
  <2>1. q \in Pdas
    BY SwapPolicyAssumption DEF SwapPolicyAssumption, PoolArgType, PoolAddresses, Pdas
  <2> QED
    BY <1>3, <2>1, ChainAssumption, EnvironmentTakesNothing DEF ChainAssumption
<1> QED
  BY <1>1, <1>2, <1>3, LosingSteps

(* A pool sells at its own rate: whatever it loses is output, paid for in  *)
(* quote tokens in the same step.                                          *)
THEOREM PoolPaid == Spec => PoolPriceHonoured
<1> DEFINE Promise ==
      \A q \in PoolAddresses, t \in TokenAccounts :
        authority[t] = q /\ Gain(t) < 0 =>
          /\ pools[q] # NoAccount /\ MintOf[t] = pools[q].output_mint
          /\ \E u \in TokenAccounts :
               /\ authority[u] = q /\ MintOf[u] = pools[q].quote_mint
               /\ Gain(u) * pools[q].rate = -Gain(t)
<1>1. IInv /\ [Next]_vars => Promise
  BY PoolPriceStep
<1>2. Spec => [][Promise]_vars
  <2> HIDE DEF Promise
  <2> QED
    BY <1>1, Invariance, PTL DEF Spec
<1> QED
  BY <1>2 DEF PoolPriceHonoured

LEMMA FloorStep ==
  ASSUME IInv, [Next]_vars, NEW a \in PolicyAddresses, Exists(a),
         policies'[a].spent - policies[a].spent > 0
  PROVE  \E t \in TokenAccounts :
           /\ authority[t] \in Listed(policies[a].allowed_recipients)
           /\ MintOf[t] = pools[policies[a].pool].output_mint
           /\ Gain(t) >= (policies'[a].spent - policies[a].spent) * policies[a].min_rate
<1>0. policies[a] \in PolicyV2 /\ policies[a].spent \in Int
  <2>1. policies[a] \in PolicyV2
    BY DEF IInv, TypeOK, Exists
  <2> QED
    BY <2>1, MaxU64Assumption DEF PolicyV2
<1>1. policies'[a].spent # policies[a].spent
  BY <1>0
<1>2. ASSUME NEW c \in PolicyArgs, NEW pl \in Placements, CreatePolicy(c, pl)
      PROVE  FALSE
  BY <1>1, <1>2 DEF CreatePolicy, NewAccount, Exists, IInv, TypeOK
<1>3. ASSUME NEW owner \in Wallets, NEW b \in PolicyAddresses, NEW pl \in Placements,
             Revoke(owner, b, pl)
      PROVE  FALSE
  <2>1. policies'[a].spent = policies[a].spent
    BY <1>0, <1>3 DEF Revoke, IInv, TypeOK, PolicyV2
  <2> QED
    BY <1>1, <2>1
<1>4. ASSUME NEW r \in SwapRequests, NEW pl \in Placements, ExecuteSwap(r, pl)
      PROVE  \E t \in TokenAccounts :
               /\ authority[t] \in Listed(policies[a].allowed_recipients)
               /\ MintOf[t] = pools[policies[a].pool].output_mint
               /\ Gain(t) >= (policies'[a].spent - policies[a].spent) * policies[a].min_rate
  <2>1. a = r.policy
    BY <1>1, <1>4, SwapGains
  <2>2. /\ policies[a].pool = r.pool
        /\ authority[r.recipient] \in Listed(policies[a].allowed_recipients)
        /\ MintOf[r.recipient] = pools[r.pool].output_mint
        /\ r.min_output >= r.amount * policies[a].min_rate
        /\ r.amount * pools[r.pool].rate >= r.min_output
    BY <1>4, <2>1 DEF ExecuteSwap, ValidateToken, Priced
  <2>3. /\ r.recipient \in TokenAccounts
        /\ Gain(r.recipient) = r.amount * pools[r.pool].rate
        /\ policies'[a].spent - policies[a].spent = r.amount
        /\ r.amount \in Nat /\ pools[r.pool].rate \in Nat
    BY <1>4, <2>1, SwapGains
  <2>4. Gain(r.recipient) >= r.amount * policies[a].min_rate
    <3> DEFINE got == r.amount * pools[r.pool].rate
               floor == r.amount * policies[a].min_rate
    <3>1. policies[a].min_rate \in Nat /\ r.min_output \in Nat
      BY <1>0, MaxU64Assumption, SwapPolicyAssumption
      DEF PolicyV2, SwapPolicyAssumption, SwapRequestType
    <3>2. got \in Nat /\ floor \in Nat
      BY ONLY <2>3, <3>1, ProductType
    <3>3. r.min_output >= floor /\ got >= r.min_output /\ Gain(r.recipient) = got
      BY <2>2, <2>3
    <3> HIDE DEF got, floor
    <3>4. Gain(r.recipient) >= floor
      BY ONLY <3>1, <3>2, <3>3
    <3> QED
      BY ONLY <3>4 DEF floor
  <2> QED
    BY <2>2, <2>3, <2>4
<1>5. CASE policies' = policies
  BY <1>1, <1>5
<1> QED
  BY <1>2, <1>3, <1>4, <1>5 DEF Next, CreatePool, Recover, Environment, vars

(* The owner's floor: whenever a policy is charged, an allowed recipient   *)
(* gains at least its minimum rate in output tokens.                       *)
THEOREM FloorKept == Spec => FloorHonoured
<1> DEFINE Promise ==
      \A a \in PolicyAddresses : Exists(a) =>
        LET p == policies[a]
            cost == policies'[a].spent - p.spent
        IN cost > 0 =>
             \E t \in TokenAccounts :
               /\ authority[t] \in Listed(p.allowed_recipients)
               /\ MintOf[t] = pools[p.pool].output_mint
               /\ Gain(t) >= cost * p.min_rate
<1>1. IInv /\ [Next]_vars => Promise
  BY FloorStep
<1>2. Spec => [][Promise]_vars
  <2> HIDE DEF Promise
  <2> QED
    BY <1>1, Invariance, PTL DEF Spec
<1> QED
  BY <1>2 DEF FloorHonoured

----------------------------------------------------------------------------
(* The owner's way out.  Three things keep it open: a policy stays at the  *)
(* address its seeds derive, the pool that it names stays there, and there *)
(* are never too many tokens of a mint for one account.                    *)

Addressed ==
  \A a \in PolicyAddresses : Exists(a) =>
    /\ a = PolicyPda(policies[a].owner, policies[a].agent)
    /\ policies[a].pool \in PoolAddresses /\ pools[policies[a].pool] # NoAccount

ExitInv == TypeOK /\ Addressed /\ Supplied(balance)

LEMMA AddressedNext == TypeOK /\ Addressed /\ [Next]_vars => Addressed'
<1> SUFFICES ASSUME TypeOK, Addressed, [Next]_vars PROVE Addressed'
  OBVIOUS
<1>1. ASSUME NEW c \in PoolArgs, NEW pl \in Placements, CreatePool(c, pl)
      PROVE  Addressed'
  <2>1. c # NoAccount
    BY SwapPolicyAssumption, NoAccountAssumption DEF SwapPolicyAssumption, PoolArgType, Pool
  <2>2. /\ policies' = policies
        /\ \A q \in PoolAddresses : pools[q] # NoAccount => pools'[q] # NoAccount
    BY <1>1, <2>1 DEF CreatePool, TypeOK
  <2> QED
    BY <2>2 DEF Addressed, Exists
<1>2. ASSUME NEW c \in PolicyArgs, NEW pl \in Placements, CreatePolicy(c, pl)
      PROVE  Addressed'
  <2> DEFINE a == PolicyPda(c.owner, c.agent)
  <2>1. a \in PolicyAddresses /\ c.pool \in PoolAddresses
    BY PdaTypes
  <2>2. /\ policies'[a].owner = c.owner /\ policies'[a].agent = c.agent
        /\ policies'[a].pool = c.pool
        /\ \A b \in PolicyAddresses : b # a => policies'[b] = policies[b]
        /\ pools' = pools /\ pools[c.pool] # NoAccount
    BY <1>2, <2>1 DEF CreatePolicy, TypeOK
  <2> HIDE DEF a
  <2>3. a = PolicyPda(c.owner, c.agent)
    BY DEF a
  <2> QED
    BY <2>1, <2>2, <2>3 DEF Addressed, Exists
<1>3. ASSUME NEW b \in PolicyAddresses, Exists(b), pools' = pools,
             \A a \in PolicyAddresses : a # b => policies'[a] = policies[a],
             policies'[b].owner = policies[b].owner, policies'[b].agent = policies[b].agent,
             policies'[b].pool = policies[b].pool
      PROVE  Addressed'
  BY <1>3 DEF Addressed, Exists
<1>4. ASSUME NEW owner \in Wallets, NEW a \in PolicyAddresses, NEW pl \in Placements,
             Revoke(owner, a, pl)
      PROVE  Addressed'
  <2>1. policies[a] \in PolicyV2 /\ Exists(a)
    BY <1>4 DEF Revoke, CanRevoke, TypeOK, Exists
  <2>2. /\ policies'[a].owner = policies[a].owner /\ policies'[a].agent = policies[a].agent
        /\ policies'[a].pool = policies[a].pool /\ pools' = pools
        /\ \A b \in PolicyAddresses : b # a => policies'[b] = policies[b]
    BY <1>4, <2>1 DEF Revoke, TypeOK, PolicyV2
  <2> QED
    BY <1>3, <2>1, <2>2
<1>5. ASSUME NEW r \in SwapRequests, NEW pl \in Placements, ExecuteSwap(r, pl)
      PROVE  Addressed'
  <2> DEFINE p == policies[r.policy]
  <2>1. r.policy \in PolicyAddresses
    BY SwapPolicyAssumption DEF SwapPolicyAssumption, SwapRequestType
  <2>2. p \in PolicyV2 /\ Exists(r.policy)
    BY <1>5, <2>1 DEF ExecuteSwap, TypeOK, Exists
  <2>3. /\ policies'[r.policy].owner = p.owner /\ policies'[r.policy].agent = p.agent
        /\ policies'[r.policy].pool = p.pool /\ pools' = pools
        /\ \A b \in PolicyAddresses : b # r.policy => policies'[b] = policies[b]
    BY <1>5, <2>1, <2>2 DEF ExecuteSwap, TypeOK, PolicyV2
  <2> QED
    BY <1>3, <2>1, <2>2, <2>3
<1>6. CASE UNCHANGED <<policies, pools>>
  BY <1>6 DEF Addressed, Exists
<1> QED
  BY <1>1, <1>2, <1>4, <1>5, <1>6 DEF Next, Recover, Environment, vars

(* A swap is two transfers, a recovery one; nothing else but the wallets'  *)
(* own transfers touches a balance.                                        *)
LEMMA SuppliedNext == TypeOK /\ Supplied(balance) /\ [Next]_vars => Supplied(balance)'
<1> SUFFICES ASSUME TypeOK, Supplied(balance), [Next]_vars PROVE Supplied(balance')
  BY DEF Supplied, Counts
<1>0. balance \in [TokenAccounts -> U64Range]
  BY DEF TypeOK, ChainTypeOK
<1>1. ASSUME NEW r \in SwapRequests, NEW pl \in Placements, ExecuteSwap(r, pl)
      PROVE  Supplied(balance')
  <2>1. /\ r.pool \in PoolAddresses /\ r.amount \in U64Range
        /\ r.vault \in TokenAccounts /\ r.pool_quote \in TokenAccounts
        /\ r.pool_output \in TokenAccounts /\ r.recipient \in TokenAccounts
    BY SwapPolicyAssumption DEF SwapPolicyAssumption, SwapRequestType
  <2>2. PICK output, paid : /\ output = r.amount * pools[r.pool].rate
                            /\ paid = AfterTransfer(balance, r.vault, r.pool_quote, r.amount)
    OBVIOUS
  <2>3. /\ output <= MaxU64 /\ pools[r.pool] \in Pool
        /\ CanTransfer(balance, r.policy, r.vault, r.pool_quote, r.amount)
        /\ CanTransfer(paid, r.pool, r.pool_output, r.recipient, output)
        /\ balance' = AfterTransfer(paid, r.pool_output, r.recipient, output)
    BY <1>1, <2>1, <2>2 DEF ExecuteSwap, Priced, TypeOK
  <2>4. output \in U64Range
    <3>1. r.amount \in Nat /\ pools[r.pool].rate \in Nat
      BY <2>1, <2>3, MaxU64Assumption DEF Pool
    <3>2. output \in Nat
      BY ONLY <2>2, <3>1, ProductType
    <3> QED
      BY ONLY <2>3, <3>2, MaxU64Assumption
  <2>5. paid \in [TokenAccounts -> U64Range]
    BY <1>0, <2>1, <2>2, <2>3, AfterTransferType
  <2>6. Supplied(paid)
    BY <1>0, <2>1, <2>2, <2>3, TransferSupplied
  <2> QED
    BY <2>1, <2>3, <2>4, <2>5, <2>6, TransferSupplied
<1>2. ASSUME NEW r \in RecoverRequests, NEW pl \in Placements, Recover(r, pl)
      PROVE  Supplied(balance')
  <2>1. r.vault \in TokenAccounts /\ r.destination \in TokenAccounts /\ r.amount \in U64Range
    BY SwapPolicyAssumption DEF SwapPolicyAssumption, RecoverRequestType
  <2>2. /\ CanTransfer(balance, r.policy, r.vault, r.destination, r.amount)
        /\ balance' = AfterTransfer(balance, r.vault, r.destination, r.amount)
    BY <1>2 DEF Recover, CanRecover
  <2> QED
    BY <1>0, <2>1, <2>2, TransferSupplied
<1>3. CASE Environment
  BY <1>3, EnvironmentSupplied DEF Environment, TypeOK
<1>4. CASE UNCHANGED balance
  BY <1>4
<1> QED
  BY <1>1, <1>2, <1>3, <1>4 DEF Next, CreatePool, CreatePolicy, Revoke, vars

LEMMA ExitInvInit == Supplied(InitialBalance) /\ Init => ExitInv
  BY TypeInit DEF Init, ChainInit, ExitInv, Addressed, Exists

LEMMA ExitInvNext == ExitInv /\ [Next]_vars => ExitInv'
  BY TypeNext, AddressedNext, SuppliedNext DEF ExitInv

LEMMA ExitInvImplies == ExitInv => OwnerCanExit
<1> SUFFICES ASSUME ExitInv, NEW a \in PolicyAddresses, Exists(a)
             PROVE  LET p == policies[a] IN
                    /\ Follows(Alone)
                    /\ IF p.active
                       THEN CanRevoke(p.owner, a)
                       ELSE \A v, d \in TokenAccounts :
                              /\ authority[v] = a /\ authority[d] = p.owner
                              /\ plain[v] /\ plain[d]
                              /\ MintOf[v] = pools[p.pool].quote_mint /\ MintOf[d] = MintOf[v]
                              => CanRecover([owner |-> p.owner, policy |-> a,
                                             pool |-> p.pool, vault |-> v,
                                             destination |-> d, amount |-> balance[v]])
  BY DEF OwnerCanExit
<1>1. PICK p : p = policies[a]
  OBVIOUS
<1>2. /\ p \in PolicyV2 /\ p # NoAccount /\ p.version = POLICY_VERSION
      /\ a = PolicyPda(p.owner, p.agent) /\ pools[p.pool] # NoAccount
  BY <1>1 DEF ExitInv, TypeOK, Addressed, Exists, PolicyV2
<1>3. Follows(Alone)
  BY DEF Follows, Alone
<1>4. Manageable(p, a, p.owner)
  BY <1>2 DEF Manageable
<1>5. CASE p.active
  <2>1. CanRevoke(p.owner, a)
    BY <1>1, <1>2, <1>4, <1>5 DEF CanRevoke
  <2> QED
    BY <1>1, <1>3, <1>5, <2>1
<1>6. CASE ~p.active
  <2>1. ASSUME NEW v \in TokenAccounts, NEW d \in TokenAccounts,
               authority[v] = a, authority[d] = p.owner, plain[v], plain[d],
               MintOf[v] = pools[p.pool].quote_mint, MintOf[d] = MintOf[v]
        PROVE  CanRecover([owner |-> p.owner, policy |-> a, pool |-> p.pool, vault |-> v,
                           destination |-> d, amount |-> balance[v]])
    <3>1. PICK r : r = [owner |-> p.owner, policy |-> a, pool |-> p.pool, vault |-> v,
                        destination |-> d, amount |-> balance[v]]
      OBVIOUS
    <3>2. v = d \/ Fits(balance[d] + balance[v])
      BY <2>1, SuppliedFits DEF ExitInv, TypeOK, SupplyFits
    <3>3. CanTransfer(balance, a, v, d, balance[v])
      <4>1. balance[v] \in Int
        BY MaxU64Assumption DEF ExitInv, TypeOK, ChainTypeOK
      <4> QED
        BY <2>1, <3>2, <4>1 DEF CanTransfer
    <3>4. Recoverable(p, pools[p.pool], r)
      BY <1>6, <2>1, <3>1 DEF Recoverable, ValidateToken
    <3> QED
      BY <1>1, <1>2, <1>4, <3>1, <3>3, <3>4 DEF CanRecover
  <2> QED
    BY <1>1, <1>3, <1>6, <2>1
<1> QED
  BY <1>5, <1>6

(* If the tokens there are at first fit in a u64, mint by mint, an owner   *)
(* can leave in every state: no sequence of instructions, transfers,       *)
(* changes of authority and time takes an account where revoke or recover  *)
(* would be turned down for its address, its pool, its version or a        *)
(* transfer that overflows.                                                *)
THEOREM ExitHeld == Supplied(InitialBalance) /\ Spec => []OwnerCanExit
<1> QED
  BY ExitInvInit, ExitInvNext, ExitInvImplies, PTL DEF Spec
=============================================================================
