---------------------------- MODULE PolicyLemmas ----------------------------
(***************************************************************************)
(* Facts that the proofs about both kinds of policy rest on: what a token  *)
(* transfer and the wallets' own transactions do to balances, and when two *)
(* records of a mandate are equal; and that all tokens of a mint together  *)
(* remain a u64.                                                           *)
(***************************************************************************)
EXTENDS Chain, FiniteSetTheorems, TLAPS

USE DEF Fits, U64Range

----------------------------------------------------------------------------
(* Types of the values that transfers and placements compute.              *)

(* A transfer that the token program allows leaves every balance a u64.    *)
LEMMA AfterTransferType ==
  ASSUME NEW b \in [TokenAccounts -> U64Range], NEW signer,
         NEW from \in TokenAccounts, NEW to \in TokenAccounts, NEW amount \in U64Range,
         CanTransfer(b, signer, from, to, amount)
  PROVE  AfterTransfer(b, from, to, amount) \in [TokenAccounts -> U64Range]
  BY MaxU64Assumption DEF CanTransfer, AfterTransfer

(* A placed instruction leaves tx a placement.                             *)
LEMMA PlaceType ==
  ASSUME NEW pl \in Placements, Place(pl)
  PROVE  tx' \in Placement
  BY ChainAssumption DEF Place, ChainAssumption

LEMMA AloneType == Alone \in Placement
  BY DEF Alone, Placement

LEMMA TypeChainInit == ChainInit => ChainTypeOK
  BY ChainAssumption, AloneType DEF ChainInit, ChainTypeOK, ChainAssumption

(* The transactions that wallets send on their own, and the clock.         *)
LEMMA TypeEnvironment ==
  ASSUME ChainTypeOK, ChainNext
  PROVE  ChainTypeOK'
<1> USE DEF ChainTypeOK
<1>1. CASE \E pair \in Transfers, amount \in Amounts : WalletTransfer(pair[1], pair[2], amount)
  <2>1. PICK pair \in Transfers, amount \in Amounts : WalletTransfer(pair[1], pair[2], amount)
    BY <1>1
  <2>2. pair[1] \in TokenAccounts /\ pair[2] \in TokenAccounts /\ amount \in U64Range
    BY ChainAssumption DEF ChainAssumption
  <2>3. balance' \in [TokenAccounts -> U64Range]
    BY <2>1, <2>2, AfterTransferType DEF WalletTransfer
  <2> QED
    BY <2>1, <2>3, AloneType DEF WalletTransfer
<1>2. CASE \E pair \in HandOvers : SetAuthority(pair[1], pair[2])
  <2>1. PICK pair \in HandOvers : SetAuthority(pair[1], pair[2])
    BY <1>2
  <2>2. pair[1] \in TokenAccounts /\ pair[2] \in Addresses
    BY ChainAssumption DEF ChainAssumption
  <2> QED
    BY <2>1, <2>2, AloneType DEF SetAuthority
<1>3. CASE \E t \in Encumbrances : Encumber(t)
  BY <1>3, AloneType DEF Encumber
<1>4. CASE Tick
  BY <1>4, AloneType, ChainAssumption DEF Tick, ChainAssumption
<1> QED
  BY <1>1, <1>2, <1>3, <1>4 DEF ChainNext

----------------------------------------------------------------------------
(* What moves.                                                             *)

(* A transfer moves the amount from its source to its target, and touches  *)
(* no other account.                                                       *)
LEMMA TransferEffect ==
  ASSUME NEW b \in [TokenAccounts -> U64Range],
         NEW from \in TokenAccounts, NEW to \in TokenAccounts, NEW amount \in U64Range
  PROVE  LET after == AfterTransfer(b, from, to, amount) IN
         /\ \A t \in TokenAccounts : t # from => after[t] >= b[t]
         /\ \A t \in TokenAccounts : t # from /\ t # to => after[t] = b[t]
         /\ from # to => after[from] = b[from] - amount /\ after[to] = b[to] + amount
<1>1. \A t \in TokenAccounts : b[t] \in Int
  BY MaxU64Assumption
<1>2. amount \in Nat
  BY MaxU64Assumption
<1>3. CASE from = to
  BY <1>1, <1>3 DEF AfterTransfer
<1>4. CASE from # to
  <2>1. AfterTransfer(b, from, to, amount) =
          [b EXCEPT ![from] = b[from] - amount, ![to] = b[to] + amount]
    BY <1>4 DEF AfterTransfer
  <2>2. \A t \in TokenAccounts :
          AfterTransfer(b, from, to, amount)[t] =
            IF t = from THEN b[t] - amount ELSE IF t = to THEN b[t] + amount ELSE b[t]
    BY <1>4, <2>1
  <2> QED
    BY <1>1, <1>2, <1>4, <2>2
<1> QED
  BY <1>3, <1>4

(* Wallets move only their own tokens, and hand over only their accounts:  *)
(* an address no wallet signs for never loses by it.                       *)
LEMMA EnvironmentKeeps ==
  ASSUME ChainTypeOK, ChainNext, NEW a, a \notin Wallets
  PROVE  \A t \in TokenAccounts : HeldBy(a)'[t] >= HeldBy(a)[t]
<1>0. /\ balance \in [TokenAccounts -> U64Range]
      /\ \A t \in TokenAccounts : balance[t] \in Int /\ balance[t] >= 0
  BY MaxU64Assumption DEF ChainTypeOK
<1>1. ASSUME NEW pair \in Transfers, NEW amount \in Amounts,
             WalletTransfer(pair[1], pair[2], amount)
      PROVE  \A t \in TokenAccounts : HeldBy(a)'[t] >= HeldBy(a)[t]
  <2>1. pair[1] \in TokenAccounts /\ pair[2] \in TokenAccounts /\ amount \in U64Range
    BY ChainAssumption DEF ChainAssumption
  <2>2. \A t \in TokenAccounts : t # pair[1] => balance'[t] >= balance[t]
    BY <1>0, <1>1, <2>1, TransferEffect DEF WalletTransfer
  <2>3. authority' = authority /\ authority[pair[1]] # a
    BY <1>1 DEF WalletTransfer
  <2> QED
    BY <2>2, <2>3 DEF HeldBy
<1>2. ASSUME NEW pair \in HandOvers, SetAuthority(pair[1], pair[2])
      PROVE  \A t \in TokenAccounts : HeldBy(a)'[t] >= HeldBy(a)[t]
  <2>1. pair[1] \in TokenAccounts
    BY ChainAssumption DEF ChainAssumption
  <2>2. /\ balance' = balance /\ authority[pair[1]] # a
        /\ \A t \in TokenAccounts : t # pair[1] => authority'[t] = authority[t]
    BY <1>2, <2>1 DEF SetAuthority, ChainTypeOK
  <2> QED
    BY <1>0, <2>2 DEF HeldBy
<1>3. ASSUME UNCHANGED <<balance, authority>>
      PROVE  \A t \in TokenAccounts : HeldBy(a)'[t] >= HeldBy(a)[t]
  BY <1>0, <1>3 DEF HeldBy
<1> QED
  BY <1>1, <1>2, <1>3 DEF ChainNext, Encumber, Tick

----------------------------------------------------------------------------
(* How many tokens there are.                                              *)

(* The token program counts the tokens of a mint in a u64: any two of its  *)
(* accounts could be emptied into one.                                     *)
SupplyFits ==
  \A t, u \in TokenAccounts :
    t # u /\ MintOf[t] = MintOf[u] => Fits(balance[t] + balance[u])

(* Of each mint there are at most MaxU64 tokens, and each is in one        *)
(* account at most, its home.                                              *)
Counts(b, m, home) ==
  \A t \in TokenAccounts :
    MintOf[t] = m => b[t] = Cardinality({ u \in 1 .. MaxU64 : home[u] = t })

Supplied(b) == \A m \in Mints : \E home : Counts(b, m, home)

LEMMA SomeOf ==
  ASSUME NEW S, IsFiniteSet(S), NEW k \in Nat, k <= Cardinality(S)
  PROVE  \E T \in SUBSET S : IsFiniteSet(T) /\ Cardinality(T) = k
<1>1. PICK n \in Nat : n = Cardinality(S) /\ k <= n
  BY FS_CardinalityType
<1>2. PICK f \in Bijection(1 .. n, S) : TRUE
  BY <1>1, FS_CardinalityType DEF ExistsBijection
<1>3. /\ \A i \in 1 .. n : f[i] \in S
      /\ \A i, j \in 1 .. n : f[i] = f[j] => i = j
  BY <1>2 DEF Bijection, Injection, IsInjective
<1>4. PICK T : T = { f[i] : i \in 1 .. k }
  OBVIOUS
<1>5. T \in SUBSET S
  BY <1>1, <1>3, <1>4
<1>6. PICK g : g = [i \in 1 .. k |-> f[i]]
  OBVIOUS
<1>7. g \in Bijection(1 .. k, T)
  <2>1. g \in [1 .. k -> T] /\ \A z \in T : \E i \in 1 .. k : g[i] = z
    BY <1>4, <1>6
  <2>2. \A i, j \in 1 .. k : g[i] = g[j] => i = j
    BY <1>1, <1>3, <1>6
  <2> QED
    BY <2>1, <2>2 DEF Bijection, Injection, IsInjective, Surjection
<1>8. IsFiniteSet(1 .. k) /\ Cardinality(1 .. k) = k
  BY FS_Interval, 1 \in Int
<1>9. IsFiniteSet(T) /\ Cardinality(T) = k
  BY <1>7, <1>8, FS_Bijection DEF ExistsBijection
<1> QED
  BY <1>5, <1>9

LEMMA DisjointSum ==
  ASSUME NEW S, NEW T, IsFiniteSet(S), IsFiniteSet(T), S \cap T = {}
  PROVE  /\ Cardinality(S \cup T) = Cardinality(S) + Cardinality(T)
         /\ IsFiniteSet(S \cup T)
<1>1. /\ Cardinality(S \cup T) = Cardinality(S) + Cardinality(T) - Cardinality(S \cap T)
      /\ IsFiniteSet(S \cup T)
  BY FS_Union
<1>2. Cardinality(S \cap T) = 0
  BY FS_EmptySet
<1>3. Cardinality(S) \in Nat /\ Cardinality(T) \in Nat
  BY FS_CardinalityType
<1> QED
  BY ONLY <1>1, <1>2, <1>3

LEMMA TokensFinite ==
  ASSUME NEW home, NEW t
  PROVE  IsFiniteSet({ u \in 1 .. MaxU64 : home[u] = t })
<1>1. IsFiniteSet(1 .. MaxU64)
  BY FS_Interval, MaxU64Assumption, 1 \in Int
<1> QED
  BY <1>1, FS_Subset

(* A transfer takes tokens from one account to another.                    *)
LEMMA TransferSupplied ==
  ASSUME NEW b \in [TokenAccounts -> U64Range], NEW signer,
         NEW from \in TokenAccounts, NEW to \in TokenAccounts, NEW amount \in U64Range,
         CanTransfer(b, signer, from, to, amount), Supplied(b)
  PROVE  Supplied(AfterTransfer(b, from, to, amount))
<1>1. CASE from = to
  BY <1>1 DEF AfterTransfer
<1>2. CASE from # to
  <2>1. PICK c : c = AfterTransfer(b, from, to, amount)
    OBVIOUS
  <2>2. /\ \A t \in TokenAccounts : t # from /\ t # to => c[t] = b[t]
        /\ c[from] = b[from] - amount /\ c[to] = b[to] + amount
    BY <1>2, <2>1, TransferEffect
  <2>3. MintOf[from] = MintOf[to] /\ amount <= b[from] /\ amount \in Nat
    BY MaxU64Assumption DEF CanTransfer
  <2>4. ASSUME NEW m \in Mints
        PROVE  \E home : Counts(c, m, home)
    <3>1. PICK home : Counts(b, m, home)
      BY DEF Supplied
    <3>2. CASE m # MintOf[from]
      <4>1. Counts(c, m, home)
        BY <2>2, <2>3, <3>1, <3>2 DEF Counts
      <4> QED
        BY <4>1
    <3>3. CASE m = MintOf[from]
      <4>1. PICK F, G : /\ F = { u \in 1 .. MaxU64 : home[u] = from }
                        /\ G = { u \in 1 .. MaxU64 : home[u] = to }
        OBVIOUS
      <4>2. /\ IsFiniteSet(F) /\ IsFiniteSet(G) /\ F \cap G = {}
            /\ b[from] = Cardinality(F) /\ b[to] = Cardinality(G)
        BY <1>2, <2>3, <3>1, <3>3, <4>1, TokensFinite DEF Counts
      <4>3. PICK S \in SUBSET F : IsFiniteSet(S) /\ Cardinality(S) = amount
        BY <2>3, <4>2, SomeOf
      <4>4. PICK moved : moved = [u \in 1 .. MaxU64 |-> IF u \in S THEN to ELSE home[u]]
        OBVIOUS
      <4>5. { u \in 1 .. MaxU64 : moved[u] = from } = F \ S
        BY <1>2, <4>1, <4>3, <4>4
      <4>6. { u \in 1 .. MaxU64 : moved[u] = to } = G \cup S
        BY <1>2, <4>1, <4>3, <4>4
      <4>7. \A t : t # from /\ t # to =>
              { u \in 1 .. MaxU64 : moved[u] = t } = { u \in 1 .. MaxU64 : home[u] = t }
        BY <4>1, <4>3, <4>4
      <4>8. c[from] = Cardinality(F \ S)
        <5>1. F \cap S = S
          BY <4>3
        <5>2. Cardinality(F \ S) = Cardinality(F) - Cardinality(F \cap S)
          BY <4>2, FS_Difference
        <5> QED
          BY <2>2, <4>2, <4>3, <5>1, <5>2
      <4>9. c[to] = Cardinality(G \cup S)
        <5>1. G \cap S = {}
          BY <4>2, <4>3
        <5>2. Cardinality(G \cup S) = Cardinality(G) + Cardinality(S)
          BY <4>2, <4>3, <5>1, DisjointSum
        <5> QED
          BY ONLY <2>2, <4>2, <4>3, <5>2
      <4>10. Counts(c, m, moved)
        <5> SUFFICES ASSUME NEW t \in TokenAccounts, MintOf[t] = m
                     PROVE  c[t] = Cardinality({ u \in 1 .. MaxU64 : moved[u] = t })
          BY DEF Counts
        <5>1. CASE t = from
          BY <4>5, <4>8, <5>1
        <5>2. CASE t = to
          BY <4>6, <4>9, <5>2
        <5>3. CASE t # from /\ t # to
          BY <2>2, <3>1, <4>7, <5>3 DEF Counts
        <5> QED
          BY <5>1, <5>2, <5>3
      <4> QED
        BY <4>10
    <3> QED
      BY <3>2, <3>3
  <2> QED
    BY <2>1, <2>4 DEF Supplied
<1> QED
  BY <1>1, <1>2

LEMMA SuppliedFits ==
  ASSUME ChainTypeOK, Supplied(balance)
  PROVE  SupplyFits
<1> SUFFICES ASSUME NEW t \in TokenAccounts, NEW u \in TokenAccounts,
                    t # u, MintOf[t] = MintOf[u]
             PROVE  balance[t] + balance[u] <= MaxU64
  BY DEF SupplyFits
<1>1. MintOf[t] \in Mints
  BY ChainAssumption DEF ChainAssumption
<1>2. PICK home : Counts(balance, MintOf[t], home)
  BY <1>1 DEF Supplied
<1>3. PICK T, U : /\ T = { n \in 1 .. MaxU64 : home[n] = t }
                  /\ U = { n \in 1 .. MaxU64 : home[n] = u }
  OBVIOUS
<1>4. /\ IsFiniteSet(T) /\ IsFiniteSet(U) /\ T \cap U = {} /\ T \cup U \subseteq 1 .. MaxU64
      /\ balance[t] = Cardinality(T) /\ balance[u] = Cardinality(U)
  BY <1>2, <1>3, TokensFinite DEF Counts
<1>5. IsFiniteSet(1 .. MaxU64) /\ Cardinality(1 .. MaxU64) = MaxU64
  BY FS_Interval, MaxU64Assumption, 1 \in Int
<1>6. Cardinality(T \cup U) = Cardinality(T) + Cardinality(U)
  BY <1>4, DisjointSum
<1>7. Cardinality(T \cup U) <= Cardinality(1 .. MaxU64)
  BY <1>4, <1>5, FS_Subset
<1> QED
  BY ONLY <1>4, <1>5, <1>6, <1>7

(* Wallets only transfer.                                                  *)
LEMMA EnvironmentSupplied ==
  ASSUME ChainTypeOK, ChainNext, Supplied(balance)
  PROVE  Supplied(balance')
<1>1. ASSUME NEW pair \in Transfers, NEW amount \in Amounts,
             WalletTransfer(pair[1], pair[2], amount)
      PROVE  Supplied(balance')
  <2>1. pair[1] \in TokenAccounts /\ pair[2] \in TokenAccounts /\ amount \in U64Range
    BY ChainAssumption DEF ChainAssumption
  <2>2. Supplied(AfterTransfer(balance, pair[1], pair[2], amount))
    BY <1>1, <2>1, TransferSupplied DEF WalletTransfer, ChainTypeOK
  <2> QED
    BY <1>1, <2>2 DEF WalletTransfer
<1>2. CASE UNCHANGED balance
  BY <1>2
<1> QED
  BY <1>1, <1>2 DEF ChainNext, SetAuthority, Encumber, Tick

----------------------------------------------------------------------------
(* Records of a mandate that is open or revoked.                           *)

MandateRecord ==
  [phase: {"active", "revoked"}, cap: Int, limit: Int, deadline: Int, spent: Int, nonce: Int]

LEMMA MandateRecordsEqual ==
  ASSUME NEW x \in MandateRecord, NEW y \in MandateRecord,
         x.phase = y.phase, x.cap = y.cap, x.limit = y.limit,
         x.deadline = y.deadline, x.spent = y.spent, x.nonce = y.nonce
  PROVE  x = y
  BY DEF MandateRecord

CountedMandate(m, s, n) == [m EXCEPT !.spent = s, !.nonce = n]

(* A record with the terms of m and two other counters is m counted.       *)
LEMMA MandateCounted ==
  ASSUME NEW m \in MandateRecord, NEW q \in MandateRecord, NEW s \in Int, NEW n \in Int,
         q.phase = m.phase, q.cap = m.cap, q.limit = m.limit, q.deadline = m.deadline,
         q.spent = s, q.nonce = n
  PROVE  q = CountedMandate(m, s, n)
<1> DEFINE x == CountedMandate(m, s, n)
<1>1. /\ x \in MandateRecord
      /\ x.phase = q.phase /\ x.cap = q.cap /\ x.limit = q.limit
      /\ x.deadline = q.deadline /\ x.spent = q.spent /\ x.nonce = q.nonce
  BY DEF MandateRecord, CountedMandate
<1> HIDE DEF x
<1> QED
  BY <1>1, MandateRecordsEqual DEF x

----------------------------------------------------------------------------
(* The log of a policy.  Both kinds of policy emit one event when they are *)
(* created, one for each charge (of kind "charge" here) and one for each   *)
(* revocation.                                                             *)

(* What such a log says of a policy with this cap and deadline.            *)
Reconciled(charge, log, cap, deadline, nonce, spent, active) ==
  LET SpentAt(i) == IF log[i].kind = charge THEN log[i].spent ELSE 0 IN
  /\ Len(log) > 0
  /\ \A i \in DOMAIN log : log[i].kind = "PolicyCreated" <=> i = 1
  /\ \A i \in DOMAIN log : log[i].kind = charge =>
       /\ i > 1 /\ log[i - 1].kind # "Revoked"
       /\ log[i].nonce = i - 2
       /\ log[i].spent = SpentAt(i - 1) + log[i].amount
       /\ 0 < log[i].amount /\ log[i].amount <= cap
       /\ log[i].at < deadline
  /\ active <=> log[Len(log)].kind # "Revoked"
  /\ \E n \in DOMAIN log :
       /\ nonce = n - 1 /\ spent = SpentAt(n)
       /\ \A i \in DOMAIN log : log[i].kind = "Revoked" <=> i > n

ChargeKinds == {"Executed", "RouteExecuted"}

(* The log of a policy that has just been created.                         *)
LEMMA LogOpened ==
  ASSUME NEW charge \in ChargeKinds, NEW cap, NEW deadline,
         NEW event, event.kind = "PolicyCreated"
  PROVE  Reconciled(charge, Append(<<>>, event), cap, deadline, 0, 0, TRUE)
<1> DEFINE after == Append(<<>>, event)
<1>1. after = <<event>>
  OBVIOUS
<1>2. Len(after) = 1 /\ DOMAIN after = {1} /\ after[1] = event
  BY <1>1
<1> HIDE DEF after
<1>3. Reconciled(charge, after, cap, deadline, 0, 0, TRUE)
  BY <1>2 DEF Reconciled, ChargeKinds
<1> QED
  BY <1>3 DEF after

(* Appending to a log leaves what was there.                               *)
LEMMA LogAppended ==
  ASSUME NEW S, NEW log \in Seq(S), NEW event \in S
  PROVE  LET after == Append(log, event) IN
         /\ Len(log) \in Nat /\ Len(after) = Len(log) + 1
         /\ DOMAIN log = 1 .. Len(log) /\ DOMAIN after = 1 .. Len(log) + 1
         /\ \A i \in 1 .. Len(log) : after[i] = log[i]
         /\ after[Len(log) + 1] = event
  OBVIOUS

(* A revocation, of an active policy or of a revoked one, ends the log and *)
(* leaves the counters.                                                    *)
LEMMA LogRevoked ==
  ASSUME NEW charge \in ChargeKinds, NEW cap, NEW deadline, NEW nonce, NEW spent,
         NEW active, NEW S, NEW log \in Seq(S),
         Reconciled(charge, log, cap, deadline, nonce, spent, active),
         NEW event \in S, event.kind = "Revoked"
  PROVE  Reconciled(charge, Append(log, event), cap, deadline, nonce, spent, FALSE)
<1> DEFINE after == Append(log, event)
           length == Len(log)
<1>1. /\ length \in Nat /\ Len(after) = length + 1
      /\ DOMAIN log = 1 .. length /\ DOMAIN after = 1 .. length + 1
      /\ \A i \in 1 .. length : after[i] = log[i]
      /\ after[length + 1] = event
  BY LogAppended
<1>2. length > 0
  BY DEF Reconciled
<1>3. PICK n \in 1 .. length :
        /\ nonce = n - 1 /\ spent = IF log[n].kind = charge THEN log[n].spent ELSE 0
        /\ \A i \in 1 .. length : log[i].kind = "Revoked" <=> i > n
  BY <1>1 DEF Reconciled
<1>4. /\ \A i \in 1 .. length : log[i].kind = "PolicyCreated" <=> i = 1
      /\ \A i \in 1 .. length : log[i].kind = charge =>
           /\ i > 1 /\ log[i - 1].kind # "Revoked"
           /\ log[i].nonce = i - 2
           /\ log[i].spent = (IF log[i - 1].kind = charge THEN log[i - 1].spent ELSE 0)
                               + log[i].amount
           /\ 0 < log[i].amount /\ log[i].amount <= cap
           /\ log[i].at < deadline
  BY <1>1 DEF Reconciled
<1>5. charge # "Revoked"
  BY DEF ChargeKinds
<1> HIDE DEF after, length
<1>6. \A i \in 1 .. length + 1 : after[i].kind = "PolicyCreated" <=> i = 1
  BY <1>1, <1>2, <1>4
<1>7. ASSUME NEW i \in 1 .. length + 1, after[i].kind = charge
      PROVE  /\ i > 1 /\ after[i - 1].kind # "Revoked"
             /\ after[i].nonce = i - 2
             /\ after[i].spent = (IF after[i - 1].kind = charge THEN after[i - 1].spent ELSE 0)
                                   + after[i].amount
             /\ 0 < after[i].amount /\ after[i].amount <= cap
             /\ after[i].at < deadline
  <2>1. i \in 1 .. length /\ i # length + 1
    BY <1>1, <1>5, <1>7
  <2>2. log[i].kind = charge /\ i > 1
    BY <1>1, <1>4, <1>7, <2>1
  <2>3. i - 1 \in 1 .. length /\ after[i] = log[i] /\ after[i - 1] = log[i - 1]
    BY <1>1, <2>1, <2>2
  <2> QED
    BY <1>4, <2>1, <2>2, <2>3
<1>8. /\ n \in 1 .. length + 1 /\ nonce = n - 1
      /\ spent = IF after[n].kind = charge THEN after[n].spent ELSE 0
      /\ \A i \in 1 .. length + 1 : after[i].kind = "Revoked" <=> i > n
  BY <1>1, <1>3
<1>9. Reconciled(charge, after, cap, deadline, nonce, spent, FALSE)
  <2> DEFINE SpentAt(i) == IF after[i].kind = charge THEN after[i].spent ELSE 0
  <2>1. Len(after) > 0
    BY ONLY <1>1
  <2>2. \A i \in DOMAIN after : after[i].kind = "PolicyCreated" <=> i = 1
    BY ONLY <1>1, <1>6
  <2>3. \A i \in DOMAIN after : after[i].kind = charge =>
          /\ i > 1 /\ after[i - 1].kind # "Revoked"
          /\ after[i].nonce = i - 2
          /\ after[i].spent = SpentAt(i - 1) + after[i].amount
          /\ 0 < after[i].amount /\ after[i].amount <= cap
          /\ after[i].at < deadline
    BY ONLY <1>1, <1>7
  <2>4. FALSE <=> after[Len(after)].kind # "Revoked"
    BY <1>1
  <2>5. \E m \in DOMAIN after :
          /\ nonce = m - 1 /\ spent = SpentAt(m)
          /\ \A i \in DOMAIN after : after[i].kind = "Revoked" <=> i > m
    BY ONLY <1>1, <1>8
  <2> HIDE DEF SpentAt
  <2> QED
    BY ONLY <2>1, <2>2, <2>3, <2>4, <2>5, Zenon DEF Reconciled, SpentAt
<1> QED
  BY <1>9 DEF after

(* A charge of an active policy under its nonce, with the running total.   *)
LEMMA LogCharged ==
  ASSUME NEW charge \in ChargeKinds, NEW cap, NEW deadline, NEW nonce, NEW spent,
         NEW S, NEW log \in Seq(S),
         Reconciled(charge, log, cap, deadline, nonce, spent, TRUE),
         NEW event \in S, event.kind = charge, event.nonce = nonce,
         event.spent = spent + event.amount,
         0 < event.amount, event.amount <= cap, event.at < deadline
  PROVE  Reconciled(charge, Append(log, event), cap, deadline,
                    nonce + 1, event.spent, TRUE)
<1> DEFINE after == Append(log, event)
           length == Len(log)
<1>1. /\ length \in Nat /\ Len(after) = length + 1
      /\ DOMAIN log = 1 .. length /\ DOMAIN after = 1 .. length + 1
      /\ \A i \in 1 .. length : after[i] = log[i]
      /\ after[length + 1] = event
  BY LogAppended
<1>2. length > 0 /\ log[length].kind # "Revoked"
  BY DEF Reconciled
<1>3. PICK n \in 1 .. length :
        /\ nonce = n - 1 /\ spent = IF log[n].kind = charge THEN log[n].spent ELSE 0
        /\ \A i \in 1 .. length : log[i].kind = "Revoked" <=> i > n
  BY <1>1 DEF Reconciled
<1>4. /\ \A i \in 1 .. length : log[i].kind = "PolicyCreated" <=> i = 1
      /\ \A i \in 1 .. length : log[i].kind = charge =>
           /\ i > 1 /\ log[i - 1].kind # "Revoked"
           /\ log[i].nonce = i - 2
           /\ log[i].spent = (IF log[i - 1].kind = charge THEN log[i - 1].spent ELSE 0)
                               + log[i].amount
           /\ 0 < log[i].amount /\ log[i].amount <= cap
           /\ log[i].at < deadline
  BY <1>1 DEF Reconciled
<1>5. charge # "Revoked" /\ charge # "PolicyCreated"
  BY DEF ChargeKinds
<1> HIDE DEF after, length
<1>6. n = length
  BY ONLY <1>1, <1>2, <1>3
<1>7. \A i \in 1 .. length + 1 : after[i].kind = "PolicyCreated" <=> i = 1
  BY <1>1, <1>2, <1>4, <1>5
<1>8. ASSUME NEW i \in 1 .. length + 1, after[i].kind = charge
      PROVE  /\ i > 1 /\ after[i - 1].kind # "Revoked"
             /\ after[i].nonce = i - 2
             /\ after[i].spent = (IF after[i - 1].kind = charge THEN after[i - 1].spent ELSE 0)
                                   + after[i].amount
             /\ 0 < after[i].amount /\ after[i].amount <= cap
             /\ after[i].at < deadline
  <2>1. CASE i # length + 1
    <3>1. i \in 1 .. length
      BY <1>1, <2>1
    <3>2. log[i].kind = charge /\ i > 1
      BY <1>1, <1>4, <1>8, <3>1
    <3>3. i - 1 \in 1 .. length /\ after[i] = log[i] /\ after[i - 1] = log[i - 1]
      BY <1>1, <3>1, <3>2
    <3> QED
      BY <1>4, <3>1, <3>2, <3>3
  <2>2. CASE i = length + 1
    <3>1. i - 1 = length /\ length \in 1 .. length /\ i > 1 /\ i - 2 = length - 1
      BY ONLY <1>1, <1>2, <2>2
    <3>2. after[i] = event /\ after[i - 1] = log[length]
      BY <1>1, <2>2, <3>1
    <3>3. spent = IF log[length].kind = charge THEN log[length].spent ELSE 0
      BY <1>3, <1>6
    <3>4. event.nonce = i - 2
      BY <1>3, <1>6, <3>1
    <3> QED
      BY <1>2, <3>1, <3>2, <3>3, <3>4
  <2> QED
    BY <2>1, <2>2
<1>9. /\ length + 1 \in 1 .. length + 1 /\ nonce + 1 = (length + 1) - 1
      /\ event.spent = IF after[length + 1].kind = charge THEN after[length + 1].spent ELSE 0
      /\ \A i \in 1 .. length + 1 : after[i].kind = "Revoked" <=> i > length + 1
  <2>1. nonce + 1 = (length + 1) - 1
    BY ONLY <1>1, <1>3, <1>6
  <2>2. \A i \in 1 .. length + 1 : after[i].kind # "Revoked" /\ ~(i > length + 1)
    BY <1>1, <1>3, <1>5, <1>6
  <2> QED
    BY <1>1, <2>1, <2>2
<1>10. Reconciled(charge, after, cap, deadline, nonce + 1, event.spent, TRUE)
  <2> DEFINE SpentAt(i) == IF after[i].kind = charge THEN after[i].spent ELSE 0
  <2>1. Len(after) > 0
    BY ONLY <1>1
  <2>2. \A i \in DOMAIN after : after[i].kind = "PolicyCreated" <=> i = 1
    BY ONLY <1>1, <1>7
  <2>3. \A i \in DOMAIN after : after[i].kind = charge =>
          /\ i > 1 /\ after[i - 1].kind # "Revoked"
          /\ after[i].nonce = i - 2
          /\ after[i].spent = SpentAt(i - 1) + after[i].amount
          /\ 0 < after[i].amount /\ after[i].amount <= cap
          /\ after[i].at < deadline
    BY ONLY <1>1, <1>8
  <2>4. TRUE <=> after[Len(after)].kind # "Revoked"
    BY <1>1, <1>5
  <2>5. \E m \in DOMAIN after :
          /\ nonce + 1 = m - 1 /\ event.spent = SpentAt(m)
          /\ \A i \in DOMAIN after : after[i].kind = "Revoked" <=> i > m
    BY ONLY <1>1, <1>9
  <2> HIDE DEF SpentAt
  <2> QED
    BY ONLY <2>1, <2>2, <2>3, <2>4, <2>5, Zenon DEF Reconciled, SpentAt
<1> QED
  BY <1>10 DEF after
=============================================================================
