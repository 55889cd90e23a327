-------------------------- MODULE LivePolicyProofs --------------------------
(***************************************************************************)
(* Theorems about LivePolicy for all wallets, accounts, instructions and   *)
(* outcomes of routed programs.  The types, the log and the recipient's    *)
(* gain hold whatever a routed program does; that the policy implements    *)
(* its mandate, and that the owner is not locked out, rests on             *)
(* KeepsToVault, which LiveUnconfined and LiveLockIn show to be needed.    *)
(***************************************************************************)
EXTENDS LivePolicy, PolicyLemmas

(* What a route does to a policy record: two counters change, no terms.    *)
Counted(p, s, n) == [p EXCEPT !.spent = s, !.nonce = n]

(* A counted policy is a policy with the same terms.                       *)
LEMMA SpentRecord ==
  ASSUME NEW p \in LivePolicyRecord, NEW s \in U64Range, NEW n \in U64Range
  PROVE  LET q == Counted(p, s, n) IN
         /\ q \in LivePolicyRecord
         /\ q.spent = s /\ q.nonce = n
         /\ q.max_amount = p.max_amount /\ q.total_limit = p.total_limit
         /\ q.expires_at = p.expires_at /\ q.active = p.active
         /\ q.allowed_recipients = p.allowed_recipients
         /\ q.allowed_programs = p.allowed_programs
  BY DEF LivePolicyRecord, Counted

USE DEF Fits, U64Range

----------------------------------------------------------------------------
(* Types.                                                                  *)

LEMMA PdaType ==
  \A c \in PolicyArgs : c \in PolicyArgType /\ LivePolicyPda(c.owner, c.agent) \in PolicyAddresses
  BY LivePolicyAssumption DEF LivePolicyAssumption, PolicyAddresses

(* No wallet has the address of a policy.                                  *)
LEMMA AddressesDisjoint ==
  ASSUME NEW a \in PolicyAddresses
  PROVE  a \notin Wallets
<1>1. a \in Pdas
  BY LivePolicyAssumption DEF LivePolicyAssumption, PolicyArgType, PolicyAddresses, Pdas
<1> QED
  BY <1>1, ChainAssumption DEF ChainAssumption

(* Emitting an event keeps every log a sequence of events.                 *)
LEMMA EmitType ==
  ASSUME TypeOK, NEW a \in PolicyAddresses, NEW event \in Event, Emit(a, event)
  PROVE  liveEvents' \in [PolicyAddresses -> Seq(Event)]
  BY DEF Emit, TypeOK

(* What a route that is not turned down has done, read off the balances    *)
(* before and after: the policy was charged what its vault is missing.     *)
LEMMA RouteEffect ==
  ASSUME TypeOK, NEW r \in RouteRequests, NEW pl \in Placements, ExecuteRoute(r, pl)
  PROVE  /\ r.policy \in PolicyAddresses
         /\ r.vault \in TokenAccounts /\ r.destination \in TokenAccounts
         /\ balance' \in [TokenAccounts -> U64Range]
         /\ authority' \in [TokenAccounts -> Addresses]
         /\ plain' \in [TokenAccounts -> BOOLEAN]
         /\ balance'[r.destination] > balance[r.destination]
         /\ LET p == livePolicies[r.policy]
                charge == balance[r.vault] - balance'[r.vault]
            IN
            /\ p \in LivePolicyRecord /\ p # NoAccount
            /\ p.active /\ now < p.expires_at
            /\ charge \in U64Range /\ charge > 0 /\ charge <= p.max_amount
            /\ p.spent + charge <= p.total_limit
            /\ p.spent + charge \in U64Range /\ p.nonce + 1 \in U64Range
            /\ livePolicies' =
                 [livePolicies EXCEPT ![r.policy] = Counted(p, p.spent + charge, p.nonce + 1)]
            /\ \E output \in U64Range :
                 Emit(r.policy, [kind |-> "RouteExecuted", amount |-> charge,
                                 output |-> output, nonce |-> r.nonce,
                                 spent |-> p.spent + charge, at |-> now])
<1> DEFINE p == livePolicies[r.policy]
           charge == balance[r.vault] - balance'[r.vault]
<1>1. /\ r.policy \in PolicyAddresses
      /\ r.vault \in TokenAccounts /\ r.destination \in TokenAccounts
      /\ r.amount \in Nat /\ r.min_output \in Nat /\ r.route_program \in Programs
  BY LivePolicyAssumption, MaxU64Assumption DEF LivePolicyAssumption, RouteRequestType
<1>2. p \in LivePolicyRecord /\ p # NoAccount
  BY <1>1 DEF ExecuteRoute, TypeOK
<1>3. p.spent \in Nat /\ p.nonce \in Nat /\ p.max_amount \in Nat /\ p.total_limit \in Nat
  BY <1>2, MaxU64Assumption DEF LivePolicyRecord
<1>4. /\ p.active /\ now < p.expires_at
      /\ r.amount <= p.max_amount /\ p.spent + r.amount <= p.total_limit
  BY DEF ExecuteRoute, ValidateSpend
<1>5. PICK outcome \in Outcomes : Invoke(r, p, outcome)
  BY DEF ExecuteRoute
<1>6. outcome.change \in [TokenAccounts -> Int]
  BY LivePolicyAssumption DEF LivePolicyAssumption, OutcomeType
<1>7. /\ \A t \in TokenAccounts : balance'[t] = balance[t] + outcome.change[t]
      /\ balance' \in [TokenAccounts -> U64Range]
  BY <1>5 DEF Invoke, Possible
<1>8. \A t \in TokenAccounts :
        /\ balance[t] \in Nat /\ balance'[t] \in Nat /\ balance'[t] <= MaxU64
        /\ outcome.change[t] \in Int
  BY <1>6, <1>7, MaxU64Assumption DEF TypeOK, ChainTypeOK
<1>9. authority' \in [TokenAccounts -> Addresses]
  <2>1. SignerOf[r.route_program] \in Addresses
    BY <1>1, LivePolicyAssumption DEF LivePolicyAssumption, Addresses
  <2> QED
    BY <1>5, <2>1 DEF Invoke, TypeOK, ChainTypeOK
<1>10. charge = -outcome.change[r.vault] /\ charge \in Int
  BY <1>1, <1>7, <1>8
<1>11. /\ charge > 0 /\ charge <= r.amount
       /\ outcome.change[r.destination] >= r.min_output /\ r.min_output > 0
  BY <1>5, <1>10 DEF Invoke, Settled
<1>12. p.spent + charge <= MaxU64 /\ p.nonce + 1 <= MaxU64
  BY <1>5, <1>10 DEF Invoke, Charge
<1>13. /\ charge \in U64Range /\ charge <= p.max_amount
       /\ p.spent + charge <= p.total_limit
       /\ p.spent + charge \in U64Range /\ p.nonce + 1 \in U64Range
  <2> HIDE DEF charge, p
  <2> QED
    BY ONLY <1>1, <1>3, <1>4, <1>10, <1>11, <1>12, MaxU64Assumption
<1>14. /\ outcome.change[r.destination] \in U64Range
       /\ balance'[r.destination] > balance[r.destination]
  <2>1. PICK x \in Int, b \in Nat, after \in Nat :
          /\ x = outcome.change[r.destination] /\ b = balance[r.destination]
          /\ after = balance'[r.destination]
    BY <1>1, <1>8
  <2>2. after = b + x /\ after <= MaxU64 /\ x > 0
    BY <1>1, <1>7, <1>8, <1>11, <2>1
  <2> QED
    BY ONLY <2>1, <2>2, x \in Int, b \in Nat, after \in Nat, MaxU64Assumption
<1>15. livePolicies' =
         [livePolicies EXCEPT ![r.policy] = Counted(p, p.spent + charge, p.nonce + 1)]
  <2>1. livePolicies' =
          [livePolicies EXCEPT ![r.policy].spent = @ + charge, ![r.policy].nonce = @ + 1]
    BY <1>5, <1>10 DEF Invoke, Charge
  <2> HIDE DEF charge
  <2> QED
    BY <1>1, <1>2, <2>1 DEF LivePolicyRecord, Counted, TypeOK
<1>16. Emit(r.policy, [kind |-> "RouteExecuted", amount |-> charge,
                       output |-> outcome.change[r.destination], nonce |-> r.nonce,
                       spent |-> p.spent + charge, at |-> now])
  BY <1>5, <1>10 DEF Invoke, Charge
<1>17. plain' \in [TokenAccounts -> BOOLEAN]
  BY <1>5 DEF Invoke
<1> HIDE DEF p, charge
<1> QED
  BY <1>1, <1>2, <1>4, <1>7, <1>9, <1>11, <1>13, <1>14, <1>15, <1>16, <1>17 DEF p, charge

LEMMA TypeInit == Init => TypeOK
<1> SUFFICES ASSUME Init PROVE TypeOK
  OBVIOUS
<1> USE DEF Init
<1>1. ChainTypeOK
  BY TypeChainInit
<1>2. /\ liveEvents \in [PolicyAddresses -> Seq(Event)]
      /\ entrusted \in [PolicyAddresses -> SUBSET TokenAccounts]
  BY DEF Unencumbered
<1> QED
  BY <1>1, <1>2 DEF TypeOK, Exists

LEMMA TypeNext == TypeOK /\ [Next]_vars => TypeOK'
<1> SUFFICES ASSUME TypeOK, [Next]_vars PROVE TypeOK'
  OBVIOUS
<1>1. ASSUME NEW c \in PolicyArgs, NEW pl \in Placements, CreateLivePolicy(c, pl)
      PROVE  TypeOK'
  <2> USE <1>1 DEF CreateLivePolicy
  <2> DEFINE a == LivePolicyPda(c.owner, c.agent)
  <2>0. a \in PolicyAddresses /\ c \in PolicyArgType
    BY PdaType
  <2>1. ChainTypeOK'
    BY PlaceType DEF TypeOK, ChainTypeOK
  <2>2. /\ livePolicies' \in [PolicyAddresses -> LivePolicyRecord \cup {NoAccount}]
        /\ \A b \in PolicyAddresses : b # a => livePolicies'[b] = livePolicies[b]
        /\ livePolicies'[a].allowed_recipients = c.allowed_recipients
        /\ livePolicies'[a].allowed_programs = c.allowed_programs
    BY <2>0, MaxU64Assumption
    DEF TypeOK, PolicyArgType, LivePolicyRecord, LIVE_POLICY_VERSION
  <2>3. [kind |-> "PolicyCreated", owner |-> c.owner, agent |-> c.agent] \in Event
    BY <2>0 DEF PolicyArgType, Event
  <2>4. liveEvents' \in [PolicyAddresses -> Seq(Event)]
    BY <2>0, <2>3, EmitType
  <2>5. \A b \in PolicyAddresses : Exists(b)' =>
          /\ Len(livePolicies'[b].allowed_recipients) <= MAX_RECIPIENTS
          /\ Len(livePolicies'[b].allowed_programs) <= MAX_PROGRAMS
    BY <2>2 DEF TypeOK, Exists, ValidateAllowlists
  <2> QED
    BY <2>1, <2>2, <2>4, <2>5 DEF TypeOK
<1>2. ASSUME NEW owner \in Wallets, NEW a \in PolicyAddresses, NEW pl \in Placements,
             RevokeLive(owner, a, pl)
      PROVE  TypeOK'
  <2> USE <1>2 DEF RevokeLive, CanRevoke
  <2>1. ChainTypeOK'
    BY PlaceType DEF TypeOK, ChainTypeOK
  <2>2. livePolicies[a] \in LivePolicyRecord
    BY DEF TypeOK
  <2>3. livePolicies' = [livePolicies EXCEPT ![a] = [livePolicies[a] EXCEPT !.active = FALSE]]
    OBVIOUS
  <2>4. [livePolicies[a] EXCEPT !.active = FALSE] \in LivePolicyRecord
    BY <2>2 DEF LivePolicyRecord
  <2>5. livePolicies' \in [PolicyAddresses -> LivePolicyRecord \cup {NoAccount}]
    BY <2>3, <2>4 DEF TypeOK
  <2>6. \A b \in PolicyAddresses : Exists(b)' =>
          /\ Len(livePolicies'[b].allowed_recipients) <= MAX_RECIPIENTS
          /\ Len(livePolicies'[b].allowed_programs) <= MAX_PROGRAMS
    BY <2>2, <2>3 DEF TypeOK, Exists, LivePolicyRecord
  <2>7. [kind |-> "Revoked", at |-> now] \in Event
    BY DEF Event, TypeOK, ChainTypeOK
  <2>8. liveEvents' \in [PolicyAddresses -> Seq(Event)]
    BY <2>7, EmitType
  <2> QED
    BY <2>1, <2>5, <2>6, <2>8 DEF TypeOK
<1>3. ASSUME NEW r \in RouteRequests, NEW pl \in Placements, ExecuteRoute(r, pl)
      PROVE  TypeOK'
  <2> DEFINE p == livePolicies[r.policy]
             charge == balance[r.vault] - balance'[r.vault]
             q == Counted(p, p.spent + charge, p.nonce + 1)
  <2>1. /\ r.policy \in PolicyAddresses
        /\ balance' \in [TokenAccounts -> U64Range]
        /\ authority' \in [TokenAccounts -> Addresses]
        /\ plain' \in [TokenAccounts -> BOOLEAN]
        /\ p \in LivePolicyRecord /\ p # NoAccount
        /\ charge \in U64Range /\ p.spent + charge \in U64Range /\ p.nonce + 1 \in U64Range
        /\ livePolicies' = [livePolicies EXCEPT ![r.policy] = q]
    BY <1>3, RouteEffect
  <2>2. ChainTypeOK'
    <3>1. tx' \in Placement /\ now' = now
      BY <1>3, PlaceType DEF ExecuteRoute
    <3> QED
      BY <2>1, <3>1 DEF TypeOK, ChainTypeOK
  <2>3. /\ q \in LivePolicyRecord
        /\ q.allowed_recipients = p.allowed_recipients
        /\ q.allowed_programs = p.allowed_programs
    <3>1. \A s, n \in U64Range :
            /\ Counted(p, s, n) \in LivePolicyRecord
            /\ Counted(p, s, n).allowed_recipients = p.allowed_recipients
            /\ Counted(p, s, n).allowed_programs = p.allowed_programs
      <4>1. p \in LivePolicyRecord
        BY <2>1
      <4> QED
        BY ONLY <4>1, SpentRecord
    <3> QED
      BY ONLY <2>1, <3>1, Zenon
  <2>4. /\ livePolicies' \in [PolicyAddresses -> LivePolicyRecord \cup {NoAccount}]
        /\ \A b \in PolicyAddresses : Exists(b)' =>
             /\ Len(livePolicies'[b].allowed_recipients) <= MAX_RECIPIENTS
             /\ Len(livePolicies'[b].allowed_programs) <= MAX_PROGRAMS
    <3> HIDE DEF q
    <3> QED
      BY ONLY <2>1, <2>3, TypeOK DEF TypeOK, Exists
  <2>5. liveEvents' \in [PolicyAddresses -> Seq(Event)]
    <3>1. PICK output \in U64Range :
            Emit(r.policy, [kind |-> "RouteExecuted", amount |-> charge, output |-> output,
                            nonce |-> r.nonce, spent |-> p.spent + charge, at |-> now])
      BY <1>3, RouteEffect
    <3>2. r.nonce \in U64Range /\ now \in Nat
      BY LivePolicyAssumption
      DEF LivePolicyAssumption, RouteRequestType, TypeOK, ChainTypeOK
    <3>3. [kind |-> "RouteExecuted", amount |-> charge, output |-> output,
           nonce |-> r.nonce, spent |-> p.spent + charge, at |-> now] \in Event
      <4> HIDE DEF p, charge
      <4> QED
        BY <2>1, <3>1, <3>2 DEF Event
    <3> QED
      BY <2>1, <3>1, <3>3, EmitType
  <2>6. entrusted' = entrusted
    BY <1>3 DEF ExecuteRoute
  <2> QED
    BY <2>2, <2>4, <2>5, <2>6 DEF TypeOK
<1>4. ASSUME NEW r \in RecoverRequests, NEW pl \in Placements, RecoverLive(r, pl)
      PROVE  TypeOK'
  <2> USE <1>4 DEF RecoverLive, CanRecover
  <2>1. r.vault \in TokenAccounts /\ r.destination \in TokenAccounts /\ r.amount \in U64Range
    BY LivePolicyAssumption DEF LivePolicyAssumption, RecoverRequestType
  <2>2. balance' \in [TokenAccounts -> U64Range]
    BY <2>1, AfterTransferType DEF TypeOK, ChainTypeOK
  <2>3. ChainTypeOK'
    BY <2>2, PlaceType DEF TypeOK, ChainTypeOK
  <2> QED
    BY <2>3 DEF TypeOK, Exists
<1>5. CASE Environment
  <2>1. entrusted' \in [PolicyAddresses -> SUBSET TokenAccounts]
    BY <1>5 DEF Environment, Unencumbered, TypeOK
  <2> QED
    BY <1>5, <2>1, TypeEnvironment DEF Environment, TypeOK, Exists
<1>6. CASE UNCHANGED vars
  BY <1>6 DEF vars, TypeOK, ChainTypeOK, Exists
<1> QED
  BY <1>1, <1>2, <1>3, <1>4, <1>5, <1>6 DEF Next

(* Every reachable state is well typed, whatever a routed program does to  *)
(* the accounts it is passed: what is charged and the totals fit a u64.    *)
THEOREM TypeCorrect == Spec => []TypeOK
<1> QED
  BY TypeInit, TypeNext, PTL DEF Spec

----------------------------------------------------------------------------
(* Value for value: whatever the routed program, a charge reaches an       *)
(* account of an allowed recipient.                                        *)

LEMMA RecipientGains ==
  ASSUME TypeOK, Next, NEW a \in PolicyAddresses, Exists(a),
         livePolicies'[a].spent > livePolicies[a].spent
  PROVE  \E t \in TokenAccounts :
           authority[t] \in Listed(livePolicies[a].allowed_recipients) /\ Gain(t) > 0
<1>0. livePolicies[a] \in LivePolicyRecord /\ livePolicies[a].spent \in Nat
  BY MaxU64Assumption DEF TypeOK, Exists, LivePolicyRecord
<1>1. ASSUME NEW c \in PolicyArgs, NEW pl \in Placements, CreateLivePolicy(c, pl)
      PROVE  FALSE
  <2>1. a # LivePolicyPda(c.owner, c.agent)
    BY <1>1 DEF CreateLivePolicy, NewAccount, Exists
  <2> QED
    BY <1>0, <1>1, <2>1 DEF CreateLivePolicy, TypeOK
<1>2. ASSUME NEW owner \in Wallets, NEW b \in PolicyAddresses, NEW pl \in Placements,
             RevokeLive(owner, b, pl)
      PROVE  FALSE
  <2>1. livePolicies' = [livePolicies EXCEPT ![b] = [livePolicies[b] EXCEPT !.active = FALSE]]
    BY <1>2 DEF RevokeLive
  <2>2. livePolicies'[a].spent = livePolicies[a].spent
    BY <1>0, <2>1 DEF TypeOK, LivePolicyRecord
  <2> QED
    BY <1>0, <2>2
<1>3. ASSUME NEW r \in RouteRequests, NEW pl \in Placements, ExecuteRoute(r, pl)
      PROVE  authority[r.destination] \in Listed(livePolicies[a].allowed_recipients)
               /\ r.destination \in TokenAccounts /\ Gain(r.destination) > 0
  <2>1. a = r.policy
    <3>1. PICK q : livePolicies' = [livePolicies EXCEPT ![r.policy] = q]
      BY <1>3, RouteEffect
    <3>2. a # r.policy => livePolicies'[a] = livePolicies[a]
      BY <3>1 DEF TypeOK
    <3> QED
      BY <1>0, <3>2
  <2>2. r.destination \in TokenAccounts /\ balance'[r.destination] > balance[r.destination]
        /\ balance' \in [TokenAccounts -> U64Range]
    BY <1>3, RouteEffect
  <2>3. balance[r.destination] \in Int /\ balance'[r.destination] \in Int
    BY <2>2, MaxU64Assumption DEF TypeOK, ChainTypeOK
  <2>4. Gain(r.destination) > 0
    BY <2>2, <2>3 DEF Gain
  <2> QED
    BY <1>3, <2>1, <2>2, <2>4 DEF ExecuteRoute
<1>4. CASE livePolicies' = livePolicies
  BY <1>0, <1>4
<1> QED
  BY <1>1, <1>2, <1>3, <1>4 DEF Next, RecoverLive, Environment

(* When spent rises, an account of an allowed recipient has gained in the  *)
(* same step: execute_route pays nobody else and charges for nothing.      *)
THEOREM RecipientPaidHeld == Spec => RecipientPaid
<1>1. TypeOK /\ [Next]_vars =>
        [\A a \in PolicyAddresses :
           Exists(a) /\ livePolicies'[a].spent > livePolicies[a].spent =>
             \E t \in TokenAccounts :
               authority[t] \in Listed(livePolicies[a].allowed_recipients)
                 /\ Gain(t) > 0]_vars
  BY RecipientGains
<1> QED
  BY <1>1, TypeCorrect, PTL DEF Spec, RecipientPaid

----------------------------------------------------------------------------
(* From here on routed programs keep to the vault they are given.          *)

(* A step by which no account that a holds loses anything pays nobody.     *)
Intact(a) == \A t \in TokenAccounts : HeldBy(a)'[t] >= HeldBy(a)[t]

LEMMA StillIntact ==
  ASSUME TypeOK, NEW a \in PolicyAddresses, UNCHANGED <<balance, authority>>
  PROVE  Intact(a)
<1>1. \A t \in TokenAccounts : balance[t] \in Int
  BY MaxU64Assumption DEF TypeOK, ChainTypeOK
<1> QED
  BY <1>1 DEF HeldBy, Intact

LEMMA BystanderIntact ==
  ASSUME TypeOK, NEW a \in PolicyAddresses, authority' = authority,
         \A t \in TokenAccounts : authority[t] = a => balance'[t] >= balance[t]
  PROVE  Intact(a)
  BY MaxU64Assumption DEF HeldBy, Intact

LEMMA EnvironmentIntact ==
  ASSUME TypeOK, Environment, NEW a \in PolicyAddresses
  PROVE  Intact(a)
  BY AddressesDisjoint, EnvironmentKeeps DEF Environment, TypeOK, Intact

(* A route takes over nothing, and of a policy's accounts it takes from    *)
(* the vault of the signing one alone.                                     *)
LEMMA RouteKeeps ==
  ASSUME KeepsToVault, TypeOK,
         NEW r \in RouteRequests, NEW pl \in Placements, ExecuteRoute(r, pl)
  PROVE  /\ authority' = authority /\ authority[r.vault] = r.policy
         /\ \A a \in PolicyAddresses, t \in TokenAccounts :
              authority[t] = a /\ balance'[t] < balance[t] => t = r.vault
<1> DEFINE p == livePolicies[r.policy]
<1>1. PICK outcome \in Outcomes : Invoke(r, p, outcome)
  BY DEF ExecuteRoute
<1>2. outcome.change \in [TokenAccounts -> Int] /\ r.route_program \in Programs
  BY LivePolicyAssumption DEF LivePolicyAssumption, OutcomeType, RouteRequestType
<1>3. outcome.taken = {}
  BY <1>1 DEF Invoke, Possible
<1>4. authority' = authority
  BY <1>1, <1>3 DEF Invoke, TypeOK, ChainTypeOK
<1>5. authority[r.vault] = r.policy
  BY DEF ExecuteRoute, ValidateToken
<1>6. ASSUME NEW a \in PolicyAddresses, NEW t \in TokenAccounts,
             authority[t] = a, balance'[t] < balance[t]
      PROVE  t = r.vault
  <2>1. outcome.change[t] \in Int /\ balance[t] \in Int
    BY <1>2, MaxU64Assumption DEF TypeOK, ChainTypeOK
  <2>2. balance'[t] = balance[t] + outcome.change[t]
    BY <1>1 DEF Invoke
  <2>3. outcome.change[t] < 0
    BY <1>6, <2>1, <2>2
  <2>4. a # SignerOf[r.route_program]
    BY <1>2, AddressesDisjoint, LivePolicyAssumption DEF LivePolicyAssumption
  <2>5. t \in { x \in TokenAccounts : outcome.change[x] # 0 } \cup outcome.taken
    BY <2>1, <2>3
  <2>6. authority[t] = r.policy
    BY <1>1, <1>6, <2>3, <2>4, <2>5 DEF Invoke, Possible
  <2> QED
    BY <1>1, <2>3, <2>5, <2>6 DEF Invoke, Possible
<1> QED
  BY <1>4, <1>5, <1>6

(* For the signing policy a route is one payment from the vault, the       *)
(* amount it is charged; for every other policy nothing is lost.           *)
LEMMA RoutePays ==
  ASSUME KeepsToVault, TypeOK,
         NEW r \in RouteRequests, NEW pl \in Placements, ExecuteRoute(r, pl),
         NEW a \in PolicyAddresses
  PROVE  /\ a # r.policy => Intact(a) /\ livePolicies'[a] = livePolicies[a]
         /\ \A t \in TokenAccounts \ {r.vault} : HeldBy(a)'[t] >= HeldBy(a)[t]
         /\ a = r.policy => HeldBy(a)[r.vault] - HeldBy(a)'[r.vault]
                               = balance[r.vault] - balance'[r.vault]
<1>1. /\ authority' = authority /\ authority[r.vault] = r.policy
      /\ \A t \in TokenAccounts : authority[t] = a /\ balance'[t] < balance[t] => t = r.vault
  BY RouteKeeps
<1>2. r.vault \in TokenAccounts /\ balance' \in [TokenAccounts -> U64Range]
  BY RouteEffect
<1>3. \A t \in TokenAccounts : balance[t] \in Int /\ balance'[t] \in Int
  BY <1>2, MaxU64Assumption DEF TypeOK, ChainTypeOK
<1>4. \A t \in TokenAccounts \ {r.vault} : HeldBy(a)'[t] >= HeldBy(a)[t]
  BY <1>1, <1>3 DEF HeldBy
<1>5. ASSUME a # r.policy
      PROVE  Intact(a) /\ livePolicies'[a] = livePolicies[a]
  <2>1. \A t \in TokenAccounts : authority[t] = a => balance'[t] >= balance[t]
    BY <1>1, <1>3, <1>5
  <2>2. PICK q : livePolicies' = [livePolicies EXCEPT ![r.policy] = q]
    BY RouteEffect
  <2> QED
    BY <1>1, <1>5, <2>1, <2>2, BystanderIntact DEF TypeOK
<1>6. a = r.policy => HeldBy(a)[r.vault] - HeldBy(a)'[r.vault]
                        = balance[r.vault] - balance'[r.vault]
  BY <1>1, <1>2 DEF HeldBy
<1> QED
  BY <1>4, <1>5, <1>6

(* Recovering leaves every policy but the revoked one alone.               *)
LEMMA RecoverPays ==
  ASSUME TypeOK, NEW r \in RecoverRequests, NEW pl \in Placements, RecoverLive(r, pl),
         NEW a \in PolicyAddresses
  PROVE  /\ livePolicies' = livePolicies /\ ~livePolicies[r.policy].active
         /\ livePolicies[r.policy] # NoAccount
         /\ a # r.policy => Intact(a)
<1>1. r.vault \in TokenAccounts /\ r.destination \in TokenAccounts /\ r.amount \in U64Range
  BY LivePolicyAssumption DEF LivePolicyAssumption, RecoverRequestType
<1>2. /\ livePolicies' = livePolicies /\ authority' = authority
      /\ authority[r.vault] = r.policy /\ ~livePolicies[r.policy].active
      /\ livePolicies[r.policy] # NoAccount
  BY DEF RecoverLive, CanRecover, Recoverable, ValidateToken
<1>3. ASSUME a # r.policy PROVE Intact(a)
  <2>1. balance \in [TokenAccounts -> U64Range]
    BY DEF TypeOK, ChainTypeOK
  <2>2. \A t \in TokenAccounts : t # r.vault => balance'[t] >= balance[t]
    BY <1>1, <2>1, TransferEffect DEF RecoverLive
  <2> QED
    BY <1>2, <1>3, <2>2, BystanderIntact
<1> QED
  BY <1>2, <1>3

----------------------------------------------------------------------------
(* LivePolicy implements Mandate: each instruction is, for every policy, a *)
(* step of its mandate or leaves it alone.                                 *)

(* A mandate whose policy is untouched and whose accounts lose nothing is  *)
(* at most funded.                                                         *)
LEMMA FundStep ==
  ASSUME NEW a \in PolicyAddresses, livePolicies'[a] = livePolicies[a], Intact(a)
  PROVE  Mdt!Step(a)
<1>1. Mdt!Fund(a)
  BY DEF Mdt!Fund, MandateOf, Intact
<1> QED
  BY <1>1 DEF Mdt!Step

LEMMA RefinementInit == Init => Mdt!Init
  BY DEF Init, ChainInit, Mdt!Init, Mdt!None, MandateOf

LEMMA CreateStep ==
  ASSUME TypeOK, NEW c \in PolicyArgs, NEW pl \in Placements, CreateLivePolicy(c, pl),
         NEW a \in PolicyAddresses
  PROVE  Mdt!Step(a)
<1>1. CASE a # LivePolicyPda(c.owner, c.agent)
  BY <1>1, StillIntact, FundStep DEF CreateLivePolicy, TypeOK
<1>2. CASE a = LivePolicyPda(c.owner, c.agent)
  <2>1. c \in PolicyArgType
    BY PdaType
  <2>2. livePolicies[a] = NoAccount
    BY <1>2 DEF CreateLivePolicy, NewAccount
  <2>3. livePolicies'[a] = [version |-> LIVE_POLICY_VERSION, owner |-> c.owner,
          agent |-> c.agent, executor |-> c.executor, quote_mint |-> c.quote_mint,
          max_amount |-> c.max_amount, total_limit |-> c.total_limit, spent |-> 0,
          expires_at |-> c.expires_at, nonce |-> 0, active |-> TRUE,
          allowed_recipients |-> c.allowed_recipients,
          allowed_programs |-> c.allowed_programs]
    BY <1>2 DEF CreateLivePolicy, TypeOK
  <2>4. livePolicies'[a] \in LivePolicyRecord
    BY ONLY <2>1, <2>3, MaxU64Assumption DEF PolicyArgType, LivePolicyRecord
  <2>5. livePolicies'[a] # NoAccount
    BY <2>4, NoLivePolicyAssumption
  <2>6. MandateOf(livePolicies'[a]) =
          [phase |-> "active", cap |-> c.max_amount, limit |-> c.total_limit,
           deadline |-> c.expires_at, spent |-> 0, nonce |-> 0]
    BY <2>3, <2>5 DEF MandateOf
  <2>7. 0 < c.max_amount /\ c.max_amount <= c.total_limit /\ now < c.expires_at
    BY <2>1, MaxU64Assumption DEF CreateLivePolicy, PolicyArgType, TypeOK, ChainTypeOK
  <2>8. \A t \in TokenAccounts : HeldBy(a)'[t] = HeldBy(a)[t]
    BY DEF CreateLivePolicy, HeldBy
  <2>9. Mdt!Open(a)
    BY <2>2, <2>5, <2>6, <2>7, <2>8 DEF Mdt!Open, Mdt!SameHoldings, MandateOf
  <2> QED
    BY <2>9 DEF Mdt!Step
<1> QED
  BY <1>1, <1>2

LEMMA RevokeStep ==
  ASSUME TypeOK, NEW owner \in Wallets, NEW b \in PolicyAddresses, NEW pl \in Placements,
         RevokeLive(owner, b, pl), NEW a \in PolicyAddresses
  PROVE  Mdt!Step(a)
<1>0. Intact(a)
  BY StillIntact DEF RevokeLive
<1>1. CASE a # b
  BY <1>0, <1>1, FundStep DEF RevokeLive, TypeOK
<1>2. CASE a = b
  <2> DEFINE p == livePolicies[a]
  <2>1. p \in LivePolicyRecord /\ p # NoAccount
    BY <1>2 DEF RevokeLive, CanRevoke, TypeOK
  <2>2. livePolicies'[a] = [p EXCEPT !.active = FALSE]
    BY <1>2 DEF RevokeLive, TypeOK
  <2>3. CASE ~p.active
    <3>1. livePolicies'[a] = p
      BY <2>1, <2>2, <2>3 DEF LivePolicyRecord
    <3> QED
      BY <1>0, <3>1, FundStep
  <2>4. CASE p.active
    <3>1. livePolicies'[a] # NoAccount
      BY <2>1, <2>2, NoLivePolicyAssumption DEF LivePolicyRecord
    <3>2. MandateOf(p) =
            [phase |-> "active", cap |-> p.max_amount, limit |-> p.total_limit,
             deadline |-> p.expires_at, spent |-> p.spent, nonce |-> p.nonce]
      BY <2>1, <2>4 DEF MandateOf
    <3>3. MandateOf(livePolicies'[a]) =
            [phase |-> "revoked", cap |-> p.max_amount, limit |-> p.total_limit,
             deadline |-> p.expires_at, spent |-> p.spent, nonce |-> p.nonce]
      BY <2>1, <2>2, <3>1 DEF MandateOf, LivePolicyRecord
    <3>4. \A t \in TokenAccounts : HeldBy(a)'[t] = HeldBy(a)[t]
      BY DEF RevokeLive, HeldBy
    <3>5. Mdt!Revoke(a)
      BY <3>2, <3>3, <3>4 DEF Mdt!Revoke, Mdt!SameHoldings, MandateOf
    <3> QED
      BY <3>5 DEF Mdt!Step
  <2> QED
    BY <2>3, <2>4
<1> QED
  BY <1>1, <1>2

LEMMA RouteStep ==
  ASSUME KeepsToVault, TypeOK,
         NEW r \in RouteRequests, NEW pl \in Placements, ExecuteRoute(r, pl),
         NEW a \in PolicyAddresses
  PROVE  Mdt!Step(a)
<1>1. CASE a # r.policy
  BY <1>1, RoutePays, FundStep
<1>2. CASE a = r.policy
  <2> DEFINE p == livePolicies[a]
             charge == balance[r.vault] - balance'[r.vault]
             loss(v) == HeldBy(a)[v] - HeldBy(a)'[v]
             m == MandateOf(p)
             n == MandateOf(livePolicies'[a])
  <2>1. /\ r.vault \in TokenAccounts /\ p \in LivePolicyRecord /\ p # NoAccount
        /\ p.active /\ now < p.expires_at
        /\ charge \in U64Range /\ charge > 0 /\ charge <= p.max_amount
        /\ p.spent + charge <= p.total_limit
        /\ p.spent + charge \in U64Range /\ p.nonce + 1 \in U64Range
        /\ livePolicies' = [livePolicies EXCEPT ![a] =
                              Counted(p, p.spent + charge, p.nonce + 1)]
    BY <1>2, RouteEffect
  <2>2. loss(r.vault) = charge
    BY <1>2, RoutePays
  <2>3. PICK s \in U64Range, k \in U64Range : s = p.spent + charge /\ k = p.nonce + 1
    BY ONLY <2>1
  <2>4. livePolicies'[a] = Counted(p, s, k)
    BY ONLY <2>1, <2>3, TypeOK, a \in PolicyAddresses DEF TypeOK
  <2> DEFINE q == livePolicies'[a]
  <2>5. /\ q \in LivePolicyRecord /\ q.active = p.active
        /\ q.spent = s /\ q.nonce = k
        /\ q.max_amount = p.max_amount /\ q.total_limit = p.total_limit
        /\ q.expires_at = p.expires_at
    <3>1. p \in LivePolicyRecord
      BY <2>1
    <3> QED
      BY ONLY <2>4, <3>1, SpentRecord, s \in U64Range, k \in U64Range
  <2>6. q # NoAccount
    BY ONLY <2>5, NoLivePolicyAssumption
  <2>7. m = [phase |-> "active", cap |-> p.max_amount, limit |-> p.total_limit,
             deadline |-> p.expires_at, spent |-> p.spent, nonce |-> p.nonce]
    BY ONLY <2>1 DEF MandateOf
  <2>8. n = [phase |-> "active", cap |-> p.max_amount, limit |-> p.total_limit,
             deadline |-> p.expires_at, spent |-> s, nonce |-> k]
    BY ONLY <2>1, <2>5, <2>6 DEF MandateOf
  <2>9. /\ p.max_amount \in Int /\ p.total_limit \in Int /\ p.expires_at \in Int
        /\ p.spent \in Int /\ p.nonce \in Int /\ charge \in Int /\ s \in Int /\ k \in Int
    BY <2>1, <2>3, MaxU64Assumption DEF LivePolicyRecord
  <2> HIDE DEF p, charge, q, m, n
  <2>10. /\ m \in MandateRecord /\ n \in MandateRecord
         /\ n.phase = m.phase /\ n.cap = m.cap /\ n.limit = m.limit
         /\ n.deadline = m.deadline /\ n.spent = s /\ n.nonce = k
         /\ s = m.spent + charge /\ k = m.nonce + 1
    BY ONLY <2>3, <2>7, <2>8, <2>9 DEF MandateRecord
  <2>11. n = CountedMandate(m, s, k)
    BY ONLY <2>9, <2>10, MandateCounted
  <2>12. /\ m.phase = "active" /\ now < m.deadline
         /\ 0 < charge /\ charge <= m.cap /\ m.spent + charge <= m.limit
    BY ONLY <2>1, <2>7, <2>9
  <2>13. \A t \in TokenAccounts \ {r.vault} : HeldBy(a)'[t] >= HeldBy(a)[t]
    BY RoutePays
  <2>14. \E vault \in TokenAccounts :
           /\ 0 < loss(vault) /\ loss(vault) <= m.cap
           /\ m.spent + loss(vault) <= m.limit
           /\ n = [m EXCEPT !.spent = m.spent + loss(vault), !.nonce = m.nonce + 1]
           /\ \A t \in TokenAccounts \ {vault} : HeldBy(a)'[t] >= HeldBy(a)[t]
    <3> HIDE DEF loss
    <3> r.vault \in TokenAccounts
      BY <2>1
    <3> WITNESS r.vault \in TokenAccounts
    <3> QED
      BY ONLY <2>2, <2>10, <2>11, <2>12, <2>13 DEF CountedMandate
  <2>15. Mdt!Spend(a)
    BY ONLY <2>12, <2>14, a \in PolicyAddresses DEF Mdt!Spend, m, n, p
  <2> QED
    BY <2>15 DEF Mdt!Step
<1> QED
  BY <1>1, <1>2

LEMMA RecoverStep ==
  ASSUME TypeOK, NEW r \in RecoverRequests, NEW pl \in Placements, RecoverLive(r, pl),
         NEW a \in PolicyAddresses
  PROVE  Mdt!Step(a)
<1>1. /\ livePolicies' = livePolicies /\ ~livePolicies[r.policy].active
      /\ livePolicies[r.policy] # NoAccount
      /\ a # r.policy => Intact(a)
  BY RecoverPays
<1>2. CASE a # r.policy
  BY <1>1, <1>2, FundStep
<1>3. CASE a = r.policy
  <2>1. MandateOf(livePolicies[a]).phase = "revoked"
    BY <1>1, <1>3 DEF MandateOf
  <2>2. Mdt!Reclaim(a)
    BY <1>1, <2>1 DEF Mdt!Reclaim, MandateOf
  <2> QED
    BY <2>2 DEF Mdt!Step
<1> QED
  BY <1>2, <1>3

LEMMA RefinementNext ==
  ASSUME KeepsToVault, TypeOK, [Next]_vars
  PROVE  Mdt!Next
<1>1. now' >= now
  <2>1. now \in Int
    BY DEF TypeOK, ChainTypeOK
  <2>2. now' = now \/ now' = now + 1
    BY DEF Next, CreateLivePolicy, RevokeLive, ExecuteRoute, RecoverLive, Environment,
           ChainNext, WalletTransfer, SetAuthority, Encumber, Tick, vars
  <2> QED
    BY <2>1, <2>2
<1>2. ASSUME NEW a \in PolicyAddresses
      PROVE  Mdt!Step(a)
  <2>1. ASSUME NEW c \in PolicyArgs, NEW pl \in Placements, CreateLivePolicy(c, pl)
        PROVE  Mdt!Step(a)
    BY <2>1, CreateStep
  <2>2. ASSUME NEW owner \in Wallets, NEW b \in PolicyAddresses, NEW pl \in Placements,
               RevokeLive(owner, b, pl)
        PROVE  Mdt!Step(a)
    BY <2>2, RevokeStep
  <2>3. ASSUME NEW r \in RouteRequests, NEW pl \in Placements, ExecuteRoute(r, pl)
        PROVE  Mdt!Step(a)
    BY <2>3, RouteStep
  <2>4. ASSUME NEW r \in RecoverRequests, NEW pl \in Placements, RecoverLive(r, pl)
        PROVE  Mdt!Step(a)
    BY <2>4, RecoverStep
  <2>5. CASE Environment
    BY <2>5, EnvironmentIntact, FundStep DEF Environment
  <2>6. CASE UNCHANGED vars
    BY <2>6, StillIntact, FundStep DEF vars
  <2> QED
    BY <2>1, <2>2, <2>3, <2>4, <2>5, <2>6 DEF Next
<1> QED
  BY <1>1, <1>2 DEF Mdt!Next

(* Whatever markets do within the vault they are given, each live policy   *)
(* behaves as its mandate says: what execute_route takes is within cap,    *)
(* limit and deadline, one nonce a time, and never after revoke_live.      *)
THEOREM MandateImplemented ==
  ASSUME KeepsToVault
  PROVE  Spec => MandateHonoured
<1>1. Init => Mdt!Init
  BY RefinementInit
<1>2. TypeOK /\ [Next]_vars => [Mdt!Next]_(Mdt!vars)
  BY RefinementNext
<1> QED
  BY <1>1, <1>2, TypeCorrect, PTL DEF Spec, MandateHonoured, Mdt!Spec

----------------------------------------------------------------------------
(* The log, whatever the routed programs do.                               *)

(* The log of one live policy.                                             *)
LogKept(a) ==
  LET p == livePolicies[a] IN
  IF p = NoAccount
  THEN liveEvents[a] = <<>>
  ELSE Reconciled("RouteExecuted", liveEvents[a], p.max_amount, p.expires_at,
                  p.nonce, p.spent, p.active)

LogInv == TypeOK /\ \A a \in PolicyAddresses : LogKept(a)

LEMMA LogInvImplies == LogInv => LogReconciles
  BY DEF LogInv, LogKept, LogReconciles, Reconciled

(* A policy that the step leaves alone keeps its log.                      *)
LEMMA LogUntouched ==
  ASSUME NEW a \in PolicyAddresses, LogKept(a),
         livePolicies'[a] = livePolicies[a], liveEvents'[a] = liveEvents[a]
  PROVE  LogKept(a)'
  BY DEF LogKept

LEMMA LogCreate ==
  ASSUME LogInv, NEW c \in PolicyArgs, NEW pl \in Placements, CreateLivePolicy(c, pl),
         NEW a \in PolicyAddresses
  PROVE  LogKept(a)'
<1> DEFINE b == LivePolicyPda(c.owner, c.agent)
<1>1. b \in PolicyAddresses
  BY PdaType
<1>2. CASE a # b
  <2>1. livePolicies'[a] = livePolicies[a] /\ liveEvents'[a] = liveEvents[a]
    BY <1>1, <1>2 DEF CreateLivePolicy, Emit, LogInv, TypeOK
  <2> QED
    BY <2>1, LogUntouched DEF LogInv
<1>3. CASE a = b
  <2> DEFINE event == [kind |-> "PolicyCreated", owner |-> c.owner, agent |-> c.agent]
  <2>1. liveEvents[a] = <<>>
    BY <1>3 DEF CreateLivePolicy, NewAccount, LogInv, LogKept
  <2>2. liveEvents'[a] = Append(<<>>, event) /\ event.kind = "PolicyCreated"
    BY <1>1, <1>3, <2>1 DEF CreateLivePolicy, Emit, LogInv, TypeOK
  <2>3. /\ livePolicies'[a] # NoAccount
        /\ livePolicies'[a].nonce = 0 /\ livePolicies'[a].spent = 0
        /\ livePolicies'[a].active = TRUE
    <3>1. /\ livePolicies'[a].nonce = 0 /\ livePolicies'[a].spent = 0
          /\ livePolicies'[a].active = TRUE
          /\ livePolicies'[a] \in LivePolicyRecord
      BY <1>1, <1>3, PdaType, MaxU64Assumption
      DEF CreateLivePolicy, LogInv, TypeOK, PolicyArgType, LivePolicyRecord
    <3> QED
      BY <3>1, NoLivePolicyAssumption
  <2> HIDE DEF event
  <2>4. Reconciled("RouteExecuted", liveEvents'[a], livePolicies'[a].max_amount,
                   livePolicies'[a].expires_at, 0, 0, TRUE)
    BY <2>2, LogOpened DEF ChargeKinds
  <2> QED
    BY <2>3, <2>4 DEF LogKept
<1> QED
  BY <1>2, <1>3

LEMMA LogRevoke ==
  ASSUME LogInv, NEW owner \in Wallets, NEW b \in PolicyAddresses, NEW pl \in Placements,
         RevokeLive(owner, b, pl), NEW a \in PolicyAddresses
  PROVE  LogKept(a)'
<1>1. CASE a # b
  <2>1. livePolicies'[a] = livePolicies[a] /\ liveEvents'[a] = liveEvents[a]
    BY <1>1 DEF RevokeLive, Emit, LogInv, TypeOK
  <2> QED
    BY <2>1, LogUntouched DEF LogInv
<1>2. CASE a = b
  <2> DEFINE p == livePolicies[a]
             q == livePolicies'[a]
             event == [kind |-> "Revoked", at |-> now]
  <2>1. p \in LivePolicyRecord /\ p # NoAccount /\ q = [p EXCEPT !.active = FALSE]
    BY <1>2 DEF RevokeLive, CanRevoke, LogInv, TypeOK
  <2>2. /\ q \in LivePolicyRecord /\ q.active = FALSE
        /\ q.max_amount = p.max_amount /\ q.expires_at = p.expires_at
        /\ q.nonce = p.nonce /\ q.spent = p.spent
    BY <2>1 DEF LivePolicyRecord
  <2>3. q # NoAccount
    BY <2>2, NoLivePolicyAssumption
  <2>4. /\ liveEvents'[a] = Append(liveEvents[a], event) /\ event.kind = "Revoked"
        /\ event \in Event /\ liveEvents[a] \in Seq(Event)
    BY <1>2 DEF RevokeLive, Emit, LogInv, TypeOK, ChainTypeOK, Event
  <2>5. Reconciled("RouteExecuted", liveEvents[a], p.max_amount, p.expires_at,
                   p.nonce, p.spent, p.active)
    BY <2>1 DEF LogInv, LogKept
  <2> HIDE DEF p, q, event
  <2>6. Reconciled("RouteExecuted", liveEvents'[a], p.max_amount, p.expires_at,
                   p.nonce, p.spent, FALSE)
    BY <2>4, <2>5, LogRevoked DEF ChargeKinds
  <2>7. Reconciled("RouteExecuted", liveEvents'[a], q.max_amount, q.expires_at,
                   q.nonce, q.spent, q.active)
    BY <2>2, <2>6
  <2> QED
    BY <2>3, <2>7 DEF LogKept, q
<1> QED
  BY <1>1, <1>2

LEMMA LogRoute ==
  ASSUME LogInv, NEW r \in RouteRequests, NEW pl \in Placements, ExecuteRoute(r, pl),
         NEW a \in PolicyAddresses
  PROVE  LogKept(a)'
<1> DEFINE charge == balance[r.vault] - balance'[r.vault]
<1>1. r.policy \in PolicyAddresses /\ LogInv /\ TypeOK
  BY LivePolicyAssumption DEF LivePolicyAssumption, RouteRequestType, LogInv
<1>2. PICK output \in U64Range :
        Emit(r.policy, [kind |-> "RouteExecuted", amount |-> charge, output |-> output,
                        nonce |-> r.nonce, spent |-> livePolicies[r.policy].spent + charge,
                        at |-> now])
  BY <1>1, RouteEffect
<1>3. CASE a # r.policy
  <2>1. livePolicies'[a] = livePolicies[a] /\ liveEvents'[a] = liveEvents[a]
    BY <1>1, <1>2, <1>3, RouteEffect DEF Emit, TypeOK
  <2> QED
    BY <2>1, LogUntouched DEF LogInv
<1>4. CASE a = r.policy
  <2> DEFINE p == livePolicies[a]
             q == livePolicies'[a]
             event == [kind |-> "RouteExecuted", amount |-> charge, output |-> output,
                       nonce |-> r.nonce, spent |-> p.spent + charge, at |-> now]
  <2>1. /\ p \in LivePolicyRecord /\ p # NoAccount /\ p.active /\ now < p.expires_at
        /\ charge \in U64Range /\ charge > 0 /\ charge <= p.max_amount
        /\ p.spent + charge \in U64Range /\ p.nonce + 1 \in U64Range
        /\ q = Counted(p, p.spent + charge, p.nonce + 1)
    BY <1>1, <1>4, RouteEffect DEF TypeOK
  <2>2. p.active = TRUE /\ r.nonce = p.nonce
    BY <1>4, <2>1 DEF ExecuteRoute, ValidateSpend, LivePolicyRecord
  <2>3. PICK s \in U64Range, n \in U64Range : s = p.spent + charge /\ n = p.nonce + 1
    BY ONLY <2>1
  <2>4. p \in LivePolicyRecord /\ q = Counted(p, s, n)
    BY ONLY <2>1, <2>3
  <2>5. /\ q \in LivePolicyRecord /\ q.active = p.active
        /\ q.spent = s /\ q.nonce = n
        /\ q.max_amount = p.max_amount /\ q.expires_at = p.expires_at
    BY ONLY <2>4, SpentRecord, s \in U64Range, n \in U64Range
  <2>6. q # NoAccount
    BY ONLY <2>5, NoLivePolicyAssumption
  <2>7. liveEvents'[a] = Append(liveEvents[a], event)
    BY <1>1, <1>2, <1>4 DEF Emit, TypeOK
  <2>8. liveEvents[a] \in Seq(Event)
    BY <1>1 DEF TypeOK
  <2>9. event \in {event} \cup Event /\ liveEvents[a] \in Seq({event} \cup Event)
    <3> HIDE DEF event
    <3> QED
      BY <2>8
  <2>10. /\ event.kind = "RouteExecuted" /\ event.nonce = p.nonce
         /\ event.amount = charge /\ event.spent = p.spent + charge /\ event.at = now
    BY <2>2
  <2>11. Reconciled("RouteExecuted", liveEvents[a], p.max_amount, p.expires_at,
                    p.nonce, p.spent, TRUE)
    BY <2>1, <2>2 DEF LogInv, LogKept
  <2>12. /\ 0 < event.amount /\ event.amount <= p.max_amount /\ event.at < p.expires_at
         /\ event.spent = p.spent + event.amount /\ event.spent = s
    <3> HIDE DEF event, p, charge
    <3>1. charge \in Int
      BY <2>1, MaxU64Assumption
    <3> QED
      BY ONLY <2>1, <2>3, <2>10, <3>1
  <2> HIDE DEF p, q, event, charge
  <2>13. Reconciled("RouteExecuted", Append(liveEvents[a], event), p.max_amount,
                    p.expires_at, p.nonce + 1, event.spent, TRUE)
    BY <2>9, <2>10, <2>11, <2>12, LogCharged DEF ChargeKinds
  <2>14. Reconciled("RouteExecuted", liveEvents'[a], q.max_amount, q.expires_at,
                    q.nonce, q.spent, q.active)
    BY <2>2, <2>3, <2>5, <2>7, <2>12, <2>13
  <2> QED
    BY <2>6, <2>14 DEF LogKept, q
<1> QED
  BY <1>3, <1>4

LEMMA LogInvInit == Init => LogInv
  BY TypeInit DEF Init, LogInv, LogKept

LEMMA LogInvNext == LogInv /\ [Next]_vars => LogInv'
<1> SUFFICES ASSUME LogInv, [Next]_vars, NEW a \in PolicyAddresses PROVE LogKept(a)'
  BY TypeNext DEF LogInv
<1>1. CASE UNCHANGED <<livePolicies, liveEvents>>
  BY <1>1, LogUntouched DEF LogInv
<1> QED
  BY <1>1, LogCreate, LogRevoke, LogRoute
  DEF Next, RecoverLive, Environment, vars

(* The log of a live policy reconstructs the account, and every charge in  *)
(* it is positive and within the cap, whatever a routed program did.       *)
THEOREM LogHeld == Spec => []LogReconciles
<1> QED
  BY LogInvImplies, LogInvInit, LogInvNext, PTL DEF Spec

----------------------------------------------------------------------------
(* The owner's way out.  A policy stays at the address its seeds derive;   *)
(* that the tokens of a mint fit in one account is the token program's     *)
(* doing, which a routed program calls like everybody else.                *)

Addressed ==
  \A a \in PolicyAddresses : Exists(a) =>
    a = LivePolicyPda(livePolicies[a].owner, livePolicies[a].agent)

(* What a policy was entrusted with is still its own, and nobody else has  *)
(* a claim on it.                                                          *)
Kept ==
  \A a \in PolicyAddresses : \A v \in entrusted[a] : authority[v] = a /\ plain[v]

ExitInv == TypeOK /\ Addressed /\ Kept

LEMMA AddressedNext == TypeOK /\ Addressed /\ [Next]_vars => Addressed'
<1> SUFFICES ASSUME TypeOK, Addressed, [Next]_vars PROVE Addressed'
  OBVIOUS
<1>1. ASSUME NEW c \in PolicyArgs, NEW pl \in Placements, CreateLivePolicy(c, pl)
      PROVE  Addressed'
  <2>1. PICK a \in PolicyAddresses : a = LivePolicyPda(c.owner, c.agent)
    BY PdaType
  <2>2. /\ livePolicies'[a].owner = c.owner /\ livePolicies'[a].agent = c.agent
        /\ \A b \in PolicyAddresses : b # a => livePolicies'[b] = livePolicies[b]
    BY <1>1, <2>1 DEF CreateLivePolicy, TypeOK
  <2> QED
    BY <2>1, <2>2 DEF Addressed, Exists
<1>2. ASSUME NEW b \in PolicyAddresses, Exists(b),
             \A a \in PolicyAddresses : a # b => livePolicies'[a] = livePolicies[a],
             livePolicies'[b].owner = livePolicies[b].owner,
             livePolicies'[b].agent = livePolicies[b].agent
      PROVE  Addressed'
  BY <1>2 DEF Addressed, Exists
<1>3. ASSUME NEW owner \in Wallets, NEW a \in PolicyAddresses, NEW pl \in Placements,
             RevokeLive(owner, a, pl)
      PROVE  Addressed'
  <2>1. livePolicies[a] \in LivePolicyRecord /\ Exists(a)
    BY <1>3 DEF RevokeLive, CanRevoke, TypeOK, Exists
  <2>2. /\ livePolicies'[a].owner = livePolicies[a].owner
        /\ livePolicies'[a].agent = livePolicies[a].agent
        /\ \A b \in PolicyAddresses : b # a => livePolicies'[b] = livePolicies[b]
    BY <1>3, <2>1 DEF RevokeLive, TypeOK, LivePolicyRecord
  <2> QED
    BY <1>2, <2>1, <2>2
<1>4. ASSUME NEW r \in RouteRequests, NEW pl \in Placements, ExecuteRoute(r, pl)
      PROVE  Addressed'
  <2>1. PICK p, s, n : /\ p = livePolicies[r.policy]
                       /\ s = p.spent + (balance[r.vault] - balance'[r.vault])
                       /\ n = p.nonce + 1
    OBVIOUS
  <2>2. /\ r.policy \in PolicyAddresses /\ p \in LivePolicyRecord /\ p # NoAccount
        /\ livePolicies' = [livePolicies EXCEPT ![r.policy] = Counted(p, s, n)]
    BY <1>4, <2>1, RouteEffect
  <2>3. Counted(p, s, n).owner = p.owner /\ Counted(p, s, n).agent = p.agent
    BY <2>2 DEF Counted, LivePolicyRecord
  <2>4. /\ livePolicies'[r.policy] = Counted(p, s, n) /\ Exists(r.policy)
        /\ \A a \in PolicyAddresses : a # r.policy => livePolicies'[a] = livePolicies[a]
    BY <2>1, <2>2 DEF TypeOK, Exists
  <2> QED
    BY <1>2, <2>1, <2>2, <2>3, <2>4
<1>5. CASE livePolicies' = livePolicies
  BY <1>5 DEF Addressed, Exists
<1> QED
  BY <1>1, <1>3, <1>4, <1>5 DEF Next, RecoverLive, Environment, vars

(* Wallets change the authority and the claims of their own accounts only. *)
LEMMA OthersAccountsStay ==
  ASSUME TypeOK, ChainNext, NEW t \in TokenAccounts, authority[t] \notin Wallets
  PROVE  authority'[t] = authority[t] /\ plain'[t] = plain[t]
<1>1. ASSUME NEW pair \in HandOvers, SetAuthority(pair[1], pair[2])
      PROVE  authority'[t] = authority[t] /\ plain'[t] = plain[t]
  BY <1>1 DEF SetAuthority, TypeOK, ChainTypeOK
<1>2. ASSUME NEW u \in Encumbrances, Encumber(u)
      PROVE  authority'[t] = authority[t] /\ plain'[t] = plain[t]
  BY <1>2 DEF Encumber, TypeOK, ChainTypeOK
<1> QED
  BY <1>1, <1>2 DEF ChainNext, WalletTransfer, Tick

(* A route leaves the policies' accounts as they were, the signing one's   *)
(* by KeepsToVault, the others because nobody signs for them.              *)
LEMMA RouteLeaves ==
  ASSUME KeepsToVault, TypeOK,
         NEW r \in RouteRequests, NEW pl \in Placements, ExecuteRoute(r, pl),
         NEW t \in TokenAccounts, authority[t] \in PolicyAddresses
  PROVE  authority'[t] = authority[t] /\ plain'[t] = plain[t]
<1>1. PICK outcome \in Outcomes : Invoke(r, livePolicies[r.policy], outcome)
  BY DEF ExecuteRoute
<1>2. authority' = authority
  BY RouteKeeps
<1>3. authority[t] # SignerOf[r.route_program]
  BY AddressesDisjoint, LivePolicyAssumption DEF LivePolicyAssumption, RouteRequestType
<1>4. t \notin outcome.flipped
  BY <1>1, <1>3 DEF Invoke, Possible
<1>5. plain[t] \in BOOLEAN /\ plain'[t] = (plain[t] # (t \in outcome.flipped))
  BY <1>1 DEF Invoke, TypeOK, ChainTypeOK
<1> QED
  BY <1>2, <1>4, <1>5

LEMMA KeptNext ==
  ASSUME KeepsToVault, TypeOK, Kept, [Next]_vars
  PROVE  Kept'
<1>1. ASSUME entrusted' = entrusted,
             \A t \in TokenAccounts : authority[t] \in PolicyAddresses =>
               authority'[t] = authority[t] /\ plain'[t] = plain[t]
      PROVE  Kept'
  BY <1>1 DEF Kept, TypeOK
<1>2. CASE UNCHANGED <<authority, plain, entrusted>>
  BY <1>1, <1>2
<1>3. ASSUME NEW r \in RouteRequests, NEW pl \in Placements, ExecuteRoute(r, pl)
      PROVE  Kept'
  <2>1. entrusted' = entrusted
    BY <1>3 DEF ExecuteRoute
  <2> QED
    BY <1>1, <1>3, <2>1, RouteLeaves
<1>4. CASE Environment
  <2>1. ASSUME NEW a \in PolicyAddresses, NEW v \in entrusted'[a]
        PROVE  authority'[v] = a /\ plain'[v]
    <3>1. CASE v \in Unencumbered(a)'
      BY <3>1 DEF Unencumbered
    <3>2. CASE v \in entrusted[a]
      <4>1. v \in TokenAccounts /\ authority[v] = a /\ plain[v]
        BY <3>2 DEF Kept, TypeOK
      <4> QED
        BY <1>4, <4>1, AddressesDisjoint, OthersAccountsStay DEF Environment
    <3> QED
      BY <1>4, <2>1, <3>1, <3>2 DEF Environment
  <2> QED
    BY <2>1 DEF Kept
<1> QED
  BY <1>2, <1>3, <1>4 DEF Next, CreateLivePolicy, RevokeLive, RecoverLive, vars

LEMMA ExitInvInit == Init => ExitInv
  BY TypeInit DEF Init, ExitInv, Addressed, Exists, Kept, Unencumbered

LEMMA ExitInvNext == KeepsToVault /\ ExitInv /\ [Next]_vars => ExitInv'
  BY TypeNext, AddressedNext, KeptNext DEF ExitInv

LEMMA ExitInvImplies == ExitInv /\ SupplyFits => OwnerCanExit
<1> SUFFICES ASSUME ExitInv, SupplyFits, NEW a \in PolicyAddresses, Exists(a)
             PROVE  LET p == livePolicies[a] IN
                    /\ Follows(Alone)
                    /\ IF p.active
                       THEN CanRevoke(p.owner, a)
                       ELSE \A v \in entrusted[a], d \in TokenAccounts :
                              /\ authority[d] = p.owner /\ plain[d]
                              /\ MintOf[v] = p.quote_mint /\ MintOf[d] = p.quote_mint
                              => CanRecover([owner |-> p.owner, policy |-> a, vault |-> v,
                                             destination |-> d, amount |-> balance[v]])
  BY DEF OwnerCanExit
<1>1. PICK p : p = livePolicies[a]
  OBVIOUS
<1>2. /\ p \in LivePolicyRecord /\ p # NoAccount /\ p.version = LIVE_POLICY_VERSION
      /\ a = LivePolicyPda(p.owner, p.agent)
  BY <1>1 DEF ExitInv, TypeOK, Addressed, Exists, LivePolicyRecord
<1>3. Follows(Alone)
  BY DEF Follows, Alone
<1>4. Manageable(p, a, p.owner)
  BY <1>2 DEF Manageable
<1>5. CASE p.active
  <2>1. CanRevoke(p.owner, a)
    BY <1>1, <1>2, <1>4, <1>5 DEF CanRevoke
  <2> QED
    BY <1>1, <1>3, <1>5, <2>1
<1>6. CASE ~p.active
  <2>1. ASSUME NEW v \in entrusted[a], NEW d \in TokenAccounts,
               authority[d] = p.owner, plain[d],
               MintOf[v] = p.quote_mint, MintOf[d] = p.quote_mint
        PROVE  CanRecover([owner |-> p.owner, policy |-> a, vault |-> v,
                           destination |-> d, amount |-> balance[v]])
    <3>1. PICK r : r = [owner |-> p.owner, policy |-> a, vault |-> v,
                        destination |-> d, amount |-> balance[v]]
      OBVIOUS
    <3>2. v \in TokenAccounts /\ authority[v] = a /\ plain[v]
      BY DEF ExitInv, TypeOK, Kept
    <3>3. v = d \/ Fits(balance[d] + balance[v])
      BY <2>1, <3>2 DEF SupplyFits
    <3>4. CanTransfer(balance, a, v, d, balance[v])
      <4>1. balance[v] \in Int
        BY <3>2, MaxU64Assumption DEF ExitInv, TypeOK, ChainTypeOK
      <4> QED
        BY <2>1, <3>3, <3>2, <4>1 DEF CanTransfer
    <3>5. Recoverable(p, r)
      BY <1>6, <2>1, <3>1, <3>2 DEF Recoverable, ValidateToken
    <3> QED
      BY <1>1, <1>2, <1>4, <3>1, <3>4, <3>5 DEF CanRecover
  <2> QED
    BY <1>1, <1>3, <1>6, <2>1
<1> QED
  BY <1>5, <1>6

(* As long as the token program never issues more tokens of a mint than a  *)
(* u64 counts, and routed programs leave nobody a claim on the policy's    *)
(* accounts, the owner of a live policy can leave in every state, with all *)
(* that was ever entrusted to it: whatever a route did to the balances, to *)
(* accounts of its own or of others, recover_live finds the vaults as they *)
(* were.  LiveLockIn is what happens without KeepsToVault.                 *)
THEOREM ExitHeld ==
  ASSUME KeepsToVault
  PROVE  Spec /\ []SupplyFits => []OwnerCanExit
<1>1. Init => ExitInv
  BY ExitInvInit
<1>2. ExitInv /\ [Next]_vars => ExitInv'
  BY ExitInvNext
<1>3. ExitInv /\ SupplyFits => OwnerCanExit
  BY ExitInvImplies
<1> QED
  BY <1>1, <1>2, <1>3, PTL DEF Spec
=============================================================================
