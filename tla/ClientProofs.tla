---------------------------- MODULE ClientProofs ----------------------------
(***************************************************************************)
(* Theorems about the client software's parts: the preview of a policy,    *)
(* the genesis checks, the launcher of a validator, the budget and the     *)
(* candidate of a wish, the decoders of policy accounts and the messages   *)
(* of transactions.                                                        *)
(***************************************************************************)
EXTENDS
  PolicyPreview, GenesisGuard, Launch, Wire, PolicyCodec, Wish,
  WellFoundedInduction, FiniteSetTheorems, TLAPS

----------------------------------------------------------------------------
(* What a preview is worth, for every policy, request and age of the copy. *)
(* A policy changes in one direction only: it is charged, it is revoked,   *)
(* and time passes; so whatever an old copy rules out stays ruled out.     *)

USE DEF U64Range, Fits

(* The copy is an earlier state of the same policy.                        *)
CopyIsEarlier ==
  /\ policy.active => copy.active
  /\ copy.spent <= policy.spent
  /\ copy.expires_at = policy.expires_at
  /\ copy.max_amount = policy.max_amount /\ copy.total_limit = policy.total_limit
  /\ copy.allowed_recipients = policy.allowed_recipients
  /\ copy.allowed_programs = policy.allowed_programs

PreviewInv == TypeOK /\ CopyIsEarlier

----------------------------------------------------------------------------
LEMMA PreviewInvInit == PreviewInit => PreviewInv
<1> SUFFICES ASSUME PreviewInit PROVE PreviewInv
  OBVIOUS
<1>1. policy \in Policy /\ policy.spent <= policy.total_limit
  BY MaxU64Assumption, PreviewAssumption
  DEF PreviewInit, Created, Policy, MaxU64Assumption, PreviewAssumption
<1> QED
  BY <1>1, PreviewAssumption DEF PreviewInit, PreviewInv, TypeOK, CopyIsEarlier, PreviewAssumption, Policy

(* A charge adds to two counters and stays within the limit.               *)
LEMMA ChargeStep ==
  ASSUME PreviewInv, NEW r \in Request, Charge(r)
  PROVE  PreviewInv'
<1> USE DEF PreviewInv, TypeOK
<1>1. /\ r.amount \in Int /\ r.amount > 0
      /\ policy.spent + r.amount <= policy.total_limit
      /\ policy.spent + r.amount <= MaxU64
  BY PreviewAssumption DEF Charge, Spendable, ValidateSpend, Request, PreviewAssumption
<1>2. /\ policy' = [policy EXCEPT !.spent = policy.spent + r.amount, !.nonce = policy.nonce + 1]
      /\ copy' = copy /\ now' = now
  BY DEF Charge
<1>3. policy.spent + r.amount \in 0 .. MaxU64 /\ policy.nonce + 1 \in Nat
  BY <1>1, MaxU64Assumption DEF Policy, MaxU64Assumption
<1>4. policy' \in Policy
  BY <1>2, <1>3 DEF Policy
<1>5. /\ policy'.spent = policy.spent + r.amount /\ policy'.active = policy.active
      /\ policy'.expires_at = policy.expires_at /\ policy'.max_amount = policy.max_amount
      /\ policy'.total_limit = policy.total_limit
      /\ policy'.allowed_recipients = policy.allowed_recipients
      /\ policy'.allowed_programs = policy.allowed_programs
  BY <1>2 DEF Policy
<1>6. TypeOK'
  BY <1>1, <1>2, <1>4, <1>5
<1>7. CopyIsEarlier'
  BY <1>1, <1>2, <1>5 DEF CopyIsEarlier, Policy
<1> QED
  BY <1>6, <1>7

LEMMA RevokeStep ==
  ASSUME PreviewInv, Revoke
  PROVE  PreviewInv'
<1> USE DEF PreviewInv, TypeOK
<1>1. policy' \in Policy /\ ~policy'.active
  BY DEF Revoke, Policy
<1>2. /\ policy'.spent = policy.spent /\ policy'.expires_at = policy.expires_at
      /\ policy'.max_amount = policy.max_amount /\ policy'.total_limit = policy.total_limit
      /\ policy'.allowed_recipients = policy.allowed_recipients
      /\ policy'.allowed_programs = policy.allowed_programs
  BY DEF Revoke, Policy
<1> QED
  BY <1>1, <1>2 DEF Revoke, CopyIsEarlier

LEMMA PreviewInvStep == PreviewInv /\ [PreviewNext]_previewVars => PreviewInv'
<1> SUFFICES ASSUME PreviewInv, [PreviewNext]_previewVars PROVE PreviewInv'
  OBVIOUS
<1>1. CASE UNCHANGED previewVars
  BY <1>1 DEF previewVars, PreviewInv, TypeOK, CopyIsEarlier
<1>2. CASE Fetch
  BY <1>2 DEF Fetch, PreviewInv, TypeOK, CopyIsEarlier, Policy
<1>3. ASSUME NEW r \in Request, Charge(r) PROVE PreviewInv'
  BY <1>3, ChargeStep
<1>4. CASE Revoke
  BY <1>4, RevokeStep
<1>5. CASE Tick
  BY <1>5, PreviewAssumption DEF Tick, PreviewInv, TypeOK, CopyIsEarlier, PreviewAssumption
<1> QED
  BY <1>1, <1>2, <1>3, <1>4, <1>5 DEF PreviewNext

----------------------------------------------------------------------------
(* What a request asks for and what a policy holds are numbers.            *)
LEMMA Numbers ==
  ASSUME NEW p \in Policy, NEW r \in Request
  PROVE  /\ r.amount \in Int
         /\ p.max_amount \in 0 .. MaxU64 /\ p.total_limit \in 0 .. MaxU64 /\ p.spent \in 0 .. MaxU64
         /\ p.expires_at \in Int /\ MaxU64 \in Nat
<1>1. r.amount \in Amounts
  BY DEF Request
<1>2. r.amount \in Int
  BY <1>1, PreviewAssumption DEF PreviewAssumption
<1> QED
  BY <1>2, MaxU64Assumption DEF Policy, MaxU64Assumption

(* A preview is satisfied exactly when no reason to deny applies.          *)
LEMMA PreviewSatisfied ==
  ASSUME NEW p \in Policy, NEW r \in Request, NEW clock \in Int
  PROVE  Preview(p, r, clock) = "POLICY_SATISFIED" <=>
           /\ p.active /\ clock < p.expires_at
           /\ r.program \in p.allowed_programs /\ r.recipient \in p.allowed_recipients
           /\ r.amount > 0 /\ r.amount <= p.max_amount
           /\ r.amount + p.spent <= p.total_limit
<1>1. r.amount \in Int /\ p.max_amount \in Int /\ p.total_limit \in Int /\ p.expires_at \in Int
  BY Numbers
<1>2. /\ OutOfTime(p, clock) <=> ~(clock < p.expires_at)
      /\ WithinTotal(p, r.amount) <=> r.amount + p.spent <= p.total_limit
  BY Numbers DEF OutOfTime, WithinTotal
<1>3. r.amount <= 0 <=> ~(r.amount > 0)
  BY <1>1
<1>4. r.amount > p.max_amount <=> ~(r.amount <= p.max_amount)
  BY <1>1
<1> QED
  BY <1>2, <1>3, <1>4, Zenon DEF Preview

(* Denied by an earlier copy, and not just because that user's clock is    *)
(* ahead: then the policy itself denies.                                   *)
LEMMA EarlierDenial ==
  ASSUME PreviewInv, NEW r \in Request, NEW clock \in 0 .. MaxTime,
         Preview(copy, r, clock) # "POLICY_SATISFIED",
         Preview(copy, r, clock) = "EXPIRED" => clock <= now
  PROVE  ~Spendable(policy, now, r)
<1> SUFFICES ASSUME Spendable(policy, now, r) PROVE FALSE
  OBVIOUS
<1> USE DEF PreviewInv, TypeOK
<1>1. /\ policy.active /\ now < policy.expires_at
      /\ r.amount > 0 /\ r.amount <= policy.max_amount
      /\ policy.spent + r.amount <= policy.total_limit
      /\ r.program \in policy.allowed_programs /\ r.recipient \in policy.allowed_recipients
  BY DEF Spendable, ValidateSpend
<1>2. r.amount + copy.spent <= copy.total_limit
  BY <1>1, Numbers DEF CopyIsEarlier
<1>3. CASE clock >= copy.expires_at
  <2>1. Preview(copy, r, clock) = "EXPIRED"
    BY <1>1, <1>3 DEF Preview, OutOfTime, CopyIsEarlier
  <2> QED
    BY <2>1, <1>1, <1>3, PreviewAssumption DEF CopyIsEarlier, Policy, PreviewAssumption
<1>4. CASE ~(clock >= copy.expires_at)
  <2>1. copy.expires_at \in Int /\ clock \in Int
    BY PreviewAssumption DEF Policy, PreviewAssumption
  <2> QED
    BY <1>1, <1>2, <1>4, <2>1, PreviewSatisfied DEF CopyIsEarlier
<1> QED
  BY <1>3, <1>4

(* A preview that denies is right for good, however old its copy.          *)
THEOREM DenialHeld == PreviewSpec => []DenialStands
<1>1. PreviewInv => DenialStands
  BY EarlierDenial DEF DenialStands
<1> QED
  BY <1>1, PreviewInvInit, PreviewInvStep, PTL DEF PreviewSpec

(* A preview from an up-to-date copy is what the program decides.          *)
THEOREM AgreementHeld == PreviewSpec => []FreshAgrees
<1>1. PreviewInv => FreshAgrees
  <2> SUFFICES ASSUME PreviewInv, copy = policy, NEW r \in Request
               PROVE  Preview(copy, r, now) = "POLICY_SATISFIED" <=> Spendable(policy, now, r)
    BY DEF FreshAgrees
  <2>1. now \in Int /\ copy \in Policy
    BY PreviewAssumption DEF PreviewInv, TypeOK, PreviewAssumption
  <2>2. /\ r.amount + policy.spent <= policy.total_limit => policy.spent + r.amount <= MaxU64
        /\ r.amount + policy.spent = policy.spent + r.amount
    BY Numbers DEF PreviewInv, TypeOK
  <2> QED
    BY <2>1, <2>2, PreviewSatisfied DEF Spendable, ValidateSpend
<1> QED
  BY <1>1, PreviewInvInit, PreviewInvStep, PTL DEF PreviewSpec

(* So a user may act on a preview, whichever way it goes: a denial stands, *)
(* and a fresh one is right.                                               *)
THEOREM PreviewHeld == PreviewSpec => []PreviewRight
<1>1. DenialStands /\ FreshAgrees => PreviewRight
  BY DEF PreviewRight
<1> QED
  BY <1>1, DenialHeld, AgreementHeld, PTL
----------------------------------------------------------------------------
(* How much the genesis checks are worth, for any number of clients: a     *)
(* client that gets past a check although the endpoint is not meant for it *)
(* owes that to a change of the endpoint, and the same at every request,   *)
(* so that the changes a transaction needs to go astray can be counted.    *)

States == {"assert sign", "sign", "assert send", "send", "landed", "refused"}

GuardTypeOK ==
  /\ cluster \in Clusters /\ switches \in 0 .. MaxSwitches
  /\ pc \in [Clients -> States]
  /\ blockhash \in [Clients -> Clusters \cup {"none"}]
  /\ landed \in [Clients -> Clusters \cup {"none"}]

(* How many changes of the endpoint it took to bring a client where it is. *)
Owed(client) ==
  LET here == cluster \in Meant(client)
      signed == blockhash[client] \in Meant(client)
  IN
  /\ pc[client] = "sign" /\ ~here => switches >= 1
  /\ pc[client] = "assert send" /\ ~signed => switches >= 1
  /\ pc[client] = "assert send" /\ ~signed /\ here => switches >= 2
  /\ pc[client] = "send" /\ ~signed => switches >= 2
  /\ pc[client] = "send" /\ ~signed /\ ~here => switches >= 3

GuardInv ==
  /\ GuardTypeOK
  /\ \A client \in Clients : Owed(client)
  /\ MeantClusterOnly

----------------------------------------------------------------------------
LEMMA GuardInvInit == GuardInit => GuardInv
<1> SUFFICES ASSUME GuardInit PROVE GuardInv
  OBVIOUS
<1>1. GuardTypeOK
  <2>0. switches = 0 /\ MaxSwitches \in Nat
    BY GuardAssumption, Zenon DEF GuardInit, GuardAssumption
  <2>1. pc \in [Clients -> States]
    BY DEF GuardInit, States
  <2>2. /\ blockhash \in [Clients -> Clusters \cup {"none"}]
        /\ landed \in [Clients -> Clusters \cup {"none"}]
    BY DEF GuardInit
  <2>3. cluster \in Clusters
    BY DEF GuardInit
  <2>4. switches \in 0 .. MaxSwitches
    BY <2>0
  <2> QED
    BY <2>1, <2>2, <2>3, <2>4 DEF GuardTypeOK
<1>2. ASSUME NEW client \in Clients
      PROVE  pc[client] = "assert sign" /\ landed[client] = "none"
  BY DEF GuardInit
<1> QED
  BY <1>1, <1>2 DEF GuardInv, Owed, MeantClusterOnly

(* A client's own step leaves its peers where they are.                    *)
LEMMA AssertStep ==
  ASSUME GuardInv, NEW client \in Clients, AskGenesis(client)
  PROVE  GuardInv'
<1> USE DEF GuardInv, GuardTypeOK
<1>1. GuardTypeOK'
  BY DEF AskGenesis, Goes, States
<1>2. ASSUME NEW c \in Clients PROVE Owed(c)'
  <2>1. CASE c = client
    BY <2>1 DEF AskGenesis, Goes, Owed, Meant
  <2>2. CASE c # client
    BY <2>2 DEF AskGenesis, Goes, Owed, Meant
  <2> QED
    BY <2>1, <2>2
<1>3. MeantClusterOnly'
  BY DEF AskGenesis, MeantClusterOnly, Meant
<1> QED
  BY <1>1, <1>2, <1>3

LEMMA SignStep ==
  ASSUME GuardInv, NEW client \in Clients, Sign(client)
  PROVE  GuardInv'
<1> USE DEF GuardInv, GuardTypeOK
<1>1. GuardTypeOK'
  BY DEF Sign, Goes, AfterSigning, States
<1>2. ASSUME NEW c \in Clients PROVE Owed(c)'
  BY <1>2 DEF Sign, Goes, AfterSigning, Owed, Meant, States
<1>3. MeantClusterOnly'
  BY DEF Sign, MeantClusterOnly, Meant
<1> QED
  BY <1>1, <1>2, <1>3

(* Here the count is spent: a stray transaction would have needed three.   *)
LEMMA SendStep ==
  ASSUME GuardInv, NEW client \in Clients, Send(client), MaxSwitches <= 2
  PROVE  GuardInv'
<1> USE DEF GuardInv, GuardTypeOK
<1>1. GuardTypeOK'
  BY DEF Send, Goes, States
<1>2. ASSUME NEW c \in Clients PROVE Owed(c)'
  BY <1>2 DEF Send, Goes, Owed, Meant, States
<1>3. cluster \in Meant(client) \/ blockhash[client] # cluster
  <2>1. switches <= 2
    BY GuardAssumption DEF GuardAssumption
  <2>2. pc[client] = "send" /\ switches \in Int
    BY DEF Send
  <2>3. Owed(client)
    OBVIOUS
  <2> HIDE DEF GuardInv, GuardTypeOK
  <2> QED
    BY <2>1, <2>2, <2>3 DEF Owed
<1>4. MeantClusterOnly'
  BY <1>3 DEF Send, Goes, MeantClusterOnly, Meant
<1> QED
  BY <1>1, <1>2, <1>4

LEMMA SwitchStep ==
  ASSUME GuardInv, Switch
  PROVE  GuardInv'
<1> USE DEF GuardInv, GuardTypeOK
<1>1. GuardTypeOK'
  BY GuardAssumption DEF Switch, GuardAssumption
<1>2. ASSUME NEW c \in Clients PROVE Owed(c)'
  <2>1. switches \in Nat /\ switches' = switches + 1 /\ pc' = pc /\ blockhash' = blockhash
    BY GuardAssumption DEF Switch, GuardAssumption
  <2>2. Owed(c)
    BY <1>2
  <2> HIDE DEF GuardInv, GuardTypeOK
  <2>3. ASSUME pc[c] = "sign" PROVE switches' >= 1
    BY <2>1
  <2>4. ASSUME pc[c] = "assert send", blockhash[c] \notin Meant(c) PROVE switches' >= 2
    <3>1. switches >= 1
      BY <2>2, <2>4, Zenon DEF Owed
    <3> QED
      BY <2>1, <3>1
  <2>5. ASSUME pc[c] = "send", blockhash[c] \notin Meant(c) PROVE switches' >= 3
    BY <2>1, <2>2, <2>5 DEF Owed
  <2>6. switches' >= 2 => switches' >= 1
    BY <2>1
  <2>7. switches' >= 3 => switches' >= 2
    BY <2>1
  <2> QED
    BY <2>1, <2>3, <2>4, <2>5, <2>6, <2>7 DEF Owed, Meant
<1>3. MeantClusterOnly'
  BY DEF Switch, MeantClusterOnly, Meant
<1> QED
  BY <1>1, <1>2, <1>3

(* With at most two changes of the endpoint in the whole of a behaviour, a *)
(* transaction of either pair of methods lands only where it is meant to.  *)
THEOREM MeantClusterHeld ==
  ASSUME MaxSwitches <= 2
  PROVE  GuardSpec => []MeantClusterOnly
<1>1. GuardInv /\ [GuardNext]_guardVars => GuardInv'
  <2> SUFFICES ASSUME GuardInv, [GuardNext]_guardVars PROVE GuardInv'
    OBVIOUS
  <2>1. CASE UNCHANGED guardVars
    BY <2>1 DEF guardVars, GuardInv, GuardTypeOK, Owed, MeantClusterOnly, Meant
  <2>2. CASE Switch
    BY <2>2, SwitchStep
  <2>3. ASSUME NEW client \in Clients, AskGenesis(client) PROVE GuardInv'
    BY <2>3, AssertStep
  <2>4. ASSUME NEW client \in Clients, Sign(client) PROVE GuardInv'
    BY <2>4, SignStep
  <2>5. ASSUME NEW client \in Clients, Send(client) PROVE GuardInv'
    BY <2>5, SendStep
  <2> QED
    BY <2>1, <2>2, <2>3, <2>4, <2>5 DEF GuardNext
<1>2. GuardInv => MeantClusterOnly
  BY DEF GuardInv
<1> QED
  BY <1>1, <1>2, GuardInvInit, PTL DEF GuardSpec
----------------------------------------------------------------------------
(* The launcher.  Node may know less of the validator than is so, but what *)
(* it knows is so; and it waits for the exit event only of a process that  *)
(* it takes for running, or that a signal ended.                           *)

LaunchInv ==
  /\ L!LaunchSafe
  /\ told \in {"none", "running"} \cup L!Dead
  /\ told = "none" <=> validator = "none"
  /\ at \in {"build", "spawn"} => validator = "none"
  /\ at = "exit event" => told \in {"running", "signalled"}

LEMMA LaunchInit == Tries \in Nat /\ L!Init => LaunchInv
  BY DEF LaunchInv, L!Init, L!LaunchSafe, L!TypeOK, L!NeverLeftRunning, L!OwnLedger,
         L!ExitReported, L!Scripts, L!Alive, L!Dead

LEMMA LaunchStep ==
  ASSUME Tries \in Nat, LaunchInv, [L!Next]_(L!vars)
  PROVE  LaunchInv'
<1> USE DEF LaunchInv, L!LaunchSafe, L!TypeOK, L!NeverLeftRunning, L!OwnLedger,
            L!ExitReported, L!Scripts, L!Alive, L!Dead, L!Goes, L!Throws, L!Closed
<1>1. CASE L!Build
  BY <1>1 DEF L!Build
<1>2. CASE L!SpawnValidator
  BY <1>2 DEF L!SpawnValidator
<1>3. CASE L!Poll
  <2>1. L!Poll
    BY <1>3
  <2>2. CASE at' = "poll" /\ polls < Tries /\ polls' = polls + 1 /\ UNCHANGED error
    BY <2>1, <2>2 DEF L!Poll
  <2>3. CASE at' \in {"bootstrap", "stop"} /\ (at' = "bootstrap" => port = "ours") /\ UNCHANGED polls
    BY <2>1, <2>3 DEF L!Poll
  <2> QED
    BY <2>1, <2>2, <2>3 DEF L!Poll, L!More, L!Ready
<1>4. CASE L!RunScript
  BY <1>4 DEF L!RunScript
<1>5. CASE L!Stop
  BY <1>5 DEF L!Stop, L!NeedsStopping
<1>6. CASE L!Timer
  BY <1>6 DEF L!Timer, L!Killed
<1>7. CASE L!Unsettled
  BY <1>7 DEF L!Unsettled
<1>8. CASE L!Learn
  BY <1>8 DEF L!Learn
<1>9. CASE L!Serves
  BY <1>9 DEF L!Serves
<1>10. CASE L!Exits
  BY <1>10 DEF L!Exits
<1>11. CASE L!Dies
  BY <1>11 DEF L!Dies
<1>12. CASE L!Others
  BY <1>12 DEF L!Others
<1>13. CASE UNCHANGED L!vars
  BY <1>13 DEF L!vars
<1> QED
  BY <1>1, <1>2, <1>3, <1>4, <1>5, <1>6, <1>7, <1>8, <1>9, <1>10, <1>11, <1>12, <1>13
  DEF L!Next, L!Script

(* However long the launcher polls and whoever else takes the port, signals *)
(* the validator or lets it die: the scripts work on its own ledger, what   *)
(* went wrong is not lost unless a signal ended the validator, and nothing  *)
(* is left running.                                                         *)
THEOREM LaunchHeld ==
  ASSUME Tries \in Nat
  PROVE  L!Spec => []LaunchSafe
<1>1. LaunchInv => LaunchSafe
  BY DEF LaunchInv, LaunchSafe
<1> QED
  BY <1>1, LaunchInit, LaunchStep, PTL DEF L!Spec

----------------------------------------------------------------------------
HIDE DEF U64Range, Fits

(* Of the numbers in a set one comes first.                                *)
LEMMA Earliest ==
  ASSUME NEW D, D \subseteq Nat, D # {}
  PROVE  \E x \in D : \A y \in D : ~(y < x)
<1>1. PICK R : R = OpToRel(<, Nat)
  OBVIOUS
<1>2. \A x, y : <<y, x>> \in R <=> x \in Nat /\ y \in Nat /\ y < x
  BY <1>1 DEF OpToRel
<1>3. \E x \in D : \A y \in D : <<y, x>> \notin R
  <2>1. IsWellFoundedOn(R, Nat)
    BY <1>1, NatLessThanWellFounded
  <2> QED
    BY <2>1, WFMin
<1> QED
  BY <1>2, <1>3

(* So a set that holds 0 and with each number the next holds all of them.  *)
LEMMA Induct ==
  ASSUME NEW D, 0 \in D, \A n \in Nat : n \in D => n + 1 \in D
  PROVE  \A n \in Nat : n \in D
<1>1. PICK B : B = { n \in Nat : n \notin D }
  OBVIOUS
<1>2. CASE B = {}
  BY <1>1, <1>2
<1>3. CASE B # {}
  <2>1. PICK x \in B : \A y \in B : ~(y < x)
    <3>1. B \subseteq Nat
      BY <1>1
    <3> QED
      BY <1>3, <3>1, Earliest
  <2>2. x \in Nat /\ x \notin D /\ x # 0
    BY <1>1
  <2>3. x - 1 \in Nat /\ x - 1 < x /\ (x - 1) + 1 = x
    BY <2>2
  <2>4. x - 1 \in D
    BY <1>1, <2>1, <2>3
  <2> QED
    BY <2>2, <2>3, <2>4
<1> QED
  BY <1>2, <1>3

(* f is made by a start and a step, up to n.                               *)
Course(n, base, step, f) ==
  f[0] = base /\ \A i \in 1 .. n : f[i] = step[<<i, f[i - 1]>>]

Steps(S) == [Nat \X S -> S]

Upto(n, S) == [0 .. n -> S]

(* There is only one such function,                                        *)
LEMMA OneCourse ==
  ASSUME NEW n \in Nat, NEW base, NEW step, NEW f, NEW g,
         Course(n, base, step, f), Course(n, base, step, g)
  PROVE  \A i \in 0 .. n : f[i] = g[i]
<1>1. /\ f[0] = base /\ \A i \in 1 .. n : f[i] = step[<<i, f[i - 1]>>]
      /\ g[0] = base /\ \A i \in 1 .. n : g[i] = step[<<i, g[i - 1]>>]
  BY DEF Course
<1>2. PICK D : D = { i \in Nat : i <= n => f[i] = g[i] }
  OBVIOUS
<1>3. 0 \in D
  BY <1>1, <1>2
<1>4. ASSUME NEW i \in Nat, i \in D
      PROVE  i + 1 \in D
  <2>1. CASE i + 1 <= n
    <3>1. f[i] = g[i] /\ i + 1 \in 1 .. n /\ (i + 1) - 1 = i
      BY <1>2, <1>4, <2>1
    <3>2. f[i + 1] = g[i + 1]
      BY <1>1, <3>1
    <3> QED
      BY <1>2, <3>2
  <2>2. CASE ~(i + 1 <= n)
    BY <1>2, <2>2
  <2> QED
    BY <2>1, <2>2
<1>5. \A i \in Nat : i \in D
  BY <1>3, <1>4, Induct
<1> QED
  BY <1>2, <1>5

(* and there is one.                                                       *)
LEMMA Recursion ==
  ASSUME NEW S, NEW base \in S, NEW step \in Steps(S), NEW n \in Nat
  PROVE  \E f \in Upto(n, S) : Course(n, base, step, f)
<1> USE DEF Course, Upto, Steps
<1>1. PICK D : D = { m \in Nat : \E f \in Upto(m, S) : Course(m, base, step, f) }
  OBVIOUS
<1>2. 0 \in D
  <2>1. PICK f : f = [i \in 0 .. 0 |-> base]
    OBVIOUS
  <2>2. f \in Upto(0, S) /\ Course(0, base, step, f)
    BY <2>1
  <2> QED
    BY ONLY <1>1, <2>2
<1>3. ASSUME NEW m \in Nat, m \in D
      PROVE  m + 1 \in D
  <2>1. PICK f \in Upto(m, S) : Course(m, base, step, f)
    BY ONLY <1>1, <1>3
  <2>2. f[0] = base /\ \A i \in 1 .. m : f[i] = step[<<i, f[i - 1]>>]
    BY <2>1
  <2>3. PICK v \in S : v = step[<<m + 1, f[m]>>]
    OBVIOUS
  <2>4. PICK h : h = [i \in 0 .. m + 1 |-> IF i = m + 1 THEN v ELSE f[i]]
    OBVIOUS
  <2>5. /\ h \in [0 .. m + 1 -> S]
        /\ h[m + 1] = v /\ \A i \in 0 .. m : h[i] = f[i]
    BY <2>4
  <2>6. h[0] = base
    BY <2>2, <2>5
  <2>7. ASSUME NEW i \in 1 .. m + 1
        PROVE  h[i] = step[<<i, h[i - 1]>>]
    <3>1. CASE i = m + 1
      <4>1. h[i - 1] = f[m]
        BY <2>5, <3>1
      <4> QED
        BY <2>3, <2>5, <3>1, <4>1
    <3>2. CASE i # m + 1
      <4>1. i \in 1 .. m /\ i \in 0 .. m /\ i - 1 \in 0 .. m
        BY <3>2
      <4> QED
        BY <2>2, <2>5, <4>1
    <3> QED
      BY <3>1, <3>2
  <2>8. h \in Upto(m + 1, S) /\ Course(m + 1, base, step, h)
    BY <2>5, <2>6, <2>7
  <2> QED
    BY ONLY <1>1, <2>8, m + 1 \in Nat
<1>4. \A m \in Nat : m \in D
  BY ONLY <1>2, <1>3, Induct
<1> QED
  BY ONLY <1>1, <1>4, n \in Nat

----------------------------------------------------------------------------
(* The budget, for every sequence of digits and any number of decimals.    *)

(* v[i] is the number that the first i of the digits s make.               *)
Counts(s, v) == v = [i \in 0 .. Len(s) |-> IF i = 0 THEN 0 ELSE 10 * v[i - 1] + s[i]]

(* v[i] is the i-th power of ten.                                          *)
Powers(k, v) == v = [i \in 0 .. k |-> IF i = 0 THEN 1 ELSE 10 * v[i - 1]]

LEMMA NumberValue ==
  ASSUME NEW s \in Seq(Nat)
  PROVE  \E v \in Upto(Len(s), Nat) :
           /\ v[0] = 0 /\ v[Len(s)] = Number(s)
           /\ \A i \in 1 .. Len(s) : v[i] = 10 * v[i - 1] + s[i]
<1> DEFINE value[i \in 0 .. Len(s)] == IF i = 0 THEN 0 ELSE 10 * value[i - 1] + s[i]
<1>1. PICK n \in Nat : n = Len(s) /\ \A i \in 1 .. n : s[i] \in Nat
  OBVIOUS
<1>2. PICK step : step = [x \in Nat \X Nat |-> 10 * x[2] + IF x[1] \in 1 .. n THEN s[x[1]] ELSE 0]
  OBVIOUS
<1>3. \A i \in 1 .. n : \A x \in Nat : step[<<i, x>>] = 10 * x + s[i]
  BY <1>2
<1>4. step \in Steps(Nat)
  <2>1. ASSUME NEW x \in Nat \X Nat
        PROVE  10 * x[2] + (IF x[1] \in 1 .. n THEN s[x[1]] ELSE 0) \in Nat
    BY <1>1
  <2> QED
    BY <1>2, <2>1 DEF Steps
<1>5. PICK f \in Upto(n, Nat) : Course(n, 0, step, f)
  BY <1>4, Recursion, 0 \in Nat
<1>6. f[0] = 0 /\ \A i \in 1 .. n : f[i] = step[<<i, f[i - 1]>>]
  BY <1>5 DEF Course
<1>7. f \in [0 .. n -> Nat]
  BY <1>5 DEF Upto
<1>8. \A i \in 0 .. n : f[i] = IF i = 0 THEN 0 ELSE 10 * f[i - 1] + s[i]
  <2> SUFFICES ASSUME NEW i \in 1 .. n PROVE f[i] = 10 * f[i - 1] + s[i]
    BY <1>6
  <2>1. f[i - 1] \in Nat
    BY <1>7
  <2> QED
    BY <1>3, <1>6, <2>1
<1>9. Counts(s, f)
  BY <1>1, <1>7, <1>8 DEF Counts
<1>10. Counts(s, value)
  BY <1>9 DEF Counts
<1>11. Number(s) = value[Len(s)]
  BY DEF Number
<1> HIDE DEF value
<1>12. PICK g : g = value
  OBVIOUS
<1>13. g = [i \in 0 .. n |-> IF i = 0 THEN 0 ELSE 10 * g[i - 1] + s[i]]
  BY <1>1, <1>10, <1>12 DEF Counts
<1>14. g[0] = 0 /\ \A i \in 1 .. n : g[i] = 10 * g[i - 1] + s[i]
  <2>1. \A i \in 0 .. n : g[i] = IF i = 0 THEN 0 ELSE 10 * g[i - 1] + s[i]
    BY <1>13
  <2> QED
    BY <2>1
<1>15. \A i \in 0 .. n : g[i] \in Nat
  <2>1. PICK D : D = { i \in Nat : i <= n => g[i] \in Nat }
    OBVIOUS
  <2>2. 0 \in D
    BY <1>14, <2>1
  <2>3. ASSUME NEW i \in Nat, i \in D
        PROVE  i + 1 \in D
    <3>1. CASE i + 1 <= n
      <4>1. g[i] \in Nat /\ i + 1 \in 1 .. n /\ (i + 1) - 1 = i
        BY <2>1, <2>3, <3>1
      <4>2. g[i + 1] = 10 * g[i] + s[i + 1] /\ s[i + 1] \in Nat
        BY <1>1, <1>14, <4>1
      <4> QED
        BY <2>1, <4>1, <4>2
    <3>2. CASE ~(i + 1 <= n)
      BY <2>1, <3>2
    <3> QED
      BY <3>1, <3>2
  <2>4. \A i \in Nat : i \in D
    BY <2>2, <2>3, Induct
  <2> QED
    BY <2>1, <2>4
<1>16. g \in Upto(n, Nat)
  <2>1. g = [i \in 0 .. n |-> g[i]]
    BY <1>13
  <2> QED
    BY <1>15, <2>1 DEF Upto
<1> QED
  BY <1>1, <1>11, <1>12, <1>14, <1>16

LEMMA TensValue ==
  ASSUME NEW k \in Nat
  PROVE  \E v \in Upto(k, Nat) :
           v[0] = 1 /\ v[k] = Tens(k) /\ \A i \in 1 .. k : v[i] = 10 * v[i - 1]
<1> DEFINE power[i \in 0 .. k] == IF i = 0 THEN 1 ELSE 10 * power[i - 1]
<1>1. PICK step : step = [x \in Nat \X Nat |-> 10 * x[2]]
  OBVIOUS
<1>2. step \in Steps(Nat) /\ \A i, x \in Nat : step[<<i, x>>] = 10 * x
  BY <1>1 DEF Steps
<1>3. PICK f \in Upto(k, Nat) : Course(k, 1, step, f)
  BY <1>2, Recursion, 1 \in Nat
<1>4. f[0] = 1 /\ \A i \in 1 .. k : f[i] = step[<<i, f[i - 1]>>]
  BY <1>3 DEF Course
<1>5. f \in [0 .. k -> Nat]
  BY <1>3 DEF Upto
<1>6. \A i \in 0 .. k : f[i] = IF i = 0 THEN 1 ELSE 10 * f[i - 1]
  <2> SUFFICES ASSUME NEW i \in 1 .. k PROVE f[i] = 10 * f[i - 1]
    BY <1>4
  <2>1. f[i - 1] \in Nat /\ i \in Nat
    BY <1>5
  <2> QED
    BY <1>2, <1>4, <2>1
<1>7. Powers(k, f)
  BY <1>5, <1>6 DEF Powers
<1>8. Powers(k, power)
  BY <1>7 DEF Powers
<1>9. Tens(k) = power[k]
  BY DEF Tens
<1> HIDE DEF power
<1>10. PICK g : g = power
  OBVIOUS
<1>11. g = [i \in 0 .. k |-> IF i = 0 THEN 1 ELSE 10 * g[i - 1]]
  BY <1>8, <1>10 DEF Powers
<1>12. g[0] = 1 /\ \A i \in 1 .. k : g[i] = 10 * g[i - 1]
  <2>1. \A i \in 0 .. k : g[i] = IF i = 0 THEN 1 ELSE 10 * g[i - 1]
    BY <1>11
  <2> QED
    BY <2>1
<1>13. \A i \in 0 .. k : g[i] \in Nat
  <2>1. PICK D : D = { i \in Nat : i <= k => g[i] \in Nat }
    OBVIOUS
  <2>2. 0 \in D
    BY <1>12, <2>1
  <2>3. ASSUME NEW i \in Nat, i \in D
        PROVE  i + 1 \in D
    <3>1. CASE i + 1 <= k
      <4>1. g[i] \in Nat /\ i + 1 \in 1 .. k /\ (i + 1) - 1 = i
        BY <2>1, <2>3, <3>1
      <4>2. g[i + 1] = 10 * g[i]
        BY <1>12, <4>1
      <4> QED
        BY <2>1, <4>1, <4>2
    <3>2. CASE ~(i + 1 <= k)
      BY <2>1, <3>2
    <3> QED
      BY <3>1, <3>2
  <2>4. \A i \in Nat : i \in D
    BY <2>2, <2>3, Induct
  <2> QED
    BY <2>1, <2>4
<1>14. g \in Upto(k, Nat)
  <2>1. g = [i \in 0 .. k |-> g[i]]
    BY <1>11
  <2> QED
    BY <1>13, <2>1 DEF Upto
<1> QED
  BY <1>9, <1>10, <1>12, <1>14

(* The numbers of the digits and of a power's exponents.                   *)
LEMMA NumberNat ==
  ASSUME NEW s \in Seq(Nat)
  PROVE  Number(s) \in Nat
<1>1. PICK v \in Upto(Len(s), Nat) : v[Len(s)] = Number(s)
  BY NumberValue
<1> QED
  BY <1>1 DEF Upto

LEMMA TensNat ==
  ASSUME NEW k \in Nat
  PROVE  Tens(k) \in Nat /\ Tens(k) > 0
<1>1. PICK v \in Upto(k, Nat) :
        v[0] = 1 /\ v[k] = Tens(k) /\ \A i \in 1 .. k : v[i] = 10 * v[i - 1]
  BY TensValue
<1>2. PICK D : D = { i \in Nat : i <= k => v[i] > 0 }
  OBVIOUS
<1>3. \A i \in 0 .. k : v[i] \in Nat
  BY <1>1 DEF Upto
<1>4. 0 \in D
  BY <1>1, <1>2
<1>5. ASSUME NEW i \in Nat, i \in D
      PROVE  i + 1 \in D
  <2>1. CASE i + 1 <= k
    <3>1. v[i] > 0 /\ v[i] \in Nat /\ i + 1 \in 1 .. k /\ (i + 1) - 1 = i
      BY <1>2, <1>3, <1>5, <2>1
    <3>2. v[i + 1] = 10 * v[i]
      BY <1>1, <3>1
    <3> QED
      BY <1>2, <3>1, <3>2
  <2>2. CASE ~(i + 1 <= k)
    BY <1>2, <2>2
  <2> QED
    BY <2>1, <2>2
<1>6. \A i \in Nat : i \in D
  BY <1>4, <1>5, Induct
<1> QED
  BY <1>1, <1>2, <1>3, <1>6

(* Digits behind others.                                                   *)
LEMMA NumberConcat ==
  ASSUME NEW s \in Seq(Nat), NEW t \in Seq(Nat)
  PROVE  Number(s \o t) = Number(s) * Tens(Len(t)) + Number(t)
<1>1. PICK st : st = s \o t
  OBVIOUS
<1>2. PICK m \in Nat, n \in Nat : m = Len(s) /\ n = Len(t)
  OBVIOUS
<1>3. /\ Len(st) = m + n /\ st \in Seq(Nat)
      /\ \A i \in 1 .. m : st[i] = s[i]
      /\ \A i \in 1 .. n : st[m + i] = t[i]
  BY <1>1, <1>2
<1>4. PICK v \in Upto(m, Nat) :
        v[0] = 0 /\ v[m] = Number(s) /\ \A i \in 1 .. m : v[i] = 10 * v[i - 1] + s[i]
  BY <1>2, NumberValue
<1>5. PICK w \in Upto(n, Nat) :
        w[0] = 0 /\ w[n] = Number(t) /\ \A i \in 1 .. n : w[i] = 10 * w[i - 1] + t[i]
  BY <1>2, NumberValue
<1>6. PICK u \in Upto(m + n, Nat) :
        u[0] = 0 /\ u[m + n] = Number(st) /\ \A i \in 1 .. m + n : u[i] = 10 * u[i - 1] + st[i]
  <2>1. PICK u \in Upto(Len(st), Nat) :
          /\ u[0] = 0 /\ u[Len(st)] = Number(st)
          /\ \A i \in 1 .. Len(st) : u[i] = 10 * u[i - 1] + st[i]
    BY <1>3, NumberValue
  <2> QED
    BY <1>3, <2>1
<1>7. PICK p \in Upto(n, Nat) :
        p[0] = 1 /\ p[n] = Tens(n) /\ \A i \in 1 .. n : p[i] = 10 * p[i - 1]
  BY <1>2, TensValue
<1>8. /\ \A i \in 0 .. n : w[i] \in Nat /\ p[i] \in Nat
      /\ \A i \in 0 .. m : v[i] \in Nat
      /\ \A i \in 0 .. m + n : u[i] \in Nat
  BY DEF Upto
<1>9. u[m] = v[m]
  <2>1. PICK D : D = { i \in Nat : i <= m => u[i] = v[i] }
    OBVIOUS
  <2>2. 0 \in D
    BY <1>4, <1>6, <2>1
  <2>3. ASSUME NEW i \in Nat, i \in D
        PROVE  i + 1 \in D
    <3>1. CASE i + 1 <= m
      <4>1. /\ u[i] = v[i] /\ i + 1 \in 1 .. m /\ i + 1 \in 1 .. m + n
            /\ (i + 1) - 1 = i
        BY <2>1, <2>3, <3>1
      <4>2. v[i + 1] = 10 * v[i] + s[i + 1] /\ u[i + 1] = 10 * u[i] + st[i + 1]
        BY <1>4, <1>6, <4>1
      <4> QED
        BY <1>3, <2>1, <4>1, <4>2
    <3>2. CASE ~(i + 1 <= m)
      BY <2>1, <3>2
    <3> QED
      BY <3>1, <3>2
  <2>4. \A i \in Nat : i \in D
    BY <2>2, <2>3, Induct
  <2> QED
    BY <2>1, <2>4
<1>10. PICK V \in Nat : V = v[m]
  <2>1. m \in 0 .. m
    OBVIOUS
  <2>2. v[m] \in Nat
    BY <1>8, <2>1
  <2> QED
    BY ONLY <2>2
<1>11. u[m + n] = V * p[n] + w[n]
  <2>1. PICK D : D = { i \in Nat : i <= n => u[m + i] = V * p[i] + w[i] }
    OBVIOUS
  <2>2. 0 \in D
    BY <1>5, <1>7, <1>9, <1>10, <2>1
  <2>3. ASSUME NEW i \in Nat, i \in D
        PROVE  i + 1 \in D
    <3>1. CASE i + 1 <= n
      <4>1. /\ u[m + i] = V * p[i] + w[i]
            /\ i \in 0 .. n /\ i + 1 \in 1 .. n /\ m + i + 1 \in 1 .. m + n
            /\ (i + 1) - 1 = i /\ (m + i + 1) - 1 = m + i
        BY <2>1, <2>3, <3>1
      <4>2. PICK P \in Nat, W \in Nat, d \in Nat : P = p[i] /\ W = w[i] /\ d = t[i + 1]
        BY <1>2, <1>8, <4>1
      <4>3. p[i + 1] = 10 * P /\ w[i + 1] = 10 * W + d
        BY <1>5, <1>7, <4>1, <4>2
      <4>4. u[m + i + 1] = 10 * u[m + i] + st[m + i + 1]
        BY <1>6, <4>1
      <4>5. st[m + i + 1] = d
        BY <1>3, <4>1, <4>2
      <4>6. u[m + i + 1] = 10 * (V * P + W) + d
        BY <4>1, <4>2, <4>4, <4>5
      <4>7. 10 * (V * P + W) + d = V * (10 * P) + (10 * W + d)
        BY ONLY V \in Nat, P \in Nat, W \in Nat, d \in Nat
      <4>8. u[m + (i + 1)] = V * p[i + 1] + w[i + 1]
        BY <4>3, <4>6, <4>7
      <4> QED
        BY <2>1, <4>8
    <3>2. CASE ~(i + 1 <= n)
      BY <2>1, <3>2
    <3> QED
      BY <3>1, <3>2
  <2>4. \A i \in Nat : i \in D
    BY <2>2, <2>3, Induct
  <2> QED
    BY <2>1, <2>4
<1> QED
  BY <1>1, <1>2, <1>4, <1>5, <1>6, <1>7, <1>10, <1>11

LEMMA TensPlus ==
  ASSUME NEW a \in Nat, NEW b \in Nat
  PROVE  Tens(a + b) = Tens(a) * Tens(b)
<1>1. PICK v \in Upto(a, Nat) :
        v[0] = 1 /\ v[a] = Tens(a) /\ \A i \in 1 .. a : v[i] = 10 * v[i - 1]
  BY TensValue
<1>2. PICK w \in Upto(b, Nat) :
        w[0] = 1 /\ w[b] = Tens(b) /\ \A i \in 1 .. b : w[i] = 10 * w[i - 1]
  BY TensValue
<1>3. PICK u \in Upto(a + b, Nat) :
        u[0] = 1 /\ u[a + b] = Tens(a + b) /\ \A i \in 1 .. a + b : u[i] = 10 * u[i - 1]
  BY TensValue
<1>4. /\ \A i \in 0 .. b : w[i] \in Nat
      /\ \A i \in 0 .. a : v[i] \in Nat
      /\ \A i \in 0 .. a + b : u[i] \in Nat
  BY DEF Upto
<1>5. u[a] = v[a]
  <2>1. PICK D : D = { i \in Nat : i <= a => u[i] = v[i] }
    OBVIOUS
  <2>2. 0 \in D
    BY <1>1, <1>3, <2>1
  <2>3. ASSUME NEW i \in Nat, i \in D
        PROVE  i + 1 \in D
    <3>1. CASE i + 1 <= a
      <4>1. /\ u[i] = v[i] /\ i + 1 \in 1 .. a /\ i + 1 \in 1 .. a + b
            /\ (i + 1) - 1 = i
        BY <2>1, <2>3, <3>1
      <4>2. v[i + 1] = 10 * v[i] /\ u[i + 1] = 10 * u[i]
        BY <1>1, <1>3, <4>1
      <4> QED
        BY <2>1, <4>1, <4>2
    <3>2. CASE ~(i + 1 <= a)
      BY <2>1, <3>2
    <3> QED
      BY <3>1, <3>2
  <2>4. \A i \in Nat : i \in D
    BY <2>2, <2>3, Induct
  <2> QED
    BY <2>1, <2>4
<1>6. PICK V \in Nat : V = v[a]
  BY <1>4
<1>7. u[a + b] = V * w[b]
  <2>1. PICK D : D = { i \in Nat : i <= b => u[a + i] = V * w[i] }
    OBVIOUS
  <2>2. 0 \in D
    BY <1>2, <1>5, <1>6, <2>1
  <2>3. ASSUME NEW i \in Nat, i \in D
        PROVE  i + 1 \in D
    <3>1. CASE i + 1 <= b
      <4>1. /\ u[a + i] = V * w[i]
            /\ i \in 0 .. b /\ i + 1 \in 1 .. b /\ a + i + 1 \in 1 .. a + b
            /\ (i + 1) - 1 = i /\ (a + i + 1) - 1 = a + i
        BY <2>1, <2>3, <3>1
      <4>2. PICK W \in Nat : W = w[i]
        BY <1>4, <4>1
      <4>3. w[i + 1] = 10 * W
        BY <1>2, <4>1, <4>2
      <4>4. u[a + i + 1] = 10 * u[a + i]
        BY <1>3, <4>1
      <4>5. 10 * (V * W) = V * (10 * W)
        BY ONLY V \in Nat, W \in Nat
      <4>6. u[a + (i + 1)] = V * w[i + 1]
        BY <4>1, <4>2, <4>3, <4>4, <4>5
      <4> QED
        BY <2>1, <4>6
    <3>2. CASE ~(i + 1 <= b)
      BY <2>1, <3>2
    <3> QED
      BY <3>1, <3>2
  <2>4. \A i \in Nat : i \in D
    BY <2>2, <2>3, Induct
  <2> QED
    BY <2>1, <2>4
<1> QED
  BY <1>1, <1>2, <1>3, <1>6, <1>7

LEMMA NumberZeros ==
  ASSUME NEW k \in Nat
  PROVE  Zeros(k) \in Seq(Nat) /\ Len(Zeros(k)) = k /\ Number(Zeros(k)) = 0
<1>1. PICK z : z = Zeros(k)
  OBVIOUS
<1>2. z \in Seq(Nat) /\ Len(z) = k /\ \A i \in 1 .. k : z[i] = 0
  BY <1>1 DEF Zeros
<1>3. PICK v \in Upto(k, Nat) :
        v[0] = 0 /\ v[k] = Number(z) /\ \A i \in 1 .. k : v[i] = 10 * v[i - 1] + z[i]
  BY <1>2, NumberValue
<1>4. PICK D : D = { i \in Nat : i <= k => v[i] = 0 }
  OBVIOUS
<1>5. 0 \in D
  BY <1>3, <1>4
<1>6. ASSUME NEW i \in Nat, i \in D
      PROVE  i + 1 \in D
  <2>1. CASE i + 1 <= k
    <3>1. v[i] = 0 /\ i + 1 \in 1 .. k /\ (i + 1) - 1 = i
      BY <1>4, <1>6, <2>1
    <3> QED
      BY <1>2, <1>3, <1>4, <3>1
  <2>2. CASE ~(i + 1 <= k)
    BY <1>4, <2>2
  <2> QED
    BY <2>1, <2>2
<1>7. \A i \in Nat : i \in D
  BY <1>5, <1>6, Induct
<1> QED
  BY <1>1, <1>2, <1>3, <1>4, <1>7

Ten == 0 .. 9

(* What has been typed is digits.                                          *)
BudgetInv ==
  whole \in Seq(Ten) /\ frac \in Seq(Ten) /\ pointed \in BOOLEAN

LEMMA BudgetInvStep == BudgetInv /\ [BudgetNext]_budgetVars => BudgetInv'
<1> SUFFICES ASSUME BudgetInv, [BudgetNext]_budgetVars PROVE BudgetInv'
  OBVIOUS
<1> USE DEF BudgetInv
<1>1. ASSUME NEW d \in Digits,
             \/ ~pointed /\ whole' = Append(whole, d) /\ UNCHANGED <<pointed, frac>>
             \/ pointed /\ frac' = Append(frac, d) /\ UNCHANGED <<whole, pointed>>
      PROVE  BudgetInv'
  <2>1. d \in Ten
    BY BudgetAssumption DEF BudgetAssumption, Ten
  <2>2. \A s \in Seq(Ten) : Append(s, d) \in Seq(Ten)
    BY ONLY <2>1
  <2>3. whole \in Seq(Ten) /\ frac \in Seq(Ten) /\ pointed \in BOOLEAN
    OBVIOUS
  <2> QED
    BY ONLY <1>1, <2>2, <2>3, Zenon DEF BudgetInv
<1>2. CASE Type
  BY <1>1, <1>2 DEF Type
<1>3. CASE Point
  BY <1>3 DEF Point
<1>4. CASE UNCHANGED budgetVars
  BY <1>4 DEF budgetVars
<1> QED
  BY <1>2, <1>3, <1>4 DEF BudgetNext

(* Two digits of cents have four zeros behind them.                        *)
LEMMA PaddedValue ==
  ASSUME NEW s \in Seq(Nat), Len(s) <= DECIMALS
  PROVE  Number(Padded(s)) = Number(s) * Tens(DECIMALS - Len(s))
<1>1. PICK k \in Nat : k = DECIMALS - Len(s)
  BY BudgetAssumption DEF BudgetAssumption
<1>2. Zeros(k) \in Seq(Nat) /\ Len(Zeros(k)) = k /\ Number(Zeros(k)) = 0
  BY NumberZeros
<1>3. Number(s \o Zeros(k)) = Number(s) * Tens(k) + 0
  BY <1>2, NumberConcat
<1>4. Number(s) \in Nat /\ Tens(k) \in Nat
  BY NumberNat, TensNat
<1>5. Number(s) * Tens(k) + 0 = Number(s) * Tens(k)
  BY <1>4
<1> QED
  BY <1>1, <1>3, <1>5 DEF Padded

(* The limits are the same before and after the scale is changed.          *)
LEMMA SameScale ==
  ASSUME NEW typed \in Nat, NEW limit \in Nat, NEW small \in Nat, NEW more \in Nat, more > 0
  PROVE  /\ typed * more > 0 <=> typed > 0
         /\ typed * more <= limit * (small * more) <=> typed <= limit * small
<1>1. PICK bound \in Nat : bound = limit * small
  OBVIOUS
<1>2. limit * (small * more) = bound * more
  BY ONLY <1>1, limit \in Nat, small \in Nat, more \in Nat
<1>3. typed * more > 0 <=> typed > 0
  OBVIOUS
<1>4. typed <= bound => typed * more <= bound * more
  OBVIOUS
<1>5. typed >= bound + 1 => typed * more >= (bound + 1) * more
  OBVIOUS
<1>6. (bound + 1) * more = bound * more + more
  OBVIOUS
<1>7. typed * more \in Nat /\ bound * more \in Nat
  OBVIOUS
<1>8. typed * more <= bound * more <=> typed <= bound
  <2>1. PICK A \in Nat, B \in Nat, C \in Nat :
          A = typed * more /\ B = bound * more /\ C = (bound + 1) * more
    BY <1>7
  <2>2. C > B
    BY <1>6, <2>1
  <2> QED
    BY <1>4, <1>5, <2>1, <2>2
<1> QED
  BY <1>1, <1>2, <1>3, <1>8

LEMMA BudgetInvImplies == BudgetInv => BudgetExact
<1> SUFFICES ASSUME BudgetInv PROVE BudgetExact
  OBVIOUS
<1>1. whole \in Seq(Nat) /\ frac \in Seq(Nat) /\ Len(frac) \in Nat
  BY DEF BudgetInv, Ten
<1>2. PICK W \in Nat, F \in Nat, S \in Nat, M \in Nat :
        /\ W = Number(whole) /\ F = Number(frac) /\ S = Tens(Len(frac)) /\ M = MAX_BUDGET
  BY <1>1, NumberNat, TensNat, BudgetAssumption DEF BudgetAssumption
<1>3. PICK typed \in Nat : typed = Number(whole \o frac) /\ typed = W * S + F
  <2>1. Number(whole \o frac) = W * S + F
    BY <1>1, <1>2, NumberConcat
  <2>2. W * S + F \in Nat
    OBVIOUS
  <2> QED
    BY <2>1, <2>2
<1>4. SUFFICES ASSUME WellFormed
               PROVE  \E T \in Nat :
                        /\ T = Tens(DECIMALS)
                        /\ Micros * S = typed * T
                        /\ Micros > 0 /\ Micros <= M * T <=> typed > 0 /\ typed <= M * S
  BY <1>2, <1>3 DEF BudgetExact, Accepted
<1>5. Len(frac) <= DECIMALS
  BY <1>1, <1>4, BudgetAssumption DEF WellFormed, BudgetAssumption
<1>6. PICK R \in Nat : R = Tens(DECIMALS - Len(frac)) /\ R > 0
  BY <1>1, <1>5, TensNat, BudgetAssumption DEF BudgetAssumption
<1>7. PICK T \in Nat : T = Tens(DECIMALS) /\ T = S * R
  <2>1. PICK a \in Nat, d \in Nat : a = Len(frac) /\ d = DECIMALS
    BY <1>1, BudgetAssumption DEF BudgetAssumption
  <2>2. PICK b \in Nat : b = d - a /\ a + b = d
    BY <1>5, <2>1
  <2>3. Tens(a + b) = Tens(a) * Tens(b) /\ Tens(a + b) \in Nat
    BY TensPlus, TensNat
  <2> QED
    BY <1>2, <1>6, <2>1, <2>2, <2>3
<1>8. Micros = W * T + F * R
  BY <1>1, <1>2, <1>5, <1>6, <1>7, PaddedValue DEF Micros
<1>9. W * (S * R) + F * R = (W * S + F) * R
  BY ONLY W \in Nat, S \in Nat, F \in Nat, R \in Nat
<1>10. Micros = typed * R
  BY <1>3, <1>7, <1>8, <1>9
<1>11. (typed * R) * S = typed * (S * R)
  BY ONLY typed \in Nat, S \in Nat, R \in Nat
<1>12. /\ typed * R > 0 <=> typed > 0
       /\ typed * R <= M * (S * R) <=> typed <= M * S
  BY <1>6, SameScale
<1> QED
  BY <1>7, <1>10, <1>11, <1>12

(* A budget is exact, for every number of decimals and every limit.        *)
THEOREM BudgetHeld == BudgetSpec => []BudgetExact
<1>1. BudgetInit => BudgetInv
  <2>1. <<>> \in Seq(Ten)
    OBVIOUS
  <2> QED
    BY <2>1 DEF BudgetInit, BudgetInv
<1>2. BudgetInv /\ [BudgetNext]_budgetVars => BudgetInv'
  BY BudgetInvStep
<1>3. BudgetInv => BudgetExact
  BY BudgetInvImplies
<1> QED
  BY <1>1, <1>2, <1>3, PTL DEF BudgetSpec

----------------------------------------------------------------------------
(* The pick, for any candidates in any number and order.                   *)

LEMMA CandidateNumbers ==
  ASSUME NEW c \in Candidate
  PROVE  c.score \in Int /\ c.symbol \in Int /\ c.source \in {"fixture", "x"}
<1>1. c.score \in Scores /\ c.symbol \in Symbols /\ c.source \in {"fixture", "x"}
  BY DEF Candidate
<1> QED
  BY <1>1, CandidatesAssumption DEF CandidatesAssumption

(* Ahead orders what was found strictly and totally.                       *)
LEMMA AheadOrder ==
  ASSUME NEW found \in Seq(Candidate),
         NEW i \in DOMAIN found, NEW j \in DOMAIN found, NEW k \in DOMAIN found
  PROVE  /\ i # j => (Ahead(found, i, j) <=> ~Ahead(found, j, i))
         /\ Ahead(found, i, j) /\ Ahead(found, j, k) => Ahead(found, i, k)
         /\ Ahead(found, i, j) => \/ found[j].score < found[i].score
                                  \/ found[j].score = found[i].score
                                     /\ found[j].symbol >= found[i].symbol
<1>1. found[i] \in Candidate /\ found[j] \in Candidate /\ found[k] \in Candidate
  OBVIOUS
<1>2. PICK a \in Int, b \in Int, c \in Int :
        a = found[i].score /\ b = found[j].score /\ c = found[k].score
  BY <1>1, CandidateNumbers
<1>3. PICK p \in Int, q \in Int, r \in Int :
        p = found[i].symbol /\ q = found[j].symbol /\ r = found[k].symbol
  BY <1>1, CandidateNumbers
<1>4. i \in Int /\ j \in Int /\ k \in Int
  OBVIOUS
<1>5. /\ Ahead(found, i, j) <=>
           a > b \/ (a = b /\ p < q) \/ (~(b > a \/ (b = a /\ q < p)) /\ i < j)
      /\ Ahead(found, j, i) <=>
           b > a \/ (b = a /\ q < p) \/ (~(a > b \/ (a = b /\ p < q)) /\ j < i)
  BY <1>2, <1>3 DEF Ahead, Before
<1>6. /\ Ahead(found, j, k) <=>
           b > c \/ (b = c /\ q < r) \/ (~(c > b \/ (c = b /\ r < q)) /\ j < k)
      /\ Ahead(found, i, k) <=>
           a > c \/ (a = c /\ p < r) \/ (~(c > a \/ (c = a /\ r < p)) /\ i < k)
  BY <1>2, <1>3 DEF Ahead, Before
<1>7. i # j => (Ahead(found, i, j) <=> ~Ahead(found, j, i))
  BY <1>4, <1>5
<1>8. Ahead(found, i, j) /\ Ahead(found, j, k) => Ahead(found, i, k)
  BY <1>4, <1>5, <1>6
<1>9. Ahead(found, i, j) => b < a \/ (b = a /\ q >= p)
  BY <1>4, <1>5
<1> QED
  BY <1>2, <1>3, <1>7, <1>8, <1>9

(* Of any of them one is ahead of the others.                              *)
LEMMA FirstOf ==
  ASSUME NEW found \in Seq(Candidate), NEW V, V \subseteq DOMAIN found, V # {}
  PROVE  \E k \in V : \A j \in V \ {k} : Ahead(found, k, j)
<1>1. PICK D : D = { n \in Nat : \A U \in SUBSET DOMAIN found :
                       U # {} /\ U \subseteq 1 .. n
                       => \E k \in U : \A j \in U \ {k} : Ahead(found, k, j) }
  OBVIOUS
<1>2. 0 \in D
  BY <1>1
<1>3. ASSUME NEW n \in Nat, n \in D
      PROVE  n + 1 \in D
  <2> SUFFICES ASSUME NEW U \in SUBSET DOMAIN found, U # {}, U \subseteq 1 .. n + 1
               PROVE  \E k \in U : \A j \in U \ {k} : Ahead(found, k, j)
    BY <1>1, n + 1 \in Nat
  <2>1. PICK T : T = U \ {n + 1}
    OBVIOUS
  <2>2. T \in SUBSET DOMAIN found /\ T \subseteq 1 .. n
    BY <2>1
  <2>3. CASE T = {}
    BY <2>1, <2>3
  <2>4. CASE T # {}
    <3>1. PICK k \in T : \A j \in T \ {k} : Ahead(found, k, j)
      BY <1>1, <1>3, <2>2, <2>4
    <3>2. CASE n + 1 \notin U
      BY <2>1, <3>1, <3>2
    <3>3. CASE n + 1 \in U
      <4>1. /\ n + 1 \in DOMAIN found /\ k \in DOMAIN found /\ k # n + 1
            /\ T \subseteq DOMAIN found /\ U = T \cup {n + 1} /\ k \in U
        BY <2>1, <2>2, <3>3
      <4>2. CASE Ahead(found, k, n + 1)
        BY <3>1, <4>1, <4>2
      <4>3. CASE ~Ahead(found, k, n + 1)
        <5>1. Ahead(found, n + 1, k)
          BY <4>1, <4>3, AheadOrder
        <5>2. ASSUME NEW j \in T \ {k}
              PROVE  Ahead(found, n + 1, j)
          <6>1. Ahead(found, k, j) /\ j \in DOMAIN found
            BY <3>1, <4>1
          <6> QED
            BY <4>1, <5>1, <6>1, AheadOrder
        <5>3. \A j \in U \ {n + 1} : Ahead(found, n + 1, j)
          BY <4>1, <5>1, <5>2
        <5> QED
          BY <3>3, <5>3
      <4> QED
        BY <4>2, <4>3
    <3> QED
      BY <3>2, <3>3
  <2> QED
    BY <2>3, <2>4
<1>4. \A n \in Nat : n \in D
  BY <1>2, <1>3, Induct
<1>5. Len(found) \in D /\ V \in SUBSET DOMAIN found /\ V \subseteq 1 .. Len(found)
  BY <1>4
<1> QED
  BY <1>1, <1>5

PickInv == candidates \in Seq(Candidate)

LEMMA PickInvImplies == PickInv => PickIndependent
<1> SUFFICES ASSUME PickInv PROVE PickIndependent
  OBVIOUS
<1>1. PICK found \in Seq(Candidate) : found = candidates
  BY DEF PickInv
<1>2. PICK viable : viable = { i \in DOMAIN found : Viable(found[i]) }
  OBVIOUS
<1>3. PICK trusted : trusted = { c \in ToSet(found) : c.source = "x" => c.verifiedSolana }
  OBVIOUS
<1>4. PICK best : best = { c \in trusted :
                  \A d \in trusted :
                    d.score < c.score \/ (d.score = c.score /\ d.symbol >= c.symbol) }
  OBVIOUS
<1>5. PICK picked : picked = Pick(found)
  OBVIOUS
<1>6. picked = { found[i] : i \in { k \in viable : \A j \in viable \ {k} : Ahead(found, k, j) } }
  BY <1>2, <1>5 DEF Pick
<1>7. SUFFICES /\ { <<c.symbol, c.score>> : c \in picked } = { <<c.symbol, c.score>> : c \in best }
               /\ picked = {} <=> trusted = {}
  BY <1>1, <1>3, <1>4, <1>5 DEF PickIndependent
<1>8. trusted = { found[i] : i \in viable }
  <2>1. ASSUME NEW i \in DOMAIN found
        PROVE  Viable(found[i]) <=> (found[i].source = "x" => found[i].verifiedSolana)
    <3>1. found[i] \in Candidate
      OBVIOUS
    <3>2. found[i].source \in {"fixture", "x"}
      BY <3>1 DEF Candidate
    <3> QED
      BY <3>2 DEF Viable
  <2> QED
    BY <1>2, <1>3, <2>1 DEF ToSet
<1>9. CASE viable = {}
  <2>1. trusted = {} /\ best = {} /\ picked = {}
    BY <1>4, <1>6, <1>8, <1>9
  <2> QED
    BY <2>1
<1>10. CASE viable # {}
  <2>1. viable \subseteq DOMAIN found
    BY <1>2
  <2>2. PICK k \in viable : \A j \in viable \ {k} : Ahead(found, k, j)
    BY <1>10, <2>1, FirstOf
  <2>3. PICK first : first = found[k]
    OBVIOUS
  <2>4. ASSUME NEW i \in viable, \A j \in viable \ {i} : Ahead(found, i, j)
        PROVE  i = k
    BY <2>1, <2>2, <2>4, AheadOrder
  <2>5. picked = {first}
    BY <1>6, <2>2, <2>3, <2>4
  <2>6. ASSUME NEW i \in DOMAIN found
        PROVE  found[i].score \in Int /\ found[i].symbol \in Int
    BY CandidateNumbers
  <2>7. first \in trusted
    BY <1>8, <2>2, <2>3
  <2>8. ASSUME NEW d \in trusted
        PROVE  d.score < first.score \/ (d.score = first.score /\ d.symbol >= first.symbol)
    <3>1. PICK i \in viable : d = found[i]
      BY <1>8
    <3>2. CASE i = k
      BY <2>1, <2>3, <2>6, <3>1, <3>2
    <3>3. CASE i # k
      BY <2>1, <2>2, <2>3, <3>1, <3>3, AheadOrder
    <3> QED
      BY <3>2, <3>3
  <2>9. first \in best
    BY <1>4, <2>7, <2>8
  <2>10. ASSUME NEW c \in best
         PROVE  c.score = first.score /\ c.symbol = first.symbol
    <3>1. PICK i \in viable : c = found[i]
      BY <1>4, <1>8
    <3>2. first.score < c.score \/ (first.score = c.score /\ first.symbol >= c.symbol)
      BY <1>4, <2>7
    <3>3. c.score < first.score \/ (c.score = first.score /\ c.symbol >= first.symbol)
      BY <1>4, <2>8
    <3>4. /\ c.score \in Int /\ c.symbol \in Int
          /\ first.score \in Int /\ first.symbol \in Int
      BY <2>1, <2>2, <2>3, <2>6, <3>1
    <3> QED
      BY <3>2, <3>3, <3>4
  <2>11. { <<c.symbol, c.score>> : c \in best } = {<<first.symbol, first.score>>}
    BY <2>9, <2>10
  <2> QED
    BY <2>5, <2>7, <2>11
<1> QED
  BY <1>9, <1>10

(* The pick does not depend on anything unverified, nor on the order.      *)
THEOREM PickHeld == PickSpec => []PickIndependent
<1>1. PickInit => PickInv
  BY DEF PickInit, PickInv
<1>2. PickInv /\ [PickNext]_candidates => PickInv'
  BY DEF PickInv, PickNext, Find
<1>3. PickInv => PickIndependent
  BY PickInvImplies
<1> QED
  BY <1>1, <1>2, <1>3, PTL DEF PickSpec

(* Both: what core makes of a wish, whatever the user types and research   *)
(* finds.                                                                  *)
THEOREM WishHeld == BudgetSpec /\ PickSpec => []WishExact
  BY BudgetHeld, PickHeld, PTL DEF WishExact

----------------------------------------------------------------------------
(* The decoders, for every account and every answer.                       *)

(* The cells s are in d, behind the first k.                               *)
Holds(d, k, s) ==
  k + Len(s) <= Len(d) /\ \A i \in 1 .. Len(s) : d[k + i] = s[i]

Pair == Nat \X Nat

(* What the program keeps and what the decoders return.                    *)
PolicyOf(l, p) ==
  /\ p = [name \in Names(l) |-> p[name]]
  /\ \A name \in ToSet(KeysOf(l)) : p[name] \in Pair
  /\ \A name \in ToSet(NumbersOf(l)) : p[name] \in Nat
  /\ p.active <= 1
  /\ p.recipients \in Seq(Pair) /\ p.programs \in Seq(Pair)
  /\ ValidateAllowlists(p.recipients, p.programs)

LEMMA NumbersRead ==
  ASSUME NEW l \in Layouts
  PROVE  NumbersOf(l) = ReadNumbers(l)
  BY DEF NumbersOf, ReadNumbers

(* The fields of a layout: n numbers, and names that are distinct.         *)
ShapeOf(l, n) ==
  /\ Len(NumbersOf(l)) = n /\ FixedLen(l) = 9 + n /\ NumbersOf(l)[n - 1] = "active"
  /\ \A i, j \in 1 .. n : NumbersOf(l)[i] = NumbersOf(l)[j] => i = j
  /\ Len(KeysOf(l)) = 4
  /\ \A i, j \in 1 .. 4 : KeysOf(l)[i] = KeysOf(l)[j] => i = j
  /\ \A i \in 1 .. 4 : \A j \in 1 .. n : KeysOf(l)[i] # NumbersOf(l)[j]
  /\ \A i \in 1 .. 4 : KeysOf(l)[i] \notin {"recipients", "programs"}
  /\ \A j \in 1 .. n : NumbersOf(l)[j] \notin {"recipients", "programs"}
  /\ ToSet(KeysOf(l)) = { KeysOf(l)[i] : i \in 1 .. 4 }
  /\ ToSet(NumbersOf(l)) = { NumbersOf(l)[j] : j \in 1 .. n }

LEMMA Shape ==
  ASSUME NEW l \in Layouts
  PROVE  \E n \in 7 .. 8 : ShapeOf(l, n)
<1> USE DEF ShapeOf
<1>1. CASE l = "policy"
  <2>1. PICK r : r = <<"maxAmount", "totalLimit", "spent", "expiresAt", "nonce", "minRate",
                       "active", "bump">>
    OBVIOUS
  <2>2. PICK k : k = <<"owner", "agent", "executor", "pool">>
    OBVIOUS
  <2>3. NumbersOf(l) = r /\ KeysOf(l) = k /\ FixedLen(l) = 1 + 8 + Len(NumbersOf(l))
    BY <1>1, <2>1, <2>2, NumbersRead DEF ReadNumbers, KeysOf, FixedLen
  <2>4. /\ Len(r) = 8 /\ r[7] = "active" /\ Len(k) = 4
        /\ r[1] = "maxAmount" /\ r[2] = "totalLimit" /\ r[3] = "spent" /\ r[4] = "expiresAt"
        /\ r[5] = "nonce" /\ r[6] = "minRate" /\ r[8] = "bump"
        /\ k[1] = "owner" /\ k[2] = "agent" /\ k[3] = "executor" /\ k[4] = "pool"
    BY <2>1, <2>2
  <2>5. \A i, j \in 1 .. 8 : r[i] = r[j] => i = j
    BY <2>4
  <2>6. \A i, j \in 1 .. 4 : k[i] = k[j] => i = j
    BY <2>4
  <2>7. \A i \in 1 .. 4 : \A j \in 1 .. 8 : k[i] # r[j]
    BY <2>4
  <2>8. \A i \in 1 .. 4 : k[i] \notin {"recipients", "programs"}
    BY <2>4
  <2>9. \A j \in 1 .. 8 : r[j] \notin {"recipients", "programs"}
    BY <2>4
  <2>10. ToSet(k) = { k[i] : i \in 1 .. 4 } /\ ToSet(r) = { r[j] : j \in 1 .. 8 }
    <3>1. DOMAIN k = 1 .. 4 /\ DOMAIN r = 1 .. 8
      BY <2>1, <2>2
    <3> QED
      BY <3>1 DEF ToSet
  <2> QED
    BY <2>3, <2>4, <2>5, <2>6, <2>7, <2>8, <2>9, <2>10
<1>2. CASE l = "live"
  <2>1. PICK r : r = <<"maxAmount", "totalLimit", "spent", "expiresAt", "nonce",
                       "active", "bump">>
    OBVIOUS
  <2>2. PICK k : k = <<"owner", "agent", "executor", "quoteMint">>
    OBVIOUS
  <2>3. NumbersOf(l) = r /\ KeysOf(l) = k /\ FixedLen(l) = 1 + 8 + Len(NumbersOf(l))
    BY <1>2, <2>1, <2>2, NumbersRead DEF ReadNumbers, KeysOf, FixedLen
  <2>4. /\ Len(r) = 7 /\ r[6] = "active" /\ Len(k) = 4
        /\ r[1] = "maxAmount" /\ r[2] = "totalLimit" /\ r[3] = "spent" /\ r[4] = "expiresAt"
        /\ r[5] = "nonce" /\ r[7] = "bump"
        /\ k[1] = "owner" /\ k[2] = "agent" /\ k[3] = "executor" /\ k[4] = "quoteMint"
    BY <2>1, <2>2
  <2>5. \A i, j \in 1 .. 7 : r[i] = r[j] => i = j
    BY <2>4
  <2>6. \A i, j \in 1 .. 4 : k[i] = k[j] => i = j
    BY <2>4
  <2>7. \A i \in 1 .. 4 : \A j \in 1 .. 7 : k[i] # r[j]
    BY <2>4
  <2>8. \A i \in 1 .. 4 : k[i] \notin {"recipients", "programs"}
    BY <2>4
  <2>9. \A j \in 1 .. 7 : r[j] \notin {"recipients", "programs"}
    BY <2>4
  <2>10. ToSet(k) = { k[i] : i \in 1 .. 4 } /\ ToSet(r) = { r[j] : j \in 1 .. 7 }
    <3>1. DOMAIN k = 1 .. 4 /\ DOMAIN r = 1 .. 7
      BY <2>1, <2>2
    <3> QED
      BY <3>1 DEF ToSet
  <2> QED
    BY <2>3, <2>4, <2>5, <2>6, <2>7, <2>8, <2>9, <2>10
<1> QED
  BY <1>1, <1>2 DEF Layouts

(* A name is found where it is.                                            *)
LEMMA PlaceOf ==
  ASSUME NEW names, NEW i \in 1 .. Len(names),
         \A j, k \in 1 .. Len(names) : names[j] = names[k] => j = k
  PROVE  Place(names, names[i]) = i
  BY DEF Place

(* The pair in which a cell is, and where.                                 *)
LEMMA Halves ==
  ASSUME NEW n \in Nat, NEW x \in 1 .. 2 * n
  PROVE  \E i \in 1 .. n :
           /\ (x + 1) \div 2 = i
           /\ (x = 2 * i - 1 /\ 2 - (x % 2) = 1) \/ (x = 2 * i /\ 2 - (x % 2) = 2)
<1>1. PICK i \in Int : i = (x + 1) \div 2
  OBVIOUS
<1>2. 2 * i <= x + 1 /\ x + 1 < 2 * i + 2
  BY <1>1
<1>3. i \in 1 .. n /\ (x = 2 * i - 1 \/ x = 2 * i)
  BY <1>2
<1>4. x = 2 * i - 1 => x % 2 = 1
  OBVIOUS
<1>5. x = 2 * i => x % 2 = 0
  OBVIOUS
<1> QED
  BY <1>1, <1>3, <1>4, <1>5

LEMMA HoldsConcat ==
  ASSUME NEW d \in Seq(Nat), NEW k \in Nat, NEW s \in Seq(Nat), NEW t \in Seq(Nat)
  PROVE  /\ s \o t \in Seq(Nat) /\ Len(s \o t) = Len(s) + Len(t)
         /\ Holds(d, k, s \o t) <=> Holds(d, k, s) /\ Holds(d, k + Len(s), t)
<1>1. PICK st : st = s \o t
  OBVIOUS
<1>2. PICK m \in Nat, n \in Nat : m = Len(s) /\ n = Len(t)
  OBVIOUS
<1>3. /\ st \in Seq(Nat) /\ Len(st) = m + n
      /\ \A i \in 1 .. m : st[i] = s[i]
      /\ \A i \in 1 .. n : st[m + i] = t[i]
  BY <1>1, <1>2
<1>4. ASSUME Holds(d, k, st)
      PROVE  Holds(d, k, s) /\ Holds(d, k + m, t)
  <2>1. k + (m + n) <= Len(d) /\ \A i \in 1 .. m + n : d[k + i] = st[i]
    BY <1>3, <1>4 DEF Holds
  <2>2. ASSUME NEW i \in 1 .. m
        PROVE  d[k + i] = s[i]
    <3>1. i \in 1 .. m + n
      OBVIOUS
    <3> QED
      BY <1>3, <2>1, <3>1
  <2>3. ASSUME NEW i \in 1 .. n
        PROVE  d[(k + m) + i] = t[i]
    <3>1. m + i \in 1 .. m + n /\ k + (m + i) = (k + m) + i
      OBVIOUS
    <3> QED
      BY <1>3, <2>1, <3>1
  <2>4. Len(d) \in Nat /\ k + m <= Len(d) /\ (k + m) + n <= Len(d)
    BY <2>1
  <2> QED
    BY <1>2, <2>2, <2>3, <2>4 DEF Holds
<1>5. ASSUME Holds(d, k, s), Holds(d, k + m, t)
      PROVE  Holds(d, k, st)
  <2>1. /\ \A i \in 1 .. m : d[k + i] = s[i]
        /\ (k + m) + n <= Len(d) /\ \A i \in 1 .. n : d[(k + m) + i] = t[i]
    BY <1>2, <1>5 DEF Holds
  <2>2. ASSUME NEW i \in 1 .. m + n
        PROVE  d[k + i] = st[i]
    <3>1. CASE i <= m
      <4>1. i \in 1 .. m
        BY <3>1
      <4> QED
        BY <1>3, <2>1, <4>1
    <3>2. CASE ~(i <= m)
      <4>1. PICK j \in 1 .. n : i = m + j
        BY <3>2
      <4>2. k + i = (k + m) + j
        BY <4>1
      <4> QED
        BY <1>3, <2>1, <4>1, <4>2
    <3> QED
      BY <3>1, <3>2
  <2>3. k + (m + n) <= Len(d)
    BY <2>1
  <2> QED
    BY <1>3, <2>2, <2>3 DEF Holds
<1> QED
  BY <1>1, <1>2, <1>3, <1>4, <1>5

(* Addresses are written so that they are read.                            *)
LEMMA HoldsAddresses ==
  ASSUME NEW d \in Seq(Nat), NEW k \in Nat, NEW list \in Seq(Pair)
  PROVE  /\ AddressCells(list) \in Seq(Nat) /\ Len(AddressCells(list)) = 2 * Len(list)
         /\ Holds(d, k, AddressCells(list)) <=>
              /\ k + 2 * Len(list) <= Len(d)
              /\ \A i \in 1 .. Len(list) : KeyAt(d, k + 2 * i - 1) = list[i]
<1>1. PICK n \in Nat : n = Len(list)
  OBVIOUS
<1>2. PICK c : c = AddressCells(list)
  OBVIOUS
<1>3. c = [x \in 1 .. 2 * n |-> list[(x + 1) \div 2][2 - (x % 2)]]
  BY <1>1, <1>2 DEF AddressCells
<1>4. \A i \in 1 .. n : list[i] = <<list[i][1], list[i][2]>> /\ list[i][1] \in Nat /\ list[i][2] \in Nat
  BY <1>1 DEF Pair
<1>5. \A x \in 1 .. 2 * n : \E i \in 1 .. n :
        \/ x = 2 * i - 1 /\ c[x] = list[i][1]
        \/ x = 2 * i /\ c[x] = list[i][2]
  <2> SUFFICES ASSUME NEW x \in 1 .. 2 * n
               PROVE  \E i \in 1 .. n : \/ x = 2 * i - 1 /\ c[x] = list[i][1]
                                        \/ x = 2 * i /\ c[x] = list[i][2]
    OBVIOUS
  <2>1. PICK i \in 1 .. n :
          /\ (x + 1) \div 2 = i
          /\ (x = 2 * i - 1 /\ 2 - (x % 2) = 1) \/ (x = 2 * i /\ 2 - (x % 2) = 2)
    BY Halves
  <2>2. c[x] = list[(x + 1) \div 2][2 - (x % 2)]
    BY <1>3
  <2>3. c[x] = list[i][2 - (x % 2)]
    BY <2>1, <2>2
  <2>4. (x = 2 * i - 1 /\ c[x] = list[i][1]) \/ (x = 2 * i /\ c[x] = list[i][2])
    BY <2>1, <2>3
  <2> QED
    BY <2>4
<1>6. \A i \in 1 .. n : c[2 * i - 1] = list[i][1] /\ c[2 * i] = list[i][2]
  <2> SUFFICES ASSUME NEW i \in 1 .. n PROVE c[2 * i - 1] = list[i][1] /\ c[2 * i] = list[i][2]
    OBVIOUS
  <2>1. 2 * i - 1 \in 1 .. 2 * n /\ 2 * i \in 1 .. 2 * n
    OBVIOUS
  <2>2. PICK j \in 1 .. n : \/ 2 * i - 1 = 2 * j - 1 /\ c[2 * i - 1] = list[j][1]
                            \/ 2 * i - 1 = 2 * j /\ c[2 * i - 1] = list[j][2]
    BY <1>5, <2>1
  <2>3. PICK m \in 1 .. n : \/ 2 * i = 2 * m - 1 /\ c[2 * i] = list[m][1]
                            \/ 2 * i = 2 * m /\ c[2 * i] = list[m][2]
    BY <1>5, <2>1
  <2>4. j = i /\ m = i
    BY <2>2, <2>3
  <2> QED
    BY <2>2, <2>3, <2>4
<1>7. c \in Seq(Nat) /\ Len(c) = 2 * n
  <2>1. \A x \in 1 .. 2 * n : c[x] \in Nat
    BY <1>4, <1>5
  <2> QED
    BY <1>3, <2>1
<1>8. ASSUME NEW i \in 1 .. n
      PROVE  KeyAt(d, k + 2 * i - 1) = list[i] <=>
               d[k + (2 * i - 1)] = c[2 * i - 1] /\ d[k + 2 * i] = c[2 * i]
  <2>1. k + 2 * i - 1 = k + (2 * i - 1) /\ (k + 2 * i - 1) + 1 = k + 2 * i
    OBVIOUS
  <2>2. PICK a, b : a = d[k + (2 * i - 1)] /\ b = d[k + 2 * i]
    OBVIOUS
  <2>3. KeyAt(d, k + 2 * i - 1) = <<a, b>>
    BY <2>1, <2>2 DEF KeyAt
  <2>4. PICK first, second : first = list[i][1] /\ second = list[i][2]
    OBVIOUS
  <2>5. list[i] = <<first, second>> /\ c[2 * i - 1] = first /\ c[2 * i] = second
    BY <1>4, <1>6, <2>4
  <2>6. <<a, b>> = <<first, second>> <=> a = first /\ b = second
    OBVIOUS
  <2> QED
    BY <2>2, <2>3, <2>5, <2>6
<1>9. ASSUME Holds(d, k, c), NEW i \in 1 .. n
      PROVE  KeyAt(d, k + 2 * i - 1) = list[i]
  <2>1. 2 * i - 1 \in 1 .. 2 * n /\ 2 * i \in 1 .. 2 * n
    OBVIOUS
  <2> QED
    BY <1>7, <1>8, <1>9, <2>1 DEF Holds
<1>10. ASSUME \A i \in 1 .. n : KeyAt(d, k + 2 * i - 1) = list[i], NEW x \in 1 .. 2 * n
       PROVE  d[k + x] = c[x]
  <2>1. PICK i \in 1 .. n : x = 2 * i - 1 \/ x = 2 * i
    BY <1>5
  <2> QED
    BY <1>8, <1>10, <2>1
<1> QED
  BY <1>1, <1>2, <1>7, <1>9, <1>10 DEF Holds

LEMMA HoldsOne ==
  ASSUME NEW d \in Seq(Nat), NEW k \in Nat, NEW c \in Nat
  PROVE  /\ <<c>> \in Seq(Nat) /\ Len(<<c>>) = 1
         /\ Holds(d, k, <<c>>) <=> k + 1 <= Len(d) /\ d[k + 1] = c
<1>1. PICK s : s = <<c>>
  OBVIOUS
<1>2. s \in Seq(Nat) /\ Len(s) = 1 /\ s[1] = c
  BY <1>1
<1>3. Holds(d, k, s) <=> k + 1 <= Len(d) /\ \A i \in 1 .. 1 : d[k + i] = s[i]
  BY <1>2 DEF Holds
<1> QED
  BY <1>1, <1>2, <1>3

LEMMA HoldsList ==
  ASSUME NEW d \in Seq(Nat), NEW k \in Nat, NEW list \in Seq(Pair)
  PROVE  /\ ListCells(list) \in Seq(Nat) /\ Len(ListCells(list)) = 1 + 2 * Len(list)
         /\ Holds(d, k, ListCells(list)) <=>
              /\ (k + 1) + 2 * Len(list) <= Len(d)
              /\ d[k + 1] = Len(list) /\ Vector(d, k + 1) = list
<1>1. PICK n \in Nat : n = Len(list)
  OBVIOUS
<1>2. PICK c : c = AddressCells(list)
  OBVIOUS
<1>3. /\ c \in Seq(Nat) /\ Len(c) = 2 * n
      /\ Holds(d, k + 1, c) <=>
           /\ (k + 1) + 2 * n <= Len(d)
           /\ \A i \in 1 .. n : KeyAt(d, (k + 1) + 2 * i - 1) = list[i]
  BY <1>1, <1>2, HoldsAddresses
<1>4. /\ <<n>> \in Seq(Nat) /\ Len(<<n>>) = 1
      /\ Holds(d, k, <<n>>) <=> k + 1 <= Len(d) /\ d[k + 1] = n
  BY HoldsOne
<1>5. PICK one \in Seq(Nat) : one = <<n>> /\ Len(one) = 1
  BY <1>4
<1>6. /\ one \o c \in Seq(Nat) /\ Len(one \o c) = Len(one) + Len(c)
      /\ Holds(d, k, one \o c) <=> Holds(d, k, one) /\ Holds(d, k + Len(one), c)
  BY <1>3, HoldsConcat
<1>7. ListCells(list) = one \o c
  BY <1>1, <1>2, <1>5 DEF ListCells
<1>8. ASSUME d[k + 1] = n
      PROVE  Vector(d, k + 1) = list <=>
               \A i \in 1 .. n : KeyAt(d, (k + 1) + 2 * i - 1) = list[i]
  <2>1. PICK v : v = Vector(d, k + 1)
    OBVIOUS
  <2>2. v = [i \in 1 .. n |-> KeyAt(d, (k + 1) + 2 * i - 1)]
    BY <1>8, <2>1 DEF Vector
  <2>3. list = [i \in 1 .. n |-> list[i]]
    BY <1>1
  <2> QED
    BY <2>1, <2>2, <2>3
<1> QED
  BY <1>1, <1>3, <1>4, <1>5, <1>6, <1>7, <1>8

(* What it takes for the data to begin with a policy.                      *)
Begins(l, d, p, n) ==
  /\ d[1] = Tag(l)
  /\ \A i \in 1 .. 4 : KeyAt(d, 2 * i) = p[KeysOf(l)[i]]
  /\ \A i \in 1 .. n : d[9 + i] = p[NumbersOf(l)[i]]
  /\ d[10 + n] = Len(p.recipients) /\ Vector(d, 10 + n) = p.recipients
  /\ LET second == 11 + n + 2 * Len(p.recipients) IN
     /\ second + 2 * Len(p.programs) <= Len(d)
     /\ d[second] = Len(p.programs) /\ Vector(d, second) = p.programs

LEMMA HoldsPolicy ==
  ASSUME NEW l \in Layouts, NEW p, PolicyOf(l, p), NEW d \in Seq(Nat),
         NEW n \in 7 .. 8, ShapeOf(l, n)
  PROVE  /\ Encode(l, p) \in Seq(Nat)
         /\ Holds(d, 0, Encode(l, p)) <=> Begins(l, d, p, n)
<1>1. PICK keys : keys = [i \in 1 .. 4 |-> p[KeysOf(l)[i]]]
  OBVIOUS
<1>2. keys \in Seq(Pair) /\ Len(keys) = 4
  <2>1. \A i \in 1 .. 4 : KeysOf(l)[i] \in ToSet(KeysOf(l))
    BY DEF ShapeOf
  <2>2. \A i \in 1 .. 4 : keys[i] \in Pair
    BY <1>1, <2>1 DEF PolicyOf
  <2> QED
    BY <1>1, <2>2
<1>3. PICK numbers : numbers = [i \in 1 .. n |-> p[NumbersOf(l)[i]]]
  OBVIOUS
<1>4. /\ numbers = NumberCells(l, p)
      /\ numbers \in Seq(Nat) /\ Len(numbers) = n
      /\ \A i \in 1 .. n : numbers[i] = p[NumbersOf(l)[i]]
  <2>1. \A i \in 1 .. n : NumbersOf(l)[i] \in ToSet(NumbersOf(l))
    BY DEF ShapeOf
  <2>2. \A i \in 1 .. n : numbers[i] \in Nat
    BY <1>3, <2>1 DEF PolicyOf
  <2> QED
    BY <1>3, <2>2 DEF NumberCells, ShapeOf
<1>5. PICK tag \in Nat : tag = Tag(l)
  BY DEF Tag
<1>6. PICK recipients \in Seq(Pair), programs \in Seq(Pair) :
        recipients = p.recipients /\ programs = p.programs
  BY DEF PolicyOf
<1>7. PICK a, b, c, e, f :
        a = <<tag>> /\ b = AddressCells(keys) /\ c = numbers
        /\ e = ListCells(recipients) /\ f = ListCells(programs)
  OBVIOUS
<1>8. PICK r \in Nat, q \in Nat : r = Len(recipients) /\ q = Len(programs)
  OBVIOUS
<1>9. Encode(l, p) = (((a \o b) \o c) \o e) \o f
  BY <1>1, <1>4, <1>5, <1>6, <1>7 DEF Encode, KeyCells
<1>10. a \in Seq(Nat) /\ Len(a) = 1 /\ (Holds(d, 0, a) <=> 1 <= Len(d) /\ d[1] = tag)
  <2>1. /\ a \in Seq(Nat) /\ Len(a) = 1
        /\ Holds(d, 0, a) <=> 0 + 1 <= Len(d) /\ d[0 + 1] = tag
    BY <1>7, HoldsOne, 0 \in Nat
  <2> QED
    BY <2>1
<1>11. /\ b \in Seq(Nat) /\ Len(b) = 8
       /\ Holds(d, 1, b) <=> 9 <= Len(d) /\ \A i \in 1 .. 4 : KeyAt(d, 2 * i) = keys[i]
  <2>1. /\ b \in Seq(Nat) /\ Len(b) = 2 * Len(keys)
        /\ Holds(d, 1, b) <=>
             /\ 1 + 2 * Len(keys) <= Len(d)
             /\ \A i \in 1 .. Len(keys) : KeyAt(d, 1 + 2 * i - 1) = keys[i]
    BY <1>7, <1>2, HoldsAddresses, 1 \in Nat
  <2>2. \A i \in 1 .. 4 : 1 + 2 * i - 1 = 2 * i
    OBVIOUS
  <2> QED
    BY <1>2, <2>1, <2>2
<1>12. /\ e \in Seq(Nat) /\ Len(e) = 1 + 2 * r
       /\ Holds(d, 9 + n, e) <=>
            10 + n + 2 * r <= Len(d) /\ d[10 + n] = r /\ Vector(d, 10 + n) = recipients
  <2>1. PICK k \in Nat : k = 9 + n /\ k + 1 = 10 + n
    OBVIOUS
  <2>2. /\ e \in Seq(Nat) /\ Len(e) = 1 + 2 * Len(recipients)
        /\ Holds(d, k, e) <=>
             /\ (k + 1) + 2 * Len(recipients) <= Len(d)
             /\ d[k + 1] = Len(recipients) /\ Vector(d, k + 1) = recipients
    BY <1>7, HoldsList
  <2> QED
    BY <1>8, <2>1, <2>2
<1>13. PICK second \in Nat : second = 11 + n + 2 * r
  OBVIOUS
<1>14. /\ f \in Seq(Nat)
       /\ Holds(d, 10 + n + 2 * r, f) <=>
            second + 2 * q <= Len(d) /\ d[second] = q /\ Vector(d, second) = programs
  <2>1. PICK k \in Nat : k = 10 + n + 2 * r /\ k + 1 = second
    BY <1>13
  <2>2. /\ f \in Seq(Nat)
        /\ Holds(d, k, f) <=>
             /\ (k + 1) + 2 * Len(programs) <= Len(d)
             /\ d[k + 1] = Len(programs) /\ Vector(d, k + 1) = programs
    BY <1>7, HoldsList
  <2> QED
    BY <1>8, <2>1, <2>2
<1>15. Holds(d, 9, c) <=> 9 + n <= Len(d) /\ \A i \in 1 .. n : d[9 + i] = numbers[i]
  BY <1>4, <1>7 DEF Holds
<1>16. PICK ab : ab = a \o b
  OBVIOUS
<1>17. /\ ab \in Seq(Nat) /\ Len(ab) = 9
       /\ Holds(d, 0, ab) <=> Holds(d, 0, a) /\ Holds(d, 1, b)
  <2>1. /\ a \o b \in Seq(Nat) /\ Len(a \o b) = Len(a) + Len(b)
        /\ Holds(d, 0, a \o b) <=> Holds(d, 0, a) /\ Holds(d, 0 + Len(a), b)
    BY <1>10, <1>11, HoldsConcat, 0 \in Nat
  <2>2. 0 + Len(a) = 1 /\ Len(a) + Len(b) = 9
    BY <1>10, <1>11
  <2> QED
    BY <1>16, <2>1, <2>2
<1>18. PICK abc : abc = ab \o c
  OBVIOUS
<1>19. /\ abc \in Seq(Nat) /\ Len(abc) = 9 + n
       /\ Holds(d, 0, abc) <=> Holds(d, 0, ab) /\ Holds(d, 9, c)
  <2>1. /\ ab \o c \in Seq(Nat) /\ Len(ab \o c) = Len(ab) + Len(c)
        /\ Holds(d, 0, ab \o c) <=> Holds(d, 0, ab) /\ Holds(d, 0 + Len(ab), c)
    <3>1. c \in Seq(Nat)
      BY <1>4, <1>7
    <3> QED
      BY <1>17, <3>1, HoldsConcat, 0 \in Nat
  <2>2. 0 + Len(ab) = 9 /\ Len(ab) + Len(c) = 9 + n
    BY <1>4, <1>7, <1>17
  <2> QED
    BY <1>18, <2>1, <2>2
<1>20. PICK abce : abce = abc \o e
  OBVIOUS
<1>21. /\ abce \in Seq(Nat) /\ Len(abce) = 10 + n + 2 * r
       /\ Holds(d, 0, abce) <=> Holds(d, 0, abc) /\ Holds(d, 9 + n, e)
  <2>1. /\ abc \o e \in Seq(Nat) /\ Len(abc \o e) = Len(abc) + Len(e)
        /\ Holds(d, 0, abc \o e) <=> Holds(d, 0, abc) /\ Holds(d, 0 + Len(abc), e)
    BY <1>12, <1>19, HoldsConcat, 0 \in Nat
  <2>2. 0 + Len(abc) = 9 + n /\ Len(abc) + Len(e) = 10 + n + 2 * r
    BY <1>12, <1>19
  <2> QED
    BY <1>20, <2>1, <2>2
<1>22. /\ abce \o f \in Seq(Nat)
       /\ Holds(d, 0, abce \o f) <=> Holds(d, 0, abce) /\ Holds(d, 10 + n + 2 * r, f)
  <2>1. /\ abce \o f \in Seq(Nat)
        /\ Holds(d, 0, abce \o f) <=> Holds(d, 0, abce) /\ Holds(d, 0 + Len(abce), f)
    BY <1>14, <1>21, HoldsConcat, 0 \in Nat
  <2> QED
    BY <1>21, <2>1
<1>23. Encode(l, p) = abce \o f
  BY <1>9, <1>16, <1>18, <1>20
<1>24. Begins(l, d, p, n) <=>
         /\ d[1] = tag
         /\ \A i \in 1 .. 4 : KeyAt(d, 2 * i) = keys[i]
         /\ \A i \in 1 .. n : d[9 + i] = numbers[i]
         /\ d[10 + n] = r /\ Vector(d, 10 + n) = recipients
         /\ second + 2 * q <= Len(d) /\ d[second] = q /\ Vector(d, second) = programs
  BY <1>1, <1>4, <1>5, <1>6, <1>8, <1>13 DEF Begins
<1>25. second + 2 * q <= Len(d) =>
         1 <= Len(d) /\ 9 <= Len(d) /\ 9 + n <= Len(d) /\ 10 + n + 2 * r <= Len(d)
  <2>1. Len(d) \in Nat
    OBVIOUS
  <2> QED
    BY <1>13, <2>1
<1> QED
  BY <1>10, <1>11, <1>12, <1>14, <1>15, <1>22, <1>23, <1>24, <1>25, <1>17, <1>19, <1>21

(* Each field is read from its own place.                                  *)
FieldsOf(l, n, d, second) ==
  /\ Field(l, d, second, "recipients") = Vector(d, 10 + n)
  /\ Field(l, d, second, "programs") = Vector(d, second)
  /\ \A i \in 1 .. 4 : Field(l, d, second, KeysOf(l)[i]) = KeyAt(d, 2 * i)
  /\ \A i \in 1 .. n : Field(l, d, second, NumbersOf(l)[i]) = d[9 + i]

LEMMA FieldOf ==
  ASSUME NEW l \in Layouts, NEW n \in 7 .. 8, ShapeOf(l, n), NEW d, NEW second
  PROVE  FieldsOf(l, n, d, second)
<1> USE DEF ShapeOf, FieldsOf
<1>1. Field(l, d, second, "recipients") = Vector(d, 10 + n)
  <2>1. FixedLen(l) + 1 = 10 + n
    OBVIOUS
  <2>2. "recipients" \notin ToSet(KeysOf(l)) /\ "recipients" # "programs"
    OBVIOUS
  <2>3. Field(l, d, second, "recipients") = Vector(d, FixedLen(l) + 1)
    BY <2>2, SMT DEF Field
  <2> QED
    BY <2>1, <2>3
<1>2. Field(l, d, second, "programs") = Vector(d, second)
  <2>1. "programs" \notin ToSet(KeysOf(l)) /\ "recipients" # "programs"
    OBVIOUS
  <2> QED
    BY <2>1, SMT DEF Field
<1>3. ASSUME NEW i \in 1 .. 4
      PROVE  Field(l, d, second, KeysOf(l)[i]) = KeyAt(d, 2 * i)
  <2>1. PICK name : name = KeysOf(l)[i]
    OBVIOUS
  <2>2. name \in ToSet(KeysOf(l)) /\ name # "recipients" /\ name # "programs"
    BY <2>1
  <2>3. Field(l, d, second, name) = KeyAt(d, 2 * Place(KeysOf(l), name))
    BY <2>2, SMT DEF Field
  <2>4. Place(KeysOf(l), KeysOf(l)[i]) = i
    <3>1. PICK k : k = KeysOf(l)
      OBVIOUS
    <3>2. /\ i \in 1 .. Len(k)
          /\ \A x, y \in 1 .. Len(k) : k[x] = k[y] => x = y
      BY <3>1
    <3> QED
      BY <3>1, <3>2, PlaceOf
  <2> QED
    BY <2>1, <2>3, <2>4
<1>4. ASSUME NEW i \in 1 .. n
      PROVE  Field(l, d, second, NumbersOf(l)[i]) = d[9 + i]
  <2>1. PICK name : name = NumbersOf(l)[i]
    OBVIOUS
  <2>2. name \notin ToSet(KeysOf(l)) /\ name # "recipients" /\ name # "programs"
    BY <2>1
  <2>3. Field(l, d, second, name) = d[9 + Place(ReadNumbers(l), name)]
    BY <2>2, SMT DEF Field
  <2>4. Place(NumbersOf(l), NumbersOf(l)[i]) = i
    BY PlaceOf
  <2>5. NumbersOf(l) = ReadNumbers(l)
    BY NumbersRead
  <2> QED
    BY <2>1, <2>3, <2>4, <2>5
<1> QED
  BY <1>1, <1>2, <1>3, <1>4

LEMMA NamesAre ==
  ASSUME NEW l \in Layouts, NEW n \in 7 .. 8, ShapeOf(l, n), NEW name \in Names(l)
  PROVE  \/ \E i \in 1 .. 4 : name = KeysOf(l)[i]
         \/ \E i \in 1 .. n : name = NumbersOf(l)[i]
         \/ name = "recipients" \/ name = "programs"
  BY DEF Names, ShapeOf

(* What a decoder makes of data that begin with a policy.                  *)
LEMMA DecodeBegins ==
  ASSUME NEW l \in Layouts, NEW n \in 7 .. 8, ShapeOf(l, n),
         NEW d \in Seq(Nat), NEW p, PolicyOf(l, p), Begins(l, d, p, n)
  PROVE  Decode(l, d) = [ok |-> TRUE, policy |-> p]
<1>1. PICK r \in Nat, q \in Nat : r = Len(p.recipients) /\ q = Len(p.programs)
  <2>1. p.recipients \in Seq(Pair) /\ p.programs \in Seq(Pair)
    BY DEF PolicyOf
  <2>2. Len(p.recipients) \in Nat /\ Len(p.programs) \in Nat
    BY <2>1
  <2> QED
    BY <2>2
<1>2. PICK second \in Nat : second = 11 + n + 2 * r
  OBVIOUS
<1>3. /\ d[1] = Tag(l)
      /\ \A i \in 1 .. 4 : KeyAt(d, 2 * i) = p[KeysOf(l)[i]]
      /\ \A i \in 1 .. n : d[9 + i] = p[NumbersOf(l)[i]]
      /\ d[10 + n] = r /\ Vector(d, 10 + n) = p.recipients
      /\ second + 2 * q <= Len(d)
      /\ d[second] = q /\ Vector(d, second) = p.programs
  BY <1>1, <1>2 DEF Begins
<1>4. /\ r <= MAX_RECIPIENTS /\ q <= MAX_PROGRAMS
      /\ NoRepeat(p.recipients) /\ NoRepeat(p.programs) /\ p.active <= 1
  BY <1>1 DEF PolicyOf, ValidateAllowlists
<1>5. FixedLen(l) = 9 + n
  BY DEF ShapeOf
<1>6. Plausible(l, d)
  <2>1. d[8 + n] = p.active
    <3>1. n - 1 \in 1 .. n /\ 9 + (n - 1) = 8 + n
      OBVIOUS
    <3>2. d[9 + (n - 1)] = p[NumbersOf(l)[n - 1]]
      BY <1>3, <3>1
    <3>3. NumbersOf(l)[n - 1] = "active"
      BY DEF ShapeOf
    <3> QED
      BY <3>1, <3>2, <3>3
  <2>2. FixedLen(l) - 1 = 8 + n /\ FixedLen(l) + 2 = 11 + n /\ Len(d) >= 11 + n
    BY <1>2, <1>3, <1>5
  <2> QED
    BY <1>3, <1>4, <2>1, <2>2 DEF Plausible
<1>7. Acceptable(d, 10 + n, MAX_RECIPIENTS)
  <2>1. 10 + n + 2 * r <= Len(d)
    <3>1. Len(d) \in Nat /\ 2 * q \in Nat
      OBVIOUS
    <3>2. second <= Len(d)
      BY ONLY <1>3, <3>1, second \in Nat
    <3> QED
      BY ONLY <1>2, <3>1, <3>2, n \in Nat, r \in Nat
  <2> QED
    BY <1>3, <1>4, <2>1 DEF Acceptable
<1>8. second <= Len(d) /\ Acceptable(d, second, MAX_PROGRAMS)
  <2>1. second <= Len(d)
    BY <1>3
  <2> QED
    BY <1>3, <1>4, <2>1 DEF Acceptable
<1>9. PICK read : read = [name \in Names(l) |-> Field(l, d, second, name)]
  OBVIOUS
<1>10. Decode(l, d) = [ok |-> TRUE, policy |-> read]
  <2>1. FixedLen(l) + 1 = 10 + n /\ 10 + n + 1 + 2 * d[10 + n] = second
    BY <1>2, <1>3, <1>5
  <2> QED
    BY <1>6, <1>7, <1>8, <1>9, <2>1 DEF Decode
<1>11. ASSUME NEW name \in Names(l)
       PROVE  Field(l, d, second, name) = p[name]
  <2>1. FieldsOf(l, n, d, second)
    BY FieldOf
  <2>2. ASSUME NEW i \in 1 .. 4, name = KeysOf(l)[i]
        PROVE  Field(l, d, second, name) = p[name]
    BY <1>3, <2>1, <2>2 DEF FieldsOf
  <2>3. ASSUME NEW i \in 1 .. n, name = NumbersOf(l)[i]
        PROVE  Field(l, d, second, name) = p[name]
    BY <1>3, <2>1, <2>3 DEF FieldsOf
  <2>4. CASE name = "recipients"
    BY <1>3, <2>1, <2>4 DEF FieldsOf
  <2>5. CASE name = "programs"
    BY <1>3, <2>1, <2>5 DEF FieldsOf
  <2> QED
    BY <2>2, <2>3, <2>4, <2>5, NamesAre
<1>12. read = p
  <2>1. p = [name \in Names(l) |-> p[name]]
    BY DEF PolicyOf
  <2> QED
    BY <1>9, <1>11, <2>1
<1> QED
  BY <1>10, <1>12

(* What is decoded is a policy, and is how the data begin.                 *)
LEMMA DecodedBegins ==
  ASSUME NEW l \in Layouts, NEW n \in 7 .. 8, ShapeOf(l, n),
         NEW d \in Seq(Nat), Decode(l, d).ok
  PROVE  PolicyOf(l, Decode(l, d).policy) /\ Begins(l, d, Decode(l, d).policy, n)
<1>1. FixedLen(l) = 9 + n
  BY DEF ShapeOf
<1>2. PICK second : second = 10 + n + 1 + 2 * d[10 + n]
  OBVIOUS
<1>3. PICK p : p = [name \in Names(l) |-> Field(l, d, second, name)]
  OBVIOUS
<1>4. /\ Plausible(l, d)
      /\ Acceptable(d, 10 + n, MAX_RECIPIENTS)
      /\ second <= Len(d) /\ Acceptable(d, second, MAX_PROGRAMS)
      /\ Decode(l, d).policy = p
  <2>1. FixedLen(l) + 1 = 10 + n
    BY <1>1
  <2>2. PICK fine \in BOOLEAN :
          fine <=> /\ Plausible(l, d)
                   /\ Acceptable(d, 10 + n, MAX_RECIPIENTS)
                   /\ second <= Len(d) /\ Acceptable(d, second, MAX_PROGRAMS)
    OBVIOUS
  <2>3. Decode(l, d) = IF fine THEN [ok |-> TRUE, policy |-> p] ELSE Rejected
    BY <1>2, <1>3, <2>1, <2>2 DEF Decode
  <2>4. fine
    BY <2>3 DEF Rejected
  <2> QED
    BY <2>2, <2>3, <2>4
<1>5. PICK r \in Nat, size \in Nat : r = d[10 + n] /\ size = Len(d) /\ size >= 11 + n
  <2>1. Len(d) \in Nat /\ Len(d) >= 11 + n
    BY <1>1, <1>4 DEF Plausible
  <2>2. 10 + n \in 1 .. Len(d)
    BY <2>1
  <2>3. d[10 + n] \in Nat
    BY <2>2
  <2> QED
    BY <2>1, <2>3
<1>6. second = 11 + n + 2 * r /\ second \in Nat
  <2>1. n \in Nat /\ r \in Nat
    BY <1>5
  <2>2. second = 10 + n + 1 + 2 * r
    BY <1>2, <1>5
  <2> QED
    BY ONLY <2>1, <2>2
<1>7. PICK q \in Nat : q = d[second]
  <2>1. second \in 1 .. Len(d)
    BY <1>4, <1>5, <1>6
  <2> QED
    BY <2>1
<1>8. /\ r <= MAX_RECIPIENTS /\ 10 + n + 2 * r <= size /\ NoRepeat(Vector(d, 10 + n))
      /\ q <= MAX_PROGRAMS /\ second + 2 * q <= size /\ NoRepeat(Vector(d, second))
  BY <1>4, <1>5, <1>7 DEF Acceptable
<1>9. \A i \in 1 .. size : d[i] \in Nat
  BY <1>5
<1>10. ASSUME NEW k \in Nat, NEW m \in Nat, k >= 1, d[k] = m, k + 2 * m <= size
       PROVE  Vector(d, k) \in Seq(Pair) /\ Len(Vector(d, k)) = m
  <2>1. ASSUME NEW i \in 1 .. m
        PROVE  KeyAt(d, k + 2 * i - 1) \in Pair
    <3>1. PICK x \in 1 .. size : x = k + 2 * i - 1
      BY <1>10
    <3>2. x + 1 \in 1 .. size
      BY <1>10, <3>1
    <3>3. d[x] \in Nat /\ d[x + 1] \in Nat
      BY <1>9, <3>2
    <3> QED
      BY <3>1, <3>3 DEF KeyAt, Pair
  <2>2. Vector(d, k) = [i \in 1 .. m |-> KeyAt(d, k + 2 * i - 1)]
    BY <1>10 DEF Vector
  <2> QED
    BY <2>1, <2>2
<1>11. /\ Vector(d, 10 + n) \in Seq(Pair) /\ Len(Vector(d, 10 + n)) = r
       /\ Vector(d, second) \in Seq(Pair) /\ Len(Vector(d, second)) = q
  <2>1. 10 + n \in Nat /\ 10 + n >= 1 /\ second >= 1
    BY <1>6
  <2> QED
    BY <1>5, <1>6, <1>7, <1>8, <1>10, <2>1
<1>12. FieldsOf(l, n, d, second)
  BY FieldOf
<1>13. /\ "recipients" \in Names(l) /\ "programs" \in Names(l)
       /\ \A i \in 1 .. 4 : KeysOf(l)[i] \in Names(l)
       /\ \A i \in 1 .. n : NumbersOf(l)[i] \in Names(l)
  BY DEF Names, ShapeOf
<1>14. /\ p.recipients = Vector(d, 10 + n) /\ p.programs = Vector(d, second)
       /\ \A i \in 1 .. 4 : p[KeysOf(l)[i]] = KeyAt(d, 2 * i)
       /\ \A i \in 1 .. n : p[NumbersOf(l)[i]] = d[9 + i]
  BY <1>3, <1>12, <1>13 DEF FieldsOf
<1>15. \A i \in 1 .. 4 : p[KeysOf(l)[i]] \in Pair
  <2> SUFFICES ASSUME NEW i \in 1 .. 4 PROVE KeyAt(d, 2 * i) \in Pair
    BY <1>14
  <2>1. PICK x \in 1 .. size : x = 2 * i
    BY <1>5
  <2>2. x + 1 \in 1 .. size
    BY <1>5, <2>1
  <2>3. d[x] \in Nat /\ d[x + 1] \in Nat
    BY <1>9, <2>2
  <2> QED
    BY <2>1, <2>3 DEF KeyAt, Pair
<1>16. \A i \in 1 .. n : p[NumbersOf(l)[i]] \in Nat
  <2> SUFFICES ASSUME NEW i \in 1 .. n PROVE d[9 + i] \in Nat
    BY <1>14
  <2>1. 9 + i \in 1 .. size
    BY <1>5
  <2> QED
    BY <1>9, <2>1
<1>17. p.active <= 1
  <2>1. n - 1 \in 1 .. n /\ 9 + (n - 1) = 8 + n /\ FixedLen(l) - 1 = 8 + n
    BY <1>1
  <2>2. p[NumbersOf(l)[n - 1]] = d[8 + n]
    BY <1>14, <2>1
  <2>3. NumbersOf(l)[n - 1] = "active"
    BY DEF ShapeOf
  <2>4. d[8 + n] <= 1
    BY <1>4, <2>1 DEF Plausible
  <2> QED
    BY <2>2, <2>3, <2>4
<1>18. ValidateAllowlists(p.recipients, p.programs)
  BY <1>8, <1>11, <1>14 DEF ValidateAllowlists
<1>19. PolicyOf(l, p)
  <2>1. p = [name \in Names(l) |-> p[name]]
    BY <1>3
  <2>2. \A name \in ToSet(KeysOf(l)) : p[name] \in Pair
    BY <1>15 DEF ShapeOf
  <2>3. \A name \in ToSet(NumbersOf(l)) : p[name] \in Nat
    BY <1>16 DEF ShapeOf
  <2>4. p.recipients \in Seq(Pair) /\ p.programs \in Seq(Pair)
    BY <1>11, <1>14
  <2> QED
    BY <1>17, <1>18, <2>1, <2>2, <2>3, <2>4 DEF PolicyOf
<1>20. Begins(l, d, p, n)
  <2>1. d[1] = Tag(l)
    BY <1>4 DEF Plausible
  <2>2. second = 11 + n + 2 * Len(p.recipients) /\ Len(p.recipients) = r /\ Len(p.programs) = q
    BY <1>6, <1>11, <1>14
  <2> QED
    BY <1>5, <1>7, <1>8, <1>14, <2>1, <2>2 DEF Begins
<1> QED
  BY <1>4, <1>19, <1>20

(* Data that hold a sequence at their start have it for a prefix.          *)
LEMMA HoldsPrefix ==
  ASSUME NEW d \in Seq(Nat), NEW s \in Seq(Nat), Holds(d, 0, s)
  PROVE  IsPrefix(s, d)
<1>1. PICK m \in Nat : m = Len(s) /\ m <= Len(d) /\ \A i \in 1 .. m : d[i] = s[i]
  BY DEF Holds
<1>2. PICK front : front = SubSeq(d, 1, m)
  OBVIOUS
<1>3. PICK same : same = SubSeq(s, 1, m)
  OBVIOUS
<1>4. front \in Seq(Nat) /\ Len(front) = m /\ \A i \in 1 .. m : front[i] = d[i]
  BY <1>1, <1>2
<1>5. same \in Seq(Nat) /\ Len(same) = m /\ \A i \in 1 .. m : same[i] = s[i]
  BY <1>1, <1>3
<1>6. front = same
  <2>1. front = [i \in 1 .. m |-> front[i]] /\ same = [i \in 1 .. m |-> same[i]]
    BY <1>4, <1>5
  <2>2. \A i \in 1 .. m : front[i] = same[i]
    BY <1>1, <1>4, <1>5
  <2> QED
    BY <2>1, <2>2
<1> QED
  BY <1>1, <1>2, <1>3, <1>6 DEF IsPrefix

(* Nothing is read that the data do not say.                               *)
LEMMA ReadsWhatIsThere ==
  ASSUME data \in Seq(Nat)
  PROVE  NoMisreading
<1> SUFFICES ASSUME NEW l \in Layouts, Decode(l, data).ok
             PROVE  /\ IsPrefix(Encode(l, Decode(l, data).policy), data)
                    /\ ValidateAllowlists(Decode(l, data).policy.recipients,
                                          Decode(l, data).policy.programs)
  BY DEF NoMisreading
<1>1. PICK n \in 7 .. 8 : ShapeOf(l, n)
  BY Shape
<1>2. PICK p : p = Decode(l, data).policy
  OBVIOUS
<1>3. PolicyOf(l, p) /\ Begins(l, data, p, n)
  BY <1>1, <1>2, DecodedBegins
<1>4. Encode(l, p) \in Seq(Nat) /\ Holds(data, 0, Encode(l, p))
  BY <1>1, <1>3, HoldsPolicy
<1>5. IsPrefix(Encode(l, p), data)
  BY <1>4, HoldsPrefix
<1> QED
  BY <1>2, <1>3, <1>5 DEF PolicyOf

----------------------------------------------------------------------------
(* What the program stores stays a policy, and what a client gets to read  *)
(* begins with it for as long as nothing has damaged the answer.           *)
CodecInv ==
  /\ layout \in Layouts /\ damage \in Nat
  /\ data \in Seq(Nat)
  /\ damage = 0 => PolicyOf(layout, stored) /\ Holds(data, 0, Encode(layout, stored))

LEMMA StoredHolds ==
  ASSUME NEW cells \in Seq(Nat), NEW old \in Seq(Nat)
  PROVE  Stored(cells, old) \in Seq(Nat) /\ Holds(Stored(cells, old), 0, cells)
<1>1. PICK rest : rest = SubSeq(old, Len(cells) + 1, Len(old))
  OBVIOUS
<1>2. rest \in Seq(Nat)
  <2>1. PICK m \in Nat, k \in Nat : m = Len(cells) + 1 /\ k = Len(old)
    OBVIOUS
  <2>2. m >= 1
    BY <2>1
  <2>3. SubSeq(old, m, k) \in Seq(Nat)
    BY <2>1, <2>2
  <2> QED
    BY <1>1, <2>1, <2>3
<1>3. PICK new : new = cells \o rest
  OBVIOUS
<1>4. PICK m \in Nat : m = Len(cells)
  OBVIOUS
<1>5. /\ new \in Seq(Nat) /\ m <= Len(new) /\ Len(new) \in Nat
      /\ \A i \in 1 .. m : new[i] = cells[i]
  BY <1>3, <1>4, <1>2
<1>6. Stored(cells, old) = new
  BY <1>1, <1>3 DEF Stored
<1> QED
  BY <1>4, <1>5, <1>6 DEF Holds

LEMMA CodecInvInit == CodecInit => CodecInv
<1> SUFFICES ASSUME CodecInit PROVE CodecInv
  OBVIOUS
<1>1. PICK l \in Layouts : l = layout
  BY DEF CodecInit
<1>2. PICK recipients \in Lists(MAX_RECIPIENTS), programs \in Lists(MAX_PROGRAMS) :
        stored = Written(l, recipients, programs)
  BY <1>1 DEF CodecInit
<1>3. PICK n \in 7 .. 8 : ShapeOf(l, n)
  BY Shape
<1>4. ASSUME NEW max \in Nat, NEW s \in Lists(max)
      PROVE  s \in Seq(Pair) /\ Len(s) <= max /\ NoRepeat(s)
  <2>1. NoRepeat(s) /\ s \in BoundedSeq(Addresses, max)
    BY DEF Lists
  <2>2. PICK m \in 0 .. max : s \in [1 .. m -> Addresses]
    BY <2>1 DEF BoundedSeq, SeqOf
  <2>3. Addresses \subseteq Pair
    BY CodecAssumption DEF CodecAssumption, Pair
  <2>4. s \in Seq(Pair) /\ Len(s) = m
    BY <2>2, <2>3
  <2> QED
    BY <2>1, <2>4
<1>5. ValidateAllowlists(recipients, programs) /\ recipients \in Seq(Pair) /\ programs \in Seq(Pair)
  BY <1>4, ListBoundsAssumption DEF ListBoundsAssumption, ValidateAllowlists
<1>6. PICK p : p = stored
  OBVIOUS
<1> DEFINE value(name) ==
             CASE name = "recipients" -> recipients
               [] name = "programs" -> programs
               [] name \in ToSet(KeysOf(l)) -> Holders[Place(KeysOf(l), name)]
               [] name \in {"spent", "nonce"} -> 0
               [] name \in {"active", "bump", "maxAmount"} -> 1
               [] OTHER -> 3
<1>7. p = [name \in Names(l) |-> value(name)]
  BY <1>2, <1>6 DEF Written
<1>8. \A name \in Names(l) : p[name] = value(name)
  <2> HIDE DEF value
  <2> QED
    BY <1>7
<1>9. p = [name \in Names(l) |-> p[name]]
  <2> HIDE DEF value
  <2> QED
    BY <1>7
<1>10. p.recipients = recipients /\ p.programs = programs
  <2>1. "recipients" \in Names(l) /\ "programs" \in Names(l) /\ "recipients" # "programs"
    BY DEF Names
  <2>2. "recipients" \notin ToSet(KeysOf(l)) /\ "programs" \notin ToSet(KeysOf(l))
    BY <1>3 DEF ShapeOf
  <2>3. value("recipients") = recipients /\ value("programs") = programs
    BY <2>1, <2>2, SMT
  <2> HIDE DEF value
  <2> QED
    BY <1>8, <2>1, <2>3
<1>11. ASSUME NEW i \in 1 .. 4
       PROVE  p[KeysOf(l)[i]] \in Pair
  <2>1. PICK k : k = KeysOf(l)
    OBVIOUS
  <2>2. PICK name : name = k[i]
    OBVIOUS
  <2>3. /\ i \in 1 .. Len(k)
        /\ \A x, y \in 1 .. Len(k) : k[x] = k[y] => x = y
    BY <1>3, <2>1 DEF ShapeOf
  <2>4. Place(k, k[i]) = i
    BY <2>3, PlaceOf
  <2>5. name \in Names(l) /\ name \in ToSet(k) /\ name # "recipients" /\ name # "programs"
    BY <1>3, <2>1, <2>2 DEF ShapeOf, Names
  <2>6. p[name] = Holders[Place(k, name)]
    <3>1. name \in {"owner", "agent", "executor", "pool", "quoteMint"}
      BY <2>1, <2>2 DEF KeysOf
    <3>2. name \notin {"spent", "nonce"} /\ name \notin {"active", "bump", "maxAmount"}
      BY <3>1
    <3>3. value(name) = Holders[Place(k, name)]
      BY <2>1, <2>5, <3>2, SMT
    <3> HIDE DEF value
    <3> QED
      BY <1>8, <2>5, <3>3
  <2>7. Holders[i] \in Pair
    <3>1. Holders \in Seq(Pair) /\ Len(Holders) = 4
      BY CodecAssumption DEF CodecAssumption, Pair
    <3> QED
      BY <3>1
  <2> QED
    BY <2>1, <2>2, <2>4, <2>6, <2>7
<1>12. ASSUME NEW i \in 1 .. n
       PROVE  p[NumbersOf(l)[i]] \in Nat /\ (NumbersOf(l)[i] = "active" => p[NumbersOf(l)[i]] = 1)
  <2>1. PICK name : name = NumbersOf(l)[i]
    OBVIOUS
  <2>2. /\ name \in Names(l) /\ name \notin ToSet(KeysOf(l))
        /\ name # "recipients" /\ name # "programs"
    BY <1>3, <2>1 DEF ShapeOf, Names
  <2>3. CASE name \in {"spent", "nonce"}
    BY <1>8, <2>1, <2>2, <2>3, SMT
  <2>4. CASE name \in {"active", "bump", "maxAmount"}
    BY <1>8, <2>1, <2>2, <2>4, SMT
  <2>5. CASE name \notin {"spent", "nonce"} /\ name \notin {"active", "bump", "maxAmount"}
    BY <1>8, <2>1, <2>2, <2>5, SMT
  <2> QED
    BY <2>3, <2>4, <2>5
<1>13. PolicyOf(l, p)
  <2>1. p.active <= 1
    <3>1. n - 1 \in 1 .. n /\ NumbersOf(l)[n - 1] = "active"
      BY <1>3 DEF ShapeOf
    <3> QED
      BY <1>12, <3>1
  <2>2. \A name \in ToSet(KeysOf(l)) : p[name] \in Pair
    BY <1>3, <1>11 DEF ShapeOf
  <2>3. \A name \in ToSet(NumbersOf(l)) : p[name] \in Nat
    BY <1>3, <1>12 DEF ShapeOf
  <2> QED
    BY <1>5, <1>9, <1>10, <2>1, <2>2, <2>3 DEF PolicyOf
<1>14. Encode(l, p) \in Seq(Nat)
  BY <1>3, <1>13, HoldsPolicy, <<>> \in Seq(Nat)
<1>15. PICK old : old = [i \in 1 .. Space(l) |-> 0]
  OBVIOUS
<1>16. old \in Seq(Nat)
  <2>1. Space(l) \in Nat
    <3>1. Len(NumbersOf(l)) \in Nat /\ MAX_RECIPIENTS \in Nat /\ MAX_PROGRAMS \in Nat
      BY <1>3, ListBoundsAssumption DEF ShapeOf, ListBoundsAssumption
    <3> QED
      BY <3>1 DEF Space, Capacity
  <2> QED
    BY <1>15, <2>1
<1>17. data = Stored(Encode(l, p), old) /\ damage = 0
  BY <1>1, <1>6, <1>15 DEF CodecInit
<1>18. data \in Seq(Nat) /\ Holds(data, 0, Encode(l, p))
  BY <1>14, <1>16, <1>17, StoredHolds
<1> QED
  BY <1>1, <1>6, <1>13, <1>17, <1>18 DEF CodecInv

(* A counter or a flag may change without harm.                            *)
LEMMA StaysPolicy ==
  ASSUME NEW l \in Layouts, NEW p, PolicyOf(l, p), NEW q,
         q = [name \in Names(l) |-> q[name]],
         \A name \in Names(l) :
           q[name] # p[name] => name \in ToSet(NumbersOf(l)) /\ q[name] \in Nat,
         q.active <= 1
  PROVE  PolicyOf(l, q)
<1>1. PICK n \in 7 .. 8 : ShapeOf(l, n)
  BY Shape
<1>2. q.recipients = p.recipients /\ q.programs = p.programs
  <2>1. "recipients" \in Names(l) /\ "programs" \in Names(l)
    BY DEF Names
  <2>2. "recipients" \notin ToSet(NumbersOf(l)) /\ "programs" \notin ToSet(NumbersOf(l))
    BY <1>1 DEF ShapeOf
  <2> QED
    BY <2>1, <2>2
<1>3. ASSUME NEW name \in ToSet(KeysOf(l))
      PROVE  q[name] \in Pair
  <2>1. name \in Names(l) /\ name \notin ToSet(NumbersOf(l))
    BY <1>1 DEF ShapeOf, Names
  <2>2. p[name] \in Pair
    BY DEF PolicyOf
  <2> QED
    BY <2>1, <2>2
<1>4. ASSUME NEW name \in ToSet(NumbersOf(l))
      PROVE  q[name] \in Nat
  <2>1. name \in Names(l)
    BY DEF Names
  <2>2. p[name] \in Nat
    BY DEF PolicyOf
  <2> QED
    BY <2>1, <2>2
<1> QED
  BY <1>2, <1>3, <1>4 DEF PolicyOf

LEMMA WritesStep ==
  ASSUME CodecInv, NEW p, PolicyOf(layout, p), Writes(p)
  PROVE  CodecInv'
<1>1. PICK l \in Layouts : l = layout
  BY DEF CodecInv
<1>2. PICK n \in 7 .. 8 : ShapeOf(l, n)
  BY Shape
<1>3. Encode(l, p) \in Seq(Nat)
  BY <1>1, <1>2, HoldsPolicy, <<>> \in Seq(Nat)
<1>4. PICK old \in Seq(Nat) : old = data
  BY DEF CodecInv
<1>5. PICK new : new = Stored(Encode(l, p), old)
  OBVIOUS
<1>6. new \in Seq(Nat) /\ Holds(new, 0, Encode(l, p))
  BY <1>3, <1>5, StoredHolds
<1>7. stored' = p /\ data' = new /\ layout' = l /\ damage' = 0
  BY <1>1, <1>4, <1>5 DEF Writes
<1>8. PolicyOf(l, p)
  BY <1>1
<1> QED
  BY <1>6, <1>7, <1>8 DEF CodecInv

LEMMA CodecInvStep == CodecInv /\ [CodecNext]_codecVars => CodecInv'
<1> SUFFICES ASSUME CodecInv, [CodecNext]_codecVars PROVE CodecInv'
  OBVIOUS
<1>1. PICK l \in Layouts : l = layout
  BY DEF CodecInv
<1>2. PICK n \in 7 .. 8 : ShapeOf(l, n)
  BY Shape
<1>3. PICK p : p = stored
  OBVIOUS
<1>4. /\ "spent" \in ToSet(NumbersOf(l)) /\ "nonce" \in ToSet(NumbersOf(l))
      /\ "active" \in ToSet(NumbersOf(l))
  <2>1. CASE l = "policy"
    BY <2>1 DEF NumbersOf, ToSet
  <2>2. CASE l = "live"
    BY <2>2 DEF NumbersOf, ToSet
  <2> QED
    BY <2>1, <2>2 DEF Layouts
<1>5. ToSet(NumbersOf(l)) \subseteq Names(l)
  BY DEF Names
<1>6. ASSUME damage = 0
      PROVE  /\ PolicyOf(l, p) /\ p = [name \in Names(l) |-> p[name]]
             /\ p.spent \in Nat /\ p.nonce \in Nat /\ p.active \in Nat /\ p.active <= 1
  <2>1. PolicyOf(l, p)
    BY <1>1, <1>3, <1>6 DEF CodecInv
  <2> QED
    BY <1>4, <2>1 DEF PolicyOf
<1>7. CASE RecordCharge
  <2>1. damage = 0 /\ Writes([stored EXCEPT !.spent = @ + 1, !.nonce = @ + 1])
    BY <1>7 DEF RecordCharge, Writes
  <2>2. PICK q : q = [p EXCEPT !.spent = @ + 1, !.nonce = @ + 1]
    OBVIOUS
  <2>3. PICK half : half = [p EXCEPT !.spent = @ + 1]
    OBVIOUS
  <2>4. PolicyOf(l, q)
    <3>1. /\ half = [name \in Names(l) |-> half[name]]
          /\ half.spent = p.spent + 1
          /\ \A name \in Names(l) : name # "spent" => half[name] = p[name]
      BY <1>4, <1>5, <1>6, <2>1, <2>3
    <3>2. q = [half EXCEPT !.nonce = @ + 1]
      BY <2>2, <2>3
    <3>3. /\ q = [name \in Names(l) |-> q[name]]
          /\ q.nonce = half.nonce + 1
          /\ \A name \in Names(l) : name # "nonce" => q[name] = half[name]
      BY <1>4, <1>5, <3>1, <3>2
    <3>4. half.nonce = p.nonce /\ q.spent = p.spent + 1 /\ q.active = p.active
      BY <1>4, <1>5, <3>1, <3>3
    <3>5. \A name \in Names(l) :
            q[name] # p[name] => name \in ToSet(NumbersOf(l)) /\ q[name] \in Nat
      BY <1>4, <1>6, <2>1, <3>1, <3>3, <3>4
    <3> QED
      BY <1>6, <2>1, <3>3, <3>4, <3>5, StaysPolicy
  <2> QED
    BY <1>1, <1>3, <2>1, <2>2, <2>4, WritesStep
<1>8. CASE RecordRevoke
  <2>1. damage = 0 /\ Writes([stored EXCEPT !.active = 0])
    BY <1>8 DEF RecordRevoke, Writes
  <2>2. PICK q : q = [p EXCEPT !.active = 0]
    OBVIOUS
  <2>3. PolicyOf(l, q)
    <3>1. /\ q = [name \in Names(l) |-> q[name]]
          /\ q.active = 0
          /\ \A name \in Names(l) : name # "active" => q[name] = p[name]
      BY <1>4, <1>5, <1>6, <2>1, <2>2
    <3>2. \A name \in Names(l) :
            q[name] # p[name] => name \in ToSet(NumbersOf(l)) /\ q[name] \in Nat
      BY <1>4, <3>1
    <3> QED
      BY <1>6, <2>1, <3>1, <3>2, StaysPolicy
  <2> QED
    BY <1>1, <1>3, <2>1, <2>2, <2>3, WritesStep
<1>9. CASE Truncate
  <2>1. PICK k \in 0 .. Len(data) - 1 : data' = SubSeq(data, 1, k)
    BY <1>9 DEF Truncate
  <2>2. damage' = damage + 1 /\ layout' = layout
    BY <1>9 DEF Truncate
  <2>3. data' \in Seq(Nat)
    BY <2>1 DEF CodecInv
  <2> QED
    BY <2>2, <2>3 DEF CodecInv
<1>10. CASE Change
  <2>1. PICK i \in DOMAIN data, c \in Cells : data' = [data EXCEPT ![i] = c]
    BY <1>10 DEF Change
  <2>2. damage' = damage + 1 /\ layout' = layout
    BY <1>10 DEF Change
  <2>3. data' \in Seq(Nat)
    BY <2>1, CodecAssumption DEF CodecInv, CodecAssumption
  <2> QED
    BY <2>2, <2>3 DEF CodecInv
<1>11. CASE UNCHANGED codecVars
  BY <1>11 DEF codecVars, CodecInv
<1> QED
  BY <1>7, <1>8, <1>9, <1>10, <1>11 DEF CodecNext

LEMMA CodecInvImplies == CodecInv => DecodedRight
<1> SUFFICES ASSUME CodecInv PROVE DecodedRight
  OBVIOUS
<1>1. PICK d \in Seq(Nat) : d = data
  BY DEF CodecInv
<1>2. ASSUME damage = 0, NEW l \in Layouts
      PROVE  Decode(l, data) = IF l = layout THEN [ok |-> TRUE, policy |-> stored] ELSE Rejected
  <2>1. PICK own \in Layouts : own = layout
    BY DEF CodecInv
  <2>2. PICK p : p = stored
    OBVIOUS
  <2>3. PICK n \in 7 .. 8 : ShapeOf(own, n)
    BY Shape
  <2>4. PolicyOf(own, p) /\ Holds(d, 0, Encode(own, p))
    BY <1>1, <1>2, <2>1, <2>2 DEF CodecInv
  <2>5. Begins(own, d, p, n)
    BY <2>3, <2>4, HoldsPolicy
  <2>6. CASE l = own
    <3>1. Decode(own, d) = [ok |-> TRUE, policy |-> p]
      BY <2>3, <2>4, <2>5, DecodeBegins
    <3> QED
      BY <1>1, <2>1, <2>2, <2>6, <3>1
  <2>7. CASE l # own
    <3>1. d[1] = Tag(own) /\ Tag(l) # Tag(own)
      BY <2>5, <2>7 DEF Begins, Tag, Layouts
    <3>2. ~Plausible(l, d)
      BY <3>1 DEF Plausible
    <3>3. Decode(l, d) = Rejected
      BY <3>2 DEF Decode
    <3> QED
      BY <1>1, <2>1, <2>7, <3>3
  <2> QED
    BY <2>6, <2>7
<1>3. RoundTrip
  BY <1>2 DEF RoundTrip
<1>4. NoMisreading
  BY <1>1, ReadsWhatIsThere
<1> QED
  BY <1>3, <1>4 DEF DecodedRight

(* A decoder returns what the program stored, and of anything else only    *)
(* what it says, for every length of the lists and every damage.           *)
THEOREM DecodedHeld == CodecSpec => []DecodedRight
  BY CodecInvInit, CodecInvStep, CodecInvImplies, PTL DEF CodecSpec

----------------------------------------------------------------------------
(* What a message says, for any instructions of the builders.              *)

(* R puts the numbers from 1 to n in order.                                *)
Orders(R, n) ==
  /\ \A i \in 1 .. n : <<i, i>> \notin R
  /\ \A i, j \in 1 .. n : i # j => <<i, j>> \in R \/ <<j, i>> \in R
  /\ \A i, j, k \in 1 .. n : <<i, j>> \in R /\ <<j, k>> \in R => <<i, k>> \in R

Below(R, n, i) == { j \in 1 .. n : <<j, i>> \in R }

(* How many are below a number says where it belongs.                      *)
LEMMA Ranked ==
  ASSUME NEW n \in Nat, NEW R, Orders(R, n),
         NEW before, before = [i \in 1 .. n |-> Cardinality(Below(R, n, i))]
  PROVE  /\ \A i \in 1 .. n : before[i] \in 0 .. n - 1
         /\ \A i, j \in 1 .. n : <<i, j>> \in R => before[i] < before[j]
         /\ \A k \in 1 .. n : \E i \in 1 .. n : before[i] = k - 1
<1>1. \A S \in SUBSET (1 .. n) : IsFiniteSet(S) /\ Cardinality(S) \in 0 .. n
  <2>1. TAKE S \in SUBSET (1 .. n)
  <2>2. IsFiniteSet(1 .. n) /\ Cardinality(1 .. n) = n
    <3>1. 1 \in Int /\ n \in Int
      OBVIOUS
    <3> QED
      BY <3>1, FS_Interval
  <2>3. IsFiniteSet(S) /\ Cardinality(S) <= Cardinality(1 .. n)
    BY <2>2, FS_Subset
  <2>4. Cardinality(S) \in Nat
    BY <2>3, FS_CardinalityType
  <2> QED
    BY <2>2, <2>3, <2>4
<1>2. \A S, T \in SUBSET (1 .. n) :
        S \subseteq T /\ S # T => Cardinality(S) < Cardinality(T)
  <2>1. TAKE S, T \in SUBSET (1 .. n)
  <2>2. HAVE S \subseteq T /\ S # T
  <2>3. /\ IsFiniteSet(T)
        /\ Cardinality(S) \in Nat /\ Cardinality(T) \in Nat
    BY <1>1
  <2>4. Cardinality(S) <= Cardinality(T) /\ Cardinality(S) # Cardinality(T)
    BY <2>2, <2>3, FS_Subset
  <2> QED
    BY <2>3, <2>4
<1>3. \A i, j \in 1 .. n : <<i, j>> \in R => before[i] < before[j]
  <2>1. TAKE i, j \in 1 .. n
  <2>2. HAVE <<i, j>> \in R
  <2>3. Below(R, n, i) \subseteq Below(R, n, j)
    BY <2>2 DEF Orders, Below
  <2>4. i \in Below(R, n, j) /\ i \notin Below(R, n, i)
    BY <2>2 DEF Orders, Below
  <2>5. Below(R, n, i) \in SUBSET (1 .. n) /\ Below(R, n, j) \in SUBSET (1 .. n)
    BY DEF Below
  <2>6. Cardinality(Below(R, n, i)) < Cardinality(Below(R, n, j))
    BY <1>2, <2>3, <2>4, <2>5
  <2> QED
    BY <2>6
<1>4. \A i \in 1 .. n : before[i] \in 0 .. n - 1
  <2>1. TAKE i \in 1 .. n
  <2>2. /\ Below(R, n, i) \in SUBSET (1 .. n) /\ 1 .. n \in SUBSET (1 .. n)
        /\ i \notin Below(R, n, i)
    BY DEF Below, Orders
  <2>3. Cardinality(Below(R, n, i)) < Cardinality(1 .. n)
    BY <1>2, <2>2
  <2>4. Cardinality(Below(R, n, i)) \in Nat /\ Cardinality(1 .. n) \in 0 .. n
    BY <1>1, <2>2
  <2>5. before[i] = Cardinality(Below(R, n, i))
    OBVIOUS
  <2> QED
    BY <2>3, <2>4, <2>5
<1>5. \A k \in 1 .. n : \E i \in 1 .. n : before[i] = k - 1
  <2>1. \A i, j \in 1 .. n : before[i] = before[j] => i = j
    <3>1. TAKE i, j \in 1 .. n
    <3>2. before[i] \in Nat /\ before[j] \in Nat
      BY <1>4
    <3>3. i # j => <<i, j>> \in R \/ <<j, i>> \in R
      BY DEF Orders
    <3> QED
      BY <1>3, <3>2, <3>3
  <2>2. before \in [1 .. n -> 0 .. n - 1]
    BY <1>4
  <2>3. before \in Injection(1 .. n, 0 .. n - 1)
    BY <2>1, <2>2 DEF Injection, IsInjective
  <2>4. /\ IsFiniteSet(0 .. n - 1)
        /\ Cardinality(0 .. n - 1) = n /\ Cardinality(1 .. n) = n
    <3>1. 0 \in Int /\ 1 \in Int /\ n - 1 \in Int /\ n \in Int
      OBVIOUS
    <3>2. /\ IsFiniteSet(0 .. n - 1)
          /\ Cardinality(0 .. n - 1) = IF 0 > n - 1 THEN 0 ELSE n - 1 - 0 + 1
      BY <3>1, FS_Interval
    <3>3. Cardinality(1 .. n) = IF 1 > n THEN 0 ELSE n - 1 + 1
      BY <3>1, FS_Interval
    <3> QED
      BY <3>2, <3>3
  <2>5. before \in Surjection(1 .. n, 0 .. n - 1)
    BY <2>3, <2>4, FS_Injection
  <2>6. \A y \in 0 .. n - 1 : \E i \in 1 .. n : before[i] = y
    BY <2>5 DEF Surjection
  <2> QED
    BY <2>6
<1> QED
  BY <1>3, <1>4, <1>5

(* A set that holds with a number all smaller ones is what comes up to it. *)
LEMMA UpTo ==
  ASSUME NEW n \in Nat, NEW S \in SUBSET (1 .. n),
         \A i \in S : \A j \in 1 .. i : j \in S
  PROVE  \E k \in 0 .. n : S = 1 .. k
<1>1. CASE S = 1 .. n
  BY <1>1
<1>2. CASE S # 1 .. n
  <2>1. PICK T : T = { i \in 1 .. n : i \notin S }
    OBVIOUS
  <2>2. PICK x \in T : \A y \in T : ~(y < x)
    <3>1. \E i \in 1 .. n : i \notin S
      BY <1>2
    <3>2. T \subseteq Nat
      BY <2>1
    <3>3. T # {}
      BY <2>1, <3>1
    <3> QED
      BY <3>2, <3>3, Earliest
  <2>3. x \in 1 .. n /\ x \notin S /\ x - 1 \in 0 .. n
    BY <2>1
  <2>4. \A i \in 1 .. x - 1 : i \in S
    BY <2>1, <2>2, <2>3
  <2>5. \A i \in S : i \in 1 .. x - 1
    <3>1. TAKE i \in S
    <3>2. i \in 1 .. n /\ ~(x <= i)
      BY <2>3
    <3> QED
      BY <2>3, <3>2
  <2>6. S = 1 .. x - 1
    BY <2>4, <2>5
  <2> QED
    BY <2>3, <2>6
<1> QED
  BY <1>1, <1>2

LEMMA Size ==
  ASSUME NEW a \in Nat, NEW b \in Nat, a <= b
  PROVE  Cardinality(a + 1 .. b) = b - a
<1>1. a + 1 \in Int /\ b \in Int
  OBVIOUS
<1>2. Cardinality(a + 1 .. b) = IF a + 1 > b THEN 0 ELSE b - (a + 1) + 1
  BY <1>1, FS_Interval
<1> QED
  BY <1>2

----------------------------------------------------------------------------
Metas(A) == [address : A, signer : BOOLEAN, writable : BOOLEAN]

Unique(s) == \A i, j \in 1 .. Len(s) : s[i].address = s[j].address => i = j

(* The payer is first among the entries, and signs for what it pays.       *)
PayerFirst(p, e) ==
  Len(e) >= 1 /\ e[1].address = p /\ e[1].signer = TRUE /\ e[1].writable = TRUE

LEMMA Weights ==
  ASSUME NEW A, NEW k \in Metas(A)
  PROVE  /\ Weight(k) \in 0 .. 3
         /\ k.signer = TRUE /\ k.writable = TRUE <=> Weight(k) >= 3
         /\ k.signer = TRUE <=> Weight(k) >= 2
         /\ k.signer = TRUE \/ k.writable = TRUE <=> Weight(k) >= 1
<1>1. k.signer \in BOOLEAN /\ k.writable \in BOOLEAN
  BY DEF Metas
<1>2. CASE k.signer = TRUE /\ k.writable = TRUE
  BY <1>2 DEF Weight
<1>3. CASE k.signer = TRUE /\ k.writable = FALSE
  BY <1>3 DEF Weight
<1>4. CASE k.signer = FALSE /\ k.writable = TRUE
  BY <1>4 DEF Weight
<1>5. CASE k.signer = FALSE /\ k.writable = FALSE
  BY <1>5 DEF Weight
<1> QED
  BY <1>1, <1>2, <1>3, <1>4, <1>5

(* The keys are the entries, by weight.                                    *)
Arranged(e, keys) ==
  /\ Len(keys) = Len(e)
  /\ \A i \in 1 .. Len(e) : \E k \in 1 .. Len(e) : keys[k] = e[i]
  /\ \A k \in 1 .. Len(e) : \E i \in 1 .. Len(e) : keys[k] = e[i]
  /\ \A i, j \in 1 .. Len(e) : i < j => Weight(keys[i]) >= Weight(keys[j])

LEMMA KeysArranged ==
  ASSUME NEW A, NEW p, NEW ixs, NEW e \in Seq(Metas(A)), e = Entries(p, ixs),
         Unique(e), PayerFirst(p, e)
  PROVE  /\ Keys(p, ixs) \in Seq(Metas(A))
         /\ Arranged(e, Keys(p, ixs))
         /\ Unique(Keys(p, ixs)) /\ PayerFirst(p, Keys(p, ixs))
<1>1. PICK n \in Nat : n = Len(e) /\ n >= 1 /\ 1 \in 1 .. n
  <2>1. Len(e) \in Nat
    OBVIOUS
  <2> QED
    BY <2>1 DEF PayerFirst
<1>2. PICK w : w = [i \in 1 .. n |-> Weight(e[i])]
  OBVIOUS
<1>3. \A i \in 1 .. n : e[i] \in Metas(A) /\ w[i] = Weight(e[i]) /\ w[i] \in 0 .. 3
  <2>1. TAKE i \in 1 .. n
  <2>2. e[i] \in Metas(A)
    BY <1>1
  <2>3. Weight(e[i]) \in 0 .. 3
    BY <2>2, Weights
  <2> QED
    BY <1>2, <2>2, <2>3
<1>4. w[1] = 3
  <2>1. e[1] \in Metas(A) /\ e[1].signer = TRUE /\ e[1].writable = TRUE
    BY <1>1, <1>3 DEF PayerFirst
  <2>2. Weight(e[1]) >= 3
    BY <2>1, Weights
  <2> QED
    BY <1>1, <1>3, <2>2
<1>5. \A i, j \in 1 .. n :
        Sooner(p, e, i, j) <=>
          j # 1 /\ (i = 1 \/ w[i] > w[j] \/ (w[i] = w[j] /\ i < j))
  <2>1. \A i \in 1 .. n : e[i].address = p <=> i = 1
    BY <1>1 DEF Unique, PayerFirst
  <2> QED
    BY <1>3, <2>1 DEF Sooner
<1>6. PICK R : R = { x \in (1 .. n) \X (1 .. n) : Sooner(p, e, x[1], x[2]) }
  OBVIOUS
<1>7. \A i, j \in 1 .. n :
        <<i, j>> \in R <=> j # 1 /\ (i = 1 \/ w[i] > w[j] \/ (w[i] = w[j] /\ i < j))
  BY <1>5, <1>6
<1>8. Orders(R, n)
  <2>1. \A i \in 1 .. n : <<i, i>> \notin R
    BY <1>3, <1>7
  <2>2. \A i, j \in 1 .. n : i # j => <<i, j>> \in R \/ <<j, i>> \in R
    BY <1>3, <1>7
  <2>3. \A i, j, k \in 1 .. n : <<i, j>> \in R /\ <<j, k>> \in R => <<i, k>> \in R
    BY <1>3, <1>7
  <2> QED
    BY <2>1, <2>2, <2>3 DEF Orders
<1>9. PICK before : before = [i \in 1 .. n |-> Cardinality(Below(R, n, i))]
  OBVIOUS
<1>10. /\ \A i \in 1 .. n : before[i] \in 0 .. n - 1
       /\ \A i, j \in 1 .. n : <<i, j>> \in R => before[i] < before[j]
       /\ \A k \in 1 .. n : \E i \in 1 .. n : before[i] = k - 1
  BY <1>8, <1>9, Ranked
<1>11. \A i, j \in 1 .. n : before[i] < before[j] => <<i, j>> \in R
  <2>1. TAKE i, j \in 1 .. n
  <2>2. HAVE before[i] < before[j]
  <2>3. before[i] \in Nat /\ before[j] \in Nat
    BY <1>10
  <2>4. i # j /\ ~(before[j] < before[i])
    BY <2>2, <2>3
  <2> QED
    BY <1>8, <1>10, <2>4 DEF Orders
<1>12. \A i, j \in 1 .. n : before[i] = before[j] => i = j
  <2>1. TAKE i, j \in 1 .. n
  <2>2. before[i] \in Nat /\ before[j] \in Nat
    BY <1>10
  <2>3. i # j => before[i] < before[j] \/ before[j] < before[i]
    BY <1>8, <1>10 DEF Orders
  <2> QED
    BY <2>2, <2>3
<1>13. PICK place : place = [k \in 1 .. n |-> CHOOSE i \in 1 .. n : before[i] = k - 1]
  OBVIOUS
<1>14. \A k \in 1 .. n : place[k] \in 1 .. n /\ before[place[k]] = k - 1
  BY <1>10, <1>13
<1>15. \A i \in 1 .. n : \E k \in 1 .. n : place[k] = i
  <2>1. TAKE i \in 1 .. n
  <2>2. PICK k \in 1 .. n : k = before[i] + 1
    BY <1>10
  <2>3. before[place[k]] = before[i]
    BY <1>10, <1>14, <2>2
  <2>4. place[k] = i
    BY <1>12, <1>14, <2>3
  <2> QED
    BY <2>4
<1>16. PICK keys : keys = [k \in 1 .. n |-> e[place[k]]]
  OBVIOUS
<1>17. Keys(p, ixs) = keys
  <2>1. before = [i \in 1 .. n |-> Cardinality({ j \in 1 .. n : Sooner(p, e, j, i) })]
    <3>1. \A i \in 1 .. n : Below(R, n, i) = { j \in 1 .. n : Sooner(p, e, j, i) }
      BY <1>6 DEF Below
    <3> QED
      BY <1>9, <3>1
  <2>2. Keys(p, ixs) =
          [k \in 1 .. n |-> e[CHOOSE i \in 1 .. n : before[i] = k - 1]]
    BY <1>1, <2>1 DEF Keys
  <2> QED
    BY <1>13, <1>16, <2>2
<1>18. keys \in Seq(Metas(A)) /\ Len(keys) = n
  <2>1. \A k \in 1 .. n : keys[k] \in Metas(A)
    BY <1>3, <1>14, <1>16
  <2> QED
    BY <1>16, <2>1
<1>19. Arranged(e, keys)
  <2>1. \A i \in 1 .. n : \E k \in 1 .. n : keys[k] = e[i]
    BY <1>15, <1>16
  <2>2. \A k \in 1 .. n : \E i \in 1 .. n : keys[k] = e[i]
    BY <1>14, <1>16
  <2>3. \A i, j \in 1 .. n : i < j => Weight(keys[i]) >= Weight(keys[j])
    <3>1. TAKE i, j \in 1 .. n
    <3>2. HAVE i < j
    <3>3. place[i] \in 1 .. n /\ place[j] \in 1 .. n
      BY <1>14
    <3>4. <<place[i], place[j]>> \in R
      <4>1. before[place[i]] < before[place[j]]
        BY <1>14, <3>2
      <4> QED
        BY <1>11, <3>3, <4>1
    <3>5. w[place[i]] >= w[place[j]]
      <4>1. PICK a \in 1 .. n, b \in 1 .. n : a = place[i] /\ b = place[j]
        BY <3>3
      <4>2. a = 1 \/ w[a] > w[b] \/ w[a] = w[b]
        BY <1>7, <3>4, <4>1
      <4>3. w[a] \in 0 .. 3 /\ w[b] \in 0 .. 3
        BY <1>3
      <4>4. w[a] >= w[b]
        BY <1>4, <4>2, <4>3
      <4> QED
        BY <4>1, <4>4
    <3> QED
      BY <1>3, <1>16, <3>3, <3>5
  <2> QED
    BY <1>1, <1>18, <2>1, <2>2, <2>3 DEF Arranged
<1>20. Unique(keys)
  <2> SUFFICES ASSUME NEW i \in 1 .. Len(keys), NEW j \in 1 .. Len(keys),
                      keys[i].address = keys[j].address
               PROVE  i = j
    BY DEF Unique
  <2>1. i \in 1 .. n /\ j \in 1 .. n
    BY <1>18
  <2>2. keys[i].address = keys[j].address
    OBVIOUS
  <2>3. place[i] \in 1 .. n /\ place[j] \in 1 .. n
    BY <1>14, <2>1
  <2>4. place[i] = place[j]
    BY <1>1, <1>16, <2>1, <2>2, <2>3 DEF Unique
  <2>5. i - 1 = j - 1
    BY <1>14, <2>1, <2>4
  <2> QED
    BY <2>1, <2>5
<1>21. PayerFirst(p, keys)
  <2>1. place[1] = 1
    <3>1. place[1] \in 1 .. n /\ before[place[1]] = 0
      BY <1>1, <1>14
    <3>2. place[1] # 1 => <<1, place[1]>> \in R
      BY <1>1, <1>7, <3>1
    <3>3. place[1] # 1 => before[1] < 0
      BY <1>1, <1>10, <3>1, <3>2
    <3>4. before[1] \in Nat
      BY <1>1, <1>10
    <3> QED
      BY <3>3, <3>4
  <2>2. keys[1] = e[1]
    BY <1>1, <1>16, <2>1
  <2> QED
    BY <1>1, <1>18, <2>2 DEF PayerFirst
<1> QED
  BY <1>17, <1>18, <1>19, <1>20, <1>21

(* What holds at 0, and at each number up to n if it holds at the one      *)
(* before, holds all the way.                                              *)
LEMMA Along ==
  ASSUME NEW n \in Nat, NEW D, 0 \in D, \A i \in 1 .. n : i - 1 \in D => i \in D
  PROVE  \A i \in 0 .. n : i \in D
<1>1. PICK E : E = { i \in Nat : i <= n => i \in D }
  OBVIOUS
<1>2. 0 \in E
  BY <1>1
<1>3. ASSUME NEW i \in Nat, i \in E
      PROVE  i + 1 \in E
  <2>1. CASE i + 1 <= n
    <3>1. i \in D /\ i + 1 \in 1 .. n /\ (i + 1) - 1 = i
      BY <1>1, <1>3, <2>1
    <3>2. i + 1 \in D
      BY <3>1
    <3> QED
      BY <1>1, <3>2
  <2>2. CASE ~(i + 1 <= n)
    BY <1>1, <2>2
  <2> QED
    BY <2>1, <2>2
<1>4. \A i \in Nat : i \in E
  BY <1>2, <1>3, Induct
<1> QED
  BY <1>1, <1>4

(* The order of the keys makes three borders of the header's numbers:      *)
(* those up to a sign and are written, those up to b sign, and those       *)
(* behind c are only read.                                                 *)
Split(keys, a, b, c) ==
  /\ a <= b /\ b <= c /\ c <= Len(keys)
  /\ \A i \in 1 .. Len(keys) :
       /\ keys[i].signer = TRUE /\ keys[i].writable = TRUE <=> i <= a
       /\ keys[i].signer = TRUE <=> i <= b
       /\ keys[i].signer = TRUE \/ keys[i].writable = TRUE <=> i <= c

Reaches(w, n, level, k) == \A i \in 1 .. n : w[i] >= level <=> i <= k

LEMMA Border ==
  ASSUME NEW n \in Nat, NEW w, \A i \in 1 .. n : w[i] \in 0 .. 3,
         \A i, j \in 1 .. n : i < j => w[i] >= w[j], NEW level \in Nat
  PROVE  \E k \in 0 .. n : Reaches(w, n, level, k)
<1>1. PICK S : S = { i \in 1 .. n : w[i] >= level }
  OBVIOUS
<1>2. S \in SUBSET (1 .. n)
  BY <1>1
<1>3. \A i \in S : \A j \in 1 .. i : j \in S
  <2>1. TAKE i \in S
  <2>2. TAKE j \in 1 .. i
  <2>3. i \in 1 .. n /\ j \in 1 .. n /\ w[i] >= level /\ w[i] \in 0 .. 3 /\ w[j] \in 0 .. 3
    BY <1>1
  <2>4. i = j \/ w[j] >= w[i]
    BY <2>3
  <2>5. w[j] >= level
    BY <2>3, <2>4
  <2> QED
    BY <1>1, <2>3, <2>5
<1>4. PICK k \in 0 .. n : S = 1 .. k
  BY <1>2, <1>3, UpTo
<1>5. Reaches(w, n, level, k)
  <2> SUFFICES \A i \in 1 .. n : w[i] >= level <=> i <= k
    BY DEF Reaches
  <2>1. TAKE i \in 1 .. n
  <2>2. i \in S <=> w[i] >= level
    BY <1>1
  <2>3. i \in 1 .. k <=> i <= k
    OBVIOUS
  <2> QED
    BY <1>4, <2>2, <2>3
<1> QED
  BY <1>5

LEMMA SplitThere ==
  ASSUME NEW A, NEW keys \in Seq(Metas(A)),
         \A i, j \in 1 .. Len(keys) : i < j => Weight(keys[i]) >= Weight(keys[j])
  PROVE  \E a, b, c \in Nat : Split(keys, a, b, c)
<1>1. PICK n \in Nat : n = Len(keys)
  OBVIOUS
<1>2. PICK w : w = [i \in 1 .. n |-> Weight(keys[i])]
  OBVIOUS
<1>3. \A i \in 1 .. n :
        /\ w[i] \in 0 .. 3
        /\ keys[i].signer = TRUE /\ keys[i].writable = TRUE <=> w[i] >= 3
        /\ keys[i].signer = TRUE <=> w[i] >= 2
        /\ keys[i].signer = TRUE \/ keys[i].writable = TRUE <=> w[i] >= 1
  <2>1. TAKE i \in 1 .. n
  <2>2. keys[i] \in Metas(A)
    BY <1>1
  <2>3. w[i] = Weight(keys[i])
    BY <1>2
  <2> QED
    BY <2>2, <2>3, Weights
<1>4. \A i, j \in 1 .. n : i < j => w[i] >= w[j]
  BY <1>1, <1>2
<1>5. \A i \in 1 .. n : w[i] \in 0 .. 3
  BY <1>3
<1>6. PICK a \in 0 .. n : Reaches(w, n, 3, a)
  BY <1>5, <1>4, Border, 3 \in Nat
<1>7. PICK b \in 0 .. n : Reaches(w, n, 2, b)
  BY <1>5, <1>4, Border, 2 \in Nat
<1>8. PICK c \in 0 .. n : Reaches(w, n, 1, c)
  BY <1>5, <1>4, Border, 1 \in Nat
<1>9. a <= b
  <2>1. CASE a = 0
    BY <2>1
  <2>2. CASE a # 0
    <3>1. a \in 1 .. n /\ w[a] >= 3 /\ w[a] \in 0 .. 3
      BY <1>3, <1>6, <2>2 DEF Reaches
    <3> QED
      BY <1>7, <3>1 DEF Reaches
  <2> QED
    BY <2>1, <2>2
<1>10. b <= c
  <2>1. CASE b = 0
    BY <2>1
  <2>2. CASE b # 0
    <3>1. b \in 1 .. n /\ w[b] >= 2 /\ w[b] \in 0 .. 3
      BY <1>3, <1>7, <2>2 DEF Reaches
    <3> QED
      BY <1>8, <3>1 DEF Reaches
  <2> QED
    BY <2>1, <2>2
<1>11. \A i \in 1 .. n :
         /\ keys[i].signer = TRUE /\ keys[i].writable = TRUE <=> i <= a
         /\ keys[i].signer = TRUE <=> i <= b
         /\ keys[i].signer = TRUE \/ keys[i].writable = TRUE <=> i <= c
  BY <1>3, <1>6, <1>7, <1>8 DEF Reaches
<1>12. Split(keys, a, b, c)
  BY <1>1, <1>9, <1>10, <1>11 DEF Split
<1> QED
  BY <1>12

LEMMA Counted ==
  ASSUME NEW A, NEW keys \in Seq(Metas(A)), NEW a \in Nat, NEW b \in Nat, NEW c \in Nat,
         Split(keys, a, b, c)
  PROVE  /\ Cardinality({ i \in 1 .. Len(keys) : keys[i].signer /\ ~keys[i].writable }) = b - a
         /\ Cardinality({ i \in 1 .. Len(keys) : ~keys[i].signer /\ ~keys[i].writable })
              = Len(keys) - c
<1>1. PICK n \in Nat : n = Len(keys) /\ a <= b /\ b <= c /\ c <= n
  <2>1. Len(keys) \in Nat
    OBVIOUS
  <2> QED
    BY <2>1 DEF Split
<1>2. ASSUME NEW i \in 1 .. n
      PROVE  /\ keys[i].signer /\ ~keys[i].writable <=> i \in a + 1 .. b
             /\ ~keys[i].signer /\ ~keys[i].writable <=> i \in c + 1 .. n
  <2>1. PICK k \in Metas(A) : k = keys[i]
    BY <1>1
  <2>2. k.signer \in BOOLEAN /\ k.writable \in BOOLEAN
    BY DEF Metas
  <2>3. /\ k.signer = TRUE /\ k.writable = TRUE <=> i <= a
        /\ k.signer = TRUE <=> i <= b
        /\ k.signer = TRUE \/ k.writable = TRUE <=> i <= c
    BY <1>1, <2>1 DEF Split
  <2>4. /\ i \in a + 1 .. b <=> ~(i <= a) /\ i <= b
        /\ i \in c + 1 .. n <=> ~(i <= c)
    BY <1>1
  <2>5. /\ k.signer /\ ~k.writable <=> i \in a + 1 .. b
        /\ ~k.signer /\ ~k.writable <=> i \in c + 1 .. n
    BY ONLY <2>2, <2>3, <2>4, Zenon
  <2> QED
    BY <2>1, <2>5
<1>3. { i \in 1 .. n : keys[i].signer /\ ~keys[i].writable } = a + 1 .. b
  <2>1. a + 1 .. b \subseteq 1 .. n
    BY <1>1
  <2> QED
    BY ONLY <1>2, <2>1, Zenon
<1>4. { i \in 1 .. n : ~keys[i].signer /\ ~keys[i].writable } = c + 1 .. n
  <2>1. c + 1 .. n \subseteq 1 .. n
    BY <1>1
  <2> QED
    BY ONLY <1>2, <2>1, Zenon
<1>5. Cardinality(a + 1 .. b) = b - a /\ Cardinality(c + 1 .. n) = n - c
  BY <1>1, Size
<1> QED
  BY <1>1, <1>3, <1>4, <1>5

(* v[i] has the addresses of those of the first i that sign.               *)
Signing(keys, v) ==
  v = [i \in 0 .. Len(keys) |->
         IF i = 0 THEN <<>>
         ELSE IF keys[i].signer THEN Append(v[i - 1], keys[i].address) ELSE v[i - 1]]

LEMMA SignersAre ==
  ASSUME NEW A, NEW keys \in Seq(Metas(A)), NEW a \in Nat, NEW b \in Nat, NEW c \in Nat,
         Split(keys, a, b, c)
  PROVE  Signers(keys) = [k \in 1 .. b |-> keys[k].address]
<1> DEFINE value[i \in 0 .. Len(keys)] ==
             IF i = 0 THEN <<>>
             ELSE IF keys[i].signer THEN Append(value[i - 1], keys[i].address) ELSE value[i - 1]
<1>1. PICK n \in Nat : n = Len(keys) /\ b <= n
  <2>1. Len(keys) \in Nat
    OBVIOUS
  <2> QED
    BY <2>1 DEF Split
<1>2. PICK f : f = [i \in 0 .. n |-> [k \in 1 .. (IF i <= b THEN i ELSE b) |-> keys[k].address]]
  OBVIOUS
<1>3. f[0] = <<>>
  BY <1>2
<1>4. ASSUME NEW i \in 1 .. n
      PROVE  f[i] = IF keys[i].signer THEN Append(f[i - 1], keys[i].address) ELSE f[i - 1]
  <2>1. keys[i].signer \in BOOLEAN /\ (keys[i].signer = TRUE <=> i <= b)
    <3>1. keys[i] \in Metas(A)
      BY <1>1
    <3>2. keys[i].signer \in BOOLEAN
      BY <3>1 DEF Metas
    <3>3. keys[i].signer = TRUE <=> i <= b
      BY <1>1 DEF Split
    <3> QED
      BY <3>2, <3>3
  <2>2. CASE i <= b
    <3>1. /\ f[i] = [k \in 1 .. i |-> keys[k].address]
          /\ f[i - 1] = [k \in 1 .. i - 1 |-> keys[k].address]
      <4>1. i \in 0 .. n /\ i - 1 \in 0 .. n /\ i - 1 <= b
        BY <2>2
      <4>2. f[i] = [k \in 1 .. (IF i <= b THEN i ELSE b) |-> keys[k].address]
        BY <1>2, <4>1
      <4>3. f[i - 1] = [k \in 1 .. (IF i - 1 <= b THEN i - 1 ELSE b) |-> keys[k].address]
        BY <1>2, <4>1
      <4> QED
        BY <2>2, <4>1, <4>2, <4>3
    <3>2. f[i] = Append(f[i - 1], keys[i].address)
      <4>1. PICK s : s = f[i - 1]
        OBVIOUS
      <4>2. s = [k \in 1 .. i - 1 |-> keys[k].address]
        BY <3>1, <4>1
      <4>3. /\ Len(s) = i - 1
            /\ Append(s, keys[i].address) =
                 [k \in 1 .. (i - 1) + 1 |-> IF k = (i - 1) + 1 THEN keys[i].address ELSE s[k]]
        BY <4>2
      <4>4. \A k \in 1 .. i : keys[k].address = IF k = i THEN keys[i].address ELSE s[k]
        BY <4>2
      <4> QED
        BY <3>1, <4>1, <4>3, <4>4
    <3>3. keys[i].signer
      BY ONLY <2>1, <2>2
    <3> QED
      BY <3>2, <3>3
  <2>3. CASE ~(i <= b)
    <3>1. f[i] = f[i - 1]
      <4>1. f[i] = [k \in 1 .. b |-> keys[k].address]
        BY <1>2, <2>3
      <4>2. CASE i - 1 <= b
        <5>1. i - 1 = b
          BY <2>3, <4>2
        <5> QED
          BY <1>2, <4>1, <5>1
      <4>3. CASE ~(i - 1 <= b)
        BY <1>2, <4>1, <4>3
      <4> QED
        BY <4>2, <4>3
    <3>2. ~keys[i].signer
      BY ONLY <2>1, <2>3
    <3> QED
      BY <3>1, <3>2
  <2> QED
    BY <2>2, <2>3
<1>5. Signing(keys, f)
  <2>1. \A i \in 0 .. n :
          f[i] = IF i = 0 THEN <<>>
                 ELSE IF keys[i].signer THEN Append(f[i - 1], keys[i].address) ELSE f[i - 1]
    BY <1>3, <1>4
  <2>2. f = [i \in 0 .. n |-> f[i]]
    BY <1>2
  <2> QED
    BY <1>1, <2>1, <2>2 DEF Signing
<1>6. Signing(keys, value)
  BY <1>5 DEF Signing
<1>7. Signers(keys) = value[Len(keys)]
  BY DEF Signers
<1> HIDE DEF value
<1>8. PICK g : g = value
  OBVIOUS
<1>9. /\ g[0] = <<>>
      /\ \A i \in 1 .. n :
           g[i] = IF keys[i].signer THEN Append(g[i - 1], keys[i].address) ELSE g[i - 1]
  <2>1. \A i \in 0 .. n :
          g[i] = IF i = 0 THEN <<>>
                 ELSE IF keys[i].signer THEN Append(g[i - 1], keys[i].address) ELSE g[i - 1]
    BY <1>1, <1>6, <1>8 DEF Signing
  <2> QED
    BY <2>1
<1>10. PICK D : D = { i \in 0 .. n : g[i] = f[i] }
  OBVIOUS
<1>11. 0 \in D
  BY <1>3, <1>9, <1>10
<1>12. \A i \in 1 .. n : i - 1 \in D => i \in D
  <2>1. TAKE i \in 1 .. n
  <2>2. HAVE i - 1 \in D
  <2>3. g[i - 1] = f[i - 1]
    BY <1>10, <2>2
  <2> QED
    BY <1>4, <1>9, <1>10, <2>3
<1>13. \A i \in 0 .. n : i \in D
  BY <1>11, <1>12, Along
<1>14. g[n] = f[n]
  BY <1>10, <1>13
<1>15. f[n] = [k \in 1 .. b |-> keys[k].address]
  <2>1. CASE n <= b
    BY <1>1, <1>2, <2>1
  <2>2. CASE ~(n <= b)
    BY <1>1, <1>2, <2>2
  <2> QED
    BY <2>1, <2>2
<1> QED
  BY <1>1, <1>7, <1>8, <1>14, <1>15

----------------------------------------------------------------------------
(* What the instructions mention, and what becomes of it in the entries.   *)
Within(s, x) == \E k \in 1 .. Len(s) : s[k] = x

LEMMA WithinBoth ==
  ASSUME NEW S, NEW s \in Seq(S), NEW t \in Seq(S), NEW y \in S
  PROVE  /\ s \o Append(t, y) \in Seq(S)
         /\ \A x : Within(s \o Append(t, y), x) <=> Within(s, x) \/ Within(t, x) \/ x = y
<1>1. PICK m \in Nat, n \in Nat : m = Len(s) /\ n = Len(t)
  OBVIOUS
<1>2. PICK u : u = Append(t, y)
  OBVIOUS
<1>3. /\ u \in Seq(S) /\ Len(u) = n + 1 /\ u[n + 1] = y
      /\ \A k \in 1 .. n : u[k] = t[k]
  BY <1>1, <1>2
<1>4. PICK v : v = s \o u
  OBVIOUS
<1>5. /\ v \in Seq(S) /\ Len(v) = m + (n + 1)
      /\ \A k \in 1 .. m : v[k] = s[k]
      /\ \A k \in 1 .. n + 1 : v[m + k] = u[k]
  <2>1. s \o u \in Seq(S) /\ Len(s \o u) = Len(s) + Len(u)
    BY <1>3
  <2>2. \A k \in 1 .. Len(s) + Len(u) :
          (s \o u)[k] = IF k <= Len(s) THEN s[k] ELSE u[k - Len(s)]
    BY <1>3
  <2>3. \A k \in 1 .. m : v[k] = s[k]
    BY <1>1, <1>3, <1>4, <2>2
  <2>4. ASSUME NEW k \in 1 .. n + 1
        PROVE  v[m + k] = u[k]
    <3>1. m + k \in 1 .. m + (n + 1) /\ ~(m + k <= m) /\ (m + k) - m = k
      OBVIOUS
    <3> QED
      BY <1>1, <1>3, <1>4, <2>2, <3>1
  <2> QED
    BY <1>1, <1>3, <1>4, <2>1, <2>3, <2>4
<1>6. ASSUME NEW x
      PROVE  Within(v, x) <=> Within(s, x) \/ Within(t, x) \/ x = y
  <2>1. ASSUME Within(v, x)
        PROVE  Within(s, x) \/ Within(t, x) \/ x = y
    <3>1. PICK k \in 1 .. m + (n + 1) : v[k] = x
      BY <1>5, <2>1 DEF Within
    <3>2. CASE k \in 1 .. m
      BY <1>1, <1>5, <3>1, <3>2 DEF Within
    <3>3. CASE k \notin 1 .. m
      <4>1. PICK l \in 1 .. n + 1 : k = m + l
        <5>1. k - m \in 1 .. n + 1 /\ k = m + (k - m)
          BY <3>3
        <5> QED
          BY <5>1
      <4>2. u[l] = x
        BY <1>5, <3>1, <4>1
      <4>3. CASE l = n + 1
        BY <1>3, <4>2, <4>3
      <4>4. CASE l # n + 1
        <5>1. l \in 1 .. n /\ t[l] = x
          BY <1>3, <4>2, <4>4
        <5> QED
          BY <1>1, <5>1 DEF Within
      <4> QED
        BY <4>3, <4>4
    <3> QED
      BY <3>2, <3>3
  <2>2. ASSUME Within(s, x)
        PROVE  Within(v, x)
    <3>1. PICK k \in 1 .. m : s[k] = x
      BY <1>1, <2>2 DEF Within
    <3>2. k \in 1 .. m + (n + 1) /\ v[k] = x
      BY <1>5, <3>1
    <3> QED
      BY <1>5, <3>2 DEF Within
  <2>3. ASSUME Within(t, x)
        PROVE  Within(v, x)
    <3>1. PICK k \in 1 .. n : t[k] = x
      BY <1>1, <2>3 DEF Within
    <3>2. k \in 1 .. n + 1 /\ u[k] = x
      BY <1>3, <3>1
    <3>3. m + k \in 1 .. m + (n + 1) /\ v[m + k] = x
      BY <1>5, <3>2
    <3> QED
      BY <1>5, <3>3 DEF Within
  <2>4. ASSUME x = y
        PROVE  Within(v, x)
    <3>1. n + 1 \in 1 .. n + 1 /\ u[n + 1] = x
      BY <1>3, <2>4
    <3>2. m + (n + 1) \in 1 .. m + (n + 1) /\ v[m + (n + 1)] = x
      BY <1>5, <3>1
    <3> QED
      BY <1>5, <3>2 DEF Within
  <2> QED
    BY <2>1, <2>2, <2>3, <2>4
<1> QED
  BY <1>2, <1>4, <1>5, <1>6

(* Instructions over the addresses A.                                      *)
Takes(A, ixs) ==
  /\ Len(ixs) \in Nat
  /\ \A i \in 1 .. Len(ixs) : ixs[i].accounts \in Seq(Metas(A)) /\ ixs[i].program \in A

Brings(ix, x) == Within(ix.accounts, x) \/ x = Read(ix.program)

Gathered(ixs, n, s) == \A x : Within(s, x) <=> \E i \in 1 .. n : Brings(ixs[i], x)

(* v[i] has what the first i instructions mention.                         *)
Gathering(ixs, v) ==
  v = [i \in 0 .. Len(ixs) |->
         IF i = 0 THEN <<>> ELSE v[i - 1] \o Append(ixs[i].accounts, Read(ixs[i].program))]

LEMMA MentionsAre ==
  ASSUME NEW A, NEW ixs, Takes(A, ixs)
  PROVE  Mentions(ixs) \in Seq(Metas(A)) /\ Gathered(ixs, Len(ixs), Mentions(ixs))
<1> DEFINE value[i \in 0 .. Len(ixs)] ==
             IF i = 0 THEN <<>>
             ELSE value[i - 1] \o Append(ixs[i].accounts, Read(ixs[i].program))
<1>1. PICK n \in Nat : n = Len(ixs)
  BY DEF Takes
<1>2. PICK S : S = Seq(Metas(A))
  OBVIOUS
<1>3. PICK a, r : /\ a = [i \in 1 .. n |-> ixs[i].accounts]
                  /\ r = [i \in 1 .. n |-> Read(ixs[i].program)]
  OBVIOUS
<1>4. \A i \in 1 .. n : a[i] \in S /\ r[i] \in Metas(A)
  BY <1>1, <1>2, <1>3 DEF Takes, Read, Meta, Metas
<1>5. PICK step : step = [x \in Nat \X S |->
                            IF x[1] \in 1 .. n THEN x[2] \o Append(a[x[1]], r[x[1]]) ELSE x[2]]
  OBVIOUS
<1>6. \A i \in 1 .. n : \A x \in S : x \o Append(a[i], r[i]) \in S
  BY <1>2, <1>4, WithinBoth
<1>7. step \in Steps(S)
  <2>1. ASSUME NEW x \in Nat \X S
        PROVE  (IF x[1] \in 1 .. n THEN x[2] \o Append(a[x[1]], r[x[1]]) ELSE x[2]) \in S
    BY <1>6
  <2> QED
    BY <1>5, <2>1 DEF Steps
<1>8. <<>> \in S
  BY <1>2
<1>9. PICK f \in Upto(n, S) : Course(n, <<>>, step, f)
  BY <1>7, <1>8, Recursion
<1>10. f \in [0 .. n -> S] /\ f[0] = <<>>
  BY <1>9 DEF Upto, Course
<1>11. \A i \in 1 .. n : f[i] = f[i - 1] \o Append(a[i], r[i])
  <2>1. TAKE i \in 1 .. n
  <2>2. f[i] = step[<<i, f[i - 1]>>]
    BY <1>9 DEF Course
  <2>3. PICK y \in S : y = f[i - 1]
    BY <1>10
  <2>4. step[<<i, y>>] = y \o Append(a[i], r[i])
    <3>1. PICK x : x = <<i, y>>
      OBVIOUS
    <3>2. i \in Nat
      OBVIOUS
    <3>3. x \in Nat \X S
      BY ONLY <3>1, <3>2, y \in S
    <3>4. x[1] = i /\ x[2] = y
      BY ONLY <3>1
    <3>5. step[x] = IF x[1] \in 1 .. n THEN x[2] \o Append(a[x[1]], r[x[1]]) ELSE x[2]
      BY ONLY <1>5, <3>3
    <3> QED
      BY ONLY <3>1, <3>4, <3>5, i \in 1 .. n
  <2> QED
    BY <2>2, <2>3, <2>4
<1>12. Gathering(ixs, f)
  <2>1. \A i \in 0 .. n :
          f[i] = IF i = 0 THEN <<>> ELSE f[i - 1] \o Append(ixs[i].accounts, Read(ixs[i].program))
    BY <1>3, <1>10, <1>11
  <2>2. f = [i \in 0 .. n |-> f[i]]
    BY <1>10
  <2> QED
    BY <1>1, <2>1, <2>2 DEF Gathering
<1>13. Gathering(ixs, value)
  BY <1>12 DEF Gathering
<1>14. Mentions(ixs) = value[Len(ixs)]
  BY DEF Mentions
<1> HIDE DEF value
<1>15. PICK g : g = value
  OBVIOUS
<1>16. /\ g[0] = <<>>
       /\ \A i \in 1 .. n : g[i] = g[i - 1] \o Append(a[i], r[i])
  <2>1. \A i \in 0 .. n :
          g[i] = IF i = 0 THEN <<>> ELSE g[i - 1] \o Append(ixs[i].accounts, Read(ixs[i].program))
    BY <1>1, <1>13, <1>15 DEF Gathering
  <2>2. g[0] = <<>>
    BY <2>1
  <2>3. ASSUME NEW i \in 1 .. n
        PROVE  g[i] = g[i - 1] \o Append(a[i], r[i])
    <3>1. g[i] = g[i - 1] \o Append(ixs[i].accounts, Read(ixs[i].program))
      <4>1. i \in 0 .. n /\ i # 0
        OBVIOUS
      <4> QED
        BY ONLY <2>1, <4>1
    <3>2. a[i] = ixs[i].accounts /\ r[i] = Read(ixs[i].program)
      BY <1>3
    <3> QED
      BY <3>1, <3>2
  <2> QED
    BY <2>2, <2>3
<1>17. PICK D : D = { i \in 0 .. n : g[i] \in S /\ Gathered(ixs, i, g[i]) }
  OBVIOUS
<1>18. 0 \in D
  <2>1. \A x : ~Within(<<>>, x)
    BY DEF Within
  <2>2. Gathered(ixs, 0, <<>>)
    BY <2>1 DEF Gathered
  <2> QED
    BY <1>8, <1>16, <1>17, <2>2
<1>19. \A i \in 1 .. n : i - 1 \in D => i \in D
  <2>1. TAKE i \in 1 .. n
  <2>2. HAVE i - 1 \in D
  <2>3. PICK s \in S : s = g[i - 1] /\ Gathered(ixs, i - 1, s)
    BY <1>17, <2>2
  <2>4. g[i] = s \o Append(a[i], r[i])
    BY <1>16, <2>3
  <2>5. /\ g[i] \in S
        /\ \A x : Within(g[i], x) <=> Within(s, x) \/ Within(a[i], x) \/ x = r[i]
    BY <1>2, <1>4, <2>3, <2>4, WithinBoth
  <2>6. \A x : Brings(ixs[i], x) <=> Within(a[i], x) \/ x = r[i]
    BY <1>3 DEF Brings
  <2>7. Gathered(ixs, i, g[i])
    <3>1. ASSUME NEW x
          PROVE  Within(g[i], x) <=> \E j \in 1 .. i : Brings(ixs[j], x)
      <4>1. (\E j \in 1 .. i : Brings(ixs[j], x))
              <=> (\E j \in 1 .. i - 1 : Brings(ixs[j], x)) \/ Brings(ixs[i], x)
        OBVIOUS
      <4>2. Within(s, x) <=> \E j \in 1 .. i - 1 : Brings(ixs[j], x)
        BY <2>3 DEF Gathered
      <4> QED
        BY <2>5, <2>6, <4>1, <4>2
    <3> QED
      BY <3>1 DEF Gathered
  <2> QED
    BY <1>17, <2>5, <2>7
<1>20. \A i \in 0 .. n : i \in D
  BY <1>18, <1>19, Along
<1>21. g[n] \in S /\ Gathered(ixs, n, g[n])
  BY <1>17, <1>20
<1> QED
  BY <1>1, <1>2, <1>14, <1>15, <1>21

(* r has the entries of e, with the access that x asks for besides.        *)
Joins(e, x, r) ==
  /\ Len(r) = Len(e)
  /\ \A i \in 1 .. Len(e) :
       /\ r[i].address = e[i].address
       /\ r[i].signer = TRUE
            <=> e[i].signer = TRUE \/ (e[i].address = x.address /\ x.signer = TRUE)
       /\ r[i].writable = TRUE
            <=> e[i].writable = TRUE \/ (e[i].address = x.address /\ x.writable = TRUE)

Entered(e, address) == \E i \in 1 .. Len(e) : e[i].address = address

LEMMA MergeJoins ==
  ASSUME NEW A, NEW e \in Seq(Metas(A)), NEW x \in Metas(A), Entered(e, x.address)
  PROVE  Merge(e, x) \in Seq(Metas(A)) /\ Joins(e, x, Merge(e, x))
<1>1. PICK n \in Nat : n = Len(e)
  OBVIOUS
<1>2. PICK r : r = [i \in 1 .. n |->
                      IF e[i].address = x.address THEN Joined(e[i], x) ELSE e[i]]
  OBVIOUS
<1>3. Merge(e, x) = r
  BY <1>1, <1>2 DEF Merge, Entered
<1>4. x.address \in A /\ x.signer \in BOOLEAN /\ x.writable \in BOOLEAN
  BY DEF Metas
<1>5. ASSUME NEW i \in 1 .. n
      PROVE  /\ r[i] \in Metas(A) /\ r[i].address = e[i].address
             /\ r[i].signer = TRUE
                  <=> e[i].signer = TRUE \/ (e[i].address = x.address /\ x.signer = TRUE)
             /\ r[i].writable = TRUE
                  <=> e[i].writable = TRUE \/ (e[i].address = x.address /\ x.writable = TRUE)
  <2>1. PICK m \in Metas(A) : m = e[i]
    BY <1>1
  <2>2. m.address \in A /\ m.signer \in BOOLEAN /\ m.writable \in BOOLEAN
    BY DEF Metas
  <2>3. r[i] = IF m.address = x.address THEN Joined(m, x) ELSE m
    BY <1>2, <2>1
  <2>4. CASE m.address = x.address
    <3>1. r[i] = [address |-> x.address, signer |-> m.signer \/ x.signer,
                  writable |-> m.writable \/ x.writable]
      BY <2>3, <2>4 DEF Joined, Meta
    <3>2. (m.signer \/ x.signer) \in BOOLEAN /\ (m.writable \/ x.writable) \in BOOLEAN
      BY <1>4, <2>2
    <3>3. r[i] \in Metas(A)
      BY <1>4, <3>1, <3>2 DEF Metas
    <3>4. r[i].address = x.address /\ r[i].signer = (m.signer \/ x.signer)
            /\ r[i].writable = (m.writable \/ x.writable)
      BY <3>1
    <3>5. /\ r[i].signer = TRUE <=> m.signer = TRUE \/ x.signer = TRUE
          /\ r[i].writable = TRUE <=> m.writable = TRUE \/ x.writable = TRUE
      BY ONLY <1>4, <2>2, <3>4
    <3> QED
      BY <2>1, <2>4, <3>3, <3>4, <3>5
  <2>5. CASE m.address # x.address
    BY <2>1, <2>3, <2>5
  <2> QED
    BY <2>4, <2>5
<1>6. r \in Seq(Metas(A)) /\ Len(r) = n
  <2>1. \A i \in 1 .. n : r[i] \in Metas(A)
    BY <1>5
  <2>2. r = [i \in 1 .. n |-> r[i]]
    BY <1>2
  <2> QED
    BY ONLY <2>1, <2>2, n \in Nat
<1> QED
  BY <1>1, <1>3, <1>5, <1>6 DEF Joins

(* m has the access that the payer has or one of the first n of all asks   *)
(* for.                                                                    *)
Sums(p, all, n, m) ==
  /\ m.address = p \/ \E k \in 1 .. n : all[k].address = m.address
  /\ m.signer = TRUE
       <=> m.address = p \/ \E k \in 1 .. n : all[k].address = m.address /\ all[k].signer = TRUE
  /\ m.writable = TRUE
       <=> m.address = p \/ \E k \in 1 .. n : all[k].address = m.address /\ all[k].writable = TRUE

Access(p, all, n, e) ==
  /\ Unique(e) /\ PayerFirst(p, e)
  /\ \A i \in 1 .. Len(e) : Sums(p, all, n, e[i])
  /\ \A k \in 1 .. n : Entered(e, all[k].address)

LEMMA SumsOneMore ==
  ASSUME NEW p, NEW all, NEW n \in Nat, n >= 1, NEW m, NEW r, Sums(p, all, n - 1, m),
         r.address = m.address,
         r.signer = TRUE
           <=> m.signer = TRUE \/ (m.address = all[n].address /\ all[n].signer = TRUE),
         r.writable = TRUE
           <=> m.writable = TRUE \/ (m.address = all[n].address /\ all[n].writable = TRUE)
  PROVE  Sums(p, all, n, r)
<1>1. PICK I, J : I = 1 .. n - 1 /\ J = 1 .. n
  OBVIOUS
<1>2. J = I \cup {n}
  BY <1>1
<1>3. /\ m.address = p \/ \E k \in I : all[k].address = m.address
      /\ m.signer = TRUE
           <=> m.address = p \/ \E k \in I : all[k].address = m.address /\ all[k].signer = TRUE
      /\ m.writable = TRUE
           <=> m.address = p \/ \E k \in I : all[k].address = m.address /\ all[k].writable = TRUE
  BY <1>1 DEF Sums
<1>4. /\ r.address = p \/ \E k \in J : all[k].address = r.address
      /\ r.signer = TRUE
           <=> r.address = p \/ \E k \in J : all[k].address = r.address /\ all[k].signer = TRUE
      /\ r.writable = TRUE
           <=> r.address = p \/ \E k \in J : all[k].address = r.address /\ all[k].writable = TRUE
  BY <1>2, <1>3, Zenon
<1> QED
  BY <1>1, <1>4 DEF Sums

LEMMA MergeStep ==
  ASSUME NEW A, NEW p, NEW all \in Seq(Metas(A)), NEW n \in 1 .. Len(all),
         NEW e \in Seq(Metas(A)), Access(p, all, n - 1, e)
  PROVE  Merge(e, all[n]) \in Seq(Metas(A)) /\ Access(p, all, n, Merge(e, all[n]))
<1>1. PICK x \in Metas(A) : x = all[n]
  OBVIOUS
<1>2. PICK l \in Nat : l = Len(e) /\ l >= 1
  <2>1. Len(e) \in Nat
    OBVIOUS
  <2> QED
    BY <2>1 DEF Access, PayerFirst
<1>3. n \in Nat /\ n >= 1
  OBVIOUS
<1>4. PICK r : r = Merge(e, x)
  OBVIOUS
<1>5. CASE Entered(e, x.address)
  <2>1. r \in Seq(Metas(A)) /\ Joins(e, x, r)
    BY <1>4, <1>5, MergeJoins
  <2>2. Len(r) = l
    BY <1>2, <2>1 DEF Joins
  <2>3. \A i \in 1 .. l : r[i].address = e[i].address
    BY <1>2, <2>1 DEF Joins
  <2>4. Unique(r)
    BY <1>2, <2>2, <2>3 DEF Unique, Access
  <2>5. PayerFirst(p, r)
    <3>1. 1 \in 1 .. l /\ e[1].address = p /\ e[1].signer = TRUE /\ e[1].writable = TRUE
      BY <1>2 DEF Access, PayerFirst
    <3>2. r[1].address = p /\ r[1].signer = TRUE /\ r[1].writable = TRUE
      BY <1>2, <2>1, <3>1 DEF Joins
    <3> QED
      BY <1>2, <2>2, <3>2 DEF PayerFirst
  <2>6. ASSUME NEW i \in 1 .. l
        PROVE  Sums(p, all, n, r[i])
    <3>1. Sums(p, all, n - 1, e[i])
      BY <1>2 DEF Access
    <3>2. /\ r[i].address = e[i].address
          /\ r[i].signer = TRUE
               <=> e[i].signer = TRUE \/ (e[i].address = all[n].address /\ all[n].signer = TRUE)
          /\ r[i].writable = TRUE
               <=> e[i].writable = TRUE
                     \/ (e[i].address = all[n].address /\ all[n].writable = TRUE)
      BY <1>1, <1>2, <2>1 DEF Joins
    <3> QED
      BY <1>3, <3>1, <3>2, SumsOneMore
  <2>7. \A k \in 1 .. n : Entered(r, all[k].address)
    <3>1. TAKE k \in 1 .. n
    <3>2. Entered(e, all[k].address)
      <4>1. CASE k = n
        BY <1>1, <1>5, <4>1
      <4>2. CASE k # n
        <5>1. k \in 1 .. n - 1
          BY <4>2
        <5> QED
          BY <5>1 DEF Access
      <4> QED
        BY <4>1, <4>2
    <3> QED
      BY <1>2, <2>2, <2>3, <3>2 DEF Entered
  <2> QED
    BY <1>1, <1>4, <2>1, <2>2, <2>4, <2>5, <2>6, <2>7 DEF Access
<1>6. CASE ~Entered(e, x.address)
  <2>1. r = Append(e, x)
    BY <1>4, <1>6 DEF Merge, Entered
  <2>2. /\ r \in Seq(Metas(A)) /\ Len(r) = l + 1 /\ r[l + 1] = x
        /\ \A i \in 1 .. l : r[i] = e[i]
    BY <1>2, <2>1
  <2>3. \A i \in 1 .. l : e[i].address # x.address
    BY <1>2, <1>6 DEF Entered
  <2>4. Unique(r)
    <3> SUFFICES ASSUME NEW i \in 1 .. l + 1, NEW j \in 1 .. l + 1,
                        r[i].address = r[j].address
                 PROVE  i = j
      BY <2>2 DEF Unique
    <3>1. CASE i \in 1 .. l /\ j \in 1 .. l
      BY <1>2, <2>2, <3>1 DEF Unique, Access
    <3>2. CASE i \in 1 .. l /\ j \notin 1 .. l
      <4>1. j = l + 1
        BY <3>2
      <4> QED
        BY <2>2, <2>3, <3>2, <4>1
    <3>3. CASE i \notin 1 .. l /\ j \in 1 .. l
      <4>1. i = l + 1
        BY <3>3
      <4> QED
        BY <2>2, <2>3, <3>3, <4>1
    <3>4. CASE i \notin 1 .. l /\ j \notin 1 .. l
      BY <3>4
    <3> QED
      BY <3>1, <3>2, <3>3, <3>4
  <2>5. PayerFirst(p, r)
    <3>1. 1 \in 1 .. l /\ e[1].address = p /\ e[1].signer = TRUE /\ e[1].writable = TRUE
      BY <1>2 DEF Access, PayerFirst
    <3> QED
      BY <1>2, <2>2, <3>1 DEF PayerFirst
  <2>6. ASSUME NEW i \in 1 .. l
        PROVE  Sums(p, all, n, r[i])
    <3>1. Sums(p, all, n - 1, e[i])
      BY <1>2 DEF Access
    <3>2. e[i].address # all[n].address /\ r[i] = e[i]
      BY <1>1, <2>2, <2>3
    <3> QED
      BY <1>3, <3>1, <3>2, SumsOneMore
  <2>7. Sums(p, all, n, x)
    <3>1. x.address # p
      BY <1>2, <2>3 DEF Access, PayerFirst
    <3>2. \A k \in 1 .. n - 1 : all[k].address # x.address
      <4>1. \A k \in 1 .. n - 1 : Entered(e, all[k].address)
        BY DEF Access
      <4> QED
        BY <1>2, <2>3, <4>1 DEF Entered
    <3>3. \A k \in 1 .. n : all[k].address = x.address <=> k = n
      BY <1>1, <3>2
    <3> QED
      BY <1>1, <1>3, <3>1, <3>3 DEF Sums
  <2>8. \A k \in 1 .. n : Entered(r, all[k].address)
    <3>1. TAKE k \in 1 .. n
    <3>2. CASE k = n
      BY <1>1, <2>2, <3>2 DEF Entered
    <3>3. CASE k # n
      <4>1. k \in 1 .. n - 1
        BY <3>3
      <4>2. Entered(e, all[k].address)
        BY <4>1 DEF Access
      <4> QED
        BY <1>2, <2>2, <4>2 DEF Entered
    <3> QED
      BY <3>2, <3>3
  <2>9. \A i \in 1 .. l + 1 : Sums(p, all, n, r[i])
    <3>1. TAKE i \in 1 .. l + 1
    <3>2. i \in 1 .. l \/ i = l + 1
      OBVIOUS
    <3> QED
      BY <2>2, <2>6, <2>7, <3>2
  <2> QED
    BY <1>1, <1>4, <2>2, <2>4, <2>5, <2>8, <2>9 DEF Access
<1> QED
  BY <1>5, <1>6

LEMMA MergeType ==
  ASSUME NEW A, NEW e \in Seq(Metas(A)), NEW x \in Metas(A)
  PROVE  Merge(e, x) \in Seq(Metas(A))
<1>1. CASE Entered(e, x.address)
  BY <1>1, MergeJoins
<1>2. CASE ~Entered(e, x.address)
  <2>1. Merge(e, x) = Append(e, x)
    BY <1>2 DEF Merge, Entered
  <2> QED
    BY <2>1
<1> QED
  BY <1>1, <1>2

(* The payer alone.                                                        *)
LEMMA PayerEntry ==
  ASSUME NEW A, NEW p \in A, NEW all
  PROVE  <<SignWrite(p)>> \in Seq(Metas(A)) /\ Access(p, all, 0, <<SignWrite(p)>>)
<1>1. PICK m : m = SignWrite(p)
  OBVIOUS
<1>2. m.address = p /\ m.signer = TRUE /\ m.writable = TRUE /\ m \in Metas(A)
  BY <1>1 DEF SignWrite, Meta, Metas
<1>3. PICK e : e = <<m>>
  OBVIOUS
<1>4. e \in Seq(Metas(A)) /\ Len(e) = 1 /\ e[1] = m /\ \A i \in 1 .. Len(e) : i = 1
  BY <1>2, <1>3
<1>5. Unique(e)
  BY <1>4 DEF Unique
<1>6. PayerFirst(p, e)
  BY <1>2, <1>4 DEF PayerFirst
<1>7. \A i \in 1 .. Len(e) : Sums(p, all, 0, e[i])
  BY <1>2, <1>4 DEF Sums
<1>8. \A k \in 1 .. 0 : Entered(e, all[k].address)
  OBVIOUS
<1> QED
  BY <1>1, <1>3, <1>4, <1>5, <1>6, <1>7, <1>8 DEF Access

(* v[k] has the entries after the first k mentions.                        *)
Merging(p, all, v) ==
  v = [n \in 0 .. Len(all) |-> IF n = 0 THEN <<SignWrite(p)>> ELSE Merge(v[n - 1], all[n])]

(* The entries after all of the mentions.                                  *)
AllMerged(p, all) ==
  LET merged[n \in 0 .. Len(all)] ==
        IF n = 0 THEN <<SignWrite(p)>> ELSE Merge(merged[n - 1], all[n])
  IN  merged[Len(all)]

LEMMA EntriesAre ==
  ASSUME NEW A, NEW p \in A, NEW all \in Seq(Metas(A))
  PROVE  AllMerged(p, all) \in Seq(Metas(A)) /\ Access(p, all, Len(all), AllMerged(p, all))
<1> DEFINE value[k \in 0 .. Len(all)] ==
             IF k = 0 THEN <<SignWrite(p)>> ELSE Merge(value[k - 1], all[k])
<1>1. PICK n \in Nat : n = Len(all)
  OBVIOUS
<1>2. PICK S : S = Seq(Metas(A))
  OBVIOUS
<1>3. PICK base \in S : base = <<SignWrite(p)>> /\ Access(p, all, 0, base)
  BY <1>2, PayerEntry
<1>4. \A i \in 1 .. n : \A y \in S : Merge(y, all[i]) \in S
  <2>1. TAKE i \in 1 .. n
  <2>2. TAKE y \in S
  <2>3. all[i] \in Metas(A)
    BY <1>1
  <2> QED
    BY <1>2, <2>3, MergeType
<1>5. PICK step : step = [x \in Nat \X S |->
                            IF x[1] \in 1 .. n THEN Merge(x[2], all[x[1]]) ELSE x[2]]
  OBVIOUS
<1>6. step \in Steps(S)
  <2>1. ASSUME NEW x \in Nat \X S
        PROVE  (IF x[1] \in 1 .. n THEN Merge(x[2], all[x[1]]) ELSE x[2]) \in S
    BY <1>4
  <2> QED
    BY <1>5, <2>1 DEF Steps
<1>7. PICK f \in Upto(n, S) : Course(n, base, step, f)
  BY <1>6, Recursion
<1>8. f \in [0 .. n -> S] /\ f[0] = base
  BY <1>7 DEF Upto, Course
<1>9. \A i \in 1 .. n : f[i] = Merge(f[i - 1], all[i])
  <2>1. TAKE i \in 1 .. n
  <2>2. f[i] = step[<<i, f[i - 1]>>]
    BY <1>7 DEF Course
  <2>3. PICK y \in S : y = f[i - 1]
    BY <1>8
  <2>4. step[<<i, y>>] = Merge(y, all[i])
    <3>1. PICK x : x = <<i, y>>
      OBVIOUS
    <3>2. i \in Nat
      OBVIOUS
    <3>3. x \in Nat \X S
      BY ONLY <3>1, <3>2, y \in S
    <3>4. x[1] = i /\ x[2] = y
      BY ONLY <3>1
    <3>5. step[x] = IF x[1] \in 1 .. n THEN Merge(x[2], all[x[1]]) ELSE x[2]
      BY ONLY <1>5, <3>3
    <3> QED
      BY ONLY <3>1, <3>4, <3>5, i \in 1 .. n
  <2> QED
    BY <2>2, <2>3, <2>4
<1>10. Merging(p, all, f)
  <2>1. ASSUME NEW i \in 0 .. n
        PROVE  f[i] = IF i = 0 THEN <<SignWrite(p)>> ELSE Merge(f[i - 1], all[i])
    BY <1>3, <1>8, <1>9
  <2>2. f = [i \in 0 .. n |-> f[i]]
    BY <1>8
  <2> QED
    BY <1>1, <2>1, <2>2 DEF Merging
<1>11. Merging(p, all, value)
  BY <1>10 DEF Merging
<1>12. AllMerged(p, all) = value[Len(all)]
  BY DEF AllMerged
<1> HIDE DEF value
<1>13. PICK g : g = value
  OBVIOUS
<1>14. \A i \in 0 .. n : g[i] = IF i = 0 THEN <<SignWrite(p)>> ELSE Merge(g[i - 1], all[i])
  BY <1>1, <1>11, <1>13 DEF Merging
<1>15. PICK D : D = { i \in 0 .. n : g[i] \in S /\ Access(p, all, i, g[i]) }
  OBVIOUS
<1>16. 0 \in D
  <2>1. g[0] = base
    BY <1>3, <1>14
  <2> QED
    BY <1>3, <1>15, <2>1
<1>17. \A i \in 1 .. n : i - 1 \in D => i \in D
  <2>1. TAKE i \in 1 .. n
  <2>2. HAVE i - 1 \in D
  <2>3. PICK e \in S : e = g[i - 1] /\ Access(p, all, i - 1, e)
    BY <1>15, <2>2
  <2>4. i \in 0 .. n /\ i # 0
    OBVIOUS
  <2>5. g[i] = Merge(e, all[i])
    BY ONLY <1>14, <2>3, <2>4
  <2>6. Merge(e, all[i]) \in S /\ Access(p, all, i, Merge(e, all[i]))
    BY <1>1, <1>2, <2>3, MergeStep
  <2> QED
    BY <1>15, <2>4, <2>5, <2>6
<1>18. \A i \in 0 .. n : i \in D
  BY <1>16, <1>17, Along
<1>19. g[n] \in S /\ Access(p, all, n, g[n])
  BY <1>15, <1>18
<1> QED
  BY <1>1, <1>2, <1>12, <1>13, <1>19

Asked(ixs) == UNION { ToSet(ixs[i].accounts) : i \in 1 .. Len(ixs) }

LEMMA AskedAre ==
  ASSUME NEW A, NEW ixs, Takes(A, ixs), NEW all, all = Mentions(ixs)
  PROVE  /\ \A x \in Asked(ixs) : Within(all, x)
         /\ \A i \in 1 .. Len(ixs) : Within(all, Read(ixs[i].program))
         /\ \A k \in 1 .. Len(all) :
              all[k] \in Asked(ixs) \/ \E i \in 1 .. Len(ixs) : all[k] = Read(ixs[i].program)
<1>1. PICK n \in Nat : n = Len(ixs)
  BY DEF Takes
<1>2. \A x : Within(all, x) <=> \E i \in 1 .. n : Brings(ixs[i], x)
  BY <1>1, MentionsAre DEF Gathered
<1>3. \A i \in 1 .. n : \A x : x \in ToSet(ixs[i].accounts) <=> Within(ixs[i].accounts, x)
  <2>1. TAKE i \in 1 .. n
  <2>2. PICK s : s = ixs[i].accounts
    OBVIOUS
  <2>3. s \in Seq(Metas(A))
    BY <1>1, <2>2 DEF Takes
  <2>4. \A x : x \in ToSet(s) <=> Within(s, x)
    BY <2>3 DEF ToSet, Within
  <2> QED
    BY <2>2, <2>4
<1>4. \A x : x \in Asked(ixs) <=> \E i \in 1 .. n : Within(ixs[i].accounts, x)
  BY <1>1, <1>3 DEF Asked
<1>5. \A x \in Asked(ixs) : Within(all, x)
  BY <1>2, <1>4 DEF Brings
<1>6. \A i \in 1 .. n : Within(all, Read(ixs[i].program))
  BY <1>2 DEF Brings
<1>7. ASSUME NEW k \in 1 .. Len(all)
      PROVE  all[k] \in Asked(ixs) \/ \E i \in 1 .. n : all[k] = Read(ixs[i].program)
  <2>1. Within(all, all[k])
    BY DEF Within
  <2>2. PICK i \in 1 .. n : Brings(ixs[i], all[k])
    BY <1>2, <2>1
  <2> QED
    BY <1>4, <2>2 DEF Brings
<1> QED
  BY <1>1, <1>5, <1>6, <1>7

(* Each key has the access that was asked for its address.                 *)
Grants(p, ixs, keys) ==
  \A k \in 1 .. Len(keys) :
    /\ \/ keys[k].address = p
       \/ \E a \in Asked(ixs) : a.address = keys[k].address
       \/ \E i \in 1 .. Len(ixs) : ixs[i].program = keys[k].address
    /\ keys[k].signer = TRUE
         <=> \/ keys[k].address = p
             \/ \E a \in Asked(ixs) : a.address = keys[k].address /\ a.signer = TRUE
    /\ keys[k].writable = TRUE
         <=> \/ keys[k].address = p
             \/ \E a \in Asked(ixs) : a.address = keys[k].address /\ a.writable = TRUE

(* All say of an address what was asked for it.                            *)
Tells(ixs, all, z) ==
  /\ (\E k \in 1 .. Len(all) : all[k].address = z)
       => \/ \E a \in Asked(ixs) : a.address = z
          \/ \E i \in 1 .. Len(ixs) : ixs[i].program = z
  /\ (\E k \in 1 .. Len(all) : all[k].address = z /\ all[k].signer = TRUE)
       <=> \E a \in Asked(ixs) : a.address = z /\ a.signer = TRUE
  /\ (\E k \in 1 .. Len(all) : all[k].address = z /\ all[k].writable = TRUE)
       <=> \E a \in Asked(ixs) : a.address = z /\ a.writable = TRUE

LEMMA SumsGrant ==
  ASSUME NEW A, NEW p, NEW ixs, Takes(A, ixs), NEW all, all = Mentions(ixs),
         NEW keys, \A k \in 1 .. Len(keys) : Sums(p, all, Len(all), keys[k])
  PROVE  Grants(p, ixs, keys)
<1>1. /\ \A x \in Asked(ixs) : Within(all, x)
      /\ \A k \in 1 .. Len(all) :
           all[k] \in Asked(ixs) \/ \E i \in 1 .. Len(ixs) : all[k] = Read(ixs[i].program)
  BY AskedAre
<1>2. \A q : Read(q).address = q /\ Read(q).signer = FALSE /\ Read(q).writable = FALSE
  BY DEF Read, Meta
<1>3. ASSUME NEW z
      PROVE  Tells(ixs, all, z)
  <2>1. \A a \in Asked(ixs) : \E k \in 1 .. Len(all) : all[k] = a
    BY <1>1 DEF Within
  <2>2. (\E k \in 1 .. Len(all) : all[k].address = z)
           => \/ \E a \in Asked(ixs) : a.address = z
              \/ \E i \in 1 .. Len(ixs) : ixs[i].program = z
    BY <1>1, <1>2
  <2>3. (\E k \in 1 .. Len(all) : all[k].address = z /\ all[k].signer = TRUE)
           <=> \E a \in Asked(ixs) : a.address = z /\ a.signer = TRUE
    BY <1>1, <1>2, <2>1
  <2>4. (\E k \in 1 .. Len(all) : all[k].address = z /\ all[k].writable = TRUE)
           <=> \E a \in Asked(ixs) : a.address = z /\ a.writable = TRUE
    BY <1>1, <1>2, <2>1
  <2> QED
    BY <2>2, <2>3, <2>4 DEF Tells
<1>4. ASSUME NEW k \in 1 .. Len(keys)
      PROVE  /\ \/ keys[k].address = p
                \/ \E a \in Asked(ixs) : a.address = keys[k].address
                \/ \E i \in 1 .. Len(ixs) : ixs[i].program = keys[k].address
             /\ keys[k].signer = TRUE
                  <=> \/ keys[k].address = p
                      \/ \E a \in Asked(ixs) : a.address = keys[k].address /\ a.signer = TRUE
             /\ keys[k].writable = TRUE
                  <=> \/ keys[k].address = p
                      \/ \E a \in Asked(ixs) : a.address = keys[k].address /\ a.writable = TRUE
  <2>1. PICK m : m = keys[k]
    OBVIOUS
  <2>2. Sums(p, all, Len(all), m)
    BY <2>1
  <2>3. Tells(ixs, all, m.address)
    BY <1>3
  <2> QED
    BY ONLY <2>1, <2>2, <2>3, Zenon DEF Sums, Tells
<1> QED
  BY <1>4 DEF Grants

(* Everything that is mentioned is there.                                  *)
Complete(ixs, keys) ==
  \A i \in 1 .. Len(ixs) :
    /\ Entered(keys, ixs[i].program)
    /\ \A j \in 1 .. Len(ixs[i].accounts) : Entered(keys, ixs[i].accounts[j].address)

LEMMA KeysAre ==
  ASSUME NEW A, NEW p \in A, NEW ixs, Takes(A, ixs), NEW keys, keys = Keys(p, ixs)
  PROVE  /\ keys \in Seq(Metas(A)) /\ Unique(keys) /\ PayerFirst(p, keys)
         /\ \A i, j \in 1 .. Len(keys) : i < j => Weight(keys[i]) >= Weight(keys[j])
         /\ Grants(p, ixs, keys) /\ Complete(ixs, keys)
<1>1. PICK all \in Seq(Metas(A)) : all = Mentions(ixs)
  BY MentionsAre
<1>2. PICK e \in Seq(Metas(A)) : e = AllMerged(p, all) /\ Access(p, all, Len(all), e)
  BY EntriesAre
<1>3. e = Entries(p, ixs)
  BY <1>1, <1>2 DEF Entries, AllMerged
<1>4. Unique(e) /\ PayerFirst(p, e)
  BY <1>2 DEF Access
<1>5. keys \in Seq(Metas(A)) /\ Arranged(e, keys) /\ Unique(keys) /\ PayerFirst(p, keys)
  BY <1>3, <1>4, KeysArranged
<1>6. /\ Len(keys) = Len(e)
      /\ \A i \in 1 .. Len(e) : \E k \in 1 .. Len(e) : keys[k] = e[i]
      /\ \A k \in 1 .. Len(e) : \E i \in 1 .. Len(e) : keys[k] = e[i]
      /\ \A i, j \in 1 .. Len(e) : i < j => Weight(keys[i]) >= Weight(keys[j])
  BY <1>5 DEF Arranged
<1>7. \A k \in 1 .. Len(keys) : Sums(p, all, Len(all), keys[k])
  <2>1. \A i \in 1 .. Len(e) : Sums(p, all, Len(all), e[i])
    BY <1>2 DEF Access
  <2> QED
    BY <1>6, <2>1
<1>8. Grants(p, ixs, keys)
  BY <1>1, <1>7, SumsGrant
<1>9. \A x : Within(all, x) => Entered(keys, x.address)
  <2>1. \A k \in 1 .. Len(all) : Entered(e, all[k].address)
    BY <1>2 DEF Access
  <2>2. \A z : Entered(e, z) => Entered(keys, z)
    BY <1>6 DEF Entered
  <2> QED
    BY <2>1, <2>2 DEF Within
<1>10. Complete(ixs, keys)
  <2>1. ASSUME NEW i \in 1 .. Len(ixs)
        PROVE  Entered(keys, ixs[i].program)
    <3>1. Within(all, Read(ixs[i].program))
      BY <1>1, AskedAre
    <3>2. Read(ixs[i].program).address = ixs[i].program
      BY DEF Read, Meta
    <3>3. Entered(keys, Read(ixs[i].program).address)
      BY <1>9, <3>1
    <3> QED
      BY <3>2, <3>3
  <2>2. ASSUME NEW i \in 1 .. Len(ixs), NEW j \in 1 .. Len(ixs[i].accounts)
        PROVE  Entered(keys, ixs[i].accounts[j].address)
    <3>1. ixs[i].accounts[j] \in Asked(ixs)
      <4>1. PICK s : s = ixs[i].accounts
        OBVIOUS
      <4>2. s \in Seq(Metas(A)) /\ j \in 1 .. Len(s)
        BY <4>1 DEF Takes
      <4>3. s[j] \in ToSet(s)
        BY <4>2 DEF ToSet
      <4> QED
        BY <4>1, <4>3 DEF Asked
    <3>2. Within(all, ixs[i].accounts[j])
      BY <1>1, <3>1, AskedAre
    <3> QED
      BY <1>9, <3>2
  <2> QED
    BY <2>1, <2>2 DEF Complete
<1> QED
  BY <1>5, <1>6, <1>8, <1>10

----------------------------------------------------------------------------
(* What the builders list.                                                 *)
OwnNames ==
  {"policy", "pool", "system", "mint", "poolQuote", "poolOutput", "token", "instructions",
   "route", "rent", "account", "veyro"}

AllNames == WalletNames \cup TokenNames \cup OwnNames

(* Nobody else is asked to sign.                                           *)
SignerNames == WalletNames \cup {"account"}

Listable == { m \in Metas(AllNames) : m.signer = TRUE => m.address \in SignerNames }

LEMMA Listables ==
  /\ \A name \in AllNames : Read(name) \in Listable /\ Write(name) \in Listable
  /\ \A name \in SignerNames : Signs(name) \in Listable /\ SignWrite(name) \in Listable
<1>1. ASSUME NEW name \in AllNames
      PROVE  Read(name) \in Listable /\ Write(name) \in Listable
  BY DEF Read, Write, Meta, Metas, Listable
<1>2. SignerNames \subseteq AllNames
  BY DEF SignerNames, AllNames, OwnNames
<1>3. ASSUME NEW name \in SignerNames
      PROVE  Signs(name) \in Listable /\ SignWrite(name) \in Listable
  BY <1>2 DEF Signs, SignWrite, Meta, Metas, Listable
<1> QED
  BY <1>1, <1>3

LEMMA NamesListable ==
  /\ \A name \in {"admin", "owner", "agent", "executor", "account"} :
       Signs(name) \in Listable /\ SignWrite(name) \in Listable
  /\ \A name \in {"policy", "pool", "system", "mint", "vault", "poolQuote", "poolOutput",
                  "recipient", "destination", "token", "instructions", "route", "rent",
                  "account", "owner"} :
       Read(name) \in Listable /\ Write(name) \in Listable
<1>1. \A name \in {"admin", "owner", "agent", "executor", "account"} : name \in SignerNames
  BY DEF SignerNames, WalletNames
<1>2. \A name \in {"policy", "pool", "system", "mint", "vault", "poolQuote", "poolOutput",
                   "recipient", "destination", "token", "instructions", "route", "rent",
                   "account", "owner"} :
        name \in AllNames
  BY DEF AllNames, WalletNames, TokenNames, OwnNames
<1> QED
  BY <1>1, <1>2, Listables

(* The client's list is the program's, field by field.                     *)
LEMMA BuilderIs ==
  ASSUME NEW kind \in DOMAIN Builder
  PROVE  /\ Builder[kind] \in Seq(Listable)
         /\ kind \in DOMAIN Accounts => Accounts[kind] = Builder[kind]
<1>1. kind \in {"create_pool", "create_policy", "create_live_policy", "execute_swap",
                "execute_route", "revoke", "revoke_live", "recover", "recover_live",
                "systemCreate", "initializeMint", "initializeToken", "mintTo"}
  BY DEF Builder
<1>2. DOMAIN Accounts =
        {"create_pool", "create_policy", "create_live_policy", "execute_swap",
         "execute_route", "revoke", "revoke_live", "recover", "recover_live"}
  BY DEF Accounts
<1>3. CASE kind = "create_pool"
  <2>1. PICK row : row = <<SignWrite("admin"), Write("pool"), Read("system")>>
    OBVIOUS
  <2>2. Builder[kind] = row /\ Accounts[kind] = row
    BY <1>3, <2>1 DEF Builder, Accounts
  <2>3. row \in Seq(Listable)
    BY <2>1, NamesListable
  <2> QED
    BY <2>2, <2>3
<1>4. CASE kind = "create_policy"
  <2>1. PICK row :
          row = <<SignWrite("owner"), Write("policy"), Read("pool"), Read("system")>>
    OBVIOUS
  <2>2. Builder[kind] = row /\ Accounts[kind] = row
    BY <1>4, <2>1 DEF Builder, Accounts
  <2>3. row \in Seq(Listable)
    BY <2>1, NamesListable
  <2> QED
    BY <2>2, <2>3
<1>5. CASE kind = "create_live_policy"
  <2>1. PICK row :
          row = <<SignWrite("owner"), Write("policy"), Read("mint"), Read("system")>>
    OBVIOUS
  <2>2. Builder[kind] = row /\ Accounts[kind] = row
    BY <1>5, <2>1 DEF Builder, Accounts
  <2>3. row \in Seq(Listable)
    BY <2>1, NamesListable
  <2> QED
    BY <2>2, <2>3
<1>6. CASE kind = "execute_swap"
  <2>1. PICK row :
          row = <<Signs("agent"), Signs("executor"), Write("policy"), Read("pool"), Write("vault"),
                  Write("poolQuote"), Write("poolOutput"), Write("recipient"), Read("token"),
                  Read("instructions")>>
    OBVIOUS
  <2>2. Builder[kind] = row /\ Accounts[kind] = row
    BY <1>6, <2>1 DEF Builder, Accounts
  <2>3. row \in Seq(Listable)
    BY <2>1, NamesListable
  <2> QED
    BY <2>2, <2>3
<1>7. CASE kind = "execute_route"
  <2>1. PICK row :
          row = <<Signs("agent"), Signs("executor"), Write("policy"), Write("vault"),
                  Write("destination"), Read("route"), Read("token"), Read("instructions")>>
    OBVIOUS
  <2>2. Builder[kind] = row /\ Accounts[kind] = row
    BY <1>7, <2>1 DEF Builder, Accounts
  <2>3. row \in Seq(Listable)
    BY <2>1, NamesListable
  <2> QED
    BY <2>2, <2>3
<1>8. CASE kind = "revoke"
  <2>1. PICK row : row = <<Signs("owner"), Write("policy")>>
    OBVIOUS
  <2>2. Builder[kind] = row /\ Accounts[kind] = row
    BY <1>8, <2>1 DEF Builder, Accounts
  <2>3. row \in Seq(Listable)
    BY <2>1, NamesListable
  <2> QED
    BY <2>2, <2>3
<1>9. CASE kind = "revoke_live"
  <2>1. PICK row : row = <<Signs("owner"), Write("policy")>>
    OBVIOUS
  <2>2. Builder[kind] = row /\ Accounts[kind] = row
    BY <1>9, <2>1 DEF Builder, Accounts
  <2>3. row \in Seq(Listable)
    BY <2>1, NamesListable
  <2> QED
    BY <2>2, <2>3
<1>10. CASE kind = "recover"
  <2>1. PICK row :
          row = <<Signs("owner"), Read("policy"), Read("pool"), Write("vault"),
                  Write("destination"), Read("token")>>
    OBVIOUS
  <2>2. Builder[kind] = row /\ Accounts[kind] = row
    BY <1>10, <2>1 DEF Builder, Accounts
  <2>3. row \in Seq(Listable)
    BY <2>1, NamesListable
  <2> QED
    BY <2>2, <2>3
<1>11. CASE kind = "recover_live"
  <2>1. PICK row :
          row = <<Signs("owner"), Read("policy"), Write("vault"), Write("destination"),
                  Read("token")>>
    OBVIOUS
  <2>2. Builder[kind] = row /\ Accounts[kind] = row
    BY <1>11, <2>1 DEF Builder, Accounts
  <2>3. row \in Seq(Listable)
    BY <2>1, NamesListable
  <2> QED
    BY <2>2, <2>3
<1>12. CASE kind = "systemCreate"
  <2>1. PICK row : row = <<SignWrite("admin"), SignWrite("account")>>
    OBVIOUS
  <2>2. Builder[kind] = row /\ kind \notin DOMAIN Accounts
    BY <1>2, <1>12, <2>1 DEF Builder
  <2>3. row \in Seq(Listable)
    BY <2>1, NamesListable
  <2> QED
    BY <2>2, <2>3
<1>13. CASE kind = "initializeMint"
  <2>1. PICK row : row = <<Write("account"), Read("rent")>>
    OBVIOUS
  <2>2. Builder[kind] = row /\ kind \notin DOMAIN Accounts
    BY <1>2, <1>13, <2>1 DEF Builder
  <2>3. row \in Seq(Listable)
    BY <2>1, NamesListable
  <2> QED
    BY <2>2, <2>3
<1>14. CASE kind = "initializeToken"
  <2>1. PICK row : row = <<Write("account"), Read("mint"), Read("owner"), Read("rent")>>
    OBVIOUS
  <2>2. Builder[kind] = row /\ kind \notin DOMAIN Accounts
    BY <1>2, <1>14, <2>1 DEF Builder
  <2>3. row \in Seq(Listable)
    BY <2>1, NamesListable
  <2> QED
    BY <2>2, <2>3
<1>15. CASE kind = "mintTo"
  <2>1. PICK row : row = <<Write("mint"), Write("vault"), Signs("admin")>>
    OBVIOUS
  <2>2. Builder[kind] = row /\ kind \notin DOMAIN Accounts
    BY <1>2, <1>15, <2>1 DEF Builder
  <2>3. row \in Seq(Listable)
    BY <2>1, NamesListable
  <2> QED
    BY <2>2, <2>3
<1> QED
  BY <1>1, <1>3, <1>4, <1>5, <1>6, <1>7, <1>8, <1>9,
     <1>10, <1>11, <1>12, <1>13, <1>14, <1>15

(* The addresses of instructions.                                          *)
Everyone == Wallets \cup TokenAccounts \cup OwnNames

Keyholders == Wallets \cup {"account"}

(* m serves as what d demands.                                             *)
Serves(m, d) ==
  /\ m.address \in Places(d.address)
  /\ d.signer = TRUE => m.signer = TRUE
  /\ d.writable = TRUE => m.writable = TRUE

Proper(ix) ==
  /\ ix.kind \in DOMAIN Builder
  /\ ix.program \in Everyone
  /\ ix.accounts \in Seq(Metas(Everyone))
  /\ \A j \in 1 .. Len(ix.accounts) :
       ix.accounts[j].signer = TRUE => ix.accounts[j].address \in Keyholders \cup {"policy"}
  /\ ix.kind \in DOMAIN Accounts =>
       /\ Len(Accounts[ix.kind]) <= Len(ix.accounts)
       /\ \A j \in 1 .. Len(Accounts[ix.kind]) : Serves(ix.accounts[j], Accounts[ix.kind][j])

(* What a route brings along.                                              *)
LEMMA RoutesAre ==
  ASSUME NEW kind \in DOMAIN Builder, NEW remaining \in Remaining(kind)
  PROVE  /\ remaining \in Seq(Metas(AllNames))
         /\ \A i \in 1 .. Len(remaining) :
              /\ remaining[i].signer = TRUE => remaining[i].address = "policy"
              /\ remaining[i].address \in {"policy"} \cup NamesOf(kind)
<1>1. CASE remaining = <<>>
  BY <1>1
<1>2. CASE remaining # <<>>
  <2>1. kind = "execute_route" /\ remaining \in Routes
    BY <1>2 DEF Remaining
  <2>2. PICK marked \in BOOLEAN :
          remaining = <<Meta("policy", marked, FALSE), Write("vault"), Write("destination")>>
    BY <2>1 DEF Routes
  <2>3. PICK x, y, z : x = Meta("policy", marked, FALSE) /\ y = Write("vault")
                         /\ z = Write("destination")
    OBVIOUS
  <2>4. /\ x \in Metas(AllNames) /\ y \in Metas(AllNames) /\ z \in Metas(AllNames)
        /\ x.address = "policy" /\ y.address = "vault" /\ z.address = "destination"
        /\ y.signer = FALSE /\ z.signer = FALSE
    BY <2>3 DEF Meta, Write, Metas, AllNames, TokenNames, OwnNames
  <2>5. remaining = <<x, y, z>>
    BY <2>2, <2>3
  <2>6. /\ remaining \in Seq(Metas(AllNames)) /\ Len(remaining) = 3
        /\ remaining[1] = x /\ remaining[2] = y /\ remaining[3] = z
    BY <2>4, <2>5
  <2>7. PICK row : row = Builder[kind]
    OBVIOUS
  <2>8. row = <<Signs("agent"), Signs("executor"), Write("policy"), Write("vault"),
                Write("destination"), Read("route"), Read("token"), Read("instructions")>>
    BY <2>1, <2>7 DEF Builder
  <2>9. Len(row) = 8 /\ row[4] = y /\ row[5] = z
    BY <2>3, <2>8
  <2>10. "vault" \in NamesOf(kind) /\ "destination" \in NamesOf(kind)
    BY <2>4, <2>7, <2>9 DEF NamesOf
  <2>11. \A i \in 1 .. 3 :
           /\ remaining[i].signer = TRUE => remaining[i].address = "policy"
           /\ remaining[i].address \in {"policy"} \cup NamesOf(kind)
    <3>1. TAKE i \in 1 .. 3
    <3>2. i = 1 \/ i = 2 \/ i = 3
      OBVIOUS
    <3> QED
      BY <2>4, <2>6, <2>10, <3>2
  <2> QED
    BY <2>6, <2>11
<1> QED
  BY <1>1, <1>2

LEMMA ListIs ==
  ASSUME NEW kind \in DOMAIN Builder, NEW remaining \in Remaining(kind),
         NEW list, list = Builder[kind] \o remaining
  PROVE  /\ list \in Seq(Metas(AllNames)) /\ Len(Builder[kind]) <= Len(list)
         /\ \A i \in 1 .. Len(Builder[kind]) : list[i] = Builder[kind][i]
         /\ \A i \in 1 .. Len(list) :
              /\ list[i].signer = TRUE => list[i].address \in SignerNames \cup {"policy"}
              /\ list[i].address \in {"policy"} \cup NamesOf(kind)
<1>1. PICK row \in Seq(Listable) : row = Builder[kind]
  BY BuilderIs
<1>2. PICK m \in Nat, n \in Nat : m = Len(row) /\ n = Len(remaining)
  <2>1. Len(row) \in Nat
    OBVIOUS
  <2>2. Len(remaining) \in Nat
    BY RoutesAre
  <2> QED
    BY <2>1, <2>2
<1>3. row \in Seq(Metas(AllNames)) /\ remaining \in Seq(Metas(AllNames))
  <2>1. \A i \in 1 .. m : row[i] \in Metas(AllNames)
    BY <1>2 DEF Listable
  <2>2. row \in Seq(Metas(AllNames))
    BY <1>2, <2>1
  <2> QED
    BY <2>2, RoutesAre
<1>4. /\ list \in Seq(Metas(AllNames)) /\ Len(list) = m + n
      /\ \A i \in 1 .. m + n : list[i] = IF i <= m THEN row[i] ELSE remaining[i - m]
  BY <1>1, <1>2, <1>3
<1>5. \A i \in 1 .. m : list[i] = row[i]
  BY <1>2, <1>4
<1>6. ASSUME NEW i \in 1 .. m + n
      PROVE  /\ list[i].signer = TRUE => list[i].address \in SignerNames \cup {"policy"}
             /\ list[i].address \in {"policy"} \cup NamesOf(kind)
  <2>1. CASE i <= m
    <3>1. i \in 1 .. m /\ list[i] = row[i]
      <4>1. i \in 1 .. m
        BY ONLY <2>1, i \in 1 .. m + n, m \in Nat, n \in Nat
      <4> QED
        BY <1>5, <4>1
    <3>2. row[i].signer = TRUE => row[i].address \in SignerNames
      BY <1>2, <3>1 DEF Listable
    <3>3. row[i].address \in NamesOf(kind)
      BY <1>1, <1>2, <3>1 DEF NamesOf
    <3> QED
      BY <3>1, <3>2, <3>3
  <2>2. CASE ~(i <= m)
    <3>1. PICK k \in 1 .. n : k = i - m
      BY <2>2
    <3>2. list[i] = remaining[k]
      BY <1>4, <2>2, <3>1
    <3> QED
      BY <1>2, <3>2, RoutesAre
  <2> QED
    BY <2>1, <2>2
<1>7. Len(Builder[kind]) = m /\ Builder[kind] = row /\ m <= m + n
  BY <1>1, <1>2
<1>8. \A i \in 1 .. Len(Builder[kind]) : list[i] = Builder[kind][i]
  BY <1>5, <1>7
<1> QED
  BY <1>4, <1>6, <1>7, <1>8

(* Where a name is placed.                                                 *)
PlaceFor(wallets, accounts, name) ==
  IF name \in WalletNames THEN wallets[name]
  ELSE IF name \in TokenNames THEN accounts[name] ELSE name

LEMMA PlacedWell ==
  ASSUME NEW known, NEW name \in AllNames, name \in {"policy"} \cup known,
         NEW wallets \in [known \cap WalletNames -> Wallets],
         NEW accounts \in [known \cap TokenNames -> TokenAccounts],
         NEW place, place = PlaceFor(wallets, accounts, name)
  PROVE  /\ place \in Everyone /\ place \in Places(name)
         /\ name \in SignerNames \cup {"policy"} => place \in Keyholders \cup {"policy"}
<1>1. CASE name \in WalletNames
  <2>1. name \in known /\ name \notin TokenNames
    BY <1>1 DEF WalletNames, TokenNames
  <2>2. place \in Wallets
    BY <1>1, <2>1 DEF PlaceFor
  <2>3. Places(name) = Wallets
    BY <1>1, <2>1, SMT DEF Places
  <2> QED
    BY <2>2, <2>3 DEF Everyone, Keyholders
<1>2. CASE name \in TokenNames
  <2>1. /\ name \in known /\ name \notin WalletNames
        /\ name \notin SignerNames \cup {"policy"}
    BY <1>2 DEF WalletNames, TokenNames, SignerNames
  <2>2. place \in TokenAccounts
    BY <1>2, <2>1 DEF PlaceFor
  <2>3. Places(name) = TokenAccounts
    BY <1>2, <2>1, SMT DEF Places
  <2> QED
    BY <2>1, <2>2, <2>3 DEF Everyone
<1>3. CASE name \notin WalletNames /\ name \notin TokenNames
  <2>1. place = name /\ name \in OwnNames
    BY <1>3 DEF PlaceFor, AllNames
  <2>2. Places(name) = {name}
    BY <1>3, SMT DEF Places
  <2>3. name \in SignerNames => name = "account"
    BY <1>3 DEF SignerNames
  <2> QED
    BY <2>1, <2>2, <2>3 DEF Everyone, Keyholders
<1> QED
  BY <1>1, <1>2, <1>3

LEMMA ProgramIs ==
  ASSUME NEW kind \in DOMAIN Builder
  PROVE  ProgramOf(kind) \in Everyone
<1>1. CASE kind \in DOMAIN Accounts
  <2>1. kind # "systemCreate"
    BY <1>1 DEF Accounts
  <2> QED
    BY <1>1, <2>1, SMT DEF ProgramOf, Everyone, OwnNames
<1>2. CASE kind \notin DOMAIN Accounts /\ kind = "systemCreate"
  BY <1>2, SMT DEF ProgramOf, Everyone, OwnNames
<1>3. CASE kind \notin DOMAIN Accounts /\ kind # "systemCreate"
  BY <1>3, SMT DEF ProgramOf, Everyone, OwnNames
<1> QED
  BY <1>1, <1>2, <1>3

LEMMA InstructionIs ==
  ASSUME NEW kind \in DOMAIN Builder, NEW ix \in Instructions(kind)
  PROVE  Proper(ix)
<1>1. PICK wallets \in [NamesOf(kind) \cap WalletNames -> Wallets],
           accounts \in [NamesOf(kind) \cap TokenNames -> TokenAccounts],
           remaining \in Remaining(kind) :
        ix = Instruction(kind, wallets, accounts, remaining)
  BY DEF Instructions
<1>2. PICK list : list = Builder[kind] \o remaining
  OBVIOUS
<1>3. /\ list \in Seq(Metas(AllNames)) /\ Len(Builder[kind]) <= Len(list)
      /\ \A i \in 1 .. Len(Builder[kind]) : list[i] = Builder[kind][i]
      /\ \A i \in 1 .. Len(list) :
           /\ list[i].signer = TRUE => list[i].address \in SignerNames \cup {"policy"}
           /\ list[i].address \in {"policy"} \cup NamesOf(kind)
  BY <1>2, ListIs
<1>4. PICK q : q = [i \in 1 .. Len(list) |->
                      [list[i] EXCEPT !.address = PlaceFor(wallets, accounts, list[i].address)]]
  OBVIOUS
<1>5. ix = [kind |-> kind, program |-> ProgramOf(kind), accounts |-> q]
  BY <1>1, <1>2, <1>4 DEF Instruction, PlaceFor
<1>6. ASSUME NEW i \in 1 .. Len(list)
      PROVE  /\ q[i] \in Metas(Everyone)
             /\ q[i].address \in Places(list[i].address)
             /\ q[i].signer = list[i].signer /\ q[i].writable = list[i].writable
             /\ q[i].signer = TRUE => q[i].address \in Keyholders \cup {"policy"}
  <2>1. PICK m \in Metas(AllNames) : m = list[i]
    BY <1>3
  <2>2. PICK name \in AllNames, s \in BOOLEAN, w \in BOOLEAN :
          m = [address |-> name, signer |-> s, writable |-> w]
    BY DEF Metas
  <2>3. PICK place : place = PlaceFor(wallets, accounts, name)
    OBVIOUS
  <2>4. m.address = name /\ m.signer = s /\ m.writable = w
    BY <2>2
  <2>5. q[i] = [address |-> place, signer |-> s, writable |-> w]
    <3>1. q[i] = [m EXCEPT !.address = PlaceFor(wallets, accounts, m.address)]
      BY <1>4, <2>1
    <3>2. PlaceFor(wallets, accounts, m.address) = place
      BY <2>3, <2>4
    <3>3. q[i] = [m EXCEPT !.address = place]
      BY ONLY <3>1, <3>2
    <3> QED
      BY ONLY <2>2, <3>3
  <2>6. /\ m.address \in {"policy"} \cup NamesOf(kind)
        /\ m.signer = TRUE => m.address \in SignerNames \cup {"policy"}
    BY <1>3, <2>1
  <2>7. name \in {"policy"} \cup NamesOf(kind) /\ (s = TRUE => name \in SignerNames \cup {"policy"})
    BY ONLY <2>4, <2>6
  <2>8. /\ place \in Everyone /\ place \in Places(name)
        /\ name \in SignerNames \cup {"policy"} => place \in Keyholders \cup {"policy"}
    BY <2>3, <2>7, PlacedWell
  <2>9. q[i] \in Metas(Everyone)
    BY ONLY <2>5, <2>8, s \in BOOLEAN, w \in BOOLEAN DEF Metas
  <2>10. q[i].address = place /\ q[i].signer = s /\ q[i].writable = w
    BY ONLY <2>5
  <2>11. list[i].address = name /\ list[i].signer = s /\ list[i].writable = w
    BY ONLY <2>1, <2>4
  <2> QED
    BY ONLY <2>7, <2>8, <2>9, <2>10, <2>11
<1>7. q \in Seq(Metas(Everyone)) /\ Len(q) = Len(list)
  <2>1. \A i \in 1 .. Len(list) : q[i] \in Metas(Everyone)
    BY <1>6
  <2>2. q = [i \in 1 .. Len(list) |-> q[i]]
    BY <1>4
  <2>3. Len(list) \in Nat
    BY <1>3
  <2> QED
    BY ONLY <2>1, <2>2, <2>3
<1>8. kind \in DOMAIN Accounts =>
        /\ Len(Accounts[kind]) <= Len(q)
        /\ \A j \in 1 .. Len(Accounts[kind]) : Serves(q[j], Accounts[kind][j])
  <2> SUFFICES ASSUME kind \in DOMAIN Accounts
               PROVE  /\ Len(Accounts[kind]) <= Len(q)
                      /\ \A j \in 1 .. Len(Accounts[kind]) : Serves(q[j], Accounts[kind][j])
    OBVIOUS
  <2>1. PICK row \in Seq(Listable) : row = Builder[kind] /\ row = Accounts[kind]
    BY BuilderIs
  <2>2. PICK n \in Nat : n = Len(row)
    OBVIOUS
  <2>3. ASSUME NEW j \in 1 .. n
        PROVE  Serves(q[j], row[j])
    <3>1. Len(list) \in Nat /\ n <= Len(list)
      BY <1>3, <2>1, <2>2
    <3>2. j \in 1 .. Len(list) /\ list[j] = row[j]
      BY <1>3, <2>1, <2>2, <3>1
    <3> QED
      BY <1>6, <3>2 DEF Serves
  <2> QED
    BY <1>3, <1>7, <2>1, <2>2, <2>3
<1>9. ix.kind = kind /\ ix.program = ProgramOf(kind) /\ ix.accounts = q
  BY <1>5
<1>10. \A j \in 1 .. Len(q) : q[j].signer = TRUE => q[j].address \in Keyholders \cup {"policy"}
  BY <1>6, <1>7
<1> QED
  BY <1>7, <1>8, <1>9, <1>10, ProgramIs DEF Proper

----------------------------------------------------------------------------
(* What compile makes of the keys.                                         *)
Leads(keys, k, z) == k \in 1 .. Len(keys) /\ keys[k].address = z

LEMMA IndexIs ==
  ASSUME NEW A, NEW keys \in Seq(Metas(A)), Unique(keys), NEW z, Entered(keys, z)
  PROVE  Leads(keys, Index(keys, z), z)
<1>1. PICK k \in 1 .. Len(keys) : keys[k].address = z
  BY DEF Entered
<1>2. \A j \in 1 .. k - 1 : keys[j].address # z
  <2>1. TAKE j \in 1 .. k - 1
  <2>2. j \in 1 .. Len(keys) /\ j # k
    OBVIOUS
  <2> QED
    BY <1>1, <2>2 DEF Unique
<1>3. \E i \in 1 .. Len(keys) : keys[i].address = z /\ \A j \in 1 .. i - 1 : keys[j].address # z
  BY <1>1, <1>2
<1> QED
  BY <1>3 DEF Index, Leads

(* The message m says of the keys all there is to them.                    *)
Conveys(ixs, keys, m) ==
  /\ m.error = "none"
  /\ Len(m.addresses) = Len(keys)
  /\ \A i \in 1 .. Len(keys) :
       /\ m.addresses[i] = keys[i].address
       /\ SignerAt(m, i) <=> keys[i].signer = TRUE
       /\ WritableAt(m, i) <=> keys[i].writable = TRUE
  /\ \A i \in 1 .. Len(ixs) :
       /\ Leads(keys, m.wire[i].program, ixs[i].program)
       /\ \A j \in 1 .. Len(ixs[i].accounts) :
            Leads(keys, m.wire[i].accounts[j], ixs[i].accounts[j].address)
  /\ m.header[1] \in 0 .. Len(keys)
  /\ m.signers = SubSeq(m.addresses, 1, m.header[1])
  /\ Len(m.signers) = m.header[1]
  /\ \A i \in 1 .. m.header[1] : m.signers[i] = keys[i].address

LEMMA MessageIs ==
  ASSUME NEW A, NEW p \in A, NEW ixs, Takes(A, ixs), NEW keys, keys = Keys(p, ixs),
         ~(Len(keys) > MAX_KEYS)
  PROVE  Conveys(ixs, keys, Compile(p, ixs))
<1>1. /\ keys \in Seq(Metas(A)) /\ Unique(keys) /\ Complete(ixs, keys)
      /\ \A i, j \in 1 .. Len(keys) : i < j => Weight(keys[i]) >= Weight(keys[j])
  BY KeysAre
<1>2. PICK n \in Nat : n = Len(keys)
  BY <1>1
<1>3. PICK a \in Nat, b \in Nat, c \in Nat : Split(keys, a, b, c)
  BY <1>1, SplitThere
<1>4. a <= b /\ b <= c /\ c <= n
  BY <1>2, <1>3 DEF Split
<1>5. PICK s : s = Signers(keys) /\ s = [k \in 1 .. b |-> keys[k].address]
  BY <1>1, <1>3, SignersAre
<1>6. Len(s) = b
  BY <1>5
<1>7. /\ Cardinality({ i \in 1 .. n : keys[i].signer /\ ~keys[i].writable }) = b - a
      /\ Cardinality({ i \in 1 .. n : ~keys[i].signer /\ ~keys[i].writable }) = n - c
  <2>1. /\ Cardinality({ i \in 1 .. Len(keys) : keys[i].signer /\ ~keys[i].writable }) = b - a
        /\ Cardinality({ i \in 1 .. Len(keys) : ~keys[i].signer /\ ~keys[i].writable })
             = Len(keys) - c
    BY <1>1, <1>3, Counted
  <2> QED
    BY ONLY <1>2, <2>1
<1>8. PICK addresses : addresses = [i \in 1 .. n |-> keys[i].address]
  OBVIOUS
<1>9. PICK wire : wire = [i \in 1 .. Len(ixs) |->
                            [program |-> Index(keys, ixs[i].program),
                             accounts |-> [j \in 1 .. Len(ixs[i].accounts) |->
                                             Index(keys, ixs[i].accounts[j].address)]]]
  OBVIOUS
<1>10. PICK m : m = [error |-> "none", addresses |-> addresses,
                     header |-> <<b, b - a, n - c>>, wire |-> wire, signers |-> s]
  OBVIOUS
<1>11. Compile(p, ixs) = m
  BY <1>2, <1>5, <1>6, <1>7, <1>8, <1>9, <1>10 DEF Compile
<1>12. /\ m.error = "none" /\ m.addresses = addresses /\ m.wire = wire /\ m.signers = s
       /\ m.header[1] = b /\ m.header[2] = b - a /\ m.header[3] = n - c
  BY <1>10
<1>13. Len(addresses) = n /\ addresses \in Seq(A)
  <2>1. ASSUME NEW i \in 1 .. n
        PROVE  keys[i].address \in A
    <3>1. keys[i] \in Metas(A)
      BY <1>1, <1>2
    <3> QED
      BY <3>1 DEF Metas
  <2> QED
    BY <1>8, <2>1
<1>14. ASSUME NEW i \in 1 .. n
       PROVE  /\ m.addresses[i] = keys[i].address
              /\ SignerAt(m, i) <=> keys[i].signer = TRUE
              /\ WritableAt(m, i) <=> keys[i].writable = TRUE
  <2>1. /\ keys[i].signer = TRUE /\ keys[i].writable = TRUE <=> i <= a
        /\ keys[i].signer = TRUE <=> i <= b
        /\ keys[i].signer = TRUE \/ keys[i].writable = TRUE <=> i <= c
    BY <1>2, <1>3 DEF Split
  <2>2. m.addresses[i] = keys[i].address
    BY <1>8, <1>12
  <2>3. SignerAt(m, i) <=> i <= b
    BY <1>12 DEF SignerAt
  <2>4. WritableAt(m, i) <=> IF i <= b THEN i <= a ELSE i <= c
    <3>1. b - (b - a) = a /\ n - (n - c) = c
      OBVIOUS
    <3> QED
      BY <1>12, <1>13, <3>1 DEF WritableAt
  <2> QED
    BY <2>1, <2>2, <2>3, <2>4
<1>15. ASSUME NEW i \in 1 .. Len(ixs)
       PROVE  /\ Leads(keys, m.wire[i].program, ixs[i].program)
              /\ \A j \in 1 .. Len(ixs[i].accounts) :
                   Leads(keys, m.wire[i].accounts[j], ixs[i].accounts[j].address)
  <2>1. /\ m.wire[i].program = Index(keys, ixs[i].program)
        /\ \A j \in 1 .. Len(ixs[i].accounts) :
             m.wire[i].accounts[j] = Index(keys, ixs[i].accounts[j].address)
    BY <1>9, <1>12
  <2>2. /\ Entered(keys, ixs[i].program)
        /\ \A j \in 1 .. Len(ixs[i].accounts) : Entered(keys, ixs[i].accounts[j].address)
    BY <1>1 DEF Complete
  <2> QED
    BY <1>1, <2>1, <2>2, IndexIs
<1>16. m.signers = SubSeq(m.addresses, 1, m.header[1])
  <2>1. SubSeq(addresses, 1, b) = [k \in 1 .. b |-> addresses[k]]
    BY <1>4, <1>13
  <2>2. \A k \in 1 .. b : addresses[k] = keys[k].address
    BY <1>4, <1>8
  <2> QED
    BY <1>5, <1>12, <2>1, <2>2
<1>17. m.header[1] \in 0 .. n
  BY <1>4, <1>12
<1>18. Len(m.signers) = m.header[1] /\ \A i \in 1 .. m.header[1] : m.signers[i] = keys[i].address
  BY <1>5, <1>6, <1>12
<1> QED
  BY <1>2, <1>11, <1>12, <1>13, <1>14, <1>15, <1>16, <1>17, <1>18 DEF Conveys

LEMMA AskedEntered ==
  ASSUME NEW A, NEW ixs, Takes(A, ixs), NEW keys, Complete(ixs, keys), NEW a \in Asked(ixs)
  PROVE  Entered(keys, a.address)
<1>1. PICK i \in 1 .. Len(ixs) : a \in ToSet(ixs[i].accounts)
  BY DEF Asked
<1>2. PICK s : s = ixs[i].accounts
  OBVIOUS
<1>3. s \in Seq(Metas(A)) /\ a \in ToSet(s)
  BY <1>1, <1>2 DEF Takes
<1>4. PICK j \in 1 .. Len(s) : a = s[j]
  BY <1>3 DEF ToSet
<1> QED
  BY <1>2, <1>4 DEF Complete

(* The keys are as many as the addresses that take part.                   *)
Participants(p, ixs) ==
  {p} \cup { a.address : a \in Asked(ixs) } \cup { ixs[i].program : i \in 1 .. Len(ixs) }

LEMMA KeysCount ==
  ASSUME NEW A, NEW p \in A, NEW ixs, Takes(A, ixs), NEW keys, keys = Keys(p, ixs)
  PROVE  Cardinality(Participants(p, ixs)) = Len(keys) /\ Len(keys) \in Nat
<1>1. /\ keys \in Seq(Metas(A)) /\ Unique(keys) /\ PayerFirst(p, keys)
      /\ Grants(p, ixs, keys) /\ Complete(ixs, keys)
  BY KeysAre
<1>2. PICK n \in Nat : n = Len(keys)
  BY <1>1
<1>3. PICK T : T = Participants(p, ixs)
  OBVIOUS
<1>4. PICK f : f = [k \in 1 .. n |-> keys[k].address]
  OBVIOUS
<1>5. \A k \in 1 .. n : f[k] \in T
  <2>1. TAKE k \in 1 .. n
  <2>2. \/ keys[k].address = p
        \/ \E a \in Asked(ixs) : a.address = keys[k].address
        \/ \E i \in 1 .. Len(ixs) : ixs[i].program = keys[k].address
    BY <1>1, <1>2 DEF Grants
  <2> QED
    BY <1>3, <1>4, <2>2 DEF Participants
<1>6. \A z \in T : \E k \in 1 .. n : f[k] = z
  <2>1. TAKE z \in T
  <2>2. Entered(keys, z)
    <3>1. CASE z = p
      BY <1>1, <3>1 DEF PayerFirst, Entered
    <3>2. CASE \E a \in Asked(ixs) : z = a.address
      BY <1>1, <3>2, AskedEntered
    <3>3. CASE \E i \in 1 .. Len(ixs) : z = ixs[i].program
      BY <1>1, <3>3 DEF Complete
    <3> QED
      BY <1>3, <3>1, <3>2, <3>3 DEF Participants
  <2> QED
    BY <1>2, <1>4, <2>2 DEF Entered
<1>7. \A i, j \in 1 .. n : f[i] = f[j] => i = j
  BY <1>1, <1>2, <1>4 DEF Unique
<1>8. f \in [1 .. n -> T]
  BY <1>4, <1>5
<1>9. f \in Bijection(1 .. n, T)
  BY <1>6, <1>7, <1>8 DEF Bijection, Injection, IsInjective, Surjection
<1>10. Cardinality(T) = n
  BY <1>9, FS_CountingElements DEF ExistsBijection
<1> QED
  BY <1>2, <1>3, <1>10

----------------------------------------------------------------------------
(* Every instruction is one that a builder made.                           *)
Built == UNION { Instructions(kind) : kind \in DOMAIN Builder }

WireInv == payer \in Wallets /\ instructions \in Seq(Built)

LEMMA WireInvHeld == WireSpec => []WireInv
<1>1. WireInit => WireInv
  BY WireAssumption DEF WireInit, WireInv
<1>2. WireInv /\ [WireNext]_wireVars => WireInv'
  <2> SUFFICES ASSUME WireInv, [WireNext]_wireVars
               PROVE  WireInv'
    OBVIOUS
  <2>1. CASE WireNext
    <3>1. PICK kind \in DOMAIN Builder : Add(kind)
      BY <2>1 DEF WireNext
    <3>2. PICK ix \in Instructions(kind) : instructions' = Append(instructions, ix)
      BY <3>1 DEF Add
    <3>3. ix \in Built
      BY <3>2 DEF Built
    <3>4. instructions \in Seq(Built) /\ payer \in Wallets
      BY DEF WireInv
    <3>5. Append(instructions, ix) \in Seq(Built)
      BY <3>3, <3>4
    <3> QED
      BY <3>1, <3>2, <3>4, <3>5 DEF Add, WireInv
  <2>2. CASE UNCHANGED wireVars
    BY <2>2 DEF wireVars, WireInv
  <2> QED
    BY <2>1, <2>2
<1> QED
  BY <1>1, <1>2, PTL DEF WireSpec

LEMMA MadeOf ==
  ASSUME WireInv
  PROVE  /\ Takes(Everyone, instructions) /\ payer \in Everyone
         /\ \A i \in 1 .. Len(instructions) : Proper(instructions[i])
<1>1. ASSUME NEW i \in 1 .. Len(instructions)
      PROVE  Proper(instructions[i])
  <2>1. instructions[i] \in Built
    BY DEF WireInv
  <2>2. PICK kind \in DOMAIN Builder : instructions[i] \in Instructions(kind)
    BY <2>1 DEF Built
  <2> QED
    BY <2>2, InstructionIs
<1>2. Len(instructions) \in Nat
  BY DEF WireInv
<1>3. payer \in Everyone
  BY DEF WireInv, Everyone
<1> QED
  BY <1>1, <1>2, <1>3 DEF Takes, Proper

LEMMA MentionedAre ==
  ASSUME WireInv
  PROVE  /\ Mentioned = Asked(instructions)
         /\ \A a \in Mentioned :
              /\ a.signer \in BOOLEAN /\ a.writable \in BOOLEAN
              /\ a.signer = TRUE => a.address \in Keyholders \cup {"policy"}
<1>1. Mentioned = Asked(instructions)
  BY DEF Mentioned, Asked
<1>2. ASSUME NEW a \in Mentioned
      PROVE  /\ a.signer \in BOOLEAN /\ a.writable \in BOOLEAN
             /\ a.signer = TRUE => a.address \in Keyholders \cup {"policy"}
  <2>1. PICK i \in 1 .. Len(instructions) : a \in ToSet(instructions[i].accounts)
    BY DEF Mentioned
  <2>2. PICK s : s = instructions[i].accounts
    OBVIOUS
  <2>3. Proper(instructions[i])
    BY MadeOf
  <2>4. /\ s \in Seq(Metas(Everyone))
        /\ \A j \in 1 .. Len(s) :
             s[j].signer = TRUE => s[j].address \in Keyholders \cup {"policy"}
    BY <2>2, <2>3 DEF Proper
  <2>5. PICK j \in 1 .. Len(s) : a = s[j]
    BY <2>1, <2>2 DEF ToSet
  <2>6. a \in Metas(Everyone)
    BY <2>4, <2>5
  <2>7. a.signer \in BOOLEAN /\ a.writable \in BOOLEAN
    BY <2>6 DEF Metas
  <2> QED
    BY <2>4, <2>5, <2>7
<1> QED
  BY <1>1, <1>2

LEMMA FaithfulHeld ==
  ASSUME WireInv, NEW keys, keys = Keys(payer, instructions),
         NEW m, Conveys(instructions, keys, m)
  PROVE  Faithful(m)
<1>1. Takes(Everyone, instructions) /\ payer \in Everyone
  BY MadeOf
<1>2. /\ keys \in Seq(Metas(Everyone)) /\ Unique(keys) /\ PayerFirst(payer, keys)
      /\ Grants(payer, instructions, keys)
  BY <1>1, KeysAre
<1>3. PICK n \in Nat : n = Len(keys)
  BY <1>2
<1>4. /\ Len(m.addresses) = n
      /\ \A i \in 1 .. n :
           /\ m.addresses[i] = keys[i].address
           /\ SignerAt(m, i) <=> keys[i].signer = TRUE
           /\ WritableAt(m, i) <=> keys[i].writable = TRUE
      /\ \A i \in 1 .. Len(instructions) :
           /\ Leads(keys, m.wire[i].program, instructions[i].program)
           /\ \A j \in 1 .. Len(instructions[i].accounts) :
                Leads(keys, m.wire[i].accounts[j], instructions[i].accounts[j].address)
  BY <1>3 DEF Conveys
<1>5. m.addresses[1] = payer
  BY <1>2, <1>3, <1>4 DEF PayerFirst
<1>6. \A i, j \in 1 .. n : m.addresses[i] = m.addresses[j] => i = j
  BY <1>2, <1>3, <1>4 DEF Unique
<1>7. \A k, z : Leads(keys, k, z) => m.addresses[k] = z
  BY <1>3, <1>4 DEF Leads
<1>8. \A i \in 1 .. Len(instructions) :
        /\ m.addresses[m.wire[i].program] = instructions[i].program
        /\ \A j \in 1 .. Len(instructions[i].accounts) :
             m.addresses[m.wire[i].accounts[j]] = instructions[i].accounts[j].address
  BY <1>4, <1>7
<1>9. ASSUME NEW i \in 1 .. n,
             NEW asked, asked = { a \in Mentioned \cup {SignWrite(payer)} :
                                    a.address = m.addresses[i] }
      PROVE  /\ SignerAt(m, i) <=> \E a \in asked : a.signer
             /\ WritableAt(m, i) <=> \E a \in asked : a.writable
  <2>1. PICK z : z = m.addresses[i] /\ z = keys[i].address
    BY <1>4
  <2>2. PICK q : q = SignWrite(payer)
    OBVIOUS
  <2>3. q.address = payer /\ q.signer = TRUE /\ q.writable = TRUE
    BY <2>2 DEF SignWrite, Meta
  <2>4. /\ Mentioned = Asked(instructions)
        /\ \A a \in Mentioned : a.signer \in BOOLEAN /\ a.writable \in BOOLEAN
    BY MentionedAre
  <2>5. \A a : a \in asked <=> (a \in Mentioned \/ a = q) /\ a.address = z
    BY <1>9, <2>1, <2>2
  <2>6. /\ keys[i].signer = TRUE
             <=> \/ z = payer \/ \E a \in Mentioned : a.address = z /\ a.signer = TRUE
        /\ keys[i].writable = TRUE
             <=> \/ z = payer \/ \E a \in Mentioned : a.address = z /\ a.writable = TRUE
    BY <1>2, <1>3, <2>1, <2>4 DEF Grants
  <2>7. (z = payer \/ \E a \in Mentioned : a.address = z /\ a.signer = TRUE)
          <=> \E a \in asked : a.signer
    BY ONLY <2>3, <2>4, <2>5
  <2>8. (z = payer \/ \E a \in Mentioned : a.address = z /\ a.writable = TRUE)
          <=> \E a \in asked : a.writable
    BY ONLY <2>3, <2>4, <2>5
  <2> QED
    BY <1>4, <2>6, <2>7, <2>8
<1> QED
  BY <1>4, <1>5, <1>6, <1>8, <1>9 DEF Faithful

LEMMA RunnableHeld ==
  ASSUME WireInv, NEW keys, keys = Keys(payer, instructions),
         NEW m, Conveys(instructions, keys, m)
  PROVE  Runnable(m)
<1>1. Takes(Everyone, instructions) /\ payer \in Everyone
  BY MadeOf
<1>2. /\ keys \in Seq(Metas(Everyone)) /\ Unique(keys)
      /\ Grants(payer, instructions, keys)
  BY <1>1, KeysAre
<1>3. ASSUME NEW i \in 1 .. Len(instructions), instructions[i].kind \in DOMAIN Accounts,
             NEW demanded, demanded = Accounts[instructions[i].kind],
             NEW j \in 1 .. Len(demanded), NEW k, k = m.wire[i].accounts[j]
      PROVE  /\ m.addresses[k] \in Places(demanded[j].address)
             /\ demanded[j].signer => SignerAt(m, k)
             /\ demanded[j].writable => WritableAt(m, k)
  <2>1. PICK s : s = instructions[i].accounts
    OBVIOUS
  <2>2. Proper(instructions[i])
    BY MadeOf
  <2>3. s \in Seq(Metas(Everyone)) /\ Len(demanded) <= Len(s) /\ Serves(s[j], demanded[j])
    BY <1>3, <2>1, <2>2 DEF Proper
  <2>4. demanded \in Seq(Listable)
    BY <1>3, <2>2, BuilderIs DEF Proper
  <2>5. PICK d \in Metas(AllNames) : d = demanded[j]
    BY <2>4 DEF Listable
  <2>6. d.signer \in BOOLEAN /\ d.writable \in BOOLEAN
    BY <2>5 DEF Metas
  <2>7. j \in 1 .. Len(s)
    BY <2>3, <2>4
  <2>8. PICK x : x = s[j]
    OBVIOUS
  <2>9. Leads(keys, k, x.address)
    BY <1>3, <2>1, <2>7, <2>8 DEF Conveys
  <2>10. /\ m.addresses[k] = keys[k].address
         /\ SignerAt(m, k) <=> keys[k].signer = TRUE
         /\ WritableAt(m, k) <=> keys[k].writable = TRUE
         /\ keys[k].address = x.address
         /\ k \in 1 .. Len(keys)
    BY <2>9 DEF Conveys, Leads
  <2>11. x \in Asked(instructions)
    <3>1. x \in ToSet(s)
      BY <2>3, <2>7, <2>8 DEF ToSet
    <3> QED
      BY <2>1, <3>1 DEF Asked
  <2>12. /\ x.signer = TRUE => keys[k].signer = TRUE
         /\ x.writable = TRUE => keys[k].writable = TRUE
    BY <1>2, <2>10, <2>11 DEF Grants
  <2>13. /\ x.address \in Places(d.address)
         /\ d.signer = TRUE => x.signer = TRUE
         /\ d.writable = TRUE => x.writable = TRUE
    BY <2>3, <2>5, <2>8 DEF Serves
  <2> QED
    BY ONLY <2>5, <2>6, <2>10, <2>12, <2>13
<1> QED
  BY <1>3 DEF Runnable

LEMMA SignableHeld ==
  ASSUME WireInv, NEW keys, keys = Keys(payer, instructions),
         NEW m, Conveys(instructions, keys, m)
  PROVE  Signable(m)
<1>1. Takes(Everyone, instructions) /\ payer \in Everyone
  BY MadeOf
<1>2. /\ keys \in Seq(Metas(Everyone))
      /\ Grants(payer, instructions, keys) /\ Complete(instructions, keys)
  BY <1>1, KeysAre
<1>3. PICK n \in Nat : n = Len(keys)
  BY <1>2
<1>4. PICK b \in 0 .. n : b = m.header[1]
  BY <1>3 DEF Conveys
<1>5. /\ Len(m.signers) = b
      /\ \A i \in 1 .. b : m.signers[i] = keys[i].address
      /\ m.signers = SubSeq(m.addresses, 1, m.header[1])
      /\ \A i \in 1 .. n : i <= b <=> keys[i].signer = TRUE
  BY <1>3, <1>4 DEF Conveys, SignerAt
<1>6. /\ Mentioned = Asked(instructions)
      /\ \A a \in Mentioned :
           /\ a.signer \in BOOLEAN
           /\ a.signer = TRUE => a.address \in Keyholders \cup {"policy"}
  BY MentionedAre
<1>7. payer \in Keyholders /\ "policy" \notin Keyholders
  BY WireAssumption DEF WireInv, Keyholders
<1>8. ASSUME NEW i \in 1 .. b, m.signers[i] \notin Keyholders
      PROVE  \E a \in Mentioned : a.address = "policy" /\ a.signer
  <2>1. i \in 1 .. n /\ m.signers[i] = keys[i].address /\ keys[i].signer = TRUE
    <3>1. i \in 1 .. n /\ i <= b
      BY <1>3, <1>4, <1>8
    <3> QED
      BY ONLY <1>5, <1>8, <3>1, Zenon
  <2>2. PICK a \in Mentioned : a.address = keys[i].address /\ a.signer = TRUE
    BY <1>2, <1>3, <1>6, <1>7, <1>8, <2>1 DEF Grants
  <2>3. a.address = "policy"
    BY <1>6, <1>8, <2>1, <2>2
  <2> QED
    BY <2>2, <2>3
<1>9. ASSUME NEW a \in Mentioned, a.address = "policy", a.signer
      PROVE  \E i \in 1 .. b : m.signers[i] \notin Keyholders
  <2>1. Entered(keys, "policy") /\ a.signer = TRUE
    <3>1. Entered(keys, a.address)
      BY <1>1, <1>2, <1>6, AskedEntered
    <3>2. a.signer = TRUE
      BY <1>6, <1>9
    <3> QED
      BY <1>9, <3>1, <3>2
  <2>2. PICK i \in 1 .. n : keys[i].address = "policy"
    BY <1>3, <2>1 DEF Entered
  <2>3. keys[i].signer = TRUE
    BY <1>2, <1>3, <1>6, <1>9, <2>1, <2>2 DEF Grants
  <2>4. i \in 1 .. b
    BY <1>5, <2>3
  <2>5. m.signers[i] = "policy"
    BY <1>5, <2>2, <2>4
  <2> QED
    BY <1>7, <2>4, <2>5
<1>10. (\E i \in 1 .. Len(m.signers) : m.signers[i] \notin Keyholders)
         <=> \E a \in Mentioned : a.address = "policy" /\ a.signer
  BY <1>5, <1>8, <1>9
<1> QED
  BY <1>5, <1>10 DEF Signable, SignTransaction, Keyholders

LEMMA TooManyIs ==
  ASSUME WireInv, NEW keys, keys = Keys(payer, instructions)
  PROVE  TooMany <=> Len(keys) > MAX_KEYS
<1>1. Takes(Everyone, instructions) /\ payer \in Everyone
  BY MadeOf
<1>2. Cardinality(Participants(payer, instructions)) = Len(keys)
  BY <1>1, KeysCount
<1>3. Mentioned = Asked(instructions)
  BY MentionedAre
<1>4. Participants(payer, instructions) =
        {payer} \cup { a.address : a \in Mentioned }
          \cup { instructions[i].program : i \in 1 .. Len(instructions) }
  BY <1>3 DEF Participants
<1> QED
  BY <1>2, <1>4 DEF TooMany

(* Whatever instructions of the builders are put together, whoever plays   *)
(* several parts in them, compile and signTransaction make a message that  *)
(* grants every address just what was asked for it, gives the program the  *)
(* accounts it demands and carries the signatures in their order; and none *)
(* when more addresses take part than a message holds.                     *)
THEOREM SendableHeld == WireSpec => []Sendable
<1>1. WireInv => Sendable
  <2> SUFFICES ASSUME WireInv
               PROVE  Sendable
    OBVIOUS
  <2>1. PICK keys : keys = Keys(payer, instructions)
    OBVIOUS
  <2>2. TooMany <=> Len(keys) > MAX_KEYS
    BY <2>1, TooManyIs
  <2>3. CASE TooMany
    <3>1. Message = TooManyAccounts
      BY <2>1, <2>2, <2>3 DEF Message, Compile
    <3> QED
      BY <2>3, <3>1 DEF Sendable
  <2>4. CASE ~TooMany
    <3>1. PICK m : m = Message
      OBVIOUS
    <3>2. Takes(Everyone, instructions) /\ payer \in Everyone
      BY MadeOf
    <3>3. Conveys(instructions, keys, m)
      BY <2>1, <2>2, <2>4, <3>1, <3>2, MessageIs DEF Message
    <3>4. Faithful(m) /\ Runnable(m) /\ Signable(m)
      BY <2>1, <3>3, FaithfulHeld, RunnableHeld, SignableHeld
    <3>5. m.error = "none"
      BY <3>3 DEF Conveys
    <3> QED
      BY <2>4, <3>1, <3>4, <3>5 DEF Sendable
  <2> QED
    BY <2>3, <2>4
<1> QED
  BY <1>1, WireInvHeld, PTL
=============================================================================
