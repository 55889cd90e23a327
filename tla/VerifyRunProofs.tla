-------------------------- MODULE VerifyRunProofs --------------------------
(***************************************************************************)
(* Theorems about VerifyRun, whatever others do to the fixture meanwhile,  *)
(* and for any number of forks.                                            *)
(***************************************************************************)
EXTENDS VerifyRun, WellFoundedInduction, TLAPS

(* What the program and the runtime answer.                                *)
Errors ==
  {"ConstraintHasOne", "Revoked", "Expired", "StaleNonce", "InvalidAmount",
   "MaxTransactionExceeded", "Overflow", "CumulativeLimitExceeded", "ProgramNotAllowed",
   "SlippageExceeded", "RecipientNotAllowed", "InsufficientFunds"}
Answers == Errors \cup {"Ok", "InvalidPolicy"}

Places ==
  {"begin", "next", "recorded", "simulated", "announced", "sent", "landed", "stopped"}

(* A policy as the suite makes it, charged and revoked.                    *)
Policy ==
  [agent: {"agent"}, executor: {"executor"}, active: BOOLEAN, expires_at: {1, 2},
   nonce: Nat, max_amount: {100}, total_limit: {150}, spent: Nat,
   min_rate: {MIN_RATE}, token_allowed: BOOLEAN, allowed_recipients: {{"recipient"}}]

There(p, s) == s.policies[p] \in Policy
Main(s) == s.policies["main"]

Ledger == [Policies \cup Others -> Int]
Register == [Policies -> Policy \cup {NoAccount}]

Accounts ==
  { s \in [time: {0, 1}, policies: Register, tokens: Ledger] :
      /\ There("main", s)
      /\ Main(s).nonce <= Main(s).spent /\ Main(s).spent <= 150 }

Transaction == [attempt: 1 .. 18, nonce: Nat]
Block == [tx: Transaction \cup {NoTx}, error: Answers, state: Accounts]
Attempt ==
  [result: {"PENDING", "ALLOW", "DENY"}, signature: BOOLEAN, error: Answers \cup {"none"},
   executed: BOOLEAN, before: Nat, after: Nat, passed: BOOLEAN]

TypeInv ==
  /\ pc \in Places /\ nonce \in Nat
  /\ report \in [status: {"RUNNING", "FAILED", "PASSED"}, attempts: Seq(Attempt)]
  /\ Last <= 18
  /\ blocks \in Seq(Block) /\ waiting \subseteq Transaction /\ expired \subseteq Transaction
  /\ confirmed \in 0 .. Len(blocks) /\ rooted \in 0 .. confirmed

(* Where the script is, and how much of the attempt in hand is reported.   *)
PhaseInv ==
  /\ pc = "begin" => Last = 0
  /\ pc \in {"recorded", "simulated", "announced", "sent", "landed"} =>
       /\ Last >= 1 /\ ~Attempts[Last].passed
       /\ Attempts[Last].signature <=> pc \notin {"recorded", "simulated"}
       /\ Attempts[Last].error # "none" <=> pc = "landed"
  /\ \A k \in 1 .. Last : k < Last \/ pc = "next" => Attempts[k].passed
  /\ report.status = "PASSED" =>
       pc = "stopped" /\ Last = 18 /\ \A k \in 1 .. Last : Attempts[k].passed

Taken == waiting \cup expired \cup ({ blocks[n].tx : n \in DOMAIN blocks } \ {NoTx})

(* What the node took was announced, and all of it but that of the attempt *)
(* in hand is behind the script.                                           *)
SentInv ==
  \A tx \in Taken :
    /\ tx.attempt \in 1 .. Last /\ Attempts[tx.attempt].signature
    /\ tx.attempt = Last => tx = Tx /\ pc \notin {"recorded", "simulated", "announced"}

(* There is one transaction of an attempt, in one place.                   *)
OnceInv ==
  /\ \A tx, ty \in Taken : tx.attempt = ty.attempt => tx = ty
  /\ waiting \cap expired = {}
  /\ \A n \in DOMAIN blocks : blocks[n].tx \notin waiting \cup expired
  /\ \A m, n \in DOMAIN blocks : blocks[m].tx # NoTx /\ blocks[m].tx = blocks[n].tx => m = n

(* An attempt's transaction lands after the snapshot before it.            *)
LandInv ==
  \A n \in DOMAIN blocks : blocks[n].tx # NoTx => Attempts[blocks[n].tx.attempt].before < n

(* What only ever grows while a policy is used, by whomever: what is spent *)
(* and not recounted by the nonce, what the vault and the recipient have   *)
(* beyond the charges, and what the attacker is given.                     *)
Held(s) == s.tokens["main"] + Main(s).spent
Gift(s) == s.tokens["recipient"] - Main(s).spent * RATE

Grows(s, t) ==
  /\ \A p \in Policies : There(p, s) => There(p, t)
  /\ Main(t).active => Main(s).active
  /\ Main(s).nonce <= Main(t).nonce /\ Main(s).spent <= Main(t).spent
  /\ Main(s).spent - Main(s).nonce <= Main(t).spent - Main(t).nonce
  /\ s.tokens["recipient"] <= t.tokens["recipient"]
  /\ s.tokens["attacker"] <= t.tokens["attacker"]
  /\ Held(s) <= Held(t) /\ Gift(s) <= Gift(t)

(* The accounts of a snapshot.                                             *)
Seen(p, s) == [policy |-> s.policies[p], tokens |-> [t \in {p} \cup Others |-> s.tokens[t]]]

(* What others do to the accounts that a snapshot shows leaves a mark that *)
(* nothing undoes.                                                         *)
Marks(s, t) ==
  \/ \A p \in Policies : Seen(p, s) = Seen(p, t)
  \/ Main(s).nonce < Main(t).nonce /\ s.tokens["recipient"] < t.tokens["recipient"]
  \/ Gift(s) < Gift(t) /\ s.tokens["recipient"] < t.tokens["recipient"]
  \/ s.tokens["attacker"] < t.tokens["attacker"]
  \/ /\ Held(s) < Held(t) \/ (Main(s).active /\ ~Main(t).active)
     /\ \A p \in Policies \ {"main"} : Seen(p, s) = Seen(p, t)

(* What a block shows on the accounts before it: a mark of others, or that *)
(* a transfer of the suite was counted.                                    *)
Trace(s, b) ==
  IF b.tx = NoTx
  THEN Marks(s, b.state)
  ELSE Script[b.tx.attempt].kind = "swap" /\ Script[b.tx.attempt].policy = "main"
         /\ b.error = "Ok" => Main(s).nonce < Main(b.state).nonce

ChainInv ==
  /\ \A n \in DOMAIN blocks : Trace(StateAt(n - 1), blocks[n])
  /\ \A m, n \in 0 .. Len(blocks) : m <= n => Grows(StateAt(m), StateAt(n))

(* What the report has of an attempt: the snapshots are of the final chain *)
(* and in order, the outcome is that of its transaction between them, and  *)
(* a swap is of a policy that was there.                                   *)
Kept(k) ==
  LET a == Attempts[k] IN
  /\ a.before <= a.after /\ a.after <= rooted
  /\ \A j \in 1 .. k - 1 : Attempts[j].after <= a.before
  /\ a.error # "none" =>
       /\ a.signature /\ (a.executed <=> a.error = "Ok")
       /\ \E n \in a.before + 1 .. rooted :
            /\ blocks[n].tx # NoTx /\ blocks[n].tx.attempt = k /\ blocks[n].error = a.error
            /\ a.passed => n <= a.after
  /\ a.passed => a.error # "none" /\ Verdict(Script[k], a.before, a.after, a.error)
  /\ Script[k].kind = "swap" => There(Script[k].policy, StateAt(a.before))

ReportInv == \A k \in 1 .. Last : Kept(k)

IInv ==
  /\ TypeInv /\ PhaseInv /\ SentInv /\ OnceInv /\ LandInv /\ ChainInv /\ ReportInv

----------------------------------------------------------------------------
(* The attempts of the suite.                                              *)

ASwap(ask) ==
  /\ ask.kind = "swap" /\ ask.policy \in Policies /\ ask.amount \in Nat
  /\ ask.expect \in Errors \cup {"Ok"}
  /\ ask.expect = "Ok" => ask.policy = "main"

ACreation(ask) ==
  /\ ask.kind = "create" /\ ask.policy \in Policies \ {"main"} /\ ask.expect = "Ok"
  /\ ask.token_allowed \in BOOLEAN /\ ask.expires_at \in {1, 2}

ARevocation(ask) == ask.kind = "revoke" /\ ask.policy = "main" /\ ask.expect = "Ok"

LEMMA Plan ==
  /\ Len(Script) = 18 /\ DOMAIN Script = 1 .. 18
  /\ \A k \in 1 .. 18 : ASwap(Script[k]) \/ ACreation(Script[k]) \/ ARevocation(Script[k])
<1>1. Len(Script) = 18 /\ DOMAIN Script = 1 .. 18
  BY DEF Script
<1>2. \A k \in {1, 2, 3, 11, 17} : ASwap(Script[k])
  BY DEF Script, aSwap, ASwap, Errors, Policies
<1>3. \A k \in {4, 5, 6, 7, 8} : ASwap(Script[k])
  BY DEF Script, aSwap, ASwap, Errors, Policies
<1>4. \A k \in {9, 10, 18} : ASwap(Script[k])
  BY DEF Script, aSwap, ASwap, Errors, Policies, RATE, MIN_RATE
<1>5. ASwap(Script[13])
  BY DEF Script, aSwap, ASwap, Errors, Policies
<1>6. ASwap(Script[15])
  BY DEF Script, aSwap, ASwap, Errors, Policies
<1>7. ACreation(Script[12])
  BY DEF Script, aCreation, ACreation, Policies
<1>8. ACreation(Script[14])
  BY DEF Script, aCreation, ACreation, Policies
<1>9. ARevocation(Script[16])
  BY DEF Script, ARevocation
<1> QED
  BY <1>1, <1>2, <1>3, <1>4, <1>5, <1>6, <1>7, <1>8, <1>9

(* Its two transfers and its revocation.                                   *)
LEMMA Milestones ==
  /\ Script[1].kind = "swap" /\ Script[1].expect = "Ok" /\ Script[1].amount = 60
  /\ Script[11].kind = "swap" /\ Script[11].expect = "Ok" /\ Script[11].amount = 90
  /\ Script[1].policy = "main" /\ Script[11].policy = "main"
  /\ Script[16].kind = "revoke"
  BY DEF Script, aSwap

(* The denied swaps of other policies come after those were made.          *)
LEMMA Prepared ==
  ASSUME NEW k \in 1 .. 18, Script[k].kind = "swap", Script[k].policy # "main"
  PROVE  \E j \in 1 .. k - 1 : Script[j].kind = "create" /\ Script[j].policy = Script[k].policy
<1>1. \A i \in (1 .. 18) \ {12, 13, 14, 15, 16} : Script[i].policy = "main"
  BY DEF Script, aSwap, RATE, MIN_RATE
<1>2. Script[13].policy = "blocked" /\ Script[15].policy = "expiring"
  BY DEF Script, aSwap
<1>3. /\ Script[12].policy = "blocked" /\ Script[12].kind = "create"
      /\ Script[14].policy = "expiring" /\ Script[14].kind = "create"
  BY DEF Script, aCreation
<1>4. k \in {13, 15}
  BY <1>1, <1>3, Milestones
<1>5. 12 \in 1 .. 13 - 1 /\ 14 \in 1 .. 15 - 1
  OBVIOUS
<1> QED
  BY <1>2, <1>3, <1>4, <1>5

----------------------------------------------------------------------------
(* What the program does.                                                  *)

(* Of the numbers in a set one comes first.                                *)
LEMMA Earliest ==
  ASSUME NEW T, T \subseteq Nat, T # {}
  PROVE  \E x \in T : \A y \in T : ~(y < x)
<1>1. PICK R : R = OpToRel(<, Nat)
  OBVIOUS
<1>2. \A x, y : <<y, x>> \in R <=> x \in Nat /\ y \in Nat /\ y < x
  BY <1>1 DEF OpToRel
<1>3. \E x \in T : \A y \in T : <<y, x>> \notin R
  <2>1. IsWellFoundedOn(R, Nat)
    BY <1>1, NatLessThanWellFounded
  <2> QED
    BY <2>1, WFMin
<1> QED
  BY <1>2, <1>3

(* It answers with one of its errors, unless every check passes.           *)
LEMMA Decided ==
  ASSUME NEW p, NEW rate, NEW vault, NEW now, NEW r
  PROVE  /\ Decision(p, rate, vault, now, r) \in Errors \cup {"Ok"}
         /\ Decision(p, rate, vault, now, r) = "Ok" =>
              /\ p.active /\ r.amount > 0 /\ p.spent + r.amount <= p.total_limit
              /\ r.recipient \in p.allowed_recipients
<1> DEFINE checks == Checks(p, rate, vault, now, r)
           failing == { i \in 1 .. 13 : ~checks[i].ok }
<1>1. DOMAIN checks = 1 .. 13 /\ \A i \in 1 .. 13 : checks[i].error \in Errors
  BY DEF Checks, Errors
<1>2. /\ checks[2].ok <=> p.active
      /\ checks[5].ok <=> r.amount > 0
      /\ checks[8].ok <=> p.spent + r.amount <= p.total_limit
      /\ checks[12].ok <=> r.recipient \in p.allowed_recipients
  BY DEF Checks
<1> HIDE DEF checks
<1>3. CASE failing = {}
  <2>1. \A i \in 1 .. 13 : checks[i].ok
    BY <1>3
  <2>2. Decision(p, rate, vault, now, r) = "Ok"
    BY <1>1, <2>1 DEF Decision, FirstFailure, checks
  <2> QED
    BY <1>2, <2>1, <2>2
<1>4. CASE failing # {}
  <2> DEFINE first == CHOOSE i \in 1 .. 13 : ~checks[i].ok /\ \A j \in 1 .. i - 1 : checks[j].ok
  <2>1. PICK x \in failing : \A y \in failing : ~(y < x)
    BY <1>4, Earliest
  <2>2. ~checks[x].ok /\ \A j \in 1 .. x - 1 : checks[j].ok
    BY <2>1
  <2>3. first \in 1 .. 13
    BY <2>2
  <2>4. FirstFailure(checks) = checks[first].error
    BY <1>1, <2>2 DEF FirstFailure
  <2>5. Decision(p, rate, vault, now, r) \in Errors
    BY <1>1, <2>3, <2>4 DEF Decision, checks
  <2> QED
    BY <2>5 DEF Errors
<1> QED
  BY <1>3, <1>4

(* A policy counts what it lets through.                                   *)
LEMMA Charged ==
  ASSUME NEW p \in Policy, NEW r, r.amount \in Nat
  PROVE  /\ Charge(p, r) \in Policy /\ Charge(p, r).active = p.active
         /\ Charge(p, r).spent = p.spent + r.amount /\ Charge(p, r).nonce = p.nonce + 1
<1> DEFINE total == p.spent + r.amount
           next == p.nonce + 1
<1>1. total \in Nat /\ next \in Nat
  BY DEF Policy
<1> HIDE DEF total, next
<1> DEFINE q == [p EXCEPT !.spent = total]
<1>2. q \in Policy /\ q.spent = total /\ q.nonce = p.nonce /\ q.active = p.active
  BY <1>1 DEF Policy
<1>3. Charge(p, r) = [q EXCEPT !.nonce = next]
  BY DEF Charge, Policy, total, next
<1> HIDE DEF q
<1>4. /\ [q EXCEPT !.nonce = next] \in Policy
      /\ [q EXCEPT !.nonce = next].spent = q.spent /\ [q EXCEPT !.nonce = next].nonce = next
      /\ [q EXCEPT !.nonce = next].active = q.active
  BY <1>1, <1>2 DEF Policy
<1> QED
  BY <1>2, <1>3, <1>4 DEF total, next

LEMMA Figures ==
  ASSUME NEW s \in Accounts
  PROVE  /\ Main(s) \in Policy /\ Main(s).nonce \in Nat /\ Main(s).spent \in Nat
         /\ Main(s).nonce <= Main(s).spent /\ Main(s).spent <= 150
         /\ s.tokens["main"] \in Int /\ s.tokens["recipient"] \in Int
         /\ s.tokens["attacker"] \in Int
         /\ s = [time |-> s.time, policies |-> s.policies, tokens |-> s.tokens]
<1>1. Main(s) \in Policy
  BY DEF Accounts, There, Main
<1>2. Main(s).nonce \in Nat /\ Main(s).spent \in Nat
  BY <1>1 DEF Policy
<1>3. /\ s.tokens["main"] \in Int /\ s.tokens["recipient"] \in Int
      /\ s.tokens["attacker"] \in Int
  BY DEF Accounts, Ledger, Policies, Others
<1>4. /\ Main(s).nonce <= Main(s).spent /\ Main(s).spent <= 150
      /\ s = [time |-> s.time, policies |-> s.policies, tokens |-> s.tokens]
  BY DEF Accounts
<1> QED
  BY <1>1, <1>2, <1>3, <1>4

(* What a swap that passes does to the accounts.                           *)
LEMMA SwapMoves ==
  ASSUME NEW s \in Accounts, NEW p \in Policies, There(p, s),
         NEW r, r.amount \in Nat, r.recipient = "recipient", NEW t, t = Swapped(s, p, r)
  PROVE  /\ t.time = s.time
         /\ t.policies \in Register
         /\ t.policies[p] = Charge(s.policies[p], r)
         /\ \A q \in Policies \ {p} : t.policies[q] = s.policies[q]
         /\ t.tokens \in Ledger
         /\ t.tokens[p] = s.tokens[p] - r.amount
         /\ t.tokens["recipient"] = s.tokens["recipient"] + r.amount * 1000
         /\ \A q \in Policies \ {p} : t.tokens[q] = s.tokens[q]
         /\ t.tokens["attacker"] = s.tokens["attacker"]
         /\ t = [time |-> s.time, policies |-> t.policies, tokens |-> t.tokens]
<1> DEFINE charged == Charge(s.policies[p], r)
           a == r.amount
           b == r.amount * RATE
           policies == [s.policies EXCEPT ![p] = charged]
           tokens == Exchanged(s.tokens, p, r)
<1>1. charged \in Policy
  BY Charged DEF There
<1>2. t = [s EXCEPT !.policies = policies, !.tokens = tokens]
  BY DEF Swapped
<1>3. /\ a \in Int /\ b \in Int /\ s.tokens \in Ledger
      /\ s.policies \in Register
      /\ s = [time |-> s.time, policies |-> s.policies, tokens |-> s.tokens]
  BY DEF RATE, Accounts
<1> HIDE DEF a, b, charged
<1>4. /\ policies \in Register /\ policies[p] = charged
      /\ \A q \in Policies \ {p} : policies[q] = s.policies[q]
  BY <1>1, <1>3 DEF Register
<1>5. /\ tokens \in Ledger
      /\ tokens[p] = s.tokens[p] - a
      /\ tokens["recipient"] = s.tokens["recipient"] + b
      /\ \A q \in Policies \ {p} : tokens[q] = s.tokens[q]
      /\ tokens["attacker"] = s.tokens["attacker"]
  <2>1. tokens = [s.tokens EXCEPT ![p] = @ - a, !["poolQuote"] = @ + a,
                                  !["poolOutput"] = @ - b, !["recipient"] = @ + b]
    BY DEF Exchanged, a, b
  <2> HIDE DEF tokens
  <2> QED
    BY <1>3, <2>1 DEF Policies, Others, Ledger
<1> HIDE DEF policies, tokens
<1>6. t = [time |-> s.time, policies |-> policies, tokens |-> tokens]
  BY <1>2, <1>3
<1>7. t.time = s.time /\ t.policies = policies /\ t.tokens = tokens
  BY <1>6
<1> QED
  BY <1>4, <1>5, <1>6, <1>7 DEF a, b, charged, RATE

(* Whatever a swap does, the accounts grow, and it leaves a mark.          *)
LEMMA SwapEffect ==
  ASSUME NEW s \in Accounts, NEW p \in Policies, There(p, s),
         NEW r, r.amount \in Nat, NEW o, o = SwapOutcome(s, p, r)
  PROVE  /\ o.error \in Errors \cup {"Ok"} /\ o.state \in Accounts /\ Grows(s, o.state)
         /\ o.error # "Ok" => o.state = s
         /\ o.error = "Ok" =>
              /\ s.tokens["recipient"] < o.state.tokens["recipient"]
              /\ p = "main" => Main(s).nonce < Main(o.state).nonce
<1>1. PICK error : error = Decision(s.policies[p], RATE, s.tokens[p], s.time, r)
  OBVIOUS
<1>2. /\ o.error = error /\ o.state = IF error = "Ok" THEN Swapped(s, p, r) ELSE s
      /\ error \in Errors \cup {"Ok"}
  BY <1>1, Decided DEF SwapOutcome
<1>3. CASE error # "Ok"
  <2>1. o.state = s
    BY <1>2, <1>3
  <2>2. Grows(s, s)
    <3>1. PICK n \in Nat, m \in Nat, v \in Int, w \in Int :
            /\ n = Main(s).nonce /\ m = Main(s).spent
            /\ v = s.tokens["main"] /\ w = s.tokens["recipient"]
      BY Figures
    <3>2. s.tokens["attacker"] <= s.tokens["attacker"]
      BY Figures
    <3> QED
      BY <3>1, <3>2 DEF Grows, Held, Gift, RATE
  <2> QED
    BY <1>2, <1>3, <2>1, <2>2
<1>4. CASE error = "Ok"
  <2>1. PICK q \in Policy, c \in Policy : q = s.policies[p] /\ c = Charge(q, r)
    BY Charged DEF There
  <2>2. /\ q.active /\ r.amount > 0 /\ q.spent + r.amount <= q.total_limit
        /\ r.recipient \in q.allowed_recipients
    BY <1>1, <1>4, <2>1, Decided
  <2>3. r.recipient = "recipient" /\ q.total_limit = 150
    BY <2>2 DEF Policy
  <2>4. /\ c.active = q.active /\ c.spent = q.spent + r.amount /\ c.nonce = q.nonce + 1
    BY <2>1, Charged
  <2>5. PICK t : t = Swapped(s, p, r)
    OBVIOUS
  <2>6. o.state = t
    BY <1>2, <1>4, <2>5
  <2>7. /\ t.time = s.time
        /\ t.policies \in Register
        /\ t.policies[p] = c
        /\ \A x \in Policies \ {p} : t.policies[x] = s.policies[x]
        /\ t.tokens \in Ledger
        /\ t.tokens[p] = s.tokens[p] - r.amount
        /\ t.tokens["recipient"] = s.tokens["recipient"] + r.amount * 1000
        /\ \A x \in Policies \ {p} : t.tokens[x] = s.tokens[x]
        /\ t.tokens["attacker"] = s.tokens["attacker"]
        /\ t = [time |-> s.time, policies |-> t.policies, tokens |-> t.tokens]
    <3>1. t.policies[p] = Charge(s.policies[p], r)
      BY <2>3, <2>5, SwapMoves
    <3>2. t.policies \in Register /\ t.tokens \in Ledger
      BY <2>3, <2>5, SwapMoves
    <3>3. t.tokens["recipient"] = s.tokens["recipient"] + r.amount * 1000
      BY <2>3, <2>5, SwapMoves
    <3> QED
      BY <2>1, <2>3, <2>5, <3>1, <3>2, <3>3, SwapMoves
  <2>8. /\ Main(s) \in Policy /\ Main(s).nonce <= Main(s).spent /\ Main(s).spent <= 150
        /\ s.tokens \in Ledger /\ s.time \in {0, 1}
    BY DEF Accounts, There, Main
  <2>9. PICK n \in Nat, m \in Nat, a \in Nat, v \in Int, w \in Int :
          /\ n = Main(s).nonce /\ m = Main(s).spent /\ a = r.amount
          /\ v = s.tokens["main"] /\ w = s.tokens["recipient"]
    BY <2>8, Figures
  <2>10. \/ /\ p = "main" /\ Main(t) = c /\ q = Main(s)
           /\ Main(t).nonce = n + 1 /\ Main(t).spent = m + a /\ t.tokens["main"] = v - a
        \/ /\ p # "main" /\ Main(t) = Main(s)
           /\ Main(t).nonce = n /\ Main(t).spent = m /\ t.tokens["main"] = v
    BY <2>1, <2>4, <2>7, <2>9 DEF Main, Policies
  <2>11. t.tokens["recipient"] = w + a * 1000 /\ a > 0
    BY <2>2, <2>7, <2>9
  <2>12. Main(t) \in Policy /\ Main(t).nonce <= Main(t).spent /\ Main(t).spent <= 150
    <3>1. CASE p = "main"
      <4>1. Main(t) = c /\ n + 1 <= m + a /\ m + a <= 150
        BY <2>2, <2>3, <2>8, <2>9, <2>10, <2>11, <3>1
      <4> QED
        BY <2>10, <3>1, <4>1
    <3>2. CASE p # "main"
      BY <2>8, <2>10, <3>2
    <3> QED
      BY <3>1, <3>2
  <2>13. t \in Accounts
    <3>1. t \in [time: {0, 1}, policies: Register, tokens: Ledger]
      BY <2>7, <2>8
    <3> QED
      BY <2>7, <2>8, <2>12, <3>1 DEF Accounts, There, Main
  <2>14. \A x \in Policies : There(x, s) => There(x, t)
    BY <2>1, <2>7 DEF There
  <2>15. Main(t).active => Main(s).active
    BY <2>4, <2>10
  <2>16. /\ Main(s).nonce <= Main(t).nonce /\ Main(s).spent <= Main(t).spent
         /\ Main(s).spent - Main(s).nonce <= Main(t).spent - Main(t).nonce
         /\ s.tokens["recipient"] < t.tokens["recipient"]
         /\ s.tokens["recipient"] <= t.tokens["recipient"]
         /\ Held(s) <= Held(t) /\ Gift(s) <= Gift(t)
    BY <2>9, <2>10, <2>11 DEF Held, Gift, RATE
  <2>17. Grows(s, t)
    <3>1. s.tokens["attacker"] <= t.tokens["attacker"]
      BY <2>7, Figures
    <3> QED
      BY <2>14, <2>15, <2>16, <3>1 DEF Grows
  <2>18. p = "main" => Main(s).nonce < Main(t).nonce
    BY <2>9, <2>10
  <2> QED
    BY <1>2, <1>4, <2>13, <2>16, <2>17, <2>18, <2>6
<1> QED
  BY <1>3, <1>4

(* Growth, conjunct by conjunct, for accounts that stay or change a little *)
(* and from one state to the next.                                         *)
LEMMA GrowsSame ==
  ASSUME NEW s \in Accounts, NEW t \in Accounts,
         \A p \in Policies : There(p, s) => There(p, t),
         Main(t).active => Main(s).active,
         Main(t).nonce = Main(s).nonce, Main(t).spent = Main(s).spent,
         s.tokens["main"] <= t.tokens["main"], s.tokens["recipient"] <= t.tokens["recipient"],
         s.tokens["attacker"] <= t.tokens["attacker"]
  PROVE  /\ Grows(s, t)
         /\ s.tokens["main"] < t.tokens["main"] => Held(s) < Held(t)
         /\ s.tokens["recipient"] < t.tokens["recipient"] => Gift(s) < Gift(t)
<1>1. PICK n \in Nat, m \in Nat, v \in Int, w \in Int, x \in Int, y \in Int :
        /\ n = Main(s).nonce /\ m = Main(s).spent
        /\ v = s.tokens["main"] /\ w = s.tokens["recipient"]
        /\ x = t.tokens["main"] /\ y = t.tokens["recipient"]
  BY Figures
<1>2. Main(t).nonce = n /\ Main(t).spent = m /\ v <= x /\ w <= y
  BY <1>1
<1>3. /\ Held(s) = v + m /\ Held(t) = x + m
      /\ Gift(s) = w - m * 1000 /\ Gift(t) = y - m * 1000
  BY <1>1, <1>2 DEF Held, Gift, RATE
<1> QED
  BY <1>1, <1>2, <1>3 DEF Grows

LEMMA GrowsOn ==
  ASSUME NEW s \in Accounts, NEW t \in Accounts, NEW u \in Accounts, Grows(s, t), Grows(t, u)
  PROVE  Grows(s, u)
<1>1. ASSUME NEW z \in Accounts
      PROVE  \E n \in Nat, m \in Nat, v \in Int, w \in Int :
               /\ n = Main(z).nonce /\ m = Main(z).spent
               /\ v = Held(z) /\ w = Gift(z)
  <2>1. \E n \in Nat, m \in Nat, v \in Int, w \in Int :
          /\ n = Main(z).nonce /\ m = Main(z).spent
          /\ v = z.tokens["main"] /\ w = z.tokens["recipient"]
    BY Figures
  <2> QED
    BY <2>1 DEF Held, Gift, RATE
<1>2. \A z \in Accounts : z.tokens["recipient"] \in Int /\ z.tokens["attacker"] \in Int
  BY Figures
<1>3. /\ \A p \in Policies : There(p, s) => There(p, u)
      /\ Main(u).active => Main(s).active
  BY DEF Grows
<1>4. /\ s.tokens["recipient"] <= u.tokens["recipient"]
      /\ s.tokens["attacker"] <= u.tokens["attacker"]
  BY <1>2 DEF Grows
<1>5. /\ Main(s).nonce <= Main(u).nonce /\ Main(s).spent <= Main(u).spent
      /\ Main(s).spent - Main(s).nonce <= Main(u).spent - Main(u).nonce
      /\ Held(s) <= Held(u) /\ Gift(s) <= Gift(u)
  BY <1>1 DEF Grows
<1> QED
  BY <1>3, <1>4, <1>5 DEF Grows

(* A creation leaves everything but the new policy alone.                  *)
LEMMA CreateEffect ==
  ASSUME NEW s \in Accounts, NEW ask, ACreation(ask), NEW o, o = CreateOutcome(s, ask)
  PROVE  /\ o.error \in Answers /\ o.state \in Accounts /\ Grows(s, o.state)
         /\ o.error # "Ok" => o.state = s
<1>1. CASE s.policies[ask.policy] = NoAccount /\ ask.expires_at > s.time
  <2>1. PICK q \in Policies \ {"main"} : q = ask.policy
    BY DEF ACreation
  <2>2. PICK p : p = APolicy(ask.token_allowed, ask.expires_at)
    OBVIOUS
  <2>3. p \in Policy
    BY <2>2 DEF ACreation, APolicy, Policy
  <2>4. PICK t : t = [s EXCEPT !.policies[q] = p, !.tokens[q] = 2]
    OBVIOUS
  <2>5. o = [error |-> "Ok", state |-> t]
    BY <1>1, <2>1, <2>2, <2>4 DEF CreateOutcome
  <2>6. PICK policies, tokens : /\ policies = [s.policies EXCEPT ![q] = p]
                                /\ tokens = [s.tokens EXCEPT ![q] = 2]
    OBVIOUS
  <2>7. policies \in Register /\ tokens \in Ledger
    BY <2>3, <2>6 DEF Accounts, Register, Ledger
  <2>8. t = [time |-> s.time, policies |-> policies, tokens |-> tokens]
    <3>1. t = [s EXCEPT !.policies = policies, !.tokens = tokens]
      BY <2>4, <2>6
    <3>2. s = [time |-> s.time, policies |-> s.policies, tokens |-> s.tokens]
      BY Figures
    <3> QED
      BY <3>1, <3>2
  <2>9. /\ policies[q] = p /\ \A x \in Policies \ {q} : policies[x] = s.policies[x]
        /\ \A x \in {"main", "recipient", "attacker"} : tokens[x] = s.tokens[x]
    BY <2>6 DEF Accounts, Register, Ledger, Policies, Others
  <2>10. /\ Main(t) = Main(s) /\ \A x \in Policies : There(x, s) => There(x, t)
        /\ \A x \in {"main", "recipient", "attacker"} : t.tokens[x] = s.tokens[x]
    BY <2>3, <2>8, <2>9 DEF Main, There, Policies
  <2>11. t \in Accounts
    <3>1. t \in [time: {0, 1}, policies: Register, tokens: Ledger]
      BY <2>8, <2>7 DEF Accounts
    <3> QED
      BY <2>10, <3>1 DEF Accounts, Policies
  <2>12. Grows(s, t)
    <3>1. /\ s.tokens["main"] <= t.tokens["main"]
          /\ s.tokens["recipient"] <= t.tokens["recipient"]
          /\ s.tokens["attacker"] <= t.tokens["attacker"]
      BY <2>10, Figures
    <3> QED
      BY <2>10, <2>11, <3>1, GrowsSame
  <2> QED
    BY <2>5, <2>11, <2>12 DEF Answers
<1>2. CASE ~(s.policies[ask.policy] = NoAccount /\ ask.expires_at > s.time)
  <2>1. o = [error |-> "InvalidPolicy", state |-> s]
    BY <1>2 DEF CreateOutcome
  <2> QED
    BY <2>1, GrowsSame, Figures DEF Answers
<1> QED
  BY <1>1, <1>2

(* A revoked policy is a policy.                                           *)
LEMMA RevokedType ==
  ASSUME NEW p \in Policy, NEW q, q = [p EXCEPT !.active = FALSE]
  PROVE  q \in Policy
BY DEF Policy

(* A revocation leaves everything else alone.                              *)
LEMMA RevokeEffect ==
  ASSUME NEW s \in Accounts, NEW t, t = [s EXCEPT !.policies["main"].active = FALSE]
  PROVE  t \in Accounts /\ Grows(s, t) /\ Marks(s, t)
<1>1. PICK p : p = [Main(s) EXCEPT !.active = FALSE]
  OBVIOUS
<1>2. /\ p \in Policy /\ p.nonce = Main(s).nonce /\ p.spent = Main(s).spent /\ ~p.active
      /\ ~Main(s).active => p = Main(s)
  <2>1. PICK m \in Policy : m = Main(s)
    BY Figures
  <2>2. p = [m EXCEPT !.active = FALSE]
    BY <1>1, <2>1
  <2>3. p \in Policy
    BY <2>2, RevokedType
  <2>4. p.nonce = m.nonce /\ p.spent = m.spent /\ ~p.active
    BY <2>2 DEF Policy
  <2>5. ~m.active => p = m
    BY <2>2 DEF Policy
  <2> QED
    BY <2>1, <2>3, <2>4, <2>5
<1>3. PICK policies : policies = [s.policies EXCEPT !["main"] = p]
  OBVIOUS
<1>4. t = [time |-> s.time, policies |-> policies, tokens |-> s.tokens]
  <2>1. t = [s EXCEPT !.policies = policies]
    BY <1>1, <1>3 DEF Main
  <2>2. s = [time |-> s.time, policies |-> s.policies, tokens |-> s.tokens]
    BY Figures
  <2> QED
    BY <2>1, <2>2
<1>5. policies \in Register
  BY <1>2, <1>3 DEF Accounts, Register
<1>6. policies["main"] = p /\ \A x \in Policies \ {"main"} : policies[x] = s.policies[x]
  BY <1>3 DEF Accounts, Register, Policies
<1>7. /\ Main(t) = p /\ \A x \in Policies : There(x, s) => There(x, t)
      /\ t.tokens = s.tokens
  <2>1. t.policies = policies /\ t.tokens = s.tokens
    BY <1>4
  <2> QED
    BY <1>2, <1>6, <2>1 DEF Main, There
<1>8. t \in Accounts
  <2>1. t \in [time: {0, 1}, policies: Register, tokens: Ledger]
    <3>1. s.time \in {0, 1} /\ s.tokens \in Ledger
      BY DEF Accounts
    <3> QED
      BY ONLY <1>4, <1>5, <3>1
  <2>2. There("main", t)
    BY <1>2, <1>7 DEF There, Main
  <2>3. Main(t).nonce <= Main(t).spent /\ Main(t).spent <= 150
    BY <1>2, <1>7, Figures
  <2> QED
    BY <2>1, <2>2, <2>3 DEF Accounts
<1>9. Grows(s, t)
  <2>1. /\ s.tokens["main"] <= t.tokens["main"]
        /\ s.tokens["recipient"] <= t.tokens["recipient"]
        /\ s.tokens["attacker"] <= t.tokens["attacker"]
    BY <1>7, Figures
  <2> QED
    BY <1>2, <1>7, <1>8, <2>1, GrowsSame
<1>10. \A x \in Policies \ {"main"} : Seen(x, s) = Seen(x, t)
  BY <1>4, <1>6 DEF Seen
<1>11. Marks(s, t)
  <2>1. CASE Main(s).active
    BY <1>2, <1>7, <1>10, <2>1 DEF Marks
  <2>2. CASE ~Main(s).active
    <3>1. policies["main"] = s.policies["main"]
      BY <1>2, <1>6, <2>2 DEF Main
    <3>2. Seen("main", s) = Seen("main", t)
      <4>1. t.policies = policies /\ t.tokens = s.tokens
        BY <1>4
      <4> QED
        BY <3>1, <4>1 DEF Seen
    <3> QED
      BY <1>10, <3>2 DEF Marks
  <2> QED
    BY <2>1, <2>2
<1> QED
  BY <1>8, <1>9, <1>11

(* Tokens sent to the vault, the recipient or the attacker stay there.     *)
LEMMA GiftEffect ==
  ASSUME NEW s \in Accounts, NEW q \in {"main", "recipient", "attacker"},
         NEW t, t = [s EXCEPT !.tokens[q] = @ + 1]
  PROVE  t \in Accounts /\ Grows(s, t) /\ Marks(s, t)
<1>1. PICK v \in Int, w \in Int, z \in Int :
        v = s.tokens["main"] /\ w = s.tokens["recipient"] /\ z = s.tokens["attacker"]
  BY Figures
<1>2. PICK tokens : tokens = [s.tokens EXCEPT ![q] = s.tokens[q] + 1]
  OBVIOUS
<1>3. t = [time |-> s.time, policies |-> s.policies, tokens |-> tokens]
  <2>1. t = [s EXCEPT !.tokens = tokens]
    BY <1>2
  <2>2. s = [time |-> s.time, policies |-> s.policies, tokens |-> s.tokens]
    BY Figures
  <2> QED
    BY <2>1, <2>2
<1>4. /\ tokens \in Ledger /\ tokens[q] = s.tokens[q] + 1
      /\ \A x \in (Policies \cup Others) \ {q} : tokens[x] = s.tokens[x]
  BY <1>2 DEF Accounts, Ledger, Policies, Others
<1>5. \/ /\ q = "main" /\ tokens["main"] = v + 1
         /\ tokens["recipient"] = w /\ tokens["attacker"] = z
      \/ /\ q = "recipient" /\ tokens["main"] = v
         /\ tokens["recipient"] = w + 1 /\ tokens["attacker"] = z
      \/ /\ q = "attacker" /\ tokens["main"] = v
         /\ tokens["recipient"] = w /\ tokens["attacker"] = z + 1
  BY <1>1, <1>4 DEF Policies, Others
<1>6. /\ Main(t) = Main(s) /\ \A x \in Policies : There(x, s) => There(x, t)
      /\ t.tokens = tokens
  BY <1>3 DEF Main, There
<1>7. t \in Accounts
  <2>1. t \in [time: {0, 1}, policies: Register, tokens: Ledger]
    BY <1>3, <1>4 DEF Accounts
  <2> QED
    BY <1>6, <2>1 DEF Accounts, Policies
<1>8. v <= tokens["main"] /\ w <= tokens["recipient"] /\ z <= tokens["attacker"]
  BY <1>5
<1>9. Grows(s, t) /\ (v < tokens["main"] => Held(s) < Held(t))
                  /\ (w < tokens["recipient"] => Gift(s) < Gift(t))
  BY <1>1, <1>6, <1>7, <1>8, GrowsSame
<1>10. CASE q = "main"
  <2>1. ASSUME NEW x \in Policies \ {"main"} PROVE Seen(x, s) = Seen(x, t)
    <3>1. \A y \in {x} \cup Others : tokens[y] = s.tokens[y]
      BY <1>4, <1>10 DEF Policies, Others
    <3> QED
      BY <1>3, <3>1 DEF Seen
  <2>2. Held(s) < Held(t)
    BY <1>5, <1>9, <1>10
  <2> QED
    BY <1>7, <1>9, <2>1, <2>2 DEF Marks
<1>11. CASE q = "recipient"
  <2>1. w < tokens["recipient"]
    BY <1>5, <1>11
  <2> QED
    BY <1>1, <1>6, <1>7, <1>9, <2>1 DEF Marks
<1>12. CASE q = "attacker"
  <2>1. z < tokens["attacker"]
    BY <1>5, <1>12
  <2> QED
    BY <1>1, <1>6, <1>7, <1>9, <2>1 DEF Marks
<1> QED
  BY <1>10, <1>11, <1>12

(* No snapshot shows the time.                                             *)
LEMMA TimeEffect ==
  ASSUME NEW s \in Accounts, NEW t, t = [s EXCEPT !.time = 1]
  PROVE  t \in Accounts /\ Grows(s, t) /\ Marks(s, t)
<1>1. t = [time |-> 1, policies |-> s.policies, tokens |-> s.tokens]
  BY Figures
<1>2. Main(t) = Main(s) /\ \A x \in Policies : There(x, s) => There(x, t)
  BY <1>1 DEF Main, There
<1>3. t \in Accounts
  <2>1. t \in [time: {0, 1}, policies: Register, tokens: Ledger]
    BY <1>1 DEF Accounts
  <2> QED
    BY <1>1, <1>2, <2>1 DEF Accounts, Policies
<1>4. Grows(s, t)
  <2>1. /\ s.tokens["main"] <= t.tokens["main"]
        /\ s.tokens["recipient"] <= t.tokens["recipient"]
        /\ s.tokens["attacker"] <= t.tokens["attacker"]
    BY <1>1, Figures
  <2> QED
    BY <1>2, <1>3, <2>1, GrowsSame
<1>5. Marks(s, t)
  BY <1>1 DEF Marks, Seen
<1> QED
  BY <1>3, <1>4, <1>5

(* A transaction of others grows the accounts and leaves its mark.         *)
LEMMA OthersEffect ==
  ASSUME NEW s \in Accounts, NEW t,
         \/ t = SwapOutcome(s, "main", [aSwap(10, "Ok") EXCEPT !.nonce = Main(s).nonce]).state
         \/ t = [s EXCEPT !.policies["main"].active = FALSE]
         \/ \E q \in {"main", "recipient", "attacker"} : t = [s EXCEPT !.tokens[q] = @ + 1]
         \/ t = [s EXCEPT !.time = 1]
  PROVE  t \in Accounts /\ Grows(s, t) /\ Marks(s, t)
<1>1. ASSUME t = SwapOutcome(s, "main", [aSwap(10, "Ok") EXCEPT !.nonce = Main(s).nonce]).state
      PROVE  t \in Accounts /\ Grows(s, t) /\ Marks(s, t)
  <2>1. PICK r : r = [aSwap(10, "Ok") EXCEPT !.nonce = Main(s).nonce]
    OBVIOUS
  <2>2. r.amount = 10
    BY <2>1 DEF aSwap
  <2>3. PICK o : o = SwapOutcome(s, "main", r)
    OBVIOUS
  <2>4. There("main", s) /\ "main" \in Policies
    BY DEF Accounts, Policies
  <2>5. /\ o.state \in Accounts /\ Grows(s, o.state)
        /\ o.error # "Ok" => o.state = s
        /\ o.error = "Ok" =>
             /\ s.tokens["recipient"] < o.state.tokens["recipient"]
             /\ Main(s).nonce < Main(o.state).nonce
    BY <2>2, <2>3, <2>4, SwapEffect
  <2>6. t = o.state
    BY <1>1, <2>1, <2>3
  <2> QED
    BY <2>5, <2>6 DEF Marks
<1> QED
  BY <1>1, RevokeEffect, GiftEffect, TimeEffect

(* Whatever a transaction of the suite does, the accounts grow; a failing  *)
(* one leaves them as they are, and a transfer from the vault counts.      *)
LEMMA OutcomeEffect ==
  ASSUME NEW tx \in Transaction, NEW s \in Accounts,
         Script[tx.attempt].kind = "swap" => There(Script[tx.attempt].policy, s),
         NEW o, o = Outcome(tx, s)
  PROVE  /\ o.error \in Answers /\ o.state \in Accounts /\ Grows(s, o.state)
         /\ o.error # "Ok" => o.state = s
         /\ Script[tx.attempt].kind = "swap" /\ Script[tx.attempt].policy = "main"
              /\ o.error = "Ok" => Main(s).nonce < Main(o.state).nonce
<1>1. PICK ask : ask = Script[tx.attempt]
  OBVIOUS
<1>2. ASwap(ask) \/ ACreation(ask) \/ ARevocation(ask)
  BY <1>1, Plan DEF Transaction
<1>3. CASE ASwap(ask)
  <2>1. PICK p \in Policies : p = ask.policy
    BY <1>3 DEF ASwap
  <2>2. PICK r : r = [ask EXCEPT !.nonce = tx.nonce]
    OBVIOUS
  <2>3. r.amount = ask.amount /\ r.amount \in Nat
    BY <1>3, <2>2 DEF ASwap
  <2>4. o = SwapOutcome(s, p, r)
    BY <1>1, <1>3, <2>1, <2>2 DEF Outcome, ASwap
  <2>5. There(p, s)
    BY <1>1, <1>3, <2>1 DEF ASwap
  <2>6. /\ o.error \in Errors \cup {"Ok"} /\ o.state \in Accounts /\ Grows(s, o.state)
        /\ o.error # "Ok" => o.state = s
        /\ o.error = "Ok" /\ p = "main" => Main(s).nonce < Main(o.state).nonce
    BY <2>3, <2>4, <2>5, SwapEffect
  <2> QED
    BY <1>1, <2>1, <2>6 DEF Answers
<1>4. CASE ACreation(ask)
  <2>1. o = CreateOutcome(s, ask)
    BY <1>1, <1>4 DEF Outcome, ACreation
  <2> QED
    BY <1>1, <1>4, <2>1, CreateEffect DEF ACreation
<1>5. CASE ARevocation(ask)
  <2>1. PICK t : t = [s EXCEPT !.policies["main"].active = FALSE]
    OBVIOUS
  <2>2. o = [error |-> "Ok", state |-> t]
    BY <1>1, <1>5, <2>1 DEF Outcome, ARevocation
  <2> QED
    BY <1>1, <1>5, <2>1, <2>2, RevokeEffect DEF ARevocation, Answers
<1> QED
  BY <1>2, <1>3, <1>4, <1>5

----------------------------------------------------------------------------
(* What happens on the cluster.                                            *)

LEMMA NoTxIsNone == NoTx \notin Transaction
  BY NoTxAssumption, Plan DEF Transaction

LEMMA Recorded ==
  ASSUME TypeInv
  PROVE  /\ Attempts \in Seq(Attempt) /\ Last \in Nat /\ DOMAIN Attempts = 1 .. Last
         /\ \A k \in 1 .. Last : Attempts[k] \in Attempt /\ k \in 1 .. 18
<1>1. Attempts \in Seq(Attempt) /\ Last <= 18
  BY DEF TypeInv, Attempts
<1> QED
  BY <1>1 DEF Last

LEMMA StateType ==
  ASSUME TypeInv, NEW n \in 0 .. Len(blocks)
  PROVE  StateAt(n) \in Accounts
<1>1. blocks \in Seq(Block)
  BY DEF TypeInv
<1>2. CASE n = 0
  <2>1. Genesis = Fixture
    BY VerifyRunAssumption DEF VerifyRunAssumption
  <2>2. PICK p : p = APolicy(TRUE, 2)
    OBVIOUS
  <2>3. p \in Policy /\ p.nonce = 0 /\ p.spent = 0
    BY <2>2 DEF Policy, APolicy
  <2>4. PICK policies : policies = Fixture.policies
    OBVIOUS
  <2>5. PICK tokens : tokens = Fixture.tokens
    OBVIOUS
  <2>6. policies = [q \in Policies |-> IF q = "main" THEN p ELSE NoAccount]
    BY SMT, <2>2, <2>4 DEF Fixture
  <2>7. policies \in Register /\ policies["main"] = p
    BY <2>3, <2>6 DEF Register, Policies
  <2>8. PICK zero : zero = [t \in Policies \cup Others |-> 0]
    OBVIOUS
  <2>9. tokens = [zero EXCEPT !["main"] = 150, !["poolOutput"] = 1000000]
    BY SMT, <2>5, <2>8 DEF Fixture
  <2>10. tokens \in Ledger
    BY <2>8, <2>9 DEF Ledger, Policies, Others
  <2>11. StateAt(n) = [time |-> 0, policies |-> policies, tokens |-> tokens]
    BY <1>2, <2>1, <2>4, <2>5 DEF StateAt, Fixture
  <2> QED
    BY <2>3, <2>7, <2>10, <2>11 DEF Accounts, There, Main
<1>3. CASE n # 0
  <2>1. blocks[n] \in Block
    BY <1>1, <1>3
  <2> QED
    BY <1>3, <2>1 DEF StateAt, Block
<1> QED
  BY <1>2, <1>3

LEMMA LatestType ==
  ASSUME TypeInv
  PROVE  Len(blocks) \in Nat /\ Latest \in Accounts
<1>1. Len(blocks) \in Nat
  BY DEF TypeInv
<1>2. Len(blocks) \in 0 .. Len(blocks)
  BY <1>1
<1> QED
  BY <1>1, <1>2, StateType DEF Latest

(* The next block.                                                         *)
LEMMA Appended ==
  ASSUME TypeInv, NEW b \in Block, blocks' = Append(blocks, b), NEW L, L = Len(blocks)
  PROVE  /\ blocks' \in Seq(Block) /\ L \in Nat /\ Len(blocks') = L + 1
         /\ DOMAIN blocks = 1 .. L /\ DOMAIN blocks' = 1 .. L + 1
         /\ \A i \in 1 .. L : blocks'[i] = blocks[i]
         /\ blocks'[L + 1] = b
         /\ \A n \in 0 .. L : StateAt(n)' = StateAt(n)
         /\ StateAt(L + 1)' = b.state
<1>1. /\ blocks' \in Seq(Block) /\ L \in Nat /\ Len(blocks') = L + 1
      /\ DOMAIN blocks = 1 .. L /\ DOMAIN blocks' = 1 .. L + 1
      /\ \A i \in 1 .. L : blocks'[i] = blocks[i]
      /\ blocks'[L + 1] = b
  BY DEF TypeInv
<1>2. \A n \in 0 .. L : StateAt(n)' = StateAt(n)
  BY <1>1 DEF StateAt
<1>3. StateAt(L + 1)' = b.state
  BY <1>1 DEF StateAt
<1> QED
  BY <1>1, <1>2, <1>3

(* Only the first of them are left.                                        *)
LEMMA Cut ==
  ASSUME TypeInv, NEW n \in 0 .. Len(blocks), blocks' = SubSeq(blocks, 1, n)
  PROVE  /\ blocks' \in Seq(Block) /\ Len(blocks') = n
         /\ DOMAIN blocks = 1 .. Len(blocks) /\ DOMAIN blocks' = 1 .. n
         /\ Len(blocks) \in Nat
         /\ \A i \in 1 .. n : blocks'[i] = blocks[i]
         /\ \A i \in 0 .. n : StateAt(i)' = StateAt(i)
<1>1. /\ blocks' \in Seq(Block) /\ Len(blocks') = n
      /\ DOMAIN blocks = 1 .. Len(blocks) /\ DOMAIN blocks' = 1 .. n
      /\ Len(blocks) \in Nat
      /\ \A i \in 1 .. n : blocks'[i] = blocks[i]
  BY DEF TypeInv
<1>2. \A i \in 0 .. n : StateAt(i)' = StateAt(i)
  BY <1>1 DEF StateAt
<1> QED
  BY <1>1, <1>2

(* From its snapshot on, the policy of a swap is there.                    *)
LEMMA Present ==
  ASSUME TypeInv, ChainInv, ReportInv, NEW k \in 1 .. Last, Script[k].kind = "swap",
         NEW n \in rooted .. Len(blocks)
  PROVE  There(Script[k].policy, StateAt(n))
<1>1. PICK a \in Nat : a = Attempts[k].before
  BY Recorded DEF Attempt
<1>2. a <= rooted /\ There(Script[k].policy, StateAt(a))
  <2>1. PICK z \in Nat : z = Attempts[k].after
    BY Recorded DEF Attempt
  <2>2. a <= z /\ z <= rooted /\ There(Script[k].policy, StateAt(a))
    BY <1>1, <2>1 DEF ReportInv, Kept
  <2> QED
    BY <2>1, <2>2 DEF TypeInv
<1>3. a \in 0 .. Len(blocks) /\ n \in 0 .. Len(blocks) /\ a <= n
  BY <1>2 DEF TypeInv
<1>4. Grows(StateAt(a), StateAt(n))
  BY <1>3 DEF ChainInv
<1>5. Script[k].policy \in Policies
  BY Recorded, Plan DEF ASwap, ACreation, ARevocation
<1> QED
  BY <1>2, <1>4, <1>5 DEF Grows

(* A next block, of the suite or of others.                                *)
Extends(b) ==
  /\ blocks' = Append(blocks, b)
  /\ Grows(StateAt(Len(blocks)), b.state) /\ Trace(StateAt(Len(blocks)), b)
  /\ \/ b.tx = NoTx /\ waiting' = waiting
     \/ b.tx \in waiting /\ waiting' = waiting \ {b.tx}
  /\ UNCHANGED <<confirmed, rooted, expired>>

ClusterMoves ==
  \/ Executes \/ Confirms \/ Finalizes \/ Abandons \/ Expires \/ Interferes
  \/ \E early \in BOOLEAN : Tick(early)

LEMMA Landing ==
  ASSUME TypeInv, SentInv, ChainInv, ReportInv, NEW tx \in waiting,
         Land(tx, Outcome(tx, Latest))
  PROVE  \E b \in Block : Extends(b)
<1>1. PICK s \in Accounts : s = StateAt(Len(blocks))
  BY LatestType DEF Latest
<1>2. PICK o : o = Outcome(tx, s)
  OBVIOUS
<1>3. PICK b : b = [tx |-> tx, error |-> o.error, state |-> o.state]
  OBVIOUS
<1>4. tx \in Transaction /\ tx.attempt \in 1 .. Last
  BY DEF TypeInv, SentInv, Taken
<1>5. Script[tx.attempt].kind = "swap" => There(Script[tx.attempt].policy, s)
  <2>1. Len(blocks) \in rooted .. Len(blocks)
    BY DEF TypeInv
  <2> QED
    BY <1>1, <1>4, <2>1, Present
<1>6. /\ o.error \in Answers /\ o.state \in Accounts /\ Grows(s, o.state)
      /\ Script[tx.attempt].kind = "swap" /\ Script[tx.attempt].policy = "main"
           /\ o.error = "Ok" => Main(s).nonce < Main(o.state).nonce
  BY <1>2, <1>4, <1>5, OutcomeEffect
<1>7. b \in Block /\ b.tx = tx /\ b.error = o.error /\ b.state = o.state /\ tx # NoTx
  BY <1>3, <1>4, <1>6, NoTxIsNone DEF Block
<1>8. /\ blocks' = Append(blocks, b) /\ waiting' = waiting \ {tx}
      /\ UNCHANGED <<confirmed, rooted, expired>>
  BY <1>1, <1>2, <1>3 DEF Land, Latest
<1>9. Trace(s, b)
  BY <1>6, <1>7 DEF Trace
<1> QED
  BY <1>1, <1>6, <1>7, <1>8, <1>9 DEF Extends

LEMMA Intrusion ==
  ASSUME TypeInv, NEW t, Intrude(t),
         \/ t = SwapOutcome(Latest, "main",
                            [aSwap(10, "Ok") EXCEPT !.nonce = Main(Latest).nonce]).state
         \/ t = [Latest EXCEPT !.policies["main"].active = FALSE]
         \/ \E q \in {"main", "recipient", "attacker"} : t = [Latest EXCEPT !.tokens[q] = @ + 1]
         \/ t = [Latest EXCEPT !.time = 1]
  PROVE  \E b \in Block : Extends(b)
<1>1. PICK s \in Accounts : s = StateAt(Len(blocks))
  BY LatestType DEF Latest
<1>2. t \in Accounts /\ Grows(s, t) /\ Marks(s, t)
  BY <1>1, OthersEffect DEF Latest
<1>3. PICK b : b = [tx |-> NoTx, error |-> "Ok", state |-> t]
  OBVIOUS
<1>4. b \in Block /\ b.tx = NoTx /\ b.state = t
  BY <1>2, <1>3 DEF Block, Answers
<1>5. /\ blocks' = Append(blocks, b)
      /\ UNCHANGED <<waiting, confirmed, rooted, expired>>
  BY <1>3 DEF Intrude
<1> QED
  BY <1>1, <1>2, <1>4, <1>5 DEF Extends, Trace

(* What the cluster and the others can do.                                 *)
LEMMA ClusterCases ==
  ASSUME TypeInv, SentInv, ChainInv, ReportInv, ClusterMoves
  PROVE  /\ UNCHANGED script
         /\ (\E b \in Block : Extends(b)) \/ Confirm \/ Finalize \/ Abandon
              \/ \E tx \in waiting : Expire(tx)
<1>1. UNCHANGED script
  BY DEF ClusterMoves, Executes, Confirms, Finalizes, Abandons, Expires, Interferes, Tick
<1>2. CASE Executes
  BY <1>1, <1>2, Landing DEF Executes
<1>3. CASE Interferes
  BY <1>1, <1>3, Intrusion DEF Interferes, Main
<1>4. CASE \E early \in BOOLEAN : Tick(early)
  BY <1>1, <1>4, Intrusion DEF Tick
<1>5. CASE Confirms \/ Finalizes \/ Abandons \/ Expires
  BY <1>1, <1>5 DEF Confirms, Finalizes, Abandons, Expires
<1> QED
  BY <1>2, <1>3, <1>4, <1>5 DEF ClusterMoves

(* What the chain shows stays, whatever is appended or cut off.            *)
LEMMA ChainSame ==
  ASSUME ChainInv, blocks' = blocks
  PROVE  ChainInv'
<1>1. \A n : StateAt(n)' = StateAt(n)
  BY DEF StateAt
<1> QED
  BY <1>1 DEF ChainInv

LEMMA ChainCut ==
  ASSUME TypeInv, ChainInv, NEW l \in 0 .. Len(blocks), blocks' = SubSeq(blocks, 1, l)
  PROVE  ChainInv'
<1>1. /\ Len(blocks') = l /\ DOMAIN blocks' = 1 .. l /\ DOMAIN blocks = 1 .. Len(blocks)
      /\ Len(blocks) \in Nat
      /\ \A i \in 1 .. l : blocks'[i] = blocks[i]
      /\ \A i \in 0 .. l : StateAt(i)' = StateAt(i)
  BY Cut
<1>2. /\ \A i \in 1 .. l : i \in DOMAIN blocks /\ i - 1 \in 0 .. l
      /\ \A i \in 0 .. l : i \in 0 .. Len(blocks)
  BY <1>1
<1>3. ASSUME NEW i \in 1 .. l PROVE Trace(StateAt(i - 1)', blocks'[i])
  <2>1. Trace(StateAt(i - 1), blocks[i])
    BY <1>2 DEF ChainInv
  <2> QED
    BY <1>1, <1>2, <2>1
<1>4. ASSUME NEW m \in 0 .. l, NEW n \in 0 .. l, m <= n
      PROVE  Grows(StateAt(m)', StateAt(n)')
  <2>1. Grows(StateAt(m), StateAt(n))
    BY <1>2, <1>4 DEF ChainInv
  <2> QED
    BY <1>1, <2>1
<1> QED
  BY <1>1, <1>3, <1>4 DEF ChainInv

LEMMA ChainGrows ==
  ASSUME TypeInv, ChainInv, NEW b \in Block, Extends(b)
  PROVE  ChainInv'
<1>1. PICK L : L = Len(blocks)
  OBVIOUS
<1>2. /\ L \in Nat /\ Len(blocks') = L + 1
      /\ DOMAIN blocks = 1 .. L /\ DOMAIN blocks' = 1 .. L + 1
      /\ \A i \in 1 .. L : blocks'[i] = blocks[i]
      /\ blocks'[L + 1] = b
      /\ \A n \in 0 .. L : StateAt(n)' = StateAt(n)
      /\ StateAt(L + 1)' = b.state
  BY <1>1, Appended DEF Extends
<1>3. Grows(StateAt(L), b.state) /\ Trace(StateAt(L), b)
  BY <1>1 DEF Extends
<1>4. /\ \A i \in 1 .. L + 1 : i \in 1 .. L \/ i = L + 1
      /\ \A i \in 0 .. L + 1 : i \in 0 .. L \/ i = L + 1
      /\ \A i \in 1 .. L : i - 1 \in 0 .. L
      /\ (L + 1) - 1 = L /\ L \in 0 .. L /\ \A i \in 0 .. L : i <= L /\ ~(L + 1 <= i)
  BY <1>2
<1>5. ASSUME NEW i \in 1 .. L + 1 PROVE Trace(StateAt(i - 1)', blocks'[i])
  <2>1. CASE i \in 1 .. L
    <3>1. Trace(StateAt(i - 1), blocks[i])
      BY <1>2, <2>1 DEF ChainInv
    <3>2. StateAt(i - 1)' = StateAt(i - 1) /\ blocks'[i] = blocks[i]
      BY <1>2, <1>4, <2>1
    <3> QED
      BY <3>1, <3>2
  <2>2. CASE i = L + 1
    <3>1. StateAt(i - 1)' = StateAt(L) /\ blocks'[i] = b
      BY <1>2, <1>4, <2>2
    <3> QED
      BY <1>3, <3>1
  <2> QED
    BY <1>4, <2>1, <2>2
<1>6. ASSUME NEW m \in 0 .. L + 1, NEW n \in 0 .. L + 1, m <= n
      PROVE  Grows(StateAt(m)', StateAt(n)')
  <2>1. \A i \in 0 .. L : StateAt(i) \in Accounts
    BY <1>1, StateType
  <2>2. b.state \in Accounts
    BY DEF Block
  <2>3. CASE n \in 0 .. L
    <3>1. m \in 0 .. L
      BY <1>4, <1>6, <2>3
    <3>2. Grows(StateAt(m), StateAt(n))
      BY <1>1, <1>6, <2>3, <3>1 DEF ChainInv
    <3> QED
      BY <1>2, <2>3, <3>1, <3>2
  <2>4. CASE n = L + 1 /\ m \in 0 .. L
    <3>1. Grows(StateAt(m), StateAt(L))
      BY <1>1, <1>4, <2>4 DEF ChainInv
    <3>2. Grows(StateAt(m), b.state)
      BY <1>3, <1>4, <2>1, <2>2, <2>4, <3>1, GrowsOn
    <3> QED
      BY <1>2, <2>4, <3>2
  <2>5. CASE n = L + 1 /\ m = L + 1
    <3>1. Grows(b.state, b.state)
      <4>1. PICK s \in Accounts : s = b.state
        BY <2>2
      <4>2. /\ s.tokens["main"] <= s.tokens["main"]
            /\ s.tokens["recipient"] <= s.tokens["recipient"]
            /\ s.tokens["attacker"] <= s.tokens["attacker"]
        BY Figures
      <4> QED
        BY <4>1, <4>2, GrowsSame
    <3> QED
      BY <1>2, <2>5, <3>1
  <2> QED
    BY <1>4, <2>3, <2>4, <2>5
<1> QED
  BY <1>2, <1>5, <1>6 DEF ChainInv

(* What the cluster keeps: nothing comes in by itself, there is no second  *)
(* one of what there is, and what is confirmed stays.                      *)
Steady ==
  /\ blocks' \in Seq(Block) /\ waiting' \subseteq Transaction /\ expired' \subseteq Transaction
  /\ confirmed' \in 0 .. Len(blocks') /\ rooted' \in 0 .. confirmed' /\ rooted <= rooted'
  /\ Taken' \subseteq Taken /\ OnceInv' /\ ChainInv'
  /\ \A n \in 0 .. confirmed : StateAt(n)' = StateAt(n)
  /\ \A n \in 1 .. rooted : n \in DOMAIN blocks' /\ blocks'[n] = blocks[n]
  /\ \A n \in DOMAIN blocks' :
       n > Len(blocks) \/ (n \in DOMAIN blocks /\ blocks'[n] = blocks[n])

LEMMA Sizes ==
  ASSUME TypeInv
  PROVE  /\ confirmed \in 0 .. Len(blocks) /\ rooted \in 0 .. confirmed
         /\ Len(blocks) \in Nat /\ blocks \in Seq(Block) /\ DOMAIN blocks = 1 .. Len(blocks)
         /\ waiting \subseteq Transaction /\ expired \subseteq Transaction
         /\ rooted \in 0 .. Len(blocks)
         /\ \A n \in 0 .. confirmed : n \in 0 .. Len(blocks)
         /\ \A n \in 0 .. rooted : n \in 0 .. Len(blocks)
         /\ \A n \in 1 .. rooted : n \in DOMAIN blocks
         /\ \A n \in DOMAIN blocks : blocks[n] \in Block
<1>1. /\ confirmed \in 0 .. Len(blocks) /\ rooted \in 0 .. confirmed
      /\ blocks \in Seq(Block) /\ waiting \subseteq Transaction /\ expired \subseteq Transaction
  BY DEF TypeInv
<1>2. /\ Len(blocks) \in Nat /\ DOMAIN blocks = 1 .. Len(blocks)
      /\ \A n \in DOMAIN blocks : blocks[n] \in Block
  BY <1>1
<1> QED
  BY <1>1, <1>2

LEMMA SteadyExtends ==
  ASSUME TypeInv, OnceInv, ChainInv, NEW b \in Block, Extends(b)
  PROVE  Steady
<1>1. PICK L : L = Len(blocks)
  OBVIOUS
<1>2. /\ blocks' \in Seq(Block) /\ L \in Nat /\ Len(blocks') = L + 1
      /\ DOMAIN blocks = 1 .. L /\ DOMAIN blocks' = 1 .. L + 1
      /\ \A i \in 1 .. L : blocks'[i] = blocks[i]
      /\ blocks'[L + 1] = b
      /\ \A n \in 0 .. L : StateAt(n)' = StateAt(n)
  BY <1>1, Appended DEF Extends
<1>3. /\ UNCHANGED <<confirmed, rooted, expired>>
      /\ \/ b.tx = NoTx /\ waiting' = waiting
         \/ b.tx \in waiting /\ waiting' = waiting \ {b.tx}
  BY DEF Extends
<1>4. /\ \A n \in 1 .. L + 1 : n \in 1 .. L \/ n = L + 1
      /\ \A n \in 1 .. L : n \in 1 .. L + 1
  BY <1>2
<1>5. NoTx \notin waiting \cup expired
  BY NoTxIsNone, Sizes
<1>6. Taken' \subseteq Taken
  BY <1>2, <1>3, <1>4 DEF Taken
<1>7. OnceInv'
  <2>1. \A ty, tz \in Taken' : ty.attempt = tz.attempt => ty = tz
    BY <1>6 DEF OnceInv
  <2>2. waiting' \cap expired' = {}
    BY <1>3 DEF OnceInv
  <2>3. \A n \in DOMAIN blocks' : blocks'[n].tx \notin waiting' \cup expired'
    BY <1>2, <1>3, <1>4, <1>5 DEF OnceInv
  <2>4. \A m, n \in DOMAIN blocks' :
          blocks'[m].tx # NoTx /\ blocks'[m].tx = blocks'[n].tx => m = n
    BY <1>2, <1>3, <1>4 DEF OnceInv
  <2> QED
    BY <2>1, <2>2, <2>3, <2>4 DEF OnceInv
<1>8. /\ confirmed' \in 0 .. Len(blocks') /\ rooted' \in 0 .. confirmed' /\ rooted <= rooted'
  BY <1>1, <1>2, <1>3, Sizes
<1>9. \A n \in 0 .. confirmed : StateAt(n)' = StateAt(n)
  BY <1>1, <1>2, Sizes
<1>10. \A n \in 1 .. rooted : n \in DOMAIN blocks' /\ blocks'[n] = blocks[n]
  BY <1>1, <1>2, <1>4, Sizes
<1>11. \A n \in DOMAIN blocks' :
         n > Len(blocks) \/ (n \in DOMAIN blocks /\ blocks'[n] = blocks[n])
  BY <1>1, <1>2, <1>4
<1>12. waiting' \subseteq Transaction /\ expired' \subseteq Transaction
  BY <1>3, Sizes
<1> QED
  BY <1>2, <1>6, <1>7, <1>8, <1>9, <1>10, <1>11, <1>12, ChainGrows DEF Steady

LEMMA SteadyAbandon ==
  ASSUME TypeInv, OnceInv, ChainInv, Abandon
  PROVE  Steady
<1>1. PICK l \in confirmed .. Len(blocks) - 1 :
        /\ blocks' = SubSeq(blocks, 1, l)
        /\ waiting' = waiting \cup ({ blocks[i].tx : i \in l + 1 .. Len(blocks) } \ {NoTx})
  BY DEF Abandon
<1>2. l \in 0 .. Len(blocks) /\ l >= confirmed /\ UNCHANGED <<confirmed, rooted, expired>>
  BY <1>1, Sizes DEF Abandon
<1>3. /\ blocks' \in Seq(Block) /\ Len(blocks') = l /\ DOMAIN blocks' = 1 .. l
      /\ DOMAIN blocks = 1 .. Len(blocks) /\ Len(blocks) \in Nat
      /\ \A i \in 1 .. l : blocks'[i] = blocks[i]
      /\ \A i \in 0 .. l : StateAt(i)' = StateAt(i)
  BY <1>1, <1>2, Cut
<1>4. /\ \A i \in l + 1 .. Len(blocks) : i \in DOMAIN blocks
      /\ \A i \in 1 .. l : i \in DOMAIN blocks /\ \A j \in l + 1 .. Len(blocks) : i # j
  BY <1>2, <1>3
<1>5. \A tx \in waiting' : tx \in waiting \/ \E i \in l + 1 .. Len(blocks) : tx = blocks[i].tx
                                              /\ tx # NoTx
  BY <1>1
<1>6. Taken' \subseteq Taken
  BY <1>2, <1>3, <1>4, <1>5 DEF Taken
<1>7. waiting' \subseteq Transaction
  BY <1>4, <1>5, Sizes DEF Block
<1>8. NoTx \notin waiting' \cup expired'
  BY <1>2, <1>7, NoTxIsNone, Sizes
<1>9. OnceInv'
  <2>1. \A ty, tz \in Taken' : ty.attempt = tz.attempt => ty = tz
    BY <1>6 DEF OnceInv
  <2>2. waiting' \cap expired' = {}
    BY <1>2, <1>4, <1>5 DEF OnceInv
  <2>3. \A i \in DOMAIN blocks' : blocks'[i].tx \notin waiting' \cup expired'
    BY <1>2, <1>3, <1>4, <1>5, <1>8 DEF OnceInv
  <2>4. \A m, n \in DOMAIN blocks' :
          blocks'[m].tx # NoTx /\ blocks'[m].tx = blocks'[n].tx => m = n
    BY <1>3, <1>4 DEF OnceInv
  <2> QED
    BY <2>1, <2>2, <2>3, <2>4 DEF OnceInv
<1>10. /\ confirmed' \in 0 .. Len(blocks') /\ rooted' \in 0 .. confirmed' /\ rooted <= rooted'
       /\ \A n \in 0 .. confirmed : n \in 0 .. l
       /\ \A n \in 1 .. rooted : n \in 1 .. l
  BY <1>2, <1>3, Sizes
<1>11. ChainInv'
  BY <1>1, <1>2, ChainCut
<1> QED
  BY <1>2, <1>3, <1>4, <1>6, <1>7, <1>9, <1>10, <1>11, Sizes DEF Steady

LEMMA SteadyRest ==
  ASSUME TypeInv, OnceInv, ChainInv, Confirm \/ Finalize \/ \E tx \in waiting : Expire(tx)
  PROVE  Steady
<1>1. blocks' = blocks
  BY DEF Confirm, Finalize, Expire
<1>2. \/ waiting' = waiting /\ expired' = expired
      \/ \E tx \in waiting : waiting' = waiting \ {tx} /\ expired' = expired \cup {tx}
  BY DEF Confirm, Finalize, Expire
<1>3. Taken' \subseteq Taken
  BY <1>1, <1>2 DEF Taken
<1>4. OnceInv'
  <2>1. \A ty, tz \in Taken' : ty.attempt = tz.attempt => ty = tz
    BY <1>3 DEF OnceInv
  <2> QED
    BY <1>1, <1>2, <2>1 DEF OnceInv
<1>5. confirmed' \in 0 .. Len(blocks') /\ rooted' \in 0 .. confirmed' /\ rooted <= rooted'
  <2>1. PICK l \in Nat, c \in Nat, r \in Nat : l = Len(blocks) /\ c = confirmed /\ r = rooted
    <3>1. Len(blocks) \in Nat /\ confirmed \in Nat /\ rooted \in Nat
      BY Sizes
    <3> QED
      BY <3>1
  <2>2. c <= l /\ r <= c
    BY <2>1, Sizes
  <2>3. \/ confirmed' = c /\ rooted' = r
        \/ c < l /\ confirmed' = c + 1 /\ rooted' = r
        \/ r < c /\ confirmed' = c /\ rooted' = r + 1
    BY <2>1 DEF Confirm, Finalize, Expire
  <2> QED
    BY <1>1, <2>1, <2>2, <2>3
<1>6. \A n : StateAt(n)' = StateAt(n)
  BY <1>1 DEF StateAt
<1>7. blocks' \in Seq(Block) /\ waiting' \subseteq Transaction /\ expired' \subseteq Transaction
  BY <1>1, <1>2, Sizes
<1>8. \A n \in 1 .. rooted : n \in DOMAIN blocks'
  BY <1>1, Sizes
<1> QED
  BY <1>1, <1>3, <1>4, <1>5, <1>6, <1>7, <1>8, ChainSame DEF Steady

LEMMA ClusterStep ==
  ASSUME IInv, ClusterMoves
  PROVE  UNCHANGED script /\ Steady
  BY ClusterCases, SteadyExtends, SteadyAbandon, SteadyRest DEF IInv

(* A verdict on what is final stays.                                       *)
LEMMA VerdictSame ==
  ASSUME NEW m, NEW n, StateAt(m)' = StateAt(m), StateAt(n)' = StateAt(n), NEW ask, NEW error
  PROVE  Verdict(ask, m, n, error)' <=> Verdict(ask, m, n, error)
<1>1. \A p : Snapshot(p, m)' = Snapshot(p, m) /\ Snapshot(p, n)' = Snapshot(p, n)
  BY DEF Snapshot
<1> QED
  BY <1>1 DEF Verdict

(* The report stays true, whatever the cluster does.                       *)
LEMMA KeptOn ==
  ASSUME TypeInv, Steady, UNCHANGED script, NEW k \in 1 .. Last, Kept(k)
  PROVE  Kept(k)'
<1>1. PICK a \in Attempt : a = Attempts[k]
  BY Recorded
<1>2. PICK m \in Nat, n \in Nat, r \in Nat : m = a.before /\ n = a.after /\ r = rooted
  BY Sizes DEF Attempt
<1>3. Attempts' = Attempts /\ Last' = Last
  BY DEF script, Attempts, Last
<1>4. m <= n /\ n <= r /\ \A j \in 1 .. k - 1 : Attempts[j].after <= m
  BY <1>1, <1>2 DEF Kept
<1>5. PICK q \in Nat : q = rooted' /\ r <= q
  BY <1>2 DEF Steady
<1>6. n <= q /\ \A i \in m + 1 .. r : i \in m + 1 .. q /\ i \in 1 .. r
  BY <1>4, <1>5
<1>7. StateAt(m)' = StateAt(m) /\ StateAt(n)' = StateAt(n)
  <2>1. m \in 0 .. confirmed /\ n \in 0 .. confirmed
    BY <1>2, <1>4, Sizes
  <2> QED
    BY <2>1 DEF Steady
<1>8. ASSUME a.error # "none"
      PROVE  /\ a.signature /\ (a.executed <=> a.error = "Ok")
             /\ \E i \in m + 1 .. q :
                  /\ blocks'[i].tx # NoTx /\ blocks'[i].tx.attempt = k
                  /\ blocks'[i].error = a.error
                  /\ a.passed => i <= n
  <2>1. PICK i \in m + 1 .. r :
          /\ blocks[i].tx # NoTx /\ blocks[i].tx.attempt = k /\ blocks[i].error = a.error
          /\ a.passed => i <= n
    BY <1>1, <1>2, <1>8 DEF Kept
  <2>2. blocks'[i] = blocks[i] /\ i \in m + 1 .. q
    BY <1>2, <1>6, <2>1 DEF Steady
  <2>3. a.signature /\ (a.executed <=> a.error = "Ok")
    BY <1>1, <1>8 DEF Kept
  <2> QED
    BY <2>1, <2>2, <2>3
<1>9. ASSUME a.passed
      PROVE  a.error # "none" /\ Verdict(Script[k], m, n, a.error)'
  <2>1. a.error # "none" /\ Verdict(Script[k], m, n, a.error)
    BY <1>1, <1>2, <1>9 DEF Kept
  <2> QED
    BY <1>7, <2>1, VerdictSame
<1>10. Script[k].kind = "swap" => There(Script[k].policy, StateAt(m)')
  BY <1>1, <1>2, <1>7 DEF Kept
<1> QED
  BY <1>1, <1>2, <1>3, <1>4, <1>5, <1>6, <1>8, <1>9, <1>10 DEF Kept

LEMMA ClusterKeeps ==
  ASSUME IInv, ClusterMoves
  PROVE  IInv'
<1>1. UNCHANGED script /\ Steady
  BY ClusterStep
<1>2. UNCHANGED <<pc, report, nonce>> /\ Attempts' = Attempts /\ Last' = Last
  BY <1>1 DEF script, Attempts, Last
<1>3. TypeInv
  BY DEF IInv
<1>4. TypeInv'
  <2>1. /\ pc' \in Places /\ nonce' \in Nat /\ Last' <= 18
        /\ report' \in [status: {"RUNNING", "FAILED", "PASSED"}, attempts: Seq(Attempt)]
    BY <1>2, <1>3 DEF TypeInv
  <2> QED
    BY <1>1, <2>1 DEF TypeInv, Steady
<1>5. PhaseInv'
  BY <1>2 DEF IInv, PhaseInv
<1>6. SentInv'
  <2>1. Tx' = Tx
    BY <1>2 DEF Tx
  <2> QED
    BY <1>1, <1>2, <2>1 DEF IInv, SentInv, Steady
<1>7. LandInv'
  <2> SUFFICES ASSUME NEW n \in DOMAIN blocks', blocks'[n].tx # NoTx
               PROVE  Attempts[blocks'[n].tx.attempt].before < n
    BY <1>2 DEF LandInv
  <2>1. CASE n \in DOMAIN blocks /\ blocks'[n] = blocks[n]
    BY <2>1 DEF IInv, LandInv
  <2>2. CASE n > Len(blocks)
    <3>1. PICK k : k = blocks'[n].tx.attempt
      OBVIOUS
    <3>2. blocks'[n].tx \in Taken'
      BY DEF Taken
    <3>3. k \in 1 .. Last
      BY <1>1, <3>1, <3>2 DEF IInv, SentInv, Steady
    <3>4. Attempts[k].before <= Attempts[k].after /\ Attempts[k].after <= rooted
      BY <3>3 DEF IInv, ReportInv, Kept
    <3>5. Attempts[k].before \in Nat /\ Attempts[k].after \in Nat
      BY <1>3, <3>3, Recorded DEF Attempt
    <3>6. n \in Nat /\ rooted \in Nat /\ Len(blocks) \in Nat /\ rooted <= Len(blocks)
      <4>1. n \in 1 .. Len(blocks')
        BY <1>1 DEF Steady
      <4> QED
        BY <1>3, <4>1, Sizes
    <3> QED
      BY <2>2, <3>1, <3>4, <3>5, <3>6
  <2> QED
    BY <1>1, <2>1, <2>2 DEF Steady
<1>8. ReportInv'
  BY <1>1, <1>2, <1>3, KeptOn DEF IInv, ReportInv
<1> QED
  BY <1>1, <1>4, <1>5, <1>6, <1>7, <1>8 DEF IInv, Steady

----------------------------------------------------------------------------
(* What the script does.                                                   *)

LEMMA CurrentType ==
  ASSUME TypeInv, Last >= 1
  PROVE  Tx \in Transaction /\ Tx # NoTx /\ Tx.attempt = Last /\ Last \in 1 .. Last
<1>1. Last \in 1 .. Last /\ nonce \in Nat
  <2>1. Last \in Nat
    BY Recorded
  <2> QED
    BY <2>1 DEF TypeInv
<1>2. Last \in 1 .. 18
  BY <1>1, Recorded
<1> QED
  BY <1>1, <1>2, NoTxIsNone DEF Tx, Transaction

(* Nothing of an attempt that is not announced is out.                     *)
LEMMA NothingOut ==
  ASSUME IInv, pc \in {"recorded", "simulated", "announced"}
  PROVE  \A tx \in Taken : tx.attempt # Last /\ tx # Tx
<1>1. \A tx \in Taken : tx.attempt # Last
  BY DEF IInv, SentInv
<1>2. Tx.attempt = Last
  BY DEF Tx
<1> QED
  BY <1>1, <1>2

(* A step of the script leaves the chain alone, and what it keeps of the   *)
(* report stays true.                                                      *)
LEMMA StillThere ==
  ASSUME UNCHANGED <<blocks, rooted>>
  PROVE  \A n : StateAt(n)' = StateAt(n)
  BY DEF StateAt

LEMMA KeptStill ==
  ASSUME TypeInv, UNCHANGED <<blocks, rooted>>, NEW k \in 1 .. Last, Kept(k),
         \A j \in 1 .. k : Attempts'[j] = Attempts[j]
  PROVE  Kept(k)'
<1>1. PICK a : a = Attempts[k] /\ a = Attempts'[k]
  BY Recorded
<1>2. /\ a.before <= a.after /\ a.after <= rooted'
      /\ \A j \in 1 .. k - 1 : Attempts'[j].after <= a.before
  <2>1. \A j \in 1 .. k - 1 : j \in 1 .. k
    BY Recorded
  <2> QED
    BY <1>1, <2>1 DEF Kept
<1>3. a.error # "none" =>
        /\ a.signature /\ (a.executed <=> a.error = "Ok")
        /\ \E n \in a.before + 1 .. rooted' :
             /\ blocks'[n].tx # NoTx /\ blocks'[n].tx.attempt = k /\ blocks'[n].error = a.error
             /\ a.passed => n <= a.after
  BY <1>1 DEF Kept
<1>4. a.passed => a.error # "none" /\ Verdict(Script[k], a.before, a.after, a.error)'
  BY <1>1, StillThere, VerdictSame DEF Kept
<1>5. Script[k].kind = "swap" => There(Script[k].policy, StateAt(a.before)')
  BY <1>1, StillThere DEF Kept
<1> QED
  BY <1>1, <1>2, <1>3, <1>4, <1>5 DEF Kept

(* What is left to show of a step that sends nothing and takes up nothing. *)
LEMMA ReportKeeps ==
  ASSUME IInv, UNCHANGED <<clusterVars, nonce>>, pc' \in Places,
         report' \in [status: {"RUNNING", "FAILED", "PASSED"}, attempts: Seq(Attempt)],
         Last' = Last, PhaseInv', ReportInv',
         \A k \in 1 .. Last : /\ Attempts'[k].before = Attempts[k].before
                              /\ Attempts[k].signature => Attempts'[k].signature,
         pc' \in {"recorded", "simulated", "announced"} =>
           pc \in {"recorded", "simulated", "announced"}
  PROVE  IInv'
<1>1. UNCHANGED <<blocks, confirmed, rooted, waiting, expired>> /\ Taken' = Taken
  BY DEF clusterVars, Taken
<1>2. TypeInv'
  BY <1>1 DEF IInv, TypeInv
<1>3. SentInv'
  <2>1. Tx' = Tx
    BY DEF Tx
  <2> QED
    BY <1>1, <2>1 DEF IInv, SentInv
<1>4. OnceInv'
  BY <1>1 DEF IInv, OnceInv
<1>5. LandInv'
  <2>1. \A n \in DOMAIN blocks : blocks[n].tx # NoTx => blocks[n].tx.attempt \in 1 .. Last
    BY DEF IInv, SentInv, Taken
  <2> QED
    BY <1>1, <2>1 DEF IInv, LandInv
<1>6. ChainInv'
  BY <1>1, ChainSame DEF IInv
<1> QED
  BY <1>2, <1>3, <1>4, <1>5, <1>6 DEF IInv

(* It ends: with success at the end of the script, otherwise with failure, *)
(* or without another word.                                                *)
LEMMA StopKeeps ==
  ASSUME IInv, UNCHANGED <<clusterVars, nonce>>, pc # "stopped", pc' = "stopped",
         Attempts' = Attempts,
         report' \in [status: {"RUNNING", "FAILED", "PASSED"}, attempts: Seq(Attempt)],
         report'.status = "PASSED" => pc = "next" /\ Last = 18
  PROVE  IInv'
<1>1. Last' = Last
  BY DEF Last
<1>2. PhaseInv'
  <2>1. \A k \in 1 .. Last : k < Last \/ pc = "next" => Attempts[k].passed
    BY DEF IInv, PhaseInv
  <2> QED
    BY <1>1, <2>1 DEF PhaseInv
<1>3. ReportInv'
  BY <1>1, KeptStill DEF IInv, ReportInv, clusterVars
<1> QED
  BY <1>1, <1>2, <1>3, ReportKeeps DEF Places

LEMMA ReportType ==
  ASSUME TypeInv
  PROVE  /\ report = [status |-> report.status, attempts |-> Attempts]
         /\ report.status \in {"RUNNING", "FAILED", "PASSED"} /\ Attempts \in Seq(Attempt)
         /\ report \in [status: {"RUNNING", "FAILED", "PASSED"}, attempts: Seq(Attempt)]
         /\ [report EXCEPT !.status = "FAILED"] = [status |-> "FAILED", attempts |-> Attempts]
         /\ [report EXCEPT !.status = "PASSED"] = [status |-> "PASSED", attempts |-> Attempts]
  BY DEF TypeInv, Attempts

LEMMA FailKeeps ==
  ASSUME IInv, UNCHANGED <<clusterVars, nonce>>, pc # "stopped", Fails
  PROVE  IInv'
<1>1. report' = [status |-> "FAILED", attempts |-> Attempts] /\ pc' = "stopped"
  BY ReportType DEF Fails, IInv
<1>2. Attempts' = Attempts
  BY <1>1 DEF Attempts
<1>3. report' \in [status: {"RUNNING", "FAILED", "PASSED"}, attempts: Seq(Attempt)]
  BY <1>1, ReportType DEF IInv
<1> QED
  BY <1>1, <1>2, <1>3, StopKeeps

LEMMA CrashKeeps ==
  ASSUME IInv, Crash
  PROVE  IInv'
<1>1. pc # "stopped" /\ pc' = "stopped" /\ UNCHANGED <<clusterVars, report, nonce>>
  BY DEF Crash
<1>2. report.status # "PASSED" /\ Attempts' = Attempts
  BY <1>1 DEF IInv, PhaseInv, Attempts
<1> QED
  BY <1>1, <1>2, ReportType, StopKeeps DEF IInv

LEMMA FinishKeeps ==
  ASSUME IInv, Finish
  PROVE  IInv'
<1>1. /\ pc = "next" /\ Last = 18 /\ pc' = "stopped" /\ UNCHANGED <<clusterVars, nonce>>
      /\ report' = [status |-> "PASSED", attempts |-> Attempts]
  BY ReportType, Plan DEF Finish, IInv
<1>2. Attempts' = Attempts
  BY <1>1 DEF Attempts
<1>3. report' \in [status: {"RUNNING", "FAILED", "PASSED"}, attempts: Seq(Attempt)]
  BY <1>1, ReportType DEF IInv
<1> QED
  BY <1>1, <1>2, <1>3, StopKeeps

LEMMA BeginKeeps ==
  ASSUME IInv, Begin
  PROVE  IInv'
<1>1. pc = "begin" /\ UNCHANGED <<clusterVars, nonce>>
  BY DEF Begin
<1>2. CASE Fails
  BY <1>1, <1>2, FailKeeps
<1>3. CASE pc' = "next" /\ UNCHANGED report
  <2>1. Attempts' = Attempts /\ Last' = Last /\ Last = 0
    BY <1>1, <1>3 DEF Attempts, Last, IInv, PhaseInv
  <2>2. report.status # "PASSED"
    BY <1>1 DEF IInv, PhaseInv
  <2>3. PhaseInv'
    BY <1>3, <2>1, <2>2 DEF PhaseInv
  <2>4. ReportInv'
    BY <2>1 DEF ReportInv
  <2>5. report' \in [status: {"RUNNING", "FAILED", "PASSED"}, attempts: Seq(Attempt)]
    BY <1>3, ReportType DEF IInv
  <2> QED
    BY <1>1, <1>3, <2>1, <2>3, <2>4, <2>5, ReportKeeps DEF Places
<1> QED
  BY <1>2, <1>3 DEF Begin

(* The attempt in hand is rewritten.                                       *)
Rewrites(a) ==
  /\ report'.attempts = [Attempts EXCEPT ![Last] = a]
  /\ report' \in [status: {"RUNNING", "FAILED", "PASSED"}, attempts: Seq(Attempt)]

LEMMA Rewriting ==
  ASSUME TypeInv, Last >= 1, NEW a \in Attempt,
         \/ report' = [report EXCEPT !.attempts[Last] = a]
         \/ report' = [report EXCEPT !.attempts[Last] = a, !.status = "FAILED"]
  PROVE  /\ Rewrites(a) /\ Attempts' \in Seq(Attempt) /\ Last' = Last /\ Last \in 1 .. Last
         /\ Attempts'[Last] = a /\ \A k \in 1 .. Last : k = Last \/ Attempts'[k] = Attempts[k]
         /\ report'.status \in {report.status, "FAILED"}
<1>1. PICK r, l : r = Attempts /\ l = Last
  OBVIOUS
<1>2. r \in Seq(Attempt) /\ l \in Nat /\ l >= 1 /\ DOMAIN r = 1 .. l /\ l = Len(r)
  BY <1>1, Recorded DEF Last
<1>3. PICK q : q = [r EXCEPT ![l] = a]
  OBVIOUS
<1>4. /\ q \in Seq(Attempt) /\ Len(q) = l /\ q[l] = a /\ l \in 1 .. l
      /\ \A k \in 1 .. l : k = l \/ q[k] = r[k]
  BY <1>2, <1>3
<1>5. PICK status : status = report.status
  OBVIOUS
<1>6. report = [status |-> status, attempts |-> r]
  BY <1>1, <1>5, ReportType
<1>7. report' = [status |-> status, attempts |-> q] \/ report' = [status |-> "FAILED", attempts |-> q]
  <2>1. \/ report' = [report EXCEPT !.attempts = q]
        \/ report' = [report EXCEPT !.attempts = q, !.status = "FAILED"]
    BY <1>1, <1>3 DEF Attempts
  <2> QED
    BY <1>6, <2>1
<1>8. Attempts' = q /\ report'.attempts = q /\ report'.status \in {status, "FAILED"}
  BY <1>7 DEF Attempts
<1>9. report' \in [status: {"RUNNING", "FAILED", "PASSED"}, attempts: Seq(Attempt)]
  <2>1. status \in {"RUNNING", "FAILED", "PASSED"}
    BY <1>5, ReportType
  <2> QED
    BY <1>4, <1>7, <2>1
<1> QED
  BY <1>1, <1>3, <1>4, <1>5, <1>8, <1>9 DEF Rewrites, Last

(* What is left to show of a step that rewrites it.                        *)
LEMMA RewriteKeeps ==
  ASSUME IInv, UNCHANGED <<clusterVars, nonce>>, pc' \in Places,
         NEW l \in Nat, l = Last, l >= 1, NEW a \in Attempt,
         \/ report' = [report EXCEPT !.attempts[Last] = a]
         \/ report' = [report EXCEPT !.attempts[Last] = a, !.status = "FAILED"],
         a.before = Attempts[Last].before, Attempts[Last].signature => a.signature,
         pc' \in {"recorded", "simulated", "announced"} =>
           pc \in {"recorded", "simulated", "announced"},
         PhaseInv', Kept(l)'
  PROVE  IInv'
<1>1. /\ Last' = Last /\ Last \in 1 .. Last
      /\ Attempts'[Last] = a /\ \A k \in 1 .. Last : k = Last \/ Attempts'[k] = Attempts[k]
      /\ report' \in [status: {"RUNNING", "FAILED", "PASSED"}, attempts: Seq(Attempt)]
  BY Rewriting DEF IInv, Rewrites
<1>2. ASSUME NEW k \in 1 .. Last PROVE Kept(k)'
  <2>1. CASE k = Last
    BY <1>1, <2>1
  <2>2. CASE k # Last
    <3>1. \A j \in 1 .. k : j \in 1 .. Last /\ j # Last
      BY <2>2
    <3> QED
      BY <1>1, <3>1, KeptStill DEF IInv, ReportInv, clusterVars
  <2> QED
    BY <2>1, <2>2
<1>3. ReportInv'
  BY <1>1, <1>2 DEF ReportInv
<1>4. \A k \in 1 .. Last : /\ Attempts'[k].before = Attempts[k].before
                           /\ Attempts[k].signature => Attempts'[k].signature
  BY <1>1
<1> QED
  BY <1>1, <1>3, <1>4, ReportKeeps

(* What the report had of the attempt in hand.                             *)
LEMMA InHand ==
  ASSUME IInv, pc \in {"recorded", "simulated", "announced", "sent", "landed"},
         NEW a, a = Attempts[Last]
  PROVE  /\ Last >= 1 /\ Last \in 1 .. Last /\ Last \in 1 .. 18
         /\ a \in Attempt /\ ~a.passed
         /\ a.signature <=> pc \notin {"recorded", "simulated"}
         /\ a.error # "none" <=> pc = "landed"
         /\ a.before <= a.after /\ a.after <= rooted
         /\ \A j \in 1 .. Last - 1 : Attempts[j].after <= a.before
         /\ Script[Last].kind = "swap" => There(Script[Last].policy, StateAt(a.before))
         /\ \A k \in 1 .. Last : k < Last => Attempts[k].passed
         /\ report.status # "PASSED"
<1>1. /\ Last >= 1 /\ ~a.passed
      /\ a.signature <=> pc \notin {"recorded", "simulated"}
      /\ a.error # "none" <=> pc = "landed"
      /\ \A k \in 1 .. Last : k < Last => Attempts[k].passed
      /\ report.status # "PASSED"
  BY DEF IInv, PhaseInv
<1>2. Last \in 1 .. Last /\ Last \in 1 .. 18
  <2>1. Last \in Nat
    BY Recorded DEF IInv
  <2>2. Last \in 1 .. Last
    BY <1>1, <2>1
  <2> QED
    BY <2>2, Recorded DEF IInv
<1>3. a \in Attempt /\ Kept(Last)
  BY <1>2, Recorded DEF IInv, ReportInv
<1> QED
  BY <1>1, <1>2, <1>3 DEF Kept

(* What is left to show of the attempt in hand.                            *)
LEMMA KeptHand ==
  ASSUME IInv, UNCHANGED <<blocks, rooted>>,
         pc \in {"recorded", "simulated", "announced", "sent", "landed"},
         NEW l \in Nat, l = Last, NEW b, Attempts'[l] = b,
         \A k \in 1 .. l : k = l \/ Attempts'[k] = Attempts[k],
         b.before = Attempts[l].before, b.before <= b.after, b.after <= rooted,
         b.error # "none" =>
           /\ b.signature /\ (b.executed <=> b.error = "Ok")
           /\ \E n \in b.before + 1 .. rooted :
                /\ blocks[n].tx # NoTx /\ blocks[n].tx.attempt = l /\ blocks[n].error = b.error
                /\ b.passed => n <= b.after,
         b.passed => b.error # "none" /\ Verdict(Script[l], b.before, b.after, b.error)
  PROVE  Kept(l)'
<1>1. /\ \A j \in 1 .. l - 1 : Attempts[j].after <= b.before
      /\ Script[l].kind = "swap" => There(Script[l].policy, StateAt(b.before))
  BY InHand
<1>2. \A j \in 1 .. l - 1 : Attempts'[j] = Attempts[j]
  BY InHand
<1>3. b.passed => b.error # "none" /\ Verdict(Script[l], b.before, b.after, b.error)'
  BY StillThere, VerdictSame
<1>4. Script[l].kind = "swap" => There(Script[l].policy, StateAt(b.before)')
  BY <1>1, StillThere
<1> QED
  BY <1>1, <1>2, <1>3, <1>4 DEF Kept

LEMMA SimulateKeeps ==
  ASSUME IInv, Simulate
  PROVE  IInv'
<1>1. PICK l \in Nat, a \in Attempt : l = Last /\ a = Attempts[l]
  BY InHand, Recorded DEF Simulate, IInv
<1>2. PICK b : b = [a EXCEPT !.result = IF Simulation(Tx) = "Ok" THEN "ALLOW" ELSE "DENY"]
  OBVIOUS
<1>3. /\ b \in Attempt /\ b.before = a.before /\ b.after = a.after /\ b.error = a.error
      /\ b.passed = a.passed /\ b.signature = a.signature
  BY <1>2 DEF Attempt
<1>4. /\ pc = "recorded" /\ UNCHANGED <<clusterVars, nonce>>
      /\ \/ report' = [report EXCEPT !.attempts[l] = b] /\ pc' = "simulated"
         \/ report' = [report EXCEPT !.attempts[l] = b, !.status = "FAILED"] /\ pc' = "stopped"
  BY <1>1, <1>2 DEF Simulate, Saves
<1>5. /\ l >= 1 /\ l \in 1 .. l /\ ~a.passed /\ ~a.signature /\ a.error = "none"
      /\ a.before <= a.after /\ a.after <= rooted
      /\ \A k \in 1 .. l : k < l => Attempts[k].passed
      /\ report.status # "PASSED"
  BY <1>1, <1>4, InHand
<1>6. /\ Last' = l /\ Attempts'[l] = b /\ \A k \in 1 .. l : k = l \/ Attempts'[k] = Attempts[k]
      /\ report'.status \in {report.status, "FAILED"}
  BY <1>1, <1>3, <1>4, <1>5, Rewriting DEF IInv
<1>7. PhaseInv'
  BY <1>3, <1>4, <1>5, <1>6 DEF PhaseInv
<1>8. Kept(l)'
  BY <1>1, <1>3, <1>4, <1>5, <1>6, KeptHand DEF clusterVars
<1> QED
  BY <1>1, <1>3, <1>4, <1>5, <1>7, <1>8, RewriteKeeps DEF Places

LEMMA AnnounceKeeps ==
  ASSUME IInv, Announce
  PROVE  IInv'
<1>1. PICK l \in Nat, a \in Attempt : l = Last /\ a = Attempts[l]
  BY InHand, Recorded DEF Announce, IInv
<1>2. PICK b : b = [a EXCEPT !.signature = TRUE]
  OBVIOUS
<1>3. /\ b \in Attempt /\ b.before = a.before /\ b.after = a.after /\ b.error = a.error
      /\ b.passed = a.passed /\ b.signature
  BY <1>2 DEF Attempt
<1>4. /\ pc = "simulated" /\ UNCHANGED <<clusterVars, nonce>>
      /\ report' = [report EXCEPT !.attempts[l] = b] /\ pc' = "announced"
  BY <1>1, <1>2 DEF Announce, Saves, Signed
<1>5. /\ l >= 1 /\ l \in 1 .. l /\ ~a.passed /\ a.error = "none"
      /\ a.before <= a.after /\ a.after <= rooted
      /\ \A k \in 1 .. l : k < l => Attempts[k].passed
      /\ report.status # "PASSED"
  BY <1>1, <1>4, InHand
<1>6. /\ Last' = l /\ Attempts'[l] = b /\ \A k \in 1 .. l : k = l \/ Attempts'[k] = Attempts[k]
      /\ report'.status \in {report.status, "FAILED"}
  BY <1>1, <1>3, <1>4, <1>5, Rewriting DEF IInv
<1>7. PhaseInv'
  BY <1>3, <1>4, <1>5, <1>6 DEF PhaseInv
<1>8. Kept(l)'
  BY <1>1, <1>3, <1>4, <1>5, <1>6, KeptHand DEF clusterVars
<1> QED
  BY <1>1, <1>3, <1>4, <1>5, <1>7, <1>8, RewriteKeeps DEF Places

LEMMA ObserveKeeps ==
  ASSUME IInv, Observe
  PROVE  IInv'
<1>1. PICK l \in Nat, a \in Attempt : l = Last /\ a = Attempts[l]
  BY InHand, Recorded DEF Observe, IInv
<1>2. PICK n \in DOMAIN blocks :
        /\ n \in 1 .. rooted /\ blocks[n].tx = Tx
        /\ report' = [report EXCEPT !.attempts[l] =
             [a EXCEPT !.error = blocks[n].error, !.executed = Executed(blocks[n].error),
                       !.signature = Signed("landed")]]
  BY <1>1 DEF Observe, Saves, Settled
<1>3. PICK error : error = blocks[n].error
  OBVIOUS
<1>4. error \in Answers /\ error # "none"
  BY <1>3, Sizes DEF IInv, Block, Answers, Errors
<1>5. PICK b : b = [a EXCEPT !.error = error, !.executed = (error = "Ok"), !.signature = TRUE]
  OBVIOUS
<1>6. /\ b \in Attempt /\ b.before = a.before /\ b.after = a.after /\ b.error = error
      /\ b.passed = a.passed /\ b.signature /\ (b.executed <=> error = "Ok")
  BY <1>4, <1>5 DEF Attempt
<1>7. /\ pc = "sent" /\ pc' = "landed" /\ UNCHANGED <<clusterVars, nonce>>
      /\ report' = [report EXCEPT !.attempts[l] = b]
  BY <1>2, <1>3, <1>5 DEF Observe, Executed, Signed
<1>8. /\ l >= 1 /\ l \in 1 .. l /\ ~a.passed
      /\ a.before <= a.after /\ a.after <= rooted
      /\ \A k \in 1 .. l : k < l => Attempts[k].passed
      /\ report.status # "PASSED"
  BY <1>1, <1>7, InHand
<1>9. /\ Last' = l /\ Attempts'[l] = b /\ \A k \in 1 .. l : k = l \/ Attempts'[k] = Attempts[k]
      /\ report'.status \in {report.status, "FAILED"}
  BY <1>1, <1>6, <1>7, <1>8, Rewriting DEF IInv
<1>10. PhaseInv'
  BY <1>4, <1>6, <1>7, <1>8, <1>9 DEF PhaseInv
<1>11. /\ n \in b.before + 1 .. rooted /\ blocks[n].tx # NoTx /\ blocks[n].tx.attempt = l
       /\ blocks[n].error = b.error
  <2>1. Tx # NoTx /\ Tx.attempt = l
    BY <1>1, <1>8, CurrentType DEF IInv
  <2>2. a.before < n
    BY <1>1, <1>2, <2>1 DEF IInv, LandInv
  <2>3. a.before \in Nat /\ n \in Nat /\ rooted \in Nat
    BY <1>2, Sizes DEF Attempt, IInv
  <2>4. n \in a.before + 1 .. rooted
    BY <1>2, <2>2, <2>3
  <2> QED
    BY <1>2, <1>3, <1>6, <2>1, <2>4
<1>12. Kept(l)'
  BY <1>1, <1>6, <1>7, <1>8, <1>9, <1>11, KeptHand DEF clusterVars
<1> QED
  BY <1>1, <1>6, <1>7, <1>8, <1>10, <1>12, RewriteKeeps DEF Places

LEMMA ExamineKeeps ==
  ASSUME IInv, Examine
  PROVE  IInv'
<1>1. PICK l \in Nat, a \in Attempt : l = Last /\ a = Attempts[l]
  BY InHand, Recorded DEF Examine, IInv
<1>2. PICK passed \in BOOLEAN : passed = Verdict(Script[l], a.before, rooted, a.error)
  <2>1. Verdict(Script[l], a.before, rooted, a.error) \in BOOLEAN
    BY DEF Verdict
  <2> QED
    BY <2>1
<1>3. PICK r \in Nat : r = rooted
  BY Sizes DEF IInv
<1>4. PICK b : b = [a EXCEPT !.after = r, !.passed = passed]
  OBVIOUS
<1>5. /\ b \in Attempt /\ b.before = a.before /\ b.after = r /\ b.error = a.error
      /\ b.passed = passed /\ b.signature = a.signature /\ b.executed = a.executed
  <2>1. PICK c : c = [a EXCEPT !.after = r]
    OBVIOUS
  <2>2. /\ c \in Attempt /\ c.before = a.before /\ c.after = r /\ c.error = a.error
        /\ c.signature = a.signature /\ c.executed = a.executed
    BY <2>1 DEF Attempt
  <2>3. b = [c EXCEPT !.passed = passed]
    BY <1>4, <2>1 DEF Attempt
  <2> QED
    BY <2>2, <2>3 DEF Attempt
<1>6. /\ pc = "landed" /\ UNCHANGED <<clusterVars, nonce>>
      /\ \/ passed /\ report' = [report EXCEPT !.attempts[l] = b] /\ pc' = "next"
         \/ report' = [report EXCEPT !.attempts[l] = b, !.status = "FAILED"] /\ pc' = "stopped"
  <2>1. b = [a EXCEPT !.after = rooted, !.passed = Verdict(Script[l], a.before, rooted, a.error)]
    BY <1>2, <1>3, <1>4
  <2> QED
    BY <1>1, <1>2, <2>1 DEF Examine, Saves, Ask
<1>7. /\ l >= 1 /\ l \in 1 .. l /\ a.signature /\ a.error # "none"
      /\ a.before <= a.after /\ a.after <= rooted
      /\ \A k \in 1 .. l : k < l => Attempts[k].passed
      /\ report.status # "PASSED"
  BY <1>1, <1>6, InHand
<1>8. /\ Last' = l /\ Attempts'[l] = b /\ \A k \in 1 .. l : k = l \/ Attempts'[k] = Attempts[k]
      /\ report'.status \in {report.status, "FAILED"}
  BY <1>1, <1>5, <1>6, <1>7, Rewriting DEF IInv
<1>9. PhaseInv'
  BY <1>5, <1>6, <1>7, <1>8 DEF PhaseInv
<1>10. PICK n \in a.before + 1 .. rooted :
         blocks[n].tx # NoTx /\ blocks[n].tx.attempt = l /\ blocks[n].error = a.error
  BY <1>1, <1>7 DEF IInv, ReportInv, Kept
<1>11. n <= r /\ a.before <= r
  <2>1. a.before \in Nat /\ a.after \in Nat
    BY DEF Attempt
  <2> QED
    BY <1>3, <1>7, <1>10, <2>1
<1>12. a.executed <=> a.error = "Ok"
  BY <1>1, <1>7 DEF IInv, ReportInv, Kept
<1>13. Kept(l)'
  <2>1. b.before <= b.after /\ b.after <= rooted /\ b.before = Attempts[l].before
    BY <1>1, <1>3, <1>5, <1>11
  <2>2. /\ b.signature /\ (b.executed <=> b.error = "Ok")
        /\ \E i \in b.before + 1 .. rooted :
             /\ blocks[i].tx # NoTx /\ blocks[i].tx.attempt = l /\ blocks[i].error = b.error
             /\ b.passed => i <= b.after
    BY <1>5, <1>7, <1>10, <1>11, <1>12
  <2>3. b.passed => b.error # "none" /\ Verdict(Script[l], b.before, b.after, b.error)
    BY <1>2, <1>3, <1>5, <1>7
  <2> QED
    BY <1>1, <1>6, <1>8, <2>1, <2>2, <2>3, KeptHand DEF clusterVars
<1> QED
  BY <1>1, <1>5, <1>6, <1>7, <1>9, <1>13, RewriteKeeps DEF Places

(* Its transaction goes out, whether the script learns of it or not.       *)
LEMMA Offered ==
  ASSUME IInv, pc = "announced", Accept(Tx)
  PROVE  /\ Tx \in Transaction /\ Tx # NoTx /\ Tx \notin Taken /\ Tx.attempt = Last
         /\ waiting' = waiting \cup {Tx} /\ Taken' = Taken \cup {Tx}
         /\ UNCHANGED <<blocks, confirmed, rooted, expired>>
<1>1. /\ Tx \in Transaction /\ Tx # NoTx /\ Tx.attempt = Last
  BY InHand, CurrentType DEF IInv
<1>2. Tx \notin Taken /\ Accepted = Taken
  BY NothingOut DEF Accepted, Landed, Taken
<1>3. waiting' = waiting \cup {Tx} /\ UNCHANGED <<blocks, confirmed, rooted, expired>>
  BY <1>2 DEF Accept
<1>4. Taken' = Taken \cup {Tx}
  BY <1>3 DEF Taken
<1> QED
  BY <1>1, <1>2, <1>3, <1>4

LEMMA OfferKeeps ==
  ASSUME IInv, pc = "announced", Accept(Tx), nonce' = nonce,
         pc' = "sent" \/ pc' = "stopped", Attempts' = Attempts,
         report' \in [status: {"RUNNING", "FAILED", "PASSED"}, attempts: Seq(Attempt)],
         report'.status # "PASSED"
  PROVE  IInv'
<1>1. /\ Tx \in Transaction /\ Tx # NoTx /\ Tx \notin Taken /\ Tx.attempt = Last
      /\ waiting' = waiting \cup {Tx} /\ Taken' = Taken \cup {Tx}
      /\ UNCHANGED <<blocks, confirmed, rooted, expired>>
  BY Offered
<1>2. PICK l \in Nat : l = Last
  BY Recorded DEF IInv
<1>3. PICK a : a = Attempts[l]
  OBVIOUS
<1>4. /\ l >= 1 /\ l \in 1 .. l /\ ~a.passed /\ a.signature /\ a.error = "none"
      /\ \A k \in 1 .. l : k < l => Attempts[k].passed
  BY <1>2, <1>3, InHand
<1>5. Last' = l /\ Tx' = Tx
  BY <1>2 DEF Last, Tx
<1>6. TypeInv'
  BY <1>1, <1>2, <1>5 DEF IInv, TypeInv, Places
<1>7. PhaseInv'
  BY <1>2, <1>3, <1>4, <1>5 DEF PhaseInv
<1>8. SentInv'
  BY <1>1, <1>2, <1>3, <1>4, <1>5 DEF IInv, SentInv
<1>9. OnceInv'
  <2>1. \A tx \in Taken : tx.attempt # Last
    BY NothingOut
  <2>2. \A tx, ty \in Taken' : tx.attempt = ty.attempt => tx = ty
    BY <1>1, <2>1 DEF IInv, OnceInv
  <2>3. waiting' \cap expired' = {}
    BY <1>1 DEF IInv, OnceInv, Taken
  <2>4. \A n \in DOMAIN blocks' : blocks'[n].tx \notin waiting' \cup expired'
    BY <1>1 DEF IInv, OnceInv, Taken
  <2> QED
    BY <1>1, <2>2, <2>3, <2>4 DEF IInv, OnceInv
<1>10. LandInv'
  BY <1>1 DEF IInv, LandInv
<1>11. ChainInv'
  BY <1>1, ChainSame DEF IInv
<1>12. ReportInv'
  BY <1>1, <1>2, <1>5, KeptStill DEF IInv, ReportInv
<1> QED
  BY <1>6, <1>7, <1>8, <1>9, <1>10, <1>11, <1>12 DEF IInv

LEMMA SendKeeps ==
  ASSUME IInv, Send
  PROVE  IInv'
<1>1. CASE Admitted
  <2>1. pc = "announced" /\ Accept(Tx) /\ pc' = "sent" /\ UNCHANGED <<report, nonce>>
    BY <1>1 DEF Send
  <2>2. Attempts' = Attempts /\ report.status # "PASSED"
    BY <2>1, InHand DEF Attempts
  <2> QED
    BY <2>1, <2>2, ReportType, OfferKeeps DEF IInv
<1>2. CASE ~Admitted
  BY <1>2, FailKeeps DEF Send
<1> QED
  BY <1>1, <1>2

LEMMA AnswerLostKeeps ==
  ASSUME IInv, AnswerLost
  PROVE  IInv'
<1>1. pc = "announced" /\ Accept(Tx) /\ Fails /\ nonce' = nonce
  BY DEF AnswerLost
<1>2. report' = [status |-> "FAILED", attempts |-> Attempts] /\ pc' = "stopped"
  BY <1>1, ReportType DEF Fails, IInv
<1>3. Attempts' = Attempts /\ report'.status # "PASSED"
  BY <1>2 DEF Attempts
<1>4. report' \in [status: {"RUNNING", "FAILED", "PASSED"}, attempts: Seq(Attempt)]
  BY <1>2, ReportType DEF IInv
<1> QED
  BY <1>1, <1>2, <1>3, <1>4, OfferKeeps

(* The policy of the next attempt is there when it is taken up.            *)
LEMMA Ready ==
  ASSUME IInv, pc = "next", NEW k \in 1 .. 18, k = Last + 1, Script[k].kind = "swap"
  PROVE  /\ Script[k].policy \in Policies /\ There(Script[k].policy, StateAt(rooted))
         /\ StateAt(rooted).policies[Script[k].policy].nonce \in Nat
<1>1. PICK p \in Policies : p = Script[k].policy
  BY Plan DEF ASwap, ACreation, ARevocation
<1>2. PICK l \in Nat : l = Last
  BY Recorded DEF IInv
<1>3. StateAt(rooted) \in Accounts
  BY Sizes, StateType DEF IInv
<1>4. CASE p = "main"
  BY <1>1, <1>3, <1>4 DEF Accounts, There, Policy
<1>5. CASE p # "main"
  <2>1. PICK j \in 1 .. k - 1 : Script[j].kind = "create" /\ Script[j].policy = p
    BY <1>1, <1>5, Prepared
  <2>2. j \in 1 .. l
    BY <1>2, <2>1
  <2>3. PICK n \in Nat : n = Attempts[j].after
    BY <1>2, <2>2, Recorded DEF IInv, Attempt
  <2>4. PICK m : m = Attempts[j].before
    OBVIOUS
  <2>5. Attempts[j].passed
    BY <1>2, <2>2 DEF IInv, PhaseInv
  <2>6. n <= rooted /\ Verdict(Script[j], m, n, Attempts[j].error)
    BY <1>2, <2>2, <2>3, <2>4, <2>5 DEF IInv, ReportInv, Kept
  <2>7. StateAt(n).policies[p] = APolicy(Script[j].token_allowed, Script[j].expires_at)
    BY <2>1, <2>6 DEF Verdict
  <2>8. ACreation(Script[j])
    <3>1. j \in 1 .. 18
      BY <1>2, <2>2, Recorded DEF IInv
    <3> QED
      BY <2>1, <3>1, Plan DEF ASwap, ARevocation
  <2>9. There(p, StateAt(n))
    BY <2>7, <2>8 DEF There, ACreation, APolicy, Policy
  <2>10. Grows(StateAt(n), StateAt(rooted))
    <3>1. rooted \in 0 .. Len(blocks) /\ rooted \in Nat /\ Len(blocks) \in Nat
      BY Sizes DEF IInv
    <3>2. n \in 0 .. Len(blocks)
      BY <2>3, <2>6, <3>1
    <3> QED
      BY <2>6, <3>1, <3>2 DEF IInv, ChainInv
  <2>11. There(p, StateAt(rooted))
    BY <2>9, <2>10 DEF Grows
  <2> QED
    BY <1>1, <2>11 DEF There, Policy
<1> QED
  BY <1>4, <1>5

LEMMA RecordKeeps ==
  ASSUME IInv, Record
  PROVE  IInv'
<1>1. PICK l \in Nat, r \in Nat, k \in Nat : l = Last /\ r = rooted /\ k = l + 1
  BY Recorded, Sizes DEF IInv
<1>2. /\ pc = "next" /\ l < 18 /\ pc' = "recorded"
      /\ UNCHANGED clusterVars
  BY <1>1, Plan DEF Record
<1>3. k \in 1 .. 18 /\ k - 1 = l /\ ~(k <= l) /\ \A i \in 1 .. k : i \in 1 .. l \/ i = k
  BY <1>1, <1>2
<1>4. Script[k].kind = "swap" =>
        /\ Script[k].policy \in Policies /\ There(Script[k].policy, StateAt(r))
        /\ StateAt(r).policies[Script[k].policy].nonce \in Nat
  BY <1>1, <1>2, <1>3, Ready
<1>5. nonce' \in Nat
  <2>1. nonce' = IF Script[k].kind = "swap" /\ Script[k].nonce = "policy"
                 THEN StateAt(r).policies[Script[k].policy].nonce ELSE 0
    BY <1>1 DEF Record
  <2> QED
    BY <1>4, <2>1
<1>6. PICK a : a = [result |-> "PENDING", signature |-> FALSE, error |-> "none",
                    executed |-> FALSE, before |-> r, after |-> r, passed |-> FALSE]
  OBVIOUS
<1>7. /\ a \in Attempt /\ ~a.signature /\ a.error = "none" /\ ~a.passed
      /\ a.before = r /\ a.after = r
  BY <1>6 DEF Attempt
<1>8. report' = [status |-> report.status, attempts |-> Append(Attempts, a)]
  <2>1. report' = [report EXCEPT !.attempts = Append(Attempts, a)]
    BY <1>1, <1>6 DEF Record, Attempts
  <2> QED
    BY <2>1, ReportType DEF IInv
<1>9. /\ Attempts' \in Seq(Attempt) /\ Last' = k
      /\ Attempts'[k] = a /\ \A i \in 1 .. l : Attempts'[i] = Attempts[i]
  <2>1. Attempts' = Append(Attempts, a)
    BY <1>8 DEF Attempts
  <2>2. PICK s \in Seq(Attempt) : s = Attempts /\ Len(s) = l
    BY <1>1, Recorded DEF IInv, Last
  <2>3. PICK t : t = Append(s, a)
    OBVIOUS
  <2>4. t \in Seq(Attempt) /\ Len(t) = k /\ t[k] = a /\ \A i \in 1 .. l : t[i] = s[i]
    BY <1>1, <1>7, <2>2, <2>3
  <2> QED
    BY <2>1, <2>2, <2>3, <2>4 DEF Last
<1>10. /\ report' \in [status: {"RUNNING", "FAILED", "PASSED"}, attempts: Seq(Attempt)]
       /\ report'.status = report.status
  BY <1>7, <1>8, ReportType DEF IInv
<1>11. UNCHANGED <<blocks, confirmed, rooted, waiting, expired>> /\ Taken' = Taken
  BY <1>2 DEF clusterVars, Taken
<1>12. TypeInv'
  BY <1>2, <1>3, <1>5, <1>9, <1>10, <1>11 DEF IInv, TypeInv, Places
<1>13. PhaseInv'
  <2>1. \A i \in 1 .. l : Attempts[i].passed
    BY <1>1, <1>2 DEF IInv, PhaseInv
  <2>2. report.status # "PASSED"
    BY <1>2 DEF IInv, PhaseInv
  <2> QED
    BY <1>2, <1>3, <1>7, <1>9, <1>10, <2>1, <2>2 DEF PhaseInv
<1>14. SentInv'
  BY <1>1, <1>3, <1>9, <1>11 DEF IInv, SentInv
<1>15. OnceInv'
  BY <1>11 DEF IInv, OnceInv
<1>16. LandInv'
  <2>1. \A n \in DOMAIN blocks : blocks[n].tx # NoTx => blocks[n].tx.attempt \in 1 .. l
    BY <1>1 DEF IInv, SentInv, Taken
  <2> QED
    BY <1>9, <1>11, <2>1 DEF IInv, LandInv
<1>17. ChainInv'
  BY <1>11, ChainSame DEF IInv
<1>18. Kept(k)'
  <2>1. \A j \in 1 .. l : Attempts[j].after <= r
    BY <1>1 DEF IInv, ReportInv, Kept
  <2>2. StateAt(r)' = StateAt(r)
    BY <1>11, StillThere
  <2>3. r <= r /\ rooted' = r
    BY <1>1, <1>11
  <2> QED
    BY <1>3, <1>4, <1>7, <1>9, <2>1, <2>2, <2>3 DEF Kept
<1>19. ReportInv'
  <2>1. ASSUME NEW i \in 1 .. l PROVE Kept(i)'
    <3>1. \A j \in 1 .. i : j \in 1 .. l
      OBVIOUS
    <3> QED
      BY <1>1, <1>9, <1>11, <3>1, KeptStill DEF IInv, ReportInv
  <2> QED
    BY <1>3, <1>9, <1>18, <2>1 DEF ReportInv
<1> QED
  BY <1>12, <1>13, <1>14, <1>15, <1>16, <1>17, <1>19 DEF IInv

----------------------------------------------------------------------------
LEMMA Starts == Init => IInv
<1> SUFFICES ASSUME Init PROVE IInv
  OBVIOUS
<1>1. /\ blocks = <<>> /\ confirmed = 0 /\ rooted = 0 /\ waiting = {} /\ expired = {}
      /\ pc = "begin" /\ report = [status |-> "RUNNING", attempts |-> <<>>] /\ nonce = 0
  BY DEF Init, ClusterInit
<1>2. Attempts = <<>> /\ Last = 0
  BY <1>1 DEF Attempts, Last
<1>3. TypeInv
  BY <1>1, <1>2 DEF TypeInv, Places
<1>4. Taken = {}
  BY <1>1 DEF Taken
<1>5. ChainInv
  <2>1. StateAt(0) \in Accounts
    BY <1>1, <1>3, StateType
  <2>2. Grows(StateAt(0), StateAt(0))
    <3>1. PICK s \in Accounts : s = StateAt(0)
      BY <2>1
    <3>2. /\ s.tokens["main"] <= s.tokens["main"]
          /\ s.tokens["recipient"] <= s.tokens["recipient"]
          /\ s.tokens["attacker"] <= s.tokens["attacker"]
      BY Figures
    <3> QED
      BY <3>1, <3>2, GrowsSame
  <2> QED
    BY <1>1, <2>2 DEF ChainInv
<1>6. PhaseInv /\ SentInv /\ OnceInv /\ LandInv /\ ReportInv
  BY <1>1, <1>2, <1>4 DEF PhaseInv, SentInv, OnceInv, LandInv, ReportInv
<1> QED
  BY <1>3, <1>5, <1>6 DEF IInv

LEMMA Rests == IInv /\ UNCHANGED vars => IInv'
<1> SUFFICES ASSUME IInv, UNCHANGED vars PROVE IInv'
  OBVIOUS
<1>1. UNCHANGED <<clusterVars, pc, report, nonce>> /\ Attempts' = Attempts /\ Last' = Last
  BY DEF vars, Attempts, Last
<1>2. PhaseInv'
  BY <1>1 DEF IInv, PhaseInv
<1>3. ReportInv'
  BY <1>1, KeptStill DEF IInv, ReportInv, clusterVars
<1>4. pc' \in Places
       /\ report' \in [status: {"RUNNING", "FAILED", "PASSED"}, attempts: Seq(Attempt)]
  BY <1>1 DEF IInv, TypeInv
<1> QED
  BY <1>1, <1>2, <1>3, <1>4, ReportKeeps

LEMMA RunKeeps ==
  ASSUME IInv, Run
  PROVE  IInv'
<1>1. CASE CallFails \/ GiveUp
  <2>1. Fails /\ pc # "stopped" /\ UNCHANGED <<clusterVars, nonce>>
    BY <1>1 DEF CallFails, GiveUp
  <2> QED
    BY <2>1, FailKeeps
<1> QED
  BY <1>1, BeginKeeps, RecordKeeps, SimulateKeeps, AnnounceKeeps, SendKeeps,
     AnswerLostKeeps, ObserveKeeps, ExamineKeeps, FinishKeeps DEF Run

(* The invariant is inductive.                                             *)
THEOREM Invariant == Spec => []IInv
<1>1. IInv /\ [Next]_vars => IInv'
  <2> SUFFICES ASSUME IInv, [Next]_vars PROVE IInv'
    OBVIOUS
  <2>1. CASE ClusterMoves
    BY <2>1, ClusterKeeps
  <2> QED
    BY <2>1, RunKeeps, CrashKeeps, Rests DEF Next, ClusterMoves
<1> QED
  BY Starts, <1>1, PTL DEF Spec

----------------------------------------------------------------------------
(* A timed-out request does not erase an admitted attempt: whatever the    *)
(* node took is in the report on disk, EveryBroadcastReported of           *)
(* VerifyRun.                                                              *)
THEOREM Reported == Spec => []EveryBroadcastReported
<1>1. IInv => EveryBroadcastReported
  <2> SUFFICES ASSUME IInv PROVE EveryBroadcastReported
    OBVIOUS
  <2>1. Accepted = Taken
    BY DEF Accepted, Landed, Taken
  <2>2. DOMAIN Attempts = 1 .. Last
    BY Recorded DEF IInv
  <2> QED
    BY <2>1, <2>2 DEF EveryBroadcastReported, IInv, SentInv
<1> QED
  BY Invariant, <1>1, PTL

----------------------------------------------------------------------------
(* What the report says of an attempt is so.                               *)

(* An attempt's outcome is that of the one block its transaction is in.    *)
LEMMA Told ==
  ASSUME IInv, NEW k \in 1 .. Last, Attempts[k].error # "none"
  PROVE  \E n \in 1 .. rooted :
           /\ n \in Attempts[k].before + 1 .. rooted
           /\ blocks[n].tx # NoTx /\ blocks[n].tx.attempt = k
           /\ blocks[n].error = Attempts[k].error
           /\ \A m \in DOMAIN blocks : blocks[m].tx # NoTx /\ blocks[m].tx.attempt = k => m = n
           /\ Attempts[k].passed => n <= Attempts[k].after
<1>1. PICK a \in Attempt : a = Attempts[k]
  BY Recorded DEF IInv
<1>2. PICK b \in Nat, r \in Nat : b = a.before /\ r = rooted
  BY Sizes DEF IInv, Attempt
<1>3. PICK n \in b + 1 .. r :
        /\ blocks[n].tx # NoTx /\ blocks[n].tx.attempt = k /\ blocks[n].error = a.error
        /\ a.passed => n <= a.after
  BY <1>1, <1>2 DEF IInv, ReportInv, Kept
<1>4. n \in 1 .. r /\ n \in DOMAIN blocks
  <2>1. n \in 1 .. r
    BY <1>2, <1>3
  <2> QED
    BY <1>2, <2>1, Sizes DEF IInv
<1>5. \A m \in DOMAIN blocks : blocks[m].tx # NoTx /\ blocks[m].tx.attempt = k => m = n
  <2>1. \A m \in DOMAIN blocks : blocks[m].tx # NoTx => blocks[m].tx \in Taken
    BY DEF Taken
  <2> QED
    BY <1>3, <1>4, <2>1 DEF IInv, OnceInv
<1> QED
  BY <1>1, <1>2, <1>3, <1>4, <1>5

LEMMA OutcomeTrue ==
  ASSUME IInv, NEW k \in 1 .. Last, NEW a, a = Attempts[k], a.error # "none"
  PROVE  /\ a.error = "Ok" => EffectOf(k) = "applied"
         /\ a.error # "Ok" => EffectOf(k) = "void"
         /\ a.executed <=> a.error = "Ok"
<1>1. PICK n \in 1 .. rooted :
        /\ blocks[n].tx # NoTx /\ blocks[n].tx.attempt = k /\ blocks[n].error = a.error
        /\ \A m \in DOMAIN blocks : blocks[m].tx # NoTx /\ blocks[m].tx.attempt = k => m = n
  BY Told
<1>2. \A m \in 1 .. rooted : m \in DOMAIN blocks
  BY Sizes DEF IInv
<1>3. a.executed <=> a.error = "Ok"
  BY DEF IInv, ReportInv, Kept
<1> QED
  BY <1>1, <1>2, <1>3 DEF EffectOf, Failed

(* Between two snapshots that tell of no act of others, none happened that *)
(* they would show.                                                        *)
LEMMA Unseen ==
  ASSUME NEW s \in Accounts, NEW t \in Accounts, NEW u \in Accounts, NEW v \in Accounts,
         Grows(s, t), Marks(t, u), Grows(u, v), NEW p \in Policies,
         p = "main" => /\ Gift(s) = Gift(v) /\ Held(s) = Held(v)
                       /\ Main(s).active => Main(v).active
                       /\ ~(Main(t).nonce < Main(u).nonce),
         p # "main" => s.tokens["recipient"] = v.tokens["recipient"],
         s.tokens["attacker"] = v.tokens["attacker"]
  PROVE  Seen(p, t) = Seen(p, u)
<1>1. ASSUME NEW z \in Accounts
      PROVE  Held(z) \in Int /\ Gift(z) \in Int /\ z.tokens["recipient"] \in Int
  <2>1. PICK m \in Nat, x \in Int, y \in Int :
          m = Main(z).spent /\ x = z.tokens["main"] /\ y = z.tokens["recipient"]
    BY Figures
  <2> QED
    BY <2>1 DEF Held, Gift, RATE
<1>2. ~(t.tokens["attacker"] < u.tokens["attacker"])
  <2>1. PICK w \in Int, x \in Int, y \in Int :
          /\ w = s.tokens["attacker"] /\ w = v.tokens["attacker"]
          /\ x = t.tokens["attacker"] /\ y = u.tokens["attacker"] /\ w <= x /\ y <= w
    BY Figures DEF Grows
  <2> QED
    BY ONLY <2>1
<1>3. CASE p = "main"
  <2>1. PICK h \in Int, i \in Int, j \in Int :
          h = Held(s) /\ h = Held(v) /\ i = Held(t) /\ j = Held(u) /\ h <= i /\ j <= h
    BY <1>1, <1>3 DEF Grows
  <2>2. ~(Held(t) < Held(u))
    BY ONLY <2>1
  <2>3. PICK g \in Int, k \in Int, l \in Int :
          g = Gift(s) /\ g = Gift(v) /\ k = Gift(t) /\ l = Gift(u) /\ g <= k /\ l <= g
    BY <1>1, <1>3 DEF Grows
  <2>4. ~(Gift(t) < Gift(u))
    BY ONLY <2>3
  <2>5. ~(Main(t).active /\ ~Main(u).active)
    BY <1>3 DEF Grows
  <2> QED
    BY <1>2, <1>3, <2>2, <2>4, <2>5 DEF Marks
<1>4. CASE p # "main"
  <2>1. PICK w \in Int, x \in Int, y \in Int :
          /\ w = s.tokens["recipient"] /\ w = v.tokens["recipient"]
          /\ x = t.tokens["recipient"] /\ y = u.tokens["recipient"] /\ w <= x /\ y <= w
    BY <1>1, <1>4 DEF Grows
  <2>2. ~(t.tokens["recipient"] < u.tokens["recipient"])
    BY ONLY <2>1
  <2> QED
    BY <1>2, <1>4, <2>2 DEF Marks
<1> QED
  BY <1>3, <1>4

(* A transfer that passed accounts for all that its snapshots show.        *)
LEMMA Accounted ==
  ASSUME NEW s \in Accounts, NEW v \in Accounts, NEW amount \in Nat,
         Success(Seen("main", s), Seen("main", v), amount)
  PROVE  /\ Gift(s) = Gift(v) /\ Held(s) = Held(v) /\ (Main(s).active => Main(v).active)
         /\ Main(v).nonce = Main(s).nonce + 1 /\ Main(v).spent = Main(s).spent + amount
         /\ v.tokens["attacker"] = s.tokens["attacker"]
<1>1. PICK n \in Nat, m \in Nat, x \in Int, y \in Int :
        n = Main(s).nonce /\ m = Main(s).spent /\ x = s.tokens["main"] /\ y = s.tokens["recipient"]
  BY Figures
<1>2. Main(v) = [Main(s) EXCEPT !.spent = @ + amount, !.nonce = @ + 1]
  BY DEF Success, Seen, Main
<1>3. Main(v).active = Main(s).active /\ Main(v).spent = m + amount /\ Main(v).nonce = n + 1
  <2>1. PICK q \in Policy : q = Main(s)
    BY Figures
  <2>2. PICK c : c = m + amount
    OBVIOUS
  <2>3. PICK d : d = n + 1
    OBVIOUS
  <2>4. PICK r : r = [q EXCEPT !.spent = c]
    OBVIOUS
  <2>5. Main(v) = [r EXCEPT !.nonce = d]
    BY <1>1, <1>2, <2>1, <2>2, <2>3, <2>4 DEF Policy
  <2>6. r.active = q.active /\ r.spent = c /\ DOMAIN r = DOMAIN q
    BY <2>4 DEF Policy
  <2>7. Main(v).active = r.active /\ Main(v).spent = r.spent /\ Main(v).nonce = d
    BY <2>4, <2>5, <2>6 DEF Policy
  <2> QED
    BY <2>1, <2>2, <2>3, <2>6, <2>7
<1>4. /\ v.tokens["main"] = x - amount /\ v.tokens["recipient"] = y + amount * 1000
      /\ v.tokens["attacker"] = s.tokens["attacker"]
  <2>1. PICK before : before = [t \in {"main"} \cup Others |-> s.tokens[t]]
    OBVIOUS
  <2>2. PICK after : after = [t \in {"main"} \cup Others |-> v.tokens[t]]
    OBVIOUS
  <2>3. after = [t \in DOMAIN before |-> before[t] +
                   CASE t \in Policies -> -amount
                     [] t = "poolQuote" -> amount
                     [] t = "poolOutput" -> -amount * RATE
                     [] t = "recipient" -> amount * RATE
                     [] OTHER -> 0]
    BY <2>1, <2>2 DEF Success, Seen
  <2>4. DOMAIN before = {"main"} \cup Others
    BY <2>1
  <2>5. {"main", "recipient", "attacker"} \subseteq DOMAIN before
    BY <2>4 DEF Others
  <2>6. after["main"] = before["main"] + -amount
    BY <2>3, <2>5, SMT DEF Policies
  <2>7. after["recipient"] = before["recipient"] + amount * RATE
    BY <2>3, <2>5, SMT DEF Policies
  <2>8. after["attacker"] = before["attacker"] + 0
    BY <2>3, <2>5, SMT DEF Policies
  <2>9. v.tokens["attacker"] = s.tokens["attacker"]
    BY <2>1, <2>2, <2>8, Figures DEF Others
  <2> QED
    BY <1>1, <2>1, <2>2, <2>6, <2>7, <2>9 DEF Others, RATE
<1> QED
  BY <1>1, <1>3, <1>4 DEF Held, Gift, RATE

(* Of what a passed attempt's snapshots show, others changed nothing in    *)
(* between.                                                                *)
LEMMA Undisturbed ==
  ASSUME IInv, NEW k \in 1 .. Last, NEW a, a = Attempts[k], a.passed,
         Script[k].kind = "swap",
         NEW n \in a.before + 1 .. a.after, blocks[n].tx = NoTx
  PROVE  Snapshot(Script[k].policy, n) = Snapshot(Script[k].policy, n - 1)
<1>1. PICK b \in Nat, e \in Nat, r \in Nat, L \in Nat :
        /\ b = a.before /\ e = a.after /\ r = rooted /\ L = Len(blocks)
        /\ b <= e /\ e <= r /\ r <= L
  <2>1. a \in Attempt /\ rooted \in Nat /\ Len(blocks) \in Nat /\ rooted <= Len(blocks)
    BY Recorded, Sizes DEF IInv
  <2>2. a.before <= a.after /\ a.after <= rooted
    BY DEF IInv, ReportInv, Kept
  <2> QED
    BY <2>1, <2>2 DEF Attempt
<1>2. n \in b + 1 .. e
  BY <1>1
<1>3. /\ n \in Nat /\ b <= n - 1 /\ n <= e /\ n \in 1 .. L /\ n - 1 \in 0 .. L
      /\ b \in 0 .. L /\ e \in 0 .. L /\ n \in 0 .. L /\ n - 1 <= n
  BY <1>1, <1>2
<1>4. /\ \A i \in 0 .. L : StateAt(i) \in Accounts
      /\ \A i, j \in 0 .. L : i <= j => Grows(StateAt(i), StateAt(j))
      /\ \A i \in 1 .. L : Trace(StateAt(i - 1), blocks[i])
  BY <1>1, StateType, Sizes DEF IInv, ChainInv
<1>5. PICK p \in Policies : p = Script[k].policy
  <2>1. k \in 1 .. 18
    BY Recorded DEF IInv
  <2> QED
    BY <2>1, Plan DEF ASwap, ACreation, ARevocation
<1>6. PICK s \in Accounts : s = StateAt(b)
  BY <1>3, <1>4
<1>7. PICK t \in Accounts : t = StateAt(n - 1)
  BY <1>3, <1>4
<1>8. PICK u \in Accounts : u = StateAt(n)
  BY <1>3, <1>4
<1>9. PICK v \in Accounts : v = StateAt(e)
  BY <1>3, <1>4
<1>10. Grows(s, t) /\ Grows(t, u) /\ Grows(u, v)
  BY <1>3, <1>4, <1>6, <1>7, <1>8, <1>9
<1>11. Marks(t, u)
  <2>1. u = blocks[n].state
    BY <1>3, <1>8 DEF StateAt
  <2>2. Trace(t, blocks[n])
    BY <1>3, <1>4, <1>7
  <2> QED
    BY <2>1, <2>2 DEF Trace
<1>12. a.error # "none" /\ a.error = Script[k].expect /\ Verdict(Script[k], b, e, a.error)
  BY <1>1 DEF IInv, ReportInv, Kept, Verdict
<1>13. /\ Snapshot(p, b) = Seen(p, s) /\ Snapshot(p, e) = Seen(p, v)
       /\ Snapshot(p, n) = Seen(p, u) /\ Snapshot(p, n - 1) = Seen(p, t)
  BY <1>6, <1>7, <1>8, <1>9 DEF Snapshot, Seen
<1>14. CASE Script[k].expect # "Ok"
  <2>1. Seen(p, s) = Seen(p, v)
    <3>1. PICK ask : ask = Script[k]
      OBVIOUS
    <3>2. ask.kind = "swap" /\ ask.expect # "Ok" /\ ask.policy = p /\ Verdict(ask, b, e, a.error)
      BY <1>5, <1>12, <1>14, <3>1
    <3>3. Snapshot(p, b) = Snapshot(p, e)
      BY <3>2, SMT DEF Verdict, Unchanged
    <3> QED
      BY <1>13, <3>3
  <2>2. s.policies[p] = v.policies[p] /\ s.tokens[p] = v.tokens[p]
          /\ s.tokens["recipient"] = v.tokens["recipient"]
          /\ s.tokens["attacker"] = v.tokens["attacker"]
    <3>1. PICK S : S = [x \in {p} \cup Others |-> s.tokens[x]]
      OBVIOUS
    <3>2. PICK V : V = [x \in {p} \cup Others |-> v.tokens[x]]
      OBVIOUS
    <3>3. s.policies[p] = v.policies[p] /\ S = V
      BY <2>1, <3>1, <3>2 DEF Seen
    <3>4. /\ S[p] = s.tokens[p] /\ V[p] = v.tokens[p]
          /\ S["recipient"] = s.tokens["recipient"] /\ V["recipient"] = v.tokens["recipient"]
          /\ S["attacker"] = s.tokens["attacker"] /\ V["attacker"] = v.tokens["attacker"]
      BY <3>1, <3>2 DEF Others
    <3> QED
      BY <3>3, <3>4
  <2>3. p = "main" => /\ Gift(s) = Gift(v) /\ Held(s) = Held(v)
                      /\ Main(s).active => Main(v).active
                      /\ ~(Main(t).nonce < Main(u).nonce)
    <3> SUFFICES ASSUME p = "main"
                 PROVE  /\ Gift(s) = Gift(v) /\ Held(s) = Held(v)
                        /\ Main(s).active => Main(v).active
                        /\ ~(Main(t).nonce < Main(u).nonce)
      OBVIOUS
    <3>1. Main(s) = Main(v)
      BY <2>2 DEF Main
    <3>2. PICK i \in Nat, j \in Nat, l \in Nat :
            /\ l = Main(s).nonce /\ i = Main(t).nonce /\ j = Main(u).nonce
            /\ l = Main(v).nonce /\ l <= i /\ j <= l
      BY <1>10, <3>1, Figures DEF Grows
    <3>3. ~(Main(t).nonce < Main(u).nonce)
      BY ONLY <3>2
    <3> QED
      BY <2>2, <3>1, <3>3 DEF Gift, Held
  <2> QED
    BY <1>5, <1>10, <1>11, <1>13, <2>2, <2>3, Unseen
<1>15. CASE Script[k].expect = "Ok"
  <2>1. p = "main" /\ Script[k].amount \in Nat
    <3>1. k \in 1 .. 18
      BY Recorded DEF IInv
    <3> QED
      BY <1>5, <1>15, <3>1, Plan DEF ASwap, ACreation, ARevocation
  <2>2. Success(Seen("main", s), Seen("main", v), Script[k].amount)
    BY <1>5, <1>12, <1>13, <1>15, <2>1 DEF Verdict
  <2>3. /\ Gift(s) = Gift(v) /\ Held(s) = Held(v) /\ (Main(s).active => Main(v).active)
        /\ Main(v).nonce = Main(s).nonce + 1
        /\ s.tokens["attacker"] = v.tokens["attacker"]
    BY <2>1, <2>2, Accounted
  <2>4. PICK m \in 1 .. rooted :
          /\ m \in a.before + 1 .. rooted /\ m <= a.after
          /\ blocks[m].tx # NoTx /\ blocks[m].tx.attempt = k /\ blocks[m].error = "Ok"
    BY <1>12, <1>15, Told
  <2>5. m \in Nat /\ m # n /\ b <= m - 1 /\ m <= e /\ m \in 1 .. L /\ m - 1 \in 0 .. L
    BY <1>1, <2>4
  <2>6. PICK x \in Accounts : x = StateAt(m - 1)
    BY <1>4, <2>5
  <2>7. PICK y \in Accounts : y = StateAt(m)
    BY <1>4, <2>5
  <2>8. Main(x).nonce < Main(y).nonce
    <3>1. y = blocks[m].state
      BY <2>5, <2>7 DEF StateAt
    <3>2. Trace(x, blocks[m])
      BY <1>4, <2>5, <2>6
    <3> QED
      BY <1>5, <2>1, <2>4, <3>1, <3>2 DEF Trace
  <2>9. Grows(s, x) /\ Grows(y, v)
    BY <1>3, <1>4, <1>6, <1>9, <2>5, <2>6, <2>7
  <2>10. Grows(y, t) \/ Grows(u, x)
    <3>1. m <= n - 1 \/ n <= m - 1
      BY <1>3, <2>5
    <3>2. m \in 0 .. L
      BY <2>5
    <3> QED
      BY <1>3, <1>4, <1>7, <1>8, <2>5, <2>6, <2>7, <3>1, <3>2
  <2>11. PICK i \in Nat, j \in Nat, l \in Nat, o \in Nat, q \in Nat :
           /\ l = Main(s).nonce /\ i = Main(t).nonce /\ j = Main(u).nonce
           /\ o = Main(x).nonce /\ q = Main(y).nonce
           /\ Main(v).nonce = l + 1 /\ l <= i /\ j <= l + 1 /\ l <= o /\ q <= l + 1
           /\ o < q /\ (q <= i \/ j <= o)
    BY <1>10, <2>3, <2>8, <2>9, <2>10, Figures DEF Grows
  <2>12. ~(Main(t).nonce < Main(u).nonce)
    BY ONLY <2>11
  <2> QED
    BY <1>5, <1>10, <1>11, <1>13, <2>1, <2>3, <2>12, Unseen
<1> QED
  BY <1>14, <1>15

(* What the report says of an attempt is what became final, and all that   *)
(* changed between the snapshots of one that passed it changed itself:     *)
(* ReportTrue of VerifyRun.                                                *)
THEOREM ReportIsTrue == Spec => []ReportTrue
<1>1. IInv => ReportTrue
  <2> SUFFICES ASSUME IInv, NEW k \in DOMAIN Attempts, NEW a, a = Attempts[k]
               PROVE  /\ a.error # "none" =>
                           /\ a.executed <=> EffectOf(k) = "applied"
                           /\ ~a.executed <=> EffectOf(k) = "void"
                      /\ a.passed =>
                           /\ a.error = Script[k].expect
                           /\ Script[k].kind = "swap" =>
                                \A n \in a.before + 1 .. a.after :
                                  blocks[n].tx = NoTx =>
                                    Snapshot(Script[k].policy, n) =
                                      Snapshot(Script[k].policy, n - 1)
    BY DEF ReportTrue
  <2>1. k \in 1 .. Last
    BY Recorded DEF IInv
  <2>2. a.error # "none" => /\ a.executed <=> EffectOf(k) = "applied"
                            /\ ~a.executed <=> EffectOf(k) = "void"
    <3>1. ASSUME a.error # "none"
          PROVE  /\ a.error = "Ok" => EffectOf(k) = "applied"
                 /\ a.error # "Ok" => EffectOf(k) = "void"
                 /\ a.executed <=> a.error = "Ok"
      BY <2>1, <3>1, OutcomeTrue
    <3> QED
      BY <3>1
  <2>3. a.passed => a.error = Script[k].expect
    BY <2>1 DEF IInv, ReportInv, Kept, Verdict
  <2>4. ASSUME a.passed, Script[k].kind = "swap",
               NEW n \in a.before + 1 .. a.after, blocks[n].tx = NoTx
        PROVE  Snapshot(Script[k].policy, n) = Snapshot(Script[k].policy, n - 1)
    BY <2>1, <2>4, Undisturbed
  <2> QED
    BY <2>2, <2>3, <2>4
<1> QED
  BY Invariant, <1>1, PTL

----------------------------------------------------------------------------
(* What PASSED means.                                                      *)

(* The snapshots of the attempts that passed, in their order.              *)
LEMMA Ordered ==
  ASSUME IInv, NEW i \in 1 .. Last, NEW j \in 1 .. Last, i < j
  PROVE  /\ Attempts[i].before \in 0 .. Len(blocks) /\ Attempts[i].after \in 0 .. Len(blocks)
         /\ Attempts[i].before <= Attempts[i].after /\ Attempts[i].after <= Attempts[j].before
<1>1. /\ Attempts[i].before \in Nat /\ Attempts[i].after \in Nat
      /\ Last \in Nat /\ rooted \in 0 .. Len(blocks) /\ Len(blocks) \in Nat
  BY Recorded, Sizes DEF IInv, Attempt
<1>2. Attempts[i].before <= Attempts[i].after /\ Attempts[i].after <= rooted
  BY DEF IInv, ReportInv, Kept
<1>3. Attempts[i].after <= Attempts[j].before
  <2>1. i \in 1 .. j - 1
    OBVIOUS
  <2> QED
    BY <2>1 DEF IInv, ReportInv, Kept
<1> QED
  BY <1>1, <1>2, <1>3

(* A transfer of the suite that passed was counted between its snapshots.  *)
LEMMA Transferred ==
  ASSUME IInv, NEW k \in 1 .. Last, NEW a, a = Attempts[k], a.passed,
         Script[k].kind = "swap", Script[k].expect = "Ok", Script[k].policy = "main",
         Script[k].amount \in Nat,
         NEW s \in Accounts, s = StateAt(a.before), NEW v \in Accounts, v = StateAt(a.after)
  PROVE  /\ Main(v).nonce = Main(s).nonce + 1
         /\ Main(v).spent = Main(s).spent + Script[k].amount
<1>1. PICK ask : ask = Script[k]
  OBVIOUS
<1>2. Verdict(ask, a.before, a.after, a.error)
  BY <1>1 DEF IInv, ReportInv, Kept
<1>3. Success(Snapshot("main", a.before), Snapshot("main", a.after), ask.amount)
  BY <1>1, <1>2 DEF Verdict
<1>4. Snapshot("main", a.before) = Seen("main", s) /\ Snapshot("main", a.after) = Seen("main", v)
  BY DEF Snapshot, Seen
<1> QED
  BY <1>1, <1>3, <1>4, Accounted

(* After the attempt to revoke it the policy is not active.                *)
LEMMA Revoked ==
  ASSUME IInv, NEW k \in 1 .. Last, NEW a, a = Attempts[k], a.passed,
         Script[k].kind = "revoke", NEW s \in Accounts, s = StateAt(a.before)
  PROVE  ~Main(StateAt(a.after)).active
<1>1. PICK ask : ask = Script[k]
  OBVIOUS
<1>2. Verdict(ask, a.before, a.after, a.error)
  BY <1>1 DEF IInv, ReportInv, Kept
<1>3. PICK p \in Policy : p = StateAt(a.before).policies["main"]
  BY Figures DEF Main
<1>4. Snapshot("main", a.after) =
        [Snapshot("main", a.before) EXCEPT !.policy = [p EXCEPT !.active = FALSE]]
  BY <1>1, <1>2, <1>3 DEF Verdict
<1>5. Snapshot("main", a.after).policy = [p EXCEPT !.active = FALSE]
  BY <1>4 DEF Snapshot
<1>6. ~[p EXCEPT !.active = FALSE].active
  BY DEF Policy
<1> QED
  BY <1>5, <1>6 DEF Snapshot, Main

(* Nothing is paid for at the start.                                       *)
LEMMA NoGift == Gift(StateAt(0)) = 0
<1>1. StateAt(0) = Fixture
  BY VerifyRunAssumption DEF VerifyRunAssumption, StateAt
<1>2. PICK policies, tokens : policies = Fixture.policies /\ tokens = Fixture.tokens
  OBVIOUS
<1>3. policies = [q \in Policies |-> IF q = "main" THEN APolicy(TRUE, 2) ELSE NoAccount]
  BY SMT, <1>2 DEF Fixture
<1>4. policies["main"].spent = 0
  BY <1>3 DEF Policies, APolicy
<1>5. PICK zero : zero = [t \in Policies \cup Others |-> 0]
  OBVIOUS
<1>6. tokens = [zero EXCEPT !["main"] = 150, !["poolOutput"] = 1000000]
  BY SMT, <1>2, <1>5 DEF Fixture
<1>7. tokens["recipient"] = 0
  BY <1>5, <1>6 DEF Policies, Others
<1> QED
  BY <1>1, <1>2, <1>4, <1>7 DEF Gift, Main, RATE

LEMMA Accounting ==
  ASSUME IInv, report.status = "PASSED", NEW n \in rooted .. Len(blocks)
  PROVE  /\ StateAt(n).policies["main"].spent = 150 /\ StateAt(n).policies["main"].nonce = 2
         /\ ~StateAt(n).policies["main"].active
         /\ StateAt(n).tokens["recipient"] >= 150 * RATE
<1>1. /\ Last = 18 /\ 1 \in 1 .. Last /\ 11 \in 1 .. Last /\ 16 \in 1 .. Last /\ 18 \in 1 .. Last
      /\ \A k \in 1 .. Last : Attempts[k].passed
  BY DEF IInv, PhaseInv
<1>2. PICK L \in Nat, r \in Nat : L = Len(blocks) /\ r = rooted /\ n \in 0 .. L /\ r <= n
  <2>1. Len(blocks) \in Nat /\ rooted \in 0 .. Len(blocks)
    BY Sizes DEF IInv
  <2> QED
    BY <2>1
<1>3. PICK b \in 0 .. L, c \in 0 .. L, d \in 0 .. L, e \in 0 .. L, f \in 0 .. L, g \in 0 .. L :
        /\ b = Attempts[1].before /\ c = Attempts[1].after
        /\ d = Attempts[11].before /\ e = Attempts[11].after
        /\ f = Attempts[16].before /\ g = Attempts[16].after
        /\ c <= d /\ e <= n /\ g <= n
  <2>1. 1 < 11 /\ 11 < 16 /\ 16 < 18
    OBVIOUS
  <2>2. /\ Attempts[1].before \in 0 .. L /\ Attempts[1].after \in 0 .. L
        /\ Attempts[1].after <= Attempts[11].before
    <3>1. 1 \in 1 .. Last /\ 11 \in 1 .. Last
      BY <1>1
    <3> QED
      BY <1>2, <2>1, <3>1, Ordered
  <2>3. Attempts[11].before \in 0 .. L /\ Attempts[11].after \in 0 .. L
    <3>1. 11 \in 1 .. Last /\ 16 \in 1 .. Last
      BY <1>1
    <3> QED
      BY <1>2, <2>1, <3>1, Ordered
  <2>4. Attempts[16].before \in 0 .. L /\ Attempts[16].after \in 0 .. L
    <3>1. 16 \in 1 .. Last /\ 18 \in 1 .. Last
      BY <1>1
    <3> QED
      BY <1>2, <2>1, <3>1, Ordered
  <2>5. Attempts[11].after <= rooted /\ Attempts[16].after <= rooted
    BY <1>1 DEF IInv, ReportInv, Kept
  <2>6. Attempts[11].after <= n /\ Attempts[16].after <= n
    BY <1>2, <2>3, <2>4, <2>5
  <2> QED
    BY <2>2, <2>3, <2>4, <2>6, Zenon
<1>4. /\ \A i \in 0 .. L : StateAt(i) \in Accounts
      /\ \A i, j \in 0 .. L : i <= j => Grows(StateAt(i), StateAt(j))
  BY <1>2, StateType DEF IInv, ChainInv
<1>5. PICK s \in Accounts : s = StateAt(b)
  BY <1>4
<1>6. PICK t \in Accounts : t = StateAt(c)
  BY <1>4
<1>7. PICK u \in Accounts : u = StateAt(d)
  BY <1>4
<1>8. PICK v \in Accounts : v = StateAt(e)
  BY <1>4
<1>9. PICK w \in Accounts : w = StateAt(n)
  BY <1>2, <1>4
<1>10. Grows(t, u) /\ Grows(v, w) /\ Grows(StateAt(g), w)
  BY <1>2, <1>3, <1>4, <1>6, <1>7, <1>8, <1>9
<1>11. Main(t).nonce = Main(s).nonce + 1 /\ Main(t).spent = Main(s).spent + 60
  <2>1. Script[1].amount \in Nat /\ 1 \in 1 .. Last /\ Attempts[1].passed
    BY <1>1, Milestones
  <2>2. s = StateAt(Attempts[1].before) /\ t = StateAt(Attempts[1].after)
    BY <1>3, <1>5, <1>6
  <2>3. Script[1].kind = "swap" /\ Script[1].expect = "Ok" /\ Script[1].policy = "main"
    BY Milestones
  <2>4. /\ Main(t).nonce = Main(s).nonce + 1
        /\ Main(t).spent = Main(s).spent + Script[1].amount
    BY <2>1, <2>2, <2>3, Transferred
  <2> QED
    BY <2>4, Milestones
<1>12. Main(v).nonce = Main(u).nonce + 1 /\ Main(v).spent = Main(u).spent + 90
  <2>1. Script[11].amount \in Nat /\ 11 \in 1 .. Last /\ Attempts[11].passed
    BY <1>1, Milestones
  <2>2. u = StateAt(Attempts[11].before) /\ v = StateAt(Attempts[11].after)
    BY <1>3, <1>7, <1>8
  <2>3. Script[11].kind = "swap" /\ Script[11].expect = "Ok" /\ Script[11].policy = "main"
    BY Milestones
  <2>4. /\ Main(v).nonce = Main(u).nonce + 1
        /\ Main(v).spent = Main(u).spent + Script[11].amount
    BY <2>1, <2>2, <2>3, Transferred
  <2> QED
    BY <2>4, Milestones
<1>13. ~Main(w).active
  <2>1. PICK x \in Accounts : x = StateAt(f)
    BY <1>4
  <2>2. ~Main(StateAt(g)).active
    BY <1>1, <1>3, <2>1, Milestones, Revoked
  <2> QED
    BY <1>10, <2>2 DEF Grows
<1>14. Main(w).spent = 150 /\ Main(w).nonce = 2
  <2>1. PICK ns \in Nat, ms \in Nat : ns = Main(s).nonce /\ ms = Main(s).spent /\ ns <= ms
    BY Figures
  <2>2. PICK nu \in Nat, mu \in Nat : nu = Main(u).nonce /\ mu = Main(u).spent
    BY Figures
  <2>3. PICK nw \in Nat, mw \in Nat : nw = Main(w).nonce /\ mw = Main(w).spent /\ mw <= 150
    BY Figures
  <2>4. Main(t).nonce = ns + 1 /\ Main(t).spent = ms + 60
    BY <1>11, <2>1
  <2>5. ns + 1 <= nu /\ ms + 60 <= mu /\ (ms + 60) - (ns + 1) <= mu - nu
    BY <1>10, <2>2, <2>4 DEF Grows
  <2>6. Main(v).nonce = nu + 1 /\ Main(v).spent = mu + 90
    BY <1>12, <2>2
  <2>7. mu + 90 <= mw /\ (mu + 90) - (nu + 1) <= mw - nw /\ nu + 1 <= nw
    BY <1>10, <2>3, <2>6 DEF Grows
  <2>8. mw = 150
    <3>1. 60 <= mu
      BY <2>1, <2>5
    <3>2. 150 <= mw
      BY <2>7, <3>1
    <3> QED
      BY <2>3, <3>2
  <2>9. nw = 2
    BY <2>1, <2>5, <2>7, <2>8
  <2> QED
    BY <2>3, <2>8, <2>9
<1>15. w.tokens["recipient"] >= 150 * RATE
  <2>1. PICK z \in Accounts : z = StateAt(0)
    BY <1>2, <1>4
  <2>2. Grows(z, w)
    BY <1>2, <1>4, <1>9, <2>1
  <2>3. Gift(z) = 0
    BY <2>1, NoGift
  <2>4. PICK y \in Int : y = w.tokens["recipient"]
    BY Figures
  <2>5. 0 <= y - 150 * 1000
    BY <1>14, <2>2, <2>3, <2>4 DEF Grows, Gift, RATE
  <2> QED
    BY <2>4, <2>5 DEF RATE
<1> QED
  BY <1>9, <1>13, <1>14, <1>15 DEF Main

(* PASSED covers every attempt and means exact accounting, on whatever the *)
(* chain goes on to, the suite ended or not: PassedSuite of VerifyRun.     *)
THEOREM PassedHeld == Spec => []PassedSuite
<1>1. IInv => PassedSuite
  <2> SUFFICES ASSUME IInv PROVE PassedSuite
    OBVIOUS
  <2>1. report.status = "PASSED" =>
          Last = Len(Script) /\ \A k \in 1 .. Last : Attempts[k].passed
    BY Plan DEF IInv, PhaseInv
  <2> QED
    BY <2>1, Accounting DEF PassedSuite
<1> QED
  BY Invariant, <1>1, PTL

----------------------------------------------------------------------------
(* What the report tells of a transaction stays true.                      *)

(* What an attempt is called, by its record and by where the script is.    *)
Called(signature, error, at) ==
  IF ~signature THEN "drafted"
  ELSE IF error = "Ok" THEN "done"
  ELSE IF error # "none" THEN "failed"
  ELSE IF at = "announced" THEN "drafted"
  ELSE IF at = "sent" THEN "offered" ELSE "unknown"

LEMMA StageCases ==
  ASSUME NEW k
  PROVE  /\ k \notin DOMAIN Attempts => StageOf(k) = "drafted"
         /\ k \in DOMAIN Attempts =>
              StageOf(k) = Called(Attempts[k].signature, Attempts[k].error, pc)
         /\ k \notin DOMAIN Attempts' => StageOf(k)' = "drafted"
         /\ k \in DOMAIN Attempts' =>
              StageOf(k)' = Called(Attempts'[k].signature, Attempts'[k].error, pc')
  BY SMT DEF StageOf, Called

(* The stage is about what the report says, the effect about what is final. *)
LEMMA EffectSame ==
  ASSUME rooted' = rooted, expired' = expired,
         \A n \in 1 .. rooted : blocks'[n] = blocks[n]
  PROVE  \A k : EffectOf(k)' = EffectOf(k)
  BY DEF EffectOf, Failed

LEMMA Moves ==
  ASSUME NEW r \in Requests, NEW s, StageOf(r)' = s,
         \A q \in Requests \ {r} : StageOf(q)' = StageOf(q),
         \A q \in Requests : EffectOf(q)' = EffectOf(q)
  PROVE  Promise!Becomes(r, s)
<1>1. [k \in Requests |-> StageOf(k)'] = [[k \in Requests |-> StageOf(k)] EXCEPT ![r] = s]
  OBVIOUS
<1>2. [k \in Requests |-> EffectOf(k)'] = [k \in Requests |-> EffectOf(k)]
  OBVIOUS
<1>3. Requests' = Requests
  BY DEF Requests
<1> QED
  BY <1>1, <1>2, <1>3 DEF Promise!Becomes

LEMMA Stutters ==
  ASSUME \A q \in Requests : StageOf(q)' = StageOf(q),
         \A q \in Requests : EffectOf(q)' = EffectOf(q)
  PROVE  UNCHANGED Promise!vars
<1>1. [k \in Requests |-> StageOf(k)'] = [k \in Requests |-> StageOf(k)]
  OBVIOUS
<1>2. [k \in Requests |-> EffectOf(k)'] = [k \in Requests |-> EffectOf(k)]
  OBVIOUS
<1> QED
  BY <1>1, <1>2 DEF Promise!vars

LEMMA Settles ==
  ASSUME NEW r \in Requests, StageOf(r) \in {"offered", "unknown"},
         EffectOf(r) = "open", EffectOf(r)' \in {"applied", "void"},
         \A q \in Requests : StageOf(q)' = StageOf(q),
         \A q \in Requests \ {r} : EffectOf(q)' = EffectOf(q)
  PROVE  Promise!Next
<1>1. [k \in Requests |-> StageOf(k)'] = [k \in Requests |-> StageOf(k)]
  OBVIOUS
<1>2. PICK e \in {"applied", "void"} : e = EffectOf(r)'
  OBVIOUS
<1>3. [k \in Requests |-> EffectOf(k)'] = [[k \in Requests |-> EffectOf(k)] EXCEPT ![r] = e]
  BY <1>2
<1>4. Promise!Settle(r)
  BY <1>1, <1>3 DEF Promise!Settle
<1> QED
  BY <1>4 DEF Promise!Next

LEMMA CalledAs ==
  /\ \A error, at : Called(FALSE, error, at) = "drafted"
  /\ \A error, at, to : error # "none" => Called(TRUE, error, at) = Called(TRUE, error, to)
  /\ \A at : Called(TRUE, "Ok", at) = "done"
  /\ \A error, at : error \notin {"none", "Ok"} => Called(TRUE, error, at) = "failed"
  /\ Called(TRUE, "none", "announced") = "drafted" /\ Called(TRUE, "none", "sent") = "offered"
  /\ \A at : at \notin {"announced", "sent"} => Called(TRUE, "none", at) = "unknown"
  BY DEF Called

(* What is behind the script is told for good.                             *)
LEMMA Behind ==
  ASSUME IInv, NEW k \in 1 .. Last, Attempts[k].passed \/ Attempts[k].error # "none"
  PROVE  Attempts[k].signature = TRUE /\ Attempts[k].error # "none" /\ k \in Requests
<1>1. Attempts[k] \in Attempt /\ k \in 1 .. 18
  BY Recorded DEF IInv
<1>2. Kept(k)
  BY DEF IInv, ReportInv
<1>3. Attempts[k].error # "none"
  BY <1>2 DEF Kept
<1> QED
  BY <1>1, <1>2, <1>3, Plan DEF Kept, Attempt, Requests

(* A step of the script is about the attempt in hand alone.                *)
LEMMA StageSame ==
  ASSUME IInv, IInv', NEW k,
         \/ /\ k \in 1 .. Last /\ k \in 1 .. Last'
            /\ Attempts'[k].signature = Attempts[k].signature
            /\ Attempts'[k].error = Attempts[k].error
            /\ Attempts[k].passed \/ Attempts[k].error # "none" \/ ~Attempts[k].signature
         \/ k \notin 1 .. Last /\ k \notin 1 .. Last'
  PROVE  StageOf(k)' = StageOf(k)
<1>1. DOMAIN Attempts = 1 .. Last /\ DOMAIN Attempts' = 1 .. Last'
  <2>1. DOMAIN Attempts = 1 .. Last
    BY Recorded DEF IInv
  <2>2. Attempts' \in Seq(Attempt)
    BY DEF IInv, TypeInv, Attempts
  <2> QED
    BY <2>1, <2>2 DEF Last
<1>2. CASE k \notin 1 .. Last /\ k \notin 1 .. Last'
  BY <1>1, <1>2, StageCases
<1>3. ASSUME k \in 1 .. Last, k \in 1 .. Last',
             Attempts'[k].signature = Attempts[k].signature,
             Attempts'[k].error = Attempts[k].error,
             Attempts[k].passed \/ Attempts[k].error # "none" \/ ~Attempts[k].signature
      PROVE  StageOf(k)' = StageOf(k)
  <2>1. PICK s \in BOOLEAN : s = Attempts[k].signature
    BY <1>3, Recorded DEF IInv, Attempt
  <2>2. PICK e : e = Attempts[k].error
    OBVIOUS
  <2>3. StageOf(k) = Called(s, e, pc) /\ StageOf(k)' = Called(s, e, pc')
    BY <1>1, <1>3, <2>1, <2>2, StageCases
  <2>4. s = FALSE \/ (s = TRUE /\ e # "none")
    BY <1>3, <2>1, <2>2, Behind
  <2>5. CASE s = FALSE
    BY <2>3, <2>5 DEF Called
  <2>6. CASE s = TRUE /\ e # "none"
    BY <2>3, <2>6 DEF Called
  <2> QED
    BY <2>4, <2>5, <2>6
<1> QED
  BY <1>2, <1>3

(* The script loses sight of what is announced or sent, and of nothing     *)
(* else, when it stops.                                                    *)
LEMMA PromiseStop ==
  ASSUME IInv, IInv', Attempts' = Attempts, pc' = "stopped",
         UNCHANGED <<blocks, rooted, expired>>
  PROVE  Promise!Next \/ UNCHANGED Promise!vars
<1>1. PICK l \in Nat : l = Last
  BY Recorded DEF IInv
<1>2. Last' = l /\ DOMAIN Attempts = 1 .. l
  BY <1>1, Recorded DEF IInv, Last
<1>3. \A q \in Requests : EffectOf(q)' = EffectOf(q)
  BY EffectSame
<1>4. ASSUME NEW q \in Requests, q \in 1 .. l => q < l \/ pc \notin {"announced", "sent", "stopped"}
      PROVE  StageOf(q)' = StageOf(q)
  <2>1. CASE q \notin 1 .. l
    BY <1>1, <1>2, <2>1, StageSame
  <2>2. CASE q \in 1 .. l
    <3>1. q < l \/ pc = "next" => Attempts[q].passed
      BY <1>1, <2>2 DEF IInv, PhaseInv
    <3>2. pc # "begin"
      BY <1>1, <2>2 DEF IInv, PhaseInv
    <3>3. q < l \/ pc \in {"next", "recorded", "simulated", "landed"}
      BY <1>4, <2>2, <3>2 DEF IInv, TypeInv, Places
    <3>4. pc \in {"recorded", "simulated", "landed"} /\ q = l =>
            Attempts[q].error # "none" \/ ~Attempts[q].signature
      BY <1>1 DEF IInv, PhaseInv
    <3>5. q < l \/ q = l
      BY <1>1, <2>2
    <3>6. Attempts[q].passed \/ Attempts[q].error # "none" \/ ~Attempts[q].signature
      BY <3>1, <3>3, <3>4, <3>5
    <3> QED
      BY <1>1, <1>2, <2>2, <3>6, StageSame
  <2> QED
    BY <2>1, <2>2
<1>5. CASE pc = "stopped"
  <2>1. \A q : StageOf(q)' = StageOf(q)
    BY <1>5 DEF StageOf
  <2> QED
    BY <1>3, <2>1, Stutters
<1>6. CASE pc \in {"announced", "sent"}
  <2>1. /\ l \in 1 .. l /\ l \in Requests
        /\ Attempts[l].signature = TRUE /\ Attempts[l].error = "none"
    <3>1. /\ Last \in 1 .. Last /\ Last \in 1 .. 18 /\ Attempts[Last] \in Attempt
          /\ Attempts[Last].signature /\ Attempts[Last].error = "none"
      BY <1>6, InHand
    <3> QED
      BY <1>1, <3>1, Plan DEF Requests, Attempt
  <2>2. StageOf(l) \in {"drafted", "offered"}
    BY <1>2, <1>6, <2>1, StageCases, CalledAs
  <2>3. StageOf(l)' = "unknown"
    <3>1. l \in DOMAIN Attempts'
      BY <1>2, <2>1
    <3>2. Attempts'[l].signature = TRUE /\ Attempts'[l].error = "none"
      BY <2>1
    <3>3. StageOf(l)' = Called(TRUE, "none", "stopped")
      BY <3>1, <3>2, StageCases
    <3> QED
      BY <3>3 DEF Called
  <2>4. \A q \in Requests \ {l} : StageOf(q)' = StageOf(q)
    BY <1>1, <1>4
  <2>5. Promise!Becomes(l, "unknown")
    BY <1>3, <2>1, <2>3, <2>4, Moves
  <2>6. Promise!LoseSight(l)
    BY <2>1, <2>2, <2>5 DEF Promise!LoseSight
  <2> QED
    BY <2>1, <2>6 DEF Promise!Next
<1>7. CASE pc \notin {"announced", "sent", "stopped"}
  BY <1>3, <1>4, <1>7, Stutters
<1> QED
  BY <1>5, <1>6, <1>7

(* What a step in the middle of an attempt says.                           *)
LEMMA PromiseRewrite ==
  ASSUME IInv, IInv', UNCHANGED <<blocks, rooted, expired>>,
         NEW l \in Nat, l = Last, Last' = l, l >= 1,
         \A k \in 1 .. l : k = l \/ Attempts'[k] = Attempts[k]
  PROVE  /\ l \in Requests /\ l \in DOMAIN Attempts /\ l \in DOMAIN Attempts'
         /\ \A q \in Requests : EffectOf(q)' = EffectOf(q)
         /\ \A q \in Requests \ {l} : StageOf(q)' = StageOf(q)
<1>1. DOMAIN Attempts = 1 .. l /\ l \in 1 .. l /\ l \in 1 .. 18
  BY Recorded DEF IInv
<1>2. DOMAIN Attempts' = 1 .. l
  <2>1. Attempts' \in Seq(Attempt)
    BY DEF IInv, TypeInv, Attempts
  <2> QED
    BY <2>1 DEF Last
<1>3. \A q \in Requests : EffectOf(q)' = EffectOf(q)
  BY EffectSame
<1>4. ASSUME NEW q \in Requests \ {l}
      PROVE  StageOf(q)' = StageOf(q)
  <2>1. CASE q \notin 1 .. l
    BY <2>1, StageSame
  <2>2. CASE q \in 1 .. l
    <3>1. q < l
      BY <2>2
    <3>2. Attempts[q].passed
      BY <2>2, <3>1 DEF IInv, PhaseInv
    <3> QED
      BY <2>2, <3>2, StageSame
  <2> QED
    BY <2>1, <2>2
<1> QED
  BY <1>1, <1>2, <1>3, <1>4, Plan DEF Requests

LEMMA PromiseRun ==
  ASSUME IInv, IInv', Run \/ Crash
  PROVE  Promise!Next \/ UNCHANGED Promise!vars
<1>1. PICK l \in Nat : l = Last
  BY Recorded DEF IInv
<1>2. UNCHANGED <<blocks, rooted, expired>>
  BY DEF Run, Crash, Begin, Record, Simulate, Announce, Send, AnswerLost, CallFails, Observe,
     GiveUp, Examine, Finish, Accept, clusterVars
<1>3. Fails => pc' = "stopped" /\ Attempts' = Attempts
  BY ReportType DEF Fails, Attempts, IInv
<1>4. CASE Crash \/ CallFails \/ GiveUp \/ AnswerLost \/ Finish
  <2>1. pc' = "stopped" /\ Attempts' = Attempts
    BY <1>3, <1>4, ReportType DEF Crash, CallFails, GiveUp, AnswerLost, Finish, Attempts, IInv
  <2> QED
    BY <1>2, <2>1, PromiseStop
<1>5. CASE Begin
  <2>1. CASE Fails
    BY <1>2, <1>3, <2>1, PromiseStop
  <2>2. CASE pc' = "next" /\ UNCHANGED report
    <3>1. Attempts' = Attempts /\ Last = 0 /\ Last' = 0
      BY <1>5, <2>2 DEF Begin, Attempts, Last, IInv, PhaseInv
    <3>2. \A q : q \notin 1 .. 0
      OBVIOUS
    <3>3. \A q \in Requests : StageOf(q)' = StageOf(q)
      BY <3>1, <3>2, StageSame
    <3> QED
      BY <1>2, <3>3, EffectSame, Stutters
  <2> QED
    BY <1>5, <2>1, <2>2 DEF Begin
<1>6. CASE Record
  <2>1. PICK a : a = [result |-> "PENDING", signature |-> FALSE, error |-> "none",
                      executed |-> FALSE, before |-> rooted, after |-> rooted,
                      passed |-> FALSE]
    OBVIOUS
  <2>2. pc = "next" /\ report' = [report EXCEPT !.attempts = Append(Attempts, a)]
    BY <1>6, <2>1 DEF Record, Attempts
  <2>3. PICK s \in Seq(Attempt) : s = Attempts /\ Len(s) = l
    BY <1>1, Recorded DEF IInv, Last
  <2>4. Attempts' = Append(s, a)
    BY <2>2, <2>3, ReportType DEF IInv, Attempts
  <2>5. PICK t : t = Append(s, a)
    OBVIOUS
  <2>6. /\ Len(t) = l + 1 /\ t[l + 1] = a /\ \A k \in 1 .. l : t[k] = s[k]
        /\ DOMAIN t = 1 .. l + 1
    BY <2>3, <2>5
  <2>7. Last' = l + 1
    BY <2>4, <2>5, <2>6 DEF Last
  <2>8. ASSUME NEW q \in Requests PROVE StageOf(q)' = StageOf(q)
    <3>1. q \in 1 .. 18
      BY Plan DEF Requests
    <3>2. CASE q \in 1 .. l
      <4>1. Attempts[q].passed
        BY <1>1, <2>2, <3>2 DEF IInv, PhaseInv
      <4>2. q \in 1 .. l + 1 /\ Attempts'[q] = Attempts[q]
        BY <2>3, <2>4, <2>5, <2>6, <3>2
      <4> QED
        BY <1>1, <2>7, <3>2, <4>1, <4>2, StageSame
    <3>3. CASE q = l + 1
      <4>1. q \notin DOMAIN Attempts
        BY <1>1, <3>3, Recorded DEF IInv
      <4>2. q \in DOMAIN Attempts' /\ Attempts'[q] = a
        BY <2>4, <2>5, <2>6, <3>3
      <4>3. StageOf(q) = "drafted"
        BY <4>1, StageCases
      <4>4. ~Attempts'[q].signature
        BY <2>1, <4>2
      <4>5. StageOf(q)' = "drafted"
        BY <4>2, <4>4, StageCases DEF Called
      <4> QED
        BY <4>3, <4>5
    <3>4. CASE q \notin 1 .. l + 1
      <4>1. q \notin 1 .. l
        BY <3>1, <3>4
      <4> QED
        BY <1>1, <2>7, <3>4, <4>1, StageSame
    <3> QED
      BY <3>1, <3>2, <3>3, <3>4
  <2> QED
    BY <1>2, <2>8, EffectSame, Stutters
<1>7. ASSUME NEW a \in Attempt, a = Attempts[l], NEW b \in Attempt, NEW to, pc' = to,
             pc \in {"recorded", "simulated", "sent", "landed"},
             \/ report' = [report EXCEPT !.attempts[l] = b]
             \/ report' = [report EXCEPT !.attempts[l] = b, !.status = "FAILED"]
      PROVE  /\ l \in Requests
             /\ StageOf(l) = Called(a.signature, a.error, pc)
             /\ StageOf(l)' = Called(b.signature, b.error, to)
             /\ \A q \in Requests : EffectOf(q)' = EffectOf(q)
             /\ \A q \in Requests \ {l} : StageOf(q)' = StageOf(q)
  <2>1. l >= 1
    BY <1>1, <1>7 DEF IInv, PhaseInv
  <2>2. /\ Last' = l /\ Attempts'[l] = b
        /\ \A k \in 1 .. l : k = l \/ Attempts'[k] = Attempts[k]
    BY <1>1, <1>7, <2>1, Rewriting DEF IInv
  <2>3. /\ l \in Requests /\ l \in DOMAIN Attempts /\ l \in DOMAIN Attempts'
        /\ \A q \in Requests : EffectOf(q)' = EffectOf(q)
        /\ \A q \in Requests \ {l} : StageOf(q)' = StageOf(q)
    BY <1>1, <1>2, <2>1, <2>2, PromiseRewrite
  <2> QED
    BY <1>7, <2>2, <2>3, StageCases
<1>8. pc \in {"recorded", "simulated", "announced", "sent", "landed"} =>
        /\ Attempts[l] \in Attempt
        /\ Attempts[l].signature <=> pc \notin {"recorded", "simulated"}
        /\ Attempts[l].error # "none" <=> pc = "landed"
  BY <1>1, InHand
<1>9. ASSUME NEW a \in Attempt, a = Attempts[l], NEW b \in Attempt, NEW to, pc' = to,
             pc \in {"recorded", "simulated", "sent", "landed"},
             \/ report' = [report EXCEPT !.attempts[l] = b]
             \/ report' = [report EXCEPT !.attempts[l] = b, !.status = "FAILED"],
             Called(a.signature, a.error, pc) = Called(b.signature, b.error, to)
      PROVE  UNCHANGED Promise!vars
  <2>1. \A q \in Requests : StageOf(q)' = StageOf(q) /\ EffectOf(q)' = EffectOf(q)
    BY <1>7, <1>9
  <2> QED
    BY <2>1, Stutters
<1>10. CASE Simulate
  <2>1. pc = "recorded"
    BY <1>10 DEF Simulate
  <2>2. PICK a \in Attempt : a = Attempts[l]
    BY <1>8, <2>1
  <2>3. PICK b : b = [a EXCEPT !.result = IF Simulation(Tx) = "Ok" THEN "ALLOW" ELSE "DENY"]
    OBVIOUS
  <2>4. b \in Attempt /\ b.signature = a.signature
    BY <2>3 DEF Attempt
  <2>5. \/ report' = [report EXCEPT !.attempts[l] = b]
        \/ report' = [report EXCEPT !.attempts[l] = b, !.status = "FAILED"]
    BY <1>1, <1>10, <2>2, <2>3 DEF Simulate, Saves
  <2>6. PICK to : to = pc'
    OBVIOUS
  <2>7. Called(a.signature, a.error, pc) = Called(b.signature, b.error, to)
    BY <1>8, <2>1, <2>2, <2>4 DEF Called
  <2> QED
    BY <1>9, <2>1, <2>2, <2>4, <2>5, <2>6, <2>7
<1>11. CASE Examine
  <2>1. pc = "landed"
    BY <1>11 DEF Examine
  <2>2. PICK a \in Attempt : a = Attempts[l]
    BY <1>8, <2>1
  <2>3. PICK passed \in BOOLEAN : passed = Verdict(Script[l], a.before, rooted, a.error)
    <3>1. Verdict(Script[l], a.before, rooted, a.error) \in BOOLEAN
      BY DEF Verdict
    <3> QED
      BY <3>1
  <2>4. PICK b : b = [a EXCEPT !.after = rooted, !.passed = passed]
    OBVIOUS
  <2>5. b \in Attempt /\ b.signature = a.signature /\ b.error = a.error
    <3>1. rooted \in Nat
      BY Sizes DEF IInv
    <3> QED
      BY <2>3, <2>4, <3>1 DEF Attempt
  <2>6. \/ report' = [report EXCEPT !.attempts[l] = b]
        \/ report' = [report EXCEPT !.attempts[l] = b, !.status = "FAILED"]
    BY <1>1, <1>11, <2>2, <2>3, <2>4 DEF Examine, Saves, Ask
  <2>7. PICK to : to = pc'
    OBVIOUS
  <2>8. Called(a.signature, a.error, pc) = Called(b.signature, b.error, to)
    BY <1>8, <2>1, <2>2, <2>5 DEF Called
  <2> QED
    BY <1>9, <2>1, <2>2, <2>5, <2>6, <2>7, <2>8
<1>12. CASE Announce
  <2>1. pc = "simulated" /\ pc' = "announced"
    BY <1>12 DEF Announce
  <2>2. PICK a \in Attempt : a = Attempts[l]
    BY <1>8, <2>1
  <2>3. PICK b : b = [a EXCEPT !.signature = TRUE]
    OBVIOUS
  <2>4. b \in Attempt /\ b.error = a.error
    BY <2>3 DEF Attempt
  <2>5. report' = [report EXCEPT !.attempts[l] = b]
    BY <1>1, <1>12, <2>2, <2>3 DEF Announce, Saves, Signed
  <2>6. Called(a.signature, a.error, pc) = Called(b.signature, b.error, "announced")
    BY <1>8, <2>1, <2>2, <2>3, <2>4 DEF Called
  <2> QED
    BY <1>9, <2>1, <2>2, <2>4, <2>5, <2>6
<1>13. CASE Send
  <2>1. CASE ~Admitted
    BY <1>2, <1>3, <1>13, <2>1, PromiseStop DEF Send
  <2>2. CASE Admitted
    <3>1. pc = "announced" /\ pc' = "sent" /\ UNCHANGED report
      BY <1>13, <2>2 DEF Send
    <3>2. Attempts' = Attempts /\ Last' = l /\ l >= 1
      BY <1>1, <3>1 DEF Attempts, Last, IInv, PhaseInv
    <3>3. /\ l \in Requests /\ l \in DOMAIN Attempts /\ l \in DOMAIN Attempts'
          /\ \A q \in Requests : EffectOf(q)' = EffectOf(q)
          /\ \A q \in Requests \ {l} : StageOf(q)' = StageOf(q)
      BY <1>1, <1>2, <3>2, PromiseRewrite
    <3>4. Attempts[l].signature /\ Attempts[l].error = "none"
      BY <1>8, <3>1
    <3>5. StageOf(l) = "drafted"
      BY <3>1, <3>3, <3>4, StageCases DEF Called
    <3>6. StageOf(l)' = "offered"
      BY <3>1, <3>2, <3>3, <3>4, StageCases DEF Called
    <3>7. Promise!Becomes(l, "offered")
      BY <3>3, <3>6, Moves
    <3>8. Promise!Offer(l)
      BY <3>3, <3>5, <3>7 DEF Promise!Offer
    <3> QED
      BY <3>3, <3>8 DEF Promise!Next
  <2> QED
    BY <2>1, <2>2
<1>14. CASE Observe
  <2>1. pc = "sent" /\ pc' = "landed"
    BY <1>14 DEF Observe
  <2>2. PICK a \in Attempt : a = Attempts[l]
    BY <1>8, <2>1
  <2>3. PICK n \in DOMAIN blocks :
          /\ n \in 1 .. rooted /\ blocks[n].tx = Tx
          /\ report' = [report EXCEPT !.attempts[l] =
               [a EXCEPT !.error = blocks[n].error, !.executed = Executed(blocks[n].error),
                         !.signature = Signed("landed")]]
    BY <1>1, <1>14, <2>2 DEF Observe, Saves, Settled
  <2>4. PICK error : error = blocks[n].error
    OBVIOUS
  <2>5. error \in Answers /\ error # "none"
    BY <2>4, Sizes DEF IInv, Block, Answers, Errors
  <2>6. PICK done \in BOOLEAN : done = Executed(error)
    BY DEF Executed
  <2>7. PICK b : b = [a EXCEPT !.error = error, !.executed = done, !.signature = TRUE]
    OBVIOUS
  <2>8. b \in Attempt /\ b.error = error /\ b.signature
    BY <2>5, <2>6, <2>7 DEF Attempt
  <2>9. report' = [report EXCEPT !.attempts[l] = b]
    BY <2>3, <2>4, <2>6, <2>7 DEF Signed
  <2>10. /\ l \in Requests
         /\ StageOf(l) = Called(a.signature, a.error, "sent")
         /\ StageOf(l)' = Called(b.signature, b.error, "landed")
         /\ \A q \in Requests : EffectOf(q)' = EffectOf(q)
         /\ \A q \in Requests \ {l} : StageOf(q)' = StageOf(q)
    BY <1>7, <2>1, <2>2, <2>8, <2>9
  <2>11. StageOf(l) = "offered"
    BY <1>8, <2>1, <2>2, <2>10 DEF Called
  <2>12. blocks[n].tx # NoTx /\ blocks[n].tx.attempt = l
    <3>1. Last >= 1
      BY <2>1 DEF IInv, PhaseInv
    <3> QED
      BY <1>1, <2>3, <3>1, CurrentType DEF IInv
  <2>13. CASE error = "Ok"
    <3>1. StageOf(l)' = "done"
      BY <2>8, <2>10, <2>13 DEF Called
    <3>2. EffectOf(l) = "applied"
      BY <2>3, <2>4, <2>12, <2>13 DEF EffectOf, Failed
    <3>3. Promise!Becomes(l, "done")
      BY <2>10, <3>1, Moves
    <3>4. Promise!Succeed(l)
      BY <2>10, <2>11, <3>2, <3>3 DEF Promise!Succeed
    <3> QED
      BY <2>10, <3>4 DEF Promise!Next
  <2>14. CASE error # "Ok"
    <3>1. StageOf(l)' = "failed"
      BY <2>5, <2>8, <2>10, <2>14 DEF Called
    <3>2. \A m \in 1 .. rooted : blocks[m].tx # NoTx /\ blocks[m].tx.attempt = l => m = n
      <4>1. \A m \in 1 .. rooted : m \in DOMAIN blocks
        BY Sizes DEF IInv
      <4>2. \A m \in DOMAIN blocks : blocks[m].tx # NoTx => blocks[m].tx \in Taken
        BY DEF Taken
      <4> QED
        BY <2>3, <2>12, <4>1, <4>2 DEF IInv, OnceInv
    <3>3. EffectOf(l) = "void"
      BY <2>3, <2>4, <2>12, <2>14, <3>2 DEF EffectOf, Failed
    <3>4. Promise!Becomes(l, "failed")
      BY <2>10, <3>1, Moves
    <3>5. Promise!Fail(l)
      BY <2>10, <2>11, <3>3, <3>4 DEF Promise!Fail
    <3> QED
      BY <2>10, <3>5 DEF Promise!Next
  <2> QED
    BY <2>13, <2>14
<1> QED
  BY <1>4, <1>5, <1>6, <1>10, <1>11, <1>12, <1>13, <1>14 DEF Run

(* What the node holds of an attempt, and is not final, is of the attempt  *)
(* that the script sent or lost sight of.                                  *)
LEMMA StillOpen ==
  ASSUME IInv, NEW tx \in Taken, tx \notin expired,
         \A n \in 1 .. rooted : blocks[n].tx # tx, NEW r, r = tx.attempt
  PROVE  /\ r \in Requests /\ StageOf(r) \in {"offered", "unknown"} /\ EffectOf(r) = "open"
         /\ \A ty \in Taken : ty.attempt = r => ty = tx
         /\ \A n \in 1 .. rooted : ~(blocks[n].tx # NoTx /\ blocks[n].tx.attempt = r)
         /\ \A ty \in expired : ty.attempt # r
<1>1. /\ r \in 1 .. Last /\ Attempts[r].signature
      /\ r = Last => pc \notin {"recorded", "simulated", "announced"}
  BY DEF IInv, SentInv
<1>2. \A ty \in Taken : ty.attempt = r => ty = tx
  BY DEF IInv, OnceInv
<1>3. \A n \in 1 .. rooted : n \in DOMAIN blocks
  BY Sizes DEF IInv
<1>4. \A n \in 1 .. rooted : ~(blocks[n].tx # NoTx /\ blocks[n].tx.attempt = r)
  BY <1>2, <1>3 DEF Taken
<1>5. \A ty \in expired : ty.attempt # r
  BY <1>2 DEF Taken
<1>6. Attempts[r].error = "none"
  BY <1>1, <1>4, Told
<1>7. r = Last
  <2>1. r < Last => Attempts[r].passed
    BY <1>1 DEF IInv, PhaseInv
  <2>2. r < Last \/ r = Last
    BY <1>1, Recorded DEF IInv
  <2> QED
    BY <1>1, <1>6, <2>1, <2>2, Behind
<1>8. r \in DOMAIN Attempts /\ r \in Requests
  BY <1>1, Recorded, Plan DEF IInv, Requests
<1>9. StageOf(r) \in {"offered", "unknown"}
  BY <1>1, <1>6, <1>7, <1>8, StageCases DEF Called
<1>10. EffectOf(r) = "open"
  BY <1>4, <1>5 DEF EffectOf
<1> QED
  BY <1>2, <1>4, <1>5, <1>8, <1>9, <1>10

LEMMA PromiseFinalize ==
  ASSUME IInv, Finalize, \A q : StageOf(q)' = StageOf(q)
  PROVE  Promise!Next \/ UNCHANGED Promise!vars
<1>1. PICK k \in Nat : k = rooted /\ k + 1 \in DOMAIN blocks
  BY Sizes DEF Finalize, IInv
<1>2. rooted' = k + 1 /\ UNCHANGED <<blocks, expired>>
  BY <1>1 DEF Finalize
<1>3. /\ \A n \in 1 .. k + 1 : n \in 1 .. k \/ n = k + 1
      /\ \A n \in 1 .. k : n \in 1 .. k + 1 /\ n \in DOMAIN blocks /\ n # k + 1
      /\ k + 1 \in 1 .. k + 1
  BY <1>1, Sizes DEF IInv
<1>4. \A n : Failed(n)' <=> Failed(n)
  BY <1>2 DEF Failed
<1>5. PICK tx : tx = blocks[k + 1].tx
  OBVIOUS
<1>6. ASSUME NEW q, tx = NoTx \/ tx.attempt # q
      PROVE  EffectOf(q)' = EffectOf(q)
  <2>1. /\ (\E n \in 1 .. k + 1 : blocks[n].tx # NoTx /\ blocks[n].tx.attempt = q) <=>
             (\E n \in 1 .. k : blocks[n].tx # NoTx /\ blocks[n].tx.attempt = q)
        /\ (\E n \in 1 .. k + 1 : blocks[n].tx # NoTx /\ blocks[n].tx.attempt = q /\ ~Failed(n)) <=>
             (\E n \in 1 .. k : blocks[n].tx # NoTx /\ blocks[n].tx.attempt = q /\ ~Failed(n))
    BY <1>3, <1>5, <1>6
  <2> QED
    BY <1>1, <1>2, <1>4, <2>1 DEF EffectOf
<1>7. CASE tx = NoTx
  BY <1>6, <1>7, Stutters
<1>8. CASE tx # NoTx
  <2>1. tx \in Taken /\ tx \notin expired
    BY <1>1, <1>5, <1>8 DEF Taken, IInv, OnceInv
  <2>2. \A n \in 1 .. rooted : blocks[n].tx # tx
    BY <1>1, <1>3, <1>5, <1>8 DEF IInv, OnceInv
  <2>3. PICK r : r = tx.attempt
    OBVIOUS
  <2>4. r \in Requests /\ StageOf(r) \in {"offered", "unknown"} /\ EffectOf(r) = "open"
    BY <2>1, <2>2, <2>3, StillOpen
  <2>5. EffectOf(r)' \in {"applied", "void"}
    BY <1>2, <1>3, <1>5, <1>8, <2>3 DEF EffectOf
  <2>6. \A q \in Requests \ {r} : EffectOf(q)' = EffectOf(q)
    BY <1>6, <2>3
  <2> QED
    BY <2>4, <2>5, <2>6, Settles
<1> QED
  BY <1>7, <1>8

LEMMA PromiseExpire ==
  ASSUME IInv, NEW tx \in waiting, Expire(tx), \A q : StageOf(q)' = StageOf(q)
  PROVE  Promise!Next
<1>1. expired' = expired \cup {tx} /\ UNCHANGED <<blocks, rooted>>
  BY DEF Expire
<1>2. tx \in Taken /\ tx \notin expired
  BY DEF Taken, IInv, OnceInv
<1>3. \A n \in 1 .. rooted : blocks[n].tx # tx
  BY Sizes DEF IInv, OnceInv
<1>4. PICK r : r = tx.attempt
  OBVIOUS
<1>5. /\ r \in Requests /\ StageOf(r) \in {"offered", "unknown"} /\ EffectOf(r) = "open"
      /\ \A n \in 1 .. rooted : ~(blocks[n].tx # NoTx /\ blocks[n].tx.attempt = r)
  BY <1>2, <1>3, <1>4, StillOpen
<1>6. \A n : Failed(n)' <=> Failed(n)
  BY <1>1 DEF Failed
<1>7. EffectOf(r)' = "void"
  BY <1>1, <1>4, <1>5 DEF EffectOf
<1>8. ASSUME NEW q \in Requests \ {r} PROVE EffectOf(q)' = EffectOf(q)
  <2>1. (\E ty \in expired' : ty.attempt = q) <=> (\E ty \in expired : ty.attempt = q)
    BY <1>1, <1>4
  <2> QED
    BY <1>1, <1>6, <2>1 DEF EffectOf
<1> QED
  BY <1>5, <1>7, <1>8, Settles

LEMMA PromiseCluster ==
  ASSUME IInv, ClusterMoves
  PROVE  Promise!Next \/ UNCHANGED Promise!vars
<1>1. UNCHANGED script /\ Steady
  BY ClusterStep
<1>2. \A q : StageOf(q)' = StageOf(q)
  BY <1>1 DEF script, StageOf, Attempts
<1>3. (\E b \in Block : Extends(b)) \/ Confirm \/ Finalize \/ Abandon
        \/ \E tx \in waiting : Expire(tx)
  BY ClusterCases DEF IInv
<1>4. CASE (\E b \in Block : Extends(b)) \/ Confirm \/ Abandon
  <2>1. rooted' = rooted /\ expired' = expired
    BY <1>4 DEF Extends, Confirm, Abandon
  <2>2. \A n \in 1 .. rooted : blocks'[n] = blocks[n]
    BY <1>1 DEF Steady
  <2> QED
    BY <1>2, <2>1, <2>2, EffectSame, Stutters
<1> QED
  BY <1>2, <1>3, <1>4, PromiseFinalize, PromiseExpire

(* What the report tells of a transaction stays true, and none is executed *)
(* twice: VerifyRun implements AtMostOnce, RequestsHonoured.               *)
THEOREM Honoured == Spec => RequestsHonoured
<1>1. Init => Promise!Init
  <2> SUFFICES ASSUME Init PROVE Promise!Init
    OBVIOUS
  <2>1. Attempts = <<>> /\ blocks = <<>> /\ rooted = 0 /\ expired = {}
    BY DEF Init, ClusterInit, Attempts
  <2>2. ASSUME NEW q \in Requests PROVE StageOf(q) = "drafted" /\ EffectOf(q) = "open"
    <3>1. q \notin DOMAIN Attempts
      BY <2>1
    <3> QED
      BY <2>1, <3>1, StageCases DEF EffectOf
  <2> QED
    BY <2>2 DEF Promise!Init
<1>2. IInv /\ IInv' /\ [Next]_vars => [Promise!Next]_Promise!vars
  <2> SUFFICES ASSUME IInv, IInv', [Next]_vars PROVE [Promise!Next]_Promise!vars
    OBVIOUS
  <2>1. CASE UNCHANGED vars
    <3>1. UNCHANGED <<report, pc, blocks, rooted, expired>>
      BY <2>1 DEF vars, clusterVars
    <3>2. \A q : StageOf(q)' = StageOf(q)
      BY <3>1 DEF StageOf, Attempts
    <3> QED
      BY <3>1, <3>2, EffectSame, Stutters
  <2>2. CASE ClusterMoves
    BY <2>2, PromiseCluster
  <2>3. CASE Run \/ Crash
    BY <2>3, PromiseRun
  <2> QED
    BY <2>1, <2>2, <2>3 DEF Next, ClusterMoves
<1> QED
  BY Invariant, <1>1, <1>2, PTL DEF Spec, RequestsHonoured, Promise!Spec
=============================================================================
