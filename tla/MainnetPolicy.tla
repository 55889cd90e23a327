--------------------------- MODULE MainnetPolicy ---------------------------
(***************************************************************************)
(* The program of programs/veyro-mainnet: three instructions over fixed    *)
(* offsets of a 154-byte account, with no custody and no clock of its own. *)
(* CHECK_SPEND compares a timestamp its caller wrote, right or wrong, so   *)
(* the transactions that carry the instructions are modelled too: signed   *)
(* at one time, then landed later, in any order, or lost.                  *)
(*                                                                         *)
(* An instruction that returns an error changes nothing, whichever code it *)
(* returns: it is one of the ways Lose drops a transaction.                *)
(***************************************************************************)
EXTENDS U64, Sequences, FiniteSets

CONSTANTS
  Keys, NoKey,       \* public keys, and the 32 zero bytes of a new account
  Accounts,          \* accounts allocated to the program
  DataLen,           \* their sizes, fixed at allocation
  Calls,             \* instructions that clients may sign
  FreshAccountsOnly, \* clients create a policy only in a new account
  MaxTime,           \* bound: the clock stops there
  MaxDelay,          \* a signed transaction lands within this time or never
  MaxInFlight        \* bound: transactions signed and not landed

CREATE_POLICY == 1
REVOKE_POLICY == 2
CHECK_SPEND == 3
VERSION == 1
POLICY_LEN == 154

(* The account, field by field; label is the 16 tag bytes.                 *)
Account ==
  [version: {0, VERSION}, active: {0, 1}, owner: Keys \cup {NoKey},
   agent: Keys \cup {NoKey}, max: U64Range, budget: U64Range, spent: U64Range,
   expiry: U64Range, nonce: U64Range, recipient: Keys \cup {NoKey}, label: U64Range]

Zeroed ==
  [version |-> 0, active |-> 0, owner |-> NoKey, agent |-> NoKey, max |-> 0, budget |-> 0,
   spent |-> 0, expiry |-> 0, nonce |-> 0, recipient |-> NoKey, label |-> 0]

(* The instructions: tag, number of accounts, length of the data, the      *)
(* signer in accounts[0], the policy in accounts[1], and the data itself.  *)
CreateCall ==
  [tag: {CREATE_POLICY}, count: Nat, len: Nat, signer: Keys, is_signer: BOOLEAN,
   is_writable: BOOLEAN, account: Accounts, agent: Keys, max: U64Range, budget: U64Range,
   expiry: U64Range, nonce: U64Range, recipient: Keys, label: U64Range]

RevokeCall ==
  [tag: {REVOKE_POLICY}, count: Nat, len: Nat, signer: Keys, is_signer: BOOLEAN,
   is_writable: BOOLEAN, account: Accounts]

SpendCall ==
  [tag: {CHECK_SPEND}, count: Nat, len: Nat, signer: Keys, is_signer: BOOLEAN,
   is_writable: BOOLEAN, account: Accounts, amount: U64Range, timestamp: U64Range,
   recipient: Keys, label: U64Range]

ASSUME MainnetAssumption ==
  /\ NoKey \notin Keys
  /\ DataLen \in [Accounts -> Nat]
  /\ Calls \subseteq CreateCall \cup RevokeCall \cup SpendCall
  /\ FreshAccountsOnly \in BOOLEAN
  /\ {MaxTime, MaxDelay, MaxInFlight} \subseteq Nat

VARIABLES
  account,    \* the data of each policy account
  now,        \* time, which no instruction reads
  inflight,   \* transactions signed and neither landed nor lost
  approvals   \* history: what CHECK_SPEND approved on an account, ever

vars == <<account, now, inflight, approvals>>

----------------------------------------------------------------------------
(* Faulty variants: each is a slip one of the checks below prevents.       *)

SpendAllowed_SpentSoFar(p, c) ==
  /\ c.amount # 0 /\ c.amount <= p.max /\ c.timestamp <= p.expiry
  /\ Fits(p.spent + c.amount) /\ p.spent < p.budget
  /\ p.recipient = c.recipient /\ p.label = c.label
  /\ Fits(p.nonce + 1)

SpendAllowed_NoExpiry(p, c) ==
  /\ c.amount # 0 /\ c.amount <= p.max
  /\ Fits(p.spent + c.amount) /\ p.spent + c.amount <= p.budget
  /\ p.recipient = c.recipient /\ p.label = c.label
  /\ Fits(p.nonce + 1)

Sized_Any(c) == TRUE

Spent_Uncounted(p, amount) == [p EXCEPT !.nonce = @ + 1]

Spendable_Revoked(p, c) == p.version = VERSION /\ p.agent = c.signer

----------------------------------------------------------------------------
(* entrypoint: deserialize takes at most two accounts, every handler needs *)
(* two, and the first byte of the data selects the handler.                *)
Dispatched(c, tag) == c.count = 2 /\ c.len > 0 /\ c.tag = tag

Sized(c) == DataLen[c.account] >= POLICY_LEN

(* create_policy looks at lengths and flags, and not at what the account   *)
(* already holds.                                                          *)
Created(c) ==
  [version |-> VERSION, active |-> 1, owner |-> c.signer, agent |-> c.agent, max |-> c.max,
   budget |-> c.budget, spent |-> 0, expiry |-> c.expiry, nonce |-> c.nonce,
   recipient |-> c.recipient, label |-> c.label]

Spendable(p, c) == p.version = VERSION /\ p.active = 1 /\ p.agent = c.signer

SpendAllowed(p, c) ==
  /\ c.amount # 0 /\ c.amount <= p.max /\ c.timestamp <= p.expiry
  /\ Fits(p.spent + c.amount) /\ p.spent + c.amount <= p.budget
  /\ p.recipient = c.recipient /\ p.label = c.label
  /\ Fits(p.nonce + 1)

Spent(p, amount) == [p EXCEPT !.spent = @ + amount, !.nonce = @ + 1]

(* A transaction lands once, at most MaxDelay after it was signed.         *)
Lands(t) ==
  /\ t \in inflight
  /\ now - t.sent <= MaxDelay
  /\ inflight' = inflight \ {t}
  /\ UNCHANGED now

----------------------------------------------------------------------------
Init ==
  /\ account = [a \in Accounts |-> Zeroed]
  /\ now = 0
  /\ inflight = {}
  /\ approvals = [a \in Accounts |-> <<>>]

(* The client allocates the account in the same transaction, if it is one  *)
(* that keeps to new accounts; the program does not ask.                   *)
CreatePolicy(t) ==
  LET c == t.call IN
  /\ Dispatched(c, CREATE_POLICY)
  /\ Lands(t)
  /\ c.is_signer /\ c.is_writable
  /\ c.len = 113
  /\ Sized(c)
  /\ FreshAccountsOnly => account[c.account] = Zeroed
  /\ account' = [account EXCEPT ![c.account] = Created(c)]
  /\ UNCHANGED approvals

RevokePolicy(t) ==
  LET c == t.call
      p == account[c.account]
  IN
  /\ Dispatched(c, REVOKE_POLICY)
  /\ Lands(t)
  /\ c.is_signer /\ c.is_writable
  /\ Sized(c)
  /\ p.version = VERSION /\ p.owner = c.signer
  /\ account' = [account EXCEPT ![c.account].active = 0]
  /\ UNCHANGED approvals

(* The runtime, not the program, fails a write to a read-only account.     *)
CheckSpend(t) ==
  LET c == t.call
      p == account[c.account]
  IN
  /\ Dispatched(c, CHECK_SPEND)
  /\ Lands(t)
  /\ c.is_signer /\ c.len = 65
  /\ Sized(c)
  /\ Spendable(p, c)
  /\ SpendAllowed(p, c)
  /\ c.is_writable
  /\ account' = [account EXCEPT ![c.account] = Spent(p, c.amount)]
  /\ approvals' = [approvals EXCEPT ![c.account] =
       Append(@, [amount |-> c.amount, nonce |-> p.nonce, timestamp |-> c.timestamp,
                  sent |-> t.sent, at |-> now])]

(* A client signs an instruction.  sent is known to nobody on chain.       *)
Send(c) ==
  /\ Cardinality(inflight) < MaxInFlight
  /\ inflight' = inflight \cup {[call |-> c, sent |-> now]}
  /\ UNCHANGED <<account, now, approvals>>

Lose(t) ==
  /\ inflight' = inflight \ {t}
  /\ UNCHANGED <<account, now, approvals>>

Tick ==
  /\ now < MaxTime
  /\ now' = now + 1
  /\ UNCHANGED <<account, inflight, approvals>>

Next ==
  \/ \E t \in inflight : CreatePolicy(t) \/ RevokePolicy(t) \/ CheckSpend(t) \/ Lose(t)
  \/ \E c \in Calls : Send(c)
  \/ Tick

Spec == Init /\ [][Next]_vars

----------------------------------------------------------------------------
(* An account is zeroed or holds a policy that fits its fields.            *)
TypeOK ==
  /\ account \in [Accounts -> Account]
  /\ now \in 0 .. MaxTime
  /\ \A t \in inflight : t.call \in Calls /\ t.sent \in 0 .. now
  /\ \A a \in Accounts : account[a] # Zeroed => DataLen[a] >= POLICY_LEN

(* What the policy has counted is within its budget.                       *)
SpentWithinBudget == \A a \in Accounts : account[a].spent <= account[a].budget

(* When policies are created in new accounts only, an account's counters   *)
(* account for all it ever approved: nonces are consecutive and lead to    *)
(* the stored one, and no approval is missing from spent.                  *)
ApprovalsReconcile ==
  \A a \in Accounts :
    LET log == approvals[a]
        Total[i \in 0 .. Len(log)] == IF i = 0 THEN 0 ELSE Total[i - 1] + log[i].amount
    IN
    /\ account[a].spent = Total[Len(log)]
    /\ \A i \in DOMAIN log : log[i].nonce + Len(log) - i + 1 = account[a].nonce

(* The program bounds what callers claim and not when they spend: every    *)
(* approval carries a timestamp up to expiry.  One that comes later than   *)
(* the life of a transaction after expiry was dated back by its agent;     *)
(* agents who write no less than the time they sign at are never that late.*)
ApprovedInTime ==
  \A a \in Accounts : \A i \in DOMAIN approvals[a] :
    LET spend == approvals[a][i] IN
    /\ spend.timestamp <= account[a].expiry
    /\ spend.at > account[a].expiry + MaxDelay => spend.timestamp < spend.sent

(* docs/MAINNET_WIRE_FORMAT.md: a revoked policy is never reset or         *)
(* reactivated.  Nothing in flight when it is revoked can change it later. *)
RevokedIsFinal ==
  [][\A a \in Accounts :
       account[a].version = VERSION /\ account[a].active = 0
         => account'[a] = account[a]]_vars
=============================================================================
