----------------------------- MODULE SwapPolicy -----------------------------
(***************************************************************************)
(* The PolicyV2 half of programs/veyro/src/lib.rs: pools, policies, the    *)
(* agent's execute_swap and the owner's revoke and recover, each one       *)
(* instruction of the program and one action here, between the token       *)
(* transfers, authority changes and clock of Chain.                        *)
(***************************************************************************)
EXTENDS Chain, PolicyRules

CONSTANTS
  PoolArgs,         \* create_pool instructions that may be sent
  PolicyArgs,       \* create_policy instructions
  SwapRequests,     \* execute_swap instructions, signed by agent and executor
  RecoverRequests,  \* recover instructions, signed by owner
  Programs, TOKEN,  \* program addresses, and the one of the token program
  MaxLog            \* bound: revoke is not repeated once the log is this long

VARIABLES
  pools,            \* Pool accounts by address
  policies,         \* PolicyV2 accounts by address
  events,           \* what each policy emitted: the log its clients read
  charged           \* history: spent under a policy in the transaction tx

vars == <<balance, authority, plain, now, tx, pools, policies, events, charged>>

POLICY_VERSION == 2
MAX_RATE == 1000000

PoolArgType ==
  [admin: Wallets, quote_mint: Mints, output_mint: Mints, rate: U64Range]

PolicyArgType ==
  [owner: Wallets, agent: Wallets, executor: Wallets,
   pool: { PoolPda(c.admin, c.output_mint) : c \in PoolArgs },
   allowed_recipients: Seq(Addresses), allowed_programs: Seq(Programs),
   max_amount: U64Range, total_limit: U64Range, expires_at: Nat, min_rate: U64Range]

PoolAddresses == { PoolPda(c.admin, c.output_mint) : c \in PoolArgs }
PolicyAddresses == { PolicyPda(c.owner, c.agent) : c \in PolicyArgs }

SwapRequestType ==
  [agent: Wallets, executor: Wallets, policy: PolicyAddresses, pool: PoolAddresses,
   vault: TokenAccounts, pool_quote: TokenAccounts, pool_output: TokenAccounts,
   recipient: TokenAccounts, amount: U64Range, min_output: U64Range, nonce: U64Range]

RecoverRequestType ==
  [owner: Wallets, policy: PolicyAddresses, pool: PoolAddresses,
   vault: TokenAccounts, destination: TokenAccounts, amount: U64Range]

ASSUME SwapPolicyAssumption ==
  /\ PoolArgs \subseteq PoolArgType
  /\ PolicyArgs \subseteq PolicyArgType
  /\ SwapRequests \subseteq SwapRequestType
  /\ RecoverRequests \subseteq RecoverRequestType
  /\ MaxLog \in Nat

Pool == [admin: Wallets, quote_mint: Mints, output_mint: Mints, rate: U64Range]

PolicyV2 ==
  [version: {POLICY_VERSION}, owner: Wallets, agent: Wallets, executor: Wallets,
   pool: PoolAddresses, max_amount: U64Range, total_limit: U64Range, spent: U64Range,
   expires_at: Nat, nonce: U64Range, min_rate: U64Range, active: BOOLEAN,
   allowed_recipients: Seq(Addresses), allowed_programs: Seq(Programs)]

ASSUME NoAccountAssumption == NoAccount \notin Pool /\ NoAccount \notin PolicyV2

Event ==
  [kind: {"PolicyCreated"}, owner: Wallets, agent: Wallets]
    \cup [kind: {"Executed"}, amount: U64Range, output: U64Range, nonce: U64Range,
          spent: U64Range, at: Nat]
    \cup [kind: {"Revoked"}, at: Nat]

----------------------------------------------------------------------------
(* Faulty variants: each is a slip one of the checks below prevents.       *)

OnlyInstruction_Wrapped(pl) == pl.before = "nothing" /\ ~pl.after

ValidateToken_AnyAuthority(t, mint, owner) == MintOf[t] = mint /\ plain[t]

Priced_Wrapping(p, pool, amount, min_output) ==
  LET wrap(n) == n % (MaxU64 + 1) IN
  /\ min_output > 0
  /\ min_output >= wrap(amount * p.min_rate)
  /\ wrap(amount * pool.rate) >= min_output

Manageable_Unexpired(p, a, owner) ==
  p.owner = owner /\ a = PolicyPda(p.owner, p.agent) /\ now < p.expires_at

Recoverable_AnyDestination(p, pool, r) ==
  ~p.active /\ MintOf[r.vault] = pool.quote_mint /\ authority[r.vault] = r.policy
    /\ plain[r.vault]

----------------------------------------------------------------------------
(* has_one=owner and the seeds of the policy, for revoke and recover.      *)
Manageable(p, a, owner) == p.owner = owner /\ a = PolicyPda(p.owner, p.agent)

(* execute_swap stands alone in its transaction and is not called by a     *)
(* wrapper: stack height 1, index 0 and no instruction 1.                  *)
OnlyInstruction(pl) == pl.height = 1 /\ pl.before = "nothing" /\ ~pl.after

ValidateToken(t, mint, owner) == MintOf[t] = mint /\ authority[t] = owner /\ plain[t]

(* checked_mul of both products, and the slippage requirement.             *)
Priced(p, pool, amount, min_output) ==
  /\ Fits(amount * pool.rate) /\ Fits(amount * p.min_rate)
  /\ min_output > 0
  /\ min_output >= amount * p.min_rate
  /\ amount * pool.rate >= min_output

Distinct(r) == r.vault # r.pool_quote /\ r.pool_output # r.recipient

Recoverable(p, pool, r) ==
  /\ ~p.active
  /\ ValidateToken(r.vault, pool.quote_mint, r.policy)
  /\ ValidateToken(r.destination, pool.quote_mint, p.owner)

Emit(a, event) == events' = [events EXCEPT ![a] = Append(@, event)]

(* What the current transaction has charged each policy so far.            *)
Charged(pl) == IF pl.begins THEN [a \in PolicyAddresses |-> 0] ELSE charged

----------------------------------------------------------------------------
Init ==
  /\ ChainInit
  /\ pools = [a \in PoolAddresses |-> NoAccount]
  /\ policies = [a \in PolicyAddresses |-> NoAccount]
  /\ events = [a \in PolicyAddresses |-> <<>>]
  /\ charged = [a \in PolicyAddresses |-> 0]

CreatePool(c, pl) ==
  LET a == PoolPda(c.admin, c.output_mint) IN
  /\ Place(pl)
  /\ NewAccount(pools[a])
  /\ c.rate > 0 /\ c.rate <= MAX_RATE /\ c.quote_mint # c.output_mint
  /\ pools' = [pools EXCEPT ![a] = c]
  /\ charged' = Charged(pl)
  /\ UNCHANGED <<balance, authority, plain, now, policies, events>>

CreatePolicy(c, pl) ==
  LET a == PolicyPda(c.owner, c.agent) IN
  /\ Place(pl)
  /\ NewAccount(policies[a])
  /\ pools[c.pool] # NoAccount
  /\ c.max_amount > 0 /\ c.total_limit >= c.max_amount /\ c.min_rate > 0
  /\ c.expires_at > now
  /\ c.agent # c.owner /\ c.executor # c.agent /\ c.executor # c.owner
  /\ ValidateAllowlists(c.allowed_recipients, c.allowed_programs)
  /\ policies' = [policies EXCEPT ![a] =
       [version |-> POLICY_VERSION, owner |-> c.owner, agent |-> c.agent,
        executor |-> c.executor, pool |-> c.pool, max_amount |-> c.max_amount,
        total_limit |-> c.total_limit, spent |-> 0, expires_at |-> c.expires_at,
        nonce |-> 0, min_rate |-> c.min_rate, active |-> TRUE,
        allowed_recipients |-> c.allowed_recipients,
        allowed_programs |-> c.allowed_programs]]
  /\ Emit(a, [kind |-> "PolicyCreated", owner |-> c.owner, agent |-> c.agent])
  /\ charged' = Charged(pl)
  /\ UNCHANGED <<balance, authority, plain, now, pools>>

(* The program lets a revoked policy be revoked again; only the repeats    *)
(* are bounded here.                                                       *)
CanRevoke(owner, a) ==
  LET p == policies[a] IN
  /\ p # NoAccount
  /\ Manageable(p, a, owner)
  /\ p.version = POLICY_VERSION
  /\ p.active \/ Len(events[a]) < MaxLog

Revoke(owner, a, pl) ==
  /\ Place(pl)
  /\ CanRevoke(owner, a)
  /\ policies' = [policies EXCEPT ![a].active = FALSE]
  /\ Emit(a, [kind |-> "Revoked", at |-> now])
  /\ charged' = Charged(pl)
  /\ UNCHANGED <<balance, authority, plain, now, pools>>

ExecuteSwap(r, pl) ==
  LET p == policies[r.policy]
      pool == pools[r.pool]
      output == r.amount * pool.rate
      paid == AfterTransfer(balance, r.vault, r.pool_quote, r.amount)
  IN
  /\ Place(pl)
  /\ p # NoAccount /\ pool # NoAccount
  /\ p.agent = r.agent /\ p.executor = r.executor /\ p.pool = r.pool
  /\ r.policy = PolicyPda(p.owner, p.agent)
  /\ OnlyInstruction(pl)
  /\ p.version = POLICY_VERSION
  /\ ValidateSpend(p, now, r.nonce, r.amount)
  /\ TOKEN \in Listed(p.allowed_programs)
  /\ Priced(p, pool, r.amount, r.min_output)
  /\ ValidateToken(r.vault, pool.quote_mint, r.policy)
  /\ ValidateToken(r.pool_quote, pool.quote_mint, r.pool)
  /\ ValidateToken(r.pool_output, pool.output_mint, r.pool)
  /\ authority[r.recipient] \in Listed(p.allowed_recipients)
  /\ ValidateToken(r.recipient, pool.output_mint, authority[r.recipient])
  /\ Distinct(r)
  /\ CanTransfer(balance, r.policy, r.vault, r.pool_quote, r.amount)
  /\ CanTransfer(paid, r.pool, r.pool_output, r.recipient, output)
  /\ Fits(p.nonce + 1)
  /\ balance' = AfterTransfer(paid, r.pool_output, r.recipient, output)
  /\ policies' = [policies EXCEPT ![r.policy].spent = @ + r.amount,
                                  ![r.policy].nonce = @ + 1]
  /\ Emit(r.policy, [kind |-> "Executed", amount |-> r.amount, output |-> output,
                     nonce |-> r.nonce, spent |-> p.spent + r.amount, at |-> now])
  /\ charged' = [Charged(pl) EXCEPT ![r.policy] = @ + r.amount]
  /\ UNCHANGED <<authority, plain, now, pools>>

CanRecover(r) ==
  LET p == policies[r.policy]
      pool == pools[r.pool]
  IN
  /\ p # NoAccount /\ pool # NoAccount
  /\ Manageable(p, r.policy, r.owner)
  /\ p.pool = r.pool
  /\ p.version = POLICY_VERSION
  /\ Recoverable(p, pool, r)
  /\ CanTransfer(balance, r.policy, r.vault, r.destination, r.amount)

Recover(r, pl) ==
  /\ Place(pl)
  /\ CanRecover(r)
  /\ balance' = AfterTransfer(balance, r.vault, r.destination, r.amount)
  /\ charged' = Charged(pl)
  /\ UNCHANGED <<authority, plain, now, pools, policies, events>>

(* A transaction that holds no Veyro instruction.                          *)
Environment ==
  /\ ChainNext
  /\ charged' = [a \in PolicyAddresses |-> 0]
  /\ UNCHANGED <<pools, policies, events>>

Next ==
  \/ \E c \in PoolArgs, pl \in Placements : CreatePool(c, pl)
  \/ \E c \in PolicyArgs, pl \in Placements : CreatePolicy(c, pl)
  \/ \E owner \in Wallets, a \in PolicyAddresses, pl \in Placements : Revoke(owner, a, pl)
  \/ \E r \in SwapRequests, pl \in Placements : ExecuteSwap(r, pl)
  \/ \E r \in RecoverRequests, pl \in Placements : Recover(r, pl)
  \/ Environment

Spec == Init /\ [][Next]_vars
----------------------------------------------------------------------------
(* What the properties below read off the state.                           *)

(* The promise a policy makes, as Mandate sees it.                         *)
MandateOf(p) ==
  IF p = NoAccount
  THEN [phase |-> "none"]
  ELSE [phase |-> IF p.active THEN "active" ELSE "revoked", cap |-> p.max_amount,
        limit |-> p.total_limit, deadline |-> p.expires_at,
        spent |-> p.spent, nonce |-> p.nonce]

Mdt == INSTANCE Mandate
  WITH Mandates <- PolicyAddresses,
       Accounts <- TokenAccounts,
       mandate <- [a \in PolicyAddresses |-> MandateOf(policies[a])],
       held <- [a \in PolicyAddresses |-> HeldBy(a)]

Gain(t) == balance'[t] - balance[t]

Exists(a) == policies[a] # NoAccount
----------------------------------------------------------------------------
(* Every account holds a record of its layout, and the allowlists fit in   *)
(* the space that create_policy allocates for them.                        *)
TypeOK ==
  /\ ChainTypeOK
  /\ pools \in [PoolAddresses -> Pool \cup {NoAccount}]
  /\ policies \in [PolicyAddresses -> PolicyV2 \cup {NoAccount}]
  /\ events \in [PolicyAddresses -> Seq(Event)]
  /\ charged \in [PolicyAddresses -> Nat]
  /\ \A a \in PolicyAddresses : Exists(a) =>
       /\ Len(policies[a].allowed_recipients) <= MAX_RECIPIENTS
       /\ Len(policies[a].allowed_programs) <= MAX_PROGRAMS

(* What a policy has spent is within the total the owner signed for.       *)
SpentWithinLimit ==
  \A a \in PolicyAddresses : Exists(a) => policies[a].spent <= policies[a].total_limit

(* The log alone reconstructs the policy: it opens with the one creation,  *)
(* then come swaps numbered from 0 whose running totals add up and which   *)
(* all precede the deadline, then only revocations; the account's nonce,   *)
(* spent and active are what the log says.  A replayed or reordered swap,  *)
(* a swap after a revocation or a second creation would break it.          *)
LogReconciles ==
  \A a \in PolicyAddresses :
    LET log == events[a]
        p == policies[a]
        SpentAt(i) == IF log[i].kind = "Executed" THEN log[i].spent ELSE 0
    IN
    IF p = NoAccount THEN log = <<>> ELSE
    /\ Len(log) > 0
    /\ \A i \in DOMAIN log : log[i].kind = "PolicyCreated" <=> i = 1
    /\ \A i \in DOMAIN log : log[i].kind = "Executed" =>
         /\ i > 1 /\ log[i - 1].kind # "Revoked"
         /\ log[i].nonce = i - 2
         /\ log[i].spent = SpentAt(i - 1) + log[i].amount
         /\ log[i].at < p.expires_at
    /\ p.active <=> log[Len(log)].kind # "Revoked"
    /\ \E n \in DOMAIN log :
         /\ p.nonce = n - 1 /\ p.spent = SpentAt(n)
         /\ \A i \in DOMAIN log : log[i].kind = "Revoked" <=> i > n

(* However many instructions a transaction carries, and whoever wraps      *)
(* them, it charges a policy no more than one maximum amount.              *)
OneSpendPerTransaction ==
  \A a \in PolicyAddresses : Exists(a) => charged[a] <= policies[a].max_amount

(* The owner can always leave.  An active policy can be revoked and, once  *)
(* it is revoked, every unencumbered vault of it can be emptied into any   *)
(* unencumbered account of the owner, after the deadline as well: in a     *)
(* transaction of its own, the instruction meets all that it demands.      *)
OwnerCanExit ==
  \A a \in PolicyAddresses : Exists(a) =>
    LET p == policies[a] IN
    /\ Follows(Alone)
    /\ IF p.active
       THEN CanRevoke(p.owner, a)
       ELSE \A v, d \in TokenAccounts :
              /\ authority[v] = a /\ authority[d] = p.owner /\ plain[v] /\ plain[d]
              /\ MintOf[v] = pools[p.pool].quote_mint /\ MintOf[d] = MintOf[v]
              => CanRecover([owner |-> p.owner, policy |-> a, pool |-> p.pool, vault |-> v,
                             destination |-> d, amount |-> balance[v]])

(* The program implements the mandate: every step of it spends within cap, *)
(* limit and deadline under a fresh nonce, or spends nothing.              *)
MandateHonoured == Mdt!Spec

(* The owner's floor: whenever spent rises, one account of an allowed      *)
(* recipient gains at least min_rate output tokens for each token spent.   *)
FloorHonoured ==
  [][\A a \in PolicyAddresses : Exists(a) =>
       LET p == policies[a]
           cost == policies'[a].spent - p.spent
       IN cost > 0 =>
            \E t \in TokenAccounts :
              /\ authority[t] \in Listed(p.allowed_recipients)
              /\ MintOf[t] = pools[p.pool].output_mint
              /\ Gain(t) >= cost * p.min_rate]_vars

(* A pool sells at its own rate: whatever an account of the pool loses is  *)
(* output, paid for in quote tokens to the pool in that same step.         *)
PoolPriceHonoured ==
  [][\A q \in PoolAddresses, t \in TokenAccounts :
       authority[t] = q /\ Gain(t) < 0 =>
         /\ pools[q] # NoAccount /\ MintOf[t] = pools[q].output_mint
         /\ \E u \in TokenAccounts :
              /\ authority[u] = q /\ MintOf[u] = pools[q].quote_mint
              /\ Gain(u) * pools[q].rate = -Gain(t)]_vars

(* No token leaves a vault unaccounted for: while the policy is active the *)
(* loss is what spent rises by, afterwards the owner receives all of it.   *)
VaultOutflow ==
  [][\A a \in PolicyAddresses, v \in TokenAccounts :
       authority[v] = a /\ Gain(v) < 0 =>
         /\ Exists(a)
         /\ IF policies[a].active
            THEN policies'[a].spent - policies[a].spent = -Gain(v)
            ELSE \E d \in TokenAccounts :
                   /\ authority[d] = policies[a].owner /\ MintOf[d] = MintOf[v]
                   /\ Gain(d) = -Gain(v)]_vars
=============================================================================
