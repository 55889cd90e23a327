----------------------------- MODULE LivePolicy -----------------------------
(***************************************************************************)
(* The LivePolicy half of programs/veyro/src/lib.rs.  execute_route hands  *)
(* the policy's signature to a program the owner allowed, and learns what  *)
(* became of the tokens only from the balances before and after.  The      *)
(* routed program is external: of what it does only the outcome matters,   *)
(* the change of each balance, the accounts it took over, and those whose  *)
(* delegate or close authority it set or withdrew.                         *)
(***************************************************************************)
EXTENDS Chain, PolicyRules

LOCAL INSTANCE Functions

CONSTANTS
  PolicyArgs,       \* create_live_policy instructions that may be sent
  RouteRequests,    \* execute_route instructions, signed by agent and executor
  Outcomes,         \* what a routed program may have done when it returns
  RecoverRequests,  \* recover_live instructions, signed by owner
  ClassicMints,     \* mints that are initialized classic SPL mints
  Programs,         \* program addresses
  SignerOf,         \* the address whose accounts a routed program controls
  KeepsToVault,     \* routed programs spend from the vault they were given
  MaxLog            \* bound: revoke_live is not repeated once the log is this long

VARIABLES
  livePolicies,     \* LivePolicy accounts by address
  liveEvents,       \* what each policy emitted
  entrusted         \* accounts each policy was given with nobody else's claim on
                    \* them; a history variable that only OwnerCanExit reads

vars == <<balance, authority, plain, now, tx, livePolicies, liveEvents, entrusted>>

LIVE_POLICY_VERSION == 1
MAX_ROUTE_DATA == 1024

PolicyAddresses == { LivePolicyPda(c.owner, c.agent) : c \in PolicyArgs }

PolicyArgType ==
  [owner: Wallets, agent: Wallets, executor: Wallets, quote_mint: Mints,
   allowed_recipients: Seq(Addresses), allowed_programs: Seq(Programs),
   max_amount: U64Range, total_limit: U64Range, expires_at: Nat]

(* remaining: the token accounts passed on to the route; signs: whether    *)
(* the policy itself is among them, where it becomes the signer.           *)
RouteRequestType ==
  [agent: Wallets, executor: Wallets, policy: PolicyAddresses, vault: TokenAccounts,
   destination: TokenAccounts, route_program: Programs, remaining: SUBSET TokenAccounts,
   signs: BOOLEAN, route_data: Nat, amount: U64Range, min_output: U64Range, nonce: U64Range]

RecoverRequestType ==
  [owner: Wallets, policy: PolicyAddresses, vault: TokenAccounts,
   destination: TokenAccounts, amount: U64Range]

(* flipped: the accounts of which plain is no longer what it was.          *)
OutcomeType ==
  [change: [TokenAccounts -> Int], taken: SUBSET TokenAccounts,
   flipped: SUBSET TokenAccounts]

ASSUME LivePolicyAssumption ==
  /\ PolicyArgs \subseteq PolicyArgType
  /\ RouteRequests \subseteq RouteRequestType
  /\ Outcomes \subseteq OutcomeType
  /\ RecoverRequests \subseteq RecoverRequestType
  /\ ClassicMints \subseteq Mints
  /\ SignerOf \in [Programs -> Wallets]
  /\ KeepsToVault \in BOOLEAN
  /\ MaxLog \in Nat

LivePolicyRecord ==
  [version: {LIVE_POLICY_VERSION}, owner: Wallets, agent: Wallets, executor: Wallets,
   quote_mint: Mints, max_amount: U64Range, total_limit: U64Range, spent: U64Range,
   expires_at: Nat, nonce: U64Range, active: BOOLEAN,
   allowed_recipients: Seq(Addresses), allowed_programs: Seq(Programs)]

ASSUME NoLivePolicyAssumption == NoAccount \notin LivePolicyRecord

Event ==
  [kind: {"PolicyCreated"}, owner: Wallets, agent: Wallets]
    \cup [kind: {"RouteExecuted"}, amount: U64Range, output: U64Range, nonce: U64Range,
          spent: U64Range, at: Nat]
    \cup [kind: {"Revoked"}, at: Nat]

----------------------------------------------------------------------------
(* Faulty variants: each is a slip one of the checks below prevents.       *)

Charge_Requested(debited, amount) == amount

Manageable_Unexpired(p, a, owner) ==
  p.owner = owner /\ a = LivePolicyPda(p.owner, p.agent) /\ now < p.expires_at

Settled_OutputAnywhere(r, debited, received) == debited > 0 /\ debited <= r.amount

----------------------------------------------------------------------------
Manageable(p, a, owner) == p.owner = owner /\ a = LivePolicyPda(p.owner, p.agent)

(* validate_route_transaction: only compute-budget instructions before,    *)
(* none after, and not called by a wrapper.                                *)
LastAfterBudget(pl) ==
  pl.height = 1 /\ pl.before \in {"nothing", "budget"} /\ ~pl.after

ValidateToken(t, mint, owner) == MintOf[t] = mint /\ authority[t] = owner /\ plain[t]

(* The accounts given to the route include the signing policy, the vault   *)
(* and the destination.                                                    *)
ValidRoute(r) ==
  /\ 0 < r.route_data /\ r.route_data <= MAX_ROUTE_DATA
  /\ r.signs /\ r.vault \in r.remaining /\ r.destination \in r.remaining

Recoverable(p, r) ==
  /\ ~p.active
  /\ ValidateToken(r.vault, p.quote_mint, r.policy)
  /\ ValidateToken(r.destination, p.quote_mint, p.owner)

(* The two requirements on the balances after the route returned.          *)
Settled(r, debited, received) ==
  /\ debited > 0 /\ debited <= r.amount
  /\ received >= r.min_output /\ r.min_output > 0

(* A route charges what left the vault, which may be less than requested.  *)
Charge(debited, amount) == debited

(* What the runtime and the token program let a routed program do: it can  *)
(* change accounts it was passed only, and take from, take over or share   *)
(* those of the signing policy and its own.  KeepsToVault is the           *)
(* assumption that of the policy's accounts it takes from the vault alone, *)
(* keeps none and leaves nobody a claim on one.                            *)
Possible(r, outcome) ==
  LET claimed == outcome.taken \cup outcome.flipped
      touched == { t \in TokenAccounts : outcome.change[t] # 0 } \cup claimed
  IN
  /\ touched \subseteq r.remaining
  /\ \A t \in touched : outcome.change[t] < 0 \/ t \in claimed
       => authority[t] \in {r.policy, SignerOf[r.route_program]}
  /\ \A t \in TokenAccounts : balance[t] + outcome.change[t] \in U64Range
  /\ KeepsToVault =>
       /\ outcome.taken = {}
       /\ \A t \in touched : authority[t] = r.policy =>
            t \notin outcome.flipped /\ (outcome.change[t] < 0 => t = r.vault)

Unencumbered(a) == { t \in TokenAccounts : authority[t] = a /\ plain[t] }

Emit(a, event) == liveEvents' = [liveEvents EXCEPT ![a] = Append(@, event)]

----------------------------------------------------------------------------
Init ==
  /\ ChainInit
  /\ livePolicies = [a \in PolicyAddresses |-> NoAccount]
  /\ liveEvents = [a \in PolicyAddresses |-> <<>>]
  /\ entrusted = [a \in PolicyAddresses |-> Unencumbered(a)]

CreateLivePolicy(c, pl) ==
  LET a == LivePolicyPda(c.owner, c.agent) IN
  /\ Place(pl)
  /\ NewAccount(livePolicies[a])
  /\ c.max_amount > 0 /\ c.total_limit >= c.max_amount
  /\ c.expires_at > now
  /\ c.agent # c.owner /\ c.executor # c.agent /\ c.executor # c.owner
  /\ ValidateAllowlists(c.allowed_recipients, c.allowed_programs)
  /\ c.allowed_recipients # <<>> /\ c.allowed_programs # <<>>
  /\ c.quote_mint \in ClassicMints
  /\ livePolicies' = [livePolicies EXCEPT ![a] =
       [version |-> LIVE_POLICY_VERSION, owner |-> c.owner, agent |-> c.agent,
        executor |-> c.executor, quote_mint |-> c.quote_mint, max_amount |-> c.max_amount,
        total_limit |-> c.total_limit, spent |-> 0, expires_at |-> c.expires_at,
        nonce |-> 0, active |-> TRUE, allowed_recipients |-> c.allowed_recipients,
        allowed_programs |-> c.allowed_programs]]
  /\ Emit(a, [kind |-> "PolicyCreated", owner |-> c.owner, agent |-> c.agent])
  /\ UNCHANGED <<balance, authority, plain, now, entrusted>>

CanRevoke(owner, a) ==
  LET p == livePolicies[a] IN
  /\ p # NoAccount
  /\ Manageable(p, a, owner)
  /\ p.version = LIVE_POLICY_VERSION
  /\ p.active \/ Len(liveEvents[a]) < MaxLog

RevokeLive(owner, a, pl) ==
  /\ Place(pl)
  /\ CanRevoke(owner, a)
  /\ livePolicies' = [livePolicies EXCEPT ![a].active = FALSE]
  /\ Emit(a, [kind |-> "Revoked", at |-> now])
  /\ UNCHANGED <<balance, authority, plain, now, entrusted>>

(* The policy signs the route, reads both balances again and charges what  *)
(* the vault is missing.                                                   *)
Invoke(r, p, outcome) ==
  LET debited == -outcome.change[r.vault]
      received == outcome.change[r.destination]
      charge == Charge(debited, r.amount)
  IN
  /\ Possible(r, outcome)
  /\ Settled(r, debited, received)
  /\ Fits(p.spent + charge) /\ Fits(p.nonce + 1)
  /\ balance' = [t \in TokenAccounts |-> balance[t] + outcome.change[t]]
  /\ authority' = [t \in TokenAccounts |->
       IF t \in outcome.taken THEN SignerOf[r.route_program] ELSE authority[t]]
  /\ plain' = [t \in TokenAccounts |-> plain[t] # (t \in outcome.flipped)]
  /\ livePolicies' = [livePolicies EXCEPT ![r.policy].spent = @ + charge,
                                          ![r.policy].nonce = @ + 1]
  /\ Emit(r.policy, [kind |-> "RouteExecuted", amount |-> charge, output |-> received,
                     nonce |-> r.nonce, spent |-> p.spent + charge, at |-> now])

ExecuteRoute(r, pl) ==
  LET p == livePolicies[r.policy] IN
  /\ Place(pl)
  /\ p # NoAccount
  /\ p.agent = r.agent /\ p.executor = r.executor
  /\ r.policy = LivePolicyPda(p.owner, p.agent)
  /\ LastAfterBudget(pl)
  /\ p.version = LIVE_POLICY_VERSION
  /\ ValidateSpend(p, now, r.nonce, r.amount)
  /\ r.route_program \in Listed(p.allowed_programs)
  /\ ValidateToken(r.vault, p.quote_mint, r.policy)
  /\ authority[r.destination] \in Listed(p.allowed_recipients)
  /\ r.vault # r.destination
  /\ ValidRoute(r)
  /\ \E outcome \in Outcomes : Invoke(r, p, outcome)
  /\ UNCHANGED <<now, entrusted>>

CanRecover(r) ==
  LET p == livePolicies[r.policy] IN
  /\ p # NoAccount
  /\ Manageable(p, r.policy, r.owner)
  /\ p.version = LIVE_POLICY_VERSION
  /\ Recoverable(p, r)
  /\ CanTransfer(balance, r.policy, r.vault, r.destination, r.amount)

RecoverLive(r, pl) ==
  /\ Place(pl)
  /\ CanRecover(r)
  /\ balance' = AfterTransfer(balance, r.vault, r.destination, r.amount)
  /\ UNCHANGED <<authority, plain, now, livePolicies, liveEvents, entrusted>>

Environment ==
  /\ ChainNext
  /\ entrusted' = [a \in PolicyAddresses |-> entrusted[a] \cup Unencumbered(a)']
  /\ UNCHANGED <<livePolicies, liveEvents>>

Next ==
  \/ \E c \in PolicyArgs, pl \in Placements : CreateLivePolicy(c, pl)
  \/ \E owner \in Wallets, a \in PolicyAddresses, pl \in Placements : RevokeLive(owner, a, pl)
  \/ \E r \in RouteRequests, pl \in Placements : ExecuteRoute(r, pl)
  \/ \E r \in RecoverRequests, pl \in Placements : RecoverLive(r, pl)
  \/ Environment

Spec == Init /\ [][Next]_vars

----------------------------------------------------------------------------
(* What the properties below read off the state.                           *)

MandateOf(p) ==
  IF p = NoAccount
  THEN [phase |-> "none"]
  ELSE [phase |-> IF p.active THEN "active" ELSE "revoked", cap |-> p.max_amount,
        limit |-> p.total_limit, deadline |-> p.expires_at,
        spent |-> p.spent, nonce |-> p.nonce]

Mdt == INSTANCE Mandate
  WITH Mandates <- PolicyAddresses,
       Accounts <- TokenAccounts,
       mandate <- [a \in PolicyAddresses |-> MandateOf(livePolicies[a])],
       held <- [a \in PolicyAddresses |-> HeldBy(a)]

Gain(t) == balance'[t] - balance[t]

Exists(a) == livePolicies[a] # NoAccount

----------------------------------------------------------------------------
(* Every account holds a record of its layout, and the allowlists fit in   *)
(* the space that create_live_policy allocates for them.                   *)
TypeOK ==
  /\ ChainTypeOK
  /\ livePolicies \in [PolicyAddresses -> LivePolicyRecord \cup {NoAccount}]
  /\ liveEvents \in [PolicyAddresses -> Seq(Event)]
  /\ entrusted \in [PolicyAddresses -> SUBSET TokenAccounts]
  /\ \A a \in PolicyAddresses : Exists(a) =>
       /\ Len(livePolicies[a].allowed_recipients) <= MAX_RECIPIENTS
       /\ Len(livePolicies[a].allowed_programs) <= MAX_PROGRAMS

(* The log alone reconstructs the policy, as for swaps: one creation, then *)
(* routes numbered from 0 with consistent totals, then revocations.  Each  *)
(* route reports what it really took, between 1 and the maximum amount.    *)
LogReconciles ==
  \A a \in PolicyAddresses :
    LET log == liveEvents[a]
        p == livePolicies[a]
        SpentAt(i) == IF log[i].kind = "RouteExecuted" THEN log[i].spent ELSE 0
    IN
    IF p = NoAccount THEN log = <<>> ELSE
    /\ Len(log) > 0
    /\ \A i \in DOMAIN log : log[i].kind = "PolicyCreated" <=> i = 1
    /\ \A i \in DOMAIN log : log[i].kind = "RouteExecuted" =>
         /\ i > 1 /\ log[i - 1].kind # "Revoked"
         /\ log[i].nonce = i - 2
         /\ log[i].spent = SpentAt(i - 1) + log[i].amount
         /\ 0 < log[i].amount /\ log[i].amount <= p.max_amount
         /\ log[i].at < p.expires_at
    /\ p.active <=> log[Len(log)].kind # "Revoked"
    /\ \E n \in DOMAIN log :
         /\ p.nonce = n - 1 /\ p.spent = SpentAt(n)
         /\ \A i \in DOMAIN log : log[i].kind = "Revoked" <=> i > n

(* The owner of a live policy can always leave: revoke an active one, and  *)
(* empty every account entrusted to a revoked one, deadline or not, in a   *)
(* transaction of its own.  recover_live checks the account again: whoever *)
(* was lent the policy's signature must have left the account as it was.   *)
OwnerCanExit ==
  \A a \in PolicyAddresses : Exists(a) =>
    LET p == livePolicies[a] IN
    /\ Follows(Alone)
    /\ IF p.active
       THEN CanRevoke(p.owner, a)
       ELSE \A v \in entrusted[a], d \in TokenAccounts :
              /\ authority[d] = p.owner /\ plain[d]
              /\ MintOf[v] = p.quote_mint /\ MintOf[d] = p.quote_mint
              => CanRecover([owner |-> p.owner, policy |-> a, vault |-> v,
                             destination |-> d, amount |-> balance[v]])

(* The program implements the mandate, as long as routed programs keep to  *)
(* the vault they are given.                                               *)
MandateHonoured == Mdt!Spec

(* docs/THREAT_MODEL.md: no direct vault drain, the PDA being the token    *)
(* authority and no signing being exposed.  While a policy is active, the  *)
(* accounts it controls, taken together, lose no more than spent rises by. *)
OutflowCounted ==
  [][\A a \in PolicyAddresses : Exists(a) /\ livePolicies[a].active =>
       SumFunction(HeldBy(a)) - SumFunction(HeldBy(a)')
         <= livePolicies'[a].spent - livePolicies[a].spent]_vars

(* Value for value: when spent rises, an account of an allowed recipient,  *)
(* not the vault that paid, has gained something in the same step.         *)
RecipientPaid ==
  [][\A a \in PolicyAddresses : Exists(a) /\ livePolicies'[a].spent > livePolicies[a].spent =>
       \E t \in TokenAccounts :
         authority[t] \in Listed(livePolicies[a].allowed_recipients) /\ Gain(t) > 0]_vars
=============================================================================
