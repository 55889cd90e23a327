# Veyro: specification, model checking and proofs

Veyro lets an owner give an agent a bounded mandate to spend tokens. The
mandate is enforced on chain by the Anchor program `programs/veyro`; a smaller
program, `programs/veyro-mainnet`, approves spends without holding any funds.
Around them are the client software (`packages/sdk`, `packages/core`) and the
scripts that set up, demonstrate and verify a deployment. This directory holds
TLA+ modules translated from all of these, the TLC configurations that check
them, and TLAPS proofs of their main properties.

## The system

| Part | State it keeps | Operations | Hard behaviours |
| --- | --- | --- | --- |
| Swap policies and pools, `programs/veyro/src/lib.rs` | `Pool` and `PolicyV2` accounts, events | `create_pool`, `create_policy`, `execute_swap`, `revoke`, `recover` | replayed and reordered requests, revocation racing a swap, the deadline, several instructions in one transaction, wrapper programs, overflow of products, aliased accounts, two policies on one pool |
| Live policies, same file | `LivePolicy` accounts, events | `create_live_policy`, `execute_route`, `revoke_live`, `recover_live` | state read before a call into a foreign program and used after it; partial fills |
| SPL Token, clock and transactions as the program uses them (external) | balances, authorities, delegates, time | transfers, authority changes, approvals | accounts change between a request and its execution; atomicity |
| `programs/veyro-mainnet/src/lib.rs` | one 154-byte account per policy | `CREATE_POLICY`, `REVOKE_POLICY`, `CHECK_SPEND` | no clock, no check that an account is new; signed transactions land late, out of order or never |
| `Rpc` of `packages/sdk` | none on disk | `account`, `transaction`, `simulate`, `evaluateTransaction`, `send`, `confirm`, the genesis checks | an ALLOW is provisional; answers get lost; a status may be on a fork that is abandoned; a wait ends with `CONFIRMATION_UNKNOWN`; the endpoint may become another cluster |
| Transactions and decoders of `packages/sdk` | none | the instruction builders, `compile`, `signTransaction`, `decodePolicy`, `decodeLivePolicy` | access is carried by the order of accounts; an address under several names; fetched routes; damaged or foreign account data |
| `packages/core` | none | `parseIntent`, `pickCandidate`, `previewPolicy` | boundaries, old copies of a policy |
| `scripts/bootstrap.ts` | key files, the deployment file | one-time set-up | killed and run again between or during any two steps, torn files, late transactions |
| `scripts/verify-chain.ts` | the report | eighteen attempts, each simulated, announced, broadcast, awaited, examined | crash after a broadcast, others acting between two snapshots, forks, the chain's clock against the machine's |
| `scripts/demo.ts` | none | the walk-through over `Rpc` | as for `Rpc` |
| `scripts/test-localnet.ts` | child processes | build, start a validator, poll it, run the scripts, stop it | exit events delivered once, signals, a port held by another validator |

How they interact: clients sign instructions and send them to a node; the
runtime executes the instructions of one transaction in order and atomically;
the program calls the token program under the signature of a program derived
address (the policy's for the vault, the pool's for its reserves); the live
policy lends that signature to a program the owner allowed. Owner, agent and
executor share nothing but the policy account. A client learns what happened
to its transaction by polling the node, whose view of the chain is provisional
until it is finalized. The launcher runs `bootstrap.ts` and `verify-chain.ts`
against a validator of its own; they meet in the deployment file.

What makes each part correct:

- policies: limits, deadline, nonce and revocation hold in every interleaving;
  tokens leave a vault only as `spent` says or to the owner after revocation;
  the owner's output floor; the log tells the whole history; the owner is never
  locked out;
- pools: the reserves are sold at the pool's rate and in no other way;
- live policies: the same mandate, measured by balances around a foreign call;
- veyro-mainnet: approvals within budget, each counted once, none after a
  revocation, none whose claimed time is past the expiry (the time is claimed by
  the caller: who dates back is not held to it);
- clients: what they tell their user is so and stays so, an unknown outcome is
  never retried, they come to an end, and they reach only the cluster they are
  meant for;
- messages and decoders: a message says what its instructions say, and a
  decoder reads what was written or nothing;
- core: a preview agrees with the program; a wish is turned into a number and a
  token exactly;
- set-up and suite: fixtures are funded once, no key is lost, every broadcast
  is in the report, the report is true, and undisturbed the suite passes;
- launcher: it ends, with the reason, and leaves nothing running.

## Modules

The programs:

| Module | Models | Relation to the code |
| --- | --- | --- |
| `U64` | the width of `u64` | `MaxU64` stands for `u64::MAX`; `Fits` is success of a checked operation |
| `PolicyRules` | `validate_spend`, `validate_allowlists`, `init` | an operator is TRUE when the function returns `Ok` |
| `Chain` | token accounts, clock, transaction shape (external) | `CanTransfer`/`AfterTransfer` are the token program's transfer; `Place` puts an instruction into a transaction |
| `Mandate` | what a policy promises, abstractly | specification implemented by `SwapPolicy` and `LivePolicy` |
| `SwapPolicy` | pools and `PolicyV2` | one action per instruction |
| `LivePolicy` | `LivePolicy` | one action per instruction, `Invoke` is the foreign call and the settlement after it |
| `MainnetPolicy` | `programs/veyro-mainnet` | one action per instruction, `Send`, `Lose`, `Tick` around them |
| `PolicyLemmas` | lemmas on transfers, on what wallets do, on how many tokens there are, on mandates' records and logs | shared by the proofs below |
| `SwapPolicyProofs`, `LivePolicyProofs`, `MainnetProofs` | theorems about the three programs | |

The clients:

| Module | Models | Relation to the code |
| --- | --- | --- |
| `Cluster` | the chain as the clients of one node see it (external) | `blocks` is processed, of which `confirmed` and `rooted` are prefixes; `Abandon` drops what is not confirmed, whose transactions wait again |
| `SwapDecision` | the error `execute_swap` answers with | its checks in order; the clients show and compare the error, which `SwapPolicy` leaves out |
| `AtMostOnce` | what a client promises of a request, abstractly | implemented by `Settlement` and `VerifyRun` |
| `Settlement` | `demo.ts` over `Rpc` | `pc` is the call a run waits in; one action per call and per way it ends |
| `VerifyRun` | `verify-chain.ts` | `Script` lists its attempts; `report` is the file, which is current whenever the script waits |
| `Bootstrap` | `bootstrap.ts` | `Steps` lists its steps in order; `disk` and `deployment` are the files |
| `Launcher` | `test-localnet.ts` | `at` is the await it is in; `told` is what Node knows of the child, `validator` what it really is |
| `Launch` | the launcher for `MCClient` and the proofs | an instance of `Launcher` |
| `GenesisGuard` | `transaction`, `send`, `mainnetTransaction`, `sendMainnet` | one action per HTTP request, with the endpoint changing between them |
| `Wire` | builders, `compile`, `signTransaction`, next to the program's `Accounts` structs and the runtime's reading of a message | state is a transaction that is put together |
| `PolicyCodec` | both decoders, next to what Anchor writes | data is cells; an address takes two |
| `PolicyPreview` | `previewPolicy` next to `execute_swap`'s checks | the user's `copy` and clock age while the policy is used |
| `BudgetText`, `Candidates`, `Wish` | `parseIntent`'s budget, `pickCandidate`, and both | inputs are put together digit by digit, find by find |
| `SettlementProofs`, `VerifyRunProofs`, `BootstrapProofs` | theorems about the scripts | |
| `ClientProofs` | theorems about the parts that share no state: `GenesisGuard`, `PolicyPreview`, `Launcher`, `Wish`, `PolicyCodec`, `Wire` | |

`MCSwapPolicy`, `MCLivePolicy`, `MCMainnetPolicy`, `MCSettlement`, `MCVerifyRun`
and `MCBootstrap` give the constants their values for TLC. `MCClient` extends
the parts that share no state and runs one of them per behaviour: `part` says
which, and the others rest.

`SwapPolicy` and `LivePolicy` extend `Chain` and `PolicyRules` and instantiate
`Mandate` under a refinement mapping (`Mdt`): a mandate's phase, cap, limit,
deadline, spent and nonce are read off the policy account (`MandateOf`), and
what it holds are the balances of the token accounts whose authority is the
policy's address (`HeldBy` of `Chain`). `Settlement` and `VerifyRun` extend `Cluster` and
`SwapDecision` and instantiate `AtMostOnce` as `Promise`: `StageOf` is what the
run has shown, or the report says, of a request, and `EffectOf` what the
finalized chain did with its transaction.

Correspondence of state in the programs: `pools`, `policies` and `livePolicies` are the
accounts by address, `NoAccount` where there is none; `events` and `liveEvents`
are what `emit!` wrote, by policy; `balance`, `authority` and `plain` are the
token accounts (`plain` is the delegate, native and close-authority part of
`validate_token`; who holds an account changes it, and so may a routed program
that is lent the holder's signature); `now` is the clock sysvar; `tx` is the place of the last
instruction in its transaction, from which `get_stack_height` and the
instructions sysvar are read. `charged` (SwapPolicy), `approvals`
(MainnetPolicy) and `entrusted` (LivePolicy) are history variables that only
properties read.

An instruction that fails changes nothing on Solana, so a failing instruction
is an action that is not enabled, and which error code it returns is left out.
That includes the token transfer in the middle of `execute_swap`: its two
transfers are both in the guard, the second evaluated after the first.

Requests are records of the accounts and arguments an instruction names.
Signers are in the record: an agent's request is only sent with the signatures
of its `agent` and `executor` fields, and whether these are the policy's is a
guard, as in the `has_one` constraints. The sets of requests are constants; the
theorems hold for any sets of the stated types.

Definitions with a suffix (`ValidateSpend_AtDeadline`) are faulty variants of
the definition they are named after. No action uses them. Substituting one for
the definition makes the property listed with it in `PROJECT.json` fail, which
shows that the property depends on that line of the code.

Some properties are conjunctions of named parts, each stated with its own
comment: `PreviewRight` of `DenialStands` and `FreshAgrees`, `Sendable` of
`Faithful`, `Runnable` and `Signable` of a message, unless there are `TooMany`
accounts for one, `DecodedRight` of `RoundTrip` and `NoMisreading`, `LaunchSafe`
of four, `DeploymentTrue` of three parts, and `WishExact` of `BudgetExact` and
`PickIndependent`.

## Runs

Run them with `tlc -workers 2 -config <cfg> <module>`; each takes a few seconds
to two minutes.

| cfg | Module | Checks | Shows |
| --- | --- | --- | --- |
| `SwapOne.cfg` | MCSwapPolicy | `TypeOK`, `SpentWithinLimit`, `LogReconciles`, `OwnerCanExit`, `MandateHonoured`, `FloorHonoured`, `VaultOutflow` | one policy, every order of instructions and of what wallets do to the token accounts |
| `SwapTwo.cfg` | MCSwapPolicy | `OneSpendPerTransaction`, `PoolPriceHonoured` | two policies compete for one pool and name each other's accounts, in transactions of every shape and through wrappers |
| `Live.cfg` | MCLivePolicy | `TypeOK`, `LogReconciles`, `OwnerCanExit`, `MandateHonoured`, `RecipientPaid` | live policies if routed programs keep to the vault |
| `LiveUnconfined.cfg` | MCLivePolicy | `OutflowCounted`, violated | why the mandate needs that assumption |
| `LiveLockIn.cfg` | MCLivePolicy | `OwnerCanExit`, violated | why the owner's way out needs it |
| `Mainnet.cfg` | MCMainnetPolicy | `TypeOK`, `SpentWithinBudget`, `ApprovalsReconcile`, `ApprovedInTime`, `RevokedIsFinal` | veyro-mainnet with clients that create policies in new accounts and agents that write any timestamp |
| `MainnetReset.cfg` | MCMainnetPolicy | `RevokedIsFinal`, violated | `CREATE_POLICY` on a revoked policy |
| `Settle.cfg` | MCSettlement | `NoBlindRetry`, `ProvisionalOnly`, `RequestsHonoured`, `EveryRunEnds` | the demo alone, and two clients of one policy, over forks, failing calls, lost answers and a deadline that passes at any moment |
| `Verify.cfg` | MCVerifyRun | `EveryBroadcastReported`, `ReportTrue`, `PassedSuite`, `RequestsHonoured`, `SuiteEnds` | the whole suite with crashes, forks, another holder of the keys and people who send tokens, before its end and after |
| `Bootstrap.cfg` | MCBootstrap | `FundedOnce`, `NoKeyLost`, `DeploymentTrue`, `EventuallyReady` | the set-up, killed and run again |
| `Client.cfg` | MCClient | `PreviewRight`, `MeantClusterOnly`, `Sendable`, `DecodedRight`, `WishExact`, `LaunchSafe`, `LauncherEnds` | the parts of the client that share no state |
| `LauncherUnsettled.cfg` | Launcher | `FailureReported`, violated | a validator that a signal ended |

### Bounds, and why they are enough

In the programs counters are compared, added and multiplied only, so what
matters is on which side of a limit they fall: `MaxU64` is 7 (5 for
veyro-mainnet), small enough that `amount * rate` overflows and that a nonce
reaches the top, while caps of 2 or 3 and limits of 2 or 3 take two to three
spends to exhaust, with one amount above the cap. Time runs to 2 or 3 with
deadlines at 1 and 2, so that the tick before, at and after a deadline all
occur. One policy is checked for its own history; two are enough for
interference, since an instruction touches one policy and one pool.
`MAX_RECIPIENTS` is 2 and `MAX_PROGRAMS` 1, and some requests carry longer
lists. `MaxLog` stops a revoked policy from being revoked for ever, `MaxInFlight`
and `MaxDelay` bound the transactions of veyro-mainnet; a spend carries a
timestamp of 1 or 2, the expiry and one past it, whenever it is signed. A route
may move up to 3 tokens out of either account of its policy, take the vault
over, or leave a delegate on the vault or on the market's own account. Vaults, reserves and a
wallet's accounts are separate, a request may name the wrong one, and in
`SwapOne` a wallet gives an account of its own to the policy, tokens and
delegate included. In `SwapOne` the pool itself is an allowed recipient and has
two output accounts, which is the case the check of distinct accounts is for.
The placements of `SwapTwo` are every way in which an instruction can stand in a
transaction: alone, before or after other instructions, after a compute budget
instruction, after another of these instructions, and called by a wrapper.

Of the clients:

- `Settle`: amounts and limits are those of the demo and its fixture, in whole
  tokens. Two forks are abandoned, so that a transaction lands twice and differs
  both times. Two runs are enough for competition; one of them simulates with
  `simulate`, the other with `evaluateTransaction`. Both do a shorter script of
  a swap and a revocation; the whole demo runs alone. The deadline passes at any
  moment, also between a simulation and the landing of what it allowed, and on a
  fork that is abandoned it passes again.
- `Verify`: all eighteen attempts. One transaction of others (a swap with the
  agent's keys, a revocation, a token for the vault, the recipient or the
  attacker) and one abandoned fork, each at any moment, after the end too; the expiring policy's deadline may also pass too
  early, which counts as an act of others.
- `Bootstrap`: every kind of step, with three wallets and three token accounts
  for the script's five and five; up to four runs, of which two end in a fault. A
  fault is local to a step and its transaction, so a second one is needed only
  to strike the run that repairs the first.
- `Client`: two instructions in a message and two addresses of each kind, enough
  for every pair of accesses to meet; 12 accounts for the 256 that a message can
  have, which some pairs of instructions exceed; account data damaged in up to two cells,
  one charge, lists up to the bound and one over it; budgets of two digits
  before and two after the point, and one more of each, around a limit of 10;
  three candidates, two scores; three polls for the launcher's sixty, only
  whether there is another one matters; two changes of the endpoint, which is as
  many as the guard withstands: with three it does not, see below.

`CHECK_DEADLOCK FALSE`: all instances stop, the scripts because they end, the
programs when time and budgets are used up.

### Fairness

None is assumed of the programs' users: nobody is obliged to send anything, so
those specifications are safety specifications. That the owner can leave is
stated as the invariant `OwnerCanExit`: in every state revocation, and after it
recovery, meets all that the program demands of it (`CanRevoke`, `CanRecover`).

The clients are scripts, which do go on:

- `Settlement`: weak fairness of each run's `Advance`. `rpc` aborts a call after
  20 seconds and `confirm` ends after 60, so each wait ends in an answer or an
  exception; which of the two is open. Of the cluster, that it executes,
  confirms and finalizes some transaction again and again; the one that a run is
  waiting for may still expire, and never land.
- `VerifyRun`: weak fairness of `Run` for the same reason (its two waits end
  after 120 seconds), of the cluster's steps, and of time.
- `Bootstrap`: weak fairness of `Script`, of the cluster, and of the user
  starting the script again as long as there is no deployment file, as someone
  who wants one does. Kills are not fair, and bounded.
- `Launcher`: weak fairness of `Script` (Node runs what is ready, children of
  `run` end) and of `Learn` (Node delivers exit events). Nothing is assumed of
  the validator.

## What the violations show

- `MainnetReset`: `docs/MAINNET_WIRE_FORMAT.md` says a policy is never reset or
  reactivated. `create_policy` does not look at the account it writes, so it is
  the client that must use a new account. With `FreshAccountsOnly = TRUE` the
  property holds (`Mainnet`, and the theorem `RevocationFinal`).
  The document also says that a length other than the one stated is rejected
  outright. That needs no run: `entrypoint` does not give `revoke_policy` the
  data, and the action `RevokePolicy` takes a call of any length.
- `LiveUnconfined`: `docs/THREAT_MODEL.md` counts on no signing being exposed.
  `execute_route` signs as the policy a call whose data and accounts the agent
  chose, and afterwards looks at the balances of the vault it was given and of
  the destination, and at nothing else. In the trace the program pays, and takes
  over the vault's authority: all that is left in it is gone from the policy,
  and `spent` has risen by the price. Taking from another account of the policy
  among the remaining accounts is as unnoticed (the outcome that also lowers
  `reserve`).
- `LiveLockIn`: the same signature can approve a delegate, or set a close
  authority, on the vault. `recover_live` validates the vault again and refuses
  one that has either, and no instruction of the program withdraws them; a route
  that could no longer runs once the policy is revoked. So the step that the
  repository's `README.md` draws as `Revoked --> Recovered` is closed to the owner,
  until whoever holds the claim gives it up or uses it. In this run routes take
  over nothing and keep to the vault otherwise.

  `KeepsToVault` is the assumption about allowed programs under which
  `MandateHonoured` and `OwnerCanExit` hold: of the policy's accounts they take
  tokens from the vault only, take over none and leave no claim on one.
- `LauncherUnsettled`: `child.exitCode` stays `null` for a process that a signal
  ended. The poll loop goes on, and `stop` waits for an exit event that was
  delivered before; when its timer has fired nothing is left to wait for, and
  Node ends with an unsettled top-level await instead of the reason. `LaunchSafe`
  says that this is the only case (`ExitReported`).

Things the passing runs say that a reader may not expect:

- A failure that `confirm` reports is not final: it throws at the first status
  with an error, whatever its commitment, and the transaction may still succeed
  on another fork. `Settlement` implements `AtMostOnce` with
  `FailureIsFinal = FALSE` only; `VerifyRun`, which waits for finality, with TRUE.
- A route that marks the policy as a signer cannot be sent by the SDK:
  `executeRouteIx` passes the mark on and `signTransaction` ends in
  `MISSING_SIGNER` (`Signable`). The program sets the mark itself.
- The deployment file of `bootstrap.ts` describes accounts that are confirmed,
  not always finalized (`DeploymentTrue`), and a key file torn by a kill stops
  every further run until somebody removes it (`EventuallyReady` excepts it).
- Neither the genesis check nor the blockhash is enough alone; together they
  hold until the endpoint changes three times between consecutive requests.

`README.md` of the repository also lists a minimum output rate among the
controls. That is `min_rate` of a swap policy; a live policy has no such field
and its floor is the `min_output` of the request, so `FloorHonoured` is stated
for swaps only.

## Theorems

| Theorem | Says |
| --- | --- |
| `SwapPolicyProofs!TypeCorrect`, `BudgetHeld` | `Spec => []TypeOK`, `Spec => []SpentWithinLimit` |
| `SwapPolicyProofs!OneSpendHeld` | `Spec => []OneSpendPerTransaction` |
| `SwapPolicyProofs!LogHeld` | `Spec => []LogReconciles` |
| `SwapPolicyProofs!MandateImplemented` | `Spec => MandateHonoured`, the refinement of `Mandate` |
| `SwapPolicyProofs!VaultAccounted`, `PoolPaid`, `FloorKept` | `Spec => VaultOutflow`, `Spec => PoolPriceHonoured`, `Spec => FloorHonoured` |
| `SwapPolicyProofs!ExitHeld` | `Spec => []OwnerCanExit`, if the tokens there are at first fit in a u64, mint by mint |
| `LivePolicyProofs!TypeCorrect`, `RecipientPaidHeld`, `LogHeld` | `Spec => []TypeOK`, `Spec => RecipientPaid`, `Spec => []LogReconciles`, for any routed programs |
| `LivePolicyProofs!MandateImplemented` | `Spec => MandateHonoured`, if `KeepsToVault` |
| `LivePolicyProofs!ExitHeld` | `Spec => []OwnerCanExit`, if `KeepsToVault` and as long as the tokens of a mint fit in a u64 |
| `MainnetProofs!TypeCorrect`, `BudgetHeld` | `Spec => []TypeOK`, `Spec => []SpentWithinBudget` |
| `MainnetProofs!RevocationFinal`, `ApprovalsInTime`, `ApprovalsHeld` | `Spec => RevokedIsFinal`, `Spec => []ApprovedInTime`, `Spec => []ApprovalsReconcile`, for clients that create policies in new accounts and agents that write any timestamp |
| `SettlementProofs!RetryHeld`, `AllowIsProvisional` | `Spec => []NoBlindRetry`, `Spec => []ProvisionalOnly` |
| `SettlementProofs!Honoured` | `Spec => RequestsHonoured`, the refinement of `AtMostOnce` |
| `VerifyRunProofs!Reported`, `ReportIsTrue`, `PassedHeld` | `Spec => []EveryBroadcastReported`, `Spec => []ReportTrue`, `Spec => []PassedSuite` |
| `VerifyRunProofs!Honoured` | `Spec => RequestsHonoured`, the refinement of `AtMostOnce` |
| `BootstrapProofs!OnceFunded`, `KeysKept`, `DeploymentHeld` | `Spec => []FundedOnce`, `Spec => []NoKeyLost`, `Spec => []DeploymentTrue` |
| `ClientProofs!MeantClusterHeld` | `GuardSpec => []MeantClusterOnly`, for any clients, if `MaxSwitches <= 2` |
| `ClientProofs!PreviewHeld` | `PreviewSpec => []PreviewRight`, from `DenialHeld` and `AgreementHeld` |
| `ClientProofs!LaunchHeld` | `L!Spec => []LaunchSafe`, for any number of polls |
| `ClientProofs!WishHeld` | `BudgetSpec /\ PickSpec => []WishExact`, from `BudgetHeld` and `PickHeld`: texts of any length, any number of candidates |
| `ClientProofs!DecodedHeld` | `CodecSpec => []DecodedRight`, for lists of any length and any damage |
| `ClientProofs!SendableHeld` | `WireSpec => []Sendable`, for any number of instructions and accounts |

They hold for every value of the constants that satisfies the assumptions named
in the modules (`ChainAssumption`, `SwapPolicyAssumption`, `LivePolicyAssumption`
and so on): the constants have the stated types, wallet addresses are not
derived addresses (no key signs for one), and `NoAccount` is not an account.
Bounds such as `MaxTime`, `MaxLog`, `MaxDelay`, `MaxInFlight`, `MaxForks`,
`MaxForeign`, `MaxRuns`, `MaxFaults` and `MaxInstructions` are arbitrary natural
numbers. Of data that a client handles they are told only what data it is
(`BudgetAssumption`, `CandidatesAssumption`, `CodecAssumption`): digits are
digits, scores are integers, cells are natural numbers, an address is two of
them. `WireAssumption` says that a policy is nobody's wallet. Of the
scripts two assumptions say that names mean what they are used for: no wallet,
mint or token account of `Bootstrap` is called like one of its other steps
(`check`, `pool`, `policy`, `file`), which the names in the script are not, and
`NoTx`, which marks a block that is no transaction of the scripts', is not such
a transaction (`NoTxAssumption` in `Settlement` and `VerifyRun`).

### Swap policies and pools

`IInv` is `TypeOK`, `SpentWithinLimit` and `MintsDiffer`, that every pool's two
mints differ. `SpentWithinLimit` alone is not inductive: a spend needs the
counters to be numbers that fit. `MintsDiffer` is what the refinement needs: a
swap has two transfers, and the paying vault loses exactly the amount because
the second transfer, of another mint, cannot touch it. Each of the five
instructions and each environment step has a lemma that it preserves `IInv` and
one that it is, for every mandate, one of the mandate's steps: creation opens
one mandate, a swap is a spend of one and at most funding for the others,
revocation revokes or repeats, recovery reclaims.

The three statements about tokens follow from what these lemmas say of each
token account. A transfer under a signature takes from accounts of that
authority only, so a vault loses tokens by its own policy's swap or recovery
(`VaultAccounted`), and reserves by a swap of their own pool, which pays them
(`PoolPaid`). For `FloorKept` it matters that the recipient's account is not the
pool's own (the check of distinct accounts) and not of the first transfer's mint:
it gains the whole output, which the check of `min_output` against `min_rate`
bounds from below.

One spend per transaction: a swap that passes the check is the first instruction
of its transaction: what follows another instruction has something before it,
and a wrapper's later call is at height 2. So the charges it adds to are all
zero, and its amount is within the cap. The invariant also says that an account
which is not there was charged nothing; without it a policy created after the
charge could have any cap.

The log (`LogHeld`): the property compares each event with the one before it and
the account with the last charge, so it is nearly inductive. `LogKept` adds that
a policy which does not exist has no events yet, which a creation needs. An
instruction appends at most one event, to one log; what the append does to a log
that reconciles is shown once, in `PolicyLemmas`, for both kinds of policy.

The way out (`ExitHeld`): `recover` derives the address of the policy again, reads
the pool that the policy names, and makes a transfer, which the token program
turns down if the destination overflows. `Addressed` says that a policy stays at
the address of its owner and agent, which no instruction changes, and that its
pool stays. That nothing overflows is a statement about all accounts together,
and a sum over them would be a recursion. `Supplied` says it by counting: number
the tokens of a mint from 1 to the largest u64 and give each a home; an account
holds as many as have their home there. A transfer moves the homes of as many
tokens (`TransferSupplied`), so two accounts together never hold more than there
are (`SuppliedFits`). Of the initial balances the theorem assumes just this; a
token program that counts a mint's supply in a u64 sees to it.

### Live policies

Here `TypeOK` is inductive and enough. All that is known of a route is in
`RouteEffect`, read off the balances before and after it: the charge is what the
vault is missing, at least 1 and at most the amount asked for, so the limits
that were checked for the amount hold for the charge; and the destination, which
an allowed recipient holds, has gained. None of this needs an assumption about
the routed program, and neither does the log. That nothing else is lost does
(`RouteKeeps`): of the accounts that the policies hold, only the signing one's
can be taken from, since the program's own signer is a wallet, and of those
`KeepsToVault` leaves the vault. `LiveUnconfined` is the counterexample without it.

The owner's way out (`ExitHeld`) is about the accounts that were ever entrusted to
the policy with nobody else's claim on them (`entrusted`). The invariant `Kept`
says that they still are the policy's and still without a claim: wallets cannot
change an account that is not theirs, and a route, which could, does not under
`KeepsToVault`. So `recover_live`'s validation finds them as they were, at the
address the policy still has (`Addressed`). A routed program may bring tokens in
from anywhere, so that those of a mint fit in a u64 (`SupplyFits`) is an
assumption about every state there, not about the first one.

### veyro-mainnet

What the program bounds is the timestamp that the caller wrote, so that is what
`ApprovalsInTime` says of every approval; of the time it really came at, only
that it is within a transaction's life after the expiry unless the caller wrote a
time earlier than the one it signed at.

`IInv` adds to the type and the budget that an account which ever approved a
spend holds a policy; without it a creation in a new account could not be told
from one that changes the expiry of old approvals. `ApprovalsReconcile` states
a sum over the history by recursion, and induction over data is out of the
prover's reach. `LogInv` therefore says that some function adds the log up
(`AddsUp`) and ends with `spent`; a step extends the function by one value. That
a log has only one sum, the one the property defines, is `OneSum`: of two that
differ take the first place where they do. `Earliest`, from the well-foundedness
of `<` on the naturals, stands in for induction there.

### The demo over Rpc

`Settlement`'s `IInv` has seven parts: types, and that a run has something to do
until it has ended (`PlanInv`); what the node took was sent by a run, for a
request that it is at or past (`SentInv`); a request has one transaction, which
is in one place (`OnceInv`); what may still land is what its run waits for, or
ended with saying that it does not know (`OpenInv`); every block holds what its
transaction does to the accounts before it (`Explained`), so different policies or
vaults have a successful transaction between them, and different times a block
that is no transaction and in which the deadline passed (`Between`, together
`ChainInv`); what was allowed succeeds at
the slot it was simulated on, and lands after that (`SlotInv`). `NoBlindRetry`
is not inductive without `SentInv` and `OpenInv`, `ProvisionalOnly` without
`ChainInv` and `SlotInv`: what succeeds on one state and fails on another as
expired differs in time, and what fails in another way differs in policy or
vault. For the refinement each action is matched with a step
of `AtMostOnce` for one request at most; `Finalize` moves the effect of the one
transaction that it finalizes, because of `OnceInv`.

### The suite

`VerifyRun`'s `IInv` was checked by TLC on the instance of `Verify.cfg`, conjunct
by conjunct, before it was proved. `PhaseInv` ties the place in the script to
what the report says of the attempt in hand; `SentInv` and `OnceInv` are as
above, with the report in place of what was shown: `Reported` follows from
`SentInv`. `LandInv` says that a transaction lands after the snapshot before it.

The report is about intervals of the final chain, so the rest of the invariant
is about what can happen in one. `ChainInv` says that what a used policy counts
only grows, for all its blocks, whoever made them (`Grows`): nonce, spent, what
is spent beyond one a nonce, what the recipient and the attacker have, and what
vault and recipient have beyond the charges. And it says that an act of others that a
snapshot shows leaves one of a few marks on what grows (`Marks`), which a later
act cannot undo. `Kept` says of an attempt in the report that its snapshots are
in order on the final chain, that its outcome is that of its transaction between
them, and, once passed, what the suite's assertions found. `ReportIsTrue` then
goes by the attempt: whatever the assertions compared would be off by the mark.
`PassedHeld` adds up: the two successful swaps are of 60 and 90, spent is at
least 150 and by the program's limit at most that; each nonce costs at least
one token, and what is spent beyond that only grows, so there were two swaps;
what the recipient has beyond the price of all charges was nothing at the
start and only grows; and a revocation stays. Of the attacker's account PASSED
says nothing: the suite compares it between the two snapshots of an attempt, and
who sends something there between two attempts is not seen.

### The set-up

`Bootstrap`'s `IInv`: an account, or a transaction that may still make one, is at
the key in the file of its name (`AddressInv`), which is `NoKeyLost` and, since an
address is used once, `FundedOnce`; accounts stay (`ChainInv`); the keys in
memory are those in the files (`KeyInv`); a run has the keys and sees the
accounts of all steps behind it (`ProgressInv`); a transaction for the policy was
sent when everything else was confirmed (`PolicyInv`), which keeps the policy the
last account of the fixture; and if the fixture was used before a run began, the
run sees so (`UsedInv`), and its check refuses. `DeploymentTrue` is a part of the
invariant itself. The steps are known
only through their order (`Prepared`): a key before the account at it.

### Genesis checks, previews, launcher

Whoever gets past a check although the endpoint is not for it owes that to a
change of the endpoint. `Owed` counts the changes at every request: one to sign
for a wrong cluster, a second to pass the check again, a third to reach the
wrong cluster with the blockhash it was signed for. `MeantClusterOnly` alone
says nothing of clients that are on their way.

A policy changes in one direction only: charges add up, a revocation stays, its
limits and lists are fixed. So a preview's copy is an earlier state of the policy
(`CopyIsEarlier`), and whatever it rules out stays ruled out. Out of time is the
exception, since it depends on the user's clock.

`LaunchInv` adds to `LaunchSafe` what Node knows: nothing of a validator that
there is not, and what it knows of one is so; it waits for an exit event only of
a validator it takes for running, or that a signal ended.

### Computations on data of any length

A budget, a list of candidates, account data and a message are computed by
recursion along a sequence. The induction theorems of the library cannot be
used, since they take an operator. `Earliest` makes do: of a set of numbers
that is not empty one comes first. From it follows `Induct`, that a set which
holds 0 and with each number the next holds all of them, where the set stands
for what is to be shown; and `Recursion`, that a function defined step by step
exists and is what its definition says, for every length (`OneCourse`: there is
only one). Each recursive definition has a lemma that says so of it
(`NumberValue`, `MentionsAre`, `EntriesAre`, `SignersAre`), and from there on
only positions and values are spoken of.

The budget (`BudgetHeld`): the number of a text is that of its first part times
a power of ten and that of the rest (`NumberConcat`), and padding adds zeros
(`NumberZeros`), so the text and the number in base units stand for the same
amount (`SameScale`). The choice (`PickHeld`): what is ahead of what is a strict
order of the positions (`AheadOrder`), so there is one that nothing is ahead of
(`FirstOf`); it depends on what was verified alone, and what anybody claims of a
candidate is nowhere in the order.

The decoders (`DecodedHeld`): data holds cells one after the other if it holds
each in its place (`HoldsConcat`), so it holds what the program writes of a
policy just when it begins with the policy's fields (`HoldsPolicy`). Such data is
decoded as that policy (`DecodeBegins`), and what a decoder accepts begins with
what it returns (`DecodedBegins`), so nothing is read that is not there
(`ReadsWhatIsThere`), damaged or not. `CodecInv` says that what is stored stays a
policy and undamaged data holds it, with the rest of the account's space behind.

The message (`SendableHeld`) needs four things of `compile`:

1. Merged entries have each address once, the payer first, and an address has
   just the access that is the sum of its mentions (`Access`, kept by
   `MergeStep`, one mention at a time).
2. How many come before an entry is a bijection from entries to places
   (`Ranked`, for any strict order). So the sort loses none and doubles none,
   and its result goes down in weight (`KeysArranged`).
3. A sequence that goes down has a border where each weight ends (`Border`):
   up to `a` the accounts sign and are written, up to `b` they sign, up to `c`
   they sign or are written (`SplitThere`). The header's three numbers are `b`,
   `b - a` and what is left after `c` (`Counted`), which is how the runtime
   finds the borders again. Those that sign are the first `b` (`SignersAre`).
4. A builder's list is the program's, field by field (`BuilderIs`), and the
   addresses that are filled in are those the field may have (`InstructionIs`).

`MessageIs` puts the first three together: the message says of the keys all
there is to them. `Faithful` and `Runnable` are then about sums of accesses, and
`Signable` about who has a key: wallets and new accounts do, and of all that a
builder or a route marks as a signer only the policy does not.

### What proving changed in the models

- Two `CASE` expressions of `VerifyRun` (`Verdict` and `StageOf`) had guards that
  overlap, which in TLA+ leaves open which branch is meant; TLC takes the first.
  The guards now exclude each other.
- `parseIntent`'s budget, `pickCandidate`, the decoders and `compile` were
  written with folds and other operators of the community modules that are
  defined by recursion, about which nothing can be proved here. They are now
  recursive functions over the positions of their input (`value`, `upto`,
  `merged`) or say outright what is at a position: the place of an entry in a
  message is the number of those that are sorted before it.
- `PickIndependent` compared two picks; it now says what the pick is, the best
  of those that can be trusted, which is more.
- `compile` had no limit of accounts; without it the theorem would have claimed
  a message of any size.
- `OwnerCanExit` said that revocation and recovery are ENABLED. What they demand
  has a name of its own now (`CanRevoke`, `CanRecover`) that the action and the
  property share; all else in the two actions, but for the place in a
  transaction, assigns.
- The records of a fixture's tokens are written with `EXCEPT`, and what a swap
  moves is an operator of its own (`Exchanged`), shared by the lemmas.

## Only model-checked

`EveryRunEnds`, `SuiteEnds`, `EventuallyReady` and `LauncherEnds` are liveness
properties under fairness, which is out of the prover's reach. Every other
property of a passing run is stated by a theorem.

## Not modelled

- Freezing and closing of token accounts, rent, lamports, minting, airdrop
  balances: a frozen account fails `validate_token`, which `plain` stands for as
  far as the program can tell.
- The byte layout of accounts and instructions, Anchor's discriminators, the
  encoders of integers and text, and error codes other than those that clients
  compare (`SwapDecision`).
- Address derivation, key generation and signatures themselves: an address is
  whoever it was derived for, and a signature is its signer.
- The size limit of a transaction in bytes (`TRANSACTION_TOO_LARGE`), as the byte
  layout. It is met before 256 accounts are, whose limit is modelled.
- The free text of an intent and the list of fixtures of `pickCandidate`: data.
- The wording of messages and the demo's console output.
- A kill of the launcher itself, which leaves its validator running; other
  launches meet it as the validator that holds the port.
- `supplementalPolicy` takes two snapshots after its transaction, which are one
  in `VerifyRun`: both are finalized and the suite compares them to the same
  expectations.
- The upgrade authority: the program does not change.
- What a delegate or a close authority that a route left behind does later: such
  a route occurs only where `KeepsToVault` is false, and there the claim itself is
  what counts (`LiveLockIn`). Routes close no accounts.
- The raw `sendTransaction` of `verify-chain.ts` (in `submit`), which unlike `send`
  has no genesis check of its own: `GenesisGuard` is about clients that
  send with `send` or `sendMainnet`.
- Forks under `bootstrap.ts`: in `Bootstrap` what is confirmed stays, and what is
  not is not abandoned. The script acts on confirmed state only; a transaction
  that an abandoned fork had is one that lands later, or expires.
- Tokens that others send to the pool or to the owner's account while the suite
  runs. Like those for the recipient they make an attempt fail if they arrive
  between its snapshots, and are not seen if they do not.
- The deadline in the demo is one moment, at which a denial as expired or a
  failed transaction may take the place of any step of the walk-through;
  `EveryRunEnds` promises the walk-through only if it does not pass.

## Plan

Every module above is written, and every safety property that a passing run
checks is proved.

Left:

1. `Veyro`: swap and live policies over one `Chain`, with shared wallets.
2. The encoders of instructions next to the program's reading of their data.
