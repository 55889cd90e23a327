------------------------------- MODULE Chain -------------------------------
(***************************************************************************)
(* What the Veyro programs see of Solana: addresses, classic SPL token     *)
(* accounts, the clock sysvar and the place of an instruction in its       *)
(* transaction.  None of this is Veyro code; it is modelled from how       *)
(* programs/veyro/src/lib.rs reads and calls it.                           *)
(*                                                                         *)
(* An instruction is atomic: when a check or a nested call fails the       *)
(* runtime discards everything it did, so a failing instruction is an      *)
(* action that is not enabled.                                             *)
(***************************************************************************)
EXTENDS U64, Sequences

CONSTANTS
  Wallets,           \* key pairs: owners, agents, executors, admins, anyone
  Mints,
  TokenAccounts,     \* token accounts that exist in the initial state
  MintOf,            \* the mint of a token account, which never changes
  InitialBalance,
  InitialAuthority,
  Transfers,         \* <<from, to>>: pairs a wallet may move tokens between
  HandOvers,         \* <<account, address>>: authority changes wallets make
  Encumbrances,      \* accounts whose wallet grants or revokes a delegate
  Amounts,           \* amounts an instruction may name
  Placements,        \* where in a transaction a Veyro instruction may stand
  MaxTime            \* bound: the clock stops there

VARIABLES
  balance,           \* tokens in an account
  authority,         \* the address that may move them
  plain,             \* no delegate, close authority or native flag is set
  now,               \* Clock::get()?.unix_timestamp
  tx                 \* placement of the last Veyro instruction executed

chainVars == <<balance, authority, plain, now, tx>>

----------------------------------------------------------------------------
(* Program derived addresses.  No key signs for one: only the program can. *)
PolicyPda(owner, agent) == <<"policy", owner, agent>>
LivePolicyPda(owner, agent) == <<"live-policy", owner, agent>>
PoolPda(admin, outputMint) == <<"pool", admin, outputMint>>

Pdas ==
  { PolicyPda(o, a) : o \in Wallets, a \in Wallets }
    \cup { LivePolicyPda(o, a) : o \in Wallets, a \in Wallets }
    \cup { PoolPda(a, m) : a \in Wallets, m \in Mints }

Addresses == Wallets \cup Pdas

(* begins: this is the first Veyro instruction of a new transaction;       *)
(* before: what the transaction holds ahead of the top-level instruction;  *)
(* after:  whether another top-level instruction follows;                  *)
(* height: get_stack_height(), 1 at top level and 2 under a wrapper.       *)
Placement ==
  [begins: BOOLEAN, before: {"nothing", "budget", "other"},
   after: BOOLEAN, height: {1, 2}]

Alone == [begins |-> TRUE, before |-> "nothing", after |-> FALSE, height |-> 1]

ASSUME ChainAssumption ==
  /\ Wallets \cap Pdas = {}
  /\ MintOf \in [TokenAccounts -> Mints]
  /\ InitialBalance \in [TokenAccounts -> U64Range]
  /\ InitialAuthority \in [TokenAccounts -> Addresses]
  /\ Transfers \subseteq TokenAccounts \X TokenAccounts
  /\ HandOvers \subseteq TokenAccounts \X Addresses
  /\ Encumbrances \subseteq TokenAccounts
  /\ Amounts \subseteq U64Range
  /\ Placements \subseteq Placement
  /\ MaxTime \in Nat

----------------------------------------------------------------------------
ChainInit ==
  /\ balance = InitialBalance
  /\ authority = InitialAuthority
  /\ plain = [t \in TokenAccounts |-> TRUE]
  /\ now = 0
  /\ tx = Alone

(* An instruction opens a transaction, follows another of the same         *)
(* transaction, or is a further call made by the same wrapper.             *)
Follows(pl) ==
  \/ pl.begins
  \/ tx.after /\ pl.before = "other"
  \/ tx.height = 2 /\ pl = [tx EXCEPT !.begins = FALSE]

Place(pl) == Follows(pl) /\ tx' = pl

(* A Transfer of the token program under the signature of signer.          *)
CanTransfer(b, signer, from, to, amount) ==
  /\ authority[from] = signer
  /\ MintOf[from] = MintOf[to]
  /\ b[from] >= amount
  /\ from = to \/ Fits(b[to] + amount)

AfterTransfer(b, from, to, amount) ==
  IF from = to
  THEN b
  ELSE [b EXCEPT ![from] = @ - amount, ![to] = @ + amount]

----------------------------------------------------------------------------
(* Transactions of the token program that wallets send on their own.       *)

WalletTransfer(from, to, amount) ==
  /\ authority[from] \in Wallets
  /\ CanTransfer(balance, authority[from], from, to, amount)
  /\ balance' = AfterTransfer(balance, from, to, amount)
  /\ tx' = Alone
  /\ UNCHANGED <<authority, plain, now>>

SetAuthority(t, address) ==
  /\ authority[t] \in Wallets
  /\ authority' = [authority EXCEPT ![t] = address]
  /\ tx' = Alone
  /\ UNCHANGED <<balance, plain, now>>

Encumber(t) ==
  /\ authority[t] \in Wallets
  /\ plain' = [plain EXCEPT ![t] = ~@]
  /\ tx' = Alone
  /\ UNCHANGED <<balance, authority, now>>

Tick ==
  /\ now < MaxTime
  /\ now' = now + 1
  /\ tx' = Alone
  /\ UNCHANGED <<balance, authority, plain>>

ChainNext ==
  \/ \E pair \in Transfers, amount \in Amounts : WalletTransfer(pair[1], pair[2], amount)
  \/ \E pair \in HandOvers : SetAuthority(pair[1], pair[2])
  \/ \E t \in Encumbrances : Encumber(t)
  \/ Tick

ChainTypeOK ==
  /\ balance \in [TokenAccounts -> U64Range]
  /\ authority \in [TokenAccounts -> Addresses]
  /\ plain \in [TokenAccounts -> BOOLEAN]
  /\ now \in 0 .. MaxTime
  /\ tx \in Placement

----------------------------------------------------------------------------
(* What an address controls, account by account, for the properties.       *)
HeldBy(address) ==
  [t \in TokenAccounts |-> IF authority[t] = address THEN balance[t] ELSE 0]
=============================================================================
