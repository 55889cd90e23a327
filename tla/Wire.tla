-------------------------------- MODULE Wire --------------------------------
(***************************************************************************)
(* From instructions to a signed transaction in packages/sdk: the builders *)
(* list accounts with the access they ask for, compile merges the lists    *)
(* into one and keeps the access as an order and three numbers, from which *)
(* the runtime reads it back, and the program's Accounts structs demand    *)
(* what they need.  The same address may appear under several names.       *)
(* Instruction data and byte layout are left out.                          *)
(***************************************************************************)
EXTENDS Integers, FiniteSets, SequencesExt

CONSTANTS
  Wallets, TokenAccounts,  \* addresses that owners, agents, vaults... may have
  MAX_KEYS,                \* addresses of a message, 256 in the source
  MaxInstructions          \* bound: instructions of a transaction

(* A policy is an address that the program derives: nobody's wallet.       *)
ASSUME WireAssumption ==
  Wallets # {} /\ "policy" \notin Wallets /\ MAX_KEYS \in Nat /\ MaxInstructions \in Nat

VARIABLES
  payer,
  instructions             \* of the transaction that is being put together

wireVars == <<payer, instructions>>

----------------------------------------------------------------------------
(* Faulty variant: an account gets the access of its last mention.         *)
Joined_LastWins(old, a) == a

----------------------------------------------------------------------------
Meta(a, signer, writable) == [address |-> a, signer |-> signer, writable |-> writable]

Read(a) == Meta(a, FALSE, FALSE)
Write(a) == Meta(a, FALSE, TRUE)
Signs(a) == Meta(a, TRUE, FALSE)
SignWrite(a) == Meta(a, TRUE, TRUE)

(* The accounts of an aggregator's instruction, whose authority is the     *)
(* policy; whether it is marked as a signer is up to who fetched the route.*)
Routes ==
  { <<Meta("policy", marked, FALSE), Write("vault"), Write("destination")>> :
      marked \in BOOLEAN }

(* What each builder lists, by the names of its parameters.                *)
Builder ==
  [create_pool |-> <<SignWrite("admin"), Write("pool"), Read("system")>>,
   create_policy |-> <<SignWrite("owner"), Write("policy"), Read("pool"), Read("system")>>,
   create_live_policy |->
     <<SignWrite("owner"), Write("policy"), Read("mint"), Read("system")>>,
   execute_swap |->
     <<Signs("agent"), Signs("executor"), Write("policy"), Read("pool"), Write("vault"),
       Write("poolQuote"), Write("poolOutput"), Write("recipient"), Read("token"),
       Read("instructions")>>,
   execute_route |->
     <<Signs("agent"), Signs("executor"), Write("policy"), Write("vault"), Write("destination"),
       Read("route"), Read("token"), Read("instructions")>>,
   revoke |-> <<Signs("owner"), Write("policy")>>,
   revoke_live |-> <<Signs("owner"), Write("policy")>>,
   recover |->
     <<Signs("owner"), Read("policy"), Read("pool"), Write("vault"), Write("destination"),
       Read("token")>>,
   recover_live |->
     <<Signs("owner"), Read("policy"), Write("vault"), Write("destination"), Read("token")>>,
   systemCreate |-> <<SignWrite("admin"), SignWrite("account")>>,
   initializeMint |-> <<Write("account"), Read("rent")>>,
   initializeToken |-> <<Write("account"), Read("mint"), Read("owner"), Read("rent")>>,
   mintTo |-> <<Write("mint"), Write("vault"), Signs("admin")>>]

(* What the program's Accounts structs demand, field by field.             *)
Accounts ==
  [create_pool |-> <<SignWrite("admin"), Write("pool"), Read("system")>>,
   create_policy |-> <<SignWrite("owner"), Write("policy"), Read("pool"), Read("system")>>,
   create_live_policy |->
     <<SignWrite("owner"), Write("policy"), Read("mint"), Read("system")>>,
   execute_swap |->
     <<Signs("agent"), Signs("executor"), Write("policy"), Read("pool"), Write("vault"),
       Write("poolQuote"), Write("poolOutput"), Write("recipient"), Read("token"),
       Read("instructions")>>,
   execute_route |->
     <<Signs("agent"), Signs("executor"), Write("policy"), Write("vault"), Write("destination"),
       Read("route"), Read("token"), Read("instructions")>>,
   revoke |-> <<Signs("owner"), Write("policy")>>,
   revoke_live |-> <<Signs("owner"), Write("policy")>>,
   recover |->
     <<Signs("owner"), Read("policy"), Read("pool"), Write("vault"), Write("destination"),
       Read("token")>>,
   recover_live |->
     <<Signs("owner"), Read("policy"), Write("vault"), Write("destination"), Read("token")>>]

ProgramOf(kind) ==
  CASE kind \in DOMAIN Accounts -> "veyro" [] kind = "systemCreate" -> "system" [] OTHER -> "token"

WalletNames == {"admin", "owner", "agent", "executor"}
TokenNames == {"vault", "recipient", "destination"}

(* The addresses a name may stand for.                                     *)
Places(name) ==
  CASE name \in WalletNames -> Wallets
    [] name \in TokenNames -> TokenAccounts
    [] OTHER -> {name}

(* What is appended to a builder's list.                                   *)
Remaining(kind) == IF kind = "execute_route" THEN Routes ELSE {<<>>}

Instruction(kind, wallets, accounts, remaining) ==
  LET list == Builder[kind] \o remaining
      place(name) ==
        IF name \in WalletNames THEN wallets[name]
        ELSE IF name \in TokenNames THEN accounts[name] ELSE name
  IN
  [kind |-> kind, program |-> ProgramOf(kind),
   accounts |-> [i \in 1 .. Len(list) |-> [list[i] EXCEPT !.address = place(@)]]]

NamesOf(kind) == { Builder[kind][i].address : i \in 1 .. Len(Builder[kind]) }

Instructions(kind) ==
  { Instruction(kind, wallets, accounts, remaining) :
      wallets \in [NamesOf(kind) \cap WalletNames -> Wallets],
      accounts \in [NamesOf(kind) \cap TokenNames -> TokenAccounts],
      remaining \in Remaining(kind) }

----------------------------------------------------------------------------
(* compile                                                                 *)

TooManyAccounts == [error |-> "TOO_MANY_ACCOUNTS"]

(* [...ix.accounts, meta(ix.program)], for one instruction after another.  *)
Mentions(ixs) ==
  LET upto[i \in 0 .. Len(ixs)] ==
        IF i = 0 THEN <<>>
        ELSE upto[i - 1] \o Append(ixs[i].accounts, Read(ixs[i].program))
  IN  upto[Len(ixs)]

Joined(old, a) == Meta(a.address, old.signer \/ a.signer, old.writable \/ a.writable)

(* entries.set: an address keeps its place, its access adds up.            *)
Merge(entries, a) ==
  IF \E i \in 1 .. Len(entries) : entries[i].address = a.address
  THEN [i \in 1 .. Len(entries) |->
          IF entries[i].address = a.address THEN Joined(entries[i], a) ELSE entries[i]]
  ELSE Append(entries, a)

Entries(p, ixs) ==
  LET all == Mentions(ixs)
      merged[n \in 0 .. Len(all)] ==
        IF n = 0 THEN <<SignWrite(p)>> ELSE Merge(merged[n - 1], all[n])
  IN  merged[Len(all)]

Weight(k) == (IF k.signer THEN 2 ELSE 0) + (IF k.writable THEN 1 ELSE 0)

(* Where the stable sort puts i before j: the payer before everything      *)
(* else, then by weight.                                                   *)
Sooner(p, entries, i, j) ==
  /\ entries[j].address # p
  /\ \/ entries[i].address = p
     \/ Weight(entries[i]) > Weight(entries[j])
     \/ Weight(entries[i]) = Weight(entries[j]) /\ i < j

Keys(p, ixs) ==
  LET entries == Entries(p, ixs)
      places == 1 .. Len(entries)
      before == [i \in places |-> Cardinality({ j \in places : Sooner(p, entries, j, i) })]
  IN  [n \in places |-> entries[CHOOSE i \in places : before[i] = n - 1]]

(* findIndex                                                               *)
Index(keys, address) ==
  CHOOSE i \in 1 .. Len(keys) :
    keys[i].address = address /\ \A j \in 1 .. i - 1 : keys[j].address # address

(* The addresses of those that sign, in the order of the keys.             *)
Signers(keys) ==
  LET upto[i \in 0 .. Len(keys)] ==
        IF i = 0 THEN <<>>
        ELSE IF keys[i].signer THEN Append(upto[i - 1], keys[i].address) ELSE upto[i - 1]
  IN  upto[Len(keys)]

Compile(p, ixs) ==
  LET keys == Keys(p, ixs)
      places == 1 .. Len(keys)
  IN
  IF Len(keys) > MAX_KEYS THEN TooManyAccounts
  ELSE [error |-> "none",
        addresses |-> [i \in places |-> keys[i].address],
        header |-> <<Len(Signers(keys)),
                     Cardinality({ i \in places : keys[i].signer /\ ~keys[i].writable }),
                     Cardinality({ i \in places : ~keys[i].signer /\ ~keys[i].writable })>>,
        wire |-> [i \in 1 .. Len(ixs) |->
                    [program |-> Index(keys, ixs[i].program),
                     accounts |-> [j \in 1 .. Len(ixs[i].accounts) |->
                                     Index(keys, ixs[i].accounts[j].address)]]],
        signers |-> Signers(keys)]

(* signTransaction: one signature for each signer, or MISSING_SIGNER.      *)
SignTransaction(compiled, held) ==
  IF \E i \in 1 .. Len(compiled.signers) : compiled.signers[i] \notin held
  THEN [error |-> "MISSING_SIGNER", by |-> <<>>]
  ELSE [error |-> "none", by |-> compiled.signers]

(* How the runtime reads the access of the i-th address back.              *)
SignerAt(message, i) == i <= message.header[1]

WritableAt(message, i) ==
  IF i <= message.header[1]
  THEN i <= message.header[1] - message.header[2]
  ELSE i <= Len(message.addresses) - message.header[3]

----------------------------------------------------------------------------
(* Which wallet pays makes no difference: they are named by nobody yet.    *)
WireInit == payer = (CHOOSE w \in Wallets : TRUE) /\ instructions = <<>>

Add(kind) ==
  /\ Len(instructions) < MaxInstructions
  /\ \E ix \in Instructions(kind) : instructions' = Append(instructions, ix)
  /\ UNCHANGED payer

WireNext == \E kind \in DOMAIN Builder : Add(kind)

WireSpec == WireInit /\ [][WireNext]_wireVars
----------------------------------------------------------------------------
Message == Compile(payer, instructions)

Mentioned == UNION { ToSet(instructions[i].accounts) : i \in 1 .. Len(instructions) }

(* Each address is there once, the payer first, each instruction's indexes *)
(* lead to its own accounts, and the runtime grants every address exactly  *)
(* the access that somebody asked for it.                                  *)
Faithful(m) ==
  /\ m.addresses[1] = payer
  /\ \A i, j \in 1 .. Len(m.addresses) : m.addresses[i] = m.addresses[j] => i = j
  /\ \A i \in 1 .. Len(instructions) :
       /\ m.addresses[m.wire[i].program] = instructions[i].program
       /\ \A j \in 1 .. Len(instructions[i].accounts) :
            m.addresses[m.wire[i].accounts[j]] = instructions[i].accounts[j].address
  /\ \A i \in 1 .. Len(m.addresses) :
       LET asked == { a \in Mentioned \cup {SignWrite(payer)} : a.address = m.addresses[i] } IN
       /\ SignerAt(m, i) <=> \E a \in asked : a.signer
       /\ WritableAt(m, i) <=> \E a \in asked : a.writable

(* Whatever it is put together with, an instruction of a builder brings    *)
(* the program the accounts of its struct, in order, each with the access  *)
(* the struct demands.                                                     *)
Runnable(m) ==
  \A i \in { n \in 1 .. Len(instructions) : instructions[n].kind \in DOMAIN Accounts } :
    LET demanded == Accounts[instructions[i].kind] IN
    \A j \in 1 .. Len(demanded) :
      LET k == m.wire[i].accounts[j] IN
      /\ m.addresses[k] \in Places(demanded[j].address)
      /\ demanded[j].signer => SignerAt(m, k)
      /\ demanded[j].writable => WritableAt(m, k)

(* A transaction can be signed with the keys that there are, those of      *)
(* wallets and of accounts that are created, and its signatures come in    *)
(* the order in which the runtime checks them.  A policy has no key: with  *)
(* a route that marks it as a signer the client stops short of sending.    *)
Signable(m) ==
  SignTransaction(m, Wallets \cup {"account"}) =
    IF \E a \in Mentioned : a.address = "policy" /\ a.signer
    THEN [error |-> "MISSING_SIGNER", by |-> <<>>]
    ELSE [error |-> "none", by |-> SubSeq(m.addresses, 1, m.header[1])]

(* There is no message just when more addresses take part than fit in one. *)
TooMany ==
  Cardinality({payer} \cup { a.address : a \in Mentioned }
                \cup { instructions[i].program : i \in 1 .. Len(instructions) }) > MAX_KEYS

(* What compile and signTransaction make of any instructions says what     *)
(* they say, satisfies the program and carries the signatures it needs.    *)
Sendable ==
  LET m == Message IN
  IF TooMany THEN m = TooManyAccounts
  ELSE m.error = "none" /\ Faithful(m) /\ Runnable(m) /\ Signable(m)
=============================================================================
