---------------------------- MODULE PolicyCodec ----------------------------
(***************************************************************************)
(* decodePolicy and decodeLivePolicy of packages/sdk, which read the       *)
(* accounts that the Anchor program writes: fields in a fixed order, then  *)
(* two lists of any length up to a bound, then unused space.  Data is a    *)
(* sequence of cells; an address takes two of them and anything else one,  *)
(* so that a reader that loses its place reads parts of addresses.         *)
(***************************************************************************)
EXTENDS PolicyRules, SequencesExt

CONSTANTS
  Holders,     \* pairs of cells: the addresses of the four keys
  Addresses,   \* and those that may be in the lists
  Cells,       \* what damaged cells may hold
  MaxCharges,  \* bound: spends recorded in the account
  MaxDamage    \* bound: cells changed or lost in one answer

ASSUME CodecAssumption ==
  /\ Holders \in Seq(Nat \X Nat) /\ Len(Holders) = 4
  /\ Addresses \subseteq Nat \X Nat /\ Cells \subseteq Nat
  /\ MaxCharges \in Nat /\ MaxDamage \in Nat

VARIABLES
  layout,      \* "policy" or "live"
  stored,      \* the account's fields, as the program has them
  data,        \* what a client gets to read
  damage

codecVars == <<layout, stored, data, damage>>

----------------------------------------------------------------------------
Layouts == {"policy", "live"}

(* Discriminator and version are one cell here.                            *)
Tag(l) == IF l = "policy" THEN 2 ELSE 1

(* The order in which the structs have the numbers.                        *)
NumbersOf(l) ==
  IF l = "policy"
  THEN <<"maxAmount", "totalLimit", "spent", "expiresAt", "nonce", "minRate", "active", "bump">>
  ELSE <<"maxAmount", "totalLimit", "spent", "expiresAt", "nonce", "active", "bump">>

KeysOf(l) == <<"owner", "agent", "executor", IF l = "policy" THEN "pool" ELSE "quoteMint">>

Names(l) == ToSet(KeysOf(l)) \cup ToSet(NumbersOf(l)) \cup {"recipients", "programs"}

(* Faulty variant: an address may be listed twice.                         *)
Acceptable_Repeats(d, at, max) == d[at] <= max /\ at + 2 * d[at] <= Len(d)

(* The order in which the decoders take the numbers.                       *)
ReadNumbers(l) ==
  IF l = "policy"
  THEN <<"maxAmount", "totalLimit", "spent", "expiresAt", "nonce", "minRate", "active", "bump">>
  ELSE <<"maxAmount", "totalLimit", "spent", "expiresAt", "nonce", "active", "bump">>

----------------------------------------------------------------------------
Capacity == 2 * (MAX_RECIPIENTS + MAX_PROGRAMS)

(* Addresses one after the other, two cells each.                          *)
AddressCells(list) ==
  [n \in 1 .. 2 * Len(list) |-> list[(n + 1) \div 2][2 - (n % 2)]]

ListCells(list) == <<Len(list)>> \o AddressCells(list)

KeyCells(l, p) == AddressCells([i \in 1 .. 4 |-> p[KeysOf(l)[i]]])

NumberCells(l, p) == [i \in 1 .. Len(NumbersOf(l)) |-> p[NumbersOf(l)[i]]]

(* Borsh, in the order of the struct's fields.                             *)
Encode(l, p) ==
  <<Tag(l)>> \o KeyCells(l, p) \o NumberCells(l, p)
    \o ListCells(p.recipients) \o ListCells(p.programs)

(* The program overwrites the front of the account's data.                 *)
Stored(cells, old) == cells \o SubSeq(old, Len(cells) + 1, Len(old))

Space(l) == 1 + 8 + Len(NumbersOf(l)) + 2 + Capacity

Rejected == [ok |-> FALSE]

KeyAt(d, at) == <<d[at], d[at + 1]>>

Vector(d, at) == [i \in 1 .. d[at] |-> KeyAt(d, at + 2 * i - 1)]

(* need, the count's bound, and no address twice.                          *)
Acceptable(d, at, max) ==
  d[at] <= max /\ at + 2 * d[at] <= Len(d) /\ NoRepeat(Vector(d, at))

(* The fixed part, and the least there must be of the lists.               *)
FixedLen(l) == 1 + 8 + Len(NumbersOf(l))

Plausible(l, d) ==
  /\ Len(d) >= FixedLen(l) + 2
  /\ d[1] = Tag(l)
  /\ d[FixedLen(l) - 1] <= 1

Place(names, name) == CHOOSE i \in 1 .. Len(names) : names[i] = name

(* What is read for a field, when the second list's count is at the cell.  *)
Field(l, d, second, name) ==
  CASE name = "recipients" -> Vector(d, FixedLen(l) + 1)
    [] name = "programs" -> Vector(d, second)
    [] name \in ToSet(KeysOf(l)) -> KeyAt(d, 2 * Place(KeysOf(l), name))
    [] OTHER -> d[9 + Place(ReadNumbers(l), name)]

Decode(l, d) ==
  LET first == FixedLen(l) + 1
      second == first + 1 + 2 * d[first]
  IN
  IF /\ Plausible(l, d)
     /\ Acceptable(d, first, MAX_RECIPIENTS)
     /\ second <= Len(d) /\ Acceptable(d, second, MAX_PROGRAMS)
  THEN [ok |-> TRUE, policy |-> [name \in Names(l) |-> Field(l, d, second, name)]]
  ELSE Rejected

----------------------------------------------------------------------------
Lists(max) == { s \in BoundedSeq(Addresses, max) : NoRepeat(s) }

Written(l, recipients, programs) ==
  [name \in Names(l) |->
     CASE name = "recipients" -> recipients
       [] name = "programs" -> programs
       [] name \in ToSet(KeysOf(l)) -> Holders[Place(KeysOf(l), name)]
       [] name \in {"spent", "nonce"} -> 0
       [] name \in {"active", "bump", "maxAmount"} -> 1
       [] OTHER -> 3]

CodecInit ==
  /\ layout \in Layouts
  /\ \E recipients \in Lists(MAX_RECIPIENTS), programs \in Lists(MAX_PROGRAMS) :
       stored = Written(layout, recipients, programs)
  /\ data = Stored(Encode(layout, stored), [i \in 1 .. Space(layout) |-> 0])
  /\ damage = 0

Writes(p) ==
  /\ damage = 0
  /\ stored' = p
  /\ data' = Stored(Encode(layout, p), data)
  /\ UNCHANGED <<layout, damage>>

RecordCharge ==
  /\ stored.active = 1 /\ stored.nonce < MaxCharges
  /\ Writes([stored EXCEPT !.spent = @ + 1, !.nonce = @ + 1])

RecordRevoke == stored.active = 1 /\ Writes([stored EXCEPT !.active = 0])

(* An answer that was cut off, or is of something else.                    *)
Truncate ==
  /\ damage < MaxDamage /\ damage' = damage + 1
  /\ \E n \in 0 .. Len(data) - 1 : data' = SubSeq(data, 1, n)
  /\ UNCHANGED <<layout, stored>>

Change ==
  /\ damage < MaxDamage /\ damage' = damage + 1
  /\ \E i \in DOMAIN data, c \in Cells : data' = [data EXCEPT ![i] = c]
  /\ UNCHANGED <<layout, stored>>

CodecNext == RecordCharge \/ RecordRevoke \/ Truncate \/ Change

CodecSpec == CodecInit /\ [][CodecNext]_codecVars
----------------------------------------------------------------------------
(* What the program wrote is what the client reads, whatever the lists and *)
(* the space after them, and only with the decoder that it was meant for.  *)
RoundTrip ==
  damage = 0 =>
    \A l \in Layouts :
      Decode(l, data) = IF l = layout THEN [ok |-> TRUE, policy |-> stored] ELSE Rejected

(* Data of any other kind is refused or read for what it says: what was    *)
(* read is, written again, how the data begins, and its lists are within   *)
(* the program's bounds.  (Empty ones too, which a decoder accepts and     *)
(* create_live_policy does not.)                                           *)
NoMisreading ==
  \A l \in Layouts :
    LET read == Decode(l, data) IN
    read.ok =>
      /\ IsPrefix(Encode(l, read.policy), data)
      /\ ValidateAllowlists(read.policy.recipients, read.policy.programs)

(* A decoder's answer is exact, and there is none where it could not be.   *)
DecodedRight == RoundTrip /\ NoMisreading
=============================================================================
