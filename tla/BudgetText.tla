----------------------------- MODULE BudgetText -----------------------------
(***************************************************************************)
(* The budget of parseIntent in packages/core: a decimal number as it is   *)
(* typed, digit by digit, and the base units that are made of it.          *)
(***************************************************************************)
EXTENDS Integers, Sequences

CONSTANTS
  Digits,      \* of those a user may type
  WHOLE,       \* digits before the point, 6 in the source
  DECIMALS,    \* digits after it, and of the token, 6 as well
  MAX_BUDGET   \* in whole tokens, 1,000 in the source

ASSUME BudgetAssumption ==
  Digits \subseteq 0 .. 9 /\ WHOLE \in Nat /\ DECIMALS \in Nat /\ MAX_BUDGET \in Nat

VARIABLES whole, pointed, frac

budgetVars == <<whole, pointed, frac>>

----------------------------------------------------------------------------
(* What the first of the digits say.                                       *)
Number(digits) ==
  LET value[i \in 0 .. Len(digits)] == IF i = 0 THEN 0 ELSE 10 * value[i - 1] + digits[i]
  IN  value[Len(digits)]

(* The k-th power of ten.                                                  *)
Tens(k) ==
  LET power[i \in 0 .. k] == IF i = 0 THEN 1 ELSE 10 * power[i - 1]
  IN  power[k]

Zeros(n) == [i \in 1 .. n |-> 0]

(* Faulty variant: the zeros are put in front.                             *)
Padded_Start(digits) == Zeros(DECIMALS - Len(digits)) \o digits

(* frac.padEnd(6, '0')                                                     *)
Padded(digits) == digits \o Zeros(DECIMALS - Len(digits))

WellFormed ==
  /\ Len(whole) \in 1 .. WHOLE
  /\ IF pointed THEN Len(frac) \in 1 .. DECIMALS ELSE frac = <<>>

Micros == Number(whole) * Tens(DECIMALS) + Number(Padded(frac))

Accepted == WellFormed /\ Micros > 0 /\ Micros <= MAX_BUDGET * Tens(DECIMALS)

----------------------------------------------------------------------------
BudgetInit == whole = <<>> /\ pointed = FALSE /\ frac = <<>>

(* One digit more than is accepted can be typed.                           *)
Type ==
  \E d \in Digits :
    \/ ~pointed /\ Len(whole) <= WHOLE /\ whole' = Append(whole, d) /\ UNCHANGED <<pointed, frac>>
    \/ pointed /\ Len(frac) <= DECIMALS /\ frac' = Append(frac, d) /\ UNCHANGED <<whole, pointed>>

Point == ~pointed /\ pointed' = TRUE /\ UNCHANGED <<whole, frac>>

BudgetNext == Type \/ Point

BudgetSpec == BudgetInit /\ [][BudgetNext]_budgetVars
----------------------------------------------------------------------------
(* The budget is exact: with the point left out, what was typed and what   *)
(* was made of it are the same number to the same power of ten, and it is  *)
(* accepted just when it is above zero and within the demo's limit.        *)
BudgetExact ==
  LET typed == Number(whole \o frac)
      scale == Tens(Len(frac))
  IN
  /\ Accepted => Micros * scale = typed * Tens(DECIMALS)
  /\ WellFormed => (Accepted <=> typed > 0 /\ typed <= MAX_BUDGET * scale)
=============================================================================
