--------------------------- MODULE PolicyPreview ---------------------------
(***************************************************************************)
(* previewPolicy of packages/core, which tells a user what a policy will   *)
(* say to a spend, next to the program that says it.  The user holds a     *)
(* copy of the policy, which is as old as it may be, and a clock of his    *)
(* own; the policy is charged, revoked and runs out meanwhile.             *)
(***************************************************************************)
EXTENDS PolicyRules

CONSTANTS
  Recipients, Programs,
  Amounts,               \* whatever a user may type
  MaxTime                \* bound: the cluster's clock

VARIABLES
  policy,   \* as the program has it
  copy,     \* as the user last read it
  now       \* the cluster's time

previewVars == <<policy, copy, now>>

ASSUME PreviewAssumption == Amounts \subseteq Int /\ MaxTime \in Nat

Policy ==
  [active: BOOLEAN, expires_at: Int, nonce: Nat, max_amount: U64Range, total_limit: U64Range,
   spent: U64Range, allowed_recipients: SUBSET Recipients, allowed_programs: SUBSET Programs]

(* Text that is no number is refused as 0 is.                              *)
Request == [amount: Amounts, recipient: Recipients, program: Programs]

----------------------------------------------------------------------------
(* Faulty variant: the whole of the limit cannot be spent.                 *)
WithinTotal_Strict(p, n) == n + p.spent < p.total_limit

----------------------------------------------------------------------------
OutOfTime(p, clock) == clock >= p.expires_at

WithinTotal(p, n) == n + p.spent <= p.total_limit

Preview(p, r, clock) ==
  IF ~p.active THEN "REVOKED"
  ELSE IF OutOfTime(p, clock) THEN "EXPIRED"
  ELSE IF r.program \notin p.allowed_programs THEN "PROGRAM_NOT_ALLOWED"
  ELSE IF r.recipient \notin p.allowed_recipients THEN "RECIPIENT_NOT_ALLOWED"
  ELSE IF r.amount <= 0 THEN "INVALID_AMOUNT"
  ELSE IF r.amount > p.max_amount THEN "MAX_TRANSACTION_EXCEEDED"
  ELSE IF ~WithinTotal(p, r.amount) THEN "CUMULATIVE_LIMIT_EXCEEDED"
  ELSE "POLICY_SATISFIED"

(* What the program demands of a spend with the nonce it is waiting for.   *)
Spendable(p, time, r) ==
  /\ ValidateSpend(p, time, p.nonce, r.amount)
  /\ r.program \in p.allowed_programs
  /\ r.recipient \in p.allowed_recipients

----------------------------------------------------------------------------
(* A policy that create_policy made just now.                              *)
Created(max_amount, total_limit, expires_at, recipients, programs) ==
  [active |-> TRUE, expires_at |-> expires_at, nonce |-> 0, max_amount |-> max_amount,
   total_limit |-> total_limit, spent |-> 0, allowed_recipients |-> recipients,
   allowed_programs |-> programs]

PreviewInit ==
  /\ \E total_limit \in U64Range, expires_at \in 1 .. MaxTime + 1,
        recipients \in SUBSET Recipients, programs \in SUBSET Programs :
       \E max_amount \in 1 .. total_limit :
         policy = Created(max_amount, total_limit, expires_at, recipients, programs)
  /\ copy = policy
  /\ now = 0

Fetch == copy' = policy /\ UNCHANGED <<policy, now>>

Charge(r) ==
  /\ Spendable(policy, now, r)
  /\ policy' = [policy EXCEPT !.spent = @ + r.amount, !.nonce = @ + 1]
  /\ UNCHANGED <<copy, now>>

Revoke == policy' = [policy EXCEPT !.active = FALSE] /\ UNCHANGED <<copy, now>>

Tick == now < MaxTime /\ now' = now + 1 /\ UNCHANGED <<policy, copy>>

PreviewNext == Fetch \/ (\E r \in Request : Charge(r)) \/ Revoke \/ Tick

PreviewSpec == PreviewInit /\ [][PreviewNext]_previewVars
----------------------------------------------------------------------------
(* Both hold a policy, whose counter is within the limit.                  *)
TypeOK ==
  /\ policy \in Policy /\ copy \in Policy /\ now \in 0 .. MaxTime
  /\ policy.spent <= policy.total_limit

(* A preview that denies is right for good, however old the copy: what it  *)
(* denies the program denies from then on, out of time excepted for a user *)
(* whose clock is ahead.                                                   *)
DenialStands ==
  \A r \in Request, clock \in 0 .. MaxTime :
    LET verdict == Preview(copy, r, clock) IN
    /\ verdict # "POLICY_SATISFIED"
    /\ verdict = "EXPIRED" => clock <= now
    => ~Spendable(policy, now, r)

(* Of a copy that is up to date, a clock that is right and any amount, at  *)
(* the limits too, the preview says what the program says.                 *)
FreshAgrees ==
  copy = policy =>
    \A r \in Request :
      Preview(copy, r, now) = "POLICY_SATISFIED" <=> Spendable(policy, now, r)

(* A user may rely on both.                                                *)
PreviewRight == DenialStands /\ FreshAgrees
=============================================================================
