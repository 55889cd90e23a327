---------------------------- MODULE PolicyRules ----------------------------
(***************************************************************************)
(* The checks that both kinds of Veyro policy share: validate_spend and    *)
(* validate_allowlists of programs/veyro/src/lib.rs.  An operator is TRUE  *)
(* exactly when the function returns Ok.                                   *)
(***************************************************************************)
EXTENDS U64, Sequences

CONSTANTS
  MAX_RECIPIENTS, MAX_PROGRAMS,  \* 8 and 4 in the program
  NoAccount                      \* there is no account at an address

ASSUME ListBoundsAssumption == MAX_RECIPIENTS \in Nat /\ MAX_PROGRAMS \in Nat

Listed(list) == { list[i] : i \in DOMAIN list }

NoRepeat(list) == \A i, j \in DOMAIN list : list[i] = list[j] => i = j

----------------------------------------------------------------------------
(* Faulty variants: each is a slip the checks below are there to prevent.  *)

NewAccount_Reinit(account) == TRUE

ValidateAllowlists_Unbounded(recipients, programs) ==
  NoRepeat(recipients) /\ NoRepeat(programs)

ValidateSpend_AtDeadline(p, now, nonce, amount) ==
  /\ p.active /\ now <= p.expires_at /\ nonce = p.nonce
  /\ amount > 0 /\ amount <= p.max_amount
  /\ Fits(p.spent + amount) /\ p.spent + amount <= p.total_limit

ValidateSpend_AnyNonce(p, now, nonce, amount) ==
  /\ p.active /\ now < p.expires_at
  /\ amount > 0 /\ amount <= p.max_amount
  /\ Fits(p.spent + amount) /\ p.spent + amount <= p.total_limit

ValidateSpend_SpentSoFar(p, now, nonce, amount) ==
  /\ p.active /\ now < p.expires_at /\ nonce = p.nonce
  /\ amount > 0 /\ amount <= p.max_amount
  /\ p.spent < p.total_limit

----------------------------------------------------------------------------
(* Anchor's init constraint: the account is created, so it must not exist. *)
NewAccount(account) == account = NoAccount

ValidateAllowlists(recipients, programs) ==
  /\ Len(recipients) <= MAX_RECIPIENTS /\ Len(programs) <= MAX_PROGRAMS
  /\ NoRepeat(recipients) /\ NoRepeat(programs)

(* p is the policy account as stored, the other three come from the clock  *)
(* and from the signed request.                                            *)
ValidateSpend(p, now, nonce, amount) ==
  /\ p.active
  /\ now < p.expires_at
  /\ nonce = p.nonce
  /\ amount > 0
  /\ amount <= p.max_amount
  /\ Fits(p.spent + amount)
  /\ p.spent + amount <= p.total_limit
=============================================================================
