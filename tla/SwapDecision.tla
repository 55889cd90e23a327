---------------------------- MODULE SwapDecision ----------------------------
(***************************************************************************)
(* Which error execute_swap answers with, which SwapPolicy leaves out: the *)
(* clients show it, and the acceptance suite compares it.  Requests name   *)
(* the fixture's own token accounts, except for the recipient's.           *)
(***************************************************************************)
EXTENDS PolicyRules

----------------------------------------------------------------------------
(* The checks in their order: has_one of the accounts, validate_spend, the *)
(* allowlist of programs, the products, the recipient, then the transfer.  *)
Checks(p, rate, vault, now, r) ==
  <<[ok |-> r.agent = p.agent /\ r.executor = p.executor, error |-> "ConstraintHasOne"],
    [ok |-> p.active, error |-> "Revoked"],
    [ok |-> now < p.expires_at, error |-> "Expired"],
    [ok |-> r.nonce = p.nonce, error |-> "StaleNonce"],
    [ok |-> r.amount > 0, error |-> "InvalidAmount"],
    [ok |-> r.amount <= p.max_amount, error |-> "MaxTransactionExceeded"],
    [ok |-> Fits(p.spent + r.amount), error |-> "Overflow"],
    [ok |-> p.spent + r.amount <= p.total_limit, error |-> "CumulativeLimitExceeded"],
    [ok |-> p.token_allowed, error |-> "ProgramNotAllowed"],
    [ok |-> Fits(r.amount * rate) /\ Fits(r.amount * p.min_rate), error |-> "Overflow"],
    [ok |-> /\ r.min_output > 0 /\ r.min_output >= r.amount * p.min_rate
            /\ r.amount * rate >= r.min_output, error |-> "SlippageExceeded"],
    [ok |-> r.recipient \in p.allowed_recipients, error |-> "RecipientNotAllowed"],
    [ok |-> r.amount <= vault, error |-> "InsufficientFunds"]>>

FirstFailure(checks) ==
  IF \A i \in DOMAIN checks : checks[i].ok
  THEN "Ok"
  ELSE checks[CHOOSE i \in DOMAIN checks :
                ~checks[i].ok /\ \A j \in 1 .. i - 1 : checks[j].ok].error

Decision(p, rate, vault, now, r) == FirstFailure(Checks(p, rate, vault, now, r))

Charge(p, r) == [p EXCEPT !.spent = @ + r.amount, !.nonce = @ + 1]
=============================================================================
