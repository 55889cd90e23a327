--------------------------- MODULE MCMainnetPolicy ---------------------------
(***************************************************************************)
(* One policy account of full size and one that is too small, an owner, an *)
(* agent and a recipient, and u64::MAX = 5.                                *)
(***************************************************************************)
EXTENDS MainnetPolicy, TLC

CONSTANTS owner, agent, payee

MCKeys == {owner, agent, payee}
MCAccounts == {"policy", "small"}
MCDataLen == [policy |-> 154, small |-> 100]

header(signer, a) ==
  [count |-> 2, signer |-> signer, is_signer |-> TRUE, is_writable |-> TRUE, account |-> a]

create(a, max, nonce) ==
  header(owner, a) @@
  [tag |-> CREATE_POLICY, len |-> 113, agent |-> agent, max |-> max, budget |-> 3,
   expiry |-> 1, nonce |-> nonce, recipient |-> payee, label |-> 1]

revoke(len) == header(owner, "policy") @@ [tag |-> REVOKE_POLICY, len |-> len]

spend(signer, amount, timestamp) ==
  header(signer, "policy") @@
  [tag |-> CHECK_SPEND, len |-> 65, amount |-> amount, timestamp |-> timestamp,
   recipient |-> payee, label |-> 1]

(* Nonces start at 0, or at the top of u64 where the increment overflows.  *)
(* Timestamps are the expiry and one past it, written at every time.       *)
MCCalls ==
  { create(a, 2, 0) : a \in MCAccounts } \cup { create("policy", 2, 4) }
    \cup { revoke(len) : len \in {1, 9} }
    \cup { spend(agent, amount, timestamp) : amount \in 1 .. 2, timestamp \in 1 .. 2 }
    \cup { spend(payee, 1, 1), [spend(agent, 1, 1) EXCEPT !.recipient = owner],
           [spend(agent, 1, 1) EXCEPT !.len = 64] }
=============================================================================
