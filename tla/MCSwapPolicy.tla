---------------------------- MODULE MCSwapPolicy ----------------------------
(***************************************************************************)
(* Instances of SwapPolicy for TLC.  Two of an owner's agents, one pool    *)
(* that sells three output tokens for a quote token, and u64::MAX = 7, so  *)
(* that products and sums overflow.                                        *)
(***************************************************************************)
EXTENDS SwapPolicy

CONSTANTS owner, agent, agent2, executor, admin, trader, Q, O, OtherProgram

MCWallets == {owner, agent, agent2, executor, admin, trader}
MCMints == {Q, O}
MCPrograms == {TOKEN, OtherProgram}

thePool == PoolPda(admin, O)
policy1 == PolicyPda(owner, agent)
policy2 == PolicyPda(owner, agent2)

(* Account names tell their owner and mint. *)
MCTokenAccounts ==
  {"vault", "vault2", "poolQ", "poolO", "poolO2", "ownerQ", "traderQ", "traderO"}

MCMintOf == [t \in MCTokenAccounts |->
               IF t \in {"poolO", "poolO2", "traderO"} THEN O ELSE Q]

MCInitialBalance ==
  [vault |-> 3, vault2 |-> 1, poolQ |-> 0, poolO |-> 7, poolO2 |-> 0,
   ownerQ |-> 0, traderQ |-> 1, traderO |-> 0]

MCInitialAuthority ==
  [vault |-> policy1, vault2 |-> policy2, poolQ |-> thePool, poolO |-> thePool,
   poolO2 |-> thePool, ownerQ |-> owner, traderQ |-> trader, traderO |-> trader]

aPolicy ==
  [owner |-> owner, agent |-> agent, executor |-> executor, pool |-> thePool,
   allowed_recipients |-> <<trader, thePool>>, allowed_programs |-> <<TOKEN>>,
   max_amount |-> 2, total_limit |-> 3, expires_at |-> 1, min_rate |-> 2]

aPool(rate) == [admin |-> admin, quote_mint |-> Q, output_mint |-> O, rate |-> rate]

----------------------------------------------------------------------------
(* One policy: owners who choose other terms, accounts that change hands.  *)
OneTransfers == {<<"traderQ", "vault">>, <<"ownerQ", "traderQ">>}
OneHandOvers == {<<"traderQ", policy1>>}
OneEncumbrances == {"traderQ"}
OneAmounts == {1}
OnePlacements == {Alone}
OnePoolArgs == {aPool(2), aPool(3), [aPool(2) EXCEPT !.quote_mint = O]}

OnePolicyArgs ==
  {aPolicy,
   [aPolicy EXCEPT !.total_limit = 2],
   [aPolicy EXCEPT !.max_amount = 3, !.expires_at = 2, !.min_rate = 3],
   [aPolicy EXCEPT !.allowed_recipients = <<trader, admin, owner>>],
   [aPolicy EXCEPT !.allowed_programs = <<OtherProgram>>]}

OneSwapRequests ==
  [agent: {agent}, executor: {executor}, policy: {policy1}, pool: {thePool},
   vault: {"vault", "traderQ"}, pool_quote: {"poolQ"}, pool_output: {"poolO"},
   recipient: {"traderO", "poolO", "poolO2"}, amount: 1 .. 3, min_output: {1, 2, 4},
   nonce: 0 .. 2]

OneRecoverRequests ==
  [owner: {owner}, policy: {policy1}, pool: {thePool}, vault: {"vault", "traderQ"},
   destination: {"ownerQ", "traderQ"}, amount: 1 .. 3]

----------------------------------------------------------------------------
(* Two policies of one owner compete for what one pool has left to sell;   *)
(* requests name each other's vaults and accounts of the trader, and share *)
(* transactions or are wrapped.                                            *)
TwoTransfers == {}
TwoHandOvers == {}
TwoEncumbrances == {}
TwoInitialBalance == [MCInitialBalance EXCEPT !["vault2"] = 3, !["traderQ"] = 0]

TwoPoolArgs == {aPool(2)}

TwoPolicyArgs ==
  {aPolicy,
   [aPolicy EXCEPT !.agent = agent2, !.executor = agent, !.total_limit = 2,
                   !.allowed_recipients = <<thePool, policy1>>, !.min_rate = 1]}

(* Each agent's own swaps, of either kind of recipient and pool account,   *)
(* and swaps that name what belongs to the other policy or to the trader.  *)
swap1 ==
  [agent |-> agent, executor |-> executor, policy |-> policy1, pool |-> thePool,
   vault |-> "vault", pool_quote |-> "poolQ", pool_output |-> "poolO",
   recipient |-> "traderO", amount |-> 1, min_output |-> 2, nonce |-> 0]

swap2 == [swap1 EXCEPT !.agent = agent2, !.executor = agent, !.policy = policy2,
                       !.vault = "vault2", !.recipient = "poolO2"]

TwoSwapRequests ==
  UNION { { [s EXCEPT !.amount = n, !.min_output = m, !.nonce = k, !.pool_output = o] :
              n \in 1 .. 2, m \in {1, 2, 4}, k \in 0 .. 2, o \in {"poolO", "poolO2"} } :
          s \in {swap1, [swap1 EXCEPT !.recipient = "poolO2"], swap2} }
  \cup
  UNION { { [s EXCEPT !.vault = "vault"], [s EXCEPT !.vault = "vault2"],
            [s EXCEPT !.policy = policy1], [s EXCEPT !.policy = policy2],
            [s EXCEPT !.executor = executor], [s EXCEPT !.executor = agent],
            [s EXCEPT !.recipient = "traderO"], [s EXCEPT !.recipient = "poolO2"],
            [s EXCEPT !.pool_quote = "traderQ"], [s EXCEPT !.pool_output = "poolO2"] } :
          s \in UNION { { [r EXCEPT !.nonce = k], [r EXCEPT !.nonce = k, !.min_output = 1] } :
                         r \in {swap1, swap2}, k \in 0 .. 2 } }

TwoPlacements ==
  {Alone, [Alone EXCEPT !.after = TRUE], [Alone EXCEPT !.before = "budget"],
   [Alone EXCEPT !.begins = FALSE, !.before = "other"], [Alone EXCEPT !.height = 2],
   [Alone EXCEPT !.begins = FALSE, !.height = 2]}

TwoRecoverRequests ==
  [owner: {owner}, policy: {policy1, policy2}, pool: {thePool}, vault: {"vault", "vault2"},
   destination: {"ownerQ"}, amount: {1, 3}]
=============================================================================
