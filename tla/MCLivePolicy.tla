---------------------------- MODULE MCLivePolicy ----------------------------
(***************************************************************************)
(* A live policy with two accounts of its own, an allowed market program   *)
(* that trades quote tokens for output tokens, and u64::MAX = 7.           *)
(***************************************************************************)
EXTENDS LivePolicy

CONSTANTS owner, agent, executor, maker, trader, Q, O, MARKET, OtherProgram

MCWallets == {owner, agent, executor, maker, trader}
MCMints == {Q, O}
MCPrograms == {MARKET, OtherProgram}
MCSignerOf == [p \in MCPrograms |-> maker]

thePolicy == LivePolicyPda(owner, agent)

(* Account names tell their owner and mint. *)
MCTokenAccounts == {"vault", "reserve", "ownerQ", "makerQ", "makerO", "traderO"}

MCMintOf == [t \in MCTokenAccounts |-> IF t \in {"makerO", "traderO"} THEN O ELSE Q]

MCInitialBalance ==
  [vault |-> 3, reserve |-> 1, ownerQ |-> 1, makerQ |-> 0, makerO |-> 4, traderO |-> 0]

MCInitialAuthority ==
  [vault |-> thePolicy, reserve |-> thePolicy, ownerQ |-> owner, makerQ |-> maker,
   makerO |-> maker, traderO |-> trader]

MCTransfers == {<<"ownerQ", "vault">>}
MCHandOvers == {<<"ownerQ", thePolicy>>}
MCEncumbrances == {"ownerQ"}
MCPlacements ==
  {Alone, [Alone EXCEPT !.before = "budget"], [Alone EXCEPT !.after = TRUE],
   [Alone EXCEPT !.begins = FALSE, !.before = "other"]}

aPolicy ==
  [owner |-> owner, agent |-> agent, executor |-> executor, quote_mint |-> Q,
   allowed_recipients |-> <<trader>>, allowed_programs |-> <<MARKET>>,
   max_amount |-> 2, total_limit |-> 3, expires_at |-> 1]

MCPolicyArgs ==
  {aPolicy,
   [aPolicy EXCEPT !.allowed_recipients = <<trader, owner>>, !.expires_at = 2],
   [aPolicy EXCEPT !.allowed_recipients = <<trader, owner, maker>>],
   [aPolicy EXCEPT !.allowed_recipients = <<>>],
   [aPolicy EXCEPT !.quote_mint = O]}

(* Well-formed routes, and four kinds that the program turns down.         *)
goodRoutes ==
  [agent: {agent}, executor: {executor}, policy: {thePolicy}, vault: {"vault", "reserve"},
   destination: {"traderO", "ownerQ"}, route_program: {MARKET},
   remaining: {MCTokenAccounts, MCTokenAccounts \ {"reserve"}}, signs: {TRUE},
   route_data: {8}, amount: {1, 2}, min_output: {1}, nonce: 0 .. 3]

badRoutes ==
  UNION { {[r EXCEPT !.route_program = OtherProgram], [r EXCEPT !.signs = FALSE],
           [r EXCEPT !.route_data = 2000], [r EXCEPT !.min_output = 0]} :
          r \in { g \in goodRoutes : g.vault = "vault" /\ g.amount = 1 } }

MCRouteRequests == goodRoutes \cup badRoutes

still == [t \in MCTokenAccounts |-> 0]

(* Trades in full, in part or for nothing; a refund; a payment to the      *)
(* owner; trades that also take from the other account, take over the      *)
(* vault, or leave a delegate on the vault or on the market's own account. *)
trade(from, paid, got) ==
  [change |-> [still EXCEPT ![from] = -paid, !["makerQ"] = paid,
                            !["makerO"] = -got, !["traderO"] = got],
   taken |-> {}, flipped |-> {}]

delegation(t) == [trade("vault", 1, 1) EXCEPT !.flipped = {t}]

change(from, to) ==
  [trade("vault", 0, 0) EXCEPT !.change = [still EXCEPT ![from] = -1, ![to] = 1]]

MCTrades ==
  { trade(from, paid, got) : from \in {"vault", "reserve"}, paid \in 0 .. 3, got \in 0 .. 1 }

MCOutcomes ==
  MCTrades \cup
    { change("vault", "ownerQ"), change("makerQ", "vault"),
      delegation("vault"), delegation("makerQ"),
      [trade("vault", 1, 1) EXCEPT !.taken = {"vault"}],
      [trade("vault", 1, 1) EXCEPT !.change["reserve"] = -1, !.change["makerQ"] = 2] }

MCDelegations == MCTrades \cup { delegation("vault"), delegation("makerQ") }

MCRecoverRequests ==
  [owner: {owner, trader}, policy: {thePolicy}, vault: {"vault", "reserve", "ownerQ"},
   destination: {"ownerQ"}, amount: 1 .. 2]
=============================================================================
