---------------------------- MODULE MCBootstrap ----------------------------
(* The script's own steps, fewer wallets and token accounts.               *)
EXTENDS Bootstrap

MCGenesis == [accounts |-> {}, used |-> FALSE]
MCWallets == <<"admin", "owner", "agent">>
MCPaying == <<"admin", "owner">>
MCMints == <<"quote-mint", "output-mint">>
MCFixtures == <<"vault", "recipient", "pool-output">>
MCFunding ==
  [f \in {"vault", "recipient", "pool-output"} |->
     CASE f = "vault" -> 150 [] f = "pool-output" -> 1000000 [] OTHER -> 0]
=============================================================================
