---------------------------- MODULE MCVerifyRun ----------------------------
(* The suite against its fixture as the cluster's first state.             *)
EXTENDS VerifyRun

MCGenesis == Fixture
=============================================================================
