---------------------------- MODULE GenesisGuard ----------------------------
(***************************************************************************)
(* The genesis checks of Rpc in packages/sdk: transaction and send are for *)
(* test clusters, mainnetTransaction and sendMainnet for mainnet.  Each is *)
(* several HTTP requests, and what answers at the endpoint may be another  *)
(* cluster from one request to the next: a provider's routing changes, or  *)
(* a local port is taken over by another validator.                        *)
(***************************************************************************)
EXTENDS Integers

CONSTANTS
  TestClients, MainClients,  \* by the pair of methods they call
  LocalHost,                 \* the endpoint is 127.0.0.1, localhost or [::1]
  MaxSwitches                \* bound: how often the endpoint changes cluster

VARIABLES
  cluster,    \* what answers at the endpoint
  switches,
  pc,         \* the request a client makes next
  blockhash,  \* the cluster whose blockhash a client signed
  landed      \* the cluster a client's transaction reached

guardVars == <<cluster, switches, pc, blockhash, landed>>

Clusters == {"testnet", "devnet", "mainnet"}
Clients == TestClients \cup MainClients

ASSUME GuardAssumption ==
  /\ TestClients \cap MainClients = {}
  /\ LocalHost \in BOOLEAN
  /\ MaxSwitches \in Nat

----------------------------------------------------------------------------
AssertTestCluster(c) == c # "mainnet" /\ (c = "testnet" \/ LocalHost)

AssertMainnet(c) == c = "mainnet"

(* Which clusters a client is for.                                         *)
Meant(client) ==
  { c \in Clusters : IF client \in TestClients THEN AssertTestCluster(c) ELSE AssertMainnet(c) }

(* Faulty variant: sendTransaction is called without asking again.         *)
AfterSigning_Unasked(client) == "send"

AfterSigning(client) == "assert send"

GuardInit ==
  /\ cluster \in Clusters
  /\ switches = 0
  /\ pc = [client \in Clients |-> "assert sign"]
  /\ blockhash = [client \in Clients |-> "none"]
  /\ landed = [client \in Clients |-> "none"]

Goes(client, there) == pc' = [pc EXCEPT ![client] = there]

(* getGenesisHash, before signing and again before sending.                *)
AskGenesis(client) ==
  /\ pc[client] \in {"assert sign", "assert send"}
  /\ Goes(client, IF cluster \notin Meant(client) THEN "refused"
                  ELSE IF pc[client] = "assert sign" THEN "sign" ELSE "send")
  /\ UNCHANGED <<cluster, switches, blockhash, landed>>

(* getLatestBlockhash, and the signature over it.                          *)
Sign(client) ==
  /\ pc[client] = "sign"
  /\ blockhash' = [blockhash EXCEPT ![client] = cluster]
  /\ Goes(client, AfterSigning(client))
  /\ UNCHANGED <<cluster, switches, landed>>

(* A cluster takes only transactions over a blockhash of its own.          *)
Send(client) ==
  /\ pc[client] = "send"
  /\ IF blockhash[client] = cluster
     THEN landed' = [landed EXCEPT ![client] = cluster] /\ Goes(client, "landed")
     ELSE Goes(client, "refused") /\ UNCHANGED landed
  /\ UNCHANGED <<cluster, switches, blockhash>>

Switch ==
  /\ switches < MaxSwitches
  /\ switches' = switches + 1
  /\ \E c \in Clusters \ {cluster} : cluster' = c
  /\ UNCHANGED <<pc, blockhash, landed>>

GuardNext == Switch \/ \E client \in Clients : AskGenesis(client) \/ Sign(client) \/ Send(client)

GuardSpec == GuardInit /\ [][GuardNext]_guardVars
----------------------------------------------------------------------------
(* A transaction reaches only a cluster its client is for: test policies   *)
(* never mainnet, mainnet approvals never a test cluster.  Neither check   *)
(* nor the blockhash is enough alone; together they hold until the         *)
(* endpoint changes three times between four consecutive requests.         *)
MeantClusterOnly ==
  \A client \in Clients : landed[client] # "none" => landed[client] \in Meant(client)
=============================================================================
