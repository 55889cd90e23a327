----------------------------- MODULE Bootstrap -----------------------------
(***************************************************************************)
(* scripts/bootstrap.ts: the set-up of a fixture, one transaction after    *)
(* another, each only if the account it makes is not there.  A run can be  *)
(* killed between or during any two steps, its last transaction may land   *)
(* long after, and the set-up is run again over the same keys directory.   *)
(***************************************************************************)
EXTENDS Cluster

CONSTANTS
  Wallets,      \* keys made first
  Paying,       \* those of them that need an airdrop
  Mints,
  Fixtures,     \* token accounts, in the order they are made
  Funding,      \* tokens each is made with
  MaxRuns,      \* bound: runs of the script
  MaxFaults     \* bound: kills, failing calls, timeouts, expiries, hasty restarts

VARIABLES
  at,           \* the step a run is at, 0 while there is no run
  sent,         \* whether that step's transaction is out
  run,          \* how many runs there were
  disk,         \* key files: the key in the file, Absent or Torn
  keys,         \* the keys a run holds in memory, 0 if none
  minted,       \* how many keys were ever generated under a name
  deployment,   \* the deployment file
  usedBefore,   \* history: the policy had been used when the run began
  faults

script == <<at, sent, run, disk, keys, minted, deployment, usedBefore>>
vars == <<clusterVars, script, faults>>

IsOrder(s) == \A i, j \in DOMAIN s : s[i] = s[j] => i = j

ASSUME BootstrapAssumption ==
  /\ Wallets \in Seq(STRING) /\ Mints \in Seq(STRING) /\ Fixtures \in Seq(STRING)
  /\ Paying \in Seq({ Wallets[i] : i \in DOMAIN Wallets })
  /\ IsOrder(Wallets \o Mints \o Fixtures)
  /\ Funding \in [{ Fixtures[i] : i \in DOMAIN Fixtures } -> Nat]
  /\ \A i \in DOMAIN (Wallets \o Mints \o Fixtures) :
       (Wallets \o Mints \o Fixtures)[i] \notin {"check", "pool", "policy", "file"}
  /\ MaxRuns \in Nat /\ MaxFaults \in Nat
  /\ Genesis = [accounts |-> {}, used |-> FALSE]

----------------------------------------------------------------------------
Absent == 0
Torn == -1

Each(kind, names) == [i \in DOMAIN names |-> [kind |-> kind, name |-> names[i]]]

(* A key is made, or read, just before the account it is for.              *)
WithKeys(names) ==
  [i \in 1 .. 2 * Len(names) |->
     [kind |-> IF i % 2 = 1 THEN "key" ELSE "account", name |-> names[(i + 1) \div 2]]]

One(kind) == <<[kind |-> kind, name |-> kind]>>

Steps ==
  Each("key", Wallets) \o Each("airdrop", Paying) \o Each("key", Mints) \o
  Each("account", Mints) \o One("check") \o One("pool") \o WithKeys(Fixtures) \o
  One("policy") \o One("file")

Names == { Steps[i].name : i \in DOMAIN Steps }
Keyed == { Steps[i].name : i \in { j \in DOMAIN Steps : Steps[j].kind = "key" } }
Making == {"airdrop", "account", "pool", "policy"}

(* A transaction of the script is never somebody else's.                   *)
ASSUME NoTxAssumption == NoTx \notin [run: Nat, address: Names \X Nat, kind: Making]

(* Pool and policy are at program derived addresses, the rest at keys.     *)
Address(name) == <<name, IF name \in Keyed THEN keys[name] ELSE 0>>

Here == Steps[at]
Tx == [run |-> run, address |-> Address(Here.name), kind |-> Here.kind]

Tokens(name) == IF name \in DOMAIN Funding THEN Funding[name] ELSE 0

Exists(address, state) == \E a \in state.accounts : a.address = address

(* Faulty variant: creation succeeds on an account that is there already.  *)
Outcome_Idempotent(tx, s) ==
  LET held == { a \in s.accounts : a.address = tx.address }
      before == IF held = {} THEN 0 ELSE (CHOOSE a \in held : TRUE).tokens
  IN [error |-> "Ok",
      state |-> [s EXCEPT !.accounts = (@ \ held) \cup
                   {[address |-> tx.address, tokens |-> before + Tokens(tx.address[1])]}]]

(* Creation, initialization and funding are one transaction; creating an   *)
(* account that exists fails, another airdrop does not.                    *)
Outcome(tx, s) ==
  IF Exists(tx.address, s)
  THEN [error |-> IF tx.kind = "airdrop" THEN "Ok" ELSE "AccountInUse", state |-> s]
  ELSE [error |-> "Ok",
        state |-> [s EXCEPT !.accounts = @ \cup
                     {[address |-> tx.address, tokens |-> Tokens(tx.address[1])]}]]

----------------------------------------------------------------------------
(* Faulty variants of the steps below.                                     *)
Stored_InMemory(name, k) == disk

Settled_Processed(tx) == AppliedBy(Len(blocks), tx)

Missing_Always(s) == TRUE

----------------------------------------------------------------------------
Init ==
  /\ ClusterInit
  /\ at = 0 /\ sent = FALSE /\ run = 0
  /\ disk = [n \in Keyed |-> Absent]
  /\ keys = [n \in Keyed |-> 0]
  /\ minted = [n \in Keyed |-> 0]
  /\ deployment = "absent"
  /\ usedBefore = FALSE /\ faults = 0

Known == StateAt(confirmed)

Goes(next) == at' = next /\ sent' = FALSE

Ends == Goes(0) /\ keys' = [n \in Keyed |-> 0]

(* What the last run sent has had its outcome confirmed, or expired.       *)
Quiet == waiting = {} /\ confirmed = Len(blocks)

(* The user starts the script, which checks cluster and program first.  To *)
(* start it while a transaction of the run before is still out is a fault: *)
(* the new run may repeat the creation, and the later of the two fails.    *)
Start ==
  /\ at = 0 /\ run < MaxRuns
  /\ run' = run + 1
  /\ Goes(1)
  /\ usedBefore' = Known.used
  /\ \/ Quiet /\ UNCHANGED faults
     \/ ~Quiet /\ faults < MaxFaults /\ faults' = faults + 1
  /\ UNCHANGED <<clusterVars, disk, keys, minted, deployment>>

(* What the key directory holds after a key was written.                   *)
Stored(name, k) == [disk EXCEPT ![name] = k]

(* key: read the file if there is one, or generate and write it.           *)
Key ==
  LET name == Here.name
      fresh == minted[name] + 1
  IN
  /\ at > 0 /\ Here.kind = "key"
  /\ CASE disk[name] = Torn -> Ends /\ UNCHANGED <<disk, minted>>
       [] disk[name] = Absent ->
            /\ keys' = [keys EXCEPT ![name] = fresh]
            /\ minted' = [minted EXCEPT ![name] = fresh]
            /\ disk' = Stored(name, fresh)
            /\ Goes(at + 1)
       [] OTHER ->
            /\ keys' = [keys EXCEPT ![name] = disk[name]]
            /\ Goes(at + 1)
            /\ UNCHANGED <<disk, minted>>
  /\ UNCHANGED <<clusterVars, run, deployment, usedBefore, faults>>

(* The account of this step is not there as far as the run can see.        *)
Missing(s) == ~Exists(Address(Here.name), s)

Skip ==
  /\ at > 0 /\ Here.kind \in Making /\ ~sent
  /\ ~Missing(Known)
  /\ Goes(at + 1)
  /\ UNCHANGED <<clusterVars, run, disk, keys, minted, deployment, usedBefore, faults>>

(* transaction and send; the preflight sees what the run has just seen.    *)
Send ==
  /\ at > 0 /\ Here.kind \in Making /\ ~sent
  /\ Missing(Known)
  /\ Accept(Tx)
  /\ sent' = TRUE
  /\ UNCHANGED <<at, keys, run, disk, minted, deployment, usedBefore, faults>>

Settled(tx) == AppliedBy(rooted, tx)

(* confirm; for a transaction that expired it runs into its timeout.       *)
Await ==
  /\ at > 0 /\ sent
  /\ \/ Settled(Tx) /\ Goes(at + 1) /\ UNCHANGED keys
     \/ (FailedBy(Len(blocks), Tx) \/ Tx \in expired) /\ Ends
  /\ UNCHANGED <<clusterVars, run, disk, minted, deployment, usedBefore, faults>>

(* Active, unexpired and never charged: used stands for the contrary.      *)
Reusable(s) == ~s.used

Check ==
  /\ at > 0 /\ Here.kind = "check"
  /\ IF Reusable(Known) THEN Goes(at + 1) /\ UNCHANGED keys ELSE Ends
  /\ UNCHANGED <<clusterVars, run, disk, minted, deployment, usedBefore, faults>>

(* The deployment file ends the script.                                    *)
Deploy ==
  /\ at > 0 /\ Here.kind = "file"
  /\ deployment' = "whole"
  /\ Ends
  /\ UNCHANGED <<clusterVars, run, disk, minted, usedBefore, faults>>

Script == Key \/ Skip \/ Send \/ Await \/ Check \/ Deploy

(* A kill, a failing call or a timeout.  The last transaction may be out,  *)
(* and a file that was being written may be left in pieces.                *)
Dies ==
  /\ at > 0 /\ faults < MaxFaults
  /\ faults' = faults + 1
  /\ Ends
  /\ \/ UNCHANGED <<disk, minted, deployment>>
     \/ /\ Here.kind = "key" /\ disk[Here.name] = Absent
        /\ disk' = [disk EXCEPT ![Here.name] = Torn]
        /\ UNCHANGED <<minted, deployment>>
     \/ /\ Here.kind = "file" /\ deployment' = "torn"
        /\ UNCHANGED <<disk, minted>>
  /\ UNCHANGED <<clusterVars, run, usedBefore>>

Expires ==
  /\ faults < MaxFaults
  /\ faults' = faults + 1
  /\ \E tx \in waiting : Expire(tx)
  /\ UNCHANGED script

Executes ==
  /\ \E tx \in waiting : Land(tx, Outcome(tx, StateAt(Len(blocks))))
  /\ UNCHANGED <<script, faults>>

Confirms == Confirm /\ UNCHANGED <<script, faults>>
Finalizes == Finalize /\ UNCHANGED <<script, faults>>

(* The policy is charged, revoked or past its day.                         *)
Use ==
  LET s == StateAt(Len(blocks)) IN
  /\ Exists(<<"policy", 0>>, s) /\ ~s.used
  /\ Intrude([s EXCEPT !.used = TRUE])
  /\ UNCHANGED <<script, faults>>

Next == Start \/ Script \/ Dies \/ Expires \/ Executes \/ Confirms \/ Finalizes \/ Use

(* A run that is not killed goes on, the user starts the script again      *)
(* until there is a deployment, and the cluster makes blocks.              *)
Spec ==
  /\ Init /\ [][Next]_vars
  /\ WF_vars(Script)
  /\ WF_vars(Start /\ deployment # "whole")
  /\ WF_vars(Executes) /\ WF_vars(Confirms) /\ WF_vars(Finalizes)
----------------------------------------------------------------------------
Accounts(s) == { a.address : a \in s.accounts }

MadeBefore(kind) ==
  LET there == CHOOSE i \in DOMAIN Steps : Steps[i].kind = kind IN
  { Steps[i].name : i \in { j \in 1 .. there - 1 : Steps[j].kind \in Making } }

(* However often the set-up stops and starts, there is at most one account *)
(* of a name, and it was funded exactly once.                              *)
FundedOnce ==
  LET now == StateAt(Len(blocks)).accounts IN
  /\ \A a \in now : a.tokens = Tokens(a.address[1])
  /\ \A a, b \in now : a.address[1] = b.address[1] => a = b

(* No account, and no transaction that may still make one, is at a key     *)
(* that the keys directory does not hold.                                  *)
NoKeyLost ==
  \A address \in Accounts(StateAt(Len(blocks))) \cup { tx.address : tx \in waiting } :
    address[1] \in Keyed => disk[address[1]] = address[2]

(* The policy's day begins last: where there is a policy, all that it      *)
(* spends from and pays to is already there.                               *)
PolicyComesLast ==
  \A n \in 0 .. Len(blocks) :
    Exists(<<"policy", 0>>, StateAt(n)) =>
      MadeBefore("file") \subseteq { a[1] : a \in Accounts(StateAt(n)) }

(* A run over a policy that was used before it began gets no further than  *)
(* the check, so it changes neither the chain nor the deployment.          *)
UsedIsRefused ==
  usedBefore /\ at > 0 => \A i \in 1 .. at - 1 : Steps[i].kind # "check"

(* A deployment file describes a fixture that is confirmed and was fresh   *)
(* when the run that wrote it began.  (Not always finalized: a run skips   *)
(* what it sees confirmed from the run before it.)                         *)
DeploymentTrue ==
  /\ deployment = "whole" => MadeBefore("file") \subseteq { a[1] : a \in Accounts(Known) }
  /\ PolicyComesLast
  /\ UsedIsRefused

(* Run again after every stop, the set-up is complete in the end, unless a *)
(* key file was left torn or the policy was used meanwhile.                *)
EventuallyReady ==
  <>(\/ deployment = "whole"
     \/ \E n \in Keyed : disk[n] = Torn
     \/ StateAt(Len(blocks)).used)
=============================================================================
