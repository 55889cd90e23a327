------------------------------ MODULE Launcher ------------------------------
(***************************************************************************)
(* scripts/test-localnet.ts: build, start a validator of one's own, wait   *)
(* until it serves, run the two scripts against it, stop it.  The port is  *)
(* fixed, so the validator of another launch, or one that a killed launch  *)
(* left behind, may hold it.  Node learns of the end of a child process    *)
(* some time after it, as an event that is delivered once.                 *)
(***************************************************************************)
EXTENDS Naturals

CONSTANT Tries   \* polls before the launcher gives up, 60 in the script

VARIABLES
  at,         \* what the launcher is waiting for
  validator,  \* the process it started
  told,       \* what Node knows of that process
  port,       \* whose validator answers at rpcUrl
  polls,
  timer,      \* of stop
  error,      \* what was thrown in the try block, "none" if nothing
  outcome     \* what the launcher ends with

vars == <<at, validator, told, port, polls, timer, error, outcome>>

Scripts == {"bootstrap", "verify"}
Alive == {"starting", "serving"}
Dead == {"unspawned", "exited", "signalled"}

----------------------------------------------------------------------------
(* Faulty variants.                                                        *)
Ready_HealthOnly == port # "free"

Killed_Politely == validator

----------------------------------------------------------------------------
Init ==
  /\ at = "build" /\ validator = "none" /\ told = "none"
  /\ port \in {"free", "other"}
  /\ polls = 0 /\ timer = "unset" /\ error = "none" /\ outcome = "none"

Goes(there) == at' = there /\ UNCHANGED error

(* An exception leaves the try block; finally stops the validator.         *)
Throws(what) == at' = "stop" /\ error' = what

Build ==
  /\ at = "build"
  /\ Goes("spawn") \/ Throws("build failed")
  /\ UNCHANGED <<validator, told, port, polls, timer, outcome>>

(* The error event of a process that never started precedes any answer.    *)
SpawnValidator ==
  /\ at = "spawn"
  /\ \/ validator' = "starting" /\ told' = "running"
     \/ validator' = "unspawned" /\ told' = "unspawned"
  /\ Goes("poll")
  /\ UNCHANGED <<port, polls, timer, outcome>>

(* Health is asked of whoever serves, but the balance only our ledger has. *)
Ready == port = "ours"

More == polls < Tries

(* One turn of the loop; a call that fails is a turn without an answer.    *)
Poll ==
  /\ at = "poll"
  /\ CASE told = "unspawned" -> Throws("start error") /\ UNCHANGED polls
       [] told = "exited" -> Throws("Validator stopped") /\ UNCHANGED polls
       [] OTHER ->
            \/ /\ ~More
               /\ Throws("Validator did not become ready")
               /\ UNCHANGED polls
            \/ More /\ Ready /\ Goes("bootstrap") /\ UNCHANGED polls
            \/ More /\ Goes("poll") /\ polls' = polls + 1
  /\ UNCHANGED <<validator, told, port, timer, outcome>>

(* run: a script ends well only if something answered it.                  *)
RunScript ==
  /\ at \in Scripts
  /\ \/ port # "free" /\ Goes(IF at = "bootstrap" THEN "verify" ELSE "stop")
     \/ Throws(at)
  /\ UNCHANGED <<validator, told, port, polls, timer, outcome>>

(* validator && validator.exitCode === null: the exit code stays null for  *)
(* a process that is running, and for one that a signal ended.             *)
NeedsStopping == validator # "none" /\ told \in {"running", "signalled"}

Stop ==
  /\ at = "stop"
  /\ IF NeedsStopping
     THEN Goes("exit event") /\ timer' = "set" /\ UNCHANGED outcome
     ELSE Goes("ended") /\ outcome' = error /\ UNCHANGED timer
  /\ UNCHANGED <<validator, told, port, polls>>

Closed(process) == port' = IF validator = "serving" /\ process \in Dead THEN "free" ELSE port

(* What SIGKILL leaves of the process.                                     *)
Killed == IF validator \in Alive THEN "signalled" ELSE validator

Timer ==
  /\ at = "exit event" /\ timer = "set"
  /\ timer' = "fired"
  /\ validator' = Killed
  /\ Closed(validator')
  /\ UNCHANGED <<at, told, polls, error, outcome>>

(* With neither process nor timer left Node has nothing to wait for, and   *)
(* ends without having gone on after the await.                            *)
Unsettled ==
  /\ at = "exit event" /\ timer = "fired" /\ told \in Dead
  /\ Goes("ended")
  /\ outcome' = "unsettled await"
  /\ UNCHANGED <<validator, told, port, polls, timer>>

Script == Build \/ SpawnValidator \/ Poll \/ RunScript \/ Stop \/ Timer \/ Unsettled

(* The exit event.                                                         *)
Learn ==
  /\ told = "running" /\ validator \in Dead
  /\ told' = validator
  /\ IF at = "exit event"
     THEN Goes("ended") /\ outcome' = error
     ELSE UNCHANGED <<at, error, outcome>>
  /\ UNCHANGED <<validator, port, polls, timer>>

----------------------------------------------------------------------------
(* The validator serves as soon as it has the port, or ends without it.    *)
Serves ==
  /\ validator = "starting" /\ port = "free"
  /\ validator' = "serving" /\ port' = "ours"
  /\ UNCHANGED <<at, told, polls, timer, error, outcome>>

Exits ==
  /\ validator \in Alive
  /\ validator' = "exited" /\ Closed(validator')
  /\ UNCHANGED <<at, told, polls, timer, error, outcome>>

(* SIGTERM, in stop, or a signal of somebody else.                         *)
Dies ==
  /\ validator \in Alive
  /\ validator' = "signalled" /\ Closed(validator')
  /\ UNCHANGED <<at, told, polls, timer, error, outcome>>

(* Another validator comes or goes.                                        *)
Others ==
  /\ \/ port = "free" /\ port' = "other"
     \/ port = "other" /\ port' = "free"
  /\ UNCHANGED <<at, validator, told, polls, timer, error, outcome>>

Next == Script \/ Learn \/ Serves \/ Exits \/ Dies \/ Others

(* Node runs what is ready, and the children of run end: the waits of both *)
(* scripts are bounded.  Nothing is assumed of the validator, not even     *)
(* that it obeys SIGTERM.                                                  *)
Spec == Init /\ [][Next]_vars /\ WF_vars(Script) /\ WF_vars(Learn)
----------------------------------------------------------------------------
(* Node knows only what happened, the port is ours while ours serves.      *)
TypeOK ==
  /\ at \in {"build", "spawn", "poll", "stop", "exit event", "ended"} \cup Scripts
  /\ validator \in {"none"} \cup Alive \cup Dead
  /\ told \in Dead => told = validator
  /\ port \in {"free", "ours", "other"} /\ (port = "ours" <=> validator = "serving")
  /\ polls \in 0 .. Tries

(* However the launch ends, it leaves no validator of its own running.     *)
NeverLeftRunning == at = "ended" => validator \notin Alive

(* The scripts talk to the ledger of this launch, not to the one of        *)
(* whoever else is at the port, unless our validator died meanwhile.       *)
OwnLedger == at \in Scripts => port = "ours" \/ validator \in Dead

(* What went wrong, a validator that stopped among it, is what the launch  *)
(* ends with: stop settles, so that the exception gets out of finally.     *)
FailureReported == at = "ended" => outcome = error

(* So it does unless a signal ended the validator: whatever fails, and of  *)
(* whatever the validator exits, the launch ends with the reason.          *)
ExitReported == at = "ended" /\ outcome # error => validator = "signalled"

(* A launch is safe: it works on its own ledger, keeps the reason why it   *)
(* failed and leaves nothing running.                                      *)
LaunchSafe == TypeOK /\ NeverLeftRunning /\ OwnLedger /\ ExitReported

(* The launch ends, even with a validator that ignores SIGTERM.            *)
LauncherEnds == <>(at = "ended")
=============================================================================
