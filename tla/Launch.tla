------------------------------- MODULE Launch -------------------------------
(* The launcher, for modules that hold other parts of the client as well.  *)
EXTENDS Naturals

CONSTANT Tries

VARIABLES at, validator, told, port, polls, timer, error, outcome

launchVars == <<at, validator, told, port, polls, timer, error, outcome>>

L == INSTANCE Launcher

(* Both are stated in Launcher: a launch works on its own ledger, keeps    *)
(* the reason why it failed and leaves nothing running, and it ends.       *)
LaunchSafe == L!LaunchSafe
LauncherEnds == L!LauncherEnds
=============================================================================
