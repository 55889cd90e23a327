------------------------------ MODULE MCClient ------------------------------
(***************************************************************************)
(* The parts of the client software that share nothing, one of them per    *)
(* behaviour: part says which, the others rest.  All but the genesis guard *)
(* and the launcher are computations, whose inputs the steps put together. *)
(***************************************************************************)
EXTENDS PolicyPreview, GenesisGuard, Launch, Wire, PolicyCodec, Wish

VARIABLE part

MCAmounts == -1 .. MaxU64 + 1
MCHolders == <<<<0, 1>>, <<1, 0>>, <<1, 1>>, <<0, 2>>>>
MCAddresses == {<<1, 2>>, <<2, 2>>}   \* two that share a cell

vars == <<part, wireVars, codecVars, budgetVars, candidates, launchVars, previewVars, guardVars>>

----------------------------------------------------------------------------
CodecRests == layout = "policy" /\ stored = NoAccount /\ data = <<>> /\ damage = MaxDamage

LauncherRests ==
  /\ at = "ended" /\ validator = "none" /\ told = "none" /\ port = "free"
  /\ polls = 0 /\ timer = "unset" /\ error = "none" /\ outcome = "none"

PreviewRests == policy = Created(1, 1, 1, {}, {}) /\ copy = policy /\ now = 0

GuardRests == GuardInit /\ cluster = "testnet"

Init ==
  /\ part \in {"wire", "codec", "budget", "pick", "launch", "preview", "guard"}
  /\ WireInit /\ BudgetInit /\ PickInit
  /\ IF part = "codec" THEN CodecInit ELSE CodecRests
  /\ IF part = "launch" THEN L!Init ELSE LauncherRests
  /\ IF part = "preview" THEN PreviewInit ELSE PreviewRests
  /\ IF part = "guard" THEN GuardInit ELSE GuardRests

WireWorks ==
  /\ part = "wire" /\ WireNext
  /\ UNCHANGED <<part, codecVars, budgetVars, candidates, launchVars, previewVars, guardVars>>

CodecWorks ==
  /\ part = "codec" /\ CodecNext
  /\ UNCHANGED <<part, wireVars, budgetVars, candidates, launchVars, previewVars, guardVars>>

BudgetWorks ==
  /\ part = "budget" /\ BudgetNext
  /\ UNCHANGED <<part, wireVars, codecVars, candidates, launchVars, previewVars, guardVars>>

PickWorks ==
  /\ part = "pick" /\ PickNext
  /\ UNCHANGED <<part, wireVars, codecVars, budgetVars, launchVars, previewVars, guardVars>>

Launching(A) ==
  /\ part = "launch" /\ A
  /\ UNCHANGED <<part, wireVars, codecVars, budgetVars, candidates, previewVars, guardVars>>

PreviewWorks ==
  /\ part = "preview" /\ PreviewNext
  /\ UNCHANGED <<part, wireVars, codecVars, budgetVars, candidates, launchVars, guardVars>>

GuardWorks ==
  /\ part = "guard" /\ GuardNext
  /\ UNCHANGED <<part, wireVars, codecVars, budgetVars, candidates, launchVars, previewVars>>

Next ==
  \/ WireWorks \/ CodecWorks \/ BudgetWorks \/ PickWorks \/ Launching(L!Next)
  \/ PreviewWorks \/ GuardWorks

(* The fairness of the launcher, which alone has a duty to get anywhere.   *)
Spec ==
  /\ Init /\ [][Next]_vars
  /\ WF_vars(Launching(L!Script)) /\ WF_vars(Launching(L!Learn))
=============================================================================
