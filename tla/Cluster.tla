------------------------------ MODULE Cluster ------------------------------
(***************************************************************************)
(* A Solana cluster as the clients of one RPC node see it.  The node has   *)
(* processed a sequence of transactions; a prefix of them is confirmed, a  *)
(* shorter one finalized.  What is not confirmed yet can be abandoned with *)
(* its fork, and a transaction that was on it waits again, lands again     *)
(* with another outcome, or expires with its blockhash.  None of this is   *)
(* Veyro code: it is modelled from how packages/sdk and scripts use it.    *)
(***************************************************************************)
EXTENDS Integers, Sequences

CONSTANTS
  Genesis,      \* the accounts before the first of these transactions
  NoTx,         \* stands for the transaction of somebody else
  MaxForks      \* bound: how often a fork is abandoned

VARIABLES
  blocks,       \* transactions processed, with their outcomes, in order
  confirmed,    \* the first so many of them are confirmed
  rooted,       \* and the first so many finalized
  waiting,      \* transactions the node accepted that are in no block
  expired,      \* transactions that can no longer land
  forks

clusterVars == <<blocks, confirmed, rooted, waiting, expired, forks>>

----------------------------------------------------------------------------
StateAt(n) == IF n = 0 THEN Genesis ELSE blocks[n].state

Landed == { blocks[n].tx : n \in DOMAIN blocks } \ {NoTx}

Accepted == waiting \cup expired \cup Landed

(* The n-th transaction failed, or changed the accounts it was meant to.   *)
Failed(n) == blocks[n].error # "Ok"

(* What getSignatureStatuses knows of tx, up to the n-th transaction.      *)
FailedBy(n, tx) == \E i \in 1 .. n : blocks[i].tx = tx /\ Failed(i)
AppliedBy(n, tx) == \E i \in 1 .. n : blocks[i].tx = tx /\ ~Failed(i)

----------------------------------------------------------------------------
ClusterInit ==
  /\ blocks = <<>>
  /\ confirmed = 0 /\ rooted = 0
  /\ waiting = {} /\ expired = {}
  /\ forks = 0

(* sendTransaction; sending a transaction again changes nothing.           *)
Accept(tx) ==
  /\ waiting' = IF tx \in Accepted THEN waiting ELSE waiting \cup {tx}
  /\ UNCHANGED <<blocks, confirmed, rooted, expired, forks>>

(* outcome: the error, and the accounts afterwards.                        *)
Land(tx, outcome) ==
  /\ tx \in waiting
  /\ waiting' = waiting \ {tx}
  /\ blocks' = Append(blocks, [tx |-> tx, error |-> outcome.error, state |-> outcome.state])
  /\ UNCHANGED <<confirmed, rooted, expired, forks>>

(* Somebody else's transaction lands.                                      *)
Intrude(state) ==
  /\ blocks' = Append(blocks, [tx |-> NoTx, error |-> "Ok", state |-> state])
  /\ UNCHANGED <<confirmed, rooted, waiting, expired, forks>>

Expire(tx) ==
  /\ tx \in waiting
  /\ waiting' = waiting \ {tx}
  /\ expired' = expired \cup {tx}
  /\ UNCHANGED <<blocks, confirmed, rooted, forks>>

Confirm ==
  /\ confirmed < Len(blocks)
  /\ confirmed' = confirmed + 1
  /\ UNCHANGED <<blocks, rooted, waiting, expired, forks>>

Finalize ==
  /\ rooted < confirmed
  /\ rooted' = rooted + 1
  /\ UNCHANGED <<blocks, confirmed, waiting, expired, forks>>

Abandon ==
  /\ forks < MaxForks
  /\ forks' = forks + 1
  /\ \E n \in confirmed .. Len(blocks) - 1 :
       /\ blocks' = SubSeq(blocks, 1, n)
       /\ waiting' = waiting \cup ({ blocks[i].tx : i \in n + 1 .. Len(blocks) } \ {NoTx})
  /\ UNCHANGED <<confirmed, rooted, expired>>
=============================================================================
