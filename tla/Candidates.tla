----------------------------- MODULE Candidates -----------------------------
(***************************************************************************)
(* pickCandidate of packages/core over the candidates that research finds, *)
(* one after the other: fixtures, and tokens named on X, which count only  *)
(* when they were verified on Solana.                                      *)
(***************************************************************************)
EXTENDS Integers, SequencesExt

CONSTANTS
  Symbols,       \* numbers, for their alphabetical order
  Scores,
  MaxCandidates  \* bound: candidates found

ASSUME CandidatesAssumption == Symbols \subseteq Int /\ Scores \subseteq Int /\ MaxCandidates \in Nat

VARIABLE candidates

Candidate ==
  [symbol: Symbols, score: Scores, source: {"fixture", "x"}, verifiedSolana: BOOLEAN]

----------------------------------------------------------------------------
Viable(c) == c.source = "fixture" \/ c.verifiedSolana

(* b.score - a.score || a.symbol.localeCompare(b.symbol)                   *)
Before(a, b) == a.score > b.score \/ (a.score = b.score /\ a.symbol < b.symbol)

(* Who is ahead of whom in the stable sort of the viable ones.             *)
Ahead(found, i, j) ==
  Before(found[i], found[j]) \/ (~Before(found[j], found[i]) /\ i < j)

(* The first of them; nothing for NO_VERIFIED_SOLANA_CANDIDATE.            *)
Pick(found) ==
  LET viable == { i \in DOMAIN found : Viable(found[i]) }
  IN  { found[i] : i \in { k \in viable : \A j \in viable \ {k} : Ahead(found, k, j) } }

----------------------------------------------------------------------------
PickInit == candidates = <<>>

Find ==
  /\ Len(candidates) < MaxCandidates
  /\ \E c \in Candidate : candidates' = Append(candidates, c)

PickNext == Find

PickSpec == PickInit /\ [][PickNext]_candidates
----------------------------------------------------------------------------
(* What is picked has the score and the symbol of the best of those that   *)
(* are a fixture or verified, as a set: it does not depend on unverified   *)
(* names, however high they score, nor on the order in which research      *)
(* finds the others, and there is no pick just when there are none.        *)
PickIndependent ==
  LET trusted == { c \in ToSet(candidates) : c.source = "x" => c.verifiedSolana }
      best == { c \in trusted :
                  \A d \in trusted :
                    d.score < c.score \/ (d.score = c.score /\ d.symbol >= c.symbol) }
      rank(picked) == { <<c.symbol, c.score>> : c \in picked }
  IN
  /\ rank(Pick(candidates)) = rank(best)
  /\ Pick(candidates) = {} <=> trusted = {}
=============================================================================
