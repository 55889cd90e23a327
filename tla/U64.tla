-------------------------------- MODULE U64 --------------------------------
(***************************************************************************)
(* The width of the program's counters.  Every amount, nonce and limit of  *)
(* Veyro is a Rust u64; MaxU64 stands for u64::MAX, and the runs give it a *)
(* small value so that the top of the range is reached.                    *)
(***************************************************************************)
EXTENDS Integers

CONSTANT MaxU64

ASSUME MaxU64Assumption == MaxU64 \in Nat \ {0}

U64Range == 0 .. MaxU64

(* checked_add and checked_mul return Some exactly when the result fits. *)
Fits(n) == n <= MaxU64
=============================================================================
