--------------------------- MODULE MCContributions ---------------------------
(***************************************************************************)
(* Contributions on a small instance: three requests race on one           *)
(* contribution of an ordinary user or of an admin, while one word is      *)
(* created and soft-deleted.                                               *)
(***************************************************************************)
EXTENDS Contributions, TLC

\* The goroutines are alike; used where no liveness property is checked.
RequestSymmetry == Permutations(Requests)
=============================================================================
