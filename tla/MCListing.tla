----------------------------- MODULE MCListing -----------------------------
(***************************************************************************)
(* The listings on a small instance: up to three rows in three ranks, of   *)
(* which one may be matched twice by a search, pages of one or two rows,   *)
(* and an OFFSET of three bits, so that a page may be asked for whose      *)
(* offset is negative, or wraps around to the beginning.                   *)
(***************************************************************************)
EXTENDS Listing, TLC

Symmetry == Permutations(Rows)
=============================================================================
