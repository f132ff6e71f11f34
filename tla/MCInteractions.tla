--------------------------- MODULE MCInteractions ---------------------------
(***************************************************************************)
(* Interactions on a small instance: two users, a word with a definition,  *)
(* a comment with two texts, and two requests that overlap.  Requests,     *)
(* users and texts are interchangeable.                                    *)
(***************************************************************************)
EXTENDS Interactions, TLC

MCWordOf == [d \in Definitions |-> CHOOSE w \in Words : TRUE]

Symmetry == Permutations(Procs) \cup Permutations(Users) \cup Permutations(Bodies)
=============================================================================
