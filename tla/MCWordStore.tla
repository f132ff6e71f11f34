---------------------------- MODULE MCWordStore ----------------------------
(***************************************************************************)
(* WordStore on a small instance: two requests create and update two words *)
(* with two headwords and two children between them.                       *)
(***************************************************************************)
EXTENDS WordStore, TLC

StoreSymmetry == Permutations(Words) \cup Permutations(Headwords)
                   \cup Permutations(Children) \cup Permutations(Procs)
=============================================================================
