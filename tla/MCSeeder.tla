------------------------------ MODULE MCSeeder ------------------------------
(***************************************************************************)
(* The seeder next to the API, on a file of a root word, a form derived    *)
(* from it, whose class has a stray quote, the root word again with other  *)
(* definitions, and a derived form of an unknown class.                    *)
(***************************************************************************)
EXTENDS Seeder, TLC

SeedFile ==
    << [name |-> "a", isRoot |-> TRUE, wordClass |-> [letters |-> "v", quotes |-> 0],
        definitions |-> <<"m">>, examples |-> <<"s">>],
       [name |-> "b", isRoot |-> FALSE, wordClass |-> [letters |-> "n", quotes |-> 1],
        definitions |-> <<>>, examples |-> <<"s">>],
       [name |-> "a", isRoot |-> TRUE, wordClass |-> [letters |-> "v", quotes |-> 0],
        definitions |-> <<"", "m">>, examples |-> <<>>],
       [name |-> "b", isRoot |-> FALSE, wordClass |-> [letters |-> "?", quotes |-> 0],
        definitions |-> <<"m">>, examples |-> <<>>] >>

SeedHeadwords == {Headword("a", NoRoot)} \cup {Headword("b", w) : w \in Words}

SeedSymmetry == Permutations(Words) \cup Permutations(Children)
=============================================================================
