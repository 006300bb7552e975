---------------------------- MODULE MCGameTable ----------------------------
(* Bounded instances of GameTable for TLC. *)
EXTENDS GameTable, TLC

CONSTANT u1

\* Names, addresses and characters are interchangeable.
Symmetry == Permutations(Names) \cup Permutations(Games) \cup Permutations(Characters)

\* Either several games of u1 alone pass through the table, or one game gathers
\* players: what happens in a party depends on no other game.
OneParty ==
    \/ Cardinality({g \in Games : game[g].status # "unallocated"}) <= 1
    \/ \A g \in Games : game[g].users[1] = NULL /\ game[g].creator \in {u1, NULL}
=============================================================================
