------------------------------ MODULE MCLobby ------------------------------
(* Bounded instances of Lobby for TLC. *)
EXTENDS Lobby, TLC

CONSTANTS u1, u2, u3, u4

\* A game with two or three guests; also one with a guest listed twice, and one for
\* which the creator lists only itself.
TwoGuests == {<<u2, u3>>}
ThreeGuests == {<<u2, u3, u4>>}
AnyGuests == {<<u2, u3>>, <<u3, u3>>, <<u1>>}

\* Names of games and addresses are interchangeable.
Symmetry == Permutations(Names) \cup Permutations(Games)
=============================================================================
