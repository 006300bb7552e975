------------------------------ MODULE MCMatch -------------------------------
(***************************************************************************)
(* A Babo, who may copy the Swalot it plays against.  One kind of match is *)
(* about bullets, the other about slimes.                                  *)
(***************************************************************************)
EXTENDS Match

const_CharType == [c \in {0, 1} |-> IF c = 0 THEN "B" ELSE "S"]
const_Scopes   == {[bullets |-> 2, slimes |-> 0], [bullets |-> 1, slimes |-> 2]}
=============================================================================
