------------------------------- MODULE MCMatch -------------------------------
(***************************************************************************)
(* A small instance of Match for TLC.                                      *)
(***************************************************************************)
EXTENDS Match

CONSTANTS p1, p2, p3

ThreePlayers == {p1, p2, p3}
InTurn == <<p1, p2, p3>>
LastIsBot == {p3}
=============================================================================
