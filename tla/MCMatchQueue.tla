----------------------------- MODULE MCMatchQueue -----------------------------
(***************************************************************************)
(* Small instances of MatchQueue for TLC.                                  *)
(***************************************************************************)
EXTENDS MatchQueue

\* The worker's queues; the first names no tier a request may have.
StandardThenBronze == <<"standard", "bronze">>
=============================================================================
