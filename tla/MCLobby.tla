------------------------------- MODULE MCLobby -------------------------------
(***************************************************************************)
(* Small instance of Lobby with Presence for TLC.                          *)
(***************************************************************************)
EXTENDS Lobby
=============================================================================
