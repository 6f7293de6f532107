------------------------------ MODULE MCAccounts ------------------------------
(***************************************************************************)
(* Small instance of Accounts for TLC.                                     *)
(***************************************************************************)
EXTENDS Accounts
=============================================================================
