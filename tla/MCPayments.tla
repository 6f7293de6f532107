------------------------------ MODULE MCPayments ------------------------------
(***************************************************************************)
(* A small instance of Payments for TLC: which wallet operations run       *)
(* beside the deposits.                                                    *)
(***************************************************************************)
EXTENDS Payments

QueueKinds == {"deposit", "withdraw"}
=============================================================================
