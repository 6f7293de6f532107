------------------------------ MODULE MCWallet ------------------------------
(***************************************************************************)
(* Small instances of Wallet for TLC: the sets of operations that run      *)
(* together, and the symmetry of calls and users.                          *)
(***************************************************************************)
EXTENDS Wallet, TLC

\* Calls and users are never told apart by the model.
Symmetry == Permutations(Calls) \cup Permutations(Users)

NoRevert == AllKinds \ {"revertGame"}
GameKinds == {"lockFunds", "revertGame", "deleteWallet"}
SerialKinds == {"deposit", "withdraw", "lockFunds", "releaseFunds", "revertGame"}
=============================================================================
