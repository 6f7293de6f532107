--------------------------- MODULE MCControlCenter ---------------------------
(***************************************************************************)
(* Small instances of ControlCenter for TLC.                               *)
(***************************************************************************)
EXTENDS ControlCenter, TLC

CONSTANTS mail1, mail2, sms1

\* Two providers of one channel, and one of another.
Channels == (mail1 :> "email") @@ (mail2 :> "email") @@ (sms1 :> "sms")
=============================================================================
