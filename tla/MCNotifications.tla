---------------------------- MODULE MCNotifications ----------------------------
(***************************************************************************)
(* Small instance of Notifications for TLC.                                *)
(***************************************************************************)
EXTENDS Notifications

CONSTANTS u1, u2, t1

asked ==
    {[to |-> {u1, u2}, chans |-> {"in-app"}, system |-> FALSE],
     [to |-> {u1}, chans |-> {"email", "slack"}, system |-> FALSE],
     [to |-> {u1}, chans |-> {"sms", "whatsapp"}, system |-> FALSE],
     [to |-> {u1}, chans |-> {"push"}, system |-> TRUE]}

oldToken == [u \in Users |-> IF u = u1 THEN t1 ELSE NoToken]

wishes == {{}, Channels}
=============================================================================
