------------------------------- MODULE Presence -------------------------------
(***************************************************************************)
(* Who is online: a gateway verifies a socket, then writes the user's      *)
(* presence key with thirty seconds to live; the end of a verified socket  *)
(* deletes the key, whatever other sockets the user has.                   *)
(***************************************************************************)
EXTENDS Integers, FiniteSets

CONSTANTS Users,
          Nobody,           \* the user of a socket that never connected
          Sockets,          \* sockets that may exist at the same time
          MaxConnections    \* bound on the connections made

ASSUME PresenceAssumption == MaxConnections \in Nat

VARIABLES presence,    \* redis: the key user:presence:<id> of each user
          user,        \* whose socket it is
          open,        \* the sockets whose connection is up
          handshake,   \* how far handleConnection is with each socket
          leaving,     \* sockets whose handleDisconnect has yet to delete the key
          connections  \* how many connections were made

presenceVars == <<presence, user, open, handshake, leaving, connections>>

\* A redis key is absent, or it has a time to live, or it is there for good.
RedisKey == {"absent", "expiring", "lasting"}

PresenceInit ==
    /\ presence = [u \in Users |-> "absent"]
    /\ user = [s \in Sockets |-> Nobody]
    /\ open = {} /\ leaving = {}
    /\ handshake = [s \in Sockets |-> "none"]
    /\ connections = 0

\* handleConnection starts: the token is being verified.
Connect(s) ==
    /\ handshake[s] = "none" /\ s \notin open
    /\ connections < MaxConnections
    /\ connections' = connections + 1
    /\ \E u \in Users : user' = [user EXCEPT ![s] = u]
    /\ open' = open \cup {s}
    /\ handshake' = [handshake EXCEPT ![s] = "verifying"]
    /\ UNCHANGED <<presence, leaving>>

\* The token is good: client.user is set and the SET is on its way.
Verified(s) ==
    /\ handshake[s] = "verifying"
    /\ handshake' = [handshake EXCEPT ![s] = "marking"]
    /\ UNCHANGED <<presence, user, open, leaving, connections>>

Rejected(s) ==
    /\ handshake[s] = "verifying"
    /\ handshake' = [handshake EXCEPT ![s] = "none"]
    /\ open' = open \ {s}
    /\ UNCHANGED <<presence, user, leaving, connections>>

\* A plausible mistake: the key is set without a time to live.
SetOnlineForGood(s) ==
    /\ handshake[s] = "marking"
    /\ presence' = [presence EXCEPT ![user[s]] = "lasting"]
    /\ handshake' = [handshake EXCEPT
         ![s] = IF s \in open \cup leaving THEN "marked" ELSE "none"]
    /\ UNCHANGED <<user, open, leaving, connections>>

\* A socket that closed while its token was verified has no disconnect left.
SetOnline(s) ==
    /\ handshake[s] = "marking"
    /\ presence' = [presence EXCEPT ![user[s]] = "expiring"]
    /\ handshake' = [handshake EXCEPT
         ![s] = IF s \in open \cup leaving THEN "marked" ELSE "none"]
    /\ UNCHANGED <<user, open, leaving, connections>>

\* The connection closes.  handleDisconnect does nothing for a socket that
\* has no user yet.
Close(s) ==
    /\ s \in open
    /\ open' = open \ {s}
    /\ leaving' = IF handshake[s] = "verifying" THEN leaving ELSE leaving \cup {s}
    /\ UNCHANGED <<presence, user, handshake, connections>>

\* One connection to redis carries both commands: the DEL follows the SET.
SetOffline(s) ==
    /\ s \in leaving /\ handshake[s] = "marked"
    /\ presence' = [presence EXCEPT ![user[s]] = "absent"]
    /\ leaving' = leaving \ {s}
    /\ handshake' = [handshake EXCEPT ![s] = "none"]
    /\ UNCHANGED <<user, open, connections>>

\* disconnectUser: the sockets in the user's room are closed, then the key goes.
DisconnectUser(u) ==
    LET room == {s \in open : user[s] = u /\ handshake[s] = "marked"}
    IN  /\ open' = open \ room
        /\ leaving' = leaving \cup room
        /\ presence' = [presence EXCEPT ![u] = "absent"]
        /\ UNCHANGED <<user, handshake, connections>>

\* Thirty seconds without a heartbeat.
ExpirePresence(u) ==
    /\ presence[u] = "expiring"
    /\ presence' = [presence EXCEPT ![u] = "absent"]
    /\ UNCHANGED <<user, open, handshake, leaving, connections>>

\* The process dies: its sockets are gone and nobody deletes their keys.
SocketsDie ==
    /\ open' = {} /\ leaving' = {}
    /\ handshake' = [s \in Sockets |-> "none"]
    /\ UNCHANGED <<presence, user, connections>>

ConnectedSockets(u) == {s \in open : user[s] = u}

Gateway(s) == Verified(s) \/ Rejected(s) \/ SetOnline(s) \/ SetOffline(s)

PresenceNext ==
    \/ \E s \in Sockets : Connect(s) \/ Close(s) \/ Gateway(s)
    \/ \E u \in Users : DisconnectUser(u) \/ ExpirePresence(u)
    \/ SocketsDie

\* Only a heartbeat of an open socket puts off the expiry of a key.
PresenceFairness ==
    /\ \A s \in Sockets : WF_presenceVars(Gateway(s))
    /\ \A u \in Users :
         WF_presenceVars(ConnectedSockets(u) = {} /\ ExpirePresence(u))

PresenceTypeOK ==
    /\ presence \in [Users -> RedisKey]
    /\ user \in [Sockets -> Users \cup {Nobody}]
    /\ open \subseteq Sockets
    /\ handshake \in [Sockets -> {"none", "verifying", "marking", "marked"}]
    /\ leaving \subseteq Sockets
    /\ connections \in 0..MaxConnections

\* Nobody stays online after the last socket is gone, although the process may
\* have died before it deleted the key, or the socket closed before the key
\* was even set.
GhostsExpire ==
    \A u \in Users :
        (presence[u] # "absent" /\ ConnectedSockets(u) = {})
            ~> (presence[u] = "absent" \/ ConnectedSockets(u) # {})
=============================================================================
