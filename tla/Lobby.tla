-------------------------------- MODULE Lobby --------------------------------
(***************************************************************************)
(* Lobbies: a host stores a lobby in redis under a random code, a friend   *)
(* who names the code joins it and the match is created.  A join is five   *)
(* redis and database calls, and other calls come between any two of them. *)
(* Whether the host is online is what module Presence says.                *)
(***************************************************************************)
EXTENDS Presence

CONSTANTS Codes,     \* four characters in the code
          Calls,     \* executions of createLobby and joinLobby
          NoLobby    \* an absent key

VARIABLES lobby,     \* redis: the key lobby:<code>
          task,      \* how far each call is, with the lobby it has read
          stored,    \* history: the joins that have stored a full lobby
          games      \* the matches createGame was called for

lobbyVars == <<lobby, task, stored, games>>
allVars == <<lobbyVars, presenceVars>>

\* made names the createLobby call, to tell lobbies of one code apart.
LobbyData == [made: Calls, host: Users, players: SUBSET Users, key: RedisKey]
Idle == [at |-> "idle"]
Over == [at |-> "over"]

LobbyInit ==
    /\ PresenceInit
    /\ lobby = [c \in Codes |-> NoLobby]
    /\ task = [j \in Calls |-> Idle]
    /\ stored = {} /\ games = {}

\* Two hosts may draw the same code: the second lobby replaces the first.
CreateLobby(j, u, c) ==
    /\ task[j] = Idle
    /\ lobby' = [lobby EXCEPT ![c] =
         [made |-> j, host |-> u, players |-> {u}, key |-> "expiring"]]
    /\ task' = [task EXCEPT ![j] = Over]
    /\ UNCHANGED <<stored, games>>

\* The GET of joinLobby.
JoinRead(j, u, c) ==
    /\ task[j] = Idle
    /\ task' = [task EXCEPT ![j] =
         IF lobby[c] = NoLobby THEN Over
         ELSE [at |-> "checking", joiner |-> u, code |-> c,
               data |-> lobby[c], before |-> stored]]
    /\ UNCHANGED <<lobby, stored, games>>

\* Every reason to turn the joiner away, judged by the copy that was read.
JoinCheck(j) ==
    /\ task[j].at = "checking"
    /\ LET d == task[j].data
       IN  task' = [task EXCEPT ![j] =
             IF \/ presence[d.host] = "absent"
                \/ task[j].joiner \in d.players
                \/ Cardinality(d.players) >= 2
             THEN Over
             ELSE [task[j] EXCEPT !.at = "storing",
                                  !.data.players = d.players \cup {task[j].joiner}]]
    /\ UNCHANGED <<lobby, stored, games>>

\* Plausible mistakes: the full lobby is not stored before the match is made,
\* or it is stored without a time to live.
JoinStoreNothing(j) ==
    /\ task[j].at = "storing"
    /\ stored' = stored \cup {j}
    /\ task' = [task EXCEPT ![j].at = "matching"]
    /\ UNCHANGED <<lobby, games>>

JoinStoreForGood(j) ==
    /\ task[j].at = "storing"
    /\ lobby' = [lobby EXCEPT ![task[j].code] = [task[j].data EXCEPT !.key = "lasting"]]
    /\ stored' = stored \cup {j}
    /\ task' = [task EXCEPT ![j].at = "matching"]
    /\ UNCHANGED games

\* The SET: over whatever the key holds by now, with ten minutes to live.
JoinStore(j) ==
    /\ task[j].at = "storing"
    /\ lobby' = [lobby EXCEPT ![task[j].code] = [task[j].data EXCEPT !.key = "expiring"]]
    /\ stored' = stored \cup {j}
    /\ task' = [task EXCEPT ![j].at = "matching"]
    /\ UNCHANGED games

JoinMatch(j) ==
    /\ task[j].at = "matching"
    /\ games' = games \cup
         {[lobby |-> task[j].data.made, by |-> j, players |-> task[j].data.players]}
    /\ task' = [task EXCEPT ![j].at = "deleting"]
    /\ UNCHANGED <<lobby, stored>>

\* The DEL, of whatever lobby has the code by now.
JoinDelete(j) ==
    /\ task[j].at = "deleting"
    /\ lobby' = [lobby EXCEPT ![task[j].code] = NoLobby]
    /\ task' = [task EXCEPT ![j] = Over]
    /\ UNCHANGED <<stored, games>>

\* A call of redis, the wallet, the users or the game manager fails, the
\* joiner cannot pay, or the process dies: what was stored stays.
JoinFails(j) ==
    /\ task[j].at \notin {"idle", "over"}
    /\ task' = [task EXCEPT ![j] = Over]
    /\ UNCHANGED <<lobby, stored, games>>

ExpireLobby(c) ==
    /\ lobby[c] # NoLobby /\ lobby[c].key = "expiring"
    /\ lobby' = [lobby EXCEPT ![c] = NoLobby]
    /\ UNCHANGED <<task, stored, games>>

Join(j) == JoinCheck(j) \/ JoinStore(j) \/ JoinMatch(j) \/ JoinDelete(j) \/ JoinFails(j)

LobbyStep ==
    \/ \E j \in Calls, u \in Users, c \in Codes : CreateLobby(j, u, c) \/ JoinRead(j, u, c)
    \/ \E j \in Calls : Join(j)
    \/ \E c \in Codes : ExpireLobby(c)

LobbyNext ==
    \/ LobbyStep /\ UNCHANGED presenceVars
    \/ PresenceNext /\ UNCHANGED lobbyVars

LobbySpec == LobbyInit /\ [][LobbyNext]_allVars

\* Redis expires keys, and the gateway's handlers go on; a join need not.
LobbyFairSpec ==
    /\ LobbySpec
    /\ PresenceFairness
    /\ \A c \in Codes : WF_allVars(ExpireLobby(c) /\ UNCHANGED presenceVars)

-----------------------------------------------------------------------------
\* Lobbies, calls, games and presence keep their shapes.
LobbyTypeOK ==
    /\ PresenceTypeOK
    /\ lobby \in [Codes -> LobbyData \cup {NoLobby}]
    /\ task \in [Calls -> {Idle, Over} \cup
         [at: {"checking", "storing", "matching", "deleting"}, joiner: Users,
          code: Codes, data: LobbyData, before: SUBSET Calls]]
    /\ stored \subseteq Calls
    /\ games \subseteq [lobby: Calls, by: Calls, players: SUBSET Users]

\* A lobby is closed by the first join that is stored: who asks after that gets
\* no match of it, whichever of several joins was stored last, whether the lobby
\* was deleted or expired meanwhile, and if the join died before its match.
LateJoinIsRefused ==
    \A j \in Calls, m \in games :
        task[j].at \in {"storing", "matching", "deleting"} /\ m.lobby = task[j].data.made
            => m.by \notin task[j].before

\* No lobby stays for ever, not even one whose join died before it deleted it.
LobbiesGo == \A c \in Codes : lobby[c] # NoLobby ~> lobby[c] = NoLobby
=============================================================================
