------------------------------ MODULE MatchQueue ------------------------------
(***************************************************************************)
(* Random matchmaking: MatchQueueService puts a player's request into the  *)
(* redis list of its tier, MatchQueueWorker pairs requests in an endless   *)
(* loop that holds up to two of them in memory between redis commands.     *)
(***************************************************************************)
EXTENDS Integers, FiniteSets, SequencesExt

CONSTANTS Requests,    \* calls of addToQueue
          Tiers,       \* the tiers a request may name (TierSchema)
          Served,      \* the worker's queues, in the order of the code
          MaxFailures, \* bound on crashes and failed redis commands
          None         \* no request in the worker's hand

Keys == Tiers \cup {Served[i] : i \in DOMAIN Served}

ASSUME MatchQueueAssumption ==
    /\ Served \in Seq(Keys)
    /\ \A i, j \in DOMAIN Served : Served[i] = Served[j] => i = j
    /\ MaxFailures \in Nat
    /\ None \notin Requests \cup Keys

VARIABLES line,     \* redis: the list of each tier
          timers,   \* requests with a delayed job in the timeout queue
          call,     \* how far each call of addToQueue is
          queues,   \* the worker's rotation of its queues
          worker,   \* the redis command the worker waits for, and on which key
          first,    \* player1 of the turn, popped from its list
          second,   \* player2
          matches,  \* the matches createGame was called for
          failures  \* how many failures there were

loop == <<queues, worker, first, second>>
vars == <<line, timers, call, queues, worker, first, second, matches, failures>>

Looking == [at |-> "blpop", key |-> None]

Init ==
    /\ line = [t \in Keys |-> <<>>]
    /\ timers = {}
    /\ call = [r \in Requests |-> "idle"]
    /\ queues = Served
    /\ worker = Looking /\ first = None /\ second = None
    /\ matches = {} /\ failures = 0

-----------------------------------------------------------------------------
\* addToQueue: the request is in the list before its timeout job is added.
Push(r, t) ==
    /\ call[r] = "idle"
    /\ line' = [line EXCEPT ![t] = Append(@, r)]
    /\ call' = [call EXCEPT ![r] = "pushed"]
    /\ UNCHANGED <<timers, loop, matches, failures>>

\* Nothing takes the job from the timeout queue again: its processor is not
\* among the providers of any module.
ScheduleTimeout(r) ==
    /\ call[r] = "pushed"
    /\ timers' = timers \cup {r}
    /\ call' = [call EXCEPT ![r] = "queued"]
    /\ UNCHANGED <<line, loop, matches, failures>>

-----------------------------------------------------------------------------
\* A plausible mistake: the opponent stays in the worker's hand.
CreateMatchTwice ==
    /\ worker.at = "create"
    /\ matches' = matches \cup {<<first, second>>}
    /\ worker' = Looking /\ first' = None
    /\ UNCHANGED <<line, timers, call, queues, second, failures>>

\* blpop on all queues serves the first that is not empty.
PopFirst ==
    /\ worker = Looking
    /\ \E i \in DOMAIN queues :
         /\ line[queues[i]] # <<>>
         /\ \A j \in 1..(i - 1) : line[queues[j]] = <<>>
         /\ first' = Head(line[queues[i]])
         /\ line' = [line EXCEPT ![queues[i]] = Tail(@)]
         /\ worker' = [at |-> "lpop", key |-> queues[i]]
    /\ UNCHANGED <<timers, call, queues, second, matches, failures>>

\* A plausible mistake: the opponent is read but stays in the list.
PopSecondPeeking ==
    /\ worker.at \in {"lpop", "wait"}
    /\ line[worker.key] # <<>>
    /\ second' = Head(line[worker.key])
    /\ worker' = [worker EXCEPT !.at = "create"]
    /\ UNCHANGED <<line, timers, call, queues, first, matches, failures>>

\* lpop of the same queue, or the two seconds of blpop when it is empty.
PopSecond ==
    /\ worker.at \in {"lpop", "wait"}
    /\ LET k == worker.key
       IN  /\ line[k] # <<>>
           /\ second' = Head(line[k])
           /\ line' = [line EXCEPT ![k] = Tail(@)]
    /\ worker' = [worker EXCEPT !.at = "create"]
    /\ UNCHANGED <<timers, call, queues, first, matches, failures>>

NoSecond ==
    /\ worker.at \in {"lpop", "wait"}
    /\ line[worker.key] = <<>>
    /\ worker' = [worker EXCEPT !.at = IF @ = "lpop" THEN "wait" ELSE "requeue"]
    /\ UNCHANGED <<line, timers, call, queues, first, second, matches, failures>>

\* The queue goes to the end of the rotation.
Rotate(k) ==
    \E i \in DOMAIN queues :
        queues[i] = k /\ queues' = Append(RemoveAt(queues, i), k)

\* A plausible mistake: the player goes back to the end.
RequeueLast ==
    /\ worker.at = "requeue"
    /\ line' = [line EXCEPT ![worker.key] = Append(@, first)]
    /\ Rotate(worker.key)
    /\ worker' = Looking /\ first' = None
    /\ UNCHANGED <<timers, call, second, matches, failures>>

\* The player goes back to the head of the list.
Requeue ==
    /\ worker.at = "requeue"
    /\ line' = [line EXCEPT ![worker.key] = <<first>> \o @]
    /\ Rotate(worker.key)
    /\ worker' = Looking /\ first' = None
    /\ UNCHANGED <<timers, call, second, matches, failures>>

CreateMatch ==
    /\ worker.at = "create"
    /\ matches' = matches \cup {<<first, second>>}
    /\ worker' = Looking /\ first' = None /\ second' = None
    /\ UNCHANGED <<line, timers, call, queues, failures>>

\* A plausible mistake: the exception ends the loop.
TurnFailsForGood ==
    /\ failures < MaxFailures
    /\ failures' = failures + 1
    /\ worker # Looking
    /\ worker' = [worker EXCEPT !.at = "over"]
    /\ UNCHANGED <<line, timers, call, queues, first, second, matches>>

\* A command of the turn throws: the loop goes on without the players it held.
TurnFails ==
    /\ failures < MaxFailures
    /\ failures' = failures + 1
    /\ worker # Looking
    /\ worker' = Looking /\ first' = None /\ second' = None
    /\ UNCHANGED <<line, timers, call, queues, matches>>

\* The process dies and starts again: redis stays, the loop starts over.
Crash ==
    /\ failures < MaxFailures
    /\ failures' = failures + 1
    /\ queues' = Served
    /\ worker' = Looking /\ first' = None /\ second' = None
    /\ call' = [r \in Requests |-> IF call[r] = "pushed" THEN "died" ELSE call[r]]
    /\ UNCHANGED <<line, timers, matches>>

Loop == PopFirst \/ PopSecond \/ NoSecond \/ Requeue \/ CreateMatch

Next ==
    \/ \E r \in Requests : ScheduleTimeout(r) \/ \E t \in Tiers : Push(r, t)
    \/ Loop \/ TurnFails \/ Crash

Spec == Init /\ [][Next]_vars

\* The loop runs as long as the process does; players need not ask.
FairSpec == Spec /\ WF_vars(Loop) /\ \A r \in Requests : WF_vars(ScheduleTimeout(r))

-----------------------------------------------------------------------------
\* The lists hold requests, and the worker holds what its turn has popped.
TypeOK ==
    /\ line \in [Keys -> Seq(Requests)]
    /\ timers \subseteq Requests
    /\ call \in [Requests -> {"idle", "pushed", "queued", "died"}]
    /\ ToSet(queues) = ToSet(Served) /\ Len(queues) = Len(Served)
    /\ worker = Looking \/ worker \in [at: {"lpop", "wait", "requeue", "create"},
                                       key: ToSet(Served)]
    /\ first \in Requests \cup {None} /\ (first = None <=> worker = Looking)
    /\ second \in Requests \cup {None} /\ (second # None <=> worker.at = "create")
    /\ matches \subseteq Requests \X Requests
    /\ failures \in Nat

\* Where a request is: in a list, in the worker's hand, in a match.
Positions == Keys \X UNION {DOMAIN line[k] : k \in Keys}
Places(r) == {ki \in Positions : ki[2] \in DOMAIN line[ki[1]] /\ line[ki[1]][ki[2]] = r}
Hands(r) == {h \in {"first", "second"} : IF h = "first" THEN first = r ELSE second = r}
MatchesOf(r) == {m \in matches : r \in {m[1], m[2]}}

Spots(r) == Cardinality(Places(r)) + Cardinality(Hands(r)) + Cardinality(MatchesOf(r))

\* No request is matched twice, or matched and still waiting, and a failure
\* loses no more than the two requests its turn held: whatever arrives while
\* the worker waits, is put back, fails or starts again.
RequestsAreConserved ==
    /\ \A r \in Requests : Spots(r) <= 1
    /\ Cardinality({r \in Requests : call[r] # "idle" /\ Spots(r) = 0}) <= 2 * failures

\* The lists as the players see them: whom the worker holds is still first.
Hand(k) == IF worker.key # k THEN <<>>
           ELSE IF second = None THEN <<first>> ELSE <<first, second>>

Waiting == [k \in Keys |-> Hand(k) \o line[k]]

Lines == INSTANCE PairingLines WITH Tiers <- Keys, line <- Waiting

\* Each tier is first come, first served: popping, waiting and putting back
\* never lets a later request overtake an earlier one.
ServesInOrder == Lines!Spec

\* Two players in a list the worker serves do not stay there, whatever turn
\* fails and whenever the process starts again.
PairsAreMatched ==
    \A k \in ToSet(Served) : Len(line[k]) >= 2 ~> Len(line[k]) < 2

\* What the repository says of matchmaking; TLC finds that it is not so (README,
\* last section on runs).
\* match-queue.service.ts:41 "Schedule Timeout Job (60 seconds)": a request
\* that nobody answers is over after a time.
TimeoutEndsTheWait ==
    \A r \in Requests : r \in timers ~> \A k \in Keys : r \notin ToSet(Waiting[k])

\* README.md:36 "Real-time matchmaking system that pairs players instantly":
\* two players who wait in one tier are paired, whatever the tier.
EveryTierPairs == \A t \in Tiers : Len(line[t]) >= 2 ~> Len(line[t]) < 2
=============================================================================
