-------------------------------- MODULE Match --------------------------------
(***************************************************************************)
(* One dice match: GameManagerService keeps its state as one JSON value in *)
(* redis, DiceGateway and DiceEngine play it, and the wallet operations    *)
(* queue takes the bets and pays the pot.  A task is one running handler;  *)
(* it reads the whole value, awaits, and writes the whole value back.      *)
(***************************************************************************)
EXTENDS Integers, Sequences, FiniteSets, FiniteSetsExt

CONSTANTS Tasks,           \* handlers that may run at the same time
          Players,         \* user ids of the match
          Order,           \* the players array
          Bots,            \* the players with isBot
          FirstTurn,       \* the match payload's turn
          TreatBotAsUser,  \* the TREAT_BOT_AS_USER setting
          Bet,             \* config.betAmount
          Target,          \* config.targetNumber
          Rolls,           \* sums of two dice that may come up
          Purses,          \* what a wallet may hold before the match
          MaxQueue,        \* bound on the wallet operations queue
          MaxPayouts,      \* bound on the payouts made
          MaxCrashes,      \* bound on crashes of the process
          NoOne            \* no user: an undefined turn, an absent winner

ASSUME MatchAssumption ==
    /\ Order \in Seq(Players)
    /\ {Order[i] : i \in DOMAIN Order} = Players
    /\ IsFiniteSet(Players) /\ Len(Order) = Cardinality(Players)
    /\ Players # {}
    /\ Bots \subseteq Players
    /\ NoOne \notin Players
    /\ FirstTurn \in Players \cup {NoOne}
    /\ TreatBotAsUser \in BOOLEAN
    /\ Bet \in Nat /\ Target \in Nat
    /\ Rolls \subseteq 2..12
    /\ Purses \subseteq Nat
    /\ MaxQueue \in Nat /\ MaxPayouts \in Nat /\ MaxCrashes \in Nat

Humans == Players \ Bots
\* hasBot && !treatBotAsUser: nobody pays and nobody is paid.
Practice == Bots # {} /\ ~TreatBotAsUser

\* dice[p] = 0 stands for no entry.  connectedPlayers is a count: the user id
\* that is looked up in it is an object, the ids in it are strings, so the
\* lookup never finds one and every join is pushed.
GameState ==
    [status: {"LOADING", "BETTING", "PLAYING", "SETTLED"}, connected: Nat,
     locked: SUBSET Players, pot: Nat, turn: Players \cup {NoOne},
     index: 1..Len(Order), dice: [Players -> Rolls \cup {0}],
     winner: Players \cup {NoOne}]

NoState == [status |-> "NONE"]
Task == [at: {"idle", "saving", "toBetting", "queueing", "rolling", "resetting",
              "botTimer", "ending", "paying"},
         user: Players \cup {NoOne}, next: 1..Len(Order),
         snap: GameState \cup {NoState}]
Job == [kind: {"LOCK_FUNDS"}, user: Players, again: BOOLEAN]
       \cup [kind: {"RELEASE_FUNDS"}, user: Players, amount: Nat, again: BOOLEAN]
NoJob == [kind |-> "NONE"]

VARIABLES stored,    \* redis: game:<matchId>
          task,      \* what each handler is doing, with the state it has read
          queue,     \* the wallet operations queue
          active,    \* the job its worker (concurrency 1) runs
          committed, \* that job's wallet transaction has committed
          events,    \* FUNDS_LOCKED events no handler has read the state for
          purse,     \* wallet balances
          taken,     \* how many bets lockFunds has taken from each player
          paid,      \* what releaseFunds has paid for this match
          joined,    \* history: who has joined the room
          payouts,   \* history: how many payouts were made
          crashes    \* history: how often the process died

money == <<purse, taken, paid, payouts>>
worker == <<queue, active, committed, events>>
vars == <<stored, task, queue, active, committed, events, purse, taken, paid,
          joined, payouts, crashes>>

Idle == [at |-> "idle", user |-> NoOne, next |-> 1, snap |-> NoState]
Doing(at, user, snap) == [at |-> at, user |-> user, next |-> 1, snap |-> snap]

Created == [status |-> "LOADING", connected |-> 0, locked |-> {}, pot |-> 0,
            turn |-> FirstTurn,
            index |-> IF FirstTurn = NoOne THEN 1
                      ELSE CHOOSE i \in DOMAIN Order : Order[i] = FirstTurn,
            dice |-> [p \in Players |-> 0], winner |-> NoOne]

Init ==
    /\ stored = NoState
    /\ task = [h \in Tasks |-> Idle]
    /\ queue = <<>> /\ active = NoJob /\ committed = FALSE /\ events = {}
    /\ purse \in [Players -> Purses]
    /\ taken = [p \in Players |-> 0]
    /\ paid = 0 /\ payouts = 0 /\ joined = {} /\ crashes = 0

-----------------------------------------------------------------------------
CreateGame ==
    /\ stored = NoState
    /\ stored' = Created
    /\ UNCHANGED <<task, worker, money, joined, crashes>>

\* A plausible mistake: a late join is counted like any other.
JoinReadAnytime(h, p) ==
    /\ task[h] = Idle
    /\ stored # NoState
    /\ LET s == [stored EXCEPT !.connected = @ + 1]
       IN  task' = [task EXCEPT ![h] =
             Doing(IF s.connected >= Cardinality(Humans)
                   THEN "toBetting" ELSE "saving", NoOne, s)]
    /\ joined' = joined \cup {p}
    /\ UNCHANGED <<stored, worker, money, crashes>>

\* handlePlayerConnected up to its first write; a join after LOADING, or
\* before the game exists, returns without a trace.
JoinRead(h, p) ==
    /\ task[h] = Idle
    /\ stored.status = "LOADING"
    /\ LET s == [stored EXCEPT !.connected = @ + 1]
       IN  task' = [task EXCEPT ![h] =
             Doing(IF s.connected >= Cardinality(Humans)
                   THEN "toBetting" ELSE "saving", NoOne, s)]
    /\ joined' = joined \cup {p}
    /\ UNCHANGED <<stored, worker, money, crashes>>

\* The write that ends handlePlayerConnected or handleFundsLocked.
Save(h) ==
    /\ task[h].at = "saving"
    /\ stored' = task[h].snap
    /\ task' = [task EXCEPT ![h] = Idle]
    /\ UNCHANGED <<worker, money, joined, crashes>>

\* transitionToBetting: the write, then one queued job for each player.
ToBetting(h) ==
    /\ task[h].at = "toBetting"
    /\ LET s == [task[h].snap EXCEPT !.status = "BETTING", !.locked = {}]
       IN  /\ stored' = s
           /\ task' = [task EXCEPT ![h] =
                IF Practice
                THEN Doing("saving", NoOne,
                           [s EXCEPT !.locked = Players, !.status = "PLAYING"])
                ELSE Doing("queueing", NoOne, NoState)]
    /\ UNCHANGED <<worker, money, joined, crashes>>

QueueLock(h) ==
    /\ task[h].at = "queueing"
    /\ Len(queue) < MaxQueue
    /\ queue' = Append(queue, [kind |-> "LOCK_FUNDS", user |-> Order[task[h].next],
                               again |-> FALSE])
    /\ task' = [task EXCEPT ![h] =
         IF task[h].next = Len(Order) THEN Idle ELSE [task[h] EXCEPT !.next = task[h].next + 1]]
    /\ UNCHANGED <<stored, active, committed, events, money, joined, crashes>>

\* A plausible mistake: the update is counted before it is made.
FundsLockedLate(h, p) ==
    /\ task[h] = Idle
    /\ p \in events
    /\ events' = events \ {p}
    /\ IF stored.status # "BETTING" THEN UNCHANGED task
       ELSE task' = [task EXCEPT ![h] = Doing("saving", NoOne,
              [stored EXCEPT !.locked = @ \cup {p}, !.pot = @ + Bet,
                 !.status = IF stored.locked = Players THEN "PLAYING" ELSE "BETTING"])]
    /\ UNCHANGED <<stored, queue, active, committed, money, joined, crashes>>

\* handleFundsLocked up to its write, or its early return.
FundsLocked(h, p) ==
    /\ task[h] = Idle
    /\ p \in events
    /\ events' = events \ {p}
    /\ IF stored.status # "BETTING" THEN UNCHANGED task
       ELSE LET s == IF p \in stored.locked THEN stored
                     ELSE [stored EXCEPT !.locked = @ \cup {p}, !.pot = @ + Bet]
            IN  task' = [task EXCEPT ![h] = Doing("saving", NoOne,
                  IF s.locked = Players THEN [s EXCEPT !.status = "PLAYING"]
                                        ELSE s)]
    /\ UNCHANGED <<stored, queue, active, committed, money, joined, crashes>>

-----------------------------------------------------------------------------
\* handleRoll reads, checks the turn, and waits two seconds with what it read.
RollRead(h, p) ==
    /\ task[h] = Idle
    /\ p \in Humans
    /\ stored.status = "PLAYING"
    /\ stored.turn = p
    /\ task' = [task EXCEPT ![h] = Doing("rolling", p, stored)]
    /\ UNCHANGED <<stored, worker, money, joined, crashes>>

\* processMove on a state s, once the engine's own turn check has passed.
ProcessMove(s, d) ==
    LET i == (s.index % Len(Order)) + 1
    IN  [s EXCEPT !.dice[Order[s.index]] = d, !.index = i, !.turn = Order[i]]

AllRolled(s) == \A p \in Players : s.dice[p] # 0
Winners(s) == {p \in Players : s.dice[p] = Target}

HasResultOfTie(s) == AllRolled(s) \* a plausible mistake: a tie is a result

\* checkWinner: a result, possibly of nobody, unless a roll is missing or
\* several players hit the target.
HasResult(s) == AllRolled(s) /\ Cardinality(Winners(s)) <= 1
Winner(s) == IF Cardinality(Winners(s)) = 1
             THEN CHOOSE p \in Winners(s) : TRUE ELSE NoOne

\* checkBotTurn: a bot whose turn it is acts after three seconds.
AfterTurn(s) ==
    IF s.status = "PLAYING" /\ Order[s.index] \in Bots
    THEN Doing("botTimer", Order[s.index], NoState)
    ELSE Idle

\* The move and the write of its outcome; then 2.5 seconds to the end of the
\* game, three to the reset of a tie, or nothing.
Move(h) ==
    /\ task[h].at = "rolling"
    /\ IF Order[task[h].snap.index] # task[h].user
       THEN task' = [task EXCEPT ![h] = Idle] /\ UNCHANGED stored
       ELSE \E d \in Rolls :
              LET s == ProcessMove(task[h].snap, d)
              IN  /\ stored' = s
                  /\ task' = [task EXCEPT ![h] =
                       IF HasResult(s) THEN Doing("ending", Winner(s), s)
                       ELSE IF AllRolled(s) THEN Doing("resetting", NoOne, s)
                       ELSE AfterTurn(s)]
    /\ UNCHANGED <<worker, money, joined, crashes>>

\* resetRound and its write: the dice and the index start over, the turn
\* does not.
ResetRound(h) ==
    /\ task[h].at = "resetting"
    /\ LET s == [task[h].snap EXCEPT !.dice = [p \in Players |-> 0], !.index = 1]
       IN  /\ stored' = s
           /\ task' = [task EXCEPT ![h] = AfterTurn(s)]
    /\ UNCHANGED <<worker, money, joined, crashes>>

\* The bot's timer fires: the state is read again before it moves.
BotRead(h) ==
    /\ task[h].at = "botTimer"
    /\ task' = [task EXCEPT ![h] =
         IF stored.status = "PLAYING" THEN Doing("rolling", task[h].user, stored)
         ELSE Idle]
    /\ UNCHANGED <<stored, worker, money, joined, crashes>>

\* A plausible mistake: the match is not settled.
EndGameUnsettled(h) ==
    /\ task[h].at = "ending"
    /\ LET w == task[h].user
           s == [task[h].snap EXCEPT !.winner = w]
       IN  /\ stored' = s
           /\ task' = [task EXCEPT ![h] =
                IF Practice \/ w = NoOne THEN Idle ELSE Doing("paying", w, s)]
    /\ UNCHANGED <<worker, money, joined, crashes>>

\* endGame: the write, then the payout of the pot it has read.
EndGame(h) ==
    /\ task[h].at = "ending"
    /\ LET w == task[h].user
           s == [task[h].snap EXCEPT !.status = "SETTLED", !.winner = w]
       IN  /\ stored' = s
           /\ task' = [task EXCEPT ![h] =
                IF Practice \/ w = NoOne THEN Idle ELSE Doing("paying", w, s)]
    /\ UNCHANGED <<worker, money, joined, crashes>>

QueueRelease(h) ==
    /\ task[h].at = "paying"
    /\ Len(queue) < MaxQueue
    /\ queue' = Append(queue, [kind |-> "RELEASE_FUNDS", user |-> task[h].user,
                               amount |-> task[h].snap.pot, again |-> FALSE])
    /\ task' = [task EXCEPT ![h] = Idle]
    /\ UNCHANGED <<stored, active, committed, events, money, joined, crashes>>

-----------------------------------------------------------------------------
\* The worker of the wallet operations queue: a job is taken, its wallet
\* transaction commits or refuses, and only then is FUNDS_LOCKED emitted.
TakeJob ==
    /\ active = NoJob /\ queue # <<>>
    /\ active' = Head(queue) /\ queue' = Tail(queue)
    /\ committed' = FALSE
    /\ UNCHANGED <<stored, task, events, money, joined, crashes>>

CommitLock ==
    /\ active.kind = "LOCK_FUNDS" /\ ~committed
    /\ purse[active.user] >= Bet
    /\ purse' = [purse EXCEPT ![active.user] = @ - Bet]
    /\ taken' = [taken EXCEPT ![active.user] = @ + 1]
    /\ committed' = TRUE
    /\ UNCHANGED <<stored, task, queue, active, events, paid, payouts, joined, crashes>>

\* A plausible mistake: the event is emitted whatever the outcome.
LockFailsButTold ==
    /\ active.kind = "LOCK_FUNDS" /\ ~committed
    /\ purse[active.user] < Bet
    /\ active' = NoJob
    /\ events' = events \cup {active.user}
    /\ UNCHANGED <<stored, task, queue, committed, money, joined, crashes>>

\* Insufficient funds: the job fails, is not tried again, and nobody is told.
LockFails ==
    /\ active.kind = "LOCK_FUNDS" /\ ~committed
    /\ purse[active.user] < Bet
    /\ active' = NoJob
    /\ UNCHANGED <<stored, task, queue, committed, events, money, joined, crashes>>

CommitRelease ==
    /\ active.kind = "RELEASE_FUNDS" /\ ~committed
    /\ payouts < MaxPayouts
    /\ purse' = [purse EXCEPT ![active.user] = @ + active.amount]
    /\ paid' = paid + active.amount
    /\ payouts' = payouts + 1
    /\ committed' = TRUE
    /\ UNCHANGED <<stored, task, queue, active, events, taken, joined, crashes>>

FinishJob ==
    /\ committed
    /\ active # NoJob
    /\ events' = IF active.kind = "LOCK_FUNDS" THEN events \cup {active.user}
                                               ELSE events
    /\ active' = NoJob
    /\ committed' = FALSE
    /\ UNCHANGED <<stored, task, queue, money, joined, crashes>>

\* The process dies with its handlers, timers and events; redis, the wallet
\* and the queue stay.  BullMQ runs a stalled job once more.
Crash ==
    /\ crashes < MaxCrashes
    /\ crashes' = crashes + 1
    /\ task' = [h \in Tasks |-> Idle]
    /\ events' = {}
    /\ active' = NoJob /\ committed' = FALSE
    /\ queue' = IF active = NoJob \/ active.again THEN queue
                ELSE <<[active EXCEPT !.again = TRUE]>> \o queue
    /\ UNCHANGED <<stored, money, joined>>

Wallets == TakeJob \/ CommitLock \/ LockFails \/ CommitRelease \/ FinishJob

Handler(h) ==
    \/ Save(h) \/ ToBetting(h) \/ QueueLock(h)
    \/ \E p \in Players : FundsLocked(h, p)
    \/ Move(h) \/ ResetRound(h) \/ BotRead(h)
    \/ EndGame(h) \/ QueueRelease(h)

Next ==
    \/ CreateGame
    \/ \E h \in Tasks, p \in Humans : JoinRead(h, p) \/ RollRead(h, p)
    \/ \E h \in Tasks : Handler(h)
    \/ Wallets
    \/ Crash

Spec == Init /\ [][Next]_vars

\* A handler that is running resumes after its awaits and timers, and the
\* worker serves its queue; that players join or roll is not promised.
FairSpec == Spec /\ WF_vars(Wallets) /\ \A h \in Tasks : WF_vars(Handler(h))

-----------------------------------------------------------------------------
\* The stored value, the handlers and the queue keep their shapes.
TypeOK ==
    /\ stored \in GameState \cup {NoState}
    /\ task \in [Tasks -> Task]
    /\ queue \in Seq(Job)
    /\ active \in Job \cup {NoJob}
    /\ committed \in BOOLEAN
    /\ events \subseteq Players
    /\ purse \in [Players -> Nat]
    /\ taken \in [Players -> Nat]
    /\ paid \in Nat /\ payouts \in Nat /\ crashes \in Nat
    /\ joined \subseteq Players

\* Nobody plays for free: whatever handlers overlap, are lost in a crash or
\* run twice, a match is played only when each player's bet has been taken,
\* and its pot counts only bets that were.
PlayingIsFunded ==
    stored # NoState /\ ~Practice =>
        /\ \A p \in stored.locked : taken[p] >= 1
        /\ stored.pot = Bet * Cardinality(stored.locked)
        /\ stored.status \in {"PLAYING", "SETTLED"} => stored.locked = Players

\* A settled match names as winner the one player whose roll, as settled,
\* is the target number, although other rolls may overwrite the state until
\* endGame writes its own copy.
WinnerHitTarget ==
    stored.status = "SETTLED" =>
        \A p \in Players : /\ stored.dice[p] # 0
                           /\ stored.dice[p] = Target <=> stored.winner = p

\* As long as the process does not die (a job that is run again pays again),
\* the wallet pays out no more than the bets it took for the match.
PaidWithinBets ==
    crashes = 0 => paid <= Bet * MapThenSumSet(LAMBDA p : taken[p], Players)

\* As long as the process does not die, nobody pays the bet of one match twice.
BetTakenOnce == crashes = 0 => \A p \in Players : taken[p] <= 1

Rank(status) == CASE status = "NONE" -> 0 [] status = "LOADING" -> 1
                  [] status = "BETTING" -> 2 [] status = "PLAYING" -> 3
                  [] status = "SETTLED" -> 4

\* A match never goes back to an earlier status: no late write of a handler
\* that read before revives a settled match or reopens the betting.
StatusAdvances == [][Rank(stored'.status) >= Rank(stored.status)]_vars

\* Once the bets are open and every player has the money, the match starts
\* unless the process dies: no queued lock, event or update gets lost.
BettingResolves ==
    (stored.status = "BETTING" /\ \A p \in Players : purse[p] + taken[p] >= Bet)
        ~> (stored.status \in {"PLAYING", "SETTLED"} \/ crashes > 0)

\* What the code says of itself; TLC finds that it is not so (README, last section
\* on runs).
\* game-manager.service.ts:103 "All humans connected."
AllHumansConnected ==
    stored.status \in {"BETTING", "PLAYING", "SETTLED"} => Humans \subseteq joined

\* dice.engine.ts:129 "Tie or No Winner. Returning null to allow Gateway to
\* handle reset.": a round nobody won does not end the match.
NoWinnerIsReset == stored.status = "SETTLED" => stored.winner # NoOne

\* game-manager.service.ts:51 "Store config and turn index": the stored index
\* is the one of the player whose turn is stored.
TurnIndexIsTurn ==
    stored # NoState /\ stored.turn # NoOne => Order[stored.index] = stored.turn
=============================================================================
