----------------------------- MODULE MatchProofs -----------------------------
(***************************************************************************)
(* Proofs about Match for any number of players, handlers and crashes.     *)
(***************************************************************************)
EXTENDS Match, TLAPS, FiniteSetTheorems

\* Positions of the players array.
LEMMA Positions ==
    /\ Len(Order) \in Nat /\ Len(Order) >= 1
    /\ DOMAIN Order = 1..Len(Order)
    /\ \A i \in 1..Len(Order) : Order[i] \in Players
    /\ \A p \in Players : \E i \in 1..Len(Order) : Order[i] = p
  <1>1. Order \in Seq(Players) /\ Players # {}
    BY MatchAssumption
  <1>2. {Order[i] : i \in DOMAIN Order} = Players
    BY MatchAssumption
  <1>3. /\ Len(Order) \in Nat
        /\ DOMAIN Order = 1..Len(Order)
        /\ \A i \in 1..Len(Order) : Order[i] \in Players
    BY <1>1
  <1>4. \A p \in Players : \E i \in 1..Len(Order) : Order[i] = p
    BY <1>2, <1>3
  <1> QED BY <1>1, <1>3, <1>4

LEMMA NumbersOfAMatch ==
    Bet \in Nat /\ \A n : n \in Purses => n \in Nat
  BY MatchAssumption

LEMMA CreatedType == Created \in GameState
  <1>1. FirstTurn \in Players \cup {NoOne}
    BY MatchAssumption
  <1>2. Created.index \in 1..Len(Order)
    <2>1. CASE FirstTurn = NoOne
      BY <2>1, Positions DEF Created
    <2>2. CASE FirstTurn # NoOne
      BY <1>1, <2>2, Positions DEF Created
    <2> QED BY <2>1, <2>2
  <1> QED BY <1>1, <1>2 DEF Created, GameState

LEMMA DoingType ==
    ASSUME NEW at \in {"idle", "saving", "toBetting", "queueing", "rolling",
                       "resetting", "botTimer", "ending", "paying"},
           NEW user \in Players \cup {NoOne}, NEW s \in GameState \cup {NoState}
    PROVE  Doing(at, user, s) \in Task /\ Idle \in Task
  BY Positions DEF Doing, Idle, Task

\* Moves, resets and their outcomes are states and tasks again.
LEMMA MoveType ==
    ASSUME NEW s \in GameState, NEW d \in Rolls
    PROVE  ProcessMove(s, d) \in GameState
  <1> DEFINE i == (s.index % Len(Order)) + 1
  <1>1. s.index \in 1..Len(Order)
    BY DEF GameState
  <1>2. i \in 1..Len(Order) /\ Order[i] \in Players /\ Order[s.index] \in Players
    BY <1>1, Positions
  <1> QED BY <1>2 DEF ProcessMove, GameState

LEMMA AfterTurnType ==
    ASSUME NEW s \in GameState
    PROVE  AfterTurn(s) \in Task
  <1>1. Order[s.index] \in Players
    BY Positions DEF GameState
  <1> QED BY <1>1, DoingType DEF AfterTurn

LEMMA WinnerType == \A s : Winner(s) \in Players \cup {NoOne}
  <1> TAKE s
  <1>1. CASE Cardinality(Winners(s)) = 1
    <2>1. Winners(s) # {}
      BY <1>1, FS_EmptySet
    <2> QED BY <1>1, <2>1 DEF Winner, Winners
  <1>2. CASE Cardinality(Winners(s)) # 1
    BY <1>2 DEF Winner
  <1> QED BY <1>1, <1>2

-----------------------------------------------------------------------------
LEMMA InitTypeOK == Init => TypeOK
  <1> SUFFICES ASSUME Init PROVE TypeOK
    OBVIOUS
  <1>1. task \in [Tasks -> Task]
    BY DoingType DEF Init
  <1>2. queue \in Seq(Job)
    BY DEF Init
  <1>3. purse \in [Players -> Nat]
    BY NumbersOfAMatch DEF Init
  <1> QED BY <1>1, <1>2, <1>3 DEF Init, TypeOK

\* The type invariant follows when only the stored value and one task change.
LEMMA TaskStep ==
    ASSUME TypeOK, NEW h \in Tasks, NEW t \in Task,
           task' = [task EXCEPT ![h] = t],
           stored' \in GameState \cup {NoState},
           UNCHANGED <<worker, money, crashes>>, joined' \subseteq Players
    PROVE  TypeOK'
  BY DEF TypeOK, worker, money

LEMMA SaveType ==
    ASSUME TypeOK, NEW h \in Tasks, Save(h) PROVE TypeOK'
  <1>1. Idle \in Task /\ task[h] \in Task
    BY DoingType DEF TypeOK
  <1> QED BY <1>1, TaskStep DEF Save, Task, TypeOK

LEMMA JoinType ==
    ASSUME TypeOK, NEW h \in Tasks, NEW p \in Humans, JoinRead(h, p) PROVE TypeOK'
  <1> DEFINE s == [stored EXCEPT !.connected = @ + 1]
  <1>1. stored \in GameState
    BY DEF JoinRead, TypeOK, NoState
  <1>2. s \in GameState
    BY <1>1 DEF GameState
  <1>3. PICK at \in {"toBetting", "saving"} :
          task' = [task EXCEPT ![h] = Doing(at, NoOne, s)]
    BY DEF JoinRead
  <1>4. Doing(at, NoOne, s) \in Task
    BY <1>2, DoingType
  <1> QED BY <1>3, <1>4, TaskStep DEF JoinRead, TypeOK, Humans

LEMMA ToBettingType ==
    ASSUME TypeOK, NEW h \in Tasks, task[h].snap \in GameState, ToBetting(h)
    PROVE  TypeOK'
  <1> DEFINE s == [task[h].snap EXCEPT !.status = "BETTING", !.locked = {}]
             s2 == [s EXCEPT !.locked = Players, !.status = "PLAYING"]
  <1>1. s \in GameState /\ s2 \in GameState
    BY DEF GameState
  <1>2. /\ Doing("saving", NoOne, s2) \in Task
        /\ Doing("queueing", NoOne, NoState) \in Task
    BY <1>1, DoingType
  <1>3. PICK t \in Task : task' = [task EXCEPT ![h] = t]
    BY <1>2 DEF ToBetting
  <1> QED BY <1>1, <1>3, TaskStep DEF ToBetting, TypeOK

LEMMA FundsLockedType ==
    ASSUME TypeOK, NEW h \in Tasks, NEW p \in Players, FundsLocked(h, p)
    PROVE  TypeOK'
  <1> DEFINE s == IF p \in stored.locked THEN stored
                  ELSE [stored EXCEPT !.locked = @ \cup {p}, !.pot = @ + Bet]
             s2 == [s EXCEPT !.status = "PLAYING"]
  <1>1. CASE UNCHANGED task
    BY <1>1 DEF FundsLocked, TypeOK, money
  <1>2. CASE stored.status = "BETTING"
    <2>1. stored \in GameState
      BY <1>2 DEF TypeOK, NoState
    <2>0. stored.pot + Bet \in Nat /\ stored.locked \cup {p} \in SUBSET Players
      BY <2>1, NumbersOfAMatch DEF GameState
    <2>2. s \in GameState
      BY <2>0, <2>1 DEF GameState
    <2>3. s2 \in GameState
      BY <2>2 DEF GameState
    <2>4. Doing("saving", NoOne, s) \in Task /\ Doing("saving", NoOne, s2) \in Task
      BY <2>2, <2>3, DoingType
    <2>5. PICK t \in Task : task' = [task EXCEPT ![h] = t]
      BY <1>2, <2>4 DEF FundsLocked
    <2> QED BY <2>5 DEF FundsLocked, TypeOK, money
  <1> QED BY <1>1, <1>2 DEF FundsLocked

LEMMA MoveStepType ==
    ASSUME TypeOK, NEW h \in Tasks, task[h].snap \in GameState, Move(h)
    PROVE  TypeOK'
  <1>1. CASE task' = [task EXCEPT ![h] = Idle] /\ UNCHANGED stored
    BY <1>1, DoingType, TaskStep DEF Move, TypeOK
  <1>2. CASE ~(task' = [task EXCEPT ![h] = Idle] /\ UNCHANGED stored)
    <2>1. PICK d \in Rolls :
            LET s == ProcessMove(task[h].snap, d)
            IN  /\ stored' = s
                /\ task' = [task EXCEPT ![h] =
                     IF HasResult(s) THEN Doing("ending", Winner(s), s)
                     ELSE IF AllRolled(s) THEN Doing("resetting", NoOne, s)
                     ELSE AfterTurn(s)]
      BY <1>2 DEF Move
    <2> DEFINE s == ProcessMove(task[h].snap, d)
    <2>2. s \in GameState
      BY MoveType
    <2> HIDE DEF s
    <2>3. /\ Doing("ending", Winner(s), s) \in Task
          /\ Doing("resetting", NoOne, s) \in Task
          /\ AfterTurn(s) \in Task
      BY <2>2, DoingType, WinnerType, AfterTurnType
    <2>4. PICK t \in Task : task' = [task EXCEPT ![h] = t]
      BY <2>1, <2>3 DEF s
    <2>5. stored' \in GameState
      BY <2>1, <2>2 DEF s
    <2> QED BY <2>4, <2>5, TaskStep DEF Move, TypeOK
  <1> QED BY <1>1, <1>2

LEMMA ResetType ==
    ASSUME TypeOK, NEW h \in Tasks, task[h].snap \in GameState, ResetRound(h)
    PROVE  TypeOK'
  <1> DEFINE s == [task[h].snap EXCEPT !.dice = [p \in Players |-> 0], !.index = 1]
  <1>0. /\ [p \in Players |-> 0] \in [Players -> Rolls \cup {0}]
        /\ 1 \in 1..Len(Order)
    BY Positions
  <1>1. s \in GameState
    BY <1>0 DEF GameState
  <1>2. AfterTurn(s) \in Task
    BY <1>1, AfterTurnType
  <1> QED BY <1>1, <1>2, TaskStep DEF ResetRound, TypeOK

LEMMA EndGameType ==
    ASSUME TypeOK, NEW h \in Tasks, task[h].snap \in GameState, EndGame(h)
    PROVE  TypeOK'
  <1> DEFINE w == task[h].user
             s == [task[h].snap EXCEPT !.status = "SETTLED", !.winner = w]
  <1>1. w \in Players \cup {NoOne}
    BY DEF TypeOK, Task
  <1>2. s \in GameState
    BY <1>1 DEF GameState
  <1>3. Idle \in Task /\ Doing("paying", w, s) \in Task
    BY <1>1, <1>2, DoingType
  <1>4. PICK t \in Task : task' = [task EXCEPT ![h] = t]
    BY <1>3 DEF EndGame
  <1> QED BY <1>2, <1>4, TaskStep DEF EndGame, TypeOK

\* A task that will write has read a state of the game at the status its
\* handler checked, and a task that pays pays a player.
TaskGood(t) ==
    /\ t.at \notin {"idle", "queueing", "botTimer"} => t.snap \in GameState
    /\ t.at = "paying" => t.user \in Players
    /\ t.at = "toBetting" => t.snap.status = "LOADING"
    /\ t.at \in {"rolling", "resetting", "ending"} => t.snap.status = "PLAYING"

SnapInv == \A h \in Tasks : TaskGood(task[h])

LEMMA HandlerType ==
    ASSUME TypeOK, SnapInv, NEW h \in Tasks, Handler(h)
    PROVE  TypeOK'
  <1>1. CASE Save(h)
    BY <1>1, SaveType
  <1>2. CASE ToBetting(h)
    BY <1>2, ToBettingType DEF ToBetting, SnapInv, TaskGood
  <1>3. CASE QueueLock(h)
    <2> DEFINE job == [kind |-> "LOCK_FUNDS", user |-> Order[task[h].next],
                       again |-> FALSE]
    <2>1. task[h] \in Task /\ task[h].next \in 1..Len(Order)
      BY DEF TypeOK, Task
    <2>2. job \in Job
      BY <2>1, Positions DEF Job
    <2>3. queue' \in Seq(Job)
      BY <1>3, <2>2 DEF QueueLock, TypeOK
    <2>4. Idle \in Task
      BY Positions DEF Idle, Task
    <2>5. ASSUME task[h].next # Len(Order)
          PROVE  [task[h] EXCEPT !.next = task[h].next + 1] \in Task
      <3>1. task[h].next + 1 \in 1..Len(Order)
        BY <2>1, <2>5, Positions
      <3> QED BY <2>1, <3>1 DEF Task
    <2>6. task' \in [Tasks -> Task]
      BY <1>3, <2>4, <2>5 DEF QueueLock, TypeOK
    <2> QED BY <1>3, <2>3, <2>6 DEF QueueLock, TypeOK, money
  <1>4. CASE \E p \in Players : FundsLocked(h, p)
    BY <1>4, FundsLockedType
  <1>5. CASE Move(h)
    BY <1>5, MoveStepType DEF Move, SnapInv, TaskGood
  <1>6. CASE ResetRound(h)
    BY <1>6, ResetType DEF ResetRound, SnapInv, TaskGood
  <1>7. CASE BotRead(h)
    <2>1. task[h].user \in Players \cup {NoOne}
      BY DEF TypeOK, Task
    <2>2. Doing("rolling", task[h].user, stored) \in Task /\ Idle \in Task
      BY <2>1, DoingType DEF TypeOK
    <2>3. PICK t \in Task : task' = [task EXCEPT ![h] = t]
      BY <1>7, <2>2 DEF BotRead
    <2> QED BY <1>7, <2>3, TaskStep DEF BotRead, TypeOK
  <1>8. CASE EndGame(h)
    BY <1>8, EndGameType DEF EndGame, SnapInv, TaskGood
  <1>9. CASE QueueRelease(h)
    <2> DEFINE job == [kind |-> "RELEASE_FUNDS", user |-> task[h].user,
                       amount |-> task[h].snap.pot, again |-> FALSE]
    <2>1. task[h].snap \in GameState
      BY <1>9 DEF QueueRelease, SnapInv, TaskGood
    <2>2. task[h].user \in Players
      BY <1>9 DEF QueueRelease, SnapInv, TaskGood
    <2>3. queue' \in Seq(Job)
      <3>1. job \in Job
        BY <2>1, <2>2 DEF Job, GameState
      <3> QED BY <1>9, <3>1 DEF QueueRelease, TypeOK
    <2>4. task' \in [Tasks -> Task]
      BY <1>9, DoingType DEF QueueRelease, TypeOK
    <2> QED BY <1>9, <2>3, <2>4 DEF QueueRelease, TypeOK, money
  <1> QED BY <1>1, <1>2, <1>3, <1>4, <1>5, <1>6, <1>7, <1>8, <1>9 DEF Handler

LEMMA WorkerType ==
    ASSUME TypeOK, Wallets \/ Crash
    PROVE  TypeOK'
  <1>1. CASE TakeJob
    <2>1. Head(queue) \in Job /\ Tail(queue) \in Seq(Job)
      BY <1>1 DEF TakeJob, TypeOK
    <2> QED BY <1>1, <2>1 DEF TakeJob, TypeOK, money
  <1>2. CASE CommitLock
    <2>1. active \in Job /\ active.user \in Players
      BY <1>2 DEF CommitLock, TypeOK, NoJob, Job
    <2>2. purse[active.user] - Bet \in Nat /\ taken[active.user] + 1 \in Nat
      BY <1>2, <2>1, NumbersOfAMatch DEF CommitLock, TypeOK
    <2> QED BY <1>2, <2>2 DEF CommitLock, TypeOK
  <1>3. CASE LockFails
    BY <1>3 DEF LockFails, TypeOK, money
  <1>4. CASE CommitRelease
    <2>1. active \in Job /\ active.user \in Players /\ active.amount \in Nat
      BY <1>4 DEF CommitRelease, TypeOK, NoJob, Job
    <2>2. purse[active.user] + active.amount \in Nat /\ paid + active.amount \in Nat
      BY <2>1 DEF TypeOK
    <2>3. purse' \in [Players -> Nat] /\ paid' \in Nat /\ payouts' \in Nat
      <3>1. /\ purse' = [purse EXCEPT ![active.user] = @ + active.amount]
            /\ paid' = paid + active.amount
            /\ payouts' = payouts + 1
        BY <1>4 DEF CommitRelease
      <3>2. purse' \in [Players -> Nat]
        BY <2>2, <3>1 DEF TypeOK
      <3>3. payouts' \in Nat
        BY <3>1 DEF TypeOK
      <3> QED BY <2>2, <3>1, <3>2, <3>3
    <2> QED BY <1>4, <2>3 DEF CommitRelease, TypeOK
  <1>5. CASE FinishJob
    <2>1. active.user \in Players
      BY <1>5 DEF FinishJob, TypeOK, Job
    <2> QED BY <1>5, <2>1 DEF FinishJob, TypeOK, money
  <1>6. CASE Crash
    <2>1. ASSUME active # NoJob, ~active.again
          PROVE  <<[active EXCEPT !.again = TRUE]>> \o queue \in Seq(Job)
      <3>1. active \in Job
        BY <2>1 DEF TypeOK
      <3>2. [active EXCEPT !.again = TRUE] \in Job
        BY <3>1 DEF Job
      <3> QED BY <3>2 DEF TypeOK
    <2>2. queue' \in Seq(Job)
      BY <1>6, <2>1 DEF Crash, TypeOK
    <2>3. task' \in [Tasks -> Task]
      BY <1>6, Positions DEF Crash, Idle, Task
    <2>4. crashes' \in Nat
      <3>1. crashes' = crashes + 1 /\ crashes \in Nat
        BY <1>6 DEF Crash, TypeOK
      <3> QED BY <3>1
    <2>6. active' \in Job \cup {NoJob} /\ committed' \in BOOLEAN
      BY <1>6 DEF Crash
    <2>5. UNCHANGED <<stored, purse, taken, paid, payouts, joined>> /\ events' = {}
      BY <1>6 DEF Crash, money
    <2> QED BY <2>2, <2>3, <2>4, <2>5, <2>6 DEF TypeOK
  <1> QED BY <1>1, <1>2, <1>3, <1>4, <1>5, <1>6 DEF Wallets

LEMMA NextType ==
    ASSUME TypeOK, SnapInv, Next
    PROVE  TypeOK'
  <1>1. CASE CreateGame
    BY <1>1, CreatedType DEF CreateGame, TypeOK, worker, money
  <1>2. ASSUME NEW h \in Tasks, NEW p \in Humans, RollRead(h, p)
        PROVE  TypeOK'
    <2>1. p \in Players /\ stored \in GameState
      BY <1>2 DEF RollRead, TypeOK, NoState, Humans
    <2>2. Doing("rolling", p, stored) \in Task
      BY <2>1, DoingType
    <2> QED BY <1>2, <2>2, TaskStep DEF RollRead, TypeOK
  <1> QED BY <1>1, <1>2, JoinType, HandlerType, WorkerType DEF Next

-----------------------------------------------------------------------------
\* The invariant behind PlayingIsFunded.  It is said of every copy of the
\* state, because any copy may become the stored one: each lists as locked
\* only players whose bet has been taken.
Funded(s) ==
    s # NoState /\ ~Practice =>
        /\ \A p \in s.locked : taken[p] >= 1
        /\ s.pot = Bet * Cardinality(s.locked)
        /\ s.status = "LOADING" => s.locked = {}
        /\ s.status \in {"PLAYING", "SETTLED"} => s.locked = Players

BetsTaken ==
    /\ \A p \in events : taken[p] >= 1
    /\ committed /\ active.kind = "LOCK_FUNDS" => taken[active.user] >= 1

FundedInv ==
    /\ TypeOK
    /\ SnapInv
    /\ Funded(stored)
    /\ \A h \in Tasks : Funded(task[h].snap)
    /\ BetsTaken

LEMMA EmptyPot == Bet * Cardinality({}) = 0
  <1>1. Cardinality({}) = 0
    BY FS_EmptySet
  <1> QED BY <1>1, NumbersOfAMatch

\* A state with the same bets at a later status is funded as well.
LEMMA FundedSame ==
    ASSUME NEW s \in GameState, NEW r \in GameState, Funded(s),
           r.locked = s.locked, r.pot = s.pot,
           \/ r.status = s.status
           \/ s.status = "PLAYING" /\ r.status = "SETTLED"
    PROVE  Funded(r)
  <1>1. s # NoState
    BY DEF GameState, NoState
  <1> QED BY <1>1 DEF Funded, GameState

LEMMA FundedLock ==
    ASSUME NEW s \in GameState, Funded(s), s.status = "BETTING",
           NEW p \in Players, p \notin s.locked, taken[p] >= 1
    PROVE  Funded([s EXCEPT !.locked = @ \cup {p}, !.pot = @ + Bet])
  <1> DEFINE r == [s EXCEPT !.locked = @ \cup {p}, !.pot = @ + Bet]
             n == Cardinality(s.locked)
  <1>1. s # NoState
    BY DEF GameState, NoState
  <1>2. IsFiniteSet(s.locked) /\ n \in Nat /\ Cardinality(s.locked \cup {p}) = n + 1
    <2>1. IsFiniteSet(s.locked)
      BY MatchAssumption, FS_Subset DEF GameState
    <2> QED BY <2>1, FS_CardinalityType, FS_AddElement
  <1>3. Practice \/ s.pot = Bet * n
    BY <1>1 DEF Funded
  <1>4. Bet * (n + 1) = Bet * n + Bet
    BY <1>2, NumbersOfAMatch
  <1>5. r.locked = s.locked \cup {p} /\ r.pot = s.pot + Bet /\ r.status = "BETTING"
    BY DEF GameState
  <1> QED BY <1>1, <1>2, <1>3, <1>4, <1>5 DEF Funded

\* The inductive step of FundedInv when one task changes and no money moves.
LEMMA FundedTask ==
    ASSUME FundedInv, TypeOK', NEW h \in Tasks, NEW t \in Task,
           task' = [task EXCEPT ![h] = t], TaskGood(t), Funded(t.snap),
           NEW r, stored' = r, Funded(r), UNCHANGED taken, BetsTaken'
    PROVE  FundedInv'
  <1>1. \A k \in Tasks : task'[k] = IF k = h THEN t ELSE task[k]
    BY DEF FundedInv, TypeOK
  <1>2. SnapInv'
    BY <1>1 DEF FundedInv, SnapInv, TaskGood
  <1>3. Funded(stored)'
    BY DEF Funded
  <1>4. \A k \in Tasks : Funded(task[k].snap)'
    BY <1>1 DEF FundedInv, Funded
  <1> QED BY <1>2, <1>3, <1>4 DEF FundedInv

\* ... and when only bets are taken or the worker's own state changes.
LEMMA FundedMoney ==
    ASSUME FundedInv, TypeOK', UNCHANGED <<stored, task>>, BetsTaken',
           \A p \in Players : taken[p] >= 1 => taken'[p] >= 1
    PROVE  FundedInv'
  <1>1. SnapInv'
    BY DEF FundedInv, SnapInv, TaskGood
  <1>2. \A s \in GameState \cup {NoState} : Funded(s) => Funded(s)'
    BY DEF Funded, GameState
  <1>3. Funded(stored)'
    BY <1>2 DEF FundedInv, TypeOK
  <1>4. \A k \in Tasks : Funded(task[k].snap)'
    BY <1>2 DEF FundedInv, TypeOK, Task
  <1> QED BY <1>1, <1>3, <1>4 DEF FundedInv

LEMMA NothingFunded == Funded(NoState) /\ TaskGood(Idle)
  BY DEF Funded, TaskGood, Idle

LEMMA InitFunded == Init => FundedInv
  <1> SUFFICES ASSUME Init PROVE FundedInv
    OBVIOUS
  <1>1. TypeOK
    BY InitTypeOK
  <1>2. SnapInv /\ Funded(stored) /\ \A h \in Tasks : Funded(task[h].snap)
    BY NothingFunded DEF Init, SnapInv, Idle
  <1>3. BetsTaken
    BY DEF Init, BetsTaken
  <1> QED BY <1>1, <1>2, <1>3 DEF FundedInv

LEMMA BetsTakenSame ==
    ASSUME BetsTaken, events' \subseteq events,
           UNCHANGED <<taken, committed, active>>
    PROVE  BetsTaken'
  BY DEF BetsTaken

LEMMA JoinFunded ==
    ASSUME FundedInv, TypeOK', NEW h \in Tasks, NEW p \in Humans, JoinRead(h, p)
    PROVE  FundedInv'
  <1> DEFINE s == [stored EXCEPT !.connected = @ + 1]
  <1>1. stored \in GameState /\ stored.status = "LOADING"
    BY DEF JoinRead, FundedInv, TypeOK, NoState
  <1>2. /\ s \in GameState /\ s.status = "LOADING"
        /\ s.locked = stored.locked /\ s.pot = stored.pot
    BY <1>1 DEF GameState
  <1>3. Funded(s)
    BY <1>1, <1>2, FundedSame DEF FundedInv
  <1>4. PICK at \in {"toBetting", "saving"} :
          task' = [task EXCEPT ![h] = Doing(at, NoOne, s)]
    BY DEF JoinRead
  <1> DEFINE t == Doing(at, NoOne, s)
  <1>5. t \in Task /\ TaskGood(t) /\ t.snap = s
    <2>1. t \in Task
      BY <1>2, DoingType
    <2> QED BY <1>2, <2>1 DEF TaskGood, Doing
  <1>6. BetsTaken'
    BY BetsTakenSame DEF JoinRead, FundedInv, worker, money
  <1>7. UNCHANGED <<stored, taken>> /\ Funded(stored)
    BY DEF JoinRead, FundedInv, money
  <1> HIDE DEF s, t
  <1>8. Funded(t.snap)
    BY <1>3, <1>5
  <1> QED BY <1>4, <1>5, <1>6, <1>7, <1>8, FundedTask DEF t

LEMMA SaveFunded ==
    ASSUME FundedInv, TypeOK', NEW h \in Tasks, Save(h)
    PROVE  FundedInv'
  <1>1. BetsTaken'
    BY BetsTakenSame DEF Save, FundedInv, worker, money
  <1>2. Idle \in Task
    BY DoingType DEF FundedInv, TypeOK
  <1>3. Funded(Idle.snap) /\ TaskGood(Idle)
    BY NothingFunded DEF Idle
  <1>4. stored' = task[h].snap /\ Funded(task[h].snap) /\ UNCHANGED taken
    BY DEF Save, FundedInv, money
  <1> QED BY <1>1, <1>2, <1>3, <1>4, FundedTask DEF Save

LEMMA ToBettingFunded ==
    ASSUME FundedInv, TypeOK', NEW h \in Tasks, ToBetting(h)
    PROVE  FundedInv'
  <1> DEFINE q == task[h].snap
             s == [q EXCEPT !.status = "BETTING", !.locked = {}]
             s2 == [s EXCEPT !.locked = Players, !.status = "PLAYING"]
  <1>1. q \in GameState /\ Funded(q) /\ q.status = "LOADING"
    BY DEF ToBetting, FundedInv, SnapInv, TaskGood
  <1>2. /\ s \in GameState /\ s2 \in GameState /\ s.status = "BETTING"
        /\ s.locked = {} /\ s.pot = q.pot
    BY <1>1 DEF GameState
  <1>3. q # NoState /\ s # NoState
    BY <1>1, <1>2 DEF GameState, NoState
  <1>4. ~Practice => q.locked = {} /\ q.pot = Bet * Cardinality({})
    BY <1>1, <1>3 DEF Funded
  <1>5. Funded(s) /\ (Practice => Funded(s2))
    BY <1>2, <1>4 DEF Funded
  <1> HIDE DEF q, s, s2
  <1>6. PICK t \in Task :
          /\ task' = [task EXCEPT ![h] = t]
          /\ TaskGood(t) /\ Funded(t.snap)
    <2>1. CASE Practice
      <3> DEFINE t == Doing("saving", NoOne, s2)
      <3>1. t \in Task
        BY <1>2, DoingType
      <3>2. TaskGood(t) /\ t.snap = s2
        BY <1>2 DEF TaskGood, Doing
      <3>3. task' = [task EXCEPT ![h] = t]
        BY <2>1 DEF ToBetting, s, s2, q
      <3>4. Funded(t.snap)
        BY <2>1, <1>5, <3>2
      <3> HIDE DEF t
      <3> QED BY <3>1, <3>2, <3>3, <3>4
    <2>2. CASE ~Practice
      <3> DEFINE t == Doing("queueing", NoOne, NoState)
      <3>1. t \in Task
        BY DoingType
      <3>2. TaskGood(t) /\ t.snap = NoState
        BY DEF TaskGood, Doing
      <3>3. task' = [task EXCEPT ![h] = t]
        BY <2>2 DEF ToBetting
      <3>4. Funded(t.snap)
        BY <3>2, NothingFunded
      <3> HIDE DEF t
      <3> QED BY <3>1, <3>2, <3>3, <3>4
    <2> QED BY <2>1, <2>2
  <1>7. BetsTaken' /\ stored' = s /\ UNCHANGED taken
    BY BetsTakenSame DEF ToBetting, FundedInv, worker, money, s, q
  <1> QED BY <1>5, <1>6, <1>7, FundedTask

\* Tasks that carry no state, or stop: nothing to be funded.
LEMMA FundedEmpty ==
    ASSUME FundedInv, TypeOK', NEW h \in Tasks, NEW t \in Task,
           task' = [task EXCEPT ![h] = t], TaskGood(t),
           t.snap = NoState \/ t.snap = task[h].snap,
           UNCHANGED <<stored, taken>>, BetsTaken'
    PROVE  FundedInv'
  <1>1. Funded(t.snap) /\ Funded(stored)
    BY NothingFunded DEF FundedInv
  <1> QED BY <1>1, FundedTask

LEMMA IdleTask == Idle \in Task /\ TaskGood(Idle) /\ Idle.snap = NoState
  BY Positions DEF Idle, Task, TaskGood

LEMMA QueueLockFunded ==
    ASSUME FundedInv, TypeOK', NEW h \in Tasks, QueueLock(h)
    PROVE  FundedInv'
  <1>1. BetsTaken' /\ UNCHANGED <<stored, taken>>
    BY BetsTakenSame DEF QueueLock, FundedInv, money
  <1>2. CASE task[h].next = Len(Order)
    BY <1>1, <1>2, IdleTask, FundedEmpty DEF QueueLock
  <1>3. CASE task[h].next # Len(Order)
    <2> DEFINE t == [task[h] EXCEPT !.next = task[h].next + 1]
    <2>1. task' = [task EXCEPT ![h] = t]
      BY <1>3 DEF QueueLock
    <2>2. task'[h] = t
      BY <2>1 DEF FundedInv, TypeOK
    <2>3. t \in Task
      BY <2>2 DEF TypeOK
    <2>4. t.snap = task[h].snap /\ t.at = "queueing"
      BY DEF FundedInv, TypeOK, Task, QueueLock
    <2>5. TaskGood(t)
      BY <2>4 DEF TaskGood
    <2> HIDE DEF t
    <2> QED BY <1>1, <2>1, <2>3, <2>4, <2>5, FundedEmpty
  <1> QED BY <1>2, <1>3

LEMMA FundsLockedFunded ==
    ASSUME FundedInv, TypeOK', NEW h \in Tasks, NEW p \in Players, FundsLocked(h, p)
    PROVE  FundedInv'
  <1>1. BetsTaken' /\ UNCHANGED <<stored, taken>> /\ taken[p] >= 1
    BY BetsTakenSame DEF FundsLocked, FundedInv, BetsTaken, money
  <1>2. CASE UNCHANGED task
    BY <1>1, <1>2, FundedMoney
  <1>3. CASE stored.status = "BETTING"
    <2> DEFINE s1 == [stored EXCEPT !.locked = @ \cup {p}, !.pot = @ + Bet]
               s == IF p \in stored.locked THEN stored ELSE s1
               s2 == [s EXCEPT !.status = "PLAYING"]
               r == IF s.locked = Players THEN s2 ELSE s
               t == Doing("saving", NoOne, r)
    <2>1. stored \in GameState /\ Funded(stored)
      BY <1>3 DEF FundedInv, TypeOK, NoState
    <2>2. stored.pot + Bet \in Nat /\ stored.locked \cup {p} \in SUBSET Players
      BY <2>1, NumbersOfAMatch DEF GameState
    <2>3. s \in GameState /\ s.status = "BETTING"
      BY <1>3, <2>1, <2>2 DEF GameState
    <2>4. Funded(s)
      BY <1>1, <1>3, <2>1, FundedLock
    <2> HIDE DEF s
    <2>5. /\ s2 \in GameState /\ s2.status = "PLAYING"
          /\ s2.locked = s.locked /\ s2.pot = s.pot
      BY <2>3 DEF GameState
    <2>6. s # NoState
      BY <2>3 DEF GameState, NoState
    <2>7. s.locked = Players => Funded(s2)
      BY <2>4, <2>5, <2>6 DEF Funded
    <2>8. r \in GameState /\ Funded(r)
      BY <2>3, <2>4, <2>5, <2>7
    <2> HIDE DEF r
    <2>9. t \in Task /\ TaskGood(t) /\ t.snap = r
      <3>1. t \in Task
        BY <2>8, DoingType
      <3> QED BY <2>8, <3>1 DEF TaskGood, Doing
    <2>10. task' = [task EXCEPT ![h] = t]
      BY <1>3 DEF FundsLocked, r, s
    <2> HIDE DEF t
    <2>11. Funded(t.snap)
      BY <2>8, <2>9
    <2> QED BY <1>1, <2>1, <2>9, <2>10, <2>11, FundedTask
  <1> QED BY <1>2, <1>3 DEF FundsLocked

LEMMA RollReadFunded ==
    ASSUME FundedInv, TypeOK', NEW h \in Tasks, NEW p \in Humans, RollRead(h, p)
    PROVE  FundedInv'
  <1> DEFINE t == Doing("rolling", p, stored)
  <1>1. stored \in GameState /\ Funded(stored) /\ p \in Players
    BY DEF RollRead, FundedInv, TypeOK, NoState, Humans
  <1>2. t \in Task
    BY <1>1, DoingType
  <1>3. TaskGood(t) /\ t.snap = stored
    BY <1>1 DEF RollRead, TaskGood, Doing
  <1>4. BetsTaken' /\ UNCHANGED <<stored, taken>>
    BY BetsTakenSame DEF RollRead, FundedInv, worker, money
  <1>5. task' = [task EXCEPT ![h] = t]
    BY DEF RollRead
  <1> HIDE DEF t
  <1>6. Funded(t.snap)
    BY <1>1, <1>3
  <1> QED BY <1>1, <1>2, <1>3, <1>4, <1>5, <1>6, FundedTask

LEMMA BotReadFunded ==
    ASSUME FundedInv, TypeOK', NEW h \in Tasks, BotRead(h)
    PROVE  FundedInv'
  <1>1. BetsTaken' /\ UNCHANGED <<stored, taken>> /\ Funded(stored)
    BY BetsTakenSame DEF BotRead, FundedInv, worker, money
  <1>2. CASE stored.status # "PLAYING"
    BY <1>1, <1>2, IdleTask, FundedEmpty DEF BotRead
  <1>3. CASE stored.status = "PLAYING"
    <2> DEFINE t == Doing("rolling", task[h].user, stored)
    <2>1. stored \in GameState /\ task[h].user \in Players \cup {NoOne}
      BY <1>3 DEF FundedInv, TypeOK, NoState, Task
    <2>2. t \in Task
      BY <2>1, DoingType
    <2>3. TaskGood(t) /\ t.snap = stored
      BY <1>3, <2>1 DEF TaskGood, Doing
    <2>4. task' = [task EXCEPT ![h] = t]
      BY <1>3 DEF BotRead
    <2> HIDE DEF t
    <2>5. Funded(t.snap)
      BY <1>1, <2>3
    <2> QED BY <1>1, <2>2, <2>3, <2>4, <2>5, FundedTask
  <1> QED BY <1>2, <1>3

LEMMA AfterTurnGood ==
    ASSUME NEW s \in GameState
    PROVE  TaskGood(AfterTurn(s)) /\ AfterTurn(s).snap = NoState
  BY DEF AfterTurn, TaskGood, Doing, Idle

LEMMA MoveFunded ==
    ASSUME FundedInv, TypeOK', NEW h \in Tasks, Move(h)
    PROVE  FundedInv'
  <1>1. BetsTaken' /\ UNCHANGED taken
    BY BetsTakenSame DEF Move, FundedInv, worker, money
  <1>2. CASE task' = [task EXCEPT ![h] = Idle] /\ UNCHANGED stored
    BY <1>1, <1>2, IdleTask, FundedEmpty
  <1>3. CASE ~(task' = [task EXCEPT ![h] = Idle] /\ UNCHANGED stored)
    <2> DEFINE q == task[h].snap
    <2>1. PICK d \in Rolls :
            LET s == ProcessMove(task[h].snap, d)
            IN  /\ stored' = s
                /\ task' = [task EXCEPT ![h] =
                     IF HasResult(s) THEN Doing("ending", Winner(s), s)
                     ELSE IF AllRolled(s) THEN Doing("resetting", NoOne, s)
                     ELSE AfterTurn(s)]
      BY <1>3 DEF Move
    <2> DEFINE s == ProcessMove(q, d)
    <2>2. q \in GameState /\ Funded(q) /\ q.status = "PLAYING"
      BY DEF Move, FundedInv, SnapInv, TaskGood
    <2>3. s \in GameState
      BY <2>2, MoveType
    <2>4. s.status = "PLAYING" /\ s.locked = q.locked /\ s.pot = q.pot
      BY <2>2 DEF ProcessMove, GameState
    <2> HIDE DEF s
    <2>5. Funded(s)
      BY <2>2, <2>3, <2>4, FundedSame
    <2>6. PICK t \in Task :
            /\ task' = [task EXCEPT ![h] = t]
            /\ TaskGood(t) /\ Funded(t.snap)
      <3>1. CASE HasResult(s)
        <4> DEFINE t == Doing("ending", Winner(s), s)
        <4>1. t \in Task /\ task' = [task EXCEPT ![h] = t]
          BY <2>1, <2>3, <3>1, DoingType, WinnerType DEF s
        <4>2. TaskGood(t) /\ t.snap = s
          BY <2>3, <2>4 DEF TaskGood, Doing
        <4> HIDE DEF t
        <4> QED BY <2>5, <4>1, <4>2
      <3>2. CASE ~HasResult(s) /\ AllRolled(s)
        <4> DEFINE t == Doing("resetting", NoOne, s)
        <4>1. t \in Task /\ task' = [task EXCEPT ![h] = t]
          BY <2>1, <2>3, <3>2, DoingType DEF s
        <4>2. TaskGood(t) /\ t.snap = s
          BY <2>3, <2>4 DEF TaskGood, Doing
        <4> HIDE DEF t
        <4> QED BY <2>5, <4>1, <4>2
      <3>3. CASE ~HasResult(s) /\ ~AllRolled(s)
        <4>1. AfterTurn(s) \in Task /\ task' = [task EXCEPT ![h] = AfterTurn(s)]
          BY <2>1, <2>3, <3>3, AfterTurnType DEF s
        <4>2. TaskGood(AfterTurn(s)) /\ Funded(AfterTurn(s).snap)
          BY <2>3, AfterTurnGood, NothingFunded
        <4> QED BY <4>1, <4>2
      <3> QED BY <3>1, <3>2, <3>3
    <2>7. stored' = s
      BY <2>1 DEF s
    <2> QED BY <1>1, <2>5, <2>6, <2>7, FundedTask
  <1> QED BY <1>2, <1>3

LEMMA ResetFunded ==
    ASSUME FundedInv, TypeOK', NEW h \in Tasks, ResetRound(h)
    PROVE  FundedInv'
  <1> DEFINE q == task[h].snap
             s == [q EXCEPT !.dice = [p \in Players |-> 0], !.index = 1]
  <1>1. q \in GameState /\ Funded(q)
    BY DEF ResetRound, FundedInv, SnapInv, TaskGood
  <1>2. s \in GameState
    <2>1. /\ [p \in Players |-> 0] \in [Players -> Rolls \cup {0}]
          /\ 1 \in 1..Len(Order)
      BY Positions
    <2> QED BY <1>1, <2>1 DEF GameState
  <1>3. s.status = q.status /\ s.locked = q.locked /\ s.pot = q.pot
    BY <1>1 DEF GameState
  <1>4. stored' = s /\ task' = [task EXCEPT ![h] = AfterTurn(s)]
    BY DEF ResetRound
  <1>5. BetsTaken' /\ UNCHANGED taken
    BY BetsTakenSame DEF ResetRound, FundedInv, worker, money
  <1> HIDE DEF s
  <1>6. Funded(s)
    BY <1>1, <1>2, <1>3, FundedSame
  <1>7. /\ AfterTurn(s) \in Task /\ TaskGood(AfterTurn(s))
        /\ Funded(AfterTurn(s).snap)
    BY <1>2, AfterTurnType, AfterTurnGood, NothingFunded
  <1> QED BY <1>4, <1>5, <1>6, <1>7, FundedTask

LEMMA EndGameFunded ==
    ASSUME FundedInv, TypeOK', NEW h \in Tasks, EndGame(h)
    PROVE  FundedInv'
  <1> DEFINE q == task[h].snap
             w == task[h].user
             s == [q EXCEPT !.status = "SETTLED", !.winner = w]
  <1>1. q \in GameState /\ Funded(q) /\ q.status = "PLAYING"
    BY DEF EndGame, FundedInv, SnapInv, TaskGood
  <1>2. w \in Players \cup {NoOne}
    BY DEF FundedInv, TypeOK, Task
  <1>3. /\ s \in GameState /\ s.status = "SETTLED"
        /\ s.locked = q.locked /\ s.pot = q.pot
    BY <1>1, <1>2 DEF GameState
  <1>4. BetsTaken' /\ stored' = s /\ UNCHANGED taken
    BY BetsTakenSame DEF EndGame, FundedInv, worker, money
  <1>5. CASE task' = [task EXCEPT ![h] = Idle]
    <2>1. Funded(s) /\ Funded(Idle.snap)
      BY <1>1, <1>3, FundedSame, IdleTask, NothingFunded
    <2> HIDE DEF s
    <2> QED BY <1>4, <1>5, <2>1, IdleTask, FundedTask
  <1>6. CASE w # NoOne /\ task' = [task EXCEPT ![h] = Doing("paying", w, s)]
    <2> DEFINE t == Doing("paying", w, s)
    <2> HIDE DEF s
    <2>1. t \in Task
      BY <1>2, <1>3, DoingType
    <2>2. TaskGood(t) /\ t.snap = s
      BY <1>2, <1>3, <1>6 DEF TaskGood, Doing
    <2>3. Funded(s)
      BY <1>1, <1>3, FundedSame
    <2>4. task' = [task EXCEPT ![h] = t]
      BY <1>6
    <2> HIDE DEF t
    <2>5. Funded(t.snap)
      BY <2>2, <2>3
    <2> QED BY <1>4, <2>1, <2>2, <2>3, <2>4, <2>5, FundedTask
  <1> QED BY <1>5, <1>6 DEF EndGame

LEMMA QueueReleaseFunded ==
    ASSUME FundedInv, TypeOK', NEW h \in Tasks, QueueRelease(h)
    PROVE  FundedInv'
  <1>1. BetsTaken' /\ UNCHANGED <<stored, taken>>
    BY BetsTakenSame DEF QueueRelease, FundedInv, money
  <1> QED BY <1>1, IdleTask, FundedEmpty DEF QueueRelease

LEMMA HandlerFunded ==
    ASSUME FundedInv, TypeOK', NEW h \in Tasks, Handler(h)
    PROVE  FundedInv'
  BY SaveFunded, ToBettingFunded, QueueLockFunded, FundsLockedFunded, MoveFunded,
     ResetFunded, BotReadFunded, EndGameFunded, QueueReleaseFunded DEF Handler

LEMMA WorkerFunded ==
    ASSUME FundedInv, TypeOK', Wallets
    PROVE  FundedInv'
  <1>1. CASE TakeJob
    <2>1. BetsTaken' /\ UNCHANGED <<stored, task, taken>>
      BY <1>1 DEF TakeJob, FundedInv, BetsTaken, money
    <2> QED BY <2>1, FundedMoney
  <1>2. CASE CommitLock
    <2>1. active.user \in Players /\ taken \in [Players -> Nat]
      BY <1>2 DEF CommitLock, FundedInv, TypeOK, NoJob, Job
    <2>2. \A p \in Players :
            taken'[p] = IF p = active.user THEN taken[p] + 1 ELSE taken[p]
      BY <1>2, <2>1 DEF CommitLock
    <2>3. \A p \in Players : taken[p] >= 1 => taken'[p] >= 1
      BY <2>1, <2>2
    <2>4. taken'[active.user] >= 1
      BY <2>1, <2>2
    <2>5. UNCHANGED <<stored, task, active, events>>
      BY <1>2 DEF CommitLock
    <2>6. events \subseteq Players
      BY DEF FundedInv, TypeOK
    <2>7. BetsTaken'
      BY <2>3, <2>4, <2>5, <2>6 DEF FundedInv, BetsTaken
    <2> QED BY <2>3, <2>5, <2>7, FundedMoney
  <1>3. CASE LockFails
    <2>1. BetsTaken' /\ UNCHANGED <<stored, task, taken>>
      BY <1>3 DEF LockFails, FundedInv, BetsTaken, money
    <2> QED BY <2>1, FundedMoney
  <1>4. CASE CommitRelease
    <2>1. BetsTaken' /\ UNCHANGED <<stored, task, taken>>
      BY <1>4 DEF CommitRelease, FundedInv, BetsTaken
    <2> QED BY <2>1, FundedMoney
  <1>5. CASE FinishJob
    <2>1. BetsTaken' /\ UNCHANGED <<stored, task, taken>>
      BY <1>5 DEF FinishJob, FundedInv, BetsTaken, money
    <2> QED BY <2>1, FundedMoney
  <1> QED BY <1>1, <1>2, <1>3, <1>4, <1>5 DEF Wallets

LEMMA CrashFunded ==
    ASSUME FundedInv, TypeOK', Crash
    PROVE  FundedInv'
  <1>1. task' = [h \in Tasks |-> Idle] /\ UNCHANGED <<stored, taken>>
    BY DEF Crash, money
  <1>2. SnapInv'
    BY <1>1, IdleTask DEF SnapInv, TaskGood
  <1>3. Funded(stored)'
    BY <1>1 DEF FundedInv, Funded
  <1>4. \A h \in Tasks : Funded(task[h].snap)'
    BY <1>1, IdleTask DEF Funded
  <1>5. BetsTaken'
    BY DEF Crash, BetsTaken
  <1> QED BY <1>2, <1>3, <1>4, <1>5 DEF FundedInv

LEMMA CreateFunded ==
    ASSUME FundedInv, TypeOK', CreateGame
    PROVE  FundedInv'
  <1>1. UNCHANGED <<task, taken>> /\ BetsTaken'
    BY BetsTakenSame DEF CreateGame, FundedInv, worker, money
  <1>2. Created.status = "LOADING" /\ Created.locked = {} /\ Created.pot = 0
    BY DEF Created
  <1>3. Funded(stored)'
    BY <1>2, EmptyPot DEF CreateGame, Funded
  <1>4. SnapInv' /\ \A h \in Tasks : Funded(task[h].snap)'
    BY <1>1 DEF FundedInv, SnapInv, TaskGood, Funded
  <1> QED BY <1>1, <1>3, <1>4 DEF FundedInv

\* FundedInv is inductive.
LEMMA NextFunded == FundedInv /\ [Next]_vars => FundedInv'
  <1> SUFFICES ASSUME FundedInv, [Next]_vars PROVE FundedInv'
    OBVIOUS
  <1>1. CASE Next
    <2>1. TypeOK'
      BY <1>1, NextType DEF FundedInv
    <2> QED BY <1>1, <2>1, CreateFunded, JoinFunded, RollReadFunded, HandlerFunded,
               WorkerFunded, CrashFunded DEF Next
  <1>2. CASE UNCHANGED vars
    BY <1>2 DEF vars, FundedInv, TypeOK, SnapInv, TaskGood, Funded, BetsTaken
  <1> QED BY <1>1, <1>2

LEMMA FundedAlways == Spec => []FundedInv
  BY InitFunded, NextFunded, PTL DEF Spec

-----------------------------------------------------------------------------
\* A settled state names as winner the one player who hit the target.
WonAsRolled(s) ==
    s.status = "SETTLED" =>
        \A p \in Players : /\ s.dice[p] # 0
                           /\ s.dice[p] = Target <=> s.winner = p

\* What a handler saves is not settled, and what it will settle has the result
\* that it names.
TaskFair(t) ==
    /\ t.at = "saving" => t.snap.status # "SETTLED"
    /\ t.at = "ending" => HasResult(t.snap) /\ t.user = Winner(t.snap)

WinInv == WonAsRolled(stored) /\ \A h \in Tasks : TaskFair(task[h])

LEMMA InitWin == Init => WinInv
  BY DEF Init, WinInv, WonAsRolled, TaskFair, NoState, Idle

LEMMA WinTask ==
    ASSUME WinInv, TypeOK, NEW h \in Tasks, NEW t, task' = [task EXCEPT ![h] = t],
           TaskFair(t), WonAsRolled(stored')
    PROVE  WinInv'
  <1>1. \A k \in Tasks : task'[k] = IF k = h THEN t ELSE task[k]
    BY DEF TypeOK
  <1>2. \A k \in Tasks : TaskFair(task'[k])
    BY <1>1 DEF WinInv
  <1>3. \A k \in Tasks : TaskFair(task[k])'
    BY <1>2 DEF TaskFair, HasResult, AllRolled, Winners, Winner
  <1>4. WonAsRolled(stored)'
    BY DEF WonAsRolled
  <1> QED BY <1>3, <1>4 DEF WinInv

LEMMA OthersFair ==
    \A at, user, s : at \notin {"saving", "ending"} => TaskFair(Doing(at, user, s))
  BY DEF TaskFair, Doing

LEMMA IdleFair == TaskFair(Idle)
  BY DEF TaskFair, Idle

LEMMA AfterTurnFair == \A s : TaskFair(AfterTurn(s))
  BY OthersFair, IdleFair DEF AfterTurn

LEMMA UnsettledIsRight == \A s : s.status # "SETTLED" => WonAsRolled(s)
  BY DEF WonAsRolled

\* The result that checkWinner found is right of the state it looked at.
LEMMA ResultIsRight ==
    ASSUME NEW q \in GameState, HasResult(q)
    PROVE  WonAsRolled([q EXCEPT !.status = "SETTLED", !.winner = Winner(q)])
  <1> DEFINE s == [q EXCEPT !.status = "SETTLED", !.winner = Winner(q)]
  <1>1. s.dice = q.dice /\ s.winner = Winner(q)
    BY DEF GameState
  <1>2. \A p \in Players : q.dice[p] # 0
    BY DEF HasResult, AllRolled
  <1>3. IsFiniteSet(Winners(q)) /\ Cardinality(Winners(q)) \in Nat
    <2>1. IsFiniteSet(Players) /\ Winners(q) \subseteq Players
      BY MatchAssumption DEF Winners
    <2> QED BY <2>1, FS_Subset, FS_CardinalityType
  <1>4. CASE Cardinality(Winners(q)) = 1
    <2>1. PICK x : Winners(q) = {x}
      BY <1>3, <1>4, FS_Singleton
    <2>2. Winner(q) = x
      BY <1>4, <2>1 DEF Winner
    <2>3. \A p \in Players : q.dice[p] = Target <=> p = x
      BY <2>1 DEF Winners
    <2> QED BY <1>1, <1>2, <2>2, <2>3 DEF WonAsRolled
  <1>5. CASE Cardinality(Winners(q)) # 1
    <2>1. Cardinality(Winners(q)) = 0
      BY <1>3, <1>5 DEF HasResult
    <2>2. Winners(q) = {}
      BY <1>3, <2>1, FS_EmptySet
    <2>3. Winner(q) = NoOne /\ NoOne \notin Players
      BY <1>5, MatchAssumption DEF Winner
    <2>4. \A p \in Players : q.dice[p] # Target
      BY <2>2 DEF Winners
    <2> QED BY <1>1, <1>2, <2>3, <2>4 DEF WonAsRolled
  <1> QED BY <1>4, <1>5

LEMMA JoinWin ==
    ASSUME FundedInv, WinInv, NEW h \in Tasks, NEW p \in Humans, JoinRead(h, p)
    PROVE  WinInv'
  <1> DEFINE s == [stored EXCEPT !.connected = @ + 1]
  <1>1. stored \in GameState /\ stored.status = "LOADING"
    BY DEF JoinRead, FundedInv, TypeOK, NoState
  <1>2. s.status = "LOADING"
    BY <1>1 DEF GameState
  <1>3. PICK at \in {"toBetting", "saving"} :
          task' = [task EXCEPT ![h] = Doing(at, NoOne, s)]
    BY DEF JoinRead
  <1> HIDE DEF s
  <1>4. TaskFair(Doing(at, NoOne, s))
    BY <1>2 DEF TaskFair, Doing
  <1> QED BY <1>1, <1>3, <1>4, WinTask, UnsettledIsRight DEF JoinRead, FundedInv

LEMMA ToBettingWin ==
    ASSUME FundedInv, WinInv, NEW h \in Tasks, ToBetting(h)
    PROVE  WinInv'
  <1> DEFINE s == [task[h].snap EXCEPT !.status = "BETTING", !.locked = {}]
             s2 == [s EXCEPT !.locked = Players, !.status = "PLAYING"]
  <1>1. task[h].snap \in GameState
    BY DEF ToBetting, FundedInv, SnapInv, TaskGood
  <1>2. s.status = "BETTING" /\ s2.status = "PLAYING"
    BY <1>1 DEF GameState
  <1>3. stored' = s /\ task' = [task EXCEPT ![h] =
                IF Practice THEN Doing("saving", NoOne, s2)
                            ELSE Doing("queueing", NoOne, NoState)]
    BY DEF ToBetting
  <1> HIDE DEF s, s2
  <1>4. /\ TaskFair(Doing("saving", NoOne, s2))
        /\ TaskFair(Doing("queueing", NoOne, NoState))
    BY <1>2, OthersFair DEF TaskFair, Doing
  <1> QED BY <1>2, <1>3, <1>4, WinTask, UnsettledIsRight DEF FundedInv

LEMMA FundsLockedWin ==
    ASSUME FundedInv, WinInv, NEW h \in Tasks, NEW p \in Players, FundsLocked(h, p)
    PROVE  WinInv'
  <1>1. CASE UNCHANGED task
    BY <1>1 DEF FundsLocked, WinInv, WonAsRolled, TaskFair, HasResult, AllRolled,
                Winners, Winner
  <1>2. CASE stored.status = "BETTING"
    <2> DEFINE s == IF p \in stored.locked THEN stored
                    ELSE [stored EXCEPT !.locked = @ \cup {p}, !.pot = @ + Bet]
               s2 == [s EXCEPT !.status = "PLAYING"]
    <2>1. stored \in GameState
      BY <1>2 DEF FundedInv, TypeOK, NoState
    <2>2. s.status = "BETTING" /\ s2.status = "PLAYING"
      BY <1>2, <2>1 DEF GameState
    <2>3. PICK c \in {s, s2} : task' = [task EXCEPT ![h] = Doing("saving", NoOne, c)]
      BY <1>2 DEF FundsLocked
    <2> HIDE DEF s, s2
    <2>4. TaskFair(Doing("saving", NoOne, c))
      BY <2>2 DEF TaskFair, Doing
    <2>5. WonAsRolled(stored') /\ TypeOK
      BY <1>2, UnsettledIsRight DEF FundsLocked, FundedInv
    <2> QED BY <2>3, <2>4, <2>5, WinTask
  <1> QED BY <1>1, <1>2 DEF FundsLocked

LEMMA MoveWin ==
    ASSUME FundedInv, WinInv, NEW h \in Tasks, Move(h)
    PROVE  WinInv'
  <1>1. CASE task' = [task EXCEPT ![h] = Idle] /\ UNCHANGED stored
    BY <1>1, IdleFair, WinTask DEF FundedInv, WinInv
  <1>2. CASE ~(task' = [task EXCEPT ![h] = Idle] /\ UNCHANGED stored)
    <2>1. PICK d \in Rolls :
            LET s == ProcessMove(task[h].snap, d)
            IN  /\ stored' = s
                /\ task' = [task EXCEPT ![h] =
                     IF HasResult(s) THEN Doing("ending", Winner(s), s)
                     ELSE IF AllRolled(s) THEN Doing("resetting", NoOne, s)
                     ELSE AfterTurn(s)]
      BY <1>2 DEF Move
    <2> DEFINE s == ProcessMove(task[h].snap, d)
               t == IF HasResult(s) THEN Doing("ending", Winner(s), s)
                    ELSE IF AllRolled(s) THEN Doing("resetting", NoOne, s)
                    ELSE AfterTurn(s)
    <2>2. task[h].snap \in GameState /\ task[h].snap.status = "PLAYING"
      BY DEF Move, FundedInv, SnapInv, TaskGood
    <2>3. s.status = "PLAYING"
      BY <2>2 DEF ProcessMove, GameState
    <2>4. stored' = s /\ task' = [task EXCEPT ![h] = t]
      BY <2>1
    <2> HIDE DEF s
    <2>5. TaskFair(t)
      <3>1. HasResult(s) => TaskFair(Doing("ending", Winner(s), s))
        BY DEF TaskFair, Doing
      <3> QED BY <3>1, OthersFair, AfterTurnFair
    <2> HIDE DEF t
    <2> QED BY <2>3, <2>4, <2>5, WinTask, UnsettledIsRight DEF FundedInv
  <1> QED BY <1>1, <1>2

LEMMA ResetWin ==
    ASSUME FundedInv, WinInv, NEW h \in Tasks, ResetRound(h)
    PROVE  WinInv'
  <1> DEFINE s == [task[h].snap EXCEPT !.dice = [p \in Players |-> 0], !.index = 1]
  <1>1. task[h].snap \in GameState /\ task[h].snap.status = "PLAYING"
    BY DEF ResetRound, FundedInv, SnapInv, TaskGood
  <1>2. s.status = "PLAYING"
    BY <1>1 DEF GameState
  <1>3. stored' = s /\ task' = [task EXCEPT ![h] = AfterTurn(s)]
    BY DEF ResetRound
  <1> HIDE DEF s
  <1> QED BY <1>2, <1>3, AfterTurnFair, WinTask, UnsettledIsRight DEF FundedInv

LEMMA EndGameWin ==
    ASSUME FundedInv, WinInv, NEW h \in Tasks, EndGame(h)
    PROVE  WinInv'
  <1> DEFINE q == task[h].snap
             s == [q EXCEPT !.status = "SETTLED", !.winner = task[h].user]
  <1>1. q \in GameState /\ HasResult(q) /\ task[h].user = Winner(q)
    BY DEF EndGame, FundedInv, SnapInv, TaskGood, WinInv, TaskFair
  <1>2. WonAsRolled(s)
    BY <1>1, ResultIsRight
  <1>3. PICK t \in {Idle, Doing("paying", task[h].user, s)} :
          stored' = s /\ task' = [task EXCEPT ![h] = t]
    BY DEF EndGame
  <1> HIDE DEF s
  <1>4. TaskFair(t)
    BY <1>3, IdleFair, OthersFair
  <1> QED BY <1>2, <1>3, <1>4, WinTask DEF FundedInv

\* The handlers that change the task only, or save what they have.
LEMMA OtherHandlersWin ==
    ASSUME FundedInv, WinInv, NEW h \in Tasks,
           \/ Save(h) \/ QueueLock(h) \/ BotRead(h) \/ QueueRelease(h)
           \/ \E p \in Humans : RollRead(h, p)
    PROVE  WinInv'
  <1>1. CASE Save(h)
    <2>1. WonAsRolled(stored')
      BY <1>1, UnsettledIsRight DEF Save, WinInv, TaskFair
    <2> QED BY <1>1, <2>1, IdleFair, WinTask DEF Save, FundedInv
  <1>2. CASE QueueLock(h)
    <2> DEFINE t == IF task[h].next = Len(Order) THEN Idle
                    ELSE [task[h] EXCEPT !.next = task[h].next + 1]
    <2>1. task[h] \in Task /\ task[h].at = "queueing"
      BY <1>2 DEF QueueLock, FundedInv, TypeOK
    <2>2. TaskFair(t)
      <3>1. [task[h] EXCEPT !.next = task[h].next + 1].at = "queueing"
        BY <2>1 DEF Task
      <3>2. TaskFair([task[h] EXCEPT !.next = task[h].next + 1])
        BY <3>1 DEF TaskFair
      <3> QED BY <3>2, IdleFair
    <2>3. task' = [task EXCEPT ![h] = t] /\ UNCHANGED stored
      BY <1>2 DEF QueueLock
    <2> HIDE DEF t
    <2> QED BY <2>2, <2>3, WinTask DEF FundedInv, WinInv
  <1>3. CASE BotRead(h)
    <2>1. PICK t \in {Idle, Doing("rolling", task[h].user, stored)} :
            task' = [task EXCEPT ![h] = t]
      BY <1>3 DEF BotRead
    <2>2. TaskFair(t)
      BY <2>1, IdleFair, OthersFair
    <2> QED BY <1>3, <2>1, <2>2, WinTask DEF BotRead, FundedInv, WinInv
  <1>4. CASE QueueRelease(h)
    BY <1>4, IdleFair, WinTask DEF QueueRelease, FundedInv, WinInv
  <1>5. CASE \E p \in Humans : RollRead(h, p)
    <2>1. PICK p \in Humans : RollRead(h, p)
      BY <1>5
    <2> QED BY <2>1, OthersFair, WinTask DEF RollRead, FundedInv, WinInv
  <1> QED BY <1>1, <1>2, <1>3, <1>4, <1>5

LEMMA HandlerWin ==
    ASSUME FundedInv, WinInv, NEW h \in Tasks, Handler(h)
    PROVE  WinInv'
  BY ToBettingWin, FundsLockedWin, MoveWin, ResetWin, EndGameWin, OtherHandlersWin
     DEF Handler

\* The wallet's worker touches neither; a crash leaves no handler.
LEMMA WorkerWin ==
    ASSUME FundedInv, WinInv, Wallets \/ Crash \/ CreateGame
    PROVE  WinInv'
  <1>1. CASE Wallets
    <2>1. UNCHANGED <<stored, task>>
      BY <1>1 DEF Wallets, TakeJob, CommitLock, LockFails, CommitRelease, FinishJob
    <2> QED BY <2>1 DEF WinInv, WonAsRolled, TaskFair, HasResult, AllRolled,
                        Winners, Winner
  <1>2. CASE Crash
    <2>1. UNCHANGED stored /\ task' = [h \in Tasks |-> Idle]
      BY <1>2 DEF Crash
    <2>2. \A h \in Tasks : TaskFair(task[h])'
      BY <2>1 DEF TaskFair, Idle
    <2> QED BY <2>1, <2>2 DEF WinInv, WonAsRolled
  <1>3. CASE CreateGame
    <2>1. UNCHANGED task /\ stored'.status = "LOADING"
      BY <1>3 DEF CreateGame, Created
    <2> QED BY <2>1 DEF WinInv, WonAsRolled, TaskFair, HasResult, AllRolled,
                        Winners, Winner
  <1> QED BY <1>1, <1>2, <1>3

LEMMA NextWin == FundedInv /\ WinInv /\ [Next]_vars => WinInv'
  <1> SUFFICES ASSUME FundedInv, WinInv, [Next]_vars PROVE WinInv'
    OBVIOUS
  <1>1. CASE Next
    BY <1>1, JoinWin, HandlerWin, WorkerWin, OtherHandlersWin DEF Next
  <1>2. CASE UNCHANGED vars
    BY <1>2 DEF vars, WinInv, WonAsRolled, TaskFair, HasResult, AllRolled, Winners, Winner
  <1> QED BY <1>1, <1>2

-----------------------------------------------------------------------------
\* The stored value, the handlers, the jobs and the money keep their shapes,
\* however many players, handlers and crashes there are.
THEOREM MatchTypeOK == Spec => []TypeOK
  <1>1. FundedInv => TypeOK
    BY DEF FundedInv
  <1> QED BY <1>1, FundedAlways, PTL

\* A match in play, or settled, holds exactly the bets of all its players, and
\* each of those bets has been taken: handlers may overlap, work on stale
\* copies, be lost in a crash or run on a job that is delivered twice.
THEOREM MatchPlayingIsFunded == Spec => []PlayingIsFunded
  <1>1. FundedInv => PlayingIsFunded
    BY DEF FundedInv, Funded, PlayingIsFunded
  <1> QED BY <1>1, FundedAlways, PTL

\* A settled match names as winner the one player whose roll hit the target, or
\* nobody if none did, although handlers overlap on stale copies of the state and
\* a second one may settle the match again.
THEOREM MatchWinnerHitTarget == Spec => []WinnerHitTarget
  <1>1. WinInv => WinnerHitTarget
    BY DEF WinInv, WonAsRolled, WinnerHitTarget
  <1> QED BY <1>1, InitWin, NextWin, FundedAlways, PTL DEF Spec
-----------------------------------------------------------------------------
\* Handlers run one at a time.
Serial == \A h, k \in Tasks : h = k

\* A handler that is about to write has not fallen behind the stored status.
Ahead(t) ==
    /\ t.at = "saving" => Rank(stored.status) <= Rank(t.snap.status)
    /\ t.at = "toBetting" => stored.status = "LOADING"
    /\ t.at = "queueing" => stored.status = "BETTING"
    /\ t.at \in {"rolling", "resetting", "ending"} => stored.status = "PLAYING"

AheadInv == \A h \in Tasks : Ahead(task[h])

LEMMA Ranks ==
    /\ Rank("NONE") = 0 /\ Rank("LOADING") = 1 /\ Rank("BETTING") = 2
    /\ Rank("PLAYING") = 3 /\ Rank("SETTLED") = 4
  BY DEF Rank

\* Statuses are ordered as the match goes through them.
LEMMA RankBounds ==
    \A s \in GameState \cup {NoState} :
        /\ Rank(s.status) \in 0..4
        /\ s \in GameState => Rank(s.status) >= 1
        /\ s.status = "NONE" <=> s = NoState
  <1> SUFFICES ASSUME NEW s \in GameState \cup {NoState}
      PROVE  /\ Rank(s.status) \in 0..4
             /\ s \in GameState => Rank(s.status) >= 1
             /\ s.status = "NONE" <=> s = NoState
    OBVIOUS
  <1>1. CASE s = NoState
    BY <1>1, Ranks DEF NoState, GameState
  <1>2. CASE s \in GameState
    <2>1. s.status \in {"LOADING", "BETTING", "PLAYING", "SETTLED"}
      BY <1>2 DEF GameState
    <2>2. Rank(s.status) \in 1..4
      BY <2>1, Ranks
    <2> QED BY <1>2, <2>1, <2>2 DEF NoState
  <1> QED BY <1>1, <1>2

\* What holds of the one handler that runs, when its task becomes t.
LEMMA OnlyTask ==
    ASSUME Serial, TypeOK, NEW h \in Tasks, NEW t, task' = [task EXCEPT ![h] = t],
           Ahead(t)'
    PROVE  AheadInv'
  <1>1. \A k \in Tasks : k = h
    BY DEF Serial
  <1>2. task'[h] = t
    BY DEF TypeOK
  <1> QED BY <1>1, <1>2 DEF AheadInv, Ahead

LEMMA QuietTask == \A at, user, s :
    at \in {"idle", "botTimer", "paying"} => Ahead(Doing(at, user, s))' /\ Ahead(Idle)'
  BY DEF Ahead, Doing, Idle

LEMMA AfterTurnAhead == \A s : Ahead(AfterTurn(s))'
  BY DEF AfterTurn, Ahead, Doing, Idle

\* A status in the order, at most as far as another.
Later(r, s) == Rank(s.status) >= Rank(r.status)

\* The handlers that only read.
LEMMA ReadAhead ==
    ASSUME Serial, FundedInv, AheadInv, NEW h \in Tasks,
           \/ \E p \in Humans : JoinRead(h, p) \/ RollRead(h, p)
           \/ \E p \in Players : FundsLocked(h, p)
           \/ BotRead(h) \/ QueueLock(h) \/ QueueRelease(h)
    PROVE  AheadInv' /\ UNCHANGED stored
  <1>1. TypeOK
    BY DEF FundedInv
  <1>2. UNCHANGED stored
    BY DEF JoinRead, RollRead, FundsLocked, BotRead, QueueLock, QueueRelease
  <1>3. ASSUME NEW p \in Humans, JoinRead(h, p) PROVE AheadInv'
    <2> DEFINE s == [stored EXCEPT !.connected = @ + 1]
    <2>1. stored \in GameState /\ stored.status = "LOADING"
      BY <1>1, <1>3 DEF JoinRead, TypeOK, NoState
    <2>2. PICK c : c = s
      OBVIOUS
    <2>3. PICK at \in {"toBetting", "saving"} :
            task' = [task EXCEPT ![h] = Doing(at, NoOne, c)]
      BY <1>3, <2>2 DEF JoinRead
    <2>4. c.status = "LOADING"
      BY <2>1, <2>2 DEF GameState
    <2>5. Ahead(Doing(at, NoOne, c))'
      BY <1>2, <2>1, <2>4, Ranks DEF Ahead, Doing
    <2> QED BY <1>1, <2>3, <2>5, OnlyTask
  <1>4. ASSUME NEW p \in Humans, RollRead(h, p) PROVE AheadInv'
    <2>1. PICK c : c = stored
      OBVIOUS
    <2>2. task' = [task EXCEPT ![h] = Doing("rolling", p, c)]
      BY <1>4, <2>1 DEF RollRead
    <2>3. Ahead(Doing("rolling", p, c))'
      BY <1>2, <1>4 DEF RollRead, Ahead, Doing
    <2> QED BY <1>1, <2>2, <2>3, OnlyTask
  <1>5. ASSUME NEW p \in Players, FundsLocked(h, p) PROVE AheadInv'
    <2>1. CASE UNCHANGED task
      BY <1>2, <2>1 DEF AheadInv, Ahead
    <2>2. CASE stored.status = "BETTING"
      <3> DEFINE s == IF p \in stored.locked THEN stored
                      ELSE [stored EXCEPT !.locked = @ \cup {p}, !.pot = @ + Bet]
                 s2 == [s EXCEPT !.status = "PLAYING"]
      <3>1. stored \in GameState
        BY <1>1, <2>2 DEF TypeOK, NoState
      <3>2. s.status = "BETTING" /\ s2.status = "PLAYING"
        BY <2>2, <3>1 DEF GameState
      <3>3. task' = [task EXCEPT ![h] = Doing("saving", NoOne,
                       IF s.locked = Players THEN s2 ELSE s)]
        BY <1>5, <2>2 DEF FundsLocked
      <3>4. PICK c : c = IF s.locked = Players THEN s2 ELSE s
        OBVIOUS
      <3>5. task' = [task EXCEPT ![h] = Doing("saving", NoOne, c)]
        BY <3>3, <3>4
      <3> HIDE DEF s, s2
      <3>6. c.status \in {"BETTING", "PLAYING"}
        BY <3>2, <3>4
      <3>7. Ahead(Doing("saving", NoOne, c))'
        BY <1>2, <2>2, <3>6, Ranks DEF Ahead, Doing
      <3> QED BY <1>1, <3>5, <3>7, OnlyTask
    <2> QED BY <1>5, <2>1, <2>2 DEF FundsLocked
  <1>6. ASSUME BotRead(h) PROVE AheadInv'
    <2>1. PICK c, u : c = stored /\ u = task[h].user
      OBVIOUS
    <2>2. \/ task' = [task EXCEPT ![h] = Idle]
          \/ /\ stored.status = "PLAYING"
             /\ task' = [task EXCEPT ![h] = Doing("rolling", u, c)]
      BY <1>6, <2>1 DEF BotRead
    <2>3. stored.status = "PLAYING" => Ahead(Doing("rolling", u, c))'
      BY <1>2 DEF Ahead, Doing
    <2> QED BY <1>1, <2>2, <2>3, OnlyTask, QuietTask
  <1>7. ASSUME QueueLock(h) PROVE AheadInv'
    <2>1. task[h] \in Task /\ task[h].at = "queueing" /\ stored.status = "BETTING"
      BY <1>1, <1>7 DEF QueueLock, TypeOK, AheadInv, Ahead
    <2>2. PICK t : t = [task[h] EXCEPT !.next = task[h].next + 1]
      OBVIOUS
    <2>3. t.at = "queueing"
      BY <2>1, <2>2 DEF Task
    <2>4. Ahead(t)'
      BY <1>2, <2>1, <2>3 DEF Ahead
    <2>5. task' = [task EXCEPT ![h] = Idle] \/ task' = [task EXCEPT ![h] = t]
      BY <1>7, <2>2 DEF QueueLock
    <2> QED BY <1>1, <2>4, <2>5, OnlyTask, QuietTask
  <1>8. ASSUME QueueRelease(h) PROVE AheadInv'
    BY <1>1, <1>8, OnlyTask, QuietTask DEF QueueRelease
  <1> QED BY <1>2, <1>3, <1>4, <1>5, <1>6, <1>7, <1>8

\* The handlers that write.
LEMMA WriteAhead ==
    ASSUME Serial, FundedInv, AheadInv, NEW h \in Tasks,
           Save(h) \/ ToBetting(h) \/ Move(h) \/ ResetRound(h) \/ EndGame(h)
    PROVE  AheadInv' /\ Later(stored, stored')
  <1> DEFINE q == task[h].snap
  <1>1. TypeOK /\ TaskGood(task[h]) /\ Ahead(task[h])
    BY DEF FundedInv, SnapInv, AheadInv
  <1>2. q \in GameState
    BY <1>1 DEF Save, ToBetting, Move, ResetRound, EndGame, TaskGood
  <1>3. /\ q \in GameState \cup {NoState} /\ Rank(q.status) \in 0..4
        /\ stored \in GameState \cup {NoState} /\ Rank(stored.status) \in 0..4
    BY <1>1, <1>2, RankBounds DEF TypeOK
  <1>4. CASE Save(h)
    BY <1>1, <1>3, <1>4, OnlyTask, QuietTask DEF Save, Ahead, Later
  <1>5. CASE ToBetting(h)
    <2> DEFINE s == [q EXCEPT !.status = "BETTING", !.locked = {}]
               s2 == [s EXCEPT !.locked = Players, !.status = "PLAYING"]
    <2>1. s.status = "BETTING" /\ s2.status = "PLAYING"
      BY <1>2 DEF GameState
    <2>2. stored.status = "LOADING" /\ stored' = s
      BY <1>1, <1>5 DEF ToBetting, Ahead
    <2>3. PICK c, e : c = s2 /\ e = NoState
      OBVIOUS
    <2>4. \/ task' = [task EXCEPT ![h] = Doing("saving", NoOne, c)]
          \/ task' = [task EXCEPT ![h] = Doing("queueing", NoOne, e)]
      BY <1>5, <2>3 DEF ToBetting
    <2> HIDE DEF s, s2
    <2>5. stored'.status = "BETTING" /\ c.status = "PLAYING"
      BY <2>1, <2>2, <2>3
    <2>6. /\ Ahead(Doing("saving", NoOne, c))'
          /\ Ahead(Doing("queueing", NoOne, e))'
      BY <2>5, Ranks DEF Ahead, Doing
    <2>7. AheadInv'
      BY <1>1, <2>4, <2>6, OnlyTask
    <2> QED BY <2>2, <2>5, <2>7, Ranks DEF Later
  <1>6. CASE Move(h)
    <2>1. CASE task' = [task EXCEPT ![h] = Idle] /\ UNCHANGED stored
      <3>1. Later(stored, stored')
        BY <1>3, <2>1 DEF Later
      <3>2. Ahead(Idle)'
        BY QuietTask
      <3> QED BY <1>1, <2>1, <3>1, <3>2, OnlyTask
    <2>2. CASE ~(task' = [task EXCEPT ![h] = Idle] /\ UNCHANGED stored)
      <3>1. PICK d \in Rolls :
              LET s == ProcessMove(q, d)
              IN  /\ stored' = s
                  /\ task' = [task EXCEPT ![h] =
                       IF HasResult(s) THEN Doing("ending", Winner(s), s)
                       ELSE IF AllRolled(s) THEN Doing("resetting", NoOne, s)
                       ELSE AfterTurn(s)]
        BY <1>6, <2>2 DEF Move
      <3>2. PICK c : c = ProcessMove(q, d)
        OBVIOUS
      <3>3. q.status = "PLAYING" /\ stored.status = "PLAYING"
        BY <1>1, <1>6 DEF Move, TaskGood, Ahead
      <3>4. c.status = "PLAYING"
        BY <1>2, <3>2, <3>3 DEF ProcessMove, GameState
      <3>5. stored' = c
        BY <3>1, <3>2
      <3>6. PICK w : w = Winner(c)
        OBVIOUS
      <3>7. \/ task' = [task EXCEPT ![h] = Doing("ending", w, c)]
            \/ task' = [task EXCEPT ![h] = Doing("resetting", NoOne, c)]
            \/ task' = [task EXCEPT ![h] = AfterTurn(c)]
        BY <3>1, <3>2, <3>6
      <3>8. Ahead(Doing("ending", w, c))' /\ Ahead(Doing("resetting", NoOne, c))'
        BY <3>4, <3>5 DEF Ahead, Doing
      <3>9. PICK t : t = AfterTurn(c)
        OBVIOUS
      <3>10. Ahead(t)'
        BY <3>9 DEF AfterTurn, Ahead, Doing, Idle
      <3>11. AheadInv'
        BY <1>1, <3>7, <3>8, <3>9, <3>10, OnlyTask
      <3> QED BY <3>3, <3>4, <3>5, <3>11, Ranks DEF Later
    <2> QED BY <2>1, <2>2
  <1>7. CASE ResetRound(h)
    <2>1. PICK c : c = [q EXCEPT !.dice = [p \in Players |-> 0], !.index = 1]
      OBVIOUS
    <2>2. stored' = c /\ task' = [task EXCEPT ![h] = AfterTurn(c)]
      BY <1>7, <2>1 DEF ResetRound
    <2>3. c.status = "PLAYING" /\ stored.status = "PLAYING"
      BY <1>1, <1>2, <1>7, <2>1 DEF ResetRound, TaskGood, Ahead, GameState
    <2>4. PICK t : t = AfterTurn(c)
      OBVIOUS
    <2>5. Ahead(t)'
      BY <2>4 DEF AfterTurn, Ahead, Doing, Idle
    <2>6. AheadInv'
      BY <1>1, <2>2, <2>4, <2>5, OnlyTask
    <2> QED BY <2>2, <2>3, <2>6, Ranks DEF Later
  <1>8. CASE EndGame(h)
    <2>1. PICK w, c : /\ w = task[h].user
                      /\ c = [q EXCEPT !.status = "SETTLED", !.winner = w]
      OBVIOUS
    <2>2. /\ stored' = c
          /\ \/ task' = [task EXCEPT ![h] = Idle]
             \/ task' = [task EXCEPT ![h] = Doing("paying", w, c)]
      BY <1>8, <2>1 DEF EndGame
    <2>3. c.status = "SETTLED"
      BY <1>2, <2>1 DEF GameState
    <2>4. AheadInv'
      BY <1>1, <2>2, OnlyTask, QuietTask
    <2> QED BY <1>3, <2>2, <2>3, <2>4, Ranks DEF Later
  <1> QED BY <1>4, <1>5, <1>6, <1>7, <1>8

\* Every step of the match, of its worker and of a crash.
LEMMA NextAhead ==
    ASSUME Serial, FundedInv, AheadInv, [Next]_vars
    PROVE  AheadInv' /\ Later(stored, stored')
  <1>1. /\ stored \in GameState \cup {NoState} /\ Rank(stored.status) \in 0..4
        /\ SnapInv
    BY RankBounds DEF FundedInv, TypeOK
  <1>2. UNCHANGED stored => Later(stored, stored')
    BY <1>1 DEF Later
  <1>3. ASSUME UNCHANGED <<stored, task>> PROVE AheadInv' /\ Later(stored, stored')
    BY <1>2, <1>3 DEF AheadInv, Ahead
  <1>4. CASE Wallets \/ UNCHANGED vars
    BY <1>3, <1>4 DEF Wallets, TakeJob, CommitLock, LockFails, CommitRelease, FinishJob,
                      vars
  <1>5. CASE Crash
    BY <1>2, <1>5 DEF Crash, AheadInv, Ahead, Idle
  <1>6. CASE CreateGame
    <2>1. stored.status = "NONE" /\ stored'.status = "LOADING" /\ UNCHANGED task
      BY <1>6 DEF CreateGame, NoState, Created
    <2>2. \A h \in Tasks : task[h].at = "saving" => Rank(task[h].snap.status) >= 1
      BY <1>1, RankBounds DEF SnapInv, TaskGood
    <2>3. AheadInv'
      BY <2>1, <2>2, Ranks DEF AheadInv, Ahead
    <2> QED BY <2>1, <2>3, Ranks DEF Later
  <1>7. ASSUME NEW h \in Tasks,
               Handler(h) \/ \E p \in Humans : JoinRead(h, p) \/ RollRead(h, p)
        PROVE  AheadInv' /\ Later(stored, stored')
    BY <1>2, <1>7, ReadAhead, WriteAhead DEF Handler
  <1> QED BY <1>4, <1>5, <1>6, <1>7 DEF Next

\* While handlers run one at a time a match never goes back to an earlier
\* status, whenever the process dies and however its jobs are delivered.
THEOREM MatchStatusAdvances ==
    ASSUME Serial
    PROVE  Spec => StatusAdvances
  <1>1. Init => AheadInv
    BY DEF Init, AheadInv, Ahead, Idle
  <1>2. FundedInv /\ AheadInv /\ [Next]_vars => AheadInv'
    BY NextAhead
  <1>3. FundedInv /\ AheadInv /\ [Next]_vars
          => [Rank(stored'.status) >= Rank(stored.status)]_vars
    BY NextAhead DEF Later
  <1> QED BY <1>1, <1>2, <1>3, FundedAlways, PTL DEF Spec, StatusAdvances

-----------------------------------------------------------------------------
\* Where the bet of a player is on its way: in the queue, or in the worker.
Asked(p) == \E i \in DOMAIN queue : queue[i].kind = "LOCK_FUNDS" /\ queue[i].user = p
Running(p) == active.kind = "LOCK_FUNDS" /\ active.user = p /\ ~committed
Clean(p) == taken[p] = 0 /\ ~Asked(p) /\ ~Running(p)

\* A player's bet is asked for once: while the game loads none is, and a handler
\* that queues bets has not yet queued those of the players it will come to.
OnceInv ==
    /\ \A p \in Players : /\ taken[p] <= 1
                          /\ Asked(p) \/ Running(p) => taken[p] = 0
                          /\ Running(p) => ~Asked(p)
    /\ \A i, j \in DOMAIN queue :
         /\ queue[i].kind = "LOCK_FUNDS" /\ queue[j].kind = "LOCK_FUNDS"
         /\ queue[i].user = queue[j].user
         => i = j
    /\ stored.status \in {"NONE", "LOADING"} => \A p \in Players : Clean(p)
    /\ \A h \in Tasks : task[h].at = "queueing" =>
         \A i \in task[h].next..Len(Order) : Clean(Order[i])

BetInv == crashes = 0 => OnceInv

\* The players array names each player once.
LEMMA OrderIsInjective ==
    \A i, j \in 1..Len(Order) : Order[i] = Order[j] => i = j
  <1> DEFINE n == Len(Order)
  <1>1. n \in Nat /\ Order \in [1..n -> Players]
    BY Positions, MatchAssumption
  <1>2. IsFiniteSet(1..n) /\ Cardinality(1..n) = n
    <2> HIDE DEF n
    <2>1. IsFiniteSet(1..n) /\ Cardinality(1..n) = IF 1 > n THEN 0 ELSE n - 1 + 1
      BY <1>1, FS_Interval
    <2> QED BY <1>1, <2>1
  <1>3. Order \in Surjection(1..n, Players)
    BY <1>1, Positions DEF Surjection
  <1>4. Cardinality(1..n) = Cardinality(Players)
    BY <1>2, MatchAssumption
  <1>5. Order \in Injection(1..n, Players)
    BY <1>2, <1>3, <1>4, FS_SurjSameCardinalityImpliesInj
  <1> QED BY <1>5 DEF Injection, IsInjective

\* A status that is early was early before.
LEMMA EarlyBefore ==
    ASSUME TypeOK, Later(stored, stored'), stored'.status \in {"NONE", "LOADING"}
    PROVE  stored.status \in {"NONE", "LOADING"}
  <1>1. stored.status \in {"NONE", "LOADING", "BETTING", "PLAYING", "SETTLED"}
    BY DEF TypeOK, GameState, NoState
  <1> QED BY <1>1, Ranks DEF Later

\* A step of the match that leaves jobs and money alone, and opens the betting
\* at most from a game that was still loading.
LEMMA OnceMatch ==
    ASSUME OnceInv, TypeOK, TypeOK', Later(stored, stored'),
           UNCHANGED <<queue, active, committed, taken>>,
           \A h \in Tasks : task'[h].at = "queueing" =>
             \/ task'[h] = task[h]
             \/ stored.status = "LOADING"
    PROVE  OnceInv'
  <1>1. \A p : /\ Clean(p)' <=> Clean(p)
               /\ Asked(p)' <=> Asked(p)
               /\ Running(p)' <=> Running(p)
    BY DEF Clean, Asked, Running
  <1>2. \A i \in 1..Len(Order) : Order[i] \in Players
    BY Positions
  <1>3. \A h \in Tasks : task'[h].at = "queueing" =>
          \A i \in task'[h].next..Len(Order) : Clean(Order[i])
    <2> SUFFICES ASSUME NEW h \in Tasks, task'[h].at = "queueing",
                        NEW i \in task'[h].next..Len(Order)
                 PROVE  Clean(Order[i])
      OBVIOUS
    <2>1. CASE task'[h] = task[h]
      BY <2>1 DEF OnceInv
    <2>2. CASE stored.status = "LOADING"
      <3>1. i \in 1..Len(Order)
        BY Positions DEF TypeOK, Task
      <3> QED BY <1>2, <2>2, <3>1 DEF OnceInv
    <2> QED BY <2>1, <2>2
  <1>4. stored'.status \in {"NONE", "LOADING"} => \A p \in Players : Clean(p)
    BY EarlyBefore DEF OnceInv
  <1> QED BY <1>1, <1>3, <1>4 DEF OnceInv

\* No other handler comes to queue bets.
LEMMA QueueingStarts ==
    ASSUME TypeOK, AheadInv, NEW h \in Tasks,
           \/ \E p \in Humans : JoinRead(h, p) \/ RollRead(h, p)
           \/ \E p \in Players : FundsLocked(h, p)
           \/ Save(h) \/ ToBetting(h) \/ Move(h) \/ ResetRound(h) \/ BotRead(h)
           \/ EndGame(h)
    PROVE  \A k \in Tasks : task'[k].at = "queueing" =>
             task'[k] = task[k] \/ stored.status = "LOADING"
  <1> DEFINE Busy == {"idle", "saving", "toBetting", "rolling", "resetting",
                      "botTimer", "ending", "paying"}
             Goal == \A k \in Tasks : task'[k].at = "queueing" =>
                       task'[k] = task[k] \/ stored.status = "LOADING"
  <1>1. ASSUME NEW t, t.at # "queueing", task' = [task EXCEPT ![h] = t]
        PROVE  Goal
    BY <1>1 DEF TypeOK
  <1>2. \A at \in Busy : \A user, s :
          Doing(at, user, s).at # "queueing" /\ Idle.at # "queueing"
    BY DEF Doing, Idle
  <1>3. \A s : AfterTurn(s).at # "queueing"
    BY <1>2 DEF AfterTurn
  <1>4. ASSUME NEW p \in Humans, JoinRead(h, p) PROVE Goal
    <2>1. stored.status = "LOADING"
      BY <1>4 DEF JoinRead
    <2> QED BY <2>1
  <1>5. ASSUME NEW p \in Humans, RollRead(h, p) PROVE Goal
    BY <1>1, <1>2, <1>5 DEF RollRead
  <1>6. ASSUME NEW p \in Players, FundsLocked(h, p) PROVE Goal
    <2>1. CASE UNCHANGED task
      BY <2>1
    <2>2. CASE stored.status = "BETTING"
      <3>1. PICK s : task' = [task EXCEPT ![h] = Doing("saving", NoOne, s)]
        BY <1>6, <2>2 DEF FundsLocked
      <3> QED BY <1>1, <1>2, <3>1
    <2> QED BY <1>6, <2>1, <2>2 DEF FundsLocked
  <1>7. ASSUME Save(h) PROVE Goal
    BY <1>1, <1>2, <1>7 DEF Save
  <1>8. ASSUME ToBetting(h) PROVE Goal
    BY <1>8 DEF ToBetting, AheadInv, Ahead
  <1>9. ASSUME Move(h) PROVE Goal
    <2>1. PICK t : t.at # "queueing" /\ task' = [task EXCEPT ![h] = t]
      <3>1. CASE task' = [task EXCEPT ![h] = Idle]
        BY <1>2, <3>1
      <3>2. CASE \E d \in Rolls :
              LET s == ProcessMove(task[h].snap, d)
              IN  task' = [task EXCEPT ![h] =
                       IF HasResult(s) THEN Doing("ending", Winner(s), s)
                       ELSE IF AllRolled(s) THEN Doing("resetting", NoOne, s)
                       ELSE AfterTurn(s)]
        BY <1>2, <1>3, <3>2
      <3> QED BY <1>9, <3>1, <3>2 DEF Move
    <2> QED BY <1>1, <2>1
  <1>10. ASSUME ResetRound(h) PROVE Goal
    BY <1>1, <1>3, <1>10 DEF ResetRound
  <1>11. ASSUME BotRead(h) PROVE Goal
    BY <1>1, <1>2, <1>11 DEF BotRead
  <1>12. ASSUME EndGame(h) PROVE Goal
    BY <1>1, <1>2, <1>12 DEF EndGame
  <1> QED BY <1>4, <1>5, <1>6, <1>7, <1>8, <1>9, <1>10, <1>11, <1>12

\* A bet is queued for a player whose bet was on no way yet.
LEMMA OnceQueueLock ==
    ASSUME Serial, TypeOK, TypeOK', AheadInv, OnceInv, NEW h \in Tasks, QueueLock(h)
    PROVE  OnceInv'
  <1> DEFINE n == task[h].next
             u == Order[n]
             m == Len(queue) + 1
  <1>1. /\ task[h] \in Task /\ n \in 1..Len(Order) /\ task[h].at = "queueing"
        /\ stored.status = "BETTING"
    BY DEF QueueLock, TypeOK, Task, AheadInv, Ahead
  <1>2. u \in Players /\ Clean(u)
    <2>1. n \in n..Len(Order)
      BY <1>1, Positions
    <2> QED BY <1>1, <2>1, Positions DEF OnceInv
  <1>3. /\ queue \in Seq(Job) /\ Len(queue) \in Nat
        /\ DOMAIN queue = 1..Len(queue) /\ DOMAIN queue' = 1..m
        /\ \A i \in 1..Len(queue) : queue'[i] = queue[i]
        /\ queue'[m].kind = "LOCK_FUNDS" /\ queue'[m].user = u
    BY DEF QueueLock, TypeOK
  <1>4. UNCHANGED <<stored, active, committed, taken>>
    BY DEF QueueLock, money
  <1>5. \A i \in DOMAIN queue' : i = m \/ (i \in DOMAIN queue /\ queue'[i] = queue[i])
    BY <1>3
  <1> HIDE DEF m, u
  <1>6. \A p : /\ Asked(p)' => Asked(p) \/ p = u
               /\ Running(p)' <=> Running(p)
    BY <1>3, <1>4, <1>5 DEF Asked, Running
  <1>7. \A p : Clean(p) /\ p # u => Clean(p)'
    BY <1>4, <1>6 DEF Clean
  <1>8. \A p \in Players : /\ taken'[p] <= 1
                           /\ Asked(p)' \/ Running(p)' => taken'[p] = 0
                           /\ Running(p)' => ~Asked(p)'
    BY <1>2, <1>4, <1>6 DEF OnceInv, Clean
  <1>9. \A i, j \in DOMAIN queue' :
          /\ queue'[i].kind = "LOCK_FUNDS" /\ queue'[j].kind = "LOCK_FUNDS"
          /\ queue'[i].user = queue'[j].user
          => i = j
    <2>1. \A i \in DOMAIN queue : queue[i].kind = "LOCK_FUNDS" => queue[i].user # u
      BY <1>2 DEF Clean, Asked
    <2> QED BY <1>3, <1>5, <2>1 DEF OnceInv
  <1>10. \A k \in Tasks : task'[k].at = "queueing" =>
           \A i \in task'[k].next..Len(Order) : Clean(Order[i])'
    <2> SUFFICES ASSUME NEW k \in Tasks, task'[k].at = "queueing",
                        NEW i \in task'[k].next..Len(Order)
                 PROVE  Clean(Order[i])'
      OBVIOUS
    <2>1. k = h
      BY DEF Serial
    <2>2. n # Len(Order) /\ task'[h].next = n + 1
      BY <1>1, <2>1 DEF QueueLock, TypeOK, Idle, Task
    <2>3. i \in n..Len(Order) /\ i \in 1..Len(Order) /\ i # n
      BY <1>1, <2>1, <2>2, Positions
    <2>4. Order[i] # u
      BY <1>1, <2>3, OrderIsInjective DEF u
    <2>5. Clean(Order[i])
      BY <1>1, <2>3 DEF OnceInv
    <2> QED BY <1>7, <2>4, <2>5
  <1> QED BY <1>1, <1>4, <1>8, <1>9, <1>10 DEF OnceInv

\* A payout that is queued, and what the worker does with its jobs, leave each
\* bet where it is or take it one step further.
LEMMA OnceJobs ==
    ASSUME OnceInv, UNCHANGED stored,
           \A h \in Tasks : task'[h].at = "queueing" => task'[h] = task[h],
           \A h \in Tasks : task[h].at = "queueing" =>
             \A i \in task[h].next..Len(Order) : Clean(Order[i]) => Clean(Order[i])',
           stored.status \in {"NONE", "LOADING"} =>
             \A p \in Players : Clean(p) => Clean(p)',
           \A p \in Players : /\ taken'[p] <= 1
                              /\ Asked(p)' \/ Running(p)' => taken'[p] = 0
                              /\ Running(p)' => ~Asked(p)',
           \A i, j \in DOMAIN queue' :
             /\ queue'[i].kind = "LOCK_FUNDS" /\ queue'[j].kind = "LOCK_FUNDS"
             /\ queue'[i].user = queue'[j].user
             => i = j
    PROVE  OnceInv'
  <1>1. \A h \in Tasks : task'[h].at = "queueing" =>
          \A i \in task'[h].next..Len(Order) : Clean(Order[i])'
    <2> SUFFICES ASSUME NEW h \in Tasks, task'[h].at = "queueing",
                        NEW i \in task'[h].next..Len(Order)
                 PROVE  Clean(Order[i])'
      OBVIOUS
    <2>1. task'[h] = task[h]
      OBVIOUS
    <2>2. Clean(Order[i])
      BY <2>1 DEF OnceInv
    <2> QED BY <2>1, <2>2
  <1>2. stored'.status \in {"NONE", "LOADING"} => \A p \in Players : Clean(p)'
    BY DEF OnceInv
  <1> QED BY <1>1, <1>2 DEF OnceInv

LEMMA OnceRelease ==
    ASSUME TypeOK, OnceInv, NEW h \in Tasks, QueueRelease(h)
    PROVE  OnceInv'
  <1> DEFINE m == Len(queue) + 1
  <1>1. /\ queue \in Seq(Job) /\ Len(queue) \in Nat
        /\ DOMAIN queue = 1..Len(queue) /\ DOMAIN queue' = 1..m
        /\ \A i \in 1..Len(queue) : queue'[i] = queue[i]
        /\ queue'[m].kind = "RELEASE_FUNDS"
    BY DEF QueueRelease, TypeOK
  <1>2. \A i \in DOMAIN queue' : \/ queue'[i].kind # "LOCK_FUNDS"
                                 \/ i \in DOMAIN queue /\ queue'[i] = queue[i]
    BY <1>1
  <1>3. UNCHANGED <<stored, active, committed, taken>>
    BY DEF QueueRelease, money
  <1>4. \A k \in Tasks : task'[k].at = "queueing" => task'[k] = task[k]
    BY DEF QueueRelease, TypeOK, Idle
  <1>5. \A p : (Asked(p)' => Asked(p)) /\ (Running(p)' <=> Running(p))
    BY <1>2, <1>3 DEF Asked, Running
  <1>6. \A p : Clean(p) => Clean(p)'
    BY <1>3, <1>5 DEF Clean
  <1>7. \A p \in Players : /\ taken'[p] <= 1
                           /\ Asked(p)' \/ Running(p)' => taken'[p] = 0
                           /\ Running(p)' => ~Asked(p)'
    BY <1>3, <1>5 DEF OnceInv
  <1>8. \A i, j \in DOMAIN queue' :
          /\ queue'[i].kind = "LOCK_FUNDS" /\ queue'[j].kind = "LOCK_FUNDS"
          /\ queue'[i].user = queue'[j].user
          => i = j
    BY <1>2 DEF OnceInv
  <1> QED BY <1>3, <1>4, <1>6, <1>7, <1>8, OnceJobs

LEMMA OnceTake ==
    ASSUME TypeOK, OnceInv, TakeJob
    PROVE  OnceInv'
  <1>1. /\ queue \in Seq(Job) /\ queue # <<>> /\ Len(queue) \in Nat /\ Len(queue) >= 1
        /\ DOMAIN queue = 1..Len(queue)
        /\ DOMAIN queue' = 1..(Len(queue) - 1)
        /\ \A i \in 1..(Len(queue) - 1) : queue'[i] = queue[i + 1]
        /\ active' = queue[1] /\ active = NoJob /\ committed' = FALSE
    BY DEF TakeJob, TypeOK
  <1>2. \A i \in DOMAIN queue' :
          /\ i \in Nat /\ i + 1 \in DOMAIN queue /\ i + 1 # 1
          /\ queue'[i] = queue[i + 1]
    BY <1>1
  <1>3. UNCHANGED <<stored, task, taken>>
    BY DEF TakeJob, money
  <1>4. 1 \in DOMAIN queue
    BY <1>1
  <1>5. \A p : /\ Asked(p)' => Asked(p)
               /\ Running(p)' => Asked(p)
    BY <1>1, <1>2, <1>4 DEF Asked, Running
  <1>6. \A p : Clean(p) => Clean(p)'
    BY <1>3, <1>5 DEF Clean
  <1>7. \A p : Running(p)' => ~Asked(p)'
    BY <1>1, <1>2, <1>4 DEF Running, Asked, OnceInv
  <1>8. \A p \in Players : /\ taken'[p] <= 1
                           /\ Asked(p)' \/ Running(p)' => taken'[p] = 0
                           /\ Running(p)' => ~Asked(p)'
    BY <1>3, <1>5, <1>7 DEF OnceInv
  <1>9. \A i, j \in DOMAIN queue' :
          /\ queue'[i].kind = "LOCK_FUNDS" /\ queue'[j].kind = "LOCK_FUNDS"
          /\ queue'[i].user = queue'[j].user
          => i = j
    <2> SUFFICES ASSUME NEW i \in DOMAIN queue', NEW j \in DOMAIN queue',
                        queue'[i].kind = "LOCK_FUNDS", queue'[j].kind = "LOCK_FUNDS",
                        queue'[i].user = queue'[j].user
                 PROVE  i = j
      OBVIOUS
    <2>1. i + 1 = j + 1
      BY <1>2 DEF OnceInv
    <2> QED BY <1>2, <2>1
  <1> QED BY <1>3, <1>6, <1>8, <1>9, OnceJobs

LEMMA OnceCommit ==
    ASSUME TypeOK, OnceInv, CommitLock
    PROVE  OnceInv'
  <1> DEFINE u == active.user
  <1>1. /\ u \in Players /\ Running(u) /\ committed' = TRUE
        /\ UNCHANGED <<stored, task, queue, active>>
        /\ taken' = [taken EXCEPT ![u] = @ + 1]
    BY DEF CommitLock, TypeOK, NoJob, Job, Running
  <1>2. taken \in [Players -> Nat] /\ taken[u] = 0 /\ ~Asked(u)
    BY <1>1 DEF TypeOK, OnceInv
  <1>3. \A p : ~Running(p)' /\ (Asked(p)' <=> Asked(p))
    BY <1>1 DEF Running, Asked
  <1>4. \A p \in Players : taken'[p] = IF p = u THEN 1 ELSE taken[p]
    BY <1>1, <1>2
  <1>5. \A p \in Players : Clean(p) => Clean(p)'
    BY <1>1, <1>3, <1>4 DEF Clean
  <1>6. \A h \in Tasks : \A i \in task[h].next..Len(Order) : Order[i] \in Players
    BY Positions DEF TypeOK, Task
  <1>7. \A p \in Players : /\ taken'[p] <= 1
                           /\ Asked(p)' \/ Running(p)' => taken'[p] = 0
                           /\ Running(p)' => ~Asked(p)'
    BY <1>2, <1>3, <1>4 DEF OnceInv
  <1>8. \A i, j \in DOMAIN queue' :
          /\ queue'[i].kind = "LOCK_FUNDS" /\ queue'[j].kind = "LOCK_FUNDS"
          /\ queue'[i].user = queue'[j].user
          => i = j
    BY <1>1 DEF OnceInv
  <1> QED BY <1>1, <1>5, <1>6, <1>7, <1>8, OnceJobs

\* The worker's other steps only let a running job go.
LEMMA OnceOther ==
    ASSUME TypeOK, OnceInv, LockFails \/ CommitRelease \/ FinishJob
    PROVE  OnceInv'
  <1>1. UNCHANGED <<stored, task, queue, taken>>
    BY DEF LockFails, CommitRelease, FinishJob, money
  <1>2. \A p : (Asked(p)' <=> Asked(p)) /\ (Running(p)' => Running(p))
    BY <1>1 DEF LockFails, CommitRelease, FinishJob, Asked, Running, NoJob
  <1>3. \A p : Clean(p) => Clean(p)'
    BY <1>1, <1>2 DEF Clean
  <1> QED BY <1>1, <1>2, <1>3, OnceJobs DEF OnceInv

\* While none has been counted the process has not died, and does not die now.
LEMMA CrashesGrow ==
    ASSUME crashes \in Nat, crashes' = 0, [Next]_vars
    PROVE  ~Crash /\ crashes = 0
  <1>1. ~Crash
    BY DEF Crash
  <1>2. UNCHANGED crashes
    BY <1>1 DEF Next, CreateGame, JoinRead, RollRead, Handler, Save, ToBetting,
       QueueLock, FundsLocked, Move, ResetRound, BotRead, EndGame, QueueRelease,
       Wallets, TakeJob, CommitLock, LockFails, CommitRelease, FinishJob, vars
  <1> QED BY <1>1, <1>2

LEMMA NextOnce ==
    ASSUME Serial, FundedInv, FundedInv', AheadInv, BetInv, [Next]_vars
    PROVE  BetInv'
  <1>1. TypeOK /\ TypeOK' /\ Later(stored, stored')
    BY NextAhead DEF FundedInv
  <1> SUFFICES ASSUME crashes' = 0, crashes = 0 => OnceInv PROVE OnceInv'
    BY DEF BetInv
  <1>2. ~Crash /\ crashes = 0
    BY <1>1, CrashesGrow DEF TypeOK
  <1>3. OnceInv
    BY <1>2
  <1>4. ASSUME UNCHANGED <<task, queue, active, committed, taken>> PROVE OnceInv'
    BY <1>1, <1>3, <1>4, OnceMatch
  <1>5. CASE CreateGame \/ UNCHANGED vars
    BY <1>4, <1>5 DEF CreateGame, worker, money, vars
  <1>6. ASSUME NEW h \in Tasks,
               \/ \E p \in Humans : JoinRead(h, p) \/ RollRead(h, p)
               \/ \E p \in Players : FundsLocked(h, p)
               \/ Save(h) \/ ToBetting(h) \/ Move(h) \/ ResetRound(h) \/ BotRead(h)
               \/ EndGame(h)
        PROVE  OnceInv'
    <2>1. \A k \in Tasks : task'[k].at = "queueing" =>
            task'[k] = task[k] \/ stored.status = "LOADING"
      BY <1>1, <1>6, QueueingStarts
    <2>2. UNCHANGED <<queue, active, committed, taken>>
      BY <1>6 DEF JoinRead, RollRead, FundsLocked, Save, ToBetting, Move, ResetRound,
         BotRead, EndGame, worker, money
    <2> QED BY <1>1, <1>3, <2>1, <2>2, OnceMatch
  <1>7. CASE Wallets
    BY <1>1, <1>3, <1>7, OnceTake, OnceCommit, OnceOther DEF Wallets
  <1>8. ASSUME NEW h \in Tasks, QueueLock(h) \/ QueueRelease(h) PROVE OnceInv'
    BY <1>1, <1>3, <1>8, OnceQueueLock, OnceRelease
  <1> QED BY <1>2, <1>5, <1>6, <1>7, <1>8 DEF Next, Handler

\* While handlers run one at a time and the process lives, nobody pays the bet
\* of one match twice: the betting opens once, each player's lock is queued
\* once, and the worker commits it at most once.
THEOREM MatchBetTakenOnce ==
    ASSUME Serial
    PROVE  Spec => []BetTakenOnce
  <1>1. Init => AheadInv /\ BetInv
    <2> SUFFICES ASSUME Init PROVE AheadInv /\ BetInv
      OBVIOUS
    <2>1. DOMAIN queue = {} /\ active.kind = "NONE"
      BY DEF Init, NoJob
    <2>2. \A p \in Players : Clean(p)
      BY <2>1 DEF Init, Clean, Asked, Running
    <2>3. OnceInv
      BY <2>1, <2>2 DEF OnceInv, Init, Idle, Clean
    <2> QED BY <2>3 DEF Init, AheadInv, Ahead, Idle, BetInv
  <1>2. FundedInv /\ AheadInv /\ [Next]_vars => AheadInv'
    BY NextAhead
  <1>3. FundedInv /\ FundedInv' /\ AheadInv /\ BetInv /\ [Next]_vars => BetInv'
    BY NextOnce
  <1>4. BetInv => BetTakenOnce
    BY DEF BetInv, OnceInv, BetTakenOnce
  <1> QED BY <1>1, <1>2, <1>3, <1>4, FundedAlways, PTL DEF Spec

-----------------------------------------------------------------------------
\* Where the payout of the match is on its way: with the handler that settled
\* it, in the queue, or in the worker.
Pot == Bet * Cardinality(Players)
Paying == \E h \in Tasks : task[h].at = "paying"
Queued == \E i \in DOMAIN queue : queue[i].kind = "RELEASE_FUNDS"
Serving == active.kind = "RELEASE_FUNDS" /\ ~committed

\* There is one payout, of the pot, and only once the match is settled.
PaidOnce ==
    /\ Paying \/ Queued \/ Serving \/ payouts # 0 =>
         stored.status = "SETTLED" /\ ~Practice
    /\ Paying => ~Queued /\ ~Serving /\ payouts = 0
    /\ Queued => ~Serving /\ payouts = 0
    /\ Serving => payouts = 0
    /\ \A i, j \in DOMAIN queue :
         queue[i].kind = "RELEASE_FUNDS" /\ queue[j].kind = "RELEASE_FUNDS" => i = j
    /\ \A h \in Tasks : task[h].at = "paying" => task[h].snap.pot = Pot
    /\ \A i \in DOMAIN queue : queue[i].kind = "RELEASE_FUNDS" => queue[i].amount = Pot
    /\ active.kind = "RELEASE_FUNDS" => active.amount = Pot
    /\ <<payouts, paid>> \in {<<0, 0>>, <<1, Pot>>}

PaidInv == crashes = 0 => PaidOnce

\* A settled match stays settled.
LEMMA SettledStays ==
    ASSUME TypeOK', Later(stored, stored'), stored.status = "SETTLED"
    PROVE  stored'.status = "SETTLED"
  <1>1. stored'.status \in {"NONE", "LOADING", "BETTING", "PLAYING", "SETTLED"}
    BY DEF TypeOK, GameState, NoState
  <1> QED BY <1>1, Ranks DEF Later

\* A step of the match that leaves jobs and money alone, and settles it at most
\* once.
LEMMA PaidMatch ==
    ASSUME Serial, PaidOnce, TypeOK', Later(stored, stored'),
           UNCHANGED <<queue, active, committed, paid, payouts>>,
           \A h \in Tasks : task'[h].at = "paying" =>
             \/ task'[h] = task[h]
             \/ /\ stored.status = "PLAYING" /\ stored'.status = "SETTLED"
                /\ ~Practice /\ task'[h].snap.pot = Pot
    PROVE  PaidOnce'
  <1>1. /\ Queued' <=> Queued
        /\ Serving' <=> Serving
        /\ Pot' = Pot
    BY DEF Queued, Serving, Pot
  <1>2. CASE \A h \in Tasks : task'[h].at = "paying" => task'[h] = task[h]
    <2>1. Paying' => Paying
      BY <1>2 DEF Paying
    <2>2. \A h \in Tasks : task'[h].at = "paying" => task'[h].snap.pot = Pot
      BY <1>2 DEF PaidOnce
    <2> QED BY <1>1, <2>1, <2>2, SettledStays DEF PaidOnce
  <1>3. CASE \E h \in Tasks : task'[h].at = "paying" /\ task'[h] # task[h]
    <2>1. PICK h \in Tasks : task'[h].at = "paying" /\ task'[h] # task[h]
      BY <1>3
    <2>2. /\ stored.status = "PLAYING" /\ stored'.status = "SETTLED"
          /\ ~Practice /\ task'[h].snap.pot = Pot
      BY <2>1
    <2>3. ~Queued /\ ~Serving /\ payouts = 0
      BY <2>2 DEF PaidOnce
    <2>4. \A k \in Tasks : task'[k].at = "paying" => task'[k].snap.pot = Pot
      BY <2>2 DEF Serial
    <2> QED BY <1>1, <2>2, <2>3, <2>4 DEF PaidOnce
  <1> QED BY <1>2, <1>3

\* Only endGame comes to pay: what it pays is the pot of all the bets.
LEMMA PayingStarts ==
    ASSUME FundedInv, AheadInv, NEW h \in Tasks,
           \/ \E p \in Humans : JoinRead(h, p) \/ RollRead(h, p)
           \/ \E p \in Players : FundsLocked(h, p)
           \/ Save(h) \/ ToBetting(h) \/ Move(h) \/ ResetRound(h) \/ BotRead(h)
           \/ EndGame(h)
    PROVE  \A k \in Tasks : task'[k].at = "paying" =>
             \/ task'[k] = task[k]
             \/ /\ stored.status = "PLAYING" /\ stored'.status = "SETTLED"
                /\ ~Practice /\ task'[k].snap.pot = Pot
  <1> DEFINE Busy == {"idle", "saving", "toBetting", "queueing", "rolling", "resetting",
                      "botTimer", "ending"}
             Goal == \A k \in Tasks : task'[k].at = "paying" =>
                       \/ task'[k] = task[k]
                       \/ /\ stored.status = "PLAYING" /\ stored'.status = "SETTLED"
                          /\ ~Practice /\ task'[k].snap.pot = Pot
  <1>0. TypeOK
    BY DEF FundedInv
  <1>1. ASSUME NEW t, t.at # "paying", task' = [task EXCEPT ![h] = t]
        PROVE  Goal
    BY <1>0, <1>1 DEF TypeOK
  <1>2. \A at \in Busy : \A user, s :
          Doing(at, user, s).at # "paying" /\ Idle.at # "paying"
    BY DEF Doing, Idle
  <1>3. \A s : AfterTurn(s).at # "paying"
    BY <1>2 DEF AfterTurn
  <1>4. ASSUME NEW p \in Humans, JoinRead(h, p) PROVE Goal
    <2>1. PICK s : s = [stored EXCEPT !.connected = @ + 1]
      OBVIOUS
    <2>2. \/ task' = [task EXCEPT ![h] = Doing("toBetting", NoOne, s)]
          \/ task' = [task EXCEPT ![h] = Doing("saving", NoOne, s)]
      BY <1>4, <2>1 DEF JoinRead
    <2> QED BY <1>1, <1>2, <2>2
  <1>5. ASSUME NEW p \in Humans, RollRead(h, p) PROVE Goal
    BY <1>1, <1>2, <1>5 DEF RollRead
  <1>6. ASSUME NEW p \in Players, FundsLocked(h, p) PROVE Goal
    <2>1. CASE UNCHANGED task
      BY <2>1
    <2>2. CASE stored.status = "BETTING"
      <3>1. PICK s : task' = [task EXCEPT ![h] = Doing("saving", NoOne, s)]
        BY <1>6, <2>2 DEF FundsLocked
      <3> QED BY <1>1, <1>2, <3>1
    <2> QED BY <1>6, <2>1, <2>2 DEF FundsLocked
  <1>7. ASSUME Save(h) PROVE Goal
    BY <1>1, <1>2, <1>7 DEF Save
  <1>8. ASSUME ToBetting(h) PROVE Goal
    <2>1. PICK s : s = [task[h].snap EXCEPT !.status = "BETTING", !.locked = {}]
      OBVIOUS
    <2>2. PICK r : r = [s EXCEPT !.locked = Players, !.status = "PLAYING"]
      OBVIOUS
    <2>3. \/ task' = [task EXCEPT ![h] = Doing("saving", NoOne, r)]
          \/ task' = [task EXCEPT ![h] = Doing("queueing", NoOne, NoState)]
      BY <1>8, <2>1, <2>2 DEF ToBetting
    <2> QED BY <1>1, <1>2, <2>3
  <1>9. ASSUME Move(h) PROVE Goal
    <2>1. PICK t : t.at # "paying" /\ task' = [task EXCEPT ![h] = t]
      <3>1. CASE task' = [task EXCEPT ![h] = Idle]
        BY <1>2, <3>1
      <3>2. CASE \E d \in Rolls :
              LET s == ProcessMove(task[h].snap, d)
              IN  task' = [task EXCEPT ![h] =
                       IF HasResult(s) THEN Doing("ending", Winner(s), s)
                       ELSE IF AllRolled(s) THEN Doing("resetting", NoOne, s)
                       ELSE AfterTurn(s)]
        BY <1>2, <1>3, <3>2
      <3> QED BY <1>9, <3>1, <3>2 DEF Move
    <2> QED BY <1>1, <2>1
  <1>10. ASSUME ResetRound(h) PROVE Goal
    BY <1>1, <1>3, <1>10 DEF ResetRound
  <1>11. ASSUME BotRead(h) PROVE Goal
    BY <1>1, <1>2, <1>11 DEF BotRead
  <1>12. ASSUME EndGame(h) PROVE Goal
    <2>1. PICK w, c : /\ w = task[h].user
                      /\ c = [task[h].snap EXCEPT !.status = "SETTLED", !.winner = w]
      OBVIOUS
    <2>2. /\ stored' = c
          /\ \/ task' = [task EXCEPT ![h] = Idle]
             \/ ~Practice /\ task' = [task EXCEPT ![h] = Doing("paying", w, c)]
      BY <1>12, <2>1 DEF EndGame
    <2>3. task[h].at = "ending" /\ stored.status = "PLAYING"
      BY <1>12 DEF EndGame, AheadInv, Ahead
    <2>4. /\ task[h].snap \in GameState /\ task[h].snap.status = "PLAYING"
          /\ Funded(task[h].snap)
      BY <2>3 DEF FundedInv, SnapInv, TaskGood
    <2>5. task[h].snap # NoState
      BY <2>4 DEF GameState, NoState
    <2>6. ~Practice => task[h].snap.pot = Pot
      BY <2>4, <2>5 DEF Funded, Pot
    <2>7. c.status = "SETTLED" /\ c.pot = task[h].snap.pot
      BY <2>1, <2>4 DEF GameState
    <2>8. CASE task' = [task EXCEPT ![h] = Idle]
      BY <1>1, <1>2, <2>8
    <2>9. CASE ~Practice /\ task' = [task EXCEPT ![h] = Doing("paying", w, c)]
      <3>1. Doing("paying", w, c).snap = c
        BY DEF Doing
      <3>2. \A k \in Tasks : task'[k] = task[k] \/ task'[k].snap = c
        BY <1>0, <2>9, <3>1 DEF TypeOK
      <3> QED BY <2>2, <2>3, <2>6, <2>7, <2>9, <3>2
    <2> QED BY <2>2, <2>8, <2>9
  <1> QED BY <1>4, <1>5, <1>6, <1>7, <1>8, <1>9, <1>10, <1>11, <1>12

\* The handler hands the payout to the queue.
LEMMA PaidQueueRelease ==
    ASSUME Serial, TypeOK, PaidOnce, NEW h \in Tasks, QueueRelease(h)
    PROVE  PaidOnce'
  <1> DEFINE m == Len(queue) + 1
  <1>1. /\ queue \in Seq(Job) /\ Len(queue) \in Nat
        /\ DOMAIN queue = 1..Len(queue) /\ DOMAIN queue' = 1..m
        /\ \A i \in 1..Len(queue) : queue'[i] = queue[i]
        /\ queue'[m].kind = "RELEASE_FUNDS" /\ queue'[m].amount = task[h].snap.pot
    BY DEF QueueRelease, TypeOK
  <1>2. task[h].at = "paying" /\ Paying
    BY DEF QueueRelease, Paying
  <1>3. /\ ~Queued /\ ~Serving /\ payouts = 0 /\ task[h].snap.pot = Pot
        /\ stored.status = "SETTLED" /\ ~Practice
    BY <1>2 DEF PaidOnce
  <1>4. \A i \in DOMAIN queue' : i = m \/ queue'[i].kind # "RELEASE_FUNDS"
    BY <1>1, <1>3 DEF Queued
  <1>5. UNCHANGED <<stored, active, committed, paid, payouts>>
    BY DEF QueueRelease, money
  <1>6. \A k \in Tasks : task'[k].at # "paying"
    <2>1. \A k \in Tasks : k = h
      BY DEF Serial
    <2>2. task'[h] = Idle
      BY DEF QueueRelease, TypeOK
    <2> QED BY <2>1, <2>2 DEF Idle
  <1>7. ~Paying' /\ ~Serving' /\ Pot' = Pot
    BY <1>3, <1>5, <1>6 DEF Paying, Serving, Pot
  <1> HIDE DEF m
  <1>8. \A i, j \in DOMAIN queue' :
          queue'[i].kind = "RELEASE_FUNDS" /\ queue'[j].kind = "RELEASE_FUNDS" => i = j
    BY <1>4
  <1>9. \A i \in DOMAIN queue' : queue'[i].kind = "RELEASE_FUNDS" => queue'[i].amount = Pot
    BY <1>1, <1>3, <1>4
  <1> QED BY <1>3, <1>5, <1>6, <1>7, <1>8, <1>9 DEF PaidOnce

\* A bet that is queued is no payout.
LEMMA PaidQueueLock ==
    ASSUME TypeOK, PaidOnce, NEW h \in Tasks, QueueLock(h)
    PROVE  PaidOnce'
  <1> DEFINE m == Len(queue) + 1
  <1>1. /\ queue \in Seq(Job) /\ Len(queue) \in Nat
        /\ DOMAIN queue = 1..Len(queue) /\ DOMAIN queue' = 1..m
        /\ \A i \in 1..Len(queue) : queue'[i] = queue[i]
        /\ queue'[m].kind = "LOCK_FUNDS"
    BY DEF QueueLock, TypeOK
  <1>2. \A i \in DOMAIN queue' : \/ queue'[i].kind # "RELEASE_FUNDS"
                                 \/ i \in DOMAIN queue /\ queue'[i] = queue[i]
    BY <1>1
  <1>3. UNCHANGED <<stored, active, committed, paid, payouts>>
    BY DEF QueueLock, money
  <1>4. \A k \in Tasks : task'[k].at = "paying" => task'[k] = task[k]
    <2>1. task[h].at = "queueing"
      BY DEF QueueLock
    <2>2. task'[h].at # "paying"
      <3>1. task'[h] = Idle \/ task'[h] = [task[h] EXCEPT !.next = task[h].next + 1]
        BY DEF QueueLock, TypeOK
      <3>2. Idle.at # "paying"
        BY DEF Idle
      <3>3. [task[h] EXCEPT !.next = task[h].next + 1].at = task[h].at
        BY DEF TypeOK, Task
      <3> QED BY <2>1, <3>1, <3>2, <3>3
    <2>3. \A k \in Tasks : k # h => task'[k] = task[k]
      BY DEF QueueLock, TypeOK
    <2> QED BY <2>2, <2>3
  <1>5. /\ Paying' => Paying
        /\ Queued' => Queued
        /\ Serving' <=> Serving
        /\ Pot' = Pot
    BY <1>2, <1>3, <1>4 DEF Paying, Queued, Serving, Pot
  <1>6. \A k \in Tasks : task'[k].at = "paying" => task'[k].snap.pot = Pot
    BY <1>4 DEF PaidOnce
  <1>7. \A i \in DOMAIN queue' : queue'[i].kind = "RELEASE_FUNDS" => queue'[i].amount = Pot
    BY <1>2 DEF PaidOnce
  <1>8. \A i, j \in DOMAIN queue' :
          queue'[i].kind = "RELEASE_FUNDS" /\ queue'[j].kind = "RELEASE_FUNDS" => i = j
    BY <1>2 DEF PaidOnce
  <1> QED BY <1>3, <1>5, <1>6, <1>7, <1>8 DEF PaidOnce

LEMMA PaidTake ==
    ASSUME TypeOK, PaidOnce, TakeJob
    PROVE  PaidOnce'
  <1>1. /\ queue \in Seq(Job) /\ queue # <<>> /\ Len(queue) \in Nat /\ Len(queue) >= 1
        /\ DOMAIN queue = 1..Len(queue)
        /\ DOMAIN queue' = 1..(Len(queue) - 1)
        /\ \A i \in 1..(Len(queue) - 1) : queue'[i] = queue[i + 1]
        /\ active' = queue[1] /\ active = NoJob /\ committed' = FALSE
    BY DEF TakeJob, TypeOK
  <1>2. \A i \in DOMAIN queue' :
          /\ i \in Nat /\ i + 1 \in DOMAIN queue /\ i + 1 # 1
          /\ queue'[i] = queue[i + 1]
    BY <1>1
  <1>3. UNCHANGED <<stored, task, paid, payouts>> /\ 1 \in DOMAIN queue
    BY <1>1 DEF TakeJob, money
  <1>4. /\ Paying' <=> Paying
        /\ Queued' => Queued
        /\ Serving' => Queued
        /\ Pot' = Pot
    BY <1>1, <1>2, <1>3 DEF Paying, Queued, Serving, Pot
  <1>5. Queued' => ~Serving'
    BY <1>1, <1>2, <1>3 DEF Queued, Serving, PaidOnce
  <1>6. \A i, j \in DOMAIN queue' :
          queue'[i].kind = "RELEASE_FUNDS" /\ queue'[j].kind = "RELEASE_FUNDS" => i = j
    <2> SUFFICES ASSUME NEW i \in DOMAIN queue', NEW j \in DOMAIN queue',
                        queue'[i].kind = "RELEASE_FUNDS", queue'[j].kind = "RELEASE_FUNDS"
                 PROVE  i = j
      OBVIOUS
    <2>1. i + 1 = j + 1
      BY <1>2 DEF PaidOnce
    <2> QED BY <1>2, <2>1
  <1>7. \A i \in DOMAIN queue' : queue'[i].kind = "RELEASE_FUNDS" => queue'[i].amount = Pot
    BY <1>2 DEF PaidOnce
  <1>8. active'.kind = "RELEASE_FUNDS" => active'.amount = Pot
    BY <1>1, <1>3 DEF PaidOnce
  <1> QED BY <1>3, <1>4, <1>5, <1>6, <1>7, <1>8 DEF PaidOnce

\* The worker pays the pot, once.
LEMMA PaidCommit ==
    ASSUME TypeOK, PaidOnce, CommitRelease
    PROVE  PaidOnce'
  <1>1. /\ Serving /\ paid' = paid + active.amount /\ payouts' = payouts + 1
        /\ committed' = TRUE /\ UNCHANGED <<stored, task, queue, active>>
    BY DEF CommitRelease, Serving
  <1>2. /\ payouts = 0 /\ paid = 0 /\ active.amount = Pot /\ ~Queued /\ ~Paying
        /\ stored.status = "SETTLED" /\ ~Practice
    BY <1>1 DEF PaidOnce, Serving
  <1>3. Pot \in Int
    BY MatchAssumption, FS_CardinalityType, NumbersOfAMatch DEF Pot
  <1>4. payouts' = 1 /\ paid' = Pot
    BY <1>1, <1>2, <1>3
  <1>5. ~Queued' /\ ~Paying' /\ ~Serving' /\ Pot' = Pot
    BY <1>1, <1>2 DEF Queued, Paying, Serving, Pot
  <1> QED BY <1>1, <1>2, <1>4, <1>5 DEF PaidOnce

LEMMA PaidOther ==
    ASSUME TypeOK, PaidOnce, CommitLock \/ LockFails \/ FinishJob
    PROVE  PaidOnce'
  <1>1. UNCHANGED <<stored, task, queue, paid, payouts>>
    BY DEF CommitLock, LockFails, FinishJob, money
  <1>2. active' \in {active, NoJob} /\ NoJob.kind # "RELEASE_FUNDS"
    BY DEF CommitLock, LockFails, FinishJob, NoJob
  <1>3. /\ Queued' <=> Queued
        /\ Paying' <=> Paying
        /\ Pot' = Pot
    BY <1>1 DEF Queued, Paying, Pot
  <1>4. Serving' => Serving
    BY <1>2 DEF CommitLock, LockFails, FinishJob, Serving
  <1> QED BY <1>1, <1>2, <1>3, <1>4 DEF PaidOnce

LEMMA NextPaid ==
    ASSUME Serial, FundedInv, FundedInv', AheadInv, PaidInv, [Next]_vars
    PROVE  PaidInv'
  <1>1. TypeOK /\ TypeOK' /\ Later(stored, stored')
    BY NextAhead DEF FundedInv
  <1> SUFFICES ASSUME crashes' = 0, crashes = 0 => PaidOnce PROVE PaidOnce'
    BY DEF PaidInv
  <1>2. ~Crash /\ PaidOnce
    BY <1>1, CrashesGrow DEF TypeOK
  <1>3. ASSUME UNCHANGED <<task, queue, active, committed, paid, payouts>> PROVE PaidOnce'
    BY <1>1, <1>2, <1>3, PaidMatch
  <1>4. CASE CreateGame \/ UNCHANGED vars
    BY <1>3, <1>4 DEF CreateGame, worker, money, vars
  <1>5. ASSUME NEW h \in Tasks,
               \/ \E p \in Humans : JoinRead(h, p) \/ RollRead(h, p)
               \/ \E p \in Players : FundsLocked(h, p)
               \/ Save(h) \/ ToBetting(h) \/ Move(h) \/ ResetRound(h) \/ BotRead(h)
               \/ EndGame(h)
        PROVE  PaidOnce'
    <2>1. \A k \in Tasks : task'[k].at = "paying" =>
            \/ task'[k] = task[k]
            \/ /\ stored.status = "PLAYING" /\ stored'.status = "SETTLED"
               /\ ~Practice /\ task'[k].snap.pot = Pot
      BY <1>5, PayingStarts
    <2>2. UNCHANGED <<queue, active, committed, paid, payouts>>
      BY <1>5 DEF JoinRead, RollRead, FundsLocked, Save, ToBetting, Move, ResetRound,
         BotRead, EndGame, worker, money
    <2> QED BY <1>1, <1>2, <2>1, <2>2, PaidMatch
  <1>6. CASE Wallets
    BY <1>1, <1>2, <1>6, PaidTake, PaidCommit, PaidOther DEF Wallets
  <1>7. ASSUME NEW h \in Tasks, QueueLock(h) \/ QueueRelease(h) PROVE PaidOnce'
    BY <1>1, <1>2, <1>7, PaidQueueLock, PaidQueueRelease
  <1> QED BY <1>2, <1>4, <1>5, <1>6, <1>7 DEF Next, Handler

-----------------------------------------------------------------------------
(* Sums.  MapThenSumSet(f, S) is g[S] for the function g on the subsets of S *)
(* that takes one element after the other; for a finite S there is such a g. *)
(* The induction is over the strict subsets: a set of subsets without a      *)
(* least one is empty.  The wallet's sums are proved the same way, in        *)
(* PaymentsProofs.                                                           *)

Chosen(s) == CHOOSE x \in s : TRUE

Recur(g, f, S) ==
    g = [s \in SUBSET S |-> IF s = {} THEN 0 ELSE f[Chosen(s)] + g[s \ {Chosen(s)}]]

Total(f, S) == (CHOOSE g : Recur(g, f, S))[S]

LEMMA ChosenIn ==
    ASSUME NEW s, s # {}
    PROVE  Chosen(s) \in s
  BY DEF Chosen

\* Induction over the subsets of a finite set.
LEMMA SubsetInduction ==
    ASSUME NEW S, IsFiniteSet(S), NEW G,
           \A T \in SUBSET S : (\A U \in SUBSET T : U # T => U \in G) => T \in G
    PROVE  \A T \in SUBSET S : T \in G
  <1> SUFFICES ASSUME (SUBSET S) \ G # {} PROVE FALSE
    OBVIOUS
  <1> DEFINE Bad == (SUBSET S) \ G
  <1>1. FiniteSubsetsOf(S) = SUBSET S
    BY FS_FiniteSubsetsOfFinite
  <1>2. IsWellFoundedOn(StrictSubsetOrdering(S), FiniteSubsetsOf(S))
    BY FS_StrictSubsetOrderingWellFounded
  <1>3. IsWellFoundedOn(StrictSubsetOrdering(S), SUBSET S)
    BY <1>1, <1>2
  <1>4. Bad \subseteq SUBSET S /\ Bad # {}
    OBVIOUS
  <1> HIDE DEF Bad
  <1>5. PICK T \in Bad : \A U \in Bad : <<U, T>> \notin StrictSubsetOrdering(S)
    BY <1>3, <1>4, WFMin
  <1>6. \A U \in SUBSET T : U # T => U \in G
    BY <1>5 DEF Bad, StrictSubsetOrdering
  <1> QED BY <1>5, <1>6 DEF Bad

LEMMA RecurAt ==
    ASSUME NEW g, NEW f, NEW S, Recur(g, f, S), NEW T \in SUBSET S
    PROVE  g[T] = IF T = {} THEN 0 ELSE f[Chosen(T)] + g[T \ {Chosen(T)}]
  BY DEF Recur

\* Two such functions agree on the sets whose elements they count alike.
LEMMA RecurUnique ==
    ASSUME NEW S, IsFiniteSet(S), NEW f, NEW e, NEW g, NEW h, NEW T, NEW V,
           Recur(g, f, T), Recur(h, e, V), S \subseteq T, S \subseteq V,
           \A x \in S : f[x] = e[x]
    PROVE  \A U \in SUBSET S : g[U] = h[U]
  <1> DEFINE G == {U \in SUBSET S : g[U] = h[U]}
  <1>1. ASSUME NEW U \in SUBSET S, \A W \in SUBSET U : W # U => W \in G
        PROVE  U \in G
    <2> DEFINE c == Chosen(U)
    <2>1. /\ g[U] = IF U = {} THEN 0 ELSE f[c] + g[U \ {c}]
          /\ h[U] = IF U = {} THEN 0 ELSE e[c] + h[U \ {c}]
      <3>1. U \in SUBSET T /\ U \in SUBSET V
        OBVIOUS
      <3> QED BY <3>1, RecurAt
    <2>2. CASE U # {}
      <3>1. c \in U
        BY <2>2, ChosenIn
      <3>2. U \ {c} \in G
        BY <1>1, <3>1
      <3> QED BY <2>1, <2>2, <3>1, <3>2
    <2> QED BY <2>1, <2>2
  <1> HIDE DEF G
  <1>2. \A U \in SUBSET S : U \in G
    BY <1>1, SubsetInduction
  <1> QED BY <1>2 DEF G

LEMMA RecurExists ==
    ASSUME NEW S, IsFiniteSet(S), NEW f
    PROVE  \E g : Recur(g, f, S)
  <1> DEFINE G == {T \in SUBSET S : \E g : Recur(g, f, T)}
  <1>1. ASSUME NEW T \in SUBSET S, \A U \in SUBSET T : U # T => U \in G
        PROVE  T \in G
    <2> DEFINE h == [s \in SUBSET T |-> IF s = {} THEN 0
                                        ELSE f[Chosen(s)] + Total(f, s \ {Chosen(s)})]
    <2>1. ASSUME NEW s \in SUBSET T, s # {}
          PROVE  h[s \ {Chosen(s)}] = Total(f, s \ {Chosen(s)})
      <3> DEFINE u == s \ {Chosen(s)}
                 g == CHOOSE g : Recur(g, f, u)
                 c == Chosen(u)
                 k == CHOOSE k : Recur(k, f, u \ {c})
      <3>1. u \in SUBSET T /\ u # T
        BY <2>1, ChosenIn
      <3>2. Recur(g, f, u)
        BY <1>1, <3>1
      <3>3. Total(f, u) = g[u]
        BY DEF Total
      <3>4. g[u] = IF u = {} THEN 0 ELSE f[c] + g[u \ {c}]
        BY <3>2, RecurAt
      <3>5. CASE u = {}
        BY <3>1, <3>3, <3>4, <3>5
      <3>6. CASE u # {}
        <4>1. u \ {c} \in SUBSET T /\ u \ {c} # T
          BY <3>1
        <4>2. Recur(k, f, u \ {c})
          BY <1>1, <4>1
        <4>3. Total(f, u \ {c}) = k[u \ {c}]
          BY DEF Total
        <4>4. IsFiniteSet(u \ {c})
          BY <4>1, FS_Subset
        <4>5. g[u \ {c}] = k[u \ {c}]
          <5>1. u \ {c} \subseteq u /\ u \ {c} \in SUBSET (u \ {c})
            OBVIOUS
          <5> HIDE DEF u, g, c, k
          <5> QED BY <3>2, <4>2, <4>4, <5>1, RecurUnique
        <4>6. h[u] = f[c] + Total(f, u \ {c})
          BY <3>1, <3>6
        <4> HIDE DEF u, g, c, k, h
        <4>7. h[u] = Total(f, u)
          BY <3>3, <3>4, <3>6, <4>3, <4>5, <4>6
        <4> QED BY <4>7 DEF u
      <3> QED BY <3>5, <3>6
    <2>2. Recur(h, f, T)
      BY <2>1 DEF Recur
    <2> QED BY <2>2
  <1> HIDE DEF G
  <1>2. S \in G
    BY <1>1, SubsetInduction
  <1> QED BY <1>2 DEF G

\* A sum of naturals is one, and of numbers from 1 on no less than their count.
LEMMA RecurCounts ==
    ASSUME NEW S, IsFiniteSet(S), NEW f \in [S -> Nat], NEW g, Recur(g, f, S)
    PROVE  \A T \in SUBSET S :
             g[T] \in Nat /\ ((\A x \in T : f[x] >= 1) => g[T] >= Cardinality(T))
  <1> DEFINE G == {T \in SUBSET S :
               g[T] \in Nat /\ ((\A x \in T : f[x] >= 1) => g[T] >= Cardinality(T))}
  <1>1. ASSUME NEW T \in SUBSET S, \A U \in SUBSET T : U # T => U \in G
        PROVE  T \in G
    <2> DEFINE c == Chosen(T)
    <2>1. g[T] = IF T = {} THEN 0 ELSE f[c] + g[T \ {c}]
      BY RecurAt
    <2>2. CASE T = {}
      BY <2>1, <2>2, FS_EmptySet
    <2>3. CASE T # {}
      <3>1. c \in T /\ f[c] \in Nat
        BY <2>3, ChosenIn
      <3>2. T \ {c} \in G
        BY <1>1, <3>1
      <3>3. IsFiniteSet(T)
        BY FS_Subset
      <3>4. /\ Cardinality(T \ {c}) = Cardinality(T) - 1
            /\ Cardinality(T) \in Nat
        BY <3>1, <3>3, FS_RemoveElement, FS_CardinalityType
      <3>5. g[T \ {c}] \in Nat /\ g[T] = f[c] + g[T \ {c}]
        BY <2>1, <2>3, <3>2
      <3>6. (\A x \in T : f[x] >= 1) => g[T \ {c}] >= Cardinality(T) - 1 /\ f[c] >= 1
        BY <3>1, <3>2, <3>4
      <3> DEFINE a == f[c]
                 b == g[T \ {c}]
                 d == g[T]
                 n == Cardinality(T)
      <3>7. /\ a \in Nat /\ b \in Nat /\ d = a + b /\ n \in Nat
            /\ (\A x \in T : f[x] >= 1) => b >= n - 1 /\ a >= 1
        BY <3>1, <3>4, <3>5, <3>6
      <3> HIDE DEF a, b, d, n, c
      <3>8. d \in Nat /\ ((\A x \in T : f[x] >= 1) => d >= n)
        BY <3>7
      <3> QED BY <3>8 DEF d, n
    <2> QED BY <2>2, <2>3
  <1> HIDE DEF G
  <1>2. \A T \in SUBSET S : T \in G
    BY <1>1, SubsetInduction
  <1> QED BY <1>2 DEF G

\* What the wallets took for the match.
LEMMA TakenSum ==
    ASSUME TypeOK
    PROVE  LET sum == MapThenSumSet(LAMBDA p : taken[p], Players)
           IN  /\ sum \in Nat
               /\ (\A p \in Players : taken[p] >= 1) => sum >= Cardinality(Players)
  <1>1. IsFiniteSet(Players)
    BY MatchAssumption
  <1>2. PICK t : t = taken
    OBVIOUS
  <1>3. t \in [Players -> Nat]
    BY <1>2 DEF TypeOK
  <1>4. \E g : Recur(g, t, Players)
    BY <1>1, RecurExists
  <1>5. \E g : g = [s \in SUBSET Players |-> IF s = {} THEN 0
          ELSE taken[CHOOSE x \in s : TRUE] + g[s \ {CHOOSE x \in s : TRUE}]]
    BY <1>2, <1>4 DEF Recur, Chosen
  <1>6. PICK g : /\ g = [s \in SUBSET Players |-> IF s = {} THEN 0
                        ELSE taken[CHOOSE x \in s : TRUE] + g[s \ {CHOOSE x \in s : TRUE}]]
                 /\ MapThenSumSet(LAMBDA p : taken[p], Players) = g[Players]
    <2> QED BY ONLY <1>5 DEF MapThenSumSet, MapThenFoldSet
  <1>7. Recur(g, t, Players)
    BY <1>2, <1>6 DEF Recur, Chosen
  <1>8. /\ g[Players] \in Nat
        /\ (\A p \in Players : t[p] >= 1) => g[Players] >= Cardinality(Players)
    BY <1>1, <1>3, <1>7, RecurCounts
  <1> QED BY <1>2, <1>6, <1>8

\* While handlers run one at a time and the process lives, the wallet pays out no
\* more than the bets it took: one payout is made, of the pot, and by then every
\* player's bet has been taken.
THEOREM MatchPaidWithinBets ==
    ASSUME Serial
    PROVE  Spec => []PaidWithinBets
  <1>1. Init => AheadInv /\ PaidInv
    <2> SUFFICES ASSUME Init PROVE AheadInv /\ PaidInv
      OBVIOUS
    <2>1. DOMAIN queue = {} /\ active.kind = "NONE" /\ \A h \in Tasks : task[h].at = "idle"
      BY DEF Init, NoJob, Idle
    <2>2. ~Paying /\ ~Queued /\ ~Serving
      BY <2>1 DEF Paying, Queued, Serving
    <2>3. PaidOnce
      BY <2>1, <2>2 DEF PaidOnce, Init
    <2> QED BY <2>1, <2>3 DEF AheadInv, Ahead, PaidInv
  <1>2. FundedInv /\ AheadInv /\ [Next]_vars => AheadInv'
    BY NextAhead
  <1>3. FundedInv /\ FundedInv' /\ AheadInv /\ PaidInv /\ [Next]_vars => PaidInv'
    BY NextPaid
  <1>4. FundedInv /\ PaidInv => PaidWithinBets
    <2> SUFFICES ASSUME FundedInv, PaidOnce
                 PROVE  paid <= Bet * MapThenSumSet(LAMBDA p : taken[p], Players)
      BY DEF PaidInv, PaidWithinBets
    <2> DEFINE sum == MapThenSumSet(LAMBDA p : taken[p], Players)
               n == Cardinality(Players)
    <2>1. /\ sum \in Nat /\ Bet \in Nat /\ n \in Nat
          /\ (\A p \in Players : taken[p] >= 1) => sum >= n
      BY TakenSum, MatchAssumption, FS_CardinalityType DEF FundedInv
    <2>2. CASE paid = 0
      <3> HIDE DEF sum
      <3>1. \A b, k \in Nat : 0 <= b * k
        OBVIOUS
      <3> QED BY <2>1, <2>2, <3>1 DEF sum
    <2>3. CASE payouts = 1 /\ paid = Pot
      <3>1. stored.status = "SETTLED" /\ ~Practice
        BY <2>3 DEF PaidOnce
      <3>2. \A p \in Players : taken[p] >= 1
        BY <3>1 DEF FundedInv, Funded, NoState
      <3>3. \A b, k, m \in Nat : k <= m => b * k <= b * m
        OBVIOUS
      <3> HIDE DEF sum, n
      <3>4. Bet * n <= Bet * sum
        BY <2>1, <3>2, <3>3
      <3> QED BY <2>3, <3>4 DEF Pot, sum, n
    <2> QED BY <2>2, <2>3 DEF PaidOnce
  <1> QED BY <1>1, <1>2, <1>3, <1>4, FundedAlways, PTL DEF Spec

=============================================================================
