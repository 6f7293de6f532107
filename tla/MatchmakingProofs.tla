----------------------------- MODULE MatchmakingProofs ------------------------
(***************************************************************************)
(* Theorems about the two ways to be matched.  MatchQueue, for any         *)
(* requests, tiers, order of the worker's queues and number of failures:   *)
(* it implements PairingLines, and it conserves the requests.  Lobby, for  *)
(* any users, codes, calls and sockets: a lobby is closed by the first     *)
(* join that is stored.                                                    *)
(***************************************************************************)
EXTENDS MatchQueue, Lobby, SequenceTheorems, FiniteSetTheorems, TLAPS

(* Facts about sequences with one or two elements before them. *)

LEMMA PopHead ==
    ASSUME NEW S, NEW s \in Seq(S), s # <<>>
    PROVE  /\ Head(s) \in S /\ Tail(s) \in Seq(S)
           /\ <<Head(s)>> \o Tail(s) = s
  OBVIOUS

LEMMA PopHeadAgain ==
    ASSUME NEW S, NEW a \in S, NEW s \in Seq(S), s # <<>>
    PROVE  <<a, Head(s)>> \o Tail(s) = <<a>> \o s
  OBVIOUS

LEMMA BehindOne ==
    ASSUME NEW S, NEW a \in S, NEW s \in Seq(S)
    PROVE  /\ Len(<<a>> \o s) >= 1
           /\ Tail(<<a>> \o s) = s
           /\ <<a>> \o s \in Seq(S)
  OBVIOUS

LEMMA BehindTwo ==
    ASSUME NEW S, NEW a \in S, NEW b \in S, NEW s \in Seq(S)
    PROVE  /\ Len(<<a, b>> \o s) >= 2
           /\ (<<a, b>> \o s)[1] = a /\ (<<a, b>> \o s)[2] = b
           /\ Tail(Tail(<<a, b>> \o s)) = s
  OBVIOUS

LEMMA AppendBehind ==
    ASSUME NEW S, NEW h \in Seq(S), NEW s \in Seq(S), NEW r \in S
    PROVE  h \o Append(s, r) = Append(h \o s, r)
  OBVIOUS

-----------------------------------------------------------------------------
(* What the worker holds at each point of its turn.                          *)

Holding ==
    \/ worker = Looking /\ first = None /\ second = None
    \/ /\ worker \in [at: {"lpop", "wait", "requeue"}, key: Keys]
       /\ first \in Requests /\ second = None
    \/ /\ worker \in [at: {"create"}, key: Keys]
       /\ first \in Requests /\ second \in Requests

ServeInv ==
    /\ line \in [Keys -> Seq(Requests)]
    /\ queues \in Seq(Keys)
    /\ Holding

LEMMA KeyIsNone == Looking \notin [at: {"lpop", "wait", "requeue", "create"}, key: Keys]
  BY MatchQueueAssumption DEF Looking

LEMMA ServeInvInductive == Spec => []ServeInv
  <1>1. Init => ServeInv
    BY MatchQueueAssumption DEF Init, ServeInv, Holding
  <1>2. ServeInv /\ [Next]_vars => ServeInv'
    <2> SUFFICES ASSUME ServeInv, [Next]_vars PROVE ServeInv'
      OBVIOUS
    <2> USE DEF ServeInv
    <2>1. ASSUME NEW r \in Requests, NEW t \in Tiers, Push(r, t) PROVE ServeInv'
      <3>1. t \in Keys
        BY DEF Keys
      <3>2. line' \in [Keys -> Seq(Requests)]
        BY <2>1, <3>1 DEF Push
      <3> QED BY <2>1, <3>2 DEF Push, loop, Holding
    <2>2. ASSUME NEW r \in Requests, ScheduleTimeout(r) PROVE ServeInv'
      BY <2>2 DEF ScheduleTimeout, loop, Holding
    <2>3. CASE PopFirst
      <3>1. PICK i \in DOMAIN queues :
              /\ line[queues[i]] # <<>>
              /\ first' = Head(line[queues[i]])
              /\ line' = [line EXCEPT ![queues[i]] = Tail(@)]
              /\ worker' = [at |-> "lpop", key |-> queues[i]]
        BY <2>3 DEF PopFirst
      <3>2. queues[i] \in Keys
        BY <3>1
      <3>3. Head(line[queues[i]]) \in Requests /\ Tail(line[queues[i]]) \in Seq(Requests)
        BY <3>1, <3>2, PopHead
      <3>4. second = None
        BY <2>3, KeyIsNone DEF PopFirst, Holding
      <3> QED BY <2>3, <3>1, <3>2, <3>3, <3>4 DEF PopFirst, Holding
    <2>4. CASE PopSecond
      <3>1. worker.key \in Keys /\ worker \in [at: {"lpop", "wait"}, key: Keys]
        BY <2>4 DEF PopSecond, Holding, Looking
      <3>2. Head(line[worker.key]) \in Requests /\ Tail(line[worker.key]) \in Seq(Requests)
        BY <2>4, <3>1, PopHead DEF PopSecond
      <3>3. first \in Requests
        BY <2>4 DEF PopSecond, Holding, Looking
      <3> QED BY <2>4, <3>1, <3>2, <3>3 DEF PopSecond, Holding
    <2>5. CASE NoSecond
      BY <2>5 DEF NoSecond, Holding, Looking
    <2>6. CASE Requeue
      <3>1. worker.key \in Keys /\ first \in Requests /\ second = None
        BY <2>6 DEF Requeue, Holding, Looking
      <3>2. <<first>> \o line[worker.key] \in Seq(Requests)
        BY <3>1, BehindOne
      <3>3. PICK i \in DOMAIN queues :
              queues' = Append(RemoveAt(queues, i), worker.key)
        BY <2>6 DEF Requeue, Rotate
      <3>4. RemoveAt(queues, i) \in Seq(Keys)
        BY DEF RemoveAt
      <3> QED BY <2>6, <3>1, <3>2, <3>3, <3>4 DEF Requeue, Holding
    <2>7. CASE CreateMatch
      BY <2>7 DEF CreateMatch, Holding
    <2>8. CASE TurnFails
      BY <2>8 DEF TurnFails, Holding
    <2>9. CASE Crash
      BY <2>9, MatchQueueAssumption DEF Crash, Holding
    <2>10. CASE UNCHANGED vars
      BY <2>10 DEF vars, Holding
    <2> QED BY <2>1, <2>2, <2>3, <2>4, <2>5, <2>6, <2>7, <2>8, <2>9, <2>10 DEF Next, Loop
  <1> QED BY <1>1, <1>2, PTL DEF Spec

\* What a rotation does: the keys stay the same, each as often as before.
LEMMA RotationKeeps ==
    ASSUME NEW S, NEW s \in Seq(S), NEW i \in 1..Len(s)
    PROVE  LET n == Append(RemoveAt(s, i), s[i])
           IN  Len(n) = Len(s) /\ ToSet(n) = ToSet(s)
  <1> DEFINE a == SubSeq(s, 1, i - 1)
             b == SubSeq(s, i + 1, Len(s))
             c == a \o b
             n == Append(c, s[i])
  <1>1. /\ a \in Seq(S) /\ Len(a) = i - 1
        /\ \A j \in 1..(i - 1) : a[j] = s[j]
    OBVIOUS
  <1>2. /\ b \in Seq(S) /\ Len(b) = Len(s) - i
        /\ \A j \in 1..(Len(s) - i) : b[j] = s[i + j]
    OBVIOUS
  <1> HIDE DEF a, b
  <1>3. /\ c \in Seq(S) /\ Len(c) = Len(s) - 1
        /\ \A j \in 1..(i - 1) : c[j] = s[j]
        /\ \A j \in i..(Len(s) - 1) : c[j] = s[j + 1]
    <2>1. /\ c \in Seq(S) /\ Len(c) = Len(a) + Len(b)
          /\ \A j \in 1..(Len(a) + Len(b)) :
               c[j] = IF j <= Len(a) THEN a[j] ELSE b[j - Len(a)]
      BY <1>1, <1>2, ConcatProperties
    <2> HIDE DEF c
    <2>2. ASSUME NEW j \in i..(Len(s) - 1) PROVE c[j] = s[j + 1]
      <3>1. /\ j \in 1..(Len(a) + Len(b)) /\ ~(j <= Len(a))
            /\ j - Len(a) \in 1..(Len(s) - i) /\ i + (j - Len(a)) = j + 1
        BY <1>1, <1>2
      <3> QED BY <1>2, <2>1, <3>1
    <2>3. ASSUME NEW j \in 1..(i - 1) PROVE c[j] = s[j]
      <3>1. j \in 1..(Len(a) + Len(b)) /\ j <= Len(a)
        BY <1>1, <1>2
      <3> QED BY <1>1, <2>1, <3>1
    <2> QED BY <1>1, <1>2, <2>1, <2>2, <2>3
  <1> HIDE DEF c
  <1>4. /\ n \in Seq(S) /\ Len(n) = Len(s) /\ n[Len(s)] = s[i]
        /\ \A j \in 1..(Len(s) - 1) : n[j] = c[j]
    BY <1>3
  <1> HIDE DEF n
  <1>5. ASSUME NEW j \in 1..Len(n) PROVE \E k \in 1..Len(s) : n[j] = s[k]
    <2>1. CASE j <= i - 1
      BY <1>3, <1>4, <2>1
    <2>2. CASE i - 1 < j /\ j < Len(s)
      <3>1. n[j] = s[j + 1] /\ j + 1 \in 1..Len(s)
        BY <1>3, <1>4, <2>2
      <3> QED BY <3>1
    <2>3. CASE j = Len(s)
      BY <1>4, <2>3
    <2> QED BY <1>4, <2>1, <2>2, <2>3
  <1>6. ASSUME NEW k \in 1..Len(s) PROVE \E j \in 1..Len(n) : n[j] = s[k]
    <2>1. CASE k < i
      BY <1>3, <1>4, <2>1
    <2>2. CASE k = i
      <3>1. Len(s) \in 1..Len(n)
        BY <1>4
      <3> QED BY <1>4, <2>2, <3>1
    <2>3. CASE k > i
      <3>1. k - 1 \in i..(Len(s) - 1) /\ k - 1 \in 1..(Len(s) - 1) /\ (k - 1) + 1 = k
        BY <2>3
      <3>2. n[k - 1] = s[k] /\ k - 1 \in 1..Len(n)
        BY <1>3, <1>4, <3>1
      <3> QED BY <3>2
    <2> QED BY <2>1, <2>2, <2>3
  <1>7. ToSet(n) = ToSet(s)
    <2>1. DOMAIN n = 1..Len(n) /\ DOMAIN s = 1..Len(s)
      BY <1>4
    <2>2. \A x : x \in ToSet(n) <=> \E j \in 1..Len(n) : x = n[j]
      BY <2>1 DEF ToSet
    <2>3. \A x : x \in ToSet(s) <=> \E k \in 1..Len(s) : x = s[k]
      BY <2>1 DEF ToSet
    <2>4. \A x : x \in ToSet(n) <=> x \in ToSet(s)
      BY <1>5, <1>6, <2>2, <2>3, Zenon
    <2> QED BY <2>4
  <1>8. n = Append(RemoveAt(s, i), s[i])
    BY DEF n, c, a, b, RemoveAt
  <1> QED BY <1>4, <1>7, <1>8

\* The lists hold requests, the rotation the served queues, the worker's hand
\* what its turn has popped, for any requests, tiers, queues and failures.
THEOREM MatchQueueTypeOK == Spec => []TypeOK
  <1> DEFINE Rest ==
          /\ timers \subseteq Requests
          /\ call \in [Requests -> {"idle", "pushed", "queued", "died"}]
          /\ ToSet(queues) = ToSet(Served) /\ Len(queues) = Len(Served)
          /\ worker = Looking \/ worker.key \in ToSet(Served)
          /\ matches \subseteq Requests \X Requests
          /\ failures \in Nat
  <1>1. Init => Rest
    BY MatchQueueAssumption DEF Init
  <1>2. ServeInv /\ Rest /\ [Next]_vars => Rest'
    <2> SUFFICES ASSUME ServeInv, Rest, [Next]_vars PROVE Rest'
      OBVIOUS
    <2>1. ASSUME NEW r \in Requests, NEW t \in Tiers, Push(r, t) PROVE Rest'
      BY <2>1 DEF Push, loop, Looking
    <2>2. ASSUME NEW r \in Requests, ScheduleTimeout(r) PROVE Rest'
      BY <2>2 DEF ScheduleTimeout, loop, Looking
    <2>3. CASE PopFirst
      <3>1. PICK i \in DOMAIN queues : worker' = [at |-> "lpop", key |-> queues[i]]
        BY <2>3 DEF PopFirst
      <3>2. queues[i] \in ToSet(Served)
        BY <3>1 DEF ToSet
      <3> QED BY <2>3, <3>1, <3>2 DEF PopFirst
    <2>4. CASE PopSecond \/ NoSecond
      <3>1. worker \in [at: {"lpop", "wait"}, key: Keys]
        BY <2>4 DEF PopSecond, NoSecond, ServeInv, Holding, Looking
      <3>2. worker'.key = worker.key /\ worker # Looking
        BY <2>4, <3>1, KeyIsNone DEF PopSecond, NoSecond, Looking
      <3> QED BY <2>4, <3>2 DEF PopSecond, NoSecond
    <2>5. CASE Requeue
      <3>1. PICK i \in DOMAIN queues :
              queues[i] = worker.key /\ queues' = Append(RemoveAt(queues, i), worker.key)
        BY <2>5 DEF Requeue, Rotate
      <3>2. Len(queues') = Len(queues) /\ ToSet(queues') = ToSet(queues)
        BY <3>1, RotationKeeps DEF ServeInv
      <3> QED BY <2>5, <3>2 DEF Requeue, Looking
    <2>6. CASE CreateMatch
      <3>1. first \in Requests /\ second \in Requests
        BY <2>6 DEF CreateMatch, ServeInv, Holding, Looking
      <3> QED BY <2>6, <3>1 DEF CreateMatch, Looking
    <2>7. CASE TurnFails
      BY <2>7 DEF TurnFails, Looking
    <2>8. CASE Crash
      BY <2>8 DEF Crash, Looking
    <2>9. CASE UNCHANGED vars
      BY <2>9 DEF vars, loop, Looking
    <2> QED BY <2>1, <2>2, <2>3, <2>4, <2>5, <2>6, <2>7, <2>8, <2>9 DEF Next, Loop
  <1>3. ServeInv /\ Rest => TypeOK
    <2> SUFFICES ASSUME ServeInv, Rest PROVE TypeOK
      OBVIOUS
    <2>1. CASE worker = Looking
      BY <2>1, MatchQueueAssumption DEF ServeInv, Holding, TypeOK, Looking
    <2>2. CASE worker # Looking
      BY <2>2, MatchQueueAssumption DEF ServeInv, Holding, TypeOK
    <2> QED BY <2>1, <2>2
  <1> QED BY <1>1, <1>2, <1>3, ServeInvInductive, PTL DEF Spec

-----------------------------------------------------------------------------
(* Every step is one of PairingLines or leaves its lines alone.              *)

\* What stands in each line, when the worker holds nothing, one player or two.
LEMMA StandingIdle ==
    ASSUME ServeInv, worker = Looking
    PROVE  /\ \A k \in Keys : Hand(k) = <<>>
           /\ Waiting = line
  <1>1. \A k \in Keys : Hand(k) = <<>>
    BY MatchQueueAssumption DEF Hand, Looking
  <1>2. \A k \in Keys : Hand(k) \o line[k] = line[k]
    BY <1>1, ConcatEmptySeq DEF ServeInv
  <1> QED BY <1>1, <1>2 DEF Waiting, ServeInv

LEMMA StandingHeld ==
    ASSUME ServeInv, worker # Looking
    PROVE  /\ worker.key \in Keys /\ first \in Requests
           /\ Waiting = [line EXCEPT ![worker.key] = Hand(worker.key) \o @]
           /\ Hand(worker.key) = IF second = None THEN <<first>> ELSE <<first, second>>
           /\ second \in Requests <=> second # None
           /\ worker.at = "create" <=> second # None
  <1>1. worker.key \in Keys /\ first \in Requests
    BY DEF ServeInv, Holding
  <1>2. \A k \in Keys : k # worker.key => Hand(k) \o line[k] = line[k]
    BY ConcatEmptySeq DEF Hand, ServeInv
  <1>3. /\ second \in Requests <=> second # None
        /\ worker.at = "create" <=> second # None
    BY MatchQueueAssumption DEF ServeInv, Holding
  <1> QED BY <1>1, <1>2, <1>3 DEF Waiting, ServeInv, Hand

LEMMA HandType == ServeInv => \A k \in Keys : Hand(k) \in Seq(Requests)
  <1> SUFFICES ASSUME ServeInv, NEW k \in Keys PROVE Hand(k) \in Seq(Requests)
    OBVIOUS
  <1>1. CASE worker.key # k
    BY <1>1 DEF Hand
  <1>2. CASE worker.key = k
    <2>1. worker # Looking
      BY <1>2, MatchQueueAssumption DEF Looking
    <2>2. first \in Requests /\ (second \in Requests <=> second # None)
      BY <2>1, StandingHeld
    <2>3. CASE second = None
      BY <1>2, <2>2, <2>3 DEF Hand
    <2>4. CASE second # None
      BY <1>2, <2>2, <2>4 DEF Hand
    <2> QED BY <2>3, <2>4
  <1> QED BY <1>1, <1>2

\* A player who is held is the first of the line, two are its first two.
LEMMA HeldAreFirst ==
    ASSUME ServeInv, worker # Looking
    PROVE  LET w == Waiting[worker.key]
           IN  /\ second = None => /\ Len(w) >= 1
                                   /\ line = [Waiting EXCEPT ![worker.key] = Tail(w)]
               /\ second # None => /\ Len(w) >= 2
                                   /\ w[1] = first /\ w[2] = second
                                   /\ line = [Waiting EXCEPT ![worker.key] = Tail(Tail(w))]
  <1> DEFINE k == worker.key
  <1>1. k \in Keys /\ first \in Requests /\ line[k] \in Seq(Requests)
    BY StandingHeld DEF ServeInv
  <1>2. Waiting = [line EXCEPT ![k] = Hand(k) \o @] /\ Waiting[k] = Hand(k) \o line[k]
    BY StandingHeld, <1>1 DEF ServeInv
  <1>3. CASE second = None
    <2>1. Hand(k) = <<first>>
      BY StandingHeld, <1>3
    <2>2. Len(<<first>> \o line[k]) >= 1 /\ Tail(<<first>> \o line[k]) = line[k]
      BY <1>1, BehindOne
    <2>3. Len(Waiting[k]) >= 1 /\ Tail(Waiting[k]) = line[k]
      BY <1>2, <2>1, <2>2
    <2> QED BY <1>1, <1>2, <1>3, <2>3 DEF ServeInv
  <1>4. CASE second # None
    <2>1. Hand(k) = <<first, second>> /\ second \in Requests
      BY StandingHeld, <1>4
    <2>2. /\ Len(<<first, second>> \o line[k]) >= 2
          /\ (<<first, second>> \o line[k])[1] = first
          /\ (<<first, second>> \o line[k])[2] = second
          /\ Tail(Tail(<<first, second>> \o line[k])) = line[k]
      <3> HIDE DEF k
      <3> QED BY <1>1, <2>1, BehindTwo
    <2>3. /\ Len(Waiting[k]) >= 2 /\ Waiting[k][1] = first /\ Waiting[k][2] = second
          /\ Tail(Tail(Waiting[k])) = line[k]
      BY <1>2, <2>1, <2>2
    <2> QED BY <1>1, <1>2, <1>4, <2>3 DEF ServeInv
  <1> QED BY <1>3, <1>4

\* A turn that fails, or a crash, loses at most whom the worker held.
LEMMA DroppedAreLost ==
    ASSUME ServeInv, ServeInv', worker' = Looking, line' = line, matches' = matches
    PROVE  (\E k \in Keys : Lines!Lose(k)) \/ UNCHANGED <<Waiting, matches>>
  <1>1. Waiting' = line
    <2>1. (ServeInv /\ worker = Looking => Waiting = line)'
      BY StandingIdle, PTL
    <2> QED BY <2>1
  <1>2. CASE worker = Looking
    BY <1>1, <1>2, StandingIdle
  <1>3. CASE worker # Looking
    <2>1. worker.key \in Keys
      BY <1>3, StandingHeld
    <2>2. Lines!Lose(worker.key)
      BY <1>1, <1>3, HeldAreFirst DEF Lines!Lose
    <2> QED BY <2>1, <2>2
  <1> QED BY <1>2, <1>3

\* Popping a player, waiting for the second and putting the first back leave the
\* lines as the players see them alone.
LEMMA PopFirstKeeps ==
    ASSUME ServeInv, ServeInv', PopFirst
    PROVE  UNCHANGED <<Waiting, matches>>
  <1>1. PICK k \in Keys :
          /\ line[k] # <<>>
          /\ first' = Head(line[k])
          /\ line' = [line EXCEPT ![k] = Tail(@)]
          /\ worker' = [at |-> "lpop", key |-> k]
    <2>1. PICK i \in DOMAIN queues :
            /\ line[queues[i]] # <<>>
            /\ first' = Head(line[queues[i]])
            /\ line' = [line EXCEPT ![queues[i]] = Tail(@)]
            /\ worker' = [at |-> "lpop", key |-> queues[i]]
      BY DEF PopFirst
    <2>2. queues[i] \in Keys
      BY DEF ServeInv
    <2> QED BY <2>1, <2>2, Zenon
  <1>2. second' = None /\ Waiting = line
    BY StandingIdle, KeyIsNone DEF PopFirst, ServeInv, Holding
  <1>3. /\ Hand(k)' = <<Head(line[k])>>
        /\ \A q \in Keys \ {k} : Hand(q)' = <<>>
    BY <1>1, <1>2 DEF Hand
  <1>4. Hand(k)' \o line'[k] = line[k]
    <2>1. line'[k] = Tail(line[k])
      BY <1>1 DEF ServeInv
    <2>2. <<Head(line[k])>> \o Tail(line[k]) = line[k]
      BY <1>1, PopHead DEF ServeInv
    <2> QED BY <1>3, <2>1, <2>2
  <1>5. \A q \in Keys \ {k} : Hand(q)' \o line'[q] = line[q]
    <2> TAKE q \in Keys \ {k}
    <2>1. line'[q] = line[q] /\ line[q] \in Seq(Requests)
      BY <1>1 DEF ServeInv
    <2> QED BY <1>3, <2>1, ConcatEmptySeq
  <1>6. Waiting' = line
    <2>1. \A q \in Keys : Hand(q)' \o line'[q] = line[q]
      BY <1>4, <1>5
    <2> QED BY <2>1 DEF ServeInv, Waiting
  <1> QED BY <1>2, <1>6 DEF PopFirst

LEMMA PopSecondKeeps ==
    ASSUME ServeInv, ServeInv', PopSecond
    PROVE  UNCHANGED <<Waiting, matches>>
  <1>1. PICK k \in Keys :
          /\ worker \in [at: {"lpop", "wait"}, key: Keys] /\ worker.key = k
    BY DEF PopSecond, ServeInv, Holding, Looking
  <1>2. /\ first \in Requests /\ second = None
        /\ line[k] \in Seq(Requests) /\ line[k] # <<>>
        /\ worker'.key = k /\ first' = first
        /\ second' = Head(line[k]) /\ second' # None
        /\ line' = [line EXCEPT ![k] = Tail(@)]
    <2>1. first \in Requests /\ second = None
      BY <1>1 DEF PopSecond, ServeInv, Holding, Looking
    <2>2. line[k] \in Seq(Requests) /\ Head(line[k]) \in Requests
      BY <1>1, PopHead DEF PopSecond, ServeInv
    <2> QED BY <1>1, <2>1, <2>2, MatchQueueAssumption DEF PopSecond
  <1>3. /\ Hand(k) = <<first>> /\ Hand(k)' = <<first, Head(line[k])>>
        /\ \A q \in Keys \ {k} : Hand(q) = <<>> /\ Hand(q)' = <<>>
    BY <1>1, <1>2 DEF Hand
  <1>4. Hand(k)' \o line'[k] = Hand(k) \o line[k]
    <2>1. line'[k] = Tail(line[k])
      BY <1>2 DEF ServeInv
    <2>2. <<first, Head(line[k])>> \o Tail(line[k]) = <<first>> \o line[k]
      BY <1>2, PopHeadAgain
    <2> QED BY <1>3, <2>1, <2>2
  <1>5. \A q \in Keys : Hand(q)' \o line'[q] = Hand(q) \o line[q]
    <2>1. \A q \in Keys \ {k} : line'[q] = line[q]
      BY <1>2 DEF ServeInv
    <2> QED BY <1>3, <1>4, <2>1
  <1>6. Waiting' = Waiting
    BY <1>5 DEF Waiting
  <1> QED BY <1>6 DEF PopSecond

LEMMA RequeueKeeps ==
    ASSUME ServeInv, ServeInv', Requeue
    PROVE  UNCHANGED <<Waiting, matches>>
  <1>1. worker.key \in Keys /\ worker # Looking /\ second = None
    BY DEF Requeue, ServeInv, Holding, Looking
  <1>2. Waiting = [line EXCEPT ![worker.key] = <<first>> \o @]
    BY <1>1, StandingHeld
  <1>3. Waiting' = line'
    <2>1. worker' = Looking
      BY DEF Requeue
    <2>2. (ServeInv /\ worker = Looking => Waiting = line)'
      BY StandingIdle, PTL
    <2> QED BY <2>1, <2>2 DEF Looking
  <1> QED BY <1>2, <1>3 DEF Requeue

LEMMA PushArrives ==
    ASSUME ServeInv, NEW r \in Requests, NEW t \in Tiers, Push(r, t)
    PROVE  Lines!Arrive(r, t)
  <1>1. t \in Keys
    BY DEF Keys
  <1>2. \A k \in Keys : Hand(k)' = Hand(k) /\ Hand(k) \in Seq(Requests)
    <2> TAKE k \in Keys
    <2>1. Hand(k)' = Hand(k)
      BY DEF Push, loop, Hand
    <2>2. Hand(k) \in Seq(Requests)
      BY HandType
    <2> QED BY <2>1, <2>2
  <1>3. Hand(t) \o Append(line[t], r) = Append(Hand(t) \o line[t], r)
    BY <1>1, <1>2, AppendBehind DEF ServeInv
  <1>4. Waiting' = [k \in Keys |-> Hand(k) \o line'[k]]
    BY <1>2 DEF Waiting
  <1>5. line' = [line EXCEPT ![t] = Append(@, r)]
    BY DEF Push
  <1>6. \A k \in Keys : Hand(k) \o line'[k] =
                          IF k = t THEN Append(Waiting[t], r) ELSE Waiting[k]
    BY <1>1, <1>3, <1>5 DEF ServeInv, Waiting
  <1>7. Waiting' = [Waiting EXCEPT ![t] = Append(@, r)]
    BY <1>1, <1>4, <1>6 DEF Waiting
  <1> QED BY <1>7 DEF Push, Lines!Arrive

LEMMA CreatePairs ==
    ASSUME ServeInv, ServeInv', CreateMatch
    PROVE  worker.key \in Keys /\ Lines!Pair(worker.key)
  <1>1. worker # Looking /\ second # None
    BY MatchQueueAssumption DEF CreateMatch, ServeInv, Holding, Looking
  <1>2. Waiting' = line
    <2>1. worker' = Looking /\ line' = line
      BY DEF CreateMatch
    <2>2. (ServeInv /\ worker = Looking => Waiting = line)'
      BY StandingIdle, PTL
    <2> QED BY <2>1, <2>2 DEF Looking
  <1>3. worker.key \in Keys
    BY <1>1, StandingHeld
  <1>4. LET w == Waiting[worker.key]
        IN  /\ Len(w) >= 2 /\ w[1] = first /\ w[2] = second
            /\ line = [Waiting EXCEPT ![worker.key] = Tail(Tail(w))]
    BY <1>1, HeldAreFirst
  <1> QED BY <1>2, <1>3, <1>4 DEF CreateMatch, Lines!Pair

\* Each tier is first come, first served: the worker's popping, waiting, putting
\* back, failing and starting again implements one line for each tier.
THEOREM MatchQueueServesInOrder == Spec => ServesInOrder
  <1>1. Init => Lines!Init
    <2> SUFFICES ASSUME Init PROVE Lines!Init
      OBVIOUS
    <2>1. \A k \in Keys : Hand(k) \o line[k] = <<>>
      BY MatchQueueAssumption DEF Init, Hand, Looking
    <2> QED BY <2>1 DEF Init, Lines!Init, Waiting
  <1>2. ServeInv /\ ServeInv' /\ [Next]_vars => [Lines!Next]_<<Waiting, matches>>
    <2> SUFFICES ASSUME ServeInv, ServeInv', [Next]_vars
                 PROVE  Lines!Next \/ UNCHANGED <<Waiting, matches>>
      OBVIOUS
    <2>1. ASSUME NEW r \in Requests, NEW t \in Tiers, Push(r, t) PROVE Lines!Next
      BY <2>1, PushArrives DEF Lines!Next, Keys
    <2>2. ASSUME NEW r \in Requests, ScheduleTimeout(r) PROVE UNCHANGED <<Waiting, matches>>
      BY <2>2 DEF ScheduleTimeout, loop, Waiting, Hand
    <2>3. CASE PopFirst
      BY <2>3, PopFirstKeeps
    <2>4. CASE PopSecond
      BY <2>4, PopSecondKeeps
    <2>5. CASE NoSecond
      <3>1. worker'.key = worker.key
        BY <2>5 DEF NoSecond, ServeInv, Holding, Looking
      <3> QED BY <2>5, <3>1 DEF NoSecond, Waiting, Hand
    <2>6. CASE Requeue
      BY <2>6, RequeueKeeps
    <2>7. CASE CreateMatch
      BY <2>7, CreatePairs DEF Lines!Next
    <2>8. CASE TurnFails \/ Crash
      <3>1. worker' = Looking /\ line' = line /\ matches' = matches
        BY <2>8 DEF TurnFails, Crash
      <3> QED BY <3>1, DroppedAreLost DEF Lines!Next
    <2>9. CASE UNCHANGED vars
      BY <2>9 DEF vars, Waiting, Hand
    <2> QED BY <2>1, <2>2, <2>3, <2>4, <2>5, <2>6, <2>7, <2>8, <2>9 DEF Next, Loop
  <1> QED BY <1>1, <1>2, ServeInvInductive, PTL DEF Spec, ServesInOrder, Lines!Spec

-----------------------------------------------------------------------------
(* Conservation.  It is shown of the lines as the players see them, on which *)
(* only an arrival, a pairing and a loss do anything.                        *)

Standing(r) == \E k \in Keys : \E i \in 1..Len(Waiting[k]) : Waiting[k][i] = r
Matched(r) == \E m \in matches : r \in {m[1], m[2]}
Lost == {r \in Requests : call[r] # "idle" /\ ~Standing(r) /\ ~Matched(r)}

LinesInv ==
    /\ Waiting \in [Keys -> Seq(Requests)]
    /\ \A k, q \in Keys : \A i \in 1..Len(Waiting[k]), j \in 1..Len(Waiting[q]) :
         Waiting[k][i] = Waiting[q][j] => k = q /\ i = j
    /\ \A r \in Requests : Standing(r) => call[r] # "idle"

MatchesInv ==
    /\ \A m \in matches :
         /\ m[1] \in Requests /\ m[2] \in Requests /\ m[1] # m[2]
         /\ m = <<m[1], m[2]>>
         /\ \A r \in {m[1], m[2]} : call[r] # "idle" /\ ~Standing(r)
    /\ \A m, n \in matches : {m[1], m[2]} \cap {n[1], n[2]} # {} => m = n

LossInv ==
    /\ failures \in Nat
    /\ IsFiniteSet(Lost) /\ Cardinality(Lost) <= 2 * failures

CallInv == call \in [Requests -> {"idle", "pushed", "queued", "died"}]

ConservedInv == CallInv /\ LinesInv /\ MatchesInv /\ LossInv

\* The lines keep their type and a line loses the n requests at its front.
Drops(k, n) ==
    /\ Waiting' \in [Keys -> Seq(Requests)]
    /\ \A q \in Keys \ {k} : Waiting'[q] = Waiting[q]
    /\ Len(Waiting[k]) >= n /\ Len(Waiting'[k]) = Len(Waiting[k]) - n
    /\ \A i \in 1..Len(Waiting'[k]) : Waiting'[k][i] = Waiting[k][i + n]

Ahead(k, n) == {Waiting[k][i] : i \in 1..n}

LEMMA ServeStanding == ServeInv => Waiting \in [Keys -> Seq(Requests)]
  <1> SUFFICES ASSUME ServeInv PROVE Waiting \in [Keys -> Seq(Requests)]
    OBVIOUS
  <1>1. ASSUME NEW k \in Keys PROVE Hand(k) \o line[k] \in Seq(Requests)
    BY HandType, ConcatProperties DEF ServeInv
  <1> QED BY <1>1 DEF Waiting

\* Who stands after a loss stood before and was not at the front.
LEMMA DropStanding ==
    ASSUME LinesInv, NEW k \in Keys, NEW n \in {1, 2}, Drops(k, n)
    PROVE  /\ \A r \in Requests : Standing(r)' <=> Standing(r) /\ r \notin Ahead(k, n)
           /\ \A q, s \in Keys : \A i \in 1..Len(Waiting'[q]), j \in 1..Len(Waiting'[s]) :
                Waiting'[q][i] = Waiting'[s][j] => q = s /\ i = j
  <1> USE DEF LinesInv, Drops
  <1>1. /\ Len(Waiting[k]) \in Nat /\ Len(Waiting'[k]) \in Nat
        /\ \A q \in Keys : Len(Waiting[q]) \in Nat
    OBVIOUS
  <1>2. ASSUME NEW r \in Requests, Standing(r)'
        PROVE  Standing(r) /\ r \notin Ahead(k, n)
    <2>1. PICK q \in Keys : \E i \in 1..Len(Waiting'[q]) : Waiting'[q][i] = r
      BY <1>2 DEF Standing
    <2>2. PICK i \in 1..Len(Waiting'[q]) : Waiting'[q][i] = r
      BY <2>1
    <2>3. CASE q # k
      <3>1. Waiting[q][i] = r /\ i \in 1..Len(Waiting[q])
        BY <2>2, <2>3
      <3>2. \A j \in 1..n : j \in 1..Len(Waiting[k]) /\ Waiting[k][j] # r
        BY <1>1, <2>3, <3>1
      <3>3. r \notin Ahead(k, n)
        BY <3>2 DEF Ahead
      <3> QED BY <3>1, <3>3 DEF Standing
    <2>4. CASE q = k
      <3>1. i + n \in 1..Len(Waiting[k]) /\ Waiting[k][i + n] = r
        BY <1>1, <2>2, <2>4
      <3>2. \A j \in 1..n : j \in 1..Len(Waiting[k]) /\ j # i + n
        BY <1>1, <2>2
      <3>3. \A j \in 1..n : Waiting[k][j] # r
        BY <3>1, <3>2
      <3>4. r \notin Ahead(k, n)
        BY <3>3 DEF Ahead
      <3> QED BY <3>1, <3>4 DEF Standing
    <2> QED BY <2>3, <2>4
  <1>3. ASSUME NEW r \in Requests, Standing(r), r \notin Ahead(k, n)
        PROVE  Standing(r)'
    <2>1. PICK q \in Keys : \E i \in 1..Len(Waiting[q]) : Waiting[q][i] = r
      BY <1>3 DEF Standing
    <2>2. PICK i \in 1..Len(Waiting[q]) : Waiting[q][i] = r
      BY <2>1
    <2>3. CASE q # k
      BY <2>2, <2>3 DEF Standing
    <2>4. CASE q = k
      <3>1. i \notin 1..n
        BY <1>3, <2>2, <2>4 DEF Ahead
      <3>2. i - n \in 1..Len(Waiting'[k]) /\ (i - n) + n = i
        BY <1>1, <2>2, <2>4, <3>1
      <3>3. Waiting'[k][i - n] = r
        BY <2>2, <2>4, <3>2
      <3> QED BY <3>2, <3>3 DEF Standing
    <2> QED BY <2>3, <2>4
  <1>4. ASSUME NEW q \in Keys, NEW s \in Keys,
               NEW i \in 1..Len(Waiting'[q]), NEW j \in 1..Len(Waiting'[s]),
               Waiting'[q][i] = Waiting'[s][j]
        PROVE  q = s /\ i = j
    <2> DEFINE u == IF q = k THEN i + n ELSE i
               v == IF s = k THEN j + n ELSE j
    <2>1. u \in 1..Len(Waiting[q]) /\ Waiting[q][u] = Waiting'[q][i]
      BY <1>1
    <2>2. v \in 1..Len(Waiting[s]) /\ Waiting[s][v] = Waiting'[s][j]
      BY <1>1
    <2>3. q = s /\ u = v
      <3> HIDE DEF u, v
      <3> QED BY <1>4, <2>1, <2>2
    <2> QED BY <2>3
  <1> QED BY <1>2, <1>3, <1>4

\* The lost stay finite, and a failure adds two at most.
LEMMA LostKept ==
    ASSUME LossInv, Lost' \subseteq Lost, failures' = failures
    PROVE  LossInv'
  <1>1. IsFiniteSet(Lost') /\ Cardinality(Lost') <= Cardinality(Lost)
    BY FS_Subset DEF LossInv
  <1>2. Cardinality(Lost) \in Nat /\ Cardinality(Lost') \in Nat
    BY <1>1, FS_CardinalityType DEF LossInv
  <1> QED BY <1>1, <1>2 DEF LossInv

LEMMA LostGrows ==
    ASSUME LossInv, NEW a, NEW b, Lost' \subseteq Lost \cup {a, b}, failures' = failures + 1
    PROVE  LossInv'
  <1> DEFINE A == Lost \cup {a}
             B == A \cup {b}
  <1>1. IsFiniteSet(A) /\ Cardinality(A) <= Cardinality(Lost) + 1
    <2>1. Cardinality(Lost) \in Nat
      BY FS_CardinalityType DEF LossInv
    <2> QED BY <2>1, FS_AddElement DEF LossInv
  <1>2. IsFiniteSet(B) /\ Cardinality(B) <= Cardinality(A) + 1
    <2>1. Cardinality(A) \in Nat
      BY <1>1, FS_CardinalityType
    <2> HIDE DEF A
    <2> QED BY <1>1, <2>1, FS_AddElement
  <1>3. Lost' \in SUBSET B
    OBVIOUS
  <1> HIDE DEF A, B
  <1>4. IsFiniteSet(Lost') /\ Cardinality(Lost') <= Cardinality(B)
    BY <1>2, <1>3, FS_Subset
  <1>5. /\ Cardinality(Lost) \in Nat /\ Cardinality(Lost') \in Nat
        /\ Cardinality(A) \in Nat /\ Cardinality(B) \in Nat
    BY <1>1, <1>2, <1>4, FS_CardinalityType DEF LossInv
  <1>6. Cardinality(Lost') <= Cardinality(Lost) + 2
    BY <1>1, <1>2, <1>4, <1>5
  <1>7. failures \in Nat /\ Cardinality(Lost) <= 2 * failures
    BY DEF LossInv
  <1>8. Cardinality(Lost') <= 2 * failures' /\ failures' \in Nat
    BY <1>5, <1>6, <1>7
  <1> QED BY <1>4, <1>8 DEF LossInv

\* Nothing happens to the lines, to the matches, or to who has asked.
LEMMA QuietStep ==
    ASSUME ConservedInv, UNCHANGED <<Waiting, matches>>, CallInv',
           \A r \in Requests : call'[r] = "idle" <=> call[r] = "idle"
    PROVE  /\ LinesInv' /\ MatchesInv' /\ Lost' = Lost
  <1>1. \A r : Standing(r)' <=> Standing(r)
    BY DEF Standing
  <1>2. LinesInv'
    BY <1>1 DEF ConservedInv, LinesInv
  <1>3. MatchesInv'
    BY <1>1 DEF ConservedInv, MatchesInv
  <1>4. Lost' = Lost
    BY <1>1 DEF Lost, Matched
  <1> QED BY <1>2, <1>3, <1>4

\* A failure takes n requests from the front of a line.
LEMMA LossStep ==
    ASSUME ConservedInv, NEW k \in Keys, NEW n \in {1, 2}, Drops(k, n),
           matches' = matches, CallInv',
           \A r \in Requests : call'[r] = "idle" <=> call[r] = "idle"
    PROVE  LinesInv' /\ MatchesInv' /\ Lost' \subseteq Lost \cup Ahead(k, n)
  <1>1. \A r \in Requests : Standing(r)' <=> Standing(r) /\ r \notin Ahead(k, n)
    BY DropStanding DEF ConservedInv
  <1>2. LinesInv'
    BY <1>1, DropStanding DEF ConservedInv, LinesInv, Drops
  <1>3. MatchesInv'
    BY <1>1 DEF ConservedInv, MatchesInv
  <1>4. Lost' \subseteq Lost \cup Ahead(k, n)
    BY <1>1 DEF Lost, Matched
  <1> QED BY <1>2, <1>3, <1>4

\* The two at the front of a line are matched.
LEMMA PairStep ==
    ASSUME ConservedInv, NEW k \in Keys, Drops(k, 2), call' = call,
           matches' = matches \cup {<<Waiting[k][1], Waiting[k][2]>>}
    PROVE  LinesInv' /\ MatchesInv' /\ Lost' \subseteq Lost
  <1>1. PICK a \in Requests, b \in Requests :
          /\ a = Waiting[k][1] /\ b = Waiting[k][2] /\ a # b
          /\ Standing(a) /\ Standing(b) /\ Ahead(k, 2) = {a, b}
    <2>1. 1 \in 1..Len(Waiting[k]) /\ 2 \in 1..Len(Waiting[k]) /\ 1 # 2
      BY DEF Drops, ConservedInv, LinesInv
    <2>2. Waiting[k][1] \in Requests /\ Waiting[k][2] \in Requests
      BY <2>1 DEF ConservedInv, LinesInv
    <2>3. Waiting[k][1] # Waiting[k][2]
      BY <2>1 DEF ConservedInv, LinesInv
    <2>4. Ahead(k, 2) = {Waiting[k][1], Waiting[k][2]}
      BY DEF Ahead
    <2> QED BY <2>1, <2>2, <2>3, <2>4 DEF Standing
  <1>2. \A r \in Requests : Standing(r)' <=> Standing(r) /\ r \notin {a, b}
    BY <1>1, DropStanding DEF ConservedInv
  <1>3. LinesInv'
    BY <1>2, DropStanding DEF ConservedInv, LinesInv, Drops
  <1> DEFINE new == <<a, b>>
  <1>4. /\ new[1] = a /\ new[2] = b /\ matches' = matches \cup {new}
        /\ new = <<new[1], new[2]>>
    BY <1>1
  <1> HIDE DEF new
  <1>5. \A m \in matches : {m[1], m[2]} \cap {a, b} = {}
    BY <1>1 DEF ConservedInv, MatchesInv
  <1>6. call[a] # "idle" /\ call[b] # "idle" /\ ~Standing(a)' /\ ~Standing(b)'
    BY <1>1, <1>2 DEF ConservedInv, LinesInv
  <1>7. MatchesInv'
    <2>2. ASSUME NEW m \in matches'
          PROVE  /\ m[1] \in Requests /\ m[2] \in Requests /\ m[1] # m[2]
                 /\ m = <<m[1], m[2]>>
                 /\ \A r \in {m[1], m[2]} : call'[r] # "idle" /\ ~Standing(r)'
      <3>1. CASE m \in matches
        BY <1>2, <3>1 DEF ConservedInv, MatchesInv
      <3>2. CASE m = new
        <4>1. m[1] = a /\ m[2] = b /\ m = <<m[1], m[2]>>
          BY <1>4, <3>2
        <4> QED BY <1>1, <1>6, <4>1
      <3> QED BY <1>4, <3>1, <3>2
    <2>3. ASSUME NEW m \in matches', NEW q \in matches', {m[1], m[2]} \cap {q[1], q[2]} # {}
          PROVE  m = q
      BY <1>4, <1>5, <2>3 DEF ConservedInv, MatchesInv
    <2> QED BY <2>2, <2>3 DEF MatchesInv
  <1>8. Lost' \subseteq Lost
    <2>1. \A r \in {a, b} : Matched(r)'
      BY <1>4 DEF Matched
    <2>2. \A r : Matched(r) => Matched(r)'
      BY <1>4 DEF Matched
    <2> QED BY <1>2, <2>1, <2>2 DEF Lost
  <1> QED BY <1>3, <1>7, <1>8

\* A request that is new stands at the end of its line.
LEMMA ArriveStep ==
    ASSUME ConservedInv, NEW t \in Keys, NEW r \in Requests, call[r] = "idle",
           Waiting' = [Waiting EXCEPT ![t] = Append(@, r)],
           call' = [call EXCEPT ![r] = "pushed"], matches' = matches
    PROVE  LinesInv' /\ MatchesInv' /\ Lost' \subseteq Lost
  <1>1. /\ \A q \in Keys : Waiting[q] \in Seq(Requests) /\ Len(Waiting[q]) \in Nat
        /\ Waiting' \in [Keys -> Seq(Requests)]
        /\ \A q \in Keys \ {t} : Waiting'[q] = Waiting[q]
        /\ Len(Waiting'[t]) = Len(Waiting[t]) + 1
        /\ Waiting'[t][Len(Waiting[t]) + 1] = r
        /\ \A i \in 1..Len(Waiting[t]) : Waiting'[t][i] = Waiting[t][i]
    <2>1. \A q \in Keys : Waiting[q] \in Seq(Requests)
      BY DEF ConservedInv, LinesInv
    <2>2. Waiting'[t] = Append(Waiting[t], r) /\ Waiting' \in [Keys -> Seq(Requests)]
      BY <2>1 DEF ConservedInv, LinesInv
    <2>3. /\ Len(Append(Waiting[t], r)) = Len(Waiting[t]) + 1
          /\ Append(Waiting[t], r)[Len(Waiting[t]) + 1] = r
          /\ \A i \in 1..Len(Waiting[t]) : Append(Waiting[t], r)[i] = Waiting[t][i]
      BY <2>1, AppendProperties
    <2> QED BY <2>1, <2>2, <2>3 DEF ConservedInv, LinesInv
  <1>2. /\ ~Standing(r)
        /\ \A q \in Keys : \A i \in 1..Len(Waiting[q]) : Waiting[q][i] # r
    BY DEF ConservedInv, LinesInv, Standing
  <1>3. ASSUME NEW x \in Requests, Standing(x)' PROVE Standing(x) \/ x = r
    <2>1. PICK q \in Keys : \E i \in 1..Len(Waiting'[q]) : Waiting'[q][i] = x
      BY <1>3 DEF Standing
    <2>2. PICK i \in 1..Len(Waiting'[q]) : Waiting'[q][i] = x
      BY <2>1
    <2>3. CASE q # t
      BY <1>1, <2>2, <2>3 DEF Standing
    <2>4. CASE q = t /\ i = Len(Waiting[t]) + 1
      BY <1>1, <2>2, <2>4
    <2>5. CASE q = t /\ i # Len(Waiting[t]) + 1
      <3>1. i \in 1..Len(Waiting[t])
        BY <1>1, <2>2, <2>5
      <3> QED BY <1>1, <2>2, <2>5, <3>1 DEF Standing
    <2> QED BY <2>3, <2>4, <2>5
  <1>4. ASSUME NEW x \in Requests, Standing(x) PROVE Standing(x)'
    <2>1. PICK q \in Keys : \E i \in 1..Len(Waiting[q]) : Waiting[q][i] = x
      BY <1>4 DEF Standing
    <2>2. PICK i \in 1..Len(Waiting[q]) : Waiting[q][i] = x
      BY <2>1
    <2>3. i \in 1..Len(Waiting'[q]) /\ Waiting'[q][i] = x
      BY <1>1, <2>2
    <2> QED BY <2>3 DEF Standing
  <1>5. Standing(r)'
    <2>1. Len(Waiting[t]) + 1 \in 1..Len(Waiting'[t])
      BY <1>1
    <2> QED BY <1>1, <2>1 DEF Standing
  <1>6. /\ \A x \in Requests : Standing(x)' <=> Standing(x) \/ x = r
        /\ call'[r] = "pushed" /\ \A x \in Requests \ {r} : call'[x] = call[x]
    BY <1>3, <1>4, <1>5 DEF ConservedInv, CallInv
  <1>7. LinesInv'
    <2>1. ASSUME NEW q \in Keys, NEW s \in Keys,
                 NEW i \in 1..Len(Waiting'[q]), NEW j \in 1..Len(Waiting'[s]),
                 Waiting'[q][i] = Waiting'[s][j]
          PROVE  q = s /\ i = j
      <3> DEFINE old(p, h) == h \in 1..Len(Waiting[p])
      <3>1. \A p \in Keys : \A h \in 1..Len(Waiting'[p]) :
              \/ old(p, h) /\ Waiting'[p][h] = Waiting[p][h] /\ Waiting'[p][h] # r
              \/ p = t /\ h = Len(Waiting[t]) + 1 /\ Waiting'[p][h] = r
        <4> TAKE p \in Keys
        <4> TAKE h \in 1..Len(Waiting'[p])
        <4>1. CASE p # t
          BY <1>1, <1>2, <4>1
        <4>2. CASE p = t
          BY <1>1, <1>2, <4>2
        <4> QED BY <4>1, <4>2
      <3>2. CASE old(q, i) /\ old(s, j)
        <4>1. Waiting[q][i] = Waiting[s][j]
          BY <1>1, <2>1, <3>1, <3>2
        <4> QED BY <3>2, <4>1 DEF ConservedInv, LinesInv
      <3> HIDE DEF old
      <3> QED BY <2>1, <3>1, <3>2
    <2> QED BY <1>1, <1>6, <2>1 DEF ConservedInv, LinesInv
  <1>8. MatchesInv'
    BY <1>6 DEF ConservedInv, MatchesInv
  <1>9. Lost' \subseteq Lost
    BY <1>5, <1>6 DEF Lost, Matched
  <1> QED BY <1>7, <1>8, <1>9

\* What a pairing and a loss do to the lines.
LEMMA OneOff ==
    ASSUME NEW S, NEW s \in Seq(S), Len(s) >= 1
    PROVE  /\ Tail(s) \in Seq(S) /\ Len(Tail(s)) = Len(s) - 1
           /\ \A i \in 1..Len(Tail(s)) : Tail(s)[i] = s[i + 1]
  OBVIOUS

LEMMA TwoOff ==
    ASSUME NEW S, NEW s \in Seq(S), Len(s) >= 2
    PROVE  /\ Tail(Tail(s)) \in Seq(S) /\ Len(Tail(Tail(s))) = Len(s) - 2
           /\ \A i \in 1..Len(Tail(Tail(s))) : Tail(Tail(s))[i] = s[i + 2]
  <1>1. /\ Tail(s) \in Seq(S) /\ Len(Tail(s)) = Len(s) - 1
        /\ \A i \in 1..Len(Tail(s)) : Tail(s)[i] = s[i + 1]
    BY OneOff
  <1> DEFINE t == Tail(s)
  <1> HIDE DEF t
  <1>2. /\ Tail(t) \in Seq(S) /\ Len(Tail(t)) = Len(t) - 1
        /\ \A i \in 1..Len(Tail(t)) : Tail(t)[i] = t[i + 1]
    BY <1>1, OneOff DEF t
  <1>3. \A i \in 1..Len(Tail(t)) : i + 1 \in 1..Len(t) /\ (i + 1) + 1 = i + 2
    BY <1>1, <1>2 DEF t
  <1>4. \A i \in 1..Len(t) : t[i] = s[i + 1]
    BY <1>1 DEF t
  <1>5. \A i \in 1..Len(Tail(t)) : Tail(t)[i] = s[i + 2]
    BY <1>2, <1>3, <1>4
  <1>6. Len(Tail(t)) = Len(s) - 2
    BY <1>1, <1>2 DEF t
  <1> QED BY <1>2, <1>5, <1>6 DEF t

LEMMA PairDrops ==
    ASSUME ServeInv, NEW k \in Keys, Len(Waiting[k]) >= 2,
           Waiting' = [Waiting EXCEPT ![k] = Tail(Tail(@))]
    PROVE  Drops(k, 2)
  <1>1. Waiting[k] \in Seq(Requests) /\ Waiting'[k] = Tail(Tail(Waiting[k]))
    BY ServeStanding
  <1> QED BY <1>1, TwoOff, ServeStanding DEF Drops

LEMMA LoseDrops ==
    ASSUME ServeInv, NEW k \in Keys, Lines!Lose(k)
    PROVE  \E n \in {1, 2} : Drops(k, n)
  <1>1. CASE Len(Waiting[k]) >= 1 /\ Waiting' = [Waiting EXCEPT ![k] = Tail(@)]
    <2>1. Waiting[k] \in Seq(Requests) /\ Waiting'[k] = Tail(Waiting[k])
      BY <1>1, ServeStanding
    <2>2. Drops(k, 1)
      BY <1>1, <2>1, OneOff, ServeStanding DEF Drops
    <2> QED BY <2>2
  <1>2. CASE Len(Waiting[k]) >= 2 /\ Waiting' = [Waiting EXCEPT ![k] = Tail(Tail(@))]
    BY <1>2, PairDrops
  <1> QED BY <1>1, <1>2 DEF Lines!Lose

LEMMA ConservedInductive == Spec => []ConservedInv
  <1>1. Init => ConservedInv
    <2> SUFFICES ASSUME Init PROVE ConservedInv
      OBVIOUS
    <2>1. Waiting = [k \in Keys |-> <<>>]
      BY ConcatEmptySeq, MatchQueueAssumption DEF Init, Waiting, Hand, Looking
    <2>2. Lost = {} /\ \A r : ~Standing(r)
      BY <2>1 DEF Init, Lost, Standing
    <2>3. LossInv
      BY <2>2, FS_EmptySet DEF Init, LossInv
    <2>4. LinesInv
      BY <2>1, <2>2 DEF LinesInv
    <2> QED BY <2>3, <2>4 DEF Init, ConservedInv, CallInv, MatchesInv
  <1>2. ServeInv /\ ServeInv' /\ ConservedInv /\ [Next]_vars => ConservedInv'
    <2> SUFFICES ASSUME ServeInv, ServeInv', ConservedInv, [Next]_vars
                 PROVE  ConservedInv'
      OBVIOUS
    <2>1. ASSUME NEW r \in Requests, NEW t \in Tiers, Push(r, t) PROVE ConservedInv'
      <3>1. t \in Keys /\ Waiting' = [Waiting EXCEPT ![t] = Append(@, r)]
        BY <2>1, PushArrives DEF Keys, Lines!Arrive
      <3>2. LinesInv' /\ MatchesInv' /\ Lost' \subseteq Lost
        BY <2>1, <3>1, ArriveStep DEF Push
      <3>3. CallInv' /\ failures' = failures
        BY <2>1 DEF Push, CallInv, ConservedInv
      <3> QED BY <3>2, <3>3, LostKept DEF ConservedInv
    <2>2. ASSUME UNCHANGED <<Waiting, matches, failures>>, CallInv',
                 \A r \in Requests : call'[r] = "idle" <=> call[r] = "idle"
          PROVE  ConservedInv'
      <3>1. LinesInv' /\ MatchesInv' /\ Lost' \subseteq Lost
        BY <2>2, QuietStep
      <3> QED BY <2>2, <3>1, LostKept DEF ConservedInv
    <2>3. ASSUME NEW r \in Requests, ScheduleTimeout(r) PROVE ConservedInv'
      <3>1. UNCHANGED <<Waiting, matches, failures>>
        BY <2>3 DEF ScheduleTimeout, loop, Waiting, Hand
      <3>2. /\ CallInv'
            /\ \A q \in Requests : call'[q] = "idle" <=> call[q] = "idle"
        BY <2>3 DEF ScheduleTimeout, ConservedInv, CallInv
      <3> QED BY <2>2, <3>1, <3>2
    <2>4. ASSUME call' = call
          PROVE  CallInv' /\ \A q \in Requests : call'[q] = "idle" <=> call[q] = "idle"
      BY <2>4 DEF ConservedInv, CallInv
    <2>5. CASE PopFirst \/ PopSecond \/ Requeue
      <3>1. UNCHANGED <<Waiting, matches>>
        BY <2>5, PopFirstKeeps, PopSecondKeeps, RequeueKeeps
      <3>2. call' = call /\ failures' = failures
        BY <2>5 DEF PopFirst, PopSecond, Requeue
      <3> QED BY <2>2, <2>4, <3>1, <3>2
    <2>6. CASE NoSecond
      <3>1. worker'.key = worker.key
        BY <2>6 DEF NoSecond, ServeInv, Holding, Looking
      <3>2. UNCHANGED <<Waiting, matches, failures>> /\ call' = call
        BY <2>6, <3>1 DEF NoSecond, Waiting, Hand
      <3> QED BY <2>2, <2>4, <3>2
    <2>7. CASE CreateMatch
      <3>1. PICK k \in Keys : Lines!Pair(k)
        BY <2>7, CreatePairs
      <3>2. call' = call /\ failures' = failures
        BY <2>7 DEF CreateMatch
      <3>3. LinesInv' /\ MatchesInv' /\ Lost' \subseteq Lost
        BY <3>1, <3>2, PairDrops, PairStep DEF Lines!Pair
      <3> QED BY <2>4, <3>2, <3>3, LostKept DEF ConservedInv
    <2>8. CASE TurnFails \/ Crash
      <3>1. /\ worker' = Looking /\ line' = line /\ matches' = matches
            /\ failures' = failures + 1
        BY <2>8 DEF TurnFails, Crash
      <3>2. CallInv' /\ \A q \in Requests : call'[q] = "idle" <=> call[q] = "idle"
        <4>1. CASE TurnFails
          BY <2>4, <4>1 DEF TurnFails
        <4>2. CASE Crash
          BY <4>2 DEF Crash, ConservedInv, CallInv
        <4> QED BY <2>8, <4>1, <4>2
      <3>3. CASE UNCHANGED <<Waiting, matches>>
        <4>1. LinesInv' /\ MatchesInv' /\ Lost' = Lost
          BY <3>2, <3>3, QuietStep
        <4>2. Lost' \subseteq Lost \cup {None, None}
          BY <4>1
        <4> QED BY <3>1, <3>2, <4>1, <4>2, LostGrows DEF ConservedInv
      <3>4. CASE \E k \in Keys : Lines!Lose(k)
        <4>1. PICK k \in Keys, n \in {1, 2} : Drops(k, n)
          BY <3>4, LoseDrops
        <4>2. LinesInv' /\ MatchesInv' /\ Lost' \subseteq Lost \cup Ahead(k, n)
          BY <3>1, <3>2, <4>1, LossStep
        <4>3. Ahead(k, n) \subseteq {Waiting[k][1], Waiting[k][2]}
          BY DEF Ahead
        <4>4. Lost' \subseteq Lost \cup {Waiting[k][1], Waiting[k][2]}
          BY <4>2, <4>3
        <4> QED BY <3>1, <3>2, <4>2, <4>4, LostGrows DEF ConservedInv
      <3> QED BY <3>1, <3>3, <3>4, DroppedAreLost
    <2>9. CASE UNCHANGED vars
      <3>1. UNCHANGED <<Waiting, matches, failures>> /\ call' = call
        BY <2>9 DEF vars, loop, Waiting, Hand
      <3> QED BY <2>2, <2>4, <3>1
    <2> QED BY <2>1, <2>3, <2>5, <2>6, <2>7, <2>8, <2>9 DEF Next, Loop
  <1> QED BY <1>1, <1>2, ServeInvInductive, PTL DEF Spec

-----------------------------------------------------------------------------
(* Where a request is in the lists, the hands and the matches is where it    *)
(* stands in the lines, or its match.                                        *)

LEMMA AtMostOne ==
    ASSUME NEW S, \A x, y \in S : x = y
    PROVE  \/ S = {} /\ Cardinality(S) = 0
           \/ S # {} /\ Cardinality(S) = 1
  <1>1. CASE S = {}
    BY <1>1, FS_EmptySet
  <1>2. CASE S # {}
    <2>1. PICK x : x \in S
      BY <1>2
    <2>2. S = {x}
      BY <2>1
    <2> QED BY <2>1, <2>2, FS_Singleton
  <1> QED BY <1>1, <1>2

\* The line of a tier is the players held, then the list.
LEMMA LinePositions ==
    ASSUME ServeInv, NEW k \in Keys
    PROVE  /\ Hand(k) \in Seq(Requests) /\ line[k] \in Seq(Requests)
           /\ Len(Waiting[k]) = Len(Hand(k)) + Len(line[k])
           /\ \A i \in 1..Len(Hand(k)) : Waiting[k][i] = Hand(k)[i]
           /\ \A i \in 1..Len(line[k]) : Waiting[k][Len(Hand(k)) + i] = line[k][i]
  <1>1. Hand(k) \in Seq(Requests)
    BY HandType
  <1>2. line[k] \in Seq(Requests) /\ Waiting[k] = Hand(k) \o line[k]
    BY DEF ServeInv, Waiting
  <1> HIDE DEF Hand
  <1>3. /\ Len(Hand(k) \o line[k]) = Len(Hand(k)) + Len(line[k])
        /\ \A i \in 1..Len(Hand(k)) : (Hand(k) \o line[k])[i] = Hand(k)[i]
        /\ \A i \in 1..Len(line[k]) : (Hand(k) \o line[k])[Len(Hand(k)) + i] = line[k][i]
    BY <1>1, <1>2
  <1> QED BY <1>1, <1>2, <1>3

\* A request in the worker's hand is the first or the second of its line.
LEMMA HandPositions ==
    ASSUME ServeInv, NEW r \in Requests
    PROVE  /\ first = r =>
                /\ worker.key \in Keys /\ 1 \in 1..Len(Hand(worker.key))
                /\ Hand(worker.key)[1] = r
           /\ second = r =>
                /\ worker.key \in Keys /\ 2 \in 1..Len(Hand(worker.key))
                /\ Hand(worker.key)[2] = r
           /\ \A k \in Keys : \A i \in 1..Len(Hand(k)) :
                Hand(k)[i] = r => first = r \/ second = r
  <1>1. CASE worker = Looking
    <2>1. first # r /\ second # r
      BY <1>1, KeyIsNone, MatchQueueAssumption DEF ServeInv, Holding
    <2>2. \A k \in Keys : Hand(k) = <<>>
      BY <1>1, StandingIdle
    <2> QED BY <2>1, <2>2
  <1>2. CASE worker # Looking
    <2>1. /\ worker.key \in Keys /\ first \in Requests /\ second \in Requests \cup {None}
          /\ Hand(worker.key) = IF second = None THEN <<first>> ELSE <<first, second>>
      BY <1>2, StandingHeld DEF ServeInv, Holding
    <2>2. \A k \in Keys : k # worker.key => Hand(k) = <<>>
      BY DEF Hand
    <2>3. r # None
      BY MatchQueueAssumption
    <2>4. CASE second = None
      BY <2>1, <2>2, <2>3, <2>4
    <2>5. CASE second # None
      BY <2>1, <2>2, <2>5
    <2> QED BY <2>4, <2>5
  <1> QED BY <1>1, <1>2

LEMMA SpotsStand ==
    ASSUME ServeInv, ConservedInv, NEW r \in Requests
    PROVE  Spots(r) <= 1 /\ (Spots(r) = 0 => ~Standing(r) /\ ~Matched(r))
  <1> DEFINE In(k, i) == i \in 1..Len(Waiting[k]) /\ Waiting[k][i] = r
  <1>1. \A k, q \in Keys : \A i, j : In(k, i) /\ In(q, j) => k = q /\ i = j
    BY DEF ConservedInv, LinesInv
  <1>2. ASSUME NEW x \in Places(r)
        PROVE  /\ x = <<x[1], x[2]>> /\ x[1] \in Keys /\ x[2] \in Nat
               /\ Len(Hand(x[1])) \in Nat /\ x[2] > 0
               /\ In(x[1], Len(Hand(x[1])) + x[2])
    <2>1. /\ x = <<x[1], x[2]>> /\ x[1] \in Keys
          /\ x[2] \in DOMAIN line[x[1]] /\ line[x[1]][x[2]] = r
      BY DEF Places, Positions
    <2>2. /\ Hand(x[1]) \in Seq(Requests) /\ line[x[1]] \in Seq(Requests)
          /\ Len(Waiting[x[1]]) = Len(Hand(x[1])) + Len(line[x[1]])
          /\ \A i \in 1..Len(line[x[1]]) : Waiting[x[1]][Len(Hand(x[1])) + i] = line[x[1]][i]
      BY <2>1, LinePositions
    <2> QED BY <2>1, <2>2
  <1>3. ASSUME NEW h \in Hands(r)
        PROVE  \E k \in Keys : /\ k = worker.key
                               /\ h = "first" => 1 \in 1..Len(Hand(k)) /\ In(k, 1)
                               /\ h = "second" => 2 \in 1..Len(Hand(k)) /\ In(k, 2)
                               /\ h \in {"first", "second"}
    <2>1. (h = "first" /\ first = r) \/ (h = "second" /\ second = r)
      BY DEF Hands
    <2>2. PICK k \in Keys : k = worker.key
      BY <2>1, HandPositions
    <2>3. /\ Len(Hand(k)) \in Nat /\ Len(line[k]) \in Nat
          /\ Len(Waiting[k]) = Len(Hand(k)) + Len(line[k])
          /\ \A i \in 1..Len(Hand(k)) : Waiting[k][i] = Hand(k)[i]
      <3>1. Hand(k) \in Seq(Requests) /\ line[k] \in Seq(Requests)
        BY LinePositions
      <3> QED BY <3>1, LinePositions
    <2>4. /\ first = r => 1 \in 1..Len(Hand(k)) /\ Hand(k)[1] = r
          /\ second = r => 2 \in 1..Len(Hand(k)) /\ Hand(k)[2] = r
      BY <2>2, HandPositions
    <2>5. /\ h = "first" => 1 \in 1..Len(Hand(k)) /\ In(k, 1)
          /\ h = "second" => 2 \in 1..Len(Hand(k)) /\ In(k, 2)
      BY <2>1, <2>3, <2>4
    <2> QED BY <2>1, <2>2, <2>5
  <1>4. Standing(r) <=> \E k \in Keys : \E i : In(k, i)
    BY DEF Standing
  <1>5. Matched(r) <=> MatchesOf(r) # {}
    BY DEF Matched, MatchesOf
  <1>6. Matched(r) => ~Standing(r)
    BY DEF ConservedInv, MatchesInv, Matched
  <1>7. Standing(r) => Places(r) # {} \/ Hands(r) # {}
    <2> SUFFICES ASSUME Standing(r) PROVE Places(r) # {} \/ Hands(r) # {}
      OBVIOUS
    <2>1. PICK k \in Keys : \E i \in 1..Len(Waiting[k]) : Waiting[k][i] = r
      BY DEF Standing
    <2>2. PICK i \in 1..Len(Waiting[k]) : Waiting[k][i] = r
      BY <2>1
    <2>3. /\ Len(Hand(k)) \in Nat /\ line[k] \in Seq(Requests)
          /\ Len(Waiting[k]) = Len(Hand(k)) + Len(line[k])
          /\ \A j \in 1..Len(Hand(k)) : Waiting[k][j] = Hand(k)[j]
          /\ \A j \in 1..Len(line[k]) : Waiting[k][Len(Hand(k)) + j] = line[k][j]
      BY LinePositions
    <2>4. CASE i <= Len(Hand(k))
      <3>1. i \in 1..Len(Hand(k)) /\ Hand(k)[i] = r
        BY <2>2, <2>3, <2>4
      <3>2. first = r \/ second = r
        BY <3>1, HandPositions
      <3> QED BY <3>2 DEF Hands
    <2>5. CASE i > Len(Hand(k))
      <3>1. PICK j \in 1..Len(line[k]) : i = Len(Hand(k)) + j
        <4>1. i - Len(Hand(k)) \in 1..Len(line[k]) /\ i = Len(Hand(k)) + (i - Len(Hand(k)))
          BY <2>2, <2>3, <2>5
        <4> QED BY <4>1
      <3>2. j \in DOMAIN line[k] /\ line[k][j] = r
        BY <2>2, <2>3, <3>1
      <3>3. <<k, j>> \in Places(r)
        BY <3>2 DEF Places, Positions
      <3> QED BY <3>3
    <2> QED BY <2>2, <2>3, <2>4, <2>5
  <1>8. \A x, y \in Places(r) : x = y
    BY <1>1, <1>2
  <1>9. \A x, y \in Hands(r) : x = y
    <2> SUFFICES ASSUME NEW x \in Hands(r), NEW y \in Hands(r), x # y PROVE FALSE
      OBVIOUS
    <2>1. PICK k \in Keys : k = worker.key /\ In(k, 1) /\ In(k, 2)
      BY <1>3
    <2> HIDE DEF In
    <2>2. 1 = 2
      BY <1>1, <2>1, Zenon
    <2> QED BY <2>2
  <1>10. \A m, n \in MatchesOf(r) : m = n
    BY DEF MatchesOf, ConservedInv, MatchesInv
  <1>11. Places(r) = {} \/ Hands(r) = {}
    <2> SUFFICES ASSUME NEW x \in Places(r), NEW h \in Hands(r) PROVE FALSE
      OBVIOUS
    <2>1. In(x[1], Len(Hand(x[1])) + x[2]) /\ x[1] \in Keys
      BY <1>2
    <2>2. PICK k \in Keys, i \in {1, 2} : i \in 1..Len(Hand(k)) /\ In(k, i)
      BY <1>3
    <2>3. x[1] = k /\ Len(Hand(x[1])) + x[2] = i
      BY <1>1, <2>1, <2>2
    <2> QED BY <1>2, <2>2, <2>3
  <1>12. Places(r) # {} \/ Hands(r) # {} => Standing(r)
    <2>1. CASE Places(r) # {}
      BY <1>2, <1>4, <2>1
    <2>2. CASE Hands(r) # {}
      BY <1>3, <1>4, <2>2
    <2> QED BY <2>1, <2>2
  <1>13. /\ \/ Places(r) = {} /\ Cardinality(Places(r)) = 0
            \/ Places(r) # {} /\ Cardinality(Places(r)) = 1
         /\ \/ Hands(r) = {} /\ Cardinality(Hands(r)) = 0
            \/ Hands(r) # {} /\ Cardinality(Hands(r)) = 1
         /\ \/ MatchesOf(r) = {} /\ Cardinality(MatchesOf(r)) = 0
            \/ MatchesOf(r) # {} /\ Cardinality(MatchesOf(r)) = 1
    BY <1>8, <1>9, <1>10, AtMostOne, Zenon
  <1> QED BY <1>5, <1>6, <1>7, <1>11, <1>12, <1>13 DEF Spots

\* No request is matched twice, or matched and still waiting, and every failure
\* loses two at most, for any number of requests and failures.
THEOREM MatchQueueRequestsAreConserved == Spec => []RequestsAreConserved
  <1>1. ServeInv /\ ConservedInv => RequestsAreConserved
    <2> SUFFICES ASSUME ServeInv, ConservedInv PROVE RequestsAreConserved
      OBVIOUS
    <2> DEFINE Gone == {r \in Requests : call[r] # "idle" /\ Spots(r) = 0}
    <2>1. Gone \subseteq Lost
      BY SpotsStand DEF Lost
    <2>2. IsFiniteSet(Lost) /\ Cardinality(Lost) <= 2 * failures /\ failures \in Nat
      BY DEF ConservedInv, LossInv
    <2> HIDE DEF Gone
    <2>3. IsFiniteSet(Gone) /\ Cardinality(Gone) <= Cardinality(Lost)
      BY <2>1, <2>2, FS_Subset
    <2>4. Cardinality(Gone) \in Nat /\ Cardinality(Lost) \in Nat
      BY <2>2, <2>3, FS_CardinalityType
    <2>5. Cardinality(Gone) <= 2 * failures
      BY <2>2, <2>3, <2>4
    <2> USE DEF Gone
    <2> QED BY <2>5, SpotsStand DEF RequestsAreConserved
  <1> QED BY <1>1, ServeInvInductive, ConservedInductive, PTL

-----------------------------------------------------------------------------
(* Lobbies: what a join has read against what is stored by now.              *)

Joining(j) == task[j].at \in {"checking", "storing", "matching", "deleting"}

\* The lobby that call x made is, or was when a join read it, under code c.
Coded(x, c) ==
    \/ lobby[c] # NoLobby /\ lobby[c].made = x
    \/ \E j \in Calls : Joining(j) /\ task[j].data.made = x /\ task[j].code = c

CodeInv ==
    \A x \in Calls : \A c \in Codes :
        Coded(x, c) => task[x] = Over /\ \A d \in Codes : Coded(x, d) => c = d

\* A lobby has players; who was let in made it full.
Populated(d) == IsFiniteSet(d.players) /\ Cardinality(d.players) >= 1

FullInv ==
    /\ \A c \in Codes : lobby[c] # NoLobby => Populated(lobby[c])
    /\ \A j \in Calls : Joining(j) =>
         /\ Populated(task[j].data)
         /\ task[j].at # "checking" => Cardinality(task[j].data.players) >= 2

\* Join i has a match of the lobby of call x, or is about to.
Closed(x, i) ==
    \/ \E m \in games : m.lobby = x /\ m.by = i
    \/ task[i].at = "matching" /\ task[i].data.made = x

StoredInv ==
    \A i \in Calls :
        /\ task[i].at \in {"idle", "checking", "storing"} => i \notin stored
        /\ Joining(i) => task[i].before \subseteq stored

\* From then on the lobby is full wherever it is, and for who reads it.
ClosedInv ==
    \A x, i \in Calls : Closed(x, i) =>
        /\ i \in stored /\ task[x] = Over
        /\ \A c \in Codes : lobby[c] # NoLobby /\ lobby[c].made = x =>
             Cardinality(lobby[c].players) >= 2
        /\ \A j \in Calls : Joining(j) /\ task[j].data.made = x /\ i \in task[j].before =>
             task[j].at = "checking" /\ Cardinality(task[j].data.players) >= 2

LateInv == CodeInv /\ FullInv /\ StoredInv /\ ClosedInv

-----------------------------------------------------------------------------
(* Shapes.                                                                   *)

JoinTask == [at: {"checking", "storing", "matching", "deleting"}, joiner: Users,
             code: Codes, data: LobbyData, before: SUBSET Calls]

LEMMA JoinShape ==
    ASSUME LobbyTypeOK, NEW j \in Calls, task[j].at \notin {"idle", "over"}
    PROVE  task[j] \in JoinTask /\ Joining(j)
  <1>1. task[j] \in {Idle, Over} \cup JoinTask
    BY DEF LobbyTypeOK, JoinTask
  <1>2. Idle.at = "idle" /\ Over.at = "over"
    BY DEF Idle, Over
  <1>3. task[j] \in JoinTask
    BY <1>1, <1>2
  <1> QED BY <1>3 DEF JoinTask, Joining

\* The steps of sockets keep the shapes of presence.
LEMMA PresenceShape == PresenceTypeOK /\ PresenceNext => PresenceTypeOK'
  <1> SUFFICES ASSUME PresenceTypeOK, PresenceNext PROVE PresenceTypeOK'
    OBVIOUS
  <1> USE PresenceAssumption DEF PresenceTypeOK
  <1>1. ASSUME NEW s \in Sockets, Connect(s) PROVE PresenceTypeOK'
    BY <1>1 DEF Connect
  <1>2. ASSUME NEW s \in Sockets, Close(s) PROVE PresenceTypeOK'
    BY <1>2 DEF Close
  <1>3. ASSUME NEW s \in Sockets, Verified(s) \/ Rejected(s) PROVE PresenceTypeOK'
    BY <1>3 DEF Verified, Rejected
  <1>4. ASSUME NEW s \in Sockets, SetOnline(s) \/ SetOffline(s) PROVE PresenceTypeOK'
    BY <1>4 DEF SetOnline, SetOffline, RedisKey
  <1>5. ASSUME NEW u \in Users, DisconnectUser(u) \/ ExpirePresence(u) PROVE PresenceTypeOK'
    BY <1>5 DEF DisconnectUser, ExpirePresence, RedisKey
  <1>6. CASE SocketsDie
    BY <1>6 DEF SocketsDie
  <1> QED BY <1>1, <1>2, <1>3, <1>4, <1>5, <1>6 DEF PresenceNext, Gateway

LEMMA LobbyShape == LobbyTypeOK /\ [LobbyNext]_allVars => LobbyTypeOK'
  <1> SUFFICES ASSUME LobbyTypeOK, [LobbyNext]_allVars PROVE LobbyTypeOK'
    OBVIOUS
  <1>1. CASE PresenceNext /\ UNCHANGED lobbyVars
    BY <1>1, PresenceShape DEF LobbyTypeOK, lobbyVars
  <1>2. CASE UNCHANGED allVars
    BY <1>2 DEF allVars, lobbyVars, presenceVars, LobbyTypeOK, PresenceTypeOK
  <1>3. CASE LobbyStep /\ UNCHANGED presenceVars
    <2>0. PresenceTypeOK'
      BY <1>3 DEF presenceVars, LobbyTypeOK, PresenceTypeOK
    <2> USE DEF LobbyTypeOK
    <2>1. ASSUME NEW j \in Calls, NEW u \in Users, NEW c \in Codes, CreateLobby(j, u, c)
          PROVE  LobbyTypeOK'
      <3>1. [made |-> j, host |-> u, players |-> {u}, key |-> "expiring"] \in LobbyData
        BY DEF LobbyData, RedisKey
      <3> QED BY <2>0, <2>1, <3>1 DEF CreateLobby
    <2>2. ASSUME NEW j \in Calls, NEW u \in Users, NEW c \in Codes, JoinRead(j, u, c)
          PROVE  LobbyTypeOK'
      <3>1. CASE lobby[c] = NoLobby
        BY <2>0, <2>2, <3>1 DEF JoinRead
      <3>2. CASE lobby[c] # NoLobby
        <4>1. lobby[c] \in LobbyData
          BY <3>2
        <4>2. [at |-> "checking", joiner |-> u, code |-> c, data |-> lobby[c], before |-> stored]
                \in JoinTask
          BY <4>1 DEF JoinTask
        <4> QED BY <2>0, <2>2, <3>2, <4>2 DEF JoinRead, JoinTask
      <3> QED BY <3>1, <3>2
    <2>3. ASSUME NEW j \in Calls, JoinCheck(j) PROVE LobbyTypeOK'
      <3>1. task[j] \in JoinTask
        BY <2>3, JoinShape DEF JoinCheck
      <3>2. [task[j] EXCEPT !.at = "storing",
                            !.data.players = task[j].data.players \cup {task[j].joiner}]
              \in JoinTask
        BY <3>1 DEF JoinTask, LobbyData
      <3> QED BY <2>0, <2>3, <3>2 DEF JoinCheck, JoinTask
    <2>4. ASSUME NEW j \in Calls, JoinStore(j) PROVE LobbyTypeOK'
      <3>1. task[j] \in JoinTask
        BY <2>4, JoinShape DEF JoinStore
      <3>2. [task[j] EXCEPT !.at = "matching"] \in JoinTask
        BY <3>1 DEF JoinTask
      <3>3. [task[j].data EXCEPT !.key = "expiring"] \in LobbyData
        BY <3>1 DEF JoinTask, LobbyData, RedisKey
      <3> QED BY <2>0, <2>4, <3>2, <3>3 DEF JoinStore, JoinTask
    <2>5. ASSUME NEW j \in Calls, JoinMatch(j) PROVE LobbyTypeOK'
      <3>1. task[j] \in JoinTask
        BY <2>5, JoinShape DEF JoinMatch
      <3>2. [task[j] EXCEPT !.at = "deleting"] \in JoinTask
        BY <3>1 DEF JoinTask
      <3>3. task[j].data.made \in Calls /\ task[j].data.players \in SUBSET Users
        BY <3>1 DEF JoinTask, LobbyData
      <3> QED BY <2>0, <2>5, <3>2, <3>3 DEF JoinMatch, JoinTask
    <2>6. ASSUME NEW j \in Calls, JoinDelete(j) \/ JoinFails(j) PROVE LobbyTypeOK'
      BY <2>0, <2>6 DEF JoinDelete, JoinFails
    <2>7. ASSUME NEW c \in Codes, ExpireLobby(c) PROVE LobbyTypeOK'
      BY <2>0, <2>7 DEF ExpireLobby
    <2> QED BY <1>3, <2>1, <2>2, <2>3, <2>4, <2>5, <2>6, <2>7 DEF LobbyStep, Join
  <1> QED BY <1>1, <1>2, <1>3 DEF LobbyNext

\* Lobbies, joins and matches, sockets and presence keep their shapes, for any
\* users, codes and calls.
THEOREM LobbyTypes == LobbySpec => []LobbyTypeOK
  <1>1. LobbyInit => LobbyTypeOK
    BY PresenceAssumption DEF LobbyInit, PresenceInit, LobbyTypeOK, PresenceTypeOK, RedisKey
  <1> QED BY <1>1, LobbyShape, PTL DEF LobbySpec

-----------------------------------------------------------------------------
(* Who asks after a lobby was closed is refused.                             *)

\* Codes stay apart in a step that reads or stores no lobby of a new code.
LEMMA CodesKept ==
    ASSUME CodeInv,
           \A x \in Calls : task[x] = Over => task'[x] = Over,
           \A x \in Calls, c \in Codes : Coded(x, c)' => Coded(x, c)
    PROVE  CodeInv'
  BY DEF CodeInv

\* A step that does no more than end calls and remove lobbies.
LEMMA JoinsEnd ==
    ASSUME LateInv, UNCHANGED <<stored, games>>,
           \A c \in Codes : lobby'[c] = NoLobby \/ lobby'[c] = lobby[c],
           \A j \in Calls : task'[j] = task[j] \/ task'[j] = Over
    PROVE  LateInv'
  <1>1. Over.at = "over"
    BY DEF Over
  <1>2. \A j \in Calls : task[j] = Over => task'[j] = Over
    BY <1>1 DEF Joining
  <1>3. \A j \in Calls : Joining(j)' => Joining(j) /\ task'[j] = task[j]
    BY <1>1 DEF Joining
  <1>4. \A x \in Calls, c \in Codes : Coded(x, c)' => Coded(x, c)
    BY <1>3 DEF Coded
  <1>5. CodeInv'
    BY <1>2, <1>4, CodesKept DEF LateInv
  <1>6. FullInv'
    BY <1>3 DEF LateInv, FullInv
  <1>7. \A x, i \in Calls : Closed(x, i)' => Closed(x, i)
    BY <1>1 DEF Closed
  <1>8. StoredInv'
    BY <1>1, <1>3 DEF LateInv, StoredInv
  <1>9. ClosedInv'
    BY <1>2, <1>3, <1>7 DEF LateInv, ClosedInv
  <1> QED BY <1>5, <1>6, <1>8, <1>9 DEF LateInv

\* A new lobby is of a call that made none before.
LEMMA LateCreate ==
    ASSUME LobbyTypeOK, LateInv, NEW j \in Calls, NEW u \in Users, NEW c \in Codes,
           CreateLobby(j, u, c)
    PROVE  LateInv'
  <1> DEFINE d == [made |-> j, host |-> u, players |-> {u}, key |-> "expiring"]
  <1>1. /\ task[j] = Idle /\ Idle # Over /\ Over.at = "over" /\ Idle.at = "idle"
        /\ task'[j] = Over /\ \A k \in Calls \ {j} : task'[k] = task[k]
        /\ lobby'[c] = d /\ \A e \in Codes \ {c} : lobby'[e] = lobby[e]
        /\ UNCHANGED <<stored, games>>
    BY DEF CreateLobby, LobbyTypeOK, Idle, Over
  <1>2. d.made = j /\ Populated(d)
    <2>1. IsFiniteSet({u}) /\ Cardinality({u}) = 1
      BY FS_Singleton
    <2>2. d.players = {u}
      OBVIOUS
    <2> QED BY <2>1, <2>2 DEF Populated
  <1> HIDE DEF d
  <1>3. \A k \in Calls : Joining(k)' => Joining(k) /\ task'[k] = task[k]
    BY <1>1 DEF Joining
  <1>4. \A x \in Calls, e \in Codes :
          Coded(x, e)' => (Coded(x, e) /\ x # j) \/ (x = j /\ e = c)
    <2> SUFFICES ASSUME NEW x \in Calls, NEW e \in Codes, Coded(x, e)'
                 PROVE  (Coded(x, e) /\ x # j) \/ (x = j /\ e = c)
      OBVIOUS
    <2>1. Coded(x, e) => x # j
      BY <1>1 DEF LateInv, CodeInv
    <2>2. CASE lobby'[e] # NoLobby /\ lobby'[e].made = x
      BY <1>1, <1>2, <2>1, <2>2 DEF Coded
    <2>3. CASE \E k \in Calls : Joining(k)' /\ task'[k].data.made = x /\ task'[k].code = e
      BY <1>3, <2>1, <2>3 DEF Coded
    <2> QED BY <2>2, <2>3 DEF Coded
  <1>5. CodeInv'
    BY <1>1, <1>4 DEF LateInv, CodeInv
  <1>6. FullInv'
    BY <1>1, <1>2, <1>3 DEF LateInv, FullInv
  <1>7. StoredInv'
    BY <1>1, <1>3 DEF LateInv, StoredInv
  <1>8. \A x, i \in Calls : Closed(x, i)' => Closed(x, i) /\ x # j
    <2>1. \A x, i \in Calls : Closed(x, i)' => Closed(x, i)
      BY <1>1 DEF Closed
    <2> QED BY <1>1, <2>1 DEF LateInv, ClosedInv
  <1>9. ClosedInv'
    BY <1>1, <1>2, <1>3, <1>8 DEF LateInv, ClosedInv
  <1> QED BY <1>5, <1>6, <1>7, <1>9 DEF LateInv

LEMMA LateRead ==
    ASSUME LobbyTypeOK, LateInv, NEW j \in Calls, NEW u \in Users, NEW c \in Codes,
           JoinRead(j, u, c), lobby[c] # NoLobby
    PROVE  LateInv'
  <1> DEFINE t == [at |-> "checking", joiner |-> u, code |-> c, data |-> lobby[c],
                   before |-> stored]
  <1>1. /\ task[j] = Idle /\ Idle # Over /\ Idle.at = "idle" /\ Over.at = "over"
        /\ task'[j] = t /\ \A k \in Calls \ {j} : task'[k] = task[k]
        /\ UNCHANGED <<lobby, stored, games>>
    BY DEF JoinRead, LobbyTypeOK, Idle, Over
  <1>2. t.at = "checking" /\ t.code = c /\ t.data = lobby[c] /\ t.before = stored
    OBVIOUS
  <1> HIDE DEF t
  <1>3. \A k \in Calls \ {j} : Joining(k)' <=> Joining(k)
    BY <1>1 DEF Joining
  <1>4. \A x \in Calls, e \in Codes : Coded(x, e)' => Coded(x, e)
    BY <1>1, <1>2, <1>3 DEF Coded
  <1>5. \A x \in Calls : task[x] = Over => task'[x] = Over
    BY <1>1
  <1>6. CodeInv'
    BY <1>4, <1>5, CodesKept DEF LateInv
  <1>7. FullInv'
    BY <1>1, <1>2, <1>3 DEF LateInv, FullInv
  <1>8. StoredInv'
    BY <1>1, <1>2, <1>3 DEF LateInv, StoredInv
  <1>9. \A x, i \in Calls : Closed(x, i)' => Closed(x, i)
    BY <1>1, <1>2 DEF Closed
  <1>10. ClosedInv'
    BY <1>1, <1>2, <1>3, <1>5, <1>9 DEF LateInv, ClosedInv
  <1> QED BY <1>6, <1>7, <1>8, <1>10 DEF LateInv

LEMMA LateCheck ==
    ASSUME LobbyTypeOK, LateInv, NEW j \in Calls, JoinCheck(j), task'[j] # Over
    PROVE  LateInv'
  <1> DEFINE d == task[j].data
             p == d.players \cup {task[j].joiner}
             t == [task[j] EXCEPT !.at = "storing", !.data.players = p]
  <1>1. /\ task[j].at = "checking" /\ Joining(j) /\ task[j] \in JoinTask
        /\ UNCHANGED <<lobby, stored, games>>
    BY JoinShape DEF JoinCheck
  <1>2. /\ task'[j] = t /\ \A k \in Calls \ {j} : task'[k] = task[k]
        /\ task[j].joiner \notin d.players /\ ~(Cardinality(d.players) >= 2)
    BY DEF JoinCheck, LobbyTypeOK
  <1>3. /\ t.at = "storing" /\ t.code = task[j].code /\ t.before = task[j].before
        /\ t.data.made = d.made /\ t.data.players = p
    BY <1>1 DEF JoinTask, LobbyData
  <1> HIDE DEF t
  <1>4. \A k \in Calls \ {j} : Joining(k)' <=> Joining(k)
    BY <1>2 DEF Joining
  <1>5. \A x \in Calls, e \in Codes : Coded(x, e)' => Coded(x, e)
    BY <1>1, <1>2, <1>3, <1>4 DEF Coded
  <1>6. \A x \in Calls : task[x] = Over => task'[x] = Over
    BY <1>1, <1>2 DEF Over
  <1>7. CodeInv'
    BY <1>5, <1>6, CodesKept DEF LateInv
  <1>8. Populated(t.data) /\ Cardinality(t.data.players) >= 2
    <2>1. IsFiniteSet(d.players) /\ Cardinality(d.players) \in Nat
          /\ Cardinality(d.players) >= 1
      BY <1>1, FS_CardinalityType DEF LateInv, FullInv, Populated
    <2>2. IsFiniteSet(p) /\ Cardinality(p) = Cardinality(d.players) + 1
      BY <1>2, <2>1, FS_AddElement
    <2>3. Cardinality(p) >= 2
      BY <2>1, <2>2
    <2>4. Cardinality(p) >= 1
      BY <2>1, <2>2
    <2> HIDE DEF d, p
    <2> QED BY <1>3, <2>2, <2>3, <2>4 DEF Populated
  <1>9. FullInv'
    BY <1>1, <1>2, <1>3, <1>4, <1>8 DEF LateInv, FullInv
  <1>10. StoredInv'
    BY <1>1, <1>2, <1>3, <1>4 DEF LateInv, StoredInv
  <1>11. \A x, i \in Calls : Closed(x, i)' => Closed(x, i)
    BY <1>1, <1>2, <1>3 DEF Closed
  <1>12. ClosedInv'
    BY <1>1, <1>2, <1>3, <1>4, <1>6, <1>11 DEF LateInv, ClosedInv
  <1> QED BY <1>7, <1>9, <1>10, <1>12 DEF LateInv

\* The first join that is stored closes the lobby: no other call had read that
\* it was stored.
LEMMA LateStore ==
    ASSUME LobbyTypeOK, LateInv, NEW j \in Calls, JoinStore(j)
    PROVE  LateInv'
  <1> DEFINE d == [task[j].data EXCEPT !.key = "expiring"]
             t == [task[j] EXCEPT !.at = "matching"]
             b == task[j].code
             y == task[j].data.made
  <1>1. task[j].at = "storing" /\ Joining(j) /\ task[j] \in JoinTask /\ UNCHANGED games
    BY JoinShape DEF JoinStore
  <1>2. /\ task'[j] = t /\ \A k \in Calls \ {j} : task'[k] = task[k]
        /\ b \in Codes /\ lobby'[b] = d /\ \A e \in Codes \ {b} : lobby'[e] = lobby[e]
        /\ stored' = stored \cup {j}
    BY <1>1 DEF JoinStore, LobbyTypeOK, JoinTask
  <1>3. /\ t.at = "matching" /\ t.code = b /\ t.before = task[j].before /\ t.data = task[j].data
        /\ d.made = y /\ d.players = task[j].data.players /\ y \in Calls
    BY <1>1 DEF JoinTask, LobbyData
  <1> HIDE DEF t, d
  <1>4. \A k \in Calls \ {j} : Joining(k)' <=> Joining(k)
    BY <1>2 DEF Joining
  <1>5. \A x \in Calls, e \in Codes : Coded(x, e)' => Coded(x, e)
    <2> SUFFICES ASSUME NEW x \in Calls, NEW e \in Codes, Coded(x, e)' PROVE Coded(x, e)
      OBVIOUS
    <2>1. CASE lobby'[e] # NoLobby /\ lobby'[e].made = x
      BY <1>1, <1>2, <1>3, <2>1 DEF Coded
    <2>2. CASE \E k \in Calls : Joining(k)' /\ task'[k].data.made = x /\ task'[k].code = e
      BY <1>1, <1>2, <1>3, <1>4, <2>2 DEF Coded
    <2> QED BY <2>1, <2>2 DEF Coded
  <1>6. \A x \in Calls : task[x] = Over => task'[x] = Over
    BY <1>1, <1>2 DEF Over
  <1>7. CodeInv'
    BY <1>5, <1>6, CodesKept DEF LateInv
  <1>8. Populated(d) /\ Cardinality(d.players) >= 2
    BY <1>1, <1>3 DEF LateInv, FullInv, Populated
  <1>9. FullInv'
    BY <1>1, <1>2, <1>3, <1>4, <1>8 DEF LateInv, FullInv, Populated
  <1>10. /\ j \notin stored
         /\ \A k \in Calls : Joining(k) => task[k].before \subseteq stored
    BY <1>1 DEF LateInv, StoredInv
  <1>11. StoredInv'
    BY <1>1, <1>2, <1>3, <1>4 DEF LateInv, StoredInv
  <1>12. \A x, i \in Calls : Closed(x, i)' => Closed(x, i) \/ (x = y /\ i = j)
    BY <1>1, <1>2, <1>3 DEF Closed
  <1>13. task[y] = Over /\ \A e \in Codes : Coded(y, e) => e = b
    <2>1. Coded(y, b)
      BY <1>1, <1>2 DEF Coded
    <2> QED BY <1>2, <1>3, <2>1 DEF LateInv, CodeInv
  <1>14. ASSUME NEW x \in Calls, NEW i \in Calls, Closed(x, i)
         PROVE  /\ i \in stored' /\ task'[x] = Over
                /\ \A c \in Codes : lobby'[c] # NoLobby /\ lobby'[c].made = x =>
                     Cardinality(lobby'[c].players) >= 2
                /\ \A k \in Calls :
                     Joining(k)' /\ task'[k].data.made = x /\ i \in task'[k].before =>
                       task'[k].at = "checking" /\ Cardinality(task'[k].data.players) >= 2
    BY <1>1, <1>2, <1>3, <1>4, <1>6, <1>8, <1>14 DEF LateInv, ClosedInv
  <1>15. /\ j \in stored' /\ task'[y] = Over
         /\ \A c \in Codes : lobby'[c] # NoLobby /\ lobby'[c].made = y =>
              Cardinality(lobby'[c].players) >= 2
         /\ \A k \in Calls : Joining(k)' => j \notin task'[k].before
    <2>1. \A c \in Codes : lobby'[c] # NoLobby /\ lobby'[c].made = y => c = b
      BY <1>2, <1>13 DEF Coded
    <2> QED BY <1>1, <1>2, <1>3, <1>4, <1>6, <1>8, <1>10, <1>13, <2>1
  <1>16. ClosedInv'
    BY <1>12, <1>14, <1>15 DEF ClosedInv
  <1> QED BY <1>7, <1>9, <1>11, <1>16 DEF LateInv

LEMMA LateMatch ==
    ASSUME LobbyTypeOK, LateInv, NEW j \in Calls, JoinMatch(j)
    PROVE  LateInv'
  <1> DEFINE t == [task[j] EXCEPT !.at = "deleting"]
             g == [lobby |-> task[j].data.made, by |-> j, players |-> task[j].data.players]
  <1>1. /\ task[j].at = "matching" /\ Joining(j) /\ task[j] \in JoinTask
        /\ UNCHANGED <<lobby, stored>>
    BY JoinShape DEF JoinMatch
  <1>2. /\ task'[j] = t /\ \A k \in Calls \ {j} : task'[k] = task[k]
        /\ games' = games \cup {g}
    BY DEF JoinMatch, LobbyTypeOK
  <1>3. /\ t.at = "deleting" /\ t.code = task[j].code /\ t.before = task[j].before
        /\ t.data = task[j].data /\ g.lobby = task[j].data.made /\ g.by = j
    BY <1>1 DEF JoinTask
  <1> HIDE DEF t, g
  <1>4. \A k \in Calls : Joining(k)' <=> Joining(k)
    BY <1>1, <1>2, <1>3 DEF Joining
  <1>5. \A x \in Calls, e \in Codes : Coded(x, e)' => Coded(x, e)
    BY <1>1, <1>2, <1>3, <1>4 DEF Coded
  <1>6. \A x \in Calls : task[x] = Over => task'[x] = Over
    BY <1>1, <1>2 DEF Over
  <1>7. CodeInv'
    BY <1>5, <1>6, CodesKept DEF LateInv
  <1>8. FullInv'
    BY <1>1, <1>2, <1>3, <1>4 DEF LateInv, FullInv
  <1>9. StoredInv'
    BY <1>1, <1>2, <1>3, <1>4 DEF LateInv, StoredInv
  <1>10. \A x, i \in Calls : Closed(x, i)' => Closed(x, i)
    BY <1>1, <1>2, <1>3 DEF Closed
  <1>11. ClosedInv'
    BY <1>1, <1>2, <1>3, <1>4, <1>6, <1>10 DEF LateInv, ClosedInv
  <1> QED BY <1>7, <1>8, <1>9, <1>11 DEF LateInv

LEMMA LateNext == LobbyTypeOK /\ LateInv /\ [LobbyNext]_allVars => LateInv'
  <1> SUFFICES ASSUME LobbyTypeOK, LateInv, [LobbyNext]_allVars PROVE LateInv'
    OBVIOUS
  <1>1. CASE UNCHANGED lobbyVars
    BY <1>1, JoinsEnd DEF lobbyVars
  <1>2. ASSUME NEW j \in Calls, NEW u \in Users, NEW c \in Codes, JoinRead(j, u, c)
        PROVE  LateInv'
    <2>1. CASE lobby[c] = NoLobby
      <3>1. /\ UNCHANGED <<lobby, stored, games>> /\ task[j] = Idle /\ task'[j] = Over
            /\ \A k \in Calls \ {j} : task'[k] = task[k]
        BY <1>2, <2>1 DEF JoinRead, LobbyTypeOK
      <3> QED BY <3>1, JoinsEnd
    <2> QED BY <1>2, <2>1, LateRead
  <1>3. ASSUME NEW j \in Calls, JoinCheck(j) PROVE LateInv'
    <2>1. CASE task'[j] = Over
      <3>1. /\ UNCHANGED <<lobby, stored, games>>
            /\ \A k \in Calls \ {j} : task'[k] = task[k]
        BY <1>3 DEF JoinCheck, LobbyTypeOK
      <3> QED BY <2>1, <3>1, JoinsEnd
    <2> QED BY <1>3, <2>1, LateCheck
  <1>4. ASSUME NEW j \in Calls, JoinDelete(j) \/ JoinFails(j) PROVE LateInv'
    <2>1. /\ UNCHANGED <<stored, games>> /\ task'[j] = Over
          /\ \A k \in Calls \ {j} : task'[k] = task[k]
          /\ \A c \in Codes : lobby'[c] = NoLobby \/ lobby'[c] = lobby[c]
      BY <1>4 DEF JoinDelete, JoinFails, LobbyTypeOK
    <2> QED BY <2>1, JoinsEnd
  <1>5. ASSUME NEW c \in Codes, ExpireLobby(c) PROVE LateInv'
    <2>1. /\ UNCHANGED <<task, stored, games>>
          /\ \A e \in Codes : lobby'[e] = NoLobby \/ lobby'[e] = lobby[e]
      BY <1>5 DEF ExpireLobby, LobbyTypeOK
    <2> QED BY <2>1, JoinsEnd
  <1>6. CASE LobbyStep
    BY <1>2, <1>3, <1>4, <1>5, <1>6, LateCreate, LateStore, LateMatch DEF LobbyStep, Join
  <1> QED BY <1>1, <1>6 DEF LobbyNext, allVars

\* Who reads a lobby after a join was stored in it gets no match of it, whichever
\* joins overlap, fail, overwrite or delete whichever lobby, and whoever is online.
THEOREM LobbyLateJoinIsRefused == LobbySpec => []LateJoinIsRefused
  <1>1. LobbyInit => LateInv
    BY DEF LobbyInit, LateInv, CodeInv, Coded, FullInv, StoredInv, ClosedInv, Closed,
       Joining, Idle
  <1>2. LobbyTypeOK /\ LateInv => LateJoinIsRefused
    <2> SUFFICES ASSUME LobbyTypeOK, LateInv, NEW j \in Calls, NEW m \in games,
                        task[j].at \in {"storing", "matching", "deleting"},
                        m.lobby = task[j].data.made
                 PROVE  m.by \notin task[j].before
      BY DEF LateJoinIsRefused
    <2>1. m.lobby \in Calls /\ m.by \in Calls /\ Closed(m.lobby, m.by) /\ Joining(j)
      BY DEF LobbyTypeOK, Closed, Joining
    <2> QED BY <2>1 DEF LateInv, ClosedInv
  <1> QED BY <1>1, <1>2, LateNext, LobbyTypes, PTL DEF LobbySpec

=============================================================================
