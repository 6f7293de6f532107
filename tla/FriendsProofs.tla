---------------------------- MODULE FriendsProofs ----------------------------
(***************************************************************************)
(* Theorems about Friends, for any users and any number of calls.          *)
(***************************************************************************)
EXTENDS Friends, TLAPS

LEMMA OtherPair ==
    ASSUME NEW pair \in Pairs
    PROVE  Other(pair) \in Pairs /\ Other(Other(pair)) = pair
  BY DEF Pairs, Other

\* What a call that is at a statement carries.
LEMMA CallAt ==
    ASSUME NEW c \in Call
    PROVE  /\ c.at \in {"seek", "look"} => c \in [at: {"seek", "look"}, pair: Pairs]
           /\ c.at \in Writes \cup {"notify"}
                => c \in [at: Writes \cup {"notify"}, pair: Pairs, round: {1, 2}]
           /\ c.at \in {"remove", "lower"}
                => c \in [at: {"remove", "lower"}, pair: Pairs, id: Calls \X Writes]
  BY DEF Call, Writes

\* An upsert leaves documents.
LEMMA PutType ==
    ASSUME TypeOK, NEW j \in Calls, NEW pair \in Pairs,
           NEW type \in {"following", "follower"},
           call[j].at \in Writes, Put(j, pair, type)
    PROVE  /\ rel' \in [Pairs -> Document \cup {None}]
           /\ \E d \in Document :
                /\ d.type = type /\ d.round = call[j].round
                /\ rel' = [rel EXCEPT ![pair] = d]
  <1> DEFINE d == [type |-> type, round |-> call[j].round,
                   id |-> IF rel[pair] = None THEN <<j, call[j].at>> ELSE rel[pair].id]
  <1>1. call[j].round \in {1, 2}
    BY CallAt DEF TypeOK
  <1>2. d.id \in Calls \X Writes
    BY DEF TypeOK, Document
  <1>3. d \in Document
    BY <1>1, <1>2 DEF Document
  <1>4. rel' = [rel EXCEPT ![pair] = d]
    BY DEF Put
  <1> HIDE DEF d
  <1>5. rel' \in [Pairs -> Document \cup {None}]
    BY <1>3, <1>4 DEF TypeOK
  <1>6. d.type = type /\ d.round = call[j].round
    BY DEF d
  <1> QED BY <1>3, <1>4, <1>5, <1>6

\* Documents and calls keep their shapes in every step.
THEOREM FriendsTypeOK == Spec => []TypeOK
  <1>1. Init => TypeOK
    <2>1. Idle \in Call
      BY DEF Idle, Call
    <2> QED BY <2>1 DEF Init, TypeOK
  <1>2. TypeOK /\ [Next]_vars => TypeOK'
    <2> SUFFICES ASSUME TypeOK, [Next]_vars PROVE TypeOK'
      OBVIOUS
    <2>1. ASSUME NEW j \in Calls, NEW c \in Call, call' = [call EXCEPT ![j] = c]
          PROVE  call' \in [Calls -> Call]
      BY <2>1 DEF TypeOK
    <2>2. Over \in Call
      BY DEF Over, Call
    <2>3. ASSUME NEW j \in Calls, NEW pair \in Pairs, FollowRead(j, pair) PROVE TypeOK'
      <3>1. [at |-> "seek", pair |-> pair] \in Call
        BY DEF Call
      <3>2. call' \in [Calls -> Call]
        BY <2>1, <2>2, <2>3, <3>1 DEF FollowRead
      <3> QED BY <2>3, <3>2 DEF FollowRead, TypeOK, Overlaps
    <2>4. ASSUME NEW j \in Calls, NEW pair \in Pairs, UnfollowOwn(j, pair) PROVE TypeOK'
      <3>1. [at |-> "look", pair |-> pair] \in Call
        BY DEF Call
      <3>2. call' \in [Calls -> Call]
        BY <2>1, <2>4, <3>1 DEF UnfollowOwn
      <3> QED BY <2>4, <3>2 DEF UnfollowOwn, TypeOK, Overlaps
    <2>5. ASSUME NEW j \in Calls, FollowSeek(j) PROVE TypeOK'
      <3>1. call[j].pair \in Pairs
        BY <2>5, CallAt DEF FollowSeek, TypeOK
      <3>2. \A r \in {1, 2} : [at |-> "own", pair |-> call[j].pair, round |-> r] \in Call
        BY <3>1 DEF Call, Writes
      <3>3. call' \in [Calls -> Call]
        BY <2>1, <2>5, <3>2 DEF FollowSeek
      <3> QED BY <2>5, <3>3 DEF FollowSeek, TypeOK
    <2>6. ASSUME NEW j \in Calls, NEW at \in Writes \cup {"notify"},
                 call[j].at \in Writes, Goes(j, at)
          PROVE  call' \in [Calls -> Call]
      <3>1. [call[j] EXCEPT !.at = at] \in Call
        BY <2>6, CallAt DEF TypeOK, Call
      <3> QED BY <2>1, <2>6, <3>1 DEF Goes, TypeOK
    <2>7. ASSUME NEW j \in Calls, FollowOwn(j) PROVE TypeOK'
      <3>1. call[j].pair \in Pairs /\ call[j].at \in Writes
        BY <2>7, CallAt DEF FollowOwn, TypeOK, Writes
      <3>2. rel' \in [Pairs -> Document \cup {None}]
        BY <2>7, <3>1, PutType DEF FollowOwn
      <3>3. call' \in [Calls -> Call]
        BY <2>6, <2>7, <3>1 DEF FollowOwn, Writes
      <3> QED BY <2>7, <3>2, <3>3 DEF FollowOwn, TypeOK
    <2>8. ASSUME NEW j \in Calls, FollowTarget(j) PROVE TypeOK'
      <3>1. Other(call[j].pair) \in Pairs /\ call[j].at \in Writes
        BY <2>8, CallAt, OtherPair DEF FollowTarget, TypeOK, Writes
      <3>2. rel' \in [Pairs -> Document \cup {None}]
        BY <2>8, <3>1, PutType DEF FollowTarget
      <3>3. call' \in [Calls -> Call]
        BY <2>6, <2>8, <3>1 DEF FollowTarget, Writes
      <3> QED BY <2>8, <3>2, <3>3 DEF FollowTarget, TypeOK
    <2>9. ASSUME NEW j \in Calls, FollowEnd(j) PROVE TypeOK'
      <3>1. Other(call[j].pair) \in Pairs /\ call[j].at \in Writes
        BY <2>9, CallAt, OtherPair DEF FollowEnd, TypeOK, Writes
      <3>2. rel' \in [Pairs -> Document \cup {None}]
        <4>1. CASE call[j].round = 1
          BY <2>9, <3>1, <4>1, PutType DEF FollowEnd
        <4>2. CASE call[j].round # 1
          BY <2>9, <3>1, <4>2 DEF FollowEnd, TypeOK, Document
        <4> QED BY <4>1, <4>2
      <3>3. call' \in [Calls -> Call]
        BY <2>6, <2>9, <3>1 DEF FollowEnd
      <3> QED BY <2>9, <3>2, <3>3 DEF FollowEnd, TypeOK
    <2>10. ASSUME NEW j \in Calls, Notify(j) PROVE TypeOK'
      BY <2>1, <2>2, <2>10 DEF Notify, TypeOK
    <2>11. ASSUME NEW j \in Calls, UnfollowRead(j) PROVE TypeOK'
      <3> DEFINE back == rel[Other(call[j].pair)]
                 next == [at |-> IF back.type = "follower" THEN "remove" ELSE "lower",
                          pair |-> call[j].pair, id |-> back.id]
      <3>1. call[j].pair \in Pairs /\ Other(call[j].pair) \in Pairs
        BY <2>11, CallAt, OtherPair DEF UnfollowRead, TypeOK
      <3>2. back # None => back.id \in Calls \X Writes
        BY <3>1 DEF TypeOK, Document
      <3>3. back # None => next \in Call
        BY <3>1, <3>2 DEF Call
      <3>4. \/ call' = [call EXCEPT ![j] = Over]
            \/ back # None /\ call' = [call EXCEPT ![j] = next]
        BY <2>11 DEF UnfollowRead
      <3> HIDE DEF back, next
      <3>5. call' \in [Calls -> Call]
        BY <2>1, <2>2, <3>3, <3>4
      <3> QED BY <2>11, <3>5 DEF UnfollowRead, TypeOK
    <2>12. ASSUME NEW j \in Calls, UnfollowRemove(j) PROVE TypeOK'
      <3>1. rel' \in [Pairs -> Document \cup {None}]
        BY <2>12 DEF UnfollowRemove, TypeOK
      <3> QED BY <2>1, <2>2, <2>12, <3>1 DEF UnfollowRemove, TypeOK
    <2>13. ASSUME NEW j \in Calls, UnfollowLower(j) PROVE TypeOK'
      <3>1. rel' \in [Pairs -> Document \cup {None}]
        BY <2>13 DEF UnfollowLower, TypeOK, Found, Document
      <3> QED BY <2>1, <2>2, <2>13, <3>1 DEF UnfollowLower, TypeOK
    <2>14. ASSUME NEW j \in Calls, Fails(j) PROVE TypeOK'
      BY <2>1, <2>2, <2>14 DEF Fails, TypeOK
    <2>15. ASSUME NEW u \in Users, CleanupUser(u) PROVE TypeOK'
      BY <2>15 DEF CleanupUser, TypeOK, Overlaps
    <2>16. CASE UNCHANGED vars
      BY <2>16 DEF vars, TypeOK
    <2> QED BY <2>3, <2>4, <2>5, <2>7, <2>8, <2>9, <2>10, <2>11, <2>12, <2>13,
               <2>14, <2>15, <2>16 DEF Next
  <1> QED BY <1>1, <1>2, PTL DEF Spec

\* Writing one document keeps the property when that document has it.
LEMMA OneDocument ==
    ASSUME TypeOK, NobodyFollowsUnasked, asked \subseteq asked',
           NEW pair \in Pairs, NEW d, rel' = [rel EXCEPT ![pair] = d],
           d # None => /\ d.type = "following" => pair \in asked'
                       /\ d.round = 2 => {pair, Other(pair)} \subseteq asked'
    PROVE  NobodyFollowsUnasked'
  <1> SUFFICES ASSUME NEW p \in Pairs, rel'[p] # None
               PROVE  /\ rel'[p].type = "following" => p \in asked'
                      /\ rel'[p].round = 2 => {p, Other(p)} \subseteq asked'
    BY DEF NobodyFollowsUnasked, Other
  <1>1. CASE p = pair
    BY <1>1 DEF TypeOK
  <1>2. CASE p # pair
    BY <1>2 DEF TypeOK, NobodyFollowsUnasked
  <1> QED BY <1>1, <1>2

\* Nobody follows, or is mutual, who has not asked: the invariant adds that a
\* call knows as much before it writes.
THEOREM FriendsNobodyFollowsUnasked == Spec => []NobodyFollowsUnasked
  <1>1. Init => NobodyFollowsUnasked /\ WritersAsked
    <2> SUFFICES ASSUME Init PROVE NobodyFollowsUnasked /\ WritersAsked
      OBVIOUS
    <2>1. NobodyFollowsUnasked
      BY DEF Init, NobodyFollowsUnasked
    <2>2. WritersAsked
      BY DEF Init, WritersAsked, Idle, Writes
    <2> QED BY <2>1, <2>2
  <1>2. TypeOK /\ TypeOK' /\ NobodyFollowsUnasked /\ WritersAsked /\ [Next]_vars
          => NobodyFollowsUnasked' /\ WritersAsked'
    <2> SUFFICES ASSUME TypeOK, TypeOK', NobodyFollowsUnasked, WritersAsked, [Next]_vars
                 PROVE  NobodyFollowsUnasked' /\ WritersAsked'
      OBVIOUS
    <2>a. asked \subseteq asked'
      BY DEF Next, FollowRead, UnfollowOwn, FollowSeek, FollowOwn, FollowTarget, FollowEnd,
             Notify, UnfollowRead, UnfollowRemove, UnfollowLower, Fails, CleanupUser, vars
    <2>b. ASSUME rel' = rel PROVE NobodyFollowsUnasked'
      BY <2>a, <2>b DEF NobodyFollowsUnasked, Other
    <2>c. ASSUME NEW j \in Calls, NEW c, call' = [call EXCEPT ![j] = c],
                 c.at \in Writes \cup {"seek", "notify"} => c.pair \in asked',
                 c.at \in Writes /\ c.round = 2 => Other(c.pair) \in asked'
          PROVE  WritersAsked'
      <3> SUFFICES ASSUME NEW k \in Calls
                   PROVE  /\ call'[k].at \in Writes \cup {"seek", "notify"}
                               => call'[k].pair \in asked'
                          /\ call'[k].at \in Writes /\ call'[k].round = 2
                               => Other(call'[k].pair) \in asked'
        BY DEF WritersAsked, Other, Writes
      <3>1. CASE k = j
        BY <2>c, <3>1 DEF TypeOK
      <3>2. CASE k # j
        BY <2>a, <2>c, <3>2 DEF TypeOK, WritersAsked
      <3> QED BY <3>1, <3>2
    <2>d. ASSUME NEW j \in Calls, NEW c, call' = [call EXCEPT ![j] = c],
                 c.at \in {"over", "look", "remove", "lower"}
          PROVE  WritersAsked'
      BY <2>c, <2>d DEF Writes
    <2>3. ASSUME NEW j \in Calls, NEW pair \in Pairs, FollowRead(j, pair)
          PROVE  NobodyFollowsUnasked' /\ WritersAsked'
      <3>1. NobodyFollowsUnasked'
        BY <2>3, <2>b DEF FollowRead
      <3>2. \/ call' = [call EXCEPT ![j] = Over]
            \/ call' = [call EXCEPT ![j] = [at |-> "seek", pair |-> pair]]
        BY <2>3 DEF FollowRead
      <3>3. pair \in asked'
        BY <2>3 DEF FollowRead
      <3> QED BY <2>c, <2>d, <3>1, <3>2, <3>3 DEF Over, Writes
    <2>4. ASSUME NEW j \in Calls, NEW pair \in Pairs, UnfollowOwn(j, pair)
          PROVE  NobodyFollowsUnasked' /\ WritersAsked'
      <3>1. rel' = [rel EXCEPT ![pair] = None]
        BY <2>4 DEF UnfollowOwn
      <3>2. NobodyFollowsUnasked'
        BY <2>a, <3>1, OneDocument
      <3>3. WritersAsked'
        BY <2>4, <2>d DEF UnfollowOwn
      <3> QED BY <3>2, <3>3
    <2>5. ASSUME NEW j \in Calls, FollowSeek(j)
          PROVE  NobodyFollowsUnasked' /\ WritersAsked'
      <3> DEFINE pair == call[j].pair
                 back == rel[Other(pair)]
                 mutual == back # None /\ back.type = "following"
                 next == [at |-> "own", pair |-> pair, round |-> IF mutual THEN 2 ELSE 1]
      <3>1. pair \in Pairs /\ Other(pair) \in Pairs /\ pair \in asked
        BY <2>5, CallAt, OtherPair DEF FollowSeek, TypeOK, WritersAsked
      <3>2. mutual => Other(pair) \in asked
        BY <3>1 DEF NobodyFollowsUnasked
      <3>3. call' = [call EXCEPT ![j] = next] /\ rel' = rel
        BY <2>5 DEF FollowSeek
      <3>4. next.at = "own" /\ next.pair = pair /\ (next.round = 2 => mutual)
        OBVIOUS
      <3> HIDE DEF pair, mutual, next
      <3> QED BY <2>a, <2>b, <2>c, <3>1, <3>2, <3>3, <3>4 DEF Writes
    <2>6. ASSUME NEW j \in Calls, call[j].at \in Writes,
                 NEW at \in Writes \cup {"notify"}, Goes(j, at)
          PROVE  WritersAsked'
      <3>1. [call[j] EXCEPT !.at = at].pair = call[j].pair
        BY <2>6, CallAt DEF TypeOK
      <3>2. [call[j] EXCEPT !.at = at].round = call[j].round
        BY <2>6, CallAt DEF TypeOK
      <3>3. call' = [call EXCEPT ![j] = [call[j] EXCEPT !.at = at]]
        BY <2>6 DEF Goes
      <3> QED BY <2>6, <2>a, <2>c, <3>1, <3>2, <3>3 DEF WritersAsked
    <2>7. ASSUME NEW j \in Calls, FollowOwn(j)
          PROVE  NobodyFollowsUnasked' /\ WritersAsked'
      <3> DEFINE pair == call[j].pair
      <3>1. pair \in Pairs /\ call[j].at \in Writes
        BY <2>7, CallAt DEF FollowOwn, TypeOK, Writes
      <3>2. PICK d \in Document : /\ d.type = "following" /\ d.round = call[j].round
                                  /\ rel' = [rel EXCEPT ![pair] = d]
        BY <2>7, <3>1, PutType DEF FollowOwn
      <3>3. pair \in asked' /\ (d.round = 2 => Other(pair) \in asked')
        BY <2>a, <3>1, <3>2 DEF WritersAsked
      <3>4. NobodyFollowsUnasked'
        BY <2>a, <3>1, <3>2, <3>3, OneDocument
      <3>5. WritersAsked'
        BY <2>6, <2>7, <3>1 DEF FollowOwn, Writes
      <3> QED BY <3>4, <3>5
    <2>e. ASSUME NEW j \in Calls, NEW d \in Document, call[j].at \in Writes,
                 d.type = "follower", d.round = call[j].round,
                 rel' = [rel EXCEPT ![Other(call[j].pair)] = d]
          PROVE  NobodyFollowsUnasked'
      <3> DEFINE pair == call[j].pair
      <3>1. pair \in Pairs /\ Other(pair) \in Pairs /\ Other(Other(pair)) = pair
        BY <2>e, CallAt, OtherPair DEF TypeOK
      <3>2. d.round = 2 => {pair, Other(pair)} \subseteq asked'
        BY <2>a, <2>e DEF WritersAsked
      <3> QED BY <2>a, <2>e, <3>1, <3>2, OneDocument
    <2>8. ASSUME NEW j \in Calls, FollowTarget(j)
          PROVE  NobodyFollowsUnasked' /\ WritersAsked'
      <3>1. Other(call[j].pair) \in Pairs /\ call[j].at \in Writes
        BY <2>8, CallAt, OtherPair DEF FollowTarget, TypeOK, Writes
      <3>2. PICK d \in Document : /\ d.type = "follower" /\ d.round = call[j].round
                                  /\ rel' = [rel EXCEPT ![Other(call[j].pair)] = d]
        BY <2>8, <3>1, PutType DEF FollowTarget
      <3>3. NobodyFollowsUnasked'
        BY <2>e, <3>1, <3>2
      <3>4. WritersAsked'
        BY <2>6, <2>8, <3>1 DEF FollowTarget, Writes
      <3> QED BY <3>3, <3>4
    <2>9. ASSUME NEW j \in Calls, FollowEnd(j)
          PROVE  NobodyFollowsUnasked' /\ WritersAsked'
      <3> DEFINE pair == call[j].pair
                 back == Other(pair)
      <3>1. pair \in Pairs /\ back \in Pairs /\ Other(back) = pair /\ call[j].at \in Writes
        BY <2>9, CallAt, OtherPair DEF FollowEnd, TypeOK, Writes
      <3>2. NobodyFollowsUnasked'
        <4>1. CASE call[j].round = 1
          <5>1. PICK d \in Document : /\ d.type = "follower" /\ d.round = call[j].round
                                      /\ rel' = [rel EXCEPT ![back] = d]
            BY <2>9, <3>1, <4>1, PutType DEF FollowEnd
          <5> QED BY <2>e, <3>1, <5>1
        <4>2. CASE call[j].round # 1 /\ rel[back] = None
          BY <2>9, <2>b, <4>2 DEF FollowEnd
        <4>3. CASE call[j].round # 1 /\ rel[back] # None
          <5> DEFINE d == [rel[back] EXCEPT !.round = 2]
          <5>1. rel' = [rel EXCEPT ![back] = d]
            BY <2>9, <4>3 DEF FollowEnd
          <5>2. call[j].round = 2
            BY <3>1, <4>3, CallAt DEF TypeOK
          <5>3. {pair, back} \subseteq asked'
            BY <2>a, <3>1, <5>2 DEF WritersAsked
          <5> HIDE DEF d, pair, back
          <5> QED BY <2>a, <3>1, <5>1, <5>3, OneDocument
        <4> QED BY <4>1, <4>2, <4>3
      <3>3. WritersAsked'
        BY <2>6, <2>9, <3>1 DEF FollowEnd
      <3> QED BY <3>2, <3>3
    <2>10. ASSUME NEW j \in Calls, Notify(j) \/ Fails(j)
           PROVE  NobodyFollowsUnasked' /\ WritersAsked'
      BY <2>10, <2>b, <2>d DEF Notify, Fails, Over
    <2>11. ASSUME NEW j \in Calls, UnfollowRead(j)
           PROVE  NobodyFollowsUnasked' /\ WritersAsked'
      <3> DEFINE back == rel[Other(call[j].pair)]
                 next == [at |-> IF back.type = "follower" THEN "remove" ELSE "lower",
                          pair |-> call[j].pair, id |-> back.id]
      <3>1. \/ call' = [call EXCEPT ![j] = Over]
            \/ call' = [call EXCEPT ![j] = next]
        BY <2>11 DEF UnfollowRead
      <3>3. next.at \in {"remove", "lower"} /\ Over.at = "over"
        BY DEF Over
      <3>2. rel' = rel
        BY <2>11 DEF UnfollowRead
      <3> HIDE DEF next
      <3> QED BY <2>b, <2>d, <3>1, <3>2, <3>3
    <2>12. ASSUME NEW j \in Calls, UnfollowRemove(j)
           PROVE  NobodyFollowsUnasked' /\ WritersAsked'
      <3>1. Other(call[j].pair) \in Pairs
        BY <2>12, CallAt, OtherPair DEF UnfollowRemove, TypeOK
      <3>2. rel' = rel \/ rel' = [rel EXCEPT ![Other(call[j].pair)] = None]
        BY <2>12 DEF UnfollowRemove
      <3>3. NobodyFollowsUnasked'
        BY <2>a, <2>b, <3>1, <3>2, OneDocument
      <3>4. WritersAsked'
        BY <2>12, <2>d DEF UnfollowRemove, Over
      <3> QED BY <3>3, <3>4
    <2>13. ASSUME NEW j \in Calls, UnfollowLower(j)
           PROVE  NobodyFollowsUnasked' /\ WritersAsked'
      <3> DEFINE back == Other(call[j].pair)
                 d == [rel[back] EXCEPT !.round = 1]
      <3>1. back \in Pairs
        BY <2>13, CallAt, OtherPair DEF UnfollowLower, TypeOK
      <3>2. rel' = rel \/ (rel[back] # None /\ rel' = [rel EXCEPT ![back] = d])
        BY <2>13 DEF UnfollowLower, Found
      <3>3. rel[back] # None => d.type = rel[back].type /\ d.round = 1
        BY <3>1 DEF TypeOK, Document
      <3>4. rel[back] # None /\ d.type = "following" => back \in asked'
        BY <2>a, <3>1, <3>3 DEF NobodyFollowsUnasked
      <3> HIDE DEF back, d
      <3>5. NobodyFollowsUnasked'
        BY <2>a, <2>b, <3>1, <3>2, <3>3, <3>4, OneDocument
      <3>6. WritersAsked'
        BY <2>13, <2>d DEF UnfollowLower, Over
      <3> QED BY <3>5, <3>6
    <2>14. ASSUME NEW u \in Users, CleanupUser(u)
           PROVE  NobodyFollowsUnasked' /\ WritersAsked'
      BY <2>14 DEF CleanupUser, NobodyFollowsUnasked, WritersAsked, Other
    <2>15. CASE UNCHANGED vars
      BY <2>15 DEF vars, NobodyFollowsUnasked, WritersAsked, Other
    <2> QED BY <2>3, <2>4, <2>5, <2>7, <2>8, <2>9, <2>10, <2>11, <2>12, <2>13,
               <2>14, <2>15 DEF Next
  <1> QED BY <1>1, <1>2, FriendsTypeOK, PTL DEF Spec

-----------------------------------------------------------------------------
\* The documents of two users agree: a follower has someone who follows it, in
\* the same round, and who follows alone is of round one.
Agree(own, back) ==
    own # None =>
        \/ back # None /\ back.type # own.type /\ back.round = own.round
        \/ back = None /\ own.type = "following" /\ own.round = 1

Fit(own, back) == Agree(own, back) /\ Agree(back, own)

\* What the documents of its pair are when a call that runs alone is at a
\* statement: what it has read still holds, and what it has written is there.
Stage(c, own, back) ==
    /\ c.at \in {"seek", "own"} =>
         Fit(own, back) /\ (own # None => own.type = "follower")
    /\ c.at = "own" => (c.round = 2 <=> (back # None /\ back.type = "following"))
    /\ c.at \in {"target", "ownAgain", "targetAgain", "notify"} =>
         own # None /\ own.type = "following" /\ own.round = c.round
    /\ c.at = "target" => IF c.round = 1 THEN back = None
                          ELSE back # None /\ back.type = "following"
    /\ c.at \in {"ownAgain", "targetAgain", "notify"} =>
         back # None /\ back.type = "follower" /\ back.round = c.round
    /\ c.at \in {"look", "remove", "lower"} => own = None
    /\ c.at \in {"remove", "lower"} => back # None /\ back.id = c.id
    /\ c.at = "lower" => back.type = "following"

Untouched(pair) == \A j \in Calls : Running(j) => call[j].pair \notin {pair, Other(pair)}

\* While nothing has overlapped or failed: at most one call runs, its pair is
\* between two statements of it, and every other pair agrees.
SerialInv ==
    ~disturbed =>
        /\ \A j, k \in Calls : Running(j) /\ Running(k) => j = k
        /\ \A j \in Calls :
             Running(j) => Stage(call[j], rel[call[j].pair], rel[Other(call[j].pair)])
        /\ \A pair \in Pairs : Untouched(pair) => Fit(rel[pair], rel[Other(pair)])


LEMMA FitBothWays ==
    ASSUME NEW own, NEW back, Fit(own, back)
    PROVE  Fit(back, own)
  BY DEF Fit

\* What is known when call j runs alone on a pair.
LEMMA WhoRunsAlone ==
    ASSUME TypeOK, SerialInv, ~disturbed, NEW j \in Calls, Running(j)
    PROVE  /\ call[j].pair \in Pairs
           /\ \A k \in Calls : Running(k) => k = j
           /\ \A p \in Pairs \ {call[j].pair, Other(call[j].pair)} : Fit(rel[p], rel[Other(p)])
           /\ Stage(call[j], rel[call[j].pair], rel[Other(call[j].pair)])
  <1>1. call[j].pair \in Pairs
    BY CallAt DEF TypeOK, Running, Call
  <1>2. \A k \in Calls : Running(k) => k = j
    BY DEF SerialInv
  <1>3. ASSUME NEW p \in Pairs \ {call[j].pair, Other(call[j].pair)}
        PROVE  Fit(rel[p], rel[Other(p)])
    <2>1. call[j].pair \notin {p, Other(p)}
      BY <1>1, <1>3, OtherPair
    <2>2. Untouched(p)
      BY <1>2, <2>1 DEF Untouched
    <2> QED BY <2>2 DEF SerialInv
  <1> QED BY <1>1, <1>2, <1>3 DEF SerialInv

\* Nobody runs: every pair agrees.
LEMMA NobodyRuns ==
    ASSUME SerialInv, ~disturbed, \A k \in Calls : ~Running(k), NEW p \in Pairs
    PROVE  Fit(rel[p], rel[Other(p)])
  BY DEF SerialInv, Untouched

\* The only call that runs does a step on its pair.
LEMMA StepAlone ==
    ASSUME TypeOK, NEW j \in Calls, NEW pair \in Pairs, NEW c,
           call' = [call EXCEPT ![j] = c],
           \A k \in Calls : Running(k) => k = j,
           \A p \in Pairs \ {pair, Other(pair)} :
               rel'[p] = rel[p] /\ Fit(rel[p], rel[Other(p)]),
           \/ c = Over /\ Fit(rel'[pair], rel'[Other(pair)])
           \/ /\ c.at \notin {"idle", "over"} /\ c.pair = pair
              /\ Stage(c, rel'[pair], rel'[Other(pair)])
    PROVE  SerialInv'
  <1>1. call'[j] = c /\ \A k \in Calls : k # j => call'[k] = call[k]
    BY DEF TypeOK
  <1>2. \A k \in Calls : Running(k)' => k = j
    BY <1>1 DEF Running
  <1>3. ASSUME NEW p \in Pairs \ {pair, Other(pair)} PROVE Fit(rel'[p], rel'[Other(p)])
    <2>1. Other(p) \in Pairs \ {pair, Other(pair)}
      BY OtherPair
    <2> QED BY <1>3, <2>1
  <1>4. CASE c = Over /\ Fit(rel'[pair], rel'[Other(pair)])
    <2>1. \A k \in Calls : ~Running(k)'
      BY <1>1, <1>2, <1>4 DEF Running, Over
    <2>2. Fit(rel'[Other(pair)], rel'[Other(Other(pair))])
      BY <1>4, OtherPair, FitBothWays
    <2>3. \A p \in Pairs : Fit(rel'[p], rel'[Other(p)])
      BY <1>3, <1>4, <2>2
    <2> QED BY <2>1, <2>3 DEF SerialInv
  <1>5. CASE /\ c.at \notin {"idle", "over"} /\ c.pair = pair
             /\ Stage(c, rel'[pair], rel'[Other(pair)])
    <2>1. Running(j)' /\ call'[j].pair = pair
      BY <1>1, <1>5 DEF Running
    <2>2. ASSUME NEW p \in Pairs, Untouched(p)' PROVE Fit(rel'[p], rel'[Other(p)])
      <3>1. pair \notin {p, Other(p)}
        BY <2>1, <2>2 DEF Untouched, Other
      <3>2. p \notin {pair, Other(pair)}
        BY <3>1, OtherPair
      <3> QED BY <1>3, <3>2
    <2> QED BY <1>1, <1>2, <1>5, <2>1, <2>2 DEF SerialInv, Other
  <1> QED BY <1>4, <1>5

\* A statement of the call that runs alone: its documents before, and after.
LEMMA StatementAlone ==
    ASSUME TypeOK, SerialInv, ~disturbed, NEW j \in Calls, Running(j), NEW c,
           call' = [call EXCEPT ![j] = c],
           NEW new \in {call[j].pair, Other(call[j].pair)}, NEW d,
           rel' = rel \/ rel' = [rel EXCEPT ![new] = d],
           \/ c = Over /\ Fit(rel'[call[j].pair], rel'[Other(call[j].pair)])
           \/ /\ c.at \notin {"idle", "over"} /\ c.pair = call[j].pair
              /\ Stage(c, rel'[call[j].pair], rel'[Other(call[j].pair)])
    PROVE  SerialInv'
  <1> DEFINE pair == call[j].pair
  <1>1. pair \in Pairs /\ Other(pair) \in Pairs
    BY WhoRunsAlone, OtherPair
  <1>2. \A p \in Pairs \ {pair, Other(pair)} : rel'[p] = rel[p] /\ Fit(rel[p], rel[Other(p)])
    BY <1>1, WhoRunsAlone DEF TypeOK
  <1>3. \A k \in Calls : Running(k) => k = j
    BY WhoRunsAlone
  <1> QED BY <1>1, <1>2, <1>3, StepAlone


\* After calls one after the other the documents of any two users agree.
THEOREM FriendsFollowersAreFollowed == Spec => []FollowersAreFollowed
  <1>1. Init => SerialInv
    BY DEF Init, SerialInv, Running, Idle, Fit, Agree, Pairs, Other
  <1>2. TypeOK /\ SerialInv /\ [Next]_vars => SerialInv'
    <2> SUFFICES ASSUME TypeOK, SerialInv, [Next]_vars, ~disturbed' PROVE SerialInv'
      BY DEF SerialInv
    <2>1. ~disturbed
      BY DEF Next, FollowRead, UnfollowOwn, FollowSeek, FollowOwn, FollowTarget, FollowEnd,
             Notify, UnfollowRead, UnfollowRemove, UnfollowLower, Fails, CleanupUser,
             Overlaps, vars
    <2>2. ASSUME Overlaps = disturbed' PROVE \A k \in Calls : ~Running(k)
      BY <2>2 DEF Overlaps
    <2>3. ASSUME NEW j \in Calls, NEW pair \in Pairs, FollowRead(j, pair) PROVE SerialInv'
      <3> DEFINE next == [at |-> "seek", pair |-> pair]
      <3>1. \A k \in Calls : ~Running(k)
        BY <2>3, <2>2 DEF FollowRead
      <3>2. \A p \in Pairs : rel'[p] = rel[p] /\ Fit(rel[p], rel[Other(p)])
        BY <2>1, <2>3, <3>1, NobodyRuns DEF FollowRead
      <3>3. Fit(rel'[pair], rel'[Other(pair)])
        BY <3>2, OtherPair
      <3>4. CASE rel[pair] # None /\ rel[pair].type = "following"
        <4>1. call' = [call EXCEPT ![j] = Over]
          BY <2>3, <3>4 DEF FollowRead
        <4> QED BY <3>1, <3>2, <3>3, <4>1, StepAlone
      <3>5. CASE ~(rel[pair] # None /\ rel[pair].type = "following")
        <4>1. call' = [call EXCEPT ![j] = next]
          BY <2>3, <3>5 DEF FollowRead
        <4>2. rel'[pair] # None => rel'[pair].type = "follower"
          BY <3>2, <3>5 DEF TypeOK, Document
        <4>3. next.at = "seek" /\ next.pair = pair
          OBVIOUS
        <4> HIDE DEF next
        <4>4. Stage(next, rel'[pair], rel'[Other(pair)])
          BY <3>3, <4>2, <4>3 DEF Stage
        <4> QED BY <3>1, <3>2, <4>1, <4>3, <4>4, StepAlone
      <3> QED BY <3>4, <3>5
    <2>4. ASSUME NEW j \in Calls, NEW pair \in Pairs, UnfollowOwn(j, pair) PROVE SerialInv'
      <3> DEFINE next == [at |-> "look", pair |-> pair]
      <3>1. \A k \in Calls : ~Running(k)
        BY <2>4, <2>2 DEF UnfollowOwn
      <3>2. \A p \in Pairs \ {pair, Other(pair)} :
              rel'[p] = rel[p] /\ Fit(rel[p], rel[Other(p)])
        BY <2>1, <2>4, <3>1, NobodyRuns DEF UnfollowOwn, TypeOK
      <3>3. rel'[pair] = None /\ call' = [call EXCEPT ![j] = next]
        BY <2>4 DEF UnfollowOwn, TypeOK
      <3>4. next.at = "look" /\ next.pair = pair
        OBVIOUS
      <3> HIDE DEF next
      <3>5. Stage(next, rel'[pair], rel'[Other(pair)])
        BY <3>3, <3>4 DEF Stage
      <3> QED BY <3>1, <3>2, <3>3, <3>4, <3>5, StepAlone
    \* A statement of a follow, which keeps its pair and its round.
    <2>a. ASSUME NEW j \in Calls, call[j].at \in Writes \cup {"notify"}, NEW at
          PROVE  /\ [call[j] EXCEPT !.at = at].at = at
                 /\ [call[j] EXCEPT !.at = at].pair = call[j].pair
                 /\ [call[j] EXCEPT !.at = at].round = call[j].round
                 /\ call[j].round \in {1, 2} /\ Running(j)
      BY <2>a, CallAt DEF TypeOK, Running, Writes
    <2>5. ASSUME NEW j \in Calls, FollowSeek(j) PROVE SerialInv'
      <3> DEFINE pair == call[j].pair
                 back == rel[Other(pair)]
                 mutual == back # None /\ back.type = "following"
                 next == [at |-> "own", pair |-> pair, round |-> IF mutual THEN 2 ELSE 1]
      <3>1. Running(j) /\ Stage(call[j], rel[pair], back)
        BY <2>1, <2>5, WhoRunsAlone DEF FollowSeek, Running
      <3>2. Fit(rel[pair], back) /\ (rel[pair] # None => rel[pair].type = "follower")
        BY <2>5, <3>1 DEF FollowSeek, Stage
      <3>3. call' = [call EXCEPT ![j] = next] /\ rel' = rel
        BY <2>5 DEF FollowSeek
      <3>4. next.at = "own" /\ next.pair = pair /\ (next.round = 2 <=> mutual)
        OBVIOUS
      <3> HIDE DEF next
      <3>5. Stage(next, rel[pair], back)
        BY <3>2, <3>4 DEF Stage
      <3> QED BY <2>1, <3>1, <3>3, <3>4, <3>5, StatementAlone
    <2>6. ASSUME NEW j \in Calls, FollowOwn(j) PROVE SerialInv'
      <3> DEFINE pair == call[j].pair
                 back == rel[Other(pair)]
                 next == [call[j] EXCEPT
                            !.at = IF call[j].at = "own" THEN "target" ELSE "targetAgain"]
      <3>1. call[j].at \in Writes /\ call[j].at \in {"own", "ownAgain"}
        BY <2>6 DEF FollowOwn, Writes
      <3>2. /\ next.at = IF call[j].at = "own" THEN "target" ELSE "targetAgain"
            /\ next.pair = pair /\ next.round = call[j].round
            /\ call[j].round \in {1, 2} /\ Running(j)
        BY <2>a, <3>1
      <3>3. /\ pair \in Pairs /\ Other(pair) \in Pairs /\ Other(pair) # pair
            /\ Stage(call[j], rel[pair], back)
        BY <2>1, <3>2, WhoRunsAlone, OtherPair DEF Pairs, Other
      <3>4. PICK d \in Document : /\ d.type = "following" /\ d.round = call[j].round
                                  /\ rel' = [rel EXCEPT ![pair] = d]
        BY <2>6, <3>1, <3>3, PutType DEF FollowOwn
      <3>5. rel'[pair] = d /\ d # None /\ rel'[Other(pair)] = back
        BY <3>3, <3>4, FriendsAssumption DEF TypeOK
      <3>6. back # None => back.type \in {"following", "follower"}
        BY <3>3 DEF TypeOK, Document
      <3>7. call' = [call EXCEPT ![j] = next]
        BY <2>6 DEF FollowOwn, Goes
      <3> HIDE DEF next, pair, back
      <3>8. Stage(next, d, back)
        BY <3>1, <3>2, <3>3, <3>4, <3>5, <3>6 DEF Stage, Fit, Agree
      <3> QED BY <2>1, <3>1, <3>2, <3>4, <3>5, <3>7, <3>8, StatementAlone DEF pair
    \* The document about the caller is written; the caller's is there already.
    <2>b. ASSUME NEW j \in Calls, call[j].at \in {"target", "targetAgain"},
                 NEW at \in {"ownAgain", "notify"}, NEW d, d # None,
                 d.type = "follower", d.round = call[j].round, Goes(j, at),
                 rel' = [rel EXCEPT ![Other(call[j].pair)] = d]
          PROVE  SerialInv'
      <3> DEFINE pair == call[j].pair
                 next == [call[j] EXCEPT !.at = at]
      <3>1. /\ next.at = at /\ next.pair = pair /\ next.round = call[j].round
            /\ Running(j)
        BY <2>a, <2>b DEF Writes
      <3>2. /\ pair \in Pairs /\ Other(pair) \in Pairs /\ Other(pair) # pair
            /\ Stage(call[j], rel[pair], rel[Other(pair)])
        BY <2>1, <3>1, WhoRunsAlone, OtherPair DEF Pairs, Other
      <3>3. rel'[pair] = rel[pair] /\ rel'[Other(pair)] = d
        BY <2>b, <3>2 DEF TypeOK
      <3>4. call' = [call EXCEPT ![j] = next]
        BY <2>b DEF Goes
      <3> HIDE DEF next
      <3>5. Stage(next, rel[pair], d)
        BY <2>b, <3>1, <3>2 DEF Stage
      <3> QED BY <2>1, <2>b, <3>1, <3>3, <3>4, <3>5, StatementAlone
    <2>7. ASSUME NEW j \in Calls, FollowTarget(j) PROVE SerialInv'
      <3>1. call[j].at \in Writes /\ Other(call[j].pair) \in Pairs
        BY <2>7, CallAt, OtherPair DEF FollowTarget, TypeOK, Writes
      <3>2. PICK d \in Document : /\ d.type = "follower" /\ d.round = call[j].round
                                  /\ rel' = [rel EXCEPT ![Other(call[j].pair)] = d]
        BY <2>7, <3>1, PutType DEF FollowTarget
      <3> QED BY <2>7, <2>b, <3>2, FriendsAssumption DEF FollowTarget
    <2>8. ASSUME NEW j \in Calls, FollowEnd(j) PROVE SerialInv'
      <3> DEFINE back == Other(call[j].pair)
      <3>1. call[j].at \in Writes /\ back \in Pairs
        BY <2>8, CallAt, OtherPair DEF FollowEnd, TypeOK, Writes
      <3>2. CASE call[j].round = 1
        <4>1. PICK d \in Document : /\ d.type = "follower" /\ d.round = call[j].round
                                    /\ rel' = [rel EXCEPT ![back] = d]
          BY <2>8, <3>1, <3>2, PutType DEF FollowEnd
        <4> QED BY <2>8, <2>b, <4>1, FriendsAssumption DEF FollowEnd
      <3>3. CASE call[j].round # 1
        <4> DEFINE d == [rel[back] EXCEPT !.round = 2]
        <4>1. rel[back] # None /\ rel[back].type = "follower" /\ call[j].round = 2
          BY <2>1, <2>8, <2>a, <3>1, <3>3, WhoRunsAlone DEF FollowEnd, Stage
        <4>2. d \in Document /\ d.type = "follower" /\ d.round = 2
          BY <3>1, <4>1 DEF TypeOK, Document
        <4>3. rel' = [rel EXCEPT ![back] = d]
          BY <2>8, <3>3, <4>1 DEF FollowEnd
        <4> HIDE DEF d
        <4> QED BY <2>8, <2>b, <4>1, <4>2, <4>3, FriendsAssumption DEF FollowEnd
      <3> QED BY <3>2, <3>3
    <2>9. ASSUME NEW j \in Calls, Notify(j) PROVE SerialInv'
      <3>1. Running(j) /\ Stage(call[j], rel[call[j].pair], rel[Other(call[j].pair)])
        BY <2>1, <2>9, <2>a, WhoRunsAlone DEF Notify, Running
      <3>2. Fit(rel[call[j].pair], rel[Other(call[j].pair)])
        BY <2>9, <3>1 DEF Notify, Stage, Fit, Agree
      <3> QED BY <2>1, <2>9, <3>1, <3>2, StatementAlone DEF Notify
    <2>10. ASSUME NEW j \in Calls, UnfollowRead(j) PROVE SerialInv'
      <3> DEFINE pair == call[j].pair
                 back == rel[Other(pair)]
                 next == [at |-> IF back.type = "follower" THEN "remove" ELSE "lower",
                          pair |-> pair, id |-> back.id]
      <3>1. Running(j) /\ pair \in Pairs /\ Other(pair) \in Pairs
        BY <2>1, <2>10, WhoRunsAlone, OtherPair DEF UnfollowRead, Running
      <3>2. rel[pair] = None
        BY <2>1, <2>10, <3>1, WhoRunsAlone DEF UnfollowRead, Stage
      <3>3. rel' = rel
        BY <2>10 DEF UnfollowRead
      <3>4. CASE back = None \/ (back.type = "following" /\ back.round = 1)
        <4>1. Fit(rel[pair], back)
          BY <3>2, <3>4 DEF Fit, Agree
        <4>2. call' = [call EXCEPT ![j] = Over]
          BY <2>10, <3>4 DEF UnfollowRead
        <4> QED BY <2>1, <3>1, <3>3, <4>1, <4>2, StatementAlone
      <3>5. CASE ~(back = None \/ (back.type = "following" /\ back.round = 1))
        <4>1. call' = [call EXCEPT ![j] = next]
          BY <2>10, <3>5 DEF UnfollowRead
        <4>2. /\ next.at = IF back.type = "follower" THEN "remove" ELSE "lower"
              /\ next.pair = pair /\ next.id = back.id
          OBVIOUS
        <4>3. back # None /\ back.type \in {"following", "follower"}
          BY <3>1, <3>5 DEF TypeOK, Document
        <4> HIDE DEF next, back
        <4>4. Stage(next, rel[pair], back)
          BY <3>2, <4>2, <4>3 DEF Stage
        <4> QED BY <2>1, <3>1, <3>3, <4>1, <4>2, <4>4, StatementAlone DEF back
      <3> QED BY <3>4, <3>5
    \* What an unfollow has read is still there.
    <2>c. ASSUME NEW j \in Calls, call[j].at \in {"remove", "lower"}
          PROVE  /\ Running(j) /\ Found(j) /\ rel[call[j].pair] = None
                 /\ Other(call[j].pair) \in Pairs /\ Other(call[j].pair) # call[j].pair
                 /\ call[j].at = "lower" => rel[Other(call[j].pair)].type = "following"
      <3>1. Running(j)
        BY <2>c DEF Running
      <3>2. call[j].pair \in Pairs
        BY <2>1, <3>1, WhoRunsAlone
      <3>3. Other(call[j].pair) \in Pairs /\ Other(call[j].pair) # call[j].pair
        BY <3>2, OtherPair DEF Pairs, Other
      <3>4. Stage(call[j], rel[call[j].pair], rel[Other(call[j].pair)])
        BY <2>1, <3>1, WhoRunsAlone
      <3> QED BY <2>c, <3>1, <3>3, <3>4 DEF Stage, Found
    <2>11. ASSUME NEW j \in Calls, UnfollowRemove(j) PROVE SerialInv'
      <3>1. rel' = [rel EXCEPT ![Other(call[j].pair)] = None]
        BY <2>11, <2>c DEF UnfollowRemove
      <3>2. rel'[call[j].pair] = None /\ rel'[Other(call[j].pair)] = None
        BY <2>11, <2>c, <3>1 DEF UnfollowRemove, TypeOK
      <3>3. Fit(rel'[call[j].pair], rel'[Other(call[j].pair)])
        BY <3>2 DEF Fit, Agree
      <3> QED BY <2>1, <2>11, <2>c, <3>1, <3>3, StatementAlone DEF UnfollowRemove
    <2>12. ASSUME NEW j \in Calls, UnfollowLower(j) PROVE SerialInv'
      <3> DEFINE d == [rel[Other(call[j].pair)] EXCEPT !.round = 1]
      <3>1. rel' = [rel EXCEPT ![Other(call[j].pair)] = d]
        BY <2>12, <2>c DEF UnfollowLower
      <3>2. rel'[call[j].pair] = None /\ rel'[Other(call[j].pair)] = d
        BY <2>12, <2>c, <3>1 DEF UnfollowLower, TypeOK
      <3>3. d.type = "following" /\ d.round = 1
        BY <2>12, <2>c DEF UnfollowLower, TypeOK, Document, Found
      <3> HIDE DEF d
      <3>4. Fit(rel'[call[j].pair], rel'[Other(call[j].pair)])
        BY <3>2, <3>3 DEF Fit, Agree
      <3> QED BY <2>1, <2>12, <2>c, <3>1, <3>4, StatementAlone DEF UnfollowLower
    <2>13. ASSUME NEW j \in Calls, Fails(j) PROVE SerialInv'
      BY <2>13 DEF Fails
    <2>14. ASSUME NEW u \in Users, CleanupUser(u) PROVE SerialInv'
      <3>1. \A k \in Calls : ~Running(k)
        BY <2>14, <2>2 DEF CleanupUser
      <3>2. \A k \in Calls : ~Running(k)'
        BY <2>14, <3>1 DEF CleanupUser, Running
      <3>3. ASSUME NEW p \in Pairs PROVE Fit(rel'[p], rel'[Other(p)])
        <4>1. CASE u \in {p[1], p[2]}
          <5>1. rel'[p] = None /\ rel'[Other(p)] = None
            BY <2>14, <4>1, OtherPair DEF CleanupUser, Other
          <5> QED BY <5>1 DEF Fit, Agree
        <4>2. CASE u \notin {p[1], p[2]}
          <5>1. rel'[p] = rel[p] /\ rel'[Other(p)] = rel[Other(p)]
            BY <2>14, <4>2, OtherPair DEF CleanupUser, Other
          <5> QED BY <2>1, <3>1, <5>1, NobodyRuns
        <4> QED BY <4>1, <4>2
      <3> QED BY <3>2, <3>3 DEF SerialInv
    <2>15. CASE UNCHANGED vars
      <3>1. \A j \in Calls : Running(j)' <=> Running(j)
        BY <2>15 DEF vars, Running
      <3>2. \A p \in Pairs : Untouched(p)' <=> Untouched(p)
        BY <2>15, <3>1 DEF vars, Untouched, Other
      <3> QED BY <2>15, <3>1, <3>2 DEF vars, SerialInv, Other
    <2> QED BY <2>3, <2>4, <2>5, <2>6, <2>7, <2>8, <2>9, <2>10, <2>11, <2>12,
               <2>13, <2>14, <2>15 DEF Next
  <1>3. TypeOK /\ SerialInv => FollowersAreFollowed
    <2> SUFFICES ASSUME TypeOK, SerialInv, ~disturbed, \A j \in Calls : ~Running(j),
                        NEW pair \in Pairs, rel[pair] # None
                 PROVE  \/ /\ rel[Other(pair)] # None
                           /\ rel[Other(pair)].type # rel[pair].type
                           /\ rel[Other(pair)].round = rel[pair].round
                        \/ /\ rel[Other(pair)] = None
                           /\ rel[pair].type = "following" /\ rel[pair].round = 1
      BY DEF FollowersAreFollowed
    <2>1. Fit(rel[pair], rel[Other(pair)])
      BY NobodyRuns
    <2> QED BY <2>1 DEF Fit, Agree
  <1> QED BY <1>1, <1>2, <1>3, FriendsTypeOK, PTL DEF Spec

=============================================================================
