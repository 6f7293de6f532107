------------------------------- MODULE Friends -------------------------------
(***************************************************************************)
(* Follows.  Two users have a document each about the other: following or  *)
(* follower, of round one or, when both follow, of round two.  follow and  *)
(* unfollow read and write the two documents one statement after the       *)
(* other; calls overlap, and a call may fail after any statement.          *)
(***************************************************************************)
EXTENDS Integers, FiniteSets

CONSTANTS Users,
          Calls,   \* executions of follow and unfollow
          None     \* no document

VARIABLES rel,        \* friends: the document of an owner about a friend
          call,       \* how far each call is
          asked,      \* history: <<a, b>> when a has asked to follow b
          disturbed   \* history: two calls have overlapped, or one has failed

vars == <<rel, call, asked, disturbed>>

Idle == [at |-> "idle"]
Over == [at |-> "over"]

Writes == {"own", "target", "ownAgain", "targetAgain"}
\* A document keeps its _id until it is deleted: the write that inserted it.
Document == [type: {"following", "follower"}, round: {1, 2},
             id: Calls \X Writes]
\* No document is none of the documents.
ASSUME FriendsAssumption == None \notin Document

Pairs == {pair \in Users \X Users : pair[1] # pair[2]}
Other(pair) == <<pair[2], pair[1]>>

\* A call between its statements, with what it has read.
Call == [at: {"idle", "over"}]
        \cup [at: {"seek", "look"}, pair: Pairs]
        \cup [at: Writes \cup {"notify"}, pair: Pairs, round: {1, 2}]
        \cup [at: {"remove", "lower"}, pair: Pairs, id: Calls \X Writes]

Running(j) == call[j].at \notin {"idle", "over"}

Init ==
    /\ rel = [pair \in Pairs |-> None]
    /\ call = [j \in Calls |-> Idle]
    /\ asked = {}
    /\ disturbed = FALSE

Overlaps == disturbed \/ \E j \in Calls : Running(j)

\* findOne of the caller's document: who follows already is turned away.
FollowRead(j, pair) ==
    /\ call[j] = Idle
    /\ call' = [call EXCEPT ![j] =
         IF rel[pair] # None /\ rel[pair].type = "following" THEN Over
         ELSE [at |-> "seek", pair |-> pair]]
    /\ asked' = asked \cup {pair}
    /\ disturbed' = Overlaps
    /\ UNCHANGED rel

\* A plausible mistake: any document of the target counts as a follow.
FollowSeekAny(j) ==
    /\ call[j].at = "seek"
    /\ LET mutual == rel[Other(call[j].pair)] # None
       IN  call' = [call EXCEPT ![j] =
             [at |-> "own", pair |-> call[j].pair, round |-> IF mutual THEN 2 ELSE 1]]
    /\ UNCHANGED <<rel, asked, disturbed>>

\* Does the target follow the caller?
FollowSeek(j) ==
    /\ call[j].at = "seek"
    /\ LET back == rel[Other(call[j].pair)]
           mutual == back # None /\ back.type = "following"
       IN  call' = [call EXCEPT ![j] =
             [at |-> "own", pair |-> call[j].pair, round |-> IF mutual THEN 2 ELSE 1]]
    /\ UNCHANGED <<rel, asked, disturbed>>

\* findOneAndUpdate with upsert.
Put(j, pair, type) ==
    rel' = [rel EXCEPT ![pair] =
        [type |-> type, round |-> call[j].round,
         id |-> IF rel[pair] = None THEN <<j, call[j].at>> ELSE rel[pair].id]]

Goes(j, place) == call' = [call EXCEPT ![j].at = place]

FollowOwn(j) ==
    /\ call[j].at \in {"own", "ownAgain"}
    /\ Put(j, call[j].pair, "following")
    /\ Goes(j, IF call[j].at = "own" THEN "target" ELSE "targetAgain")
    /\ UNCHANGED <<asked, disturbed>>

\* The type is written whatever the target's document says.
FollowTarget(j) ==
    /\ call[j].at = "target"
    /\ Put(j, Other(call[j].pair), "follower")
    /\ Goes(j, "ownAgain")
    /\ UNCHANGED <<asked, disturbed>>

\* Of a mutual follow only the round is written again, and only if there is a
\* document.
FollowEnd(j) ==
    LET back == Other(call[j].pair)
    IN  /\ call[j].at = "targetAgain"
        /\ IF call[j].round = 1 THEN Put(j, back, "follower")
           ELSE rel' = IF rel[back] = None THEN rel
                       ELSE [rel EXCEPT ![back].round = 2]
        /\ Goes(j, "notify")
        /\ UNCHANGED <<asked, disturbed>>

\* The notification changes no document, and its failure is logged.
Notify(j) ==
    /\ call[j].at = "notify"
    /\ call' = [call EXCEPT ![j] = Over]
    /\ UNCHANGED <<rel, asked, disturbed>>

UnfollowOwn(j, pair) ==
    /\ call[j] = Idle
    /\ rel' = [rel EXCEPT ![pair] = None]
    /\ call' = [call EXCEPT ![j] = [at |-> "look", pair |-> pair]]
    /\ disturbed' = Overlaps
    /\ UNCHANGED asked

\* A plausible mistake: the document of a follower is left alone.
UnfollowReadFollowing(j) ==
    LET back == rel[Other(call[j].pair)]
    IN  /\ call[j].at = "look"
        /\ call' = [call EXCEPT ![j] =
             IF back # None /\ back.type = "following" /\ back.round = 2
             THEN [at |-> "lower", pair |-> call[j].pair, id |-> back.id] ELSE Over]
        /\ UNCHANGED <<rel, asked, disturbed>>

UnfollowRead(j) ==
    LET back == rel[Other(call[j].pair)]
    IN  /\ call[j].at = "look"
        /\ call' = [call EXCEPT ![j] =
             IF back = None \/ (back.type = "following" /\ back.round = 1) THEN Over
             ELSE [at |-> IF back.type = "follower" THEN "remove" ELSE "lower",
                   pair |-> call[j].pair, id |-> back.id]]
        /\ UNCHANGED <<rel, asked, disturbed>>

\* Is the document that was read still there?
Found(j) ==
    LET back == rel[Other(call[j].pair)] IN back # None /\ back.id = call[j].id

UnfollowRemove(j) ==
    /\ call[j].at = "remove"
    /\ rel' = IF Found(j) THEN [rel EXCEPT ![Other(call[j].pair)] = None] ELSE rel
    /\ call' = [call EXCEPT ![j] = Over]
    /\ UNCHANGED <<asked, disturbed>>

\* save() of the document: only the round; an error if it is gone.
UnfollowLower(j) ==
    /\ call[j].at = "lower"
    /\ rel' = IF Found(j) THEN [rel EXCEPT ![Other(call[j].pair)].round = 1] ELSE rel
    /\ call' = [call EXCEPT ![j] = Over]
    /\ UNCHANGED <<asked, disturbed>>

\* A statement fails, or the process dies: what was written stays.
Fails(j) ==
    /\ Running(j)
    /\ call' = [call EXCEPT ![j] = Over]
    /\ disturbed' = TRUE
    /\ UNCHANGED <<rel, asked>>

\* cleanupUser, in the transaction of an account's deletion.
CleanupUser(u) ==
    /\ \E pair \in Pairs : u \in {pair[1], pair[2]} /\ rel[pair] # None
    /\ rel' = [pair \in Pairs |-> IF u \in {pair[1], pair[2]} THEN None ELSE rel[pair]]
    /\ disturbed' = Overlaps
    /\ UNCHANGED <<call, asked>>

Next ==
    \/ \E j \in Calls, pair \in Pairs : FollowRead(j, pair) \/ UnfollowOwn(j, pair)
    \/ \E j \in Calls :
         \/ FollowSeek(j) \/ FollowOwn(j) \/ FollowTarget(j) \/ FollowEnd(j) \/ Notify(j)
         \/ UnfollowRead(j) \/ UnfollowRemove(j) \/ UnfollowLower(j)
         \/ Fails(j)
    \/ \E u \in Users : CleanupUser(u)

Spec == Init /\ [][Next]_vars

-----------------------------------------------------------------------------
\* Documents and calls keep their shapes.
TypeOK ==
    /\ rel \in [Pairs -> Document \cup {None}]
    /\ call \in [Calls -> Call]
    /\ asked \subseteq Pairs
    /\ disturbed \in BOOLEAN

\* However calls overlap and fail, nobody is shown as following who never asked
\* to, and two users are mutual only when both have asked, although each call
\* decides by a document it read before its writes.
NobodyFollowsUnasked ==
    \A pair \in Pairs : rel[pair] # None =>
        /\ rel[pair].type = "following" => pair \in asked
        /\ rel[pair].round = 2 => {pair, Other(pair)} \subseteq asked

\* Why: a call that is going to write has been asked for, and one that found the
\* target following knows that the target has asked.
WritersAsked ==
    \A j \in Calls :
        /\ call[j].at \in Writes \cup {"seek", "notify"} => call[j].pair \in asked
        /\ call[j].at \in Writes /\ call[j].round = 2 => Other(call[j].pair) \in asked

\* Calls one after the other leave no follower behind whom they do not show as
\* following, nor a mutual follow of one side: the documents agree in the round
\* and differ in the type, but for a user who is followed and has unfollowed.
FollowersAreFollowed ==
    (~disturbed /\ \A j \in Calls : ~Running(j)) =>
        \A pair \in Pairs : rel[pair] # None =>
            \/ /\ rel[Other(pair)] # None
               /\ rel[Other(pair)].type # rel[pair].type
               /\ rel[Other(pair)].round = rel[pair].round
            \/ /\ rel[Other(pair)] = None
               /\ rel[pair].type = "following" /\ rel[pair].round = 1

\* "Keep type as following": when a follow that made two users mutual is over,
\* and nothing came between, the one who followed first still follows.  TLC finds
\* that it is not so.
MutualKeepsFollowing ==
    \A j \in Calls : (~disturbed /\ call[j].at = "notify" /\ call[j].round = 2) =>
        rel[Other(call[j].pair)].type = "following"
=============================================================================
