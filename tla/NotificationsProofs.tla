-------------------------- MODULE NotificationsProofs --------------------------
(***************************************************************************)
(* Theorems about Notifications, for any users, requests, tokens and       *)
(* settings, and any number of errors, changes and restarts.               *)
(***************************************************************************)
EXTENDS Notifications, FiniteSetTheorems, TLAPS

(* Shapes: what jobs, dispatches and what they have read look like.          *)

UsersOK ==
    /\ here \subseteq Users /\ cleaning \subseteq here
    /\ token \in [Users -> TokensOf]
    /\ wants \in [Users -> SUBSET Channels]
    /\ dead \subseteq Tokens
    /\ wanted \in [Notes -> SUBSET (Users \X Channels)]
    /\ overtaken \subseteq Users
    /\ raced \subseteq Users \X Devices \X Tokens

DispatchOK ==
    /\ note \in [Notes -> Note]
    /\ seen \in [Notes -> Seq(SUBSET Recipient)]
    /\ served \in [Notes -> SUBSET Channels]
    /\ retries \in [Notes -> Nat]

JobsOK == jobs \subseteq Job /\ IsFiniteSet(jobs)

InboxOK ==
    /\ docs \in [Notes -> [Users -> Nat]]
    /\ unread \in [Notes -> [Users -> Nat]]
    /\ \A n \in Notes, u \in Users : unread[n][u] <= docs[n][u]
    /\ got \in [Notes -> [Address -> Nat]]

BoundsOK == events \in 0..MaxEvents /\ crashes \in 0..MaxCrashes

Known(r) == r.known \/ \A k \in Devices \cup {"legacy"} : r.token[k] = NoToken

\* A round names each user once, and no token of one who could not be read.
SeenInv ==
    \A n \in Notes : \A i \in DOMAIN seen[n] : \A r \in seen[n][i] :
        /\ Known(r)
        /\ \A s \in seen[n][i] : r.user = s.user => r = s

NotesInv ==
    \A n \in Notes :
        /\ note[n].at = "adding" => Len(seen[n]) # 0
        /\ note[n].at = "unused" => seen[n] = <<>> /\ \A a \in Address : got[n][a] = 0
        /\ note[n].at = "sending" => note[n].system \/ note[n].to = {}

\* A job is of a round that was read, and has nothing left but its targets.
JobOK(j) ==
    /\ j.round \in DOMAIN seen[j.note] /\ note[j.note].at # "unused"
    /\ j.left \subseteq Targets(j)
    /\ j.at # "sending" => j.left = {}
    /\ j.at = "storing" => j.chan = "in-app"

JobsInv == \A j \in jobs : JobOK(j)

ShapeInv ==
    /\ UsersOK /\ DispatchOK /\ JobsOK /\ InboxOK /\ BoundsOK
    /\ SeenInv /\ NotesInv /\ JobsInv

\* What was read stays, and a request stays what it is.
Onward ==
    \A n \in Notes :
        /\ \A i \in DOMAIN seen[n] : i \in DOMAIN seen'[n] /\ seen'[n][i] = seen[n][i]
        /\ note[n].at # "unused" =>
             note'[n].at # "unused" /\ note'[n].system = note[n].system

LEMMA TargetsKept ==
    ASSUME Onward, NEW j \in Job, JobOK(j)
    PROVE  Targets(j)' = Targets(j) /\ Recipients(j)' = Recipients(j)
  <1>1. Recipients(j)' = Recipients(j) /\ Anyway(j)' = Anyway(j)
    BY DEF Onward, JobOK, Job, Recipients, Anyway
  <1> QED BY <1>1 DEF Targets, EmailTargets, SmsTargets, WhatsappTargets, SlackTargets,
                      PushTargets, PushToken

LEMMA JobOKKept ==
    ASSUME Onward, NEW j \in Job, JobOK(j)
    PROVE  JobOK(j)'
  <1>1. Targets(j)' = Targets(j)
    BY TargetsKept
  <1> QED BY <1>1 DEF Onward, JobOK, Job

\* Whom a job is for: a user it knows, who wants it or is not asked, or the team.
LEMMA TargetsAre ==
    ASSUME ShapeInv, NEW j \in Job, j.round \in DOMAIN seen[j.note], NEW a \in Targets(j)
    PROVE  /\ a \in Address /\ Channel(a[1]) = j.chan
           /\ \/ a[2] = Team
              \/ \E r \in Recipients(j) : /\ r.known /\ r.user = a[2]
                                          /\ Anyway(j) \/ j.chan \in r.wants
  <1>1. Recipients(j) \subseteq Recipient
    BY DEF ShapeInv, DispatchOK, Job, Recipients
  <1>2. CASE j.chan = "email"
    <2>1. a \in EmailTargets(j)
      BY <1>2 DEF Targets
    <2> QED BY <1>1, <1>2, <2>1 DEF EmailTargets, Recipient, Address, Ways, Channel, Devices
  <1>3. CASE j.chan = "sms"
    <2>1. a \in SmsTargets(j)
      BY <1>3 DEF Targets
    <2> QED BY <1>1, <1>3, <2>1 DEF SmsTargets, Recipient, Address, Ways, Channel, Devices
  <1>4. CASE j.chan = "whatsapp"
    <2>1. a \in WhatsappTargets(j)
      BY <1>4 DEF Targets
    <2> QED BY <1>1, <1>4, <2>1 DEF WhatsappTargets, Recipient, Address, Ways, Channel, Devices
  <1>5. CASE j.chan = "slack"
    <2>1. a = <<"slack", Team>>
      BY <1>5 DEF Targets, SlackTargets
    <2> QED BY <1>5, <2>1 DEF Address, Ways, Channel, Devices
  <1>6. CASE j.chan = "push"
    <2>1. a \in PushTargets(j)
      BY <1>6 DEF Targets
    <2>2. PICK d \in Devices, r \in Recipients(j) :
            /\ a = <<d, r.user>> /\ PushToken(r, d) # NoToken
            /\ Anyway(j) \/ "push" \in r.wants
      BY <2>1 DEF PushTargets
    <2>3. Known(r) => r.known
      BY <2>2 DEF Known, PushToken, Devices
    <2>4. Known(r)
      BY DEF ShapeInv, SeenInv, Recipients, Job
    <2> QED BY <1>1, <1>6, <2>2, <2>3, <2>4 DEF Recipient, Address, Ways, Channel, Devices
  <1>7. CASE j.chan = "in-app"
    BY <1>7 DEF Targets
  <1> QED BY <1>2, <1>3, <1>4, <1>5, <1>6, <1>7 DEF Job, Channels

-----------------------------------------------------------------------------
(* Every step keeps the shapes, and goes onward.                             *)

\* The jobs that are there stay, or a new one is as a job must be.
LEMMA JobsInvKept ==
    ASSUME ShapeInv, Onward, \A k \in jobs' \ jobs : JobOK(k)'
    PROVE  JobsInv'
  <1>1. \A j \in jobs : JobOK(j)'
    BY JobOKKept DEF ShapeInv, JobsInv, JobsOK
  <1> QED BY <1>1 DEF JobsInv

\* What people do with users and documents leaves dispatches and jobs alone.
LEMMA PeopleKeep ==
    ASSUME ShapeInv, UNCHANGED <<queueVars, got>>, UsersOK', InboxOK', BoundsOK'
    PROVE  ShapeInv' /\ Onward
  <1>1. note' = note /\ seen' = seen /\ jobs' = jobs /\ served' = served
        /\ retries' = retries /\ got' = got
    BY DEF queueVars
  <1>2. Onward
    BY <1>1 DEF Onward
  <1>3. JobsInv'
    BY <1>1, <1>2, JobsInvKept
  <1>4. DispatchOK' /\ JobsOK' /\ SeenInv' /\ NotesInv'
    BY <1>1 DEF ShapeInv, DispatchOK, JobsOK, SeenInv, NotesInv
  <1> QED BY <1>2, <1>3, <1>4 DEF ShapeInv

LEMMA PeopleShape ==
    ASSUME ShapeInv, People
    PROVE  ShapeInv' /\ Onward
  <1> USE NotificationsAssumption DEF ShapeInv, UsersOK, InboxOK, BoundsOK, inboxVars, bounds
  <1>1. ASSUME NEW u \in Movers, NEW d \in Devices, NEW t \in Tokens,
               RegisterPushToken(u, d, t)
        PROVE  ShapeInv' /\ Onward
    <2>1. token' \in [Users -> TokensOf]
      BY <1>1 DEF RegisterPushToken, TokensOf
    <2>2. raced' \subseteq Users \X Devices \X Tokens
      BY <1>1 DEF RegisterPushToken
    <2>3. UsersOK'
      BY <1>1, <2>1, <2>2 DEF RegisterPushToken
    <2>4. BoundsOK'
      BY <1>1 DEF RegisterPushToken, Change, Event
    <2>5. InboxOK' /\ UNCHANGED <<queueVars, got>>
      BY <1>1 DEF RegisterPushToken
    <2> QED BY <2>3, <2>4, <2>5, PeopleKeep
  <1>2. ASSUME NEW t \in Tokens, TokenDies(t)
        PROVE  ShapeInv' /\ Onward
    <2>1. UsersOK' /\ InboxOK' /\ UNCHANGED <<queueVars, got>>
      BY <1>2 DEF TokenDies
    <2>2. BoundsOK'
      BY <1>2 DEF TokenDies, Change, Event
    <2> QED BY <2>1, <2>2, PeopleKeep
  <1>3. ASSUME NEW u \in Movers, NEW w \in Wishes, UpdateSettings(u, w)
        PROVE  ShapeInv' /\ Onward
    <2>1. wants' \in [Users -> SUBSET Channels]
      BY <1>3 DEF UpdateSettings
    <2>2. wanted' \in [Notes -> SUBSET (Users \X Channels)]
      BY <1>3 DEF UpdateSettings
    <2>3. UsersOK' /\ InboxOK' /\ UNCHANGED <<queueVars, got>>
      BY <1>3, <2>1, <2>2 DEF UpdateSettings
    <2>4. BoundsOK'
      BY <1>3 DEF UpdateSettings, Change, Event
    <2> QED BY <2>3, <2>4, PeopleKeep
  <1>4. ASSUME NEW u \in Movers, CleanupUser(u)
        PROVE  ShapeInv' /\ Onward
    <2>1. UsersOK' /\ UNCHANGED <<queueVars, got>>
      BY <1>4 DEF CleanupUser
    <2>2. InboxOK'
      BY <1>4 DEF CleanupUser
    <2>3. BoundsOK'
      BY <1>4 DEF CleanupUser, Change, Event
    <2> QED BY <2>1, <2>2, <2>3, PeopleKeep
  <1>5. ASSUME NEW u \in Movers, RemoveUser(u)
        PROVE  ShapeInv' /\ Onward
    <2>1. UsersOK' /\ InboxOK' /\ BoundsOK' /\ UNCHANGED <<queueVars, got>>
      BY <1>5 DEF RemoveUser
    <2> QED BY <2>1, PeopleKeep
  <1>6. ASSUME NEW n \in Notes, NEW u \in Movers, MarkAsRead(n, u)
        PROVE  ShapeInv' /\ Onward
    <2>1. UsersOK' /\ BoundsOK' /\ UNCHANGED <<queueVars, got>>
      BY <1>6 DEF MarkAsRead, userVars
    <2>2. InboxOK'
      BY <1>6 DEF MarkAsRead
    <2> QED BY <2>1, <2>2, PeopleKeep
  <1>7. ASSUME NEW u \in Movers, MarkAllAsRead(u)
        PROVE  ShapeInv' /\ Onward
    <2>1. UsersOK' /\ BoundsOK' /\ UNCHANGED <<queueVars, got>>
      BY <1>7 DEF MarkAllAsRead, userVars
    <2>2. InboxOK'
      BY <1>7 DEF MarkAllAsRead
    <2> QED BY <2>1, <2>2, PeopleKeep
  <1> QED BY <1>1, <1>2, <1>3, <1>4, <1>5, <1>6, <1>7 DEF People

\* How a request of each kind begins.
Begun(req) ==
    /\ req \in Note /\ req.at \notin {"unused", "adding", "ending"}
    /\ req.at = "sending" => req.system \/ req.to = {}

\* A request begins, as one that is queued, dispatched or sent by its caller.
LEMMA CreateShape ==
    ASSUME ShapeInv, NEW n \in Notes, NEW req, Begun(req), Create(n, req)
    PROVE  ShapeInv' /\ Onward
  <1> USE DEF ShapeInv, Create, Begun
  <1>1. note' = [note EXCEPT ![n] = req] /\ seen' = seen /\ jobs' = jobs
    OBVIOUS
  <1>2. Onward
    BY <1>1 DEF Onward, DispatchOK
  <1>3. JobsInv'
    BY <1>1, <1>2, JobsInvKept
  <1>4. DispatchOK' /\ JobsOK'
    BY DEF DispatchOK, JobsOK
  <1>5. wanted' \in [Notes -> SUBSET (Users \X Channels)]
    BY DEF UsersOK
  <1>6. UsersOK' /\ InboxOK' /\ BoundsOK'
    BY <1>5 DEF UsersOK, InboxOK, BoundsOK, inboxVars, bounds
  <1>7. SeenInv' /\ NotesInv'
    BY DEF SeenInv, NotesInv, DispatchOK, inboxVars
  <1> QED BY <1>2, <1>3, <1>4, <1>6, <1>7

LEMMA RequestsBegin ==
    ASSUME NEW n \in Notes, Requests(n)
    PROVE  \E req : Begun(req) /\ Create(n, req)
  <1>1. ASSUME NEW a \in Asked, Send(n, a)
        PROVE  \E req : Begun(req) /\ Create(n, req)
    <2> DEFINE req == [Unused EXCEPT !.at = "waiting", !.queued = TRUE, !.to = a.to,
                           !.chans = a.chans, !.system = a.system]
    <2>1. Begun(req)
      BY <1>1, NotificationsAssumption DEF Begun, Unused, Note, NoteStates
    <2>2. Create(n, req)
      BY <1>1 DEF Send
    <2> HIDE DEF req
    <2> QED BY <2>1, <2>2
  <1>2. ASSUME NEW f \in Users, NEW u \in Movers, SendFollowNotification(n, f, u)
        PROVE  \E req : Begun(req) /\ Create(n, req)
    <2> DEFINE req == [Unused EXCEPT !.at = "looking", !.needs = {f, u}, !.to = {u},
                           !.chans = FollowChannels]
    <2>1. Begun(req)
      BY <1>2, NotificationsAssumption DEF Begun, Unused, Note, NoteStates, FollowChannels, Channels
    <2>2. Create(n, req)
      BY <1>2 DEF SendFollowNotification
    <2> HIDE DEF req
    <2> QED BY <2>1, <2>2
  <1>3. ASSUME NEW f \in Users, NEW u \in Movers, SendUnfollowNotification(n, f, u)
        PROVE  \E req : Begun(req) /\ Create(n, req)
    <2> DEFINE req == [Unused EXCEPT !.at = "looking", !.needs = {f, u}, !.to = {u},
                           !.chans = {"in-app"}]
    <2>1. Begun(req)
      BY <1>3, NotificationsAssumption DEF Begun, Unused, Note, NoteStates, Channels
    <2>2. Create(n, req)
      BY <1>3 DEF SendUnfollowNotification
    <2> HIDE DEF req
    <2> QED BY <2>1, <2>2
  <1>4. ASSUME NEW u \in Movers, SendTransactionNotification(n, u)
        PROVE  \E req : Begun(req) /\ Create(n, req)
    <2> DEFINE req == [Unused EXCEPT !.at = "resolving", !.to = {u},
                           !.chans = TransactionChannels]
    <2>1. Begun(req)
      BY <1>4, NotificationsAssumption
         DEF Begun, Unused, Note, NoteStates, TransactionChannels, Channels
    <2>2. Create(n, req)
      BY <1>4 DEF SendTransactionNotification
    <2> HIDE DEF req
    <2> QED BY <2>1, <2>2
  <1>5. ASSUME NEW u \in Movers, SendVerificationEmail(n, u)
        PROVE  \E req : Begun(req) /\ Create(n, req)
    <2> DEFINE req == [Unused EXCEPT !.at = "sending", !.to = {u}, !.chans = {"email"},
                           !.system = TRUE]
    <2>1. Begun(req)
      BY <1>5, NotificationsAssumption DEF Begun, Unused, Note, NoteStates, Channels
    <2>2. Create(n, req)
      BY <1>5 DEF SendVerificationEmail
    <2> HIDE DEF req
    <2> QED BY <2>1, <2>2
  <1>6. ASSUME NEW u \in Movers, SendSms(n, u)
        PROVE  \E req : Begun(req) /\ Create(n, req)
    <2> DEFINE req == [Unused EXCEPT !.at = "sending", !.to = {u}, !.chans = {"sms"},
                           !.system = TRUE]
    <2>1. Begun(req)
      BY <1>6, NotificationsAssumption DEF Begun, Unused, Note, NoteStates, Channels
    <2>2. Create(n, req)
      BY <1>6 DEF SendSms
    <2> HIDE DEF req
    <2> QED BY <2>1, <2>2
  <1>7. CASE SendWhatsapp(n)
    <2> DEFINE req == [Unused EXCEPT !.at = "sending", !.chans = {"whatsapp"}]
    <2>1. Begun(req)
      BY <1>7, NotificationsAssumption DEF Begun, Unused, Note, NoteStates, Channels
    <2>2. Create(n, req)
      BY <1>7 DEF SendWhatsapp
    <2> HIDE DEF req
    <2> QED BY <2>1, <2>2
  <1>8. CASE SendSlack(n)
    <2> DEFINE req == [Unused EXCEPT !.at = "sending", !.chans = {"slack"}]
    <2>1. Begun(req)
      BY <1>8, NotificationsAssumption DEF Begun, Unused, Note, NoteStates, Channels
    <2>2. Create(n, req)
      BY <1>8 DEF SendSlack
    <2> HIDE DEF req
    <2> QED BY <2>1, <2>2
  <1> QED BY <1>1, <1>2, <1>3, <1>4, <1>5, <1>6, <1>7, <1>8 DEF Requests

\* What a step of a dispatch that adds no jobs has to keep.
LEMMA DispatchStep ==
    ASSUME ShapeInv, NEW n \in Notes, note' = [note EXCEPT ![n] = note'[n]],
           note'[n] \in Note, note[n].at # "unused",
           note'[n].at \notin {"unused", "adding", "sending"},
           note'[n].system = note[n].system,
           UNCHANGED <<userVars, seen, jobs, served, docs, unread, bounds>>,
           got' \in [Notes -> [Address -> Nat]], \A k \in Notes \ {n} : got'[k] = got[k],
           retries' \in [Notes -> Nat]
    PROVE  ShapeInv' /\ Onward
  <1> USE DEF ShapeInv
  <1>1. Onward
    BY DEF Onward, DispatchOK
  <1>2. JobsInv'
    BY <1>1, JobsInvKept
  <1>3. DispatchOK' /\ JobsOK'
    BY DEF DispatchOK, JobsOK
  <1>4. UsersOK' /\ InboxOK' /\ BoundsOK'
    BY DEF UsersOK, InboxOK, BoundsOK, userVars, bounds
  <1>5. SeenInv'
    BY DEF SeenInv
  <1>6. NotesInv'
    BY DEF NotesInv, DispatchOK
  <1> QED BY <1>1, <1>2, <1>3, <1>4, <1>5, <1>6

LEMMA SendNowShape ==
    ASSUME ShapeInv, NEW n \in Notes, SendNow(n)
    PROVE  ShapeInv' /\ Onward
  <1>1. PICK ok \in BOOLEAN,
             a \in note[n].chans \X (IF note[n].to = {} THEN {Team} ELSE note[n].to) :
               got' = IF ok THEN [got EXCEPT ![n][a] = @ + 1] ELSE got
    BY DEF SendNow
  <1>2. got' \in [Notes -> [Address -> Nat]] /\ \A k \in Notes \ {n} : got'[k] = got[k]
    <2>1. got \in [Notes -> [Address -> Nat]] /\ got[n] \in [Address -> Nat]
      BY DEF ShapeInv, InboxOK
    <2>2. CASE a \in Address
      BY <1>1, <2>1, <2>2
    <2>3. CASE a \notin Address
      <3>1. [got[n] EXCEPT ![a] = @ + 1] = got[n]
        BY <2>1, <2>3
      <3> QED BY <1>1, <2>1, <3>1
    <2> QED BY <2>2, <2>3
  <1>3. note \in [Notes -> Note] /\ note[n] \in Note /\ retries \in [Notes -> Nat]
    BY DEF ShapeInv, DispatchOK
  <1>4. note'[n] \in Note /\ note'[n].system = note[n].system /\ note'[n].at = "done"
        /\ note' = [note EXCEPT ![n] = note'[n]]
    BY <1>3 DEF SendNow, Note, NoteStates
  <1> QED BY <1>2, <1>3, <1>4, DispatchStep DEF SendNow, inboxVars

LEMMA LookUpShape ==
    ASSUME ShapeInv, NEW n \in Notes, LookUp(n)
    PROVE  ShapeInv' /\ Onward
  <1>1. note \in [Notes -> Note] /\ note[n] \in Note /\ retries \in [Notes -> Nat]
        /\ got \in [Notes -> [Address -> Nat]]
    BY DEF ShapeInv, DispatchOK, InboxOK
  <1>2. note'[n] \in Note /\ note'[n].system = note[n].system
        /\ note'[n].at \in {"resolving", "dropped"} /\ note' = [note EXCEPT ![n] = note'[n]]
    BY <1>1 DEF LookUp, Note, NoteStates
  <1> QED BY <1>1, <1>2, DispatchStep DEF LookUp, inboxVars

LEMMA TakeNoteShape ==
    ASSUME ShapeInv, NEW n \in Notes, TakeNote(n)
    PROVE  ShapeInv' /\ Onward
  <1>1. note \in [Notes -> Note] /\ note[n] \in Note /\ retries \in [Notes -> Nat]
        /\ got \in [Notes -> [Address -> Nat]]
    BY DEF ShapeInv, DispatchOK, InboxOK
  <1>2. note'[n] \in Note /\ note'[n].system = note[n].system
        /\ note'[n].at = "resolving" /\ note' = [note EXCEPT ![n] = note'[n]]
    BY <1>1 DEF TakeNote, Note, NoteStates
  <1> QED BY <1>1, <1>2, DispatchStep DEF TakeNote, inboxVars

LEMMA EndDispatchShape ==
    ASSUME ShapeInv, NEW n \in Notes, EndDispatch(n)
    PROVE  ShapeInv' /\ Onward
  <1>1. note \in [Notes -> Note] /\ note[n] \in Note /\ retries \in [Notes -> Nat]
        /\ got \in [Notes -> [Address -> Nat]]
    BY DEF ShapeInv, DispatchOK, InboxOK
  <1>2. note'[n] \in Note /\ note'[n].system = note[n].system
        /\ note'[n].at \in {"done", "dropped", "waiting", "failed"}
        /\ note' = [note EXCEPT ![n] = note'[n]]
    <2>1. CASE note' = [note EXCEPT ![n].at = "done"]
      BY <1>1, <2>1 DEF Note, NoteStates
    <2>2. CASE note' = [note EXCEPT ![n].at = "dropped"]
      BY <1>1, <2>2 DEF Note, NoteStates
    <2>3. CASE note[n].refused /\ note[n].queued
      BY <1>1, <2>3 DEF EndDispatch, Note, NoteStates
    <2> QED BY <2>1, <2>2, <2>3 DEF EndDispatch
  <1>3. retries' \in [Notes -> Nat]
    BY <1>1 DEF EndDispatch
  <1> QED BY <1>1, <1>2, <1>3, DispatchStep DEF EndDispatch, inboxVars

\* A dispatch reads its users, or has only their ids: either way each once.
LEMMA ResolvedShape ==
    ASSUME ShapeInv, NEW n \in Notes, NEW rs \in SUBSET Recipient, Resolved(n, rs),
           \A r \in rs : Known(r) /\ \A s \in rs : r.user = s.user => r = s,
           UsersOK', BoundsOK', UNCHANGED <<jobs, served, retries, inboxVars>>
    PROVE  ShapeInv' /\ Onward
  <1> USE DEF ShapeInv
  <1>1. note \in [Notes -> Note] /\ note[n] \in Note /\ seen \in [Notes -> Seq(SUBSET Recipient)]
        /\ seen[n] \in Seq(SUBSET Recipient)
    BY DEF DispatchOK
  <1>2. note'[n] \in Note /\ note'[n].system = note[n].system
        /\ note'[n].at = "adding" /\ note' = [note EXCEPT ![n] = note'[n]]
    BY <1>1 DEF Resolved, Note, NoteStates
  <1>3. /\ seen' = [seen EXCEPT ![n] = Append(seen[n], rs)]
        /\ seen'[n] = Append(seen[n], rs) /\ seen'[n] \in Seq(SUBSET Recipient)
        /\ \A k \in Notes \ {n} : seen'[k] = seen[k] /\ note'[k] = note[k]
    BY <1>1 DEF Resolved
  <1>4. Len(seen'[n]) # 0 /\ DOMAIN seen'[n] = DOMAIN seen[n] \cup {Len(seen[n]) + 1}
        /\ \A i \in DOMAIN seen[n] : seen'[n][i] = seen[n][i]
    BY <1>1, <1>3
  <1>5. seen'[n][Len(seen[n]) + 1] = rs
    BY <1>1, <1>3
  <1>6. Onward
    BY <1>2, <1>3, <1>4 DEF Onward
  <1>7. JobsInv'
    BY <1>6, JobsInvKept
  <1>8. DispatchOK' /\ JobsOK' /\ InboxOK'
    BY <1>1, <1>2, <1>3 DEF DispatchOK, JobsOK, InboxOK, inboxVars
  <1>9. SeenInv'
    <2>1. ASSUME NEW k \in Notes, NEW i \in DOMAIN seen'[k]
          PROVE  \A r \in seen'[k][i] : Known(r) /\ \A s \in seen'[k][i] : r.user = s.user => r = s
      <3>1. CASE k \in Notes \ {n} \/ i \in DOMAIN seen[n]
        BY <1>3, <1>4, <3>1 DEF SeenInv
      <3>2. CASE k = n /\ i = Len(seen[n]) + 1
        BY <1>5, <3>2
      <3> QED BY <1>4, <3>1, <3>2
    <2> QED BY <2>1 DEF SeenInv, Known
  <1>10. NotesInv'
    BY <1>2, <1>3, <1>4 DEF NotesInv, inboxVars
  <1> QED BY <1>6, <1>7, <1>8, <1>9, <1>10

LEMMA ReadIs ==
    ASSUME ShapeInv, NEW u \in Users
    PROVE  /\ Read(u) \in Recipient /\ Known(Read(u)) /\ Read(u).user = u
           /\ IdOnly(u) \in Recipient /\ Known(IdOnly(u)) /\ IdOnly(u).user = u
  <1>1. token[u] \in TokensOf /\ wants[u] \in SUBSET Channels
    BY DEF ShapeInv, UsersOK
  <1>2. [k \in Devices \cup {"legacy"} |-> NoToken] \in TokensOf
    BY DEF TokensOf
  <1> QED BY <1>1, <1>2 DEF Read, IdOnly, Recipient, Known

LEMMA ResolveShape ==
    ASSUME ShapeInv, NEW n \in Notes, Resolve(n)
    PROVE  ShapeInv' /\ Onward
  <1> DEFINE rs == {Read(u) : u \in note[n].to \cap here}
  <1>1. Resolved(n, rs) /\ UNCHANGED <<jobs, served, retries, inboxVars>>
    BY DEF Resolve
  <1>2. rs \in SUBSET Recipient /\ \A r \in rs : Known(r) /\ r = Read(r.user)
    BY ReadIs DEF ShapeInv, UsersOK
  <1>3. \A r \in rs : Known(r) /\ \A s \in rs : r.user = s.user => r = s
    BY <1>2
  <1>4. UsersOK' /\ BoundsOK'
    BY DEF ShapeInv, UsersOK, BoundsOK, Resolve, bounds
  <1> HIDE DEF rs
  <1> QED BY <1>1, <1>2, <1>3, <1>4, ResolvedShape

LEMMA ResolveFailsShape ==
    ASSUME ShapeInv, NEW n \in Notes, ResolveFails(n)
    PROVE  ShapeInv' /\ Onward
  <1> DEFINE rs == {IdOnly(u) : u \in note[n].to}
  <1>0. note[n].to \subseteq Users
    BY DEF ShapeInv, DispatchOK, Note
  <1>1. Resolved(n, rs) /\ UNCHANGED <<jobs, served, retries, inboxVars>>
    BY DEF ResolveFails
  <1>2. rs \in SUBSET Recipient /\ \A r \in rs : Known(r) /\ r = IdOnly(r.user)
    BY <1>0, ReadIs
  <1>3. \A r \in rs : Known(r) /\ \A s \in rs : r.user = s.user => r = s
    BY <1>2
  <1>4. UsersOK' /\ BoundsOK'
    BY <1>0, NotificationsAssumption
       DEF ShapeInv, UsersOK, BoundsOK, ResolveFails, Fault, Event, bounds
  <1> HIDE DEF rs
  <1> QED BY <1>1, <1>2, <1>3, <1>4, ResolvedShape

\* The job that a dispatch adds for a channel.
NewJob(n, c) == [note |-> n, round |-> Len(seen[n]), chan |-> c, at |-> "waiting",
                 left |-> {}, tries |-> 0, stalls |-> 0]

NewJobs(n, chans) == {NewJob(n, c) : c \in chans}

LEMMA AddedJobs ==
    ASSUME ShapeInv, NEW n \in Notes, NEW chans \in SUBSET note[n].chans, Added(n, chans)
    PROVE  /\ chans \subseteq Channels /\ IsFiniteSet(chans)
           /\ jobs' = jobs \cup NewJobs(n, chans)
           /\ note[n].at = "adding" /\ Len(seen[n]) \in DOMAIN seen[n]
           /\ \A c \in chans : NewJob(n, c) \in Job
           /\ note'[n] \in Note /\ note'[n].system = note[n].system /\ note'[n].at = "ending"
           /\ note' = [note EXCEPT ![n] = note'[n]]
           /\ \A k \in Notes \ {n} : note'[k] = note[k]
           /\ IsFiniteSet(NewJobs(n, chans))
  <1>1. note \in [Notes -> Note] /\ note[n] \in Note /\ seen[n] \in Seq(SUBSET Recipient)
    BY DEF ShapeInv, DispatchOK
  <1>2. chans \subseteq Channels
    BY <1>1 DEF Note
  <1>3. IsFiniteSet(Channels)
    <2>1. ASSUME NEW x, NEW y, NEW z
          PROVE  IsFiniteSet(({x} \cup {y}) \cup {z})
      <3>1. IsFiniteSet({x}) /\ IsFiniteSet({y}) /\ IsFiniteSet({z})
        BY FS_Singleton
      <3>2. IsFiniteSet({x} \cup {y})
        BY <3>1, FS_Union
      <3> QED BY <3>1, <3>2, FS_Union
    <2>2. IsFiniteSet((({"in-app"} \cup {"email"}) \cup {"sms"})
                      \cup (({"push"} \cup {"whatsapp"}) \cup {"slack"}))
      BY <2>1, FS_Union
    <2>3. Channels = (({"in-app"} \cup {"email"}) \cup {"sms"})
                     \cup (({"push"} \cup {"whatsapp"}) \cup {"slack"})
      BY DEF Channels
    <2> QED BY <2>2, <2>3
  <1>4. IsFiniteSet(chans)
    BY <1>2, <1>3, FS_Subset
  <1>5. note[n].at = "adding" /\ Len(seen[n]) \in Nat \ {0} /\ Len(seen[n]) \in DOMAIN seen[n]
    BY <1>1 DEF Added, ShapeInv, NotesInv
  <1>6. \A c \in chans : NewJob(n, c) \in Job
    BY <1>2, <1>5 DEF NewJob, Job, JobStates
  <1>7. note'[n] \in Note /\ note'[n].system = note[n].system /\ note'[n].at = "ending"
        /\ note' = [note EXCEPT ![n] = note'[n]] /\ \A k \in Notes \ {n} : note'[k] = note[k]
    BY <1>1 DEF Added, Note, NoteStates
  <1>8. IsFiniteSet(NewJobs(n, chans))
    <2> DEFINE f == [c \in chans |-> NewJob(n, c)]
    <2>1. f \in [chans -> NewJobs(n, chans)]
          /\ \A k \in NewJobs(n, chans) : \E c \in chans : f[c] = k
      BY DEF NewJobs
    <2>2. f \in Surjection(chans, NewJobs(n, chans))
      BY <2>1 DEF Surjection
    <2> QED BY <1>4, <2>2, FS_Surjection
  <1>9. jobs' = jobs \cup NewJobs(n, chans)
    BY DEF Added, NewJob, NewJobs
  <1> QED BY <1>2, <1>4, <1>5, <1>6, <1>7, <1>8, <1>9

LEMMA AddedShape ==
    ASSUME ShapeInv, NEW n \in Notes, NEW chans \in SUBSET note[n].chans, Added(n, chans),
           BoundsOK'
    PROVE  ShapeInv' /\ Onward
  <1>0. /\ jobs' = jobs \cup NewJobs(n, chans) /\ IsFiniteSet(NewJobs(n, chans))
        /\ note[n].at = "adding" /\ Len(seen[n]) \in DOMAIN seen[n]
        /\ \A c \in chans : NewJob(n, c) \in Job
        /\ note'[n] \in Note /\ note'[n].system = note[n].system /\ note'[n].at = "ending"
        /\ note' = [note EXCEPT ![n] = note'[n]] /\ \A k \in Notes \ {n} : note'[k] = note[k]
    BY AddedJobs
  <1> USE DEF ShapeInv
  <1>1. UNCHANGED <<userVars, seen, served, retries, inboxVars>>
    BY DEF Added
  <1>2. Onward
    BY <1>1, <1>0 DEF Onward
  <1>3. \A k \in jobs' \ jobs : JobOK(k)'
    <2>1. ASSUME NEW k \in jobs' \ jobs
          PROVE  JobOK(k)'
      <3>1. /\ k.note = n /\ k.round = Len(seen[n]) /\ k.left = {} /\ k.at = "waiting"
            /\ k \in Job
        BY <1>0, <2>1 DEF NewJob, NewJobs
      <3> QED BY <1>1, <3>1, <1>0 DEF JobOK
    <2> QED BY <2>1
  <1>4. JobsInv'
    BY <1>2, <1>3, JobsInvKept
  <1>5. JobsOK'
    <2>1. NewJobs(n, chans) \subseteq Job
      BY <1>0 DEF NewJobs
    <2> QED BY <2>1, <1>0, FS_Union DEF JobsOK
  <1>6. DispatchOK'
    BY <1>1, <1>0 DEF DispatchOK
  <1>7. UsersOK' /\ InboxOK' /\ SeenInv'
    BY <1>1 DEF UsersOK, InboxOK, SeenInv, userVars, inboxVars
  <1>8. NotesInv'
    BY <1>1, <1>0 DEF NotesInv, inboxVars
  <1> QED BY <1>2, <1>4, <1>5, <1>6, <1>7, <1>8


\* What a step of a job has to keep: only it changes, or goes.
LEMMA JobStep ==
    ASSUME ShapeInv, UNCHANGED <<note, seen>>, jobs' \subseteq Job, IsFiniteSet(jobs'),
           \A k \in jobs' \ jobs : JobOK(k), UsersOK', InboxOK', BoundsOK',
           served' \in [Notes -> SUBSET Channels], retries' \in [Notes -> Nat],
           \A n \in Notes : note[n].at = "unused" => got'[n] = got[n]
    PROVE  ShapeInv' /\ Onward
  <1> USE DEF ShapeInv
  <1>1. Onward
    BY DEF Onward
  <1>2. JobsInv'
    BY <1>1, JobsInvKept, JobOKKept
  <1>3. DispatchOK' /\ JobsOK'
    BY DEF DispatchOK, JobsOK
  <1>4. SeenInv' /\ NotesInv'
    BY DEF SeenInv, NotesInv
  <1> QED BY <1>1, <1>2, <1>3, <1>4

LEMMA Becoming ==
    ASSUME ShapeInv, NEW j \in jobs, NEW k \in Job, Becomes(j, k)
    PROVE  jobs' \subseteq Job /\ IsFiniteSet(jobs') /\ jobs' \ jobs \subseteq {k}
  <1>1. jobs' = (jobs \ {j}) \cup {k}
    BY DEF Becomes
  <1>2. IsFiniteSet(jobs \ {j}) /\ IsFiniteSet({k})
    BY FS_RemoveElement, FS_Singleton DEF ShapeInv, JobsOK
  <1>3. IsFiniteSet(jobs')
    BY <1>1, <1>2, FS_Union
  <1> QED BY <1>1, <1>3 DEF ShapeInv, JobsOK

LEMMA Completing ==
    ASSUME ShapeInv, NEW j \in jobs, Completes(j)
    PROVE  /\ jobs' \subseteq Job /\ IsFiniteSet(jobs') /\ jobs' \ jobs = {}
           /\ served' \in [Notes -> SUBSET Channels]
  <1>1. jobs' = jobs \ {j} /\ IsFiniteSet(jobs')
    BY FS_RemoveElement DEF Completes, ShapeInv, JobsOK
  <1>2. j.note \in Notes /\ j.chan \in Channels
    BY DEF ShapeInv, JobsOK, Job
  <1>3. served' \in [Notes -> SUBSET Channels]
    BY <1>2 DEF Completes, ShapeInv, DispatchOK
  <1> QED BY <1>1, <1>3 DEF ShapeInv, JobsOK

\* The job that is put back, or has failed for good.
Again(j) == [j EXCEPT !.tries = @ + 1, !.left = {},
                      !.at = IF j.tries + 1 < Attempts THEN "waiting" ELSE "failed"]

LEMMA Retrying ==
    ASSUME ShapeInv, NEW j \in jobs, Retried(j)
    PROVE  /\ jobs' \subseteq Job /\ IsFiniteSet(jobs') /\ \A k \in jobs' \ jobs : JobOK(k)
           /\ retries' \in [Notes -> Nat] /\ Becomes(j, Again(j)) /\ Again(j) \in Job
  <1>1. j \in Job /\ JobOK(j)
    BY DEF ShapeInv, JobsOK, JobsInv
  <1>2. Again(j) \in Job /\ JobOK(Again(j))
    <2> DEFINE at == IF j.tries + 1 < Attempts THEN "waiting" ELSE "failed"
    <2>1. Again(j) = [j EXCEPT !.tries = j.tries + 1, !.left = {}, !.at = at]
      BY DEF Again
    <2>2. at \in JobStates \ Working
      BY DEF JobStates, Working
    <2> HIDE DEF at
    <2>3. j.tries + 1 \in Nat /\ {} \in SUBSET Address
      BY <1>1 DEF Job
    <2>4. Again(j) \in Job
      BY <1>1, <2>1, <2>2, <2>3 DEF Job
    <2>5. Again(j).left = {} /\ Again(j).at = at
          /\ Again(j).note = j.note /\ Again(j).round = j.round
      BY <1>1, <2>1 DEF Job
    <2> QED BY <1>1, <2>2, <2>4, <2>5 DEF JobOK, Working
  <1>3. Becomes(j, Again(j))
    BY DEF Retried, Again
  <1>4. retries' \in [Notes -> Nat]
    BY <1>1 DEF Retried, ShapeInv, DispatchOK, Job
  <1> QED BY <1>2, <1>3, <1>4, Becoming

LEMMA TakeJobShape ==
    ASSUME ShapeInv, NEW j \in jobs, TakeJob(j)
    PROVE  ShapeInv' /\ Onward
  <1> DEFINE k == [j EXCEPT !.at = IF j.chan = "in-app" THEN "storing" ELSE "sending",
                            !.left = Targets(j)]
  <1>1. j \in Job /\ JobOK(j)
    BY DEF ShapeInv, JobsOK, JobsInv
  <1>2. Targets(j) \subseteq Address
    BY <1>1, TargetsAre DEF JobOK
  <1>3. k \in Job /\ k.round = j.round /\ k.note = j.note /\ k.chan = j.chan
        /\ k.left = Targets(j) /\ k.at = IF j.chan = "in-app" THEN "storing" ELSE "sending"
    BY <1>1, <1>2 DEF Job, JobStates
  <1>4. Becomes(j, k) /\ UNCHANGED <<userVars, note, seen, served, retries, inboxVars, bounds>>
    BY DEF TakeJob
  <1> HIDE DEF k
  <1>5. Recipients(k) = Recipients(j) /\ Anyway(k) = Anyway(j)
    BY <1>3 DEF Recipients, Anyway
  <1>6. Targets(k) = Targets(j)
    BY <1>3, <1>5 DEF Targets, EmailTargets, SmsTargets, WhatsappTargets, SlackTargets, PushTargets
  <1>7. j.chan = "in-app" => Targets(j) = {}
    BY DEF Targets
  <1>8. JobOK(k)
    BY <1>1, <1>3, <1>6, <1>7 DEF JobOK
  <1>9. UsersOK' /\ InboxOK' /\ BoundsOK'
    BY <1>4 DEF ShapeInv, UsersOK, InboxOK, BoundsOK, userVars, inboxVars, bounds
  <1> QED BY <1>3, <1>4, <1>8, <1>9, Becoming, JobStep DEF ShapeInv, DispatchOK, inboxVars

\* Documents are stored unread.
LEMMA StoredInbox ==
    ASSUME ShapeInv, NEW n \in Notes, NEW some, Stored(n, some), UNCHANGED got
    PROVE  /\ InboxOK'
           /\ \A k \in Notes, u \in Users :
                docs'[k][u] = IF k = n /\ u \in some THEN docs[k][u] + 1 ELSE docs[k][u]
  <1> USE DEF ShapeInv, InboxOK
  <1>1. docs' = [docs EXCEPT ![n] = [u \in Users |-> IF u \in some THEN @[u] + 1 ELSE @[u]]]
    BY DEF Stored
  <1>2. unread' = [unread EXCEPT ![n] = [u \in Users |-> IF u \in some THEN @[u] + 1 ELSE @[u]]]
    BY DEF Stored
  <1>3. \A k \in Notes, u \in Users :
          /\ docs'[k][u] = IF k = n /\ u \in some THEN docs[k][u] + 1 ELSE docs[k][u]
          /\ unread'[k][u] = IF k = n /\ u \in some THEN unread[k][u] + 1 ELSE unread[k][u]
    BY <1>1, <1>2
  <1>4. docs' \in [Notes -> [Users -> Nat]]
    BY <1>1
  <1>5. unread' \in [Notes -> [Users -> Nat]]
    BY <1>2
  <1>6. \A k \in Notes, u \in Users : unread'[k][u] <= docs'[k][u]
    BY <1>3
  <1> QED BY <1>3, <1>4, <1>5, <1>6

LEMMA StoreAllShape ==
    ASSUME ShapeInv, NEW j \in jobs, StoreAll(j)
    PROVE  ShapeInv' /\ Onward
  <1>1. j.note \in Notes
    BY DEF ShapeInv, JobsOK, Job
  <1>2. Stored(j.note, Told(j)) /\ Completes(j)
        /\ UNCHANGED <<userVars, note, seen, retries, got, bounds>>
    BY DEF StoreAll
  <1>3. InboxOK'
    BY <1>1, <1>2, StoredInbox
  <1>4. UsersOK' /\ BoundsOK'
    BY <1>2 DEF ShapeInv, UsersOK, BoundsOK, userVars, bounds
  <1> QED BY <1>2, <1>3, <1>4, Completing, JobStep DEF ShapeInv, DispatchOK

LEMMA StoreFailsShape ==
    ASSUME ShapeInv, NEW j \in jobs, StoreFails(j)
    PROVE  ShapeInv' /\ Onward
  <1>1. j.note \in Notes
    BY DEF ShapeInv, JobsOK, Job
  <1>2. PICK some \in SUBSET Told(j) : Stored(j.note, some)
    BY DEF StoreFails
  <1>3. Retried(j) /\ UNCHANGED <<userVars, note, seen, served, got>>
    BY DEF StoreFails
  <1>4. InboxOK'
    BY <1>1, <1>2, <1>3, StoredInbox
  <1>5. UsersOK' /\ BoundsOK'
    BY <1>3, NotificationsAssumption
       DEF ShapeInv, UsersOK, BoundsOK, userVars, StoreFails, Fault, Event
  <1> QED BY <1>3, <1>4, <1>5, Retrying, JobStep DEF ShapeInv, DispatchOK

LEMMA ProviderFailsShape ==
    ASSUME ShapeInv, NEW j \in jobs, ProviderFails(j)
    PROVE  ShapeInv' /\ Onward
  <1>1. Retried(j) /\ UNCHANGED <<userVars, note, seen, served, inboxVars>>
    BY DEF ProviderFails
  <1>2. UsersOK' /\ InboxOK' /\ BoundsOK'
    BY <1>1, NotificationsAssumption
       DEF ShapeInv, UsersOK, InboxOK, BoundsOK, userVars, inboxVars, ProviderFails, Fault, Event
  <1> QED BY <1>1, <1>2, Retrying, JobStep DEF ShapeInv, DispatchOK, inboxVars

\* One address less that is left.
Less(j, a) == [j EXCEPT !.left = @ \ {a}]

LEMMA LessIs ==
    ASSUME ShapeInv, NEW j \in jobs, NEW a
    PROVE  /\ Less(j, a) \in Job /\ JobOK(Less(j, a))
           /\ \A f \in {"note", "round", "chan", "at"} : Less(j, a)[f] = j[f]
           /\ Less(j, a).left = j.left \ {a}
  <1>1. j \in Job /\ JobOK(j)
    BY DEF ShapeInv, JobsOK, JobsInv
  <1>2. Less(j, a) \in Job /\ Less(j, a).left = j.left \ {a}
        /\ Less(j, a).note = j.note /\ Less(j, a).round = j.round /\ Less(j, a).chan = j.chan
        /\ Less(j, a).at = j.at
    BY <1>1 DEF Less, Job
  <1>3. Recipients(Less(j, a)) = Recipients(j) /\ Anyway(Less(j, a)) = Anyway(j)
    BY <1>2 DEF Recipients, Anyway
  <1>4. Targets(Less(j, a)) = Targets(j)
    BY <1>2, <1>3 DEF Targets, EmailTargets, SmsTargets, WhatsappTargets, SlackTargets, PushTargets
  <1> QED BY <1>1, <1>2, <1>4 DEF JobOK

LEMMA LessStep ==
    ASSUME ShapeInv, NEW j \in jobs, NEW a, Becomes(j, Less(j, a)),
           UNCHANGED <<note, seen, served, retries>>,
           UsersOK', InboxOK', BoundsOK',
           \A n \in Notes : note[n].at = "unused" => got'[n] = got[n]
    PROVE  ShapeInv' /\ Onward
  <1>1. Less(j, a) \in Job /\ JobOK(Less(j, a))
    BY LessIs
  <1>2. jobs' \subseteq Job /\ IsFiniteSet(jobs') /\ jobs' \ jobs \subseteq {Less(j, a)}
    BY <1>1, Becoming
  <1> QED BY <1>1, <1>2, JobStep DEF ShapeInv, DispatchOK

LEMMA DeliverOneShape ==
    ASSUME ShapeInv, NEW j \in jobs, NEW a \in j.left, DeliverOne(j, a)
    PROVE  ShapeInv' /\ Onward
  <1>1. j \in Job /\ JobOK(j) /\ j.note \in Notes /\ note[j.note].at # "unused"
    BY DEF ShapeInv, JobsOK, JobsInv, JobOK, Job
  <1>2. got \in [Notes -> [Address -> Nat]] /\ a \in Address
    BY <1>1, TargetsAre DEF ShapeInv, InboxOK, JobOK
  <1>3. got' = [got EXCEPT ![j.note][a] = @ + 1]
    BY DEF DeliverOne
  <1>4. got' \in [Notes -> [Address -> Nat]]
        /\ \A n \in Notes : note[n].at = "unused" => got'[n] = got[n]
    BY <1>1, <1>2, <1>3
  <1>5. Becomes(j, Less(j, a))
        /\ UNCHANGED <<userVars, note, seen, served, retries, docs, unread, bounds>>
    BY DEF DeliverOne, Less
  <1>6. UsersOK' /\ InboxOK' /\ BoundsOK'
    BY <1>4, <1>5 DEF ShapeInv, UsersOK, InboxOK, BoundsOK, userVars, bounds
  <1> QED BY <1>4, <1>5, <1>6, LessStep

LEMMA DeliveryFailsShape ==
    ASSUME ShapeInv, NEW j \in jobs, NEW a \in j.left, DeliveryFails(j, a)
    PROVE  ShapeInv' /\ Onward
  <1>1. Becomes(j, Less(j, a))
        /\ UNCHANGED <<userVars, note, seen, served, retries, inboxVars, bounds>>
    BY DEF DeliveryFails, Less
  <1>2. UsersOK' /\ InboxOK' /\ BoundsOK'
    BY <1>1 DEF ShapeInv, UsersOK, InboxOK, BoundsOK, userVars, inboxVars, bounds
  <1> QED BY <1>1, <1>2, LessStep DEF inboxVars

LEMMA RemovePushTokenShape ==
    ASSUME ShapeInv, NEW j \in jobs, NEW a \in j.left, RemovePushToken(j, a)
    PROVE  ShapeInv' /\ Onward
  <1>1. Becomes(j, Less(j, a)) /\ UNCHANGED <<note, seen, served, retries, inboxVars, bounds>>
        /\ UNCHANGED <<here, cleaning, wants, dead, wanted, overtaken, raced>>
    BY DEF RemovePushToken, Less
  <1>2. token' \in [Users -> TokensOf]
    <2>1. token \in [Users -> TokensOf] /\ token' = [token EXCEPT ![a[2]][a[1]] = NoToken]
      BY DEF ShapeInv, UsersOK, RemovePushToken
    <2>2. ASSUME NEW f \in TokensOf, NEW d
          PROVE  [f EXCEPT ![d] = NoToken] \in TokensOf
      BY DEF TokensOf
    <2> QED BY <2>1, <2>2
  <1>3. UsersOK' /\ InboxOK' /\ BoundsOK'
    BY <1>1, <1>2 DEF ShapeInv, UsersOK, InboxOK, BoundsOK, inboxVars, bounds
  <1> QED BY <1>1, <1>3, LessStep DEF inboxVars

LEMMA FinishJobShape ==
    ASSUME ShapeInv, NEW j \in jobs, FinishJob(j)
    PROVE  ShapeInv' /\ Onward
  <1>1. Completes(j) /\ UNCHANGED <<userVars, note, seen, retries, inboxVars, bounds>>
    BY DEF FinishJob
  <1>2. UsersOK' /\ InboxOK' /\ BoundsOK'
    BY <1>1 DEF ShapeInv, UsersOK, InboxOK, BoundsOK, userVars, inboxVars, bounds
  <1> QED BY <1>1, <1>2, Completing, JobStep DEF ShapeInv, DispatchOK, inboxVars

-----------------------------------------------------------------------------
(* A restart of the process.                                                 *)

\* A job after a restart.
Now(j) == IF j.at \in Working THEN Stalled(j) ELSE j

LEMMA NowIs ==
    ASSUME ShapeInv, NEW j \in jobs
    PROVE  /\ Now(j) \in Job /\ JobOK(Now(j)) /\ Now(j).note = j.note /\ Now(j).chan = j.chan
           /\ Now(j).round = j.round
           /\ j.at \in Working => Now(j).left = {} /\ Now(j).at \in {"waiting", "failed"}
           /\ j.at \notin Working => Now(j) = j
  <1>1. j \in Job /\ JobOK(j)
    BY DEF ShapeInv, JobsOK, JobsInv
  <1>2. CASE j.at \notin Working
    BY <1>1, <1>2 DEF Now
  <1>3. CASE j.at \in Working
    <2> DEFINE at == AfterStall(j.stalls)
    <2>1. Now(j) = [j EXCEPT !.at = at, !.stalls = j.stalls + 1, !.left = {}]
      BY <1>3 DEF Now, Stalled
    <2>2. at \in {"waiting", "failed"}
      BY DEF AfterStall
    <2> HIDE DEF at
    <2>3. j.stalls + 1 \in Nat /\ {} \in SUBSET Address /\ at \in JobStates
      BY <1>1, <2>2 DEF Job, JobStates
    <2>4. Now(j) \in Job
      BY <1>1, <2>1, <2>3 DEF Job
    <2>5. Now(j).left = {} /\ Now(j).at = at /\ Now(j).note = j.note /\ Now(j).chan = j.chan
          /\ Now(j).round = j.round
      BY <1>1, <2>1 DEF Job
    <2> QED BY <1>1, <1>3, <2>2, <2>4, <2>5 DEF JobOK
  <1> QED BY <1>2, <1>3

LEMMA CrashJobs ==
    ASSUME ShapeInv, Crash
    PROVE  /\ \A k \in jobs' : \E j \in jobs : k = Now(j)
           /\ jobs' \subseteq Job /\ IsFiniteSet(jobs') /\ \A k \in jobs' \ jobs : JobOK(k)
  <1>1. jobs' = {Now(j) : j \in jobs}
    BY DEF Crash, Now
  <1>2. \A k \in jobs' : \E j \in jobs : k = Now(j)
    BY <1>1
  <1>3. jobs' \subseteq Job /\ \A k \in jobs' : JobOK(k)
    BY <1>2, NowIs
  <1>4. IsFiniteSet(jobs')
    <2> DEFINE f == [j \in jobs |-> Now(j)]
    <2>1. f \in [jobs -> jobs'] /\ \A k \in jobs' : \E j \in jobs : f[j] = k
      BY <1>1, <1>2
    <2>2. f \in Surjection(jobs, jobs')
      BY <2>1 DEF Surjection
    <2>3. IsFiniteSet(jobs)
      BY DEF ShapeInv, JobsOK
    <2> HIDE DEF f
    <2> QED BY <2>2, <2>3, FS_Surjection
  <1> QED BY <1>2, <1>3, <1>4

\* The jobs of a request that a restart puts back or fails.
AtWork(n) == {j \in jobs : j.note = n /\ j.at \in Working}

LEMMA CrashNotes ==
    ASSUME ShapeInv, Crash, NEW n \in Notes
    PROVE  /\ note'[n] \in Note /\ note'[n].system = note[n].system /\ note'[n].to = note[n].to
           /\ note'[n].at # note[n].at =>
                /\ note[n].at \in {"looking", "sending"} \cup Dispatching
                /\ note'[n].at \in {"waiting", "failed", "dropped"}
                /\ note'[n].at = "waiting" => note[n].queued /\ note[n].at \in Dispatching
           /\ note[n].at \in {"looking", "sending"} \cup Dispatching => note'[n].at # note[n].at
           /\ IsFiniteSet(AtWork(n)) /\ Cardinality(AtWork(n)) \in Nat
           /\ retries'[n] = retries[n]
                + (IF note[n].queued /\ note[n].at \in Dispatching THEN 1 ELSE 0)
                + Cardinality(AtWork(n))
  <1>1. note[n] \in Note /\ note'[n] = Restarted(note[n])
    BY DEF ShapeInv, DispatchOK, Crash
  <1>2. IsFiniteSet(AtWork(n)) /\ Cardinality(AtWork(n)) \in Nat
    BY FS_Subset, FS_CardinalityType DEF ShapeInv, JobsOK, AtWork
  <1>3. retries'[n] = retries[n]
                + (IF note[n].queued /\ note[n].at \in Dispatching THEN 1 ELSE 0)
                + Cardinality(AtWork(n))
    BY DEF Crash, AtWork
  <1>4. CASE note[n].queued /\ note[n].at \in Dispatching
    <2> DEFINE at == AfterStall(note[n].stalls)
    <2>1. note'[n] = [note[n] EXCEPT !.at = at, !.stalls = note[n].stalls + 1]
      BY <1>1, <1>4 DEF Restarted
    <2>2. at \in {"waiting", "failed"}
      BY DEF AfterStall
    <2> HIDE DEF at
    <2>3. note[n].stalls + 1 \in Nat /\ at \in NoteStates
      BY <1>1, <2>2 DEF Note, NoteStates
    <2>4. note'[n] \in Note
      BY <1>1, <2>1, <2>3 DEF Note
    <2>5. note'[n].at = at /\ note'[n].system = note[n].system /\ note'[n].to = note[n].to
      BY <1>1, <2>1 DEF Note
    <2> QED BY <1>2, <1>3, <1>4, <2>2, <2>4, <2>5 DEF Dispatching
  <1>5. CASE ~(note[n].queued /\ note[n].at \in Dispatching)
    <2>1. CASE note[n].at \in {"looking", "sending"} \cup Dispatching
      <3>1. note'[n] = [note[n] EXCEPT !.at = "dropped"]
        BY <1>1, <1>5, <2>1 DEF Restarted
      <3>2. note'[n] \in Note /\ note'[n].at = "dropped" /\ note'[n].system = note[n].system
            /\ note'[n].to = note[n].to
        BY <1>1, <3>1 DEF Note, NoteStates
      <3> QED BY <1>2, <1>3, <2>1, <3>2 DEF Dispatching
    <2>2. CASE note[n].at \notin {"looking", "sending"} \cup Dispatching
      <3>1. note'[n] = note[n]
        BY <1>1, <2>2 DEF Restarted
      <3> QED BY <1>1, <1>2, <1>3, <2>2, <3>1
    <2> QED BY <2>1, <2>2
  <1> QED BY <1>4, <1>5

LEMMA CrashShape ==
    ASSUME ShapeInv, Crash
    PROVE  ShapeInv' /\ Onward
  <1> USE DEF ShapeInv
  <1>1. UNCHANGED <<userVars, seen, served, inboxVars>>
    BY DEF Crash
  <1>2. Onward
    BY <1>1, CrashNotes DEF Onward, Dispatching
  <1>3. JobsInv'
    BY <1>2, CrashJobs, JobsInvKept, JobOKKept
  <1>4. JobsOK'
    BY CrashJobs DEF JobsOK
  <1>5. DispatchOK'
    <2>1. note' \in [Notes -> Note]
      BY CrashNotes DEF Crash
    <2>2. \A n \in Notes : retries'[n] \in Nat
      BY CrashNotes DEF DispatchOK
    <2>3. retries' \in [Notes -> Nat]
      BY <2>2 DEF Crash
    <2> QED BY <1>1, <2>1, <2>3 DEF DispatchOK
  <1>6. UsersOK' /\ InboxOK' /\ BoundsOK'
    BY <1>1, NotificationsAssumption
       DEF UsersOK, InboxOK, BoundsOK, userVars, inboxVars, Crash, Event
  <1>7. SeenInv'
    BY <1>1 DEF SeenInv
  <1>8. NotesInv'
    BY <1>1, CrashNotes DEF NotesInv, inboxVars, Dispatching
  <1> QED BY <1>2, <1>3, <1>4, <1>5, <1>6, <1>7, <1>8

LEMMA InitShape == Init => ShapeInv
  <1> SUFFICES ASSUME Init PROVE ShapeInv
    OBVIOUS
  <1> USE NotificationsAssumption DEF Init
  <1>1. [k \in Devices \cup {"legacy"} |-> NoToken] \in TokensOf
    BY DEF TokensOf
  <1>2. token \in [Users -> TokensOf]
    BY DEF TokensOf
  <1>3. UsersOK
    BY <1>2 DEF UsersOK
  <1>4. Unused \in Note
    BY DEF Unused, Note, NoteStates
  <1>5. DispatchOK
    <2>1. note \in [Notes -> Note] /\ served \in [Notes -> SUBSET Channels]
          /\ retries \in [Notes -> Nat]
      BY <1>4
    <2>2. seen \in [Notes -> Seq(SUBSET Recipient)]
      OBVIOUS
    <2> QED BY <2>1, <2>2 DEF DispatchOK
  <1>6. JobsOK
    BY FS_EmptySet DEF JobsOK
  <1>7. InboxOK /\ BoundsOK
    BY DEF InboxOK, BoundsOK
  <1>8. SeenInv /\ JobsInv
    BY DEF SeenInv, JobsInv
  <1>9. NotesInv
    BY DEF NotesInv, Unused
  <1> QED BY <1>3, <1>5, <1>6, <1>7, <1>8, <1>9 DEF ShapeInv

LEMMA WorkerShape ==
    ASSUME ShapeInv, NEW c \in Channels, Worker(c)
    PROVE  ShapeInv' /\ Onward
  <1>1. PICK j \in jobs :
          \/ TakeJob(j) \/ StoreAll(j) \/ FinishJob(j)
          \/ \E a \in j.left : DeliverOne(j, a) \/ DeliveryFails(j, a) \/ RemovePushToken(j, a)
    BY DEF Worker
  <1>2. CASE \E a \in j.left : DeliverOne(j, a) \/ DeliveryFails(j, a) \/ RemovePushToken(j, a)
    BY <1>2, DeliverOneShape, DeliveryFailsShape, RemovePushTokenShape
  <1> QED BY <1>1, <1>2, TakeJobShape, StoreAllShape, FinishJobShape

LEMMA FailsShape ==
    ASSUME ShapeInv, Fails
    PROVE  ShapeInv' /\ Onward
  <1>1. ASSUME NEW n \in Notes, AddFails(n)
        PROVE  ShapeInv' /\ Onward
    <2>1. PICK some \in SUBSET note[n].chans : Added(n, some)
      BY <1>1 DEF AddFails
    <2>2. BoundsOK'
      BY <1>1, NotificationsAssumption DEF AddFails, Fault, Event, ShapeInv, BoundsOK
    <2> QED BY <2>1, <2>2, AddedShape
  <1> QED BY <1>1, ResolveFailsShape, StoreFailsShape, ProviderFailsShape DEF Fails

LEMMA DispatchShape ==
    ASSUME ShapeInv, NEW n \in Notes, Dispatch(n)
    PROVE  ShapeInv' /\ Onward
  <1>1. CASE AddJobs(n)
    <2>1. note[n].chans \in SUBSET note[n].chans /\ Added(n, note[n].chans)
      BY <1>1 DEF AddJobs
    <2>2. BoundsOK'
      BY <1>1 DEF AddJobs, ShapeInv, BoundsOK, bounds
    <2> QED BY <2>1, <2>2, AddedShape
  <1> QED BY <1>1, LookUpShape, ResolveShape, EndDispatchShape DEF Dispatch

LEMMA NextShape ==
    ASSUME ShapeInv, [Next]_vars
    PROVE  ShapeInv' /\ Onward
  <1>1. ASSUME NEW n \in Notes, Requests(n) \/ SendNow(n) \/ TakeNote(n) \/ Dispatch(n)
        PROVE  ShapeInv' /\ Onward
    <2>1. CASE Requests(n)
      <3>1. PICK req : Begun(req) /\ Create(n, req)
        BY <2>1, RequestsBegin
      <3> QED BY <3>1, CreateShape
    <2> QED BY <1>1, <2>1, SendNowShape, TakeNoteShape, DispatchShape
  <1>2. CASE UNCHANGED vars
    BY <1>2, PeopleKeep DEF vars, userVars, inboxVars, bounds, ShapeInv, UsersOK, InboxOK, BoundsOK
  <1> QED BY <1>1, <1>2, WorkerShape, FailsShape, PeopleShape, CrashShape DEF Next

\* Requests, jobs, what dispatches read and the inboxes keep their shapes.
THEOREM NotificationsTypeOK == Spec => []TypeOK
  <1>1. Init => ShapeInv
    BY InitShape
  <1>2. ShapeInv /\ [Next]_vars => ShapeInv'
    BY NextShape
  <1>3. ShapeInv => TypeOK
    BY DEF ShapeInv, TypeOK, UsersOK, DispatchOK, JobsOK, InboxOK, BoundsOK
  <1> QED BY <1>1, <1>2, <1>3, PTL DEF Spec

-----------------------------------------------------------------------------
(* How often anyone can still be told, but for retries: once while a request *)
(* is not dispatched, and once for each job that has yet to reach them.      *)

Fresh == {"unused", "looking", "waiting", "resolving", "adding", "sending"}
Due(n) == IF note[n].at \in Fresh THEN 1 ELSE 0

Owes(j, a) == j.at \in {"waiting", "storing"} \/ a \in j.left
Owing(n, c, a) == {j \in jobs : j.note = n /\ j.chan = c /\ Owes(j, a)}
Left(n, c, a) == Cardinality(Owing(n, c, a)) + Due(n) - retries[n]

CountInv ==
    \A n \in Notes, a \in Address :
        /\ \A u \in Users : docs[n][u] + Left(n, "in-app", a) <= 1
        /\ got[n][a] + Left(n, Channel(a[1]), a) <= 1

LEMMA OwingFinite ==
    ASSUME ShapeInv, NEW n \in Notes, NEW c, NEW a
    PROVE  /\ IsFiniteSet(Owing(n, c, a)) /\ Cardinality(Owing(n, c, a)) \in Nat
           /\ retries[n] \in Nat /\ Due(n) \in 0..1 /\ Left(n, c, a) \in Int
  <1>1. IsFiniteSet(jobs) /\ Owing(n, c, a) \in SUBSET jobs
    BY DEF ShapeInv, JobsOK, Owing
  <1>2. IsFiniteSet(Owing(n, c, a))
    BY <1>1, FS_Subset
  <1>3. Cardinality(Owing(n, c, a)) \in Nat
    BY <1>2, FS_CardinalityType
  <1>4. retries[n] \in Nat
    BY DEF ShapeInv, DispatchOK
  <1> QED BY <1>2, <1>3, <1>4 DEF Left, Due

LEMMA OwingFiniteNext ==
    ASSUME ShapeInv', NEW n \in Notes, NEW c, NEW a
    PROVE  /\ IsFiniteSet(Owing(n, c, a)') /\ Cardinality(Owing(n, c, a)') \in Nat
           /\ retries'[n] \in Nat /\ Due(n)' \in 0..1 /\ Left(n, c, a)' \in Int
           /\ Left(n, c, a)' = Cardinality(Owing(n, c, a)') + Due(n)' - retries'[n]
  <1>1. IsFiniteSet(jobs') /\ Owing(n, c, a)' \in SUBSET jobs'
    BY DEF ShapeInv, JobsOK, Owing
  <1>2. IsFiniteSet(Owing(n, c, a)')
    BY <1>1, FS_Subset
  <1>3. Cardinality(Owing(n, c, a)') \in Nat
    BY <1>2, FS_CardinalityType
  <1>4. retries'[n] \in Nat
    BY DEF ShapeInv, DispatchOK
  <1> QED BY <1>2, <1>3, <1>4 DEF Left, Due

\* A job owes no more than the one whose place it takes, and no fewer jobs owe
\* unless it owes nothing to whom the other did.
LEMMA OwingBecomes ==
    ASSUME ShapeInv, ShapeInv', NEW j \in jobs, NEW k, Becomes(j, k),
           k.note = j.note, k.chan = j.chan, NEW n \in Notes, NEW c, NEW a,
           Owes(k, a) => Owes(j, a)
    PROVE  /\ Cardinality(Owing(n, c, a))' <= Cardinality(Owing(n, c, a))
           /\ n = j.note /\ c = j.chan /\ Owes(j, a) /\ ~Owes(k, a)
                => Cardinality(Owing(n, c, a))' <= Cardinality(Owing(n, c, a)) - 1
  <1> DEFINE S == Owing(n, c, a)
  <1> DEFINE T == {x \in (jobs \ {j}) \cup {k} : x.note = n /\ x.chan = c /\ Owes(x, a)}
  <1>1. Owing(n, c, a)' = T
    BY DEF Owing, Owes, Becomes
  <1>2. IsFiniteSet(S) /\ IsFiniteSet(S \ {j}) /\ Cardinality(S) \in Nat
        /\ Cardinality(S \ {j}) = IF j \in S THEN Cardinality(S) - 1 ELSE Cardinality(S)
    BY OwingFinite, FS_RemoveElement
  <1>3. /\ T \subseteq (S \ {j}) \cup {k}
        /\ j \notin S => T \subseteq S \ {j}
        /\ ~Owes(k, a) => T \subseteq S \ {j}
        /\ n = j.note /\ c = j.chan /\ Owes(j, a) => j \in S
    BY DEF Owing
  <1> HIDE DEF S, T
  <1>4. IsFiniteSet((S \ {j}) \cup {k}) /\ IsFiniteSet(T)
    BY <1>2, <1>3, FS_AddElement, FS_Subset
  <1>5. Cardinality(T) \in Nat /\ Cardinality(S \ {j}) \in Nat
    BY <1>2, <1>4, FS_CardinalityType
  <1>6. CASE T \subseteq S \ {j}
    <2>1. Cardinality(T) <= Cardinality(S \ {j})
      BY <1>2, <1>6, FS_Subset
    <2>2. /\ Cardinality(T) <= Cardinality(S)
          /\ j \in S => Cardinality(T) <= Cardinality(S) - 1
      BY <1>2, <1>5, <2>1
    <2> QED BY <1>1, <1>3, <2>2 DEF S
  <1>7. CASE ~(T \subseteq S \ {j})
    <2>1. j \in S /\ Owes(k, a)
      BY <1>3, <1>7
    <2>2. Cardinality((S \ {j}) \cup {k})
            = IF k \in S \ {j} THEN Cardinality(S \ {j}) ELSE Cardinality(S \ {j}) + 1
      BY <1>2, FS_AddElement
    <2>3. Cardinality(T) <= Cardinality((S \ {j}) \cup {k})
      BY <1>3, <1>4, FS_Subset
    <2>4. Cardinality(T) <= Cardinality(S)
      BY <1>2, <1>5, <2>1, <2>2, <2>3
    <2> QED BY <1>1, <2>1, <2>4 DEF S
  <1> QED BY <1>6, <1>7

\* A job that is complete owes nobody.
LEMMA OwingCompletes ==
    ASSUME ShapeInv, ShapeInv', NEW j \in jobs, Completes(j), NEW n \in Notes, NEW c, NEW a
    PROVE  /\ Cardinality(Owing(n, c, a))' <= Cardinality(Owing(n, c, a))
           /\ n = j.note /\ c = j.chan /\ Owes(j, a)
                => Cardinality(Owing(n, c, a))' <= Cardinality(Owing(n, c, a)) - 1
  <1> DEFINE S == Owing(n, c, a)
  <1>1. Owing(n, c, a)' = S \ {j}
    BY DEF Owing, Owes, Completes
  <1>2. IsFiniteSet(S) /\ Cardinality(S) \in Nat
        /\ Cardinality(S \ {j}) = IF j \in S THEN Cardinality(S) - 1 ELSE Cardinality(S)
    BY OwingFinite, FS_RemoveElement
  <1>3. n = j.note /\ c = j.chan /\ Owes(j, a) => j \in S
    BY DEF Owing
  <1> HIDE DEF S
  <1> QED BY <1>1, <1>2, <1>3 DEF S

\* The step of a dispatch, which adds no jobs: it puts the request back, or goes on.
LEMMA LeftStays ==
    ASSUME ShapeInv, ShapeInv', UNCHANGED jobs, NEW n \in Notes, NEW c, NEW a,
           Due(n)' - retries'[n] <= Due(n) - retries[n]
    PROVE  /\ Left(n, c, a)' <= Left(n, c, a)
           /\ Due(n)' - retries'[n] <= Due(n) - retries[n] - 1
                => Left(n, c, a)' <= Left(n, c, a) - 1
  <1>1. Owing(n, c, a)' = Owing(n, c, a)
    BY DEF Owing, Owes
  <1>2. Cardinality(Owing(n, c, a)) \in Nat /\ retries[n] \in Nat /\ Due(n) \in 0..1
    BY OwingFinite
  <1>3. retries'[n] \in Nat /\ Due(n)' \in 0..1
        /\ Left(n, c, a)' = Cardinality(Owing(n, c, a)) + Due(n)' - retries'[n]
    BY <1>1, OwingFiniteNext
  <1> QED BY <1>2, <1>3 DEF Left

\* The step of a job: it is put back, or goes on.
LEMMA LeftFalls ==
    ASSUME ShapeInv, ShapeInv', UNCHANGED note, NEW n \in Notes, NEW c, NEW a,
           NEW d \in 0..1, NEW e \in 0..1,
           Cardinality(Owing(n, c, a))' <= Cardinality(Owing(n, c, a)) - d,
           retries'[n] >= retries[n] + e
    PROVE  Left(n, c, a)' <= Left(n, c, a) - d - e
  <1>1. Due(n)' = Due(n)
    BY DEF Due
  <1>2. Cardinality(Owing(n, c, a)) \in Nat /\ retries[n] \in Nat /\ Due(n) \in 0..1
    BY OwingFinite
  <1>3. retries'[n] \in Nat /\ Cardinality(Owing(n, c, a)') \in Nat
        /\ Left(n, c, a)' = Cardinality(Owing(n, c, a)') + Due(n)' - retries'[n]
    BY OwingFiniteNext
  <1> QED BY <1>1, <1>2, <1>3 DEF Left

\* Nobody is told anything, and less is left.
LEMMA CountKept ==
    ASSUME ShapeInv, ShapeInv', CountInv,
           \A n \in Notes, u \in Users : docs'[n][u] <= docs[n][u], UNCHANGED got,
           \A n \in Notes, a \in Address, c \in Channels : Left(n, c, a)' <= Left(n, c, a)
    PROVE  CountInv'
  <1>1. ASSUME NEW n \in Notes, NEW a \in Address
        PROVE  /\ \A u \in Users : docs'[n][u] + Left(n, "in-app", a)' <= 1
               /\ got'[n][a] + Left(n, Channel(a[1]), a)' <= 1
    <2>1. Channel(a[1]) \in Channels /\ "in-app" \in Channels
      BY DEF Address, Ways, Devices, Channel, Channels
    <2>2. \A c \in Channels : Left(n, c, a) \in Int /\ Left(n, c, a)' \in Int
                              /\ Left(n, c, a)' <= Left(n, c, a)
      <3>1. \A c \in Channels : Left(n, c, a) \in Int
        BY OwingFinite
      <3>2. \A c \in Channels : Left(n, c, a)' \in Int
        BY OwingFiniteNext
      <3> QED BY <3>1, <3>2
    <2>3. got[n][a] \in Nat /\ \A u \in Users : docs[n][u] \in Nat /\ docs'[n][u] \in Nat
      BY DEF ShapeInv, InboxOK
    <2> QED BY <2>1, <2>2, <2>3 DEF CountInv
  <1> QED BY <1>1 DEF CountInv


\* A step that leaves the jobs alone, and tells nobody.
LEMMA CountQuiet ==
    ASSUME ShapeInv, ShapeInv', CountInv, UNCHANGED <<jobs, got>>,
           \A n \in Notes, u \in Users : docs'[n][u] <= docs[n][u],
           \A n \in Notes : Due(n)' - retries'[n] <= Due(n) - retries[n]
    PROVE  CountInv'
  <1>1. \A n \in Notes, a \in Address, c \in Channels : Left(n, c, a)' <= Left(n, c, a)
    BY LeftStays
  <1> QED BY <1>1, CountKept

\* A step of a job that tells nobody.
LEMMA CountJob ==
    ASSUME ShapeInv, ShapeInv', CountInv, UNCHANGED <<note, docs, got>>,
           \A n \in Notes : retries'[n] >= retries[n],
           \A n \in Notes, a \in Address, c \in Channels :
             Cardinality(Owing(n, c, a))' <= Cardinality(Owing(n, c, a))
    PROVE  CountInv'
  <1>1. ASSUME NEW n \in Notes, NEW a \in Address, NEW c \in Channels
        PROVE  Left(n, c, a)' <= Left(n, c, a)
    <2>1. Cardinality(Owing(n, c, a))' <= Cardinality(Owing(n, c, a)) - 0
          /\ retries'[n] >= retries[n] + 0
      BY OwingFinite
    <2>2. Left(n, c, a)' <= Left(n, c, a) - 0 - 0
      BY <2>1, LeftFalls
    <2> QED BY <2>2, OwingFinite, OwingFiniteNext
  <1>2. \A n \in Notes, u \in Users : docs'[n][u] <= docs[n][u]
    BY DEF ShapeInv, InboxOK
  <1> QED BY <1>1, <1>2, CountKept

LEMMA CountPeople ==
    ASSUME ShapeInv, ShapeInv', CountInv, People \/ UNCHANGED vars
    PROVE  CountInv'
  <1>1. UNCHANGED <<note, jobs, got, retries>>
    BY DEF People, RegisterPushToken, TokenDies, UpdateSettings, CleanupUser, RemoveUser,
           MarkAsRead, MarkAllAsRead, vars, queueVars, inboxVars
  <1>2. \A n \in Notes, u \in Users : docs'[n][u] <= docs[n][u]
    <2>1. CASE UNCHANGED docs
      BY <2>1 DEF ShapeInv, InboxOK
    <2>2. ASSUME NEW u \in Movers, CleanupUser(u)
          PROVE  \A n \in Notes, v \in Users : docs'[n][v] <= docs[n][v]
      BY <2>2 DEF CleanupUser, ShapeInv, InboxOK
    <2> QED BY <2>1, <2>2 DEF People, RegisterPushToken, TokenDies, UpdateSettings, RemoveUser,
                              MarkAsRead, MarkAllAsRead, vars, inboxVars
  <1>3. \A n \in Notes : Due(n)' - retries'[n] <= Due(n) - retries[n]
    BY <1>1, OwingFinite DEF Due
  <1> QED BY <1>1, <1>2, <1>3, CountQuiet

\* A dispatch that goes on or back: what it may begin again it has put back.
LEMMA CountDispatch ==
    ASSUME ShapeInv, ShapeInv', CountInv, NEW n \in Notes,
           \/ Requests(n) \/ TakeNote(n) \/ LookUp(n) \/ EndDispatch(n)
           \/ Resolve(n) \/ ResolveFails(n)
    PROVE  CountInv'
  <1>1. UNCHANGED <<jobs, docs, got>> /\ \A k \in Notes \ {n} : note'[k] = note[k]
    <2>1. CASE Requests(n)
      <3>1. PICK req : Begun(req) /\ Create(n, req)
        BY <2>1, RequestsBegin
      <3> QED BY <3>1 DEF Create, inboxVars, ShapeInv, DispatchOK
    <2> QED BY <2>1 DEF TakeNote, LookUp, EndDispatch, Resolve, ResolveFails, Resolved, inboxVars,
                        ShapeInv, DispatchOK
  <1>2. \A k \in Notes : /\ retries[k] \in Nat /\ retries'[k] \in Nat
                         /\ Due(k) \in 0..1 /\ Due(k)' \in 0..1
    BY DEF ShapeInv, DispatchOK, Due
  <1>3. \/ Due(n) = 1 /\ UNCHANGED retries
        \/ Due(n)' = 0 /\ UNCHANGED retries
        \/ retries' = [retries EXCEPT ![n] = @ + 1]
    <2>0. note \in [Notes -> Note]
      BY DEF ShapeInv, DispatchOK
    <2>1. CASE Requests(n)
      <3>1. PICK req : Begun(req) /\ Create(n, req)
        BY <2>1, RequestsBegin
      <3> QED BY <3>1 DEF Create, Due, Fresh
    <2>2. CASE TakeNote(n) \/ LookUp(n) \/ Resolve(n) \/ ResolveFails(n)
      BY <2>2 DEF TakeNote, LookUp, Resolve, ResolveFails, Resolved, Due, Fresh
    <2>3. CASE EndDispatch(n)
      <3>1. \/ note' = [note EXCEPT ![n].at = "done"] /\ UNCHANGED retries
            \/ note' = [note EXCEPT ![n].at = "dropped"] /\ UNCHANGED retries
            \/ retries' = [retries EXCEPT ![n] = @ + 1]
        BY <2>3 DEF EndDispatch
      <3>2. ASSUME NEW s \in {"done", "dropped"}, note' = [note EXCEPT ![n].at = s]
            PROVE  note'[n].at = s
        BY <2>0, <3>2 DEF Note
      <3> QED BY <3>1, <3>2 DEF Due, Fresh
    <2> QED BY <2>1, <2>2, <2>3
  <1>4. \A k \in Notes : Due(k)' - retries'[k] <= Due(k) - retries[k]
    BY <1>1, <1>2, <1>3 DEF Due, ShapeInv, DispatchOK
  <1>5. \A k \in Notes, u \in Users : docs'[k][u] <= docs[k][u]
    BY <1>1 DEF ShapeInv, InboxOK
  <1> QED BY <1>1, <1>4, <1>5, CountQuiet

LEMMA CountSendNow ==
    ASSUME ShapeInv, ShapeInv', CountInv, NEW n \in Notes, SendNow(n)
    PROVE  CountInv'
  <1>0. note \in [Notes -> Note] /\ got \in [Notes -> [Address -> Nat]]
    BY DEF ShapeInv, DispatchOK, InboxOK
  <1>1. UNCHANGED <<jobs, retries, docs>>
    BY DEF SendNow
  <1>2. note[n].at = "sending" /\ note'[n].at = "done" /\ \A k \in Notes \ {n} : note'[k] = note[k]
    BY <1>0 DEF SendNow, Note
  <1>3. \A k \in Notes : got'[k] \in [Address -> Nat] /\ \A b \in Address :
          got'[k][b] <= IF k = n THEN got[k][b] + 1 ELSE got[k][b]
    <2>1. PICK ok \in BOOLEAN,
               a \in note[n].chans \X (IF note[n].to = {} THEN {Team} ELSE note[n].to) :
                 got' = IF ok THEN [got EXCEPT ![n][a] = @ + 1] ELSE got
      BY DEF SendNow
    <2>2. \A k \in Notes : got'[k] \in [Address -> Nat]
      BY DEF ShapeInv, InboxOK
    <2>3. CASE got' = got
      BY <1>0, <2>2, <2>3
    <2>4. CASE got' = [got EXCEPT ![n][a] = @ + 1]
      BY <1>0, <2>2, <2>4
    <2> QED BY <2>1, <2>3, <2>4
  <1>4. ASSUME NEW k \in Notes, NEW c \in Channels, NEW b \in Address
        PROVE  Left(k, c, b)' <= IF k = n THEN Left(k, c, b) - 1 ELSE Left(k, c, b)
    <2>1. retries'[k] = retries[k] /\ retries[k] \in Nat
          /\ Due(k) \in 0..1 /\ Due(k)' = IF k = n THEN Due(k) - 1 ELSE Due(k)
      BY <1>1, <1>2, OwingFinite DEF Due, Fresh
    <2>2. CASE k = n
      <3>1. Due(k)' - retries'[k] <= Due(k) - retries[k] - 1
            /\ Due(k)' - retries'[k] <= Due(k) - retries[k]
        BY <2>1, <2>2
      <3> QED BY <1>1, <2>2, <3>1, LeftStays
    <2>3. CASE k # n
      <3>1. Due(k)' - retries'[k] <= Due(k) - retries[k]
        BY <2>1, <2>3
      <3> QED BY <1>1, <2>3, <3>1, LeftStays
    <2> QED BY <2>2, <2>3
  <1>5. ASSUME NEW k \in Notes, NEW b \in Address
        PROVE  /\ \A u \in Users : docs'[k][u] + Left(k, "in-app", b)' <= 1
               /\ got'[k][b] + Left(k, Channel(b[1]), b)' <= 1
    <2>1. Channel(b[1]) \in Channels /\ "in-app" \in Channels
      BY DEF Address, Ways, Devices, Channel, Channels
    <2>2. \A c \in Channels : /\ Left(k, c, b) \in Int /\ Left(k, c, b)' \in Int
                              /\ Left(k, c, b)'
                                   <= IF k = n THEN Left(k, c, b) - 1 ELSE Left(k, c, b)
      BY <1>4, OwingFinite, OwingFiniteNext
    <2>3. got[k][b] \in Nat /\ got'[k][b] \in Nat
          /\ \A u \in Users : docs[k][u] \in Nat /\ docs'[k][u] = docs[k][u]
      BY <1>1 DEF ShapeInv, InboxOK
    <2>4. got'[k][b] <= IF k = n THEN got[k][b] + 1 ELSE got[k][b]
      BY <1>3
    <2>5. /\ \A u \in Users : docs[k][u] + Left(k, "in-app", b) <= 1
          /\ got[k][b] + Left(k, Channel(b[1]), b) <= 1
      BY DEF CountInv
    <2> HIDE DEF Channel
    <2>6. \A u \in Users : docs'[k][u] + Left(k, "in-app", b)' <= 1
      BY <2>1, <2>2, <2>3, <2>5
    <2>7. got'[k][b] + Left(k, Channel(b[1]), b)' <= 1
      BY <2>1, <2>2, <2>3, <2>4, <2>5
    <2> QED BY <2>6, <2>7
  <1> QED BY <1>5 DEF CountInv

\* A job that is taken, or done with an address without a delivery, or complete.
LEMMA CountWork ==
    ASSUME ShapeInv, ShapeInv', CountInv, NEW j \in jobs,
           \/ TakeJob(j) \/ FinishJob(j) \/ ProviderFails(j)
           \/ \E a \in j.left : DeliveryFails(j, a) \/ RemovePushToken(j, a)
    PROVE  CountInv'
  <1>0. j \in Job /\ JobOK(j)
    BY DEF ShapeInv, JobsOK, JobsInv
  <1>1. UNCHANGED <<note, docs, got>>
    BY DEF TakeJob, FinishJob, ProviderFails, DeliveryFails, RemovePushToken, inboxVars
  <1>2. \A n \in Notes : retries'[n] >= retries[n]
    <2>1. \/ UNCHANGED retries
          \/ retries' = [retries EXCEPT ![j.note] = @ + 1]
      BY DEF TakeJob, FinishJob, ProviderFails, DeliveryFails, RemovePushToken, Retried
    <2>2. retries \in [Notes -> Nat] /\ j.note \in Notes
      BY <1>0 DEF ShapeInv, DispatchOK, Job
    <2> QED BY <2>1, <2>2
  <1>3. ASSUME NEW n \in Notes, NEW b \in Address, NEW c \in Channels
        PROVE  Cardinality(Owing(n, c, b))' <= Cardinality(Owing(n, c, b))
    <2>1. CASE TakeJob(j)
      <3> DEFINE k == [j EXCEPT !.at = IF j.chan = "in-app" THEN "storing" ELSE "sending",
                                !.left = Targets(j)]
      <3>1. Becomes(j, k) /\ Owes(j, b)
        BY <2>1 DEF TakeJob, Taken, Owes
      <3>2. k.note = j.note /\ k.chan = j.chan
        BY <1>0 DEF Job
      <3> HIDE DEF k
      <3> QED BY <3>1, <3>2, OwingBecomes
    <2>2. CASE FinishJob(j)
      BY <2>2, OwingCompletes DEF FinishJob
    <2>3. CASE ProviderFails(j)
      <3>1. Becomes(j, Again(j)) /\ Owes(j, b)
        BY <2>3 DEF ProviderFails, Retried, Again, Taken, Owes
      <3>2. Again(j).note = j.note /\ Again(j).chan = j.chan
        BY <1>0 DEF Again, Job
      <3> QED BY <3>1, <3>2, OwingBecomes
    <2>4. ASSUME NEW a \in j.left, DeliveryFails(j, a) \/ RemovePushToken(j, a)
          PROVE  Cardinality(Owing(n, c, b))' <= Cardinality(Owing(n, c, b))
      <3>1. Becomes(j, Less(j, a))
        BY <2>4 DEF DeliveryFails, RemovePushToken, Less
      <3>2. Less(j, a).note = j.note /\ Less(j, a).chan = j.chan /\ Less(j, a).at = j.at
            /\ Less(j, a).left = j.left \ {a}
        BY LessIs
      <3>3. Owes(Less(j, a), b) => Owes(j, b)
        BY <3>2 DEF Owes
      <3> QED BY <3>1, <3>2, <3>3, OwingBecomes
    <2> QED BY <2>1, <2>2, <2>3, <2>4
  <1> QED BY <1>1, <1>2, <1>3, CountJob

\* Who is sent something has one less to come.
LEMMA CountDeliverOne ==
    ASSUME ShapeInv, ShapeInv', CountInv, NEW j \in jobs, NEW a \in j.left, DeliverOne(j, a)
    PROVE  CountInv'
  <1>0. j \in Job /\ JobOK(j) /\ j.note \in Notes
    BY DEF ShapeInv, JobsOK, JobsInv, Job
  <1>1. a \in Address /\ Channel(a[1]) = j.chan
    BY <1>0, TargetsAre DEF JobOK
  <1>2. UNCHANGED <<note, docs, retries>> /\ got' = [got EXCEPT ![j.note][a] = @ + 1]
        /\ Becomes(j, Less(j, a)) /\ j.at = "sending"
    BY DEF DeliverOne, Less
  <1>3. Less(j, a).note = j.note /\ Less(j, a).chan = j.chan /\ Less(j, a).at = "sending"
        /\ Less(j, a).left = j.left \ {a}
    BY <1>2, LessIs
  <1>4. \A b : Owes(Less(j, a), b) => Owes(j, b)
    BY <1>3 DEF Owes
  <1>5. Owes(j, a) /\ ~Owes(Less(j, a), a)
    BY <1>3 DEF Owes
  <1>6. \A n \in Notes, b \in Address :
          got'[n][b] = IF n = j.note /\ b = a THEN got[n][b] + 1 ELSE got[n][b]
    BY <1>0, <1>1, <1>2 DEF ShapeInv, InboxOK
  <1>7. ASSUME NEW n \in Notes, NEW b \in Address, NEW c \in Channels
        PROVE  /\ Left(n, c, b)' <= Left(n, c, b)
               /\ n = j.note /\ b = a /\ c = j.chan => Left(n, c, b)' <= Left(n, c, b) - 1
    <2>0. retries'[n] >= retries[n] + 0 /\ Left(n, c, b) \in Int /\ Left(n, c, b)' \in Int
          /\ Cardinality(Owing(n, c, b)) \in Nat
      BY <1>2, OwingFinite, OwingFiniteNext
    <2>1. Cardinality(Owing(n, c, b))' <= Cardinality(Owing(n, c, b)) - 0
      BY <1>2, <1>3, <1>4, <2>0, OwingBecomes
    <2>2. Left(n, c, b)' <= Left(n, c, b) - 0 - 0
      BY <1>2, <2>0, <2>1, LeftFalls
    <2>3. ASSUME n = j.note, b = a, c = j.chan
          PROVE  Left(n, c, b)' <= Left(n, c, b) - 1 - 0
      <3>1. Cardinality(Owing(n, c, b))' <= Cardinality(Owing(n, c, b)) - 1
        BY <1>2, <1>3, <1>4, <1>5, <2>3, OwingBecomes
      <3> QED BY <1>2, <2>0, <3>1, LeftFalls
    <2> QED BY <2>0, <2>2, <2>3
  <1>8. ASSUME NEW n \in Notes, NEW b \in Address
        PROVE  /\ \A u \in Users : docs'[n][u] + Left(n, "in-app", b)' <= 1
               /\ got'[n][b] + Left(n, Channel(b[1]), b)' <= 1
    <2>1. Channel(b[1]) \in Channels /\ "in-app" \in Channels
      BY DEF Address, Ways, Devices, Channel, Channels
    <2>2. got[n][b] \in Nat /\ \A u \in Users : docs[n][u] \in Nat /\ docs'[n][u] = docs[n][u]
      BY <1>2 DEF ShapeInv, InboxOK
    <2>3. /\ \A u \in Users : docs[n][u] + Left(n, "in-app", b) <= 1
          /\ got[n][b] + Left(n, Channel(b[1]), b) <= 1
      BY DEF CountInv
    <2>4. \A c \in Channels : Left(n, c, b) \in Int /\ Left(n, c, b)' \in Int
      BY OwingFinite, OwingFiniteNext
    <2>5. \A u \in Users : docs'[n][u] + Left(n, "in-app", b)' <= 1
      BY <1>7, <2>1, <2>2, <2>3, <2>4
    <2>6. got'[n][b] + Left(n, Channel(b[1]), b)' <= 1
      BY <1>1, <1>6, <1>7, <2>1, <2>2, <2>3, <2>4
    <2> QED BY <2>5, <2>6
  <1> QED BY <1>8 DEF CountInv

\* Whom documents are stored for has one less to come, or the job is put back.
LEMMA CountStore ==
    ASSUME ShapeInv, ShapeInv', CountInv, NEW j \in jobs, StoreAll(j) \/ StoreFails(j)
    PROVE  CountInv'
  <1>0. j \in Job /\ JobOK(j) /\ j.note \in Notes /\ j.at = "storing" /\ j.chan = "in-app"
    BY DEF ShapeInv, JobsOK, JobsInv, Job, JobOK, StoreAll, StoreFails
  <1>1. UNCHANGED <<note, got>>
    BY DEF StoreAll, StoreFails
  <1>2. \A n \in Notes, u \in Users :
          docs'[n][u] <= IF n = j.note THEN docs[n][u] + 1 ELSE docs[n][u]
    <2>1. PICK some : Stored(j.note, some)
      BY DEF StoreAll, StoreFails
    <2>2. \A n \in Notes, u \in Users : docs'[n][u]
            = IF n = j.note /\ u \in some THEN docs[n][u] + 1 ELSE docs[n][u]
      BY <1>0, <1>1, <2>1, StoredInbox
    <2>3. \A n \in Notes, u \in Users : docs[n][u] \in Nat
      BY DEF ShapeInv, InboxOK
    <2> QED BY <2>2, <2>3
  <1>3. ASSUME NEW n \in Notes, NEW b \in Address, NEW c \in Channels
        PROVE  /\ Left(n, c, b)' <= Left(n, c, b)
               /\ n = j.note /\ c = "in-app" => Left(n, c, b)' <= Left(n, c, b) - 1
    <2>0. Left(n, c, b) \in Int /\ Left(n, c, b)' \in Int /\ Owes(j, b)
          /\ Cardinality(Owing(n, c, b)) \in Nat /\ retries[n] \in Nat
      BY <1>0, OwingFinite, OwingFiniteNext DEF Owes
    <2>1. CASE StoreAll(j)
      <3>0. retries'[n] >= retries[n] + 0
        BY <2>0, <2>1 DEF StoreAll
      <3>1. Cardinality(Owing(n, c, b))' <= Cardinality(Owing(n, c, b)) - 0
        BY <2>0, <2>1, OwingCompletes DEF StoreAll
      <3>2. Left(n, c, b)' <= Left(n, c, b) - 0 - 0
        BY <1>1, <3>0, <3>1, LeftFalls
      <3>3. ASSUME n = j.note, c = "in-app"
            PROVE  Left(n, c, b)' <= Left(n, c, b) - 1 - 0
        <4>1. Cardinality(Owing(n, c, b))' <= Cardinality(Owing(n, c, b)) - 1
          BY <1>0, <2>0, <2>1, <3>3, OwingCompletes DEF StoreAll
        <4> QED BY <1>1, <3>0, <4>1, LeftFalls
      <3> QED BY <2>0, <3>2, <3>3
    <2>2. CASE StoreFails(j)
      <3>1. Becomes(j, Again(j)) /\ retries' = [retries EXCEPT ![j.note] = @ + 1]
        BY <2>2 DEF StoreFails, Retried, Again
      <3>2. Again(j).note = j.note /\ Again(j).chan = j.chan
        BY <1>0 DEF Again, Job
      <3>3. Cardinality(Owing(n, c, b))' <= Cardinality(Owing(n, c, b)) - 0
        BY <2>0, <3>1, <3>2, OwingBecomes
      <3>4. retries'[n] >= retries[n] + 0 /\ (n = j.note => retries'[n] >= retries[n] + 1)
        BY <1>0, <2>0, <3>1 DEF ShapeInv, DispatchOK
      <3>5. Left(n, c, b)' <= Left(n, c, b) - 0 - 0
        BY <1>1, <3>3, <3>4, LeftFalls
      <3>6. n = j.note => Left(n, c, b)' <= Left(n, c, b) - 0 - 1
        BY <1>1, <3>3, <3>4, LeftFalls
      <3> QED BY <2>0, <3>5, <3>6
    <2> QED BY <2>1, <2>2
  <1>4. ASSUME NEW n \in Notes, NEW b \in Address
        PROVE  /\ \A u \in Users : docs'[n][u] + Left(n, "in-app", b)' <= 1
               /\ got'[n][b] + Left(n, Channel(b[1]), b)' <= 1
    <2>1. Channel(b[1]) \in Channels /\ "in-app" \in Channels
      BY DEF Address, Ways, Devices, Channel, Channels
    <2>2. got'[n][b] = got[n][b] /\ got[n][b] \in Nat
          /\ \A u \in Users : docs[n][u] \in Nat /\ docs'[n][u] \in Nat
      BY <1>1 DEF ShapeInv, InboxOK
    <2>3. /\ \A u \in Users : docs[n][u] + Left(n, "in-app", b) <= 1
          /\ got[n][b] + Left(n, Channel(b[1]), b) <= 1
      BY DEF CountInv
    <2>4. \A c \in Channels : Left(n, c, b) \in Int /\ Left(n, c, b)' \in Int
      BY OwingFinite, OwingFiniteNext
    <2>5. \A u \in Users : docs'[n][u] + Left(n, "in-app", b)' <= 1
      BY <1>2, <1>3, <2>1, <2>2, <2>3, <2>4
    <2>6. got'[n][b] + Left(n, Channel(b[1]), b)' <= 1
      BY <1>3, <2>1, <2>2, <2>3, <2>4
    <2> QED BY <2>5, <2>6
  <1> QED BY <1>4 DEF CountInv

\* A dispatch that has added its jobs owes nothing itself.
LEMMA CountAdded ==
    ASSUME ShapeInv, ShapeInv', CountInv, NEW n \in Notes, NEW chans \in SUBSET note[n].chans,
           Added(n, chans)
    PROVE  CountInv'
  <1>0. /\ jobs' = jobs \cup NewJobs(n, chans)
        /\ note[n].at = "adding" /\ note'[n].at = "ending"
        /\ \A k \in Notes \ {n} : note'[k] = note[k]
    BY AddedJobs
  <1>1. UNCHANGED <<retries, docs, got>>
    BY DEF Added, inboxVars
  <1>2. ASSUME NEW k \in Notes, NEW b \in Address, NEW c \in Channels
        PROVE  Left(k, c, b)' <= Left(k, c, b)
    <2>1. /\ IsFiniteSet(Owing(k, c, b)) /\ Cardinality(Owing(k, c, b)) \in Nat
          /\ IsFiniteSet(Owing(k, c, b)') /\ Cardinality(Owing(k, c, b)') \in Nat
          /\ retries[k] \in Nat /\ retries'[k] = retries[k] /\ Left(k, c, b)' \in Int
          /\ Left(k, c, b)' = Cardinality(Owing(k, c, b)') + Due(k)' - retries'[k]
      BY <1>1, OwingFinite, OwingFiniteNext
    <2>2. CASE k = n
      <3>1. Owing(k, c, b)' \subseteq Owing(k, c, b) \cup {NewJob(n, c)}
        BY <1>0, <2>2 DEF Owing, Owes, NewJobs, NewJob
      <3>2. /\ IsFiniteSet(Owing(k, c, b) \cup {NewJob(n, c)})
            /\ Cardinality(Owing(k, c, b) \cup {NewJob(n, c)})
                 = IF NewJob(n, c) \in Owing(k, c, b) THEN Cardinality(Owing(k, c, b))
                   ELSE Cardinality(Owing(k, c, b)) + 1
        BY <2>1, FS_AddElement
      <3>3. Cardinality(Owing(k, c, b)') <= Cardinality(Owing(k, c, b) \cup {NewJob(n, c)})
        BY <3>1, <3>2, FS_Subset
      <3>4. Cardinality(Owing(k, c, b)') <= Cardinality(Owing(k, c, b)) + 1
        BY <2>1, <3>2, <3>3
      <3>5. Due(k) = 1 /\ Due(k)' = 0
        BY <1>0, <2>2 DEF Due, Fresh
      <3> QED BY <2>1, <3>4, <3>5 DEF Left
    <2>3. CASE k # n
      <3>1. Owing(k, c, b)' = Owing(k, c, b)
        BY <1>0, <2>3 DEF Owing, Owes, NewJobs, NewJob
      <3>2. Due(k)' = Due(k) /\ Due(k) \in 0..1
        BY <1>0, <2>3 DEF Due
      <3> QED BY <2>1, <3>1, <3>2 DEF Left
    <2> QED BY <2>2, <2>3
  <1>3. \A k \in Notes, u \in Users : docs'[k][u] <= docs[k][u]
    BY <1>1 DEF ShapeInv, InboxOK
  <1> QED BY <1>1, <1>2, <1>3, CountKept

\* A restart puts back each job it cuts off, and the dispatch of the queue.
LEMMA CountCrash ==
    ASSUME ShapeInv, ShapeInv', CountInv, Crash
    PROVE  CountInv'
  <1>1. UNCHANGED <<docs, got>>
    BY DEF Crash, inboxVars
  <1>2. ASSUME NEW n \in Notes, NEW b \in Address, NEW c \in Channels
        PROVE  Left(n, c, b)' <= Left(n, c, b)
    <2> DEFINE S == Owing(n, c, b)
    <2> DEFINE W == AtWork(n)
    <2> DEFINE D == IF note[n].queued /\ note[n].at \in Dispatching THEN 1 ELSE 0
    <2>1. /\ IsFiniteSet(S) /\ Cardinality(S) \in Nat /\ retries[n] \in Nat
          /\ Cardinality(Owing(n, c, b)') \in Nat
          /\ Left(n, c, b) = Cardinality(S) + Due(n) - retries[n]
          /\ Left(n, c, b)' = Cardinality(Owing(n, c, b)') + Due(n)' - retries'[n]
      BY OwingFinite, OwingFiniteNext DEF Left
    <2>2. IsFiniteSet(W) /\ Cardinality(W) \in Nat
          /\ retries'[n] = retries[n] + D + Cardinality(W)
      BY CrashNotes
    <2>3. Due(n)' <= Due(n) + D /\ Due(n) \in 0..1 /\ Due(n)' \in 0..1 /\ D \in 0..1
      BY CrashNotes DEF Due, Fresh, Dispatching
    <2>4. Cardinality(Owing(n, c, b)') <= Cardinality(S) + Cardinality(W)
      <3> DEFINE U == S \cup W
      <3> DEFINE V == {x \in U : Now(x) \in Owing(n, c, b)'}
      <3> DEFINE f == [x \in V |-> Now(x)]
      <3>1. U \subseteq jobs
        BY DEF Owing, AtWork
      <3>2. ASSUME NEW k \in Owing(n, c, b)'
            PROVE  \E x \in V : Now(x) = k
        <4>1. k \in jobs' /\ k.note = n /\ k.chan = c /\ Owes(k, b)
          BY DEF Owing, Owes
        <4>2. PICK x \in jobs : k = Now(x)
          BY <4>1, CrashJobs
        <4>3. x.note = n /\ x.chan = c /\ (x.at \in Working \/ Now(x) = x)
          BY <4>1, <4>2, NowIs
        <4>4. x \in U
          BY <4>1, <4>2, <4>3 DEF Owing, AtWork
        <4> QED BY <4>2, <4>4
      <3>3. f \in [V -> Owing(n, c, b)'] /\ \A k \in Owing(n, c, b)' : \E x \in V : f[x] = k
        BY <3>2
      <3>4. f \in Surjection(V, Owing(n, c, b)')
        BY <3>3 DEF Surjection
      <3>5. IsFiniteSet(U)
            /\ Cardinality(U) = Cardinality(S) + Cardinality(W) - Cardinality(S \cap W)
        BY <2>1, <2>2, FS_Union
      <3>6. V \in SUBSET U
        OBVIOUS
      <3> HIDE DEF f, V, U
      <3>7. IsFiniteSet(V) /\ Cardinality(V) <= Cardinality(U)
        BY <3>5, <3>6, FS_Subset
      <3>8. Cardinality(Owing(n, c, b)') <= Cardinality(V)
        BY <3>4, <3>7, FS_Surjection
      <3>9. IsFiniteSet(S \cap W) /\ Cardinality(S \cap W) \in Nat /\ Cardinality(V) \in Nat
        BY <2>1, <3>7, FS_Subset, FS_CardinalityType
      <3> QED BY <2>1, <2>2, <3>5, <3>7, <3>8, <3>9
    <2> HIDE DEF S, W, D
    <2> QED BY <2>1, <2>2, <2>3, <2>4
  <1>3. \A n \in Notes, u \in Users : docs'[n][u] <= docs[n][u]
    BY <1>1 DEF ShapeInv, InboxOK
  <1> QED BY <1>1, <1>2, <1>3, CountKept

LEMMA CountNext ==
    ASSUME ShapeInv, ShapeInv', CountInv, [Next]_vars
    PROVE  CountInv'
  <1>1. ASSUME NEW n \in Notes, Requests(n) \/ SendNow(n) \/ TakeNote(n) \/ Dispatch(n)
        PROVE  CountInv'
    <2>1. CASE AddJobs(n)
      <3>1. note[n].chans \in SUBSET note[n].chans /\ Added(n, note[n].chans)
        BY <2>1 DEF AddJobs
      <3> QED BY <3>1, CountAdded
    <2> QED BY <1>1, <2>1, CountSendNow, CountDispatch DEF Dispatch
  <1>2. ASSUME NEW c \in Channels, Worker(c)
        PROVE  CountInv'
    BY <1>2, CountWork, CountStore, CountDeliverOne DEF Worker
  <1>3. CASE Fails
    <2>1. ASSUME NEW n \in Notes, AddFails(n)
          PROVE  CountInv'
      <3>1. PICK some \in SUBSET note[n].chans : Added(n, some)
        BY <2>1 DEF AddFails
      <3> QED BY <3>1, CountAdded
    <2> QED BY <1>3, <2>1, CountDispatch, CountWork, CountStore DEF Fails
  <1> QED BY <1>1, <1>2, <1>3, CountPeople, CountCrash DEF Next

\* A request is stored for a user, or sent to an address, at most once more than
\* the queues put it or a job of it back, whatever fails and whenever the process
\* restarts: the retries of attempts and stalled jobs are the only repetitions.
THEOREM NotificationsRepeatsAreRetries == Spec => []RepeatsAreRetries
  <1>1. Init => ShapeInv
    BY InitShape
  <1>2. Init => CountInv
    <2> SUFFICES ASSUME Init, NEW n \in Notes, NEW a \in Address
                 PROVE  /\ \A u \in Users : docs[n][u] + Left(n, "in-app", a) <= 1
                        /\ got[n][a] + Left(n, Channel(a[1]), a) <= 1
      BY DEF CountInv
    <2>1. \A c : Owing(n, c, a) = {} /\ Due(n) \in 0..1 /\ retries[n] = 0
      BY DEF Init, Owing, Due
    <2>2. \A c : Left(n, c, a) = 0 + Due(n) - 0
      BY <2>1, FS_EmptySet DEF Left
    <2>3. got[n][a] = 0 /\ \A u \in Users : docs[n][u] = 0
      BY DEF Init
    <2> QED BY <2>1, <2>2, <2>3
  <1>3. ShapeInv /\ [Next]_vars => ShapeInv'
    BY NextShape
  <1>4. ShapeInv /\ ShapeInv' /\ CountInv /\ [Next]_vars => CountInv'
    BY CountNext
  <1>5. ShapeInv /\ CountInv => RepeatsAreRetries
    <2> SUFFICES ASSUME ShapeInv, CountInv, NEW n \in Notes
                 PROVE  /\ \A u \in Users : docs[n][u] <= 1 + retries[n]
                        /\ \A a \in Address : got[n][a] <= 1 + retries[n]
      BY DEF RepeatsAreRetries
    <2>1. \A c, a : 0 - retries[n] <= Left(n, c, a) /\ Left(n, c, a) \in Int /\ retries[n] \in Nat
      BY OwingFinite DEF Left
    <2>2. \A u \in Users : docs[n][u] \in Nat
      BY DEF ShapeInv, InboxOK
    <2>3. \A a \in Address : got[n][a] \in Nat
      BY DEF ShapeInv, InboxOK
    <2>4. <<"slack", Team>> \in Address
      BY DEF Address, Ways
    <2>5. \A u \in Users : docs[n][u] <= 1 + retries[n]
      BY <2>1, <2>2, <2>4 DEF CountInv
    <2>6. \A a \in Address : got[n][a] <= 1 + retries[n]
      BY <2>1, <2>3 DEF CountInv
    <2> QED BY <2>5, <2>6
  <1> QED BY <1>1, <1>2, <1>3, <1>4, <1>5, PTL DEF Spec

-----------------------------------------------------------------------------
(* Which steps change what the other properties are about.                   *)

LEMMA WhoReads ==
    ASSUME [Next]_vars, ~ \E n \in Notes : Resolve(n) \/ ResolveFails(n)
    PROVE  UNCHANGED seen
  <1>1. ASSUME NEW n \in Notes, Requests(n)
        PROVE  UNCHANGED seen
    BY <1>1, RequestsBegin DEF Create
  <1> QED BY <1>1
          DEF Next, SendNow, TakeNote, Dispatch, LookUp, AddJobs, Added, EndDispatch, Worker,
              TakeJob, StoreAll, FinishJob, DeliverOne, DeliveryFails, RemovePushToken,
              Fails, AddFails, StoreFails, ProviderFails, People, RegisterPushToken, TokenDies,
              UpdateSettings, CleanupUser, RemoveUser, MarkAsRead, MarkAllAsRead, Crash,
              vars, queueVars

LEMMA WhoDeletes ==
    ASSUME [Next]_vars, ~ \E n \in Notes : Resolve(n) \/ ResolveFails(n),
           ~ \E u \in Movers : CleanupUser(u) \/ RemoveUser(u)
    PROVE  UNCHANGED <<here, cleaning, overtaken>>
  <1>1. ASSUME NEW n \in Notes, Requests(n)
        PROVE  UNCHANGED <<here, cleaning, overtaken>>
    BY <1>1, RequestsBegin DEF Create
  <1> QED BY <1>1
          DEF Next, SendNow, TakeNote, Dispatch, LookUp, AddJobs, Added, EndDispatch, Worker,
              TakeJob, StoreAll, FinishJob, DeliverOne, DeliveryFails, RemovePushToken,
              Fails, AddFails, StoreFails, ProviderFails, People, RegisterPushToken, TokenDies,
              UpdateSettings, MarkAsRead, MarkAllAsRead, Crash, vars, userVars

LEMMA WhoStores ==
    ASSUME [Next]_vars, ~ \E u \in Movers : CleanupUser(u),
           ~ \E j \in jobs : StoreAll(j) \/ StoreFails(j)
    PROVE  UNCHANGED docs
  <1>1. ASSUME NEW n \in Notes, Requests(n)
        PROVE  UNCHANGED docs
    BY <1>1, RequestsBegin DEF Create, inboxVars
  <1> QED BY <1>1
          DEF Next, SendNow, TakeNote, Dispatch, LookUp, Resolve, AddJobs, Added, EndDispatch,
              Worker, TakeJob, FinishJob, DeliverOne, DeliveryFails, RemovePushToken,
              Fails, ResolveFails, AddFails, ProviderFails, People, RegisterPushToken, TokenDies,
              UpdateSettings, RemoveUser, MarkAsRead, MarkAllAsRead, Crash, vars, inboxVars

LEMMA WhoRegisters ==
    ASSUME [Next]_vars,
           ~ \E u \in Movers, d \in Devices, t \in Tokens : RegisterPushToken(u, d, t),
           ~ \E j \in jobs : \E a \in j.left : RemovePushToken(j, a)
    PROVE  UNCHANGED <<token, raced>>
  <1>1. ASSUME NEW n \in Notes, Requests(n)
        PROVE  UNCHANGED <<token, raced>>
    BY <1>1, RequestsBegin DEF Create
  <1> QED BY <1>1
          DEF Next, SendNow, TakeNote, Dispatch, LookUp, Resolve, AddJobs, Added, EndDispatch,
              Worker, TakeJob, StoreAll, FinishJob, DeliverOne, DeliveryFails, Fails, ResolveFails,
              AddFails, StoreFails, ProviderFails, People, TokenDies, UpdateSettings, CleanupUser,
              RemoveUser, MarkAsRead, MarkAllAsRead, Crash, vars, userVars

LEMMA WhoChooses ==
    ASSUME [Next]_vars, ~ \E u \in Movers, w \in Wishes : UpdateSettings(u, w),
           ~ \E n \in Notes : Requests(n)
    PROVE  UNCHANGED <<wants, wanted>>
  BY DEF Next, SendNow, TakeNote, Dispatch, LookUp, Resolve, AddJobs, Added, EndDispatch, Worker,
         TakeJob, StoreAll, FinishJob, DeliverOne, DeliveryFails, RemovePushToken, Fails,
         ResolveFails, AddFails, StoreFails, ProviderFails, People, RegisterPushToken, TokenDies,
         CleanupUser, RemoveUser, MarkAsRead, MarkAllAsRead, Crash, vars, userVars

LEMMA WhoDelivers ==
    ASSUME [Next]_vars, ~ \E n \in Notes : SendNow(n),
           ~ \E j \in jobs : \E a \in j.left : DeliverOne(j, a)
    PROVE  UNCHANGED got
  <1>1. ASSUME NEW n \in Notes, Requests(n)
        PROVE  UNCHANGED got
    BY <1>1, RequestsBegin DEF Create, inboxVars
  <1> QED BY <1>1
          DEF Next, TakeNote, Dispatch, LookUp, Resolve, AddJobs, Added, EndDispatch, Worker,
              TakeJob, StoreAll, FinishJob, DeliveryFails, RemovePushToken, Fails, ResolveFails,
              AddFails, StoreFails, ProviderFails, People, RegisterPushToken, TokenDies,
              UpdateSettings, CleanupUser, RemoveUser, MarkAsRead, MarkAllAsRead, Crash,
              vars, inboxVars

\* The job of a step becomes one of the same round that is no more open.
LEMMA WhoWorks ==
    ASSUME ShapeInv, [Next]_vars, NEW k \in jobs'
    PROVE  \/ \E j \in jobs : /\ j.note = k.note /\ j.round = k.round
                              /\ j.at = "failed" => k.at = "failed"
           \/ \E n \in Notes : note[n].at = "adding" /\ k.note = n /\ k.round = Len(seen[n])
  <1> DEFINE G == \E j \in jobs : /\ j.note = k.note /\ j.round = k.round
                                  /\ j.at = "failed" => k.at = "failed"
  <1> DEFINE H == \E n \in Notes : note[n].at = "adding" /\ k.note = n /\ k.round = Len(seen[n])
  <1>1. CASE UNCHANGED jobs
    BY <1>1
  <1>2. ASSUME NEW n \in Notes, Requests(n) \/ SendNow(n) \/ TakeNote(n) \/ Dispatch(n)
        PROVE  G \/ H
    <2>1. CASE AddJobs(n)
      BY <2>1 DEF AddJobs, Added
    <2>2. CASE Requests(n)
      <3>1. UNCHANGED jobs
        BY <2>2, RequestsBegin DEF Create
      <3> QED BY <1>1, <3>1
    <2> QED BY <1>1, <1>2, <2>1, <2>2 DEF SendNow, TakeNote, Dispatch, LookUp, Resolve, EndDispatch
  <1>3. ASSUME NEW j \in jobs, NEW x, Becomes(j, x), x.note = j.note, x.round = j.round,
               j.at # "failed"
        PROVE  G
    BY <1>3 DEF Becomes
  <1>4. ASSUME NEW j \in jobs, Completes(j)
        PROVE  G
    BY <1>4 DEF Completes
  <1>5. ASSUME NEW j \in jobs, Retried(j), j.at # "failed"
        PROVE  G
    <2>1. j \in Job /\ Becomes(j, Again(j))
      BY <1>5 DEF ShapeInv, JobsOK, Retried, Again
    <2>2. Again(j).note = j.note /\ Again(j).round = j.round
      BY <2>1 DEF Again, Job
    <2> QED BY <1>3, <1>5, <2>1, <2>2
  <1>6. ASSUME NEW j \in jobs, TakeJob(j)
        PROVE  G
    <2> DEFINE x == [j EXCEPT !.at = IF j.chan = "in-app" THEN "storing" ELSE "sending",
                              !.left = Targets(j)]
    <2>1. Becomes(j, x) /\ j.at # "failed" /\ j \in Job
      BY <1>6 DEF TakeJob, Taken, ShapeInv, JobsOK
    <2>2. x.note = j.note /\ x.round = j.round
      BY <2>1 DEF Job
    <2> HIDE DEF x
    <2> QED BY <1>3, <2>1, <2>2
  <1>7. ASSUME NEW j \in jobs, NEW a \in j.left,
               DeliverOne(j, a) \/ DeliveryFails(j, a) \/ RemovePushToken(j, a)
        PROVE  G
    <2>1. Becomes(j, Less(j, a)) /\ j.at # "failed"
      BY <1>7 DEF DeliverOne, DeliveryFails, RemovePushToken, Less
    <2>2. Less(j, a).note = j.note /\ Less(j, a).round = j.round
      BY LessIs
    <2> QED BY <1>3, <2>1, <2>2
  <1>8. ASSUME NEW c \in Channels, Worker(c)
        PROVE  G
    BY <1>4, <1>6, <1>7, <1>8 DEF Worker, StoreAll, FinishJob
  <1>9. CASE Fails
    <2>1. ASSUME NEW n \in Notes, AddFails(n)
          PROVE  G \/ H
      BY <2>1 DEF AddFails, Added
    <2> QED BY <1>1, <1>5, <1>9, <2>1 DEF Fails, ResolveFails, StoreFails, ProviderFails, Taken
  <1>10. CASE Crash
    <2>1. PICK j \in jobs : k = Now(j)
      BY <1>10, CrashJobs
    <2> QED BY <2>1, NowIs DEF Working
  <1>11. CASE People
    BY <1>1, <1>11 DEF People, RegisterPushToken, TokenDies, UpdateSettings, CleanupUser,
                       RemoveUser, MarkAsRead, MarkAllAsRead, queueVars
  <1>12. CASE UNCHANGED vars
    BY <1>1, <1>12 DEF vars, queueVars
  <1> QED BY <1>2, <1>8, <1>9, <1>10, <1>11, <1>12 DEF Next

LEMMA WhoAdds ==
    ASSUME ShapeInv, [Next]_vars, NEW n \in Notes, note'[n].at = "adding",
           ~ Resolve(n), ~ ResolveFails(n)
    PROVE  note[n].at = "adding"
  <1>0. note \in [Notes -> Note] /\ note[n] \in Note
    BY DEF ShapeInv, DispatchOK
  <1>1. CASE UNCHANGED note
    BY <1>1
  <1>2. ASSUME NEW m \in Notes, Requests(m)
        PROVE  note[n].at = "adding"
    <2>1. PICK req : Begun(req) /\ Create(m, req)
      BY <1>2, RequestsBegin
    <2> QED BY <1>0, <2>1 DEF Create, Begun
  <1>3. ASSUME NEW m \in Notes, Dispatch(m) \/ SendNow(m) \/ TakeNote(m) \/ ResolveFails(m)
                                \/ AddFails(m)
        PROVE  note[n].at = "adding"
    <2>1. \A k \in Notes \ {m} : note'[k] = note[k]
      BY <1>0, <1>3 DEF Dispatch, LookUp, Resolve, ResolveFails, Resolved, AddJobs, AddFails, Added,
                        EndDispatch, SendNow, TakeNote
    <2>2. CASE m # n
      BY <2>1, <2>2
    <2>3. ASSUME NEW s, note' = [note EXCEPT ![n].at = s], s # "adding"
          PROVE  FALSE
      BY <1>0, <2>3 DEF Note
    <2>4. CASE m = n /\ (SendNow(n) \/ TakeNote(n))
      BY <2>3, <2>4 DEF SendNow, TakeNote
    <2>5. CASE m = n /\ LookUp(n)
      BY <1>0, <2>5 DEF LookUp, Note
    <2>6. CASE m = n /\ (AddJobs(n) \/ AddFails(n))
      BY <1>0, <2>6 DEF AddJobs, AddFails, Added, Note
    <2>7. CASE m = n /\ EndDispatch(n)
      <3>1. CASE note' = [note EXCEPT ![n].at = "done"] \/ note' = [note EXCEPT ![n].at = "dropped"]
        BY <2>3, <3>1
      <3>2. CASE note[n].refused /\ note[n].queued
        BY <1>0, <2>7, <3>2 DEF EndDispatch, Note
      <3> QED BY <2>7, <3>1, <3>2 DEF EndDispatch
    <2> QED BY <1>3, <2>2, <2>4, <2>5, <2>6, <2>7 DEF Dispatch
  <1>4. CASE Crash
    BY <1>4, CrashNotes DEF Dispatching
  <1>5. ASSUME NEW c \in Channels, Worker(c)
        PROVE  note[n].at = "adding"
    BY <1>1, <1>5 DEF Worker, TakeJob, StoreAll, FinishJob, DeliverOne, DeliveryFails,
                      RemovePushToken
  <1>6. CASE Fails
    BY <1>1, <1>3, <1>6 DEF Fails, StoreFails, ProviderFails
  <1>7. CASE People \/ UNCHANGED vars
    BY <1>1, <1>7 DEF People, RegisterPushToken, TokenDies, UpdateSettings, CleanupUser,
                      RemoveUser, MarkAsRead, MarkAllAsRead, vars, queueVars
  <1> QED BY <1>2, <1>3, <1>4, <1>5, <1>6, <1>7 DEF Next

\* What the dispatch that reads n has read comes after all that was read before.
LEMMA NewRound ==
    ASSUME ShapeInv, NEW n \in Notes, NEW rs, Resolved(n, rs)
    PROVE  /\ \A m \in Notes : DOMAIN seen'[m] =
                IF m = n THEN DOMAIN seen[m] \cup {Len(seen[m]) + 1} ELSE DOMAIN seen[m]
           /\ \A m \in Notes : \A i \in DOMAIN seen[m] : seen'[m][i] = seen[m][i]
           /\ Len(seen'[n]) = Len(seen[n]) + 1 /\ Len(seen[n]) + 1 \notin DOMAIN seen[n]
           /\ seen'[n][Len(seen[n]) + 1] = rs
  <1>1. seen \in [Notes -> Seq(SUBSET Recipient)] /\ seen[n] \in Seq(SUBSET Recipient)
    BY DEF ShapeInv, DispatchOK
  <1>2. seen' = [seen EXCEPT ![n] = Append(seen[n], rs)]
    BY DEF Resolved
  <1>3. \A m \in Notes \ {n} : seen'[m] = seen[m]
    BY <1>1, <1>2
  <1>4. seen'[n] = Append(seen[n], rs)
    BY <1>1, <1>2
  <1>5. /\ DOMAIN seen'[n] = DOMAIN seen[n] \cup {Len(seen[n]) + 1}
        /\ \A i \in DOMAIN seen[n] : seen'[n][i] = seen[n][i]
        /\ Len(seen'[n]) = Len(seen[n]) + 1 /\ Len(seen[n]) + 1 \notin DOMAIN seen[n]
        /\ seen'[n][Len(seen[n]) + 1] = rs
    <2> DEFINE s == seen[n]
    <2>1. s \in Seq(SUBSET Recipient) /\ seen'[n] = Append(s, rs)
      BY <1>1, <1>4
    <2> HIDE DEF s
    <2>2. /\ DOMAIN Append(s, rs) = DOMAIN s \cup {Len(s) + 1}
          /\ \A i \in DOMAIN s : Append(s, rs)[i] = s[i]
          /\ Len(Append(s, rs)) = Len(s) + 1 /\ Len(s) + 1 \notin DOMAIN s
          /\ Append(s, rs)[Len(s) + 1] = rs
      BY <2>1
    <2> QED BY <2>1, <2>2 DEF s
  <1> QED BY <1>3, <1>5

\* A round that was read is not open again once it is done with.
LEMMA OpenBefore ==
    ASSUME ShapeInv, [Next]_vars, NEW n \in Notes, NEW i \in DOMAIN seen[n], Open(n, i)'
    PROVE  Open(n, i)
  <1>1. CASE \E k \in jobs' : k.note = n /\ k.round = i /\ k.at # "failed"
    BY <1>1, WhoWorks DEF Open
  <1>2. CASE note'[n].at = "adding" /\ i = Len(seen'[n])
    <2>1. ASSUME NEW m \in Notes, NEW rs, Resolved(m, rs)
          PROVE  IF m = n THEN FALSE ELSE seen'[n] = seen[n]
      <3>1. CASE m = n
        BY <1>2, <2>1, <3>1, NewRound
      <3>2. CASE m # n
        BY <2>1, <3>2 DEF Resolved, ShapeInv, DispatchOK
      <3> QED BY <3>1, <3>2
    <2>2. ~Resolve(n) /\ ~ResolveFails(n)
      BY <2>1 DEF Resolve, ResolveFails
    <2>3. seen'[n] = seen[n]
      BY <2>1, WhoReads DEF Resolve, ResolveFails
    <2> QED BY <1>2, <2>2, <2>3, WhoAdds DEF Open
  <1> QED BY <1>1, <1>2 DEF Open

-----------------------------------------------------------------------------
(* Documents and their owners: whoever has a document, or is known to an     *)
(* open dispatch, is there and not being deleted, or was overtaken.          *)

Safe(u) == u \in (here \ cleaning) \cup overtaken

OwnInv ==
    /\ \A n \in Notes, u \in Users : docs[n][u] > 0 => Safe(u)
    /\ \A n \in Notes : \A i \in DOMAIN seen[n] :
         Open(n, i) => \A r \in seen[n][i] : Safe(r.user)

\* Nobody who was safe is not, nobody new has a document, and no round is new.
LEMMA OwnKept ==
    ASSUME ShapeInv, OwnInv, [Next]_vars, UNCHANGED seen,
           \A u \in Users : Safe(u) => Safe(u)',
           \A n \in Notes, u \in Users : docs'[n][u] > 0 => docs[n][u] > 0 \/ Safe(u)
    PROVE  OwnInv'
  <1>1. ASSUME NEW n \in Notes, NEW i \in DOMAIN seen[n], Open(n, i)', NEW r \in seen[n][i]
        PROVE  Safe(r.user)'
    <2>1. Open(n, i)
      BY <1>1, OpenBefore
    <2>2. r.user \in Users
      BY DEF ShapeInv, DispatchOK, Recipient
    <2> QED BY <2>1, <2>2 DEF OwnInv
  <1> QED BY <1>1 DEF OwnInv

\* Whom a dispatch reads is safe, as are those whom it cannot look up.
LEMMA OwnResolved ==
    ASSUME ShapeInv, OwnInv, [Next]_vars, NEW n \in Notes, NEW rs, Resolved(n, rs),
           \A u \in Users : Safe(u) => Safe(u)', UNCHANGED docs,
           \A r \in rs : Safe(r.user)'
    PROVE  OwnInv'
  <1>1. ASSUME NEW m \in Notes, NEW i \in DOMAIN seen'[m], Open(m, i)', NEW r \in seen'[m][i]
        PROVE  Safe(r.user)'
    <2>1. CASE i \in DOMAIN seen[m]
      <3>1. Open(m, i) /\ r \in seen[m][i]
        BY <1>1, <2>1, OpenBefore, NewRound
      <3>2. r.user \in Users
        BY <2>1, <3>1 DEF ShapeInv, DispatchOK, Recipient
      <3> QED BY <2>1, <3>1, <3>2 DEF OwnInv
    <2>2. CASE i \notin DOMAIN seen[m]
      <3>1. m = n /\ i = Len(seen[n]) + 1
        BY <2>2, NewRound
      <3> QED BY <3>1, NewRound
    <2> QED BY <2>1, <2>2
  <1> QED BY <1>1 DEF OwnInv

LEMMA OwnNext ==
    ASSUME ShapeInv, OwnInv, [Next]_vars
    PROVE  OwnInv'
  <1>1. ASSUME NEW n \in Notes, Resolve(n) \/ ResolveFails(n)
        PROVE  OwnInv'
    <2>1. UNCHANGED <<here, cleaning, docs>> /\ overtaken \subseteq overtaken'
      BY <1>1 DEF Resolve, ResolveFails, Resolved, inboxVars
    <2>2. \A u \in Users : Safe(u) => Safe(u)'
      BY <2>1 DEF Safe
    <2>3. CASE Resolve(n)
      <3> DEFINE rs == {Read(u) : u \in note[n].to \cap here}
      <3>1. Resolved(n, rs) /\ overtaken' = overtaken \cup (note[n].to \cap cleaning)
        BY <2>3 DEF Resolve
      <3>2. \A r \in rs : Safe(r.user)'
        BY <2>1, <3>1 DEF Safe, Read
      <3> HIDE DEF rs
      <3> QED BY <2>1, <2>2, <3>1, <3>2, OwnResolved
    <2>4. CASE ResolveFails(n)
      <3> DEFINE rs == {IdOnly(u) : u \in note[n].to}
      <3>1. Resolved(n, rs)
            /\ overtaken' = overtaken \cup {u \in note[n].to : u \in cleaning \/ u \notin here}
        BY <2>4 DEF ResolveFails
      <3>2. \A r \in rs : Safe(r.user)'
        BY <2>1, <3>1 DEF Safe, IdOnly
      <3> HIDE DEF rs
      <3> QED BY <2>1, <2>2, <3>1, <3>2, OwnResolved
    <2> QED BY <1>1, <2>3, <2>4
  <1>2. ASSUME NEW u \in Movers, CleanupUser(u)
        PROVE  OwnInv'
    <2>1. UNCHANGED <<here, note, seen, jobs>> /\ cleaning' = cleaning \cup {u}
          /\ docs' = [n \in Notes |-> [docs[n] EXCEPT ![u] = 0]]
          /\ overtaken' = IF \E p \in OpenReads : Knows(p[1], p[2], u)
                          THEN overtaken \cup {u} ELSE overtaken
      BY <1>2 DEF CleanupUser, queueVars
    <2>2. \A v \in Users : v # u /\ Safe(v) => Safe(v)'
      BY <2>1 DEF Safe
    <2>3. \A n \in Notes, v \in Users : docs'[n][v] > 0 => docs[n][v] > 0 /\ v # u
      BY <2>1 DEF ShapeInv, InboxOK
    <2>4. ASSUME NEW n \in Notes, NEW i \in DOMAIN seen[n], Open(n, i)', NEW r \in seen[n][i]
          PROVE  Safe(r.user)'
      <3>1. Open(n, i) /\ r.user \in Users
        BY <2>4, OpenBefore DEF ShapeInv, DispatchOK, Recipient
      <3>2. Safe(r.user)
        BY <3>1 DEF OwnInv
      <3>3. CASE r.user = u
        <4>1. <<n, i>> \in OpenReads
          BY <3>1 DEF OpenReads
        <4>2. Knows(n, i, u)
          BY <3>3 DEF Knows
        <4> QED BY <2>1, <3>3, <4>1, <4>2 DEF Safe
      <3> QED BY <2>2, <3>1, <3>2, <3>3
    <2>5. \A n \in Notes, v \in Users : docs'[n][v] > 0 => Safe(v)'
      BY <2>2, <2>3 DEF OwnInv
    <2> QED BY <2>1, <2>4, <2>5 DEF OwnInv
  <1>3. ASSUME NEW u \in Movers, RemoveUser(u)
        PROVE  OwnInv'
    <2>1. UNCHANGED <<seen, docs>> /\ \A v \in Users : Safe(v) => Safe(v)'
      BY <1>3 DEF RemoveUser, queueVars, inboxVars, Safe
    <2> QED BY <2>1, OwnKept
  <1>4. CASE /\ ~ \E n \in Notes : Resolve(n) \/ ResolveFails(n)
             /\ ~ \E u \in Movers : CleanupUser(u) \/ RemoveUser(u)
    <2>1. UNCHANGED <<seen, here, cleaning, overtaken>>
      BY <1>4, WhoReads, WhoDeletes
    <2>2. \A u \in Users : Safe(u) => Safe(u)'
      BY <2>1 DEF Safe
    <2>3. ASSUME NEW j \in jobs, StoreAll(j) \/ StoreFails(j)
          PROVE  \A n \in Notes, u \in Users : docs'[n][u] > 0 => docs[n][u] > 0 \/ Safe(u)
      <3>1. j.note \in Notes /\ j.round \in DOMAIN seen[j.note] /\ j.at = "storing"
        BY <2>3 DEF ShapeInv, JobsOK, JobsInv, JobOK, Job, StoreAll, StoreFails
      <3>2. Open(j.note, j.round)
        BY <3>1 DEF Open
      <3>3. \A u \in Told(j) : Safe(u)
        BY <3>1, <3>2 DEF OwnInv, Told, Recipients
      <3>4. UNCHANGED got
        BY <2>3 DEF StoreAll, StoreFails
      <3>5. PICK some \in SUBSET Told(j) : Stored(j.note, some)
        BY <2>3 DEF StoreAll, StoreFails
      <3>6. \A n \in Notes, u \in Users : docs'[n][u]
              = IF n = j.note /\ u \in some THEN docs[n][u] + 1 ELSE docs[n][u]
        BY <3>1, <3>4, <3>5, StoredInbox
      <3> QED BY <3>3, <3>5, <3>6
    <2>4. \A n \in Notes, u \in Users : docs'[n][u] > 0 => docs[n][u] > 0 \/ Safe(u)
      BY <1>4, <2>3, WhoStores
    <2> QED BY <2>1, <2>2, <2>4, OwnKept
  <1> QED BY <1>1, <1>2, <1>3, <1>4

\* No document belongs to a user who is gone, but for those whom a dispatch knew
\* when the deletion cleaned up after them, or could not look up.
THEOREM NotificationsDocumentsHaveOwners == Spec => []DocumentsHaveOwners
  <1>1. Init => ShapeInv
    BY InitShape
  <1>2. Init => OwnInv
    BY DEF Init, OwnInv, Safe
  <1>3. ShapeInv /\ [Next]_vars => ShapeInv'
    BY NextShape
  <1>4. ShapeInv /\ OwnInv /\ [Next]_vars => OwnInv'
    BY OwnNext
  <1>5. OwnInv => DocumentsHaveOwners
    BY DEF OwnInv, DocumentsHaveOwners, Safe
  <1> QED BY <1>1, <1>2, <1>3, <1>4, <1>5, PTL DEF Spec

-----------------------------------------------------------------------------
(* What users want: what they want now they wanted since the request, and so *)
(* they did when a dispatch of it read them.                                 *)

SpareInv ==
    \A n \in Notes :
        /\ note[n].at # "unused" =>
             \A u \in Users : \A c \in wants[u] : <<u, c>> \in wanted[n]
        /\ \A i \in DOMAIN seen[n] : \A r \in seen[n][i] :
             r.known => \A c \in r.wants : <<r.user, c>> \in wanted[n]

\* What was wanted since a request stays wanted.
LEMMA WantedStays ==
    ASSUME ShapeInv, [Next]_vars, NEW n \in Notes, note[n].at # "unused"
    PROVE  wanted[n] \subseteq wanted'[n]
  <1>1. ASSUME NEW u \in Movers, NEW w \in Wishes, UpdateSettings(u, w)
        PROVE  wanted[n] \subseteq wanted'[n]
    BY <1>1 DEF UpdateSettings
  <1>2. ASSUME NEW m \in Notes, Requests(m)
        PROVE  wanted[n] \subseteq wanted'[n]
    <2>1. PICK req : Begun(req) /\ Create(m, req)
      BY <1>2, RequestsBegin
    <2> QED BY <2>1 DEF Create, ShapeInv, UsersOK
  <1> QED BY <1>1, <1>2, WhoChooses

LEMMA SpareNext ==
    ASSUME ShapeInv, SpareInv, [Next]_vars
    PROVE  SpareInv'
  <1>0. ShapeInv' /\ Onward
    BY NextShape
  <1>1. ASSUME NEW n \in Notes, note'[n].at # "unused", NEW u \in Users, NEW c \in wants'[u]
        PROVE  <<u, c>> \in wanted'[n]
    <2>1. ASSUME NEW v \in Movers, NEW w \in Wishes, UpdateSettings(v, w)
          PROVE  <<u, c>> \in wanted'[n]
      <3>1. note' = note /\ wants' = [wants EXCEPT ![v] = w]
            /\ wanted' = [m \in Notes |-> IF note[m].at = "unused" THEN wanted[m]
                                          ELSE wanted[m] \cup ({v} \X w)]
        BY <2>1 DEF UpdateSettings, queueVars
      <3>2. wanted'[n] = wanted[n] \cup ({v} \X w)
        BY <1>1, <3>1
      <3>3. CASE u = v
        BY <1>1, <3>1, <3>2, <3>3 DEF ShapeInv, UsersOK
      <3>4. CASE u # v
        BY <1>1, <3>1, <3>2, <3>4 DEF ShapeInv, UsersOK, SpareInv
      <3> QED BY <3>3, <3>4
    <2>2. ASSUME NEW m \in Notes, Requests(m)
          PROVE  <<u, c>> \in wanted'[n]
      <3>1. PICK req : Begun(req) /\ Create(m, req)
        BY <2>2, RequestsBegin
      <3>2. wants' = wants /\ wants[u] \in SUBSET Channels
        BY <3>1 DEF Create, ShapeInv, UsersOK
      <3>3. CASE m = n
        BY <1>1, <3>1, <3>2, <3>3 DEF Create, ShapeInv, UsersOK
      <3>4. CASE m # n
        <4>1. note'[n] = note[n] /\ wanted'[n] = wanted[n]
          BY <3>1, <3>4 DEF Create, ShapeInv, UsersOK, DispatchOK
        <4> QED BY <1>1, <3>2, <4>1 DEF SpareInv
      <3> QED BY <3>3, <3>4
    <2>3. CASE /\ ~ \E v \in Movers, w \in Wishes : UpdateSettings(v, w)
               /\ ~ \E m \in Notes : Requests(m)
      <3>1. UNCHANGED <<wants, wanted>>
        BY <2>3, WhoChooses
      <3>2. note[n].at = "unused" => note'[n].at = "unused"
        <4> SUFFICES ASSUME note[n].at = "unused"
                     PROVE  note'[n] = note[n]
          OBVIOUS
        <4>1. CASE Crash
          <5>1. note'[n] = Restarted(note[n])
            BY <4>1 DEF Crash
          <5> QED BY <5>1 DEF Restarted, Dispatching
        <4>2. ASSUME NEW m \in Notes, SendNow(m) \/ TakeNote(m) \/ Dispatch(m) \/ ResolveFails(m)
                                      \/ AddFails(m)
              PROVE  note'[n] = note[n]
          <5>1. note[m].at # "unused"
            BY <4>2 DEF Dispatch, LookUp, Resolve, ResolveFails, Resolved, AddJobs, AddFails,
                        Added, EndDispatch, SendNow, TakeNote
          <5>2. m # n
            BY <5>1
          <5>3. note \in [Notes -> Note]
            BY DEF ShapeInv, DispatchOK
          <5> QED BY <4>2, <5>2, <5>3
                  DEF Dispatch, LookUp, Resolve, ResolveFails, Resolved, AddJobs, AddFails, Added,
                      EndDispatch, SendNow, TakeNote
        <4> QED BY <2>3, <4>1, <4>2
                DEF Next, Worker, TakeJob, StoreAll, FinishJob, DeliverOne, DeliveryFails,
                    RemovePushToken, Fails, StoreFails, ProviderFails, People, RegisterPushToken,
                    TokenDies, UpdateSettings, CleanupUser, RemoveUser, MarkAsRead, MarkAllAsRead,
                    vars, queueVars
      <3> QED BY <1>1, <3>1, <3>2 DEF SpareInv
    <2> QED BY <2>1, <2>2, <2>3
  <1>2. ASSUME NEW n \in Notes, NEW i \in DOMAIN seen'[n], NEW r \in seen'[n][i], r.known,
               NEW c \in r.wants
        PROVE  <<r.user, c>> \in wanted'[n]
    <2>1. CASE i \in DOMAIN seen[n]
      <3>1. r \in seen[n][i]
        BY <1>0, <1>2, <2>1 DEF Onward
      <3>2. note[n].at # "unused"
        BY <2>1 DEF ShapeInv, NotesInv
      <3> QED BY <1>2, <2>1, <3>1, <3>2, WantedStays DEF SpareInv
    <2>2. CASE i \notin DOMAIN seen[n]
      <3>1. PICK m \in Notes : Resolve(m) \/ ResolveFails(m)
        BY <2>2, WhoReads
      <3>2. PICK rs : Resolved(m, rs) /\ \A x \in rs :
              x.known => x.user \in Users /\ x.wants = wants[x.user]
        <4>1. CASE Resolve(m)
          <5> DEFINE rs == {Read(u) : u \in note[m].to \cap here}
          <5>1. Resolved(m, rs) /\ \A x \in rs : x.user \in Users /\ x.wants = wants[x.user]
            BY <4>1 DEF Resolve, Read, ShapeInv, UsersOK
          <5> HIDE DEF rs
          <5> QED BY <5>1
        <4>2. CASE ResolveFails(m)
          <5> DEFINE rs == {IdOnly(u) : u \in note[m].to}
          <5>1. Resolved(m, rs) /\ \A x \in rs : x.known = FALSE
            BY <4>2 DEF ResolveFails, IdOnly
          <5> HIDE DEF rs
          <5> QED BY <5>1
        <4> QED BY <3>1, <4>1, <4>2
      <3>3. n = m /\ r \in rs
        <4>1. m = n /\ i = Len(seen[n]) + 1
          <5>1. DOMAIN seen'[n]
                  = IF n = m THEN DOMAIN seen[n] \cup {Len(seen[n]) + 1} ELSE DOMAIN seen[n]
            BY <3>1, <3>2, NewRound
          <5> QED BY <1>2, <2>2, <5>1
        <4> QED BY <1>2, <3>2, <4>1, NewRound
      <3>4. note[n].at = "resolving"
        BY <3>2, <3>3 DEF Resolved
      <3>5. <<r.user, c>> \in wanted[n]
        BY <1>2, <3>2, <3>3, <3>4 DEF SpareInv
      <3> QED BY <3>4, <3>5, WantedStays
    <2> QED BY <2>1, <2>2
  <1> QED BY <1>1, <1>2 DEF SpareInv

LEMMA SparedNext ==
    ASSUME ShapeInv, SpareInv, OptedOutAreSpared, [Next]_vars
    PROVE  OptedOutAreSpared'
  <1>0. ShapeInv' /\ Onward
    BY NextShape
  <1>1. ASSUME NEW n \in Notes, NEW a \in Address, got'[n][a] > 0, a[2] \in Users,
               ~note'[n].system
        PROVE  <<a[2], Channel(a[1])>> \in wanted'[n]
    <2>1. CASE got[n][a] > 0
      <3>1. note[n].at # "unused"
        BY <2>1 DEF ShapeInv, NotesInv
      <3>2. ~note[n].system
        BY <1>0, <1>1, <3>1 DEF Onward
      <3>3. <<a[2], Channel(a[1])>> \in wanted[n]
        BY <1>1, <2>1, <3>2 DEF OptedOutAreSpared
      <3> QED BY <3>1, <3>3, WantedStays
    <2>2. CASE ~(got[n][a] > 0)
      <3>1. ASSUME NEW m \in Notes, SendNow(m)
            PROVE  <<a[2], Channel(a[1])>> \in wanted'[n]
        <4>1. PICK ok \in BOOLEAN,
                   b \in note[m].chans \X (IF note[m].to = {} THEN {Team} ELSE note[m].to) :
                     got' = IF ok THEN [got EXCEPT ![m][b] = @ + 1] ELSE got
          BY <3>1 DEF SendNow
        <4>2. m = n /\ b = a
          BY <1>1, <2>2, <4>1 DEF ShapeInv, InboxOK
        <4>3. note[n].at = "sending" /\ note'[n].system = note[n].system
          BY <1>0, <3>1, <4>2 DEF SendNow, Onward
        <4>4. note[n].to = {}
          BY <1>1, <4>3 DEF ShapeInv, NotesInv
        <4>5. a[2] = Team
          BY <4>1, <4>2, <4>4
        <4> QED BY <1>1, <4>5, NotificationsAssumption
      <3>2. ASSUME NEW j \in jobs, NEW b \in j.left, DeliverOne(j, b)
            PROVE  <<a[2], Channel(a[1])>> \in wanted'[n]
        <4>1. j \in Job /\ JobOK(j) /\ got' = [got EXCEPT ![j.note][b] = @ + 1]
          BY <3>2 DEF ShapeInv, JobsOK, JobsInv, DeliverOne
        <4>2. n = j.note /\ b = a
          BY <1>1, <2>2, <4>1 DEF ShapeInv, InboxOK
        <4>3. note[n].at # "unused" /\ j.round \in DOMAIN seen[n] /\ a \in Targets(j)
          BY <4>1, <4>2 DEF JobOK
        <4>4. ~Anyway(j)
          BY <1>0, <1>1, <4>2, <4>3 DEF Anyway, Onward
        <4>5. a[2] # Team
          BY <1>1, NotificationsAssumption
        <4>6. Channel(a[1]) = j.chan /\ \E r \in Recipients(j) :
                r.known /\ r.user = a[2] /\ j.chan \in r.wants
          BY <4>1, <4>2, <4>3, <4>4, <4>5, TargetsAre
        <4>7. <<a[2], Channel(a[1])>> \in wanted[n]
          BY <4>2, <4>3, <4>6 DEF SpareInv, Recipients
        <4> QED BY <4>3, <4>7, WantedStays
      <3>3. ~(UNCHANGED got)
        BY <1>1, <2>2
      <3> QED BY <3>1, <3>2, <3>3, WhoDelivers
    <2> QED BY <2>1, <2>2
  <1> QED BY <1>1 DEF OptedOutAreSpared

\* A request, but of type SYSTEM, reaches a user only on a channel that the user
\* has wanted at some time since the request.
THEOREM NotificationsOptedOutAreSpared == Spec => []OptedOutAreSpared
  <1>1. Init => ShapeInv
    BY InitShape
  <1>2. Init => SpareInv /\ OptedOutAreSpared
    BY DEF Init, SpareInv, OptedOutAreSpared, Unused
  <1>3. ShapeInv /\ [Next]_vars => ShapeInv'
    BY NextShape
  <1>4. ShapeInv /\ SpareInv /\ OptedOutAreSpared /\ [Next]_vars => SpareInv' /\ OptedOutAreSpared'
    BY SpareNext, SparedNext
  <1> QED BY <1>1, <1>2, <1>3, <1>4, PTL DEF Spec

-----------------------------------------------------------------------------
(* Push tokens: one that differs from what an open dispatch knows was        *)
(* registered while the dispatch was open.                                   *)

TokenInv ==
    \A n \in Notes : \A i \in DOMAIN seen[n] : Open(n, i) =>
        \A r \in seen[n][i], d \in Devices :
            r.known /\ token[r.user][d] \notin {NoToken, r.token[d]}
                => <<r.user, d, token[r.user][d]>> \in raced

LEMMA TokenNext ==
    ASSUME ShapeInv, TokenInv, [Next]_vars
    PROVE  TokenInv'
  <1>0. ShapeInv' /\ Onward
    BY NextShape
  <1> SUFFICES ASSUME NEW n \in Notes, NEW i \in DOMAIN seen'[n], Open(n, i)',
                      NEW r \in seen'[n][i], NEW d \in Devices, r.known,
                      token'[r.user][d] \notin {NoToken, r.token[d]}
               PROVE  <<r.user, d, token'[r.user][d]>> \in raced'
    BY DEF TokenInv
  <1>1. ASSUME NEW m \in Notes, Resolve(m) \/ ResolveFails(m), i \notin DOMAIN seen[n]
        PROVE  FALSE
    <2>1. UNCHANGED token
      BY <1>1 DEF Resolve, ResolveFails, Resolved
    <2>2. PICK rs : Resolved(m, rs) /\ \A x \in rs : x.known => x.token = token[x.user]
      <3>1. CASE Resolve(m)
        <4> DEFINE rs == {Read(u) : u \in note[m].to \cap here}
        <4>1. Resolved(m, rs) /\ \A x \in rs : x.token = token[x.user]
          BY <3>1 DEF Resolve, Read
        <4> HIDE DEF rs
        <4> QED BY <4>1
      <3>2. CASE ResolveFails(m)
        <4> DEFINE rs == {IdOnly(u) : u \in note[m].to}
        <4>1. Resolved(m, rs) /\ \A x \in rs : x.known = FALSE
          BY <3>2 DEF ResolveFails, IdOnly
        <4> HIDE DEF rs
        <4> QED BY <4>1
      <3> QED BY <1>1, <3>1, <3>2
    <2>3. m = n /\ i = Len(seen[n]) + 1
      BY <1>1, <2>2, NewRound
    <2>4. r \in rs
      BY <2>2, <2>3, NewRound
    <2> QED BY <2>1, <2>2, <2>4
  <1>2. i \in DOMAIN seen[n]
    BY <1>1, WhoReads
  <1>3. r \in seen[n][i] /\ Open(n, i)
    BY <1>0, <1>2, OpenBefore DEF Onward
  <1>4. r \in Recipient /\ r.user \in Users
    BY <1>2, <1>3 DEF ShapeInv, DispatchOK, Recipient
  <1>5. ASSUME NEW u \in Movers, NEW e \in Devices, NEW t \in Tokens, RegisterPushToken(u, e, t)
        PROVE  <<r.user, d, token'[r.user][d]>> \in raced'
    <2>1. token' = [token EXCEPT ![u][e] = t]
          /\ raced' = IF \E p \in OpenReads : \E x \in seen[p[1]][p[2]] :
                            x.user = u /\ x.token[e] # t
                      THEN raced \cup {<<u, e, t>>} ELSE raced \ {<<u, e, t>>}
      BY <1>5 DEF RegisterPushToken
    <2>2. token \in [Users -> TokensOf] /\ u \in Users
      BY NotificationsAssumption DEF ShapeInv, UsersOK
    <2>3. CASE r.user = u /\ d = e
      <3>1. token'[r.user][d] = t
        BY <2>1, <2>2, <2>3 DEF TokensOf
      <3>2. <<n, i>> \in OpenReads
        BY <1>2, <1>3 DEF OpenReads
      <3>3. \E p \in OpenReads : \E x \in seen[p[1]][p[2]] : x.user = u /\ x.token[e] # t
        BY <1>3, <2>3, <3>1, <3>2
      <3> QED BY <2>1, <2>3, <3>1, <3>3
    <2>4. CASE r.user # u \/ d # e
      <3>1. token'[r.user][d] = token[r.user][d]
        BY <1>4, <2>1, <2>2, <2>4 DEF TokensOf
      <3>2. <<r.user, d, token[r.user][d]>> \in raced
        BY <1>2, <1>3, <3>1 DEF TokenInv
      <3>3. <<r.user, d, token[r.user][d]>> # <<u, e, t>>
        BY <2>4
      <3> QED BY <2>1, <3>1, <3>2, <3>3
    <2> QED BY <2>3, <2>4
  <1>6. ASSUME NEW j \in jobs, NEW a \in j.left, RemovePushToken(j, a)
        PROVE  <<r.user, d, token'[r.user][d]>> \in raced'
    <2>1. token' = [token EXCEPT ![a[2]][a[1]] = NoToken] /\ raced' = raced
          /\ token \in [Users -> TokensOf]
      BY <1>6 DEF RemovePushToken, ShapeInv, UsersOK
    <2>2. token'[r.user][d] \in {NoToken, token[r.user][d]}
      BY <1>4, <2>1 DEF TokensOf
    <2> QED BY <1>2, <1>3, <2>1, <2>2 DEF TokenInv
  <1>7. CASE UNCHANGED <<token, raced>>
    BY <1>2, <1>3, <1>7 DEF TokenInv
  <1> QED BY <1>5, <1>6, <1>7, WhoRegisters

\* The token that a job knows of a user whom it may push to: what was read of the
\* user, unless nothing but the old token was.
LEMMA TokenForIs ==
    ASSUME ShapeInv, NEW j \in jobs, j.chan = "push", NEW a \in j.left
    PROVE  \E r \in Recipients(j) : /\ r.known /\ r.user = a[2] /\ a[1] \in Devices
                                    /\ TokenFor(j, a) = PushToken(r, a[1])
  <1>1. j \in Job /\ JobOK(j) /\ a \in PushTargets(j)
    BY DEF ShapeInv, JobsOK, JobsInv, JobOK, Targets
  <1>2. PICK d \in Devices, r \in Recipients(j) :
          a = <<d, r.user>> /\ PushToken(r, d) # NoToken
    BY <1>1 DEF PushTargets
  <1>3. Known(r) /\ \A s \in Recipients(j) : r.user = s.user => r = s
    BY <1>1 DEF ShapeInv, SeenInv, Recipients, JobOK, Job
  <1>4. r.known
    BY <1>2, <1>3 DEF Known, PushToken, Devices
  <1>5. (CHOOSE x \in Recipients(j) : x.user = a[2]) = r
    BY <1>2, <1>3
  <1> QED BY <1>2, <1>4, <1>5 DEF TokenFor

\* A token that works is only removed from a user whose device registered it while
\* a dispatch still knew another one.
THEOREM NotificationsOnlyRacesLoseTokens == Spec => OnlyRacesLoseTokens
  <1> DEFINE A == \A u \in Users, d \in Devices :
                    /\ token[u][d] \notin dead \cup {NoToken}
                    /\ token'[u][d] = NoToken
                    => <<u, d, token[u][d]>> \in raced
  <1>1. Init => ShapeInv
    BY InitShape
  <1>2. Init => TokenInv
    BY DEF Init, TokenInv
  <1>3. ShapeInv /\ [Next]_vars => ShapeInv'
    BY NextShape
  <1>4. ShapeInv /\ TokenInv /\ [Next]_vars => TokenInv'
    BY TokenNext
  <1>5. ShapeInv /\ TokenInv /\ [Next]_vars => A
    <2> SUFFICES ASSUME ShapeInv, TokenInv, [Next]_vars, NEW u \in Users, NEW d \in Devices,
                        token[u][d] \notin dead \cup {NoToken}, token'[u][d] = NoToken
                 PROVE  <<u, d, token[u][d]>> \in raced
      OBVIOUS
    <2>0. token \in [Users -> TokensOf]
      BY DEF ShapeInv, UsersOK
    <2>1. ASSUME NEW v \in Movers, NEW e \in Devices, NEW t \in Tokens, RegisterPushToken(v, e, t)
          PROVE  FALSE
      <3>1. token' = [token EXCEPT ![v][e] = t] /\ t # NoToken
        BY <2>1, NotificationsAssumption DEF RegisterPushToken
      <3> QED BY <2>0, <3>1 DEF TokensOf
    <2>2. PICK j \in jobs : \E a \in j.left : RemovePushToken(j, a)
      BY <2>1, WhoRegisters
    <2>3. PICK a \in j.left : RemovePushToken(j, a)
      BY <2>2
    <2>4. j \in Job /\ JobOK(j) /\ j.at = "sending" /\ j.chan = "push" /\ TokenFor(j, a) \in dead
          /\ token' = [token EXCEPT ![a[2]][a[1]] = NoToken]
      BY <2>3 DEF ShapeInv, JobsOK, JobsInv, RemovePushToken
    <2>5. u = a[2] /\ d = a[1]
      BY <2>0, <2>4 DEF TokensOf
    <2>6. PICK r \in Recipients(j) : /\ r.known /\ r.user = a[2] /\ a[1] \in Devices
                                     /\ TokenFor(j, a) = PushToken(r, a[1])
      BY <2>4, TokenForIs
    <2>7. j.note \in Notes /\ j.round \in DOMAIN seen[j.note] /\ Open(j.note, j.round)
      BY <2>4 DEF JobOK, Job, Open
    <2>8. token[u][d] # r.token[d]
      BY <2>4, <2>5, <2>6 DEF PushToken, Devices
    <2> QED BY <2>5, <2>6, <2>7, <2>8 DEF TokenInv, Recipients
  <1>6. A => [A]_vars
    OBVIOUS
  <1> QED BY <1>1, <1>2, <1>3, <1>4, <1>5, PTL DEF Spec, OnlyRacesLoseTokens
================================================================================
