----------------------------- MODULE Notifications -----------------------------
(***************************************************************************)
(* Notifications: a request names users and channels.  Its dispatch reads  *)
(* the users once and adds one job to the queue of each channel; each      *)
(* channel has a worker that delivers to what was read.  What admins send  *)
(* is dispatched by a job with three attempts, what the program sends of   *)
(* its own accord (follows, transactions) is dispatched by the caller.     *)
(***************************************************************************)
EXTENDS Integers, FiniteSets, Sequences

CONSTANTS Users, Notes,   \* users, requests to notify
          Movers,         \* bound: users who change anything or whom others notify
          Phones,         \* users with a telephone number
          Tokens, NoToken,
          Team,           \* the one address of all Slack messages
          Asked,          \* what admins send: users, channels, whether type SYSTEM
          Wishes,         \* the sets of channels that users choose between
          OldToken,       \* the pushToken of each user from the time of one device
          MaxEvents,      \* bound on what comes between: errors, restarts, new and
                          \* refused tokens, choices, deletions
          MaxCrashes      \* bound on restarts of the process

Channels == {"in-app", "email", "sms", "push", "whatsapp", "slack"}
Devices == {"mobile", "web"}
Ways == {"email", "sms", "whatsapp", "slack"} \cup Devices

ASSUME NotificationsAssumption ==
    /\ MaxEvents \in Nat /\ MaxCrashes \in Nat
    /\ Phones \subseteq Users /\ Movers \subseteq Users
    /\ OldToken \in [Users -> Tokens \cup {NoToken}]
    /\ NoToken \notin Tokens /\ Team \notin Users
    /\ Asked \subseteq [to: SUBSET Users, chans: SUBSET Channels, system: BOOLEAN]
    /\ Wishes \subseteq SUBSET Channels

VARIABLES here,        \* Mongo: the users that exist
          cleaning,    \* users whose deletion has cleaned up and not committed
          token,       \* the push tokens of each user; "legacy" is pushToken
          wants,       \* channels that each user has not switched off
          dead,        \* tokens that the push service refuses
          note,        \* the requests and their dispatch
          seen,        \* what each dispatch of a request read of its users
          jobs,        \* the jobs of the channel queues, but for those completed
          docs,        \* Mongo: how many documents of a request each user has
          unread,      \* how many of them are unread
          served,      \* history: channels that have completed a job of a request
          got,         \* history: how often a request was delivered to an address
          retries,     \* history: how often a request or a job of it was put back
          wanted,      \* history: channels a user wanted at any time since the request
          overtaken,   \* history: users in whose deletion a dispatch knew them
          raced,       \* history: tokens registered while a dispatch knew another
          events, crashes

userVars == <<here, cleaning, token, wants, dead, wanted, overtaken, raced>>
queueVars == <<note, seen, jobs, served, retries>>
inboxVars == <<docs, unread, got>>
bounds == <<events, crashes>>
vars == <<userVars, queueVars, inboxVars, bounds>>

Attempts == 3
StallsAllowed == 1

\* A follow reaches the target by three channels, an unfollow by one.
FollowChannels == {"in-app", "push", "email"}
TransactionChannels == {"in-app", "email", "push"}

TokensOf == [Devices \cup {"legacy"} -> Tokens \cup {NoToken}]
Recipient == [user: Users, known: BOOLEAN, wants: SUBSET Channels, token: TokensOf]
Address == Ways \X (Users \cup {Team})
NoteStates == {"unused", "looking", "waiting", "resolving", "adding", "ending",
               "sending", "done", "failed", "dropped"}
Note == [at: NoteStates, queued: BOOLEAN, needs: SUBSET Users, to: SUBSET Users,
         chans: SUBSET Channels, system: BOOLEAN, refused: BOOLEAN,
         tries: Nat, stalls: Nat]
JobStates == {"waiting", "storing", "sending", "failed"}
Job == [note: Notes, round: Nat, chan: Channels, at: JobStates,
        left: SUBSET Address, tries: Nat, stalls: Nat]

Working == {"storing", "sending"}
Dispatching == {"resolving", "adding", "ending"}

Unused == [at |-> "unused", queued |-> FALSE, needs |-> {}, to |-> {}, chans |-> {},
           system |-> FALSE, refused |-> FALSE, tries |-> 0, stalls |-> 0]

Event == events < MaxEvents /\ events' = events + 1
Fault == Event /\ UNCHANGED crashes
Change == Event /\ UNCHANGED crashes

Init ==
    /\ here = Users /\ cleaning = {}
    /\ token = [u \in Users |-> [k \in Devices \cup {"legacy"} |->
                                    IF k = "legacy" THEN OldToken[u] ELSE NoToken]]
    /\ wants = [u \in Users |-> Channels]
    /\ dead = {}
    /\ note = [n \in Notes |-> Unused]
    /\ seen = [n \in Notes |-> <<>>]
    /\ jobs = {}
    /\ docs = [n \in Notes |-> [u \in Users |-> 0]]
    /\ unread = [n \in Notes |-> [u \in Users |-> 0]]
    /\ served = [n \in Notes |-> {}]
    /\ got = [n \in Notes |-> [a \in Address |-> 0]]
    /\ retries = [n \in Notes |-> 0]
    /\ wanted = [n \in Notes |-> {}]
    /\ overtaken = {} /\ raced = {}
    /\ events = 0 /\ crashes = 0

-----------------------------------------------------------------------------
(* Users: tokens, settings, deletion.                                       *)

Knows(n, i, u) == \E r \in seen[n][i] : r.user = u

\* The dispatches that have read users and have not done with them: those that
\* add jobs and those whose jobs are in a queue.
Open(n, i) ==
    \/ note[n].at = "adding" /\ i = Len(seen[n])
    \/ \E j \in jobs : j.note = n /\ j.round = i /\ j.at # "failed"

OpenReads == {p \in UNION {{n} \X DOMAIN seen[n] : n \in Notes} : Open(p[1], p[2])}

RegisterPushToken(u, d, t) ==
    /\ Change /\ u \in here /\ t \notin dead /\ token[u][d] # t
    /\ \A v \in Users, e \in Devices \cup {"legacy"} : token[v][e] = t => v = u
    /\ token' = [token EXCEPT ![u][d] = t]
    /\ raced' = IF \E p \in OpenReads : \E r \in seen[p[1]][p[2]] :
                      r.user = u /\ r.token[d] # t
                THEN raced \cup {<<u, d, t>>} ELSE raced \ {<<u, d, t>>}
    /\ UNCHANGED <<here, cleaning, wants, dead, wanted, overtaken, queueVars, inboxVars>>

\* The application is removed from the device, or the token replaced.
TokenDies(t) ==
    /\ Change /\ t \notin dead
    /\ dead' = dead \cup {t}
    /\ UNCHANGED <<here, cleaning, token, wants, wanted, overtaken, raced, queueVars, inboxVars>>

UpdateSettings(u, w) ==
    /\ Change /\ u \in here /\ w # wants[u]
    /\ wants' = [wants EXCEPT ![u] = w]
    /\ wanted' = [n \in Notes |-> IF note[n].at = "unused" THEN wanted[n]
                                  ELSE wanted[n] \cup ({u} \X w)]
    /\ UNCHANGED <<here, cleaning, token, dead, overtaken, raced, queueVars, inboxVars>>

\* A plausible mistake: only what has been read is cleaned up.
CleanupRead(u) ==
    /\ Change /\ u \in here \ cleaning
    /\ cleaning' = cleaning \cup {u}
    /\ docs' = [n \in Notes |-> [docs[n] EXCEPT ![u] = unread[n][u]]]
    /\ overtaken' = IF \E p \in OpenReads : Knows(p[1], p[2], u)
                    THEN overtaken \cup {u} ELSE overtaken
    /\ UNCHANGED <<here, token, wants, dead, wanted, raced, queueVars, unread, got>>

\* Part of the Mongo transaction of the deletion job, which commits in
\* RemoveUser; one that fails has no effect and is not followed.
CleanupUser(u) ==
    /\ Change /\ u \in here \ cleaning
    /\ cleaning' = cleaning \cup {u}
    /\ docs' = [n \in Notes |-> [docs[n] EXCEPT ![u] = 0]]
    /\ unread' = [n \in Notes |-> [unread[n] EXCEPT ![u] = 0]]
    /\ overtaken' = IF \E p \in OpenReads : Knows(p[1], p[2], u)
                    THEN overtaken \cup {u} ELSE overtaken
    /\ UNCHANGED <<here, token, wants, dead, wanted, raced, queueVars, got>>

RemoveUser(u) ==
    /\ u \in cleaning
    /\ here' = here \ {u} /\ cleaning' = cleaning \ {u}
    /\ UNCHANGED <<token, wants, dead, wanted, overtaken, raced, queueVars, inboxVars, bounds>>

-----------------------------------------------------------------------------
(* Requests.                                                                *)

Create(n, req) ==
    /\ note[n].at = "unused"
    /\ note' = [note EXCEPT ![n] = req]
    /\ wanted' = [wanted EXCEPT ![n] = {p \in Users \X Channels : p[2] \in wants[p[1]]}]
    /\ UNCHANGED <<here, cleaning, token, wants, dead, overtaken, raced, seen, jobs, served,
                   retries, inboxVars, bounds>>

\* POST /notifications/send: the job is in the queue.  Without channels it is
\* for the in-app channel.
Send(n, a) ==
    Create(n, [Unused EXCEPT !.at = "waiting", !.queued = TRUE, !.to = a.to,
                   !.chans = a.chans, !.system = a.system])

SendFollowNotification(n, f, u) ==
    /\ f # u
    /\ Create(n, [Unused EXCEPT !.at = "looking", !.needs = {f, u}, !.to = {u},
                      !.chans = FollowChannels])

SendUnfollowNotification(n, f, u) ==
    /\ f # u
    /\ Create(n, [Unused EXCEPT !.at = "looking", !.needs = {f, u}, !.to = {u},
                      !.chans = {"in-app"}])

\* Whether the user is found makes no difference but for the greeting.
SendTransactionNotification(n, u) ==
    Create(n, [Unused EXCEPT !.at = "resolving", !.to = {u}, !.chans = TransactionChannels])

\* Nobody is notified of a follow if either side is gone.
LookUp(n) ==
    /\ note[n].at = "looking"
    /\ note' = [note EXCEPT ![n].needs = {},
         ![n].at = IF note[n].needs \subseteq here THEN "resolving" ELSE "dropped"]
    /\ UNCHANGED <<userVars, seen, jobs, served, retries, inboxVars, bounds>>

\* Three senders go past the queues to their channel, and one to the team.
SendVerificationEmail(n, u) ==
    Create(n, [Unused EXCEPT !.at = "sending", !.to = {u}, !.chans = {"email"}, !.system = TRUE])

SendSms(n, u) ==
    Create(n, [Unused EXCEPT !.at = "sending", !.to = {u}, !.chans = {"sms"}, !.system = TRUE])

\* Called by end points for trial only, for nobody among the users.
SendWhatsapp(n) == Create(n, [Unused EXCEPT !.at = "sending", !.chans = {"whatsapp"}])

SendSlack(n) == Create(n, [Unused EXCEPT !.at = "sending", !.chans = {"slack"}])

\* The one delivery of these four, which may fail without a word to the caller.
SendNow(n) ==
    /\ note[n].at = "sending"
    /\ note' = [note EXCEPT ![n].at = "done"]
    /\ \E ok \in BOOLEAN, a \in note[n].chans \X (IF note[n].to = {} THEN {Team} ELSE note[n].to) :
         got' = IF ok THEN [got EXCEPT ![n][a] = @ + 1] ELSE got
    /\ UNCHANGED <<userVars, seen, jobs, served, retries, docs, unread, bounds>>

-----------------------------------------------------------------------------
(* The dispatch of a request.                                               *)

\* One worker takes the jobs of the main queue.
TakeNote(n) ==
    /\ note[n].at = "waiting"
    /\ \A m \in Notes : ~(note[m].queued /\ note[m].at \in Dispatching)
    /\ note' = [note EXCEPT ![n].at = "resolving"]
    /\ UNCHANGED <<userVars, seen, jobs, served, retries, inboxVars, bounds>>

\* The user as the dispatch reads it, and what is left of it if the read fails.
Read(u) == [user |-> u, known |-> TRUE, wants |-> wants[u], token |-> token[u]]
IdOnly(u) == [user |-> u, known |-> FALSE, wants |-> Channels,
              token |-> [k \in Devices \cup {"legacy"} |-> NoToken]]

Resolved(n, recipients) ==
    /\ note[n].at = "resolving"
    /\ note' = [note EXCEPT ![n].at = "adding"]
    /\ seen' = [seen EXCEPT ![n] = Append(@, recipients)]

Resolve(n) ==
    /\ Resolved(n, {Read(u) : u \in note[n].to \cap here})
    /\ overtaken' = overtaken \cup (note[n].to \cap cleaning)
    /\ UNCHANGED <<here, cleaning, token, wants, dead, wanted, raced, jobs, served, retries,
                   inboxVars, bounds>>

\* An error of the database is logged, and the dispatch goes on with the ids.
ResolveFails(n) ==
    /\ Fault
    /\ Resolved(n, {IdOnly(u) : u \in note[n].to})
    /\ overtaken' = overtaken \cup {u \in note[n].to : u \in cleaning \/ u \notin here}
    /\ UNCHANGED <<here, cleaning, token, wants, dead, wanted, raced, jobs, served, retries,
                   inboxVars>>

\* A job for each of some channels.
Added(n, chans) ==
    /\ note[n].at = "adding"
    /\ jobs' = jobs \cup {[note |-> n, round |-> Len(seen[n]), chan |-> c, at |-> "waiting",
                           left |-> {}, tries |-> 0, stalls |-> 0] : c \in chans}
    /\ note' = [note EXCEPT ![n].at = "ending", ![n].refused = chans # note[n].chans]
    /\ UNCHANGED <<userVars, seen, served, retries, inboxVars>>

\* The jobs are sent to all queues at once, and their answers awaited together.
AddJobs(n) == Added(n, note[n].chans) /\ UNCHANGED bounds

\* A plausible mistake: nobody waits for the answers of the queues.
AddUnawaited(n) ==
    /\ Fault /\ note[n].at = "adding"
    /\ \E some \in SUBSET note[n].chans :
         jobs' = jobs \cup {[note |-> n, round |-> Len(seen[n]), chan |-> c, at |-> "waiting",
                           left |-> {}, tries |-> 0, stalls |-> 0] : c \in some}
    /\ note' = [note EXCEPT ![n].at = "ending", ![n].refused = FALSE]
    /\ UNCHANGED <<userVars, seen, served, retries, inboxVars>>

\* Some of the queues refuse.
AddFails(n) ==
    /\ Fault
    /\ \E some \in SUBSET note[n].chans : some # note[n].chans /\ Added(n, some)

\* If one queue refused, a queued request is dispatched again, to all channels.
EndDispatch(n) ==
    /\ note[n].at = "ending"
    /\ IF ~note[n].refused
       THEN note' = [note EXCEPT ![n].at = "done"] /\ UNCHANGED retries
       ELSE IF ~note[n].queued
       THEN note' = [note EXCEPT ![n].at = "dropped"] /\ UNCHANGED retries
       ELSE /\ note' = [note EXCEPT ![n].tries = @ + 1,
                 ![n].at = IF note[n].tries + 1 < Attempts THEN "waiting" ELSE "failed"]
            /\ retries' = [retries EXCEPT ![n] = @ + 1]
    /\ UNCHANGED <<userVars, seen, jobs, served, inboxVars, bounds>>

-----------------------------------------------------------------------------
(* The channels.                                                            *)

Recipients(j) == seen[j.note][j.round]
Anyway(j) == note[j.note].system    \* type SYSTEM overrides what users want

\* A plausible mistake: the settings of the users are not looked at.
EmailTargetsAll(j) == {<<"email", r.user>> : r \in {x \in Recipients(j) : x.known}}

EmailTargets(j) ==
    {<<"email", r.user>> : r \in {x \in Recipients(j) :
        x.known /\ (Anyway(j) \/ "email" \in x.wants)}}

SmsTargets(j) ==
    {<<"sms", r.user>> : r \in {x \in Recipients(j) :
        x.known /\ x.user \in Phones /\ (Anyway(j) \/ "sms" \in x.wants)}}

WhatsappTargets(j) ==
    {<<"whatsapp", r.user>> : r \in {x \in Recipients(j) :
        x.known /\ x.user \in Phones /\ (Anyway(j) \/ "whatsapp" \in x.wants)}}

\* One message for all, if one of them wants it.
SlackTargets(j) ==
    IF \E r \in Recipients(j) : Anyway(j) \/ "slack" \in r.wants THEN {<<"slack", Team>>} ELSE {}

\* The old pushToken stands in for a mobile token when there is no other.
PushToken(r, d) ==
    IF d = "mobile" /\ r.token["mobile"] = NoToken /\ r.token["web"] = NoToken
    THEN r.token["legacy"] ELSE r.token[d]

PushTargets(j) ==
    {<<p[1], p[2].user>> : p \in {q \in Devices \X Recipients(j) :
        PushToken(q[2], q[1]) # NoToken /\ (Anyway(j) \/ "push" \in q[2].wants)}}

Targets(j) ==
    CASE j.chan = "email" -> EmailTargets(j)
      [] j.chan = "sms" -> SmsTargets(j)
      [] j.chan = "whatsapp" -> WhatsappTargets(j)
      [] j.chan = "slack" -> SlackTargets(j)
      [] j.chan = "push" -> PushTargets(j)
      [] j.chan = "in-app" -> {}

Becomes(j, k) == jobs' = (jobs \ {j}) \cup {k}

Completes(j) ==
    /\ jobs' = jobs \ {j}
    /\ served' = [served EXCEPT ![j.note] = @ \cup {j.chan}]

\* Thrown to the queue, which starts the job again up to three times.
Retried(j) ==
    /\ Becomes(j, [j EXCEPT !.tries = @ + 1, !.left = {},
                       !.at = IF j.tries + 1 < Attempts THEN "waiting" ELSE "failed"])
    /\ retries' = [retries EXCEPT ![j.note] = @ + 1]

Taken(j) == j.at = "waiting" /\ \A k \in jobs : k.chan = j.chan => k.at \notin Working

\* The worker of a channel takes a job and asks the control center for the provider.
TakeJob(j) ==
    /\ Taken(j)
    /\ Becomes(j, [j EXCEPT !.at = IF j.chan = "in-app" THEN "storing" ELSE "sending",
                            !.left = Targets(j)])
    /\ UNCHANGED <<userVars, note, seen, served, retries, inboxVars, bounds>>

Stored(n, some) ==
    LET more(f) == [f EXCEPT ![n] = [u \in Users |-> IF u \in some THEN @[u] + 1 ELSE @[u]]] IN
    docs' = more(docs) /\ unread' = more(unread)

Told(j) == {r.user : r \in Recipients(j)}

\* bulkWrite has inserted a document for each user; the sockets were told before.
StoreAll(j) ==
    /\ j.at = "storing"
    /\ Stored(j.note, Told(j))
    /\ Completes(j)
    /\ UNCHANGED <<userVars, note, seen, retries, got, bounds>>

\* bulkWrite fails, and some of the documents, or all, are there nevertheless.
StoreFails(j) ==
    /\ Fault
    /\ j.at = "storing"
    /\ \E some \in SUBSET Told(j) : Stored(j.note, some)
    /\ Retried(j)
    /\ UNCHANGED <<userVars, note, seen, served, got>>

\* The control center has to read the database, and cannot.
ProviderFails(j) ==
    /\ Fault
    /\ Taken(j) /\ j.chan # "in-app"
    /\ Retried(j)
    /\ UNCHANGED <<userVars, note, seen, served, inboxVars>>

\* The token that the job knows for an address of the push channel.
TokenFor(j, a) == PushToken(CHOOSE r \in Recipients(j) : r.user = a[2], a[1])

DeliverOne(j, a) ==
    /\ j.at = "sending"
    /\ j.chan = "push" => TokenFor(j, a) \notin dead
    /\ got' = [got EXCEPT ![j.note][a] = @ + 1]
    /\ Becomes(j, [j EXCEPT !.left = @ \ {a}])
    /\ UNCHANGED <<userVars, note, seen, served, retries, docs, unread, bounds>>

\* A plausible mistake: an error starts the loop over the recipients again.
DeliveryStartsOver(j, a) ==
    /\ j.at = "sending"
    /\ Becomes(j, [j EXCEPT !.left = Targets(j)])
    /\ UNCHANGED <<userVars, note, seen, served, retries, inboxVars, bounds>>

\* The provider does not answer well; the channel logs it and goes on.
DeliveryFails(j, a) ==
    /\ j.at = "sending"
    /\ Becomes(j, [j EXCEPT !.left = @ \ {a}])
    /\ UNCHANGED <<userVars, note, seen, served, retries, inboxVars, bounds>>

\* A plausible mistake: any error of the push service counts as an invalid token.
RemovePushTokenOnError(j, a) ==
    /\ j.at = "sending" /\ j.chan = "push" /\ a[2] \in here
    /\ token' = [token EXCEPT ![a[2]][a[1]] = NoToken]
    /\ Becomes(j, [j EXCEPT !.left = @ \ {a}])
    /\ UNCHANGED <<here, cleaning, wants, dead, wanted, overtaken, raced, note, seen, served,
                   retries, inboxVars, bounds>>

\* The push service refuses the token for good: whatever token the user has by
\* now on that device is removed, the old pushToken never.
RemovePushToken(j, a) ==
    /\ j.at = "sending" /\ j.chan = "push" /\ a[2] \in here
    /\ TokenFor(j, a) \in dead
    /\ token' = [token EXCEPT ![a[2]][a[1]] = NoToken]
    /\ Becomes(j, [j EXCEPT !.left = @ \ {a}])
    /\ UNCHANGED <<here, cleaning, wants, dead, wanted, overtaken, raced, note, seen, served,
                   retries, inboxVars, bounds>>

FinishJob(j) ==
    /\ j.at = "sending" /\ j.left = {}
    /\ Completes(j)
    /\ UNCHANGED <<userVars, note, seen, retries, inboxVars, bounds>>

-----------------------------------------------------------------------------
(* Reading.                                                                 *)

MarkAsRead(n, u) ==
    /\ unread[n][u] > 0
    /\ unread' = [unread EXCEPT ![n][u] = @ - 1]
    /\ UNCHANGED <<userVars, queueVars, docs, got, bounds>>

MarkAllAsRead(u) ==
    /\ \E n \in Notes : unread[n][u] > 0
    /\ unread' = [n \in Notes |-> [unread[n] EXCEPT ![u] = 0]]
    /\ UNCHANGED <<userVars, queueVars, docs, got, bounds>>

-----------------------------------------------------------------------------
(* The process restarts: a dispatch by a caller is lost, queues put back the *)
(* jobs that were being run unless they stalled before.  A transaction that  *)
(* is cut off has no effect, so it is one that has not begun.                *)

AfterStall(stalls) == IF stalls < StallsAllowed THEN "waiting" ELSE "failed"

Restarted(m) ==
    IF m.queued /\ m.at \in Dispatching
    THEN [m EXCEPT !.at = AfterStall(m.stalls), !.stalls = @ + 1]
    ELSE IF m.at \in {"looking", "sending"} \cup Dispatching
    THEN [m EXCEPT !.at = "dropped"] ELSE m

Stalled(j) == [j EXCEPT !.at = AfterStall(j.stalls), !.stalls = @ + 1, !.left = {}]

Crash ==
    /\ cleaning = {}
    /\ Event /\ crashes < MaxCrashes /\ crashes' = crashes + 1
    /\ note' = [n \in Notes |-> Restarted(note[n])]
    /\ jobs' = {IF j.at \in Working THEN Stalled(j) ELSE j : j \in jobs}
    /\ retries' = [n \in Notes |-> retries[n]
           + (IF note[n].queued /\ note[n].at \in Dispatching THEN 1 ELSE 0)
           + Cardinality({j \in jobs : j.note = n /\ j.at \in Working})]
    /\ UNCHANGED <<userVars, seen, served, inboxVars>>

Requests(n) ==
    \/ \E a \in Asked : Send(n, a)
    \/ \E f \in Users, u \in Movers :
           SendFollowNotification(n, f, u) \/ SendUnfollowNotification(n, f, u)
    \/ \E u \in Movers : \/ SendTransactionNotification(n, u)
                         \/ SendVerificationEmail(n, u) \/ SendSms(n, u)
    \/ SendWhatsapp(n) \/ SendSlack(n)

Dispatch(n) == LookUp(n) \/ Resolve(n) \/ AddJobs(n) \/ EndDispatch(n)

Dispatcher == \E n \in Notes : TakeNote(n) \/ (note[n].queued /\ Dispatch(n))

Worker(c) ==
    \E j \in jobs :
        /\ j.chan = c
        /\ \/ TakeJob(j) \/ StoreAll(j) \/ FinishJob(j)
           \/ \E a \in j.left : DeliverOne(j, a) \/ DeliveryFails(j, a) \/ RemovePushToken(j, a)

Fails ==
    \/ \E n \in Notes : ResolveFails(n) \/ AddFails(n)
    \/ \E j \in jobs : StoreFails(j) \/ ProviderFails(j)

People ==
    \/ \E u \in Movers, d \in Devices, t \in Tokens : RegisterPushToken(u, d, t)
    \/ \E t \in Tokens : TokenDies(t)
    \/ \E u \in Movers : \/ \E w \in Wishes : UpdateSettings(u, w)
                         \/ CleanupUser(u) \/ RemoveUser(u) \/ MarkAllAsRead(u)
    \/ \E n \in Notes, u \in Movers : MarkAsRead(n, u)

Next ==
    \/ \E n \in Notes : Requests(n) \/ SendNow(n) \/ TakeNote(n) \/ Dispatch(n)
    \/ \E c \in Channels : Worker(c)
    \/ Fails \/ People \/ Crash

Spec == Init /\ [][Next]_vars

\* The workers of the queues go on; callers that dispatch and people need not.
FairSpec == Spec /\ WF_vars(Dispatcher) /\ \A c \in Channels : WF_vars(Worker(c))

-----------------------------------------------------------------------------
\* Requests, jobs and documents keep their shapes, and what is unread is stored.
TypeOK ==
    /\ here \subseteq Users /\ cleaning \subseteq here
    /\ token \in [Users -> TokensOf]
    /\ wants \in [Users -> SUBSET Channels]
    /\ dead \subseteq Tokens
    /\ note \in [Notes -> Note]
    /\ seen \in [Notes -> Seq(SUBSET Recipient)]
    /\ jobs \subseteq Job
    /\ docs \in [Notes -> [Users -> Nat]]
    /\ unread \in [Notes -> [Users -> Nat]]
    /\ \A n \in Notes, u \in Users : unread[n][u] <= docs[n][u]
    /\ served \in [Notes -> SUBSET Channels]
    /\ got \in [Notes -> [Address -> Nat]]
    /\ retries \in [Notes -> Nat]
    /\ wanted \in [Notes -> SUBSET (Users \X Channels)]
    /\ overtaken \subseteq Users
    /\ raced \subseteq Users \X Devices \X Tokens
    /\ events \in 0..MaxEvents /\ crashes \in 0..MaxCrashes

\* Nobody is told twice but for a retry: a request is stored for a user, or sent
\* to an address, at most once more than it or a job of it was put back.
RepeatsAreRetries ==
    \A n \in Notes :
        /\ \A u \in Users : docs[n][u] <= 1 + retries[n]
        /\ \A a \in Address : got[n][a] <= 1 + retries[n]

\* Documents do not outlive their user, but for a dispatch that knew the user when
\* the deletion cleaned up, or that could not look whether the user was there.
DocumentsHaveOwners ==
    \A n \in Notes, u \in Users : docs[n][u] > 0 => u \in here \cup overtaken

Channel(way) == IF way \in Devices THEN "push" ELSE way

\* Who has switched a channel off since before the request is spared by it, unless
\* the request is of type SYSTEM.
OptedOutAreSpared ==
    \A n \in Notes, a \in Address :
        got[n][a] > 0 /\ a[2] \in Users /\ ~note[n].system
            => <<a[2], Channel(a[1])>> \in wanted[n]

\* A token that works is only removed if it was registered while a dispatch still
\* knew another one for the device.
OnlyRacesLoseTokens ==
    [][\A u \in Users, d \in Devices :
          /\ token[u][d] \notin dead \cup {NoToken}
          /\ token'[u][d] = NoToken
          => <<u, d, token[u][d]>> \in raced]_vars

\* A request in the queue is served on each of its channels in spite of errors
\* and a restart, as long as they are fewer than the attempts.
QueuedAreServed ==
    \A n \in Notes : note[n].at = "waiting" ~> served[n] = note[n].chans
=============================================================================
