---------------------------- MODULE ControlCenter ----------------------------
(***************************************************************************)
(* The providers of one domain: which are enabled, and which is the        *)
(* default of its scope (email, sms, ...; a domain without channels is one *)
(* scope).  Requests change a copy in memory and queue what they changed;  *)
(* a worker brings the stored document up to date, one job at a time.      *)
(* A restart lists the providers of the environment and loads the copy     *)
(* from the document while the worker already runs.                        *)
(***************************************************************************)
EXTENDS Integers, Sequences

CONSTANTS Providers,
          Scope,       \* what the key of a provider begins with
          MaxChanges,  \* bound on the requests accepted
          MaxFailures, \* bound on failed jobs and failed calls of the queue
          MaxCrashes   \* bound on crashes of the process

ASSUME ControlCenterAssumption ==
    /\ MaxChanges \in Nat /\ MaxFailures \in Nat /\ MaxCrashes \in Nat

VARIABLES doc,      \* the stored document, providerStates
          cache,    \* the copy in memory that requests read and change
          boot,     \* how far onModuleInit is, with the document it works on
          pending,  \* keys whose request waits for controlCenterQueue.add
          queue,    \* update_state jobs in redis
          active,   \* the worker's job with the document it has read
          stalled,  \* the job of a worker that died, until it is found
          changes, failures, crashes

vars == <<doc, cache, boot, pending, queue, active, stalled,
          changes, failures, crashes>>

Absent == [listed |-> FALSE, enabled |-> FALSE, isDefault |-> FALSE]
ProviderState == [listed: BOOLEAN, enabled: BOOLEAN, isDefault: BOOLEAN]
Nothing == [p \in Providers |-> Absent]
States == [Providers -> ProviderState]
Job == [key: Providers, state: ProviderState, again: BOOLEAN]

Idle == [at |-> "idle"]
Up == boot.at = "up"
Defaults(states, s) == {p \in Providers : Scope[p] = s /\ states[p].isDefault}

\* save() sends the paths that changed since the document was read.
Saved(read, written) ==
    [p \in Providers |-> IF written[p] # read[p] THEN written[p] ELSE doc[p]]

Init ==
    /\ doc = Nothing
    /\ cache = Nothing
    /\ boot = [at |-> "starting"]
    /\ pending = <<>> /\ queue = <<>>
    /\ active = Idle /\ stalled = {}
    /\ changes = 0 /\ failures = 0 /\ crashes = 0

\* What bootstrapDefaults makes of a document: new providers are listed and
\* enabled, and a scope of the environment without a default gets its first.
Synced(states, listed, first) ==
    [p \in Providers |->
        [listed    |-> states[p].listed \/ p \in listed,
         enabled   |-> states[p].enabled \/ (p \in listed /\ ~states[p].listed),
         isDefault |-> \/ states[p].isDefault
                       \/ p \in first /\ Defaults(states, Scope[p]) = {}]]

\* The first provider of each scope the environment names.
FirstOf(listed) ==
    {first \in SUBSET listed :
        /\ \A p \in listed : \E q \in first : Scope[q] = Scope[p]
        /\ \A p, q \in first : Scope[p] = Scope[q] => p = q}

BootRead ==
    /\ boot.at = "starting"
    /\ \E listed \in SUBSET Providers : \E first \in FirstOf(listed) :
         boot' = [at |-> "saving", read |-> doc,
                  written |-> Synced(doc, listed, first)]
    /\ UNCHANGED <<doc, cache, pending, queue, active, stalled, changes, failures, crashes>>

BootSave ==
    /\ boot.at = "saving"
    /\ doc' = Saved(boot.read, boot.written)
    /\ boot' = [at |-> "loading"]
    /\ UNCHANGED <<cache, pending, queue, active, stalled, changes, failures, crashes>>

LoadCache ==
    /\ boot.at = "loading"
    /\ cache' = doc
    /\ boot' = [at |-> "up"]
    /\ UNCHANGED <<doc, pending, queue, active, stalled, changes, failures, crashes>>

\* The state in the job is the object in the copy: it is not written down until
\* the queue is reached, in the order the requests came.
Change(p, states) ==
    /\ Up /\ cache[p].listed
    /\ changes < MaxChanges
    /\ changes' = changes + 1
    /\ cache' = states
    /\ pending' = Append(pending, p)
    /\ UNCHANGED <<doc, boot, queue, active, stalled, failures, crashes>>

ToggleProvider(p, enabled) == Change(p, [cache EXCEPT ![p].enabled = enabled])

\* A plausible mistake: the provider that was the default keeps the mark.
MadeDefaultToo(states, p) == [states EXCEPT ![p].isDefault = TRUE]

\* isDefault of the provider alone, in its scope.
MadeDefault(states, p) ==
    [q \in Providers |->
        IF Scope[q] = Scope[p] THEN [states[q] EXCEPT !.isDefault = (q = p)]
        ELSE states[q]]

SetDefaultProvider(p) == Change(p, MadeDefault(cache, p))

AddJob ==
    /\ pending # <<>>
    /\ queue' = Append(queue,
         [key |-> Head(pending), state |-> cache[Head(pending)], again |-> FALSE])
    /\ pending' = Tail(pending)
    /\ UNCHANGED <<doc, cache, boot, active, stalled, changes, failures, crashes>>

\* The request ends in an error; the copy keeps the change.
AddFails ==
    /\ pending # <<>> /\ failures < MaxFailures
    /\ failures' = failures + 1
    /\ pending' = Tail(pending)
    /\ UNCHANGED <<doc, cache, boot, queue, active, stalled, changes, crashes>>

\* process: a job is taken and the document is read.
ProcessRead ==
    /\ active = Idle /\ queue # <<>>
    /\ active' = [at |-> "saving", job |-> Head(queue), read |-> doc]
    /\ queue' = Tail(queue)
    /\ UNCHANGED <<doc, cache, boot, pending, stalled, changes, failures, crashes>>

\* A plausible mistake: a new default does not take the mark from the others.
AppliedAlone(states, job) == [states EXCEPT ![job.key] = job.state]

Applied(states, job) ==
    LET unset == IF job.state.isDefault THEN MadeDefault(states, job.key) ELSE states
    IN  [unset EXCEPT ![job.key] = job.state]

ProcessSave ==
    /\ active # Idle
    /\ doc' = Saved(active.read, Applied(active.read, active.job))
    /\ active' = Idle
    /\ UNCHANGED <<cache, boot, pending, queue, stalled, changes, failures, crashes>>

\* The job is added without a number of attempts: there is one.
ProcessFails ==
    /\ active # Idle /\ failures < MaxFailures
    /\ failures' = failures + 1
    /\ active' = Idle
    /\ UNCHANGED <<doc, cache, boot, pending, queue, stalled, changes, crashes>>

\* The copy is gone, and so are the requests that have not reached the queue.
Crash ==
    /\ crashes < MaxCrashes
    /\ crashes' = crashes + 1
    /\ boot' = [at |-> "starting"]
    /\ pending' = <<>>
    /\ stalled' = IF active = Idle \/ active.job.again THEN stalled
                  ELSE stalled \cup {active.job}
    /\ active' = Idle
    /\ cache' = Nothing
    /\ UNCHANGED <<doc, queue, changes, failures>>

\* A job of a dead worker is put back in front, once.
StalledJob ==
    /\ \E job \in stalled :
         /\ stalled' = stalled \ {job}
         /\ queue' = <<[job EXCEPT !.again = TRUE]>> \o queue
    /\ UNCHANGED <<doc, cache, boot, pending, active, changes, failures, crashes>>

Next ==
    \/ BootRead \/ BootSave \/ LoadCache
    \/ \E p \in Providers : SetDefaultProvider(p)
    \/ \E p \in Providers, e \in BOOLEAN : ToggleProvider(p, e)
    \/ AddJob \/ AddFails
    \/ ProcessRead \/ ProcessSave \/ ProcessFails
    \/ StalledJob \/ Crash

Spec == Init /\ [][Next]_vars

-----------------------------------------------------------------------------
\* Document, copy and jobs keep their shapes.
TypeOK ==
    /\ doc \in States /\ cache \in States
    /\ \/ boot \in [at: {"starting", "loading", "up"}]
       \/ boot \in [at: {"saving"}, read: States, written: States]
    /\ pending \in Seq(Providers)
    /\ queue \in Seq(Job)
    /\ \/ active = Idle
       \/ active \in [at: {"saving"}, job: Job, read: States]
    /\ stalled \subseteq Job
    /\ changes \in 0..MaxChanges
    /\ failures \in 0..MaxFailures /\ crashes \in 0..MaxCrashes

\* No scope has two providers with the mark.
Single(states) ==
    \A p, q \in Providers :
        Scope[p] = Scope[q] /\ states[p].isDefault /\ states[q].isDefault => p = q

\* Until the first crash no scope ever has two defaults, neither in the copy
\* that getActiveProvider searches nor in the document, whatever jobs fail and
\* in whatever order requests and jobs come: it stops at the first it finds.
AtMostOneDefault ==
    crashes = 0 => Single(doc) /\ Single(cache)

\* What makes it so: before a crash only one of the start and the worker writes
\* the document, so what either has read is what the document still says.
Undisturbed ==
    crashes = 0 =>
        /\ ~Up => queue = <<>> /\ pending = <<>> /\ active = Idle
        /\ stalled = {}
        /\ boot.at = "saving" => boot.read = doc /\ Single(boot.written)
        /\ active # Idle => active.read = doc

\* When everything queued is done and nothing has failed or died, the document
\* says what the copy says, although a job carries one provider only, as it was
\* when the queue was reached and not when it was changed.
DocumentCatchesUp ==
    (/\ Up /\ failures = 0 /\ crashes = 0
     /\ pending = <<>> /\ queue = <<>> /\ active = Idle) => doc = cache

\* "Ensure exactly one default per channel": once the process is up.  TLC finds
\* that it is not so after a crash (README, last section on runs).
OneDefaultPerChannel ==
    Up => /\ Single(cache)
          /\ \A p \in Providers : cache[p].listed => Defaults(cache, Scope[p]) # {}
=============================================================================
