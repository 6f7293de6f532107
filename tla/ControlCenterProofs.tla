------------------------- MODULE ControlCenterProofs -------------------------
(***************************************************************************)
(* Theorems about ControlCenter, for any providers, channels and bounds.   *)
(***************************************************************************)
EXTENDS ControlCenter, SequenceTheorems, TLAPS

\* The helpers build states from states.
LEMMA SyncedType ==
    ASSUME NEW states \in States, NEW listed, NEW first
    PROVE  Synced(states, listed, first) \in States
  BY DEF Synced, States, ProviderState, Defaults

LEMMA SavedType ==
    ASSUME NEW read, NEW written \in States, doc \in States
    PROVE  Saved(read, written) \in States
  BY DEF Saved, States, ProviderState

LEMMA MadeDefaultType ==
    ASSUME NEW states \in States, NEW p
    PROVE  MadeDefault(states, p) \in States
  BY DEF MadeDefault, States, ProviderState

LEMMA AppliedType ==
    ASSUME NEW states \in States, NEW job \in Job
    PROVE  Applied(states, job) \in States
  <1>1. MadeDefault(states, job.key) \in States
    BY MadeDefaultType DEF Job
  <1>2. job.state \in ProviderState
    BY DEF Job
  <1> QED BY <1>1, <1>2 DEF Applied, States

\* Document, copy, jobs and counters keep their shapes in every step.
THEOREM ControlCenterTypeOK == Spec => []TypeOK
  <1>1. Init => TypeOK
    <2>1. Nothing \in States
      BY DEF Nothing, States, ProviderState, Absent
    <2>2. <<>> \in Seq(Providers) /\ <<>> \in Seq(Job)
      OBVIOUS
    <2> QED BY <2>1, <2>2, ControlCenterAssumption DEF Init, TypeOK, Idle
  <1>2. TypeOK /\ [Next]_vars => TypeOK'
    <2> SUFFICES ASSUME TypeOK, [Next]_vars PROVE TypeOK'
      OBVIOUS
    <2> USE ControlCenterAssumption
    <2>1. CASE BootRead
      <3>1. PICK listed \in SUBSET Providers, first \in SUBSET Providers :
              boot' = [at |-> "saving", read |-> doc,
                       written |-> Synced(doc, listed, first)]
        BY <2>1 DEF BootRead, FirstOf
      <3>2. Synced(doc, listed, first) \in States
        BY SyncedType DEF TypeOK
      <3> QED BY <2>1, <3>1, <3>2 DEF BootRead, TypeOK
    <2>2. CASE BootSave
      <3>1. boot.written \in States
        BY <2>2 DEF BootSave, TypeOK
      <3>2. doc' \in States
        BY <2>2, <3>1, SavedType DEF BootSave, TypeOK
      <3> QED BY <2>2, <3>2 DEF BootSave, TypeOK
    <2>3. CASE LoadCache
      BY <2>3 DEF LoadCache, TypeOK
    <2>4. ASSUME NEW p \in Providers, NEW states \in States, Change(p, states)
          PROVE  TypeOK'
      <3>1. pending' \in Seq(Providers)
        BY <2>4 DEF Change, TypeOK
      <3>2. changes' \in 0..MaxChanges
        BY <2>4 DEF Change, TypeOK
      <3> QED BY <2>4, <3>1, <3>2 DEF Change, TypeOK
    <2>5. ASSUME NEW p \in Providers, SetDefaultProvider(p) PROVE TypeOK'
      BY <2>4, <2>5, MadeDefaultType DEF SetDefaultProvider, TypeOK
    <2>6. ASSUME NEW p \in Providers, NEW e \in BOOLEAN, ToggleProvider(p, e)
          PROVE  TypeOK'
      <3>1. [cache EXCEPT ![p].enabled = e] \in States
        BY DEF TypeOK, States, ProviderState
      <3> QED BY <2>4, <2>6, <3>1 DEF ToggleProvider
    <2>7. CASE AddJob
      <3> DEFINE job == [key |-> Head(pending), state |-> cache[Head(pending)],
                         again |-> FALSE]
      <3>1. Head(pending) \in Providers /\ Tail(pending) \in Seq(Providers)
        BY <2>7 DEF AddJob, TypeOK
      <3>2. job \in Job
        BY <3>1 DEF Job, TypeOK, States
      <3>3. queue' \in Seq(Job)
        BY <2>7, <3>2 DEF AddJob, TypeOK
      <3> QED BY <2>7, <3>1, <3>3 DEF AddJob, TypeOK
    <2>8. CASE AddFails
      <3>1. Tail(pending) \in Seq(Providers)
        BY <2>8 DEF AddFails, TypeOK
      <3> QED BY <2>8, <3>1 DEF AddFails, TypeOK
    <2>9. CASE ProcessRead
      <3>1. Head(queue) \in Job /\ Tail(queue) \in Seq(Job)
        BY <2>9 DEF ProcessRead, TypeOK
      <3> QED BY <2>9, <3>1 DEF ProcessRead, TypeOK
    <2>10. CASE ProcessSave
      <3>1. active.job \in Job /\ active.read \in States
        BY <2>10 DEF ProcessSave, TypeOK
      <3>2. doc' \in States
        BY <2>10, <3>1, AppliedType, SavedType DEF ProcessSave, TypeOK
      <3> QED BY <2>10, <3>2 DEF ProcessSave, TypeOK
    <2>11. CASE ProcessFails
      BY <2>11 DEF ProcessFails, TypeOK
    <2>12. CASE StalledJob
      <3>1. PICK job \in stalled : /\ stalled' = stalled \ {job}
                                   /\ queue' = <<[job EXCEPT !.again = TRUE]>> \o queue
        BY <2>12 DEF StalledJob
      <3>2. [job EXCEPT !.again = TRUE] \in Job
        BY <3>1 DEF TypeOK, Job
      <3>3. queue' \in Seq(Job)
        BY <3>1, <3>2 DEF TypeOK
      <3> QED BY <2>12, <3>1, <3>3 DEF StalledJob, TypeOK
    <2>13. CASE Crash
      <3>1. stalled' \subseteq Job
        BY <2>13 DEF Crash, TypeOK
      <3>2. Nothing \in States
        BY DEF Nothing, States, ProviderState, Absent
      <3>3. <<>> \in Seq(Providers)
        OBVIOUS
      <3> QED BY <2>13, <3>1, <3>2, <3>3 DEF Crash, TypeOK
    <2>14. CASE UNCHANGED vars
      BY <2>14 DEF vars, TypeOK
    <2> QED BY <2>1, <2>2, <2>3, <2>5, <2>6, <2>7, <2>8, <2>9, <2>10, <2>11,
               <2>12, <2>13, <2>14 DEF Next
  <1> QED BY <1>1, <1>2, PTL DEF Spec

\* Marks stay single in what the start makes of a document, in what a change
\* of default makes of the copy, and in what a job makes of the document.
LEMMA SyncedSingle ==
    ASSUME NEW states \in States, Single(states),
           NEW listed \in SUBSET Providers, NEW first \in FirstOf(listed)
    PROVE  Single(Synced(states, listed, first))
  <1> DEFINE new == Synced(states, listed, first)
  <1> SUFFICES ASSUME NEW p \in Providers, NEW q \in Providers, Scope[p] = Scope[q],
                      new[p].isDefault, new[q].isDefault
               PROVE  p = q
    BY DEF Single
  <1>1. \A r \in Providers : new[r].isDefault <=>
          (states[r].isDefault \/ (r \in first /\ Defaults(states, Scope[r]) = {}))
    BY DEF Synced, States, ProviderState
  <1>2. CASE Defaults(states, Scope[p]) = {}
    <2>1. p \in first /\ q \in first
      BY <1>1, <1>2 DEF Defaults
    <2> QED BY <2>1 DEF FirstOf
  <1>3. CASE Defaults(states, Scope[p]) # {}
    BY <1>1, <1>3 DEF Single
  <1> QED BY <1>2, <1>3

LEMMA MadeDefaultSingle ==
    ASSUME NEW states \in States, Single(states), NEW p \in Providers
    PROVE  Single(MadeDefault(states, p))
  BY DEF Single, MadeDefault, States, ProviderState

LEMMA AppliedSingle ==
    ASSUME NEW states \in States, Single(states), NEW job \in Job
    PROVE  Single(Applied(states, job))
  <1>1. job.key \in Providers /\ job.state \in ProviderState
    BY DEF Job
  <1>2. CASE job.state.isDefault
    <2> DEFINE unset == MadeDefault(states, job.key)
    <2>1. unset \in States /\ Single(unset)
      BY <1>1, MadeDefaultSingle, MadeDefaultType
    <2>2. unset[job.key].isDefault
      BY <1>1 DEF MadeDefault, States, ProviderState
    <2>3. Applied(states, job) = [unset EXCEPT ![job.key] = job.state]
      BY <1>2 DEF Applied
    <2> HIDE DEF unset
    <2> QED BY <1>1, <2>1, <2>2, <2>3 DEF Single, States
  <1>3. CASE ~job.state.isDefault
    <2>1. Applied(states, job) = [states EXCEPT ![job.key] = job.state]
      BY <1>3 DEF Applied
    <2> QED BY <1>1, <1>3, <2>1 DEF Single, States
  <1> QED BY <1>2, <1>3

LEMMA SavedIsWritten ==
    ASSUME doc \in States, NEW written \in States
    PROVE  Saved(doc, written) = written
  BY DEF Saved, States

\* Nobody works on an outdated document before the first crash: requests, and
\* with them jobs, come only when the start is over, and the worker does one
\* job at a time.
LEMMA UndisturbedAlways == Spec => [](AtMostOneDefault /\ Undisturbed)
  <1>1. Init => AtMostOneDefault /\ Undisturbed
    BY DEF Init, AtMostOneDefault, Undisturbed, Single, Nothing, Absent, Idle, Up
  <1>2. TypeOK /\ TypeOK' /\ AtMostOneDefault /\ Undisturbed /\ [Next]_vars
          => AtMostOneDefault' /\ Undisturbed'
    <2> SUFFICES ASSUME TypeOK, TypeOK', AtMostOneDefault, Undisturbed, [Next]_vars,
                        crashes' = 0
                 PROVE  AtMostOneDefault' /\ Undisturbed'
      BY DEF AtMostOneDefault, Undisturbed
    <2>0. crashes = 0 /\ ~Crash
      BY DEF Next, BootRead, BootSave, LoadCache, SetDefaultProvider, ToggleProvider,
             Change, AddJob, AddFails, ProcessRead, ProcessSave, ProcessFails,
             StalledJob, Crash, vars, TypeOK
    <2> DEFINE Now == /\ Single(doc) /\ Single(cache)
                      /\ ~Up => queue = <<>> /\ pending = <<>> /\ active = Idle
                      /\ stalled = {}
                      /\ boot.at = "saving" => boot.read = doc /\ Single(boot.written)
                      /\ active # Idle => active.read = doc
    <2>now. Now
      BY <2>0 DEF AtMostOneDefault, Undisturbed
    <2> SUFFICES Now'
      BY DEF AtMostOneDefault, Undisturbed
    <2>1. CASE BootRead
      <3>0. PICK listed \in SUBSET Providers : \E first \in FirstOf(listed) :
              boot' = [at |-> "saving", read |-> doc,
                       written |-> Synced(doc, listed, first)]
        BY <2>1 DEF BootRead
      <3>1. PICK first \in FirstOf(listed) :
              boot' = [at |-> "saving", read |-> doc,
                       written |-> Synced(doc, listed, first)]
        BY <3>0
      <3>2. Single(Synced(doc, listed, first))
        BY <3>1, <2>now, SyncedSingle DEF TypeOK
      <3> QED BY <2>1, <2>now, <3>1, <3>2 DEF BootRead, Up, Single
    <2>2. CASE BootSave
      <3>1. doc' = boot.written
        BY <2>2, <2>now, SavedIsWritten DEF BootSave, TypeOK
      <3> QED BY <2>2, <2>now, <3>1 DEF BootSave, Up, Single
    <2>3. CASE LoadCache
      BY <2>3, <2>now DEF LoadCache, Up, Single
    <2>4. ASSUME NEW p \in Providers, NEW states \in States, Single(states),
                 Change(p, states)
          PROVE  Now'
      BY <2>4, <2>now DEF Change, Up, Single
    <2>5. ASSUME NEW p \in Providers, SetDefaultProvider(p) PROVE Now'
      <3>1. MadeDefault(cache, p) \in States /\ Single(MadeDefault(cache, p))
        BY <2>now, MadeDefaultSingle, MadeDefaultType DEF TypeOK
      <3> QED BY <2>4, <2>5, <3>1 DEF SetDefaultProvider
    <2>6. ASSUME NEW p \in Providers, NEW e \in BOOLEAN, ToggleProvider(p, e)
          PROVE  Now'
      <3> DEFINE states == [cache EXCEPT ![p].enabled = e]
      <3>1. states \in States
        BY DEF TypeOK, States, ProviderState
      <3>0. \A r \in Providers : states[r].isDefault <=> cache[r].isDefault
        BY DEF TypeOK, States, ProviderState
      <3>3. Single(states)
        BY <2>now, <3>0 DEF Single
      <3>2. Change(p, states)
        BY <2>6 DEF ToggleProvider
      <3> HIDE DEF states
      <3> QED BY <2>4, <3>1, <3>2, <3>3
    <2>7. CASE AddJob
      BY <2>7, <2>now DEF AddJob, Up, Single
    <2>8. CASE AddFails
      BY <2>8, <2>now DEF AddFails, Up, Single
    <2>9. CASE ProcessRead
      BY <2>9, <2>now DEF ProcessRead, Up, Single
    <2>10. CASE ProcessSave
      <3>1. active.job \in Job /\ active.read = doc /\ boot.at # "saving"
        BY <2>10, <2>now DEF ProcessSave, TypeOK, Up
      <3>2. doc' = Applied(doc, active.job) /\ Single(doc')
        BY <2>10, <2>now, <3>1, AppliedType, AppliedSingle, SavedIsWritten
        DEF ProcessSave, TypeOK
      <3> QED BY <2>10, <2>now, <3>1, <3>2 DEF ProcessSave, Up, Single
    <2>11. CASE ProcessFails
      BY <2>11, <2>now DEF ProcessFails, Up, Single
    <2>12. CASE StalledJob
      BY <2>12, <2>now DEF StalledJob
    <2>13. CASE UNCHANGED vars
      BY <2>13, <2>now DEF vars, Up, Single
    <2> QED BY <2>0, <2>1, <2>2, <2>3, <2>5, <2>6, <2>7, <2>8, <2>9, <2>10, <2>11,
               <2>12, <2>13 DEF Next
  <1> QED BY <1>1, <1>2, ControlCenterTypeOK, PTL DEF Spec

\* No scope has two defaults before the first crash, whatever jobs fail and in
\* whatever order requests and jobs come.
THEOREM ControlCenterAtMostOneDefault == Spec => []AtMostOneDefault
  BY UndisturbedAlways, PTL

-----------------------------------------------------------------------------
\* The jobs that have reached the queue and are not done, in their order.
Pipe == IF active = Idle THEN queue ELSE <<active.job>> \o queue

Pending(p) == \E k \in DOMAIN pending : pending[k] = p

\* A job that leaves d the default of its scope, one that leaves the switch of
\* p as it is to be.
KeepsMark(job, d) ==
    Scope[job.key] = Scope[d] => (job.state.isDefault <=> job.key = d)
KeepsSwitch(job, p, on) == job.key = p => job.state.enabled = on

\* What the copy says of p is still to be queued, or a job will write it, or
\* the document says it, and no later job takes it back.
MarkComes(d) ==
    \/ Pending(d)
    \/ \E i \in DOMAIN Pipe :
         /\ Pipe[i].key = d
         /\ \A j \in DOMAIN Pipe : j >= i => KeepsMark(Pipe[j], d)
    \/ /\ doc[d].isDefault
       /\ \A j \in DOMAIN Pipe : KeepsMark(Pipe[j], d)

SwitchComes(p) ==
    \/ Pending(p)
    \/ \E i \in DOMAIN Pipe :
         /\ Pipe[i].key = p
         /\ \A j \in DOMAIN Pipe : j >= i => KeepsSwitch(Pipe[j], p, cache[p].enabled)
    \/ /\ doc[p].enabled = cache[p].enabled
       /\ \A j \in DOMAIN Pipe : KeepsSwitch(Pipe[j], p, cache[p].enabled)

\* A scope without a default has none in the document and gets none.
NoMark(p) ==
    /\ ~doc[p].isDefault
    /\ \A j \in DOMAIN Pipe : Pipe[j].key = p => ~Pipe[j].state.isDefault

SameListed(p) ==
    /\ doc[p].listed = cache[p].listed
    /\ \A j \in DOMAIN Pipe :
         Pipe[j].key = p => Pipe[j].state.listed = cache[p].listed

Catching ==
    \A p \in Providers :
        /\ SameListed(p)
        /\ SwitchComes(p)
        /\ cache[p].isDefault => MarkComes(p)
        /\ Defaults(cache, Scope[p]) = {} => NoMark(p)

CatchInv == Up /\ failures = 0 /\ crashes = 0 => Catching

LEMMA PipeType ==
    ASSUME TypeOK
    PROVE  Pipe \in Seq(Job) /\ Len(Pipe) \in Nat /\ DOMAIN Pipe = 1..Len(Pipe)
  <1>1. queue \in Seq(Job) /\ (active # Idle => active.job \in Job)
    BY DEF TypeOK
  <1>2. active # Idle => <<active.job>> \o queue \in Seq(Job)
    BY <1>1
  <1>3. Pipe \in Seq(Job)
    BY <1>1, <1>2 DEF Pipe
  <1> HIDE DEF Pipe
  <1> QED BY <1>3

\* How the steps that move jobs move them in the pipe.
LEMMA PipeAdded ==
    ASSUME TypeOK, AddJob
    PROVE  /\ DOMAIN Pipe' = 1..(Len(Pipe) + 1)
           /\ \A i \in DOMAIN Pipe : Pipe'[i] = Pipe[i]
           /\ Pipe'[Len(Pipe) + 1] = [key |-> Head(pending),
                state |-> cache[Head(pending)], again |-> FALSE]
  <1> DEFINE job == [key |-> Head(pending), state |-> cache[Head(pending)],
                     again |-> FALSE]
  <1>1. Pipe \in Seq(Job) /\ Len(Pipe) \in Nat /\ DOMAIN Pipe = 1..Len(Pipe)
    BY PipeType
  <1>2. queue' = Append(queue, job) /\ UNCHANGED active /\ queue \in Seq(Job)
    BY DEF AddJob, TypeOK
  <1>3. active # Idle => active.job \in Job
    BY DEF TypeOK
  <1> HIDE DEF job
  <1>4. CASE active = Idle
    <2>1. Pipe = queue /\ Pipe' = Append(queue, job)
      BY <1>2, <1>4 DEF Pipe
    <2> QED BY <1>2, <2>1 DEF job
  <1>5. CASE active # Idle
    <2>1. Pipe = <<active.job>> \o queue /\ Pipe' = <<active.job>> \o Append(queue, job)
      BY <1>2, <1>5 DEF Pipe
    <2> QED BY <1>2, <1>3, <1>5, <2>1 DEF job
  <1> QED BY <1>4, <1>5

LEMMA PipeRead ==
    ASSUME TypeOK, ProcessRead
    PROVE  Pipe' = Pipe
  <1>1. /\ active = Idle /\ queue \in Seq(Job) /\ queue # <<>>
        /\ active' # Idle /\ active'.job = Head(queue) /\ queue' = Tail(queue)
    BY DEF ProcessRead, TypeOK, Idle
  <1>2. <<Head(queue)>> \o Tail(queue) = queue
    BY <1>1
  <1> QED BY <1>1, <1>2 DEF Pipe

LEMMA PipeSaved ==
    ASSUME TypeOK, ProcessSave
    PROVE  /\ Len(Pipe) \in Nat /\ DOMAIN Pipe = 1..Len(Pipe) /\ Len(Pipe) >= 1
           /\ Pipe[1] = active.job
           /\ DOMAIN Pipe' = 1..(Len(Pipe) - 1)
           /\ \A i \in DOMAIN Pipe' : i + 1 \in DOMAIN Pipe /\ Pipe'[i] = Pipe[i + 1]
  <1>1. /\ active # Idle /\ active.job \in Job /\ queue \in Seq(Job)
        /\ active' = Idle /\ queue' = queue
    BY DEF ProcessSave, TypeOK
  <1>2. Pipe = <<active.job>> \o queue /\ Pipe' = queue
    BY <1>1 DEF Pipe
  <1> QED BY <1>1, <1>2

\* What a job makes of each field of each provider.
LEMMA AppliedFields ==
    ASSUME NEW states \in States, NEW job \in Job, NEW q \in Providers
    PROVE  /\ Applied(states, job)[q].listed =
                IF q = job.key THEN job.state.listed ELSE states[q].listed
           /\ Applied(states, job)[q].enabled =
                IF q = job.key THEN job.state.enabled ELSE states[q].enabled
           /\ Applied(states, job)[q].isDefault <=>
                IF q = job.key THEN job.state.isDefault
                ELSE /\ states[q].isDefault
                     /\ ~(job.state.isDefault /\ Scope[q] = Scope[job.key])
  <1>1. job.key \in Providers /\ job.state \in ProviderState
    BY DEF Job
  <1>2. CASE q = job.key
    <2>1. Applied(states, job)[q] = job.state
      BY <1>1, <1>2, MadeDefaultType DEF Applied, States
    <2> QED BY <1>2, <2>1
  <1>3. CASE q # job.key /\ ~job.state.isDefault
    <2>1. Applied(states, job)[q] = states[q]
      BY <1>1, <1>3 DEF Applied, States
    <2> QED BY <1>3, <2>1
  <1>4. CASE q # job.key /\ job.state.isDefault
    <2>1. Applied(states, job)[q] = MadeDefault(states, job.key)[q]
      BY <1>1, <1>4, MadeDefaultType DEF Applied, States
    <2>2. MadeDefault(states, job.key)[q] =
            IF Scope[q] = Scope[job.key] THEN [states[q] EXCEPT !.isDefault = FALSE]
            ELSE states[q]
      BY <1>4 DEF MadeDefault
    <2>3. states[q] \in ProviderState
      BY DEF States
    <2> QED BY <1>4, <2>1, <2>2, <2>3 DEF ProviderState
  <1> QED BY <1>2, <1>3, <1>4

-----------------------------------------------------------------------------
\* A request changes the copy and queues the provider it named.
LEMMA ChangeCatches ==
    ASSUME TypeOK, Catching, NEW p \in Providers, NEW states, Change(p, states),
           \A q \in Providers :
             /\ states[q].listed = cache[q].listed
             /\ states[q].enabled # cache[q].enabled => q = p
             /\ states[q].isDefault => cache[q].isDefault \/ q = p
             /\ Defaults(states, Scope[q]) = {} => Defaults(cache, Scope[q]) = {}
    PROVE  Catching'
  <1>1. cache' = states /\ UNCHANGED <<doc, queue, active>>
    BY DEF Change
  <1>2. \A q : Pending(q)' <=> Pending(q) \/ q = p
    <2>1. /\ pending' = Append(pending, p) /\ pending \in Seq(Providers)
          /\ DOMAIN pending = 1..Len(pending) /\ Len(pending) \in Nat
          /\ DOMAIN pending' = 1..(Len(pending) + 1)
          /\ \A k \in DOMAIN pending : pending'[k] = pending[k]
          /\ pending'[Len(pending) + 1] = p
      BY DEF Change, TypeOK
    <2>2. \A k \in DOMAIN pending' : k \in DOMAIN pending \/ k = Len(pending) + 1
      BY <2>1
    <2>3. Len(pending) + 1 \in DOMAIN pending' /\ DOMAIN pending \subseteq DOMAIN pending'
      BY <2>1
    <2> QED BY <2>1, <2>2, <2>3 DEF Pending
  <1>3. Pipe' = Pipe
    BY <1>1 DEF Pipe
  <1> SUFFICES ASSUME NEW q \in Providers
               PROVE  /\ SameListed(q)' /\ SwitchComes(q)'
                      /\ cache'[q].isDefault => MarkComes(q)'
                      /\ Defaults(cache', Scope[q]) = {} => NoMark(q)'
    BY DEF Catching, Defaults
  <1>4. /\ SameListed(q) /\ SwitchComes(q)
        /\ cache[q].isDefault => MarkComes(q)
        /\ Defaults(cache, Scope[q]) = {} => NoMark(q)
    BY DEF Catching
  <1>5. SameListed(q)'
    BY <1>1, <1>3, <1>4 DEF SameListed
  <1>6. SwitchComes(q)'
    <2>1. CASE q = p
      BY <1>2, <2>1 DEF SwitchComes
    <2>2. CASE q # p
      <3>1. cache'[q].enabled = cache[q].enabled
        BY <1>1, <2>2
      <3> QED BY <1>1, <1>2, <1>3, <1>4, <3>1 DEF SwitchComes
    <2> QED BY <2>1, <2>2
  <1>7. cache'[q].isDefault => MarkComes(q)'
    <2>1. CASE q = p
      BY <1>2, <2>1 DEF MarkComes
    <2>2. CASE q # p
      BY <1>1, <1>2, <1>3, <1>4, <2>2 DEF MarkComes
    <2> QED BY <2>1, <2>2
  <1>8. Defaults(cache', Scope[q]) = {} => NoMark(q)'
    BY <1>1, <1>3, <1>4 DEF NoMark
  <1> QED BY <1>5, <1>6, <1>7, <1>8

\* A request reaches the queue: its job says what the copy says now.
LEMMA AddCatches ==
    ASSUME TypeOK, Catching, Single(cache), AddJob
    PROVE  Catching'
  <1>1. PICK p, job :
          /\ p \in Providers /\ p = Head(pending)
          /\ job = [key |-> p, state |-> cache[p], again |-> FALSE]
    BY DEF AddJob, TypeOK
  <1>2. job.key = p /\ job.state = cache[p]
    BY <1>1
  <1> DEFINE n == Len(Pipe) + 1
  <1>3. /\ Len(Pipe) \in Nat /\ DOMAIN Pipe = 1..Len(Pipe)
        /\ DOMAIN Pipe' = 1..n /\ Pipe'[n] = job
        /\ \A i \in DOMAIN Pipe : Pipe'[i] = Pipe[i]
    BY <1>1, PipeType, PipeAdded
  <1>4. /\ n \in DOMAIN Pipe' /\ DOMAIN Pipe \subseteq DOMAIN Pipe'
        /\ \A i \in DOMAIN Pipe' : i # n => i \in DOMAIN Pipe /\ Pipe'[i] = Pipe[i]
        /\ \A i \in DOMAIN Pipe' : i >= n => i = n
    BY <1>3
  <1>5. \A q : Pending(q) => Pending(q)' \/ q = p
    <2>1. /\ pending \in Seq(Providers) /\ pending # <<>>
          /\ p = pending[1] /\ pending' = Tail(pending)
      BY <1>1 DEF AddJob, TypeOK
    <2>2. \A k \in DOMAIN pending : k = 1 \/
            (k - 1 \in DOMAIN pending' /\ pending'[k - 1] = pending[k])
      BY <2>1
    <2> QED BY <2>1, <2>2 DEF Pending
  <1>6. UNCHANGED <<doc, cache>>
    BY DEF AddJob
  <1> HIDE DEF n
  <1> SUFFICES ASSUME NEW q \in Providers
               PROVE  /\ SameListed(q)' /\ SwitchComes(q)'
                      /\ cache'[q].isDefault => MarkComes(q)'
                      /\ Defaults(cache', Scope[q]) = {} => NoMark(q)'
    BY DEF Catching, Defaults
  <1>7. /\ SameListed(q) /\ SwitchComes(q)
        /\ cache[q].isDefault => MarkComes(q)
        /\ Defaults(cache, Scope[q]) = {} => NoMark(q)
    BY DEF Catching
  <1>8. SameListed(q)'
    BY <1>2, <1>3, <1>4, <1>6, <1>7 DEF SameListed
  <1>9. SwitchComes(q)'
    <2>1. KeepsSwitch(job, q, cache[q].enabled) /\ cache'[q].enabled = cache[q].enabled
      BY <1>2, <1>6 DEF KeepsSwitch
    <2>2. CASE q = p
      <3>1. \A j \in DOMAIN Pipe' : j >= n => KeepsSwitch(Pipe'[j], q, cache[q].enabled)
        BY <1>3, <1>4, <2>1
      <3>2. Pipe'[n].key = q
        BY <1>2, <1>3, <2>2
      <3> QED BY <2>1, <1>4, <3>1, <3>2 DEF SwitchComes
    <2>3. CASE q # p /\ Pending(q)
      BY <1>5, <2>3 DEF SwitchComes
    <2>4. CASE \E i \in DOMAIN Pipe :
                 /\ Pipe[i].key = q
                 /\ \A j \in DOMAIN Pipe : j >= i => KeepsSwitch(Pipe[j], q, cache[q].enabled)
      <3>1. PICK i \in DOMAIN Pipe :
                 /\ Pipe[i].key = q
                 /\ \A j \in DOMAIN Pipe : j >= i => KeepsSwitch(Pipe[j], q, cache[q].enabled)
        BY <2>4
      <3>2. \A j \in DOMAIN Pipe' : j >= i => KeepsSwitch(Pipe'[j], q, cache[q].enabled)
        BY <1>3, <1>4, <2>1, <3>1
      <3>3. i \in DOMAIN Pipe' /\ Pipe'[i].key = q
        BY <1>3, <1>4, <3>1
      <3> QED BY <2>1, <3>2, <3>3 DEF SwitchComes
    <2>5. CASE /\ doc[q].enabled = cache[q].enabled
               /\ \A j \in DOMAIN Pipe : KeepsSwitch(Pipe[j], q, cache[q].enabled)
      <3>1. \A j \in DOMAIN Pipe' : KeepsSwitch(Pipe'[j], q, cache[q].enabled)
        BY <1>3, <1>4, <2>1, <2>5
      <3> QED BY <2>1, <1>6, <2>5, <3>1 DEF SwitchComes
    <2> QED BY <2>1, <1>7, <2>2, <2>3, <2>4, <2>5 DEF SwitchComes
  <1>10. ASSUME cache'[q].isDefault PROVE MarkComes(q)'
    <2>1. KeepsMark(job, q) /\ MarkComes(q)
      BY <1>1, <1>2, <1>6, <1>7, <1>10 DEF KeepsMark, Single
    <2>2. CASE q = p
      <3>1. \A j \in DOMAIN Pipe' : j >= n => KeepsMark(Pipe'[j], q)
        BY <1>3, <1>4, <2>1
      <3>2. Pipe'[n].key = q
        BY <1>2, <1>3, <2>2
      <3> QED BY <1>4, <3>1, <3>2 DEF MarkComes
    <2>3. CASE q # p /\ Pending(q)
      BY <1>5, <2>3 DEF MarkComes
    <2>4. CASE \E i \in DOMAIN Pipe :
                 /\ Pipe[i].key = q
                 /\ \A j \in DOMAIN Pipe : j >= i => KeepsMark(Pipe[j], q)
      <3>1. PICK i \in DOMAIN Pipe :
                 /\ Pipe[i].key = q
                 /\ \A j \in DOMAIN Pipe : j >= i => KeepsMark(Pipe[j], q)
        BY <2>4
      <3>2. \A j \in DOMAIN Pipe' : j >= i => KeepsMark(Pipe'[j], q)
        BY <1>3, <1>4, <2>1, <3>1
      <3>3. i \in DOMAIN Pipe' /\ Pipe'[i].key = q
        BY <1>3, <1>4, <3>1
      <3> QED BY <3>2, <3>3 DEF MarkComes
    <2>5. CASE /\ doc[q].isDefault
               /\ \A j \in DOMAIN Pipe : KeepsMark(Pipe[j], q)
      <3>1. \A j \in DOMAIN Pipe' : KeepsMark(Pipe'[j], q)
        BY <1>3, <1>4, <2>1, <2>5
      <3> QED BY <1>6, <2>5, <3>1 DEF MarkComes
    <2> QED BY <2>1, <2>2, <2>3, <2>4, <2>5 DEF MarkComes
  <1>11. ASSUME Defaults(cache', Scope[q]) = {} PROVE NoMark(q)'
    <2>1. ~cache[q].isDefault /\ NoMark(q)
      BY <1>6, <1>7, <1>11 DEF Defaults
    <2> QED BY <1>2, <1>3, <1>4, <1>6, <2>1 DEF NoMark
  <1> QED BY <1>8, <1>9, <1>10, <1>11

\* The worker saves the oldest job.
LEMMA SaveCatches ==
    ASSUME TypeOK, Catching, active.read = doc, ProcessSave
    PROVE  Catching'
  <1>1. PICK job : job = active.job
    OBVIOUS
  <1>2. job \in Job /\ doc' = Applied(doc, job) /\ UNCHANGED <<cache, pending>>
    <2>1. active.job \in Job
      BY DEF ProcessSave, TypeOK
    <2>2. Saved(doc, Applied(doc, job)) = Applied(doc, job)
      BY <1>1, <2>1, AppliedType, SavedIsWritten DEF TypeOK
    <2> QED BY <1>1, <2>1, <2>2 DEF ProcessSave
  <1>3. /\ Len(Pipe) \in Nat /\ DOMAIN Pipe = 1..Len(Pipe) /\ Len(Pipe) >= 1
        /\ Pipe[1] = job
        /\ DOMAIN Pipe' = 1..(Len(Pipe) - 1)
        /\ \A i \in DOMAIN Pipe' : i + 1 \in DOMAIN Pipe /\ Pipe'[i] = Pipe[i + 1]
    BY <1>1, PipeSaved
  <1>4. /\ 1 \in DOMAIN Pipe
        /\ \A i \in DOMAIN Pipe : i # 1 =>
             /\ i - 1 \in DOMAIN Pipe' /\ Pipe'[i - 1] = Pipe[i]
             /\ \A j \in DOMAIN Pipe' : j >= i - 1 => j + 1 >= i
        /\ \A j \in DOMAIN Pipe' : j + 1 >= 1
    BY <1>3
  <1> SUFFICES ASSUME NEW q \in Providers
               PROVE  /\ SameListed(q)' /\ SwitchComes(q)'
                      /\ cache'[q].isDefault => MarkComes(q)'
                      /\ Defaults(cache', Scope[q]) = {} => NoMark(q)'
    BY DEF Catching, Defaults
  <1>5. /\ SameListed(q) /\ SwitchComes(q)
        /\ cache[q].isDefault => MarkComes(q)
        /\ Defaults(cache, Scope[q]) = {} => NoMark(q)
    BY DEF Catching
  <1>6. /\ doc'[q].listed = IF q = job.key THEN job.state.listed ELSE doc[q].listed
        /\ doc'[q].enabled = IF q = job.key THEN job.state.enabled ELSE doc[q].enabled
        /\ doc'[q].isDefault <=>
             IF q = job.key THEN job.state.isDefault
             ELSE doc[q].isDefault /\ ~(job.state.isDefault /\ Scope[q] = Scope[job.key])
    BY <1>2, AppliedFields DEF TypeOK
  <1>7. Pending(q)' <=> Pending(q)
    BY <1>2 DEF Pending
  <1>8. SameListed(q)'
    BY <1>2, <1>3, <1>4, <1>5, <1>6 DEF SameListed
  <1>9. SwitchComes(q)'
    <2>1. cache'[q].enabled = cache[q].enabled
      BY <1>2
    <2>2. ASSUME KeepsSwitch(job, q, cache[q].enabled),
                 doc[q].enabled = cache[q].enabled \/ q = job.key,
                 \A j \in DOMAIN Pipe : j >= 1 => KeepsSwitch(Pipe[j], q, cache[q].enabled)
          PROVE  SwitchComes(q)'
      <3>1. doc'[q].enabled = cache'[q].enabled
        BY <1>2, <1>6, <2>2 DEF KeepsSwitch
      <3>2. \A j \in DOMAIN Pipe' : KeepsSwitch(Pipe'[j], q, cache[q].enabled)
        BY <1>3, <1>4, <2>1, <2>2
      <3> QED BY <2>1, <3>1, <3>2 DEF SwitchComes
    <2>3. CASE Pending(q)
      BY <1>7, <2>3 DEF SwitchComes
    <2>4. CASE \E i \in DOMAIN Pipe :
                 /\ Pipe[i].key = q
                 /\ \A j \in DOMAIN Pipe : j >= i => KeepsSwitch(Pipe[j], q, cache[q].enabled)
      <3>1. PICK i \in DOMAIN Pipe :
                 /\ Pipe[i].key = q
                 /\ \A j \in DOMAIN Pipe : j >= i => KeepsSwitch(Pipe[j], q, cache[q].enabled)
        BY <2>4
      <3>2. CASE i = 1
        BY <1>3, <1>4, <2>2, <3>1, <3>2
      <3>3. CASE i # 1
        <4>1. \A j \in DOMAIN Pipe' : j >= i - 1 => KeepsSwitch(Pipe'[j], q, cache[q].enabled)
          BY <1>3, <1>4, <2>1, <3>1, <3>3
        <4>2. i - 1 \in DOMAIN Pipe' /\ Pipe'[i - 1].key = q
          BY <1>4, <3>1, <3>3
        <4> QED BY <2>1, <4>1, <4>2 DEF SwitchComes
      <3> QED BY <3>2, <3>3
    <2>5. CASE /\ doc[q].enabled = cache[q].enabled
               /\ \A j \in DOMAIN Pipe : KeepsSwitch(Pipe[j], q, cache[q].enabled)
      BY <1>3, <1>4, <2>2, <2>5
    <2> QED BY <2>1, <1>5, <2>3, <2>4, <2>5 DEF SwitchComes
  <1>10. ASSUME cache'[q].isDefault PROVE MarkComes(q)'
    <2>1. MarkComes(q)
      BY <1>2, <1>5, <1>10
    <2>2. ASSUME KeepsMark(job, q), doc[q].isDefault \/ q = job.key,
                 \A j \in DOMAIN Pipe : j >= 1 => KeepsMark(Pipe[j], q)
          PROVE  MarkComes(q)'
      <3>1. doc'[q].isDefault
        BY <1>6, <2>2 DEF KeepsMark
      <3>2. \A j \in DOMAIN Pipe' : KeepsMark(Pipe'[j], q)
        BY <1>3, <1>4, <2>2
      <3> QED BY <3>1, <3>2 DEF MarkComes
    <2>3. CASE Pending(q)
      BY <1>7, <2>3 DEF MarkComes
    <2>4. CASE \E i \in DOMAIN Pipe :
                 /\ Pipe[i].key = q
                 /\ \A j \in DOMAIN Pipe : j >= i => KeepsMark(Pipe[j], q)
      <3>1. PICK i \in DOMAIN Pipe :
                 /\ Pipe[i].key = q
                 /\ \A j \in DOMAIN Pipe : j >= i => KeepsMark(Pipe[j], q)
        BY <2>4
      <3>2. CASE i = 1
        BY <1>3, <1>4, <2>2, <3>1, <3>2
      <3>3. CASE i # 1
        <4>1. \A j \in DOMAIN Pipe' : j >= i - 1 => KeepsMark(Pipe'[j], q)
          BY <1>3, <1>4, <3>1, <3>3
        <4>2. i - 1 \in DOMAIN Pipe' /\ Pipe'[i - 1].key = q
          BY <1>4, <3>1, <3>3
        <4> QED BY <4>1, <4>2 DEF MarkComes
      <3> QED BY <3>2, <3>3
    <2>5. CASE /\ doc[q].isDefault
               /\ \A j \in DOMAIN Pipe : KeepsMark(Pipe[j], q)
      BY <1>3, <1>4, <2>2, <2>5
    <2> QED BY <2>1, <2>3, <2>4, <2>5 DEF MarkComes
  <1>11. ASSUME Defaults(cache', Scope[q]) = {} PROVE NoMark(q)'
    <2>1. NoMark(q)
      BY <1>2, <1>5, <1>11
    <2>2. ~doc'[q].isDefault
      BY <1>3, <1>4, <1>6, <2>1 DEF NoMark
    <2>3. \A j \in DOMAIN Pipe' : Pipe'[j].key = q => ~Pipe'[j].state.isDefault
      BY <1>3, <2>1 DEF NoMark
    <2> QED BY <2>2, <2>3 DEF NoMark
  <1> QED BY <1>8, <1>9, <1>10, <1>11

\* Every step.
LEMMA NextCatches ==
    ASSUME TypeOK, AtMostOneDefault, Undisturbed, CatchInv, [Next]_vars,
           Up', failures' = 0, crashes' = 0
    PROVE  Catching'
  <1>1. crashes \in Nat /\ failures \in Nat
    BY ControlCenterAssumption DEF TypeOK
  <1>2. failures = 0 /\ crashes = 0 /\ ~Crash /\ ~AddFails /\ ~ProcessFails
    BY <1>1 DEF Next, BootRead, BootSave, LoadCache, SetDefaultProvider, ToggleProvider,
           Change, AddJob, AddFails, ProcessRead, ProcessSave, ProcessFails,
           StalledJob, Crash, vars
  <1>3. /\ Single(doc) /\ Single(cache) /\ stalled = {}
        /\ ~Up => queue = <<>> /\ pending = <<>> /\ active = Idle
        /\ active # Idle => active.read = doc
        /\ Up => Catching
    BY <1>2 DEF AtMostOneDefault, Undisturbed, CatchInv
  <1>4. CASE LoadCache
    <2>1. cache' = doc /\ doc' = doc /\ Pipe' = <<>>
      BY <1>3, <1>4 DEF LoadCache, Up, Pipe
    <2>2. DOMAIN Pipe' = {}
      BY <2>1
    <2> QED BY <2>1, <2>2 DEF Catching, SameListed, SwitchComes, MarkComes, NoMark,
                              Defaults
  <1>5. CASE ~LoadCache
    <2>1. Up /\ Catching /\ ~BootRead /\ ~BootSave /\ ~StalledJob
      <3>1. ~BootRead /\ ~BootSave /\ ~StalledJob
        BY <1>3 DEF BootRead, BootSave, StalledJob, Up
      <3>2. boot' = boot
        BY <1>2, <1>5, <3>1 DEF Next, SetDefaultProvider, ToggleProvider, Change, AddJob,
           ProcessRead, ProcessSave, vars
      <3> QED BY <1>3, <3>1, <3>2 DEF Up
    <2>2. CASE UNCHANGED vars
      <3>1. Pipe' = Pipe /\ UNCHANGED <<doc, cache, pending>>
        BY <2>2 DEF vars, Pipe
      <3> QED BY <2>1, <3>1 DEF Catching, SameListed, SwitchComes, MarkComes, NoMark,
         Defaults, Pending
    <2>3. ASSUME NEW p \in Providers, SetDefaultProvider(p) PROVE Catching'
      <3> DEFINE states == MadeDefault(cache, p)
      <3>1. \A q \in Providers :
              /\ states[q].listed = cache[q].listed
              /\ states[q].enabled = cache[q].enabled
              /\ states[q].isDefault <=>
                   IF Scope[q] = Scope[p] THEN q = p ELSE cache[q].isDefault
        BY DEF MadeDefault, TypeOK, States, ProviderState
      <3>2. Change(p, states)
        BY <2>3 DEF SetDefaultProvider
      <3> HIDE DEF states
      <3>3. ASSUME NEW q \in Providers, Defaults(states, Scope[q]) = {}
            PROVE  Defaults(cache, Scope[q]) = {}
        <4>1. Scope[q] # Scope[p]
          BY <3>1, <3>3 DEF Defaults
        <4> QED BY <3>1, <3>3, <4>1 DEF Defaults
      <3> QED BY <2>1, <3>1, <3>2, <3>3, ChangeCatches
    <2>4. ASSUME NEW p \in Providers, NEW e \in BOOLEAN, ToggleProvider(p, e)
          PROVE  Catching'
      <3> DEFINE states == [cache EXCEPT ![p].enabled = e]
      <3>1. \A q \in Providers :
              /\ states[q].listed = cache[q].listed
              /\ states[q].enabled # cache[q].enabled => q = p
              /\ states[q].isDefault <=> cache[q].isDefault
        BY DEF TypeOK, States, ProviderState
      <3>2. Change(p, states)
        BY <2>4 DEF ToggleProvider
      <3> HIDE DEF states
      <3>3. \A q \in Providers : Defaults(states, Scope[q]) = Defaults(cache, Scope[q])
        BY <3>1 DEF Defaults
      <3> QED BY <2>1, <3>1, <3>2, <3>3, ChangeCatches
    <2>5. CASE AddJob
      BY <1>3, <2>1, <2>5, AddCatches
    <2>6. CASE ProcessRead
      <3>1. Pipe' = Pipe /\ UNCHANGED <<doc, cache, pending>>
        BY <2>6, PipeRead DEF ProcessRead
      <3> QED BY <2>1, <3>1 DEF Catching, SameListed, SwitchComes, MarkComes, NoMark,
         Defaults, Pending
    <2>7. CASE ProcessSave
      <3>1. active.read = doc
        BY <1>3, <2>7 DEF ProcessSave
      <3> QED BY <2>1, <2>7, <3>1, SaveCatches
    <2> QED BY <1>2, <1>5, <2>1, <2>2, <2>3, <2>4, <2>5, <2>6, <2>7 DEF Next
  <1> QED BY <1>4, <1>5

\* What the copy says is what the document says when nothing is under way.
LEMMA CaughtUp ==
    ASSUME TypeOK, AtMostOneDefault, CatchInv
    PROVE  DocumentCatchesUp
  <1> SUFFICES ASSUME Up, failures = 0, crashes = 0,
                      pending = <<>>, queue = <<>>, active = Idle
               PROVE  doc = cache
    BY DEF DocumentCatchesUp
  <1>1. Catching /\ Single(doc) /\ Single(cache) /\ doc \in States /\ cache \in States
    BY DEF CatchInv, AtMostOneDefault, TypeOK
  <1>2. DOMAIN Pipe = {} /\ \A p : ~Pending(p)
    BY DEF Pipe, Pending
  <1>3. ASSUME NEW p \in Providers PROVE doc[p] = cache[p]
    <2>1. doc[p].listed = cache[p].listed
      BY <1>1 DEF Catching, SameListed
    <2>2. doc[p].enabled = cache[p].enabled
      BY <1>1, <1>2 DEF Catching, SwitchComes
    <2>3. \A q \in Providers : cache[q].isDefault => doc[q].isDefault
      BY <1>1, <1>2 DEF Catching, MarkComes
    <2>4. ASSUME doc[p].isDefault PROVE cache[p].isDefault
      <3>1. Defaults(cache, Scope[p]) # {}
        BY <1>1, <2>4 DEF Catching, NoMark
      <3>2. PICK q \in Providers : Scope[q] = Scope[p] /\ cache[q].isDefault
        BY <3>1 DEF Defaults
      <3>3. p = q
        BY <1>1, <2>3, <2>4, <3>2 DEF Single
      <3> QED BY <3>2, <3>3
    <2>5. doc[p] \in ProviderState /\ cache[p] \in ProviderState
      BY <1>1 DEF States
    <2> QED BY <2>1, <2>2, <2>3, <2>4, <2>5 DEF ProviderState
  <1> QED BY <1>1, <1>3 DEF States

\* When everything queued is done and nothing has failed or died, the document
\* says of every provider what the copy says, in whatever order requests were
\* accepted, queued and worked off.
THEOREM ControlCenterDocumentCatchesUp == Spec => []DocumentCatchesUp
  <1>1. Init => CatchInv
    BY DEF Init, CatchInv, Up
  <1>2. TypeOK /\ AtMostOneDefault /\ Undisturbed /\ CatchInv /\ [Next]_vars
          => CatchInv'
    BY NextCatches DEF CatchInv
  <1>3. TypeOK /\ AtMostOneDefault /\ CatchInv => DocumentCatchesUp
    BY CaughtUp
  <1> QED BY <1>1, <1>2, <1>3, ControlCenterTypeOK, UndisturbedAlways, PTL DEF Spec

=============================================================================
