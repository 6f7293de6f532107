---------------------------- MODULE AccountsProofs ----------------------------
(***************************************************************************)
(* Theorems about Accounts: for any number of users, jobs, errors and      *)
(* restarts, the wallet goes with its user and only who is due is deleted. *)
(***************************************************************************)
EXTENDS Accounts, TLAPS

\* Each attempt that failed is one of the errors, each stall one of the restarts.
Counted == \A j \in Jobs : job[j].tries <= faults /\ job[j].stalls <= crashes

Due(u) == account[u].is # "none" /\ (account[u].flagged \/ account[u].old)

\* Who is gone, or about to be queued, or named by a job, is due.
DueInv ==
    /\ \A u \in Users : account[u].is = "gone" => Due(u)
    /\ \A u \in asking : Due(u)
    /\ \A u \in sweep : Due(u)
    /\ \A j \in Jobs : job[j].at # "unused" => Due(job[j].user)

\* The wallet of u is gone for good, unless it was in use when it was deleted.
Clean(u) == u \notin unsettled => u \notin wallets /\ ~WalletInUse(u)

CleanInv ==
    /\ \A u \in Users : account[u].is = "gone" => Clean(u)
    /\ \A j \in Jobs : job[j].at = "removing" => Clean(job[j].user)

TypeInv == TypeOK /\ Counted
IInv == TypeInv /\ DueInv /\ CleanInv

-----------------------------------------------------------------------------
JobType == [user: Users \cup {NoUser}, at: JobStates, tries: 0..MaxFaults, stalls: 0..MaxCrashes]

LEMMA StalledJob ==
    ASSUME NEW d \in JobType
    PROVE  /\ Stalled(d).user = d.user
           /\ Stalled(d).at = "waiting" \/ Stalled(d).at = "failed"
           /\ Stalled(d).tries = d.tries
           /\ Stalled(d).stalls = d.stalls + 1
           /\ d.stalls + 1 \in 0..MaxCrashes => Stalled(d) \in JobType
<1> DEFINE a == IF d.stalls < StallsAllowed THEN "waiting" ELSE "failed"
<1>1. a \in {"waiting", "failed"}
  OBVIOUS
<1>2. Stalled(d) = [user |-> d.user, at |-> a, tries |-> d.tries, stalls |-> d.stalls + 1]
  BY DEF Stalled
<1> HIDE DEF a
<1> QED
  BY <1>1, <1>2 DEF JobType, JobStates

LEMMA TypeStep == TypeInv /\ [Next]_vars => TypeInv'
<1> SUFFICES ASSUME TypeInv, [Next]_vars PROVE TypeInv'
  OBVIOUS
<1> USE AccountsAssumption DEF TypeInv, TypeOK, Counted, Account, CreationStates, Making,
      JobStates, Active, Here, Unused, Fault
<1>1. CASE \E u \in Users : Lives(u)
  <2> SUFFICES ASSUME NEW u \in Users, Lives(u) PROVE TypeInv'
    BY <1>1
  <2>1. CASE Register(u)
    <3>1. PICK v \in BOOLEAN : account' = [account EXCEPT ![u] =
        [is |-> "here", verified |-> v, flagged |-> FALSE, old |-> FALSE]]
      BY <2>1 DEF Register
    <3>2. account' \in [Users -> Account]
      BY <3>1
    <3> QED
      BY <2>1, <3>2 DEF Register
  <2>2. CASE VerifyEmail(u)
    BY <2>2 DEF VerifyEmail
  <2>3. CASE Age(u)
    BY <2>3 DEF Age
  <2>4. CASE InitiateDeletion(u)
    BY <2>4 DEF InitiateDeletion
  <2>5. CASE QueueDeletionFails(u)
    BY <2>5 DEF QueueDeletionFails
  <2> QED
    BY <2>1, <2>2, <2>3, <2>4, <2>5 DEF Lives
<1>2. CASE \E u \in Users : Funds(u)
  <2> SUFFICES ASSUME NEW u \in Users, Funds(u) PROVE TypeInv'
    BY <1>2
  <2>1. CASE AddCreation(u)
    BY <2>1 DEF AddCreation
  <2>2. CASE CreationRead(u)
    BY <2>2 DEF CreationRead
  <2>3. CASE CreationInsert(u)
    BY <2>3 DEF CreationInsert
  <2>4. CASE CreationEnd(u)
    BY <2>4 DEF CreationEnd
  <2>5. CASE CreationFails(u)
    BY <2>5 DEF CreationFails
  <2>6. CASE TransferRead(u)
    BY <2>6 DEF TransferRead
  <2>7. CASE TransferSave(u)
    BY <2>7 DEF TransferSave
  <2> QED
    BY <2>1, <2>2, <2>3, <2>4, <2>5, <2>6, <2>7 DEF Funds
<1>3. CASE \E j \in Jobs, u \in Users : QueueDeletion(j, u) \/ SweepQueue(j, u)
  <2>1. PICK j \in Jobs, u \in Users : QueueDeletion(j, u) \/ SweepQueue(j, u)
    BY <1>3
  <2>2. /\ job[j].at = "unused"
        /\ job' = [job EXCEPT ![j] = [user |-> u, at |-> "waiting", tries |-> 0, stalls |-> 0]]
    BY <2>1 DEF QueueDeletion, SweepQueue, Queue
  <2>3. /\ UNCHANGED <<account, wallets, transfers, creation, unsettled, faults, crashes>>
        /\ u \in asking \/ u \in sweep
        /\ asking' \subseteq asking /\ sweep' \subseteq sweep
    BY <2>1 DEF QueueDeletion, SweepQueue
  <2> QED
    BY <2>2, <2>3
<1>4. CASE SweepRead
  BY <1>4 DEF SweepRead
<1>5. CASE SweepFails
  BY <1>5 DEF SweepFails
<1>6. CASE \E j \in Jobs : Deletes(j)
  <2> SUFFICES ASSUME NEW j \in Jobs, Deletes(j) PROVE TypeInv'
    BY <1>6
  <2>1. CASE TakeJob(j)
    BY <2>1 DEF TakeJob
  <2>2. CASE WalletRead(j)
    BY <2>2 DEF WalletRead, Settle
  <2>3. CASE WalletErase(j)
    BY <2>3 DEF WalletErase, Settle
  <2>4. CASE RemoveUser(j)
    BY <2>4 DEF RemoveUser
  <2>5. CASE FinishJob(j)
    BY <2>5 DEF FinishJob
  <2> QED
    BY <2>1, <2>2, <2>3, <2>4, <2>5 DEF Deletes
<1>7. CASE \E j \in Jobs : JobFails(j)
  BY <1>7 DEF JobFails
<1>8. CASE Crash
  <2>1. \A u \in Users : creation'[u] \in CreationStates /\ (WalletInUse(u)' => WalletInUse(u))
    BY <1>8 DEF Crash, WalletInUse, CreationStates, Making
  <2>2. \A j \in Jobs : \/ job'[j] = job[j] /\ job[j].at \notin Active
                        \/ /\ job[j].at \in Active
                           /\ job'[j] = Stalled(job[j])
    BY <1>8 DEF Crash
  <2>3. creation' \in [Users -> CreationStates]
    BY <1>8 DEF Crash
  <2>4. job' = [j \in Jobs |-> job'[j]]
    BY <1>8 DEF Crash
  <2>5. /\ UNCHANGED <<account, wallets, unsettled, faults>>
        /\ transfers' = {} /\ asking' = {} /\ sweep' = {}
        /\ crashes < MaxCrashes /\ crashes' = crashes + 1
    BY <1>8 DEF Crash
  <2>6. ASSUME NEW j \in Jobs PROVE job'[j] \in JobType
    <3>1. job[j] \in JobType /\ job[j].stalls + 1 \in 0..MaxCrashes
      BY <2>5 DEF JobType
    <3>2. CASE job[j].at \in Active
      <4>1. job'[j] = Stalled(job[j])
        BY <2>2, <3>2
      <4> QED
        BY <3>1, <4>1, StalledJob
    <3>3. CASE job[j].at \notin Active
      BY <2>2, <3>1, <3>3
    <3> QED
      BY <3>2, <3>3
  <2>7. job' \in [Jobs -> [user: Users \cup {NoUser}, at: JobStates,
                         tries: 0..MaxFaults, stalls: 0..MaxCrashes]]
    BY <2>4, <2>6 DEF JobType
  <2>8. \A j \in Jobs : /\ job'[j].user = NoUser <=> job'[j].at = "unused"
                       /\ job'[j].tries <= faults' /\ job'[j].stalls <= crashes'
    <3> SUFFICES ASSUME NEW j \in Jobs
                 PROVE  /\ job'[j].user = NoUser <=> job'[j].at = "unused"
                        /\ job'[j].tries <= faults' /\ job'[j].stalls <= crashes'
      OBVIOUS
    <3>1. /\ job[j].stalls \in Nat /\ job[j].stalls <= crashes /\ crashes \in Nat
          /\ job[j].tries <= faults
      OBVIOUS
    <3>2. CASE job[j].at \in Active
      <4>1. job'[j] = Stalled(job[j]) /\ job[j] \in JobType
        BY <2>2, <3>2 DEF JobType
      <4>2. job[j].user # NoUser
        BY <3>2
      <4> QED
        BY <2>5, <3>1, <4>1, <4>2, StalledJob
    <3>3. CASE job[j].at \notin Active
      BY <2>2, <2>5, <3>1, <3>3
    <3> QED
      BY <3>2, <3>3
  <2> QED
    BY <2>3, <2>5, <2>7, <2>8
<1>9. CASE UNCHANGED vars
  BY <1>9 DEF vars
<1> QED
  BY <1>1, <1>2, <1>3, <1>4, <1>5, <1>6, <1>7, <1>8, <1>9 DEF Next

LEMMA DueStep == TypeInv /\ DueInv /\ [Next]_vars => DueInv'
<1> SUFFICES ASSUME TypeInv, DueInv, [Next]_vars PROVE DueInv'
  OBVIOUS
<1> USE DEF TypeInv, TypeOK, DueInv, Due, Account, Here, Unused, Active
<1>1. CASE \E u \in Users : Lives(u)
  <2> SUFFICES ASSUME NEW u \in Users, Lives(u) PROVE DueInv'
    BY <1>1
  <2>1. CASE Register(u)
    BY <2>1 DEF Register
  <2>2. CASE VerifyEmail(u)
    BY <2>2 DEF VerifyEmail
  <2>3. CASE Age(u)
    BY <2>3 DEF Age
  <2>4. CASE InitiateDeletion(u)
    BY <2>4 DEF InitiateDeletion
  <2>5. CASE QueueDeletionFails(u)
    BY <2>5 DEF QueueDeletionFails
  <2> QED
    BY <2>1, <2>2, <2>3, <2>4, <2>5 DEF Lives
<1>2. CASE \E u \in Users : Funds(u)
  BY <1>2 DEF Funds, AddCreation, CreationRead, CreationInsert, CreationEnd, CreationFails,
      TransferRead, TransferSave
<1>3. CASE \E j \in Jobs, u \in Users : QueueDeletion(j, u) \/ SweepQueue(j, u)
  <2>1. PICK j \in Jobs, u \in Users : QueueDeletion(j, u) \/ SweepQueue(j, u)
    BY <1>3
  <2>2. /\ job[j].at = "unused"
        /\ job' = [job EXCEPT ![j] = [user |-> u, at |-> "waiting", tries |-> 0, stalls |-> 0]]
    BY <2>1 DEF QueueDeletion, SweepQueue, Queue
  <2>3. /\ UNCHANGED <<account, wallets, transfers, creation, unsettled, faults, crashes>>
        /\ u \in asking \/ u \in sweep
        /\ asking' \subseteq asking /\ sweep' \subseteq sweep
    BY <2>1 DEF QueueDeletion, SweepQueue
  <2> QED
    BY <2>2, <2>3
<1>4. CASE SweepRead
  BY <1>4 DEF SweepRead
<1>5. CASE SweepFails
  BY <1>5 DEF SweepFails
<1>6. CASE \E j \in Jobs : Deletes(j)
  <2> SUFFICES ASSUME NEW j \in Jobs, Deletes(j) PROVE DueInv'
    BY <1>6
  <2>1. CASE RemoveUser(j)
    BY <2>1 DEF RemoveUser
  <2>2. CASE ~RemoveUser(j)
    BY <2>2 DEF Deletes, TakeJob, WalletRead, WalletErase, FinishJob
  <2> QED
    BY <2>1, <2>2
<1>7. CASE \E j \in Jobs : JobFails(j)
  BY <1>7 DEF JobFails
<1>8. CASE Crash
  <2>1. \A u \in Users : creation'[u] \in CreationStates /\ (WalletInUse(u)' => WalletInUse(u))
    BY <1>8 DEF Crash, WalletInUse, CreationStates, Making
  <2>2. \A j \in Jobs : \/ job'[j] = job[j] /\ job[j].at \notin Active
                        \/ /\ job[j].at \in Active
                           /\ job'[j] = Stalled(job[j])
    BY <1>8 DEF Crash
  <2>3. \A j \in Jobs : job'[j].at # "unused" =>
              job[j].at # "unused" /\ job'[j].user = job[j].user
    <3>1. \A j \in Jobs : job[j] \in JobType
      BY DEF JobType
    <3> QED
      BY <2>2, <3>1, StalledJob
  <2>4. UNCHANGED account /\ asking' = {} /\ sweep' = {}
    BY <1>8 DEF Crash
  <2> QED
    BY <2>3, <2>4
<1>9. CASE UNCHANGED vars
  BY <1>9 DEF vars
<1> QED
  BY <1>1, <1>2, <1>3, <1>4, <1>5, <1>6, <1>7, <1>8, <1>9 DEF Next

LEMMA CleanStep == IInv /\ [Next]_vars => CleanInv'
<1> SUFFICES ASSUME IInv, [Next]_vars PROVE CleanInv'
  OBVIOUS
<1> USE DEF IInv, TypeInv, TypeOK, DueInv, Due, CleanInv, Clean, WalletInUse, Account,
      CreationStates, Making, Here, Unused, Active
<1>1. CASE \E u \in Users : Lives(u)
  <2> SUFFICES ASSUME NEW u \in Users, Lives(u) PROVE CleanInv'
    BY <1>1
  <2>1. CASE Register(u)
    BY <2>1 DEF Register
  <2>2. CASE VerifyEmail(u)
    BY <2>2 DEF VerifyEmail
  <2>3. CASE Age(u)
    BY <2>3 DEF Age
  <2>4. CASE InitiateDeletion(u)
    BY <2>4 DEF InitiateDeletion
  <2>5. CASE QueueDeletionFails(u)
    BY <2>5 DEF QueueDeletionFails
  <2> QED
    BY <2>1, <2>2, <2>3, <2>4, <2>5 DEF Lives
<1>2. CASE \E u \in Users : Funds(u)
  <2> SUFFICES ASSUME NEW u \in Users, Funds(u) PROVE CleanInv'
    BY <1>2
  <2>1. CASE AddCreation(u)
    BY <2>1 DEF AddCreation
  <2>2. CASE CreationRead(u)
    BY <2>2 DEF CreationRead
  <2>3. CASE CreationInsert(u)
    BY <2>3 DEF CreationInsert
  <2>4. CASE CreationEnd(u)
    BY <2>4 DEF CreationEnd
  <2>5. CASE CreationFails(u)
    BY <2>5 DEF CreationFails
  <2>6. CASE TransferRead(u)
    BY <2>6 DEF TransferRead
  <2>7. CASE TransferSave(u)
    BY <2>7 DEF TransferSave
  <2> QED
    BY <2>1, <2>2, <2>3, <2>4, <2>5, <2>6, <2>7 DEF Funds
<1>3. CASE \E j \in Jobs, u \in Users : QueueDeletion(j, u) \/ SweepQueue(j, u)
  <2>1. PICK j \in Jobs, u \in Users : QueueDeletion(j, u) \/ SweepQueue(j, u)
    BY <1>3
  <2>2. /\ job[j].at = "unused"
        /\ job' = [job EXCEPT ![j] = [user |-> u, at |-> "waiting", tries |-> 0, stalls |-> 0]]
    BY <2>1 DEF QueueDeletion, SweepQueue, Queue
  <2>3. /\ UNCHANGED <<account, wallets, transfers, creation, unsettled, faults, crashes>>
        /\ u \in asking \/ u \in sweep
        /\ asking' \subseteq asking /\ sweep' \subseteq sweep
    BY <2>1 DEF QueueDeletion, SweepQueue
  <2> QED
    BY <2>2, <2>3
<1>4. CASE SweepRead \/ SweepFails
  BY <1>4 DEF SweepRead, SweepFails
<1>6. CASE \E j \in Jobs : Deletes(j)
  <2> SUFFICES ASSUME NEW j \in Jobs, Deletes(j) PROVE CleanInv'
    BY <1>6
  <2>1. CASE TakeJob(j)
    BY <2>1 DEF TakeJob
  <2>2. CASE WalletRead(j)
    BY <2>2 DEF WalletRead, Settle
  <2>3. CASE WalletErase(j)
    BY <2>3 DEF WalletErase, Settle
  <2>4. CASE RemoveUser(j)
    BY <2>4 DEF RemoveUser
  <2>5. CASE FinishJob(j)
    BY <2>5 DEF FinishJob
  <2> QED
    BY <2>1, <2>2, <2>3, <2>4, <2>5 DEF Deletes
<1>7. CASE \E j \in Jobs : JobFails(j)
  BY <1>7 DEF JobFails
<1>8. CASE Crash
  <2>1. \A u \in Users : creation'[u] \in CreationStates /\ (WalletInUse(u)' => WalletInUse(u))
    BY <1>8 DEF Crash, WalletInUse, CreationStates, Making
  <2>2. \A j \in Jobs : \/ job'[j] = job[j] /\ job[j].at \notin Active
                        \/ /\ job[j].at \in Active
                           /\ job'[j] = Stalled(job[j])
    BY <1>8 DEF Crash
  <2> QED
    BY <1>8, <2>1, <2>2 DEF Crash, Stalled
<1>9. CASE UNCHANGED vars
  BY <1>9 DEF vars
<1> QED
  BY <1>1, <1>2, <1>3, <1>4, <1>6, <1>7, <1>8, <1>9 DEF Next

LEMMA Inductive == Spec => []IInv
<1>1. Init => IInv
  BY AccountsAssumption DEF Init, IInv, TypeInv, TypeOK, Counted, DueInv, CleanInv, Clean, Due,
      Account, CreationStates, JobStates, Active, Unused
<1>2. IInv /\ [Next]_vars => IInv'
  BY TypeStep, DueStep, CleanStep DEF IInv
<1> QED
  BY <1>1, <1>2, PTL DEF Spec

-----------------------------------------------------------------------------
\* users.service.ts, the processors of users and wallet creation: accounts and
\* jobs keep their shapes, and no job is tried more often than there were errors.
THEOREM AccountsTypeOK == Spec => []TypeOK
<1>1. IInv => TypeOK
  BY DEF IInv, TypeInv
<1> QED
  BY <1>1, Inductive, PTL

\* account-deletion.processor.ts: whoever is deleted has no wallet and gets none,
\* unless the wallet was in use when the last attempt deleted it.
THEOREM AccountsWalletGoesWithUser == Spec => []WalletGoesWithUser
<1>1. IInv => WalletGoesWithUser
  BY DEF IInv, CleanInv, Clean, WalletGoesWithUser
<1> QED
  BY <1>1, Inductive, PTL

\* cron-cleanup.processor.ts and initiateDeletion: nobody is deleted who neither
\* asked for it nor had a day to verify the address.
THEOREM AccountsOnlyDueAreDeleted == Spec => []OnlyDueAreDeleted
<1>1. IInv => OnlyDueAreDeleted
  BY DEF IInv, DueInv, Due, OnlyDueAreDeleted
<1> QED
  BY <1>1, Inductive, PTL
=============================================================================
