------------------------------- MODULE Accounts -------------------------------
(***************************************************************************)
(* The life of an account: registration queues the creation of a wallet,   *)
(* a request or the daily clean-up of unverified users queues a deletion,  *)
(* and the deletion job takes the wallet from Postgres and then, in one    *)
(* Mongo transaction, the rest.  Each queue has one worker; the jobs of a  *)
(* queue may be retried, so they are run in any order.                     *)
(***************************************************************************)
EXTENDS Integers, FiniteSets

CONSTANTS Users, Jobs,    \* accounts that may be registered, deletion jobs
          NoUser,
          MaxFaults,      \* bound on errors of a database or of redis
          MaxCrashes      \* bound on restarts of the process

ASSUME AccountsAssumption ==
    /\ MaxFaults \in Nat /\ MaxCrashes \in Nat
    /\ NoUser \notin Users

VARIABLES account,     \* Mongo: the user documents
          wallets,     \* Postgres: the users that have a wallet
          transfers,   \* users with a deposit or withdrawal about to save the wallet
          creation,    \* how far the wallet creation job of each user is
          asking,      \* requests that have flagged the user and not queued the job
          sweep,       \* users the clean-up has selected and not queued yet
          job,         \* the deletion jobs
          unsettled,   \* history: users whose wallet was in use when it was deleted
          faults, crashes

vars == <<account, wallets, transfers, creation, asking, sweep, job, unsettled,
          faults, crashes>>

Attempts == 3
StallsAllowed == 1

Account == [is: {"none", "here", "gone"}, verified: BOOLEAN, flagged: BOOLEAN, old: BOOLEAN]
CreationStates == {"none", "adding", "queued", "making", "finishing", "done", "lost"}
Making == {"making", "finishing"}
Active == {"cleaning", "erasing", "removing", "finishing"}
JobStates == {"unused", "waiting", "completed", "failed"} \cup Active

Here(u) == account[u].is = "here"
Unused == [user |-> NoUser, at |-> "unused", tries |-> 0, stalls |-> 0]

\* The wallet of u is being created, or a transfer has read it.
WalletInUse(u) ==
    u \in transfers \/ creation[u] \in {"adding", "queued"} \cup Making

Init ==
    /\ account = [u \in Users |->
         [is |-> "none", verified |-> FALSE, flagged |-> FALSE, old |-> FALSE]]
    /\ wallets = {} /\ transfers = {}
    /\ creation = [u \in Users |-> "none"]
    /\ asking = {} /\ sweep = {}
    /\ job = [j \in Jobs |-> Unused]
    /\ unsettled = {}
    /\ faults = 0 /\ crashes = 0

Fault == faults < MaxFaults /\ faults' = faults + 1

-----------------------------------------------------------------------------
(* Registration, by password or by a provider that vouches for the address. *)

Register(u) ==
    /\ account[u].is = "none"
    /\ \E v \in BOOLEAN : account' = [account EXCEPT ![u] =
         [is |-> "here", verified |-> v, flagged |-> FALSE, old |-> FALSE]]
    /\ creation' = [creation EXCEPT ![u] = "adding"]
    /\ UNCHANGED <<wallets, transfers, asking, sweep, job, unsettled, faults, crashes>>

AddCreation(u) ==
    /\ creation[u] = "adding"
    /\ creation' = [creation EXCEPT ![u] = "queued"]
    /\ UNCHANGED <<account, wallets, transfers, asking, sweep, job, unsettled, faults, crashes>>

VerifyEmail(u) ==
    /\ Here(u) /\ ~account[u].verified
    /\ account' = [account EXCEPT ![u].verified = TRUE]
    /\ UNCHANGED <<wallets, transfers, creation, asking, sweep, job, unsettled, faults, crashes>>

\* Twenty-four hours go by.
Age(u) ==
    /\ Here(u) /\ ~account[u].old
    /\ account' = [account EXCEPT ![u].old = TRUE]
    /\ UNCHANGED <<wallets, transfers, creation, asking, sweep, job, unsettled, faults, crashes>>

-----------------------------------------------------------------------------
(* The wallet: its creation job, and the transfers of module Wallet.        *)

\* Nobody else creates wallets, so the second look in createWallet finds what
\* the first one found.
CreationRead(u) ==
    /\ creation[u] = "queued"
    /\ \A v \in Users : creation[v] \notin Making
    /\ creation' = [creation EXCEPT ![u] = IF u \in wallets THEN "finishing" ELSE "making"]
    /\ UNCHANGED <<account, wallets, transfers, asking, sweep, job, unsettled, faults, crashes>>

CreationInsert(u) ==
    /\ creation[u] = "making"
    /\ wallets' = wallets \cup {u}
    /\ creation' = [creation EXCEPT ![u] = "finishing"]
    /\ UNCHANGED <<account, transfers, asking, sweep, job, unsettled, faults, crashes>>

CreationEnd(u) ==
    /\ creation[u] = "finishing"
    /\ creation' = [creation EXCEPT ![u] = "done"]
    /\ UNCHANGED <<account, wallets, transfers, asking, sweep, job, unsettled, faults, crashes>>

\* redis does not take the job, or the job fails: it has one attempt.
CreationFails(u) ==
    /\ creation[u] \in {"adding", "making"} /\ Fault
    /\ creation' = [creation EXCEPT ![u] = "lost"]
    /\ UNCHANGED <<account, wallets, transfers, asking, sweep, job, unsettled, crashes>>

TransferRead(u) ==
    /\ u \in wallets \ transfers
    /\ transfers' = transfers \cup {u}
    /\ UNCHANGED <<account, wallets, creation, asking, sweep, job, unsettled, faults, crashes>>

\* A save writes the wallet it read, if need be as a new row.
TransferSave(u) ==
    /\ u \in transfers
    /\ transfers' = transfers \ {u}
    /\ wallets' = wallets \cup {u}
    /\ UNCHANGED <<account, creation, asking, sweep, job, unsettled, faults, crashes>>

-----------------------------------------------------------------------------
(* Two ways to a deletion job.                                              *)

Queue(j, u) ==
    /\ job[j].at = "unused"
    /\ job' = [job EXCEPT ![j] = [user |-> u, at |-> "waiting", tries |-> 0, stalls |-> 0]]

InitiateDeletion(u) ==
    /\ Here(u)
    /\ account' = [account EXCEPT ![u].flagged = TRUE]
    /\ asking' = asking \cup {u}
    /\ UNCHANGED <<wallets, transfers, creation, sweep, job, unsettled, faults, crashes>>

QueueDeletion(j, u) ==
    /\ u \in asking
    /\ Queue(j, u)
    /\ asking' = asking \ {u}
    /\ UNCHANGED <<account, wallets, transfers, creation, sweep, unsettled, faults, crashes>>

\* The flag stays, and nothing is queued.
QueueDeletionFails(u) ==
    /\ u \in asking /\ Fault
    /\ asking' = asking \ {u}
    /\ UNCHANGED <<account, wallets, transfers, creation, sweep, job, unsettled, crashes>>

\* A plausible mistake: the age of the account is not looked at.
SweepReadAnyAge ==
    /\ sweep = {}
    /\ sweep' = {u \in Users : Here(u) /\ ~account[u].verified}
    /\ UNCHANGED <<account, wallets, transfers, creation, asking, job, unsettled, faults, crashes>>

\* The daily clean-up of users that never verified their address.
SweepRead ==
    /\ sweep = {}
    /\ sweep' = {u \in Users : Here(u) /\ ~account[u].verified /\ account[u].old}
    /\ UNCHANGED <<account, wallets, transfers, creation, asking, job, unsettled, faults, crashes>>

SweepQueue(j, u) ==
    /\ u \in sweep
    /\ Queue(j, u)
    /\ sweep' = sweep \ {u}
    /\ UNCHANGED <<account, wallets, transfers, creation, asking, unsettled, faults, crashes>>

\* The rest of the selection waits for the next day.
SweepFails ==
    /\ sweep # {} /\ Fault
    /\ sweep' = {}
    /\ UNCHANGED <<account, wallets, transfers, creation, asking, job, unsettled, crashes>>

-----------------------------------------------------------------------------
(* The deletion job.                                                        *)

\* Sockets are closed (Presence!DisconnectUser); matchmaking keeps what it has.
TakeJob(j) ==
    /\ job[j].at = "waiting"
    /\ \A k \in Jobs : job[k].at \notin Active
    /\ job' = [job EXCEPT ![j].at = "cleaning"]
    /\ UNCHANGED <<account, wallets, transfers, creation, asking, sweep, unsettled, faults, crashes>>

\* What the history notes when the wallet of u is found missing or deleted.
Settle(u) == unsettled' = IF WalletInUse(u) THEN unsettled \cup {u} ELSE unsettled \ {u}

\* A plausible mistake: a wallet that is not there is an error.
WalletReadRequired(j) ==
    /\ job[j].at = "cleaning"
    /\ IF job[j].user \in wallets
       THEN /\ job' = [job EXCEPT ![j].at = "erasing"]
            /\ UNCHANGED unsettled
       ELSE /\ job' = [job EXCEPT ![j].tries = @ + 1,
                         ![j].at = IF job[j].tries + 1 < Attempts THEN "waiting" ELSE "failed"]
            /\ UNCHANGED unsettled
    /\ UNCHANGED <<account, wallets, transfers, creation, asking, sweep, faults, crashes>>

\* deleteWallet looks for the wallet; an earlier attempt may have deleted it.
WalletRead(j) ==
    /\ job[j].at = "cleaning"
    /\ IF job[j].user \in wallets
       THEN /\ job' = [job EXCEPT ![j].at = "erasing"]
            /\ UNCHANGED unsettled
       ELSE /\ job' = [job EXCEPT ![j].at = "removing"]
            /\ Settle(job[j].user)
    /\ UNCHANGED <<account, wallets, transfers, creation, asking, sweep, faults, crashes>>

\* A plausible mistake: an error of the wallet's transaction is logged only.
WalletEraseUnchecked(j) ==
    /\ job[j].at = "erasing"
    /\ wallets' \in {wallets, wallets \ {job[j].user}}
    /\ job' = [job EXCEPT ![j].at = "removing"]
    /\ Settle(job[j].user)
    /\ UNCHANGED <<account, transfers, creation, asking, sweep, faults, crashes>>

\* The transaction of deleteWallet.
WalletErase(j) ==
    /\ job[j].at = "erasing"
    /\ wallets' = wallets \ {job[j].user}
    /\ job' = [job EXCEPT ![j].at = "removing"]
    /\ Settle(job[j].user)
    /\ UNCHANGED <<account, transfers, creation, asking, sweep, faults, crashes>>

\* The Mongo transaction, which also takes the user's notifications and friends.
RemoveUser(j) ==
    /\ job[j].at = "removing"
    /\ account' = [account EXCEPT ![job[j].user].is = "gone"]
    /\ job' = [job EXCEPT ![j].at = "finishing"]
    /\ UNCHANGED <<wallets, transfers, creation, asking, sweep, unsettled, faults, crashes>>

FinishJob(j) ==
    /\ job[j].at = "finishing"
    /\ job' = [job EXCEPT ![j].at = "completed"]
    /\ UNCHANGED <<account, wallets, transfers, creation, asking, sweep, unsettled, faults, crashes>>

\* An error is thrown to the queue, which retries the job from its start.
JobFails(j) ==
    /\ job[j].at \in Active \ {"finishing"} /\ Fault
    /\ job' = [job EXCEPT ![j].tries = @ + 1,
                          ![j].at = IF job[j].tries + 1 < Attempts THEN "waiting" ELSE "failed"]
    /\ UNCHANGED <<account, wallets, transfers, creation, asking, sweep, unsettled, crashes>>

Stalled(d) ==
    [user |-> d.user, at |-> IF d.stalls < StallsAllowed THEN "waiting" ELSE "failed",
     tries |-> d.tries, stalls |-> d.stalls + 1]

\* The process restarts.  Queues put back the jobs that were being run, unless
\* they stalled before; a clean-up that stalled selects again.
Crash ==
    /\ crashes < MaxCrashes /\ crashes' = crashes + 1
    /\ \E given \in {"queued", "lost"} :
         creation' = [u \in Users |->
             IF creation[u] \in Making THEN given
             ELSE IF creation[u] = "adding" THEN "lost" ELSE creation[u]]
    /\ job' = [j \in Jobs |-> IF job[j].at \in Active THEN Stalled(job[j]) ELSE job[j]]
    /\ transfers' = {} /\ asking' = {} /\ sweep' = {}
    /\ UNCHANGED <<account, wallets, unsettled, faults>>

Lives(u) == Register(u) \/ VerifyEmail(u) \/ Age(u) \/ InitiateDeletion(u) \/ QueueDeletionFails(u)

Funds(u) ==
    \/ AddCreation(u) \/ CreationRead(u) \/ CreationInsert(u) \/ CreationEnd(u)
    \/ CreationFails(u) \/ TransferRead(u) \/ TransferSave(u)

Deletes(j) == TakeJob(j) \/ WalletRead(j) \/ WalletErase(j) \/ RemoveUser(j) \/ FinishJob(j)

Next ==
    \/ \E u \in Users : Lives(u) \/ Funds(u)
    \/ \E j \in Jobs, u \in Users : QueueDeletion(j, u) \/ SweepQueue(j, u)
    \/ SweepRead \/ SweepFails
    \/ \E j \in Jobs : Deletes(j) \/ JobFails(j)
    \/ Crash

Spec == Init /\ [][Next]_vars

\* The worker of the deletion queue goes on; nobody has to ask for anything.
FairSpec == Spec /\ \A j \in Jobs : WF_vars(Deletes(j))

-----------------------------------------------------------------------------
\* Accounts and jobs keep their shapes, and an unused job has no user yet.
TypeOK ==
    /\ account \in [Users -> Account]
    /\ wallets \subseteq Users /\ transfers \subseteq Users
    /\ creation \in [Users -> CreationStates]
    /\ asking \subseteq Users /\ sweep \subseteq Users
    /\ job \in [Jobs -> [user: Users \cup {NoUser}, at: JobStates,
                         tries: 0..MaxFaults, stalls: 0..MaxCrashes]]
    /\ \A j \in Jobs : job[j].user = NoUser <=> job[j].at = "unused"
    /\ unsettled \subseteq Users
    /\ faults \in 0..MaxFaults /\ crashes \in 0..MaxCrashes

\* The wallet goes with its user, however often the job was retried or stalled:
\* whoever is deleted has no wallet and gets none, unless the last attempt deleted
\* the wallet while it was being created or a transfer had read it.
WalletGoesWithUser ==
    \A u \in Users :
        account[u].is = "gone" /\ u \notin unsettled => u \notin wallets /\ ~WalletInUse(u)

\* Nobody is deleted who neither asked for it nor had a day to verify the address.
OnlyDueAreDeleted ==
    \A u \in Users : account[u].is = "gone" => account[u].flagged \/ account[u].old

\* A deletion that was queued is completed in spite of two errors and a restart:
\* every step copes with what an earlier attempt has deleted.
DeletionCompletes ==
    \A u \in Users : (\E j \in Jobs : job[j].user = u) ~> account[u].is = "gone"
=============================================================================
