------------------------------- MODULE Wallet -------------------------------
(***************************************************************************)
(* The wallet service on its Postgres database.  A call is one execution   *)
(* of a WalletService method: an HTTP request or a job of a queue.  Calls  *)
(* interleave at their awaits.  deposit and withdraw read, save and record *)
(* in three separate statements; lockFunds, releaseFunds and revertGame    *)
(* are transactions that lock wallet rows (SELECT ... FOR UPDATE) and      *)
(* become visible all at once when they commit.                            *)
(***************************************************************************)
EXTENDS Integers, FiniteSets, FiniteSetsExt

CONSTANTS Calls,          \* executions of a wallet operation
          Users,          \* the owners of wallets
          Games,          \* game ids, the referenceId of wagers and payouts
          Amounts,        \* amounts of money a call may name
          WelcomeBalance, \* the balance createWallet gives (1000 in the code)
          MaxInFlight,    \* how many calls may overlap
          Kinds,          \* the operations in play
          Free,           \* the holder of a row nobody has locked
          NoRequest,      \* the request of a call not yet made
          NoGame          \* the game of a deposit or withdrawal row

AllKinds == {"createWallet", "deposit", "withdraw", "lockFunds",
             "releaseFunds", "revertGame", "deleteWallet"}

ASSUME WalletAssumption ==
    /\ Amounts \subseteq Nat
    /\ WelcomeBalance \in Nat
    /\ MaxInFlight \in Nat
    /\ Kinds \subseteq AllKinds
    /\ Free \notin Calls
    /\ NoGame \notin Games

TransactionType == {"DEPOSIT", "WITHDRAW", "WAGER", "PAYOUT", "REFUND"}
EscrowStatus == {"HELD", "RELEASED", "REFUNDED"}

\* A row of the transactions table.  <<call, of>> stands for its uuid: call
\* inserted it, and a REFUND gives back the row that the call `of` inserted.
Transaction == [call: Calls, of: Calls, user: Users, type: TransactionType,
                amount: Amounts, ref: Games \cup {NoGame}]
EscrowHold == [call: Calls, user: Users, game: Games, amount: Amounts,
               status: EscrowStatus]

Requests ==
    {r \in [kind: {"createWallet", "deleteWallet"}, user: Users]
           \cup [kind: {"deposit", "withdraw"}, user: Users, amount: Amounts]
           \cup [kind: {"lockFunds", "releaseFunds"}, user: Users,
                 amount: Amounts, game: Games]
           \cup [kind: {"revertGame"}, game: Games] : r.kind \in Kinds}

VARIABLES wallets,      \* users that have a row in the wallets table
          balance,      \* the committed balance of each wallet
          transactions, \* the committed rows of the transactions table
          escrows,      \* the committed rows of the escrow_holds table
          erased,       \* users whose wallet was deleted
          holder,       \* the call that has locked the user's wallet row
          pc,           \* the await each call has reached
          request,      \* what each call was asked to do
          work          \* what each call has read and not yet committed

tables == <<wallets, balance, transactions, escrows, erased>>
vars == <<wallets, balance, transactions, escrows, erased,
          holder, pc, request, work>>

\* seen: balances read; todo: rows revertGame still has to give back;
\* draft and written: its REFUND rows and balances, visible on commit.
Fresh == [seen |-> [u \in Users |-> 0], todo |-> {}, draft |-> {},
          written |-> [u \in Users |-> 0]]

Over == {"done", "failed", "lost"}
InFlight == {p \in Calls : pc[p] \notin Over \cup {"idle"}}

At(p, label, kinds) == pc[p] = label /\ request[p].kind \in kinds

\* A plausible mistake: the transaction is never released.
EndKeepingLocks(p, outcome) ==
    /\ pc' = [pc EXCEPT ![p] = outcome]
    /\ work' = [work EXCEPT ![p] = Fresh]
    /\ UNCHANGED <<holder, request>>

\* The call returns or throws: its transaction is over and frees its rows.
End(p, outcome) ==
    /\ pc' = [pc EXCEPT ![p] = outcome]
    /\ work' = [work EXCEPT ![p] = Fresh]
    /\ holder' = [u \in Users |-> IF holder[u] = p THEN Free ELSE holder[u]]
    /\ UNCHANGED request

SeeBalance(p, u) == [work EXCEPT ![p].seen[u] = balance[u]]

Row(p, type, ref) ==
    [call |-> p, of |-> p, user |-> request[p].user, type |-> type,
     amount |-> request[p].amount, ref |-> ref]

SetStatus(g, status) ==
    {IF e.game = g THEN [e EXCEPT !.status = status] ELSE e : e \in escrows}

Init ==
    /\ wallets \in SUBSET Users
    /\ balance = [u \in Users |-> IF u \in wallets THEN WelcomeBalance ELSE 0]
    /\ transactions = {}
    /\ escrows = {}
    /\ erased = {}
    /\ holder = [u \in Users |-> Free]
    /\ pc = [p \in Calls |-> "idle"]
    /\ request = [p \in Calls |-> NoRequest]
    /\ work = [p \in Calls |-> Fresh]

-----------------------------------------------------------------------------
\* A user id is a fresh Mongo id, so a deleted wallet is never created again,
\* and an account is not deleted while its CREATE_WALLET job runs.
Sensible(r) ==
    /\ r.kind = "createWallet" => r.user \notin erased
    /\ r.kind = "deleteWallet" =>
         \A q \in InFlight : request[q] # [kind |-> "createWallet", user |-> r.user]

Receive(p) ==
    /\ pc[p] = "idle"
    /\ Cardinality(InFlight) < MaxInFlight
    /\ \E r \in Requests :
         /\ Sensible(r)
         /\ request' = [request EXCEPT ![p] = r]
    /\ pc' = [pc EXCEPT ![p] = "start"]
    /\ UNCHANGED <<tables, holder, work>>

\* The method throws before it has changed anything: there is no wallet, or
\* too little in it.
Refuse(p) ==
    /\ At(p, "start", {"deposit", "withdraw", "lockFunds", "releaseFunds"})
    /\ LET u == request[p].user
       IN  \/ u \notin wallets
           \/ /\ request[p].kind = "withdraw"
              /\ balance[u] < request[p].amount
           \/ /\ request[p].kind = "lockFunds"
              /\ holder[u] = Free
              /\ balance[u] < request[p].amount
    /\ End(p, "failed")
    /\ UNCHANGED tables

-----------------------------------------------------------------------------
\* createWallet: a check and, after an await, an insert that the unique
\* user id refuses if another call was faster.
CreateRead(p) ==
    /\ At(p, "start", {"createWallet"})
    /\ IF request[p].user \in wallets
       THEN End(p, "done")
       ELSE /\ pc' = [pc EXCEPT ![p] = "insert"]
            /\ UNCHANGED <<holder, request, work>>
    /\ UNCHANGED tables

CreateInsert(p) ==
    /\ At(p, "insert", {"createWallet"})
    /\ LET u == request[p].user
       IN  IF u \in wallets
           THEN End(p, "failed") /\ UNCHANGED <<wallets, balance>>
           ELSE /\ wallets' = wallets \cup {u}
                /\ balance' = [balance EXCEPT ![u] = WelcomeBalance]
                /\ End(p, "done")
    /\ UNCHANGED <<transactions, escrows, erased>>

-----------------------------------------------------------------------------
\* deposit and withdraw: findOne, then save of the balance computed from it,
\* then save of the row.  No transaction spans them and no lock is taken.
TransferReadUnchecked(p) == \* a plausible mistake: no look at the funds
    /\ At(p, "start", {"deposit", "withdraw"})
    /\ request[p].user \in wallets
    /\ work' = SeeBalance(p, request[p].user)
    /\ pc' = [pc EXCEPT ![p] = "save"]
    /\ UNCHANGED <<tables, holder, request>>

TransferRead(p) ==
    /\ At(p, "start", {"deposit", "withdraw"})
    /\ LET u == request[p].user
       IN  /\ u \in wallets
           /\ request[p].kind = "withdraw" => balance[u] >= request[p].amount
           /\ work' = SeeBalance(p, u)
    /\ pc' = [pc EXCEPT ![p] = "save"]
    /\ UNCHANGED <<tables, holder, request>>

NewBalance(p) ==
    LET seen == work[p].seen[request[p].user]
    IN  IF request[p].kind \in {"deposit", "releaseFunds"}
        THEN seen + request[p].amount
        ELSE seen - request[p].amount

\* The UPDATE waits for a lock on the row, and is not sent when the row
\* already holds the value.  Of a wallet deleted since the read, the save
\* either updates no row or inserts the wallet again.
TransferSave(p) ==
    /\ At(p, "save", {"deposit", "withdraw"})
    /\ LET u == request[p].user
       IN  \/ /\ u \in wallets
              /\ holder[u] = Free \/ balance[u] = NewBalance(p)
              /\ balance' = [balance EXCEPT ![u] = NewBalance(p)]
              /\ UNCHANGED wallets
           \/ /\ u \notin wallets
              /\ wallets' = wallets \cup {u}
              /\ balance' = [balance EXCEPT ![u] = NewBalance(p)]
           \/ /\ u \notin wallets
              /\ UNCHANGED <<wallets, balance>>
    /\ pc' = [pc EXCEPT ![p] = "record"]
    /\ UNCHANGED <<transactions, escrows, erased, holder, request, work>>

\* The row's foreign key needs the wallet, and waits for a lock on it.
TransferRecord(p) ==
    /\ At(p, "record", {"deposit", "withdraw"})
    /\ LET u == request[p].user
           type == IF request[p].kind = "deposit" THEN "DEPOSIT" ELSE "WITHDRAW"
       IN  IF u \in wallets
           THEN /\ holder[u] = Free
                /\ transactions' = transactions \cup {Row(p, type, NoGame)}
                /\ End(p, "done")
           ELSE End(p, "failed") /\ UNCHANGED transactions
    /\ UNCHANGED <<wallets, balance, escrows, erased>>

-----------------------------------------------------------------------------
\* lockFunds and releaseFunds: one transaction around a locked read.
LockedReadShared(p) == \* a plausible mistake: the lock does not exclude
    /\ At(p, "start", {"lockFunds", "releaseFunds"})
    /\ LET u == request[p].user
       IN  /\ u \in wallets
           /\ request[p].kind = "lockFunds" => balance[u] >= request[p].amount
           /\ holder' = [holder EXCEPT ![u] = p]
           /\ work' = SeeBalance(p, u)
    /\ pc' = [pc EXCEPT ![p] = "locked"]
    /\ UNCHANGED <<tables, request>>

LockedRead(p) ==
    /\ At(p, "start", {"lockFunds", "releaseFunds"})
    /\ LET u == request[p].user
       IN  /\ u \in wallets
           /\ holder[u] = Free
           /\ request[p].kind = "lockFunds" => balance[u] >= request[p].amount
           /\ holder' = [holder EXCEPT ![u] = p]
           /\ work' = SeeBalance(p, u)
    /\ pc' = [pc EXCEPT ![p] = "locked"]
    /\ UNCHANGED <<tables, request>>

LockFundsCommit(p) ==
    /\ At(p, "locked", {"lockFunds"})
    /\ LET r == request[p]
       IN  /\ balance' = [balance EXCEPT ![r.user] = NewBalance(p)]
           /\ transactions' = transactions \cup {Row(p, "WAGER", r.game)}
           /\ escrows' = escrows \cup
                {[call |-> p, user |-> r.user, game |-> r.game,
                  amount |-> r.amount, status |-> "HELD"]}
    /\ End(p, "done")
    /\ UNCHANGED <<wallets, erased>>

\* Every hold of the game is released, whatever its status.
ReleaseFundsCommit(p) ==
    /\ At(p, "locked", {"releaseFunds"})
    /\ LET r == request[p]
       IN  /\ balance' = [balance EXCEPT ![r.user] = NewBalance(p)]
           /\ transactions' = transactions \cup {Row(p, "PAYOUT", r.game)}
           /\ escrows' = SetStatus(r.game, "RELEASED")
    /\ End(p, "done")
    /\ UNCHANGED <<wallets, erased>>

-----------------------------------------------------------------------------
\* revertGame: reads the game's rows, each joined with its wallet, before it
\* locks anything; the balances it computes with are those of that read.
RevertReadPayouts(p) == \* a plausible mistake: only payouts are given back
    /\ At(p, "start", {"revertGame"})
    /\ LET rows == {t \in transactions : t.ref = request[p].game}
       IN  IF rows = {}
           THEN End(p, "done")
           ELSE /\ work' = [work EXCEPT
                     ![p].seen = balance,
                     ![p].todo = {t \in rows : t.type = "PAYOUT"}]
                /\ pc' = [pc EXCEPT ![p] = "refund"]
                /\ UNCHANGED <<holder, request>>
    /\ UNCHANGED tables

RevertRead(p) ==
    /\ At(p, "start", {"revertGame"})
    /\ LET rows == {t \in transactions : t.ref = request[p].game}
       IN  IF rows = {}
           THEN End(p, "done")
           ELSE /\ work' = [work EXCEPT
                     ![p].seen = balance,
                     ![p].todo = {t \in rows : t.type \in {"WAGER", "PAYOUT"}}]
                /\ pc' = [pc EXCEPT ![p] = "refund"]
                /\ UNCHANGED <<holder, request>>
    /\ UNCHANGED tables

GivenBackTwice(p, t) == \* a plausible mistake: a payout is paid again
    work[p].seen[t.user] + t.amount

GivenBack(p, t) ==
    IF t.type = "WAGER" THEN work[p].seen[t.user] + t.amount
                        ELSE work[p].seen[t.user] - t.amount

\* One turn of the loop, in whatever order the rows were returned.  The
\* locked findOne is only for its lock: the balance it returns is ignored.
RevertRow(p) ==
    /\ At(p, "refund", {"revertGame"})
    /\ \E t \in work[p].todo :
         /\ t.user \in wallets
         /\ holder[t.user] \in {Free, p}
         /\ holder' = [holder EXCEPT ![t.user] = p]
         /\ work' = [work EXCEPT
              ![p].todo = @ \ {t},
              ![p].draft = @ \cup {[t EXCEPT !.call = p, !.type = "REFUND"]},
              ![p].written[t.user] = GivenBack(p, t)]
    /\ UNCHANGED <<tables, pc, request>>

\* The wallet was deleted since: the REFUND row has no wallet to refer to.
RevertOrphan(p) ==
    /\ At(p, "refund", {"revertGame"})
    /\ \E t \in work[p].todo : t.user \notin wallets
    /\ End(p, "failed")
    /\ UNCHANGED tables

RevertCommit(p) ==
    /\ At(p, "refund", {"revertGame"})
    /\ work[p].todo = {}
    /\ balance' = [u \in Users |->
         IF holder[u] = p THEN work[p].written[u] ELSE balance[u]]
    /\ transactions' = transactions \cup work[p].draft
    /\ escrows' = SetStatus(request[p].game, "REFUNDED")
    /\ End(p, "done")
    /\ UNCHANGED <<wallets, erased>>

-----------------------------------------------------------------------------
\* deleteWallet: a read, then one transaction that deletes the user's rows.
DeleteRead(p) ==
    /\ At(p, "start", {"deleteWallet"})
    /\ IF request[p].user \notin wallets
       THEN End(p, "done")
       ELSE /\ pc' = [pc EXCEPT ![p] = "erase"]
            /\ UNCHANGED <<holder, request, work>>
    /\ UNCHANGED tables

\* A plausible mistake: the holds of the user are forgotten.
DeleteEraseKeepingHolds(p) ==
    /\ At(p, "erase", {"deleteWallet"})
    /\ LET u == request[p].user
       IN  /\ holder[u] = Free
           /\ wallets' = wallets \ {u}
           /\ balance' = [balance EXCEPT ![u] = 0]
           /\ transactions' = {t \in transactions : t.user # u}
           /\ erased' = erased \cup {u}
    /\ End(p, "done")
    /\ UNCHANGED escrows

\* A row inserted between its DELETEs makes the last one violate the foreign
\* key; then it rolls back, which is Abort.
DeleteErase(p) ==
    /\ At(p, "erase", {"deleteWallet"})
    /\ LET u == request[p].user
       IN  /\ holder[u] = Free
           /\ wallets' = wallets \ {u}
           /\ balance' = [balance EXCEPT ![u] = 0]
           /\ transactions' = {t \in transactions : t.user # u}
           /\ escrows' = {e \in escrows : e.user # u}
           /\ erased' = erased \cup {u}
    /\ End(p, "done")

-----------------------------------------------------------------------------
\* The process dies, or a statement fails and the transaction rolls back.
\* What deposit and withdraw saved before stays, without its row.
Abort(p) ==
    /\ p \in InFlight
    /\ End(p, IF pc[p] = "record" THEN "lost" ELSE "failed")
    /\ UNCHANGED tables

\* revertGame is the only transaction that waits for a row while it holds
\* others; Postgres aborts one of a cycle of transactions that wait.
WaitsFor(p, q) ==
    /\ At(p, "refund", {"revertGame"})
    /\ work[p].todo # {}
    /\ \A t \in work[p].todo : t.user \in wallets /\ holder[t.user] \notin {Free, p}
    /\ \E t \in work[p].todo : holder[t.user] = q

DeadlockVictim(p) ==
    /\ \E C \in SUBSET InFlight :
         p \in C /\ \A c \in C : \E d \in C : WaitsFor(c, d)
    /\ End(p, "failed")
    /\ UNCHANGED tables

Step(p) ==
    \/ Refuse(p)
    \/ CreateRead(p) \/ CreateInsert(p)
    \/ TransferRead(p) \/ TransferSave(p) \/ TransferRecord(p)
    \/ LockedRead(p) \/ LockFundsCommit(p) \/ ReleaseFundsCommit(p)
    \/ RevertRead(p) \/ RevertRow(p) \/ RevertOrphan(p) \/ RevertCommit(p)
    \/ DeleteRead(p) \/ DeleteErase(p)
    \/ DeadlockVictim(p)

Next == \E p \in Calls : Receive(p) \/ Step(p) \/ Abort(p)

Spec == Init /\ [][Next]_vars

\* The runtime resumes a call whose await is over, and Postgres breaks
\* deadlocks; that calls are made or die is not promised.
FairSpec == Spec /\ \A p \in Calls : WF_vars(Step(p))
-----------------------------------------------------------------------------
Work == [seen: [Users -> Int], todo: SUBSET Transaction,
         draft: SUBSET Transaction, written: [Users -> Int]]

\* The tables, locks and calls keep their shapes.
TypeOK ==
    /\ wallets \subseteq Users
    /\ balance \in [Users -> Int]
    /\ transactions \subseteq Transaction
    /\ escrows \subseteq EscrowHold
    /\ erased \subseteq Users
    /\ holder \in [Users -> Calls \cup {Free}]
    /\ pc \in [Calls -> {"idle", "start", "insert", "save", "record", "locked",
                         "refund", "erase"} \cup Over]
    /\ request \in [Calls -> Requests \cup {NoRequest}]
    /\ \A p \in Calls : pc[p] # "idle" => request[p] \in Requests
    /\ work \in [Calls -> Work]

\* No lost update under a lock: from the SELECT ... FOR UPDATE of lockFunds
\* and releaseFunds to their commit the balance they computed with is still
\* the wallet's, whatever deposits, reverts and deletions do meanwhile.
LockedReadIsCurrent ==
    \A p \in Calls : pc[p] = "locked" =>
        LET u == request[p].user
        IN  /\ u \in wallets
            /\ holder[u] = p
            /\ balance[u] = work[p].seen[u]

\* No call spends money that was not there: the funds checks of withdraw and
\* lockFunds keep every balance at zero or more, even where a stale save
\* overwrites it.  Only taking back a payout (revertGame) may overdraw.
NeverOverdrawn == \A u \in Users : balance[u] >= 0

\* Each stake taken from a wallet has its own hold and each hold its stake,
\* however lockFunds overlaps with deletions, settlements and other locks.
StakesAreHeld ==
    /\ \A t \in transactions : t.type = "WAGER" =>
         \E e \in escrows : /\ e.call = t.call /\ e.user = t.user
                            /\ e.game = t.ref /\ e.amount = t.amount
    /\ \A e \in escrows : \E t \in transactions :
         t.type = "WAGER" /\ t.call = e.call /\ t.user = e.user

\* What a row did to the balance of its wallet; the type of a REFUND row does
\* not say, the row it gives back does.
Effect(t) ==
    LET payout == \E s \in transactions : s.call = t.of /\ s.type = "PAYOUT"
    IN  IF \/ t.type \in {"DEPOSIT", "PAYOUT"}
           \/ t.type = "REFUND" /\ ~payout
        THEN t.amount ELSE -t.amount

\* Calls that saved a balance and have not inserted, or will never insert,
\* the row that explains it.
Unrecorded(u) == {p \in Calls : pc[p] \in {"record", "lost"} /\ request[p].user = u}

Moved(p) == IF request[p].kind = "deposit" THEN request[p].amount
                                           ELSE -request[p].amount

\* revertGame writes from one read of the wallet for each of its rows, so a
\* second row of the wallet in the game makes it lose one of the two.
RevertedTwoRows(u) ==
    \E s, t \in transactions :
        /\ s.user = u /\ t.user = u /\ s.ref = t.ref /\ s # t
        /\ {s.type, t.type} \subseteq {"WAGER", "PAYOUT"}
        /\ \E r \in transactions : r.type = "REFUND" /\ r.of = s.call

\* A balance is the welcome balance and the effects of the wallet's rows, up
\* to the saves whose row is missing: nothing else moves money.
LedgerExplainsBalance ==
    \A u \in wallets : ~RevertedTwoRows(u) =>
        balance[u] = WelcomeBalance
            + MapThenSumSet(Effect, {t \in transactions : t.user = u})
            + MapThenSumSet(Moved, Unrecorded(u))

\* A hold that a revert has closed was paid back: its stake has a REFUND row.
RefundedIsRepaid ==
    \A e \in escrows : e.status = "REFUNDED" =>
        \E t \in transactions : t.type = "REFUND" /\ t.of = e.call

\* Every call that was made returns or throws: no order of locks, deadlock,
\* refusal or crash leaves one waiting for a row forever.
EveryCallEnds == \A p \in Calls : pc[p] = "start" ~> pc[p] \in Over
=============================================================================
