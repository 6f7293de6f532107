---------------------------- MODULE PaymentsProofs ----------------------------
(***************************************************************************)
(* Theorems about Wallet and about Payments, which extends it: for any     *)
(* number of calls, users, games and amounts, and for any number of        *)
(* payments, deliveries, restarts and errors.                              *)
(***************************************************************************)
EXTENDS Payments, FiniteSetTheorems, TLAPS

\* The fields a request has, by the operation it asks for.
LEMMA RequestFields ==
    ASSUME NEW r \in Requests
    PROVE  /\ r.kind \in Kinds
           /\ r.kind # "revertGame" => r.user \in Users
           /\ r.kind \in {"deposit", "withdraw", "lockFunds", "releaseFunds"}
                => r.amount \in Amounts
           /\ r.kind \in {"lockFunds", "releaseFunds", "revertGame"}
                => r.game \in Games
  BY DEF Requests

\* Amounts are natural numbers, said of each for the provers.
LEMMA Money == \A x \in Amounts : x \in Int /\ x >= 0
  BY WalletAssumption

LEMMA FreshType == Fresh \in Work
  BY DEF Fresh, Work

\* The end of a call keeps the types of the calls and of the locks.
LEMMA EndType ==
    ASSUME TypeOK, NEW p \in Calls, p \in InFlight, NEW outcome \in Over,
           End(p, outcome)
    PROVE  /\ holder' \in [Users -> Calls \cup {Free}]
           /\ pc' \in [Calls -> {"idle", "start", "insert", "save", "record",
                                 "locked", "refund", "erase"} \cup Over]
           /\ request' \in [Calls -> Requests \cup {NoRequest}]
           /\ \A q \in Calls : pc'[q] # "idle" => request'[q] \in Requests
           /\ work' \in [Calls -> Work]
  BY FreshType DEF TypeOK, End, InFlight, Over

LEMMA StatusType ==
    ASSUME TypeOK, NEW g, NEW status \in EscrowStatus
    PROVE  SetStatus(g, status) \subseteq EscrowHold
  BY DEF TypeOK, SetStatus, EscrowHold

\* A call whose balance field is read has an integer to write.
LEMMA NewBalanceType ==
    ASSUME TypeOK, NEW p \in Calls, pc[p] # "idle",
           request[p].kind \in {"deposit", "withdraw", "lockFunds", "releaseFunds"}
    PROVE  NewBalance(p) \in Int
  <1>1. request[p] \in Requests
    BY DEF TypeOK
  <1>2. request[p].user \in Users /\ request[p].amount \in Amounts
    BY <1>1, RequestFields
  <1>3. work[p].seen[request[p].user] \in Int
    BY <1>2 DEF TypeOK, Work
  <1>4. request[p].amount \in Int
    BY <1>2, Money
  <1> QED BY <1>3, <1>4 DEF NewBalance

\* The row a deposit, withdrawal, wager or payout inserts.
LEMMA RowType ==
    ASSUME TypeOK, NEW p \in Calls, pc[p] # "idle",
           request[p].kind \in {"deposit", "withdraw", "lockFunds", "releaseFunds"},
           NEW type \in TransactionType, NEW ref \in Games \cup {NoGame}
    PROVE  Row(p, type, ref) \in Transaction
  <1>1. request[p] \in Requests
    BY DEF TypeOK
  <1>2. request[p].user \in Users /\ request[p].amount \in Amounts
    BY <1>1, RequestFields
  <1> QED BY <1>2 DEF Row, Transaction

-----------------------------------------------------------------------------
LEMMA InitTypeOK == Init => TypeOK
  <1> SUFFICES ASSUME Init PROVE TypeOK
    OBVIOUS
  <1>1. work \in [Calls -> Work]
    BY FreshType DEF Init
  <1>2. balance \in [Users -> Int]
    BY WalletAssumption DEF Init
  <1> QED BY <1>1, <1>2 DEF Init, TypeOK, Over

LEMMA StepTypeOK ==
    ASSUME TypeOK, NEW p \in Calls, Receive(p) \/ Step(p) \/ Abort(p)
    PROVE  TypeOK'
  <1>1. ASSUME Receive(p) PROVE TypeOK'
    BY <1>1 DEF TypeOK, Receive, tables
  <1> DEFINE Ended == \E outcome \in Over : p \in InFlight /\ End(p, outcome)
  <1>2. ASSUME Ended, UNCHANGED tables PROVE TypeOK'
    BY <1>2, EndType DEF TypeOK, tables
  <1>3. ASSUME Abort(p) PROVE TypeOK'
    BY <1>2, <1>3 DEF Abort, Over
  <1>4. ASSUME Refuse(p) PROVE TypeOK'
    <2>1. Ended
      BY <1>4 DEF Refuse, At, InFlight, Over
    <2> QED BY <1>2, <1>4, <2>1 DEF Refuse
  <1>5. ASSUME CreateRead(p) PROVE TypeOK'
    <2>1. CASE End(p, "done")
      <3>1. Ended
        BY <1>5, <2>1 DEF CreateRead, At, InFlight, Over
      <3> QED BY <1>2, <1>5, <3>1 DEF CreateRead
    <2>2. CASE ~End(p, "done")
      BY <1>5, <2>2 DEF CreateRead, TypeOK, tables, At
    <2> QED BY <2>1, <2>2
  <1>6. ASSUME CreateInsert(p) PROVE TypeOK'
    <2>1. Ended
      BY <1>6 DEF CreateInsert, At, InFlight, Over
    <2>2. request[p].user \in Users
      BY <1>6, RequestFields DEF CreateInsert, At, TypeOK
    <2>3. wallets' \subseteq Users /\ balance' \in [Users -> Int]
      BY <1>6, <2>2, WalletAssumption DEF CreateInsert, TypeOK
    <2> QED BY <1>6, <2>1, <2>3, EndType DEF CreateInsert, TypeOK
  <1>7. ASSUME TransferRead(p) PROVE TypeOK'
    <2>1. request[p].user \in Users
      BY <1>7, RequestFields DEF TransferRead, At, TypeOK
    <2>2. work' \in [Calls -> Work]
      BY <1>7, <2>1 DEF TransferRead, SeeBalance, TypeOK, Work
    <2> QED BY <1>7, <2>2 DEF TransferRead, TypeOK, tables, At
  <1>8. ASSUME TransferSave(p) PROVE TypeOK'
    <2>1. request[p].user \in Users
      BY <1>8, RequestFields DEF TransferSave, At, TypeOK
    <2>2. NewBalance(p) \in Int
      BY <1>8, NewBalanceType DEF TransferSave, At
    <2>3. wallets' \subseteq Users /\ balance' \in [Users -> Int]
      BY <1>8, <2>1, <2>2 DEF TransferSave, TypeOK
    <2> QED BY <1>8, <2>3 DEF TransferSave, TypeOK, At
  <1>9. ASSUME TransferRecord(p) PROVE TypeOK'
    <2>1. Ended
      BY <1>9 DEF TransferRecord, At, InFlight, Over
    <2>2. pc[p] # "idle" /\ request[p].kind \in {"deposit", "withdraw"}
      BY <1>9 DEF TransferRecord, At
    <2>3. \A type \in TransactionType : Row(p, type, NoGame) \in Transaction
      BY <2>2, RowType
    <2>4. transactions' \subseteq Transaction
      BY <1>9, <2>3 DEF TransferRecord, TypeOK, TransactionType
    <2> QED BY <1>9, <2>1, <2>4, EndType DEF TransferRecord, TypeOK
  <1>10. ASSUME LockedRead(p) PROVE TypeOK'
    <2>1. request[p].user \in Users
      BY <1>10, RequestFields DEF LockedRead, At, TypeOK
    <2>2. work' \in [Calls -> Work]
      BY <1>10, <2>1 DEF LockedRead, SeeBalance, TypeOK, Work
    <2>3. holder' \in [Users -> Calls \cup {Free}]
      BY <1>10, <2>1 DEF LockedRead, TypeOK
    <2> QED BY <1>10, <2>2, <2>3 DEF LockedRead, TypeOK, tables, At
  <1>11. ASSUME LockFundsCommit(p) PROVE TypeOK'
    <2>1. Ended
      BY <1>11 DEF LockFundsCommit, At, InFlight, Over
    <2>2. pc[p] # "idle" /\ request[p].kind = "lockFunds" /\ request[p] \in Requests
      BY <1>11 DEF LockFundsCommit, At, TypeOK
    <2>3. /\ request[p].user \in Users
          /\ request[p].amount \in Amounts
          /\ request[p].game \in Games
      BY <2>2, RequestFields
    <2>4. NewBalance(p) \in Int /\ Row(p, "WAGER", request[p].game) \in Transaction
      BY <2>2, <2>3, NewBalanceType, RowType DEF TransactionType
    <2>5. balance' \in [Users -> Int] /\ transactions' \subseteq Transaction
      BY <1>11, <2>3, <2>4 DEF LockFundsCommit, TypeOK
    <2>6. escrows' \subseteq EscrowHold
      BY <1>11, <2>3 DEF LockFundsCommit, TypeOK, EscrowHold, EscrowStatus
    <2> QED BY <1>11, <2>1, <2>5, <2>6, EndType DEF LockFundsCommit, TypeOK
  <1>12. ASSUME ReleaseFundsCommit(p) PROVE TypeOK'
    <2>1. Ended
      BY <1>12 DEF ReleaseFundsCommit, At, InFlight, Over
    <2>2. pc[p] # "idle" /\ request[p].kind = "releaseFunds" /\ request[p] \in Requests
      BY <1>12 DEF ReleaseFundsCommit, At, TypeOK
    <2>3. request[p].user \in Users /\ request[p].game \in Games
      BY <2>2, RequestFields
    <2>4. NewBalance(p) \in Int /\ Row(p, "PAYOUT", request[p].game) \in Transaction
      BY <2>2, <2>3, NewBalanceType, RowType DEF TransactionType
    <2>5. balance' \in [Users -> Int] /\ transactions' \subseteq Transaction
      BY <1>12, <2>3, <2>4 DEF ReleaseFundsCommit, TypeOK
    <2>6. escrows' \subseteq EscrowHold
      BY <1>12, StatusType DEF ReleaseFundsCommit, EscrowStatus
    <2> QED BY <1>12, <2>1, <2>5, <2>6, EndType DEF ReleaseFundsCommit, TypeOK
  <1>13. ASSUME RevertRead(p) PROVE TypeOK'
    <2>1. CASE End(p, "done")
      <3>1. Ended
        BY <1>13, <2>1 DEF RevertRead, At, InFlight, Over
      <3> QED BY <1>2, <1>13, <3>1 DEF RevertRead
    <2>2. CASE ~End(p, "done")
      <3>1. PICK todo \in SUBSET transactions :
              work' = [work EXCEPT ![p].seen = balance, ![p].todo = todo]
        BY <1>13, <2>2 DEF RevertRead
      <3>2. work' \in [Calls -> Work]
        BY <3>1 DEF TypeOK, Work
      <3> QED BY <1>13, <2>2, <3>2 DEF RevertRead, TypeOK, tables, At
    <2> QED BY <2>1, <2>2
  <1>14. ASSUME RevertRow(p) PROVE TypeOK'
    <2>1. PICK t \in work[p].todo :
            /\ holder' = [holder EXCEPT ![t.user] = p]
            /\ work' = [work EXCEPT
                 ![p].todo = @ \ {t},
                 ![p].draft = @ \cup {[t EXCEPT !.call = p, !.type = "REFUND"]},
                 ![p].written[t.user] = GivenBack(p, t)]
      BY <1>14 DEF RevertRow
    <2>2. t \in Transaction /\ work[p] \in Work
      BY DEF TypeOK, Work
    <2>3. t.user \in Users /\ t.amount \in Int
      BY <2>2, Money DEF Transaction
    <2>4. GivenBack(p, t) \in Int
      BY <2>2, <2>3 DEF GivenBack, Work
    <2>5. [t EXCEPT !.call = p, !.type = "REFUND"] \in Transaction
      BY <2>2 DEF Transaction, TransactionType
    <2>6. work' \in [Calls -> Work]
      BY <2>1, <2>2, <2>3, <2>4, <2>5 DEF TypeOK, Work
    <2>7. holder' \in [Users -> Calls \cup {Free}]
      BY <2>1, <2>3 DEF TypeOK
    <2> QED BY <1>14, <2>6, <2>7 DEF RevertRow, TypeOK, tables
  <1>15. ASSUME RevertOrphan(p) PROVE TypeOK'
    <2>1. Ended
      BY <1>15 DEF RevertOrphan, At, InFlight, Over
    <2> QED BY <1>2, <1>15, <2>1 DEF RevertOrphan
  <1>16. ASSUME RevertCommit(p) PROVE TypeOK'
    <2>1. Ended
      BY <1>16 DEF RevertCommit, At, InFlight, Over
    <2>2. balance' \in [Users -> Int] /\ transactions' \subseteq Transaction
      BY <1>16 DEF RevertCommit, TypeOK, Work
    <2>3. escrows' \subseteq EscrowHold
      BY <1>16, StatusType DEF RevertCommit, EscrowStatus
    <2> QED BY <1>16, <2>1, <2>2, <2>3, EndType DEF RevertCommit, TypeOK
  <1>17. ASSUME DeleteRead(p) PROVE TypeOK'
    <2>1. CASE End(p, "done")
      <3>1. Ended
        BY <1>17, <2>1 DEF DeleteRead, At, InFlight, Over
      <3> QED BY <1>2, <1>17, <3>1 DEF DeleteRead
    <2>2. CASE ~End(p, "done")
      BY <1>17, <2>2 DEF DeleteRead, TypeOK, tables, At
    <2> QED BY <2>1, <2>2
  <1>18. ASSUME DeleteErase(p) PROVE TypeOK'
    <2>1. Ended
      BY <1>18 DEF DeleteErase, At, InFlight, Over
    <2>2. request[p].user \in Users
      BY <1>18, RequestFields DEF DeleteErase, At, TypeOK
    <2>3. /\ wallets' \subseteq Users
          /\ balance' \in [Users -> Int]
          /\ transactions' \subseteq Transaction
          /\ escrows' \subseteq EscrowHold
          /\ erased' \subseteq Users
      BY <1>18, <2>2 DEF DeleteErase, TypeOK
    <2> QED BY <2>1, <2>3, EndType DEF TypeOK
  <1>19. ASSUME DeadlockVictim(p) PROVE TypeOK'
    BY <1>2, <1>19 DEF DeadlockVictim, Over
  <1> QED BY <1>1, <1>3, <1>4, <1>5, <1>6, <1>7, <1>8, <1>9, <1>10, <1>11, <1>12,
             <1>13, <1>14, <1>15, <1>16, <1>17, <1>18, <1>19 DEF Step

\* The tables, locks and calls keep their shapes, whatever overlaps.
THEOREM WalletTypeOK == Spec => []TypeOK
  <1>1. ASSUME TypeOK, [Next]_vars PROVE TypeOK'
    <2>1. CASE Next
      BY <1>1, <2>1, StepTypeOK DEF Next
    <2>2. CASE UNCHANGED vars
      BY <1>1, <2>2 DEF vars, TypeOK
    <2> QED BY <1>1, <2>1, <2>2
  <1> QED BY <1>1, InitTypeOK, PTL DEF Spec

-----------------------------------------------------------------------------
\* The invariant behind LockedReadIsCurrent: only calls that lock a row for
\* the whole of their transaction are ever at "locked".
LockInv ==
    /\ TypeOK
    /\ LockedReadIsCurrent
    /\ \A p \in Calls : pc[p] = "locked" =>
         request[p].kind \in {"lockFunds", "releaseFunds"}

\* A row that q has locked is not touched by any step of another call.
LEMMA LockRespected ==
    ASSUME LockInv, NEW p \in Calls, NEW q \in Calls, p # q, pc[q] = "locked",
           Receive(p) \/ Step(p) \/ Abort(p)
    PROVE  /\ pc'[q] = "locked"
           /\ request'[q] = request[q]
           /\ work'[q] = work[q]
           /\ request[q].user \in wallets'
           /\ holder'[request[q].user] = q
           /\ balance'[request[q].user] = balance[request[q].user]
  <1> DEFINE u == request[q].user
             Kept == /\ pc'[q] = "locked"
                     /\ request'[q] = request[q]
                     /\ work'[q] = work[q]
             RowKept == /\ u \in wallets'
                        /\ holder'[u] = q
                        /\ balance'[u] = balance[u]
  <1>1. u \in Users /\ u \in wallets /\ holder[u] = q /\ q # Free
    BY RequestFields, WalletAssumption DEF LockInv, TypeOK, LockedReadIsCurrent
  <1>2. ASSUME NEW outcome \in Over, End(p, outcome)
        PROVE  Kept /\ holder'[u] = q
    BY <1>1, <1>2 DEF End, LockInv, TypeOK
  <1>3. ASSUME NEW outcome \in Over, End(p, outcome), UNCHANGED tables
        PROVE  Kept /\ RowKept
    BY <1>1, <1>2, <1>3 DEF tables
  <1>4. CASE Receive(p)
    BY <1>1, <1>4 DEF Receive, tables, LockInv, TypeOK
  <1>5. CASE Refuse(p) \/ Abort(p) \/ RevertOrphan(p) \/ DeadlockVictim(p)
    BY <1>3, <1>5 DEF Refuse, Abort, RevertOrphan, DeadlockVictim, Over
  <1>6. CASE CreateRead(p) \/ RevertRead(p) \/ DeleteRead(p)
    <2>1. CASE End(p, "done")
      BY <1>3, <1>6, <2>1 DEF CreateRead, RevertRead, DeleteRead, Over
    <2>2. CASE ~End(p, "done")
      BY <1>1, <1>6, <2>2
         DEF CreateRead, RevertRead, DeleteRead, tables, LockInv, TypeOK
    <2> QED BY <2>1, <2>2
  <1>7. CASE CreateInsert(p)
    BY <1>1, <1>2, <1>7 DEF CreateInsert, Over, LockInv, TypeOK
  <1>8. CASE TransferRead(p)
    BY <1>1, <1>8 DEF TransferRead, SeeBalance, tables, LockInv, TypeOK
  <1>9. CASE TransferSave(p)
    BY <1>1, <1>9 DEF TransferSave, LockInv, TypeOK
  <1>10. CASE TransferRecord(p)
    BY <1>1, <1>2, <1>10 DEF TransferRecord, Over
  <1>11. CASE LockedRead(p)
    BY <1>1, <1>11 DEF LockedRead, SeeBalance, tables, LockInv, TypeOK
  <1>12. CASE LockFundsCommit(p) \/ ReleaseFundsCommit(p)
    <2>1. request[p].user # u
      BY <1>1, <1>12
         DEF LockFundsCommit, ReleaseFundsCommit, At, LockInv, LockedReadIsCurrent
    <2>2. \E outcome \in Over : End(p, outcome)
      BY <1>12 DEF LockFundsCommit, ReleaseFundsCommit, Over
    <2>3. wallets' = wallets /\ balance'[u] = balance[u]
      BY <1>1, <1>12, <2>1
         DEF LockFundsCommit, ReleaseFundsCommit, LockInv, TypeOK
    <2> QED BY <1>1, <1>2, <2>2, <2>3
  <1>13. CASE RevertRow(p)
    BY <1>1, <1>13 DEF RevertRow, tables, LockInv, TypeOK
  <1>14. CASE RevertCommit(p)
    BY <1>1, <1>2, <1>14 DEF RevertCommit, Over
  <1>15. CASE DeleteErase(p)
    BY <1>1, <1>2, <1>15 DEF DeleteErase, Over, LockInv, TypeOK
  <1> QED BY <1>4, <1>5, <1>6, <1>7, <1>8, <1>9, <1>10, <1>11, <1>12, <1>13,
             <1>14, <1>15 DEF Step

\* A step of p leaves p at "locked" only if it has just read under the lock.
LEMMA LockTaken ==
    ASSUME LockInv, NEW p \in Calls, Receive(p) \/ Step(p) \/ Abort(p),
           pc'[p] = "locked"
    PROVE  LockedRead(p)
  <1>1. ASSUME NEW outcome \in Over, End(p, outcome) PROVE FALSE
    BY <1>1 DEF End, Over, LockInv, TypeOK
  <1>2. ~Receive(p) /\ ~Abort(p)
    BY <1>1 DEF Receive, Abort, Over, LockInv, TypeOK
  <1>3. ~(Refuse(p) \/ TransferRecord(p) \/ CreateInsert(p)
          \/ RevertOrphan(p) \/ DeadlockVictim(p))
    BY <1>1 DEF Refuse, TransferRecord, CreateInsert, RevertOrphan,
                DeadlockVictim, Over
  <1>4. ~(LockFundsCommit(p) \/ ReleaseFundsCommit(p)
          \/ RevertCommit(p) \/ DeleteErase(p))
    BY <1>1 DEF LockFundsCommit, ReleaseFundsCommit, RevertCommit, DeleteErase, Over
  <1>5. ~(CreateRead(p) \/ RevertRead(p) \/ DeleteRead(p))
    BY <1>1 DEF CreateRead, RevertRead, DeleteRead, Over, LockInv, TypeOK
  <1>6. ~(TransferRead(p) \/ TransferSave(p) \/ RevertRow(p))
    BY DEF TransferRead, TransferSave, RevertRow, At, LockInv, TypeOK
  <1> QED BY <1>2, <1>3, <1>4, <1>5, <1>6 DEF Step

LEMMA LockedReadLocks ==
    ASSUME LockInv, NEW p \in Calls, LockedRead(p)
    PROVE  /\ request'[p].kind \in {"lockFunds", "releaseFunds"}
           /\ request'[p].user \in wallets'
           /\ holder'[request'[p].user] = p
           /\ balance'[request'[p].user] = work'[p].seen[request'[p].user]
  <1>1. request[p].user \in Users
    BY RequestFields DEF LockedRead, At, LockInv, TypeOK
  <1> QED BY <1>1 DEF LockedRead, SeeBalance, At, tables, LockInv, TypeOK, Work

LEMMA LockInvStep ==
    ASSUME LockInv, NEW p \in Calls, Receive(p) \/ Step(p) \/ Abort(p)
    PROVE  LockInv'
  <1>1. TypeOK'
    BY StepTypeOK DEF LockInv
  <1>2. ASSUME NEW q \in Calls, pc'[q] = "locked", q # p
        PROVE  pc[q] = "locked"
    BY <1>2 DEF Receive, Step, Abort, Refuse, End, CreateRead, CreateInsert,
       TransferRead, TransferSave, TransferRecord, LockedRead, LockFundsCommit,
       ReleaseFundsCommit, RevertRead, RevertRow, RevertOrphan, RevertCommit,
       DeleteRead, DeleteErase, DeadlockVictim, LockInv, TypeOK
  <1>3. ASSUME NEW q \in Calls, pc'[q] = "locked"
        PROVE  /\ request'[q].user \in wallets'
               /\ holder'[request'[q].user] = q
               /\ balance'[request'[q].user] = work'[q].seen[request'[q].user]
               /\ request'[q].kind \in {"lockFunds", "releaseFunds"}
    <2>1. CASE q = p
      BY <1>3, <2>1, LockTaken, LockedReadLocks
    <2>2. CASE q # p
      <3>1. pc[q] = "locked"
        BY <1>2, <1>3, <2>2
      <3> QED BY <2>2, <3>1, LockRespected DEF LockInv, LockedReadIsCurrent
    <2> QED BY <2>1, <2>2
  <1> QED BY <1>1, <1>3 DEF LockInv, LockedReadIsCurrent

\* From the locked read of lockFunds and releaseFunds to their commit, nobody
\* changes the balance they compute with.
THEOREM WalletLockedReads == Spec => []LockedReadIsCurrent
  <1>1. Init => LockInv
    BY InitTypeOK DEF Init, LockInv, LockedReadIsCurrent
  <1>2. ASSUME LockInv, [Next]_vars PROVE LockInv'
    <2>1. CASE Next
      BY <1>2, <2>1, LockInvStep DEF Next
    <2>2. CASE UNCHANGED vars
      BY <1>2, <2>2 DEF vars, LockInv, LockedReadIsCurrent, TypeOK
    <2> QED BY <1>2, <2>1, <2>2
  <1>3. LockInv => LockedReadIsCurrent
    BY DEF LockInv
  <1> QED BY <1>1, <1>2, <1>3, PTL DEF Spec

-----------------------------------------------------------------------------
\* The invariant behind NeverOverdrawn: what a call is about to write was
\* checked against the balance it read, however stale that is by now.
SolventInv ==
    /\ TypeOK
    /\ NeverOverdrawn
    /\ \A p \in Calls : pc[p] \in {"save", "locked"} =>
         NewBalance(p) >= 0 /\ request[p].kind # "revertGame"

\* A read that passed the funds check leaves something to write.
LEMMA CheckedRead ==
    ASSUME SolventInv, NEW p \in Calls, TransferRead(p) \/ LockedRead(p)
    PROVE  NewBalance(p)' >= 0 /\ request'[p].kind # "revertGame"
  <1> DEFINE u == request[p].user
             b == request[p].amount
  <1>1. u \in Users /\ b \in Amounts
    BY RequestFields DEF TransferRead, LockedRead, At, SolventInv, TypeOK
  <1>2. b \in Int /\ b >= 0 /\ balance[u] \in Int /\ balance[u] >= 0
    BY <1>1, Money DEF SolventInv, TypeOK, NeverOverdrawn
  <1>3. request' = request /\ request[p].kind # "revertGame"
    BY DEF TransferRead, LockedRead, At
  <1>4. work'[p].seen[u] = balance[u]
    BY <1>1 DEF TransferRead, LockedRead, SeeBalance, SolventInv, TypeOK, Work
  <1>5. \/ request[p].kind \in {"deposit", "releaseFunds"}
        \/ balance[u] >= b
    BY DEF TransferRead, LockedRead, At
  <1> QED BY <1>2, <1>3, <1>4, <1>5 DEF NewBalance

\* A step of p leaves what other calls are about to write as it was.
LEMMA OthersWriteTheSame ==
    ASSUME TypeOK, NEW p \in Calls, NEW q \in Calls, q # p,
           Receive(p) \/ Step(p) \/ Abort(p)
    PROVE  pc'[q] = pc[q] /\ request'[q] = request[q] /\ work'[q] = work[q]
  BY DEF Receive, Step, Abort, Refuse, End, CreateRead, CreateInsert,
     TransferRead, SeeBalance, TransferSave, TransferRecord, LockedRead,
     LockFundsCommit, ReleaseFundsCommit, RevertRead, RevertRow, RevertOrphan,
     RevertCommit, DeleteRead, DeleteErase, DeadlockVictim, TypeOK

\* Calls keep what they were asked, and one that began never becomes unused.
LEMMA CallsOfStep ==
    ASSUME TypeOK, NEW p \in Calls, Step(p) \/ Abort(p)
    PROVE  /\ request' = request
           /\ \A q \in Calls : pc'[q] = "idle" <=> pc[q] = "idle"
  <1>1. ASSUME NEW outcome \in Over, p \in InFlight, End(p, outcome)
        PROVE  /\ request' = request
               /\ \A q \in Calls : pc'[q] = "idle" <=> pc[q] = "idle"
    BY <1>1 DEF End, Over, InFlight, TypeOK
  <1>2. ASSUME NEW label \in {"insert", "save", "record", "locked", "refund", "erase"},
               pc[p] # "idle", pc' = [pc EXCEPT ![p] = label], request' = request
        PROVE  \A q \in Calls : pc'[q] = "idle" <=> pc[q] = "idle"
    BY <1>2 DEF TypeOK
  <1>3. CASE Abort(p)
    BY <1>1, <1>3 DEF Abort, Over
  <1>4. CASE Refuse(p) \/ CreateInsert(p) \/ TransferRecord(p) \/ RevertOrphan(p)
    BY <1>1, <1>4 DEF Refuse, CreateInsert, TransferRecord, RevertOrphan, At, InFlight, Over
  <1>5. CASE LockFundsCommit(p) \/ ReleaseFundsCommit(p) \/ RevertCommit(p) \/ DeleteErase(p)
    BY <1>1, <1>5 DEF LockFundsCommit, ReleaseFundsCommit, RevertCommit, DeleteErase,
                      At, InFlight, Over
  <1>6. CASE DeadlockVictim(p)
    BY <1>1, <1>6 DEF DeadlockVictim, Over
  <1>7. CASE CreateRead(p)
    BY <1>1, <1>2, <1>7 DEF CreateRead, At, InFlight, Over
  <1>8. CASE RevertRead(p)
    BY <1>1, <1>2, <1>8 DEF RevertRead, At, InFlight, Over
  <1>9. CASE DeleteRead(p)
    BY <1>1, <1>2, <1>9 DEF DeleteRead, At, InFlight, Over
  <1>10. CASE TransferRead(p) \/ TransferSave(p) \/ LockedRead(p)
    BY <1>2, <1>10 DEF TransferRead, TransferSave, LockedRead, At
  <1>11. CASE RevertRow(p)
    BY <1>11 DEF RevertRow
  <1> QED BY <1>3, <1>4, <1>5, <1>6, <1>7, <1>8, <1>9, <1>10, <1>11 DEF Step

\* Only the two reads bring a call to a point where it has a balance to write.
LEMMA WritesAfterReads ==
    ASSUME TypeOK, NEW p \in Calls, Receive(p) \/ Step(p) \/ Abort(p),
           pc'[p] \in {"save", "locked"}
    PROVE  TransferRead(p) \/ LockedRead(p)
  <1>1. ASSUME NEW outcome \in Over, End(p, outcome) PROVE FALSE
    BY <1>1 DEF End, Over, TypeOK
  <1>2. ~(Receive(p) \/ Abort(p))
    BY <1>1 DEF Receive, Abort, Over, TypeOK
  <1>3. ~(Refuse(p) \/ TransferRecord(p) \/ CreateInsert(p)
          \/ RevertOrphan(p) \/ DeadlockVictim(p))
    BY <1>1 DEF Refuse, TransferRecord, CreateInsert, RevertOrphan,
                DeadlockVictim, Over
  <1>4. ~(LockFundsCommit(p) \/ ReleaseFundsCommit(p)
          \/ RevertCommit(p) \/ DeleteErase(p))
    BY <1>1 DEF LockFundsCommit, ReleaseFundsCommit, RevertCommit, DeleteErase, Over
  <1>5. ~(CreateRead(p) \/ RevertRead(p) \/ DeleteRead(p))
    BY <1>1 DEF CreateRead, RevertRead, DeleteRead, Over, TypeOK
  <1>6. ~(TransferSave(p) \/ RevertRow(p))
    BY DEF TransferSave, RevertRow, At, TypeOK
  <1> QED BY <1>2, <1>3, <1>4, <1>5, <1>6 DEF Step

LEMMA SolventStep ==
    ASSUME "revertGame" \notin Kinds, SolventInv,
           NEW p \in Calls, Receive(p) \/ Step(p) \/ Abort(p)
    PROVE  SolventInv'
  <1>1. TypeOK'
    BY StepTypeOK DEF SolventInv
  <1>2. ~RevertCommit(p)
    BY RequestFields DEF RevertCommit, At, SolventInv, TypeOK
  <1>3. /\ balance \in [Users -> Int]
        /\ \A u \in Users : balance[u] >= 0
    BY DEF SolventInv, TypeOK, NeverOverdrawn
  <1>4. ASSUME NEW u, NEW b \in Int, b >= 0, balance' = [balance EXCEPT ![u] = b]
        PROVE  NeverOverdrawn'
    BY <1>3, <1>4 DEF NeverOverdrawn
  <1>5. ASSUME UNCHANGED balance PROVE NeverOverdrawn'
    BY <1>3, <1>5 DEF NeverOverdrawn
  <1>6. ASSUME TransferSave(p) \/ LockFundsCommit(p) \/ ReleaseFundsCommit(p)
        PROVE  NeverOverdrawn'
    <2>1. /\ pc[p] \in {"save", "locked"}
          /\ request[p].kind \in {"deposit", "withdraw", "lockFunds", "releaseFunds"}
      BY <1>6 DEF TransferSave, LockFundsCommit, ReleaseFundsCommit, At
    <2>2. NewBalance(p) >= 0 /\ NewBalance(p) \in Int
      BY <2>1, NewBalanceType DEF SolventInv
    <2>3. \/ UNCHANGED balance
          \/ balance' = [balance EXCEPT ![request[p].user] = NewBalance(p)]
      BY <1>6 DEF TransferSave, LockFundsCommit, ReleaseFundsCommit
    <2> QED BY <1>4, <1>5, <2>2, <2>3
  <1>7. ASSUME CreateInsert(p) PROVE NeverOverdrawn'
    <2>1. \/ UNCHANGED balance
          \/ balance' = [balance EXCEPT ![request[p].user] = WelcomeBalance]
      BY <1>7 DEF CreateInsert
    <2> QED BY <1>4, <1>5, <2>1, WalletAssumption
  <1>8. ASSUME DeleteErase(p) PROVE NeverOverdrawn'
    <2>1. balance' = [balance EXCEPT ![request[p].user] = 0]
      BY <1>8 DEF DeleteErase
    <2> QED BY <1>3, <2>1 DEF NeverOverdrawn
  <1>9. NeverOverdrawn'
    <2>1. CASE Receive(p) \/ Abort(p) \/ Refuse(p) \/ CreateRead(p)
      BY <1>5, <2>1 DEF Receive, Abort, Refuse, CreateRead, tables
    <2>2. CASE TransferRead(p) \/ TransferRecord(p) \/ LockedRead(p)
      BY <1>5, <2>2 DEF TransferRead, TransferRecord, LockedRead, tables
    <2>3. CASE RevertRead(p) \/ RevertRow(p) \/ RevertOrphan(p)
      BY <1>5, <2>3 DEF RevertRead, RevertRow, RevertOrphan, tables
    <2>4. CASE DeleteRead(p) \/ DeadlockVictim(p)
      BY <1>5, <2>4 DEF DeleteRead, DeadlockVictim, tables
    <2> QED BY <1>2, <1>6, <1>7, <1>8, <2>1, <2>2, <2>3, <2>4 DEF Step
  <1>10. ASSUME NEW q \in Calls, pc'[q] \in {"save", "locked"}
        PROVE  NewBalance(q)' >= 0 /\ request'[q].kind # "revertGame"
    <2>1. CASE q = p
      BY <1>10, <2>1, WritesAfterReads, CheckedRead DEF SolventInv
    <2>2. CASE q # p
      <3>1. pc'[q] = pc[q] /\ request'[q] = request[q] /\ work'[q] = work[q]
        BY <2>2, OthersWriteTheSame DEF SolventInv
      <3> QED BY <1>10, <3>1 DEF SolventInv, NewBalance
    <2> QED BY <2>1, <2>2
  <1> QED BY <1>1, <1>9, <1>10 DEF SolventInv

\* As long as no payout is taken back, no wallet is ever overdrawn: not by
\* stale deposits and withdrawals, not by locks racing for the same balance.
THEOREM WalletNeverOverdrawn ==
    ASSUME "revertGame" \notin Kinds
    PROVE  Spec => []NeverOverdrawn
  <1>1. Init => SolventInv
    BY InitTypeOK, WalletAssumption DEF Init, SolventInv, NeverOverdrawn
  <1>2. ASSUME SolventInv, [Next]_vars PROVE SolventInv'
    <2>1. CASE Next
      BY <1>2, <2>1, SolventStep DEF Next
    <2>2. CASE UNCHANGED vars
      BY <1>2, <2>2 DEF vars, SolventInv, NeverOverdrawn, NewBalance, TypeOK
    <2> QED BY <1>2, <2>1, <2>2
  <1>3. SolventInv => NeverOverdrawn
    BY DEF SolventInv
  <1> QED BY <1>1, <1>2, <1>3, PTL DEF Spec

-----------------------------------------------------------------------------
\* The invariant behind StakesAreHeld: a revert only ever adds REFUND rows.
StakesInv ==
    /\ TypeOK
    /\ StakesAreHeld
    /\ \A p \in Calls : \A t \in work[p].draft : t.type = "REFUND"

LEMMA FreshDraft == Fresh.draft = {}
  BY DEF Fresh

\* A new status changes nothing else of a hold.
LEMMA StatusOnly ==
    ASSUME TypeOK, NEW g, NEW status
    PROVE  /\ \A e \in escrows : \E f \in SetStatus(g, status) :
                /\ f.call = e.call /\ f.user = e.user
                /\ f.game = e.game /\ f.amount = e.amount
           /\ \A f \in SetStatus(g, status) : \E e \in escrows :
                f.call = e.call /\ f.user = e.user
  <1>1. \A e \in escrows :
          LET f == [e EXCEPT !.status = status]
          IN  /\ f.call = e.call /\ f.user = e.user
              /\ f.game = e.game /\ f.amount = e.amount
    BY DEF TypeOK, EscrowHold
  <1> QED BY <1>1 DEF SetStatus

\* Adding rows that are no stakes and changing statuses keeps the pairing.
LEMMA PairingKept ==
    ASSUME TypeOK, StakesAreHeld, NEW rows, NEW g, NEW status,
           \A t \in rows : t.type # "WAGER",
           transactions' = transactions \cup rows,
           escrows' = escrows \/ escrows' = SetStatus(g, status)
    PROVE  StakesAreHeld'
  <1>1. /\ \A e \in escrows : \E f \in escrows' :
             /\ f.call = e.call /\ f.user = e.user
             /\ f.game = e.game /\ f.amount = e.amount
        /\ \A f \in escrows' : \E e \in escrows :
             f.call = e.call /\ f.user = e.user
    BY StatusOnly
  <1>2. \A t \in transactions' : t.type = "WAGER" => t \in transactions
    OBVIOUS
  <1>3. ASSUME NEW t \in transactions', t.type = "WAGER"
        PROVE  \E f \in escrows' : /\ f.call = t.call /\ f.user = t.user
                                   /\ f.game = t.ref /\ f.amount = t.amount
    <2>1. PICK e \in escrows : /\ e.call = t.call /\ e.user = t.user
                               /\ e.game = t.ref /\ e.amount = t.amount
      BY <1>2, <1>3 DEF StakesAreHeld
    <2> QED BY <1>1, <2>1
  <1>4. ASSUME NEW f \in escrows'
        PROVE  \E t \in transactions' :
                 t.type = "WAGER" /\ t.call = f.call /\ t.user = f.user
    <2>1. PICK e \in escrows : f.call = e.call /\ f.user = e.user
      BY <1>1
    <2> QED BY <2>1 DEF StakesAreHeld
  <1> QED BY <1>3, <1>4 DEF StakesAreHeld

\* Every other call's REFUND rows are left alone, and p drafts only those.
LEMMA DraftsAreRefunds ==
    ASSUME StakesInv, NEW p \in Calls, Receive(p) \/ Step(p) \/ Abort(p),
           NEW q \in Calls, NEW t \in work'[q].draft
    PROVE  t.type = "REFUND"
  <1>1. CASE q # p
    BY <1>1, OthersWriteTheSame DEF StakesInv
  <1>2. CASE q = p
    <2>1. CASE work'[p] = Fresh
      BY <1>2, <2>1, FreshDraft
    <2>2. CASE work'[p].draft = work[p].draft
      BY <1>2, <2>2 DEF StakesInv
    <2>3. CASE RevertRow(p)
      <3>1. PICK s \in work[p].todo :
              work' = [work EXCEPT
                 ![p].todo = @ \ {s},
                 ![p].draft = @ \cup {[s EXCEPT !.call = p, !.type = "REFUND"]},
                 ![p].written[s.user] = GivenBack(p, s)]
        BY <2>3 DEF RevertRow
      <3>2. [s EXCEPT !.call = p, !.type = "REFUND"].type = "REFUND"
        BY DEF StakesInv, TypeOK, Work, Transaction
      <3>3. t \in work[p].draft \/ t = [s EXCEPT !.call = p, !.type = "REFUND"]
        BY <1>2, <3>1 DEF StakesInv, TypeOK, Work
      <3> QED BY <3>2, <3>3 DEF StakesInv
    <2>4. CASE Receive(p) \/ TransferRead(p) \/ TransferSave(p) \/ LockedRead(p)
      <3>1. work'[p].draft = work[p].draft
        BY <2>4 DEF Receive, TransferRead, TransferSave, LockedRead, SeeBalance,
                    StakesInv, TypeOK, Work
      <3> QED BY <2>2, <3>1
    <2>5. CASE CreateRead(p) \/ RevertRead(p) \/ DeleteRead(p)
      <3>1. work'[p] = Fresh \/ work'[p].draft = work[p].draft
        BY <2>5 DEF CreateRead, RevertRead, DeleteRead, End, StakesInv, TypeOK, Work
      <3> QED BY <2>1, <2>2, <3>1
    <2>6. CASE \E outcome \in Over : End(p, outcome)
      BY <2>1, <2>6 DEF End, StakesInv, TypeOK
    <2> QED BY <2>3, <2>4, <2>5, <2>6 DEF Step, Refuse, Abort, CreateInsert,
         TransferRecord, LockFundsCommit, ReleaseFundsCommit, RevertOrphan,
         RevertCommit, DeleteErase, DeadlockVictim, Over
  <1> QED BY <1>1, <1>2

LEMMA StakesStep ==
    ASSUME StakesInv, NEW p \in Calls, Receive(p) \/ Step(p) \/ Abort(p)
    PROVE  StakesAreHeld'
  <1>1. ASSUME UNCHANGED <<transactions, escrows>> PROVE StakesAreHeld'
    BY <1>1 DEF StakesInv, StakesAreHeld
  <1>2. CASE TransferRecord(p)
    <2>1. CASE UNCHANGED transactions
      BY <1>1, <1>2, <2>1 DEF TransferRecord
    <2>2. ASSUME NEW type \in {"DEPOSIT", "WITHDRAW"},
                 transactions' = transactions \cup {Row(p, type, NoGame)}
          PROVE  StakesAreHeld'
      <3>1. \A t \in {Row(p, type, NoGame)} : t.type # "WAGER"
        BY DEF Row
      <3> QED BY <1>2, <2>2, <3>1, PairingKept DEF TransferRecord, StakesInv
    <2> QED BY <1>2, <2>1, <2>2 DEF TransferRecord
  <1>3. CASE LockFundsCommit(p)
    <2> DEFINE r == request[p]
               row == Row(p, "WAGER", r.game)
               hold == [call |-> p, user |-> r.user, game |-> r.game,
                        amount |-> r.amount, status |-> "HELD"]
    <2>1. /\ transactions' = transactions \cup {row}
          /\ escrows' = escrows \cup {hold}
      BY <1>3 DEF LockFundsCommit
    <2>2. /\ row.type = "WAGER" /\ row.call = p /\ row.user = r.user
          /\ row.ref = r.game /\ row.amount = r.amount
      BY DEF Row
    <2>3. /\ hold.call = p /\ hold.user = r.user
          /\ hold.game = r.game /\ hold.amount = r.amount
      OBVIOUS
    <2> HIDE DEF row, hold, r
    <2> QED BY <2>1, <2>2, <2>3 DEF StakesInv, StakesAreHeld
  <1>4. CASE ReleaseFundsCommit(p)
    <2>1. Row(p, "PAYOUT", request[p].game).type # "WAGER"
      BY DEF Row
    <2> QED BY <1>4, <2>1, PairingKept DEF ReleaseFundsCommit, StakesInv
  <1>5. CASE RevertCommit(p)
    BY <1>5, PairingKept DEF RevertCommit, StakesInv
  <1>6. CASE DeleteErase(p)
    BY <1>6 DEF DeleteErase, StakesInv, StakesAreHeld
  <1>7. CASE Receive(p) \/ Abort(p) \/ Refuse(p) \/ CreateRead(p) \/ CreateInsert(p)
    BY <1>1, <1>7 DEF Receive, Abort, Refuse, CreateRead, CreateInsert, tables
  <1>8. CASE TransferRead(p) \/ TransferSave(p) \/ LockedRead(p) \/ RevertRead(p)
    BY <1>1, <1>8 DEF TransferRead, TransferSave, LockedRead, RevertRead, tables
  <1>9. CASE RevertRow(p) \/ RevertOrphan(p) \/ DeleteRead(p) \/ DeadlockVictim(p)
    BY <1>1, <1>9 DEF RevertRow, RevertOrphan, DeleteRead, DeadlockVictim, tables
  <1> QED BY <1>2, <1>3, <1>4, <1>5, <1>6, <1>7, <1>8, <1>9 DEF Step

\* Every stake has its hold and every hold its stake, however the operations
\* of wallets overlap, fail or die.
THEOREM WalletStakesAreHeld == Spec => []StakesAreHeld
  <1>1. Init => StakesInv
    BY InitTypeOK, FreshDraft DEF Init, StakesInv, StakesAreHeld
  <1>2. ASSUME StakesInv, [Next]_vars PROVE StakesInv'
    <2>1. CASE Next
      BY <1>2, <2>1, StakesStep, StepTypeOK, DraftsAreRefunds DEF Next, StakesInv
    <2>2. CASE UNCHANGED vars
      BY <1>2, <2>2 DEF vars, StakesInv, StakesAreHeld, TypeOK
    <2> QED BY <1>2, <2>1, <2>2
  <1>3. StakesInv => StakesAreHeld
    BY DEF StakesInv
  <1> QED BY <1>1, <1>2, <1>3, PTL DEF Spec

-----------------------------------------------------------------------------
\* At most one call is in flight: the worker of the wallet queue takes one job
\* at a time.
Alone == \A p, q \in InFlight : p = q

\* The row of the stake that a hold keeps, and a row that gives it back.
StakeOf(t, e) == t.type = "WAGER" /\ t.of = e.call /\ t.user = e.user
RefundOf(t, e) == t.type = "REFUND" /\ t.of = e.call /\ t.user = e.user

\* The invariant behind RefundedIsRepaid: a revert that is under way has each
\* stake of its game still before it or a refund drafted for it.
RepaidInv ==
    /\ TypeOK
    /\ Alone
    /\ \A e \in escrows : \E t \in transactions : StakeOf(t, e) /\ t.ref = e.game
    /\ \A e \in escrows : e.status = "REFUNDED" =>
         \E t \in transactions : RefundOf(t, e)
    /\ \A p \in Calls : pc[p] = "refund" =>
         \A e \in escrows : e.game = request[p].game =>
           \/ \E t \in work[p].todo : StakeOf(t, e)
           \/ \E t \in work[p].draft : RefundOf(t, e)

\* Alone with a call in flight, nobody else reads or writes anything.
LEMMA AloneStep ==
    ASSUME TypeOK, Alone, MaxInFlight = 1,
           NEW p \in Calls, Receive(p) \/ Step(p) \/ Abort(p)
    PROVE  /\ Alone'
           /\ pc[p] \notin Over
           /\ \A q \in Calls : q # p => pc'[q] = pc[q] /\ pc[q] \in Over \cup {"idle"}
  <1>1. \A q \in Calls : q # p => pc'[q] = pc[q]
    BY OthersWriteTheSame
  <1>1a. pc[p] \notin Over
    BY DEF Receive, Step, Abort, Refuse, CreateRead, CreateInsert, TransferRead,
       TransferSave, TransferRecord, LockedRead, LockFundsCommit,
       ReleaseFundsCommit, RevertRead, RevertRow, RevertOrphan, RevertCommit,
       DeleteRead, DeleteErase, DeadlockVictim, At, InFlight, Over
  <1>2. \A q \in InFlight : q = p
    <2>1. CASE Receive(p)
      <3>1. IsFiniteSet(InFlight)
        <4>1. CASE InFlight = {}
          BY <4>1, FS_EmptySet
        <4>2. CASE InFlight # {}
          <5>1. PICK q \in InFlight : TRUE
            BY <4>2
          <5>2. InFlight = {q}
            BY <5>1 DEF Alone
          <5> QED BY <5>2, FS_Singleton
        <4> QED BY <4>1, <4>2
      <3>2. Cardinality(InFlight) \in Nat /\ Cardinality(InFlight) < 1
        BY <2>1, <3>1, FS_CardinalityType DEF Receive
      <3>3. Cardinality(InFlight) = 0
        BY <3>2
      <3> QED BY <3>1, <3>3, FS_EmptySet
    <2>2. CASE Step(p) \/ Abort(p)
      <3>1. p \in InFlight
        BY <2>2 DEF Step, Abort, Refuse, CreateRead, CreateInsert, TransferRead,
           TransferSave, TransferRecord, LockedRead, LockFundsCommit,
           ReleaseFundsCommit, RevertRead, RevertRow, RevertOrphan, RevertCommit,
           DeleteRead, DeleteErase, DeadlockVictim, At, InFlight, Over
      <3> QED BY <3>1 DEF Alone
    <2> QED BY <2>1, <2>2
  <1>3. \A q \in Calls : q # p => pc[q] \in Over \cup {"idle"}
    BY <1>2 DEF InFlight
  <1> QED BY <1>1, <1>1a, <1>3 DEF Alone, InFlight, Over

\* Adding rows keeps every refund; a new status keeps stake and game.
LEMMA StatusKeeps ==
    ASSUME TypeOK, NEW g, NEW status, NEW f \in SetStatus(g, status)
    PROVE  \E e \in escrows :
             /\ f.call = e.call /\ f.user = e.user /\ f.game = e.game
             /\ f.status = IF e.game = g THEN status ELSE e.status
  <1>1. \A e \in escrows :
          LET f1 == [e EXCEPT !.status = status]
          IN  /\ f1.call = e.call /\ f1.user = e.user /\ f1.game = e.game
              /\ f1.status = status
    BY DEF TypeOK, EscrowHold
  <1> QED BY <1>1 DEF SetStatus

\* A hold that has its stake, and is paid back if it was closed by a revert.
Sound(e) ==
    /\ \E t \in transactions : StakeOf(t, e) /\ t.ref = e.game
    /\ e.status = "REFUNDED" => \E t \in transactions : RefundOf(t, e)

\* What a revert under way still owes a hold of its game, it will give back.
Owed(p, e) ==
    \/ \E t \in work[p].todo : StakeOf(t, e)
    \/ \E t \in work[p].draft : RefundOf(t, e)

LEMMA RepaidStep ==
    ASSUME RepaidInv, MaxInFlight = 1,
           NEW p \in Calls, Receive(p) \/ Step(p) \/ Abort(p)
    PROVE  RepaidInv'
  <1> USE DEF RepaidInv
  <1>1. TypeOK' /\ Alone' /\ \A q \in Calls : q # p => pc'[q] # "refund"
    BY StepTypeOK, AloneStep DEF Over
  <1> DEFINE Books == \A e \in escrows' : Sound(e)'
             Reverts == pc'[p] = "refund" =>
               \A e \in escrows' : e.game = request'[p].game => Owed(p, e)'
  <1>2. SUFFICES Books /\ Reverts
    BY <1>1 DEF Sound, Owed
  <1>3. \A e \in escrows : Sound(e)
    BY DEF Sound
  <1>4. ASSUME transactions \subseteq transactions', escrows' \subseteq escrows
        PROVE  Books
    BY <1>3, <1>4 DEF Sound
  <1>5. ASSUME UNCHANGED tables PROVE Books
    BY <1>4, <1>5 DEF tables
  <1>6. ASSUME NEW outcome \in Over, End(p, outcome) PROVE Reverts
    BY <1>6 DEF End, Over, TypeOK
  <1>7. ASSUME \E outcome \in Over : End(p, outcome), UNCHANGED tables
        PROVE  Books /\ Reverts
    BY <1>5, <1>6, <1>7
  <1>8. CASE Receive(p) \/ TransferRead(p) \/ LockedRead(p)
    <2>1. pc'[p] # "refund"
      BY <1>8 DEF Receive, TransferRead, LockedRead, TypeOK
    <2> QED BY <1>5, <1>8, <2>1 DEF Receive, TransferRead, LockedRead
  <1>9. CASE TransferSave(p)
    <2>1. pc'[p] # "refund"
      BY <1>9 DEF TransferSave, TypeOK
    <2> QED BY <1>4, <1>9, <2>1 DEF TransferSave
  <1>10. CASE Refuse(p) \/ Abort(p) \/ RevertOrphan(p) \/ DeadlockVictim(p)
    BY <1>7, <1>10 DEF Refuse, Abort, RevertOrphan, DeadlockVictim, Over
  <1>11. CASE CreateRead(p) \/ DeleteRead(p)
    <2>1. CASE End(p, "done")
      BY <1>7, <1>11, <2>1 DEF CreateRead, DeleteRead, Over
    <2>2. CASE ~End(p, "done")
      <3>1. pc'[p] # "refund"
        BY <1>11, <2>2 DEF CreateRead, DeleteRead, TypeOK
      <3> QED BY <1>5, <1>11, <3>1 DEF CreateRead, DeleteRead
    <2> QED BY <2>1, <2>2
  <1>12. CASE CreateInsert(p) \/ TransferRecord(p)
    <2>1. \E outcome \in Over : End(p, outcome)
      BY <1>12 DEF CreateInsert, TransferRecord, Over
    <2>2. transactions \subseteq transactions' /\ escrows' = escrows
      BY <1>12 DEF CreateInsert, TransferRecord
    <2> QED BY <1>4, <1>6, <2>1, <2>2
  <1>13. CASE LockFundsCommit(p)
    <2>1. PICK row, hold :
            /\ transactions' = transactions \cup {row}
            /\ escrows' = escrows \cup {hold}
            /\ StakeOf(row, hold) /\ row.ref = hold.game /\ hold.status = "HELD"
      <3>1. LET row == Row(p, "WAGER", request[p].game)
                hold == [call |-> p, user |-> request[p].user,
                         game |-> request[p].game, amount |-> request[p].amount,
                         status |-> "HELD"]
            IN  /\ transactions' = transactions \cup {row}
                /\ escrows' = escrows \cup {hold}
                /\ StakeOf(row, hold) /\ row.ref = hold.game /\ hold.status = "HELD"
        BY <1>13 DEF LockFundsCommit, Row, StakeOf
      <3> QED BY <3>1, Zenon
    <2>3. Sound(hold)'
      BY <2>1 DEF Sound
    <2>4. \A e \in escrows : Sound(e)'
      BY <1>3, <2>1 DEF Sound
    <2>5. Books
      BY <2>1, <2>3, <2>4
    <2> QED BY <1>6, <1>13, <2>5 DEF LockFundsCommit, Over
  <1>14. ASSUME NEW rows, NEW g, NEW status,
                transactions' = transactions \cup rows,
                escrows' = SetStatus(g, status),
                status = "REFUNDED" => \A e \in escrows : e.game = g =>
                  \E t \in rows : RefundOf(t, e)
         PROVE  Books
    <2> SUFFICES ASSUME NEW f \in escrows' PROVE Sound(f)'
      OBVIOUS
    <2>1. PICK e \in escrows :
            /\ f.call = e.call /\ f.user = e.user /\ f.game = e.game
            /\ f.status = IF e.game = g THEN status ELSE e.status
      BY <1>14, StatusKeeps
    <2>2. \A t : /\ StakeOf(t, e) => StakeOf(t, f)
                 /\ RefundOf(t, e) => RefundOf(t, f)
      BY <2>1 DEF StakeOf, RefundOf
    <2>3. \E t \in transactions' : StakeOf(t, f) /\ t.ref = f.game
      BY <1>3, <1>14, <2>1, <2>2 DEF Sound
    <2>4. f.status = "REFUNDED" => \E t \in transactions' : RefundOf(t, f)
      BY <1>3, <1>14, <2>1, <2>2 DEF Sound
    <2> QED BY <2>3, <2>4 DEF Sound
  <1>15. CASE ReleaseFundsCommit(p)
    <2>1. Books
      BY <1>14, <1>15 DEF ReleaseFundsCommit
    <2> QED BY <1>6, <1>15, <2>1 DEF ReleaseFundsCommit, Over
  <1>16. CASE RevertCommit(p)
    <2>1. pc[p] = "refund" /\ work[p].todo = {}
      BY <1>16 DEF RevertCommit, At
    <2>2. \A e \in escrows : e.game = request[p].game =>
            \E t \in work[p].draft : RefundOf(t, e)
      BY <2>1
    <2>3. Books
      BY <1>14, <1>16, <2>2 DEF RevertCommit
    <2> QED BY <1>6, <1>16, <2>3 DEF RevertCommit, Over
  <1>17. CASE RevertRead(p)
    <2>1. CASE End(p, "done")
      BY <1>7, <1>17, <2>1 DEF RevertRead, Over
    <2>2. CASE ~End(p, "done")
      <3> DEFINE g == request[p].game
                 stakes == {t \in transactions : t.ref = g /\ t.type \in {"WAGER", "PAYOUT"}}
      <3>1. work'[p].todo = stakes /\ request' = request
        BY <1>17, <2>2 DEF RevertRead, TypeOK, Work
      <3>2. UNCHANGED tables
        BY <1>17 DEF RevertRead
      <3>3. \A e \in escrows : e.game = g => \E t \in stakes : StakeOf(t, e)
        BY <1>3 DEF Sound, StakeOf
      <3>4. \A e \in escrows' : e.game = request'[p].game => Owed(p, e)'
        BY <3>1, <3>2, <3>3 DEF Owed, tables
      <3> QED BY <1>5, <3>2, <3>4
    <2> QED BY <2>1, <2>2
  <1>18. CASE RevertRow(p)
    <2>1. PICK s \in work[p].todo :
            work' = [work EXCEPT
              ![p].todo = @ \ {s},
              ![p].draft = @ \cup {[s EXCEPT !.call = p, !.type = "REFUND"]},
              ![p].written[s.user] = GivenBack(p, s)]
      BY <1>18 DEF RevertRow
    <2> DEFINE back == [s EXCEPT !.call = p, !.type = "REFUND"]
    <2>2. s \in Transaction
      BY <2>1 DEF TypeOK, Work
    <2>3. back.type = "REFUND" /\ back.of = s.of /\ back.user = s.user
      BY <2>2 DEF Transaction
    <2>4. /\ work'[p].todo = work[p].todo \ {s}
          /\ work'[p].draft = work[p].draft \cup {back}
      BY <2>1 DEF TypeOK, Work
    <2> HIDE DEF back
    <2>5. \A e : Owed(p, e) => Owed(p, e)'
      BY <2>3, <2>4 DEF Owed, StakeOf, RefundOf
    <2>6. UNCHANGED tables /\ request' = request /\ pc[p] = "refund"
      BY <1>18 DEF RevertRow, At
    <2>7. \A e \in escrows : e.game = request[p].game => Owed(p, e)
      BY <2>6 DEF Owed
    <2>8. Reverts
      BY <2>5, <2>6, <2>7 DEF tables
    <2> QED BY <1>5, <2>6, <2>8
  <1>19. CASE DeleteErase(p)
    <2> DEFINE u == request[p].user
    <2>1. /\ transactions' = {t \in transactions : t.user # u}
          /\ escrows' = {e \in escrows : e.user # u}
      BY <1>19 DEF DeleteErase
    <2>2. Books
      BY <1>3, <2>1 DEF Sound, StakeOf, RefundOf
    <2> QED BY <1>6, <1>19, <2>2 DEF DeleteErase, Over
  <1> QED BY <1>8, <1>9, <1>10, <1>11, <1>12, <1>13, <1>15, <1>16, <1>17, <1>18,
             <1>19 DEF Step

\* While the queue's worker takes one job at a time, a hold that a revert has
\* closed was paid back: no revert drops a stake, fails half-way or is undone
\* by a deletion.
THEOREM WalletRefundedIsRepaid ==
    ASSUME MaxInFlight = 1
    PROVE  Spec => []RefundedIsRepaid
  <1>1. Init => RepaidInv
    BY InitTypeOK DEF Init, RepaidInv, Alone, InFlight
  <1>2. ASSUME RepaidInv, [Next]_vars PROVE RepaidInv'
    <2>1. CASE Next
      BY <1>2, <2>1, RepaidStep DEF Next
    <2>2. CASE UNCHANGED vars
      BY <1>2, <2>2 DEF vars, RepaidInv, TypeOK, Alone, InFlight
    <2> QED BY <1>2, <2>1, <2>2
  <1>3. RepaidInv => RefundedIsRepaid
    BY DEF RepaidInv, RefundedIsRepaid, RefundOf
  <1> QED BY <1>1, <1>2, <1>3, PTL DEF Spec

-----------------------------------------------------------------------------
(* Sums.  MapThenSumSet(f, S) is g[S] for the function g on the subsets of S *)
(* that takes one element after the other; for a finite S there is such a g, *)
(* and in which order it takes them does not matter.  The induction is over  *)
(* the strict subsets: a set of subsets without a least one is empty.        *)

Chosen(s) == CHOOSE x \in s : TRUE

Recur(g, f, S) ==
    g = [s \in SUBSET S |-> IF s = {} THEN 0 ELSE f[Chosen(s)] + g[s \ {Chosen(s)}]]

Total(f, S) == (CHOOSE g : Recur(g, f, S))[S]

LEMMA ChosenIn ==
    ASSUME NEW s, s # {}
    PROVE  Chosen(s) \in s
  BY DEF Chosen

\* Induction over the subsets of a finite set.
LEMMA SubsetInduction ==
    ASSUME NEW S, IsFiniteSet(S), NEW G,
           \A T \in SUBSET S : (\A U \in SUBSET T : U # T => U \in G) => T \in G
    PROVE  \A T \in SUBSET S : T \in G
  <1> SUFFICES ASSUME (SUBSET S) \ G # {} PROVE FALSE
    OBVIOUS
  <1> DEFINE Bad == (SUBSET S) \ G
  <1>1. FiniteSubsetsOf(S) = SUBSET S
    BY FS_FiniteSubsetsOfFinite
  <1>2. IsWellFoundedOn(StrictSubsetOrdering(S), FiniteSubsetsOf(S))
    BY FS_StrictSubsetOrderingWellFounded
  <1>3. IsWellFoundedOn(StrictSubsetOrdering(S), SUBSET S)
    BY <1>1, <1>2
  <1>4. Bad \subseteq SUBSET S /\ Bad # {}
    OBVIOUS
  <1> HIDE DEF Bad
  <1>5. PICK T \in Bad : \A U \in Bad : <<U, T>> \notin StrictSubsetOrdering(S)
    BY <1>3, <1>4, WFMin
  <1>6. \A U \in SUBSET T : U # T => U \in G
    BY <1>5 DEF Bad, StrictSubsetOrdering
  <1> QED BY <1>5, <1>6 DEF Bad

LEMMA RecurAt ==
    ASSUME NEW g, NEW f, NEW S, Recur(g, f, S), NEW T \in SUBSET S
    PROVE  g[T] = IF T = {} THEN 0 ELSE f[Chosen(T)] + g[T \ {Chosen(T)}]
  BY DEF Recur

\* Two such functions agree on the sets whose elements they count alike.
LEMMA RecurUnique ==
    ASSUME NEW S, IsFiniteSet(S), NEW f, NEW e, NEW g, NEW h, NEW T, NEW V,
           Recur(g, f, T), Recur(h, e, V), S \subseteq T, S \subseteq V,
           \A x \in S : f[x] = e[x]
    PROVE  \A U \in SUBSET S : g[U] = h[U]
  <1> DEFINE G == {U \in SUBSET S : g[U] = h[U]}
  <1>1. ASSUME NEW U \in SUBSET S, \A W \in SUBSET U : W # U => W \in G
        PROVE  U \in G
    <2> DEFINE c == Chosen(U)
    <2>1. /\ g[U] = IF U = {} THEN 0 ELSE f[c] + g[U \ {c}]
          /\ h[U] = IF U = {} THEN 0 ELSE e[c] + h[U \ {c}]
      <3>1. U \in SUBSET T /\ U \in SUBSET V
        OBVIOUS
      <3> QED BY <3>1, RecurAt
    <2>2. CASE U # {}
      <3>1. c \in U
        BY <2>2, ChosenIn
      <3>2. U \ {c} \in G
        BY <1>1, <3>1
      <3> QED BY <2>1, <2>2, <3>1, <3>2
    <2> QED BY <2>1, <2>2
  <1> HIDE DEF G
  <1>2. \A U \in SUBSET S : U \in G
    BY <1>1, SubsetInduction
  <1> QED BY <1>2 DEF G

LEMMA RecurExists ==
    ASSUME NEW S, IsFiniteSet(S), NEW f
    PROVE  \E g : Recur(g, f, S)
  <1> DEFINE G == {T \in SUBSET S : \E g : Recur(g, f, T)}
  <1>1. ASSUME NEW T \in SUBSET S, \A U \in SUBSET T : U # T => U \in G
        PROVE  T \in G
    <2> DEFINE h == [s \in SUBSET T |-> IF s = {} THEN 0
                                        ELSE f[Chosen(s)] + Total(f, s \ {Chosen(s)})]
    <2>1. ASSUME NEW s \in SUBSET T, s # {}
          PROVE  h[s \ {Chosen(s)}] = Total(f, s \ {Chosen(s)})
      <3> DEFINE u == s \ {Chosen(s)}
                 g == CHOOSE g : Recur(g, f, u)
                 c == Chosen(u)
                 k == CHOOSE k : Recur(k, f, u \ {c})
      <3>1. u \in SUBSET T /\ u # T
        BY <2>1, ChosenIn
      <3>2. Recur(g, f, u)
        BY <1>1, <3>1
      <3>3. Total(f, u) = g[u]
        BY DEF Total
      <3>4. g[u] = IF u = {} THEN 0 ELSE f[c] + g[u \ {c}]
        BY <3>2, RecurAt
      <3>5. CASE u = {}
        BY <3>1, <3>3, <3>4, <3>5
      <3>6. CASE u # {}
        <4>1. u \ {c} \in SUBSET T /\ u \ {c} # T
          BY <3>1
        <4>2. Recur(k, f, u \ {c})
          BY <1>1, <4>1
        <4>3. Total(f, u \ {c}) = k[u \ {c}]
          BY DEF Total
        <4>4. IsFiniteSet(u \ {c})
          BY <4>1, FS_Subset
        <4>5. g[u \ {c}] = k[u \ {c}]
          <5>1. u \ {c} \subseteq u /\ u \ {c} \in SUBSET (u \ {c})
            OBVIOUS
          <5> HIDE DEF u, g, c, k
          <5> QED BY <3>2, <4>2, <4>4, <5>1, RecurUnique
        <4>6. h[u] = f[c] + Total(f, u \ {c})
          BY <3>1, <3>6
        <4> HIDE DEF u, g, c, k, h
        <4>7. h[u] = Total(f, u)
          BY <3>3, <3>4, <3>6, <4>3, <4>5, <4>6
        <4> QED BY <4>7 DEF u
      <3> QED BY <3>5, <3>6
    <2>2. Recur(h, f, T)
      BY <2>1 DEF Recur
    <2> QED BY <2>2
  <1> HIDE DEF G
  <1>2. S \in G
    BY <1>1, SubsetInduction
  <1> QED BY <1>2 DEF G

\* Any element may be taken first.
LEMMA RecurTake ==
    ASSUME NEW S, IsFiniteSet(S), NEW f, \A x \in S : f[x] \in Int,
           NEW g, Recur(g, f, S)
    PROVE  \A T \in SUBSET S : g[T] \in Int /\ \A x \in T : g[T] = f[x] + g[T \ {x}]
  <1> DEFINE G == {T \in SUBSET S : g[T] \in Int /\ \A x \in T : g[T] = f[x] + g[T \ {x}]}
  <1>1. ASSUME NEW T \in SUBSET S, \A U \in SUBSET T : U # T => U \in G
        PROVE  T \in G
    <2> DEFINE c == Chosen(T)
    <2>1. g[T] = IF T = {} THEN 0 ELSE f[c] + g[T \ {c}]
      BY RecurAt
    <2>2. CASE T = {}
      BY <2>1, <2>2
    <2>3. CASE T # {}
      <3>1. c \in T
        BY <2>3, ChosenIn
      <3>2. T \ {c} \in G
        BY <1>1, <3>1
      <3>3. g[T] = f[c] + g[T \ {c}] /\ g[T \ {c}] \in Int /\ f[c] \in Int
        BY <2>1, <2>3, <3>1, <3>2
      <3>4. ASSUME NEW x \in T, x # c PROVE g[T] = f[x] + g[T \ {x}]
        <4>1. g[T \ {c}] = f[x] + g[(T \ {c}) \ {x}]
          BY <3>2, <3>4
        <4>2. T \ {x} \in G /\ T \ {x} \in SUBSET T
          BY <1>1, <3>4
        <4>3. g[T \ {x}] = f[c] + g[(T \ {x}) \ {c}] /\ g[T \ {x}] \in Int
          BY <3>1, <3>4, <4>2
        <4>4. (T \ {x}) \ {c} = (T \ {c}) \ {x}
          OBVIOUS
        <4>5. (T \ {x}) \ {c} \in G
          <5>1. (T \ {x}) \ {c} \in SUBSET T /\ (T \ {x}) \ {c} # T
            BY <3>1
          <5> QED BY <1>1, <5>1
        <4>6. g[(T \ {c}) \ {x}] \in Int /\ f[x] \in Int
          BY <4>4, <4>5
        <4> DEFINE w == g[(T \ {c}) \ {x}]
        <4>7. /\ g[T \ {x}] = f[c] + w /\ g[T \ {c}] = f[x] + w
              /\ g[T] = f[c] + g[T \ {c}] /\ w \in Int /\ f[x] \in Int /\ f[c] \in Int
          BY <3>3, <4>1, <4>3, <4>4, <4>6
        <4> HIDE DEF c, G, w
        <4>8. f[c] + (f[x] + w) = f[x] + (f[c] + w)
          BY <4>7
        <4> QED BY <4>7, <4>8
      <3>5. g[T] \in Int
        BY <3>3
      <3>6. \A x \in T : g[T] = f[x] + g[T \ {x}]
        BY <3>3, <3>4
      <3> QED BY <3>5, <3>6
    <2> QED BY <2>2, <2>3
  <1> HIDE DEF G
  <1>2. \A T \in SUBSET S : T \in G
    BY <1>1, SubsetInduction
  <1> QED BY <1>2 DEF G

LEMMA TotalRecur ==
    ASSUME NEW S, IsFiniteSet(S), NEW f
    PROVE  \E g : Recur(g, f, S) /\ Total(f, S) = g[S]
  BY RecurExists DEF Total

\* What the proofs need of sums.
LEMMA TotalInt ==
    ASSUME NEW S, IsFiniteSet(S), NEW f, \A x \in S : f[x] \in Int
    PROVE  Total(f, S) \in Int
  <1>1. PICK g : Recur(g, f, S) /\ Total(f, S) = g[S]
    BY TotalRecur
  <1> QED BY <1>1, RecurTake

LEMMA TotalEmpty == \A f : Total(f, {}) = 0
  <1> SUFFICES ASSUME NEW f PROVE Total(f, {}) = 0
    OBVIOUS
  <1>1. IsFiniteSet({})
    BY FS_EmptySet
  <1>2. PICK g : Recur(g, f, {}) /\ Total(f, {}) = g[{}]
    BY <1>1, TotalRecur
  <1> QED BY <1>2, RecurAt

LEMMA TotalSame ==
    ASSUME NEW S, IsFiniteSet(S), NEW f, NEW e, \A x \in S : f[x] = e[x]
    PROVE  Total(f, S) = Total(e, S)
  <1>1. PICK g : Recur(g, f, S) /\ Total(f, S) = g[S]
    BY TotalRecur
  <1>2. PICK h : Recur(h, e, S) /\ Total(e, S) = h[S]
    BY TotalRecur
  <1> QED BY <1>1, <1>2, RecurUnique

LEMMA TotalAdd ==
    ASSUME NEW S, IsFiniteSet(S), NEW x, x \notin S, NEW f, NEW e,
           \A y \in S \cup {x} : e[y] \in Int, \A y \in S : f[y] = e[y]
    PROVE  Total(e, S \cup {x}) = Total(f, S) + e[x]
  <1>0. IsFiniteSet(S \cup {x})
    BY FS_AddElement
  <1>1. PICK g : Recur(g, f, S) /\ Total(f, S) = g[S]
    BY TotalRecur
  <1>2. PICK h : Recur(h, e, S \cup {x}) /\ Total(e, S \cup {x}) = h[S \cup {x}]
    BY <1>0, TotalRecur
  <1>3. g[S] = h[S]
    BY <1>1, <1>2, RecurUnique
  <1>3a. PICK V : V = S \cup {x}
    OBVIOUS
  <1>4. V \in SUBSET V /\ S \in SUBSET V /\ x \in V /\ V \ {x} = S
    BY <1>3a
  <1>5. IsFiniteSet(V) /\ (\A y \in V : e[y] \in Int) /\ Recur(h, e, V)
    BY <1>0, <1>2, <1>3a
  <1>6. \A T \in SUBSET V : h[T] \in Int /\ \A y \in T : h[T] = e[y] + h[T \ {y}]
    <2>1. IsFiniteSet(V)
      BY <1>5
    <2>2. \A y \in V : e[y] \in Int
      BY <1>5
    <2>3. Recur(h, e, V)
      BY <1>5
    <2> QED BY ONLY <2>1, <2>2, <2>3, RecurTake
  <1>7. h[V] = e[x] + h[S] /\ h[S] \in Int /\ e[x] \in Int
    BY <1>4, <1>5, <1>6
  <1>8. Total(e, V) = h[V] /\ Total(f, S) = h[S]
    BY <1>1, <1>2, <1>3, <1>3a
  <1>9. Total(e, V) = Total(f, S) + e[x]
    BY <1>7, <1>8
  <1> QED BY <1>9, <1>3a

-----------------------------------------------------------------------------
(* The ledger: one call at a time, and the sums over rows and over saves.    *)

Rows(u) == {t \in transactions : t.user = u}
Effects == [t \in transactions |-> Effect(t)]
MovedBy == [p \in Calls |-> Moved(p)]
Ledger(u) == WelcomeBalance + Total(Effects, Rows(u)) + Total(MovedBy, Unrecorded(u))

Stakes(g) == {t \in transactions : t.ref = g /\ t.type \in {"WAGER", "PAYOUT"}}
Refund(p, t) == [t EXCEPT !.call = p, !.type = "REFUND"]
Late == {p \in Calls : pc[p] \in {"record", "lost"}}

\* Rows are of wallets that exist and of calls that are over; a call inserts one
\* row at most besides refunds, and a refund is of the user whose row it gives
\* back.  There are finitely many rows, and calls that owe one.
RowsInv ==
    /\ IsFiniteSet(transactions) /\ IsFiniteSet(Late)
    /\ \A t \in transactions : t.user \in wallets /\ {pc[t.call], pc[t.of]} \subseteq Over
    /\ \A s, t \in transactions : s.type # "REFUND" =>
         /\ s.of = s.call
         /\ s.call = t.of => s.user = t.user /\ (t.type # "REFUND" => s = t)

\* A revert under way has each stake of its game before it or a refund of it
\* drafted, and nothing else; it has locked the wallets of the refunds.
DraftInv(p) ==
    LET g == request[p].game
    IN  /\ work[p].seen = balance
        /\ IsFiniteSet(work[p].draft)
        /\ work[p].todo \subseteq Stakes(g)
        /\ \A t \in Stakes(g) \ work[p].todo : Refund(p, t) \in work[p].draft
        /\ \A d \in work[p].draft : \E t \in Stakes(g) \ work[p].todo : d = Refund(p, t)
        /\ \A u \in Users : holder[u] = p <=> \E d \in work[p].draft : d.user = u
        /\ \A t \in Stakes(g) \ work[p].todo :
             (\A s \in Stakes(g) : s.user = t.user => s = t) =>
                 work[p].written[t.user] = GivenBack(p, t)

\* What a call goes by: who creates a wallet has none that was deleted, the
\* balance that was read is still there, and a row is locked only by lockFunds,
\* releaseFunds and revertGame.
Reads(p) ==
    LET r == request[p]
    IN  /\ pc[p] \in {"save", "record", "lost"} => r.kind \in {"deposit", "withdraw"}
        /\ pc[p] \in {"record", "lost"} => r.user \in wallets \cup erased
        /\ pc[p] \in {"start", "insert"} /\ r.kind = "createWallet" => r.user \notin erased
        /\ pc[p] \in {"save", "locked"} =>
             r.user \in wallets /\ work[p].seen[r.user] = balance[r.user]
        /\ pc[p] = "record" => r.user \in wallets
        /\ pc[p] # "refund" => work[p].draft = {}
        /\ pc[p] \notin {"locked", "refund"} => \A u \in Users : holder[u] # p
        /\ pc[p] = "refund" => DraftInv(p)

BooksInv == TypeOK /\ Alone /\ RowsInv /\ \A p \in Calls : Reads(p)

LedgerInv ==
    /\ BooksInv
    /\ \A u \in wallets : ~RevertedTwoRows(u) => balance[u] = Ledger(u)

\* Who ends goes by nothing any more, except for a save that lost its row.
LEMMA EndReads ==
    ASSUME TypeOK, NEW p \in Calls, NEW outcome \in Over, End(p, outcome),
           outcome = "lost" => /\ request[p].kind \in {"deposit", "withdraw"}
                               /\ request[p].user \in wallets' \cup erased'
    PROVE  Reads(p)'
  <1>1. pc'[p] = outcome /\ request' = request
    BY DEF End, TypeOK
  <1>2. work'[p].draft = {}
    BY FreshDraft DEF End, TypeOK
  <1>3. \A u \in Users : holder'[u] # p
    BY WalletAssumption DEF End, TypeOK
  <1> QED BY <1>1, <1>2, <1>3 DEF Reads, Over

\* A revert begins with every stake of its game before it.
LEMMA RevertBegins ==
    ASSUME BooksInv, NEW p \in Calls, RevertRead(p), ~End(p, "done")
    PROVE  Reads(p)'
  <1> DEFINE g == request[p].game
  <1>1. /\ work' = [work EXCEPT ![p].seen = balance, ![p].todo = Stakes(g)]
        /\ pc' = [pc EXCEPT ![p] = "refund"] /\ UNCHANGED <<holder, request, tables>>
        /\ pc[p] = "start"
    BY DEF RevertRead, Stakes, At
  <1>2. /\ work'[p].seen = balance /\ work'[p].todo = Stakes(g)
        /\ work'[p].draft = work[p].draft /\ pc'[p] = "refund"
    BY <1>1 DEF BooksInv, TypeOK, Work
  <1>3. work[p].draft = {} /\ \A u \in Users : holder[u] # p
    BY <1>1 DEF BooksInv, Reads
  <1>4. Stakes(g)' = Stakes(g) /\ balance' = balance /\ request'[p] = request[p]
    BY <1>1 DEF Stakes, tables
  <1>5. /\ work'[p].seen = balance' /\ work'[p].draft = {}
        /\ work'[p].todo \subseteq Stakes(g)
        /\ \A t \in Stakes(g) \ work'[p].todo : FALSE
        /\ \A u \in Users : holder'[u] # p
    BY <1>1, <1>2, <1>3, <1>4
  <1>5a. IsFiniteSet(work'[p].draft) /\ \A d \in work'[p].draft : FALSE
    BY <1>5, FS_EmptySet
  <1>6. DraftInv(p)'
    BY <1>4, <1>5, <1>5a DEF DraftInv
  <1> QED BY <1>2, <1>6 DEF Reads

\* A turn of its loop drafts one refund and locks the wallet it is for.
LEMMA RevertDrafts ==
    ASSUME BooksInv, NEW p \in Calls, RevertRow(p)
    PROVE  Reads(p)'
  <1> DEFINE g == request[p].game
  <1>1. PICK s \in work[p].todo :
          /\ holder' = [holder EXCEPT ![s.user] = p]
          /\ work' = [work EXCEPT
               ![p].todo = @ \ {s},
               ![p].draft = @ \cup {Refund(p, s)},
               ![p].written[s.user] = GivenBack(p, s)]
    BY DEF RevertRow, Refund
  <1>2. pc[p] = "refund" /\ UNCHANGED <<tables, pc, request>>
    BY DEF RevertRow, At
  <1>3. DraftInv(p)
    BY <1>2 DEF BooksInv, Reads
  <1>4. s \in Transaction /\ s \in Stakes(g)
    BY <1>1, <1>3 DEF BooksInv, TypeOK, Work, DraftInv
  <1>5. s.user \in Users
    BY <1>4 DEF Transaction
  <1>6. /\ work'[p].seen = work[p].seen
        /\ work'[p].todo = work[p].todo \ {s}
        /\ work'[p].draft = work[p].draft \cup {Refund(p, s)}
        /\ work'[p].written = [work[p].written EXCEPT ![s.user] = GivenBack(p, s)]
    BY <1>1 DEF BooksInv, TypeOK, Work
  <1>7. \A u \in Users : work'[p].written[u] =
          IF u = s.user THEN GivenBack(p, s) ELSE work[p].written[u]
    BY <1>5, <1>6 DEF BooksInv, TypeOK, Work
  <1>8. \A u \in Users : holder'[u] = IF u = s.user THEN p ELSE holder[u]
    BY <1>1, <1>5 DEF BooksInv, TypeOK
  <1>9. /\ Stakes(g)' = Stakes(g) /\ balance' = balance /\ request'[p] = request[p]
        /\ \A t : Refund(p, t)' = Refund(p, t)
    BY <1>2 DEF Stakes, tables, Refund
  <1>10. \A t : GivenBack(p, t)' = GivenBack(p, t)
    BY <1>6 DEF GivenBack
  <1>11. Refund(p, s).user = s.user
    BY <1>4 DEF Refund, Transaction
  <1>12. \A t \in Stakes(g) \ work'[p].todo : t = s \/ t \in Stakes(g) \ work[p].todo
    BY <1>6
  <1>13. \A t \in Stakes(g) : t.user \in Users
    BY DEF Stakes, BooksInv, TypeOK, Transaction
  <1>14. work'[p].seen = balance' /\ IsFiniteSet(work'[p].draft)
    <2>1. work[p].seen = balance /\ IsFiniteSet(work[p].draft)
      BY <1>3 DEF DraftInv
    <2>2. IsFiniteSet(work[p].draft \cup {Refund(p, s)})
      BY <2>1, FS_AddElement
    <2> QED BY <1>6, <1>9, <2>1, <2>2
  <1>15. work'[p].todo \subseteq Stakes(g)
    BY <1>3, <1>6 DEF DraftInv
  <1>16. \A t \in Stakes(g) \ work'[p].todo : Refund(p, t) \in work'[p].draft
    BY <1>3, <1>6, <1>12 DEF DraftInv
  <1>17. \A d \in work'[p].draft : \E t \in Stakes(g) \ work'[p].todo : d = Refund(p, t)
    <2> SUFFICES ASSUME NEW d \in work'[p].draft
                 PROVE  \E t \in Stakes(g) \ work'[p].todo : d = Refund(p, t)
      OBVIOUS
    <2>1. CASE d = Refund(p, s)
      BY <1>4, <1>6, <2>1
    <2>2. CASE d \in work[p].draft
      <3>1. PICK t \in Stakes(g) \ work[p].todo : d = Refund(p, t)
        BY <1>3, <2>2 DEF DraftInv
      <3> QED BY <1>6, <3>1
    <2> QED BY <1>6, <2>1, <2>2
  <1>18. \A u \in Users : holder'[u] = p <=> \E d \in work'[p].draft : d.user = u
    <2>1. \A u \in Users : holder[u] = p <=> \E d \in work[p].draft : d.user = u
      BY <1>3 DEF DraftInv
    <2> QED BY <1>6, <1>8, <1>11, <2>1
  <1>19. \A t \in Stakes(g) \ work'[p].todo :
           (\A x \in Stakes(g) : x.user = t.user => x = t) =>
             work'[p].written[t.user] = GivenBack(p, t)
    <2> SUFFICES ASSUME NEW t \in Stakes(g) \ work'[p].todo,
                        \A x \in Stakes(g) : x.user = t.user => x = t
                 PROVE  work'[p].written[t.user] = GivenBack(p, t)
      OBVIOUS
    <2>1. CASE t = s
      BY <1>5, <1>7, <2>1
    <2>2. CASE t # s
      <3>1. t.user # s.user /\ t.user \in Users
        BY <1>4, <1>13, <2>2
      <3>2. work[p].written[t.user] = GivenBack(p, t)
        BY <1>3, <1>12, <2>2 DEF DraftInv
      <3> QED BY <1>7, <3>1, <3>2
    <2> QED BY <2>1, <2>2
  <1>20. DraftInv(p)'
    BY <1>9, <1>10, <1>14, <1>15, <1>16, <1>17, <1>18, <1>19 DEF DraftInv
  <1> QED BY <1>2, <1>20 DEF Reads

\* What p goes by after its step.
LEMMA ReadsStep ==
    ASSUME BooksInv, NEW p \in Calls, Receive(p) \/ Step(p) \/ Abort(p)
    PROVE  Reads(p)'
  <1>1. TypeOK /\ Reads(p)
    BY DEF BooksInv
  <1>2. ASSUME NEW outcome \in {"done", "failed"}, End(p, outcome) PROVE Reads(p)'
    BY <1>1, <1>2, EndReads DEF Over
  <1>3. CASE Receive(p)
    <2>1. pc[p] = "idle" /\ pc'[p] = "start" /\ UNCHANGED <<tables, holder, work>>
      BY <1>1, <1>3 DEF Receive, TypeOK
    <2>2. request'[p].kind = "createWallet" => request'[p].user \notin erased
      BY <1>1, <1>3 DEF Receive, Sensible, TypeOK
    <2> QED BY <1>1, <2>1, <2>2 DEF Reads, tables
  <1>4. CASE Abort(p)
    <2>1. CASE pc[p] = "record"
      BY <1>1, <1>4, <2>1, EndReads DEF Abort, Reads, tables, Over
    <2>2. CASE pc[p] # "record"
      BY <1>2, <1>4, <2>2 DEF Abort
    <2> QED BY <2>1, <2>2
  <1>5. CASE Refuse(p) \/ CreateInsert(p) \/ TransferRecord(p) \/ RevertOrphan(p)
    BY <1>2, <1>5 DEF Refuse, CreateInsert, TransferRecord, RevertOrphan
  <1>6. CASE LockFundsCommit(p) \/ ReleaseFundsCommit(p) \/ RevertCommit(p)
    BY <1>2, <1>6 DEF LockFundsCommit, ReleaseFundsCommit, RevertCommit
  <1>7. CASE DeleteErase(p) \/ DeadlockVictim(p)
    BY <1>2, <1>7 DEF DeleteErase, DeadlockVictim
  <1>8. CASE CreateRead(p)
    <2>1. CASE End(p, "done")
      BY <1>2, <2>1
    <2>2. CASE ~End(p, "done")
      <3>1. /\ pc[p] = "start" /\ pc'[p] = "insert"
            /\ UNCHANGED <<tables, holder, request, work>>
        BY <1>1, <1>8, <2>2 DEF CreateRead, At, TypeOK
      <3> QED BY <1>1, <3>1 DEF Reads, tables
    <2> QED BY <2>1, <2>2
  <1>9. CASE DeleteRead(p)
    <2>1. CASE End(p, "done")
      BY <1>2, <2>1
    <2>2. CASE ~End(p, "done")
      <3>1. /\ pc[p] = "start" /\ pc'[p] = "erase"
            /\ UNCHANGED <<tables, holder, request, work>>
        BY <1>1, <1>9, <2>2 DEF DeleteRead, At, TypeOK
      <3> QED BY <1>1, <3>1 DEF Reads, tables
    <2> QED BY <2>1, <2>2
  <1>10. CASE TransferRead(p) \/ LockedRead(p)
    <2> DEFINE u == request[p].user
    <2>1. /\ pc[p] = "start" /\ u \in wallets /\ work' = SeeBalance(p, u)
          /\ UNCHANGED <<tables, request>>
          /\ \/ /\ pc' = [pc EXCEPT ![p] = "save"] /\ holder' = holder
                /\ request[p].kind \in {"deposit", "withdraw"}
             \/ pc' = [pc EXCEPT ![p] = "locked"]
      BY <1>10 DEF TransferRead, LockedRead, At
    <2>2. u \in Users
      BY <1>1, <2>1 DEF TypeOK
    <2>3. work'[p].seen[u] = balance[u] /\ work'[p].draft = work[p].draft
      BY <1>1, <2>1, <2>2 DEF TypeOK, Work, SeeBalance
    <2>4. \/ pc'[p] = "save" /\ holder' = holder
             /\ request[p].kind \in {"deposit", "withdraw"}
          \/ pc'[p] = "locked"
      BY <1>1, <2>1 DEF TypeOK
    <2>5. work[p].draft = {} /\ \A v \in Users : holder[v] # p
      BY <1>1, <2>1 DEF Reads
    <2>6. u \in wallets' /\ balance' = balance /\ request'[p] = request[p]
      BY <2>1 DEF tables
    <2> HIDE DEF u
    <2>7. request'[p].user = u
      BY <2>6 DEF u
    <2> QED BY <2>3, <2>4, <2>5, <2>6, <2>7 DEF Reads
  <1>11. CASE TransferSave(p)
    <2>1. /\ pc[p] = "save" /\ pc'[p] = "record" /\ wallets \subseteq wallets'
          /\ UNCHANGED <<holder, request, work>>
      BY <1>1, <1>11 DEF TransferSave, At, TypeOK
    <2> QED BY <1>1, <2>1 DEF Reads
  <1>12. CASE RevertRead(p)
    BY <1>2, <1>12, RevertBegins
  <1>13. CASE RevertRow(p)
    BY <1>13, RevertDrafts
  <1> QED BY <1>3, <1>4, <1>5, <1>6, <1>7, <1>8, <1>9, <1>10, <1>11, <1>12, <1>13 DEF Step

-----------------------------------------------------------------------------
(* What a step does to the tables, and to the saves whose row is missing.    *)

Quiet == UNCHANGED <<wallets, balance, transactions, erased>> /\ Late' = Late

Creates(p) ==
    LET u == request[p].user
    IN  /\ u \in Users \ (wallets \cup erased)
        /\ wallets' = wallets \cup {u}
        /\ balance' = [balance EXCEPT ![u] = WelcomeBalance]
        /\ UNCHANGED <<transactions, erased>> /\ Late' = Late

Saves(p) ==
    /\ request[p].user \in wallets /\ request[p].kind \in {"deposit", "withdraw"}
    /\ balance' = [balance EXCEPT ![request[p].user] = @ + Moved(p)]
    /\ UNCHANGED <<wallets, transactions, erased>>
    /\ p \notin Late /\ Late' = Late \cup {p}

Inserts(p, type, ref) ==
    /\ request[p].user \in wallets /\ pc'[p] = "done"
    /\ request[p].kind \in {"deposit", "withdraw", "lockFunds", "releaseFunds"}
    /\ type \in {"DEPOSIT", "WITHDRAW", "WAGER", "PAYOUT"}
    /\ transactions' = transactions \cup {Row(p, type, ref)}
    /\ UNCHANGED <<wallets, erased>>

Gain(p, type) ==
    IF type \in {"DEPOSIT", "PAYOUT"} THEN request[p].amount ELSE -request[p].amount

Records(p, type, ref) ==
    /\ Inserts(p, type, ref) /\ UNCHANGED balance
    /\ Gain(p, type) = Moved(p) /\ p \in Late /\ Late' = Late \ {p}

Commits(p, type, ref) ==
    /\ Inserts(p, type, ref) /\ Late' = Late
    /\ balance' = [balance EXCEPT ![request[p].user] = @ + Gain(p, type)]

Reverts(p) == RevertCommit(p) /\ pc'[p] = "done" /\ Late' = Late

Erases(p) == DeleteErase(p) /\ Late' = Late

LEMMA LateSame ==
    ASSUME NEW p \in Calls, \A q \in Calls : q # p => pc'[q] = pc[q],
           pc'[p] \in {"record", "lost"} <=> pc[p] \in {"record", "lost"}
    PROVE  Late' = Late
  BY DEF Late

LEMMA StepShape ==
    ASSUME BooksInv, MaxInFlight = 1, NEW p \in Calls, Receive(p) \/ Step(p) \/ Abort(p)
    PROVE  \/ Quiet \/ Creates(p) \/ Saves(p)
           \/ \E type, ref : Records(p, type, ref) \/ Commits(p, type, ref)
           \/ Reverts(p) \/ Erases(p)
  <1>1. TypeOK /\ Alone /\ Reads(p)
    BY DEF BooksInv
  <1>2. pc[p] # "lost" /\ \A q \in Calls : q # p => pc'[q] = pc[q]
    BY <1>1, AloneStep DEF Over
  <1>3. ASSUME pc'[p] \notin {"record", "lost"}, pc[p] # "record"
        PROVE  Late' = Late
    BY <1>2, <1>3, LateSame
  <1>4. ASSUME NEW outcome \in {"done", "failed"}, End(p, outcome), pc[p] # "record"
        PROVE  Late' = Late /\ pc'[p] = outcome
    <2>1. pc'[p] = outcome
      BY <1>1, <1>4 DEF End, TypeOK
    <2> QED BY <1>3, <1>4, <2>1
  <1>5. pc[p] # "idle" => /\ request[p].kind # "revertGame" => request[p].user \in Users
                          /\ request[p].kind \in {"deposit", "withdraw", "lockFunds",
                               "releaseFunds"} => request[p].amount \in Amounts
    BY <1>1, RequestFields DEF TypeOK
  <1>6. CASE Receive(p) \/ TransferRead(p) \/ LockedRead(p)
    <2>1. pc'[p] \in {"start", "save", "locked"} /\ pc[p] \in {"idle", "start"}
      BY <1>1, <1>6 DEF Receive, TransferRead, LockedRead, TypeOK, At
    <2>2. UNCHANGED tables
      BY <1>6 DEF Receive, TransferRead, LockedRead
    <2> QED BY <1>3, <2>1, <2>2 DEF Quiet, tables
  <1>7. CASE Refuse(p) \/ RevertOrphan(p) \/ DeadlockVictim(p)
    <2>1. UNCHANGED tables /\ End(p, "failed")
      BY <1>7 DEF Refuse, RevertOrphan, DeadlockVictim
    <2>2. pc[p] # "record"
      <3>1. CASE Refuse(p) \/ RevertOrphan(p)
        BY <3>1 DEF Refuse, RevertOrphan, At
      <3>2. CASE DeadlockVictim(p)
        BY <3>2 DEF DeadlockVictim, WaitsFor, At
      <3> QED BY <1>7, <3>1, <3>2
    <2> QED BY <1>4, <2>1, <2>2 DEF Quiet, tables
  <1>8. CASE Abort(p)
    <2>1. UNCHANGED tables /\ pc'[p] = IF pc[p] = "record" THEN "lost" ELSE "failed"
      BY <1>1, <1>8 DEF Abort, End, TypeOK
    <2>2. Late' = Late
      BY <1>2, <2>1, LateSame
    <2> QED BY <2>1, <2>2 DEF Quiet, tables
  <1>9. CASE CreateRead(p) \/ DeleteRead(p) \/ RevertRead(p)
    <2>1. UNCHANGED tables /\ pc[p] = "start"
          /\ pc'[p] \in {"done", "insert", "erase", "refund"}
      BY <1>1, <1>9 DEF CreateRead, DeleteRead, RevertRead, End, At, TypeOK
    <2> QED BY <1>3, <2>1 DEF Quiet, tables
  <1>10. CASE RevertRow(p)
    BY <1>2, <1>10, LateSame DEF RevertRow, Quiet, tables
  <1>11. CASE CreateInsert(p)
    <2> DEFINE u == request[p].user
    <2>1. pc[p] = "insert" /\ u \in Users /\ u \notin erased
      BY <1>1, <1>5, <1>11 DEF CreateInsert, At, Reads
    <2>2. CASE u \in wallets
      <3>1. UNCHANGED <<wallets, balance, transactions, erased>> /\ End(p, "failed")
        BY <1>11, <2>2 DEF CreateInsert
      <3> QED BY <1>4, <2>1, <3>1 DEF Quiet
    <2>3. CASE u \notin wallets
      <3>1. /\ wallets' = wallets \cup {u} /\ End(p, "done")
            /\ balance' = [balance EXCEPT ![u] = WelcomeBalance]
            /\ UNCHANGED <<transactions, erased>>
        BY <1>11, <2>3 DEF CreateInsert
      <3>2. Late' = Late
        BY <1>4, <2>1, <3>1
      <3> QED BY <2>1, <2>3, <3>1, <3>2 DEF Creates
    <2> QED BY <2>2, <2>3
  <1>12. CASE TransferSave(p)
    <2> DEFINE u == request[p].user
    <2>1. /\ u \in wallets /\ work[p].seen[u] = balance[u]
          /\ request[p].kind \in {"deposit", "withdraw"} /\ pc[p] = "save"
      BY <1>1, <1>12 DEF TransferSave, At, Reads
    <2>2. /\ balance' = [balance EXCEPT ![u] = NewBalance(p)]
          /\ UNCHANGED <<wallets, transactions, erased>> /\ pc'[p] = "record"
      BY <1>1, <1>12, <2>1 DEF TransferSave, TypeOK
    <2>3. u \in Users /\ request[p].amount \in Int /\ balance[u] \in Int
      BY <1>1, <1>5, <2>1, Money DEF TypeOK
    <2>4. NewBalance(p) = balance[u] + Moved(p)
      BY <2>1, <2>3 DEF NewBalance, Moved
    <2>5. p \notin Late /\ Late' = Late \cup {p}
      BY <1>2, <2>1, <2>2 DEF Late
    <2> QED BY <2>1, <2>2, <2>4, <2>5 DEF Saves
  <1>13. CASE TransferRecord(p)
    <2> DEFINE type == IF request[p].kind = "deposit" THEN "DEPOSIT" ELSE "WITHDRAW"
    <2>1. /\ request[p].user \in wallets /\ pc[p] = "record"
          /\ request[p].kind \in {"deposit", "withdraw"}
      BY <1>1, <1>13 DEF TransferRecord, At, Reads
    <2>2. /\ transactions' = transactions \cup {Row(p, type, NoGame)} /\ End(p, "done")
          /\ UNCHANGED <<wallets, balance, erased>>
      BY <1>13, <2>1 DEF TransferRecord
    <2>3. pc'[p] = "done"
      BY <1>1, <2>2 DEF End, TypeOK
    <2>4. p \in Late /\ Late' = Late \ {p}
      BY <1>2, <2>1, <2>3 DEF Late
    <2>5. Gain(p, type) = Moved(p)
      BY <2>1 DEF Gain, Moved
    <2>6. Records(p, type, NoGame)
      BY <2>1, <2>2, <2>3, <2>4, <2>5 DEF Records, Inserts
    <2> QED BY <2>6
  <1>14. CASE LockFundsCommit(p) \/ ReleaseFundsCommit(p)
    <2> DEFINE type == IF request[p].kind = "lockFunds" THEN "WAGER" ELSE "PAYOUT"
               u == request[p].user
    <2>1. /\ pc[p] = "locked" /\ request[p].kind \in {"lockFunds", "releaseFunds"}
          /\ balance' = [balance EXCEPT ![u] = NewBalance(p)]
          /\ transactions' = transactions \cup {Row(p, type, request[p].game)}
          /\ UNCHANGED <<wallets, erased>> /\ End(p, "done")
      BY <1>14 DEF LockFundsCommit, ReleaseFundsCommit, At
    <2>2. u \in wallets /\ work[p].seen[u] = balance[u]
      BY <1>1, <2>1 DEF Reads
    <2>3. u \in Users /\ request[p].amount \in Int /\ balance[u] \in Int
      BY <1>1, <1>5, <2>1, <2>2, Money DEF TypeOK
    <2>4. NewBalance(p) = balance[u] + Gain(p, type)
      BY <2>1, <2>2, <2>3 DEF NewBalance, Gain
    <2>5. Late' = Late /\ pc'[p] = "done"
      BY <1>4, <2>1
    <2>6. Commits(p, type, request[p].game)
      BY <2>1, <2>2, <2>4, <2>5 DEF Commits, Inserts
    <2> QED BY <2>6
  <1>15. CASE RevertCommit(p)
    BY <1>4, <1>15 DEF RevertCommit, At, Reverts
  <1>16. CASE DeleteErase(p)
    BY <1>4, <1>16 DEF DeleteErase, At, Erases
  <1> QED BY <1>6, <1>7, <1>8, <1>9, <1>10, <1>11, <1>12, <1>13, <1>14, <1>15, <1>16 DEF Step

\* The locks a step takes or frees are those of its call.
LEMMA OthersLockTheSame ==
    ASSUME TypeOK, NEW p \in Calls, NEW q \in Calls, q # p,
           Receive(p) \/ Step(p) \/ Abort(p), NEW u \in Users, holder'[u] = q
    PROVE  holder[u] = q
  <1>1. ASSUME holder' = holder PROVE holder[u] = q
    BY <1>1
  <1>2. ASSUME NEW outcome, End(p, outcome) PROVE holder[u] = q
    BY <1>2, WalletAssumption DEF End, TypeOK
  <1>3. ASSUME NEW v, holder' = [holder EXCEPT ![v] = p] PROVE holder[u] = q
    BY <1>3 DEF TypeOK
  <1>4. CASE Receive(p) \/ Abort(p) \/ Refuse(p) \/ CreateInsert(p) \/ TransferRead(p)
    BY <1>1, <1>2, <1>4 DEF Receive, Abort, Refuse, CreateInsert, TransferRead
  <1>5. CASE CreateRead(p) \/ DeleteRead(p) \/ RevertRead(p) \/ TransferRecord(p)
    BY <1>1, <1>2, <1>5 DEF CreateRead, DeleteRead, RevertRead, TransferRecord
  <1>6. CASE TransferSave(p) \/ LockFundsCommit(p) \/ ReleaseFundsCommit(p)
    BY <1>1, <1>2, <1>6 DEF TransferSave, LockFundsCommit, ReleaseFundsCommit
  <1>7. CASE RevertOrphan(p) \/ RevertCommit(p) \/ DeleteErase(p) \/ DeadlockVictim(p)
    BY <1>2, <1>7 DEF RevertOrphan, RevertCommit, DeleteErase, DeadlockVictim
  <1>8. CASE LockedRead(p) \/ RevertRow(p)
    BY <1>3, <1>8 DEF LockedRead, RevertRow
  <1> QED BY <1>4, <1>5, <1>6, <1>7, <1>8 DEF Step

\* A call that is over, or not yet made, goes by what it did.
LEMMA OthersRead ==
    ASSUME BooksInv, MaxInFlight = 1, NEW p \in Calls, NEW q \in Calls, q # p,
           Receive(p) \/ Step(p) \/ Abort(p)
    PROVE  Reads(q)'
  <1>1. TypeOK /\ Alone /\ Reads(q)
    BY DEF BooksInv
  <1>2. pc'[q] = pc[q] /\ pc[q] \in Over \cup {"idle"}
    BY <1>1, AloneStep
  <1>3. request'[q] = request[q] /\ work'[q] = work[q]
    BY <1>1, OthersWriteTheSame
  <1>4. \A u \in Users : holder'[u] # q
    BY <1>1, <1>2, OthersLockTheSame DEF Reads, Over
  <1>5. wallets \cup erased \subseteq wallets' \cup erased'
    BY StepShape DEF Quiet, Creates, Saves, Records, Commits, Inserts, Reverts, Erases,
       RevertCommit, DeleteErase
  <1> QED BY <1>1, <1>2, <1>3, <1>4, <1>5 DEF Reads, Over

\* Rows that were there keep their calls over; what is left of them stays right.
LEMMA RowsKept ==
    ASSUME RowsInv, NEW p \in Calls, pc[p] \notin Over,
           \A q \in Calls : q # p => pc'[q] = pc[q],
           transactions \subseteq Transaction,
           NEW t \in transactions
    PROVE  /\ t.call # p /\ t.of # p /\ {pc'[t.call], pc'[t.of]} \subseteq Over
           /\ t.call \in Calls /\ t.of \in Calls
  BY DEF RowsInv, Transaction

LEMMA RowsStep ==
    ASSUME BooksInv, MaxInFlight = 1, NEW p \in Calls, Receive(p) \/ Step(p) \/ Abort(p)
    PROVE  RowsInv'
  <1>1. TypeOK /\ Alone /\ Reads(p) /\ RowsInv /\ transactions \subseteq Transaction
    BY DEF BooksInv, TypeOK
  <1>2. pc[p] \notin Over /\ \A q \in Calls : q # p => pc'[q] = pc[q]
    BY <1>1, AloneStep
  <1>3. \A t \in transactions : /\ t.call # p /\ t.of # p
                                /\ {pc'[t.call], pc'[t.of]} \subseteq Over
    BY <1>1, <1>2, RowsKept
  <1>4. IsFiniteSet(Late')
    <2>1. IsFiniteSet(Late \cup {p})
      BY <1>1, FS_AddElement DEF RowsInv
    <2>2. Late' \subseteq Late \cup {p}
      BY <1>2 DEF Late
    <2> QED BY <2>1, <2>2, FS_Subset
  <1> DEFINE Placed == \A t \in transactions' :
                         t.user \in wallets' /\ {pc'[t.call], pc'[t.of]} \subseteq Over
             Paired == \A s, t \in transactions' : s.type # "REFUND" =>
                         /\ s.of = s.call
                         /\ s.call = t.of => s.user = t.user /\ (t.type # "REFUND" => s = t)
  <1>5. SUFFICES IsFiniteSet(transactions') /\ Placed /\ Paired
    BY <1>4 DEF RowsInv
  <1>6. ASSUME transactions' \subseteq transactions,
               \A t \in transactions' : t.user \in wallets => t.user \in wallets'
        PROVE  IsFiniteSet(transactions') /\ Placed /\ Paired
    <2>1. IsFiniteSet(transactions')
      BY <1>1, <1>6, FS_Subset DEF RowsInv
    <2>2. Placed
      BY <1>1, <1>3, <1>6 DEF RowsInv
    <2>3. Paired
      BY <1>1, <1>6 DEF RowsInv
    <2> QED BY <2>1, <2>2, <2>3
  <1>7. CASE Quiet \/ Creates(p) \/ Saves(p)
    <2>1. transactions' = transactions /\ wallets \subseteq wallets'
      BY <1>7 DEF Quiet, Creates, Saves
    <2> QED BY <1>6, <2>1
  <1>8. CASE Erases(p)
    <2>1. /\ transactions' = {t \in transactions : t.user # request[p].user}
          /\ wallets' = wallets \ {request[p].user}
      BY <1>8 DEF Erases, DeleteErase
    <2> QED BY <1>6, <2>1
  <1>9. ASSUME NEW type, NEW ref, Inserts(p, type, ref)
        PROVE  IsFiniteSet(transactions') /\ Placed /\ Paired
    <2>1. PICK row : /\ row.call = p /\ row.of = p /\ row.user = request[p].user
                     /\ row.type = type /\ transactions' = transactions \cup {row}
      BY <1>9 DEF Inserts, Row
    <2>2. wallets' = wallets /\ request[p].user \in wallets /\ pc'[p] = "done"
      BY <1>9 DEF Inserts
    <2>3. IsFiniteSet(transactions')
      <3>1. IsFiniteSet(transactions)
        BY <1>1 DEF RowsInv
      <3>2. IsFiniteSet(transactions \cup {row})
        BY <3>1, FS_AddElement
      <3> QED BY <2>1, <3>2
    <2>4. Placed
      BY <1>1, <1>3, <2>1, <2>2 DEF RowsInv, Over
    <2>5. Paired
      BY <1>1, <1>3, <2>1 DEF RowsInv
    <2> QED BY <2>3, <2>4, <2>5
  <1>10. CASE Reverts(p)
    <2> DEFINE draft == work[p].draft
               g == request[p].game
    <2>1. /\ transactions' = transactions \cup draft /\ wallets' = wallets
          /\ pc'[p] = "done" /\ pc[p] = "refund"
      BY <1>10 DEF Reverts, RevertCommit, At
    <2>2. DraftInv(p)
      BY <1>1, <2>1 DEF Reads
    <2>3. \A d \in draft : \E t \in transactions :
            d.call = p /\ d.type = "REFUND" /\ d.of = t.of /\ d.user = t.user
              /\ t.type # "REFUND"
      <3>1. \A t \in transactions : /\ Refund(p, t).call = p /\ Refund(p, t).type = "REFUND"
                                    /\ Refund(p, t).of = t.of /\ Refund(p, t).user = t.user
        BY <1>1 DEF Refund, Transaction
      <3> QED BY <2>2, <3>1 DEF DraftInv, Stakes
    <2> HIDE DEF draft
    <2>4. IsFiniteSet(transactions')
      <3>1. IsFiniteSet(transactions) /\ IsFiniteSet(draft)
        BY <1>1, <2>2 DEF RowsInv, DraftInv, draft
      <3> QED BY <2>1, <3>1, FS_Union
    <2>5. Placed
      BY <1>1, <1>3, <2>1, <2>3 DEF RowsInv, Over
    <2>6. Paired
      <3> SUFFICES ASSUME NEW s \in transactions', NEW t \in transactions', s.type # "REFUND"
                   PROVE  /\ s.of = s.call
                          /\ s.call = t.of => s.user = t.user /\ (t.type # "REFUND" => s = t)
        OBVIOUS
      <3>1. s \in transactions
        BY <2>1, <2>3
      <3>2. CASE t \in transactions
        BY <1>1, <3>1, <3>2 DEF RowsInv
      <3>3. CASE t \in draft
        <4>1. PICK x \in transactions : /\ t.of = x.of /\ t.user = x.user
                                        /\ t.type = "REFUND"
          BY <2>3, <3>3
        <4> QED BY <1>1, <3>1, <4>1 DEF RowsInv
      <3> QED BY <2>1, <3>2, <3>3
    <2> QED BY <2>4, <2>5, <2>6
  <1>11. ASSUME NEW type, NEW ref, Records(p, type, ref) \/ Commits(p, type, ref)
         PROVE  IsFiniteSet(transactions') /\ Placed /\ Paired
    BY <1>9, <1>11 DEF Records, Commits
  <1> QED BY <1>7, <1>8, <1>10, <1>11, StepShape

LEMMA BooksStep ==
    ASSUME BooksInv, MaxInFlight = 1, NEW p \in Calls, Receive(p) \/ Step(p) \/ Abort(p)
    PROVE  BooksInv'
  <1>1. TypeOK' /\ Alone' /\ RowsInv'
    BY StepTypeOK, AloneStep, RowsStep DEF BooksInv
  <1>2. \A q \in Calls : Reads(q)'
    BY ReadsStep, OthersRead
  <1> QED BY <1>1, <1>2 DEF BooksInv

-----------------------------------------------------------------------------
(* What a step does to the two sums.                                         *)

\* A step adds rows of its own call, and drops those of the wallet it deletes.
LEMMA RowsOfStep ==
    ASSUME BooksInv, MaxInFlight = 1, NEW p \in Calls, Receive(p) \/ Step(p) \/ Abort(p)
    PROVE  /\ \A t \in transactions' : t \in transactions \/ t.call = p
           /\ \A t \in transactions : t.user \in wallets' => t \in transactions'
  <1>1. CASE Quiet \/ Creates(p) \/ Saves(p)
    BY <1>1 DEF Quiet, Creates, Saves
  <1>2. CASE \E type, ref : Records(p, type, ref) \/ Commits(p, type, ref)
    BY <1>2 DEF Records, Commits, Inserts, Row
  <1>3. CASE Erases(p)
    BY <1>3 DEF Erases, DeleteErase
  <1>4. CASE Reverts(p)
    <2>1. transactions' = transactions \cup work[p].draft /\ DraftInv(p)
      BY <1>4 DEF Reverts, RevertCommit, At, BooksInv, Reads
    <2>2. \A t \in transactions : Refund(p, t).call = p
      BY DEF BooksInv, TypeOK, Transaction, Refund
    <2>3. \A d \in work[p].draft : d.call = p
      BY <2>1, <2>2 DEF DraftInv, Stakes
    <2> QED BY <2>1, <2>3
  <1> QED BY <1>1, <1>2, <1>3, <1>4, StepShape

\* What a row did to its balance is not changed by rows of other calls, nor by
\* the deletion of another wallet.
LEMMA EffectKept ==
    ASSUME BooksInv, MaxInFlight = 1, NEW p \in Calls, Receive(p) \/ Step(p) \/ Abort(p),
           NEW t \in transactions, t \in transactions'
    PROVE  Effect(t)' = Effect(t)
  <1>1. TypeOK /\ Alone /\ RowsInv /\ transactions \subseteq Transaction
    BY DEF BooksInv, TypeOK
  <1>2. pc[p] \notin Over /\ \A q \in Calls : q # p => pc'[q] = pc[q]
    BY <1>1, AloneStep
  <1>3. t.of # p
    BY <1>1, <1>2, RowsKept
  <1>4. t.user \in wallets'
    BY RowsStep DEF RowsInv
  <1>5. \A s \in transactions : s.call = t.of /\ s.type = "PAYOUT" => s \in transactions'
    BY <1>1, <1>4, RowsOfStep DEF RowsInv
  <1>6. \A s \in transactions' : s.call = t.of => s \in transactions
    BY <1>3, RowsOfStep
  <1>7. (\E s \in transactions : s.call = t.of /\ s.type = "PAYOUT")
          <=> \E s \in transactions' : s.call = t.of /\ s.type = "PAYOUT"
    BY <1>5, <1>6
  <1> QED BY <1>7 DEF Effect

LEMMA RowsTotal ==
    ASSUME BooksInv, BooksInv', NEW u,
           \A t \in transactions : t \in transactions' => Effect(t)' = Effect(t)
    PROVE  /\ Rows(u)' = Rows(u) => Total(Effects', Rows(u)') = Total(Effects, Rows(u))
           /\ \A row \in transactions' \ transactions :
                Rows(u)' = Rows(u) \cup {row} =>
                  Total(Effects', Rows(u)') = Total(Effects, Rows(u)) + Effect(row)'
           /\ Total(Effects, Rows(u)) \in Int
  <1> DEFINE e == Effects
             f == Effects'
             S == Rows(u)
             T == Rows(u)'
  <1>1. IsFiniteSet(S) /\ S \subseteq transactions /\ T \subseteq transactions'
    <2>1. S \subseteq transactions /\ IsFiniteSet(transactions)
      BY DEF Rows, BooksInv, RowsInv
    <2> QED BY <2>1, FS_Subset DEF Rows
  <1>2. /\ \A t \in transactions : e[t] = Effect(t)
        /\ \A t \in transactions' : f[t] = Effect(t)'
    BY DEF Effects
  <1>3. \A t \in transactions \cup transactions' : t.amount \in Int
    BY Money DEF BooksInv, TypeOK, Transaction
  <1>4. /\ \A t \in transactions : Effect(t) \in Int
        /\ \A t \in transactions' : Effect(t)' \in Int
    BY <1>3 DEF Effect
  <1>5. \A t \in S : t \in T => f[t] = e[t]
    BY <1>1, <1>2
  <1>6. Total(e, S) \in Int
    <2>1. \A t \in S : e[t] \in Int
      BY <1>1, <1>2, <1>4
    <2> HIDE DEF e, S
    <2> QED BY <1>1, <2>1, TotalInt
  <1>7. ASSUME T = S PROVE Total(f, T) = Total(e, S)
    <2>1. \A t \in S : e[t] = f[t]
      BY <1>5, <1>7
    <2> HIDE DEF e, f, S, T
    <2> QED BY <1>1, <1>7, <2>1, TotalSame
  <1>8. ASSUME NEW row \in transactions', row \notin transactions, T = S \cup {row}
        PROVE  Total(f, T) = Total(e, S) + Effect(row)'
    <2>1. row \notin S /\ f[row] = Effect(row)'
      BY <1>1, <1>2, <1>8
    <2>2. \A t \in S : e[t] = f[t]
      BY <1>5, <1>8
    <2>3. \A t \in S \cup {row} : f[t] \in Int
      BY <1>1, <1>2, <1>4, <1>8
    <2> HIDE DEF e, f, S, T
    <2>4. IsFiniteSet(S)
      BY <1>1
    <2>5. row \notin S
      BY <2>1
    <2>6. Total(f, S \cup {row}) = Total(e, S) + f[row]
      BY ONLY <2>2, <2>3, <2>4, <2>5, TotalAdd
    <2> QED BY <1>8, <2>1, <2>6
  <1> QED BY <1>6, <1>7, <1>8

LEMMA LateTotal ==
    ASSUME BooksInv, BooksInv', NEW u, NEW p,
           \A q \in Late \cup Late' : request'[q] = request[q]
    PROVE  /\ Unrecorded(u)' = Unrecorded(u) =>
                Total(MovedBy', Unrecorded(u)') = Total(MovedBy, Unrecorded(u))
           /\ p \notin Unrecorded(u) /\ Unrecorded(u)' = Unrecorded(u) \cup {p} =>
                Total(MovedBy', Unrecorded(u)') = Total(MovedBy, Unrecorded(u)) + Moved(p)
           /\ p \notin Unrecorded(u)' /\ Unrecorded(u) = Unrecorded(u)' \cup {p} =>
                Total(MovedBy, Unrecorded(u)) = Total(MovedBy', Unrecorded(u)') + Moved(p)
           /\ Total(MovedBy, Unrecorded(u)) \in Int
           /\ Total(MovedBy', Unrecorded(u)') \in Int
  <1> DEFINE e == MovedBy
             f == MovedBy'
             S == Unrecorded(u)
             T == Unrecorded(u)'
  <1>1. S \subseteq Late /\ T \subseteq Late' /\ IsFiniteSet(S) /\ IsFiniteSet(T)
    <2>1. S \subseteq Late /\ T \subseteq Late'
      BY DEF Unrecorded, Late
    <2>2. IsFiniteSet(Late) /\ IsFiniteSet(Late')
      BY DEF BooksInv, RowsInv
    <2> QED BY <2>1, <2>2, FS_Subset
  <1>2. \A q \in Late \cup Late' : e[q] = Moved(q) /\ f[q] = Moved(q)
    BY DEF MovedBy, Moved, Late
  <1>3. \A q \in Late \cup Late' : Moved(q) \in Int
    <2>1. \A q \in Late : request[q] \in Requests /\ request[q].kind \in {"deposit", "withdraw"}
      BY DEF BooksInv, Reads, TypeOK, Late
    <2>2. \A q \in Late' : request'[q] \in Requests /\ request'[q].kind \in {"deposit", "withdraw"}
      BY DEF BooksInv, Reads, TypeOK, Late
    <2>3. \A q \in Late \cup Late' : request[q].amount \in Int
      BY <2>1, <2>2, RequestFields, Money
    <2> QED BY <2>3 DEF Moved
  <1>4. \A q \in S \cup T : e[q] = f[q] /\ e[q] \in Int /\ f[q] \in Int /\ e[q] = Moved(q)
    BY <1>1, <1>2, <1>3
  <1> HIDE DEF e, f, S, T
  <1>5. Total(e, S) \in Int /\ Total(f, T) \in Int
    BY <1>1, <1>4, TotalInt
  <1>6. T = S => Total(f, T) = Total(e, S)
    BY <1>1, <1>4, TotalSame
  <1>7. ASSUME p \notin S, T = S \cup {p} PROVE Total(f, T) = Total(e, S) + Moved(p)
    <2>1. IsFiniteSet(S)
      BY <1>1
    <2>2. \A q \in S \cup {p} : f[q] \in Int
      BY <1>4, <1>7
    <2>3. \A q \in S : e[q] = f[q]
      BY <1>4
    <2>4. Total(f, S \cup {p}) = Total(e, S) + f[p]
      BY ONLY <1>7, <2>1, <2>2, <2>3, TotalAdd
    <2>5. f[p] = Moved(p)
      BY <1>4, <1>7
    <2> QED BY <1>7, <2>4, <2>5
  <1>8. ASSUME p \notin T, S = T \cup {p} PROVE Total(e, S) = Total(f, T) + Moved(p)
    <2>1. IsFiniteSet(T)
      BY <1>1
    <2>2. \A q \in T \cup {p} : e[q] \in Int
      BY <1>4, <1>8
    <2>3. \A q \in T : f[q] = e[q]
      BY <1>4
    <2>4. Total(e, T \cup {p}) = Total(f, T) + e[p]
      BY ONLY <1>8, <2>1, <2>2, <2>3, TotalAdd
    <2>5. e[p] = Moved(p)
      BY <1>4, <1>8
    <2> QED BY <1>8, <2>4, <2>5
  <1> QED BY <1>5, <1>6, <1>7, <1>8 DEF e, f, S, T

-----------------------------------------------------------------------------
(* The ledger adds up after every step.                                      *)

\* Who adds up the stakes of a game twice keeps doing so while the wallet is.
LEMMA TwoRowsStay ==
    ASSUME BooksInv, MaxInFlight = 1, NEW p \in Calls, Receive(p) \/ Step(p) \/ Abort(p),
           NEW u \in wallets', RevertedTwoRows(u)
    PROVE  RevertedTwoRows(u)'
  <1>1. PICK s \in transactions, t \in transactions, r \in transactions :
          /\ s.user = u /\ t.user = u /\ s.ref = t.ref /\ s # t
          /\ {s.type, t.type} \subseteq {"WAGER", "PAYOUT"}
          /\ r.type = "REFUND" /\ r.of = s.call
    BY DEF RevertedTwoRows
  <1>2. r.user = u
    BY <1>1 DEF BooksInv, RowsInv
  <1>3. {s, t, r} \subseteq transactions'
    BY <1>1, <1>2, RowsOfStep
  <1> QED BY <1>1, <1>3 DEF RevertedTwoRows

\* The rows of u and the saves that lack theirs add up to what they did before.
LEMMA SumsStay ==
    ASSUME BooksInv, BooksInv', NEW u, Rows(u)' = Rows(u), Unrecorded(u)' = Unrecorded(u),
           \A t \in transactions : t \in transactions' => Effect(t)' = Effect(t),
           \A q \in Late \cup Late' : request'[q] = request[q]
    PROVE  Ledger(u)' = Ledger(u)
  <1>1. Total(Effects', Rows(u)') = Total(Effects, Rows(u))
    BY RowsTotal
  <1>2. Total(MovedBy', Unrecorded(u)') = Total(MovedBy, Unrecorded(u))
    BY LateTotal
  <1> QED BY <1>1, <1>2 DEF Ledger

\* A revert moves the wallet of one stake by what its refund says.
LEMMA RevertAddsUp ==
    ASSUME BooksInv, BooksInv', MaxInFlight = 1, NEW p \in Calls, Reverts(p), Step(p),
           NEW u \in wallets, ~RevertedTwoRows(u)', balance[u] = Ledger(u),
           \A t \in transactions : t \in transactions' => Effect(t)' = Effect(t),
           \A q \in Late \cup Late' : request'[q] = request[q]
    PROVE  balance'[u] = Ledger(u)'
  <1> DEFINE g == request[p].game
             draft == work[p].draft
  <1>1. /\ transactions' = transactions \cup draft /\ work[p].todo = {}
        /\ balance'[u] = IF holder[u] = p THEN work[p].written[u] ELSE balance[u]
        /\ DraftInv(p) /\ Late' = Late /\ u \in Users
    BY DEF Reverts, RevertCommit, At, BooksInv, Reads, TypeOK
  <1>2. TypeOK /\ RowsInv /\ transactions \subseteq Transaction
    BY DEF BooksInv, TypeOK
  <1>3. Unrecorded(u)' = Unrecorded(u)
    BY <1>1 DEF Unrecorded, Late
  <1>4. \A t \in transactions :
          /\ Refund(p, t).call = p /\ Refund(p, t).type = "REFUND"
          /\ Refund(p, t).of = t.of /\ Refund(p, t).user = t.user
          /\ Refund(p, t).amount = t.amount
    BY <1>2 DEF Refund, Transaction
  <1>5. /\ \A t \in Stakes(g) : Refund(p, t) \in draft
        /\ \A d \in draft : \E t \in Stakes(g) : d = Refund(p, t)
        /\ holder[u] = p <=> \E d \in draft : d.user = u
        /\ work[p].seen = balance
        /\ \A t \in Stakes(g) : (\A s \in Stakes(g) : s.user = t.user => s = t) =>
             work[p].written[t.user] = GivenBack(p, t)
    BY <1>1 DEF DraftInv
  <1>6. \A t \in Stakes(g) : t \in transactions /\ t.type \in {"WAGER", "PAYOUT"} /\ t.ref = g
    BY DEF Stakes
  <1>7. CASE \A t \in Stakes(g) : t.user # u
    <2>1. \A d \in draft : d.user # u
      BY <1>4, <1>5, <1>6, <1>7
    <2>2. Rows(u)' = Rows(u)
      BY <1>1, <2>1 DEF Rows
    <2>3. balance'[u] = balance[u]
      BY <1>1, <1>5, <2>1
    <2>4. Ledger(u)' = Ledger(u)
      BY <1>3, <2>2, SumsStay
    <2> QED BY <2>3, <2>4
  <1>8. ASSUME NEW t \in Stakes(g), t.user = u PROVE balance'[u] = Ledger(u)'
    <2> DEFINE row == Refund(p, t)
    <2>1. \A s \in Stakes(g) : s.user = u => s = t
      <3> SUFFICES ASSUME NEW s \in Stakes(g), s.user = u, s # t PROVE FALSE
        OBVIOUS
      <3>1. {s, t} \subseteq transactions' /\ Refund(p, s) \in transactions'
        BY <1>1, <1>5, <1>6
      <3>2. Refund(p, s).type = "REFUND" /\ Refund(p, s).of = s.call
        BY <1>2, <1>4, <1>6 DEF RowsInv
      <3> QED BY <1>6, <1>8, <3>1, <3>2 DEF RevertedTwoRows
    <2>2. row \in draft /\ row.user = u /\ row.call = p /\ t \in transactions
      BY <1>4, <1>5, <1>6, <1>8
    <2>3. \A d \in draft : d.user = u => d = row
      BY <1>4, <1>5, <1>6, <2>1
    <2>4. Rows(u)' = Rows(u) \cup {row}
      BY <1>1, <2>2, <2>3 DEF Rows
    <2>5. row \in transactions' /\ row \notin transactions
      <3>1. pc[p] \notin Over
        BY AloneStep DEF BooksInv
      <3> QED BY <1>1, <1>2, <2>2, <3>1 DEF RowsInv
    <2>6. balance'[u] = GivenBack(p, t)
      BY <1>1, <1>5, <1>8, <2>1, <2>2
    <2>7. \A s \in transactions' : s.call = t.of /\ s.type = "PAYOUT" => s = t
      <3> SUFFICES ASSUME NEW s \in transactions', s.call = t.of, s.type = "PAYOUT"
                   PROVE  s = t
        OBVIOUS
      <3>1. s \in transactions
        BY <1>1, <1>4, <1>5, <1>6
      <3> QED BY <1>2, <1>6, <3>1 DEF RowsInv
    <2>8. t.of = t.call /\ t \in transactions'
      BY <1>1, <1>2, <1>6 DEF RowsInv
    <2>9. (\E s \in transactions' : s.call = row.of /\ s.type = "PAYOUT") <=> t.type = "PAYOUT"
      BY <1>4, <2>2, <2>7, <2>8
    <2>10. Effect(row)' = IF t.type = "PAYOUT" THEN -t.amount ELSE t.amount
      BY <1>4, <2>2, <2>9 DEF Effect
    <2>11. t.amount \in Int /\ balance[u] \in Int /\ WelcomeBalance \in Int
      BY <1>1, <1>2, <1>6, Money, WalletAssumption DEF Transaction, TypeOK
    <2>12. balance'[u] = balance[u] + Effect(row)'
      BY <1>5, <1>6, <1>8, <2>6, <2>10, <2>11 DEF GivenBack
    <2> HIDE DEF row
    <2>13. /\ Total(Effects', Rows(u)') = Total(Effects, Rows(u)) + Effect(row)'
           /\ Total(Effects, Rows(u)) \in Int
      BY <2>4, <2>5, RowsTotal
    <2>14. /\ Total(MovedBy', Unrecorded(u)') = Total(MovedBy, Unrecorded(u))
           /\ Total(MovedBy, Unrecorded(u)) \in Int
      BY <1>3, LateTotal
    <2>15. Effect(row)' \in Int
      BY <2>10, <2>11
    <2> QED BY <2>11, <2>12, <2>13, <2>14, <2>15 DEF Ledger
  <1> QED BY <1>7, <1>8

\* A row that a call inserts says what it did.
LEMMA InsertAddsUp ==
    ASSUME BooksInv, BooksInv', MaxInFlight = 1,
           NEW p \in Calls, Receive(p) \/ Step(p) \/ Abort(p),
           NEW type, NEW ref, Inserts(p, type, ref), NEW u, u = request[p].user,
           \A t \in transactions : t \in transactions' => Effect(t)' = Effect(t)
    PROVE  /\ Total(Effects', Rows(u)') = Total(Effects, Rows(u)) + Gain(p, type)
           /\ \A v : v # u => Rows(v)' = Rows(v)
           /\ Gain(p, type) \in Int
  <1>0. PICK row : row = Row(p, type, ref)
    OBVIOUS
  <1>1. /\ transactions' = transactions \cup {row}
        /\ type \in {"DEPOSIT", "WITHDRAW", "WAGER", "PAYOUT"}
    BY <1>0 DEF Inserts
  <1>2. row.user = u /\ row.call = p /\ row.type = type /\ row.amount = request[p].amount
    BY <1>0 DEF Row
  <1>3. pc[p] \notin Over
    BY AloneStep DEF BooksInv
  <1>4. row \in transactions' /\ row \notin transactions
    BY <1>1, <1>2, <1>3 DEF BooksInv, RowsInv
  <1>5. Effect(row)' = Gain(p, type)
    BY <1>1, <1>2 DEF Effect, Gain
  <1>6. row.amount \in Int
    BY <1>4, Money DEF BooksInv, TypeOK, Transaction
  <1>7. Gain(p, type) \in Int
    BY <1>2, <1>6 DEF Gain
  <1>8. Rows(u)' = Rows(u) \cup {row} /\ \A v : v # u => Rows(v)' = Rows(v)
    BY <1>1, <1>2 DEF Rows
  <1> QED BY <1>4, <1>5, <1>7, <1>8, RowsTotal

LEMMA LedgerStep ==
    ASSUME LedgerInv, MaxInFlight = 1, NEW p \in Calls, Receive(p) \/ Step(p) \/ Abort(p)
    PROVE  LedgerInv'
  <1>1. BooksInv /\ BooksInv' /\ TypeOK /\ Alone /\ RowsInv
    BY BooksStep DEF LedgerInv, BooksInv
  <1>2. \A t \in transactions : t \in transactions' => Effect(t)' = Effect(t)
    BY <1>1, EffectKept
  <1>3. \A q \in Late \cup Late' : request'[q] = request[q]
    <2>1. CASE Receive(p)
      <3>1. p \notin Late \cup Late'
        BY <1>1, <2>1 DEF Receive, Late, TypeOK
      <3> QED BY <1>1, <3>1, OthersWriteTheSame DEF Late
    <2>2. CASE Step(p) \/ Abort(p)
      BY <1>1, <2>2, CallsOfStep
    <2> QED BY <2>1, <2>2
  <1>4. SUFFICES ASSUME NEW u \in wallets', ~RevertedTwoRows(u)'
                 PROVE  balance'[u] = Ledger(u)'
    BY <1>1 DEF LedgerInv
  <1>5. u \in Users
    BY <1>1 DEF BooksInv, TypeOK
  <1>6. u \in wallets => balance[u] = Ledger(u)
    <2>1. ~RevertedTwoRows(u)
      BY <1>1, <1>4, TwoRowsStay
    <2> QED BY <2>1 DEF LedgerInv
  <1>6a. PICK v : v = request[p].user
    OBVIOUS
  <1>7. CASE Quiet
    <2>1. Rows(u)' = Rows(u) /\ Unrecorded(u)' = Unrecorded(u)
      BY <1>3, <1>7 DEF Quiet, Rows, Unrecorded, Late
    <2>2. Ledger(u)' = Ledger(u)
      BY <1>1, <1>2, <1>3, <2>1, SumsStay
    <2> QED BY <1>6, <1>7, <2>2 DEF Quiet
  <1>8. CASE Creates(p)
    <2>1. /\ v \in Users \ (wallets \cup erased) /\ wallets' = wallets \cup {v}
          /\ balance' = [balance EXCEPT ![v] = WelcomeBalance]
          /\ transactions' = transactions /\ Late' = Late
      BY <1>6a, <1>8 DEF Creates
    <2>2. Rows(u)' = Rows(u) /\ Unrecorded(u)' = Unrecorded(u)
      BY <1>3, <2>1 DEF Rows, Unrecorded, Late
    <2>3. CASE u = v
      <3>1. Rows(u) = {}
        BY <1>6a, <1>1, <2>1, <2>3 DEF Rows, RowsInv
      <3>2. Unrecorded(u) = {}
        BY <1>6a, <1>1, <2>1, <2>3 DEF Unrecorded, BooksInv, Reads
      <3>3. Ledger(u)' = WelcomeBalance
        BY <2>2, <3>1, <3>2, TotalEmpty, WalletAssumption DEF Ledger
      <3> QED BY <1>1, <1>5, <2>1, <2>3, <3>3 DEF TypeOK
    <2>4. CASE u # v
      <3>1. Ledger(u)' = Ledger(u)
        BY <1>1, <1>2, <1>3, <2>2, SumsStay
      <3>2. balance'[u] = balance[u] /\ u \in wallets
        BY <1>1, <1>5, <2>1, <2>4 DEF TypeOK
      <3> QED BY <1>6, <3>1, <3>2
    <2> QED BY <2>3, <2>4
  <1>9. CASE Saves(p)
    <2>1. /\ balance' = [balance EXCEPT ![v] = @ + Moved(p)] /\ v \in wallets
          /\ UNCHANGED <<wallets, transactions>>
          /\ p \notin Late /\ Late' = Late \cup {p}
      BY <1>6a, <1>9 DEF Saves
    <2>2. Rows(u)' = Rows(u)
      BY <2>1 DEF Rows
    <2>3. CASE u = v
      <3>1. p \notin Unrecorded(u) /\ Unrecorded(u)' = Unrecorded(u) \cup {p}
        BY <1>6a, <1>3, <2>1, <2>3 DEF Unrecorded, Late
      <3>2. /\ Total(MovedBy', Unrecorded(u)') = Total(MovedBy, Unrecorded(u)) + Moved(p)
            /\ Total(MovedBy, Unrecorded(u)) \in Int
        BY <1>1, <1>3, <3>1, LateTotal
      <3>3. /\ Total(Effects', Rows(u)') = Total(Effects, Rows(u))
            /\ Total(Effects, Rows(u)) \in Int
        BY <1>1, <1>2, <2>2, RowsTotal
      <3>4. balance'[u] = balance[u] + Moved(p)
        BY <1>1, <1>5, <2>1, <2>3 DEF TypeOK
      <3>5. WelcomeBalance \in Int /\ Moved(p) \in Int
        <4>1. request[p].amount \in Int
          <5>1. p \in Late'
            BY <2>1
          <5>2. request'[p] \in Requests /\ request'[p] = request[p]
            BY <1>1, <1>3, <5>1 DEF BooksInv, TypeOK, Late
          <5>3. request[p].kind \in {"deposit", "withdraw"}
            BY <1>9 DEF Saves
          <5> QED BY <5>2, <5>3, RequestFields, Money
        <4> QED BY <4>1, WalletAssumption DEF Moved
      <3> QED BY <1>6, <2>1, <2>3, <3>2, <3>3, <3>4, <3>5 DEF Ledger
    <2>4. CASE u # v
      <3>1. Unrecorded(u)' = Unrecorded(u)
        BY <1>6a, <1>3, <2>1, <2>4 DEF Unrecorded, Late
      <3>2. Ledger(u)' = Ledger(u)
        BY <1>1, <1>2, <1>3, <2>2, <3>1, SumsStay
      <3>3. balance'[u] = balance[u] /\ u \in wallets
        BY <1>1, <1>5, <2>1, <2>4 DEF TypeOK
      <3> QED BY <1>6, <3>2, <3>3
    <2> QED BY <2>3, <2>4
  <1>10. ASSUME NEW type, NEW ref, Records(p, type, ref) \/ Commits(p, type, ref)
         PROVE  balance'[u] = Ledger(u)'
    <2>1. Inserts(p, type, ref) /\ v \in wallets /\ wallets' = wallets
      BY <1>6a, <1>10 DEF Records, Commits, Inserts
    <2>2. /\ Total(Effects', Rows(v)') = Total(Effects, Rows(v)) + Gain(p, type)
          /\ u # v => Rows(u)' = Rows(u)
          /\ Gain(p, type) \in Int
      BY <1>1, <1>2, <1>6a, <2>1, InsertAddsUp
    <2>3. CASE u # v
      <3>1. Unrecorded(u)' = Unrecorded(u)
        BY <1>6a, <1>3, <1>10, <2>3 DEF Unrecorded, Late, Records, Commits
      <3>2. Ledger(u)' = Ledger(u)
        BY <1>1, <1>2, <1>3, <2>2, <2>3, <3>1, SumsStay
      <3>3. balance'[u] = balance[u]
        BY <1>6a, <1>1, <1>5, <1>10, <2>3 DEF TypeOK, Records, Commits
      <3> QED BY <1>6, <2>1, <3>2, <3>3
    <2>4. CASE u = v
      <3>1. Total(Effects, Rows(u)) \in Int /\ WelcomeBalance \in Int
        BY <1>1, <1>2, RowsTotal, WalletAssumption
      <3>2. /\ Total(MovedBy, Unrecorded(u)) \in Int
            /\ Total(MovedBy', Unrecorded(u)') \in Int
        BY <1>1, <1>3, LateTotal
      <3>3. Total(Effects', Rows(u)') = Total(Effects, Rows(u)) + Gain(p, type)
        BY <2>2, <2>4
      <3>4. CASE Records(p, type, ref)
        <4>1. p \in Late /\ Late' = Late \ {p} /\ balance' = balance
              /\ Gain(p, type) = Moved(p)
          BY <3>4 DEF Records
        <4>2. p \notin Unrecorded(u)' /\ Unrecorded(u) = Unrecorded(u)' \cup {p}
          BY <1>6a, <1>3, <2>4, <4>1 DEF Unrecorded, Late
        <4>3. Total(MovedBy, Unrecorded(u)) = Total(MovedBy', Unrecorded(u)') + Moved(p)
          BY <1>1, <1>3, <4>2, LateTotal
        <4> QED BY <1>6, <2>1, <2>2, <2>4, <3>1, <3>2, <3>3, <4>1, <4>3 DEF Ledger
      <3>5. CASE Commits(p, type, ref)
        <4>1. Unrecorded(u)' = Unrecorded(u)
          BY <1>3, <3>5 DEF Unrecorded, Late, Commits
        <4>2. Total(MovedBy', Unrecorded(u)') = Total(MovedBy, Unrecorded(u))
          BY <1>1, <1>3, <4>1, LateTotal
        <4>3. balance'[u] = balance[u] + Gain(p, type)
          BY <1>6a, <1>1, <1>5, <2>4, <3>5 DEF TypeOK, Commits
        <4> QED BY <1>6, <2>1, <2>2, <2>4, <3>1, <3>2, <3>3, <4>2, <4>3 DEF Ledger
      <3> QED BY <1>10, <3>4, <3>5
    <2> QED BY <2>3, <2>4
  <1>11. CASE Reverts(p)
    <2>1. Step(p) /\ u \in wallets
      BY <1>11 DEF Reverts, RevertCommit, Step
    <2>2. balance[u] = Ledger(u) /\ ~RevertedTwoRows(u)'
      BY <1>4, <1>6, <2>1
    <2> QED BY <1>1, <1>2, <1>3, <1>11, <2>1, <2>2, RevertAddsUp
  <1>12. CASE Erases(p)
    <2>1. /\ wallets' = wallets \ {v} /\ balance' = [balance EXCEPT ![v] = 0]
          /\ transactions' = {t \in transactions : t.user # v} /\ Late' = Late
      BY <1>6a, <1>12 DEF Erases, DeleteErase
    <2>2. u # v /\ u \in wallets /\ balance'[u] = balance[u]
      BY <1>1, <1>5, <2>1 DEF TypeOK
    <2>3. Rows(u)' = Rows(u) /\ Unrecorded(u)' = Unrecorded(u)
      BY <1>3, <2>1, <2>2 DEF Rows, Unrecorded, Late
    <2>4. Ledger(u)' = Ledger(u)
      BY <1>1, <1>2, <1>3, <2>3, SumsStay
    <2> QED BY <1>6, <2>2, <2>4
  <1> QED BY <1>1, <1>7, <1>8, <1>9, <1>10, <1>11, <1>12, StepShape

-----------------------------------------------------------------------------
(* The sums of the model are those of the proof.                             *)

LEMMA EffectSum ==
    ASSUME NEW S \in SUBSET transactions, IsFiniteSet(S)
    PROVE  MapThenSumSet(Effect, S) = Total(Effects, S)
  <1>1. \A s \in SUBSET S : s # {} => Effects[Chosen(s)] = Effect(Chosen(s))
    BY ChosenIn DEF Effects
  <1>2. PICK g : Recur(g, Effects, S) /\ Total(Effects, S) = g[S]
    BY TotalRecur
  <1>3. g = [s \in SUBSET S |-> IF s = {} THEN 0
               ELSE Effect(CHOOSE x \in s : TRUE) + g[s \ {CHOOSE x \in s : TRUE}]]
    BY <1>1, <1>2 DEF Recur, Chosen
  <1>4. PICK h : /\ h = [s \in SUBSET S |-> IF s = {} THEN 0
                       ELSE Effect(CHOOSE x \in s : TRUE) + h[s \ {CHOOSE x \in s : TRUE}]]
                 /\ MapThenSumSet(Effect, S) = h[S]
    BY <1>3 DEF MapThenSumSet, MapThenFoldSet
  <1>5. Recur(h, Effects, S)
    BY <1>1, <1>4 DEF Recur, Chosen
  <1>6. h[S] = g[S]
    BY <1>2, <1>5, RecurUnique
  <1> QED BY <1>2, <1>4, <1>6

LEMMA MovedSum ==
    ASSUME NEW S \in SUBSET Calls, IsFiniteSet(S)
    PROVE  MapThenSumSet(Moved, S) = Total(MovedBy, S)
  <1>1. \A s \in SUBSET S : s # {} => MovedBy[Chosen(s)] = Moved(Chosen(s))
    BY ChosenIn DEF MovedBy
  <1>2. PICK g : Recur(g, MovedBy, S) /\ Total(MovedBy, S) = g[S]
    BY TotalRecur
  <1>3. g = [s \in SUBSET S |-> IF s = {} THEN 0
               ELSE Moved(CHOOSE x \in s : TRUE) + g[s \ {CHOOSE x \in s : TRUE}]]
    BY <1>1, <1>2 DEF Recur, Chosen
  <1>4. PICK h : /\ h = [s \in SUBSET S |-> IF s = {} THEN 0
                       ELSE Moved(CHOOSE x \in s : TRUE) + h[s \ {CHOOSE x \in s : TRUE}]]
                 /\ MapThenSumSet(Moved, S) = h[S]
    BY <1>3 DEF MapThenSumSet, MapThenFoldSet
  <1>5. Recur(h, MovedBy, S)
    BY <1>1, <1>4 DEF Recur, Chosen
  <1>6. h[S] = g[S]
    BY <1>2, <1>5, RecurUnique
  <1> QED BY <1>2, <1>4, <1>6

\* While the queue's worker takes one job at a time, every balance is the welcome
\* balance and what the rows of the wallet say, up to the saves that have no row
\* yet or lost it, but for wallets that a revert gave back two stakes of.
THEOREM WalletLedgerExplainsBalance ==
    ASSUME MaxInFlight = 1
    PROVE  Spec => []LedgerExplainsBalance
  <1>1. Init => LedgerInv
    <2> SUFFICES ASSUME Init PROVE LedgerInv
      OBVIOUS
    <2>1. TypeOK /\ Alone
      BY InitTypeOK DEF Init, Alone, InFlight
    <2>2. transactions = {} /\ Late = {}
      BY DEF Init, Late
    <2>3. RowsInv
      BY <2>2, FS_EmptySet DEF RowsInv
    <2>4. \A p \in Calls : Reads(p)
      BY FreshDraft, WalletAssumption DEF Init, Reads
    <2>5. \A u \in wallets : balance[u] = Ledger(u)
      <3> SUFFICES ASSUME NEW u \in wallets PROVE balance[u] = Ledger(u)
        OBVIOUS
      <3>1. Rows(u) = {} /\ Unrecorded(u) = {}
        BY <2>2 DEF Rows, Unrecorded, Late
      <3>2. balance[u] = WelcomeBalance /\ WelcomeBalance \in Int
        BY WalletAssumption DEF Init
      <3> QED BY <3>1, <3>2, TotalEmpty DEF Ledger
    <2> QED BY <2>1, <2>3, <2>4, <2>5 DEF LedgerInv, BooksInv
  <1>2. ASSUME LedgerInv, [Next]_vars PROVE LedgerInv'
    <2>1. CASE Next
      BY <1>2, <2>1, LedgerStep DEF Next
    <2>2. CASE UNCHANGED vars
      <3>1. TypeOK' /\ Alone' /\ RowsInv'
        BY <1>2, <2>2 DEF vars, LedgerInv, BooksInv, TypeOK, Alone, InFlight, RowsInv, Late
      <3>2. \A p \in Calls : DraftInv(p) => DraftInv(p)'
        BY <2>2 DEF vars, DraftInv, Stakes, Refund, GivenBack
      <3>3. \A p \in Calls : Reads(p)'
        BY <1>2, <2>2, <3>2 DEF vars, LedgerInv, BooksInv, Reads
      <3>4. /\ \A u : Rows(u)' = Rows(u) /\ Unrecorded(u)' = Unrecorded(u)
            /\ Effects' = Effects /\ MovedBy' = MovedBy
        BY <2>2 DEF vars, Rows, Unrecorded, Effects, Effect, MovedBy, Moved
      <3>5. \A u : Ledger(u)' = Ledger(u) /\ (RevertedTwoRows(u)' <=> RevertedTwoRows(u))
        BY <2>2, <3>4 DEF vars, Ledger, RevertedTwoRows
      <3> QED BY <1>2, <2>2, <3>1, <3>3, <3>5 DEF vars, LedgerInv, BooksInv
    <2> QED BY <1>2, <2>1, <2>2
  <1>3. LedgerInv => LedgerExplainsBalance
    <2> SUFFICES ASSUME LedgerInv, NEW u \in wallets, ~RevertedTwoRows(u)
                 PROVE  balance[u] = WelcomeBalance
                          + MapThenSumSet(Effect, {t \in transactions : t.user = u})
                          + MapThenSumSet(Moved, Unrecorded(u))
      BY DEF LedgerExplainsBalance
    <2>1. /\ Rows(u) \in SUBSET transactions /\ IsFiniteSet(Rows(u))
          /\ Unrecorded(u) \in SUBSET Calls /\ IsFiniteSet(Unrecorded(u))
      <3>1. IsFiniteSet(transactions) /\ IsFiniteSet(Late)
        BY DEF LedgerInv, BooksInv, RowsInv
      <3>2. Rows(u) \subseteq transactions /\ Unrecorded(u) \subseteq Late
        BY DEF Rows, Unrecorded, Late
      <3> QED BY <3>1, <3>2, FS_Subset DEF Late
    <2>2. MapThenSumSet(Effect, Rows(u)) = Total(Effects, Rows(u))
      BY <2>1, EffectSum
    <2>3. MapThenSumSet(Moved, Unrecorded(u)) = Total(MovedBy, Unrecorded(u))
      BY <2>1, MovedSum
    <2>4. balance[u] = Ledger(u)
      BY DEF LedgerInv
    <2> QED BY <2>2, <2>3, <2>4 DEF Ledger, Rows
  <1> QED BY <1>1, <1>2, <1>3, PTL DEF Spec

-----------------------------------------------------------------------------
(* Payments: what the wallet's own steps do is taken from above.             *)

(* What the steps of a call do to the deposits and to the calls.             *)

\* A row that appears is the one its call was asked to insert.
LEMMA DepositsOfStep ==
    ASSUME StakesInv, NEW p \in Calls, Step(p) \/ Abort(p),
           NEW t \in transactions', t.type = "DEPOSIT", t \notin transactions
    PROVE  /\ pc[p] # "idle" /\ request[p].kind = "deposit"
           /\ t = Row(p, "DEPOSIT", NoGame)
  <1>1. CASE TransferRecord(p)
    <2>1. transactions' # transactions
      OBVIOUS
    <2>2. t = Row(p, IF request[p].kind = "deposit" THEN "DEPOSIT" ELSE "WITHDRAW", NoGame)
      BY <1>1, <2>1 DEF TransferRecord
    <2>3. request[p].kind = "deposit"
      BY <2>2 DEF Row
    <2> QED BY <1>1, <2>2, <2>3 DEF TransferRecord, At
  <1>2. CASE LockFundsCommit(p) \/ ReleaseFundsCommit(p)
    <2>1. \E type \in {"WAGER", "PAYOUT"} : t = Row(p, type, request[p].game)
      BY <1>2 DEF LockFundsCommit, ReleaseFundsCommit
    <2> QED BY <2>1 DEF Row
  <1>3. CASE RevertCommit(p)
    BY <1>3 DEF RevertCommit, StakesInv
  <1>4. CASE DeleteErase(p)
    BY <1>4 DEF DeleteErase
  <1>5. CASE Abort(p) \/ Refuse(p) \/ CreateRead(p) \/ CreateInsert(p)
    BY <1>5 DEF Abort, Refuse, CreateRead, CreateInsert, tables
  <1>6. CASE TransferRead(p) \/ TransferSave(p) \/ LockedRead(p) \/ RevertRead(p)
    BY <1>6 DEF TransferRead, TransferSave, LockedRead, RevertRead, tables
  <1>7. CASE RevertRow(p) \/ RevertOrphan(p) \/ DeleteRead(p) \/ DeadlockVictim(p)
    BY <1>7 DEF RevertRow, RevertOrphan, DeleteRead, DeadlockVictim, tables
  <1> QED BY <1>1, <1>2, <1>3, <1>4, <1>5, <1>6, <1>7 DEF Step

-----------------------------------------------------------------------------
(* What makes a job good for a deposit, and what every step keeps of it.     *)

\* The job goes back to a payment that was made and names its user.
Backed(j) ==
    /\ j \in Job
    /\ hooks[j.hook].of \in Payments
    /\ LET pay == payments[hooks[j.hook].of]
       IN  pay \in Payment /\ pay.at = "paid" /\ pay.named

PaymentOf(j) == payments[hooks[j.hook].of]

PaymentsInv ==
    /\ \A i \in Payments :
         payments[i] \in Payment /\ payments[i].says = "paid" => payments[i].at = "paid"
    /\ \A d \in Deliveries :
         /\ hooks[d].at = "free" => hooks[d].of = NoPayment
         /\ hooks[d].at # "free" => /\ hooks[d].of \in Payments
                                    /\ payments[hooks[d].of] \in Payment
    /\ \A j \in waiting : Backed(j)

CallsInv ==
    /\ \A p \in Calls : serves[p] # NoJob => pc[p] # "idle" /\ Backed(serves[p])
    /\ \A p \in Calls : pc[p] # "idle" /\ request[p].kind = "deposit" =>
         /\ serves[p] # NoJob
         /\ request[p].user = PaymentOf(serves[p]).user
         /\ request[p].amount = PaymentOf(serves[p]).amount

DepositsInv ==
    \A t \in Deposits :
        /\ t = Row(t.call, "DEPOSIT", NoGame)
        /\ pc[t.call] # "idle" /\ request[t.call].kind = "deposit"

PayInv == StakesInv /\ PayTypeOK /\ PaymentsInv /\ CallsInv /\ DepositsInv

\* Reports stay with their payment, and a payment that was made stays as it is.
Kept ==
    /\ \A d \in Deliveries : hooks[d].of \in Payments => hooks'[d].of = hooks[d].of
    /\ \A i \in Payments :
         payments[i] \in Payment /\ payments[i].at = "paid" => payments'[i] = payments[i]

LEMMA BackedKept ==
    ASSUME Kept, NEW j, Backed(j)
    PROVE  Backed(j)' /\ PaymentOf(j)' = PaymentOf(j)
  <1>1. j \in Job /\ j.hook \in Deliveries
    BY DEF Backed, Job
  <1>2. hooks'[j.hook].of = hooks[j.hook].of
    BY <1>1 DEF Backed, Kept
  <1>3. payments'[hooks[j.hook].of] = payments[hooks[j.hook].of]
    BY DEF Backed, Kept
  <1> QED BY <1>2, <1>3 DEF Backed, PaymentOf

\* A report that credits is of a payment that was made.
LEMMA CreditsBacked ==
    ASSUME PayInv, NEW d \in Deliveries, hooks[d].at = "active", Credits(hooks[d].of)
    PROVE  Backed(DepositJob(d))
  <1>1. hooks[d].of \in Payments /\ payments[hooks[d].of] \in Payment
    BY DEF PayInv, PaymentsInv
  <1>2. payments[hooks[d].of].at = "paid" /\ payments[hooks[d].of].named
    BY <1>1 DEF PayInv, PaymentsInv, Credits
  <1>3. DepositJob(d) \in Job /\ DepositJob(d).hook = d
    BY DEF DepositJob, Job, PayInv, PayTypeOK, Hook
  <1> QED BY <1>1, <1>2, <1>3 DEF Backed

\* What the jobs, calls and deposits rest on is kept when nothing else changes.
LEMMA CallsKept ==
    ASSUME PayInv, Kept, UNCHANGED <<vars, serves>>
    PROVE  CallsInv' /\ DepositsInv'
  <1>1. \A p \in Calls : serves[p] # NoJob =>
          Backed(serves[p])' /\ PaymentOf(serves[p])' = PaymentOf(serves[p])
    <2> TAKE p \in Calls
    <2> HAVE serves[p] # NoJob
    <2>1. Backed(serves[p])
      BY DEF PayInv, CallsInv
    <2>2. Backed(serves[p])' /\ PaymentOf(serves[p])' = PaymentOf(serves[p])
      <3> DEFINE j == serves[p]
      <3>1. serves' = serves
        OBVIOUS
      <3>2. j.hook \in Deliveries
        BY <2>1 DEF Backed, Job
      <3> QED BY <2>1, <3>1, <3>2 DEF Kept, Backed, PaymentOf
    <2> QED BY <2>2
  <1>2. CallsInv'
    BY <1>1 DEF PayInv, CallsInv, vars
  <1>3. DepositsInv'
    BY DEF PayInv, DepositsInv, Deposits, Row, vars
  <1> QED BY <1>2, <1>3

-----------------------------------------------------------------------------
(* The steps of the provider, of the endpoint and of the webhook queue.      *)

LEMMA WalletKept ==
    ASSUME StakesInv, UNCHANGED vars
    PROVE  StakesInv'
  BY DEF vars, StakesInv, StakesAreHeld, TypeOK

\* Outside the wallet it is enough that Kept holds and new jobs are backed.
LEMMA OutsideKept ==
    ASSUME PayInv, Kept, PayTypeOK', UNCHANGED <<vars, serves>>,
           \A i \in Payments :
             payments'[i] \in Payment /\ payments'[i].says = "paid"
                => payments'[i].at = "paid",
           \A d \in Deliveries :
             /\ hooks'[d].at = "free" => hooks'[d].of = NoPayment
             /\ hooks'[d].at # "free" => /\ hooks'[d].of \in Payments
                                         /\ payments'[hooks'[d].of] \in Payment,
           \A j \in waiting' : j \in waiting \/ Backed(j)
    PROVE  PayInv'
  <1>1. \A j \in waiting' : Backed(j)'
    <2> TAKE j \in waiting'
    <2>1. Backed(j)
      BY DEF PayInv, PaymentsInv
    <2> QED BY <2>1, BackedKept
  <1>2. PaymentsInv'
    BY <1>1 DEF PaymentsInv
  <1> QED BY <1>2, WalletKept, CallsKept DEF PayInv

LEMMA ProviderStep ==
    ASSUME PayInv, NEW i \in Payments, InitializeDeposit(i) \/ Settles(i)
    PROVE  PayInv'
  <1>1. /\ UNCHANGED <<vars, hooks, waiting, serves, restarts, faults>>
        /\ \E pay \in Payment :
             /\ payments' = [payments EXCEPT ![i] = pay]
             /\ pay.says = "paid" => pay.at = "paid"
        /\ payments[i] = NoPayment \/ payments[i].at # "paid"
    <2>1. CASE InitializeDeposit(i)
      <3>1. PICK active \in Providers, u \in Users, a \in Amounts :
              \E named \in Names(active) :
                payments' = [payments EXCEPT ![i] = Opened(active, u, a, named)]
        BY <2>1 DEF InitializeDeposit
      <3>2. PICK named \in Names(active) :
              payments' = [payments EXCEPT ![i] = Opened(active, u, a, named)]
        BY <3>1
      <3>3. Opened(active, u, a, named) \in Payment
        BY <3>1, <3>2 DEF Opened, Payment, Names
      <3>4. Opened(active, u, a, named).says = "nothing"
        BY DEF Opened
      <3> QED BY <2>1, <3>2, <3>3, <3>4 DEF InitializeDeposit
    <2>2. CASE Settles(i)
      <3>1. payments[i] \in Payment
        BY <2>2 DEF Settles, Initialized, PayInv, PayTypeOK
      <3>2. CASE payments' = [payments EXCEPT ![i] = [@ EXCEPT !.at = "paid", !.says = "paid"]]
                 /\ payments[i].at = "open"
        <4>1. [payments[i] EXCEPT !.at = "paid", !.says = "paid"] \in Payment
          BY <3>1 DEF Payment
        <4>2. [payments[i] EXCEPT !.at = "paid", !.says = "paid"].at = "paid"
          BY <3>1 DEF Payment
        <4> QED BY <2>2, <3>2, <4>1, <4>2 DEF Settles
      <3>3. ASSUME NEW at \in {"failed", "completed"}, payments[i].at = "open",
                   payments' = [payments EXCEPT ![i] = [@ EXCEPT !.at = at, !.says = "unpaid"]]
            PROVE  /\ \E pay \in Payment :
                        /\ payments' = [payments EXCEPT ![i] = pay]
                        /\ pay.says = "paid" => pay.at = "paid"
                   /\ payments[i].at # "paid"
        <4>1. [payments[i] EXCEPT !.at = at, !.says = "unpaid"] \in Payment
          BY <3>1 DEF Payment
        <4>2. [payments[i] EXCEPT !.at = at, !.says = "unpaid"].says = "unpaid"
          BY <3>1 DEF Payment
        <4> QED BY <3>3, <4>1, <4>2
      <3>4. CASE payments' = [payments EXCEPT ![i] = [@ EXCEPT !.at = "paid"]]
                 /\ payments[i].at = "completed"
        <4>1. [payments[i] EXCEPT !.at = "paid"] \in Payment
          BY <3>1 DEF Payment
        <4>2. [payments[i] EXCEPT !.at = "paid"].at = "paid"
          BY <3>1 DEF Payment
        <4> QED BY <2>2, <3>4, <4>1, <4>2 DEF Settles
      <3> QED BY <2>2, <3>2, <3>3, <3>4 DEF Settles
    <2> QED BY <2>1, <2>2
  <1>2. PICK pay \in Payment :
          /\ payments' = [payments EXCEPT ![i] = pay]
          /\ pay.says = "paid" => pay.at = "paid"
    BY <1>1
  <1>3. PayTypeOK'
    BY <1>1, <1>2 DEF PayInv, PayTypeOK
  <1>4. Kept
    BY <1>1, <1>2, PaymentsAssumption DEF Kept, PayInv, PayTypeOK
  <1>5. \A k \in Payments :
          payments'[k] \in Payment /\ payments'[k].says = "paid" => payments'[k].at = "paid"
    BY <1>2 DEF PayInv, PayTypeOK, PaymentsInv
  <1>6. \A d \in Deliveries :
             /\ hooks'[d].at = "free" => hooks'[d].of = NoPayment
             /\ hooks'[d].at # "free" => /\ hooks'[d].of \in Payments
                                         /\ payments'[hooks'[d].of] \in Payment
    BY <1>1, <1>2 DEF PayInv, PayTypeOK, PaymentsInv
  <1> QED BY <1>1, <1>3, <1>4, <1>5, <1>6, OutsideKept

LEMMA HookStep ==
    ASSUME PayInv, NEW d \in Deliveries,
           \/ HandleWebhook(d) \/ WebhookFails(d) \/ HookFails(d)
           \/ TakeHook(d) \/ HandleWebhookEvent(d) \/ FinishHook(d)
    PROVE  PayInv'
  <1>1. /\ UNCHANGED <<vars, payments, serves, restarts>>
        /\ faults' \in 0..MaxFaults
        /\ \E from, to \in {"sent", "lost", "waiting", "active", "added", "done", "failed"} :
             Moves(d, from, to)
    BY PaymentsAssumption DEF HandleWebhook, WebhookFails, HookFails, TakeHook,
         HandleWebhookEvent, FinishHook, PayInv, PayTypeOK
  <1>2. \A j \in waiting' : j \in waiting \/ Backed(j)
    <2>1. CASE HandleWebhookEvent(d)
      BY <2>1, CreditsBacked DEF HandleWebhookEvent
    <2>2. CASE HookFails(d)
      BY <2>2, CreditsBacked DEF HookFails, Moves
    <2> QED BY <2>1, <2>2 DEF HandleWebhook, WebhookFails, TakeHook, FinishHook
  <1>3. PICK from, to \in {"sent", "lost", "waiting", "active", "added", "done", "failed"} :
          Moves(d, from, to)
    BY <1>1
  <1>4. /\ hooks' \in [Deliveries -> Hook]
        /\ \A e \in Deliveries : hooks'[e].of = hooks[e].of
        /\ \A e \in Deliveries : hooks'[e].at = "free" <=> hooks[e].at = "free"
    BY <1>3 DEF Moves, PayInv, PayTypeOK, Hook
  <1>5. waiting' \subseteq Job
    BY <1>2 DEF PayInv, PayTypeOK, Backed
  <1>6. PayTypeOK'
    BY <1>1, <1>4, <1>5 DEF PayInv, PayTypeOK
  <1>7. Kept
    BY <1>1, <1>4 DEF Kept
  <1> QED BY <1>1, <1>2, <1>4, <1>6, <1>7, OutsideKept DEF PayInv, PaymentsInv

LEMMA SendStep ==
    ASSUME PayInv, NEW d \in Deliveries, NEW i \in Payments, Send(d, i)
    PROVE  PayInv'
  <1>1. hooks[d].at = "free" /\ hooks[d].of = NoPayment
    <2>1. NextHook \in FreeHooks
      BY DEF Send, NextHook
    <2> QED BY <2>1 DEF Send, FreeHooks, PayInv, PaymentsInv
  <1>2. hooks' = [hooks EXCEPT ![d] = [@ EXCEPT !.of = i, !.at = "sent"]]
    BY DEF Send
  <1>3. payments[i] \in Payment
    BY DEF Send, Initialized, PayInv, PayTypeOK
  <1>4. /\ hooks' \in [Deliveries -> Hook]
        /\ hooks'[d].of = i /\ hooks'[d].at = "sent"
        /\ \A e \in Deliveries : e # d => hooks'[e] = hooks[e]
    BY <1>2 DEF PayInv, PayTypeOK, Hook
  <1>5. PayTypeOK'
    BY <1>4 DEF Send, PayInv, PayTypeOK
  <1>6. Kept
    BY <1>1, <1>4, PaymentsAssumption DEF Send, Kept
  <1>7. \A e \in Deliveries :
             /\ hooks'[e].at = "free" => hooks'[e].of = NoPayment
             /\ hooks'[e].at # "free" => /\ hooks'[e].of \in Payments
                                         /\ payments'[hooks'[e].of] \in Payment
    BY <1>3, <1>4 DEF Send, PayInv, PaymentsInv
  <1> QED BY <1>5, <1>6, <1>7, OutsideKept DEF Send, PayInv, PaymentsInv

-----------------------------------------------------------------------------
(* The steps of the wallet's calls and a restart.                            *)

LEMMA StakesInvStep ==
    ASSUME StakesInv, NEW p \in Calls, Receive(p) \/ Step(p) \/ Abort(p)
    PROVE  StakesInv'
  BY StakesStep, StepTypeOK, DraftsAreRefunds DEF StakesInv

\* A call goes on or fails; what it is for stays.
LEMMA CallStep ==
    ASSUME PayInv, PayTypeOK', NEW p \in Calls, Step(p) \/ Abort(p),
           UNCHANGED <<payments, hooks, waiting, serves>>
    PROVE  PayInv'
  <1>1. /\ request' = request
        /\ \A q \in Calls : pc'[q] = "idle" <=> pc[q] = "idle"
    BY CallsOfStep DEF PayInv, StakesInv
  <1>2. StakesInv'
    BY StakesInvStep DEF PayInv
  <1>3. PaymentsInv'
    BY DEF PayInv, PaymentsInv, Backed
  <1>4. CallsInv'
    BY <1>1 DEF PayInv, CallsInv, Backed, PaymentOf
  <1>5. DepositsInv'
    <2> SUFFICES ASSUME NEW t \in transactions', t.type = "DEPOSIT"
                 PROVE  /\ t = Row(t.call, "DEPOSIT", NoGame)'
                        /\ pc'[t.call] # "idle" /\ request'[t.call].kind = "deposit"
      BY DEF DepositsInv, Deposits
    <2>1. t.call \in Calls
      BY <1>2 DEF StakesInv, TypeOK, Transaction
    <2>2. CASE t \in transactions
      BY <1>1, <2>1, <2>2 DEF PayInv, DepositsInv, Deposits, Row
    <2>3. CASE t \notin transactions
      <3>1. /\ pc[p] # "idle" /\ request[p].kind = "deposit"
            /\ t = Row(p, "DEPOSIT", NoGame)
        BY <2>3, DepositsOfStep DEF PayInv
      <3>2. t.call = p
        BY <3>1 DEF Row
      <3> QED BY <1>1, <3>1, <3>2 DEF Row
    <2> QED BY <2>2, <2>3
  <1> QED BY <1>2, <1>3, <1>4, <1>5 DEF PayInv

\* A call that begins is for a job, or it is not a deposit.
Begins(p) ==
    \/ request'[p].kind # "deposit" /\ serves' = serves
    \/ \E j \in waiting :
         /\ serves' = [serves EXCEPT ![p] = j]
         /\ request'[p].user = PaymentOf(j).user
         /\ request'[p].amount = PaymentOf(j).amount

LEMMA BeginStep ==
    ASSUME PayInv, PayTypeOK', NEW p \in Calls, Receive(p), Begins(p),
           UNCHANGED <<payments, hooks>>, waiting' \subseteq waiting
    PROVE  PayInv'
  <1>1. /\ pc[p] = "idle" /\ pc'[p] = "start"
        /\ transactions' = transactions
        /\ \A q \in Calls : q # p => pc'[q] = pc[q] /\ request'[q] = request[q]
    BY DEF Receive, tables, PayInv, StakesInv, TypeOK
  <1>2. \A q \in Calls : q # p => serves'[q] = serves[q]
    BY DEF Begins, PayInv, PayTypeOK
  <1>3. \A j \in waiting : Backed(j) /\ j # NoJob
    BY PaymentsAssumption DEF PayInv, PaymentsInv, Backed
  <1>4. \A j : Backed(j)' = Backed(j) /\ PaymentOf(j)' = PaymentOf(j)
    BY DEF Backed, PaymentOf
  <1>5. StakesInv'
    BY StakesInvStep DEF PayInv
  <1>6. PaymentsInv'
    BY <1>3, <1>4 DEF PayInv, PaymentsInv
  <1>7. serves[p] = NoJob
    BY <1>1 DEF PayInv, CallsInv
  <1>8. CallsInv'
    <2>1. ASSUME NEW q \in Calls, serves'[q] # NoJob
          PROVE  pc'[q] # "idle" /\ Backed(serves'[q])
      <3>1. CASE q # p
        BY <1>1, <1>2, <2>1, <3>1 DEF PayInv, CallsInv
      <3>2. CASE q = p
        <4>1. PICK j \in waiting : serves' = [serves EXCEPT ![p] = j]
          BY <1>7, <2>1, <3>2 DEF Begins
        <4> QED BY <1>1, <1>3, <3>2, <4>1 DEF PayInv, PayTypeOK
      <3> QED BY <3>1, <3>2
    <2>2. ASSUME NEW q \in Calls, pc'[q] # "idle", request'[q].kind = "deposit"
          PROVE  /\ serves'[q] # NoJob
                 /\ request'[q].user = PaymentOf(serves'[q]).user
                 /\ request'[q].amount = PaymentOf(serves'[q]).amount
      <3>1. CASE q # p
        BY <1>1, <1>2, <2>2, <3>1 DEF PayInv, CallsInv
      <3>2. CASE q = p
        <4>1. PICK j \in waiting :
                 /\ serves' = [serves EXCEPT ![p] = j]
                 /\ request'[p].user = PaymentOf(j).user
                 /\ request'[p].amount = PaymentOf(j).amount
          BY <2>2, <3>2 DEF Begins
        <4>2. serves'[p] = j
          BY <4>1 DEF PayInv, PayTypeOK
        <4> QED BY <1>3, <3>2, <4>1, <4>2
      <3> QED BY <3>1, <3>2
    <2>3. \A q \in Calls : PaymentOf(serves'[q]) = PaymentOf(serves[q])'
                        /\ Backed(serves'[q]) = Backed(serves[q])'
      BY DEF PaymentOf, Backed
    <2> QED BY <2>1, <2>2, <2>3 DEF CallsInv
  <1>9. DepositsInv'
    <2> SUFFICES ASSUME NEW t \in transactions, t.type = "DEPOSIT"
                 PROVE  /\ t = Row(t.call, "DEPOSIT", NoGame)'
                        /\ pc'[t.call] # "idle" /\ request'[t.call].kind = "deposit"
      BY <1>1 DEF DepositsInv, Deposits
    <2>1. t.call \in Calls /\ t.call # p
      BY <1>1 DEF PayInv, DepositsInv, Deposits, StakesInv, TypeOK, Transaction
    <2> QED BY <1>1, <2>1 DEF PayInv, DepositsInv, Deposits, Row
  <1> QED BY <1>5, <1>6, <1>8, <1>9 DEF PayInv

LEMMA TakeDepositStep ==
    ASSUME PayInv, NEW j \in waiting, TakeDeposit(j)
    PROVE  PayInv'
  <1> DEFINE p == NextCall
             r == [kind |-> "deposit", user |-> PaymentOf(j).user,
                   amount |-> PaymentOf(j).amount]
  <1>1. p \in Calls /\ pc[p] = "idle"
    <2>1. NextCall \in Unused
      BY DEF TakeDeposit, NextCall
    <2> QED BY <2>1 DEF Unused
  <1>2. j \in Job /\ Backed(j)
    BY DEF PayInv, PaymentsInv, PayTypeOK
  <1>3. r \in Requests
    BY <1>2, PaymentsAssumption DEF Backed, PaymentOf, Payment, Requests
  <1>4. request' = [request EXCEPT ![p] = r]
    BY DEF TakeDeposit, PaymentOf
  <1>5. Receive(p)
    <2>1. Sensible(r)
      BY DEF Sensible
    <2> QED BY <1>1, <1>3, <1>4, <2>1 DEF TakeDeposit, Receive
  <1>6. serves' = [serves EXCEPT ![p] = j]
    BY DEF TakeDeposit
  <1>7. Begins(p)
    BY <1>1, <1>4, <1>6 DEF Begins, PayInv, StakesInv, TypeOK
  <1>8. PayTypeOK'
    BY <1>1, <1>2, <1>6 DEF TakeDeposit, PayInv, PayTypeOK
  <1> HIDE DEF p, r
  <1> QED BY <1>1, <1>5, <1>7, <1>8, BeginStep DEF TakeDeposit

LEMMA TakeOtherStep ==
    ASSUME PayInv, TakeOther
    PROVE  PayInv'
  <1>1. NextCall \in Calls
    BY DEF TakeOther, NextCall, Unused
  <1>2. PayTypeOK'
    BY DEF TakeOther, payVars, PayInv, PayTypeOK
  <1> QED BY <1>1, <1>2, BeginStep DEF TakeOther, payVars, Begins

\* A restart ends the calls, and the jobs that stall are those they were for.
LEMMA CrashStep ==
    ASSUME PayInv, Crash
    PROVE  PayInv'
  <1>1. /\ UNCHANGED <<tables, request, payments, serves, faults>>
        /\ \A q \in Calls : pc'[q] = "idle" <=> pc[q] = "idle"
    BY DEF Crash, Over, InFlight
  <1>2. StakesInv'
    <2>1. /\ holder' \in [Users -> Calls \cup {Free}]
          /\ work' \in [Calls -> Work]
          /\ \A q \in Calls : work'[q].draft = {}
      BY FreshType, FreshDraft DEF Crash
    <2>2. pc' \in [Calls -> {"idle", "start", "insert", "save", "record", "locked",
                             "refund", "erase"} \cup Over]
      BY DEF Crash, Over, PayInv, StakesInv, TypeOK
    <2>3. TypeOK'
      BY <1>1, <2>1, <2>2 DEF tables, PayInv, StakesInv, TypeOK
    <2>4. StakesAreHeld'
      BY <1>1 DEF tables, PayInv, StakesInv, StakesAreHeld
    <2> QED BY <2>1, <2>3, <2>4 DEF StakesInv
  <1>3. \A d \in Deliveries :
          /\ hooks'[d] \in Hook /\ hooks'[d].of = hooks[d].of
          /\ hooks'[d].at = "free" <=> hooks[d].at = "free"
    <2> TAKE d \in Deliveries
    <2>1. hooks[d] \in Hook /\ hooks'[d] = AfterStall(hooks[d])
      BY DEF Crash, PayInv, PayTypeOK
    <2> QED BY <2>1 DEF AfterStall, Hook
  <1>4. \A j \in waiting' : Backed(j)
    <2>1. ASSUME NEW p \in Calls, serves[p] # NoJob
          PROVE  Backed([serves[p] EXCEPT !.stalled = TRUE])
      <3>1. Backed(serves[p]) /\ serves[p] \in Job
        BY <2>1 DEF PayInv, CallsInv, Backed
      <3>2. /\ [serves[p] EXCEPT !.stalled = TRUE] \in Job
            /\ [serves[p] EXCEPT !.stalled = TRUE].hook = serves[p].hook
        BY <3>1 DEF Job
      <3> QED BY <3>1, <3>2 DEF Backed
    <2>2. \A j \in Stalled : Backed(j)
      BY <2>1 DEF Stalled, InFlight
    <2> QED BY <2>2 DEF Crash, PayInv, PaymentsInv
  <1>5. \A j \in Job : Backed(j)' = Backed(j) /\ PaymentOf(j)' = PaymentOf(j)
    BY <1>1, <1>3 DEF Backed, PaymentOf, Job
  <1>6. PayTypeOK'
    <2>1. waiting' \subseteq Job
      BY <1>4 DEF Backed
    <2>2. hooks' \in [Deliveries -> Hook]
      BY <1>3 DEF Crash
    <2>3. restarts' \in 0..MaxRestarts
      BY PaymentsAssumption DEF Crash, PayInv, PayTypeOK
    <2> QED BY <1>1, <2>1, <2>2, <2>3 DEF PayInv, PayTypeOK
  <1>7. PaymentsInv'
    <2>1. \A j \in waiting' : Backed(j)'
      BY <1>4, <1>5 DEF Backed
    <2> QED BY <1>1, <1>3, <2>1 DEF PayInv, PaymentsInv
  <1>8. CallsInv'
    <2>1. \A p \in Calls : serves[p] # NoJob => serves[p] \in Job
      BY DEF PayInv, CallsInv, Backed
    <2>2. \A p \in Calls : serves[p] # NoJob =>
            Backed(serves[p])' /\ PaymentOf(serves[p])' = PaymentOf(serves[p])
      <3> TAKE p \in Calls
      <3> HAVE serves[p] # NoJob
      <3>1. serves[p] \in Job /\ serves[p].hook \in Deliveries /\ Backed(serves[p])
        BY <2>1 DEF Job, PayInv, CallsInv
      <3> QED BY <1>1, <1>3, <3>1 DEF Backed, PaymentOf
    <2> QED BY <1>1, <2>2 DEF PayInv, CallsInv
  <1>9. DepositsInv'
    <2>1. \A t \in transactions : t.call \in Calls
      BY DEF PayInv, StakesInv, TypeOK, Transaction
    <2> QED BY <1>1, <2>1 DEF tables, PayInv, DepositsInv, Deposits, Row
  <1> QED BY <1>2, <1>6, <1>7, <1>8, <1>9 DEF PayInv

-----------------------------------------------------------------------------
LEMMA PayInitInv == PayInit => PayInv
  <1> SUFFICES ASSUME PayInit PROVE PayInv
    OBVIOUS
  <1>1. StakesInv
    BY InitTypeOK, FreshDraft DEF PayInit, Init, StakesInv, StakesAreHeld
  <1>2. PayTypeOK
    BY PaymentsAssumption DEF PayInit, PayTypeOK, Hook
  <1>3. PaymentsInv
    BY PaymentsAssumption DEF PayInit, PaymentsInv
  <1>4. CallsInv /\ DepositsInv
    BY DEF PayInit, Init, CallsInv, DepositsInv, Deposits
  <1> QED BY <1>1, <1>2, <1>3, <1>4 DEF PayInv

LEMMA PayNextInv == ASSUME PayInv, [PayNext]_allVars PROVE PayInv'
  <1>1. CASE \E i \in Payments : InitializeDeposit(i) \/ Settles(i)
    BY <1>1, ProviderStep
  <1>2. ASSUME NEW d \in Deliveries,
               \/ HandleWebhook(d) \/ WebhookFails(d) \/ HookFails(d)
               \/ TakeHook(d) \/ HandleWebhookEvent(d) \/ FinishHook(d)
        PROVE  PayInv'
    BY <1>2, HookStep
  <1>3. CASE \E d \in Deliveries, i \in Payments : Send(d, i)
    BY <1>3, SendStep
  <1>4. CASE TakeOther
    BY <1>4, TakeOtherStep
  <1>5. ASSUME NEW p \in Calls, Proceeds(p) \/ CallFails(p) PROVE PayInv'
    <2>1. Step(p) \/ Abort(p)
      BY <1>5 DEF Proceeds, CallFails
    <2>2. UNCHANGED <<payments, hooks, waiting, serves, restarts>> /\ faults' \in 0..MaxFaults
      BY <1>5, PaymentsAssumption DEF Proceeds, CallFails, payVars, PayInv, PayTypeOK
    <2>3. PayTypeOK'
      BY <2>2 DEF PayInv, PayTypeOK
    <2> QED BY <2>1, <2>2, <2>3, CallStep
  <1>6. CASE Crash
    BY <1>6, CrashStep
  <1>7. CASE \E j \in waiting : TakeDeposit(j)
    BY <1>7, TakeDepositStep
  <1>8. CASE UNCHANGED allVars
    <2>1. UNCHANGED vars /\ UNCHANGED payVars
      BY <1>8 DEF allVars
    <2>2. PayTypeOK'
      BY <2>1 DEF payVars, PayInv, PayTypeOK
    <2>3. Kept
      BY <2>1 DEF payVars, Kept
    <2> QED BY <2>1, <2>2, <2>3, OutsideKept DEF payVars, PayInv, PaymentsInv
  <1> QED BY <1>1, <1>2, <1>3, <1>4, <1>5, <1>6, <1>7, <1>8 DEF PayNext, Works

\* Payments, deliveries and jobs keep their shapes, and so do the wallet's tables.
THEOREM PaymentsTypeOK == PaySpec => [](TypeOK /\ PayTypeOK)
  <1>1. PayInv => TypeOK /\ PayTypeOK
    BY DEF PayInv, StakesInv
  <1> QED BY <1>1, PayInitInv, PayNextInv, PTL DEF PaySpec

\* What a wallet is credited was paid, however often reports are sent, jobs stall
\* and the process starts again.
THEOREM PaymentsCreditsArePaid == PaySpec => []CreditsArePaid
  <1>1. PayInv => CreditsArePaid
    <2> SUFFICES ASSUME PayInv, NEW t \in Deposits
                 PROVE  /\ serves[t.call] # NoJob
                        /\ LET i == payments[hooks[serves[t.call].hook].of]
                           IN  i.at = "paid" /\ i.named /\ i.user = t.user /\ i.amount = t.amount
      BY DEF CreditsArePaid
    <2>1. t.call \in Calls
      BY DEF PayInv, StakesInv, TypeOK, Transaction, Deposits
    <2>2. /\ t.user = request[t.call].user /\ t.amount = request[t.call].amount
          /\ pc[t.call] # "idle" /\ request[t.call].kind = "deposit"
      BY DEF PayInv, DepositsInv, Row
    <2> QED BY <2>1, <2>2 DEF PayInv, CallsInv, Backed, PaymentOf
  <1> QED BY <1>1, PayInitInv, PayNextInv, PTL DEF PaySpec

\* Stakes and holds correspond also with deposits by job and restarts beside them.
THEOREM PaymentsStakesAreHeld == PaySpec => []StakesAreHeld
  <1>1. PayInv => StakesAreHeld
    BY DEF PayInv, StakesInv
  <1> QED BY <1>1, PayInitInv, PayNextInv, PTL DEF PaySpec

-----------------------------------------------------------------------------
(* A report has one job that never stalled, and that job one call.           *)

Plain(d) == [hook |-> d, again |-> FALSE, stalled |-> FALSE]
Early == {"free", "sent", "waiting", "active"}

OnceInv ==
    \A d \in Deliveries :
        /\ hooks[d].at \in Early /\ ~hooks[d].stalled =>
             Plain(d) \notin waiting /\ \A p \in Calls : serves[p] # Plain(d)
        /\ Plain(d) \in waiting => \A p \in Calls : serves[p] # Plain(d)
        /\ \A p, q \in Calls : serves[p] = Plain(d) /\ serves[q] = Plain(d) => p = q

LEMMA PlainIsJob == \A d \in Deliveries : Plain(d) \in Job /\ Plain(d) # NoJob
  <1>1. \A d \in Deliveries : Plain(d) \in Job
    BY DEF Plain, Job
  <1> QED BY <1>1, PaymentsAssumption

\* A hook that is early and never stalled was so before.
HooksAdvance ==
    \A d \in Deliveries :
        hooks'[d].at \in Early /\ ~hooks'[d].stalled =>
            hooks[d].at \in Early /\ ~hooks[d].stalled

LEMMA OnceKept ==
    ASSUME PayInv, OnceInv, HooksAdvance, serves' = serves,
           \A d \in Deliveries : Plain(d) \in waiting' => Plain(d) \in waiting
    PROVE  OnceInv'
  BY DEF OnceInv, HooksAdvance

\* A hook adds its job and is no longer early.
LEMMA OnceAdded ==
    ASSUME PayInv, OnceInv, NEW d \in Deliveries, HandleWebhookEvent(d) \/ HookFails(d)
    PROVE  OnceInv'
  <1>1. /\ hooks[d].at = "active" /\ serves' = serves
        /\ waiting' \subseteq waiting \cup {DepositJob(d)}
        /\ \E to \in {"added", "done", "failed"} :
             hooks' = [hooks EXCEPT ![d] = [@ EXCEPT !.at = to]]
    BY DEF HandleWebhookEvent, HookFails, Moves
  <1>2. /\ hooks'[d].at \notin Early
        /\ \A e \in Deliveries : e # d => hooks'[e] = hooks[e]
    BY <1>1 DEF PayInv, PayTypeOK, Hook, Early
  <1>3. \A e \in Deliveries : DepositJob(d) = Plain(e) => e = d /\ ~hooks[d].stalled
    BY DEF DepositJob, Plain
  <1>4. \A e \in Deliveries : e # d /\ Plain(e) \in waiting' => Plain(e) \in waiting
    BY <1>1, <1>3
  <1>5. Plain(d) \in waiting' => \A p \in Calls : serves[p] # Plain(d)
    BY <1>1, <1>3 DEF OnceInv, Early
  <1> QED BY <1>1, <1>2, <1>4, <1>5 DEF OnceInv

LEMMA OnceTaken ==
    ASSUME PayInv, OnceInv, NEW j \in waiting, TakeDeposit(j)
    PROVE  OnceInv'
  <1> DEFINE p == NextCall
  <1>1. p \in Calls /\ serves[p] = NoJob
    <2>1. NextCall \in Unused
      BY DEF TakeDeposit, NextCall
    <2> QED BY <2>1 DEF Unused, PayInv, CallsInv
  <1>2. /\ waiting' = waiting \ {j} /\ hooks' = hooks
        /\ serves' = [serves EXCEPT ![p] = j]
    BY DEF TakeDeposit
  <1> HIDE DEF p
  <1>3. \A d \in Deliveries : Plain(d) # NoJob
    BY PlainIsJob
  <1>4. \A q \in Calls : serves'[q] = IF q = p THEN j ELSE serves[q]
    BY <1>1, <1>2 DEF PayInv, PayTypeOK
  <1> QED BY <1>1, <1>2, <1>3, <1>4 DEF OnceInv

LEMMA OnceStalled ==
    ASSUME PayInv, OnceInv, Crash
    PROVE  OnceInv'
  <1>1. HooksAdvance
    <2> SUFFICES ASSUME NEW d \in Deliveries, hooks'[d].at \in Early, ~hooks'[d].stalled
                 PROVE  hooks[d].at \in Early /\ ~hooks[d].stalled
      BY DEF HooksAdvance
    <2>1. hooks[d] \in Hook /\ hooks'[d] = AfterStall(hooks[d])
      BY DEF Crash, PayInv, PayTypeOK
    <2> QED BY <2>1 DEF AfterStall, Hook, Early
  <1>2. \A d \in Deliveries : Plain(d) \notin Stalled
    <2> SUFFICES ASSUME NEW d \in Deliveries, NEW p \in Calls, serves[p] # NoJob,
                        Plain(d) = [serves[p] EXCEPT !.stalled = TRUE]
                 PROVE  FALSE
      BY DEF Stalled, InFlight
    <2>1. serves[p] \in Job
      BY DEF PayInv, CallsInv, Backed
    <2>2. [serves[p] EXCEPT !.stalled = TRUE].stalled = TRUE
      BY <2>1 DEF Job
    <2> QED BY <2>2 DEF Plain
  <1> QED BY <1>1, <1>2, OnceKept DEF Crash

LEMMA OnceNext == ASSUME PayInv, OnceInv, [PayNext]_allVars PROVE OnceInv'
  <1>1. CASE \E i \in Payments : InitializeDeposit(i) \/ Settles(i)
    BY <1>1, OnceKept DEF InitializeDeposit, Settles, HooksAdvance
  <1>2. ASSUME NEW d \in Deliveries,
               HandleWebhook(d) \/ WebhookFails(d) \/ TakeHook(d) \/ FinishHook(d)
        PROVE  OnceInv'
    <2>1. HooksAdvance /\ UNCHANGED <<waiting, serves>>
      BY <1>2 DEF HandleWebhook, WebhookFails, TakeHook, FinishHook, Moves,
                  HooksAdvance, PayInv, PayTypeOK, Hook, Early
    <2> QED BY <2>1, OnceKept
  <1>3. ASSUME NEW d \in Deliveries, NEW i \in Payments, Send(d, i) PROVE OnceInv'
    <2>1. hooks[d].at = "free"
      <3>1. NextHook \in FreeHooks
        BY <1>3 DEF Send, NextHook
      <3> QED BY <1>3, <3>1 DEF Send, FreeHooks
    <2>2. HooksAdvance /\ UNCHANGED <<waiting, serves>>
      BY <1>3, <2>1 DEF Send, HooksAdvance, PayInv, PayTypeOK, Hook, Early
    <2> QED BY <2>2, OnceKept
  <1>4. CASE TakeOther \/ \E p \in Calls : Proceeds(p) \/ CallFails(p)
    BY <1>4, OnceKept DEF TakeOther, Proceeds, CallFails, payVars, HooksAdvance
  <1>5. CASE Crash
    BY <1>5, OnceStalled
  <1>6. CASE \E j \in waiting : TakeDeposit(j)
    BY <1>6, OnceTaken
  <1>7. CASE \E d \in Deliveries : HandleWebhookEvent(d) \/ HookFails(d)
    BY <1>7, OnceAdded
  <1>8. CASE UNCHANGED allVars
    BY <1>8, OnceKept DEF allVars, payVars, HooksAdvance
  <1> QED BY <1>1, <1>2, <1>3, <1>4, <1>5, <1>6, <1>7, <1>8 DEF PayNext, Works

\* One report is credited twice only if a job it passed stalled and was run again.
THEOREM PaymentsRepeatsHaveStalled == PaySpec => []RepeatsHaveStalled
  <1>1. PayInit => OnceInv
    BY PlainIsJob DEF PayInit, OnceInv
  <1>2. PayInv /\ OnceInv => RepeatsHaveStalled
    <2> SUFFICES ASSUME PayInv, OnceInv, NEW s \in Deposits, NEW t \in Deposits,
                        serves[s.call].hook = serves[t.call].hook, s # t
                 PROVE  \E j \in {serves[s.call], serves[t.call]} : j.again \/ j.stalled
      BY DEF RepeatsHaveStalled
    <2>1. s.call \in Calls /\ t.call \in Calls /\ s.call # t.call
      BY DEF PayInv, DepositsInv, StakesInv, TypeOK, Transaction, Deposits
    <2>2. serves[s.call] \in Job /\ serves[t.call] \in Job
      BY <2>1 DEF PayInv, DepositsInv, CallsInv, Backed
    <2>3. ASSUME NEW j \in Job, ~j.again, ~j.stalled PROVE j = Plain(j.hook)
      BY <2>3 DEF Job, Plain
    <2>4. SUFFICES ASSUME ~serves[s.call].again, ~serves[s.call].stalled,
                          ~serves[t.call].again, ~serves[t.call].stalled
                   PROVE  FALSE
      OBVIOUS
    <2>5. serves[s.call].hook \in Deliveries
      BY <2>2 DEF Job
    <2> QED BY <2>1, <2>2, <2>3, <2>4, <2>5 DEF OnceInv
  <1> QED BY <1>1, <1>2, PayInitInv, PayNextInv, OnceNext, PTL DEF PaySpec
=============================================================================
