------------------------------- MODULE Payments -------------------------------
(***************************************************************************)
(* From a payment to the wallet: a deposit is initialised at a provider,   *)
(* the provider reports it by webhooks, the endpoint puts each report into *)
(* the webhook queue, its worker adds a DEPOSIT job to the queue of wallet *)
(* operations, and the worker of that queue calls WalletService.deposit,   *)
(* which module Wallet models.  Reports are sent again and again, jobs     *)
(* have one attempt and are not idempotent, and a job whose worker died is *)
(* run once more.                                                          *)
(***************************************************************************)
EXTENDS Wallet

CONSTANTS Payments,    \* deposits that were initialised
          Deliveries,  \* requests to the webhook endpoint
          NoPayment, NoJob,
          MaxRestarts, \* bound on restarts of the process
          MaxFaults    \* bound on errors of redis or the database

\* Whatever the control center holds, the active provider is one of these.
Providers == {"paystack", "stripe", "flutterwave"}

\* named: the provider was told whose wallet it is.
\* says: what the event that the code handles reports of the payment.
Payment == [provider: Providers, user: Users, amount: Amounts, named: BOOLEAN,
            at: {"open", "completed", "paid", "failed"},
            says: {"nothing", "unpaid", "paid"}]

Hook == [of: Payments \cup {NoPayment}, stalled: BOOLEAN,
         at: {"free", "sent", "lost", "waiting", "active", "added", "done", "failed"}]

\* A job is named after its delivery: again if the job of the webhook queue that
\* added it had stalled.
Job == [hook: Deliveries, again: BOOLEAN, stalled: BOOLEAN]

ASSUME PaymentsAssumption ==
    /\ "deposit" \in Kinds
    /\ NoPayment \notin Payments \cup Payment
    /\ NoJob \notin Job
    /\ MaxRestarts \in Nat /\ MaxFaults \in Nat

VARIABLES payments, \* what the provider knows of each deposit, or "none"
          hooks,    \* each delivery: of which payment, and how far it is
          waiting,  \* jobs DEPOSIT that wait
          serves,   \* the job that each call of the wallet service is for
          restarts, faults

payVars == <<payments, hooks, waiting, serves, restarts, faults>>
allVars == <<vars, payVars>>

PayInit ==
    /\ Init
    /\ payments = [i \in Payments |-> NoPayment]
    /\ hooks = [d \in Deliveries |-> [of |-> NoPayment, stalled |-> FALSE, at |-> "free"]]
    /\ waiting = {}
    /\ serves = [p \in Calls |-> NoJob]
    /\ restarts = 0 /\ faults = 0

Unused == {p \in Calls : pc[p] = "idle"}
NextCall == CHOOSE p \in Unused : TRUE

\* Bound: calls are kept for the jobs there are and for those that may stall.
Room == Cardinality(Unused) > Cardinality(waiting) + 2 * (MaxRestarts - restarts)
          + Cardinality({d \in Deliveries : hooks[d].at \in {"sent", "waiting", "active"}})

-----------------------------------------------------------------------------
(* The provider.                                                            *)

\* Paystack is told the user of the request; the others pass on what the client
\* put into the metadata, which may name nobody.
Names(active) == IF active = "paystack" THEN {TRUE} ELSE BOOLEAN

Opened(active, u, a, named) ==
    [provider |-> active, user |-> u, amount |-> a, named |-> named,
     at |-> "open", says |-> "nothing"]

InitializeDeposit(i) ==
    /\ payments[i] = NoPayment
    /\ \E active \in Providers, u \in Users, a \in Amounts :
         \E named \in Names(active) :
            payments' = [payments EXCEPT ![i] = Opened(active, u, a, named)]
    /\ UNCHANGED <<vars, hooks, waiting, serves, restarts, faults>>

Initialized(i) == payments[i] # NoPayment

\* An open payment is made or fails.  A checkout of Stripe may be completed before
\* the money arrives: the event then says "unpaid", and the one that follows has no
\* handler.
Settles(i) ==
    /\ Initialized(i)
    /\ \/ /\ payments[i].at = "open"
          /\ payments' = [payments EXCEPT ![i] = [@ EXCEPT !.at = "paid", !.says = "paid"]]
       \/ /\ payments[i].at = "open"
          /\ payments' = [payments EXCEPT ![i] = [@ EXCEPT !.at = "failed", !.says = "unpaid"]]
       \/ /\ payments[i].at = "open" /\ payments[i].provider = "stripe"
          /\ payments' = [payments EXCEPT ![i] = [@ EXCEPT !.at = "completed", !.says = "unpaid"]]
       \/ /\ payments[i].at = "completed"
          /\ payments' = [payments EXCEPT ![i] = [@ EXCEPT !.at = "paid"]]
    /\ UNCHANGED <<vars, hooks, waiting, serves, restarts, faults>>

FreeHooks == {d \in Deliveries : hooks[d].at = "free"}
NextHook == CHOOSE d \in FreeHooks : TRUE

\* An event is sent until it is acknowledged, and now and then once more.
Send(d, i) ==
    /\ Initialized(i) /\ payments[i].says # "nothing"
    /\ FreeHooks # {} /\ d = NextHook /\ Room
    /\ hooks' = [hooks EXCEPT ![d] = [@ EXCEPT !.of = i, !.at = "sent"]]
    /\ UNCHANGED <<vars, payments, waiting, serves, restarts, faults>>

-----------------------------------------------------------------------------
(* The endpoint and the worker of the webhook queue.                        *)

Moves(d, from, to) ==
    /\ hooks[d].at = from
    /\ hooks' = [hooks EXCEPT ![d] = [@ EXCEPT !.at = to]]

\* handleWebhook: the report is queued, and then acknowledged.
HandleWebhook(d) ==
    /\ Moves(d, "sent", "waiting")
    /\ UNCHANGED <<vars, payments, waiting, serves, restarts, faults>>

TakeHook(d) ==
    /\ \A e \in Deliveries : hooks[e].at \notin {"active", "added"}
    /\ Moves(d, "waiting", "active")
    /\ UNCHANGED <<vars, payments, waiting, serves, restarts, faults>>

\* A plausible mistake: the status of the payment is not looked at.
CreditsUnpaid(i) == payments[i].named

\* The handlers of the three providers agree: the payment was made and has a user.
Credits(i) == payments[i].named /\ payments[i].says = "paid"

DepositJob(d) == [hook |-> d, again |-> hooks[d].stalled, stalled |-> FALSE]

HandleWebhookEvent(d) ==
    /\ hooks[d].at = "active"
    /\ IF Credits(hooks[d].of)
       THEN Moves(d, "active", "added") /\ waiting' = waiting \cup {DepositJob(d)}
       ELSE Moves(d, "active", "done") /\ UNCHANGED waiting
    /\ UNCHANGED <<vars, payments, serves, restarts, faults>>

FinishHook(d) ==
    /\ Moves(d, "added", "done")
    /\ UNCHANGED <<vars, payments, waiting, serves, restarts, faults>>

\* Redis refuses the report: the provider gets an error and sends it again.
WebhookFails(d) ==
    /\ faults < MaxFaults /\ faults' = faults + 1
    /\ Moves(d, "sent", "lost")
    /\ UNCHANGED <<vars, payments, waiting, serves, restarts>>

\* A plausible mistake: the job of the webhook queue is tried again.
HookFailsRetried(d) ==
    /\ faults < MaxFaults /\ faults' = faults + 1
    /\ Moves(d, "active", "waiting")
    /\ waiting' \in {waiting, waiting \cup {DepositJob(d)}}
    /\ UNCHANGED <<vars, payments, serves, restarts>>

\* Adding the DEPOSIT job throws, though redis may have it: one attempt only.
HookFails(d) ==
    /\ faults < MaxFaults /\ faults' = faults + 1
    /\ Moves(d, "active", "failed")
    /\ waiting' \in IF Credits(hooks[d].of) THEN {waiting, waiting \cup {DepositJob(d)}}
                                            ELSE {waiting}
    /\ UNCHANGED <<vars, payments, serves, restarts>>

-----------------------------------------------------------------------------
(* The worker of the wallet operations, other jobs, and what goes wrong.    *)

TakeDeposit(j) ==
    LET i == hooks[j.hook].of
        p == NextCall
    IN  /\ j \in waiting /\ waiting' = waiting \ {j}
        /\ Unused # {} /\ Cardinality(InFlight) < MaxInFlight
        /\ pc' = [pc EXCEPT ![p] = "start"]
        /\ request' = [request EXCEPT ![p] = [kind |-> "deposit", user |-> payments[i].user,
                                              amount |-> payments[i].amount]]
        /\ serves' = [serves EXCEPT ![p] = j]
        /\ UNCHANGED <<tables, holder, work, payments, hooks, restarts, faults>>

\* The other operations; deposits come from payments.
TakeOther ==
    /\ Unused # {} /\ Room
    /\ Receive(NextCall) /\ request'[NextCall].kind # "deposit"
    /\ UNCHANGED payVars

\* Each statement of the call; a job is over when its call is.
Proceeds(p) == Step(p) /\ UNCHANGED payVars

CallFails(p) ==
    /\ faults < MaxFaults /\ faults' = faults + 1
    /\ Abort(p)
    /\ UNCHANGED <<payments, hooks, waiting, serves, restarts>>

\* A plausible mistake: the jobs of a worker that died are forgotten.
StalledForgotten == {}

\* Jobs that were being run are put back, once.
Stalled == {[serves[p] EXCEPT !.stalled = TRUE] :
               p \in {q \in InFlight : serves[q] # NoJob /\ ~serves[q].stalled}}

AfterStall(h) ==
    IF h.at = "sent" THEN [h EXCEPT !.at = "lost"]
    ELSE IF h.at \notin {"active", "added"} THEN h
    ELSE IF h.stalled THEN [h EXCEPT !.at = "failed"]
    ELSE [h EXCEPT !.at = "waiting", !.stalled = TRUE]

\* The process dies: requests are lost, transactions roll back, jobs stall.
Crash ==
    /\ restarts < MaxRestarts /\ restarts' = restarts + 1
    /\ pc' = [p \in Calls |-> IF p \notin InFlight THEN pc[p]
                              ELSE IF pc[p] = "record" THEN "lost" ELSE "failed"]
    /\ work' = [p \in Calls |-> Fresh]
    /\ holder' = [u \in Users |-> Free]
    /\ hooks' = [d \in Deliveries |-> AfterStall(hooks[d])]
    /\ waiting' = waiting \cup Stalled
    /\ UNCHANGED <<tables, request, payments, serves, faults>>

Works ==
    \/ \E d \in Deliveries : TakeHook(d) \/ HandleWebhookEvent(d) \/ FinishHook(d)
    \/ \E j \in waiting : TakeDeposit(j)
    \/ \E p \in Calls : Proceeds(p)

PayNext ==
    \/ \E i \in Payments : InitializeDeposit(i) \/ Settles(i)
    \/ \E d \in Deliveries : HandleWebhook(d) \/ WebhookFails(d) \/ HookFails(d)
    \/ \E d \in Deliveries, i \in Payments : Send(d, i)
    \/ TakeOther
    \/ \E p \in Calls : CallFails(p)
    \/ Crash
    \/ Works

PaySpec == PayInit /\ [][PayNext]_allVars

\* The workers go on; nothing is promised of clients and providers.
PayFairSpec == PaySpec /\ WF_allVars(Works)

-----------------------------------------------------------------------------
\* Payments, deliveries and jobs keep their shapes.
PayTypeOK ==
    /\ payments \in [Payments -> Payment \cup {NoPayment}]
    /\ hooks \in [Deliveries -> Hook]
    /\ waiting \subseteq Job
    /\ serves \in [Calls -> Job \cup {NoJob}]
    /\ restarts \in 0..MaxRestarts /\ faults \in 0..MaxFaults

Deposits == {t \in transactions : t.type = "DEPOSIT"}

\* What a wallet is credited was paid: each deposit goes back to a payment that was
\* made, to the user it names and with its amount, whatever was sent twice, stalled
\* or reordered on the way.
CreditsArePaid ==
    \A t \in Deposits :
        /\ serves[t.call] # NoJob
        /\ LET i == payments[hooks[serves[t.call].hook].of]
           IN  i.at = "paid" /\ i.named /\ i.user = t.user /\ i.amount = t.amount

\* A report is credited twice only if one of the two jobs it passed was run again
\* after a crash.
RepeatsHaveStalled ==
    \A s, t \in Deposits :
        serves[s.call].hook = serves[t.call].hook /\ s # t =>
            \E j \in {serves[s.call], serves[t.call]} : j.again \/ j.stalled

Credited(d) == \E t \in Deposits : serves[t.call].hook = d

\* A report that was acknowledged is credited, also across a crash, unless redis or
\* the database fails or the user has no wallet.
AcceptedIsCredited ==
    \A d \in Deliveries :
        hooks[d].at = "waiting" /\ Credits(hooks[d].of) ~>
            \/ Credited(d)
            \/ faults > 0
            \/ hooks[d].of # NoPayment /\ payments[hooks[d].of].user \notin wallets
=============================================================================
