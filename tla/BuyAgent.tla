------------------------------ MODULE BuyAgent ------------------------------
(***************************************************************************)
(* The buy-order backend at work: the MonitorWorker loop, the HTTP         *)
(* handlers that race it, and the ExecutionEngine both drive, over the     *)
(* tables of module Store, the gate of module RuleEngine, a merchant and   *)
(* the money service's hold.                                               *)
(*                                                                         *)
(* Every process (a worker, or the handler of one request) is a record     *)
(* that says at which await it stands; a step runs from one await to the   *)
(* next.  A process may be dropped at any await: the server dies, a        *)
(* database error ends the tick, or axum drops the handler of a client     *)
(* that went away.                                                         *)
(*                                                                         *)
(* The merchant and the money service are outside the backend.  What they  *)
(* may do is what merchant-demo, merchant-p4 and money/money.mjs do, seen  *)
(* from the calls the backend makes; a retailer that has not settled an    *)
(* order when the call times out is in state "open".                       *)
(***************************************************************************)
EXTENDS Store, RuleEngine

CONSTANTS
    Handlers,       \* concurrent HTTP requests
    Offers,         \* offers a page or a client can show
    Mandate,        \* the constraints of each monitor
    FundsWired,     \* MERCHANT=p4: AppState.funds is Some
    OutsideReliable, \* the merchant and the money service answer every call
    MaxArms,        \* bound: mandate holds per monitor
    MaxDrops        \* bound: processes dropped at an await

ASSUME ProcessAssumption == Workers \cap Handlers = {} /\ None \notin Monitors \cup Products
ASSUME MandateAssumption ==
    \A m \in Monitors : /\ Mandate[m].maximum_total_minor \in Amounts
                        /\ Mandate[m].currency # None
ASSUME AmountsAssumption ==
    Amounts \subseteq Nat /\ \A o \in Offers : o.total_minor \in Amounts \cup {None}
ASSUME NoneAssumption == None \notin Amounts /\ None \notin Offers
ASSUME OfferProductAssumption == \A o \in Offers : o.product \in Products
ASSUME BoundsAssumption == MaxArms \in Nat /\ MaxDrops \in Nat

VARIABLES
    proc,       \* where each process stands, and its local variables
    late,       \* the monitors past their deadline
    merchant,   \* what the merchant knows under the monitor's key
    bought,     \* the orders ever placed for the monitor, as amounts charged
    calls,      \* how many times the engine called checkout for the monitor
    holds,      \* the mandate holds of the monitor, latest last
    drops       \* processes dropped so far

outside == <<merchant, bought, calls, holds>>
vars == <<storeVars, proc, late, outside, drops>>

Processes == Workers \cup Handlers

PCs == {"idle", "release", "claim", "check", "baseline", "reschedule", "find", "authorize",
        "claim_execution", "revalidate", "checkout", "answer", "complete", "fail", "failed",
        "commit", "record"}

Answers == {"none", "confirmed", "payment_required", "declined", "unknown", "error",
            "committed", "unconfirmed"}

Idle == [pc |-> "idle", mon |-> None, product |-> None, offer |-> None, attempt |-> 0,
         answer |-> "none", total |-> None, todo |-> {}]

\* A process: where it stands, the monitor and product it was given, the offer in
\* hand, the number of its attempt, the last answer from outside, an amount, and
\* the monitors whose holds are still to release.
Sessions == [pc : PCs, mon : Monitors \cup {None}, product : Products \cup {None},
             offer : Offers \cup {None}, attempt : Nat, answer : Answers,
             total : Amounts \cup {None}, todo : SUBSET Monitors]

HoldStates == {"committed", "unconfirmed", "spent", "refunded", "released"}

NoOrder == [state |-> "none", total |-> None]

TypeOK ==
    /\ StoreTypeOK
    /\ proc \in [Processes -> Sessions]
    /\ late \subseteq Monitors
    /\ merchant \in [Monitors -> [state : {"none", "open", "order"},
                                  total : Amounts \cup {None}]]
    /\ bought \in [Monitors -> Seq(Amounts)]
    /\ calls \in [Monitors -> Nat]
    /\ holds \in [Monitors -> Seq(HoldStates)]
    /\ drops \in Nat

Init ==
    /\ StoreInit
    /\ proc = [p \in Processes |-> Idle]
    /\ late = {}
    /\ merchant = [m \in Monitors |-> NoOrder]
    /\ bought = [m \in Monitors |-> << >>]
    /\ calls = [m \in Monitors |-> 0]
    /\ holds = [m \in Monitors |-> << >>]
    /\ drops = 0

-----------------------------------------------------------------------------
At(p, pc) == proc[p].pc = pc
Become(p, session) == proc' = [proc EXCEPT ![p] = session]
Goto(p, pc) == Become(p, [proc[p] EXCEPT !.pc = pc])
\* Go to pc, keeping of the locals the monitor alone.
Restart(p, pc) == Become(p, [Idle EXCEPT !.pc = pc, !.mon = proc[p].mon])
Finish(p) == Become(p, Idle)

\* execute returned Err: the worker logs it and looks at the monitor again, the
\* handler reports it and is done.
ReturnError(p) == IF p \in Workers THEN Restart(p, "failed") ELSE Finish(p)

Snapshot(m, p) == [status |-> status[m], product |-> p, constraints |-> Mandate[m]]

\* Release the holds of the monitors in todo, if there is a money service.
ThenRelease(p, todo, next) ==
    IF FundsWired /\ todo # {}
    THEN Become(p, [Idle EXCEPT !.pc = "release", !.todo = todo])
    ELSE Become(p, [Idle EXCEPT !.pc = next])

-----------------------------------------------------------------------------
(* The merchant and the money service. *)

Replace(s, x) == [s EXCEPT ![Len(s)] = x]

LatestHold(m) == IF holds[m] = << >> THEN "none" ELSE holds[m][Len(holds[m])]

\* The money service spends the latest hold of the monitor; the demo merchant
\* needs none.
CanCapture(m) == FundsWired => LatestHold(m) = "committed"

SetLatestHold(m, h) ==
    holds' = IF FundsWired THEN [holds EXCEPT ![m] = Replace(@, h)] ELSE holds

\* POST /funds/release as release_best_effort sees it: a spent or already
\* released hold is left alone, and a service that does not answer is ignored.
ReleaseHold(m) ==
    \/ /\ LatestHold(m) \in {"committed", "unconfirmed"}
       /\ SetLatestHold(m, "released")
    \/ /\ OutsideReliable => LatestHold(m) \notin {"committed", "unconfirmed"}
       /\ UNCHANGED holds

\* find_order: None until the retailer settled; an error when P4 is out of reach.
FindOrder(m, found, absent, unreachable) ==
    \/ merchant[m].state = "order" /\ found
    \/ merchant[m].state # "order" /\ absent
    \/ ~OutsideReliable /\ FundsWired /\ unreachable

PlaceOrder(m, total) ==
    /\ merchant' = [merchant EXCEPT ![m] = [state |-> "order", total |-> total]]
    /\ bought' = [bought EXCEPT ![m] = Append(@, total)]

\* checkout(monitor, offer, key): the merchant's effect and the answer.  A key
\* that already bought, or is being settled, is never charged again.
Checkout(m, total, answer) ==
    \/ /\ merchant[m].state = "order"
       /\ answer \in {"confirmed", "unknown"}
       /\ UNCHANGED <<merchant, bought, holds>>
    \/ /\ merchant[m].state = "open"
       /\ answer = "unknown"
       /\ UNCHANGED <<merchant, bought, holds>>
    \/ /\ merchant[m].state = "none" /\ CanCapture(m)
       /\ answer \in {"confirmed", "unknown"}
       /\ PlaceOrder(m, total)
       /\ SetLatestHold(m, "spent")
    \/ /\ merchant[m].state = "none" /\ CanCapture(m) /\ FundsWired
       /\ answer = "unknown"
       /\ merchant' = [merchant EXCEPT ![m] = [state |-> "open", total |-> total]]
       /\ SetLatestHold(m, "spent")
       /\ UNCHANGED bought
    \/ /\ merchant[m].state = "none" /\ CanCapture(m) /\ FundsWired
       /\ answer \in {"declined", "unknown"}
       /\ SetLatestHold(m, "refunded")
       /\ UNCHANGED <<merchant, bought>>
    \/ /\ merchant[m].state = "none"
       /\ answer \in {"declined", "payment_required", "unknown"}
       /\ UNCHANGED <<merchant, bought, holds>>
    \/ /\ FundsWired /\ ~OutsideReliable
       /\ answer = "error"
       /\ UNCHANGED <<merchant, bought, holds>>

\* The order left open settles after the engine stopped waiting for it; one that
\* fails gives back the hold it was paid from, whichever is the latest by now.
SettleOpenOrder(m) ==
    /\ merchant[m].state = "open"
    /\ \/ /\ PlaceOrder(m, merchant[m].total)
          /\ UNCHANGED holds
       \/ /\ merchant' = [merchant EXCEPT ![m] = NoOrder]
          /\ holds' = [holds EXCEPT ![m] = [i \in DOMAIN @ |->
                                               IF @[i] = "spent" THEN "refunded" ELSE @[i]]]
          /\ UNCHANGED bought
    /\ UNCHANGED <<storeVars, proc, late, calls, drops>>

\* The demo merchant's map and P4's maps live in memory: a restart forgets the
\* orders placed, and stops following the one left open.
MerchantRestarts(m) ==
    /\ ~OutsideReliable
    /\ merchant[m].state # "none"
    /\ merchant' = [merchant EXCEPT ![m] = NoOrder]
    /\ \/ UNCHANGED bought
       \/ /\ merchant[m].state = "open"
          /\ bought' = [bought EXCEPT ![m] = Append(@, merchant[m].total)]
    /\ UNCHANGED <<storeVars, proc, late, calls, holds, drops>>

-----------------------------------------------------------------------------
(* MonitorWorker::tick, from one await to the next. *)

\* expire_due_monitors; the holds of what it expired are released one by one.
ExpireDue(w) ==
    /\ At(w, "idle")
    /\ ExpireDueMonitors(late)
    /\ ThenRelease(w, Expirable(late), "claim")
    /\ UNCHANGED <<late, outside, drops>>

ClaimNothing(w) ==
    /\ At(w, "claim")
    /\ \A m \in Monitors : ~CanClaimJob(m)
    /\ Finish(w)
    /\ UNCHANGED <<storeVars, late, outside, drops>>

ClaimJob(w, m) ==
    /\ At(w, "claim")
    /\ ClaimDueJob(w, m)
    /\ Become(w, [Idle EXCEPT !.pc = "check", !.mon = m, !.product = product[m]])
    /\ UNCHANGED <<late, outside, drops>>

CheckFails(w) ==
    /\ At(w, "check")
    /\ Restart(w, "reschedule")
    /\ UNCHANGED <<storeVars, late, outside, drops>>

\* A monitor without a product gets its baseline from the first offer and buys
\* nothing; otherwise the offer goes through the gate, on the monitor as it was
\* when the job was claimed.
CheckOffer(w, o) ==
    LET m == proc[w].mon IN
    /\ At(w, "check")
    /\ \/ /\ proc[w].product = None
          /\ Become(w, [proc[w] EXCEPT !.pc = "baseline", !.offer = o])
       \/ /\ proc[w].product # None
          /\ IF Qualified([Snapshot(m, proc[w].product) EXCEPT !.status = "active"],
                          o, m \in late)
             THEN Become(w, [proc[w] EXCEPT !.pc = "find", !.offer = o])
             ELSE Restart(w, "reschedule")
    /\ UNCHANGED <<storeVars, late, outside, drops>>

EstablishBaseline(w) ==
    /\ At(w, "baseline")
    /\ SetProductIfMissing(proc[w].mon, proc[w].offer.product)
    /\ Restart(w, "reschedule")
    /\ UNCHANGED <<late, outside, drops>>

\* complete_job; losing the lease or the job row is an error that ends the tick.
Reschedule(w) ==
    /\ At(w, "reschedule")
    /\ \/ CompleteJob(w, proc[w].mon)
       \/ ~CanCompleteJob(w, proc[w].mon) /\ UNCHANGED storeVars
    /\ Finish(w)
    /\ UNCHANGED <<late, outside, drops>>

\* An execution that failed and left the monitor watching counts as a failed
\* check; one that succeeded, or left it elsewhere, does not touch the job.
AfterFailure(w) ==
    /\ At(w, "failed")
    /\ IF status[proc[w].mon] = "active" THEN Goto(w, "reschedule") ELSE Finish(w)
    /\ UNCHANGED <<storeVars, late, outside, drops>>

-----------------------------------------------------------------------------
(* The HTTP handlers. *)

Create(h, m, p) ==
    /\ At(h, "idle")
    /\ m \notin late
    /\ CreateMonitor(m, p)
    /\ UNCHANGED <<proc, late, outside, drops>>

\* Slip: the hold is released first, whatever the store then answers.
CancelReleasingFirst(h, m) ==
    /\ At(h, "idle")
    /\ status[m] # "absent"
    /\ \/ CancelMonitor(m)
       \/ ~CanCancel(m) /\ UNCHANGED storeVars
    /\ ThenRelease(h, {m}, "idle")
    /\ UNCHANGED <<late, outside, drops>>

\* cancel_monitor answers a conflict, and releases nothing, unless the store
\* cancelled the monitor.
Cancel(h, m) ==
    /\ At(h, "idle")
    /\ CancelMonitor(m)
    /\ ThenRelease(h, {m}, "idle")
    /\ UNCHANGED <<late, outside, drops>>

\* release_best_effort, in the worker's sweep and in cancel_monitor.
ReleaseNext(p, m) ==
    /\ At(p, "release")
    /\ m \in proc[p].todo
    /\ ReleaseHold(m)
    /\ ThenRelease(p, proc[p].todo \ {m}, IF p \in Workers THEN "claim" ELSE "idle")
    /\ UNCHANGED <<storeVars, late, merchant, bought, calls, drops>>

\* submit_offer: an offer the gate rejects is recorded and changes nothing.
SubmitOffer(h, m, o) ==
    /\ At(h, "idle")
    /\ status[m] # "absent"
    /\ Qualified(Snapshot(m, product[m]), o, m \in late)
    /\ Become(h, [Idle EXCEPT !.pc = "find", !.mon = m, !.offer = o])
    /\ UNCHANGED <<storeVars, late, outside, drops>>

\* Slip: any amount is accepted for the mandate.
AuthorizeAnyAmount(h, m, maximum) ==
    /\ At(h, "idle")
    /\ status[m] # "absent"
    /\ Become(h, [Idle EXCEPT !.pc = IF FundsWired THEN "commit" ELSE "record",
                              !.mon = m, !.total = maximum])
    /\ UNCHANGED <<storeVars, late, outside, drops>>

\* authorize_payment: the amount must cover the mandate; the status is not read.
AuthorizePayment(h, m, maximum) ==
    /\ At(h, "idle")
    /\ status[m] # "absent"
    /\ maximum >= Mandate[m].maximum_total_minor
    /\ Become(h, [Idle EXCEPT !.pc = IF FundsWired THEN "commit" ELSE "record",
                              !.mon = m, !.total = maximum])
    /\ UNCHANGED <<storeVars, late, outside, drops>>

\* POST /funds/commit under a fresh attempt number; refused, or answered too
\* late to be heard, it ends the request.
CommitHold(h) ==
    LET m == proc[h].mon IN
    /\ At(h, "commit")
    /\ \/ /\ Len(holds[m]) < MaxArms
          /\ \E s \in {"committed", "unconfirmed"} :
                /\ holds' = [holds EXCEPT ![m] = Append(@, s)]
                /\ \/ Become(h, [proc[h] EXCEPT !.pc = "record", !.answer = s])
                   \/ ~OutsideReliable /\ Finish(h)
       \/ Finish(h) /\ UNCHANGED holds
    /\ UNCHANGED <<storeVars, late, merchant, bought, calls, drops>>

RecordAuthorization(h) ==
    /\ At(h, "record")
    /\ CreatePaymentAuthorization(proc[h].mon, proc[h].total, proc[h].answer = "unconfirmed")
    /\ Finish(h)
    /\ UNCHANGED <<late, outside, drops>>

-----------------------------------------------------------------------------
(* ExecutionEngine::execute, in a worker's tick or in submit_offer. *)

\* An order already under the key is answered as it is: nothing is recorded.
FindExistingOrder(p) ==
    /\ At(p, "find")
    /\ FindOrder(proc[p].mon, Finish(p), Goto(p, "authorize"), ReturnError(p))
    /\ UNCHANGED <<storeVars, late, outside, drops>>

\* supports may say no, on a coverage list that may be stale.
CheckAuthorization(p) ==
    /\ At(p, "authorize")
    /\ \/ /\ HasValidPaymentAuthorization(proc[p].mon, proc[p].offer.total_minor)
          /\ Goto(p, "claim_execution")
       \/ ReturnError(p)
    /\ UNCHANGED <<storeVars, late, outside, drops>>

StartExecution(p) ==
    LET m == proc[p].mon IN
    /\ At(p, "claim_execution")
    /\ \/ /\ ClaimExecution(m)
          /\ Become(p, [proc[p] EXCEPT !.pc = "revalidate", !.attempt = Len(attempts'[m])])
       \/ /\ ~CanClaimExecution(m)
          /\ ReturnError(p)
          /\ UNCHANGED storeVars
    /\ UNCHANGED <<late, outside, drops>>

\* The worker reads the page again, a submitted offer is its own revalidation.
\* The monitor is read again too; its row is ours while it is executing.
Revalidate(p) ==
    LET m == proc[p].mon IN
    /\ At(p, "revalidate")
    /\ \/ \E o \in IF p \in Workers THEN Offers ELSE {proc[p].offer} :
             IF Qualified(Snapshot(m, product[m]), o, m \in late)
             THEN Become(p, [proc[p] EXCEPT !.pc = "checkout", !.offer = o])
             ELSE Goto(p, "fail")
       \/ p \in Workers /\ Goto(p, "fail")
    /\ UNCHANGED <<storeVars, late, outside, drops>>

CallCheckout(p) ==
    LET m == proc[p].mon IN
    /\ At(p, "checkout")
    /\ calls' = [calls EXCEPT ![m] = @ + 1]
    /\ \E a \in Answers :
          /\ Checkout(m, proc[p].offer.total_minor, a)
          /\ Become(p, [proc[p] EXCEPT !.pc = "answer", !.answer = a,
                           !.total = IF a = "confirmed" THEN merchant'[m].total ELSE None])
    /\ UNCHANGED <<storeVars, late, drops>>

\* Slip: an unknown result is taken for a purchase at the offer's price.
HandleAnswerTrustingUnknown(p) ==
    /\ At(p, "answer")
    /\ IF proc[p].answer \in {"confirmed", "unknown"}
       THEN Become(p, [proc[p] EXCEPT !.pc = "complete",
                                      !.total = proc[p].offer.total_minor])
       ELSE ReturnError(p)
    /\ UNCHANGED <<storeVars, late, outside, drops>>

\* Slip: a refused purchase returns its error without fail_execution.
HandleAnswerForgettingFailure(p) ==
    LET m == proc[p].mon IN
    /\ At(p, "answer")
    /\ \/ proc[p].answer = "confirmed" /\ Goto(p, "complete")
       \/ proc[p].answer \in {"declined", "payment_required", "error"} /\ ReturnError(p)
       \/ /\ proc[p].answer = "unknown"
          /\ FindOrder(m, Become(p, [proc[p] EXCEPT !.pc = "complete",
                                                     !.total = merchant[m].total]),
                       Goto(p, "fail"), ReturnError(p))
    /\ UNCHANGED <<storeVars, late, outside, drops>>

\* A MerchantError returns at once, and leaves the monitor executing.
HandleAnswer(p) ==
    LET m == proc[p].mon IN
    /\ At(p, "answer")
    /\ \/ proc[p].answer = "confirmed" /\ Goto(p, "complete")
       \/ proc[p].answer \in {"declined", "payment_required"} /\ Goto(p, "fail")
       \/ proc[p].answer = "error" /\ ReturnError(p)
       \/ /\ proc[p].answer = "unknown"
          /\ FindOrder(m, Become(p, [proc[p] EXCEPT !.pc = "complete",
                                                     !.total = merchant[m].total]),
                       Goto(p, "fail"), ReturnError(p))
    /\ UNCHANGED <<storeVars, late, outside, drops>>

FinishPurchase(p) ==
    /\ At(p, "complete")
    /\ CompleteExecution(proc[p].mon, proc[p].attempt, proc[p].total)
    /\ Finish(p)
    /\ UNCHANGED <<late, outside, drops>>

AbandonExecution(p) ==
    /\ At(p, "fail")
    /\ FailExecution(proc[p].mon, proc[p].attempt, proc[p].answer = "payment_required")
    /\ ReturnError(p)
    /\ UNCHANGED <<late, outside, drops>>

-----------------------------------------------------------------------------
(* Time, and processes that stop at an await. *)

DeadlinePasses(m) ==
    /\ status[m] # "absent"
    /\ m \notin late
    /\ late' = late \cup {m}
    /\ UNCHANGED <<storeVars, proc, outside, drops>>

JobFallsDue(m) ==
    /\ m \in jobs \ due
    /\ due' = due \cup {m}
    /\ UNCHANGED <<status, product, jobs, lease, attempts, orders, auths,
                   proc, late, outside, drops>>

\* 45 s after the claim, whether or not the tick that holds it is done.
LeaseLapses(m) ==
    /\ lease[m].state = "held"
    /\ lease' = [lease EXCEPT ![m].state = "lapsed"]
    /\ UNCHANGED <<status, product, jobs, due, attempts, orders, auths,
                   proc, late, outside, drops>>

Drop(p) ==
    /\ ~At(p, "idle")
    /\ drops < MaxDrops
    /\ drops' = drops + 1
    /\ Finish(p)
    /\ UNCHANGED <<storeVars, late, outside>>

-----------------------------------------------------------------------------
EngineStep(p) ==
    \/ FindExistingOrder(p)
    \/ CheckAuthorization(p)
    \/ StartExecution(p)
    \/ Revalidate(p)
    \/ CallCheckout(p)
    \/ HandleAnswer(p)
    \/ FinishPurchase(p)
    \/ AbandonExecution(p)
    \/ \E m \in Monitors : ReleaseNext(p, m)

WorkerStep(w) ==
    \/ ExpireDue(w)
    \/ ClaimNothing(w)
    \/ \E m \in Monitors : ClaimJob(w, m)
    \/ CheckFails(w)
    \/ \E o \in Offers : CheckOffer(w, o)
    \/ EstablishBaseline(w)
    \/ Reschedule(w)
    \/ AfterFailure(w)

\* A request a client may send at any time.
Request(h) ==
    \E m \in Monitors :
        \/ \E p \in Products \cup {None} : Create(h, m, p)
        \/ Cancel(h, m)
        \/ \E o \in Offers : SubmitOffer(h, m, o)
        \/ \E a \in Amounts : AuthorizePayment(h, m, a)

HandlerStep(h) ==
    \/ CommitHold(h)
    \/ RecordAuthorization(h)

Clock(m) == DeadlinePasses(m) \/ JobFallsDue(m) \/ LeaseLapses(m)

Next ==
    \/ \E p \in Processes : EngineStep(p) \/ Drop(p)
    \/ \E w \in Workers : WorkerStep(w)
    \/ \E h \in Handlers : Request(h) \/ HandlerStep(h)
    \/ \E m \in Monitors : Clock(m) \/ SettleOpenOrder(m) \/ MerchantRestarts(m)

Spec == Init /\ [][Next]_vars

\* A process that was not dropped runs on to its next await; the worker's loop
\* never ends; the next check falls due and leases lapse; a retailer ends up
\* settling an order left open.  A deadline may be as far away as one likes, so
\* that nothing below holds only because the watch ends; nothing makes a client
\* send a request, a process be dropped or the merchant restart.
Fairness ==
    /\ \A p \in Processes : WF_vars(EngineStep(p))
    /\ \A w \in Workers : WF_vars(WorkerStep(w))
    /\ \A h \in Handlers : WF_vars(HandlerStep(h))
    /\ \A m \in Monitors : /\ WF_vars(JobFallsDue(m))
                           /\ WF_vars(LeaseLapses(m))
                           /\ WF_vars(SettleOpenOrder(m))

FairSpec == Spec /\ Fairness

(***************************************************************************)
(* What the backend promises.                                              *)
(***************************************************************************)

\* The engine asks the merchant to buy at most once in the life of a monitor,
\* whatever was dropped, declined, timed out or forgotten on the way: the
\* idempotency key the merchant is given never carries a second request.
AtMostOneCheckout == \A m \in Monitors : calls[m] <= 1

\* The two tables a claim and its outcome write together never disagree: a
\* monitor is executing, or purchased, exactly when its attempt is started, or
\* succeeded; and a recorded order is what purchased means.
AttemptMatchesStatus ==
    \A m \in Monitors :
        /\ status[m] = "executing" <=> attempts[m] = <<"started">>
        /\ status[m] = "purchased" <=> attempts[m] = <<"succeeded">>
        /\ status[m] = "purchased" <=> orders[m] # << >>

\* Money moves only inside the mandate: every order ever placed for a monitor,
\* at the price read again just before checkout, is within the ceiling and
\* within an amount the user authorized; what the store records is that price.
PurchaseIsCovered ==
    \A m \in Monitors :
        /\ \A i \in DOMAIN bought[m] :
              /\ bought[m][i] <= Mandate[m].maximum_total_minor
              /\ \E a \in auths[m] : bought[m][i] <= a
        /\ orders[m] # << >> => orders[m] = bought[m]

\* A watch in a terminal state has no job left to check it, and every other
\* watch has one: no purchase, cancellation or expiry forgets the row, and no
\* failure loses it.
JobsFollowStatus ==
    \A m \in Monitors :
        m \in jobs <=> status[m] # "absent" /\ ~IsTerminal(status[m])

\* While a process stands between its claim and the outcome, the monitor stays
\* executing: no cancellation, expiry, authorization or other process takes it
\* away, so the purchase is recorded where it was started.
ExecutionIsExclusive ==
    \A p, q \in Processes :
        LET busy(x) == proc[x].pc \in {"revalidate", "checkout", "answer", "complete", "fail"}
        IN  busy(p) => /\ status[proc[p].mon] = "executing"
                       /\ busy(q) /\ proc[q].mon = proc[p].mon => p = q

\* The hold behind a watch that still runs is never given back: only a monitor
\* already cancelled or expired is released.
ReleasedOnlyWhenStopped ==
    \A m \in Monitors :
        (\E i \in DOMAIN holds[m] : holds[m][i] = "released")
            => status[m] \in {"cancelled", "expired"}

\* Every change of status is one the domain declares, or the claim of an
\* execution on a monitor never marked evaluating.  In particular purchased,
\* expired and cancelled are final.
StatusFollowsDomain ==
    [][\A m \in Monitors :
          status'[m] # status[m] =>
              \/ CanTransitionTo(status[m], status'[m])
              \/ status[m] = "active" /\ status'[m] = "executing"
              \/ status[m] = "absent" /\ status'[m] = "active"]_status

\* A worker that outlived its lease does not reschedule the check another
\* worker is running: a lease in force ends by its owner's hand, by time, or
\* with the watch.
LeaseIsFenced ==
    [][\A m \in Monitors :
          lease[m].state = "held" /\ lease'[m] # lease[m] =>
              \/ lease'[m] = [lease[m] EXCEPT !.state = "lapsed"]
              \/ m \notin jobs'
              \/ /\ At(lease[m].owner, "reschedule")
                 /\ proc[lease[m].owner].mon = m]_vars

\* Once established, the product a monitor buys never changes, whichever of
\* two workers observed the first offer.
BaselineIsFixed ==
    [][\A m \in Monitors : product[m] # None => product'[m] = product[m]]_product

Phase(s) ==
    CASE s = "absent"                       -> "none"
      [] s = "executing"                    -> "buying"
      [] s = "purchased"                    -> "bought"
      [] s \in {"cancelled", "expired"}     -> "closed"
      [] OTHER                              -> "open"

Promise == INSTANCE OneShotPurchase WITH
    Ceiling <- [m \in Monitors |-> Mandate[m].maximum_total_minor],
    phase   <- [m \in Monitors |-> Phase(status[m])],
    tried   <- {m \in Monitors : attempts[m] # << >>},
    charged <- bought

\* The backend implements the one-shot purchase: whatever is dropped, retried,
\* forgotten or answered late, every step is a step of the promise or leaves
\* it as it is.
KeepsThePromise == Promise!Spec

\* No crash, lost lease or error ends a watch by accident: as long as it is
\* active, its page is read again and again, by whichever worker is left.
WatchIsCheckedAgain ==
    \A m \in Monitors :
        status[m] = "active"
            ~> \/ status[m] # "active"
               \/ \E w \in Workers : At(w, "check") /\ proc[w].mon = m

\* A watch past its deadline does not stay active, even when the check that
\* holds its lease outlives the deadline.
OverdueWatchStops ==
    \A m \in Monitors : m \in late /\ status[m] = "active" ~> status[m] # "active"

\* When no call is lost outside, an execution ends: the monitor does not stay
\* executing, whatever the merchant answers, unless its process is dropped.
EveryExecutionEnds ==
    \A m \in Monitors : status[m] = "executing" ~> status[m] # "executing" \/ drops > 0

=============================================================================
