---------------------------- MODULE BuyAgentPromise ----------------------------
(***************************************************************************)
(* What BuyAgent promises its user, for all values of its constants: every *)
(* charge is inside the mandate, a hold is given back only when the watch  *)
(* is over, the changes of status are those of the domain, and the whole   *)
(* refines OneShotPurchase.                                                *)
(*                                                                         *)
(* IInv of BuyAgentProofs says that one process at a time executes a       *)
(* monitor and calls checkout once.  WatchInv says what holds of a watch   *)
(* besides, and MoneyInv follows an amount from the offer that passed the  *)
(* gate, over the call and whatever the merchant does with it, to the      *)
(* order the store records.                                                *)
(***************************************************************************)
EXTENDS BuyAgentProofs

Stopped(m) == status[m] \in {"cancelled", "expired"}

HasReturned(q) == \E i \in DOMAIN q : q[i] = "released"

\* No transaction writes "failed"; a product comes with the row or after it; who
\* releases holds does so for watches that are over.
WatchInv ==
    /\ \A m \in Monitors :
          /\ status[m] # "failed"
          /\ status[m] = "absent" => product[m] = None
          /\ HasReturned(holds[m]) => Stopped(m)
    /\ \A p \in Processes : At(p, "release") => \A m \in proc[p].todo : Stopped(m)

Ceiling(m) == Mandate[m].maximum_total_minor

\* An amount the mandate allows, of a monitor that has an authorization: each
\* one is at least the ceiling.
Allowed(m, t) == t <= Ceiling(m) /\ auths[m] # {}

\* What the tables and the merchant know of the purchase of a monitor.
Charged(m) ==
    /\ \A a \in auths[m] : a >= Ceiling(m)
    /\ bought[m] = << >> \/ \E t \in Amounts : bought[m] = <<t>> /\ Allowed(m, t)
    /\ merchant[m].state = "open" => bought[m] = << >> /\ Allowed(m, merchant[m].total)
    /\ merchant[m].state = "order" => bought[m] = <<merchant[m].total>>
    /\ calls[m] = 0 => merchant[m].state = "none" /\ bought[m] = << >>
    /\ orders[m] # << >> => orders[m] = bought[m]

\* The awaits at which a session carries an amount or an authorization.
Engaged == {"commit", "record", "claim_execution"} \cup Busy

Fit(s) ==
    /\ s.pc \in {"commit", "record"} => s.total >= Ceiling(s.mon)
    /\ s.pc \in {"claim_execution"} \cup Busy => auths[s.mon] # {}
    /\ s.pc = "checkout" => s.offer.total_minor <= Ceiling(s.mon)
    /\ s.pc = "complete" \/ (s.pc = "answer" /\ s.answer = "confirmed")
          => bought[s.mon] = <<s.total>>

MoneyInv ==
    /\ \A m \in Monitors : Charged(m)
    /\ \A p \in Processes : Fit(proc[p])

FullInv == IInv /\ WatchInv /\ MoneyInv

-----------------------------------------------------------------------------
(* What a step does to the status, the attempts and the charges, as one of *)
(* the moves the promise knows, or as none.                                *)

Tried == {m \in Monitors : attempts[m] # << >>}

Rests == UNCHANGED <<status, bought>> /\ Tried' = Tried

SetStatus(m, to) == status' = [status EXCEPT ![m] = to] /\ UNCHANGED bought

Opens(m) == status[m] = "absent" /\ SetStatus(m, "active") /\ Tried' = Tried

Starts(m) ==
    /\ status[m] \in {"active", "evaluating"}
    /\ SetStatus(m, "executing")
    /\ m \notin Tried
    /\ Tried' = Tried \cup {m}

Charges(m) ==
    /\ m \in Tried /\ bought[m] = << >>
    /\ \E a \in Amounts : a <= Ceiling(m) /\ bought' = [bought EXCEPT ![m] = <<a>>]
    /\ UNCHANGED status /\ Tried' = Tried

Succeeds(m) ==
    /\ status[m] = "executing" /\ bought[m] # << >>
    /\ SetStatus(m, "purchased") /\ Tried' = Tried

GivesUp(m) ==
    /\ status[m] = "executing"
    /\ \E to \in {"active", "payment_required"} : SetStatus(m, to)
    /\ Tried' = Tried

Pauses(m) ==
    /\ status[m] \in {"active", "evaluating"}
    /\ SetStatus(m, "payment_required") /\ Tried' = Tried

Cancels(m) ==
    /\ status[m] \in {"active", "evaluating", "payment_required"}
    /\ SetStatus(m, "cancelled") /\ Tried' = Tried

Expires(some) ==
    /\ \A m \in some : status[m] \in {"active", "evaluating"}
    /\ status' = [m \in Monitors |-> IF m \in some THEN "expired" ELSE status[m]]
    /\ UNCHANGED bought /\ Tried' = Tried

Moves ==
    \/ Rests
    \/ \E m \in Monitors :
          \/ Opens(m) \/ Starts(m) \/ Charges(m) \/ Succeeds(m)
          \/ GivesUp(m) \/ Pauses(m) \/ Cancels(m)
    \/ \E some \in SUBSET Monitors : Expires(some)

LEMMA RestsIfUnchanged ==
    ASSUME UNCHANGED <<status, attempts, bought>>
    PROVE  Moves
  BY DEF Moves, Rests, Tried

LEMMA TriedKept ==
    ASSUME UNCHANGED attempts
    PROVE  Tried' = Tried
  BY DEF Tried

\* Whoever stands between claim and outcome has the locals of its execution.
LEMMA BusyFacts ==
    ASSUME FullInv, NEW p \in Processes, proc[p].pc \in Busy
    PROVE  /\ proc[p].mon \in Monitors
           /\ status[proc[p].mon] = "executing" /\ attempts[proc[p].mon] = <<"started">>
           /\ proc[p].attempt = 1 /\ proc[p].mon \in Tried
           /\ orders[proc[p].mon] = << >> /\ auths[proc[p].mon] # {}
<1>1. proc[p].mon \in Monitors
  BY DEF FullInv, IInv, TypeInv, Sound, Busy
<1>2. /\ status[proc[p].mon] = "executing" /\ attempts[proc[p].mon] = <<"started">>
      /\ proc[p].attempt = 1 /\ orders[proc[p].mon] = << >>
  BY <1>1 DEF FullInv, IInv, EngineInv, Owned, Books
<1>3. attempts[proc[p].mon] # << >>
  BY <1>2, AttemptsDiffer
<1>4. auths[proc[p].mon] # {}
  BY DEF FullInv, MoneyInv, Fit
<1> QED BY <1>1, <1>2, <1>3, <1>4 DEF Tried

LEMMA OutcomeMoves ==
    ASSUME FullInv, NEW p \in Processes, FinishPurchase(p) \/ AbandonExecution(p)
    PROVE  Moves
<1> DEFINE m == proc[p].mon
<1>1. proc[p].pc \in Busy /\ UNCHANGED bought
  BY DEF FinishPurchase, AbandonExecution, At, Busy, outside
<1>2. /\ m \in Monitors /\ status[m] = "executing" /\ attempts[m] = <<"started">>
      /\ proc[p].attempt = 1 /\ m \in Tried
  BY <1>1, BusyFacts
<1>3. StoreTypeOK
  BY DEF FullInv, IInv, TypeInv, TypeOK
<1>4. ASSUME NEW x, attempts' = [attempts EXCEPT ![m][1] = x] PROVE Tried' = Tried
  <2>1. [<<"started">> EXCEPT ![1] = x] = <<x>>
    OBVIOUS
  <2>2. attempts'[m] = <<x>> /\ \A k \in Monitors \ {m} : attempts'[k] = attempts[k]
    BY <2>1, <1>2, <1>3, <1>4 DEF StoreTypeOK
  <2>3. attempts'[m] # << >>
    BY <2>2, AttemptsDiffer
  <2> QED BY <2>2, <2>3, <1>2 DEF Tried
<1>5. CASE FinishPurchase(p)
  <2>1. CompleteExecution(m, 1, proc[p].total) /\ proc[p].pc = "complete"
    BY <1>2, <1>5 DEF FinishPurchase, At
  <2>2. bought[m] = <<proc[p].total>>
    <3>1. Fit(proc[p])
      BY DEF FullInv, MoneyInv
    <3> QED BY <2>1, <3>1 DEF Fit
  <2>3. bought[m] # << >>
    BY <2>2, AttemptsDiffer
  <2>4. <<"started">>[1] = "started"
    OBVIOUS
  <2>5. status' = [status EXCEPT ![m] = "purchased"]
        /\ attempts' = [attempts EXCEPT ![m][1] = "succeeded"]
    BY <2>1, <2>4, <1>2 DEF CompleteExecution
  <2>6. Succeeds(m)
    BY <2>3, <2>5, <1>1, <1>2, <1>4 DEF Succeeds, SetStatus
  <2> QED BY <2>6, <1>2 DEF Moves
<1>6. CASE AbandonExecution(p)
  <2>1. FailExecution(m, 1, proc[p].answer = "payment_required")
    BY <1>2, <1>6 DEF AbandonExecution
  <2>2. /\ \E to \in {"active", "payment_required"} : status' = [status EXCEPT ![m] = to]
        /\ attempts' = [attempts EXCEPT ![m][1] = "failed"]
    BY <2>1, <1>2 DEF FailExecution
  <2>3. GivesUp(m)
    BY <2>2, <1>1, <1>2, <1>4 DEF GivesUp, SetStatus
  <2> QED BY <2>3, <1>2 DEF Moves
<1> QED BY <1>5, <1>6

\* The three ways an order comes to be placed.
LEMMA ChargeMoves ==
    ASSUME FullInv, NEW m \in Monitors, UNCHANGED <<status, attempts>>,
           bought[m] = << >>, calls[m] # 0 \/ m \in Tried,
           NEW t \in Amounts, t <= Ceiling(m),
           bought' = [bought EXCEPT ![m] = Append(@, t)]
    PROVE  Moves
<1>1. m \in Tried
  BY DEF FullInv, IInv, EngineInv, Counted, Tried
<1>2. Append(bought[m], t) = <<t>>
  OBVIOUS
<1>3. bought' = [bought EXCEPT ![m] = <<t>>]
  BY <1>2
<1>4. Charges(m)
  BY <1>1, <1>3, TriedKept DEF Charges
<1> QED BY <1>4 DEF Moves

LEMMA EngineMoves ==
    ASSUME FullInv, NEW p \in Processes, EngineStep(p)
    PROVE  Moves
<1> DEFINE m == proc[p].mon
<1>1. CASE \/ FindExistingOrder(p) \/ CheckAuthorization(p) \/ Revalidate(p) \/ HandleAnswer(p)
           \/ \E k \in Monitors : ReleaseNext(p, k)
  BY <1>1, RestsIfUnchanged DEF FindExistingOrder, CheckAuthorization, Revalidate,
     HandleAnswer, ReleaseNext, storeVars, outside
<1>2. CASE StartExecution(p)
  <2>1. CASE ClaimExecution(m)
    <3>1. m \in Monitors
      BY <1>2 DEF StartExecution, At, FullInv, IInv, TypeInv, Sound
    <3>2. /\ status[m] \in {"active", "evaluating"} /\ attempts[m] = << >>
          /\ status' = [status EXCEPT ![m] = "executing"]
          /\ attempts' = [attempts EXCEPT ![m] = <<"started">>]
      BY <2>1 DEF ClaimExecution, CanClaimExecution, KeyIsFree
    <3>3. Tried' = Tried \cup {m} /\ m \notin Tried
      BY <3>1, <3>2, AttemptsDiffer DEF Tried, FullInv, IInv, TypeInv, TypeOK, StoreTypeOK
    <3>4. Starts(m)
      BY <3>2, <3>3, <1>2 DEF Starts, SetStatus, StartExecution, outside
    <3> QED BY <3>1, <3>4 DEF Moves
  <2>2. CASE UNCHANGED storeVars
    BY <2>2, <1>2, RestsIfUnchanged DEF StartExecution, storeVars, outside
  <2> QED BY <1>2, <2>1, <2>2 DEF StartExecution
<1>3. CASE CallCheckout(p)
  <2>1. UNCHANGED <<status, attempts>> /\ proc[p].pc = "checkout" /\ proc[p].pc \in Busy
    BY <1>3 DEF CallCheckout, At, storeVars, Busy
  <2>2. m \in Monitors /\ m \in Tried
    BY <2>1, BusyFacts
  <2>3. calls[m] = 0
    BY <2>1 DEF FullInv, IInv, EngineInv, Owned
  <2>4. bought[m] = << >>
    BY <2>2, <2>3 DEF FullInv, MoneyInv, Charged
  <2>5. proc[p].offer.total_minor \in Amounts /\ proc[p].offer.total_minor <= Ceiling(m)
    BY <2>1 DEF FullInv, IInv, TypeInv, Sound, MoneyInv, Fit
  <2>6. bought' = bought \/ bought' = [bought EXCEPT ![m] = Append(@, proc[p].offer.total_minor)]
    BY <1>3 DEF CallCheckout, Checkout, PlaceOrder
  <2> QED BY <2>1, <2>2, <2>4, <2>5, <2>6, RestsIfUnchanged, ChargeMoves
<1>4. CASE FinishPurchase(p) \/ AbandonExecution(p)
  BY <1>4, OutcomeMoves
<1> QED BY <1>1, <1>2, <1>3, <1>4 DEF EngineStep

LEMMA WorkerMoves ==
    ASSUME FullInv, NEW w \in Workers, WorkerStep(w)
    PROVE  Moves
<1>1. CASE ExpireDue(w)
  <2>1. ExpireDueMonitors(late) /\ UNCHANGED <<attempts, bought>>
    BY <1>1 DEF ExpireDue, ExpireDueMonitors, outside
  <2>2. /\ Expirable(late) \in SUBSET Monitors
        /\ \A m \in Expirable(late) : status[m] \in {"active", "evaluating"}
    BY DEF Expirable, FullInv, IInv, TypeInv, TypeOK, WatchInv
  <2>3. Expires(Expirable(late))
    BY <2>1, <2>2, TriedKept DEF Expires, ExpireDueMonitors
  <2> QED BY <2>2, <2>3 DEF Moves
<1>2. CASE \/ ClaimNothing(w) \/ CheckFails(w) \/ AfterFailure(w) \/ EstablishBaseline(w)
           \/ Reschedule(w) \/ \E m \in Monitors : ClaimJob(w, m)
           \/ \E o \in Offers : CheckOffer(w, o)
  BY <1>2, RestsIfUnchanged DEF ClaimNothing, CheckFails, AfterFailure, EstablishBaseline,
     SetProductIfMissing, Reschedule, CompleteJob, ClaimJob, ClaimDueJob, CheckOffer,
     storeVars, outside
<1> QED BY <1>1, <1>2 DEF WorkerStep

LEMMA HandlerMoves ==
    ASSUME FullInv, NEW h \in Handlers, Request(h) \/ HandlerStep(h)
    PROVE  Moves
<1>1. ASSUME NEW m \in Monitors, NEW x, Create(h, m, x) PROVE Moves
  <2>1. Opens(m)
    BY <1>1, TriedKept DEF Create, CreateMonitor, Opens, SetStatus, outside
  <2> QED BY <2>1 DEF Moves
<1>2. ASSUME NEW m \in Monitors, Cancel(h, m) PROVE Moves
  <2>1. status[m] # "failed"
    BY DEF FullInv, WatchInv
  <2>2. Cancels(m)
    BY <1>2, <2>1, TriedKept DEF Cancel, CancelMonitor, CanCancel, Cancels, SetStatus, outside
  <2> QED BY <2>2 DEF Moves
<1>3. ASSUME NEW m \in Monitors, NEW o \in Offers, SubmitOffer(h, m, o) PROVE Moves
  BY <1>3, RestsIfUnchanged DEF SubmitOffer, storeVars, outside
<1>4. ASSUME NEW m \in Monitors, NEW a \in Amounts, AuthorizePayment(h, m, a) PROVE Moves
  BY <1>4, RestsIfUnchanged DEF AuthorizePayment, storeVars, outside
<1>5. CASE CommitHold(h)
  BY <1>5, RestsIfUnchanged DEF CommitHold, storeVars
<1>6. CASE RecordAuthorization(h)
  <2> DEFINE m == proc[h].mon
  <2>1. m \in Monitors
    BY <1>6 DEF RecordAuthorization, At, FullInv, IInv, TypeInv, Sound, Processes
  <2>2. /\ UNCHANGED <<attempts, bought>>
        /\ \/ status' = status
           \/ /\ status[m] \in {"active", "evaluating"}
              /\ status' = [status EXCEPT ![m] = "payment_required"]
    BY <1>6 DEF RecordAuthorization, CreatePaymentAuthorization, outside
  <2>3. status' = status \/ Pauses(m)
    BY <2>2, TriedKept DEF Pauses, SetStatus
  <2> QED BY <2>1, <2>2, <2>3, RestsIfUnchanged DEF Moves
<1> QED BY <1>1, <1>2, <1>3, <1>4, <1>5, <1>6 DEF Request, HandlerStep

LEMMA OtherMoves ==
    ASSUME FullInv
    PROVE  /\ \A p \in Processes : Drop(p) => Moves
           /\ \A m \in Monitors : Clock(m) \/ SettleOpenOrder(m) \/ MerchantRestarts(m) => Moves
           /\ UNCHANGED vars => Moves
<1>1. ASSUME NEW p \in Processes, Drop(p) PROVE Moves
  BY <1>1, RestsIfUnchanged DEF Drop, storeVars, outside
<1>2. ASSUME NEW m \in Monitors, Clock(m) PROVE Moves
  BY <1>2, RestsIfUnchanged DEF Clock, DeadlinePasses, JobFallsDue, LeaseLapses, storeVars, outside
<1>3. ASSUME NEW m \in Monitors, SettleOpenOrder(m) \/ MerchantRestarts(m) PROVE Moves
  <2> DEFINE t == merchant[m].total
  <2>1. /\ UNCHANGED <<status, attempts>>
        /\ \/ bought' = bought
           \/ merchant[m].state = "open" /\ bought' = [bought EXCEPT ![m] = Append(@, t)]
    BY <1>3 DEF SettleOpenOrder, MerchantRestarts, PlaceOrder, storeVars
  <2>2. merchant[m].state = "open" =>
           bought[m] = << >> /\ t <= Ceiling(m) /\ calls[m] # 0 /\ t \in Amounts
    BY DEF FullInv, MoneyInv, Charged, Allowed, IInv, TypeInv, MerchantOK
  <2> QED BY <2>1, <2>2, RestsIfUnchanged, ChargeMoves
<1>4. ASSUME UNCHANGED vars PROVE Moves
  BY <1>4, RestsIfUnchanged DEF vars, storeVars, outside
<1> QED BY <1>1, <1>2, <1>3, <1>4

LEMMA StepMoves == FullInv /\ [Next]_vars => Moves
  BY EngineMoves, WorkerMoves, HandlerMoves, OtherMoves DEF Next

-----------------------------------------------------------------------------
(* The money: what each step does to the amounts and to the sessions that  *)
(* carry them.                                                             *)

LEMMA DisengagedFits ==
    ASSUME NEW t, t.pc \notin Engaged
    PROVE  Fit(t) /\ Fit(t)'
  BY DEF Fit, Engaged, Busy

\* Of a step that leaves the amounts alone, the session it writes is to show.
LEMMA MoneyQuiet ==
    ASSUME FullInv, NEW p \in Processes, NEW t, Become(p, t), Fit(t),
           UNCHANGED <<auths, bought, merchant, calls, orders>>
    PROVE  MoneyInv'
<1>1. /\ proc'[p] = t
      /\ \A q \in Processes \ {p} : proc'[q] = proc[q]
  BY DEF FullInv, IInv, TypeInv, TypeOK, Become
<1>2. \A m \in Monitors : Charged(m)'
  BY DEF FullInv, MoneyInv, Charged, Allowed, Ceiling
<1>3. \A s : Fit(s) => Fit(s)'
  BY DEF Fit, Ceiling
<1>4. \A q \in Processes : Fit(proc[q])
  BY DEF FullInv, MoneyInv
<1>5. ASSUME NEW q \in Processes PROVE Fit(proc'[q])
  BY <1>1, <1>4, <1>5
<1>6. ASSUME NEW q \in Processes PROVE Fit(proc[q])'
  <2> DEFINE s == proc'[q]
  <2>1. PICK x : x = proc'[q]
    OBVIOUS
  <2>2. Fit(x)'
    BY <1>3, <1>5, <2>1
  <2> QED BY <2>1, <2>2 DEF Fit
<1> QED BY <1>2, <1>6 DEF MoneyInv

LEMMA MoneyUntouched ==
    ASSUME FullInv, UNCHANGED <<proc, auths, bought, merchant, calls, orders>>
    PROVE  MoneyInv'
  BY DEF FullInv, MoneyInv, Charged, Allowed, Ceiling, Fit

\* The sessions that carry nothing.
LEMMA Disengages ==
    ASSUME NEW p,
           \/ ReturnError(p) \/ Finish(p) \/ Restart(p, "reschedule")
           \/ \E todo : ThenRelease(p, todo, "claim") \/ ThenRelease(p, todo, "idle")
    PROVE  \E t : Become(p, t) /\ t.pc \notin Engaged
<1>1. ASSUME Finish(p) PROVE \E t : Become(p, t) /\ t.pc \notin Engaged
  <2>1. Idle.pc \notin Engaged
    BY DEF Idle, Engaged, Busy
  <2> QED BY <1>1, <2>1 DEF Finish
<1>2. ASSUME NEW pc \in {"failed", "reschedule"}, Restart(p, pc)
      PROVE  \E t : Become(p, t) /\ t.pc \notin Engaged
  <2>1. [Idle EXCEPT !.pc = pc, !.mon = proc[p].mon].pc \notin Engaged
    BY DEF Idle, Engaged, Busy
  <2> QED BY <1>2, <2>1 DEF Restart
<1>3. ASSUME NEW todo, NEW next \in {"claim", "idle"}, ThenRelease(p, todo, next)
      PROVE  \E t : Become(p, t) /\ t.pc \notin Engaged
  <2>1. /\ [Idle EXCEPT !.pc = "release", !.todo = todo].pc \notin Engaged
        /\ [Idle EXCEPT !.pc = next].pc \notin Engaged
    BY DEF Idle, Engaged, Busy
  <2> QED BY <1>3, <2>1 DEF ThenRelease
<1> QED BY <1>1, <1>2, <1>3 DEF ReturnError

LEMMA DisengagedQuiet ==
    ASSUME FullInv, NEW p \in Processes,
           UNCHANGED <<auths, bought, merchant, calls, orders>>,
           \/ ReturnError(p) \/ Finish(p) \/ Restart(p, "reschedule")
           \/ \E todo : ThenRelease(p, todo, "claim") \/ ThenRelease(p, todo, "idle")
    PROVE  MoneyInv'
  BY Disengages, DisengagedFits, MoneyQuiet

LEMMA GotoQuiet ==
    ASSUME FullInv, NEW p \in Processes, NEW pc \in PCs, Goto(p, pc),
           UNCHANGED <<auths, bought, merchant, calls, orders>>,
           \/ pc \notin Engaged
           \/ pc = "fail" /\ proc[p].pc \in Busy
           \/ pc = "complete" /\ proc[p].pc = "answer" /\ proc[p].answer = "confirmed"
           \/ pc = "claim_execution" /\ auths[proc[p].mon] # {}
    PROVE  MoneyInv'
<1>1. PICK t : t = [proc[p] EXCEPT !.pc = pc] /\ Become(p, t)
  BY DEF Goto
<1>2. /\ t.pc = pc /\ t.mon = proc[p].mon /\ t.total = proc[p].total
      /\ Fit(proc[p])
  BY <1>1 DEF FullInv, IInv, TypeInv, TypeOK, Sessions, MoneyInv
<1>3. Fit(t)
  BY <1>2 DEF Fit, Engaged, Busy
<1> QED BY <1>1, <1>3, MoneyQuiet

\* The answer comes with the charge the merchant made, if it made one.
LEMMA CallMoney ==
    ASSUME FullInv, NEW p \in Processes, CallCheckout(p)
    PROVE  MoneyInv'
<1> DEFINE m == proc[p].mon
<1>1. PICK t : t = proc[p].offer.total_minor
  OBVIOUS
<1>2. /\ proc[p].pc = "checkout" /\ proc[p].pc \in Busy
      /\ calls' = [calls EXCEPT ![m] = @ + 1] /\ UNCHANGED <<auths, orders>>
  BY DEF CallCheckout, At, storeVars, Busy
<1>3. PICK a \in Answers :
        /\ Checkout(m, t, a)
        /\ Become(p, [proc[p] EXCEPT !.pc = "answer", !.answer = a,
                         !.total = IF a = "confirmed" THEN merchant'[m].total ELSE None])
  BY <1>1 DEF CallCheckout
<1>4. /\ m \in Monitors /\ orders[m] = << >> /\ auths[m] # {}
  BY <1>2, BusyFacts
<1>5. /\ TypeInv /\ proc \in [Processes -> Sessions] /\ merchant \in [Monitors -> Known]
      /\ bought \in [Monitors -> Seq(Amounts)] /\ calls \in [Monitors -> Nat]
  BY DEF FullInv, IInv, TypeInv, TypeOK, Known
<1>6. t \in Amounts /\ Allowed(m, t)
  BY <1>1, <1>2, <1>4 DEF FullInv, IInv, TypeInv, Sound, MoneyInv, Fit, Allowed
<1>7. calls[m] = 0
  BY <1>2 DEF FullInv, IInv, EngineInv, Owned
<1>8. merchant[m].state = "none" /\ bought[m] = << >>
  BY <1>4, <1>7 DEF FullInv, MoneyInv, Charged
<1>9. /\ proc'[p].pc = "answer" /\ proc'[p].answer = a /\ proc'[p].mon = m
      /\ a = "confirmed" => proc'[p].total = merchant'[m].total
      /\ \A q \in Processes \ {p} : proc'[q] = proc[q]
  BY <1>3, <1>5 DEF Become, Sessions
<1>10. /\ \A k \in Monitors \ {m} : /\ merchant'[k] = merchant[k] /\ bought'[k] = bought[k]
                                    /\ calls'[k] = calls[k]
       /\ calls'[m] # 0
  BY <1>2, <1>3, <1>4, <1>5, <1>7 DEF Checkout, PlaceOrder
<1>11. \/ merchant'[m].state = "none" /\ bought'[m] = << >> /\ a # "confirmed"
       \/ merchant'[m].state = "open" /\ merchant'[m].total = t
          /\ bought'[m] = << >> /\ a # "confirmed"
       \/ merchant'[m].state = "order" /\ merchant'[m].total = t /\ bought'[m] = <<t>>
  <2>1. Append(bought[m], t) = <<t>>
    BY <1>8
  <2> QED BY <1>3, <1>4, <1>5, <1>8, <2>1 DEF Checkout, PlaceOrder
<1>12. ASSUME NEW k \in Monitors PROVE Charged(k)'
  <2>1. CASE k = m
    <3>1. \A b \in auths[m] : b >= Ceiling(m)
      BY <1>4 DEF FullInv, MoneyInv, Charged
    <3>2. PICK n \in Monitors : n = m
      BY <1>4
    <3>3. /\ auths'[n] = auths[n] /\ orders'[n] = << >> /\ calls'[n] # 0
          /\ Allowed(n, t) /\ Allowed(n, t)'
      BY <3>2, <1>2, <1>4, <1>6, <1>10 DEF Allowed, Ceiling
    <3>4. Charged(n)'
      BY <3>1, <3>2, <3>3, <1>6, <1>11 DEF Charged, Ceiling
    <3> QED BY <2>1, <3>2, <3>4
  <2>2. CASE k # m
    BY <2>2, <1>2, <1>10 DEF FullInv, MoneyInv, Charged, Allowed, Ceiling
  <2> QED BY <2>1, <2>2
<1>13. ASSUME NEW q \in Processes PROVE Fit(proc[q])'
  <2>1. CASE q = p
    <3>1. a = "confirmed" => bought'[m] = <<proc'[p].total>>
      BY <1>9, <1>11
    <3> QED BY <2>1, <3>1, <1>2, <1>4, <1>9 DEF Fit, Busy
  <2>2. CASE q # p
    <3>1. proc'[q] = proc[q] /\ Fit(proc[q])
      BY <2>2, <1>9 DEF FullInv, MoneyInv
    <3>2. proc[q].pc \in Busy => proc[q].mon \in Monitors \ {m}
      BY <2>2, <1>2, <1>5 DEF FullInv, IInv, EngineInv, Alone, TypeInv, Sound, Busy
    <3> QED BY <3>1, <3>2, <1>2, <1>10 DEF Fit, Ceiling, Busy
  <2> QED BY <2>1, <2>2
<1> QED BY <1>12, <1>13 DEF MoneyInv

LEMMA RecordMoney ==
    ASSUME FullInv, NEW p \in Processes, FinishPurchase(p)
    PROVE  MoneyInv'
<1> DEFINE m == proc[p].mon
<1>1. /\ proc[p].pc = "complete" /\ proc[p].pc \in Busy
      /\ UNCHANGED <<auths, bought, merchant, calls>> /\ Finish(p)
      /\ CompleteExecution(m, proc[p].attempt, proc[p].total)
  BY DEF FinishPurchase, At, outside, CompleteExecution, Busy
<1>2. m \in Monitors /\ orders[m] = << >>
  BY <1>1, BusyFacts
<1>3. bought[m] = <<proc[p].total>>
  <2>1. Fit(proc[p])
    BY DEF FullInv, MoneyInv
  <2> QED BY <1>1, <2>1 DEF Fit
<1>4. orders' = [orders EXCEPT ![m] = bought[m]]
  BY <1>1, <1>2, <1>3 DEF CompleteExecution
<1>5. ASSUME NEW k \in Monitors PROVE Charged(k)'
  <2>1. orders'[k] = orders[k] \/ orders'[k] = bought[k]
    BY <1>4 DEF FullInv, IInv, TypeInv, TypeOK, StoreTypeOK
  <2> QED BY <2>1, <1>1 DEF FullInv, MoneyInv, Charged, Allowed, Ceiling
<1>6. PICK t : Become(p, t) /\ t.pc \notin Engaged
  BY <1>1, Disengages
<1>7. ASSUME NEW q \in Processes PROVE Fit(proc[q])'
  <2>1. proc'[p] = t /\ (q # p => proc'[q] = proc[q])
    BY <1>6 DEF FullInv, IInv, TypeInv, TypeOK, Become
  <2>2. Fit(proc[q])
    BY DEF FullInv, MoneyInv
  <2> QED BY <2>1, <2>2, <1>1, <1>6 DEF Fit, Ceiling, Engaged, Busy
<1> QED BY <1>5, <1>7 DEF MoneyInv

LEMMA EngineMoney ==
    ASSUME FullInv, NEW p \in Processes, EngineStep(p)
    PROVE  MoneyInv'
<1> DEFINE m == proc[p].mon
           s == proc[p]
<1>0. s \in Sessions /\ Sound(s) /\ Fit(s)
  BY DEF FullInv, IInv, TypeInv, TypeOK, MoneyInv
<1>1. CASE FindExistingOrder(p)
  <2>1. Finish(p) \/ Goto(p, "authorize") \/ ReturnError(p)
    BY <1>1 DEF FindExistingOrder, FindOrder
  <2>2. "authorize" \in PCs \ Engaged
    BY DEF PCs, Engaged, Busy
  <2> QED BY <2>1, <2>2, <1>1, DisengagedQuiet, GotoQuiet
         DEF FindExistingOrder, storeVars, outside
<1>2. CASE CheckAuthorization(p)
  <2>1. \/ Goto(p, "claim_execution") /\ auths[m] # {}
        \/ ReturnError(p)
    BY <1>2 DEF CheckAuthorization, HasValidPaymentAuthorization
  <2>2. "claim_execution" \in PCs
    BY DEF PCs
  <2> QED BY <2>1, <2>2, <1>2, DisengagedQuiet, GotoQuiet
         DEF CheckAuthorization, storeVars, outside
<1>3. CASE StartExecution(p)
  <2>1. UNCHANGED <<auths, bought, merchant, calls, orders>> /\ s.pc = "claim_execution"
    BY <1>3 DEF StartExecution, ClaimExecution, At, storeVars, outside
  <2>2. CASE Become(p, [s EXCEPT !.pc = "revalidate", !.attempt = Len(attempts'[m])])
    <3>1. PICK t : t = [s EXCEPT !.pc = "revalidate", !.attempt = Len(attempts'[m])]
                   /\ Become(p, t)
      BY <2>2
    <3>2. t.pc = "revalidate" /\ t.mon = m
      BY <3>1, <1>0 DEF Sessions
    <3>3. Fit(t)
      BY <3>2, <2>1, <1>0 DEF Fit
    <3> QED BY <3>1, <3>3, <2>1, MoneyQuiet
  <2> QED BY <2>1, <2>2, <1>3, DisengagedQuiet DEF StartExecution
<1>4. CASE Revalidate(p)
  <2>1. UNCHANGED <<auths, bought, merchant, calls, orders>> /\ s.pc = "revalidate" /\ s.pc \in Busy
    BY <1>4 DEF Revalidate, At, storeVars, outside, Busy
  <2>2. \/ Goto(p, "fail")
        \/ \E o \in Offers : /\ Qualified(Snapshot(m, product[m]), o, m \in late)
                             /\ Become(p, [s EXCEPT !.pc = "checkout", !.offer = o])
    <3>1. s.offer \in Offers
      BY <2>1, <1>0 DEF Sound, Busy
    <3> QED BY <3>1, <1>4 DEF Revalidate
  <2>3. "fail" \in PCs
    BY DEF PCs
  <2>4. ASSUME NEW o \in Offers, Qualified(Snapshot(m, product[m]), o, m \in late),
               Become(p, [s EXCEPT !.pc = "checkout", !.offer = o])
        PROVE  MoneyInv'
    <3>1. m \in Monitors
      BY <2>1, BusyFacts
    <3>2. o.total_minor <= Ceiling(m)
      BY <3>1, <2>4, QualifiedTotal DEF Snapshot, Ceiling
    <3>3. PICK t : t = [s EXCEPT !.pc = "checkout", !.offer = o] /\ Become(p, t)
      BY <2>4
    <3>4. t.pc = "checkout" /\ t.mon = m /\ t.offer = o
      BY <3>3, <1>0 DEF Sessions
    <3>5. Fit(t)
      BY <3>2, <3>4, <2>1, <1>0 DEF Fit
    <3> QED BY <3>3, <3>5, <2>1, MoneyQuiet
  <2> QED BY <2>1, <2>2, <2>3, <2>4, GotoQuiet
<1>5. CASE CallCheckout(p)
  BY <1>5, CallMoney
<1>6. CASE HandleAnswer(p)
  <2>1. UNCHANGED <<auths, bought, merchant, calls, orders>> /\ s.pc = "answer" /\ s.pc \in Busy
    BY <1>6 DEF HandleAnswer, At, storeVars, outside, Busy
  <2>2. \/ s.answer = "confirmed" /\ Goto(p, "complete")
        \/ Goto(p, "fail") \/ ReturnError(p)
        \/ /\ merchant[m].state = "order"
           /\ Become(p, [s EXCEPT !.pc = "complete", !.total = merchant[m].total])
    BY <1>6 DEF HandleAnswer, FindOrder
  <2>3. "fail" \in PCs /\ "complete" \in PCs
    BY DEF PCs
  <2>4. ASSUME merchant[m].state = "order",
               Become(p, [s EXCEPT !.pc = "complete", !.total = merchant[m].total])
        PROVE  MoneyInv'
    <3>1. m \in Monitors /\ auths[m] # {}
      BY <2>1, BusyFacts
    <3>2. bought[m] = <<merchant[m].total>>
      BY <3>1, <2>4 DEF FullInv, MoneyInv, Charged
    <3>3. PICK t : t = [s EXCEPT !.pc = "complete", !.total = merchant[m].total] /\ Become(p, t)
      BY <2>4
    <3>4. t.pc = "complete" /\ t.mon = m /\ t.total = merchant[m].total
      BY <3>3, <1>0 DEF Sessions
    <3>5. Fit(t)
      BY <3>1, <3>2, <3>4 DEF Fit
    <3> QED BY <3>3, <3>5, <2>1, MoneyQuiet
  <2> QED BY <2>1, <2>2, <2>3, <2>4, GotoQuiet, DisengagedQuiet
<1>7. CASE FinishPurchase(p)
  BY <1>7, RecordMoney
<1>8. CASE AbandonExecution(p)
  BY <1>8, DisengagedQuiet DEF AbandonExecution, FailExecution, outside
<1>9. ASSUME NEW k \in Monitors, ReleaseNext(p, k) PROVE MoneyInv'
  <2>1. \E todo : ThenRelease(p, todo, "claim") \/ ThenRelease(p, todo, "idle")
    BY <1>9 DEF ReleaseNext
  <2> QED BY <2>1, <1>9, DisengagedQuiet DEF ReleaseNext, storeVars
<1> QED BY <1>1, <1>2, <1>3, <1>4, <1>5, <1>6, <1>7, <1>8, <1>9 DEF EngineStep

LEMMA WorkerMoney ==
    ASSUME FullInv, NEW w \in Workers, WorkerStep(w)
    PROVE  MoneyInv'
<1> DEFINE s == proc[w]
<1>0. w \in Processes /\ s \in Sessions
  BY DEF FullInv, IInv, TypeInv, TypeOK, Processes
<1>1. UNCHANGED <<auths, bought, merchant, calls, orders>>
  BY DEF WorkerStep, ExpireDue, ExpireDueMonitors, ClaimNothing, ClaimJob, ClaimDueJob, CheckFails,
         CheckOffer, EstablishBaseline, SetProductIfMissing, Reschedule, CompleteJob, AfterFailure,
         storeVars, outside
<1>2. ASSUME NEW t, Become(w, t), t.pc \notin Engaged PROVE MoneyInv'
  BY <1>0, <1>1, <1>2, DisengagedFits, MoneyQuiet
<1>3. CASE ExpireDue(w) \/ ClaimNothing(w) \/ CheckFails(w) \/ EstablishBaseline(w) \/ Reschedule(w)
  BY <1>0, <1>1, <1>3, DisengagedQuiet
     DEF ExpireDue, ClaimNothing, CheckFails, EstablishBaseline, Reschedule
<1>4. ASSUME NEW k \in Monitors, ClaimJob(w, k) PROVE MoneyInv'
  <2>1. [Idle EXCEPT !.pc = "check", !.mon = k, !.product = product[k]].pc \notin Engaged
    BY DEF Idle, Engaged, Busy
  <2> QED BY <1>2, <1>4, <2>1 DEF ClaimJob
<1>5. ASSUME NEW o \in Offers, CheckOffer(w, o) PROVE MoneyInv'
  <2>1. /\ [s EXCEPT !.pc = "baseline", !.offer = o].pc \notin Engaged
        /\ [s EXCEPT !.pc = "find", !.offer = o].pc \notin Engaged
    BY <1>0 DEF Sessions, Engaged, Busy
  <2>2. \/ Become(w, [s EXCEPT !.pc = "baseline", !.offer = o])
        \/ Become(w, [s EXCEPT !.pc = "find", !.offer = o])
        \/ Restart(w, "reschedule")
    BY <1>5 DEF CheckOffer
  <2> QED BY <1>0, <1>1, <1>2, <2>1, <2>2, DisengagedQuiet
<1>6. CASE AfterFailure(w)
  <2>1. "reschedule" \in PCs \ Engaged
    BY DEF PCs, Engaged, Busy
  <2> QED BY <1>0, <1>1, <1>6, <2>1, GotoQuiet, DisengagedQuiet DEF AfterFailure
<1> QED BY <1>3, <1>4, <1>5, <1>6 DEF WorkerStep

\* An authorization is recorded for what the request asked, which covers the
\* ceiling.
LEMMA GrantMoney ==
    ASSUME FullInv, NEW h \in Processes, RecordAuthorization(h)
    PROVE  MoneyInv'
<1> DEFINE m == proc[h].mon
           a == proc[h].total
<1>1. /\ proc[h].pc = "record" /\ Finish(h)
      /\ UNCHANGED <<bought, merchant, calls, orders>>
      /\ auths' = [auths EXCEPT ![m] = @ \cup {a}]
  BY DEF RecordAuthorization, CreatePaymentAuthorization, At, outside
<1>2. m \in Monitors /\ a >= Ceiling(m) /\ StoreTypeOK
  BY <1>1 DEF FullInv, IInv, TypeInv, TypeOK, Sound, MoneyInv, Fit
<1>3. \A k \in Monitors : auths[k] \subseteq auths'[k]
  BY <1>1, <1>2 DEF StoreTypeOK
<1>4. ASSUME NEW k \in Monitors PROVE \A b \in auths'[k] : b >= Ceiling(k)
  <2>1. \A b \in auths[k] : b >= Ceiling(k)
    BY DEF FullInv, MoneyInv, Charged
  <2>2. auths'[k] = auths[k] \/ (k = m /\ auths'[k] = auths[k] \cup {a})
    BY <1>1, <1>2 DEF StoreTypeOK
  <2> QED BY <1>2, <2>1, <2>2
<1>5. ASSUME NEW k \in Monitors PROVE Charged(k)'
  <2>1. Charged(k) /\ (auths[k] # {} => auths'[k] # {})
    BY <1>3 DEF FullInv, MoneyInv
  <2>2. \A t : Allowed(k, t) => Allowed(k, t)'
    BY <2>1 DEF Allowed, Ceiling
  <2>3. (\A b \in auths[k] : b >= Ceiling(k))'
    BY <1>4 DEF Ceiling
  <2> QED BY <2>1, <2>2, <2>3, <1>1 DEF Charged
<1>6. PICK t : Become(h, t) /\ t.pc \notin Engaged
  BY <1>1, Disengages
<1>7. ASSUME NEW q \in Processes PROVE Fit(proc[q])'
  <2>1. proc'[h] = t /\ (q # h => proc'[q] = proc[q])
    BY <1>6 DEF FullInv, IInv, TypeInv, TypeOK, Become
  <2>2. CASE q = h
    BY <2>1, <2>2, <1>6 DEF Fit, Engaged, Busy
  <2>3. CASE q # h
    <3>1. Fit(proc[q]) /\ Sound(proc[q]) /\ proc'[q] = proc[q]
      BY <2>1, <2>3 DEF FullInv, MoneyInv, IInv, TypeInv
    <3>2. proc[q].pc \in {"claim_execution"} \cup Busy => auths'[proc[q].mon] # {}
      BY <3>1, <1>3 DEF Fit, Sound, Busy
    <3> QED BY <3>1, <3>2, <1>1 DEF Fit, Ceiling
  <2> QED BY <2>2, <2>3
<1> QED BY <1>5, <1>7 DEF MoneyInv

LEMMA HandlerMoney ==
    ASSUME FullInv, NEW h \in Handlers, Request(h) \/ HandlerStep(h)
    PROVE  MoneyInv'
<1> DEFINE s == proc[h]
<1>0. h \in Processes /\ s \in Sessions /\ Fit(s)
  BY DEF FullInv, IInv, TypeInv, TypeOK, Processes, MoneyInv
<1>1. ASSUME NEW k \in Monitors, NEW r, Create(h, k, r) PROVE MoneyInv'
  BY <1>1, MoneyUntouched DEF Create, CreateMonitor, outside
<1>2. ASSUME NEW k \in Monitors, Cancel(h, k) PROVE MoneyInv'
  BY <1>0, <1>2, DisengagedQuiet DEF Cancel, CancelMonitor, outside
<1>3. ASSUME NEW k \in Monitors, NEW o \in Offers, SubmitOffer(h, k, o) PROVE MoneyInv'
  <2>1. [Idle EXCEPT !.pc = "find", !.mon = k, !.offer = o].pc \notin Engaged
    BY DEF Idle, Engaged, Busy
  <2> QED BY <1>0, <1>3, <2>1, DisengagedFits, MoneyQuiet DEF SubmitOffer, storeVars, outside
<1>4. ASSUME NEW k \in Monitors, NEW a \in Amounts, AuthorizePayment(h, k, a) PROVE MoneyInv'
  <2>1. PICK t : /\ t = [Idle EXCEPT !.pc = IF FundsWired THEN "commit" ELSE "record",
                                     !.mon = k, !.total = a]
                 /\ Become(h, t)
    BY <1>4 DEF AuthorizePayment
  <2>2. t.pc \in {"commit", "record"} /\ t.mon = k /\ t.total = a
    BY <2>1 DEF Idle
  <2>3. Fit(t)
    BY <2>2, <1>4 DEF Fit, Busy, AuthorizePayment, Ceiling
  <2> QED BY <2>1, <2>3, <1>0, <1>4, MoneyQuiet DEF AuthorizePayment, storeVars, outside
<1>5. CASE CommitHold(h)
  <2>1. /\ s.pc = "commit" /\ UNCHANGED <<auths, bought, merchant, calls, orders>>
        /\ Finish(h) \/ \E a : Become(h, [s EXCEPT !.pc = "record", !.answer = a])
    BY <1>5 DEF CommitHold, At, storeVars
  <2>2. ASSUME NEW a, Become(h, [s EXCEPT !.pc = "record", !.answer = a]) PROVE MoneyInv'
    <3>1. PICK t : t = [s EXCEPT !.pc = "record", !.answer = a] /\ Become(h, t)
      BY <2>2
    <3>2. t.pc = "record" /\ t.mon = s.mon /\ t.total = s.total
      BY <3>1, <1>0 DEF Sessions
    <3>3. Fit(t)
      BY <3>2, <2>1, <1>0 DEF Fit, Busy
    <3> QED BY <3>1, <3>3, <2>1, <1>0, MoneyQuiet
  <2> QED BY <2>1, <2>2, <1>0, DisengagedQuiet
<1>6. CASE RecordAuthorization(h)
  BY <1>0, <1>6, GrantMoney
<1> QED BY <1>1, <1>2, <1>3, <1>4, <1>5, <1>6 DEF Request, HandlerStep

\* An order left open was not charged yet, and no session counts on it.
LEMMA OpenOrderMoney ==
    ASSUME FullInv, NEW m \in Monitors, SettleOpenOrder(m) \/ MerchantRestarts(m)
    PROVE  MoneyInv'
<1> DEFINE x == merchant[m].total
<1>1. UNCHANGED <<proc, auths, calls, orders>>
  BY DEF SettleOpenOrder, MerchantRestarts, storeVars
<1>2. Charged(m) /\ MerchantOK /\ merchant[m].state # "none"
  BY DEF FullInv, MoneyInv, IInv, TypeInv, SettleOpenOrder, MerchantRestarts
<1>3. /\ merchant \in [Monitors -> Known] /\ bought \in [Monitors -> Seq(Amounts)]
  BY DEF FullInv, IInv, TypeInv, TypeOK, Known
<1>4. /\ calls[m] # 0
      /\ merchant[m].state = "open" =>
            /\ bought[m] = << >> /\ Append(bought[m], x) = <<x>>
            /\ x \in Amounts /\ Allowed(m, x)
  <2>1. calls[m] # 0
    BY <1>2 DEF Charged
  <2>2. merchant[m].state = "open" => bought[m] = << >> /\ Allowed(m, x)
    BY <1>2 DEF Charged
  <2>3. x \in Amounts
    BY <1>2 DEF MerchantOK
  <2>4. \A y : Append(<< >>, y) = <<y>>
    OBVIOUS
  <2> QED BY <2>1, <2>2, <2>3, <2>4
<1>5. \A k \in Monitors \ {m} : merchant'[k] = merchant[k] /\ bought'[k] = bought[k]
  BY <1>3 DEF SettleOpenOrder, MerchantRestarts, PlaceOrder
<1>6. \/ /\ merchant'[m].state = "none" /\ bought'[m] = bought[m]
      \/ /\ merchant'[m].state = "none" /\ merchant[m].state = "open" /\ bought'[m] = <<x>>
      \/ /\ merchant'[m].state = "order" /\ merchant'[m].total = x
         /\ merchant[m].state = "open" /\ bought'[m] = <<x>>
  BY <1>3, <1>4 DEF SettleOpenOrder, MerchantRestarts, PlaceOrder, NoOrder
<1>7. ASSUME NEW k \in Monitors, bought'[k] # bought[k] PROVE k = m /\ bought[m] = << >>
  BY <1>4, <1>5, <1>6, <1>7
<1>8. ASSUME NEW k \in Monitors PROVE Charged(k)'
  <2>1. Charged(k) /\ UNCHANGED <<auths, calls, orders>>
    BY <1>1 DEF FullInv, MoneyInv
  <2>2. \A t : Allowed(k, t) => Allowed(k, t)'
    BY <2>1 DEF Allowed, Ceiling
  <2>3. CASE k # m
    BY <2>1, <2>2, <2>3, <1>5 DEF Charged, Ceiling
  <2>4. CASE k = m
    <3>1. \/ merchant'[k].state = "none" /\ bought'[k] = bought[k]
          \/ /\ merchant'[k].state = "none" /\ bought'[k] = <<merchant[k].total>>
             /\ merchant[k].state = "open"
          \/ /\ merchant'[k].state = "order" /\ bought'[k] = <<merchant'[k].total>>
             /\ merchant'[k].total = merchant[k].total /\ merchant[k].state = "open"
      BY <2>4, <1>6
    <3>2. orders[k] # << >> => merchant[k].state # "open"
      BY <2>1 DEF Charged
    <3>3. PICK t : t = merchant[k].total
      OBVIOUS
    <3>4. calls[k] # 0 /\ (merchant[k].state = "open" => t \in Amounts /\ Allowed(k, t))
      BY <2>4, <3>3, <1>4
    <3> QED BY <3>1, <3>2, <3>3, <3>4, <2>1, <2>2 DEF Charged, Ceiling
  <2> QED BY <2>3, <2>4
<1>9. ASSUME NEW q \in Processes PROVE Fit(proc[q])'
  <2>1. Fit(proc[q]) /\ Sound(proc[q]) /\ proc'[q] = proc[q]
    BY <1>1 DEF FullInv, MoneyInv, IInv, TypeInv
  <2>2. ASSUME proc[q].pc \in Busy, bought[proc[q].mon] = <<proc[q].total>>
        PROVE  bought'[proc[q].mon] = <<proc[q].total>>
    <3>1. proc[q].mon \in Monitors /\ bought[proc[q].mon] # << >>
      BY <2>1, <2>2, AttemptsDiffer DEF Sound, Busy
    <3> QED BY <3>1, <2>2, <1>7
  <2> QED BY <2>1, <2>2, <1>1 DEF Fit, Ceiling, Busy
<1> QED BY <1>8, <1>9 DEF MoneyInv

LEMMA StepMoney == FullInv /\ [Next]_vars => MoneyInv'
<1> SUFFICES ASSUME FullInv, [Next]_vars PROVE MoneyInv'
  OBVIOUS
<1>1. ASSUME NEW p \in Processes, Drop(p) PROVE MoneyInv'
  BY <1>1, DisengagedQuiet DEF Drop, storeVars, outside
<1>2. ASSUME NEW m \in Monitors, Clock(m) PROVE MoneyInv'
  BY <1>2, MoneyUntouched
     DEF Clock, DeadlinePasses, JobFallsDue, LeaseLapses, storeVars, outside
<1>3. CASE UNCHANGED vars
  BY <1>3, MoneyUntouched DEF vars, storeVars, outside
<1> QED BY <1>1, <1>2, <1>3, EngineMoney, WorkerMoney, HandlerMoney, OpenOrderMoney DEF Next

-----------------------------------------------------------------------------
(* The watch: its status, its product and the holds given back. *)

\* What a step may do to the status of one monitor.
LEMMA StatusMoves ==
    ASSUME FullInv, Moves, NEW m \in Monitors
    PROVE  \/ status'[m] = status[m]
           \/ status[m] = "absent" /\ status'[m] = "active"
           \/ /\ status[m] \in {"active", "evaluating"}
              /\ status'[m] \in {"executing", "payment_required", "cancelled", "expired"}
           \/ status[m] = "payment_required" /\ status'[m] = "cancelled"
           \/ /\ status[m] = "executing"
              /\ status'[m] \in {"purchased", "active", "payment_required"}
<1>1. status \in [Monitors -> MonitorStatuses \cup {"absent"}]
  BY DEF FullInv, IInv, TypeInv, TypeOK, StoreTypeOK
<1>2. CASE Rests
  BY <1>2 DEF Rests
<1>3. ASSUME NEW k \in Monitors, Opens(k) PROVE
         status'[m] = status[m] \/ (status[m] = "absent" /\ status'[m] = "active")
  BY <1>1, <1>3 DEF Opens, SetStatus
<1>4. ASSUME NEW k \in Monitors, Starts(k) \/ Pauses(k) \/ Cancels(k) PROVE
         \/ status'[m] = status[m]
         \/ /\ status[m] \in {"active", "evaluating"}
            /\ status'[m] \in {"executing", "payment_required", "cancelled"}
         \/ status[m] = "payment_required" /\ status'[m] = "cancelled"
  BY <1>1, <1>4 DEF Starts, Pauses, Cancels, SetStatus
<1>5. ASSUME NEW k \in Monitors, Succeeds(k) \/ GivesUp(k) PROVE
         \/ status'[m] = status[m]
         \/ /\ status[m] = "executing"
            /\ status'[m] \in {"purchased", "active", "payment_required"}
  BY <1>1, <1>5 DEF Succeeds, GivesUp, SetStatus
<1>6. ASSUME NEW k \in Monitors, Charges(k) PROVE status'[m] = status[m]
  BY <1>6 DEF Charges
<1>7. ASSUME NEW some \in SUBSET Monitors, Expires(some) PROVE
         \/ status'[m] = status[m]
         \/ status[m] \in {"active", "evaluating"} /\ status'[m] = "expired"
  BY <1>7 DEF Expires
<1> QED BY <1>2, <1>3, <1>4, <1>5, <1>6, <1>7 DEF Moves

\* Watches that are over stay so, and no watch is unmade or fails.
LEMMA StoppedStays ==
    ASSUME FullInv, Moves, NEW m \in Monitors
    PROVE  /\ Stopped(m) => status'[m] \in {"cancelled", "expired"}
           /\ status'[m] # "failed"
           /\ status'[m] = "absent" => status[m] = "absent"
<1>1. status[m] # "failed"
  BY DEF FullInv, WatchInv
<1> QED BY <1>1, StatusMoves DEF Stopped

\* A product comes with the row, or to an active monitor that has none.
LEMMA ProductStep ==
    ASSUME FullInv, [Next]_vars, NEW m \in Monitors
    PROVE  \/ product'[m] = product[m]
           \/ status[m] = "absent" /\ status'[m] = "active"
           \/ product[m] = None /\ status[m] = "active"
<1>1. StoreTypeOK
  BY DEF FullInv, IInv, TypeInv, TypeOK
<1>2. ASSUME NEW p \in Processes, EngineStep(p) \/ Drop(p) PROVE product'[m] = product[m]
  BY <1>2 DEF EngineStep, FindExistingOrder, CheckAuthorization, StartExecution, ClaimExecution,
              Revalidate, CallCheckout, HandleAnswer, FinishPurchase, CompleteExecution,
              AbandonExecution, FailExecution, ReleaseNext, Drop, storeVars
<1>3. ASSUME NEW w \in Workers, WorkerStep(w) PROVE
         product'[m] = product[m] \/ (product[m] = None /\ status[m] = "active")
  <2>1. CASE EstablishBaseline(w)
    BY <1>1, <2>1 DEF EstablishBaseline, SetProductIfMissing, StoreTypeOK
  <2> QED BY <1>3, <2>1 DEF WorkerStep, ExpireDue, ExpireDueMonitors, ClaimNothing, ClaimJob,
             ClaimDueJob, CheckFails, CheckOffer, Reschedule, CompleteJob, AfterFailure, storeVars
<1>4. ASSUME NEW h \in Handlers, Request(h) \/ HandlerStep(h) PROVE
         product'[m] = product[m] \/ (status[m] = "absent" /\ status'[m] = "active")
  <2>1. ASSUME NEW k \in Monitors, NEW r, Create(h, k, r) PROVE
           product'[m] = product[m] \/ (status[m] = "absent" /\ status'[m] = "active")
    BY <1>1, <2>1 DEF Create, CreateMonitor, StoreTypeOK
  <2> QED BY <1>4, <2>1 DEF Request, HandlerStep, Cancel, CancelMonitor, SubmitOffer,
             AuthorizePayment, CommitHold, RecordAuthorization, CreatePaymentAuthorization,
             storeVars
<1>5. ASSUME NEW k \in Monitors, Clock(k) \/ SettleOpenOrder(k) \/ MerchantRestarts(k)
      PROVE  product'[m] = product[m]
  BY <1>5 DEF Clock, DeadlinePasses, JobFallsDue, LeaseLapses, SettleOpenOrder, MerchantRestarts,
              storeVars
<1>6. CASE UNCHANGED vars
  BY <1>6 DEF vars, storeVars
<1> QED BY <1>2, <1>3, <1>4, <1>5, <1>6 DEF Next

LEMMA ReplacedHold ==
    ASSUME OutsideOK, NEW m \in Monitors, NEW h, h # "released", SetLatestHold(m, h),
           NEW k \in Monitors, HasReturned(holds'[k])
    PROVE  HasReturned(holds[k])
<1>1. holds \in [Monitors -> Seq(HoldStates)]
  BY DEF OutsideOK
<1>2. holds'[k] = holds[k] \/ holds'[k] = [holds[k] EXCEPT ![Len(holds[k])] = h]
  BY <1>1 DEF SetLatestHold, Replace
<1>3. ASSUME NEW q, NEW n, HasReturned([q EXCEPT ![n] = h]) PROVE HasReturned(q)
  BY <1>3 DEF HasReturned
<1> QED BY <1>2, <1>3

\* Only release_best_effort gives a hold back, and only for a watch of its list.
LEMMA HoldStep ==
    ASSUME FullInv, [Next]_vars, NEW m \in Monitors, HasReturned(holds'[m])
    PROVE  HasReturned(holds[m]) \/ Stopped(m)
<1>0. OutsideOK /\ holds \in [Monitors -> Seq(HoldStates)]
  BY TypeInvParts DEF FullInv, IInv, OutsideOK
<1>1. CASE UNCHANGED holds
  BY <1>1
<1>2. ASSUME NEW p \in Processes, CallCheckout(p) PROVE HasReturned(holds[m])
  <2> DEFINE k == proc[p].mon
  <2>1. k \in Monitors
    BY <1>2 DEF CallCheckout, At, FullInv, IInv, TypeInv, Sound, Busy
  <2>2. holds' = holds \/ SetLatestHold(k, "spent") \/ SetLatestHold(k, "refunded")
    BY <1>2 DEF CallCheckout, Checkout
  <2> QED BY <2>1, <2>2, <1>0, ReplacedHold
<1>3. ASSUME NEW p \in Processes, NEW k \in Monitors, ReleaseNext(p, k)
      PROVE  HasReturned(holds[m]) \/ Stopped(m)
  <2>1. Stopped(k)
    BY <1>3 DEF ReleaseNext, FullInv, WatchInv
  <2>2. k = m \/ holds'[m] = holds[m]
    BY <1>0, <1>3 DEF ReleaseNext, ReleaseHold, SetLatestHold
  <2> QED BY <2>1, <2>2
<1>4. ASSUME NEW h \in Handlers, CommitHold(h) PROVE HasReturned(holds[m])
  <2>1. \/ holds'[m] = holds[m]
        \/ \E a \in {"committed", "unconfirmed"} : holds'[m] = Append(holds[m], a)
    BY <1>0, <1>4 DEF CommitHold
  <2>2. ASSUME NEW a \in {"committed", "unconfirmed"}, holds'[m] = Append(holds[m], a)
        PROVE  HasReturned(holds[m])
    <3>1. PICK i \in DOMAIN Append(holds[m], a) : Append(holds[m], a)[i] = "released"
      BY <2>2 DEF HasReturned
    <3>2. i \in 1..Len(holds[m]) + 1 /\ i # Len(holds[m]) + 1
      BY <3>1, <1>0
    <3>3. i \in DOMAIN holds[m] /\ holds[m][i] = "released"
      BY <3>1, <3>2, <1>0
    <3> QED BY <3>3 DEF HasReturned
  <2> QED BY <2>1, <2>2
<1>5. ASSUME NEW k \in Monitors, SettleOpenOrder(k) PROVE HasReturned(holds[m])
  <2> DEFINE refunds == [i \in DOMAIN holds[k] |->
                           IF holds[k][i] = "spent" THEN "refunded" ELSE holds[k][i]]
  <2>1. holds'[m] = holds[m] \/ (k = m /\ holds'[m] = refunds)
    BY <1>0, <1>5 DEF SettleOpenOrder
  <2>2. HasReturned(refunds) => HasReturned(holds[k])
    BY DEF HasReturned
  <2> HIDE DEF refunds
  <2> QED BY <2>1, <2>2
<1>6. ASSUME NEW p \in Processes, Drop(p) PROVE UNCHANGED holds
  BY <1>6 DEF Drop, outside
<1>7. ASSUME NEW w \in Workers, WorkerStep(w) PROVE UNCHANGED holds
  BY <1>7 DEF WorkerStep, ExpireDue, ClaimNothing, ClaimJob, CheckFails, CheckOffer,
              EstablishBaseline, Reschedule, AfterFailure, outside
<1>8. ASSUME NEW h \in Handlers, Request(h) \/ RecordAuthorization(h) PROVE UNCHANGED holds
  BY <1>8 DEF Request, Create, Cancel, SubmitOffer, AuthorizePayment, RecordAuthorization, outside
<1>9. ASSUME NEW k \in Monitors, Clock(k) \/ MerchantRestarts(k) PROVE UNCHANGED holds
  BY <1>9 DEF Clock, DeadlinePasses, JobFallsDue, LeaseLapses, MerchantRestarts, outside
<1>10. CASE UNCHANGED vars
  BY <1>10 DEF vars, outside
<1>11. ASSUME NEW p \in Processes, EngineStep(p), ~CallCheckout(p),
              \A k \in Monitors : ~ReleaseNext(p, k)
       PROVE  UNCHANGED holds
  BY <1>11 DEF EngineStep, FindExistingOrder, CheckAuthorization, StartExecution, Revalidate,
               HandleAnswer, FinishPurchase, AbandonExecution, outside
<1> QED BY <1>1, <1>2, <1>3, <1>4, <1>5, <1>6, <1>7, <1>8, <1>9, <1>10, <1>11 DEF Next, HandlerStep

\* The monitors a process has on its list stay over; it is given no others.
Releasing(q) == proc'[q].pc = "release" => \A m \in proc'[q].todo : status'[m] \in {"cancelled", "expired"}

LEMMA ReleasingKept ==
    ASSUME FullInv, Moves, NEW p \in Processes, NEW t, Become(p, t),
           t.pc = "release" => \A m \in t.todo : status'[m] \in {"cancelled", "expired"}
    PROVE  \A q \in Processes : Releasing(q)
<1>1. /\ proc'[p] = t
      /\ \A q \in Processes \ {p} : proc'[q] = proc[q]
      /\ \A q \in Processes : proc[q].todo \in SUBSET Monitors
  BY DEF FullInv, IInv, TypeInv, TypeOK, Become, Sessions
<1>2. \A q \in Processes : proc[q].pc = "release" => \A m \in proc[q].todo : Stopped(m)
  BY DEF FullInv, WatchInv, At
<1>3. \A q \in Processes : proc[q].pc = "release" =>
         \A m \in proc[q].todo : status'[m] \in {"cancelled", "expired"}
  BY <1>1, <1>2, StoppedStays
<1> QED BY <1>1, <1>3 DEF Releasing

LEMMA ReleasingUntouched ==
    ASSUME FullInv, Moves, UNCHANGED proc
    PROVE  \A q \in Processes : Releasing(q)
<1>1. \A q \in Processes : proc[q].todo \in SUBSET Monitors
  BY DEF FullInv, IInv, TypeInv, TypeOK, Sessions
<1>2. \A q \in Processes : proc[q].pc = "release" => \A m \in proc[q].todo : Stopped(m)
  BY DEF FullInv, WatchInv, At
<1> QED BY <1>1, <1>2, StoppedStays DEF Releasing

\* The sessions written by everything but a sweep, a cancellation and a release.
LEMMA NotReleasing ==
    ASSUME FullInv, Moves, NEW p \in Processes,
           \/ ReturnError(p) \/ Finish(p) \/ Restart(p, "reschedule")
           \/ \E pc \in PCs \ {"release"} : Goto(p, pc)
           \/ \E t : Become(p, t) /\ t.pc # "release"
    PROVE  \A q \in Processes : Releasing(q)
<1>1. ASSUME NEW t, Become(p, t), t.pc # "release" PROVE \A q \in Processes : Releasing(q)
  BY <1>1, ReleasingKept
<1>2. Finish(p) => \E t : Become(p, t) /\ t.pc # "release"
  <2>1. Idle.pc # "release"
    BY DEF Idle
  <2> QED BY <2>1 DEF Finish
<1>3. \A pc \in {"failed", "reschedule"} : Restart(p, pc) => \E t : Become(p, t) /\ t.pc # "release"
  <2>1. \A pc \in {"failed", "reschedule"} :
           [Idle EXCEPT !.pc = pc, !.mon = proc[p].mon].pc # "release"
    BY DEF Idle
  <2> QED BY <2>1 DEF Restart
<1>4. \A pc \in PCs \ {"release"} : Goto(p, pc) => \E t : Become(p, t) /\ t.pc # "release"
  <2>1. \A pc \in PCs : [proc[p] EXCEPT !.pc = pc].pc = pc
    BY DEF FullInv, IInv, TypeInv, TypeOK, Sessions
  <2> QED BY <2>1 DEF Goto
<1> QED BY <1>1, <1>2, <1>3, <1>4 DEF ReturnError

LEMMA ListReleasing ==
    ASSUME FullInv, Moves, NEW p \in Processes, NEW todo,
           \A m \in todo : status'[m] \in {"cancelled", "expired"},
           NEW next \in {"claim", "idle"}, ThenRelease(p, todo, next)
    PROVE  \A q \in Processes : Releasing(q)
<1>1. CASE Become(p, [Idle EXCEPT !.pc = "release", !.todo = todo])
  <2>1. [Idle EXCEPT !.pc = "release", !.todo = todo].todo = todo
    BY DEF Idle
  <2> QED BY <1>1, <2>1, ReleasingKept
<1>2. CASE Become(p, [Idle EXCEPT !.pc = next])
  <2>1. [Idle EXCEPT !.pc = next].pc # "release"
    BY DEF Idle
  <2> QED BY <1>2, <2>1, ReleasingKept
<1> QED BY <1>1, <1>2 DEF ThenRelease

LEMMA EngineReleasing ==
    ASSUME FullInv, Moves, NEW p \in Processes, EngineStep(p)
    PROVE  \A q \in Processes : Releasing(q)
<1> DEFINE s == proc[p]
<1>0. s \in Sessions
  BY DEF FullInv, IInv, TypeInv, TypeOK
<1>1. \A pc \in {"authorize", "claim_execution", "fail", "complete"} : pc \in PCs \ {"release"}
  BY DEF PCs
<1>2. CASE \/ FindExistingOrder(p) \/ CheckAuthorization(p) \/ FinishPurchase(p) \/ AbandonExecution(p)
  BY <1>1, <1>2, NotReleasing DEF FindExistingOrder, FindOrder, CheckAuthorization, FinishPurchase,
     AbandonExecution
<1>3. CASE StartExecution(p)
  <2>1. \A n : [s EXCEPT !.pc = "revalidate", !.attempt = n].pc # "release"
    BY <1>0 DEF Sessions
  <2> QED BY <1>3, <2>1, NotReleasing DEF StartExecution
<1>4. CASE Revalidate(p)
  <2>1. \A o : [s EXCEPT !.pc = "checkout", !.offer = o].pc # "release"
    BY <1>0 DEF Sessions
  <2>2. Goto(p, "fail") \/ \E o : Become(p, [s EXCEPT !.pc = "checkout", !.offer = o])
    BY <1>4 DEF Revalidate
  <2> QED BY <1>1, <2>1, <2>2, NotReleasing
<1>5. CASE CallCheckout(p)
  <2>1. \A a, x : [s EXCEPT !.pc = "answer", !.answer = a, !.total = x].pc # "release"
    BY <1>0 DEF Sessions
  <2>2. \E a, x : Become(p, [s EXCEPT !.pc = "answer", !.answer = a, !.total = x])
    BY <1>5 DEF CallCheckout
  <2> QED BY <2>1, <2>2, NotReleasing
<1>6. CASE HandleAnswer(p)
  <2>1. \A x : [s EXCEPT !.pc = "complete", !.total = x].pc # "release"
    BY <1>0 DEF Sessions
  <2>2. \/ Goto(p, "complete") \/ Goto(p, "fail") \/ ReturnError(p)
        \/ \E x : Become(p, [s EXCEPT !.pc = "complete", !.total = x])
    BY <1>6 DEF HandleAnswer, FindOrder
  <2> QED BY <1>1, <2>1, <2>2, NotReleasing
<1>7. ASSUME NEW k \in Monitors, ReleaseNext(p, k) PROVE \A q \in Processes : Releasing(q)
  <2>1. /\ s.pc = "release"
        /\ \E next \in {"claim", "idle"} : ThenRelease(p, s.todo \ {k}, next)
    BY <1>7 DEF ReleaseNext, At
  <2>2. \A m \in s.todo \ {k} : m \in Monitors /\ Stopped(m)
    BY <2>1, <1>0 DEF FullInv, WatchInv, At, Sessions
  <2>3. \A m \in s.todo \ {k} : status'[m] \in {"cancelled", "expired"}
    BY <2>2, StoppedStays
  <2> QED BY <2>1, <2>3, ListReleasing
<1> QED BY <1>2, <1>3, <1>4, <1>5, <1>6, <1>7 DEF EngineStep

LEMMA WorkerReleasing ==
    ASSUME FullInv, Moves, NEW w \in Workers, WorkerStep(w)
    PROVE  \A q \in Processes : Releasing(q)
<1> DEFINE s == proc[w]
<1>0. w \in Processes /\ s \in Sessions /\ late \subseteq Monitors
  BY DEF FullInv, IInv, TypeInv, TypeOK, Processes
<1>1. CASE ExpireDue(w)
  <2>1. ExpireDueMonitors(late) /\ ThenRelease(w, Expirable(late), "claim")
    BY <1>1 DEF ExpireDue
  <2>2. \A m \in Expirable(late) : status'[m] = "expired"
    BY <2>1, <1>0 DEF ExpireDueMonitors, Expirable
  <2> QED BY <2>1, <2>2, <1>0, ListReleasing
<1>2. ASSUME NEW k \in Monitors, ClaimJob(w, k) PROVE \A q \in Processes : Releasing(q)
  <2>1. [Idle EXCEPT !.pc = "check", !.mon = k, !.product = product[k]].pc # "release"
    BY DEF Idle
  <2> QED BY <1>0, <1>2, <2>1, NotReleasing DEF ClaimJob
<1>3. ASSUME NEW o \in Offers, CheckOffer(w, o) PROVE \A q \in Processes : Releasing(q)
  <2>1. /\ [s EXCEPT !.pc = "baseline", !.offer = o].pc # "release"
        /\ [s EXCEPT !.pc = "find", !.offer = o].pc # "release"
    BY <1>0 DEF Sessions
  <2>2. \/ Become(w, [s EXCEPT !.pc = "baseline", !.offer = o])
        \/ Become(w, [s EXCEPT !.pc = "find", !.offer = o])
        \/ Restart(w, "reschedule")
    BY <1>3 DEF CheckOffer
  <2> QED BY <1>0, <2>1, <2>2, NotReleasing
<1>4. CASE \/ ClaimNothing(w) \/ CheckFails(w) \/ EstablishBaseline(w) \/ Reschedule(w)
           \/ AfterFailure(w)
  <2>1. "reschedule" \in PCs \ {"release"}
    BY DEF PCs
  <2> QED BY <1>0, <1>4, <2>1, NotReleasing
          DEF ClaimNothing, CheckFails, EstablishBaseline, Reschedule, AfterFailure
<1> QED BY <1>1, <1>2, <1>3, <1>4 DEF WorkerStep

LEMMA HandlerReleasing ==
    ASSUME FullInv, Moves, NEW h \in Handlers, Request(h) \/ HandlerStep(h)
    PROVE  \A q \in Processes : Releasing(q)
<1> DEFINE s == proc[h]
<1>0. h \in Processes /\ s \in Sessions /\ StoreTypeOK
  BY DEF FullInv, IInv, TypeInv, TypeOK, Processes
<1>1. ASSUME NEW k \in Monitors, NEW r, Create(h, k, r) PROVE \A q \in Processes : Releasing(q)
  BY <1>1, ReleasingUntouched DEF Create
<1>2. ASSUME NEW k \in Monitors, Cancel(h, k) PROVE \A q \in Processes : Releasing(q)
  <2>1. CancelMonitor(k) /\ ThenRelease(h, {k}, "idle")
    BY <1>2 DEF Cancel
  <2>2. \A m \in {k} : status'[m] = "cancelled"
    BY <2>1, <1>0 DEF CancelMonitor, StoreTypeOK
  <2> QED BY <2>1, <2>2, <1>0, ListReleasing
<1>3. ASSUME NEW k \in Monitors, NEW o \in Offers, SubmitOffer(h, k, o)
      PROVE  \A q \in Processes : Releasing(q)
  <2>1. [Idle EXCEPT !.pc = "find", !.mon = k, !.offer = o].pc # "release"
    BY DEF Idle
  <2> QED BY <1>0, <1>3, <2>1, NotReleasing DEF SubmitOffer
<1>4. ASSUME NEW k \in Monitors, NEW a \in Amounts, AuthorizePayment(h, k, a)
      PROVE  \A q \in Processes : Releasing(q)
  <2>1. [Idle EXCEPT !.pc = IF FundsWired THEN "commit" ELSE "record",
                     !.mon = k, !.total = a].pc # "release"
    BY DEF Idle
  <2> QED BY <1>0, <1>4, <2>1, NotReleasing DEF AuthorizePayment
<1>5. CASE HandlerStep(h)
  <2>1. Finish(h) \/ \E a : Become(h, [s EXCEPT !.pc = "record", !.answer = a])
    BY <1>5 DEF HandlerStep, CommitHold, RecordAuthorization
  <2>2. \A a : [s EXCEPT !.pc = "record", !.answer = a].pc # "release"
    BY <1>0 DEF Sessions
  <2> QED BY <2>1, <2>2, <1>0, NotReleasing
<1> QED BY <1>1, <1>2, <1>3, <1>4, <1>5 DEF Request

LEMMA StepReleasing ==
    ASSUME FullInv, [Next]_vars
    PROVE  \A q \in Processes : Releasing(q)
<1>1. Moves
  BY StepMoves
<1>2. ASSUME NEW p \in Processes, Drop(p) PROVE \A q \in Processes : Releasing(q)
  BY <1>1, <1>2, NotReleasing DEF Drop
<1>3. ASSUME NEW m \in Monitors, Clock(m) \/ SettleOpenOrder(m) \/ MerchantRestarts(m)
      PROVE  UNCHANGED proc
  BY <1>3 DEF Clock, DeadlinePasses, JobFallsDue, LeaseLapses, SettleOpenOrder, MerchantRestarts
<1>4. UNCHANGED vars => UNCHANGED proc
  BY DEF vars
<1> QED BY <1>1, <1>2, <1>3, <1>4, EngineReleasing, WorkerReleasing, HandlerReleasing,
           ReleasingUntouched DEF Next

LEMMA StepWatch == FullInv /\ [Next]_vars => WatchInv'
<1> SUFFICES ASSUME FullInv, [Next]_vars PROVE WatchInv'
  OBVIOUS
<1>1. Moves
  BY StepMoves
<1>2. ASSUME NEW m \in Monitors
      PROVE  /\ status'[m] # "failed"
             /\ status'[m] = "absent" => product'[m] = None
             /\ HasReturned(holds'[m]) => status'[m] \in {"cancelled", "expired"}
  <2>1. status'[m] # "failed"
    BY <1>1, StoppedStays
  <2>2. status'[m] = "absent" => product'[m] = None
    BY <1>1, StoppedStays, ProductStep DEF FullInv, WatchInv
  <2>3. HasReturned(holds'[m]) => Stopped(m)
    BY HoldStep DEF FullInv, WatchInv
  <2> QED BY <2>1, <2>2, <2>3, <1>1, StoppedStays
<1>3. \A q \in Processes : Releasing(q)
  BY StepReleasing
<1> QED BY <1>2, <1>3 DEF WatchInv, Releasing, Stopped, At, HasReturned

LEMMA InitFullInv == Init => FullInv
<1> SUFFICES ASSUME Init PROVE FullInv
  OBVIOUS
<1>1. IInv
  BY InitTypeInv, InitEngineInv DEF IInv
<1>2. WatchInv
  BY DEF Init, StoreInit, WatchInv, HasReturned, At, Idle
<1>3. MoneyInv
  BY DEF Init, StoreInit, MoneyInv, Charged, Fit, Idle, NoOrder, Busy
<1> QED BY <1>1, <1>2, <1>3 DEF FullInv

LEMMA StepFullInv == FullInv /\ [Next]_vars => FullInv'
  BY StepIInv, StepWatch, StepMoney DEF FullInv

LEMMA FullInvariance == Spec => []FullInv
  BY InitFullInv, StepFullInv, PTL DEF Spec

-----------------------------------------------------------------------------
\* Whatever the merchant does with the key, forgets or settles late: every
\* charge is within the ceiling and an amount the user authorized, and what the
\* store records is what was charged.
THEOREM ChargesAreCovered == Spec => []PurchaseIsCovered
<1>1. FullInv => PurchaseIsCovered
  <2> SUFFICES ASSUME FullInv, NEW m \in Monitors
               PROVE  /\ \A i \in DOMAIN bought[m] :
                            /\ bought[m][i] <= Ceiling(m)
                            /\ \E a \in auths[m] : bought[m][i] <= a
                      /\ orders[m] # << >> => orders[m] = bought[m]
    BY DEF PurchaseIsCovered, Ceiling
  <2>1. Charged(m) /\ Ceiling(m) \in Amounts /\ auths[m] \subseteq Amounts /\ Amounts \subseteq Nat
    BY MandateAssumption, AmountsAssumption
       DEF FullInv, MoneyInv, Ceiling, IInv, TypeInv, TypeOK, StoreTypeOK
  <2>2. ASSUME NEW t \in Amounts, bought[m] = <<t>>, Allowed(m, t), NEW i \in DOMAIN bought[m]
        PROVE  bought[m][i] <= Ceiling(m) /\ \E a \in auths[m] : bought[m][i] <= a
    <3>1. bought[m][i] = t
      BY <2>2
    <3>2. PICK a \in auths[m] : a >= Ceiling(m)
      BY <2>1, <2>2 DEF Charged, Allowed
    <3>3. t <= Ceiling(m) /\ t <= a
      BY <2>1, <2>2, <3>2 DEF Allowed
    <3> QED BY <3>1, <3>3
  <2> QED BY <2>1, <2>2 DEF Charged
<1> QED BY <1>1, FullInvariance, PTL

\* No sweep, cancellation or dropped process ever gives back the hold of a
\* watch that goes on.
THEOREM RunningWatchesKeepTheirHolds == Spec => []ReleasedOnlyWhenStopped
<1>1. FullInv => ReleasedOnlyWhenStopped
  BY DEF FullInv, WatchInv, HasReturned, Stopped, ReleasedOnlyWhenStopped
<1> QED BY <1>1, FullInvariance, PTL

\* Every step changes a status as the domain declares, or claims an execution
\* on an active monitor: for any number of workers and handlers.
THEOREM StatusIsDisciplined == Spec => StatusFollowsDomain
<1> DEFINE Declared == \A m \in Monitors :
             status'[m] # status[m] =>
                 \/ CanTransitionTo(status[m], status'[m])
                 \/ status[m] = "active" /\ status'[m] = "executing"
                 \/ status[m] = "absent" /\ status'[m] = "active"
<1>1. FullInv /\ [Next]_vars => [Declared]_status
  BY StepMoves, StatusMoves DEF CanTransitionTo
<1> QED BY <1>1, FullInvariance, PTL DEF Spec, StatusFollowsDomain

\* No step of any process replaces the product a monitor has.
THEOREM BaselineStays == Spec => BaselineIsFixed
<1> DEFINE Kept == \A m \in Monitors : product[m] # None => product'[m] = product[m]
<1>1. FullInv /\ [Next]_vars => [Kept]_product
  BY ProductStep DEF FullInv, WatchInv
<1> QED BY <1>1, FullInvariance, PTL DEF Spec, BaselineIsFixed

-----------------------------------------------------------------------------
(* The refinement: every move is a step of OneShotPurchase, or none. *)

PhaseOf == [m \in Monitors |-> Phase(status[m])]

LEMMA PhaseStep ==
    ASSUME FullInv, NEW m \in Monitors, NEW to, SetStatus(m, to)
    PROVE  /\ PhaseOf' = [PhaseOf EXCEPT ![m] = Phase(to)]
           /\ PhaseOf[m] = Phase(status[m])
           /\ bought' = bought
<1>1. \A k \in Monitors : status'[k] = IF k = m THEN to ELSE status[k]
  BY DEF FullInv, IInv, TypeInv, TypeOK, StoreTypeOK, SetStatus
<1>2. \A k \in Monitors : Phase(status'[k]) = IF k = m THEN Phase(to) ELSE Phase(status[k])
  BY <1>1
<1>3. PhaseOf' = [k \in Monitors |-> Phase(status'[k])]
  BY DEF PhaseOf, Phase
<1>4. PhaseOf' = [k \in Monitors |-> IF k = m THEN Phase(to) ELSE Phase(status[k])]
  BY <1>2, <1>3
<1> QED BY <1>4 DEF PhaseOf, SetStatus

LEMMA Phases ==
    /\ Phase("absent") = "none"
    /\ \A s \in {"active", "evaluating", "payment_required"} : Phase(s) = "open"
    /\ Phase("executing") = "buying"
    /\ Phase("purchased") = "bought"
    /\ \A s \in {"cancelled", "expired"} : Phase(s) = "closed"
  BY DEF Phase

\* Marking a monitor payment_required is no step of the promise.
LEMMA PhaseUnchanged ==
    ASSUME FullInv, NEW m \in Monitors, NEW to, SetStatus(m, to), Phase(to) = Phase(status[m])
    PROVE  PhaseOf' = PhaseOf
<1>1. PhaseOf' = [PhaseOf EXCEPT ![m] = PhaseOf[m]]
  BY PhaseStep
<1> QED BY <1>1 DEF PhaseOf

LEMMA MovesKeepThePromise ==
    ASSUME FullInv, Moves
    PROVE  Promise!Next \/ UNCHANGED Promise!vars
<1>0. UNCHANGED <<PhaseOf, Tried, bought>> => UNCHANGED Promise!vars
  BY DEF Promise!vars, PhaseOf, Tried
<1>1. CASE Rests
  <2>1. PhaseOf' = PhaseOf
    BY <1>1 DEF Rests, PhaseOf, Phase
  <2> QED BY <2>1, <1>0, <1>1 DEF Rests
<1>2. ASSUME NEW m \in Monitors, Opens(m) PROVE Promise!Next
  <2>1. /\ PhaseOf' = [PhaseOf EXCEPT ![m] = "open"] /\ PhaseOf[m] = "none"
        /\ Tried' = Tried /\ bought' = bought
    <3>1. SetStatus(m, "active") /\ Phase(status[m]) = "none" /\ Phase("active") = "open"
      BY <1>2, Phases DEF Opens
    <3>2. PhaseOf' = [PhaseOf EXCEPT ![m] = "open"] /\ PhaseOf[m] = "none" /\ bought' = bought
      BY <3>1, PhaseStep
    <3> QED BY <1>2, <3>2 DEF Opens
  <2>2. Promise!Open(m)
    BY <2>1 DEF Promise!Open, Promise!Move, PhaseOf, Tried
  <2> QED BY <2>2 DEF Promise!Next
<1>3. ASSUME NEW m \in Monitors, Starts(m) PROVE Promise!Next
  <2>1. /\ PhaseOf' = [PhaseOf EXCEPT ![m] = "buying"] /\ PhaseOf[m] = "open"
        /\ m \notin Tried /\ Tried' = Tried \cup {m} /\ bought' = bought
    <3>1. SetStatus(m, "executing") /\ Phase(status[m]) = "open" /\ Phase("executing") = "buying"
      BY <1>3, Phases DEF Starts
    <3>2. PhaseOf' = [PhaseOf EXCEPT ![m] = "buying"] /\ PhaseOf[m] = "open" /\ bought' = bought
      BY <3>1, PhaseStep
    <3> QED BY <1>3, <3>2 DEF Starts
  <2>2. Promise!Start(m)
    BY <2>1 DEF Promise!Start, Promise!Move, PhaseOf, Tried
  <2> QED BY <2>2 DEF Promise!Next
<1>4. ASSUME NEW m \in Monitors, Charges(m) PROVE Promise!Next
  <2>1. PhaseOf' = PhaseOf
    BY <1>4 DEF Charges, PhaseOf, Phase
  <2>2. [k \in Monitors |-> Mandate[k].maximum_total_minor][m] = Ceiling(m)
    BY DEF Ceiling
  <2>3. Promise!Charge(m)
    BY <1>4, <2>1, <2>2 DEF Charges, Promise!Charge, PhaseOf, Tried
  <2> QED BY <2>3 DEF Promise!Next
<1>5. ASSUME NEW m \in Monitors, Succeeds(m) PROVE Promise!Next
  <2>1. /\ PhaseOf' = [PhaseOf EXCEPT ![m] = "bought"] /\ PhaseOf[m] = "buying"
        /\ bought[m] # << >> /\ Tried' = Tried /\ bought' = bought
    <3>1. SetStatus(m, "purchased") /\ Phase(status[m]) = "buying" /\ Phase("purchased") = "bought"
      BY <1>5, Phases DEF Succeeds
    <3>2. PhaseOf' = [PhaseOf EXCEPT ![m] = "bought"] /\ PhaseOf[m] = "buying" /\ bought' = bought
      BY <3>1, PhaseStep
    <3> QED BY <1>5, <3>2 DEF Succeeds
  <2>2. Promise!Succeed(m)
    BY <2>1 DEF Promise!Succeed, Promise!Move, PhaseOf, Tried
  <2> QED BY <2>2 DEF Promise!Next
<1>6. ASSUME NEW m \in Monitors, GivesUp(m) PROVE Promise!Next
  <2>1. PICK to \in {"active", "payment_required"} : SetStatus(m, to)
    BY <1>6 DEF GivesUp
  <2>2. /\ PhaseOf' = [PhaseOf EXCEPT ![m] = "open"] /\ PhaseOf[m] = "buying"
        /\ Tried' = Tried /\ bought' = bought
    <3>1. Phase(to) = "open" /\ Phase(status[m]) = "buying"
      BY <1>6, Phases DEF GivesUp
    <3>2. PhaseOf' = [PhaseOf EXCEPT ![m] = "open"] /\ PhaseOf[m] = "buying" /\ bought' = bought
      BY <2>1, <3>1, PhaseStep
    <3> QED BY <1>6, <3>2 DEF GivesUp
  <2>3. Promise!GiveUp(m)
    BY <2>2 DEF Promise!GiveUp, Promise!Move, PhaseOf, Tried
  <2> QED BY <2>3 DEF Promise!Next
<1>7. ASSUME NEW m \in Monitors, Pauses(m) PROVE UNCHANGED Promise!vars
  <2>1. PhaseOf' = PhaseOf /\ Tried' = Tried /\ bought' = bought
    BY <1>7, PhaseUnchanged, Phases DEF Pauses, SetStatus
  <2> QED BY <2>1, <1>0
<1>8. ASSUME NEW m \in Monitors, Cancels(m) PROVE Promise!Next
  <2>1. /\ PhaseOf' = [PhaseOf EXCEPT ![m] = "closed"] /\ PhaseOf[m] = "open"
        /\ Tried' = Tried /\ bought' = bought
    <3>1. SetStatus(m, "cancelled") /\ Phase(status[m]) = "open" /\ Phase("cancelled") = "closed"
      BY <1>8, Phases DEF Cancels
    <3>2. PhaseOf' = [PhaseOf EXCEPT ![m] = "closed"] /\ PhaseOf[m] = "open" /\ bought' = bought
      BY <3>1, PhaseStep
    <3> QED BY <1>8, <3>2 DEF Cancels
  <2>2. PhaseOf' = [k \in Monitors |-> IF k \in {m} THEN "closed" ELSE PhaseOf[k]]
    BY <2>1 DEF PhaseOf
  <2>3. Promise!Close({m})
    BY <2>1, <2>2 DEF Promise!Close, PhaseOf, Tried
  <2> QED BY <2>3 DEF Promise!Next
<1>9. ASSUME NEW some \in SUBSET Monitors, Expires(some) PROVE Promise!Next
  <2>1. /\ Tried' = Tried /\ bought' = bought
        /\ \A k \in some : PhaseOf[k] = "open"
    BY <1>9, Phases DEF Expires, PhaseOf
  <2>2. \A k \in Monitors : status'[k] = IF k \in some THEN "expired" ELSE status[k]
    BY <1>9 DEF Expires
  <2>3. \A k \in Monitors : Phase(status'[k]) = IF k \in some THEN "closed" ELSE Phase(status[k])
    BY <2>2, Phases
  <2>4. PhaseOf' = [k \in Monitors |-> Phase(status'[k])]
    BY DEF PhaseOf, Phase
  <2>5. PhaseOf' = [k \in Monitors |-> IF k \in some THEN "closed" ELSE PhaseOf[k]]
    BY <2>3, <2>4 DEF PhaseOf
  <2>6. Promise!Close(some)
    BY <2>1, <2>5 DEF Promise!Close, PhaseOf, Tried
  <2> QED BY <2>6 DEF Promise!Next
<1> QED BY <1>1, <1>2, <1>3, <1>4, <1>5, <1>6, <1>7, <1>8, <1>9 DEF Moves

LEMMA InitKeepsThePromise == Init => Promise!Init
<1> SUFFICES ASSUME Init PROVE Promise!Init
  OBVIOUS
<1>1. \A m \in Monitors : status[m] = "absent" /\ attempts[m] = << >>
  BY DEF Init, StoreInit
<1>2. bought = [m \in Monitors |-> << >>]
  BY DEF Init
<1>3. PhaseOf = [m \in Monitors |-> "none"]
  BY <1>1, Phases DEF PhaseOf
<1>4. Tried = {}
  BY <1>1 DEF Tried
<1> QED BY <1>2, <1>3, <1>4 DEF Promise!Init, PhaseOf, Tried

\* The backend implements the one-shot purchase, with any number of monitors,
\* workers and handlers, dropped at any await, and a merchant and a money
\* service that fail or not.
THEOREM ImplementsOneShotPurchase == Spec => KeepsThePromise
<1>1. FullInv /\ [Next]_vars => [Promise!Next]_(Promise!vars)
  BY StepMoves, MovesKeepThePromise
<1> QED BY <1>1, InitKeepsThePromise, FullInvariance, PTL DEF Spec, KeepsThePromise, Promise!Spec

-----------------------------------------------------------------------------
(* The lease. *)

\* What may end a lease in force.
Fenced(m) ==
    lease[m].state = "held" /\ lease'[m] # lease[m] =>
        \/ lease'[m] = [lease[m] EXCEPT !.state = "lapsed"]
        \/ m \notin jobs'
        \/ /\ At(lease[m].owner, "reschedule")
           /\ proc[lease[m].owner].mon = m

LEMMA LeaseStep ==
    ASSUME FullInv, [Next]_vars, NEW m \in Monitors
    PROVE  Fenced(m)
<1>0. lease \in [Monitors -> Leases]
  BY DEF FullInv, IInv, TypeInv, TypeOK, StoreTypeOK
<1>1. UNCHANGED lease => Fenced(m)
  BY DEF Fenced
<1>2. ASSUME NEW gone, DeleteJobs(gone) PROVE Fenced(m)
  BY <1>2 DEF DeleteJobs, Fenced
<1>3. ASSUME NEW p \in Processes, EngineStep(p) \/ Drop(p) PROVE Fenced(m)
  <2>1. CASE FinishPurchase(p)
    BY <1>2, <2>1 DEF FinishPurchase, CompleteExecution
  <2> QED BY <1>1, <1>3, <2>1 DEF EngineStep, FindExistingOrder, CheckAuthorization, StartExecution,
             ClaimExecution, Revalidate, CallCheckout, HandleAnswer, AbandonExecution, FailExecution,
             ReleaseNext, Drop, storeVars
<1>4. ASSUME NEW w \in Workers, WorkerStep(w) PROVE Fenced(m)
  <2>1. CASE ExpireDue(w)
    BY <1>2, <2>1 DEF ExpireDue, ExpireDueMonitors
  <2>2. ASSUME NEW k \in Monitors, ClaimJob(w, k) PROVE Fenced(m)
    BY <2>2, <1>0 DEF ClaimJob, ClaimDueJob, CanClaimJob, Fenced
  <2>3. CASE Reschedule(w)
    <3>1. CASE CompleteJob(w, proc[w].mon)
      BY <3>1, <2>3, <1>0 DEF Reschedule, CompleteJob, CanCompleteJob, Fenced
    <3>2. CASE UNCHANGED storeVars
      BY <3>2, <1>1 DEF storeVars
    <3> QED BY <2>3, <3>1, <3>2 DEF Reschedule
  <2> QED BY <1>1, <1>4, <2>1, <2>2, <2>3 DEF WorkerStep, ClaimNothing, CheckFails, CheckOffer,
             EstablishBaseline, SetProductIfMissing, AfterFailure, storeVars
<1>5. ASSUME NEW h \in Handlers, Request(h) \/ HandlerStep(h) PROVE Fenced(m)
  <2>1. ASSUME NEW k \in Monitors, Cancel(h, k) PROVE Fenced(m)
    BY <1>2, <2>1 DEF Cancel, CancelMonitor
  <2> QED BY <1>1, <1>5, <2>1 DEF Request, HandlerStep, Create, CreateMonitor, SubmitOffer,
             AuthorizePayment, CommitHold, RecordAuthorization, CreatePaymentAuthorization, storeVars
<1>6. ASSUME NEW k \in Monitors, Clock(k) \/ SettleOpenOrder(k) \/ MerchantRestarts(k)
      PROVE  Fenced(m)
  <2>1. CASE LeaseLapses(k)
    BY <2>1, <1>0 DEF LeaseLapses, Fenced
  <2> QED BY <1>1, <1>6, <2>1 DEF Clock, DeadlinePasses, JobFallsDue, SettleOpenOrder,
             MerchantRestarts, storeVars
<1>7. CASE UNCHANGED vars
  BY <1>1, <1>7 DEF vars, storeVars
<1> QED BY <1>3, <1>4, <1>5, <1>6, <1>7 DEF Next

\* A lease in force is ended by its owner, by time or with the watch, whoever
\* else thinks it still holds one.
THEOREM LeasesAreFenced == Spec => LeaseIsFenced
<1>1. FullInv /\ [Next]_vars =>
         [\A m \in Monitors :
             lease[m].state = "held" /\ lease'[m] # lease[m] =>
                 \/ lease'[m] = [lease[m] EXCEPT !.state = "lapsed"]
                 \/ m \notin jobs'
                 \/ /\ At(lease[m].owner, "reschedule")
                    /\ proc[lease[m].owner].mon = m]_vars
  BY LeaseStep DEF Fenced
<1> QED BY <1>1, FullInvariance, PTL DEF Spec, LeaseIsFenced

=============================================================================
