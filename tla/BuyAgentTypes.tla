--------------------------- MODULE BuyAgentTypes ----------------------------
(***************************************************************************)
(* Type correctness of BuyAgent, for any number of monitors, workers,      *)
(* handlers and offers, any bounds, and a merchant and a money service     *)
(* that fail or not.  TypeOK is not inductive: a step at an await relies   *)
(* on the locals earlier steps left there, so TypeInv adds that every      *)
(* session is sound and that an order the merchant knows has a total.      *)
(***************************************************************************)
EXTENDS BuyAgent, SequenceTheorems, TLAPS

Busy == {"revalidate", "checkout", "answer", "complete", "fail"}

\* A session has the locals it needs at the await it stands at.
Sound(s) ==
    /\ s \in Sessions
    /\ s.pc \notin {"idle", "release", "claim"} => s.mon \in Monitors
    /\ s.pc \in {"baseline", "find", "authorize", "claim_execution"} \cup Busy
          => s.offer \in Offers
    /\ s.pc = "checkout" => s.offer.total_minor \in Amounts
    /\ s.pc \in {"complete", "commit", "record"} => s.total \in Amounts
    /\ s.pc = "answer" /\ s.answer = "confirmed" => s.total \in Amounts

MerchantOK == \A m \in Monitors : merchant[m].state # "none" => merchant[m].total \in Amounts

TypeInv ==
    /\ TypeOK
    /\ \A p \in Processes : Sound(proc[p])
    /\ MerchantOK

\* An offer that passes the gate has a total, within the mandate's ceiling.
LEMMA QualifiedTotal ==
    ASSUME NEW m \in Monitors, NEW s, NEW p, NEW o \in Offers, NEW l,
           Qualified([status |-> s, product |-> p, constraints |-> Mandate[m]], o, l)
    PROVE  /\ o.total_minor \in Amounts
           /\ o.total_minor <= Mandate[m].maximum_total_minor
<1> DEFINE snap == [status |-> s, product |-> p, constraints |-> Mandate[m]]
           x == Objections(snap, o, l)
<1>1. x["TotalUnknown"] = (o.total_minor = None)
  BY DEF Objections
<1>2. x["TotalAboveMaximum"] = /\ o.total_minor # None
                               /\ o.total_minor > Mandate[m].maximum_total_minor
  BY DEF Objections
<1>3. "TotalUnknown" \in DOMAIN x /\ "TotalAboveMaximum" \in DOMAIN x
  BY DEF Objections
<1>4. ~x["TotalUnknown"] /\ ~x["TotalAboveMaximum"]
  <2> HIDE DEF x
  <2>1. {r \in DOMAIN x : x[r]} = {}
    BY DEF Qualified, Evaluate, x
  <2> QED BY <2>1, <1>3
<1>5. o.total_minor # None /\ ~(o.total_minor > Mandate[m].maximum_total_minor)
  <2> HIDE DEF x
  <2> QED BY <1>1, <1>2, <1>4
<1>6. /\ o.total_minor \in Amounts \cup {None} /\ Mandate[m].maximum_total_minor \in Amounts
      /\ Amounts \subseteq Nat
  BY AmountsAssumption, MandateAssumption
<1> DEFINE total == o.total_minor
           ceiling == Mandate[m].maximum_total_minor
<1> HIDE DEF total, ceiling
<1>7. total # None /\ ~(total > ceiling) /\ total \in Amounts \cup {None} /\ ceiling \in Amounts
  BY <1>5, <1>6 DEF total, ceiling
<1>8. total \in Amounts /\ total <= ceiling
  BY <1>6, <1>7
<1> QED BY <1>8 DEF total, ceiling

LEMMA IdleIsSound == Sound(Idle)
  BY DEF Sound, Idle, Sessions, PCs, Answers, Busy

LEMMA InitTypeInv == Init => TypeInv
  BY IdleIsSound DEF Init, StoreInit, TypeInv, TypeOK, StoreTypeOK, MerchantOK, MonitorStatuses,
                     Leases, Unleased, NoOrder, Sound

\* What a step has to show of the sessions: that the one it writes is sound.
LEMMA BecomeSound ==
    ASSUME proc \in [Processes -> Sessions], \A q \in Processes : Sound(proc[q]),
           NEW p \in Processes, NEW s, Sound(s), Become(p, s)
    PROVE  /\ proc' \in [Processes -> Sessions]
           /\ \A q \in Processes : Sound(proc'[q])
           /\ proc'[p] = s
           /\ \A q \in Processes \ {p} : proc'[q] = proc[q]
  BY DEF Become, Sound

-----------------------------------------------------------------------------
(* The transactions of the Store keep its tables well formed. *)

LEMMA DeleteJobsType ==
    ASSUME StoreTypeOK, NEW gone, DeleteJobs(gone)
    PROVE  /\ jobs' \subseteq Monitors
           /\ due' \subseteq Monitors
           /\ lease' \in [Monitors -> Leases]
  BY DEF StoreTypeOK, DeleteJobs, Leases, Unleased

LEMMA ExpireType ==
    ASSUME StoreTypeOK, NEW some, ExpireDueMonitors(some)
    PROVE  StoreTypeOK'
  BY DeleteJobsType DEF StoreTypeOK, ExpireDueMonitors, MonitorStatuses

LEMMA ReplaceInSeq ==
    ASSUME NEW S, NEW q \in Seq(S), NEW k, NEW x \in S
    PROVE  /\ [q EXCEPT ![k] = x] \in Seq(S)
           /\ Len([q EXCEPT ![k] = x]) = Len(q)
<1>1. CASE k \in 1..Len(q)
  BY <1>1, ExceptSeq
<1>2. CASE k \notin 1..Len(q)
  <2>1. DOMAIN q = 1..Len(q) /\ q = [i \in 1..Len(q) |-> q[i]]
    OBVIOUS
  <2>2. [q EXCEPT ![k] = x] = q
    BY <1>2, <2>1
  <2> QED BY <2>2
<1> QED BY <1>1, <1>2

LEMMA StoreStepsType ==
    ASSUME StoreTypeOK, NEW m \in Monitors
    PROVE  /\ \A p \in Products \cup {None} : CreateMonitor(m, p) => StoreTypeOK'
           /\ \A p \in Products : SetProductIfMissing(m, p) => StoreTypeOK'
           /\ CancelMonitor(m) => StoreTypeOK'
           /\ \A a \in Amounts, b \in BOOLEAN :
                 CreatePaymentAuthorization(m, a, b) => StoreTypeOK'
           /\ \A w \in Workers : ClaimDueJob(w, m) => StoreTypeOK'
           /\ \A w \in Workers : CompleteJob(w, m) => StoreTypeOK'
           /\ ClaimExecution(m) => StoreTypeOK'
           /\ \A k \in Nat, a \in Amounts : CompleteExecution(m, k, a) => StoreTypeOK'
           /\ \A k \in Nat, b \in BOOLEAN : FailExecution(m, k, b) => StoreTypeOK'
<1>1. ASSUME NEW p \in Products \cup {None}, CreateMonitor(m, p) PROVE StoreTypeOK'
  BY <1>1 DEF StoreTypeOK, CreateMonitor, MonitorStatuses
<1>2. ASSUME NEW p \in Products, SetProductIfMissing(m, p) PROVE StoreTypeOK'
  BY <1>2 DEF StoreTypeOK, SetProductIfMissing
<1>3. ASSUME CancelMonitor(m) PROVE StoreTypeOK'
  BY <1>3, DeleteJobsType DEF StoreTypeOK, CancelMonitor, MonitorStatuses
<1>5. ASSUME NEW a \in Amounts, NEW b \in BOOLEAN, CreatePaymentAuthorization(m, a, b)
      PROVE  StoreTypeOK'
  BY <1>5 DEF StoreTypeOK, CreatePaymentAuthorization, MonitorStatuses
<1>6. ASSUME NEW w \in Workers, ClaimDueJob(w, m) PROVE StoreTypeOK'
  BY <1>6 DEF StoreTypeOK, ClaimDueJob, Leases
<1>7. ASSUME NEW w \in Workers, CompleteJob(w, m) PROVE StoreTypeOK'
  BY <1>7 DEF StoreTypeOK, CompleteJob, Leases, Unleased
<1>8. ASSUME ClaimExecution(m) PROVE StoreTypeOK'
  BY <1>8 DEF StoreTypeOK, ClaimExecution, MonitorStatuses
<1>9. ASSUME NEW k \in Nat, NEW a \in Amounts, CompleteExecution(m, k, a) PROVE StoreTypeOK'
  <2>1. attempts' \in [Monitors -> Seq({"started", "succeeded", "failed"})]
    BY <1>9, ReplaceInSeq DEF StoreTypeOK, CompleteExecution
  <2>2. orders' \in [Monitors -> Seq(Amounts)]
    <3>1. <<a>> \in Seq(Amounts)
      OBVIOUS
    <3> QED BY <1>9, <3>1 DEF StoreTypeOK, CompleteExecution
  <2>3. status' \in [Monitors -> MonitorStatuses \cup {"absent"}]
    BY <1>9 DEF StoreTypeOK, CompleteExecution, MonitorStatuses
  <2>4. product' = product /\ auths' = auths /\ DeleteJobs({m})
    BY <1>9 DEF CompleteExecution
  <2> QED BY <2>1, <2>2, <2>3, <2>4, DeleteJobsType DEF StoreTypeOK
<1>10. ASSUME NEW k \in Nat, NEW b \in BOOLEAN, FailExecution(m, k, b) PROVE StoreTypeOK'
  <2>1. attempts' \in [Monitors -> Seq({"started", "succeeded", "failed"})]
    BY <1>10, ReplaceInSeq DEF StoreTypeOK, FailExecution
  <2> QED BY <1>10, <2>1 DEF StoreTypeOK, FailExecution, MonitorStatuses
<1> QED BY <1>1, <1>2, <1>3, <1>5, <1>6, <1>7, <1>8, <1>9, <1>10

-----------------------------------------------------------------------------
(* Every step keeps the types: what it does to the store is one transaction, *)
(* and the session it writes is sound.                                       *)

\* The parts of TypeInv that are neither tables nor sessions.
OutsideOK ==
    /\ late \subseteq Monitors
    /\ merchant \in [Monitors -> [state : {"none", "open", "order"},
                                  total : Amounts \cup {None}]]
    /\ MerchantOK
    /\ bought \in [Monitors -> Seq(Amounts)]
    /\ calls \in [Monitors -> Nat]
    /\ holds \in [Monitors -> Seq(HoldStates)]
    /\ drops \in Nat

LEMMA TypeInvParts ==
    TypeInv <=> /\ StoreTypeOK
                /\ proc \in [Processes -> Sessions]
                /\ \A p \in Processes : Sound(proc[p])
                /\ OutsideOK
  BY DEF TypeInv, TypeOK, OutsideOK

\* The sessions the actions write.
LEMMA FreshIsSound ==
    ASSUME NEW m \in Monitors, NEW pc \in {"failed", "reschedule"}
    PROVE  Sound([Idle EXCEPT !.pc = pc, !.mon = m])
  BY DEF Sound, Idle, Sessions, PCs, Answers, Busy

LEMMA ReleaseIsSound ==
    ASSUME NEW todo \in SUBSET Monitors, NEW next \in {"idle", "claim"}
    PROVE  /\ Sound([Idle EXCEPT !.pc = "release", !.todo = todo])
           /\ Sound([Idle EXCEPT !.pc = next])
  BY DEF Sound, Idle, Sessions, PCs, Answers, Busy

LEMMA GotoIsSound ==
    ASSUME NEW s, Sound(s), NEW pc \in PCs
    PROVE  /\ pc \in {"reschedule", "failed"} /\ s.pc \notin {"idle", "release", "claim"}
              => Sound([s EXCEPT !.pc = pc])
           /\ pc \in {"authorize", "claim_execution", "fail"}
              /\ s.pc \in {"find", "authorize", "claim_execution"} \cup Busy
              => Sound([s EXCEPT !.pc = pc])
           /\ pc = "complete" /\ s.pc = "answer" /\ s.answer = "confirmed"
              => Sound([s EXCEPT !.pc = pc])
  BY DEF Sound, Sessions, PCs, Busy

LEMMA OfferIsSound ==
    ASSUME NEW s, Sound(s), s.pc \in {"check", "revalidate"}, NEW o \in Offers
    PROVE  /\ Sound([s EXCEPT !.pc = "baseline", !.offer = o])
           /\ Sound([s EXCEPT !.pc = "find", !.offer = o])
           /\ o.total_minor \in Amounts => Sound([s EXCEPT !.pc = "checkout", !.offer = o])
  BY DEF Sound, Sessions, PCs, Busy

LEMMA AnswerIsSound ==
    ASSUME NEW s, Sound(s), s.pc \in Busy, NEW a \in Answers, NEW t \in Amounts \cup {None}
    PROVE  /\ (a = "confirmed" => t \in Amounts)
              => Sound([s EXCEPT !.pc = "answer", !.answer = a, !.total = t])
           /\ t \in Amounts => Sound([s EXCEPT !.pc = "complete", !.total = t])
  BY DEF Sound, Sessions, PCs, Busy

LEMMA SetLatestHoldType ==
    ASSUME OutsideOK, NEW m \in Monitors, NEW h \in HoldStates, SetLatestHold(m, h)
    PROVE  holds' \in [Monitors -> Seq(HoldStates)]
<1>1. holds[m] \in Seq(HoldStates)
  BY DEF OutsideOK
<1>2. Replace(holds[m], h) \in Seq(HoldStates)
  BY <1>1, ReplaceInSeq DEF Replace
<1> QED BY <1>2 DEF SetLatestHold, OutsideOK

LEMMA ReleaseType ==
    ASSUME OutsideOK, NEW m \in Monitors, ReleaseHold(m)
    PROVE  holds' \in [Monitors -> Seq(HoldStates)]
<1>1. "released" \in HoldStates
  BY DEF HoldStates
<1> QED BY <1>1, SetLatestHoldType DEF ReleaseHold, OutsideOK

Known == [state : {"none", "open", "order"}, total : Amounts \cup {None}]

LEMMA MerchantType ==
    ASSUME merchant \in [Monitors -> Known], MerchantOK, NEW m \in Monitors, NEW r \in Known,
           r.state # "none" => r.total \in Amounts,
           merchant' = merchant \/ merchant' = [merchant EXCEPT ![m] = r]
    PROVE  merchant' \in [Monitors -> Known] /\ MerchantOK'
<1>1. merchant' \in [Monitors -> Known]
  OBVIOUS
<1>2. \A k \in Monitors : merchant'[k] = merchant[k] \/ merchant'[k] = r
  OBVIOUS
<1> QED BY <1>1, <1>2 DEF MerchantOK

LEMMA ChargeType ==
    ASSUME bought \in [Monitors -> Seq(Amounts)], NEW m \in Monitors, NEW t \in Amounts,
           bought' = bought \/ bought' = [bought EXCEPT ![m] = Append(@, t)]
    PROVE  bought' \in [Monitors -> Seq(Amounts)]
<1> DEFINE S == Seq(Amounts)
           more == Append(bought[m], t)
<1>1. more \in S
  BY AppendProperties
<1>2. bought \in [Monitors -> S] /\ (bought' = bought \/ bought' = [bought EXCEPT ![m] = more])
  OBVIOUS
<1> HIDE DEF S, more
<1>3. bought' \in [Monitors -> S]
  BY <1>1, <1>2
<1> QED BY <1>3 DEF S

LEMMA CheckoutType ==
    ASSUME OutsideOK, NEW m \in Monitors, NEW t \in Amounts, NEW a, Checkout(m, t, a),
           calls' = [calls EXCEPT ![m] = @ + 1], UNCHANGED <<late, drops>>
    PROVE  OutsideOK' /\ (a = "confirmed" => merchant'[m].state = "order")
<1>1. "spent" \in HoldStates /\ "refunded" \in HoldStates
  BY DEF HoldStates
<1>2. holds' \in [Monitors -> Seq(HoldStates)]
  BY <1>1, SetLatestHoldType DEF Checkout, OutsideOK
<1>3. bought' \in [Monitors -> Seq(Amounts)]
  <2>1. bought' = bought \/ bought' = [bought EXCEPT ![m] = Append(@, t)]
    BY DEF Checkout, PlaceOrder
  <2> QED BY <2>1, ChargeType DEF OutsideOK
<1>4. merchant' \in [Monitors -> Known] /\ MerchantOK'
  <2>1. \/ merchant' = merchant
        \/ \E st \in {"open", "order"} :
              merchant' = [merchant EXCEPT ![m] = [state |-> st, total |-> t]]
    BY DEF Checkout, PlaceOrder
  <2>2. \A st \in {"open", "order"} : [state |-> st, total |-> t] \in Known
    BY DEF Known
  <2>3. merchant \in [Monitors -> Known] /\ MerchantOK
    BY DEF OutsideOK, Known
  <2>4. CASE merchant' = merchant
    BY <2>3, <2>4 DEF MerchantOK
  <2>5. ASSUME NEW st \in {"open", "order"},
               merchant' = [merchant EXCEPT ![m] = [state |-> st, total |-> t]]
        PROVE  merchant' \in [Monitors -> Known] /\ MerchantOK'
    BY <2>2, <2>3, <2>5, MerchantType
  <2> QED BY <2>1, <2>4, <2>5
<1>5. calls' \in [Monitors -> Nat]
  BY DEF OutsideOK
<1>6. a = "confirmed" => merchant'[m].state = "order"
  BY DEF Checkout, OutsideOK, PlaceOrder
<1> QED BY <1>2, <1>3, <1>4, <1>5, <1>6 DEF OutsideOK, Known

LEMMA EngineTypeInv ==
    ASSUME TypeInv, NEW p \in Processes, EngineStep(p)
    PROVE  TypeInv'
<1> DEFINE m == proc[p].mon
           s == proc[p]
<1>0. /\ proc \in [Processes -> Sessions] /\ \A q \in Processes : Sound(proc[q])
      /\ Sound(s) /\ s \in Sessions /\ StoreTypeOK /\ OutsideOK
  BY TypeInvParts DEF Sound
<1>1. ASSUME NEW t, Sound(t), Become(p, t), StoreTypeOK', OutsideOK' PROVE TypeInv'
  BY <1>0, <1>1, BecomeSound DEF TypeInv, TypeOK, OutsideOK
<1>2. ASSUME At(p, "find") \/ At(p, "authorize") \/ At(p, "claim_execution") \/ At(p, "answer")
                \/ At(p, "fail"),
             ReturnError(p)
      PROVE  \E t : Sound(t) /\ Become(p, t)
  <2>1. m \in Monitors
    BY <1>0, <1>2 DEF Sound, At
  <2>2. CASE p \in Workers
    BY <1>2, <2>1, <2>2, FreshIsSound DEF ReturnError, Restart
  <2>3. CASE p \notin Workers
    BY <1>2, <2>3, IdleIsSound DEF ReturnError, Finish
  <2> QED BY <2>2, <2>3
<1>3. ASSUME StoreTypeOK, UNCHANGED storeVars PROVE StoreTypeOK'
  BY <1>3 DEF StoreTypeOK, storeVars
<1>4. ASSUME OutsideOK, UNCHANGED <<late, outside, drops>> PROVE OutsideOK'
  BY <1>4 DEF OutsideOK, MerchantOK, outside
<1>5. CASE FindExistingOrder(p)
  <2>1. Finish(p) \/ Goto(p, "authorize") \/ ReturnError(p)
    BY <1>5 DEF FindExistingOrder, FindOrder
  <2>2. At(p, "find") /\ UNCHANGED storeVars /\ UNCHANGED <<late, outside, drops>>
    BY <1>5 DEF FindExistingOrder
  <2>3. \E t : Sound(t) /\ Become(p, t)
    BY <2>1, <2>2, <1>0, <1>2, IdleIsSound, GotoIsSound DEF Finish, Goto, At, PCs
  <2> QED BY <2>2, <2>3, <1>0, <1>1, <1>3, <1>4
<1>6. CASE CheckAuthorization(p)
  <2>1. Goto(p, "claim_execution") \/ ReturnError(p)
    BY <1>6 DEF CheckAuthorization
  <2>2. At(p, "authorize") /\ UNCHANGED storeVars /\ UNCHANGED <<late, outside, drops>>
    BY <1>6 DEF CheckAuthorization
  <2>3. \E t : Sound(t) /\ Become(p, t)
    BY <2>1, <2>2, <1>0, <1>2, GotoIsSound DEF Goto, At, PCs
  <2> QED BY <2>2, <2>3, <1>0, <1>1, <1>3, <1>4
<1>7. CASE StartExecution(p)
  <2>1. At(p, "claim_execution") /\ UNCHANGED <<late, outside, drops>>
    BY <1>7 DEF StartExecution
  <2>2. m \in Monitors /\ s.offer \in Offers
    BY <2>1, <1>0 DEF At, Sound
  <2>3. CASE ClaimExecution(m) /\ Become(p, [s EXCEPT !.pc = "revalidate", !.attempt = Len(attempts'[m])])
    <3>1. StoreTypeOK'
      BY <2>2, <2>3, <1>0, StoreStepsType
    <3>2. Len(attempts'[m]) \in Nat
      BY <3>1, <2>2 DEF StoreTypeOK
    <3>3. Sound([s EXCEPT !.pc = "revalidate", !.attempt = Len(attempts'[m])])
      BY <3>2, <2>1, <1>0 DEF Sound, Sessions, PCs, Busy, At
    <3> QED BY <3>1, <3>3, <2>1, <2>3, <1>0, <1>1, <1>4
  <2>4. CASE ReturnError(p) /\ UNCHANGED storeVars
    BY <2>1, <2>4, <1>0, <1>1, <1>2, <1>3, <1>4
  <2> QED BY <1>7, <2>3, <2>4 DEF StartExecution
<1>8. CASE Revalidate(p)
  <2>1. At(p, "revalidate") /\ UNCHANGED storeVars /\ UNCHANGED <<late, outside, drops>>
    BY <1>8 DEF Revalidate
  <2>2. m \in Monitors /\ s.offer \in Offers
    BY <2>1, <1>0 DEF At, Sound, Busy
  <2>3. ASSUME NEW o \in Offers, Qualified(Snapshot(m, product[m]), o, m \in late),
               Become(p, [s EXCEPT !.pc = "checkout", !.offer = o])
        PROVE  \E t : Sound(t) /\ Become(p, t)
    <3>1. o.total_minor \in Amounts
      BY <2>2, <2>3, QualifiedTotal DEF Snapshot
    <3> QED BY <3>1, <2>1, <2>3, <1>0, OfferIsSound DEF At
  <2>4. ASSUME Goto(p, "fail") PROVE \E t : Sound(t) /\ Become(p, t)
    BY <2>1, <2>4, <1>0, GotoIsSound DEF Goto, At, PCs, Busy
  <2>5. \/ \E o \in Offers : /\ Qualified(Snapshot(m, product[m]), o, m \in late)
                             /\ Become(p, [s EXCEPT !.pc = "checkout", !.offer = o])
        \/ Goto(p, "fail")
    BY <1>8, <2>2 DEF Revalidate
  <2> QED BY <2>1, <2>3, <2>4, <2>5, <1>0, <1>1, <1>3, <1>4
<1>9. CASE CallCheckout(p)
  <2>1. At(p, "checkout") /\ UNCHANGED <<storeVars, late, drops>>
        /\ calls' = [calls EXCEPT ![m] = @ + 1]
    BY <1>9 DEF CallCheckout
  <2>2. m \in Monitors /\ s.offer \in Offers /\ s.offer.total_minor \in Amounts
    BY <2>1, <1>0 DEF At, Sound, Busy
  <2>3. PICK a \in Answers :
          /\ Checkout(m, s.offer.total_minor, a)
          /\ Become(p, [s EXCEPT !.pc = "answer", !.answer = a,
                           !.total = IF a = "confirmed" THEN merchant'[m].total ELSE None])
    BY <1>9 DEF CallCheckout
  <2>4. OutsideOK' /\ (a = "confirmed" => merchant'[m].state = "order")
    BY <2>1, <2>2, <2>3, <1>0, CheckoutType DEF OutsideOK
  <2>5. IF a = "confirmed" THEN merchant'[m].total \in Amounts ELSE TRUE
    BY <2>2, <2>4 DEF OutsideOK, MerchantOK
  <2>6. \E t : Sound(t) /\ Become(p, t)
    BY <2>1, <2>3, <2>5, <1>0, AnswerIsSound DEF At, Busy
  <2> QED BY <2>1, <2>4, <2>6, <1>0, <1>1, <1>3
<1>10. CASE HandleAnswer(p)
  <2>1. At(p, "answer") /\ UNCHANGED storeVars /\ UNCHANGED <<late, outside, drops>>
    BY <1>10 DEF HandleAnswer
  <2>2. m \in Monitors
    BY <2>1, <1>0 DEF At, Sound, Busy
  <2>3. \/ s.answer = "confirmed" /\ Goto(p, "complete")
        \/ Goto(p, "fail")
        \/ ReturnError(p)
        \/ /\ merchant[m].state = "order"
           /\ Become(p, [s EXCEPT !.pc = "complete", !.total = merchant[m].total])
    BY <1>10 DEF HandleAnswer, FindOrder
  <2>4. ASSUME s.answer = "confirmed", Goto(p, "complete") PROVE \E t : Sound(t) /\ Become(p, t)
    BY <2>1, <2>4, <1>0, GotoIsSound DEF Goto, At, PCs, Busy
  <2>5. ASSUME Goto(p, "fail") PROVE \E t : Sound(t) /\ Become(p, t)
    BY <2>1, <2>5, <1>0, GotoIsSound DEF Goto, At, PCs, Busy
  <2>6. ASSUME merchant[m].state = "order",
               Become(p, [s EXCEPT !.pc = "complete", !.total = merchant[m].total])
        PROVE  \E t : Sound(t) /\ Become(p, t)
    <3>1. merchant[m].total \in Amounts
      BY <2>2, <2>6, <1>0 DEF OutsideOK, MerchantOK
    <3>2. s.answer \in Answers /\ s.pc \in Busy
      BY <2>1, <1>0 DEF At, Busy, Sessions
    <3> QED BY <3>1, <3>2, <2>6, <1>0, AnswerIsSound
  <2> QED BY <2>1, <2>3, <2>4, <2>5, <2>6, <1>0, <1>1, <1>2, <1>3, <1>4
<1>11. CASE FinishPurchase(p)
  <2>1. /\ At(p, "complete") /\ CompleteExecution(m, s.attempt, s.total)
        /\ Finish(p) /\ UNCHANGED <<late, outside, drops>>
    BY <1>11 DEF FinishPurchase
  <2>2. m \in Monitors /\ s.attempt \in Nat /\ s.total \in Amounts
    BY <2>1, <1>0 DEF At, Sound, Sessions, Busy
  <2> QED BY <2>1, <2>2, <1>0, <1>1, <1>4, StoreStepsType, IdleIsSound DEF Finish
<1>12. CASE AbandonExecution(p)
  <2>1. /\ At(p, "fail") /\ FailExecution(m, s.attempt, s.answer = "payment_required")
        /\ ReturnError(p) /\ UNCHANGED <<late, outside, drops>>
    BY <1>12 DEF AbandonExecution
  <2>2. m \in Monitors /\ s.attempt \in Nat
    BY <2>1, <1>0 DEF At, Sound, Sessions, Busy
  <2>3. StoreTypeOK'
    BY <2>1, <2>2, <1>0, StoreStepsType
  <2> QED BY <2>1, <2>3, <1>0, <1>1, <1>2, <1>4
<1>13. ASSUME NEW k \in Monitors, ReleaseNext(p, k) PROVE TypeInv'
  <2>1. /\ ThenRelease(p, s.todo \ {k}, IF p \in Workers THEN "claim" ELSE "idle")
        /\ ReleaseHold(k) /\ UNCHANGED <<storeVars, late, merchant, bought, calls, drops>>
    BY <1>13 DEF ReleaseNext
  <2>2. s.todo \ {k} \in SUBSET Monitors
    BY <1>0 DEF Sessions
  <2>3. \E t : Sound(t) /\ Become(p, t)
    BY <2>1, <2>2, ReleaseIsSound DEF ThenRelease
  <2>4. OutsideOK'
    BY <2>1, <1>0, ReleaseType DEF OutsideOK, MerchantOK
  <2> QED BY <2>1, <2>3, <2>4, <1>0, <1>1, <1>3
<1> QED BY <1>5, <1>6, <1>7, <1>8, <1>9, <1>10, <1>11, <1>12, <1>13 DEF EngineStep

LEMMA ReleaseThenType ==
    ASSUME TypeInv, NEW p \in Processes, NEW todo \in SUBSET Monitors,
           NEW next \in {"idle", "claim"}, ThenRelease(p, todo, next)
    PROVE  \E t : Sound(t) /\ Become(p, t)
  BY ReleaseIsSound DEF ThenRelease

LEMMA WorkerTypeInv ==
    ASSUME TypeInv, NEW w \in Workers, WorkerStep(w)
    PROVE  TypeInv'
<1> DEFINE m == proc[w].mon
           s == proc[w]
<1>0. /\ proc \in [Processes -> Sessions] /\ \A q \in Processes : Sound(proc[q])
      /\ Sound(s) /\ s \in Sessions /\ StoreTypeOK /\ OutsideOK /\ w \in Processes
  BY TypeInvParts DEF Sound, Processes
<1>1. ASSUME NEW t, Sound(t), Become(w, t), StoreTypeOK', OutsideOK' PROVE TypeInv'
  BY <1>0, <1>1, BecomeSound DEF TypeInv, TypeOK, OutsideOK
<1>2. ASSUME StoreTypeOK, UNCHANGED storeVars PROVE StoreTypeOK'
  BY <1>2 DEF StoreTypeOK, storeVars
<1>3. ASSUME OutsideOK, UNCHANGED <<late, outside, drops>> PROVE OutsideOK'
  BY <1>3 DEF OutsideOK, MerchantOK, outside
<1>4. ASSUME m \in Monitors, Restart(w, "reschedule") PROVE \E t : Sound(t) /\ Become(w, t)
  BY <1>4, FreshIsSound DEF Restart
<1>5. ASSUME Finish(w) PROVE \E t : Sound(t) /\ Become(w, t)
  BY <1>5, IdleIsSound DEF Finish
<1>6. CASE ExpireDue(w)
  <2>1. /\ ExpireDueMonitors(late) /\ ThenRelease(w, Expirable(late), "claim")
        /\ UNCHANGED <<late, outside, drops>>
    BY <1>6 DEF ExpireDue
  <2>2. Expirable(late) \in SUBSET Monitors
    BY <1>0 DEF Expirable, OutsideOK
  <2>3. \E t : Sound(t) /\ Become(w, t)
    BY <2>1, <2>2, <1>0, ReleaseThenType
  <2>4. StoreTypeOK'
    BY <2>1, <1>0, ExpireType
  <2> QED BY <2>1, <2>3, <2>4, <1>0, <1>1, <1>3
<1>7. CASE ClaimNothing(w)
  BY <1>0, <1>1, <1>2, <1>3, <1>5, <1>7 DEF ClaimNothing
<1>8. ASSUME NEW k \in Monitors, ClaimJob(w, k) PROVE TypeInv'
  <2>1. /\ ClaimDueJob(w, k) /\ UNCHANGED <<late, outside, drops>>
        /\ Become(w, [Idle EXCEPT !.pc = "check", !.mon = k, !.product = product[k]])
    BY <1>8 DEF ClaimJob
  <2>2. product[k] \in Products \cup {None}
    BY <1>0 DEF StoreTypeOK
  <2>3. Sound([Idle EXCEPT !.pc = "check", !.mon = k, !.product = product[k]])
    BY <2>2 DEF Sound, Idle, Sessions, PCs, Answers, Busy
  <2> QED BY <2>1, <2>3, <1>0, <1>1, <1>3, StoreStepsType
<1>9. CASE CheckFails(w)
  <2>1. m \in Monitors
    BY <1>9, <1>0 DEF CheckFails, At, Sound
  <2> QED BY <2>1, <1>0, <1>1, <1>2, <1>3, <1>4, <1>9 DEF CheckFails
<1>10. ASSUME NEW o \in Offers, CheckOffer(w, o) PROVE TypeInv'
  <2>1. At(w, "check") /\ UNCHANGED storeVars /\ UNCHANGED <<late, outside, drops>>
    BY <1>10 DEF CheckOffer
  <2>2. m \in Monitors
    BY <2>1, <1>0 DEF At, Sound
  <2>3. \/ Become(w, [s EXCEPT !.pc = "baseline", !.offer = o])
        \/ Become(w, [s EXCEPT !.pc = "find", !.offer = o])
        \/ Restart(w, "reschedule")
    BY <1>10 DEF CheckOffer
  <2>4. Sound([s EXCEPT !.pc = "baseline", !.offer = o]) /\ Sound([s EXCEPT !.pc = "find", !.offer = o])
    BY <2>1, <1>0, OfferIsSound DEF At
  <2> QED BY <2>1, <2>2, <2>3, <2>4, <1>0, <1>1, <1>2, <1>3, <1>4
<1>11. CASE EstablishBaseline(w)
  <2>1. /\ At(w, "baseline") /\ SetProductIfMissing(m, s.offer.product)
        /\ Restart(w, "reschedule") /\ UNCHANGED <<late, outside, drops>>
    BY <1>11 DEF EstablishBaseline
  <2>2. m \in Monitors /\ s.offer.product \in Products
    BY <2>1, <1>0, OfferProductAssumption DEF At, Sound
  <2>3. StoreTypeOK'
    BY <2>1, <2>2, <1>0, StoreStepsType
  <2> QED BY <2>1, <2>2, <2>3, <1>0, <1>1, <1>3, <1>4
<1>12. CASE Reschedule(w)
  <2>1. /\ At(w, "reschedule") /\ (CompleteJob(w, m) \/ UNCHANGED storeVars)
        /\ Finish(w) /\ UNCHANGED <<late, outside, drops>>
    BY <1>12 DEF Reschedule
  <2>2. m \in Monitors
    BY <2>1, <1>0 DEF At, Sound
  <2>3. StoreTypeOK'
    BY <2>1, <2>2, <1>0, <1>2, StoreStepsType
  <2> QED BY <2>1, <2>3, <1>0, <1>1, <1>3, <1>5
<1>13. CASE AfterFailure(w)
  <2>1. /\ At(w, "failed") /\ (Goto(w, "reschedule") \/ Finish(w))
        /\ UNCHANGED storeVars /\ UNCHANGED <<late, outside, drops>>
    BY <1>13 DEF AfterFailure
  <2>2. Sound([s EXCEPT !.pc = "reschedule"])
    BY <2>1, <1>0, GotoIsSound DEF At, PCs
  <2> QED BY <2>1, <2>2, <1>0, <1>1, <1>2, <1>3, <1>5 DEF Goto
<1> QED BY <1>6, <1>7, <1>8, <1>9, <1>10, <1>11, <1>12, <1>13 DEF WorkerStep

LEMMA HandlerTypeInv ==
    ASSUME TypeInv, NEW h \in Handlers, Request(h) \/ HandlerStep(h)
    PROVE  TypeInv'
<1> DEFINE m == proc[h].mon
           s == proc[h]
<1>0. /\ proc \in [Processes -> Sessions] /\ \A q \in Processes : Sound(proc[q])
      /\ Sound(s) /\ s \in Sessions /\ StoreTypeOK /\ OutsideOK /\ h \in Processes
  BY TypeInvParts DEF Sound, Processes
<1>1. ASSUME NEW t, Sound(t), Become(h, t), StoreTypeOK', OutsideOK' PROVE TypeInv'
  BY <1>0, <1>1, BecomeSound DEF TypeInv, TypeOK, OutsideOK
<1>2. ASSUME StoreTypeOK, UNCHANGED storeVars PROVE StoreTypeOK'
  BY <1>2 DEF StoreTypeOK, storeVars
<1>3. ASSUME OutsideOK, UNCHANGED <<late, outside, drops>> PROVE OutsideOK'
  BY <1>3 DEF OutsideOK, MerchantOK, outside
<1>4. ASSUME Finish(h) PROVE \E t : Sound(t) /\ Become(h, t)
  BY <1>4, IdleIsSound DEF Finish
<1>5. ASSUME NEW k \in Monitors, NEW r \in Products \cup {None}, Create(h, k, r) PROVE TypeInv'
  <2>1. CreateMonitor(k, r) /\ UNCHANGED <<late, outside, drops>> /\ UNCHANGED proc
    BY <1>5 DEF Create
  <2>2. StoreTypeOK'
    BY <2>1, <1>0, StoreStepsType
  <2> QED BY <2>1, <2>2, <1>0, <1>3 DEF TypeInv, TypeOK, OutsideOK
<1>6. ASSUME NEW k \in Monitors, Cancel(h, k) PROVE TypeInv'
  <2>1. CancelMonitor(k) /\ ThenRelease(h, {k}, "idle") /\ UNCHANGED <<late, outside, drops>>
    BY <1>6 DEF Cancel
  <2>2. \E t : Sound(t) /\ Become(h, t)
    BY <2>1, <1>0, ReleaseThenType
  <2> QED BY <2>1, <2>2, <1>0, <1>1, <1>3, StoreStepsType
<1>7. ASSUME NEW k \in Monitors, NEW o \in Offers, SubmitOffer(h, k, o) PROVE TypeInv'
  <2>1. Sound([Idle EXCEPT !.pc = "find", !.mon = k, !.offer = o])
    BY DEF Sound, Idle, Sessions, PCs, Answers, Busy
  <2> QED BY <2>1, <1>0, <1>1, <1>2, <1>3, <1>7 DEF SubmitOffer
<1>8. ASSUME NEW k \in Monitors, NEW a \in Amounts, AuthorizePayment(h, k, a) PROVE TypeInv'
  <2>1. Sound([Idle EXCEPT !.pc = IF FundsWired THEN "commit" ELSE "record",
                          !.mon = k, !.total = a])
    BY DEF Sound, Idle, Sessions, PCs, Answers, Busy
  <2> QED BY <2>1, <1>0, <1>1, <1>2, <1>3, <1>8 DEF AuthorizePayment
<1>9. CASE CommitHold(h)
  <2>1. At(h, "commit") /\ UNCHANGED <<storeVars, late, merchant, bought, calls, drops>>
    BY <1>9 DEF CommitHold
  <2>2. m \in Monitors /\ s.total \in Amounts
    BY <2>1, <1>0 DEF At, Sound
  <2>3. \/ /\ holds' = holds /\ Finish(h)
        \/ \E a \in {"committed", "unconfirmed"} :
              /\ holds' = [holds EXCEPT ![m] = Append(@, a)]
              /\ Become(h, [s EXCEPT !.pc = "record", !.answer = a]) \/ Finish(h)
    BY <1>9 DEF CommitHold
  <2>4. holds' \in [Monitors -> Seq(HoldStates)]
    <3>1. holds \in [Monitors -> Seq(HoldStates)]
      BY <1>0 DEF OutsideOK
    <3>2. \A a \in {"committed", "unconfirmed"} : Append(holds[m], a) \in Seq(HoldStates)
      BY <2>2, <3>1, AppendProperties DEF HoldStates
    <3> DEFINE S == Seq(HoldStates)
               more(a) == Append(holds[m], a)
    <3>3. /\ holds \in [Monitors -> S] /\ \A a \in {"committed", "unconfirmed"} : more(a) \in S
          /\ \/ holds' = holds
             \/ \E a \in {"committed", "unconfirmed"} : holds' = [holds EXCEPT ![m] = more(a)]
      BY <2>3, <3>1, <3>2
    <3> HIDE DEF S, more
    <3>4. holds' \in [Monitors -> S]
      BY <3>3
    <3> QED BY <3>4 DEF S
  <2>5. OutsideOK'
    BY <2>1, <2>4, <1>0 DEF OutsideOK, MerchantOK
  <2>6. \A a \in {"committed", "unconfirmed"} : Sound([s EXCEPT !.pc = "record", !.answer = a])
    BY <2>1, <2>2, <1>0 DEF At, Sound, Sessions, PCs, Answers, Busy
  <2> QED BY <2>1, <2>3, <2>5, <2>6, <1>0, <1>1, <1>2, <1>4
<1>10. CASE RecordAuthorization(h)
  <2>1. /\ At(h, "record") /\ Finish(h) /\ UNCHANGED <<late, outside, drops>>
        /\ CreatePaymentAuthorization(m, s.total, s.answer = "unconfirmed")
    BY <1>10 DEF RecordAuthorization
  <2>2. m \in Monitors /\ s.total \in Amounts /\ (s.answer = "unconfirmed") \in BOOLEAN
    BY <2>1, <1>0 DEF At, Sound
  <2>3. StoreTypeOK'
    BY <2>1, <2>2, <1>0, StoreStepsType
  <2> QED BY <2>1, <2>3, <1>0, <1>1, <1>3, <1>4
<1> QED BY <1>5, <1>6, <1>7, <1>8, <1>9, <1>10 DEF Request, HandlerStep

LEMMA OtherTypeInv ==
    ASSUME TypeInv
    PROVE  /\ \A p \in Processes : Drop(p) => TypeInv'
           /\ \A m \in Monitors : Clock(m) \/ SettleOpenOrder(m) \/ MerchantRestarts(m) => TypeInv'
           /\ UNCHANGED vars => TypeInv'
<1>0. /\ proc \in [Processes -> Sessions] /\ \A q \in Processes : Sound(proc[q])
      /\ StoreTypeOK /\ OutsideOK
  BY TypeInvParts
<1>1. ASSUME UNCHANGED proc, StoreTypeOK', OutsideOK' PROVE TypeInv'
  BY <1>0, <1>1 DEF TypeInv, TypeOK, OutsideOK
<1>2. ASSUME UNCHANGED storeVars PROVE StoreTypeOK'
  BY <1>0, <1>2 DEF StoreTypeOK, storeVars
<1>3. ASSUME UNCHANGED <<late, outside, drops>> PROVE OutsideOK'
  BY <1>0, <1>3 DEF OutsideOK, MerchantOK, outside
<1>4. ASSUME NEW p \in Processes, Drop(p) PROVE TypeInv'
  <2>1. StoreTypeOK'
    BY <1>2, <1>4 DEF Drop
  <2>2. OutsideOK'
    BY <1>0, <1>4 DEF Drop, OutsideOK, MerchantOK, outside
  <2> QED BY <2>1, <2>2, <1>0, <1>4, BecomeSound, IdleIsSound DEF Drop, Finish, TypeInv, TypeOK, OutsideOK
<1>5. ASSUME NEW m \in Monitors, DeadlinePasses(m) PROVE TypeInv'
  <2>1. OutsideOK'
    BY <1>0, <1>5 DEF DeadlinePasses, OutsideOK, MerchantOK, outside
  <2> QED BY <2>1, <1>1, <1>2, <1>5 DEF DeadlinePasses
<1>6. ASSUME NEW m \in Monitors, JobFallsDue(m) PROVE TypeInv'
  <2>1. StoreTypeOK'
    BY <1>0, <1>6 DEF JobFallsDue, StoreTypeOK
  <2> QED BY <2>1, <1>1, <1>3, <1>6 DEF JobFallsDue
<1>7. ASSUME NEW m \in Monitors, LeaseLapses(m) PROVE TypeInv'
  <2>1. StoreTypeOK'
    BY <1>0, <1>7 DEF LeaseLapses, StoreTypeOK, Leases
  <2> QED BY <2>1, <1>1, <1>3, <1>7 DEF LeaseLapses
<1>8. ASSUME NEW m \in Monitors, SettleOpenOrder(m) \/ MerchantRestarts(m) PROVE TypeInv'
  <2>1. UNCHANGED <<storeVars, proc, late, calls, drops>>
    BY <1>8 DEF SettleOpenOrder, MerchantRestarts
  <2>2. bought' = bought
        \/ /\ merchant[m].state = "open"
           /\ bought' = [bought EXCEPT ![m] = Append(@, merchant[m].total)]
    BY <1>8 DEF SettleOpenOrder, MerchantRestarts, PlaceOrder
  <2>3. bought' \in [Monitors -> Seq(Amounts)]
    BY <2>2, <1>0, ChargeType DEF OutsideOK, MerchantOK
  <2>4. holds' \in [Monitors -> Seq(HoldStates)]
    <3> DEFINE refunds == [i \in DOMAIN holds[m] |->
                             IF holds[m][i] = "spent" THEN "refunded" ELSE holds[m][i]]
    <3>1. holds \in [Monitors -> Seq(HoldStates)] /\ "refunded" \in HoldStates
      BY <1>0 DEF OutsideOK, HoldStates
    <3>2. holds' = holds \/ holds' = [holds EXCEPT ![m] = refunds]
      BY <1>8 DEF SettleOpenOrder, MerchantRestarts
    <3>3. refunds \in Seq(HoldStates)
      <4>1. DOMAIN holds[m] = 1..Len(holds[m]) /\ Len(holds[m]) \in Nat
        BY <3>1
      <4>2. \A i \in 1..Len(holds[m]) : holds[m][i] \in HoldStates
        BY <3>1
      <4>3. refunds \in [1..Len(holds[m]) -> HoldStates]
        BY <3>1, <4>1, <4>2
      <4> QED BY <4>1, <4>3, SeqDef
    <3> HIDE DEF refunds
    <3> QED BY <3>1, <3>2, <3>3
  <2>5. merchant' \in [Monitors -> Known] /\ MerchantOK'
    <3> DEFINE settled == [state |-> "order", total |-> merchant[m].total]
    <3>1. \/ merchant' = [merchant EXCEPT ![m] = settled] /\ merchant[m].state = "open"
          \/ merchant' = [merchant EXCEPT ![m] = NoOrder]
      BY <1>8 DEF SettleOpenOrder, MerchantRestarts, PlaceOrder
    <3>2. merchant \in [Monitors -> Known] /\ MerchantOK
      BY <1>0 DEF OutsideOK, Known
    <3>3. NoOrder \in Known /\ NoOrder.state = "none"
      BY DEF NoOrder, Known
    <3>4. merchant[m].state = "open" => settled \in Known /\ settled.total \in Amounts
      BY <3>2 DEF MerchantOK, Known
    <3>5. CASE merchant' = [merchant EXCEPT ![m] = settled] /\ merchant[m].state = "open"
      <4> HIDE DEF settled
      <4> QED BY <3>2, <3>4, <3>5, MerchantType
    <3>6. CASE merchant' = [merchant EXCEPT ![m] = NoOrder]
      BY <3>2, <3>3, <3>6, MerchantType
    <3> QED BY <3>1, <3>5, <3>6
  <2>6. OutsideOK'
    BY <2>1, <2>3, <2>4, <2>5, <1>0 DEF OutsideOK, Known
  <2> QED BY <2>1, <2>6, <1>1, <1>2
<1>9. ASSUME UNCHANGED vars PROVE TypeInv'
  BY <1>1, <1>2, <1>3, <1>9 DEF vars
<1> QED BY <1>4, <1>5, <1>6, <1>7, <1>8, <1>9 DEF Clock

LEMMA StepTypeInv == TypeInv /\ [Next]_vars => TypeInv'
  BY EngineTypeInv, WorkerTypeInv, HandlerTypeInv, OtherTypeInv DEF Next

\* The types of module BuyAgent hold in every reachable state, in particular
\* no step reads a local that was not set.
THEOREM TypeCorrect == Spec => []TypeOK
<1>1. TypeInv => TypeOK
  BY DEF TypeInv
<1> QED BY <1>1, InitTypeInv, StepTypeInv, PTL DEF Spec

=============================================================================
