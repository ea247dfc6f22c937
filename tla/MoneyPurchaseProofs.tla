------------------------ MODULE MoneyPurchaseProofs ------------------------
(***************************************************************************)
(* The last promises of Money, PurchaseIsPaid and ZincAfterCapture, for    *)
(* any number of instructions, attempts, offers and requests.              *)
(*                                                                         *)
(* The first needs what the service assumes of its own map: as long as a   *)
(* hold is created once, what the map says of it agrees with Stripe,       *)
(* through every await of the requests that read it before.  The orders at *)
(* Zinc need less: the hold goes with the money given back, so that no     *)
(* request comes to it again (FreshInv), and who gives money back has no   *)
(* order that lives (AliveInv).                                            *)
(***************************************************************************)
EXTENDS MoneyProofs

-----------------------------------------------------------------------------
(* The invariant *)

\* Holds, each created once: what the map says of a hold agrees with Stripe.
Once == faults \subseteq {"unpaid"}

Creating(r, h) == req[r].hold = h /\ req[r].pc = "create" /\ req[r].answer \in {"ok", "action"}
Paying(r) == Paid(r) /\ req[r].pc # "return"

\* Came to buy, and Stripe has not said yes.
Asking(r) == req[r].pc = "market" \/ (req[r].pc = "capture" /\ ~Paid(r))

CreatedOnce ==
    \A r \in Requests :
        /\ \A q \in Requests : \A h \in Holds : Creating(r, h) /\ Creating(q, h) => r = q
        /\ \A h \in Holds : Creating(r, h) => holds[h] = "absent" /\ intents[h].state # "none"
        /\ req[r].pc \notin {"idle", "create"} => ~req[r].stale /\ holds[req[r].hold] # "absent"

HoldFollowsStripe ==
    \A h \in Holds :
        /\ intents[h].state = "none" => holds[h] = "absent"
        /\ holds[h] = "absent" => intents[h].state # "captured"
        /\ holds[h] = "released" => intents[h].state \in {"captured", "canceled"}
        /\ holds[h] = "spent" => intents[h].state = "captured"
        /\ intents[h].refunded => intents[h].state = "captured"

RequestFollowsHold ==
    \A r \in Requests :
        /\ Asking(r) =>
               /\ intents[req[r].hold].state # "captured"
               /\ holds[req[r].hold] = "committed" \/ intents[req[r].hold].state = "canceled"
        /\ Paying(r) => holds[req[r].hold] = "committed"
        /\ req[r].pc = "return" => holds[req[r].hold] = "released"
        /\ Answered(r, "cancel", "ok") => intents[req[r].hold].state = "canceled"
        /\ Paying(r) /\ req[r].pc # "refund" => ~intents[req[r].hold].refunded

\* Captured on a hold that is still open in the map.
OpenIsPaying ==
    \A h \in Holds :
        intents[h].state = "captured" /\ holds[h] \notin {"spent", "released"} =>
            \/ \E r \in Requests : req[r].hold = h /\ Paying(r)
            \/ h[1] \in pending /\ \A r \in Requests : ~WorkingOn(r, h[1])

\* Captured, and not refunded nor about to be: one hold of an instruction.
Settled(h) == Kept(h) /\ ~GivingBack(h)

OneSettled == \A h, g \in Holds : Settled(h) /\ Settled(g) /\ h[1] = g[1] => h = g

BoughtIsPaid ==
    \A i \in Instructions :
        purchases[i] # None =>
            \E h \in Holds : /\ h[1] = i /\ holds[h] = "spent"
                             /\ Kept(h) /\ intents[h].received = purchases[i]

PurchaseInv ==
    Once => /\ CreatedOnce /\ HoldFollowsStripe /\ RequestFollowsHold /\ OpenIsPaying
            /\ OneSettled /\ BoughtIsPaid

PurchaseFacts ==
    CreatedOnce /\ HoldFollowsStripe /\ RequestFollowsHold /\ OpenIsPaying /\ OneSettled /\ BoughtIsPaid

-----------------------------------------------------------------------------
(* What a step does *)

Acts(r) == Step(r) \/ Outside(r) \/ Begins(r)

\* Of a request that neither begins nor ends.
Moves(r) ==
    /\ req'[r].hold = req[r].hold /\ req'[r].stale = req[r].stale
    /\ \/ Outside(r) /\ req'[r].pc = req[r].pc
       \/ Answered(r, "market", "ok") /\ req'[r].pc = "capture" /\ req'[r].answer = "none"
       \/ Answered(r, "capture", "ok") /\ req'[r].pc = "place" /\ req'[r].answer = "none"
       \/ Answered(r, "place", "ok") /\ req'[r].pc = "wait" /\ req'[r].answer = "none"
       \/ Answered(r, "place", "refused") /\ req'[r].pc = "refund" /\ req'[r].answer = "none"
       \/ req[r].pc = "wait" /\ req'[r].pc = "return" /\ req'[r].answer = "none" /\ Closes(r)
       \/ req[r].pc = "wait" /\ req'[r].pc = "wait"

\* A poll that failed: the money goes back.
Withdraws(r) ==
    /\ PollFails(r)
    /\ req'[r].hold = req[r].hold /\ req'[r].stale = req[r].stale
    /\ req'[r].pc = "refund" /\ req'[r].answer = "none"

LEMMA Going ==
    ASSUME TypeInv, NEW r \in Requests, Acts(r)
    PROVE  Begins(r) \/ Ended(r) \/ Moves(r) \/ Withdraws(r)
<1> USE DEF Moves, Keeps, Answered
<1>1. CASE Outside(r)
  <2>1. PICK a : Answer(r, a)
    BY <1>1 DEF Outside, StripeCreate, StripeCapture, StripeRefund, StripeCancel, MarketCheckout, ZincPlace
  <2> QED BY <1>1, <2>1, Effects
<1>2. CASE OnMarket(r)
  BY <1>2, Effects DEF OnMarket
<1>3. CASE OnPlaced(r)
  BY <1>3, Effects DEF OnPlaced
<1>4. CASE WaitTimesOut(r)
  BY <1>4, TimesOutEffects DEF WaitTimesOut
<1>5. CASE OnCapture(r) \/ OnSettled(r)
  BY <1>5, ClosesStep, Effects DEF Closes
<1>6. CASE OnCreated(r)
  BY <1>6, CreatedEffects
<1>7. CASE PollFails(r)
  BY <1>7, Effects DEF PollFails, Withdraws
<1> QED BY <1>1, <1>2, <1>3, <1>4, <1>5, <1>6, <1>7, Effects
        DEF Acts, Step, OnCreateRefused, WaitEnds, OnRefunded, OnReturned, OnCanceled

LEMMA Moving ==
    ASSUME TypeInv, NEW r \in Requests, Acts(r), "lost" \notin faults'
    PROVE  Begins(r) \/ Ended(r) \/ Moves(r)
BY Going DEF Withdraws, PollFails, Blame

\* Others go on as they are, but for the entry of their hold.
LEMMA OthersLike ==
    ASSUME TypeInv, NEW r \in Requests, Acts(r), NEW q \in Requests \ {r}
    PROVE  /\ Like(q)
           /\ req'[q].stale = req[q].stale \/ (OnCreated(r) /\ req[q].hold = req[r].hold)
<1>1. Like(q)
  BY StepEffects DEF Acts
<1>2. CASE OnCreated(r)
  BY <1>1, <1>2, CreatedEffects, Unfolded DEF Locals
<1>3. CASE ~OnCreated(r)
  <2>1. Same(q)
    BY <1>3, Effects, BeginEffects, TimesOutEffects
       DEF Acts, Step, Outside, Begins, OnCreateRefused, OnMarket, OnCapture, OnPlaced, OnSettled, WaitEnds,
           PollFails, OnRefunded, OnReturned, OnCanceled, StripeCreate, StripeCapture, StripeRefund,
           StripeCancel, MarketCheckout, ZincPlace
  <2> QED BY <1>1, <2>1 DEF Same
<1> QED BY <1>2, <1>3

\* What becomes of an intent, but for a capture.
LEMMA IntentMoves ==
    ASSUME TypeInv, [Next]_vars, NEW h \in Holds
    PROVE  /\ intents[h].state # "none" => intents'[h].state # "none"
           /\ intents[h].state = "canceled" => intents'[h].state = "canceled"
           /\ intents'[h].refunded =>
                 intents[h].refunded \/ \E r \in Requests : StripeRefund(r) /\ req[r].hold = h
<1> DEFINE Kind(s) == /\ intents[h].state # "none" => s # "none"
                      /\ intents[h].state = "canceled" => s = "canceled"
<1> HIDE DEF Kind
<1>0. \A g \in Holds : intents[g] \in IntentRecords
  BY Unfolded
<1>1. CASE UNCHANGED intents
  BY <1>1
<1>2. ASSUME NEW g \in Holds, NEW s, g = h => s # "none" /\ intents[h].state # "canceled",
             intents' = [intents EXCEPT ![g].state = s]
      PROVE  Kind(intents'[h].state) /\ intents'[h].refunded = intents[h].refunded
  <2>1. intents'[h] = IF h = g THEN [intents[h] EXCEPT !.state = s] ELSE intents[h]
    BY <1>2, Unfolded
  <2> QED BY <1>0, <1>2, <2>1 DEF IntentRecords, Kind
<1>3. ASSUME NEW r \in Requests, StripeCreate(r)
      PROVE  Kind(intents'[h].state) /\ intents'[h].refunded = intents[h].refunded
  <2>1. CASE UNCHANGED intents
    BY <2>1 DEF Kind
  <2>2. ASSUME NEW s \in {"requires_capture", "requires_action"}, intents[req[r].hold].state = "none",
               intents' = [intents EXCEPT ![req[r].hold].state = s, ![req[r].hold].created = s]
        PROVE  Kind(intents'[h].state) /\ intents'[h].refunded = intents[h].refunded
    <3>1. intents'[h] = IF h = req[r].hold THEN [intents[h] EXCEPT !.state = s, !.created = s]
                        ELSE intents[h]
      BY <2>2, Unfolded
    <3>2. h = req[r].hold => intents'[h].state = s /\ intents'[h].refunded = intents[h].refunded
      BY <1>0, <3>1 DEF IntentRecords
    <3> QED BY <2>2, <3>1, <3>2 DEF Kind
  <2> QED BY <1>3, <2>1, <2>2 DEF StripeCreate
<1>4. ASSUME NEW r \in Requests, StripeCapture(r)
      PROVE  Kind(intents'[h].state) /\ intents'[h].refunded = intents[h].refunded
  <2>1. CASE UNCHANGED intents
    BY <2>1 DEF Kind
  <2>2. ASSUME NEW t, intents[req[r].hold].state = "requires_capture",
               intents' = [intents EXCEPT ![req[r].hold].state = "captured", ![req[r].hold].received = t]
        PROVE  Kind(intents'[h].state) /\ intents'[h].refunded = intents[h].refunded
    <3>1. intents'[h] = IF h = req[r].hold THEN [intents[h] EXCEPT !.state = "captured", !.received = t]
                        ELSE intents[h]
      BY <2>2, Unfolded
    <3>2. h = req[r].hold =>
             intents'[h].state = "captured" /\ intents'[h].refunded = intents[h].refunded
      BY <1>0, <3>1 DEF IntentRecords
    <3> QED BY <2>2, <3>1, <3>2 DEF Kind
  <2> QED BY <1>4, <2>1, <2>2 DEF StripeCapture, stripe
<1>5. ASSUME NEW r \in Requests, StripeRefund(r)
      PROVE  /\ intents'[h].state = intents[h].state
             /\ h # req[r].hold => intents'[h].refunded = intents[h].refunded
  <2>1. \/ UNCHANGED intents
        \/ intents'[h] = IF h = req[r].hold THEN [intents[h] EXCEPT !.refunded = TRUE] ELSE intents[h]
    BY <1>5, Unfolded DEF StripeRefund
  <2> QED BY <1>0, <2>1 DEF IntentRecords
<1>6. ASSUME NEW r \in Requests, StripeCancel(r)
      PROVE  Kind(intents'[h].state) /\ intents'[h].refunded = intents[h].refunded
  <2>1. req[r].hold \in Holds
    BY <1>6, Carries DEF StripeCancel, Called
  <2>2. CASE UNCHANGED intents
    BY <2>2 DEF Kind
  <2>3. CASE /\ intents[req[r].hold].state \in {"requires_capture", "requires_action"}
             /\ intents' = [intents EXCEPT ![req[r].hold].state = "canceled"]
    BY <1>2, <2>1, <2>3
  <2> QED BY <1>6, <2>2, <2>3 DEF StripeCancel
<1>7. ASSUME NEW g \in Holds, CustomerConfirms(g)
      PROVE  Kind(intents'[h].state) /\ intents'[h].refunded = intents[h].refunded
  BY <1>2, <1>7 DEF CustomerConfirms
<1>8. CASE \E r \in Requests : Step(r) \/ Begins(r)
  <2>1. UNCHANGED intents
    BY <1>8 DEF Step, OnCreated, OnCreateRefused, OnMarket, OnCapture, OnPlaced, OnSettled, WaitTimesOut,
       WaitEnds, PollFails, OnRefunded, OnReturned, OnCanceled, Begins, Commit, Release, Checkout, stripe
  <2> QED BY <1>1, <2>1
<1>9. CASE Restart \/ UNCHANGED vars \/ \E g \in Holds, t \in Totals : ZincSettles(g, t)
  BY <1>1, <1>9 DEF Restart, vars, ZincSettles, stripe
<1>10. CASE \E r \in Requests : MarketCheckout(r) \/ ZincPlace(r)
  BY <1>1, <1>10 DEF MarketCheckout, ZincPlace, stripe
<1> QED BY <1>3, <1>4, <1>5, <1>6, <1>7, <1>8, <1>9, <1>10 DEF Next, Begins, Outside, Kind

\* What becomes of the entry of a hold.
Created(r, h) ==
    /\ OnCreated(r) /\ Creating(r, h)
    /\ holds[h] = "absent" /\ holds'[h] \in {"committed", "needs_attention"}
Marks(r, h) ==
    /\ req[r].hold = h /\ req[r].pc \notin {"idle", "create"}
    /\ holds'[h] \in {"spent", "released"}

LEMMA EntryMoves ==
    ASSUME TypeInv, CreatedOnce, NEW r \in Requests, Acts(r), NEW h \in Holds
    PROVE  holds'[h] = holds[h] \/ Created(r, h) \/ Marks(r, h)
<1>1. CASE Outside(r) \/ Begins(r)
  BY <1>1 DEF Outside, StripeCreate, StripeCapture, StripeRefund, StripeCancel, MarketCheckout, ZincPlace,
     Begins, Commit, Release, Checkout, maps
<1>2. CASE OnCreated(r)
  <2>1. req[r].hold \in Holds /\ Creating(r, req[r].hold)
    BY <1>2, Carries DEF OnCreated, Answered, Creating
  <2>2. holds[req[r].hold] = "absent"
    BY <2>1 DEF CreatedOnce
  <2> QED BY <1>2, <2>1, <2>2, Unfolded DEF OnCreated, Created
<1>3. ASSUME NEW s \in {"spent", "released"}, SetHold(r, s), req[r].pc \notin {"idle", "create"}
      PROVE  holds'[h] = holds[h] \/ Marks(r, h)
  <2>1. req[r].hold \in Holds
    BY <1>3, Carries
  <2> QED BY <1>3, <2>1, Unfolded DEF SetHold, Marks
<1>4. CASE OnCapture(r) \/ OnSettled(r)
  <2>1. Closes(r) => req[r].pc \notin {"idle", "create"} /\ \E s \in {"spent", "released"} : SetHold(r, s)
    BY DEF Closes
  <2> QED BY <1>3, <1>4, <2>1, ClosesStep DEF maps
<1>5. CASE OnRefunded(r) \/ OnCanceled(r)
  BY <1>3, <1>5 DEF OnRefunded, OnCanceled, Answered
<1> QED BY <1>1, <1>2, <1>4, <1>5
        DEF Acts, Step, OnCreateRefused, OnMarket, OnPlaced, WaitTimesOut, WaitEnds, PollFails, OnReturned, maps

\* And while what it says agrees with Stripe.
GivesUp(r, h) ==
    /\ Closes(r) \/ OnRefunded(r)
    /\ req[r].hold = h /\ Paying(r) /\ Working(r) /\ ~Paying(r)'
    /\ holds[h] = "committed" /\ holds'[h] \in {"spent", "released"}
Cancels(r, h) ==
    /\ Answered(r, "cancel", "ok") /\ req[r].hold = h /\ intents[h].state = "canceled"
    /\ holds'[h] = "released"

LEMMA HoldMoves ==
    ASSUME TypeInv, CreatedOnce, RequestFollowsHold, NEW r \in Requests, Acts(r), NEW h \in Holds
    PROVE  holds'[h] = holds[h] \/ Created(r, h) \/ GivesUp(r, h) \/ Cancels(r, h)
<1>1. CASE Outside(r) \/ Begins(r)
  BY <1>1 DEF Outside, StripeCreate, StripeCapture, StripeRefund, StripeCancel, MarketCheckout, ZincPlace,
     Begins, Commit, Release, Checkout, maps
<1>2. CASE OnCreated(r)
  <2>1. req[r].hold \in Holds /\ Creating(r, req[r].hold)
    BY <1>2, Carries DEF OnCreated, Answered, Creating
  <2>2. holds[req[r].hold] = "absent"
    BY <2>1 DEF CreatedOnce
  <2> QED BY <1>2, <2>1, <2>2, Unfolded DEF OnCreated, Created
<1>3. ASSUME NEW s, SetHold(r, s), req[r].pc \notin {"idle", "create"}
      PROVE  holds'[h] = IF h = req[r].hold THEN s ELSE holds[h]
  <2>1. ~req[r].stale /\ req[r].hold \in Holds
    BY <1>3, Carries DEF CreatedOnce
  <2> QED BY <1>3, <2>1, Unfolded DEF SetHold
<1>4. CASE Closes(r)
  <2>1. Paying(r) /\ Working(r) /\ req[r].pc \notin {"idle", "create"}
    BY <1>4, Carries DEF Closes, Working, Paying, Orders
  <2>2. ~Paying(r)'
    BY <1>4 DEF Closes, Ended, Paying, Paid, Answered
  <2>3. holds[req[r].hold] = "committed"
    BY <2>1 DEF RequestFollowsHold
  <2> QED BY <1>3, <1>4, <2>1, <2>2, <2>3 DEF Closes, GivesUp
<1>5. CASE OnRefunded(r)
  <2>1. /\ Paying(r) /\ Working(r) /\ req[r].pc \notin {"idle", "create"}
        /\ SetHold(r, "released")
    BY <1>5, Carries DEF OnRefunded, Answered, Working, Paying, Paid, Orders
  <2>2. ~Paying(r)'
    BY <1>5, Effects DEF OnRefunded, Ended, Paying, Paid, Answered
  <2>3. holds[req[r].hold] = "committed"
    BY <2>1 DEF RequestFollowsHold
  <2> QED BY <1>3, <1>5, <2>1, <2>2, <2>3 DEF GivesUp
<1>6. CASE OnCanceled(r)
  <2>1. CASE Answered(r, "cancel", "ok") /\ SetHold(r, "released")
    <3>1. intents[req[r].hold].state = "canceled" /\ req[r].pc \notin {"idle", "create"}
      BY <2>1 DEF RequestFollowsHold, Answered
    <3> QED BY <1>3, <2>1, <3>1 DEF Cancels
  <2> QED BY <1>6, <2>1 DEF OnCanceled
<1>7. CASE OnCapture(r) \/ OnSettled(r)
  BY <1>4, <1>7, ClosesStep DEF maps
<1> QED BY <1>1, <1>2, <1>5, <1>6, <1>7
        DEF Acts, Step, OnCreateRefused, OnMarket, OnPlaced, WaitTimesOut, WaitEnds, PollFails, OnReturned, maps

-----------------------------------------------------------------------------
(* The steps of a request preserve it *)

\* Where a request that has a hold got it.
LEMMA Beyond ==
    ASSUME TypeInv, NEW r \in Requests, Acts(r), req'[r].pc \notin {"idle", "create"}
    PROVE  \/ /\ req[r].pc \notin {"idle", "create"}
              /\ req'[r].hold = req[r].hold /\ req'[r].stale = req[r].stale
           \/ /\ ~req'[r].stale /\ UNCHANGED <<maps, intents>>
              /\ holds[req'[r].hold] \in {"committed", "needs_attention"}
              /\ req'[r].hold \in Holds
<1>1. CASE Begins(r)
  <2>1. ASSUME NEW i \in Instructions, NEW o \in Offers, Checkout(r, i, o)
        PROVE  /\ ~req'[r].stale /\ req'[r].hold \in Holds
               /\ holds[req'[r].hold] \in {"committed", "needs_attention"}
    <3>1. <<i, latest[i]>> \in Holds /\ holds[<<i, latest[i]>>] = "committed"
      BY <2>1, Unfolded DEF Checkout, CanBuy, Holds
    <3> QED BY <2>1, <3>1, BeginEffects
  <2>2. ASSUME NEW i \in Instructions, Release(r, i)
        PROVE  /\ ~req'[r].stale /\ req'[r].hold \in Holds
               /\ holds[req'[r].hold] \in {"committed", "needs_attention"}
    <3>1. <<i, latest[i]>> \in Holds /\ holds[<<i, latest[i]>>] \in {"committed", "needs_attention"}
      BY <2>2, Unfolded DEF Release, Holds
    <3> QED BY <2>2, <3>1, BeginEffects
  <2>3. UNCHANGED <<maps, intents>>
    BY <1>1 DEF Begins, Commit, Release, Checkout, stripe
  <2> QED BY <1>1, <2>1, <2>2, <2>3, BeginEffects DEF Begins
<1>2. CASE Moves(r)
  BY <1>2 DEF Moves, Answered
<1>3. CASE Withdraws(r)
  BY <1>3 DEF Withdraws, PollFails
<1> QED BY <1>1, <1>2, <1>3, Going DEF Ended

\* A creation answered for the first time.
LEMMA NewCreation ==
    ASSUME TypeInv, NEW r \in Requests, Acts(r), "rearm" \notin faults', NEW h \in Holds, Creating(r, h)'
    PROVE  /\ ~Creating(r, h) /\ intents[h].state = "none" /\ intents'[h].state # "none"
           /\ req[r].hold = h /\ UNCHANGED maps
<1>1. Moves(r)
  BY Going, BeginEffects DEF Creating, Ended, Begins, FirstCall, Withdraws
<1>2. Outside(r) /\ req[r].pc = "create" /\ req[r].hold = h
  BY <1>1 DEF Moves, Creating
<1>3. StripeCreate(r)
  BY <1>2 DEF Outside, StripeCapture, StripeRefund, StripeCancel, MarketCheckout, ZincPlace, Called
<1>4. ~Answer(r, "refused") /\ ~Blame("rearm")
  BY Effects DEF Creating, Blame
<1>5. PICK s \in {"requires_capture", "requires_action"} :
         /\ intents[h].state = "none"
         /\ intents' = [intents EXCEPT ![h].state = s, ![h].created = s]
  BY <1>2, <1>3, <1>4 DEF StripeCreate
<1>6. intents'[h] = [intents[h] EXCEPT !.state = s, !.created = s]
  BY <1>5, Unfolded
<1>7. intents'[h].state = s
  BY <1>6, Unfolded DEF IntentRecords
<1> QED BY <1>2, <1>3, <1>5, <1>7 DEF StripeCreate, Called, Creating

\* A request that comes to give money back after the order.
LEMMA ReturningMoves ==
    ASSUME TypeInv, NEW r \in Requests, Acts(r), req'[r].pc = "return"
    PROVE  /\ req'[r].hold = req[r].hold
           /\ req[r].pc = "return" \/ (req[r].pc = "wait" /\ Closes(r))
<1>1. Moves(r)
  BY Going, BeginEffects DEF Ended, Begins, FirstCall, Withdraws
<1> QED BY <1>1 DEF Moves

\* Until Stripe has created it, the map does not know a hold.
UncreatedIsAbsent == \A h \in Holds : intents[h].state = "none" => holds[h] = "absent"

LEMMA CreatedOnceStep ==
    ASSUME TypeInv, [Next]_vars, NEW r \in Requests, Acts(r), "rearm" \notin faults',
           CreatedOnce, UncreatedIsAbsent
    PROVE  CreatedOnce' /\ UncreatedIsAbsent'
<1>1. \A q \in Requests \ {r}, h \in Holds : Creating(q, h)' <=> Creating(q, h)
  BY OthersLike DEF Like, Creating
<1>2. \A h \in Holds : Creating(r, h)' =>
         /\ \A q \in Requests : ~Creating(q, h)
         /\ holds'[h] = "absent" /\ intents'[h].state # "none"
  <2> SUFFICES ASSUME NEW h \in Holds, Creating(r, h)'
               PROVE  /\ \A q \in Requests : ~Creating(q, h)
                      /\ holds'[h] = "absent" /\ intents'[h].state # "none"
    OBVIOUS
  <2>1. intents[h].state = "none" /\ intents'[h].state # "none" /\ UNCHANGED holds
    BY NewCreation DEF maps
  <2> QED BY <2>1 DEF CreatedOnce, UncreatedIsAbsent
<1>3. ASSUME NEW q \in Requests \ {r}, NEW h \in Holds, Creating(q, h)
      PROVE  holds'[h] = "absent" /\ intents'[h].state # "none"
  <2>1. holds[h] = "absent" /\ intents[h].state # "none"
    BY <1>3 DEF CreatedOnce
  <2>2. ~Created(r, h) /\ ~Marks(r, h)
    BY <1>3, <2>1 DEF Created, Marks, CreatedOnce
  <2> QED BY <2>1, <2>2, EntryMoves, IntentMoves
<1>4. \A h \in Holds : holds[h] # "absent" => holds'[h] # "absent"
  BY EntryMoves DEF Created, Marks
<1>5. ASSUME NEW q \in Requests \ {r}, req'[q].pc \notin {"idle", "create"}
      PROVE  ~req'[q].stale /\ holds'[req'[q].hold] # "absent"
  <2>1. /\ req[q].pc \notin {"idle", "create"} /\ req'[q].hold = req[q].hold
        /\ req'[q].stale = req[q].stale \/ (OnCreated(r) /\ req[q].hold = req[r].hold)
    BY <1>5, OthersLike DEF Like
  <2>2. ~req[q].stale /\ holds[req[q].hold] # "absent" /\ req[q].hold \in Holds
    BY <2>1, Carries DEF CreatedOnce
  <2>3. ~(OnCreated(r) /\ req[q].hold = req[r].hold)
    BY <2>2 DEF OnCreated, Answered, Creating, CreatedOnce
  <2> QED BY <1>4, <2>1, <2>2, <2>3
<1>6. req'[r].pc \notin {"idle", "create"} => ~req'[r].stale /\ holds'[req'[r].hold] # "absent"
  <2> SUFFICES ASSUME req'[r].pc \notin {"idle", "create"}
               PROVE  ~req'[r].stale /\ holds'[req'[r].hold] # "absent"
    OBVIOUS
  <2>1. CASE /\ req[r].pc \notin {"idle", "create"}
             /\ req'[r].hold = req[r].hold /\ req'[r].stale = req[r].stale
    <3>1. req[r].hold \in Holds
      BY <2>1, Carries
    <3> QED BY <1>4, <2>1, <3>1 DEF CreatedOnce
  <2> QED BY <2>1, Beyond DEF maps
<1>7. UncreatedIsAbsent'
  <2> SUFFICES ASSUME NEW h \in Holds, intents'[h].state = "none" PROVE holds'[h] = "absent"
    BY DEF UncreatedIsAbsent
  <2>1. intents[h].state = "none" /\ holds[h] = "absent"
    BY IntentMoves DEF UncreatedIsAbsent
  <2>2. ~Created(r, h) /\ ~Marks(r, h)
    BY <2>1 DEF Created, Marks, CreatedOnce
  <2> QED BY <2>1, <2>2, EntryMoves
<1> QED BY <1>1, <1>2, <1>3, <1>5, <1>6, <1>7 DEF CreatedOnce

\* What holds around a step, beside the invariant itself.
Around(r) ==
    /\ TypeInv /\ ZincInv /\ BuyerFacts /\ KeptIsAccountedFor /\ RefundIsMade
    /\ [Next]_vars /\ Acts(r) /\ Once' /\ Calm'

LEMMA Progress ==
    ASSUME NEW r \in Requests, Around(r)
    PROVE  Begins(r) \/ Ended(r) \/ Moves(r)
BY Moving DEF Around, Calm

LEMMA HoldFollowsStep ==
    ASSUME NEW r \in Requests, Around(r), CreatedOnce, HoldFollowsStripe, RequestFollowsHold
    PROVE  HoldFollowsStripe'
<1>0. TypeInv /\ [Next]_vars /\ Acts(r)
  BY DEF Around
<1> SUFFICES ASSUME NEW h \in Holds
             PROVE  /\ intents'[h].state = "none" => holds'[h] = "absent"
                    /\ holds'[h] = "absent" => intents'[h].state # "captured"
                    /\ holds'[h] = "released" => intents'[h].state \in {"captured", "canceled"}
                    /\ holds'[h] = "spent" => intents'[h].state = "captured"
                    /\ intents'[h].refunded => intents'[h].state = "captured"
  BY DEF HoldFollowsStripe
<1>1. /\ intents[h].state = "captured" => intents'[h].state = "captured"
      /\ intents[h].state = "canceled" => intents'[h].state = "canceled"
      /\ intents[h].state # "none" => intents'[h].state # "none"
  BY <1>0, IntentMoves, StripeStep DEF Around, ZincInv, StripeStands
<1>2. \A q \in Requests : Paid(q) => intents[req[q].hold].state = "captured"
  <2> SUFFICES ASSUME NEW q \in Requests, Paid(q) PROVE intents[req[q].hold].state = "captured"
    OBVIOUS
  <2>1. req[q].hold \in Holds /\ req[q].offer.total \in Totals
    BY <1>0, Carries DEF Paid, Answered, Orders
  <2> QED BY <2>1 DEF Around, ZincInv, PaidIsCaptured, CaptureStands
<1>3. \/ holds'[h] = holds[h]
      \/ holds'[h] \in {"committed", "needs_attention"} /\ intents[h].state # "none"
      \/ holds'[h] \in {"spent", "released"} /\ intents[h].state = "captured"
      \/ holds'[h] = "released" /\ intents[h].state = "canceled"
  BY <1>0, <1>2, HoldMoves DEF Created, CreatedOnce, GivesUp, Paying, Cancels
<1>4. intents'[h].refunded => intents'[h].state = "captured"
  <2>1. ASSUME NEW q \in Requests, StripeRefund(q), req[q].hold = h PROVE intents[h].state = "captured"
    BY <1>2, <2>1 DEF StripeRefund, Called, Paid
  <2> QED BY <1>0, <1>1, <2>1, IntentMoves DEF HoldFollowsStripe
<1>5. holds[h] = "absent" /\ holds'[h] = "absent" => intents'[h].state # "captured"
  <2> SUFFICES ASSUME holds[h] = "absent", intents'[h].state = "captured" PROVE FALSE
    OBVIOUS
  <2>1. intents[h].state # "captured"
    BY DEF HoldFollowsStripe
  <2>2. PICK q \in Requests : StripeCapture(q) /\ req[q].hold = h
    BY <1>0, <2>1, KeptStep
  <2> QED BY <2>2 DEF StripeCapture, Called, CreatedOnce
<1> QED BY <1>1, <1>3, <1>4, <1>5 DEF HoldFollowsStripe

\* Which requests come to ask, to pay, to return and to be canceled.
LEMMA AskingMoves ==
    ASSUME NEW r \in Requests, Around(r), Asking(r)'
    PROVE  \/ Asking(r) /\ req'[r].hold = req[r].hold
           \/ \E i \in Instructions, o \in Offers : Checkout(r, i, o) /\ req'[r].hold = <<i, latest[i]>>
<1> USE DEF Asking
<1>1. CASE Moves(r)
  <2>1. CASE Outside(r) /\ req'[r].pc = req[r].pc
    <3>1. Paid(r) => req[r].pc # "capture"
      BY <2>1 DEF Paid, Answered, Outside, StripeCreate, StripeCapture, StripeRefund, StripeCancel, MarketCheckout,
         ZincPlace, Called
    <3> QED BY <1>1, <2>1, <3>1 DEF Moves
  <2> QED BY <1>1, <2>1 DEF Moves, Answered
<1>2. CASE Begins(r)
  BY <1>2, BeginEffects DEF Around, Begins
<1> QED BY <1>1, <1>2, Progress DEF Ended

LEMMA PayingMoves ==
    ASSUME NEW r \in Requests, Around(r), Paying(r)'
    PROVE  /\ req'[r].hold = req[r].hold
           /\ \/ Paying(r) /\ (req'[r].pc # "refund" => req[r].pc # "refund")
              \/ Asking(r) /\ StripeCapture(r)
<1> USE DEF Paying, Paid, Answered
<1>1. Moves(r)
  BY Progress, BeginEffects DEF Around, Ended, Begins, FirstCall
<1>2. CASE Outside(r) /\ req'[r].pc = req[r].pc
  <2>1. req[r].pc = "capture" => StripeCapture(r) /\ Asking(r)
    BY <1>2 DEF Outside, StripeCreate, StripeCapture, StripeRefund, StripeCancel, MarketCheckout, ZincPlace,
       Called, Asking
  <2> QED BY <1>1, <1>2, <2>1 DEF Moves
<1> QED BY <1>1, <1>2 DEF Moves

LEMMA CanceledMoves ==
    ASSUME NEW r \in Requests, Around(r), Answered(r, "cancel", "ok")'
    PROVE  /\ req'[r].hold = req[r].hold /\ req[r].hold \in Holds
           /\ intents'[req[r].hold].state = "canceled"
<1>1. Moves(r)
  BY Progress, BeginEffects DEF Around, Ended, Begins, FirstCall, Answered
<1>2. Outside(r) /\ req[r].pc = "cancel"
  BY <1>1 DEF Moves, Answered
<1>3. StripeCancel(r) /\ req[r].hold \in Holds
  BY <1>2, Carries DEF Around, Outside, StripeCreate, StripeCapture, StripeRefund, MarketCheckout, ZincPlace, Called
<1>4. intents' = [intents EXCEPT ![req[r].hold].state = "canceled"]
  BY <1>3, Effects DEF StripeCancel, Answered, Around
<1>5. [intents[req[r].hold] EXCEPT !.state = "canceled"].state = "canceled"
  BY <1>3, Unfolded DEF Around, IntentRecords
<1> QED BY <1>1, <1>3, <1>4, <1>5, Unfolded DEF Around, Moves

\* The others come to none of it.
LEMMA AllMoves ==
    ASSUME NEW r \in Requests, Around(r), NEW q \in Requests
    PROVE  /\ Asking(q)' =>
                 \/ Asking(q) /\ req'[q].hold = req[q].hold
                 \/ \E i \in Instructions, o \in Offers :
                       Checkout(r, i, o) /\ req'[q].hold = <<i, latest[i]>>
           /\ Paying(q)' =>
                 /\ req'[q].hold = req[q].hold
                 /\ \/ Paying(q) /\ (req'[q].pc # "refund" => req[q].pc # "refund")
                    \/ Asking(q) /\ StripeCapture(q)
           /\ req'[q].pc = "return" =>
                 /\ req'[q].hold = req[q].hold
                 /\ req[q].pc = "return" \/ (req[q].pc = "wait" /\ Closes(q))
           /\ Answered(q, "cancel", "ok")' =>
                 /\ req'[q].hold = req[q].hold /\ req[q].hold \in Holds
                 /\ Answered(q, "cancel", "ok") \/ intents'[req[q].hold].state = "canceled"
<1>1. CASE q = r
  BY <1>1, AskingMoves, PayingMoves, ReturningMoves, CanceledMoves DEF Around
<1>2. CASE q # r
  <2>1. Like(q)
    BY <1>2, OthersLike DEF Around
  <2>2. req[q].pc = "cancel" => req[q].hold \in Holds
    BY Carries DEF Around
  <2> QED BY <2>1, <2>2 DEF Like, Asking, Paying, Paid, Answered
<1> QED BY <1>1, <1>2

\* One that asks or pays works on its instruction, alone.
LEMMA Alone ==
    ASSUME NEW r \in Requests, Around(r), NEW q \in Requests, Asking(q) \/ Paying(q)
    PROVE  /\ req[q].hold \in Holds /\ req[q].hold[1] \in Instructions /\ req[q].offer.total \in Totals
           /\ req[q].pc \notin {"idle", "create"} /\ ~(Asking(q) /\ Paying(q))
           /\ Working(q)
           /\ \A p \in Requests : Working(p) /\ req[p].hold[1] = req[q].hold[1] => p = q
           /\ Paying(q) => intents[req[q].hold].state = "captured"
<1>1. req[q].pc \in Orders \ {"return"} /\ ~(Asking(q) /\ Paying(q))
  BY DEF Asking, Paying, Paid, Answered, Orders
<1>2. Working(q)
  BY <1>1, Carries DEF Around, Working, Orders
<1>3. req[q].hold \in Holds /\ req[q].hold[1] \in Instructions /\ req[q].offer.total \in Totals
  BY <1>2, WorkingCarries DEF Around
<1>4. Paying(q) => intents[req[q].hold].state = "captured"
  BY <1>3 DEF Around, Paying, ZincInv, PaidIsCaptured, CaptureStands
<1> QED BY <1>1, <1>2, <1>3, <1>4 DEF Orders, Around, BuyerFacts, OneBuyer, WorkingOn

\* A capture that was made just now is the first word on its hold.
LEMMA FirstCapture ==
    ASSUME NEW r \in Requests, Around(r), RequestFollowsHold,
           NEW q \in Requests, Asking(q), StripeCapture(q), Paying(q)'
    PROVE  /\ intents[req[q].hold].state = "requires_capture" /\ holds[req[q].hold] = "committed"
           /\ intents'[req[q].hold].refunded = intents[req[q].hold].refunded
           /\ UNCHANGED maps
<1>1. PICK h \in Holds, t \in Totals : h = req[q].hold /\ t = req[q].offer.total
  BY Alone
<1>2. intents'[h].state = "captured"
  <2>1. captures'[h][t] = "ok"
    BY <1>1, CaptureAnswers DEF Paying, Around
  <2> QED BY <2>1, StripeStep DEF Around, ZincInv, CaptureStands, Captured
<1>3. /\ intents[h].state # "captured"
      /\ holds[h] = "committed" \/ intents[h].state = "canceled"
  BY <1>1 DEF RequestFollowsHold
<1>4. \E p \in Requests :
         /\ intents[h].state = "requires_capture"
         /\ intents'[h] = [intents[h] EXCEPT !.state = "captured", !.received = req[p].offer.total]
         /\ UNCHANGED maps
  BY <1>2, <1>3, KeptStep DEF Around
<1>5. intents'[h].refunded = intents[h].refunded
  BY <1>4, Unfolded DEF Around, IntentRecords
<1> QED BY <1>1, <1>3, <1>4, <1>5

\* A request that asks knows that nobody took the money of its hold.
LEMMA AskingStep ==
    ASSUME NEW r \in Requests, Around(r), PurchaseFacts, NEW q \in Requests, Asking(q)'
    PROVE  /\ intents'[req'[q].hold].state # "captured"
           /\ holds'[req'[q].hold] = "committed" \/ intents'[req'[q].hold].state = "canceled"
<1>0. TypeInv /\ [Next]_vars /\ Acts(r) /\ CreatedOnce /\ RequestFollowsHold
  BY DEF Around, PurchaseFacts
<1>1. CASE Asking(q) /\ req'[q].hold = req[q].hold
  <2>1. PICK h \in Holds : h = req[q].hold
    BY <1>1, Alone
  <2>2. /\ intents[h].state # "captured" /\ holds[h] # "absent"
        /\ holds[h] = "committed" \/ intents[h].state = "canceled"
    BY <1>0, <1>1, <2>1, Alone DEF RequestFollowsHold, CreatedOnce
  <2>3. intents'[h].state # "captured"
    <3> SUFFICES ASSUME intents'[h].state = "captured" PROVE FALSE
      OBVIOUS
    <3>1. PICK p \in Requests : StripeCapture(p) /\ req[p].hold = h /\ (Answer(p, "ok") \/ Blame("lost"))
      BY <1>0, <2>2, KeptStep
    <3>2. Working(p) /\ Answer(p, "ok")
      BY <1>0, <3>1, Carries DEF StripeCapture, Called, Working, Orders, Around, Blame, Once
    <3>3. p = q
      BY <1>1, <2>1, <3>1, <3>2, Alone
    <3> QED BY <1>0, <3>1, <3>2, <3>3, Effects DEF StripeCapture, Called, Asking, Paid, Answered
  <2>4. ~Created(r, h)
    BY <2>2 DEF Created
  <2>5. ~GivesUp(r, h)
    BY <1>1, <2>1, Alone DEF GivesUp
  <2>6. intents[h].state = "canceled" => intents'[h].state = "canceled"
    BY <1>0, IntentMoves
  <2>7. holds'[h] = "committed" \/ intents'[h].state = "canceled"
    BY <1>0, <2>2, <2>4, <2>5, <2>6, HoldMoves DEF Cancels
  <2> QED BY <1>1, <2>1, <2>3, <2>7
<1>2. ASSUME NEW i \in Instructions, NEW o \in Offers, Checkout(r, i, o), req'[q].hold = <<i, latest[i]>>
      PROVE  /\ intents'[req'[q].hold].state # "captured"
             /\ holds'[req'[q].hold] = "committed"
  <2>1. PICK h \in Holds : h = <<i, latest[i]>> /\ h[1] = i
    BY <1>0, <1>2, Unfolded DEF Checkout, CanBuy, Holds
  <2>2. holds[h] = "committed" /\ i \notin pending /\ UNCHANGED <<holds, intents>>
    BY <1>2, <2>1 DEF Checkout, CanBuy, maps, stripe
  <2>3. \A p \in Requests : ~WorkingOn(p, i)
    BY <1>2, CheckoutBuyers DEF Around, Calm
  <2>4. intents[h].state # "captured"
    <3>1. ~\E p \in Requests : req[p].hold = h /\ Paying(p)
      BY <2>1, <2>3, Alone DEF WorkingOn
    <3> QED BY <2>1, <2>2, <3>1 DEF PurchaseFacts, OpenIsPaying
  <2> QED BY <1>2, <2>1, <2>2, <2>4
<1> QED BY <1>1, <1>2, AllMoves

\* A hold that pays stays committed until the request gives it up.
LEMMA PayingStep ==
    ASSUME NEW r \in Requests, Around(r), PurchaseFacts, NEW q \in Requests, Paying(q)'
    PROVE  /\ holds'[req'[q].hold] = "committed"
           /\ req'[q].pc # "refund" => ~intents'[req'[q].hold].refunded
<1>0. TypeInv /\ [Next]_vars /\ Acts(r) /\ CreatedOnce /\ RequestFollowsHold /\ HoldFollowsStripe
  BY DEF Around, PurchaseFacts
<1>1. CASE Paying(q) /\ (req'[q].pc # "refund" => req[q].pc # "refund") /\ req'[q].hold = req[q].hold
  <2>1. PICK h \in Holds : h = req[q].hold
    BY <1>1, Alone
  <2>2. /\ intents[h].state = "captured" /\ holds[h] = "committed"
        /\ req'[q].pc # "refund" => ~intents[h].refunded
    BY <1>0, <1>1, <2>1, Alone DEF RequestFollowsHold
  <2>3. holds'[h] = "committed"
    <3>1. ~GivesUp(r, h)
      <4> SUFFICES ASSUME GivesUp(r, h) PROVE FALSE
        OBVIOUS
      <4>1. r = q
        BY <1>1, <2>1, Alone DEF GivesUp
      <4> QED BY <4>1 DEF GivesUp
    <3> QED BY <1>0, <2>2, <3>1, HoldMoves DEF Created, Cancels
  <2>4. req'[q].pc # "refund" => ~intents'[h].refunded
    <3> SUFFICES ASSUME req'[q].pc # "refund", intents'[h].refunded PROVE FALSE
      OBVIOUS
    <3>1. PICK p \in Requests : StripeRefund(p) /\ req[p].hold = h
      BY <1>0, <2>2, IntentMoves
    <3>2. req[p].pc # "return"
      BY <1>0, <2>2, <3>1 DEF RequestFollowsHold
    <3>3. req[p].pc = "refund" /\ Working(p)
      BY <1>0, <3>1, <3>2, Carries DEF StripeRefund, Called, Working, Orders
    <3>4. p = q
      BY <1>1, <2>1, <3>1, <3>3, Alone
    <3> QED BY <1>1, <3>3, <3>4
  <2> QED BY <1>1, <2>1, <2>3, <2>4
<1>2. CASE Asking(q) /\ StripeCapture(q) /\ req'[q].hold = req[q].hold
  <2>1. req[q].hold \in Holds
    BY <1>2, Alone
  <2>2. /\ intents[req[q].hold].state = "requires_capture" /\ holds[req[q].hold] = "committed"
        /\ intents'[req[q].hold].refunded = intents[req[q].hold].refunded
        /\ UNCHANGED holds
    BY <1>0, <1>2, FirstCapture DEF maps
  <2> QED BY <1>0, <1>2, <2>1, <2>2 DEF HoldFollowsStripe
<1> QED BY <1>1, <1>2, AllMoves

LEMMA RequestFollowsStep ==
    ASSUME NEW r \in Requests, Around(r), PurchaseFacts
    PROVE  RequestFollowsHold'
<1>0. TypeInv /\ [Next]_vars /\ Acts(r) /\ CreatedOnce /\ RequestFollowsHold
  BY DEF Around, PurchaseFacts
<1>1. ASSUME NEW q \in Requests, req'[q].pc = "return" PROVE holds'[req'[q].hold] = "released"
  <2>1. req'[q].hold = req[q].hold
    BY <1>1, AllMoves
  <2>2. CASE req[q].pc = "return"
    <3>1. PICK h \in Holds : h = req[q].hold
      BY <1>0, <2>2, Carries
    <3>2. holds[h] = "released"
      BY <1>0, <2>2, <3>1 DEF RequestFollowsHold
    <3>3. holds'[h] = "released"
      BY <1>0, <3>2, HoldMoves DEF Created, GivesUp, Cancels
    <3> QED BY <2>1, <3>1, <3>3
  <2>3. CASE req[q].pc = "wait" /\ Closes(q)
    <3>1. SetHold(q, "released")
      BY <1>1, <2>3 DEF Closes, Ended
    <3>2. ~req[q].stale /\ req[q].hold \in Holds
      BY <1>0, <2>3, Carries DEF CreatedOnce
    <3> QED BY <1>0, <2>1, <3>1, <3>2, Unfolded DEF SetHold
  <2> QED BY <1>1, <2>2, <2>3, AllMoves
<1>2. ASSUME NEW q \in Requests, Answered(q, "cancel", "ok")'
      PROVE  intents'[req'[q].hold].state = "canceled"
  <2>1. /\ req'[q].hold = req[q].hold /\ req[q].hold \in Holds
        /\ Answered(q, "cancel", "ok") \/ intents'[req[q].hold].state = "canceled"
    BY <1>2, AllMoves
  <2> QED BY <1>0, <2>1, IntentMoves DEF RequestFollowsHold
<1>3. \A q \in Requests : Asking(q)' =>
         /\ intents'[req'[q].hold].state # "captured"
         /\ holds'[req'[q].hold] = "committed" \/ intents'[req'[q].hold].state = "canceled"
  BY AskingStep
<1>4. \A q \in Requests : Paying(q)' =>
         /\ holds'[req'[q].hold] = "committed"
         /\ req'[q].pc # "refund" => ~intents'[req'[q].hold].refunded
  BY PayingStep
<1> QED BY <1>1, <1>2, <1>3, <1>4 DEF RequestFollowsHold

\* What was captured and not given up is still being paid with, or its order is
\* pending.
LEMMA OpenStep ==
    ASSUME NEW r \in Requests, Around(r), PurchaseFacts
    PROVE  OpenIsPaying'
<1>0. TypeInv /\ [Next]_vars /\ Acts(r) /\ CreatedOnce /\ RequestFollowsHold
  BY DEF Around, PurchaseFacts
<1> SUFFICES ASSUME NEW h \in Holds, intents'[h].state = "captured", holds'[h] \notin {"spent", "released"}
             PROVE  \/ \E q \in Requests : req'[q].hold = h /\ Paying(q)'
                    \/ h[1] \in pending' /\ \A q \in Requests : ~WorkingOn(q, h[1])'
  BY DEF OpenIsPaying
<1>1. CASE intents[h].state # "captured"
  <2>1. PICK p \in Requests : /\ StripeCapture(p) /\ req[p].hold = h
                              /\ Answer(p, "ok") \/ Blame("lost")
    BY <1>0, <1>1, KeptStep
  <2>2. Answer(p, "ok")
    BY <2>1 DEF Around, Blame, Once
  <2> QED BY <1>0, <2>1, <2>2, Effects DEF StripeCapture, Called, Keeps, Paying, Paid, Answered
<1>2. CASE intents[h].state = "captured"
  <2>1. holds[h] \notin {"spent", "released"}
    BY <1>0, <1>2, HoldMoves DEF Created, GivesUp, Cancels
  <2>2. CASE h[1] \in pending /\ \A q \in Requests : ~WorkingOn(q, h[1])
    BY <2>2, PendingStep DEF Around, Acts
  <2>3. ASSUME NEW q \in Requests, req[q].hold = h, Paying(q)
        PROVE  \/ req'[q].hold = h /\ Paying(q)'
               \/ h[1] \in pending' /\ \A p \in Requests : ~WorkingOn(p, h[1])'
    <3>1. CASE q # r
      BY <2>3, <3>1, OthersLike DEF Around, Like, Paying, Paid, Answered
    <3>2. CASE q = r
      <4>1. Working(r) /\ \A p \in Requests \ {r} : ~WorkingOn(p, h[1])
        BY <2>3, <3>2, Alone DEF WorkingOn
      <4>2. CASE WaitEnds(r)
        <5>1. h[1] \in pending /\ UNCHANGED pending
          BY <2>3, <3>2, <4>1, <4>2 DEF WaitEnds, maps, Around, BuyerFacts, PendingIsTold
        <5>2. \A p \in Requests \ {r} : ~WorkingOn(p, h[1])'
          BY <4>1, OthersLike DEF Around, Like, WorkingOn, Working
        <5>3. ~WorkingOn(r, h[1])'
          BY <1>0, <4>2, Effects DEF WaitEnds, Ended, WorkingOn, Working
        <5> QED BY <5>1, <5>2, <5>3
      <4>3. ASSUME Closes(r) \/ OnRefunded(r) PROVE FALSE
        <5>1. ~req[r].stale /\ req[r].pc \notin {"idle", "create"}
          BY <1>0, <2>3, <3>2, Alone DEF CreatedOnce
        <5>2. SetHold(r, "spent") \/ SetHold(r, "released")
          BY <4>3 DEF Closes, OnRefunded
        <5> QED BY <1>0, <2>3, <3>2, <5>1, <5>2, Unfolded DEF SetHold
      <4>4. CASE Paid(r)' /\ req'[r].hold = req[r].hold
        <5>1. req'[r].pc # "return"
          BY <1>0, <2>3, <3>2, <4>3, ReturningMoves DEF Paying
        <5> QED BY <2>3, <3>2, <4>4, <5>1 DEF Paying
      <4>5. ~OnReturned(r)
        BY <2>3, <3>2 DEF OnReturned, Answered, Paying
      <4> QED BY <2>3, <3>2, <4>2, <4>3, <4>4, <4>5, PaidLeaves DEF Around, Acts, Paying
    <3> QED BY <3>1, <3>2
  <2> QED BY <1>2, <2>1, <2>2, <2>3 DEF PurchaseFacts, OpenIsPaying
<1> QED BY <1>1, <1>2

\* Money is not settled again once it was on its way back.
LEMMA SettledBefore ==
    ASSUME NEW r \in Requests, Around(r), NEW h \in Holds, Settled(h)', intents[h].state = "captured"
    PROVE  Settled(h)
<1>1. Kept(h)
  BY RefundsStep DEF Around, Settled, Kept, RefundedStands
<1>2. ASSUME NEW q \in Requests, req[q].hold = h, req[q].pc \in {"refund", "return"} PROVE GivingBack(h)'
  <2>1. CASE q # r
    BY <1>2, <2>1, OthersLike DEF Around, Like, GivingBack
  <2>2. CASE q = r
    <3>1. ~OnRefunded(r) /\ ~OnReturned(r)
      BY <1>1, <1>2, <2>2 DEF Around, OnRefunded, OnReturned, Answered, RefundIsMade, Kept
    <3>2. Outside(r)
      BY <1>2, <2>2, <3>1 DEF Around, Acts, Step, Begins, Commit, Release, Checkout, OnCreated, OnCreateRefused, OnMarket,
         OnCapture, OnPlaced, OnSettled, WaitTimesOut, WaitEnds, PollFails, OnCanceled, Answered
    <3>3. PICK a : Answer(r, a)
      BY <3>2 DEF Outside, StripeCreate, StripeCapture, StripeRefund, StripeCancel, MarketCheckout, ZincPlace
    <3>4. Keeps(r) /\ req'[r].pc = req[r].pc
      BY <3>3, Effects DEF Around
    <3> QED BY <1>2, <2>2, <3>4 DEF Keeps, GivingBack
  <2> QED BY <2>1, <2>2
<1> QED BY <1>1, <1>2 DEF Settled, GivingBack

\* While a request captures, nothing of the instruction is settled.
LEMMA NothingSettled ==
    ASSUME NEW r \in Requests, Around(r), NEW q \in Requests, Asking(q), NEW g \in Holds,
           Settled(g), g[1] = req[q].hold[1], g # req[q].hold
    PROVE  FALSE
<1>1. Kept(g) /\ ~GivingBack(g)
  BY DEF Settled
<1>2. ASSUME NEW p \in Requests, req[p].hold = g, Paid(p) PROVE FALSE
  <2>1. Paying(p)
    BY <1>1, <1>2 DEF Paying, GivingBack
  <2>2. Working(p)
    BY <2>1, Alone
  <2> QED BY <1>2, <2>2, Alone
<1>3. WorkingOn(q, g[1])
  BY Alone DEF WorkingOn
<1>4. purchases[g[1]] # intents[g].received
  <2>1. purchases[g[1]] = None
    BY <1>3 DEF WorkingOn, Around, BuyerFacts, Unbought
  <2>2. intents[g].received \in Totals \cup {0}
    BY Unfolded DEF Around, IntentRecords
  <2> QED BY <2>1, <2>2, MoneyAssumption
<1> QED BY <1>1, <1>2, <1>3, <1>4 DEF Around, KeptIsAccountedFor

LEMMA OneSettledStep ==
    ASSUME NEW r \in Requests, Around(r), PurchaseFacts
    PROVE  OneSettled'
<1>0. TypeInv /\ [Next]_vars /\ RequestFollowsHold /\ OneSettled
  BY DEF Around, PurchaseFacts
<1>1. ASSUME NEW h \in Holds, NEW g \in Holds, Settled(h)', Settled(g)', h[1] = g[1], h # g,
             intents[h].state # "captured"
      PROVE  FALSE
  <2>1. PICK p \in Requests : /\ StripeCapture(p) /\ req[p].hold = h
                              /\ UNCHANGED maps
                              /\ captures[h][req[p].offer.total] = "none"
    BY <1>0, <1>1, KeptStep DEF Settled, Kept
  <2>2. Asking(p)
    BY <2>1 DEF StripeCapture, Called, Asking, Paid, Answered
  <2>3. CASE intents[g].state = "captured"
    <3>1. Settled(g)
      BY <1>1, <2>3, SettledBefore
    <3> QED BY <1>1, <2>1, <2>2, <3>1, NothingSettled
  <2>4. CASE intents[g].state # "captured"
    <3>1. PICK q \in Requests : StripeCapture(q) /\ req[q].hold = g
      BY <1>0, <1>1, <2>4, KeptStep DEF Settled, Kept
    <3>2. Asking(q)
      BY <3>1 DEF StripeCapture, Called, Asking, Paid, Answered
    <3>3. Working(p) /\ Working(q)
      BY <2>2, <3>2, Alone
    <3>4. p = q
      BY <1>1, <2>1, <3>1, <3>2, <3>3, Alone
    <3> QED BY <1>1, <2>1, <3>1, <3>4
  <2> QED BY <2>3, <2>4
<1>2. ASSUME NEW h \in Holds, NEW g \in Holds, Settled(h)', Settled(g)', h[1] = g[1] PROVE h = g
  <2>1. CASE intents[h].state = "captured" /\ intents[g].state = "captured"
    BY <1>0, <1>2, <2>1, SettledBefore DEF OneSettled
  <2> QED BY <1>1, <1>2, <2>1
<1> QED BY <1>2 DEF OneSettled

\* The hold that bought stays spent and paid.
LEMMA SpentStays ==
    ASSUME NEW r \in Requests, Around(r), PurchaseFacts, NEW h \in Holds, holds[h] = "spent", Kept(h)
    PROVE  holds'[h] = "spent" /\ Kept(h)' /\ intents'[h].received = intents[h].received
<1>0. TypeInv /\ [Next]_vars /\ Acts(r) /\ CreatedOnce /\ RequestFollowsHold
  BY DEF Around, PurchaseFacts
<1>1. holds'[h] = "spent"
  BY <1>0, HoldMoves DEF Created, GivesUp, Cancels, Kept
<1>2. intents'[h].state = "captured" /\ intents'[h].received = intents[h].received
  BY <1>0, StripeStep DEF Around, ZincInv, StripeStands, Kept
<1>3. ~intents'[h].refunded
  <2> SUFFICES ASSUME NEW p \in Requests, StripeRefund(p), req[p].hold = h PROVE FALSE
    BY <1>0, IntentMoves DEF Kept
  <2>1. Paying(p) \/ req[p].pc = "return"
    BY DEF StripeRefund, Called, Paying, Paid
  <2> QED BY <1>0, <2>1 DEF RequestFollowsHold
<1> QED BY <1>1, <1>2, <1>3 DEF Kept

LEMMA BoughtStep ==
    ASSUME NEW r \in Requests, Around(r), PurchaseFacts
    PROVE  BoughtIsPaid'
<1>0. TypeInv /\ [Next]_vars /\ Acts(r) /\ CreatedOnce /\ RequestFollowsHold
  BY DEF Around, PurchaseFacts
<1> SUFFICES ASSUME NEW i \in Instructions, purchases'[i] # None
             PROVE  \E h \in Holds : /\ h[1] = i /\ holds'[h] = "spent"
                                     /\ Kept(h)' /\ intents'[h].received = purchases'[i]
  BY DEF BoughtIsPaid
<1>1. CASE purchases'[i] = purchases[i]
  <2>1. PICK h \in Holds : /\ h[1] = i /\ holds[h] = "spent"
                           /\ Kept(h) /\ intents[h].received = purchases[i]
    BY <1>1 DEF PurchaseFacts, BoughtIsPaid
  <2> QED BY <1>1, <2>1, SpentStays
<1>2. CASE purchases'[i] # purchases[i]
  <2>1. Closes(r)
    BY <1>0, <1>2, LedgerStep DEF Acts, WaitTimesOut
  <2>2. Paying(r)
    BY <2>1 DEF Closes, Paying
  <2>3. PICK h \in Holds : h = req[r].hold
    BY <2>2, Alone
  <2>4. /\ purchases' = [purchases EXCEPT ![h[1]] = intents[h].received]
        /\ SetHold(r, "spent") /\ UNCHANGED intents
    BY <1>2, <2>1, <2>3 DEF Closes
  <2>5. h[1] = i /\ purchases'[i] = intents[h].received
    BY <1>0, <1>2, <2>4, Unfolded
  <2>6. Kept(h)
    <3>1. intents[h].state = "captured"
      BY <2>2, <2>3, Alone
    <3>2. ~intents[h].refunded
      BY <1>0, <2>1, <2>2, <2>3 DEF RequestFollowsHold, Closes
    <3> QED BY <3>1, <3>2 DEF Kept
  <2>7. holds'[h] = "spent"
    <3>1. ~req[r].stale
      BY <1>0, <2>2, Alone DEF CreatedOnce
    <3> QED BY <1>0, <2>3, <2>4, <3>1, Unfolded DEF SetHold
  <2> QED BY <2>4, <2>5, <2>6, <2>7 DEF Kept
<1> QED BY <1>1, <1>2

-----------------------------------------------------------------------------
(* The invariant holds *)

\* Nobody acts: a customer who confirms leaves an intent to be captured.
LEMMA Confirmed ==
    ASSUME TypeInv, Elsewhere \/ UNCHANGED vars, NEW h \in Holds
    PROVE  \/ intents'[h] = intents[h]
           \/ /\ intents[h].state = "requires_action"
              /\ intents'[h].state = "requires_capture"
              /\ intents'[h].refunded = intents[h].refunded
<1>1. ASSUME NEW g \in Holds, CustomerConfirms(g)
      PROVE  \/ intents'[h] = intents[h]
             \/ /\ intents[h].state = "requires_action"
                /\ intents'[h].state = "requires_capture"
                /\ intents'[h].refunded = intents[h].refunded
  <2>1. intents'[h] = IF h = g THEN [intents[h] EXCEPT !.state = "requires_capture"] ELSE intents[h]
    BY <1>1, Unfolded DEF CustomerConfirms
  <2>2. intents[h] \in IntentRecords
    BY Unfolded
  <2> QED BY <1>1, <2>1, <2>2 DEF CustomerConfirms, IntentRecords
<1> QED BY <1>1 DEF Elsewhere, vars, stripe, ZincSettles

LEMMA RestStep ==
    ASSUME TypeInv, PurchaseFacts, Elsewhere \/ UNCHANGED vars
    PROVE  PurchaseFacts'
<1>1. UNCHANGED <<holds, purchases, pending, req>>
  BY RestEffects DEF maps
<1>2. \A h \in Holds : \/ intents'[h] = intents[h]
                       \/ /\ intents[h].state = "requires_action"
                          /\ intents'[h].state = "requires_capture"
                          /\ intents'[h].refunded = intents[h].refunded
  BY Confirmed
<1>3. /\ \A q \in Requests, h \in Holds : Creating(q, h)' <=> Creating(q, h)
      /\ \A q \in Requests : /\ Asking(q)' <=> Asking(q)
                             /\ Paying(q)' <=> Paying(q)
                             /\ Answered(q, "cancel", "ok")' <=> Answered(q, "cancel", "ok")
                             /\ \A i : WorkingOn(q, i)' <=> WorkingOn(q, i)
      /\ \A h : GivingBack(h)' <=> GivingBack(h)
  BY <1>1 DEF Creating, Asking, Paying, Paid, Answered, WorkingOn, Working, GivingBack
<1>4. \A q \in Requests : req[q].pc # "idle" => req[q].hold \in Holds
  BY Carries
<1>5. CreatedOnce'
  BY <1>1, <1>2, <1>3 DEF PurchaseFacts, CreatedOnce
<1>6. HoldFollowsStripe'
  BY <1>1, <1>2 DEF PurchaseFacts, HoldFollowsStripe
<1>7. RequestFollowsHold'
  <2> SUFFICES ASSUME NEW q \in Requests
               PROVE  /\ Asking(q) =>
                             /\ intents'[req[q].hold].state # "captured"
                             /\ holds[req[q].hold] = "committed" \/ intents'[req[q].hold].state = "canceled"
                      /\ Paying(q) => holds[req[q].hold] = "committed"
                      /\ req[q].pc = "return" => holds[req[q].hold] = "released"
                      /\ Answered(q, "cancel", "ok") => intents'[req[q].hold].state = "canceled"
                      /\ Paying(q) /\ req[q].pc # "refund" => ~intents'[req[q].hold].refunded
    BY <1>1, <1>3 DEF RequestFollowsHold
  <2>1. Asking(q) \/ Paying(q) \/ Answered(q, "cancel", "ok") => req[q].hold \in Holds
    BY <1>4 DEF Asking, Paying, Paid, Answered
  <2> QED BY <1>2, <2>1 DEF PurchaseFacts, RequestFollowsHold
<1>8. \A h \in Holds : Kept(h)' <=> Kept(h)
  BY <1>2 DEF Kept
<1>9. OpenIsPaying'
  BY <1>1, <1>2, <1>3 DEF PurchaseFacts, OpenIsPaying
<1>10. OneSettled'
  BY <1>3, <1>8 DEF PurchaseFacts, OneSettled, Settled
<1>11. BoughtIsPaid'
  <2>1. \A h \in Holds : Kept(h) => intents'[h].received = intents[h].received
    BY <1>2 DEF Kept
  <2> QED BY <1>1, <1>8, <2>1 DEF PurchaseFacts, BoughtIsPaid
<1> QED BY <1>5, <1>6, <1>7, <1>9, <1>10, <1>11 DEF PurchaseFacts

LEMMA PurchaseInit == Init => PurchaseInv
<1> SUFFICES ASSUME Init PROVE PurchaseFacts
  BY DEF PurchaseInv, PurchaseFacts
<1>1. \A r \in Requests : req[r] = Idle
  BY DEF Init
<1>2. \A h \in Holds : intents[h].state = "none" /\ ~intents[h].refunded /\ holds[h] = "absent"
  BY DEF Init, NoIntent
<1>3. CreatedOnce /\ RequestFollowsHold
  BY <1>1 DEF CreatedOnce, RequestFollowsHold, Creating, Asking, Paying, Paid, Answered, Idle
<1>4. HoldFollowsStripe /\ OpenIsPaying /\ OneSettled
  BY <1>2 DEF HoldFollowsStripe, OpenIsPaying, OneSettled, Settled, Kept
<1>5. BoughtIsPaid
  BY DEF Init, BoughtIsPaid
<1> QED BY <1>3, <1>4, <1>5 DEF PurchaseFacts

LEMMA PurchaseStep == CalmInv /\ PurchaseInv /\ [Next]_vars => PurchaseInv'
<1> SUFFICES ASSUME CalmInv, PurchaseInv, [Next]_vars, Once' PROVE PurchaseFacts'
  BY DEF PurchaseInv, PurchaseFacts
<1>1. Calm' /\ PurchaseFacts /\ TypeInv
      /\ ZincInv /\ BuyerFacts /\ KeptIsAccountedFor /\ RefundIsMade
  BY FaultsGrow DEF CalmInv, BuyerInv, BuyerFacts, MoneyInv, Calm, Once, PurchaseInv, PurchaseFacts
<1>2. ASSUME NEW r \in Requests, Acts(r) PROVE PurchaseFacts'
  <2>1. Around(r)
    BY <1>1, <1>2 DEF Around
  <2>2. CreatedOnce /\ HoldFollowsStripe /\ RequestFollowsHold
    BY <1>1 DEF PurchaseFacts
  <2>3. CreatedOnce'
    <3>1. UncreatedIsAbsent /\ "rearm" \notin faults'
      BY <2>2 DEF HoldFollowsStripe, UncreatedIsAbsent, Once
    <3> QED BY <1>1, <1>2, <2>2, <3>1, CreatedOnceStep
  <2> QED BY <1>1, <2>1, <2>2, <2>3, HoldFollowsStep, RequestFollowsStep, OpenStep, OneSettledStep,
             BoughtStep DEF PurchaseFacts
<1>3. CASE Elsewhere \/ UNCHANGED vars
  BY <1>1, <1>3, RestStep
<1>4. ~Restart
  BY DEF Restart, Blame, Once
<1> QED BY <1>2, <1>3, <1>4 DEF Next, Acts, Begins, Elsewhere

\* A purchase the service remembers was paid for once, with what it says, and not
\* given back: without a restart, an overlap, a lost answer or a hold armed
\* again, the other holds of the instruction gave their money back or are about to.
THEOREM PurchasesArePaid == Spec => []PurchaseIsPaid
<1>1. CalmInv /\ PurchaseInv => PurchaseIsPaid
  <2> SUFFICES ASSUME TypeInv, PurchaseFacts, NEW i \in Instructions, purchases[i] # None
               PROVE  \E h \in {i} \X Attempts :
                         /\ intents[h].state = "captured" /\ ~intents[h].refunded
                         /\ intents[h].received = purchases[i]
                         /\ \A g \in ({i} \X Attempts) \ {h} :
                                intents[g].state = "captured" => intents[g].refunded \/ GivingBack(g)
    BY DEF CalmInv, PurchaseInv, PurchaseFacts, Once, PurchaseIsPaid
  <2>1. PICK h \in Holds : /\ h[1] = i /\ holds[h] = "spent"
                           /\ Kept(h) /\ intents[h].received = purchases[i]
    BY DEF PurchaseFacts, BoughtIsPaid
  <2>2. h \in {i} \X Attempts
    BY <2>1 DEF Holds
  <2>3. ~GivingBack(h)
    <3>1. \A r \in Requests : req[r].pc = "refund" => Paying(r)
      BY DEF Paying, Paid
    <3> QED BY <2>1, <3>1 DEF GivingBack, PurchaseFacts, RequestFollowsHold
  <2>4. ASSUME NEW g \in ({i} \X Attempts) \ {h}, intents[g].state = "captured"
        PROVE  intents[g].refunded \/ GivingBack(g)
    <3>1. g \in Holds /\ g[1] = h[1]
      BY <2>1, <2>4 DEF Holds
    <3> QED BY <2>1, <2>3, <2>4, <3>1 DEF PurchaseFacts, OneSettled, Settled, Kept
  <2> QED BY <2>1, <2>2, <2>4 DEF Kept
<1>2. CalmInv /\ PurchaseInv /\ [Next]_vars => PurchaseInv'
  BY PurchaseStep
<1> QED BY <1>1, <1>2, PurchaseInit, CalmInvariant, PTL DEF Spec

-----------------------------------------------------------------------------
(* An order stands on money: what a refund leaves behind *)

\* Every hold created once, and one request at a time to buy.
Fresh == faults \cap {"rearm", "overlap"} = {}

RefundedIsCaptured == \A h \in Holds : intents[h].refunded => intents[h].state = "captured"

CreatingIsNew == \A r \in Requests, h \in Holds : Creating(r, h) => ~intents[h].refunded

\* The hold goes with its money, or is about to.
Closed(h) == holds[h] # "committed"

GivenBackIsClosed ==
    \A h \in Holds : intents[h].refunded =>
        Closed(h) \/ \E r \in Requests : req[r].hold = h /\ req[r].pc = "refund"

ReturningIsClosed == \A r \in Requests : req[r].pc = "return" => Closed(req[r].hold)

\* A request that still buys, with money nobody gives back.
WorksOnMoney ==
    \A r \in Requests : Working(r) /\ req[r].pc # "refund" =>
        /\ ~intents[req[r].hold].refunded
        /\ \A q \in Requests : req[q].pc = "return" => req[q].hold # req[r].hold

FreshFacts ==
    /\ CreatedOnce /\ UncreatedIsAbsent /\ RefundedIsCaptured /\ CreatingIsNew
    /\ GivenBackIsClosed /\ ReturningIsClosed /\ WorksOnMoney

FreshInv == Fresh => FreshFacts

NearMoney(r) ==
    TypeInv /\ ZincInv /\ BuyerFacts /\ FreshFacts /\ [Next]_vars /\ Acts(r) /\ Fresh'

\* Money is given back by a request that was paid.
LEMMA Refunding ==
    ASSUME TypeInv, ZincInv, NEW q \in Requests, StripeRefund(q)
    PROVE  /\ req[q].hold \in Holds /\ req[q].pc \in {"refund", "return"}
           /\ intents[req[q].hold].state = "captured"
           /\ UNCHANGED <<maps, shipments>>
           /\ req'[q].pc = req[q].pc /\ req'[q].hold = req[q].hold
<1>1. req[q].pc \in {"refund", "return"} /\ Paid(q)
  BY DEF StripeRefund, Called, Paid
<1>2. req[q].hold \in Holds /\ req[q].offer.total \in Totals
  BY <1>1, Carries DEF Orders
<1>3. intents[req[q].hold].state = "captured"
  BY <1>1, <1>2 DEF ZincInv, PaidIsCaptured, CaptureStands
<1> QED BY <1>1, <1>2, <1>3, Effects DEF StripeRefund, Keeps

LEMMA RefundedIsCapturedStep ==
    ASSUME TypeInv, ZincInv, RefundedIsCaptured, [Next]_vars
    PROVE  RefundedIsCaptured'
<1>1. \A h \in Holds : intents[h].state = "captured" => intents'[h].state = "captured"
  BY StripeStep DEF ZincInv, StripeStands
<1> QED BY <1>1, IntentMoves, Refunding DEF RefundedIsCaptured

\* A request that gives back before its order gives up the hold next.
LEMMA Refunded ==
    ASSUME TypeInv, CreatedOnce, NEW r \in Requests, Acts(r), req[r].pc = "refund"
    PROVE  \/ req'[r].pc = "refund" /\ req'[r].hold = req[r].hold
           \/ Ended(r) /\ holds'[req[r].hold] = "released"
<1>1. CASE Outside(r)
  <2>1. PICK a : Answer(r, a)
    BY <1>1 DEF Outside, StripeCreate, StripeCapture, StripeRefund, StripeCancel, MarketCheckout, ZincPlace
  <2> QED BY <2>1, Effects DEF Keeps
<1>2. CASE OnRefunded(r)
  <2>1. ~req[r].stale /\ req[r].hold \in Holds
    BY Carries DEF CreatedOnce
  <2> QED BY <1>2, <2>1, Effects, Unfolded DEF OnRefunded, SetHold
<1> QED BY <1>1, <1>2 DEF Acts, Step, Begins, Commit, Release, Checkout, OnCreated, OnCreateRefused, OnMarket,
        OnCapture, OnPlaced, OnSettled, WaitTimesOut, WaitEnds, PollFails, OnReturned, OnCanceled, Answered

LEMMA CreatingStep ==
    ASSUME NEW r \in Requests, NearMoney(r)
    PROVE  CreatingIsNew'
<1>0. TypeInv /\ ZincInv /\ [Next]_vars /\ Acts(r) /\ CreatedOnce /\ "rearm" \notin faults'
  BY DEF NearMoney, FreshFacts, Fresh
<1> SUFFICES ASSUME NEW q \in Requests, NEW h \in Holds, Creating(q, h)', intents'[h].refunded PROVE FALSE
  BY DEF CreatingIsNew
<1>1. CASE q = r
  <2>1. intents[h].state = "none"
    BY <1>0, <1>1, NewCreation
  <2>2. ~intents[h].refunded
    BY <2>1 DEF NearMoney, FreshFacts, RefundedIsCaptured
  <2> QED BY <1>0, <2>1, <2>2, IntentMoves, Refunding
<1>2. CASE q # r
  <2>1. Creating(q, h)
    BY <1>0, <1>2, OthersLike DEF Like, Creating
  <2>2. ~intents[h].refunded /\ holds[h] = "absent"
    BY <2>1 DEF NearMoney, FreshFacts, CreatingIsNew, CreatedOnce
  <2>3. PICK p \in Requests : StripeRefund(p) /\ req[p].hold = h
    BY <1>0, <2>2, IntentMoves
  <2> QED BY <1>0, <2>2, <2>3, Refunding DEF CreatedOnce
<1> QED BY <1>1, <1>2

LEMMA GivenBackStep ==
    ASSUME NEW r \in Requests, NearMoney(r)
    PROVE  GivenBackIsClosed'
<1>0. TypeInv /\ ZincInv /\ [Next]_vars /\ Acts(r) /\ CreatedOnce
  BY DEF NearMoney, FreshFacts
<1> SUFFICES ASSUME NEW h \in Holds, intents'[h].refunded
             PROVE  Closed(h)' \/ \E q \in Requests : req'[q].hold = h /\ req'[q].pc = "refund"
  BY DEF GivenBackIsClosed
<1>1. CASE intents[h].refunded /\ Closed(h)
  <2>1. ~Created(r, h)
    BY <1>1 DEF Created, NearMoney, FreshFacts, CreatingIsNew
  <2> QED BY <1>0, <1>1, <2>1, EntryMoves DEF Closed, Marks
<1>2. ASSUME NEW q \in Requests, req[q].hold = h, req[q].pc = "refund"
      PROVE  Closed(h)' \/ \E p \in Requests : req'[p].hold = h /\ req'[p].pc = "refund"
  <2>1. CASE q = r
    BY <1>0, <1>2, <2>1, Refunded DEF Closed
  <2>2. CASE q # r
    BY <1>0, <1>2, <2>2, OthersLike DEF Like
  <2> QED BY <2>1, <2>2
<1>3. ASSUME NEW q \in Requests, StripeRefund(q), req[q].hold = h
      PROVE  Closed(h)' \/ \E p \in Requests : req'[p].hold = h /\ req'[p].pc = "refund"
  <2>1. CASE req[q].pc = "return"
    <3>1. Closed(h) /\ UNCHANGED holds
      BY <1>0, <1>3, <2>1, Refunding DEF NearMoney, FreshFacts, ReturningIsClosed, maps
    <3> QED BY <3>1 DEF Closed
  <2> QED BY <1>0, <1>2, <1>3, <2>1, Refunding
<1> QED BY <1>0, <1>1, <1>2, <1>3, IntentMoves DEF NearMoney, FreshFacts, GivenBackIsClosed

LEMMA ReturningStep ==
    ASSUME NEW r \in Requests, NearMoney(r)
    PROVE  ReturningIsClosed'
<1>0. TypeInv /\ [Next]_vars /\ Acts(r) /\ CreatedOnce
  BY DEF NearMoney, FreshFacts
<1> SUFFICES ASSUME NEW q \in Requests, req'[q].pc = "return" PROVE holds'[req'[q].hold] # "committed"
  BY DEF ReturningIsClosed, Closed
<1>1. CASE req[q].pc = "return" /\ req'[q].hold = req[q].hold
  <2>1. PICK h \in Holds : h = req[q].hold
    BY <1>0, <1>1, Carries
  <2>2. holds[h] # "committed" /\ holds[h] # "absent"
    BY <1>1, <2>1 DEF NearMoney, FreshFacts, ReturningIsClosed, Closed, CreatedOnce
  <2> QED BY <1>0, <1>1, <2>1, <2>2, EntryMoves DEF Created, Marks
<1>2. CASE q = r /\ req[q].pc = "wait" /\ Closes(q) /\ req'[q].hold = req[q].hold
  <2>1. SetHold(q, "released")
    BY <1>2 DEF Closes, Ended
  <2>2. ~req[q].stale /\ req[q].hold \in Holds
    BY <1>0, <1>2, Carries DEF CreatedOnce
  <2> QED BY <1>0, <1>2, <2>1, <2>2, Unfolded DEF SetHold
<1>3. CASE q # r
  BY <1>0, <1>1, <1>3, OthersLike DEF Like
<1> QED BY <1>0, <1>1, <1>2, <1>3, ReturningMoves

\* A checkout finds a committed hold: nobody has given it back, nor will.
LEMMA CheckoutOnMoney ==
    ASSUME NEW r \in Requests, NearMoney(r), NEW i \in Instructions, NEW o \in Offers, Checkout(r, i, o),
           NEW h, h = <<i, latest[i]>>
    PROVE  /\ h \in Holds /\ req'[r].hold = h
           /\ ~intents'[h].refunded
           /\ \A q \in Requests : req'[q].pc = "return" => req'[q].hold # h
<1>0. TypeInv /\ Acts(r) /\ "overlap" \notin faults' /\ BuyerFacts
  BY DEF NearMoney, Fresh
<1>1. h \in Holds /\ h[1] = i /\ holds[h] = "committed" /\ UNCHANGED intents
  BY <1>0, Unfolded DEF Checkout, CanBuy, Holds, stripe
<1>2. /\ req'[r].hold = h /\ req'[r].pc # "return"
      /\ \A q \in Requests \ {r} : req'[q].pc = req[q].pc /\ req'[q].hold = req[q].hold
  BY <1>0, BeginEffects DEF Same, FirstCall
<1>3. ~intents[h].refunded
  <2> SUFFICES ASSUME NEW p \in Requests, req[p].hold = h, req[p].pc = "refund" PROVE FALSE
    BY <1>1 DEF NearMoney, FreshFacts, GivenBackIsClosed, Closed
  <2>1. WorkingOn(p, i)
    BY <1>0, <1>1, Carries DEF WorkingOn, Working, Orders
  <2> QED BY <1>0, <2>1, CheckoutBuyers
<1> QED BY <1>1, <1>2, <1>3 DEF NearMoney, FreshFacts, ReturningIsClosed, Closed

LEMMA WorksStep ==
    ASSUME NEW r \in Requests, NearMoney(r)
    PROVE  WorksOnMoney'
<1>0. TypeInv /\ ZincInv /\ [Next]_vars /\ Acts(r) /\ CreatedOnce /\ OneBuyer /\ WorksOnMoney
  BY DEF NearMoney, FreshFacts, BuyerFacts
<1> SUFFICES ASSUME NEW q \in Requests, Working(q)', req'[q].pc # "refund"
             PROVE  /\ ~intents'[req'[q].hold].refunded
                    /\ \A p \in Requests : req'[p].pc = "return" => req'[p].hold # req'[q].hold
  BY DEF WorksOnMoney
<1>1. CASE Working(q) /\ req'[q].hold = req[q].hold /\ req[q].pc # "refund"
  <2>1. PICK h \in Holds : h = req[q].hold /\ h[1] \in Instructions
    BY <1>0, <1>1, WorkingCarries
  <2>2. ~intents[h].refunded /\ \A p \in Requests : req[p].pc = "return" => req[p].hold # h
    BY <1>0, <1>1, <2>1 DEF WorksOnMoney
  <2>3. \A p \in Requests : Working(p) /\ req[p].hold = h => p = q
    BY <1>0, <1>1, <2>1 DEF OneBuyer, WorkingOn
  <2>4. ~intents'[h].refunded
    <3> SUFFICES ASSUME NEW p \in Requests, StripeRefund(p), req[p].hold = h PROVE FALSE
      BY <1>0, <2>2, IntentMoves
    <3>1. req[p].pc = "refund"
      BY <1>0, <2>2, Refunding
    <3>2. Working(p)
      BY <1>0, <3>1, Carries DEF Working, Orders
    <3> QED BY <1>1, <2>3, <3>1, <3>2
  <2>5. ASSUME NEW p \in Requests, req'[p].pc = "return", req'[p].hold = h PROVE FALSE
    <3>1. CASE p # r
      BY <1>0, <2>2, <2>5, <3>1, OthersLike DEF Like
    <3>2. CASE p = r
      <4>1. req[p].hold = h /\ req[p].pc = "wait" /\ Closes(p)
        BY <1>0, <2>2, <2>5, <3>2, ReturningMoves
      <4>2. Working(p) /\ ~Working(p)'
        BY <1>0, <4>1, Carries DEF Closes, Working, Orders
      <4> QED BY <2>3, <4>1, <4>2
    <3> QED BY <3>1, <3>2
  <2> QED BY <1>1, <2>1, <2>4, <2>5
<1>2. CASE q # r
  BY <1>0, <1>1, <1>2, OthersLike DEF Like, Working
<1>3. CASE q = r
  <2>1. CASE \E i \in Instructions, o \in Offers : Checkout(r, i, o)
    BY <1>3, <2>1, CheckoutOnMoney
  <2>2. CASE Working(r) /\ req'[r].hold = req[r].hold
    <3>1. req[r].pc # "refund"
      BY <1>0, <1>3, <2>2, Refunded DEF Ended, Working
    <3> QED BY <1>1, <1>3, <2>2, <3>1
  <2> QED BY <1>0, <1>3, <2>1, <2>2, WorkingStep DEF Acts
<1> QED BY <1>2, <1>3

LEMMA FreshStep == TypeInv /\ ZincInv /\ BuyerInv /\ FreshInv /\ [Next]_vars => FreshInv'
<1> SUFFICES ASSUME TypeInv, ZincInv, BuyerInv, FreshInv, [Next]_vars, Fresh' PROVE FreshFacts'
  BY DEF FreshInv
<1>1. BuyerFacts /\ FreshFacts /\ RefundedIsCaptured'
  BY FaultsGrow, RefundedIsCapturedStep DEF BuyerInv, BuyerFacts, FreshInv, FreshFacts, Fresh
<1>2. ASSUME NEW r \in Requests, Acts(r) PROVE FreshFacts'
  <2>1. NearMoney(r) /\ CreatedOnce /\ UncreatedIsAbsent /\ "rearm" \notin faults'
    BY <1>1, <1>2 DEF NearMoney, FreshFacts, Fresh
  <2>2. CreatedOnce' /\ UncreatedIsAbsent'
    BY <1>2, <2>1, CreatedOnceStep
  <2> QED BY <1>1, <2>1, <2>2, CreatingStep, GivenBackStep, ReturningStep, WorksStep DEF FreshFacts
<1>3. CASE Elsewhere \/ UNCHANGED vars
  <2>1. UNCHANGED <<holds, req>>
    BY <1>3, RestEffects DEF maps
  <2>2. \A h \in Holds : /\ intents'[h].state = "none" => intents[h].state = "none"
                         /\ intents[h].state # "none" => intents'[h].state # "none"
                         /\ intents'[h].refunded = intents[h].refunded
    BY <1>3, Confirmed
  <2>3. \A q \in Requests : Working(q) => req[q].hold \in Holds
    BY WorkingCarries
  <2>4. CreatedOnce' /\ UncreatedIsAbsent' /\ CreatingIsNew'
    BY <1>1, <2>1, <2>2 DEF FreshFacts, CreatedOnce, UncreatedIsAbsent, CreatingIsNew, Creating
  <2>5. GivenBackIsClosed' /\ ReturningIsClosed'
    BY <1>1, <2>1, <2>2 DEF FreshFacts, GivenBackIsClosed, ReturningIsClosed, Closed
  <2>6. WorksOnMoney'
    BY <1>1, <2>1, <2>2, <2>3 DEF FreshFacts, WorksOnMoney, Working
  <2> QED BY <1>1, <2>4, <2>5, <2>6 DEF FreshFacts
<1>4. CASE Restart
  <2>1. /\ \A q \in Requests : req'[q] = Idle
        /\ \A h \in Holds : holds'[h] = "absent"
    BY <1>4 DEF Restart
  <2>2. CreatedOnce' /\ UncreatedIsAbsent' /\ CreatingIsNew'
    BY <2>1 DEF CreatedOnce, UncreatedIsAbsent, CreatingIsNew, Creating, Idle
  <2>3. GivenBackIsClosed' /\ ReturningIsClosed' /\ WorksOnMoney'
    BY <2>1 DEF GivenBackIsClosed, ReturningIsClosed, WorksOnMoney, Closed, Working, Idle
  <2> QED BY <1>1, <2>2, <2>3 DEF FreshFacts
<1> QED BY <1>2, <1>3, <1>4 DEF Next, Acts, Begins, Elsewhere

-----------------------------------------------------------------------------
(* The order that lives keeps its money *)

\* No answer lost either.
Heard == faults \subseteq {"restart", "unpaid"}

Alive(h) == \E t \in Totals : shipments[h][t] \in {"processing", "placed"}

\* Gives the money back, or is told to.
ToGiveBack(r) == req[r].pc \in {"refund", "return"} \/ Answered(r, "place", "refused")

GivenBackIsNotAlive ==
    /\ \A h \in Holds : intents[h].refunded => ~Alive(h)
    /\ \A r \in Requests : ToGiveBack(r) => ~Alive(req[r].hold)

AliveInv == Heard => GivenBackIsNotAlive

\* Only an order that is placed makes one that lives.
LEMMA AliveMoves ==
    ASSUME TypeInv, [Next]_vars, NEW h \in Holds, Alive(h)'
    PROVE  Alive(h) \/ \E p \in Requests : ZincPlace(p) /\ req[p].hold = h
<1>1. ASSUME UNCHANGED shipments PROVE Alive(h)
  BY <1>1 DEF Alive
<1>2. ASSUME NEW g \in Holds, NEW u \in Totals, NEW s, g # h, shipments' = [shipments EXCEPT ![g][u] = s]
      PROVE  Alive(h)
  <2>1. shipments'[h] = shipments[h]
    BY <1>2, Unfolded
  <2> QED BY <2>1 DEF Alive
<1>3. ASSUME NEW p \in Requests, ZincPlace(p), req[p].hold # h PROVE Alive(h)
  <2>1. req[p].hold \in Holds /\ req[p].offer.total \in Totals
    BY <1>3, Carries DEF ZincPlace, Called, Orders
  <2>2. \/ UNCHANGED shipments
        \/ shipments' = [shipments EXCEPT ![req[p].hold][req[p].offer.total] = "processing"]
    BY <1>3 DEF ZincPlace
  <2>3. CASE shipments' = [shipments EXCEPT ![req[p].hold][req[p].offer.total] = "processing"]
    BY <1>2, <1>3, <2>1, <2>3
  <2> QED BY <1>1, <2>2, <2>3
<1>4. ASSUME NEW g \in Holds, NEW u \in Totals, ZincSettles(g, u) PROVE Alive(h)
  <2>1. CASE g = h
    BY <1>4, <2>1 DEF ZincSettles, Alive
  <2> QED BY <1>2, <1>4, <2>1 DEF ZincSettles
<1>5. CASE (\E p \in Requests : Step(p) \/ Begins(p)) \/ Restart \/ UNCHANGED vars
           \/ \E g \in Holds : CustomerConfirms(g)
  <2>1. UNCHANGED shipments
    BY <1>5 DEF Step, OnCreated, OnCreateRefused, OnMarket, OnCapture, OnPlaced, OnSettled, WaitTimesOut,
       WaitEnds, PollFails, OnRefunded, OnReturned, OnCanceled, Begins, Commit, Release, Checkout, Restart,
       vars, CustomerConfirms
  <2> QED BY <1>1, <2>1
<1>6. ASSUME NEW p \in Requests, Outside(p), ~ZincPlace(p) PROVE Alive(h)
  <2>1. UNCHANGED shipments
    BY <1>6 DEF Outside, StripeCreate, StripeCapture, StripeRefund, StripeCancel, MarketCheckout
  <2> QED BY <1>1, <2>1
<1> QED BY <1>3, <1>4, <1>5, <1>6 DEF Next, Begins

\* Of a hold that was captured, one total was taken, and at most its order is there.
LEMMA OneShipment ==
    ASSUME TypeInv, ZincInv, NEW q \in Requests, Paid(q),
           Shipment(q) \notin {"processing", "placed"}
    PROVE  ~Alive(req[q].hold)
<1>1. req[q].hold \in Holds /\ req[q].offer.total \in Totals
  BY Carries DEF Paid, Answered, Orders
<1>2. intents[req[q].hold].received = req[q].offer.total
  BY <1>1 DEF ZincInv, PaidIsCaptured, CaptureStands
<1>3. ASSUME NEW u \in Totals, shipments[req[q].hold][u] # "none" PROVE u = req[q].offer.total
  BY <1>1, <1>2, <1>3 DEF ZincInv, ShippedIsCaptured, CaptureStands
<1> QED BY <1>3 DEF Alive, Shipment

\* How a request comes to give back: it was to, or its order is none or failed.
LEMMA GivingMoves ==
    ASSUME TypeInv, ZincInv, NEW r \in Requests, Acts(r), "lost" \notin faults', ToGiveBack(r)'
    PROVE  /\ req'[r].hold = req[r].hold /\ req[r].hold \in Holds
           /\ ToGiveBack(r) \/ (~Alive(req[r].hold) /\ UNCHANGED shipments)
<1>1. Moves(r) /\ req[r].pc # "idle"
  <2>1. Moves(r)
    BY Moving, BeginEffects DEF ToGiveBack, Answered, Ended, Begins, FirstCall
  <2> QED BY <2>1 DEF Moves, ToGiveBack, Answered, Outside, StripeCreate, StripeCapture, StripeRefund,
          StripeCancel, MarketCheckout, ZincPlace, Called
<1>2. req'[r].hold = req[r].hold /\ req[r].hold \in Holds
  BY <1>1, Carries DEF Moves
<1>3. CASE ZincPlace(r)
  <2>1. ~Answer(r, "ok") /\ ~Blame("lost")
    BY <1>3, Effects DEF ToGiveBack, Answered, ZincPlace, Called, Blame
  <2>2. Shipment(r) = "none" /\ UNCHANGED shipments /\ Paid(r)
    BY <1>3, <2>1 DEF ZincPlace, Shipment, Paid, Called
  <2> QED BY <1>2, <2>2, OneShipment
<1>4. CASE req[r].pc = "wait" /\ req'[r].pc = "return" /\ Closes(r)
  <2>1. Shipment(r) = "failed" /\ UNCHANGED shipments /\ Paid(r)
    BY <1>4 DEF Closes, Ended
  <2> QED BY <1>2, <2>1, OneShipment
<1>5. CASE Outside(r) /\ req'[r].pc = req[r].pc /\ ~ZincPlace(r)
  <2>1. req[r].pc # "place"
    BY <1>5 DEF Outside, StripeCreate, StripeCapture, StripeRefund, StripeCancel, MarketCheckout, Called
  <2> QED BY <1>2, <1>5, <2>1 DEF ToGiveBack, Answered
<1> QED BY <1>1, <1>2, <1>3, <1>4, <1>5 DEF Moves, ToGiveBack, Answered

\* Who places an order has money nobody gives back.
LEMMA PlacesOnMoney ==
    ASSUME TypeInv, OneBuyer, WorksOnMoney, NEW p \in Requests, ZincPlace(p)
    PROVE  /\ req[p].hold \in Holds /\ ~intents[req[p].hold].refunded
           /\ \A q \in Requests : ToGiveBack(q) => req[q].hold # req[p].hold
<1>1. req[p].pc = "place" /\ req[p].answer = "none"
  BY DEF ZincPlace, Called
<1>2. Working(p) /\ req[p].hold \in Holds
  BY <1>1, Carries DEF Working, Orders
<1>3. ASSUME NEW q \in Requests, ToGiveBack(q), req[q].hold = req[p].hold PROVE FALSE
  <2>1. req[q].pc # "return"
    BY <1>1, <1>2, <1>3 DEF WorksOnMoney
  <2>2. Working(q)
    BY <1>3, <2>1, Carries DEF ToGiveBack, Answered, Working, Orders
  <2>3. q = p
    BY <1>2, <1>3, <2>2 DEF OneBuyer, WorkingOn
  <2> QED BY <1>1, <1>3, <2>1, <2>3 DEF ToGiveBack, Answered
<1> QED BY <1>1, <1>2, <1>3 DEF WorksOnMoney

LEMMA AliveStep == TypeInv /\ ZincInv /\ BuyerInv /\ FreshInv /\ AliveInv /\ [Next]_vars => AliveInv'
<1> SUFFICES ASSUME TypeInv, ZincInv, BuyerInv, FreshInv, AliveInv, [Next]_vars, Heard'
             PROVE  GivenBackIsNotAlive'
  BY DEF AliveInv
<1>1. OneBuyer /\ WorksOnMoney /\ GivenBackIsNotAlive /\ "lost" \notin faults'
  BY FaultsGrow DEF BuyerInv, FreshInv, FreshFacts, Fresh, Heard, AliveInv
<1>2. ASSUME NEW h \in Holds, ~Alive(h),
             intents[h].refunded \/ \E q \in Requests : ToGiveBack(q) /\ req[q].hold = h
      PROVE  ~Alive(h)'
  BY <1>1, <1>2, AliveMoves, PlacesOnMoney
<1>3. ASSUME NEW h \in Holds, intents'[h].refunded PROVE ~Alive(h)'
  <2>1. intents[h].refunded \/ \E q \in Requests : StripeRefund(q) /\ req[q].hold = h
    BY <1>3, IntentMoves
  <2> QED BY <1>1, <1>2, <2>1, Refunding DEF GivenBackIsNotAlive, ToGiveBack
<1>4. ASSUME NEW q \in Requests, ToGiveBack(q)', NEW h, h = req'[q].hold PROVE ~Alive(h)'
  <2>1. CASE h \in Holds /\ h = req[q].hold /\ ToGiveBack(q)
    BY <1>1, <1>2, <2>1 DEF GivenBackIsNotAlive
  <2>2. ASSUME NEW r \in Requests, Acts(r) PROVE ~Alive(h)'
    <3>1. CASE q = r
      <4>1. CASE ~Alive(h) /\ UNCHANGED shipments
        BY <4>1 DEF Alive
      <4> QED BY <1>1, <1>4, <2>1, <2>2, <3>1, <4>1, GivingMoves
    <3>2. CASE q # r
      <4>1. h = req[q].hold /\ ToGiveBack(q)
        BY <1>4, <2>2, <3>2, OthersLike DEF Like, ToGiveBack, Answered
      <4> QED BY <2>1, <4>1, Carries DEF ToGiveBack, Answered
    <3> QED BY <3>1, <3>2
  <2>3. CASE Elsewhere \/ UNCHANGED vars
    <3>1. h = req[q].hold /\ ToGiveBack(q)
      BY <1>4, <2>3, RestEffects DEF ToGiveBack, Answered
    <3> QED BY <2>1, <3>1, Carries DEF ToGiveBack, Answered
  <2>4. ~Restart
    BY <1>4 DEF Restart, ToGiveBack, Answered, Idle
  <2> QED BY <2>2, <2>3, <2>4 DEF Next, Acts, Begins, Elsewhere
<1> QED BY <1>3, <1>4 DEF GivenBackIsNotAlive, Alive

MoneyFirst == CalmInv /\ FreshInv /\ AliveInv

LEMMA FreshInit == Init => FreshInv /\ AliveInv
<1> SUFFICES ASSUME Init PROVE FreshFacts /\ GivenBackIsNotAlive
  BY DEF FreshInv, AliveInv
<1>1. \A r \in Requests : req[r] = Idle
  BY DEF Init
<1>2. \A h \in Holds : ~intents[h].refunded /\ holds[h] = "absent"
  BY DEF Init, NoIntent
<1>3. CreatedOnce /\ UncreatedIsAbsent /\ RefundedIsCaptured /\ CreatingIsNew
  BY <1>1, <1>2 DEF CreatedOnce, UncreatedIsAbsent, RefundedIsCaptured, CreatingIsNew, Creating, Idle
<1>4. GivenBackIsClosed /\ ReturningIsClosed /\ WorksOnMoney
  BY <1>1, <1>2 DEF GivenBackIsClosed, ReturningIsClosed, WorksOnMoney, Working, Idle
<1>5. GivenBackIsNotAlive
  BY <1>1, <1>2 DEF GivenBackIsNotAlive, ToGiveBack, Answered, Idle
<1> QED BY <1>3, <1>4, <1>5 DEF FreshFacts

\* An order at Zinc stands on a capture of its very total, within the hold,
\* whatever is lost, overlaps or restarts; none is placed on money given back,
\* unless a hold is armed again or requests overlap; and the money of an order
\* that lives is not given back while every answer arrives as well.
THEOREM ShippedOrdersArePaid == Spec => []ZincAfterCapture
<1>1. ASSUME MoneyFirst PROVE ZincAfterCapture
  <2>1. ASSUME NEW h \in Holds, NEW t \in Totals, shipments[h][t] # "none"
        PROVE  intents[h].state = "captured" /\ intents[h].received = t /\ t <= Ceiling
    BY <1>1, <2>1 DEF MoneyFirst, CalmInv, ZincInv, ShippedIsCaptured, CaptureStands
  <2>2. ASSUME Fresh, NEW r \in Requests, Called(r, "place") PROVE ~intents[req[r].hold].refunded
    <3>1. Working(r)
      BY <1>1, <2>2, Carries DEF MoneyFirst, CalmInv, Called, Working, Orders
    <3> QED BY <1>1, <2>2, <3>1 DEF MoneyFirst, FreshInv, FreshFacts, WorksOnMoney, Called
  <2>3. ASSUME Heard, NEW h \in Holds, NEW t \in Totals, shipments[h][t] \in {"processing", "placed"}
        PROVE  ~intents[h].refunded
    BY <1>1, <2>3 DEF MoneyFirst, AliveInv, GivenBackIsNotAlive, Alive
  <2> QED BY <2>1, <2>2, <2>3 DEF ZincAfterCapture, Fresh, Heard
<1>2. CalmInv /\ FreshInv /\ AliveInv /\ [Next]_vars => FreshInv' /\ AliveInv'
  BY FreshStep, AliveStep DEF CalmInv
<1>3. MoneyFirst => ZincAfterCapture
  BY <1>1
<1> QED BY <1>2, <1>3, FreshInit, CalmInvariant, PTL DEF Spec, MoneyFirst

=============================================================================
