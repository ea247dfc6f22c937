---------------------------- MODULE MoneyProofs ----------------------------
(***************************************************************************)
(* Theorems about Money, for any number of instructions, attempts, offers  *)
(* and requests: its types, and each of its promises under the faults the  *)
(* promise names.                                                          *)
(*                                                                         *)
(* They rest on a fact the code never writes down: as long as no two       *)
(* requests overlap, one request at a time works on an instruction, and    *)
(* the entry in pending stands in for one that stopped waiting.            *)
(***************************************************************************)
EXTENDS Money, FiniteSetTheorems, TLAPS

Locals == [pc : PCs, hold : Holds \cup {None}, offer : Offers \cup {None}, answer : Answers,
           stale : BOOLEAN, told : BOOLEAN]

IntentRecords ==
    [state : {"none", "requires_action", "requires_capture", "captured", "canceled"},
     received : Totals \cup {0}, refunded : BOOLEAN,
     created : {"none", "requires_action", "requires_capture"}]

Orders == {"market", "capture", "place", "wait", "refund", "return"}

\* A request has a hold, and an offer if it came to buy; beyond the capture the
\* offer is Zinc's, and only a wait, and the return after it, outlast the answer.
Fitting ==
    {x \in Locals :
        /\ x.pc # "idle" => x.hold \in Holds
        /\ x.offer # None <=> x.pc \in Orders
        /\ x.pc = "market" => x.offer.merchant = "market"
        /\ x.pc \in {"place", "wait", "refund", "return"} => x.offer.merchant = "zinc"
        /\ x.told => x.pc \in {"wait", "return"}}

TypeInv == TypeOK /\ req \in [Requests -> Fitting]

-----------------------------------------------------------------------------
(* The invariants *)

\* Zinc, under every fault: a capture that is known to have gone well is the
\* one that was made, and whoever talks to Zinc has such a capture.
Captured(h, t) == captures[h][t] = "ok"

CaptureStands ==
    \A h \in Holds, t \in Totals :
        Captured(h, t) => intents[h].state = "captured" /\ intents[h].received = t /\ t <= Ceiling

\* From its capture on.
Paid(r) ==
    \/ req[r].pc \in {"place", "wait", "refund", "return"}
    \/ Answered(r, "capture", "ok")

PaidIsCaptured == \A r \in Requests : Paid(r) => Captured(req[r].hold, req[r].offer.total)

ShippedIsCaptured == \A h \in Holds, t \in Totals : shipments[h][t] # "none" => Captured(h, t)

ZincInv == CaptureStands /\ PaidIsCaptured /\ ShippedIsCaptured

\* One request at a time, without an overlap.  A settled order that failed only
\* awaits its refund, and no longer holds the instruction up.
Working(r) == req[r].offer # None /\ req[r].pc # "return"
WorkingOn(r, i) == Working(r) /\ req[r].hold[1] = i

OneBuyer == \A r, q \in Requests : Working(r) /\ WorkingOn(q, req[r].hold[1]) => r = q

PendingIsTold ==
    \A r \in Requests : Working(r) => (req[r].told <=> req[r].hold[1] \in pending)

Unbought == \A r \in Requests : Working(r) => purchases[req[r].hold[1]] = None

BuyerInv == "overlap" \notin faults => OneBuyer /\ PendingIsTold /\ Unbought

\* Nothing lost or forgotten either.
Calm == faults \subseteq {"rearm", "unpaid"}

\* Money captured and kept has a request that answers for it, or a pending order
\* nobody works on, or bought what it says.
Kept(h) == intents[h].state = "captured" /\ ~intents[h].refunded

KeptIsAccountedFor ==
    \A h \in Holds :
        Kept(h) => \/ \E r \in Requests : req[r].hold = h /\ Paid(r)
                   \/ h[1] \in pending /\ \A r \in Requests : ~WorkingOn(r, h[1])
                   \/ purchases[h[1]] = intents[h].received

RefundIsMade ==
    \A r \in Requests :
        req[r].pc \in {"refund", "return"} /\ req[r].answer = "ok" => intents[req[r].hold].refunded

MoneyInv == Calm => KeptIsAccountedFor /\ RefundIsMade

\* The orders of an instruction: none while there is nothing that could stand
\* for one, and never two.
NoOrder(i) == sales[i] = << >> /\ Live(i) = {}
OneOrder(i) ==
    \/ Live(i) = {} /\ Len(sales[i]) <= 1
    \/ sales[i] = << >> /\ \E h \in Holds, t \in Totals : Live(i) \subseteq {<<h, t>>}

\* Sold at the market and not yet paid; ordered at Zinc and not yet settled.
Sold(r) == Answered(r, "market", "ok") \/ (req[r].pc = "capture" /\ req[r].offer.merchant = "market")
Ordered(r) == req[r].pc = "wait" \/ Answered(r, "place", "ok")

IdleHasNoOrder ==
    \A i \in Instructions :
        purchases[i] = None /\ i \notin pending /\ (\A r \in Requests : ~WorkingOn(r, i)) => NoOrder(i)

BuyerKnowsOrders ==
    \A r \in Requests : Working(r) =>
        LET i == req[r].hold[1] IN
        /\ Sold(r) => Live(i) = {}
        /\ Ordered(r) => sales[i] = << >> /\ Live(i) \subseteq {<<req[r].hold, req[r].offer.total>>}
        /\ ~Sold(r) /\ ~Ordered(r) => NoOrder(i)

OrderInv ==
    faults \subseteq {"rearm"} =>
        (\A i \in Instructions : OneOrder(i)) /\ IdleHasNoOrder /\ BuyerKnowsOrders

-----------------------------------------------------------------------------
(* Type correctness *)

LEMMA Unfolded ==
    ASSUME TypeInv
    PROVE  /\ req \in [Requests -> Fitting] /\ req \in [Requests -> Locals]
           /\ \A r \in Requests : req[r] \in Fitting /\ req[r] \in Locals
           /\ holds \in [Holds -> HoldStatuses]
           /\ latest \in [Instructions -> Attempts \cup {None}]
           /\ purchases \in [Instructions -> Totals \cup {None}]
           /\ pending \subseteq Instructions
           /\ intents \in [Holds -> IntentRecords]
           /\ captures \in [Holds -> [Totals -> {"none", "ok", "refused"}]]
           /\ shipments \in [Holds -> [Totals -> {"none", "processing", "placed", "failed"}]]
           /\ sales \in [Instructions -> Seq(Totals)]
           /\ faults \subseteq {"restart", "overlap", "lost", "rearm", "unpaid"}
  BY DEF TypeInv, TypeOK, Locals, IntentRecords

\* What a request beyond idle carries.
LEMMA Carries ==
    ASSUME TypeInv, NEW r \in Requests, req[r].pc # "idle"
    PROVE  /\ req[r].hold \in Holds /\ req[r].hold[1] \in Instructions
           /\ req[r].hold[2] \in Attempts /\ req[r].hold = <<req[r].hold[1], req[r].hold[2]>>
           /\ req[r].pc \in Orders => /\ req[r].offer \in Offers
                                      /\ req[r].offer.total \in Totals
                                      /\ req[r].offer # None
  BY Unfolded DEF Fitting, Locals, Holds, Totals

LEMMA IdleFits == Idle \in Fitting /\ Idle \in Locals
  BY DEF Idle, Fitting, Locals, Orders, PCs, Answers

\* A request that goes on to another call.
LEMMA MoveFits ==
    ASSUME NEW x \in Fitting, NEW pc \in PCs, NEW a \in Answers,
           x.pc \in Orders, pc \in Orders \ {"market"},
           pc \in {"place", "wait", "refund", "return"} => x.offer.merchant = "zinc",
           x.told => pc \in {"wait", "return"}
    PROVE  [x EXCEPT !.pc = pc, !.answer = a] \in Fitting
  BY DEF Fitting, Locals, Orders

LEMMA AnswerFits ==
    ASSUME NEW x \in Fitting, NEW a \in Answers
    PROVE  [x EXCEPT !.answer = a] \in Fitting
  BY DEF Fitting, Locals

LEMMA BecomeTypes ==
    ASSUME TypeInv, NEW r, NEW x \in Fitting, Become(r, x)
    PROVE  req' \in [Requests -> Fitting] /\ req' \in [Requests -> Locals]
  BY Unfolded DEF Become, Fitting

LEMMA BlameTypes ==
    ASSUME TypeInv, NEW f \in {"restart", "overlap", "lost", "rearm", "unpaid"}, Blame(f)
    PROVE  faults' \subseteq {"restart", "overlap", "lost", "rearm", "unpaid"}
  BY Unfolded DEF Blame

LEMMA AwaitTypes ==
    ASSUME TypeInv, NEW r \in Requests, NEW pc \in Orders \ {"market"}, Await(r, pc),
           req[r].pc \in Orders,
           pc = "capture" \/ req[r].offer.merchant = "zinc",
           req[r].pc = "wait" => ~req[r].told \/ pc = "return",
           req[r].pc # "return"
    PROVE  \E x \in Fitting : Become(r, x)
<1>1. req[r].told => pc \in {"wait", "return"}
  BY Unfolded DEF Fitting
<1>2. pc \in {"place", "wait", "refund", "return"} => req[r].offer.merchant = "zinc"
  OBVIOUS
<1>3. pc \in PCs /\ "none" \in Answers
  BY DEF PCs, Orders, Answers
<1>4. [req[r] EXCEPT !.pc = pc, !.answer = "none"] \in Fitting
  BY <1>1, <1>2, <1>3, Unfolded, MoveFits
<1> QED BY <1>4 DEF Await

\* A request that begins.
LEMMA BeginTypes ==
    ASSUME TypeInv, NEW r \in Requests,
           \/ \E h \in Holds : Commit(r, h)
           \/ \E i \in Instructions : Release(r, i) \/ \E o \in Offers : Checkout(r, i, o)
    PROVE  \E x \in Fitting : Become(r, x)
<1>1. ASSUME NEW h \in Holds, Commit(r, h) PROVE \E x \in Fitting : Become(r, x)
  <2>1. [Idle EXCEPT !.pc = "create", !.hold = h] \in Fitting
    BY IdleFits DEF Idle, Fitting, Locals, Orders, PCs
  <2> QED BY <1>1, <2>1 DEF Commit
<1>2. ASSUME NEW i \in Instructions, Release(r, i) PROVE \E x \in Fitting : Become(r, x)
  <2>1. <<i, latest[i]>> \in Holds
    BY <1>2, Unfolded DEF Release, Holds
  <2>2. [Idle EXCEPT !.pc = "cancel", !.hold = <<i, latest[i]>>] \in Fitting
    BY <2>1, IdleFits DEF Idle, Fitting, Locals, Orders, PCs
  <2> QED BY <1>2, <2>2 DEF Release
<1>3. ASSUME NEW i \in Instructions, NEW o \in Offers, Checkout(r, i, o)
      PROVE  \E x \in Fitting : Become(r, x)
  <2>1. <<i, latest[i]>> \in Holds /\ o # None
    BY <1>3, Unfolded, MoneyAssumption DEF Checkout, CanBuy, Holds
  <2>2. [Idle EXCEPT !.pc = FirstCall(o), !.offer = o, !.hold = <<i, latest[i]>>] \in Fitting
    BY <2>1, IdleFits DEF Idle, Fitting, Locals, Orders, PCs, FirstCall
  <2> QED BY <1>3, <2>2 DEF Checkout
<1> QED BY <1>1, <1>2, <1>3

\* A request that is answered, or goes on.
LEMMA GoesOnTypes ==
    ASSUME TypeInv, NEW r \in Requests, Step(r) \/ Outside(r), ~OnCreated(r)
    PROVE  \E x \in Fitting : Become(r, x)
<1> USE DEF PCs, Answers, Orders
<1>1. req[r] \in Fitting
  BY Unfolded
<1>2. ASSUME NEW a \in Answers, Answer(r, a) PROVE \E x \in Fitting : Become(r, x)
  BY <1>1, <1>2, AnswerFits DEF Answer
<1>3. CASE StripeCapture(r)
  <2>1. captures[req[r].hold][req[r].offer.total] \in Answers
    BY <1>3, Carries, Unfolded DEF StripeCapture, Called
  <2> QED BY <1>2, <1>3, <2>1 DEF StripeCapture
<1>4. CASE Outside(r) /\ ~StripeCapture(r)
  BY <1>2, <1>4 DEF Outside, StripeCreate, StripeRefund, StripeCancel, MarketCheckout, ZincPlace
<1>5. CASE Finish(r)
  BY <1>5, IdleFits DEF Finish
<1>6. CASE OnMarket(r)
  BY <1>5, <1>6, AwaitTypes DEF OnMarket, Answered
<1>7. CASE OnCapture(r)
  <2>1. req[r].offer.merchant \in {"market", "zinc"}
    BY <1>7, Carries, MoneyAssumption DEF OnCapture, Answered
  <2> QED BY <1>5, <1>7, <2>1, AwaitTypes DEF OnCapture, Answered
<1>8. CASE OnPlaced(r)
  <2>1. req[r].offer.merchant = "zinc"
    BY <1>1, <1>8 DEF OnPlaced, Answered, Fitting
  <2> QED BY <1>8, <2>1, AwaitTypes DEF OnPlaced, Answered
<1>9. CASE OnSettled(r)
  <2>1. req[r].offer.merchant = "zinc"
    BY <1>1, <1>9 DEF OnSettled, Fitting
  <2> QED BY <1>5, <1>9, <2>1, AwaitTypes DEF OnSettled
<1>10. CASE WaitTimesOut(r)
  <2>1. [req[r] EXCEPT !.told = TRUE] \in Fitting
    BY <1>1, <1>10 DEF WaitTimesOut, Fitting, Locals
  <2> QED BY <1>10, <2>1 DEF WaitTimesOut
<1>11. CASE PollFails(r)
  <2>1. req[r].offer.merchant = "zinc"
    BY <1>1, <1>11 DEF PollFails, Fitting
  <2> QED BY <1>5, <1>11, <2>1, AwaitTypes DEF PollFails
<1> QED BY <1>3, <1>4, <1>5, <1>6, <1>7, <1>8, <1>9, <1>10, <1>11
        DEF Step, OnCreateRefused, WaitEnds, OnRefunded, OnReturned, OnCanceled

\* What the steps write of the maps, and of Stripe, Zinc and the market.
HoldsTyped == holds' \in [Holds -> HoldStatuses]
MapsTyped ==
    /\ HoldsTyped
    /\ latest' \in [Instructions -> Attempts \cup {None}]
    /\ purchases' \in [Instructions -> Totals \cup {None}]
    /\ pending' \subseteq Instructions
IntentsTyped == intents' \in [Holds -> IntentRecords]
OutsideTyped ==
    /\ IntentsTyped
    /\ captures' \in [Holds -> [Totals -> {"none", "ok", "refused"}]]
    /\ shipments' \in [Holds -> [Totals -> {"none", "processing", "placed", "failed"}]]
    /\ sales' \in [Instructions -> Seq(Totals)]
FaultsTyped == faults' \subseteq {"restart", "overlap", "lost", "rearm", "unpaid"}

LEMMA TypesTogether ==
    ASSUME TypeInv, req' \in [Requests -> Fitting], MapsTyped, OutsideTyped, FaultsTyped
    PROVE  TypeInv'
<1>1. req' \in [Requests -> Locals]
  BY DEF Fitting
<1> QED BY <1>1 DEF TypeInv, TypeOK, MapsTyped, HoldsTyped, OutsideTyped, IntentsTyped, IntentRecords, FaultsTyped, Locals

LEMMA MapsRest == ASSUME TypeInv, UNCHANGED maps PROVE MapsTyped
  BY Unfolded DEF maps, MapsTyped, HoldsTyped

LEMMA OutsideRests == ASSUME TypeInv, UNCHANGED <<stripe, shipments, sales>> PROVE OutsideTyped
  BY Unfolded DEF stripe, OutsideTyped, IntentsTyped

LEMMA FaultsTypes ==
    ASSUME TypeInv, UNCHANGED faults \/ (\E f \in {"restart", "overlap", "lost", "rearm", "unpaid"} : Blame(f))
    PROVE  FaultsTyped
  BY Unfolded DEF Blame, FaultsTyped

LEMMA StepMapsTypes ==
    ASSUME TypeInv, ZincInv, NEW r \in Requests, Step(r)
    PROVE  MapsTyped
<1>0. CASE req[r].pc = "idle"
  BY <1>0 DEF Step, OnCreated, OnCreateRefused, OnMarket, OnCapture, OnPlaced, OnSettled, WaitTimesOut,
     WaitEnds, PollFails, OnRefunded, OnReturned, OnCanceled, Answered
<1>1. CASE req[r].pc # "idle"
  <2> USE <1>1
  <2>1. req[r].hold \in Holds /\ req[r].hold[1] \in Instructions /\ req[r].hold[2] \in Attempts
    BY Carries
  <2>2. ASSUME NEW s \in HoldStatuses, SetHold(r, s) PROVE HoldsTyped
    BY <2>1, <2>2, Unfolded DEF SetHold, HoldsTyped
  <2>3. ASSUME Purchased(r), Paid(r) PROVE MapsTyped
    <3>1. HoldsTyped
      BY <2>2, <2>3 DEF Purchased, HoldStatuses
    <3>2. intents[req[r].hold].received \in Totals
      BY <2>1, <2>3, Carries DEF Paid, Answered, Orders, ZincInv, CaptureStands, PaidIsCaptured
    <3> QED BY <2>1, <2>3, <3>1, <3>2, Unfolded DEF Purchased, MapsTyped
  <2>4. CASE OnCreated(r)
    BY <2>1, <2>4, Unfolded DEF OnCreated, MapsTyped, HoldsTyped, HoldStatuses
  <2>5. CASE OnSettled(r)
    BY <2>1, <2>2, <2>3, <2>5, Unfolded DEF OnSettled, MapsTyped, HoldStatuses, Paid
  <2>6. CASE WaitTimesOut(r)
    BY <2>1, <2>6, Unfolded DEF WaitTimesOut, MapsTyped, HoldsTyped
  <2>7. CASE OnRefunded(r) \/ OnCanceled(r)
    <3>1. HoldsTyped
      BY <2>1, <2>2, <2>7, Unfolded DEF OnRefunded, OnCanceled, HoldStatuses, HoldsTyped
    <3> QED BY <3>1, <2>7, Unfolded DEF OnRefunded, OnCanceled, MapsTyped
  <2>8. CASE OnCapture(r)
    BY <2>3, <2>8, MapsRest DEF OnCapture, Paid
  <2> QED BY <2>4, <2>5, <2>6, <2>7, <2>8, MapsRest
          DEF Step, OnCreateRefused, OnMarket, OnPlaced, WaitEnds, PollFails, OnReturned
<1> QED BY <1>0, <1>1

LEMMA IntentFits ==
    ASSUME NEW x \in IntentRecords
    PROVE  /\ [x EXCEPT !.state = "canceled"] \in IntentRecords
           /\ [x EXCEPT !.state = "requires_capture"] \in IntentRecords
           /\ \A t \in Totals : [x EXCEPT !.state = "captured", !.received = t] \in IntentRecords
           /\ [x EXCEPT !.refunded = TRUE] \in IntentRecords
           /\ \A s \in {"requires_capture", "requires_action"} :
                 [x EXCEPT !.state = s, !.created = s] \in IntentRecords
  BY DEF IntentRecords

LEMMA IntentTypes ==
    ASSUME TypeInv, NEW h \in Holds, NEW x \in IntentRecords,
           intents' = [intents EXCEPT ![h] = x] \/ UNCHANGED intents
    PROVE  IntentsTyped
  BY Unfolded DEF IntentsTyped

\* A cell of a table of holds and totals.
LEMMA CellTypes ==
    ASSUME TypeInv, NEW h \in Holds, NEW t \in Totals
    PROVE  /\ \A a \in {"ok", "refused"} :
                 [captures EXCEPT ![h][t] = a] \in [Holds -> [Totals -> {"none", "ok", "refused"}]]
           /\ [shipments EXCEPT ![h][t] = "processing"]
                 \in [Holds -> [Totals -> {"none", "processing", "placed", "failed"}]]
           /\ \A s \in {"placed", "failed"} :
                 [shipments EXCEPT ![h][t] = s]
                    \in [Holds -> [Totals -> {"none", "processing", "placed", "failed"}]]
  BY Unfolded

LEMMA OutsideTypes ==
    ASSUME TypeInv, NEW r \in Requests, Outside(r)
    PROVE  OutsideTyped
<1>1. req[r].pc # "idle"
  BY DEF Outside, StripeCreate, StripeCapture, StripeRefund, StripeCancel, MarketCheckout, ZincPlace, Called
<1>2. req[r].hold \in Holds /\ req[r].hold[1] \in Instructions
  BY <1>1, Carries
<1>3. CASE StripeCreate(r)
  <2>1. IntentsTyped
    <3>1. intents[req[r].hold] \in IntentRecords
      BY <1>2, Unfolded
    <3>2. CASE UNCHANGED intents
      BY <3>2, Unfolded DEF IntentsTyped
    <3>3. ASSUME NEW s \in {"requires_capture", "requires_action"},
                 intents' = [intents EXCEPT ![req[r].hold].state = s, ![req[r].hold].created = s]
          PROVE  IntentsTyped
      <4>1. \A h \in Holds : intents'[h] = IF h = req[r].hold
                                           THEN [intents[h] EXCEPT !.state = s, !.created = s]
                                           ELSE intents[h]
        BY <3>3, Unfolded
      <4>2. \A h \in Holds : intents'[h] \in IntentRecords
        <5>1. [intents[req[r].hold] EXCEPT !.state = s, !.created = s] \in IntentRecords
          BY <3>1, IntentFits
        <5> QED BY <4>1, <5>1, Unfolded
      <4>3. intents' = [h \in Holds |-> intents'[h]]
        BY <3>3, Unfolded
      <4> QED BY <4>2, <4>3 DEF IntentsTyped
    <3> QED BY <1>3, <3>2, <3>3 DEF StripeCreate
  <2> QED BY <1>3, <2>1, Unfolded DEF StripeCreate, OutsideTyped
<1>4. CASE StripeCapture(r)
  <2>1. req[r].offer.total \in Totals
    BY <1>4, Carries DEF StripeCapture, Called, Orders
  <2> DEFINE t == req[r].offer.total
             x == [intents[req[r].hold] EXCEPT !.state = "captured", !.received = t]
  <2>2. IntentsTyped
    <3>1. x \in IntentRecords
      BY <1>2, <2>1, IntentFits, Unfolded
    <3>2. UNCHANGED intents \/ intents' = [intents EXCEPT ![req[r].hold] = x]
      BY <1>2, <1>4, Unfolded DEF StripeCapture, stripe
    <3> QED BY <1>2, <3>1, <3>2, IntentTypes
  <2>3. captures' \in [Holds -> [Totals -> {"none", "ok", "refused"}]]
    <3>1. \/ UNCHANGED captures
          \/ \E a \in {"ok", "refused"} : captures' = [captures EXCEPT ![req[r].hold][t] = a]
      BY <1>4 DEF StripeCapture, stripe
    <3>2. CASE UNCHANGED captures
      BY <3>2, Unfolded
    <3>3. ASSUME NEW a \in {"ok", "refused"}, captures' = [captures EXCEPT ![req[r].hold][t] = a]
          PROVE  captures' \in [Holds -> [Totals -> {"none", "ok", "refused"}]]
      BY <1>2, <2>1, <3>3, CellTypes, Zenon
    <3> QED BY <3>1, <3>2, <3>3
  <2> QED BY <1>4, <2>2, <2>3, Unfolded DEF StripeCapture, OutsideTyped
<1>5. CASE StripeRefund(r)
  <2>1. IntentsTyped
    <3>1. [intents[req[r].hold] EXCEPT !.refunded = TRUE] \in IntentRecords
      BY <1>2, IntentFits, Unfolded
    <3>2. \/ UNCHANGED intents
          \/ intents' = [intents EXCEPT ![req[r].hold] = [intents[req[r].hold] EXCEPT !.refunded = TRUE]]
      BY <1>2, <1>5, Unfolded DEF StripeRefund
    <3> QED BY <1>2, <3>1, <3>2, IntentTypes
  <2> QED BY <1>5, <2>1, Unfolded DEF StripeRefund, OutsideTyped
<1>6. CASE StripeCancel(r)
  <2>1. IntentsTyped
    <3>1. [intents[req[r].hold] EXCEPT !.state = "canceled"] \in IntentRecords
      BY <1>2, IntentFits, Unfolded
    <3>2. \/ UNCHANGED intents
          \/ intents' = [intents EXCEPT ![req[r].hold] = [intents[req[r].hold] EXCEPT !.state = "canceled"]]
      BY <1>2, <1>6, Unfolded DEF StripeCancel
    <3> QED BY <1>2, <3>1, <3>2, IntentTypes
  <2> QED BY <1>6, <2>1, Unfolded DEF StripeCancel, OutsideTyped
<1>7. CASE MarketCheckout(r)
  <2>1. req[r].offer.total \in Totals
    BY <1>7, Carries DEF MarketCheckout, Called, Orders
  <2>2. sales' \in [Instructions -> Seq(Totals)]
    <3>1. Append(sales[req[r].hold[1]], req[r].offer.total) \in Seq(Totals)
      BY <1>2, <2>1, Unfolded
    <3> QED BY <1>2, <1>7, <3>1, Unfolded DEF MarketCheckout
  <2> QED BY <1>7, <2>2, Unfolded DEF MarketCheckout, OutsideTyped, IntentsTyped, stripe
<1>8. CASE ZincPlace(r)
  <2>1. req[r].offer.total \in Totals
    BY <1>8, Carries DEF ZincPlace, Called, Orders
  <2>2. shipments' \in [Holds -> [Totals -> {"none", "processing", "placed", "failed"}]]
    <3>1. \/ UNCHANGED shipments
          \/ shipments' = [shipments EXCEPT ![req[r].hold][req[r].offer.total] = "processing"]
      BY <1>8 DEF ZincPlace
    <3>2. CASE UNCHANGED shipments
      BY <3>2, Unfolded
    <3>3. CASE shipments' = [shipments EXCEPT ![req[r].hold][req[r].offer.total] = "processing"]
      BY <1>2, <2>1, <3>3, CellTypes, Zenon
    <3> QED BY <3>1, <3>2, <3>3
  <2> QED BY <1>8, <2>2, Unfolded DEF ZincPlace, OutsideTyped, IntentsTyped, stripe
<1> QED BY <1>3, <1>4, <1>5, <1>6, <1>7, <1>8 DEF Outside

\* A request loses its hold only.
LEMMA StaleFits ==
    ASSUME NEW x \in Fitting, NEW b \in BOOLEAN
    PROVE  [x EXCEPT !.stale = b] \in Fitting
  BY DEF Fitting, Locals

LEMMA OnCreatedTypes ==
    ASSUME TypeInv, NEW r \in Requests, OnCreated(r)
    PROVE  req' \in [Requests -> Fitting]
<1>1. ASSUME NEW q \in Requests PROVE req'[q] \in Fitting
  <2> DEFINE b == req[q].stale \/ req[q].hold = req[r].hold
  <2>1. b \in BOOLEAN
    BY Unfolded DEF Locals
  <2>2. [req[q] EXCEPT !.stale = b] \in Fitting
    BY <2>1, StaleFits, Unfolded
  <2>3. req'[q] = Idle \/ req'[q] = [req[q] EXCEPT !.stale = b]
    BY DEF OnCreated
  <2> QED BY <2>2, <2>3, IdleFits
<1>2. req' = [q \in Requests |-> req'[q]]
  BY DEF OnCreated
<1> QED BY <1>1, <1>2

LEMMA TypeStep == TypeInv /\ ZincInv /\ [Next]_vars => TypeInv'
<1> SUFFICES ASSUME TypeInv, ZincInv, [Next]_vars PROVE TypeInv'
  OBVIOUS
<1> DEFINE Faults == {"restart", "overlap", "lost", "rearm", "unpaid"}
<1>1. ASSUME NEW r \in Requests, Step(r) PROVE TypeInv'
  <2>1. req' \in [Requests -> Fitting]
    BY <1>1, OnCreatedTypes, GoesOnTypes, BecomeTypes
  <2>2. UNCHANGED <<stripe, shipments, sales>>
    BY <1>1 DEF Step, OnCreated, OnCreateRefused, OnMarket, OnCapture, OnPlaced, OnSettled,
       WaitTimesOut, WaitEnds, PollFails, OnRefunded, OnReturned, OnCanceled
  <2>3. UNCHANGED faults \/ \E f \in Faults : Blame(f)
    BY <1>1 DEF Step, OnCreated, OnCreateRefused, OnMarket, OnCapture, OnPlaced, OnSettled,
       WaitTimesOut, WaitEnds, PollFails, OnRefunded, OnReturned, OnCanceled
  <2> QED BY <1>1, <2>1, <2>2, <2>3, StepMapsTypes, OutsideRests, FaultsTypes, TypesTogether
<1>2. ASSUME NEW r \in Requests, Outside(r) PROVE TypeInv'
  <2>1. req' \in [Requests -> Fitting]
    <3>1. ~OnCreated(r)
      BY <1>2 DEF Outside, OnCreated, StripeCreate, StripeCapture, StripeRefund, StripeCancel,
         MarketCheckout, ZincPlace, Called, Answered
    <3> QED BY <1>2, <3>1, GoesOnTypes, BecomeTypes
  <2>2. UNCHANGED maps
    BY <1>2 DEF Outside, StripeCreate, StripeCapture, StripeRefund, StripeCancel, MarketCheckout, ZincPlace
  <2>3. UNCHANGED faults \/ \E f \in Faults : Blame(f)
    BY <1>2 DEF Outside, StripeCreate, StripeCapture, StripeRefund, StripeCancel, MarketCheckout, ZincPlace
  <2> QED BY <1>2, <2>1, <2>2, <2>3, OutsideTypes, MapsRest, FaultsTypes, TypesTogether
<1>3. ASSUME NEW r \in Requests,
             \/ \E h \in Holds : Commit(r, h)
             \/ \E i \in Instructions : Release(r, i) \/ \E o \in Offers : Checkout(r, i, o)
      PROVE  TypeInv'
  <2>1. req' \in [Requests -> Fitting]
    BY <1>3, BeginTypes, BecomeTypes
  <2>2. UNCHANGED <<maps, stripe, shipments, sales>>
    BY <1>3 DEF Commit, Release, Checkout
  <2>3. UNCHANGED faults \/ \E f \in Faults : Blame(f)
    BY <1>3 DEF Commit, Release, Checkout
  <2> QED BY <2>1, <2>2, <2>3, MapsRest, OutsideRests, FaultsTypes, TypesTogether
<1>4. ASSUME NEW h \in Holds, CustomerConfirms(h) PROVE TypeInv'
  <2>1. [intents[h] EXCEPT !.state = "requires_capture"] \in IntentRecords
    BY IntentFits, Unfolded
  <2>2. intents' = [intents EXCEPT ![h] = [intents[h] EXCEPT !.state = "requires_capture"]]
    BY <1>4, Unfolded DEF CustomerConfirms
  <2>3. OutsideTyped
    BY <1>4, <2>1, <2>2, IntentTypes, Unfolded DEF CustomerConfirms, OutsideTyped
  <2> QED BY <1>4, <2>3, MapsRest, FaultsTypes, TypesTogether, Unfolded DEF CustomerConfirms
<1>5. ASSUME NEW h \in Holds, NEW t \in Totals, ZincSettles(h, t) PROVE TypeInv'
  <2>1. PICK s \in {"placed", "failed"} : shipments' = [shipments EXCEPT ![h][t] = s]
    BY <1>5 DEF ZincSettles
  <2>2. shipments' \in [Holds -> [Totals -> {"none", "processing", "placed", "failed"}]]
    BY <2>1, CellTypes, Zenon
  <2>3. OutsideTyped
    BY <1>5, <2>2, Unfolded DEF ZincSettles, OutsideTyped, IntentsTyped, stripe
  <2> QED BY <1>5, <2>3, MapsRest, FaultsTypes, TypesTogether, Unfolded DEF ZincSettles
<1>6. CASE Restart
  <2>1. MapsTyped
    BY <1>6 DEF Restart, MapsTyped, HoldsTyped, HoldStatuses
  <2>2. req' \in [Requests -> Fitting]
    BY <1>6, IdleFits DEF Restart
  <2> QED BY <1>6, <2>1, <2>2, OutsideRests, FaultsTypes, TypesTogether DEF Restart
<1>7. CASE UNCHANGED vars
  BY <1>7, MapsRest, OutsideRests, FaultsTypes, TypesTogether, Unfolded DEF vars
<1> QED BY <1>1, <1>2, <1>3, <1>4, <1>5, <1>6, <1>7 DEF Next

-----------------------------------------------------------------------------
(* What a step does to the requests *)

Same(q) == req'[q] = req[q]

Keeps(r) == /\ req'[r].hold = req[r].hold /\ req'[r].offer = req[r].offer
            /\ req'[r].stale = req[r].stale /\ req'[r].told = req[r].told

Ended(r) == /\ req'[r].pc = "idle" /\ req'[r].offer = None /\ req'[r].answer = "none"
            /\ req'[r].hold = None /\ ~req'[r].stale /\ ~req'[r].told

LEMMA Effects ==
    ASSUME TypeInv, NEW r \in Requests
    PROVE  /\ \A a : Answer(r, a) => /\ \A q \in Requests \ {r} : Same(q)
                                     /\ Keeps(r) /\ req'[r].pc = req[r].pc /\ req'[r].answer = a
           /\ \A pc : Await(r, pc) => /\ \A q \in Requests \ {r} : Same(q)
                                      /\ Keeps(r) /\ req'[r].pc = pc /\ req'[r].answer = "none"
           /\ Finish(r) => Ended(r) /\ \A q \in Requests \ {r} : Same(q)
<1>1. \A x : Become(r, x) => req'[r] = x /\ \A q \in Requests \ {r} : Same(q)
  BY Unfolded DEF Become, Same
<1>2. req[r] \in Locals
  BY Unfolded
<1>3. ASSUME NEW a, Answer(r, a)
      PROVE  /\ \A q \in Requests \ {r} : Same(q)
             /\ Keeps(r) /\ req'[r].pc = req[r].pc /\ req'[r].answer = a
  BY <1>1, <1>2, <1>3 DEF Answer, Keeps, Locals
<1>4. ASSUME NEW pc, Await(r, pc)
      PROVE  /\ \A q \in Requests \ {r} : Same(q)
             /\ Keeps(r) /\ req'[r].pc = pc /\ req'[r].answer = "none"
  <2>1. req'[r] = [req[r] EXCEPT !.pc = pc, !.answer = "none"]
    BY <1>1, <1>4 DEF Await
  <2>2. Keeps(r) /\ req'[r].pc = pc /\ req'[r].answer = "none"
    BY <1>2, <2>1 DEF Keeps, Locals
  <2> QED BY <1>1, <1>4, <2>2 DEF Await
<1>5. ASSUME Finish(r) PROVE Ended(r) /\ \A q \in Requests \ {r} : Same(q)
  BY <1>1, <1>5 DEF Finish, Ended, Idle
<1> QED BY <1>3, <1>4, <1>5

LEMMA BeginEffects ==
    ASSUME TypeInv, NEW r \in Requests
    PROVE  /\ \A h \in Holds : Commit(r, h) =>
                 /\ \A q \in Requests \ {r} : Same(q)
                 /\ req'[r].pc = "create" /\ req'[r].hold = h /\ req'[r].offer = None
                 /\ req'[r].answer = "none"
           /\ \A i \in Instructions : Release(r, i) =>
                 /\ \A q \in Requests \ {r} : Same(q)
                 /\ req'[r].pc = "cancel" /\ req'[r].hold = <<i, latest[i]>> /\ req'[r].offer = None
                 /\ req'[r].answer = "none" /\ ~req'[r].stale
           /\ \A i \in Instructions, o \in Offers : Checkout(r, i, o) =>
                 /\ \A q \in Requests \ {r} : Same(q)
                 /\ req'[r].pc = FirstCall(o) /\ req'[r].hold = <<i, latest[i]>>
                 /\ req'[r].offer = o /\ req'[r].answer = "none" /\ ~req'[r].stale /\ ~req'[r].told
<1>1. \A x : Become(r, x) => req'[r] = x /\ \A q \in Requests \ {r} : Same(q)
  BY Unfolded DEF Become, Same
<1>2. ASSUME NEW h \in Holds, Commit(r, h)
      PROVE  /\ \A q \in Requests \ {r} : Same(q)
             /\ req'[r].pc = "create" /\ req'[r].hold = h /\ req'[r].offer = None
             /\ req'[r].answer = "none"
  <2>1. req'[r] = [Idle EXCEPT !.pc = "create", !.hold = h] /\ \A q \in Requests \ {r} : Same(q)
    BY <1>1, <1>2 DEF Commit
  <2> QED BY <2>1 DEF Idle
<1>3. ASSUME NEW i \in Instructions, Release(r, i)
      PROVE  /\ \A q \in Requests \ {r} : Same(q)
             /\ req'[r].pc = "cancel" /\ req'[r].hold = <<i, latest[i]>> /\ req'[r].offer = None
             /\ req'[r].answer = "none" /\ ~req'[r].stale
  <2>1. req'[r] = [Idle EXCEPT !.pc = "cancel", !.hold = <<i, latest[i]>>] /\ \A q \in Requests \ {r} : Same(q)
    BY <1>1, <1>3 DEF Release
  <2> QED BY <2>1 DEF Idle
<1>4. ASSUME NEW i \in Instructions, NEW o \in Offers, Checkout(r, i, o)
      PROVE  /\ \A q \in Requests \ {r} : Same(q)
             /\ req'[r].pc = FirstCall(o) /\ req'[r].hold = <<i, latest[i]>>
             /\ req'[r].offer = o /\ req'[r].answer = "none" /\ ~req'[r].stale /\ ~req'[r].told
  <2>1. req'[r] = [Idle EXCEPT !.pc = FirstCall(o), !.offer = o, !.hold = <<i, latest[i]>>] /\ \A q \in Requests \ {r} : Same(q)
    BY <1>1, <1>4 DEF Checkout
  <2> QED BY <2>1 DEF Idle
<1> QED BY <1>2, <1>3, <1>4

LEMMA CreatedEffects ==
    ASSUME TypeInv, NEW r \in Requests, OnCreated(r)
    PROVE  /\ Ended(r)
           /\ \A q \in Requests \ {r} :
                 /\ req'[q].pc = req[q].pc /\ req'[q].answer = req[q].answer
                 /\ req'[q].hold = req[q].hold /\ req'[q].offer = req[q].offer
                 /\ req'[q].told = req[q].told
                 /\ req'[q].stale = (req[q].stale \/ req[q].hold = req[r].hold)
  BY Unfolded DEF OnCreated, Ended, Idle, Locals

LEMMA TimesOutEffects ==
    ASSUME TypeInv, NEW r \in Requests, WaitTimesOut(r)
    PROVE  /\ \A q \in Requests \ {r} : Same(q)
           /\ req'[r].pc = "wait" /\ req'[r].told
           /\ req'[r].hold = req[r].hold /\ req'[r].offer = req[r].offer
           /\ req'[r].stale = req[r].stale /\ req'[r].answer = req[r].answer
  BY Unfolded DEF WaitTimesOut, Become, Same, Locals

-----------------------------------------------------------------------------
(* Zinc after the capture *)

StripeStands ==
    /\ \A h \in Holds : intents[h].state = "captured" =>
          intents'[h].state = "captured" /\ intents'[h].received = intents[h].received
    /\ \A h \in Holds, t \in Totals : Captured(h, t) => captures'[h][t] = "ok"

LEMMA StripeStep == TypeInv /\ CaptureStands /\ [Next]_vars => CaptureStands' /\ StripeStands
<1> SUFFICES ASSUME TypeInv, CaptureStands, [Next]_vars PROVE CaptureStands' /\ StripeStands
  OBVIOUS
<1>1. CASE UNCHANGED stripe
  BY <1>1 DEF stripe, CaptureStands, StripeStands, Captured
<1>2. ASSUME NEW r \in Requests, StripeCreate(r) PROVE CaptureStands' /\ StripeStands
  <2>1. req[r].hold \in Holds
    BY <1>2, Carries DEF StripeCreate, Called
  <2>2. \/ UNCHANGED intents
        \/ /\ intents[req[r].hold].state = "none"
           /\ \A h \in Holds \ {req[r].hold} : intents'[h] = intents[h]
    BY <1>2, <2>1, Unfolded DEF StripeCreate
  <2>3. UNCHANGED captures
    BY <1>2 DEF StripeCreate
  <2> QED BY <2>1, <2>2, <2>3 DEF CaptureStands, StripeStands, Captured
<1>3. ASSUME NEW r \in Requests, StripeCapture(r) PROVE CaptureStands' /\ StripeStands
  <2> DEFINE g == req[r].hold
             u == req[r].offer.total
  <2>1. g \in Holds /\ u \in Totals
    BY <1>3, Carries DEF StripeCapture, Called, Orders
  <2>2. CASE UNCHANGED stripe
    BY <2>2 DEF stripe, CaptureStands, StripeStands, Captured
  <2>3. CASE /\ captures[g][u] = "none" /\ intents[g].state = "requires_capture" /\ u <= Ceiling
             /\ intents' = [intents EXCEPT ![g].state = "captured", ![g].received = u]
             /\ captures' = [captures EXCEPT ![g][u] = "ok"]
    <3>1. /\ intents'[g].state = "captured" /\ intents'[g].received = u
          /\ \A h \in Holds \ {g} : intents'[h] = intents[h]
      BY <2>1, <2>3, Unfolded DEF IntentRecords
    <3>2. \A h \in Holds, t \in Totals :
             captures'[h][t] = IF h = g /\ t = u THEN "ok" ELSE captures[h][t]
      BY <2>1, <2>3, Unfolded
    <3>3. \A t \in Totals : ~Captured(g, t)
      BY <2>1, <2>3 DEF CaptureStands
    <3>4. CaptureStands'
      <4> SUFFICES ASSUME NEW h \in Holds, NEW t \in Totals, captures'[h][t] = "ok"
                   PROVE  intents'[h].state = "captured" /\ intents'[h].received = t /\ t <= Ceiling
        BY DEF CaptureStands, Captured
      <4>1. CASE h = g
        BY <2>1, <2>3, <3>1, <3>2, <3>3, <4>1 DEF Captured
      <4>2. CASE h # g
        BY <3>1, <3>2, <4>2 DEF CaptureStands, Captured
      <4> QED BY <4>1, <4>2
    <3>5. StripeStands
      BY <2>1, <2>3, <3>1, <3>2 DEF StripeStands, Captured
    <3> QED BY <3>4, <3>5
  <2>4. CASE /\ captures[g][u] = "none" /\ UNCHANGED intents
             /\ captures' = [captures EXCEPT ![g][u] = "refused"]
    <3>1. \A h \in Holds, t \in Totals :
             captures'[h][t] = IF h = g /\ t = u THEN "refused" ELSE captures[h][t]
      BY <2>1, <2>4, Unfolded
    <3> QED BY <2>4, <3>1 DEF CaptureStands, StripeStands, Captured
  <2> QED BY <1>3, <2>2, <2>3, <2>4 DEF StripeCapture
<1>4. ASSUME NEW r \in Requests, StripeRefund(r) PROVE CaptureStands' /\ StripeStands
  <2>1. req[r].hold \in Holds
    BY <1>4, Carries DEF StripeRefund, Called
  <2>2. UNCHANGED captures /\ \A h \in Holds : /\ intents'[h].state = intents[h].state
                                               /\ intents'[h].received = intents[h].received
    <3>1. CASE UNCHANGED intents
      BY <1>4, <3>1 DEF StripeRefund
    <3>2. CASE intents' = [intents EXCEPT ![req[r].hold].refunded = TRUE]
      <4>1. \A h \in Holds : intents[h] \in IntentRecords
        BY Unfolded
      <4>2. \A h \in Holds : intents'[h] = IF h = req[r].hold THEN [intents[h] EXCEPT !.refunded = TRUE]
                                           ELSE intents[h]
        BY <2>1, <3>2, Unfolded
      <4> QED BY <1>4, <4>1, <4>2 DEF StripeRefund, IntentRecords
    <3> QED BY <1>4, <3>1, <3>2 DEF StripeRefund
  <2> QED BY <2>2 DEF CaptureStands, StripeStands, Captured
<1>5. ASSUME NEW h \in Holds, UNCHANGED captures, intents[h].state # "captured",
             \E s \in {"canceled", "requires_capture"} : intents' = [intents EXCEPT ![h].state = s]
      PROVE  CaptureStands' /\ StripeStands
  <2>1. \A g \in Holds \ {h} : intents'[g] = intents[g]
    BY <1>5, Unfolded
  <2> QED BY <1>5, <2>1 DEF CaptureStands, StripeStands, Captured
<1>6. ASSUME NEW r \in Requests, StripeCancel(r) PROVE CaptureStands' /\ StripeStands
  <2>1. req[r].hold \in Holds
    BY <1>6, Carries DEF StripeCancel, Called
  <2> QED BY <1>1, <1>5, <1>6, <2>1 DEF StripeCancel, stripe
<1>7. ASSUME NEW h \in Holds, CustomerConfirms(h) PROVE CaptureStands' /\ StripeStands
  BY <1>5, <1>7 DEF CustomerConfirms
<1>8. CASE \E r \in Requests : \/ Step(r) \/ \E h \in Holds : Commit(r, h)
                               \/ \E i \in Instructions : Release(r, i) \/ \E o \in Offers : Checkout(r, i, o)
  <2>1. UNCHANGED stripe
    BY <1>8 DEF Step, OnCreated, OnCreateRefused, OnMarket, OnCapture, OnPlaced, OnSettled, WaitTimesOut,
       WaitEnds, PollFails, OnRefunded, OnReturned, OnCanceled, Commit, Release, Checkout
  <2> QED BY <1>1, <2>1
<1>9. ASSUME NEW r \in Requests, Outside(r) PROVE CaptureStands' /\ StripeStands
  BY <1>1, <1>2, <1>3, <1>4, <1>6, <1>9 DEF Outside, MarketCheckout, ZincPlace
<1>10. CASE Restart \/ UNCHANGED vars \/ \E h \in Holds, t \in Totals : ZincSettles(h, t)
  BY <1>1, <1>10 DEF Restart, vars, ZincSettles
<1> QED BY <1>7, <1>8, <1>9, <1>10 DEF Next

\* What everything but the entry of its hold says of a request.
Like(q) == /\ req'[q].pc = req[q].pc /\ req'[q].answer = req[q].answer
           /\ req'[q].hold = req[q].hold /\ req'[q].offer = req[q].offer
           /\ req'[q].told = req[q].told

Begins(r) ==
    \/ \E h \in Holds : Commit(r, h)
    \/ \E i \in Instructions : Release(r, i) \/ \E o \in Offers : Checkout(r, i, o)

Elsewhere == \E h \in Holds : CustomerConfirms(h) \/ \E t \in Totals : ZincSettles(h, t)

LEMMA StepEffects ==
    ASSUME TypeInv, NEW r \in Requests, Step(r) \/ Outside(r) \/ Begins(r)
    PROVE  \A q \in Requests \ {r} : Like(q)
<1>1. (\A q \in Requests \ {r} : Same(q)) => \A q \in Requests \ {r} : Like(q)
  BY DEF Same, Like
<1>2. CASE OnCreated(r)
  BY <1>2, CreatedEffects DEF Like
<1>3. CASE Outside(r)
  BY <1>1, <1>3, Effects DEF Outside, StripeCreate, StripeCapture, StripeRefund, StripeCancel,
     MarketCheckout, ZincPlace
<1>4. CASE Step(r) /\ ~OnCreated(r)
  BY <1>1, <1>4, Effects, TimesOutEffects DEF Step, OnCreateRefused, OnMarket, OnCapture, OnPlaced,
     OnSettled, WaitEnds, PollFails, OnRefunded, OnReturned, OnCanceled
<1>5. CASE Begins(r)
  BY <1>1, <1>5, BeginEffects DEF Begins
<1> QED BY <1>2, <1>3, <1>4, <1>5

LEMMA RestEffects ==
    ASSUME TypeInv, Elsewhere \/ UNCHANGED vars
    PROVE  UNCHANGED <<maps, req, faults, sales>> /\ \A q \in Requests : Like(q)
  BY DEF Elsewhere, CustomerConfirms, ZincSettles, vars, Like

LEMMA FaultsGrow == [Next]_vars => faults \subseteq faults'
  BY DEF Next, vars, Step, Outside, OnCreated, OnCreateRefused, OnMarket, OnCapture, OnPlaced, OnSettled,
     WaitTimesOut, WaitEnds, PollFails, OnRefunded, OnReturned, OnCanceled, StripeCreate, StripeCapture,
     StripeRefund, StripeCancel, MarketCheckout, ZincPlace, Commit, Release, Checkout, CustomerConfirms,
     ZincSettles, Restart, Blame

\* How a request comes to count as paid.
LEMMA PaidStep ==
    ASSUME TypeInv, NEW r \in Requests, Step(r) \/ Outside(r) \/ Begins(r), Paid(r)'
    PROVE  /\ req'[r].hold = req[r].hold /\ req'[r].offer = req[r].offer
           /\ Paid(r) \/ StripeCapture(r)
<1> USE DEF Paid, Answered
<1>1. CASE Begins(r)
  BY <1>1, BeginEffects DEF Begins, FirstCall
<1>2. CASE Step(r)
  <2>1. CASE OnCreated(r)
    BY <2>1, CreatedEffects DEF Ended
  <2>2. CASE WaitTimesOut(r)
    BY <2>2, TimesOutEffects DEF WaitTimesOut
  <2>3. ~Ended(r)
    BY DEF Ended
  <2>4. CASE OnMarket(r)
    BY <2>3, <2>4, Effects DEF OnMarket
  <2>5. CASE OnCapture(r)
    BY <2>3, <2>5, Effects DEF OnCapture, Keeps
  <2>6. CASE OnPlaced(r)
    BY <2>3, <2>6, Effects DEF OnPlaced, Keeps
  <2>7. CASE OnSettled(r) \/ PollFails(r)
    BY <2>3, <2>7, Effects DEF OnSettled, PollFails, Keeps
  <2> QED BY <1>2, <2>1, <2>2, <2>3, <2>4, <2>5, <2>6, <2>7, Effects
          DEF Step, OnCreateRefused, WaitEnds, OnRefunded, OnReturned, OnCanceled
<1>3. CASE Outside(r)
  <2>1. PICK a : Answer(r, a)
    BY <1>3 DEF Outside, StripeCreate, StripeCapture, StripeRefund, StripeCancel, MarketCheckout, ZincPlace
  <2>2. Keeps(r) /\ req'[r].pc = req[r].pc
    BY <2>1, Effects
  <2>3. req[r].pc = "capture" => StripeCapture(r)
    BY <1>3 DEF Outside, StripeCreate, StripeCapture, StripeRefund, StripeCancel, MarketCheckout, ZincPlace,
       Called
  <2> QED BY <2>2, <2>3 DEF Keeps
<1> QED BY <1>1, <1>2, <1>3

LEMMA CaptureAnswers ==
    ASSUME TypeInv, NEW r \in Requests, StripeCapture(r), Paid(r)'
    PROVE  captures'[req[r].hold][req[r].offer.total] = "ok"
<1>1. req[r].hold \in Holds /\ req[r].offer.total \in Totals
  BY Carries DEF StripeCapture, Called, Orders
<1>2. \A a : Answer(r, a) => a = "ok"
  BY Effects DEF StripeCapture, Called, Paid, Answered
<1> QED BY <1>1, <1>2, Unfolded DEF StripeCapture, stripe

LEMMA PaidIsCapturedStep ==
    ASSUME TypeInv, ZincInv, [Next]_vars
    PROVE  PaidIsCaptured'
<1>1. StripeStands
  BY StripeStep DEF ZincInv
<1>2. ASSUME NEW q \in Requests, Paid(q), req'[q].hold = req[q].hold, req'[q].offer = req[q].offer
      PROVE  captures'[req'[q].hold][req'[q].offer.total] = "ok"
  <2>1. req[q].hold \in Holds /\ req[q].offer.total \in Totals
    BY <1>2, Carries DEF Paid, Answered, Orders
  <2> QED BY <1>1, <1>2, <2>1 DEF StripeStands, ZincInv, PaidIsCaptured
<1>3. ASSUME NEW r \in Requests, Step(r) \/ Outside(r) \/ Begins(r) PROVE PaidIsCaptured'
  <2> SUFFICES ASSUME NEW q \in Requests, Paid(q)'
               PROVE  captures'[req'[q].hold][req'[q].offer.total] = "ok"
    BY DEF PaidIsCaptured, Captured
  <2>1. CASE q # r
    BY <1>2, <1>3, <2>1, StepEffects DEF Like, Paid, Answered
  <2>2. CASE q = r
    BY <1>2, <1>3, <2>2, PaidStep, CaptureAnswers
  <2> QED BY <2>1, <2>2
<1>4. CASE Elsewhere \/ UNCHANGED vars
  BY <1>2, <1>4, RestEffects DEF Like, PaidIsCaptured, Captured, Paid, Answered
<1>5. CASE Restart
  BY <1>5 DEF Restart, PaidIsCaptured, Paid, Answered, Idle
<1> QED BY <1>3, <1>4, <1>5 DEF Next, Begins, Elsewhere

LEMMA ShippedStep ==
    ASSUME TypeInv, ZincInv, [Next]_vars
    PROVE  ShippedIsCaptured'
<1>1. StripeStands
  BY StripeStep DEF ZincInv
<1>2. CASE UNCHANGED shipments
  BY <1>1, <1>2 DEF StripeStands, ZincInv, ShippedIsCaptured, Captured
<1>3. ASSUME NEW h \in Holds, NEW t \in Totals, Captured(h, t), NEW s,
             shipments' = [shipments EXCEPT ![h][t] = s]
      PROVE  ShippedIsCaptured'
  <2>1. \A g \in Holds, u \in Totals : g # h \/ u # t => shipments'[g][u] = shipments[g][u]
    BY <1>3, Unfolded
  <2> QED BY <1>1, <1>3, <2>1 DEF StripeStands, ZincInv, ShippedIsCaptured, Captured
<1>4. ASSUME NEW r \in Requests, ZincPlace(r) PROVE ShippedIsCaptured'
  <2>1. req[r].hold \in Holds /\ req[r].offer.total \in Totals
    BY <1>4, Carries DEF ZincPlace, Called, Orders
  <2>2. Captured(req[r].hold, req[r].offer.total)
    BY <1>4 DEF ZincPlace, Called, ZincInv, PaidIsCaptured, Paid
  <2> QED BY <1>2, <1>3, <1>4, <2>1, <2>2 DEF ZincPlace
<1>5. ASSUME NEW h \in Holds, NEW t \in Totals, ZincSettles(h, t) PROVE ShippedIsCaptured'
  BY <1>3, <1>5 DEF ZincSettles, ZincInv, ShippedIsCaptured
<1>6. CASE (\E r \in Requests : Step(r) \/ Begins(r)) \/ Restart \/ UNCHANGED vars
           \/ \E h \in Holds : CustomerConfirms(h)
  BY <1>2, <1>6 DEF Step, OnCreated, OnCreateRefused, OnMarket, OnCapture, OnPlaced, OnSettled, WaitTimesOut,
     WaitEnds, PollFails, OnRefunded, OnReturned, OnCanceled, Begins, Commit, Release, Checkout, Restart,
     vars, CustomerConfirms
<1>7. ASSUME NEW r \in Requests, Outside(r) PROVE ShippedIsCaptured'
  BY <1>2, <1>4, <1>7 DEF Outside, StripeCreate, StripeCapture, StripeRefund, StripeCancel, MarketCheckout
<1> QED BY <1>5, <1>6, <1>7 DEF Next, Begins

LEMMA InitInv == Init => TypeInv /\ ZincInv
<1> SUFFICES ASSUME Init PROVE TypeInv /\ ZincInv
  OBVIOUS
<1>1. req \in [Requests -> Fitting] /\ req \in [Requests -> Locals]
  BY IdleFits DEF Init
<1>2. NoIntent \in IntentRecords
  BY DEF NoIntent, IntentRecords
<1>3. sales \in [Instructions -> Seq(Totals)]
  BY DEF Init
<1>4. TypeOK
  BY <1>1, <1>2, <1>3 DEF Init, TypeOK, HoldStatuses, IntentRecords, Locals
<1>5. \A r \in Requests : ~Paid(r)
  BY DEF Init, Idle, Paid, Answered
<1>6. ZincInv
  BY <1>5 DEF Init, ZincInv, CaptureStands, PaidIsCaptured, ShippedIsCaptured, Captured
<1> QED BY <1>1, <1>4, <1>6 DEF TypeInv

LEMMA ZincStep == TypeInv /\ ZincInv /\ [Next]_vars => ZincInv'
  BY StripeStep, PaidIsCapturedStep, ShippedStep DEF ZincInv

LEMMA ZincInvariant == Spec => [](TypeInv /\ ZincInv)
<1>1. TypeInv /\ ZincInv /\ [Next]_vars => (TypeInv /\ ZincInv)'
  BY TypeStep, ZincStep
<1> QED BY <1>1, InitInv, PTL DEF Spec

\* The variables keep their types.
THEOREM TypeCorrect == Spec => []TypeOK
<1>1. TypeInv => TypeOK
  BY DEF TypeInv
<1> QED BY <1>1, ZincInvariant, PTL

-----------------------------------------------------------------------------
(* One request at a time *)

\* Only a checkout makes a request work, and only the wait that times out tells.
LEMMA WorkingStep ==
    ASSUME TypeInv, NEW r \in Requests, Step(r) \/ Outside(r) \/ Begins(r), Working(r)'
    PROVE  \/ \E i \in Instructions, o \in Offers : Checkout(r, i, o)
           \/ /\ Working(r) /\ req'[r].hold = req[r].hold /\ req'[r].offer = req[r].offer
              /\ req'[r].told = req[r].told \/ WaitTimesOut(r)
<1> USE DEF Working
<1>1. CASE Begins(r)
  BY <1>1, BeginEffects DEF Begins
<1>2. CASE Outside(r)
  BY <1>2, Effects DEF Keeps, Outside, StripeCreate, StripeCapture, StripeRefund, StripeCancel,
     MarketCheckout, ZincPlace
<1>3. CASE Step(r)
  <2>1. ~Ended(r)
    BY DEF Ended
  <2>2. ~OnCreated(r) /\ ~Finish(r)
    BY <2>1, CreatedEffects, Effects
  <2>3. CASE WaitTimesOut(r)
    BY <2>3, TimesOutEffects DEF WaitTimesOut
  <2>4. CASE OnMarket(r) \/ OnCapture(r) \/ OnPlaced(r) \/ OnSettled(r) \/ PollFails(r)
    BY <2>2, <2>4, Effects DEF OnMarket, OnCapture, OnPlaced, OnSettled, PollFails, Answered, Keeps
  <2> QED BY <1>3, <2>2, <2>3, <2>4
          DEF Step, OnCreateRefused, WaitEnds, OnRefunded, OnReturned, OnCanceled
<1> QED BY <1>1, <1>2, <1>3

\* Who writes purchases and pending.
Closes(r) ==
    /\ Paid(r) /\ req[r].pc \in {"capture", "wait"} /\ ~Working(r)'
    /\ UNCHANGED <<latest, intents, captures, shipments, sales, faults>>
    /\ pending' = pending \ {req[r].hold[1]}
    /\ \/ /\ purchases' = [purchases EXCEPT ![req[r].hold[1]] = intents[req[r].hold].received]
          /\ SetHold(r, "spent") /\ Ended(r)
          /\ req[r].pc = "wait" => Shipment(r) = "placed"
          /\ req[r].pc = "capture" => req[r].offer.merchant = "market"
       \/ /\ UNCHANGED purchases /\ req[r].pc = "wait" /\ Shipment(r) = "failed"
          /\ SetHold(r, "released")
          /\ Keeps(r) /\ req'[r].pc = "return" /\ req'[r].answer = "none"

LEMMA ClosesStep ==
    ASSUME TypeInv, NEW r \in Requests, OnCapture(r) \/ OnSettled(r)
    PROVE  \/ Closes(r)
           \/ Answered(r, "capture", "refused") /\ Finish(r) /\ UNCHANGED maps
           \/ Answered(r, "capture", "ok") /\ Await(r, "place") /\ UNCHANGED <<maps, faults>>
<1>1. ASSUME Ended(r) PROVE ~Working(r)'
  BY <1>1 DEF Ended, Working
<1>2. CASE OnCapture(r)
  <2>1. CASE Answered(r, "capture", "ok") /\ Purchased(r) /\ Finish(r)
    BY <1>1, <1>2, <2>1, Effects DEF OnCapture, Purchased, Closes, stripe, Paid, Answered
  <2> QED BY <1>2, <2>1 DEF OnCapture, maps
<1>3. CASE OnSettled(r)
  <2>1. CASE Shipment(r) = "placed" /\ Purchased(r) /\ Finish(r)
    BY <1>1, <1>3, <2>1, Effects DEF OnSettled, Purchased, Closes, stripe, Paid
  <2>2. CASE /\ Shipment(r) = "failed" /\ SetHold(r, "released")
             /\ pending' = pending \ {req[r].hold[1]}
             /\ Await(r, "return") /\ UNCHANGED <<latest, purchases>>
    <3>1. Keeps(r) /\ req'[r].pc = "return" /\ req'[r].answer = "none"
      BY <2>2, Effects
    <3>2. ~Working(r)'
      BY <3>1 DEF Working
    <3> QED BY <1>3, <2>2, <3>1, <3>2 DEF OnSettled, Closes, stripe, Paid
  <2> QED BY <1>3, <2>1, <2>2 DEF OnSettled
<1> QED BY <1>2, <1>3

LEMMA LedgerStep ==
    ASSUME TypeInv, NEW r \in Requests, Step(r) \/ Outside(r) \/ Begins(r)
    PROVE  UNCHANGED <<purchases, pending>> \/ WaitTimesOut(r) \/ Closes(r)
<1>1. CASE Begins(r)
  BY <1>1 DEF Begins, Commit, Release, Checkout, maps
<1>2. CASE Outside(r)
  BY <1>2 DEF Outside, StripeCreate, StripeCapture, StripeRefund, StripeCancel, MarketCheckout, ZincPlace, maps
<1>3. CASE OnCapture(r) \/ OnSettled(r)
  BY <1>3, ClosesStep DEF maps
<1>4. CASE Step(r) /\ ~OnCapture(r) /\ ~OnSettled(r)
  BY <1>4 DEF Step, OnCreated, OnCreateRefused, OnMarket, OnPlaced, WaitEnds, PollFails, OnRefunded,
     OnReturned, OnCanceled, maps
<1> QED BY <1>1, <1>2, <1>3, <1>4

BuyerFacts == OneBuyer /\ PendingIsTold /\ Unbought

\* A working request is beyond idle.
LEMMA WorkingCarries ==
    ASSUME TypeInv, NEW r \in Requests, Working(r)
    PROVE  /\ req[r].pc \in Orders \ {"return"}
           /\ req[r].hold \in Holds /\ req[r].hold[1] \in Instructions
           /\ req[r].offer \in Offers /\ req[r].offer.total \in Totals
<1>1. req[r].pc \in Orders
  BY Unfolded DEF Working, Fitting
<1> QED BY <1>1, Carries DEF Working, Orders

LEMMA CheckoutBuyers ==
    ASSUME TypeInv, BuyerFacts, "overlap" \notin faults', NEW r \in Requests, NEW i \in Instructions,
           NEW o \in Offers, Checkout(r, i, o)
    PROVE  BuyerFacts' /\ \A q \in Requests : ~WorkingOn(q, i)
<1>1. ~\E q \in Requests : Buying(q, i)
  BY DEF Checkout, Blame
<1>2. i \notin pending /\ purchases[i] = None /\ UNCHANGED <<pending, purchases>>
  BY DEF Checkout, CanBuy, maps
<1>3. \A q \in Requests : ~WorkingOn(q, i)
  <2> SUFFICES ASSUME NEW q \in Requests, WorkingOn(q, i) PROVE FALSE
    OBVIOUS
  <2>1. req[q].told
    BY <1>1 DEF WorkingOn, Working, Buying
  <2> QED BY <1>2, <2>1 DEF WorkingOn, BuyerFacts, PendingIsTold
<1>4. req'[r].hold[1] = i /\ ~req'[r].told /\ \A q \in Requests \ {r} : Like(q)
  BY BeginEffects DEF Same, Like
<1>5. \A q \in Requests \ {r} : Working(q)' => /\ Working(q) /\ req'[q].hold = req[q].hold
                                               /\ req'[q].told = req[q].told /\ req[q].hold[1] # i
  BY <1>3, <1>4 DEF Like, Working, WorkingOn
<1>6. OneBuyer'
  BY <1>4, <1>5 DEF BuyerFacts, OneBuyer, WorkingOn
<1>7. PendingIsTold' /\ Unbought'
  BY <1>2, <1>4, <1>5 DEF BuyerFacts, PendingIsTold, Unbought
<1> QED BY <1>3, <1>6, <1>7 DEF BuyerFacts

LEMMA BuyersKept ==
    ASSUME BuyerFacts,
           \A q \in Requests : Working(q)' =>
              /\ Working(q) /\ req'[q].hold = req[q].hold
              /\ req'[q].told <=> req[q].hold[1] \in pending'
              /\ purchases'[req[q].hold[1]] = None
    PROVE  BuyerFacts'
  BY DEF BuyerFacts, OneBuyer, PendingIsTold, Unbought, WorkingOn

LEMMA RequestBuyers ==
    ASSUME TypeInv, BuyerFacts, "overlap" \notin faults', NEW r \in Requests,
           Step(r) \/ Outside(r) \/ Begins(r)
    PROVE  BuyerFacts'
<1>1. CASE \E i \in Instructions, o \in Offers : Checkout(r, i, o)
  BY <1>1, CheckoutBuyers
<1>2. CASE ~\E i \in Instructions, o \in Offers : Checkout(r, i, o)
  <2>1. \A q \in Requests \ {r} : Working(q)' => /\ Working(q) /\ req'[q].hold = req[q].hold
                                                 /\ req'[q].told = req[q].told
    BY StepEffects DEF Like, Working
  <2>2. Working(r)' => /\ Working(r) /\ req'[r].hold = req[r].hold
                       /\ req'[r].told = req[r].told \/ WaitTimesOut(r)
    BY <1>2, WorkingStep
  <2>3. CASE UNCHANGED <<purchases, pending>> /\ ~WaitTimesOut(r)
    BY <2>1, <2>2, <2>3, BuyersKept DEF BuyerFacts, PendingIsTold, Unbought
  <2>4. CASE WaitTimesOut(r)
    <3>1. Working(r) /\ UNCHANGED purchases /\ pending' = pending \cup {req[r].hold[1]} /\ req'[r].told
      BY <2>4, TimesOutEffects, Carries DEF WaitTimesOut, Working, Orders
    <3>2. \A q \in Requests \ {r} : Working(q) => req[q].hold[1] # req[r].hold[1]
      BY <3>1 DEF BuyerFacts, OneBuyer, WorkingOn
    <3> QED BY <2>1, <2>2, <3>1, <3>2, BuyersKept DEF BuyerFacts, PendingIsTold, Unbought
  <2>5. CASE Closes(r)
    <3>1. Working(r) /\ ~Working(r)'
      BY <2>5, Carries DEF Closes, Working, Orders
    <3>2. \A q \in Requests \ {r} : Working(q) => /\ req[q].hold[1] # req[r].hold[1]
                                                  /\ req[q].hold[1] \in Instructions
      BY <3>1, WorkingCarries DEF BuyerFacts, OneBuyer, WorkingOn
    <3>3. pending' = pending \ {req[r].hold[1]}
          /\ \A j \in Instructions : j # req[r].hold[1] => purchases'[j] = purchases[j]
      BY <2>5, Unfolded DEF Closes
    <3> QED BY <2>1, <3>1, <3>2, <3>3, BuyersKept DEF BuyerFacts, PendingIsTold, Unbought
  <2> QED BY <2>3, <2>4, <2>5, LedgerStep
<1> QED BY <1>1, <1>2

LEMMA BuyerStep == TypeInv /\ BuyerInv /\ [Next]_vars => BuyerInv'
<1> SUFFICES ASSUME TypeInv, BuyerInv, [Next]_vars, "overlap" \notin faults' PROVE BuyerFacts'
  BY DEF BuyerInv, BuyerFacts
<1>1. BuyerFacts
  BY FaultsGrow DEF BuyerInv, BuyerFacts
<1>2. ASSUME NEW r \in Requests, Step(r) \/ Outside(r) \/ Begins(r) PROVE BuyerFacts'
  BY <1>1, <1>2, RequestBuyers
<1>3. CASE Elsewhere \/ UNCHANGED vars
  BY <1>1, <1>3, RestEffects, BuyersKept DEF Like, Working, maps, BuyerFacts, PendingIsTold, Unbought
<1>4. CASE Restart
  BY <1>4 DEF Restart, BuyerFacts, OneBuyer, PendingIsTold, Unbought, Working, Idle
<1> QED BY <1>2, <1>3, <1>4 DEF Next, Begins, Elsewhere

LEMMA BuyerInit == Init => BuyerInv /\ MoneyInv
  BY DEF Init, BuyerInv, OneBuyer, PendingIsTold, Unbought, Working, Idle, MoneyInv, KeptIsAccountedFor,
     RefundIsMade, Kept, NoIntent

-----------------------------------------------------------------------------
(* Money is accounted for *)

RefundedStands == \A h \in Holds : intents[h].refunded => intents'[h].refunded

LEMMA RefundsStep == TypeInv /\ [Next]_vars => RefundedStands
<1> SUFFICES ASSUME TypeInv, [Next]_vars PROVE RefundedStands
  OBVIOUS
<1>1. \A h \in Holds : intents[h] \in IntentRecords
  BY Unfolded
<1>2. CASE UNCHANGED intents
  BY <1>2 DEF RefundedStands
<1>3. ASSUME NEW g \in Holds, NEW x, intents' = [intents EXCEPT ![g] = x],
             intents[g].refunded => x.refunded
      PROVE  RefundedStands
  BY <1>3, Unfolded DEF RefundedStands
<1>4. ASSUME NEW g \in Holds, NEW s, intents' = [intents EXCEPT ![g].state = s] PROVE RefundedStands
  <2>1. [intents[g] EXCEPT !.state = s].refunded = intents[g].refunded
    BY <1>1 DEF IntentRecords
  <2> QED BY <1>3, <1>4, <2>1
<1>5. ASSUME NEW r \in Requests, Outside(r) PROVE RefundedStands
  <2>1. req[r].hold \in Holds
    BY <1>5, Carries DEF Outside, StripeCreate, StripeCapture, StripeRefund, StripeCancel, MarketCheckout,
       ZincPlace, Called
  <2>2. CASE StripeCreate(r)
    <3>1. ASSUME NEW s, intents' = [intents EXCEPT ![req[r].hold].state = s, ![req[r].hold].created = s]
          PROVE  RefundedStands
      <4>1. \A h \in Holds : intents'[h] = IF h = req[r].hold
                                           THEN [intents[h] EXCEPT !.state = s, !.created = s]
                                           ELSE intents[h]
        BY <3>1, Unfolded
      <4> QED BY <1>1, <4>1 DEF IntentRecords, RefundedStands
    <3> QED BY <1>2, <2>2, <3>1 DEF StripeCreate
  <2>3. CASE StripeCapture(r)
    <3>1. ASSUME NEW t, intents' = [intents EXCEPT ![req[r].hold].state = "captured",
                                                   ![req[r].hold].received = t]
          PROVE  RefundedStands
      <4>1. \A h \in Holds : intents'[h] = IF h = req[r].hold
                                           THEN [intents[h] EXCEPT !.state = "captured", !.received = t]
                                           ELSE intents[h]
        BY <3>1, Unfolded
      <4> QED BY <1>1, <4>1 DEF IntentRecords, RefundedStands
    <3> QED BY <1>2, <2>3, <3>1 DEF StripeCapture, stripe
  <2>4. CASE StripeRefund(r)
    <3>1. [intents[req[r].hold] EXCEPT !.refunded = TRUE].refunded
      BY <1>1, <2>1 DEF IntentRecords
    <3> QED BY <1>2, <1>3, <2>1, <2>4, <3>1 DEF StripeRefund
  <2>5. CASE StripeCancel(r)
    BY <1>2, <1>4, <2>1, <2>5 DEF StripeCancel
  <2> QED BY <1>2, <1>5, <2>2, <2>3, <2>4, <2>5 DEF Outside, MarketCheckout, ZincPlace, stripe
<1>6. CASE (\E r \in Requests : Step(r) \/ Begins(r)) \/ Restart \/ UNCHANGED vars
           \/ \E h \in Holds, t \in Totals : ZincSettles(h, t)
  BY <1>2, <1>6 DEF Step, OnCreated, OnCreateRefused, OnMarket, OnCapture, OnPlaced, OnSettled, WaitTimesOut,
     WaitEnds, PollFails, OnRefunded, OnReturned, OnCanceled, Begins, Commit, Release, Checkout, Restart,
     vars, ZincSettles, stripe
<1>7. ASSUME NEW h \in Holds, CustomerConfirms(h) PROVE RefundedStands
  BY <1>4, <1>7 DEF CustomerConfirms
<1> QED BY <1>5, <1>6, <1>7 DEF Next, Begins

LEMMA RefundIsMadeStep ==
    ASSUME TypeInv, RefundIsMade, [Next]_vars, Calm'
    PROVE  RefundIsMade'
<1>1. RefundedStands
  BY RefundsStep
<1>2. ASSUME NEW q \in Requests, Like(q)
      PROVE  (req[q].pc \in {"refund", "return"} /\ req[q].answer = "ok" => intents[req[q].hold].refunded)'
  BY <1>1, <1>2, Carries DEF Like, RefundIsMade, RefundedStands
<1>3. ASSUME NEW r \in Requests, Step(r) \/ Outside(r) \/ Begins(r) PROVE RefundIsMade'
  <2> SUFFICES ASSUME req'[r].pc \in {"refund", "return"}, req'[r].answer = "ok"
               PROVE  intents'[req'[r].hold].refunded
    BY <1>2, <1>3, StepEffects DEF RefundIsMade
  <2>1. ~Begins(r)
    BY BeginEffects DEF Begins, FirstCall
  <2>2. ~Step(r)
    BY Effects, CreatedEffects, TimesOutEffects
       DEF Step, Ended, OnCreateRefused, OnMarket, OnCapture, OnPlaced, OnSettled, WaitEnds, PollFails,
           OnRefunded, OnReturned, OnCanceled
  <2>3. StripeRefund(r)
    BY <1>3, <2>1, <2>2, Effects DEF Outside, StripeCreate, StripeCapture, StripeCancel, MarketCheckout,
       ZincPlace, Called
  <2>4. req[r].hold \in Holds /\ req'[r].hold = req[r].hold
    BY <2>3, Carries, Effects DEF StripeRefund, Called, Keeps
  <2>5. intents' = [intents EXCEPT ![req[r].hold].refunded = TRUE]
    BY <2>3 DEF StripeRefund, Blame, Calm
  <2>6. [intents[req[r].hold] EXCEPT !.refunded = TRUE].refunded
    BY <2>4, Unfolded DEF IntentRecords
  <2> QED BY <2>4, <2>5, <2>6, Unfolded
<1>4. CASE Elsewhere \/ UNCHANGED vars
  BY <1>2, <1>4, RestEffects DEF RefundIsMade
<1>5. ~Restart
  BY DEF Restart, Blame, Calm
<1> QED BY <1>3, <1>4, <1>5 DEF Next, Begins, Elsewhere

\* What Stripe keeps after a step it kept before, but for a capture.
LEMMA KeptStep ==
    ASSUME TypeInv, [Next]_vars, NEW h \in Holds, intents'[h].state = "captured"
    PROVE  \/ intents[h].state = "captured"
           \/ \E r \in Requests : /\ StripeCapture(r) /\ req[r].hold = h
                                  /\ captures[h][req[r].offer.total] = "none"
                                  /\ intents[h].state = "requires_capture"
                                  /\ intents'[h] = [intents[h] EXCEPT !.state = "captured",
                                                                     !.received = req[r].offer.total]
                                  /\ Answer(r, "ok") \/ Blame("lost")
                                  /\ UNCHANGED <<maps, shipments, sales>>
<1> SUFFICES ASSUME intents[h].state # "captured"
             PROVE  \E r \in Requests : /\ StripeCapture(r) /\ req[r].hold = h
                                        /\ captures[h][req[r].offer.total] = "none"
                                        /\ intents[h].state = "requires_capture"
                                        /\ intents'[h] = [intents[h] EXCEPT !.state = "captured",
                                                                     !.received = req[r].offer.total]
                                        /\ Answer(r, "ok") \/ Blame("lost")
                                        /\ UNCHANGED <<maps, shipments, sales>>
  OBVIOUS
<1>1. \A g \in Holds : intents[g] \in IntentRecords
  BY Unfolded
<1>2. ~UNCHANGED intents
  OBVIOUS
<1>3. ASSUME NEW g \in Holds, NEW s, s # "captured", intents' = [intents EXCEPT ![g].state = s] PROVE FALSE
  <2>1. [intents[g] EXCEPT !.state = s].state # "captured"
    BY <1>1, <1>3 DEF IntentRecords
  <2> QED BY <1>3, <2>1, Unfolded
<1>4. ASSUME NEW r \in Requests, Outside(r) PROVE StripeCapture(r)
  <2>1. req[r].hold \in Holds
    BY <1>4, Carries DEF Outside, StripeCreate, StripeCapture, StripeRefund, StripeCancel, MarketCheckout,
       ZincPlace, Called
  <2>2. ~StripeCreate(r)
    <3>1. ASSUME NEW s \in {"requires_capture", "requires_action"},
                 intents' = [intents EXCEPT ![req[r].hold].state = s, ![req[r].hold].created = s]
          PROVE  FALSE
      <4>1. intents'[h] = IF h = req[r].hold THEN [intents[h] EXCEPT !.state = s, !.created = s]
                          ELSE intents[h]
        BY <3>1, Unfolded
      <4> QED BY <1>1, <4>1 DEF IntentRecords
    <3> QED BY <1>2, <3>1 DEF StripeCreate
  <2>3. ~StripeRefund(r)
    <3>1. [intents[req[r].hold] EXCEPT !.refunded = TRUE].state = intents[req[r].hold].state
      BY <1>1, <2>1 DEF IntentRecords
    <3> QED BY <1>2, <2>1, <3>1, Unfolded DEF StripeRefund
  <2>4. ~StripeCancel(r)
    BY <1>2, <1>3, <2>1 DEF StripeCancel
  <2> QED BY <1>2, <1>4, <2>2, <2>3, <2>4 DEF Outside, MarketCheckout, ZincPlace, stripe
<1>5. ~\E r \in Requests : Step(r) \/ Begins(r)
  BY <1>2 DEF Step, OnCreated, OnCreateRefused, OnMarket, OnCapture, OnPlaced, OnSettled, WaitTimesOut,
     WaitEnds, PollFails, OnRefunded, OnReturned, OnCanceled, Begins, Commit, Release, Checkout, stripe
<1>6. ~Restart /\ ~UNCHANGED vars /\ ~\E g \in Holds, t \in Totals : ZincSettles(g, t)
  BY <1>2 DEF Restart, vars, ZincSettles, stripe
<1>7. ~\E g \in Holds : CustomerConfirms(g)
  BY <1>3 DEF CustomerConfirms
<1>8. PICK r \in Requests : StripeCapture(r)
  BY <1>4, <1>5, <1>6, <1>7 DEF Next, Begins
<1>9. req[r].hold \in Holds
  BY <1>8, Carries DEF StripeCapture, Called
<1>10. /\ captures[req[r].hold][req[r].offer.total] = "none"
       /\ intents[req[r].hold].state = "requires_capture"
       /\ intents' = [intents EXCEPT ![req[r].hold].state = "captured",
                                     ![req[r].hold].received = req[r].offer.total]
       /\ Answer(r, "ok") \/ Blame("lost")
       /\ UNCHANGED <<maps, shipments, sales>>
  BY <1>2, <1>8 DEF StripeCapture, stripe
<1>11. intents'[h] = IF h = req[r].hold
                     THEN [intents[h] EXCEPT !.state = "captured", !.received = req[r].offer.total]
                     ELSE intents[h]
  BY <1>9, <1>10, Unfolded
<1>12. h = req[r].hold
  BY <1>11
<1> QED BY <1>8, <1>10, <1>11, <1>12

\* A paid request that stops answering for its hold.
LEMMA PaidLeaves ==
    ASSUME TypeInv, NEW r \in Requests, Step(r) \/ Outside(r) \/ Begins(r), Paid(r), Calm'
    PROVE  \/ Paid(r)' /\ req'[r].hold = req[r].hold
           \/ Closes(r)
           \/ WaitEnds(r) \/ OnRefunded(r) \/ OnReturned(r)
<1> USE DEF Paid, Answered
<1>1. ~Begins(r)
  BY DEF Begins, Commit, Release, Checkout
<1>2. CASE Outside(r)
  <2>1. PICK a : Answer(r, a)
    BY <1>2 DEF Outside, StripeCreate, StripeCapture, StripeRefund, StripeCancel, MarketCheckout, ZincPlace
  <2>2. Keeps(r) /\ req'[r].pc = req[r].pc
    BY <2>1, Effects
  <2>3. req[r].pc # "capture"
    BY <1>2 DEF Outside, StripeCreate, StripeCapture, StripeRefund, StripeCancel, MarketCheckout, ZincPlace,
       Called
  <2> QED BY <2>2, <2>3 DEF Keeps
<1>3. CASE Step(r)
  <2>1. CASE OnCapture(r) \/ OnSettled(r)
    BY <2>1, ClosesStep, Effects DEF Keeps
  <2>2. CASE WaitTimesOut(r)
    BY <2>2, TimesOutEffects
  <2>3. CASE OnPlaced(r)
    BY <2>3, Effects DEF OnPlaced, Keeps
  <2>4. ~PollFails(r)
    BY DEF PollFails, Blame, Calm
  <2> QED BY <1>3, <2>1, <2>2, <2>3, <2>4 DEF Step, OnCreated, OnCreateRefused, OnMarket, OnCanceled
<1> QED BY <1>1, <1>2, <1>3

\* An order nobody works on stays pending, and nobody works on it.
LEMMA PendingStep ==
    ASSUME TypeInv, BuyerFacts, Calm', NEW r \in Requests, Step(r) \/ Outside(r) \/ Begins(r),
           NEW i \in pending, \A q \in Requests : ~WorkingOn(q, i)
    PROVE  i \in pending' /\ \A q \in Requests : ~WorkingOn(q, i)'
<1>1. ~\E o \in Offers : Checkout(r, i, o)
  BY DEF Checkout, CanBuy
<1>2. ~WorkingOn(r, i)'
  <2>1. CASE \E j \in Instructions, o \in Offers : Checkout(r, j, o)
    BY <1>1, <2>1, BeginEffects DEF WorkingOn
  <2>2. CASE ~\E j \in Instructions, o \in Offers : Checkout(r, j, o)
    BY <2>2, WorkingStep DEF WorkingOn
  <2> QED BY <2>1, <2>2
<1>3. \A q \in Requests \ {r} : ~WorkingOn(q, i)'
  BY StepEffects DEF Like, WorkingOn, Working
<1>4. i \in pending'
  <2>1. CASE Closes(r)
    <3>1. Working(r)
      BY <2>1, Carries DEF Closes, Working, Orders
    <3> QED BY <2>1, <3>1 DEF Closes, WorkingOn
  <2> QED BY <2>1, LedgerStep DEF WaitTimesOut
<1> QED BY <1>2, <1>3, <1>4

LEMMA AccountStep ==
    ASSUME TypeInv, ZincInv, BuyerFacts, KeptIsAccountedFor, RefundIsMade, [Next]_vars, Calm'
    PROVE  KeptIsAccountedFor'
<1> SUFFICES ASSUME NEW h \in Holds, Kept(h)'
             PROVE  \/ \E q \in Requests : req'[q].hold = h /\ Paid(q)'
                    \/ h[1] \in pending' /\ \A q \in Requests : ~WorkingOn(q, h[1])'
                    \/ purchases'[h[1]] = intents'[h].received
  BY DEF KeptIsAccountedFor
<1>1. CASE intents[h].state # "captured"
  <2>1. PICK r \in Requests : /\ StripeCapture(r) /\ req[r].hold = h
                              /\ Answer(r, "ok") \/ Blame("lost")
    BY <1>1, KeptStep DEF Kept
  <2>2. Answer(r, "ok")
    BY <2>1 DEF Blame, Calm
  <2> QED BY <2>1, <2>2, Effects DEF StripeCapture, Called, Keeps, Paid, Answered
<1>2. CASE intents[h].state = "captured"
  <2>1. intents'[h].received = intents[h].received
    BY <1>2, StripeStep DEF ZincInv, StripeStands
  <2>2. Kept(h)
    BY <1>2, RefundsStep DEF Kept, RefundedStands
  <2>3. h[1] \in Instructions
    BY DEF Holds
  <2>4. ASSUME NEW r \in Requests, Step(r) \/ Outside(r) \/ Begins(r)
        PROVE  \/ \E q \in Requests : req'[q].hold = h /\ Paid(q)'
               \/ h[1] \in pending' /\ \A q \in Requests : ~WorkingOn(q, h[1])'
               \/ purchases'[h[1]] = intents'[h].received
    <3>1. ASSUME NEW q \in Requests \ {r}, req[q].hold = h, Paid(q) PROVE req'[q].hold = h /\ Paid(q)'
      BY <2>4, <3>1, StepEffects DEF Like, Paid, Answered
    <3>2. CASE req[r].hold = h /\ Paid(r)
      <4>1. CASE Closes(r)
        <5>1. CASE purchases' = [purchases EXCEPT ![h[1]] = intents[h].received]
          BY <2>1, <2>3, <5>1, Unfolded
        <5>2. CASE ~(purchases' = [purchases EXCEPT ![h[1]] = intents[h].received])
          BY <3>2, <4>1, <5>2 DEF Closes, Keeps, Paid
        <5> QED BY <5>1, <5>2
      <4>2. CASE WaitEnds(r)
        <5>1. Working(r) /\ req[r].told
          BY <4>2, Carries DEF WaitEnds, Working, Orders
        <5>2. h[1] \in pending /\ UNCHANGED pending
          BY <3>2, <4>2, <5>1 DEF WaitEnds, maps, BuyerFacts, PendingIsTold
        <5>3. \A q \in Requests \ {r} : ~WorkingOn(q, h[1])
          BY <3>2, <5>1 DEF BuyerFacts, OneBuyer
        <5>4. \A q \in Requests \ {r} : ~WorkingOn(q, h[1])'
          BY <2>4, <5>3, StepEffects DEF Like, WorkingOn, Working
        <5>5. ~WorkingOn(r, h[1])'
          BY <4>2, Effects DEF WaitEnds, Ended, WorkingOn, Working
        <5> QED BY <5>2, <5>4, <5>5
      <4>3. ~OnRefunded(r) /\ ~OnReturned(r)
        BY <2>2, <3>2 DEF OnRefunded, OnReturned, Answered, RefundIsMade, Kept
      <4> QED BY <2>4, <3>2, <4>1, <4>2, <4>3, PaidLeaves
    <3>3. CASE h[1] \in pending /\ \A q \in Requests : ~WorkingOn(q, h[1])
      BY <2>4, <3>3, PendingStep
    <3>4. CASE purchases[h[1]] = intents[h].received
      <4>1. purchases[h[1]] # None
        <5>1. intents[h].received \in Totals \cup {0}
          BY Unfolded DEF IntentRecords
        <5> QED BY <3>4, <5>1, MoneyAssumption
      <4>2. CASE Closes(r)
        <5>1. Working(r)
          BY <4>2, Carries DEF Closes, Working, Orders
        <5>2. req[r].hold[1] # h[1]
          BY <4>1, <5>1 DEF BuyerFacts, Unbought
        <5> QED BY <2>1, <2>3, <3>4, <4>2, <5>2, Unfolded DEF Closes
      <4> QED BY <2>1, <2>4, <3>4, <4>2, LedgerStep DEF WaitTimesOut
    <3> QED BY <2>2, <3>1, <3>2, <3>3, <3>4 DEF KeptIsAccountedFor
  <2>5. CASE Elsewhere \/ UNCHANGED vars
    BY <2>1, <2>2, <2>5, RestEffects DEF Like, KeptIsAccountedFor, Paid, Answered, WorkingOn, Working, maps
  <2>6. ~Restart
    BY DEF Restart, Blame, Calm
  <2> QED BY <2>4, <2>5, <2>6 DEF Next, Begins, Elsewhere
<1> QED BY <1>1, <1>2

CalmInv == TypeInv /\ ZincInv /\ BuyerInv /\ MoneyInv

LEMMA CalmInvariant == Spec => []CalmInv
<1>1. Init => CalmInv
  BY InitInv, BuyerInit DEF CalmInv
<1>2. CalmInv /\ [Next]_vars => CalmInv'
  <2> SUFFICES ASSUME CalmInv, [Next]_vars PROVE CalmInv'
    OBVIOUS
  <2>1. ASSUME Calm' PROVE (KeptIsAccountedFor /\ RefundIsMade)'
    <3>1. BuyerFacts /\ KeptIsAccountedFor /\ RefundIsMade
      BY <2>1, FaultsGrow DEF CalmInv, BuyerInv, MoneyInv, BuyerFacts, Calm
    <3> QED BY <2>1, <3>1, AccountStep, RefundIsMadeStep DEF CalmInv
  <2> QED BY <2>1, TypeStep, ZincStep, BuyerStep DEF CalmInv, MoneyInv
<1> QED BY <1>1, <1>2, PTL DEF Spec

\* Money is kept for a purchase only: once no request works on a hold and its
\* order is not pending, what was captured bought what the service remembers, or
\* was given back.
THEOREM NoMoneyUnaccounted == Spec => []MoneyIsAccountedFor
<1>1. CalmInv => MoneyIsAccountedFor
  <2> SUFFICES ASSUME CalmInv, Calm, NEW h \in Holds, Kept(h), h[1] \notin pending,
                      \A r \in Requests : req[r].hold = h => req[r].offer = None
               PROVE  purchases[h[1]] = intents[h].received
    BY DEF MoneyIsAccountedFor, Calm, Kept
  <2>1. \A r \in Requests : Paid(r) => req[r].offer # None
    BY Carries DEF CalmInv, Paid, Answered, Orders
  <2> QED BY <2>1 DEF CalmInv, MoneyInv, KeptIsAccountedFor
<1> QED BY <1>1, CalmInvariant, PTL

-----------------------------------------------------------------------------
(* One order at most *)

OrderFacts == (\A i \in Instructions : OneOrder(i)) /\ IdleHasNoOrder /\ BuyerKnowsOrders

LEMMA LiveMembers ==
    ASSUME NEW i \in Instructions
    PROVE  /\ \A ht \in Live(i) : /\ ht[1] \in Holds /\ ht[2] \in Totals /\ ht = <<ht[1], ht[2]>>
                                  /\ ht[1][1] = i
                                  /\ shipments[ht[1]][ht[2]] \in {"processing", "placed"}
           /\ \A h \in Holds, t \in Totals :
                 h[1] = i /\ shipments[h][t] \in {"processing", "placed"} => <<h, t>> \in Live(i)
  BY DEF Live, Holds

\* Orders that are not made new stay, or go.
LEMMA LiveShrinks ==
    ASSUME NEW i \in Instructions,
           \A h \in Holds, t \in Totals :
              h[1] = i /\ shipments'[h][t] \in {"processing", "placed"} =>
                 shipments[h][t] \in {"processing", "placed"}
    PROVE  Live(i)' \subseteq Live(i)
<1> SUFFICES ASSUME NEW ht \in Live(i)' PROVE ht \in Live(i)
  OBVIOUS
<1>1. /\ ht[1] \in {i} \X Attempts /\ ht[2] \in Totals /\ ht = <<ht[1], ht[2]>>
      /\ shipments'[ht[1]][ht[2]] \in {"processing", "placed"}
  BY DEF Live
<1>2. ht[1] \in Holds /\ ht[1][1] = i
  BY <1>1 DEF Holds
<1>3. <<ht[1], ht[2]>> \in Live(i)
  BY <1>1, <1>2, LiveMembers
<1> QED BY <1>1, <1>3

LEMMA FailedIsNotLive ==
    ASSUME NEW i \in Instructions, NEW h \in Holds, NEW t \in Totals, Live(i) \subseteq {<<h, t>>},
           shipments[h][t] = "failed"
    PROVE  Live(i) = {}
  BY LiveMembers

\* Nothing new for any instruction, but for those the step says.
LEMMA OrdersStep ==
    ASSUME TypeInv, NEW r \in Requests, Step(r) \/ Outside(r) \/ Begins(r)
    PROVE  \/ UNCHANGED <<shipments, sales>>
           \/ MarketCheckout(r) \/ ZincPlace(r)
  BY DEF Step, OnCreated, OnCreateRefused, OnMarket, OnCapture, OnPlaced, OnSettled,
     WaitTimesOut, WaitEnds, PollFails, OnRefunded, OnReturned, OnCanceled, Outside, StripeCreate,
     StripeCapture, StripeRefund, StripeCancel, Begins, Commit, Release, Checkout

\* A request goes on working without a word from the market or Zinc.
LEMMA ClassKept ==
    ASSUME TypeInv, NEW r \in Requests, Step(r) \/ Outside(r) \/ Begins(r), faults' \subseteq {"rearm"},
           Working(r)', ~MarketCheckout(r), ~ZincPlace(r),
           ~\E i \in Instructions, o \in Offers : Checkout(r, i, o)
    PROVE  /\ Working(r) /\ req'[r].hold = req[r].hold /\ req'[r].offer = req[r].offer
           /\ Sold(r)' <=> Sold(r)
           /\ Ordered(r)' <=> Ordered(r)
<1> USE DEF Sold, Ordered, Answered
<1>1. Working(r) /\ req'[r].hold = req[r].hold /\ req'[r].offer = req[r].offer
  BY WorkingStep
<1>2. ~Begins(r)
  BY <1>1, Unfolded DEF Begins, Commit, Release, Checkout, Working, Fitting, Orders
<1>3. CASE Outside(r)
  <2>1. PICK a : Answer(r, a)
    BY <1>3 DEF Outside, StripeCreate, StripeCapture, StripeRefund, StripeCancel, MarketCheckout, ZincPlace
  <2>2. Keeps(r) /\ req'[r].pc = req[r].pc
    BY <2>1, Effects
  <2>3. req[r].pc \notin {"market", "place"}
    BY <1>3 DEF Outside, StripeCreate, StripeCapture, StripeRefund, StripeCancel, Called
  <2> QED BY <1>1, <2>2, <2>3 DEF Keeps
<1>4. CASE Step(r)
  <2>1. ~Ended(r)
    BY DEF Ended, Working
  <2>2. ~OnCreated(r) /\ ~Finish(r)
    BY <2>1, CreatedEffects, Effects
  <2>3. CASE OnMarket(r)
    <3>1. req[r].offer.merchant = "market"
      BY <2>3, Unfolded DEF OnMarket, Fitting
    <3> QED BY <1>1, <2>2, <2>3, <3>1, Effects DEF OnMarket, Keeps
  <2>4. CASE OnCapture(r)
    <3>1. Await(r, "place") /\ req[r].pc = "capture" /\ req[r].offer.merchant # "market"
      BY <2>2, <2>4 DEF OnCapture
    <3> QED BY <1>1, <3>1, Effects DEF Keeps
  <2>5. CASE OnPlaced(r)
    BY <1>1, <2>5, Effects DEF OnPlaced, Keeps
  <2>6. ~OnSettled(r)
    BY ClosesStep DEF OnSettled, Closes
  <2>7. CASE WaitTimesOut(r)
    BY <1>1, <2>7, TimesOutEffects DEF WaitTimesOut
  <2>8. ~PollFails(r)
    BY DEF PollFails, Blame
  <2> QED BY <1>4, <2>2, <2>3, <2>4, <2>5, <2>6, <2>7, <2>8
          DEF Step, OnCreateRefused, WaitEnds, OnRefunded, OnReturned, OnCanceled
<1> QED BY <1>1, <1>2, <1>3, <1>4

\* How a request stops working.
LEMMA Leaving ==
    ASSUME TypeInv, NEW r \in Requests, Step(r) \/ Outside(r) \/ Begins(r), faults' \subseteq {"rearm"},
           Working(r), ~Working(r)'
    PROVE  Closes(r) \/ WaitEnds(r) \/ (~Sold(r) /\ ~Ordered(r))
<1> USE DEF Sold, Ordered, Answered
<1>1. ~Begins(r)
  BY Unfolded DEF Begins, Commit, Release, Checkout, Working, Fitting, Orders
<1>2. ~Outside(r)
  BY Effects DEF Keeps, Outside, StripeCreate, StripeCapture, StripeRefund, StripeCancel, MarketCheckout,
     ZincPlace, Working
<1>3. ~OnCreated(r) /\ ~OnCreateRefused(r) /\ ~OnCanceled(r) /\ ~OnReturned(r)
  BY WorkingCarries DEF OnCreated, OnCreateRefused, OnCanceled, OnReturned, Orders
<1>4. ~PollFails(r)
  BY DEF PollFails, Blame
<1>5. ~OnPlaced(r) /\ ~WaitTimesOut(r)
  BY Effects, TimesOutEffects DEF OnPlaced, Keeps, Working
<1>6. CASE OnCapture(r)
  <2>1. CASE req[r].answer = "refused"
    BY <1>6, <2>1 DEF OnCapture, Blame
  <2> QED BY <1>6, <2>1, ClosesStep, Effects DEF Keeps, Working
<1>7. CASE OnMarket(r)
  BY <1>7, Effects DEF OnMarket, Keeps, Working
<1>8. CASE OnSettled(r)
  BY <1>8, ClosesStep DEF OnSettled
<1>9. CASE OnRefunded(r)
  BY <1>9 DEF OnRefunded
<1> QED BY <1>1, <1>2, <1>3, <1>4, <1>5, <1>6, <1>7, <1>8, <1>9 DEF Step

\* Orders that stand, as a step leaves them.
LEMMA OrdersRest ==
    ASSUME UNCHANGED <<shipments, sales>>, NEW i \in Instructions
    PROVE  Live(i)' = Live(i) /\ (NoOrder(i)' <=> NoOrder(i)) /\ (OneOrder(i)' <=> OneOrder(i))
  BY DEF Live, NoOrder, OneOrder

\* Others, while a request works on an instruction of its own.
LEMMA OthersRest ==
    ASSUME TypeInv, BuyerFacts, NEW r \in Requests, Step(r) \/ Outside(r) \/ Begins(r), Working(r),
           NEW q \in Requests \ {r}, Working(q)'
    PROVE  /\ Working(q) /\ req[q].hold[1] # req[r].hold[1]
           /\ req'[q].hold = req[q].hold /\ req'[q].offer = req[q].offer
           /\ (Sold(q)' <=> Sold(q)) /\ (Ordered(q)' <=> Ordered(q))
<1>1. Like(q)
  BY StepEffects
<1>2. Working(q)
  BY <1>1 DEF Like, Working
<1>3. req[q].hold[1] # req[r].hold[1]
  BY <1>2 DEF BuyerFacts, OneBuyer, WorkingOn
<1> QED BY <1>1, <1>2, <1>3 DEF Like, Sold, Ordered, Answered

\* The market sells, or Zinc is handed an order: what there is of it is known to
\* the request, and nothing else changes.
LEMMA SaleStep ==
    ASSUME TypeInv, BuyerFacts, OrderFacts, NEW r \in Requests, MarketCheckout(r) \/ ZincPlace(r),
           NEW j \in Instructions, j = req[r].hold[1], Working(r), Working(r)',
           req'[r].hold = req[r].hold, req'[r].offer = req[r].offer,
           UNCHANGED <<purchases, pending>>,
           \A i \in Instructions : i # j => Live(i)' \subseteq Live(i) /\ sales'[i] = sales[i],
           OneOrder(j)',
           Sold(r)' => Live(j)' = {},
           Ordered(r)' => sales'[j] = << >> /\ Live(j)' \subseteq {<<req[r].hold, req[r].offer.total>>},
           ~Sold(r)' /\ ~Ordered(r)' => NoOrder(j)'
    PROVE  OrderFacts'
<1>1. \A i \in Instructions : i # j => Live(i)' \subseteq Live(i) /\ sales'[i] = sales[i]
  OBVIOUS
<1>2. \A i \in Instructions : i # j => (OneOrder(i) => OneOrder(i)') /\ (NoOrder(i) => NoOrder(i)')
  BY <1>1 DEF OneOrder, NoOrder
<1>3. \A i \in Instructions : OneOrder(i)'
  BY <1>2 DEF OrderFacts
<1>4. Step(r) \/ Outside(r) \/ Begins(r)
  BY DEF Outside
<1>5. IdleHasNoOrder'
  <2> SUFFICES ASSUME NEW i \in Instructions, purchases'[i] = None, i \notin pending',
                      \A q \in Requests : ~WorkingOn(q, i)'
               PROVE  NoOrder(i)'
    BY DEF IdleHasNoOrder
  <2>1. i # j
    BY DEF WorkingOn
  <2>2. \A q \in Requests : ~WorkingOn(q, i)
    BY <1>4, <2>1, StepEffects DEF Like, WorkingOn, Working
  <2> QED BY <1>2, <2>1, <2>2 DEF OrderFacts, IdleHasNoOrder
<1>6. BuyerKnowsOrders'
  <2> SUFFICES ASSUME NEW q \in Requests, Working(q)', NEW k, k = req'[q].hold[1]
               PROVE  /\ Sold(q)' => Live(k)' = {}
                      /\ Ordered(q)' => /\ sales'[k] = << >>
                                        /\ Live(k)' \subseteq {<<req'[q].hold, req'[q].offer.total>>}
                      /\ ~Sold(q)' /\ ~Ordered(q)' => NoOrder(k)'
    BY DEF BuyerKnowsOrders
  <2>1. CASE q = r
    BY <2>1
  <2>2. CASE q # r
    <3>1. /\ Working(q) /\ k # j /\ k \in Instructions /\ k = req[q].hold[1]
          /\ req'[q].hold = req[q].hold /\ req'[q].offer = req[q].offer
          /\ (Sold(q)' <=> Sold(q)) /\ (Ordered(q)' <=> Ordered(q))
      BY <1>4, <2>2, OthersRest, WorkingCarries
    <3>2. /\ Sold(q) => Live(k) = {}
          /\ Ordered(q) => /\ sales[k] = << >>
                           /\ Live(k) \subseteq {<<req[q].hold, req[q].offer.total>>}
          /\ ~Sold(q) /\ ~Ordered(q) => NoOrder(k)
      <4>1. /\ Sold(q) => Live(req[q].hold[1]) = {}
            /\ Ordered(q) => /\ sales[req[q].hold[1]] = << >>
                             /\ Live(req[q].hold[1]) \subseteq {<<req[q].hold, req[q].offer.total>>}
            /\ ~Sold(q) /\ ~Ordered(q) => NoOrder(req[q].hold[1])
        BY <3>1 DEF OrderFacts, BuyerKnowsOrders
      <4> QED BY <3>1, <4>1
    <3>3. Live(k)' \subseteq Live(k) /\ sales'[k] = sales[k] /\ (NoOrder(k) => NoOrder(k)')
      BY <1>1, <1>2, <3>1
    <3> QED BY <3>1, <3>2, <3>3
  <2> QED BY <2>1, <2>2
<1> QED BY <1>3, <1>5, <1>6 DEF OrderFacts

LEMMA MarketOrders ==
    ASSUME TypeInv, BuyerFacts, OrderFacts, NEW r \in Requests, MarketCheckout(r), faults' \subseteq {"rearm"}
    PROVE  OrderFacts'
<1>0. Working(r) /\ req[r].hold[1] \in Instructions /\ req[r].offer.total \in Totals
  BY Carries DEF MarketCheckout, Called, Working, Orders
<1>1. PICK j \in Instructions : j = req[r].hold[1]
  BY <1>0
<1>2. NoOrder(j)
  <2>1. ~Sold(r) /\ ~Ordered(r)
    BY DEF MarketCheckout, Called, Sold, Ordered, Answered
  <2> QED BY <1>0, <1>1, <2>1 DEF OrderFacts, BuyerKnowsOrders
<1>3. /\ req'[r].pc = "market" /\ req'[r].hold = req[r].hold /\ req'[r].offer = req[r].offer
      /\ Working(r)'
  BY <1>0, <1>1, Effects DEF MarketCheckout, Called, Keeps, Working
<1>4. \A i \in Instructions : Live(i)' = Live(i)
  BY DEF MarketCheckout, Live
<1>5. ~Ordered(r)'
  BY <1>3 DEF Ordered, Answered
<1>6. UNCHANGED <<purchases, pending>>
  BY DEF MarketCheckout, maps
<1>7. CASE Answer(r, "ok") /\ sales' = [sales EXCEPT ![j] = Append(@, req[r].offer.total)]
  <2>1. sales'[j] = <<req[r].offer.total>> /\ \A i \in Instructions : i # j => sales'[i] = sales[i]
    <3>1. sales'[j] = Append(sales[j], req[r].offer.total)
      BY <1>0, <1>1, <1>7, Unfolded
    <3>2. sales[j] = << >>
      BY <1>2 DEF NoOrder
    <3> QED BY <1>0, <1>1, <1>7, <3>1, <3>2, Unfolded
  <2>2. Len(sales'[j]) <= 1
    BY <2>1
  <2>3. OneOrder(j)' /\ Live(j)' = {}
    BY <1>0, <1>1, <1>2, <1>4, <2>2 DEF OneOrder, NoOrder
  <2>4. Sold(r)'
    BY <1>3, <1>7, Effects DEF Sold, Answered
  <2> QED BY <1>0, <1>1, <1>2, <1>3, <1>4, <1>5, <1>6, <2>1, <2>3, <2>4, SaleStep
<1>8. CASE Answer(r, "refused") /\ UNCHANGED sales
  <2>1. OneOrder(j)' /\ NoOrder(j)'
    BY <1>0, <1>1, <1>2, <1>4, <1>8 DEF OneOrder, NoOrder
  <2>2. ~Sold(r)'
    BY <1>3, <1>8, Effects DEF Sold, Answered
  <2> QED BY <1>0, <1>1, <1>2, <1>3, <1>4, <1>5, <1>6, <1>8, <2>1, <2>2, SaleStep
<1> QED BY <1>1, <1>7, <1>8 DEF MarketCheckout, Blame

LEMMA ZincOrders ==
    ASSUME TypeInv, BuyerFacts, OrderFacts, NEW r \in Requests, ZincPlace(r), faults' \subseteq {"rearm"}
    PROVE  OrderFacts'
<1>0. /\ Working(r) /\ req[r].hold \in Holds /\ req[r].hold[1] \in Instructions
      /\ req[r].offer.total \in Totals
  BY Carries DEF ZincPlace, Called, Working, Orders
<1>1. PICK j \in Instructions, h \in Holds, t \in Totals :
         j = req[r].hold[1] /\ h = req[r].hold /\ t = req[r].offer.total
  BY <1>0
<1>2. NoOrder(j)
  <2>1. ~Sold(r) /\ ~Ordered(r)
    BY DEF ZincPlace, Called, Sold, Ordered, Answered
  <2> QED BY <1>0, <1>1, <2>1 DEF OrderFacts, BuyerKnowsOrders
<1>3. /\ req'[r].pc = "place" /\ req'[r].hold = h /\ req'[r].offer = req[r].offer
      /\ Working(r)'
  BY <1>0, <1>1, Effects DEF ZincPlace, Called, Keeps, Working
<1>4. ~Sold(r)'
  BY <1>3 DEF Sold, Answered
<1>5. UNCHANGED <<sales, purchases, pending>>
  BY DEF ZincPlace, maps
<1>6. Live(j)' \subseteq {<<h, t>>} /\ \A i \in Instructions : i # j => Live(i)' \subseteq Live(i)
  <2>1. \A g \in Holds, u \in Totals : g # h \/ u # t => shipments'[g][u] = shipments[g][u]
    BY <1>0, <1>1, Unfolded DEF ZincPlace
  <2>2. ASSUME NEW i \in Instructions, i # j PROVE Live(i)' \subseteq Live(i)
    BY <1>1, <2>1, <2>2, LiveShrinks
  <2>3. ASSUME NEW ht \in Live(j)' PROVE ht = <<h, t>>
    <3>1. /\ ht[1] \in {j} \X Attempts /\ ht[2] \in Totals /\ ht = <<ht[1], ht[2]>>
          /\ shipments'[ht[1]][ht[2]] \in {"processing", "placed"}
      BY DEF Live
    <3>2. ht[1] \in Holds /\ ht[1][1] = j
      BY <1>0, <1>1, <3>1 DEF Holds
    <3>3. ht \notin Live(j)
      BY <1>2 DEF NoOrder
    <3>4. ht[1] = h /\ ht[2] = t
      BY <1>0, <1>1, <2>1, <3>1, <3>2, <3>3, LiveMembers
    <3> QED BY <3>1, <3>4
  <2> QED BY <2>2, <2>3
<1>7. OneOrder(j)'
  BY <1>0, <1>1, <1>2, <1>5, <1>6 DEF OneOrder, NoOrder
<1>8. CASE Answer(r, "ok")
  <2>1. Ordered(r)'
    BY <1>3, <1>8, Effects DEF Ordered, Answered
  <2>2. sales'[j] = << >>
    BY <1>2, <1>5 DEF NoOrder
  <2> QED BY <1>0, <1>1, <1>2, <1>3, <1>4, <1>5, <1>6, <1>7, <2>1, <2>2, SaleStep
<1>9. CASE Answer(r, "refused") /\ UNCHANGED shipments
  <2>1. NoOrder(j)'
    BY <1>0, <1>1, <1>2, <1>5, <1>9, OrdersRest
  <2>2. ~Ordered(r)'
    BY <1>3, <1>9, Effects DEF Ordered, Answered
  <2> QED BY <1>0, <1>1, <1>2, <1>3, <1>4, <1>5, <1>6, <1>7, <2>1, <2>2, SaleStep
<1> QED BY <1>8, <1>9 DEF ZincPlace, Blame

\* A request that begins to buy finds no order.
LEMMA CheckoutOrders ==
    ASSUME TypeInv, BuyerFacts, OrderFacts, NEW r \in Requests, faults' \subseteq {"rearm"},
           NEW j \in Instructions, NEW o \in Offers, Checkout(r, j, o)
    PROVE  OrderFacts'
<1>1. "overlap" \notin faults'
  OBVIOUS
<1>2. NoOrder(j)
  BY <1>1, CheckoutBuyers DEF OrderFacts, IdleHasNoOrder, Checkout, CanBuy
<1>3. UNCHANGED <<purchases, pending, shipments, sales>>
  BY DEF Checkout, maps
<1>4. \A i \in Instructions : Live(i)' = Live(i) /\ (NoOrder(i)' <=> NoOrder(i)) /\ (OneOrder(i)' <=> OneOrder(i))
  BY <1>3, OrdersRest
<1>5. /\ req'[r].hold[1] = j /\ req'[r].offer = o /\ ~Sold(r)' /\ ~Ordered(r)'
      /\ \A q \in Requests \ {r} : Same(q)
  BY BeginEffects DEF Sold, Ordered, Answered, FirstCall
<1>6. ~Working(r)
  BY Unfolded DEF Checkout, Working, Fitting, Orders
<1>7. IdleHasNoOrder'
  <2>1. \A q \in Requests, i \in Instructions : WorkingOn(q, i) => WorkingOn(q, i)'
    BY <1>5, <1>6 DEF Same, WorkingOn, Working
  <2> QED BY <1>3, <1>4, <2>1 DEF OrderFacts, IdleHasNoOrder
<1>8. BuyerKnowsOrders'
  <2> SUFFICES ASSUME NEW q \in Requests, Working(q)', NEW k, k = req'[q].hold[1]
               PROVE  /\ Sold(q)' => Live(k)' = {}
                      /\ Ordered(q)' => /\ sales'[k] = << >>
                                        /\ Live(k)' \subseteq {<<req'[q].hold, req'[q].offer.total>>}
                      /\ ~Sold(q)' /\ ~Ordered(q)' => NoOrder(k)'
    BY DEF BuyerKnowsOrders
  <2>1. CASE q = r
    BY <1>2, <1>4, <1>5, <2>1
  <2>2. CASE q # r
    <3>1. /\ Working(q) /\ req'[q].hold = req[q].hold /\ req'[q].offer = req[q].offer
          /\ (Sold(q)' <=> Sold(q)) /\ (Ordered(q)' <=> Ordered(q))
      BY <1>5, <2>2 DEF Same, Working, Sold, Ordered, Answered
    <3>2. k = req[q].hold[1] /\ k \in Instructions
      BY <3>1, WorkingCarries
    <3>3. /\ Sold(q) => Live(req[q].hold[1]) = {}
          /\ Ordered(q) => /\ sales[req[q].hold[1]] = << >>
                           /\ Live(req[q].hold[1]) \subseteq {<<req[q].hold, req[q].offer.total>>}
          /\ ~Sold(q) /\ ~Ordered(q) => NoOrder(req[q].hold[1])
      BY <3>1 DEF OrderFacts, BuyerKnowsOrders
    <3> QED BY <1>3, <1>4, <3>1, <3>2, <3>3
  <2> QED BY <2>1, <2>2
<1> QED BY <1>4, <1>7, <1>8 DEF OrderFacts

\* A request goes on, or ends, and the orders stand.
LEMMA GoesOnOrders ==
    ASSUME TypeInv, ZincInv, BuyerFacts, OrderFacts, NEW r \in Requests, Step(r) \/ Outside(r) \/ Begins(r),
           ~MarketCheckout(r), ~ZincPlace(r), faults' \subseteq {"rearm"},
           ~\E i \in Instructions, o \in Offers : Checkout(r, i, o)
    PROVE  OrderFacts'
<1>1. UNCHANGED <<shipments, sales>>
  BY OrdersStep
<1>2. \A i \in Instructions : Live(i)' = Live(i) /\ (NoOrder(i)' <=> NoOrder(i)) /\ (OneOrder(i)' <=> OneOrder(i))
  BY <1>1, OrdersRest
<1>3. \A q \in Requests : Working(q)' =>
         /\ Working(q) /\ req'[q].hold = req[q].hold /\ req'[q].offer = req[q].offer
         /\ (Sold(q)' <=> Sold(q)) /\ (Ordered(q)' <=> Ordered(q))
  <2>1. \A q \in Requests \ {r} : Like(q)
    BY StepEffects
  <2> QED BY <2>1, ClassKept DEF Like, Working, Sold, Ordered, Answered
<1>4. IdleHasNoOrder'
  <2> SUFFICES ASSUME NEW i \in Instructions, purchases'[i] = None, i \notin pending',
                      \A q \in Requests : ~WorkingOn(q, i)'
               PROVE  NoOrder(i)
    BY <1>2 DEF IdleHasNoOrder
  <2>1. \A q \in Requests \ {r} : ~WorkingOn(q, i)
    BY StepEffects DEF Like, WorkingOn, Working
  <2>2. CASE WorkingOn(r, i)
    <3>1. Working(r) /\ req[r].hold[1] = i /\ ~Working(r)'
      BY <1>3, <2>2 DEF WorkingOn
    <3>2. CASE Closes(r)
      <4>1. req[r].hold \in Holds /\ req[r].offer.total \in Totals
        BY <3>1, WorkingCarries
      <4>2. UNCHANGED purchases
        <5>1. intents[req[r].hold].received \in Totals
          BY <3>2, <4>1 DEF Closes, ZincInv, CaptureStands, PaidIsCaptured
        <5>2. purchases' # [purchases EXCEPT ![i] = intents[req[r].hold].received]
          BY <5>1, MoneyAssumption, Unfolded
        <5> QED BY <3>1, <3>2, <5>2 DEF Closes
      <4>3. req[r].pc = "wait" /\ shipments[req[r].hold][req[r].offer.total] = "failed"
        <5>1. CASE Ended(r) /\ purchases' = [purchases EXCEPT ![i] = intents[req[r].hold].received]
          <6>1. intents[req[r].hold].received \in Totals
            BY <3>2, <4>1 DEF Closes, ZincInv, CaptureStands, PaidIsCaptured
          <6> QED BY <5>1, <6>1, MoneyAssumption, Unfolded
        <5> QED BY <3>1, <3>2, <5>1 DEF Closes, Shipment
      <4>4. sales[req[r].hold[1]] = << >>
            /\ Live(req[r].hold[1]) \subseteq {<<req[r].hold, req[r].offer.total>>}
        BY <3>1, <4>3 DEF OrderFacts, BuyerKnowsOrders, Ordered
      <4>5. sales[i] = << >> /\ Live(i) \subseteq {<<req[r].hold, req[r].offer.total>>}
        BY <3>1, <4>4
      <4> QED BY <4>1, <4>3, <4>5, FailedIsNotLive DEF NoOrder
    <3>3. ~WaitEnds(r)
      BY <3>1 DEF WaitEnds, BuyerFacts, PendingIsTold, maps
    <3>4. CASE ~Sold(r) /\ ~Ordered(r)
      <4>1. NoOrder(req[r].hold[1])
        BY <3>1, <3>4 DEF OrderFacts, BuyerKnowsOrders
      <4> QED BY <3>1, <4>1
    <3> QED BY <3>1, <3>2, <3>3, <3>4, Leaving
  <2>3. CASE ~WorkingOn(r, i)
    <3>1. purchases[i] = None /\ i \notin pending
      <4>1. CASE Closes(r)
        <5>1. Working(r)
          BY <4>1, Carries DEF Closes, Working, Orders
        <5> QED BY <2>3, <4>1, <5>1, Unfolded DEF Closes, WorkingOn
      <4> QED BY <4>1, LedgerStep DEF WaitTimesOut
    <3> QED BY <2>1, <2>3, <3>1 DEF OrderFacts, IdleHasNoOrder
  <2> QED BY <2>2, <2>3
<1>5. BuyerKnowsOrders'
  <2> SUFFICES ASSUME NEW q \in Requests, Working(q)', NEW k, k = req'[q].hold[1]
               PROVE  /\ Sold(q)' => Live(k)' = {}
                      /\ Ordered(q)' => /\ sales'[k] = << >>
                                        /\ Live(k)' \subseteq {<<req'[q].hold, req'[q].offer.total>>}
                      /\ ~Sold(q)' /\ ~Ordered(q)' => NoOrder(k)'
    BY DEF BuyerKnowsOrders
  <2>1. k = req[q].hold[1] /\ k \in Instructions
    BY <1>3, WorkingCarries
  <2>2. /\ Sold(q) => Live(req[q].hold[1]) = {}
        /\ Ordered(q) => /\ sales[req[q].hold[1]] = << >>
                         /\ Live(req[q].hold[1]) \subseteq {<<req[q].hold, req[q].offer.total>>}
        /\ ~Sold(q) /\ ~Ordered(q) => NoOrder(req[q].hold[1])
    BY <1>3 DEF OrderFacts, BuyerKnowsOrders
  <2> QED BY <1>1, <1>2, <1>3, <2>1, <2>2
<1> QED BY <1>2, <1>4, <1>5 DEF OrderFacts

\* Nobody acts: what Zinc settles is not made new.
LEMMA SettledOrders ==
    ASSUME TypeInv, OrderFacts, Elsewhere \/ UNCHANGED vars
    PROVE  OrderFacts'
<1>1. UNCHANGED <<maps, req, faults, sales>>
  BY RestEffects
<1>2. \A i \in Instructions : Live(i)' \subseteq Live(i)
  <2> SUFFICES ASSUME NEW h \in Holds, NEW t \in Totals, shipments'[h][t] \in {"processing", "placed"}
               PROVE  shipments[h][t] \in {"processing", "placed"}
    BY LiveShrinks
  <2>1. ASSUME NEW g \in Holds, NEW u \in Totals, ZincSettles(g, u)
        PROVE  shipments[h][t] \in {"processing", "placed"}
    BY <2>1, Unfolded DEF ZincSettles
  <2> QED BY <2>1 DEF Elsewhere, CustomerConfirms, vars
<1>3. \A i \in Instructions : (OneOrder(i) => OneOrder(i)') /\ (NoOrder(i) => NoOrder(i)')
  BY <1>1, <1>2 DEF OneOrder, NoOrder
<1>4. \A q \in Requests : /\ Working(q)' <=> Working(q)
                          /\ Sold(q)' <=> Sold(q)
                          /\ Ordered(q)' <=> Ordered(q)
                          /\ \A i : WorkingOn(q, i)' <=> WorkingOn(q, i)
  BY <1>1 DEF Working, WorkingOn, Sold, Ordered, Answered
<1>5. IdleHasNoOrder'
  BY <1>1, <1>3, <1>4 DEF OrderFacts, IdleHasNoOrder, maps
<1>6. BuyerKnowsOrders'
  <2> SUFFICES ASSUME NEW q \in Requests, Working(q), NEW k, k = req[q].hold[1]
               PROVE  /\ Sold(q) => Live(k)' = {}
                      /\ Ordered(q) => /\ sales'[k] = << >>
                                       /\ Live(k)' \subseteq {<<req[q].hold, req[q].offer.total>>}
                      /\ ~Sold(q) /\ ~Ordered(q) => NoOrder(k)'
    BY <1>1, <1>4 DEF BuyerKnowsOrders
  <2>1. k \in Instructions
    BY WorkingCarries
  <2>2. /\ Sold(q) => Live(req[q].hold[1]) = {}
        /\ Ordered(q) => /\ sales[req[q].hold[1]] = << >>
                         /\ Live(req[q].hold[1]) \subseteq {<<req[q].hold, req[q].offer.total>>}
        /\ ~Sold(q) /\ ~Ordered(q) => NoOrder(req[q].hold[1])
    BY DEF OrderFacts, BuyerKnowsOrders
  <2> QED BY <1>1, <1>2, <1>3, <2>1, <2>2
<1> QED BY <1>3, <1>5, <1>6 DEF OrderFacts

LEMMA OrderInit == Init => OrderInv
<1> SUFFICES ASSUME Init PROVE OrderInv
  OBVIOUS
<1>1. \A i \in Instructions : NoOrder(i) /\ OneOrder(i)
  BY DEF Init, NoOrder, OneOrder, Live, Holds
<1>2. \A r \in Requests : ~Working(r)
  BY DEF Init, Idle, Working
<1> QED BY <1>1, <1>2 DEF OrderInv, IdleHasNoOrder, BuyerKnowsOrders

LEMMA OrderStep == CalmInv /\ OrderInv /\ [Next]_vars => OrderInv'
<1> SUFFICES ASSUME CalmInv, OrderInv, [Next]_vars, faults' \subseteq {"rearm"} PROVE OrderFacts'
  BY DEF OrderInv, OrderFacts
<1>1. TypeInv /\ ZincInv /\ BuyerFacts /\ OrderFacts
  BY FaultsGrow DEF CalmInv, BuyerInv, BuyerFacts, Calm, OrderInv, OrderFacts
<1>2. ASSUME NEW r \in Requests, Step(r) \/ Outside(r) \/ Begins(r) PROVE OrderFacts'
  BY <1>1, <1>2, MarketOrders, ZincOrders, CheckoutOrders, GoesOnOrders
<1>3. CASE Elsewhere \/ UNCHANGED vars
  BY <1>1, <1>3, SettledOrders
<1>4. ~Restart
  BY DEF Restart, Blame
<1> QED BY <1>2, <1>3, <1>4 DEF Next, Begins, Elsewhere

LEMMA OrderInvariant == Spec => [](CalmInv /\ OrderInv)
<1>1. CalmInv /\ OrderInv /\ CalmInv' /\ [Next]_vars => OrderInv'
  BY OrderStep
<1> QED BY <1>1, OrderInit, CalmInvariant, PTL DEF Spec

\* The key never buys twice: without a restart, an overlap, a lost answer or an
\* unpaid sale, the retailers between them hold one order for an instruction.
THEOREM OneOrderEver == Spec => []NeverBuysTwice
<1>1. CalmInv /\ OrderInv => NeverBuysTwice
  <2> SUFFICES ASSUME CalmInv, OrderInv, faults \subseteq {"rearm"}, NEW i \in Instructions
               PROVE  Cardinality(Live(i)) + Len(sales[i]) <= 1
    BY DEF NeverBuysTwice
  <2>1. OneOrder(i) /\ Len(sales[i]) \in Nat
    BY Unfolded DEF OrderInv, CalmInv
  <2>2. CASE Live(i) = {} /\ Len(sales[i]) <= 1
    <3>1. Cardinality(Live(i)) = 0
      BY <2>2, FS_EmptySet
    <3> QED BY <2>1, <2>2, <3>1
  <2>3. ASSUME NEW ht, sales[i] = << >>, Live(i) \subseteq {ht} PROVE Cardinality(Live(i)) + Len(sales[i]) <= 1
    <3>1. IsFiniteSet({ht}) /\ Cardinality({ht}) = 1
      BY FS_Singleton
    <3>2. Cardinality(Live(i)) \in Nat /\ Cardinality(Live(i)) <= 1
      BY <2>3, <3>1, FS_Subset, FS_CardinalityType
    <3>3. Len(sales[i]) = 0
      BY <2>3
    <3> QED BY <3>2, <3>3
  <2> QED BY <2>1, <2>2, <2>3 DEF OneOrder
<1> QED BY <1>1, OrderInvariant, PTL

=============================================================================
