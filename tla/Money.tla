------------------------------- MODULE Money -------------------------------
(***************************************************************************)
(* P4, the money service: the holds of an instruction, the purchase under  *)
(* its key, and what becomes of the money when the retailer says no.       *)
(*                                                                         *)
(* The service keeps four maps in memory and awaits Stripe, the market     *)
(* simulator and Zinc.  A request stands at the call it awaits (pc); the   *)
(* service called acts and leaves its answer (answer), and the handler     *)
(* resumes from there to its next await.  Between any of these steps other *)
(* requests run.                                                           *)
(*                                                                         *)
(* Both clients use one key per instruction, and both buy from the latest  *)
(* hold of the instruction, so the key is the instruction and a hold is an *)
(* attempt of it: Stripe answers the same attempt with the same hold.  The *)
(* amount held is the ceiling.  What goes wrong outside the service is     *)
(* remembered in faults, so that a property says under which faults it     *)
(* still holds.                                                            *)
(***************************************************************************)
EXTENDS Naturals, Sequences, FiniteSets

CONSTANTS
    Instructions,
    Attempts,       \* attempt numbers of POST /funds/commit
    Requests,       \* requests under way at one time
    Offers,         \* records of a merchant, "market" or "zinc", and a total
    Ceiling,        \* the amount of every hold
    IssuerDeclines, \* Stripe may refuse a capture it could make
    MaxSales,       \* bound: orders of the market for one instruction
    MaxFaults,      \* bound: kinds of faults in one behaviour
    None

Totals == {o.total : o \in Offers}

ASSUME MoneyAssumption ==
    /\ None \notin Attempts /\ None \notin Offers /\ None \notin Instructions
    /\ None \notin Totals \cup {0}
    /\ \A o \in Offers : o.merchant \in {"market", "zinc"} /\ o.total \in Nat
    /\ Ceiling \in Nat
    /\ MaxSales \in Nat /\ MaxFaults \in Nat

VARIABLES
    holds,      \* hold.status of the map holds, "absent" without an entry
    latest,     \* holdsByInstruction, as an attempt
    purchases,  \* purchases: the total paid under the key of the instruction
    pending,    \* the instructions with an entry in pending
    req,        \* where each request stands, and its locals
    intents,    \* Stripe: the payment intents
    captures,   \* Stripe: the answer saved under the key of a capture
    shipments,  \* Zinc: the order under the key of a hold and a total
    sales,      \* the market: the totals of the orders placed for the instruction
    faults      \* the kinds of faults so far

maps == <<holds, latest, purchases, pending>>
stripe == <<intents, captures>>
vars == <<maps, req, stripe, shipments, sales, faults>>

Holds == Instructions \X Attempts
HoldStatuses == {"absent", "committed", "needs_attention", "spent", "released"}
PCs == {"idle", "create", "market", "capture", "place", "wait", "refund", "return", "cancel"}
Answers == {"none", "ok", "action", "refused"}

NoIntent == [state |-> "none", received |-> 0, refunded |-> FALSE, created |-> "none"]

\* stale: the entry of the hold was replaced since the request read it.
\* told: the client has its answer, an UNKNOWN, and the request settles alone.
Idle == [pc |-> "idle", hold |-> None, offer |-> None, answer |-> "none",
         stale |-> FALSE, told |-> FALSE]

TypeOK ==
    /\ holds \in [Holds -> HoldStatuses]
    /\ latest \in [Instructions -> Attempts \cup {None}]
    /\ purchases \in [Instructions -> Totals \cup {None}]
    /\ pending \subseteq Instructions
    /\ req \in [Requests -> [pc : PCs, hold : Holds \cup {None}, offer : Offers \cup {None},
                             answer : Answers, stale : BOOLEAN, told : BOOLEAN]]
    /\ intents \in [Holds -> [state : {"none", "requires_action", "requires_capture",
                                       "captured", "canceled"},
                              received : Totals \cup {0}, refunded : BOOLEAN,
                              created : {"none", "requires_action", "requires_capture"}]]
    /\ captures \in [Holds -> [Totals -> {"none", "ok", "refused"}]]
    /\ shipments \in [Holds -> [Totals -> {"none", "processing", "placed", "failed"}]]
    /\ sales \in [Instructions -> Seq(Totals)]
    /\ faults \subseteq {"restart", "overlap", "lost", "rearm", "unpaid"}

Init ==
    /\ holds = [h \in Holds |-> "absent"]
    /\ latest = [i \in Instructions |-> None]
    /\ purchases = [i \in Instructions |-> None]
    /\ pending = {}
    /\ req = [r \in Requests |-> Idle]
    /\ intents = [h \in Holds |-> NoIntent]
    /\ captures = [h \in Holds |-> [t \in Totals |-> "none"]]
    /\ shipments = [h \in Holds |-> [t \in Totals |-> "none"]]
    /\ sales = [i \in Instructions |-> << >>]
    /\ faults = {}

-----------------------------------------------------------------------------
Become(r, x) == req' = [req EXCEPT ![r] = x]
Finish(r) == Become(r, Idle)
Await(r, pc) == Become(r, [req[r] EXCEPT !.pc = pc, !.answer = "none"])
Called(r, pc) == req[r].pc = pc /\ req[r].answer = "none"
Answered(r, pc, answer) == req[r].pc = pc /\ req[r].answer = answer
Answer(r, a) == Become(r, [req[r] EXCEPT !.answer = a])

Blame(fault) ==
    /\ fault \in faults \/ Cardinality(faults) < MaxFaults
    /\ faults' = faults \cup {fault}

\* hold.status = s, on the object the request read from the map.
SetHold(r, s) == holds' = IF req[r].stale THEN holds ELSE [holds EXCEPT ![req[r].hold] = s]

\* A request of the instruction is being handled, and has not answered.
Buying(r, i) ==
    /\ req[r].offer # None
    /\ req[r].hold[1] = i
    /\ ~req[r].told

-----------------------------------------------------------------------------
(* POST /funds/commit *)

Commit(r, h) ==
    /\ req[r].pc = "idle"
    /\ Become(r, [Idle EXCEPT !.pc = "create", !.hold = h])
    /\ UNCHANGED <<maps, stripe, shipments, sales, faults>>

\* The key of the creation is the instruction and the attempt: a second one is
\* answered as the first was, whatever became of the hold since.
StripeCreate(r) ==
    LET h == req[r].hold
        Told(s) == IF s = "requires_action" THEN "action" ELSE "ok"
    IN
    /\ Called(r, "create")
    /\ \/ /\ intents[h].state = "none"
          /\ \E s \in {"requires_capture", "requires_action"} :
                /\ intents' = [intents EXCEPT ![h].state = s, ![h].created = s]
                /\ \/ Answer(r, Told(s)) /\ UNCHANGED faults
                   \/ Answer(r, "refused") /\ Blame("lost")
       \/ /\ intents[h].state = "none"
          /\ Answer(r, "refused")
          /\ UNCHANGED <<intents, faults>>
       \/ /\ intents[h].state # "none"
          /\ Answer(r, Told(intents[h].created))
          /\ Blame("rearm")
          /\ UNCHANGED intents
    /\ UNCHANGED <<maps, captures, shipments, sales>>

\* The entry is a new object: a request that read the old one keeps it.
OnCreated(r) ==
    LET h == req[r].hold IN
    /\ \E a \in {"ok", "action"} :
          /\ Answered(r, "create", a)
          /\ holds' = [holds EXCEPT ![h] = IF a = "ok" THEN "committed" ELSE "needs_attention"]
    /\ latest' = [latest EXCEPT ![h[1]] = h[2]]
    /\ req' = [q \in Requests |->
                  IF q = r THEN Idle
                  ELSE [req[q] EXCEPT !.stale = @ \/ req[q].hold = h]]
    /\ UNCHANGED <<purchases, pending, stripe, shipments, sales, faults>>

OnCreateRefused(r) ==
    /\ Answered(r, "create", "refused")
    /\ Finish(r)
    /\ UNCHANGED <<maps, stripe, shipments, sales, faults>>

-----------------------------------------------------------------------------
(* POST /checkout *)

\* Slip: an order still pending at the retailer does not hold up the next.
CanBuyWhilePending(i) ==
    /\ purchases[i] = None
    /\ latest[i] # None
    /\ holds[<<i, latest[i]>>] = "committed"

\* A hold that is there and committed, and nothing under the key.
CanBuy(i) ==
    /\ purchases[i] = None
    /\ i \notin pending
    /\ latest[i] # None
    /\ holds[<<i, latest[i]>>] = "committed"

\* The market can quote and is asked first, Zinc commits on contact and is
\* asked last.
FirstCall(o) == IF o.merchant = "market" THEN "market" ELSE "capture"

\* Everything else is answered from the maps and changes nothing.
Checkout(r, i, o) ==
    /\ req[r].pc = "idle"
    /\ CanBuy(i)
    /\ Become(r, [Idle EXCEPT !.pc = FirstCall(o), !.offer = o, !.hold = <<i, latest[i]>>])
    /\ IF \E q \in Requests : Buying(q, i) THEN Blame("overlap") ELSE UNCHANGED faults
    /\ UNCHANGED <<maps, stripe, shipments, sales>>

MarketCheckout(r) ==
    LET i == req[r].hold[1] IN
    /\ Called(r, "market")
    /\ \/ /\ Len(sales[i]) < MaxSales
          /\ sales' = [sales EXCEPT ![i] = Append(@, req[r].offer.total)]
          /\ \/ Answer(r, "ok") /\ UNCHANGED faults
             \/ Answer(r, "refused") /\ Blame("lost")
       \/ Answer(r, "refused") /\ UNCHANGED <<sales, faults>>
    /\ UNCHANGED <<maps, stripe, shipments>>

\* A price mismatch, an offer that is gone, a market out of reach: nothing is
\* captured and the hold stays.
OnMarket(r) ==
    /\ \/ Answered(r, "market", "ok") /\ Await(r, "capture")
       \/ Answered(r, "market", "refused") /\ Finish(r)
    /\ UNCHANGED <<maps, stripe, shipments, sales, faults>>

\* The key of a capture is the instruction, the hold and the total.
StripeCapture(r) ==
    LET h == req[r].hold
        t == req[r].offer.total
    IN
    /\ Called(r, "capture")
    /\ \/ /\ captures[h][t] # "none"
          /\ Answer(r, captures[h][t])
          /\ UNCHANGED <<stripe, faults>>
       \/ /\ captures[h][t] = "none"
          /\ intents[h].state = "requires_capture" /\ t <= Ceiling
          /\ intents' = [intents EXCEPT ![h].state = "captured", ![h].received = t]
          /\ captures' = [captures EXCEPT ![h][t] = "ok"]
          /\ \/ Answer(r, "ok") /\ UNCHANGED faults
             \/ Answer(r, "refused") /\ Blame("lost")
       \/ /\ captures[h][t] = "none"
          /\ IssuerDeclines \/ intents[h].state # "requires_capture" \/ t > Ceiling
          /\ captures' = [captures EXCEPT ![h][t] = "refused"]
          /\ Answer(r, "refused")
          /\ UNCHANGED <<intents, faults>>
    /\ UNCHANGED <<maps, shipments, sales>>

Purchased(r) ==
    /\ SetHold(r, "spent")
    /\ purchases' = [purchases EXCEPT ![req[r].hold[1]] = intents[req[r].hold].received]
    /\ pending' = pending \ {req[r].hold[1]}
    /\ UNCHANGED latest

\* Refused after the market sold: the order stands unpaid, and the hold stays.
OnCapture(r) ==
    /\ \/ /\ Answered(r, "capture", "refused")
          /\ Finish(r)
          /\ IF req[r].offer.merchant = "market" THEN Blame("unpaid") ELSE UNCHANGED faults
          /\ UNCHANGED maps
       \/ /\ Answered(r, "capture", "ok")
          /\ IF req[r].offer.merchant = "market"
             THEN Purchased(r) /\ Finish(r)
             ELSE Await(r, "place") /\ UNCHANGED maps
          /\ UNCHANGED faults
    /\ UNCHANGED <<stripe, shipments, sales>>

\* The key of the order is that of the capture.
ZincPlace(r) ==
    LET h == req[r].hold
        t == req[r].offer.total
    IN
    /\ Called(r, "place")
    /\ \/ /\ shipments[h][t] # "none"
          /\ Answer(r, "ok")
          /\ UNCHANGED <<shipments, faults>>
       \/ /\ shipments[h][t] = "none"
          /\ shipments' = [shipments EXCEPT ![h][t] = "processing"]
          /\ \/ Answer(r, "ok") /\ UNCHANGED faults
             \/ Answer(r, "refused") /\ Blame("lost")
       \/ /\ shipments[h][t] = "none"
          /\ Answer(r, "refused")
          /\ UNCHANGED <<shipments, faults>>
    /\ UNCHANGED <<maps, stripe, sales>>

\* Slip: the refused order ends the request, and the capture stays.
OnPlacedKeepingMoney(r) ==
    /\ \/ Answered(r, "place", "ok") /\ Await(r, "wait")
       \/ Answered(r, "place", "refused") /\ Finish(r)
    /\ UNCHANGED <<maps, stripe, shipments, sales, faults>>

OnPlaced(r) ==
    /\ \/ Answered(r, "place", "ok") /\ Await(r, "wait")
       \/ Answered(r, "place", "refused") /\ Await(r, "refund")
    /\ UNCHANGED <<maps, stripe, shipments, sales, faults>>

Shipment(r) == shipments[req[r].hold][req[r].offer.total]

\* settle: an order that failed gives up the hold, and then the money back.
OnSettled(r) ==
    /\ req[r].pc = "wait"
    /\ \/ /\ Shipment(r) = "placed"
          /\ Purchased(r)
          /\ Finish(r)
       \/ /\ Shipment(r) = "failed"
          /\ SetHold(r, "released")
          /\ pending' = pending \ {req[r].hold[1]}
          /\ Await(r, "return")
          /\ UNCHANGED <<latest, purchases>>
    /\ UNCHANGED <<stripe, shipments, sales, faults>>

\* 20 seconds: the client is told UNKNOWN, the request goes on waiting.
WaitTimesOut(r) ==
    /\ req[r].pc = "wait" /\ ~req[r].told
    /\ Shipment(r) = "processing"
    /\ pending' = pending \cup {req[r].hold[1]}
    /\ Become(r, [req[r] EXCEPT !.told = TRUE])
    /\ UNCHANGED <<holds, latest, purchases, stripe, shipments, sales, faults>>

\* 10 more minutes: nobody settles the order any more, and it stays pending.
WaitEnds(r) ==
    /\ req[r].pc = "wait" /\ req[r].told
    /\ Shipment(r) = "processing"
    /\ Finish(r)
    /\ UNCHANGED <<maps, stripe, shipments, sales, faults>>

\* A poll that fails ends the wait: before the client has an answer the money is
\* given back, whatever the order comes to.
PollFails(r) ==
    /\ req[r].pc = "wait"
    /\ IF req[r].told THEN Finish(r) ELSE Await(r, "refund")
    /\ Blame("lost")
    /\ UNCHANGED <<maps, stripe, shipments, sales>>

StripeRefund(r) ==
    LET h == req[r].hold IN
    /\ Called(r, "refund") \/ Called(r, "return")
    /\ \/ intents' = [intents EXCEPT ![h].refunded = TRUE] /\ UNCHANGED faults
       \/ Blame("lost") /\ UNCHANGED intents
    /\ Answer(r, "ok")
    /\ UNCHANGED <<maps, captures, shipments, sales>>

\* Slip: the hold stays committed after the refund.
OnRefundedKeepingHold(r) ==
    /\ Answered(r, "refund", "ok")
    /\ Finish(r)
    /\ UNCHANGED <<maps, stripe, shipments, sales, faults>>

\* The hold was given up before the money.
OnReturned(r) ==
    /\ Answered(r, "return", "ok")
    /\ Finish(r)
    /\ UNCHANGED <<maps, stripe, shipments, sales, faults>>

\* A refund that failed is not noticed.
OnRefunded(r) ==
    /\ Answered(r, "refund", "ok")
    /\ SetHold(r, "released")
    /\ Finish(r)
    /\ UNCHANGED <<latest, purchases, pending, stripe, shipments, sales, faults>>

-----------------------------------------------------------------------------
(* POST /funds/release *)

\* Spent, released or absent: answered from the map.
Release(r, i) ==
    /\ req[r].pc = "idle"
    /\ latest[i] # None
    /\ holds[<<i, latest[i]>>] \in {"committed", "needs_attention"}
    /\ Become(r, [Idle EXCEPT !.pc = "cancel", !.hold = <<i, latest[i]>>])
    /\ UNCHANGED <<maps, stripe, shipments, sales, faults>>

StripeCancel(r) ==
    LET h == req[r].hold IN
    /\ Called(r, "cancel")
    /\ \/ /\ intents[h].state \in {"requires_capture", "requires_action"}
          /\ intents' = [intents EXCEPT ![h].state = "canceled"]
          /\ \/ Answer(r, "ok") /\ UNCHANGED faults
             \/ Answer(r, "refused") /\ Blame("lost")
       \/ /\ intents[h].state \in {"captured", "canceled"}
          /\ Answer(r, "refused")
          /\ UNCHANGED <<intents, faults>>
    /\ UNCHANGED <<maps, captures, shipments, sales>>

\* Slip: Stripe's word for it is written in the map.
OnCanceledStripesWord(r) ==
    /\ \/ Answered(r, "cancel", "ok") /\ SetHold(r, "canceled")
       \/ Answered(r, "cancel", "refused") /\ UNCHANGED holds
    /\ Finish(r)
    /\ UNCHANGED <<latest, purchases, pending, stripe, shipments, sales, faults>>

OnCanceled(r) ==
    /\ \/ Answered(r, "cancel", "ok") /\ SetHold(r, "released")
       \/ Answered(r, "cancel", "refused") /\ UNCHANGED holds
    /\ Finish(r)
    /\ UNCHANGED <<latest, purchases, pending, stripe, shipments, sales, faults>>

-----------------------------------------------------------------------------
(* Outside. *)

\* The customer finishes 3DS; the service is not told.
CustomerConfirms(h) ==
    /\ intents[h].state = "requires_action"
    /\ intents' = [intents EXCEPT ![h].state = "requires_capture"]
    /\ UNCHANGED <<maps, req, captures, shipments, sales, faults>>

ZincSettles(h, t) ==
    /\ shipments[h][t] = "processing"
    /\ \E s \in {"placed", "failed"} : shipments' = [shipments EXCEPT ![h][t] = s]
    /\ UNCHANGED <<maps, req, stripe, sales, faults>>

\* The maps and the requests under way are gone.
Restart ==
    /\ holds' = [h \in Holds |-> "absent"]
    /\ latest' = [i \in Instructions |-> None]
    /\ purchases' = [i \in Instructions |-> None]
    /\ pending' = {}
    /\ req' = [r \in Requests |-> Idle]
    /\ Blame("restart")
    /\ UNCHANGED <<stripe, shipments, sales>>

-----------------------------------------------------------------------------
Step(r) ==
    \/ OnCreated(r) \/ OnCreateRefused(r)
    \/ OnMarket(r) \/ OnCapture(r) \/ OnPlaced(r)
    \/ OnSettled(r) \/ WaitTimesOut(r) \/ WaitEnds(r) \/ PollFails(r)
    \/ OnRefunded(r) \/ OnReturned(r) \/ OnCanceled(r)

Outside(r) ==
    \/ StripeCreate(r) \/ StripeCapture(r) \/ StripeRefund(r) \/ StripeCancel(r)
    \/ MarketCheckout(r) \/ ZincPlace(r)

Next ==
    \/ \E r \in Requests :
          \/ Step(r) \/ Outside(r)
          \/ \E h \in Holds : Commit(r, h)
          \/ \E i \in Instructions : Release(r, i) \/ \E o \in Offers : Checkout(r, i, o)
    \/ \E h \in Holds : CustomerConfirms(h) \/ \E t \in Totals : ZincSettles(h, t)
    \/ Restart

Spec == Init /\ [][Next]_vars

(***************************************************************************)
(* What the service promises, and under which faults.                      *)
(***************************************************************************)

\* The orders of the instruction that were or may be delivered.
Live(i) == {ht \in ({i} \X Attempts) \X Totals :
               shipments[ht[1]][ht[2]] \in {"processing", "placed"}}

\* The key never buys twice: whatever is declined, refunded, armed again,
\* released or settled late, the retailers between them hold one order for an
\* instruction.  A restart forgets the key, an overlapping request has it read
\* too early, an answer that is lost leaves an order nobody knows of, and an
\* order the market sold unpaid is not put under the key.
NeverBuysTwice ==
    faults \subseteq {"rearm"} =>
        \A i \in Instructions : Cardinality(Live(i)) + Len(sales[i]) <= 1

GivingBack(h) == \E r \in Requests : req[r].hold = h /\ req[r].pc \in {"refund", "return"}

\* A purchase the service remembers was paid for once and not given back, and
\* what it says was paid is what Stripe took; what other holds paid is given
\* back, or on its way.  A re-armed attempt replays the
\* capture of a hold already refunded.
PurchaseIsPaid ==
    faults \subseteq {"unpaid"} =>
        \A i \in Instructions :
            purchases[i] # None =>
                \E h \in {i} \X Attempts :
                    /\ intents[h].state = "captured" /\ ~intents[h].refunded
                    /\ intents[h].received = purchases[i]
                    /\ \A g \in ({i} \X Attempts) \ {h} :
                           intents[g].state = "captured" =>
                               intents[g].refunded \/ GivingBack(g)

\* Money is kept for a purchase only: once no request works on the instruction
\* and no order is pending, what was captured has bought something or is on its
\* way back.  Of two requests that overlap, one takes the other's order out of
\* pending.
MoneyIsAccountedFor ==
    faults \subseteq {"rearm", "unpaid"} =>
        \A h \in Holds :
            /\ intents[h].state = "captured" /\ ~intents[h].refunded
            /\ h[1] \notin pending
            /\ \A r \in Requests : req[r].hold = h => req[r].offer = None
            => purchases[h[1]] = intents[h].received

\* An order at Zinc stands on money: whatever is lost, overlaps or restarts, it
\* has a capture of its very total, and an over-mandate total never gets there.
\* Nor is an order placed on money given back, although Stripe answers the
\* capture of a hold for ever as it did once: the hold is given up with the
\* money.  Only an attempt committed again, or a request that read the hold
\* before, comes to it once more.  And the money of an order that lives is not
\* given back; but a poll that fails, or an order whose answer was lost, is taken
\* for one that failed.
ZincAfterCapture ==
    /\ \A h \in Holds, t \in Totals :
          shipments[h][t] # "none" => /\ intents[h].state = "captured"
                                      /\ intents[h].received = t
                                      /\ t <= Ceiling
    /\ faults \cap {"rearm", "overlap"} = {} =>
          \A r \in Requests : Called(r, "place") => ~intents[req[r].hold].refunded
    /\ faults \subseteq {"restart", "unpaid"} =>
          \A h \in Holds, t \in Totals :
             shipments[h][t] \in {"processing", "placed"} => ~intents[h].refunded

\* "An order exists and the money didn't move.  Only reachable through a bug
\* upstream" (money.mjs:160): with one request to buy at a time, every amount
\* within the hold and nothing lost, what the market sold is paid for once the
\* request is done.
SaleIsPaid ==
    faults \subseteq {"unpaid"} =>
        \A i \in Instructions :
            /\ sales[i] # << >>
            /\ \A r \in Requests : ~Buying(r, i)
            => purchases[i] # None

=============================================================================
