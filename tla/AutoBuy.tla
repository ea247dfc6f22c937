------------------------------ MODULE AutoBuy ------------------------------
(***************************************************************************)
(* The AutoBuy backend, the earlier agent on the same money service.       *)
(*                                                                         *)
(* One process: two loops, one over the listings of the market and one     *)
(* over the real web, consider an offer for an instruction and execute it  *)
(* under a lock in memory; cancellations run between their awaits.  A loop *)
(* is a record that says at which await it stands (pc).  Instructions and  *)
(* the offers seen for them are written to a file on every change and read *)
(* back by the next process; locks, loops and requests die with theirs.    *)
(*                                                                         *)
(* The money service is what a client of module Money may meet: a checkout *)
(* reads what is bought, pending and held (Enter), and later sells,        *)
(* captures and answers (Buys).  It goes on when its client hangs up.      *)
(***************************************************************************)
EXTENDS Naturals, FiniteSets

CONSTANTS
    Instructions,
    Stores,         \* offers of the market's own stores
    Retailers,      \* offers of the market that the money service orders at Zinc
    Web,            \* offers read from the web, which the market does not list
    MaxFaults,      \* bound: calls lost, processes stopped, captures refused
    None

ASSUME AutoBuyAssumption ==
    /\ None \notin Instructions \cup Stores \cup Retailers \cup Web
    /\ MaxFaults \in Nat

VARIABLES
    status,     \* instruction.status
    recorded,   \* instruction.order is set
    seen,       \* the offers seen for an instruction
    locks,      \* locks: the offer being executed
    loop,       \* where each loop stands, and its locals
    cancel,     \* how far the cancellation of an instruction is
    up,         \* the process runs
    late,       \* the instructions past their deadline
    listed,     \* the market: what it has in stock
    hold,       \* the money service: the hold of an instruction
    pending,    \* the money service: instructions captured, the order open
    bought,     \* the money service: instructions with a purchase under their key
    orders,     \* all orders ever placed for an instruction
    orphans,    \* checkouts under way whose client hung up
    faults,
    loose,      \* a checkout went on without its client, or sold what was not paid
    crossed,    \* instructions cancelled while an execution was under way
    abandoned   \* instructions whose order was still open after ten minutes

file == <<status, recorded, seen>>
memory == <<locks, loop, cancel, up>>
service == <<hold, pending, bought, orders, orphans>>
history == <<loose, crossed, abandoned>>
vars == <<file, memory, late, listed, service, faults, history>>

Offers == Stores \cup Retailers \cup Web
Loops == {"tick", "exa"}
Terminal == {"CANCELLED", "EXPIRED", "PURCHASED"}
Statuses == Terminal \cup {"none", "ACTIVE", "EXECUTING", "NEEDS_ATTENTION"}
Answers == {"none", "PURCHASED", "DECLINED", "FAILED", "NEEDS_ATTENTION", "UNKNOWN"}
PCs == {"idle", "fetch", "sweep", "release", "loop", "normalise", "revalidate", "buy", "served",
        "answered", "poll"}
Executing == {"revalidate", "buy", "served", "answered", "poll"}

Idle == [pc |-> "idle", todo |-> {}, due |-> {}, i |-> None, o |-> None, answer |-> "none"]

TypeOK ==
    /\ status \in [Instructions -> Statuses]
    /\ recorded \in [Instructions -> BOOLEAN]
    /\ seen \in [Instructions -> SUBSET Offers]
    /\ locks \in [Instructions -> Offers \cup {None}]
    /\ loop \in [Loops -> [pc : PCs, todo : SUBSET (Instructions \X Offers),
                           due : SUBSET Instructions, i : Instructions \cup {None},
                           o : Offers \cup {None}, answer : Answers]]
    /\ cancel \in [Instructions -> {"no", "asked", "released"}]
    /\ up \in BOOLEAN
    /\ late \subseteq Instructions
    /\ listed \subseteq Stores \cup Retailers
    /\ hold \in [Instructions -> {"none", "attention", "held", "captured", "spent", "released"}]
    /\ pending \subseteq Instructions /\ bought \subseteq Instructions
    /\ orders \in [Instructions -> Nat]
    /\ orphans \subseteq Instructions \X Offers
    /\ faults \in 0 .. MaxFaults /\ loose \in BOOLEAN
    /\ crossed \subseteq Instructions /\ abandoned \subseteq Instructions

Init ==
    /\ status = [i \in Instructions |-> "none"]
    /\ recorded = [i \in Instructions |-> FALSE]
    /\ seen = [i \in Instructions |-> {}]
    /\ locks = [i \in Instructions |-> None]
    /\ loop = [l \in Loops |-> Idle]
    /\ cancel = [i \in Instructions |-> "no"]
    /\ up = TRUE
    /\ late = {} /\ listed = {}
    /\ hold = [i \in Instructions |-> "none"]
    /\ pending = {} /\ bought = {} /\ orphans = {}
    /\ orders = [i \in Instructions |-> 0]
    /\ faults = 0 /\ loose = FALSE
    /\ crossed = {} /\ abandoned = {}

-----------------------------------------------------------------------------
At(l, pc) == loop[l].pc = pc
Become(l, x) == loop' = [loop EXCEPT ![l] = x]
Go(l, pc) == Become(l, [loop[l] EXCEPT !.pc = pc])
SetStatus(i, s) == status' = [status EXCEPT ![i] = s]
Fault == faults < MaxFaults /\ faults' = faults + 1

Active == {i \in Instructions : status[i] = "ACTIVE"}
Executed(i) == \E l \in Loops : loop[l].i = i /\ loop[l].pc \in Executing

\* /funds/release of an instruction: only an uncaptured hold can be given back.
Release(i) == hold' = IF hold[i] \in {"held", "attention"} THEN [hold EXCEPT ![i] = "released"] ELSE hold

\* Slip: the status is not checked.
LiveAnyStatus(i) == i \notin late

\* The first check of rules.ts, and the deadline.  What else it compares is data:
\* any offer may fail it.
Live(i) == status[i] \in {"ACTIVE", "EXECUTING"} /\ i \notin late

-----------------------------------------------------------------------------
(* Requests *)

\* POST /instructions: the hold first, under a new id.
Create(i) ==
    /\ up /\ status[i] = "none" /\ hold[i] = "none"
    /\ \/ hold' = [hold EXCEPT ![i] = "held"] /\ SetStatus(i, "ACTIVE")
       \/ hold' = [hold EXCEPT ![i] = "attention"] /\ SetStatus(i, "NEEDS_ATTENTION")
    /\ UNCHANGED <<recorded, seen, memory, late, listed, pending, bought, orders, orphans, faults, history>>

Cancel(i) ==
    /\ up /\ cancel[i] = "no"
    /\ status[i] \notin Terminal \cup {"none"}
    /\ cancel' = [cancel EXCEPT ![i] = "asked"]
    /\ crossed' = IF Executed(i) THEN crossed \cup {i} ELSE crossed
    /\ UNCHANGED <<file, locks, loop, up, late, listed, service, faults, loose, abandoned>>

\* A release out of reach is answered "unknown", and nobody tries it again.
ReleaseCancelled(i) ==
    /\ cancel[i] = "asked"
    /\ cancel' = [cancel EXCEPT ![i] = "released"]
    /\ \/ Release(i) /\ UNCHANGED faults
       \/ Fault /\ UNCHANGED hold
    /\ UNCHANGED <<file, locks, loop, up, late, listed, pending, bought, orders, orphans, history>>

\* Whatever the service said, and whatever the status is by now.
Cancelled(i) ==
    /\ cancel[i] = "released"
    /\ cancel' = [cancel EXCEPT ![i] = "no"]
    /\ SetStatus(i, "CANCELLED")
    /\ UNCHANGED <<recorded, seen, locks, loop, up, late, listed, service, faults, history>>

-----------------------------------------------------------------------------
(* The loops *)

Resting == <<file, locks, cancel, up, late, listed, service, faults, history>>

\* tick: one at a time, and first the market's listings.
Tick ==
    /\ up /\ At("tick", "idle")
    /\ Become("tick", [Idle EXCEPT !.pc = "fetch"])
    /\ UNCHANGED Resting

\* Slip: the return on an error leaves the flag ticking set.
TickFailsTicking ==
    /\ At("tick", "fetch")
    /\ Become("tick", [Idle EXCEPT !.pc = "ticking"])
    /\ UNCHANGED Resting

TickFails ==
    /\ At("tick", "fetch")
    /\ Become("tick", Idle)
    /\ UNCHANGED Resting

Fetched ==
    /\ At("tick", "fetch")
    /\ Become("tick", [Idle EXCEPT !.pc = "sweep", !.todo = Instructions \X listed, !.due = late])
    /\ UNCHANGED Resting

\* sweepDeadlines: an active instruction past its deadline, as it was when the
\* sweep began, expires.
Sweep(i) ==
    /\ At("tick", "sweep")
    /\ i \in loop["tick"].due
    /\ \/ /\ status[i] = "ACTIVE"
          /\ SetStatus(i, "EXPIRED")
          /\ Become("tick", [loop["tick"] EXCEPT !.pc = "release", !.due = @ \ {i}, !.i = i])
       \/ /\ status[i] # "ACTIVE"
          /\ UNCHANGED status
          /\ Become("tick", [loop["tick"] EXCEPT !.due = @ \ {i}])
    /\ UNCHANGED <<recorded, seen, locks, cancel, up, late, listed, service, faults, history>>

\* Slip: the hold of an expired instruction is not given back.
ReleaseExpiredNot ==
    /\ At("tick", "release")
    /\ Become("tick", [loop["tick"] EXCEPT !.pc = "sweep", !.i = None])
    /\ UNCHANGED Resting

ReleaseExpired ==
    /\ At("tick", "release")
    /\ Become("tick", [loop["tick"] EXCEPT !.pc = "sweep", !.i = None])
    /\ \/ Release(loop["tick"].i) /\ UNCHANGED faults
       \/ Fault /\ UNCHANGED hold
    /\ UNCHANGED <<file, locks, cancel, up, late, listed, pending, bought, orders, orphans, history>>

Swept ==
    /\ At("tick", "sweep") /\ loop["tick"].due = {}
    /\ Become("tick", [loop["tick"] EXCEPT !.pc = "loop", !.todo = @ \cap (Active \X Offers)])
    /\ UNCHANGED Resting

\* exaTick: what is found on the web for the active instructions, and read with
\* confidence.
ExaTick ==
    /\ up /\ At("exa", "idle")
    /\ \E found \in SUBSET (Active \X Web) :
          Become("exa", [Idle EXCEPT !.pc = "loop", !.todo = found])
    /\ UNCHANGED Resting

\* The next pair of the loop: no more offers for an instruction that is not
\* active, none it has seen.
Consider(l, i, o) ==
    /\ At(l, "loop") /\ <<i, o>> \in loop[l].todo
    /\ \/ /\ status[i] # "ACTIVE"
          /\ Become(l, [loop[l] EXCEPT !.todo = @ \ ({i} \X Offers)])
          /\ UNCHANGED seen
       \/ /\ status[i] = "ACTIVE" /\ o \in seen[i]
          /\ Become(l, [loop[l] EXCEPT !.todo = @ \ {<<i, o>>}])
          /\ UNCHANGED seen
       \/ /\ status[i] = "ACTIVE" /\ o \notin seen[i]
          /\ seen' = [seen EXCEPT ![i] = @ \cup {o}]
          /\ Become(l, [loop[l] EXCEPT !.todo = @ \ {<<i, o>>}, !.pc = "normalise",
                                       !.i = i, !.o = o])
    /\ UNCHANGED <<status, recorded, locks, cancel, up, late, listed, service, faults, history>>

LoopEnds(l) ==
    /\ At(l, "loop") /\ loop[l].todo = {}
    /\ Become(l, Idle)
    /\ UNCHANGED Resting

\* On to the next pair.
Leave(l) == Become(l, [loop[l] EXCEPT !.pc = "loop", !.i = None, !.o = None, !.answer = "none"])

\* A listing that could not be read is forgotten, so that the next tick tries
\* again; the third time it is skipped (the count is left open).
NormaliseFails(l) ==
    LET i == loop[l].i IN
    /\ At(l, "normalise")
    /\ seen' \in {seen, [seen EXCEPT ![i] = @ \ {loop[l].o}]}
    /\ Leave(l)
    /\ UNCHANGED <<status, recorded, locks, cancel, up, late, listed, service, faults, history>>

\* The offer does not qualify, or the lock is held.
Pass(l) ==
    /\ At(l, "normalise")
    /\ Leave(l)
    /\ UNCHANGED Resting

-----------------------------------------------------------------------------
(* The executor *)

\* Slip: the status alone keeps two executions apart.
LockedNot(i) == FALSE

Locked(i) == locks[i] # None

Execute(l) ==
    LET i == loop[l].i IN
    /\ At(l, "normalise")
    /\ Live(i) /\ ~Locked(i)
    /\ locks' = [locks EXCEPT ![i] = loop[l].o]
    /\ SetStatus(i, "EXECUTING")
    /\ Go(l, "revalidate")
    /\ crossed' = IF cancel[i] # "no" THEN crossed \cup {i} ELSE crossed
    /\ UNCHANGED <<recorded, seen, cancel, up, late, listed, service, faults, loose, abandoned>>

\* The execution ends with the lock given back.
End(l, s) ==
    /\ SetStatus(loop[l].i, s)
    /\ locks' = [locks EXCEPT ![loop[l].i] = None]
    /\ Leave(l)

\* The offer has gone, or no longer qualifies as it is now.
RevalidationFails(l) ==
    /\ At(l, "revalidate")
    /\ End(l, "ACTIVE")
    /\ UNCHANGED <<recorded, seen, cancel, up, late, listed, service, faults, history>>

Revalidated(l) ==
    /\ At(l, "revalidate")
    /\ loop[l].o \in listed /\ Live(loop[l].i)
    /\ Go(l, "buy")
    /\ UNCHANGED Resting

\* The call of the money service is lost on its way there, while it is served,
\* or on its way back: "nothing captured, still monitoring".
PurchaseThrows(l) ==
    /\ loop[l].pc \in {"buy", "served", "answered"}
    /\ Fault
    /\ End(l, "ACTIVE")
    /\ orphans' = IF At(l, "served") THEN orphans \cup {<<loop[l].i, loop[l].o>>} ELSE orphans
    /\ loose' = (loose \/ orphans' # orphans)
    /\ UNCHANGED <<recorded, seen, cancel, up, late, listed, hold, pending, bought, orders, crossed, abandoned>>

SettlePurchased(l) ==
    /\ At(l, "answered") /\ loop[l].answer = "PURCHASED"
    /\ recorded' = [recorded EXCEPT ![loop[l].i] = TRUE]
    /\ End(l, "PURCHASED")
    /\ UNCHANGED <<seen, cancel, up, late, listed, service, faults, history>>

\* Slip: the answer becomes the status.
SettleRefusedVerbatim(l) ==
    /\ At(l, "answered") /\ loop[l].answer \in {"DECLINED", "FAILED", "NEEDS_ATTENTION"}
    /\ End(l, loop[l].answer)
    /\ UNCHANGED <<recorded, seen, cancel, up, late, listed, service, faults, history>>

SettleRefused(l) ==
    /\ At(l, "answered")
    /\ \/ loop[l].answer = "DECLINED" /\ End(l, "ACTIVE")
       \/ loop[l].answer \in {"FAILED", "NEEDS_ATTENTION"} /\ End(l, "NEEDS_ATTENTION")
    /\ UNCHANGED <<recorded, seen, cancel, up, late, listed, service, faults, history>>

SettleUnknown(l) ==
    /\ At(l, "answered") /\ loop[l].answer = "UNKNOWN"
    /\ Go(l, "poll")
    /\ UNCHANGED Resting

\* Slip: an order still open is taken for one that never landed.
PollMissingPending(l) ==
    /\ At(l, "poll") /\ loop[l].i \notin bought
    /\ End(l, "NEEDS_ATTENTION")
    /\ UNCHANGED <<recorded, seen, cancel, up, late, listed, service, faults, history>>

\* 404; at 202, and when the service is out of reach, it is asked again.
PollMissing(l) ==
    /\ At(l, "poll") /\ loop[l].i \notin bought \cup pending
    /\ End(l, "NEEDS_ATTENTION")
    /\ UNCHANGED <<recorded, seen, cancel, up, late, listed, service, faults, history>>

PollPurchased(l) ==
    /\ At(l, "poll") /\ loop[l].i \in bought
    /\ Become(l, [loop[l] EXCEPT !.pc = "answered", !.answer = "PURCHASED"])
    /\ UNCHANGED Resting

PollGivesUp(l) ==
    /\ At(l, "poll")
    /\ End(l, "NEEDS_ATTENTION")
    /\ abandoned' = abandoned \cup {loop[l].i}
    /\ UNCHANGED <<recorded, seen, cancel, up, late, listed, service, faults, loose, crossed>>

-----------------------------------------------------------------------------
(* The money service, its retailers, and the process itself *)

Answer(l, a) == Become(l, [loop[l] EXCEPT !.pc = "answered", !.answer = a])

\* Slip: an order still open does not hold up the next.
EnterWhilePending(l) ==
    LET i == loop[l].i IN
    /\ At(l, "buy")
    /\ \/ i \in bought /\ Answer(l, "PURCHASED")
       \/ i \notin bought /\ hold[i] \notin {"held", "captured"} /\ Answer(l, "FAILED")
       \/ i \notin bought /\ hold[i] \in {"held", "captured"} /\ Go(l, "served")
    /\ UNCHANGED Resting

\* What POST /checkout reads before its first await; status "committed" is a
\* hold not spent and not released.
Enter(l) ==
    LET i == loop[l].i IN
    /\ At(l, "buy")
    /\ \/ i \in bought /\ Answer(l, "PURCHASED")
       \/ i \in pending \ bought /\ Answer(l, "UNKNOWN")
       \/ i \notin pending \cup bought /\ hold[i] \notin {"held", "captured"} /\ Answer(l, "FAILED")
       \/ i \notin pending \cup bought /\ hold[i] \in {"held", "captured"} /\ Go(l, "served")
    /\ UNCHANGED Resting

Orders(i) == orders' = [orders EXCEPT ![i] = @ + 1]
Holds(i, h) == hold' = [hold EXCEPT ![i] = h]

\* The market sells before the capture.  A hold released meanwhile, or an issuer
\* that refuses, leaves an order nobody paid.
Sells(i, o, a) ==
    \/ /\ a \in {"DECLINED", "FAILED"}
       /\ UNCHANGED <<hold, pending, bought, orders, listed, faults, loose>>
    \/ /\ o \in listed
       /\ Orders(i) /\ listed' = listed \ {o}
       /\ UNCHANGED pending
       /\ \/ /\ hold[i] = "held" /\ a = "PURCHASED"
             /\ Holds(i, "spent") /\ bought' = bought \cup {i}
             /\ UNCHANGED <<faults, loose>>
          \/ /\ hold[i] = "held" /\ a \in {"DECLINED", "FAILED", "NEEDS_ATTENTION"}
             /\ Fault /\ loose' = TRUE
             /\ UNCHANGED <<hold, bought>>
          \/ /\ hold[i] # "held" /\ a = "FAILED"
             /\ UNCHANGED <<hold, bought, faults, loose>>

\* Zinc is asked after the capture, and may take longer than the client waits.
Ships(i, a) ==
    /\ \/ /\ a = "FAILED" \/ (hold[i] = "held" /\ a \in {"DECLINED", "NEEDS_ATTENTION"})
          /\ UNCHANGED <<hold, pending, bought, orders>>
       \/ /\ hold[i] = "held" /\ a = "PURCHASED"
          /\ Orders(i) /\ Holds(i, "spent") /\ bought' = bought \cup {i}
          /\ UNCHANGED pending
       \/ /\ hold[i] = "held" /\ a = "FAILED"
          /\ Holds(i, "released")
          /\ UNCHANGED <<pending, bought, orders>>
       \/ /\ hold[i] = "held" /\ a = "UNKNOWN"
          /\ Holds(i, "captured") /\ pending' = pending \cup {i}
          /\ UNCHANGED <<bought, orders>>
    /\ UNCHANGED <<listed, faults, loose>>

Buys(i, o, a) == IF o \in Stores THEN Sells(i, o, a) ELSE Ships(i, a)

Serve(l) ==
    /\ At(l, "served")
    /\ \E a \in Answers \ {"none"} : Buys(loop[l].i, loop[l].o, a) /\ Answer(l, a)
    /\ UNCHANGED <<file, locks, cancel, up, late, orphans, crossed, abandoned>>

ServeOrphan(i, o) ==
    /\ <<i, o>> \in orphans
    /\ \E a \in Answers \ {"none"} : Buys(i, o, a)
    /\ orphans' = orphans \ {<<i, o>>}
    /\ UNCHANGED <<file, memory, late, crossed, abandoned>>

\* The order left open at Zinc is placed, or fails and is refunded.
Resolve(i) ==
    /\ i \in pending
    /\ pending' = pending \ {i}
    /\ \/ Orders(i) /\ Holds(i, "spent") /\ bought' = bought \cup {i}
       \/ Holds(i, "released") /\ UNCHANGED <<orders, bought>>
    /\ UNCHANGED <<file, memory, late, listed, orphans, faults, history>>

\* The process is killed, or nobody catches what it throws: a market out of
\* reach when an execution revalidates its offer.
Crash ==
    /\ up /\ Fault
    /\ up' = FALSE
    /\ locks' = [i \in Instructions |-> None]
    /\ loop' = [l \in Loops |-> Idle]
    /\ cancel' = [i \in Instructions |-> "no"]
    /\ orphans' = orphans \cup {<<loop[l].i, loop[l].o>> : l \in {k \in Loops : At(k, "served")}}
    /\ loose' = (loose \/ orphans' # orphans)
    /\ UNCHANGED <<file, late, listed, hold, pending, bought, orders, crossed, abandoned>>

\* load: "nothing is captured before merchant checkout, so it is safe to resume
\* monitoring".
Boot ==
    /\ ~up
    /\ up' = TRUE
    /\ status' = [i \in Instructions |-> IF status[i] = "EXECUTING" THEN "ACTIVE" ELSE status[i]]
    /\ UNCHANGED <<recorded, seen, locks, loop, cancel, late, listed, service, faults, history>>

DeadlinePasses(i) ==
    /\ status[i] # "none"
    /\ late' = late \cup {i}
    /\ UNCHANGED <<file, memory, listed, service, faults, history>>

Restock(o) ==
    /\ listed' = listed \cup {o}
    /\ UNCHANGED <<file, memory, late, service, faults, history>>

-----------------------------------------------------------------------------
Sweeping ==
    \/ TickFails \/ ReleaseExpired \/ Swept
    \/ \E i \in Instructions : Sweep(i)

Executor(l) ==
    \/ Execute(l) \/ RevalidationFails(l) \/ Revalidated(l) \/ PurchaseThrows(l)
    \/ SettlePurchased(l) \/ SettleRefused(l) \/ SettleUnknown(l)
    \/ PollMissing(l) \/ PollPurchased(l) \/ PollGivesUp(l)

Looping(l) ==
    \/ \E i \in Instructions, o \in Offers : Consider(l, i, o)
    \/ LoopEnds(l) \/ NormaliseFails(l) \/ Pass(l)
    \/ Executor(l)
    \/ Enter(l) \/ Serve(l)

Outside ==
    \/ Crash \/ Boot
    \/ \E o \in Stores \cup Retailers : Restock(o)
    \/ \E i \in Instructions :
          \/ Create(i) \/ Cancel(i) \/ ReleaseCancelled(i) \/ Cancelled(i)
          \/ Resolve(i) \/ DeadlinePasses(i)
          \/ \E o \in Offers : ServeOrphan(i, o)

Next ==
    \/ Tick \/ Fetched \/ ExaTick \/ Sweeping
    \/ \E l \in Loops : Looping(l)
    \/ Outside

Spec == Init /\ [][Next]_vars

\* The timers fire and every call ends; the market, asked again and again,
\* answers again and again.
Fairness ==
    /\ WF_vars(Tick) /\ WF_vars(Sweeping) /\ SF_vars(Fetched)
    /\ \A l \in Loops : WF_vars(Looping(l))

FairSpec == Spec /\ Fairness

-----------------------------------------------------------------------------
(* What must hold *)

\* Two loops, the next tick and the other loop's offer included, never execute
\* one instruction at a time, and the lock names the one that does (executor.ts:34).
OneExecution ==
    \A i \in Instructions :
        /\ Cardinality({l \in Loops : loop[l].i = i /\ loop[l].pc \in Executing}) <= 1
        /\ locks[i] # None => \E l \in Loops : loop[l].i = i /\ loop[l].o = locks[i]

\* One order at most is ever placed for an instruction, whatever is cancelled,
\* lost or restarted, unless a checkout went on at the money service after its
\* client hung up, or the market sold and an issuer refused the capture.
BuysOnce == ~loose => \A i \in Instructions : orders[i] <= 1

Busy(i) ==
    \/ \E l \in Loops : loop[l].i = i
    \/ cancel[i] # "no"
    \/ \E o \in Offers : <<i, o>> \in orphans

\* A purchase under the key of an instruction is recorded in the agent, unless
\* the order was still open when the polling ended or a fault came between.
PurchaseIsRecorded ==
    faults = 0 =>
        \A i \in bought \ abandoned : recorded[i] \/ Busy(i)

\* "Every terminal state releases the funds, so no authorisation is ever left
\* lingering" (autobuy/README.md), and a watch goes on only with a hold to buy
\* from: once nobody is at work on an instruction that no cancellation crossed,
\* its hold is what its status says.
HoldFollowsStatus ==
    faults = 0 =>
        \A i \in Instructions \ crossed : ~Busy(i) =>
            /\ status[i] = "ACTIVE" => hold[i] = "held"
            /\ status[i] \in {"CANCELLED", "EXPIRED"} => hold[i] \notin {"held", "attention"}
            /\ status[i] = "PURCHASED" => hold[i] = "spent"

\* A terminal status is final, but for a cancellation accepted before the
\* deadline was swept, unless a cancellation and an execution crossed: then each
\* writes over the other (index.ts:119, executor.ts:111).
TerminalIsFinal ==
    [][\A i \in Instructions \ crossed :
          status[i] \in Terminal /\ status'[i] # status[i] =>
              status[i] = "EXPIRED" /\ status'[i] = "CANCELLED"]_vars

\* An instruction past its deadline leaves ACTIVE and EXECUTING while the process
\* runs, however often the market was out of reach.
DeadlineIsKept ==
    \A i \in Instructions :
        i \in late /\ status[i] \in {"ACTIVE", "EXECUTING"}
            ~> status[i] \notin {"ACTIVE", "EXECUTING"} \/ ~up

-----------------------------------------------------------------------------
(* What the documentation says and the code does not do *)

\* "Buy once, ever" (autobuy/README.md:87), and state.ts:39: "nothing is captured
\* before merchant checkout, so it is safe to resume monitoring".
BuysOnceEver == \A i \in Instructions : orders[i] <= 1

=============================================================================
