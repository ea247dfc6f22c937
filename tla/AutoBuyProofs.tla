--------------------------- MODULE AutoBuyProofs ---------------------------
(***************************************************************************)
(* Theorems about AutoBuy, for any number of instructions, offers and      *)
(* faults: its types, that one loop at a time executes an instruction, and *)
(* what becomes of its status, its order and its hold.                     *)
(*                                                                         *)
(* The status does not keep the loops apart, since a cancellation or a     *)
(* settlement may have written another; the lock does.  It names the offer *)
(* of the one loop that stands in an execution, from Execute to End.       *)
(*                                                                         *)
(* An execution no cancellation crossed then has the status to itself      *)
(* (CrossInv), a hold is there for one order (OnceInv), and, while there   *)
(* is no fault, a loop follows every order until it is recorded            *)
(* (RecordInv) and the hold is what status and work say (StageInv).        *)
(***************************************************************************)
EXTENDS AutoBuy, FiniteSetTheorems, TLAPS

Pairs == Instructions \X Offers

Locals == [pc : PCs, todo : SUBSET Pairs, due : SUBSET Instructions,
           i : Instructions \cup {None}, o : Offers \cup {None}, answer : Answers]

\* From the offer it considers on, a loop has an instruction and an offer.
Fitting ==
    {x \in Locals :
        x.pc \in {"normalise"} \cup Executing => x.i \in Instructions /\ x.o \in Offers}

TypeInv == TypeOK /\ loop \in [Loops -> Fitting]

LEMMA Unfolded ==
    ASSUME TypeInv
    PROVE  /\ loop \in [Loops -> Fitting] /\ loop \in [Loops -> Locals]
           /\ \A l \in Loops : loop[l] \in Fitting /\ loop[l] \in Locals
           /\ status \in [Instructions -> Statuses]
           /\ recorded \in [Instructions -> BOOLEAN]
           /\ seen \in [Instructions -> SUBSET Offers]
           /\ locks \in [Instructions -> Offers \cup {None}]
           /\ late \subseteq Instructions /\ listed \subseteq Offers
           /\ faults \in 0 .. MaxFaults /\ MaxFaults \in Nat
  BY AutoBuyAssumption DEF TypeInv, TypeOK, Locals, Pairs, Fitting, Offers

LEMMA IdleFits == Idle \in Fitting /\ Idle \in Locals /\ Idle.pc = "idle"
  BY DEF Idle, Fitting, Locals, Executing, PCs, Answers

LEMMA InitTypeInv == Init => TypeInv
<1> SUFFICES ASSUME Init PROVE TypeInv
  OBVIOUS
<1>1. loop \in [Loops -> Fitting] /\ loop \in [Loops -> Locals]
  BY IdleFits DEF Init
<1>2. /\ status \in [Instructions -> Statuses]
      /\ recorded \in [Instructions -> BOOLEAN]
      /\ seen \in [Instructions -> SUBSET Offers]
      /\ locks \in [Instructions -> Offers \cup {None}]
  BY DEF Init, Statuses
<1>3. /\ cancel \in [Instructions -> {"no", "asked", "released"}]
      /\ hold \in [Instructions -> {"none", "attention", "held", "captured", "spent", "released"}]
      /\ orders \in [Instructions -> Nat]
  BY DEF Init
<1>4. faults \in 0 .. MaxFaults
  BY AutoBuyAssumption DEF Init
<1>5. TypeOK
  BY <1>1, <1>2, <1>3, <1>4 DEF Init, TypeOK, Locals, Pairs
<1> QED BY <1>1, <1>5 DEF TypeInv

-----------------------------------------------------------------------------
(* Type correctness *)

LEMMA BecomeTypes ==
    ASSUME TypeInv, NEW l, NEW x \in Fitting, Become(l, x)
    PROVE  loop' \in [Loops -> Fitting] /\ loop' \in [Loops -> Locals]
  BY Unfolded DEF Become, Fitting

\* A step that types what it writes of these, and leaves the rest.
LEMMA TypesKept ==
    ASSUME TypeInv, loop' \in [Loops -> Fitting] /\ loop' \in [Loops -> Locals],
           status' \in [Instructions -> Statuses], recorded' \in [Instructions -> BOOLEAN],
           seen' \in [Instructions -> SUBSET Offers],
           locks' \in [Instructions -> Offers \cup {None}],
           crossed' \subseteq Instructions, abandoned' \subseteq Instructions,
           UNCHANGED <<cancel, up, late, listed, service, faults, loose>>
    PROVE  TypeInv'
<1>1. TypeOK'
  BY DEF TypeInv, TypeOK, service, Locals, Pairs
<1> QED BY <1>1 DEF TypeInv

\* A step of a loop that writes nothing else.
LEMMA LocalStep ==
    ASSUME TypeInv, NEW l, NEW x \in Fitting, Become(l, x), UNCHANGED Resting
    PROVE  TypeInv'
<1>1. loop' \in [Loops -> Fitting] /\ loop' \in [Loops -> Locals]
  BY BecomeTypes
<1>2. UNCHANGED <<status, recorded, seen, locks, cancel, up, late, listed, service, faults, loose,
                  crossed, abandoned>>
  BY DEF Resting, file, history
<1> QED BY <1>1, <1>2, Unfolded, TypesKept DEF TypeInv, TypeOK

\* A loop that goes on within an execution, or to where it needs no offer.
LEMMA GoFits ==
    ASSUME TypeInv, NEW l \in Loops, NEW pc \in PCs,
           \/ pc \notin {"normalise"} \cup Executing
           \/ loop[l].pc \in {"normalise"} \cup Executing
    PROVE  /\ [loop[l] EXCEPT !.pc = pc] \in Fitting
           /\ \A a \in Answers : [loop[l] EXCEPT !.pc = pc, !.answer = a] \in Fitting
  BY Unfolded DEF Fitting, Locals

LEMMA LeaveFits ==
    ASSUME TypeInv, NEW l \in Loops
    PROVE  /\ [loop[l] EXCEPT !.pc = "loop", !.i = None, !.o = None, !.answer = "none"] \in Fitting
           /\ [loop[l] EXCEPT !.pc = "sweep", !.i = None] \in Fitting
  BY Unfolded DEF Fitting, Locals, PCs, Answers, Executing

LEMMA TickTypes ==
    ASSUME TypeInv,
           \/ Tick \/ TickFails \/ Fetched \/ Swept \/ ExaTick
           \/ \E l \in Loops : LoopEnds(l) \/ Pass(l)
    PROVE  TypeInv'
<1>1. "tick" \in Loops /\ "exa" \in Loops
  BY DEF Loops
<1>2. CASE Tick
  <2>1. [Idle EXCEPT !.pc = "fetch"] \in Fitting
    BY IdleFits DEF Fitting, Locals, PCs, Executing
  <2> QED BY <1>2, <2>1, LocalStep DEF Tick
<1>3. CASE TickFails
  BY <1>3, IdleFits, LocalStep DEF TickFails
<1>4. CASE Fetched
  <2>1. Instructions \X listed \in SUBSET Pairs /\ late \in SUBSET Instructions
    BY Unfolded DEF Pairs
  <2>2. [Idle EXCEPT !.pc = "sweep", !.todo = Instructions \X listed, !.due = late] \in Fitting
    BY <2>1, IdleFits DEF Fitting, Locals, PCs, Executing
  <2> QED BY <1>4, <2>2, LocalStep DEF Fetched
<1>5. CASE Swept
  <2> DEFINE todo == loop["tick"].todo \cap (Active \X Offers)
  <2>1. todo \in SUBSET Pairs
    BY <1>1, Unfolded DEF Locals
  <2>2. [loop["tick"] EXCEPT !.pc = "loop", !.todo = todo] \in Fitting
    <3> HIDE DEF todo
    <3>1. \A x \in Fitting : [x EXCEPT !.pc = "loop", !.todo = todo] \in Fitting
      BY <2>1 DEF Fitting, Locals, PCs, Executing
    <3> QED BY <1>1, <3>1, Unfolded
  <2>3. Become("tick", [loop["tick"] EXCEPT !.pc = "loop", !.todo = todo])
    BY <1>1, <1>5, Unfolded DEF Swept, Locals
  <2> QED BY <1>5, <2>2, <2>3, LocalStep DEF Swept
<1>6. CASE ExaTick
  <2>1. PICK found \in SUBSET (Active \X Web) : Become("exa", [Idle EXCEPT !.pc = "loop", !.todo = found])
    BY <1>6 DEF ExaTick
  <2>2. found \in SUBSET Pairs
    BY DEF Active, Pairs, Offers
  <2>3. [Idle EXCEPT !.pc = "loop", !.todo = found] \in Fitting
    BY <2>2, IdleFits DEF Fitting, Locals, PCs, Executing
  <2> QED BY <1>6, <2>1, <2>3, LocalStep DEF ExaTick
<1>7. ASSUME NEW l \in Loops, LoopEnds(l) PROVE TypeInv'
  BY <1>7, IdleFits, LocalStep DEF LoopEnds
<1>8. ASSUME NEW l \in Loops, Pass(l) PROVE TypeInv'
  BY <1>8, LeaveFits, LocalStep DEF Pass, Leave
<1> QED BY <1>2, <1>3, <1>4, <1>5, <1>6, <1>7, <1>8

LEMMA SweepTypes ==
    ASSUME TypeInv, NEW i \in Instructions, Sweep(i)
    PROVE  TypeInv'
<1> DEFINE due == loop["tick"].due \ {i}
<1>1. loop["tick"] \in Fitting /\ loop["tick"] \in Locals
  BY Unfolded DEF Loops
<1>2. due \in SUBSET Instructions
  BY <1>1 DEF Locals
<1>3. /\ [loop["tick"] EXCEPT !.pc = "release", !.due = due, !.i = i] \in Fitting
      /\ [loop["tick"] EXCEPT !.due = due] \in Fitting
  <2>1. [loop["tick"] EXCEPT !.pc = "release", !.due = due, !.i = i] \in Fitting
    BY <1>1, <1>2 DEF Fitting, Locals, PCs, Executing
  <2>2. [loop["tick"] EXCEPT !.due = due] \in Fitting
    BY <1>1, <1>2 DEF Fitting, Locals
  <2> QED BY <2>1, <2>2
<1>4. \E x \in Fitting : Become("tick", x)
  BY <1>1, <1>3 DEF Sweep, Locals
<1>5. status' \in [Instructions -> Statuses]
  BY Unfolded DEF Sweep, SetStatus, Statuses, Terminal
<1>6. UNCHANGED <<recorded, seen, locks, cancel, up, late, listed, service, faults, loose, crossed, abandoned>>
  BY DEF Sweep, history
<1> QED BY <1>4, <1>5, <1>6, BecomeTypes, TypesKept, Unfolded DEF TypeInv, TypeOK

LEMMA ConsiderTypes ==
    ASSUME TypeInv, NEW l \in Loops,
           NormaliseFails(l) \/ \E i \in Instructions, o \in Offers : Consider(l, i, o)
    PROVE  TypeInv'
<1>1. loop[l] \in Fitting /\ loop[l] \in Locals
  BY Unfolded
<1>2. \E x \in Fitting : Become(l, x)
  <2>1. CASE NormaliseFails(l)
    BY <2>1, LeaveFits DEF NormaliseFails, Leave
  <2>2. ASSUME NEW i \in Instructions, NEW o \in Offers, Consider(l, i, o)
        PROVE  \E x \in Fitting : Become(l, x)
    <3>1. \A todo \in SUBSET Pairs : [loop[l] EXCEPT !.todo = todo] \in Fitting
      BY <1>1 DEF Fitting, Locals
    <3>2. \A todo \in SUBSET Pairs :
             [loop[l] EXCEPT !.todo = todo, !.pc = "normalise", !.i = i, !.o = o] \in Fitting
      BY <1>1 DEF Fitting, Locals, PCs
    <3>3. \A S : loop[l].todo \ S \in SUBSET Pairs
      BY <1>1 DEF Locals
    <3>4. CASE Become(l, [loop[l] EXCEPT !.todo = @ \ ({i} \X Offers)])
      BY <1>1, <3>1, <3>3, <3>4 DEF Locals
    <3>5. CASE Become(l, [loop[l] EXCEPT !.todo = @ \ {<<i, o>>}])
      BY <1>1, <3>1, <3>3, <3>5 DEF Locals
    <3>6. CASE Become(l, [loop[l] EXCEPT !.todo = @ \ {<<i, o>>}, !.pc = "normalise", !.i = i, !.o = o])
      BY <1>1, <3>2, <3>3, <3>6 DEF Locals
    <3> QED BY <2>2, <3>4, <3>5, <3>6 DEF Consider
  <2> QED BY <2>1, <2>2
<1>3. seen' \in [Instructions -> SUBSET Offers]
  <2>1. UNCHANGED seen => seen' \in [Instructions -> SUBSET Offers]
    BY Unfolded
  <2>2. \A i, S : seen' = [seen EXCEPT ![i] = @ \ S] => seen' \in [Instructions -> SUBSET Offers]
    BY Unfolded
  <2>3. CASE NormaliseFails(l)
    <3>1. seen' = seen \/ seen' = [seen EXCEPT ![loop[l].i] = @ \ {loop[l].o}]
      BY <2>3 DEF NormaliseFails
    <3> QED BY <2>1, <2>2, <3>1
  <2>4. ASSUME NEW i \in Instructions, NEW o \in Offers, Consider(l, i, o)
        PROVE  seen' \in [Instructions -> SUBSET Offers]
    <3>1. seen' = seen \/ seen' = [seen EXCEPT ![i] = @ \cup {o}]
      BY <2>4 DEF Consider
    <3>2. CASE seen' = [seen EXCEPT ![i] = @ \cup {o}]
      BY <3>2, Unfolded
    <3> QED BY <2>1, <3>1, <3>2
  <2> QED BY <2>3, <2>4
<1>4. UNCHANGED <<status, recorded, locks, cancel, up, late, listed, service, faults, loose, crossed, abandoned>>
  BY DEF Consider, NormaliseFails, history
<1> QED BY <1>2, <1>3, <1>4, BecomeTypes, TypesKept, Unfolded DEF TypeInv, TypeOK

\* An execution begins.
LEMMA ExecuteTypes ==
    ASSUME TypeInv, NEW l \in Loops, Execute(l)
    PROVE  TypeInv'
<1>1. loop[l].i \in Instructions /\ loop[l].o \in Offers
  BY Unfolded DEF Execute, At, Fitting
<1>2. [loop[l] EXCEPT !.pc = "revalidate"] \in Fitting
  BY GoFits DEF Execute, At, PCs
<1>3. loop' \in [Loops -> Fitting] /\ loop' \in [Loops -> Locals]
  BY <1>2, BecomeTypes DEF Execute, Go
<1>4. status' \in [Instructions -> Statuses] /\ locks' \in [Instructions -> Offers \cup {None}]
  BY <1>1, Unfolded DEF Execute, SetStatus, Statuses
<1>5. crossed' \subseteq Instructions
  BY <1>1 DEF Execute, TypeInv, TypeOK
<1> QED BY <1>3, <1>4, <1>5, TypesKept, Unfolded DEF Execute, TypeInv, TypeOK

\* An execution goes on.
LEMMA GoesOnTypes ==
    ASSUME TypeInv, NEW l \in Loops,
           Revalidated(l) \/ SettleUnknown(l) \/ PollPurchased(l) \/ Enter(l)
    PROVE  TypeInv'
<1>1. \E x \in Fitting : Become(l, x)
  BY GoFits DEF Revalidated, SettleUnknown, PollPurchased, Enter, Answer, Go, At, PCs, Executing, Answers
<1> QED BY <1>1, LocalStep DEF Revalidated, SettleUnknown, PollPurchased, Enter

LEMMA EndTypes ==
    ASSUME TypeInv, NEW l \in Loops, NEW s \in Statuses, End(l, s)
    PROVE  /\ loop' \in [Loops -> Fitting] /\ loop' \in [Loops -> Locals]
           /\ status' \in [Instructions -> Statuses]
           /\ locks' \in [Instructions -> Offers \cup {None}]
<1>1. loop' \in [Loops -> Fitting] /\ loop' \in [Loops -> Locals]
  BY LeaveFits, BecomeTypes DEF End, Leave
<1>2. status' \in [Instructions -> Statuses] /\ locks' \in [Instructions -> Offers \cup {None}]
  BY Unfolded DEF End, SetStatus
<1> QED BY <1>1, <1>2

Ends(l) ==
    \/ RevalidationFails(l) \/ PurchaseThrows(l) \/ SettlePurchased(l) \/ SettleRefused(l)
    \/ PollMissing(l) \/ PollGivesUp(l)

LEMMA EndsEnd ==
    ASSUME NEW l, Ends(l)
    PROVE  (\E s \in Statuses : End(l, s)) /\ loop[l].pc \in Executing
  BY DEF Ends, RevalidationFails, PurchaseThrows, SettlePurchased, SettleRefused, PollMissing,
         PollGivesUp, Statuses, Terminal, At, Executing

LEMMA EndsTypes ==
    ASSUME TypeInv, NEW l \in Loops, Ends(l)
    PROVE  TypeInv'
<1>1. /\ loop' \in [Loops -> Fitting] /\ loop' \in [Loops -> Locals]
      /\ status' \in [Instructions -> Statuses]
      /\ locks' \in [Instructions -> Offers \cup {None}]
  BY EndsEnd, EndTypes
<1>2. loop[l].i \in Instructions /\ loop[l].o \in Offers
  BY EndsEnd, Unfolded DEF Fitting
<1>3. CASE PurchaseThrows(l)
  <2>1. orphans' \subseteq Instructions \X Offers
    BY <1>2, <1>3 DEF PurchaseThrows, TypeInv, TypeOK
  <2>2. faults' \in 0 .. MaxFaults
    BY <1>3, Unfolded DEF PurchaseThrows, Fault
  <2>3. loose' \in BOOLEAN
    BY <1>3, Zenon DEF PurchaseThrows, TypeInv, TypeOK
  <2>4. TypeOK'
    BY <1>1, <1>3, <2>1, <2>2, <2>3 DEF PurchaseThrows, TypeInv, TypeOK, Locals, Pairs
  <2> QED BY <1>1, <2>4 DEF TypeInv
<1>4. CASE ~PurchaseThrows(l)
  <2>1. recorded' \in [Instructions -> BOOLEAN]
    BY <1>4, Unfolded DEF Ends, RevalidationFails, SettlePurchased, SettleRefused, PollMissing, PollGivesUp
  <2>2. crossed' \subseteq Instructions /\ abandoned' \subseteq Instructions
    BY <1>2, <1>4 DEF Ends, RevalidationFails, SettlePurchased, SettleRefused, PollMissing, PollGivesUp,
       history, TypeInv, TypeOK
  <2>3. UNCHANGED <<seen, cancel, up, late, listed, service, faults, loose>>
    BY <1>4 DEF Ends, RevalidationFails, SettlePurchased, SettleRefused, PollMissing, PollGivesUp, history
  <2> QED BY <1>1, <2>1, <2>2, <2>3, TypesKept, Unfolded
<1> QED BY <1>3, <1>4

\* The money service, its answers and what it goes on with.
LEMMA BuysTypes ==
    ASSUME TypeInv, NEW i \in Instructions, NEW o, NEW a, Buys(i, o, a)
    PROVE  /\ hold' \in [Instructions -> {"none", "attention", "held", "captured", "spent", "released"}]
           /\ orders' \in [Instructions -> Nat]
           /\ pending' \subseteq Instructions /\ bought' \subseteq Instructions
           /\ listed' \subseteq Stores \cup Retailers
           /\ faults' \in 0 .. MaxFaults /\ loose' \in BOOLEAN
<1> DEFINE HoldStates == {"none", "attention", "held", "captured", "spent", "released"}
<1>1. /\ hold \in [Instructions -> HoldStates] /\ orders \in [Instructions -> Nat]
      /\ pending \subseteq Instructions /\ bought \subseteq Instructions
      /\ listed \subseteq Stores \cup Retailers
      /\ faults \in 0 .. MaxFaults /\ loose \in BOOLEAN
  BY DEF TypeInv, TypeOK
<1>2. hold' \in [Instructions -> HoldStates]
  BY <1>1 DEF Buys, Sells, Ships, Holds
<1>3. orders' \in [Instructions -> Nat]
  BY <1>1 DEF Buys, Sells, Ships, Orders
<1>4. pending' \subseteq Instructions /\ bought' \subseteq Instructions /\ listed' \subseteq Stores \cup Retailers
  BY <1>1 DEF Buys, Sells, Ships
<1>5. faults' \in 0 .. MaxFaults
  BY <1>1, AutoBuyAssumption DEF Buys, Sells, Ships, Fault
<1>6. loose' \in BOOLEAN
  BY <1>1 DEF Buys, Sells, Ships
<1> QED BY <1>2, <1>3, <1>4, <1>5, <1>6

LEMMA ServeTypes ==
    ASSUME TypeInv,
           \/ \E l \in Loops : Serve(l)
           \/ \E i \in Instructions, o \in Offers : ServeOrphan(i, o)
    PROVE  TypeInv'
<1>1. ASSUME NEW l \in Loops, Serve(l) PROVE TypeInv'
  <2>1. PICK a \in Answers : Buys(loop[l].i, loop[l].o, a) /\ Answer(l, a)
    BY <1>1 DEF Serve
  <2>2. loop[l].i \in Instructions
    BY <1>1, Unfolded DEF Serve, At, Fitting, Executing
  <2>3. loop' \in [Loops -> Fitting] /\ loop' \in [Loops -> Locals]
    BY <1>1, <2>1, GoFits, BecomeTypes DEF Serve, Answer, At, PCs, Executing
  <2>4. UNCHANGED <<file, locks, cancel, up, late, orphans, crossed, abandoned>>
    BY <1>1 DEF Serve
  <2>5. TypeOK'
    BY <2>1, <2>2, <2>3, <2>4, BuysTypes DEF TypeInv, TypeOK, file, Locals, Pairs
  <2> QED BY <2>3, <2>5 DEF TypeInv
<1>2. ASSUME NEW i \in Instructions, NEW o \in Offers, ServeOrphan(i, o) PROVE TypeInv'
  <2>1. PICK a \in Answers : Buys(i, o, a)
    BY <1>2 DEF ServeOrphan
  <2>2. /\ UNCHANGED <<file, memory, late, crossed, abandoned>>
        /\ orphans' \subseteq orphans
    BY <1>2 DEF ServeOrphan
  <2>3. TypeOK'
    BY <2>1, <2>2, BuysTypes DEF TypeInv, TypeOK, file, memory, Locals, Pairs
  <2> QED BY <2>2, <2>3 DEF memory, TypeInv
<1> QED BY <1>1, <1>2

LEMMA ReleaseTypes ==
    ASSUME TypeInv, ReleaseExpired \/ \E i \in Instructions : ReleaseCancelled(i)
    PROVE  TypeInv'
<1> DEFINE HoldStates == {"none", "attention", "held", "captured", "spent", "released"}
<1>1. hold \in [Instructions -> HoldStates] /\ cancel \in [Instructions -> {"no", "asked", "released"}]
  BY DEF TypeInv, TypeOK
<1>2. \A i : Release(i) => hold' \in [Instructions -> HoldStates]
  BY <1>1 DEF Release
<1>3. hold' \in [Instructions -> HoldStates]
  BY <1>1, <1>2 DEF ReleaseExpired, ReleaseCancelled
<1>4. faults' \in 0 .. MaxFaults
  BY Unfolded DEF ReleaseExpired, ReleaseCancelled, Fault
<1>5. loop' \in [Loops -> Fitting] /\ loop' \in [Loops -> Locals]
  <2>1. CASE ReleaseExpired
    BY <2>1, LeaveFits, BecomeTypes DEF ReleaseExpired, Loops
  <2>2. CASE UNCHANGED loop
    BY <2>2, Unfolded
  <2> QED BY <2>1, <2>2 DEF ReleaseCancelled
<1>6. cancel' \in [Instructions -> {"no", "asked", "released"}]
  BY <1>1 DEF ReleaseExpired, ReleaseCancelled
<1>7. UNCHANGED <<file, locks, up, late, listed, pending, bought, orders, orphans, history>>
  BY DEF ReleaseExpired, ReleaseCancelled
<1>8. TypeOK'
  BY <1>3, <1>4, <1>5, <1>6, <1>7 DEF TypeInv, TypeOK, file, history, Locals, Pairs
<1> QED BY <1>5, <1>8 DEF TypeInv

\* Requests and the world outside, but the money service.
LEMMA RequestTypes ==
    ASSUME TypeInv, NEW i \in Instructions,
           Create(i) \/ Cancel(i) \/ Cancelled(i) \/ Resolve(i) \/ DeadlinePasses(i)
    PROVE  TypeInv'
<1>1. UNCHANGED loop
  BY DEF Create, Cancel, Cancelled, Resolve, DeadlinePasses, memory
<1>2. CASE Create(i)
  <2>1. status' \in [Instructions -> Statuses]
    BY <1>2, Unfolded DEF Create, SetStatus, Statuses
  <2>2. hold' \in [Instructions -> {"none", "attention", "held", "captured", "spent", "released"}]
    BY <1>2 DEF Create, TypeInv, TypeOK
  <2> QED BY <1>2, <2>1, <2>2 DEF Create, TypeInv, TypeOK, memory, history
<1>3. CASE Cancel(i)
  <2>1. cancel' \in [Instructions -> {"no", "asked", "released"}] /\ crossed' \subseteq Instructions
    BY <1>3 DEF Cancel, TypeInv, TypeOK
  <2> QED BY <1>3, <2>1 DEF Cancel, TypeInv, TypeOK, file, service
<1>4. CASE Cancelled(i)
  <2>1. status' \in [Instructions -> Statuses]
    BY <1>4, Unfolded DEF Cancelled, SetStatus, Statuses, Terminal
  <2>2. cancel' \in [Instructions -> {"no", "asked", "released"}]
    BY <1>4 DEF Cancelled, TypeInv, TypeOK
  <2> QED BY <1>4, <2>1, <2>2 DEF Cancelled, TypeInv, TypeOK, service, history
<1>5. CASE Resolve(i)
  <2>1. /\ hold' \in [Instructions -> {"none", "attention", "held", "captured", "spent", "released"}]
        /\ orders' \in [Instructions -> Nat]
        /\ pending' \subseteq Instructions /\ bought' \subseteq Instructions
    BY <1>5 DEF Resolve, Orders, Holds, TypeInv, TypeOK
  <2> QED BY <1>5, <2>1 DEF Resolve, TypeInv, TypeOK, file, memory, history
<1>6. CASE DeadlinePasses(i)
  BY <1>6 DEF DeadlinePasses, TypeInv, TypeOK, file, memory, service, history
<1> QED BY <1>2, <1>3, <1>4, <1>5, <1>6

LEMMA ProcessTypes ==
    ASSUME TypeInv, Crash \/ Boot \/ \E o \in Stores \cup Retailers : Restock(o)
    PROVE  TypeInv'
<1>1. CASE Crash
  <2>1. /\ loop' \in [Loops -> Fitting] /\ loop' \in [Loops -> Locals]
        /\ locks' \in [Instructions -> Offers \cup {None}]
        /\ cancel' \in [Instructions -> {"no", "asked", "released"}]
    BY <1>1, IdleFits DEF Crash
  <2>2. \A l \in Loops : At(l, "served") => <<loop[l].i, loop[l].o>> \in Instructions \X Offers
    BY Unfolded DEF At, Fitting, Executing
  <2>3. orphans' \subseteq Instructions \X Offers
    BY <1>1, <2>2 DEF Crash, TypeInv, TypeOK
  <2>4. faults' \in 0 .. MaxFaults
    BY <1>1, Unfolded DEF Crash, Fault
  <2>5. loose' \in BOOLEAN /\ up' \in BOOLEAN
    BY <1>1, Zenon DEF Crash, TypeInv, TypeOK
  <2>6. TypeOK'
    BY <1>1, <2>1, <2>3, <2>4, <2>5 DEF Crash, TypeInv, TypeOK, file, Locals, Pairs
  <2> QED BY <2>1, <2>6 DEF TypeInv
<1>2. CASE Boot
  <2>1. status' \in [Instructions -> Statuses]
    BY <1>2, Unfolded DEF Boot, Statuses
  <2> QED BY <1>2, <2>1 DEF Boot, TypeInv, TypeOK, service, history
<1>3. ASSUME NEW o \in Stores \cup Retailers, Restock(o) PROVE TypeInv'
  BY <1>3 DEF Restock, TypeInv, TypeOK, file, memory, service, history
<1> QED BY <1>1, <1>2, <1>3

LEMMA TypeInvStep == TypeInv /\ [Next]_vars => TypeInv'
<1> SUFFICES ASSUME TypeInv, [Next]_vars PROVE TypeInv'
  OBVIOUS
<1>1. Tick \/ Fetched \/ ExaTick => TypeInv'
  BY TickTypes
<1>2. Sweeping => TypeInv'
  BY TickTypes, SweepTypes, ReleaseTypes DEF Sweeping
<1>3. ASSUME NEW l \in Loops, Looping(l) PROVE TypeInv'
  BY <1>3, TickTypes, ConsiderTypes, ExecuteTypes, GoesOnTypes, EndsTypes, ServeTypes
  DEF Looping, Executor, Ends
<1>4. CASE Outside
  BY <1>4, ProcessTypes, RequestTypes, ReleaseTypes, ServeTypes DEF Outside
<1>5. CASE UNCHANGED vars
  BY <1>5 DEF vars, file, memory, service, history, TypeInv, TypeOK
<1> QED BY <1>1, <1>2, <1>3, <1>4, <1>5 DEF Next

-----------------------------------------------------------------------------
(* One execution *)

\* The lock of an instruction names the offer of the loop that executes it, and
\* there is one such loop.
LockInv ==
    /\ \A l \in Loops : loop[l].pc \in Executing => locks[loop[l].i] = loop[l].o
    /\ \A i \in Instructions : locks[i] # None =>
          \E l \in Loops : loop[l].pc \in Executing /\ loop[l].i = i
    /\ \A l, k \in Loops :
          loop[l].pc \in Executing /\ loop[k].pc \in Executing /\ loop[l].i = loop[k].i => l = k

LEMMA InitLockInv == Init => LockInv
  BY DEF Init, LockInv, Idle, Executing

\* Executions go on as they are.
SameExecutions ==
    \A l \in Loops :
        /\ loop'[l].pc \in Executing <=> loop[l].pc \in Executing
        /\ loop[l].pc \in Executing => loop'[l].i = loop[l].i /\ loop'[l].o = loop[l].o

LEMMA QuietStep ==
    ASSUME TypeInv, LockInv, UNCHANGED locks, SameExecutions
    PROVE  LockInv'
  BY DEF LockInv, SameExecutions

\* The loops between executions.
LEMMA LoopsQuietly ==
    ASSUME TypeInv, NEW l \in Loops,
           \/ l = "tick" /\ (Tick \/ Fetched \/ Sweeping)
           \/ l = "exa" /\ ExaTick
           \/ \E i \in Instructions, o \in Offers : Consider(l, i, o)
           \/ LoopEnds(l) \/ NormaliseFails(l) \/ Pass(l)
    PROVE  SameExecutions /\ UNCHANGED locks
<1>1. loop[l].pc \notin Executing
  BY DEF Tick, Fetched, Sweeping, TickFails, ReleaseExpired, Swept, Sweep, ExaTick, Consider,
         LoopEnds, NormaliseFails, Pass, At, Executing
<1>2. loop'[l].pc \notin Executing /\ \A k \in Loops \ {l} : loop'[k] = loop[k]
  <2> USE Unfolded DEF Become, At, Idle, Locals, Executing
  <2>1. CASE l = "tick" /\ Tick
    BY <2>1 DEF Tick
  <2>2. CASE l = "tick" /\ Fetched
    BY <2>2 DEF Fetched
  <2>3. CASE l = "tick" /\ Sweeping
    <3>1. CASE TickFails
      BY <2>3, <3>1 DEF TickFails
    <3>2. CASE ReleaseExpired
      BY <2>3, <3>2 DEF ReleaseExpired
    <3>3. CASE Swept
      BY <2>3, <3>3 DEF Swept
    <3>4. ASSUME NEW i \in Instructions, Sweep(i)
          PROVE  loop'[l].pc \notin Executing /\ \A k \in Loops \ {l} : loop'[k] = loop[k]
      BY <2>3, <3>4 DEF Sweep
    <3> QED BY <2>3, <3>1, <3>2, <3>3, <3>4 DEF Sweeping
  <2>4. CASE l = "exa" /\ ExaTick
    BY <2>4 DEF ExaTick
  <2>5. ASSUME NEW i \in Instructions, NEW o \in Offers, Consider(l, i, o)
        PROVE  loop'[l].pc \notin Executing /\ \A k \in Loops \ {l} : loop'[k] = loop[k]
    <3> DEFINE S == loop[l].todo \ ({i} \X Offers)
               T == loop[l].todo \ {<<i, o>>}
    <3>1. loop[l].pc = "loop"
      BY <2>5 DEF Consider
    <3>2. \/ Become(l, [loop[l] EXCEPT !.todo = S])
          \/ Become(l, [loop[l] EXCEPT !.todo = T])
          \/ Become(l, [loop[l] EXCEPT !.todo = T, !.pc = "normalise", !.i = i, !.o = o])
      BY <2>5 DEF Consider
    <3> HIDE DEF S, T
    <3>3. CASE Become(l, [loop[l] EXCEPT !.todo = S])
      BY <3>1, <3>3
    <3>4. CASE Become(l, [loop[l] EXCEPT !.todo = T])
      BY <3>1, <3>4
    <3>5. CASE Become(l, [loop[l] EXCEPT !.todo = T, !.pc = "normalise", !.i = i, !.o = o])
      BY <3>1, <3>5
    <3> QED BY <3>2, <3>3, <3>4, <3>5
  <2>6. CASE LoopEnds(l)
    BY <2>6 DEF LoopEnds
  <2>7. CASE NormaliseFails(l)
    BY <2>7 DEF NormaliseFails, Leave
  <2>8. CASE Pass(l)
    BY <2>8 DEF Pass, Leave
  <2> QED BY <2>1, <2>2, <2>3, <2>4, <2>5, <2>6, <2>7, <2>8
<1>3. UNCHANGED locks
  BY DEF Tick, Fetched, Sweeping, TickFails, ReleaseExpired, Swept, Sweep, ExaTick, Consider,
         LoopEnds, NormaliseFails, Pass, Resting
<1> QED BY <1>1, <1>2, <1>3 DEF SameExecutions

LEMMA ExecutionsGoOn ==
    ASSUME TypeInv, NEW l \in Loops,
           Revalidated(l) \/ SettleUnknown(l) \/ PollPurchased(l) \/ Enter(l) \/ Serve(l)
    PROVE  SameExecutions /\ UNCHANGED locks
<1>1. loop[l].pc \in Executing /\ UNCHANGED locks
  BY DEF Revalidated, SettleUnknown, PollPurchased, Enter, Serve, At, Executing, Resting
<1>2. /\ loop'[l].pc \in Executing /\ loop'[l].i = loop[l].i /\ loop'[l].o = loop[l].o
      /\ \A k \in Loops \ {l} : loop'[k] = loop[k]
  <2> USE Unfolded DEF Become, Go, Answer, Locals, Executing
  <2>1. CASE Revalidated(l)
    BY <2>1 DEF Revalidated
  <2>2. CASE SettleUnknown(l)
    BY <2>2 DEF SettleUnknown
  <2>3. CASE PollPurchased(l)
    BY <2>3 DEF PollPurchased
  <2>4. CASE Enter(l)
    <3>1. \/ Become(l, [loop[l] EXCEPT !.pc = "served"])
          \/ \E a \in Answers : Become(l, [loop[l] EXCEPT !.pc = "answered", !.answer = a])
      BY <2>4 DEF Enter, Answers
    <3>2. loop[l].pc = "buy"
      BY <2>4 DEF Enter, At
    <3>3. CASE Become(l, [loop[l] EXCEPT !.pc = "served"])
      BY <3>2, <3>3
    <3>4. ASSUME NEW a \in Answers, Become(l, [loop[l] EXCEPT !.pc = "answered", !.answer = a])
          PROVE  /\ loop'[l].pc \in Executing /\ loop'[l].i = loop[l].i /\ loop'[l].o = loop[l].o
                 /\ \A k \in Loops \ {l} : loop'[k] = loop[k]
      BY <3>2, <3>4
    <3> QED BY <3>1, <3>3, <3>4
  <2>5. CASE Serve(l)
    BY <2>5 DEF Serve
  <2> QED BY <2>1, <2>2, <2>3, <2>4, <2>5
<1> QED BY <1>1, <1>2 DEF SameExecutions

LEMMA ExecuteStep ==
    ASSUME TypeInv, LockInv, NEW l \in Loops, Execute(l)
    PROVE  LockInv'
<1> DEFINE i == loop[l].i
<1>1. i \in Instructions /\ loop[l].o \in Offers /\ loop[l].o # None /\ locks[i] = None
  BY Unfolded, AutoBuyAssumption DEF Execute, At, Fitting, Locked, Offers
<1>2. \A k \in Loops : loop[k].pc \in Executing => loop[k].i \in Instructions /\ loop[k].i # i
  <2> SUFFICES ASSUME NEW k \in Loops, loop[k].pc \in Executing
               PROVE  loop[k].i \in Instructions /\ loop[k].i # i
    OBVIOUS
  <2>1. loop[k].i \in Instructions /\ loop[k].o \in Offers
    BY Unfolded DEF Fitting
  <2>2. loop[k].o # None
    BY <2>1, AutoBuyAssumption DEF Offers
  <2> QED BY <1>1, <2>1, <2>2 DEF LockInv
<1>3. /\ loop'[l].pc \in Executing /\ loop'[l].i = i /\ loop'[l].o = loop[l].o
      /\ \A k \in Loops \ {l} : loop'[k] = loop[k]
  BY Unfolded DEF Execute, Go, Become, Locals, Executing
<1>4. locks'[i] = loop[l].o /\ \A j \in Instructions \ {i} : locks'[j] = locks[j]
  BY <1>1, Unfolded DEF Execute
<1>5. loop[l].pc \notin Executing
  BY DEF Execute, At, Executing
<1> QED BY <1>1, <1>2, <1>3, <1>4, <1>5 DEF LockInv

LEMMA EndStep ==
    ASSUME TypeInv, LockInv, NEW l \in Loops, Ends(l)
    PROVE  LockInv'
<1> DEFINE i == loop[l].i
<1>1. loop[l].pc \in Executing /\ i \in Instructions
  BY EndsEnd, Unfolded DEF Fitting
<1>2. PICK s : End(l, s)
  BY EndsEnd
<1>3. /\ loop'[l].pc \notin Executing
      /\ \A k \in Loops \ {l} : loop'[k] = loop[k]
  BY <1>2, Unfolded DEF End, Leave, Become, Locals, Executing
<1>4. locks'[i] = None /\ \A j \in Instructions \ {i} : locks'[j] = locks[j]
  BY <1>1, <1>2, Unfolded DEF End
<1>5. \A k \in Loops \ {l} : loop[k].pc \in Executing => loop[k].i \in Instructions /\ loop[k].i # i
  BY <1>1, Unfolded DEF LockInv, Fitting
<1> QED BY <1>1, <1>3, <1>4, <1>5 DEF LockInv

LEMMA LockInvStep == TypeInv /\ LockInv /\ [Next]_vars => LockInv'
<1> SUFFICES ASSUME TypeInv, LockInv, [Next]_vars PROVE LockInv'
  OBVIOUS
<1>1. "tick" \in Loops /\ "exa" \in Loops
  BY DEF Loops
<1>2. Tick \/ Fetched \/ ExaTick \/ Sweeping => LockInv'
  BY <1>1, LoopsQuietly, QuietStep
<1>3. ASSUME NEW l \in Loops, Looping(l) PROVE LockInv'
  BY <1>3, LoopsQuietly, ExecutionsGoOn, QuietStep, ExecuteStep, EndStep DEF Looping, Executor, Ends
<1>4. CASE Crash
  BY <1>4 DEF Crash, LockInv, Idle, Executing
<1>5. CASE UNCHANGED <<loop, locks>>
  BY <1>5 DEF LockInv
<1>6. Outside => Crash \/ UNCHANGED <<loop, locks>>
  BY DEF Outside, Boot, Restock, Create, Cancel, ReleaseCancelled, Cancelled, Resolve,
         DeadlinePasses, ServeOrphan, memory
<1>7. UNCHANGED vars => UNCHANGED <<loop, locks>>
  BY DEF vars, memory
<1> QED BY <1>2, <1>3, <1>4, <1>5, <1>6, <1>7 DEF Next

-----------------------------------------------------------------------------
(* The theorems *)

IInv == TypeInv /\ LockInv

LEMMA IInvInvariant == Spec => []IInv
<1>1. Init => IInv
  BY InitTypeInv, InitLockInv DEF IInv
<1>2. IInv /\ [Next]_vars => IInv'
  BY TypeInvStep, LockInvStep DEF IInv
<1> QED BY <1>1, <1>2, PTL DEF Spec

\* The state file, the memory of the process and the money service keep their types.
THEOREM TypeCorrect == Spec => []TypeOK
<1>1. IInv => TypeOK
  BY DEF IInv, TypeInv
<1> QED BY <1>1, IInvInvariant, PTL

\* One loop at a time executes an instruction, and the lock is its: for any number
\* of instructions, whatever is cancelled, swept, settled or restarted.
THEOREM OneExecutionEver == Spec => []OneExecution
<1>1. IInv => OneExecution
  <2> SUFFICES ASSUME IInv, NEW i \in Instructions
               PROVE  /\ Cardinality({l \in Loops : loop[l].i = i /\ loop[l].pc \in Executing}) <= 1
                      /\ locks[i] # None => \E l \in Loops : loop[l].i = i /\ loop[l].o = locks[i]
    BY DEF OneExecution
  <2> DEFINE L == {l \in Loops : loop[l].i = i /\ loop[l].pc \in Executing}
  <2>1. L = {} \/ \E l : L = {l}
    BY DEF IInv, LockInv
  <2>2. Cardinality(L) <= 1
    <3> HIDE DEF L
    <3>1. CASE L = {}
      BY <3>1, FS_EmptySet
    <3>2. ASSUME NEW l, L = {l} PROVE Cardinality(L) <= 1
      <4>1. Cardinality({l}) = 1
        BY FS_Singleton
      <4> QED BY <3>2, <4>1
    <3> QED BY <2>1, <3>1, <3>2
  <2>3. locks[i] # None => \E l \in Loops : loop[l].i = i /\ loop[l].o = locks[i]
    BY DEF IInv, LockInv
  <2> QED BY <2>2, <2>3
<1> QED BY <1>1, IInvInvariant, PTL

-----------------------------------------------------------------------------
(* Steps, by what they do to executions *)

Busily == Executing \cup {"release"}

\* A step between executions, or of the market and the clock: whoever executes or
\* gives a hold back is where it was.
Calm ==
    /\ \A k \in Loops :
          loop'[k] = loop[k] \/ (up /\ loop[k].pc \notin Busily /\ loop'[k].pc \notin Busily)
    /\ UNCHANGED <<status, recorded, cancel, up, hold, pending, bought, orders, orphans, faults,
                   loose, crossed, abandoned>>

\* Every other loop is where it was.
Only(l) == \A k \in Loops \ {l} : loop'[k] = loop[k]

\* Without a process no loop is anywhere.
DownInv == ~up => \A l \in Loops : loop[l] = Idle

LEMMA UpAndIdle ==
    ASSUME DownInv, NEW l \in Loops, loop[l].pc # "idle"
    PROVE  up
  BY DEF DownInv, Idle

Between ==
    \/ Tick \/ Fetched \/ ExaTick \/ TickFails \/ Swept
    \/ \E l \in Loops :
          \/ \E i \in Instructions, o \in Offers : Consider(l, i, o)
          \/ LoopEnds(l) \/ NormaliseFails(l) \/ Pass(l)

LEMMA BetweenIsCalm == ASSUME TypeInv, DownInv, Between PROVE Calm
<1>1. "tick" \in Loops /\ "exa" \in Loops
  BY DEF Loops
<1>2. UNCHANGED <<status, recorded, cancel, up, hold, pending, bought, orders, orphans, faults,
                  loose, crossed, abandoned>>
  BY DEF Between, Tick, Fetched, ExaTick, TickFails, Swept, Consider, LoopEnds, NormaliseFails,
         Pass, Resting, file, service, history
<1>3. ASSUME NEW l \in Loops, NEW x, Become(l, x), up, loop[l].pc \notin Busily, x.pc \notin Busily
      PROVE  Calm
  <2>1. loop'[l] = x /\ \A k \in Loops \ {l} : loop'[k] = loop[k]
    BY <1>3, Unfolded DEF Become
  <2> QED BY <1>2, <1>3, <2>1 DEF Calm
<1>4. Idle.pc \notin Busily
  BY DEF Idle, Busily, Executing
<1> USE DEF At
<1>5. CASE Tick
  <2>1. [Idle EXCEPT !.pc = "fetch"].pc = "fetch"
    BY DEF Idle
  <2> QED BY <1>1, <1>3, <1>5, <2>1 DEF Tick, Busily, Executing
<1>6. CASE Fetched
  <2>1. [Idle EXCEPT !.pc = "sweep", !.todo = Instructions \X listed, !.due = late].pc = "sweep"
    BY DEF Idle
  <2> QED BY <1>1, <1>3, <1>6, <2>1, UpAndIdle DEF Fetched, Busily, Executing
<1>7. CASE ExaTick
  <2>1. \A found : [Idle EXCEPT !.pc = "loop", !.todo = found].pc = "loop"
    BY DEF Idle
  <2> QED BY <1>1, <1>3, <1>7, <2>1 DEF ExaTick, Busily, Executing
<1>8. CASE TickFails
  BY <1>1, <1>3, <1>4, <1>8, UpAndIdle DEF TickFails, Busily, Executing
<1>9. CASE Swept
  <2>1. \A T : [loop["tick"] EXCEPT !.pc = "loop", !.todo = T].pc = "loop"
    BY <1>1, Unfolded DEF Locals
  <2>2. \E T : Become("tick", [loop["tick"] EXCEPT !.pc = "loop", !.todo = T])
    BY <1>1, <1>9, Unfolded DEF Swept, Locals
  <2> QED BY <1>1, <1>3, <1>9, <2>1, <2>2, UpAndIdle DEF Swept, Busily, Executing
<1>10. ASSUME NEW l \in Loops, NEW i \in Instructions, NEW o \in Offers, Consider(l, i, o)
       PROVE  Calm
  <2>1. loop[l].pc = "loop" /\ up
    BY <1>10, UpAndIdle DEF Consider
  <2>2. PICK x : Become(l, x) /\ x.pc \in {"loop", "normalise"}
    <3> DEFINE S == loop[l].todo \ ({i} \X Offers)
               T == loop[l].todo \ {<<i, o>>}
    <3>1. \/ Become(l, [loop[l] EXCEPT !.todo = S])
          \/ Become(l, [loop[l] EXCEPT !.todo = T])
          \/ Become(l, [loop[l] EXCEPT !.todo = T, !.pc = "normalise", !.i = i, !.o = o])
      BY <1>10 DEF Consider
    <3> HIDE DEF S, T
    <3>2. /\ [loop[l] EXCEPT !.todo = S].pc = "loop"
          /\ [loop[l] EXCEPT !.todo = T].pc = "loop"
          /\ [loop[l] EXCEPT !.todo = T, !.pc = "normalise", !.i = i, !.o = o].pc = "normalise"
      BY <2>1, Unfolded DEF Locals
    <3> QED BY <3>1, <3>2
  <2> QED BY <1>3, <2>1, <2>2 DEF Busily, Executing
<1>11. ASSUME NEW l \in Loops, LoopEnds(l) \/ NormaliseFails(l) \/ Pass(l)
       PROVE  Calm
  <2>1. loop[l].pc \in {"loop", "normalise"} /\ up
    BY <1>11, UpAndIdle DEF LoopEnds, NormaliseFails, Pass
  <2>2. Become(l, Idle) \/ Leave(l)
    BY <1>11 DEF LoopEnds, NormaliseFails, Pass
  <2>3. [loop[l] EXCEPT !.pc = "loop", !.i = None, !.o = None, !.answer = "none"].pc = "loop"
    BY Unfolded DEF Locals
  <2> QED BY <1>3, <1>4, <2>1, <2>2, <2>3 DEF Leave, Busily, Executing
<1> QED BY <1>5, <1>6, <1>7, <1>8, <1>9, <1>10, <1>11 DEF Between

\* Every step is calm, a sweep, a step of an execution, or a request.
LEMMA Steps ==
    ASSUME TypeInv, DownInv, [Next]_vars
    PROVE  \/ Calm
           \/ ReleaseExpired \/ \E i \in Instructions : Sweep(i)
           \/ \E l \in Loops :
                 \/ Execute(l) \/ Ends(l) \/ Serve(l)
                 \/ Revalidated(l) \/ SettleUnknown(l) \/ PollPurchased(l) \/ Enter(l)
           \/ Crash \/ Boot
           \/ \E i \in Instructions :
                 \/ Create(i) \/ Cancel(i) \/ ReleaseCancelled(i) \/ Cancelled(i) \/ Resolve(i)
                 \/ \E o \in Offers : ServeOrphan(i, o)
<1>1. UNCHANGED vars => Calm
  BY DEF vars, file, memory, service, history, Calm
<1>2. ASSUME \E o \in Stores \cup Retailers : Restock(o) PROVE Calm
  BY <1>2 DEF Restock, file, memory, service, history, Calm
<1>3. ASSUME \E i \in Instructions : DeadlinePasses(i) PROVE Calm
  BY <1>3 DEF DeadlinePasses, file, memory, service, history, Calm
<1> QED BY <1>1, <1>2, <1>3, BetweenIsCalm
        DEF Next, Sweeping, Looping, Executor, Outside, Ends, Between

-----------------------------------------------------------------------------

(* What the steps of an execution and of a sweep do, field by field *)

LEMMA ExecuteFacts ==
    ASSUME TypeInv, LockInv, NEW l \in Loops, Execute(l)
    PROVE  /\ loop[l].i \in Instructions /\ loop[l].pc = "normalise"
           /\ status[loop[l].i] \in {"ACTIVE", "EXECUTING"}
           /\ status'[loop[l].i] = "EXECUTING"
           /\ \A j \in Instructions \ {loop[l].i} : status'[j] = status[j]
           /\ \A k \in Loops : loop[k].pc \in Executing => loop[k].i # loop[l].i
           /\ loop'[l].pc = "revalidate" /\ loop'[l].i = loop[l].i /\ Only(l)
           /\ cancel[loop[l].i] # "no" => loop[l].i \in crossed'
           /\ crossed \subseteq crossed' /\ crossed' \subseteq crossed \cup {loop[l].i}
           /\ UNCHANGED <<recorded, cancel, up, service, faults, loose, abandoned>>
<1>1. loop[l].i \in Instructions /\ loop[l].pc = "normalise" /\ locks[loop[l].i] = None
  BY Unfolded DEF Execute, At, Fitting, Locked
<1>2. \A k \in Loops : loop[k].pc \in Executing => loop[k].i # loop[l].i
  <2> SUFFICES ASSUME NEW k \in Loops, loop[k].pc \in Executing, loop[k].i = loop[l].i
               PROVE  FALSE
    OBVIOUS
  <2>1. loop[k].o \in Offers /\ locks[loop[k].i] = loop[k].o
    BY Unfolded DEF Fitting, LockInv
  <2> QED BY <1>1, <2>1, AutoBuyAssumption DEF Offers
<1>3. loop'[l].pc = "revalidate" /\ loop'[l].i = loop[l].i /\ Only(l)
  BY Unfolded DEF Execute, Go, Become, Locals, Only
<1>4. /\ status[loop[l].i] \in {"ACTIVE", "EXECUTING"}
      /\ status'[loop[l].i] = "EXECUTING"
      /\ \A j \in Instructions \ {loop[l].i} : status'[j] = status[j]
  BY <1>1, Unfolded DEF Execute, Live, SetStatus
<1>5. /\ cancel[loop[l].i] # "no" => loop[l].i \in crossed'
      /\ crossed \subseteq crossed' /\ crossed' \subseteq crossed \cup {loop[l].i}
  BY DEF Execute
<1>6. UNCHANGED <<recorded, cancel, up, service, faults, loose, abandoned>>
  BY DEF Execute
<1> QED BY <1>1, <1>2, <1>3, <1>4, <1>5, <1>6

GoesOn(l) == Revalidated(l) \/ SettleUnknown(l) \/ PollPurchased(l) \/ Enter(l)

LEMMA GoesOnFacts ==
    ASSUME TypeInv, NEW l \in Loops, GoesOn(l)
    PROVE  /\ loop[l].i \in Instructions
           /\ loop[l].pc \in Executing /\ loop'[l].pc \in Executing
           /\ loop'[l].i = loop[l].i /\ Only(l)
           /\ UNCHANGED Resting
           /\ \/ loop[l].pc = "revalidate" /\ loop'[l].pc = "buy"
              \/ loop[l].pc = "answered" /\ loop[l].answer = "UNKNOWN" /\ loop'[l].pc = "poll"
              \/ /\ loop[l].pc = "poll" /\ loop'[l].pc = "answered"
                 /\ loop[l].i \in bought /\ loop'[l].answer = "PURCHASED"
              \/ /\ loop[l].pc = "buy" /\ loop'[l].pc = "answered"
                 /\ \/ loop[l].i \in bought /\ loop'[l].answer = "PURCHASED"
                    \/ loop[l].i \in pending /\ loop'[l].answer = "UNKNOWN"
                    \/ loop'[l].answer = "FAILED"
              \/ /\ loop[l].pc = "buy" /\ loop'[l].pc = "served"
                 /\ loop[l].i \notin pending \cup bought
                 /\ hold[loop[l].i] \in {"held", "captured"}
<1>1. UNCHANGED Resting
  BY DEF GoesOn, Revalidated, SettleUnknown, PollPurchased, Enter
<1>2. loop[l] \in Locals /\ (loop[l].pc \in Executing => loop[l].i \in Instructions)
  BY Unfolded DEF Fitting
<1>3. \A pc : Go(l, pc) => loop'[l].pc = pc /\ loop'[l].i = loop[l].i /\ Only(l)
  BY <1>2, Unfolded DEF Go, Become, Only, Locals
<1>4. \A a : Answer(l, a) =>
         loop'[l].pc = "answered" /\ loop'[l].answer = a /\ loop'[l].i = loop[l].i /\ Only(l)
  BY <1>2, Unfolded DEF Answer, Become, Only, Locals
<1> USE DEF At, Executing
<1>5. CASE Revalidated(l)
  BY <1>1, <1>2, <1>3, <1>5 DEF Revalidated
<1>6. CASE SettleUnknown(l)
  BY <1>1, <1>2, <1>3, <1>6 DEF SettleUnknown
<1>7. CASE PollPurchased(l)
  BY <1>1, <1>2, <1>4, <1>7 DEF PollPurchased, Answer
<1>8. CASE Enter(l)
  BY <1>1, <1>2, <1>3, <1>4, <1>8 DEF Enter
<1> QED BY <1>5, <1>6, <1>7, <1>8 DEF GoesOn

LEMMA ServeFacts ==
    ASSUME TypeInv, NEW l \in Loops, Serve(l)
    PROVE  /\ loop[l].i \in Instructions
           /\ loop[l].pc = "served" /\ loop'[l].pc = "answered" /\ loop'[l].i = loop[l].i
           /\ Only(l)
           /\ Buys(loop[l].i, loop[l].o, loop'[l].answer)
           /\ UNCHANGED <<file, locks, cancel, up, orphans, crossed, abandoned>>
<1>1. loop[l] \in Locals /\ loop[l].pc = "served" /\ loop[l].i \in Instructions
  BY Unfolded DEF Serve, At, Fitting, Executing
<1>2. PICK a \in Answers : Buys(loop[l].i, loop[l].o, a) /\ Answer(l, a)
  BY DEF Serve
<1>3. loop'[l].pc = "answered" /\ loop'[l].answer = a /\ loop'[l].i = loop[l].i /\ Only(l)
  BY <1>1, <1>2, Unfolded DEF Answer, Become, Only, Locals
<1> QED BY <1>1, <1>2, <1>3 DEF Serve

LEMMA EndFacts ==
    ASSUME TypeInv, NEW l \in Loops, Ends(l)
    PROVE  /\ loop[l].i \in Instructions /\ loop[l].pc \in Executing
           /\ loop'[l].pc = "loop" /\ Only(l)
           /\ \A j \in Instructions \ {loop[l].i} : status'[j] = status[j]
           /\ UNCHANGED <<cancel, up, hold, pending, bought, orders, crossed>>
           /\ \/ PurchaseThrows(l)
              \/ /\ UNCHANGED <<orphans, faults, loose>>
                 /\ \/ /\ loop[l].pc = "revalidate" /\ status'[loop[l].i] = "ACTIVE"
                       /\ UNCHANGED <<recorded, abandoned>>
                    \/ /\ loop[l].pc = "answered" /\ loop[l].answer = "PURCHASED"
                       /\ status'[loop[l].i] = "PURCHASED"
                       /\ recorded' = [recorded EXCEPT ![loop[l].i] = TRUE]
                       /\ UNCHANGED abandoned
                    \/ /\ loop[l].pc = "answered" /\ loop[l].answer = "DECLINED"
                       /\ status'[loop[l].i] = "ACTIVE" /\ UNCHANGED <<recorded, abandoned>>
                    \/ /\ loop[l].pc = "answered" /\ loop[l].answer \in {"FAILED", "NEEDS_ATTENTION"}
                       /\ status'[loop[l].i] = "NEEDS_ATTENTION" /\ UNCHANGED <<recorded, abandoned>>
                    \/ /\ loop[l].pc = "poll" /\ loop[l].i \notin bought \cup pending
                       /\ status'[loop[l].i] = "NEEDS_ATTENTION" /\ UNCHANGED <<recorded, abandoned>>
                    \/ /\ loop[l].pc = "poll" /\ abandoned' = abandoned \cup {loop[l].i}
                       /\ status'[loop[l].i] = "NEEDS_ATTENTION" /\ UNCHANGED recorded
<1>1. loop[l] \in Locals /\ loop[l].pc \in Executing /\ loop[l].i \in Instructions
  BY EndsEnd, Unfolded DEF Fitting
<1>2. \A s : End(l, s) =>
         /\ loop'[l].pc = "loop" /\ Only(l)
         /\ status'[loop[l].i] = s
         /\ \A j \in Instructions \ {loop[l].i} : status'[j] = status[j]
  BY <1>1, Unfolded DEF End, Leave, Become, SetStatus, Only, Locals
<1>3. UNCHANGED <<cancel, up, hold, pending, bought, orders, crossed>>
  BY DEF Ends, RevalidationFails, PurchaseThrows, SettlePurchased, SettleRefused, PollMissing,
         PollGivesUp, service, history
<1> USE DEF At, service, history
<1>4. CASE RevalidationFails(l)
  BY <1>1, <1>2, <1>3, <1>4 DEF RevalidationFails
<1>5. CASE SettlePurchased(l)
  BY <1>1, <1>2, <1>3, <1>5 DEF SettlePurchased
<1>6. CASE SettleRefused(l)
  <2>1. CASE loop[l].answer = "DECLINED" /\ End(l, "ACTIVE")
    BY <1>1, <1>2, <1>3, <1>6, <2>1 DEF SettleRefused
  <2>2. CASE loop[l].answer \in {"FAILED", "NEEDS_ATTENTION"} /\ End(l, "NEEDS_ATTENTION")
    BY <1>1, <1>2, <1>3, <1>6, <2>2 DEF SettleRefused
  <2> QED BY <1>6, <2>1, <2>2 DEF SettleRefused
<1>7. CASE PollMissing(l)
  BY <1>1, <1>2, <1>3, <1>7 DEF PollMissing
<1>8. CASE PollGivesUp(l)
  BY <1>1, <1>2, <1>3, <1>8 DEF PollGivesUp
<1>9. CASE PurchaseThrows(l)
  BY <1>1, <1>2, <1>3, <1>9 DEF PurchaseThrows
<1> QED BY <1>4, <1>5, <1>6, <1>7, <1>8, <1>9 DEF Ends

LEMMA SweepFacts ==
    ASSUME TypeInv, NEW i \in Instructions, Sweep(i)
    PROVE  /\ loop["tick"].pc = "sweep" /\ Only("tick")
           /\ UNCHANGED <<recorded, cancel, up, service, faults, history>>
           /\ \A j \in Instructions \ {i} : status'[j] = status[j]
           /\ \/ /\ status[i] = "ACTIVE" /\ status'[i] = "EXPIRED"
                 /\ loop'["tick"].pc = "release" /\ loop'["tick"].i = i
              \/ status[i] # "ACTIVE" /\ status'[i] = status[i] /\ loop'["tick"].pc = "sweep"
<1>1. "tick" \in Loops /\ loop["tick"] \in Locals
  BY Unfolded DEF Loops
<1> DEFINE D == loop["tick"].due \ {i}
<1>2. \/ /\ status[i] = "ACTIVE" /\ SetStatus(i, "EXPIRED")
         /\ Become("tick", [loop["tick"] EXCEPT !.pc = "release", !.due = D, !.i = i])
      \/ status[i] # "ACTIVE" /\ UNCHANGED status /\ Become("tick", [loop["tick"] EXCEPT !.due = D])
  BY DEF Sweep
<1> HIDE DEF D
<1>3. loop["tick"].pc = "sweep" /\ UNCHANGED <<recorded, cancel, up, service, faults, history>>
  BY DEF Sweep, At
<1>4. Only("tick")
  BY <1>2, Unfolded DEF Become, Only
<1>5. \/ /\ status[i] = "ACTIVE" /\ status'[i] = "EXPIRED"
         /\ loop'["tick"].pc = "release" /\ loop'["tick"].i = i
         /\ \A j \in Instructions \ {i} : status'[j] = status[j]
      \/ status[i] # "ACTIVE" /\ UNCHANGED status /\ loop'["tick"].pc = "sweep"
  <2>1. /\ [loop["tick"] EXCEPT !.pc = "release", !.due = D, !.i = i].pc = "release"
        /\ [loop["tick"] EXCEPT !.pc = "release", !.due = D, !.i = i].i = i
        /\ [loop["tick"] EXCEPT !.due = D].pc = "sweep"
    BY <1>1, <1>3 DEF Locals
  <2>2. \A x : Become("tick", x) => loop'["tick"] = x
    BY <1>1, Unfolded DEF Become
  <2>3. SetStatus(i, "EXPIRED") =>
           status'[i] = "EXPIRED" /\ \A j \in Instructions \ {i} : status'[j] = status[j]
    BY Unfolded DEF SetStatus
  <2> QED BY <1>2, <2>1, <2>2, <2>3
<1> QED BY <1>3, <1>4, <1>5

\* A release gives a hold back, and touches no other.
LEMMA ReleaseFacts ==
    ASSUME TypeInv, NEW i, Release(i) \/ UNCHANGED hold
    PROVE  /\ \A j \in Instructions :
                 \/ hold'[j] = hold[j]
                 \/ j = i /\ hold[j] \in {"held", "attention"} /\ hold'[j] = "released"
           /\ Release(i) /\ i \in Instructions => hold'[i] \notin {"held", "attention"}
  BY DEF Release, TypeInv, TypeOK

LEMMA ReleaseExpiredFacts ==
    ASSUME TypeInv, ReleaseExpired
    PROVE  /\ loop["tick"].pc = "release" /\ loop'["tick"].pc = "sweep" /\ Only("tick")
           /\ Release(loop["tick"].i) \/ (Fault /\ UNCHANGED hold)
           /\ Fault \/ UNCHANGED faults
           /\ UNCHANGED <<file, cancel, up, pending, bought, orders, orphans, history>>
<1>1. "tick" \in Loops /\ loop["tick"] \in Locals
  BY Unfolded DEF Loops
<1>2. loop'["tick"].pc = "sweep" /\ Only("tick")
  BY <1>1, Unfolded DEF ReleaseExpired, Become, Only, Locals
<1> QED BY <1>2 DEF ReleaseExpired, At

\* What is sold or ordered.
LEMMA BuysFacts ==
    ASSUME TypeInv, NEW i \in Instructions, NEW o, NEW a, Buys(i, o, a), ~loose'
    PROVE  /\ ~loose /\ UNCHANGED faults
           /\ \A j \in Instructions \ {i} : hold'[j] = hold[j] /\ orders'[j] = orders[j]
           /\ \/ UNCHANGED <<hold, pending, bought, orders>> /\ a \notin {"PURCHASED", "UNKNOWN"}
              \/ /\ hold[i] = "held" /\ hold'[i] = "spent" /\ a = "PURCHASED"
                 /\ orders'[i] = orders[i] + 1
                 /\ bought' = bought \cup {i} /\ UNCHANGED pending
              \/ /\ hold[i] # "held" /\ UNCHANGED <<hold, pending, bought>> /\ a = "FAILED"
                 /\ orders'[i] = orders[i] + 1
              \/ /\ hold[i] = "held" /\ hold'[i] = "released" /\ a = "FAILED"
                 /\ UNCHANGED <<pending, bought, orders>>
              \/ /\ hold[i] = "held" /\ hold'[i] = "captured" /\ a = "UNKNOWN"
                 /\ pending' = pending \cup {i} /\ UNCHANGED <<bought, orders>>
<1>1. hold \in [Instructions -> {"none", "attention", "held", "captured", "spent", "released"}]
  BY DEF TypeInv, TypeOK
<1>2. orders \in [Instructions -> Nat] /\ loose \in BOOLEAN
  BY DEF TypeInv, TypeOK
<1>3. CASE o \in Stores
  BY <1>1, <1>2, <1>3 DEF Buys, Sells, Orders, Holds
<1>4. CASE o \notin Stores
  BY <1>1, <1>2, <1>4 DEF Buys, Ships, Orders, Holds
<1> QED BY <1>3, <1>4

-----------------------------------------------------------------------------
(* Crossings: an execution has the status to itself *)

\* A cancellation and an execution of one instruction under way at a time are
\* on record; an execution that was not crossed has the status to itself.
CrossInv ==
    /\ \A l \in Loops :
          loop[l].pc \in Executing =>
              /\ loop[l].i \in crossed \/ status[loop[l].i] = "EXECUTING"
              /\ cancel[loop[l].i] # "no" => loop[l].i \in crossed
    /\ \A i \in Instructions \ crossed : cancel[i] # "no" => status[i] \notin {"PURCHASED", "none"}

LEMMA InitCrossInv == Init => DownInv /\ CrossInv
  BY DEF Init, DownInv, CrossInv, Idle, Executing

\* What an execution needs, where it went on or is new.
LEMMA CrossKept ==
    ASSUME TypeInv, CrossInv, crossed \subseteq crossed',
           \A k \in Loops : loop'[k].pc \in Executing =>
              loop[k].pc \in Executing /\ loop'[k].i = loop[k].i,
           \A j \in Instructions \ crossed' :
              /\ Executed(j) => status'[j] = status[j] /\ cancel'[j] = "no"
              /\ cancel'[j] # "no" => status'[j] \notin {"PURCHASED", "none"}
    PROVE  CrossInv'
<1>1. ASSUME NEW k \in Loops, loop'[k].pc \in Executing
      PROVE  /\ loop'[k].i \in crossed' \/ status'[loop'[k].i] = "EXECUTING"
             /\ cancel'[loop'[k].i] # "no" => loop'[k].i \in crossed'
  <2>1. loop[k].pc \in Executing /\ loop'[k].i = loop[k].i /\ loop[k].i \in Instructions
    BY <1>1, Unfolded DEF Fitting
  <2>2. Executed(loop[k].i)
    BY <2>1 DEF Executed
  <2> QED BY <2>1, <2>2 DEF CrossInv
<1> QED BY <1>1 DEF CrossInv

LEMMA UncrossedExecution ==
    ASSUME TypeInv, CrossInv, NEW j \in Instructions, j \notin crossed, Executed(j)
    PROVE  status[j] = "EXECUTING" /\ cancel[j] = "no"
  BY DEF CrossInv, Executed

LEMMA CrossInvStep ==
    ASSUME TypeInv, LockInv, DownInv, CrossInv, [Next]_vars
    PROVE  DownInv' /\ CrossInv'
<1>1. ASSUME Calm PROVE DownInv' /\ CrossInv'
  <2>1. DownInv'
    BY <1>1 DEF Calm, DownInv
  <2>2. \A k \in Loops : loop'[k].pc \in Executing => loop[k].pc \in Executing /\ loop'[k].i = loop[k].i
    BY <1>1 DEF Calm, Busily
  <2>3. UNCHANGED <<status, cancel, crossed>>
    BY <1>1 DEF Calm
  <2> QED BY <2>1, <2>2, <2>3, CrossKept, UncrossedExecution DEF CrossInv
<1>2. ASSUME NEW i \in Instructions, Sweep(i) PROVE DownInv' /\ CrossInv'
  <2> USE <1>2, SweepFacts
  <2>1. up
    BY UpAndIdle DEF Loops
  <2>2. \A k \in Loops : loop'[k].pc \in Executing => loop[k].pc \in Executing /\ loop'[k].i = loop[k].i
    BY DEF Only, Executing
  <2>3. \A j \in Instructions \ crossed : Executed(j) => status'[j] = status[j] /\ cancel'[j] = "no"
    BY UncrossedExecution
  <2>4. \A j \in Instructions \ crossed : cancel'[j] # "no" => status'[j] \notin {"PURCHASED", "none"}
    BY DEF CrossInv
  <2>5. CrossInv'
    BY <2>2, <2>3, <2>4, CrossKept DEF history
  <2> QED BY <2>1, <2>5 DEF DownInv
<1>3. ASSUME ReleaseExpired PROVE DownInv' /\ CrossInv'
  <2> USE <1>3, ReleaseExpiredFacts
  <2>1. up
    BY UpAndIdle DEF Loops
  <2>2. \A k \in Loops : loop'[k].pc \in Executing => loop[k].pc \in Executing /\ loop'[k].i = loop[k].i
    BY DEF Only, Executing
  <2>3. UNCHANGED <<status, cancel, crossed>>
    BY DEF file, history
  <2>4. CrossInv'
    BY <2>2, <2>3, CrossKept, UncrossedExecution DEF CrossInv
  <2> QED BY <2>1, <2>4 DEF DownInv
<1>4. ASSUME NEW l \in Loops, Execute(l) PROVE DownInv' /\ CrossInv'
  <2> USE <1>4, ExecuteFacts
  <2>1. up
    BY UpAndIdle
  <2>2. ASSUME NEW k \in Loops, loop'[k].pc \in Executing
        PROVE  /\ loop'[k].i \in crossed' \/ status'[loop'[k].i] = "EXECUTING"
               /\ cancel'[loop'[k].i] # "no" => loop'[k].i \in crossed'
    <3>1. CASE k = l
      BY <3>1
    <3>2. CASE k # l
      <4>1. loop'[k] = loop[k] /\ loop[k].i \in Instructions \ {loop[l].i}
        BY <2>2, <3>2, Unfolded DEF Only, Fitting
      <4> QED BY <2>2, <4>1 DEF CrossInv
    <3> QED BY <3>1, <3>2
  <2>3. \A j \in Instructions \ crossed' : cancel'[j] # "no" => status'[j] \notin {"PURCHASED", "none"}
    BY DEF CrossInv
  <2>4. CrossInv'
    BY <2>2, <2>3 DEF CrossInv
  <2> QED BY <2>1, <2>4 DEF DownInv
<1>5. ASSUME NEW l \in Loops, GoesOn(l) \/ Serve(l) PROVE DownInv' /\ CrossInv'
  <2>1. /\ loop[l].pc \in Executing /\ loop'[l].i = loop[l].i /\ Only(l)
        /\ UNCHANGED <<status, cancel, crossed, up>>
    <3>1. CASE GoesOn(l)
      BY <3>1, GoesOnFacts DEF Resting, file, history
    <3>2. CASE Serve(l)
      BY <3>2, ServeFacts DEF file, Executing
    <3> QED BY <1>5, <3>1, <3>2
  <2>2. up
    BY <2>1, UpAndIdle DEF Executing
  <2>3. \A k \in Loops : loop'[k].pc \in Executing => loop[k].pc \in Executing /\ loop'[k].i = loop[k].i
    BY <2>1 DEF Only
  <2>4. CrossInv'
    BY <2>1, <2>3, CrossKept, UncrossedExecution DEF CrossInv
  <2> QED BY <2>1, <2>2, <2>4 DEF DownInv
<1>6. ASSUME NEW l \in Loops, Ends(l) PROVE DownInv' /\ CrossInv'
  <2> USE <1>6, EndFacts
  <2>1. up
    BY UpAndIdle DEF Executing
  <2>2. ASSUME NEW k \in Loops, loop'[k].pc \in Executing
        PROVE  /\ loop'[k].i \in crossed' \/ status'[loop'[k].i] = "EXECUTING"
               /\ cancel'[loop'[k].i] # "no" => loop'[k].i \in crossed'
    <3>1. k # l
      BY <2>2 DEF Executing
    <3>2. loop'[k] = loop[k] /\ loop[k].i \in Instructions
      BY <2>2, <3>1, Unfolded DEF Only, Fitting
    <3>3. loop[k].i # loop[l].i
      BY <2>2, <3>1, <3>2 DEF LockInv
    <3> QED BY <2>2, <3>2, <3>3 DEF CrossInv
  <2>3. \A j \in Instructions \ crossed : cancel[j] # "no" => j # loop[l].i
    BY DEF CrossInv
  <2>4. \A j \in Instructions \ crossed' : cancel'[j] # "no" => status'[j] \notin {"PURCHASED", "none"}
    BY <2>3 DEF CrossInv
  <2>5. CrossInv'
    BY <2>2, <2>4 DEF CrossInv
  <2> QED BY <2>1, <2>5 DEF DownInv
<1>7. ASSUME Crash PROVE DownInv' /\ CrossInv'
  BY <1>7 DEF Crash, DownInv, CrossInv, Idle, Executing
<1>8. ASSUME Boot PROVE DownInv' /\ CrossInv'
  <2>1. \A l \in Loops : loop'[l].pc \notin Executing
    BY <1>8 DEF Boot, DownInv, Idle, Executing
  <2>2. \A j \in Instructions : status'[j] = status[j] \/ (status[j] = "EXECUTING" /\ status'[j] = "ACTIVE")
    BY <1>8 DEF Boot
  <2>3. up' /\ UNCHANGED <<loop, cancel, crossed>>
    BY <1>8 DEF Boot, history
  <2> QED BY <2>1, <2>2, <2>3 DEF DownInv, CrossInv
<1>9. ASSUME NEW i \in Instructions, Create(i) \/ Cancelled(i) PROVE DownInv' /\ CrossInv'
  <2>1. UNCHANGED <<loop, up, crossed>>
    BY <1>9 DEF Create, Cancelled, memory, history
  <2>2. \A j \in Instructions \ {i} : status'[j] = status[j] /\ cancel'[j] = cancel[j]
    BY <1>9, Unfolded DEF Create, Cancelled, memory, SetStatus, TypeInv, TypeOK
  <2>3. /\ cancel'[i] = "no" \/ cancel'[i] = cancel[i]
        /\ status'[i] \notin {"PURCHASED", "none"}
        /\ status[i] = "none" \/ cancel[i] # "no"
    BY <1>9, Unfolded DEF Create, Cancelled, memory, SetStatus, TypeInv, TypeOK
  <2>4. i \notin crossed => ~Executed(i)
    BY <2>3, UncrossedExecution
  <2>5. CrossInv'
    BY <2>1, <2>2, <2>3, <2>4, CrossKept, UncrossedExecution DEF CrossInv
  <2> QED BY <2>1, <2>5 DEF DownInv
<1>10. ASSUME NEW i \in Instructions, Cancel(i) \/ ReleaseCancelled(i) PROVE DownInv' /\ CrossInv'
  <2>1. UNCHANGED <<loop, up, status>> /\ crossed \subseteq crossed'
    BY <1>10 DEF Cancel, ReleaseCancelled, file, history
  <2>2. \A j \in Instructions \ {i} : cancel'[j] = cancel[j]
    BY <1>10 DEF Cancel, ReleaseCancelled, TypeInv, TypeOK
  <2>3. i \notin crossed' => ~Executed(i)
    BY <1>10, UncrossedExecution DEF Cancel, ReleaseCancelled, history
  <2>4. i \notin crossed' => status[i] \notin {"PURCHASED", "none"}
    BY <1>10 DEF Cancel, ReleaseCancelled, history, CrossInv, Terminal
  <2>5. CrossInv'
    BY <2>1, <2>2, <2>3, <2>4, CrossKept, UncrossedExecution DEF CrossInv
  <2> QED BY <2>1, <2>5 DEF DownInv
<1>11. ASSUME NEW i \in Instructions, Resolve(i) \/ \E o \in Offers : ServeOrphan(i, o)
       PROVE  DownInv' /\ CrossInv'
  <2>1. UNCHANGED <<loop, up, status, cancel, crossed>>
    BY <1>11 DEF Resolve, ServeOrphan, memory, file, history
  <2> QED BY <2>1 DEF DownInv, CrossInv
<1> QED BY <1>1, <1>2, <1>3, <1>4, <1>5, <1>6, <1>7, <1>8, <1>9, <1>10, <1>11, Steps DEF GoesOn

-----------------------------------------------------------------------------
(* Orders: nothing is bought from a hold twice *)

\* An order was paid from the hold, or sold after the hold was released: either
\* way there is none left to buy from.  A checkout being served is for a hold
\* that was there when it began.
Once(i) ==
    /\ orders[i] \in {0, 1}
    /\ orders[i] = 1 => hold[i] \in {"spent", "released"}
    /\ i \in pending <=> hold[i] = "captured"
    /\ i \in bought => hold[i] = "spent"
    /\ \A l \in Loops :
          At(l, "served") /\ loop[l].i = i => orders[i] = 0 /\ hold[i] \in {"held", "released"}

OnceInv == ~loose => orphans = {} /\ \A i \in Instructions : Once(i)

LEMMA InitOnceInv == Init => OnceInv
  BY DEF Init, OnceInv, Once, At, Idle

\* A step that neither sells nor serves, on one instruction: the hold may come, or
\* be given back.
LEMMA OnceKept ==
    ASSUME TypeInv, NEW i \in Instructions, Once(i), orders'[i] = orders[i],
           i \in pending' <=> i \in pending, i \in bought' <=> i \in bought,
           \/ hold'[i] = hold[i]
           \/ hold[i] \in {"held", "attention"} /\ hold'[i] = "released"
           \/ hold[i] = "none" /\ hold'[i] \in {"held", "attention"},
           \A l \in Loops :
              loop'[l].pc = "served" /\ loop'[l].i = i => loop[l].pc = "served" /\ loop[l].i = i
    PROVE  Once(i)'
  BY DEF Once, At

LEMMA OnceInvStep ==
    ASSUME TypeInv, LockInv, DownInv, OnceInv, [Next]_vars
    PROVE  OnceInv'
<1> SUFFICES ASSUME ~loose' PROVE orphans' = {} /\ \A i \in Instructions : Once(i)'
  BY DEF OnceInv
\* A step that leaves the service alone but for a hold that comes or goes.
<1> DEFINE Kept ==
       /\ UNCHANGED <<pending, bought, orders, orphans, loose>>
       /\ \A j \in Instructions :
             \/ hold'[j] = hold[j]
             \/ hold[j] \in {"held", "attention"} /\ hold'[j] = "released"
             \/ hold[j] = "none" /\ hold'[j] \in {"held", "attention"}
       /\ \A k \in Loops : loop'[k].pc = "served" => loop[k].pc = "served" /\ loop'[k].i = loop[k].i
<1>0. ASSUME Kept PROVE orphans' = {} /\ \A i \in Instructions : Once(i)'
  <2>1. ~loose
    BY <1>0
  <2> QED BY <1>0, <2>1, OnceKept DEF OnceInv
<1> HIDE DEF Kept
<1>1. ASSUME Calm PROVE Kept
  BY <1>1 DEF Kept, Calm, Busily, Executing
<1>2. ASSUME NEW i \in Instructions, Sweep(i) PROVE Kept
  BY <1>2, SweepFacts DEF Kept, Only, service, history
<1>3. ASSUME ReleaseExpired PROVE Kept
  <2>1. Release(loop["tick"].i) \/ UNCHANGED hold
    BY <1>3, ReleaseExpiredFacts
  <2> QED BY <1>3, <2>1, ReleaseExpiredFacts, ReleaseFacts DEF Kept, Only, history
<1>4. ASSUME NEW l \in Loops, Execute(l) PROVE Kept
  BY <1>4, ExecuteFacts DEF Kept, Only, service
<1>5. ASSUME NEW l \in Loops, GoesOn(l) PROVE orphans' = {} /\ \A i \in Instructions : Once(i)'
  <2> USE <1>5, GoesOnFacts
  <2>1. UNCHANGED <<hold, pending, bought, orders, orphans, loose>>
    BY DEF Resting, service, history
  <2>2. CASE loop'[l].pc # "served"
    <3>1. Kept
      BY <2>1, <2>2 DEF Kept, Only
    <3> QED BY <3>1, <1>0
  <2>3. CASE loop'[l].pc = "served"
    <3>1. loop[l].i \notin pending \cup bought /\ hold[loop[l].i] \in {"held", "captured"}
      BY <2>3
    <3>2. ASSUME NEW i \in Instructions PROVE Once(i)'
      <4>1. Once(i)
        BY <2>1 DEF OnceInv
      <4> QED BY <2>1, <3>1, <4>1 DEF Once, At, Only
    <3> QED BY <2>1, <3>2 DEF OnceInv
  <2> QED BY <2>2, <2>3
<1>6. ASSUME NEW l \in Loops, Serve(l) PROVE orphans' = {} /\ \A i \in Instructions : Once(i)'
  <2>0. PICK i \in Instructions : i = loop[l].i
    BY <1>6, ServeFacts
  <2>1. /\ i \in Instructions /\ loop[l].pc = "served" /\ loop'[l].pc = "answered"
        /\ loop'[l].i = i /\ Only(l) /\ UNCHANGED orphans
        /\ Buys(i, loop[l].o, loop'[l].answer)
    BY <1>6, <2>0, ServeFacts
  <2>2. /\ ~loose
        /\ \A j \in Instructions \ {i} : hold'[j] = hold[j] /\ orders'[j] = orders[j]
        /\ \/ UNCHANGED <<hold, pending, bought, orders>>
           \/ /\ hold[i] = "held" /\ hold'[i] = "spent" /\ orders'[i] = orders[i] + 1
              /\ bought' = bought \cup {i} /\ UNCHANGED pending
           \/ /\ hold[i] # "held" /\ UNCHANGED <<hold, pending, bought>>
              /\ orders'[i] = orders[i] + 1
           \/ /\ hold[i] = "held" /\ hold'[i] = "released"
              /\ UNCHANGED <<pending, bought, orders>>
           \/ /\ hold[i] = "held" /\ hold'[i] = "captured"
              /\ pending' = pending \cup {i} /\ UNCHANGED <<bought, orders>>
    BY <2>1, BuysFacts
  <2>3. Once(i) /\ orders[i] = 0 /\ hold[i] \in {"held", "released"}
    BY <2>0, <2>1, <2>2 DEF OnceInv, Once, At
  <2>4. \A k \in Loops : loop'[k].pc = "served" =>
           loop[k].pc = "served" /\ loop'[k].i = loop[k].i /\ loop[k].i # i
    <3> SUFFICES ASSUME NEW k \in Loops, loop'[k].pc = "served"
                 PROVE  loop[k].pc = "served" /\ loop'[k].i = loop[k].i /\ loop[k].i # i
      OBVIOUS
    <3>1. k # l
      BY <2>1
    <3>2. loop'[k] = loop[k]
      BY <2>1, <3>1 DEF Only
    <3> QED BY <2>0, <2>1, <3>1, <3>2 DEF LockInv, Executing
  <2>5. Once(i)'
    <3>1. i \notin pending /\ i \notin bought
      BY <2>3 DEF Once
    <3>2. orders'[i] = orders[i] \/ orders'[i] = orders[i] + 1
      BY <2>2
    <3>3. orders'[i] \in {0, 1}
      BY <2>3, <3>2
    <3>4. orders'[i] = 1 => hold'[i] \in {"spent", "released"}
      BY <2>2, <2>3
    <3>5. i \in pending' <=> hold'[i] = "captured"
      BY <2>2, <2>3, <3>1
    <3>6. i \in bought' => hold'[i] = "spent"
      BY <2>2, <2>3, <3>1
    <3> QED BY <2>4, <3>3, <3>4, <3>5, <3>6 DEF Once, At
  <2>6. ASSUME NEW j \in Instructions \ {i} PROVE Once(j)'
    <3>1. Once(j)
      BY <2>2 DEF OnceInv
    <3>2. (j \in pending' <=> j \in pending) /\ (j \in bought' <=> j \in bought)
      BY <2>2
    <3> QED BY <2>2, <2>4, <3>1, <3>2, OnceKept
  <2>7. orphans = {}
    BY <2>2 DEF OnceInv
  <2> QED BY <2>1, <2>5, <2>6, <2>7
<1>7. ASSUME NEW l \in Loops, Ends(l) PROVE Kept
  <2>1. /\ loop'[l].pc = "loop" /\ Only(l)
        /\ UNCHANGED <<hold, pending, bought, orders>>
        /\ PurchaseThrows(l) \/ UNCHANGED <<orphans, loose>>
    BY <1>7, EndFacts
  <2>2. ASSUME PurchaseThrows(l) PROVE UNCHANGED <<orphans, loose>>
    BY <2>2 DEF PurchaseThrows, TypeInv, TypeOK
  <2> QED BY <2>1, <2>2 DEF Kept, Only
<1>8. ASSUME Crash PROVE Kept
  <2>1. UNCHANGED <<orphans, loose, hold, pending, bought, orders>>
    BY <1>8 DEF Crash, TypeInv, TypeOK
  <2>2. \A k \in Loops : loop'[k].pc = "idle"
    BY <1>8 DEF Crash, Idle
  <2> QED BY <2>1, <2>2 DEF Kept
<1>9. ASSUME Boot PROVE Kept
  BY <1>9 DEF Boot, Kept, service, history
<1>10. ASSUME NEW i \in Instructions,
              Create(i) \/ Cancel(i) \/ ReleaseCancelled(i) \/ Cancelled(i)
       PROVE  Kept
  <2>1. UNCHANGED <<loop, pending, bought, orders, orphans, loose>>
    BY <1>10 DEF Create, Cancel, ReleaseCancelled, Cancelled, memory, service, history
  <2>2. CASE Create(i)
    BY <2>1, <2>2 DEF Create, Kept, TypeInv, TypeOK
  <2>3. CASE ReleaseCancelled(i)
    <3>1. Release(i) \/ UNCHANGED hold
      BY <2>3 DEF ReleaseCancelled
    <3> QED BY <2>1, <3>1, ReleaseFacts DEF Kept
  <2>4. CASE Cancel(i) \/ Cancelled(i)
    BY <2>1, <2>4 DEF Cancel, Cancelled, Kept, service
  <2> QED BY <1>10, <2>2, <2>3, <2>4
<1>11. ASSUME NEW i \in Instructions, Resolve(i)
       PROVE  orphans' = {} /\ \A j \in Instructions : Once(j)'
  <2>1. /\ UNCHANGED <<loop, orphans, loose>> /\ i \in pending
        /\ pending' = pending \ {i}
        /\ \A j \in Instructions \ {i} : hold'[j] = hold[j] /\ orders'[j] = orders[j]
        /\ \/ hold'[i] = "spent" /\ bought' = bought \cup {i} /\ orders'[i] = orders[i] + 1
           \/ hold'[i] = "released" /\ UNCHANGED <<bought, orders>>
    BY <1>11 DEF Resolve, Orders, Holds, memory, history, TypeInv, TypeOK
  <2>2. Once(i) /\ orphans = {}
    BY <2>1 DEF OnceInv
  <2>3. orders[i] = 0 /\ hold[i] = "captured"
    BY <2>1, <2>2 DEF Once
  <2>4. Once(i)'
    BY <2>1, <2>2, <2>3 DEF Once, At
  <2>5. ASSUME NEW j \in Instructions \ {i} PROVE Once(j)'
    <3>1. Once(j)
      BY <2>1 DEF OnceInv
    <3>2. (j \in pending' <=> j \in pending) /\ (j \in bought' <=> j \in bought)
      BY <2>1
    <3> QED BY <2>1, <3>1, <3>2, OnceKept
  <2> QED BY <2>1, <2>2, <2>4, <2>5
<1>12. ASSUME NEW i \in Instructions, NEW o \in Offers, ServeOrphan(i, o) PROVE FALSE
  <2>1. PICK a : Buys(i, o, a)
    BY <1>12 DEF ServeOrphan
  <2>2. ~loose
    BY <2>1, BuysFacts
  <2> QED BY <1>12, <2>2 DEF ServeOrphan, OnceInv
<1> QED BY <1>0, <1>1, <1>2, <1>3, <1>4, <1>5, <1>6, <1>7, <1>8, <1>9, <1>10, <1>11, <1>12, Steps
    DEF GoesOn

-----------------------------------------------------------------------------
(* Records: without a fault a loop follows an order until it is recorded *)

Follows(l) ==
    \/ loop[l].pc = "poll"
    \/ loop[l].pc = "answered" /\ loop[l].answer \in {"PURCHASED", "UNKNOWN"}

Followed(i) == recorded[i] \/ \E l \in Loops : loop[l].i = i /\ Follows(l)

RecordInv ==
    faults = 0 =>
        /\ up /\ ~loose
        /\ \A i \in (pending \cup bought) \ abandoned : Followed(i)
        /\ \A l \in Loops :
              loop[l].pc = "answered" /\ loop[l].answer = "PURCHASED" => loop[l].i \in bought

LEMMA InitRecordInv == Init => RecordInv
  BY DEF Init, RecordInv, Idle

LEMMA FaultsGrow == ASSUME TypeInv PROVE Fault => faults' # 0
  BY Unfolded DEF Fault

\* A step in which no order is placed, and whoever follows one goes on.
LEMMA RecordKept ==
    ASSUME RecordInv, faults = 0, up', ~loose', pending' \cup bought' \subseteq pending \cup bought,
           bought \subseteq bought', abandoned \subseteq abandoned',
           \A i \in pending \cup bought : recorded[i] => recorded'[i],
           \A l \in Loops : Follows(l) =>
              \/ loop'[l].i = loop[l].i /\ Follows(l)'
              \/ recorded'[loop[l].i]
              \/ loop[l].i \notin (pending \cup bought) \ abandoned',
           \A l \in Loops : loop'[l].pc = "answered" /\ loop'[l].answer = "PURCHASED" =>
              \/ loop[l].pc = "answered" /\ loop[l].answer = "PURCHASED" /\ loop'[l].i = loop[l].i
              \/ loop'[l].i \in bought'
    PROVE  RecordInv'
<1>1. ASSUME NEW i \in (pending' \cup bought') \ abandoned' PROVE Followed(i)'
  <2>1. i \in (pending \cup bought) \ abandoned
    BY <1>1
  <2>2. Followed(i)
    BY <2>1 DEF RecordInv
  <2>3. CASE recorded[i]
    BY <2>1, <2>3 DEF Followed
  <2>4. ASSUME NEW l \in Loops, loop[l].i = i, Follows(l) PROVE Followed(i)'
    BY <1>1, <2>1, <2>4 DEF Followed
  <2> QED BY <2>2, <2>3, <2>4 DEF Followed
<1>2. ASSUME NEW l \in Loops, loop'[l].pc = "answered", loop'[l].answer = "PURCHASED"
      PROVE  loop'[l].i \in bought'
  BY <1>2 DEF RecordInv
<1> QED BY <1>1, <1>2 DEF RecordInv

LEMMA RecordInvStep ==
    ASSUME TypeInv, LockInv, DownInv, OnceInv, RecordInv, [Next]_vars
    PROVE  RecordInv'
<1> SUFFICES ASSUME faults' = 0 PROVE RecordInv'
  BY DEF RecordInv
\* A step of nobody who follows an order, none of which is placed.
<1> DEFINE Kept ==
       /\ UNCHANGED <<recorded, pending, bought, faults, loose, up>>
       /\ abandoned \subseteq abandoned'
       /\ \A k \in Loops : Follows(k) => loop'[k] = loop[k]
       /\ \A k \in Loops : loop'[k].pc = "answered" /\ loop'[k].answer = "PURCHASED"
             => loop'[k] = loop[k]
<1>0. ASSUME Kept PROVE RecordInv'
  <2>1. faults = 0 /\ up' /\ ~loose'
    BY <1>0 DEF RecordInv
  <2>2. \A l \in Loops : Follows(l) => loop'[l].i = loop[l].i /\ Follows(l)'
    BY <1>0 DEF Follows
  <2>3. \A l \in Loops : loop'[l].pc = "answered" /\ loop'[l].answer = "PURCHASED" =>
           loop[l].pc = "answered" /\ loop[l].answer = "PURCHASED" /\ loop'[l].i = loop[l].i
    BY <1>0
  <2> QED BY <1>0, <2>1, <2>2, <2>3, RecordKept
<1> HIDE DEF Kept
<1>1. ASSUME Calm PROVE Kept
  BY <1>1 DEF Kept, Calm, Busily, Executing, Follows
<1>2. ASSUME NEW i \in Instructions, Sweep(i) PROVE Kept
  BY <1>2, SweepFacts DEF Kept, Only, Follows, service, history
<1>3. ASSUME ReleaseExpired PROVE Kept
  <2>1. UNCHANGED faults
    BY <1>3, ReleaseExpiredFacts, FaultsGrow
  <2> QED BY <1>3, <2>1, ReleaseExpiredFacts DEF Kept, Only, Follows, file, history
<1>4. ASSUME NEW l \in Loops, Execute(l) PROVE Kept
  BY <1>4, ExecuteFacts DEF Kept, Only, Follows, service
<1>5. ASSUME NEW l \in Loops, GoesOn(l) PROVE RecordInv'
  <2> USE <1>5, GoesOnFacts
  <2>1. UNCHANGED <<recorded, pending, bought, faults, loose, up, abandoned>>
    BY DEF Resting, file, service, history
  <2>2. faults = 0 /\ up /\ ~loose
    BY <2>1 DEF RecordInv
  <2>3. \A k \in Loops : Follows(k) => loop'[k].i = loop[k].i /\ Follows(k)'
    BY DEF Only, Follows
  <2>4. \A k \in Loops : loop'[k].pc = "answered" /\ loop'[k].answer = "PURCHASED" =>
           \/ loop[k].pc = "answered" /\ loop[k].answer = "PURCHASED" /\ loop'[k].i = loop[k].i
           \/ loop'[k].i \in bought'
    BY <2>1 DEF Only
  <2> QED BY <2>1, <2>2, <2>3, <2>4, RecordKept
<1>6. ASSUME NEW l \in Loops, Serve(l) PROVE RecordInv'
  <2>0. PICK i \in Instructions : i = loop[l].i
    BY <1>6, ServeFacts
  <2>1. /\ loop[l].pc = "served" /\ loop'[l].pc = "answered" /\ loop'[l].i = i /\ Only(l)
        /\ Buys(i, loop[l].o, loop'[l].answer)
        /\ UNCHANGED <<recorded, up, abandoned>>
    BY <1>6, <2>0, ServeFacts DEF file
  <2>2. faults = 0 /\ ~loose'
    <3>1. loose' => (Fault \/ loose)
      BY <2>1 DEF Buys, Sells, Ships
    <3>2. Fault \/ UNCHANGED faults
      BY <2>1 DEF Buys, Sells, Ships
    <3> QED BY <3>1, <3>2, FaultsGrow DEF RecordInv
  <2>3. \/ UNCHANGED <<pending, bought>> /\ loop'[l].answer \notin {"PURCHASED", "UNKNOWN"}
        \/ loop'[l].answer = "PURCHASED" /\ bought' = bought \cup {i} /\ UNCHANGED pending
        \/ loop'[l].answer = "UNKNOWN" /\ pending' = pending \cup {i} /\ UNCHANGED bought
    BY <2>1, <2>2, BuysFacts
  <2>4. \A k \in Loops : k # l => loop'[k] = loop[k]
    BY <2>1 DEF Only
  <2>5. ASSUME NEW j \in (pending' \cup bought') \ abandoned' PROVE Followed(j)'
    <3>1. CASE j = i /\ loop'[l].answer \in {"PURCHASED", "UNKNOWN"}
      BY <2>1, <3>1 DEF Followed, Follows
    <3>2. CASE j \in (pending \cup bought) \ abandoned
      <4>1. Followed(j)
        BY <2>2, <3>2 DEF RecordInv
      <4>2. ~Follows(l)
        BY <2>1 DEF Follows
      <4> QED BY <2>1, <2>4, <4>1, <4>2 DEF Followed, Follows
    <3> QED BY <2>1, <2>3, <2>5, <3>1, <3>2
  <2>6. ASSUME NEW k \in Loops, loop'[k].pc = "answered", loop'[k].answer = "PURCHASED"
        PROVE  loop'[k].i \in bought'
    <3>1. CASE k = l
      BY <2>1, <2>3, <2>6, <3>1
    <3>2. CASE k # l
      <4>1. loop[k].i \in bought /\ loop'[k].i = loop[k].i
        BY <2>2, <2>4, <2>6, <3>2 DEF RecordInv
      <4> QED BY <2>3, <4>1
    <3> QED BY <3>1, <3>2
  <2>7. up'
    BY <2>1, <2>2 DEF RecordInv
  <2> QED BY <2>2, <2>5, <2>6, <2>7 DEF RecordInv
<1>7. ASSUME NEW l \in Loops, Ends(l) PROVE RecordInv'
  <2>0. ~PurchaseThrows(l)
    BY FaultsGrow DEF PurchaseThrows
  <2> USE <1>7, EndFacts
  <2>1. /\ loop'[l].pc = "loop" /\ Only(l)
        /\ UNCHANGED <<pending, bought, up, faults, loose>>
    BY <2>0
  <2>2. faults = 0 /\ up' /\ ~loose'
    BY <2>1 DEF RecordInv
  <2>3. abandoned \subseteq abandoned' /\ \A i \in Instructions : recorded[i] => recorded'[i]
    BY <2>0, Unfolded
  <2>4. \A k \in Loops : Follows(k) =>
              \/ loop'[k].i = loop[k].i /\ Follows(k)'
              \/ recorded'[loop[k].i]
              \/ loop[k].i \notin (pending \cup bought) \ abandoned'
    <3> SUFFICES ASSUME NEW k \in Loops, Follows(k)
                 PROVE  \/ loop'[k].i = loop[k].i /\ Follows(k)'
                        \/ recorded'[loop[k].i]
                        \/ loop[k].i \notin (pending \cup bought) \ abandoned'
      OBVIOUS
    <3>1. CASE k # l
      BY <2>1, <3>1 DEF Only, Follows
    <3>2. CASE k = l
      BY <2>0, <3>2, Unfolded DEF Follows
    <3> QED BY <3>1, <3>2
  <2>5. \A k \in Loops : loop'[k].pc = "answered" => k # l /\ loop'[k] = loop[k]
    BY <2>1 DEF Only
  <2>6. pending \cup bought \subseteq Instructions
    BY DEF TypeInv, TypeOK
  <2> QED BY <2>1, <2>2, <2>3, <2>4, <2>5, <2>6, RecordKept
<1>8. ASSUME Crash \/ Boot PROVE FALSE
  <2>1. CASE Crash
    BY <2>1, FaultsGrow DEF Crash
  <2>2. CASE Boot
    BY <2>2 DEF Boot, RecordInv
  <2> QED BY <1>8, <2>1, <2>2
<1>9. ASSUME NEW i \in Instructions,
             Create(i) \/ Cancel(i) \/ ReleaseCancelled(i) \/ Cancelled(i)
      PROVE  Kept
  <2>1. UNCHANGED <<loop, recorded, up, pending, bought, loose, abandoned>>
    BY <1>9 DEF Create, Cancel, ReleaseCancelled, Cancelled, file, memory, service, history
  <2>2. UNCHANGED faults
    BY <1>9, FaultsGrow DEF Create, Cancel, ReleaseCancelled, Cancelled
  <2> QED BY <2>1, <2>2 DEF Kept
<1>10. ASSUME NEW i \in Instructions, Resolve(i) PROVE RecordInv'
  <2>1. /\ UNCHANGED <<loop, recorded, up, faults, loose, abandoned>>
        /\ pending' \cup bought' \subseteq pending \cup bought /\ bought \subseteq bought'
    BY <1>10 DEF Resolve, file, memory, history
  <2>2. faults = 0 /\ up' /\ ~loose'
    BY <2>1 DEF RecordInv
  <2> QED BY <2>1, <2>2, RecordKept DEF Follows
<1>11. ASSUME NEW i \in Instructions, NEW o \in Offers, ServeOrphan(i, o) PROVE FALSE
  <2>1. PICK a : Buys(i, o, a) /\ <<i, o>> \in orphans
    BY <1>11 DEF ServeOrphan
  <2>2. loose
    BY <2>1 DEF OnceInv
  <2>3. Fault \/ UNCHANGED faults
    BY <2>1 DEF Buys, Sells, Ships
  <2> QED BY <2>2, <2>3, FaultsGrow DEF RecordInv
<1> QED BY <1>0, <1>1, <1>2, <1>3, <1>4, <1>5, <1>6, <1>7, <1>8, <1>9, <1>10, <1>11, Steps
    DEF GoesOn

-----------------------------------------------------------------------------
(* Stages: without a fault the hold is what the status and the work say *)

Expiring(i) == At("tick", "release") /\ loop["tick"].i = i

\* Before the money service has served it, and when it declined, an execution
\* has the hold it began with.
Unserved(l) ==
    \/ loop[l].pc \in {"revalidate", "buy", "served"}
    \/ loop[l].pc = "answered" /\ loop[l].answer = "DECLINED"

Back == {"held", "attention"}   \* holds that can still be given back

Stage(i) ==
    /\ status[i] = "ACTIVE" => hold[i] = "held" \/ cancel[i] = "released"
    /\ status[i] = "EXPIRED" => hold[i] \notin Back \/ Expiring(i)
    /\ status[i] = "CANCELLED" => hold[i] \notin Back
    /\ status[i] = "PURCHASED" => hold[i] = "spent"
    /\ status[i] = "EXECUTING" => Executed(i)
    /\ cancel[i] = "released" => hold[i] \notin Back
    /\ \A l \in Loops : loop[l].i = i /\ Unserved(l) => hold[i] = "held"
    /\ Expiring(i) => status[i] \in {"EXPIRED", "CANCELLED"}

StageInv == faults = 0 => \A i \in Instructions \ crossed : Stage(i)

LEMMA InitStageInv == Init => StageInv
  BY DEF Init, StageInv, Stage, Unserved, Expiring, At, Idle, Loops

\* Nobody takes up or leaves work on an instruction.
SameWork(i) ==
    /\ Executed(i) => Executed(i)'
    /\ Expiring(i)' <=> Expiring(i)
    /\ \A l \in Loops : loop'[l].i = i /\ Unserved(l)' => loop[l].i = i /\ Unserved(l)

LEMMA StageKept ==
    ASSUME NEW i, Stage(i), SameWork(i), hold'[i] = hold[i], status'[i] = status[i],
           cancel'[i] = cancel[i]
    PROVE  Stage(i)'
  BY DEF Stage, SameWork

LEMMA WorkUnchanged == ASSUME UNCHANGED loop, NEW i PROVE SameWork(i)
  BY DEF SameWork, Executed, Expiring, At, Unserved

\* A step of one loop, which neither begins nor ends an execution or a release.
LEMMA WorkGoesOn ==
    ASSUME NEW l \in Loops, NEW i, Only(l), loop[l].pc # "release", loop'[l].pc # "release",
           \/ loop[l].i = i /\ loop[l].pc \in Executing =>
                 loop'[l].i = i /\ loop'[l].pc \in Executing,
           loop'[l].i = i /\ Unserved(l)' => loop[l].i = i /\ Unserved(l)
    PROVE  SameWork(i)
<1>1. Executed(i) => Executed(i)'
  BY DEF Executed, Only
<1>2. Expiring(i)' <=> Expiring(i)
  BY DEF Expiring, At, Only, Loops
<1>3. \A k \in Loops : loop'[k].i = i /\ Unserved(k)' => loop[k].i = i /\ Unserved(k)
  BY DEF Unserved, Only
<1> QED BY <1>1, <1>2, <1>3 DEF SameWork

LEMMA CalmWork == ASSUME Calm, NEW i PROVE SameWork(i)
<1>1. \A k \in Loops : loop[k].pc \in Busily \/ loop'[k].pc \in Busily => loop'[k] = loop[k]
  BY DEF Calm
<1>2. Executed(i) => Executed(i)'
  BY <1>1 DEF Executed, Busily
<1>3. Expiring(i)' <=> Expiring(i)
  BY <1>1 DEF Expiring, At, Busily, Loops
<1>4. \A k \in Loops : Unserved(k)' => loop'[k] = loop[k]
  BY <1>1 DEF Unserved, Busily, Executing
<1> QED BY <1>2, <1>3, <1>4 DEF SameWork, Unserved

LEMMA StageInvStep ==
    ASSUME TypeInv, LockInv, DownInv, CrossInv, OnceInv, RecordInv, StageInv, [Next]_vars
    PROVE  StageInv'
<1> SUFFICES ASSUME faults' = 0, NEW j \in Instructions, j \notin crossed' PROVE Stage(j)'
  BY DEF StageInv
<1> USE DEF Back
<1>0. ASSUME UNCHANGED faults, j \notin crossed
      PROVE  faults = 0 /\ up /\ ~loose /\ Stage(j) /\ Once(j)
  BY <1>0 DEF RecordInv, StageInv, OnceInv
<1>1. ASSUME Calm PROVE Stage(j)'
  <2>1. UNCHANGED <<status, cancel, hold, faults, crossed>>
    BY <1>1 DEF Calm
  <2> QED BY <1>0, <1>1, <2>1, CalmWork, StageKept
<1>2. ASSUME NEW i \in Instructions, Sweep(i) PROVE Stage(j)'
  <2> USE <1>2, SweepFacts
  <2>1. UNCHANGED <<cancel, hold, faults, crossed>> /\ Only("tick")
    BY DEF service, history
  <2>2. Stage(j) /\ "tick" \in Loops
    BY <1>0, <2>1 DEF Loops
  <2>3. CASE j = i /\ status[i] = "ACTIVE"
    <3>1. Expiring(j)'
      BY <2>3 DEF Expiring, At
    <3>2. \A k \in Loops : Unserved(k)' => k # "tick" /\ loop'[k] = loop[k]
      BY <2>1, <2>3 DEF Unserved, Only
    <3> QED BY <2>1, <2>2, <2>3, <3>1, <3>2 DEF Stage, Unserved
  <2>4. CASE ~(j = i /\ status[i] = "ACTIVE")
    <3>1. SameWork(j)
      <4>1. CASE loop'["tick"].pc = "sweep"
        BY <2>1, <2>2, <4>1, WorkGoesOn DEF Executing, Unserved
      <4>2. CASE loop'["tick"].pc = "release" /\ loop'["tick"].i = i /\ i # j
        BY <2>1, <2>2, <4>2 DEF SameWork, Executed, Expiring, At, Unserved, Only, Executing
      <4> QED BY <2>4, <4>1, <4>2
    <3>2. status'[j] = status[j]
      BY <2>4
    <3> QED BY <2>1, <2>2, <3>1, <3>2, StageKept
  <2> QED BY <2>3, <2>4
<1>3. ASSUME ReleaseExpired PROVE Stage(j)'
  <2> DEFINE i == loop["tick"].i
  <2>1. /\ loop["tick"].pc = "release" /\ loop'["tick"].pc = "sweep" /\ Only("tick")
        /\ UNCHANGED <<status, cancel, crossed>> /\ UNCHANGED faults
        /\ Release(i)
    BY <1>3, ReleaseExpiredFacts, FaultsGrow DEF file, history
  <2>2. Stage(j) /\ "tick" \in Loops
    BY <1>0, <2>1 DEF Loops
  <2>3. \/ hold'[j] = hold[j]
        \/ j = i /\ hold[j] \in Back /\ hold'[j] = "released"
    BY <2>1, ReleaseFacts
  <2>4. j = i => hold'[j] \notin Back
    BY <2>1, ReleaseFacts
  <2>5. ~Expiring(j)' /\ (Expiring(j) <=> j = i)
    BY <2>1 DEF Expiring, At
  <2>6. \A k \in Loops : Unserved(k)' => k # "tick" /\ loop'[k] = loop[k]
    BY <2>1 DEF Unserved, Only
  <2>7. Executed(j) => Executed(j)'
    BY <2>1 DEF Executed, Executing, Only
  <2>8. \A k \in Loops : loop[k].i = j /\ Unserved(k) => j # i
    <3> SUFFICES ASSUME NEW k \in Loops, loop[k].i = j, Unserved(k), j = i PROVE FALSE
      OBVIOUS
    <3>1. status[j] = "EXECUTING"
      BY <2>1, UncrossedExecution DEF Executed, Unserved, Executing
    <3> QED BY <2>2, <2>5, <3>1 DEF Stage
  <2> HIDE DEF i
  <2>9. j = i => status[j] \in {"EXPIRED", "CANCELLED"}
    BY <2>2, <2>5 DEF Stage
  <2>10. \A k \in Loops : loop'[k].i = j /\ Unserved(k)' => hold'[j] = "held"
    <3> SUFFICES ASSUME NEW k \in Loops, loop'[k].i = j, Unserved(k)' PROVE hold'[j] = "held"
      OBVIOUS
    <3>1. loop[k].i = j /\ Unserved(k)
      BY <2>6 DEF Unserved
    <3> QED BY <2>2, <2>3, <2>8, <3>1 DEF Stage
  <2>11. hold'[j] = hold[j] \/ (status[j] \in {"EXPIRED", "CANCELLED"} /\ hold'[j] = "released")
    BY <2>3, <2>9
  <2>12. status[j] = "EXPIRED" => hold'[j] \notin Back
    BY <2>2, <2>4, <2>5, <2>11 DEF Stage
  <2> QED BY <2>1, <2>2, <2>5, <2>7, <2>10, <2>11, <2>12 DEF Stage
<1>4. ASSUME NEW l \in Loops, Execute(l) PROVE Stage(j)'
  <2> USE <1>4, ExecuteFacts
  <2>1. UNCHANGED <<cancel, hold, faults>> /\ j \notin crossed /\ Only(l)
    BY DEF service
  <2>2. Stage(j)
    BY <1>0, <2>1
  <2>3. CASE j # loop[l].i
    <3>1. SameWork(j)
      BY <2>1, <2>3, WorkGoesOn
    <3> QED BY <2>1, <2>2, <2>3, <3>1, StageKept
  <2>4. CASE j = loop[l].i
    <3>1. cancel[j] = "no" /\ ~Executed(j) /\ status'[j] = "EXECUTING"
      BY <2>1, <2>4, Unfolded DEF Executed, TypeInv, TypeOK
    <3>2. status[j] = "ACTIVE" /\ hold[j] = "held"
      BY <2>2, <2>4, <3>1 DEF Stage
    <3>3. ~Expiring(j)'
      <4>1. ~Expiring(j)
        BY <2>2, <3>2 DEF Stage
      <4> QED BY <2>1, <4>1 DEF Expiring, At, Only, Loops
    <3>4. Executed(j)'
      BY <2>4 DEF Executed, Executing
    <3> QED BY <2>1, <3>1, <3>2, <3>3, <3>4 DEF Stage
  <2> QED BY <2>3, <2>4
<1>5. ASSUME NEW l \in Loops, GoesOn(l) PROVE Stage(j)'
  <2> USE <1>5, GoesOnFacts
  <2>1. UNCHANGED <<status, cancel, hold, faults, crossed>> /\ Only(l)
    BY DEF Resting, file, service, history
  <2>2. Unserved(l)' => Unserved(l)
    BY DEF Unserved
  <2>3. SameWork(j)
    BY <2>1, <2>2, WorkGoesOn DEF Executing
  <2> QED BY <1>0, <2>1, <2>3, StageKept
<1>6. ASSUME NEW l \in Loops, Serve(l) PROVE Stage(j)'
  <2>0. PICK i \in Instructions : i = loop[l].i
    BY <1>6, ServeFacts
  <2>1. /\ loop[l].pc = "served" /\ loop'[l].pc = "answered" /\ loop'[l].i = i /\ Only(l)
        /\ Buys(i, loop[l].o, loop'[l].answer)
        /\ UNCHANGED <<status, cancel, crossed>>
    BY <1>6, <2>0, ServeFacts DEF file
  <2>2. UNCHANGED faults /\ ~loose'
    <3>1. loose' => (Fault \/ loose)
      BY <2>1 DEF Buys, Sells, Ships
    <3>2. Fault \/ UNCHANGED faults
      BY <2>1 DEF Buys, Sells, Ships
    <3> QED BY <3>1, <3>2, FaultsGrow DEF RecordInv
  <2>3. Stage(j)
    BY <1>0, <2>1, <2>2
  <2>4. CASE j # i
    <3>1. SameWork(j)
      BY <2>0, <2>1, <2>4, WorkGoesOn
    <3>2. hold'[j] = hold[j]
      BY <2>1, <2>2, <2>4, BuysFacts
    <3> QED BY <2>1, <2>3, <3>1, <3>2, StageKept
  <2>5. CASE j = i
    <3>1. Executed(j) /\ status[j] = "EXECUTING" /\ cancel[j] = "no"
      BY <2>0, <2>1, <2>5, UncrossedExecution DEF Executed, Executing
    <3>2. hold[j] = "held"
      BY <2>0, <2>1, <2>3, <2>5 DEF Stage, Unserved
    <3>3. loop'[l].answer = "DECLINED" => hold'[j] = "held"
      BY <2>1, <2>2, <2>5, <3>2, BuysFacts
    <3>4. \A k \in Loops \ {l} : loop[k].pc \in Executing => loop[k].i # j
      BY <2>0, <2>1, <2>5 DEF LockInv, Executing
    <3>5. \A k \in Loops : loop'[k].i = j /\ Unserved(k)' => hold'[j] = "held"
      BY <2>1, <3>3, <3>4 DEF Unserved, Executing, Only
    <3>6. Executed(j)'
      BY <2>1, <2>5 DEF Executed, Executing
    <3>7. ~Expiring(j)'
      <4>1. ~Expiring(j)
        BY <2>3, <3>1 DEF Stage
      <4> QED BY <2>1, <4>1 DEF Expiring, At, Only, Loops
    <3> QED BY <2>1, <3>1, <3>5, <3>6, <3>7 DEF Stage
  <2> QED BY <2>4, <2>5
<1>7. ASSUME NEW l \in Loops, Ends(l) PROVE Stage(j)'
  <2>0. ~PurchaseThrows(l)
    BY FaultsGrow DEF PurchaseThrows
  <2> USE <1>7, EndFacts
  <2>1. /\ loop[l].pc \in Executing /\ loop'[l].pc = "loop" /\ Only(l)
        /\ UNCHANGED <<cancel, hold, faults, crossed>>
    BY <2>0
  <2>2. faults = 0 /\ ~loose /\ Stage(j) /\ Once(j)
    BY <1>0, <2>1
  <2>3. CASE j # loop[l].i
    <3>1. SameWork(j)
      BY <2>1, <2>3, WorkGoesOn DEF Executing, Unserved
    <3> QED BY <2>1, <2>2, <2>3, <3>1, StageKept
  <2>4. CASE j = loop[l].i
    <3>1. status[j] = "EXECUTING" /\ cancel[j] = "no"
      BY <2>1, <2>4, UncrossedExecution DEF Executed
    <3>2. ~Expiring(j)'
      <4>1. ~Expiring(j)
        BY <2>2, <3>1 DEF Stage
      <4> QED BY <2>1, <4>1 DEF Expiring, At, Only, Loops
    <3>3. \A k \in Loops : ~(loop'[k].i = j /\ Unserved(k)')
      <4>1. \A k \in Loops \ {l} : loop[k].pc \in Executing => loop[k].i # j
        BY <2>1, <2>4 DEF LockInv
      <4> QED BY <2>1, <4>1 DEF Unserved, Executing, Only
    <3>4. \/ status'[j] = "ACTIVE" /\ Unserved(l)
          \/ status'[j] = "PURCHASED" /\ loop[l].pc = "answered" /\ loop[l].answer = "PURCHASED"
          \/ status'[j] = "NEEDS_ATTENTION"
      BY <2>0, <2>4 DEF Unserved
    <3>5. status'[j] = "ACTIVE" => hold[j] = "held"
      BY <2>2, <2>4, <3>4 DEF Stage
    <3>6. status'[j] = "PURCHASED" => hold[j] = "spent"
      BY <2>2, <2>4, <3>4 DEF RecordInv, Once
    <3> QED BY <2>1, <3>1, <3>2, <3>3, <3>4, <3>5, <3>6 DEF Stage
  <2> QED BY <2>3, <2>4
<1>8. ASSUME Crash \/ Boot PROVE FALSE
  <2>1. CASE Crash
    BY <2>1, FaultsGrow DEF Crash
  <2>2. CASE Boot
    BY <2>2 DEF Boot, RecordInv
  <2> QED BY <1>8, <2>1, <2>2
<1>9. ASSUME NEW i \in Instructions, Create(i) PROVE Stage(j)'
  <2>1. UNCHANGED <<loop, cancel, faults, crossed>> /\ status[i] = "none"
    BY <1>9 DEF Create, memory, history
  <2>2. \A k \in Instructions \ {i} : status'[k] = status[k] /\ hold'[k] = hold[k]
    BY <1>9 DEF Create, SetStatus, TypeInv, TypeOK
  <2>3. \/ status'[i] = "ACTIVE" /\ hold'[i] = "held"
        \/ status'[i] = "NEEDS_ATTENTION" /\ hold'[i] = "attention"
    BY <1>9 DEF Create, SetStatus, TypeInv, TypeOK
  <2>4. Stage(j)
    BY <1>0, <2>1
  <2>5. CASE j # i
    BY <2>1, <2>2, <2>4, <2>5, WorkUnchanged, StageKept
  <2>6. CASE j = i
    <3>1. ~Executed(j) /\ ~Expiring(j)
      BY <2>1, <2>4, <2>6, UncrossedExecution DEF Stage
    <3>2. cancel[j] = "no"
      BY <2>1, <2>6 DEF CrossInv
    <3>3. ~Expiring(j)'
      BY <2>1, <3>1 DEF Expiring, At
    <3>4. \A k \in Loops : ~(loop'[k].i = j /\ Unserved(k)')
      BY <2>1, <3>1 DEF Executed, Unserved, Executing
    <3> QED BY <2>1, <2>3, <2>6, <3>2, <3>3, <3>4 DEF Stage
  <2> QED BY <2>5, <2>6
<1>10. ASSUME NEW i \in Instructions, Cancel(i) PROVE Stage(j)'
  <2>1. UNCHANGED <<loop, status, hold, faults>> /\ j \notin crossed
    BY <1>10 DEF Cancel, file, service
  <2>2. /\ \A k \in Instructions \ {i} : cancel'[k] = cancel[k]
        /\ cancel[i] = "no" /\ cancel'[i] = "asked"
    BY <1>10 DEF Cancel, TypeInv, TypeOK
  <2>3. Stage(j) /\ SameWork(j)
    BY <1>0, <2>1, WorkUnchanged
  <2> QED BY <2>1, <2>2, <2>3 DEF Stage, SameWork
<1>11. ASSUME NEW i \in Instructions, ReleaseCancelled(i) PROVE Stage(j)'
  <2>1. UNCHANGED <<loop, status, faults, crossed>> /\ Release(i) /\ cancel[i] = "asked"
    BY <1>11, FaultsGrow DEF ReleaseCancelled, file, history
  <2>2. /\ \A k \in Instructions \ {i} : cancel'[k] = cancel[k]
        /\ cancel'[i] = "released"
    BY <1>11 DEF ReleaseCancelled, TypeInv, TypeOK
  <2>3. /\ \/ hold'[j] = hold[j]
           \/ j = i /\ hold[j] \in Back /\ hold'[j] = "released"
        /\ j = i => hold'[j] \notin Back
    BY <2>1, ReleaseFacts
  <2>4. Stage(j) /\ SameWork(j)
    BY <1>0, <2>1, WorkUnchanged
  <2>5. CASE j # i
    BY <2>1, <2>2, <2>3, <2>4, <2>5, StageKept
  <2>6. CASE j = i
    <3>1. ~Executed(j)
      BY <2>1, <2>6, UncrossedExecution
    <3>2. \A k \in Loops : ~(loop'[k].i = j /\ Unserved(k)')
      BY <2>1, <3>1 DEF Executed, Unserved, Executing
    <3> QED BY <2>1, <2>2, <2>3, <2>4, <2>6, <3>1, <3>2 DEF Stage, SameWork
  <2> QED BY <2>5, <2>6
<1>12. ASSUME NEW i \in Instructions, Cancelled(i) PROVE Stage(j)'
  <2>1. UNCHANGED <<loop, hold, faults, crossed>> /\ cancel[i] = "released"
    BY <1>12 DEF Cancelled, service, history
  <2>2. /\ \A k \in Instructions \ {i} : cancel'[k] = cancel[k] /\ status'[k] = status[k]
        /\ cancel'[i] = "no" /\ status'[i] = "CANCELLED"
    BY <1>12 DEF Cancelled, SetStatus, TypeInv, TypeOK
  <2>3. Stage(j) /\ SameWork(j)
    BY <1>0, <2>1, WorkUnchanged
  <2>4. CASE j # i
    BY <2>1, <2>2, <2>3, <2>4, StageKept
  <2>5. CASE j = i
    BY <2>1, <2>2, <2>3, <2>5 DEF Stage, SameWork
  <2> QED BY <2>4, <2>5
<1>13. ASSUME NEW i \in Instructions, Resolve(i) PROVE Stage(j)'
  <2>1. /\ UNCHANGED <<loop, status, cancel, faults, crossed>> /\ i \in pending
        /\ \A k \in Instructions \ {i} : hold'[k] = hold[k]
        /\ hold'[i] \in {"spent", "released"}
    BY <1>13 DEF Resolve, Holds, file, memory, history, TypeInv, TypeOK
  <2>2. Stage(j) /\ SameWork(j) /\ Once(j)
    BY <1>0, <2>1, WorkUnchanged
  <2>3. CASE j # i
    BY <2>1, <2>2, <2>3, StageKept
  <2>4. CASE j = i
    <3>1. hold[j] = "captured"
      BY <2>1, <2>2, <2>4 DEF Once
    <3> QED BY <2>1, <2>2, <2>4, <3>1 DEF Stage, SameWork
  <2> QED BY <2>3, <2>4
<1>14. ASSUME NEW i \in Instructions, NEW o \in Offers, ServeOrphan(i, o) PROVE FALSE
  <2>1. PICK a : Buys(i, o, a) /\ <<i, o>> \in orphans
    BY <1>14 DEF ServeOrphan
  <2>2. loose
    BY <2>1 DEF OnceInv
  <2>3. Fault \/ UNCHANGED faults
    BY <2>1 DEF Buys, Sells, Ships
  <2> QED BY <2>2, <2>3, FaultsGrow DEF RecordInv
<1> QED BY <1>1, <1>2, <1>3, <1>4, <1>5, <1>6, <1>7, <1>8, <1>9, <1>10, <1>11, <1>12, <1>13, <1>14,
           Steps DEF GoesOn

-----------------------------------------------------------------------------
(* The theorems on the purchase *)

FlightInv == IInv /\ DownInv /\ CrossInv /\ OnceInv /\ RecordInv /\ StageInv

LEMMA FlightInvariant == Spec => []FlightInv
<1>1. Init => FlightInv
  BY InitTypeInv, InitLockInv, InitCrossInv, InitOnceInv, InitRecordInv, InitStageInv
  DEF FlightInv, IInv
<1>2. FlightInv /\ [Next]_vars => FlightInv'
  <2> SUFFICES ASSUME FlightInv, [Next]_vars PROVE FlightInv'
    OBVIOUS
  <2>1. TypeInv /\ LockInv /\ DownInv /\ CrossInv /\ OnceInv /\ RecordInv /\ StageInv
    BY DEF FlightInv, IInv
  <2>2. TypeInv' /\ LockInv'
    BY <2>1, TypeInvStep, LockInvStep
  <2>3. DownInv' /\ CrossInv'
    BY <2>1, CrossInvStep
  <2>4. OnceInv' /\ RecordInv' /\ StageInv'
    BY <2>1, OnceInvStep, RecordInvStep, StageInvStep
  <2> QED BY <2>2, <2>3, <2>4 DEF FlightInv, IInv
<1> QED BY <1>1, <1>2, PTL DEF Spec

\* However often an instruction is executed, cancelled and restarted, one order at
\* most is placed for it, unless a checkout went on without its client or the
\* market sold what an issuer then refused (executor.ts, money.mjs).
THEOREM OneOrderAtMost == Spec => []BuysOnce
<1>1. FlightInv => BuysOnce
  BY DEF FlightInv, OnceInv, Once, BuysOnce
<1> QED BY <1>1, FlightInvariant, PTL

\* Without a fault a purchase is recorded, or a loop is at work that will record
\* it, or the order was still open after ten minutes of polling (executor.ts).
THEOREM PurchasesAreRecorded == Spec => []PurchaseIsRecorded
<1>1. FlightInv => PurchaseIsRecorded
  BY DEF FlightInv, RecordInv, Followed, PurchaseIsRecorded, Busy
<1> QED BY <1>1, FlightInvariant, PTL

\* Without a fault, and with nobody at work on an instruction that no cancellation
\* crossed, an active one has its hold, a stopped one has given it back, and a
\* purchase has spent it (index.ts, monitor.ts, executor.ts).
THEOREM HoldsFollowStatus == Spec => []HoldFollowsStatus
<1>1. FlightInv => HoldFollowsStatus
  <2> SUFFICES ASSUME FlightInv, faults = 0, NEW i \in Instructions \ crossed, ~Busy(i)
               PROVE  /\ status[i] = "ACTIVE" => hold[i] = "held"
                      /\ status[i] \in {"CANCELLED", "EXPIRED"} => hold[i] \notin {"held", "attention"}
                      /\ status[i] = "PURCHASED" => hold[i] = "spent"
    BY DEF HoldFollowsStatus
  <2>1. Stage(i)
    BY DEF FlightInv, StageInv
  <2>2. ~Expiring(i) /\ cancel[i] = "no"
    BY DEF Busy, Expiring, Loops
  <2> QED BY <2>1, <2>2 DEF Stage, Back
<1> QED BY <1>1, FlightInvariant, PTL

\* A terminal status stays, but for a cancellation that overtakes a sweep, on every
\* instruction that no cancellation crossed: the loops, the requests and the
\* restart overwrite none (state.ts, executor.ts, index.ts).
THEOREM TerminalsAreFinal == Spec => TerminalIsFinal
<1>1. FlightInv /\ [Next]_vars =>
         [\A i \in Instructions \ crossed :
             status[i] \in Terminal /\ status'[i] # status[i] =>
                 status[i] = "EXPIRED" /\ status'[i] = "CANCELLED"]_vars
  <2> SUFFICES ASSUME FlightInv, [Next]_vars, NEW i \in Instructions \ crossed,
                      status[i] \in Terminal, status'[i] # status[i]
               PROVE  status[i] = "EXPIRED" /\ status'[i] = "CANCELLED"
    OBVIOUS
  <2>1. TypeInv /\ LockInv /\ DownInv /\ CrossInv
    BY DEF FlightInv, IInv
  <2>2. status[i] \notin {"none", "ACTIVE", "EXECUTING"}
    BY DEF Terminal
  <2>3. ~Calm
    BY DEF Calm
  <2>4. ASSUME NEW j \in Instructions, Sweep(j) PROVE FALSE
    BY <2>1, <2>2, <2>4, SweepFacts
  <2>5. ASSUME NEW l \in Loops, Execute(l) PROVE FALSE
    BY <2>1, <2>2, <2>5, ExecuteFacts
  <2>6. ASSUME NEW l \in Loops, Ends(l) PROVE FALSE
    <3>1. i # loop[l].i
      BY <2>1, <2>2, <2>6, EndFacts DEF CrossInv
    <3> QED BY <2>1, <2>6, <3>1, EndFacts
  <2>7. ASSUME NEW l \in Loops, GoesOn(l) \/ Serve(l) PROVE FALSE
    BY <2>1, <2>7, GoesOnFacts, ServeFacts DEF Resting, file
  <2>8. ASSUME Boot PROVE FALSE
    BY <2>2, <2>8 DEF Boot
  <2>9. ASSUME ReleaseExpired \/ Crash PROVE FALSE
    BY <2>9 DEF ReleaseExpired, Crash, file
  <2>10. ASSUME NEW j \in Instructions,
                \/ Create(j) \/ Cancel(j) \/ ReleaseCancelled(j) \/ Resolve(j)
                \/ \E o \in Offers : ServeOrphan(j, o)
         PROVE  FALSE
    <3>1. CASE Create(j)
      BY <2>1, <2>2, <3>1, Unfolded DEF Create, SetStatus
    <3>2. CASE UNCHANGED status
      BY <3>2
    <3> QED BY <2>10, <3>1, <3>2 DEF Cancel, ReleaseCancelled, Resolve, ServeOrphan, file
  <2>11. ASSUME NEW j \in Instructions, Cancelled(j)
         PROVE  status[i] = "EXPIRED" /\ status'[i] = "CANCELLED"
    <3>1. i = j /\ status'[i] = "CANCELLED" /\ cancel[i] # "no"
      BY <2>1, <2>11, Unfolded DEF Cancelled, SetStatus
    <3>2. status[i] # "PURCHASED"
      BY <2>1, <3>1 DEF CrossInv
    <3> QED BY <3>1, <3>2 DEF Terminal
  <2> QED BY <2>1, <2>3, <2>4, <2>5, <2>6, <2>7, <2>8, <2>9, <2>10, <2>11, Steps DEF GoesOn
<1> QED BY <1>1, FlightInvariant, PTL DEF Spec, TerminalIsFinal

=============================================================================
