--------------------------- MODULE P4ClientProofs ---------------------------
(***************************************************************************)
(* The safety theorems of P4Client, for any number of callers, refreshes,  *)
(* keys, retailers and lists.                                              *)
(*                                                                         *)
(* A list is never replaced by an older one because one refresh is under   *)
(* way at most (the flag says so), and what it was answered is not older   *)
(* than the cache.  What checkout says for certain is so because a key is  *)
(* requested once, and an answer that is final comes with its effect.      *)
(***************************************************************************)
EXTENDS P4Client, TLAPS

\* Where a caller is about to use its key, it has one.
Keyed == \A c \in Callers : caller[c].pc \in {"covered", "sent"} => caller[c].key \in Keys

\* Nobody is served before prime returns.
Booting ==
    ~booted => /\ ~refreshing
               /\ \A c \in Callers : caller[c].pc = "idle"

\* The flag is set while a refresh is under way, and there is one.
OneRefresh ==
    \A t \in Tasks :
        task[t].pc # "idle" =>
            /\ refreshing
            /\ \A u \in Tasks : task[u].pc # "idle" => u = t

\* What a refresh was answered is the service's list of then, after the cache's.
InOrder ==
    /\ cache.list <= version
    /\ \A t \in Tasks :
          task[t].pc = "store" => cache.list <= task[t].got /\ task[t].got <= version

\* An answer with a last word comes with the effect it tells.
Honest ==
    \A k \in Keys :
        /\ request[k].reply # None => request[k].effect \notin {"none", "sent"}
        /\ request[k].reply = "PURCHASED" => request[k].effect = "bought"
        /\ request[k].reply \in {"DECLINED", "FAILED", "NEEDS_ATTENTION", "refused"} =>
              request[k].effect = "nothing"

IInv == TypeOK /\ Keyed /\ Booting /\ OneRefresh /\ InOrder /\ Honest /\ CertaintyIsEarned

LEMMA ListsFacts == Len(Lists) \in Nat /\ Len(Lists) >= 1
  BY P4ClientAssumption

LEMMA NoneIsNoAnswer == None \notin Replies \cup Outcomes
  BY P4ClientAssumption

LEMMA InitIInv == Init => IInv
<1> SUFFICES ASSUME Init PROVE IInv
  OBVIOUS
<1>1. TypeOK
  <2>1. version \in 1 .. Len(Lists)
    BY ListsFacts DEF Init
  <2>2. cache \in [list : 0 .. Len(Lists), fresh : BOOLEAN]
    BY ListsFacts DEF Init
  <2>3. refreshing \in BOOLEAN /\ booted \in BOOLEAN
    BY DEF Init
  <2>4. task \in [Tasks -> [pc : {"idle", "fetch", "store", "clear"}, got : 0 .. Len(Lists)]]
    BY ListsFacts DEF Init, NoTask
  <2>5. caller \in [Callers -> [pc : {"idle", "swap", "uncovered", "covered", "sent"},
                               key : Keys \cup {None}]]
    BY DEF Init, Idle
  <2>6. /\ request \in [Keys -> [effect : {"none", "sent", "bought", "open", "nothing"},
                                 reply : Replies \cup {None}]]
        /\ outcome \in [Keys -> Outcomes \cup {None}]
    BY DEF Init
  <2> QED BY <2>1, <2>2, <2>3, <2>4, <2>5, <2>6 DEF TypeOK
<1>2. Keyed /\ Booting /\ OneRefresh /\ InOrder
  BY DEF Init, Keyed, Booting, OneRefresh, InOrder, NoTask, Idle
<1>3. Honest /\ CertaintyIsEarned
  BY NoneIsNoAnswer DEF Init, Honest, CertaintyIsEarned, Replies, Outcomes
<1> QED BY <1>1, <1>2, <1>3 DEF IInv

-----------------------------------------------------------------------------
(* Type correctness *)

Places == [pc : {"idle", "swap", "uncovered", "covered", "sent"}, key : Keys \cup {None}]
Lookups == [pc : {"idle", "fetch", "store", "clear"}, got : 0 .. Len(Lists)]
Stored == [list : 0 .. Len(Lists), fresh : BOOLEAN]

\* A caller that goes on, with a place and a key to name.
LEMMA BecomeTypes ==
    ASSUME TypeOK, NEW c \in Callers, NEW x \in Places, Become(c, x)
    PROVE  caller' \in [Callers -> Places]
  BY DEF TypeOK, Become, Places

LEMMA TypeStep == IInv /\ [Next]_vars => TypeOK'
<1> SUFFICES ASSUME IInv, [Next]_vars PROVE TypeOK'
  OBVIOUS
<1> USE ListsFacts DEF IInv, TypeOK
<1>1. CASE Prime
  <2>1. [list |-> version, fresh |-> TRUE] \in Stored
    BY DEF Stored
  <2>2. cache' \in Stored
    BY <1>1, <2>1 DEF Prime, StoreCoverage, Stored
  <2> QED BY <1>1, <2>2 DEF Prime, Stored
<1>2. ASSUME NEW c \in Callers, NEW r \in Retailers \cup {Demo}, NEW k \in Keys, Supports(c, r, k)
      PROVE  TypeOK'
  <2>1. \A pc \in {"swap", "covered", "uncovered"}, key \in Keys \cup {None} :
           [pc |-> pc, key |-> key] \in Places
    BY DEF Places
  <2>2. \E x \in Places : Become(c, x)
    BY <1>2, <2>1 DEF Supports, Answered
  <2>3. caller' \in [Callers -> Places]
    BY <2>2, BecomeTypes
  <2> QED BY <1>2, <2>3 DEF Supports, coverage, Places
<1>3. ASSUME NEW c \in Callers, NEW t \in Tasks, SpawnRefresh(c, t) PROVE TypeOK'
  <2>1. caller[c] \in Places /\ task[t] \in Lookups
    BY DEF Places, Lookups
  <2>2. [caller[c] EXCEPT !.pc = Answered(caller[c].key # None)] \in Places
    BY <2>1 DEF Places, Answered
  <2>3. caller' \in [Callers -> Places]
    BY <1>3, <2>2, BecomeTypes DEF SpawnRefresh
  <2>4. task' \in [Tasks -> Lookups]
    BY <1>3 DEF SpawnRefresh, Spawn, Lookups
  <2> QED BY <1>3, <2>3, <2>4 DEF SpawnRefresh, Places, Lookups
<1>4. ASSUME NEW c \in Callers,
             Uncovered(c) \/ Checkout(c) \/ Unreachable(c) \/ TimesOut(c) \/ Receive(c)
      PROVE  TypeOK'
  <2>1. CASE Uncovered(c)
    BY <2>1 DEF Uncovered, Become, Idle, coverage
  <2>2. CASE Checkout(c)
    <3>1. caller[c] \in Places /\ Idle \in Places
      BY DEF Places, Idle
    <3>2. [caller[c] EXCEPT !.pc = "sent"] \in Places
      BY <3>1 DEF Places
    <3>3. caller' \in [Callers -> Places]
      BY <2>2, <3>1, <3>2, BecomeTypes DEF Checkout
    <3>4. request' \in [Keys -> [effect : {"none", "sent", "bought", "open", "nothing"},
                                 reply : Replies \cup {None}]]
      BY <2>2 DEF Checkout
    <3> QED BY <2>2, <3>3, <3>4 DEF Checkout, coverage, Places
  <2>3. CASE Unreachable(c)
    BY <2>3 DEF Unreachable, Return, Become, Idle, Outcomes, coverage
  <2>4. CASE TimesOut(c)
    BY <2>4 DEF TimesOut, Return, Become, Idle, Outcomes, coverage
  <2>5. CASE Receive(c)
    <3>1. \A reply : OutcomeOf(reply) \in Outcomes
      BY DEF OutcomeOf, Outcomes
    <3> QED BY <2>5, <3>1 DEF Receive, Return, Become, Idle, coverage
  <2> QED BY <1>4, <2>1, <2>2, <2>3, <2>4, <2>5
<1>5. ASSUME NEW t \in Tasks, Refresh(t) PROVE TypeOK'
  <2>1. CASE FetchSucceeds(t)
    BY <2>1 DEF FetchSucceeds
  <2>2. CASE FetchFails(t)
    BY <2>2 DEF FetchFails
  <2>3. CASE Store(t)
    BY <2>3 DEF Store, StoreCoverage
  <2>4. CASE Clear(t)
    <3>1. NoTask \in Lookups
      BY DEF NoTask, Lookups
    <3>2. task' \in [Tasks -> Lookups]
      BY <2>4, <3>1 DEF Clear, Lookups
    <3> QED BY <2>4, <3>2 DEF Clear, Lookups
  <2> QED BY <1>5, <2>1, <2>2, <2>3, <2>4 DEF Refresh
<1>6. ASSUME NEW k \in Keys, Serve(k) \/ Resolve(k) \/ FindOrder(k) PROVE TypeOK'
  <2>1. CASE Serve(k)
    <3>1. \A reply : Effects(reply) \subseteq {"bought", "open", "nothing"}
      BY DEF Effects
    <3> QED BY <2>1, <3>1 DEF Serve, coverage
  <2>2. CASE Resolve(k)
    BY <2>2 DEF Resolve, coverage
  <2>3. CASE FindOrder(k)
    BY <2>3 DEF FindOrder, Outcomes, coverage
  <2> QED BY <1>6, <2>1, <2>2, <2>3
<1>7. CASE GoesStale
  BY <1>7 DEF GoesStale
<1>8. CASE CoverageChanges
  BY <1>8 DEF CoverageChanges
<1>9. CASE UNCHANGED vars
  BY <1>9 DEF vars, coverage
<1> QED BY <1>1, <1>2, <1>3, <1>4, <1>5, <1>6, <1>7, <1>8, <1>9 DEF Next

-----------------------------------------------------------------------------
(* The list *)

RefreshInv == Booting /\ OneRefresh /\ InOrder

\* Steps of callers and requests leave the list alone.
LEMMA ListUntouched ==
    ASSUME IInv, UNCHANGED coverage, ~booted => UNCHANGED caller
    PROVE  RefreshInv' /\ cache'.list >= cache.list
  BY ListsFacts DEF IInv, TypeOK, RefreshInv, Booting, OneRefresh, InOrder, coverage

\* A refresh keeps the order of the lists, and the flag until it is done.
LEMMA RefreshStep ==
    ASSUME IInv, NEW t \in Tasks, Refresh(t)
    PROVE  RefreshInv' /\ cache'.list >= cache.list
<1> USE ListsFacts DEF IInv, TypeOK, RefreshInv, Booting, OneRefresh, InOrder
<1>1. CASE FetchSucceeds(t)
  BY <1>1 DEF FetchSucceeds
<1>2. CASE FetchFails(t)
  BY <1>2 DEF FetchFails
<1>3. CASE Store(t)
  BY <1>3 DEF Store, StoreCoverage
<1>4. CASE Clear(t)
  BY <1>4 DEF Clear, NoTask
<1> QED BY <1>1, <1>2, <1>3, <1>4 DEF Refresh

LEMMA ListStep == IInv /\ [Next]_vars => RefreshInv' /\ cache'.list >= cache.list
<1> SUFFICES ASSUME IInv, [Next]_vars PROVE RefreshInv' /\ cache'.list >= cache.list
  OBVIOUS
<1>1. CASE Prime
  BY <1>1, ListsFacts
  DEF Prime, StoreCoverage, IInv, TypeOK, RefreshInv, Booting, OneRefresh, InOrder
<1>2. ASSUME NEW c \in Callers, NEW r \in Retailers \cup {Demo}, NEW k \in Keys, Supports(c, r, k)
      PROVE  RefreshInv' /\ cache'.list >= cache.list
  BY <1>2, ListUntouched DEF Supports
<1>3. ASSUME NEW c \in Callers, NEW t \in Tasks, SpawnRefresh(c, t)
      PROVE  RefreshInv' /\ cache'.list >= cache.list
  <2>1. booted
    BY <1>3 DEF SpawnRefresh, At, IInv, Booting
  <2>2. UNCHANGED <<version, cache, booted>> /\ refreshing' /\ Spawn(t)
    BY <1>3 DEF SpawnRefresh
  <2>3. OneRefresh' /\ InOrder'
    BY <2>2 DEF Spawn, IInv, TypeOK, OneRefresh, InOrder
  <2> QED BY <2>1, <2>2, <2>3, ListsFacts DEF RefreshInv, Booting, IInv, TypeOK
<1>4. ASSUME NEW c \in Callers,
             Uncovered(c) \/ Checkout(c) \/ Unreachable(c) \/ TimesOut(c) \/ Receive(c)
      PROVE  RefreshInv' /\ cache'.list >= cache.list
  <2>1. UNCHANGED coverage /\ caller[c].pc # "idle"
    BY <1>4 DEF Uncovered, Checkout, Unreachable, TimesOut, Receive, At
  <2> QED BY <2>1, ListUntouched DEF IInv, Booting
<1>5. ASSUME NEW t \in Tasks, Refresh(t) PROVE RefreshInv' /\ cache'.list >= cache.list
  BY <1>5, RefreshStep
<1>6. ASSUME NEW k \in Keys, Serve(k) \/ Resolve(k) \/ FindOrder(k)
      PROVE  RefreshInv' /\ cache'.list >= cache.list
  BY <1>6, ListUntouched DEF Serve, Resolve, FindOrder
<1>7. CASE GoesStale
  BY <1>7, ListsFacts DEF GoesStale, IInv, TypeOK, RefreshInv, Booting, OneRefresh, InOrder
<1>8. CASE CoverageChanges
  BY <1>8, ListsFacts DEF CoverageChanges, IInv, TypeOK, RefreshInv, Booting, OneRefresh, InOrder
<1>9. CASE UNCHANGED vars
  BY <1>9, ListUntouched DEF vars
<1> QED BY <1>1, <1>2, <1>3, <1>4, <1>5, <1>6, <1>7, <1>8, <1>9 DEF Next

-----------------------------------------------------------------------------
(* Checkouts and their answers *)

CheckoutInv == Keyed /\ Honest /\ CertaintyIsEarned

\* A step of the list, or of a caller on its way to a checkout.
LEMMA NothingBought ==
    ASSUME IInv, UNCHANGED <<request, outcome>>,
           \A c \in Callers : caller'[c].pc \in {"covered", "sent"} => caller'[c].key \in Keys
    PROVE  CheckoutInv'
  BY DEF IInv, CheckoutInv, Keyed, Honest, CertaintyIsEarned

\* A caller that returns an outcome the request bears out.
LEMMA ReturnStep ==
    ASSUME IInv, NEW c \in Callers, NEW o, At(c, "sent"), Return(c, o), UNCHANGED request,
           LET q == request[caller[c].key] IN
             /\ o = "confirmed" => q.effect = "bought"
             /\ o \in {"payment_required", "declined", "unavailable"} => q.effect = "nothing"
    PROVE  CheckoutInv'
<1>1. caller[c].key \in Keys
  BY DEF At, IInv, Keyed
<1>2. Keyed'
  BY DEF Return, Become, Idle, IInv, TypeOK, Keyed
<1>3. CertaintyIsEarned'
  BY <1>1 DEF Return, IInv, TypeOK, CertaintyIsEarned
<1> QED BY <1>2, <1>3 DEF IInv, CheckoutInv, Honest

LEMMA CallerStep ==
    ASSUME IInv, NEW c \in Callers,
           Uncovered(c) \/ Checkout(c) \/ Unreachable(c) \/ TimesOut(c) \/ Receive(c)
    PROVE  CheckoutInv'
<1>1. CASE Uncovered(c)
  <2>1. Keyed'
    BY <1>1 DEF Uncovered, Become, Idle, IInv, TypeOK, Keyed
  <2> QED BY <1>1, <2>1, NothingBought DEF Uncovered, Keyed
<1>2. CASE Checkout(c)
  <2>1. caller[c].key \in Keys
    BY <1>2 DEF Checkout, At, IInv, Keyed
  <2>2. Keyed'
    BY <1>2, <2>1 DEF Checkout, Become, At, Idle, IInv, TypeOK, Keyed
  <2>3. CASE UNCHANGED request
    BY <1>2, <2>2, <2>3, NothingBought DEF Checkout, Keyed
  <2>4. CASE /\ request[caller[c].key].effect = "none"
             /\ request' = [request EXCEPT ![caller[c].key].effect = "sent"]
    <3>1. Honest'
      BY <2>1, <2>4 DEF IInv, TypeOK, Honest, Replies
    <3>2. CertaintyIsEarned'
      BY <1>2, <2>1, <2>4 DEF Checkout, IInv, TypeOK, CertaintyIsEarned
    <3> QED BY <2>2, <3>1, <3>2 DEF CheckoutInv
  <2> QED BY <1>2, <2>3, <2>4 DEF Checkout
<1>3. CASE Unreachable(c)
  <2>1. caller[c].key \in Keys
    BY <1>3 DEF Unreachable, At, IInv, Keyed
  <2>2. Keyed'
    BY <1>3 DEF Unreachable, Return, Become, Idle, IInv, TypeOK, Keyed
  <2>3. request[caller[c].key].effect = "sent"
        /\ request' = [request EXCEPT ![caller[c].key].effect = "nothing"]
    BY <1>3 DEF Unreachable
  <2>4. Honest'
    BY <2>1, <2>3 DEF IInv, TypeOK, Honest, Replies
  <2>5. CertaintyIsEarned'
    BY <1>3, <2>1, <2>3 DEF Unreachable, Return, IInv, TypeOK, CertaintyIsEarned
  <2> QED BY <2>2, <2>4, <2>5 DEF CheckoutInv
<1>4. CASE TimesOut(c)
  BY <1>4, ReturnStep DEF TimesOut
<1>5. CASE Receive(c)
  <2> DEFINE q == request[caller[c].key]
  <2>1. caller[c].key \in Keys
    BY <1>5 DEF Receive, At, IInv, Keyed
  <2>2. /\ OutcomeOf(q.reply) = "confirmed" => q.effect = "bought"
        /\ OutcomeOf(q.reply) \in {"payment_required", "declined", "unavailable"} =>
              q.effect = "nothing"
    BY <2>1 DEF OutcomeOf, IInv, Honest
  <2> QED BY <1>5, <2>2, ReturnStep DEF Receive
<1> QED BY <1>1, <1>2, <1>3, <1>4, <1>5

LEMMA ServiceStep ==
    ASSUME IInv, NEW k \in Keys, Serve(k) \/ Resolve(k) \/ FindOrder(k)
    PROVE  CheckoutInv'
<1>1. Keyed'
  BY DEF Serve, Resolve, FindOrder, IInv, Keyed
<1>2. CASE Serve(k)
  <2>1. PICK reply \in Replies : \E effect \in Effects(reply) :
           request' = [request EXCEPT ![k] = [effect |-> effect, reply |-> reply]]
    BY <1>2 DEF Serve
  <2>. PICK effect \in Effects(reply) :
           request' = [request EXCEPT ![k] = [effect |-> effect, reply |-> reply]]
    BY <2>1
  <2>2. /\ effect \in {"bought", "open", "nothing"}
        /\ reply = "PURCHASED" => effect = "bought"
        /\ reply \in {"DECLINED", "FAILED", "NEEDS_ATTENTION", "refused"} => effect = "nothing"
    BY DEF Effects
  <2>3. Honest'
    BY <2>2 DEF IInv, TypeOK, Honest
  <2>4. CertaintyIsEarned'
    BY <1>2 DEF Serve, IInv, TypeOK, CertaintyIsEarned
  <2> QED BY <1>1, <2>3, <2>4 DEF CheckoutInv
<1>3. CASE Resolve(k)
  <2>1. Honest'
    BY <1>3 DEF Resolve, IInv, TypeOK, Honest
  <2>2. CertaintyIsEarned'
    BY <1>3 DEF Resolve, IInv, TypeOK, CertaintyIsEarned
  <2> QED BY <1>1, <2>1, <2>2 DEF CheckoutInv
<1>4. CASE FindOrder(k)
  BY <1>1, <1>4 DEF FindOrder, IInv, TypeOK, CheckoutInv, Honest, CertaintyIsEarned
<1> QED BY <1>2, <1>3, <1>4

LEMMA CheckoutStep == IInv /\ [Next]_vars => CheckoutInv'
<1> SUFFICES ASSUME IInv, [Next]_vars PROVE CheckoutInv'
  OBVIOUS
<1>1. CASE UNCHANGED <<caller, request, outcome>>
  BY <1>1, NothingBought DEF IInv, Keyed
<1>2. ASSUME NEW c \in Callers, NEW r \in Retailers \cup {Demo}, NEW k \in Keys, Supports(c, r, k)
      PROVE  CheckoutInv'
  <2>1. \E key : \E pc \in {"swap", "covered", "uncovered"} :
           /\ Become(c, [pc |-> pc, key |-> key])
           /\ pc = "covered" => key \in Keys
    BY <1>2 DEF Supports, Answered
  <2>2. Keyed'
    BY <2>1 DEF Become, IInv, TypeOK, Keyed
  <2> QED BY <1>2, <2>2, NothingBought DEF Supports, Keyed
<1>3. ASSUME NEW c \in Callers, NEW t \in Tasks, SpawnRefresh(c, t) PROVE CheckoutInv'
  <2>1. Keyed'
    BY <1>3 DEF SpawnRefresh, Become, Answered, IInv, TypeOK, Keyed
  <2> QED BY <1>3, <2>1, NothingBought DEF SpawnRefresh, Keyed
<1>4. ASSUME NEW c \in Callers,
             Uncovered(c) \/ Checkout(c) \/ Unreachable(c) \/ TimesOut(c) \/ Receive(c)
      PROVE  CheckoutInv'
  BY <1>4, CallerStep
<1>5. ASSUME NEW k \in Keys, Serve(k) \/ Resolve(k) \/ FindOrder(k) PROVE CheckoutInv'
  BY <1>5, ServiceStep
<1>6. ASSUME NEW t \in Tasks, Refresh(t) PROVE UNCHANGED <<caller, request, outcome>>
  BY <1>6 DEF Refresh, FetchSucceeds, FetchFails, Store, Clear
<1>7. Prime \/ GoesStale \/ CoverageChanges \/ UNCHANGED vars => UNCHANGED <<caller, request, outcome>>
  BY DEF Prime, GoesStale, CoverageChanges, vars
<1> QED BY <1>1, <1>2, <1>3, <1>4, <1>5, <1>6, <1>7 DEF Next

-----------------------------------------------------------------------------
(* The theorems *)

LEMMA IInvStep == IInv /\ [Next]_vars => IInv'
  BY TypeStep, ListStep, CheckoutStep DEF IInv, RefreshInv, CheckoutInv

LEMMA IInvInvariant == Spec => []IInv
  BY InitIInv, IInvStep, PTL DEF Spec

\* Cache, flag, refreshes, callers, requests and outcomes keep their types.
THEOREM TypeCorrect == Spec => []TypeOK
<1>1. IInv => TypeOK
  BY DEF IInv
<1> QED BY <1>1, IInvInvariant, PTL

\* What checkout or find_order said for certain of an order is so, and stays so.
THEOREM EarnedCertainty == Spec => []CertaintyIsEarned
<1>1. IInv => CertaintyIsEarned
  BY DEF IInv
<1> QED BY <1>1, IInvInvariant, PTL

\* No refresh of the coverage list puts an older list in place of a newer one.
THEOREM ListsInOrder == Spec => NeverGoesBack
<1>1. IInv /\ [Next]_vars => [cache'.list >= cache.list]_vars
  BY ListStep
<1> QED BY <1>1, IInvInvariant, PTL DEF Spec, NeverGoesBack

=============================================================================
