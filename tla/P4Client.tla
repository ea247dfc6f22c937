------------------------------ MODULE P4Client ------------------------------
(***************************************************************************)
(* The client of the money service in the backend: the list of retailers   *)
(* it can buy from, cached behind a synchronous supports and refreshed in  *)
(* the background, and what a checkout and its answer are taken for.       *)
(*                                                                         *)
(* Worker and handlers run on several threads and share the cache and the  *)
(* flag refreshing; a caller stands between two of its accesses or awaits  *)
(* (pc).  The service's list changes now and then.  A request may never    *)
(* leave, be served after its client has given up, or be answered with     *)
(* something the client cannot read.                                       *)
(***************************************************************************)
EXTENDS Naturals, Sequences

CONSTANTS
    Callers,
    Tasks,          \* refreshes under way at one time
    Keys,           \* idempotency keys; the engine checks out once under each
    Retailers,
    Lists,          \* the lists of GET /coverage, in the course of time
    DemoFallback,   \* P4_DEMO_FALLBACK
    Demo,           \* the retailer "demo"
    None

\* A body with status PURCHASED that says what was bought, or does not; the other
\* statuses; a body nobody can read; a non-2xx.
Replies == {"PURCHASED", "nameless", "DECLINED", "FAILED", "NEEDS_ATTENTION", "UNKNOWN",
            "garbled", "refused"}
Outcomes == {"confirmed", "payment_required", "declined", "unknown", "unavailable"}

ASSUME P4ClientAssumption ==
    /\ None \notin Keys \cup Replies \cup Outcomes /\ Demo \notin Retailers
    /\ Lists \in Seq(SUBSET Retailers) /\ Lists # << >>
    /\ DemoFallback \in BOOLEAN

VARIABLES
    version,    \* the service: the list it has now
    cache,      \* CoverageCache: the list stored, 0 for none yet; fetched within the TTL
    refreshing, \* the flag
    task,       \* the refreshes spawned, and the list each was answered
    booted,     \* prime has returned
    caller,     \* where each caller stands, and its locals
    request,    \* the service: the request under a key
    outcome     \* what checkout returned for a key

coverage == <<version, cache, refreshing, task, booted>>
vars == <<coverage, caller, request, outcome>>

NoTask == [pc |-> "idle", got |-> 0]
Idle == [pc |-> "idle", key |-> None]

TypeOK ==
    /\ version \in 1 .. Len(Lists)
    /\ cache \in [list : 0 .. Len(Lists), fresh : BOOLEAN]
    /\ refreshing \in BOOLEAN /\ booted \in BOOLEAN
    /\ task \in [Tasks -> [pc : {"idle", "fetch", "store", "clear"}, got : 0 .. Len(Lists)]]
    /\ caller \in [Callers -> [pc : {"idle", "swap", "uncovered", "covered", "sent"},
                               key : Keys \cup {None}]]
    /\ request \in [Keys -> [effect : {"none", "sent", "bought", "open", "nothing"},
                             reply : Replies \cup {None}]]
    /\ outcome \in [Keys -> Outcomes \cup {None}]

Init ==
    /\ version = 1
    /\ cache = [list |-> 0, fresh |-> FALSE]
    /\ refreshing = FALSE /\ booted = FALSE
    /\ task = [t \in Tasks |-> NoTask]
    /\ caller = [c \in Callers |-> Idle]
    /\ request = [k \in Keys |-> [effect |-> "none", reply |-> None]]
    /\ outcome = [k \in Keys |-> None]

-----------------------------------------------------------------------------
(* The list of retailers *)

Covered == IF cache.list = 0 THEN {} ELSE Lists[cache.list]

StoreCoverage(list) == cache' = [list |-> list, fresh |-> TRUE]

\* The server serves after prime, whether or not the service answered.
Prime ==
    /\ ~booted
    /\ booted' = TRUE
    /\ StoreCoverage(version) \/ UNCHANGED cache
    /\ UNCHANGED <<version, refreshing, task, caller, request, outcome>>

Answered(offered) == IF offered THEN "covered" ELSE "uncovered"

Become(c, x) == caller' = [caller EXCEPT ![c] = x]
At(c, pc) == caller[c].pc = pc

\* supports, under the read lock.  A caller that finds the list stale takes its
\* answer from it all the same, on the way past the flag.
Supports(c, r, k) ==
    /\ booted /\ At(c, "idle")
    /\ IF r = Demo /\ DemoFallback
       THEN Become(c, [pc |-> "covered", key |-> k])
       ELSE \E pc \in IF cache.fresh THEN {Answered(r \in Covered)} ELSE {"swap"} :
              Become(c, [pc |-> pc, key |-> IF r \in Covered THEN k ELSE None])
    /\ UNCHANGED <<coverage, request, outcome>>

\* Slip: the flag is read after the spawn.
SpawnAlways(t) == task' = [task EXCEPT ![t].pc = "fetch"]

\* One refresh at a time.
Spawn(t) == task' = IF refreshing THEN task ELSE [task EXCEPT ![t].pc = "fetch"]

SpawnRefresh(c, t) ==
    /\ At(c, "swap") /\ task[t].pc = "idle"
    /\ Spawn(t)
    /\ refreshing' = TRUE
    /\ Become(c, [caller[c] EXCEPT !.pc = Answered(caller[c].key # None)])
    /\ UNCHANGED <<version, cache, booted, request, outcome>>

Uncovered(c) ==
    /\ At(c, "uncovered")
    /\ Become(c, Idle)
    /\ UNCHANGED <<coverage, request, outcome>>

FetchSucceeds(t) ==
    /\ task[t].pc = "fetch"
    /\ task' = [task EXCEPT ![t] = [pc |-> "store", got |-> version]]
    /\ UNCHANGED <<version, cache, refreshing, booted, caller, request, outcome>>

\* Slip: an error returns before the flag is cleared.
FetchFailsEarly(t) ==
    /\ task[t].pc = "fetch"
    /\ task' = [task EXCEPT ![t] = NoTask]
    /\ UNCHANGED <<version, cache, refreshing, booted, caller, request, outcome>>

FetchFails(t) ==
    /\ task[t].pc = "fetch"
    /\ task' = [task EXCEPT ![t].pc = "clear"]
    /\ UNCHANGED <<version, cache, refreshing, booted, caller, request, outcome>>

Store(t) ==
    /\ task[t].pc = "store"
    /\ StoreCoverage(task[t].got)
    /\ task' = [task EXCEPT ![t].pc = "clear"]
    /\ UNCHANGED <<version, refreshing, booted, caller, request, outcome>>

Clear(t) ==
    /\ task[t].pc = "clear"
    /\ refreshing' = FALSE
    /\ task' = [task EXCEPT ![t] = NoTask]
    /\ UNCHANGED <<version, cache, booted, caller, request, outcome>>

\* COVERAGE_TTL after it was fetched, the list is stale.
GoesStale ==
    /\ cache.fresh
    /\ cache' = [cache EXCEPT !.fresh = FALSE]
    /\ UNCHANGED <<version, refreshing, task, booted, caller, request, outcome>>

CoverageChanges ==
    /\ version < Len(Lists)
    /\ version' = version + 1
    /\ UNCHANGED <<cache, refreshing, task, booted, caller, request, outcome>>

-----------------------------------------------------------------------------
(* checkout and find_order *)

Return(c, o) ==
    /\ outcome' = [outcome EXCEPT ![caller[c].key] = o]
    /\ Become(c, Idle)

\* The engine claimed the key before it gets here.
Checkout(c) ==
    /\ At(c, "covered")
    /\ IF request[caller[c].key].effect # "none"
       THEN Become(c, Idle) /\ UNCHANGED request
       ELSE /\ Become(c, [caller[c] EXCEPT !.pc = "sent"])
            /\ request' = [request EXCEPT ![caller[c].key].effect = "sent"]
    /\ UNCHANGED <<coverage, outcome>>

\* "Never reached P4": no connection, nothing sent.
Unreachable(c) ==
    /\ At(c, "sent") /\ request[caller[c].key].effect = "sent"
    /\ request' = [request EXCEPT ![caller[c].key].effect = "nothing"]
    /\ Return(c, "unavailable")
    /\ UNCHANGED coverage

\* The service, for what it says itself of its effects (module Money): an order
\* that is open is settled later, behind the answer.
Effects(reply) ==
    CASE reply \in {"PURCHASED", "nameless"} -> {"bought"}
      [] reply = "UNKNOWN" -> {"open"}
      [] reply = "garbled" -> {"bought", "open", "nothing"}
      [] OTHER -> {"nothing"}

Serve(k) ==
    /\ request[k].effect = "sent"
    /\ \E reply \in Replies : \E effect \in Effects(reply) :
         request' = [request EXCEPT ![k] = [effect |-> effect, reply |-> reply]]
    /\ UNCHANGED <<coverage, caller, outcome>>

Resolve(k) ==
    /\ request[k].effect = "open"
    /\ \E effect \in {"bought", "nothing"} :
         request' = [request EXCEPT ![k].effect = effect]
    /\ UNCHANGED <<coverage, caller, outcome>>

\* Slip: every transport error is taken for a service that was not reached.
TimesOutUnavailable(c) ==
    /\ At(c, "sent")
    /\ Return(c, "unavailable")
    /\ UNCHANGED <<coverage, request>>

\* The client gives up, or the answer breaks off; the service may not even have
\* begun.
TimesOut(c) ==
    /\ At(c, "sent")
    /\ Return(c, "unknown")
    /\ UNCHANGED <<coverage, request>>

\* Slip: a status nobody expects is handed on as it is.
OutcomeOfVerbatim(reply) == IF reply = "PURCHASED" THEN "confirmed" ELSE reply

\* into_result, and what checkout makes of a body or a status it cannot use.
OutcomeOf(reply) ==
    CASE reply = "PURCHASED" -> "confirmed"
      [] reply = "NEEDS_ATTENTION" -> "payment_required"
      [] reply \in {"DECLINED", "FAILED"} -> "declined"
      [] reply = "refused" -> "unavailable"
      [] OTHER -> "unknown"

Receive(c) ==
    /\ At(c, "sent") /\ request[caller[c].key].reply # None
    /\ Return(c, OutcomeOf(request[caller[c].key].reply))
    /\ UNCHANGED <<coverage, request>>

\* find_order for an unknown result: 200 with a body that names the order.  202,
\* 404, and a body that does not, leave it unknown; so does an error.
FindOrder(k) ==
    /\ outcome[k] = "unknown"
    /\ request[k].effect = "bought" /\ request[k].reply # "nameless"
    /\ outcome' = [outcome EXCEPT ![k] = "confirmed"]
    /\ UNCHANGED <<coverage, caller, request>>

-----------------------------------------------------------------------------
Refresh(t) == FetchSucceeds(t) \/ FetchFails(t) \/ Store(t) \/ Clear(t)

Next ==
    \/ Prime
    \/ \E c \in Callers, r \in Retailers \cup {Demo}, k \in Keys : Supports(c, r, k)
    \/ \E c \in Callers, t \in Tasks : SpawnRefresh(c, t)
    \/ \E c \in Callers :
         Uncovered(c) \/ Checkout(c) \/ Unreachable(c) \/ TimesOut(c) \/ Receive(c)
    \/ \E t \in Tasks : Refresh(t)
    \/ \E k \in Keys : Serve(k) \/ Resolve(k) \/ FindOrder(k)
    \/ GoesStale
    \/ CoverageChanges

Spec == Init /\ [][Next]_vars

\* Threads and tasks run; offers of other retailers than the demo keep coming; a
\* list ages; and not every fetch fails.
Asks(c) == \E r \in Retailers, k \in Keys : Supports(c, r, k)

Resumes(c) ==
    (\E t \in Tasks : SpawnRefresh(c, t)) \/ Uncovered(c) \/ Checkout(c) \/ TimesOut(c)

Fairness ==
    /\ WF_vars(Prime) /\ WF_vars(GoesStale)
    /\ SF_vars(\E c \in Callers : Asks(c))
    /\ \A c \in Callers : WF_vars(Resumes(c))
    /\ \A t \in Tasks : WF_vars(Refresh(t)) /\ SF_vars(FetchSucceeds(t))

FairSpec == Spec /\ Fairness

-----------------------------------------------------------------------------
\* The list the callers are answered from is never replaced by an older one: no
\* refresh overtakes another.
NeverGoesBack == [][cache'.list >= cache.list]_vars

\* A list that has stopped changing is the one the client ends up with: neither a
\* service that was down at boot nor a refresh that failed keeps supports at what
\* it knew.
CoverageCatchesUp == <>[](cache.list = version)

\* What checkout says for certain is so, and stays so: bought when confirmed, and
\* when refused, declined or not reached, neither bought nor under way, nor served
\* once the client has turned away.
CertaintyIsEarned ==
    \A k \in Keys :
      /\ outcome[k] = "confirmed" => request[k].effect = "bought"
      /\ outcome[k] \in {"payment_required", "declined", "unavailable"} =>
           request[k].effect = "nothing"
=============================================================================
