--------------------------- MODULE BuyAgentProofs ---------------------------
(***************************************************************************)
(* The safety theorems of BuyAgent, for all values of its constants.       *)
(*                                                                         *)
(* None of the properties is inductive.  What makes one checkout the       *)
(* limit is a chain: the key is never freed, so a monitor has at most one  *)
(* attempt; the attempt is "started" exactly while the monitor is          *)
(* executing; whoever stands between claim and outcome does so for an      *)
(* executing monitor, alone; and one that has yet to call checkout stands  *)
(* for a monitor with no call yet.  EngineInv says all of it.              *)
(***************************************************************************)
EXTENDS BuyAgentTypes

\* The tables of a monitor agree with each other.
Books ==
    \A m \in Monitors :
        /\ attempts[m] \in {<< >>, <<"started">>, <<"succeeded">>, <<"failed">>}
        /\ status[m] = "executing" <=> attempts[m] = <<"started">>
        /\ status[m] = "purchased" <=> attempts[m] = <<"succeeded">>
        /\ status[m] = "purchased" <=> orders[m] # << >>
        /\ m \in jobs <=> status[m] # "absent" /\ ~IsTerminal(status[m])

\* No call before an attempt, and at most one.
Counted == \A m \in Monitors : calls[m] \in {0, 1} /\ (attempts[m] = << >> => calls[m] = 0)

\* A process between claim and outcome holds the attempt of an executing
\* monitor, not yet used before checkout.
Owned ==
    \A p \in Processes :
        proc[p].pc \in Busy =>
            /\ status[proc[p].mon] = "executing"
            /\ proc[p].attempt = 1
            /\ proc[p].pc \in {"revalidate", "checkout"} => calls[proc[p].mon] = 0

Alone ==
    \A p, q \in Processes :
        proc[p].pc \in Busy /\ proc[q].pc \in Busy /\ proc[q].mon = proc[p].mon => p = q

EngineInv == Books /\ Counted /\ Owned /\ Alone

IInv == TypeInv /\ EngineInv

LEMMA InitEngineInv == Init => EngineInv
  BY DEF Init, StoreInit, EngineInv, Books, Counted, Owned, Alone, Idle, Busy, IsTerminal

\* A session that stays in the execution keeps its monitor and its attempt, and
\* does not go back before checkout.
Continues(p) ==
    proc'[p].pc \in Busy =>
        /\ proc[p].pc \in Busy
        /\ proc'[p].mon = proc[p].mon
        /\ proc'[p].attempt = proc[p].attempt
        /\ proc'[p].pc \in {"revalidate", "checkout"} => proc[p].pc \in {"revalidate", "checkout"}

\* A step that touches neither the tables of the engine nor its calls, and
\* brings no process into an execution.
LEMMA QuietStep ==
    ASSUME EngineInv, UNCHANGED <<status, attempts, orders, jobs, calls>>,
           \A p \in Processes : Continues(p)
    PROVE  EngineInv'
<1>1. Books' /\ Counted'
  BY DEF EngineInv, Books, Counted
<1>2. Owned'
  BY DEF EngineInv, Owned, Continues
<1>3. Alone'
  BY DEF EngineInv, Alone, Continues
<1> QED BY <1>1, <1>2, <1>3 DEF EngineInv

\* A step that moves monitors among the statuses without an open attempt.
LEMMA WatchingStep ==
    ASSUME EngineInv, UNCHANGED <<attempts, orders, calls>>,
           \A p \in Processes : Continues(p),
           \A m \in Monitors :
              /\ status'[m] # status[m] =>
                    {status[m], status'[m]} \cap {"executing", "purchased"} = {}
              /\ m \in jobs' <=> status'[m] # "absent" /\ ~IsTerminal(status'[m]),
           TypeInv
    PROVE  EngineInv'
<1>1. Books'
  BY DEF EngineInv, Books
<1>2. Counted'
  BY DEF EngineInv, Counted
<1>3. Owned'
  <2>1. \A p \in Processes : proc[p].pc \in Busy => proc[p].mon \in Monitors
    BY DEF TypeInv, Sound, Busy
  <2>2. \A m \in Monitors : status[m] = "executing" => status'[m] = "executing"
    OBVIOUS
  <2> QED BY <2>1, <2>2 DEF EngineInv, Owned, Continues
<1>4. Alone'
  BY DEF EngineInv, Alone, Continues
<1> QED BY <1>1, <1>2, <1>3, <1>4 DEF EngineInv

\* Of a step that writes one session, only that session can break Continues.
LEMMA BecomeContinues ==
    ASSUME TypeInv, NEW p \in Processes, NEW t, Become(p, t),
           t.pc \in Busy =>
              /\ proc[p].pc \in Busy
              /\ t.mon = proc[p].mon
              /\ t.attempt = proc[p].attempt
              /\ t.pc \in {"revalidate", "checkout"} => proc[p].pc \in {"revalidate", "checkout"}
    PROVE  \A q \in Processes : Continues(q)
  BY DEF TypeInv, TypeOK, Become, Continues

-----------------------------------------------------------------------------
(* The execution engine. *)

LEMMA AttemptsDiffer ==
    /\ \A x : <<x>> # << >>
    /\ \A x, y : <<x>> = <<y>> => x = y
  OBVIOUS

\* A process that is done with an execution, well or badly.
LEMMA LeavesExecution ==
    ASSUME NEW p,
           \/ ReturnError(p) \/ Finish(p)
           \/ \E todo : ThenRelease(p, todo, "claim") \/ ThenRelease(p, todo, "idle")
    PROVE  \E t : Become(p, t) /\ t.pc \notin Busy
<1>1. ASSUME Finish(p) PROVE \E t : Become(p, t) /\ t.pc \notin Busy
  <2>1. Idle.pc \notin Busy
    BY DEF Idle, Busy
  <2> QED BY <1>1, <2>1 DEF Finish
<1>2. ASSUME Restart(p, "failed") PROVE \E t : Become(p, t) /\ t.pc \notin Busy
  <2>1. [Idle EXCEPT !.pc = "failed", !.mon = proc[p].mon].pc \notin Busy
    BY DEF Idle, Busy
  <2> QED BY <1>2, <2>1 DEF Restart
<1>3. ASSUME NEW todo, NEW next \in {"claim", "idle"}, ThenRelease(p, todo, next)
      PROVE  \E t : Become(p, t) /\ t.pc \notin Busy
  <2>1. /\ [Idle EXCEPT !.pc = "release", !.todo = todo].pc \notin Busy
        /\ [Idle EXCEPT !.pc = next].pc \notin Busy
    BY DEF Idle, Busy
  <2> QED BY <1>3, <2>1 DEF ThenRelease
<1> QED BY <1>1, <1>2, <1>3 DEF ReturnError

LEMMA ClaimKeepsInv ==
    ASSUME TypeInv, EngineInv, NEW p \in Processes, NEW m \in Monitors,
           At(p, "claim_execution"), proc[p].mon = m, UNCHANGED calls, ClaimExecution(m),
           Become(p, [proc[p] EXCEPT !.pc = "revalidate", !.attempt = Len(attempts'[m])])
    PROVE  EngineInv'
<1>1. /\ status[m] \in {"active", "evaluating"} /\ attempts[m] = << >>
      /\ status' = [status EXCEPT ![m] = "executing"]
      /\ attempts' = [attempts EXCEPT ![m] = <<"started">>]
      /\ UNCHANGED <<orders, jobs>>
  BY DEF ClaimExecution, CanClaimExecution, KeyIsFree
<1>2. /\ status'[m] = "executing" /\ attempts'[m] = <<"started">> /\ Len(attempts'[m]) = 1
      /\ \A k \in Monitors \ {m} : status'[k] = status[k] /\ attempts'[k] = attempts[k]
  BY <1>1 DEF TypeInv, TypeOK, StoreTypeOK
<1>3. /\ proc'[p].pc = "revalidate" /\ proc'[p].mon = m /\ proc'[p].attempt = 1
      /\ \A q \in Processes \ {p} : proc'[q] = proc[q]
  BY <1>2 DEF TypeInv, TypeOK, Become, Sessions
<1>4. \A q \in Processes : proc[q].pc \in Busy => proc[q].mon \in Monitors \ {m}
  BY <1>1 DEF TypeInv, Sound, EngineInv, Owned, Busy
<1>5. Books'
  BY <1>1, <1>2 DEF EngineInv, Books, IsTerminal
<1>6. Counted'
  BY <1>1, <1>2 DEF EngineInv, Counted
<1>7. calls[m] = 0
  BY <1>1 DEF EngineInv, Counted
<1>8. Owned'
  BY <1>2, <1>3, <1>4, <1>7 DEF EngineInv, Owned
<1>9. Alone'
  BY <1>3, <1>4 DEF EngineInv, Alone
<1> QED BY <1>5, <1>6, <1>8, <1>9 DEF EngineInv

LEMMA CallKeepsInv ==
    ASSUME TypeInv, EngineInv, NEW p \in Processes, CallCheckout(p)
    PROVE  EngineInv'
<1> DEFINE m == proc[p].mon
<1>1. /\ proc[p].pc = "checkout" /\ calls' = [calls EXCEPT ![m] = @ + 1]
      /\ UNCHANGED <<status, attempts, orders, jobs>>
  BY DEF CallCheckout, At, storeVars
<1>2. PICK a, x : Become(p, [proc[p] EXCEPT !.pc = "answer", !.answer = a, !.total = x])
  BY DEF CallCheckout
<1>3. /\ proc'[p].pc = "answer" /\ proc'[p].mon = m /\ proc'[p].attempt = proc[p].attempt
      /\ \A q \in Processes \ {p} : proc'[q] = proc[q]
  BY <1>2 DEF TypeInv, TypeOK, Become, Sessions
<1>4. m \in Monitors /\ status[m] = "executing" /\ proc[p].attempt = 1 /\ calls[m] = 0
  BY <1>1 DEF TypeInv, Sound, EngineInv, Owned, Busy
<1>5. calls'[m] = 1 /\ \A k \in Monitors \ {m} : calls'[k] = calls[k]
  BY <1>1, <1>4 DEF TypeInv, TypeOK
<1>6. \A q \in Processes \ {p} : proc[q].pc \in Busy => proc[q].mon \in Monitors \ {m}
  BY <1>1 DEF TypeInv, Sound, EngineInv, Alone, Busy
<1>7. Books'
  BY <1>1 DEF EngineInv, Books
<1>8. attempts[m] # << >>
  BY <1>4, AttemptsDiffer DEF EngineInv, Books
<1>9. Counted'
  BY <1>1, <1>5, <1>8 DEF EngineInv, Counted
<1>10. Owned'
  BY <1>1, <1>3, <1>4, <1>5, <1>6 DEF EngineInv, Owned
<1>11. Alone'
  BY <1>3, <1>6 DEF EngineInv, Alone
<1> QED BY <1>7, <1>9, <1>10, <1>11 DEF EngineInv

\* An outcome: the attempt and the monitor it was started for leave the
\* execution together, and so does the process.
LEMMA OutcomeKeepsInv ==
    ASSUME TypeInv, EngineInv, NEW p \in Processes, FinishPurchase(p) \/ AbandonExecution(p)
    PROVE  EngineInv'
<1> DEFINE m == proc[p].mon
<1>1. proc[p].pc \in Busy /\ UNCHANGED calls
  BY DEF FinishPurchase, AbandonExecution, At, Busy, outside
<1>2. /\ m \in Monitors /\ status[m] = "executing" /\ attempts[m] = <<"started">>
      /\ proc[p].attempt = 1 /\ orders[m] = << >> /\ m \in jobs
  BY <1>1 DEF TypeInv, Sound, EngineInv, Owned, Books, Busy, IsTerminal
<1>3. PICK t : Become(p, t) /\ t.pc \notin Busy
  BY LeavesExecution DEF FinishPurchase, AbandonExecution
<1>4. proc'[p].pc \notin Busy /\ \A q \in Processes \ {p} : proc'[q] = proc[q]
  BY <1>3 DEF TypeInv, TypeOK, Become
<1>5. \A q \in Processes \ {p} : proc[q].pc \in Busy => proc[q].mon \in Monitors \ {m}
  BY <1>1 DEF TypeInv, Sound, EngineInv, Alone, Busy
<1>6. \A k \in Monitors \ {m} : /\ status'[k] = status[k] /\ attempts'[k] = attempts[k]
                               /\ orders'[k] = orders[k] /\ (k \in jobs' <=> k \in jobs)
  BY <1>2 DEF FinishPurchase, AbandonExecution, CompleteExecution, FailExecution, DeleteJobs,
              TypeInv, TypeOK, StoreTypeOK
<1>7. \/ /\ status'[m] = "purchased" /\ attempts'[m] = <<"succeeded">>
         /\ orders'[m] # << >> /\ m \notin jobs'
      \/ /\ status'[m] \in {"active", "payment_required"} /\ attempts'[m] = <<"failed">>
         /\ orders'[m] = << >> /\ m \in jobs'
  <2>1. [<<"started">> EXCEPT ![1] = "succeeded"] = <<"succeeded">>
        /\ [<<"started">> EXCEPT ![1] = "failed"] = <<"failed">>
        /\ <<"started">>[1] = "started"
    OBVIOUS
  <2>2. CASE FinishPurchase(p)
    <3>1. CompleteExecution(m, 1, proc[p].total)
      BY <1>2, <2>2 DEF FinishPurchase
    <3>2. attempts'[m] = <<"succeeded">>
      BY <1>2, <2>1, <3>1 DEF CompleteExecution, TypeInv, TypeOK, StoreTypeOK
    <3>3. status'[m] = "purchased" /\ m \notin jobs'
      BY <1>2, <3>1 DEF CompleteExecution, DeleteJobs, TypeInv, TypeOK, StoreTypeOK
    <3>4. orders'[m] = <<proc[p].total>>
      BY <1>2, <3>1 DEF CompleteExecution, TypeInv, TypeOK, StoreTypeOK
    <3>5. <<proc[p].total>> # << >>
      OBVIOUS
    <3> QED BY <3>2, <3>3, <3>4, <3>5
  <2>3. CASE AbandonExecution(p)
    <3>1. FailExecution(m, 1, proc[p].answer = "payment_required")
      BY <1>2, <2>3 DEF AbandonExecution
    <3>2. attempts'[m] = <<"failed">>
      BY <1>2, <2>1, <3>1 DEF FailExecution, TypeInv, TypeOK, StoreTypeOK
    <3>3. status'[m] \in {"active", "payment_required"} /\ orders' = orders /\ jobs' = jobs
      BY <1>2, <3>1 DEF FailExecution, TypeInv, TypeOK, StoreTypeOK
    <3> QED BY <1>2, <3>2, <3>3
  <2> QED BY <2>2, <2>3
<1>8. Books'
  <2> SUFFICES ASSUME NEW k \in Monitors PROVE
        /\ attempts'[k] \in {<< >>, <<"started">>, <<"succeeded">>, <<"failed">>}
        /\ status'[k] = "executing" <=> attempts'[k] = <<"started">>
        /\ status'[k] = "purchased" <=> attempts'[k] = <<"succeeded">>
        /\ status'[k] = "purchased" <=> orders'[k] # << >>
        /\ k \in jobs' <=> status'[k] # "absent" /\ ~IsTerminal(status'[k])
    BY DEF Books
  <2>1. CASE k = m
    BY <1>7, <2>1, AttemptsDiffer DEF IsTerminal
  <2>2. CASE k # m
    BY <1>6, <2>2 DEF EngineInv, Books
  <2> QED BY <2>1, <2>2
<1>9. Counted'
  BY <1>1, <1>6, <1>7 DEF EngineInv, Counted
<1>10. Owned'
  BY <1>1, <1>4, <1>5, <1>6 DEF EngineInv, Owned
<1>11. Alone'
  BY <1>4, <1>5 DEF EngineInv, Alone
<1> QED BY <1>8, <1>9, <1>10, <1>11 DEF EngineInv

LEMMA EngineKeepsInv ==
    ASSUME IInv, NEW p \in Processes, EngineStep(p)
    PROVE  EngineInv'
<1> DEFINE m == proc[p].mon
           s == proc[p]
<1>0. /\ TypeInv /\ EngineInv /\ Sound(s) /\ s \in Sessions
      /\ proc \in [Processes -> Sessions] /\ StoreTypeOK
  BY DEF IInv, TypeInv, TypeOK, Sound
<1>1. ASSUME NEW t, Become(p, t), UNCHANGED storeVars, UNCHANGED calls,
             t.pc \in Busy =>
                /\ s.pc \in Busy
                /\ t.mon = m
                /\ t.attempt = s.attempt
                /\ t.pc \in {"revalidate", "checkout"} => s.pc \in {"revalidate", "checkout"}
      PROVE  EngineInv'
  BY <1>0, <1>1, BecomeContinues, QuietStep DEF storeVars
<1>2. ASSUME ReturnError(p) \/ Finish(p) PROVE \E t : Become(p, t) /\ t.pc \notin Busy
  BY <1>2, LeavesExecution
<1>3. ASSUME NEW pc \in PCs, Goto(p, pc)
      PROVE  \E t : Become(p, t) /\ t.pc = pc /\ t.mon = m /\ t.attempt = s.attempt
  BY <1>0, <1>3 DEF Goto, Sessions
<1>4. CASE FindExistingOrder(p)
  <2>1. Finish(p) \/ Goto(p, "authorize") \/ ReturnError(p)
    BY <1>4 DEF FindExistingOrder, FindOrder
  <2>2. UNCHANGED storeVars /\ UNCHANGED calls
    BY <1>4 DEF FindExistingOrder, outside
  <2> QED BY <2>1, <2>2, <1>1, <1>2, <1>3 DEF PCs, Busy
<1>5. CASE CheckAuthorization(p)
  <2>1. Goto(p, "claim_execution") \/ ReturnError(p)
    BY <1>5 DEF CheckAuthorization
  <2>2. UNCHANGED storeVars /\ UNCHANGED calls
    BY <1>5 DEF CheckAuthorization, outside
  <2> QED BY <2>1, <2>2, <1>1, <1>2, <1>3 DEF PCs, Busy
<1>6. CASE StartExecution(p)
  <2>1. At(p, "claim_execution") /\ UNCHANGED calls
    BY <1>6 DEF StartExecution, outside
  <2>2. m \in Monitors
    BY <2>1, <1>0 DEF At, Sound
  <2>3. CASE ClaimExecution(m) /\ Become(p, [s EXCEPT !.pc = "revalidate", !.attempt = Len(attempts'[m])])
    BY <2>1, <2>2, <2>3, <1>0, ClaimKeepsInv
  <2>4. CASE ReturnError(p) /\ UNCHANGED storeVars
    BY <2>1, <2>4, <1>1, <1>2
  <2> QED BY <1>6, <2>3, <2>4 DEF StartExecution
<1>7. CASE Revalidate(p)
  <2>1. At(p, "revalidate") /\ UNCHANGED storeVars /\ UNCHANGED calls
    BY <1>7 DEF Revalidate, outside
  <2>2. \/ \E o : Become(p, [s EXCEPT !.pc = "checkout", !.offer = o])
        \/ Goto(p, "fail")
    BY <1>7 DEF Revalidate
  <2>3. ASSUME NEW o, Become(p, [s EXCEPT !.pc = "checkout", !.offer = o]) PROVE EngineInv'
    BY <2>1, <2>3, <1>0, <1>1 DEF At, Busy, Sessions
  <2>4. ASSUME Goto(p, "fail") PROVE EngineInv'
    BY <2>1, <2>4, <1>1, <1>3 DEF At, PCs, Busy
  <2> QED BY <2>2, <2>3, <2>4
<1>8. CASE CallCheckout(p)
  BY <1>0, <1>8, CallKeepsInv
<1>9. CASE HandleAnswer(p)
  <2>1. At(p, "answer") /\ UNCHANGED storeVars /\ UNCHANGED calls
    BY <1>9 DEF HandleAnswer, outside
  <2>2. \/ Goto(p, "complete") \/ Goto(p, "fail") \/ ReturnError(p)
        \/ \E t : Become(p, [s EXCEPT !.pc = "complete", !.total = t])
    BY <1>9 DEF HandleAnswer, FindOrder
  <2>3. ASSUME NEW t, Become(p, [s EXCEPT !.pc = "complete", !.total = t]) PROVE EngineInv'
    BY <2>1, <2>3, <1>0, <1>1 DEF At, Busy, Sessions
  <2>4. ASSUME Goto(p, "complete") \/ Goto(p, "fail") PROVE EngineInv'
    BY <2>1, <2>4, <1>1, <1>3 DEF At, PCs, Busy
  <2> QED BY <2>1, <2>2, <2>3, <2>4, <1>1, <1>2
<1>10. CASE FinishPurchase(p) \/ AbandonExecution(p)
  BY <1>0, <1>10, OutcomeKeepsInv
<1>11. ASSUME NEW k \in Monitors, ReleaseNext(p, k) PROVE EngineInv'
  <2>1. ThenRelease(p, s.todo \ {k}, IF p \in Workers THEN "claim" ELSE "idle")
        /\ UNCHANGED storeVars /\ UNCHANGED calls
    BY <1>11 DEF ReleaseNext
  <2>2. \E t : Become(p, t) /\ t.pc \notin Busy
    BY <2>1, LeavesExecution
  <2> QED BY <2>1, <2>2, <1>1
<1> QED BY <1>4, <1>5, <1>6, <1>7, <1>8, <1>9, <1>10, <1>11 DEF EngineStep

-----------------------------------------------------------------------------
(* Everyone else: nobody but the engine enters an execution or ends one. *)

LEMMA WorkerKeepsInv ==
    ASSUME IInv, NEW w \in Workers, WorkerStep(w)
    PROVE  EngineInv'
<1> DEFINE s == proc[w]
<1>0. /\ TypeInv /\ EngineInv /\ Sound(s) /\ s \in Sessions /\ w \in Processes
      /\ proc \in [Processes -> Sessions] /\ StoreTypeOK /\ late \subseteq Monitors
  BY DEF IInv, TypeInv, TypeOK, Sound, Processes
<1>1. ASSUME NEW t, Become(w, t), t.pc \notin Busy, UNCHANGED <<status, attempts, orders, jobs, calls>>
      PROVE  EngineInv'
  BY <1>0, <1>1, BecomeContinues, QuietStep
<1>2. ASSUME Restart(w, "reschedule") \/ Goto(w, "reschedule")
      PROVE  \E t : Become(w, t) /\ t.pc \notin Busy
  <2>1. /\ [Idle EXCEPT !.pc = "reschedule", !.mon = s.mon].pc \notin Busy
        /\ [s EXCEPT !.pc = "reschedule"].pc \notin Busy
    BY <1>0 DEF Idle, Busy, Sessions
  <2> QED BY <1>2, <2>1 DEF Restart, Goto
<1>3. CASE ExpireDue(w)
  <2>1. ExpireDueMonitors(late) /\ ThenRelease(w, Expirable(late), "claim") /\ UNCHANGED calls
    BY <1>3 DEF ExpireDue, outside
  <2>2. \A q \in Processes : Continues(q)
    BY <2>1, <1>0, LeavesExecution, BecomeContinues
  <2>3. \A k \in Monitors :
           /\ k \in Expirable(late) => /\ status'[k] = "expired" /\ k \notin jobs'
                                     /\ status[k] \in {"active", "evaluating", "failed"}
           /\ k \notin Expirable(late) => status'[k] = status[k] /\ (k \in jobs' <=> k \in jobs)
    BY <2>1, <1>0 DEF ExpireDueMonitors, Expirable, DeleteJobs
  <2>4. \A k \in Monitors :
           /\ status'[k] # status[k] =>
                 {status[k], status'[k]} \cap {"executing", "purchased"} = {}
           /\ k \in jobs' <=> status'[k] # "absent" /\ ~IsTerminal(status'[k])
    BY <2>3, <1>0 DEF EngineInv, Books, IsTerminal
  <2>5. UNCHANGED <<attempts, orders, calls>>
    BY <2>1 DEF ExpireDueMonitors
  <2> QED BY <2>2, <2>4, <2>5, <1>0, WatchingStep
<1>4. CASE ClaimNothing(w)
  BY <1>1, <1>4, LeavesExecution DEF ClaimNothing, storeVars, outside
<1>5. ASSUME NEW k \in Monitors, ClaimJob(w, k) PROVE EngineInv'
  <2>1. [Idle EXCEPT !.pc = "check", !.mon = k, !.product = product[k]].pc \notin Busy
    BY DEF Idle, Busy
  <2> QED BY <1>1, <1>5, <2>1 DEF ClaimJob, ClaimDueJob, outside
<1>6. CASE CheckFails(w)
  BY <1>1, <1>2, <1>6 DEF CheckFails, storeVars, outside
<1>7. ASSUME NEW o \in Offers, CheckOffer(w, o) PROVE EngineInv'
  <2>1. /\ [s EXCEPT !.pc = "baseline", !.offer = o].pc \notin Busy
        /\ [s EXCEPT !.pc = "find", !.offer = o].pc \notin Busy
    BY <1>0 DEF Sessions, Busy
  <2>2. \/ Become(w, [s EXCEPT !.pc = "baseline", !.offer = o])
        \/ Become(w, [s EXCEPT !.pc = "find", !.offer = o])
        \/ Restart(w, "reschedule")
    BY <1>7 DEF CheckOffer
  <2> QED BY <1>1, <1>2, <1>7, <2>1, <2>2 DEF CheckOffer, storeVars, outside
<1>8. CASE EstablishBaseline(w)
  BY <1>1, <1>2, <1>8 DEF EstablishBaseline, SetProductIfMissing, outside
<1>9. CASE Reschedule(w)
  BY <1>1, <1>9, LeavesExecution DEF Reschedule, CompleteJob, storeVars, outside
<1>10. CASE AfterFailure(w)
  BY <1>1, <1>2, <1>10, LeavesExecution DEF AfterFailure, storeVars, outside
<1> QED BY <1>3, <1>4, <1>5, <1>6, <1>7, <1>8, <1>9, <1>10 DEF WorkerStep

LEMMA HandlerKeepsInv ==
    ASSUME IInv, NEW h \in Handlers, Request(h) \/ HandlerStep(h)
    PROVE  EngineInv'
<1> DEFINE s == proc[h]
<1>0. /\ TypeInv /\ EngineInv /\ Sound(s) /\ s \in Sessions /\ h \in Processes
      /\ proc \in [Processes -> Sessions] /\ StoreTypeOK
  BY DEF IInv, TypeInv, TypeOK, Sound, Processes
<1>1. ASSUME NEW t, Become(h, t), t.pc \notin Busy, UNCHANGED <<status, attempts, orders, jobs, calls>>
      PROVE  EngineInv'
  BY <1>0, <1>1, BecomeContinues, QuietStep
<1>2. ASSUME NEW k \in Monitors, NEW r, Create(h, k, r) PROVE EngineInv'
  <2>1. /\ status[k] = "absent" /\ status' = [status EXCEPT ![k] = "active"]
        /\ jobs' = jobs \cup {k} /\ UNCHANGED <<attempts, orders, calls, proc>>
    BY <1>2 DEF Create, CreateMonitor, outside
  <2>2. status'[k] = "active" /\ \A j \in Monitors \ {k} : status'[j] = status[j]
    BY <2>1, <1>0 DEF StoreTypeOK
  <2>3. \A j \in Monitors :
           /\ status'[j] # status[j] =>
                 {status[j], status'[j]} \cap {"executing", "purchased"} = {}
           /\ j \in jobs' <=> status'[j] # "absent" /\ ~IsTerminal(status'[j])
    BY <2>1, <2>2, <1>0 DEF EngineInv, Books, IsTerminal
  <2>4. \A q \in Processes : Continues(q)
    BY <2>1 DEF Continues
  <2> QED BY <2>1, <2>3, <2>4, <1>0, WatchingStep
<1>3. ASSUME NEW k \in Monitors, Cancel(h, k) PROVE EngineInv'
  <2>1. /\ status[k] \in {"active", "evaluating", "payment_required", "failed"}
        /\ status' = [status EXCEPT ![k] = "cancelled"]
        /\ jobs' = jobs \ {k} /\ UNCHANGED <<attempts, orders, calls>>
    BY <1>3 DEF Cancel, CancelMonitor, CanCancel, DeleteJobs, outside
  <2>2. status'[k] = "cancelled" /\ \A j \in Monitors \ {k} : status'[j] = status[j]
    BY <2>1, <1>0 DEF StoreTypeOK
  <2>3. \A j \in Monitors :
           /\ status'[j] # status[j] =>
                 {status[j], status'[j]} \cap {"executing", "purchased"} = {}
           /\ j \in jobs' <=> status'[j] # "absent" /\ ~IsTerminal(status'[j])
    BY <2>1, <2>2, <1>0 DEF EngineInv, Books, IsTerminal
  <2>4. \A q \in Processes : Continues(q)
    BY <1>3, <1>0, LeavesExecution, BecomeContinues DEF Cancel
  <2> QED BY <2>1, <2>3, <2>4, <1>0, WatchingStep
<1>4. ASSUME NEW k \in Monitors, NEW o \in Offers, SubmitOffer(h, k, o) PROVE EngineInv'
  <2>1. [Idle EXCEPT !.pc = "find", !.mon = k, !.offer = o].pc \notin Busy
    BY DEF Idle, Busy
  <2> QED BY <1>1, <1>4, <2>1 DEF SubmitOffer, storeVars, outside
<1>5. ASSUME NEW k \in Monitors, NEW a \in Amounts, AuthorizePayment(h, k, a) PROVE EngineInv'
  <2>1. [Idle EXCEPT !.pc = IF FundsWired THEN "commit" ELSE "record",
                     !.mon = k, !.total = a].pc \notin Busy
    BY DEF Idle, Busy
  <2> QED BY <1>1, <1>5, <2>1 DEF AuthorizePayment, storeVars, outside
<1>6. CASE CommitHold(h)
  <2>1. /\ UNCHANGED <<storeVars, calls>>
        /\ Finish(h) \/ \E a : Become(h, [s EXCEPT !.pc = "record", !.answer = a])
    BY <1>6 DEF CommitHold
  <2>2. \A a : [s EXCEPT !.pc = "record", !.answer = a].pc \notin Busy
    BY <1>0 DEF Sessions, Busy
  <2> QED BY <2>1, <2>2, <1>1, LeavesExecution DEF storeVars
<1>7. CASE RecordAuthorization(h)
  <2> DEFINE k == s.mon
  <2>1. /\ Finish(h) /\ UNCHANGED <<attempts, orders, jobs, calls>> /\ s.pc = "record"
        /\ \/ status' = status
           \/ /\ status[k] \in {"active", "evaluating"}
              /\ status' = [status EXCEPT ![k] = "payment_required"]
    BY <1>7 DEF RecordAuthorization, CreatePaymentAuthorization, outside, At
  <2>2. k \in Monitors
    BY <2>1, <1>0 DEF Sound
  <2>3. \A j \in Monitors :
           \/ status'[j] = status[j]
           \/ status'[j] = "payment_required" /\ status[j] \in {"active", "evaluating"}
    BY <2>1, <2>2, <1>0 DEF StoreTypeOK
  <2>4. \A j \in Monitors :
           /\ status'[j] # status[j] =>
                 {status[j], status'[j]} \cap {"executing", "purchased"} = {}
           /\ j \in jobs' <=> status'[j] # "absent" /\ ~IsTerminal(status'[j])
    BY <2>1, <2>3, <1>0 DEF EngineInv, Books, IsTerminal
  <2>5. \A q \in Processes : Continues(q)
    BY <2>1, <1>0, LeavesExecution, BecomeContinues
  <2> QED BY <2>1, <2>4, <2>5, <1>0, WatchingStep
<1> QED BY <1>2, <1>3, <1>4, <1>5, <1>6, <1>7 DEF Request, HandlerStep

LEMMA OtherKeepsInv ==
    ASSUME IInv
    PROVE  /\ \A p \in Processes : Drop(p) => EngineInv'
           /\ \A m \in Monitors :
                 Clock(m) \/ SettleOpenOrder(m) \/ MerchantRestarts(m) => EngineInv'
           /\ UNCHANGED vars => EngineInv'
<1>1. TypeInv /\ EngineInv
  BY DEF IInv
<1>2. ASSUME NEW p \in Processes, Drop(p) PROVE EngineInv'
  <2>1. Finish(p) /\ UNCHANGED <<status, attempts, orders, jobs, calls>>
    BY <1>2 DEF Drop, storeVars, outside
  <2>2. \A q \in Processes : Continues(q)
    BY <2>1, <1>1, LeavesExecution, BecomeContinues
  <2> QED BY <2>1, <2>2, <1>1, QuietStep
<1>3. ASSUME UNCHANGED <<status, attempts, orders, jobs, calls, proc>> PROVE EngineInv'
  BY <1>1, <1>3, QuietStep DEF Continues
<1>4. ASSUME NEW m \in Monitors, Clock(m) \/ SettleOpenOrder(m) \/ MerchantRestarts(m)
      PROVE  EngineInv'
  BY <1>3, <1>4 DEF Clock, DeadlinePasses, JobFallsDue, LeaseLapses, SettleOpenOrder,
                    MerchantRestarts, storeVars, outside
<1>5. ASSUME UNCHANGED vars PROVE EngineInv'
  BY <1>3, <1>5 DEF vars, storeVars, outside
<1> QED BY <1>2, <1>4, <1>5

LEMMA StepIInv == IInv /\ [Next]_vars => IInv'
<1> SUFFICES ASSUME IInv, [Next]_vars PROVE IInv'
  OBVIOUS
<1>1. TypeInv'
  BY StepTypeInv DEF IInv
<1>2. EngineInv'
  BY EngineKeepsInv, WorkerKeepsInv, HandlerKeepsInv, OtherKeepsInv DEF Next
<1> QED BY <1>1, <1>2 DEF IInv

LEMMA Invariance == Spec => []IInv
<1>1. Init => IInv
  BY InitTypeInv, InitEngineInv DEF IInv
<1> QED BY <1>1, StepIInv, PTL DEF Spec

-----------------------------------------------------------------------------
\* However many processes drive it and whatever fails, the engine asks the
\* merchant to buy at most once for a monitor.
THEOREM OneCheckout == Spec => []AtMostOneCheckout
<1>1. IInv => AtMostOneCheckout
  BY DEF IInv, EngineInv, Counted, AtMostOneCheckout
<1> QED BY <1>1, Invariance, PTL

\* The status of a monitor, its attempt and its order never contradict each
\* other.
THEOREM AttemptsAgree == Spec => []AttemptMatchesStatus
<1>1. IInv => AttemptMatchesStatus
  BY DEF IInv, EngineInv, Books, AttemptMatchesStatus
<1> QED BY <1>1, Invariance, PTL

\* No watch loses its job row before it ends, none keeps it after.
THEOREM JobsAgree == Spec => []JobsFollowStatus
<1>1. IInv => JobsFollowStatus
  BY DEF IInv, EngineInv, Books, JobsFollowStatus
<1> QED BY <1>1, Invariance, PTL

\* One process at a time executes a monitor, and the monitor is executing for
\* as long as it does.
THEOREM ExclusiveExecution == Spec => []ExecutionIsExclusive
<1>1. IInv => ExecutionIsExclusive
  BY DEF IInv, EngineInv, Owned, Alone, ExecutionIsExclusive, Busy
<1> QED BY <1>1, Invariance, PTL

=============================================================================
