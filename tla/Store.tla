------------------------------- MODULE Store -------------------------------
(***************************************************************************)
(* The SQLite tables of the buy-order backend and the transactions the     *)
(* persistence crate runs on them: one operator per transaction, each an   *)
(* atomic step.  A transaction that answers an error is rolled back, so it *)
(* is modelled by its guard: CanX is what X needs to succeed.  The modules *)
(* that call the Store say what they do when the guard is false.           *)
(*                                                                         *)
(* Times are abstracted to what the queries compare them with: a job is    *)
(* due or not, a lease is held or has lapsed, a deadline is past or not.   *)
(* The offers and monitor_events tables are written and never read back by *)
(* a decision; they are left out, and so is the failure counter, which     *)
(* only spaces out the retries.  Every execution passes the same           *)
(* idempotency key for a monitor ("monitor:<id>"), so the key is the       *)
(* monitor.  The currency of an authorization is checked on the way in     *)
(* against the monitor's, and so is the currency of every offer that       *)
(* reaches a query: it is left out.                                        *)
(***************************************************************************)
EXTENDS Domain, Integers, Sequences

CONSTANTS
    Monitors,   \* monitor ids
    Products,   \* what a monitor may watch
    Workers,    \* lease owners
    Amounts     \* amounts in minor units

VARIABLES
    status,     \* monitors.status, "absent" before the row is inserted
    product,    \* monitors.product_json
    jobs,       \* the monitors with a monitor_jobs row
    due,        \* the jobs with next_check_at <= now
    lease,      \* monitor_jobs.lease_owner, and whether lease_expires_at is ahead
    attempts,   \* execution_attempts of a monitor, oldest first; an id is an index
    orders,     \* total_minor of the monitor's merchant_orders
    auths       \* maximum_minor of the monitor's payment_authorizations

storeVars == <<status, product, jobs, due, lease, attempts, orders, auths>>

Unleased == [owner |-> None, state |-> "free"]

Leases == [owner : Workers \cup {None}, state : {"free", "held", "lapsed"}]

StoreTypeOK ==
    /\ status \in [Monitors -> MonitorStatuses \cup {"absent"}]
    /\ product \in [Monitors -> Products \cup {None}]
    /\ jobs \subseteq Monitors
    /\ due \subseteq Monitors
    /\ lease \in [Monitors -> Leases]
    /\ attempts \in [Monitors -> Seq({"started", "succeeded", "failed"})]
    /\ orders \in [Monitors -> Seq(Amounts)]
    /\ auths \in [Monitors -> SUBSET Amounts]

StoreInit ==
    /\ status = [m \in Monitors |-> "absent"]
    /\ product = [m \in Monitors |-> None]
    /\ jobs = {}
    /\ due = {}
    /\ lease = [m \in Monitors |-> Unleased]
    /\ attempts = [m \in Monitors |-> << >>]
    /\ orders = [m \in Monitors |-> << >>]
    /\ auths = [m \in Monitors |-> {}]

-----------------------------------------------------------------------------
(* DELETE FROM monitor_jobs for every monitor of gone. *)
DeleteJobs(gone) ==
    /\ jobs' = jobs \ gone
    /\ due' = due \ gone
    /\ lease' = [m \in Monitors |-> IF m \in gone THEN Unleased ELSE lease[m]]

CreateMonitor(m, p) ==
    /\ status[m] = "absent"
    /\ status' = [status EXCEPT ![m] = "active"]
    /\ product' = [product EXCEPT ![m] = p]
    /\ jobs' = jobs \cup {m}
    /\ due' = due \cup {m}
    /\ UNCHANGED <<lease, attempts, orders, auths>>

\* Slip: the update forgets "product_json IS NULL".
SetProductAlways(m, p) ==
    /\ product' = IF status[m] = "active" THEN [product EXCEPT ![m] = p] ELSE product
    /\ UNCHANGED <<status, jobs, due, lease, attempts, orders, auths>>

\* The update that matches no row is not an error.
SetProductIfMissing(m, p) ==
    /\ product' = IF product[m] = None /\ status[m] = "active"
                  THEN [product EXCEPT ![m] = p]
                  ELSE product
    /\ UNCHANGED <<status, jobs, due, lease, attempts, orders, auths>>

\* Slip: a cancellation during an execution is accepted.
CanCancelExecuting(m) ==
    status[m] \in {"active", "evaluating", "executing", "payment_required", "failed"}

CanCancel(m) == status[m] \in {"active", "evaluating", "payment_required", "failed"}

CancelMonitor(m) ==
    /\ CanCancel(m)
    /\ status' = [status EXCEPT ![m] = "cancelled"]
    /\ DeleteJobs({m})
    /\ UNCHANGED <<product, attempts, orders, auths>>

\* Slip: the sweep leaves alone what a worker is checking.
ExpirableUnleased(late) ==
    {m \in late : status[m] \in {"active", "evaluating", "failed"} /\ lease[m].state # "held"}

\* The monitors of late (past their deadline) the expiry sweep picks.
Expirable(late) == {m \in late : status[m] \in {"active", "evaluating", "failed"}}

ExpireDueMonitors(late) ==
    /\ status' = [m \in Monitors |-> IF m \in Expirable(late) THEN "expired" ELSE status[m]]
    /\ DeleteJobs(Expirable(late))
    /\ UNCHANGED <<product, attempts, orders, auths>>

-----------------------------------------------------------------------------
\* Slip: the update to payment_required has no status filter.
CreatePaymentAuthorizationAnyStatus(m, maximum, needsAttention) ==
    /\ auths' = [auths EXCEPT ![m] = @ \cup {maximum}]
    /\ status' = IF needsAttention THEN [status EXCEPT ![m] = "payment_required"] ELSE status
    /\ UNCHANGED <<product, jobs, due, lease, attempts, orders>>

\* The row the hold leaves behind is 'authorized' even when it needs attention.
CreatePaymentAuthorization(m, maximum, needsAttention) ==
    /\ auths' = [auths EXCEPT ![m] = @ \cup {maximum}]
    /\ status' = IF needsAttention /\ status[m] \in {"active", "evaluating"}
                 THEN [status EXCEPT ![m] = "payment_required"]
                 ELSE status
    /\ UNCHANGED <<product, jobs, due, lease, attempts, orders>>

HasValidPaymentAuthorization(m, total) == \E a \in auths[m] : a >= total

-----------------------------------------------------------------------------
\* Slip: "AND lease_owner IS NULL", without the clause on lease_expires_at.
CanClaimUnleasedJob(m) ==
    /\ m \in due
    /\ status[m] = "active"
    /\ lease[m].state = "free"

CanClaimJob(m) ==
    /\ m \in jobs
    /\ m \in due
    /\ status[m] = "active"
    /\ lease[m].state # "held"

ClaimDueJob(w, m) ==
    /\ CanClaimJob(m)
    /\ lease' = [lease EXCEPT ![m] = [owner |-> w, state |-> "held"]]
    /\ UNCHANGED <<status, product, jobs, due, attempts, orders, auths>>

\* Slip: complete_job without "AND lease_owner=?".
CanCompleteAnyJob(w, m) == m \in jobs

\* The caller still owns the lease: nobody claimed the job since, and no
\* terminal state deleted it.  The lease itself may have lapsed.
CanCompleteJob(w, m) == m \in jobs /\ lease[m].owner = w

CompleteJob(w, m) ==
    /\ CanCompleteJob(w, m)
    /\ due' = due \ {m}
    /\ lease' = [lease EXCEPT ![m] = Unleased]
    /\ UNCHANGED <<status, product, jobs, attempts, orders, auths>>

-----------------------------------------------------------------------------
\* UNIQUE (execution_attempts.idempotency_key): a second row is refused.
KeyIsFree(m) == attempts[m] = << >>

\* Slip: a key per attempt, "monitor:<id>:<attempt>".
CanClaimExecutionNewKey(m) == status[m] \in {"active", "evaluating"}

CanClaimExecution(m) ==
    /\ status[m] \in {"active", "evaluating"}
    /\ KeyIsFree(m)

ClaimExecution(m) ==
    /\ CanClaimExecution(m)
    /\ status' = [status EXCEPT ![m] = "executing"]
    /\ attempts' = [attempts EXCEPT ![m] = Append(@, "started")]
    /\ UNCHANGED <<product, jobs, due, lease, orders, auths>>

\* Slip: the purchase leaves the job row behind.
CompleteExecutionKeepingJob(m, attempt, total) ==
    /\ orders' = [orders EXCEPT ![m] = <<total>>]
    /\ attempts' = [attempts EXCEPT ![m][attempt] = "succeeded"]
    /\ status' = [status EXCEPT ![m] = "purchased"]
    /\ UNCHANGED <<product, jobs, due, lease, auths>>

CompleteExecution(m, attempt, total) ==
    /\ orders' = IF orders[m] = << >>        \* INSERT OR IGNORE
                 THEN [orders EXCEPT ![m] = <<total>>]
                 ELSE orders
    /\ attempts' = IF attempts[m][attempt] = "started"
                   THEN [attempts EXCEPT ![m][attempt] = "succeeded"]
                   ELSE attempts
    /\ status' = IF status[m] = "executing"
                 THEN [status EXCEPT ![m] = "purchased"]
                 ELSE status
    /\ DeleteJobs({m})
    /\ UNCHANGED <<product, auths>>

\* Slip: the attempt's row is not updated.
FailMonitorOnly(m, attempt, paymentRequired) ==
    /\ status' = [status EXCEPT ![m] = IF paymentRequired THEN "payment_required"
                                                          ELSE "active"]
    /\ UNCHANGED <<product, jobs, due, lease, attempts, orders, auths>>

\* Slip: the outcome of the attempt is written as the monitor's status.
FailExecutionDeclined(m, attempt, paymentRequired) ==
    /\ attempts' = [attempts EXCEPT ![m][attempt] = "failed"]
    /\ status' = [status EXCEPT ![m] = "declined"]
    /\ UNCHANGED <<product, jobs, due, lease, orders, auths>>

FailExecution(m, attempt, paymentRequired) ==
    /\ attempts' = [attempts EXCEPT ![m][attempt] = "failed"]
    /\ status' = IF status[m] = "executing"
                 THEN [status EXCEPT ![m] = IF paymentRequired THEN "payment_required"
                                                               ELSE "active"]
                 ELSE status
    /\ UNCHANGED <<product, jobs, due, lease, orders, auths>>

=============================================================================
