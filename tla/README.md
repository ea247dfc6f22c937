# Compralo, verified

Compralo buys a product for its user when an offer inside a mandate shows up:
the user names a page, a ceiling and a deadline, a hold for the ceiling is put
on a card, a worker reads the page again and again, and an execution engine
buys once. This directory holds TLA+ models of that program, the
TLC configurations that check them on small instances, and proofs that TLAPS
checks for every instance.

    tlc -workers 2 -config BuyAgent_safety.cfg MCBuyAgent.tla
    tlapm BuyAgentProofs.tla

Paths below are relative to the repository; `crates/` is `backend/crates/`.

## 1. Inventory

| component | source | state | operations | what is hard |
|---|---|---|---|---|
| domain | `crates/domain` | none (types) | `can_transition_to`, `is_terminal` | the relation is declared and never consulted |
| rule engine | `crates/rule-engine` | none | `evaluate` | absent prices, identifiers against models, no product yet |
| store | `crates/persistence`, `backend/migrations` | 7 SQLite tables | one transaction per method | each transaction carries its own status filter; leases; a UNIQUE key |
| execution engine | `crates/execution` | none; local variables across six awaits | `execute` | every await may be the last; transport errors return early |
| worker | `crates/server` `MonitorWorker` | a claimed job, the monitor as it was then | `tick`, `run` | lapsed leases, stale monitor, errors that end the tick |
| HTTP handlers | `crates/server` | none; locals across awaits | create, cancel, authorize, submit an offer, scenario | race the worker and each other; dropped when the client goes |
| demo merchant | `crates/merchant-demo` | orders by key, in memory | `checkout`, `find_order` | answers that hide what happened; lost on restart |
| P4 client | `crates/merchant-p4` | coverage cache, refresh flag | `commit`, `release`, `checkout`, `find_order`, `supports` | timeouts, a stale cache behind a synchronous `supports` |
| money service (P4) | `money/` | holds, latest hold by instruction, purchases, pending; in memory | `/funds/commit`, `/checkout`, `/funds/release`, `/purchases/:key` | concurrent requests on maps read before an await; capture before order; late settlement |
| Bitrefill broker | `crates/bitrefill` | sessions, tokens, purchases in SQLite | connect, quote, setup, approve, purchase, poll, reveal, cancel | stale quotes, polls that overwrite, gates held per replica |
| monitoring | `crates/monitoring` | none | fetch, normalise, schedule | URL safety; otherwise I/O |
| product intelligence | `crates/product-intelligence` | none | extract an offer from HTML | parsing |
| AutoBuy backend | `autobuy/packages/backend/src` | instructions, seen offers, locks; mirrored to a file | create, cancel, ticks, `execute`, `settle`, sweep of deadlines | cancel and settle write over each other; restart mid-execution |
| AutoBuy perception | same, `exa.ts`, `llm.ts`, ... | caches | model calls | pure I/O |
| market simulator | `autobuy/packages/market` | listings | listing, checkout that may quote another price | environment only |
| extension, dashboard | `autobuy/packages/extension` | presentation | | |
| deploy, tests, mocks, fixtures | `deploy/`, `tests/`, ... | | | |

How they interact: the worker and `submit_offer` call the rule engine and then
the execution engine; the engine calls the store and a `Merchant` (demo or P4,
chosen by `MERCHANT`); `cancel_monitor`, `authorize_payment` and the expiry
sweep call the money service directly. Workers and handlers share nothing but
the SQLite file and the money service. AutoBuy is an earlier agent on the same
money service; next to the Rust backend it runs with `INTELLIGENCE_ONLY`, where
it buys nothing.

What makes each part correct:

- store, engine, worker, handlers: one request to the merchant per monitor; no
  charge outside the mandate; status, attempt, order and job always agree; an
  execution is not disturbed; a watch goes on until it ends, and ends; a hold
  is given back exactly when the watch stopped. (Modelled.)
- rule engine: qualifies an offer only if each clause of the mandate holds.
- money service: at most one order and one capture per key; no order at Zinc
  without a capture; nothing captured stays captured when the order failed.
  (Modelled.)
- P4 client: what it says for certain of an order is so; the coverage list is
  never replaced by an older one and catches up after a failed refresh. (Modelled.)
- Bitrefill: one invoice per quote, none after a confirmed cancellation, none
  over the budget; an uncertain claim is never undone; a session that was
  disconnected stays so. (Modelled.)
- AutoBuy: one execution at a time and one order per instruction; a hold that is
  what the status says; terminal statuses are final, and a deadline is kept.
  (Modelled.)

The hazards behind these, each at its line, are in `PROJECT.json`.

## 2. Modules

| module | what it is |
|---|---|
| `Domain` | statuses and the declared transition relation |
| `RuleEngine` | `evaluate` as the set of reasons to reject |
| `Store` | the tables, one operator per transaction, `CanX` for what X needs |
| `BuyAgent` | worker, handlers, engine and their environment over `Store`; the properties |
| `OneShotPurchase` | the abstract promise `BuyAgent` is checked to implement |
| `BuyAgentClaims` | what a comment or test says and the code does not do |
| `Money` | the money service by itself, request by request; its properties |
| `P4Client` | the backend's client of that service: coverage list, checkout and its answers |
| `Bitrefill` | the gift card broker: session, quotes, invoices, setups, on one replica or two |
| `AutoBuy` | the earlier agent: loops, lock, executor, state file, over the service and the market |
| `MCBuyAgent`, `MCMoney`, `MCP4Client`, `MCBitrefill` | small instances for TLC |
| `BuyAgentTypes`, `BuyAgentProofs`, `BuyAgentPromise` | the proofs about `BuyAgent`: types, engine, what it promises its user and the refinement |
| `MoneyProofs`, `MoneyPurchaseProofs` | those about `Money` |
| `P4ClientProofs`, `BitrefillProofs`, `AutoBuyProofs` | those about the others |

**State of `BuyAgent`.** `status`, `product`, `jobs`, `due`, `lease`, `attempts`, `orders`,
`auths` are the columns of the tables that some query reads back. A time is what
the queries compare it with: a job is due or not, a lease held or lapsed, a
deadline past (`late`) or not. Left out: the offers and events tables,
`consecutive_failures` (it only spaces the retries), an authorization's currency
(compared with the monitor's when it is made, as is the offer's by the gate).
`proc[p]` is one running tick or request: where it stands and its locals. In
particular a worker's `product` is that of the monitor it claimed, read once.
`merchant`, `bought`, `calls`, `holds` are outside: what the merchant answers
under the monitor's key, all charges ever made, the calls to `checkout`, the
holds committed for the mandate.

**Actions.** One action runs from one await to the next, since nothing else can
happen between two awaits that a later step sees. The awaits that only append an
event are not cut. A transaction is atomic; an error rolls it back and is the
false side of `CanX`. `Drop(p)` ends a process at any await: the server dies, a
database error ends the tick, the client goes and axum drops its handler.
Definitions that begin "Slip:" are not the code: each replaces the definition
after it to show that a property would notice that bug.

**Environment.** `FundsWired` is `MERCHANT=p4`. `OutsideReliable` says that the
merchant and the money service answer each call; when it is false a release may
be lost, a call may end in a transport error, and the merchant may restart and
forget its maps. `Checkout` allows each pair of effect and answer that
`merchant-demo` and `money.mjs` can produce, `UNKNOWN` after any effect
included. With P4 an order may be left open and settle later. Two abstractions
of the money service: every commit makes a fresh hold (a repeated attempt
number gets the old one), and `bought` counts charges, so an order placed and
not paid for (market path, failed capture) does not appear. Worker names are
taken as distinct; `main.rs` derives them from the process id.

**The money service by itself.** `BuyAgent` has the service as the backend sees
it; `Money` is the service as written. `holds`, `latest`, `purchases`, `pending`
are its four maps, `req[r]` is one request with the call it awaits (`pc`), what
that call answered (`answer`) and its locals: the hold it read, the offer, whether the
map entry was replaced since (`stale`) and whether its client was already told
UNKNOWN (`told`). Each call outside is one action that does what it does there
and saves the answer (`StripeCapture`, `ZincPlace`, ...), and one action of the
handler that resumes with it (`OnCapture`, `OnPlaced`, ...), so that other
requests, Zinc and the customer run in between; for the same reason an answer
can be lost after the effect. Stripe and Zinc are modelled by the idempotency
keys `money.mjs` gives them: a hold is the instruction and its attempt, a
capture and an order have the key of hold and total. Both clients buy under one
key per instruction from its latest hold, so the key of a purchase is the
instruction; a client that invents keys or names an older hold is left out, and
so is the expiry of a hold, which the service computes and never acts on.

`faults` remembers what went wrong: `restart`, `overlap` (a checkout while
another of the instruction is unanswered), `lost` (an answer or a call lost),
`rearm` (a commit with an attempt number used before), `unpaid` (an order of the
market whose capture was refused). Each property says which of them it bears.

**The client of the money service.** `P4Client` is cut where threads of the
backend can interleave: `cache` is read under its lock (`Supports`), the flag
`refreshing` is swapped and a refresh spawned (`SpawnRefresh`), the task fetches,
stores and clears (`task[t].pc`). `cache.list` and `version` number the lists of
`GET /coverage`, so that "older" can be said; the time to live is the one step
`GoesStale`. `prime` stores or fails before the server serves. `request[k]` is
the one checkout under a key as the service knows it (`effect`) and answered it
(`reply`), `outcome[k]` what the client made of it; a call may fail to connect,
time out before or after it is served, or get an answer nobody can read. What
the service says itself of its effects is taken as true here (`Effects`): that
is the question `Money` asks. Keys share nothing but the cache, which no
checkout writes, so the instance has one.

**The broker.** `Bitrefill` has the row of one browser session, its quotes and
setups, and `req[r]`, a request cut at its awaits that carries the session it
read (`s`) and writes it back whole, as the handlers do. `layout` is the set of
replicas deployed, chosen at the start; each has its own gate (`GateIsFree`),
which `approve`, `cancel` and `setup` do not take. A quote belongs to a session
by its `expires`, one per session row. Prices change by `Reprice`; a quote's text, the
country, the PIN and the encryption are data. Whether a token is still fresh, a
poll due or a client within its rate only ends a request early or adds a call,
and both are always possible. `client` and `config` are the registration at a
development origin; with a public origin the id is fixed. `lost` says that a
refresh token never got from the provider into the table. `consent[q]` is the
last word confirmed to the user on a quote: `approve` and `cancel` write it when
they change the row, a disconnect when it cancels the open quotes. The code keeps
no such record; its statuses cannot stand in for it, since a claim overwrites
them before the provider is asked.

Two groups of properties follow. `OneInvoice`, `BuysWhatWasApproved`, `SetupIsFixed`
and `OneClientId` rest on single UPDATEs and INSERTs and hold for any number of
replicas. `ClaimIsDurable`, `BudgetHolds`, `DisconnectIsFinal`,
`StateIsSingleUse` and `RefreshIsSerialized` rest on the gate, and each bears the
condition `OneReplica`, since each has a counterexample with two: the UPDATE at
`bitrefill/src/lib.rs:1039`, for one, marks a quote `expired` without looking at
its status, and so takes back another replica's claim. `deploy/BITREFILL.md:45`
asks for one replica and gives the refresh as the reason; the claim is atomic, as
it says there, but not safe from this. The budget counts quotes by the time they
were *created*: one bought at the end of its life leaves the budget a day after
its creation, so purchases of two budgets may fall into one rolling day against
`deploy/BITREFILL.md:13` by the five minutes a quote lives. `BudgetHolds` says what the
code counts.

**AutoBuy.** One process with two loops, `tick` over the market's listings and
`exa` over the web. `loop[l]` is where a loop stands, with the pairs of instruction
and offer still to consider (`todo`) and the deadlines still to sweep (`due`), both
read before the awaits they are used after. `locks` is the lock in memory,
`status`, `recorded` and `seen` the state file, which a stop keeps and `Boot` reads
back. `cancel[i]` cuts the cancellation at its release. `hold`, `pending`, `bought`
are the money service as a client may meet it, short of what `Money` shows of
requests that overlap: a checkout enters (`Enter`), and later sells, captures and
answers (`Serve`); one whose client hung up goes on as a member of `orphans`. The
clauses of `rules.ts` that compare data may fail for any offer; the third failed
attempt to normalise an offer is a choice.

What the code does that the properties have to name: a cancellation accepted
while an execution is under way, and that execution, write over each other
(`crossed`: `index.ts:119` writes CANCELLED over PURCHASED, `settle` ACTIVE over
CANCELLED); an order still open after ten minutes is left to a person
(`abandoned`); a checkout may outlive its client (`loose`). A call that failed is
reported as "still monitoring", but its offer stays in `seen` and is not tried
again. An exception of the market during revalidation is caught by nobody; it
stops the process, and is one of the causes of `Crash`.

## 3. What the runs check

| run | instance | checks |
|---|---|---|
| `safety` | 2 workers, 1 handler, 1 monitor, P4, everything unreliable, 1 drop; 542 556 states | `TypeOK`, `AtMostOneCheckout`, `AttemptMatchesStatus`, `JobsFollowStatus`, `ExecutionIsExclusive`, `ReleasedOnlyWhenStopped`, `StatusFollowsDomain`, `LeaseIsFenced`, `BaselineIsFixed` |
| `money` | 1 worker, 1 handler, 3 offers and amounts, 2 arms, 2 drops, P4, unreliable; 1.2 million states | `PurchaseIsCovered`, `KeepsThePromise` |
| `liveness` | 2 workers, 1 handler, demo merchant, unreliable, 1 drop; 146 468 states | `WatchIsCheckedAgain`, `OverdueWatchStops`, `EveryExecutionEnds` |
| `money_service` | 2 requests, 1 instruction, 2 attempts, 3 offers, 1 kind of fault; 1.98 million states | `TypeOK`, `NeverBuysTwice`, `PurchaseIsPaid`, `MoneyIsAccountedFor`, `ZincAfterCapture` |
| `p4_client` | 2 callers, 2 refreshes at once, 1 key, 3 lists; 92 455 states | `TypeOK`, `CertaintyIsEarned`, `NeverGoesBack`, `CoverageCatchesUp` |
| `bitrefill` | 1 or 2 replicas, 2 requests, 2 quotes, 5 mixes of operations, 1 drop or crash; about 545 000 states up to symmetry | `TypeOK`, `OneInvoice`, `BuysWhatWasApproved`, `SetupIsFixed`, `OneClientId`, `ClaimIsDurable`, `BudgetHolds`, `DisconnectIsFinal`, `StateIsSingleUse`, `RefreshIsSerialized` |
| `autobuy` | 1 instruction, 1 offer of a store, a retailer and the web each, 1 fault; 151 007 states | `TypeOK`, `OneExecution`, `BuysOnce`, `PurchaseIsRecorded`, `HoldFollowsStatus`, `TerminalIsFinal`, `DeadlineIsKept` |

And five runs that TLC refutes, each against a sentence of the repository; but
for the last, on an instance where nothing fails and nothing is dropped:

| run | refuted | the sentence | what happens |
|---|---|---|---|
| `declined` | `DeclinedCanTryAgain` | `money/money.mjs:110` "A DECLINED leaves the hold intact so a later offer can try again" | the failed attempt keeps the monitor's only key; the watch goes on and can never execute again |
| `late_order` | `LateOrderIsResolved` | `money/money.mjs:200` "keep settling in the background, and let find_order() resolve it" | `execute` returns the order it found and records nothing |
| `lingering` | `NoLingeringHold` | `money/money.mjs:208` "No lingering hold, ever" | an authorization does not look at the status, and outlives the cancellation |
| `money_unpaid` | `SaleIsPaid` | `money/money.mjs:160` "Only reachable through a bug upstream" | a release cancels the hold after the market sold and before the capture; order sold, nothing paid, and the key still free for a second order |
| `autobuy_twice` | `BuysOnceEver` | `autobuy/README.md:87` "Buy once, ever" | one call of `/checkout` breaks off; the agent reports "nothing captured, still monitoring" (`executor.ts:73`) and executes the next offer while the service serves the first. The read of the state file after a stop does the same (`state.ts:40`) |

The first has a consequence to keep in mind when reading the rest: at most one
checkout per monitor, for which `AtMostOneCheckout` and `KeepsThePromise` vouch,
is partly the price of a key that is never freed.

Two more behaviours follow from the code and are not called errors. After a
`MerchantError`, or a drop between claim and outcome, a monitor stays
`executing` for ever; the demo merchant answers each call, so
`EveryExecutionEnds` is stated of it, and excepts the drop. And a monitor in
`payment_required` outlives its deadline: the sweep of
`persistence/src/lib.rs:163` picks only the statuses it lists, though the comment
above it says "Expire everything past its deadline".

The conditions on `faults` are what TLC found the service to need, and each has a
counterexample without it. `NeverBuysTwice` fails after an overlap (both read
`purchases` before either writes it), a restart, a lost answer, and after an
unpaid sale. `MoneyIsAccountedFor` fails with an overlap: one request deletes the
`pending` entry of the other, whose order nobody then watches. `PurchaseIsPaid`
fails after a repeated attempt number: the hold looks committed again and the
capture of the money already given back is replayed by its key.
`ZincAfterCapture` has three parts. That an order at Zinc stands on a capture of
its very total, within the ceiling, holds under every fault. That none is placed on
money given back fails after a repeated attempt number (Zinc refuses, the money goes
back, the attempt is committed again, the saved capture is replayed and the order
placed) and after an overlap (two requests of one hold and one total share the
capture, the first is refused and refunds it, the second is placed); only the status of the hold,
which is given up with the money, stands against it. That the money of a living order
is not given back fails as soon as an answer is lost: a poll that fails, or an order
whose answer never came, is taken for a failed order and refunded.

In `AutoBuy`, `BuysOnce` excepts a behaviour in which a checkout went on without
its client or the issuer refused the capture of a sale; `PurchaseIsRecorded` and
`HoldFollowsStatus` are stated of behaviours without a fault, since a release is
sent once and an answer may be lost; `TerminalIsFinal` and `HoldFollowsStatus`
except an instruction whose cancellation crossed an execution.

**Bounds and why they suffice.** Monitors share no row, and a process serves one
at a time, so one monitor shows each interference between processes on a
monitor; that a sweep expires several at once is left to the proofs, which hold
for any set. Two workers make every lease race (owner and successor); the
handler adds the requests that race them, repeated without limit. `MaxArms`
caps the holds: one is enough for every order of commit, release and checkout,
two for a hold re-armed after a refund. `MaxDrops` caps how often a process
stops at an await, two in `money` so that a drop can hit the recovery from a
drop. Amounts lie below, at and above the ceiling; the second product makes the
gate reject, and lets two workers see different first offers.

In `Money` instructions share nothing, so one suffices; two requests make each
pair of handlers race at each await, a request that settles in the background
being one of them; a second attempt makes the re-armed hold, a repeated one
comes with either. The offers are the same total on both paths (the keys of
Stripe coincide) and one above `Ceiling`. `MaxSales` bounds the market, two
orders being what a double purchase takes. `MaxFaults = 1` gives each kind of
fault as often as it likes, but no two kinds in one behaviour.
`CHECK_DEADLOCK FALSE`: with the key bought and the faults used up, a service
without further requests rests. So does a broker whose mix of operations is used
up, and an agent of `autobuy_twice` that runs out of steps.

In `P4Client` two callers race for the flag and two refreshes could overlap if it
failed; a third list lets a refresh bring what is already old. In `Bitrefill` two requests on two
replicas make every pair of handlers race, with and without a common gate. All
operations together are out of TLC's reach, so a behaviour is made of one
member of `Mixes`: the account and its tokens; one quote with what may stop its
purchase; one quote through its invoice, with price, clock and cancellation; two
quotes that fit the budget one at a time; setups until the session ends. Each mix
bounds the clock, the OAuth requests, the tokens, the price changes and the
drops. In `AutoBuy` instructions share nothing but the market's stock, and one
loop serves them one after another; three offers make the two loops race on each
path of the service, and a second one of the same kind adds only its order. `MaxFaults = 1`
is one lost call, stop or refused capture.

**Fairness.** In `BuyAgent`, `Fairness` gives weak fairness to each process's steps (tokio
polls every ready task, `run` loops for ever, each await ends in an answer, an
error or a timeout), to the clock of jobs and leases, and to a retailer settling
an order. None to clients, to drops, to restarts, or to deadlines: a watch is
checked again although its deadline may never come. With several monitors
`WatchIsCheckedAgain` also needs the `ORDER BY next_check_at` of the claim,
which the model does not keep; the run has one monitor. In `P4Client`
threads and tasks run, offers keep coming (only an offer starts a refresh), the
list ages, and a fetch tried again and again succeeds at last (strong fairness of
`FetchSucceeds`); `CoverageCatchesUp` fails without any of them. In `AutoBuy` the
timers fire, each call ends in an answer or an exception, and the market answers
again and again: the sweep of deadlines runs behind the fetch of its listings, so
with the market out of reach for ever no deadline is kept.

## 4. What is proved

Every invariant and every action property of the passing runs, the refinement
`KeepsThePromise` included, for all values of the constants: monitors, workers,
handlers, offers, amounts and mandates of `BuyAgent`; instructions, attempts,
offers, requests and faults of `Money`; callers, refreshes, keys, retailers and
lists of `P4Client`; replicas, requests, quotes, prices and mixes of `Bitrefill`;
instructions, offers and faults of `AutoBuy`. Only the named assumptions of each
module are used (in `BuyAgent`: workers are not handlers, amounts are natural
numbers, and ceilings and known totals among them, offered products are products;
in `Money`: an offer is for the market or for Zinc and its total a natural number;
everywhere: `None` is none of the values it stands beside, the bounds are natural
numbers).

| theorem | establishes |
|---|---|
| `BuyAgentTypes!TypeCorrect` | `[]TypeOK` |
| `BuyAgentProofs!OneCheckout` | `[]AtMostOneCheckout` |
| `BuyAgentProofs!AttemptsAgree` | `[]AttemptMatchesStatus` |
| `BuyAgentProofs!JobsAgree` | `[]JobsFollowStatus` |
| `BuyAgentProofs!ExclusiveExecution` | `[]ExecutionIsExclusive` |
| `BuyAgentPromise!ChargesAreCovered` | `[]PurchaseIsCovered` |
| `BuyAgentPromise!RunningWatchesKeepTheirHolds` | `[]ReleasedOnlyWhenStopped` |
| `BuyAgentPromise!StatusIsDisciplined` | `StatusFollowsDomain` |
| `BuyAgentPromise!BaselineStays` | `BaselineIsFixed` |
| `BuyAgentPromise!LeasesAreFenced` | `LeaseIsFenced` |
| `BuyAgentPromise!ImplementsOneShotPurchase` | `KeepsThePromise` |
| `MoneyProofs!TypeCorrect` | `[]TypeOK` |
| `MoneyProofs!NoMoneyUnaccounted` | `[]MoneyIsAccountedFor` |
| `MoneyProofs!OneOrderEver` | `[]NeverBuysTwice` |
| `MoneyPurchaseProofs!PurchasesArePaid` | `[]PurchaseIsPaid` |
| `MoneyPurchaseProofs!ShippedOrdersArePaid` | `[]ZincAfterCapture` |
| `P4ClientProofs!TypeCorrect` | `[]TypeOK` |
| `P4ClientProofs!EarnedCertainty` | `[]CertaintyIsEarned` |
| `P4ClientProofs!ListsInOrder` | `NeverGoesBack` |
| `BitrefillProofs!TypeCorrect` | `[]TypeOK` |
| `BitrefillProofs!OneInvoiceEver` | `[]OneInvoice` |
| `BitrefillProofs!ApprovedPurchases` | `[]BuysWhatWasApproved` |
| `BitrefillProofs!FixedSetup` | `[]SetupIsFixed` |
| `BitrefillProofs!SameClientId` | `[]OneClientId` |
| `BitrefillProofs!DurableClaims` | `ClaimIsDurable` |
| `BitrefillProofs!FinalDisconnect` | `DisconnectIsFinal` |
| `BitrefillProofs!SingleUseState` | `[]StateIsSingleUse` |
| `BitrefillProofs!SerializedRefresh` | `[]RefreshIsSerialized` |
| `BitrefillProofs!BudgetIsKept` | `[]BudgetHolds` |
| `AutoBuyProofs!TypeCorrect` | `[]TypeOK` |
| `AutoBuyProofs!OneExecutionEver` | `[]OneExecution` |
| `AutoBuyProofs!OneOrderAtMost` | `[]BuysOnce` |
| `AutoBuyProofs!PurchasesAreRecorded` | `[]PurchaseIsRecorded` |
| `AutoBuyProofs!HoldsFollowStatus` | `[]HoldFollowsStatus` |
| `AutoBuyProofs!TerminalsAreFinal` | `TerminalIsFinal` |

*Types of `BuyAgent`.* `TypeOK` alone is not inductive: `FinishPurchase` writes the amount a
session holds, which may be `None` as far as its type goes. `TypeInv` adds
`Sound`, which says for each place in the code which locals are set (a product
at `check` may be missing, an offer at `checkout` may not, a total at
`complete` may not), and that an order known to the merchant has an amount.

*The engine of `BuyAgent`.* None of its four properties is inductive. `EngineInv`
ties them into one chain:

1. `Books`: a monitor has at most one attempt (the key is unique and no row is
   deleted); it is `started` exactly while the monitor executes, `succeeded`
   exactly when it is purchased and an order is recorded; the job row exists
   exactly while the status is not terminal.
2. `Owned`: a process between claim and outcome stands for an executing monitor
   and holds its attempt; before `checkout` the monitor has no call yet.
3. `Alone`: no two processes stand there for one monitor. A claim needs a
   monitor that is not executing, so by `Owned` nobody stands there when a
   process enters.
4. `Counted`: no call before an attempt, and at most one.

*What `BuyAgent` promises.* `MoneyInv` follows an amount from the gate to the
order: an offer at `checkout` is within the ceiling and its monitor has an
authorization, each of which is at least the ceiling; a charge is allowed in that
sense, wherever the order is by then; the total at `complete` is what was
charged. It rests on `EngineInv`, by which one process calls, once. `WatchInv`
says that whoever releases holds does so for watches that are over, and that a
hold once given back belongs to one. For the refinement each step is classified
by what it does to status, attempts and charges (`StepMoves`), and each class is
a step of `OneShotPurchase` or a stutter under the map of `BuyAgent`.

*The money service.* `ZincInv` needs no condition: a capture known to have gone
well is the one Stripe made, and whoever talks to Zinc has one. Most of the rest
rests on a fact the code never writes down. While nothing is lost, overlaps or
restarts, one request at a time works on an instruction, and an entry in
`pending` stands for the one that stopped waiting (`BuyerInv`). Money kept then
has a request that answers for it, a pending order or a purchase (the `MoneyInv`
there); the orders of an instruction are those its one buyer knows (`OrderInv`); and,
while a hold is created once, what the map says of it agrees with Stripe across
every await (`PurchaseInv`). For `ZincAfterCapture`, `FreshInv` says that whoever carries money
to Zinc has money not given back, since a refund comes with the hold given up and a
hold created once is never committed again; and `AliveInv` that only an order Zinc
itself refused, or gave up, has a request that gives its money back. Each theorem has the conditions on `faults` of its
property and no more; section 3 says what happens without them.

*The client.* One refresh at a time is under way and the flag says so
(`OneRefresh`); the cache is not newer than what a refresh was answered, nor that
than the service's list (`InOrder`), so a store never goes back. An answer with a
last word comes with its effect (`Honest`) and an effect that is final does not
change, so an outcome stays true.

*The broker, on any number of replicas.* `TypeInv` adds to `TypeOK` which locals are set where
(`Fitting`) and that the price list is not overrun. `InvoiceInv` says that a quote
under way to `buy-products`, or with a call made, has left the statuses from
which it may be claimed or cancelled; that the one under way has no call yet; and
that it is one request. Nothing moves a quote back into those statuses
(`NoneReopened`), on whatever replica. `ConsentInv` relates the row to what its user
was told: a quote in `approved` was approved last; one being bought too, and its price
is that of the details that came back; and once claimed it is out of reach of
`approve` and `cancel`, so the last word stays. A setup is inserted once, and a client_id.

*The broker, on one.* `GateInv`: one request holds the gate, and one that does
without it carries no token and no OAuth request that it could write back.
`TimeInv`: sessions follow each other, each longer than the last, so a write to a
session that is gone is dropped. Hence what the holder of the gate read is still
so (`CarryInv`), its refresh token is live or on its way (`TokenInv`), no code is
presented twice (`StateInv`), and its quote is where it left it (`ClaimInv`).
`BudgetHolds` is a sum over a set of quotes: `SubsetInduction` (a minimal
counterexample among the subsets of a finite set) gives that the fold of
`MapThenSumSet` does not depend on the order of its members (`FoldAdds`), grows
with the set and by the price of what is added (`TotalShrinks`, `TotalGains`).
`BudgetInv` then keeps what `Claim` counts within the budget, the quotes with an
invoice among it, and the quotes finite in number.

*The agent.* `LockInv`: the lock of an instruction holds the offer of the loop
that executes it, and one loop does. The status could not stand in for it, since
cancellations and settlements write over each other; an execution that no
cancellation crossed does have it to itself (`CrossInv`). `OnceInv`: while no
checkout outlived its client, a hold is spent by one order, or holds none.
`RecordInv` and `StageInv`, of behaviours without a fault: a loop follows each
order until it is recorded, and the hold of an instruction is what its status and
the work on it say.

Each of these invariants is proved by a step per action, most of them over a
lemma that says first what a step changes (`StepMoves`, `GateSteps`, ...), so that
actions of one kind share a proof.

*Only model-checked.* The liveness properties `WatchIsCheckedAgain`, `OverdueWatchStops`,
`EveryExecutionEnds`, `CoverageCatchesUp` and `DeadlineIsKept`: fairness and ENABLED
are out of the prover's reach. And that the five sentences of section 3 are
refuted, for which one counterexample each is enough.

## 5. Plan

1. `Domain`, `RuleEngine`, `Store`, `BuyAgent`, `OneShotPurchase`. *Done.*
2. `Money`. *Done.* Left: an abstract merchant (one order per key, money back when
   there is none) that `Money` implements and `BuyAgent` relies on.
3. `P4Client`, `Bitrefill`, `AutoBuy`. *Done.*
4. Proofs of their invariants, their action properties and the refinement. *Done.*
   Left: that `Money` implements the abstract merchant of 2, under the faults its
   properties name.

## 6. What is not modelled, and why

HTML extraction (`product-intelligence`), model prompts and URL filtering are
functions on documents and strings that no small model tells apart; the worker
is modelled for every offer they may return and for their failure. Of
`monitoring` nothing else changes state: the semaphores of `SpiderFetcher` are
never contended by a worker that checks one monitor at a time, and the server
never calls `SchedulePolicy`. `failure_delay` (`persistence/src/lib.rs:557`) is
arithmetic: it caps the delay at 3600 s, below the longest interval a monitor may
have, so a failed check may be repeated sooner than a successful one; in the
models a job falls due after any delay. In AutoBuy the reset of the demo, which
wipes the state under running loops, usage counters and events, and a restart of
the money service under it, which `Money` has, are left out. Reads, event streams,
CORS, logging, deployment and the browser extension change no state of the
program.
