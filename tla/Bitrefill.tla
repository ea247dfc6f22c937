----------------------------- MODULE Bitrefill -----------------------------
(***************************************************************************)
(* The Bitrefill broker: one browser session and its OAuth tokens, the     *)
(* quotes it approves, the invoices it asks the provider for, and the      *)
(* auto-buy setups it saves.                                               *)
(*                                                                         *)
(* The tables are shared by the replicas of the server; each replica has   *)
(* its own gate, a mutex that most handlers hold from their first line to  *)
(* their last, the calls of the provider included.  A request is a record  *)
(* that says at which await it stands (pc) and carries the session it read *)
(* (s), which it writes back whole.  A request may be dropped at any await *)
(* when its client goes away; a replica may die with all of its requests.  *)
(*                                                                         *)
(* The provider may refuse or fail any call, change its prices, and take   *)
(* an order without the answer arriving.  Whether an access token is still *)
(* fresh, an OAuth request still in time, a client within its rate and an  *)
(* invoice polled long enough ago is left open: each only ends a request   *)
(* early.  Quotes expire and sessions end by the clock.                    *)
(***************************************************************************)
EXTENDS Naturals, Sequences, FiniteSetsExt

CONSTANTS
    Replicas,
    Requests,       \* requests under way at one time
    Quotes,         \* quote UUIDs
    PriceList,      \* the catalogue prices of the package, in the course of time
    MaxEur,         \* MAX_EUR
    DailyEur,       \* DAILY_EUR
    TTL,            \* a quote is good for as long
    Day,            \* 86400 s: the window of the budget, the life of a session
    Limits,         \* spending limits a client may ask a setup for
    ArticlePrice, FaceValue,
    MaxStarts,      \* bound: OAuth requests
    Mixes,          \* bound: what a behaviour is made of, see Mix
    None

Ops == {"start", "callback", "disconnect", "search", "details", "quote", "match", "purchase",
        "order", "approve", "cancel", "setup"}

\* The operations clients ask for and the quotes they may create, and bounds of
\* the clock, the OAuth requests, the refresh tokens issued, the changes of the price, and the
\* requests dropped and replicas stopped.
Mix == [ops : SUBSET Ops, quotes : SUBSET Quotes,
        time : Nat, starts : Nat, tokens : Nat, reprices : Nat, drops : Nat]

ASSUME BitrefillAssumption ==
    /\ None \notin Replicas \cup Requests \cup Quotes /\ None \notin Limits /\ None \notin Ops
    /\ "registering" \notin Replicas
    /\ PriceList \in Seq(Nat) /\ PriceList # << >> /\ Limits \subseteq Nat
    /\ \A m \in Mixes : m \in Mix /\ m.reprices < Len(PriceList) /\ m.starts <= MaxStarts
    /\ {MaxEur, DailyEur, TTL, Day, ArticlePrice, FaceValue, MaxStarts} \subseteq Nat

VARIABLES
    clock,
    invoices,   \* provider: what became of the invoice of a quote
    live,       \* provider: the refresh tokens it still accepts
    calls,      \* the times buy-products was called for a quote
    session,    \* bitrefill_sessions: the row of the browser's cookie
    quotes,     \* bitrefill_quotes
    setups,     \* bitrefill_auto_buy_setups: maximum_minor by quote_id
    config,     \* bitrefill_config: client_id
    client,     \* the client_id of each replica that serves
    layout,     \* the replicas deployed
    mix,        \* the member of Mixes this behaviour is made of
    req,        \* where each request stands, and its locals
    issued,     \* OAuth requests and refresh tokens handed out, price changes
    exchanged,  \* times the code of an OAuth request was presented
    saved,      \* the limits confirmed to clients, by quote
    consent,    \* the last word confirmed to the user on a quote
    drops,      \* requests dropped and replicas stopped
    lost        \* a refresh token never got from the provider to the table

provider == <<invoices, live, calls>>
tables == <<session, quotes, setups>>
startup == <<config, client, layout, mix>>
history == <<issued, exchanged, saved, consent>>
vars == <<clock, provider, tables, startup, req, history, drops, lost>>

Claimed == {"reconciliation_required", "awaiting_payment", "payment_pending", "fulfilled"}
Statuses == Claimed \cup {"none", "quoted", "approved", "expired", "cancelled"}
PCs == {"idle", "forget", "exchange", "revoke", "wipe", "cancel_all", "refresh", "keep",
        "call", "save", "priced", "buy", "told", "polled", "update", "insert"}
Invoices == {"none", "unpaid", "detected", "complete", "other"}

NoSession == [expires |-> 0, oauth |-> 0, token |-> 0, searched |-> FALSE]
NoQuote == [status |-> "none", price |-> 0, created |-> 0, owner |-> 0, article |-> FALSE,
            invoice |-> FALSE]
Idle == [op |-> None, pc |-> "idle", at |-> None, q |-> None, s |-> NoSession, got |-> 0,
         invoice |-> "none", late |-> FALSE]

Sessions == [expires : Nat, oauth : Nat, token : Nat, searched : BOOLEAN]

TypeOK ==
    /\ clock \in Nat /\ drops \in Nat /\ lost \in BOOLEAN
    /\ invoices \in [Quotes -> Invoices]
    /\ live \subseteq Nat
    /\ calls \in [Quotes -> Seq(Nat)]
    /\ session \in Sessions
    /\ quotes \in [Quotes -> [status : Statuses, price : Nat, created : Nat,
                              owner : Nat, article : BOOLEAN, invoice : BOOLEAN]]
    /\ setups \in [Quotes -> Limits \cup {None}]
    /\ config \in Replicas \cup {None}
    /\ client \in [Replicas -> Replicas \cup {None, "registering"}]
    /\ layout \subseteq Replicas /\ mix \in Mixes
    /\ req \in [Requests -> [op : Ops \cup {None}, pc : PCs, at : Replicas \cup {None},
                             q : Quotes \cup {None}, s : Sessions,
                             got : Nat, invoice : Invoices, late : BOOLEAN]]
    /\ issued \in [{"oauth", "token", "price"} -> Nat]
    /\ exchanged \in [1 .. MaxStarts -> Nat]
    /\ saved \in [Quotes -> SUBSET Limits]
    /\ consent \in [Quotes -> {"none", "approved", "cancelled"}]

\* The broker as first deployed, alone or beside another replica; a browser
\* has opened the page.
Init ==
    /\ clock = 0 /\ drops = 0 /\ lost = FALSE
    /\ invoices = [q \in Quotes |-> "none"]
    /\ live = {}
    /\ calls = [q \in Quotes |-> << >>]
    /\ session = [NoSession EXCEPT !.expires = Day]
    /\ quotes = [q \in Quotes |-> NoQuote]
    /\ setups = [q \in Quotes |-> None]
    /\ config = None
    /\ client = [p \in Replicas |-> None]
    /\ layout \in {S \in SUBSET Replicas : S # {}} /\ mix \in Mixes
    /\ req = [r \in Requests |-> Idle]
    /\ issued = [k \in {"oauth", "token", "price"} |-> 0]
    /\ exchanged = [n \in 1 .. MaxStarts |-> 0]
    /\ saved = [q \in Quotes |-> {}]
    /\ consent = [q \in Quotes |-> "none"]

-----------------------------------------------------------------------------
(* The session, the gate and the calls *)

\* The price of the package now.
price == PriceList[issued["price"] + 1]

Become(r, x) == req' = [req EXCEPT ![r] = x]
Finish(r) == Become(r, Idle)
At(r, pc) == req[r].pc = pc

\* Slip: a search does not take the gate.
GatedButSearch(op) == op \notin {"approve", "cancel", "setup", "search"}

Gated(op) == op \notin {"approve", "cancel", "setup"}

GateIsFree(p) == \A r \in Requests : ~At(r, "idle") /\ req[r].at = p => ~Gated(req[r].op)

\* A replica takes the gate if the handler wants it, and reads the session of
\* the cookie; connected says that a token must be there.
Begins(r, p, op, connected) ==
    /\ At(r, "idle") /\ op \in mix.ops
    /\ p \in layout /\ client[p] \in Replicas
    /\ Gated(op) => GateIsFree(p)
    /\ clock < session.expires
    /\ connected => session.token # 0

Begin(r, p, op, q, pc, s) ==
    Become(r, [Idle EXCEPT !.op = op, !.pc = pc, !.at = p, !.q = q, !.s = s])

\* The token of the session is fresh, or must be refreshed first.
BeginCall(r, p, op, q) == \E pc \in {"call", "refresh"} : Begin(r, p, op, q, pc, session)

\* The session without what OAuth and the catalogue put into it.
Bare(s) == [NoSession EXCEPT !.expires = s.expires]

Owned(q) == quotes[q].owner = session.expires
Expires(q) == quotes[q].created + TTL

\* UPDATE bitrefill_sessions SET payload=? WHERE id=?
SaveSession(s) == session' = IF session.expires = s.expires THEN s ELSE session

\* The page of a browser without a session gets it a new one.
Page ==
    /\ clock >= session.expires
    /\ session' = [NoSession EXCEPT !.expires = clock + Day]
    /\ UNCHANGED <<clock, provider, quotes, setups, startup, req, history, drops, lost>>

\* The handler writes the session it holds, and goes on.
Save(r) ==
    /\ \/ At(r, "forget") /\ Become(r, [req[r] EXCEPT !.pc = "exchange"])
       \/ At(r, "keep") /\ Become(r, [req[r] EXCEPT !.pc = "call"])
       \/ At(r, "wipe") /\ Become(r, [req[r] EXCEPT !.pc = "cancel_all"])
       \/ At(r, "save") /\ Finish(r)
    /\ SaveSession(req[r].s)
    /\ UNCHANGED <<clock, provider, quotes, setups, startup, history, drops, lost>>

\* A refusal, an error, no answer, or an answer the handler does not accept:
\* nothing was done, and the request ends.
ProviderFails(r) ==
    /\ req[r].pc \in {"refresh", "call", "exchange"}
    /\ Finish(r)
    /\ UNCHANGED <<clock, provider, tables, startup, history, drops, lost>>

\* The provider hands out another refresh token, in place of those revoked.
IssueToken(revoked) ==
    /\ issued["token"] < mix.tokens
    /\ issued' = [issued EXCEPT !["token"] = @ + 1]
    /\ live' = (live \ revoked) \cup {issued'["token"]}

\* token(): the answer may be lost, and the token it carries with it.
Refresh(r) ==
    /\ At(r, "refresh")
    /\ req[r].s.token \in live
    /\ IssueToken({req[r].s.token})
    /\ \/ Become(r, [req[r] EXCEPT !.pc = "keep", !.s.token = issued'["token"]]) /\ UNCHANGED lost
       \/ Finish(r) /\ lost' = TRUE
    /\ UNCHANGED <<clock, invoices, calls, tables, startup, exchanged, saved, consent, drops>>

-----------------------------------------------------------------------------
(* Connecting and disconnecting *)

OauthStart(r, p) ==
    /\ Begins(r, p, "start", FALSE)
    /\ issued["oauth"] < mix.starts
    /\ issued' = [issued EXCEPT !["oauth"] = @ + 1]
    /\ Begin(r, p, "start", None, "save", [session EXCEPT !.oauth = issued'["oauth"]])
    /\ UNCHANGED <<clock, provider, tables, startup, exchanged, saved, consent, drops, lost>>

\* Slip: the OAuth request is not forgotten.
OauthCallbackKeepingState(r, p) ==
    /\ Begins(r, p, "callback", FALSE)
    /\ session.oauth # 0
    /\ Become(r, [Idle EXCEPT !.op = "callback", !.pc = "forget", !.at = p,
                              !.s = session, !.got = session.oauth])
    /\ UNCHANGED <<clock, provider, tables, startup, history, drops, lost>>

\* The state that comes back is that of the session's OAuth request, which is
\* forgotten before its code is exchanged.
OauthCallback(r, p) ==
    /\ Begins(r, p, "callback", FALSE)
    /\ session.oauth # 0
    /\ Become(r, [Idle EXCEPT !.op = "callback", !.pc = "forget", !.at = p,
                              !.s = [session EXCEPT !.oauth = 0], !.got = session.oauth])
    /\ UNCHANGED <<clock, provider, tables, startup, history, drops, lost>>

\* The provider takes the code; the exchange, or the discovery of its tools that
\* follows, may still fail.
Exchange(r) ==
    /\ At(r, "exchange")
    /\ IssueToken({})
    /\ exchanged' = [exchanged EXCEPT ![req[r].got] = @ + 1]
    /\ \/ Become(r, [req[r] EXCEPT !.pc = "save", !.s.token = issued'["token"], !.got = 0])
       \/ Finish(r)
    /\ UNCHANGED <<clock, invoices, calls, tables, startup, saved, consent, drops, lost>>

Disconnect(r, p) ==
    /\ Begins(r, p, "disconnect", FALSE)
    /\ Begin(r, p, "disconnect", None, "revoke", session)
    /\ UNCHANGED <<clock, provider, tables, startup, history, drops, lost>>

\* Local access goes whether or not the provider revoked the token.
Revoke(r) ==
    /\ At(r, "revoke")
    /\ live' \in {live, live \ {req[r].s.token}}
    /\ Become(r, [req[r] EXCEPT !.pc = "wipe", !.s = Bare(@)])
    /\ UNCHANGED <<clock, invoices, calls, tables, startup, history, drops, lost>>

CancelAll(r) ==
    LET open == {q \in Quotes : /\ quotes[q].owner = req[r].s.expires
                                /\ quotes[q].status \in {"quoted", "approved"}}
    IN
    /\ At(r, "cancel_all")
    /\ quotes' = [q \in Quotes |->
                    IF q \in open THEN [quotes[q] EXCEPT !.status = "cancelled"] ELSE quotes[q]]
    /\ consent' = [q \in Quotes |-> IF q \in open THEN "cancelled" ELSE consent[q]]
    /\ Finish(r)
    /\ UNCHANGED <<clock, provider, session, setups, startup, issued, exchanged, saved, drops, lost>>

-----------------------------------------------------------------------------
(* The catalogue and the quotes *)

Search(r, p) ==
    /\ Begins(r, p, "search", TRUE)
    /\ BeginCall(r, p, "search", None)
    /\ UNCHANGED <<clock, provider, tables, startup, history, drops, lost>>

Searched(r) ==
    /\ At(r, "call") /\ req[r].op = "search"
    /\ Become(r, [req[r] EXCEPT !.pc = "save", !.s.searched = TRUE])
    /\ UNCHANGED <<clock, provider, tables, startup, history, drops, lost>>

\* details, quote and match_article; the article's retailer is known, any other
\* product must have been searched.
Browse(r, p, op) ==
    /\ op \in {"details", "quote", "match"}
    /\ Begins(r, p, op, TRUE)
    /\ op # "match" => session.searched
    /\ BeginCall(r, p, op, None)
    /\ UNCHANGED <<clock, provider, tables, startup, history, drops, lost>>

Sellable(amount) == amount \in 1 .. MaxEur

\* get-product-details: what is sold, and for how much.
ProductDetails(r) ==
    /\ At(r, "call")
    /\ \/ req[r].op = "details" /\ Finish(r)
       \/ req[r].op \in {"quote", "match", "purchase"} /\ ~Sellable(price) /\ Finish(r)
       \/ /\ req[r].op \in {"quote", "match", "purchase"} /\ Sellable(price)
          /\ Become(r, [req[r] EXCEPT !.pc = "priced", !.s = Bare(@), !.got = price])
    /\ UNCHANGED <<clock, provider, tables, startup, history, drops, lost>>

InsertQuote(r, q, op) ==
    /\ At(r, "priced") /\ req[r].op = op
    /\ q \in mix.quotes /\ quotes[q].status = "none"
    /\ quotes' = [quotes EXCEPT ![q] =
                    [status |-> "quoted", price |-> req[r].got, created |-> clock,
                     owner |-> req[r].s.expires, article |-> op = "match", invoice |-> FALSE]]
    /\ Finish(r)
    /\ UNCHANGED <<clock, provider, session, setups, startup, history, drops, lost>>

Quote(r, q) == InsertQuote(r, q, "quote")

\* The smallest package that covers the article, and a quote that a setup may
\* be saved for.
MatchArticle(r, q) == InsertQuote(r, q, "match")

-----------------------------------------------------------------------------
(* Approval, cancellation and setups: no gate, one session read before *)

BeginUpdate(r, p, op, q) ==
    /\ op \in {"approve", "cancel"}
    /\ Begins(r, p, op, TRUE)
    /\ quotes[q].status # "none"
    /\ Begin(r, p, op, q, "update", Bare(session))
    /\ UNCHANGED <<clock, provider, tables, startup, history, drops, lost>>

IsOwner(r) == quotes[req[r].q].owner = req[r].s.expires

\* The hash the client acknowledges is that of the quote.
Approve(r) ==
    LET q == req[r].q IN
    /\ At(r, "update") /\ req[r].op = "approve"
    /\ IF IsOwner(r) /\ quotes[q].status = "quoted" /\ Expires(q) > clock
       THEN /\ quotes' = [quotes EXCEPT ![q].status = "approved"]
            /\ consent' = [consent EXCEPT ![q] = "approved"]
       ELSE UNCHANGED <<quotes, consent>>
    /\ Finish(r)
    /\ UNCHANGED <<clock, provider, session, setups, startup, issued, exchanged, saved, drops, lost>>

Cancel(r) ==
    LET q == req[r].q IN
    /\ At(r, "update") /\ req[r].op = "cancel"
    /\ IF IsOwner(r) /\ quotes[q].status \in {"quoted", "approved"}
       THEN /\ quotes' = [quotes EXCEPT ![q].status = "cancelled"]
            /\ consent' = [consent EXCEPT ![q] = "cancelled"]
       ELSE UNCHANGED <<quotes, consent>>
    /\ Finish(r)
    /\ UNCHANGED <<clock, provider, session, setups, startup, issued, exchanged, saved, drops, lost>>

\* An existing setup is confirmed if its limit is the same; a new one needs a
\* quote still good.
SaveSetup(r, p, q, limit) ==
    /\ Begins(r, p, "setup", TRUE)
    /\ Owned(q) /\ quotes[q].article
    /\ limit \in ArticlePrice .. FaceValue
    /\ \/ /\ setups[q] = limit
          /\ saved' = [saved EXCEPT ![q] = @ \cup {limit}]
          /\ UNCHANGED req
       \/ /\ setups[q] = None
          /\ quotes[q].status = "quoted" /\ Expires(q) > clock
          /\ Become(r, [Idle EXCEPT !.op = "setup", !.pc = "insert", !.at = p, !.q = q, !.got = limit])
          /\ UNCHANGED saved
    /\ UNCHANGED <<clock, provider, tables, startup, issued, exchanged, consent, drops, lost>>

\* Slip: INSERT OR REPLACE.
InsertSetupOver(r) ==
    /\ At(r, "insert")
    /\ setups' = [setups EXCEPT ![req[r].q] = req[r].got]
    /\ saved' = [saved EXCEPT ![req[r].q] = @ \cup {req[r].got}]
    /\ Finish(r)
    /\ UNCHANGED <<clock, provider, session, quotes, startup, issued, exchanged, consent, drops, lost>>

\* INSERT OR IGNORE, and read back which limit is there.
InsertSetup(r) ==
    LET q == req[r].q IN
    /\ At(r, "insert")
    /\ setups' = [setups EXCEPT ![q] = IF @ = None THEN req[r].got ELSE @]
    /\ saved' = IF setups'[q] = req[r].got
                THEN [saved EXCEPT ![q] = @ \cup {req[r].got}] ELSE saved
    /\ Finish(r)
    /\ UNCHANGED <<clock, provider, session, quotes, startup, issued, exchanged, consent, drops, lost>>

-----------------------------------------------------------------------------
(* The invoice *)

Purchase(r, p, q) ==
    /\ Begins(r, p, "purchase", TRUE)
    /\ Owned(q) /\ quotes[q].status = "approved" /\ Expires(q) > clock
    /\ BeginCall(r, p, "purchase", q)
    /\ UNCHANGED <<clock, provider, tables, startup, history, drops, lost>>

\* Slip: an uncertain quote does not count.
SpentForSure ==
    MapThenSumSet(LAMBDA q : quotes[q].price,
                  {q \in Quotes : /\ quotes[q].created + Day >= clock
                                  /\ quotes[q].status \in Claimed \ {"reconciliation_required"}})

Spent ==
    MapThenSumSet(LAMBDA q : quotes[q].price,
                  {q \in Quotes : quotes[q].created + Day >= clock /\ quotes[q].status \in Claimed})

\* Slip: the status was read before, and is not looked at again.
CanClaimAnyStatus(r, q) ==
    /\ IsOwner(r) /\ Expires(q) > clock
    /\ Spent + quotes[q].price <= DailyEur

CanClaim(r, q) ==
    /\ IsOwner(r) /\ quotes[q].status = "approved" /\ Expires(q) > clock
    /\ Spent + quotes[q].price <= DailyEur

\* The details fetched again are no longer those approved.
ExpireChanged(r) ==
    LET q == req[r].q IN
    /\ At(r, "priced") /\ req[r].op = "purchase" /\ req[r].got # quotes[q].price
    /\ quotes' = [quotes EXCEPT ![q].status = "expired"]
    /\ Finish(r)
    /\ UNCHANGED <<clock, provider, session, setups, startup, history, drops, lost>>

\* "Durable atomic claim": one UPDATE, with the budget in its WHERE.
Claim(r) ==
    LET q == req[r].q IN
    /\ At(r, "priced") /\ req[r].op = "purchase" /\ req[r].got = quotes[q].price
    /\ \/ /\ CanClaim(r, q)
          /\ quotes' = [quotes EXCEPT ![q].status = "reconciliation_required"]
          /\ Become(r, [req[r] EXCEPT !.pc = "buy"])
       \/ ~CanClaim(r, q) /\ Finish(r) /\ UNCHANGED quotes
    /\ UNCHANGED <<clock, provider, session, setups, startup, history, drops, lost>>

\* Slip: an error is retried.
BuyRetrying(r) ==
    LET q == req[r].q IN
    /\ At(r, "buy")
    /\ calls' = [calls EXCEPT ![q] = Append(@, clock)]
    /\ \/ UNCHANGED <<req, invoices>>
       \/ /\ invoices' = [invoices EXCEPT ![q] = "unpaid"]
          /\ Become(r, [req[r] EXCEPT !.pc = "told"])
    /\ UNCHANGED <<clock, live, tables, startup, history, drops, lost>>

\* buy-products, never retried: refused, done and told, or done without an
\* invoice_id in the answer.
Buy(r) ==
    LET q == req[r].q IN
    /\ At(r, "buy")
    /\ calls' = [calls EXCEPT ![q] = Append(@, clock)]
    /\ \/ Finish(r) /\ UNCHANGED invoices
       \/ /\ invoices' = [invoices EXCEPT ![q] = "unpaid"]
          /\ \/ Become(r, [req[r] EXCEPT !.pc = "told"])
             \/ Finish(r)
    /\ UNCHANGED <<clock, live, tables, startup, history, drops, lost>>

RecordInvoice(r) ==
    LET q == req[r].q IN
    /\ At(r, "told")
    /\ quotes' = [quotes EXCEPT ![q].status = "awaiting_payment", ![q].invoice = TRUE]
    /\ Finish(r)
    /\ UNCHANGED <<clock, provider, session, setups, startup, history, drops, lost>>

Order(r, p, q) ==
    /\ Begins(r, p, "order", TRUE)
    /\ Owned(q) /\ quotes[q].invoice
    /\ quotes[q].status \in {"awaiting_payment", "payment_pending", "reconciliation_required"}
    /\ BeginCall(r, p, "order", q)
    /\ UNCHANGED <<clock, provider, tables, startup, history, drops, lost>>

\* get-invoice-by-id
PollInvoice(r) ==
    /\ At(r, "call") /\ req[r].op = "order"
    /\ Become(r, [req[r] EXCEPT !.pc = "polled", !.s = NoSession, !.invoice = invoices[req[r].q]])
    /\ UNCHANGED <<clock, provider, tables, startup, history, drops, lost>>

\* Slip: the provider's word is stored.
StatusOfProvider(invoice) == invoice

\* Slip: an invoice the provider gave up on expires the quote.
StatusOfExpired(invoice) ==
    CASE invoice = "complete" -> "fulfilled"
      [] invoice = "unpaid"   -> "awaiting_payment"
      [] invoice = "detected" -> "payment_pending"
      [] OTHER                -> "expired"

StatusOf(invoice) ==
    CASE invoice = "complete" -> "fulfilled"
      [] invoice = "unpaid"   -> "awaiting_payment"
      [] invoice = "detected" -> "payment_pending"
      [] OTHER                -> "reconciliation_required"

RecordPoll(r) ==
    /\ At(r, "polled")
    /\ quotes' = [quotes EXCEPT ![req[r].q].status = StatusOf(req[r].invoice)]
    /\ Finish(r)
    /\ UNCHANGED <<clock, provider, session, setups, startup, history, drops, lost>>

-----------------------------------------------------------------------------
(* Starting, stopping, and what happens outside *)

\* A replica takes the client_id it finds, or registers: the case of a development
\* origin.  Elsewhere the configuration fixes the id.
Boot(p) ==
    /\ p \in layout /\ client[p] = None
    /\ client' = [client EXCEPT ![p] = IF config = None THEN "registering" ELSE config]
    /\ UNCHANGED <<clock, provider, tables, config, layout, mix, req, history, drops, lost>>

\* Slip: INSERT OR IGNORE, and serve with the id registered.
RegisterAnyway(p) ==
    /\ client[p] = "registering"
    /\ config' = IF config = None THEN p ELSE config
    /\ client' = [client EXCEPT ![p] = p]
    /\ UNCHANGED <<clock, provider, tables, layout, mix, req, history, drops, lost>>

\* The id the provider registered is inserted, or the start fails: another
\* replica was first.
Register(p) ==
    /\ client[p] = "registering"
    /\ config' = IF config = None THEN p ELSE config
    /\ client' = [client EXCEPT ![p] = IF config = None THEN p ELSE None]
    /\ UNCHANGED <<clock, provider, tables, layout, mix, req, history, drops, lost>>

\* A refreshed or revoked token that is not in the table yet.
HoldsToken(r) == req[r].pc \in {"keep", "wipe"}

Drop(r) ==
    /\ ~At(r, "idle") /\ drops < mix.drops
    /\ Finish(r)
    /\ drops' = drops + 1
    /\ lost' = (lost \/ HoldsToken(r))
    /\ UNCHANGED <<clock, provider, tables, startup, history>>

Crash(p) ==
    /\ client[p] # None /\ drops < mix.drops
    /\ client' = [client EXCEPT ![p] = None]
    /\ req' = [r \in Requests |-> IF req[r].at = p THEN Idle ELSE req[r]]
    /\ drops' = drops + 1
    /\ lost' = (lost \/ \E r \in Requests : req[r].at = p /\ HoldsToken(r))
    /\ UNCHANGED <<clock, provider, tables, config, layout, mix, history>>

\* A request makes a few calls of twenty seconds at most: the clock may move
\* while it is under way, once.
Tick ==
    /\ clock < mix.time
    /\ \A r \in Requests : ~req[r].late
    /\ clock' = clock + 1
    /\ req' = [r \in Requests |-> [req[r] EXCEPT !.late = ~At(r, "idle")]]
    /\ UNCHANGED <<provider, tables, startup, history, drops, lost>>

Reprice ==
    /\ issued["price"] < mix.reprices
    /\ issued' = [issued EXCEPT !["price"] = @ + 1]
    /\ UNCHANGED <<clock, provider, tables, startup, req, exchanged, saved, consent, drops, lost>>

\* The buyer pays in a wallet of their own, or does not; left out where nobody
\* polls.
InvoiceMoves(q) ==
    /\ "order" \in mix.ops
    /\ \/ invoices[q] = "unpaid" /\ invoices' = [invoices EXCEPT ![q] = "detected"]
       \/ invoices[q] = "unpaid" /\ invoices' = [invoices EXCEPT ![q] = "other"]
       \/ invoices[q] = "detected" /\ invoices' = [invoices EXCEPT ![q] = "complete"]
    /\ UNCHANGED <<clock, live, calls, tables, startup, req, history, drops, lost>>

Handler(r) ==
    \/ Save(r) \/ ProviderFails(r) \/ Refresh(r) \/ Exchange(r) \/ Revoke(r) \/ CancelAll(r)
    \/ Searched(r) \/ ProductDetails(r) \/ (\E q \in Quotes : Quote(r, q) \/ MatchArticle(r, q))
    \/ Approve(r) \/ Cancel(r) \/ InsertSetup(r)
    \/ ExpireChanged(r) \/ Claim(r) \/ Buy(r) \/ RecordInvoice(r) \/ PollInvoice(r) \/ RecordPoll(r)

Arrival(r, p) ==
    \/ OauthStart(r, p) \/ OauthCallback(r, p) \/ Disconnect(r, p) \/ Search(r, p)
    \/ \E op \in Ops : Browse(r, p, op)
    \/ \E q \in Quotes :
          \/ \E op \in Ops : BeginUpdate(r, p, op, q)
          \/ \E limit \in Limits : SaveSetup(r, p, q, limit)
          \/ Purchase(r, p, q)
          \/ Order(r, p, q)

Outside ==
    \/ Page \/ Tick \/ Reprice
    \/ \E p \in Replicas : Boot(p) \/ Register(p) \/ Crash(p)
    \/ \E q \in Quotes : InvoiceMoves(q)
    \/ \E r \in Requests : Drop(r)

Next ==
    \/ \E r \in Requests : Handler(r) \/ \E p \in Replicas : Arrival(r, p)
    \/ Outside

Spec == Init /\ [][Next]_vars

-----------------------------------------------------------------------------
(* What must hold, with any number of replicas *)

\* "Concurrent/repeated requests cannot resubmit the same quote, even across
\* worker restarts" (deploy/BITREFILL.md:15): buy-products is called once for a
\* quote, whoever retries, goes away or dies.
OneInvoice == \A q \in Quotes : Len(calls[q]) <= 1

\* An invoice is asked for only a quote whose approval is the last word its user
\* was given, and at the price approved: a cancellation confirmed while the
\* purchase awaits the details wins, a quote merely asked for is not bought, and
\* the details that come back cost what the user saw.
BuysWhatWasApproved ==
    \A r \in Requests : At(r, "buy") =>
        /\ consent[req[r].q] = "approved"
        /\ req[r].got = quotes[req[r].q].price

\* A limit confirmed to a client is the limit of the setup, for ever: of two
\* that race to save different limits, one is told no.
SetupIsFixed == \A q \in Quotes : saved[q] \subseteq {setups[q]}

\* Every replica that serves uses the client_id of the table, whichever of two
\* that start together registers first.
OneClientId == \A p \in Replicas : client[p] \in Replicas => client[p] = config

-----------------------------------------------------------------------------
(* What holds because one replica is deployed (deploy/BITREFILL.md:45) *)

OneReplica == \E p \in Replicas : layout = {p}

\* "An uncertain provider result stays claimed forever" (lib.rs:1048): a quote
\* once claimed stays among those the budget counts, and a delivered one stays
\* delivered.
ClaimIsDurable ==
    [][OneReplica => \A q \in Quotes :
          /\ quotes[q].status \in Claimed => quotes'[q].status \in Claimed
          /\ quotes[q].status = "fulfilled" => quotes'[q].status = "fulfilled"]_vars

\* The quotes of the last day that were sent to the provider fit the budget,
\* the uncertain ones included.
BudgetHolds ==
    OneReplica =>
        MapThenSumSet(LAMBDA q : quotes[q].price,
                      {q \in Quotes : calls[q] # << >> /\ quotes[q].created + Day >= clock})
            <= DailyEur

\* Once disconnected, a session gets a token from a new OAuth exchange only,
\* and nothing is bought for it without one.
DisconnectIsFinal ==
    [][OneReplica /\ session.token = 0 =>
          /\ session'.token # 0 => \E r \in Requests : At(r, "save") /\ req[r].op = "callback"
          /\ \A q \in Quotes : calls'[q] # calls[q] => ~Owned(q)]_vars

\* "single-use state" (deploy/BITREFILL.md:11): the code that comes back with a
\* state is exchanged at most once.
StateIsSingleUse == OneReplica => \A n \in 1 .. MaxStarts : exchanged[n] <= 1

\* "token refresh is serialized within the process" (deploy/BITREFILL.md:45): a
\* refresh token is never presented after it was replaced, unless its successor
\* was lost on the way.
RefreshIsSerialized ==
    OneReplica /\ ~lost => \A r \in Requests : At(r, "refresh") => req[r].s.token \in live

=============================================================================
