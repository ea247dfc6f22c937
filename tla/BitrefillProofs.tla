-------------------------- MODULE BitrefillProofs --------------------------
(***************************************************************************)
(* Theorems about Bitrefill, for any number of replicas, requests, quotes, *)
(* drops and prices: first what needs no gate, then what one replica adds. *)
(*                                                                         *)
(* An invoice is asked for once because the claim is one UPDATE that moves *)
(* an approved quote out of the statuses it could be claimed or cancelled  *)
(* from, and nothing moves it back: InvoiceInv.                            *)
(* What it claims is what the user approved last (ConsentInv): only a      *)
(* quote not yet claimed can still be cancelled or written anew.           *)
(*                                                                         *)
(* With one replica a single request holds the gate (GateInv), so what it  *)
(* read of the session, the tokens and its quote is still so when it       *)
(* writes: CarryInv, TokenInv, StateInv, ClaimInv.                         *)
(*                                                                         *)
(* The budget is a sum over a set: BudgetInv rests on what a sum is when a *)
(* member is added or the set shrinks, by induction over its subsets.      *)
(***************************************************************************)
EXTENDS Bitrefill, FiniteSetTheorems, TLAPS

Rows == [status : Statuses, price : Nat, created : Nat, owner : Nat, article : BOOLEAN,
         invoice : BOOLEAN]

Locals == [op : Ops \cup {None}, pc : PCs, at : Replicas \cup {None}, q : Quotes \cup {None},
           s : Sessions, got : Nat, invoice : Invoices, late : BOOLEAN]

\* The locals of a request are set where they are used.
Fitting ==
    {x \in Locals :
        /\ x.op \in {"purchase", "order"} \/ x.pc \in {"buy", "told"} => x.q \in Quotes
        /\ x.pc = "insert" => x.got \in Limits}

TypeInv ==
    /\ TypeOK
    /\ req \in [Requests -> Fitting]
    /\ issued["price"] <= mix.reprices

LEMMA MixFacts ==
    ASSUME NEW m \in Mixes
    PROVE  /\ m.reprices \in Nat /\ m.reprices < Len(PriceList)
           /\ m.starts \in Nat /\ m.tokens \in Nat /\ m.drops \in Nat /\ m.time \in Nat
           /\ m.quotes \subseteq Quotes
  BY BitrefillAssumption DEF Mix

LEMMA ConstantFacts ==
    /\ PriceList \in Seq(Nat) /\ Limits \subseteq Nat /\ Day \in Nat /\ MaxStarts \in Nat
    /\ None \notin Ops /\ None \notin Replicas /\ None \notin Limits /\ "registering" \notin Replicas
  BY BitrefillAssumption

LEMMA PriceIsNat == TypeInv => price \in Nat
<1> SUFFICES ASSUME TypeInv PROVE price \in Nat
  OBVIOUS
<1>1. issued["price"] \in Nat /\ issued["price"] <= mix.reprices /\ mix \in Mixes
  BY DEF TypeInv, TypeOK
<1>2. issued["price"] + 1 \in 1 .. Len(PriceList)
  BY <1>1, MixFacts, ConstantFacts
<1> QED BY <1>2, ConstantFacts DEF price

LEMMA SessionFacts ==
    /\ NoSession \in Sessions
    /\ \A s \in Sessions : Bare(s) \in Sessions
    /\ \A s \in Sessions, n \in Nat :
          /\ [s EXCEPT !.oauth = n] \in Sessions
          /\ [s EXCEPT !.token = n] \in Sessions
          /\ [s EXCEPT !.searched = TRUE] \in Sessions
          /\ [NoSession EXCEPT !.expires = n] \in Sessions
  BY DEF NoSession, Sessions, Bare

LEMMA IdleFits == Idle \in Fitting /\ Idle \in Locals
  BY SessionFacts, ConstantFacts DEF Idle, Fitting, Locals, PCs, Invoices, Ops

LEMMA InitTypeInv == Init => TypeInv
<1> SUFFICES ASSUME Init PROVE TypeInv
  OBVIOUS
<1>1. mix \in Mixes /\ mix.reprices \in Nat
  BY MixFacts DEF Init
<1>2. req \in [Requests -> Fitting] /\ req \in [Requests -> Locals]
  BY IdleFits DEF Init
<1>3. session \in Sessions
  BY ConstantFacts, SessionFacts DEF Init
<1>4. issued \in [{"oauth", "token", "price"} -> Nat] /\ issued["price"] = 0
  BY DEF Init
<1>5. quotes \in [Quotes -> Rows]
  <2>1. NoQuote \in Rows
    BY DEF NoQuote, Rows, Statuses, Claimed
  <2> QED BY <2>1 DEF Init
<1>6. invoices \in [Quotes -> Invoices] /\ live \subseteq Nat /\ calls \in [Quotes -> Seq(Nat)]
  BY DEF Init, Invoices
<1>7. setups \in [Quotes -> Limits \cup {None}] /\ saved \in [Quotes -> SUBSET Limits]
  BY DEF Init
<1>8. exchanged \in [1 .. MaxStarts -> Nat] /\ consent \in [Quotes -> {"none", "approved", "cancelled"}]
  BY DEF Init
<1>9. /\ clock \in Nat /\ drops \in Nat /\ lost \in BOOLEAN
      /\ config \in Replicas \cup {None}
      /\ client \in [Replicas -> Replicas \cup {None, "registering"}]
      /\ layout \subseteq Replicas
  BY DEF Init
<1>10. TypeOK
  BY <1>1, <1>2, <1>3, <1>4, <1>5, <1>6, <1>7, <1>8, <1>9 DEF TypeOK, Rows, Locals
<1> QED BY <1>1, <1>2, <1>4, <1>10 DEF TypeInv

-----------------------------------------------------------------------------
(* Type correctness, one group of actions at a time *)

LEMMA Unfolded ==
    ASSUME TypeInv
    PROVE  /\ req \in [Requests -> Fitting] /\ req \in [Requests -> Locals]
           /\ quotes \in [Quotes -> Rows] /\ session \in Sessions
           /\ calls \in [Quotes -> Seq(Nat)] /\ mix \in Mixes /\ layout \subseteq Replicas
           /\ clock \in Nat
           /\ \A r \in Requests :
                 /\ req[r] \in Fitting /\ req[r] \in Locals
                 /\ req[r].s \in Sessions /\ req[r].got \in Nat /\ req[r].q \in Quotes \cup {None}
  BY DEF TypeInv, TypeOK, Rows, Locals

\* A request that goes on, or ends, with locals that fit.
LEMMA BecomeTypes ==
    ASSUME TypeInv, NEW r, NEW x \in Fitting, Become(r, x)
    PROVE  req' \in [Requests -> Fitting] /\ req' \in [Requests -> Locals]
  BY Unfolded DEF Become, Fitting

LEMMA FinishTypes ==
    ASSUME TypeInv, NEW r, Finish(r)
    PROVE  req' \in [Requests -> Fitting] /\ req' \in [Requests -> Locals]
  BY BecomeTypes, IdleFits DEF Finish

\* A step that types what it writes of these, and leaves the rest.
LEMMA WordsKept ==
    ASSUME TypeInv, req' \in [Requests -> Fitting] /\ req' \in [Requests -> Locals],
           quotes' \in [Quotes -> Rows], session' \in Sessions,
           consent' \in [Quotes -> {"none", "approved", "cancelled"}],
           UNCHANGED <<clock, invoices, live, calls, setups, startup, issued, exchanged, saved, drops, lost>>
    PROVE  TypeInv'
<1>1. TypeOK'
  BY DEF TypeInv, TypeOK, startup, Rows, Locals
<1> QED BY <1>1 DEF TypeInv, startup

LEMMA TypesKept ==
    ASSUME TypeInv, req' \in [Requests -> Fitting] /\ req' \in [Requests -> Locals],
           quotes' \in [Quotes -> Rows], session' \in Sessions,
           UNCHANGED <<clock, invoices, live, calls, setups, startup, history, drops, lost>>
    PROVE  TypeInv'
<1>1. consent' \in [Quotes -> {"none", "approved", "cancelled"}]
  BY DEF TypeInv, TypeOK, history
<1> QED BY <1>1, WordsKept DEF history

\* A step of one request that writes nothing else.
LEMMA LocalStep ==
    ASSUME TypeInv, NEW r, NEW x \in Fitting, Become(r, x),
           UNCHANGED <<clock, provider, tables, startup, history, drops, lost>>
    PROVE  TypeInv'
  BY BecomeTypes, TypesKept, Unfolded DEF provider, tables

\* A request as it begins.
LEMMA BeginFits ==
    ASSUME TypeInv, NEW r, NEW p \in Replicas, NEW op \in Ops, NEW q \in Quotes \cup {None},
           NEW pc \in PCs \ {"buy", "told", "insert"}, NEW s \in Sessions,
           op \in {"purchase", "order"} => q \in Quotes,
           Begin(r, p, op, q, pc, s)
    PROVE  \E x \in Fitting : Become(r, x)
<1> DEFINE x == [Idle EXCEPT !.op = op, !.pc = pc, !.at = p, !.q = q, !.s = s]
<1>1. x \in Locals /\ x.op = op /\ x.pc = pc /\ x.q = q
  BY IdleFits DEF Locals
<1>2. x \in Fitting
  BY <1>1 DEF Fitting
<1> QED BY <1>2 DEF Begin

\* A request that goes on to a place that asks nothing of its locals.
LEMMA GoesOn ==
    ASSUME NEW x \in Fitting, NEW pc \in PCs \ {"buy", "told", "insert"}
    PROVE  /\ [x EXCEPT !.pc = pc] \in Fitting
           /\ \A s \in Sessions : [x EXCEPT !.pc = pc, !.s = s] \in Fitting
           /\ \A s \in Sessions, n \in Nat : [x EXCEPT !.pc = pc, !.s = s, !.got = n] \in Fitting
           /\ \A s \in Sessions, i \in Invoices :
                 [x EXCEPT !.pc = pc, !.s = s, !.invoice = i] \in Fitting
  BY DEF Fitting, Locals

Opening(r, p) ==
    \/ OauthCallback(r, p) \/ Disconnect(r, p) \/ Search(r, p)
    \/ \E op \in Ops : Browse(r, p, op)
    \/ \E q \in Quotes :
          \/ \E op \in Ops : BeginUpdate(r, p, op, q)
          \/ Purchase(r, p, q) \/ Order(r, p, q)

LEMMA OpeningTypes ==
    ASSUME TypeInv, NEW r \in Requests, NEW p \in Replicas, Opening(r, p)
    PROVE  TypeInv'
<1> USE DEF Ops, PCs
<1>1. session \in Sessions /\ Bare(session) \in Sessions
  BY Unfolded, SessionFacts
<1>2. CASE OauthCallback(r, p)
  <2> DEFINE x == [Idle EXCEPT !.op = "callback", !.pc = "forget", !.at = p,
                               !.s = [session EXCEPT !.oauth = 0], !.got = session.oauth]
  <2>1. [session EXCEPT !.oauth = 0] \in Sessions /\ session.oauth \in Nat
    BY <1>1, SessionFacts DEF Sessions
  <2>2. x \in Locals /\ x.op = "callback" /\ x.pc = "forget"
    BY <2>1, IdleFits DEF Locals
  <2>3. x \in Fitting
    BY <2>2 DEF Fitting
  <2>4. Become(r, x)
    BY <1>2 DEF OauthCallback
  <2> QED BY <1>2, <2>3, <2>4, LocalStep DEF OauthCallback
<1>3. CASE Disconnect(r, p)
  <2>1. \E x \in Fitting : Become(r, x)
    BY <1>1, <1>3, BeginFits DEF Disconnect
  <2> QED BY <1>3, <2>1, LocalStep DEF Disconnect
<1>4. CASE Search(r, p)
  <2>1. \E x \in Fitting : Become(r, x)
    BY <1>1, <1>4, BeginFits DEF Search, BeginCall
  <2> QED BY <1>4, <2>1, LocalStep DEF Search
<1>5. ASSUME NEW op \in Ops, Browse(r, p, op) PROVE TypeInv'
  <2>1. \E x \in Fitting : Become(r, x)
    BY <1>1, <1>5, BeginFits DEF Browse, BeginCall
  <2> QED BY <1>5, <2>1, LocalStep DEF Browse
<1>6. ASSUME NEW q \in Quotes, NEW op \in Ops, BeginUpdate(r, p, op, q) PROVE TypeInv'
  <2>1. \E x \in Fitting : Become(r, x)
    BY <1>1, <1>6, BeginFits DEF BeginUpdate
  <2> QED BY <1>6, <2>1, LocalStep DEF BeginUpdate
<1>7. ASSUME NEW q \in Quotes, Purchase(r, p, q) PROVE TypeInv'
  <2>1. \E x \in Fitting : Become(r, x)
    BY <1>1, <1>7, BeginFits DEF Purchase, BeginCall
  <2> QED BY <1>7, <2>1, LocalStep DEF Purchase
<1>8. ASSUME NEW q \in Quotes, Order(r, p, q) PROVE TypeInv'
  <2>1. \E x \in Fitting : Become(r, x)
    BY <1>1, <1>8, BeginFits DEF Order, BeginCall
  <2> QED BY <1>8, <2>1, LocalStep DEF Order
<1> QED BY <1>2, <1>3, <1>4, <1>5, <1>6, <1>7, <1>8 DEF Opening

\* Calls of the provider that change nothing there that is modelled.
LEMMA AnswerTypes ==
    ASSUME TypeInv, NEW r \in Requests,
           ProviderFails(r) \/ Searched(r) \/ ProductDetails(r) \/ PollInvoice(r)
    PROVE  TypeInv'
<1> USE DEF PCs
<1>1. req[r] \in Fitting /\ req[r] \in Locals /\ req[r].s \in Sessions
  BY Unfolded
<1>2. CASE ProviderFails(r)
  BY <1>2, IdleFits, LocalStep DEF ProviderFails, Finish
<1>3. CASE Searched(r)
  <2> DEFINE s == [req[r].s EXCEPT !.searched = TRUE]
  <2>1. s \in Sessions
    BY <1>1, SessionFacts
  <2>2. Become(r, [req[r] EXCEPT !.pc = "save", !.s = s])
    BY <1>1, <1>3 DEF Searched
  <2>3. [req[r] EXCEPT !.pc = "save", !.s = s] \in Fitting
    BY <1>1, <2>1, GoesOn
  <2> QED BY <1>3, <2>2, <2>3, LocalStep DEF Searched
<1>4. CASE ProductDetails(r)
  <2>1. CASE Finish(r)
    BY <1>4, <2>1, IdleFits, LocalStep DEF ProductDetails, Finish
  <2>2. CASE Become(r, [req[r] EXCEPT !.pc = "priced", !.s = Bare(@), !.got = price])
    <3> DEFINE s == Bare(req[r].s)
    <3>1. s \in Sessions /\ price \in Nat
      BY <1>1, SessionFacts, PriceIsNat
    <3>2. [req[r] EXCEPT !.pc = "priced", !.s = s, !.got = price] \in Fitting
      BY <1>1, <3>1, GoesOn
    <3> QED BY <1>4, <2>2, <3>2, LocalStep DEF ProductDetails
  <2> QED BY <1>4, <2>1, <2>2 DEF ProductDetails
<1>5. CASE PollInvoice(r)
  <2> DEFINE i == invoices[req[r].q]
  <2>1. req[r].q \in Quotes
    BY <1>1, <1>5 DEF PollInvoice, Fitting
  <2>2. i \in Invoices
    BY <2>1 DEF TypeInv, TypeOK
  <2>3. [req[r] EXCEPT !.pc = "polled", !.s = NoSession, !.invoice = i] \in Fitting
    BY <1>1, <2>2, SessionFacts, GoesOn
  <2> QED BY <1>5, <2>3, LocalStep DEF PollInvoice
<1> QED BY <1>2, <1>3, <1>4, <1>5

\* What the handlers write of the session and the quotes.
LEMMA SaveTypes ==
    ASSUME TypeInv, NEW r \in Requests, Save(r)
    PROVE  TypeInv'
<1> USE DEF PCs
<1>1. req[r] \in Fitting /\ req[r].s \in Sessions
  BY Unfolded
<1>2. \E x \in Fitting : Become(r, x)
  BY <1>1, GoesOn, IdleFits, SessionFacts DEF Save, Finish, Invoices
<1>3. session' \in Sessions
  BY <1>1, Unfolded DEF Save, SaveSession
<1> QED BY <1>2, <1>3, BecomeTypes, TypesKept, Unfolded DEF Save, provider

Writing(r) ==
    \/ \E q \in Quotes : Quote(r, q) \/ MatchArticle(r, q)
    \/ CancelAll(r) \/ Approve(r) \/ Cancel(r) \/ ExpireChanged(r) \/ RecordInvoice(r) \/ RecordPoll(r)

\* Of a quote only its status changes.
Marks(q, statuses) ==
    \/ UNCHANGED quotes
    \/ \E s \in statuses : quotes' = [quotes EXCEPT ![q].status = s]

LEMMA MarksTypes ==
    ASSUME TypeInv, NEW q, Marks(q, Statuses)
    PROVE  quotes' \in [Quotes -> Rows]
  BY Unfolded DEF Marks, Rows

LEMMA WritingQuotes ==
    ASSUME TypeInv, NEW r \in Requests, Writing(r)
    PROVE  quotes' \in [Quotes -> Rows]
<1>1. ASSUME NEW q \in Quotes, Quote(r, q) \/ MatchArticle(r, q) PROVE quotes' \in [Quotes -> Rows]
  <2>1. req[r].got \in Nat /\ req[r].s.expires \in Nat /\ clock \in Nat
    BY Unfolded DEF Sessions
  <2>2. PICK op : quotes' = [quotes EXCEPT ![q] =
                     [status |-> "quoted", price |-> req[r].got, created |-> clock,
                      owner |-> req[r].s.expires, article |-> op = "match", invoice |-> FALSE]]
    BY <1>1 DEF Quote, MatchArticle, InsertQuote
  <2>3. [status |-> "quoted", price |-> req[r].got, created |-> clock, owner |-> req[r].s.expires,
         article |-> op = "match", invoice |-> FALSE] \in Rows
    BY <2>1 DEF Rows, Statuses
  <2> QED BY <2>2, <2>3, Unfolded
<1>2. CASE CancelAll(r)
  <2>1. \A q \in Quotes : [quotes[q] EXCEPT !.status = "cancelled"] \in Rows
    BY Unfolded DEF Rows, Statuses
  <2> QED BY <1>2, <2>1, Unfolded DEF CancelAll
<1>3. CASE Approve(r)
  BY <1>3, MarksTypes DEF Approve, Marks, Statuses
<1>4. CASE Cancel(r)
  BY <1>4, MarksTypes DEF Cancel, Marks, Statuses
<1>5. CASE ExpireChanged(r)
  BY <1>5, MarksTypes DEF ExpireChanged, Marks, Statuses
<1>6. CASE RecordInvoice(r)
  <2> DEFINE row == [quotes[req[r].q] EXCEPT !.status = "awaiting_payment", !.invoice = TRUE]
  <2>1. req[r].q \in Quotes
    BY <1>6, Unfolded DEF RecordInvoice, At, Fitting
  <2>2. row \in Rows
    <3>1. quotes[req[r].q] \in Rows
      BY <2>1, Unfolded
    <3>2. \A x \in Rows : [x EXCEPT !.status = "awaiting_payment"] \in Rows
      BY DEF Rows, Statuses, Claimed
    <3>3. \A x \in Rows : [x EXCEPT !.invoice = TRUE] \in Rows
      BY Zenon DEF Rows
    <3>4. row = [[quotes[req[r].q] EXCEPT !.status = "awaiting_payment"] EXCEPT !.invoice = TRUE]
      OBVIOUS
    <3> QED BY <3>1, <3>2, <3>3, <3>4
  <2>3. quotes' = [quotes EXCEPT ![req[r].q] = row]
    BY <1>6, <2>1, Unfolded DEF RecordInvoice, Rows
  <2> QED BY <2>2, <2>3, Unfolded
<1>7. CASE RecordPoll(r)
  <2>1. StatusOf(req[r].invoice) \in Statuses
    BY DEF StatusOf, Statuses, Claimed
  <2> QED BY <1>7, <2>1, MarksTypes DEF RecordPoll, Marks
<1> QED BY <1>1, <1>2, <1>3, <1>4, <1>5, <1>6, <1>7 DEF Writing

LEMMA WritingTypes ==
    ASSUME TypeInv, NEW r \in Requests, Writing(r)
    PROVE  TypeInv'
<1>1. /\ Finish(r)
      /\ UNCHANGED <<clock, provider, session, setups, startup, issued, exchanged, saved, drops, lost>>
  BY DEF Writing, Quote, MatchArticle, InsertQuote, CancelAll, Approve, Cancel, ExpireChanged,
         RecordInvoice, RecordPoll, history
<1>2. consent' \in [Quotes -> {"none", "approved", "cancelled"}]
  <2>1. consent \in [Quotes -> {"none", "approved", "cancelled"}]
    BY DEF TypeInv, TypeOK
  <2>2. CASE UNCHANGED consent
    BY <2>1, <2>2
  <2>3. CASE CancelAll(r)
    BY <2>1, <2>3 DEF CancelAll
  <2>4. CASE Approve(r) \/ Cancel(r)
    BY <2>1, <2>4 DEF Approve, Cancel
  <2> QED BY <2>2, <2>3, <2>4
          DEF Writing, Quote, MatchArticle, InsertQuote, ExpireChanged, RecordInvoice, RecordPoll, history
<1> QED BY <1>1, <1>2, FinishTypes, WritingQuotes, WordsKept, Unfolded DEF provider

LEMMA ClaimTypes ==
    ASSUME TypeInv, NEW r \in Requests, Claim(r)
    PROVE  TypeInv'
<1>1. req[r] \in Fitting /\ req[r] \in Locals
  BY Unfolded
<1>2. CASE quotes' = [quotes EXCEPT ![req[r].q].status = "reconciliation_required"]
           /\ Become(r, [req[r] EXCEPT !.pc = "buy"])
  <2>1. [req[r] EXCEPT !.pc = "buy"] \in Fitting
    BY <1>1 DEF Claim, Fitting, Locals, PCs
  <2>2. quotes' \in [Quotes -> Rows]
    BY <1>2, MarksTypes DEF Marks, Statuses, Claimed
  <2> QED BY <1>2, <2>1, <2>2, BecomeTypes, TypesKept, Unfolded DEF Claim, provider
<1>3. CASE Finish(r) /\ UNCHANGED quotes
  BY <1>3, FinishTypes, TypesKept, Unfolded DEF Claim, provider
<1> QED BY <1>2, <1>3 DEF Claim

\* Refresh tokens and OAuth requests.
LEMMA IssueTypes ==
    ASSUME TypeInv, NEW revoked, IssueToken(revoked)
    PROVE  /\ issued' \in [{"oauth", "token", "price"} -> Nat] /\ live' \subseteq Nat
           /\ issued'["token"] \in Nat /\ issued'["price"] = issued["price"]
<1>1. issued \in [{"oauth", "token", "price"} -> Nat] /\ live \subseteq Nat
  BY DEF TypeInv, TypeOK
<1>2. issued' = [issued EXCEPT !["token"] = @ + 1] /\ live' = (live \ revoked) \cup {issued'["token"]}
  BY DEF IssueToken
<1>3. issued["token"] + 1 \in Nat
  BY <1>1
<1>4. issued' \in [{"oauth", "token", "price"} -> Nat] /\ issued'["price"] = issued["price"]
  BY <1>1, <1>2, <1>3
<1>5. issued'["token"] \in Nat
  BY <1>4
<1> QED BY <1>1, <1>2, <1>4, <1>5

LEMMA TokenTypes ==
    ASSUME TypeInv, NEW r \in Requests, Refresh(r) \/ Exchange(r) \/ Revoke(r)
    PROVE  TypeInv'
<1> USE DEF PCs
<1>1. req[r] \in Fitting /\ req[r].s \in Sessions
  BY Unfolded
<1>2. CASE Refresh(r)
  <2>1. IssueToken({req[r].s.token})
    BY <1>2 DEF Refresh
  <2> DEFINE s == [req[r].s EXCEPT !.token = issued'["token"]]
  <2>2. s \in Sessions /\ [req[r] EXCEPT !.pc = "keep", !.s = s] \in Fitting
    BY <1>1, <2>1, IssueTypes, SessionFacts, GoesOn
  <2>3. /\ Become(r, [req[r] EXCEPT !.pc = "keep", !.s = s]) \/ Finish(r)
        /\ lost' \in BOOLEAN
    <3>1. lost \in BOOLEAN
      BY DEF TypeInv, TypeOK
    <3> QED BY <1>1, <1>2, <3>1 DEF Refresh
  <2>4. req' \in [Requests -> Fitting] /\ req' \in [Requests -> Locals]
    BY <2>2, <2>3, BecomeTypes, FinishTypes
  <2>5. TypeOK'
    BY <1>2, <2>1, <2>3, <2>4, IssueTypes
    DEF Refresh, TypeInv, TypeOK, tables, startup, Locals
  <2> QED BY <1>2, <2>1, <2>4, <2>5, IssueTypes DEF Refresh, startup, TypeInv
<1>3. CASE Exchange(r)
  <2>1. IssueToken({})
    BY <1>3 DEF Exchange
  <2> DEFINE s == [req[r].s EXCEPT !.token = issued'["token"]]
  <2>2. s \in Sessions /\ [req[r] EXCEPT !.pc = "save", !.s = s, !.got = 0] \in Fitting
    BY <1>1, <2>1, IssueTypes, SessionFacts, GoesOn
  <2>3. Become(r, [req[r] EXCEPT !.pc = "save", !.s = s, !.got = 0]) \/ Finish(r)
    BY <1>1, <1>3 DEF Exchange
  <2>4. req' \in [Requests -> Fitting] /\ req' \in [Requests -> Locals]
    BY <2>2, <2>3, BecomeTypes, FinishTypes
  <2>5. exchanged' \in [1 .. MaxStarts -> Nat]
    <3> DEFINE Ns == 1 .. MaxStarts
               n == req[r].got
    <3>1. exchanged \in [Ns -> Nat] /\ exchanged' = [exchanged EXCEPT ![n] = @ + 1]
      BY <1>3 DEF Exchange, TypeInv, TypeOK
    <3> HIDE DEF Ns, n
    <3>2. CASE n \in Ns
      <4>1. exchanged[n] + 1 \in Nat
        BY <3>1, <3>2
      <4>2. exchanged' \in [Ns -> Nat]
        BY <3>1, <4>1
      <4> QED BY <4>2 DEF Ns
    <3>3. CASE n \notin Ns
      <4>1. exchanged' = exchanged
        BY <3>1, <3>3
      <4> QED BY <3>1, <4>1 DEF Ns
    <3> QED BY <3>2, <3>3
  <2>6. TypeOK'
    BY <1>3, <2>1, <2>4, <2>5, IssueTypes
    DEF Exchange, TypeInv, TypeOK, tables, startup, Locals
  <2> QED BY <1>3, <2>1, <2>4, <2>6, IssueTypes DEF Exchange, startup, TypeInv
<1>4. CASE Revoke(r)
  <2> DEFINE s == Bare(req[r].s)
  <2>1. [req[r] EXCEPT !.pc = "wipe", !.s = s] \in Fitting
    BY <1>1, SessionFacts, GoesOn
  <2>2. Become(r, [req[r] EXCEPT !.pc = "wipe", !.s = s]) /\ live' \subseteq live
    BY <1>1, <1>4 DEF Revoke
  <2>3. req' \in [Requests -> Fitting] /\ req' \in [Requests -> Locals]
    BY <2>1, <2>2, BecomeTypes
  <2>4. TypeOK'
    BY <1>4, <2>2, <2>3 DEF Revoke, TypeInv, TypeOK, tables, startup, history, Locals
  <2> QED BY <1>4, <2>3, <2>4 DEF Revoke, startup, history, TypeInv
<1> QED BY <1>2, <1>3, <1>4

LEMMA StartTypes ==
    ASSUME TypeInv, NEW r \in Requests, NEW p \in Replicas, OauthStart(r, p)
    PROVE  TypeInv'
<1>1. /\ issued' \in [{"oauth", "token", "price"} -> Nat]
      /\ issued'["oauth"] \in Nat /\ issued'["price"] = issued["price"]
  BY DEF OauthStart, TypeInv, TypeOK
<1>2. [session EXCEPT !.oauth = issued'["oauth"]] \in Sessions
  BY <1>1, Unfolded, SessionFacts
<1>3. \E x \in Fitting : Become(r, x)
  BY <1>2, BeginFits DEF OauthStart, PCs, Ops
<1>4. req' \in [Requests -> Fitting] /\ req' \in [Requests -> Locals]
  BY <1>3, BecomeTypes
<1>5. TypeOK'
  BY <1>1, <1>4 DEF OauthStart, TypeInv, TypeOK, provider, tables, startup, Locals
<1> QED BY <1>1, <1>4, <1>5 DEF OauthStart, TypeInv, startup

LEMMA SetupTypes ==
    ASSUME TypeInv, NEW r \in Requests,
           \/ InsertSetup(r)
           \/ \E p \in Replicas, q \in Quotes, limit \in Limits : SaveSetup(r, p, q, limit)
    PROVE  TypeInv'
<1>1. req' \in [Requests -> Fitting] /\ req' \in [Requests -> Locals]
  <2>1. CASE InsertSetup(r)
    BY <2>1, FinishTypes DEF InsertSetup
  <2>2. ASSUME NEW p \in Replicas, NEW q \in Quotes, NEW limit \in Limits, SaveSetup(r, p, q, limit)
        PROVE  req' \in [Requests -> Fitting] /\ req' \in [Requests -> Locals]
    <3> DEFINE x == [Idle EXCEPT !.op = "setup", !.pc = "insert", !.at = p, !.q = q, !.got = limit]
    <3>1. x \in Locals /\ x.op = "setup" /\ x.pc = "insert" /\ x.got = limit
      BY IdleFits, ConstantFacts DEF Locals, Ops, PCs
    <3>2. x \in Fitting
      BY <3>1 DEF Fitting
    <3>3. CASE Become(r, x)
      BY <3>2, <3>3, BecomeTypes
    <3>4. CASE UNCHANGED req
      BY <3>4, Unfolded
    <3> QED BY <2>2, <3>3, <3>4 DEF SaveSetup
  <2> QED BY <2>1, <2>2
<1>2. setups' \in [Quotes -> Limits \cup {None}]
  BY Unfolded DEF InsertSetup, SaveSetup, At, Fitting, TypeInv, TypeOK, tables
<1>3. saved' \in [Quotes -> SUBSET Limits]
  <2>1. saved \in [Quotes -> SUBSET Limits]
    BY DEF TypeInv, TypeOK
  <2>2. CASE UNCHANGED saved
    BY <2>1, <2>2
  <2>3. ASSUME NEW q, NEW limit \in Limits, saved' = [saved EXCEPT ![q] = @ \cup {limit}]
        PROVE  saved' \in [Quotes -> SUBSET Limits]
    BY <2>1, <2>3
  <2>4. InsertSetup(r) => req[r].got \in Limits
    BY Unfolded DEF InsertSetup, At, Fitting
  <2> QED BY <2>2, <2>3, <2>4 DEF InsertSetup, SaveSetup
<1>4. UNCHANGED <<clock, provider, session, quotes, startup, issued, exchanged, consent, drops, lost>>
  BY DEF InsertSetup, SaveSetup, tables
<1>5. TypeOK'
  BY <1>1, <1>2, <1>3, <1>4 DEF TypeInv, TypeOK, provider, startup, Locals
<1> QED BY <1>1, <1>4, <1>5 DEF TypeInv, startup

LEMMA BuyTypes ==
    ASSUME TypeInv, NEW r \in Requests, Buy(r)
    PROVE  TypeInv'
<1>1. req[r] \in Fitting /\ req[r] \in Locals /\ req[r].q \in Quotes
  BY Unfolded DEF Buy, At, Fitting
<1>2. [req[r] EXCEPT !.pc = "told"] \in Fitting
  BY <1>1 DEF Fitting, Locals, PCs
<1>3. req' \in [Requests -> Fitting] /\ req' \in [Requests -> Locals]
  BY <1>2, BecomeTypes, FinishTypes DEF Buy
<1>4. calls' \in [Quotes -> Seq(Nat)]
  BY <1>1, Unfolded DEF Buy
<1>5. invoices' \in [Quotes -> Invoices]
  BY DEF Buy, TypeInv, TypeOK, Invoices
<1>6. TypeOK'
  BY <1>3, <1>4, <1>5 DEF Buy, TypeInv, TypeOK, tables, startup, history, Locals
<1> QED BY <1>3, <1>6 DEF Buy, TypeInv, startup, history

LEMMA OutsideTypes == TypeInv /\ Outside => TypeInv'
<1> SUFFICES ASSUME TypeInv, Outside PROVE TypeInv'
  OBVIOUS
<1>1. CASE Page
  <2>1. clock + Day \in Nat
    BY Unfolded, ConstantFacts
  <2>2. session' \in Sessions
    BY <1>1, <2>1, SessionFacts DEF Page
  <2> QED BY <1>1, <2>2, TypesKept, Unfolded DEF Page, provider
<1>2. CASE Tick
  <2>1. \A x \in Fitting, b \in BOOLEAN : [x EXCEPT !.late = b] \in Fitting
    <3>1. \A x \in Locals, b \in BOOLEAN : [x EXCEPT !.late = b] \in Locals
      BY Zenon DEF Locals
    <3>2. \A b : \A x \in Locals :
             /\ [x EXCEPT !.late = b].op = x.op
             /\ [x EXCEPT !.late = b].pc = x.pc
             /\ [x EXCEPT !.late = b].q = x.q
             /\ [x EXCEPT !.late = b].got = x.got
      BY DEF Locals
    <3> QED BY <3>1, <3>2 DEF Fitting
  <2>2. \A r \in Requests : [req[r] EXCEPT !.late = ~At(r, "idle")] \in Fitting
    <3> SUFFICES ASSUME NEW r \in Requests
                 PROVE  [req[r] EXCEPT !.late = ~At(r, "idle")] \in Fitting
      OBVIOUS
    <3>1. (~At(r, "idle")) \in BOOLEAN
      OBVIOUS
    <3> QED BY <2>1, <3>1, Unfolded
  <2>3. req' \in [Requests -> Fitting]
    BY <1>2, <2>2, Zenon DEF Tick
  <2>4. req' \in [Requests -> Locals]
    BY <2>3 DEF Fitting
  <2>5. clock' \in Nat
    BY <1>2, Unfolded DEF Tick
  <2>6. TypeOK'
    BY <1>2, <2>4, <2>5 DEF Tick, TypeInv, TypeOK, provider, tables, startup, history, Locals
  <2> QED BY <1>2, <2>3, <2>6 DEF Tick, TypeInv, startup, history
<1>3. CASE Reprice
  <2>1. /\ issued' \in [{"oauth", "token", "price"} -> Nat]
        /\ issued'["price"] <= mix.reprices
    BY <1>3, Unfolded, MixFacts DEF Reprice, TypeInv, TypeOK
  <2>2. TypeOK'
    BY <1>3, <2>1 DEF Reprice, TypeInv, TypeOK, provider, tables, startup, Locals
  <2> QED BY <1>3, <2>1, <2>2 DEF Reprice, TypeInv, startup
<1>4. ASSUME NEW p \in Replicas, Boot(p) \/ Register(p) PROVE TypeInv'
  <2>1. /\ config' \in Replicas \cup {None}
        /\ client' \in [Replicas -> Replicas \cup {None, "registering"}]
    <3>1. /\ config \in Replicas \cup {None}
          /\ client \in [Replicas -> Replicas \cup {None, "registering"}]
      BY DEF TypeInv, TypeOK
    <3>2. CASE Boot(p)
      BY <3>1, <3>2 DEF Boot
    <3>3. CASE Register(p)
      BY <3>1, <3>3 DEF Register
    <3> QED BY <1>4, <3>2, <3>3
  <2>2. UNCHANGED <<clock, provider, tables, layout, mix, req, history, drops, lost>>
    BY <1>4 DEF Boot, Register
  <2>3. TypeOK'
    BY <2>1, <2>2 DEF TypeInv, TypeOK, provider, tables, history, Locals
  <2> QED BY <2>2, <2>3 DEF TypeInv, history
<1>5. ASSUME NEW p \in Replicas, Crash(p) PROVE TypeInv'
  <2>1. req' \in [Requests -> Fitting] /\ req' \in [Requests -> Locals]
    BY <1>5, IdleFits, Unfolded DEF Crash
  <2>2. client' \in [Replicas -> Replicas \cup {None, "registering"}]
    BY <1>5 DEF Crash, TypeInv, TypeOK
  <2>3. drops' \in Nat
    BY <1>5 DEF Crash, TypeInv, TypeOK
  <2>4. lost' \in BOOLEAN
    BY <1>5 DEF Crash
  <2>5. TypeOK'
    BY <1>5, <2>1, <2>2, <2>3, <2>4 DEF Crash, TypeInv, TypeOK, provider, tables, history, Locals
  <2> QED BY <1>5, <2>1, <2>5 DEF Crash, TypeInv, history
<1>6. ASSUME NEW q \in Quotes, InvoiceMoves(q) PROVE TypeInv'
  <2>1. invoices' \in [Quotes -> Invoices]
    <3>1. invoices \in [Quotes -> Invoices]
      BY DEF TypeInv, TypeOK
    <3> QED BY <1>6, <3>1 DEF InvoiceMoves, Invoices
  <2>2. TypeOK'
    BY <1>6, <2>1 DEF InvoiceMoves, TypeInv, TypeOK, tables, startup, history, Locals
  <2> QED BY <1>6, <2>2 DEF InvoiceMoves, TypeInv, startup, history
<1>7. ASSUME NEW r \in Requests, Drop(r) PROVE TypeInv'
  <2>1. req' \in [Requests -> Fitting] /\ req' \in [Requests -> Locals]
    BY <1>7, FinishTypes DEF Drop
  <2>2. drops' \in Nat
    BY <1>7 DEF Drop, TypeInv, TypeOK
  <2>3. lost' \in BOOLEAN
    BY <1>7 DEF Drop
  <2>4. TypeOK'
    BY <1>7, <2>1, <2>2, <2>3
    DEF Drop, TypeInv, TypeOK, provider, tables, startup, history, Locals
  <2> QED BY <1>7, <2>1, <2>4 DEF Drop, TypeInv, startup, history
<1> QED BY <1>1, <1>2, <1>3, <1>4, <1>5, <1>6, <1>7 DEF Outside

LEMMA TypeInvStep == TypeInv /\ [Next]_vars => TypeInv'
<1> SUFFICES ASSUME TypeInv, [Next]_vars PROVE TypeInv'
  OBVIOUS
<1>1. ASSUME NEW r \in Requests, Handler(r) PROVE TypeInv'
  BY <1>1, SaveTypes, AnswerTypes, TokenTypes, WritingTypes, SetupTypes, ClaimTypes, BuyTypes
  DEF Handler, Writing
<1>2. ASSUME NEW r \in Requests, NEW p \in Replicas, Arrival(r, p) PROVE TypeInv'
  BY <1>2, StartTypes, OpeningTypes, SetupTypes DEF Arrival, Opening
<1>3. CASE Outside
  BY <1>3, OutsideTypes
<1>4. CASE UNCHANGED vars
  <2>1. TypeOK'
    BY <1>4 DEF vars, provider, tables, startup, history, TypeInv, TypeOK, Locals
  <2> QED BY <1>4, <2>1 DEF vars, startup, history, TypeInv
<1> QED BY <1>1, <1>2, <1>3, <1>4 DEF Next

-----------------------------------------------------------------------------
(* The invoice *)

\* Where a quote may still be claimed, or may no longer be.
Open == {"none", "quoted", "approved", "cancelled"}

InvoiceInv ==
    /\ \A q \in Quotes :
          /\ Len(calls[q]) <= 1
          /\ calls[q] # << >> => quotes[q].status \notin Open
    /\ \A r \in Requests :
          req[r].pc = "buy" => quotes[req[r].q].status \notin Open /\ calls[req[r].q] = << >>
    /\ \A r, u \in Requests :
          req[r].pc = "buy" /\ req[u].pc = "buy" /\ req[r].q = req[u].q => r = u

LEMMA InitInvoiceInv == Init => InvoiceInv
  BY DEF Init, InvoiceInv, Idle

\* No request comes to the call of buy-products.
NobodyToBuy ==
    \A r \in Requests : req'[r].pc = "buy" =>
        req[r].pc = "buy" /\ req'[r].q = req[r].q /\ req'[r].got = req[r].got

\* No quote comes back to where it may be claimed or cancelled.
NoneReopened ==
    \A q \in Quotes : quotes[q].status \notin Open => quotes'[q].status \notin Open

LEMMA QuietStep ==
    ASSUME TypeInv, InvoiceInv, UNCHANGED calls, NobodyToBuy, NoneReopened
    PROVE  InvoiceInv'
<1>1. \A r \in Requests : req[r].pc = "buy" => req[r].q \in Quotes
  BY Unfolded DEF Fitting
<1> QED BY <1>1 DEF InvoiceInv, NobodyToBuy, NoneReopened

LEMMA BecomeQuiet ==
    ASSUME TypeInv, NEW r \in Requests, NEW x, Become(r, x), x.pc # "buy"
    PROVE  NobodyToBuy
  BY Unfolded DEF Become, NobodyToBuy

LEMMA FinishQuiet ==
    ASSUME TypeInv, NEW r \in Requests, Finish(r)
    PROVE  NobodyToBuy
  BY BecomeQuiet DEF Finish, Idle

\* Steps of a handler that begin or go on elsewhere.
LEMMA MovesQuietly ==
    ASSUME TypeInv, NEW r \in Requests,
           \/ Save(r) \/ ProviderFails(r) \/ Refresh(r) \/ Exchange(r) \/ Revoke(r)
           \/ Searched(r) \/ ProductDetails(r) \/ PollInvoice(r) \/ InsertSetup(r)
           \/ \E p \in Replicas : Arrival(r, p)
    PROVE  NobodyToBuy /\ UNCHANGED <<calls, quotes, consent>>
<1>1. req[r] \in Locals
  BY Unfolded
<1>2. \A s, n, i :
         /\ [req[r] EXCEPT !.pc = "exchange"].pc = "exchange"
         /\ [req[r] EXCEPT !.pc = "call"].pc = "call"
         /\ [req[r] EXCEPT !.pc = "cancel_all"].pc = "cancel_all"
         /\ [req[r] EXCEPT !.pc = "keep", !.s.token = n].pc = "keep"
         /\ [req[r] EXCEPT !.pc = "save", !.s.token = n, !.got = 0].pc = "save"
         /\ [req[r] EXCEPT !.pc = "wipe", !.s = Bare(@)].pc = "wipe"
         /\ [req[r] EXCEPT !.pc = "save", !.s.searched = TRUE].pc = "save"
         /\ [req[r] EXCEPT !.pc = "priced", !.s = Bare(@), !.got = n].pc = "priced"
         /\ [req[r] EXCEPT !.pc = "polled", !.s = NoSession, !.invoice = i].pc = "polled"
  BY <1>1 DEF Locals
<1>3. \A p, op, q, pc, s : pc # "buy" /\ Begin(r, p, op, q, pc, s) => NobodyToBuy
  <2> SUFFICES ASSUME NEW p, NEW op, NEW q, NEW pc, NEW s, pc # "buy", Begin(r, p, op, q, pc, s)
               PROVE  NobodyToBuy
    OBVIOUS
  <2>1. [Idle EXCEPT !.op = op, !.pc = pc, !.at = p, !.q = q, !.s = s].pc = pc
    BY DEF Idle
  <2> QED BY <2>1, BecomeQuiet DEF Begin
<1>4. NobodyToBuy
  <2>1. CASE Save(r)
    BY <1>2, <2>1, BecomeQuiet, FinishQuiet DEF Save
  <2>2. CASE ProviderFails(r)
    BY <2>2, FinishQuiet DEF ProviderFails
  <2>3. CASE Refresh(r)
    BY <1>2, <2>3, BecomeQuiet, FinishQuiet DEF Refresh
  <2>4. CASE Exchange(r)
    BY <1>2, <2>4, BecomeQuiet, FinishQuiet DEF Exchange
  <2>5. CASE Revoke(r)
    BY <1>2, <2>5, BecomeQuiet DEF Revoke
  <2>6. CASE Searched(r)
    BY <1>2, <2>6, BecomeQuiet DEF Searched
  <2>7. CASE ProductDetails(r)
    BY <1>2, <2>7, BecomeQuiet, FinishQuiet DEF ProductDetails
  <2>8. CASE PollInvoice(r)
    BY <1>2, <2>8, BecomeQuiet DEF PollInvoice
  <2>9. CASE InsertSetup(r)
    BY <2>9, FinishQuiet DEF InsertSetup
  <2>10. ASSUME NEW p \in Replicas, Arrival(r, p) PROVE NobodyToBuy
    <3>1. CASE OauthStart(r, p)
      BY <1>3, <3>1 DEF OauthStart
    <3>2. CASE OauthCallback(r, p)
      <4>1. [Idle EXCEPT !.op = "callback", !.pc = "forget", !.at = p,
                         !.s = [session EXCEPT !.oauth = 0], !.got = session.oauth].pc = "forget"
        BY DEF Idle
      <4> QED BY <3>2, <4>1, BecomeQuiet DEF OauthCallback
    <3>3. CASE Disconnect(r, p)
      BY <1>3, <3>3 DEF Disconnect
    <3>4. CASE Search(r, p)
      BY <1>3, <3>4 DEF Search, BeginCall
    <3>5. ASSUME NEW op \in Ops, Browse(r, p, op) PROVE NobodyToBuy
      BY <1>3, <3>5 DEF Browse, BeginCall
    <3>6. ASSUME NEW q \in Quotes, NEW op \in Ops, BeginUpdate(r, p, op, q) PROVE NobodyToBuy
      BY <1>3, <3>6 DEF BeginUpdate
    <3>7. ASSUME NEW q \in Quotes, NEW limit \in Limits, SaveSetup(r, p, q, limit)
          PROVE  NobodyToBuy
      <4>1. CASE UNCHANGED req
        BY <4>1 DEF NobodyToBuy
      <4>2. [Idle EXCEPT !.op = "setup", !.pc = "insert", !.at = p, !.q = q, !.got = limit].pc = "insert"
        BY DEF Idle
      <4> QED BY <3>7, <4>1, <4>2, BecomeQuiet DEF SaveSetup
    <3>8. ASSUME NEW q \in Quotes, Purchase(r, p, q) PROVE NobodyToBuy
      BY <1>3, <3>8 DEF Purchase, BeginCall
    <3>9. ASSUME NEW q \in Quotes, Order(r, p, q) PROVE NobodyToBuy
      BY <1>3, <3>9 DEF Order, BeginCall
    <3> QED BY <2>10, <3>1, <3>2, <3>3, <3>4, <3>5, <3>6, <3>7, <3>8, <3>9 DEF Arrival
  <2> QED BY <2>1, <2>2, <2>3, <2>4, <2>5, <2>6, <2>7, <2>8, <2>9, <2>10
<1>5. ASSUME NEW p \in Replicas, Arrival(r, p) PROVE UNCHANGED <<calls, quotes, consent>>
  <2>1. OauthStart(r, p) \/ OauthCallback(r, p) \/ Disconnect(r, p) \/ Search(r, p)
          => UNCHANGED <<calls, quotes, consent>>
    BY DEF OauthStart, OauthCallback, Disconnect, Search, provider, tables, history
  <2>2. \A op \in Ops : Browse(r, p, op) => UNCHANGED <<calls, quotes, consent>>
    BY DEF Browse, provider, tables, history
  <2>3. \A q \in Quotes, op \in Ops : BeginUpdate(r, p, op, q) => UNCHANGED <<calls, quotes, consent>>
    BY DEF BeginUpdate, provider, tables, history
  <2>4. \A q \in Quotes, limit \in Limits :
          SaveSetup(r, p, q, limit) => UNCHANGED <<calls, quotes, consent>>
    BY DEF SaveSetup, provider, tables, history
  <2>5. \A q \in Quotes : Purchase(r, p, q) \/ Order(r, p, q) => UNCHANGED <<calls, quotes, consent>>
    BY DEF Purchase, Order, provider, tables, history
  <2> QED BY <1>5, <2>1, <2>2, <2>3, <2>4, <2>5 DEF Arrival
<1>6. Save(r) \/ ProviderFails(r) \/ Searched(r) \/ ProductDetails(r) \/ PollInvoice(r) \/ InsertSetup(r)
        => UNCHANGED <<calls, quotes, consent>>
  BY DEF Save, ProviderFails, Searched, ProductDetails, PollInvoice, InsertSetup, provider, tables, history
<1>7. Refresh(r) \/ Exchange(r) \/ Revoke(r) => UNCHANGED <<calls, quotes, consent>>
  BY DEF Refresh, Exchange, Revoke, tables, history
<1> QED BY <1>4, <1>5, <1>6, <1>7

\* An approval and a cancellation write the word with the status, or nothing.
LEMMA Updated ==
    ASSUME NEW r \in Requests, Approve(r) \/ Cancel(r)
    PROVE  \/ UNCHANGED <<quotes, consent>>
           \/ /\ quotes[req[r].q].status \in {"quoted", "approved"}
              /\ \E s \in {"approved", "cancelled"} :
                    /\ quotes' = [quotes EXCEPT ![req[r].q].status = s]
                    /\ consent' = [consent EXCEPT ![req[r].q] = s]
<1>1. CASE Approve(r)
  BY <1>1 DEF Approve
<1>2. CASE Cancel(r)
  BY <1>2 DEF Cancel
<1> QED BY <1>1, <1>2

LEMMA UpdatedQuotes ==
    ASSUME TypeInv, NEW r \in Requests, Approve(r) \/ Cancel(r)
    PROVE  \A q \in Quotes :
              /\ quotes'[q].owner = quotes[q].owner
              /\ \/ quotes'[q].status = quotes[q].status
                 \/ /\ quotes[q].status \in {"quoted", "approved"}
                    /\ quotes'[q].status \in {"approved", "cancelled"}
<1>1. CASE UNCHANGED <<quotes, consent>>
  BY <1>1
<1>2. ASSUME NEW s \in {"approved", "cancelled"}, quotes[req[r].q].status \in {"quoted", "approved"},
             quotes' = [quotes EXCEPT ![req[r].q].status = s],
             NEW q \in Quotes
      PROVE  /\ quotes'[q].owner = quotes[q].owner
             /\ \/ quotes'[q].status = quotes[q].status
                \/ /\ quotes[q].status \in {"quoted", "approved"}
                   /\ quotes'[q].status \in {"approved", "cancelled"}
  <2>1. CASE q = req[r].q
    BY <1>2, <2>1, Unfolded DEF Rows
  <2>2. CASE q # req[r].q
    BY <1>2, <2>2, Unfolded
  <2> QED BY <2>1, <2>2
<1> QED BY <1>1, <1>2, Updated

\* No write but the claim's takes a quote out of Open, and none back.
LEMMA WritesQuietly ==
    ASSUME TypeInv, NEW r \in Requests, Writing(r)
    PROVE  NobodyToBuy /\ NoneReopened /\ UNCHANGED calls
<1>1. Finish(r) /\ UNCHANGED calls
  BY DEF Writing, Quote, MatchArticle, InsertQuote, CancelAll, Approve, Cancel, ExpireChanged,
         RecordInvoice, RecordPoll, provider
<1>2. NoneReopened
  <2> USE Unfolded DEF NoneReopened, Open, Rows
  <2>1. ASSUME NEW q \in Quotes, Quote(r, q) \/ MatchArticle(r, q) PROVE NoneReopened
    BY <2>1 DEF Quote, MatchArticle, InsertQuote
  <2>2. CASE CancelAll(r)
    BY <2>2 DEF CancelAll
  <2>3. CASE Approve(r)
    BY <2>3 DEF Approve
  <2>4. CASE Cancel(r)
    BY <2>4 DEF Cancel
  <2>5. CASE ExpireChanged(r)
    BY <2>5 DEF ExpireChanged
  <2>6. CASE RecordInvoice(r)
    BY <2>6 DEF RecordInvoice
  <2>7. CASE RecordPoll(r)
    <3>1. StatusOf(req[r].invoice) \notin Open
      BY DEF StatusOf
    <3> QED BY <2>7, <3>1 DEF RecordPoll
  <2> QED BY <2>1, <2>2, <2>3, <2>4, <2>5, <2>6, <2>7 DEF Writing
<1> QED BY <1>1, <1>2, FinishQuiet

LEMMA OutsideQuietly ==
    ASSUME TypeInv, Outside
    PROVE  NobodyToBuy /\ UNCHANGED <<calls, quotes, consent>>
<1>1. UNCHANGED <<calls, quotes, consent>>
  BY DEF Outside, Page, Tick, Reprice, Boot, Register, Crash, InvoiceMoves, Drop, provider, tables, history
<1>2. CASE UNCHANGED req
  BY <1>1, <1>2 DEF NobodyToBuy
<1>3. CASE Tick
  BY <1>1, <1>3, Unfolded DEF Tick, NobodyToBuy, Locals
<1>4. ASSUME NEW p \in Replicas, Crash(p) PROVE NobodyToBuy
  BY <1>4, Unfolded DEF Crash, NobodyToBuy, Idle
<1>5. ASSUME NEW r \in Requests, Drop(r) PROVE NobodyToBuy
  BY <1>5, FinishQuiet DEF Drop
<1> QED BY <1>1, <1>2, <1>3, <1>4, <1>5 DEF Outside, Page, Reprice, Boot, Register, InvoiceMoves

\* The claim takes an approved quote, so nobody is about to buy it and nobody has.
LEMMA ClaimStep ==
    ASSUME TypeInv, InvoiceInv, NEW r \in Requests, Claim(r)
    PROVE  InvoiceInv'
<1> DEFINE q == req[r].q
<1>1. req[r] \in Fitting /\ req[r] \in Locals /\ q \in Quotes /\ UNCHANGED calls
  BY Unfolded DEF Claim, Fitting, provider
<1>2. CASE Finish(r) /\ UNCHANGED quotes
  BY <1>1, <1>2, FinishQuiet, QuietStep DEF NoneReopened
<1>3. CASE /\ CanClaim(r, q)
           /\ quotes' = [quotes EXCEPT ![q].status = "reconciliation_required"]
           /\ Become(r, [req[r] EXCEPT !.pc = "buy"])
  <2>1. quotes[q].status = "approved"
    BY <1>3 DEF CanClaim
  <2>2. calls[q] = << >> /\ \A u \in Requests : req[u].pc = "buy" => req[u].q # q
    BY <1>1, <2>1 DEF InvoiceInv, Open
  <2>3. /\ req'[r].pc = "buy" /\ req'[r].q = q
        /\ \A u \in Requests \ {r} : req'[u] = req[u]
    BY <1>1, <1>3, Unfolded DEF Become, Locals
  <2>4. NoneReopened /\ quotes'[q].status \notin Open
    BY <1>1, <1>3, Unfolded DEF NoneReopened, Open, Rows
  <2>5. \A u \in Requests : req[u].pc = "buy" => req[u].q \in Quotes
    BY Unfolded DEF Fitting
  <2> QED BY <1>1, <2>2, <2>3, <2>4, <2>5 DEF InvoiceInv, NoneReopened
<1> QED BY <1>2, <1>3 DEF Claim

LEMMA BuyStep ==
    ASSUME TypeInv, InvoiceInv, NEW r \in Requests, Buy(r)
    PROVE  InvoiceInv' /\ NobodyToBuy /\ UNCHANGED <<quotes, consent>>
<1> DEFINE q == req[r].q
<1>1. req[r] \in Fitting /\ req[r] \in Locals /\ q \in Quotes /\ req[r].pc = "buy"
  BY Unfolded DEF Buy, At, Fitting
<1>2. calls[q] = << >> /\ quotes[q].status \notin Open /\ UNCHANGED <<quotes, consent>>
  BY <1>1 DEF InvoiceInv, Buy, tables, history
<1>3. /\ calls' = [calls EXCEPT ![q] = Append(@, clock)]
      /\ Len(calls'[q]) = 1
  BY <1>1, <1>2, Unfolded DEF Buy
<1>4. /\ req'[r].pc # "buy"
      /\ \A u \in Requests \ {r} : req'[u] = req[u]
  BY <1>1, Unfolded DEF Buy, Become, Finish, Idle, Locals
<1>5. \A u \in Requests \ {r} : req[u].pc = "buy" => req[u].q # q
  BY <1>1 DEF InvoiceInv
<1>6. \A c \in Quotes \ {q} : calls'[c] = calls[c]
  BY <1>1, <1>3, Unfolded
<1>7. \A u \in Requests : req'[u].pc = "buy" =>
         u # r /\ req[u].pc = "buy" /\ req'[u].q = req[u].q /\ req[u].q \in Quotes \ {q}
  BY <1>4, <1>5, Unfolded DEF Fitting
<1> HIDE DEF q
<1>8. \A c \in Quotes : Len(calls'[c]) <= 1 /\ (calls'[c] # << >> => quotes'[c].status \notin Open)
  BY <1>2, <1>3, <1>6 DEF InvoiceInv
<1>9. \A u \in Requests : req'[u].pc = "buy" =>
         quotes'[req'[u].q].status \notin Open /\ calls'[req'[u].q] = << >>
  BY <1>2, <1>6, <1>7 DEF InvoiceInv
<1>10. \A u, w \in Requests :
          req'[u].pc = "buy" /\ req'[w].pc = "buy" /\ req'[u].q = req'[w].q => u = w
  BY <1>7 DEF InvoiceInv
<1> QED BY <1>2, <1>4, <1>8, <1>9, <1>10 DEF InvoiceInv, NobodyToBuy

\* Where the approval is still the user's last word: on the quotes approved, and on those
\* an invoice is about to be asked for.
ConsentInv == (\A q \in Quotes : quotes[q].status = "approved" => consent[q] = "approved") /\ BuysWhatWasApproved

LEMMA ConsentQuiet ==
    ASSUME TypeInv, ConsentInv, NobodyToBuy, UNCHANGED <<quotes, consent>>
    PROVE  ConsentInv'
BY DEF ConsentInv, BuysWhatWasApproved, NobodyToBuy, At

\* The claim takes a quote that is approved, at the price it was approved at.
LEMMA ConsentClaimed ==
    ASSUME TypeInv, ConsentInv, NEW r \in Requests, Claim(r)
    PROVE  ConsentInv'
<1> DEFINE q == req[r].q
<1>1. req[r] \in Locals /\ q \in Quotes /\ UNCHANGED consent
  BY Unfolded DEF Claim, Fitting, history
<1>2. CASE Finish(r) /\ UNCHANGED quotes
  BY <1>1, <1>2, FinishQuiet, ConsentQuiet
<1>3. CASE /\ CanClaim(r, q)
           /\ quotes' = [quotes EXCEPT ![q].status = "reconciliation_required"]
           /\ Become(r, [req[r] EXCEPT !.pc = "buy"])
  <2>1. quotes[q].status = "approved" /\ req[r].got = quotes[q].price
    BY <1>3 DEF CanClaim, Claim
  <2>2. /\ req'[r].q = q /\ req'[r].got = req[r].got
        /\ \A u \in Requests \ {r} : req'[u] = req[u]
    BY <1>1, <1>3, Unfolded DEF Become, Locals
  <2>3. /\ quotes'[q].status # "approved"
        /\ \A c \in Quotes : quotes'[c].price = quotes[c].price
        /\ \A c \in Quotes \ {q} : quotes'[c] = quotes[c]
    BY <1>1, <1>3, Unfolded DEF Rows
  <2>4. \A u \in Requests : req[u].pc = "buy" => req[u].q \in Quotes
    BY Unfolded DEF Fitting
  <2>5. \A c \in Quotes : quotes'[c].status = "approved" => consent'[c] = "approved"
    BY <1>1, <2>3 DEF ConsentInv
  <2>6. ASSUME NEW u \in Requests, req'[u].pc = "buy"
        PROVE  consent'[req'[u].q] = "approved" /\ req'[u].got = quotes'[req'[u].q].price
    <3>1. CASE u = r
      BY <1>1, <2>1, <2>2, <2>3, <3>1 DEF ConsentInv
    <3>2. CASE u # r
      BY <1>1, <2>2, <2>3, <2>4, <2>6, <3>2 DEF ConsentInv, BuysWhatWasApproved, At
    <3> QED BY <3>1, <3>2
  <2> QED BY <2>5, <2>6 DEF ConsentInv, BuysWhatWasApproved, At
<1> QED BY <1>2, <1>3 DEF Claim

\* A word is written with the status it goes with, and of no quote that is claimed.
LEMMA WordsWritten ==
    ASSUME TypeInv, ConsentInv, NEW r \in Requests, Writing(r)
    PROVE  /\ \A q \in Quotes : quotes'[q].status = "approved" => consent'[q] = "approved"
           /\ \A q \in Quotes : quotes[q].status \notin Open =>
                  consent'[q] = consent[q] /\ quotes'[q].price = quotes[q].price
<1>1. \A q \in Quotes : quotes[q].status = "approved" => consent[q] = "approved"
  BY DEF ConsentInv
<1>2. consent \in [Quotes -> {"none", "approved", "cancelled"}]
  BY DEF TypeInv, TypeOK
<1> USE <1>1, <1>2, Unfolded DEF Open, Rows
<1>3. ASSUME NEW q \in Quotes, Quote(r, q) \/ MatchArticle(r, q)
      PROVE  /\ \A c \in Quotes : quotes'[c].status = "approved" => consent'[c] = "approved"
             /\ \A c \in Quotes : quotes[c].status \notin Open =>
                    consent'[c] = consent[c] /\ quotes'[c].price = quotes[c].price
  <2>1. /\ UNCHANGED consent /\ quotes[q].status = "none" /\ quotes'[q].status = "quoted"
        /\ \A c \in Quotes \ {q} : quotes'[c] = quotes[c]
    BY <1>3 DEF Quote, MatchArticle, InsertQuote, history
  <2> QED BY <2>1
<1>4. CASE CancelAll(r)
  BY <1>4 DEF CancelAll
<1>5. CASE Approve(r) \/ Cancel(r)
  <2>1. CASE UNCHANGED <<quotes, consent>>
    BY <2>1
  <2>2. ASSUME NEW s \in {"approved", "cancelled"}, quotes[req[r].q].status \in {"quoted", "approved"},
               quotes' = [quotes EXCEPT ![req[r].q].status = s], consent' = [consent EXCEPT ![req[r].q] = s]
        PROVE  /\ \A c \in Quotes : quotes'[c].status = "approved" => consent'[c] = "approved"
               /\ \A c \in Quotes : quotes[c].status \notin Open =>
                      consent'[c] = consent[c] /\ quotes'[c].price = quotes[c].price
    BY <2>2
  <2> QED BY <1>5, <2>1, <2>2, Updated
<1>6. CASE ExpireChanged(r)
  BY <1>6 DEF ExpireChanged, history
<1>7. CASE RecordInvoice(r)
  BY <1>7 DEF RecordInvoice, history
<1>8. CASE RecordPoll(r)
  <2>1. StatusOf(req[r].invoice) # "approved"
    BY DEF StatusOf
  <2> QED BY <1>8, <2>1 DEF RecordPoll, history
<1> QED BY <1>3, <1>4, <1>5, <1>6, <1>7, <1>8 DEF Writing

LEMMA ConsentWritten ==
    ASSUME TypeInv, InvoiceInv, ConsentInv, NEW r \in Requests, Writing(r)
    PROVE  ConsentInv'
<1>1. NobodyToBuy
  BY WritesQuietly
<1>2. \A u \in Requests : req[u].pc = "buy" => req[u].q \in Quotes /\ quotes[req[u].q].status \notin Open
  BY Unfolded DEF InvoiceInv, Fitting
<1>3. BuysWhatWasApproved'
  BY <1>1, <1>2, WordsWritten DEF ConsentInv, BuysWhatWasApproved, NobodyToBuy, At
<1> QED BY <1>3, WordsWritten DEF ConsentInv

\* What every step does to the calls and to the words of the users.
LEMMA InvoiceStep ==
    TypeInv /\ InvoiceInv /\ ConsentInv /\ [Next]_vars => InvoiceInv' /\ ConsentInv'
<1> SUFFICES ASSUME TypeInv, InvoiceInv, ConsentInv, [Next]_vars PROVE InvoiceInv' /\ ConsentInv'
  OBVIOUS
<1>1. ASSUME NobodyToBuy, UNCHANGED <<calls, quotes, consent>> PROVE InvoiceInv' /\ ConsentInv'
  BY <1>1, QuietStep, ConsentQuiet DEF NoneReopened
<1>2. ASSUME NEW r \in Requests, Handler(r) PROVE InvoiceInv' /\ ConsentInv'
  <2>1. CASE Claim(r)
    BY <2>1, ClaimStep, ConsentClaimed
  <2>2. CASE Buy(r)
    BY <2>2, BuyStep, ConsentQuiet
  <2>3. CASE Writing(r)
    BY <2>3, WritesQuietly, QuietStep, ConsentWritten
  <2>4. CASE ~Claim(r) /\ ~Buy(r) /\ ~Writing(r)
    BY <1>1, <1>2, <2>4, MovesQuietly DEF Handler, Writing
  <2> QED BY <2>1, <2>2, <2>3, <2>4
<1>3. ASSUME NEW r \in Requests, NEW p \in Replicas, Arrival(r, p) PROVE InvoiceInv' /\ ConsentInv'
  BY <1>1, <1>3, MovesQuietly
<1>4. CASE Outside
  BY <1>1, <1>4, OutsideQuietly
<1>5. CASE UNCHANGED vars
  <2>1. NobodyToBuy /\ UNCHANGED <<calls, quotes, consent>>
    BY <1>5 DEF vars, provider, tables, history, NobodyToBuy
  <2> QED BY <1>1, <2>1
<1> QED BY <1>2, <1>3, <1>4, <1>5 DEF Next

-----------------------------------------------------------------------------
(* Setups and the client *)

LEMMA SetupStep == TypeInv /\ SetupIsFixed /\ [Next]_vars => SetupIsFixed'
<1> SUFFICES ASSUME TypeInv, SetupIsFixed, [Next]_vars PROVE SetupIsFixed'
  OBVIOUS
<1>1. /\ saved \in [Quotes -> SUBSET Limits] /\ setups \in [Quotes -> Limits \cup {None}]
      /\ None \notin Limits
  BY ConstantFacts DEF TypeInv, TypeOK
<1>2. CASE UNCHANGED <<setups, saved>>
  BY <1>2 DEF SetupIsFixed
<1>3. ASSUME NEW r \in Requests, InsertSetup(r) PROVE SetupIsFixed'
  <2>1. \A q \in Quotes : setups[q] = None => saved[q] = {}
    BY <1>1 DEF SetupIsFixed
  <2> QED BY <1>1, <1>3, <2>1 DEF InsertSetup, SetupIsFixed
<1>4. ASSUME NEW r \in Requests, NEW p \in Replicas, NEW q \in Quotes, NEW limit \in Limits,
             SaveSetup(r, p, q, limit)
      PROVE  SetupIsFixed'
  BY <1>1, <1>4 DEF SaveSetup, SetupIsFixed, tables
<1>5. ASSUME NEW r \in Requests, Handler(r), ~InsertSetup(r) PROVE UNCHANGED <<setups, saved>>
  BY <1>5 DEF Handler, Save, ProviderFails, Refresh, Exchange, Revoke, CancelAll, Searched,
         ProductDetails, Quote, MatchArticle, InsertQuote, Approve, Cancel, ExpireChanged, Claim, Buy,
         RecordInvoice, PollInvoice, RecordPoll, tables, history
<1>6. ASSUME NEW r \in Requests, NEW p \in Replicas, Arrival(r, p)
      PROVE  \/ UNCHANGED <<setups, saved>>
             \/ \E q \in Quotes, limit \in Limits : SaveSetup(r, p, q, limit)
  BY <1>6 DEF Arrival, OauthStart, OauthCallback, Disconnect, Search, Browse, BeginUpdate,
         Purchase, Order, tables, history
<1>7. Outside \/ UNCHANGED vars => UNCHANGED <<setups, saved>>
  BY DEF Outside, Page, Tick, Reprice, Boot, Register, Crash, InvoiceMoves, Drop, vars, tables, history
<1> QED BY <1>2, <1>3, <1>4, <1>5, <1>6, <1>7 DEF Next

LEMMA ClientStep == TypeInv /\ OneClientId /\ [Next]_vars => OneClientId'
<1> SUFFICES ASSUME TypeInv, OneClientId, [Next]_vars PROVE OneClientId'
  OBVIOUS
<1>1. /\ client \in [Replicas -> Replicas \cup {None, "registering"}]
      /\ config \in Replicas \cup {None}
      /\ None \notin Replicas /\ "registering" \notin Replicas
  BY ConstantFacts DEF TypeInv, TypeOK
<1>2. CASE UNCHANGED <<client, config>>
  BY <1>2 DEF OneClientId
<1>3. ASSUME NEW p \in Replicas, Boot(p) PROVE OneClientId'
  BY <1>1, <1>3 DEF Boot, OneClientId
<1>4. ASSUME NEW p \in Replicas, Register(p) PROVE OneClientId'
  BY <1>1, <1>4 DEF Register, OneClientId
<1>5. ASSUME NEW p \in Replicas, Crash(p) PROVE OneClientId'
  BY <1>1, <1>5 DEF Crash, OneClientId
<1>6. ASSUME NEW r \in Requests, Handler(r) PROVE UNCHANGED <<client, config>>
  BY <1>6 DEF Handler, Save, ProviderFails, Refresh, Exchange, Revoke, CancelAll, Searched,
         ProductDetails, Quote, MatchArticle, InsertQuote, Approve, Cancel, InsertSetup, ExpireChanged,
         Claim, Buy, RecordInvoice, PollInvoice, RecordPoll, startup
<1>7. ASSUME NEW r \in Requests, NEW p \in Replicas, Arrival(r, p) PROVE UNCHANGED <<client, config>>
  BY <1>7 DEF Arrival, OauthStart, OauthCallback, Disconnect, Search, Browse, BeginUpdate,
         SaveSetup, Purchase, Order, startup
<1>8. Outside => \/ UNCHANGED <<client, config>>
                 \/ \E p \in Replicas : Boot(p) \/ Register(p) \/ Crash(p)
  BY DEF Outside, Page, Tick, Reprice, InvoiceMoves, Drop, startup
<1>9. UNCHANGED vars => UNCHANGED <<client, config>>
  BY DEF vars, startup
<1> QED BY <1>2, <1>3, <1>4, <1>5, <1>6, <1>7, <1>8, <1>9 DEF Next

-----------------------------------------------------------------------------
(* The theorems *)

IInv == TypeInv /\ InvoiceInv /\ ConsentInv /\ SetupIsFixed /\ OneClientId

LEMMA IInvInvariant == Spec => []IInv
<1>1. Init => IInv
  BY InitTypeInv, InitInvoiceInv, ConstantFacts
     DEF Init, IInv, ConsentInv, BuysWhatWasApproved, At, Idle, NoQuote, SetupIsFixed, OneClientId
<1>2. IInv /\ [Next]_vars => IInv'
  BY TypeInvStep, InvoiceStep, SetupStep, ClientStep DEF IInv
<1> QED BY <1>1, <1>2, PTL DEF Spec

\* Tables, provider and requests keep their types.
THEOREM TypeCorrect == Spec => []TypeOK
<1>1. IInv => TypeOK
  BY DEF IInv, TypeInv
<1> QED BY <1>1, IInvInvariant, PTL

\* With any number of replicas, requests, drops and crashes, buy-products is called
\* once at most for a quote.
THEOREM OneInvoiceEver == Spec => []OneInvoice
<1>1. IInv => OneInvoice
  BY DEF IInv, InvoiceInv, OneInvoice
<1> QED BY <1>1, IInvInvariant, PTL

\* Whatever cancels, disconnects, reprices or retries while a purchase is under way, an
\* invoice is asked for a quote alone that its user approved and did not take back, and at
\* the price approved.
THEOREM ApprovedPurchases == Spec => []BuysWhatWasApproved
<1>1. IInv => BuysWhatWasApproved
  BY DEF IInv, ConsentInv
<1> QED BY <1>1, IInvInvariant, PTL

\* A limit once confirmed is the setup's, whichever requests race to save another.
THEOREM FixedSetup == Spec => []SetupIsFixed
<1>1. IInv => SetupIsFixed
  BY DEF IInv
<1> QED BY <1>1, IInvInvariant, PTL

\* All replicas that serve have the client_id of the table.
THEOREM SameClientId == Spec => []OneClientId
<1>1. IInv => OneClientId
  BY DEF IInv
<1> QED BY <1>1, IInvInvariant, PTL

-----------------------------------------------------------------------------
(* The gate: what one replica adds *)

Busy(r) == req[r].pc # "idle"
Holds(r) == Busy(r) /\ Gated(req[r].op)

\* Where the handler of an operation may stand.
OnPath(x) ==
    \/ x.op = "start" /\ x.pc = "save"
    \/ x.op = "callback" /\ x.pc \in {"forget", "exchange", "save"}
    \/ x.op = "disconnect" /\ x.pc \in {"revoke", "wipe", "cancel_all"}
    \/ x.op = "search" /\ x.pc \in {"refresh", "keep", "call", "save"}
    \/ x.op = "details" /\ x.pc \in {"refresh", "keep", "call"}
    \/ x.op \in {"quote", "match"} /\ x.pc \in {"refresh", "keep", "call", "priced"}
    \/ x.op = "purchase" /\ x.pc \in {"refresh", "keep", "call", "priced", "buy", "told"}
    \/ x.op = "order" /\ x.pc \in {"refresh", "keep", "call", "polled"}
    \/ x.op \in {"approve", "cancel"} /\ x.pc = "update"
    \/ x.op = "setup" /\ x.pc = "insert"

\* One gated request at a time on a replica; those without the gate carry
\* nothing of the session that they could write back.
GateInv ==
    /\ \A r \in Requests : Busy(r) =>
          /\ OnPath(req[r]) /\ req[r].at \in layout
          /\ ~Gated(req[r].op) => req[r].s.token = 0 /\ req[r].s.oauth = 0
    /\ \A r, u \in Requests : Holds(r) /\ Holds(u) /\ req[r].at = req[u].at => r = u

\* A session that follows another lasts longer; a request is of this one or of
\* one before, and so is the owner of a quote.
TimeInv ==
    /\ session.expires <= clock + Day
    /\ \A r \in Requests : Busy(r) => Day > 0 /\ req[r].s.expires <= session.expires
    /\ \A q \in Quotes : quotes[q].owner <= session.expires

Current(r) == req[r].s.expires = session.expires

\* The holder of the gate knows the session: it is as it was read, or another.
Carry(r) ==
    /\ ~Current(r) /\ req[r].pc # "polled" => session.token = 0 /\ session.oauth = 0
    /\ Current(r) /\ req[r].s.token # 0 =>
          session.token # 0 \/ (req[r].op = "callback" /\ req[r].pc = "save")
    /\ req[r].pc \in {"refresh", "keep"} => req[r].s.token # 0

CarryInv == OneReplica => \A r \in Requests : Holds(r) => Carry(r)

TokenInv ==
    OneReplica /\ ~lost =>
        /\ \A r \in Requests : Busy(r) => req[r].s.token \in live \cup {0}
        /\ session.token # 0 =>
              \/ session.token \in live
              \/ \E r \in Requests : req[r].pc \in {"keep", "wipe"}

Unused(n) == n <= issued["oauth"] /\ (n # 0 => exchanged[n] = 0)

\* What a request carries of an OAuth request, and that a code is presented once.
Code(r) ==
    /\ Unused(req[r].s.oauth)
    /\ req[r].op = "callback" =>
          /\ req[r].s.oauth = 0
          /\ req[r].pc \in {"forget", "exchange"} => req[r].got # 0 /\ Unused(req[r].got)
          /\ req[r].pc = "exchange" => session.oauth # req[r].got

Codes ==
    /\ issued["oauth"] <= mix.starts
    /\ \A n \in 1 .. MaxStarts :
          exchanged[n] <= 1 /\ (n > issued["oauth"] => exchanged[n] = 0)
    /\ Unused(session.oauth)
    /\ \A r \in Requests : Busy(r) => Code(r)

StateInv == OneReplica => Codes

Claims(r) ==
    /\ req[r].op = "purchase" /\ req[r].pc \notin {"buy", "told"} =>
          quotes[req[r].q].status \notin Claimed \cup {"none"}
    /\ req[r].pc \in {"buy", "told"} \/ req[r].op = "order" =>
          quotes[req[r].q].status \in Claimed \ {"fulfilled"}
    /\ req[r].op = "purchase" /\ quotes[req[r].q].owner = session.expires => session.token # 0

ClaimInv == OneReplica => \A r \in Requests : Holds(r) => Claims(r)

-----------------------------------------------------------------------------
(* What a step does to the requests and to what they share *)

\* A request stays where it stands; the rest of them do.
Kept(r) ==
    /\ req'[r].op = req[r].op /\ req'[r].pc = req[r].pc /\ req'[r].at = req[r].at
    /\ req'[r].q = req[r].q /\ req'[r].s = req[r].s /\ req'[r].got = req[r].got

Others(r) == \A u \in Requests \ {r} : Kept(u)

\* A handler goes on to pc, or ends.
Goes(r, pc) ==
    /\ req'[r].op = req[r].op /\ req'[r].at = req[r].at /\ req'[r].q = req[r].q
    /\ req'[r].pc = pc
    /\ Others(r)

Ends(r) == req'[r] = Idle /\ Others(r)

LEMMA Becomes ==
    ASSUME TypeInv, NEW r \in Requests, NEW x, Become(r, x)
    PROVE  req'[r] = x /\ Others(r)
  BY Unfolded DEF Become, Others, Kept

LEMMA Finishes ==
    ASSUME TypeInv, NEW r \in Requests, Finish(r)
    PROVE  Ends(r)
  BY Becomes DEF Finish, Ends

\* The replicas deployed and the mix stay.
LEMMA LayoutStays == [Next]_vars => UNCHANGED <<layout, mix>>
<1>1. ASSUME NEW r \in Requests, Handler(r) PROVE UNCHANGED <<layout, mix>>
  BY <1>1 DEF Handler, Save, ProviderFails, Refresh, Exchange, Revoke, CancelAll, Searched,
         ProductDetails, Quote, MatchArticle, InsertQuote, Approve, Cancel, InsertSetup, ExpireChanged,
         Claim, Buy, RecordInvoice, PollInvoice, RecordPoll, startup
<1>2. ASSUME NEW r \in Requests, NEW p \in Replicas, Arrival(r, p) PROVE UNCHANGED <<layout, mix>>
  BY <1>2 DEF Arrival, OauthStart, OauthCallback, Disconnect, Search, Browse, BeginUpdate, SaveSetup,
         Purchase, Order, startup
<1>3. Outside => UNCHANGED <<layout, mix>>
  BY DEF Outside, Page, Tick, Reprice, Boot, Register, Crash, InvoiceMoves, Drop, startup
<1> QED BY <1>1, <1>2, <1>3 DEF Next, vars, startup

LEMMA SaveFacts ==
    ASSUME TypeInv, NEW r \in Requests, Save(r)
    PROVE  /\ UNCHANGED <<clock, quotes, calls, live, issued, exchanged, lost>>
           /\ session' = IF session.expires = req[r].s.expires THEN req[r].s ELSE session
           /\ req[r].pc \in {"forget", "keep", "wipe", "save"}
           /\ \/ req[r].pc = "save" /\ Ends(r)
              \/ /\ \/ req[r].pc = "forget" /\ Goes(r, "exchange")
                    \/ req[r].pc = "keep" /\ Goes(r, "call")
                    \/ req[r].pc = "wipe" /\ Goes(r, "cancel_all")
                 /\ req'[r].s = req[r].s /\ req'[r].got = req[r].got
<1>1. req[r] \in Locals
  BY Unfolded
<1>2. /\ UNCHANGED <<clock, quotes, calls, live, issued, exchanged, lost>>
      /\ session' = IF session.expires = req[r].s.expires THEN req[r].s ELSE session
      /\ req[r].pc \in {"forget", "keep", "wipe", "save"}
  BY DEF Save, SaveSession, provider, history, At
<1>3. ASSUME NEW pc, Become(r, [req[r] EXCEPT !.pc = pc])
      PROVE  Goes(r, pc) /\ req'[r].s = req[r].s /\ req'[r].got = req[r].got
  BY <1>1, <1>3, Becomes DEF Goes, Locals
<1> QED BY <1>2, <1>3, Finishes DEF Save, At

LEMMA RefreshFacts ==
    ASSUME TypeInv, NEW r \in Requests, Refresh(r)
    PROVE  /\ UNCHANGED <<clock, session, quotes, calls, exchanged>>
           /\ issued'["oauth"] = issued["oauth"]
           /\ req[r].pc = "refresh"
           /\ \E n \in Nat \ {0} :
                 /\ live' = (live \ {req[r].s.token}) \cup {n}
                 /\ \/ /\ Goes(r, "keep") /\ req'[r].got = req[r].got
                       /\ req'[r].s.token = n /\ req'[r].s.oauth = req[r].s.oauth
                       /\ req'[r].s.expires = req[r].s.expires
                       /\ UNCHANGED lost
                    \/ Ends(r) /\ lost'
<1>1. req[r] \in Locals /\ req[r].s \in Sessions /\ issued \in [{"oauth", "token", "price"} -> Nat]
  BY Unfolded DEF TypeInv, TypeOK
<1>2. PICK n : n = issued'["token"]
  OBVIOUS
<1>3. /\ issued' = [issued EXCEPT !["token"] = @ + 1]
      /\ live' = (live \ {req[r].s.token}) \cup {n}
      /\ UNCHANGED <<clock, session, quotes, calls, exchanged>>
      /\ req[r].pc = "refresh"
  BY <1>2 DEF Refresh, IssueToken, tables, At
<1>4. n \in Nat \ {0} /\ issued'["oauth"] = issued["oauth"]
  BY <1>1, <1>2, <1>3
<1>5. CASE Become(r, [req[r] EXCEPT !.pc = "keep", !.s.token = issued'["token"]]) /\ UNCHANGED lost
  <2> DEFINE s == [req[r].s EXCEPT !.token = n]
             x == [req[r] EXCEPT !.pc = "keep", !.s = s]
  <2>1. Become(r, x)
    BY <1>1, <1>2, <1>5
  <2>2. s.token = n /\ s.oauth = req[r].s.oauth /\ s.expires = req[r].s.expires
    BY <1>1 DEF Sessions
  <2> HIDE DEF s
  <2>3. /\ x.op = req[r].op /\ x.at = req[r].at /\ x.q = req[r].q /\ x.got = req[r].got
        /\ x.pc = "keep" /\ x.s = s
    BY <1>1 DEF Locals
  <2> HIDE DEF x
  <2>4. req'[r] = x /\ Others(r)
    BY <2>1, Becomes
  <2> QED BY <1>3, <1>4, <1>5, <2>2, <2>3, <2>4 DEF Goes
<1>6. CASE Finish(r) /\ lost' = TRUE
  BY <1>3, <1>4, <1>6, Finishes
<1> QED BY <1>5, <1>6 DEF Refresh

LEMMA ExchangeFacts ==
    ASSUME TypeInv, NEW r \in Requests, Exchange(r)
    PROVE  /\ UNCHANGED <<clock, session, quotes, calls, lost>>
           /\ issued'["oauth"] = issued["oauth"]
           /\ exchanged' = [exchanged EXCEPT ![req[r].got] = @ + 1]
           /\ live \subseteq live'
           /\ req[r].pc = "exchange"
           /\ \/ /\ Goes(r, "save")
                 /\ req'[r].s.token \in live' /\ req'[r].s.oauth = req[r].s.oauth
                 /\ req'[r].s.expires = req[r].s.expires
              \/ Ends(r)
<1>1. req[r] \in Locals /\ req[r].s \in Sessions /\ issued \in [{"oauth", "token", "price"} -> Nat]
  BY Unfolded DEF TypeInv, TypeOK
<1>2. PICK n : n = issued'["token"]
  OBVIOUS
<1>3. /\ issued' = [issued EXCEPT !["token"] = @ + 1]
      /\ live' = (live \ {}) \cup {n}
      /\ exchanged' = [exchanged EXCEPT ![req[r].got] = @ + 1]
      /\ UNCHANGED <<clock, session, quotes, calls, lost>>
      /\ req[r].pc = "exchange"
  BY <1>2 DEF Exchange, IssueToken, tables, At
<1>4. n \in live' /\ live \subseteq live' /\ issued'["oauth"] = issued["oauth"]
  BY <1>1, <1>2, <1>3
<1>5. CASE Become(r, [req[r] EXCEPT !.pc = "save", !.s.token = issued'["token"], !.got = 0])
  <2> DEFINE s == [req[r].s EXCEPT !.token = n]
             x == [req[r] EXCEPT !.pc = "save", !.s = s, !.got = 0]
  <2>1. Become(r, x)
    BY <1>1, <1>2, <1>5
  <2>2. s.token = n /\ s.oauth = req[r].s.oauth /\ s.expires = req[r].s.expires
    BY <1>1 DEF Sessions
  <2> HIDE DEF s
  <2>3. /\ x.op = req[r].op /\ x.at = req[r].at /\ x.q = req[r].q
        /\ x.pc = "save" /\ x.s = s
    BY <1>1 DEF Locals
  <2> HIDE DEF x
  <2>4. req'[r] = x /\ Others(r)
    BY <2>1, Becomes
  <2> QED BY <1>3, <1>4, <2>2, <2>3, <2>4 DEF Goes
<1>6. CASE Finish(r)
  BY <1>3, <1>4, <1>6, Finishes
<1> QED BY <1>5, <1>6 DEF Exchange

LEMMA RevokeFacts ==
    ASSUME TypeInv, NEW r \in Requests, Revoke(r)
    PROVE  /\ UNCHANGED <<clock, session, quotes, calls, issued, exchanged, lost>>
           /\ live \ {req[r].s.token} \subseteq live'
           /\ req[r].pc = "revoke"
           /\ Goes(r, "wipe") /\ req'[r].got = req[r].got
           /\ req'[r].s.token = 0 /\ req'[r].s.oauth = 0
           /\ req'[r].s.expires = req[r].s.expires
<1>1. req[r] \in Locals
  BY Unfolded
<1> DEFINE s == Bare(req[r].s)
           x == [req[r] EXCEPT !.pc = "wipe", !.s = s]
<1>2. Become(r, x)
  BY <1>1 DEF Revoke
<1>3. s.token = 0 /\ s.oauth = 0 /\ s.expires = req[r].s.expires
  BY DEF Bare, NoSession
<1> HIDE DEF s
<1>4. /\ x.op = req[r].op /\ x.at = req[r].at /\ x.q = req[r].q /\ x.got = req[r].got
      /\ x.pc = "wipe" /\ x.s = s
  BY <1>1 DEF Locals
<1> HIDE DEF x
<1>5. req'[r] = x /\ Others(r)
  BY <1>2, Becomes
<1> QED BY <1>3, <1>4, <1>5 DEF Revoke, Goes, At, tables, history

\* A handler between its call of the provider and what it writes.
Walks(r) == Searched(r) \/ ProductDetails(r) \/ PollInvoice(r) \/ Claim(r) \/ Buy(r)

LEMMA WalkFacts ==
    ASSUME TypeInv, NEW r \in Requests, Walks(r)
    PROVE  /\ UNCHANGED <<clock, session, live, issued, exchanged, lost>>
           /\ req[r].pc \in {"call", "priced", "buy"}
           /\ \A q \in Quotes : quotes'[q].owner = quotes[q].owner
           /\ \/ Ends(r) /\ UNCHANGED quotes
              \/ /\ req[r].pc = "call" /\ req[r].op = "search" /\ Goes(r, "save")
                 /\ req'[r].s.token = req[r].s.token /\ req'[r].s.oauth = req[r].s.oauth
                 /\ req'[r].s.expires = req[r].s.expires
                 /\ UNCHANGED quotes
              \/ /\ req[r].pc = "call" /\ req[r].op \in {"quote", "match", "purchase"}
                 /\ Goes(r, "priced")
                 /\ req'[r].s.token = 0 /\ req'[r].s.oauth = 0
                 /\ req'[r].s.expires = req[r].s.expires
                 /\ UNCHANGED quotes
              \/ /\ req[r].pc = "call" /\ req[r].op = "order" /\ Goes(r, "polled")
                 /\ req'[r].s = NoSession
                 /\ UNCHANGED quotes
              \/ /\ req[r].pc = "priced" /\ req[r].op = "purchase" /\ Goes(r, "buy")
                 /\ req'[r].s = req[r].s
                 /\ quotes[req[r].q].status = "approved"
                 /\ quotes' = [quotes EXCEPT ![req[r].q].status = "reconciliation_required"]
              \/ /\ req[r].pc = "buy" /\ Goes(r, "told") /\ req'[r].s = req[r].s
                 /\ UNCHANGED quotes
<1>1. req[r] \in Locals /\ req[r].s \in Sessions
  BY Unfolded
<1>2. /\ NoSession.token = 0 /\ NoSession.oauth = 0
      /\ Bare(req[r].s).token = 0 /\ Bare(req[r].s).oauth = 0
      /\ Bare(req[r].s).expires = req[r].s.expires
  BY DEF Bare, NoSession
<1>3. CASE Searched(r)
  <2> DEFINE s == [req[r].s EXCEPT !.searched = TRUE]
             x == [req[r] EXCEPT !.pc = "save", !.s = s]
  <2>1. Become(r, x)
    BY <1>1, <1>3 DEF Searched
  <2>2. s.token = req[r].s.token /\ s.oauth = req[r].s.oauth /\ s.expires = req[r].s.expires
    BY <1>1 DEF Sessions
  <2> HIDE DEF s
  <2>3. x.op = req[r].op /\ x.at = req[r].at /\ x.q = req[r].q /\ x.pc = "save" /\ x.s = s
    BY <1>1 DEF Locals
  <2> HIDE DEF x
  <2>4. req'[r] = x /\ Others(r)
    BY <2>1, Becomes
  <2> QED BY <1>3, <2>2, <2>3, <2>4 DEF Searched, At, Goes, provider, tables, history
<1>4. CASE ProductDetails(r)
  <2>1. /\ UNCHANGED <<clock, session, live, issued, exchanged, lost, quotes>>
        /\ req[r].pc = "call"
    BY <1>4 DEF ProductDetails, At, provider, tables, history
  <2>2. CASE Finish(r)
    BY <2>1, <2>2, Finishes
  <2>3. CASE /\ req[r].op \in {"quote", "match", "purchase"}
             /\ Become(r, [req[r] EXCEPT !.pc = "priced", !.s = Bare(@), !.got = price])
    <3> DEFINE s == Bare(req[r].s)
               n == price
               x == [req[r] EXCEPT !.pc = "priced", !.s = s, !.got = n]
    <3>1. Become(r, x)
      BY <1>1, <2>3
    <3> HIDE DEF n
    <3>2. x.op = req[r].op /\ x.at = req[r].at /\ x.q = req[r].q /\ x.pc = "priced" /\ x.s = s
      BY <1>1 DEF Locals
    <3> HIDE DEF x
    <3>3. req'[r] = x /\ Others(r)
      BY <3>1, Becomes
    <3> QED BY <1>2, <2>1, <2>3, <3>2, <3>3 DEF Goes
  <2> QED BY <1>4, <2>2, <2>3 DEF ProductDetails
<1>5. CASE PollInvoice(r)
  <2> DEFINE i == invoices[req[r].q]
             x == [req[r] EXCEPT !.pc = "polled", !.s = NoSession, !.invoice = i]
  <2>1. Become(r, x)
    BY <1>5 DEF PollInvoice
  <2> HIDE DEF i
  <2>2. x.op = req[r].op /\ x.at = req[r].at /\ x.q = req[r].q /\ x.pc = "polled" /\ x.s = NoSession
    BY <1>1 DEF Locals
  <2> HIDE DEF x
  <2>3. req'[r] = x /\ Others(r)
    BY <2>1, Becomes
  <2> QED BY <1>5, <2>2, <2>3 DEF PollInvoice, At, Goes, provider, tables, history
<1>6. CASE Claim(r)
  <2>1. /\ UNCHANGED <<clock, session, live, issued, exchanged, lost>>
        /\ req[r].pc = "priced" /\ req[r].op = "purchase"
    BY <1>6 DEF Claim, At, provider, history
  <2>2. CASE Finish(r) /\ UNCHANGED quotes
    BY <2>1, <2>2, Finishes
  <2>3. CASE /\ CanClaim(r, req[r].q)
             /\ quotes' = [quotes EXCEPT ![req[r].q].status = "reconciliation_required"]
             /\ Become(r, [req[r] EXCEPT !.pc = "buy"])
    <3> DEFINE x == [req[r] EXCEPT !.pc = "buy"]
    <3>1. x.op = req[r].op /\ x.at = req[r].at /\ x.q = req[r].q /\ x.pc = "buy" /\ x.s = req[r].s
      BY <1>1 DEF Locals
    <3> HIDE DEF x
    <3>2. req'[r] = x /\ Others(r)
      BY <2>3, Becomes DEF x
    <3>3. quotes[req[r].q].status = "approved"
      BY <2>3 DEF CanClaim
    <3>4. \A q \in Quotes : quotes'[q].owner = quotes[q].owner
      BY <2>3, Unfolded DEF Rows
    <3> QED BY <2>1, <2>3, <3>1, <3>2, <3>3, <3>4 DEF Goes
  <2> QED BY <1>6, <2>2, <2>3 DEF Claim
<1>7. CASE Buy(r)
  <2>1. /\ UNCHANGED <<clock, session, live, issued, exchanged, lost, quotes>>
        /\ req[r].pc = "buy"
    BY <1>7 DEF Buy, At, tables, history
  <2>2. CASE Finish(r)
    BY <2>1, <2>2, Finishes
  <2>3. CASE Become(r, [req[r] EXCEPT !.pc = "told"])
    <3> DEFINE x == [req[r] EXCEPT !.pc = "told"]
    <3>1. x.op = req[r].op /\ x.at = req[r].at /\ x.q = req[r].q /\ x.pc = "told" /\ x.s = req[r].s
      BY <1>1 DEF Locals
    <3> HIDE DEF x
    <3>2. req'[r] = x /\ Others(r)
      BY <2>3, Becomes DEF x
    <3> QED BY <2>1, <3>1, <3>2 DEF Goes
  <2> QED BY <1>7, <2>2, <2>3 DEF Buy
<1> QED BY <1>3, <1>4, <1>5, <1>6, <1>7 DEF Walks

\* A handler that ends with what it writes of the quotes.
LEMMA WritingFacts ==
    ASSUME TypeInv, NEW r \in Requests, Writing(r)
    PROVE  /\ UNCHANGED <<clock, session, calls, live, issued, exchanged, lost>>
           /\ req[r].pc \in {"priced", "cancel_all", "update", "told", "polled"}
           /\ Ends(r)
           /\ \A q \in Quotes : quotes'[q].owner \in {quotes[q].owner, req[r].s.expires}
<1>1. /\ UNCHANGED <<clock, session, calls, live, issued, exchanged, lost>>
      /\ req[r].pc \in {"priced", "cancel_all", "update", "told", "polled"}
      /\ Finish(r)
  BY DEF Writing, Quote, MatchArticle, InsertQuote, CancelAll, Approve, Cancel, ExpireChanged,
         RecordInvoice, RecordPoll, At, provider, history
<1>2. \A q \in Quotes : quotes'[q].owner \in {quotes[q].owner, req[r].s.expires}
  <2> USE Unfolded DEF Rows
  <2>1. ASSUME NEW q \in Quotes, Quote(r, q) \/ MatchArticle(r, q)
        PROVE  \A c \in Quotes : quotes'[c].owner \in {quotes[c].owner, req[r].s.expires}
    <3>1. PICK op : quotes' = [quotes EXCEPT ![q] =
                       [status |-> "quoted", price |-> req[r].got, created |-> clock,
                        owner |-> req[r].s.expires, article |-> op = "match", invoice |-> FALSE]]
      BY <2>1 DEF Quote, MatchArticle, InsertQuote
    <3>2. quotes'[q].owner = req[r].s.expires
      BY <3>1
    <3> QED BY <3>1, <3>2
  <2>2. CASE CancelAll(r)
    BY <2>2 DEF CancelAll
  <2>3. CASE Approve(r) \/ Cancel(r)
    BY <2>3, UpdatedQuotes
  <2>4. CASE ExpireChanged(r)
    BY <2>4 DEF ExpireChanged
  <2>5. CASE RecordInvoice(r)
    BY <2>5 DEF RecordInvoice
  <2>6. CASE RecordPoll(r)
    BY <2>6 DEF RecordPoll
  <2> QED BY <2>1, <2>2, <2>3, <2>4, <2>5, <2>6 DEF Writing
<1> QED BY <1>1, <1>2, Finishes

\* A request enters, with the session as it is.
GatedEntry(r) ==
    LET x == req'[r] IN
    /\ Gated(x.op) /\ GateIsFree(x.at)
    /\ x.s.expires = session.expires /\ x.s.token = session.token
    /\ x.pc \in {"save", "forget", "revoke", "call", "refresh"}
    /\ \/ /\ x.op = "start" /\ x.pc = "save" /\ x.s.oauth = issued["oauth"] + 1
          /\ issued'["oauth"] = issued["oauth"] + 1 /\ issued["oauth"] < mix.starts
       \/ /\ x.op = "callback" /\ x.pc = "forget" /\ x.s.oauth = 0
          /\ x.got = session.oauth /\ session.oauth # 0
          /\ UNCHANGED issued
       \/ /\ x.op \notin {"start", "callback"} /\ x.pc \in {"revoke", "call", "refresh"}
          /\ x.s.oauth = session.oauth
          /\ x.op # "disconnect" => session.token # 0
          /\ UNCHANGED issued
    /\ x.op = "purchase" => quotes[x.q].status = "approved"
    /\ x.op = "order" =>
          quotes[x.q].status \in {"awaiting_payment", "payment_pending", "reconciliation_required"}

UngatedEntry(r) ==
    LET x == req'[r] IN
    /\ ~Gated(x.op) /\ x.pc \in {"update", "insert"}
    /\ x.s.token = 0 /\ x.s.oauth = 0 /\ x.s.expires \in {0, session.expires}
    /\ UNCHANGED issued

Enters(r) ==
    /\ req[r].pc = "idle" /\ Others(r) /\ OnPath(req'[r]) /\ req'[r].at \in layout
    /\ clock < session.expires
    /\ UNCHANGED <<clock, session, quotes, calls, live, exchanged, lost>>
    /\ GatedEntry(r) \/ UngatedEntry(r)

\* A request that begins in one of the usual ways.
LEMMA BeginFacts ==
    ASSUME TypeInv, NEW r \in Requests, NEW p, NEW op, NEW q, NEW pc, NEW s,
           Begin(r, p, op, q, pc, s)
    PROVE  /\ req'[r].op = op /\ req'[r].pc = pc /\ req'[r].at = p /\ req'[r].q = q
           /\ req'[r].s = s
           /\ Others(r)
<1> DEFINE x == [Idle EXCEPT !.op = op, !.pc = pc, !.at = p, !.q = q, !.s = s]
<1>1. x.op = op /\ x.pc = pc /\ x.at = p /\ x.q = q /\ x.s = s
  BY DEF Idle
<1> HIDE DEF x
<1>2. req'[r] = x /\ Others(r)
  BY Becomes DEF Begin, x
<1> QED BY <1>1, <1>2

\* One that calls the provider first.
LEMMA CallFacts ==
    ASSUME TypeInv, NEW r \in Requests, NEW p \in Replicas, NEW q,
           NEW op \in {"search", "details", "quote", "match", "purchase", "order"},
           Begins(r, p, op, TRUE), BeginCall(r, p, op, q),
           UNCHANGED <<clock, provider, tables, startup, history, drops, lost>>,
           op = "purchase" => quotes[q].status = "approved",
           op = "order" =>
              quotes[q].status \in {"awaiting_payment", "payment_pending", "reconciliation_required"}
    PROVE  Enters(r)
<1>1. PICK pc \in {"call", "refresh"} : Begin(r, p, op, q, pc, session)
  BY DEF BeginCall
<1>2. /\ req'[r].op = op /\ req'[r].pc = pc /\ req'[r].at = p /\ req'[r].q = q
      /\ req'[r].s = session
      /\ Others(r)
  BY <1>1, BeginFacts
<1>3. /\ req[r].pc = "idle" /\ p \in layout /\ clock < session.expires /\ session.token # 0
      /\ Gated(op) /\ GateIsFree(p)
  BY DEF Begins, At, Gated
<1>4. OnPath(req'[r])
  BY <1>2 DEF OnPath
<1>5. UNCHANGED <<clock, session, quotes, calls, live, exchanged, lost, issued>>
  BY DEF provider, tables, history
<1>6. GatedEntry(r)
  BY <1>2, <1>3, <1>5 DEF GatedEntry
<1> QED BY <1>2, <1>3, <1>4, <1>5, <1>6 DEF Enters

LEMMA EnterFacts ==
    ASSUME TypeInv, NEW r \in Requests, NEW p \in Replicas, Arrival(r, p)
    PROVE  \/ Enters(r)
           \/ UNCHANGED <<req, clock, session, quotes, calls, live, issued, exchanged, lost>>
<1>1. CASE OauthStart(r, p)
  <2> DEFINE s == [session EXCEPT !.oauth = issued'["oauth"]]
  <2>1. /\ req[r].pc = "idle" /\ p \in layout /\ clock < session.expires
        /\ Gated("start") /\ GateIsFree(p)
    BY <1>1 DEF OauthStart, Begins, At, Gated
  <2>2. issued'["oauth"] = issued["oauth"] + 1 /\ issued["oauth"] < mix.starts
    BY <1>1 DEF OauthStart, TypeInv, TypeOK
  <2>3. s.expires = session.expires /\ s.token = session.token /\ s.oauth = issued["oauth"] + 1
    BY <2>2, Unfolded DEF Sessions
  <2>4. Begin(r, p, "start", None, "save", s)
    BY <1>1 DEF OauthStart
  <2> HIDE DEF s
  <2>5. /\ req'[r].op = "start" /\ req'[r].pc = "save" /\ req'[r].at = p /\ req'[r].s = s
        /\ Others(r)
    BY <2>4, BeginFacts
  <2>6. OnPath(req'[r])
    BY <2>5 DEF OnPath
  <2>7. UNCHANGED <<clock, session, quotes, calls, live, exchanged, lost>>
    BY <1>1 DEF OauthStart, provider, tables
  <2>8. GatedEntry(r)
    BY <2>1, <2>2, <2>3, <2>5 DEF GatedEntry
  <2> QED BY <2>1, <2>5, <2>6, <2>7, <2>8 DEF Enters
<1>2. CASE OauthCallback(r, p)
  <2> DEFINE s == [session EXCEPT !.oauth = 0]
             n == session.oauth
             x == [Idle EXCEPT !.op = "callback", !.pc = "forget", !.at = p, !.s = s, !.got = n]
  <2>1. /\ req[r].pc = "idle" /\ p \in layout /\ clock < session.expires
        /\ Gated("callback") /\ GateIsFree(p) /\ session.oauth # 0
    BY <1>2 DEF OauthCallback, Begins, At, Gated
  <2>2. s.expires = session.expires /\ s.token = session.token /\ s.oauth = 0
    BY Unfolded DEF Sessions
  <2>3. Become(r, x)
    BY <1>2 DEF OauthCallback
  <2>4. x.op = "callback" /\ x.pc = "forget" /\ x.at = p /\ x.s = s /\ x.got = n
    BY DEF Idle
  <2> HIDE DEF s, x
  <2>5. req'[r] = x /\ Others(r)
    BY <2>3, Becomes
  <2>6. OnPath(req'[r])
    BY <2>4, <2>5 DEF OnPath
  <2>7. UNCHANGED <<clock, session, quotes, calls, live, exchanged, lost, issued>>
    BY <1>2 DEF OauthCallback, provider, tables, history
  <2>8. GatedEntry(r)
    BY <2>1, <2>2, <2>4, <2>5, <2>7 DEF GatedEntry
  <2> QED BY <2>1, <2>4, <2>5, <2>6, <2>7, <2>8 DEF Enters
<1>3. CASE Disconnect(r, p)
  <2>1. /\ req[r].pc = "idle" /\ p \in layout /\ clock < session.expires
        /\ Gated("disconnect") /\ GateIsFree(p)
    BY <1>3 DEF Disconnect, Begins, At, Gated
  <2>2. /\ req'[r].op = "disconnect" /\ req'[r].pc = "revoke" /\ req'[r].at = p
        /\ req'[r].s = session
        /\ Others(r)
    BY <1>3, BeginFacts DEF Disconnect
  <2>3. OnPath(req'[r])
    BY <2>2 DEF OnPath
  <2>4. UNCHANGED <<clock, session, quotes, calls, live, exchanged, lost, issued>>
    BY <1>3 DEF Disconnect, provider, tables, history
  <2>5. GatedEntry(r)
    BY <2>1, <2>2, <2>4 DEF GatedEntry
  <2> QED BY <2>1, <2>2, <2>3, <2>4, <2>5 DEF Enters
<1>4. CASE Search(r, p)
  BY <1>4, CallFacts DEF Search
<1>5. ASSUME NEW op \in Ops, Browse(r, p, op) PROVE Enters(r)
  BY <1>5, CallFacts DEF Browse
<1>6. ASSUME NEW q \in Quotes, Purchase(r, p, q) PROVE Enters(r)
  BY <1>6, CallFacts DEF Purchase
<1>7. ASSUME NEW q \in Quotes, Order(r, p, q) PROVE Enters(r)
  BY <1>7, CallFacts DEF Order
<1>8. ASSUME NEW q \in Quotes, NEW op \in Ops, BeginUpdate(r, p, op, q) PROVE Enters(r)
  <2> DEFINE s == Bare(session)
  <2>1. /\ req[r].pc = "idle" /\ p \in layout /\ clock < session.expires
        /\ op \in {"approve", "cancel"}
    BY <1>8 DEF BeginUpdate, Begins, At
  <2>2. s.token = 0 /\ s.oauth = 0 /\ s.expires = session.expires
    BY DEF Bare, NoSession
  <2> HIDE DEF s
  <2>3. /\ req'[r].op = op /\ req'[r].pc = "update" /\ req'[r].at = p /\ req'[r].s = s
        /\ Others(r)
    BY <1>8, BeginFacts DEF BeginUpdate, s
  <2>4. OnPath(req'[r])
    BY <2>1, <2>3 DEF OnPath
  <2>5. UNCHANGED <<clock, session, quotes, calls, live, exchanged, lost, issued>>
    BY <1>8 DEF BeginUpdate, provider, tables, history
  <2>6. UngatedEntry(r)
    BY <2>1, <2>2, <2>3, <2>5 DEF UngatedEntry, Gated
  <2> QED BY <2>1, <2>3, <2>4, <2>5, <2>6 DEF Enters
<1>9. ASSUME NEW q \in Quotes, NEW limit \in Limits, SaveSetup(r, p, q, limit), ~UNCHANGED req
      PROVE  Enters(r)
  <2> DEFINE x == [Idle EXCEPT !.op = "setup", !.pc = "insert", !.at = p, !.q = q, !.got = limit]
  <2>1. /\ req[r].pc = "idle" /\ p \in layout /\ clock < session.expires
    BY <1>9 DEF SaveSetup, Begins, At
  <2>2. x.op = "setup" /\ x.pc = "insert" /\ x.at = p /\ x.s = NoSession
    BY DEF Idle
  <2>3. NoSession.token = 0 /\ NoSession.oauth = 0 /\ NoSession.expires = 0
    BY DEF NoSession
  <2>4. Become(r, x)
    BY <1>9 DEF SaveSetup
  <2> HIDE DEF x
  <2>5. req'[r] = x /\ Others(r)
    BY <2>4, Becomes
  <2>6. OnPath(req'[r])
    BY <2>2, <2>5 DEF OnPath
  <2>7. UNCHANGED <<clock, session, quotes, calls, live, exchanged, lost, issued>>
    BY <1>9 DEF SaveSetup, provider, tables
  <2>8. UngatedEntry(r)
    BY <2>2, <2>3, <2>5, <2>7 DEF UngatedEntry, Gated
  <2> QED BY <2>1, <2>2, <2>5, <2>6, <2>7, <2>8 DEF Enters
<1>10. ASSUME NEW q \in Quotes, NEW limit \in Limits, SaveSetup(r, p, q, limit), UNCHANGED req
       PROVE  UNCHANGED <<req, clock, session, quotes, calls, live, issued, exchanged, lost>>
  BY <1>10 DEF SaveSetup, provider, tables
<1> QED BY <1>1, <1>2, <1>3, <1>4, <1>5, <1>6, <1>7, <1>8, <1>9, <1>10 DEF Arrival

\* Nothing of the session, the quotes or the tokens changes; requests stay where
\* they are or end, and a token that was on its way is lost with its request.
Rests ==
    /\ UNCHANGED <<session, quotes, calls, live, exchanged>>
    /\ clock <= clock' /\ clock' \in Nat /\ issued'["oauth"] = issued["oauth"]
    /\ \A u \in Requests : Kept(u) \/ req'[u] = Idle
    /\ lost => lost'
    /\ ~lost' => \A u \in Requests : HoldsToken(u) => Kept(u)

LEMMA RestFacts ==
    ASSUME TypeInv, \/ Outside /\ ~Page
                    \/ \E r \in Requests : ProviderFails(r) \/ InsertSetup(r)
                    \/ UNCHANGED vars
    PROVE  Rests
<1> USE DEF HoldsToken
<1>1. clock \in Nat /\ clock <= clock
  BY Unfolded
<1>2. ASSUME UNCHANGED <<session, quotes, calls, live, exchanged, clock, lost, req>>,
             issued'["oauth"] = issued["oauth"]
      PROVE  Rests
  BY <1>1, <1>2 DEF Rests, Kept
<1>3. ASSUME NEW r \in Requests, Ends(r), ~HoldsToken(r) \/ lost', lost => lost',
             UNCHANGED <<session, quotes, calls, live, exchanged, clock, issued>>
      PROVE  Rests
  BY <1>1, <1>3 DEF Rests, Ends, Others
<1>4. ASSUME NEW r \in Requests, ProviderFails(r) PROVE Rests
  BY <1>3, <1>4, Finishes DEF ProviderFails, provider, tables, history
<1>5. ASSUME NEW r \in Requests, InsertSetup(r) PROVE Rests
  BY <1>3, <1>5, Finishes DEF InsertSetup, provider, At
<1>6. ASSUME NEW r \in Requests, Drop(r) PROVE Rests
  BY <1>3, <1>6, Finishes DEF Drop, provider, tables, history
<1>7. CASE Tick
  <2>1. \A u \in Requests : Kept(u)
    BY <1>7, Unfolded DEF Tick, Kept, Locals
  <2> QED BY <1>1, <1>7, <2>1 DEF Tick, Rests, provider, tables, history
<1>8. ASSUME NEW p \in Replicas, Crash(p) PROVE Rests
  <2>1. \A u \in Requests : Kept(u) \/ (req'[u] = Idle /\ req[u].at = p)
    BY <1>8 DEF Crash, Kept
  <2>2. /\ UNCHANGED <<session, quotes, calls, live, exchanged, clock, issued>>
        /\ lost' = (lost \/ \E r \in Requests : req[r].at = p /\ HoldsToken(r))
    BY <1>8 DEF Crash, provider, tables, history
  <2> QED BY <1>1, <2>1, <2>2 DEF Rests
<1>9. CASE Reprice
  BY <1>2, <1>9 DEF Reprice, provider, tables, TypeInv, TypeOK
<1>10. ASSUME NEW p \in Replicas, Boot(p) \/ Register(p) PROVE Rests
  BY <1>2, <1>10 DEF Boot, Register, provider, tables, history
<1>11. ASSUME NEW q \in Quotes, InvoiceMoves(q) PROVE Rests
  BY <1>2, <1>11 DEF InvoiceMoves, tables, history
<1>12. CASE UNCHANGED vars
  BY <1>2, <1>12 DEF vars, provider, tables, history
<1> QED BY <1>4, <1>5, <1>6, <1>7, <1>8, <1>9, <1>10, <1>11, <1>12 DEF Outside

LEMMA GateSteps ==
    ASSUME TypeInv, [Next]_vars
    PROVE  \/ Rests
           \/ Page
           \/ \E r \in Requests :
                 \/ Save(r) \/ Refresh(r) \/ Exchange(r) \/ Revoke(r)
                 \/ Walks(r) \/ Writing(r) \/ Enters(r)
<1>1. ASSUME NEW r \in Requests, Handler(r)
      PROVE  \/ ProviderFails(r) \/ InsertSetup(r)
             \/ Save(r) \/ Refresh(r) \/ Exchange(r) \/ Revoke(r) \/ Walks(r) \/ Writing(r)
  BY <1>1 DEF Handler, Walks, Writing
<1>2. UNCHANGED <<req, clock, session, quotes, calls, live, issued, exchanged, lost>> => Rests
  BY Unfolded DEF Rests, Kept
<1> QED BY <1>1, <1>2, EnterFacts, RestFacts DEF Next

-----------------------------------------------------------------------------
(* One gated request at a time, and sessions that follow each other *)

LEMMA IdleFacts ==
    /\ Idle.pc = "idle" /\ Idle.s.token = 0 /\ Idle.s.oauth = 0 /\ Idle.s.expires = 0
    /\ NoSession.token = 0 /\ NoSession.oauth = 0 /\ NoSession.expires = 0
  BY DEF Idle, NoSession

LEMMA TimeFacts ==
    ASSUME TypeInv
    PROVE  /\ clock \in Nat /\ Day \in Nat /\ session.expires \in Nat
           /\ \A r \in Requests : req[r].s.expires \in Nat
           /\ \A q \in Quotes : quotes[q].owner \in Nat
  BY Unfolded, ConstantFacts DEF Sessions, Rows

\* On one replica a single request holds the gate.
LEMMA Alone ==
    ASSUME GateInv, OneReplica, NEW r \in Requests, NEW u \in Requests, Holds(r), Holds(u)
    PROVE  r = u
  BY DEF GateInv, OneReplica, Holds

LEMMA InitGate == Init => GateInv /\ TimeInv
  BY IdleFacts, ConstantFacts DEF Init, GateInv, TimeInv, Busy, Holds, NoQuote, NoSession

Placed(r) ==
    Busy(r) =>
        /\ OnPath(req[r]) /\ req[r].at \in layout
        /\ ~Gated(req[r].op) => req[r].s.token = 0 /\ req[r].s.oauth = 0

LEMMA GateSplit ==
    GateInv <=> /\ \A r \in Requests : Placed(r)
                /\ \A r, u \in Requests : Holds(r) /\ Holds(u) /\ req[r].at = req[u].at => r = u
  BY DEF GateInv, Placed

LEMMA KeptStays ==
    ASSUME NEW u \in Requests, Kept(u), UNCHANGED layout
    PROVE  /\ Placed(u) => Placed(u)'
           /\ Holds(u)' => Holds(u) /\ req'[u].at = req[u].at
  BY DEF Kept, Placed, Busy, OnPath, Holds

\* The requests stay where they are, end, or are one that goes on.
LEMMA GateGoesOn ==
    ASSUME GateInv, UNCHANGED layout, NEW r \in Requests,
           \A u \in Requests \ {r} : Kept(u) \/ req'[u] = Idle,
           req'[r] = Idle \/ /\ Busy(r) /\ req'[r].op = req[r].op /\ req'[r].at = req[r].at
                             /\ Placed(r)'
    PROVE  GateInv'
<1>1. \A u \in Requests : Holds(u)' => Holds(u) /\ req'[u].at = req[u].at
  <2> TAKE u \in Requests
  <2>1. CASE u = r
    BY <2>1, IdleFacts DEF Holds, Busy
  <2>2. CASE u # r
    BY <2>2, KeptStays, IdleFacts DEF Holds, Busy
  <2> QED BY <2>1, <2>2
<1>2. \A u \in Requests : Placed(u)'
  <2> TAKE u \in Requests
  <2>1. Placed(u) /\ (req'[u] = Idle => Placed(u)')
    BY GateSplit, IdleFacts DEF Placed, Busy
  <2> QED BY <2>1, KeptStays
<1> QED BY <1>1, <1>2, GateSplit DEF GateInv, Placed

LEMMA GateStep ==
    ASSUME TypeInv, GateInv, [Next]_vars
    PROVE  GateInv'
<1>1. UNCHANGED layout
  BY LayoutStays
<1>2. CASE Rests
  <2>1. \A u \in Requests : Placed(u)'
    BY <1>1, <1>2, KeptStays, GateSplit, IdleFacts DEF Rests, Placed, Busy
  <2>2. \A u \in Requests : Holds(u)' => Holds(u) /\ req'[u].at = req[u].at
    BY <1>1, <1>2, KeptStays, IdleFacts DEF Rests, Holds, Busy
  <2> QED BY <2>1, <2>2 DEF GateInv, Placed
<1>3. CASE Page
  BY <1>1, <1>3 DEF Page, GateInv, Busy, Holds, OnPath
<1>4. ASSUME NEW r \in Requests, Others(r), Ends(r) PROVE GateInv'
  BY <1>1, <1>4, GateGoesOn DEF Ends, Others
<1>5. ASSUME NEW r \in Requests, NEW pc, Goes(r, pc), Busy(r), pc # "idle",
             OnPath(req[r]) => OnPath(req'[r]),
             ~Gated(req[r].op) /\ req[r].s.token = 0 /\ req[r].s.oauth = 0 =>
                 req'[r].s.token = 0 /\ req'[r].s.oauth = 0
      PROVE  GateInv'
  <2>1. Placed(r)'
    BY <1>1, <1>5, GateSplit DEF Placed, Busy, Goes
  <2> QED BY <1>1, <1>5, <2>1, GateGoesOn DEF Goes, Others
<1>6. ASSUME NEW r \in Requests, Save(r) PROVE GateInv'
  <2>1. CASE Ends(r)
    BY <1>4, <2>1 DEF Ends
  <2>2. ASSUME NEW pc, Goes(r, pc), req'[r].s = req[r].s,
               \/ req[r].pc = "forget" /\ pc = "exchange"
               \/ req[r].pc = "keep" /\ pc = "call"
               \/ req[r].pc = "wipe" /\ pc = "cancel_all"
        PROVE  GateInv'
    BY <1>5, <2>2 DEF OnPath, Goes, Busy
  <2> QED BY <1>6, <2>1, <2>2, SaveFacts
<1>7. ASSUME NEW r \in Requests, Refresh(r) PROVE GateInv'
  <2>1. CASE Ends(r)
    BY <1>4, <2>1 DEF Ends
  <2>2. CASE Goes(r, "keep")
    <3>1. Busy(r) /\ req[r].pc = "refresh"
      BY <1>7, RefreshFacts DEF Busy
    <3>2. OnPath(req[r])
      BY <3>1 DEF GateInv
    <3> QED BY <1>5, <2>2, <3>1, <3>2 DEF OnPath, Goes, Gated
  <2> QED BY <1>7, <2>1, <2>2, RefreshFacts
<1>8. ASSUME NEW r \in Requests, Exchange(r) PROVE GateInv'
  <2>1. CASE Ends(r)
    BY <1>4, <2>1 DEF Ends
  <2>2. CASE Goes(r, "save")
    <3>1. Busy(r) /\ req[r].pc = "exchange"
      BY <1>8, ExchangeFacts DEF Busy
    <3>2. OnPath(req[r])
      BY <3>1 DEF GateInv
    <3> QED BY <1>5, <2>2, <3>1, <3>2 DEF OnPath, Goes, Gated
  <2> QED BY <1>8, <2>1, <2>2, ExchangeFacts
<1>9. ASSUME NEW r \in Requests, Revoke(r) PROVE GateInv'
  <2>1. Busy(r) /\ req[r].pc = "revoke" /\ Goes(r, "wipe")
    BY <1>9, RevokeFacts DEF Busy
  <2>2. OnPath(req[r])
    BY <2>1 DEF GateInv
  <2> QED BY <1>5, <2>1, <2>2 DEF OnPath, Goes, Gated
<1>10. ASSUME NEW r \in Requests, Walks(r) PROVE GateInv'
  <2>1. Busy(r) /\ OnPath(req[r]) /\ req[r].pc \in {"call", "priced", "buy"}
    BY <1>10, WalkFacts DEF GateInv, Busy
  <2>2. CASE Ends(r)
    BY <1>4, <2>2 DEF Ends
  <2>3. Gated(req[r].op)
    BY <2>1 DEF OnPath, Gated
  <2>4. ASSUME NEW pc, Goes(r, pc),
               \/ req[r].pc = "call" /\ req[r].op = "search" /\ pc = "save"
               \/ req[r].pc = "call" /\ req[r].op \in {"quote", "match", "purchase"} /\ pc = "priced"
               \/ req[r].pc = "call" /\ req[r].op = "order" /\ pc = "polled"
               \/ req[r].pc = "priced" /\ req[r].op = "purchase" /\ pc = "buy"
               \/ req[r].pc = "buy" /\ pc = "told"
        PROVE  GateInv'
    <3>1. OnPath(req'[r])
      BY <2>1, <2>4 DEF OnPath, Goes
    <3> QED BY <1>5, <2>1, <2>3, <2>4, <3>1
  <2> QED BY <1>10, <2>2, <2>4, WalkFacts
<1>11. ASSUME NEW r \in Requests, Writing(r) PROVE GateInv'
  BY <1>4, <1>11, WritingFacts DEF Ends
<1>12. ASSUME NEW r \in Requests, Enters(r) PROVE GateInv'
  <2>1. req[r].pc = "idle" /\ Others(r) /\ OnPath(req'[r]) /\ req'[r].at \in layout
    BY <1>12 DEF Enters
  <2>2. \A u \in Requests : Placed(u)'
    <3>1. Placed(r)'
      BY <1>1, <1>12, <2>1 DEF Placed, Enters, GatedEntry, UngatedEntry
    <3>2. \A u \in Requests \ {r} : Placed(u)'
      BY <1>1, <2>1, KeptStays, GateSplit DEF Others
    <3> QED BY <3>1, <3>2
  <2>3. \A u \in Requests \ {r} : Holds(u)' => Holds(u) /\ req'[u].at = req[u].at
    BY <1>1, <2>1, KeptStays DEF Others
  <2>4. Holds(r)' => \A u \in Requests : Holds(u) => req[u].at # req'[r].at
    BY <1>12 DEF Enters, GatedEntry, UngatedEntry, GateIsFree, Holds, Busy, At
  <2>5. \A u, w \in Requests : Holds(u)' /\ Holds(w)' /\ req'[u].at = req'[w].at => u = w
    BY <2>3, <2>4 DEF GateInv
  <2> QED BY <2>2, <2>5 DEF GateInv, Placed
<1> QED BY <1>2, <1>3, <1>6, <1>7, <1>8, <1>9, <1>10, <1>11, <1>12, GateSteps

\* The session goes on, or the page opens another that lasts longer.
LEMMA TimeStep ==
    ASSUME TypeInv, GateInv, TimeInv, [Next]_vars
    PROVE  TimeInv' /\ (Page /\ (\E r \in Requests : Busy(r)) => session'.expires > session.expires)
<1> USE TimeFacts
<1>2. ASSUME session'.expires = session.expires, clock <= clock', clock' \in Nat,
             \A r \in Requests :
                Busy(r)' => \/ Busy(r) /\ req'[r].s.expires \in {0, req[r].s.expires}
                            \/ clock < session.expires /\ req'[r].s.expires \in {0, session.expires},
             \A q \in Quotes :
                \/ quotes'[q].owner = quotes[q].owner
                \/ \E r \in Requests : Busy(r) /\ quotes'[q].owner = req[r].s.expires
      PROVE  TimeInv'
  <2>1. session'.expires <= clock' + Day
    BY <1>2 DEF TimeInv
  <2>2. clock < session.expires => Day > 0
    BY DEF TimeInv
  <2>3. \A r \in Requests : Busy(r)' => Day > 0 /\ req'[r].s.expires <= session'.expires
    <3> SUFFICES ASSUME NEW r \in Requests, Busy(r)'
                 PROVE  Day > 0 /\ req'[r].s.expires <= session'.expires
      OBVIOUS
    <3>1. CASE Busy(r) /\ req'[r].s.expires \in {0, req[r].s.expires}
      <4>1. Day > 0 /\ req[r].s.expires <= session.expires
        BY <3>1 DEF TimeInv
      <4> QED BY <1>2, <3>1, <4>1
    <3>2. CASE clock < session.expires /\ req'[r].s.expires \in {0, session.expires}
      BY <1>2, <2>2, <3>2
    <3> QED BY <1>2, <3>1, <3>2
  <2>4. \A q \in Quotes : quotes'[q].owner <= session'.expires
    BY <1>2 DEF TimeInv
  <2> QED BY <2>1, <2>3, <2>4 DEF TimeInv
<1>3. CASE Page
  <2>1. /\ session'.expires = clock + Day /\ clock >= session.expires
        /\ UNCHANGED <<clock, quotes, req>>
    BY <1>3, IdleFacts DEF Page, NoSession
  <2>2. session'.expires >= session.expires
    BY <2>1 DEF TimeInv
  <2>3. (\E r \in Requests : Busy(r)) => session'.expires > session.expires
    BY <2>1 DEF TimeInv
  <2>4. \A r \in Requests : Busy(r)' = Busy(r)
    BY <2>1 DEF Busy
  <2>5. \A r \in Requests : Busy(r) => Day > 0 /\ req[r].s.expires <= session'.expires
    BY <2>1, <2>2 DEF TimeInv
  <2>6. \A q \in Quotes : quotes[q].owner <= session'.expires
    BY <2>1, <2>2 DEF TimeInv
  <2> QED BY <2>1, <2>3, <2>4, <2>5, <2>6 DEF TimeInv
<1>4. ASSUME NEW r \in Requests, Others(r), UNCHANGED clock, session'.expires = session.expires,
             Busy(r)' => \/ Busy(r) /\ req'[r].s.expires \in {0, req[r].s.expires}
                         \/ clock < session.expires /\ req'[r].s.expires \in {0, session.expires},
             \A q \in Quotes :
                \/ quotes'[q].owner = quotes[q].owner
                \/ Busy(r) /\ quotes'[q].owner = req[r].s.expires
      PROVE  TimeInv'
  <2>1. \A u \in Requests \ {r} : Busy(u)' => Busy(u) /\ req'[u].s.expires = req[u].s.expires
    BY <1>4 DEF Others, Kept, Busy
  <2> QED BY <1>2, <1>4, <2>1
<1>5. ASSUME Rests PROVE TimeInv'
  <2>1. \A r \in Requests : Busy(r)' => Busy(r) /\ req'[r].s.expires = req[r].s.expires
    BY <1>5, IdleFacts DEF Rests, Kept, Busy
  <2>2. /\ session'.expires = session.expires /\ clock <= clock' /\ clock' \in Nat
        /\ UNCHANGED quotes
    BY <1>5 DEF Rests
  <2> QED BY <1>2, <2>1, <2>2
<1>6. ASSUME NEW r \in Requests, Save(r) PROVE TimeInv'
  BY <1>4, <1>6, SaveFacts, IdleFacts DEF Ends, Goes, Busy
<1>7. ASSUME NEW r \in Requests, Refresh(r) \/ Exchange(r) \/ Revoke(r) PROVE TimeInv'
  BY <1>4, <1>7, RefreshFacts, ExchangeFacts, RevokeFacts, IdleFacts DEF Ends, Goes, Busy
<1>8. ASSUME NEW r \in Requests, Walks(r) PROVE TimeInv'
  BY <1>4, <1>8, WalkFacts, IdleFacts DEF Ends, Goes, Busy
<1>9. ASSUME NEW r \in Requests, Writing(r) PROVE TimeInv'
  BY <1>4, <1>9, WritingFacts, IdleFacts DEF Ends, Busy
<1>10. ASSUME NEW r \in Requests, Enters(r) PROVE TimeInv'
  BY <1>4, <1>10 DEF Enters, GatedEntry, UngatedEntry
<1>12. Page => TimeInv' /\ ((\E r \in Requests : Busy(r)) => session'.expires > session.expires)
  <2>1. Page /\ (\E r \in Requests : Busy(r)) => session'.expires > session.expires
    BY IdleFacts DEF Page, NoSession, TimeInv
  <2> QED BY <1>3, <2>1
<1> QED BY <1>5, <1>6, <1>7, <1>8, <1>9, <1>10, <1>12, GateSteps

-----------------------------------------------------------------------------
(* What the holder of the gate carries *)

\* All but the updates and the insert of a setup is done under the gate.
LEMMA UnderTheGate ==
    ASSUME GateInv, NEW r \in Requests, req[r].pc \notin {"idle", "update", "insert"}
    PROVE  Holds(r) /\ OnPath(req[r])
<1>1. Busy(r) /\ OnPath(req[r])
  BY DEF GateInv, Busy
<1> QED BY <1>1 DEF OnPath, Holds, Gated

LEMMA HoldsAlone ==
    ASSUME GateInv, OneReplica, NEW r \in Requests, Holds(r), Others(r)
    PROVE  \A u \in Requests \ {r} : ~Holds(u) /\ ~Holds(u)'
  BY Alone DEF Others, Kept, Holds, Busy

LEMMA IdleHoldsNot == ASSUME NEW u, req'[u] = Idle PROVE ~Holds(u)' /\ ~Busy(u)'
  BY IdleFacts DEF Holds, Busy

LEMMA OneReplicaStays == UNCHANGED layout => OneReplica' = OneReplica
  BY DEF OneReplica

LEMMA CarryKept ==
    ASSUME NEW u, Kept(u), UNCHANGED session
    PROVE  (Holds(u)' => Holds(u)) /\ (Carry(u) => Carry(u)')
  BY DEF Kept, Holds, Busy, Carry, Current

LEMMA CarryStep ==
    ASSUME TypeInv, GateInv, TimeInv, CarryInv, [Next]_vars
    PROVE  CarryInv'
<1>1. SUFFICES ASSUME OneReplica PROVE \A u \in Requests : Holds(u)' => Carry(u)'
  BY LayoutStays, OneReplicaStays DEF CarryInv
<1>2. \A u \in Requests : Holds(u) => Carry(u)
  BY <1>1 DEF CarryInv
<1> DEFINE Goal == \A u \in Requests : Holds(u)' => Carry(u)'
<1>3. ASSUME NEW r \in Requests, Others(r), UNCHANGED session, Holds(r)' => Carry(r)' PROVE Goal
  BY <1>2, <1>3, CarryKept DEF Others
<1>4. ASSUME NEW r \in Requests, Ends(r), UNCHANGED session PROVE Goal
  BY <1>3, <1>4, IdleHoldsNot DEF Ends
<1>5. CASE Rests
  BY <1>2, <1>5, CarryKept, IdleHoldsNot DEF Rests
<1>6. CASE Page
  <2> SUFFICES ASSUME NEW u \in Requests, Holds(u)' PROVE Carry(u)'
    OBVIOUS
  <2>1. UNCHANGED req /\ session'.token = 0 /\ session'.oauth = 0
    BY <1>6, IdleFacts DEF Page, NoSession
  <2>2. Holds(u) /\ Busy(u)
    BY <2>1 DEF Holds, Busy
  <2>3. session'.expires > session.expires
    BY <1>6, <2>2, TimeStep
  <2>4. session'.expires = clock + Day
    BY <1>6 DEF Page, NoSession
  <2>5. req[u].s.expires # session'.expires
    BY <2>2, <2>3, <2>4, TimeFacts DEF TimeInv
  <2> QED BY <1>2, <2>1, <2>2, <2>5 DEF Carry, Current
<1>7. ASSUME NEW r \in Requests, Save(r) PROVE Goal
  <2>1. Holds(r) /\ Carry(r) /\ OnPath(req[r]) /\ Others(r)
    BY <1>2, <1>7, SaveFacts, UnderTheGate DEF Ends, Goes
  <2>2. \A u \in Requests \ {r} : ~Holds(u)'
    BY <1>1, <2>1, HoldsAlone
  <2>3. Holds(r)' => Carry(r)'
    <3>1. CASE req[r].pc = "save"
      BY <1>7, <3>1, SaveFacts, IdleHoldsNot DEF Ends
    <3>2. CASE req[r].pc # "save"
      <4>1. /\ req'[r].s = req[r].s /\ req'[r].pc \notin {"refresh", "keep"}
            /\ req[r].pc # "polled"
            /\ session' = IF session.expires = req[r].s.expires THEN req[r].s ELSE session
        BY <1>7, <3>2, SaveFacts DEF Goes
      <4> QED BY <2>1, <4>1 DEF Carry, Current
    <3> QED BY <3>1, <3>2
  <2> QED BY <2>2, <2>3
<1>8. ASSUME NEW r \in Requests, Refresh(r) PROVE Goal
  <2>1. Holds(r) /\ Carry(r) /\ OnPath(req[r]) /\ req[r].pc = "refresh" /\ UNCHANGED session
    BY <1>2, <1>8, RefreshFacts, UnderTheGate
  <2>2. req[r].op # "callback"
    BY <2>1 DEF OnPath
  <2>3. CASE Ends(r)
    BY <1>4, <2>1, <2>3
  <2>4. CASE /\ Goes(r, "keep") /\ req'[r].s.token \in Nat \ {0}
             /\ req'[r].s.expires = req[r].s.expires
    <3>1. Carry(r)'
      BY <2>1, <2>2, <2>4 DEF Carry, Current, Goes
    <3> QED BY <1>3, <2>1, <2>4, <3>1 DEF Goes
  <2> QED BY <1>8, <2>3, <2>4, RefreshFacts
<1>9. ASSUME NEW r \in Requests, Exchange(r) PROVE Goal
  <2>1. Holds(r) /\ Carry(r) /\ OnPath(req[r]) /\ req[r].pc = "exchange" /\ UNCHANGED session
    BY <1>2, <1>9, ExchangeFacts, UnderTheGate
  <2>2. req[r].op = "callback"
    BY <2>1 DEF OnPath
  <2>3. CASE Ends(r)
    BY <1>4, <2>1, <2>3
  <2>4. CASE Goes(r, "save") /\ req'[r].s.expires = req[r].s.expires
    <3>1. Carry(r)'
      BY <2>1, <2>2, <2>4 DEF Carry, Current, Goes
    <3> QED BY <1>3, <2>1, <2>4, <3>1 DEF Goes
  <2> QED BY <1>9, <2>3, <2>4, ExchangeFacts
<1>10. ASSUME NEW r \in Requests, Revoke(r) PROVE Goal
  <2>1. Holds(r) /\ Carry(r) /\ req[r].pc = "revoke" /\ UNCHANGED session
    BY <1>2, <1>10, RevokeFacts, UnderTheGate
  <2>2. Carry(r)'
    BY <1>10, <2>1, RevokeFacts DEF Carry, Current, Goes
  <2> QED BY <1>3, <1>10, <2>1, <2>2, RevokeFacts DEF Goes
<1>11. ASSUME NEW r \in Requests, Walks(r) PROVE Goal
  <2>1. /\ Holds(r) /\ Carry(r) /\ OnPath(req[r]) /\ req[r].pc \in {"call", "priced", "buy"}
        /\ UNCHANGED session
    BY <1>2, <1>11, WalkFacts, UnderTheGate
  <2>2. CASE Ends(r)
    BY <1>4, <2>1, <2>2
  <2>3. CASE \E pc \in {"save", "priced", "buy", "told"} :
                /\ Goes(r, pc) /\ req'[r].s.token \in {0, req[r].s.token}
                /\ req'[r].s.expires = req[r].s.expires
    <3>1. PICK pc \in {"save", "priced", "buy", "told"} :
                /\ Goes(r, pc) /\ req'[r].s.token \in {0, req[r].s.token}
                /\ req'[r].s.expires = req[r].s.expires
      BY <2>3
    <3>2. Carry(r)'
      BY <2>1, <3>1 DEF Carry, Current, Goes
    <3> QED BY <1>3, <2>1, <3>1, <3>2 DEF Goes
  <2>4. CASE Goes(r, "polled") /\ req'[r].s = NoSession
    <3>1. Carry(r)'
      BY <2>4, IdleFacts DEF Carry, Current, Goes
    <3> QED BY <1>3, <2>1, <2>4, <3>1 DEF Goes
  <2> QED BY <1>11, <2>2, <2>3, <2>4, WalkFacts
<1>12. ASSUME NEW r \in Requests, Writing(r) PROVE Goal
  BY <1>4, <1>12, WritingFacts
<1>13. ASSUME NEW r \in Requests, Enters(r) PROVE Goal
  <2>1. Others(r) /\ UNCHANGED session
    BY <1>13 DEF Enters
  <2>2. Holds(r)' => GatedEntry(r)
    BY <1>13 DEF Enters, UngatedEntry, Holds
  <2>3. GatedEntry(r) => Carry(r)'
    <3> SUFFICES ASSUME GatedEntry(r) PROVE Carry(r)'
      OBVIOUS
    <3>1. /\ req'[r].s.expires = session.expires /\ req'[r].s.token = session.token
          /\ req'[r].pc \in {"save", "forget", "revoke", "call", "refresh"}
          /\ req'[r].pc = "refresh" => session.token # 0
      BY <1>13 DEF GatedEntry, Enters, OnPath
    <3> QED BY <2>1, <3>1 DEF Carry, Current
  <2> QED BY <1>3, <2>1, <2>2, <2>3
<1> QED BY <1>5, <1>6, <1>7, <1>8, <1>9, <1>10, <1>11, <1>12, <1>13, GateSteps

-----------------------------------------------------------------------------
(* Tokens *)

LEMMA TokenStep ==
    ASSUME TypeInv, GateInv, CarryInv, TokenInv, [Next]_vars
    PROVE  TokenInv'
<1>1. SUFFICES ASSUME OneReplica, ~lost' PROVE
          /\ \A u \in Requests : Busy(u)' => req'[u].s.token \in live' \cup {0}
          /\ session'.token # 0 =>
                \/ session'.token \in live'
                \/ \E u \in Requests : req'[u].pc \in {"keep", "wipe"}
  BY LayoutStays, OneReplicaStays DEF TokenInv
<1>2. lost => lost'
  <2>1. ASSUME NEW r \in Requests, Enters(r) PROVE UNCHANGED lost
    BY <2>1 DEF Enters
  <2> QED BY <2>1, GateSteps, SaveFacts, RefreshFacts, ExchangeFacts, RevokeFacts, WalkFacts,
             WritingFacts DEF Rests, Page
<1>3. /\ \A u \in Requests : Busy(u) => req[u].s.token \in live \cup {0}
      /\ session.token # 0 =>
            \/ session.token \in live
            \/ \E u \in Requests : req[u].pc \in {"keep", "wipe"}
  BY <1>1, <1>2 DEF TokenInv
<1>4. \A u \in Requests : Busy(u) /\ ~Holds(u) => req[u].s.token = 0
  BY DEF GateInv, Holds
<1> DEFINE Goal == /\ \A u \in Requests : Busy(u)' => req'[u].s.token \in live' \cup {0}
                   /\ session'.token # 0 =>
                         \/ session'.token \in live'
                         \/ \E u \in Requests : req'[u].pc \in {"keep", "wipe"}
\* A step that neither holds a token nor takes one away.
<1>5. ASSUME NEW r \in Requests, Others(r), UNCHANGED session, live \subseteq live',
             req[r].pc \notin {"keep", "wipe"},
             Busy(r)' => req'[r].s.token \in live' \cup {0}
      PROVE  Goal
  <2>1. \A u \in Requests \ {r} : Busy(u)' => Busy(u) /\ req'[u].s.token = req[u].s.token
    BY <1>5 DEF Others, Kept, Busy
  <2>2. \A u \in Requests : req[u].pc \in {"keep", "wipe"} => req'[u].pc \in {"keep", "wipe"}
    BY <1>5 DEF Others, Kept
  <2> QED BY <1>3, <1>5, <2>1, <2>2
<1>6. ASSUME NEW r \in Requests, Ends(r), UNCHANGED <<session, live>>,
             req[r].pc \notin {"keep", "wipe"}
      PROVE  Goal
  BY <1>5, <1>6, IdleHoldsNot DEF Ends
<1>7. CASE Rests
  <2>1. \A u \in Requests : Busy(u)' => Busy(u) /\ req'[u].s.token = req[u].s.token
    BY <1>7, IdleFacts DEF Rests, Kept, Busy
  <2>2. \A u \in Requests : req[u].pc \in {"keep", "wipe"} => req'[u].pc \in {"keep", "wipe"}
    BY <1>1, <1>7 DEF Rests, HoldsToken, Kept
  <2>3. UNCHANGED <<session, live>>
    BY <1>7 DEF Rests
  <2> QED BY <1>3, <2>1, <2>2, <2>3
<1>8. CASE Page
  <2>1. UNCHANGED <<req, live>> /\ session'.token = 0
    BY <1>8, IdleFacts DEF Page, NoSession, provider
  <2> QED BY <1>3, <2>1 DEF Busy
<1>9. ASSUME NEW r \in Requests, Save(r) PROVE Goal
  <2>1. Holds(r) /\ Others(r) /\ Busy(r) /\ UNCHANGED live /\ req[r].pc # "polled"
    BY <1>9, SaveFacts, UnderTheGate DEF Ends, Goes, Holds
  <2>2. Carry(r)
    BY <1>1, <2>1 DEF CarryInv
  <2>3. req[r].s.token \in live \cup {0}
    BY <1>3, <2>1
  <2>4. session'.token \in live' \cup {0}
    BY <1>9, <2>1, <2>2, <2>3, SaveFacts DEF Carry, Current
  <2>5. \A u \in Requests \ {r} : Busy(u)' => Busy(u) /\ req'[u].s.token = req[u].s.token
    BY <2>1 DEF Others, Kept, Busy
  <2>6. Busy(r)' => req'[r].s = req[r].s
    BY <1>9, SaveFacts, IdleHoldsNot DEF Ends
  <2> QED BY <1>3, <2>1, <2>3, <2>4, <2>5, <2>6
<1>10. ASSUME NEW r \in Requests, Refresh(r) PROVE Goal
  <2>1. Holds(r) /\ UNCHANGED session
    BY <1>10, RefreshFacts, UnderTheGate
  <2>2. PICK n \in Nat \ {0} :
           /\ live' = (live \ {req[r].s.token}) \cup {n}
           /\ Goes(r, "keep") /\ req'[r].s.token = n
    BY <1>1, <1>10, RefreshFacts
  <2>3. \A u \in Requests \ {r} : Busy(u)' => req'[u].s.token = 0
    <3>1. \A u \in Requests \ {r} : ~Holds(u) /\ Kept(u)
      BY <1>1, <2>1, <2>2, HoldsAlone DEF Goes, Others
    <3> QED BY <1>4, <3>1 DEF Kept, Busy
  <2> QED BY <2>2, <2>3 DEF Goes
<1>11. ASSUME NEW r \in Requests, Exchange(r) PROVE Goal
  BY <1>5, <1>11, ExchangeFacts, IdleHoldsNot DEF Ends, Goes
<1>12. ASSUME NEW r \in Requests, Revoke(r) PROVE Goal
  <2>1. Holds(r) /\ Goes(r, "wipe") /\ req'[r].s.token = 0
    BY <1>12, RevokeFacts, UnderTheGate
  <2>2. \A u \in Requests \ {r} : Busy(u)' => req'[u].s.token = 0
    <3>1. \A u \in Requests \ {r} : ~Holds(u) /\ Kept(u)
      BY <1>1, <2>1, HoldsAlone DEF Goes, Others
    <3> QED BY <1>4, <3>1 DEF Kept, Busy
  <2> QED BY <2>1, <2>2 DEF Goes
<1>13. ASSUME NEW r \in Requests, Walks(r) PROVE Goal
  <2>1. Busy(r) /\ req[r].pc \notin {"keep", "wipe"} /\ UNCHANGED <<session, live>>
    BY <1>13, WalkFacts DEF Busy
  <2>2. Ends(r) \/ (Others(r) /\ req'[r].s.token \in {0, req[r].s.token})
    BY <1>13, WalkFacts, IdleFacts DEF Goes
  <2> QED BY <1>3, <1>5, <1>6, <2>1, <2>2
<1>14. ASSUME NEW r \in Requests, Writing(r) PROVE Goal
  BY <1>6, <1>14, WritingFacts
<1>15. ASSUME NEW r \in Requests, Enters(r) PROVE Goal
  <2>1. Others(r) /\ UNCHANGED <<session, live>> /\ req[r].pc = "idle" /\ req'[r].at \in layout
    BY <1>15 DEF Enters
  <2>2. UngatedEntry(r) => req'[r].s.token = 0
    BY DEF UngatedEntry
  <2>3. GatedEntry(r) => req'[r].s.token \in live' \cup {0}
    <3> SUFFICES ASSUME GatedEntry(r) PROVE req'[r].s.token \in live' \cup {0}
      OBVIOUS
    <3>1. \A u \in Requests : Holds(u) => req[u].at # req'[r].at
      BY DEF GatedEntry, GateIsFree, Holds, Busy, At
    <3>2. \A u \in Requests : ~Holds(u)
      BY <1>1, <2>1, <3>1 DEF GateInv, OneReplica, Holds
    <3>3. \A u \in Requests : req[u].pc \notin {"keep", "wipe"}
      BY <3>2, UnderTheGate
    <3> QED BY <1>3, <2>1, <3>3 DEF GatedEntry
  <2> QED BY <1>5, <1>15, <2>1, <2>2, <2>3 DEF Enters
<1> QED BY <1>7, <1>8, <1>9, <1>10, <1>11, <1>12, <1>13, <1>14, <1>15, GateSteps

-----------------------------------------------------------------------------
(* OAuth requests *)

LEMMA CodeFacts ==
    ASSUME TypeInv
    PROVE  /\ issued["oauth"] \in Nat /\ mix.starts \in Nat /\ mix.starts <= MaxStarts
           /\ MaxStarts \in Nat /\ session.oauth \in Nat
           /\ exchanged \in [1 .. MaxStarts -> Nat]
           /\ \A r \in Requests : req[r].s.oauth \in Nat /\ req[r].got \in Nat
<1>1. mix \in Mixes
  BY Unfolded
<1>2. mix.starts <= MaxStarts
  BY <1>1, BitrefillAssumption
<1> QED BY <1>1, <1>2, MixFacts, ConstantFacts, Unfolded DEF TypeInv, TypeOK, Sessions

LEMMA UnusedZero == TypeInv => Unused(0)
  BY CodeFacts DEF Unused

LEMMA CodeKept ==
    ASSUME NEW u, Kept(u), UNCHANGED <<session, exchanged>>, issued'["oauth"] = issued["oauth"]
    PROVE  (Busy(u)' => Busy(u)) /\ (Code(u) => Code(u)')
  BY DEF Kept, Busy, Code, Unused

\* Only the holder of the gate has a code to present.
LEMMA Coders ==
    ASSUME GateInv, OneReplica, NEW r \in Requests, Holds(r), Others(r)
    PROVE  \A u \in Requests \ {r} :
              Busy(u)' => /\ Busy(u) /\ req'[u].op # "callback"
                          /\ req'[u].s.oauth = 0
<1> SUFFICES ASSUME NEW u \in Requests \ {r}, Busy(u)'
             PROVE  Busy(u) /\ req'[u].op # "callback" /\ req'[u].s.oauth = 0
  OBVIOUS
<1>1. Kept(u) /\ ~Holds(u)
  BY HoldsAlone DEF Others
<1>2. Busy(u) /\ ~Gated(req[u].op)
  BY <1>1 DEF Kept, Busy, Holds
<1> QED BY <1>1, <1>2 DEF GateInv, Kept, Gated

LEMMA StateStep ==
    ASSUME TypeInv, GateInv, CarryInv, StateInv, [Next]_vars
    PROVE  StateInv'
<1>1. SUFFICES ASSUME OneReplica PROVE Codes'
  BY LayoutStays, OneReplicaStays DEF StateInv
<1>2. Codes /\ UNCHANGED mix
  BY <1>1, LayoutStays DEF StateInv
<1> USE CodeFacts
<1>3. ASSUME UNCHANGED exchanged, issued'["oauth"] = issued["oauth"], Unused(session'.oauth),
             \A u \in Requests : Busy(u)' => Code(u)'
      PROVE  Codes'
  BY <1>2, <1>3 DEF Codes, Unused
<1>4. ASSUME NEW r \in Requests, Others(r), UNCHANGED <<session, exchanged>>,
             issued'["oauth"] = issued["oauth"], Busy(r)' => Code(r)'
      PROVE  Codes'
  BY <1>2, <1>3, <1>4, CodeKept DEF Codes, Others
<1>5. ASSUME NEW r \in Requests, Ends(r), UNCHANGED <<session, exchanged>>,
             issued'["oauth"] = issued["oauth"]
      PROVE  Codes'
  BY <1>4, <1>5, IdleHoldsNot DEF Ends
<1>6. CASE Rests
  <2>1. \A u \in Requests : Busy(u)' => Code(u)'
    BY <1>2, <1>6, CodeKept, IdleHoldsNot DEF Rests, Codes
  <2> QED BY <1>2, <1>3, <1>6, <2>1 DEF Rests, Codes
<1>7. CASE Page
  <2>1. UNCHANGED <<req, exchanged, issued>> /\ session'.oauth = 0
    BY <1>7, IdleFacts DEF Page, NoSession, history
  <2>2. \A u \in Requests : Busy(u)' => Code(u)'
    <3> SUFFICES ASSUME NEW u \in Requests, Busy(u) PROVE Code(u)'
      BY <2>1 DEF Busy
    <3>1. Code(u) /\ (req[u].op = "callback" /\ req[u].pc = "exchange" => req[u].got # 0)
      BY <1>2 DEF Codes, Code
    <3> QED BY <2>1, <3>1 DEF Code, Unused
  <2> QED BY <1>3, <2>1, <2>2, UnusedZero
<1>8. ASSUME NEW r \in Requests, Save(r) PROVE Codes'
  <2>1. /\ Holds(r) /\ Busy(r) /\ Others(r) /\ OnPath(req[r]) /\ req[r].pc # "polled"
        /\ UNCHANGED <<exchanged, issued>>
    BY <1>8, SaveFacts, UnderTheGate DEF Ends, Goes, Holds
  <2>2. Carry(r) /\ Code(r)
    BY <1>1, <1>2, <2>1 DEF CarryInv, Codes
  <2>3. /\ session' = IF session.expires = req[r].s.expires THEN req[r].s ELSE session
        /\ session'.oauth \in {req[r].s.oauth, session.oauth}
    BY <1>8, SaveFacts
  <2>4. Unused(session'.oauth)
    BY <1>2, <2>2, <2>3 DEF Codes, Code
  <2>5. \A u \in Requests \ {r} : Busy(u)' => Code(u)'
    BY <1>1, <2>1, Coders, UnusedZero DEF Code, Unused
  <2>6. Busy(r)' => Code(r)'
    <3>1. CASE req[r].pc = "save"
      BY <1>8, <3>1, SaveFacts, IdleHoldsNot DEF Ends
    <3>2. CASE req[r].pc = "forget"
      <4>1. /\ Goes(r, "exchange") /\ req'[r].s = req[r].s /\ req'[r].got = req[r].got
            /\ req[r].op = "callback"
        BY <1>8, <2>1, <3>2, SaveFacts DEF OnPath
      <4>2. session'.oauth = 0
        BY <2>2, <2>3, <3>2, <4>1 DEF Carry, Current, Code
      <4> QED BY <2>1, <2>2, <3>2, <4>1, <4>2 DEF Code, Unused, Goes
    <3>3. CASE req[r].pc \in {"keep", "wipe"}
      <4>1. /\ req'[r].op = req[r].op /\ req'[r].s = req[r].s
            /\ req[r].op # "callback"
        BY <1>8, <2>1, <3>3, SaveFacts DEF OnPath, Goes
      <4> QED BY <2>1, <2>2, <4>1 DEF Code, Unused
    <3> QED BY <1>8, <3>1, <3>2, <3>3, SaveFacts
  <2> QED BY <1>3, <2>1, <2>4, <2>5, <2>6
<1>9. ASSUME NEW r \in Requests, Refresh(r) PROVE Codes'
  <2>1. /\ Holds(r) /\ Busy(r) /\ OnPath(req[r]) /\ req[r].pc = "refresh"
        /\ UNCHANGED <<session, exchanged>> /\ issued'["oauth"] = issued["oauth"]
    BY <1>9, RefreshFacts, UnderTheGate DEF Holds
  <2>2. CASE Ends(r)
    BY <1>5, <2>1, <2>2
  <2>3. CASE Goes(r, "keep") /\ req'[r].s.oauth = req[r].s.oauth
    <3>1. Code(r) /\ req[r].op # "callback"
      BY <1>2, <2>1 DEF Codes, OnPath
    <3>2. Code(r)'
      BY <2>1, <2>3, <3>1 DEF Code, Unused, Goes
    <3> QED BY <1>4, <2>1, <2>3, <3>2 DEF Goes
  <2> QED BY <1>9, <2>2, <2>3, RefreshFacts
<1>10. ASSUME NEW r \in Requests, Exchange(r) PROVE Codes'
  <2>1. /\ Holds(r) /\ Busy(r) /\ OnPath(req[r]) /\ req[r].pc = "exchange" /\ Others(r)
        /\ UNCHANGED session /\ issued'["oauth"] = issued["oauth"]
    BY <1>10, ExchangeFacts, UnderTheGate DEF Holds, Ends, Goes
  <2>2. PICK n : n = req[r].got
    OBVIOUS
  <2>3. /\ n # 0 /\ Unused(n) /\ session.oauth # n /\ req[r].s.oauth = 0
        /\ req[r].op = "callback"
    BY <1>2, <2>1, <2>2 DEF Codes, Code, OnPath
  <2>4. /\ exchanged' = [exchanged EXCEPT ![n] = @ + 1]
        /\ n \in 1 .. MaxStarts /\ n <= issued["oauth"] /\ exchanged[n] = 0
    <3>1. n \in Nat /\ n <= MaxStarts
      BY <1>2, <2>2, <2>3 DEF Unused, Codes
    <3> QED BY <1>10, <2>2, <2>3, <3>1, ExchangeFacts DEF Unused
  <2>5. \A k \in 1 .. MaxStarts : exchanged'[k] = IF k = n THEN 1 ELSE exchanged[k]
    BY <2>4
  <2>6. \A k \in 1 .. MaxStarts : exchanged'[k] <= 1 /\ (k > issued["oauth"] => exchanged'[k] = 0)
    BY <1>2, <2>4, <2>5 DEF Codes
  <2>7. Unused(session.oauth)'
    <3>1. session.oauth <= issued["oauth"] /\ (session.oauth # 0 => exchanged[session.oauth] = 0)
      BY <1>2 DEF Codes, Unused
    <3>2. session.oauth # 0 => session.oauth \in 1 .. MaxStarts
      BY <1>2, <3>1 DEF Codes
    <3> QED BY <2>1, <2>3, <2>5, <3>1, <3>2 DEF Unused
  <2>8. \A u \in Requests \ {r} : Busy(u)' => Code(u)'
    BY <1>1, <2>1, Coders DEF Code, Unused
  <2>9. Busy(r)' => Code(r)'
    <3>1. CASE Ends(r)
      BY <3>1, IdleHoldsNot DEF Ends
    <3>2. CASE Goes(r, "save") /\ req'[r].s.oauth = req[r].s.oauth
      BY <2>1, <2>3, <3>2 DEF Goes, Code, Unused
    <3> QED BY <1>10, <3>1, <3>2, ExchangeFacts
  <2> QED BY <1>2, <2>1, <2>6, <2>7, <2>8, <2>9 DEF Codes
<1>11. ASSUME NEW r \in Requests, Revoke(r) PROVE Codes'
  <2>1. /\ Busy(r) /\ OnPath(req[r]) /\ req[r].pc = "revoke"
        /\ UNCHANGED <<session, exchanged, issued>> /\ Goes(r, "wipe") /\ req'[r].s.oauth = 0
    BY <1>11, RevokeFacts, UnderTheGate DEF Holds
  <2>2. req[r].op # "callback"
    BY <2>1 DEF OnPath
  <2>3. Code(r)'
    BY <2>1, <2>2 DEF Code, Unused, Goes
  <2> QED BY <1>4, <2>1, <2>3 DEF Goes
<1>12. ASSUME NEW r \in Requests, Walks(r) PROVE Codes'
  <2>1. /\ Busy(r) /\ OnPath(req[r]) /\ req[r].pc \in {"call", "priced", "buy"}
        /\ UNCHANGED <<session, exchanged, issued>>
    BY <1>12, WalkFacts, UnderTheGate DEF Holds
  <2>2. CASE Ends(r)
    BY <1>5, <2>1, <2>2
  <2>3. CASE Others(r) /\ req'[r].op = req[r].op /\ req'[r].s.oauth \in {0, req[r].s.oauth}
    <3>1. req[r].op # "callback" /\ Code(r)
      BY <1>2, <2>1 DEF OnPath, Codes
    <3>2. Code(r)'
      BY <2>1, <2>3, <3>1 DEF Code, Unused
    <3> QED BY <1>4, <2>1, <2>3, <3>2
  <2> QED BY <1>12, <2>2, <2>3, WalkFacts, IdleFacts DEF Goes
<1>13. ASSUME NEW r \in Requests, Writing(r) PROVE Codes'
  BY <1>5, <1>13, WritingFacts
<1>14. ASSUME NEW r \in Requests, Enters(r) PROVE Codes'
  <2>1. Others(r) /\ UNCHANGED <<session, exchanged>>
    BY <1>14 DEF Enters
  <2>2. CASE UNCHANGED issued
    <3>1. Code(r)'
      <4>1. CASE UngatedEntry(r)
        BY <2>2, <4>1 DEF UngatedEntry, Code, Unused, Gated
      <4>2. CASE GatedEntry(r) /\ req'[r].op = "callback"
        BY <1>2, <2>1, <2>2, <4>2 DEF GatedEntry, Code, Codes, Unused
      <4>3. CASE GatedEntry(r) /\ req'[r].op # "callback"
        <5>1. req'[r].s.oauth = session.oauth
          BY <2>2, <4>3 DEF GatedEntry
        <5> QED BY <1>2, <2>1, <2>2, <4>3, <5>1 DEF Code, Codes, Unused
      <4> QED BY <1>14, <4>1, <4>2, <4>3 DEF Enters
    <3> QED BY <1>4, <2>1, <2>2, <3>1
  <2>3. CASE /\ issued'["oauth"] = issued["oauth"] + 1 /\ issued["oauth"] < mix.starts
             /\ req'[r].op = "start" /\ req'[r].s.oauth = issued["oauth"] + 1
    <3>1. PICK n : n = issued["oauth"] + 1
      OBVIOUS
    <3>2. n \in 1 .. MaxStarts /\ n > issued["oauth"] /\ n = issued'["oauth"]
      BY <2>3, <3>1
    <3>3. Unused(n)'
      BY <1>2, <2>1, <3>2 DEF Codes, Unused
    <3>4. Code(r)'
      BY <2>3, <3>1, <3>3 DEF Code, Unused
    <3>5. \A u \in Requests \ {r} : Busy(u)' => Code(u)'
      <4> SUFFICES ASSUME NEW u \in Requests \ {r}, Busy(u)' PROVE Code(u)'
        OBVIOUS
      <4>1. Kept(u) /\ Busy(u) /\ Code(u)
        BY <1>2, <2>1 DEF Others, Kept, Busy, Codes
      <4> QED BY <2>1, <2>3, <4>1 DEF Kept, Code, Unused
    <3>6. Unused(session.oauth)'
      BY <1>2, <2>1, <2>3 DEF Codes, Unused
    <3> QED BY <1>2, <2>1, <2>3, <3>4, <3>5, <3>6 DEF Codes
  <2> QED BY <1>14, <2>2, <2>3 DEF Enters, GatedEntry, UngatedEntry
<1> QED BY <1>6, <1>7, <1>8, <1>9, <1>10, <1>11, <1>12, <1>13, <1>14, GateSteps

-----------------------------------------------------------------------------
(* Claims *)

LEMMA QuoteAtHand ==
    ASSUME TypeInv, NEW r \in Requests, req[r].op \in {"purchase", "order"} \/ req[r].pc \in {"buy", "told"}
    PROVE  req[r].q \in Quotes
  BY Unfolded DEF Fitting

\* What an update without the gate may do of a quote.
LEMMA UpdatesGently ==
    ASSUME TypeInv, GateInv, NEW r \in Requests, Writing(r), ~Holds(r)
    PROVE  \A q \in Quotes :
              /\ quotes'[q].owner = quotes[q].owner
              /\ \/ quotes'[q].status = quotes[q].status
                 \/ /\ quotes[q].status \in {"quoted", "approved"}
                    /\ quotes'[q].status \in {"approved", "cancelled"}
<1>1. req[r].pc = "update"
  BY WritingFacts, UnderTheGate
<1>2. Approve(r) \/ Cancel(r)
  BY <1>1 DEF Writing, Quote, MatchArticle, InsertQuote, CancelAll, ExpireChanged, RecordInvoice,
          RecordPoll, At
<1> QED BY <1>2, UpdatedQuotes

LEMMA ClaimsKept ==
    ASSUME TypeInv, NEW u \in Requests, Kept(u), UNCHANGED session,
           \A q \in Quotes :
              /\ quotes'[q].owner = quotes[q].owner
              /\ \/ quotes'[q].status = quotes[q].status
                 \/ /\ quotes[q].status \in {"quoted", "approved"}
                    /\ quotes'[q].status \in {"approved", "cancelled"}
    PROVE  (Holds(u)' => Holds(u)) /\ (Claims(u) => Claims(u)')
<1>1. Holds(u)' => Holds(u)
  BY DEF Kept, Holds, Busy
<1>2. ASSUME Claims(u), req[u].op \in {"purchase", "order"} \/ req[u].pc \in {"buy", "told"}
      PROVE  Claims(u)'
  <2>1. req[u].q \in Quotes
    BY <1>2, QuoteAtHand
  <2> QED BY <1>2, <2>1 DEF Kept, Claims, Claimed
<1> QED BY <1>1, <1>2 DEF Kept, Claims

LEMMA ClaimInvStep ==
    ASSUME TypeInv, GateInv, TimeInv, CarryInv, ClaimInv, [Next]_vars
    PROVE  ClaimInv'
<1>1. SUFFICES ASSUME OneReplica PROVE \A u \in Requests : Holds(u)' => Claims(u)'
  BY LayoutStays, OneReplicaStays DEF ClaimInv
<1>2. \A u \in Requests : Holds(u) => Claims(u)
  BY <1>1 DEF ClaimInv
<1> DEFINE Goal == \A u \in Requests : Holds(u)' => Claims(u)'
<1>3. ASSUME NEW r \in Requests, Others(r), UNCHANGED <<session, quotes>>, Holds(r)' => Claims(r)'
      PROVE  Goal
  BY <1>2, <1>3, ClaimsKept DEF Others
<1>4. ASSUME NEW r \in Requests, Ends(r), UNCHANGED <<session, quotes>> PROVE Goal
  BY <1>3, <1>4, IdleHoldsNot DEF Ends
<1>5. CASE Rests
  BY <1>2, <1>5, ClaimsKept, IdleHoldsNot DEF Rests
<1>6. CASE Page
  <2> SUFFICES ASSUME NEW u \in Requests, Holds(u)' PROVE Claims(u)'
    OBVIOUS
  <2>1. UNCHANGED <<req, quotes>>
    BY <1>6 DEF Page
  <2>2. Holds(u) /\ Busy(u)
    BY <2>1 DEF Holds, Busy
  <2>3. session'.expires > session.expires /\ session'.expires = clock + Day
    BY <1>6, <2>2, TimeStep DEF Page, NoSession
  <2>4. \A q \in Quotes : quotes[q].owner # session'.expires
    BY <2>3, TimeFacts DEF TimeInv
  <2> QED BY <1>2, <2>1, <2>2, <2>4, QuoteAtHand DEF Claims
<1>7. ASSUME NEW r \in Requests, Save(r) PROVE Goal
  <2>1. /\ Holds(r) /\ OnPath(req[r]) /\ Others(r) /\ UNCHANGED quotes
        /\ session' = IF session.expires = req[r].s.expires THEN req[r].s ELSE session
    BY <1>7, SaveFacts, UnderTheGate DEF Ends, Goes
  <2>2. \A u \in Requests \ {r} : ~Holds(u)'
    BY <1>1, <2>1, HoldsAlone
  <2>3. Holds(r)' => Claims(r)'
    <3>1. CASE Ends(r)
      BY <3>1, IdleHoldsNot DEF Ends
    <3>2. CASE req[r].pc = "keep" /\ Goes(r, "call")
      <4>1. req[r].s.token # 0 /\ Claims(r)
        BY <1>1, <1>2, <2>1, <3>2 DEF CarryInv, Carry
      <4>2. session'.expires = session.expires /\ (session'.token = 0 => session.token = 0)
        BY <2>1, <4>1
      <4> QED BY <2>1, <3>2, <4>1, <4>2 DEF Goes, Claims
    <3>3. CASE req[r].pc \in {"forget", "wipe"} /\ \E pc \in {"exchange", "cancel_all"} : Goes(r, pc)
      <4>1. req[r].op \in {"callback", "disconnect"}
        BY <2>1, <3>3 DEF OnPath
      <4> QED BY <3>3, <4>1 DEF Goes, Claims
    <3> QED BY <1>7, <3>1, <3>2, <3>3, SaveFacts
  <2> QED BY <2>2, <2>3
<1>8. ASSUME NEW r \in Requests, Refresh(r) PROVE Goal
  <2>1. Holds(r) /\ Claims(r) /\ req[r].pc = "refresh" /\ UNCHANGED <<session, quotes>>
    BY <1>2, <1>8, RefreshFacts, UnderTheGate
  <2>2. Goes(r, "keep") => Claims(r)'
    BY <2>1 DEF Goes, Claims
  <2> QED BY <1>3, <1>4, <1>8, <2>1, <2>2, RefreshFacts DEF Goes
<1>9. ASSUME NEW r \in Requests, Exchange(r) PROVE Goal
  <2>1. Holds(r) /\ Claims(r) /\ req[r].pc = "exchange" /\ UNCHANGED <<session, quotes>>
    BY <1>2, <1>9, ExchangeFacts, UnderTheGate
  <2>2. Goes(r, "save") => Claims(r)'
    BY <2>1 DEF Goes, Claims
  <2> QED BY <1>3, <1>4, <1>9, <2>1, <2>2, ExchangeFacts DEF Goes
<1>10. ASSUME NEW r \in Requests, Revoke(r) PROVE Goal
  <2>1. Holds(r) /\ Claims(r) /\ req[r].pc = "revoke" /\ UNCHANGED <<session, quotes>> /\ Goes(r, "wipe")
    BY <1>2, <1>10, RevokeFacts, UnderTheGate
  <2>2. Claims(r)'
    BY <2>1 DEF Goes, Claims
  <2> QED BY <1>3, <2>1, <2>2 DEF Goes
<1>11. ASSUME NEW r \in Requests, Walks(r) PROVE Goal
  <2>1. /\ Holds(r) /\ Claims(r) /\ OnPath(req[r]) /\ req[r].pc \in {"call", "priced", "buy"}
        /\ UNCHANGED session
    BY <1>2, <1>11, WalkFacts, UnderTheGate
  <2>2. CASE Ends(r) /\ UNCHANGED quotes
    BY <1>4, <2>1, <2>2
  <2>3. CASE /\ UNCHANGED quotes
             /\ \E pc \in {"save", "priced", "polled", "told"} :
                   Goes(r, pc) /\ (pc = "told" => req[r].pc = "buy")
    <3>1. PICK pc \in {"save", "priced", "polled", "told"} :
                   Goes(r, pc) /\ (pc = "told" => req[r].pc = "buy")
      BY <2>3
    <3>2. Claims(r)'
      <4>1. req[r].pc = "buy" => pc = "told"
        BY <1>11, <2>3, <3>1, WalkFacts, IdleFacts DEF Goes, Ends
      <4> QED BY <2>1, <2>3, <3>1, <4>1 DEF Goes, Claims
    <3> QED BY <1>3, <2>1, <2>3, <3>1, <3>2 DEF Goes
  <2>4. CASE /\ req[r].op = "purchase" /\ Goes(r, "buy")
             /\ quotes' = [quotes EXCEPT ![req[r].q].status = "reconciliation_required"]
    <3>1. req[r].q \in Quotes
      BY <2>4, QuoteAtHand
    <3>2. /\ quotes'[req[r].q].status = "reconciliation_required"
          /\ quotes'[req[r].q].owner = quotes[req[r].q].owner
      BY <2>4, <3>1, Unfolded DEF Rows
    <3>3. Claims(r)'
      BY <2>1, <2>4, <3>2 DEF Goes, Claims, Claimed
    <3>4. \A u \in Requests \ {r} : ~Holds(u)'
      BY <1>1, <2>1, <2>4, HoldsAlone DEF Goes
    <3> QED BY <3>3, <3>4
  <2> QED BY <1>11, <2>2, <2>3, <2>4, WalkFacts
<1>12. ASSUME NEW r \in Requests, Writing(r) PROVE Goal
  <2>1. Ends(r) /\ Others(r) /\ UNCHANGED session
    BY <1>12, WritingFacts DEF Ends
  <2>2. CASE Holds(r)
    BY <1>1, <2>1, <2>2, HoldsAlone, IdleHoldsNot DEF Ends
  <2>3. CASE ~Holds(r)
    BY <1>2, <1>12, <2>1, <2>3, UpdatesGently, ClaimsKept, IdleHoldsNot DEF Ends, Others
  <2> QED BY <2>2, <2>3
<1>13. ASSUME NEW r \in Requests, Enters(r) PROVE Goal
  <2>1. Others(r) /\ UNCHANGED <<session, quotes>>
    BY <1>13 DEF Enters
  <2>2. Holds(r)' => GatedEntry(r)
    BY <1>13 DEF Enters, UngatedEntry, Holds
  <2>3. GatedEntry(r) => Claims(r)'
    BY <2>1 DEF GatedEntry, Claims, Claimed
  <2> QED BY <1>3, <2>1, <2>2, <2>3
<1> QED BY <1>5, <1>6, <1>7, <1>8, <1>9, <1>10, <1>11, <1>12, <1>13, GateSteps

-----------------------------------------------------------------------------
(* What rests on the gate *)

FullInv ==
    IInv /\ GateInv /\ TimeInv /\ CarryInv /\ TokenInv /\ StateInv /\ ClaimInv

LEMMA FullInvInvariant == Spec => []FullInv
<1>1. Init => FullInv
  <2> SUFFICES ASSUME Init PROVE FullInv
    OBVIOUS
  <2>1. IInv
    BY InitTypeInv, InitInvoiceInv, ConstantFacts
     DEF Init, IInv, ConsentInv, BuysWhatWasApproved, At, Idle, NoQuote, SetupIsFixed, OneClientId
  <2>2. GateInv /\ TimeInv
    BY InitGate
  <2>3. /\ \A r \in Requests : ~Busy(r) /\ ~Holds(r) /\ req[r].pc = "idle"
        /\ session.token = 0 /\ session.oauth = 0
    BY IdleFacts DEF Init, Busy, Holds, NoSession
  <2>4. CarryInv /\ TokenInv /\ ClaimInv
    BY <2>3 DEF CarryInv, TokenInv, ClaimInv
  <2>5. issued["oauth"] = 0 /\ \A n \in 1 .. MaxStarts : exchanged[n] = 0
    BY DEF Init
  <2>6. StateInv
    BY <2>1, <2>3, <2>5, CodeFacts DEF StateInv, Codes, Unused, IInv
  <2> QED BY <2>1, <2>2, <2>4, <2>6 DEF FullInv
<1>2. FullInv /\ [Next]_vars => FullInv'
  <2> SUFFICES ASSUME FullInv, [Next]_vars PROVE FullInv'
    OBVIOUS
  <2>1. IInv'
    BY TypeInvStep, InvoiceStep, SetupStep, ClientStep DEF IInv, FullInv
  <2> QED BY <2>1, GateStep, TimeStep, CarryStep, TokenStep, StateStep, ClaimInvStep DEF FullInv, IInv
<1> QED BY <1>1, <1>2, PTL DEF Spec

\* A claimed quote leaves the claimed statuses by no step.
LEMMA DurableStep ==
    ASSUME FullInv, [Next]_vars, OneReplica, NEW q \in Quotes, quotes[q].status \in Claimed
    PROVE  /\ quotes'[q].status \in Claimed
           /\ quotes[q].status = "fulfilled" => quotes'[q].status = "fulfilled"
<1>1. TypeInv /\ GateInv
  BY DEF FullInv, IInv
<1>2. \A r \in Requests : Holds(r) => Claims(r)
  BY DEF FullInv, ClaimInv
<1>3. CASE UNCHANGED quotes
  BY <1>3
<1>4. ASSUME NEW r \in Requests, Claim(r)
      PROVE  quotes'[q].status \in Claimed /\ (quotes[q].status = "fulfilled" => quotes'[q].status = "fulfilled")
  <2>1. UNCHANGED quotes \/ /\ quotes[req[r].q].status = "approved"
                            /\ quotes' = [quotes EXCEPT ![req[r].q].status = "reconciliation_required"]
    BY <1>4 DEF Claim, CanClaim
  <2> QED BY <1>1, <2>1, Unfolded DEF Claimed, Rows
<1>5. ASSUME NEW r \in Requests, Writing(r)
      PROVE  quotes'[q].status \in Claimed /\ (quotes[q].status = "fulfilled" => quotes'[q].status = "fulfilled")
  <2> DEFINE Goal == /\ quotes'[q].status \in Claimed
                     /\ quotes[q].status = "fulfilled" => quotes'[q].status = "fulfilled"
  <2>1. ASSUME NEW c \in Quotes, Quote(r, c) \/ MatchArticle(r, c) PROVE Goal
    <3>1. quotes[c].status = "none" /\ \E row : quotes' = [quotes EXCEPT ![c] = row]
      BY <2>1 DEF Quote, MatchArticle, InsertQuote
    <3> QED BY <1>1, <3>1, Unfolded DEF Claimed
  <2>2. CASE CancelAll(r)
    BY <2>2 DEF CancelAll, Claimed
  <2>3. CASE Approve(r) \/ Cancel(r)
    BY <1>1, <2>3, Unfolded DEF Approve, Cancel, Claimed, Rows
  <2>4. CASE ExpireChanged(r)
    <3>1. req[r].pc = "priced" /\ req[r].op = "purchase"
      BY <2>4 DEF ExpireChanged, At
    <3>2. quotes[req[r].q].status \notin Claimed
      BY <1>1, <1>2, <3>1, UnderTheGate DEF Claims
    <3> QED BY <1>1, <2>4, <3>2, Unfolded DEF ExpireChanged, Rows
  <2>5. CASE RecordInvoice(r)
    <3>1. req[r].pc = "told"
      BY <2>5 DEF RecordInvoice, At
    <3>2. quotes[req[r].q].status # "fulfilled" /\ req[r].q \in Quotes
      BY <1>1, <1>2, <3>1, UnderTheGate, QuoteAtHand DEF Claims
    <3>3. /\ quotes'[req[r].q].status = "awaiting_payment"
          /\ \A c \in Quotes \ {req[r].q} : quotes'[c] = quotes[c]
      BY <1>1, <2>5, <3>2, Unfolded DEF RecordInvoice, Rows
    <3> QED BY <3>2, <3>3 DEF Claimed
  <2>6. CASE RecordPoll(r)
    <3>1. req[r].pc = "polled"
      BY <2>6 DEF RecordPoll, At
    <3>2. Holds(r) /\ req[r].op = "order"
      BY <1>1, <3>1, UnderTheGate DEF OnPath
    <3>3. quotes[req[r].q].status # "fulfilled" /\ req[r].q \in Quotes
      BY <1>1, <1>2, <3>2, QuoteAtHand DEF Claims
    <3>4. StatusOf(req[r].invoice) \in Claimed
      BY DEF StatusOf, Claimed
    <3>5. /\ quotes'[req[r].q].status = StatusOf(req[r].invoice)
          /\ \A c \in Quotes \ {req[r].q} : quotes'[c] = quotes[c]
      BY <1>1, <2>6, <3>3, Unfolded DEF RecordPoll, Rows
    <3> QED BY <3>3, <3>4, <3>5
  <2> QED BY <1>5, <2>1, <2>2, <2>3, <2>4, <2>5, <2>6 DEF Writing
<1>6. ASSUME NEW r \in Requests, Enters(r) PROVE UNCHANGED quotes
  BY <1>6 DEF Enters
<1>7. ASSUME NEW r \in Requests, Walks(r), ~Claim(r) PROVE UNCHANGED quotes
  BY <1>7 DEF Walks, Searched, ProductDetails, PollInvoice, Buy, tables
<1> QED BY <1>1, <1>3, <1>4, <1>5, <1>6, <1>7, GateSteps, SaveFacts, RefreshFacts, ExchangeFacts,
           RevokeFacts DEF Rests, Page

\* A session without a token gets one from an exchange, and buys nothing.
LEMMA DisconnectedStep ==
    ASSUME FullInv, [Next]_vars, OneReplica, session.token = 0
    PROVE  /\ session'.token # 0 => \E r \in Requests : At(r, "save") /\ req[r].op = "callback"
           /\ \A q \in Quotes : calls'[q] # calls[q] => ~Owned(q)
<1>1. TypeInv /\ GateInv
  BY DEF FullInv, IInv
<1>2. \A r \in Requests : Holds(r) => Carry(r) /\ Claims(r)
  BY DEF FullInv, CarryInv, ClaimInv
<1>3. session'.token # 0 => \E r \in Requests : At(r, "save") /\ req[r].op = "callback"
  <2>1. ASSUME NEW r \in Requests, Save(r), session'.token # 0
        PROVE  At(r, "save") /\ req[r].op = "callback"
    <3>1. Holds(r)
      BY <1>1, <2>1, SaveFacts, UnderTheGate
    <3>2. Current(r) /\ req[r].s.token # 0
      BY <1>1, <2>1, SaveFacts DEF Current
    <3> QED BY <1>2, <3>1, <3>2 DEF Carry, At
  <2>2. Page => session'.token = 0
    BY DEF Page, NoSession
  <2>3. ASSUME NEW r \in Requests, Enters(r) PROVE UNCHANGED session
    BY <2>3 DEF Enters
  <2> QED BY <1>1, <2>1, <2>2, <2>3, GateSteps, RefreshFacts, ExchangeFacts, RevokeFacts, WalkFacts,
             WritingFacts DEF Rests
<1>4. \A q \in Quotes : calls'[q] # calls[q] => ~Owned(q)
  <2>1. ASSUME NEW r \in Requests, Buy(r)
        PROVE  \A q \in Quotes : calls'[q] # calls[q] => ~Owned(q)
    <3>1. req[r].pc = "buy" /\ calls' = [calls EXCEPT ![req[r].q] = Append(@, clock)]
      BY <2>1 DEF Buy, At
    <3>2. Holds(r) /\ req[r].op = "purchase"
      BY <1>1, <3>1, UnderTheGate DEF OnPath
    <3>3. ~Owned(req[r].q)
      BY <1>2, <3>2 DEF Claims, Owned
    <3>4. \A q \in Quotes : q # req[r].q => calls'[q] = calls[q]
      BY <1>1, <3>1, Unfolded
    <3> QED BY <3>3, <3>4
  <2>2. ASSUME NEW r \in Requests, Walks(r), ~Buy(r) PROVE UNCHANGED calls
    BY <2>2 DEF Walks, Searched, ProductDetails, PollInvoice, Claim, provider
  <2>3. ASSUME NEW r \in Requests, Enters(r) PROVE UNCHANGED calls
    BY <2>3 DEF Enters
  <2> QED BY <1>1, <2>1, <2>2, <2>3, GateSteps, SaveFacts, RefreshFacts, ExchangeFacts, RevokeFacts,
             WritingFacts DEF Rests, Page, provider
<1> QED BY <1>3, <1>4

\* On one replica a quote once claimed stays among those the budget counts, and a
\* delivered one stays delivered, whatever is polled, priced anew or cancelled.
THEOREM DurableClaims == Spec => ClaimIsDurable
<1>1. FullInv /\ [Next]_vars =>
         [OneReplica => \A q \in Quotes :
            /\ quotes[q].status \in Claimed => quotes'[q].status \in Claimed
            /\ quotes[q].status = "fulfilled" => quotes'[q].status = "fulfilled"]_vars
  BY DurableStep DEF Claimed
<1> QED BY <1>1, FullInvInvariant, PTL DEF Spec, ClaimIsDurable

\* On one replica a disconnected session gets a token from a new OAuth exchange
\* only, whatever requests were under way, and nothing is bought for it without.
THEOREM FinalDisconnect == Spec => DisconnectIsFinal
<1>1. FullInv /\ [Next]_vars =>
         [OneReplica /\ session.token = 0 =>
            /\ session'.token # 0 => \E r \in Requests : At(r, "save") /\ req[r].op = "callback"
            /\ \A q \in Quotes : calls'[q] # calls[q] => ~Owned(q)]_vars
  BY DisconnectedStep
<1> QED BY <1>1, FullInvInvariant, PTL DEF Spec, DisconnectIsFinal

\* On one replica the code that comes back with a state is exchanged once at most.
THEOREM SingleUseState == Spec => []StateIsSingleUse
<1>1. FullInv => StateIsSingleUse
  BY DEF FullInv, StateInv, Codes, StateIsSingleUse
<1> QED BY <1>1, FullInvInvariant, PTL

\* On one replica a refresh token that was replaced is never presented again, as
\* long as no successor was lost on its way.
THEOREM SerializedRefresh == Spec => []RefreshIsSerialized
<1>1. FullInv => RefreshIsSerialized
  <2> SUFFICES ASSUME FullInv, OneReplica, ~lost, NEW r \in Requests, req[r].pc = "refresh"
               PROVE  req[r].s.token \in live
    BY DEF RefreshIsSerialized, At
  <2>1. Holds(r) /\ Busy(r)
    BY UnderTheGate DEF FullInv, Holds
  <2>2. req[r].s.token # 0
    BY <2>1 DEF FullInv, CarryInv, Carry
  <2> QED BY <2>1, <2>2 DEF FullInv, TokenInv
<1> QED BY <1>1, FullInvInvariant, PTL

-----------------------------------------------------------------------------
(* Sums over finite sets *)

\* What is so of a set as soon as it is so of the set short of any one member
\* is so of a finite set.
LEMMA SubsetInduction ==
    ASSUME NEW S, IsFiniteSet(S), NEW T,
           \A U \in SUBSET S : (\A y \in U : U \ {y} \in T) => U \in T
    PROVE  S \in T
<1> DEFINE Bad == (SUBSET S) \ T
<1>1. FiniteSubsetsOf(S) = SUBSET S /\ IsWellFoundedOn(StrictSubsetOrdering(S), FiniteSubsetsOf(S))
  BY FS_FiniteSubsetsOfFinite, FS_StrictSubsetOrderingWellFounded
<1>2. SUFFICES ASSUME Bad # {} PROVE FALSE
  OBVIOUS
<1>3. Bad \subseteq FiniteSubsetsOf(S)
  BY <1>1
<1>4. ASSUME NEW R, NEW W, IsWellFoundedOn(R, W), NEW B, B \subseteq W, B # {}
      PROVE  \E U \in B : \A V \in B : ~ (<<V, U>> \in R)
  BY <1>4, WFMin
<1> HIDE DEF Bad
<1>5. \E U \in Bad : \A V \in Bad : ~ (<<V, U>> \in StrictSubsetOrdering(S))
  BY <1>1, <1>2, <1>3, <1>4
<1>6. PICK U \in Bad : \A V \in Bad : ~ (<<V, U>> \in StrictSubsetOrdering(S))
  BY <1>5
<1>7. PICK y \in U : U \ {y} \notin T
  BY <1>6 DEF Bad
<1>8. U \ {y} \in Bad /\ <<U \ {y}, U>> \in StrictSubsetOrdering(S)
  BY <1>6, <1>7 DEF StrictSubsetOrdering, Bad
<1> QED BY <1>6, <1>8

Any(s) == CHOOSE x \in s : TRUE

\* The equation of the fold that sums prices: g[s] is the sum over s.
Folded(F, g, s) == IF s = {} THEN 0 ELSE F[Any(s)].price + g[s \ {Any(s)}]

FoldsTo(F, S, g) == g = [s \in SUBSET S |-> Folded(F, g, s)]

Total(F, S) == MapThenSumSet(LAMBDA q : F[q].price, S)

LEMMA TotalUnfolds ==
    ASSUME NEW F, NEW S
    PROVE  Total(F, S) = (CHOOSE g : FoldsTo(F, S, g))[S]
  BY DEF Total, MapThenSumSet, MapThenFoldSet, FoldsTo, Folded, Any

Priced(F, S) == \A x \in S : F[x].price \in Nat

\* A finite set has such a function: one that is right for sets of up to n
\* members yields one for n + 1.
LEMMA FoldExists ==
    ASSUME NEW F, NEW S, IsFiniteSet(S), Priced(F, S)
    PROVE  \E g \in [SUBSET S -> Nat] : FoldsTo(F, S, g)
<1> DEFINE Right(g, n) == \A s \in SUBSET S : Cardinality(s) <= n => g[s] = Folded(F, g, s)
           T == {U \in SUBSET S : \E g \in [SUBSET S -> Nat] : Right(g, Cardinality(U))}
<1>1. \A s \in SUBSET S : IsFiniteSet(s) /\ Cardinality(s) \in Nat
  BY FS_Subset, FS_CardinalityType
<1>2. ASSUME NEW U \in SUBSET S, \A y \in U : U \ {y} \in T PROVE U \in T
  <2>1. CASE U = {}
    <3> DEFINE g == [s \in SUBSET S |-> 0]
    <3>1. \A s \in SUBSET S : Cardinality(s) <= Cardinality(U) => s = {}
      BY <1>1, <2>1, FS_EmptySet
    <3>2. g \in [SUBSET S -> Nat] /\ Right(g, Cardinality(U))
      BY <3>1 DEF Folded
    <3> QED BY <3>2
  <2>2. CASE U # {}
    <3>1. PICK y \in U : TRUE
      BY <2>2
    <3>2. PICK h \in [SUBSET S -> Nat] : Right(h, Cardinality(U \ {y}))
      BY <1>2
    <3>3. Cardinality(U) = Cardinality(U \ {y}) + 1 /\ Cardinality(U \ {y}) \in Nat
      BY <1>1, <3>1, FS_RemoveElement
    <3> DEFINE g == [s \in SUBSET S |-> Folded(F, h, s)]
    <3>4. ASSUME NEW s \in SUBSET S, s # {}
          PROVE  /\ Any(s) \in s /\ s \ {Any(s)} \in SUBSET S
                 /\ Cardinality(s \ {Any(s)}) = Cardinality(s) - 1
      <4>1. Any(s) \in s
        BY <3>4 DEF Any
      <4> QED BY <1>1, <4>1, FS_RemoveElement
    <3>5. g \in [SUBSET S -> Nat]
      <4>1. ASSUME NEW s \in SUBSET S PROVE Folded(F, h, s) \in Nat
        <5>1. CASE s = {}
          BY <5>1 DEF Folded
        <5>2. CASE s # {}
          <6>1. F[Any(s)].price \in Nat /\ h[s \ {Any(s)}] \in Nat
            BY <3>2, <3>4, <5>2 DEF Priced
          <6> QED BY <5>2, <6>1 DEF Folded
        <5> QED BY <5>1, <5>2
      <4> QED BY <4>1
    <3>6. ASSUME NEW s \in SUBSET S, Cardinality(s) <= Cardinality(U)
          PROVE  g[s] = Folded(F, g, s)
      <4>1. CASE s = {}
        BY <4>1 DEF Folded
      <4>2. CASE s # {}
        <5>1. Cardinality(s \ {Any(s)}) <= Cardinality(U \ {y}) /\ s \ {Any(s)} \in SUBSET S
          <6>1. Cardinality(s \ {Any(s)}) = Cardinality(s) - 1 /\ s \ {Any(s)} \in SUBSET S
            BY <3>4, <4>2
          <6>2. Cardinality(s) \in Nat /\ Cardinality(U) = Cardinality(U \ {y}) + 1
            BY <1>1, <3>3
          <6> QED BY <3>3, <3>6, <6>1, <6>2
        <5>2. h[s \ {Any(s)}] = g[s \ {Any(s)}]
          BY <3>2, <5>1
        <5> QED BY <4>2, <5>2 DEF Folded
      <4> QED BY <4>1, <4>2
    <3> QED BY <3>5, <3>6
  <2> QED BY <2>1, <2>2
<1>3. S \in T
  <2> HIDE DEF T
  <2> QED BY <1>2, SubsetInduction
<1>4. PICK g \in [SUBSET S -> Nat] : Right(g, Cardinality(S))
  BY <1>3
<1>5. \A s \in SUBSET S : g[s] = Folded(F, g, s)
  BY <1>1, <1>4, FS_Subset
<1> QED BY <1>5 DEF FoldsTo

\* g is a sum over the subsets of S.
Adds(F, S, g) ==
    /\ g \in [SUBSET S -> Nat] /\ g[{}] = 0
    /\ \A U \in SUBSET S : \A x \in U : g[U] = F[x].price + g[U \ {x}]

\* Whichever member is taken first.
LEMMA FoldAdds ==
    ASSUME NEW F, NEW S, IsFiniteSet(S), Priced(F, S),
           NEW g \in [SUBSET S -> Nat], FoldsTo(F, S, g)
    PROVE  Adds(F, S, g)
<1> DEFINE T == {U \in SUBSET S : \A x \in U : g[U] = F[x].price + g[U \ {x}]}
<1>1. \A s \in SUBSET S : g[s] = Folded(F, g, s)
  BY DEF FoldsTo
<1>2. ASSUME NEW U \in SUBSET S, \A y \in U : U \ {y} \in T, NEW x \in U
      PROVE  g[U] = F[x].price + g[U \ {x}]
  <2> DEFINE y == Any(U)
  <2>1. y \in U
    BY <1>2 DEF Any
  <2>2. g[U] = F[y].price + g[U \ {y}]
    BY <1>1, <1>2, <2>1 DEF Folded
  <2> HIDE DEF y
  <2>3. CASE x = y
    BY <2>2, <2>3
  <2>4. CASE x # y
    <3> DEFINE V == U \ {x, y}
    <3>1. V \in SUBSET S /\ (U \ {y}) \ {x} = V /\ (U \ {x}) \ {y} = V
      BY <1>2
    <3>2. x \in U \ {y} /\ y \in U \ {x}
      BY <1>2, <2>1, <2>4
    <3>3. U \ {y} \in T /\ U \ {x} \in T
      BY <1>2, <2>1
    <3> HIDE DEF V
    <3>4. g[U \ {y}] = F[x].price + g[V]
      BY <3>1, <3>2, <3>3
    <3>5. g[U \ {x}] = F[y].price + g[V]
      BY <3>1, <3>2, <3>3
    <3>6. F[x].price \in Nat /\ F[y].price \in Nat /\ g[V] \in Nat
      BY <1>2, <2>1, <3>1 DEF Priced
    <3> QED BY <2>2, <3>4, <3>5, <3>6
  <2> QED BY <2>3, <2>4
<1>3. SUBSET S \subseteq T
  <2>1. \A U \in SUBSET S : (\A y \in U : U \ {y} \in T) => U \in T
    BY <1>2
  <2>2. ASSUME NEW W \in SUBSET S PROVE W \in T
    <3>1. IsFiniteSet(W) /\ \A U \in SUBSET W : (\A y \in U : U \ {y} \in T) => U \in T
      BY <2>1, FS_Subset
    <3> HIDE DEF T
    <3> QED BY <3>1, SubsetInduction
  <2> QED BY <2>2
<1>4. g[{}] = 0
  BY <1>1 DEF Folded
<1> QED BY <1>3, <1>4 DEF Adds

LEMMA TotalAdds ==
    ASSUME NEW F, NEW S, IsFiniteSet(S), Priced(F, S)
    PROVE  \E g : Adds(F, S, g) /\ Total(F, S) = g[S]
<1>1. PICK g \in [SUBSET S -> Nat] : FoldsTo(F, S, g)
  BY FoldExists
<1> DEFINE h == CHOOSE f : FoldsTo(F, S, f)
<1>2. FoldsTo(F, S, h)
  BY <1>1
<1>3. Total(F, S) = h[S]
  BY TotalUnfolds
<1> HIDE DEF h
<1>4. h = g
  <2> DEFINE T == {U \in SUBSET S : h[U] = g[U]}
  <2>1. \A s \in SUBSET S : g[s] = Folded(F, g, s) /\ h[s] = Folded(F, h, s)
    BY <1>1, <1>2 DEF FoldsTo
  <2>2. ASSUME NEW U \in SUBSET S, \A y \in U : U \ {y} \in T PROVE U \in T
    <3>1. CASE U = {}
      BY <2>1, <3>1 DEF Folded
    <3>2. CASE U # {}
      <4>1. Any(U) \in U
        BY <3>2 DEF Any
      <4>2. h[U \ {Any(U)}] = g[U \ {Any(U)}]
        BY <2>2, <4>1
      <4> QED BY <2>1, <3>2, <4>2 DEF Folded
    <3> QED BY <3>1, <3>2
  <2>3. ASSUME NEW W \in SUBSET S PROVE W \in T
    <3>1. IsFiniteSet(W) /\ \A U \in SUBSET W : (\A y \in U : U \ {y} \in T) => U \in T
      BY <2>2, FS_Subset
    <3> HIDE DEF T
    <3> QED BY <3>1, SubsetInduction
  <2>4. \A U \in SUBSET S : h[U] = g[U]
    BY <2>3
  <2>5. h = [s \in SUBSET S |-> h[s]] /\ g = [s \in SUBSET S |-> g[s]]
    BY <1>2 DEF FoldsTo
  <2> QED BY <2>4, <2>5
<1>5. Adds(F, S, g)
  BY <1>1, FoldAdds
<1> QED BY <1>3, <1>4, <1>5

\* Two sums agree where the prices do, and grow with the set.
LEMMA SumsAgree ==
    ASSUME NEW F, NEW S, NEW g, Adds(F, S, g), NEW H, NEW W, NEW h, Adds(H, W, h),
           NEW U \in SUBSET (S \cap W), IsFiniteSet(U), \A x \in U : F[x].price = H[x].price
    PROVE  g[U] = h[U]
<1> DEFINE T == {V \in SUBSET U : g[V] = h[V]}
<1>1. ASSUME NEW V \in SUBSET U, \A y \in V : V \ {y} \in T PROVE V \in T
  <2>1. CASE V = {}
    BY <2>1 DEF Adds
  <2>2. CASE V # {}
    <3>1. PICK y \in V : TRUE
      BY <2>2
    <3>2. g[V] = F[y].price + g[V \ {y}] /\ h[V] = H[y].price + h[V \ {y}]
      BY <3>1 DEF Adds
    <3>3. g[V \ {y}] = h[V \ {y}] /\ F[y].price = H[y].price
      BY <1>1, <3>1
    <3> QED BY <3>2, <3>3
  <2> QED BY <2>1, <2>2
<1>2. U \in T
  <2> HIDE DEF T
  <2> QED BY <1>1, SubsetInduction
<1> QED BY <1>2

LEMMA SumGrows ==
    ASSUME NEW F, NEW S, NEW g, IsFiniteSet(S), Priced(F, S), Adds(F, S, g), NEW U \in SUBSET S
    PROVE  g[U] <= g[S]
<1> DEFINE T == {V \in SUBSET S : U \subseteq V => g[U] <= g[V]}
<1>1. ASSUME NEW V \in SUBSET S, \A y \in V : V \ {y} \in T PROVE V \in T
  <2>1. g[U] \in Nat /\ \A W \in SUBSET S : g[W] \in Nat
    BY DEF Adds
  <2>2. CASE ~(U \subseteq V) \/ U = V
    BY <2>1, <2>2
  <2>3. CASE U \subseteq V /\ U # V
    <3>1. PICK y \in V : y \notin U
      BY <2>3
    <3>2. g[V] = F[y].price + g[V \ {y}]
      BY <3>1 DEF Adds
    <3>3. g[U] <= g[V \ {y}]
      BY <1>1, <2>3, <3>1
    <3>4. F[y].price \in Nat /\ g[V \ {y}] \in Nat
      BY <2>1, <3>1 DEF Priced
    <3> QED BY <2>1, <3>2, <3>3, <3>4
  <2> QED BY <2>2, <2>3
<1>2. S \in T
  <2> HIDE DEF T
  <2> QED BY <1>1, SubsetInduction
<1> QED BY <1>2

\* A smaller set at the same prices costs no more; one more quote adds its price.
LEMMA TotalShrinks ==
    ASSUME NEW F, NEW S, IsFiniteSet(S), Priced(F, S),
           NEW H, NEW U \in SUBSET S, \A x \in U : H[x].price = F[x].price
    PROVE  Total(H, U) <= Total(F, S) /\ Total(H, U) \in Nat /\ Total(F, S) \in Nat
<1>1. IsFiniteSet(U) /\ Priced(H, U)
  BY FS_Subset DEF Priced
<1>2. PICK g : Adds(F, S, g) /\ Total(F, S) = g[S]
  BY TotalAdds
<1>3. PICK h : Adds(H, U, h) /\ Total(H, U) = h[U]
  BY <1>1, TotalAdds
<1>4. g[U] = h[U]
  BY <1>1, <1>2, <1>3, SumsAgree
<1>5. g[U] <= g[S]
  BY <1>2, SumGrows
<1>6. g[U] \in Nat /\ g[S] \in Nat
  BY <1>2 DEF Adds
<1> QED BY <1>2, <1>3, <1>4, <1>5, <1>6

LEMMA TotalGains ==
    ASSUME NEW F, NEW S, IsFiniteSet(S), NEW x, x \notin S, Priced(F, S \cup {x})
    PROVE  Total(F, S \cup {x}) = F[x].price + Total(F, S)
<1> DEFINE W == S \cup {x}
<1>1. IsFiniteSet(W) /\ Priced(F, S) /\ Priced(F, W)
  BY FS_AddElement DEF Priced
<1>2. PICK g : Adds(F, W, g) /\ Total(F, W) = g[W]
  BY <1>1, TotalAdds
<1>3. PICK h : Adds(F, S, h) /\ Total(F, S) = h[S]
  BY <1>1, TotalAdds
<1>4. g[S] = h[S]
  BY <1>2, <1>3, SumsAgree
<1>5. W \ {x} = S /\ x \in W
  OBVIOUS
<1> HIDE DEF W
<1>6. g[W] = F[x].price + g[S]
  BY <1>2, <1>5 DEF Adds
<1> QED BY <1>2, <1>3, <1>4, <1>6 DEF W

-----------------------------------------------------------------------------
(* The budget *)

Existing == {q \in Quotes : quotes[q].status # "none"}
Counted == {q \in Quotes : quotes[q].created + Day >= clock /\ quotes[q].status \in Claimed}

\* Finitely many quotes exist; those the budget counts fit it, and those the
\* provider was asked for are among them.
BudgetInv ==
    /\ IsFiniteSet(Existing)
    /\ OneReplica =>
          /\ \A q \in Quotes : calls[q] # << >> => quotes[q].status \in Claimed
          /\ Total(quotes, Counted) <= DailyEur

\* An update leaves what a quote costs and when it was made, and claims none that
\* was not claimed; at most one quote is new.
LEMMA WritingKeepsPrices ==
    ASSUME TypeInv, GateInv, NEW r \in Requests, Writing(r)
    PROVE  /\ \A q \in Existing : /\ quotes'[q].price = quotes[q].price
                                  /\ quotes'[q].created = quotes[q].created
           /\ \E c : \A q \in Quotes : quotes'[q].status # "none" => q \in Existing \cup {c}
           /\ OneReplica /\ ClaimInv =>
                 \A q \in Quotes : quotes'[q].status \in Claimed => quotes[q].status \in Claimed
<1> USE Unfolded DEF Rows
<1> DEFINE Goal ==
      /\ \A q \in Existing : quotes'[q].price = quotes[q].price /\ quotes'[q].created = quotes[q].created
      /\ \E c : \A q \in Quotes : quotes'[q].status # "none" => q \in Existing \cup {c}
      /\ OneReplica /\ ClaimInv =>
            \A q \in Quotes : quotes'[q].status \in Claimed => quotes[q].status \in Claimed
<1>1. ASSUME NEW c \in Quotes, Quote(r, c) \/ MatchArticle(r, c) PROVE Goal
  <2>1. PICK op : quotes' = [quotes EXCEPT ![c] =
                     [status |-> "quoted", price |-> req[r].got, created |-> clock,
                      owner |-> req[r].s.expires, article |-> op = "match", invoice |-> FALSE]]
    BY <1>1 DEF Quote, MatchArticle, InsertQuote
  <2>2. quotes[c].status = "none"
    BY <1>1 DEF Quote, MatchArticle, InsertQuote
  <2>3. quotes'[c].status = "quoted" /\ \A q \in Quotes \ {c} : quotes'[q] = quotes[q]
    BY <2>1
  <2>4. \A q \in Quotes : quotes'[q].status # "none" => q \in Existing \cup {c}
    BY <2>3 DEF Existing
  <2>5. \A q \in Existing : quotes'[q] = quotes[q]
    BY <2>2, <2>3 DEF Existing
  <2>6. \A q \in Quotes : quotes'[q].status \in Claimed => quotes[q].status \in Claimed
    BY <2>3 DEF Claimed
  <2> QED BY <2>4, <2>5, <2>6
<1>2. ASSUME NEW q, NEW s, s # "none", quotes' = [quotes EXCEPT ![q].status = s],
             s \in Claimed /\ OneReplica /\ ClaimInv /\ q \in Quotes => quotes[q].status \in Claimed
      PROVE  Goal
  <2>1. \A c \in Quotes : /\ quotes'[c].price = quotes[c].price
                          /\ quotes'[c].created = quotes[c].created
                          /\ quotes'[c].status = IF c = q THEN s ELSE quotes[c].status
    BY <1>2
  <2>2. \A c \in Quotes : quotes'[c].status # "none" => c \in Existing \cup {q}
    BY <2>1 DEF Existing
  <2> QED BY <1>2, <2>1, <2>2 DEF Existing
<1>3. UNCHANGED quotes => Goal
  BY DEF Existing
<1>4. CASE CancelAll(r)
  <2>1. \A q \in Quotes : /\ quotes'[q].price = quotes[q].price
                          /\ quotes'[q].created = quotes[q].created
                          /\ \/ quotes'[q].status = quotes[q].status
                             \/ quotes'[q].status = "cancelled" /\ quotes[q].status # "none"
    BY <1>4 DEF CancelAll
  <2>2. \A q \in Quotes : quotes'[q].status # "none" => q \in Existing \cup {None}
    BY <2>1 DEF Existing
  <2> QED BY <2>1, <2>2 DEF Existing, Claimed
<1>5. CASE Approve(r)
  <2>1. UNCHANGED quotes \/ /\ quotes[req[r].q].status = "quoted"
                            /\ quotes' = [quotes EXCEPT ![req[r].q].status = "approved"]
    BY <1>5 DEF Approve
  <2> QED BY <1>2, <1>3, <2>1 DEF Claimed
<1>6. CASE Cancel(r)
  <2>1. UNCHANGED quotes \/ /\ quotes[req[r].q].status \in {"quoted", "approved"}
                            /\ quotes' = [quotes EXCEPT ![req[r].q].status = "cancelled"]
    BY <1>6 DEF Cancel
  <2> QED BY <1>2, <1>3, <2>1 DEF Claimed
<1>7. ASSUME ClaimInv, OneReplica, req[r].pc \in {"told", "polled"}
      PROVE  quotes[req[r].q].status \in Claimed
  BY <1>7, UnderTheGate DEF ClaimInv, Claims, OnPath
<1>8. CASE ExpireChanged(r)
  <2>1. /\ req[r].pc = "priced" /\ req[r].op = "purchase"
        /\ quotes' = [quotes EXCEPT ![req[r].q].status = "expired"]
    BY <1>8 DEF ExpireChanged, At
  <2> QED BY <1>2, <2>1 DEF Claimed
<1>9. CASE RecordInvoice(r)
  <2>1. /\ req[r].pc = "told" /\ req[r].q \in Quotes
        /\ quotes' = [quotes EXCEPT ![req[r].q].status = "awaiting_payment", ![req[r].q].invoice = TRUE]
    BY <1>9, QuoteAtHand DEF RecordInvoice, At
  <2>2. \A c \in Quotes : /\ quotes'[c].price = quotes[c].price
                          /\ quotes'[c].created = quotes[c].created
                          /\ c # req[r].q => quotes'[c].status = quotes[c].status
    BY <2>1
  <2>3. \A c \in Quotes : quotes'[c].status # "none" => c \in Existing \cup {req[r].q}
    BY <2>2 DEF Existing
  <2>4. OneReplica /\ ClaimInv =>
            \A c \in Quotes : quotes'[c].status \in Claimed => quotes[c].status \in Claimed
    BY <1>7, <2>1, <2>2
  <2> QED BY <2>2, <2>3, <2>4 DEF Existing
<1>10. CASE RecordPoll(r)
  <2> DEFINE s == StatusOf(req[r].invoice)
  <2>1. /\ req[r].pc = "polled"
        /\ quotes' = [quotes EXCEPT ![req[r].q].status = s]
    BY <1>10 DEF RecordPoll, At
  <2>2. s # "none"
    BY DEF StatusOf
  <2> HIDE DEF s
  <2> QED BY <1>2, <1>7, <2>1, <2>2
<1> QED BY <1>1, <1>4, <1>5, <1>6, <1>8, <1>9, <1>10 DEF Writing

\* One step of Claim: a quote that was approved, with the budget in hand.
Takes(r) ==
    /\ Claim(r) /\ CanClaim(r, req[r].q)
    /\ quotes' = [quotes EXCEPT ![req[r].q].status = "reconciliation_required"]

LEMMA BudgetSteps ==
    ASSUME TypeInv, [Next]_vars
    PROVE  \/ clock <= clock' /\ UNCHANGED quotes
           \/ \E r \in Requests : Writing(r) \/ Takes(r)
<1>1. ASSUME NEW r \in Requests, Walks(r)
      PROVE  UNCHANGED <<clock, quotes>> \/ Takes(r)
  BY <1>1 DEF Walks, Searched, ProductDetails, PollInvoice, Buy, Claim, Takes, tables
<1>2. \A r \in Requests : Enters(r) => UNCHANGED <<clock, quotes>>
  BY DEF Enters
<1>3. Page => UNCHANGED <<clock, quotes>>
  BY DEF Page
<1> QED BY <1>1, <1>2, <1>3, GateSteps, SaveFacts, RefreshFacts, ExchangeFacts, RevokeFacts, Unfolded
        DEF Rests

LEMMA CallsStep ==
    ASSUME FullInv, [Next]_vars, OneReplica, NEW q \in Quotes, calls'[q] # calls[q]
    PROVE  quotes[q].status \in Claimed /\ UNCHANGED quotes
<1>1. TypeInv /\ GateInv /\ \A r \in Requests : Holds(r) => Claims(r)
  BY DEF FullInv, IInv, ClaimInv
<1>2. ASSUME NEW r \in Requests, Buy(r)
      PROVE  quotes[q].status \in Claimed /\ UNCHANGED quotes
  <2>1. req[r].pc = "buy" /\ calls' = [calls EXCEPT ![req[r].q] = Append(@, clock)] /\ UNCHANGED quotes
    BY <1>2 DEF Buy, At, tables
  <2>2. q = req[r].q
    BY <1>1, <2>1, Unfolded
  <2>3. quotes[req[r].q].status \in Claimed
    BY <1>1, <2>1, UnderTheGate DEF Claims
  <2> QED BY <2>1, <2>2, <2>3
<1>3. ASSUME NEW r \in Requests, Walks(r), ~Buy(r) PROVE UNCHANGED calls
  BY <1>3 DEF Walks, Searched, ProductDetails, PollInvoice, Claim, provider
<1>4. \A r \in Requests : Enters(r) => UNCHANGED calls
  BY DEF Enters
<1> QED BY <1>1, <1>2, <1>3, <1>4, GateSteps, SaveFacts, RefreshFacts, ExchangeFacts, RevokeFacts,
           WritingFacts DEF Rests, Page, provider

LEMMA BudgetStep ==
    ASSUME FullInv, BudgetInv, [Next]_vars
    PROVE  BudgetInv'
<1>1. TypeInv /\ TypeInv' /\ GateInv /\ ClaimInv
  BY TypeInvStep DEF FullInv, IInv
<1>2. /\ quotes \in [Quotes -> Rows] /\ quotes' \in [Quotes -> Rows]
      /\ clock \in Nat /\ Day \in Nat /\ DailyEur \in Nat
  BY <1>1, Unfolded, BitrefillAssumption DEF TypeInv, TypeOK, Rows
<1>3. IsFiniteSet(Existing')
  <2>1. \E c : Existing' \subseteq Existing \cup {c}
    <3>1. CASE UNCHANGED quotes
      BY <3>1 DEF Existing
    <3>2. ASSUME NEW r \in Requests, Writing(r) PROVE \E c : Existing' \subseteq Existing \cup {c}
      BY <1>1, <3>2, WritingKeepsPrices DEF Existing
    <3>3. ASSUME NEW r \in Requests, Takes(r) PROVE \E c : Existing' \subseteq Existing \cup {c}
      <4>1. \A q \in Quotes : q # req[r].q => quotes'[q] = quotes[q]
        BY <1>2, <3>3 DEF Takes
      <4>2. Existing' \subseteq Existing \cup {req[r].q}
        BY <4>1 DEF Existing
      <4> QED BY <4>2
    <3> QED BY <1>1, <3>1, <3>2, <3>3, BudgetSteps
  <2> QED BY <2>1, FS_AddElement, FS_Subset DEF BudgetInv
<1>4. SUFFICES ASSUME OneReplica
               PROVE  /\ \A q \in Quotes : calls'[q] # << >> => quotes'[q].status \in Claimed
                      /\ Total(quotes', Counted') <= DailyEur
  <2>1. OneReplica' => OneReplica
    BY LayoutStays, OneReplicaStays
  <2> QED BY <1>3, <1>4, <2>1 DEF BudgetInv
<1>5. \A q \in Quotes : calls'[q] # << >> => quotes'[q].status \in Claimed
  <2> SUFFICES ASSUME NEW q \in Quotes, calls'[q] # << >> PROVE quotes'[q].status \in Claimed
    OBVIOUS
  <2>1. quotes[q].status \in Claimed
    BY <1>4, CallsStep DEF BudgetInv
  <2> QED BY <1>4, <2>1, DurableStep
<1>6. IsFiniteSet(Counted) /\ Counted \subseteq Existing
  <2>1. Counted \subseteq Existing
    BY DEF Counted, Existing, Claimed
  <2> QED BY <2>1, FS_Subset DEF BudgetInv
<1>7. /\ \A S \in SUBSET Quotes : Priced(quotes, S)
      /\ Total(quotes, Counted) <= DailyEur
  BY <1>2, <1>4 DEF Priced, Rows, BudgetInv
<1>8. ASSUME Counted' \subseteq Counted, \A q \in Counted' : quotes'[q].price = quotes[q].price
      PROVE  Total(quotes', Counted') <= DailyEur
  <2>1. Priced(quotes, Counted)
    BY <1>7 DEF Counted
  <2> DEFINE F == quotes
             S == Counted
             H == quotes'
             U == Counted'
  <2>2. IsFiniteSet(S) /\ Priced(F, S) /\ U \in SUBSET S /\ \A q \in U : H[q].price = F[q].price
    BY <1>6, <1>8, <2>1
  <2> HIDE DEF F, S, H, U
  <2>3. Total(H, U) <= Total(F, S) /\ Total(H, U) \in Nat /\ Total(F, S) \in Nat
    BY <2>2, TotalShrinks
  <2> QED BY <1>2, <1>7, <2>3 DEF F, S, H, U
<1>9. CASE clock <= clock' /\ UNCHANGED quotes
  <2>1. clock' \in Nat
    BY <1>1 DEF TypeInv, TypeOK
  <2>2. Counted' \subseteq Counted
    BY <1>2, <1>9, <2>1 DEF Counted, Rows
  <2> QED BY <1>5, <1>8, <1>9, <2>2
<1>10. ASSUME NEW r \in Requests, Writing(r)
       PROVE  Total(quotes', Counted') <= DailyEur
  <2>1. UNCHANGED clock
    BY <1>1, <1>10, WritingFacts
  <2>2. \A q \in Existing : quotes'[q].price = quotes[q].price /\ quotes'[q].created = quotes[q].created
    BY <1>1, <1>10, WritingKeepsPrices
  <2>3. \A q \in Quotes : quotes'[q].status \in Claimed => quotes[q].status \in Claimed
    BY <1>1, <1>4, <1>10, WritingKeepsPrices
  <2>4. \A q \in Quotes : quotes[q].status \in Claimed => q \in Existing
    BY DEF Existing, Claimed
  <2>5. Counted' \subseteq Counted /\ \A q \in Counted' : quotes'[q].price = quotes[q].price
    BY <2>1, <2>2, <2>3, <2>4 DEF Counted
  <2> QED BY <1>8, <2>5
<1>11. ASSUME NEW r \in Requests, Takes(r)
       PROVE  Total(quotes', Counted') <= DailyEur
  <2> DEFINE q == req[r].q
  <2>1. /\ UNCHANGED clock
        /\ quotes' = [quotes EXCEPT ![q].status = "reconciliation_required"]
        /\ quotes[q].status = "approved" /\ Spent + quotes[q].price <= DailyEur
        /\ req[r].op = "purchase"
    BY <1>11 DEF Takes, Claim, CanClaim
  <2>2. q \in Quotes
    BY <1>1, <2>1, QuoteAtHand
  <2>3. Spent = Total(quotes, Counted)
    BY DEF Spent, Total, Counted
  <2> HIDE DEF q
  <2>4. q \notin Counted
    BY <2>1 DEF Counted, Claimed
  <2>5. \A c \in Quotes : /\ quotes'[c].price = quotes[c].price
                          /\ quotes'[c].created = quotes[c].created
                          /\ c # q => quotes'[c].status = quotes[c].status
    BY <1>2, <2>1, <2>2 DEF Rows
  <2> DEFINE F == quotes
             S == Counted
             H == quotes'
             U == Counted'
             W == S \cup {q}
  <2>6. U \subseteq W /\ \A c \in U : H[c].price = F[c].price
    BY <2>1, <2>5 DEF Counted
  <2>7. IsFiniteSet(S) /\ IsFiniteSet(W) /\ Priced(F, W) /\ F[q].price \in Nat /\ q \notin S
    <3>1. W \in SUBSET Quotes
      BY <2>2 DEF Counted
    <3> QED BY <1>6, <1>7, <2>2, <2>4, <3>1, FS_AddElement DEF Priced
  <2> HIDE DEF F, S, H, U
  <2>8. Total(F, W) = F[q].price + Total(F, S)
    BY <2>7, TotalGains
  <2> HIDE DEF W
  <2>9. Total(H, U) <= Total(F, W) /\ Total(H, U) \in Nat /\ Total(F, W) \in Nat
    BY <2>6, <2>7, TotalShrinks
  <2>10. Total(F, S) \in Nat
    <3>1. Priced(F, S)
      BY <2>7 DEF Priced, W
    <3> QED BY <2>7, <3>1, TotalShrinks
  <2> QED BY <1>2, <2>1, <2>3, <2>7, <2>8, <2>9, <2>10 DEF F, S, H, U
<1> QED BY <1>1, <1>5, <1>9, <1>10, <1>11, BudgetSteps

LEMMA BudgetInvInvariant == Spec => [](FullInv /\ BudgetInv)
<1>1. Init /\ FullInv => BudgetInv
  <2> SUFFICES ASSUME Init, FullInv PROVE BudgetInv
    OBVIOUS
  <2>1. Existing = {} /\ Counted = {}
    BY DEF Init, Existing, Counted, NoQuote, Claimed
  <2>2. Total(quotes, {}) = 0
    <3>1. IsFiniteSet({}) /\ Priced(quotes, {})
      BY FS_EmptySet DEF Priced
    <3>2. PICK g : Adds(quotes, {}, g) /\ Total(quotes, {}) = g[{}]
      BY <3>1, TotalAdds
    <3> QED BY <3>2 DEF Adds
  <2>3. DailyEur \in Nat
    BY BitrefillAssumption
  <2> QED BY <2>1, <2>2, <2>3, FS_EmptySet DEF BudgetInv, Init
<1>2. FullInv /\ BudgetInv /\ [Next]_vars => BudgetInv'
  BY BudgetStep
<1> QED BY <1>1, <1>2, FullInvInvariant, PTL DEF Spec

\* On one replica the quotes of the last day that the provider was asked for fit
\* the budget, however many exist and whatever became uncertain.
THEOREM BudgetIsKept == Spec => []BudgetHolds
<1>1. FullInv /\ BudgetInv => BudgetHolds
  <2> SUFFICES ASSUME FullInv, BudgetInv, OneReplica
               PROVE  Total(quotes, {q \in Quotes : calls[q] # << >> /\ quotes[q].created + Day >= clock})
                        <= DailyEur
    BY DEF BudgetHolds, Total
  <2> DEFINE U == {q \in Quotes : calls[q] # << >> /\ quotes[q].created + Day >= clock}
             F == quotes
             S == Counted
  <2>1. U \subseteq S
    BY DEF BudgetInv, Counted
  <2>2. IsFiniteSet(S) /\ Priced(F, S)
    <3>1. quotes \in [Quotes -> Rows]
      BY Unfolded DEF FullInv, IInv
    <3>2. S \subseteq Existing
      BY DEF Counted, Existing, Claimed
    <3> QED BY <3>1, <3>2, FS_Subset DEF BudgetInv, Priced, Rows, Existing
  <2>3. Total(F, S) <= DailyEur /\ DailyEur \in Nat
    BY BitrefillAssumption DEF BudgetInv
  <2> HIDE DEF U, F, S
  <2>4. Total(F, U) <= Total(F, S) /\ Total(F, U) \in Nat /\ Total(F, S) \in Nat
    BY <2>1, <2>2, TotalShrinks
  <2> QED BY <2>3, <2>4 DEF U, F
<1> QED BY <1>1, BudgetInvInvariant, PTL

=============================================================================
