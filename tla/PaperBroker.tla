----------------------------- MODULE PaperBroker -----------------------------
(***************************************************************************)
(* The isolated paper broker (services/paper_trading) under its two        *)
(* drivers: the asyncio session, whose strategy callback and notifier are  *)
(* awaited between a quote and the orders it causes, and the paper-trade   *)
(* command, which submits one order and replays a file of quotes.  The     *)
(* feed may lose, repeat, delay or reorder quotes.                         *)
(*                                                                         *)
(* Money is counted in 1/Unit of a price tick.  A position keeps what its  *)
(* lots cost (average_entry times their number), so that an average is     *)
(* exact; what a partial closing takes out of it is rounded to money units.*)
(***************************************************************************)
EXTENDS Integers, Sequences, FiniteSets, FiniteSetsExt

CONSTANTS
    Symbols,
    Feeds,       \* the feeds a run can meet, each a sequence of quotes
    Requests,    \* order requests of the strategy, each with its id
    Rates,       \* funding rates, in percent
    Cash,        \* initial_cash, in ticks
    Unit,        \* money units in a tick
    Fee,         \* fee_rate, in percent
    Slip,        \* slippage of a market order, in percent
    Leverage,    \* max_gross_leverage, in percent
    MaxQuotes,   \* bound on the quotes delivered
    MaxCalls     \* bound on kill, halt, clear, cancel and funding calls

NoSequence == 0
NoQuote == [symbol |-> "none"]
NoLimit == 0

\* The checks of __init__; the price of a fill is positive, so slippage is below 100%.
ASSUME CostAssumption ==
    /\ Unit \in Nat \ {0} /\ Cash \in Nat \ {0}
    /\ Fee \in Nat /\ Slip \in 0..99 /\ Leverage \in 1..100
    /\ \A rate \in Rates : rate \in Int
ASSUME SymbolsAssumption == IsFiniteSet(Symbols) /\ NoQuote.symbol \notin Symbols
\* The validators of PaperOrderRequest and PaperQuote.
ASSUME RequestsAssumption ==
    \A r \in Requests :
        /\ r.symbol \in Symbols /\ r.side \in {"buy", "sell"}
        /\ r.lots \in Nat \ {0} /\ r.limit \in Nat
ASSUME FeedsAssumption ==
    \A f \in Feeds : Len(f) \in Nat \ {0} /\ \A n \in 1..Len(f) :
        /\ f[n].symbol \in Symbols /\ f[n].at \in Int /\ f[n].seq \in Nat
        /\ f[n].bid \in Nat \ {0} /\ f[n].ask \in Nat /\ f[n].bid < f[n].ask
        /\ f[n].bidLots \in Nat /\ f[n].askLots \in Nat /\ f[n].good \in BOOLEAN

VARIABLES
    feed,      \* the feed of this run
    driver,    \* [at |-> where the driver is, quote |-> the quote in its hands]
    orders,    \* in order of submission
    fills,
    pos,       \* PaperPosition of every symbol
    cash,
    latest,    \* latest_quotes
    last,      \* _last_sequence
    halted,    \* data_halted_symbols
    kill,      \* kill_switch_reason is set
    stopped,   \* operational_halt_reason is set
    taken,     \* history: per symbol, the sequence numbers taken since the last clear
    quotes,    \* quotes delivered so far
    calls      \* operator calls so far

account == <<orders, fills, pos, cash>>
data == <<latest, last, halted, taken>>
paperVars == <<feed, driver, account, data, kill, stopped, quotes, calls>>

\* basis: lots at average_entry, realized and funding: the two pnl fields, in money units.
Flat == [lots |-> 0, basis |-> 0, realized |-> 0, funding |-> 0]

PaperInit ==
    /\ feed \in Feeds
    /\ driver = [at |-> "new", quote |-> NoQuote]
    /\ orders = <<>> /\ fills = <<>>
    /\ pos = [s \in Symbols |-> Flat]
    /\ cash = Unit * Cash
    /\ latest = [s \in Symbols |-> NoQuote]
    /\ last = [s \in Symbols |-> NoSequence]
    /\ taken = [s \in Symbols |-> <<>>]
    /\ halted = {} /\ kill = FALSE /\ stopped = FALSE
    /\ quotes = 0 /\ calls = 0

-----------------------------------------------------------------------------
(***************************************************************************)
(* Orders, marks and exposure                                              *)
(***************************************************************************)

Abs(n) == IF n < 0 THEN -n ELSE n
Direction(n) == IF n > 0 THEN 1 ELSE -1
Signed(side, lots) == IF side = "buy" THEN lots ELSE -lots
IsOpen(order) == order.status \in {"open", "partially_filled"}
Remaining(order) == order.lots - order.filled

\* _try_fill: a buy takes the ask, a sell the bid.
Touch(side, quote) == IF side = "buy" THEN quote.ask ELSE quote.bid
Available(side, quote) == IF side = "buy" THEN quote.askLots ELSE quote.bidLots
Mid(quote) == (quote.bid + quote.ask) \div 2

Total(f) == MapThenSumSet(LAMBDA x : f[x], DOMAIN f)
Quoted(marks) == {s \in Symbols : marks[s] # NoQuote}

\* equity(): a symbol that was never quoted does not count.
Unrealized(p, quote) == Unit * Mid(quote) * p.lots - Direction(p.lots) * p.basis
Equity(money, book, marks) ==
    money + Total([s \in Quoted(marks) |-> Unrealized(book[s], marks[s])])

\* The gross of snapshot() and, for a candidate book, of _exposure_allowed.
Gross(book, marks) == Total([s \in Quoted(marks) |-> Abs(Unit * Mid(marks[s]) * book[s].lots)])

\* Mutant: the position already held is left out of the candidate.
MutCandidate(book, symbol, signed) == [book EXCEPT ![symbol].lots = signed]
Candidate(book, symbol, signed) == [book EXCEPT ![symbol].lots = @ + signed]

ExposureAllowed(a, symbol, signed, marks) ==
    100 * Gross(Candidate(a.pos, symbol, signed), marks)
        <= Leverage * Equity(a.cash, a.pos, marks)

\* What the lots that a fill closes had cost.
Closed(p, signed) == Min({Abs(p.lots), Abs(signed)})
ClosedCost(p, signed) == (p.basis * Closed(p, signed)) \div Abs(p.lots)

\* The cost of a position after a fill: its new average_entry times its lots.
\* Mutant: a position reversed through zero keeps its old entry price.
MutBasis(p, signed, price) ==
    IF p.lots = 0 \/ p.lots * signed > 0 THEN p.basis + Unit * price * Abs(signed)
    ELSE IF p.lots * (p.lots + signed) >= 0 THEN p.basis - ClosedCost(p, signed)
    ELSE (p.basis \div Abs(p.lots)) * Abs(p.lots + signed)
Basis(p, signed, price) ==
    IF p.lots = 0 \/ p.lots * signed > 0 THEN p.basis + Unit * price * Abs(signed)
    ELSE IF p.lots * (p.lots + signed) >= 0 THEN p.basis - ClosedCost(p, signed)
    ELSE Unit * price * Abs(p.lots + signed)

\* What a fill against the position realizes.
Realized(p, signed, price) ==
    IF p.lots * signed >= 0 THEN 0
    ELSE Direction(p.lots) * (Unit * price * Closed(p, signed) - ClosedCost(p, signed))

ApplyFill(a, fill) ==
    LET p == a.pos[fill.symbol]
        signed == Signed(fill.side, fill.lots)
        gain == Realized(p, signed, fill.price)
    IN  [a EXCEPT !.pos[fill.symbol] =
                      [p EXCEPT !.lots = @ + signed, !.basis = Basis(p, signed, fill.price),
                                !.realized = @ + gain],
                  !.cash = @ + gain - fill.fee,
                  !.fills = Append(@, fill)]

-----------------------------------------------------------------------------
(***************************************************************************)
(* on_quote                                                                *)
(***************************************************************************)

Crosses(order, quote) ==
    \/ order.limit = NoLimit
    \/ order.side = "buy" /\ quote.ask <= order.limit
    \/ order.side = "sell" /\ quote.bid >= order.limit

\* A limit order pays the touch, a market order adverse slippage as well.
Price(order, quote) ==
    LET touch == Touch(order.side, quote) IN
    IF order.limit # NoLimit THEN touch
    ELSE touch + Signed(order.side, (touch * Slip) \div 100)

\* _try_fill of the i-th order of the account a.
TryFill(a, i, quote, marks) ==
    LET o == a.orders[i]
        lots == Min({Remaining(o), Available(o.side, quote)})
        price == Price(o, quote)
        fill == [id |-> o.id, symbol |-> o.symbol, side |-> o.side, at |-> quote.at,
                 seq |-> quote.seq, lots |-> lots, price |-> price,
                 fee |-> (Unit * price * lots * Fee) \div 100]
    IN  IF lots = 0 \/ ~Crosses(o, quote) THEN a
        ELSE IF ~ExposureAllowed(a, o.symbol, Signed(o.side, lots), marks)
             THEN [a EXCEPT !.orders[i].status = "rejected"]
        ELSE [ApplyFill(a, fill) EXCEPT
                 !.orders[i].filled = @ + lots,
                 !.orders[i].status = IF lots = Remaining(o) THEN "filled" ELSE "partially_filled"]

\* Every open order of the symbol submitted before the quote, oldest first.
\* Mutant: an order submitted on this very quote is matched against it too.
MutEligible(order, quote) ==
    order.symbol = quote.symbol /\ order.at <= quote.at /\ IsOpen(order)
Eligible(order, quote) ==
    order.symbol = quote.symbol /\ order.at < quote.at /\ IsOpen(order)

MatchOne(a, i, quote, marks) ==
    IF Eligible(a.orders[i], quote) THEN TryFill(a, i, quote, marks) ELSE a

MatchAll(quote, marks) ==
    LET after[i \in 0..Len(orders)] ==
            IF i = 0 THEN [orders |-> orders, fills |-> fills, pos |-> pos, cash |-> cash]
            ELSE MatchOne(after[i - 1], i, quote, marks)
    IN  after[Len(orders)]

Old(quote) == quote.seq # NoSequence /\ quote.seq <= last[quote.symbol]

Gap(quote) ==
    quote.seq # NoSequence /\ last[quote.symbol] # NoSequence /\ quote.seq > last[quote.symbol] + 1

\* The quote is recorded; a poor quote and every kind of halt keep it from matching.
TakeQuote(quote) ==
    LET s == quote.symbol
        marks == [latest EXCEPT ![s] = quote]
        a == MatchAll(quote, marks)
    IN  /\ latest' = marks
        /\ last' = IF quote.seq = NoSequence THEN last ELSE [last EXCEPT ![s] = quote.seq]
        /\ taken' = IF quote.seq = NoSequence THEN taken ELSE [taken EXCEPT ![s] = Append(@, quote.seq)]
        /\ IF ~quote.good \/ kill \/ stopped \/ s \in halted
           THEN UNCHANGED account
           ELSE /\ orders' = a.orders /\ fills' = a.fills
                /\ pos' = a.pos /\ cash' = a.cash
        /\ UNCHANGED halted

\* Old quotes and the quote that shows a gap change nothing but the halt.
OnQuote(quote) ==
    \/ Old(quote) /\ UNCHANGED <<account, data>>
    \/ /\ ~Old(quote) /\ Gap(quote)
       /\ halted' = halted \cup {quote.symbol}
       /\ UNCHANGED <<account, latest, last, taken>>
    \/ ~Old(quote) /\ ~Gap(quote) /\ TakeQuote(quote)

-----------------------------------------------------------------------------
(***************************************************************************)
(* submit, and the two drivers                                             *)
(***************************************************************************)

Known(request) == \E i \in 1..Len(orders) : orders[i].id = request.id

Submitted(request, time) ==
    [id |-> request.id, symbol |-> request.symbol, side |-> request.side, lots |-> request.lots,
     limit |-> request.limit, at |-> time, filled |-> 0,
     status |-> IF kill \/ stopped THEN "rejected" ELSE "open"]

\* PaperTradingSession.run starts, or the paper-trade command submits its order
\* with the time of the first row.
Start ==
    /\ driver.at = "new"
    /\ \/ driver' = [driver EXCEPT !.at = "feed"] /\ UNCHANGED orders
       \/ /\ driver' = [driver EXCEPT !.at = "replay"]
          /\ \E r \in Requests :
                /\ r.symbol = feed[1].symbol /\ r.side = "buy" /\ r.limit = NoLimit
                /\ orders' = <<Submitted(r, feed[1].at)>>
    /\ UNCHANGED <<feed, fills, pos, cash, data, kill, stopped, quotes, calls>>

\* The session notifies its fills, which may raise and end it, and asks the
\* strategy about a quote that is good enough.
Deliver ==
    /\ driver.at \in {"feed", "replay"} /\ quotes < MaxQuotes
    /\ \E n \in 1..Len(feed) :
          /\ OnQuote(feed[n])
          /\ driver' \in
               IF driver.at = "replay" THEN {driver}
               ELSE (IF feed[n].good THEN {[at |-> "signal", quote |-> feed[n]]} ELSE {driver})
                    \cup (IF fills' # fills THEN {[driver EXCEPT !.at = "ended"]} ELSE {})
    /\ quotes' = quotes + 1
    /\ UNCHANGED <<feed, kill, stopped, calls>>

\* The callback's answer: an order at the time of the quote it was asked about,
\* whatever was decided meanwhile.  A repeated client_order_id ends the session.
Signal ==
    /\ driver.at = "signal"
    /\ \/ driver' = [at |-> "feed", quote |-> NoQuote] /\ UNCHANGED orders
       \/ \E r \in Requests :
             /\ ~Known(r)
             /\ orders' = Append(orders, Submitted(r, driver.quote.at))
             /\ driver' = [at |-> "feed", quote |-> NoQuote]
       \/ /\ \E r \in Requests : Known(r)
          /\ driver' = [at |-> "ended", quote |-> NoQuote]
          /\ UNCHANGED orders
    /\ UNCHANGED <<feed, fills, pos, cash, data, kill, stopped, quotes, calls>>

-----------------------------------------------------------------------------
(***************************************************************************)
(* Calls of the operator and of the stream's owner                         *)
(***************************************************************************)

Call ==
    /\ driver.at \in {"feed", "signal"} /\ calls < MaxCalls
    /\ calls' = calls + 1
    /\ UNCHANGED <<feed, driver, quotes>>

Canceled(order) == IF IsOpen(order) THEN [order EXCEPT !.status = "canceled"] ELSE order

Cancel ==
    /\ Call
    /\ \E i \in 1..Len(orders) : orders' = [orders EXCEPT ![i] = Canceled(@)]
    /\ UNCHANGED <<fills, pos, cash, data, kill, stopped>>

\* activate_kill_switch: set, then cancel_all.
ActivateKillSwitch ==
    /\ Call
    /\ kill' = TRUE
    /\ orders' = [i \in 1..Len(orders) |-> Canceled(orders[i])]
    /\ UNCHANGED <<fills, pos, cash, data, stopped>>

\* on_stream_disconnect and on_stream_recovered; open orders stay open.
Halt == Call /\ stopped' = TRUE /\ UNCHANGED <<account, data, kill>>
Resume == Call /\ stopped' = FALSE /\ UNCHANGED <<account, data, kill>>

\* The sequence is forgotten too: any number is accepted next.
ClearDataHalt(s) ==
    /\ Call
    /\ halted' = halted \ {s}
    /\ last' = [last EXCEPT ![s] = NoSequence]
    /\ taken' = [taken EXCEPT ![s] = <<>>]
    /\ UNCHANGED <<account, latest, kill, stopped>>

ApplyFunding(s) ==
    /\ Call
    /\ latest[s] # NoQuote
    /\ \E rate \in Rates :
          LET payment == -((Unit * Mid(latest[s]) * pos[s].lots * rate) \div 100) IN
          /\ pos' = [pos EXCEPT ![s].funding = @ + payment]
          /\ cash' = cash + payment
    /\ UNCHANGED <<orders, fills, data, kill, stopped>>

PaperNext ==
    \/ Start \/ Deliver \/ Signal
    \/ Cancel \/ ActivateKillSwitch \/ Halt \/ Resume
    \/ \E s \in Symbols : ClearDataHalt(s) \/ ApplyFunding(s)

PaperSpec == PaperInit /\ [][PaperNext]_paperVars

-----------------------------------------------------------------------------
(***************************************************************************)
(* Properties                                                              *)
(***************************************************************************)

\* What a fill takes from the account.
Paid(fill) == Unit * fill.price * Signed(fill.side, fill.lots) + fill.fee

\* The account never makes or loses money by itself: what the position book
\* says (realized and unrealized profit through openings, averaging, partial
\* closings and reversals of _apply_fill) is what the fills paid and received,
\* less fees, plus funding.
BookMatchesFills ==
    LET paid == Total([i \in 1..Len(fills) |-> Paid(fills[i])])
        entries == Total([s \in Symbols |-> Direction(pos[s].lots) * pos[s].basis])
        funding == Total([s \in Symbols |-> pos[s].funding])
    IN  cash - entries = Unit * Cash - paid + funding

\* An order is filled at most once by one sequenced quote of a contiguous stretch
\* of the feed, only by quotes later than the quote it was decided on, and the
\* quotes taken since the last clear_data_halt are consecutive: nothing lost,
\* repeated or overtaken went into a fill.
FillsFollowFeed ==
    /\ \A s \in Symbols : \A i \in 1..(Len(taken[s]) - 1) : taken[s][i + 1] = taken[s][i] + 1
    /\ \A i \in 1..Len(fills) : \E j \in 1..Len(orders) :
          orders[j].id = fills[i].id /\ orders[j].at < fills[i].at

\* The exposure that one quote's fills leave, over all symbols and all the orders
\* matched on that quote, is covered by the equity before them at its marks.
ExposureCovered ==
    [][fills' # fills =>
         100 * Gross(pos', latest') <= Leverage * Equity(cash, pos, latest')]_paperVars
=============================================================================
