------------------------------ MODULE Backtest ------------------------------
(***************************************************************************)
(* The event-driven backtest (services/backtest, domain/execution,         *)
(* domain/portfolio): a queue of events in (timestamp, priority, sequence) *)
(* order, an execution simulator that matches submitted orders against     *)
(* later snapshots, and a ledger of cash and linear perpetual positions    *)
(* with protection, funding and liquidation.                               *)
(*                                                                         *)
(* The input events of a run are chosen as the run reaches them.  They     *)
(* were pushed before the run, so among events of one time and priority    *)
(* they come before those the engine pushes itself.                        *)
(***************************************************************************)
EXTENDS Integers, Sequences, FiniteSets, FiniteSetsExt, SequencesExt

CONSTANTS
    Keys,          \* instruments
    Snapshots,     \* quotes a market event can carry: [bid, ask, mark, last, take, pass]
    Rates,         \* funding rates a settlement can have
    Signals,       \* input signals, each with its id
    MaxTime,       \* bound on the clock
    MaxOrders,     \* bound on the signals, exits included, that become orders
    Cash,          \* initial cash, in money units
    Leverage,
    Unit,          \* money units in one tick of one lot
    Fee,           \* taker fee of one tick of one lot, in money units
    MakerFee,      \* maker fee, likewise
    Margin,        \* maintenance margin of one tick of one lot, in money units
    Slip,          \* slippage and impact of a taker fill, in ticks
    MinNotional    \* minimum notional, in ticks times lots

NoError == "none"
NoKey == "none"
NoPrice == 0

\* What a signal asks for; exit marks the engine's own exits.
Forms ==
    [key : Keys, side : {"buy", "sell"}, lots : Nat \ {0}, limit : Nat,
     tif : {"gtc", "ioc", "fok"}, post : BOOLEAN, reduce : BOOLEAN, exit : BOOLEAN,
     exp : Nat, stop : Nat, take : Nat, calc : Nat, net : Nat]

ASSUME KeysAssumption == IsFiniteSet(Keys)
\* A maker fee may be a rebate.
ASSUME MoneyAssumption ==
    /\ Unit \in Nat \ {0} /\ Leverage \in Nat \ {0} /\ Unit % Leverage = 0
    /\ Cash \in Int /\ Fee \in Nat /\ MakerFee \in Int /\ Slip \in Nat /\ Margin \in Nat
    /\ \A rate \in Rates : rate \in Int
\* The validators of MarketSnapshot and SignalEvent.
ASSUME SnapshotsAssumption ==
    Snapshots \subseteq [key : {NoKey}, bid : Nat \ {0}, ask : Nat \ {0}, mark : Nat \ {0},
                         last : Nat, take : Nat, pass : Nat]
ASSUME SignalsAssumption == \A s \in Signals : s.order \in Forms /\ ~s.order.exit

VARIABLES
    at,        \* the event handled last, and the instruments quoted at its time
    queue,     \* events the engine pushed, in the order it pushed them
    seen,      \* _seen_signals
    orders,    \* submitted orders that are not terminal
    count,     \* orders created so far
    pos,       \* the position of every instrument
    cash,
    pending,   \* _exit_pending
    liquid,    \* _liquidation_pending
    error,     \* the exception that ended the run
    flow,      \* history: money received minus paid, fill by fill and settlement by settlement
    lost       \* history: instruments with a pending exit that was refused as too
               \* small, or whose position another order enlarged or reversed since

ledger == <<pos, cash, flow>>
backtestVars == <<at, queue, seen, orders, count, ledger, pending, liquid, error, lost>>

\* lots: signed quantity; basis: lots at average_entry_price, in money units.
Flat == [lots |-> 0, basis |-> 0, mark |-> 0, stop |-> NoPrice, take |-> NoPrice]

BacktestInit ==
    /\ at = [time |-> 1, rank |-> 1, quoted |-> {}]
    /\ queue = <<>> /\ seen = {} /\ orders = {} /\ count = 0
    /\ pos = [k \in Keys |-> Flat]
    /\ cash = Cash /\ flow = 0
    /\ pending = {} /\ liquid = {} /\ lost = {}
    /\ error = NoError

-----------------------------------------------------------------------------
(***************************************************************************)
(* EventQueue                                                              *)
(***************************************************************************)

\* event_priority, with an exit signal behind the input signals of its time.
Rank(type) ==
    CASE type = "market" -> 1 [] type = "funding" -> 2 [] type = "signal" -> 3
      [] type = "exit" -> 4 [] type = "creation" -> 5 [] type = "submission" -> 6

Precedes(t, r, u, q) == t < u \/ (t = u /\ r < q)

\* An input event of that time and rank can be the next one popped.
NextInput(t, type) ==
    /\ error = NoError /\ t <= MaxTime
    /\ ~Precedes(t, Rank(type), at.time, at.rank)
    /\ \A i \in DOMAIN queue : Precedes(t, Rank(type), queue[i].time, Rank(queue[i].type))

\* The engine's own event that is the next one popped.
NextOwn(i, type) ==
    /\ error = NoError
    /\ queue[i].type = type
    /\ \A j \in DOMAIN queue \ {i} :
          \/ Precedes(queue[i].time, Rank(type), queue[j].time, Rank(queue[j].type))
          \/ queue[i].time = queue[j].time /\ type = queue[j].type /\ i < j

Quoted(t) == IF t = at.time THEN at.quoted ELSE {}

Handled(t, type, keys) ==
    at' = [time |-> t, rank |-> Rank(type), quoted |-> Quoted(t) \cup keys]

-----------------------------------------------------------------------------
(***************************************************************************)
(* PortfolioLedger                                                         *)
(***************************************************************************)

Abs(n) == IF n < 0 THEN -n ELSE n
Sign(n) == IF n > 0 THEN 1 ELSE IF n < 0 THEN -1 ELSE 0
Open(p) == p.lots # 0

Signed(order, n) == IF order.side = "buy" THEN n ELSE -n

Unrealized(p) == IF p.mark = 0 THEN 0 ELSE p.lots * p.mark * Unit - Sign(p.lots) * p.basis
Total(f) == MapThenSumSet(LAMBDA x : f[x], DOMAIN f)
Equity(ps, c) == c + Total([k \in Keys |-> Unrealized(ps[k])])
Gross(ps) == Total([k \in Keys |-> Abs(ps[k].lots) * ps[k].mark])
AvailableMargin(ps, c) == Max({0, Equity(ps, c) - Gross(ps) * (Unit \div Leverage)})
Distress(ps, c) ==
    /\ \E k \in Keys : Open(ps[k])
    /\ Equity(ps, c) <= Gross(ps) * Margin

\* Position.apply_fill of d signed lots at a price: it opens or adds, reduces,
\* closes or reverses.  A close clears the protection (and here the mark, which
\* nothing reads then); a reversal keeps it and starts a new average.
Removed(p, d) ==
    IF p.lots * d >= 0 THEN 0
    ELSE (p.basis * Min({Abs(d), Abs(p.lots)})) \div Abs(p.lots)

MutBasis(p, d, price) ==
    IF p.lots * d >= 0 THEN p.basis + Abs(d) * price * Unit
    ELSE IF (p.lots + d) * p.lots >= 0 THEN p.basis - Removed(p, d)
    ELSE Abs(p.lots + d) * (p.basis \div Abs(p.lots))

Basis(p, d, price) ==
    IF p.lots * d >= 0 THEN p.basis + Abs(d) * price * Unit
    ELSE IF (p.lots + d) * p.lots >= 0 THEN p.basis - Removed(p, d)
    ELSE Abs(p.lots + d) * price * Unit

ApplyFill(p, d, price) ==
    IF p.lots + d = 0 THEN Flat
    ELSE [p EXCEPT !.lots = @ + d, !.mark = price, !.basis = Basis(p, d, price)]

Realized(p, d, price) ==
    IF p.lots * d >= 0 THEN 0
    ELSE Sign(p.lots) * (Min({Abs(d), Abs(p.lots)}) * price * Unit - Removed(p, d))

\* set_protection raises when a level is on the wrong side of the entry.
ProtectionValid(p, stop, take) ==
    LET Beyond(level) == Sign(p.lots) * (level * Unit * Abs(p.lots) - p.basis)
    IN  Open(p) => /\ stop # NoPrice => Beyond(stop) < 0
                   /\ take # NoPrice => Beyond(take) > 0

Protect(p, stop, take) ==
    IF Open(p) /\ (stop # NoPrice \/ take # NoPrice)
    THEN [p EXCEPT !.stop = stop, !.take = take] ELSE p

Marked(p, price) == IF Open(p) THEN [p EXCEPT !.mark = price] ELSE p

\* protection_trigger, at the price the position could be closed for.
Triggered(p, snap) ==
    LET price == IF p.lots > 0 THEN snap.bid ELSE snap.ask
    IN  /\ Open(p)
        /\ \/ p.stop # NoPrice /\ Sign(p.lots) * (price - p.stop) <= 0
           \/ p.take # NoPrice /\ Sign(p.lots) * (price - p.take) >= 0

Closing(p, order) == IF p.lots * Signed(order, 1) < 0 THEN Abs(p.lots) ELSE 0

\* maximum_fill_quantity: the whole lots of the cap, and whether it is above zero.
MaximumFill(s, order, price) ==
    LET closing == Closing(s.pos[order.key], order)
        spare == AvailableMargin(s.pos, s.cash)
        whole == spare \div (price * (Unit \div Leverage + Fee))
    IN  IF order.reduce
        THEN [lots |-> Min({order.rem, closing}), some |-> closing > 0]
        ELSE [lots |-> Min({order.rem, closing + whole}), some |-> closing > 0 \/ spare > 0]

-----------------------------------------------------------------------------
(***************************************************************************)
(* ExecutionSimulator.match, for one order after another.  s carries what  *)
(* the loop changes: orders left and kept, ledger, pending exits and an    *)
(* exception.                                                              *)
(***************************************************************************)

Kept(s, order) == [s EXCEPT !.orders = @ \cup {order}]

Marketable(order, snap) ==
    \/ order.limit = NoPrice
    \/ order.side = "buy" /\ order.limit >= snap.ask
    \/ order.side = "sell" /\ order.limit <= snap.bid

\* Trades have reached a resting order's limit.
Reached(order, snap) ==
    /\ snap.last # NoPrice
    /\ IF order.side = "buy" THEN snap.last <= order.limit ELSE snap.last >= order.limit

\* A taker pays slippage and impact on the touch, rounded against it.
TakerPrice(order, snap) == IF order.side = "buy" THEN snap.ask + Slip ELSE snap.bid - Slip

\* validate_notional, at the mid, of an order that has no fill yet.
TooSmall(order, snap) ==
    order.rem = order.lots /\ order.lots * (snap.bid + snap.ask) < 2 * MinNotional

\* _match_details: lots and price of the fill, no lots when it does not match.
MatchDetails(order, snap, cap) ==
    LET taker == Marketable(order, snap)
        price == IF taker THEN TakerPrice(order, snap) ELSE order.limit
        within == order.limit = NoPrice
                    \/ (IF order.side = "buy" THEN price <= order.limit ELSE price >= order.limit)
        lots == Min({cap, IF taker THEN snap.take ELSE snap.pass})
    IN  [lots |-> IF (taker /\ within) \/ (~taker /\ Reached(order, snap)) THEN lots ELSE 0,
         price |-> price, taker |-> taker, refused |-> order.post /\ taker]

\* _make_fill: the fee of the fill.
FillFee(match) == match.lots * match.price * (IF match.taker THEN Fee ELSE MakerFee)

\* The fill reaches the ledger, which refuses what a reduce-only order may not
\* do and a protection on the wrong side; a position that closes ends its exits.
MutClosed(s, k) == [s EXCEPT !.pending = @ \ {k}]

Closed(s, k) == [s EXCEPT !.pending = @ \ {k}, !.liquid = @ \ {k}, !.lost = @ \ {k}]

Consume(s, order, lots, price, fee) ==
    LET k == order.key
        d == Signed(order, lots)
        before == s.pos[k]
        after == ApplyFill(before, d, price)
        booked == [s EXCEPT
                     !.pos[k] = Protect(after, order.stop, order.take),
                     !.cash = @ + Realized(before, d, price) - fee,
                     !.flow = @ - d * price * Unit - fee,
                     !.lost = IF after.lots * d > 0 /\ k \in s.pending
                              THEN @ \cup {k} ELSE @]
    IN  IF order.reduce /\ (before.lots * d >= 0 \/ lots > Abs(before.lots))
        THEN [s EXCEPT !.error = "reduce-only"]
        ELSE IF ~ProtectionValid(after, order.stop, order.take)
        THEN [s EXCEPT !.error = "protection"]
        ELSE IF Open(after) THEN booked ELSE Closed(booked, k)

\* An order that matches: fill-or-kill and immediate-or-cancel end it early.
Executed(s, order, match) ==
    LET left == [order EXCEPT !.rem = @ - match.lots]
        filled == Consume(s, order, match.lots, match.price, FillFee(match))
    IN  IF match.refused THEN s
        ELSE IF match.lots = 0 THEN IF order.tif = "gtc" THEN Kept(s, order) ELSE s
        ELSE IF order.tif = "fok" /\ match.lots < order.rem THEN s
        ELSE IF left.rem = 0 \/ order.tif = "ioc" THEN filled ELSE Kept(filled, left)

Capped(s, order, snap, cap) ==
    IF ~cap.some THEN IF order.reduce THEN s ELSE Kept(s, order)
    ELSE IF TooSmall(order, snap)
         THEN [s EXCEPT !.lost = IF order.exit THEN @ \cup {order.key} ELSE @]
    ELSE Executed(s, order, MatchDetails(order, snap, cap.lots))

Match(s, order, snap, t) ==
    IF s.error # NoError \/ order.key # snap.key \/ t <= order.sub THEN Kept(s, order)
    ELSE IF order.exp # 0 /\ t >= order.exp THEN s
    ELSE Capped(s, order, snap,
                MaximumFill(s, order, IF order.side = "buy" THEN snap.ask ELSE snap.bid))

\* Candidates come by submission time, then by order id; left: those to come.
Candidate(left) ==
    CHOOSE o \in left : \A p \in left : ~Precedes(p.sub, p.id, o.sub, o.id)

MatchNext(s, snap, t) ==
    LET order == Candidate(s.left)
    IN  Match([s EXCEPT !.left = @ \ {order}], order, snap, t)

-----------------------------------------------------------------------------
(***************************************************************************)
(* The engine's handlers                                                   *)
(***************************************************************************)

\* _schedule_exit: a reduce-only market order for the whole position.
ExitSignal(k, p, t) ==
    [type |-> "exit", time |-> t,
     order |-> [key |-> k, side |-> IF p.lots > 0 THEN "sell" ELSE "buy",
                lots |-> Abs(p.lots), limit |-> NoPrice, tif |-> "gtc", post |-> FALSE,
                reduce |-> TRUE, exit |-> TRUE, exp |-> 0, stop |-> NoPrice,
                take |-> NoPrice, calc |-> 0, net |-> 0]]

MutSurvivors(s, hit) == IF hit THEN {} ELSE s.orders

\* A liquidation cancels every submitted order that could open a position.
Survivors(s, hit) == IF hit THEN {o \in s.orders : o.reduce} ELSE s.orders

\* The instruments for which a snapshot schedules an exit.
Fresh(s, hit) == IF hit THEN {j \in Keys : Open(s.pos[j])} \ s.liquid ELSE {}
Exits(s, snap, fresh) ==
    (IF Triggered(s.pos[snap.key], snap) THEN {snap.key} ELSE {}) \cup fresh

\* _on_market after the matching: protection, then liquidation.
Scheduled(s, t, hit, fresh, exits) ==
    /\ orders' = Survivors(s, hit)
    /\ pos' = s.pos /\ cash' = s.cash /\ flow' = s.flow /\ lost' = s.lost
    /\ pending' = s.pending \cup exits
    /\ liquid' = s.liquid \cup fresh
    /\ queue' = queue \o [i \in 1..Cardinality(exits) |->
           LET e == SetToSeq(exits)[i] IN ExitSignal(e, s.pos[e], t)]
    /\ UNCHANGED error

Settled(s, snap, t, hit) ==
    IF s.error # NoError
    THEN error' = s.error /\ UNCHANGED <<queue, orders, ledger, pending, liquid, lost>>
    ELSE Scheduled(s, t, hit, Fresh(s, hit), Exits(s, snap, Fresh(s, hit)) \ s.pending)

Mark(s, snap) == [s EXCEPT !.pos[snap.key] = Marked(@, snap.mark)]

Matched(snap, t) ==
    LET start == Mark([left |-> orders, orders |-> {}, pos |-> pos, cash |-> cash, flow |-> flow,
                       pending |-> pending, liquid |-> liquid, lost |-> lost,
                       error |-> NoError], snap)
        after[n \in 0..Cardinality(orders)] ==
            IF n = 0 THEN start ELSE MatchNext(after[n - 1], snap, t)
    IN  after[Cardinality(orders)]

Outcome(s, snap, t) == Settled(s, snap, t, Distress(s.pos, s.cash))

OnMarket(t, k, q) ==
    /\ NextInput(t, "market") /\ k \notin Quoted(t)
    /\ LET snap == [q EXCEPT !.key = k]
       IN  Outcome(Mark(Matched(snap, t), snap), snap, t)
    /\ Handled(t, "market", {k})
    /\ UNCHANGED <<seen, count>>

\* Longs pay a positive rate on the settlement's mark; rates are in money units
\* per tick and lot.
OnFunding(t, k, rate, mark) ==
    /\ NextInput(t, "funding") /\ (at.rank = 2 => at.time < t)
    /\ Open(pos[k])
    /\ LET amount == -(pos[k].lots * mark * rate)
       IN  cash' = cash + amount /\ flow' = flow + amount
    /\ Handled(t, "funding", {})
    /\ UNCHANGED <<queue, seen, orders, count, pos, pending, liquid, error, lost>>

\* A signal becomes an order creation after the calculation delay; an id seen
\* before is refused.
OnSignal(t, s) ==
    /\ NextInput(t, "signal") /\ count < MaxOrders
    /\ s.id \notin seen
    /\ seen' = seen \cup {s.id}
    /\ queue' = Append(queue, [type |-> "creation", time |-> t + s.order.calc, order |-> s.order])
    /\ Handled(t, "signal", {})
    /\ UNCHANGED <<orders, count, ledger, pending, liquid, error, lost>>

Popped(i) == RemoveAt(queue, i)

OnExitSignal(i) ==
    /\ NextOwn(i, "exit")
    /\ queue' = Append(Popped(i), [queue[i] EXCEPT !.type = "creation"])
    /\ Handled(queue[i].time, "exit", {})
    /\ UNCHANGED <<seen, orders, count, ledger, pending, liquid, error, lost>>

OnOrderCreation(i) ==
    /\ NextOwn(i, "creation")
    /\ count' = count + 1
    /\ queue' = Append(Popped(i),
                  [type |-> "submission", time |-> queue[i].time + queue[i].order.net,
                   order |-> queue[i].order, id |-> count + 1])
    /\ Handled(queue[i].time, "creation", {})
    /\ UNCHANGED <<seen, orders, ledger, pending, liquid, error, lost>>

\* An order as the simulator keeps it: what remains, its id, when submitted.
Order(o, id, t) ==
    [key |-> o.key, side |-> o.side, lots |-> o.lots, rem |-> o.lots, limit |-> o.limit,
     tif |-> o.tif, post |-> o.post, reduce |-> o.reduce, exit |-> o.exit, exp |-> o.exp,
     stop |-> o.stop, take |-> o.take, id |-> id, sub |-> t]

\* ExecutionSimulator.submit; a post-only market order is rejected.
Submit(i) ==
    LET o == queue[i].order
    IN  /\ NextOwn(i, "submission")
        /\ orders' = IF o.post /\ o.limit = NoPrice THEN orders
                     ELSE orders \cup {Order(o, queue[i].id, queue[i].time)}
        /\ queue' = Popped(i)
        /\ Handled(queue[i].time, "submission", {})
        /\ UNCHANGED <<seen, count, ledger, pending, liquid, error, lost>>

BacktestNext ==
    \/ \E t \in 1..MaxTime, k \in Keys, q \in Snapshots : OnMarket(t, k, q)
    \/ \E t \in 1..MaxTime, k \in Keys, r \in Rates, q \in Snapshots : OnFunding(t, k, r, q.mark)
    \/ \E t \in 1..MaxTime, s \in Signals : OnSignal(t, s)
    \/ \E i \in DOMAIN queue : OnExitSignal(i) \/ OnOrderCreation(i) \/ Submit(i)

BacktestSpec == BacktestInit /\ [][BacktestNext]_backtestVars

-----------------------------------------------------------------------------
(***************************************************************************)
(* Properties                                                              *)
(***************************************************************************)

\* The ledger's cash is what trades, fees and funding really moved, plus what
\* the open positions have cost: averaging, partial closes and reversals
\* neither create nor lose money.
Conserves ==
    cash = Cash + flow + Total([k \in Keys |-> Sign(pos[k].lots) * pos[k].basis])

\* An exit that is pending is under way: its signal or order is in the queue or
\* its order is still open, unless the minimum notional refused it or another
\* order enlarged or reversed the position meanwhile.  Nothing else forgets a
\* stop.
ExitUnderWay(k) ==
    \/ \E i \in DOMAIN queue : queue[i].order.exit /\ queue[i].order.key = k
    \/ \E o \in orders : o.exit /\ o.key = k

ExitsServed == error = NoError => \A k \in pending : ExitUnderWay(k) \/ k \in lost

\* When a snapshot leaves equity at or below the maintenance margin, no order
\* that could open a position survives it and every open position is being
\* closed.
DistressHandled ==
    at.rank = 1 /\ error = NoError /\ Distress(pos, cash) =>
        /\ \A o \in orders : o.reduce
        /\ \A k \in Keys : Open(pos[k]) => k \in pending
=============================================================================
