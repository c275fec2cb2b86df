------------------------------ MODULE Operations ------------------------------
(***************************************************************************)
(* The continuous paper operation (services/operations/service.py) over    *)
(* its tables (services/operations/repository.py), with the command that   *)
(* starts it and the command that stops it (cli/main.py).                  *)
(*                                                                         *)
(* One process, one event loop: the workers interleave at their awaits,    *)
(* and a section between two awaits makes its database calls one after the *)
(* other while the loop is blocked.  What can still move during such a     *)
(* section is the other process (stop-paper-operation) and a crash, so     *)
(* `loop` says where in a section the loop stands.  operational_runs is    *)
(* always written whole, from a row read earlier.                          *)
(*                                                                         *)
(* One strategy on two legs and one portfolio: strategies and portfolios   *)
(* share no state but the signal's orders.  A quote is present or not;     *)
(* prices, sizes and the limits computed from them are the choice of the   *)
(* outcome of a leg.  Rejected signals, risk events, daily metrics and the *)
(* report are written for a reader outside the program and left out.       *)
(***************************************************************************)
EXTENDS Integers, SequencesExt, FiniteSetsExt

CONSTANTS
    Passing,      \* snapshots whose research passes every gate of refresh_eligibility
    Ineligible,   \* snapshots finalized but not research eligible
    Deliveries,   \* the legs one poll of the market may bring a book for
    Capital, Fee, \* initial capital; what a fill on each leg costs
    LossLimit,    \* maximum_daily_loss, as an amount
    MaxSnapshots, MaxSignals, MaxFaults, MaxStarts, MaxStops   \* bounds

Legs == {1, 2}          \* receive_leg, pay_leg
Row == [status : {"STARTING", "RUNNING", "STOP_REQUESTED", "STOPPED", "FAILED"},
        healthy : BOOLEAN, paused : BOOLEAN, snapshot : Nat,
        research : {"NOT_SCHEDULED", "COMPLETED", "FAILED", "SKIPPED"}]
NoRow == [status |-> "NONE", snapshot |-> 0, research |-> "NOT_SCHEDULED"]

ASSUME OperationsAssumption ==
    /\ Passing \subseteq Nat /\ Ineligible \subseteq Nat
    /\ Deliveries \subseteq SUBSET Legs /\ Capital \in Nat /\ Fee \in [Legs -> Nat] /\ LossLimit \in Nat
    /\ {MaxSnapshots, MaxSignals, MaxFaults, MaxStarts, MaxStops} \subseteq Nat

VARIABLES
    row,       \* operational_runs
    elig,      \* strategy_eligibility of the strategy: its snapshot, valid_at(now)
    signals,   \* paper_signals that were not rejected: the snapshot of each
    orders, fills, position, ledger,   \* the paper_* tables: orders and fills by signal and leg
    phase,     \* down, starting, running
    loop,      \* where the event loop stands in a section
    stopEvent,
    busy,      \* ticks that are waiting for a thread or for the notifier
    studied,   \* the snapshot the research thread was given
    quotes,    \* legs with an entry in _latest_events
    mem,       \* _portfolio_states: cash and halted
    snapshots, \* how many snapshots have been finalized
    cli,       \* stop-paper-operation: the row it has read
    faults, starts, stops

tables == <<elig, signals, orders, fills, position, ledger>>
process == <<stopEvent, busy, studied, quotes, mem>>
counters == <<snapshots, faults, starts, stops>>
vars == <<row, tables, phase, loop, process, cli, counters>>

Free == [at |-> "free"]

--------------------------------------------------------------------------------
(* The operational row: get_run, replace, save_run.                        *)

\* The row has been read and will be written with `changes`; then the section goes on at `next`.
Replace(changes, next) == loop' = [at |-> "save", row |-> [f \in DOMAIN row |->
    IF f \in DOMAIN changes THEN changes[f] ELSE row[f]], next |-> next]

SaveRun ==
    /\ loop.at = "save"
    /\ row' = loop.row /\ loop' = [at |-> loop.next]
    /\ UNCHANGED <<tables, phase, process, cli, counters>>

Health(healthy) == [healthy |-> healthy, paused |-> ~healthy]
BindSnapshot(s) == [snapshot |-> s, research |-> "NOT_SCHEDULED",
                    paused |-> IF row.healthy THEN FALSE ELSE row.paused]

Running == phase = "running" /\ loop = Free
TickStarts == Running /\ ~stopEvent

--------------------------------------------------------------------------------
(* start_paper_operation, up to the workers.                               *)

Started == [status |-> "STARTING", healthy |-> FALSE, paused |-> FALSE,
            snapshot |-> 0, research |-> "NOT_SCHEDULED"]

\* _restore_or_initialize: cash is the balance after the last entry; nothing
\* says that the portfolio was halted.  The service manager restarts the
\* process after a failure, not after a stop.
RestoreOrInitialize ==
    /\ phase = "down" /\ starts < MaxStarts /\ row.status # "STOPPED"
    /\ row' = IF row = NoRow THEN Started ELSE row
    /\ ledger' = IF ledger = <<>> THEN <<[of |-> <<0, 0>>, amount |-> Capital, balance |-> Capital]>> ELSE ledger
    /\ mem' = [cash |-> Last(ledger').balance, halted |-> FALSE]
    /\ phase' = "starting" /\ loop' = [at |-> "announce"] /\ starts' = starts + 1
    /\ stopEvent' = FALSE /\ busy' = {} /\ studied' = 0 /\ quotes' = {}
    /\ UNCHANGED <<elig, signals, orders, fills, position, cli, snapshots, faults, stops>>

\* service.set_collector_health(True), then run(): RUNNING whatever the row says.
Announce ==
    /\ phase = "starting" /\ loop.at = "announce"
    /\ Replace(Health(TRUE), "run")
    /\ UNCHANGED <<row, tables, phase, process, cli, counters>>

Run ==
    /\ phase = "starting" /\ loop.at = "run"
    /\ Replace([status |-> "RUNNING"], "free") /\ phase' = "running"
    /\ UNCHANGED <<row, tables, process, cli, counters>>

--------------------------------------------------------------------------------
(* _collector_tick.                                                        *)

MutCollectorTick ==
    /\ TickStarts /\ "health" \notin busy
    /\ IF row.status = "STOP_REQUESTED" /\ ~row.healthy THEN stopEvent' = TRUE /\ UNCHANGED busy
       ELSE busy' = busy \cup {"health"} /\ UNCHANGED stopEvent
    /\ UNCHANGED <<row, tables, phase, loop, studied, quotes, mem, cli, counters>>
CollectorTick ==
    /\ TickStarts /\ "health" \notin busy
    /\ IF row.status = "STOP_REQUESTED" THEN stopEvent' = TRUE /\ UNCHANGED busy
       ELSE busy' = busy \cup {"health"} /\ UNCHANGED stopEvent
    /\ UNCHANGED <<row, tables, phase, loop, studied, quotes, mem, cli, counters>>

HealthReturns(healthy) ==
    /\ Running /\ "health" \in busy
    /\ Replace(Health(healthy), "market") /\ busy' = busy \ {"health"}
    /\ UNCHANGED <<row, tables, phase, stopEvent, studied, quotes, mem, cli, counters>>

\* record_market_event keeps the last event of a venue for good; the thread's
\* own time is left out, no tick reads anything between.
PollMarket(events) ==
    /\ phase = "running" /\ loop.at = "market"
    /\ loop' = Free /\ quotes' = IF row.healthy THEN quotes \cup events ELSE quotes
    /\ UNCHANGED <<row, tables, phase, stopEvent, busy, studied, mem, cli, counters>>

--------------------------------------------------------------------------------
(* _snapshot_tick.  Nothing is read before the thread, so its start is not *)
(* a step; it may return after the stop event.                             *)

SnapshotReturns ==
    /\ Running /\ snapshots < MaxSnapshots
    /\ snapshots' = snapshots + 1
    /\ Replace(BindSnapshot(snapshots'), IF snapshots' \in Ineligible THEN "skip" ELSE "free")
    /\ UNCHANGED <<row, tables, phase, process, cli, faults, starts, stops>>

SkipIneligible ==
    /\ phase = "running" /\ loop.at = "skip"
    /\ Replace([research |-> "SKIPPED"], "free")
    /\ UNCHANGED <<row, tables, phase, process, cli, counters>>

SnapshotFailed ==
    /\ Running /\ faults < MaxFaults
    /\ Replace([paused |-> TRUE], "free") /\ faults' = faults + 1
    /\ UNCHANGED <<row, tables, phase, process, cli, snapshots, starts, stops>>

--------------------------------------------------------------------------------
(* _research_tick: the snapshot is read before the thread, its result      *)
(* recorded after it.                                                      *)

Evaluated(s) == elig.snap = s

MutResearchDue ==
    /\ row.snapshot # 0 /\ row.research # "SKIPPED"
    /\ elig.snap = 0
ResearchDue ==
    /\ row.snapshot # 0 /\ row.research # "SKIPPED"
    /\ ~Evaluated(row.snapshot)

ResearchTick ==
    /\ TickStarts /\ busy \cap {"research", "notify"} = {} /\ ResearchDue
    /\ studied' = row.snapshot /\ busy' = busy \cup {"research"}
    /\ UNCHANGED <<row, tables, phase, loop, stopEvent, quotes, mem, cli, counters>>

\* refresh_eligibility under the snapshot that was studied.
MutRefreshEligibility(valid) == elig' = [snap |-> row.snapshot, valid |-> valid]
RefreshEligibility(valid) == elig' = [snap |-> studied, valid |-> valid]

ResearchReturns ==
    /\ Running /\ "research" \in busy
    /\ RefreshEligibility(studied \in Passing)
    /\ Replace([research |-> "COMPLETED"], "free") /\ busy' = busy \ {"research"}
    /\ UNCHANGED <<row, signals, orders, fills, position, ledger, phase,
                   stopEvent, studied, quotes, mem, cli, counters>>

\* The thread raised: FAILED, then the notifier is awaited.
ResearchRaises ==
    /\ Running /\ "research" \in busy /\ faults < MaxFaults
    /\ Replace([research |-> "FAILED"], "free")
    /\ busy' = (busy \ {"research"}) \cup {"notify"} /\ faults' = faults + 1
    /\ UNCHANGED <<row, tables, phase, stopEvent, studied, quotes, mem, cli, snapshots, starts, stops>>

\* No outcomes: FAILED, and a first record that says there is no evidence.
ResearchGivesUp ==
    /\ Running /\ "notify" \in busy
    /\ busy' = busy \ {"notify"}
    /\ IF row.research # "FAILED" THEN Replace([research |-> "FAILED"], "unavailable")
       ELSE loop' = [at |-> "unavailable"]
    /\ UNCHANGED <<row, tables, phase, stopEvent, studied, quotes, mem, cli, counters>>

RecordUnavailable ==
    /\ phase = "running" /\ loop.at = "unavailable"
    /\ loop' = Free
    /\ IF elig.snap = 0 THEN RefreshEligibility(FALSE) ELSE UNCHANGED elig
    /\ UNCHANGED <<row, signals, orders, fills, position, ledger, phase, process, cli, counters>>

\* The end of eligibility_ttl_seconds.
Expire ==
    /\ elig.valid /\ elig' = [elig EXCEPT !.valid = FALSE]
    /\ UNCHANGED <<row, signals, orders, fills, position, ledger, phase, loop, process, cli, counters>>

--------------------------------------------------------------------------------
(* _signal_tick.                                                           *)

\* The first check that fails; sound: every event passes its own.
Rejection(sound) ==
    IF ~row.healthy \/ row.paused THEN "paused"
    ELSE IF row.snapshot = 0 THEN "no_current_snapshot"
    ELSE IF elig.snap = 0 THEN "missing_strategy_eligibility"
    ELSE IF elig.snap # row.snapshot THEN "eligibility_snapshot_mismatch"
    ELSE IF ~elig.valid THEN "eligibility_expired"
    ELSE IF quotes # Legs THEN "missing_cross_venue_leg"
    ELSE IF ~sound THEN "source_event"
    ELSE "none"

AddSignal == signals' = Append(signals, elig.snap)

\* A rejected signal is stored too, for the report alone.
GenerateSignal(sound) ==
    IF Rejection(sound) = "none" THEN AddSignal ELSE UNCHANGED signals

SignalTick(sound) ==
    /\ TickStarts /\ Len(signals) < MaxSignals /\ GenerateSignal(sound)
    /\ UNCHANGED <<row, elig, orders, fills, position, ledger, phase, loop, process, cli, counters>>

--------------------------------------------------------------------------------
(* _paper_execution_tick and execute_signal.  `state` is the portfolio as  *)
(* it was before the first leg, for both legs.                             *)

Submitted == {o[1] : o \in orders}
Pending == DOMAIN signals \ Submitted

Exec(s, leg, step, cash) ==
    [at |-> "execute", sig |-> s, leg |-> leg, step |-> step, cash |-> cash]
Proceed == loop' = IF loop.leg = 1 THEN Exec(loop.sig, 2, "order", loop.cash) ELSE Free

ExecuteSignal(s) ==
    /\ TickStarts /\ s \in Pending /\ elig.valid /\ ~mem.halted
    /\ loop' = Exec(s, 1, "order", mem.cash)
    /\ UNCHANGED <<row, tables, phase, process, cli, counters>>

At(step) == loop.at = "execute" /\ loop.step = step
Order == <<loop.sig, loop.leg>>

\* Orders, fills and cash entries are keyed; a position is a sum.
SaveOrder == orders' = orders \cup {Order}
SaveFill == fills' = fills \cup {Order}
SavePosition == position' = [position EXCEPT ![loop.leg] = @ + 1]
AddCashEntry(of, amount, balance) ==
    ledger' = IF \E e \in Range(ledger) : e.of = of THEN ledger
              ELSE Append(ledger, [of |-> of, amount |-> amount, balance |-> balance])

\* No quote: a rejected order ends the signal; a filled first leg is only reported.
LegUnavailable ==
    /\ At("order") /\ loop.leg \notin quotes
    /\ SaveOrder /\ loop' = Free
    /\ UNCHANGED <<row, elig, signals, fills, position, ledger, phase, process, cli, counters>>

\* A quote without the price of that side: no order for the leg.
LegUnpriced ==
    /\ At("order") /\ loop.leg \in quotes /\ Proceed
    /\ UNCHANGED <<row, tables, phase, process, cli, counters>>

\* A limit refuses it, or the book has no depth for it.
LegNotFilled ==
    /\ At("order") /\ loop.leg \in quotes
    /\ SaveOrder /\ Proceed
    /\ UNCHANGED <<row, elig, signals, fills, position, ledger, phase, process, cli, counters>>

LegOrder ==
    /\ At("order") /\ loop.leg \in quotes
    /\ SaveOrder /\ loop' = [loop EXCEPT !.step = "fill"]
    /\ UNCHANGED <<row, elig, signals, fills, position, ledger, phase, process, cli, counters>>

LegFill ==
    /\ At("fill")
    /\ SaveFill /\ loop' = [loop EXCEPT !.step = "position"]
    /\ UNCHANGED <<row, elig, signals, orders, position, ledger, phase, process, cli, counters>>

LegPosition ==
    /\ At("position")
    /\ SavePosition /\ loop' = [loop EXCEPT !.step = "cash"]
    /\ UNCHANGED <<row, elig, signals, orders, fills, ledger, phase, process, cli, counters>>

\* _evaluate_portfolio_risk: the peak and the start of the day are the capital, fees only lower it.
Assess(cash) == [cash |-> cash, halted |-> Capital - cash >= LossLimit]

LegCash ==
    /\ At("cash")
    /\ LET cash == loop.cash - Fee[loop.leg]
       IN /\ AddCashEntry(Order, 0 - Fee[loop.leg], cash)
          /\ mem' = Assess(cash)
    /\ Proceed
    /\ UNCHANGED <<row, elig, signals, orders, fills, position, phase, stopEvent, busy, studied, quotes, cli, counters>>

--------------------------------------------------------------------------------
(* _risk_tick.                                                             *)

RiskTick ==
    /\ TickStarts /\ Assess(mem.cash).halted
    /\ mem' = [mem EXCEPT !.halted = TRUE]
    /\ UNCHANGED <<row, elig, signals, orders, fills, position, ledger, phase, loop,
                   stopEvent, busy, studied, quotes, cli, counters>>

--------------------------------------------------------------------------------
(* The end of the run.                                                     *)

\* request_stop, by the timer or, after the collector task has ended, behind
\* set_collector_health(False).
TimerFires ==
    /\ TickStarts /\ Replace([status |-> "STOP_REQUESTED"], "stop")
    /\ UNCHANGED <<row, tables, phase, process, cli, counters>>

CollectorEnds ==
    /\ TickStarts /\ Replace(Health(FALSE), "request_stop")
    /\ UNCHANGED <<row, tables, phase, process, cli, counters>>

RequestStop ==
    /\ phase = "running" /\ loop.at = "request_stop"
    /\ Replace([status |-> "STOP_REQUESTED"], "stop")
    /\ UNCHANGED <<row, tables, phase, process, cli, counters>>

SetStopEvent ==
    /\ phase = "running" /\ loop.at = "stop" /\ stopEvent' = TRUE /\ loop' = Free
    /\ UNCHANGED <<row, tables, phase, busy, studied, quotes, mem, cli, counters>>

\* Every worker has left its loop.
WorkersDone ==
    /\ Running /\ stopEvent /\ busy = {}
    /\ Replace([status |-> "STOPPED"], "exit")
    /\ UNCHANGED <<row, tables, phase, process, cli, counters>>

\* A tick raises, before what it would write next: the group cancels the others.
TickFails ==
    /\ phase = "running" /\ loop.at \in {"free", "execute"} /\ faults < MaxFaults
    /\ Replace([status |-> "FAILED"], "exit") /\ busy' = {} /\ faults' = faults + 1
    /\ UNCHANGED <<row, tables, phase, stopEvent, studied, quotes, mem, cli, snapshots, starts, stops>>

Gone == phase' = "down" /\ loop' = Free /\ stopEvent' = FALSE /\ busy' = {} /\ studied' = 0 /\ quotes' = {}
        /\ mem' = [cash |-> Capital, halted |-> FALSE]

Exit ==
    /\ loop.at = "exit" /\ Gone
    /\ UNCHANGED <<row, tables, cli, counters>>

Crash ==
    /\ phase # "down" /\ faults < MaxFaults /\ faults' = faults + 1 /\ Gone
    /\ UNCHANGED <<row, tables, cli, snapshots, starts, stops>>

\* stop-paper-operation, another process: reads the row, then writes it whole.
StopReads ==
    /\ cli = NoRow /\ stops < MaxStops /\ row # NoRow
    /\ row.status \in {"RUNNING", "STARTING"}
    /\ cli' = [row EXCEPT !.status = "STOP_REQUESTED"] /\ stops' = stops + 1
    /\ UNCHANGED <<row, tables, phase, loop, process, snapshots, faults, starts>>

StopWrites ==
    /\ cli # NoRow /\ row' = cli /\ cli' = NoRow
    /\ UNCHANGED <<tables, phase, loop, process, counters>>

--------------------------------------------------------------------------------

Init ==
    /\ row = NoRow /\ elig = [snap |-> 0, valid |-> FALSE] /\ signals = <<>>
    /\ orders = {} /\ fills = {} /\ position = [l \in Legs |-> 0] /\ ledger = <<>>
    /\ phase = "down" /\ loop = Free
    /\ stopEvent = FALSE /\ busy = {} /\ studied = 0 /\ quotes = {}
    /\ mem = [cash |-> Capital, halted |-> FALSE]
    /\ snapshots = 0 /\ cli = NoRow /\ faults = 0 /\ starts = 0 /\ stops = 0

Start == RestoreOrInitialize \/ Announce \/ Run
Collector == CollectorTick \/ (\E h \in BOOLEAN : HealthReturns(h))
             \/ (\E events \in Deliveries : PollMarket(events))
Snapshot == SnapshotReturns \/ SkipIneligible \/ SnapshotFailed
Research == ResearchTick \/ ResearchReturns \/ ResearchRaises \/ ResearchGivesUp \/ RecordUnavailable
Execution == (\E s \in 1..MaxSignals : ExecuteSignal(s)) \/ LegUnavailable \/ LegUnpriced
             \/ LegNotFilled \/ LegOrder \/ LegFill \/ LegPosition \/ LegCash
Stop == TimerFires \/ CollectorEnds \/ RequestStop \/ SetStopEvent \/ WorkersDone \/ Exit

Next ==
    \/ Start \/ SaveRun \/ Collector \/ Snapshot \/ Research \/ Execution \/ Stop
    \/ (\E sound \in BOOLEAN : SignalTick(sound)) \/ Expire \/ RiskTick
    \/ TickFails \/ Crash \/ StopReads \/ StopWrites

Spec == Init /\ [][Next]_vars

\* The loop runs some ready section, a worker being rescheduled after its
\* interval and a thread returning; the collector and the research worker, tasks
\* the loop serves in turn, get their turn as often as they ask for it.
Loop == SaveRun \/ Announce \/ Run \/ SkipIneligible
        \/ RecordUnavailable \/ LegUnavailable \/ LegUnpriced \/ LegNotFilled \/ LegOrder \/ LegFill
        \/ LegPosition \/ LegCash \/ RequestStop \/ SetStopEvent \/ WorkersDone \/ Exit
Researcher == ResearchTick \/ ResearchReturns \/ ResearchGivesUp
FairSpec == Spec /\ WF_vars(Loop) /\ SF_vars(Collector) /\ SF_vars(Researcher)

--------------------------------------------------------------------------------
(* Properties.                                                             *)

(* TradesBacked: what makes the strategy tradable is research of the very  *)
(* snapshot it names, although another snapshot may be bound while the     *)
(* research thread works (_research_tick), and every eligible signal stands*)
(* on such a snapshot (_signal_rejection).  A signal then moves a position *)
(* at most once per leg, whatever crashes and restarts come between its    *)
(* order, its fill, its position and its cash entry: positions are sums and*)
(* fills are keyed, so a repeated execution would leave more position than *)
(* fills (_paper_execution_tick).                                          *)
TradesBacked ==
    /\ elig.valid => elig.snap \in Passing
    /\ Range(signals) \subseteq Passing
    /\ \A l \in Legs : position[l] <= Cardinality({f \in fills : f[2] = l})
    /\ fills \subseteq orders

(* StopHonoured: a stop request that reached the row of a running service  *)
(* ends it: no later read-and-write of the row loses it (_collector_tick,  *)
(* set_collector_health, bind_snapshot, _research_tick).                   *)
StopHonoured == (Running /\ row.status = "STOP_REQUESTED") ~> (phase = "down")

(* The bound snapshot is evaluated at last, unless it is marked as skipped *)
(* or the service stops, even when it was bound while an older one was     *)
(* being studied (_research_tick).                                         *)
SnapshotsResearched ==
    (Running /\ row.snapshot # 0)
        ~> (elig.snap = row.snapshot \/ row.research = "SKIPPED" \/ stopEvent \/ phase = "down")
=============================================================================
