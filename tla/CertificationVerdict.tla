------------------------ MODULE CertificationVerdict ------------------------
(***************************************************************************)
(* What MarketDataCertificationService.certify decides about a sample of   *)
(* one capability (services/research/certification.py): the events of the  *)
(* window are normalised, measured and judged PASS, FAIL or               *)
(* INSUFFICIENT_EVIDENCE.  The module is pure: Certification uses Judge,  *)
(* and Reference says independently what a verdict has to mean.            *)
(*                                                                         *)
(* Three capabilities stand for the three kinds of timestamp the service   *)
(* tells apart: trade (REALTIME_EVENT), funding_current (RECEIPT_ONLY) and *)
(* funding_history (FUNDING_EFFECTIVE_TIME, a historical one).             *)
(***************************************************************************)
EXTENDS Integers, Sequences, FiniteSets, FiniteSetsExt

CONSTANTS
    Window,      \* length of the collection window, in hours; it starts at 0
    Interval,    \* funding interval the contract spec declares
    MinSkewed    \* minimum_clock_skew_sample_count

ASSUME WindowAssumption == Window \in Nat \ {0} /\ Interval \in Nat \ {0}
ASSUME SkewAssumption == MinSkewed \in Nat \ {0}

(***************************************************************************)
(* An event: id; recv, when it was received; xts, its exchange timestamp;  *)
(* seq and tid, the venue's sequence and the trade id as a number; named,  *)
(* that it has a trade id at all; epoch, the connection; gap,              *)
(* funding_interval_seconds of the payload; skew, whether a server time    *)
(* came with it and how far off it is; final, that a settlement is no      *)
(* prediction; ok, that the event passes _validate_events.  NONE is a      *)
(* missing number.  A sample s is the capability's events, the             *)
(* funding_current events, whether the contract validates, the cross-      *)
(* source comparison and the audit binding.                                *)
(***************************************************************************)
NONE == -1

RawEvents ==
    [id : Nat, recv : Int, xts : Nat \cup {NONE}, seq : Nat \cup {NONE}, tid : Nat \cup {NONE},
     named : BOOLEAN, epoch : Nat, gap : (Nat \ {0}) \cup {NONE},
     skew : {"unknown", "near", "far"}, final : BOOLEAN, ok : BOOLEAN]

SampleRecords ==
    [events : Seq(RawEvents), current : Seq(RawEvents), contract : BOOLEAN,
     cross : {"close", "apart", "missing"}, audit : {"bound", "anonymous", "none"}]

Historical(c) == c = "funding_history"

(***************************************************************************)
(* Sorting and filtering, said by position: an element stands behind as    *)
(* many as come before it.                                                 *)
(***************************************************************************)
Ranked(S, R) ==
    [n \in 1..Cardinality(S) |->
        CHOOSE x \in S : Cardinality({y \in S : <<y, x>> \in R}) = n - 1]

Earlier(a, b) == a[1] < b[1] \/ (a[1] = b[1] /\ a[2] < b[2])

\* The events at the places S, sorted by a key of two numbers.
Arranged(events, S, key) ==
    LET sorted == Ranked(S, {p \in S \X S : Earlier(key[p[1]], key[p[2]])})
    IN  [n \in 1..Cardinality(S) |-> events[sorted[n]]]

\* The events received in the window.
Selected(events) ==
    LET S == {i \in DOMAIN events : events[i].recv \in 0..Window}
    IN  Arranged(events, S, [i \in S |-> <<i, 0>>])

\* normalize_certification_events: a live sample is taken as it is; of a
\* historical one the first event of every id is kept, by exchange time (or
\* time of receipt) and id.
Firsts(events) ==
    {i \in DOMAIN events : \A j \in 1..(i - 1) : events[j].id # events[i].id}

TimeOf(x) == IF x.xts = NONE THEN x.recv ELSE x.xts

Normalized(c, events) ==
    IF ~Historical(c) THEN events
    ELSE Arranged(events, Firsts(events),
                  [i \in Firsts(events) |-> <<TimeOf(events[i]), events[i].id>>])

MutOutOfOrder(prev, cur) ==
    /\ cur.seq # NONE
    /\ cur.seq < prev.seq

\* live_trade_out_of_order_count: neighbours of one connection are compared by
\* sequence, else by trade id, else by time; equal times are never out of order.
OutOfOrder(prev, cur) ==
    /\ ~(prev.xts # NONE /\ cur.xts = prev.xts)
    /\ IF prev.seq # NONE /\ cur.seq # NONE THEN cur.seq < prev.seq
       ELSE IF prev.tid # NONE /\ cur.tid # NONE THEN cur.tid < prev.tid
       ELSE prev.xts # NONE /\ cur.xts # NONE /\ cur.xts < prev.xts

Epochs(events) == {events[i].epoch : i \in DOMAIN events}

\* One connection's events, as they were received.
Stream(events, e) ==
    LET S == {i \in DOMAIN events : events[i].epoch = e}
    IN  Arranged(events, S, [i \in S |-> <<events[i].recv, i>>])

LiveOutOfOrder(events) ==
    \E e \in Epochs(events) : \E i \in 1..(Len(Stream(events, e)) - 1) :
        OutOfOrder(Stream(events, e)[i], Stream(events, e)[i + 1])

\* The interval the spec is replaced with: the latest funding event's own.
ObservedInterval(events) ==
    IF events = <<>> \/ events[Len(events)].gap = NONE THEN Interval
    ELSE events[Len(events)].gap

\* analyze_funding_intervals: between two finalized settlements lie one whole
\* interval, several (windows are missing), or something else (a mismatch).
\* Of several settlements of one time the first counts.  The 300 seconds of
\* tolerance vanish in the unit of an hour.
Finalized(events) == {i \in DOMAIN events : events[i].final /\ events[i].xts # NONE}
Moments(events) == {events[i].xts : i \in Finalized(events)}

GapAt(events, t) == events[Min({i \in Finalized(events) : events[i].xts = t})].gap

Pair(events, interval, t, u) ==
    LET Or(a, b) == IF a = NONE THEN b ELSE a
        expected == Or(GapAt(events, u), Or(GapAt(events, t), interval))
        actual   == u - t
        missing  == actual % expected = 0 /\ actual \div expected > 1
    IN  IF missing THEN "missing" ELSE IF actual = expected THEN "whole" ELSE "mismatch"

FundingTimes(events) ==
    Ranked(Moments(events), {p \in Moments(events) \X Moments(events) : p[1] < p[2]})

FundingGaps(events, interval) ==
    LET times == FundingTimes(events)
    IN  [pairs |-> {Pair(events, interval, times[i], times[i + 1]) : i \in 1..(Len(times) - 1)},
         windows |-> Len(times)]

(***************************************************************************)
(* What certify measures of the normalised sample, and how it judges it.   *)
(***************************************************************************)
Count(norm, P(_)) == Cardinality({i \in DOMAIN norm : P(norm[i])})

Expected(c, interval) == IF c = "trade" THEN 2 ELSE Window \div interval + 1

\* event_timing_metrics: an event received more than two intervals before the
\* window's end is stale; a historical capability has no clock skew.
Stale(c, norm, interval) ==
    IF c = "trade" THEN 0
    ELSE Count(norm, LAMBDA x : Window - x.recv > 2 * interval)

KnownSkew(c, norm) ==
    IF Historical(c) THEN 0 ELSE Count(norm, LAMBDA x : x.skew # "unknown")

FarSkew(norm) == Count(norm, LAMBDA x : x.skew = "far")

\* _validate_events: fields, units, identity, availability of every event.
Broken(norm) == \E i \in DOMAIN norm : ~norm[i].ok

\* validate_funding_current: every event states the interval of the spec.
OffSchedule(c, norm, interval) ==
    c = "funding_current" /\ \E i \in DOMAIN norm : norm[i].gap # interval

\* validate_certification_reason_invariants: an "interval mismatch" reason with
\* no funding-interval analysis behind it raises instead of a verdict.
ReasonsRaise(c, norm, interval) ==
    /\ OffSchedule(c, norm, interval)
    /\ \E i \in DOMAIN norm : norm[i].gap # NONE /\ norm[i].gap # interval

Judge(c, s) ==
    LET events == Selected(s.events)
        norm   == Normalized(c, events)
        spec   == IF c = "trade" THEN Interval ELSE ObservedInterval(s.current)
        gaps   == FundingGaps(norm, spec)
        known  == KnownSkew(c, norm)
        failures ==
            \/ ~s.contract
            \/ Broken(norm)
            \/ ~Historical(c) /\ known >= MinSkewed /\ FarSkew(norm) * 20 > known
            \/ c = "trade" /\ LiveOutOfOrder(norm)
            \/ c = "funding_current" /\ s.cross = "apart"
            \/ OffSchedule(c, norm, spec)
            \/ c = "funding_history" /\ "mismatch" \in gaps.pairs
        insufficient ==
            \/ norm = <<>>
            \/ c = "funding_current" /\ s.cross = "missing"
            \/ Len(norm) * 5 < Expected(c, spec) * 4
            \/ Stale(c, norm, spec) * 20 > Len(norm)
            \/ known < MinSkewed
            \/ c = "trade" /\ \E i \in DOMAIN norm : ~norm[i].named
            \/ c = "funding_history" /\ (gaps.windows < 2 \/ "missing" \in gaps.pairs)
    IN  [verdict |-> IF failures THEN "FAIL"
                     ELSE IF insufficient THEN "INSUFFICIENT_EVIDENCE" ELSE "PASS",
         raises  |-> ReasonsRaise(c, norm, spec),
         live    |-> norm # <<>> /\ ~Broken(norm) /\ ~Historical(c),
         audit   |-> s.audit]

(***************************************************************************)
(* What a verdict has to mean, said without the algorithm.                 *)
(***************************************************************************)

\* One connection's trades, as they were received, are in order under the best
\* key all of them carry, when no two carry one exchange time.
Carried(g) == \A i \in DOMAIN g : g[i] # NONE
Lacking(g) == \A i \in DOMAIN g : g[i] = NONE
Ascending(g) == \A i, j \in DOMAIN g : i < j => g[i] <= g[j]

StreamOrdered(stream) ==
    LET seqs == [i \in DOMAIN stream |-> stream[i].seq]
        tids == [i \in DOMAIN stream |-> stream[i].tid]
        xtss == [i \in DOMAIN stream |-> stream[i].xts]
    IN  (\A i, j \in DOMAIN stream : xtss[i] = xtss[j] => i = j) =>
            /\ Carried(seqs) => Ascending(seqs)
            /\ Lacking(seqs) /\ Carried(tids) => Ascending(tids)
            /\ Lacking(seqs) /\ Lacking(tids) /\ Carried(xtss) => Ascending(xtss)

\* A PASS is about a sample that is there, valid and ordered.
PassMeans(c, events, contract) ==
    /\ events # <<>> /\ contract /\ \A i \in DOMAIN events : events[i].ok
    /\ c = "trade" => \A e \in Epochs(events) : StreamOrdered(Stream(events, e))
    /\ c = "funding_current" =>
          \A i, k \in DOMAIN events : events[i].gap = events[k].gap

\* Repetitions of an event agree on what the intervals are computed from.
Agree(events) ==
    \A i, k \in DOMAIN events : events[i].id = events[k].id =>
        events[i].xts = events[k].xts /\ events[i].final = events[k].final

\* A valid history with the interval of the contract fails exactly when some
\* settlement is off the grid that the first one starts.
OffGrid(events) ==
    \E t \in Moments(events) : (t - Min(Moments(events))) % Interval # 0

Reference(c, s, j) ==
    LET events == Selected(s.events)
    IN  /\ j.verdict = "PASS" => PassMeans(c, events, s.contract)
        /\ c = "funding_history" /\ s.contract /\ s.current = <<>> /\ Agree(events)
             /\ (\A i \in DOMAIN events : events[i].ok /\ events[i].gap = NONE)
           => (j.verdict = "FAIL" <=> OffGrid(events))
=============================================================================
