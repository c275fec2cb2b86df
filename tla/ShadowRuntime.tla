----------------------------- MODULE ShadowRuntime -----------------------------
(***************************************************************************)
(* A funding-carry shadow run: the incremental reader of experimental      *)
(* events (services/operations/shadow_runtime.py) with its durable cursors *)
(* and checkpoint (services/research/repository.py), the two workers of    *)
(* the service that consume it (services/operations/service.py), the       *)
(* evaluator (domain/strategies/funding_carry.py), the candidate table     *)
(* (services/operations/repository.py) and the artifacts the run leaves    *)
(* (services/operations/shadow_artifacts.py).  One instrument: each has    *)
(* its own reader, cursors and checkpoint.                                 *)
(*                                                                         *)
(* A row is its position in the log of its stream: (available_at,          *)
(* event_id) order is insertion order, a stream having one producer, and   *)
(* the order between streams is left out, no stream's events touch the     *)
(* state of another.  A book is the row of its snapshot and the rows of    *)
(* the updates applied to it; an event keeps its venue timestamp and       *)
(* whether its payload is well formed.  Prices, counters that nothing      *)
(* reads and formatting are left out.                                      *)
(***************************************************************************)
EXTENDS Integers, SequencesExt, FiniteSetsExt

CONSTANTS
    Seed,            \* the logs as collected before the first refresh
    Quota,           \* batch_size // 4: events per stream and refresh
    FundingAge, FundingSkew, BookAge, BookSkew, MaxFuture,  \* seconds
    RollbackQueryMayFail,  \* the database may also refuse the query of the rollback
    MaxRow,          \* bound: rows per stream
    MaxTime, MaxFaults, MaxSpoiled, MaxCandidates

Streams == {"hf", "hb", "bf", "bb"}    \* venue x (funding_current, orderbook_snapshot)
Venues == {"hyperliquid", "bitget"}
Row == [snapshot : BOOLEAN, ok : BOOLEAN, epoch : Nat, seq : Nat, prev : Nat, ts : Nat]

ASSUME ShadowAssumption ==
    /\ Seed \in [Streams -> Seq(Row)]
    /\ \A j, k \in DOMAIN Seed["bb"] : j < k => Seed["bb"][j].seq < Seed["bb"][k].seq
    /\ Quota \in Nat \ {0} /\ MaxRow \in [Streams -> Nat]
    /\ {FundingAge, FundingSkew, BookAge, BookSkew, MaxFuture} \subseteq Nat
    /\ {MaxTime, MaxFaults, MaxSpoiled, MaxCandidates} \subseteq Nat /\ RollbackQueryMayFail \in BOOLEAN

VARIABLES
    rows,        \* experimental_market_events of the instrument
    now,
    mem,         \* the state of FundingCarryShadowInstrumentRuntime
    saved,       \* shadow_input_cursors and shadow_input_checkpoints
    collector,   \* the collector worker: idle, read
    pending,     \* what the read returned to the event loop
    batch,       \* _shadow_input_batches of the instrument
    candidates,  \* funding_carry_shadow_candidates
    phase,       \* run, down, then the steps of finalize
    disk,        \* the artifact directory
    faults,
    spoiled      \* rows of the feed that are malformed or do not follow

reader == <<mem, saved>>
service == <<collector, pending, batch, candidates>>
vars == <<rows, now, reader, service, phase, disk, faults, spoiled>>

--------------------------------------------------------------------------------
(* CanonicalOrderBookStateBuilder.                                         *)

NoBook == [snap |-> 0, ids |-> {}, ts |-> 0]
NoState == [status |-> "uninitialized", epoch |-> 0, seq |-> 0, snap |-> 0, ids |-> {}, ts |-> 0]

\* _canonical: a well formed book whose timestamp is neither future nor stale
Canonical(r, t) == r.ok /\ r.ts <= t + MaxFuture /\ t - r.ts <= BookAge

\* connection_epoch differs: the state is dropped
Reset(b, r) == IF b.status # "uninitialized" /\ b.epoch # r.epoch THEN NoState ELSE b

FromSnapshot(k, t) ==
    LET r == rows["bb"][k]
    IN  [status |-> IF Canonical(r, t) THEN "valid" ELSE "invalid", epoch |-> r.epoch,
         seq |-> r.seq, snap |-> k, ids |-> {}, ts |-> r.ts]

MutHasGap(b, r) == FALSE
HasGap(b, r) == r.prev # b.seq

Applied(b, k, t) ==
    LET r == rows["bb"][k]
    IN  [b EXCEPT !.ids = @ \cup {k}, !.seq = r.seq, !.ts = r.ts,
                  !.status = IF Canonical(r, t) THEN "valid" ELSE "invalid"]

\* what the state becomes, and whether a canonical snapshot is returned
ApplyBitget(b0, k, t) ==
    LET r == rows["bb"][k]
        b == Reset(b0, r)
        result(c, returned) == [state |-> c, returned |-> returned]
    IN  IF r.snapshot THEN result(FromSnapshot(k, t), Canonical(r, t))
        ELSE IF b.status # "valid" \/ r.seq <= b.seq THEN result(b, FALSE)
        ELSE IF HasGap(b, r) THEN result([b EXCEPT !.status = "invalid"], FALSE)
        ELSE result(Applied(b, k, t), Canonical(r, t))

--------------------------------------------------------------------------------
(* FundingCarryShadowInstrumentRuntime.                                    *)

FundingOf(v) == IF v = "hyperliquid" THEN "hf" ELSE "bf"

NoPair == [funding |-> [v \in Venues |-> 0], snap |-> [v \in Venues |-> 0], updates |-> {}]
Fresh ==
    [cursor |-> [s \in Streams |-> 0],
     funding |-> [v \in Venues |-> 0], book |-> [v \in Venues |-> NoBook],
     builder |-> NoState,
     reason |-> FALSE,    \* last_invalid_reason is set; it is never cleared
     pair |-> NoPair,         \* _last_pair_identity
     processed |-> 0]

NoBatch == [funding |-> [v \in Venues |-> 0], book |-> [v \in Venues |-> NoBook],
            matched |-> FALSE, duplicate |-> FALSE, known |-> FALSE]

\* list_experimental_events_after: the next Quota rows of each stream
MutReach(m, s) ==
    Max({k \in m.cursor[s] .. Min({m.cursor[s] + Quota, Len(rows[s])}) :
            \A j \in m.cursor[s] + 1 .. k : rows[s][j].ok})
Reach(m, s) == Min({m.cursor[s] + Quota, Len(rows[s])})
Fetched(m, s) == m.cursor[s] + 1 .. Reach(m, s)

Total(f) == MapThenSumSet(LAMBDA s : f[s], Streams)
FetchedCount(m) == Total([s \in Streams |-> Cardinality(Fetched(m, s))])

\* _funding: the rate and its interval are there and finite, or there is no rate
Funding(s, k) == IF k # 0 /\ rows[s][k].ok THEN k ELSE 0
ProcessFunding(m, v) == Funding(FundingOf(v), Reach(m, FundingOf(v)))

StandaloneSnapshot(k) == [snap |-> k, ids |-> {}, ts |-> rows["hb"][k].ts]
BookInput(b) == [snap |-> b.snap, ids |-> b.ids, ts |-> b.ts]

\* an event of the batch replaces the book; without one the book stays
ProcessHyperliquidBook(m, t) ==
    LET k == Reach(m, "hb")
    IN  IF k = m.cursor["hb"] THEN m.book["hyperliquid"]
        ELSE IF Canonical(rows["hb"][k], t) THEN StandaloneSnapshot(k)
        ELSE NoBook

\* every reason the builder records makes the latest book go
ProcessBitgetBook(m, k, t) ==
    LET a == ApplyBitget(m.builder, k, t)
        outOfOrder == ~a.returned /\ a.state = m.builder /\ a.state.status = "valid"
        reason == m.reason \/ (~a.returned /\ ~outOfOrder)
        book == IF a.returned THEN BookInput(a.state) ELSE IF reason THEN NoBook ELSE m.book["bitget"]
    IN  [m EXCEPT !.builder = a.state, !.reason = reason, !.book["bitget"] = book]

ProcessBitgetBooks(m, t) ==
    LET first == m.cursor["bb"]
        state[k \in first .. Reach(m, "bb")] ==
            IF k = first THEN m ELSE ProcessBitgetBook(state[k - 1], k, t)
    IN  state[Reach(m, "bb")]

\* the loop of read() over one batch; of a funding rate or a Hyperliquid book only the last
\* event counts
ProcessAll(m, t) ==
    LET bitget == ProcessBitgetBooks(m, t)
    IN  [bitget EXCEPT !.funding = [v \in Venues |-> ProcessFunding(m, v)],
                       !.book["hyperliquid"] = ProcessHyperliquidBook(m, t),
                       !.processed = @ + FetchedCount(m)]

AdvanceCursors(m, before) ==
    [m EXCEPT !.cursor = [s \in Streams |-> Reach(before, s)]]

Consumed(m, t) == AdvanceCursors(ProcessAll(m, t), m)

Missing(m) == \E v \in Venues : m.funding[v] = 0 \/ m.book[v] = NoBook

Abs(i) == IF i < 0 THEN -i ELSE i
FundingTs(m, v) == rows[FundingOf(v)][m.funding[v]].ts

InFuture(m, t) == \E v \in Venues : FundingTs(m, v) > t + MaxFuture \/ m.book[v].ts > t + MaxFuture

\* _timing_metrics
FundingSpread(m) == Abs(FundingTs(m, "hyperliquid") - FundingTs(m, "bitget"))
BookSpread(m) == Abs(m.book["hyperliquid"].ts - m.book["bitget"].ts)

TimingRejection(m, t) ==
    \/ \E v \in Venues : t - FundingTs(m, v) > FundingAge \/ t - m.book[v].ts > BookAge
    \/ FundingSpread(m) > FundingSkew \/ BookSpread(m) > BookSkew

SourceIds(m) == [funding |-> m.funding, snap |-> [v \in Venues |-> m.book[v].snap],
                 updates |-> m.book["bitget"].ids]

Evaluate(m, t) ==
    LET matched == ~Missing(m) /\ ~InFuture(m, t) /\ ~TimingRejection(m, t)
        ids == SourceIds(m)
    IN  [result |-> [funding |-> m.funding, book |-> m.book, matched |-> matched,
                     duplicate |-> matched /\ ids = m.pair, known |-> TRUE],
         state |-> IF matched THEN [m EXCEPT !.pair = ids] ELSE m]

Unseen(m, s) == m.cursor[s] < Len(rows[s])

\* the checkpoint leaves out the identities of the applied updates ...
ExportState(b) == [b EXCEPT !.ids = {}]
Exported(m) == [m EXCEPT !.builder = ExportState(@), !.book["bitget"].ids = {}]

\* ... and list_experimental_event_ids_between finds them again
DeltaIdentities(m) ==
    {k \in m.builder.snap + 1 .. m.cursor["bb"] : ~rows["bb"][k].snapshot}

RecoveryBoundary(m) == m.builder.status # "uninitialized"
RestoreDeltaIdentities(m) ==
    IF ~RecoveryBoundary(m) THEN m
    ELSE [m EXCEPT !.builder.ids = DeltaIdentities(m),
                   !.book["bitget"].ids = IF m.book["bitget"] = NoBook THEN {}
                                          ELSE DeltaIdentities(m)]

MutRolledBack(m) == [RestoreDeltaIdentities(Exported(m)) EXCEPT
                        !.processed = @ + FetchedCount(m)]
RolledBack(m) == RestoreDeltaIdentities(Exported(m))

Checkpoint(m) == [known |-> TRUE, state |-> Exported(m)]
RestoreCheckpoint(c) == RestoreDeltaIdentities(c.state)

\* the rollback when its query fails too: the identities stay empty, and the counter,
\* restored after the query, keeps the events of the failed batch
BrokenRollback(m) == [Exported(m) EXCEPT !.processed = @ + FetchedCount(m)]

--------------------------------------------------------------------------------
Init ==
    /\ rows = Seed /\ now = 0
    /\ mem = Fresh /\ saved = [known |-> FALSE, state |-> Fresh]
    /\ collector = "idle" /\ pending = NoBatch /\ batch = NoBatch /\ candidates = {}
    /\ phase = "run" /\ faults = 0 /\ spoiled = 0
    /\ disk = [manifest |-> "none", sha |-> "none", marker |-> FALSE, lifecycle |-> {"WORKLOAD"}]

\* a row out of the ordinary counts against the bound
Insert(s, r, odd) ==
    /\ phase \in {"run", "down"} /\ Len(rows[s]) < MaxRow[s]
    /\ spoiled' = spoiled + (IF odd \/ ~r.ok THEN 1 ELSE 0) /\ spoiled' <= MaxSpoiled
    /\ rows' = [rows EXCEPT ![s] = Append(@, r)]

\* external: the collector stores a funding rate or a Hyperliquid book
CollectSingle ==
    /\ \E s \in {"hf", "hb", "bf"}, ok \in BOOLEAN :
          Insert(s, [snapshot |-> s = "hb", ok |-> ok, epoch |-> 0, seq |-> 0, prev |-> 0,
                     ts |-> now], FALSE)
    /\ UNCHANGED <<now, reader, service, phase, disk, faults>>

LastBook == IF rows["bb"] = <<>> THEN [epoch |-> 1, seq |-> 0] ELSE Last(rows["bb"])

\* external: it stores a snapshot of the Bitget stream, of a new connection or not
CollectSnapshot ==
    /\ \E e \in {LastBook.epoch, LastBook.epoch + 1}, ok \in BOOLEAN :
          Insert("bb", [snapshot |-> TRUE, ok |-> ok, epoch |-> e, seq |-> LastBook.seq + 1,
                        prev |-> LastBook.seq, ts |-> now], e # LastBook.epoch)
    /\ UNCHANGED <<now, reader, service, phase, disk, faults>>

\* external: or an update; after a recovery of the stream, or a reconnection whose
\* snapshot was not stored, it does not follow the row before it
CollectDelta ==
    /\ \E skip \in {0, 1}, e \in {LastBook.epoch, LastBook.epoch + 1}, ok \in BOOLEAN :
          Insert("bb", [snapshot |-> FALSE, ok |-> ok, epoch |-> e,
                        seq |-> LastBook.seq + skip + 1, prev |-> LastBook.seq + skip, ts |-> now],
                 skip = 1 \/ e # LastBook.epoch)
    /\ UNCHANGED <<now, reader, service, phase, disk, faults>>

Tick ==
    /\ now < MaxTime /\ phase = "run"
    /\ now' = now + 1
    /\ UNCHANGED <<rows, reader, service, phase, disk, faults, spoiled>>

--------------------------------------------------------------------------------
(* The collector worker: _collector_tick.                                  *)

\* _collector_health is healthy, or degraded by a stalled reader only; any other health ends
\* the tick with the batch as it is
ReadSucceeds ==
    /\ phase = "run" /\ collector = "idle"
    /\ LET e == Evaluate(Consumed(mem, now), now)
       IN  /\ mem' = e.state /\ saved' = Checkpoint(e.state)
           /\ pending' = e.result
    /\ collector' = "read"
    /\ UNCHANGED <<rows, now, batch, candidates, phase, disk, faults, spoiled>>

\* the commit raises, having taken effect or not; the state is rolled back and the old
\* position committed again, if the database is back by then
ReadFails ==
    /\ phase = "run" /\ collector = "idle" /\ faults < MaxFaults
    /\ faults' = faults + 1
    /\ LET new == Checkpoint(Evaluate(Consumed(mem, now), now).state)
           old == Checkpoint(mem)
       IN  \/ /\ mem' = RolledBack(mem)
              /\ saved' \in {saved, new, old}
           \/ /\ RollbackQueryMayFail
              /\ mem' = BrokenRollback(mem)
              /\ saved' \in {saved, new}
    /\ pending' = NoBatch
    /\ collector' = "read"
    /\ UNCHANGED <<rows, now, batch, candidates, phase, disk, spoiled>>

\* back on the event loop: a failed instrument has no batch
Deliver ==
    /\ phase = "run" /\ collector = "read"
    /\ batch' = pending /\ pending' = NoBatch /\ collector' = "idle"
    /\ UNCHANGED <<rows, now, reader, candidates, phase, disk, faults, spoiled>>

--------------------------------------------------------------------------------
(* The evaluator worker: _signal_tick.                                     *)

\* FundingCarryShadowEvaluator._validate_inputs, at the time of the decision
Validated(b, t) == ~Missing(b) /\ ~InFuture(b, t) /\ ~TimingRejection(b, t)

\* evaluate: what passes the validation is priced and compared with the threshold
Disposition(b, t, edge) == IF Validated(b, t) /\ edge THEN "candidate" ELSE "rejected"

Candidate(b, t, edge) == [ids |-> SourceIds(b), disposition |-> Disposition(b, t, edge),
                          funding |-> b.funding, book |-> b.book, at |-> t]

\* the first record of a set of sources is kept
RecordShadowCandidate(c) ==
    /\ Cardinality(candidates) < MaxCandidates \/ \E d \in candidates : d.ids = c.ids
    /\ candidates' = IF \E d \in candidates : d.ids = c.ids THEN candidates
                     ELSE candidates \cup {c}

SignalTick ==
    /\ phase = "run" /\ batch.known
    /\ \E edge \in BOOLEAN : RecordShadowCandidate(Candidate(batch, now, edge))
    /\ UNCHANGED <<rows, now, reader, collector, pending, batch, phase, disk, faults, spoiled>>

--------------------------------------------------------------------------------
(* The end of the run, and the process dying before it.                    *)

Crash ==
    /\ phase = "run" /\ faults < MaxFaults
    /\ faults' = faults + 1 /\ phase' = "down"
    /\ mem' = Fresh
    /\ collector' = "idle" /\ pending' = NoBatch /\ batch' = NoBatch
    /\ UNCHANGED <<rows, now, saved, candidates, disk, spoiled>>

\* __init__: cursors and checkpoint are restored; the artifact writer refuses a directory that
\* exists, so somebody has moved it away
Restart ==
    /\ phase = "down"
    /\ phase' = "run"
    /\ mem' = IF saved.known THEN RestoreCheckpoint(saved) ELSE Fresh
    /\ UNCHANGED <<rows, now, saved, service, disk, faults, spoiled>>

\* the duration is over: the workers stop at the end of their ticks, finalize begins; what
\* it reads of the reader and the batch are metrics, which are left out
Finish ==
    /\ phase = "run" /\ now = MaxTime /\ collector = "idle"
    /\ phase' = "manifest"
    /\ mem' = Fresh /\ batch' = NoBatch
    /\ UNCHANGED <<rows, now, saved, collector, pending, candidates, disk, faults, spoiled>>

\* _build_payloads: the safety gate counts snapshots, research runs and promotions of the
\* whole database, so it also fails when another process wrote one meanwhile; a workload
\* that raised is finalized with its exit code
WriteManifest ==
    /\ phase = "manifest" /\ phase' = "sha"
    /\ \E outcome \in {"COMPLETED", "GATE_VIOLATION", "FAILED"} :
          disk' = [disk EXCEPT !.manifest = outcome]
    /\ UNCHANGED <<rows, now, reader, service, faults, spoiled>>

WriteSha ==
    /\ phase = "sha" /\ phase' = "lifecycle"
    /\ disk' = [disk EXCEPT !.sha = disk.manifest]
    /\ UNCHANGED <<rows, now, reader, service, faults, spoiled>>

WriteLifecycle ==
    /\ phase = "lifecycle"
    /\ \/ disk.manifest = "COMPLETED" /\ phase' = "marker"
       \/ disk.manifest # "COMPLETED" /\ phase' = "end"
    /\ disk' = [disk EXCEPT !.lifecycle =
                    @ \cup {IF disk.manifest = "COMPLETED" THEN "COMPLETED" ELSE "FAILED"}]
    /\ UNCHANGED <<rows, now, reader, service, faults, spoiled>>

WriteMarker ==
    /\ phase = "marker" /\ phase' = "end"
    /\ disk' = [disk EXCEPT !.marker = TRUE]
    /\ UNCHANGED <<rows, now, reader, service, faults, spoiled>>

\* a write fails; that of the marker may fail in the fsync, with the file in place
WriteFails ==
    /\ phase \in {"manifest", "sha", "lifecycle", "marker"} /\ faults < MaxFaults
    /\ faults' = faults + 1 /\ phase' = "evidence"
    /\ \E placed \in BOOLEAN :
          disk' = [disk EXCEPT !.marker = placed /\ phase = "marker"]
    /\ UNCHANGED <<rows, now, reader, service, spoiled>>

\* _write_failure_evidence: the files of the failure, the manifest, its hash, the marker
MutFailureLifecycle ==
    /\ phase = "evidence" /\ phase' = "failed_manifest"
    /\ UNCHANGED <<rows, now, reader, service, disk, faults, spoiled>>
FailureLifecycle ==
    /\ phase = "evidence" /\ phase' = "failed_manifest"
    /\ disk' = [disk EXCEPT !.lifecycle = @ \cup {"FAILED"}]
    /\ UNCHANGED <<rows, now, reader, service, faults, spoiled>>

FailureManifest ==
    /\ phase = "failed_manifest" /\ phase' = "failed_sha"
    /\ disk' = [disk EXCEPT !.manifest = "FAILED"]
    /\ UNCHANGED <<rows, now, reader, service, faults, spoiled>>

FailureSha ==
    /\ phase = "failed_sha" /\ phase' = "unlink"
    /\ disk' = [disk EXCEPT !.sha = disk.manifest]
    /\ UNCHANGED <<rows, now, reader, service, faults, spoiled>>

Unlink ==
    /\ phase = "unlink" /\ phase' = "end"
    /\ disk' = [disk EXCEPT !.marker = FALSE]
    /\ UNCHANGED <<rows, now, reader, service, faults, spoiled>>

Finalizing == {"manifest", "sha", "lifecycle", "marker", "evidence", "failed_manifest",
               "failed_sha", "unlink"}

\* the process dies while it finalizes: its run_id cannot be used again (mkdir)
Killed ==
    /\ phase \in Finalizing /\ phase' = "killed"
    /\ UNCHANGED <<rows, now, reader, service, disk, faults, spoiled>>

Over == phase \in {"end", "killed"} /\ UNCHANGED vars

Collect == CollectSingle \/ CollectSnapshot \/ CollectDelta
Finalize ==
    \/ WriteManifest \/ WriteSha \/ WriteLifecycle \/ WriteMarker \/ WriteFails
    \/ FailureLifecycle \/ FailureManifest \/ FailureSha \/ Unlink \/ Killed

Next ==
    \/ Collect \/ Tick
    \/ ReadSucceeds \/ ReadFails \/ Deliver
    \/ SignalTick
    \/ Crash \/ Restart \/ Finish
    \/ Finalize \/ Over

Spec == Init /\ [][Next]_vars

\* the collector worker runs again and again: a read ends, well or badly, and is delivered
ReadEnds == phase = "run" /\ collector = "idle" /\ collector' = "read"
Fairness == WF_collector(ReadEnds) /\ WF_vars(Deliver)

FairSpec == Spec /\ Fairness

--------------------------------------------------------------------------------
(* Properties.                                                             *)

Updates(from, to) == {k \in from + 1 .. to : ~rows["bb"][k].snapshot}

Behind(m) == Total(m.cursor)

\* Each event is counted and applied once: the number of processed events is the
\* number of rows behind the cursors, in memory and in the checkpoint, and the
\* identities a book remembers are exactly the updates stored between its snapshot and
\* the cursor, whatever reads failed, were repeated or were interrupted by a crash
\* (read, commit_shadow_input_checkpoint, _restore_delta_identities).
CountsExact ==
    /\ mem.processed = Behind(mem)
    /\ saved.state.processed = Behind(saved.state)
    /\ mem.book["bitget"] # NoBook =>
          /\ mem.book["bitget"].ids = Updates(mem.book["bitget"].snap, mem.cursor["bb"])
          /\ mem.book["bitget"].ids = mem.builder.ids
          /\ mem.book["bitget"].snap = mem.builder.snap

\* An accepted candidate stands on books that existed: every source is well formed, the
\* Bitget updates follow each other from their snapshot on one connection without a gap,
\* and the four inputs were timely when it was accepted, however long the batch had
\* waited for the evaluator (apply_bitget, _validate_inputs).
CandidatesSound ==
    \A c \in candidates :
        c.disposition = "candidate" =>
            /\ \A v \in Venues : LET r == rows[FundingOf(v)][c.funding[v]]
                                  IN  r.ok /\ c.at - r.ts <= FundingAge
            /\ LET r == rows["hb"][c.book["hyperliquid"].snap]
               IN  r.ok /\ c.at - r.ts <= BookAge
            /\ LET sources == c.book["bitget"].ids \cup {c.book["bitget"].snap}
                   book == rows["bb"]
               IN  /\ sources = Min(sources) .. Max(sources) /\ book[Min(sources)].snapshot
                   /\ \A k \in sources : book[k].ok
                   /\ \A k \in sources \ {Min(sources)} : /\ book[k].prev = book[k - 1].seq
                                                         /\ book[k].epoch = book[k - 1].epoch
                   /\ c.at - book[Max(sources)].ts <= BookAge

\* The COMPLETED marker never stands alone: beside it are a COMPLETED manifest and its
\* hash, or the lifecycle file that says the run failed, whichever write failed and
\* wherever the process died (finalize, _write_failure_evidence).
MarkerTruthful ==
    disk.marker => \/ disk.manifest = "COMPLETED" /\ disk.sha = "COMPLETED"
                   \/ "FAILED" \in disk.lifecycle

\* The reader catches up: stored events end up behind the cursors, unless the run ends
\* or dies first, through failed reads and unhealthy ticks, and also after a restart from
\* the checkpoint (read, ScheduledWorker).
Drains == (\E s \in Streams : Unseen(mem, s))
              ~> (phase # "run" \/ \A s \in Streams : ~Unseen(mem, s))
================================================================================
