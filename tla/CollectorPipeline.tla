--------------------------- MODULE CollectorPipeline ---------------------------
(***************************************************************************)
(* One research collector process and its database                         *)
(* (services/research/data_operations.py, services/research/repository.py):*)
(* a REST polling worker and a WebSocket worker feed a bounded queue, one  *)
(* consumer turns every envelope into a handful of transactions (raw row,  *)
(* quarantine, gap record, checkpoint), and other processes finalize       *)
(* snapshots and purge payloads meanwhile.                                 *)
(*                                                                         *)
(* Inside the process only awaits interleave, so what an envelope leads to *)
(* is decided at once (Plan) and written one transaction at a time: a      *)
(* crash, a database error or another process falls between two writes.    *)
(* An event is a record of what the decisions read; rows are events.  The  *)
(* venue numbers book updates 1, 2, ... and each names its predecessor.    *)
(* Metrics, timestamps and formatting are left out; the control streams    *)
(* have checkpoints of their own that nothing reads.                       *)
(***************************************************************************)
EXTENDS Integers, SequencesExt, FiniteSetsExt

CONSTANTS
    Modes,         \* what is collected: "rest", or books of a kind, or "both" (REST, deltas)
    Verdicts,      \* answers of the capability gate: TRUE is LIVE_VERIFIED
    BadItems,      \* REST items with an impossible timestamp
    MinimumEvents, \* minimum_production_events of the eligibility policy
    FinalizeModes, \* bound: the modes in which a snapshot is taken
    MaxQueue,      \* maxsize of the queue
    MaxSeq, MaxConn, MaxItem, MaxFetch, MaxFaults  \* bounds

ASSUME PipelineAssumption ==
    /\ Modes \subseteq {"rest", "delta", "snapshot", "unreconciled", "both"}
    /\ Verdicts \subseteq BOOLEAN /\ FinalizeModes \subseteq Modes
    /\ BadItems \subseteq 1 .. MaxItem
    /\ MaxQueue \in Nat \ {0}
    /\ {MinimumEvents, MaxSeq, MaxConn, MaxItem, MaxFetch, MaxFaults} \subseteq Nat

VARIABLES
    mode,                \* event_types of the collector and semantics of the book stream
    raw, experimental,   \* event rows, production and experimental
    quarantine,          \* event ids
    payloads,            \* stored REST responses, by number
    cp,                  \* the checkpoint of the book stream
    restCp,              \* last_funding_at of the REST stream, 0 for None
    snapshots,           \* finalized manifests
    queue, unfinished,   \* asyncio.Queue and its count of unfinished tasks
    consumer,            \* idle, busy, dead, ended
    todo, current,       \* the writes left of the envelope being persisted
    run,                 \* down, gather, join, close, final, done
    shutdown,
    rest, restOut,       \* the REST worker: poll, wait, done, and what it has to put
    ws, wsOut,           \* the WebSocket worker: wait, idle, stream, done
    conn, epoch, fresh,  \* its connection, and no event of it reported yet
    head, items, fetched,\* external: book updates and items published, responses served
    finalizer,           \* the reads of DataSnapshotService.finalize
    faults,
    judged, torn,        \* history: rows judged broken, envelopes cut short
    staleBase            \* history: the epoch was read past unprocessed book events

db == <<raw, experimental, quarantine, payloads, cp, restCp>>
consuming == <<consumer, todo, current>>
queueing == <<queue, unfinished>>
workers == <<rest, restOut, ws, wsOut, conn, epoch, fresh, staleBase>>
venue == <<head, items, fetched>>
history == <<judged, torn>>
pipeVars == <<mode, db, snapshots, finalizer, consuming, queueing, run, shutdown,
          workers, venue, faults, history>>

(* An event; only a stream of deltas carries sequence numbers.             *)
Sequence(n) == IF mode \in {"delta", "both"} THEN n ELSE 0
Blank == [kind |-> "none", conn |-> 0, epoch |-> 0, seq |-> 0, item |-> 0, fetch |-> 0]
Book(c, e, n) ==
    [Blank EXCEPT !.kind = "book", !.conn = c, !.epoch = e, !.item = n, !.seq = Sequence(n)]
Gone(c, e) == [Blank EXCEPT !.kind = "gone", !.conn = c, !.epoch = e]
Item(i, f) == [Blank EXCEPT !.kind = "rest", !.item = i, !.fetch = f]
Control(kind) == [Blank EXCEPT !.kind = kind]
Gap(e) == [e EXCEPT !.kind = "gap"]
Sentinel == Blank

NoCheckpoint == [conn |-> 0, epoch |-> 0, seq |-> 0, recovery |-> FALSE, event |-> Blank]

(* canonical_market_event_identity: an item is known by its effective time, *)
(* a book event by everything in it.                                       *)
Identity(e) == [e EXCEPT !.fetch = 0]

(* canonical_market_event_content leaves the receipt out; payload_sha256   *)
(* does not: the normalized payload holds received_at.                     *)
Content(e) == [e EXCEPT !.fetch = 0]
PayloadHash(e) == e

Stored(rows, e) == \E r \in rows : Identity(r) = Identity(e)

Synchronized == mode # "unreconciled"

-----------------------------------------------------------------------------
(* What persist() decides.                                                 *)
OldEpoch(e) ==
    /\ e.kind = "book" /\ cp # NoCheckpoint
    /\ e.epoch < cp.epoch \/ (e.epoch = cp.epoch /\ e.conn # cp.conn)

SequenceGap(e) ==
    mode \in {"delta", "both"} /\ e.kind = "book" /\ cp.seq # 0 /\ e.seq - 1 # cp.seq

InvalidReason(e) == e.kind = "rest" /\ e.item \in BadItems

Write(op, e) == [op |-> op, event |-> e, recovery |-> FALSE]
Checkpoint(e, recovery) == [op |-> "checkpoint", event |-> e, recovery |-> recovery]

MutPersistGap(e) ==  \* mutant: the quarantine is skipped
    <<Write("raw", e), Checkpoint(e, TRUE)>>

PersistGap(e) ==
    <<Write("raw", e), Write("quarantine", e), Write("raw", Gap(e)), Checkpoint(e, TRUE)>>

(* A recovery is complete when the reconciler has synchronized again.      *)
RecoveryCompleted == Synchronized

PersistBook(e) ==
    LET recovered == cp.recovery /\ RecoveryCompleted
    IN  IF ~recovered /\ SequenceGap(e) THEN PersistGap(e)
        ELSE IF (cp.recovery /\ ~recovered) \/ ~Synchronized
             THEN <<Write("raw", e), Write("quarantine", e), Checkpoint(e, TRUE)>>
             ELSE <<Write("raw", e), Checkpoint(e, FALSE)>>

(* The path of an event whose capability is not verified.                  *)
MutPersistExperimental(e) ==  \* mutant: an unverified event only moves the checkpoint
    <<Checkpoint(e, FALSE)>>

PersistExperimental(e) ==
    LET known == {r \in experimental : Identity(r) = Identity(e)}
        gap == SequenceGap(e)
        required == gap \/ (e.kind = "book" /\ (~Synchronized \/ (cp.recovery /\ ~RecoveryCompleted)))
    IN  IF \E r \in known : Content(r) # Content(e) THEN <<Write("quarantine", e)>>
        ELSE (IF known = {} THEN <<Write("experimental", e)>> ELSE <<>>)
                \o <<Checkpoint(e, required)>>

MutPersistProduction(e) ==  \* mutant: the checkpoint is written before the row
    IF e.kind = "rest" THEN <<Checkpoint(e, FALSE), Write("raw", e)>> ELSE <<Write("raw", e)>>

PersistProduction(e) ==
    CASE Stored(raw, e) ->
            IF \E r \in raw : Identity(r) = Identity(e) /\ PayloadHash(r) # PayloadHash(e)
            THEN <<Write("quarantine", e)>> ELSE <<>>
      [] ~Stored(raw, e) /\ InvalidReason(e) -> <<Write("raw", e), Write("quarantine", e)>>
      [] ~Stored(raw, e) /\ ~InvalidReason(e) /\ e.kind = "book" -> PersistBook(e)
      [] ~Stored(raw, e) /\ ~InvalidReason(e) /\ e.kind = "gone" ->
            <<Write("raw", e), Checkpoint(e, TRUE)>>
      [] ~Stored(raw, e) /\ ~InvalidReason(e) /\ e.kind = "rest" ->
            <<Write("raw", e), Checkpoint(e, FALSE)>>
      [] OTHER -> <<Write("raw", e)>>

(* Control events count as verified.  Only the responses of the REST       *)
(* stream are followed: a book's frame belongs to one row.                 *)
Plan(e, verified) ==
    (IF e.kind = "rest" THEN <<Write("payload", e)>> ELSE <<>>) \o
    (IF OldEpoch(e) THEN <<Write("quarantine", e)>>
     ELSE IF ~verified /\ e.kind \in {"book", "rest"} THEN PersistExperimental(e)
     ELSE PersistProduction(e))

(* CheckpointWriter.write reads the previous checkpoint and keeps what the *)
(* event does not bring.                                                   *)
NewCheckpoint(e, recovery) ==
    [conn |-> e.conn, epoch |-> Max({e.epoch, cp.epoch}),
     seq |-> IF e.seq # 0 THEN e.seq ELSE cp.seq,
     recovery |-> recovery, event |-> Identity(e)]

SaveCheckpoint(w) ==
    IF w.event.kind = "rest"
    THEN restCp' = Max({w.event.item, restCp}) /\ UNCHANGED cp
    ELSE cp' = NewCheckpoint(w.event, w.recovery) /\ UNCHANGED restCp

(* The repository: one transaction each; a row that exists stays.          *)
AddRawEvent(e) == raw' = IF Stored(raw, e) THEN raw ELSE raw \cup {e}
AddExperimentalEvent(e) == experimental' = experimental \cup {e}
Quarantine(e) == quarantine' = quarantine \cup {Identity(e)}
SaveRawPayload(e) == payloads' = payloads \cup {e.fetch}

Apply(w) ==
    CASE w.op = "raw" -> AddRawEvent(w.event) /\ UNCHANGED <<experimental, quarantine, payloads, cp, restCp>>
      [] w.op = "experimental" ->
            AddExperimentalEvent(w.event) /\ UNCHANGED <<raw, quarantine, payloads, cp, restCp>>
      [] w.op = "quarantine" -> Quarantine(w.event) /\ UNCHANGED <<raw, experimental, payloads, cp, restCp>>
      [] w.op = "payload" -> SaveRawPayload(w.event) /\ UNCHANGED <<raw, experimental, quarantine, cp, restCp>>
      [] w.op = "checkpoint" -> SaveCheckpoint(w) /\ UNCHANGED <<raw, experimental, quarantine, payloads>>

-----------------------------------------------------------------------------
PipeInit ==
    /\ mode \in Modes
    /\ raw = {} /\ experimental = {} /\ quarantine = {} /\ payloads = {}
    /\ cp = NoCheckpoint /\ restCp = 0
    /\ snapshots = {} /\ finalizer = [step |-> "idle", quarantine |-> {}, source |-> {}]
    /\ queue = <<>> /\ unfinished = 0
    /\ consumer = "idle" /\ todo = <<>> /\ current = Blank
    /\ run = "down" /\ shutdown = FALSE
    /\ rest = "done" /\ restOut = <<>> /\ ws = "done" /\ wsOut = <<>>
    /\ conn = 0 /\ epoch = 0 /\ fresh = FALSE
    /\ head = 0 /\ items = 1 /\ fetched = 0
    /\ faults = 0 /\ judged = {} /\ torn = {} /\ staleBase = FALSE

(* run(): the health envelope goes first, then the workers are started.    *)
StartWorkers ==
    /\ run = "down" /\ ~shutdown
    /\ run' = "gather"
    /\ queue' = <<Control("health")>> /\ unfinished' = 1
    /\ consumer' = "idle" /\ todo' = <<>> /\ current' = Blank
    /\ rest' = (IF mode \in {"rest", "both"} THEN "poll" ELSE "done") /\ restOut' = <<>>
    /\ ws' = (CASE mode = "rest" -> "done" [] mode = "both" -> "wait" [] OTHER -> "idle") /\ wsOut' = <<>>
    /\ fresh' = FALSE
    /\ UNCHANGED <<mode, db, snapshots, finalizer, shutdown, conn, epoch, venue,
                   faults, history, staleBase>>

-----------------------------------------------------------------------------
(* The workers.                                                            *)
Running == run \notin {"down", "done"}
Alive == run = "gather"

(* output.put: waits while the queue is full.                              *)
Put(e) ==
    /\ Len(queue) < MaxQueue
    /\ queue' = Append(queue, e) /\ unfinished' = unfinished + 1

RestPut ==
    /\ Alive /\ restOut # <<>>
    /\ Put(Head(restOut)) /\ restOut' = Tail(restOut)
    /\ UNCHANGED <<mode, db, snapshots, finalizer, consuming, run, shutdown, rest, ws,
                   wsOut, conn, epoch, fresh, venue, faults, history, staleBase>>

WsPut ==
    /\ Alive /\ wsOut # <<>>
    /\ Put(Head(wsOut)) /\ wsOut' = Tail(wsOut)
    /\ UNCHANGED <<mode, db, snapshots, finalizer, consuming, run, shutdown, rest, ws,
                   restOut, conn, epoch, fresh, venue, faults, history, staleBase>>

(* _rest_events: everything since the checkpoint, its own item included,   *)
(* out of one response; or nothing; or a failure, which is recorded.       *)
Answer == [i \in 1 .. (items + 1 - Max({restCp, 1})) |-> Item(Max({restCp, 1}) + i - 1, fetched + 1)]

RestPoll ==
    /\ Alive /\ rest = "poll" /\ rest' = "wait"
    /\ \/ fetched < MaxFetch /\ fetched' = fetched + 1 /\ restOut' = Answer /\ UNCHANGED faults
       \/ faults < MaxFaults /\ faults' = faults + 1 /\ UNCHANGED <<restOut, fetched>>
       \/ UNCHANGED <<restOut, fetched, faults>>
    /\ UNCHANGED <<mode, db, snapshots, finalizer, consuming, queueing, run, shutdown, ws,
                   wsOut, conn, epoch, fresh, head, items, history, staleBase>>

MutRestWait ==  \* mutant: the shutdown flag is not read between two polls
    /\ Alive /\ rest = "wait" /\ restOut = <<>>
    /\ rest' = "poll" /\ ws' = IF ws = "wait" THEN "idle" ELSE ws
    /\ UNCHANGED <<mode, db, snapshots, finalizer, consuming, queueing, run, shutdown,
                   restOut, wsOut, conn, epoch, fresh, venue, faults, history, staleBase>>

(* The end of a cycle; the first one lets the WebSocket worker start.  The *)
(* worker's first look at the shutdown flag falls into StartWorkers: its   *)
(* task runs before the supervisor's next turn.                            *)
RestWait ==
    /\ Alive /\ rest = "wait" /\ restOut = <<>>
    /\ rest' = (IF shutdown THEN "done" ELSE "poll") /\ ws' = IF ws = "wait" THEN "idle" ELSE ws
    /\ UNCHANGED <<mode, db, snapshots, finalizer, consuming, queueing, run, shutdown,
                   restOut, wsOut, conn, epoch, fresh, venue, faults, history, staleBase>>

BookEvents(s) == {i \in DOMAIN s : s[i].kind \in {"book", "gone"}}

(* The epoch continues the checkpoint as it is read now.                   *)
WsConnect ==
    /\ Alive /\ ws = "idle" /\ wsOut = <<>> /\ ~shutdown /\ conn < MaxConn
    /\ ws' = "stream" /\ conn' = conn + 1 /\ epoch' = cp.epoch + 1 /\ fresh' = TRUE
    /\ staleBase' = (BookEvents(queue) # {} \/ current.kind \in {"book", "gone"})
    /\ UNCHANGED <<mode, db, snapshots, finalizer, consuming, queueing, run, shutdown,
                   rest, restOut, wsOut, venue, faults, history>>

Connected == IF fresh THEN <<Control("health")>> ELSE <<>>

(* (Bound: without numbers a loss is not seen, and one update less is sent.)*)
Delivered(n) ==
    /\ n > head /\ head' = n
    /\ Sequence(n) = 0 => n = head + 1 /\ n < MaxSeq

(* A book from the adapter, perhaps after losses it has recovered from.    *)
WsEvent(n) ==
    /\ Alive /\ ws = "stream" /\ wsOut = <<>> /\ ~shutdown
    /\ Delivered(n)
    /\ wsOut' = <<Book(conn, epoch, n)>> \o Connected
    /\ fresh' = FALSE
    /\ UNCHANGED <<mode, db, snapshots, finalizer, consuming, queueing, run, shutdown, rest,
                   restOut, ws, conn, epoch, items, fetched, faults, history, staleBase>>

(* The adapter reconnects by itself; the lifecycle event is drained when   *)
(* the next value arrives, and goes first.                                 *)
WsReconnect(n) ==
    /\ Alive /\ ws = "stream" /\ wsOut = <<>> /\ ~shutdown /\ conn < MaxConn
    /\ Delivered(n)
    /\ conn' = conn + 1 /\ epoch' = epoch + 1 /\ fresh' = FALSE
    /\ wsOut' = <<Gone(conn, epoch)>> \o Connected \o <<Book(conn + 1, epoch + 1, n)>>
    /\ UNCHANGED <<mode, db, snapshots, finalizer, consuming, queueing, run, shutdown, rest,
                   restOut, ws, items, fetched, faults, history, staleBase>>

(* The adapter gives up (a stale stream, or too many reconnects): the      *)
(* failure is recorded and a control event put.                            *)
WsFails ==
    /\ Alive /\ ws = "stream" /\ wsOut = <<>>
    /\ ws' = "idle"
    /\ \E kind \in {"stale", "wsdown"} : wsOut' = <<Control(kind)>>
    /\ UNCHANGED <<mode, db, snapshots, finalizer, consuming, queueing, run, shutdown, rest,
                   restOut, conn, epoch, fresh, venue, faults, history, staleBase>>

(* Between two streams, or at a value that arrives after the shutdown.     *)
WsStops ==
    /\ Alive /\ ws \in {"idle", "stream"} /\ wsOut = <<>> /\ shutdown
    /\ ws' = "done"
    /\ UNCHANGED <<mode, db, snapshots, finalizer, consuming, queueing, run, shutdown, rest,
                   restOut, wsOut, conn, epoch, fresh, venue, faults, history, staleBase>>

-----------------------------------------------------------------------------
(* The consumer.                                                           *)
(* What must not become a member of a snapshot.                            *)
Unfit(e) ==
    \/ InvalidReason(e)
    \/ e.kind = "book" /\ (~Synchronized \/ (SequenceGap(e) /\ ~cp.recovery))

Take ==
    /\ Running /\ consumer = "idle" /\ queue # <<>>
    /\ queue' = Tail(queue)
    /\ IF Head(queue) = Sentinel
       THEN /\ consumer' = "ended" /\ unfinished' = unfinished - 1
            /\ UNCHANGED <<todo, current, judged>>
       ELSE /\ consumer' = "busy" /\ current' = Head(queue)
            /\ \E v \in Verdicts : todo' = Plan(Head(queue), v)
            /\ judged' = IF Unfit(Head(queue)) THEN judged \cup {Identity(Head(queue))} ELSE judged
            /\ UNCHANGED unfinished
    /\ UNCHANGED <<mode, db, snapshots, finalizer, run, shutdown, workers, venue, faults, torn>>

Persist ==
    /\ consumer = "busy" /\ todo # <<>>
    /\ Apply(Head(todo)) /\ todo' = Tail(todo)
    /\ UNCHANGED <<mode, snapshots, finalizer, consumer, current, queueing, run, shutdown,
                   workers, venue, faults, history>>

TaskDone ==
    /\ todo' = <<>> /\ current' = Blank /\ unfinished' = unfinished - 1

Persisted ==
    /\ consumer = "busy" /\ todo = <<>>
    /\ TaskDone /\ consumer' = "idle"
    /\ UNCHANGED <<mode, db, snapshots, finalizer, queue, run, shutdown, workers, venue,
                   faults, history>>

(* A transaction fails: the failure is recorded and the envelope dropped,  *)
(* or recording it fails as well and the consumer task ends.               *)
PersistFails ==
    /\ consumer = "busy" /\ todo # <<>> /\ faults < MaxFaults
    /\ faults' = faults + 1 /\ torn' = torn \cup {Identity(current)}
    /\ TaskDone /\ consumer' \in {"idle", "dead"}
    /\ UNCHANGED <<mode, db, snapshots, finalizer, queue, run, shutdown, workers, venue,
                   judged>>

-----------------------------------------------------------------------------
(* The end of run().                                                       *)
Shutdown ==
    /\ Running /\ ~shutdown /\ shutdown' = TRUE
    /\ UNCHANGED <<mode, db, snapshots, finalizer, consuming, queueing, run, workers, venue,
                   faults, history>>

Gathered ==
    /\ run = "gather" /\ rest = "done" /\ ws = "done"
    /\ run' = "join"
    /\ UNCHANGED <<mode, db, snapshots, finalizer, consuming, queueing, shutdown, workers,
                   venue, faults, history>>

Close ==
    /\ run' = "close" /\ shutdown' = TRUE
    /\ rest' = "done" /\ ws' = "done" /\ restOut' = <<>> /\ wsOut' = <<>>
    /\ UNCHANGED <<mode, db, snapshots, finalizer, consuming, queueing, conn, epoch, fresh,
                   staleBase, venue, history>>

(* queue.join() returns.                                                   *)
QueueJoined == run = "join" /\ unfinished = 0 /\ Close /\ UNCHANGED faults

(* A worker whose failure could not be recorded raises out of gather(): the*)
(* other is cancelled and the queue is not waited for.                     *)
WorkerRaises ==
    /\ run = "gather" /\ faults < MaxFaults /\ faults' = faults + 1
    /\ ws = "stream" \/ rest = "poll"
    /\ Close

PutSentinel ==
    /\ run = "close" /\ run' = "final"
    /\ Put(Sentinel)
    /\ UNCHANGED <<mode, db, snapshots, finalizer, consuming, shutdown, workers, venue,
                   faults, history>>

Ended ==
    /\ run = "final" /\ consumer \in {"ended", "dead"}
    /\ run' = "done"
    /\ UNCHANGED <<mode, db, snapshots, finalizer, consuming, queueing, shutdown, workers,
                   venue, faults, history>>

(* The process dies; what is committed stays, and it is started again.     *)
ProcessDies ==
    /\ Running /\ faults < MaxFaults /\ faults' = faults + 1
    /\ run' = "down" /\ shutdown' = FALSE
    /\ torn' = IF consumer = "busy" THEN torn \cup {Identity(current)} ELSE torn
    /\ queue' = <<>> /\ unfinished' = 0
    /\ consumer' = "idle" /\ todo' = <<>> /\ current' = Blank
    /\ rest' = "done" /\ restOut' = <<>> /\ ws' = "done" /\ wsOut' = <<>> /\ fresh' = FALSE
    /\ UNCHANGED <<mode, db, snapshots, finalizer, conn, epoch, staleBase, venue, judged>>

(* External: a new item.                                                   *)
Publish ==
    /\ mode \in {"rest", "both"} /\ items < MaxItem /\ items' = items + 1
    /\ UNCHANGED <<mode, db, snapshots, finalizer, consuming, queueing, run, shutdown,
                   workers, head, fetched, faults, history>>

-----------------------------------------------------------------------------
(* DataSnapshotService and ResearchRetentionService, in other processes.   *)
(* The quarantine is read first, the events in a second transaction.       *)
FinalizeReadsQuarantine ==
    /\ finalizer.step = "idle" /\ snapshots = {} /\ mode \in FinalizeModes
    /\ finalizer' = [step |-> "quarantine", quarantine |-> quarantine, source |-> {}]
    /\ UNCHANGED <<mode, db, snapshots, consuming, queueing, run, shutdown, workers, venue,
                   faults, history>>

FinalizeReadsEvents ==
    /\ finalizer.step = "quarantine"
    /\ finalizer' = [finalizer EXCEPT !.step = "events", !.source = raw]
    /\ UNCHANGED <<mode, db, snapshots, consuming, queueing, run, shutdown, workers, venue,
                   faults, history>>

UnsynchronizedBooks(rows) == {e \in rows : e.kind = "book" /\ ~Synchronized}
Members(rows, bad) == {e \in rows \ UnsynchronizedBooks(rows) : Identity(e) \notin bad}
Market(rows) == {e \in rows : e.kind \in {"book", "rest"}}

(* With a handful of events one gap or stale record is above any ratio.    *)
Eligible(members, source) ==
    /\ Cardinality(Market(members)) >= MinimumEvents
    /\ UnsynchronizedBooks(source) = {}
    /\ ~\E e \in source : e.kind \in {"gap", "stale"}

FinalizeCommits ==
    /\ finalizer.step = "events"
    /\ LET members == Members(finalizer.source, finalizer.quarantine)
       IN  snapshots' = snapshots \cup {[members |-> members,
                eligible |-> Eligible(members, finalizer.source),
                sources |-> {e.fetch : e \in members} \cap payloads]}
    /\ finalizer' = [step |-> "idle", quarantine |-> {}, source |-> {}]
    /\ UNCHANGED <<mode, db, consuming, queueing, run, shutdown, workers, venue, faults, history>>

(* Payloads some snapshot member was read from.                            *)
Protected == UNION {{e.fetch : e \in s.members} : s \in snapshots}

Purge(cutoff) ==
    /\ payloads' = {p \in payloads : p >= cutoff \/ p \in Protected}
    /\ payloads' # payloads
    /\ UNCHANGED <<mode, raw, experimental, quarantine, cp, restCp, snapshots, finalizer,
                   consuming, queueing, run, shutdown, workers, venue, faults, history>>

(* Nothing more happens, or the process hangs for want of a consumer.      *)
Finished == (run = "done" \/ consumer = "dead") /\ UNCHANGED pipeVars

PipeNext ==
    \/ StartWorkers \/ RestPut \/ WsPut \/ RestPoll \/ RestWait
    \/ WsConnect \/ (\E n \in head + 1 .. MaxSeq : WsEvent(n) \/ WsReconnect(n))
    \/ WsFails \/ WsStops
    \/ Take \/ Persist \/ Persisted \/ PersistFails
    \/ Shutdown \/ Gathered \/ QueueJoined \/ WorkerRaises \/ PutSentinel \/ Ended \/ ProcessDies \/ Publish
    \/ FinalizeReadsQuarantine \/ FinalizeReadsEvents \/ FinalizeCommits
    \/ \E cutoff \in 1 .. MaxFetch + 1 : Purge(cutoff)
    \/ Finished

PipeSpec == PipeInit /\ [][PipeNext]_pipeVars

(* The event loop runs every task that is ready (put() and get() wake one  *)
(* up as soon as the queue allows); a stream brings a value or its stale   *)
(* timeout fires; a poll is answered or fails.                             *)
PipeFairness ==
    /\ WF_pipeVars(RestPut \/ RestPoll \/ RestWait)
    /\ WF_pipeVars(WsPut \/ WsStops)
    /\ WF_pipeVars(Take \/ Persist \/ Persisted)
    /\ WF_pipeVars(Gathered \/ QueueJoined \/ PutSentinel \/ Ended)

PipeFairSpec == PipeSpec /\ PipeFairness

-----------------------------------------------------------------------------
Ids(rows) == {Identity(e) : e \in rows}

(* ReferencesHold: whatever crashes, fails or is purged between two        *)
(* transactions, a checkpoint never speaks of an event that has no row     *)
(* (write order of persist), so a restart that resumes from it loses       *)
(* nothing, and a purge never takes a response that a finalized snapshot   *)
(* was backed by when it was committed.                                    *)
ReferencesHold ==
    /\ cp.event # Blank => cp.event \in Ids(raw \cup experimental)
    /\ restCp # 0 => \E e \in raw \cup experimental : e.kind = "rest" /\ e.item = restCp
    /\ \A s \in snapshots : s.sources \subseteq payloads

(* QuarantineExact: a row judged broken (gap, unsynchronized, impossible   *)
(* timestamp) is in quarantine once its envelope is done; only an envelope *)
(* cut short by a crash or a database error escapes.  And an event of the  *)
(* newest connection is refused as belonging to an old one only if the     *)
(* worker read its base epoch from a checkpoint that unprocessed events of *)
(* an earlier connection were still to move.                               *)
QuarantineExact ==
    /\ Ids(raw) \cap judged \subseteq quarantine \cup torn \cup {Identity(current)}
    /\ \A e \in quarantine :
          e.kind = "book" /\ e.conn = conn /\ e \notin raw => staleBase

(* DurableTrace: an envelope the consumer finishes without an error has    *)
(* left a row: production, experimental or quarantine.                     *)
DurableTrace ==
    [][consumer = "busy" /\ consumer' = "idle" /\ faults' = faults
        => Identity(current) \in Ids(raw \cup experimental) \cup quarantine]_pipeVars

(* StopEnds: after shutdown() the collector drains its queue and run()     *)
(* returns, unless the consumer task died because a failure could not be   *)
(* recorded: then nobody empties the queue again.                          *)
StopEnds == shutdown /\ Running ~> ~Running \/ consumer = "dead"

=============================================================================
