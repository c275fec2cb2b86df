----------------------------- MODULE OrderBookStream -----------------------------
(***************************************************************************)
(* The public order-book session (adapters/exchanges/websocket.py): one    *)
(* task that takes messages from a queue a reader task fills, a REST       *)
(* snapshot it may wait for, and a venue that loses, repeats and delays.   *)
(*                                                                         *)
(* Updates are numbered 1, 2, ...; a snapshot of number n holds updates    *)
(* 1 .. n, and the book is the sequence of updates applied since nothing.  *)
(* A delta that names its predecessor names the update before it, so both  *)
(* tests of _is_contiguous say k = previous + 1.  The queue stands for the *)
(* wire as well: what the reader has not received yet is its tail.         *)
(* ConnectionState, timestamps and heartbeats are only reported.  Streams  *)
(* without order-book semantics carry no sequence and are left out.        *)
(***************************************************************************)
EXTENDS Integers, SequencesExt, FiniteSetsExt

CONSTANTS
    Modes,          \* the values of `rest' considered
    SnapshotLag,    \* how many updates a snapshot may be behind when it is sent
    MaxBuffered,    \* maximum_buffered_deltas
    CacheSize,      \* duplicate_cache_size
    MaxReconnects,  \* maximum_reconnects_per_minute
    MaxHead,        \* bound on the updates of the venue
    MaxQueue,       \* bound on messages under way
    MaxFaults       \* bound on losses, repetitions and broken connections

ASSUME StreamAssumption ==
    /\ Modes \subseteq BOOLEAN
    /\ {SnapshotLag, MaxHead, MaxQueue, MaxFaults} \subseteq Nat
    /\ {MaxBuffered, CacheSize, MaxReconnects} \subseteq Nat \ {0}

VARIABLES
    rest,        \* snapshots come by REST (rest_snapshot is set) or in the stream
    head,        \* the venue's last update
    faults,
    pc,          \* where messages() is: down, bootstrap, loop, recover, closed
    reader,      \* the reader task runs
    greeted,     \* the venue has sent this connection its snapshot
    queue,       \* message_queue and what is on its way into it
    recon,       \* context.state
    previous,    \* context.previous_sequence, 0 for None
    buffered,    \* context.buffered_deltas
    seen,        \* context.payload_hash_order
    book,        \* what the appliers have built
    reconnects,  \* len(_reconnects)
    closing

venue == <<rest, head, faults>>
context == <<recon, previous, buffered, seen>>
vars == <<venue, pc, reader, greeted, queue, context, book, reconnects, closing>>

Delta(k) == [kind |-> "delta", k |-> k]
Snapshot(k) == [kind |-> "snapshot", k |-> k]
Failure == [kind |-> "error", k |-> 0]

Updates(n) == [i \in 1 .. n |-> i]

Init ==
    /\ rest \in Modes
    /\ head = 1 /\ faults = 0
    /\ pc = "down" /\ reader = FALSE /\ greeted = FALSE /\ queue = <<>>
    /\ recon = "DISCONNECTED" /\ previous = 0 /\ buffered = <<>> /\ seen = <<>>
    /\ book = <<>>
    /\ reconnects = 0 /\ closing = FALSE

-----------------------------------------------------------------------------
(* External: the venue and the network.                                    *)
(* The reader looks at _closing only after it has put a message.           *)
Arrives(m) ==
    /\ reader /\ Len(queue) < MaxQueue
    /\ queue' = Append(queue, m)
    /\ reader' = ~closing

Publish ==
    /\ head < MaxHead
    /\ head' = head + 1
    /\ IF reader THEN Arrives(Delta(head + 1)) ELSE UNCHANGED <<queue, reader>>
    /\ UNCHANGED <<rest, faults, pc, greeted, context, book, reconnects, closing>>

Lose ==
    /\ faults < MaxFaults /\ head < MaxHead /\ reader
    /\ head' = head + 1 /\ faults' = faults + 1
    /\ UNCHANGED <<rest, pc, reader, greeted, queue, context, book, reconnects, closing>>

(* An earlier update is sent again, or late.                               *)
Repeat(k) ==
    /\ faults < MaxFaults /\ faults' = faults + 1
    /\ Arrives(Delta(k))
    /\ UNCHANGED <<rest, head, pc, greeted, context, book, reconnects, closing>>

Snapshots == {n \in 1 .. head : n >= head - SnapshotLag}

(* The snapshot of a new subscription, perhaps after newer deltas.         *)
Greet(n) ==
    /\ ~rest /\ ~greeted /\ greeted' = TRUE
    /\ Arrives(Snapshot(n))
    /\ UNCHANGED <<venue, pc, context, book, reconnects, closing>>

(* The reader ends and leaves its exception in the queue.                  *)
ReaderEnds ==
    /\ reader /\ reader' = FALSE
    /\ queue' = Append(queue, Failure)
    /\ UNCHANGED <<rest, head, pc, greeted, context, book, reconnects, closing>>

ConnectionBreaks == faults < MaxFaults /\ faults' = faults + 1 /\ ReaderEnds

(* Nothing arrived for stale_timeout.  (While a REST call is pending this  *)
(* is a fault: it means the call took longer than the timeout.)            *)
StaleTimeout ==
    /\ pc = "loop" /\ queue = <<>> /\ (rest \/ greeted)
    /\ faults' = faults /\ ReaderEnds

-----------------------------------------------------------------------------
(* Leaving the connection: the except and finally clauses.                 *)
Disconnect ==
    /\ pc' = "down" /\ reader' = FALSE /\ queue' = <<>>
    /\ UNCHANGED <<venue, greeted, reconnects, closing>>

(* Back in the loop, unless close() was called meanwhile.                  *)
Continue ==
    /\ pc' = IF closing THEN "down" ELSE "loop"
    /\ UNCHANGED <<venue, reader, greeted, reconnects, closing>>

(* A fresh context for every connection; the book stays as it was.         *)
FreshContext(state) ==
    /\ recon' = state /\ previous' = 0 /\ buffered' = <<>> /\ seen' = <<>>

Attempt == pc = "down" /\ ~closing /\ reconnects < MaxReconnects /\ reconnects' = reconnects + 1

Connect ==
    /\ Attempt
    /\ FreshContext(IF rest THEN "SNAPSHOT_LOADING" ELSE "WAITING_FOR_SNAPSHOT")
    /\ pc' = IF rest THEN "bootstrap" ELSE "loop"
    /\ reader' = TRUE /\ greeted' = FALSE /\ queue' = <<>>
    /\ UNCHANGED <<venue, book, closing>>

ConnectFails ==
    /\ Attempt
    /\ FreshContext("WAITING_FOR_SNAPSHOT")
    /\ UNCHANGED <<venue, pc, reader, greeted, queue, book, closing>>

MutWindowSlides ==  \* mutant: the window is pruned only once it overflows
    /\ reconnects > MaxReconnects /\ reconnects' = reconnects - 1
    /\ UNCHANGED <<venue, pc, reader, greeted, queue, context, book, closing>>

(* An attempt of more than a minute ago is forgotten.                      *)
WindowSlides ==
    /\ reconnects > 0 /\ reconnects' = reconnects - 1
    /\ UNCHANGED <<venue, pc, reader, greeted, queue, context, book, closing>>

Close ==
    /\ ~closing /\ closing' = TRUE
    /\ UNCHANGED <<venue, pc, reader, greeted, queue, context, book, reconnects>>

End ==
    /\ pc = "down" /\ closing /\ pc' = "closed"
    /\ UNCHANGED <<venue, reader, greeted, queue, context, book, reconnects, closing>>

-----------------------------------------------------------------------------
(* _seen_payload, for a payload that is new: a bounded FIFO.               *)
SeenPayload(s, m) == Append(IF Len(s) >= CacheSize THEN Tail(s) ELSE s, m)

MutFits(n, r) == \A i \in DOMAIN r : r[i] > n  \* mutant: a hole is skipped over

(* The updates r continue a book that holds 1 .. n.                        *)
Fits(n, r) == \A i \in DOMAIN r : r[i] = n + i

(* How many of the updates r are applied before the first that does not.   *)
Fitting(n, r) == Max({p \in 0 .. Len(r) : Fits(n, SubSeq(r, 1, p))})

(* The updates r are replayed on a snapshot n, up to the first that does   *)
(* not fit.                                                                *)
Replay(n, r) ==
    /\ book' = Updates(n) \o SubSeq(r, 1, Fitting(n, r))
    /\ IF Fits(n, r)
       THEN recon' = "SYNCHRONIZED" /\ previous' = n + Len(r) /\ buffered' = <<>>
       ELSE recon' = "DEGRADED" /\ UNCHANGED <<previous, buffered>>

(* _apply_snapshot_and_replay: the updates in b after n, sorted: the i-th  *)
(* is the least that i of them do not exceed.                              *)
AfterSnapshot(b, n) ==
    LET later == {j \in DOMAIN b : b[j] > n}
    IN  [i \in 1 .. Cardinality(later) |->
            Min({b[j] : j \in {l \in later :
                            Cardinality({o \in later : b[o] <= b[l]}) >= i}})]

(* _buffer_delta on what a drain has collected so far.                     *)
Buffer(acc, m) ==
    IF Len(acc.buffered) >= MaxBuffered THEN [acc EXCEPT !.ok = FALSE, !.recon = "DEGRADED"]
    ELSE [acc EXCEPT !.buffered = Append(@, m.k), !.seen = SeenPayload(@, m),
                     !.recon = "BUFFERING_DELTAS"]

(* _bootstrap drains the queue: only deltas may be in it.                  *)
Drain(items) ==
    LET step(acc, m) ==
            CASE ~acc.ok -> acc
              [] acc.ok /\ m.kind # "delta" -> [acc EXCEPT !.ok = FALSE]
              [] acc.ok /\ m.kind = "delta" ->
                    IF Contains(acc.seen, m) THEN acc ELSE Buffer(acc, m)
        after[i \in 0 .. Len(items)] ==
            IF i = 0 THEN [ok |-> TRUE, recon |-> recon, seen |-> seen, buffered |-> buffered]
            ELSE step(after[i - 1], items[i])
    IN  after[Len(items)]

(* The REST snapshot n is here; `received' messages have reached the queue.*)
Bootstrap(n, received) ==
    /\ pc = "bootstrap"
    /\ LET d == Drain(SubSeq(queue, 1, received))
       IN  /\ seen' = d.seen
           /\ \/ /\ d.ok /\ Fits(n, AfterSnapshot(d.buffered, n))
                 /\ Replay(n, AfterSnapshot(d.buffered, n))
                 /\ queue' = SubSeq(queue, received + 1, Len(queue))
                 /\ Continue
              \/ /\ d.ok /\ ~Fits(n, AfterSnapshot(d.buffered, n))
                 /\ Replay(n, AfterSnapshot(d.buffered, n))
                 /\ Disconnect
              \/ /\ ~d.ok
                 /\ recon' = d.recon /\ buffered' = d.buffered /\ UNCHANGED <<previous, book>>
                 /\ Disconnect

(* The rest of _recover, with the snapshot n.                              *)
Recover(n) ==
    /\ pc = "recover"
    /\ Replay(n, AfterSnapshot(buffered, n))
    /\ IF Fits(n, AfterSnapshot(buffered, n)) THEN Continue /\ UNCHANGED queue
       ELSE Disconnect
    /\ UNCHANGED seen

RestFails ==
    /\ pc \in {"bootstrap", "recover"}
    /\ Disconnect
    /\ UNCHANGED <<context, book>>

-----------------------------------------------------------------------------
(* The main loop takes a message m that is no repetition.                  *)
Takes(m) ==
    /\ pc = "loop" /\ queue # <<>> /\ m = Head(queue)
    /\ m.kind # "error" /\ ~Contains(seen, m)
    /\ seen' = SeenPayload(seen, m)

Pop == queue' = Tail(queue)

TakeFailure ==
    /\ pc = "loop" /\ queue # <<>> /\ Head(queue).kind = "error"
    /\ Disconnect
    /\ UNCHANGED <<context, book>>

TakeRepetition ==
    /\ pc = "loop" /\ queue # <<>> /\ Contains(seen, Head(queue))
    /\ Pop /\ Continue
    /\ UNCHANGED <<context, book>>

(* _apply_stream_snapshot, which replays what was buffered, and the end of *)
(* the loop body, which sets previous_sequence to the snapshot's own.      *)
TakeSnapshot(m) ==
    /\ Takes(m) /\ m.kind = "snapshot"
    /\ LET r == AfterSnapshot(SetToSeq(ToSet(buffered)), m.k)
       IN  /\ book' = Updates(m.k) \o SubSeq(r, 1, Fitting(m.k, r))
           /\ IF Fits(m.k, r)
              THEN /\ recon' = "SYNCHRONIZED" /\ buffered' = <<>>
                   /\ previous' = m.k
                   /\ Pop /\ Continue
              ELSE /\ recon' = "DEGRADED" /\ UNCHANGED buffered
                   /\ previous' = m.k + Fitting(m.k, r)
                   /\ Disconnect

(* A delta before the first snapshot waits for it.                         *)
TakeEarlyDelta(m) ==
    /\ Takes(m) /\ m.kind = "delta" /\ recon # "SYNCHRONIZED"
    /\ IF Len(buffered) < MaxBuffered
       THEN /\ recon' = "BUFFERING_DELTAS" /\ buffered' = Append(buffered, m.k)
            /\ Pop /\ Continue
       ELSE /\ recon' = "DEGRADED" /\ UNCHANGED buffered
            /\ Disconnect
    /\ UNCHANGED <<previous, book>>

IsContiguous(k) == previous # 0 /\ k = previous + 1

TakeDelta(m) ==
    /\ Takes(m) /\ m.kind = "delta" /\ recon = "SYNCHRONIZED" /\ IsContiguous(m.k)
    /\ book' = Append(book, m.k)
    /\ previous' = m.k
    /\ Pop /\ Continue
    /\ UNCHANGED <<recon, buffered>>

(* A gap, or an update the book already has: without REST the connection   *)
(* is given up.                                                            *)
TakeGap(m) ==
    /\ Takes(m) /\ m.kind = "delta" /\ recon = "SYNCHRONIZED" /\ ~IsContiguous(m.k)
    /\ buffered' = Append(buffered, m.k)
    /\ UNCHANGED <<previous, book>>
    /\ IF rest
       THEN /\ recon' = "SNAPSHOT_LOADING" /\ pc' = "recover" /\ Pop
            /\ UNCHANGED <<venue, reader, greeted, reconnects, closing>>
       ELSE recon' = "BUFFERING_DELTAS" /\ Disconnect

Take ==
    \/ TakeFailure \/ TakeRepetition
    \/ \E m \in ToSet(queue) :
          TakeSnapshot(m) \/ TakeEarlyDelta(m) \/ TakeDelta(m) \/ TakeGap(m)

RestReplies(n) ==
    \/ Recover(n)
    \/ \E received \in 0 .. Len(queue) : Bootstrap(n, received)

Next ==
    \/ Publish \/ Lose \/ ConnectionBreaks \/ StaleTimeout
    \/ \E n \in Snapshots : Greet(n) \/ RestReplies(n)
    \/ \E k \in 1 .. head : Repeat(k)
    \/ Connect \/ ConnectFails \/ WindowSlides \/ Close \/ End
    \/ RestFails \/ Take
    \/ pc = "closed" /\ UNCHANGED vars

(* The event loop runs the task and the reader, a minute passes, a silent  *)
(* socket times out; connecting, a REST call and the snapshot of a         *)
(* subscription do not fail, nor answer with an old book, for ever.        *)
Fairness ==
    /\ WF_vars(Take) /\ WF_vars(WindowSlides) /\ WF_vars(StaleTimeout)
    /\ WF_vars(\E n \in Snapshots : Greet(n)) /\ WF_vars(End)
    /\ SF_vars(Connect) /\ SF_vars(Greet(head)) /\ SF_vars(RestReplies(head))

Spec == Init /\ [][Next]_vars
FairSpec == Spec /\ Fairness

-----------------------------------------------------------------------------
Synchronized == pc = "loop" /\ recon = "SYNCHRONIZED"

(* A book that is offered as synchronized is exactly what the venue had    *)
(* after some update: nothing missing, doubled or out of order, whatever   *)
(* was lost, repeated, buffered and replayed.  A stream snapshot resets    *)
(* previous_sequence behind what was replayed on it, so that only the      *)
(* duplicate cache keeps a replayed delta from being applied again: it     *)
(* must be able to hold a full buffer and the snapshot.                    *)
BookIsExact ==
    (rest \/ MaxBuffered < CacheSize) /\ Synchronized =>
        book = Updates(Len(book)) /\ Len(book) <= head

(* A session that is not closed holds the venue's current book again and   *)
(* again: gaps, spurious gaps and broken connections are all recovered.    *)
CatchesUp == []<>(closing \/ (Synchronized /\ Len(book) = head))

=============================================================================
