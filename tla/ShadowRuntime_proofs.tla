------------------------- MODULE ShadowRuntime_proofs -------------------------
(***************************************************************************)
(* What the shadow run promises, for every log, quota, age limit and       *)
(* number of faults.                                                       *)
(*                                                                         *)
(* The marker needs an invariant over the steps of finalize only.          *)
(*                                                                         *)
(* The counts and the candidates need to know what the reader's memory     *)
(* stands for: a valid book is a chain of rows that ends at the cursor, so *)
(* that its identities are all the updates between its snapshot and the    *)
(* cursor, and can be found again from the checkpoint that leaves them     *)
(* out.  The loop of read() is a recursion over the fetched rows: that it  *)
(* keeps this is shown by induction on their number.                       *)
(***************************************************************************)
EXTENDS ShadowRuntime, SumTheorems, TLAPS

-----------------------------------------------------------------------------
(* The artifacts.                                                          *)

Outcomes == {"none", "COMPLETED", "GATE_VIOLATION", "FAILED"}
Stages == {"WORKLOAD", "COMPLETED", "FAILED"}

(* The marker is written last and, when the run failed, after the          *)
(* lifecycle file that says so.                                            *)
DiskInv ==
    /\ disk \in [manifest : Outcomes, sha : Outcomes, marker : BOOLEAN, lifecycle : SUBSET Stages]
    /\ phase \in {"run", "down", "manifest", "sha", "lifecycle", "marker"} => ~disk.marker
    /\ phase \in {"lifecycle", "marker"} => disk.sha = disk.manifest
    /\ phase = "marker" => disk.manifest = "COMPLETED"
    /\ phase \in {"failed_manifest", "failed_sha", "unlink"} => "FAILED" \in disk.lifecycle
    /\ MarkerTruthful

(* Collecting, reading and evaluating write no artifact.                   *)
LEMMA DiskStep == DiskInv /\ [Next]_vars => DiskInv'
<1> SUFFICES ASSUME DiskInv, [Next]_vars PROVE DiskInv'
  OBVIOUS
<1>1. ASSUME UNCHANGED <<disk, phase>> PROVE DiskInv'
  BY <1>1 DEF DiskInv, MarkerTruthful
<1>2. ASSUME disk' = disk, phase \in {"run", "down"}, phase' \in {"run", "down", "manifest"}
      PROVE  DiskInv'
  BY <1>2 DEF DiskInv, MarkerTruthful
<1>3. CASE Collect \/ Tick \/ ReadSucceeds \/ ReadFails \/ Deliver \/ SignalTick \/ Over
           \/ UNCHANGED vars
  BY <1>1, <1>3 DEF Collect, CollectSingle, CollectSnapshot, CollectDelta, Tick, ReadSucceeds,
     ReadFails, Deliver, SignalTick, Over, vars
<1>4. CASE Crash \/ Restart \/ Finish
  BY <1>2, <1>4 DEF Crash, Restart, Finish
<1>5. CASE WriteManifest
  BY <1>5 DEF WriteManifest, DiskInv, MarkerTruthful, Outcomes
<1>6. CASE WriteSha
  BY <1>6 DEF WriteSha, DiskInv, MarkerTruthful
<1>7. CASE WriteLifecycle
  BY <1>7 DEF WriteLifecycle, DiskInv, MarkerTruthful, Stages
<1>8. CASE WriteMarker
  BY <1>8 DEF WriteMarker, DiskInv, MarkerTruthful
<1>9. CASE WriteFails
  BY <1>9 DEF WriteFails, DiskInv, MarkerTruthful
<1>10. CASE FailureLifecycle
  BY <1>10 DEF FailureLifecycle, DiskInv, MarkerTruthful, Stages
<1>11. CASE FailureManifest \/ FailureSha
  BY <1>11 DEF FailureManifest, FailureSha, DiskInv, MarkerTruthful, Outcomes
<1>12. CASE Unlink
  BY <1>12 DEF Unlink, DiskInv, MarkerTruthful
<1>13. CASE Killed
  BY <1>13 DEF Killed, DiskInv, MarkerTruthful
<1> QED
  BY <1>3, <1>4, <1>5, <1>6, <1>7, <1>8, <1>9, <1>10, <1>11, <1>12, <1>13 DEF Next, Finalize

(* MarkerTruthful: the COMPLETED marker stands beside a COMPLETED manifest *)
(* and its hash, or the lifecycle file says the run failed, whichever      *)
(* write fails and wherever the process dies (finalize,                    *)
(* _write_failure_evidence).                                               *)
THEOREM MarkersTruthful == Spec => []MarkerTruthful
<1>1. Init => DiskInv
  BY DEF Init, DiskInv, MarkerTruthful, Outcomes, Stages
<1>2. DiskInv => MarkerTruthful
  BY DEF DiskInv
<1> QED
  BY <1>1, <1>2, DiskStep, PTL DEF Spec

-----------------------------------------------------------------------------
(* The reader's memory.                                                    *)

Books == [snap : Nat, ids : SUBSET Nat, ts : Nat]
Builders == [status : {"uninitialized", "valid", "invalid"}, epoch : Nat, seq : Nat, snap : Nat,
             ids : SUBSET Nat, ts : Nat]
Pairs == [funding : [Venues -> Nat], snap : [Venues -> Nat], updates : SUBSET Nat]
Memory ==
    [cursor : [Streams -> Nat], funding : [Venues -> Nat], book : [Venues -> Books],
     builder : Builders, reason : BOOLEAN, pair : Pairs, processed : Nat]

(* The logs R: the books of the feed are numbered upwards.                 *)
Logs(R) ==
    /\ R \in [Streams -> Seq(Row)]
    /\ \A j, k \in 1 .. Len(R["bb"]) : j < k => R["bb"][j].seq < R["bb"][k].seq

(* The rows a .. z are a snapshot and updates that follow it and each      *)
(* other on one connection, all well formed.                               *)
Chain(R, a, z) ==
    /\ a \in 1 .. z /\ z \in 1 .. Len(R["bb"]) /\ R["bb"][a].snapshot
    /\ \A k \in a .. z : R["bb"][k].ok
    /\ \A k \in a + 1 .. z : /\ ~R["bb"][k].snapshot
                             /\ R["bb"][k].prev = R["bb"][k - 1].seq
                             /\ R["bb"][k].epoch = R["bb"][k - 1].epoch

(* A valid state of the builder after row z is such a chain up to z.       *)
BuilderOK(R, b, z) ==
    /\ b \in Builders
    /\ b.status = "uninitialized" => b = NoState
    /\ b.status = "valid" =>
          /\ Chain(R, b.snap, z) /\ b.ids = b.snap + 1 .. z
          /\ b.seq = R["bb"][z].seq /\ b.epoch = R["bb"][z].epoch /\ b.ts = R["bb"][z].ts

(* The Bitget book after row z is that of the valid builder, or none.      *)
Holds(R, m, z) ==
    /\ BuilderOK(R, m.builder, z)
    /\ m.book["bitget"] # NoBook => m.builder.status = "valid" /\ m.book["bitget"] = BookInput(m.builder)

Hyperliquid(R, b) ==
    b # NoBook => \E k \in 1 .. Len(R["hb"]) : R["hb"][k].ok /\ b = [snap |-> k, ids |-> {}, ts |-> R["hb"][k].ts]

(* What holds of the memory between two reads.                             *)
Good(R, m) ==
    /\ m \in Memory /\ \A s \in Streams : m.cursor[s] <= Len(R[s])
    /\ Holds(R, m, m.cursor["bb"])
    /\ Hyperliquid(R, m.book["hyperliquid"])
    /\ m.processed = Sum(m.cursor, Streams)

-----------------------------------------------------------------------------
(* A row of a log has its fields.                                          *)
LEMMA RowType ==
    ASSUME Logs(rows), NEW s \in Streams, NEW k \in 1 .. Len(rows[s])
    PROVE  /\ rows[s][k] \in Row /\ Len(rows[s]) \in Nat
           /\ rows[s][k].snapshot \in BOOLEAN /\ rows[s][k].ok \in BOOLEAN
           /\ rows[s][k].epoch \in Nat /\ rows[s][k].seq \in Nat /\ rows[s][k].prev \in Nat
           /\ rows[s][k].ts \in Nat
<1>1. rows[s] \in Seq(Row)
  BY DEF Logs
<1>2. rows[s][k] \in Row /\ Len(rows[s]) \in Nat
  BY <1>1
<1> QED
  BY <1>2 DEF Row

(* The states a builder starts with are well formed.                       *)
LEMMA NothingType == NoState \in Builders /\ NoBook \in Books
  BY DEF NoState, NoBook, Builders, Books

(* A chain grows by a row that follows.                                    *)
LEMMA ChainGrows ==
    ASSUME Logs(rows), NEW a, NEW z \in Nat, Chain(rows, a, z), z + 1 <= Len(rows["bb"]),
           LET r == rows["bb"][z + 1] IN
             /\ r.ok /\ ~r.snapshot /\ r.prev = rows["bb"][z].seq /\ r.epoch = rows["bb"][z].epoch
    PROVE  Chain(rows, a, z + 1)
<1> DEFINE bb == rows["bb"]
<1>1. Len(bb) \in Nat
  BY DEF Logs, Streams
<1>2. a \in 1 .. z /\ z \in 1 .. Len(bb)
  BY DEF Chain
<1> HIDE DEF bb
<1>3. a \in 1 .. z + 1 /\ z + 1 \in 1 .. Len(bb) /\ (z + 1) - 1 = z
  BY <1>1, <1>2 DEF bb
<1>4. \A k \in a .. z + 1 : k \in a .. z \/ k = z + 1
  BY <1>2
<1>5. \A k \in a + 1 .. z + 1 : k \in a + 1 .. z \/ k = z + 1
  BY <1>2
<1> QED
  BY <1>3, <1>4, <1>5 DEF Chain, bb

(* A chain of one snapshot.                                                *)
LEMMA ChainStarts ==
    ASSUME Logs(rows), NEW k \in 1 .. Len(rows["bb"]), rows["bb"][k].ok, rows["bb"][k].snapshot
    PROVE  Chain(rows, k, k)
<1>1. Len(rows["bb"]) \in Nat
  BY DEF Logs, Streams
<1>2. k \in Nat /\ k \in 1 .. k /\ (\A j \in k .. k : j = k) /\ (\A j \in k + 1 .. k : FALSE)
  BY <1>1
<1> QED
  BY <1>2 DEF Chain

(* apply_bitget: what becomes valid is a chain up to the row, and a book   *)
(* is returned exactly then.  The numbers grow, so nothing is dropped as   *)
(* out of order.                                                           *)
LEMMA ApplyChains ==
    ASSUME Logs(rows), NEW k \in 1 .. Len(rows["bb"]), NEW t \in Nat, NEW b0,
           BuilderOK(rows, b0, k - 1)
    PROVE  LET a == ApplyBitget(b0, k, t) IN
           /\ BuilderOK(rows, a.state, k) /\ a.returned \in BOOLEAN
           /\ a.returned <=> a.state.status = "valid"
<1> DEFINE r == rows["bb"][k]
           b == Reset(b0, r)
           z == k - 1
           c == Canonical(r, t)
<1>1. /\ r.snapshot \in BOOLEAN /\ r.ok \in BOOLEAN /\ r.epoch \in Nat /\ r.seq \in Nat
      /\ r.prev \in Nat /\ r.ts \in Nat
  BY RowType DEF Streams
<1>2. c \in BOOLEAN /\ (c => r.ok)
  BY <1>1 DEF Canonical
<1>3. k \in Nat /\ z \in Nat /\ z + 1 = k /\ Len(rows["bb"]) \in Nat /\ k <= Len(rows["bb"])
  BY RowType DEF Streams
<1>4. /\ b \in Builders /\ (b.status = "uninitialized" => b = NoState)
      /\ b.status = "valid" => b = b0 /\ b0.epoch = r.epoch /\ BuilderOK(rows, b, z)
  BY NothingType DEF Reset, BuilderOK, NoState
<1>5. CASE r.snapshot
  <2> DEFINE s == FromSnapshot(k, t)
  <2>1. ApplyBitget(b0, k, t) = [state |-> s, returned |-> c]
    BY <1>5 DEF ApplyBitget
  <2>2. s = [status |-> IF c THEN "valid" ELSE "invalid", epoch |-> r.epoch,
             seq |-> r.seq, snap |-> k, ids |-> {}, ts |-> r.ts]
    BY DEF FromSnapshot
  <2>3. s \in Builders /\ s.status = IF c THEN "valid" ELSE "invalid"
    <3> HIDE DEF c, r, s
    <3> QED
      BY <1>1, <1>2, <1>3, <2>2 DEF Builders
  <2>4. c => Chain(rows, k, k)
    BY <1>2, <1>5, ChainStarts
  <2>5. k + 1 .. k = {}
    BY <1>3
  <2>6. s.snap = k /\ s.ids = {} /\ s.seq = r.seq /\ s.epoch = r.epoch /\ s.ts = r.ts
    BY <2>2
  <2> HIDE DEF c, s
  <2>7. BuilderOK(rows, s, k)
    BY <1>2, <2>3, <2>4, <2>5, <2>6 DEF BuilderOK
  <2> QED
    BY <1>2, <2>1, <2>3, <2>7
<1>6. CASE ~r.snapshot /\ (b.status # "valid" \/ r.seq <= b.seq)
  <2>1. ApplyBitget(b0, k, t) = [state |-> b, returned |-> FALSE]
    BY <1>6 DEF ApplyBitget
  <2>2. b.status # "valid"
    <3> SUFFICES ASSUME b.status = "valid" PROVE FALSE
      OBVIOUS
    <3>1. b.seq = rows["bb"][z].seq /\ z \in 1 .. Len(rows["bb"])
      BY <1>4 DEF BuilderOK, Chain
    <3>2. rows["bb"][z].seq < r.seq /\ rows["bb"][z].seq \in Nat
      BY <1>3, <3>1, RowType DEF Logs, Streams
    <3> QED
      BY <1>1, <1>6, <3>1, <3>2
  <2> HIDE DEF b
  <2> QED
    BY <1>4, <2>1, <2>2 DEF BuilderOK
<1>7. CASE ~r.snapshot /\ b.status = "valid" /\ ~(r.seq <= b.seq) /\ HasGap(b, r)
  <2> DEFINE s == [b EXCEPT !.status = "invalid"]
  <2>1. ApplyBitget(b0, k, t) = [state |-> s, returned |-> FALSE]
    BY <1>7 DEF ApplyBitget
  <2>2. s \in Builders /\ s.status = "invalid"
    BY <1>4 DEF Builders
  <2> HIDE DEF s
  <2> QED
    BY <2>1, <2>2 DEF BuilderOK
<1>8. CASE ~r.snapshot /\ b.status = "valid" /\ ~(r.seq <= b.seq) /\ ~HasGap(b, r)
  <2> DEFINE s == Applied(b, k, t)
  <2>1. ApplyBitget(b0, k, t) = [state |-> s, returned |-> c]
    BY <1>8 DEF ApplyBitget
  <2>2. /\ Chain(rows, b.snap, z) /\ b.ids = b.snap + 1 .. z
        /\ b.seq = rows["bb"][z].seq /\ r.epoch = rows["bb"][z].epoch /\ r.prev = b.seq
    BY <1>4, <1>8 DEF BuilderOK, HasGap
  <2>3. /\ s \in Builders /\ s.status = IF c THEN "valid" ELSE "invalid"
        /\ s.snap = b.snap /\ s.ids = b.ids \cup {k} /\ s.seq = r.seq /\ s.ts = r.ts
        /\ s.epoch = b.epoch
    <3>1. s = [b EXCEPT !.ids = b.ids \cup {k}, !.seq = r.seq, !.ts = r.ts,
                        !.status = IF c THEN "valid" ELSE "invalid"]
      BY DEF Applied
    <3> HIDE DEF b, c, r, s
    <3>2. b \in Builders
      BY <1>4
    <3> QED
      BY <1>1, <1>2, <1>3, <3>1, <3>2 DEF Builders
  <2>4. c => Chain(rows, b.snap, k)
    BY <1>2, <1>3, <1>8, <2>2, ChainGrows
  <2>5. b.snap \in Nat /\ b.snap <= z
    BY <1>3, <2>2 DEF Chain
  <2>6. b.ids \cup {k} = b.snap + 1 .. k
    <3> HIDE DEF b
    <3> QED
      BY <1>3, <2>2, <2>5
  <2>7. b.epoch = r.epoch
    BY <1>4, <1>8
  <2> HIDE DEF c, s, b
  <2>8. BuilderOK(rows, s, k)
    BY <1>2, <2>3, <2>4, <2>6, <2>7 DEF BuilderOK
  <2> QED
    BY <1>2, <2>1, <2>3, <2>8
<1> QED
  BY <1>5, <1>6, <1>7, <1>8, <1>1

(* What one row of the Bitget books leaves alone.                          *)
Apart(m, n) ==
    /\ n.cursor = m.cursor /\ n.processed = m.processed /\ n.pair = m.pair
    /\ n.book["hyperliquid"] = m.book["hyperliquid"]

(* One row of the loop.                                                    *)
LEMMA BookRowHolds ==
    ASSUME Logs(rows), NEW k \in 1 .. Len(rows["bb"]), NEW t \in Nat, NEW m \in Memory,
           Holds(rows, m, k - 1)
    PROVE  LET n == ProcessBitgetBook(m, k, t) IN
           n \in Memory /\ Holds(rows, n, k) /\ Apart(m, n)
<1> DEFINE a == ApplyBitget(m.builder, k, t)
           outOfOrder == ~a.returned /\ a.state = m.builder /\ a.state.status = "valid"
           reason == m.reason \/ (~a.returned /\ ~outOfOrder)
           book == IF a.returned THEN BookInput(a.state) ELSE IF reason THEN NoBook ELSE m.book["bitget"]
           n == ProcessBitgetBook(m, k, t)
<1>1. /\ BuilderOK(rows, a.state, k) /\ a.returned \in BOOLEAN
      /\ a.returned <=> a.state.status = "valid"
  BY ApplyChains DEF Holds
<1>2. n = [m EXCEPT !.builder = a.state, !.reason = reason, !.book["bitget"] = book]
  BY DEF ProcessBitgetBook
<1> HIDE DEF a, n
<1>3. reason \in BOOLEAN
  BY DEF Memory
<1>4. book = IF a.returned THEN BookInput(a.state) ELSE NoBook
  BY <1>1
<1>5. a.state \in Builders
  BY <1>1 DEF BuilderOK
<1>6. book \in Books
  BY <1>4, <1>5, NothingType DEF BookInput, Builders, Books
<1> HIDE DEF reason, book, outOfOrder
<1>7. /\ n \in Memory /\ n.builder = a.state /\ n.book["bitget"] = book
      /\ n.book["hyperliquid"] = m.book["hyperliquid"]
      /\ n.cursor = m.cursor /\ n.processed = m.processed /\ n.pair = m.pair
  BY <1>2, <1>3, <1>5, <1>6 DEF Memory, Venues
<1>8. n \in Memory /\ Holds(rows, n, k) /\ Apart(m, n)
  BY <1>1, <1>4, <1>7 DEF Holds, Apart
<1> QED
  BY <1>8 DEF n

(* The cursors reach forward, and not past the log.                        *)
LEMMA ReachType ==
    ASSUME Logs(rows), NEW m \in Memory, NEW s \in Streams, m.cursor[s] <= Len(rows[s])
    PROVE  /\ Reach(m, s) \in Nat /\ m.cursor[s] \in Nat
           /\ m.cursor[s] <= Reach(m, s) /\ Reach(m, s) <= Len(rows[s]) /\ Len(rows[s]) \in Nat
<1> DEFINE a == m.cursor[s] + Quota
           l == Len(rows[s])
<1>1. rows[s] \in Seq(Row)
  BY DEF Logs
<1>2. l \in Nat /\ m.cursor[s] \in Nat /\ a \in Nat /\ m.cursor[s] <= a /\ m.cursor[s] <= l
  BY <1>1, ShadowAssumption DEF Memory
<1> HIDE DEF a, l
<1>3. \E x \in {a, l} : \A y \in {a, l} : x <= y
  BY <1>2
<1>4. Min({a, l}) \in {a, l} /\ Min({a, l}) <= l
  BY <1>2, <1>3 DEF Min
<1>5. Reach(m, s) = Min({a, l})
  BY DEF Reach, a, l
<1> QED
  BY <1>2, <1>4, <1>5 DEF l

(* The loop over the Bitget rows up to z.                                  *)
Loops(g, m, t, z) ==
    g = [k \in m.cursor["bb"] .. z |->
            IF k = m.cursor["bb"] THEN m ELSE ProcessBitgetBook(g[k - 1], k, t)]

(* The loop over any number of rows has a result.                          *)
LEMMA LoopExists ==
    ASSUME NEW m \in Memory, NEW t
    PROVE  \A j \in Nat : \E g : Loops(g, m, t, m.cursor["bb"] + j)
<1> DEFINE c == m.cursor["bb"]
           N == {j \in Nat : \E g : Loops(g, m, t, c + j)}
<1>0. c \in Nat
  BY DEF Memory, Streams
<1>1. 0 \in N
  <2> DEFINE g == [k \in c .. c |-> m]
  <2>1. \A k \in c .. c : k = c
    BY <1>0
  <2>2. g = [k \in c .. c |-> IF k = c THEN m ELSE ProcessBitgetBook(g[k - 1], k, t)]
    BY <2>1
  <2>3. c + 0 = c
    BY <1>0
  <2> HIDE DEF g
  <2>4. Loops(g, m, t, c + 0)
    BY <2>2, <2>3 DEF Loops
  <2> QED
    BY <2>4
<1>2. ASSUME NEW j \in Nat, j \in N PROVE j + 1 \in N
  <2> DEFINE z == c + j
  <2>1. PICK g : Loops(g, m, t, z)
    BY <1>2
  <2>2. z \in Nat /\ c <= z /\ c + (j + 1) = z + 1
    BY <1>0
  <2> DEFINE h == [k \in c .. z + 1 |-> IF k = c THEN m ELSE ProcessBitgetBook(g[k - 1], k, t)]
  <2> HIDE DEF c, z
  <2>3. \A k \in c .. z : k \in c .. z + 1 /\ h[k] = g[k]
    BY <1>0, <2>1, <2>2 DEF Loops, c
  <2>4. \A k \in c .. z + 1 : k # c => k - 1 \in c .. z
    BY <1>0, <2>2
  <2> DEFINE n == [k \in c .. z + 1 |-> IF k = c THEN m ELSE ProcessBitgetBook(h[k - 1], k, t)]
  <2>5. \A k \in c .. z + 1 : k # c => h[k - 1] = g[k - 1]
    BY <2>3, <2>4
  <2>6. \A k \in c .. z + 1 : h[k] = n[k]
    BY <2>5
  <2>7. h = n
    BY <2>6
  <2> HIDE DEF h
  <2>8. Loops(h, m, t, z + 1)
    BY <2>7 DEF Loops, c
  <2> QED
    BY <2>2, <2>8 DEF z
<1> HIDE DEF N
<1>3. Nat \subseteq N
  BY <1>1, <1>2, SetInduction
<1> QED
  BY <1>3 DEF N, c

(* And that is what ProcessBitgetBooks computes.                           *)
LEMMA BooksLoop ==
    ASSUME Logs(rows), NEW m \in Memory, m.cursor["bb"] <= Len(rows["bb"]), NEW t
    PROVE  \E g : Loops(g, m, t, Reach(m, "bb")) /\ ProcessBitgetBooks(m, t) = g[Reach(m, "bb")]
<1> DEFINE z == Reach(m, "bb")
           c == m.cursor["bb"]
           j == z - c
<1>1. z \in Nat /\ c \in Nat /\ c <= z
  BY ReachType DEF Streams
<1>2. j \in Nat /\ c + j = z
  BY <1>1
<1>3. \E g : Loops(g, m, t, z)
  <2>1. \E g : Loops(g, m, t, c + j)
    BY <1>2, LoopExists
  <2> QED
    BY <1>2, <2>1
<1> DEFINE f == CHOOSE g : Loops(g, m, t, z)
<1>4. Loops(f, m, t, z)
  BY <1>3
<1>5. ProcessBitgetBooks(m, t) = f[z]
  BY DEF ProcessBitgetBooks, Loops
<1> QED
  BY <1>4, <1>5

(* Row by row, the loop keeps the book that of the builder.                *)
LEMMA BooksHold ==
    ASSUME Logs(rows), NEW m, Good(rows, m), NEW t \in Nat
    PROVE  LET n == ProcessBitgetBooks(m, t) IN
           n \in Memory /\ Holds(rows, n, Reach(m, "bb")) /\ Apart(m, n)
<1> DEFINE z == Reach(m, "bb")
           c == m.cursor["bb"]
<1>1. m \in Memory /\ c <= Len(rows["bb"]) /\ Holds(rows, m, c)
  BY DEF Good, Streams
<1>2. z \in Nat /\ c \in Nat /\ c <= z /\ z <= Len(rows["bb"]) /\ Len(rows["bb"]) \in Nat
  BY <1>1, ReachType DEF Streams
<1>3. PICK g : Loops(g, m, t, z) /\ ProcessBitgetBooks(m, t) = g[z]
  BY <1>1, BooksLoop
<1> DEFINE N == {j \in Nat : c + j <= z =>
                    /\ g[c + j] \in Memory /\ Holds(rows, g[c + j], c + j) /\ Apart(m, g[c + j])}
<1> HIDE DEF z, c
<1>4. 0 \in N
  <2>1. c + 0 = c /\ c \in c .. z
    BY <1>2
  <2>2. g[c] = m
    BY <1>3, <2>1 DEF Loops, c
  <2> QED
    BY <1>1, <2>1, <2>2 DEF Apart
<1>5. ASSUME NEW j \in Nat, j \in N PROVE j + 1 \in N
  <2> DEFINE y == c + j
             k == y + 1
  <2>1. y \in Nat /\ c + (j + 1) = k /\ k - 1 = y /\ k # c /\ c <= k
    BY <1>2
  <2> SUFFICES ASSUME k <= z
               PROVE  g[k] \in Memory /\ Holds(rows, g[k], k) /\ Apart(m, g[k])
    BY <2>1
  <2>2. g[y] \in Memory /\ Holds(rows, g[y], y) /\ Apart(m, g[y])
    BY <1>2, <1>5
  <2> HIDE DEF y
  <2>3. k \in c .. z /\ k \in 1 .. Len(rows["bb"])
    BY <1>2, <2>1
  <2>4. g[k] = ProcessBitgetBook(g[y], k, t)
    BY <1>3, <2>1, <2>3 DEF Loops, c
  <2> HIDE DEF k
  <2>5. LET n == ProcessBitgetBook(g[y], k, t) IN
        n \in Memory /\ Holds(rows, n, k) /\ Apart(g[y], n)
    BY <2>1, <2>2, <2>3, BookRowHolds
  <2> QED
    BY <2>2, <2>4, <2>5 DEF Apart
<1> HIDE DEF N
<1>6. Nat \subseteq N
  BY <1>4, <1>5, SetInduction
<1>7. z - c \in Nat /\ c + (z - c) = z /\ z <= z
  BY <1>2
<1>8. g[z] \in Memory /\ Holds(rows, g[z], z) /\ Apart(m, g[z])
  BY <1>6, <1>7 DEF N
<1> QED
  BY <1>3, <1>8 DEF z

(* Streams is a finite set.                                                *)
LEMMA StreamsFinite == IsFiniteSet(Streams)
<1> DEFINE a == {"hf"}
           b == a \cup {"hb"}
           c == b \cup {"bf"}
           d == c \cup {"bb"}
<1>1. IsFiniteSet(a)
  BY FS_Singleton
<1>2. IsFiniteSet(b)
  BY <1>1, FS_AddElement
<1>3. IsFiniteSet(c)
  BY <1>2, FS_AddElement
<1>4. IsFiniteSet(d)
  BY <1>3, FS_AddElement
<1>5. Streams = d
  BY DEF Streams
<1> QED
  BY <1>4, <1>5

(* The rows that are fetched are those the cursors pass.                   *)
LEMMA FetchedExact ==
    ASSUME Logs(rows), NEW m, Good(rows, m)
    PROVE  LET reach == [s \in Streams |-> Reach(m, s)] IN
           /\ FetchedCount(m) \in Nat
           /\ Sum(reach, Streams) = Sum(m.cursor, Streams) + FetchedCount(m)
<1> DEFINE count == [s \in Streams |-> Cardinality(Fetched(m, s))]
           reach == [s \in Streams |-> Reach(m, s)]
<1>1. FetchedCount(m) = Sum(count, Streams)
  BY DEF FetchedCount, Total, Sum
<1>2. ASSUME NEW s \in Streams
      PROVE  m.cursor[s] \in Nat /\ count[s] \in Nat /\ reach[s] = m.cursor[s] + count[s]
  <2>1. /\ Reach(m, s) \in Nat /\ m.cursor[s] \in Nat /\ m.cursor[s] <= Reach(m, s)
    BY ReachType DEF Good
  <2> DEFINE p == m.cursor[s]
             q == Reach(m, s)
  <2>2. count[s] = Cardinality(p + 1 .. q)
    BY DEF Fetched
  <2>3. reach[s] = q
    OBVIOUS
  <2> HIDE DEF p, q, count, reach
  <2>4. p \in Nat /\ q \in Nat /\ p <= q
    BY <2>1 DEF p, q
  <2>5. Cardinality(p + 1 .. q) = IF p + 1 > q THEN 0 ELSE q - (p + 1) + 1
    BY <2>4, FS_Interval
  <2>6. Cardinality(p + 1 .. q) = q - p
    BY <2>4, <2>5
  <2> QED
    BY <2>2, <2>3, <2>4, <2>6 DEF p
<1> HIDE DEF count, reach
<1>3. Sum(count, Streams) \in Nat
  BY <1>2, StreamsFinite, SumType
<1>4. Sum(reach, Streams) = Sum(m.cursor, Streams) + Sum(count, Streams)
  <2> DEFINE f == m.cursor
  <2>1. \A s \in Streams : f[s] \in Int /\ count[s] \in Int /\ reach[s] = f[s] + count[s]
    BY <1>2
  <2> HIDE DEF f
  <2>2. Sum(reach, Streams) = Sum(f, Streams) + Sum(count, Streams)
    BY <2>1, StreamsFinite, SumAdds
  <2> QED
    BY <2>2 DEF f
<1> QED
  BY <1>1, <1>3, <1>4 DEF reach

-----------------------------------------------------------------------------
(* Every funding rate that is named is a well formed row.                  *)
Rated(R, f) ==
    \A v \in Venues : f[v] # 0 => f[v] \in 1 .. Len(R[FundingOf(v)]) /\ R[FundingOf(v)][f[v]].ok

(* A funding rate that was read is a well formed row.                      *)
LEMMA FundingRated ==
    ASSUME Logs(rows), NEW m, Good(rows, m)
    PROVE  LET f == [v \in Venues |-> ProcessFunding(m, v)] IN
           f \in [Venues -> Nat] /\ Rated(rows, f)
<1> SUFFICES ASSUME NEW v \in Venues
             PROVE  LET k == ProcessFunding(m, v) IN
                    /\ k \in Nat
                    /\ k # 0 => k \in 1 .. Len(rows[FundingOf(v)]) /\ rows[FundingOf(v)][k].ok
  BY DEF Rated
<1> DEFINE s == FundingOf(v)
           k == Reach(m, s)
<1>1. s \in Streams
  BY DEF FundingOf, Streams
<1> HIDE DEF s
<1>2. k \in Nat /\ k <= Len(rows[s]) /\ Len(rows[s]) \in Nat
  BY <1>1, ReachType DEF Good
<1> HIDE DEF k
<1>3. ProcessFunding(m, v) = IF k # 0 /\ rows[s][k].ok THEN k ELSE 0
  BY DEF ProcessFunding, Funding, k, s
<1> QED
  BY <1>2, <1>3 DEF s

(* The last Hyperliquid book is a well formed row, or none.                *)
LEMMA HyperliquidBacked ==
    ASSUME Logs(rows), NEW m, Good(rows, m), NEW t \in Nat
    PROVE  LET h == ProcessHyperliquidBook(m, t) IN h \in Books /\ Hyperliquid(rows, h)
<1> DEFINE k == Reach(m, "hb")
           h == ProcessHyperliquidBook(m, t)
<1>1. /\ k \in Nat /\ m.cursor["hb"] \in Nat /\ m.cursor["hb"] <= k /\ k <= Len(rows["hb"])
      /\ Len(rows["hb"]) \in Nat
  BY ReachType DEF Good, Streams
<1>2. m.book["hyperliquid"] \in Books /\ Hyperliquid(rows, m.book["hyperliquid"])
  BY DEF Good, Memory, Venues
<1>3. CASE k = m.cursor["hb"]
  BY <1>2, <1>3 DEF ProcessHyperliquidBook
<1>4. CASE k # m.cursor["hb"]
  <2>1. k \in 1 .. Len(rows["hb"])
    BY <1>1, <1>4
  <2>2. rows["hb"][k].ts \in Nat
    BY <2>1, RowType DEF Streams
  <2>3. h = IF Canonical(rows["hb"][k], t) THEN StandaloneSnapshot(k) ELSE NoBook
    BY <1>4 DEF ProcessHyperliquidBook
  <2>4. Canonical(rows["hb"][k], t) => rows["hb"][k].ok
    BY DEF Canonical
  <2>5. StandaloneSnapshot(k) = [snap |-> k, ids |-> {}, ts |-> rows["hb"][k].ts]
    BY DEF StandaloneSnapshot
  <2> HIDE DEF h, k
  <2>6. StandaloneSnapshot(k) \in Books
    BY <1>1, <2>2, <2>5 DEF Books
  <2>7. h \in Books
    BY <2>3, <2>6, NothingType
  <2>8. Hyperliquid(rows, h)
    BY <2>1, <2>3, <2>4, <2>5 DEF Hyperliquid
  <2> QED
    BY <2>7, <2>8 DEF h
<1> QED
  BY <1>3, <1>4

(* read() up to the evaluation.                                            *)
LEMMA ConsumedGood ==
    ASSUME Logs(rows), NEW m, Good(rows, m), NEW t \in Nat
    PROVE  LET n == Consumed(m, t) IN Good(rows, n) /\ Rated(rows, n.funding)
<1> DEFINE b == ProcessBitgetBooks(m, t)
           f == [v \in Venues |-> ProcessFunding(m, v)]
           h == ProcessHyperliquidBook(m, t)
           p == b.processed + FetchedCount(m)
           reach == [s \in Streams |-> Reach(m, s)]
           n == Consumed(m, t)
<1>1. n = [[b EXCEPT !.funding = f, !.book["hyperliquid"] = h, !.processed = p] EXCEPT
                !.cursor = reach]
  BY DEF Consumed, AdvanceCursors, ProcessAll
<1>2. b \in Memory /\ Holds(rows, b, Reach(m, "bb")) /\ Apart(m, b)
  BY BooksHold
<1>3. f \in [Venues -> Nat] /\ Rated(rows, f)
  BY FundingRated
<1>4. h \in Books /\ Hyperliquid(rows, h)
  BY HyperliquidBacked
<1>5. FetchedCount(m) \in Nat /\ Sum(reach, Streams) = Sum(m.cursor, Streams) + FetchedCount(m)
  BY FetchedExact
<1>6. p \in Nat /\ p = Sum(reach, Streams)
  BY <1>2, <1>5 DEF Apart, Good, Memory
<1>7. reach \in [Streams -> Nat] /\ \A s \in Streams : reach[s] <= Len(rows[s])
  BY ReachType DEF Good
<1>8. reach["bb"] = Reach(m, "bb")
  BY DEF Streams
<1> HIDE DEF b, f, h, p, reach, n
<1>9. /\ n \in Memory /\ n.cursor = reach /\ n.processed = p /\ n.funding = f
      /\ n.builder = b.builder /\ n.book["hyperliquid"] = h
      /\ n.book["bitget"] = b.book["bitget"]
  BY <1>1, <1>2, <1>3, <1>4, <1>6, <1>7 DEF Memory, Venues
<1>10. Holds(rows, n, n.cursor["bb"])
  BY <1>2, <1>8, <1>9 DEF Holds
<1>11. Good(rows, n) /\ Rated(rows, n.funding)
  BY <1>3, <1>4, <1>6, <1>7, <1>9, <1>10 DEF Good
<1> QED
  BY <1>11 DEF n

(* The Bitget book of a batch is a chain of rows.                          *)
Bitget(R, b) ==
    b # NoBook => \E z \in 1 .. Len(R["bb"]) : /\ Chain(R, b.snap, z) /\ b.ids = b.snap + 1 .. z
                                 /\ b.ts = R["bb"][z].ts

(* What the event loop may hand to the evaluator.                          *)
BatchOK(R, b) ==
    /\ b.funding \in [Venues -> Nat] /\ b.book \in [Venues -> Books]
    /\ Rated(R, b.funding) /\ Hyperliquid(R, b.book["hyperliquid"]) /\ Bitget(R, b.book["bitget"])

(* An evaluation hands on what the memory stands for.                      *)
LEMMA EvaluateGood ==
    ASSUME Logs(rows), NEW m, Good(rows, m), Rated(rows, m.funding), NEW t
    PROVE  Good(rows, Evaluate(m, t).state) /\ BatchOK(rows, Evaluate(m, t).result)
<1> DEFINE e == Evaluate(m, t)
           ids == SourceIds(m)
           s == [m EXCEPT !.pair = ids]
<1>1. e.state \in {m, s} /\ e.result.funding = m.funding /\ e.result.book = m.book
  BY DEF Evaluate
<1>2. ids \in Pairs
  BY DEF SourceIds, Pairs, Good, Memory, Books, Venues
<1> HIDE DEF ids
<1>3. /\ s \in Memory /\ s.cursor = m.cursor /\ s.processed = m.processed
      /\ s.builder = m.builder /\ s.book = m.book
  BY <1>2 DEF Good, Memory
<1> HIDE DEF s
<1>4. Good(rows, s)
  BY <1>3 DEF Good, Holds
<1>5. Bitget(rows, m.book["bitget"])
  <2> SUFFICES ASSUME m.book["bitget"] # NoBook
               PROVE  LET b == m.book["bitget"] IN
                      \E z \in 1 .. Len(rows["bb"]) : /\ Chain(rows, b.snap, z) /\ b.ids = b.snap + 1 .. z
                                     /\ b.ts = rows["bb"][z].ts
    BY DEF Bitget
  <2> DEFINE z == m.cursor["bb"]
             b == m.book["bitget"]
  <2>2. /\ Chain(rows, m.builder.snap, z) /\ m.builder.ids = m.builder.snap + 1 .. z
        /\ m.builder.ts = rows["bb"][z].ts /\ b = BookInput(m.builder)
    BY DEF Good, Holds, BuilderOK
  <2>3. b.snap = m.builder.snap /\ b.ids = m.builder.ids /\ b.ts = m.builder.ts
    BY <2>2 DEF BookInput
  <2>4. z \in 1 .. Len(rows["bb"])
    BY <2>2 DEF Chain
  <2> QED
    BY <2>2, <2>3, <2>4
<1>6. BatchOK(rows, e.result)
  BY <1>1, <1>5 DEF BatchOK, Good, Memory
<1> QED
  BY <1>1, <1>4, <1>6

(* The checkpoint leaves the identities out; they are found again.         *)
LEMMA RestoreGood ==
    ASSUME Logs(rows), NEW m, Good(rows, m)
    PROVE  /\ Good(rows, RestoreDeltaIdentities(Exported(m)))
           /\ Exported(m).cursor = m.cursor /\ Exported(m).processed = m.processed
<1> DEFINE e == Exported(m)
           z == m.cursor["bb"]
           o == m.book["bitget"]
           x == [o EXCEPT !.ids = {}]
           y == ExportState(m.builder)
           d == DeltaIdentities(e)
<1>1. m \in Memory /\ m.builder \in Builders /\ o \in Books /\ z \in Nat
  BY DEF Good, Memory, Streams, Venues
<1>2. e = [m EXCEPT !.builder = y, !.book["bitget"] = x]
  BY <1>1 DEF Exported, Memory, Venues
<1>3. /\ y \in Builders /\ y.ids = {} /\ y.status = m.builder.status /\ y.snap = m.builder.snap
      /\ y.seq = m.builder.seq /\ y.epoch = m.builder.epoch /\ y.ts = m.builder.ts
  BY <1>1 DEF ExportState, Builders
<1>4. x \in Books /\ x.ids = {} /\ x.snap = o.snap /\ x.ts = o.ts
  BY <1>1 DEF Books
<1> HIDE DEF x, y, e, d
<1>5. /\ e \in Memory /\ e.builder = y /\ e.book["bitget"] = x
      /\ e.book["hyperliquid"] = m.book["hyperliquid"]
      /\ e.cursor = m.cursor /\ e.processed = m.processed
  BY <1>1, <1>2, <1>3, <1>4 DEF Memory, Venues
<1>6. Holds(rows, m, z) /\ \A s \in Streams : m.cursor[s] <= Len(rows[s])
  BY DEF Good
<1>7. o = NoBook => x = NoBook
  BY <1>1, <1>4 DEF NoBook, Books, x
<1>8. d = {k \in y.snap + 1 .. z : ~rows["bb"][k].snapshot}
  BY <1>5 DEF DeltaIdentities, d
<1>9. d \in SUBSET Nat
  BY <1>1, <1>3, <1>8 DEF Builders
<1>10. CASE m.builder.status = "uninitialized"
  <2>1. RestoreDeltaIdentities(e) = e
    BY <1>3, <1>5, <1>10 DEF RestoreDeltaIdentities, RecoveryBoundary
  <2>2. m.builder = NoState /\ o = NoBook
    BY <1>6, <1>10 DEF Holds, BuilderOK
  <2>3. y = NoState
    BY <2>2 DEF y, ExportState, NoState
  <2>4. Holds(rows, e, z)
    BY <1>5, <1>7, <2>2, <2>3, NothingType DEF Holds, BuilderOK, NoState
  <2>5. Good(rows, e)
    BY <1>5, <2>4 DEF Good
  <2> QED
    BY <1>5, <2>1, <2>5 DEF e
<1>11. CASE m.builder.status # "uninitialized"
  <2> DEFINE i == IF e.book["bitget"] = NoBook THEN {} ELSE d
             u == [y EXCEPT !.ids = d]
             w == [x EXCEPT !.ids = i]
             r == RestoreDeltaIdentities(e)
  <2>1. r = [e EXCEPT !.builder = u, !.book["bitget"] = w]
    BY <1>3, <1>5, <1>11 DEF RestoreDeltaIdentities, RecoveryBoundary, Memory, Venues, d
  <2>2. i \in SUBSET Nat
    BY <1>9
  <2> HIDE DEF i
  <2>3. /\ u \in Builders /\ u.ids = d /\ u.status = y.status /\ u.snap = y.snap
        /\ u.seq = y.seq /\ u.epoch = y.epoch /\ u.ts = y.ts
    BY <1>3, <1>9 DEF Builders
  <2>4. w \in Books /\ w.ids = i /\ w.snap = x.snap /\ w.ts = x.ts
    BY <1>4, <2>2 DEF Books
  <2>5. u = [status |-> u.status, epoch |-> u.epoch, seq |-> u.seq, snap |-> u.snap,
             ids |-> u.ids, ts |-> u.ts]
    BY <2>3 DEF Builders
  <2>6. w = [snap |-> w.snap, ids |-> w.ids, ts |-> w.ts]
    BY <2>4 DEF Books
  <2> HIDE DEF u, w, r
  <2>7. /\ r \in Memory /\ r.builder = u /\ r.book["bitget"] = w
        /\ r.book["hyperliquid"] = m.book["hyperliquid"]
        /\ r.cursor = m.cursor /\ r.processed = m.processed
    BY <1>5, <2>1, <2>3, <2>4 DEF Memory, Venues
  <2>8. m.builder.status = "valid" =>
          /\ Chain(rows, u.snap, z) /\ u.ids = u.snap + 1 .. z
          /\ u.seq = rows["bb"][z].seq /\ u.epoch = rows["bb"][z].epoch /\ u.ts = rows["bb"][z].ts
          /\ u.snap # 0
    <3> SUFFICES ASSUME m.builder.status = "valid"
                 PROVE  /\ Chain(rows, u.snap, z) /\ u.ids = u.snap + 1 .. z
                        /\ u.seq = rows["bb"][z].seq /\ u.epoch = rows["bb"][z].epoch
                        /\ u.ts = rows["bb"][z].ts /\ u.snap # 0
      OBVIOUS
    <3>1. Chain(rows, u.snap, z) /\ u.seq = rows["bb"][z].seq /\ u.epoch = rows["bb"][z].epoch
          /\ u.ts = rows["bb"][z].ts
      BY <1>3, <1>6, <2>3 DEF Holds, BuilderOK
    <3>2. u.snap # 0 /\ \A k \in u.snap + 1 .. z : ~rows["bb"][k].snapshot
      BY <1>1, <3>1 DEF Chain
    <3>3. d = u.snap + 1 .. z
      BY <1>8, <2>3, <3>2
    <3> QED
      BY <2>3, <3>1, <3>2, <3>3
  <2>9. BuilderOK(rows, u, z)
    BY <1>3, <1>11, <2>3, <2>8 DEF BuilderOK
  <2>10. w # NoBook => u.status = "valid" /\ w = BookInput(u)
    <3> SUFFICES ASSUME w # NoBook PROVE u.status = "valid" /\ w = BookInput(u)
      OBVIOUS
    <3>1. x # NoBook
      <4> SUFFICES ASSUME x = NoBook PROVE w = NoBook
        OBVIOUS
      <4>1. i = {}
        BY <1>5 DEF i
      <4> QED
        BY <2>4, <2>6, <4>1 DEF NoBook
    <3>2. o # NoBook /\ m.builder.status = "valid" /\ o = BookInput(m.builder)
      BY <1>6, <1>7, <3>1 DEF Holds
    <3>3. i = d
      BY <1>5, <3>1 DEF i
    <3>4. w.snap = u.snap /\ w.ts = u.ts /\ w.ids = u.ids
      BY <1>3, <1>4, <2>3, <2>4, <3>2, <3>3 DEF BookInput
    <3> QED
      BY <1>3, <2>3, <2>6, <3>2, <3>4 DEF BookInput
  <2>11. Good(rows, r)
    BY <2>7, <2>9, <2>10 DEF Good, Holds
  <2> QED
    BY <1>5, <2>11 DEF e, r
<1> QED
  BY <1>10, <1>11

-----------------------------------------------------------------------------
(* R2 continues R.                                                         *)
Extends(R, R2) ==
    \A s \in Streams : /\ Len(R[s]) \in Nat /\ Len(R2[s]) \in Nat /\ Len(R[s]) <= Len(R2[s])
                       /\ \A k \in 1 .. Len(R[s]) : R2[s][k] = R[s][k]

(* Longer logs hold what shorter ones held.                                *)
LEMMA ChainStays ==
    ASSUME NEW R, NEW R2, Extends(R, R2), NEW a, NEW z, Chain(R, a, z)
    PROVE  Chain(R2, a, z) /\ R2["bb"][z] = R["bb"][z]
<1> DEFINE l == Len(R["bb"])
           l2 == Len(R2["bb"])
<1>1. /\ l \in Nat /\ l2 \in Nat /\ l <= l2
      /\ \A k \in 1 .. l : R2["bb"][k] = R["bb"][k]
  BY DEF Extends, Streams
<1>2. a \in 1 .. z /\ z \in 1 .. l
  BY DEF Chain
<1> HIDE DEF l, l2
<1>3. /\ \A k \in a .. z : k \in 1 .. l
      /\ \A k \in a + 1 .. z : k \in 1 .. l /\ k - 1 \in 1 .. l
      /\ z \in 1 .. l2 /\ a \in 1 .. l
  BY <1>1, <1>2
<1> QED
  BY <1>1, <1>2, <1>3 DEF Chain, l2

(* A Hyperliquid book stays in the longer log.                             *)
LEMMA HyperliquidStays ==
    ASSUME NEW R, NEW R2, Extends(R, R2), NEW b, Hyperliquid(R, b)
    PROVE  Hyperliquid(R2, b)
<1>1. \A k \in 1 .. Len(R["hb"]) : k \in 1 .. Len(R2["hb"]) /\ R2["hb"][k] = R["hb"][k]
  BY DEF Extends, Streams
<1> QED
  BY <1>1 DEF Hyperliquid

(* So does what a memory stands on.                                        *)
LEMMA GoodStays ==
    ASSUME NEW R, NEW R2, Extends(R, R2), NEW m, Good(R, m)
    PROVE  Good(R2, m)
<1>1. \A s \in Streams : m.cursor[s] <= Len(R2[s])
  BY DEF Extends, Good, Memory
<1>2. Hyperliquid(R2, m.book["hyperliquid"])
  BY HyperliquidStays DEF Good
<1>3. Holds(R2, m, m.cursor["bb"])
  BY ChainStays DEF Good, Holds, BuilderOK
<1> QED
  BY <1>1, <1>2, <1>3 DEF Good

(* So does what a batch stands on.                                         *)
LEMMA BatchStays ==
    ASSUME NEW R, NEW R2, Extends(R, R2), NEW b, BatchOK(R, b)
    PROVE  BatchOK(R2, b)
<1>1. Hyperliquid(R2, b.book["hyperliquid"])
  BY HyperliquidStays DEF BatchOK
<1>2. Bitget(R2, b.book["bitget"])
  <2> DEFINE o == b.book["bitget"]
  <2>1. CASE o = NoBook
    BY <2>1 DEF Bitget
  <2>2. CASE o # NoBook
    <3>1. PICK z \in 1 .. Len(R["bb"]) : /\ Chain(R, o.snap, z) /\ o.ids = o.snap + 1 .. z
                                           /\ o.ts = R["bb"][z].ts
      BY <2>2 DEF BatchOK, Bitget
    <3>2. Chain(R2, o.snap, z) /\ R2["bb"][z] = R["bb"][z]
      BY <3>1, ChainStays
    <3>3. z \in 1 .. Len(R2["bb"])
      BY <3>2 DEF Chain
    <3> QED
      BY <3>1, <3>2, <3>3 DEF Bitget
  <2> QED
    BY <2>1, <2>2
<1>3. Rated(R2, b.funding)
  <2> SUFFICES ASSUME NEW v \in Venues, b.funding[v] # 0
               PROVE  /\ b.funding[v] \in 1 .. Len(R2[FundingOf(v)])
                      /\ R2[FundingOf(v)][b.funding[v]].ok
    BY DEF Rated
  <2>1. FundingOf(v) \in Streams
    BY DEF FundingOf, Streams
  <2>2. /\ b.funding[v] \in 1 .. Len(R[FundingOf(v)]) /\ R[FundingOf(v)][b.funding[v]].ok
    BY DEF BatchOK, Rated
  <2> QED
    BY <2>1, <2>2 DEF Extends
<1> QED
  BY <1>1, <1>2, <1>3 DEF BatchOK

(* What an accepted candidate stands on.                                   *)
Backed(R, c) ==
    c.disposition = "candidate" =>
        /\ BatchOK(R, c)
        /\ \A v \in Venues : /\ c.funding[v] # 0 /\ c.book[v] # NoBook
                             /\ c.at - R[FundingOf(v)][c.funding[v]].ts <= FundingAge
                             /\ c.at - c.book[v].ts <= BookAge

(* And what an accepted candidate stands on.                               *)
LEMMA BackedStays ==
    ASSUME NEW R, NEW R2, Extends(R, R2), NEW c, Backed(R, c)
    PROVE  Backed(R2, c)
<1> SUFFICES ASSUME c.disposition = "candidate"
             PROVE  /\ BatchOK(R2, c)
                    /\ \A v \in Venues : /\ c.funding[v] # 0 /\ c.book[v] # NoBook
                                         /\ c.at - R2[FundingOf(v)][c.funding[v]].ts <= FundingAge
                                         /\ c.at - c.book[v].ts <= BookAge
  BY DEF Backed
<1>1. BatchOK(R, c) /\ BatchOK(R2, c)
  BY BatchStays DEF Backed
<1>2. \A v \in Venues : R2[FundingOf(v)][c.funding[v]] = R[FundingOf(v)][c.funding[v]]
  <2> SUFFICES ASSUME NEW v \in Venues
               PROVE  R2[FundingOf(v)][c.funding[v]] = R[FundingOf(v)][c.funding[v]]
    OBVIOUS
  <2>1. FundingOf(v) \in Streams
    BY DEF FundingOf, Streams
  <2>2. c.funding[v] \in 1 .. Len(R[FundingOf(v)])
    BY <1>1 DEF Backed, BatchOK, Rated
  <2> QED
    BY <2>1, <2>2 DEF Extends
<1> QED
  BY <1>1, <1>2 DEF Backed

(* The checkpoint was exported from a good memory.                         *)
SavedOK(R, c) ==
    /\ c.state.processed = Sum(c.state.cursor, Streams)
    /\ c.known => \E m : Good(R, m) /\ c.state = Exported(m)

(* The inductive invariant of the reader and the evaluator, when the query *)
(* of a rollback does not fail.                                            *)
ShadowInv ==
    /\ ~RollbackQueryMayFail
    /\ Logs(rows) /\ now \in Nat
    /\ Good(rows, mem) /\ SavedOK(rows, saved)
    /\ BatchOK(rows, pending) /\ BatchOK(rows, batch)
    /\ \A c \in candidates : Backed(rows, c)

-----------------------------------------------------------------------------
(* A reader that has read nothing, and no batch.                           *)
LEMMA FreshGood ==
    ASSUME Logs(rows)
    PROVE  Good(rows, Fresh) /\ BatchOK(rows, NoBatch) /\ Fresh.processed = Sum(Fresh.cursor, Streams)
<1> DEFINE z == [s \in Streams |-> 0]
           f == [v \in Venues |-> 0]
           o == [v \in Venues |-> NoBook]
<1>1. /\ Fresh = [cursor |-> z, funding |-> f, book |-> o, builder |-> NoState, reason |-> FALSE,
                  pair |-> NoPair, processed |-> 0]
      /\ NoBatch.funding = f /\ NoBatch.book = o
  BY DEF Fresh, NoBatch
<1>2. z \in [Streams -> Nat] /\ f \in [Venues -> Nat] /\ o \in [Venues -> Books] /\ NoPair \in Pairs
  BY NothingType DEF NoPair, Pairs
<1>3. Sum(z, Streams) = 0
  <2>1. \A s \in Streams : z[s] = 0
    OBVIOUS
  <2> HIDE DEF z
  <2> QED
    BY <2>1, StreamsFinite, SumOfZeros
<1>4. \A v \in Venues : f[v] = 0 /\ o[v] = NoBook
  OBVIOUS
<1>5. \A s \in Streams : z[s] <= Len(rows[s])
  BY DEF Logs
<1>6. BuilderOK(rows, NoState, z["bb"])
  BY NothingType DEF BuilderOK, NoState
<1> HIDE DEF z, f, o
<1>7. Fresh \in Memory
  BY <1>1, <1>2, NothingType DEF Memory
<1>8. Good(rows, Fresh)
  BY <1>1, <1>3, <1>4, <1>5, <1>6, <1>7 DEF Good, Holds, Hyperliquid, Venues
<1>9. BatchOK(rows, NoBatch)
  BY <1>1, <1>2, <1>4 DEF BatchOK, Rated, Hyperliquid, Bitget, Venues
<1> QED
  BY <1>1, <1>3, <1>8, <1>9

(* A row that the collector may store leaves the logs well formed.         *)
LEMMA LogsExtend ==
    ASSUME Logs(rows), NEW s \in Streams, NEW r \in Row, rows' = [rows EXCEPT ![s] = Append(@, r)],
           s = "bb" => r.seq > LastBook.seq
    PROVE  Logs(rows)' /\ Extends(rows, rows')
<1> DEFINE l == Len(rows[s])
<1>1. \A x \in Streams : rows[x] \in Seq(Row) /\ Len(rows[x]) \in Nat
  BY DEF Logs
<1>2. rows' \in [Streams -> Seq(Row)]
  BY <1>1 DEF Logs
<1>3. /\ rows'[s] = Append(rows[s], r) /\ \A x \in Streams : x # s => rows'[x] = rows[x]
  BY DEF Logs
<1>4. Len(rows'[s]) = l + 1 /\ (\A k \in 1 .. l : rows'[s][k] = rows[s][k]) /\ rows'[s][l + 1] = r
  BY <1>1, <1>3
<1>5. Extends(rows, rows')
  BY <1>1, <1>3, <1>4 DEF Extends
<1>6. ASSUME NEW j \in 1 .. Len(rows'["bb"]), NEW k \in 1 .. Len(rows'["bb"]), j < k
      PROVE  rows'["bb"][j].seq < rows'["bb"][k].seq
  <2>1. CASE s # "bb"
    BY <1>3, <1>6, <2>1 DEF Logs, Streams
  <2>2. CASE s = "bb" /\ k \in 1 .. l
    <3>1. j \in 1 .. l
      BY <1>1, <1>6, <2>2
    <3> QED
      BY <1>4, <1>6, <2>2, <3>1 DEF Logs
  <2>3. CASE s = "bb" /\ k \notin 1 .. l
    <3>1. k = l + 1 /\ j \in 1 .. l /\ l \in 1 .. l /\ l \in Nat
      BY <1>1, <1>4, <1>6, <2>3
    <3>2. rows["bb"] # <<>> /\ LastBook = rows["bb"][l]
      BY <1>1, <2>3, <3>1 DEF LastBook, Last
    <3>3. rows["bb"][j].seq \in Nat /\ rows["bb"][l].seq \in Nat /\ r.seq \in Nat
      BY <2>3, <3>1, RowType DEF Row
    <3>4. j = l \/ rows["bb"][j].seq < rows["bb"][l].seq
      BY <2>3, <3>1 DEF Logs
    <3>5. rows'["bb"][j] = rows["bb"][j] /\ rows'["bb"][k] = r /\ r.seq > rows["bb"][l].seq
      BY <1>4, <2>3, <3>1, <3>2
    <3>6. rows["bb"][j].seq < r.seq
      BY <3>3, <3>4, <3>5
    <3> QED
      BY <3>5, <3>6
  <2> QED
    BY <2>1, <2>2, <2>3
<1> QED
  BY <1>2, <1>5, <1>6 DEF Logs

(* The number of the last stored book.                                     *)
LEMMA LastBookType ==
    ASSUME Logs(rows)
    PROVE  LastBook.seq \in Nat /\ LastBook.epoch \in Nat
<1>1. rows["bb"] \in Seq(Row)
  BY DEF Logs, Streams
<1>2. CASE rows["bb"] = <<>>
  BY <1>2 DEF LastBook
<1>3. CASE rows["bb"] # <<>>
  <2>1. Len(rows["bb"]) \in 1 .. Len(rows["bb"])
    BY <1>1, <1>3
  <2> QED
    BY <1>3, <2>1, RowType DEF LastBook, Last, Streams
<1> QED
  BY <1>2, <1>3

(* The collector appends a row to one stream.                              *)
LEMMA CollectExtends ==
    ASSUME ShadowInv, Collect
    PROVE  /\ Logs(rows)' /\ Extends(rows, rows')
           /\ UNCHANGED <<now, mem, saved, pending, batch, candidates>>
<1>0. now \in Nat /\ Logs(rows) /\ LastBook.seq \in Nat /\ LastBook.epoch \in Nat
  BY LastBookType DEF ShadowInv
<1>1. UNCHANGED <<now, mem, saved, pending, batch, candidates>>
  BY DEF Collect, CollectSingle, CollectSnapshot, CollectDelta, reader, service
<1>2. PICK s \in Streams, r \in Row :
         rows' = [rows EXCEPT ![s] = Append(@, r)] /\ (s = "bb" => r.seq > LastBook.seq)
  <2>1. CASE CollectSingle
    <3>1. PICK s \in {"hf", "hb", "bf"}, ok \in BOOLEAN :
             Insert(s, [snapshot |-> s = "hb", ok |-> ok, epoch |-> 0, seq |-> 0, prev |-> 0,
                        ts |-> now], FALSE)
      BY <2>1 DEF CollectSingle
    <3> DEFINE r == [snapshot |-> s = "hb", ok |-> ok, epoch |-> 0, seq |-> 0, prev |-> 0, ts |-> now]
    <3>2. r \in Row /\ s \in Streams /\ s # "bb" /\ rows' = [rows EXCEPT ![s] = Append(@, r)]
      BY <1>0, <3>1 DEF Row, Streams, Insert
    <3> QED
      BY <3>2
  <2>2. CASE CollectSnapshot
    <3>1. PICK e \in {LastBook.epoch, LastBook.epoch + 1}, ok \in BOOLEAN :
             Insert("bb", [snapshot |-> TRUE, ok |-> ok, epoch |-> e, seq |-> LastBook.seq + 1,
                           prev |-> LastBook.seq, ts |-> now], e # LastBook.epoch)
      BY <2>2 DEF CollectSnapshot
    <3> DEFINE r == [snapshot |-> TRUE, ok |-> ok, epoch |-> e, seq |-> LastBook.seq + 1,
                     prev |-> LastBook.seq, ts |-> now]
    <3>2. /\ r \in Row /\ "bb" \in Streams /\ r.seq > LastBook.seq
          /\ rows' = [rows EXCEPT !["bb"] = Append(@, r)]
      BY <1>0, <3>1 DEF Row, Streams, Insert
    <3> QED
      BY <3>2
  <2>3. CASE CollectDelta
    <3>1. PICK skip \in {0, 1}, e \in {LastBook.epoch, LastBook.epoch + 1}, ok \in BOOLEAN :
             Insert("bb", [snapshot |-> FALSE, ok |-> ok, epoch |-> e,
                           seq |-> LastBook.seq + skip + 1, prev |-> LastBook.seq + skip,
                           ts |-> now], skip = 1 \/ e # LastBook.epoch)
      BY <2>3 DEF CollectDelta
    <3> DEFINE r == [snapshot |-> FALSE, ok |-> ok, epoch |-> e, seq |-> LastBook.seq + skip + 1,
                     prev |-> LastBook.seq + skip, ts |-> now]
    <3>2. /\ r \in Row /\ "bb" \in Streams /\ r.seq > LastBook.seq
          /\ rows' = [rows EXCEPT !["bb"] = Append(@, r)]
      BY <1>0, <3>1 DEF Row, Streams, Insert
    <3> QED
      BY <3>2
  <2> QED
    BY <2>1, <2>2, <2>3 DEF Collect
<1> QED
  BY <1>0, <1>1, <1>2, LogsExtend

(* A stored row changes nothing that was read.                             *)
LEMMA CollectHolds ==
    ASSUME ShadowInv, Collect
    PROVE  ShadowInv'
<1>1. /\ Logs(rows)' /\ Extends(rows, rows')
      /\ UNCHANGED <<now, mem, saved, pending, batch, candidates>>
  BY CollectExtends
<1>2. Good(rows', mem)
  BY <1>1, GoodStays DEF ShadowInv
<1>3. BatchOK(rows', pending) /\ BatchOK(rows', batch)
  BY <1>1, BatchStays DEF ShadowInv
<1>4. \A c \in candidates : Backed(rows', c)
  BY <1>1, BackedStays DEF ShadowInv
<1>5. SavedOK(rows', saved)
  <2>1. SavedOK(rows, saved)
    BY DEF ShadowInv
  <2>2. ASSUME saved.known PROVE \E m : Good(rows', m) /\ saved.state = Exported(m)
    <3>1. PICK m : Good(rows, m) /\ saved.state = Exported(m)
      BY <2>1, <2>2 DEF SavedOK
    <3>2. Good(rows', m)
      BY <1>1, <3>1, GoodStays
    <3> QED
      BY <3>1, <3>2
  <2> QED
    BY <2>1, <2>2 DEF SavedOK
<1> QED
  BY <1>1, <1>2, <1>3, <1>4, <1>5 DEF ShadowInv

(* A read leaves a good memory, and its checkpoint.                        *)
LEMMA ReadGood ==
    ASSUME ShadowInv
    PROVE  LET e == Evaluate(Consumed(mem, now), now) IN
           Good(rows, e.state) /\ BatchOK(rows, e.result)
<1> DEFINE n == Consumed(mem, now)
<1>1. Logs(rows) /\ now \in Nat /\ Good(rows, mem)
  BY DEF ShadowInv
<1>2. Good(rows, n) /\ Rated(rows, n.funding)
  BY <1>1, ConsumedGood
<1> HIDE DEF n
<1>3. Good(rows, Evaluate(n, now).state) /\ BatchOK(rows, Evaluate(n, now).result)
  BY <1>1, <1>2, EvaluateGood
<1> QED
  BY <1>3 DEF n

(* The checkpoint of a good memory can be restored.                        *)
LEMMA CheckpointOK ==
    ASSUME Logs(rows), NEW m, Good(rows, m)
    PROVE  SavedOK(rows, Checkpoint(m))
<1>1. Exported(m).processed = Sum(Exported(m).cursor, Streams)
  BY RestoreGood DEF Good
<1>2. Checkpoint(m).known /\ Checkpoint(m).state = Exported(m)
  BY DEF Checkpoint
<1> QED
  BY <1>1, <1>2 DEF SavedOK

(* The invariant holds of other contents of the reader and the service.    *)
LEMMA Reassemble ==
    ASSUME ShadowInv, rows' = rows, now' \in Nat, Good(rows, mem'), SavedOK(rows, saved'),
           BatchOK(rows, pending'), BatchOK(rows, batch'), \A c \in candidates' : Backed(rows, c)
    PROVE  ShadowInv'
  BY DEF ShadowInv

(* A read keeps the invariant, whether its commit succeeds or not.         *)
LEMMA ReadHolds ==
    ASSUME ShadowInv, ReadSucceeds \/ ReadFails
    PROVE  ShadowInv'
<1> DEFINE e == Evaluate(Consumed(mem, now), now)
<1>0. /\ Logs(rows) /\ now \in Nat /\ Good(rows, mem) /\ SavedOK(rows, saved) /\ ~RollbackQueryMayFail
      /\ BatchOK(rows, batch) /\ \A c \in candidates : Backed(rows, c)
  BY DEF ShadowInv
<1>1. Good(rows, e.state) /\ BatchOK(rows, e.result)
  BY ReadGood
<1>2. SavedOK(rows, Checkpoint(e.state)) /\ SavedOK(rows, Checkpoint(mem))
  <2> HIDE DEF e
  <2> QED
    BY <1>0, <1>1, CheckpointOK
<1>3. UNCHANGED <<rows, now, batch, candidates>>
  BY DEF ReadSucceeds, ReadFails
<1>4. CASE ReadSucceeds
  <2>1. mem' = e.state /\ saved' = Checkpoint(e.state) /\ pending' = e.result
    BY <1>4 DEF ReadSucceeds
  <2> HIDE DEF e
  <2> QED
    BY <1>0, <1>1, <1>2, <1>3, <2>1, Reassemble
<1>5. CASE ReadFails
  <2>1. /\ mem' = RolledBack(mem) /\ saved' \in {saved, Checkpoint(e.state), Checkpoint(mem)}
        /\ pending' = NoBatch
    BY <1>0, <1>5 DEF ReadFails
  <2>2. Good(rows, RolledBack(mem))
    BY <1>0, RestoreGood DEF RolledBack
  <2>3. BatchOK(rows, NoBatch)
    BY <1>0, FreshGood
  <2> HIDE DEF e
  <2> QED
    BY <1>0, <1>2, <1>3, <2>1, <2>2, <2>3, Reassemble
<1> QED
  BY <1>4, <1>5

(* What the evaluator accepts it has validated at the time of the          *)
(* decision.                                                               *)
LEMMA CandidateBacked ==
    ASSUME ShadowInv, NEW edge \in BOOLEAN
    PROVE  Backed(rows, Candidate(batch, now, edge))
<1> DEFINE c == Candidate(batch, now, edge)
<1>1. /\ c.disposition = Disposition(batch, now, edge) /\ c.at = now
      /\ c.funding = batch.funding /\ c.book = batch.book
  BY DEF Candidate
<1>2. BatchOK(rows, batch) /\ Logs(rows) /\ now \in Nat
  BY DEF ShadowInv
<1> HIDE DEF c
<1> SUFFICES ASSUME c.disposition = "candidate"
             PROVE  /\ BatchOK(rows, c)
                    /\ \A v \in Venues : /\ c.funding[v] # 0 /\ c.book[v] # NoBook
                                         /\ c.at - rows[FundingOf(v)][c.funding[v]].ts <= FundingAge
                                         /\ c.at - c.book[v].ts <= BookAge
  BY DEF Backed, c
<1>3. ~Missing(batch) /\ ~TimingRejection(batch, now)
  BY <1>1 DEF Disposition, Validated
<1>4. BatchOK(rows, c)
  BY <1>1, <1>2 DEF BatchOK
<1>5. ASSUME NEW v \in Venues
      PROVE  /\ batch.funding[v] # 0 /\ batch.book[v] # NoBook
             /\ now - rows[FundingOf(v)][batch.funding[v]].ts <= FundingAge
             /\ now - batch.book[v].ts <= BookAge
  <2>1. batch.funding[v] # 0 /\ batch.book[v] # NoBook
    BY <1>3 DEF Missing
  <2>2. ~(now - FundingTs(batch, v) > FundingAge) /\ ~(now - batch.book[v].ts > BookAge)
    BY <1>3 DEF TimingRejection
  <2>3. FundingOf(v) \in Streams
    BY DEF FundingOf, Streams
  <2>4. batch.funding[v] \in 1 .. Len(rows[FundingOf(v)])
    BY <1>2, <2>1 DEF BatchOK, Rated
  <2>5. FundingTs(batch, v) = rows[FundingOf(v)][batch.funding[v]].ts /\ FundingTs(batch, v) \in Nat
    BY <1>2, <2>3, <2>4, RowType DEF FundingTs
  <2>6. batch.book[v] \in Books
    BY <1>2 DEF BatchOK
  <2>7. batch.book[v].ts \in Nat
    BY <2>6 DEF Books
  <2>8. FundingAge \in Nat /\ BookAge \in Nat
    BY ShadowAssumption
  <2>9. \A x, y \in Nat : ~(now - x > y) => now - x <= y
    BY <1>2
  <2> QED
    BY <2>1, <2>2, <2>5, <2>7, <2>8, <2>9
<1> QED
  BY <1>1, <1>4, <1>5

(* Recording a candidate keeps the invariant.                              *)
LEMMA SignalHolds ==
    ASSUME ShadowInv, SignalTick
    PROVE  ShadowInv'
<1>1. PICK edge \in BOOLEAN : RecordShadowCandidate(Candidate(batch, now, edge))
  BY DEF SignalTick
<1> DEFINE c == Candidate(batch, now, edge)
<1>2. Backed(rows, c)
  BY CandidateBacked
<1>3. candidates' = candidates \/ candidates' = candidates \cup {c}
  BY <1>1 DEF RecordShadowCandidate
<1>4. UNCHANGED <<rows, now, mem, saved, pending, batch>>
  BY DEF SignalTick, reader
<1> HIDE DEF c
<1> QED
  BY <1>2, <1>3, <1>4, Reassemble DEF ShadowInv

(* A restart finds in the checkpoint what the reader had; the other steps  *)
(* of the run empty the reader or the batch, or leave both alone.          *)
LEMMA RunHolds ==
    ASSUME ShadowInv, Tick \/ Deliver \/ Crash \/ Restart \/ Finish
    PROVE  ShadowInv'
<1>1. /\ Logs(rows) /\ now \in Nat /\ Good(rows, mem) /\ SavedOK(rows, saved)
      /\ BatchOK(rows, pending) /\ BatchOK(rows, batch) /\ \A c \in candidates : Backed(rows, c)
  BY DEF ShadowInv
<1>2. Good(rows, Fresh) /\ BatchOK(rows, NoBatch)
  BY <1>1, FreshGood
<1>3. CASE Tick
  BY <1>1, <1>3, Reassemble DEF Tick, reader, service
<1>4. CASE Deliver
  BY <1>1, <1>2, <1>4, Reassemble DEF Deliver, reader
<1>5. CASE Crash
  BY <1>1, <1>2, <1>5, Reassemble DEF Crash
<1>6. CASE Restart
  <2>1. ASSUME saved.known PROVE Good(rows, RestoreCheckpoint(saved))
    <3>1. PICK m : Good(rows, m) /\ saved.state = Exported(m)
      BY <1>1, <2>1 DEF SavedOK
    <3> QED
      BY <1>1, <3>1, RestoreGood DEF RestoreCheckpoint
  <2>2. Good(rows, mem')
    BY <1>2, <1>6, <2>1 DEF Restart
  <2> QED
    BY <1>1, <1>6, <2>2, Reassemble DEF Restart, service
<1>7. CASE Finish
  BY <1>1, <1>2, <1>7, Reassemble DEF Finish
<1> QED
  BY <1>3, <1>4, <1>5, <1>6, <1>7

(* Every step keeps the invariant.                                         *)
LEMMA ShadowStep == ShadowInv /\ [Next]_vars => ShadowInv'
<1> SUFFICES ASSUME ShadowInv, [Next]_vars PROVE ShadowInv'
  OBVIOUS
<1>1. CASE UNCHANGED <<rows, now, reader, service>>
  BY <1>1, Reassemble DEF ShadowInv, reader, service
<1>2. CASE Finalize \/ Over \/ UNCHANGED vars
  BY <1>1, <1>2 DEF Finalize, WriteManifest, WriteSha, WriteLifecycle, WriteMarker, WriteFails,
     FailureLifecycle, FailureManifest, FailureSha, Unlink, Killed, Over, vars
<1> QED
  BY <1>2, CollectHolds, ReadHolds, SignalHolds, RunHolds DEF Next

(* The run starts in the invariant.                                        *)
LEMMA ShadowStart == ~RollbackQueryMayFail /\ Init => ShadowInv
<1> SUFFICES ASSUME ~RollbackQueryMayFail, Init PROVE ShadowInv
  OBVIOUS
<1>1. Logs(rows)
  <2>1. rows = Seed /\ Seed \in [Streams -> Seq(Row)]
    BY ShadowAssumption DEF Init
  <2>2. Seed["bb"] \in Seq(Row)
    BY <2>1 DEF Streams
  <2>3. DOMAIN Seed["bb"] = 1 .. Len(Seed["bb"])
    BY <2>2
  <2> QED
    BY <2>1, <2>3, ShadowAssumption DEF Logs
<1>2. Good(rows, Fresh) /\ BatchOK(rows, NoBatch) /\ Fresh.processed = Sum(Fresh.cursor, Streams)
  BY <1>1, FreshGood
<1>3. /\ mem = Fresh /\ saved.known = FALSE /\ saved.state = Fresh /\ pending = NoBatch
      /\ batch = NoBatch /\ candidates = {} /\ now = 0
  BY DEF Init
<1>4. SavedOK(rows, saved)
  BY <1>2, <1>3 DEF SavedOK
<1> QED
  BY <1>1, <1>2, <1>3, <1>4 DEF ShadowInv

-----------------------------------------------------------------------------
(* What the invariant says of the counts.                                  *)
LEMMA CountsFollow == ShadowInv => CountsExact
<1> SUFFICES ASSUME ShadowInv PROVE CountsExact
  OBVIOUS
<1>1. Logs(rows) /\ Good(rows, mem) /\ SavedOK(rows, saved)
  BY DEF ShadowInv
<1>2. mem.processed = Behind(mem) /\ saved.state.processed = Behind(saved.state)
  BY <1>1 DEF Good, SavedOK, Behind, Total, Sum
<1>3. ASSUME mem.book["bitget"] # NoBook
      PROVE  /\ mem.book["bitget"].ids = Updates(mem.book["bitget"].snap, mem.cursor["bb"])
             /\ mem.book["bitget"].ids = mem.builder.ids
             /\ mem.book["bitget"].snap = mem.builder.snap
  <2> DEFINE b == mem.builder
             z == mem.cursor["bb"]
  <2>1. mem.book["bitget"] = BookInput(b) /\ Chain(rows, b.snap, z) /\ b.ids = b.snap + 1 .. z
    BY <1>1, <1>3 DEF Good, Holds, BuilderOK
  <2>2. mem.book["bitget"].ids = b.ids /\ mem.book["bitget"].snap = b.snap
    BY <2>1 DEF BookInput
  <2>3. \A k \in b.snap + 1 .. z : ~rows["bb"][k].snapshot
    BY <2>1 DEF Chain
  <2> HIDE DEF b, z
  <2>4. Updates(b.snap, z) = b.snap + 1 .. z
    BY <2>3 DEF Updates
  <2> QED
    BY <2>1, <2>2, <2>4 DEF b, z
<1> QED
  BY <1>2, <1>3 DEF CountsExact

(* CountsExact: through failed, repeated and interrupted reads every       *)
(* stored event is counted and applied once, as long as the query of the   *)
(* rollback does not fail as well (read, commit_shadow_input_checkpoint,   *)
(* _restore_delta_identities).                                             *)
THEOREM CountsAreExact == ~RollbackQueryMayFail /\ Spec => []CountsExact
<1>1. ShadowInv /\ [Next]_vars => ShadowInv'
  BY ShadowStep
<1>2. ~RollbackQueryMayFail /\ Init => ShadowInv
  BY ShadowStart
<1>3. ShadowInv => CountsExact
  BY CountsFollow
<1> QED
  BY <1>1, <1>2, <1>3, PTL DEF Spec

-----------------------------------------------------------------------------
(* The ends of an interval are its extremes.                               *)
LEMMA Extremes ==
    ASSUME NEW a \in Nat, NEW z \in Nat, a <= z
    PROVE  Min(a .. z) = a /\ Max(a .. z) = z
<1>1. a \in a .. z /\ z \in a .. z /\ \A k \in a .. z : a <= k /\ k <= z /\ k \in Int
  OBVIOUS
<1>2. \A x \in a .. z : (\A y \in a .. z : x <= y) => x = a
  BY <1>1
<1>3. \A x \in a .. z : (\A y \in a .. z : x >= y) => x = z
  BY <1>1
<1>4. Min(a .. z) = a
  BY <1>1, <1>2 DEF Min
<1>5. Max(a .. z) = z
  BY <1>1, <1>3 DEF Max
<1> QED
  BY <1>4, <1>5

(* What the invariant says of an accepted candidate.                       *)
LEMMA CandidatesFollow == ShadowInv => CandidatesSound
<1> SUFFICES ASSUME ShadowInv, NEW c \in candidates, c.disposition = "candidate"
             PROVE
            /\ \A v \in Venues : LET r == rows[FundingOf(v)][c.funding[v]]
                                  IN  r.ok /\ c.at - r.ts <= FundingAge
            /\ LET r == rows["hb"][c.book["hyperliquid"].snap]
               IN  r.ok /\ c.at - r.ts <= BookAge
            /\ LET sources == c.book["bitget"].ids \cup {c.book["bitget"].snap}
                   book == rows["bb"]
               IN  /\ sources = Min(sources) .. Max(sources) /\ book[Min(sources)].snapshot
                   /\ \A k \in sources : book[k].ok
                   /\ \A k \in sources \ {Min(sources)} : /\ book[k].prev = book[k - 1].seq
                                                         /\ book[k].epoch = book[k - 1].epoch
                   /\ c.at - book[Max(sources)].ts <= BookAge
  BY DEF CandidatesSound
<1>1. /\ BatchOK(rows, c)
      /\ \A v \in Venues : /\ c.funding[v] # 0 /\ c.book[v] # NoBook
                           /\ c.at - rows[FundingOf(v)][c.funding[v]].ts <= FundingAge
                           /\ c.at - c.book[v].ts <= BookAge
  BY DEF ShadowInv, Backed
<1>2. \A v \in Venues : /\ rows[FundingOf(v)][c.funding[v]].ok
                        /\ c.at - rows[FundingOf(v)][c.funding[v]].ts <= FundingAge
  BY <1>1 DEF BatchOK, Rated
<1>3. /\ rows["hb"][c.book["hyperliquid"].snap].ok
      /\ c.at - rows["hb"][c.book["hyperliquid"].snap].ts <= BookAge
  <2>1. PICK k \in 1 .. Len(rows["hb"]) :
           /\ rows["hb"][k].ok
           /\ c.book["hyperliquid"] = [snap |-> k, ids |-> {}, ts |-> rows["hb"][k].ts]
    BY <1>1 DEF BatchOK, Hyperliquid, Venues
  <2> QED
    BY <1>1, <2>1 DEF Venues
<1> DEFINE b == c.book["bitget"]
           sources == b.ids \cup {b.snap}
<1>4. PICK z \in 1 .. Len(rows["bb"]) : /\ Chain(rows, b.snap, z) /\ b.ids = b.snap + 1 .. z
                                        /\ b.ts = rows["bb"][z].ts
  BY <1>1 DEF BatchOK, Bitget, Venues
<1>0. Len(rows["bb"]) \in Nat /\ z \in Nat
  BY DEF ShadowInv, Logs, Streams
<1>5. /\ b.snap \in 1 .. z /\ z \in Nat /\ rows["bb"][b.snap].snapshot
      /\ \A k \in b.snap .. z : rows["bb"][k].ok
      /\ \A k \in b.snap + 1 .. z : /\ rows["bb"][k].prev = rows["bb"][k - 1].seq
                                    /\ rows["bb"][k].epoch = rows["bb"][k - 1].epoch
  BY <1>0, <1>4 DEF Chain
<1>6. c.at - b.ts <= BookAge
  BY <1>1 DEF Venues
<1> HIDE DEF b
<1>7. sources = b.snap .. z /\ b.snap \in Nat /\ b.snap <= z
  BY <1>4, <1>5
<1>8. Min(sources) = b.snap /\ Max(sources) = z
  <2>1. Min(b.snap .. z) = b.snap /\ Max(b.snap .. z) = z
    BY <1>5, <1>7, Extremes
  <2> QED
    BY <1>7, <2>1
<1> HIDE DEF sources
<1>9. \A k \in sources \ {Min(sources)} : k \in b.snap + 1 .. z
  BY <1>5, <1>7, <1>8
<1>10. /\ sources = Min(sources) .. Max(sources) /\ rows["bb"][Min(sources)].snapshot
       /\ \A k \in sources : rows["bb"][k].ok
       /\ \A k \in sources \ {Min(sources)} : /\ rows["bb"][k].prev = rows["bb"][k - 1].seq
                                              /\ rows["bb"][k].epoch = rows["bb"][k - 1].epoch
       /\ c.at - rows["bb"][Max(sources)].ts <= BookAge
  BY <1>4, <1>5, <1>6, <1>7, <1>8, <1>9
<1> QED
  BY <1>2, <1>3, <1>10 DEF sources, b

(* CandidatesSound: an accepted candidate stands on well formed sources,   *)
(* on Bitget updates that follow their snapshot without a gap, and on      *)
(* inputs timely at the decision, however the reads failed before and      *)
(* however long the batch waited, as long as the query of a rollback does  *)
(* not fail as well (apply_bitget, _validate_inputs).                      *)
THEOREM CandidatesAreSound == ~RollbackQueryMayFail /\ Spec => []CandidatesSound
<1>1. ShadowInv /\ [Next]_vars => ShadowInv'
  BY ShadowStep
<1>2. ~RollbackQueryMayFail /\ Init => ShadowInv
  BY ShadowStart
<1>3. ShadowInv => CandidatesSound
  BY CandidatesFollow
<1> QED
  BY <1>1, <1>2, <1>3, PTL DEF Spec
=============================================================================
