------------------------- MODULE OrderBookStream_proofs -------------------------
(***************************************************************************)
(* A synchronized order book is exact, for every number of updates,        *)
(* faults, messages under way, every buffer and every cache.               *)
(*                                                                         *)
(* BookIsExact is not inductive.  After a stream snapshot whose buffered   *)
(* deltas were replayed, previous_sequence is behind the book, and the     *)
(* delta after it is contiguous for _is_contiguous although the book has   *)
(* it.  Ahead says what keeps it from being applied twice: it is in the    *)
(* duplicate cache.  Mirrored says why it is: before the snapshot cache    *)
(* and buffer hold the same deltas, and the cache has room for one more.   *)
(*                                                                         *)
(* The broker that trades on such a stream follows in the second part.     *)
(***************************************************************************)
EXTENDS OrderBookStream, PaperBroker, SumTheorems, TLAPS

Message(h) == [kind : {"delta", "snapshot", "error"}, k : 0 .. h]

Recons == {"DISCONNECTED", "WAITING_FOR_SNAPSHOT", "SNAPSHOT_LOADING", "BUFFERING_DELTAS",
           "SYNCHRONIZED", "DEGRADED"}

Typed ==
    /\ rest \in BOOLEAN
    /\ recon \in Recons
    /\ head \in Nat
    /\ queue \in Seq(Message(head))
    /\ previous \in Nat
    /\ buffered \in Seq(0 .. head)
    /\ seen \in Seq(Message(head))

(* The cache s holds the buffered deltas b and nothing else.               *)
Mirrored(s, b) ==
    /\ Len(s) = Len(b) /\ Len(b) <= MaxBuffered
    /\ \A i \in DOMAIN b : s[i] = Delta(b[i])

(* The book b holds 1 .. n; what it holds beyond p the cache s knows.      *)
Ahead(b, p, s, h) ==
    \E n \in 0 .. h :
        /\ b = Updates(n) /\ p <= n
        /\ \A k \in (p + 1) .. n : Contains(s, Delta(k))

StreamInv ==
    /\ Typed
    /\ pc = "loop" /\ recon # "SYNCHRONIZED" =>
           ~rest /\ (MaxBuffered < CacheSize => Mirrored(seen, buffered))
    /\ pc = "loop" /\ recon = "SYNCHRONIZED" =>
           /\ buffered = <<>>
           /\ rest \/ MaxBuffered < CacheSize => Ahead(book, previous, seen, head)

-----------------------------------------------------------------------------
(* Sequences.                                                              *)

(* A sequence over a set is one over a larger set.                         *)
LEMMA SeqGrows ==
    ASSUME NEW S, NEW T, S \subseteq T, NEW s \in Seq(S)
    PROVE  s \in Seq(T)
<1>1. Len(s) \in Nat /\ s \in [1 .. Len(s) -> S]
  OBVIOUS
<1>2. s \in [1 .. Len(s) -> T]
  BY <1>1
<1> QED
  BY <1>1, <1>2

(* Messages and buffers stay well typed when the venue moves on.           *)
LEMMA Wider ==
    ASSUME NEW h \in Nat, NEW h2 \in Nat, h <= h2
    PROVE  /\ \A s \in Seq(Message(h)) : s \in Seq(Message(h2))
           /\ \A s \in Seq(0 .. h) : s \in Seq(0 .. h2)
<1>1. 0 .. h \subseteq 0 .. h2
  OBVIOUS
<1>2. Message(h) \subseteq Message(h2)
  BY <1>1 DEF Message
<1> QED
  BY <1>1, <1>2, SeqGrows

(* The messages of the venue and of the reader are messages.               *)
LEMMA Messages ==
    ASSUME NEW h \in Nat, NEW k \in 0 .. h
    PROVE  Delta(k) \in Message(h) /\ Snapshot(k) \in Message(h) /\ Failure \in Message(h)
<1>1. 0 \in 0 .. h
  OBVIOUS
<1> QED
  BY <1>1 DEF Delta, Snapshot, Failure, Message

(* The duplicate cache keeps its type, evicting or not (_seen_payload).    *)
LEMMA SeenTyped ==
    ASSUME NEW S, NEW s \in Seq(S), NEW m \in S
    PROVE  SeenPayload(s, m) \in Seq(S)
<1>0. CacheSize \in Nat /\ CacheSize # 0
  BY StreamAssumption
<1>1. CASE Len(s) >= CacheSize
  <2>1. s # <<>>
    BY <1>0, <1>1
  <2>2. Tail(s) \in Seq(S)
    BY <2>1
  <2> QED
    BY <1>1, <2>2 DEF SeenPayload
<1>2. CASE ~(Len(s) >= CacheSize)
  BY <1>2 DEF SeenPayload
<1> QED
  BY <1>1, <1>2

-----------------------------------------------------------------------------
(* Sorting.                                                                *)

(* The least element of a set of naturals is in it.                        *)
LEMMA MinIn ==
    ASSUME NEW T \in SUBSET Nat, T # {}
    PROVE  Min(T) \in T
<1>1. \E m \in T : \A y \in T : m <= y
  BY LeastNat
<1> QED
  BY <1>1 DEF Min

(* Numbers with a bound have a largest one.                                *)
LEMMA Largest ==
    ASSUME NEW h \in Nat, NEW V \in SUBSET (0 .. h), V # {}
    PROVE  \E v \in V : \A w \in V : w <= v
<1> DEFINE T == {h - v : v \in V}
<1>1. T \in SUBSET Nat /\ T # {}
  <2>1. \A v \in V : v \in 0 .. h /\ h - v \in Nat
    OBVIOUS
  <2> QED
    BY <2>1
<1>2. PICK m \in T : \A y \in T : m <= y
  BY <1>1, LeastNat
<1>3. PICK v \in V : m = h - v
  BY <1>2
<1>4. ASSUME NEW w \in V PROVE w <= v
  <2>1. h - w \in T
    OBVIOUS
  <2>2. h - v <= h - w
    BY <2>1, <1>2, <1>3
  <2>3. v \in Int /\ w \in Int
    OBVIOUS
  <2> QED
    BY <2>2, <2>3
<1> QED
  BY <1>4

(* What is replayed was buffered and is newer than the snapshot.           *)
LEMMA ReplayedIn ==
    ASSUME NEW h \in Nat, NEW b \in Seq(0 .. h), NEW n \in Nat
    PROVE  AfterSnapshot(b, n) \in Seq({v \in ToSet(b) : v > n})
<1> DEFINE later == {j \in DOMAIN b : b[j] > n}
           V == {v \in ToSet(b) : v > n}
           S(i) == {b[j] : j \in {l \in later : Cardinality({o \in later : b[o] <= b[l]}) >= i}}
<1>1. Len(b) \in Nat /\ DOMAIN b = 1 .. Len(b) /\ \A j \in DOMAIN b : b[j] \in 0 .. h
  OBVIOUS
<1>2. IsFiniteSet(later) /\ Cardinality(later) \in Nat
  <2>1. IsFiniteSet(1 .. Len(b))
    BY <1>1, FS_Interval
  <2>2. IsFiniteSet(later)
    BY <1>1, <2>1, FS_Subset
  <2> QED
    BY <2>2, FS_CardinalityType
<1>3. ASSUME NEW i \in 1 .. Cardinality(later) PROVE Min(S(i)) \in V
  <2>1. later # {}
    BY <1>2, FS_EmptySet
  <2> DEFINE W == {b[j] : j \in later}
  <2>2. W \in SUBSET (0 .. h) /\ W # {}
    BY <1>1, <2>1
  <2>3. PICK w \in W : \A x \in W : x <= w
    BY <2>2, Largest
  <2>4. PICK l \in later : w = b[l]
    BY <2>3
  <2>5. {o \in later : b[o] <= b[l]} = later
    BY <2>3, <2>4
  <2>6. Cardinality({o \in later : b[o] <= b[l]}) >= i
    <3>1. Cardinality(later) >= i
      BY <1>2
    <3> QED
      BY <3>1, <2>5
  <2>7. b[l] \in S(i)
    BY <2>6
  <2>8. S(i) \in SUBSET Nat /\ S(i) \subseteq V
    <3> SUFFICES ASSUME NEW x \in S(i) PROVE x \in Nat /\ x \in V
      OBVIOUS
    <3>1. PICK j \in later : x = b[j]
      OBVIOUS
    <3>2. j \in DOMAIN b /\ x \in 0 .. h /\ x > n
      BY <1>1, <3>1
    <3>3. x \in ToSet(b)
      BY <3>1, <3>2 DEF ToSet
    <3> QED
      BY <3>2, <3>3
  <2>9. Min(S(i)) \in S(i)
    BY <2>7, <2>8, MinIn
  <2> QED
    BY <2>8, <2>9
<1>4. AfterSnapshot(b, n) = [i \in 1 .. Cardinality(later) |-> Min(S(i))]
  BY DEF AfterSnapshot
<1> HIDE DEF later, S, V
<1>5. AfterSnapshot(b, n) \in [1 .. Cardinality(later) -> V]
  BY <1>3, <1>4
<1>6. AfterSnapshot(b, n) \in Seq(V)
  BY <1>2, <1>5
<1> QED
  BY <1>6 DEF V

(* The elements of a finite set as a sequence.                             *)
LEMMA SetToSeqIn ==
    ASSUME NEW S, IsFiniteSet(S)
    PROVE  SetToSeq(S) \in Seq(S)
<1>1. PICK n \in Nat : ExistsBijection(1 .. n, S)
  BY FS_NatBijection
<1>2. Cardinality(S) = n
  BY <1>1, FS_CountingElements
<1>3. PICK f \in [1 .. n -> S] : IsInjective(f)
  BY <1>1 DEF ExistsBijection, Bijection, Injection, IsInjective
<1>4. SetToSeq(S) \in [1 .. n -> S]
  BY <1>2, <1>3 DEF SetToSeq
<1> QED
  BY <1>4

-----------------------------------------------------------------------------
(* Replaying.                                                              *)

(* Updates that fit are all applied and give the book of the last one.     *)
LEMMA FitsJoins ==
    ASSUME NEW h \in Nat, NEW n \in 0 .. h, NEW V \in SUBSET (0 .. h), NEW r \in Seq(V), Fits(n, r)
    PROVE  /\ Updates(n) \o SubSeq(r, 1, Fitting(n, r)) = Updates(n + Len(r))
           /\ n + Len(r) \in 0 .. h
           /\ \A k \in (n + 1) .. (n + Len(r)) : k \in V
<1>1. Len(r) \in Nat /\ DOMAIN r = 1 .. Len(r) /\ \A i \in 1 .. Len(r) : r[i] \in V /\ r[i] = n + i
  BY DEF Fits
<1>2. SubSeq(r, 1, Len(r)) = r
  BY <1>1
<1> DEFINE P == {p \in 0 .. Len(r) : Fits(n, SubSeq(r, 1, p))}
<1>3. Len(r) \in P /\ \A p \in P : p \in Int /\ p <= Len(r)
  <2>1. Fits(n, SubSeq(r, 1, Len(r)))
    BY <1>2
  <2>2. Len(r) \in 0 .. Len(r) /\ \A p \in 0 .. Len(r) : p \in Int /\ p <= Len(r)
    BY <1>1
  <2> QED
    BY <2>1, <2>2
<1>4. Fitting(n, r) = Max(P)
  BY DEF Fitting
<1> HIDE DEF P
<1>5. Max(P) \in P /\ \A p \in P : Max(P) >= p
  BY <1>3 DEF Max
<1>6. Fitting(n, r) = Len(r)
  BY <1>1, <1>3, <1>4, <1>5
<1>7. Updates(n) \in Seq(Nat) /\ Len(Updates(n)) = n /\ \A i \in 1 .. n : Updates(n)[i] = i
  BY DEF Updates
<1>8. Updates(n) \o r = Updates(n + Len(r))
  <2>0. V \subseteq Nat
    OBVIOUS
  <2>1. r \in Seq(Nat)
    BY <2>0, SeqGrows
  <2>2. PICK u \in Seq(Nat) : u = Updates(n) /\ Len(u) = n /\ \A i \in 1 .. n : u[i] = i
    BY <1>7
  <2>3. u \o r \in Seq(Nat) /\ Len(u \o r) = n + Len(r)
    BY <2>1, <2>2
  <2>4. \A i \in 1 .. (n + Len(r)) : (u \o r)[i] = i
    BY <1>1, <2>1, <2>2
  <2>5. u \o r = [i \in 1 .. (n + Len(r)) |-> i]
    <3>1. PICK c \in Seq(Nat) : c = u \o r
      BY <2>3
    <3>2. Len(c) = n + Len(r) /\ \A i \in 1 .. (n + Len(r)) : c[i] = i
      BY <2>3, <2>4, <3>1
    <3>3. c = [i \in 1 .. Len(c) |-> c[i]]
      OBVIOUS
    <3>4. c = [i \in 1 .. (n + Len(r)) |-> i]
      BY <3>2, <3>3
    <3> QED
      BY <3>1, <3>4
  <2> QED
    BY <2>2, <2>5 DEF Updates
<1>9. n + Len(r) \in 0 .. h
  <2>1. CASE Len(r) = 0
    BY <2>1
  <2>2. CASE Len(r) # 0
    <3>1. r[Len(r)] = n + Len(r) /\ r[Len(r)] \in 0 .. h
      BY <1>1, <2>2
    <3> QED
      BY <3>1
  <2> QED
    BY <2>1, <2>2
<1>10. ASSUME NEW k \in (n + 1) .. (n + Len(r)) PROVE k \in V
  <2>1. k - n \in 1 .. Len(r) /\ n + (k - n) = k
    BY <1>1
  <2> QED
    BY <1>1, <2>1
<1> QED
  BY <1>2, <1>6, <1>8, <1>9, <1>10

(* What a buffer or a set of buffered updates gives when replayed on n.    *)
LEMMA ReplayGives ==
    ASSUME NEW h \in Nat, NEW n \in 0 .. h, NEW b \in Seq(0 .. h), Fits(n, AfterSnapshot(b, n))
    PROVE  LET r == AfterSnapshot(b, n) IN
             /\ Updates(n) \o SubSeq(r, 1, Fitting(n, r)) = Updates(n + Len(r))
             /\ n + Len(r) \in 0 .. h
             /\ \A k \in (n + 1) .. (n + Len(r)) : k \in ToSet(b)
<1> DEFINE V == {v \in ToSet(b) : v > n}
<1>1. AfterSnapshot(b, n) \in Seq(V)
  BY ReplayedIn
<1>2. V \in SUBSET (0 .. h)
  BY DEF ToSet
<1>3. V \subseteq ToSet(b)
  OBVIOUS
<1> HIDE DEF V
<1> QED
  BY <1>1, <1>2, <1>3, FitsJoins

-----------------------------------------------------------------------------
(* The drain of _bootstrap keeps the types.                                *)

DrainStep(acc, m) ==
    CASE ~acc.ok -> acc
      [] acc.ok /\ m.kind # "delta" -> [acc EXCEPT !.ok = FALSE]
      [] acc.ok /\ m.kind = "delta" -> IF Contains(acc.seen, m) THEN acc ELSE Buffer(acc, m)

Drains(g, base, items, z) ==
    g = [i \in 0 .. z |-> IF i = 0 THEN base ELSE DrainStep(g[i - 1], items[i])]

Drained(h) == [ok : BOOLEAN, recon : Recons, seen : Seq(Message(h)), buffered : Seq(0 .. h)]

(* One message of the drain (_bootstrap).                                  *)
LEMMA DrainStepTyped ==
    ASSUME NEW h \in Nat, NEW acc \in Drained(h), NEW m \in Message(h)
    PROVE  DrainStep(acc, m) \in Drained(h)
<1>1. acc.ok \in BOOLEAN /\ acc.seen \in Seq(Message(h)) /\ acc.buffered \in Seq(0 .. h) /\ m.k \in 0 .. h
  BY DEF Drained, Message
<1>2. SeenPayload(acc.seen, m) \in Seq(Message(h))
  BY <1>1, SeenTyped
<1>3. Append(acc.buffered, m.k) \in Seq(0 .. h)
  BY <1>1
<1>4. "DEGRADED" \in Recons /\ "BUFFERING_DELTAS" \in Recons
  BY DEF Recons
<1>5. [acc EXCEPT !.ok = FALSE] \in Drained(h) /\ [acc EXCEPT !.ok = FALSE, !.recon = "DEGRADED"] \in Drained(h)
  BY <1>4 DEF Drained
<1>6. [acc EXCEPT !.buffered = Append(acc.buffered, m.k), !.seen = SeenPayload(acc.seen, m),
                  !.recon = "BUFFERING_DELTAS"] \in Drained(h)
  BY <1>2, <1>3, <1>4 DEF Drained
<1>7. Buffer(acc, m) \in Drained(h)
  BY <1>5, <1>6 DEF Buffer
<1> QED
  BY <1>1, <1>5, <1>7 DEF DrainStep

(* The recursion of Drain has a solution, for any number of messages.      *)
LEMMA DrainExists ==
    ASSUME NEW base, NEW items
    PROVE  \A z \in Nat : \E g : Drains(g, base, items, z)
<1> DEFINE N == {z \in Nat : \E g : Drains(g, base, items, z)}
<1>1. 0 \in N
  <2> DEFINE g == [i \in 0 .. 0 |-> base]
  <2>1. \A i \in 0 .. 0 : i = 0
    OBVIOUS
  <2>2. g = [i \in 0 .. 0 |-> IF i = 0 THEN base ELSE DrainStep(g[i - 1], items[i])]
    BY <2>1
  <2> HIDE DEF g
  <2>3. Drains(g, base, items, 0)
    BY <2>2 DEF Drains
  <2> QED
    BY <2>3
<1>2. ASSUME NEW z \in Nat, z \in N PROVE z + 1 \in N
  <2>1. PICK g : Drains(g, base, items, z)
    BY <1>2
  <2> DEFINE h == [i \in 0 .. (z + 1) |-> IF i = 0 THEN base ELSE DrainStep(g[i - 1], items[i])]
             k == [i \in 0 .. (z + 1) |-> IF i = 0 THEN base ELSE DrainStep(h[i - 1], items[i])]
  <2>2. \A i \in 0 .. z : h[i] = g[i]
    BY <2>1 DEF Drains
  <2>3. \A i \in 0 .. (z + 1) : i # 0 => i - 1 \in 0 .. z
    OBVIOUS
  <2>4. \A i \in 0 .. (z + 1) : h[i] = k[i]
    BY <2>2, <2>3
  <2>5. h = k
    BY <2>4
  <2>6. Drains(h, base, items, z + 1)
    BY <2>5 DEF Drains
  <2> QED
    BY <2>6
<1> HIDE DEF N
<1>3. Nat \subseteq N
  BY <1>1, <1>2, SetInduction
<1> QED
  BY <1>3 DEF N

(* What the drain leaves in buffer and cache are the venue's messages.     *)
LEMMA DrainTyped ==
    ASSUME Typed, NEW items \in Seq(Message(head))
    PROVE  Drain(items) \in Drained(head)
<1> DEFINE base == [ok |-> TRUE, recon |-> recon, seen |-> seen, buffered |-> buffered]
           z == Len(items)
           f == CHOOSE g : Drains(g, base, items, z)
<1>1. head \in Nat /\ z \in Nat /\ base \in Drained(head)
  BY DEF Typed, Drained
<1>2. Drains(f, base, items, z)
  BY <1>1, DrainExists
<1>3. Drain(items) = f[z]
  BY DEF Drain, Drains, DrainStep
<1> HIDE DEF base, z, f
<1> DEFINE N == {i \in Nat : i <= z => f[i] \in Drained(head)}
<1>4. 0 \in N
  BY <1>1, <1>2 DEF Drains
<1>5. ASSUME NEW i \in Nat, i \in N PROVE i + 1 \in N
  <2> SUFFICES ASSUME i + 1 <= z PROVE f[i + 1] \in Drained(head)
    OBVIOUS
  <2>1. i + 1 \in 0 .. z /\ i + 1 # 0 /\ (i + 1) - 1 = i /\ i <= z
    BY <1>1
  <2>2. f[i + 1] = DrainStep(f[i], items[i + 1])
    BY <1>2, <2>1 DEF Drains
  <2>3. items[i + 1] \in Message(head)
    BY <1>1, <2>1 DEF z
  <2>4. f[i] \in Drained(head)
    BY <1>5, <2>1
  <2> QED
    BY <1>1, <2>2, <2>3, <2>4, DrainStepTyped
<1> HIDE DEF N
<1>6. Nat \subseteq N
  BY <1>4, <1>5, SetInduction
<1> QED
  BY <1>1, <1>3, <1>6 DEF N

-----------------------------------------------------------------------------
(* The invariant.                                                          *)

(* The invariant holds before the first connection.                        *)
LEMMA InitHolds == Init => StreamInv
<1> SUFFICES ASSUME Init PROVE StreamInv
  OBVIOUS
<1>1. Modes \subseteq BOOLEAN
  BY StreamAssumption
<1>2. Typed
  BY <1>1 DEF Init, Typed, Recons
<1>3. pc # "loop"
  BY DEF Init
<1> QED
  BY <1>2, <1>3 DEF StreamInv

(* Only the venue moved: messages and bounds may grow.                     *)
LEMMA VenueKeeps ==
    ASSUME StreamInv, head' \in Nat, head <= head', queue' \in Seq(Message(head')),
           UNCHANGED <<rest, pc, context, book>>
    PROVE  StreamInv'
<1>1. head \in Nat /\ buffered \in Seq(0 .. head) /\ seen \in Seq(Message(head))
  BY DEF StreamInv, Typed
<1>2. buffered' \in Seq(0 .. head') /\ seen' \in Seq(Message(head'))
  BY <1>1, Wider DEF context
<1>3. Typed'
  BY <1>2 DEF StreamInv, Typed, context
<1>4. pc' = "loop" /\ recon' # "SYNCHRONIZED" =>
         ~rest' /\ (MaxBuffered < CacheSize => Mirrored(seen', buffered'))
  BY DEF StreamInv, context
<1>5. ASSUME Ahead(book, previous, seen, head) PROVE Ahead(book', previous', seen', head')
  <2>1. 0 .. head \subseteq 0 .. head'
    BY <1>1
  <2> QED
    BY <1>5, <2>1 DEF Ahead, context
<1>6. pc' = "loop" /\ recon' = "SYNCHRONIZED" =>
           /\ buffered' = <<>>
           /\ rest' \/ MaxBuffered < CacheSize => Ahead(book', previous', seen', head')
  BY <1>5 DEF StreamInv, context
<1> QED
  BY <1>3, <1>4, <1>6 DEF StreamInv

(* The connection is gone, or the loop is: only the types are left.        *)
LEMMA LoopLeft ==
    ASSUME Typed', pc' # "loop"
    PROVE  StreamInv'
  BY DEF StreamInv

(* Nothing the invariant speaks of but the place in the code changed.      *)
LEMMA Stays ==
    ASSUME StreamInv, UNCHANGED <<rest, head, context, book>>, queue' \in Seq(Message(head)),
           pc' \in {pc, "down", "closed"}
    PROVE  StreamInv'
<1>1. Typed'
  BY DEF StreamInv, Typed, context
<1>2. CASE pc' = pc
  BY <1>1, <1>2 DEF StreamInv, context
<1>3. CASE pc' # "loop"
  BY <1>1, <1>3, LoopLeft
<1> QED
  BY <1>2, <1>3

-----------------------------------------------------------------------------
(* The venue and the network.                                              *)

(* A message that arrives keeps the invariant (_socket_reader).            *)
LEMMA ArrivalKeeps ==
    ASSUME StreamInv, NEW STATE h, head' = h, h \in Nat, head <= h, NEW STATE m, m \in Message(h), Arrives(m),
           UNCHANGED <<rest, pc, context, book>>
    PROVE  StreamInv'
<1>1. head \in Nat /\ queue \in Seq(Message(head))
  BY DEF StreamInv, Typed
<1>2. queue \in Seq(Message(h))
  BY <1>1, Wider
<1>3. Append(queue, m) \in Seq(Message(h))
  BY <1>2
<1>4. queue' \in Seq(Message(head'))
  BY <1>3 DEF Arrives
<1> QED
  BY <1>4, VenueKeeps

(* What the venue and the network do keeps the invariant.                  *)
LEMMA VenueSteps ==
    ASSUME StreamInv,
           \/ Publish \/ Lose \/ ConnectionBreaks \/ StaleTimeout
           \/ \E n \in Snapshots : Greet(n)
           \/ \E k \in 1 .. head : Repeat(k)
    PROVE  StreamInv'
<1>1. head \in Nat /\ head + 1 \in Nat /\ head <= head + 1 /\ queue \in Seq(Message(head))
  BY DEF StreamInv, Typed
<1>2. CASE Publish
  <2>1. head' = head + 1 /\ UNCHANGED <<rest, pc, context, book>>
    BY <1>2 DEF Publish
  <2>2. CASE reader
    <3>1. Arrives(Delta(head + 1))
      BY <1>2, <2>2 DEF Publish
    <3>2. Delta(head + 1) \in Message(head + 1)
      <4>1. head + 1 \in 0 .. (head + 1)
        BY <1>1
      <4> QED
        BY <1>1, <4>1, Messages
    <3> QED
      BY <1>1, <2>1, <3>1, <3>2, ArrivalKeeps
  <2>3. CASE ~reader
    <3>1. queue' = queue
      BY <1>2, <2>3 DEF Publish
    <3>2. queue' \in Seq(Message(head'))
      BY <1>1, <2>1, <3>1, Wider
    <3> QED
      BY <1>1, <2>1, <3>2, VenueKeeps
  <2> QED
    BY <2>2, <2>3
<1>3. CASE Lose
  <2>1. head' = head + 1 /\ UNCHANGED <<rest, pc, context, book>> /\ queue' = queue
    BY <1>3 DEF Lose
  <2>2. queue' \in Seq(Message(head'))
    BY <1>1, <2>1, Wider
  <2> QED
    BY <1>1, <2>1, <2>2, VenueKeeps
<1>4. CASE ConnectionBreaks \/ StaleTimeout
  <2>1. head' = head /\ UNCHANGED <<rest, pc, context, book>> /\ queue' = Append(queue, Failure)
    BY <1>4 DEF ConnectionBreaks, StaleTimeout, ReaderEnds
  <2>2. Failure \in Message(head)
    <3>1. 0 \in 0 .. head
      BY <1>1
    <3> QED
      BY <1>1, <3>1, Messages
  <2>3. Append(queue, Failure) \in Seq(Message(head))
    BY <1>1, <2>2
  <2>4. queue' \in Seq(Message(head')) /\ head' \in Nat /\ head <= head'
    BY <1>1, <2>1, <2>3
  <2> QED
    BY <2>1, <2>4, VenueKeeps
<1>5. ASSUME NEW n \in Snapshots, Greet(n) PROVE StreamInv'
  <2>1. head' = head /\ UNCHANGED <<rest, pc, context, book>> /\ Arrives(Snapshot(n))
    BY <1>5 DEF Greet, venue
  <2>2. n \in 0 .. head
    BY <1>1 DEF Snapshots
  <2>3. Snapshot(n) \in Message(head) /\ head <= head
    BY <1>1, <2>2, Messages
  <2> QED
    BY <1>1, <2>1, <2>3, ArrivalKeeps
<1>6. ASSUME NEW k \in 1 .. head, Repeat(k) PROVE StreamInv'
  <2>1. head' = head /\ UNCHANGED <<rest, pc, context, book>> /\ Arrives(Delta(k))
    BY <1>6 DEF Repeat
  <2>2. k \in 0 .. head
    BY <1>1
  <2>3. Delta(k) \in Message(head) /\ head <= head
    BY <1>1, <2>2, Messages
  <2> QED
    BY <1>1, <2>1, <2>3, ArrivalKeeps
<1> QED
  BY <1>2, <1>3, <1>4, <1>5, <1>6

-----------------------------------------------------------------------------
(* Connecting and ending.                                                  *)

(* Connecting, closing and dropped messages keep the invariant.            *)
LEMMA ConnectionSteps ==
    ASSUME StreamInv,
           \/ Connect \/ ConnectFails \/ WindowSlides \/ Close \/ End
           \/ RestFails \/ TakeFailure \/ TakeRepetition \/ UNCHANGED vars
    PROVE  StreamInv'
<1>1. /\ head \in Nat /\ queue \in Seq(Message(head)) /\ <<>> \in Seq(Message(head))
      /\ <<>> \in Seq(0 .. head) /\ MaxBuffered \in Nat /\ 0 \in Nat
  BY StreamAssumption DEF StreamInv, Typed
<1>2. CASE Connect
  <2>1. /\ UNCHANGED <<rest, head>> /\ queue' = <<>> /\ previous' = 0 /\ buffered' = <<>> /\ seen' = <<>>
        /\ recon' = (IF rest THEN "SNAPSHOT_LOADING" ELSE "WAITING_FOR_SNAPSHOT")
        /\ pc' = IF rest THEN "bootstrap" ELSE "loop"
    BY <1>2 DEF Connect, FreshContext, venue
  <2>2. rest \in BOOLEAN
    BY DEF StreamInv, Typed
  <2>3. recon' \in Recons /\ recon' # "SYNCHRONIZED"
    BY <2>1 DEF Recons
  <2>4. Typed'
    BY <1>1, <2>1, <2>2, <2>3 DEF Typed
  <2>5. pc' = "loop" => ~rest'
    BY <2>1, <2>2
  <2>6. Mirrored(seen', buffered')
    BY <1>1, <2>1 DEF Mirrored
  <2> QED
    BY <2>3, <2>4, <2>5, <2>6 DEF StreamInv
<1>3. CASE ConnectFails
  <2>1. /\ UNCHANGED <<rest, head, queue>> /\ previous' = 0 /\ buffered' = <<>> /\ seen' = <<>>
        /\ recon' = "WAITING_FOR_SNAPSHOT" /\ pc' = "down"
    BY <1>3 DEF ConnectFails, Attempt, FreshContext, venue
  <2>2. recon' \in Recons
    BY <2>1 DEF Recons
  <2>3. Typed'
    BY <1>1, <2>1, <2>2 DEF StreamInv, Typed
  <2> QED
    BY <2>1, <2>3, LoopLeft
<1>4. CASE WindowSlides \/ Close \/ End \/ UNCHANGED vars
  <2>1. UNCHANGED <<rest, head, context, book, queue>> /\ pc' \in {pc, "down", "closed"}
    BY <1>4 DEF WindowSlides, Close, End, vars, venue, context
  <2> QED
    BY <1>1, <2>1, Stays
<1>5. CASE RestFails \/ TakeFailure
  <2>1. UNCHANGED <<rest, head, context, book>> /\ queue' = <<>> /\ pc' = "down"
    BY <1>5 DEF RestFails, TakeFailure, Disconnect, venue
  <2> QED
    BY <1>1, <2>1, Stays
<1>6. CASE TakeRepetition
  <2>1. UNCHANGED <<rest, head, context, book>> /\ queue' = Tail(queue) /\ pc' \in {pc, "down"} /\ queue # <<>>
    BY <1>6 DEF TakeRepetition, Continue, Pop, venue
  <2>2. Tail(queue) \in Seq(Message(head))
    BY <1>1, <2>1
  <2> QED
    BY <2>1, <2>2, Stays
<1> QED
  BY <1>2, <1>3, <1>4, <1>5, <1>6

-----------------------------------------------------------------------------
(* A replay of the buffer b on a REST snapshot leaves an exact book, whose *)
(* last update is the previous one.                                        *)
LEMMA ReplayExact ==
    ASSUME StreamInv, NEW n \in Snapshots, NEW STATE b, b \in Seq(0 .. head),
           Replay(n, AfterSnapshot(b, n)), UNCHANGED head
    PROVE  /\ recon' \in Recons /\ previous' \in Nat /\ buffered' \in Seq(0 .. head)
           /\ Fits(n, AfterSnapshot(b, n)) =>
                /\ recon' = "SYNCHRONIZED" /\ buffered' = <<>>
                /\ Ahead(book', previous', seen', head')
<1> DEFINE r == AfterSnapshot(b, n)
<1>1. head \in Nat /\ n \in 0 .. head /\ n \in Nat
  BY DEF StreamInv, Typed, Snapshots
<1>2. CASE Fits(n, r)
  <2>1. /\ Updates(n) \o SubSeq(r, 1, Fitting(n, r)) = Updates(n + Len(r))
        /\ n + Len(r) \in 0 .. head
    BY <1>1, <1>2, ReplayGives
  <2>2. /\ recon' = "SYNCHRONIZED" /\ previous' = n + Len(r) /\ buffered' = <<>>
        /\ book' = Updates(n) \o SubSeq(r, 1, Fitting(n, r))
    BY <1>2 DEF Replay
  <2>3. PICK q \in 0 .. head : q = n + Len(r)
    BY <2>1
  <2> HIDE DEF r
  <2>4. book' = Updates(q) /\ previous' = q
    BY <2>1, <2>2, <2>3
  <2>5. q <= q /\ \A k \in (q + 1) .. q : FALSE
    OBVIOUS
  <2>6. Ahead(book', previous', seen', head')
    BY <2>4, <2>5 DEF Ahead
  <2>7. "SYNCHRONIZED" \in Recons /\ q \in Nat /\ <<>> \in Seq(0 .. head)
    BY DEF Recons
  <2> QED
    BY <2>2, <2>4, <2>6, <2>7
<1>3. CASE ~Fits(n, r)
  <2>1. recon' = "DEGRADED" /\ UNCHANGED <<previous, buffered>>
    BY <1>3 DEF Replay
  <2> QED
    BY <1>3, <2>1 DEF StreamInv, Typed, Recons
<1> QED
  BY <1>2, <1>3

(* A REST snapshot keeps the invariant (_bootstrap, _recover).             *)
LEMMA RestSteps ==
    ASSUME StreamInv, NEW n \in Snapshots, RestReplies(n)
    PROVE  StreamInv'
<1>1. /\ rest \in BOOLEAN /\ head \in Nat /\ queue \in Seq(Message(head)) /\ <<>> \in Seq(Message(head))
      /\ seen \in Seq(Message(head)) /\ buffered \in Seq(0 .. head) /\ previous \in Nat /\ recon \in Recons
  BY DEF StreamInv, Typed
<1>2. ASSUME UNCHANGED <<rest, head>>, recon' \in Recons, previous' \in Nat, buffered' \in Seq(0 .. head),
             seen' \in Seq(Message(head)), queue' \in Seq(Message(head))
      PROVE  Typed'
  BY <1>1, <1>2 DEF Typed
<1>3. ASSUME Typed', recon' = "SYNCHRONIZED", buffered' = <<>>, Ahead(book', previous', seen', head')
      PROVE  StreamInv'
  BY <1>3 DEF StreamInv
<1>4. CASE Recover(n)
  <2>1. Replay(n, AfterSnapshot(buffered, n)) /\ seen' = seen
    BY <1>4 DEF Recover
  <2>2. CASE Fits(n, AfterSnapshot(buffered, n))
    <3>1. UNCHANGED <<rest, head, queue>>
      BY <1>4, <2>2 DEF Recover, Continue, venue
    <3> QED
      BY <1>1, <1>2, <1>3, <2>1, <2>2, <3>1, ReplayExact
  <2>3. CASE ~Fits(n, AfterSnapshot(buffered, n))
    <3>1. UNCHANGED <<rest, head>> /\ pc' = "down" /\ queue' = <<>>
      BY <1>4, <2>3 DEF Recover, Disconnect, venue
    <3> QED
      BY <1>1, <1>2, <2>1, <3>1, ReplayExact, LoopLeft
  <2> QED
    BY <2>2, <2>3
<1>5. ASSUME NEW received \in 0 .. Len(queue), Bootstrap(n, received) PROVE StreamInv'
  <2>1. SubSeq(queue, 1, received) \in Seq(Message(head)) /\ SubSeq(queue, received + 1, Len(queue)) \in Seq(Message(head))
    BY <1>1
  <2>2. Drain(SubSeq(queue, 1, received)) \in Drained(head)
    BY <2>1, DrainTyped DEF StreamInv
  <2>3. PICK d \in Drained(head) : d = Drain(SubSeq(queue, 1, received))
    BY <2>2
  <2>4. /\ seen' = d.seen
        /\ \/ /\ d.ok /\ Fits(n, AfterSnapshot(d.buffered, n))
              /\ Replay(n, AfterSnapshot(d.buffered, n))
              /\ queue' = SubSeq(queue, received + 1, Len(queue))
              /\ Continue
           \/ /\ d.ok /\ ~Fits(n, AfterSnapshot(d.buffered, n))
              /\ Replay(n, AfterSnapshot(d.buffered, n))
              /\ Disconnect
           \/ /\ ~d.ok
              /\ recon' = d.recon /\ buffered' = d.buffered /\ UNCHANGED <<previous, book>>
              /\ Disconnect
    BY <1>5, <2>3 DEF Bootstrap
  <2>5. d.seen \in Seq(Message(head)) /\ d.buffered \in Seq(0 .. head) /\ d.recon \in Recons
    BY DEF Drained
  <2>6. CASE /\ Fits(n, AfterSnapshot(d.buffered, n))
             /\ Replay(n, AfterSnapshot(d.buffered, n))
             /\ queue' = SubSeq(queue, received + 1, Len(queue))
             /\ Continue
    <3>1. UNCHANGED <<rest, head>>
      BY <2>6 DEF Continue, venue
    <3> QED
      BY <1>2, <1>3, <2>1, <2>4, <2>5, <2>6, <3>1, ReplayExact
  <2>7. CASE Replay(n, AfterSnapshot(d.buffered, n)) /\ Disconnect
    <3>1. UNCHANGED <<rest, head>> /\ pc' = "down" /\ queue' = <<>>
      BY <2>7 DEF Disconnect, venue
    <3> QED
      BY <1>1, <1>2, <2>4, <2>5, <2>7, <3>1, ReplayExact, LoopLeft
  <2>8. CASE recon' = d.recon /\ buffered' = d.buffered /\ UNCHANGED <<previous, book>> /\ Disconnect
    <3>1. UNCHANGED <<rest, head>> /\ pc' = "down" /\ queue' = <<>>
      BY <2>8 DEF Disconnect, venue
    <3> QED
      BY <1>1, <1>2, <2>4, <2>5, <2>8, <3>1, LoopLeft
  <2> QED
    BY <2>4, <2>6, <2>7, <2>8
<1> QED
  BY <1>4, <1>5 DEF RestReplies

-----------------------------------------------------------------------------
(* The main loop.                                                          *)

(* What a snapshot of the stream finds in the buffer it finds in the cache.*)
LEMMA BufferIsCached ==
    ASSUME StreamInv, pc = "loop", rest \/ MaxBuffered < CacheSize,
           NEW m \in Message(head), NEW k \in ToSet(buffered)
    PROVE  Contains(SeenPayload(seen, m), Delta(k))
<1>1. recon # "SYNCHRONIZED"
  <2>1. buffered # <<>>
    BY DEF ToSet
  <2> QED
    BY <2>1 DEF StreamInv
<1>2. ~rest /\ Mirrored(seen, buffered)
  BY <1>1 DEF StreamInv
<1>3. seen \in Seq(Message(head)) /\ buffered \in Seq(0 .. head) /\ MaxBuffered \in Nat /\ CacheSize \in Nat
  BY StreamAssumption DEF StreamInv, Typed
<1>4. Len(seen) < CacheSize
  BY <1>2, <1>3 DEF Mirrored
<1>5. SeenPayload(seen, m) = Append(seen, m)
  BY <1>3, <1>4 DEF SeenPayload
<1>6. PICK i \in DOMAIN buffered : buffered[i] = k
  BY DEF ToSet
<1>7. i \in 1 .. Len(seen) /\ seen[i] = Delta(k)
  BY <1>2, <1>3, <1>6 DEF Mirrored
<1>8. i \in 1 .. Len(Append(seen, m)) /\ Append(seen, m)[i] = Delta(k)
  BY <1>3, <1>7
<1> QED
  BY <1>5, <1>8 DEF Contains

(* Some number of updates, perhaps none, is applied (replay loops).        *)
LEMMA FittingNat ==
    ASSUME NEW n, NEW V, NEW r \in Seq(V)
    PROVE  Fitting(n, r) \in Nat
<1> DEFINE P == {p \in 0 .. Len(r) : Fits(n, SubSeq(r, 1, p))}
<1>1. Len(r) \in Nat /\ P \in SUBSET (0 .. Len(r))
  OBVIOUS
<1>2. 0 \in P
  <2>1. SubSeq(r, 1, 0) = <<>>
    OBVIOUS
  <2>2. Fits(n, SubSeq(r, 1, 0))
    BY <2>1 DEF Fits
  <2> QED
    BY <1>1, <2>2
<1>3. Fitting(n, r) = Max(P)
  BY DEF Fitting
<1> HIDE DEF P
<1>4. PICK p \in P : \A q \in P : q <= p
  BY <1>1, <1>2, Largest
<1>5. \A q \in P : p >= q
  BY <1>1, <1>4
<1>6. Max(P) \in P
  BY <1>5 DEF Max
<1>7. Max(P) \in 0 .. Len(r)
  BY <1>1, <1>6
<1>8. Max(P) \in Nat
  BY <1>1, <1>7
<1> QED
  BY <1>3, <1>8

(* The message the loop takes, and the queue and cache it leaves.          *)
LEMMA TakenTyped ==
    ASSUME StreamInv, NEW m \in ToSet(queue), Takes(m)
    PROVE  /\ m \in Message(head) /\ m.k \in 0 .. head /\ pc = "loop"
           /\ seen' \in Seq(Message(head)) /\ seen' = SeenPayload(seen, m) /\ ~Contains(seen, m)
           /\ Tail(queue) \in Seq(Message(head)) /\ <<>> \in Seq(Message(head))
           /\ m.kind = "delta" => m = Delta(m.k)
<1>1. queue \in Seq(Message(head)) /\ seen \in Seq(Message(head)) /\ queue # <<>> /\ m = Head(queue)
  BY DEF StreamInv, Typed, Takes
<1>2. m \in Message(head)
  BY <1>1
<1>3. SeenPayload(seen, m) \in Seq(Message(head))
  BY <1>1, <1>2, SeenTyped
<1>4. m.k \in 0 .. head /\ (m.kind = "delta" => m = Delta(m.k))
  BY <1>2 DEF Message, Delta
<1>5. Tail(queue) \in Seq(Message(head)) /\ <<>> \in Seq(Message(head))
  BY <1>1
<1> QED
  BY <1>2, <1>3, <1>4, <1>5 DEF Takes

(* A stream snapshot keeps the invariant (_apply_stream_snapshot).         *)
LEMMA SnapshotSteps ==
    ASSUME StreamInv, NEW m \in ToSet(queue), TakeSnapshot(m)
    PROVE  StreamInv'
<1> DEFINE b == SetToSeq(ToSet(buffered))
           r == AfterSnapshot(b, m.k)
<1>1. /\ rest \in BOOLEAN /\ head \in Nat /\ buffered \in Seq(0 .. head)
  BY DEF StreamInv, Typed
<1>2. Takes(m)
  BY DEF TakeSnapshot
<1>3. /\ m \in Message(head) /\ m.k \in 0 .. head /\ m.k \in Nat /\ pc = "loop"
      /\ seen' \in Seq(Message(head)) /\ seen' = SeenPayload(seen, m)
      /\ Tail(queue) \in Seq(Message(head)) /\ <<>> \in Seq(Message(head))
  BY <1>1, <1>2, TakenTyped
<1>4. ToSet(buffered) \subseteq 0 .. head
  BY <1>1 DEF ToSet
<1>5. b \in Seq(ToSet(buffered)) /\ b \in Seq(0 .. head) /\ ToSet(b) \subseteq ToSet(buffered)
  <2>1. IsFiniteSet(0 .. head)
    BY <1>1, FS_Interval
  <2>2. IsFiniteSet(ToSet(buffered))
    BY <1>4, <2>1, FS_Subset
  <2>3. b \in Seq(ToSet(buffered))
    BY <2>2, SetToSeqIn
  <2> HIDE DEF b
  <2>4. b \in Seq(0 .. head)
    BY <1>4, <2>3, SeqGrows
  <2>5. ToSet(b) \subseteq ToSet(buffered)
    <3>1. \A i \in DOMAIN b : b[i] \in ToSet(buffered)
      BY <2>3
    <3>2. ToSet(b) = {b[i] : i \in DOMAIN b}
      BY DEF ToSet
    <3> QED
      BY <3>1, <3>2
  <2> QED
    BY <2>3, <2>4, <2>5
<1>6. /\ book' = Updates(m.k) \o SubSeq(r, 1, Fitting(m.k, r))
      /\ IF Fits(m.k, r)
         THEN /\ recon' = "SYNCHRONIZED" /\ buffered' = <<>>
              /\ previous' = m.k
              /\ Pop /\ Continue
         ELSE /\ recon' = "DEGRADED" /\ UNCHANGED buffered
              /\ previous' = m.k + Fitting(m.k, r)
              /\ Disconnect
  BY DEF TakeSnapshot
<1>7. r \in Seq({v \in ToSet(b) : v > m.k})
  BY <1>1, <1>3, <1>5, ReplayedIn
<1>8. Fits(m.k, r) =>
        /\ Updates(m.k) \o SubSeq(r, 1, Fitting(m.k, r)) = Updates(m.k + Len(r))
        /\ m.k + Len(r) \in 0 .. head
        /\ \A k \in (m.k + 1) .. (m.k + Len(r)) : k \in ToSet(b)
  BY <1>1, <1>3, <1>5, ReplayGives
<1> HIDE DEF b, r
<1>9. CASE Fits(m.k, r)
  <2>1. /\ UNCHANGED <<rest, head>> /\ queue' = Tail(queue)
        /\ recon' = "SYNCHRONIZED" /\ buffered' = <<>> /\ previous' = m.k
    BY <1>6, <1>9 DEF Pop, Continue, venue
  <2>2. "SYNCHRONIZED" \in Recons /\ <<>> \in Seq(0 .. head)
    BY DEF Recons
  <2>3. Typed'
    BY <1>1, <1>3, <2>1, <2>2 DEF Typed
  <2>4. PICK q \in 0 .. head : q = m.k + Len(r)
    BY <1>8, <1>9
  <2>5. Len(r) \in Nat
    BY <1>7
  <2>6. book' = Updates(q) /\ m.k <= q /\ \A k \in (m.k + 1) .. q : k \in ToSet(buffered)
    <3>1. book' = Updates(m.k + Len(r))
      BY <1>6, <1>8, <1>9
    <3>2. \A k \in (m.k + 1) .. (m.k + Len(r)) : k \in ToSet(b)
      BY <1>8, <1>9
    <3>3. m.k <= m.k + Len(r)
      BY <1>3, <2>5
    <3> QED
      BY <1>5, <2>4, <3>1, <3>2, <3>3
  <2>7. ASSUME rest \/ MaxBuffered < CacheSize PROVE Ahead(book', previous', seen', head')
    <3>1. \A k \in (m.k + 1) .. q : Contains(seen', Delta(k))
      BY <1>3, <2>6, <2>7, BufferIsCached
    <3> QED
      BY <2>1, <2>6, <3>1 DEF Ahead
  <2> QED
    BY <2>1, <2>3, <2>7 DEF StreamInv
<1>10. CASE ~Fits(m.k, r)
  <2>1. /\ UNCHANGED <<rest, head, buffered>> /\ queue' = <<>> /\ pc' = "down"
        /\ recon' = "DEGRADED" /\ previous' = m.k + Fitting(m.k, r)
    BY <1>6, <1>10 DEF Disconnect, venue
  <2>2. Fitting(m.k, r) \in Nat
    BY <1>3, <1>7, FittingNat
  <2>3. recon' \in Recons /\ previous' \in Nat
    BY <1>3, <2>1, <2>2 DEF Recons
  <2>4. Typed'
    BY <1>1, <1>3, <2>1, <2>3 DEF Typed
  <2> QED
    BY <2>1, <2>4, LoopLeft
<1> QED
  BY <1>9, <1>10

(* A buffered delta is in buffer and cache alike (_buffer_delta).          *)
LEMMA EarlyDeltaSteps ==
    ASSUME StreamInv, NEW m \in ToSet(queue), TakeEarlyDelta(m)
    PROVE  StreamInv'
<1>1. /\ rest \in BOOLEAN /\ head \in Nat /\ buffered \in Seq(0 .. head) /\ previous \in Nat
      /\ seen \in Seq(Message(head)) /\ MaxBuffered \in Nat /\ CacheSize \in Nat
  BY StreamAssumption DEF StreamInv, Typed
<1>2. Takes(m) /\ m.kind = "delta" /\ recon # "SYNCHRONIZED" /\ UNCHANGED previous
  BY DEF TakeEarlyDelta
<1>3. /\ m \in Message(head) /\ m.k \in 0 .. head /\ pc = "loop" /\ m = Delta(m.k)
      /\ seen' \in Seq(Message(head)) /\ seen' = SeenPayload(seen, m)
      /\ Tail(queue) \in Seq(Message(head)) /\ <<>> \in Seq(Message(head))
  BY <1>2, TakenTyped
<1>4. CASE Len(buffered) < MaxBuffered
  <2>1. /\ UNCHANGED <<rest, head>> /\ queue' = Tail(queue)
        /\ recon' = "BUFFERING_DELTAS" /\ buffered' = Append(buffered, m.k)
    BY <1>4 DEF TakeEarlyDelta, Pop, Continue, venue
  <2>2. buffered' \in Seq(0 .. head) /\ recon' \in Recons
    BY <1>1, <1>3, <2>1 DEF Recons
  <2>3. Typed'
    BY <1>1, <1>2, <1>3, <2>1, <2>2 DEF Typed
  <2>4. ~rest /\ (MaxBuffered < CacheSize => Mirrored(seen, buffered))
    BY <1>2, <1>3 DEF StreamInv
  <2>5. ASSUME MaxBuffered < CacheSize PROVE Mirrored(seen', buffered')
    <3>1. Mirrored(seen, buffered) /\ Len(seen) < CacheSize
      BY <1>1, <2>4, <2>5 DEF Mirrored
    <3>2. seen' = Append(seen, m)
      BY <1>1, <1>3, <3>1 DEF SeenPayload
    <3>3. Len(seen') = Len(buffered') /\ Len(buffered') <= MaxBuffered
      BY <1>1, <1>3, <1>4, <2>1, <3>1, <3>2 DEF Mirrored
    <3>4. ASSUME NEW i \in DOMAIN buffered' PROVE seen'[i] = Delta(buffered'[i])
      <4>1. CASE i = Len(buffered) + 1
        BY <1>1, <1>3, <2>1, <3>1, <3>2, <4>1 DEF Mirrored
      <4>2. CASE i # Len(buffered) + 1
        <5>1. i \in DOMAIN buffered /\ buffered'[i] = buffered[i] /\ seen'[i] = seen[i]
          BY <1>1, <1>3, <2>1, <3>1, <3>2, <4>2 DEF Mirrored
        <5> QED
          BY <3>1, <5>1 DEF Mirrored
      <4> QED
        BY <4>1, <4>2
    <3> QED
      BY <3>3, <3>4 DEF Mirrored
  <2>6. rest' = rest /\ recon' # "SYNCHRONIZED"
    BY <2>1
  <2> QED
    BY <2>3, <2>4, <2>5, <2>6 DEF StreamInv
<1>5. CASE ~(Len(buffered) < MaxBuffered)
  <2>1. /\ UNCHANGED <<rest, head, buffered>> /\ queue' = <<>> /\ pc' = "down" /\ recon' = "DEGRADED"
    BY <1>5 DEF TakeEarlyDelta, Disconnect, venue
  <2>2. recon' \in Recons
    BY <2>1 DEF Recons
  <2>3. Typed'
    BY <1>1, <1>2, <1>3, <2>1, <2>2 DEF Typed
  <2> QED
    BY <2>1, <2>3, LoopLeft
<1> QED
  BY <1>4, <1>5

(* A contiguous delta is new to the book: an old one would be cached.      *)
LEMMA DeltaSteps ==
    ASSUME StreamInv, NEW m \in ToSet(queue), TakeDelta(m)
    PROVE  StreamInv'
<1>1. /\ rest \in BOOLEAN /\ head \in Nat /\ previous \in Nat
  BY DEF StreamInv, Typed
<1>2. /\ Takes(m) /\ m.kind = "delta" /\ recon = "SYNCHRONIZED" /\ IsContiguous(m.k)
      /\ book' = Append(book, m.k) /\ previous' = m.k
      /\ queue' = Tail(queue) /\ UNCHANGED <<rest, head, recon, buffered>>
  BY DEF TakeDelta, Pop, Continue, venue
<1>3. /\ m \in Message(head) /\ m.k \in 0 .. head /\ pc = "loop" /\ m = Delta(m.k)
      /\ seen' \in Seq(Message(head)) /\ ~Contains(seen, m)
      /\ Tail(queue) \in Seq(Message(head))
  BY <1>2, TakenTyped
<1>4. Typed'
  BY <1>1, <1>2, <1>3 DEF StreamInv, Typed
<1>5. buffered' = <<>>
  BY <1>2, <1>3 DEF StreamInv
<1>6. ASSUME rest \/ MaxBuffered < CacheSize PROVE Ahead(book', previous', seen', head')
  <2>1. Ahead(book, previous, seen, head)
    BY <1>2, <1>3, <1>6 DEF StreamInv
  <2>2. PICK n \in 0 .. head : /\ book = Updates(n) /\ previous <= n
                               /\ \A k \in (previous + 1) .. n : Contains(seen, Delta(k))
    BY <2>1 DEF Ahead
  <2>3. m.k = previous + 1
    BY <1>2 DEF IsContiguous
  <2>4. previous = n
    <3> SUFFICES ASSUME previous # n PROVE FALSE
      OBVIOUS
    <3>1. m.k \in (previous + 1) .. n
      BY <1>1, <2>2, <2>3
    <3> QED
      BY <1>3, <2>2, <3>1
  <2>5. Append(Updates(n), n + 1) = Updates(n + 1)
    <3>1. Updates(n) = [i \in 1 .. n |-> i] /\ Updates(n) \in Seq(Nat) /\ Len(Updates(n)) = n
      BY DEF Updates
    <3>2. PICK u \in Seq(Nat) : u = Updates(n) /\ Len(u) = n /\ \A i \in 1 .. n : u[i] = i
      BY <3>1
    <3>3. PICK c \in Seq(Nat) : c = Append(u, n + 1)
      <4>1. n + 1 \in Nat
        BY <1>1
      <4>2. Append(u, n + 1) \in Seq(Nat)
        BY <3>2, <4>1
      <4> QED
        BY <4>2
    <3>4. Len(c) = n + 1 /\ \A i \in 1 .. (n + 1) : c[i] = i
      BY <3>2, <3>3
    <3>5. c = [i \in 1 .. Len(c) |-> c[i]]
      OBVIOUS
    <3>6. c = [i \in 1 .. (n + 1) |-> i]
      BY <3>4, <3>5
    <3> QED
      BY <3>2, <3>3, <3>6 DEF Updates
  <2>6. book' = Updates(m.k) /\ m.k \in 0 .. head' /\ previous' = m.k
    BY <1>2, <1>3, <2>2, <2>3, <2>4, <2>5
  <2>7. m.k <= m.k /\ \A k \in (m.k + 1) .. m.k : FALSE
    BY <1>3
  <2> QED
    BY <2>6, <2>7 DEF Ahead
<1> QED
  BY <1>2, <1>4, <1>5, <1>6 DEF StreamInv

(* A gap leaves the loop (_recover).                                       *)
LEMMA GapSteps ==
    ASSUME StreamInv, NEW m \in ToSet(queue), TakeGap(m)
    PROVE  StreamInv'
<1>1. /\ rest \in BOOLEAN /\ head \in Nat /\ previous \in Nat /\ buffered \in Seq(0 .. head)
  BY DEF StreamInv, Typed
<1>2. Takes(m) /\ buffered' = Append(buffered, m.k) /\ UNCHANGED previous
  BY DEF TakeGap
<1>3. /\ m.k \in 0 .. head /\ seen' \in Seq(Message(head))
      /\ Tail(queue) \in Seq(Message(head)) /\ <<>> \in Seq(Message(head))
  BY <1>2, TakenTyped
<1>4. buffered' \in Seq(0 .. head)
  BY <1>1, <1>2, <1>3
<1>5. /\ UNCHANGED <<rest, head>> /\ pc' \in {"recover", "down"} /\ queue' \in {Tail(queue), <<>>}
      /\ recon' \in {"SNAPSHOT_LOADING", "BUFFERING_DELTAS"}
  BY <1>1 DEF TakeGap, Disconnect, Pop, venue
<1>6. recon' \in Recons /\ queue' \in Seq(Message(head)) /\ pc' # "loop"
  BY <1>3, <1>5 DEF Recons
<1>7. Typed'
  BY <1>1, <1>2, <1>3, <1>4, <1>5, <1>6 DEF Typed
<1> QED
  BY <1>6, <1>7, LoopLeft

-----------------------------------------------------------------------------

(* The invariant is inductive.                                             *)
LEMMA StepHolds == StreamInv /\ [Next]_vars => StreamInv'
<1> SUFFICES ASSUME StreamInv, [Next]_vars PROVE StreamInv'
  OBVIOUS
<1>1. CASE \/ Publish \/ Lose \/ ConnectionBreaks \/ StaleTimeout
           \/ \E n \in Snapshots : Greet(n)
           \/ \E k \in 1 .. head : Repeat(k)
  BY <1>1, VenueSteps
<1>2. CASE \/ Connect \/ ConnectFails \/ WindowSlides \/ Close \/ End
           \/ RestFails \/ TakeFailure \/ TakeRepetition \/ UNCHANGED vars
  BY <1>2, ConnectionSteps
<1>3. CASE \E n \in Snapshots : RestReplies(n)
  BY <1>3, RestSteps
<1>4. CASE \E m \in ToSet(queue) : TakeSnapshot(m) \/ TakeEarlyDelta(m) \/ TakeDelta(m) \/ TakeGap(m)
  BY <1>4, SnapshotSteps, EarlyDeltaSteps, DeltaSteps, GapSteps
<1> QED
  BY <1>1, <1>2, <1>3, <1>4 DEF Next, Take

(* The invariant gives the property.                                       *)
LEMMA InvImpliesExact == StreamInv => BookIsExact
<1> SUFFICES ASSUME StreamInv, rest \/ MaxBuffered < CacheSize, Synchronized
             PROVE  book = Updates(Len(book)) /\ Len(book) <= head
  BY DEF BookIsExact
<1>1. head \in Nat
  BY DEF StreamInv, Typed
<1>2. PICK n \in 0 .. head : book = Updates(n)
  BY DEF StreamInv, Synchronized, Ahead
<1>3. Len(Updates(n)) = n
  BY DEF Updates
<1> QED
  BY <1>1, <1>2, <1>3

(* A synchronized book is exactly the venue's book after some update, for  *)
(* any losses, repetitions, delays and broken connections, any limits and  *)
(* any number of updates (websocket.py: messages, _bootstrap, _recover).   *)
THEOREM BooksExact == Spec => []BookIsExact
<1>1. Init => StreamInv
  BY InitHolds
<1>2. StreamInv /\ [Next]_vars => StreamInv'
  BY StepHolds
<1>3. StreamInv => BookIsExact
  BY InvImpliesExact
<1> QED
  BY <1>1, <1>2, <1>3, PTL DEF Spec

-----------------------------------------------------------------------------
(***************************************************************************)
(* The paper broker, for every feed, request, rate, fee and leverage.      *)
(*                                                                         *)
(* Loop is what the matching of one quote keeps from order to order: the   *)
(* account balances if it did before, every new fill names an earlier      *)
(* order, and the exposure is covered by the equity before the quote.      *)
(* PaperInv adds that the sequence numbers taken end in _last_sequence,    *)
(* and that a position without lots has no cost.                           *)
(***************************************************************************)

(* Money.                                                                  *)

(* What closing lots costs: integers, and a full closing takes all.        *)
LEMMA ClosingCost ==
    ASSUME NEW p, p.lots \in Int, p.basis \in Int, p.lots # 0, NEW signed \in Int
    PROVE  /\ Closed(p, signed) \in Int /\ ClosedCost(p, signed) \in Int
           /\ Closed(p, signed) = IF Abs(p.lots) <= Abs(signed) THEN Abs(p.lots) ELSE Abs(signed)
           /\ Abs(p.lots) <= Abs(signed) => ClosedCost(p, signed) = p.basis
<1>1. Abs(p.lots) \in Int /\ Abs(p.lots) > 0 /\ Abs(signed) \in Int
  BY DEF Abs
<1>2. PICK l \in Int : l = Abs(p.lots) /\ l > 0
  BY <1>1
<1>3. PICK c \in Int : c = Closed(p, signed) /\ c = IF l <= Abs(signed) THEN l ELSE Abs(signed)
  <2>1. Closed(p, signed) = IF Abs(p.lots) <= Abs(signed) THEN Abs(p.lots) ELSE Abs(signed)
    BY <1>1, MinOfTwo DEF Closed
  <2> QED
    BY <1>1, <1>2, <2>1
<1>4. PICK v \in Int : v = p.basis
  OBVIOUS
<1>5. ClosedCost(p, signed) = (v * c) \div l
  BY <1>2, <1>3, <1>4 DEF ClosedCost
<1>6. (v * c) \div l \in Int
  <2>1. v * c \in Int
    BY ProductSigns
  <2> QED
    BY <1>2, <2>1
<1>7. (v * l) \div l = v
  BY <1>2
<1> QED
  BY <1>1, <1>2, <1>3, <1>4, <1>5, <1>6, <1>7

(* The cost of a position with a sign.                                     *)
Entries(p) == Direction(p.lots) * p.basis

PositionOK(p) ==
    /\ p \in [lots : Int, basis : Int, realized : Int, funding : Int]
    /\ p.lots = 0 => p.basis = 0

(* What a fill realizes and what it adds to the cost make up its price.    *)
LEMMA FillConserves ==
    ASSUME NEW p, PositionOK(p), NEW signed \in Int, NEW price \in Int
    PROVE  /\ Basis(p, signed, price) \in Int /\ Realized(p, signed, price) \in Int
           /\ p.lots + signed = 0 => Basis(p, signed, price) = 0
           /\ Realized(p, signed, price)
                = Direction(p.lots + signed) * Basis(p, signed, price) - Entries(p)
                    - Unit * price * signed
<1>1. PICK l \in Int : l = p.lots
  BY DEF PositionOK
<1>2. PICK v \in Int : v = p.basis
  BY DEF PositionOK
<1>3. PICK w \in Int : w = Unit * price
  BY CostAssumption
<1>4. l = 0 => v = 0
  BY <1>1, <1>2 DEF PositionOK
<1>5. Entries(p) = Direction(l) * v
  BY <1>1, <1>2 DEF Entries
<1>6. CASE l = 0 \/ (l > 0 /\ signed > 0) \/ (l < 0 /\ signed < 0)
  <2>1. Basis(p, signed, price) = v + w * Abs(signed) /\ Realized(p, signed, price) = 0
    <3>1. p.lots = 0 \/ p.lots * signed > 0
      BY <1>1, <1>6, ProductSigns
    <3>2. p.lots * signed >= 0
      BY <1>1, <1>6, ProductSigns
    <3> QED
      BY <1>2, <1>3, <3>1, <3>2 DEF Basis, Realized
  <2>2. w * signed \in Int /\ w * Abs(signed) = IF signed < 0 THEN -(w * signed) ELSE w * signed
    BY DEF Abs
  <2>3. Direction(l) * v = IF l > 0 THEN v ELSE -v
    BY DEF Direction
  <2>4. Direction(l + signed) * (v + w * Abs(signed))
           = IF l + signed > 0 THEN v + w * Abs(signed) ELSE -(v + w * Abs(signed))
    BY <2>2 DEF Direction
  <2>5. PICK x \in Int : x = w * signed
    BY <2>2
  <2>6. PICK y \in Int : y = w * Abs(signed)
    BY <2>2
  <2>7. y = IF signed < 0 THEN -x ELSE x
    BY <2>2, <2>5, <2>6
  <2>8. signed = 0 => x = 0
    BY <2>5
  <2>9. 0 = (IF l + signed > 0 THEN v + y ELSE -(v + y)) - (IF l > 0 THEN v ELSE -v) - x
    BY <1>4, <1>6, <2>7, <2>8
  <2>10. l + signed = 0 => v + y = 0
    BY <1>4, <1>6, <2>7, <2>8
  <2> QED
    BY <1>1, <1>3, <1>5, <2>1, <2>3, <2>4, <2>5, <2>6, <2>9, <2>10
<1>7. CASE l # 0 /\ ~((l > 0 /\ signed > 0) \/ (l < 0 /\ signed < 0))
  <2>1. ~(p.lots = 0 \/ p.lots * signed > 0)
    BY <1>1, <1>7, ProductSigns
  <2>2. PICK c \in Int : c = Closed(p, signed)
    BY <1>1, <1>2, <1>7, ClosingCost
  <2>3. PICK k \in Int : k = ClosedCost(p, signed)
    BY <1>1, <1>2, <1>7, ClosingCost
  <2>4. /\ c = IF Abs(l) <= Abs(signed) THEN Abs(l) ELSE Abs(signed)
        /\ Abs(l) <= Abs(signed) => k = v
    BY <1>1, <1>2, <1>7, <2>2, <2>3, ClosingCost
  <2>5. CASE signed = 0
    <3>1. p.lots * signed >= 0 /\ p.lots * (p.lots + signed) >= 0
      BY <1>1, <1>7, <2>5, ProductSigns
    <3>2. c = 0
      BY <2>4, <2>5, <1>7 DEF Abs
    <3>3. Abs(p.lots) \in Int /\ Abs(p.lots) > 0
      BY <1>1, <1>7 DEF Abs
    <3>4. k = 0
      BY <1>2, <2>2, <2>3, <3>2, <3>3 DEF ClosedCost
    <3>5. Basis(p, signed, price) = v /\ Realized(p, signed, price) = 0
      BY <1>2, <2>1, <2>3, <3>1, <3>4 DEF Basis, Realized
    <3>6. Unit * price * signed = 0 /\ l + signed = l
      BY <1>3, <2>5
    <3>7. Direction(l) * v \in Int
      BY DEF Direction
    <3> QED
      BY <1>1, <1>5, <1>7, <2>5, <3>5, <3>6, <3>7
  <2>6. CASE signed # 0
    <3>1. (l > 0 /\ signed < 0) \/ (l < 0 /\ signed > 0)
      BY <1>7, <2>6
    <3>2. Realized(p, signed, price) = Direction(l) * (w * c - k)
      <4>1. ~(p.lots * signed >= 0)
        BY <1>1, <3>1, ProductSigns
      <4> QED
        BY <1>1, <1>3, <2>2, <2>3, <4>1 DEF Realized
    <3>3. PICK x \in Int : x = w * signed
      OBVIOUS
    <3>4. PICK y \in Int : y = w * l
      OBVIOUS
    <3>5. CASE Abs(signed) <= Abs(l)
      <4>1. p.lots * (p.lots + signed) >= 0
        <5>1. (l > 0 /\ l + signed >= 0) \/ (l < 0 /\ l + signed <= 0)
          BY <3>1, <3>5 DEF Abs
        <5> QED
          BY <1>1, <5>1, ProductSigns
      <4>2. Basis(p, signed, price) = v - k
        BY <1>2, <2>1, <2>3, <4>1 DEF Basis
      <4>3. c = Abs(signed)
        BY <2>4, <3>5, <3>1 DEF Abs
      <4>4. w * c = IF signed < 0 THEN -x ELSE x
        BY <3>3, <4>3 DEF Abs
      <4>5. Direction(l) * (w * c - k) = (IF l > 0 THEN w * c - k ELSE -(w * c - k))
        BY <4>4 DEF Direction
      <4>6. Direction(l) * v = (IF l > 0 THEN v ELSE -v)
        BY DEF Direction
      <4>7. Direction(l + signed) * (v - k) = (IF l + signed > 0 THEN v - k ELSE -(v - k))
        BY DEF Direction
      <4>8. l + signed = 0 => k = v
        BY <2>4, <3>1 DEF Abs
      <4>9. (IF l > 0 THEN w * c - k ELSE -(w * c - k))
              = (IF l + signed > 0 THEN v - k ELSE -(v - k)) - (IF l > 0 THEN v ELSE -v) - x
        BY <3>1, <3>5, <4>4, <4>8 DEF Abs
      <4>10. w * c \in Int /\ v - k \in Int
        BY <4>4
      <4>11. Realized(p, signed, price) \in Int
        BY <3>2, <4>5, <4>10
      <4> QED
        BY <1>1, <1>3, <1>5, <3>2, <3>3, <4>2, <4>5, <4>6, <4>7, <4>8, <4>9, <4>10, <4>11
    <3>6. CASE ~(Abs(signed) <= Abs(l))
      <4>1. ~(p.lots * (p.lots + signed) >= 0)
        <5>1. (l > 0 /\ l + signed < 0) \/ (l < 0 /\ l + signed > 0)
          BY <3>1, <3>6 DEF Abs
        <5> QED
          BY <1>1, <5>1, ProductSigns
      <4>2. Basis(p, signed, price) = w * Abs(l + signed)
        BY <1>1, <1>3, <2>1, <4>1 DEF Basis
      <4>3. c = Abs(l) /\ k = v
        BY <2>4, <3>6, <3>1 DEF Abs
      <4>4. w * c = IF l < 0 THEN -y ELSE y
        BY <3>4, <4>3 DEF Abs
      <4>5. w * (l + signed) = y + x
        BY <3>3, <3>4
      <4>6. w * Abs(l + signed) = IF l + signed < 0 THEN -(y + x) ELSE y + x
        BY <4>5 DEF Abs
      <4>7. Direction(l) * (w * c - k) = (IF l > 0 THEN w * c - v ELSE -(w * c - v))
        BY <4>3, <4>4 DEF Direction
      <4>8. Direction(l) * v = (IF l > 0 THEN v ELSE -v)
        BY DEF Direction
      <4>9. PICK z \in Int : z = w * Abs(l + signed)
        BY <4>6
      <4>10. Direction(l + signed) * z = (IF l + signed > 0 THEN z ELSE -z)
        BY DEF Direction
      <4>11. l + signed # 0
        BY <3>1, <3>6 DEF Abs
      <4>12. (IF l > 0 THEN w * c - v ELSE -(w * c - v))
              = (IF l + signed > 0 THEN z ELSE -z) - (IF l > 0 THEN v ELSE -v) - x
        BY <3>1, <3>6, <4>4, <4>6, <4>9, <4>11 DEF Abs
      <4>13. w * c \in Int
        BY <4>4
      <4>14. Realized(p, signed, price) \in Int
        BY <3>2, <4>7, <4>13
      <4> QED
        BY <1>1, <1>3, <1>5, <3>2, <3>3, <4>2, <4>7, <4>8, <4>9, <4>10, <4>11, <4>12, <4>13, <4>14
    <3> QED
      BY <3>5, <3>6
  <2> QED
    BY <2>5, <2>6
<1> QED
  BY <1>6, <1>7

-----------------------------------------------------------------------------
(* One order against one quote.                                            *)

Sides == {"buy", "sell"}
PaperIds == {r.id : r \in Requests}
PaperStatuses == {"open", "partially_filled", "filled", "canceled", "rejected"}
PaperOrders == [id : PaperIds, symbol : Symbols, side : Sides, lots : Nat, limit : Nat, at : Int,
                filled : Nat, status : PaperStatuses]
PaperFills == [id : PaperIds, symbol : Symbols, side : Sides, at : Int, seq : Nat, lots : Nat,
               price : Nat, fee : Nat]
Positions == [lots : Int, basis : Int, realized : Int, funding : Int]
Accounts == [orders : Seq(PaperOrders), fills : Seq(PaperFills), pos : [Symbols -> Positions], cash : Int]

AccountOK(a) ==
    /\ a \in Accounts
    /\ \A i \in 1 .. Len(a.orders) : a.orders[i].filled <= a.orders[i].lots
    /\ \A s \in Symbols : PositionOK(a.pos[s])

QuoteOK(q) ==
    /\ q.symbol \in Symbols /\ q.at \in Int /\ q.seq \in Nat
    /\ q.bid \in Nat \ {0} /\ q.ask \in Nat /\ q.bid < q.ask
    /\ q.bidLots \in Nat /\ q.askLots \in Nat

(* The orders are the same but for what is filled and their status.        *)
SameOrders(a, b) ==
    /\ Len(b.orders) = Len(a.orders)
    /\ \A j \in 1 .. Len(a.orders) :
          b.orders[j].id = a.orders[j].id /\ b.orders[j].at = a.orders[j].at

SameMoney(a, b) == b.fills = a.fills /\ b.pos = a.pos /\ b.cash = a.cash

(* The account b is the account a after the fill x of the order o.         *)
Filled(a, b, x, o, quote) ==
    /\ x \in PaperFills /\ x.id = o.id /\ o.at < x.at /\ x.symbol = quote.symbol
    /\ b.fills = Append(a.fills, x)
    /\ \E p \in Positions :
          /\ PositionOK(p)
          /\ b.pos = [a.pos EXCEPT ![x.symbol] = p]
          /\ p.lots = a.pos[x.symbol].lots + Signed(x.side, x.lots)
          /\ p.funding = a.pos[x.symbol].funding
          /\ b.cash = a.cash + (Entries(p) - Entries(a.pos[x.symbol])) - Paid(x)
    /\ IF x.side = "buy" THEN x.price >= quote.ask ELSE x.price <= quote.bid

(* The price of a fill is at the touch or worse (_try_fill).               *)
LEMMA PriceOfFill ==
    ASSUME NEW q, QuoteOK(q), NEW o \in PaperOrders
    PROVE  /\ Price(o, q) \in Nat
           /\ IF o.side = "buy" THEN Price(o, q) >= q.ask ELSE Price(o, q) <= q.bid
<1>1. o.side \in {"buy", "sell"} /\ Slip \in 0 .. 99
  BY CostAssumption DEF PaperOrders, Sides
<1>2. PICK t \in Nat : t = Touch(o.side, q) /\ t = IF o.side = "buy" THEN q.ask ELSE q.bid
  BY DEF Touch, QuoteOK
<1>3. PICK c \in Int : c = t * Slip
  BY <1>1
<1>4. 0 <= c /\ c <= t * 100
  BY <1>1, <1>3
<1>5. c \div 100 \in Nat /\ c \div 100 <= t
  BY <1>3, <1>4
<1>6. Price(o, q) = IF o.limit # NoLimit THEN t ELSE t + (IF o.side = "buy" THEN c \div 100 ELSE -(c \div 100))
  BY <1>2, <1>3 DEF Price, Signed
<1> QED
  BY <1>1, <1>2, <1>5, <1>6

(* What _apply_fill books.                                                 *)
LEMMA FillBooked ==
    ASSUME NEW a, AccountOK(a), NEW x \in PaperFills
    PROVE  LET b == ApplyFill(a, x) IN
             /\ b \in Accounts /\ b.orders = a.orders
             /\ b.fills = Append(a.fills, x)
             /\ \E p \in Positions :
                  /\ PositionOK(p)
                  /\ b.pos = [a.pos EXCEPT ![x.symbol] = p]
                  /\ p.lots = a.pos[x.symbol].lots + Signed(x.side, x.lots)
                  /\ p.funding = a.pos[x.symbol].funding
                  /\ b.cash = a.cash + (Entries(p) - Entries(a.pos[x.symbol])) - Paid(x)
<1> DEFINE q == a.pos[x.symbol]
           d == Signed(x.side, x.lots)
           gain == Realized(q, d, x.price)
           v == Basis(q, d, x.price)
           p == [q EXCEPT !.lots = @ + d, !.basis = v, !.realized = @ + gain]
           b == ApplyFill(a, x)
<1>1. x.symbol \in Symbols /\ x.price \in Int /\ x.lots \in Nat /\ x.fee \in Int
  BY DEF PaperFills
<1>2. a.pos \in [Symbols -> Positions] /\ a.cash \in Int /\ a.fills \in Seq(PaperFills) /\ a \in Accounts
  BY DEF AccountOK, Accounts
<1>3. q \in Positions /\ PositionOK(q)
  BY <1>1, <1>2 DEF AccountOK
<1>4. d \in Int
  BY <1>1 DEF Signed
<1>5. /\ v \in Int /\ gain \in Int
      /\ q.lots + d = 0 => v = 0
      /\ gain = Direction(q.lots + d) * v - Entries(q) - Unit * x.price * d
  BY <1>1, <1>3, <1>4, FillConserves
<1>6. b = [a EXCEPT !.pos[x.symbol] = p, !.cash = @ + gain - x.fee, !.fills = Append(@, x)]
  BY DEF ApplyFill
<1> HIDE DEF v, gain, d, b
<1>7. q.lots \in Int /\ q.realized \in Int
  BY <1>3 DEF Positions
<1>8. p \in Positions /\ p.lots = q.lots + d /\ p.basis = v /\ p.funding = q.funding
  <2> HIDE DEF q
  <2>1. PICK r \in Positions : r = q
    BY <1>3
  <2>2. r.lots + d \in Int /\ r.realized + gain \in Int
    BY <1>4, <1>5, <1>7, <2>1
  <2>3. p = [r EXCEPT !.lots = r.lots + d, !.basis = v, !.realized = r.realized + gain]
    BY <2>1
  <2> HIDE DEF p
  <2> QED
    BY <1>5, <2>1, <2>2, <2>3 DEF Positions
<1>9. PositionOK(p)
  BY <1>5, <1>8 DEF PositionOK, Positions
<1>10. Entries(p) = Direction(q.lots + d) * v
  BY <1>8 DEF Entries
<1>11. gain - x.fee = (Entries(p) - Entries(q)) - Paid(x)
  <2>1. Entries(p) \in Int /\ Entries(q) \in Int
    <3>1. \A n, m \in Int : Direction(n) * m \in Int
      BY DEF Direction
    <3> QED
      BY <1>3, <1>8, <3>1 DEF Entries, Positions
  <2>2. Unit * x.price * d \in Int
    BY <1>1, <1>4, CostAssumption
  <2>3. Paid(x) = Unit * x.price * d + x.fee
    BY DEF Paid, d
  <2>4. PICK u \in Int : u = Unit * x.price * d
    BY <2>2
  <2>5. gain = Entries(p) - Entries(q) - u /\ Paid(x) = u + x.fee
    BY <1>5, <1>10, <2>3, <2>4
  <2> HIDE DEF q, p
  <2> QED
    BY <1>1, <1>5, <2>1, <2>5
<1> HIDE DEF p
<1>12. b.orders = a.orders /\ b.fills = Append(a.fills, x) /\ b.pos = [a.pos EXCEPT ![x.symbol] = p]
       /\ b.cash = a.cash + gain - x.fee
  BY <1>2, <1>6 DEF Accounts
<1>13. b \in Accounts
  <2>1. a.cash + gain - x.fee \in Int /\ Append(a.fills, x) \in Seq(PaperFills)
        /\ [a.pos EXCEPT ![x.symbol] = p] \in [Symbols -> Positions]
    BY <1>1, <1>2, <1>5, <1>8
  <2> QED
    BY <1>2, <1>6, <2>1 DEF Accounts
<1>14. b.cash = a.cash + (Entries(p) - Entries(q)) - Paid(x)
  <2>1. (Entries(p) - Entries(q)) - Paid(x) \in Int
    BY <1>1, <1>5, <1>11
  <2>2. Entries(p) - Entries(q) \in Int /\ Paid(x) \in Int
    <3>1. \A n, m \in Int : Direction(n) * m \in Int
      BY DEF Direction
    <3>2. Entries(p) \in Int /\ Entries(q) \in Int
      BY <1>3, <1>8, <3>1 DEF Entries, Positions
    <3>3. Paid(x) \in Int
      BY <1>1, <1>4, CostAssumption DEF Paid, d
    <3> QED
      BY <3>2, <3>3
  <2> QED
    BY <1>1, <1>2, <1>5, <1>11, <1>12, <2>2
<1> QED
  BY <1>8, <1>9, <1>12, <1>13, <1>14 DEF b, d

Updated(os, i, n, st) == [os EXCEPT ![i].filled = n, ![i].status = st]

(* One entry of the orders changes, within its own fields.                 *)
LEMMA OrderChanged ==
    ASSUME NEW a \in Accounts, NEW i \in 1 .. Len(a.orders), NEW b \in Accounts,
           NEW n \in Nat, NEW st \in PaperStatuses,
           \A j \in 1 .. Len(a.orders) : a.orders[j].filled <= a.orders[j].lots,
           b.orders = Updated(a.orders, i, n, st), n <= a.orders[i].lots
    PROVE  /\ SameOrders(a, b)
           /\ \A j \in 1 .. Len(b.orders) : b.orders[j].filled <= b.orders[j].lots
<1>1. a.orders \in Seq(PaperOrders)
  BY DEF Accounts
<1>2. PICK os \in Seq(PaperOrders) : os = a.orders
  BY <1>1
<1>3. PICK o \in PaperOrders : o = os[i]
  BY <1>2
<1> DEFINE o2 == [o EXCEPT !.filled = n, !.status = st]
<1>4. o2.id = o.id /\ o2.at = o.at /\ o2.lots = o.lots /\ o2.filled = n
  BY DEF PaperOrders
<1>5. b.orders = [os EXCEPT ![i] = o2]
  BY <1>2, <1>3 DEF Updated
<1> HIDE DEF o2
<1>6. Len(b.orders) = Len(os) /\ \A j \in 1 .. Len(os) : b.orders[j] = IF j = i THEN o2 ELSE os[j]
  BY <1>2, <1>5
<1> QED
  BY <1>2, <1>3, <1>4, <1>6 DEF SameOrders

(* _try_fill leaves the money alone or books one fill.                     *)
LEMMA TryFillStep ==
    ASSUME NEW a, AccountOK(a), NEW i \in 1 .. Len(a.orders), NEW quote, QuoteOK(quote), NEW marks,
           Eligible(a.orders[i], quote)
    PROVE  LET b == TryFill(a, i, quote, marks) IN
             /\ AccountOK(b) /\ SameOrders(a, b)
             /\ \/ SameMoney(a, b)
                \/ \E x \in PaperFills :
                      /\ Filled(a, b, x, a.orders[i], quote)
                      /\ ExposureAllowed(a, x.symbol, Signed(x.side, x.lots), marks)
<1> DEFINE o == a.orders[i]
           lots == Min({Remaining(o), Available(o.side, quote)})
           price == Price(o, quote)
           x == [id |-> o.id, symbol |-> o.symbol, side |-> o.side, at |-> quote.at,
                 seq |-> quote.seq, lots |-> lots, price |-> price,
                 fee |-> (Unit * price * lots * Fee) \div 100]
           b == TryFill(a, i, quote, marks)
<1>1. /\ a \in Accounts /\ a.orders \in Seq(PaperOrders) /\ o \in PaperOrders
      /\ o.filled <= o.lots /\ \A j \in 1 .. Len(a.orders) : a.orders[j].filled <= a.orders[j].lots
  BY DEF AccountOK, Accounts
<1>2. o.lots \in Nat /\ o.filled \in Nat /\ o.symbol \in Symbols /\ o.side \in Sides /\ o.id \in PaperIds
  BY <1>1 DEF PaperOrders
<1>3. o.symbol = quote.symbol /\ o.at < quote.at
  BY DEF Eligible
<1>4. lots \in Nat /\ lots <= Remaining(o) /\ Remaining(o) = o.lots - o.filled
  <2>1. Remaining(o) \in Nat /\ Remaining(o) = o.lots - o.filled
    BY <1>1, <1>2 DEF Remaining
  <2>2. Available(o.side, quote) \in Nat
    BY DEF Available, QuoteOK
  <2> QED
    BY <2>1, <2>2, MinOfTwo
<1>5. price \in Nat /\ IF o.side = "buy" THEN price >= quote.ask ELSE price <= quote.bid
  BY <1>1, PriceOfFill
<1> HIDE DEF lots, price
<1>6. x \in PaperFills
  <2>1. (Unit * price * lots * Fee) \div 100 \in Nat
    <3>1. Unit * price * lots * Fee \in Nat
      BY <1>4, <1>5, CostAssumption
    <3> QED
      BY <3>1
  <2>2. quote.at \in Int /\ quote.seq \in Nat
    BY DEF QuoteOK
  <2> HIDE DEF o
  <2> QED
    BY <1>2, <1>4, <1>5, <2>1, <2>2 DEF PaperFills
<1>7. CASE lots = 0 \/ ~Crosses(o, quote)
  <2>1. b = a
    BY <1>7 DEF TryFill, lots
  <2> QED
    BY <2>1 DEF SameOrders, SameMoney
<1>8. CASE ~(lots = 0 \/ ~Crosses(o, quote)) /\ ~ExposureAllowed(a, o.symbol, Signed(o.side, lots), marks)
  <2>1. b = [a EXCEPT !.orders[i].status = "rejected"]
    BY <1>8 DEF TryFill, lots
  <2> DEFINE os == Updated(a.orders, i, o.filled, "rejected")
  <2>2. os = [a.orders EXCEPT ![i].status = "rejected"] /\ os \in Seq(PaperOrders)
    <3>1. [o EXCEPT !.filled = o.filled, !.status = "rejected"] = [o EXCEPT !.status = "rejected"]
          /\ [o EXCEPT !.status = "rejected"] \in PaperOrders
      BY <1>1 DEF PaperOrders, PaperStatuses
    <3>2. os = [a.orders EXCEPT ![i] = [o EXCEPT !.status = "rejected"]]
      BY <1>1, <3>1 DEF Updated
    <3> QED
      BY <1>1, <3>1, <3>2
  <2> HIDE DEF os
  <2>3. b \in Accounts /\ b.orders = os /\ b.fills = a.fills /\ b.pos = a.pos /\ b.cash = a.cash
    <3>1. b = [a EXCEPT !.orders = os]
      BY <2>1, <2>2
    <3> HIDE DEF b
    <3> QED
      BY <1>1, <2>2, <3>1 DEF Accounts
  <2>4. "rejected" \in PaperStatuses
    BY DEF PaperStatuses
  <2> HIDE DEF b
  <2>5. SameOrders(a, b) /\ \A j \in 1 .. Len(b.orders) : b.orders[j].filled <= b.orders[j].lots
    BY <1>1, <1>2, <2>3, <2>4, OrderChanged DEF os
  <2>6. AccountOK(b)
    BY <2>3, <2>5 DEF AccountOK
  <2> QED
    BY <2>3, <2>5, <2>6 DEF SameMoney, b
<1>9. CASE ~(lots = 0 \/ ~Crosses(o, quote)) /\ ExposureAllowed(a, o.symbol, Signed(o.side, lots), marks)
  <2> DEFINE c == ApplyFill(a, x)
             st == IF lots = Remaining(o) THEN "filled" ELSE "partially_filled"
             os == Updated(a.orders, i, o.filled + lots, st)
  <2>1. /\ c \in Accounts /\ c.orders = a.orders
        /\ c.fills = Append(a.fills, x)
        /\ \E p \in Positions :
             /\ PositionOK(p)
             /\ c.pos = [a.pos EXCEPT ![x.symbol] = p]
             /\ p.lots = a.pos[x.symbol].lots + Signed(x.side, x.lots)
             /\ p.funding = a.pos[x.symbol].funding
             /\ c.cash = a.cash + (Entries(p) - Entries(a.pos[x.symbol])) - Paid(x)
    BY <1>6, FillBooked
  <2>2. b = [c EXCEPT !.orders[i].filled = @ + lots, !.orders[i].status = st]
    BY <1>9 DEF TryFill, lots, price
  <2>3. b = [c EXCEPT !.orders = os]
    <3> HIDE DEF c, st
    <3>1. c.orders[i] = o
      BY <2>1
    <3> QED
      BY <2>1, <2>2, <3>1 DEF Updated
  <2> HIDE DEF c, x
  <2>4. o.filled + lots \in Nat /\ o.filled + lots <= o.lots /\ st \in PaperStatuses
    BY <1>2, <1>4 DEF PaperStatuses
  <2> HIDE DEF st
  <2>5. os \in Seq(PaperOrders)
    <3>1. [o EXCEPT !.filled = o.filled + lots, !.status = st] \in PaperOrders
      BY <1>1, <2>4 DEF PaperOrders
    <3>2. os = [a.orders EXCEPT ![i] = [o EXCEPT !.filled = o.filled + lots, !.status = st]]
      BY <1>1 DEF Updated
    <3> QED
      BY <1>1, <3>1, <3>2
  <2> HIDE DEF os
  <2>6. b \in Accounts /\ b.orders = os /\ b.fills = c.fills /\ b.pos = c.pos /\ b.cash = c.cash
    <3> HIDE DEF b
    <3> QED
      BY <2>1, <2>3, <2>5 DEF Accounts
  <2> HIDE DEF b
  <2>7. SameOrders(a, b) /\ \A j \in 1 .. Len(b.orders) : b.orders[j].filled <= b.orders[j].lots
    BY <1>1, <2>4, <2>6, OrderChanged DEF os
  <2>8. \A s \in Symbols : PositionOK(b.pos[s])
    <3>1. PICK p \in Positions : PositionOK(p) /\ c.pos = [a.pos EXCEPT ![x.symbol] = p]
      BY <2>1
    <3>2. a.pos \in [Symbols -> Positions] /\ \A s \in Symbols : PositionOK(a.pos[s])
      BY DEF AccountOK, Accounts
    <3> QED
      BY <2>6, <3>1, <3>2
  <2>9. AccountOK(b)
    BY <2>6, <2>7, <2>8 DEF AccountOK
  <2>10. /\ x.id = o.id /\ o.at < x.at /\ x.symbol = quote.symbol /\ x.side = o.side
         /\ x.price = price /\ x.symbol = o.symbol /\ x.lots = lots
    BY <1>3 DEF x
  <2>11. Filled(a, b, x, o, quote)
    BY <1>5, <1>6, <2>1, <2>6, <2>10 DEF Filled
  <2>12. ExposureAllowed(a, x.symbol, Signed(x.side, x.lots), marks)
    BY <1>9, <2>10
  <2> QED
    BY <1>6, <2>7, <2>9, <2>11, <2>12 DEF b
<1> QED
  BY <1>7, <1>8, <1>9

-----------------------------------------------------------------------------
(* The account as a whole.                                                 *)

EntriesOf(held) == [s \in Symbols |-> Entries(held[s])]
FundingOf(held) == [s \in Symbols |-> held[s].funding]
PaidOf(fs) == [i \in 1 .. Len(fs) |-> Paid(fs[i])]

Balanced(a) ==
    a.cash - Total(EntriesOf(a.pos)) = Unit * Cash - Total(PaidOf(a.fills)) + Total(FundingOf(a.pos))

LEMMA TotalIsSum ==
    ASSUME NEW f
    PROVE  Total(f) = Sum(f, DOMAIN f)
  BY DEF Total, Sum

(* A total of integers, and what one changed term does to it.              *)
LEMMA TotalChanges ==
    ASSUME NEW S, IsFiniteSet(S), NEW f \in [S -> Int], NEW h \in [S -> Int], NEW a \in S,
           \A x \in S : x # a => h[x] = f[x]
    PROVE  Total(f) \in Int /\ Total(h) = Total(f) + (h[a] - f[a])
<1>1. Total(f) = Sum(f, S) /\ Total(h) = Sum(h, S)
  BY TotalIsSum
<1>2. \A x \in S : f[x] \in Int
  OBVIOUS
<1>3. Sum(f, S) \in Int
  BY <1>2, SumType
<1>4. h[a] \in Int
  OBVIOUS
<1>5. Sum(h, S) = Sum(f, S) + (h[a] - f[a])
  BY <1>2, <1>4, SumChanges
<1> QED
  BY <1>1, <1>3, <1>5

(* A fill adds what it paid.                                               *)
LEMMA PaidGrows ==
    ASSUME NEW fs \in Seq(PaperFills), NEW x \in PaperFills
    PROVE  /\ Total(PaidOf(fs)) \in Int /\ Paid(x) \in Int
           /\ Total(PaidOf(Append(fs, x))) = Total(PaidOf(fs)) + Paid(x)
<1>1. \A y \in PaperFills : Paid(y) \in Int
  <2> SUFFICES ASSUME NEW y \in PaperFills PROVE Paid(y) \in Int
    OBVIOUS
  <2>1. y.price \in Int /\ y.lots \in Int /\ y.fee \in Int
    BY DEF PaperFills
  <2>2. Signed(y.side, y.lots) \in Int
    BY <2>1 DEF Signed
  <2>3. Unit * y.price * Signed(y.side, y.lots) \in Int
    BY <2>1, <2>2, CostAssumption
  <2> QED
    BY <2>1, <2>3 DEF Paid
<1>2. PICK n \in Nat : n = Len(fs)
  OBVIOUS
<1> DEFINE S == 1 .. n
           f == PaidOf(fs)
           h == PaidOf(Append(fs, x))
<1>3. Append(fs, x) \in Seq(PaperFills) /\ Len(Append(fs, x)) = n + 1
      /\ Append(fs, x)[n + 1] = x /\ \A i \in 1 .. n : Append(fs, x)[i] = fs[i]
  BY <1>2
<1>4. DOMAIN f = S /\ \A i \in S : f[i] = Paid(fs[i]) /\ f[i] \in Int
  BY <1>1, <1>2 DEF PaidOf
<1>5. DOMAIN h = 1 .. (n + 1) /\ h[n + 1] = Paid(x) /\ \A i \in S : h[i] = f[i]
  <2>1. DOMAIN h = 1 .. (n + 1) /\ \A i \in 1 .. (n + 1) : h[i] = Paid(Append(fs, x)[i])
    BY <1>3 DEF PaidOf
  <2>2. n + 1 \in 1 .. (n + 1) /\ \A i \in S : i \in 1 .. (n + 1)
    OBVIOUS
  <2> QED
    BY <1>3, <1>4, <2>1, <2>2
<1>6. S \cup {n + 1} = 1 .. (n + 1) /\ n + 1 \notin S
  OBVIOUS
<1>7. IsFiniteSet(S)
  BY FS_Interval
<1> HIDE DEF f, h, S
<1>8. Sum(h, S) = Sum(f, S)
  BY <1>4, <1>5, <1>7, SumSame
<1>9. \A y \in S \cup {n + 1} : h[y] \in Int
  BY <1>1, <1>4, <1>5
<1>10. Sum(h, S \cup {n + 1}) = Sum(h, S) + h[n + 1]
  BY <1>6, <1>7, <1>9, SumGrows
<1>11. Total(f) = Sum(f, S) /\ Total(h) = Sum(h, S \cup {n + 1})
  BY <1>4, <1>5, <1>6, TotalIsSum
<1>12. Sum(f, S) \in Int
  BY <1>4, <1>7, SumType
<1> QED
  BY <1>1, <1>5, <1>8, <1>10, <1>11, <1>12 DEF f, h

(* The terms of the totals over a book are integers.                       *)
LEMMA BookTerms ==
    ASSUME NEW held \in [Symbols -> Positions]
    PROVE  EntriesOf(held) \in [Symbols -> Int] /\ FundingOf(held) \in [Symbols -> Int]
<1>1. \A n, m \in Int : Direction(n) * m \in Int
  BY DEF Direction
<1>2. \A p \in Positions : p.lots \in Int /\ p.basis \in Int /\ p.funding \in Int
  BY DEF Positions
<1>3. \A p \in Positions : Entries(p) \in Int
  BY <1>1, <1>2 DEF Entries
<1> QED
  BY <1>2, <1>3 DEF EntriesOf, FundingOf

(* A fill keeps the books balanced.                                        *)
LEMMA FillBalances ==
    ASSUME NEW a, AccountOK(a), NEW b, NEW x, NEW o, NEW quote, Filled(a, b, x, o, quote), Balanced(a)
    PROVE  Balanced(b)
<1>1. a.pos \in [Symbols -> Positions] /\ a.cash \in Int /\ a.fills \in Seq(PaperFills)
  BY DEF AccountOK, Accounts
<1>2. x \in PaperFills /\ b.fills = Append(a.fills, x)
  BY DEF Filled
<1>3. x.symbol \in Symbols
  BY <1>2 DEF PaperFills
<1>4. PICK p \in Positions :
          /\ b.pos = [a.pos EXCEPT ![x.symbol] = p]
          /\ p.funding = a.pos[x.symbol].funding
          /\ b.cash = a.cash + (Entries(p) - Entries(a.pos[x.symbol])) - Paid(x)
  BY DEF Filled
<1>5. b.pos \in [Symbols -> Positions] /\ \A s \in Symbols : b.pos[s] = IF s = x.symbol THEN p ELSE a.pos[s]
  BY <1>1, <1>3, <1>4
<1> DEFINE e1 == EntriesOf(a.pos)
           e2 == EntriesOf(b.pos)
           u1 == FundingOf(a.pos)
           u2 == FundingOf(b.pos)
<1>6. e1 \in [Symbols -> Int] /\ e2 \in [Symbols -> Int] /\ u1 \in [Symbols -> Int] /\ u2 \in [Symbols -> Int]
  BY <1>1, <1>5, BookTerms
<1>7. /\ \A s \in Symbols : s # x.symbol => e2[s] = e1[s]
      /\ e1[x.symbol] = Entries(a.pos[x.symbol]) /\ e2[x.symbol] = Entries(p)
  BY <1>3, <1>5 DEF EntriesOf
<1>8. u2 = u1
  <2>1. \A s \in Symbols : u2[s] = u1[s]
    BY <1>4, <1>5 DEF FundingOf
  <2> QED
    BY <1>6, <2>1
<1> HIDE DEF e1, e2, u1, u2
<1>9. Total(e1) \in Int /\ Total(e2) = Total(e1) + (e2[x.symbol] - e1[x.symbol])
  BY <1>3, <1>6, <1>7, SymbolsAssumption, TotalChanges
<1>10. /\ Total(PaidOf(a.fills)) \in Int /\ Paid(x) \in Int
       /\ Total(PaidOf(b.fills)) = Total(PaidOf(a.fills)) + Paid(x)
  BY <1>1, <1>2, PaidGrows
<1>11. Total(u1) \in Int
  BY <1>3, <1>6, SymbolsAssumption, TotalChanges
<1>12. Unit * Cash \in Int
  BY CostAssumption
<1>13. e1[x.symbol] \in Int /\ e2[x.symbol] \in Int
  BY <1>3, <1>6
<1>14. a.cash - Total(e1) = Unit * Cash - Total(PaidOf(a.fills)) + Total(u1)
  BY DEF Balanced, e1, u1
<1>15. b.cash - Total(e2) = Unit * Cash - Total(PaidOf(b.fills)) + Total(u2)
  <2>1. b.cash = a.cash + (e2[x.symbol] - e1[x.symbol]) - Paid(x)
    BY <1>4, <1>7
  <2>2. PICK i1 \in Int : i1 = e1[x.symbol]
    BY <1>13
  <2>3. PICK i2 \in Int : i2 = e2[x.symbol]
    BY <1>13
  <2>4. PICK i3 \in Int : i3 = Paid(x)
    BY <1>10
  <2>5. PICK i4 \in Int : i4 = Total(e1)
    BY <1>9
  <2>6. PICK i5 \in Int : i5 = Total(PaidOf(a.fills))
    BY <1>10
  <2>7. PICK i6 \in Int : i6 = Total(u1)
    BY <1>11
  <2>8. PICK i7 \in Int : i7 = Unit * Cash
    BY <1>12
  <2>9. PICK i8 \in Int : i8 = a.cash
    BY <1>1
  <2>10. i8 - i4 = i7 - i5 + i6
    BY <1>14, <2>5, <2>6, <2>7, <2>8, <2>9
  <2>11. (i8 + (i2 - i1) - i3) - (i4 + (i2 - i1)) = i7 - (i5 + i3) + i6
    BY <2>10
  <2> QED
    BY <1>8, <1>9, <1>10, <2>1, <2>2, <2>3, <2>4, <2>5, <2>6, <2>7, <2>8, <2>9, <2>11
<1> QED
  BY <1>15 DEF Balanced, e2, u2

-----------------------------------------------------------------------------
(* Exposure.                                                               *)

MarksOK(marks) == \A s \in Quoted(marks) : QuoteOK(marks[s])

(* The mid price lies between the two sides of the quote.                  *)
LEMMA MidOf ==
    ASSUME NEW q, QuoteOK(q)
    PROVE  Mid(q) \in Nat /\ q.bid <= Mid(q) /\ Mid(q) <= q.ask
<1>1. q.bid \in Nat /\ q.ask \in Nat /\ q.bid < q.ask
  BY DEF QuoteOK
<1> QED
  BY <1>1 DEF Mid

Worths(held, marks) == [s \in Quoted(marks) |-> Unrealized(held[s], marks[s])]

(* A trade at the touch or worse gains nothing at the mid price.           *)
LEMMA TradeLoses ==
    ASSUME NEW unit \in Nat, NEW price \in Nat, NEW mid \in Nat, NEW lots \in Nat, NEW side \in Sides,
           IF side = "buy" THEN price >= mid ELSE price <= mid
    PROVE  (unit * mid) * Signed(side, lots) <= (unit * price) * Signed(side, lots)
<1>1. CASE side = "buy"
  <2>1. PICK e \in Nat : price = mid + e
    <3>1. price - mid \in Nat /\ price = mid + (price - mid)
      BY <1>1
    <3> QED
      BY <3>1
  <2>2. (unit * price) * lots = (unit * mid) * lots + (unit * e) * lots
    BY <2>1
  <2>3. (unit * e) * lots \in Nat /\ (unit * mid) * lots \in Nat
    OBVIOUS
  <2>4. (unit * mid) * lots <= (unit * price) * lots
    BY <2>2, <2>3
  <2> QED
    BY <1>1, <2>4 DEF Signed
<1>2. CASE side # "buy"
  <2>1. PICK e \in Nat : mid = price + e
    <3>1. mid - price \in Nat /\ mid = price + (mid - price)
      BY <1>2
    <3> QED
      BY <3>1
  <2>2. (unit * mid) * lots = (unit * price) * lots + (unit * e) * lots
    BY <2>1
  <2>3. (unit * e) * lots \in Nat /\ (unit * price) * lots \in Nat
    OBVIOUS
  <2>4. (unit * mid) * (-lots) = -((unit * mid) * lots) /\ (unit * price) * (-lots) = -((unit * price) * lots)
    OBVIOUS
  <2>5. (unit * mid) * (-lots) <= (unit * price) * (-lots)
    BY <2>2, <2>3, <2>4
  <2> QED
    BY <1>2, <2>5 DEF Signed
<1> QED
  BY <1>1, <1>2

(* The terms of the equity are integers.                                   *)
LEMMA WorthTerms ==
    ASSUME NEW held \in [Symbols -> Positions], NEW marks, MarksOK(marks)
    PROVE  Worths(held, marks) \in [Quoted(marks) -> Int] /\ IsFiniteSet(Quoted(marks))
<1>1. IsFiniteSet(Quoted(marks))
  BY SymbolsAssumption, FS_Subset DEF Quoted
<1>2. ASSUME NEW s \in Quoted(marks) PROVE Unrealized(held[s], marks[s]) \in Int
  <2>1. QuoteOK(marks[s]) /\ s \in Symbols
    BY DEF MarksOK, Quoted
  <2>2. Mid(marks[s]) \in Nat
    BY <2>1, MidOf
  <2>3. held[s].lots \in Int /\ held[s].basis \in Int
    BY <2>1 DEF Positions
  <2>4. Direction(held[s].lots) * held[s].basis \in Int
    BY <2>3 DEF Direction
  <2>5. Unit * Mid(marks[s]) * held[s].lots \in Int
    BY <2>2, <2>3, CostAssumption
  <2> QED
    BY <2>4, <2>5 DEF Unrealized
<1> QED
  BY <1>1, <1>2 DEF Worths

(* A fill does not raise the equity.                                       *)
LEMMA EquityFalls ==
    ASSUME NEW a, AccountOK(a), NEW b, NEW x, NEW o, NEW quote, Filled(a, b, x, o, quote),
           QuoteOK(quote), NEW marks, MarksOK(marks), quote.symbol \in Quoted(marks),
           marks[quote.symbol] = quote
    PROVE  /\ Equity(a.cash, a.pos, marks) \in Int /\ Equity(b.cash, b.pos, marks) \in Int
           /\ Equity(b.cash, b.pos, marks) <= Equity(a.cash, a.pos, marks)
<1>1. a.pos \in [Symbols -> Positions] /\ a.cash \in Int
  BY DEF AccountOK, Accounts
<1>2. x \in PaperFills /\ x.symbol = quote.symbol
  BY DEF Filled
<1>3. x.symbol \in Symbols /\ x.lots \in Nat /\ x.price \in Nat /\ x.fee \in Nat /\ x.side \in Sides
  BY <1>2 DEF PaperFills
<1>4. PICK p \in Positions :
          /\ b.pos = [a.pos EXCEPT ![x.symbol] = p]
          /\ p.lots = a.pos[x.symbol].lots + Signed(x.side, x.lots)
          /\ b.cash = a.cash + (Entries(p) - Entries(a.pos[x.symbol])) - Paid(x)
  BY DEF Filled
<1>5. b.pos \in [Symbols -> Positions] /\ \A s \in Symbols : b.pos[s] = IF s = x.symbol THEN p ELSE a.pos[s]
  BY <1>1, <1>3, <1>4
<1> DEFINE S == Quoted(marks)
           w1 == Worths(a.pos, marks)
           w2 == Worths(b.pos, marks)
           k == x.symbol
<1>6. w1 \in [S -> Int] /\ w2 \in [S -> Int] /\ IsFiniteSet(S) /\ k \in S
  BY <1>1, <1>2, <1>5, WorthTerms
<1>7. PICK mid \in Nat : mid = Mid(quote) /\ quote.bid <= mid /\ mid <= quote.ask
  BY MidOf
<1>8. PICK m \in Int : m = Unit * mid
  BY CostAssumption
<1>9. PICK d \in Int : d = Signed(x.side, x.lots)
  BY <1>3 DEF Signed
<1>10. PICK l \in Int : l = a.pos[k].lots
  BY <1>1, <1>3 DEF Positions
<1>11. PICK e1 \in Int : e1 = Entries(a.pos[k])
  <2>1. EntriesOf(a.pos) \in [Symbols -> Int]
    BY <1>1, BookTerms
  <2> QED
    BY <1>3, <2>1 DEF EntriesOf
<1>12. PICK e2 \in Int : e2 = Entries(p)
  <2>1. EntriesOf(b.pos) \in [Symbols -> Int]
    BY <1>5, BookTerms
  <2>2. EntriesOf(b.pos)[k] = Entries(p)
    BY <1>3, <1>5 DEF EntriesOf
  <2> QED
    BY <1>3, <2>1, <2>2
<1>13. /\ \A s \in S : s # k => w2[s] = w1[s]
       /\ w1[k] = m * l - e1 /\ w2[k] = m * (l + d) - e2
  <2>1. \A s \in S : s \in Symbols
    BY DEF Quoted
  <2>2. \A s \in S : s # k => w2[s] = w1[s]
    BY <1>5, <2>1 DEF Worths
  <2>3. w1[k] = Unrealized(a.pos[k], quote) /\ w2[k] = Unrealized(p, quote)
    BY <1>2, <1>3, <1>5, <1>6 DEF Worths
  <2>4. Unrealized(a.pos[k], quote) = m * l - e1
    BY <1>7, <1>8, <1>10, <1>11 DEF Unrealized, Entries
  <2>5. Unrealized(p, quote) = m * (l + d) - e2
    BY <1>4, <1>7, <1>8, <1>9, <1>10, <1>12 DEF Unrealized, Entries
  <2> QED
    BY <2>2, <2>3, <2>4, <2>5
<1> HIDE DEF w1, w2, S
<1>14. Total(w1) \in Int /\ Total(w2) = Total(w1) + (w2[k] - w1[k])
  BY <1>6, <1>13, TotalChanges
<1>15. PICK c \in Int : c = Unit * x.price
  BY <1>3, CostAssumption
<1>16. m * d <= c * d
  <2>1. IF x.side = "buy" THEN x.price >= mid ELSE x.price <= mid
    <3>1. IF x.side = "buy" THEN x.price >= quote.ask ELSE x.price <= quote.bid
      BY DEF Filled
    <3>2. quote.ask \in Nat /\ quote.bid \in Nat
      BY DEF QuoteOK
    <3> QED
      BY <1>3, <1>7, <3>1, <3>2
  <2>2. Unit \in Nat
    BY CostAssumption
  <2>3. (Unit * mid) * Signed(x.side, x.lots) <= (Unit * x.price) * Signed(x.side, x.lots)
    BY <1>3, <2>1, <2>2, TradeLoses
  <2> QED
    BY <1>8, <1>9, <1>15, <2>3
<1>17. Paid(x) = c * d + x.fee
  BY <1>9, <1>15 DEF Paid
<1>18. m * (l + d) = m * l + m * d /\ m * l \in Int /\ m * d \in Int /\ c * d \in Int
  OBVIOUS
<1>19. PICK y \in Int : y = m * l
  BY <1>18
<1>20. PICK z \in Int : z = m * d
  BY <1>18
<1>21. PICK v \in Int : v = c * d
  BY <1>18
<1>22. w1[k] = y - e1 /\ w2[k] = (y + z) - e2 /\ z <= v
  BY <1>13, <1>16, <1>18, <1>19, <1>20, <1>21
<1>23. b.cash = a.cash + (e2 - e1) - (v + x.fee)
  BY <1>4, <1>11, <1>12, <1>17, <1>21
<1>24. Equity(a.cash, a.pos, marks) = a.cash + Total(w1) /\ Equity(b.cash, b.pos, marks) = b.cash + Total(w2)
  BY DEF Equity, w1, w2, Worths
<1>25. PICK g \in Int : g = Total(w1)
  BY <1>14
<1>26. Total(w2) = g + (((y + z) - e2) - (y - e1))
  BY <1>14, <1>22, <1>25
<1> QED
  BY <1>1, <1>3, <1>22, <1>23, <1>24, <1>25, <1>26

(* The exposure that was allowed is the one the fill leaves.               *)
LEMMA CandidateIsBook ==
    ASSUME NEW a, AccountOK(a), NEW b, NEW x, NEW o, NEW quote, Filled(a, b, x, o, quote), NEW marks
    PROVE  Gross(Candidate(a.pos, x.symbol, Signed(x.side, x.lots)), marks) = Gross(b.pos, marks)
<1> DEFINE d == Signed(x.side, x.lots)
           c == Candidate(a.pos, x.symbol, d)
<1>1. a.pos \in [Symbols -> Positions]
  BY DEF AccountOK, Accounts
<1>2. x.symbol \in Symbols
  BY DEF Filled, PaperFills
<1>3. PICK p \in Positions :
          b.pos = [a.pos EXCEPT ![x.symbol] = p] /\ p.lots = a.pos[x.symbol].lots + d
  BY DEF Filled
<1> HIDE DEF d
<1>4. \A s \in Symbols : c[s].lots = b.pos[s].lots
  <2>1. \A q \in Positions : [q EXCEPT !.lots = q.lots + d].lots = q.lots + d
    BY DEF Positions
  <2>2. c[x.symbol] = [a.pos[x.symbol] EXCEPT !.lots = a.pos[x.symbol].lots + d]
    BY <1>1, <1>2 DEF Candidate
  <2>3. \A s \in Symbols : s # x.symbol => c[s] = a.pos[s] /\ b.pos[s] = a.pos[s]
    BY <1>1, <1>2, <1>3 DEF Candidate
  <2>4. b.pos[x.symbol] = p /\ a.pos[x.symbol] \in Positions
    BY <1>1, <1>2, <1>3
  <2> HIDE DEF c
  <2>5. c[x.symbol].lots = a.pos[x.symbol].lots + d
    BY <2>1, <2>2, <2>4
  <2> QED
    BY <1>3, <2>3, <2>4, <2>5
<1> HIDE DEF c
<1>5. [s \in Quoted(marks) |-> Abs(Unit * Mid(marks[s]) * c[s].lots)]
        = [s \in Quoted(marks) |-> Abs(Unit * Mid(marks[s]) * b.pos[s].lots)]
  BY <1>4 DEF Quoted
<1> QED
  BY <1>5 DEF Gross, c, d

-----------------------------------------------------------------------------
(* on_quote: every order in turn.                                          *)

Matches(g, base, quote, marks, z) ==
    g = [i \in 0 .. z |-> IF i = 0 THEN base ELSE MatchOne(g[i - 1], i, quote, marks)]

(* The loop over the orders has a result, for any number of them.          *)
LEMMA MatchesExist ==
    ASSUME NEW base, NEW quote, NEW marks
    PROVE  \A z \in Nat : \E g : Matches(g, base, quote, marks, z)
<1> DEFINE N == {z \in Nat : \E g : Matches(g, base, quote, marks, z)}
<1>1. 0 \in N
  <2> DEFINE g == [i \in 0 .. 0 |-> base]
  <2>1. \A i \in 0 .. 0 : i = 0
    OBVIOUS
  <2>2. g = [i \in 0 .. 0 |-> IF i = 0 THEN base ELSE MatchOne(g[i - 1], i, quote, marks)]
    BY <2>1
  <2> HIDE DEF g
  <2>3. Matches(g, base, quote, marks, 0)
    BY <2>2 DEF Matches
  <2> QED
    BY <2>3
<1>2. ASSUME NEW z \in Nat, z \in N PROVE z + 1 \in N
  <2>1. PICK g : Matches(g, base, quote, marks, z)
    BY <1>2
  <2> DEFINE h == [i \in 0 .. (z + 1) |-> IF i = 0 THEN base ELSE MatchOne(g[i - 1], i, quote, marks)]
             k == [i \in 0 .. (z + 1) |-> IF i = 0 THEN base ELSE MatchOne(h[i - 1], i, quote, marks)]
  <2>2. \A i \in 0 .. z : h[i] = g[i]
    BY <2>1 DEF Matches
  <2>3. \A i \in 0 .. (z + 1) : i # 0 => i - 1 \in 0 .. z
    OBVIOUS
  <2>4. \A i \in 0 .. (z + 1) : h[i] = k[i]
    BY <2>2, <2>3
  <2>5. h = k
    BY <2>4
  <2>6. Matches(h, base, quote, marks, z + 1)
    BY <2>5 DEF Matches
  <2> QED
    BY <2>6
<1> HIDE DEF N
<1>3. Nat \subseteq N
  BY <1>1, <1>2, SetInduction
<1> QED
  BY <1>3 DEF N

(* What the loop has done to the account a: the account b.                 *)
FillsNamed(a, b) ==
    \A i \in 1 .. Len(b.fills) :
        \/ i \in 1 .. Len(a.fills) /\ b.fills[i] = a.fills[i]
        \/ \E j \in 1 .. Len(a.orders) : a.orders[j].id = b.fills[i].id /\ a.orders[j].at < b.fills[i].at

CoveredBy(a, b, marks) ==
    /\ Equity(a.cash, a.pos, marks) \in Int /\ Equity(b.cash, b.pos, marks) \in Int
    /\ Equity(b.cash, b.pos, marks) <= Equity(a.cash, a.pos, marks)
    /\ b.fills # a.fills => 100 * Gross(b.pos, marks) <= Leverage * Equity(a.cash, a.pos, marks)

Loop(a, b, marks) ==
    /\ AccountOK(a) /\ AccountOK(b) /\ SameOrders(a, b)
    /\ FillsNamed(a, b)
    /\ Balanced(a) => Balanced(b)
    /\ CoveredBy(a, b, marks)

(* One turn of the loop.                                                   *)
LEMMA LoopTurns ==
    ASSUME NEW a, NEW b, NEW quote, QuoteOK(quote), NEW marks, MarksOK(marks),
           quote.symbol \in Quoted(marks), marks[quote.symbol] = quote,
           Loop(a, b, marks), NEW i \in 1 .. Len(a.orders)
    PROVE  Loop(a, MatchOne(b, i, quote, marks), marks)
<1> DEFINE c == MatchOne(b, i, quote, marks)
<1>1. AccountOK(a) /\ AccountOK(b) /\ SameOrders(a, b) /\ Len(b.orders) = Len(a.orders)
  BY DEF Loop, SameOrders
<1>2. CASE ~Eligible(b.orders[i], quote)
  BY <1>2 DEF MatchOne
<1>3. CASE Eligible(b.orders[i], quote)
  <2>0. c = TryFill(b, i, quote, marks)
    BY <1>3 DEF MatchOne
  <2>1. /\ AccountOK(c) /\ SameOrders(b, c)
        /\ \/ SameMoney(b, c)
           \/ \E x \in PaperFills :
                 /\ Filled(b, c, x, b.orders[i], quote)
                 /\ ExposureAllowed(b, x.symbol, Signed(x.side, x.lots), marks)
    BY <1>1, <1>3, <2>0, TryFillStep
  <2> HIDE DEF c
  <2>2. SameOrders(a, c)
    BY <1>1, <2>1 DEF SameOrders
  <2>3. CASE SameMoney(b, c)
    <3>1. FillsNamed(a, c)
      BY <2>3 DEF Loop, FillsNamed, SameMoney
    <3>2. Balanced(a) => Balanced(c)
      BY <2>3 DEF Loop, Balanced, SameMoney
    <3>3. CoveredBy(a, c, marks)
      BY <2>3 DEF Loop, CoveredBy, SameMoney
    <3> QED
      BY <1>1, <2>1, <2>2, <3>1, <3>2, <3>3 DEF Loop, c
  <2>4. ASSUME NEW x \in PaperFills, Filled(b, c, x, b.orders[i], quote),
               ExposureAllowed(b, x.symbol, Signed(x.side, x.lots), marks)
        PROVE  Loop(a, c, marks)
    <3>1. c.fills = Append(b.fills, x) /\ x.id = b.orders[i].id /\ b.orders[i].at < x.at
      BY <2>4 DEF Filled
    <3>2. b.fills \in Seq(PaperFills) /\ a.fills \in Seq(PaperFills)
      BY <1>1 DEF AccountOK, Accounts
    <3>3. FillsNamed(a, c)
      <4> SUFFICES ASSUME NEW k \in 1 .. Len(c.fills)
                   PROVE  \/ k \in 1 .. Len(a.fills) /\ c.fills[k] = a.fills[k]
                          \/ \E j \in 1 .. Len(a.orders) :
                                a.orders[j].id = c.fills[k].id /\ a.orders[j].at < c.fills[k].at
        BY DEF FillsNamed
      <4>1. CASE k \in 1 .. Len(b.fills)
        <5>1. c.fills[k] = b.fills[k]
          BY <3>1, <3>2, <4>1
        <5> QED
          BY <4>1, <5>1 DEF Loop, FillsNamed
      <4>2. CASE k \notin 1 .. Len(b.fills)
        <5>1. c.fills[k] = x
          BY <3>1, <3>2, <4>2
        <5>2. a.orders[i].id = x.id /\ a.orders[i].at < x.at
          BY <1>1, <3>1 DEF SameOrders
        <5> QED
          BY <5>1, <5>2
      <4> QED
        BY <4>1, <4>2
    <3>4. Balanced(a) => Balanced(c)
      BY <1>1, <2>4, FillBalances DEF Loop
    <3>5. CoveredBy(a, c, marks)
      <4>1. /\ Equity(b.cash, b.pos, marks) \in Int /\ Equity(c.cash, c.pos, marks) \in Int
            /\ Equity(c.cash, c.pos, marks) <= Equity(b.cash, b.pos, marks)
        BY <1>1, <2>4, EquityFalls
      <4>2. Gross(Candidate(b.pos, x.symbol, Signed(x.side, x.lots)), marks) = Gross(c.pos, marks)
        BY <1>1, <2>4, CandidateIsBook
      <4>3. 100 * Gross(c.pos, marks) <= Leverage * Equity(b.cash, b.pos, marks)
        BY <2>4, <4>2 DEF ExposureAllowed
      <4>4. Equity(a.cash, a.pos, marks) \in Int
            /\ Equity(b.cash, b.pos, marks) <= Equity(a.cash, a.pos, marks)
        BY DEF Loop, CoveredBy
      <4>5. Gross(c.pos, marks) \in Int
        <5>1. c.pos \in [Symbols -> Positions]
          BY <2>1 DEF AccountOK, Accounts
        <5> DEFINE S == Quoted(marks)
                   f == [s \in S |-> Abs(Unit * Mid(marks[s]) * c.pos[s].lots)]
        <5>2. ASSUME NEW s \in S PROVE Abs(Unit * Mid(marks[s]) * c.pos[s].lots) \in Int
          <6>1. QuoteOK(marks[s]) /\ s \in Symbols
            BY DEF MarksOK, Quoted
          <6>2. Mid(marks[s]) \in Nat
            BY <6>1, MidOf
          <6>3. c.pos[s].lots \in Int
            BY <5>1, <6>1 DEF Positions
          <6>4. Unit * Mid(marks[s]) * c.pos[s].lots \in Int
            BY <6>2, <6>3, CostAssumption
          <6> QED
            BY <6>4 DEF Abs
        <5>3. IsFiniteSet(S) /\ quote.symbol \in S
          BY SymbolsAssumption, FS_Subset DEF Quoted
        <5>4. f \in [S -> Int]
          BY <5>2
        <5> HIDE DEF f, S
        <5>5. Total(f) \in Int
          BY <5>3, <5>4, TotalChanges
        <5> QED
          BY <5>5 DEF Gross, f, S
      <4>6. 100 * Gross(c.pos, marks) <= Leverage * Equity(a.cash, a.pos, marks)
        <5>1. PICK eb \in Int : eb = Equity(b.cash, b.pos, marks)
          BY <4>1
        <5>2. PICK ea \in Int : ea = Equity(a.cash, a.pos, marks)
          BY <4>4
        <5>3. PICK gr \in Int : gr = Gross(c.pos, marks)
          BY <4>5
        <5>4. eb <= ea /\ 100 * gr <= Leverage * eb
          BY <4>3, <4>4, <5>1, <5>2, <5>3
        <5>5. Leverage * eb <= Leverage * ea /\ Leverage * eb \in Int /\ Leverage * ea \in Int
          <6>1. Leverage \in Nat
            BY CostAssumption
          <6>2. PICK e \in Nat : ea = eb + e
            <7>1. ea - eb \in Nat /\ ea = eb + (ea - eb)
              BY <5>4
            <7> QED
              BY <7>1
          <6>3. Leverage * ea = Leverage * eb + Leverage * e /\ Leverage * e \in Nat
            BY <6>1, <6>2
          <6> QED
            BY <6>1, <6>3
        <5> QED
          BY <5>2, <5>3, <5>4, <5>5
      <4> QED
        BY <4>1, <4>4, <4>6 DEF CoveredBy
    <3> QED
      BY <1>1, <2>1, <2>2, <3>3, <3>4, <3>5 DEF Loop
  <2> QED
    BY <2>1, <2>3, <2>4 DEF c
<1> QED
  BY <1>2, <1>3

Account == [orders |-> orders, fills |-> fills, pos |-> pos, cash |-> cash]

(* The loop starts from the account itself.                                *)
LEMMA LoopStarts ==
    ASSUME NEW a, AccountOK(a), NEW marks, MarksOK(marks)
    PROVE  Loop(a, a, marks)
<1>1. a.pos \in [Symbols -> Positions] /\ a.cash \in Int
  BY DEF AccountOK, Accounts
<1> DEFINE S == Quoted(marks)
           f == Worths(a.pos, marks)
<1>2. f \in [S -> Int] /\ IsFiniteSet(S)
  BY <1>1, WorthTerms
<1> HIDE DEF f, S
<1>3. Total(f) \in Int
  <2>1. Total(f) = Sum(f, S)
    BY <1>2, TotalIsSum
  <2>2. \A x \in S : f[x] \in Int
    BY <1>2
  <2>3. Sum(f, S) \in Int
    BY <1>2, <2>2, SumType
  <2> QED
    BY <2>1, <2>3
<1>4. Equity(a.cash, a.pos, marks) = a.cash + Total(f)
  BY DEF Equity, f, S, Worths
<1>5. CoveredBy(a, a, marks)
  BY <1>1, <1>3, <1>4 DEF CoveredBy
<1>6. SameOrders(a, a) /\ FillsNamed(a, a)
  BY DEF SameOrders, FillsNamed
<1> QED
  BY <1>5, <1>6 DEF Loop

(* What a quote does to the account (on_quote).                            *)
LEMMA MatchAllLoops ==
    ASSUME AccountOK(Account), NEW quote, QuoteOK(quote), NEW marks, MarksOK(marks),
           quote.symbol \in Quoted(marks), marks[quote.symbol] = quote
    PROVE  Loop(Account, MatchAll(quote, marks), marks)
<1> DEFINE z == Len(orders)
           base == Account
           f == CHOOSE g : Matches(g, base, quote, marks, z)
<1>1. z \in Nat /\ z = Len(base.orders)
  <2>1. base.orders = orders /\ base.orders \in Seq(PaperOrders)
    BY DEF AccountOK, Accounts, Account
  <2> QED
    BY <2>1
<1>2. Matches(f, base, quote, marks, z)
  BY <1>1, MatchesExist
<1>3. MatchAll(quote, marks) = f[z]
  BY DEF MatchAll, Matches, Account
<1> HIDE DEF z, base, f
<1> DEFINE N == {i \in Nat : i <= z => Loop(base, f[i], marks)}
<1>4. 0 \in N
  <2>1. f[0] = base
    BY <1>1, <1>2 DEF Matches
  <2>2. Loop(base, base, marks)
    BY LoopStarts DEF base
  <2> QED
    BY <2>1, <2>2
<1>5. ASSUME NEW i \in Nat, i \in N PROVE i + 1 \in N
  <2> SUFFICES ASSUME i + 1 <= z PROVE Loop(base, f[i + 1], marks)
    OBVIOUS
  <2>1. i + 1 \in 0 .. z /\ i + 1 # 0 /\ (i + 1) - 1 = i /\ i <= z /\ i + 1 \in 1 .. z
    BY <1>1
  <2>2. f[i + 1] = MatchOne(f[i], i + 1, quote, marks)
    BY <1>2, <2>1 DEF Matches
  <2>3. Loop(base, f[i], marks)
    BY <1>5, <2>1
  <2>4. i + 1 \in 1 .. Len(base.orders)
    BY <1>1, <2>1
  <2>5. Loop(base, MatchOne(f[i], i + 1, quote, marks), marks)
    BY <2>3, <2>4, LoopTurns
  <2> QED
    BY <2>2, <2>5
<1> HIDE DEF N
<1>6. Nat \subseteq N
  BY <1>4, <1>5, SetInduction
<1>7. Loop(base, f[z], marks)
  BY <1>1, <1>6 DEF N
<1> QED
  BY <1>3, <1>7 DEF base

-----------------------------------------------------------------------------
(* The broker.                                                             *)

Consecutive(s) ==
    /\ taken[s] = <<>> <=> last[s] = NoSequence
    /\ taken[s] # <<>> => last[s] = taken[s][Len(taken[s])]
    /\ \A i \in 1 .. (Len(taken[s]) - 1) : taken[s][i + 1] = taken[s][i] + 1

FillsDecided ==
    \A i \in 1 .. Len(fills) : \E j \in 1 .. Len(orders) :
        orders[j].id = fills[i].id /\ orders[j].at < fills[i].at

PaperInv ==
    /\ feed \in Feeds
    /\ driver.at = "signal" => driver.quote.at \in Int
    /\ DOMAIN driver = {"at", "quote"}
    /\ driver.at = "new" => orders = <<>>
    /\ AccountOK(Account)
    /\ DOMAIN latest = Symbols /\ MarksOK(latest)
    /\ last \in [Symbols -> Nat] /\ taken \in [Symbols -> Seq(Nat)]
    /\ \A s \in Symbols : Consecutive(s)
    /\ FillsDecided
    /\ Balanced(Account)

LEMMA PaperStarts == PaperInit => PaperInv
<1> SUFFICES ASSUME PaperInit PROVE PaperInv
  OBVIOUS
<1>1. feed \in Feeds /\ driver = [at |-> "new", quote |-> NoQuote]
  BY DEF PaperInit
<1>2. Flat \in Positions /\ PositionOK(Flat) /\ Entries(Flat) = 0 /\ Flat.funding = 0
  BY DEF Flat, Positions, PositionOK, Entries, Direction
<1>3. orders = <<>> /\ fills = <<>> /\ pos \in [Symbols -> Positions] /\ \A s \in Symbols : pos[s] = Flat
  BY <1>2 DEF PaperInit
<1>4. cash = Unit * Cash /\ cash \in Int
  BY CostAssumption DEF PaperInit
<1>5. Account \in Accounts
  BY <1>3, <1>4 DEF Account, Accounts
<1>6. AccountOK(Account)
  <2>1. Len(Account.orders) = 0 /\ Account.pos = pos
    BY <1>3 DEF Account
  <2> QED
    BY <1>2, <1>3, <1>5, <2>1 DEF AccountOK
<1>7. DOMAIN latest = Symbols /\ MarksOK(latest)
  BY DEF PaperInit, MarksOK, Quoted
<1>8. last \in [Symbols -> Nat] /\ taken \in [Symbols -> Seq(Nat)] /\ \A s \in Symbols : Consecutive(s)
  BY DEF PaperInit, Consecutive, NoSequence
<1>9. FillsDecided
  BY <1>3 DEF FillsDecided
<1>10. Balanced(Account)
  <2> DEFINE e == EntriesOf(pos)
             u == FundingOf(pos)
             w == PaidOf(fills)
  <2>1. \A s \in Symbols : e[s] = 0 /\ u[s] = 0
    BY <1>2, <1>3 DEF EntriesOf, FundingOf
  <2>2. DOMAIN e = Symbols /\ DOMAIN u = Symbols /\ DOMAIN w = {}
    BY <1>3 DEF EntriesOf, FundingOf, PaidOf
  <2> HIDE DEF e, u, w
  <2>3. IsFiniteSet(Symbols) /\ IsFiniteSet({})
    BY SymbolsAssumption, FS_EmptySet
  <2>4. Total(e) = Sum(e, Symbols) /\ Total(u) = Sum(u, Symbols) /\ Total(w) = Sum(w, {})
    BY <2>2, TotalIsSum
  <2>5. Sum(e, Symbols) = 0 /\ Sum(u, Symbols) = 0 /\ Sum(w, {}) = 0
    BY <2>1, <2>3, SumOfZeros
  <2>6. cash - 0 = Unit * Cash - 0 + 0
    BY <1>4
  <2> QED
    BY <2>4, <2>5, <2>6 DEF Balanced, Account, e, u, w
<1> QED
  BY <1>1, <1>3, <1>6, <1>7, <1>8, <1>9, <1>10 DEF PaperInv

(* Steps that leave the money alone and keep the orders.                   *)
LEMMA OrdersKept ==
    ASSUME PaperInv, orders' \in Seq(PaperOrders), UNCHANGED <<fills, pos, cash>>,
           \A i \in 1 .. Len(orders') : orders'[i].filled <= orders'[i].lots,
           \A j \in 1 .. Len(orders) :
              j \in 1 .. Len(orders') /\ orders'[j].id = orders[j].id /\ orders'[j].at = orders[j].at
    PROVE  AccountOK(Account)' /\ Balanced(Account)' /\ FillsDecided'
<1>1. AccountOK(Account) /\ Balanced(Account) /\ FillsDecided
  BY DEF PaperInv
<1>2. Account \in Accounts /\ \A s \in Symbols : PositionOK(pos[s])
  BY <1>1 DEF AccountOK, Account
<1>3. fills \in Seq(PaperFills) /\ pos \in [Symbols -> Positions] /\ cash \in Int
  BY <1>2 DEF Account, Accounts
<1>4. Account' \in Accounts /\ Account'.orders = orders' /\ Account'.pos = pos
  BY <1>3 DEF Account, Accounts
<1>5. AccountOK(Account)'
  BY <1>2, <1>4 DEF AccountOK
<1>6. Balanced(Account)'
  <2>1. Account'.cash = Account.cash /\ Account'.pos = Account.pos /\ Account'.fills = Account.fills
    BY DEF Account
  <2> QED
    BY <1>1, <2>1 DEF Balanced
<1>7. FillsDecided'
  BY <1>1 DEF FillsDecided
<1> QED
  BY <1>5, <1>6, <1>7

(* Steps that leave the market data alone.                                 *)
LEMMA DataKept ==
    ASSUME PaperInv, UNCHANGED <<latest, last, taken>>
    PROVE  /\ DOMAIN latest' = Symbols /\ MarksOK(latest)'
           /\ last' \in [Symbols -> Nat] /\ taken' \in [Symbols -> Seq(Nat)]
           /\ (\A s \in Symbols : Consecutive(s))'
  BY DEF PaperInv, Consecutive, MarksOK, Quoted

(* submit.                                                                 *)
LEMMA SubmitKeeps ==
    ASSUME PaperInv, NEW r \in Requests, NEW t \in Int, orders' = Append(orders, Submitted(r, t)),
           UNCHANGED <<fills, pos, cash>>
    PROVE  AccountOK(Account)' /\ Balanced(Account)' /\ FillsDecided'
<1>1. PICK os \in Seq(PaperOrders) : os = orders /\ \A j \in 1 .. Len(os) : os[j].filled <= os[j].lots
  BY DEF PaperInv, AccountOK, Account, Accounts
<1>2. PICK o \in PaperOrders : o = Submitted(r, t) /\ o.filled <= o.lots
  <2>1. r.symbol \in Symbols /\ r.side \in Sides /\ r.lots \in Nat /\ r.limit \in Nat
    BY RequestsAssumption DEF Sides
  <2>2. r.id \in PaperIds
    BY DEF PaperIds
  <2>3. Submitted(r, t) \in PaperOrders
    BY <2>1, <2>2 DEF Submitted, PaperOrders, PaperStatuses
  <2>4. Submitted(r, t).filled = 0 /\ Submitted(r, t).lots = r.lots
    BY DEF Submitted
  <2> QED
    BY <2>1, <2>3, <2>4
<1>3. orders' = Append(os, o)
  BY <1>1, <1>2
<1>4. /\ orders' \in Seq(PaperOrders) /\ Len(orders') = Len(os) + 1 /\ orders'[Len(os) + 1] = o
      /\ \A j \in 1 .. Len(os) : orders'[j] = os[j]
  BY <1>3
<1>5. \A i \in 1 .. Len(orders') : orders'[i].filled <= orders'[i].lots
  BY <1>1, <1>2, <1>4
<1>6. \A j \in 1 .. Len(orders) :
              j \in 1 .. Len(orders') /\ orders'[j].id = orders[j].id /\ orders'[j].at = orders[j].at
  BY <1>1, <1>4
<1> QED
  BY <1>4, <1>5, <1>6, OrdersKept

(* cancel of an order.                                                     *)
LEMMA CanceledOrder ==
    ASSUME NEW o \in PaperOrders
    PROVE  /\ Canceled(o) \in PaperOrders /\ Canceled(o).filled = o.filled /\ Canceled(o).lots = o.lots
           /\ Canceled(o).id = o.id /\ Canceled(o).at = o.at
<1> DEFINE c == [o EXCEPT !.status = "canceled"]
<1>1. c.filled = o.filled /\ c.lots = o.lots /\ c.id = o.id /\ c.at = o.at
  BY DEF PaperOrders
<1>2. c \in PaperOrders
  BY DEF PaperOrders, PaperStatuses
<1> QED
  BY <1>1, <1>2 DEF Canceled

(* Canceling one order or all.                                             *)
LEMMA CancelKeeps ==
    ASSUME PaperInv, NEW T \in SUBSET (1 .. Len(orders)),
           orders' = [i \in 1 .. Len(orders) |-> IF i \in T THEN Canceled(orders[i]) ELSE orders[i]],
           UNCHANGED <<fills, pos, cash>>
    PROVE  AccountOK(Account)' /\ Balanced(Account)' /\ FillsDecided'
<1>1. PICK os \in Seq(PaperOrders) : os = orders /\ \A j \in 1 .. Len(os) : os[j].filled <= os[j].lots
  BY DEF PaperInv, AccountOK, Account, Accounts
<1>2. \A i \in 1 .. Len(os) : os[i] \in PaperOrders
  OBVIOUS
<1>3. Len(os) \in Nat /\ orders' = [i \in 1 .. Len(os) |-> IF i \in T THEN Canceled(os[i]) ELSE os[i]]
  BY <1>1
<1>4. /\ orders' \in Seq(PaperOrders) /\ Len(orders') = Len(os)
      /\ \A i \in 1 .. Len(os) : orders'[i] = IF i \in T THEN Canceled(os[i]) ELSE os[i]
  <2>1. orders' \in [1 .. Len(os) -> PaperOrders]
    BY <1>2, <1>3, CanceledOrder
  <2> QED
    BY <1>3, <2>1
<1>5. \A i \in 1 .. Len(os) : /\ orders'[i].filled = os[i].filled /\ orders'[i].lots = os[i].lots
                              /\ orders'[i].id = os[i].id /\ orders'[i].at = os[i].at
  BY <1>2, <1>4, CanceledOrder
<1> QED
  BY <1>1, <1>4, <1>5, OrdersKept

(* The quotes of a feed.                                                   *)
LEMMA FeedQuotes ==
    ASSUME PaperInv, NEW n \in 1 .. Len(feed)
    PROVE  QuoteOK(feed[n]) /\ feed[n] # NoQuote
<1>1. feed \in Feeds
  BY DEF PaperInv
<1>2. QuoteOK(feed[n])
  BY <1>1, FeedsAssumption DEF QuoteOK
<1>3. feed[n].symbol # NoQuote.symbol
  BY <1>2, SymbolsAssumption DEF QuoteOK
<1> QED
  BY <1>2, <1>3

(* The marks with which a quote is matched.                                *)
LEMMA MarksTaken ==
    ASSUME PaperInv, NEW quote, QuoteOK(quote), quote # NoQuote,
           NEW marks, marks = [latest EXCEPT ![quote.symbol] = quote]
    PROVE  /\ DOMAIN marks = Symbols /\ MarksOK(marks)
           /\ quote.symbol \in Quoted(marks) /\ marks[quote.symbol] = quote
<1>1. quote.symbol \in Symbols /\ DOMAIN latest = Symbols /\ MarksOK(latest)
  BY DEF PaperInv, QuoteOK
<1>2. DOMAIN marks = Symbols /\ marks[quote.symbol] = quote /\ \A s \in Symbols : s # quote.symbol => marks[s] = latest[s]
  BY <1>1
<1>3. quote.symbol \in Quoted(marks)
  BY <1>1, <1>2 DEF Quoted
<1>4. MarksOK(marks)
  BY <1>1, <1>2 DEF MarksOK, Quoted
<1> QED
  BY <1>2, <1>3, <1>4

(* The sequence numbers stay consecutive when a quote is taken.            *)
LEMMA TakenConsecutive ==
    ASSUME PaperInv, NEW quote, QuoteOK(quote), ~Old(quote), ~Gap(quote), TakeQuote(quote)
    PROVE  /\ last' \in [Symbols -> Nat] /\ taken' \in [Symbols -> Seq(Nat)]
           /\ (\A s \in Symbols : Consecutive(s))'
<1>0. last \in [Symbols -> Nat] /\ taken \in [Symbols -> Seq(Nat)] /\ \A s \in Symbols : Consecutive(s)
  BY DEF PaperInv
<1>1. CASE quote.seq = NoSequence
  <2>1. last' = last /\ taken' = taken
    BY <1>1 DEF TakeQuote
  <2> QED
    BY <1>0, <2>1 DEF Consecutive
<1>2. CASE quote.seq # NoSequence
  <2> DEFINE k == quote.symbol
  <2>1. k \in Symbols /\ quote.seq \in Nat
    BY DEF QuoteOK
  <2>2. last' = [last EXCEPT ![k] = quote.seq] /\ taken' = [taken EXCEPT ![k] = Append(@, quote.seq)]
    BY <1>2 DEF TakeQuote
  <2>3. PICK ts \in Seq(Nat) : ts = taken[k]
    BY <1>0, <2>1
  <2>4. PICK n \in Nat : n = quote.seq /\ n # 0
    BY <1>2, <2>1 DEF NoSequence
  <2>5. taken'[k] = Append(ts, n) /\ last'[k] = n /\ \A s \in Symbols : s # k => taken'[s] = taken[s] /\ last'[s] = last[s]
    BY <1>0, <2>1, <2>2, <2>3, <2>4
  <2>6. last' \in [Symbols -> Nat] /\ taken' \in [Symbols -> Seq(Nat)]
    BY <1>0, <2>1, <2>2, <2>3, <2>4
  <2>7. PICK l \in Nat : l = last[k] /\ l < n /\ (l = 0 \/ n <= l + 1)
    <3>1. last[k] \in Nat
      BY <1>0, <2>1
    <3> QED
      BY <1>2, <2>4, <3>1 DEF Old, Gap, NoSequence
  <2>8. (ts = <<>> <=> l = 0) /\ (ts # <<>> => l = ts[Len(ts)])
        /\ \A i \in 1 .. (Len(ts) - 1) : ts[i + 1] = ts[i] + 1
    BY <1>0, <2>1, <2>3, <2>7 DEF Consecutive, NoSequence
  <2>9. PICK us \in Seq(Nat) : us = Append(ts, n) /\ Len(us) = Len(ts) + 1 /\ us[Len(us)] = n
                               /\ us # <<>> /\ \A i \in 1 .. Len(ts) : us[i] = ts[i]
    <3> DEFINE us == Append(ts, n)
    <3>1. us \in Seq(Nat) /\ Len(us) = Len(ts) + 1 /\ Len(ts) \in Nat
      OBVIOUS
    <3>2. us[Len(ts) + 1] = n
      OBVIOUS
    <3>3. \A i \in 1 .. Len(ts) : us[i] = ts[i]
      OBVIOUS
    <3> HIDE DEF us
    <3>4. us # <<>>
      <4>1. Len(<<>>) = 0
        OBVIOUS
      <4> QED
        BY <3>1, <4>1
    <3> QED
      BY <3>1, <3>2, <3>3, <3>4 DEF us
  <2>10. ASSUME NEW i \in 1 .. (Len(us) - 1) PROVE us[i + 1] = us[i] + 1
    <3>0. i \in 1 .. Len(ts) /\ Len(ts) \in Nat
      BY <2>9
    <3>1. CASE i = Len(ts)
      <4>1. ts # <<>>
        <5>1. Len(<<>>) = 0 /\ Len(ts) >= 1
          BY <3>0
        <5> QED
          BY <5>1
      <4>2. l # 0 /\ l = ts[Len(ts)] /\ n = l + 1
        <5>1. l # 0 /\ l = ts[Len(ts)]
          BY <2>8, <4>1
        <5>2. n = l + 1
          BY <2>7, <5>1
        <5> QED
          BY <5>1, <5>2
      <4> QED
        BY <2>9, <3>0, <3>1, <4>2
    <3>2. CASE i # Len(ts)
      <4>1. i \in 1 .. (Len(ts) - 1) /\ i + 1 \in 1 .. Len(ts)
        BY <3>0, <3>2
      <4> QED
        BY <2>8, <2>9, <3>0, <4>1
    <3> QED
      BY <3>1, <3>2
  <2>11. Consecutive(k)'
    <3>1. taken'[k] = us /\ last'[k] = us[Len(us)] /\ last'[k] # 0
      BY <2>4, <2>5, <2>9
    <3> HIDE DEF k
    <3> QED
      BY <2>9, <2>10, <3>1 DEF Consecutive, NoSequence
  <2>12. ASSUME NEW s \in Symbols, s # k PROVE Consecutive(s)'
    BY <1>0, <2>5, <2>12 DEF Consecutive
  <2> QED
    BY <2>6, <2>11, <2>12
<1> QED
  BY <1>1, <1>2

(* A quote that is taken keeps the account right and covered.              *)
LEMMA TakeKeeps ==
    ASSUME PaperInv, NEW quote, QuoteOK(quote), quote # NoQuote, TakeQuote(quote)
    PROVE  /\ AccountOK(Account)' /\ Balanced(Account)' /\ FillsDecided'
           /\ DOMAIN latest' = Symbols /\ MarksOK(latest)'
           /\ fills' # fills => 100 * Gross(pos', latest') <= Leverage * Equity(cash, pos, latest')
<1> DEFINE marks == [latest EXCEPT ![quote.symbol] = quote]
           a == MatchAll(quote, marks)
<1>1. latest' = marks
  BY DEF TakeQuote
<1>2. /\ DOMAIN marks = Symbols /\ MarksOK(marks)
      /\ quote.symbol \in Quoted(marks) /\ marks[quote.symbol] = quote
  BY MarksTaken
<1>3. AccountOK(Account)
  BY DEF PaperInv
<1>4. Loop(Account, a, marks)
  <2> HIDE DEF marks
  <2> QED
    BY <1>2, <1>3, MatchAllLoops
<1>5. UNCHANGED <<orders, fills, pos, cash>>
      \/ (orders' = a.orders /\ fills' = a.fills /\ pos' = a.pos /\ cash' = a.cash)
  BY DEF TakeQuote, account
<1> HIDE DEF a, marks
<1>6. DOMAIN latest' = Symbols /\ MarksOK(latest)'
  BY <1>1, <1>2 DEF MarksOK, Quoted
<1>7. CASE UNCHANGED <<orders, fills, pos, cash>>
  <2>1. Account' = Account
    BY <1>7 DEF Account
  <2>2. AccountOK(Account)' /\ Balanced(Account)' /\ FillsDecided'
    BY <1>7, <2>1 DEF PaperInv, FillsDecided, AccountOK, Balanced
  <2> QED
    BY <1>6, <1>7, <2>2
<1>8. CASE orders' = a.orders /\ fills' = a.fills /\ pos' = a.pos /\ cash' = a.cash
  <2>1. AccountOK(a) /\ SameOrders(Account, a) /\ FillsNamed(Account, a) /\ Balanced(a) /\ CoveredBy(Account, a, marks)
    BY <1>4 DEF Loop, PaperInv
  <2>2. a \in Accounts
    BY <2>1 DEF AccountOK
  <2>3. Account' = a
    BY <1>8, <2>2 DEF Account, Accounts
  <2>4. AccountOK(Account)' /\ Balanced(Account)'
    BY <2>1, <2>3 DEF AccountOK, Balanced
  <2>5. /\ Len(orders') = Len(orders)
        /\ \A j \in 1 .. Len(orders) : orders'[j].id = orders[j].id /\ orders'[j].at = orders[j].at
    BY <1>8, <2>1 DEF SameOrders, Account
  <2>6. \A i \in 1 .. Len(fills') :
            \/ i \in 1 .. Len(fills) /\ fills'[i] = fills[i]
            \/ \E j \in 1 .. Len(orders) : orders[j].id = fills'[i].id /\ orders[j].at < fills'[i].at
    BY <1>8, <2>1 DEF FillsNamed, Account
  <2>7. FillsDecided'
    <3> SUFFICES ASSUME NEW i \in 1 .. Len(fills')
                 PROVE  \E j \in 1 .. Len(orders') : orders'[j].id = fills'[i].id /\ orders'[j].at < fills'[i].at
      BY DEF FillsDecided
    <3>1. \E j \in 1 .. Len(orders) : orders[j].id = fills'[i].id /\ orders[j].at < fills'[i].at
      BY <2>6 DEF PaperInv, FillsDecided
    <3> QED
      BY <2>5, <3>1
  <2>8. fills' # fills => 100 * Gross(pos', latest') <= Leverage * Equity(cash, pos, latest')
    BY <1>1, <1>8, <2>1 DEF CoveredBy, Account
  <2> QED
    BY <1>6, <2>4, <2>7, <2>8
<1> QED
  BY <1>5, <1>7, <1>8

(* Funding moves cash and the funding of a position alike.                 *)
LEMMA FundingKeeps ==
    ASSUME PaperInv, NEW k \in Symbols, ApplyFunding(k)
    PROVE  AccountOK(Account)' /\ Balanced(Account)' /\ FillsDecided'
<1>1. PICK rate \in Rates :
        LET payment == -((Unit * Mid(latest[k]) * pos[k].lots * rate) \div 100) IN
          /\ pos' = [pos EXCEPT ![k].funding = @ + payment]
          /\ cash' = cash + payment
  BY DEF ApplyFunding
<1>2. latest[k] # NoQuote /\ orders' = orders /\ fills' = fills
  BY DEF ApplyFunding
<1>3. Account \in Accounts /\ AccountOK(Account) /\ Balanced(Account) /\ FillsDecided
  BY DEF PaperInv, AccountOK
<1>4. /\ orders \in Seq(PaperOrders) /\ fills \in Seq(PaperFills)
      /\ pos \in [Symbols -> Positions] /\ cash \in Int
  BY <1>3 DEF Account, Accounts
<1>5. PICK y \in Int : y = -((Unit * Mid(latest[k]) * pos[k].lots * rate) \div 100)
  <2>1. QuoteOK(latest[k])
    BY <1>2 DEF PaperInv, MarksOK, Quoted
  <2>2. Mid(latest[k]) \in Nat
    BY <2>1, MidOf
  <2>3. pos[k].lots \in Int
    BY <1>4 DEF Positions
  <2>4. rate \in Int
    BY CostAssumption
  <2>5. Unit * Mid(latest[k]) * pos[k].lots * rate \in Int
    BY <2>2, <2>3, <2>4, CostAssumption
  <2> QED
    BY <2>5
<1>6. pos' = [pos EXCEPT ![k].funding = @ + y] /\ cash' = cash + y
  BY <1>1, <1>5
<1>7. PICK p \in Positions : p = pos[k]
  BY <1>4
<1> DEFINE q == [p EXCEPT !.funding = p.funding + y]
<1>8. q \in Positions /\ q.lots = p.lots /\ q.basis = p.basis /\ q.funding = p.funding + y /\ p.funding \in Int
  BY DEF Positions
<1>9. pos' = [pos EXCEPT ![k] = q]
  BY <1>4, <1>6, <1>7
<1> HIDE DEF q
<1>10. pos' \in [Symbols -> Positions] /\ \A s \in Symbols : pos'[s] = IF s = k THEN q ELSE pos[s]
  BY <1>4, <1>8, <1>9
<1>11. Account' \in Accounts /\ Account'.orders = Account.orders /\ Account'.pos = pos' /\ Account.pos = pos
       /\ Account'.fills = Account.fills /\ Account'.cash = cash + y /\ Account.cash = cash
  BY <1>2, <1>4, <1>6, <1>10 DEF Account, Accounts
<1>12. \A s \in Symbols : PositionOK(pos'[s])
  <2>1. \A s \in Symbols : PositionOK(pos[s])
    BY <1>3, <1>11 DEF AccountOK
  <2>2. PositionOK(q)
    BY <1>7, <1>8, <2>1 DEF PositionOK, Positions
  <2> QED
    BY <1>10, <2>1, <2>2
<1>13. AccountOK(Account)'
  BY <1>3, <1>11, <1>12 DEF AccountOK
<1>14. Balanced(Account)'
  <2> DEFINE e1 == EntriesOf(pos)
             e2 == EntriesOf(pos')
             u1 == FundingOf(pos)
             u2 == FundingOf(pos')
             w == Total(PaidOf(fills))
  <2>1. e2 = e1
    <3>1. Entries(q) = Entries(p)
      BY <1>8 DEF Entries
    <3> QED
      BY <1>7, <1>10, <3>1 DEF EntriesOf
  <2>2. e1 \in [Symbols -> Int] /\ u1 \in [Symbols -> Int] /\ u2 \in [Symbols -> Int]
    BY <1>4, <1>10, BookTerms
  <2>3. u2[k] = u1[k] + y /\ \A s \in Symbols : s # k => u2[s] = u1[s]
    BY <1>7, <1>8, <1>10 DEF FundingOf
  <2>4. cash - Total(e1) = Unit * Cash - w + Total(u1)
    BY <1>3 DEF Balanced, Account
  <2>5. w \in Int
    <3>1. \A x \in PaperFills : Total(PaidOf(fills)) \in Int
      BY <1>4, PaidGrows
    <3>2. CASE PaperFills # {}
      BY <3>1, <3>2
    <3>3. CASE PaperFills = {}
      <4>1. fills = <<>>
        BY <1>4, <3>3
      <4>2. DOMAIN PaidOf(fills) = {}
        BY <4>1 DEF PaidOf
      <4>3. Total(PaidOf(fills)) = Sum(PaidOf(fills), {})
        BY <4>2, TotalIsSum
      <4>4. IsFiniteSet({})
        BY FS_EmptySet
      <4>5. Sum(PaidOf(fills), {}) = 0
        BY <4>4, SumOfZeros
      <4> QED
        BY <4>3, <4>5
    <3> QED
      BY <3>2, <3>3
  <2> HIDE DEF e1, e2, u1, u2, w
  <2>6. Total(u1) \in Int /\ Total(u2) = Total(u1) + (u2[k] - u1[k])
    BY <2>2, <2>3, SymbolsAssumption, TotalChanges
  <2>7. Total(e1) \in Int
    BY <2>2, SymbolsAssumption, TotalChanges
  <2>8. u1[k] \in Int
    BY <2>2
  <2>9. Unit * Cash \in Int
    BY CostAssumption
  <2>10. PICK i1 \in Int : i1 = Total(u1)
    BY <2>6
  <2>11. PICK i2 \in Int : i2 = Total(e1)
    BY <2>7
  <2>12. PICK i3 \in Int : i3 = Unit * Cash
    BY <2>9
  <2>13. (cash + y) - i2 = i3 - w + (i1 + y)
    <3>1. PICK c \in Int : c = cash
      BY <1>4
    <3>2. PICK v \in Int : v = w
      BY <2>5
    <3>3. c - i2 = i3 - v + i1
      BY <2>4, <2>10, <2>11, <2>12, <3>1, <3>2
    <3>4. (c + y) - i2 = i3 - v + (i1 + y)
      BY <3>3
    <3> QED
      BY <3>1, <3>2, <3>4
  <2>14. Total(u2) = i1 + y
    BY <2>3, <2>6, <2>8, <2>10
  <2>15. (cash + y) - Total(e2) = Unit * Cash - w + Total(u2)
    BY <2>1, <2>11, <2>12, <2>13, <2>14
  <2>16. Account'.fills = fills
    BY <1>2 DEF Account
  <2> QED
    BY <1>11, <2>15, <2>16 DEF Balanced, e2, u2, w
<1>15. FillsDecided'
  BY <1>2, <1>3 DEF FillsDecided
<1> QED
  BY <1>13, <1>14, <1>15

(* A quote, whichever way it goes.                                         *)
LEMMA QuoteKeeps ==
    ASSUME PaperInv, NEW n \in 1 .. Len(feed), OnQuote(feed[n])
    PROVE  /\ AccountOK(Account)' /\ Balanced(Account)' /\ FillsDecided'
           /\ DOMAIN latest' = Symbols /\ MarksOK(latest)'
           /\ last' \in [Symbols -> Nat] /\ taken' \in [Symbols -> Seq(Nat)]
           /\ (\A s \in Symbols : Consecutive(s))'
           /\ fills' # fills => 100 * Gross(pos', latest') <= Leverage * Equity(cash, pos, latest')
<1>1. QuoteOK(feed[n]) /\ feed[n] # NoQuote
  BY FeedQuotes
<1>2. CASE UNCHANGED <<orders, fills, pos, cash, latest, last, taken>>
  <2>1. AccountOK(Account)' /\ Balanced(Account)' /\ FillsDecided'
    <3>1. Account' = Account
      BY <1>2 DEF Account
    <3> QED
      BY <1>2, <3>1 DEF PaperInv, FillsDecided, AccountOK, Balanced
  <2> QED
    BY <1>2, <2>1, DataKept
<1>3. CASE ~Old(feed[n]) /\ ~Gap(feed[n]) /\ TakeQuote(feed[n])
  <2> DEFINE q == feed[n]
  <2>1. QuoteOK(q) /\ q # NoQuote /\ ~Old(q) /\ ~Gap(q) /\ TakeQuote(q)
    BY <1>1, <1>3
  <2> HIDE DEF q
  <2> QED
    BY <2>1, TakeKeeps, TakenConsecutive
<1> QED
  BY <1>2, <1>3 DEF OnQuote, account, data

(* One case per action.                                                    *)
LEMMA PaperStep ==
    PaperInv /\ [PaperNext]_paperVars =>
        /\ PaperInv'
        /\ fills' # fills => 100 * Gross(pos', latest') <= Leverage * Equity(cash, pos, latest')
<1> SUFFICES ASSUME PaperInv, [PaperNext]_paperVars
             PROVE  /\ PaperInv'
                    /\ fills' # fills =>
                          100 * Gross(pos', latest') <= Leverage * Equity(cash, pos, latest')
  OBVIOUS
<1> DEFINE Books == AccountOK(Account)' /\ Balanced(Account)' /\ FillsDecided'
           Market == /\ DOMAIN latest' = Symbols /\ MarksOK(latest)'
                     /\ last' \in [Symbols -> Nat] /\ taken' \in [Symbols -> Seq(Nat)]
                     /\ (\A s \in Symbols : Consecutive(s))'
           Driven == /\ feed' \in Feeds /\ DOMAIN driver' = {"at", "quote"}
                     /\ driver'.at = "signal" => driver'.quote.at \in Int
                     /\ driver'.at = "new" => orders' = <<>>
<1>0. Books /\ Market /\ Driven => PaperInv'
  BY DEF PaperInv
<1>1. UNCHANGED <<latest, last, taken>> => Market
  BY DataKept
<1>2. feed \in Feeds /\ DOMAIN driver = {"at", "quote"}
      /\ (driver.at = "signal" => driver.quote.at \in Int) /\ (driver.at = "new" => orders = <<>>)
  BY DEF PaperInv
<1>3. UNCHANGED <<orders, fills, pos, cash>> => Books
  <2> SUFFICES ASSUME UNCHANGED <<orders, fills, pos, cash>> PROVE Books
    OBVIOUS
  <2>1. Account' = Account
    BY DEF Account
  <2> QED
    BY <2>1 DEF PaperInv, FillsDecided, AccountOK, Balanced
<1>4. UNCHANGED <<feed, driver>> /\ driver.at # "new" => Driven
  BY <1>2
<1>5. UNCHANGED <<feed, driver, orders>> => Driven
  BY <1>2
<1>6. Call => UNCHANGED <<feed, driver>> /\ driver.at # "new"
  BY DEF Call
<1>10. CASE Start
  <2>1. UNCHANGED <<feed, fills, pos, cash, latest, last, taken>> /\ driver.at = "new"
    BY <1>10 DEF Start, data
  <2>2. driver' \in {[driver EXCEPT !.at = "feed"], [driver EXCEPT !.at = "replay"]}
    BY <1>10 DEF Start
  <2>3. DOMAIN driver' = {"at", "quote"} /\ driver'.at \in {"feed", "replay"}
    BY <1>2, <2>2
  <2>4. Driven
    BY <1>2, <2>1, <2>3
  <2>5. CASE orders' = orders
    BY <1>0, <1>1, <1>3, <2>1, <2>4, <2>5
  <2>6. ASSUME NEW r \in Requests, orders' = <<Submitted(r, feed[1].at)>> PROVE Books
    <3>1. Len(feed) \in Nat \ {0} /\ feed[1].at \in Int
      BY <1>2, FeedsAssumption
    <3>2. orders' = Append(orders, Submitted(r, feed[1].at))
      <4>1. orders = <<>>
        BY <1>2, <2>1
      <4> QED
        BY <2>6, <4>1
    <3> QED
      BY <2>1, <3>1, <3>2, SubmitKeeps
  <2>7. orders' = orders \/ \E r \in Requests : orders' = <<Submitted(r, feed[1].at)>>
    BY <1>10 DEF Start
  <2> QED
    BY <1>0, <1>1, <2>1, <2>4, <2>5, <2>6, <2>7
<1>11. CASE Deliver
  <2>1. PICK n \in 1 .. Len(feed) :
          /\ OnQuote(feed[n])
          /\ driver' \in
               IF driver.at = "replay" THEN {driver}
               ELSE (IF feed[n].good THEN {[at |-> "signal", quote |-> feed[n]]} ELSE {driver})
                    \cup (IF fills' # fills THEN {[driver EXCEPT !.at = "ended"]} ELSE {})
    BY <1>11 DEF Deliver
  <2>2. driver.at \in {"feed", "replay"} /\ feed' = feed
    BY <1>11 DEF Deliver
  <2>3. Books /\ Market
        /\ (fills' # fills => 100 * Gross(pos', latest') <= Leverage * Equity(cash, pos, latest'))
    BY <2>1, QuoteKeeps
  <2>4. feed[n].at \in Int
    BY <2>1, FeedQuotes DEF QuoteOK
  <2>5. driver' \in {driver, [at |-> "signal", quote |-> feed[n]], [driver EXCEPT !.at = "ended"]}
    BY <2>1
  <2>6. Driven
    <3>1. CASE driver' = driver
      BY <1>2, <2>2, <3>1
    <3>2. CASE driver' = [at |-> "signal", quote |-> feed[n]]
      BY <1>2, <2>2, <2>4, <3>2
    <3>3. CASE driver' = [driver EXCEPT !.at = "ended"]
      BY <1>2, <2>2, <3>3
    <3> QED
      BY <2>5, <3>1, <3>2, <3>3
  <2> QED
    BY <1>0, <2>3, <2>6
<1>12. CASE Signal
  <2>1. UNCHANGED <<feed, fills, pos, cash, latest, last, taken>> /\ driver.at = "signal"
    BY <1>12 DEF Signal, data
  <2>2. driver' \in {[at |-> "feed", quote |-> NoQuote], [at |-> "ended", quote |-> NoQuote]}
    BY <1>12 DEF Signal
  <2>3. Driven
    BY <1>2, <2>1, <2>2
  <2>4. orders' = orders \/ \E r \in Requests : orders' = Append(orders, Submitted(r, driver.quote.at))
    BY <1>12 DEF Signal
  <2>5. Books
    <3>1. driver.quote.at \in Int
      BY <1>2, <2>1
    <3> QED
      BY <1>3, <2>1, <2>4, <3>1, SubmitKeeps
  <2> QED
    BY <1>0, <1>1, <2>1, <2>3, <2>5
<1>13. CASE Cancel
  <2>1. UNCHANGED <<fills, pos, cash, latest, last, taken>> /\ Call
    BY <1>13 DEF Cancel, data
  <2>2. PICK i \in 1 .. Len(orders) : orders' = [orders EXCEPT ![i] = Canceled(@)]
    BY <1>13 DEF Cancel
  <2>3. orders' = [j \in 1 .. Len(orders) |-> IF j \in {i} THEN Canceled(orders[j]) ELSE orders[j]]
    <3>1. PICK os \in Seq(PaperOrders) : os = orders
      BY DEF PaperInv, AccountOK, Account, Accounts
    <3>2. DOMAIN os = 1 .. Len(os)
      OBVIOUS
    <3> QED
      BY <2>2, <3>1, <3>2
  <2>4. Books
    BY <2>1, <2>3, CancelKeeps
  <2> QED
    BY <1>0, <1>1, <1>4, <1>6, <2>1, <2>4
<1>14. CASE ActivateKillSwitch
  <2>1. UNCHANGED <<fills, pos, cash, latest, last, taken>> /\ Call
    BY <1>14 DEF ActivateKillSwitch, data
  <2> DEFINE T == 1 .. Len(orders)
  <2>2. orders' = [j \in 1 .. Len(orders) |-> IF j \in T THEN Canceled(orders[j]) ELSE orders[j]]
    BY <1>14 DEF ActivateKillSwitch
  <2>3. T \in SUBSET (1 .. Len(orders))
    OBVIOUS
  <2> HIDE DEF T
  <2>4. Books
    BY <2>1, <2>2, <2>3, CancelKeeps
  <2> QED
    BY <1>0, <1>1, <1>4, <1>6, <2>1, <2>4
<1>15. CASE Halt \/ Resume
  <2>1. UNCHANGED <<orders, fills, pos, cash, latest, last, taken>> /\ Call
    BY <1>15 DEF Halt, Resume, account, data
  <2> QED
    BY <1>0, <1>1, <1>3, <1>4, <1>6, <2>1
<1>16. ASSUME NEW k \in Symbols, ClearDataHalt(k) PROVE PaperInv' /\ fills' = fills
  <2>1. UNCHANGED <<orders, fills, pos, cash, latest>> /\ Call
    BY <1>16 DEF ClearDataHalt, account
  <2>2. last' = [last EXCEPT ![k] = NoSequence] /\ taken' = [taken EXCEPT ![k] = <<>>]
    BY <1>16 DEF ClearDataHalt
  <2>3. /\ DOMAIN latest = Symbols /\ MarksOK(latest)
        /\ last \in [Symbols -> Nat] /\ taken \in [Symbols -> Seq(Nat)]
        /\ \A s \in Symbols : Consecutive(s)
    BY DEF PaperInv
  <2>4. DOMAIN latest' = Symbols /\ MarksOK(latest)'
    BY <2>1, <2>3 DEF MarksOK, Quoted
  <2>5. last' \in [Symbols -> Nat] /\ taken' \in [Symbols -> Seq(Nat)]
    BY <2>2, <2>3 DEF NoSequence
  <2>6. ASSUME NEW s \in Symbols PROVE Consecutive(s)'
    <3>1. CASE s = k
      <4>1. last'[s] = NoSequence /\ taken'[s] = <<>>
        BY <2>2, <2>3, <3>1
      <4>2. Len(<<>>) = 0
        OBVIOUS
      <4> QED
        BY <4>1, <4>2 DEF Consecutive
    <3>2. CASE s # k
      <4>1. last'[s] = last[s] /\ taken'[s] = taken[s]
        BY <2>2, <2>3, <3>2
      <4> QED
        BY <2>3, <4>1 DEF Consecutive
    <3> QED
      BY <3>1, <3>2
  <2>7. Market
    BY <2>4, <2>5, <2>6
  <2> QED
    BY <1>0, <1>3, <1>4, <1>6, <2>1, <2>7
<1>17. ASSUME NEW k \in Symbols, ApplyFunding(k) PROVE PaperInv' /\ fills' = fills
  <2>1. UNCHANGED <<orders, fills, latest, last, taken>> /\ Call
    BY <1>17 DEF ApplyFunding, data
  <2>2. Books
    BY <1>17, FundingKeeps
  <2> QED
    BY <1>0, <1>1, <1>4, <1>6, <2>1, <2>2
<1>18. CASE UNCHANGED paperVars
  <2>1. UNCHANGED <<feed, driver, orders, fills, pos, cash, latest, last, taken>>
    BY <1>18 DEF paperVars, account, data
  <2> QED
    BY <1>0, <1>1, <1>3, <1>5, <2>1
<1> QED
  BY <1>10, <1>11, <1>12, <1>13, <1>14, <1>15, <1>16, <1>17, <1>18 DEF PaperNext

LEMMA PaperSafe == PaperSpec => []PaperInv
<1>1. PaperInit => PaperInv
  BY PaperStarts
<1>2. PaperInv /\ [PaperNext]_paperVars => PaperInv'
  BY PaperStep
<1> QED
  BY <1>1, <1>2, PTL DEF PaperSpec

(* Through every sequence of openings, averagings, partial closings and    *)
(* reversals (_apply_fill), of partial fills of many orders on one quote,  *)
(* and of funding, the position book says exactly what the fills paid and  *)
(* received, for any fee, slippage, leverage, prices and sizes.            *)
THEOREM BooksBalance == PaperSpec => []BookMatchesFills
<1>1. PaperInv => BookMatchesFills
  BY DEF PaperInv, Balanced, Account, BookMatchesFills, EntriesOf, FundingOf, PaidOf, Entries
<1> QED
  BY <1>1, PaperSafe, PTL

(* Whatever the feed loses, repeats or reorders, only consecutive quotes   *)
(* are taken between two clear_data_halt calls, and an order is filled     *)
(* only by a quote later than the one it was decided on (on_quote).        *)
THEOREM FillsFollowTheFeed == PaperSpec => []FillsFollowFeed
<1>1. PaperInv => FillsFollowFeed
  BY DEF PaperInv, Consecutive, FillsDecided, FillsFollowFeed
<1> QED
  BY <1>1, PaperSafe, PTL

(* The orders filled on one quote, however many and over however many      *)
(* symbols, leave an exposure that the equity before them covers: a fill   *)
(* never raises equity, so the check of _exposure_allowed that the last    *)
(* of them passed is at least as strict as one against the equity before.  *)
THEOREM ExposureIsCovered == PaperSpec => ExposureCovered
<1>1. PaperInv /\ [PaperNext]_paperVars =>
        [fills' # fills => 100 * Gross(pos', latest') <= Leverage * Equity(cash, pos, latest')]_paperVars
  BY PaperStep
<1> QED
  BY <1>1, PaperSafe, PTL DEF PaperSpec, ExposureCovered
=============================================================================
