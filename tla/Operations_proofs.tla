---------------------------- MODULE Operations_proofs ----------------------------
(***************************************************************************)
(* Paper trades are backed and happen once, for any number of snapshots,   *)
(* signals, faults and restarts.                                           *)
(*                                                                         *)
(* A position is a sum without a key, so its bound is not inductive: the   *)
(* argument is that the order of a leg is stored before its fill and the   *)
(* fill before the position, that a signal with an order is never executed *)
(* again, and that within one execution each leg has its turn once.        *)
(***************************************************************************)
EXTENDS Operations, FiniteSetTheorems, TLAPS

(* Where a section may go on after it has written the row.                 *)
Sections == {"run", "free", "market", "skip", "unavailable", "request_stop", "stop",
             "exit"}

FillsOf(l) == {f \in fills : f[2] = l}

(* The execution of a signal, leg by leg and write by write.               *)
Executing(e) ==
    /\ e = Exec(e.sig, e.leg, e.step, e.cash) /\ e.leg \in Legs
    /\ e.leg = 1 => <<e.sig, 2>> \notin orders
    /\ e.step = "order" => <<e.sig, e.leg>> \notin orders
    /\ e.step = "fill" => <<e.sig, e.leg>> \notin fills

LoopInv ==
    /\ loop.at = "execute" => Executing(loop)
    /\ loop.at = "save" => loop.next \in Sections

(* The fill a position does not reflect yet.                               *)
Due(l) == loop.at = "execute" /\ loop.step = "position" /\ loop.leg = l

(* The order of a fill in hand, which is still to be stored, is stored.    *)
Ordered == loop.at = "execute" /\ loop.step = "fill" => <<loop.sig, loop.leg>> \in orders

Counted ==
    /\ IsFiniteSet(fills) /\ fills \subseteq orders
    /\ position \in [Legs -> Nat]
    /\ \A l \in Legs : /\ position[l] <= Cardinality(FillsOf(l))
                       /\ Due(l) => position[l] < Cardinality(FillsOf(l))

Backed ==
    /\ elig.valid => elig.snap \in Passing
    /\ signals \in Seq(Passing)

IInv == LoopInv /\ Ordered /\ Counted /\ Backed

-----------------------------------------------------------------------------
(* Nothing has been traded when the tables are empty.                      *)
LEMMA InitEstablishes == Init => IInv
<1> SUFFICES ASSUME Init PROVE IInv
  OBVIOUS
<1>1. loop.at = "free"
  BY DEF Init, Free
<1>2. Counted
  <2>1. IsFiniteSet(fills) /\ fills = {} /\ position = [l \in Legs |-> 0]
    BY FS_EmptySet DEF Init
  <2>2. \A l \in Legs : FillsOf(l) = {} /\ Cardinality(FillsOf(l)) = 0
    BY <2>1, FS_EmptySet DEF FillsOf
  <2> QED
    BY <1>1, <2>1, <2>2 DEF Counted, Due
<1> QED
  BY <1>1, <1>2 DEF Init, IInv, LoopInv, Ordered, Backed

(* A section that neither trades nor executes.                             *)
LEMMA QuietPreserves ==
    ASSUME IInv, UNCHANGED <<orders, fills, position>>,
           loop'.at # "execute", loop'.at = "save" => loop'.next \in Sections, Backed'
    PROVE  IInv'
<1>1. \A l \in Legs : FillsOf(l)' = FillsOf(l)
  BY DEF FillsOf
<1>2. Counted'
  BY <1>1 DEF IInv, Counted, Due
<1> QED
  BY <1>2 DEF IInv, LoopInv, Ordered

(* Steps of others while the loop stays where it is.                       *)
LEMMA AsidePreserves ==
    ASSUME IInv, UNCHANGED <<orders, fills, position, loop>>, Backed'
    PROVE  IInv'
<1>1. \A l \in Legs : FillsOf(l)' = FillsOf(l)
  BY DEF FillsOf
<1>2. Counted'
  BY <1>1 DEF IInv, Counted, Due
<1> QED
  BY <1>2 DEF IInv, LoopInv, Ordered, Executing

-----------------------------------------------------------------------------
(* The sections that start, end, bind, check or study write only the row.  *)
LEMMA RowPreserves ==
    ASSUME IInv, \/ Start \/ SaveRun \/ Collector \/ Snapshot \/ Stop
                 \/ TickFails \/ Crash
    PROVE  IInv'
<1> USE DEF Replace, Sections, Free, Health, BindSnapshot
<1>0. Backed'
  BY DEF IInv, Backed, Start, Collector, Snapshot, Stop, RestoreOrInitialize, Announce, Run,
         SaveRun, CollectorTick, HealthReturns, PollMarket, SnapshotReturns, SkipIneligible,
         SnapshotFailed, TimerFires, CollectorEnds, RequestStop, SetStopEvent, WorkersDone,
         Exit, TickFails, Crash, Gone, tables
<1>1. CASE SaveRun
  BY <1>0, <1>1, QuietPreserves DEF SaveRun, IInv, LoopInv, tables
<1>2. CASE Start
  BY <1>0, <1>2, QuietPreserves DEF Start, RestoreOrInitialize, Announce, Run, tables
<1>3. CASE Collector
  <2>1. CASE CollectorTick
    BY <1>0, <2>1, AsidePreserves DEF CollectorTick, tables
  <2>2. CASE \E healthy \in BOOLEAN : HealthReturns(healthy)
    BY <1>0, <2>2, QuietPreserves DEF HealthReturns, tables
  <2>3. CASE \E events \in Deliveries : PollMarket(events)
    BY <1>0, <2>3, QuietPreserves DEF PollMarket, tables
  <2> QED
    BY <1>3, <2>1, <2>2, <2>3 DEF Collector
<1>4. CASE Snapshot
  BY <1>0, <1>4, QuietPreserves
     DEF Snapshot, SnapshotReturns, SkipIneligible, SnapshotFailed, tables
<1>5. CASE Stop
  BY <1>0, <1>5, QuietPreserves
     DEF Stop, TimerFires, CollectorEnds, RequestStop, SetStopEvent, WorkersDone, Exit, Gone, tables
<1>6. CASE TickFails \/ Crash
  BY <1>0, <1>6, QuietPreserves DEF TickFails, Crash, Gone, tables
<1> QED
  BY <1>1, <1>2, <1>3, <1>4, <1>5, <1>6

(* What research records is about the snapshot it was given.               *)
LEMMA ResearchPreserves ==
    ASSUME IInv, Research \/ Expire
    PROVE  IInv'
<1> USE DEF Replace, Sections, Free, RefreshEligibility
<1>1. CASE ResearchTick
  BY <1>1, AsidePreserves DEF ResearchTick, IInv, Backed, tables
<1>2. CASE ResearchReturns
  BY <1>2, QuietPreserves DEF ResearchReturns, IInv, Backed
<1>3. CASE ResearchRaises \/ ResearchGivesUp
  BY <1>3, QuietPreserves DEF ResearchRaises, ResearchGivesUp, IInv, Backed, tables
<1>4. CASE RecordUnavailable
  BY <1>4, QuietPreserves DEF RecordUnavailable, IInv, Backed
<1>5. CASE Expire
  <2>1. elig'.valid => elig'.snap \in Passing
    BY <1>5 DEF Expire, IInv, Backed
  <2> QED
    BY <1>5, <2>1, AsidePreserves DEF Expire, IInv, Backed
<1> QED
  BY <1>1, <1>2, <1>3, <1>4, <1>5 DEF Research

(* A signal that is not rejected names the valid snapshot.                 *)
LEMMA SignalPreserves ==
    ASSUME IInv, NEW sound \in BOOLEAN, SignalTick(sound)
    PROVE  IInv'
<1>1. Rejection(sound) = "none" => elig.valid
  BY DEF Rejection
<1>2. signals' \in Seq(Passing)
  BY <1>1 DEF SignalTick, GenerateSignal, AddSignal, IInv, Backed
<1> QED
  BY <1>2, AsidePreserves DEF SignalTick, IInv, Backed

(* Commands and the risk tick touch none of the tables.                    *)
LEMMA OtherPreserves ==
    ASSUME IInv, RiskTick \/ StopReads \/ StopWrites \/ UNCHANGED vars
    PROVE  IInv'
  BY AsidePreserves DEF RiskTick, StopReads, StopWrites, vars, tables, IInv, Backed

-----------------------------------------------------------------------------
(* A signal without an order has no fill either: its legs are still to come. *)
LEMMA ExecutePreserves ==
    ASSUME IInv, NEW s \in 1..MaxSignals, ExecuteSignal(s)
    PROVE  IInv'
<1>1. loop' = Exec(s, 1, "order", mem.cash)
  BY DEF ExecuteSignal
<1>2. UNCHANGED <<elig, signals, orders, fills, position>>
  BY DEF ExecuteSignal, tables
<1>3. <<s, 1>> \notin orders /\ <<s, 2>> \notin orders
  <2>1. \A o \in orders : o[1] # s
    BY DEF ExecuteSignal, Pending, Submitted
  <2> QED
    BY <2>1
<1>4. LoopInv' /\ Ordered'
  BY <1>1, <1>2, <1>3 DEF LoopInv, Ordered, Executing, Exec, Legs
<1>5. Counted'
  <2>1. \A l \in Legs : FillsOf(l)' = FillsOf(l) /\ ~Due(l)'
    BY <1>1, <1>2 DEF FillsOf, Due, Exec
  <2> QED
    BY <1>2, <2>1 DEF IInv, Counted
<1> QED
  BY <1>2, <1>4, <1>5 DEF IInv, Backed

(* What the loop becomes when a leg is over: the other leg, or nothing.    *)
LEMMA ProceedKeeps ==
    ASSUME IInv, loop.at = "execute", Proceed,
           orders' \in {orders, orders \cup {Order}}
    PROVE  /\ LoopInv' /\ Ordered'
           /\ \A l \in Legs : ~Due(l)'
<1>1. Executing(loop)
  BY DEF IInv, LoopInv
<1>2. CASE loop.leg = 1
  <2>1. loop' = Exec(loop.sig, 2, "order", loop.cash)
    BY <1>2 DEF Proceed
  <2>2. <<loop.sig, 2>> \notin orders'
    BY <1>1, <1>2 DEF Executing, Order
  <2> QED
    BY <2>1, <2>2 DEF LoopInv, Ordered, Executing, Exec, Legs, Due
<1>3. CASE loop.leg # 1
  BY <1>3 DEF Proceed, Free, LoopInv, Ordered, Due
<1> QED
  BY <1>2, <1>3

(* A leg that ends without a fill.                                         *)
LEMMA UnfilledPreserves ==
    ASSUME IInv, LegUnavailable \/ LegUnpriced \/ LegNotFilled
    PROVE  IInv'
<1>1. /\ loop.at = "execute" /\ orders' \in {orders, orders \cup {Order}}
      /\ UNCHANGED <<elig, signals, fills, position>>
      /\ Proceed \/ loop' = Free
  BY DEF LegUnavailable, LegUnpriced, LegNotFilled, At, SaveOrder, tables
<1>2. LoopInv' /\ Ordered' /\ \A l \in Legs : ~Due(l)'
  <2>1. CASE Proceed
    BY <1>1, <2>1, ProceedKeeps
  <2>2. CASE loop' = Free
    BY <2>2 DEF Free, LoopInv, Ordered, Due
  <2> QED
    BY <1>1, <2>1, <2>2
<1>3. \A l \in Legs : FillsOf(l)' = FillsOf(l)
  BY <1>1 DEF FillsOf
<1>4. Counted'
  BY <1>1, <1>2, <1>3 DEF IInv, Counted
<1> QED
  BY <1>1, <1>2, <1>4 DEF IInv, Backed

(* The order is stored; its fill cannot be there yet.                      *)
LEMMA OrderPreserves ==
    ASSUME IInv, LegOrder
    PROVE  IInv'
<1>1. /\ loop.at = "execute" /\ loop.step = "order" /\ orders' = orders \cup {Order}
      /\ UNCHANGED <<elig, signals, fills, position>>
      /\ loop' = [loop EXCEPT !.step = "fill"]
  BY DEF LegOrder, At, SaveOrder
<1>2. Executing(loop) /\ fills \subseteq orders
  BY <1>1 DEF IInv, LoopInv, Counted
<1>3. loop' = Exec(loop.sig, loop.leg, "fill", loop.cash)
  BY <1>1, <1>2 DEF Executing, Exec
<1>4. /\ loop'.at = "execute" /\ loop'.step = "fill" /\ loop'.sig = loop.sig
      /\ loop'.leg = loop.leg /\ loop'.cash = loop.cash
  BY <1>3 DEF Exec
<1>5. <<loop.sig, loop.leg>> \notin fills'
  BY <1>1, <1>2 DEF Executing
<1>6. loop.leg = 1 => <<loop.sig, 2>> \notin orders'
  BY <1>1, <1>2 DEF Executing, Order
<1>7. LoopInv' /\ Ordered' /\ \A l \in Legs : ~Due(l)'
  <2>1. Ordered' /\ \A l \in Legs : ~Due(l)'
    BY <1>1, <1>4 DEF Ordered, Due, Order
  <2> QED
    BY <1>2, <1>3, <1>4, <1>5, <1>6, <2>1 DEF LoopInv, Executing
<1>8. \A l \in Legs : FillsOf(l)' = FillsOf(l)
  BY <1>1 DEF FillsOf
<1>9. Counted'
  BY <1>1, <1>2, <1>7, <1>8 DEF IInv, Counted
<1> QED
  BY <1>1, <1>7, <1>9 DEF IInv, Backed

(* A fill is new, so the fills of its leg are one more than they were.     *)
LEMMA FillPreserves ==
    ASSUME IInv, LegFill
    PROVE  IInv'
<1>1. /\ loop.at = "execute" /\ loop.step = "fill" /\ fills' = fills \cup {Order}
      /\ UNCHANGED <<elig, signals, orders, position>>
      /\ loop' = [loop EXCEPT !.step = "position"]
  BY DEF LegFill, At, SaveFill
<1>2. /\ Executing(loop) /\ Order \in orders /\ Order \notin fills
      /\ Order = <<loop.sig, loop.leg>> /\ loop.leg \in Legs
  BY <1>1 DEF IInv, LoopInv, Ordered, Executing, Order
<1>3. loop' = Exec(loop.sig, loop.leg, "position", loop.cash)
  BY <1>1, <1>2 DEF Executing, Exec
<1>4. /\ loop'.at = "execute" /\ loop'.step = "position" /\ loop'.sig = loop.sig
      /\ loop'.leg = loop.leg /\ loop'.cash = loop.cash
  BY <1>3 DEF Exec
<1>5. LoopInv' /\ Ordered'
  BY <1>1, <1>2, <1>3, <1>4 DEF LoopInv, Executing, Ordered
<1>6. IsFiniteSet(fills') /\ fills' \subseteq orders'
  BY <1>1, <1>2, FS_AddElement DEF IInv, Counted
<1>7. ASSUME NEW l \in Legs
      PROVE  /\ position'[l] <= Cardinality(FillsOf(l)')
             /\ Due(l)' => position'[l] < Cardinality(FillsOf(l)')
  <2>1. IsFiniteSet(FillsOf(l)) /\ Cardinality(FillsOf(l)) \in Nat
    BY FS_Subset, FS_CardinalityType DEF FillsOf, IInv, Counted
  <2>2. position[l] \in Nat /\ position[l] <= Cardinality(FillsOf(l)) /\ position' = position
    BY <1>1 DEF IInv, Counted
  <2>3. CASE l = loop.leg
    <3>1. FillsOf(l)' = FillsOf(l) \cup {Order} /\ Order \notin FillsOf(l)
      BY <1>1, <1>2, <2>3 DEF FillsOf
    <3>2. Cardinality(FillsOf(l)') = Cardinality(FillsOf(l)) + 1
      BY <2>1, <3>1, FS_AddElement
    <3> QED
      BY <2>1, <2>2, <3>2
  <2>4. CASE l # loop.leg
    <3>1. FillsOf(l)' = FillsOf(l) /\ ~Due(l)'
      BY <1>1, <1>2, <1>4, <2>4 DEF FillsOf, Due
    <3> QED
      BY <2>2, <3>1
  <2> QED
    BY <2>3, <2>4
<1>8. Counted'
  BY <1>1, <1>6, <1>7 DEF IInv, Counted
<1> QED
  BY <1>1, <1>5, <1>8 DEF IInv, Backed

(* The position follows the one fill it did not reflect.                   *)
LEMMA PositionPreserves ==
    ASSUME IInv, LegPosition
    PROVE  IInv'
<1>1. /\ loop.at = "execute" /\ loop.step = "position"
      /\ position' = [position EXCEPT ![loop.leg] = @ + 1]
      /\ UNCHANGED <<elig, signals, orders, fills>>
      /\ loop' = [loop EXCEPT !.step = "cash"]
  BY DEF LegPosition, At, SavePosition
<1>2. Executing(loop) /\ loop.leg \in Legs /\ Due(loop.leg)
  BY <1>1 DEF IInv, LoopInv, Executing, Due
<1>3. loop' = Exec(loop.sig, loop.leg, "cash", loop.cash)
  BY <1>1, <1>2 DEF Executing, Exec
<1>4. /\ loop'.at = "execute" /\ loop'.step = "cash" /\ loop'.sig = loop.sig
      /\ loop'.leg = loop.leg /\ loop'.cash = loop.cash
  BY <1>3 DEF Exec
<1>5. LoopInv' /\ Ordered'
  BY <1>1, <1>2, <1>3, <1>4 DEF LoopInv, Executing, Ordered
<1>6. position \in [Legs -> Nat]
  BY DEF IInv, Counted
<1>7. position' \in [Legs -> Nat]
  <2>1. \A l \in Legs : position[l] \in Nat /\ position[l] + 1 \in Nat
    BY <1>6
  <2> QED
    BY <1>1, <1>2, <1>6, <2>1
<1>8. ASSUME NEW l \in Legs
      PROVE  /\ position'[l] <= Cardinality(FillsOf(l)')
             /\ ~Due(l)'
  <2>1. FillsOf(l)' = FillsOf(l) /\ ~Due(l)'
    BY <1>1, <1>4 DEF FillsOf, Due
  <2>2. Cardinality(FillsOf(l)) \in Nat
    BY FS_Subset, FS_CardinalityType DEF FillsOf, IInv, Counted
  <2>3. CASE l = loop.leg
    <3>1. position[l] < Cardinality(FillsOf(l)) /\ position[l] \in Nat
      BY <1>2, <1>6, <2>3 DEF IInv, Counted
    <3>2. position'[l] = position[l] + 1
      BY <1>1, <1>6, <2>3
    <3> QED
      BY <2>1, <2>2, <3>1, <3>2
  <2>4. CASE l # loop.leg
    <3>1. position'[l] = position[l]
      BY <1>1, <1>6, <2>4
    <3> QED
      BY <2>1, <3>1 DEF IInv, Counted
  <2> QED
    BY <2>3, <2>4
<1>9. Counted'
  BY <1>1, <1>7, <1>8 DEF IInv, Counted
<1> QED
  BY <1>1, <1>5, <1>9 DEF IInv, Backed

(* The cash entry ends the leg.                                            *)
LEMMA CashPreserves ==
    ASSUME IInv, LegCash
    PROVE  IInv'
<1>1. /\ loop.at = "execute" /\ Proceed
      /\ UNCHANGED <<elig, signals, orders, fills, position>>
  BY DEF LegCash, At
<1>2. LoopInv' /\ Ordered' /\ \A l \in Legs : ~Due(l)'
  BY <1>1, ProceedKeeps
<1>3. \A l \in Legs : FillsOf(l)' = FillsOf(l)
  BY <1>1 DEF FillsOf
<1>4. Counted'
  BY <1>1, <1>2, <1>3 DEF IInv, Counted
<1> QED
  BY <1>1, <1>2, <1>4 DEF IInv, Backed

-----------------------------------------------------------------------------
(* Every step of the service, of its worker threads and of the commands.   *)
LEMMA NextPreserves == IInv /\ [Next]_vars => IInv'
<1> SUFFICES ASSUME IInv, [Next]_vars PROVE IInv'
  OBVIOUS
<1>1. CASE Execution
  BY <1>1, ExecutePreserves, UnfilledPreserves, OrderPreserves, FillPreserves,
     PositionPreserves, CashPreserves DEF Execution
<1>2. CASE \E sound \in BOOLEAN : SignalTick(sound)
  BY <1>2, SignalPreserves
<1> QED
  BY <1>1, <1>2, RowPreserves, ResearchPreserves, OtherPreserves DEF Next

(* TradesBacked holds in every state of the service, for every number of   *)
(* snapshots, signals, faults and restarts: signals stand on snapshots     *)
(* whose own research passed, and no position exceeds its fills            *)
(* (_research_tick, _signal_rejection, execute_signal).                    *)
THEOREM TradesStayBacked == Spec => []TradesBacked
<1>1. IInv => TradesBacked
  <2> SUFFICES ASSUME IInv PROVE TradesBacked
    OBVIOUS
  <2>1. Range(signals) \subseteq Passing
    BY DEF IInv, Backed, Range
  <2> QED
    BY <2>1 DEF IInv, Counted, Backed, FillsOf, TradesBacked
<1> QED
  BY <1>1, InitEstablishes, NextPreserves, PTL DEF Spec

=============================================================================
