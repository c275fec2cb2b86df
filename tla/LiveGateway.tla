------------------------------ MODULE LiveGateway ------------------------------
(***************************************************************************)
(* LiveExecutionGateway (services/live_trading/gateway.py) over the shared *)
(* compare-and-set repository of preflight bindings                        *)
(* (cross_venue_preflight.py, preflight_bindings.py) and an exchange.      *)
(*                                                                         *)
(* A task is one call of place_order or reconcile_binding on the gateway   *)
(* (event loop) it lives on.  It yields the loop only where the code       *)
(* awaits; between two awaits each read and each compare-and-set of the    *)
(* repository is a step of its own, so that another gateway - another      *)
(* process - can come in between, while tasks of the same gateway cannot.  *)
(*                                                                         *)
(* Quantities are one unit.  Wall-clock comparisons are kept as what they  *)
(* tell apart: whether an order existed before a position snapshot was     *)
(* taken (snap.prior), and whether it changed after a call was made        *)
(* (task.dirty); the clocks of exchange and gateway are assumed to agree.  *)
(***************************************************************************)
EXTENDS Integers, FiniteSets

CONSTANTS
    Gateways,        \* gateway processes sharing the binding repository
    PlaceTasks,      \* concurrent place_order calls
    ReconcileTasks,  \* concurrent reconcile_binding calls
    Home,            \* task -> its gateway
    Signals,         \* signal ids: the repository's primary key
    Requests,        \* order requests
    SignalOf,        \* request -> signal
    KeyOf,           \* request -> idempotency key
    Role,            \* request -> "receive" or "pay" leg, which fixes the venue
    Sign,            \* request -> 1 buy, -1 sell
    ReduceOnly,      \* request -> BOOLEAN
    Recovery,        \* request -> None, "hedge" (alternate, partial) or "unwind"
    Hash,            \* request -> preflight hash
    MaxOpenOrders,   \* settings.live.maximum_open_orders
    ReadsMayFail,    \* BOOLEAN: adapter reads may raise
    LateDelivery,    \* BOOLEAN: an order may reach the exchange after its call failed
    Operator,        \* operator calls: subset of {"cancel", "close", "halt", "kill"}
    MaxVersion,      \* bound: no call starts on a binding past this version
    MaxRestarts,     \* bound on gateway restarts
    None

Tasks == PlaceTasks \cup ReconcileTasks
Roles == {"receive", "pay"}
Keys == {KeyOf[r] : r \in Requests}
Hashes == {Hash[r] : r \in Requests}

ASSUME ConstantsAssumption ==
    /\ Home \in [Tasks -> Gateways]
    /\ PlaceTasks \cap ReconcileTasks = {}
    /\ SignalOf \in [Requests -> Signals]
    /\ Role \in [Requests -> Roles]
    /\ Sign \in [Requests -> {-1, 1}]
    /\ ReduceOnly \in [Requests -> BOOLEAN]
    /\ Recovery \in [Requests -> {None, "hedge", "unwind"}]
    /\ ReadsMayFail \in BOOLEAN /\ LateDelivery \in BOOLEAN
    /\ MaxOpenOrders \in Nat /\ MaxVersion \in Nat /\ MaxRestarts \in Nat
    /\ None \notin Requests \cup Tasks \cup Roles \cup Hashes
             \cup {"hedge", "unwind", "accepted", "rejected"}

VARIABLES
    bindings,   \* signal -> PreflightBinding (durable)
    receipts,   \* gateway -> key -> receipt state (in memory)
    lock,       \* gateway -> task holding _placement_lock, or None
    kill,       \* gateway -> kill switch: "off", "canceling" (awaiting cancel-all), "on"
    task,       \* task -> its frame
    xorder,     \* request -> its order at the exchange
    xcount,     \* request -> orders the exchange ever accepted for it
    late,       \* requests still on the wire although their call failed
    pos,        \* leg venue -> position
    lateKill,   \* gateway -> exposure orders sent after its kill switch was set
    stranded,   \* history: first legs without a receipt whose binding an abort has freed
    restarts

gwVars == <<receipts, lock, kill, lateKill>>
xVars == <<xorder, xcount, late, pos, stranded>>
vars == <<bindings, gwVars, task, xVars, restarts>>

-----------------------------------------------------------------------------
(* PreflightBinding and its states.                                        *)
Free == {"UNBOUND", "ABORTED"}
Pending == {"RESERVED", "SECOND_LEG_SUBMITTED"}

Unbound == [state |-> "UNBOUND", hash |-> None, role |-> None, first |-> None,
            second |-> None, snap |-> None, version |-> 0]

Move(b, s) == [b EXCEPT !.state = s, !.version = @ + 1]

(* new_binding, carrying the version on.                                   *)
Fresh(b, r, s) == [Unbound EXCEPT !.state = s, !.hash = Hash[r], !.version = b.version + 1]

(* _hedging_operation_allowed.                                             *)
HedgingAllowed(b, r) ==
    \/ Recovery[r] \in {None, "hedge"} /\ b.role # Role[r]
    \/ Recovery[r] = "unwind" /\ ReduceOnly[r] /\ b.role = Role[r]

MutCanReserveRole(b, r) ==  \* mutant: the second order may repeat the first leg's role
    \/ b.state \in Free /\ Recovery[r] = None
    \/ b.hash = Hash[r] /\ b.state = "FIRST_LEG_ACCEPTED" /\ Recovery[r] = None

MutCanReserveHalted(b, r) ==  \* mutant: a halted binding can be hedged
    \/ b.state \in Free /\ Recovery[r] = None
    \/ b.hash = Hash[r] /\ b.state \in {"HEDGING_REQUIRED", "HALTED"} /\ HedgingAllowed(b, r)
    \/ /\ b.hash = Hash[r] /\ b.state = "FIRST_LEG_ACCEPTED"
       /\ b.role # Role[r] /\ Recovery[r] = None

(* The branches of _reserve_preflight that do not return a failure.        *)
CanReserve(b, r) ==
    \/ b.state \in Free /\ Recovery[r] = None
    \/ /\ b.hash = Hash[r]
       /\ \/ b.state = "FIRST_LEG_ACCEPTED" /\ b.role # Role[r] /\ Recovery[r] = None
          \/ b.state = "HEDGING_REQUIRED" /\ HedgingAllowed(b, r)

Reserved(b, r) ==
    IF b.state \in Free
    THEN Fresh(b, r, "RESERVED")
    ELSE [Move(b, "SECOND_LEG_SUBMITTED") EXCEPT !.second = r]

MutAcked(b, r, accepted) ==  \* mutant: the receipt's state is not looked at
    IF b.state = "SECOND_LEG_SUBMITTED"
    THEN Move(b, "COMPLETED")
    ELSE [Move(b, "FIRST_LEG_ACCEPTED") EXCEPT !.role = Role[r], !.first = r]

(* _record_preflight_ack.                                                  *)
Acked(b, r, accepted) ==
    IF accepted
    THEN IF b.state = "SECOND_LEG_SUBMITTED"
         THEN Move(b, "COMPLETED")
         ELSE [Move(b, "FIRST_LEG_ACCEPTED") EXCEPT !.role = Role[r], !.first = r]
    ELSE Move(b, IF b.state = "SECOND_LEG_SUBMITTED" THEN "HEDGING_REQUIRED" ELSE "ABORTED")

(* _mark_reconciliation_required, on a pending binding.                    *)
InDoubt(b, r) ==
    LET n == Move(b, "RECONCILIATION_REQUIRED")
    IN  IF b.state = "RESERVED" THEN [n EXCEPT !.first = r] ELSE [n EXCEPT !.second = r]

(* _ensure_reconciliation_required, on a binding it rewrites.              *)
EnsureInDoubt(b, r) ==
    IF b.state \in Free
    THEN [Fresh(b, r, "RECONCILIATION_REQUIRED") EXCEPT !.first = r, !.snap = b.snap]
    ELSE InDoubt(b, r)

(* The request a binding in doubt is waiting for.                          *)
Unresolved(b) == IF b.second # None THEN b.second ELSE b.first

-----------------------------------------------------------------------------
(* ExchangeReconciliationSnapshot: obs is what the four reads saw.         *)
KnownDelta(snap, r) == snap # None /\ snap.role = Role[r]
Delta(snap, obs) == obs.pos - snap.before

(* _client_order_matches: the order lies between snapshot and call.        *)
ClientMatches(snap, obs, r) ==
    /\ obs.client # "none"
    /\ obs.clean
    /\ snap # None => r \notin snap.prior

FillsMatchDelta(snap, obs, r) ==
    obs.fills /\ KnownDelta(snap, r) /\ Delta(snap, obs) = Sign[r]

ProvesExists(snap, obs, r) ==
    \/ ClientMatches(snap, obs, r) /\ obs.client \in {"open", "filled"}
    \/ obs.opens
    \/ FillsMatchDelta(snap, obs, r)

ProvesAbsent(snap, obs, r) ==
    /\ obs.client = "none" \/ ClientMatches(snap, obs, r)
    /\ ~obs.fills /\ ~obs.opens
    /\ KnownDelta(snap, r) /\ Delta(snap, obs) = 0

Ambiguous(snap, obs, r) ==
    \/ obs.client # "none" /\ ~ClientMatches(snap, obs, r)
    \/ obs.client = "pending"
    \/ obs.fills /\ ~FillsMatchDelta(snap, obs, r)
    \/ KnownDelta(snap, r) /\ Delta(snap, obs) # 0 /\ ~obs.fills

(* _apply_reconciliation_snapshot: what the snapshot makes of b.           *)
Verdict(b, snap, obs, r) ==
    LET second == b.second = r
    IN  IF Ambiguous(snap, obs, r) THEN Move(b, "HALTED")
        ELSE IF ProvesExists(snap, obs, r)
        THEN IF second THEN Move(b, "COMPLETED")
             ELSE [Move(b, "FIRST_LEG_ACCEPTED") EXCEPT !.role = Role[r], !.first = r]
        ELSE IF ProvesAbsent(snap, obs, r)
        THEN Move(b, IF second THEN "HEDGING_REQUIRED" ELSE "ABORTED")
        ELSE Move(b, "HALTED")

-----------------------------------------------------------------------------
(* Frames.  A task in Sync is between two awaits: its event loop is taken. *)
Fetching == {"fills", "lookup", "opens", "positionsAfter"}
Sync == {"validate", "cas", "abort", "abortAgain", "send", "conflict", "ackConflict",
         "handle", "apply", "haltAmbiguous", "handled", "reject", "raise", "accept"}

NoObs == [fills |-> FALSE, client |-> "none", clean |-> TRUE, opens |-> FALSE, pos |-> 0]

Idle == [pc |-> "idle", req |-> None, retry |-> FALSE, new |-> Unbound, ok |-> "idle",
         fail |-> "idle", why |-> None, seen |-> Unbound, obs |-> NoObs,
         dirty |-> "no", prior |-> {}, sub |-> "none"]

Req(t) == task[t].req
Bound(t) == bindings[SignalOf[Req(t)]]
At(t, p) ==
    /\ task[t].pc = p
    /\ \A u \in Tasks \ {t} : Home[u] = Home[t] => task[u].pc \notin Sync

Goto(t, p) == task' = [task EXCEPT ![t].pc = p]

(* A compare-and-set of b against the version it was derived from.         *)
TryCas(t, b, ok, fail) ==
    task' = [task EXCEPT ![t] = [@ EXCEPT !.pc = "cas", !.new = b, !.ok = ok, !.fail = fail]]

(* The abort of a second leg frees the binding of an accepted first leg    *)
(* whose answer was lost.                                                  *)
Strands(t, b, new) ==
    /\ b.state = "SECOND_LEG_SUBMITTED" /\ new.state = "ABORTED"
    /\ receipts[Home[t]][KeyOf[b.first]] = None

(* compare_and_set, and what the caller does with its answer.              *)
Cas(t) ==
    /\ At(t, "cas")
    /\ LET s == SignalOf[Req(t)]
           swapped == bindings[s].version + 1 = task[t].new.version
       IN  /\ bindings' = IF swapped THEN [bindings EXCEPT ![s] = task[t].new] ELSE bindings
           /\ task' = [task EXCEPT ![t] = [@ EXCEPT
                          !.pc = IF swapped THEN task[t].ok ELSE task[t].fail,
                          !.new = Unbound, !.ok = "idle", !.fail = "idle"]]
           /\ stranded' = IF swapped /\ Strands(t, bindings[s], task[t].new)
                          THEN stranded \cup {bindings[s].first} ELSE stranded
    /\ UNCHANGED <<gwVars, xorder, xcount, late, pos, restarts>>

Init ==
    /\ bindings = [s \in Signals |-> Unbound]
    /\ receipts = [g \in Gateways |-> [k \in Keys |-> None]]
    /\ lock = [g \in Gateways |-> None]
    /\ kill = [g \in Gateways |-> "off"]
    /\ task = [t \in Tasks |-> Idle]
    /\ xorder = [r \in Requests |-> "none"]
    /\ xcount = [r \in Requests |-> 0]
    /\ late = {}
    /\ pos = [l \in Roles |-> 0]
    /\ lateKill = [g \in Gateways |-> 0]
    /\ stranded = {}
    /\ restarts = 0

-----------------------------------------------------------------------------
(* place_order.                                                            *)

(* The placement lock is taken.  A key with a receipt is answered from it, *)
(* which changes nothing.                                                  *)
PlaceStart(t, r) ==
    /\ At(t, "idle")
    /\ lock[Home[t]] = None
    /\ receipts[Home[t]][KeyOf[r]] = None
    /\ bindings[SignalOf[r]].version <= MaxVersion
    /\ lock' = [lock EXCEPT ![Home[t]] = t]
    /\ task' = [task EXCEPT ![t] = [Idle EXCEPT !.pc = "validate", !.req = r,
                    !.prior = {q \in Requests : xorder[q] # "none"}]]
    /\ UNCHANGED <<bindings, receipts, kill, lateKill, xVars, restarts>>

MutMustReject(t) ==  \* mutant: the kill switch is not consulted
    Bound(t).state \notin Free /\ Bound(t).hash # Hash[Req(t)]

(* The reasons of _validate_request that depend on modelled state.         *)
MustReject(t) ==
    \/ kill[Home[t]] # "off" /\ ~ReduceOnly[Req(t)]
    \/ Bound(t).state \notin Free /\ Bound(t).hash # Hash[Req(t)]

(* The others (staleness, evidence, eligibility, risk, rate limit) may     *)
(* reject any request.                                                     *)
Validate(t) ==
    /\ At(t, "validate")
    /\ \/ ~MustReject(t) /\ Goto(t, "health")
       \/ Goto(t, "reject")
    /\ UNCHANGED <<bindings, gwVars, xVars, restarts>>

(* The health check answers (or fails, or raises) and the binding is       *)
(* reserved: the write-ahead record of the submission.                     *)
Reserve(t) ==
    /\ At(t, "health")
    /\ \/ IF CanReserve(Bound(t), Req(t))
          THEN TryCas(t, Reserved(Bound(t), Req(t)), "open", "conflict")
          ELSE Goto(t, "reject")
       \/ Goto(t, "reject")
       \/ ReadsMayFail /\ Goto(t, "raise")
    /\ UNCHANGED <<bindings, gwVars, xVars, restarts>>

OpenOrders == {r \in Requests : xorder[r] = "open"}

CheckOpenOrders(t) ==
    /\ At(t, "open")
    /\ \/ Goto(t, IF Cardinality(OpenOrders) >= MaxOpenOrders THEN "abort" ELSE "positions")
       \/ ReadsMayFail /\ Goto(t, "abortAgain")
    /\ UNCHANGED <<bindings, gwVars, xVars, restarts>>

(* A reduce-only order must close part of the position it was shown.       *)
Reduces(r, p) == Sign[r] * p < 0

(* _record_position_snapshot, then the reduce-only checks.                 *)
RecordPosition(t) ==
    /\ At(t, "positions")
    /\ LET r == Req(t)
           p == pos[Role[r]]
           snapshot == [role |-> Role[r], before |-> p, prior |-> task[t].prior]
       IN  \/ TryCas(t, [Move(Bound(t), Bound(t).state) EXCEPT !.snap = snapshot],
                      IF ReduceOnly[r] /\ ~Reduces(r, p) THEN "abort" ELSE "send",
                      "abortAgain")
           \/ ReadsMayFail /\ Goto(t, "abortAgain")
    /\ UNCHANGED <<bindings, gwVars, xVars, restarts>>

(* _abort_preflight.  Its own CAS conflict is an exception the handler     *)
(* answers with a second _abort_preflight.                                 *)
Abort(t) ==
    /\ \/ At(t, "abort") /\ TryCas(t, Move(Bound(t), "ABORTED"), "reject", "abortAgain")
       \/ At(t, "abortAgain") /\ TryCas(t, Move(Bound(t), "ABORTED"), "raise", "raise")
    /\ UNCHANGED <<bindings, gwVars, xVars, restarts>>

(* adapter.place_order is called.                                          *)
Send(t) ==
    /\ At(t, "send")
    /\ task' = [task EXCEPT ![t] = [@ EXCEPT !.pc = "inflight", !.sub = "sent"]]
    /\ lateKill' = [lateKill EXCEPT ![Home[t]] =
                      IF kill[Home[t]] # "off" /\ ~ReduceOnly[Req(t)] THEN @ + 1 ELSE @]
    /\ UNCHANGED <<bindings, receipts, lock, kill, xVars, restarts>>

(* The adapter returns the exchange's answer: _record_preflight_ack.       *)
Respond(t) ==
    /\ At(t, "inflight")
    /\ task[t].sub \in {"accepted", "rejected"}
    /\ TryCas(t, Acked(Bound(t), Req(t), task[t].sub = "accepted"), "accept", "ackConflict")
    /\ UNCHANGED <<bindings, gwVars, xVars, restarts>>

MutSubmitFails(t) ==  \* mutant: only a first leg is marked
    /\ At(t, "inflight")
    /\ IF Bound(t).state = "RESERVED"
       THEN TryCas(t, InDoubt(Bound(t), Req(t)), "raise", "raise")
       ELSE Goto(t, "raise")
    /\ UNCHANGED <<bindings, gwVars, xVars, restarts>>

(* The adapter raises, or answers for another request id: the outcome is   *)
(* unknown and the binding is marked, if it is still pending.              *)
SubmitFails(t) ==
    /\ At(t, "inflight")
    /\ IF Bound(t).state \in Pending
       THEN TryCas(t, InDoubt(Bound(t), Req(t)), "raise", "raise")
       ELSE Goto(t, "raise")
    /\ \/ late' = late
       \/ LateDelivery /\ task[t].sub = "sent" /\ late' = late \cup {Req(t)}
    /\ UNCHANGED <<bindings, gwVars, xorder, xcount, pos, stranded, restarts>>

(* The three ways out, each releasing the lock if the task holds it.       *)
Return(t) ==
    /\ \E p \in {"reject", "raise", "accept"} : At(t, p)
    /\ LET g == Home[t]
           k == KeyOf[Req(t)]
       IN  /\ receipts' = CASE task[t].pc = "reject" -> [receipts EXCEPT ![g][k] = "rejected"]
                            [] task[t].pc = "accept" -> [receipts EXCEPT ![g][k] = task[t].sub]
                            [] OTHER -> receipts
           /\ lock' = [lock EXCEPT ![g] = IF @ = t THEN None ELSE @]
    /\ task' = [task EXCEPT ![t] = Idle]
    /\ UNCHANGED <<bindings, kill, lateKill, xVars, restarts>>

-----------------------------------------------------------------------------
(* _refresh_binding_and_exchange_state: a read of the binding, four awaits.*)

StartRefresh(t) ==
    /\ \/ At(t, "conflict") /\ task[t].retry /\ Goto(t, "reject")
       \/ /\ At(t, "conflict") /\ ~task[t].retry
          /\ task' = [task EXCEPT ![t] = [@ EXCEPT !.pc = "fills", !.why = "reserve", !.seen = Bound(t)]]
       \/ /\ At(t, "ackConflict")
          /\ task' = [task EXCEPT ![t] = [@ EXCEPT !.pc = "fills", !.why = "ack", !.seen = Bound(t)]]
    /\ UNCHANGED <<bindings, gwVars, xVars, restarts>>

(* reconcile_binding, called with the request that is in doubt.            *)
ReconcileStart(t, r) ==
    /\ At(t, "idle")
    /\ LET b == bindings[SignalOf[r]]
       IN  /\ b.state = "RECONCILIATION_REQUIRED"
           /\ b.version <= MaxVersion
           /\ r = Unresolved(b)
           /\ task' = [task EXCEPT ![t] = [Idle EXCEPT !.pc = "fills", !.req = r,
                                                       !.why = "reconcile", !.seen = b]]
    /\ UNCHANGED <<bindings, gwVars, xVars, restarts>>

SinceSnapshot(t) == task[t].seen.snap # None => Req(t) \notin task[t].seen.snap.prior

FetchFills(t) ==
    /\ At(t, "fills")
    /\ task' = [task EXCEPT ![t] = [@ EXCEPT !.pc = "lookup", !.obs.fills =
          xorder[Req(t)] = "filled" /\ task[t].dirty = "no" /\ SinceSnapshot(t)]]
    /\ UNCHANGED <<bindings, gwVars, xVars, restarts>>

(* The exchange may still call an open order pending.                      *)
LookupOrder(t) ==
    /\ At(t, "lookup")
    /\ \E status \in {xorder[Req(t)]} \cup IF xorder[Req(t)] = "open" THEN {"pending"} ELSE {} :
          task' = [task EXCEPT ![t] = [@ EXCEPT !.pc = "opens", !.obs.client = status,
                                                !.obs.clean = task[t].dirty = "no"]]
    /\ UNCHANGED <<bindings, gwVars, xVars, restarts>>

FetchOpenOrders(t) ==
    /\ At(t, "opens")
    /\ task' = [task EXCEPT ![t] = [@ EXCEPT !.pc = "positionsAfter", !.obs.opens =
          xorder[Req(t)] = "open" /\ task[t].dirty # "created" /\ SinceSnapshot(t)]]
    /\ UNCHANGED <<bindings, gwVars, xVars, restarts>>

FetchPositions(t) ==
    /\ At(t, "positionsAfter")
    /\ task' = [task EXCEPT ![t] = [@ EXCEPT !.obs.pos = pos[Role[Req(t)]],
                    !.pc = IF task[t].why = "reconcile" THEN "apply" ELSE "handle"]]
    /\ UNCHANGED <<bindings, gwVars, xVars, restarts>>

(* A read raises: a failed reconciliation halts the binding it started on. *)
RefreshFails(t) ==
    /\ ReadsMayFail
    /\ \E p \in Fetching : At(t, p)
    /\ CASE task[t].why = "reserve" -> Goto(t, "reject")
         [] task[t].why = "ack" -> Goto(t, "raise")
         [] OTHER -> TryCas(t, Move(task[t].seen, "HALTED"), "raise", "raise")
    /\ UNCHANGED <<bindings, gwVars, xVars, restarts>>

(* _handle_cas_snapshot up to _ensure_reconciliation_required.             *)
HandleConflict(t) ==
    /\ At(t, "handle")
    /\ LET r == Req(t)
           f == task[t]
           exists == ProvesExists(f.seen.snap, f.obs, r)
           ambiguous == Ambiguous(f.seen.snap, f.obs, r)
           retry == /\ ~exists /\ ~ambiguous
                    /\ f.seen.state \in Free /\ ProvesAbsent(f.seen.snap, f.obs, r)
           next == IF exists THEN "apply" ELSE IF ambiguous THEN "haltAmbiguous" ELSE "handled"
       IN  IF retry
           THEN task' = [task EXCEPT ![t] =
                  IF f.why = "reserve"
                  THEN [Idle EXCEPT !.pc = "validate", !.req = r, !.retry = TRUE,
                                    !.dirty = f.dirty, !.prior = f.prior]
                  ELSE [f EXCEPT !.pc = "handled"]]
           ELSE IF Bound(t).state \in Free \cup Pending
           THEN TryCas(t, EnsureInDoubt(Bound(t), r), next, "raise")
           ELSE Goto(t, next)
    /\ UNCHANGED <<bindings, gwVars, xVars, restarts>>

(* _apply_reconciliation_snapshot.  A conflict handler judges by the       *)
(* position snapshot of the current binding, reconcile_binding by the one  *)
(* it read.                                                                *)
ApplyVerdict(t) ==
    /\ At(t, "apply")
    /\ LET b == Bound(t)
           snap == IF task[t].why = "reconcile" THEN task[t].seen.snap ELSE b.snap
       IN  IF b.state = "RECONCILIATION_REQUIRED"
           THEN TryCas(t, Verdict(b, snap, task[t].obs, Req(t)), "handled", "raise")
           ELSE \/ Goto(t, "raise")
                \/ task[t].why # "reconcile" /\ Goto(t, "handled")
    /\ UNCHANGED <<bindings, gwVars, xVars, restarts>>

HaltAmbiguous(t) ==
    /\ At(t, "haltAmbiguous")
    /\ IF Bound(t).state = "RECONCILIATION_REQUIRED"
       THEN TryCas(t, Move(Bound(t), "HALTED"), "handled", "raise")
       ELSE Goto(t, "handled")
    /\ UNCHANGED <<bindings, gwVars, xVars, restarts>>

(* Back in the caller of the handler.                                      *)
Handled(t) ==
    /\ At(t, "handled")
    /\ Goto(t, CASE task[t].why = "reserve" -> "reject"
                 [] /\ task[t].why = "ack"
                    /\ Bound(t).state \in {"FIRST_LEG_ACCEPTED", "COMPLETED"} -> "accept"
                 [] OTHER -> "raise")
    /\ UNCHANGED <<bindings, gwVars, xVars, restarts>>

-----------------------------------------------------------------------------
(* Operator calls on a gateway, outside the placement lock.                *)

(* Touching r's order dates it after the calls that are already under way. *)
Touch(r, how) ==
    [t \in Tasks |-> IF task[t].pc # "idle" /\ task[t].req = r /\ task[t].dirty # "created"
                     THEN [task[t] EXCEPT !.dirty = how] ELSE task[t]]

MutHaltBinding(s) ==  \* mutant: any binding can be halted
    /\ "halt" \in Operator
    /\ bindings[s].state \notin {"UNBOUND", "HALTED"}
    /\ \A t \in Tasks : task[t].pc \notin Sync
    /\ bindings' = [bindings EXCEPT ![s] = Move(@, "HALTED")]
    /\ UNCHANGED <<gwVars, task, xVars, restarts>>

(* halt_binding: one synchronous read and compare-and-set.                 *)
HaltBinding(s) ==
    /\ "halt" \in Operator
    /\ bindings[s].state \in {"HEDGING_REQUIRED", "RECONCILIATION_REQUIRED"}
    /\ \A t \in Tasks : task[t].pc \notin Sync
    /\ bindings' = [bindings EXCEPT ![s] = Move(@, "HALTED")]
    /\ UNCHANGED <<gwVars, task, xVars, restarts>>

(* activate_kill_switch: the flag is set, then cancel_all_orders awaited.  *)
ActivateKillSwitch(g) ==
    /\ "kill" \in Operator
    /\ kill[g] = "off"
    /\ \A t \in Tasks : Home[t] = g => task[t].pc \notin Sync
    /\ kill' = [kill EXCEPT ![g] = "canceling"]
    /\ UNCHANGED <<bindings, receipts, lock, lateKill, task, xVars, restarts>>

(* The exchange cancels what is open now; on an exception, nothing.        *)
CancelAll(g) ==
    /\ kill[g] = "canceling"
    /\ kill' = [kill EXCEPT ![g] = "on"]
    /\ \/ /\ xorder' = [r \in Requests |-> IF xorder[r] = "open" THEN "canceled" ELSE xorder[r]]
          /\ task' = [t \in Tasks |-> IF task[t].req \in OpenOrders
                                       THEN Touch(task[t].req, "updated")[t] ELSE task[t]]
       \/ UNCHANGED <<xorder, task>>
    /\ UNCHANGED <<bindings, receipts, lock, lateKill, xcount, late, pos, stranded, restarts>>

CancelOrder(r) ==
    /\ "cancel" \in Operator
    /\ xorder[r] = "open"
    /\ xorder' = [xorder EXCEPT ![r] = "canceled"]
    /\ task' = Touch(r, "updated")
    /\ UNCHANGED <<bindings, gwVars, xcount, late, pos, stranded, restarts>>

(* close_position: the venue flattens one leg.                             *)
ClosePosition(l) ==
    /\ "close" \in Operator
    /\ pos[l] # 0
    /\ pos' = [pos EXCEPT ![l] = 0]
    /\ UNCHANGED <<bindings, gwVars, task, xorder, xcount, late, stranded, restarts>>

(* A gateway process restarts: only the bindings and the exchange survive, *)
(* and what is on the wire may still arrive.                               *)
Restart(g) ==
    /\ restarts < MaxRestarts
    /\ restarts' = restarts + 1
    /\ task' = [t \in Tasks |-> IF Home[t] = g THEN Idle ELSE task[t]]
    /\ lock' = [lock EXCEPT ![g] = None]
    /\ receipts' = [receipts EXCEPT ![g] = [k \in Keys |-> None]]
    /\ kill' = [kill EXCEPT ![g] = "off"]
    /\ lateKill' = [lateKill EXCEPT ![g] = 0]
    /\ late' = IF LateDelivery
               THEN late \cup {Req(t) : t \in {u \in Tasks : Home[u] = g /\ task[u].sub = "sent"}}
               ELSE late
    /\ UNCHANGED <<bindings, xorder, xcount, pos, stranded>>

-----------------------------------------------------------------------------
(* The exchange (external).                                                *)
Opened(r) ==
    /\ xorder' = [xorder EXCEPT ![r] = "open"]
    /\ xcount' = [xcount EXCEPT ![r] = @ + 1]

ExchangeAccepts(t) ==
    /\ task[t].pc = "inflight" /\ task[t].sub = "sent"
    /\ Opened(Req(t))
    /\ task' = [Touch(Req(t), "created") EXCEPT ![t].sub = "accepted"]
    /\ UNCHANGED <<bindings, gwVars, late, pos, stranded, restarts>>

ExchangeRejects(t) ==
    /\ task[t].pc = "inflight" /\ task[t].sub = "sent"
    /\ task' = [task EXCEPT ![t].sub = "rejected"]
    /\ UNCHANGED <<bindings, gwVars, xVars, restarts>>

ArrivesLate(r) ==
    /\ r \in late
    /\ late' = late \ {r}
    /\ Opened(r)
    /\ task' = Touch(r, "created")
    /\ UNCHANGED <<bindings, gwVars, pos, stranded, restarts>>

Fill(r) ==
    /\ xorder[r] = "open"
    /\ xorder' = [xorder EXCEPT ![r] = "filled"]
    /\ pos' = [pos EXCEPT ![Role[r]] = @ + Sign[r]]
    /\ task' = Touch(r, "updated")
    /\ UNCHANGED <<bindings, gwVars, xcount, late, stranded, restarts>>

-----------------------------------------------------------------------------
TaskStep(t) ==
    \/ Cas(t) \/ Validate(t) \/ Reserve(t) \/ CheckOpenOrders(t) \/ RecordPosition(t)
    \/ Abort(t) \/ Send(t) \/ Respond(t) \/ SubmitFails(t) \/ Return(t)
    \/ StartRefresh(t) \/ FetchFills(t) \/ LookupOrder(t) \/ FetchOpenOrders(t)
    \/ FetchPositions(t) \/ RefreshFails(t) \/ HandleConflict(t) \/ ApplyVerdict(t)
    \/ HaltAmbiguous(t) \/ Handled(t)

Calls ==
    \/ \E t \in PlaceTasks, r \in Requests : PlaceStart(t, r)
    \/ \E t \in ReconcileTasks, r \in Requests : ReconcileStart(t, r)

OperatorStep ==
    \/ \E s \in Signals : HaltBinding(s)
    \/ \E g \in Gateways : ActivateKillSwitch(g) \/ CancelAll(g) \/ Restart(g)
    \/ \E r \in Requests : CancelOrder(r)
    \/ \E l \in Roles : ClosePosition(l)

ExchangeStep ==
    \/ \E t \in PlaceTasks : ExchangeAccepts(t) \/ ExchangeRejects(t)
    \/ \E r \in Requests : Fill(r) \/ ArrivesLate(r)

Next == Calls \/ (\E t \in Tasks : TaskStep(t)) \/ OperatorStep \/ ExchangeStep

Spec == Init /\ [][Next]_vars

(* Every await returns or raises, every event loop runs.                   *)
Fairness == \A t \in Tasks : WF_vars(TaskStep(t))

FairSpec == Spec /\ Fairness

-----------------------------------------------------------------------------
(* Write-ahead: while an order is on its way to the exchange, the durable  *)
(* binding says so, for the right leg - whatever reconciliations, halts    *)
(* and other placements do meanwhile.                                      *)
WriteAhead ==
    \A t \in Tasks : task[t].pc \in {"send", "inflight"} =>
        \/ Bound(t).state = "RESERVED"
        \/ Bound(t).state = "SECOND_LEG_SUBMITTED" /\ Bound(t).second = Req(t)

(* A binding never claims a leg the exchange did not accept: an accepted   *)
(* first leg was really placed, on the leg it names, and a completed       *)
(* binding has both.                                                       *)
BindingTruthful ==
    \A s \in Signals : LET b == bindings[s] IN
        /\ b.state \in {"FIRST_LEG_ACCEPTED", "SECOND_LEG_SUBMITTED", "HEDGING_REQUIRED", "COMPLETED"}
              => b.first # None /\ xcount[b.first] > 0 /\ b.role = Role[b.first]
        /\ b.state = "COMPLETED" => b.second # None /\ xcount[b.second] > 0

(* One gateway drives every binding through its promised life cycle.       *)
Lifecycle == INSTANCE BindingLifecycle WITH
    state <- [s \in Signals |-> bindings[s].state],
    version <- [s \in Signals |-> bindings[s].version]

FollowsLifecycle == Lifecycle!Spec

(* A placement that was past validation when the kill switch was set may   *)
(* still be sent, but at most that one: the next one sees the switch.      *)
KillRaceBounded == \A g \in Gateways : lateKill[g] <= 1

(* The exchange is never given a request whose earlier order is still      *)
(* live or was filled, whatever mixture of receipts, timeouts, aborts and  *)
(* reconciliations came before, with two exceptions: a restart loses the   *)
(* receipts, and the abort of a second leg frees the binding of a first    *)
(* leg that was reconciled and so has no receipt                           *)
(* (_place_order_locked, _reserve_preflight, _abort_preflight).            *)
NoDuplicateExposure ==
    [][restarts = 0 => \A r \in Requests :
            xcount'[r] > xcount[r] => xorder[r] \in {"none", "canceled"} \/ r \in stranded]_vars

(* Without a restart no signal is left pending: every reservation is       *)
(* resolved, aborted or handed to reconciliation.                          *)
ReservationResolves ==
    \A s \in Signals : bindings[s].state \in Pending ~> bindings[s].state \notin Pending

=============================================================================
