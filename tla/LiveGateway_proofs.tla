--------------------------- MODULE LiveGateway_proofs ---------------------------
(***************************************************************************)
(* The gateway's safety, for every value of the constants.                 *)
(*                                                                         *)
(* First, for any number of gateways: the placement lock admits one        *)
(* placement per gateway, so that at most one order is sent after the kill *)
(* switch is set (KInv).                                                   *)
(*                                                                         *)
(* Then, for one gateway: what each compare-and-set is about to write is   *)
(* legal for the binding as it stands.  A placement prepares its writes    *)
(* from the binding it holds reserved and nobody else writes that one; a   *)
(* reconciliation may be late, but then the version has moved on (BInv).   *)
(* With a second gateway neither half holds: its conflict handlers         *)
(* rewrite reservations they do not own.                                   *)
(*                                                                         *)
(* Last, until the first restart: every order that is live at the exchange *)
(* is stood for by a receipt, by its binding or by the placement that      *)
(* carries its answer, so that nothing is sent twice (DInv).               *)
(***************************************************************************)
EXTENDS LiveGateway, TLAPS

(* The states of LivePreflightState.                                       *)
States == Free \cup Pending \cup
          {"FIRST_LEG_ACCEPTED", "HEDGING_REQUIRED", "RECONCILIATION_REQUIRED", "COMPLETED",
           "HALTED"}

(* The venue snapshots a binding may carry, and the bindings.              *)
Snapshots == [role : Roles, before : Int, prior : SUBSET Requests]

Bindings ==
    [state : States, hash : Hashes \cup {None}, role : Roles \cup {None},
     first : Requests \cup {None}, second : Requests \cup {None},
     snap : Snapshots \cup {None}, version : Nat]

(* The life of an order at the venue, and what a reconciliation reads of   *)
(* it.                                                                     *)
OrderStates == {"none", "open", "filled", "canceled"}

Observations ==
    [fills : BOOLEAN, client : OrderStates \cup {"pending"}, clean : BOOLEAN,
     opens : BOOLEAN, pos : Int]

(* What the receipt table holds for a key.                                 *)
Submissions == {"none", "sent", "accepted", "rejected"}

(* Where a task may stand, and the fields of its frame.                    *)
Pcs == Sync \cup Fetching \cup {"idle", "health", "open", "positions", "inflight"}

OnSuccess == {"open", "send", "abort", "reject", "raise", "accept", "apply", "haltAmbiguous",
              "handled"}
OnConflict == {"conflict", "abortAgain", "raise", "ackConflict"}
Reasons == {None, "reserve", "ack", "reconcile"}
Touched == {"no", "updated", "created"}

Frames ==
    [pc : Pcs, req : Requests \cup {None}, retry : BOOLEAN, new : Bindings,
     ok : OnSuccess \cup {"idle"}, fail : OnConflict \cup {"idle"}, why : Reasons,
     seen : Bindings, obs : Observations, dirty : Touched, prior : SUBSET Requests,
     sub : Submissions]

(* The type of every variable.                                             *)
TypeOK ==
    /\ bindings \in [Signals -> Bindings]
    /\ receipts \in [Gateways -> [Keys -> Submissions \cup {None}]]
    /\ lock \in [Gateways -> Tasks \cup {None}]
    /\ kill \in [Gateways -> {"off", "canceling", "on"}]
    /\ task \in [Tasks -> Frames]
    /\ xorder \in [Requests -> OrderStates]
    /\ xcount \in [Requests -> Nat]
    /\ late \subseteq Requests
    /\ pos \in [Roles -> Int]
    /\ lateKill \in [Gateways -> Nat]
    /\ restarts \in Nat

(* A placement that is under way holds the placement lock of its gateway.  *)
Locked ==
    \A t \in PlaceTasks : task[t].pc # "idle" => lock[Home[t]] = t

(* A frame that can still reach Send without validating again. *)
Armed(f) == \/ f.pc \in {"health", "open", "positions", "send"}
            \/ f.pc = "cas" /\ f.ok \in {"open", "send"}

(* A reconciliation never reaches the steps that submit an order.          *)
Reconciling(f) ==
    /\ f.pc \in {"idle", "apply", "cas", "handled", "raise"} \cup Fetching
    /\ f.pc # "idle" => f.why = "reconcile"
    /\ f.pc = "cas" => f.ok \in {"handled", "raise"} /\ f.fail = "raise"

(* A task in a call, or with a submission pending, has a request.          *)
FrameOK(t, f) ==
    /\ f.pc # "idle" \/ f.sub # "none" => f.req \in Requests
    /\ t \in ReconcileTasks => Reconciling(f)

(* Once an order has gone out after the kill switch, every placement that  *)
(* can still send without validating again is reduce-only.                 *)
Spent ==
    \A g \in Gateways :
        /\ lateKill[g] <= 1
        /\ kill[g] = "off" => lateKill[g] = 0
        /\ lateKill[g] = 1 => \A t \in Tasks : Home[t] = g /\ Armed(task[t])
                                => ReduceOnly[task[t].req]

(* Every frame is well formed.                                             *)
Framed == \A t \in Tasks : FrameOK(t, task[t])

(* The inductive invariant behind KillRace.                                *)
KInv == TypeOK /\ Locked /\ Framed /\ Spent

-----------------------------------------------------------------------------
(* A signal nobody has bound yet is well-formed.                           *)
LEMMA UnboundType == Unbound \in Bindings
BY DEF Unbound, Bindings, States, Free

(* So is the frame of a task that is not in a call.                        *)
LEMMA IdleType == Idle \in Frames
<1>1. NoObs \in Observations
  BY DEF NoObs, Observations, OrderStates
<1> QED
  BY <1>1, UnboundType DEF Idle, Frames, Pcs, Reasons, Touched, Submissions

(* A state and a version can be replaced independently of the other        *)
(* fields.                                                                 *)
LEMMA BindingWith ==
    ASSUME NEW b \in Bindings, NEW s \in States, NEW v \in Nat
    PROVE  [b EXCEPT !.state = s, !.version = v] \in Bindings
BY DEF Bindings

(* Move changes the state and counts the write, and nothing else.          *)
LEMMA MoveType ==
    ASSUME NEW b \in Bindings, NEW s \in States
    PROVE  /\ Move(b, s) \in Bindings
           /\ Move(b, s).state = s /\ Move(b, s).version = b.version + 1
           /\ Move(b, s).role = b.role /\ Move(b, s).first = b.first
           /\ Move(b, s).second = b.second
<1>1. b.version + 1 \in Nat
  BY DEF Bindings
<1>2. Move(b, s) \in Bindings
  BY <1>1, BindingWith DEF Move
<1> QED
  BY <1>2 DEF Move, Bindings

(* new_binding forgets the legs of the previous life of the signal.        *)
LEMMA FreshType ==
    ASSUME NEW b \in Bindings, NEW r \in Requests, NEW s \in States
    PROVE  /\ Fresh(b, r, s) \in Bindings
           /\ Fresh(b, r, s).state = s /\ Fresh(b, r, s).version = b.version + 1
           /\ Fresh(b, r, s).second = None
<1>1. b.version + 1 \in Nat /\ Hash[r] \in Hashes
  BY DEF Bindings, Hashes
<1>2. \A v \in Nat, h \in Hashes : [Unbound EXCEPT !.state = s, !.hash = h, !.version = v] \in Bindings
  BY UnboundType DEF Bindings
<1>3. Fresh(b, r, s) \in Bindings
  BY <1>1, <1>2 DEF Fresh
<1>4. Unbound.second = None
  BY DEF Unbound
<1> QED
  BY <1>3, <1>4, UnboundType DEF Fresh, Bindings

(* _reserve_preflight opens a new life or adds the second leg to the       *)
(* present one.                                                            *)
LEMMA ReservedType ==
    ASSUME NEW b \in Bindings, NEW r \in Requests
    PROVE  LET n == Reserved(b, r) IN
           /\ n \in Bindings /\ n.version = b.version + 1
           /\ b.state \in Free => n.state = "RESERVED" /\ n.second = None
           /\ b.state \notin Free =>
                /\ n.state = "SECOND_LEG_SUBMITTED" /\ n.second = r
                /\ n.first = b.first /\ n.role = b.role
<1>1. "RESERVED" \in States /\ "SECOND_LEG_SUBMITTED" \in States
  BY DEF States, Pending
<1>2. CASE b.state \in Free
  BY <1>1, <1>2, FreshType DEF Reserved
<1>3. CASE b.state \notin Free
  <2> DEFINE m == Move(b, "SECOND_LEG_SUBMITTED")
  <2>1. /\ m \in Bindings /\ m.state = "SECOND_LEG_SUBMITTED" /\ m.version = b.version + 1
        /\ m.first = b.first /\ m.role = b.role
    BY <1>1, MoveType
  <2>2. Reserved(b, r) = [m EXCEPT !.second = r]
    BY <1>3 DEF Reserved
  <2> HIDE DEF m
  <2> QED
    BY <1>3, <2>1, <2>2 DEF Bindings
<1> QED
  BY <1>2, <1>3

(* Recording an accepted first leg names the leg and its request.          *)
LEMMA FirstLegType ==
    ASSUME NEW b \in Bindings, NEW r \in Requests
    PROVE  LET n == [Move(b, "FIRST_LEG_ACCEPTED") EXCEPT !.role = Role[r], !.first = r] IN
           /\ n \in Bindings /\ n.version = b.version + 1
           /\ n.state = "FIRST_LEG_ACCEPTED" /\ n.role = Role[r] /\ n.first = r
<1> DEFINE m == Move(b, "FIRST_LEG_ACCEPTED")
<1>1. m \in Bindings /\ m.state = "FIRST_LEG_ACCEPTED" /\ m.version = b.version + 1
  BY MoveType DEF States
<1>2. Role[r] \in Roles
  BY ConstantsAssumption
<1> HIDE DEF m
<1>3. LET n == [m EXCEPT !.role = Role[r], !.first = r] IN
      /\ n \in Bindings /\ n.version = b.version + 1
      /\ n.state = "FIRST_LEG_ACCEPTED" /\ n.role = Role[r] /\ n.first = r
  BY <1>1, <1>2 DEF Bindings
<1> QED
  BY <1>3 DEF m

(* _record_preflight_ack returns a well-formed binding.                    *)
LEMMA AckedType ==
    ASSUME NEW b \in Bindings, NEW r \in Requests, NEW a \in BOOLEAN
    PROVE  Acked(b, r, a) \in Bindings
<1>1. \A s \in {"COMPLETED", "HEDGING_REQUIRED", "ABORTED"} : Move(b, s) \in Bindings
  BY MoveType DEF States, Free
<1> QED
  BY <1>1, FirstLegType DEF Acked

(* _mark_reconciliation_required keeps the request in doubt in the leg it  *)
(* belongs to.                                                             *)
LEMMA InDoubtType ==
    ASSUME NEW b \in Bindings, NEW r \in Requests
    PROVE  LET n == InDoubt(b, r) IN
           /\ n \in Bindings /\ n.version = b.version + 1
           /\ n.state = "RECONCILIATION_REQUIRED"
           /\ b.state = "RESERVED" => n.first = r /\ n.second = b.second
           /\ b.state # "RESERVED" => n.second = r /\ n.first = b.first /\ n.role = b.role
<1> DEFINE m == Move(b, "RECONCILIATION_REQUIRED")
<1>1. /\ m \in Bindings /\ m.state = "RECONCILIATION_REQUIRED" /\ m.version = b.version + 1
      /\ m.role = b.role /\ m.first = b.first /\ m.second = b.second
  BY MoveType DEF States
<1>2. InDoubt(b, r) = IF b.state = "RESERVED" THEN [m EXCEPT !.first = r] ELSE [m EXCEPT !.second = r]
  BY DEF InDoubt
<1> HIDE DEF m
<1> QED
  BY <1>1, <1>2 DEF Bindings

(* _ensure_reconciliation_required returns a well-formed binding.          *)
LEMMA EnsureInDoubtType ==
    ASSUME NEW b \in Bindings, NEW r \in Requests
    PROVE  EnsureInDoubt(b, r) \in Bindings
<1>1. Fresh(b, r, "RECONCILIATION_REQUIRED") \in Bindings
  BY FreshType DEF States
<1>2. [Fresh(b, r, "RECONCILIATION_REQUIRED") EXCEPT !.first = r, !.snap = b.snap] \in Bindings
  BY <1>1 DEF Bindings
<1> QED
  BY <1>2, InDoubtType DEF EnsureInDoubt

(* _apply_reconciliation_snapshot returns a well-formed binding.           *)
LEMMA VerdictType ==
    ASSUME NEW b \in Bindings, NEW r \in Requests, NEW snap, NEW obs
    PROVE  Verdict(b, snap, obs, r) \in Bindings
<1>1. \A s \in {"COMPLETED", "HEDGING_REQUIRED", "ABORTED", "HALTED"} : Move(b, s) \in Bindings
  BY MoveType DEF States, Free
<1> QED
  BY <1>1, FirstLegType DEF Verdict

-----------------------------------------------------------------------------
(* The points of a placement between validation and submission.            *)
Validated == {"health", "open", "positions", "send"}

(* A step of task t to frame f that arms no placement behind the kill      *)
(* switch.                                                                 *)
Follows(t, f) ==
    /\ f \in Frames /\ FrameOK(t, f)
    /\ task' = [task EXCEPT ![t] = f]
    /\ Armed(f) => /\ f.req = task[t].req
                   /\ Armed(task[t]) \/ ReduceOnly[f.req] \/ kill[Home[t]] = "off"

(* A move within place_order or reconcile_binding: only validation makes a *)
(* frame armed.                                                            *)
LEMMA GotoFollows ==
    ASSUME KInv, NEW t \in Tasks, task[t].pc # "idle", NEW p \in Pcs, p # "cas",
           t \in ReconcileTasks => p \in {"apply", "handled", "raise"} \cup Fetching,
           p \in Validated => Armed(task[t]) \/ ReduceOnly[Req(t)] \/ kill[Home[t]] = "off",
           Goto(t, p)
    PROVE  \E f : Follows(t, f)
<1> DEFINE f == [task[t] EXCEPT !.pc = p]
<1>1. task[t] \in Frames /\ FrameOK(t, task[t]) /\ task' = [task EXCEPT ![t] = f]
  BY DEF KInv, TypeOK, Framed, Goto
<1>2. /\ f \in Frames /\ f.pc = p /\ f.req = task[t].req /\ f.why = task[t].why
  BY <1>1 DEF Frames, Pcs
<1> HIDE DEF f
<1>3. FrameOK(t, f)
  <2>1. f.req \in Requests
    BY <1>1, <1>2 DEF FrameOK
  <2>2. ASSUME t \in ReconcileTasks PROVE Reconciling(f)
    <3>1. f.why = "reconcile"
      BY <1>1, <1>2, <2>2 DEF FrameOK, Reconciling
    <3> QED
      BY <1>2, <2>2, <3>1 DEF Reconciling
  <2> QED
    BY <2>1, <2>2 DEF FrameOK
<1>4. Armed(f) => p \in Validated
  BY <1>2 DEF Armed, Validated
<1> QED
  BY <1>1, <1>2, <1>3, <1>4 DEF Follows, Req

(* A frame about to compare and set, and one that has. *)
Casing(f, p, b, ok, fail) == [f EXCEPT !.pc = p, !.new = b, !.ok = ok, !.fail = fail]

(* Preparing or finishing a compare-and-set leaves the call's request and  *)
(* evidence alone.                                                         *)
LEMMA CasingType ==
    ASSUME NEW f \in Frames, NEW p \in Pcs, NEW b \in Bindings,
           NEW ok \in OnSuccess \cup {"idle"}, NEW fail \in OnConflict \cup {"idle"}
    PROVE  LET n == Casing(f, p, b, ok, fail) IN
           /\ n \in Frames
           /\ n.pc = p /\ n.new = b /\ n.ok = ok /\ n.fail = fail
           /\ n.req = f.req /\ n.why = f.why /\ n.seen = f.seen /\ n.obs = f.obs /\ n.sub = f.sub
BY DEF Frames, Casing

(* Preparing a compare-and-set arms nobody.                                *)
LEMMA TryCasFollows ==
    ASSUME KInv, NEW t \in Tasks, task[t].pc # "idle", NEW b \in Bindings,
           NEW ok \in OnSuccess, NEW fail \in OnConflict,
           t \in ReconcileTasks => ok \in {"handled", "raise"} /\ fail = "raise",
           ok \in {"open", "send"} => Armed(task[t]),
           TryCas(t, b, ok, fail)
    PROVE  \E f : Follows(t, f)
<1> DEFINE f == Casing(task[t], "cas", b, ok, fail)
<1>1. task[t] \in Frames /\ FrameOK(t, task[t]) /\ task' = [task EXCEPT ![t] = f]
  BY DEF KInv, TypeOK, Framed, TryCas, Casing
<1>2. "cas" \in Pcs
  BY DEF Pcs, Sync
<1>3. /\ f \in Frames /\ f.pc = "cas" /\ f.req = task[t].req /\ f.why = task[t].why
      /\ f.ok = ok /\ f.fail = fail
  BY <1>1, <1>2, CasingType
<1> HIDE DEF f
<1>4. FrameOK(t, f)
  BY <1>1, <1>3 DEF FrameOK, Reconciling
<1>5. Armed(f) => ok \in {"open", "send"}
  BY <1>3 DEF Armed
<1> QED
  BY <1>1, <1>3, <1>4, <1>5 DEF Follows

(* A task that moves on keeps the lock, and cannot be armed once the order *)
(* sent late is spent.                                                     *)
LEMMA FollowsKeeps ==
    ASSUME KInv, NEW t \in Tasks, task[t].pc # "idle", NEW f, Follows(t, f),
           UNCHANGED <<lock, kill, lateKill>>
    PROVE  task' \in [Tasks -> Frames] /\ Locked' /\ Framed' /\ Spent'
<1>1. /\ task' \in [Tasks -> Frames] /\ task'[t] = f
      /\ \A u \in Tasks \ {t} : task'[u] = task[u]
  BY DEF Follows, KInv, TypeOK
<1>2. Locked'
  <2> SUFFICES ASSUME NEW u \in PlaceTasks, task'[u].pc # "idle" PROVE lock[Home[u]] = u
    BY DEF Locked
  <2>1. u \in Tasks /\ task[u].pc # "idle"
    BY <1>1 DEF Tasks
  <2> QED
    BY <2>1 DEF KInv, Locked
<1>3. Framed'
  BY <1>1 DEF Follows, KInv, Framed
<1>4. Spent'
  <2> SUFFICES ASSUME NEW g \in Gateways, lateKill[g] = 1, NEW u \in Tasks, Home[u] = g,
                      Armed(task'[u])
               PROVE  ReduceOnly[task'[u].req]
    BY DEF Spent, KInv
  <2>1. CASE u # t
    BY <1>1, <2>1 DEF KInv, Spent
  <2>2. CASE u = t
    <3>1. kill[g] # "off"
      BY DEF KInv, Spent
    <3> QED
      BY <1>1, <2>2, <3>1 DEF Follows, KInv, Spent
  <2> QED
    BY <2>1, <2>2
<1> QED
  BY <1>1, <1>2, <1>3, <1>4

(* A step of a task that leaves the gateway and the exchange alone.        *)
LEMMA QuietKeeps ==
    ASSUME KInv, NEW t \in Tasks, task[t].pc # "idle", \E f : Follows(t, f),
           bindings' \in [Signals -> Bindings], late' \subseteq Requests,
           UNCHANGED <<gwVars, xorder, xcount, pos, restarts>>
    PROVE  KInv'
<1>1. PICK f : Follows(t, f)
  OBVIOUS
<1>2. UNCHANGED <<lock, kill, lateKill>>
  BY DEF gwVars
<1>3. task' \in [Tasks -> Frames] /\ Locked' /\ Framed' /\ Spent'
  BY <1>1, <1>2, FollowsKeeps
<1>4. TypeOK'
  BY <1>3 DEF KInv, TypeOK, gwVars
<1> QED
  BY <1>3, <1>4 DEF KInv

(* A task in a call has a request, and its signal a binding.               *)
LEMMA BoundType ==
    ASSUME KInv, NEW t \in Tasks, task[t].pc # "idle"
    PROVE  Req(t) \in Requests /\ SignalOf[Req(t)] \in Signals /\ Bound(t) \in Bindings
<1>1. Req(t) \in Requests
  BY DEF KInv, Framed, FrameOK, Req
<1>2. SignalOf[Req(t)] \in Signals
  BY <1>1, ConstantsAssumption
<1> QED
  BY <1>1, <1>2 DEF KInv, TypeOK, Bound

(* compare_and_set sends the caller where it said it would go.             *)
LEMMA CasKeeps == ASSUME KInv, NEW t \in Tasks, Cas(t) PROVE KInv'
<1> DEFINE s == SignalOf[Req(t)]
           swapped == bindings[s].version + 1 = task[t].new.version
           p == IF swapped THEN task[t].ok ELSE task[t].fail
           f == Casing(task[t], p, Unbound, "idle", "idle")
<1>1. task[t].pc = "cas" /\ task[t] \in Frames /\ FrameOK(t, task[t])
  BY DEF Cas, At, KInv, TypeOK, Framed
<1>2. s \in Signals /\ task[t].new \in Bindings
  BY <1>1, BoundType DEF Frames
<1>3. bindings' \in [Signals -> Bindings]
  BY <1>2 DEF Cas, KInv, TypeOK
<1>4. task' = [task EXCEPT ![t] = f]
  BY DEF Cas, Casing
<1>5. task[t].ok \in OnSuccess \cup {"idle"} /\ task[t].fail \in OnConflict \cup {"idle"}
  BY <1>1 DEF Frames
<1>6. f \in Frames /\ f.pc \in {task[t].ok, task[t].fail} /\ f.req = task[t].req
      /\ f.why = task[t].why
  <2>1. p \in Pcs /\ p \in {task[t].ok, task[t].fail}
    BY <1>5 DEF OnSuccess, OnConflict, Pcs, Sync
  <2>2. "idle" \in OnSuccess \cup {"idle"} /\ "idle" \in OnConflict \cup {"idle"}
    OBVIOUS
  <2> HIDE DEF p
  <2>3. f \in Frames /\ f.pc = p /\ f.req = task[t].req /\ f.why = task[t].why
    BY <1>1, <2>1, <2>2, UnboundType, CasingType
  <2> QED
    BY <2>1, <2>3
<1> HIDE DEF f
<1>7. FrameOK(t, f)
  BY <1>1, <1>6 DEF FrameOK, Reconciling
<1>8. Armed(f) => Armed(task[t])
  BY <1>1, <1>5, <1>6 DEF Armed, OnSuccess, OnConflict
<1>9. Follows(t, f)
  BY <1>4, <1>6, <1>7, <1>8 DEF Follows
<1> QED
  BY <1>1, <1>3, <1>9, QuietKeeps DEF Cas, xVars, KInv, TypeOK

(* Program points, as the sets above hold them.                            *)
LEMMA Names ==
    /\ \A p \in {"health", "positions", "send", "cas", "inflight", "validate"} : p \in Pcs
    /\ \A p \in {"health", "positions"} : p \in Pcs \ {"cas"}
    /\ \A p \in {"fills", "lookup", "opens", "positionsAfter", "handle", "apply"} : p \in Pcs
    /\ \A p \in {"reject", "raise", "abort", "abortAgain", "accept", "apply", "handled", "haltAmbiguous"} :
          p \in Pcs \ {"cas"} /\ p \notin Validated
    /\ \A p \in {"open", "send", "abort", "reject", "raise", "accept", "apply", "haltAmbiguous",
                  "handled"} : p \in OnSuccess
    /\ \A p \in {"conflict", "abortAgain", "raise", "ackConflict"} : p \in OnConflict
BY DEF Pcs, Sync, Fetching, Validated, OnSuccess, OnConflict

(* The steps of place_order under the lock.                                *)
LEMMA PlacementKeeps ==
    ASSUME KInv, NEW t \in Tasks, Validate(t) \/ Reserve(t) \/ CheckOpenOrders(t) \/ RecordPosition(t)
                                 \/ Abort(t) \/ Respond(t) \/ SubmitFails(t)
    PROVE  KInv'
<1> DEFINE Outcomes == \E f : Follows(t, f)
<1> HIDE DEF Outcomes
<1>0. /\ task[t].pc # "idle" /\ bindings' = bindings /\ late' \subseteq Requests
      /\ UNCHANGED <<gwVars, xorder, xcount, pos, restarts>>
      /\ t \notin ReconcileTasks
  <2>1. task[t].pc \in {"validate", "health", "open", "positions", "abort", "abortAgain", "inflight"}
    BY DEF Validate, Reserve, CheckOpenOrders, RecordPosition, Abort, Respond, SubmitFails, At
  <2>2. t \notin ReconcileTasks
    BY <2>1 DEF KInv, Framed, FrameOK, Reconciling, Fetching
  <2>3. Req(t) \in Requests
    BY <2>1, BoundType
  <2>4. bindings' = bindings /\ UNCHANGED <<gwVars, xorder, xcount, pos, restarts>>
    BY DEF Validate, Reserve, CheckOpenOrders, RecordPosition, Abort, Respond, SubmitFails, xVars
  <2>5. late' \subseteq Requests
    BY <2>3 DEF Validate, Reserve, CheckOpenOrders, RecordPosition, Abort, Respond, SubmitFails,
                xVars, KInv, TypeOK
  <2> QED
    BY <2>1, <2>2, <2>4, <2>5
<1>s. SUFFICES Outcomes
  <2>1. bindings' \in [Signals -> Bindings]
    BY <1>0 DEF KInv, TypeOK
  <2> QED
    BY <1>0, <2>1, QuietKeeps DEF Outcomes
<1>r. Req(t) \in Requests /\ Bound(t) \in Bindings
  BY <1>0, BoundType
<1>g. ASSUME NEW p \in Pcs \ {"cas"}, Goto(t, p),
             p \in Validated => Armed(task[t]) \/ ReduceOnly[Req(t)] \/ kill[Home[t]] = "off"
      PROVE  Outcomes
  BY <1>0, <1>g, GotoFollows DEF Outcomes
<1>c. ASSUME NEW b \in Bindings, NEW ok \in OnSuccess, NEW fail \in OnConflict,
             TryCas(t, b, ok, fail), ok \in {"open", "send"} => Armed(task[t])
      PROVE  Outcomes
  BY <1>0, <1>c, TryCasFollows DEF Outcomes
<1>1. CASE Validate(t)
  <2>1. CASE ~MustReject(t) /\ Goto(t, "health")
    <3>1. ReduceOnly[Req(t)] \/ kill[Home[t]] = "off"
      BY <2>1 DEF MustReject
    <3> QED
      BY <2>1, <3>1, <1>g, Names
  <2>2. CASE Goto(t, "reject")
    BY <2>2, <1>g, Names
  <2> QED
    BY <1>1, <2>1, <2>2 DEF Validate
<1>2. CASE Reserve(t)
  <2>1. Armed(task[t])
    BY <1>2 DEF Reserve, At, Armed
  <2>2. CASE TryCas(t, Reserved(Bound(t), Req(t)), "open", "conflict")
    BY <1>r, <2>1, <2>2, <1>c, ReservedType, Names
  <2>3. CASE Goto(t, "reject") \/ Goto(t, "raise")
    BY <2>3, <1>g, Names
  <2> QED
    BY <1>2, <2>2, <2>3 DEF Reserve
<1>3. CASE CheckOpenOrders(t)
  <2>1. Armed(task[t])
    BY <1>3 DEF CheckOpenOrders, At, Armed
  <2>2. PICK p \in {"abort", "positions", "abortAgain"} : Goto(t, p)
    BY <1>3 DEF CheckOpenOrders
  <2> QED
    BY <2>1, <2>2, <1>g, Names
<1>4. CASE RecordPosition(t)
  <2>1. Armed(task[t])
    BY <1>4 DEF RecordPosition, At, Armed
  <2>2. CASE Goto(t, "abortAgain")
    BY <2>2, <1>g, Names
  <2>3. ASSUME NEW snapshot \in Snapshots, NEW ok \in {"abort", "send"},
               TryCas(t, [Move(Bound(t), Bound(t).state) EXCEPT !.snap = snapshot], ok, "abortAgain")
        PROVE  Outcomes
    <3>1. Bound(t).state \in States
      BY <1>r DEF Bindings
    <3>2. Move(Bound(t), Bound(t).state) \in Bindings
      BY <1>r, <3>1, MoveType
    <3>3. [Move(Bound(t), Bound(t).state) EXCEPT !.snap = snapshot] \in Bindings
      BY <3>2 DEF Bindings
    <3> QED
      BY <2>1, <2>3, <3>3, <1>c, Names
  <2>4. [role |-> Role[Req(t)], before |-> pos[Role[Req(t)]], prior |-> task[t].prior] \in Snapshots
    <3>1. Role[Req(t)] \in Roles /\ pos[Role[Req(t)]] \in Int
      BY <1>r, ConstantsAssumption DEF KInv, TypeOK
    <3>2. task[t].prior \in SUBSET Requests
      BY DEF KInv, TypeOK, Frames
    <3> QED
      BY <3>1, <3>2 DEF Snapshots
  <2> QED
    BY <1>4, <2>2, <2>3, <2>4 DEF RecordPosition
<1>5. CASE Abort(t)
  <2>1. Move(Bound(t), "ABORTED") \in Bindings
    BY <1>r, MoveType DEF States, Free
  <2> QED
    BY <1>5, <2>1, <1>c, Names DEF Abort
<1>6. CASE Respond(t)
  <2>1. Acked(Bound(t), Req(t), task[t].sub = "accepted") \in Bindings
    BY <1>r, AckedType
  <2> QED
    BY <1>6, <2>1, <1>c, Names DEF Respond
<1>7. CASE SubmitFails(t)
  <2>1. CASE Goto(t, "raise")
    BY <2>1, <1>g, Names
  <2>2. CASE TryCas(t, InDoubt(Bound(t), Req(t)), "raise", "raise")
    BY <1>r, <2>2, <1>c, InDoubtType, Names
  <2> QED
    BY <1>7, <2>1, <2>2 DEF SubmitFails
<1> QED
  BY <1>1, <1>2, <1>3, <1>4, <1>5, <1>6, <1>7

(* The step that spends the late order: whoever else could send one holds  *)
(* no lock.                                                                *)
LEMMA SendKeeps == ASSUME KInv, NEW t \in Tasks, Send(t) PROVE KInv'
<1> DEFINE f == [task[t] EXCEPT !.pc = "inflight", !.sub = "sent"]
           g == Home[t]
<1>1. /\ task[t].pc = "send" /\ task[t] \in Frames /\ FrameOK(t, task[t])
      /\ task' = [task EXCEPT ![t] = f]
  BY DEF Send, At, KInv, TypeOK, Framed
<1>2. "inflight" \in Pcs /\ "sent" \in Submissions
  BY DEF Pcs, Submissions
<1>3. f \in Frames /\ f.pc = "inflight" /\ f.req = task[t].req
  BY <1>1, <1>2 DEF Frames
<1> HIDE DEF f
<1>4. t \in PlaceTasks /\ t \notin ReconcileTasks /\ lock[g] = t /\ g \in Gateways
  <2>1. t \notin ReconcileTasks
    BY <1>1 DEF FrameOK, Reconciling, Fetching
  <2> QED
    BY <1>1, <2>1, ConstantsAssumption DEF Tasks, KInv, Locked
<1>5. FrameOK(t, f) /\ ~Armed(f) /\ Armed(task[t])
  BY <1>1, <1>3, <1>4 DEF FrameOK, Armed
<1>6. /\ task' \in [Tasks -> Frames] /\ task'[t] = f
      /\ \A u \in Tasks \ {t} : task'[u] = task[u]
  BY <1>1, <1>3 DEF KInv, TypeOK
<1>7. /\ UNCHANGED <<bindings, receipts, lock, kill, xorder, xcount, late, pos, restarts>>
      /\ lateKill' = [lateKill EXCEPT ![g] =
              IF kill[g] # "off" /\ ~ReduceOnly[Req(t)] THEN @ + 1 ELSE @]
  BY DEF Send, xVars
<1>8. TypeOK'
  <2>1. lateKill' \in [Gateways -> Nat]
    BY <1>4, <1>7 DEF KInv, TypeOK
  <2> QED
    BY <1>6, <1>7, <2>1 DEF KInv, TypeOK
<1>9. Locked' /\ Framed'
  <2>1. Locked'
    BY <1>4, <1>6, <1>7 DEF KInv, Locked, Tasks
  <2> QED
    BY <1>5, <1>6, <2>1 DEF KInv, Framed
<1>10. Spent'
  <2> SUFFICES ASSUME NEW h \in Gateways
               PROVE  /\ lateKill'[h] <= 1
                      /\ kill'[h] = "off" => lateKill'[h] = 0
                      /\ lateKill'[h] = 1 => \A u \in Tasks : Home[u] = h /\ Armed(task'[u])
                                                  => ReduceOnly[task'[u].req]
    BY DEF Spent
  <2>1. CASE h # g
    <3>1. lateKill'[h] = lateKill[h] /\ kill'[h] = kill[h]
      BY <1>7, <2>1 DEF KInv, TypeOK
    <3>2. \A u \in Tasks : Home[u] = h => task'[u] = task[u]
      BY <1>6, <2>1
    <3> QED
      BY <3>1, <3>2 DEF KInv, Spent
  <2>2. CASE h = g /\ kill[g] # "off" /\ ~ReduceOnly[Req(t)]
    <3>1. lateKill[g] = 0 /\ lateKill'[g] = 1
      <4>1. lateKill[g] # 1
        BY <1>4, <1>5, <2>2 DEF KInv, Spent, Req
      <4>2. lateKill[g] \in Nat /\ lateKill[g] <= 1
        BY <1>4 DEF KInv, Spent, TypeOK
      <4>3. lateKill'[g] = lateKill[g] + 1
        BY <1>4, <1>7, <2>2 DEF KInv, TypeOK
      <4> QED
        BY <4>1, <4>2, <4>3
    <3>2. ASSUME NEW u \in Tasks, Home[u] = h PROVE ~Armed(task'[u])
      <4>1. CASE u = t
        BY <1>5, <1>6, <4>1
      <4>2. CASE u # t
        <5>1. u \in PlaceTasks => task[u].pc = "idle"
          BY <1>4, <2>2, <3>2, <4>2 DEF KInv, Locked
        <5>2. u \in ReconcileTasks => Reconciling(task[u])
          BY DEF KInv, Framed, FrameOK
        <5>3. ~Armed(task[u])
          BY <5>1, <5>2 DEF Tasks, Reconciling, Armed, Fetching
        <5> QED
          BY <1>6, <4>2, <5>3
      <4> QED
        BY <4>1, <4>2
    <3> QED
      BY <1>7, <2>2, <3>1, <3>2
  <2>3. CASE h = g /\ ~(kill[g] # "off" /\ ~ReduceOnly[Req(t)])
    <3>1. lateKill'[h] = lateKill[h] /\ kill'[h] = kill[h]
      BY <1>4, <1>7, <2>3 DEF KInv, TypeOK
    <3>2. \A u \in Tasks : Armed(task'[u]) => task'[u] = task[u]
      BY <1>5, <1>6
    <3> QED
      BY <3>1, <3>2 DEF KInv, Spent
  <2> QED
    BY <2>1, <2>2, <2>3
<1> QED
  BY <1>8, <1>9, <1>10 DEF KInv

(* A frame that goes back to idle, and the lock with it.                   *)
LEMMA ReturnKeeps == ASSUME KInv, NEW t \in Tasks, Return(t) PROVE KInv'
<1> DEFINE g == Home[t]
<1>1. task[t].pc \in {"reject", "raise", "accept"} /\ task[t] \in Frames
  BY DEF Return, At, KInv, TypeOK
<1>2. g \in Gateways /\ KeyOf[Req(t)] \in Keys
  BY <1>1, BoundType, ConstantsAssumption DEF Keys
<1>3. /\ task' = [task EXCEPT ![t] = Idle]
      /\ lock' = [lock EXCEPT ![g] = IF @ = t THEN None ELSE @]
      /\ UNCHANGED <<bindings, kill, lateKill, xorder, xcount, late, pos, restarts>>
  BY DEF Return, xVars
<1>4. /\ task' \in [Tasks -> Frames] /\ task'[t] = Idle
      /\ \A u \in Tasks \ {t} : task'[u] = task[u]
  BY <1>3, IdleType DEF KInv, TypeOK
<1>5. Idle.pc = "idle" /\ FrameOK(t, Idle) /\ ~Armed(Idle)
  BY DEF Idle, FrameOK, Reconciling, Armed
<1>6. receipts' \in [Gateways -> [Keys -> Submissions \cup {None}]]
  <2>1. PICK v \in Submissions : receipts' \in {receipts, [receipts EXCEPT ![g][KeyOf[Req(t)]] = v]}
    <3>1. task[t].sub \in Submissions /\ "rejected" \in Submissions
      BY <1>1 DEF Frames, Submissions
    <3> QED
      BY <1>1, <3>1 DEF Return
  <2>2. receipts \in [Gateways -> [Keys -> Submissions \cup {None}]]
    BY DEF KInv, TypeOK
  <2> QED
    BY <1>2, <2>1, <2>2
<1>7. TypeOK'
  <2>1. lock' \in [Gateways -> Tasks \cup {None}]
    BY <1>2, <1>3 DEF KInv, TypeOK
  <2> QED
    BY <1>3, <1>4, <1>6, <2>1 DEF KInv, TypeOK
<1>8. Locked'
  <2> SUFFICES ASSUME NEW u \in PlaceTasks, task'[u].pc # "idle" PROVE lock'[Home[u]] = u
    BY DEF Locked
  <2>1. u \in Tasks /\ u # t /\ Home[u] \in Gateways
    BY <1>4, <1>5, ConstantsAssumption DEF Tasks
  <2>2. lock[Home[u]] = u
    BY <1>4, <2>1 DEF KInv, Locked
  <2> QED
    BY <1>2, <1>3, <2>1, <2>2 DEF KInv, TypeOK
<1>9. Framed'
  BY <1>4, <1>5 DEF KInv, Framed
<1>10. Spent'
  <2>1. \A u \in Tasks : Armed(task'[u]) => task'[u] = task[u]
    BY <1>4, <1>5
  <2> QED
    BY <1>3, <2>1 DEF KInv, Spent
<1> QED
  BY <1>7, <1>8, <1>9, <1>10 DEF KInv

(* A frame that has made an observation. *)
Looking(f, p, o) == [f EXCEPT !.pc = p, !.obs = o]

(* An answer of the exchange is recorded in the frame.                     *)
LEMMA LookingFollows ==
    ASSUME KInv, NEW t \in Tasks, task[t].pc \in Fetching, NEW o \in Observations,
           NEW p \in Fetching \cup {"apply", "handle"},
           p = "handle" => task[t].why # "reconcile",
           task' = [task EXCEPT ![t] = Looking(task[t], p, o)]
    PROVE  \E f : Follows(t, f)
<1> DEFINE f == Looking(task[t], p, o)
<1>1. task[t] \in Frames /\ FrameOK(t, task[t]) /\ task[t].pc # "idle" /\ p \in Pcs
  BY DEF KInv, TypeOK, Framed, Fetching, Pcs, Sync
<1>2. f \in Frames /\ f.pc = p /\ f.req = task[t].req /\ f.why = task[t].why
  BY <1>1 DEF Frames, Looking
<1> HIDE DEF f
<1>3. ~Armed(f)
  BY <1>2 DEF Armed, Fetching
<1>4. FrameOK(t, f)
  BY <1>1, <1>2 DEF FrameOK, Reconciling, Fetching
<1> QED
  BY <1>2, <1>3, <1>4 DEF Follows, f

(* The four reads of _refresh_binding_and_exchange_state.                  *)
LEMMA FetchKeeps ==
    ASSUME KInv, NEW t \in Tasks,
           FetchFills(t) \/ LookupOrder(t) \/ FetchOpenOrders(t) \/ FetchPositions(t)
    PROVE  KInv'
<1> DEFINE Outcomes == \E f : Follows(t, f)
<1> HIDE DEF Outcomes
<1>1. /\ task[t].pc \in Fetching /\ task[t].pc # "idle"
      /\ bindings' = bindings /\ late' = late
      /\ UNCHANGED <<gwVars, xorder, xcount, pos, restarts>>
  BY DEF FetchFills, LookupOrder, FetchOpenOrders, FetchPositions, At, Fetching, xVars
<1>2. /\ task[t].obs \in Observations /\ Req(t) \in Requests
      /\ xorder[Req(t)] \in OrderStates /\ pos[Role[Req(t)]] \in Int
  <2>1. Req(t) \in Requests
    BY <1>1, BoundType
  <2>2. Role[Req(t)] \in Roles
    BY <2>1, ConstantsAssumption
  <2> QED
    BY <2>1, <2>2 DEF KInv, TypeOK, Frames
<1>3. ASSUME NEW o \in Observations, NEW p \in Fetching \cup {"apply", "handle"},
             p = "handle" => task[t].why # "reconcile",
             task' = [task EXCEPT ![t] = Looking(task[t], p, o)]
      PROVE  Outcomes
  BY <1>1, <1>3, LookingFollows DEF Outcomes
<1>4. SUFFICES Outcomes
  <2>1. bindings' \in [Signals -> Bindings] /\ late' \subseteq Requests
    BY <1>1 DEF KInv, TypeOK
  <2> QED
    BY <1>1, <2>1, QuietKeeps DEF Outcomes
<1>5. \A p \in {"lookup", "opens", "positionsAfter", "apply", "handle"} :
          p \in Fetching \cup {"apply", "handle"}
  BY DEF Fetching
<1>6. CASE FetchFills(t)
  <2> DEFINE v == xorder[Req(t)] = "filled" /\ task[t].dirty = "no" /\ SinceSnapshot(t)
             o == [task[t].obs EXCEPT !.fills = v]
  <2>1. o \in Observations
    <3>1. v \in BOOLEAN
      OBVIOUS
    <3> HIDE DEF v
    <3> QED
      BY <1>2, <3>1 DEF Observations
  <2>2. task' = [task EXCEPT ![t] = Looking(task[t], "lookup", o)]
    BY <1>6 DEF FetchFills, Looking, KInv, TypeOK, Frames
  <2> HIDE DEF o
  <2> QED
    BY <1>3, <1>5, <2>1, <2>2
<1>7. CASE LookupOrder(t)
  <2>1. PICK status \in {xorder[Req(t)], "pending"} :
            task' = [task EXCEPT ![t] = [@ EXCEPT !.pc = "opens", !.obs.client = status,
                                                  !.obs.clean = task[t].dirty = "no"]]
    BY <1>7 DEF LookupOrder
  <2> DEFINE v == task[t].dirty = "no"
             o == [task[t].obs EXCEPT !.client = status, !.clean = v]
  <2>2. o \in Observations
    <3>1. v \in BOOLEAN /\ status \in OrderStates \cup {"pending"}
      BY <1>2
    <3> HIDE DEF v
    <3> QED
      BY <1>2, <3>1 DEF Observations
  <2>3. task' = [task EXCEPT ![t] = Looking(task[t], "opens", o)]
    BY <2>1 DEF Looking, KInv, TypeOK, Frames
  <2> HIDE DEF o
  <2> QED
    BY <1>3, <1>5, <2>2, <2>3
<1>8. CASE FetchOpenOrders(t)
  <2> DEFINE v == xorder[Req(t)] = "open" /\ task[t].dirty # "created" /\ SinceSnapshot(t)
             o == [task[t].obs EXCEPT !.opens = v]
  <2>1. o \in Observations
    <3>1. v \in BOOLEAN
      OBVIOUS
    <3> HIDE DEF v
    <3> QED
      BY <1>2, <3>1 DEF Observations
  <2>2. task' = [task EXCEPT ![t] = Looking(task[t], "positionsAfter", o)]
    BY <1>8 DEF FetchOpenOrders, Looking, KInv, TypeOK, Frames
  <2> HIDE DEF o
  <2> QED
    BY <1>3, <1>5, <2>1, <2>2
<1>9. CASE FetchPositions(t)
  <2> DEFINE p == IF task[t].why = "reconcile" THEN "apply" ELSE "handle"
             o == [task[t].obs EXCEPT !.pos = pos[Role[Req(t)]]]
  <2>1. o \in Observations
    BY <1>2 DEF Observations
  <2>2. task' = [task EXCEPT ![t] = Looking(task[t], p, o)]
    BY <1>9 DEF FetchPositions, Looking, KInv, TypeOK, Frames
  <2>3. p \in Fetching \cup {"apply", "handle"} /\ (p = "handle" => task[t].why # "reconcile")
    OBVIOUS
  <2> HIDE DEF o, p
  <2> QED
    BY <1>3, <2>1, <2>2, <2>3
<1> QED
  BY <1>6, <1>7, <1>8, <1>9

(* The conflict handlers and the rest of reconcile_binding.                *)
LEMMA RefreshKeeps ==
    ASSUME KInv, NEW t \in Tasks,
           \/ StartRefresh(t) \/ RefreshFails(t) \/ HandleConflict(t) \/ ApplyVerdict(t)
           \/ HaltAmbiguous(t) \/ Handled(t)
    PROVE  KInv'
<1> DEFINE Outcomes == \E f : Follows(t, f)
<1> HIDE DEF Outcomes
<1>1. /\ task[t].pc # "idle" /\ bindings' = bindings /\ late' = late
      /\ UNCHANGED <<gwVars, xorder, xcount, pos, restarts>>
  BY DEF StartRefresh, RefreshFails, HandleConflict, ApplyVerdict, HaltAmbiguous, Handled, At,
         Fetching, xVars
<1>2. SUFFICES Outcomes
  <2>1. bindings' \in [Signals -> Bindings] /\ late' \subseteq Requests
    BY <1>1 DEF KInv, TypeOK
  <2> QED
    BY <1>1, <2>1, QuietKeeps DEF Outcomes
<1>3. /\ task[t] \in Frames /\ FrameOK(t, task[t]) /\ Req(t) \in Requests
      /\ Bound(t) \in Bindings /\ task[t].seen \in Bindings
  <2>1. task[t] \in Frames /\ FrameOK(t, task[t])
    BY DEF KInv, TypeOK, Framed
  <2> QED
    BY <1>1, <2>1, BoundType DEF Frames
<1>g. ASSUME NEW p \in {"reject", "raise", "abort", "accept", "apply", "handled", "haltAmbiguous"},
             Goto(t, p), t \in ReconcileTasks => p \in {"apply", "handled", "raise"}
      PROVE  Outcomes
  <2>1. p \in Pcs \ {"cas"} /\ p \notin Validated
    BY Names
  <2>2. t \in ReconcileTasks => p \in {"apply", "handled", "raise"} \cup Fetching
    BY <1>g
  <2> QED
    BY <1>1, <1>g, <2>1, <2>2, GotoFollows DEF Outcomes
<1>c. ASSUME NEW b \in Bindings, NEW ok \in {"raise", "apply", "handled", "haltAmbiguous"},
             TryCas(t, b, ok, "raise"), t \in ReconcileTasks => ok \in {"handled", "raise"}
      PROVE  Outcomes
  <2>1. ok \in OnSuccess /\ "raise" \in OnConflict
    BY Names
  <2> QED
    BY <1>1, <1>c, <2>1, TryCasFollows DEF Outcomes
<1>4. CASE StartRefresh(t)
  <2>1. t \notin ReconcileTasks
    BY <1>3, <1>4 DEF StartRefresh, At, FrameOK, Reconciling, Fetching
  <2>2. CASE Goto(t, "reject")
    BY <2>1, <2>2, <1>g
  <2>3. ASSUME NEW w \in {"reserve", "ack"},
               task' = [task EXCEPT ![t] = [@ EXCEPT !.pc = "fills", !.why = w, !.seen = Bound(t)]]
        PROVE  Outcomes
    <3> DEFINE f == [task[t] EXCEPT !.pc = "fills", !.why = w, !.seen = Bound(t)]
    <3>1. w \in Reasons /\ "fills" \in Pcs
      BY Names DEF Reasons
    <3>2. f \in Frames /\ f.pc = "fills" /\ f.req = task[t].req
      BY <1>3, <3>1 DEF Frames
    <3>3. task' = [task EXCEPT ![t] = f]
      BY <2>3
    <3> HIDE DEF f
    <3>4. FrameOK(t, f) /\ ~Armed(f)
      BY <1>3, <2>1, <3>2 DEF FrameOK, Armed, Req
    <3> QED
      BY <3>2, <3>3, <3>4 DEF Follows, Outcomes
  <2> QED
    BY <1>4, <2>2, <2>3 DEF StartRefresh
<1>5. CASE RefreshFails(t)
  <2>1. Move(task[t].seen, "HALTED") \in Bindings
    BY <1>3, MoveType DEF States
  <2>2. t \in ReconcileTasks => task[t].why = "reconcile"
    BY <1>1, <1>3 DEF FrameOK, Reconciling
  <2>3. CASE t \notin ReconcileTasks
    BY <1>5, <1>g, <1>c, <2>1, <2>3 DEF RefreshFails
  <2>4. CASE t \in ReconcileTasks
    <3>1. TryCas(t, Move(task[t].seen, "HALTED"), "raise", "raise")
      BY <1>5, <2>2, <2>4 DEF RefreshFails
    <3> QED
      BY <1>c, <2>1, <3>1
  <2> QED
    BY <2>3, <2>4
<1>6. CASE HandleConflict(t)
  <2>1. t \notin ReconcileTasks
    BY <1>3, <1>6 DEF HandleConflict, At, FrameOK, Reconciling, Fetching
  <2>2. PICK next \in {"apply", "haltAmbiguous", "handled"} :
          \/ task' = [task EXCEPT ![t] =
                  [Idle EXCEPT !.pc = "validate", !.req = Req(t), !.retry = TRUE,
                               !.dirty = task[t].dirty, !.prior = task[t].prior]]
          \/ Goto(t, "handled")
          \/ TryCas(t, EnsureInDoubt(Bound(t), Req(t)), next, "raise")
          \/ Goto(t, next)
    BY <1>6 DEF HandleConflict, Goto
  <2>3. CASE task' = [task EXCEPT ![t] =
                  [Idle EXCEPT !.pc = "validate", !.req = Req(t), !.retry = TRUE,
                               !.dirty = task[t].dirty, !.prior = task[t].prior]]
    <3> DEFINE f == [Idle EXCEPT !.pc = "validate", !.req = Req(t), !.retry = TRUE,
                                 !.dirty = task[t].dirty, !.prior = task[t].prior]
    <3>1. "validate" \in Pcs /\ task[t].dirty \in Touched /\ task[t].prior \in SUBSET Requests
      BY <1>3, Names DEF Frames
    <3>2. f \in Frames /\ f.pc = "validate" /\ f.req = Req(t)
      BY <1>3, <3>1, IdleType DEF Frames
    <3>3. task' = [task EXCEPT ![t] = f]
      BY <2>3
    <3> HIDE DEF f
    <3>4. FrameOK(t, f) /\ ~Armed(f)
      BY <1>3, <2>1, <3>2 DEF FrameOK, Armed
    <3> QED
      BY <3>2, <3>3, <3>4 DEF Follows, Outcomes
  <2>4. EnsureInDoubt(Bound(t), Req(t)) \in Bindings
    BY <1>3, EnsureInDoubtType
  <2> QED
    BY <1>g, <1>c, <2>1, <2>2, <2>3, <2>4
<1>7. CASE ApplyVerdict(t)
  <2>1. PICK snap : \/ TryCas(t, Verdict(Bound(t), snap, task[t].obs, Req(t)), "handled", "raise")
                    \/ Goto(t, "raise") \/ Goto(t, "handled")
    BY <1>7 DEF ApplyVerdict
  <2>2. Verdict(Bound(t), snap, task[t].obs, Req(t)) \in Bindings
    BY <1>3, VerdictType
  <2> QED
    BY <1>g, <1>c, <2>1, <2>2
<1>8. CASE HaltAmbiguous(t)
  <2>1. Move(Bound(t), "HALTED") \in Bindings
    BY <1>3, MoveType DEF States
  <2> QED
    BY <1>8, <1>g, <1>c, <2>1 DEF HaltAmbiguous
<1>9. CASE Handled(t)
  <2>1. t \in ReconcileTasks => task[t].why = "reconcile"
    BY <1>1, <1>3 DEF FrameOK, Reconciling
  <2>2. PICK p \in {"reject", "accept", "raise"} :
          Goto(t, p) /\ (t \in ReconcileTasks => p = "raise")
    BY <1>9, <2>1 DEF Handled
  <2> QED
    BY <1>g, <2>2
<1> QED
  BY <1>4, <1>5, <1>6, <1>7, <1>8, <1>9

(* Every step of a task.                                                   *)
LEMMA TaskStepKeeps == ASSUME KInv, NEW t \in Tasks, TaskStep(t) PROVE KInv'
BY CasKeeps, PlacementKeeps, SendKeeps, ReturnKeeps, FetchKeeps, RefreshKeeps DEF TaskStep

-----------------------------------------------------------------------------
(* The exchange and the operator touch frames without moving them. *)
Marked(f, n) ==
    /\ n \in Frames
    /\ n.pc = f.pc /\ n.req = f.req /\ n.ok = f.ok /\ n.fail = f.fail /\ n.why = f.why
    /\ n.new = f.new /\ n.seen = f.seen /\ n.obs = f.obs
    /\ n.sub = f.sub \/ f.pc = "inflight"

(* Dating an order after the calls under way moves none of them.           *)
LEMMA TouchMarks ==
    ASSUME KInv, NEW r, NEW how \in Touched
    PROVE  \A t \in Tasks : Marked(task[t], Touch(r, how)[t]) /\ Touch(r, how)[t].sub = task[t].sub
<1> SUFFICES ASSUME NEW t \in Tasks
             PROVE  Marked(task[t], Touch(r, how)[t]) /\ Touch(r, how)[t].sub = task[t].sub
  OBVIOUS
<1>1. task[t] \in Frames
  BY DEF KInv, TypeOK
<1>2. Touch(r, how)[t] \in {task[t], [task[t] EXCEPT !.dirty = how]}
  BY DEF Touch
<1>3. Marked(task[t], task[t])
  BY <1>1 DEF Marked
<1>4. Marked(task[t], [task[t] EXCEPT !.dirty = how]) /\ [task[t] EXCEPT !.dirty = how].sub = task[t].sub
  BY <1>1 DEF Marked, Frames
<1> QED
  BY <1>2, <1>3, <1>4

(* Frames that are only marked keep the invariant; the kill switch may     *)
(* only be set.                                                            *)
LEMMA MarksKeep ==
    ASSUME KInv, task' = [t \in Tasks |-> task'[t]],
           \A t \in Tasks : Marked(task[t], task'[t]),
           UNCHANGED <<lock, lateKill>>,
           \A g \in Gateways : kill'[g] = "off" => kill[g] = "off"
    PROVE  task' \in [Tasks -> Frames] /\ Locked' /\ Framed' /\ Spent'
<1>1. task' \in [Tasks -> Frames]
  BY DEF Marked
<1>2. Locked'
  BY DEF KInv, Locked, Marked, Tasks
<1>3. Framed'
  BY DEF KInv, Framed, FrameOK, Reconciling, Marked
<1>4. \A t \in Tasks : Armed(task'[t]) => Armed(task[t]) /\ task'[t].req = task[t].req
  BY DEF Armed, Marked
<1>5. Spent'
  BY <1>4 DEF KInv, Spent
<1> QED
  BY <1>1, <1>2, <1>3, <1>5

(* A call starts: place_order takes the free lock, reconcile_binding none. *)
LEMMA CallsKeep == ASSUME KInv, Calls PROVE KInv'
<1>1. ASSUME NEW t \in PlaceTasks, NEW r \in Requests, PlaceStart(t, r) PROVE KInv'
  <2> DEFINE f == [Idle EXCEPT !.pc = "validate", !.req = r,
                               !.prior = {q \in Requests : xorder[q] # "none"}]
             g == Home[t]
  <2>1. t \in Tasks /\ t \notin ReconcileTasks /\ g \in Gateways /\ None \notin Tasks
    BY ConstantsAssumption DEF Tasks
  <2>2. f \in Frames /\ f.pc = "validate" /\ f.req = r
    <3>1. "validate" \in Pcs
      BY Names
    <3> QED
      BY <3>1, IdleType DEF Frames
  <2>3. /\ task' = [task EXCEPT ![t] = f] /\ lock' = [lock EXCEPT ![g] = t] /\ lock[g] = None
        /\ UNCHANGED <<bindings, receipts, kill, lateKill, xorder, xcount, late, pos, restarts>>
    BY <1>1 DEF PlaceStart, xVars
  <2> HIDE DEF f
  <2>4. FrameOK(t, f) /\ ~Armed(f)
    BY <2>1, <2>2 DEF FrameOK, Armed
  <2>5. /\ task' \in [Tasks -> Frames] /\ task'[t] = f
        /\ \A u \in Tasks \ {t} : task'[u] = task[u]
    BY <2>1, <2>2, <2>3 DEF KInv, TypeOK
  <2>6. TypeOK'
    <3>1. lock' \in [Gateways -> Tasks \cup {None}]
      BY <2>1, <2>3 DEF KInv, TypeOK
    <3> QED
      BY <2>3, <2>5, <3>1 DEF KInv, TypeOK
  <2>7. Locked'
    <3> SUFFICES ASSUME NEW u \in PlaceTasks, task'[u].pc # "idle" PROVE lock'[Home[u]] = u
      BY DEF Locked
    <3>1. u \in Tasks /\ Home[u] \in Gateways
      BY ConstantsAssumption DEF Tasks
    <3>2. CASE u = t
      BY <2>1, <2>3, <3>2 DEF KInv, TypeOK
    <3>3. CASE u # t
      <4>1. lock[Home[u]] = u
        BY <2>5, <3>1, <3>3 DEF KInv, Locked
      <4>2. Home[u] # g
        BY <2>1, <2>3, <3>1, <4>1
      <4> QED
        BY <2>3, <3>1, <4>1, <4>2 DEF KInv, TypeOK
    <3> QED
      BY <3>2, <3>3
  <2>8. Framed'
    BY <2>4, <2>5 DEF KInv, Framed
  <2>9. Spent'
    <3>1. \A u \in Tasks : Armed(task'[u]) => task'[u] = task[u]
      BY <2>4, <2>5
    <3> QED
      BY <2>3, <3>1 DEF KInv, Spent
  <2> QED
    BY <2>6, <2>7, <2>8, <2>9 DEF KInv
<1>2. ASSUME NEW t \in ReconcileTasks, NEW r \in Requests, ReconcileStart(t, r) PROVE KInv'
  <2> DEFINE b == bindings[SignalOf[r]]
             f == [Idle EXCEPT !.pc = "fills", !.req = r, !.why = "reconcile", !.seen = b]
  <2>1. t \in Tasks /\ t \notin PlaceTasks /\ b \in Bindings
    BY ConstantsAssumption DEF Tasks, KInv, TypeOK
  <2>2. f \in Frames /\ f.pc = "fills" /\ f.req = r /\ f.why = "reconcile"
    <3>1. "fills" \in Pcs /\ "reconcile" \in Reasons
      BY Names DEF Reasons
    <3> HIDE DEF b
    <3> QED
      BY <2>1, <3>1, IdleType DEF Frames
  <2>3. /\ task' = [task EXCEPT ![t] = f]
        /\ UNCHANGED <<bindings, receipts, lock, kill, lateKill, xorder, xcount, late, pos, restarts>>
    BY <1>2 DEF ReconcileStart, xVars, gwVars
  <2> HIDE DEF f
  <2>4. FrameOK(t, f) /\ ~Armed(f)
    BY <2>2 DEF FrameOK, Armed, Reconciling, Fetching
  <2>5. /\ task' \in [Tasks -> Frames] /\ task'[t] = f
        /\ \A u \in Tasks \ {t} : task'[u] = task[u]
    BY <2>1, <2>2, <2>3 DEF KInv, TypeOK
  <2>6. TypeOK'
    BY <2>3, <2>5 DEF KInv, TypeOK
  <2>7. Locked' /\ Framed'
    BY <2>1, <2>3, <2>4, <2>5 DEF KInv, Locked, Framed, Tasks
  <2>8. Spent'
    <3>1. \A u \in Tasks : Armed(task'[u]) => task'[u] = task[u]
      BY <2>4, <2>5
    <3> QED
      BY <2>3, <3>1 DEF KInv, Spent
  <2> QED
    BY <2>6, <2>7, <2>8 DEF KInv
<1> QED
  BY <1>1, <1>2 DEF Calls

(* A step beside the tasks: of the exchange, or of the operator.           *)
Beside ==
    /\ task' \in [Tasks -> Frames] /\ \A t \in Tasks : Marked(task[t], task'[t])
    /\ UNCHANGED <<bindings, receipts, lock, lateKill, restarts>>
    /\ kill' \in [Gateways -> {"off", "canceling", "on"}]
    /\ \A g \in Gateways : kill'[g] = "off" => kill[g] = "off"
    /\ xorder' \in [Requests -> OrderStates] /\ xcount' \in [Requests -> Nat]
    /\ late' \subseteq Requests /\ pos' \in [Roles -> Int]

(* A touch of an order, as a step beside the tasks.                        *)
LEMMA TouchBeside ==
    ASSUME KInv, NEW r, NEW how \in Touched, task' = Touch(r, how)
    PROVE  task' \in [Tasks -> Frames] /\ \A t \in Tasks : Marked(task[t], task'[t])
<1>1. \A t \in Tasks : Marked(task[t], task'[t])
  BY TouchMarks
<1>2. task' = [t \in Tasks |-> task'[t]]
  BY DEF Touch
<1> QED
  BY <1>1, <1>2 DEF Marked

(* A frame nobody touched counts as marked.                                *)
LEMMA SelfMarked == KInv => task \in [Tasks -> Frames] /\ \A t \in Tasks : Marked(task[t], task[t])
BY DEF KInv, TypeOK, Marked

(* The kill switch, cancel_order and close_position are steps beside the   *)
(* tasks.                                                                  *)
LEMMA OperatorBeside ==
    ASSUME KInv,
           \/ \E g \in Gateways : ActivateKillSwitch(g) \/ CancelAll(g)
           \/ \E r \in Requests : CancelOrder(r)
           \/ \E l \in Roles : ClosePosition(l)
    PROVE  Beside
<1>0. TypeOK /\ "updated" \in Touched /\ "canceled" \in OrderStates
  BY DEF KInv, Touched, OrderStates
<1>1. ASSUME NEW g \in Gateways, ActivateKillSwitch(g) PROVE Beside
  BY <1>0, <1>1, SelfMarked DEF ActivateKillSwitch, Beside, TypeOK, xVars
<1>2. ASSUME NEW g \in Gateways, CancelAll(g) PROVE Beside
  <2>1. task' \in [Tasks -> Frames] /\ \A t \in Tasks : Marked(task[t], task'[t])
    <3>1. CASE task' = [t \in Tasks |-> IF task[t].req \in OpenOrders
                                         THEN Touch(task[t].req, "updated")[t] ELSE task[t]]
      <4>1. \A t \in Tasks : Marked(task[t], task'[t])
        BY <1>0, <3>1, SelfMarked, TouchMarks
      <4> QED
        BY <3>1, <4>1 DEF Marked
    <3>2. CASE task' = task
      BY <3>2, SelfMarked
    <3> QED
      BY <1>2, <3>1, <3>2 DEF CancelAll
  <2>2. xorder' \in [Requests -> OrderStates]
    BY <1>0, <1>2 DEF CancelAll, TypeOK
  <2> QED
    BY <1>0, <1>2, <2>1, <2>2 DEF CancelAll, Beside, TypeOK
<1>3. ASSUME NEW r \in Requests, CancelOrder(r) PROVE Beside
  <2>1. task' = Touch(r, "updated") /\ xorder' \in [Requests -> OrderStates]
    BY <1>0, <1>3 DEF CancelOrder, TypeOK
  <2>2. task' \in [Tasks -> Frames] /\ \A t \in Tasks : Marked(task[t], task'[t])
    BY <1>0, <2>1, TouchBeside
  <2> QED
    BY <1>0, <1>3, <2>1, <2>2 DEF CancelOrder, Beside, TypeOK, gwVars
<1>4. ASSUME NEW l \in Roles, ClosePosition(l) PROVE Beside
  BY <1>0, <1>4, SelfMarked DEF ClosePosition, Beside, TypeOK, gwVars
<1> QED
  BY <1>1, <1>2, <1>3, <1>4

(* So is everything the exchange does.                                     *)
LEMMA ExchangeBeside == ASSUME KInv, ExchangeStep PROVE Beside
<1>0. /\ TypeOK /\ "updated" \in Touched /\ "created" \in Touched
      /\ "accepted" \in Submissions /\ "rejected" \in Submissions
      /\ "open" \in OrderStates /\ "filled" \in OrderStates
  BY DEF KInv, Touched, OrderStates, Submissions
<1>1. ASSUME NEW q \in Requests, Opened(q)
      PROVE  xorder' \in [Requests -> OrderStates] /\ xcount' \in [Requests -> Nat]
  BY <1>0, <1>1 DEF Opened, TypeOK
<1>2. ASSUME NEW t \in Tasks, task[t].pc = "inflight",
             NEW F \in [Tasks -> Frames], \A u \in Tasks : Marked(task[u], F[u]),
             NEW v \in Submissions, task' = [F EXCEPT ![t].sub = v]
      PROVE  task' \in [Tasks -> Frames] /\ \A u \in Tasks : Marked(task[u], task'[u])
  <2>1. Marked(task[t], [F[t] EXCEPT !.sub = v])
    <3>1. F[t] \in Frames /\ Marked(task[t], F[t]) /\ task[t].pc = "inflight"
      BY <1>2
    <3> QED
      BY <3>1 DEF Marked, Frames
  <2>2. \A u \in Tasks : task'[u] = IF u = t THEN [F[t] EXCEPT !.sub = v] ELSE F[u]
    BY <1>2
  <2>3. \A u \in Tasks : Marked(task[u], task'[u])
    BY <1>2, <2>1, <2>2
  <2>4. task' = [u \in Tasks |-> task'[u]]
    BY <1>2
  <2> QED
    BY <2>3, <2>4 DEF Marked
<1>3. ASSUME NEW t \in Tasks, ExchangeAccepts(t) PROVE Beside
  <2>1. Req(t) \in Requests
    BY <1>3, BoundType DEF ExchangeAccepts
  <2>2. Touch(Req(t), "created") \in [Tasks -> Frames]
        /\ \A u \in Tasks : Marked(task[u], Touch(Req(t), "created")[u])
    <3>1. \A u \in Tasks : Marked(task[u], Touch(Req(t), "created")[u])
      BY <1>0, TouchMarks
    <3>2. Touch(Req(t), "created") = [u \in Tasks |-> Touch(Req(t), "created")[u]]
      BY DEF Touch
    <3> QED
      BY <3>1, <3>2 DEF Marked
  <2>3. task' \in [Tasks -> Frames] /\ \A u \in Tasks : Marked(task[u], task'[u])
    BY <1>0, <1>2, <1>3, <2>2 DEF ExchangeAccepts
  <2>4. xorder' \in [Requests -> OrderStates] /\ xcount' \in [Requests -> Nat]
    BY <1>1, <1>3, <2>1 DEF ExchangeAccepts
  <2> QED
    BY <1>0, <1>3, <2>3, <2>4 DEF ExchangeAccepts, Beside, TypeOK, gwVars
<1>4. ASSUME NEW t \in Tasks, ExchangeRejects(t) PROVE Beside
  <2>1. task' \in [Tasks -> Frames] /\ \A u \in Tasks : Marked(task[u], task'[u])
    BY <1>0, <1>2, <1>4, SelfMarked DEF ExchangeRejects
  <2> QED
    BY <1>0, <1>4, <2>1 DEF ExchangeRejects, Beside, TypeOK, gwVars, xVars
<1>5. ASSUME NEW r \in Requests, Fill(r) PROVE Beside
  <2>1. task' \in [Tasks -> Frames] /\ \A u \in Tasks : Marked(task[u], task'[u])
    BY <1>0, <1>5, TouchBeside DEF Fill
  <2>2. pos' \in [Roles -> Int] /\ xorder' \in [Requests -> OrderStates]
    <3>1. Sign[r] \in Int /\ Role[r] \in Roles
      BY ConstantsAssumption
    <3> QED
      BY <1>0, <1>5, <3>1 DEF Fill, TypeOK
  <2> QED
    BY <1>0, <1>5, <2>1, <2>2 DEF Fill, Beside, TypeOK, gwVars
<1>6. ASSUME NEW r \in Requests, ArrivesLate(r) PROVE Beside
  <2>1. task' \in [Tasks -> Frames] /\ \A u \in Tasks : Marked(task[u], task'[u])
    BY <1>0, <1>6, TouchBeside DEF ArrivesLate
  <2>2. xorder' \in [Requests -> OrderStates] /\ xcount' \in [Requests -> Nat]
    BY <1>1, <1>6 DEF ArrivesLate
  <2> QED
    BY <1>0, <1>6, <2>1, <2>2 DEF ArrivesLate, Beside, TypeOK, gwVars
<1> QED
  BY <1>3, <1>4, <1>5, <1>6 DEF ExchangeStep, Tasks

(* Steps beside the tasks keep the invariant.                              *)
LEMMA BesideKeeps == KInv /\ Beside => KInv'
<1> SUFFICES ASSUME KInv, Beside PROVE KInv'
  OBVIOUS
<1>1. task' = [t \in Tasks |-> task'[t]]
  BY DEF Beside
<1>2. task' \in [Tasks -> Frames] /\ Locked' /\ Framed' /\ Spent'
  BY <1>1, MarksKeep DEF Beside
<1>3. TypeOK'
  BY <1>2 DEF KInv, TypeOK, Beside
<1> QED
  BY <1>2, <1>3 DEF KInv

(* A restarted gateway has no calls, a free lock and an unset kill switch. *)
LEMMA RestartKeeps == ASSUME KInv, NEW g \in Gateways, Restart(g) PROVE KInv'
<1>1. \A t \in Tasks : task'[t] = IF Home[t] = g THEN Idle ELSE task[t]
  BY DEF Restart
<1>2. task' \in [Tasks -> Frames]
  BY IdleType DEF Restart, KInv, TypeOK
<1>3. Idle.pc = "idle" /\ ~Armed(Idle) /\ \A t : FrameOK(t, Idle)
  BY DEF Idle, Armed, FrameOK, Reconciling
<1>4. late' \subseteq Requests
  <2>1. \A u \in Tasks : task[u].sub = "sent" => Req(u) \in Requests
    BY DEF KInv, Framed, FrameOK, Req
  <2> QED
    BY <2>1 DEF Restart, KInv, TypeOK
<1>5. TypeOK'
  <2>1. /\ lock' \in [Gateways -> Tasks \cup {None}]
        /\ receipts' \in [Gateways -> [Keys -> Submissions \cup {None}]]
        /\ kill' \in [Gateways -> {"off", "canceling", "on"}]
        /\ lateKill' \in [Gateways -> Nat] /\ restarts' \in Nat
    BY DEF Restart, KInv, TypeOK
  <2> QED
    BY <1>2, <1>4, <2>1 DEF Restart, KInv, TypeOK
<1>6. Locked'
  <2> SUFFICES ASSUME NEW u \in PlaceTasks, task'[u].pc # "idle" PROVE lock'[Home[u]] = u
    BY DEF Locked
  <2>1. u \in Tasks /\ Home[u] \in Gateways
    BY ConstantsAssumption DEF Tasks
  <2>2. Home[u] # g /\ lock[Home[u]] = u
    BY <1>1, <1>3, <2>1 DEF KInv, Locked
  <2> QED
    BY <2>1, <2>2 DEF Restart, KInv, TypeOK
<1>7. Framed'
  BY <1>1, <1>3 DEF KInv, Framed
<1>8. Spent'
  <2> SUFFICES ASSUME NEW h \in Gateways
               PROVE  /\ lateKill'[h] <= 1
                      /\ kill'[h] = "off" => lateKill'[h] = 0
                      /\ lateKill'[h] = 1 => \A u \in Tasks : Home[u] = h /\ Armed(task'[u])
                                                  => ReduceOnly[task'[u].req]
    BY DEF Spent
  <2>1. CASE h = g
    BY <2>1 DEF Restart, KInv, TypeOK
  <2>2. CASE h # g
    <3>1. lateKill'[h] = lateKill[h] /\ kill'[h] = kill[h]
      BY <2>2 DEF Restart, KInv, TypeOK
    <3>2. \A u \in Tasks : Home[u] = h => task'[u] = task[u]
      BY <1>1, <2>2
    <3> QED
      BY <3>1, <3>2 DEF KInv, Spent
  <2> QED
    BY <2>1, <2>2
<1> QED
  BY <1>5, <1>6, <1>7, <1>8 DEF KInv

(* halt_binding only rewrites a binding.                                   *)
LEMMA HaltBindingKeeps == ASSUME KInv, NEW s \in Signals, HaltBinding(s) PROVE KInv'
<1>1. Move(bindings[s], "HALTED") \in Bindings
  BY MoveType DEF States, KInv, TypeOK
<1>2. UNCHANGED <<receipts, lock, kill, lateKill, task, xorder, xcount, late, pos, restarts>>
  BY DEF HaltBinding, gwVars, xVars
<1>3. TypeOK'
  BY <1>1, <1>2 DEF HaltBinding, KInv, TypeOK
<1> QED
  BY <1>2, <1>3 DEF KInv, Locked, Framed, Spent

(* The invariant holds of an idle gateway.                                 *)
LEMMA KInvInit == Init => KInv
<1> SUFFICES ASSUME Init PROVE KInv
  OBVIOUS
<1>1. \A t \in Tasks : task[t] = Idle
  BY DEF Init
<1>2. Idle.pc = "idle" /\ ~Armed(Idle) /\ \A t : FrameOK(t, Idle)
  BY DEF Idle, Armed, FrameOK, Reconciling
<1>3. TypeOK
  BY UnboundType, IdleType DEF Init, TypeOK, OrderStates
<1> QED
  BY <1>1, <1>2, <1>3 DEF Init, KInv, Locked, Framed, Spent, Tasks

(* Every step keeps it, with any number of gateways.                       *)
LEMMA KInvStep == KInv /\ [Next]_vars => KInv'
<1> SUFFICES ASSUME KInv, [Next]_vars PROVE KInv'
  OBVIOUS
<1>1. CASE Calls
  BY <1>1, CallsKeep
<1>2. ASSUME NEW t \in Tasks, TaskStep(t) PROVE KInv'
  BY <1>2, TaskStepKeeps
<1>3. CASE OperatorStep
  <2>1. ASSUME NEW s \in Signals, HaltBinding(s) PROVE KInv'
    BY <2>1, HaltBindingKeeps
  <2>2. ASSUME NEW g \in Gateways, Restart(g) PROVE KInv'
    BY <2>2, RestartKeeps
  <2>3. CASE \/ \E g \in Gateways : ActivateKillSwitch(g) \/ CancelAll(g)
             \/ \E r \in Requests : CancelOrder(r)
             \/ \E l \in Roles : ClosePosition(l)
    BY <2>3, OperatorBeside, BesideKeeps
  <2> QED
    BY <1>3, <2>1, <2>2, <2>3 DEF OperatorStep
<1>4. CASE ExchangeStep
  BY <1>4, ExchangeBeside, BesideKeeps
<1>5. CASE UNCHANGED vars
  BY <1>5 DEF vars, gwVars, xVars, KInv, TypeOK, Locked, Framed, Spent
<1> QED
  BY <1>1, <1>2, <1>3, <1>4, <1>5 DEF Next

(* KillRaceBounded for any number of gateways, tasks and signals: the kill *)
(* switch is set outside the placement lock, so the placement that is past *)
(* _validate_request may still be sent, and no second one, until the       *)
(* process restarts.                                                       *)
THEOREM KillRace == Spec => []KillRaceBounded
<1>1. KInv => KillRaceBounded
  BY DEF KInv, Spent, KillRaceBounded
<1> QED
  BY <1>1, KInvInit, KInvStep, PTL DEF Spec

-----------------------------------------------------------------------------
(* One gateway. *)
OneGateway == \A t, u \in Tasks : Home[t] = Home[u]

(* The binding b records that r is being submitted. *)
Held(b, r) == \/ b.state = "RESERVED"
              \/ b.state = "SECOND_LEG_SUBMITTED" /\ b.second = r

(* Without another gateway the conflict handlers are never entered. *)
Placing == {"idle", "validate", "health", "cas", "open", "positions", "abort", "abortAgain",
            "send", "inflight", "reject", "raise", "accept"}
(* The points at which a placement holds its signal's binding reserved.    *)
Holding == {"open", "positions", "abort", "abortAgain", "send", "inflight"}

(* The stored binding of the signal a frame works on.                      *)
Current(f) == bindings[SignalOf[f.req]]

(* A placement holds what it reserved, and the write it has prepared is    *)
(* the next version and a legal transition of the binding as it stands     *)
(* now.                                                                    *)
PlaceOK(f) ==
    /\ f.pc \in Placing
    /\ f.pc \in Holding => Held(Current(f), f.req)
    /\ f.pc = "cas" =>
          /\ f.new.version = Current(f).version + 1
          /\ f.new.state \in Lifecycle!After(Current(f).state)
          /\ f.ok \in Placing
          /\ f.ok \in Holding => Held(f.new, f.req)

(* A reconciliation may work from an old version, but then its write       *)
(* cannot succeed; if the version is still the one it read, the binding is *)
(* still in doubt.                                                         *)
ReconcileOK(f) ==
    /\ f.pc # "idle" =>
          /\ f.seen.version <= Current(f).version
          /\ f.seen.version = Current(f).version => Current(f).state = "RECONCILIATION_REQUIRED"
    /\ f.pc = "cas" =>
          /\ f.new.version <= Current(f).version + 1
          /\ f.new.version = Current(f).version + 1 =>
                /\ Current(f).state = "RECONCILIATION_REQUIRED"
                /\ f.new.state \in Lifecycle!After("RECONCILIATION_REQUIRED")

(* The first leg was seen by the exchange under the role the binding       *)
(* names.                                                                  *)
Claimed(b) == b.first # None /\ xcount[b.first] > 0 /\ b.role = Role[b.first]

(* What a binding claims by its state is true of the exchange, stated also *)
(* for the states between, from which the claims are made.                 *)
Truthful(b) ==
    /\ b.state \in {"FIRST_LEG_ACCEPTED", "SECOND_LEG_SUBMITTED", "HEDGING_REQUIRED", "COMPLETED"}
          => Claimed(b)
    /\ b.state = "RECONCILIATION_REQUIRED" /\ b.second # None => Claimed(b)
    /\ b.state = "COMPLETED" => b.second # None /\ xcount[b.second] > 0
    /\ b.state = "RESERVED" => b.second = None

(* What a task has learnt, or is about to write, is backed by the          *)
(* exchange.                                                               *)
Witnessed(f) ==
    /\ f.sub = "accepted" => xcount[f.req] > 0
    /\ f.pc # "idle" /\ (f.obs.client # "none" \/ f.obs.fills \/ f.obs.opens) => xcount[f.req] > 0
    /\ f.pc = "cas" => Truthful(f.new)

(* An order in the venue's books was sent.                                 *)
Exchanged == \A r \in Requests : xorder[r] # "none" => xcount[r] > 0

(* The frame of task t may go on from the present bindings.                *)
Sound(t) ==
    /\ t \in PlaceTasks => PlaceOK(task[t])
    /\ t \in ReconcileTasks => ReconcileOK(task[t])
    /\ Witnessed(task[t])

(* The inductive invariant behind the theorems about one gateway.          *)
BInv ==
    /\ OneGateway /\ KInv /\ Exchanged
    /\ \A s \in Signals : Truthful(bindings[s])
    /\ \A t \in Tasks : Sound(t)

(* A frame that goes on. *)
Moved(f, p) == [f EXCEPT !.pc = p]

(* Moving on changes the program point only.                               *)
LEMMA MovedType ==
    ASSUME NEW f \in Frames, NEW p \in Pcs
    PROVE  LET n == Moved(f, p) IN
           /\ n \in Frames /\ n.pc = p /\ n.new = f.new /\ n.ok = f.ok /\ n.fail = f.fail
           /\ n.req = f.req /\ n.why = f.why /\ n.seen = f.seen /\ n.obs = f.obs /\ n.sub = f.sub
BY DEF Frames, Moved

(* A step that only changes one frame.                                     *)
LEMMA TaskOnly ==
    ASSUME BInv, KInv', NEW t \in Tasks, NEW f, task' = [task EXCEPT ![t] = f],
           UNCHANGED <<bindings, xcount, xorder>>,
           t \in PlaceTasks => PlaceOK(f), t \in ReconcileTasks => ReconcileOK(f), Witnessed(f)
    PROVE  BInv'
<1>1. task'[t] = f /\ \A u \in Tasks \ {t} : task'[u] = task[u]
  BY DEF BInv, KInv, TypeOK
<1>2. ASSUME NEW u \in Tasks PROVE Sound(u)'
  <2>1. CASE u = t
    BY <1>1, <2>1 DEF Sound, PlaceOK, ReconcileOK, Witnessed, Truthful, Claimed, Current
  <2>2. CASE u # t
    <3>1. Sound(u) /\ task'[u] = task[u]
      BY <1>1, <2>2 DEF BInv
    <3> QED
      BY <3>1 DEF Sound, PlaceOK, ReconcileOK, Witnessed, Truthful, Claimed, Current
  <2> QED
    BY <2>1, <2>2
<1> QED
  BY <1>2 DEF BInv, OneGateway, Exchanged, Truthful, Claimed

(* The lock of the only gateway admits one placement.                      *)
LEMMA OnlyPlacement ==
    ASSUME BInv, NEW t \in PlaceTasks, NEW u \in PlaceTasks, u # t, task[t].pc # "idle"
    PROVE  task[u].pc = "idle"
<1>1. t \in Tasks /\ u \in Tasks /\ Home[t] = Home[u]
  BY DEF BInv, OneGateway, Tasks
<1> QED
  BY <1>1 DEF BInv, KInv, Locked

(* A move of one task: a placement stays where the binding holds its       *)
(* request.                                                                *)
LEMMA GotoSound ==
    ASSUME BInv, KInv', NEW t \in Tasks, task[t].pc \notin {"idle", "cas"},
           NEW p \in Pcs \ {"cas"}, Goto(t, p),
           t \in PlaceTasks => p \in Placing /\ (p \in Holding => task[t].pc \in Holding),
           UNCHANGED <<bindings, xcount, xorder>>
    PROVE  BInv'
<1> DEFINE f == Moved(task[t], p)
<1>1. task[t] \in Frames /\ task' = [task EXCEPT ![t] = f]
  BY DEF BInv, KInv, TypeOK, Goto, Moved
<1>2. f \in Frames /\ f.pc = p /\ f.req = task[t].req /\ f.seen = task[t].seen
      /\ f.obs = task[t].obs /\ f.sub = task[t].sub
  BY <1>1, MovedType
<1>3. Sound(t)
  BY DEF BInv
<1> HIDE DEF f
<1>4. t \in PlaceTasks => PlaceOK(f)
  BY <1>2, <1>3 DEF Sound, PlaceOK, Current
<1>5. t \in ReconcileTasks => ReconcileOK(f)
  BY <1>2, <1>3 DEF Sound, ReconcileOK, Current
<1>6. Witnessed(f)
  BY <1>2, <1>3 DEF Sound, Witnessed
<1> QED
  BY <1>1, <1>4, <1>5, <1>6, TaskOnly

(* A compare-and-set is prepared from the binding as it is, or as          *)
(* reconcile_binding has seen it.                                          *)
LEMMA TryCasSound ==
    ASSUME BInv, KInv', NEW t \in Tasks, task[t].pc # "idle",
           NEW b \in Bindings, NEW ok \in OnSuccess, NEW fail \in OnConflict, TryCas(t, b, ok, fail),
           t \in PlaceTasks =>
               /\ b.version = Bound(t).version + 1
               /\ b.state \in Lifecycle!After(Bound(t).state)
               /\ ok \in Placing
               /\ ok \in Holding => Held(b, Req(t)),
           t \in ReconcileTasks =>
               /\ b.version <= Bound(t).version + 1
               /\ b.version = Bound(t).version + 1 =>
                     /\ Bound(t).state = "RECONCILIATION_REQUIRED"
                     /\ b.state \in Lifecycle!After("RECONCILIATION_REQUIRED"),
           Truthful(b), UNCHANGED <<bindings, xcount, xorder>>
    PROVE  BInv'
<1> DEFINE f == Casing(task[t], "cas", b, ok, fail)
<1>1. task[t] \in Frames /\ task' = [task EXCEPT ![t] = f] /\ "cas" \in Pcs
  BY Names DEF BInv, KInv, TypeOK, TryCas, Casing
<1>2. /\ f \in Frames /\ f.pc = "cas" /\ f.new = b /\ f.ok = ok
      /\ f.req = task[t].req /\ f.seen = task[t].seen
      /\ f.obs = task[t].obs /\ f.sub = task[t].sub
  BY <1>1, CasingType
<1>3. Sound(t)
  BY DEF BInv
<1> HIDE DEF f
<1>4. t \in PlaceTasks => PlaceOK(f)
  BY <1>2 DEF PlaceOK, Current, Holding, Placing, Bound, Req
<1>5. t \in ReconcileTasks => ReconcileOK(f)
  BY <1>2, <1>3 DEF Sound, ReconcileOK, Current, Bound, Req
<1>6. Witnessed(f)
  BY <1>2, <1>3 DEF Sound, Witnessed
<1> QED
  BY <1>1, <1>4, <1>5, <1>6, TaskOnly

(* What _reserve_preflight makes of a truthful binding: the write-ahead    *)
(* record.                                                                 *)
LEMMA ReservedSound ==
    ASSUME NEW b \in Bindings, NEW r \in Requests, CanReserve(b, r), Truthful(b)
    PROVE  LET n == Reserved(b, r) IN
           n.state \in Lifecycle!After(b.state) /\ Held(n, r) /\ Truthful(n)
<1> DEFINE n == Reserved(b, r)
<1>1. /\ b.state \in Free => n.state = "RESERVED" /\ n.second = None
      /\ b.state \notin Free =>
                /\ n.state = "SECOND_LEG_SUBMITTED" /\ n.second = r
                /\ n.first = b.first /\ n.role = b.role
  BY ReservedType
<1>2. b.state \in Free \/ b.state \in {"FIRST_LEG_ACCEPTED", "HEDGING_REQUIRED"}
  BY DEF CanReserve
<1> HIDE DEF n
<1>3. n.state \in Lifecycle!After(b.state)
  BY <1>1, <1>2 DEF Lifecycle!After, Free
<1>4. Held(n, r)
  BY <1>1 DEF Held
<1>5. Truthful(n)
  BY <1>1, <1>2 DEF Truthful, Claimed, Free
<1> QED
  BY <1>3, <1>4, <1>5 DEF n

(* What _record_preflight_ack makes of a binding that holds the request.   *)
LEMMA AckedSound ==
    ASSUME NEW b \in Bindings, NEW r \in Requests, NEW a \in BOOLEAN, Held(b, r), Truthful(b),
           a => xcount[r] > 0
    PROVE  LET n == Acked(b, r, a) IN
           /\ n.version = b.version + 1 /\ n.state \in Lifecycle!After(b.state) /\ Truthful(n)
<1> DEFINE n == Acked(b, r, a)
           Outcomes == {"COMPLETED", "HEDGING_REQUIRED", "ABORTED"}
<1>1. \A st \in Outcomes : /\ Move(b, st).state = st /\ Move(b, st).version = b.version + 1
                        /\ Move(b, st).role = b.role /\ Move(b, st).first = b.first
                        /\ Move(b, st).second = b.second
  BY MoveType DEF States, Free
<1>2. b.state = "RESERVED" \/ (b.state = "SECOND_LEG_SUBMITTED" /\ b.second = r)
  BY DEF Held
<1>3. CASE b.state = "RESERVED" /\ a
  <2>1. n = [Move(b, "FIRST_LEG_ACCEPTED") EXCEPT !.role = Role[r], !.first = r]
    BY <1>3 DEF Acked
  <2> HIDE DEF n
  <2>2. /\ n.version = b.version + 1 /\ n.state = "FIRST_LEG_ACCEPTED"
        /\ n.role = Role[r] /\ n.first = r
    BY <2>1, FirstLegType
  <2>3. r # None
    BY ConstantsAssumption
  <2>4. n.state \in Lifecycle!After(b.state) /\ Truthful(n)
    BY <1>3, <2>2, <2>3 DEF Lifecycle!After, Truthful, Claimed
  <2> QED
    BY <2>2, <2>4 DEF n
<1>4. CASE b.state = "RESERVED" /\ ~a
  <2>1. n = Move(b, "ABORTED")
    BY <1>4 DEF Acked
  <2>2. n.version = b.version + 1 /\ n.state = "ABORTED"
    BY <1>1, <2>1
  <2> HIDE DEF n
  <2>3. n.state \in Lifecycle!After(b.state) /\ Truthful(n)
    BY <1>4, <2>2 DEF Lifecycle!After, Truthful
  <2> QED
    BY <2>2, <2>3 DEF n
<1>5. CASE b.state = "SECOND_LEG_SUBMITTED"
  <2>1. n = Move(b, IF a THEN "COMPLETED" ELSE "HEDGING_REQUIRED")
    BY <1>5 DEF Acked
  <2>2. /\ n.version = b.version + 1 /\ n.state = (IF a THEN "COMPLETED" ELSE "HEDGING_REQUIRED")
        /\ n.role = b.role /\ n.first = b.first /\ n.second = b.second /\ r # None
    BY <1>1, <2>1, ConstantsAssumption
  <2> HIDE DEF n
  <2>3. n.state \in Lifecycle!After(b.state)
    BY <1>5, <2>2 DEF Lifecycle!After
  <2>4. Truthful(n)
    BY <1>2, <1>5, <2>2 DEF Truthful, Claimed
  <2> QED
    BY <2>2, <2>3, <2>4 DEF n
<1> QED
  BY <1>2, <1>3, <1>4, <1>5

(* What _mark_reconciliation_required makes of a binding that holds the    *)
(* request.                                                                *)
LEMMA InDoubtSound ==
    ASSUME NEW b \in Bindings, NEW r \in Requests, Held(b, r), Truthful(b)
    PROVE  LET n == InDoubt(b, r) IN n.state \in Lifecycle!After(b.state) /\ Truthful(n)
<1> DEFINE n == InDoubt(b, r)
<1>1. /\ n.state = "RECONCILIATION_REQUIRED"
      /\ b.state = "RESERVED" => n.first = r /\ n.second = b.second
      /\ b.state # "RESERVED" => n.second = r /\ n.first = b.first /\ n.role = b.role
  BY InDoubtType
<1> HIDE DEF n
<1>2. n.state \in Lifecycle!After(b.state) /\ Truthful(n)
  BY <1>1 DEF Held, Lifecycle!After, Truthful, Claimed
<1> QED
  BY <1>2 DEF n

(* What _apply_reconciliation_snapshot makes of a binding in doubt: it     *)
(* claims a leg only on evidence that the exchange has it.                 *)
LEMMA VerdictSound ==
    ASSUME NEW b \in Bindings, NEW r \in Requests, NEW snap, NEW obs \in Observations,
           b.state = "RECONCILIATION_REQUIRED", Truthful(b),
           obs.client # "none" \/ obs.fills \/ obs.opens => xcount[r] > 0
    PROVE  LET n == Verdict(b, snap, obs, r) IN
           /\ n.version = b.version + 1
           /\ n.state \in Lifecycle!After("RECONCILIATION_REQUIRED") /\ Truthful(n)
<1> DEFINE n == Verdict(b, snap, obs, r)
<1>1. \A st \in {"COMPLETED", "HEDGING_REQUIRED", "ABORTED", "HALTED"} :
          /\ Move(b, st).state = st /\ Move(b, st).version = b.version + 1
          /\ Move(b, st).role = b.role /\ Move(b, st).first = b.first
          /\ Move(b, st).second = b.second
  BY MoveType DEF States, Free
<1>2. \/ n = Move(b, "HALTED")
      \/ ProvesExists(snap, obs, r) /\ b.second = r /\ n = Move(b, "COMPLETED")
      \/ /\ ProvesExists(snap, obs, r)
         /\ n = [Move(b, "FIRST_LEG_ACCEPTED") EXCEPT !.role = Role[r], !.first = r]
      \/ b.second = r /\ n = Move(b, "HEDGING_REQUIRED")
      \/ n = Move(b, "ABORTED")
  BY DEF Verdict
<1>3. ProvesExists(snap, obs, r) => xcount[r] > 0
  BY DEF ProvesExists, ClientMatches, FillsMatchDelta
<1>4. r # None
  BY ConstantsAssumption
<1> HIDE DEF n
<1>5. CASE n = Move(b, "HALTED") \/ n = Move(b, "ABORTED")
  <2>1. n.version = b.version + 1 /\ n.state \in {"HALTED", "ABORTED"}
    BY <1>1, <1>5
  <2> QED
    BY <2>1 DEF n, Lifecycle!After, Truthful
<1>6. CASE ProvesExists(snap, obs, r) /\ b.second = r /\ n = Move(b, "COMPLETED")
  <2>1. /\ n.version = b.version + 1 /\ n.state = "COMPLETED"
        /\ n.role = b.role /\ n.first = b.first /\ n.second = r
    BY <1>1, <1>6
  <2>2. Truthful(n)
    BY <1>3, <1>4, <1>6, <2>1 DEF Truthful, Claimed
  <2> QED
    BY <2>1, <2>2 DEF n, Lifecycle!After
<1>7. CASE b.second = r /\ n = Move(b, "HEDGING_REQUIRED")
  <2>1. /\ n.version = b.version + 1 /\ n.state = "HEDGING_REQUIRED"
        /\ n.role = b.role /\ n.first = b.first
    BY <1>1, <1>7
  <2>2. Truthful(n)
    BY <1>4, <1>7, <2>1 DEF Truthful, Claimed
  <2> QED
    BY <2>1, <2>2 DEF n, Lifecycle!After
<1>8. CASE /\ ProvesExists(snap, obs, r)
           /\ n = [Move(b, "FIRST_LEG_ACCEPTED") EXCEPT !.role = Role[r], !.first = r]
  <2>1. /\ n.version = b.version + 1 /\ n.state = "FIRST_LEG_ACCEPTED"
        /\ n.role = Role[r] /\ n.first = r
    BY <1>8, FirstLegType
  <2>2. Truthful(n)
    BY <1>3, <1>4, <1>8, <2>1 DEF Truthful, Claimed
  <2> QED
    BY <2>1, <2>2 DEF n, Lifecycle!After
<1> QED
  BY <1>2, <1>5, <1>6, <1>7, <1>8

(* _record_position_snapshot keeps the reservation.                        *)
LEMMA SnappedSound ==
    ASSUME NEW b \in Bindings, NEW r \in Requests, NEW snap \in Snapshots, Held(b, r), Truthful(b)
    PROVE  LET n == [Move(b, b.state) EXCEPT !.snap = snap] IN
           /\ n \in Bindings /\ n.version = b.version + 1
           /\ n.state \in Lifecycle!After(b.state) /\ Held(n, r) /\ Truthful(n)
<1> DEFINE m == Move(b, b.state)
           n == [m EXCEPT !.snap = snap]
<1>1. b.state \in States
  BY DEF Bindings
<1>2. /\ m \in Bindings /\ m.state = b.state /\ m.version = b.version + 1
      /\ m.role = b.role /\ m.first = b.first /\ m.second = b.second
  BY <1>1, MoveType
<1> HIDE DEF m
<1>3. /\ n \in Bindings /\ n.state = b.state /\ n.version = b.version + 1
      /\ n.role = b.role /\ n.first = b.first /\ n.second = b.second
  BY <1>2 DEF Bindings
<1> HIDE DEF n
<1>4. n.state \in Lifecycle!After(b.state)
  BY <1>3 DEF Held, Lifecycle!After
<1>5. Held(n, r) /\ Truthful(n)
  BY <1>3 DEF Held, Truthful, Claimed
<1> QED
  BY <1>3, <1>4, <1>5 DEF n, m

(* place_order, under the lock: every write it prepares is a legal one.    *)
LEMMA PlacementSound ==
    ASSUME BInv, KInv', NEW t \in Tasks,
           \/ Validate(t) \/ Reserve(t) \/ CheckOpenOrders(t) \/ RecordPosition(t)
           \/ Abort(t) \/ Respond(t) \/ SubmitFails(t)
    PROVE  BInv'
<1>1. task[t].pc \in {"validate", "health", "open", "positions", "abort", "abortAgain", "inflight"}
  BY DEF Validate, Reserve, CheckOpenOrders, RecordPosition, Abort, Respond, SubmitFails, At
<1>2. t \in PlaceTasks /\ t \notin ReconcileTasks
  BY <1>1, ConstantsAssumption DEF BInv, KInv, Framed, FrameOK, Reconciling, Fetching, Tasks
<1>3. UNCHANGED <<bindings, xcount, xorder>>
  BY DEF Validate, Reserve, CheckOpenOrders, RecordPosition, Abort, Respond, SubmitFails, xVars
<1>4. /\ Req(t) \in Requests /\ Bound(t) \in Bindings /\ Truthful(Bound(t)) /\ Sound(t)
      /\ task[t] \in Frames
  <2>1. KInv /\ task[t].pc # "idle"
    BY <1>1 DEF BInv
  <2> QED
    BY <2>1, BoundType DEF BInv, Bound, KInv, TypeOK
<1>5. task[t].pc \in Holding => Held(Bound(t), Req(t))
  BY <1>2, <1>4 DEF Sound, PlaceOK, Current, Bound, Req
<1>g. ASSUME NEW p \in Placing \ {"cas"}, Goto(t, p), p \in Holding => task[t].pc \in Holding
      PROVE  BInv'
  <2>1. p \in Pcs \ {"cas"}
    BY DEF Placing, Pcs, Sync
  <2> QED
    BY <1>1, <1>2, <1>3, <1>g, <2>1, GotoSound
<1>c. ASSUME NEW b \in Bindings, NEW ok \in OnSuccess \cap Placing, NEW fail \in OnConflict,
             TryCas(t, b, ok, fail), b.version = Bound(t).version + 1,
             b.state \in Lifecycle!After(Bound(t).state),
             ok \in Holding => Held(b, Req(t)), Truthful(b)
      PROVE  BInv'
  BY <1>1, <1>2, <1>3, <1>c, TryCasSound
<1>n. /\ \A p \in {"health", "reject", "raise"} : p \in Placing \ {"cas"} /\ p \notin Holding
      /\ \A p \in {"abort", "positions", "abortAgain"} : p \in Placing \ {"cas"}
      /\ \A p \in {"open", "send", "abort", "reject", "raise", "accept"} : p \in OnSuccess \cap Placing
      /\ \A p \in {"reject", "raise", "accept"} : p \notin Holding
      /\ \A p \in {"conflict", "abortAgain", "raise", "ackConflict"} : p \in OnConflict
  BY DEF Placing, Holding, OnSuccess, OnConflict
<1>6. CASE Validate(t)
  BY <1>6, <1>g, <1>n DEF Validate
<1>7. CASE Reserve(t)
  <2>1. CASE CanReserve(Bound(t), Req(t)) /\ TryCas(t, Reserved(Bound(t), Req(t)), "open", "conflict")
    <3>1. /\ Reserved(Bound(t), Req(t)) \in Bindings
          /\ Reserved(Bound(t), Req(t)).version = Bound(t).version + 1
      BY <1>4, ReservedType
    <3>2. /\ Reserved(Bound(t), Req(t)).state \in Lifecycle!After(Bound(t).state)
          /\ Held(Reserved(Bound(t), Req(t)), Req(t)) /\ Truthful(Reserved(Bound(t), Req(t)))
      BY <1>4, <2>1, ReservedSound
    <3> QED
      BY <1>c, <1>n, <2>1, <3>1, <3>2
  <2>2. CASE Goto(t, "reject") \/ Goto(t, "raise")
    BY <1>g, <1>n, <2>2
  <2> QED
    BY <1>7, <2>1, <2>2 DEF Reserve
<1>8. CASE CheckOpenOrders(t)
  <2>1. PICK p \in {"abort", "positions", "abortAgain"} : Goto(t, p)
    BY <1>8 DEF CheckOpenOrders
  <2>2. task[t].pc \in Holding
    BY <1>8 DEF CheckOpenOrders, At, Holding
  <2> QED
    BY <1>g, <1>n, <2>1, <2>2
<1>9. CASE RecordPosition(t)
  <2>1. task[t].pc \in Holding
    BY <1>9 DEF RecordPosition, At, Holding
  <2>2. CASE Goto(t, "abortAgain")
    BY <1>g, <1>n, <2>1, <2>2
  <2>3. ASSUME NEW snap \in Snapshots, NEW ok \in {"abort", "send"},
               TryCas(t, [Move(Bound(t), Bound(t).state) EXCEPT !.snap = snap], ok, "abortAgain")
        PROVE  BInv'
    <3> DEFINE b == [Move(Bound(t), Bound(t).state) EXCEPT !.snap = snap]
    <3>1. /\ b \in Bindings /\ b.version = Bound(t).version + 1
          /\ b.state \in Lifecycle!After(Bound(t).state) /\ Held(b, Req(t)) /\ Truthful(b)
      BY <1>4, <1>5, <2>1, SnappedSound
    <3>2. TryCas(t, b, ok, "abortAgain")
      BY <2>3
    <3> HIDE DEF b
    <3> QED
      BY <1>c, <1>n, <3>1, <3>2
  <2>4. [role |-> Role[Req(t)], before |-> pos[Role[Req(t)]], prior |-> task[t].prior] \in Snapshots
    <3>1. Role[Req(t)] \in Roles /\ pos[Role[Req(t)]] \in Int
      BY <1>4, ConstantsAssumption DEF BInv, KInv, TypeOK
    <3>2. task[t].prior \in SUBSET Requests
      BY <1>4 DEF Frames
    <3> QED
      BY <3>1, <3>2 DEF Snapshots
  <2> QED
    BY <1>9, <2>2, <2>3, <2>4 DEF RecordPosition
<1>10. CASE Abort(t)
  <2> DEFINE b == Move(Bound(t), "ABORTED")
  <2>1. b \in Bindings /\ b.version = Bound(t).version + 1 /\ b.state = "ABORTED"
    BY <1>4, MoveType DEF States, Free
  <2>2. Held(Bound(t), Req(t))
    BY <1>5, <1>10 DEF Abort, At, Holding
  <2>3. TryCas(t, b, "reject", "abortAgain") \/ TryCas(t, b, "raise", "raise")
    BY <1>10 DEF Abort
  <2> HIDE DEF b
  <2>4. b.state \in Lifecycle!After(Bound(t).state) /\ Truthful(b)
    BY <2>1, <2>2 DEF Held, Lifecycle!After, Truthful
  <2> QED
    BY <1>c, <1>n, <2>1, <2>3, <2>4
<1>11. CASE Respond(t)
  <2> DEFINE a == task[t].sub = "accepted"
             b == Acked(Bound(t), Req(t), a)
  <2>1. Held(Bound(t), Req(t)) /\ TryCas(t, b, "accept", "ackConflict")
    BY <1>5, <1>11 DEF Respond, At, Holding
  <2>2. a \in BOOLEAN /\ (a => xcount[Req(t)] > 0)
    BY <1>4 DEF Sound, Witnessed, Req
  <2> HIDE DEF a
  <2>3. /\ b \in Bindings /\ b.version = Bound(t).version + 1
        /\ b.state \in Lifecycle!After(Bound(t).state) /\ Truthful(b)
    BY <1>4, <2>1, <2>2, AckedType, AckedSound
  <2> HIDE DEF b
  <2> QED
    BY <1>c, <1>n, <2>1, <2>3
<1>12. CASE SubmitFails(t)
  <2> DEFINE b == InDoubt(Bound(t), Req(t))
  <2>1. Held(Bound(t), Req(t)) /\ (TryCas(t, b, "raise", "raise") \/ Goto(t, "raise"))
    BY <1>5, <1>12 DEF SubmitFails, At, Holding
  <2>2. /\ b \in Bindings /\ b.version = Bound(t).version + 1
        /\ b.state \in Lifecycle!After(Bound(t).state) /\ Truthful(b)
    BY <1>4, <2>1, InDoubtType, InDoubtSound
  <2> HIDE DEF b
  <2> QED
    BY <1>c, <1>g, <1>n, <2>1, <2>2
<1> QED
  BY <1>6, <1>7, <1>8, <1>9, <1>10, <1>11, <1>12

(* A task that is not in a call owes nothing.                              *)
LEMMA IdleSound == PlaceOK(Idle) /\ ReconcileOK(Idle) /\ Witnessed(Idle)
BY DEF Idle, NoObs, PlaceOK, ReconcileOK, Witnessed, Placing, Holding

(* An order is sent under its reservation.                                 *)
LEMMA SendSound == ASSUME BInv, KInv', NEW t \in Tasks, Send(t) PROVE BInv'
<1> DEFINE f == [task[t] EXCEPT !.pc = "inflight", !.sub = "sent"]
<1>1. /\ task[t].pc = "send" /\ task[t] \in Frames /\ Sound(t)
      /\ task' = [task EXCEPT ![t] = f] /\ UNCHANGED <<bindings, xcount, xorder>>
  BY DEF Send, At, BInv, KInv, TypeOK, xVars
<1>2. t \in PlaceTasks /\ t \notin ReconcileTasks
  BY <1>1, ConstantsAssumption DEF BInv, KInv, Framed, FrameOK, Reconciling, Fetching, Tasks
<1>3. f.pc = "inflight" /\ f.req = task[t].req /\ f.obs = task[t].obs /\ f.sub = "sent"
  BY <1>1 DEF Frames
<1> HIDE DEF f
<1>4. PlaceOK(f) /\ Witnessed(f)
  BY <1>1, <1>2, <1>3 DEF Sound, PlaceOK, Witnessed, Current, Placing, Holding
<1> QED
  BY <1>1, <1>2, <1>4, TaskOnly

(* A call returns.                                                         *)
LEMMA ReturnSound == ASSUME BInv, KInv', NEW t \in Tasks, Return(t) PROVE BInv'
<1>1. task' = [task EXCEPT ![t] = Idle] /\ UNCHANGED <<bindings, xcount, xorder>>
  BY DEF Return, xVars
<1> QED
  BY <1>1, IdleSound, TaskOnly

(* reconcile_binding reports only what the exchange had accepted.          *)
LEMMA FetchSound ==
    ASSUME BInv, KInv', NEW t \in Tasks,
           FetchFills(t) \/ LookupOrder(t) \/ FetchOpenOrders(t) \/ FetchPositions(t)
    PROVE  BInv'
<1>0. KInv
  BY DEF BInv
<1>1. /\ task[t].pc \in Fetching /\ task[t].pc # "idle" /\ UNCHANGED <<bindings, xcount, xorder>>
  BY DEF FetchFills, LookupOrder, FetchOpenOrders, FetchPositions, At, Fetching, xVars
<1>2. /\ task[t] \in Frames /\ task[t].obs \in Observations /\ Sound(t) /\ Req(t) \in Requests
      /\ FrameOK(t, task[t])
  BY <1>0, <1>1, BoundType DEF BInv, KInv, TypeOK, Frames, Framed
<1>3. t \notin PlaceTasks /\ t \in ReconcileTasks /\ task[t].why = "reconcile"
  <2>1. t \notin PlaceTasks
    BY <1>1, <1>2 DEF Sound, PlaceOK, Placing, Fetching
  <2> QED
    BY <1>1, <1>2, <2>1 DEF Tasks, FrameOK, Reconciling
<1>4. xorder[Req(t)] # "none" => xcount[Req(t)] > 0
  BY <1>2 DEF BInv, Exchanged
<1>5. ASSUME NEW o, NEW p \in Fetching \cup {"apply"}, task' = [task EXCEPT ![t] = Looking(task[t], p, o)],
             o.client # "none" \/ o.fills \/ o.opens => xcount[Req(t)] > 0
      PROVE  BInv'
  <2> DEFINE f == Looking(task[t], p, o)
  <2>1. /\ f.pc = p /\ f.req = task[t].req /\ f.obs = o /\ f.sub = task[t].sub
        /\ f.seen = task[t].seen
    BY <1>2 DEF Frames, Looking
  <2>2. task' = [task EXCEPT ![t] = f] /\ p # "cas"
    BY <1>5 DEF Fetching
  <2> HIDE DEF f
  <2>3. ReconcileOK(f)
    BY <1>1, <1>2, <1>3, <2>1, <2>2 DEF Sound, ReconcileOK, Current
  <2>4. Witnessed(f)
    BY <1>2, <1>5, <2>1, <2>2 DEF Sound, Witnessed, Req
  <2> QED
    BY <1>1, <1>3, <2>2, <2>3, <2>4, TaskOnly
<1>6. \A p \in {"lookup", "opens", "positionsAfter", "apply"} : p \in Fetching \cup {"apply"}
  BY DEF Fetching
<1>7. task[t].obs.client # "none" \/ task[t].obs.fills \/ task[t].obs.opens => xcount[Req(t)] > 0
  BY <1>1, <1>2 DEF Sound, Witnessed, Req
<1>8. CASE FetchFills(t)
  <2> DEFINE v == xorder[Req(t)] = "filled" /\ task[t].dirty = "no" /\ SinceSnapshot(t)
             o == [task[t].obs EXCEPT !.fills = v]
  <2>1. /\ o.client = task[t].obs.client /\ o.opens = task[t].obs.opens /\ (o.fills <=> v)
    BY <1>2 DEF Observations
  <2>2. task' = [task EXCEPT ![t] = Looking(task[t], "lookup", o)]
    BY <1>0, <1>8 DEF FetchFills, Looking, KInv, TypeOK, Frames
  <2>3. v => xcount[Req(t)] > 0
    BY <1>4
  <2> HIDE DEF o, v
  <2> QED
    BY <1>5, <1>6, <1>7, <2>1, <2>2, <2>3
<1>9. CASE LookupOrder(t)
  <2>1. PICK status : /\ status = xorder[Req(t)] \/ xorder[Req(t)] = "open"
                      /\ task' = [task EXCEPT ![t] = [@ EXCEPT !.pc = "opens", !.obs.client = status,
                                                         !.obs.clean = task[t].dirty = "no"]]
    BY <1>9 DEF LookupOrder
  <2> DEFINE v == task[t].dirty = "no"
             o == [task[t].obs EXCEPT !.client = status, !.clean = v]
  <2>2. o.client = status /\ o.opens = task[t].obs.opens /\ o.fills = task[t].obs.fills
    BY <1>2 DEF Observations
  <2>3. task' = [task EXCEPT ![t] = Looking(task[t], "opens", o)]
    <3>1. task' = [task EXCEPT ![t] = [@ EXCEPT !.pc = "opens", !.obs.client = status,
                                                !.obs.clean = v]]
      BY <2>1
    <3> HIDE DEF v
    <3> QED
      BY <1>0, <3>1 DEF Looking, KInv, TypeOK, Frames
  <2>4. status # "none" => xcount[Req(t)] > 0
    BY <1>4, <2>1
  <2> HIDE DEF o
  <2> QED
    BY <1>5, <1>6, <1>7, <2>2, <2>3, <2>4
<1>10. CASE FetchOpenOrders(t)
  <2> DEFINE v == xorder[Req(t)] = "open" /\ task[t].dirty # "created" /\ SinceSnapshot(t)
             o == [task[t].obs EXCEPT !.opens = v]
  <2>1. /\ o.client = task[t].obs.client /\ o.fills = task[t].obs.fills /\ (o.opens <=> v)
    BY <1>2 DEF Observations
  <2>2. task' = [task EXCEPT ![t] = Looking(task[t], "positionsAfter", o)]
    BY <1>0, <1>10 DEF FetchOpenOrders, Looking, KInv, TypeOK, Frames
  <2>3. v => xcount[Req(t)] > 0
    BY <1>4
  <2> HIDE DEF o, v
  <2> QED
    BY <1>5, <1>6, <1>7, <2>1, <2>2, <2>3
<1>11. CASE FetchPositions(t)
  <2> DEFINE o == [task[t].obs EXCEPT !.pos = pos[Role[Req(t)]]]
  <2>1. /\ o.client = task[t].obs.client /\ o.fills = task[t].obs.fills
        /\ o.opens = task[t].obs.opens
    BY <1>2 DEF Observations
  <2>2. task' = [task EXCEPT ![t] = Looking(task[t], "apply", o)]
    BY <1>0, <1>3, <1>11 DEF FetchPositions, Looking, KInv, TypeOK, Frames
  <2> HIDE DEF o
  <2> QED
    BY <1>5, <1>6, <1>7, <2>1, <2>2
<1> QED
  BY <1>8, <1>9, <1>10, <1>11

(* reconcile_binding writes a binding in doubt, or none: its version has   *)
(* moved on.                                                               *)
LEMMA RefreshSound ==
    ASSUME BInv, KInv', NEW t \in Tasks,
           \/ StartRefresh(t) \/ RefreshFails(t) \/ HandleConflict(t) \/ ApplyVerdict(t)
           \/ HaltAmbiguous(t) \/ Handled(t)
    PROVE  BInv'
<1>1. /\ task[t].pc \in Fetching \cup {"conflict", "ackConflict", "handle", "apply",
                                        "haltAmbiguous", "handled"}
      /\ UNCHANGED <<bindings, xcount, xorder>>
  BY DEF StartRefresh, RefreshFails, HandleConflict, ApplyVerdict, HaltAmbiguous, Handled, At, xVars
<1>2. /\ task[t] \in Frames /\ Sound(t) /\ Req(t) \in Requests /\ FrameOK(t, task[t])
      /\ Bound(t) \in Bindings /\ Truthful(Bound(t)) /\ task[t].pc \notin {"idle", "cas"}
      /\ task[t].seen \in Bindings /\ task[t].obs \in Observations
  <2>1. KInv /\ task[t].pc \notin {"idle", "cas"}
    BY <1>1 DEF BInv, Fetching
  <2>2. task[t] \in Frames
    BY DEF BInv, KInv, TypeOK
  <2> QED
    BY <2>1, <2>2, BoundType DEF BInv, KInv, Framed, Frames, Bound
<1>3. t \notin PlaceTasks /\ t \in ReconcileTasks /\ task[t].why = "reconcile"
      /\ task[t].pc \in Fetching \cup {"apply", "handled"}
  <2>1. t \notin PlaceTasks
    BY <1>1, <1>2 DEF Sound, PlaceOK, Placing, Fetching
  <2> QED
    BY <1>1, <1>2, <2>1 DEF Tasks, FrameOK, Reconciling, Fetching
<1>g. ASSUME NEW p \in {"raise", "handled"}, Goto(t, p) PROVE BInv'
  <2>1. p \in Pcs \ {"cas"}
    BY Names
  <2> QED
    BY <1>1, <1>2, <1>3, <1>g, <2>1, GotoSound
<1>c. ASSUME NEW b \in Bindings, NEW ok \in {"raise", "handled"}, TryCas(t, b, ok, "raise"),
             b.version <= Bound(t).version + 1,
             b.version = Bound(t).version + 1 =>
                     /\ Bound(t).state = "RECONCILIATION_REQUIRED"
                     /\ b.state \in Lifecycle!After("RECONCILIATION_REQUIRED"),
             Truthful(b)
      PROVE  BInv'
  <2>1. ok \in OnSuccess /\ "raise" \in OnConflict
    BY Names
  <2> QED
    BY <1>1, <1>2, <1>3, <1>c, <2>1, TryCasSound
<1>4. CASE RefreshFails(t)
  <2> DEFINE b == Move(task[t].seen, "HALTED")
  <2>1. TryCas(t, b, "raise", "raise")
    BY <1>3, <1>4 DEF RefreshFails
  <2>2. b \in Bindings /\ b.version = task[t].seen.version + 1 /\ b.state = "HALTED"
    BY <1>2, MoveType DEF States
  <2>3. /\ task[t].seen.version <= Bound(t).version
        /\ task[t].seen.version = Bound(t).version => Bound(t).state = "RECONCILIATION_REQUIRED"
    BY <1>2, <1>3 DEF Sound, ReconcileOK, Current, Bound, Req
  <2>4. task[t].seen.version \in Nat /\ Bound(t).version \in Nat
    BY <1>2 DEF Bindings
  <2> HIDE DEF b
  <2>5. Truthful(b) /\ b.state \in Lifecycle!After("RECONCILIATION_REQUIRED")
    BY <2>2 DEF Truthful, Lifecycle!After
  <2>6. /\ b.version <= Bound(t).version + 1
        /\ b.version = Bound(t).version + 1 => Bound(t).state = "RECONCILIATION_REQUIRED"
    BY <2>2, <2>3, <2>4
  <2> QED
    BY <1>c, <2>1, <2>2, <2>5, <2>6
<1>5. CASE ApplyVerdict(t)
  <2>1. CASE Goto(t, "raise")
    BY <1>g, <2>1
  <2>2. ASSUME NEW snap, Bound(t).state = "RECONCILIATION_REQUIRED",
               TryCas(t, Verdict(Bound(t), snap, task[t].obs, Req(t)), "handled", "raise")
        PROVE  BInv'
    <3> DEFINE b == Verdict(Bound(t), snap, task[t].obs, Req(t))
    <3>1. task[t].obs.client # "none" \/ task[t].obs.fills \/ task[t].obs.opens => xcount[Req(t)] > 0
      BY <1>2 DEF Sound, Witnessed, Req
    <3>2. /\ b \in Bindings /\ b.version = Bound(t).version + 1
          /\ b.state \in Lifecycle!After("RECONCILIATION_REQUIRED") /\ Truthful(b)
      BY <1>2, <2>2, <3>1, VerdictType, VerdictSound
    <3>3. TryCas(t, b, "handled", "raise") /\ b.version <= Bound(t).version + 1
      <4>1. Bound(t).version \in Nat
        BY <1>2 DEF Bindings
      <4> QED
        BY <2>2, <3>2, <4>1
    <3> HIDE DEF b
    <3> QED
      BY <1>c, <2>2, <3>2, <3>3
  <2> QED
    BY <1>3, <1>5, <2>1, <2>2 DEF ApplyVerdict
<1>6. CASE Handled(t)
  BY <1>3, <1>6, <1>g DEF Handled
<1> QED
  BY <1>3, <1>4, <1>5, <1>6 DEF StartRefresh, HandleConflict, HaltAmbiguous, At, Fetching

(* A write to a binding does not disturb a task that is waiting for an     *)
(* answer.                                                                 *)
LEMMA WrittenSound ==
    ASSUME BInv, NEW s \in Signals, NEW b \in Bindings, bindings' = [bindings EXCEPT ![s] = b],
           b.version = bindings[s].version + 1, xcount' = xcount,
           NEW u \in Tasks, task'[u] = task[u], task[u].pc \notin Sync,
           u \in PlaceTasks => task[u].pc = "idle" \/ bindings[s].state \notin Pending
    PROVE  Sound(u)'
<1>1. Sound(u) /\ task[u] \in Frames /\ task[u].pc # "cas" /\ bindings \in [Signals -> Bindings]
  BY DEF BInv, KInv, TypeOK, Sync
<1>2. Witnessed(task[u])'
  BY <1>1 DEF Sound, Witnessed
<1>3. CASE task[u].pc = "idle"
  BY <1>1, <1>2, <1>3 DEF Sound, PlaceOK, ReconcileOK, Placing, Holding
<1>4. CASE task[u].pc # "idle"
  <2>1. SignalOf[task[u].req] \in Signals
    BY <1>4, BoundType DEF BInv, Req
  <2>2. Current(task[u])' = IF SignalOf[task[u].req] = s THEN b ELSE Current(task[u])
    BY <1>1, <2>1 DEF Current
  <2>3. ASSUME u \in PlaceTasks PROVE PlaceOK(task[u])'
    <3>1. task[u].pc \in Holding => SignalOf[task[u].req] # s
      BY <1>1, <1>4, <2>3 DEF Sound, PlaceOK, Current, Held, Pending
    <3> QED
      BY <1>1, <2>2, <2>3, <3>1 DEF Sound, PlaceOK, Held
  <2>4. ASSUME u \in ReconcileTasks PROVE ReconcileOK(task[u])'
    <3>1. /\ task[u].seen.version <= Current(task[u]).version
          /\ task[u].seen.version = Current(task[u]).version
                => Current(task[u]).state = "RECONCILIATION_REQUIRED"
      BY <1>1, <1>4, <2>4 DEF Sound, ReconcileOK
    <3>2. task[u].seen.version \in Nat /\ bindings[s].version \in Nat
      BY <1>1 DEF Frames, Bindings
    <3>3. CASE SignalOf[task[u].req] = s
      <4>1. task[u].seen.version < b.version /\ Current(task[u])' = b
        BY <2>2, <3>1, <3>2, <3>3 DEF Current
      <4> QED
        BY <1>1, <3>2, <4>1 DEF ReconcileOK
    <3>4. CASE SignalOf[task[u].req] # s
      BY <1>1, <2>2, <3>1, <3>4 DEF ReconcileOK
    <3> QED
      BY <3>3, <3>4
  <2> QED
    BY <1>2, <2>3, <2>4 DEF Sound
<1> QED
  BY <1>3, <1>4

(* Between two awaits the only event loop belongs to one task.             *)
LEMMA OthersWait ==
    ASSUME BInv, NEW t \in Tasks, NEW p, At(t, p)
    PROVE  \A u \in Tasks \ {t} : task[u].pc \notin Sync
BY DEF BInv, OneGateway, At

(* compare_and_set on the only gateway: a placement never meets a          *)
(* conflict.                                                               *)
LEMMA CasSound == ASSUME BInv, KInv', NEW t \in Tasks, Cas(t) PROVE BInv'
<1> DEFINE s == SignalOf[Req(t)]
           swapped == bindings[s].version + 1 = task[t].new.version
           p == IF swapped THEN task[t].ok ELSE task[t].fail
<1>b. PICK b : b = task[t].new
  OBVIOUS
<1>f. PICK f : f = Casing(task[t], p, Unbound, "idle", "idle")
  OBVIOUS
<1>1. /\ task[t].pc = "cas" /\ task[t] \in Frames /\ FrameOK(t, task[t]) /\ Sound(t)
      /\ \A u \in Tasks \ {t} : task[u].pc \notin Sync
  BY OthersWait DEF Cas, At, BInv, KInv, TypeOK, Framed
<1>2. s \in Signals /\ b \in Bindings /\ bindings \in [Signals -> Bindings] /\ Truthful(b)
      /\ Bound(t) = bindings[s] /\ Current(task[t]) = bindings[s]
  <2>1. KInv
    BY DEF BInv
  <2> QED
    BY <1>b, <1>1, <2>1, BoundType DEF Frames, KInv, TypeOK, Sound, Witnessed, Bound, Current, Req
<1>3. /\ task' = [task EXCEPT ![t] = f] /\ UNCHANGED <<xcount, xorder>>
      /\ bindings' = IF swapped THEN [bindings EXCEPT ![s] = b] ELSE bindings
  BY <1>b, <1>f DEF Cas, Casing, xVars
<1>4. f \in Frames /\ f.pc = p /\ f.req = task[t].req /\ f.seen = task[t].seen
      /\ f.obs = task[t].obs /\ f.sub = task[t].sub /\ p # "cas"
      /\ (t \in ReconcileTasks => p \in {"handled", "raise"})
  <2>1. p \in Pcs /\ p # "cas"
    BY <1>1 DEF Frames, OnSuccess, OnConflict, Pcs, Sync
  <2>2. "idle" \in OnSuccess \cup {"idle"} /\ "idle" \in OnConflict \cup {"idle"}
    OBVIOUS
  <2>3. t \in ReconcileTasks => p \in {"handled", "raise"}
    BY <1>1 DEF FrameOK, Reconciling
  <2> HIDE DEF p
  <2> QED
    BY <1>f, <1>1, <2>1, <2>2, <2>3, UnboundType, CasingType
<1>5. task'[t] = f /\ \A u \in Tasks \ {t} : task'[u] = task[u]
  BY <1>3 DEF BInv, KInv, TypeOK
<1>6. Witnessed(f)
  BY <1>1, <1>4 DEF Sound, Witnessed
<1>7. CASE ~swapped
  <2>1. t \notin PlaceTasks /\ bindings' = bindings
    BY <1>b, <1>1, <1>2, <1>3, <1>7 DEF Sound, PlaceOK
  <2>2. t \in ReconcileTasks => ReconcileOK(f)
    BY <1>1, <1>4 DEF Sound, ReconcileOK, Current
  <2> QED
    BY <1>3, <1>6, <2>1, <2>2, TaskOnly
<1>8. CASE swapped
  <2>1. /\ bindings' = [bindings EXCEPT ![s] = b] /\ bindings'[s] = b
        /\ b.version = bindings[s].version + 1 /\ p = task[t].ok
    BY <1>b, <1>2, <1>3, <1>8
  <2> HIDE DEF swapped, p
  <2>2. SignalOf[f.req] = s /\ bindings'[SignalOf[f.req]] = b
    BY <1>4, <2>1 DEF Req
  <2>3. ASSUME t \in PlaceTasks PROVE PlaceOK(f)'
    <3>1. p \in Placing /\ (p \in Holding => Held(b, task[t].req))
      BY <1>b, <1>1, <2>1, <2>3 DEF Sound, PlaceOK
    <3> QED
      BY <1>4, <2>2, <3>1 DEF PlaceOK, Current, Held
  <2>4. ASSUME t \in ReconcileTasks PROVE ReconcileOK(f)' /\ bindings[s].state = "RECONCILIATION_REQUIRED"
    <3>1. /\ f.seen.version <= bindings[s].version
          /\ bindings[s].state = "RECONCILIATION_REQUIRED"
      BY <1>b, <1>1, <1>2, <1>4, <2>1, <2>4 DEF Sound, ReconcileOK
    <3>2. f.seen.version \in Nat /\ bindings[s].version \in Nat
      BY <1>2, <1>4 DEF Frames, Bindings
    <3>3. f.seen.version < b.version
      BY <2>1, <3>1, <3>2
    <3> QED
      BY <1>4, <2>1, <2>2, <3>1, <3>2, <3>3 DEF ReconcileOK, Current
  <2>5. Sound(t)'
    BY <1>3, <1>5, <1>6, <2>3, <2>4 DEF Sound, Witnessed, Truthful, Claimed
  <2>6. ASSUME NEW u \in Tasks \ {t} PROVE Sound(u)'
    <3>1. task'[u] = task[u] /\ task[u].pc \notin Sync
      BY <1>1, <1>5
    <3>2. u \in PlaceTasks => task[u].pc = "idle" \/ bindings[s].state \notin Pending
      <4>1. CASE t \in PlaceTasks
        BY <1>1, <4>1, OnlyPlacement
      <4>2. CASE t \in ReconcileTasks
        BY <2>4, <4>2 DEF Pending
      <4> QED
        BY <4>1, <4>2 DEF Tasks
    <3> QED
      BY <1>2, <1>3, <2>1, <3>1, <3>2, WrittenSound
  <2>7. \A q \in Signals : Truthful(bindings[q])'
    <3>1. \A q \in Signals : Truthful(bindings'[q])
      BY <1>2, <2>1 DEF BInv
    <3> QED
      BY <1>3, <3>1 DEF Truthful, Claimed
  <2> QED
    BY <1>3, <2>5, <2>6, <2>7 DEF BInv, OneGateway, Exchanged
<1> QED
  BY <1>7, <1>8

(* Every step of a task.                                                   *)
LEMMA TaskStepSound == ASSUME BInv, KInv', NEW t \in Tasks, TaskStep(t) PROVE BInv'
BY CasSound, PlacementSound, SendSound, ReturnSound, FetchSound, RefreshSound DEF TaskStep

(* halt_binding leaves reservations alone.                                 *)
LEMMA HaltBindingSound == ASSUME BInv, KInv', NEW s \in Signals, HaltBinding(s) PROVE BInv'
<1>1. PICK b : b = Move(bindings[s], "HALTED")
  OBVIOUS
<1>2. /\ bindings \in [Signals -> Bindings] /\ b \in Bindings
      /\ b.version = bindings[s].version + 1 /\ b.state = "HALTED"
  BY <1>1, MoveType DEF BInv, KInv, TypeOK, States
<1>3. /\ bindings' = [bindings EXCEPT ![s] = b] /\ UNCHANGED <<task, xcount, xorder>>
      /\ bindings[s].state \notin Pending /\ \A u \in Tasks : task[u].pc \notin Sync
  BY <1>1 DEF HaltBinding, xVars, Pending
<1>4. \A u \in Tasks : Sound(u)'
  BY <1>2, <1>3, WrittenSound
<1>5. \A q \in Signals : Truthful(bindings[q])'
  <2>1. \A q \in Signals : Truthful(bindings'[q])
    BY <1>2, <1>3 DEF BInv, Truthful
  <2> QED
    BY <1>3, <2>1 DEF Truthful, Claimed
<1> QED
  BY <1>3, <1>4, <1>5 DEF BInv, OneGateway, Exchanged

(* What the exchange accepted stays accepted, so no claim is lost beside   *)
(* the tasks.                                                              *)
LEMMA BesideSound ==
    ASSUME BInv, KInv', Beside, Exchanged',
           \A r \in Requests : xcount[r] > 0 => xcount'[r] > 0,
           \A t \in Tasks : task'[t].sub = "accepted" =>
               task[t].sub = "accepted" \/ xcount'[task[t].req] > 0
    PROVE  BInv'
<1>1. ASSUME NEW b \in Bindings, Truthful(b) PROVE Truthful(b)'
  <2>1. Claimed(b) => Claimed(b)'
    BY DEF Claimed, Bindings
  <2>2. b.second # None /\ xcount[b.second] > 0 => xcount'[b.second] > 0
    BY DEF Bindings
  <2> QED
    BY <1>1, <2>1, <2>2 DEF Truthful
<1>2. \A s \in Signals : Truthful(bindings[s])'
  <2>1. \A s \in Signals : bindings[s] \in Bindings /\ Truthful(bindings[s]) /\ bindings'[s] = bindings[s]
    BY DEF BInv, KInv, TypeOK, Beside
  <2>2. SUFFICES ASSUME NEW s \in Signals PROVE Truthful(bindings[s])'
    OBVIOUS
  <2>3. PICK b \in Bindings : b = bindings[s] /\ Truthful(b)
    BY <2>1
  <2>4. Truthful(b)' /\ bindings'[s] = b
    BY <1>1, <2>1, <2>3
  <2> QED
    BY <2>4 DEF Truthful, Claimed
<1>3. ASSUME NEW t \in Tasks PROVE Sound(t)'
  <2>1. PICK f \in Frames : f = task[t]
    BY DEF BInv, KInv, TypeOK
  <2>2. PICK n \in Frames : n = task'[t]
    BY DEF Beside
  <2>3. /\ Marked(f, n) /\ Sound(t) /\ FrameOK(t, f) /\ bindings' = bindings
    BY <2>1, <2>2 DEF Beside, BInv, KInv, Framed
  <2>4. t \in PlaceTasks => PlaceOK(n)'
    BY <2>1, <2>3 DEF Sound, PlaceOK, Marked, Current
  <2>5. t \in ReconcileTasks => ReconcileOK(n)'
    BY <2>1, <2>3 DEF Sound, ReconcileOK, Marked, Current
  <2>6. Witnessed(n)'
    <3>1. n.pc = f.pc /\ n.req = f.req /\ n.obs = f.obs /\ n.new = f.new
      BY <2>3 DEF Marked
    <3>2. n.pc # "idle" \/ f.sub # "none" => n.req \in Requests
      BY <2>3, <3>1 DEF FrameOK
    <3>3. n.sub = "accepted" => xcount'[n.req] > 0
      BY <2>1, <2>2, <2>3, <3>1, <3>2 DEF Sound, Witnessed
    <3>4. n.pc # "idle" /\ (n.obs.client # "none" \/ n.obs.fills \/ n.obs.opens) => xcount'[n.req] > 0
      BY <2>1, <2>3, <3>1, <3>2 DEF Sound, Witnessed
    <3>5. n.pc = "cas" => Truthful(n.new)'
      <4>1. n.pc = "cas" => Truthful(n.new)
        BY <2>1, <2>3, <3>1 DEF Sound, Witnessed
      <4>2. n.new \in Bindings
        BY DEF Frames
      <4> QED
        BY <1>1, <4>1, <4>2
    <3> QED
      BY <3>3, <3>4, <3>5 DEF Witnessed
  <2> QED
    BY <2>2, <2>4, <2>5, <2>6 DEF Sound
<1> QED
  BY <1>2, <1>3 DEF BInv, OneGateway

(* The operator's calls accept no order.                                   *)
LEMMA OperatorSound ==
    ASSUME BInv, KInv',
           \/ \E g \in Gateways : ActivateKillSwitch(g) \/ CancelAll(g)
           \/ \E r \in Requests : CancelOrder(r)
           \/ \E l \in Roles : ClosePosition(l)
    PROVE  BInv'
<1>1. KInv /\ Beside
  BY OperatorBeside DEF BInv
<1>2. /\ xcount' = xcount
      /\ \A t \in Tasks : task'[t].sub = task[t].sub
  <2>1. xcount' = xcount
    BY DEF ActivateKillSwitch, CancelAll, CancelOrder, ClosePosition, xVars
  <2>2. ASSUME NEW t \in Tasks PROVE task'[t].sub = task[t].sub
    <3>1. "updated" \in Touched
      BY DEF Touched
    <3>2. \A r : Touch(r, "updated")[t].sub = task[t].sub
      BY <1>1, <3>1, TouchMarks
    <3>3. \/ task' = task \/ \E r : task' = Touch(r, "updated")
          \/ task' = [u \in Tasks |-> IF task[u].req \in OpenOrders
                                       THEN Touch(task[u].req, "updated")[u] ELSE task[u]]
      BY DEF ActivateKillSwitch, CancelAll, CancelOrder, ClosePosition
    <3> QED
      BY <3>2, <3>3
  <2> QED
    BY <2>1, <2>2
<1>3. Exchanged'
  <2>1. \A r \in Requests : xorder'[r] # "none" => xorder[r] # "none"
    BY DEF ActivateKillSwitch, CancelAll, CancelOrder, ClosePosition, BInv, KInv, TypeOK, xVars
  <2> QED
    BY <1>2, <2>1 DEF BInv, Exchanged
<1> QED
  BY <1>1, <1>2, <1>3, BesideSound DEF BInv, Sound, Witnessed

(* The exchange's own steps.                                               *)
LEMMA ExchangeSound == ASSUME BInv, KInv', ExchangeStep PROVE BInv'
<1>1. KInv /\ Beside /\ xcount \in [Requests -> Nat] /\ xorder \in [Requests -> OrderStates]
      /\ task \in [Tasks -> Frames]
  BY ExchangeBeside DEF BInv, KInv, TypeOK
<1>2. "updated" \in Touched /\ "created" \in Touched
  BY DEF Touched
<1>3. ASSUME NEW r \in Requests, Opened(r)
      PROVE  Exchanged' /\ xcount'[r] > 0 /\ \A q \in Requests : xcount[q] > 0 => xcount'[q] > 0
  BY <1>1, <1>3 DEF Opened, BInv, Exchanged
<1>4. ASSUME NEW t \in PlaceTasks, ExchangeAccepts(t) PROVE BInv'
  <2>1. t \in Tasks /\ Req(t) \in Requests
    BY <1>1, <1>4, BoundType DEF ExchangeAccepts, Tasks
  <2>2. Exchanged' /\ xcount'[Req(t)] > 0 /\ \A q \in Requests : xcount[q] > 0 => xcount'[q] > 0
    BY <1>3, <1>4, <2>1 DEF ExchangeAccepts
  <2>3. \A u \in Tasks \ {t} : task'[u].sub = task[u].sub
    <3>1. \A u \in Tasks : Touch(Req(t), "created")[u].sub = task[u].sub
      BY <1>1, <1>2, TouchMarks
    <3>2. \A u \in Tasks \ {t} : task'[u] = Touch(Req(t), "created")[u]
      BY <1>4 DEF ExchangeAccepts, Touch
    <3> QED
      BY <3>1, <3>2
  <2> QED
    BY <1>1, <2>2, <2>3, BesideSound DEF Req
<1>5. ASSUME NEW t \in PlaceTasks, ExchangeRejects(t) PROVE BInv'
  <2>1. UNCHANGED <<xcount, xorder>> /\ \A u \in Tasks : task'[u].sub = "accepted" => task[u].sub = "accepted"
    BY <1>1, <1>5 DEF ExchangeRejects, xVars, Frames
  <2>2. Exchanged'
    BY <2>1 DEF BInv, Exchanged
  <2> QED
    BY <1>1, <2>1, <2>2, BesideSound
<1>6. ASSUME NEW r \in Requests, Fill(r) PROVE BInv'
  <2>1. \A u \in Tasks : task'[u].sub = task[u].sub
    BY <1>1, <1>2, <1>6, TouchMarks DEF Fill
  <2>2. Exchanged' /\ xcount' = xcount
    BY <1>1, <1>6 DEF Fill, BInv, Exchanged
  <2> QED
    BY <1>1, <2>1, <2>2, BesideSound
<1>7. ASSUME NEW r \in Requests, ArrivesLate(r) PROVE BInv'
  <2>1. \A u \in Tasks : task'[u].sub = task[u].sub
    BY <1>1, <1>2, <1>7, TouchMarks DEF ArrivesLate
  <2>2. Exchanged' /\ \A q \in Requests : xcount[q] > 0 => xcount'[q] > 0
    BY <1>3, <1>7 DEF ArrivesLate
  <2> QED
    BY <1>1, <2>1, <2>2, BesideSound
<1> QED
  BY <1>4, <1>5, <1>6, <1>7 DEF ExchangeStep

(* A call starts.                                                          *)
LEMMA CallsSound == ASSUME BInv, KInv', Calls PROVE BInv'
<1>1. ASSUME NEW t \in PlaceTasks, NEW r \in Requests, PlaceStart(t, r) PROVE BInv'
  <2>1. PICK f : f = [Idle EXCEPT !.pc = "validate", !.req = r,
                                  !.prior = {q \in Requests : xorder[q] # "none"}]
    OBVIOUS
  <2>2. t \in Tasks /\ t \notin ReconcileTasks
    BY ConstantsAssumption DEF Tasks
  <2>3. task' = [task EXCEPT ![t] = f] /\ UNCHANGED <<bindings, xcount, xorder>>
    BY <1>1, <2>1 DEF PlaceStart, xVars
  <2>4. f.pc = "validate" /\ f.sub = "none" /\ f.obs = NoObs
    BY <2>1 DEF Idle
  <2>5. PlaceOK(f) /\ Witnessed(f)
    BY <2>4 DEF PlaceOK, Witnessed, Placing, Holding, NoObs
  <2> QED
    BY <2>2, <2>3, <2>5, TaskOnly
<1>2. ASSUME NEW t \in ReconcileTasks, NEW r \in Requests, ReconcileStart(t, r) PROVE BInv'
  <2>1. PICK b : b = bindings[SignalOf[r]]
    OBVIOUS
  <2>2. PICK f : f = [Idle EXCEPT !.pc = "fills", !.req = r, !.why = "reconcile", !.seen = b]
    OBVIOUS
  <2>3. t \in Tasks /\ t \notin PlaceTasks /\ b \in Bindings
    BY <2>1, ConstantsAssumption DEF Tasks, BInv, KInv, TypeOK
  <2>4. /\ task' = [task EXCEPT ![t] = f] /\ UNCHANGED <<bindings, xcount, xorder>>
        /\ b.state = "RECONCILIATION_REQUIRED"
    BY <1>2, <2>1, <2>2 DEF ReconcileStart, xVars
  <2>5. f.pc = "fills" /\ f.sub = "none" /\ f.obs = NoObs /\ f.req = r /\ f.seen = b
    BY <2>2 DEF Idle
  <2>6. ReconcileOK(f) /\ Witnessed(f)
    <3>1. b.version \in Nat
      BY <2>3 DEF Bindings
    <3> QED
      BY <2>1, <2>4, <2>5, <3>1 DEF ReconcileOK, Witnessed, Current, NoObs
  <2> QED
    BY <2>3, <2>4, <2>6, TaskOnly
<1> QED
  BY <1>1, <1>2 DEF Calls

(* A restart forgets frames and no binding.                                *)
LEMMA RestartSound == ASSUME BInv, KInv', NEW g \in Gateways, Restart(g) PROVE BInv'
<1>1. \A t \in Tasks : task'[t] \in {Idle, task[t]}
  BY DEF Restart
<1>2. UNCHANGED <<bindings, xcount, xorder>>
  BY DEF Restart
<1>3. ASSUME NEW t \in Tasks PROVE Sound(t)'
  <2>1. CASE task'[t] = Idle
    BY <2>1 DEF Sound, Idle, NoObs, PlaceOK, ReconcileOK, Witnessed, Placing, Holding
  <2>2. CASE task'[t] = task[t]
    <3>1. Sound(t)
      BY DEF BInv
    <3> QED
      BY <1>2, <2>2, <3>1 DEF Sound, PlaceOK, ReconcileOK, Witnessed, Truthful, Claimed, Current
  <2> QED
    BY <1>1, <2>1, <2>2
<1> QED
  BY <1>2, <1>3 DEF BInv, OneGateway, Exchanged, Truthful, Claimed

(* The invariant holds of one idle gateway.                                *)
LEMMA BInvInit == Init /\ OneGateway => BInv
<1> SUFFICES ASSUME Init, OneGateway PROVE BInv
  OBVIOUS
<1>1. \A t \in Tasks : Sound(t)
  BY IdleSound DEF Init, Sound
<1>2. \A s \in Signals : Truthful(bindings[s])
  BY DEF Init, Truthful, Unbound
<1> QED
  BY <1>1, <1>2, KInvInit DEF BInv, Init, Exchanged

(* Every step of one gateway keeps it.                                     *)
LEMMA BInvStep == BInv /\ [Next]_vars => BInv'
<1> SUFFICES ASSUME BInv, [Next]_vars PROVE BInv'
  OBVIOUS
<1>0. KInv'
  BY KInvStep DEF BInv
<1>1. CASE Calls
  BY <1>0, <1>1, CallsSound
<1>2. ASSUME NEW t \in Tasks, TaskStep(t) PROVE BInv'
  BY <1>0, <1>2, TaskStepSound
<1>3. CASE OperatorStep
  <2>1. ASSUME NEW s \in Signals, HaltBinding(s) PROVE BInv'
    BY <1>0, <2>1, HaltBindingSound
  <2>2. ASSUME NEW g \in Gateways, Restart(g) PROVE BInv'
    BY <1>0, <2>2, RestartSound
  <2>3. CASE \/ \E g \in Gateways : ActivateKillSwitch(g) \/ CancelAll(g)
             \/ \E r \in Requests : CancelOrder(r)
             \/ \E l \in Roles : ClosePosition(l)
    BY <1>0, <2>3, OperatorSound
  <2> QED
    BY <1>3, <2>1, <2>2, <2>3 DEF OperatorStep
<1>4. CASE ExchangeStep
  BY <1>0, <1>4, ExchangeSound
<1>5. CASE UNCHANGED vars
  <2>1. UNCHANGED <<bindings, xcount, xorder, task>>
    BY <1>5 DEF vars, xVars
  <2>2. \A t \in Tasks : Sound(t)'
    BY <2>1 DEF BInv, Sound, PlaceOK, ReconcileOK, Witnessed, Truthful, Claimed, Current
  <2> QED
    BY <1>0, <2>1, <2>2 DEF BInv, OneGateway, Exchanged, Truthful, Claimed
<1> QED
  BY <1>1, <1>2, <1>3, <1>4, <1>5 DEF Next

(* WriteAhead for every instance with one gateway: while the adapter's     *)
(* place_order is under way the durable binding is reserved for that       *)
(* request, whatever reconcile_binding, halt_binding and failing reads do  *)
(* meanwhile.                                                              *)
THEOREM SubmissionsRecorded == OneGateway /\ Spec => []WriteAhead
<1>1. BInv => WriteAhead
  <2> SUFFICES ASSUME BInv, NEW t \in Tasks, task[t].pc \in {"send", "inflight"}
               PROVE  Held(Bound(t), Req(t))
    BY DEF WriteAhead, Held
  <2>1. t \in PlaceTasks
    BY DEF BInv, KInv, Framed, FrameOK, Reconciling, Fetching, Tasks
  <2> QED
    BY <2>1 DEF BInv, Sound, PlaceOK, Holding, Current, Bound, Req
<1> QED
  BY <1>1, BInvInit, BInvStep, PTL DEF Spec

(* BindingTruthful for every instance with one gateway, late deliveries    *)
(* and restarts included: no acknowledgement, reconciliation or recovery   *)
(* ever records a leg the exchange did not accept.                         *)
THEOREM BindingsTruthful == OneGateway /\ Spec => []BindingTruthful
<1>1. BInv => BindingTruthful
  BY DEF BInv, BindingTruthful, Truthful, Claimed
<1> QED
  BY <1>1, BInvInit, BInvStep, PTL DEF Spec

-----------------------------------------------------------------------------
(* A counted write along an arrow of the life cycle is one of its steps.   *)
LEMMA WriteRefines ==
    ASSUME BInv, NEW s \in Signals, NEW b \in Bindings, bindings' = [bindings EXCEPT ![s] = b],
           b.version = bindings[s].version + 1, b.state \in Lifecycle!After(bindings[s].state)
    PROVE  Lifecycle!Next
<1> DEFINE st == [q \in Signals |-> bindings[q].state]
           ve == [q \in Signals |-> bindings[q].version]
<1>1. bindings \in [Signals -> Bindings]
  BY DEF BInv, KInv, TypeOK
<1>2. /\ [q \in Signals |-> bindings'[q].state] = [st EXCEPT ![s] = b.state]
      /\ [q \in Signals |-> bindings'[q].version] = [ve EXCEPT ![s] = @ + 1]
  BY <1>1
<1>3. st[s] = bindings[s].state
  OBVIOUS
<1>4. Lifecycle!Write(s)
  BY <1>2, <1>3 DEF Lifecycle!Write
<1> QED
  BY <1>4 DEF Lifecycle!Next

(* Only compare_and_set and halt_binding write bindings, and both follow   *)
(* the arrows.                                                             *)
LEMMA StepRefines == BInv /\ [Next]_vars => [Lifecycle!Next]_(Lifecycle!lifecycle)
<1> SUFFICES ASSUME BInv, [Next]_vars PROVE Lifecycle!Next \/ UNCHANGED bindings
  BY DEF Lifecycle!lifecycle
<1>1. ASSUME NEW t \in Tasks, Cas(t) PROVE Lifecycle!Next \/ UNCHANGED bindings
  <2> DEFINE s == SignalOf[Req(t)]
             b == task[t].new
  <2>1. /\ task[t].pc = "cas" /\ task[t] \in Frames /\ Sound(t) /\ KInv
    BY <1>1 DEF Cas, At, BInv, KInv, TypeOK
  <2>2. s \in Signals /\ b \in Bindings /\ Current(task[t]) = bindings[s]
    BY <2>1, BoundType DEF Frames, Current, Req
  <2>3. CASE bindings[s].version + 1 = b.version
    <3>1. bindings' = [bindings EXCEPT ![s] = b]
      BY <1>1, <2>3 DEF Cas
    <3>2. b.state \in Lifecycle!After(bindings[s].state)
      BY <2>1, <2>2, <2>3 DEF Sound, PlaceOK, ReconcileOK, Tasks
    <3> QED
      BY <2>2, <2>3, <3>1, <3>2, WriteRefines
  <2>4. CASE bindings[s].version + 1 # b.version
    BY <1>1, <2>4 DEF Cas
  <2> QED
    BY <2>3, <2>4
<1>2. ASSUME NEW s \in Signals, HaltBinding(s) PROVE Lifecycle!Next
  <2> DEFINE b == Move(bindings[s], "HALTED")
  <2>1. /\ b \in Bindings /\ b.version = bindings[s].version + 1 /\ b.state = "HALTED"
    BY MoveType DEF BInv, KInv, TypeOK, States
  <2>2. /\ bindings' = [bindings EXCEPT ![s] = b]
        /\ bindings[s].state \in {"HEDGING_REQUIRED", "RECONCILIATION_REQUIRED"}
    BY <1>2 DEF HaltBinding
  <2> HIDE DEF b
  <2>3. b.state \in Lifecycle!After(bindings[s].state)
    BY <2>1, <2>2 DEF Lifecycle!After
  <2> QED
    BY <2>1, <2>2, <2>3, WriteRefines
<1>3. ASSUME NEW t \in Tasks, TaskStep(t), ~Cas(t) PROVE UNCHANGED bindings
  BY <1>3 DEF TaskStep, Validate, Reserve, CheckOpenOrders, RecordPosition, Abort, Send, Respond,
              SubmitFails, Return, StartRefresh, FetchFills, LookupOrder, FetchOpenOrders,
              FetchPositions, RefreshFails, HandleConflict, ApplyVerdict, HaltAmbiguous, Handled
<1>4. CASE Calls \/ ExchangeStep \/ UNCHANGED vars
  BY <1>4 DEF Calls, PlaceStart, ReconcileStart, ExchangeStep, ExchangeAccepts, ExchangeRejects,
              Fill, ArrivesLate, vars
<1>5. CASE OperatorStep
  BY <1>2, <1>5 DEF OperatorStep, ActivateKillSwitch, CancelAll, Restart, CancelOrder, ClosePosition
<1> QED
  BY <1>1, <1>3, <1>4, <1>5 DEF Next

(* FollowsLifecycle: with one gateway, every behaviour of place_order,     *)
(* reconcile_binding and halt_binding is one BindingLifecycle allows -     *)
(* COMPLETED and HALTED are final and no outcome is recorded for a leg     *)
(* that was not reserved.                                                  *)
THEOREM GatewayRefines == OneGateway /\ Spec => FollowsLifecycle
<1>1. Init => Lifecycle!Init
  BY DEF Init, Lifecycle!Init, Unbound
<1> QED
  BY <1>1, BInvInit, BInvStep, StepRefines, PTL DEF Spec, FollowsLifecycle, Lifecycle!Spec

-----------------------------------------------------------------------------
(* One gateway, one reconciliation at a time, and no order that arrives    *)
(* after its call has failed.                                              *)
Alone ==
    /\ OneGateway /\ ~LateDelivery
    /\ \A t, u \in ReconcileTasks : t = u

(* An order that is open or was filled.                                    *)
Live(r) == xorder[r] \in {"open", "filled"}

(* The binding b stands for r: while it is in this state r is not sent.    *)
Counted(r, b) ==
    \/ b.state \in {"COMPLETED", "HALTED"}
    \/ b.state \in {"FIRST_LEG_ACCEPTED", "SECOND_LEG_SUBMITTED", "HEDGING_REQUIRED"} /\ b.first = r
    \/ b.state = "RECONCILIATION_REQUIRED" /\ r \in {b.first, b.second}

(* The caller's next call with r is answered from a receipt.               *)
Receipted(r) == \E t \in Tasks : receipts[Home[t]][KeyOf[r]] # None

(* The placement that sent r has its answer and is about to record it.     *)
Carried(r, f) ==
    /\ f.req = r /\ f.sub = "accepted"
    /\ f.pc = "inflight" \/ (f.pc = "cas" /\ Counted(r, f.new))

(* Why a live order is not sent again.                                     *)
Accounted(r) ==
    \/ r \in stranded \/ Receipted(r)
    \/ Counted(r, bindings[SignalOf[r]])
    \/ \E t \in PlaceTasks : Carried(r, task[t])

(* A placement that may still reach the exchange.                          *)
Due(f) ==
    \/ f.pc \in {"open", "positions", "send"}
    \/ f.pc = "cas" /\ f.ok \in {"open", "send"}
    \/ f.pc = "inflight" /\ f.sub = "sent"

(* The request that reserved a free binding is no recovery.                *)
Entered(b) ==
    b.state \in {"FIRST_LEG_ACCEPTED", "SECOND_LEG_SUBMITTED", "HEDGING_REQUIRED",
                 "RECONCILIATION_REQUIRED"} => b.first # None /\ Recovery[b.first] = None

(* A placement has no receipt yet, and the request it may still send is    *)
(* not live.                                                               *)
PlaceClean(f) ==
    /\ f.pc # "idle" => ~Receipted(f.req)
    /\ Due(f) => ~Live(f.req) \/ f.req \in stranded
    /\ f.pc \in Holding /\ Current(f).state = "RESERVED" => Recovery[f.req] = None
    /\ f.pc = "cas" =>
          /\ f.new.state = "RESERVED" => Recovery[f.req] = None
          /\ Current(f).state \notin {"RECONCILIATION_REQUIRED", "HALTED"}

(* The write of n over the binding b of signal s goes on standing for what *)
(* b stands for, or strands it.                                            *)
Kept(s, b, n) ==
    /\ Entered(n)
    /\ \A r \in Requests : SignalOf[r] = s /\ Live(r) /\ Counted(r, b) =>
          \/ Counted(r, n)
          \/ b.state = "SECOND_LEG_SUBMITTED" /\ n.state = "ABORTED" /\ r = b.first

(* A write that can still succeed.                                         *)
Keeps(f) ==
    f.pc = "cas" /\ f.new.version = Current(f).version + 1
        => Kept(SignalOf[f.req], Current(f), f.new)

(* Only a halt comes between a reconciliation and the binding it has read, *)
(* and an order that is live was found.                                    *)
Steady(f) ==
    /\ f.pc \in Fetching \cup {"apply"} =>
          /\ Current(f) = f.seen \/ Current(f).state = "HALTED"
          /\ f.seen.state = "RECONCILIATION_REQUIRED" /\ f.req = Unresolved(f.seen)
    /\ f.pc \in {"opens", "positionsAfter", "apply"} /\ Live(f.req)
          => f.obs.client \in {"open", "filled", "pending"}

(* The frame f of task t may go on without sending a live order.           *)
Clean(t, f) ==
    /\ t \in PlaceTasks => PlaceClean(f)
    /\ t \in ReconcileTasks => Steady(f)
    /\ Keeps(f)

(* Every live order is accounted for, and every frame is clean.            *)
Settled ==
    /\ \A r \in Requests : Live(r) => Accounted(r)
    /\ \A s \in Signals : Entered(bindings[s])
    /\ \A t \in Tasks : Clean(t, task[t])

(* The inductive invariant behind NothingSentTwice, until the first        *)
(* restart.                                                                *)
DInv == Alone /\ late = {} /\ (restarts = 0 => Settled)

(* A step that only changes one frame.                                     *)
LEMMA FrameSettled ==
    ASSUME BInv, Settled, NEW t \in Tasks, NEW f, task' = [task EXCEPT ![t] = f],
           UNCHANGED <<bindings, xorder, receipts, stranded>>, Clean(t, f),
           t \in PlaceTasks => \A r \in Requests : Carried(r, task[t]) => Carried(r, f)
    PROVE  Settled'
<1>1. task'[t] = f /\ \A u \in Tasks \ {t} : task'[u] = task[u]
  BY DEF BInv, KInv, TypeOK
<1>2. ASSUME NEW r \in Requests, Live(r)' PROVE Accounted(r)'
  <2>1. Accounted(r)
    BY <1>2 DEF Settled, Live
  <2>2. Receipted(r)' = Receipted(r)
    BY DEF Receipted
  <2>3. ASSUME NEW u \in PlaceTasks, Carried(r, task[u]) PROVE Carried(r, task'[u])
    BY <1>1, <2>3 DEF Tasks
  <2> QED
    BY <2>1, <2>2, <2>3 DEF Accounted
<1>3. ASSUME NEW g, NEW u \in Tasks, Clean(u, g) PROVE Clean(u, g)'
  BY <1>3 DEF Clean, PlaceClean, Receipted, Live, Current, Keeps, Kept, Steady
<1>4. ASSUME NEW u \in Tasks PROVE Clean(u, task[u])'
  <2>1. PICK g : g = task'[u]
    OBVIOUS
  <2>2. Clean(u, g)
    BY <1>1, <2>1 DEF Settled
  <2>3. Clean(u, g)'
    BY <1>3, <2>2
  <2> QED
    BY <2>1, <2>3 DEF Clean, PlaceClean, Keeps, Steady, Current
<1> QED
  BY <1>2, <1>4 DEF Settled

(* _reserve_preflight admits no request that is live.                      *)
LEMMA ReservesNothingLive ==
    ASSUME BInv, Settled, NEW t \in PlaceTasks, task[t].pc = "health",
           CanReserve(Bound(t), Req(t)), Live(Req(t))
    PROVE  Req(t) \in stranded
<1>1. t \in Tasks /\ Req(t) \in Requests /\ Truthful(Bound(t)) /\ Entered(Bound(t)) /\ None # "unwind"
  <2>1. t \in Tasks /\ KInv /\ task[t].pc # "idle"
    BY DEF Tasks, BInv
  <2>2. Req(t) \in Requests /\ SignalOf[Req(t)] \in Signals
    BY <2>1, BoundType
  <2> QED
    BY <2>1, <2>2, ConstantsAssumption DEF BInv, Settled, Bound
<1>2. ~Receipted(Req(t))
  BY <1>1 DEF Settled, Clean, PlaceClean, Req
<1>3. ASSUME NEW u \in PlaceTasks PROVE ~Carried(Req(t), task[u])
  <2>1. CASE u = t
    BY <2>1 DEF Carried
  <2>2. CASE u # t
    <3>1. task[u].pc = "idle"
      BY <2>2, OnlyPlacement
    <3> QED
      BY <3>1 DEF Carried
  <2> QED
    BY <2>1, <2>2
<1>4. ~Counted(Req(t), Bound(t))
  BY <1>1 DEF CanReserve, HedgingAllowed, Counted, Entered, Truthful, Claimed, Free
<1> QED
  BY <1>1, <1>2, <1>3, <1>4 DEF Settled, Accounted, Bound

(* _reserve_preflight goes on standing for the first leg.                  *)
LEMMA ReservedKept ==
    ASSUME NEW s, NEW b \in Bindings, NEW r \in Requests, CanReserve(b, r), Entered(b)
    PROVE  /\ Kept(s, b, Reserved(b, r))
           /\ Reserved(b, r).state = "RESERVED" => Recovery[r] = None
<1>1. PICK n : n = Reserved(b, r)
  OBVIOUS
<1>2. /\ b.state \in Free => n.state = "RESERVED" /\ n.second = None
      /\ b.state \notin Free =>
                /\ n.state = "SECOND_LEG_SUBMITTED" /\ n.second = r
                /\ n.first = b.first /\ n.role = b.role
  BY <1>1, ReservedType
<1>3. \/ b.state \in Free /\ Recovery[r] = None
      \/ b.state \in {"FIRST_LEG_ACCEPTED", "HEDGING_REQUIRED"}
  BY DEF CanReserve
<1>4. Kept(s, b, n) /\ (n.state = "RESERVED" => Recovery[r] = None)
  BY <1>2, <1>3 DEF Kept, Entered, Counted, Free
<1> QED
  BY <1>1, <1>4

(* _record_preflight_ack stands for the leg that was acknowledged, too.    *)
LEMMA AckedKept ==
    ASSUME NEW s, NEW b \in Bindings, NEW r \in Requests, NEW a \in BOOLEAN, Held(b, r), Entered(b),
           b.state = "RESERVED" => Recovery[r] = None
    PROVE  LET n == Acked(b, r, a) IN
           Kept(s, b, n) /\ n.state # "RESERVED" /\ (a => Counted(r, n))
<1>1. \A st \in {"COMPLETED", "HEDGING_REQUIRED", "ABORTED"} :
          Move(b, st).state = st /\ Move(b, st).first = b.first
  BY MoveType DEF States, Free
<1>2. b.state = "RESERVED" \/ (b.state = "SECOND_LEG_SUBMITTED" /\ b.second = r)
  BY DEF Held
<1>3. PICK n : n = Acked(b, r, a)
  OBVIOUS
<1>4. CASE b.state = "RESERVED" /\ a
  <2>1. n.state = "FIRST_LEG_ACCEPTED" /\ n.first = r /\ r # None
    BY <1>3, <1>4, FirstLegType, ConstantsAssumption DEF Acked
  <2> QED
    BY <1>3, <1>4, <2>1 DEF Kept, Entered, Counted
<1>5. CASE b.state = "RESERVED" /\ ~a
  <2>1. n.state = "ABORTED"
    BY <1>1, <1>3, <1>5 DEF Acked
  <2> QED
    BY <1>3, <1>5, <2>1 DEF Kept, Entered, Counted
<1>6. CASE b.state = "SECOND_LEG_SUBMITTED"
  <2>1. n.state = (IF a THEN "COMPLETED" ELSE "HEDGING_REQUIRED") /\ n.first = b.first
    BY <1>1, <1>3, <1>6 DEF Acked
  <2> QED
    BY <1>3, <1>6, <2>1 DEF Kept, Entered, Counted
<1> QED
  BY <1>2, <1>4, <1>5, <1>6

(* So does _mark_reconciliation_required for the leg in doubt.             *)
LEMMA InDoubtKept ==
    ASSUME NEW s, NEW b \in Bindings, NEW r \in Requests, Held(b, r), Entered(b),
           b.state = "RESERVED" => Recovery[r] = None
    PROVE  LET n == InDoubt(b, r) IN
           Kept(s, b, n) /\ n.state # "RESERVED" /\ Counted(r, n)
<1>1. PICK n : n = InDoubt(b, r)
  OBVIOUS
<1>2. /\ n.state = "RECONCILIATION_REQUIRED" /\ r # None
      /\ b.state = "RESERVED" => n.first = r /\ n.second = b.second
      /\ b.state # "RESERVED" => n.second = r /\ n.first = b.first
  BY <1>1, InDoubtType, ConstantsAssumption
<1>3. Kept(s, b, n) /\ n.state # "RESERVED" /\ Counted(r, n)
  BY <1>2 DEF Held, Kept, Entered, Counted
<1> QED
  BY <1>1, <1>3

(* What a reconciliation makes of a binding in doubt: an order that is     *)
(* live was found, so no verdict denies it.                                *)
LEMMA VerdictKept ==
    ASSUME NEW s, NEW b \in Bindings, NEW r \in Requests, NEW snap, NEW obs \in Observations,
           b.state = "RECONCILIATION_REQUIRED", Entered(b), r = Unresolved(b),
           Live(r) => obs.client \in {"open", "filled", "pending"}
    PROVE  Kept(s, b, Verdict(b, snap, obs, r))
<1>1. \A st \in {"COMPLETED", "HEDGING_REQUIRED", "ABORTED", "HALTED"} :
          Move(b, st).state = st /\ Move(b, st).first = b.first
  BY MoveType DEF States, Free
<1>2. PICK n : n = Verdict(b, snap, obs, r)
  OBVIOUS
<1>3. \/ n = Move(b, "HALTED")
      \/ b.second = r /\ n = Move(b, "COMPLETED")
      \/ b.second # r /\ n = [Move(b, "FIRST_LEG_ACCEPTED") EXCEPT !.role = Role[r], !.first = r]
      \/ /\ ProvesAbsent(snap, obs, r) /\ ~ProvesExists(snap, obs, r) /\ ~Ambiguous(snap, obs, r)
         /\ n = Move(b, IF b.second = r THEN "HEDGING_REQUIRED" ELSE "ABORTED")
  BY <1>2 DEF Verdict
<1>4. /\ b.second # r => b.first = r /\ b.second = None
      /\ None \notin Requests /\ b.first # None /\ Recovery[b.first] = None
  BY ConstantsAssumption DEF Unresolved, Entered
<1>5. CASE n = Move(b, "HALTED") \/ n = Move(b, "COMPLETED")
  <2>1. n.state \in {"HALTED", "COMPLETED"}
    BY <1>1, <1>5
  <2> QED
    BY <1>2, <2>1 DEF Kept, Entered, Counted
<1>6. CASE b.second # r /\ n = [Move(b, "FIRST_LEG_ACCEPTED") EXCEPT !.role = Role[r], !.first = r]
  <2>1. n.state = "FIRST_LEG_ACCEPTED" /\ n.first = r
    BY <1>6, FirstLegType
  <2>2. Kept(s, b, n)
    BY <1>4, <1>6, <2>1 DEF Kept, Entered, Counted
  <2> QED
    BY <1>2, <2>2
<1>7. CASE /\ ProvesAbsent(snap, obs, r) /\ ~ProvesExists(snap, obs, r) /\ ~Ambiguous(snap, obs, r)
           /\ n = Move(b, IF b.second = r THEN "HEDGING_REQUIRED" ELSE "ABORTED")
  <2>1. ~Live(r)
    BY <1>7 DEF ProvesAbsent, ProvesExists, Ambiguous
  <2>2. /\ n.state = (IF b.second = r THEN "HEDGING_REQUIRED" ELSE "ABORTED")
        /\ n.first = b.first
    BY <1>1, <1>7
  <2>3. Kept(s, b, n)
    BY <1>4, <2>1, <2>2 DEF Kept, Entered, Counted
  <2> QED
    BY <1>2, <2>3
<1> QED
  BY <1>3, <1>5, <1>6, <1>7

(* place_order, under the lock: it prepares no submission of a live order, *)
(* and no write that forgets one.                                          *)
LEMMA PlacementSettled ==
    ASSUME BInv, Settled, NEW t \in Tasks,
           \/ Validate(t) \/ Reserve(t) \/ CheckOpenOrders(t) \/ RecordPosition(t)
           \/ Abort(t) \/ Respond(t) \/ SubmitFails(t)
    PROVE  Settled'
<1>1. task[t].pc \in {"validate", "health", "open", "positions", "abort", "abortAgain", "inflight"}
  BY DEF Validate, Reserve, CheckOpenOrders, RecordPosition, Abort, Respond, SubmitFails, At
<1>2. t \in PlaceTasks /\ t \notin ReconcileTasks
  BY <1>1, ConstantsAssumption DEF BInv, KInv, Framed, FrameOK, Reconciling, Fetching, Tasks
<1>3. UNCHANGED <<bindings, xorder, receipts, stranded>>
  BY DEF Validate, Reserve, CheckOpenOrders, RecordPosition, Abort, Respond, SubmitFails, xVars, gwVars
<1>4. /\ Req(t) \in Requests /\ Bound(t) \in Bindings /\ Entered(Bound(t))
      /\ task[t] \in Frames /\ PlaceClean(task[t]) /\ Sound(t)
  <2>1. KInv /\ task[t].pc # "idle" /\ task[t] \in Frames
    BY <1>1 DEF BInv, KInv, TypeOK
  <2> QED
    BY <1>2, <2>1, BoundType DEF Settled, Clean, Bound, BInv
<1>5. task[t].pc \in Holding =>
          /\ Held(Bound(t), Req(t))
          /\ Bound(t).state = "RESERVED" => Recovery[Req(t)] = None
  BY <1>2, <1>4 DEF Sound, PlaceOK, PlaceClean, Current, Bound, Req
<1>g. ASSUME NEW p \in Placing \ {"cas", "inflight"}, Goto(t, p), task[t].pc # "inflight",
             p \in Holding => task[t].pc \in Holding,
             p \in {"open", "positions", "send"} => Due(task[t])
      PROVE  Settled'
  <2>1. PICK f : f = Moved(task[t], p)
    OBVIOUS
  <2>2. p \in Pcs /\ p \notin {"cas", "inflight"}
    BY DEF Placing, Pcs, Sync
  <2>3. /\ task' = [task EXCEPT ![t] = f]
        /\ f.pc = p /\ f.req = task[t].req /\ f.sub = task[t].sub
    BY <1>4, <1>g, <2>1, <2>2, MovedType DEF Goto, Moved
  <2>4. PlaceClean(f)
    <3>1. Due(f) => Due(task[t])
      BY <1>g, <2>2, <2>3 DEF Due
    <3> QED
      BY <1>1, <1>4, <1>g, <2>2, <2>3, <3>1 DEF PlaceClean, Current
  <2>5. Clean(t, f)
    BY <1>2, <2>2, <2>3, <2>4 DEF Clean, Keeps
  <2>6. \A r : ~Carried(r, task[t])
    BY <1>1, <1>g DEF Carried
  <2> QED
    BY <1>3, <2>3, <2>5, <2>6, FrameSettled
<1>c. ASSUME NEW b \in Bindings, NEW ok \in OnSuccess, NEW fail \in OnConflict,
             TryCas(t, b, ok, fail), Kept(SignalOf[Req(t)], Bound(t), b),
             Bound(t).state \notin {"RECONCILIATION_REQUIRED", "HALTED"},
             ok \in {"open", "send"} => ~Live(Req(t)) \/ Req(t) \in stranded,
             b.state = "RESERVED" => Recovery[Req(t)] = None,
             task[t].pc = "inflight" /\ task[t].sub = "accepted" => Counted(Req(t), b)
      PROVE  Settled'
  <2>1. PICK f : f = Casing(task[t], "cas", b, ok, fail)
    OBVIOUS
  <2>2. task' = [task EXCEPT ![t] = f]
    BY <1>c, <2>1 DEF TryCas, Casing
  <2>3. /\ f.pc = "cas" /\ f.new = b /\ f.ok = ok
        /\ f.req = task[t].req /\ f.sub = task[t].sub
    <3>1. "cas" \in Pcs
      BY Names
    <3> QED
      BY <1>4, <2>1, <3>1, CasingType
  <2>4. PlaceClean(f)
    <3>1. f.pc \notin Holding /\ (Due(f) <=> ok \in {"open", "send"})
      BY <2>3 DEF Holding, Due
    <3>2. ~Receipted(f.req)
      BY <1>1, <1>4, <2>3 DEF PlaceClean
    <3> QED
      BY <1>c, <2>3, <3>1, <3>2 DEF PlaceClean, Current, Bound, Req
  <2>5. Clean(t, f)
    BY <1>2, <1>c, <2>3, <2>4 DEF Clean, Keeps, Current, Bound, Req
  <2>6. \A r : Carried(r, task[t]) => Carried(r, f)
    BY <1>1, <1>c, <2>3 DEF Carried, Req
  <2> QED
    BY <1>3, <2>2, <2>5, <2>6, FrameSettled
<1>n. /\ \A p \in {"health", "reject", "raise"} :
            p \in Placing \ {"cas", "inflight"} /\ p \notin Holding /\ p \notin {"open", "positions", "send"}
      /\ \A p \in {"abort", "positions", "abortAgain"} : p \in Placing \ {"cas", "inflight"}
      /\ \A p \in {"open", "send", "abort", "reject", "raise", "accept"} : p \in OnSuccess
      /\ \A p \in {"conflict", "abortAgain", "raise", "ackConflict"} : p \in OnConflict
  BY DEF Placing, Holding, OnSuccess, OnConflict
<1>6. CASE Validate(t)
  <2>1. task[t].pc # "inflight"
    BY <1>6 DEF Validate, At
  <2> QED
    BY <1>6, <1>g, <1>n, <2>1 DEF Validate
<1>7. CASE Reserve(t)
  <2>0. task[t].pc = "health"
    BY <1>7 DEF Reserve, At
  <2>1. CASE CanReserve(Bound(t), Req(t)) /\ TryCas(t, Reserved(Bound(t), Req(t)), "open", "conflict")
    <3>1. Reserved(Bound(t), Req(t)) \in Bindings
      BY <1>4, ReservedType
    <3>2. /\ Kept(SignalOf[Req(t)], Bound(t), Reserved(Bound(t), Req(t)))
          /\ Reserved(Bound(t), Req(t)).state = "RESERVED" => Recovery[Req(t)] = None
      BY <1>4, <2>1, ReservedKept
    <3>3. Bound(t).state \notin {"RECONCILIATION_REQUIRED", "HALTED"}
      BY <2>1 DEF CanReserve, Free
    <3>4. ~Live(Req(t)) \/ Req(t) \in stranded
      BY <1>2, <2>0, <2>1, ReservesNothingLive
    <3> QED
      BY <1>c, <1>n, <2>0, <2>1, <3>1, <3>2, <3>3, <3>4
  <2>2. CASE Goto(t, "reject") \/ Goto(t, "raise")
    BY <1>g, <1>n, <2>0, <2>2
  <2> QED
    BY <1>7, <2>1, <2>2 DEF Reserve
<1>8. CASE CheckOpenOrders(t)
  <2>1. PICK p \in {"abort", "positions", "abortAgain"} : Goto(t, p)
    BY <1>8 DEF CheckOpenOrders
  <2>2. task[t].pc \in Holding /\ Due(task[t]) /\ task[t].pc # "inflight"
    BY <1>8 DEF CheckOpenOrders, At, Holding, Due
  <2> QED
    BY <1>g, <1>n, <2>1, <2>2
<1>9. CASE RecordPosition(t)
  <2>1. task[t].pc \in Holding /\ Due(task[t]) /\ task[t].pc # "inflight"
    BY <1>9 DEF RecordPosition, At, Holding, Due
  <2>2. CASE Goto(t, "abortAgain")
    BY <1>g, <1>n, <2>1, <2>2
  <2>3. ASSUME NEW snap \in Snapshots, NEW ok \in {"abort", "send"},
               TryCas(t, [Move(Bound(t), Bound(t).state) EXCEPT !.snap = snap], ok, "abortAgain")
        PROVE  Settled'
    <3>1. PICK m \in Bindings : /\ m = Move(Bound(t), Bound(t).state)
                     /\ m.state = Bound(t).state /\ m.first = Bound(t).first
                     /\ m.second = Bound(t).second
      <4>1. Bound(t).state \in States
        BY <1>4 DEF Bindings
      <4> QED
        BY <1>4, <4>1, MoveType
    <3>2. PICK b : b = [m EXCEPT !.snap = snap]
      OBVIOUS
    <3>3. /\ b \in Bindings /\ b.state = Bound(t).state /\ b.first = Bound(t).first
          /\ b.second = Bound(t).second
      BY <3>1, <3>2 DEF Bindings
    <3>4. TryCas(t, b, ok, "abortAgain")
      BY <2>3, <3>1, <3>2
    <3>5. Kept(SignalOf[Req(t)], Bound(t), b)
      BY <1>4, <3>3 DEF Kept, Entered, Counted
    <3>6. ~Live(Req(t)) \/ Req(t) \in stranded
      BY <1>4, <2>1 DEF PlaceClean, Req
    <3>7. Bound(t).state \notin {"RECONCILIATION_REQUIRED", "HALTED"}
      BY <1>5, <2>1 DEF Held
    <3> QED
      BY <1>5, <1>c, <1>n, <2>1, <3>3, <3>4, <3>5, <3>6, <3>7
  <2>4. [role |-> Role[Req(t)], before |-> pos[Role[Req(t)]], prior |-> task[t].prior] \in Snapshots
    <3>1. Role[Req(t)] \in Roles /\ pos[Role[Req(t)]] \in Int
      BY <1>4, ConstantsAssumption DEF BInv, KInv, TypeOK
    <3>2. task[t].prior \in SUBSET Requests
      BY <1>4 DEF Frames
    <3> QED
      BY <3>1, <3>2 DEF Snapshots
  <2> QED
    BY <1>9, <2>2, <2>3, <2>4 DEF RecordPosition
<1>10. CASE Abort(t)
  <2>1. PICK b \in Bindings : b = Move(Bound(t), "ABORTED") /\ b.state = "ABORTED"
    BY <1>4, MoveType DEF States, Free
  <2>2. Held(Bound(t), Req(t)) /\ task[t].pc # "inflight"
    BY <1>5, <1>10 DEF Abort, At, Holding
  <2>3. TryCas(t, b, "reject", "abortAgain") \/ TryCas(t, b, "raise", "raise")
    BY <1>10, <2>1 DEF Abort
  <2>4. /\ Kept(SignalOf[Req(t)], Bound(t), b)
        /\ Bound(t).state \notin {"RECONCILIATION_REQUIRED", "HALTED"}
    BY <2>1, <2>2 DEF Held, Kept, Entered, Counted
  <2> QED
    BY <1>c, <1>n, <2>1, <2>2, <2>3, <2>4
<1>11. CASE Respond(t)
  <2>1. PICK a \in BOOLEAN : a = (task[t].sub = "accepted")
    OBVIOUS
  <2>2. PICK b : b = Acked(Bound(t), Req(t), a)
    OBVIOUS
  <2>3. /\ Held(Bound(t), Req(t)) /\ TryCas(t, b, "accept", "ackConflict")
        /\ Bound(t).state = "RESERVED" => Recovery[Req(t)] = None
    BY <1>5, <1>11, <2>1, <2>2 DEF Respond, At, Holding
  <2>4. /\ b \in Bindings /\ Kept(SignalOf[Req(t)], Bound(t), b)
        /\ b.state # "RESERVED" /\ (a => Counted(Req(t), b))
    BY <1>4, <2>2, <2>3, AckedType, AckedKept
  <2>5. Bound(t).state \notin {"RECONCILIATION_REQUIRED", "HALTED"}
    BY <2>3 DEF Held
  <2> QED
    BY <1>c, <1>n, <2>1, <2>3, <2>4, <2>5
<1>12. CASE SubmitFails(t)
  <2>1. PICK b : b = InDoubt(Bound(t), Req(t))
    OBVIOUS
  <2>2. /\ Held(Bound(t), Req(t)) /\ task[t].pc = "inflight"
        /\ Bound(t).state = "RESERVED" => Recovery[Req(t)] = None
    BY <1>5, <1>12 DEF SubmitFails, At, Holding
  <2>3. Bound(t).state \in Pending /\ Bound(t).state \notin {"RECONCILIATION_REQUIRED", "HALTED"}
    BY <2>2 DEF Held, Pending
  <2>4. TryCas(t, b, "raise", "raise")
    BY <1>12, <2>1, <2>3 DEF SubmitFails
  <2>5. /\ b \in Bindings /\ Kept(SignalOf[Req(t)], Bound(t), b)
        /\ b.state # "RESERVED" /\ Counted(Req(t), b)
    BY <1>4, <2>1, <2>2, InDoubtType, InDoubtKept
  <2> QED
    BY <1>c, <1>n, <2>3, <2>4, <2>5
<1> QED
  BY <1>6, <1>7, <1>8, <1>9, <1>10, <1>11, <1>12

(* An order is sent that is not live.                                      *)
LEMMA SendSettled == ASSUME BInv, Settled, NEW t \in Tasks, Send(t) PROVE Settled'
<1>1. PICK f : f = [task[t] EXCEPT !.pc = "inflight", !.sub = "sent"]
  OBVIOUS
<1>2. /\ task[t].pc = "send" /\ task[t] \in Frames
      /\ task' = [task EXCEPT ![t] = f] /\ UNCHANGED <<bindings, xorder, receipts, stranded>>
  BY <1>1 DEF Send, At, BInv, KInv, TypeOK, xVars
<1>3. t \in PlaceTasks /\ t \notin ReconcileTasks
  BY <1>2, ConstantsAssumption DEF BInv, KInv, Framed, FrameOK, Reconciling, Fetching, Tasks
<1>4. f.pc = "inflight" /\ f.req = task[t].req /\ f.sub = "sent"
  BY <1>1, <1>2 DEF Frames
<1>5. PlaceClean(task[t])
  BY <1>3 DEF Settled, Clean
<1>6. Clean(t, f)
  BY <1>2, <1>3, <1>4, <1>5 DEF Clean, Keeps, PlaceClean, Due, Current, Holding
<1>7. \A r : ~Carried(r, task[t])
  BY <1>2 DEF Carried
<1> QED
  BY <1>2, <1>6, <1>7, FrameSettled

(* The reads of reconcile_binding find a live order.                       *)
LEMMA FetchSettled ==
    ASSUME BInv, Settled, NEW t \in Tasks,
           FetchFills(t) \/ LookupOrder(t) \/ FetchOpenOrders(t) \/ FetchPositions(t)
    PROVE  Settled'
<1>1. /\ task[t].pc \in Fetching
      /\ UNCHANGED <<bindings, xorder, receipts, stranded>>
  BY DEF FetchFills, LookupOrder, FetchOpenOrders, FetchPositions, At, Fetching, xVars, gwVars
<1>2. task[t] \in Frames /\ task[t].obs \in Observations /\ Sound(t) /\ FrameOK(t, task[t])
  BY DEF BInv, KInv, TypeOK, Frames, Framed
<1>3. t \notin PlaceTasks /\ t \in ReconcileTasks /\ task[t].why = "reconcile" /\ Steady(task[t])
  <2>1. t \notin PlaceTasks
    BY <1>1, <1>2 DEF Sound, PlaceOK, Placing, Fetching
  <2>2. t \in ReconcileTasks /\ task[t].pc # "idle"
    BY <1>1, <2>1 DEF Tasks, Fetching
  <2> QED
    BY <1>2, <2>1, <2>2 DEF FrameOK, Reconciling, Settled, Clean
<1>4. ASSUME NEW o, NEW p \in Fetching \cup {"apply"}, task' = [task EXCEPT ![t] = Looking(task[t], p, o)],
             p \in {"opens", "positionsAfter", "apply"} /\ Live(Req(t))
                 => o.client \in {"open", "filled", "pending"}
      PROVE  Settled'
  <2>1. PICK f : f = Looking(task[t], p, o)
    OBVIOUS
  <2>2. f.pc = p /\ f.req = task[t].req /\ f.obs = o /\ f.seen = task[t].seen
    BY <1>2, <2>1 DEF Frames, Looking
  <2>3. task' = [task EXCEPT ![t] = f] /\ p # "cas"
    BY <1>4, <2>1 DEF Fetching
  <2>4. Steady(f) /\ Keeps(f)
    BY <1>1, <1>3, <1>4, <2>2, <2>3 DEF Steady, Keeps, Current, Req
  <2>5. Clean(t, f)
    BY <1>3, <2>4 DEF Clean
  <2> QED
    BY <1>1, <1>3, <2>3, <2>5, FrameSettled
<1>5. \A p \in {"lookup", "opens", "positionsAfter", "apply"} : p \in Fetching \cup {"apply"}
  BY DEF Fetching
<1>6. task[t].pc \in {"opens", "positionsAfter"} /\ Live(Req(t))
          => task[t].obs.client \in {"open", "filled", "pending"}
  BY <1>3 DEF Steady, Req
<1>7. CASE FetchFills(t)
  <2>1. PICK v : v = (xorder[Req(t)] = "filled" /\ task[t].dirty = "no" /\ SinceSnapshot(t))
    OBVIOUS
  <2>2. PICK o : o = [task[t].obs EXCEPT !.fills = v]
    OBVIOUS
  <2>3. task' = [task EXCEPT ![t] = Looking(task[t], "lookup", o)]
    BY <1>2, <1>7, <2>1, <2>2 DEF FetchFills, Looking, BInv, KInv, TypeOK, Frames
  <2> QED
    BY <1>4, <1>5, <2>3
<1>8. CASE LookupOrder(t)
  <2>1. PICK status :
          /\ status = xorder[Req(t)] \/ status = "pending"
          /\ task' = [task EXCEPT ![t] = [@ EXCEPT !.pc = "opens", !.obs.client = status,
                                                   !.obs.clean = task[t].dirty = "no"]]
    BY <1>8 DEF LookupOrder
  <2>2. PICK v : v = (task[t].dirty = "no")
    OBVIOUS
  <2>3. PICK o : o = [task[t].obs EXCEPT !.client = status, !.clean = v]
    OBVIOUS
  <2>4. o.client = status
    BY <1>2, <2>3 DEF Observations
  <2>5. task' = [task EXCEPT ![t] = Looking(task[t], "opens", o)]
    <3>1. task' = [task EXCEPT ![t] = [@ EXCEPT !.pc = "opens", !.obs.client = status, !.obs.clean = v]]
      BY <2>1, <2>2
    <3> QED
      BY <1>2, <2>3, <3>1 DEF Looking, BInv, KInv, TypeOK, Frames
  <2> QED
    BY <1>4, <1>5, <2>1, <2>4, <2>5 DEF Live
<1>9. CASE FetchOpenOrders(t)
  <2>1. PICK v : v = (xorder[Req(t)] = "open" /\ task[t].dirty # "created" /\ SinceSnapshot(t))
    OBVIOUS
  <2>2. PICK o : o = [task[t].obs EXCEPT !.opens = v]
    OBVIOUS
  <2>3. o.client = task[t].obs.client /\ task[t].pc = "opens"
    BY <1>2, <1>9, <2>2 DEF Observations, FetchOpenOrders, At
  <2>4. task' = [task EXCEPT ![t] = Looking(task[t], "positionsAfter", o)]
    BY <1>2, <1>9, <2>1, <2>2 DEF FetchOpenOrders, Looking, BInv, KInv, TypeOK, Frames
  <2> QED
    BY <1>4, <1>5, <1>6, <2>3, <2>4
<1>10. CASE FetchPositions(t)
  <2>1. PICK o : o = [task[t].obs EXCEPT !.pos = pos[Role[Req(t)]]]
    OBVIOUS
  <2>2. o.client = task[t].obs.client /\ task[t].pc = "positionsAfter"
    BY <1>2, <1>10, <2>1 DEF Observations, FetchPositions, At
  <2>3. task' = [task EXCEPT ![t] = Looking(task[t], "apply", o)]
    BY <1>2, <1>3, <1>10, <2>1 DEF FetchPositions, Looking, BInv, KInv, TypeOK, Frames
  <2> QED
    BY <1>4, <1>5, <1>6, <2>2, <2>3
<1> QED
  BY <1>7, <1>8, <1>9, <1>10

(* A reconciliation writes no verdict that denies a live order.            *)
LEMMA RefreshSettled ==
    ASSUME BInv, Settled, NEW t \in Tasks,
           \/ StartRefresh(t) \/ RefreshFails(t) \/ HandleConflict(t) \/ ApplyVerdict(t)
           \/ HaltAmbiguous(t) \/ Handled(t)
    PROVE  Settled'
<1>1. /\ task[t].pc \in Fetching \cup {"conflict", "ackConflict", "handle", "apply",
                                        "haltAmbiguous", "handled"}
      /\ UNCHANGED <<bindings, xorder, receipts, stranded>>
  BY DEF StartRefresh, RefreshFails, HandleConflict, ApplyVerdict, HaltAmbiguous, Handled, At,
         xVars, gwVars
<1>2. /\ task[t] \in Frames /\ Sound(t) /\ Req(t) \in Requests /\ FrameOK(t, task[t])
      /\ Bound(t) \in Bindings /\ Entered(Bound(t)) /\ task[t].pc \notin {"idle", "cas"}
      /\ task[t].seen \in Bindings /\ task[t].obs \in Observations
  <2>1. KInv /\ task[t].pc \notin {"idle", "cas"}
    BY <1>1 DEF BInv, Fetching
  <2>2. task[t] \in Frames
    BY DEF BInv, KInv, TypeOK
  <2> QED
    BY <2>1, <2>2, BoundType DEF BInv, KInv, Framed, Frames, Bound, Settled
<1>3. /\ t \notin PlaceTasks /\ t \in ReconcileTasks /\ task[t].why = "reconcile"
      /\ task[t].pc \in Fetching \cup {"apply", "handled"} /\ Steady(task[t])
  <2>1. t \notin PlaceTasks
    BY <1>1, <1>2 DEF Sound, PlaceOK, Placing, Fetching
  <2>2. t \in ReconcileTasks
    BY <2>1 DEF Tasks
  <2> QED
    BY <1>1, <1>2, <2>1, <2>2 DEF FrameOK, Reconciling, Fetching, Settled, Clean
<1>g. ASSUME Goto(t, "raise") PROVE Settled'
  <2>1. PICK f : f = Moved(task[t], "raise")
    OBVIOUS
  <2>2. task' = [task EXCEPT ![t] = f] /\ f.pc = "raise"
    BY <1>2, <1>g, <2>1, MovedType, Names DEF Goto, Moved
  <2>3. Clean(t, f)
    BY <1>3, <2>2 DEF Clean, Steady, Keeps, Fetching
  <2> QED
    BY <1>1, <1>3, <2>2, <2>3, FrameSettled
<1>c. ASSUME NEW b \in Bindings, NEW ok \in OnSuccess, TryCas(t, b, ok, "raise"),
             b.version = Bound(t).version + 1 => Kept(SignalOf[Req(t)], Bound(t), b)
      PROVE  Settled'
  <2>1. PICK f : f = Casing(task[t], "cas", b, ok, "raise")
    OBVIOUS
  <2>2. task' = [task EXCEPT ![t] = f]
    BY <1>c, <2>1 DEF TryCas, Casing
  <2>3. f.pc = "cas" /\ f.new = b /\ f.req = task[t].req
    <3>1. "cas" \in Pcs /\ "raise" \in OnConflict
      BY Names
    <3> QED
      BY <1>2, <2>1, <3>1, CasingType
  <2>4. Clean(t, f)
    BY <1>3, <1>c, <2>3 DEF Clean, Steady, Keeps, Fetching, Current, Bound, Req
  <2> QED
    BY <1>1, <1>3, <2>2, <2>4, FrameSettled
<1>4. CASE RefreshFails(t)
  <2>1. PICK b \in Bindings : b = Move(task[t].seen, "HALTED") /\ b.state = "HALTED"
    BY <1>2, MoveType DEF States
  <2>2. TryCas(t, b, "raise", "raise")
    BY <1>3, <1>4, <2>1 DEF RefreshFails
  <2>3. Kept(SignalOf[Req(t)], Bound(t), b)
    BY <2>1 DEF Kept, Entered, Counted
  <2>4. "raise" \in OnSuccess
    BY Names
  <2> QED
    BY <1>c, <2>2, <2>3, <2>4
<1>5. CASE ApplyVerdict(t)
  <2>1. CASE Bound(t).state # "RECONCILIATION_REQUIRED"
    BY <1>3, <1>5, <1>g, <2>1 DEF ApplyVerdict
  <2>2. CASE Bound(t).state = "RECONCILIATION_REQUIRED"
    <3>1. /\ task[t].pc = "apply" /\ Bound(t) = task[t].seen
          /\ Req(t) = Unresolved(Bound(t))
          /\ Live(Req(t)) => task[t].obs.client \in {"open", "filled", "pending"}
      BY <1>3, <1>5, <2>2 DEF ApplyVerdict, At, Steady, Current, Bound, Req
    <3>2. PICK b : /\ b = Verdict(Bound(t), task[t].seen.snap, task[t].obs, Req(t))
                   /\ TryCas(t, b, "handled", "raise")
      BY <1>3, <1>5, <2>2 DEF ApplyVerdict
    <3>3. b \in Bindings /\ Kept(SignalOf[Req(t)], Bound(t), b)
      BY <1>2, <2>2, <3>1, <3>2, VerdictType, VerdictKept
    <3>4. "handled" \in OnSuccess
      BY Names
    <3> QED
      BY <1>c, <3>2, <3>3, <3>4
  <2> QED
    BY <2>1, <2>2
<1>6. CASE Handled(t)
  BY <1>3, <1>6, <1>g DEF Handled
<1> QED
  BY <1>3, <1>4, <1>5, <1>6 DEF StartRefresh, HandleConflict, HaltAmbiguous, At, Fetching

(* compare_and_set: a live order the binding no longer stands for has a    *)
(* receipt, or is stranded.                                                *)
LEMMA CasSettled == ASSUME BInv, Alone, Settled, NEW t \in Tasks, Cas(t) PROVE Settled'
<1> DEFINE s == SignalOf[Req(t)]
           swapped == bindings[s].version + 1 = task[t].new.version
           p == IF swapped THEN task[t].ok ELSE task[t].fail
<1>b. PICK b : b = task[t].new
  OBVIOUS
<1>f. PICK f : f = Casing(task[t], p, Unbound, "idle", "idle")
  OBVIOUS
<1>1. /\ task[t].pc = "cas" /\ task[t] \in Frames /\ FrameOK(t, task[t]) /\ Sound(t)
      /\ Clean(t, task[t]) /\ \A u \in Tasks \ {t} : task[u].pc \notin Sync
  BY OthersWait DEF Cas, At, BInv, KInv, TypeOK, Framed, Settled
<1>2. /\ s \in Signals /\ b \in Bindings /\ bindings \in [Signals -> Bindings]
      /\ Current(task[t]) = bindings[s]
  <2>1. KInv
    BY DEF BInv
  <2> QED
    BY <1>b, <1>1, <2>1, BoundType DEF Frames, KInv, TypeOK, Current, Req
<1>3. /\ task' = [task EXCEPT ![t] = f] /\ UNCHANGED <<receipts, xorder>>
      /\ bindings' = IF swapped THEN [bindings EXCEPT ![s] = b] ELSE bindings
      /\ stranded' = IF swapped /\ Strands(t, bindings[s], b)
                     THEN stranded \cup {bindings[s].first} ELSE stranded
  BY <1>b, <1>f DEF Cas, Casing, gwVars
<1>4. /\ f.pc = p /\ f.req = task[t].req /\ f.sub = task[t].sub
      /\ p \in OnSuccess \cup OnConflict \cup {"idle"}
      /\ t \in ReconcileTasks => p \in {"handled", "raise"}
  <2>1. p \in Pcs /\ p \in OnSuccess \cup OnConflict \cup {"idle"}
    BY <1>1 DEF Frames, OnSuccess, OnConflict, Pcs, Sync
  <2>2. "idle" \in OnSuccess \cup {"idle"} /\ "idle" \in OnConflict \cup {"idle"}
    OBVIOUS
  <2>3. t \in ReconcileTasks => p \in {"handled", "raise"}
    BY <1>1 DEF FrameOK, Reconciling
  <2> HIDE DEF p
  <2>4. p \in Pcs
    BY <2>1
  <2>5. f.pc = p /\ f.req = task[t].req /\ f.sub = task[t].sub
    BY <1>f, <1>1, <2>2, <2>4, UnboundType, CasingType
  <2> QED
    BY <2>1, <2>3, <2>5
<1>5. task'[t] = f /\ \A u \in Tasks \ {t} : task'[u] = task[u]
  BY <1>3 DEF BInv, KInv, TypeOK
<1>6. CASE ~swapped
  <2>1. t \notin PlaceTasks /\ t \in ReconcileTasks /\ UNCHANGED <<bindings, stranded>>
    BY <1>b, <1>1, <1>2, <1>3, <1>6 DEF Sound, PlaceOK, Tasks
  <2>2. f.pc \in {"handled", "raise"}
    BY <1>4, <2>1
  <2>3. Clean(t, f)
    BY <2>1, <2>2 DEF Clean, Steady, Keeps, Fetching
  <2> QED
    BY <1>3, <2>1, <2>3, FrameSettled
<1>7. CASE swapped
  <2>1. /\ bindings' = [bindings EXCEPT ![s] = b] /\ bindings'[s] = b
        /\ b.version = bindings[s].version + 1 /\ p = task[t].ok
        /\ stranded \subseteq stranded'
        /\ Strands(t, bindings[s], b) => bindings[s].first \in stranded'
    BY <1>b, <1>2, <1>3, <1>7
  <2>2. \A q \in Signals \ {s} : bindings'[q] = bindings[q]
    BY <1>2, <2>1
  <2> HIDE DEF swapped, p
  <2>3. Kept(s, bindings[s], b)
    BY <1>b, <1>1, <1>2, <2>1 DEF Clean, Keeps, Req
  <2>4. t \in ReconcileTasks => bindings[s].state = "RECONCILIATION_REQUIRED"
    BY <1>b, <1>1, <1>2, <2>1 DEF Sound, ReconcileOK
  <2>5. t \in PlaceTasks => bindings[s].state \notin {"RECONCILIATION_REQUIRED", "HALTED"}
    BY <1>1, <1>2 DEF Clean, PlaceClean
  <2>6. \A r : Receipted(r)' <=> Receipted(r)
    BY <1>3 DEF Receipted
  <2>7. ASSUME NEW r \in Requests, Live(r)' PROVE Accounted(r)'
    <3>0. Live(r) /\ Accounted(r) /\ SignalOf[r] \in Signals
      BY <1>3, <2>7, ConstantsAssumption DEF Live, Settled
    <3>1. CASE r \in stranded \/ Receipted(r)
      BY <2>1, <2>6, <3>1 DEF Accounted
    <3>2. CASE Counted(r, bindings[SignalOf[r]])
      <4>1. CASE SignalOf[r] # s
        BY <2>2, <3>0, <3>2, <4>1 DEF Accounted
      <4>2. CASE SignalOf[r] = s /\ Counted(r, b)
        BY <2>1, <4>2 DEF Accounted
      <4>3. CASE /\ bindings[s].state = "SECOND_LEG_SUBMITTED" /\ b.state = "ABORTED"
                 /\ r = bindings[s].first
        <5>1. CASE receipts[Home[t]][KeyOf[r]] = None
          BY <2>1, <4>3, <5>1 DEF Strands, Accounted
        <5>2. CASE receipts[Home[t]][KeyOf[r]] # None
          BY <2>6, <5>2 DEF Receipted, Accounted
        <5> QED
          BY <5>1, <5>2
      <4> QED
        BY <2>3, <3>0, <3>2, <4>1, <4>2, <4>3 DEF Kept
    <3>3. ASSUME NEW u \in PlaceTasks, Carried(r, task[u]) PROVE Accounted(r)'
      <4>1. CASE u = t
        <5>1. Counted(r, b) /\ SignalOf[r] = s
          BY <1>b, <1>1, <3>3, <4>1 DEF Carried, Req
        <5> QED
          BY <2>1, <5>1 DEF Accounted
      <4>2. CASE u # t
        <5>1. task'[u] = task[u]
          BY <1>5, <4>2 DEF Tasks
        <5> QED
          BY <3>3, <5>1 DEF Accounted
      <4> QED
        BY <4>1, <4>2
    <3> QED
      BY <3>0, <3>1, <3>2, <3>3 DEF Accounted
  <2>8. ASSUME NEW q \in Signals PROVE Entered(bindings'[q])
    BY <2>1, <2>2, <2>3 DEF Kept, Settled
  <2>9. Clean(t, task[t])'
    <3>1. task'[t] = f /\ f.pc \notin {"cas", "inflight", "positions"}
      BY <1>4, <1>5 DEF OnSuccess, OnConflict
    <3>2. ASSUME t \in PlaceTasks PROVE PlaceClean(f)'
      <4>1. PlaceClean(task[t])
        BY <1>1, <3>2 DEF Clean
      <4>2. ~Receipted(f.req)'
        BY <1>1, <1>4, <2>6, <4>1 DEF PlaceClean
      <4>3. Due(f) => Due(task[t])
        BY <1>1, <1>4, <2>1, <3>1 DEF Due
      <4>4. Due(f) => ~Live(f.req)' \/ f.req \in stranded'
        BY <1>3, <1>4, <2>1, <4>1, <4>3 DEF PlaceClean, Live
      <4>5. Current(f)' = b
        BY <1>4, <2>1 DEF Current, Req
      <4>6. b.state = "RESERVED" => Recovery[f.req] = None
        BY <1>b, <1>1, <1>4, <4>1 DEF PlaceClean
      <4> QED
        BY <3>1, <4>2, <4>4, <4>5, <4>6 DEF PlaceClean
    <3>3. ASSUME t \in ReconcileTasks PROVE Steady(f)'
      BY <1>4, <3>3 DEF Steady, Fetching
    <3> QED
      BY <3>1, <3>2, <3>3 DEF Clean, Keeps, PlaceClean, Steady, Current
  <2>10. ASSUME NEW u \in Tasks \ {t} PROVE Clean(u, task[u])'
    <3>1. PICK g \in Frames : g = task[u] /\ g = task'[u]
      BY <1>5 DEF BInv, KInv, TypeOK
    <3>2. g.pc \notin Sync /\ g.pc # "cas" /\ Clean(u, g) /\ Sound(u)
      BY <1>1, <3>1 DEF Settled, Sync, BInv
    <3>3. g.pc # "idle" => SignalOf[g.req] \in Signals
      BY <3>1, BoundType DEF BInv, Req
    <3>4. g.pc # "idle" => Current(g)' = IF SignalOf[g.req] = s THEN b ELSE Current(g)
      BY <2>1, <2>2, <3>3 DEF Current
    <3>5. ASSUME u \in PlaceTasks PROVE PlaceClean(g)'
      <4>1. CASE g.pc = "idle"
        BY <4>1 DEF PlaceClean, Due, Holding
      <4>2. CASE g.pc # "idle"
        <5>1. t \in ReconcileTasks
          BY <1>1, <3>1, <3>5, <4>2, OnlyPlacement DEF Tasks
        <5>2. g.pc \in Holding => SignalOf[g.req] # s
          BY <2>4, <3>1, <3>2, <3>5, <5>1 DEF Sound, PlaceOK, Held, Current
        <5>3. PlaceClean(g)
          BY <3>2, <3>5 DEF Clean
        <5>4. Live(g.req)' <=> Live(g.req)
          BY <1>3 DEF Live
        <5> QED
          BY <2>1, <2>6, <3>2, <3>4, <4>2, <5>2, <5>3, <5>4 DEF PlaceClean, Holding
      <4> QED
        BY <4>1, <4>2
    <3>6. ASSUME u \in ReconcileTasks PROVE Steady(g)'
      <4>1. t \in PlaceTasks
        BY <3>6 DEF Alone, Tasks
      <4>2. Steady(g) /\ (Live(g.req)' <=> Live(g.req))
        BY <1>3, <3>2, <3>6 DEF Clean, Live
      <4>3. g.pc \in Fetching \cup {"apply"} => g.pc # "idle" /\ SignalOf[g.req] # s
        BY <2>5, <4>1, <4>2 DEF Steady, Current, Fetching
      <4> QED
        BY <3>4, <4>2, <4>3 DEF Steady
    <3> QED
      BY <3>1, <3>2, <3>5, <3>6 DEF Clean, Keeps, PlaceClean, Steady, Current
  <2> QED
    BY <2>7, <2>8, <2>9, <2>10 DEF Settled
<1> QED
  BY <1>6, <1>7

(* A call returns: only a placement leaves a receipt, and it was the only  *)
(* one.                                                                    *)
LEMMA ReturnSettled == ASSUME BInv, Settled, NEW t \in Tasks, Return(t) PROVE Settled'
<1>1. /\ task[t].pc \in {"reject", "raise", "accept"} /\ task[t] \in Frames
      /\ task' = [task EXCEPT ![t] = Idle] /\ UNCHANGED <<bindings, xorder, stranded>>
  BY DEF Return, At, BInv, KInv, TypeOK, xVars
<1>2. task'[t] = Idle /\ \A u \in Tasks \ {t} : task'[u] = task[u]
  BY <1>1 DEF BInv, KInv, TypeOK
<1>3. Req(t) \in Requests /\ KeyOf[Req(t)] \in Keys /\ Home[t] \in Gateways
  BY <1>1, BoundType, ConstantsAssumption DEF BInv, Keys
<1>4. t \notin PlaceTasks => receipts' = receipts
  <2>1. t \in ReconcileTasks => task[t].pc \notin {"reject", "accept"}
    BY DEF BInv, KInv, Framed, FrameOK, Reconciling, Fetching
  <2> QED
    BY <1>1, <2>1 DEF Return, Tasks
<1>5. t \in PlaceTasks => ~Receipted(Req(t))
  BY <1>1 DEF Settled, Clean, PlaceClean, Req
<1>6. ASSUME NEW r \in Requests, Receipted(r) PROVE Receipted(r)'
  <2>1. PICK u \in Tasks : receipts[Home[u]][KeyOf[r]] # None
    BY <1>6 DEF Receipted
  <2>2. CASE receipts' = receipts
    BY <1>6, <2>2 DEF Receipted
  <2>3. ASSUME NEW v, receipts' = [receipts EXCEPT ![Home[t]][KeyOf[Req(t)]] = v], t \in PlaceTasks
        PROVE  Receipted(r)'
    <3>1. KeyOf[r] # KeyOf[Req(t)] /\ Home[u] \in Gateways
      BY <1>5, <2>1, <2>3, ConstantsAssumption DEF Receipted
    <3>2. receipts'[Home[u]][KeyOf[r]] = receipts[Home[u]][KeyOf[r]]
      BY <1>3, <2>3, <3>1 DEF BInv, KInv, TypeOK
    <3> QED
      BY <2>1, <3>2 DEF Receipted
  <2> QED
    BY <1>1, <1>4, <2>2, <2>3 DEF Return
<1>7. ASSUME NEW r \in Requests, Live(r)' PROVE Accounted(r)'
  <2>1. Accounted(r)
    BY <1>1, <1>7 DEF Settled, Live
  <2>2. ASSUME NEW u \in PlaceTasks, Carried(r, task[u]) PROVE Carried(r, task'[u])
    <3>1. u # t
      BY <1>1, <2>2 DEF Carried
    <3> QED
      BY <1>2, <2>2, <3>1 DEF Tasks
  <2> QED
    BY <1>1, <1>6, <2>1, <2>2 DEF Accounted
<1>8. ASSUME NEW u \in Tasks PROVE Clean(u, task[u])'
  <2>1. CASE task'[u] = Idle
    BY <2>1 DEF Clean, PlaceClean, Keeps, Steady, Idle, Due, Holding, Fetching
  <2>2. CASE task'[u] # Idle
    <3>1. u # t /\ task'[u] = task[u] /\ Clean(u, task[u])
      BY <1>2, <2>2 DEF Settled
    <3>2. u \in PlaceTasks /\ task[u].pc # "idle" => receipts' = receipts
      BY <1>1, <1>4, <3>1, OnlyPlacement
    <3>3. ASSUME u \in PlaceTasks, task[u].pc # "idle" PROVE PlaceClean(task[u])'
      BY <1>1, <3>1, <3>2, <3>3 DEF Clean, PlaceClean, Receipted, Live, Current
    <3>4. ASSUME task[u].pc = "idle" PROVE PlaceClean(task[u])'
      BY <3>1, <3>4 DEF PlaceClean, Due, Holding
    <3>5. (u \in ReconcileTasks => Steady(task[u])') /\ Keeps(task[u])'
      BY <1>1, <3>1 DEF Clean, Steady, Keeps, Kept, Live, Current
    <3> QED
      BY <3>3, <3>4, <3>5 DEF Clean
  <2> QED
    BY <2>1, <2>2
<1> QED
  BY <1>1, <1>7, <1>8 DEF Settled

(* halt_binding: a halted binding stands for everything.                   *)
LEMMA HaltBindingSettled == ASSUME BInv, Settled, NEW s \in Signals, HaltBinding(s) PROVE Settled'
<1>1. PICK b \in Bindings : b = Move(bindings[s], "HALTED") /\ b.state = "HALTED"
  BY MoveType DEF BInv, KInv, TypeOK, States
<1>2. /\ bindings' = [bindings EXCEPT ![s] = b] /\ UNCHANGED <<task, receipts, xorder, stranded>>
      /\ \A u \in Tasks : task[u].pc \notin Sync
  BY <1>1 DEF HaltBinding, xVars, gwVars
<1>3. \A q \in Signals : bindings'[q] = IF q = s THEN b ELSE bindings[q]
  BY <1>2 DEF BInv, KInv, TypeOK
<1>4. \A q \in Signals : Entered(bindings'[q])
  BY <1>1, <1>3 DEF Settled, Entered
<1>5. ASSUME NEW r \in Requests, Live(r)' PROVE Accounted(r)'
  <2>1. Accounted(r) /\ SignalOf[r] \in Signals
    BY <1>2, <1>5, ConstantsAssumption DEF Settled, Live
  <2>2. Counted(r, bindings[SignalOf[r]]) => Counted(r, bindings'[SignalOf[r]])
    BY <1>1, <1>3, <2>1 DEF Counted
  <2>3. Receipted(r) => Receipted(r)'
    BY <1>2 DEF Receipted
  <2> QED
    BY <1>2, <2>1, <2>2, <2>3 DEF Accounted
<1>6. ASSUME NEW u \in Tasks PROVE Clean(u, task[u])'
  <2>1. task'[u] = task[u] /\ Clean(u, task[u]) /\ task[u].pc # "cas"
    BY <1>2 DEF Settled, Sync
  <2>2. task[u].pc # "idle" => Current(task[u])' = b \/ Current(task[u])' = Current(task[u])
    <3>1. task[u].pc # "idle" => SignalOf[task[u].req] \in Signals
      BY BoundType DEF BInv, Req
    <3> QED
      BY <1>2, <1>3, <3>1 DEF Current
  <2>3. ASSUME u \in PlaceTasks PROVE PlaceClean(task[u])'
    <3>1. PlaceClean(task[u]) /\ (Receipted(task[u].req)' <=> Receipted(task[u].req))
          /\ (Live(task[u].req)' <=> Live(task[u].req))
      BY <1>2, <2>1, <2>3 DEF Clean, Receipted, Live
    <3> QED
      BY <1>1, <1>2, <2>1, <2>2, <3>1 DEF PlaceClean, Holding
  <2>4. ASSUME u \in ReconcileTasks PROVE Steady(task[u])'
    <3>1. Steady(task[u]) /\ (Live(task[u].req)' <=> Live(task[u].req))
      BY <1>2, <2>1, <2>4 DEF Clean, Live
    <3> QED
      BY <1>1, <1>2, <2>1, <2>2, <3>1 DEF Steady, Fetching
  <2> QED
    BY <1>2, <2>1, <2>3, <2>4 DEF Clean, Keeps
<1> QED
  BY <1>4, <1>5, <1>6 DEF Settled

(* r becomes live by the answer to the submission that is under way.       *)
Answered(r) ==
    \E t \in PlaceTasks : /\ task[t].pc = "inflight" /\ task[t].sub = "sent" /\ task[t].req = r
                          /\ task'[t].sub = "accepted"

(* Beside the tasks an order becomes live in one way only, and then its    *)
(* placement carries it; no reconciliation works on that signal.           *)
LEMMA BesideSettled ==
    ASSUME BInv, Settled, Beside, stranded' = stranded,
           \A r \in Requests : Live(r)' => Live(r) \/ Answered(r),
           \A t \in Tasks : /\ task[t].sub = "accepted" => task'[t].sub = "accepted"
                            /\ task'[t].sub = "sent" => task[t].sub = "sent"
    PROVE  Settled'
<1>1. /\ UNCHANGED <<bindings, receipts>> /\ \A t \in Tasks : Marked(task[t], task'[t])
      /\ \A r : Receipted(r)' <=> Receipted(r)
  BY DEF Beside, Receipted
<1>2. ASSUME NEW r, Answered(r) PROVE Held(bindings[SignalOf[r]], r)
  BY <1>2 DEF Answered, BInv, Sound, PlaceOK, Holding, Current, Tasks
<1>3. ASSUME NEW r \in Requests, Live(r)' PROVE Accounted(r)'
  <2>1. CASE Answered(r)
    <3>1. PICK t \in PlaceTasks : task[t].pc = "inflight" /\ task[t].req = r /\ task'[t].sub = "accepted"
      BY <2>1 DEF Answered
    <3>2. Carried(r, task'[t])
      BY <1>1, <3>1 DEF Carried, Marked, Tasks
    <3> QED
      BY <3>2 DEF Accounted
  <2>2. CASE Live(r)
    <3>1. Accounted(r)
      BY <2>2 DEF Settled
    <3>2. ASSUME NEW u \in PlaceTasks, Carried(r, task[u]) PROVE Carried(r, task'[u])
      BY <1>1, <3>2 DEF Carried, Marked, Tasks
    <3> QED
      BY <1>1, <3>1, <3>2 DEF Accounted
  <2> QED
    BY <1>3, <2>1, <2>2
<1>4. ASSUME NEW u \in Tasks PROVE Clean(u, task[u])'
  <2>1. PICK f \in Frames : f = task[u]
    BY DEF BInv, KInv, TypeOK
  <2>2. PICK n \in Frames : n = task'[u]
    BY DEF Beside
  <2>3. /\ n.pc = f.pc /\ n.req = f.req /\ n.ok = f.ok /\ n.new = f.new /\ n.seen = f.seen
        /\ n.obs = f.obs
        /\ n.sub = f.sub \/ f.pc = "inflight"
    BY <1>1, <2>1, <2>2 DEF Marked
  <2>4. /\ Clean(u, f) /\ Sound(u) /\ Current(n)' = Current(f)
        /\ f.pc # "idle" => f.req \in Requests
    BY <1>1, <2>1, <2>3 DEF Settled, BInv, Current, KInv, Framed, FrameOK
  <2>5. ASSUME u \in PlaceTasks PROVE PlaceClean(n)'
    <3>1. PlaceClean(f)
      BY <2>4, <2>5 DEF Clean
    <3>2. Due(n) => Due(f) /\ f.req \in Requests /\ f.pc # "idle"
      BY <2>1, <2>2, <2>3, <2>4 DEF Due
    <3>3. Due(n) => ~Answered(f.req)
      <4> SUFFICES ASSUME Due(n), Answered(f.req) PROVE FALSE
        OBVIOUS
      <4>1. PICK t \in PlaceTasks : task[t].pc = "inflight" /\ task'[t].sub = "accepted"
        BY DEF Answered
      <4>2. t = u
        BY <2>1, <2>5, <3>2, <4>1, OnlyPlacement
      <4> QED
        BY <2>1, <2>2, <2>3, <4>1, <4>2 DEF Due
    <3>4. Due(n) => ~Live(n.req)' \/ n.req \in stranded'
      BY <2>3, <3>1, <3>2, <3>3 DEF PlaceClean
    <3>5. n.pc # "idle" => ~Receipted(n.req)'
      BY <1>1, <2>3, <3>1 DEF PlaceClean
    <3> QED
      BY <2>3, <2>4, <3>1, <3>4, <3>5 DEF PlaceClean
  <2>6. ASSUME u \in ReconcileTasks PROVE Steady(n)'
    <3>1. Steady(f)
      BY <2>4, <2>6 DEF Clean
    <3>2. f.pc \in {"opens", "positionsAfter", "apply"} =>
            f.req \in Requests /\ Current(f).state \in {"RECONCILIATION_REQUIRED", "HALTED"}
      BY <2>4, <3>1 DEF Steady, Fetching
    <3>3. f.pc \in {"opens", "positionsAfter", "apply"} /\ Live(f.req)' => Live(f.req)
      BY <1>2, <3>2 DEF Held, Current
    <3> QED
      BY <2>3, <2>4, <3>1, <3>3 DEF Steady
  <2>7. Keeps(n)'
    <3> SUFFICES ASSUME n.pc = "cas", n.new.version = Current(n)'.version + 1,
                        NEW r \in Requests, SignalOf[r] = SignalOf[n.req], Live(r)', Answered(r)
                 PROVE  ~Counted(r, Current(f))
      BY <2>3, <2>4 DEF Clean, Keeps, Kept
    <3>1. Held(Current(f), r)
      BY <1>2, <2>3 DEF Current
    <3>2. u \notin PlaceTasks
      BY <2>1, <2>3, OnlyPlacement DEF Answered
    <3>3. Current(f).state = "RECONCILIATION_REQUIRED"
      BY <2>1, <2>3, <2>4, <3>2 DEF Sound, ReconcileOK, Tasks
    <3> QED
      BY <3>1, <3>3 DEF Held
  <2>8. Clean(u, n)'
    BY <2>5, <2>6, <2>7 DEF Clean
  <2> QED
    BY <2>2, <2>8 DEF Clean, PlaceClean, Steady, Keeps, Current
<1> QED
  BY <1>1, <1>3, <1>4 DEF Settled

(* The operator's calls only cancel orders.                                *)
LEMMA OperatorSettled ==
    ASSUME BInv, Settled,
           \/ \E g \in Gateways : ActivateKillSwitch(g) \/ CancelAll(g)
           \/ \E r \in Requests : CancelOrder(r)
           \/ \E l \in Roles : ClosePosition(l)
    PROVE  Settled'
<1>1. KInv /\ Beside /\ stranded' = stranded
  BY OperatorBeside DEF BInv, ActivateKillSwitch, CancelAll, CancelOrder, ClosePosition, xVars
<1>2. ASSUME NEW t \in Tasks PROVE task'[t].sub = task[t].sub
  <2>1. "updated" \in Touched
    BY DEF Touched
  <2>2. \A r : Touch(r, "updated")[t].sub = task[t].sub
    BY <1>1, <2>1, TouchMarks
  <2>3. \/ task' = task \/ \E r : task' = Touch(r, "updated")
        \/ task' = [u \in Tasks |-> IF task[u].req \in OpenOrders
                                     THEN Touch(task[u].req, "updated")[u] ELSE task[u]]
    BY DEF ActivateKillSwitch, CancelAll, CancelOrder, ClosePosition
  <2> QED
    BY <2>2, <2>3
<1>3. \A r \in Requests : Live(r)' => Live(r)
  BY DEF ActivateKillSwitch, CancelAll, CancelOrder, ClosePosition, BInv, KInv, TypeOK, xVars, Live
<1> QED
  BY <1>1, <1>2, <1>3, BesideSettled

(* The exchange opens the order of the submission under way, and no other. *)
LEMMA ExchangeSettled == ASSUME BInv, Settled, late = {}, ExchangeStep PROVE Settled'
<1>1. KInv /\ Beside /\ xorder \in [Requests -> OrderStates] /\ task \in [Tasks -> Frames]
  BY ExchangeBeside DEF BInv, KInv, TypeOK
<1>2. "updated" \in Touched /\ "created" \in Touched
  BY DEF Touched
<1>3. ASSUME NEW t \in PlaceTasks, ExchangeAccepts(t) PROVE Settled'
  <2>1. t \in Tasks /\ Req(t) \in Requests /\ stranded' = stranded
    BY <1>1, <1>3, BoundType DEF ExchangeAccepts, Tasks
  <2>2. \A u \in Tasks \ {t} : task'[u].sub = task[u].sub
    <3>1. \A u \in Tasks : Touch(Req(t), "created")[u].sub = task[u].sub
      BY <1>1, <1>2, TouchMarks
    <3>2. \A u \in Tasks \ {t} : task'[u] = Touch(Req(t), "created")[u]
      BY <1>3 DEF ExchangeAccepts, Touch
    <3> QED
      BY <3>1, <3>2
  <2>3. task[t].sub = "sent" /\ task'[t].sub = "accepted"
    <3>1. Marked(task[t], Touch(Req(t), "created")[t])
      BY <1>1, <1>2, <2>1, TouchMarks
    <3>2. task'[t] = [Touch(Req(t), "created")[t] EXCEPT !.sub = "accepted"]
      BY <1>3, <2>1 DEF ExchangeAccepts, Touch
    <3> QED
      BY <1>3, <3>1, <3>2 DEF Marked, Frames, ExchangeAccepts
  <2>4. Answered(Req(t))
    BY <1>3, <2>3 DEF Answered, ExchangeAccepts, Req
  <2>5. \A r \in Requests : Live(r)' => Live(r) \/ r = Req(t)
    BY <1>1, <1>3 DEF ExchangeAccepts, Opened, Live
  <2> QED
    BY <1>1, <2>1, <2>2, <2>3, <2>4, <2>5, BesideSettled
<1>4. ASSUME NEW t \in PlaceTasks, ExchangeRejects(t) PROVE Settled'
  <2>1. /\ UNCHANGED <<xorder, stranded>>
        /\ \A u \in Tasks : /\ task[u].sub = "accepted" => task'[u].sub = "accepted"
                            /\ task'[u].sub = "sent" => task[u].sub = "sent"
    BY <1>1, <1>4 DEF ExchangeRejects, xVars, Frames
  <2>2. \A r \in Requests : Live(r)' => Live(r)
    BY <2>1 DEF Live
  <2> QED
    BY <1>1, <2>1, <2>2, BesideSettled
<1>5. ASSUME NEW q \in Requests, Fill(q) PROVE Settled'
  <2>1. \A u \in Tasks : task'[u].sub = task[u].sub
    BY <1>1, <1>2, <1>5, TouchMarks DEF Fill
  <2>2. stranded' = stranded /\ \A r \in Requests : Live(r)' => Live(r)
    BY <1>1, <1>5 DEF Fill, Live
  <2> QED
    BY <1>1, <2>1, <2>2, BesideSettled
<1>6. ASSUME NEW q \in Requests, ArrivesLate(q) PROVE FALSE
  BY <1>6 DEF ArrivesLate
<1> QED
  BY <1>3, <1>4, <1>5, <1>6 DEF ExchangeStep

(* A call starts: place_order without a receipt, reconcile_binding on the  *)
(* binding it reads.                                                       *)
LEMMA CallsSettled == ASSUME BInv, Settled, Calls PROVE Settled'
<1>1. ASSUME NEW t \in PlaceTasks, NEW r \in Requests, PlaceStart(t, r) PROVE Settled'
  <2>1. PICK f : f = [Idle EXCEPT !.pc = "validate", !.req = r,
                                  !.prior = {q \in Requests : xorder[q] # "none"}]
    OBVIOUS
  <2>2. t \in Tasks /\ t \notin ReconcileTasks
    BY ConstantsAssumption DEF Tasks
  <2>3. /\ task' = [task EXCEPT ![t] = f] /\ UNCHANGED <<bindings, xorder, receipts, stranded>>
        /\ receipts[Home[t]][KeyOf[r]] = None /\ task[t].pc = "idle"
    BY <1>1, <2>1 DEF PlaceStart, At, xVars
  <2>4. f.pc = "validate" /\ f.req = r
    BY <2>1 DEF Idle
  <2>5. ~Receipted(r)
    BY <2>2, <2>3 DEF Receipted, BInv, OneGateway
  <2>6. Clean(t, f)
    BY <2>2, <2>4, <2>5 DEF Clean, PlaceClean, Keeps, Due, Holding
  <2>7. \A q : ~Carried(q, task[t])
    BY <2>3 DEF Carried
  <2> QED
    BY <2>2, <2>3, <2>6, <2>7, FrameSettled
<1>2. ASSUME NEW t \in ReconcileTasks, NEW r \in Requests, ReconcileStart(t, r) PROVE Settled'
  <2>1. PICK b : b = bindings[SignalOf[r]]
    OBVIOUS
  <2>2. PICK f : f = [Idle EXCEPT !.pc = "fills", !.req = r, !.why = "reconcile", !.seen = b]
    OBVIOUS
  <2>3. t \in Tasks /\ t \notin PlaceTasks
    BY ConstantsAssumption DEF Tasks
  <2>4. /\ task' = [task EXCEPT ![t] = f] /\ UNCHANGED <<bindings, xorder, receipts, stranded>>
        /\ b.state = "RECONCILIATION_REQUIRED" /\ r = Unresolved(b)
    BY <1>2, <2>1, <2>2 DEF ReconcileStart, xVars, gwVars
  <2>5. f.pc = "fills" /\ f.req = r /\ f.seen = b
    BY <2>2 DEF Idle
  <2>6. Clean(t, f)
    BY <2>1, <2>3, <2>4, <2>5 DEF Clean, Steady, Keeps, Current
  <2> QED
    BY <2>3, <2>4, <2>6, FrameSettled
<1> QED
  BY <1>1, <1>2 DEF Calls

(* The invariant holds before the first call.                              *)
LEMMA DInvInit == Init /\ Alone => DInv
<1> SUFFICES ASSUME Init, Alone PROVE Settled /\ late = {}
  BY DEF DInv
<1>1. \A r \in Requests : ~Live(r)
  BY DEF Init, Live
<1>2. \A s \in Signals : Entered(bindings[s])
  BY DEF Init, Entered, Unbound
<1>3. \A t \in Tasks : Clean(t, Idle)
  BY DEF Clean, PlaceClean, Steady, Keeps, Idle, Due, Holding, Fetching
<1>4. \A t \in Tasks : task[t] = Idle
  BY DEF Init
<1> QED
  BY <1>1, <1>2, <1>3, <1>4 DEF Init, Settled

(* Every step of the gateway, until the first restart, keeps it.           *)
LEMMA DInvStep == BInv /\ DInv /\ [Next]_vars => DInv'
<1> SUFFICES ASSUME BInv, DInv, [Next]_vars PROVE DInv'
  OBVIOUS
<1>1. Alone /\ Alone' /\ late = {} /\ restarts \in Nat
  BY DEF DInv, Alone, OneGateway, BInv, KInv, TypeOK
<1>2. late' = {}
  <2>1. ~LateDelivery
    BY <1>1 DEF Alone
  <2> QED
    BY <1>1, <2>1 DEF Next, Calls, TaskStep, OperatorStep, ExchangeStep, PlaceStart, ReconcileStart,
       Cas, Validate, Reserve, CheckOpenOrders, RecordPosition, Abort, Send, Respond, SubmitFails,
       Return, StartRefresh, FetchFills, LookupOrder, FetchOpenOrders, FetchPositions, RefreshFails,
       HandleConflict, ApplyVerdict, HaltAmbiguous, Handled, HaltBinding, ActivateKillSwitch,
       CancelAll, CancelOrder, ClosePosition, Restart, ExchangeAccepts, ExchangeRejects, Fill,
       ArrivesLate, vars, xVars
<1>3. ASSUME restarts' = 0 PROVE Settled'
  <2>1. CASE Calls
    <3>1. restarts' = restarts
      BY <2>1 DEF Calls, PlaceStart, ReconcileStart
    <3> QED
      BY <1>3, <2>1, <3>1, CallsSettled DEF DInv
  <2>2. ASSUME NEW t \in Tasks, TaskStep(t) PROVE Settled'
    <3>1. restarts' = restarts
      BY <2>2 DEF TaskStep, Cas, Validate, Reserve, CheckOpenOrders, RecordPosition, Abort, Send,
         Respond, SubmitFails, Return, StartRefresh, FetchFills, LookupOrder, FetchOpenOrders,
         FetchPositions, RefreshFails, HandleConflict, ApplyVerdict, HaltAmbiguous, Handled
    <3>2. Settled
      BY <1>3, <3>1 DEF DInv
    <3> QED
      BY <1>1, <2>2, <3>2, CasSettled, PlacementSettled, SendSettled, ReturnSettled, FetchSettled,
         RefreshSettled DEF TaskStep
  <2>3. CASE OperatorStep
    <3>1. ASSUME NEW s \in Signals, HaltBinding(s) PROVE Settled'
      BY <1>3, <3>1, HaltBindingSettled DEF DInv, HaltBinding
    <3>2. ASSUME NEW g \in Gateways, Restart(g) PROVE FALSE
      BY <1>1, <1>3, <3>2 DEF Restart
    <3>3. CASE \/ \E g \in Gateways : ActivateKillSwitch(g) \/ CancelAll(g)
               \/ \E r \in Requests : CancelOrder(r)
               \/ \E l \in Roles : ClosePosition(l)
      <4>1. restarts' = restarts
        BY <3>3 DEF ActivateKillSwitch, CancelAll, CancelOrder, ClosePosition
      <4> QED
        BY <1>3, <3>3, <4>1, OperatorSettled DEF DInv
    <3> QED
      BY <2>3, <3>1, <3>2, <3>3 DEF OperatorStep
  <2>4. CASE ExchangeStep
    <3>1. restarts' = restarts
      BY <2>4 DEF ExchangeStep, ExchangeAccepts, ExchangeRejects, Fill, ArrivesLate
    <3> QED
      BY <1>1, <1>3, <2>4, <3>1, ExchangeSettled DEF DInv
  <2>5. CASE UNCHANGED vars
    <3>1. UNCHANGED <<bindings, receipts, task, xorder, stranded, restarts>>
      BY <2>5 DEF vars, gwVars, xVars
    <3>2. Settled
      BY <1>3, <3>1 DEF DInv
    <3> QED
      BY <3>1, <3>2 DEF Settled, Accounted, Receipted, Live, Clean, PlaceClean, Steady, Keeps, Kept,
         Current
  <2> QED
    BY <2>1, <2>2, <2>3, <2>4, <2>5 DEF Next
<1> QED
  BY <1>1, <1>2, <1>3 DEF DInv

(* NoDuplicateExposure for every number of signals, requests and           *)
(* placements: as long as the gateway was not restarted, the request it    *)
(* submits is not live at the exchange, unless the abort of a second leg   *)
(* has stranded it.                                                        *)
THEOREM NothingSentTwice == Alone /\ Spec => NoDuplicateExposure
<1>1. BInv /\ DInv /\ [Next]_vars =>
        [restarts = 0 => \A r \in Requests :
            xcount'[r] > xcount[r] => xorder[r] \in {"none", "canceled"} \/ r \in stranded]_vars
  <2> SUFFICES ASSUME BInv, DInv, Next, restarts = 0, NEW r \in Requests, xcount'[r] > xcount[r]
               PROVE  xorder[r] \in {"none", "canceled"} \/ r \in stranded
    OBVIOUS
  <2>1. Settled /\ late = {} /\ xcount \in [Requests -> Nat] /\ xorder[r] \in OrderStates
    BY DEF DInv, BInv, KInv, TypeOK
  <2>2. xcount' # xcount
    BY <2>1
  <2>3. PICK t \in PlaceTasks : ExchangeAccepts(t)
    BY <2>1, <2>2 DEF Next, Calls, TaskStep, OperatorStep, ExchangeStep, PlaceStart, ReconcileStart,
       Cas, Validate, Reserve, CheckOpenOrders, RecordPosition, Abort, Send, Respond, SubmitFails,
       Return, StartRefresh, FetchFills, LookupOrder, FetchOpenOrders, FetchPositions, RefreshFails,
       HandleConflict, ApplyVerdict, HaltAmbiguous, Handled, HaltBinding, ActivateKillSwitch,
       CancelAll, CancelOrder, ClosePosition, Restart, ExchangeRejects, Fill, ArrivesLate, xVars
  <2>4. r = Req(t) /\ task[t].pc = "inflight" /\ task[t].sub = "sent"
    BY <2>1, <2>3 DEF ExchangeAccepts, Opened
  <2>5. ~Live(r) \/ r \in stranded
    BY <2>1, <2>4 DEF Settled, Clean, PlaceClean, Due, Req, Tasks
  <2> QED
    BY <2>1, <2>5 DEF Live, OrderStates
<1>2. Alone => OneGateway
  BY DEF Alone
<1> QED
  BY <1>1, <1>2, BInvInit, BInvStep, DInvInit, DInvStep, PTL DEF Spec, NoDuplicateExposure
=============================================================================
