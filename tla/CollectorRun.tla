----------------------------- MODULE CollectorRun -----------------------------
(***************************************************************************)
(* The collector run registry and its leases: SQLCollectorLeaseRepository  *)
(* (collector_runs.py) and the CLI process that lives on it (cli/main.py): *)
(* collect_research_data acquires one lease per collector group,           *)
(* _run_collector_with_lease supervises the collector task beside the      *)
(* lease-renewal thread, and stop_collector_run asks another process to    *)
(* stop and waits until it has.                                            *)
(*                                                                         *)
(* Every transaction of the repository is one step.  `now' is the wall     *)
(* clock all hosts agree on; a thread may stall for any number of ticks    *)
(* between two of its steps.  A run is one process: it is started once.    *)
(***************************************************************************)
EXTENDS Integers, Sequences, FiniteSets

CONSTANTS
    Runs,        \* run ids; owner_id is a function of the run
    Groups,      \* collector groups, the primary key of a lease row
    GroupsOf,    \* run -> its groups in the sorted order _collector_groups gives
    TTL,         \* lease_ttl_seconds
    RenewEvery,  \* ttl_seconds / 3
    MaxTime,     \* bound on the clock
    Stoppable,   \* the runs an operator calls stop_collector_run on
    None

ASSUME ConstantsAssumption ==
    /\ TTL \in Nat \ {0} /\ RenewEvery \in Nat /\ MaxTime \in Nat
    /\ GroupsOf \in [Runs -> Seq(Groups)]
    /\ \A r \in Runs : \A i, j \in 1 .. Len(GroupsOf[r]) :
          i # j => GroupsOf[r][i] # GroupsOf[r][j]
    /\ None \notin [run : Runs, exp : Nat]
    /\ Stoppable \subseteq Runs

VARIABLES
    now,         \* the clock
    lease,       \* group -> None, or the run and expiry in its row
    status,      \* run -> CollectorRunRecord.status
    granted,     \* run -> group -> expiry of the last lease granted to it, 0 if none
    pc,          \* run -> where its main thread is
    idx,         \* run -> groups already acquired (or already visited by a release loop)
    base,        \* run -> started_at
    collecting,  \* run -> the collector task is alive
    failure,     \* run -> the exception on its way out of the supervisor, if any
    stopreq,     \* run -> the stop_request event
    ren,         \* run -> the renewal thread
    cli          \* run -> the one stop_collector_run invocation aimed at it

vars == <<now, lease, status, granted, pc, idx, base, collecting, failure,
          stopreq, ren, cli>>

Active == {"RUNNING", "STOP_REQUESTED"}
Terminal == {"COMPLETED", "FAILED", "CANCELED"}
Status == {"ABSENT"} \cup Active \cup Terminal

(* The supervisor is inside asyncio.run: SIGINT sets the stop event.       *)
Supervising == {"collect", "drain", "persist", "join", "release"}
(* Before and after it SIGINT raises KeyboardInterrupt instead.            *)
Synchronous == {"acquire", "abort", "finish"}
Dead == {"idle", "exited", "interrupted", "crashed"}
PC == Supervising \cup Synchronous \cup Dead

Failure == {"none", "run", "release"}
RenPC == {"off", "wait", "renew", "save", "died"}
CliPC == {"idle", "save", "kill", "poll", "leases", "done", "refused"}

NGroups(r) == Len(GroupsOf[r])
GroupSet(r) == {GroupsOf[r][i] : i \in 1 .. NGroups(r)}
Grant(r, exp) == [run |-> r, exp |-> exp]
Owns(r, g) == lease[g] # None /\ lease[g].run = r

(* A renewal thread that is not running: never started, returned, died.    *)
NoThread(p) == [pc |-> p, i |-> 0, at |-> 0, due |-> 0, seen |-> "ABSENT"]

Waiting == [NoThread("wait") EXCEPT !.due = now + RenewEvery]

MutHeldByOther(r, g) ==  \* mutant: expiry compared one tick early
    lease[g] # None /\ lease[g].exp > now + 1 /\ lease[g].run # r

(* with_for_update row in acquire: an unexpired lease of another run.      *)
HeldByOther(r, g) == lease[g] # None /\ lease[g].exp > now /\ lease[g].run # r

(* release deletes the row only when run_id and owner_id match.            *)
Released(r, g) == IF Owns(r, g) THEN [lease EXCEPT ![g] = None] ELSE lease

(* The group the acquire loop reaches next: the groups are sorted.         *)
NextGroup(r) == GroupsOf[r][idx[r] + 1]

Init ==
    /\ now = 0
    /\ lease = [g \in Groups |-> None]
    /\ status = [r \in Runs |-> "ABSENT"]
    /\ granted = [r \in Runs |-> [g \in Groups |-> 0]]
    /\ pc = [r \in Runs |-> "idle"]
    /\ idx = [r \in Runs |-> 0]
    /\ base = [r \in Runs |-> 0]
    /\ collecting = [r \in Runs |-> FALSE]
    /\ failure = [r \in Runs |-> "none"]
    /\ stopreq = [r \in Runs |-> FALSE]
    /\ ren = [r \in Runs |-> NoThread("off")]
    /\ cli = [r \in Runs |-> "idle"]

-----------------------------------------------------------------------------
(* The main thread: collect_research_data / run_collector_soak.            *)

(* started_at is read, the run row is saved as RUNNING.                    *)
Start(r) ==
    /\ pc[r] = "idle"
    /\ pc' = [pc EXCEPT ![r] = "acquire"]
    /\ base' = [base EXCEPT ![r] = now]
    /\ status' = [status EXCEPT ![r] = "RUNNING"]
    /\ UNCHANGED <<now, lease, granted, idx, collecting, failure, stopreq, ren, cli>>

AcquireGranted(r) ==
    /\ pc[r] = "acquire"
    /\ idx[r] < NGroups(r)
    /\ LET g == NextGroup(r)
           exp == base[r] + TTL
       IN  /\ ~HeldByOther(r, g)
           /\ lease' = [lease EXCEPT ![g] = Grant(r, exp)]
           /\ granted' = [granted EXCEPT ![r][g] = exp]
    /\ idx' = [idx EXCEPT ![r] = @ + 1]
    /\ UNCHANGED <<now, status, pc, base, collecting, failure, stopreq, ren, cli>>

(* CollectorLeaseConflict: the run is saved as CANCELED_DUE_TO_OVERLAP and *)
(* the finally block releases what was acquired.                           *)
AcquireConflict(r) ==
    /\ pc[r] = "acquire"
    /\ idx[r] < NGroups(r)
    /\ HeldByOther(r, NextGroup(r))
    /\ status' = [status EXCEPT ![r] = "CANCELED"]
    /\ pc' = [pc EXCEPT ![r] = "abort"]
    /\ UNCHANGED <<now, lease, granted, idx, base, collecting, failure, stopreq, ren, cli>>

(* Any other exception while acquiring: FAILED, then the same finally.     *)
AcquireError(r) ==
    /\ pc[r] = "acquire"
    /\ idx[r] < NGroups(r)
    /\ status' = [status EXCEPT ![r] = "FAILED"]
    /\ pc' = [pc EXCEPT ![r] = "abort"]
    /\ UNCHANGED <<now, lease, granted, idx, base, collecting, failure, stopreq, ren, cli>>

(* The finally block before supervision: each acquired group is released,  *)
(* a failing release is only reported.                                     *)
AbortRelease(r) ==
    /\ pc[r] = "abort"
    /\ idx[r] > 0
    /\ LET g == GroupsOf[r][idx[r]]
       IN  /\ granted' = [granted EXCEPT ![r][g] = 0]
           /\ \/ lease' = Released(r, g)
              \/ lease' = lease
    /\ idx' = [idx EXCEPT ![r] = @ - 1]
    /\ UNCHANGED <<now, status, pc, base, collecting, failure, stopreq, ren, cli>>

AbortExit(r) ==
    /\ pc[r] = "abort"
    /\ idx[r] = 0
    /\ pc' = [pc EXCEPT ![r] = "exited"]
    /\ UNCHANGED <<now, lease, status, granted, idx, base, collecting, failure, stopreq, ren, cli>>

(* All leases are held: the collector task and the renewal thread start.   *)
Supervise(r) ==
    /\ pc[r] = "acquire"
    /\ idx[r] = NGroups(r)
    /\ pc' = [pc EXCEPT ![r] = "collect"]
    /\ collecting' = [collecting EXCEPT ![r] = TRUE]
    /\ ren' = [ren EXCEPT ![r] = Waiting]
    /\ UNCHANGED <<now, lease, status, granted, idx, base, failure, stopreq, cli>>

(* The collector task ends by itself (maximum_cycles) or by an exception;  *)
(* after shutdown() it ends once its queues are flushed.                   *)
CollectorEnds(r, failed) ==
    /\ collecting[r]
    /\ collecting' = [collecting EXCEPT ![r] = FALSE]
    /\ failure' = IF failed THEN [failure EXCEPT ![r] = "run"] ELSE failure
    /\ UNCHANGED <<now, lease, status, granted, pc, idx, base, stopreq, ren, cli>>

(* asyncio.wait returns: renewal over, collector over, stop event or timer *)
(* (the timer may fire at any moment); collector.shutdown() is called.     *)
Wake(r) ==
    /\ pc[r] = "collect"
    /\ pc' = [pc EXCEPT ![r] = "drain"]
    /\ failure' = IF ren[r].pc = "died" THEN [failure EXCEPT ![r] = "run"] ELSE failure
    /\ UNCHANGED <<now, lease, status, granted, idx, base, collecting, stopreq, ren, cli>>

MutDrained(r) ==  \* mutant: the collector is not awaited after shutdown()
    /\ pc[r] = "drain"
    /\ pc' = [pc EXCEPT ![r] = IF failure[r] = "none" THEN "join" ELSE "persist"]
    /\ UNCHANGED <<now, lease, status, granted, idx, base, collecting, failure, stopreq, ren, cli>>

(* gather(collector_task): only a finished collector lets it go on.        *)
Drained(r) ==
    /\ pc[r] = "drain"
    /\ ~collecting[r]
    /\ pc' = [pc EXCEPT ![r] = IF failure[r] = "none" THEN "join" ELSE "persist"]
    /\ UNCHANGED <<now, lease, status, granted, idx, base, collecting, failure, stopreq, ren, cli>>

(* The FAILED status is persisted while the renewal thread still runs; a   *)
(* failing save becomes a note on the exception.                           *)
PersistFailed(r) ==
    /\ pc[r] = "persist"
    /\ pc' = [pc EXCEPT ![r] = "join"]
    /\ \/ status' = [status EXCEPT ![r] = "FAILED"]
       \/ status' = status
    /\ UNCHANGED <<now, lease, granted, idx, base, collecting, failure, stopreq, ren, cli>>

MutJoined(r) ==  \* mutant: the renewal thread is not awaited
    /\ pc[r] = "join"
    /\ pc' = [pc EXCEPT ![r] = "release"]
    /\ idx' = [idx EXCEPT ![r] = 0]
    /\ UNCHANGED <<now, lease, status, granted, base, collecting, failure, stopreq, ren, cli>>

(* renewal_shutdown is set (pc = "join" is the flag) and the thread joined.*)
Joined(r) ==
    /\ pc[r] = "join"
    /\ ren[r].pc \in {"off", "died"}
    /\ pc' = [pc EXCEPT ![r] = "release"]
    /\ idx' = [idx EXCEPT ![r] = 0]
    /\ UNCHANGED <<now, lease, status, granted, base, collecting, failure, stopreq, ren, cli>>

(* One release per group, each under wait_for: a failed one may or may not *)
(* have deleted the row.                                                   *)
ReleaseGroup(r, failed) ==
    /\ pc[r] = "release"
    /\ idx[r] < NGroups(r)
    /\ LET g == NextGroup(r)
       IN  /\ granted' = [granted EXCEPT ![r][g] = 0]
           /\ \/ lease' = Released(r, g)
              \/ failed /\ lease' = lease
    /\ idx' = [idx EXCEPT ![r] = @ + 1]
    /\ failure' = IF failed /\ failure[r] = "none"
                  THEN [failure EXCEPT ![r] = "release"] ELSE failure
    /\ UNCHANGED <<now, status, pc, base, collecting, stopreq, ren, cli>>

(* Leaving the supervisor.  Release failures alone are persisted as FAILED *)
(* here (a failing save is a note); then the caller's handlers run.        *)
LeaveSupervisor(r) ==
    /\ pc[r] = "release"
    /\ idx[r] = NGroups(r)
    /\ pc' = [pc EXCEPT ![r] = "finish"]
    /\ \/ status' = status
       \/ failure[r] = "release" /\ status' = [status EXCEPT ![r] = "FAILED"]
    /\ UNCHANGED <<now, lease, granted, idx, base, collecting, failure, stopreq, ren, cli>>

(* COMPLETED after a clean return, FAILED in the except clause.            *)
Finish(r) ==
    /\ pc[r] = "finish"
    /\ pc' = [pc EXCEPT ![r] = "exited"]
    /\ status' = [status EXCEPT ![r] = IF failure[r] = "none" THEN "COMPLETED" ELSE "FAILED"]
    /\ UNCHANGED <<now, lease, granted, idx, base, collecting, failure, stopreq, ren, cli>>

(* SIGINT outside asyncio.run: KeyboardInterrupt passes every `except      *)
(* Exception'.  While acquiring, the finally block still releases; inside  *)
(* that block, or at the final save, the process just ends.                *)
Interrupt(r) ==
    /\ pc' = [pc EXCEPT ![r] = IF @ = "acquire" THEN "abort" ELSE "interrupted"]

(* The process dies: nothing it holds in the database changes.             *)
Crash(r) ==
    /\ pc[r] \notin Dead
    /\ pc' = [pc EXCEPT ![r] = "crashed"]
    /\ collecting' = [collecting EXCEPT ![r] = FALSE]
    /\ ren' = [ren EXCEPT ![r] = NoThread("off")]
    /\ UNCHANGED <<now, lease, status, granted, idx, base, failure, stopreq, cli>>

-----------------------------------------------------------------------------
(* The renewal thread: renew_until_stopped in _renew_collector_leases.     *)

MutRenewShutdown(r) ==  \* mutant: the thread is told to stop only after it was joined
    /\ ren[r].pc = "wait"
    /\ pc[r] = "release"
    /\ ren' = [ren EXCEPT ![r] = NoThread("off")]
    /\ UNCHANGED <<now, lease, status, granted, pc, idx, base, collecting, failure, stopreq, cli>>

(* The loop condition is read only between rounds.                         *)
RenewShutdown(r) ==
    /\ ren[r].pc = "wait"
    /\ pc[r] = "join"
    /\ ren' = [ren EXCEPT ![r] = NoThread("off")]
    /\ UNCHANGED <<now, lease, status, granted, pc, idx, base, collecting, failure, stopreq, cli>>

(* A round is due: one `now' for every group of the round.  The thread has *)
(* just seen shutdown unset.                                               *)
RenewRound(r) ==
    /\ ren[r].pc = "wait"
    /\ pc[r] # "join"
    /\ now >= ren[r].due
    /\ ren' = [ren EXCEPT ![r] = [ren[r] EXCEPT !.pc = "renew", !.i = 0, !.at = now]]
    /\ UNCHANGED <<now, lease, status, granted, pc, idx, base, collecting, failure, stopreq, cli>>

RenewableLease(r, g) == Owns(r, g) /\ lease[g].exp > now

(* renew: the row is extended to the round's now + ttl.  A call that took  *)
(* longer than renewal_timeout_seconds raises after the fact.              *)
RenewGroup(r, late) ==
    /\ ren[r].pc = "renew"
    /\ ren[r].i < NGroups(r)
    /\ LET g == GroupsOf[r][ren[r].i + 1]
           exp == ren[r].at + TTL
       IN  /\ RenewableLease(r, g)
           /\ lease' = [lease EXCEPT ![g] = Grant(r, exp)]
           /\ granted' = [granted EXCEPT ![r][g] = exp]
    /\ ren' = [ren EXCEPT ![r] = IF late THEN NoThread("died") ELSE [ren[r] EXCEPT !.i = ren[r].i + 1]]
    /\ UNCHANGED <<now, status, pc, idx, base, collecting, failure, stopreq, cli>>

(* CollectorLeaseConflict (ownership changed, or expired before renewal),  *)
(* or a database error: the exception ends the thread.                     *)
RenewFails(r) ==
    /\ ren[r].pc \in {"renew", "save"}
    /\ ren' = [ren EXCEPT ![r] = NoThread("died")]
    /\ UNCHANGED <<now, lease, status, granted, pc, idx, base, collecting, failure, stopreq, cli>>

(* The heartbeat is a read of the whole row ...                            *)
HeartbeatRead(r) ==
    /\ ren[r].pc = "renew"
    /\ ren[r].i = NGroups(r)
    /\ ren' = [ren EXCEPT ![r] = [ren[r] EXCEPT !.pc = "save", !.seen = status[r]]]
    /\ UNCHANGED <<now, lease, status, granted, pc, idx, base, collecting, failure, stopreq, cli>>

(* ... and, in another transaction, a write of the whole row.              *)
HeartbeatSave(r, late) ==
    /\ ren[r].pc = "save"
    /\ status' = [status EXCEPT ![r] = ren[r].seen]
    /\ ren' = [ren EXCEPT ![r] = IF late THEN NoThread("died") ELSE Waiting]
    /\ UNCHANGED <<now, lease, granted, pc, idx, base, collecting, failure, stopreq, cli>>

-----------------------------------------------------------------------------
(* Another process: stop_collector_run.                                    *)

(* A terminal status is reported as already stopped; otherwise the         *)
(* heartbeat must be fresh and the process identity must verify.           *)
StopRead(r) ==
    /\ r \in Stoppable
    /\ cli[r] = "idle"
    /\ status[r] # "ABSENT"
    /\ \/ /\ status[r] \in Active /\ pc[r] \notin Dead
          /\ cli' = [cli EXCEPT ![r] = "save"]
       \/ cli' = [cli EXCEPT ![r] = "refused"]
    /\ UNCHANGED <<now, lease, status, granted, pc, idx, base, collecting, failure, stopreq, ren>>

StopSave(r) ==
    /\ cli[r] = "save"
    /\ status' = [status EXCEPT ![r] = "STOP_REQUESTED"]
    /\ cli' = [cli EXCEPT ![r] = "kill"]
    /\ UNCHANGED <<now, lease, granted, pc, idx, base, collecting, failure, stopreq, ren>>

(* os.kill(SIGINT); ProcessLookupError when the process is gone.           *)
StopKill(r) ==
    /\ cli[r] = "kill"
    /\ \/ /\ pc[r] \in Supervising
          /\ stopreq' = [stopreq EXCEPT ![r] = TRUE]
          /\ cli' = [cli EXCEPT ![r] = "poll"]
          /\ UNCHANGED pc
       \/ /\ pc[r] \in Synchronous
          /\ Interrupt(r)
          /\ cli' = [cli EXCEPT ![r] = "poll"]
          /\ UNCHANGED stopreq
       \/ /\ pc[r] \in Dead
          /\ cli' = [cli EXCEPT ![r] = "refused"]
          /\ UNCHANGED <<pc, stopreq>>
    /\ UNCHANGED <<now, lease, status, granted, idx, base, collecting, failure, ren>>

(* Two reads per poll: the status, then has_leases.                        *)
StopPollStatus(r) ==
    /\ cli[r] = "poll"
    /\ status[r] \notin Active
    /\ cli' = [cli EXCEPT ![r] = "leases"]
    /\ UNCHANGED <<now, lease, status, granted, pc, idx, base, collecting, failure, stopreq, ren>>

StopPollLeases(r) ==
    /\ cli[r] = "leases"
    /\ cli' = [cli EXCEPT ![r] = IF \E g \in Groups : Owns(r, g) THEN "poll" ELSE "done"]
    /\ UNCHANGED <<now, lease, status, granted, pc, idx, base, collecting, failure, stopreq, ren>>

(* "graceful shutdown timed out".                                          *)
StopTimeout(r) ==
    /\ cli[r] = "poll"
    /\ cli' = [cli EXCEPT ![r] = "refused"]
    /\ UNCHANGED <<now, lease, status, granted, pc, idx, base, collecting, failure, stopreq, ren>>

-----------------------------------------------------------------------------
Tick ==
    /\ now < MaxTime
    /\ now' = now + 1
    /\ UNCHANGED <<lease, status, granted, pc, idx, base, collecting, failure, stopreq, ren, cli>>

Process(r) ==
    \/ AcquireGranted(r) \/ AcquireConflict(r) \/ AbortRelease(r) \/ AbortExit(r)
    \/ Supervise(r) \/ Drained(r) \/ PersistFailed(r) \/ Joined(r)
    \/ \E f \in BOOLEAN : ReleaseGroup(r, f)
    \/ LeaveSupervisor(r) \/ Finish(r)

Renewer(r) ==
    \/ RenewShutdown(r) \/ RenewRound(r) \/ RenewFails(r) \/ HeartbeatRead(r)
    \/ \E late \in BOOLEAN : RenewGroup(r, late) \/ HeartbeatSave(r, late)

Stopper(r) ==
    \/ StopRead(r) \/ StopSave(r) \/ StopKill(r)
    \/ StopPollStatus(r) \/ StopPollLeases(r) \/ StopTimeout(r)

RunNext(r) ==
    \/ Start(r) \/ Process(r) \/ AcquireError(r) \/ Wake(r) \/ Crash(r)
    \/ \E f \in BOOLEAN : CollectorEnds(r, f)
    \/ Renewer(r) \/ Stopper(r)

Next == Tick \/ \E r \in Runs : RunNext(r)

Spec == Init /\ [][Next]_vars

(* The event loop and the renewal thread are scheduled; a collector that   *)
(* was shut down ends; the stop event wakes the supervisor.  Time need not *)
(* pass and nobody need start, fail or crash.                              *)
Fairness ==
    \A r \in Runs :
        /\ WF_vars(Process(r))
        /\ WF_vars(Renewer(r))
        /\ WF_vars(pc[r] = "drain" /\ \E f \in BOOLEAN : CollectorEnds(r, f))
        /\ WF_vars((stopreq[r] \/ ~collecting[r] \/ ren[r].pc = "died") /\ Wake(r))

FairSpec == Spec /\ Fairness

-----------------------------------------------------------------------------
TypeOK ==
    /\ now \in Nat
    /\ lease \in [Groups -> [run : Runs, exp : Nat] \cup {None}]
    /\ status \in [Runs -> Status]
    /\ granted \in [Runs -> [Groups -> Nat]]
    /\ pc \in [Runs -> PC]
    /\ idx \in [Runs -> Nat]
    /\ \A r \in Runs : idx[r] <= NGroups(r)
    /\ base \in [Runs -> Nat]
    /\ collecting \in [Runs -> BOOLEAN]
    /\ failure \in [Runs -> Failure]
    /\ stopreq \in [Runs -> BOOLEAN]
    /\ ren \in [Runs -> [pc : RenPC, i : Nat, at : Nat, due : Nat, seen : Status]]
    /\ cli \in [Runs -> CliPC]

(* While a collector is alive its run was granted every one of its groups  *)
(* and gave none back, and a grant that has not expired is still the row   *)
(* in the table: leases are released only after the collector has drained, *)
(* and no other run can take an unexpired one.                             *)
CollectsUnderLease ==
    \A r \in Runs : collecting[r] =>
        \A g \in GroupSet(r) :
            /\ granted[r][g] > 0
            /\ granted[r][g] > now => Owns(r, g)

(* A process that ran to its end is never left RUNNING in the registry,    *)
(* although the heartbeat is an unguarded read-modify-write of the same    *)
(* row: the last heartbeat happens before the last status.                 *)
ExitedIsNotRunning ==
    \A r \in Runs : pc[r] = "exited" => status[r] # "RUNNING"

(* When stop_collector_run reports success ("checkpoint_flushed=true") the *)
(* collector is not collecting and will own no lease again.                *)
StopConfirmed ==
    \A r \in Runs : cli[r] = "done" =>
        /\ ~collecting[r]
        /\ \A g \in Groups : ~Owns(r, g)

(* A delivered stop request is answered: the process ends.                 *)
StopLeadsToExit ==
    \A r \in Runs : stopreq[r] ~> pc[r] \in Dead
=============================================================================
