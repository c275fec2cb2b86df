-------------------------- MODULE CollectorRun_proofs --------------------------
(***************************************************************************)
(* Proofs about CollectorRun for any set of runs, groups, lease lengths    *)
(* and any number of stop requests, and, in the second half, about         *)
(* CollectorPipeline, the inside of one such process, for any mode, queue  *)
(* size, number of connections, responses, faults and bad items.           *)
(*                                                                         *)
(* None of the invariants is inductive: whether a collector may go on,     *)
(* whether a status may be written and whether a stop may be confirmed     *)
(* depend on where the main thread is, so the strengthening ties grants,   *)
(* statuses and the stop command to program counters.  In the pipeline it  *)
(* ties the writes still to do to the rows there are (RefInv), and keeps   *)
(* the book stream in line from the worker to the checkpoint (ExactInv).   *)
(***************************************************************************)
EXTENDS CollectorRun, CollectorPipeline, TLAPS

(* The program points at which every group of the run is leased.           *)
Holding == {"collect", "drain", "persist", "join"}

(* An unexpired grant is the row in the table: acquire and renew are the   *)
(* only writers and neither takes an unexpired row from its owner.         *)
GrantsBacked ==
    \A r \in Runs, g \in Groups :
        granted[r][g] > now => Owns(r, g) /\ lease[g].exp = granted[r][g]

(* The acquire loop grants groups 1..idx, and they are kept until release. *)
GrantsKept ==
    \A r \in Runs :
        /\ pc[r] = "idle" => idx[r] = 0
        /\ pc[r] = "acquire" =>
              \A i \in 1 .. NGroups(r) : i <= idx[r] => granted[r][GroupsOf[r][i]] > 0
        /\ pc[r] \in Holding => \A g \in GroupSet(r) : granted[r][g] > 0
        /\ collecting[r] => pc[r] \in {"collect", "drain"}

LeaseInv == TypeOK /\ GrantsBacked /\ GrantsKept

(* The renewal thread lives only under the supervisor, and until the       *)
(* collector has drained nobody has written a terminal status.             *)
StatusByPhase ==
    \A r \in Runs :
        /\ pc[r] = "idle" => cli[r] = "idle" /\ status[r] = "ABSENT"
        /\ ren[r].pc \notin {"off", "died"} => pc[r] \in Holding
        /\ pc[r] \in {"acquire", "collect", "drain"} => status[r] \in Active
        /\ pc[r] \in {"collect", "drain"} /\ ren[r].pc = "save" => ren[r].seen \in Active
        /\ pc[r] = "acquire" /\ cli[r] = "kill" => status[r] = "STOP_REQUESTED"
        /\ pc[r] \in {"abort", "exited"} => status[r] # "RUNNING"

(* A stop command past its signal never sees the run acquire again, and    *)
(* one that read a terminal status knows that the collector has drained.   *)
StopByPhase ==
    \A r \in Runs :
        /\ cli[r] \in {"poll", "leases", "done"} => pc[r] \notin {"idle", "acquire"}
        /\ cli[r] \in {"leases", "done"} => pc[r] \notin {"collect", "drain"}
        /\ cli[r] = "done" => \A g \in Groups : ~Owns(r, g)

StopInv == StatusByPhase /\ StopByPhase
-----------------------------------------------------------------------------
(* Type correctness.                                                       *)

(* The groups of a run, as _collector_groups builds them.                  *)
LEMMA GroupFacts ==
    \A r \in Runs :
        /\ NGroups(r) \in Nat
        /\ \A i \in 1 .. NGroups(r) : GroupsOf[r][i] \in Groups
  BY ConstantsAssumption DEF NGroups

Lease == [run : Runs, exp : Nat]
Thread == [pc : RenPC, i : Nat, at : Nat, due : Nat, seen : Status]

LEMMA ThreadFacts ==
    /\ \A p \in RenPC : NoThread(p) \in Thread
    /\ now \in Nat => Waiting \in Thread
  BY ConstantsAssumption DEF NoThread, Waiting, Thread, RenPC, Status

LEMMA ThreadUpdates ==
    \A th \in Thread :
        /\ \A n \in Nat : [th EXCEPT !.pc = "renew", !.i = 0, !.at = n] \in Thread
        /\ [th EXCEPT !.i = th.i + 1] \in Thread
        /\ \A s \in Status : [th EXCEPT !.pc = "save", !.seen = s] \in Thread
  <1>1. {"renew", "save"} \subseteq RenPC
    BY DEF RenPC
  <1>2. \A th \in Thread, n \in Nat : [th EXCEPT !.pc = "renew", !.i = 0, !.at = n] \in Thread
    BY <1>1 DEF Thread
  <1>3. \A th \in Thread : [th EXCEPT !.i = th.i + 1] \in Thread
    BY DEF Thread
  <1>4. \A th \in Thread, s \in Status : [th EXCEPT !.pc = "save", !.seen = s] \in Thread
    BY <1>1 DEF Thread
  <1>5. QED
    BY <1>2, <1>3, <1>4

LEMMA TypeInit == Init => TypeOK
  BY ConstantsAssumption, GroupFacts DEF Init, TypeOK, NoThread, NGroups, Status, Active, Terminal,
       PC, Supervising, Synchronous, Dead, Failure, RenPC, CliPC

LEMMA TypeStep == TypeOK /\ [Next]_vars => TypeOK'
  <1> SUFFICES ASSUME TypeOK, [Next]_vars
               PROVE  TypeOK'
    OBVIOUS
  <1> USE ConstantsAssumption DEF TypeOK, Status, Active, Terminal, PC, Supervising, Synchronous,
          Dead, Failure, RenPC, CliPC
  <1>1. CASE UNCHANGED vars
    BY <1>1 DEF vars, NGroups
  <1>2. CASE Tick
    BY <1>2 DEF Tick, NGroups
  <1>3. ASSUME NEW r \in Runs, Start(r)
        PROVE  TypeOK'
    BY <1>3, GroupFacts DEF Start, NGroups
  <1>4. ASSUME NEW r \in Runs, AcquireGranted(r)
        PROVE  TypeOK'
    <2>1. NextGroup(r) \in Groups /\ base[r] + TTL \in Nat
      BY <1>4, GroupFacts DEF AcquireGranted, NextGroup
    <2>2. lease' \in [Groups -> Lease \cup {None}]
      BY <1>4, <2>1 DEF AcquireGranted, Grant, Lease
    <2>3. granted' \in [Runs -> [Groups -> Nat]]
      BY <1>4, <2>1 DEF AcquireGranted
    <2>4. idx' \in [Runs -> Nat] /\ \A q \in Runs : idx'[q] <= NGroups(q)
      BY <1>4, GroupFacts DEF AcquireGranted
    <2>. QED
      BY <1>4, <2>2, <2>3, <2>4 DEF AcquireGranted, Lease
  <1>5. ASSUME NEW r \in Runs, AcquireConflict(r)
        PROVE  TypeOK'
    BY <1>5, GroupFacts DEF AcquireConflict, NGroups
  <1>6. ASSUME NEW r \in Runs, AcquireError(r)
        PROVE  TypeOK'
    BY <1>6, GroupFacts DEF AcquireError, NGroups
  <1>7. ASSUME NEW r \in Runs, AbortRelease(r)
        PROVE  TypeOK'
    <2>1. GroupsOf[r][idx[r]] \in Groups
      BY <1>7, GroupFacts DEF AbortRelease
    <2>2. lease' \in [Groups -> Lease \cup {None}]
      BY <1>7, <2>1 DEF AbortRelease, Released, Lease
    <2>3. granted' \in [Runs -> [Groups -> Nat]]
      BY <1>7, <2>1 DEF AbortRelease
    <2>4. idx' \in [Runs -> Nat] /\ \A q \in Runs : idx'[q] <= NGroups(q)
      BY <1>7, GroupFacts DEF AbortRelease
    <2>. QED
      BY <1>7, <2>2, <2>3, <2>4 DEF AbortRelease, Lease
  <1>8. ASSUME NEW r \in Runs, AbortExit(r)
        PROVE  TypeOK'
    BY <1>8, GroupFacts DEF AbortExit, NGroups
  <1>9. ASSUME NEW r \in Runs, Supervise(r)
        PROVE  TypeOK'
    <2>1. ren' \in [Runs -> Thread]
      BY <1>9, ThreadFacts DEF Supervise, Thread
    <2>. QED
      BY <1>9, <2>1 DEF Supervise, Thread
  <1>10. ASSUME NEW r \in Runs, NEW f \in BOOLEAN, CollectorEnds(r, f)
        PROVE  TypeOK'
    BY <1>10, GroupFacts DEF CollectorEnds, NGroups
  <1>11. ASSUME NEW r \in Runs, Wake(r)
        PROVE  TypeOK'
    BY <1>11, GroupFacts DEF Wake, NGroups
  <1>12. ASSUME NEW r \in Runs, Drained(r)
        PROVE  TypeOK'
    BY <1>12, GroupFacts DEF Drained, NGroups
  <1>13. ASSUME NEW r \in Runs, PersistFailed(r)
        PROVE  TypeOK'
    BY <1>13, GroupFacts DEF PersistFailed, NGroups
  <1>14. ASSUME NEW r \in Runs, Joined(r)
        PROVE  TypeOK'
    BY <1>14, GroupFacts DEF Joined, NGroups
  <1>15. ASSUME NEW r \in Runs, NEW f \in BOOLEAN, ReleaseGroup(r, f)
        PROVE  TypeOK'
    <2>1. NextGroup(r) \in Groups
      BY <1>15, GroupFacts DEF ReleaseGroup, NextGroup
    <2>2. lease' \in [Groups -> Lease \cup {None}]
      BY <1>15, <2>1 DEF ReleaseGroup, Released, Lease
    <2>3. granted' \in [Runs -> [Groups -> Nat]]
      BY <1>15, <2>1 DEF ReleaseGroup
    <2>4. idx' \in [Runs -> Nat] /\ \A q \in Runs : idx'[q] <= NGroups(q)
      BY <1>15, GroupFacts DEF ReleaseGroup
    <2>5. failure' \in [Runs -> Failure]
      BY <1>15 DEF ReleaseGroup
    <2>. QED
      BY <1>15, <2>2, <2>3, <2>4, <2>5 DEF ReleaseGroup, Lease
  <1>16. ASSUME NEW r \in Runs, LeaveSupervisor(r)
        PROVE  TypeOK'
    BY <1>16, GroupFacts DEF LeaveSupervisor, NGroups
  <1>17. ASSUME NEW r \in Runs, Finish(r)
        PROVE  TypeOK'
    BY <1>17, GroupFacts DEF Finish, NGroups
  <1>18. ASSUME NEW r \in Runs, Crash(r)
        PROVE  TypeOK'
    BY <1>18, GroupFacts DEF Crash, NoThread, NGroups
  <1>19. ASSUME NEW r \in Runs, RenewShutdown(r)
        PROVE  TypeOK'
    BY <1>19, GroupFacts DEF RenewShutdown, NoThread, NGroups
  <1>20. ASSUME NEW r \in Runs, RenewRound(r)
        PROVE  TypeOK'
    <2>1. ren' \in [Runs -> Thread]
      <3>1. ren \in [Runs -> Thread] /\ now \in Nat
        BY DEF Thread
      <3> HIDE DEF TypeOK, RenPC, Status
      <3>. QED
        BY <1>20, <3>1, ThreadUpdates DEF RenewRound
    <2>. QED
      BY <1>20, <2>1 DEF RenewRound, Thread
  <1>21. ASSUME NEW r \in Runs, NEW late \in BOOLEAN, RenewGroup(r, late)
        PROVE  TypeOK'
    <2> DEFINE g == GroupsOf[r][ren[r].i + 1]
    <2>0. ren \in [Runs -> Thread] /\ ren[r].i \in Nat /\ ren[r].at \in Nat
      BY DEF Thread
    <2>1. g \in Groups /\ ren[r].at + TTL \in Nat
      <3> HIDE DEF TypeOK
      <3>1. ren[r].i + 1 \in 1 .. NGroups(r)
        BY <1>21, <2>0, GroupFacts DEF RenewGroup
      <3>. QED
        BY <2>0, <3>1, GroupFacts
    <2>2. lease' \in [Groups -> Lease \cup {None}]
      BY <1>21, <2>1 DEF RenewGroup, Grant, Lease
    <2>3. granted' \in [Runs -> [Groups -> Nat]]
      BY <1>21, <2>1 DEF RenewGroup
    <2>4. ren' \in [Runs -> Thread]
      <3>1. NoThread("died") \in Thread
        BY ThreadFacts
      <3> HIDE DEF TypeOK, RenPC, Status
      <3>. QED
        BY <1>21, <2>0, <3>1, ThreadUpdates DEF RenewGroup
    <2>. QED
      BY <1>21, <2>2, <2>3, <2>4 DEF RenewGroup, Lease, Thread
  <1>22. ASSUME NEW r \in Runs, RenewFails(r)
        PROVE  TypeOK'
    BY <1>22, GroupFacts DEF RenewFails, NoThread, NGroups
  <1>23. ASSUME NEW r \in Runs, HeartbeatRead(r)
        PROVE  TypeOK'
    <2>1. ren' \in [Runs -> Thread]
      <3>1. ren \in [Runs -> Thread] /\ status[r] \in Status
        BY DEF Thread
      <3> HIDE DEF TypeOK, RenPC, Status
      <3>. QED
        BY <1>23, <3>1, ThreadUpdates DEF HeartbeatRead
    <2>. QED
      BY <1>23, <2>1 DEF HeartbeatRead, Thread
  <1>24. ASSUME NEW r \in Runs, NEW late \in BOOLEAN, HeartbeatSave(r, late)
        PROVE  TypeOK'
    <2>1. ren' \in [Runs -> Thread]
      BY <1>24, ThreadFacts DEF HeartbeatSave, Thread
    <2>2. ren[r].seen \in Status
      OBVIOUS
    <2>. QED
      BY <1>24, <2>1, <2>2 DEF HeartbeatSave, Thread
  <1>25. ASSUME NEW r \in Runs, StopRead(r)
        PROVE  TypeOK'
    BY <1>25, GroupFacts DEF StopRead, NGroups
  <1>26. ASSUME NEW r \in Runs, StopSave(r)
        PROVE  TypeOK'
    BY <1>26, GroupFacts DEF StopSave, NGroups
  <1>27. ASSUME NEW r \in Runs, StopKill(r)
        PROVE  TypeOK'
    BY <1>27, GroupFacts DEF StopKill, Interrupt, NGroups
  <1>28. ASSUME NEW r \in Runs, StopPollStatus(r)
        PROVE  TypeOK'
    BY <1>28, GroupFacts DEF StopPollStatus, NGroups
  <1>29. ASSUME NEW r \in Runs, StopPollLeases(r)
        PROVE  TypeOK'
    BY <1>29, GroupFacts DEF StopPollLeases, Owns, NGroups
  <1>30. ASSUME NEW r \in Runs, StopTimeout(r)
        PROVE  TypeOK'
    BY <1>30, GroupFacts DEF StopTimeout, NGroups
  <1>31. QED
    BY <1>1, <1>2, <1>3, <1>4, <1>5, <1>6, <1>7, <1>8, <1>9, <1>10, <1>11, <1>12, <1>13, <1>14,
       <1>15, <1>16, <1>17, <1>18, <1>19, <1>20, <1>21, <1>22, <1>23, <1>24, <1>25, <1>26, <1>27,
       <1>28, <1>29, <1>30
       DEF Next, RunNext, Process, Renewer, Stopper

(* Every reachable state is well typed, for any number of runs, groups and *)
(* any lease length: the statuses written by the process, the renewal      *)
(* thread and the stop command are those of CollectorRunRecord.            *)
THEOREM TypeCorrect == Spec => []TypeOK
  BY TypeInit, TypeStep, PTL DEF Spec

-----------------------------------------------------------------------------
(* A collector works under its leases.                                     *)

(* What acquire, renew and release do to the rows: a row passes to r only  *)
(* if no other run holds it unexpired, and leaves only its owner.          *)
LEMMA GrantsBackedStep == LeaseInv /\ [Next]_vars => GrantsBacked'
  <1> SUFFICES ASSUME LeaseInv, [Next]_vars, NEW q \in Runs, NEW h \in Groups, granted'[q][h] > now'
               PROVE  lease'[h] # None /\ lease'[h].run = q /\ lease'[h].exp = granted'[q][h]
    BY DEF GrantsBacked, Owns
  <1>0. /\ now \in Nat /\ lease \in [Groups -> Lease \cup {None}] /\ None \notin Lease
        /\ granted \in [Runs -> [Groups -> Nat]]
        /\ granted[q][h] > now => lease[h] # None /\ lease[h].run = q /\ lease[h].exp = granted[q][h]
    BY ConstantsAssumption DEF LeaseInv, TypeOK, GrantsBacked, Owns, Lease
  <1>1. CASE UNCHANGED <<lease, granted, now>>
    BY <1>0, <1>1
  <1>2. CASE Tick
    BY <1>0, <1>2 DEF Tick
  <1>3. ASSUME NEW r \in Runs, NEW g \in Groups, NEW e \in Nat,
               lease' = [lease EXCEPT ![g] = Grant(r, e)],
               granted' = [granted EXCEPT ![r][g] = e], now' = now,
               lease[g] = None \/ lease[g].exp <= now \/ lease[g].run = r
        PROVE  lease'[h] # None /\ lease'[h].run = q /\ lease'[h].exp = granted'[q][h]
    <2>1. Grant(r, e) # None
      BY <1>0 DEF Grant, Lease
    <2>2. CASE h = g /\ q = r
      BY <1>0, <1>3, <2>1, <2>2 DEF Grant
    <2>3. CASE h = g /\ q # r
      BY <1>0, <1>3, <2>3 DEF Lease
    <2>4. CASE h # g
      BY <1>0, <1>3, <2>4
    <2>5. QED
      BY <2>2, <2>3, <2>4
  <1>4. ASSUME NEW r \in Runs, NEW g \in Groups, granted' = [granted EXCEPT ![r][g] = 0],
               lease' = lease \/ lease' = Released(r, g), now' = now
        PROVE  lease'[h] # None /\ lease'[h].run = q /\ lease'[h].exp = granted'[q][h]
    <2>1. CASE h = g /\ q = r
      BY <1>0, <1>4, <2>1
    <2>2. CASE h = g /\ q # r
      BY <1>0, <1>4, <2>2 DEF Released, Owns
    <2>3. CASE h # g
      BY <1>0, <1>4, <2>3 DEF Released
    <2>4. QED
      BY <2>1, <2>2, <2>3
  <1>5. ASSUME NEW r \in Runs, AcquireGranted(r)
        PROVE  lease'[h] # None /\ lease'[h].run = q /\ lease'[h].exp = granted'[q][h]
    <2>1. NextGroup(r) \in Groups /\ base[r] + TTL \in Nat
      <3>1. idx[r] + 1 \in 1 .. NGroups(r) /\ base[r] \in Nat
        BY <1>5, GroupFacts DEF LeaseInv, TypeOK, AcquireGranted
      <3>2. QED
        BY <3>1, GroupFacts, ConstantsAssumption DEF NextGroup
    <2>2. \/ lease[NextGroup(r)] = None \/ lease[NextGroup(r)].exp <= now
          \/ lease[NextGroup(r)].run = r
      BY <1>0, <1>5, <2>1 DEF AcquireGranted, HeldByOther, Lease
    <2>3. QED
      BY <1>3, <1>5, <2>1, <2>2 DEF AcquireGranted
  <1>6. ASSUME NEW r \in Runs, NEW late \in BOOLEAN, RenewGroup(r, late)
        PROVE  lease'[h] # None /\ lease'[h].run = q /\ lease'[h].exp = granted'[q][h]
    <2>1. ren[r].i \in Nat /\ ren[r].at \in Nat
      BY DEF LeaseInv, TypeOK
    <2>2. ren[r].i + 1 \in 1 .. NGroups(r)
      BY <1>6, <2>1, GroupFacts DEF RenewGroup
    <2>3. GroupsOf[r][ren[r].i + 1] \in Groups /\ ren[r].at + TTL \in Nat
      BY <2>1, <2>2, GroupFacts, ConstantsAssumption
    <2>4. QED
      BY <1>3, <1>6, <2>3 DEF RenewGroup, RenewableLease, Owns
  <1>7. ASSUME NEW r \in Runs, AbortRelease(r)
        PROVE  lease'[h] # None /\ lease'[h].run = q /\ lease'[h].exp = granted'[q][h]
    <2>1. GroupsOf[r][idx[r]] \in Groups
      BY <1>7, GroupFacts DEF LeaseInv, TypeOK, AbortRelease
    <2>2. QED
      BY <1>4, <1>7, <2>1 DEF AbortRelease
  <1>8. ASSUME NEW r \in Runs, NEW f \in BOOLEAN, ReleaseGroup(r, f)
        PROVE  lease'[h] # None /\ lease'[h].run = q /\ lease'[h].exp = granted'[q][h]
    <2>1. NextGroup(r) \in Groups
      BY <1>8, GroupFacts DEF LeaseInv, TypeOK, ReleaseGroup, NextGroup
    <2>2. QED
      BY <1>4, <1>8, <2>1 DEF ReleaseGroup
  <1>9. ASSUME NEW r \in Runs, Stopper(r) PROVE UNCHANGED <<lease, granted, now>>
    BY <1>9 DEF Stopper, StopRead, StopSave, StopKill, StopPollStatus, StopPollLeases, StopTimeout
  <1>10. ASSUME NEW r \in Runs, Renewer(r)
         PROVE  UNCHANGED <<lease, granted, now>> \/ \E late \in BOOLEAN : RenewGroup(r, late)
    BY <1>10 DEF Renewer, RenewShutdown, RenewRound, RenewFails, HeartbeatRead, HeartbeatSave
  <1>11. ASSUME NEW r \in Runs, Process(r)
         PROVE  \/ UNCHANGED <<lease, granted, now>> \/ AcquireGranted(r) \/ AbortRelease(r)
                \/ \E f \in BOOLEAN : ReleaseGroup(r, f)
    BY <1>11 DEF Process, AcquireConflict, AbortExit, Supervise, Drained, PersistFailed, Joined,
                 LeaveSupervisor, Finish
  <1>12. ASSUME NEW r \in Runs,
                \/ Start(r) \/ AcquireError(r) \/ Wake(r) \/ Crash(r)
                \/ \E f \in BOOLEAN : CollectorEnds(r, f)
         PROVE  UNCHANGED <<lease, granted, now>>
    BY <1>12 DEF Start, AcquireError, Wake, Crash, CollectorEnds
  <1>13. CASE Next
    BY <1>1, <1>2, <1>5, <1>6, <1>7, <1>8, <1>9, <1>10, <1>11, <1>12, <1>13 DEF Next, RunNext
  <1>14. QED
    BY <1>1, <1>13 DEF vars

(* Grants are recorded group by group and cleared only by release.         *)
LEMMA GrantsKeptStep == LeaseInv /\ [Next]_vars => GrantsKept'
  <1> DEFINE Kept(q) ==
        /\ pc[q] = "idle" => idx[q] = 0
        /\ pc[q] = "acquire" =>
              \A i \in 1 .. NGroups(q) : i <= idx[q] => granted[q][GroupsOf[q][i]] > 0
        /\ pc[q] \in Holding => \A g \in GroupSet(q) : granted[q][g] > 0
        /\ collecting[q] => pc[q] \in {"collect", "drain"}
  <1> SUFFICES ASSUME LeaseInv, [Next]_vars, NEW q \in Runs
               PROVE  Kept(q)'
    BY DEF GrantsKept
  <1>0. /\ pc \in [Runs -> PC] /\ idx \in [Runs -> Nat] /\ idx[q] <= NGroups(q)
        /\ granted \in [Runs -> [Groups -> Nat]] /\ collecting \in [Runs -> BOOLEAN]
        /\ Kept(q)
    BY DEF LeaseInv, TypeOK, GrantsKept
  <1> USE DEF Holding
  <1>1. CASE UNCHANGED <<pc, idx, granted, collecting>>
    BY <1>0, <1>1 DEF GroupSet, NGroups
  <1>2. ASSUME NEW r \in Runs, Start(r) PROVE Kept(q)'
    <2>1. CASE q = r
      BY <1>0, <1>2, <2>1 DEF Start
    <2>2. CASE q # r
      BY <1>0, <1>2, <2>2 DEF Start, GroupSet, NGroups
    <2>3. QED
      BY <2>1, <2>2
  <1>3. ASSUME NEW r \in Runs, AcquireGranted(r) PROVE Kept(q)'
    <2> DEFINE g == GroupsOf[r][idx[r] + 1]
    <2>1. idx[r] + 1 \in 1 .. NGroups(r) /\ base[r] + TTL \in Nat \ {0}
      <3>1. idx[r] + 1 \in 1 .. NGroups(r) /\ base[r] \in Nat
        BY <1>3, GroupFacts DEF LeaseInv, TypeOK, AcquireGranted
      <3>2. QED
        BY <3>1, ConstantsAssumption
    <2>2. g \in Groups
      BY <2>1, GroupFacts
    <2>3. CASE q = r
      <3>1. idx'[q] = idx[q] + 1 /\ pc'[q] = "acquire" /\ ~collecting'[q]
        BY <1>0, <1>3, <2>3 DEF AcquireGranted
      <3>2. granted'[q][g] > 0 /\ \A k \in Groups \ {g} : granted'[q][k] = granted[q][k]
        BY <1>0, <1>3, <2>1, <2>2, <2>3 DEF AcquireGranted, NextGroup
      <3>3. \A i \in 1 .. NGroups(q) : i <= idx'[q] => granted'[q][GroupsOf[q][i]] > 0
        BY <1>0, <1>3, <2>3, <3>1, <3>2, GroupFacts DEF AcquireGranted
      <3>4. QED
        BY <3>1, <3>3
    <2>4. CASE q # r
      BY <1>0, <1>3, <2>4 DEF AcquireGranted
    <2>5. QED
      BY <2>3, <2>4
  <1>4. ASSUME NEW r \in Runs,
               pc' = pc /\ pc[r] \notin Holding \cup {"acquire", "idle"},
               \E g : granted' = [granted EXCEPT ![r][g] = 0],
               idx' \in [Runs -> Nat], \A s \in Runs \ {r} : idx'[s] = idx[s],
               collecting' = collecting
        PROVE  Kept(q)'
    <2>1. CASE q = r
      BY <1>0, <1>4, <2>1
    <2>2. CASE q # r
      BY <1>0, <1>4, <2>2
    <2>3. QED
      BY <2>1, <2>2
  <1>5. ASSUME NEW r \in Runs, AbortRelease(r) PROVE Kept(q)'
    <2>1. idx' \in [Runs -> Nat] /\ \A s \in Runs \ {r} : idx'[s] = idx[s]
      BY <1>0, <1>5 DEF AbortRelease
    <2>2. QED
      BY <1>4, <1>5, <2>1 DEF AbortRelease
  <1>6. ASSUME NEW r \in Runs, NEW f \in BOOLEAN, ReleaseGroup(r, f) PROVE Kept(q)'
    <2>1. idx' \in [Runs -> Nat] /\ \A s \in Runs \ {r} : idx'[s] = idx[s]
      BY <1>0, <1>6 DEF ReleaseGroup
    <2>2. QED
      BY <1>4, <1>6, <2>1 DEF ReleaseGroup
  <1>7. ASSUME NEW r \in Runs, Supervise(r) PROVE Kept(q)'
    BY <1>0, <1>7, GroupFacts DEF Supervise, GroupSet
  <1>8. ASSUME NEW r \in Runs, NEW f \in BOOLEAN, CollectorEnds(r, f) PROVE Kept(q)'
    BY <1>0, <1>8 DEF CollectorEnds, GroupSet
  <1>9. ASSUME NEW r \in Runs, UNCHANGED <<granted, collecting>>,
               UNCHANGED idx \/ idx' = [idx EXCEPT ![r] = 0],
               \E p \in PC : /\ pc' = [pc EXCEPT ![r] = p] /\ p \notin {"idle", "acquire", "collect"}
                             /\ p \in Holding => pc[r] \in Holding,
               collecting[r] => pc'[r] = "drain"
        PROVE  Kept(q)'
    <2>1. CASE q = r
      BY <1>0, <1>9, <2>1 DEF GroupSet
    <2>2. CASE q # r
      BY <1>0, <1>9, <2>2 DEF GroupSet
    <2>3. QED
      BY <2>1, <2>2
  <1>10. ASSUME NEW r \in Runs, RenewGroup(r, TRUE) \/ RenewGroup(r, FALSE) PROVE Kept(q)'
    <2>1. ren[r].at + TTL \in Nat \ {0}
      <3>1. ren[r].at \in Nat
        BY DEF LeaseInv, TypeOK
      <3>2. QED
        BY <3>1, ConstantsAssumption
    <2>2. \A g \in Groups : granted[q][g] > 0 => granted'[q][g] > 0
      <3>1. PICK k : granted' = [granted EXCEPT ![r][k] = ren[r].at + TTL]
        BY <1>10 DEF RenewGroup
      <3>2. QED
        BY <1>0, <2>1, <3>1
    <2>3. \A i \in 1 .. NGroups(q) : GroupsOf[q][i] \in Groups
      BY GroupFacts
    <2>4. QED
      BY <1>0, <1>10, <2>2, <2>3 DEF RenewGroup, GroupSet
  <1>11. ASSUME NEW r \in Runs, Crash(r) PROVE Kept(q)'
    BY <1>0, <1>11 DEF Crash, GroupSet
  <1>12. ASSUME NEW r \in Runs, collecting[r] PROVE pc[r] \in {"collect", "drain"}
    BY <1>12 DEF LeaseInv, GrantsKept
  <1>13. ASSUME NEW r \in Runs,
                AcquireConflict(r) \/ AcquireError(r) \/ AbortExit(r) \/ LeaveSupervisor(r) \/ Finish(r)
         PROVE  Kept(q)'
    <2>1. PICK p \in {"abort", "exited", "finish"} : pc' = [pc EXCEPT ![r] = p]
      BY <1>13 DEF AcquireConflict, AcquireError, AbortExit, LeaveSupervisor, Finish
    <2>2. UNCHANGED <<granted, collecting, idx>> /\ ~collecting[r]
      BY <1>12, <1>13 DEF AcquireConflict, AcquireError, AbortExit, LeaveSupervisor, Finish
    <2>3. QED
      BY <1>9, <2>1, <2>2 DEF PC, Supervising, Synchronous, Dead
  <1>14. ASSUME NEW r \in Runs, Wake(r) \/ Drained(r) \/ PersistFailed(r) \/ Joined(r)
         PROVE  Kept(q)'
    <2>1. PICK p \in {"drain", "persist", "join", "release"} : pc' = [pc EXCEPT ![r] = p]
      BY <1>14 DEF Wake, Drained, PersistFailed, Joined
    <2>2. /\ pc[r] \in Holding /\ UNCHANGED <<granted, collecting>>
          /\ UNCHANGED idx \/ idx' = [idx EXCEPT ![r] = 0]
      BY <1>14 DEF Wake, Drained, PersistFailed, Joined
    <2>3. collecting[r] => pc'[r] = "drain"
      BY <1>0, <1>12, <1>14 DEF Wake, Drained, PersistFailed, Joined
    <2>4. QED
      BY <1>9, <2>1, <2>2, <2>3 DEF PC, Supervising
  <1>15. ASSUME NEW r \in Runs, StopKill(r)
         PROVE  Kept(q)'
    <2>1. CASE UNCHANGED pc
      BY <1>1, <1>15, <2>1 DEF StopKill
    <2>2. CASE pc[r] \in Synchronous /\ Interrupt(r)
      <3>1. PICK p \in {"abort", "interrupted"} : pc' = [pc EXCEPT ![r] = p]
        BY <2>2 DEF Interrupt
      <3>2. UNCHANGED <<granted, collecting, idx>> /\ ~collecting[r]
        BY <1>12, <1>15, <2>2 DEF StopKill, Synchronous
      <3>3. QED
        BY <1>9, <3>1, <3>2 DEF PC, Synchronous, Dead
    <2>3. QED
      BY <1>15, <2>1, <2>2 DEF StopKill
  <1>16. CASE Next
    BY <1>1, <1>2, <1>3, <1>5, <1>6, <1>7, <1>8, <1>10, <1>11, <1>13, <1>14, <1>15, <1>16
       DEF Next, RunNext, Process, Renewer, Stopper, Tick, RenewShutdown, RenewRound, RenewFails,
           HeartbeatRead, HeartbeatSave, StopRead, StopSave, StopPollStatus, StopPollLeases,
           StopTimeout
  <1>17. QED
    BY <1>1, <1>16 DEF vars

LEMMA LeaseInvariant == Spec => []LeaseInv
  <1>1. Init => LeaseInv
    <2>1. Init => TypeOK
      BY TypeInit
    <2>2. Init => GrantsBacked /\ GrantsKept
      BY DEF Init, GrantsBacked, GrantsKept, Holding
    <2>3. QED
      BY <2>1, <2>2 DEF LeaseInv
  <1>2. LeaseInv /\ [Next]_vars => LeaseInv'
    BY TypeStep, GrantsBackedStep, GrantsKeptStep DEF LeaseInv
  <1>3. QED
    BY <1>1, <1>2, PTL DEF Spec

(* A collector that is alive was granted every one of its groups and gave  *)
(* none back, and every grant that has not expired is still its row in the *)
(* table, whatever the other runs do and however long any thread stalls.   *)
THEOREM CollectorHoldsLeases == Spec => []CollectsUnderLease
  <1>1. LeaseInv => CollectsUnderLease
    <2> SUFFICES ASSUME LeaseInv, NEW r \in Runs, collecting[r], NEW g \in GroupSet(r)
                 PROVE  granted[r][g] > 0 /\ (granted[r][g] > now => Owns(r, g))
      BY DEF CollectsUnderLease
    <2>1. g \in Groups
      BY GroupFacts DEF GroupSet
    <2>2. pc[r] \in Holding
      BY DEF LeaseInv, GrantsKept, Holding
    <2>3. QED
      BY <2>1, <2>2 DEF LeaseInv, GrantsKept, GrantsBacked
  <1>2. QED
    BY <1>1, LeaseInvariant, PTL

-----------------------------------------------------------------------------
(* What the registry says about a run.                                     *)

LEMMA StatusByPhaseStep == TypeOK /\ StatusByPhase /\ [Next]_vars => StatusByPhase'
  <1> DEFINE Phase(q) ==
        /\ pc[q] = "idle" => cli[q] = "idle" /\ status[q] = "ABSENT"
        /\ ren[q].pc \notin {"off", "died"} => pc[q] \in Holding
        /\ pc[q] \in {"acquire", "collect", "drain"} => status[q] \in Active
        /\ pc[q] \in {"collect", "drain"} /\ ren[q].pc = "save" => ren[q].seen \in Active
        /\ pc[q] = "acquire" /\ cli[q] = "kill" => status[q] = "STOP_REQUESTED"
        /\ pc[q] \in {"abort", "exited"} => status[q] # "RUNNING"
  <1> SUFFICES ASSUME TypeOK, StatusByPhase, [Next]_vars, NEW q \in Runs
               PROVE  Phase(q)'
    BY DEF StatusByPhase
  <1>0. /\ pc \in [Runs -> PC] /\ cli \in [Runs -> CliPC] /\ status \in [Runs -> Status]
        /\ ren \in [Runs -> Thread]
        /\ Phase(q)
    BY DEF TypeOK, Thread, StatusByPhase
  <1> USE DEF Holding, Active, Thread
  <1>1. CASE UNCHANGED vars
    BY <1>0, <1>1 DEF vars
  <1>2. CASE Tick
    BY <1>0, <1>2 DEF Tick
  <1>3. ASSUME NEW r \in Runs, Start(r) PROVE Phase(q)'
    BY <1>0, <1>3 DEF Start
  <1>4. ASSUME NEW r \in Runs, AcquireGranted(r) PROVE Phase(q)'
    BY <1>0, <1>4 DEF AcquireGranted
  <1>5. ASSUME NEW r \in Runs, AcquireConflict(r) PROVE Phase(q)'
    BY <1>0, <1>5 DEF AcquireConflict
  <1>6. ASSUME NEW r \in Runs, AcquireError(r) PROVE Phase(q)'
    BY <1>0, <1>6 DEF AcquireError
  <1>7. ASSUME NEW r \in Runs, AbortRelease(r) PROVE Phase(q)'
    BY <1>0, <1>7 DEF AbortRelease
  <1>8. ASSUME NEW r \in Runs, AbortExit(r) PROVE Phase(q)'
    BY <1>0, <1>8 DEF AbortExit
  <1>9. ASSUME NEW r \in Runs, Supervise(r) PROVE Phase(q)'
    BY <1>0, <1>9 DEF Supervise, Waiting, NoThread
  <1>10. ASSUME NEW r \in Runs, NEW f \in BOOLEAN, CollectorEnds(r, f) PROVE Phase(q)'
    BY <1>0, <1>10 DEF CollectorEnds
  <1>11. ASSUME NEW r \in Runs, Wake(r) PROVE Phase(q)'
    BY <1>0, <1>11 DEF Wake
  <1>12. ASSUME NEW r \in Runs, Drained(r) PROVE Phase(q)'
    BY <1>0, <1>12 DEF Drained
  <1>13. ASSUME NEW r \in Runs, PersistFailed(r) PROVE Phase(q)'
    BY <1>0, <1>13 DEF PersistFailed
  <1>14. ASSUME NEW r \in Runs, Joined(r) PROVE Phase(q)'
    BY <1>0, <1>14 DEF Joined
  <1>15. ASSUME NEW r \in Runs, NEW f \in BOOLEAN, ReleaseGroup(r, f) PROVE Phase(q)'
    BY <1>0, <1>15 DEF ReleaseGroup
  <1>16. ASSUME NEW r \in Runs, LeaveSupervisor(r) PROVE Phase(q)'
    BY <1>0, <1>16 DEF LeaveSupervisor
  <1>17. ASSUME NEW r \in Runs, Finish(r) PROVE Phase(q)'
    BY <1>0, <1>17 DEF Finish
  <1>18. ASSUME NEW r \in Runs, Crash(r) PROVE Phase(q)'
    BY <1>0, <1>18 DEF Crash, NoThread, Dead
  <1>19. ASSUME NEW r \in Runs, RenewShutdown(r) PROVE Phase(q)'
    BY <1>0, <1>19 DEF RenewShutdown, NoThread
  <1>20. ASSUME NEW r \in Runs, RenewRound(r) PROVE Phase(q)'
    BY <1>0, <1>20 DEF RenewRound
  <1>21. ASSUME NEW r \in Runs, NEW late \in BOOLEAN, RenewGroup(r, late) PROVE Phase(q)'
    BY <1>0, <1>21 DEF RenewGroup, NoThread
  <1>22. ASSUME NEW r \in Runs, RenewFails(r) PROVE Phase(q)'
    BY <1>0, <1>22 DEF RenewFails, NoThread
  <1>23. ASSUME NEW r \in Runs, HeartbeatRead(r) PROVE Phase(q)'
    BY <1>0, <1>23 DEF HeartbeatRead
  <1>24. ASSUME NEW r \in Runs, NEW late \in BOOLEAN, HeartbeatSave(r, late) PROVE Phase(q)'
    BY <1>0, <1>24 DEF HeartbeatSave, Waiting, NoThread
  <1>25. ASSUME NEW r \in Runs, StopRead(r) PROVE Phase(q)'
    BY <1>0, <1>25 DEF StopRead, Dead
  <1>26. ASSUME NEW r \in Runs, StopSave(r) PROVE Phase(q)'
    BY <1>0, <1>26 DEF StopSave
  <1>27. ASSUME NEW r \in Runs, StopKill(r) PROVE Phase(q)'
    BY <1>0, <1>27 DEF StopKill, Interrupt, Supervising, Synchronous, Dead
  <1>28. ASSUME NEW r \in Runs, StopPollStatus(r) PROVE Phase(q)'
    BY <1>0, <1>28 DEF StopPollStatus
  <1>29. ASSUME NEW r \in Runs, StopPollLeases(r) PROVE Phase(q)'
    BY <1>0, <1>29 DEF StopPollLeases
  <1>30. ASSUME NEW r \in Runs, StopTimeout(r) PROVE Phase(q)'
    BY <1>0, <1>30 DEF StopTimeout
  <1>31. QED
    BY <1>1, <1>2, <1>3, <1>4, <1>5, <1>6, <1>7, <1>8, <1>9, <1>10, <1>11, <1>12, <1>13, <1>14,
       <1>15, <1>16, <1>17, <1>18, <1>19, <1>20, <1>21, <1>22, <1>23, <1>24, <1>25, <1>26, <1>27,
       <1>28, <1>29, <1>30
       DEF Next, RunNext, Process, Renewer, Stopper

(* A stop command past its signal stays ahead of the run.                  *)
LEMMA StopByPhaseStep == TypeOK /\ StatusByPhase /\ StopByPhase /\ [Next]_vars => StopByPhase'
  <1> DEFINE Stop(q) ==
        /\ cli[q] \in {"poll", "leases", "done"} => pc[q] \notin {"idle", "acquire"}
        /\ cli[q] \in {"leases", "done"} => pc[q] \notin {"collect", "drain"}
        /\ cli[q] = "done" => \A g \in Groups : ~(lease[g] # None /\ lease[g].run = q)
  <1> SUFFICES ASSUME TypeOK, StatusByPhase, StopByPhase, [Next]_vars, NEW q \in Runs
               PROVE  Stop(q)'
    BY DEF StopByPhase, Owns
  <1>0. /\ pc \in [Runs -> PC] /\ cli \in [Runs -> CliPC]
        /\ lease \in [Groups -> Lease \cup {None}]
        /\ pc[q] \in {"acquire", "collect", "drain"} => status[q] \in Active
        /\ pc[q] = "idle" => cli[q] = "idle"
        /\ Stop(q)
    BY DEF TypeOK, Lease, StatusByPhase, StopByPhase, Owns
  <1> USE DEF Active, Owns
  <1>1. CASE UNCHANGED vars
    BY <1>0, <1>1 DEF vars
  <1>2. CASE Tick
    BY <1>0, <1>2 DEF Tick
  <1>3. ASSUME NEW r \in Runs, Start(r) PROVE Stop(q)'
    BY <1>0, <1>3 DEF Start
  <1>4. ASSUME NEW r \in Runs, AcquireGranted(r) PROVE Stop(q)'
    BY <1>0, <1>4 DEF AcquireGranted, NextGroup, Grant
  <1>5. ASSUME NEW r \in Runs, AcquireConflict(r) PROVE Stop(q)'
    BY <1>0, <1>5 DEF AcquireConflict
  <1>6. ASSUME NEW r \in Runs, AcquireError(r) PROVE Stop(q)'
    BY <1>0, <1>6 DEF AcquireError
  <1>7. ASSUME NEW r \in Runs, AbortRelease(r) PROVE Stop(q)'
    BY <1>0, <1>7 DEF AbortRelease, Released
  <1>8. ASSUME NEW r \in Runs, AbortExit(r) PROVE Stop(q)'
    BY <1>0, <1>8 DEF AbortExit
  <1>9. ASSUME NEW r \in Runs, Supervise(r) PROVE Stop(q)'
    BY <1>0, <1>9 DEF Supervise
  <1>10. ASSUME NEW r \in Runs, NEW f \in BOOLEAN, CollectorEnds(r, f) PROVE Stop(q)'
    BY <1>0, <1>10 DEF CollectorEnds
  <1>11. ASSUME NEW r \in Runs, Wake(r) PROVE Stop(q)'
    BY <1>0, <1>11 DEF Wake
  <1>12. ASSUME NEW r \in Runs, Drained(r) PROVE Stop(q)'
    BY <1>0, <1>12 DEF Drained
  <1>13. ASSUME NEW r \in Runs, PersistFailed(r) PROVE Stop(q)'
    BY <1>0, <1>13 DEF PersistFailed
  <1>14. ASSUME NEW r \in Runs, Joined(r) PROVE Stop(q)'
    BY <1>0, <1>14 DEF Joined
  <1>15. ASSUME NEW r \in Runs, NEW f \in BOOLEAN, ReleaseGroup(r, f) PROVE Stop(q)'
    BY <1>0, <1>15 DEF ReleaseGroup, Released
  <1>16. ASSUME NEW r \in Runs, LeaveSupervisor(r) PROVE Stop(q)'
    BY <1>0, <1>16 DEF LeaveSupervisor
  <1>17. ASSUME NEW r \in Runs, Finish(r) PROVE Stop(q)'
    BY <1>0, <1>17 DEF Finish
  <1>18. ASSUME NEW r \in Runs, Crash(r) PROVE Stop(q)'
    BY <1>0, <1>18 DEF Crash
  <1>19. ASSUME NEW r \in Runs, RenewShutdown(r) PROVE Stop(q)'
    BY <1>0, <1>19 DEF RenewShutdown
  <1>20. ASSUME NEW r \in Runs, RenewRound(r) PROVE Stop(q)'
    BY <1>0, <1>20 DEF RenewRound
  <1>21. ASSUME NEW r \in Runs, NEW late \in BOOLEAN, RenewGroup(r, late) PROVE Stop(q)'
    BY <1>0, <1>21 DEF RenewGroup, RenewableLease, Grant
  <1>22. ASSUME NEW r \in Runs, RenewFails(r) PROVE Stop(q)'
    BY <1>0, <1>22 DEF RenewFails
  <1>23. ASSUME NEW r \in Runs, HeartbeatRead(r) PROVE Stop(q)'
    BY <1>0, <1>23 DEF HeartbeatRead
  <1>24. ASSUME NEW r \in Runs, NEW late \in BOOLEAN, HeartbeatSave(r, late) PROVE Stop(q)'
    BY <1>0, <1>24 DEF HeartbeatSave
  <1>25. ASSUME NEW r \in Runs, StopRead(r) PROVE Stop(q)'
    BY <1>0, <1>25 DEF StopRead
  <1>26. ASSUME NEW r \in Runs, StopSave(r) PROVE Stop(q)'
    BY <1>0, <1>26 DEF StopSave
  <1>27. ASSUME NEW r \in Runs, StopKill(r) PROVE Stop(q)'
    BY <1>0, <1>27 DEF StopKill, Interrupt, Supervising, Synchronous, Dead
  <1>28. ASSUME NEW r \in Runs, StopPollStatus(r) PROVE Stop(q)'
    BY <1>0, <1>28 DEF StopPollStatus
  <1>29. ASSUME NEW r \in Runs, StopPollLeases(r) PROVE Stop(q)'
    BY <1>0, <1>29 DEF StopPollLeases
  <1>30. ASSUME NEW r \in Runs, StopTimeout(r) PROVE Stop(q)'
    BY <1>0, <1>30 DEF StopTimeout
  <1>31. QED
    BY <1>1, <1>2, <1>3, <1>4, <1>5, <1>6, <1>7, <1>8, <1>9, <1>10, <1>11, <1>12, <1>13, <1>14,
       <1>15, <1>16, <1>17, <1>18, <1>19, <1>20, <1>21, <1>22, <1>23, <1>24, <1>25, <1>26, <1>27,
       <1>28, <1>29, <1>30
       DEF Next, RunNext, Process, Renewer, Stopper

LEMMA StopInvariant == Spec => []StopInv
  <1>1. Init => StopInv
    BY DEF Init, StopInv, StatusByPhase, StopByPhase, NoThread
  <1>2. TypeOK /\ StopInv /\ [Next]_vars => StopInv'
    BY StatusByPhaseStep, StopByPhaseStep DEF StopInv
  <1>3. QED
    BY <1>1, <1>2, TypeCorrect, PTL DEF Spec

(* A process that ran to its end is not left RUNNING: the heartbeat's      *)
(* read-modify-write of the status cannot outlive the supervisor, because  *)
(* the renewal thread is joined before the leases are released.            *)
THEOREM LastStatusStands == Spec => []ExitedIsNotRunning
  <1>1. StopInv => ExitedIsNotRunning
    BY DEF StopInv, StatusByPhase, ExitedIsNotRunning
  <1>2. QED
    BY <1>1, StopInvariant, PTL

(* When stop_collector_run reports success the collector is down and the   *)
(* run owns no lease, although status and leases are read one after the    *)
(* other while the run and its renewal thread go on.                       *)
THEOREM ConfirmedStopIsFinal == Spec => []StopConfirmed
  <1>1. LeaseInv /\ StopInv => StopConfirmed
    BY DEF LeaseInv, GrantsKept, StopInv, StopByPhase, StopConfirmed
  <1>2. QED
    BY <1>1, LeaseInvariant, StopInvariant, PTL

-----------------------------------------------------------------------------
(* The pipeline of one collector process.                                  *)

Kinds == {"none", "book", "gone", "rest", "gap", "health", "stale", "wsdown"}
Events == [kind : Kinds, conn : Nat, epoch : Nat, seq : Nat, item : Nat, fetch : Nat]
WriteOps == {"raw", "experimental", "quarantine", "payload", "checkpoint"}
Writes == [op : WriteOps, event : Events, recovery : BOOLEAN]
Checkpoints == [conn : Nat, epoch : Nat, seq : Nat, recovery : BOOLEAN, event : Events]

RowsTyped ==
    /\ mode \in Modes
    /\ raw \subseteq Events /\ experimental \subseteq Events /\ quarantine \subseteq Events
    /\ cp \in Checkpoints /\ restCp \in Nat

LineTyped ==
    /\ queue \in Seq(Events) /\ restOut \in Seq(Events) /\ wsOut \in Seq(Events)
    /\ \A i \in DOMAIN restOut : restOut[i].kind = "rest"
    /\ conn \in Nat /\ epoch \in Nat /\ head \in Nat /\ items \in Nat /\ fetched \in Nat
    /\ staleBase \in BOOLEAN

HandTyped ==
    /\ current \in Events /\ todo \in Seq(Writes) /\ faults \in Nat
    /\ consumer # "busy" => todo = <<>> /\ current = Blank
    /\ run = "down" => consumer = "idle"

PipeTyped == RowsTyped /\ LineTyped /\ HandTyped

(* The event e has a row; the write w gives it one.                        *)
HasRow(e) == Identity(e) \in Ids(raw \cup experimental)
GivesRow(w, e) == w.op \in {"raw", "experimental"} /\ w.event = e
LeavesTrace(w, e) == w.op \in {"raw", "experimental", "quarantine"} /\ w.event = e

(* The writes s concern e, and a checkpoint among them comes after a row.  *)
Ordered(s, e) ==
    \A i \in DOMAIN s :
        /\ s[i].event = e \/ (s[i].op = "raw" /\ s[i].event = Gap(e))
        /\ s[i].op = "checkpoint" =>
              HasRow(e) \/ \E j \in 1 .. (i - 1) : GivesRow(s[j], e)

(* It has left a trace already or the writes s will.                       *)
Traced(s, e) ==
    \/ HasRow(e) \/ Identity(e) \in quarantine
    \/ \E i \in DOMAIN s : LeavesTrace(s[i], e)

(* A purge spares the members' responses, so sources must be among them.   *)
SourcesOfMembers ==
    \A s \in snapshots : s.sources \subseteq {e.fetch : e \in s.members}

RefInv ==
    /\ PipeTyped
    /\ consumer = "busy" => Ordered(todo, current) /\ Traced(todo, current)
    /\ SourcesOfMembers
    /\ ReferencesHold

-----------------------------------------------------------------------------
LEMMA MaxOfTwo ==
    ASSUME NEW a \in Nat, NEW b \in Nat
    PROVE  /\ Max({a, b}) \in Nat /\ Max({a, b}) \in {a, b}
           /\ Max({a, b}) >= a /\ Max({a, b}) >= b
<1>1. \E x \in {a, b} : \A y \in {a, b} : x >= y
  OBVIOUS
<1>2. Max({a, b}) = CHOOSE x \in {a, b} : \A y \in {a, b} : x >= y
  BY DEF Max
<1> QED
  BY <1>1, <1>2

(* The events the process makes, and what identity forgets.                *)
LEMMA EventFacts ==
    /\ Blank \in Events /\ Blank.kind = "none"
    /\ \A k \in {"health", "stale", "wsdown"} : Control(k) \in Events /\ Control(k).kind = k
    /\ \A c \in Nat, e \in Nat : Gone(c, e) \in Events /\ Gone(c, e).kind = "gone"
          /\ Gone(c, e).conn = c /\ Gone(c, e).epoch = e
    /\ \A i \in Nat, f \in Nat : Item(i, f) \in Events /\ Item(i, f).kind = "rest"
    /\ \A e \in Events : Gap(e) \in Events /\ Gap(e).kind = "gap"
  BY DEF Blank, Control, Gone, Item, Gap, Events, Kinds

LEMMA BookFacts ==
    ASSUME NEW c \in Nat, NEW e \in Nat, NEW n \in Nat
    PROVE  /\ Book(c, e, n) \in Events /\ Book(c, e, n).kind = "book"
           /\ Book(c, e, n).conn = c /\ Book(c, e, n).epoch = e
           /\ Book(c, e, n).item = n /\ Book(c, e, n).fetch = 0
<1>1. Sequence(n) \in Nat
  BY DEF Sequence
<1> QED
  BY <1>1 DEF Book, Blank, Events, Kinds

LEMMA IdentityFacts ==
    ASSUME NEW e \in Events
    PROVE  /\ Identity(e) \in Events /\ Identity(e).kind = e.kind
           /\ Identity(e).conn = e.conn /\ Identity(e).epoch = e.epoch
           /\ Identity(e).item = e.item /\ Identity(e).seq = e.seq
           /\ Identity(e).fetch = 0
           /\ e.fetch = 0 => Identity(e) = e
  BY DEF Identity, Events

LEMMA WriteFacts ==
    ASSUME NEW e \in Events
    PROVE  /\ \A op \in WriteOps : /\ Write(op, e) \in Writes
                                   /\ Write(op, e).op = op /\ Write(op, e).event = e
           /\ \A r \in BOOLEAN : /\ Checkpoint(e, r) \in Writes
                                 /\ Checkpoint(e, r).op = "checkpoint"
                                 /\ Checkpoint(e, r).event = e
  BY DEF Write, Checkpoint, Writes, WriteOps

LEMMA TailFacts ==
    ASSUME NEW S, NEW s \in Seq(S), s # <<>>
    PROVE  /\ Head(s) \in S /\ Head(s) = s[1] /\ 1 \in DOMAIN s /\ Tail(s) \in Seq(S)
           /\ DOMAIN s = 1 .. Len(s) /\ Len(s) \in Nat
           /\ DOMAIN Tail(s) = 1 .. (Len(s) - 1)
           /\ \A i \in DOMAIN Tail(s) : i + 1 \in DOMAIN s /\ Tail(s)[i] = s[i + 1]
  OBVIOUS

LEMMA AppendFacts ==
    ASSUME NEW S, NEW s \in Seq(S), NEW x \in S
    PROVE  /\ Append(s, x) \in Seq(S) /\ DOMAIN s = 1 .. Len(s) /\ Len(s) \in Nat
           /\ DOMAIN Append(s, x) = 1 .. (Len(s) + 1)
           /\ \A i \in DOMAIN s : Append(s, x)[i] = s[i]
           /\ Append(s, x)[Len(s) + 1] = x
  OBVIOUS

LEMMA ConcatFacts ==
    ASSUME NEW S, NEW s \in Seq(S), NEW t \in Seq(S)
    PROVE  /\ s \o t \in Seq(S) /\ DOMAIN (s \o t) = 1 .. (Len(s) + Len(t))
           /\ Len(s) \in Nat /\ Len(t) \in Nat
           /\ DOMAIN s = 1 .. Len(s) /\ DOMAIN t = 1 .. Len(t)
           /\ \A i \in DOMAIN s : (s \o t)[i] = s[i]
           /\ \A i \in DOMAIN t : (s \o t)[Len(s) + i] = t[i]
  OBVIOUS

LEMMA PairConcat ==
    ASSUME NEW a, NEW b
    PROVE  <<a>> \o <<b>> = <<a, b>>
<1>1. PICK s : s = <<a>> \o <<b>>
  OBVIOUS
<1>2. <<a>> \in Seq({a, b}) /\ <<b>> \in Seq({a, b}) /\ Len(<<a>>) = 1 /\ Len(<<b>>) = 1
  OBVIOUS
<1>3. s \in Seq({a, b}) /\ Len(s) = 2 /\ s[1] = a /\ s[2] = b
  BY <1>1, <1>2
<1>4. s = [i \in 1 .. 2 |-> s[i]]
  BY <1>3
<1>5. <<a, b>> = [i \in 1 .. 2 |-> s[i]]
  BY <1>3
<1> QED
  BY <1>1, <1>4, <1>5

(* What follows the payload in a plan.                                     *)
Body(e, verified) ==
    IF OldEpoch(e) THEN <<Write("quarantine", e)>>
    ELSE IF ~verified /\ e.kind \in {"book", "rest"} THEN PersistExperimental(e)
    ELSE PersistProduction(e)

(* The nine lists of transactions an envelope can lead to.                 *)
LEMMA ExperimentalForms ==
    ASSUME RowsTyped, NEW e \in Events
    PROVE  \/ \E r \in BOOLEAN :
                PersistExperimental(e) = <<Write("experimental", e), Checkpoint(e, r)>>
           \/ \E r \in BOOLEAN :
                PersistExperimental(e) = <<Checkpoint(e, r)>> /\ HasRow(e)
<1> DEFINE known == {r \in experimental : Identity(r) = Identity(e)}
           required == SequenceGap(e) \/ (e.kind = "book" /\ (~Synchronized \/ (cp.recovery /\ ~RecoveryCompleted)))
<1>1. ~\E r \in known : Content(r) # Content(e)
  BY DEF Content, Identity
<1>2. PersistExperimental(e) =
        (IF known = {} THEN <<Write("experimental", e)>> ELSE <<>>) \o <<Checkpoint(e, required)>>
  BY <1>1 DEF PersistExperimental
<1>3. PICK r \in BOOLEAN : r = required
  OBVIOUS
<1>4. CASE known = {}
  <2>1. PersistExperimental(e) = <<Write("experimental", e)>> \o <<Checkpoint(e, r)>>
    BY <1>2, <1>3, <1>4
  <2>2. <<Write("experimental", e)>> \o <<Checkpoint(e, r)>>
          = <<Write("experimental", e), Checkpoint(e, r)>>
    BY PairConcat
  <2> QED
    BY <2>1, <2>2
<1>5. CASE known # {}
  <2>1. PersistExperimental(e) = <<>> \o <<Checkpoint(e, r)>>
    BY <1>2, <1>3, <1>5
  <2>2. <<>> \o <<Checkpoint(e, r)>> = <<Checkpoint(e, r)>>
    OBVIOUS
  <2>3. HasRow(e)
    BY <1>5 DEF HasRow, Ids
  <2> QED
    BY <2>1, <2>2, <2>3
<1> QED
  BY <1>4, <1>5

LEMMA BookForms ==
    ASSUME RowsTyped, NEW e \in Events
    PROVE  \/ PersistBook(e) = PersistGap(e)
           \/ PersistBook(e) = <<Write("raw", e), Write("quarantine", e), Checkpoint(e, TRUE)>>
           \/ PersistBook(e) = <<Write("raw", e), Checkpoint(e, FALSE)>> /\ Synchronized
                /\ (cp.recovery \/ ~SequenceGap(e))
<1>1. cp.recovery \in BOOLEAN
  BY DEF RowsTyped, Checkpoints
<1>2. CASE ~(cp.recovery /\ Synchronized) /\ SequenceGap(e)
  <2>1. ~(cp.recovery /\ RecoveryCompleted) /\ SequenceGap(e)
    BY <1>2 DEF RecoveryCompleted
  <2>2. PersistBook(e) = PersistGap(e)
    BY <2>1 DEF PersistBook
  <2> QED
    BY <2>2
<1>3. CASE ~(~(cp.recovery /\ Synchronized) /\ SequenceGap(e))
  <2>1. CASE (cp.recovery /\ ~(cp.recovery /\ Synchronized)) \/ ~Synchronized
    BY <1>3, <2>1 DEF PersistBook, RecoveryCompleted
  <2>2. CASE ~((cp.recovery /\ ~(cp.recovery /\ Synchronized)) \/ ~Synchronized)
    <3>1. PersistBook(e) = <<Write("raw", e), Checkpoint(e, FALSE)>>
      BY <1>3, <2>2 DEF PersistBook, RecoveryCompleted
    <3> QED
      BY <1>1, <1>3, <2>2, <3>1
  <2> QED
    BY <2>1, <2>2
<1> QED
  BY <1>2, <1>3

LEMMA ProductionForms ==
    ASSUME RowsTyped, NEW e \in Events
    PROVE  \/ /\ Stored(raw, e) /\ PersistProduction(e) = <<>>
           \/ /\ Stored(raw, e) /\ PersistProduction(e) = <<Write("quarantine", e)>>
              /\ \E r \in raw : Identity(r) = Identity(e) /\ r # e
           \/ ~Stored(raw, e) /\ PersistProduction(e) = <<Write("raw", e), Write("quarantine", e)>>
           \/ ~Stored(raw, e) /\ ~InvalidReason(e) /\ e.kind = "book"
                /\ PersistProduction(e) = PersistBook(e)
           \/ \E r \in BOOLEAN : ~Stored(raw, e) /\ ~InvalidReason(e) /\ e.kind \in {"gone", "rest"}
                /\ PersistProduction(e) = <<Write("raw", e), Checkpoint(e, r)>>
           \/ ~Stored(raw, e) /\ ~InvalidReason(e) /\ e.kind # "book"
                /\ PersistProduction(e) = <<Write("raw", e)>>
<1>1. CASE Stored(raw, e)
  BY <1>1 DEF PersistProduction, PayloadHash
<1>2. CASE ~Stored(raw, e) /\ InvalidReason(e)
  BY <1>2 DEF PersistProduction
<1>3. CASE ~Stored(raw, e) /\ ~InvalidReason(e) /\ e.kind = "book"
  BY <1>3 DEF PersistProduction
<1>4. CASE ~Stored(raw, e) /\ ~InvalidReason(e) /\ e.kind = "gone"
  BY <1>4 DEF PersistProduction
<1>5. CASE ~Stored(raw, e) /\ ~InvalidReason(e) /\ e.kind = "rest"
  BY <1>5 DEF PersistProduction
<1>6. CASE ~Stored(raw, e) /\ ~InvalidReason(e) /\ e.kind \notin {"book", "gone", "rest"}
  BY <1>6 DEF PersistProduction
<1> QED
  BY <1>1, <1>2, <1>3, <1>4, <1>5, <1>6

(* Which of them, and when.                                                *)
LEMMA BodyForms ==
    ASSUME RowsTyped, NEW e \in Events, NEW v \in BOOLEAN
    PROVE  \/ Body(e, v) = <<>> /\ Stored(raw, e)
           \/ Body(e, v) = <<Write("quarantine", e)>>
                /\ (OldEpoch(e) \/ \E r \in raw : Identity(r) = Identity(e) /\ r # e)
           \/ Body(e, v) = <<Write("raw", e), Write("quarantine", e)>>
           \/ Body(e, v) = PersistGap(e) /\ e.kind = "book"
           \/ Body(e, v) = <<Write("raw", e), Write("quarantine", e), Checkpoint(e, TRUE)>>
                /\ e.kind = "book"
           \/ \E r \in BOOLEAN : Body(e, v) = <<Write("raw", e), Checkpoint(e, r)>>
                /\ ~Stored(raw, e) /\ ~Unfit(e) /\ e.kind \in {"book", "gone", "rest"}
           \/ Body(e, v) = <<Write("raw", e)>> /\ ~Stored(raw, e) /\ ~Unfit(e)
           \/ \E r \in BOOLEAN : Body(e, v) = <<Write("experimental", e), Checkpoint(e, r)>>
                /\ e.kind \in {"book", "rest"}
           \/ \E r \in BOOLEAN : Body(e, v) = <<Checkpoint(e, r)>> /\ HasRow(e)
                /\ e.kind \in {"book", "rest"}
<1>1. CASE OldEpoch(e)
  BY <1>1 DEF Body
<1>2. CASE ~OldEpoch(e) /\ ~v /\ e.kind \in {"book", "rest"}
  BY <1>2, ExperimentalForms DEF Body
<1>3. CASE ~OldEpoch(e) /\ ~(~v /\ e.kind \in {"book", "rest"})
  <2>1. Body(e, v) = PersistProduction(e)
    BY <1>3 DEF Body
  <2>2. CASE ~Stored(raw, e) /\ ~InvalidReason(e) /\ e.kind = "book"
               /\ PersistProduction(e) = PersistBook(e)
    <3>1. Synchronized /\ (cp.recovery \/ ~SequenceGap(e)) => ~Unfit(e)
      BY <2>2 DEF Unfit
    <3> QED
      BY <2>1, <2>2, <3>1, BookForms
  <2>3. ~InvalidReason(e) /\ e.kind # "book" => ~Unfit(e)
    BY DEF Unfit
  <2> QED
    BY <2>1, <2>2, <2>3, ProductionForms
<1> QED
  BY <1>1, <1>2, <1>3

(* Writes that start with a row of the event are in order whatever follows.*)
LEMMA RowFirst ==
    ASSUME NEW e \in Events, NEW s \in Seq(Writes), s # <<>>, GivesRow(s[1], e),
           \A i \in DOMAIN s : s[i].event = e \/ (s[i].op = "raw" /\ s[i].event = Gap(e))
    PROVE  Ordered(s, e) /\ Traced(s, e)
<1>1. 1 \in DOMAIN s /\ DOMAIN s = 1 .. Len(s) /\ Len(s) \in Nat
  OBVIOUS
<1>2. LeavesTrace(s[1], e) /\ s[1].op # "checkpoint"
  BY DEF GivesRow, LeavesTrace
<1>3. ASSUME NEW i \in DOMAIN s, s[i].op = "checkpoint"
      PROVE  \E j \in 1 .. (i - 1) : GivesRow(s[j], e)
  <2>1. i # 1 /\ i \in 1 .. Len(s)
    BY <1>1, <1>2, <1>3
  <2>2. 1 \in 1 .. (i - 1)
    BY <1>1, <2>1
  <2> QED
    BY <2>2
<1> QED
  BY <1>1, <1>2, <1>3 DEF Ordered, Traced

LEMMA BodySound ==
    ASSUME RowsTyped, NEW e \in Events, NEW v \in BOOLEAN
    PROVE  Body(e, v) \in Seq(Writes) /\ Ordered(Body(e, v), e) /\ Traced(Body(e, v), e)
<1>1. PICK q \in Writes, a \in Writes, x \in Writes :
        /\ q = Write("quarantine", e) /\ a = Write("raw", e) /\ x = Write("experimental", e)
        /\ q.op = "quarantine" /\ a.op = "raw" /\ x.op = "experimental"
        /\ q.event = e /\ a.event = e /\ x.event = e
  BY WriteFacts DEF WriteOps
<1>2. PICK g \in Writes : g = Write("raw", Gap(e)) /\ g.op = "raw" /\ g.event = Gap(e)
  BY WriteFacts, EventFacts DEF WriteOps
<1>3. ASSUME NEW r \in BOOLEAN
      PROVE  \E c \in Writes : c = Checkpoint(e, r) /\ c.op = "checkpoint" /\ c.event = e
  BY WriteFacts
<1>4. GivesRow(a, e) /\ GivesRow(x, e) /\ LeavesTrace(q, e)
  BY <1>1 DEF GivesRow, LeavesTrace
<1>5. PICK s : s = Body(e, v)
  OBVIOUS
<1> SUFFICES s \in Seq(Writes) /\ Ordered(s, e) /\ Traced(s, e)
  BY <1>5
<1>a. CASE s = <<>> /\ Stored(raw, e)
  <2>1. HasRow(e)
    BY <1>a DEF HasRow, Stored, Ids
  <2> QED
    BY <1>a, <2>1 DEF Ordered, Traced
<1>b. CASE s = <<q>>
  <2>1. s \in Seq(Writes) /\ DOMAIN s = {1} /\ s[1] = q
    BY <1>b
  <2> QED
    BY <1>1, <1>4, <2>1 DEF Ordered, Traced
<1>c. CASE s = <<a, q>>
  <2>1. s \in Seq(Writes) /\ DOMAIN s = 1 .. 2 /\ s[1] = a /\ s[2] = q /\ s # <<>>
    BY <1>c
  <2> QED
    BY <1>1, <1>4, <2>1, RowFirst
<1>d. CASE \E r \in BOOLEAN : s = <<a, q, g, Checkpoint(e, r)>>
  <2>0. PICK r \in BOOLEAN : s = <<a, q, g, Checkpoint(e, r)>>
    BY <1>d
  <2>1. PICK c \in Writes : c = Checkpoint(e, r) /\ c.event = e
    BY <1>3
  <2>2. s \in Seq(Writes) /\ DOMAIN s = 1 .. 4 /\ s[1] = a /\ s[2] = q /\ s[3] = g /\ s[4] = c /\ s # <<>>
    BY <2>0, <2>1
  <2> QED
    BY <1>1, <1>2, <1>4, <2>1, <2>2, RowFirst
<1>e. CASE \E r \in BOOLEAN : s = <<a, q, Checkpoint(e, r)>>
  <2>0. PICK r \in BOOLEAN : s = <<a, q, Checkpoint(e, r)>>
    BY <1>e
  <2>1. PICK c \in Writes : c = Checkpoint(e, r) /\ c.event = e
    BY <1>3
  <2>2. s \in Seq(Writes) /\ DOMAIN s = 1 .. 3 /\ s[1] = a /\ s[2] = q /\ s[3] = c /\ s # <<>>
    BY <2>0, <2>1
  <2> QED
    BY <1>1, <1>4, <2>1, <2>2, RowFirst
<1>f. CASE \E r \in BOOLEAN : s = <<a, Checkpoint(e, r)>>
  <2>0. PICK r \in BOOLEAN : s = <<a, Checkpoint(e, r)>>
    BY <1>f
  <2>1. PICK c \in Writes : c = Checkpoint(e, r) /\ c.event = e
    BY <1>3
  <2>2. s \in Seq(Writes) /\ DOMAIN s = 1 .. 2 /\ s[1] = a /\ s[2] = c /\ s # <<>>
    BY <2>0, <2>1
  <2> QED
    BY <1>1, <1>4, <2>1, <2>2, RowFirst
<1>g. CASE s = <<a>>
  <2>1. s \in Seq(Writes) /\ DOMAIN s = {1} /\ s[1] = a /\ s # <<>>
    BY <1>g
  <2> QED
    BY <1>1, <1>4, <2>1, RowFirst
<1>h. CASE \E r \in BOOLEAN : s = <<x, Checkpoint(e, r)>>
  <2>0. PICK r \in BOOLEAN : s = <<x, Checkpoint(e, r)>>
    BY <1>h
  <2>1. PICK c \in Writes : c = Checkpoint(e, r) /\ c.event = e
    BY <1>3
  <2>2. s \in Seq(Writes) /\ DOMAIN s = 1 .. 2 /\ s[1] = x /\ s[2] = c /\ s # <<>>
    BY <2>0, <2>1
  <2> QED
    BY <1>1, <1>4, <2>1, <2>2, RowFirst
<1>i. CASE \E r \in BOOLEAN : s = <<Checkpoint(e, r)>> /\ HasRow(e)
  <2>1. PICK c \in Writes : s = <<c>> /\ c.event = e
    BY <1>i, <1>3
  <2>2. s \in Seq(Writes) /\ DOMAIN s = {1} /\ s[1] = c
    BY <2>1
  <2> QED
    BY <1>i, <2>1, <2>2 DEF Ordered, Traced
<1>j. PersistGap(e) = <<a, q, g, Checkpoint(e, TRUE)>>
  BY <1>1, <1>2 DEF PersistGap
<1> QED
  BY <1>1, <1>5, <1>a, <1>b, <1>c, <1>d, <1>e, <1>f, <1>g, <1>h, <1>i, <1>j, BodyForms

(* The payload goes first and stands in nobody's way.                      *)
LEMMA PlanShape ==
    ASSUME NEW e \in Events, NEW v \in BOOLEAN
    PROVE  \/ Plan(e, v) = <<Write("payload", e)>> \o Body(e, v) /\ e.kind = "rest"
           \/ Plan(e, v) = <<>> \o Body(e, v) /\ e.kind # "rest"
  BY DEF Plan, Body

LEMMA PlanSound ==
    ASSUME RowsTyped, NEW e \in Events, NEW v \in BOOLEAN
    PROVE  Plan(e, v) \in Seq(Writes) /\ Ordered(Plan(e, v), e) /\ Traced(Plan(e, v), e)
<1>1. PICK s \in Seq(Writes) : s = Body(e, v) /\ Ordered(s, e) /\ Traced(s, e)
  BY BodySound
<1>2. PICK p \in Writes : p = Write("payload", e) /\ p.op = "payload" /\ p.event = e
  BY WriteFacts DEF WriteOps
<1>3. CASE Plan(e, v) = <<>> \o Body(e, v)
  <2>1. <<>> \o s = s
    OBVIOUS
  <2> QED
    BY <1>1, <1>3, <2>1
<1>4. CASE Plan(e, v) = <<Write("payload", e)>> \o Body(e, v)
  <2>1. PICK t : t = <<p>> \o s
    OBVIOUS
  <2>2. <<p>> \in Seq(Writes) /\ Len(<<p>>) = 1 /\ <<p>>[1] = p
    OBVIOUS
  <2>3. /\ t \in Seq(Writes) /\ DOMAIN t = 1 .. (Len(s) + 1) /\ Len(s) \in Nat
        /\ DOMAIN s = 1 .. Len(s) /\ t[1] = p
        /\ \A i \in DOMAIN s : t[1 + i] = s[i]
    BY <2>1, <2>2, ConcatFacts
  <2>4. \A i \in DOMAIN t : i = 1 \/ (i - 1 \in DOMAIN s /\ t[i] = s[i - 1])
    <3> SUFFICES ASSUME NEW i \in DOMAIN t, i # 1
                 PROVE  i - 1 \in DOMAIN s /\ t[i] = s[i - 1]
      OBVIOUS
    <3>1. i - 1 \in DOMAIN s /\ 1 + (i - 1) = i
      BY <2>3
    <3> QED
      BY <2>3, <3>1
  <2>5. Ordered(t, e)
    <3> SUFFICES ASSUME NEW i \in DOMAIN t
                 PROVE  /\ t[i].event = e \/ (t[i].op = "raw" /\ t[i].event = Gap(e))
                        /\ t[i].op = "checkpoint" =>
                              HasRow(e) \/ \E j \in 1 .. (i - 1) : GivesRow(t[j], e)
      BY DEF Ordered
    <3>1. CASE i = 1
      BY <1>2, <2>3, <3>1
    <3>2. CASE i # 1
      <4>1. i - 1 \in DOMAIN s /\ t[i] = s[i - 1]
        BY <2>4, <3>2
      <4>2. /\ s[i - 1].event = e \/ (s[i - 1].op = "raw" /\ s[i - 1].event = Gap(e))
            /\ s[i - 1].op = "checkpoint" =>
                  HasRow(e) \/ \E j \in 1 .. ((i - 1) - 1) : GivesRow(s[j], e)
        BY <1>1, <4>1 DEF Ordered
      <4>3. ASSUME NEW j \in 1 .. ((i - 1) - 1), GivesRow(s[j], e)
            PROVE  \E k \in 1 .. (i - 1) : GivesRow(t[k], e)
        <5>1. j \in DOMAIN s /\ 1 + j \in 1 .. (i - 1)
          BY <2>3, <4>1, <4>3
        <5>2. t[1 + j] = s[j]
          BY <2>3, <5>1
        <5> QED
          BY <4>3, <5>1, <5>2
      <4> QED
        BY <4>1, <4>2, <4>3
    <3> QED
      BY <3>1, <3>2
  <2>6. Traced(t, e)
    <3>1. ASSUME NEW i \in DOMAIN s, LeavesTrace(s[i], e)
          PROVE  \E k \in DOMAIN t : LeavesTrace(t[k], e)
      <4>1. 1 + i \in DOMAIN t /\ t[1 + i] = s[i]
        BY <2>3
      <4> QED
        BY <3>1, <4>1
    <3> QED
      BY <1>1, <3>1 DEF Traced
  <2> QED
    BY <1>1, <1>2, <1>4, <2>1, <2>3, <2>5, <2>6
<1> QED
  BY <1>3, <1>4, PlanShape

-----------------------------------------------------------------------------
(* One transaction: rows and quarantine only grow, and the write has its   *)
(* effect.                                                                 *)
LEMMA ApplyCases ==
    ASSUME NEW w \in Writes, Apply(w)
    PROVE  /\ w.op = "raw" => AddRawEvent(w.event)
                 /\ UNCHANGED <<experimental, quarantine, payloads, cp, restCp>>
           /\ w.op = "experimental" => AddExperimentalEvent(w.event)
                 /\ UNCHANGED <<raw, quarantine, payloads, cp, restCp>>
           /\ w.op = "quarantine" => Quarantine(w.event)
                 /\ UNCHANGED <<raw, experimental, payloads, cp, restCp>>
           /\ w.op = "payload" => SaveRawPayload(w.event)
                 /\ UNCHANGED <<raw, experimental, quarantine, cp, restCp>>
           /\ w.op = "checkpoint" => SaveCheckpoint(w)
                 /\ UNCHANGED <<raw, experimental, quarantine, payloads>>
           /\ w.op \in WriteOps /\ w.event \in Events /\ w.recovery \in BOOLEAN
<1>1. w.op \in WriteOps /\ w.event \in Events /\ w.recovery \in BOOLEAN
  BY DEF Writes
<1>2. CASE w.op = "raw"
  BY <1>1, <1>2 DEF Apply
<1>3. CASE w.op = "experimental"
  BY <1>1, <1>3 DEF Apply
<1>4. CASE w.op = "quarantine"
  BY <1>1, <1>4 DEF Apply
<1>5. CASE w.op = "payload"
  BY <1>1, <1>5 DEF Apply
<1>6. CASE w.op = "checkpoint"
  BY <1>1, <1>6 DEF Apply
<1> QED
  BY <1>1, <1>2, <1>3, <1>4, <1>5, <1>6 DEF WriteOps

LEMMA ApplyGrows ==
    ASSUME NEW w \in Writes, Apply(w), RowsTyped
    PROVE  /\ raw \subseteq raw' /\ experimental \subseteq experimental'
           /\ quarantine \subseteq quarantine' /\ payloads \subseteq payloads'
           /\ raw' \subseteq Events /\ experimental' \subseteq Events /\ quarantine' \subseteq Events
           /\ raw' \subseteq raw \cup {w.event}
           /\ w.op # "raw" => raw' = raw
           /\ w.op = "raw" => Stored(raw, w.event)'
           /\ w.op = "experimental" => w.event \in experimental'
           /\ quarantine' \subseteq quarantine \cup {Identity(w.event)}
           /\ w.op # "quarantine" => quarantine' = quarantine
           /\ w.op = "quarantine" => Identity(w.event) \in quarantine'
           /\ w.op # "checkpoint" => cp' = cp /\ restCp' = restCp
<1>1. /\ w.op \in WriteOps /\ w.event \in Events
      /\ raw \subseteq Events /\ experimental \subseteq Events /\ quarantine \subseteq Events
      /\ Identity(w.event) \in Events
  BY IdentityFacts DEF Writes, RowsTyped
<1>2. CASE w.op = "raw"
  <2>1. AddRawEvent(w.event) /\ UNCHANGED <<experimental, quarantine, payloads, cp, restCp>>
    BY <1>2, ApplyCases
  <2> QED
    BY <1>1, <1>2, <2>1 DEF AddRawEvent, Stored
<1>3. CASE w.op = "experimental"
  <2>1. AddExperimentalEvent(w.event) /\ UNCHANGED <<raw, quarantine, payloads, cp, restCp>>
    BY <1>3, ApplyCases
  <2> QED
    BY <1>1, <1>3, <2>1 DEF AddExperimentalEvent
<1>4. CASE w.op = "quarantine"
  <2>1. Quarantine(w.event) /\ UNCHANGED <<raw, experimental, payloads, cp, restCp>>
    BY <1>4, ApplyCases
  <2> QED
    BY <1>1, <1>4, <2>1 DEF Quarantine
<1>5. CASE w.op = "payload"
  <2>1. SaveRawPayload(w.event) /\ UNCHANGED <<raw, experimental, quarantine, cp, restCp>>
    BY <1>5, ApplyCases
  <2> QED
    BY <1>1, <1>5, <2>1 DEF SaveRawPayload
<1>6. CASE w.op = "checkpoint"
  <2>1. UNCHANGED <<raw, experimental, quarantine, payloads>>
    BY <1>6, ApplyCases
  <2> QED
    BY <1>1, <1>6, <2>1
<1> QED
  BY <1>1, <1>2, <1>3, <1>4, <1>5, <1>6 DEF WriteOps

LEMMA ApplyRows ==
    ASSUME NEW w \in Writes, Apply(w), RowsTyped, NEW e \in Events
    PROVE  /\ HasRow(e) => HasRow(e)'
           /\ GivesRow(w, e) => HasRow(e)'
<1>1. /\ raw \subseteq raw' /\ experimental \subseteq experimental'
      /\ w.op = "raw" => Stored(raw, w.event)'
      /\ w.op = "experimental" => w.event \in experimental'
  BY ApplyGrows
<1>2. HasRow(e) => HasRow(e)'
  BY <1>1 DEF HasRow, Ids
<1>3. ASSUME GivesRow(w, e)
      PROVE  HasRow(e)'
  <2>1. CASE w.op = "raw"
    BY <1>1, <1>3, <2>1 DEF GivesRow, HasRow, Ids, Stored
  <2>2. CASE w.op = "experimental"
    BY <1>1, <1>3, <2>2 DEF GivesRow, HasRow, Ids
  <2> QED
    BY <1>3, <2>1, <2>2 DEF GivesRow
<1> QED
  BY <1>2, <1>3

LEMMA CheckpointSaved ==
    ASSUME NEW w \in Writes, Apply(w), RowsTyped, w.op = "checkpoint"
    PROVE  /\ cp' \in Checkpoints /\ restCp' \in Nat
           /\ w.event.kind = "rest" => cp' = cp /\ restCp' \in {w.event.item, restCp}
           /\ w.event.kind # "rest" =>
                /\ restCp' = restCp
                /\ cp'.event = Identity(w.event) /\ cp'.conn = w.event.conn
                /\ cp'.epoch >= w.event.epoch /\ cp'.epoch >= cp.epoch
                /\ cp'.epoch \in {w.event.epoch, cp.epoch}
<1>1. /\ w.event \in Events /\ w.recovery \in BOOLEAN /\ cp \in Checkpoints /\ restCp \in Nat
      /\ SaveCheckpoint(w) /\ Identity(w.event) \in Events
  BY IdentityFacts, ApplyCases DEF Writes, RowsTyped
<1>2. PICK c \in Nat, n \in Nat, s \in Nat, i \in Nat :
         c = w.event.conn /\ n = w.event.epoch /\ s = w.event.seq /\ i = w.event.item
  BY <1>1 DEF Events
<1>3. PICK n0 \in Nat, s0 \in Nat : n0 = cp.epoch /\ s0 = cp.seq
  BY <1>1 DEF Checkpoints
<1>4. CASE w.event.kind = "rest"
  <2>1. restCp' = Max({i, restCp}) /\ cp' = cp
    BY <1>1, <1>2, <1>4 DEF SaveCheckpoint
  <2> QED
    BY <1>1, <1>2, <1>4, <2>1, MaxOfTwo
<1>5. CASE w.event.kind # "rest"
  <2>1. cp' = NewCheckpoint(w.event, w.recovery) /\ restCp' = restCp
    BY <1>1, <1>5 DEF SaveCheckpoint
  <2>2. PICK m \in Nat : m = Max({n, n0}) /\ m \in {n, n0} /\ m >= n /\ m >= n0
    BY MaxOfTwo
  <2>3. PICK t \in Nat : t = IF s # 0 THEN s ELSE s0
    OBVIOUS
  <2>4. cp' = [conn |-> c, epoch |-> m, seq |-> t, recovery |-> w.recovery, event |-> Identity(w.event)]
    BY <2>1, <2>2, <2>3, <1>2, <1>3 DEF NewCheckpoint
  <2>5. cp' \in Checkpoints
    BY <2>4, <1>1 DEF Checkpoints
  <2>6. cp'.event = Identity(w.event) /\ cp'.conn = c /\ cp'.epoch = m
    BY <2>4
  <2> QED
    BY <1>1, <1>2, <1>3, <1>5, <2>1, <2>2, <2>5, <2>6
<1> QED
  BY <1>4, <1>5

LEMMA PersistKeeps ==
    ASSUME RefInv, Persist
    PROVE  RefInv'
<1>1. /\ RowsTyped /\ LineTyped /\ HandTyped /\ ReferencesHold /\ SourcesOfMembers
      /\ consumer = "busy" /\ todo # <<>> /\ Apply(Head(todo)) /\ todo' = Tail(todo)
      /\ UNCHANGED <<mode, snapshots, consumer, current, run, faults>>
      /\ Ordered(todo, current) /\ Traced(todo, current)
  BY DEF RefInv, PipeTyped, Persist
<1>2. UNCHANGED <<queue, restOut, wsOut, conn, epoch, head, items, fetched, staleBase>>
  BY DEF Persist, queueing, workers, venue
<1>3. PICK s \in Seq(Writes) : s = todo /\ s # <<>>
  BY <1>1 DEF HandTyped
<1>4. PICK e \in Events : e = current
  BY <1>1 DEF HandTyped
<1>5. PICK w \in Writes : w = Head(s) /\ w = s[1]
  BY <1>3, TailFacts
<1>6a. /\ Tail(s) \in Seq(Writes) /\ DOMAIN s = 1 .. Len(s) /\ Len(s) \in Nat /\ 1 \in DOMAIN s
       /\ DOMAIN Tail(s) = 1 .. (Len(s) - 1)
       /\ \A i \in DOMAIN Tail(s) : i + 1 \in DOMAIN s /\ Tail(s)[i] = s[i + 1]
  BY <1>3, TailFacts
<1>6b. PICK t : t = Tail(s)
  OBVIOUS
<1>6. /\ t \in Seq(Writes) /\ t = Tail(s) /\ DOMAIN s = 1 .. Len(s) /\ Len(s) \in Nat /\ 1 \in DOMAIN s
      /\ DOMAIN t = 1 .. (Len(s) - 1)
      /\ \A i \in DOMAIN t : i + 1 \in DOMAIN s /\ t[i] = s[i + 1]
  BY <1>6a, <1>6b
<1>7. Apply(w) /\ todo' = t /\ Ordered(s, e) /\ Traced(s, e) /\ current' = e
  BY <1>1, <1>3, <1>4, <1>5, <1>6
<1>8. /\ raw \subseteq raw' /\ experimental \subseteq experimental' /\ quarantine \subseteq quarantine'
      /\ payloads \subseteq payloads'
      /\ w.op # "checkpoint" => cp' = cp /\ restCp' = restCp
      /\ w.op = "quarantine" => Identity(w.event) \in quarantine'
  BY <1>1, <1>7, ApplyGrows
<1>9. RowsTyped'
  <2>1. cp' \in Checkpoints /\ restCp' \in Nat
    BY <1>1, <1>7, <1>8, CheckpointSaved DEF RowsTyped
  <2>2. mode' \in Modes
    BY <1>1 DEF RowsTyped
  <2>3. raw' \subseteq Events /\ experimental' \subseteq Events /\ quarantine' \subseteq Events
    BY <1>1, <1>7, ApplyGrows
  <2> QED
    BY <2>1, <2>2, <2>3 DEF RowsTyped
<1>10. LineTyped'
  BY <1>1, <1>2 DEF LineTyped
<1>11. HandTyped'
  BY <1>1, <1>4, <1>7 DEF HandTyped
<1>12. /\ HasRow(e) => HasRow(e)'
       /\ GivesRow(w, e) => HasRow(e)'
  BY <1>1, <1>7, ApplyRows
<1>13. Ordered(t, e)'
  <2> SUFFICES ASSUME NEW i \in DOMAIN t
               PROVE  /\ t[i].event = e \/ (t[i].op = "raw" /\ t[i].event = Gap(e))
                      /\ t[i].op = "checkpoint" =>
                            HasRow(e)' \/ \E j \in 1 .. (i - 1) : GivesRow(t[j], e)
    BY DEF Ordered, GivesRow, Gap
  <2>1. i + 1 \in DOMAIN s /\ t[i] = s[i + 1] /\ i \in Nat
    BY <1>6
  <2>2. /\ s[i + 1].event = e \/ (s[i + 1].op = "raw" /\ s[i + 1].event = Gap(e))
        /\ s[i + 1].op = "checkpoint" =>
              HasRow(e) \/ \E j \in 1 .. ((i + 1) - 1) : GivesRow(s[j], e)
    BY <1>7, <2>1 DEF Ordered
  <2>3. ASSUME NEW j \in 1 .. ((i + 1) - 1), GivesRow(s[j], e)
        PROVE  HasRow(e)' \/ \E k \in 1 .. (i - 1) : GivesRow(t[k], e)
    <3>1. CASE j = 1
      BY <1>5, <1>12, <2>3, <3>1
    <3>2. CASE j # 1
      <4>1. j - 1 \in 1 .. (i - 1) /\ j - 1 \in DOMAIN t /\ (j - 1) + 1 = j
        BY <1>6, <2>1, <3>2
      <4>2. t[j - 1] = s[j]
        BY <1>6, <4>1
      <4> QED
        BY <2>3, <4>1, <4>2
    <3> QED
      BY <3>1, <3>2
  <2> QED
    BY <1>12, <2>1, <2>2, <2>3
<1>14. Traced(t, e)'
  <2>1. ASSUME NEW i \in DOMAIN s, LeavesTrace(s[i], e)
        PROVE  \/ HasRow(e)' \/ Identity(e) \in quarantine'
               \/ \E k \in DOMAIN t : LeavesTrace(t[k], e)
    <3>1. CASE i = 1
      <4>1. LeavesTrace(w, e)
        BY <1>5, <2>1, <3>1
      <4> QED
        BY <1>8, <1>12, <4>1 DEF LeavesTrace, GivesRow
    <3>2. CASE i # 1
      <4>1. i - 1 \in DOMAIN t /\ (i - 1) + 1 = i
        BY <1>6, <3>2
      <4>2. t[i - 1] = s[i]
        BY <1>6, <4>1
      <4> QED
        BY <2>1, <4>1, <4>2
    <3> QED
      BY <3>1, <3>2
  <2>2. \/ HasRow(e)' \/ Identity(e) \in quarantine'
        \/ \E k \in DOMAIN t : LeavesTrace(t[k], e)
    BY <1>7, <1>8, <1>12, <2>1 DEF Traced
  <2> QED
    BY <2>2 DEF Traced, LeavesTrace, Identity
<1>15. (consumer = "busy" => Ordered(todo, current) /\ Traced(todo, current))'
  BY <1>7, <1>13, <1>14
<1>16. SourcesOfMembers'
  BY <1>1 DEF SourcesOfMembers
<1>17. ReferencesHold'
  <2>1. (\A x \in snapshots : x.sources \subseteq payloads)'
    BY <1>1, <1>8 DEF ReferencesHold
  <2>2. CASE w.op # "checkpoint"
    <3>1. cp' = cp /\ restCp' = restCp
      BY <1>8, <2>2
    <3>2. (cp.event # Blank => cp.event \in Ids(raw \cup experimental))'
      BY <1>1, <1>8, <3>1 DEF ReferencesHold, Ids, Blank, Identity
    <3>3. (restCp # 0 => \E x \in raw \cup experimental : x.kind = "rest" /\ x.item = restCp)'
      BY <1>1, <1>8, <3>1 DEF ReferencesHold
    <3> QED
      BY <2>1, <3>2, <3>3 DEF ReferencesHold
  <2>3. CASE w.op = "checkpoint"
    <3>1. w.event = e /\ HasRow(e)
      <4>1. /\ s[1].event = e \/ (s[1].op = "raw" /\ s[1].event = Gap(e))
            /\ s[1].op = "checkpoint" => HasRow(e) \/ \E j \in 1 .. (1 - 1) : GivesRow(s[j], e)
        BY <1>6, <1>7 DEF Ordered
      <4> QED
        BY <1>5, <2>3, <4>1
    <3>2. /\ w.event.kind = "rest" => cp' = cp /\ restCp' \in {w.event.item, restCp}
          /\ w.event.kind # "rest" => restCp' = restCp /\ cp'.event = Identity(w.event)
      BY <1>1, <1>7, <2>3, CheckpointSaved
    <3>3. PICK r \in Events : r \in raw' \cup experimental' /\ Identity(r) = Identity(e)
      <4>1. raw' \subseteq Events /\ experimental' \subseteq Events
        BY <1>9 DEF RowsTyped
      <4>2. HasRow(e)'
        BY <1>12, <3>1
      <4> QED
        BY <4>1, <4>2 DEF HasRow, Ids
    <3>4. r.kind = e.kind /\ r.item = e.item
      BY <3>3, IdentityFacts
    <3>5. (cp.event # Blank => cp.event \in Ids(raw \cup experimental))'
      <4>1. CASE e.kind = "rest"
        BY <1>1, <1>8, <3>1, <3>2, <4>1 DEF ReferencesHold, Ids, Blank, Identity
      <4>2. CASE e.kind # "rest"
        BY <3>1, <3>2, <3>3, <4>2 DEF Ids
      <4> QED
        BY <4>1, <4>2
    <3>6. (restCp # 0 => \E x \in raw \cup experimental : x.kind = "rest" /\ x.item = restCp)'
      <4>1. CASE restCp' = restCp
        BY <1>1, <1>8, <4>1 DEF ReferencesHold
      <4>2. CASE restCp' # restCp
        <5>1. e.kind = "rest" /\ restCp' = e.item
          BY <3>1, <3>2, <4>2
        <5> QED
          BY <3>3, <3>4, <5>1
      <4> QED
        BY <4>1, <4>2
    <3> QED
      BY <2>1, <3>5, <3>6 DEF ReferencesHold
  <2> QED
    BY <2>2, <2>3
<1> QED
  BY <1>9, <1>10, <1>11, <1>15, <1>16, <1>17 DEF RefInv, PipeTyped

-----------------------------------------------------------------------------
(* Most steps leave the database and the consumer alone.                   *)
Still ==
    UNCHANGED <<mode, raw, experimental, quarantine, payloads, cp, restCp, snapshots,
                consumer, todo, current>>

LEMMA StillKeeps ==
    ASSUME RefInv, Still, LineTyped', faults' \in Nat, run' = "down" => run = "down"
    PROVE  RefInv'
<1>1. RowsTyped'
  BY DEF RefInv, PipeTyped, RowsTyped, Still
<1>2. HandTyped'
  BY DEF RefInv, PipeTyped, HandTyped, Still
<1>3. PICK s, e : s = todo /\ e = current /\ s = todo' /\ e = current'
  BY DEF Still
<1>4. consumer' = "busy" => Ordered(s, e) /\ Traced(s, e)
  BY <1>3 DEF RefInv, Still
<1>5. Ordered(s, e) => Ordered(s, e)'
  BY DEF Ordered, HasRow, Ids, GivesRow, Still, Identity, Gap
<1>6. Traced(s, e) => Traced(s, e)'
  BY DEF Traced, HasRow, Ids, LeavesTrace, Still, Identity
<1>7. (consumer = "busy" => Ordered(todo, current) /\ Traced(todo, current))'
  BY <1>3, <1>4, <1>5, <1>6
<1>8. SourcesOfMembers'
  BY DEF RefInv, SourcesOfMembers, Still
<1>9. ReferencesHold'
  BY DEF RefInv, ReferencesHold, Still, Ids, Identity, Blank
<1> QED
  BY <1>1, <1>2, <1>7, <1>8, <1>9 DEF RefInv, PipeTyped

LEMMA PutKeeps ==
    ASSUME NEW e \in Events, queue \in Seq(Events), Put(e)
    PROVE  queue' \in Seq(Events)
  BY AppendFacts DEF Put

(* A response holds items, out of one fetch.                               *)
LEMMA AnswerFacts ==
    ASSUME RowsTyped, LineTyped
    PROVE  /\ Answer \in Seq(Events) /\ \A i \in DOMAIN Answer : Answer[i].kind = "rest"
<1>1. PICK m \in Nat : m = Max({restCp, 1}) /\ m >= 1
  BY MaxOfTwo DEF RowsTyped
<1>2. PICK f \in Nat, k \in Int : f = fetched + 1 /\ k = items + 1 - m
  BY DEF LineTyped
<1>3. PICK A : A = Answer /\ A = [i \in 1 .. k |-> Item(m + i - 1, f)]
  BY <1>1, <1>2 DEF Answer
<1>4. \A i \in 1 .. k : A[i] = Item(m + i - 1, f) /\ m + i - 1 \in Nat
  BY <1>1, <1>3
<1>5. \A i \in 1 .. k : A[i] \in Events /\ A[i].kind = "rest"
  BY <1>4, <1>2, EventFacts
<1>6. A \in Seq(Events)
  <2>1. PICK n \in Nat : 1 .. n = 1 .. k
    <3>1. CASE k \in Nat
      BY <3>1
    <3>2. CASE k \notin Nat
      <4>1. 1 .. k = 1 .. 0
        BY <1>2, <3>2
      <4> QED
        BY <4>1
    <3> QED
      BY <3>1, <3>2
  <2>2. A = [i \in 1 .. n |-> A[i]] /\ \A i \in 1 .. n : A[i] \in Events
    BY <1>3, <1>5, <2>1
  <2> QED
    BY <2>2
<1>7. DOMAIN A = 1 .. k
  BY <1>3
<1> QED
  BY <1>3, <1>5, <1>6, <1>7

LEMMA RestPutKeeps ==
    ASSUME RefInv, RestPut
    PROVE  RefInv'
<1>1. LineTyped /\ restOut # <<>> /\ Put(Head(restOut)) /\ restOut' = Tail(restOut) /\ restOut \in Seq(Events)
  BY DEF RefInv, PipeTyped, RestPut, LineTyped
<1>2. PICK s \in Seq(Events) : s = restOut /\ s # <<>>
  BY <1>1
<1>3. /\ Head(s) \in Events /\ Tail(s) \in Seq(Events)
      /\ \A i \in DOMAIN Tail(s) : i + 1 \in DOMAIN s /\ Tail(s)[i] = s[i + 1]
  BY <1>2, TailFacts
<1>4. queue' \in Seq(Events)
  BY <1>1, <1>2, <1>3, PutKeeps DEF LineTyped
<1>5. \A i \in DOMAIN restOut' : restOut'[i].kind = "rest"
  BY <1>1, <1>2, <1>3 DEF LineTyped
<1>6. LineTyped'
  BY <1>1, <1>2, <1>3, <1>4, <1>5 DEF LineTyped, RestPut, venue
<1>7. Still /\ run' = run /\ faults' = faults
  BY DEF RestPut, Still, db, consuming
<1> QED
  BY <1>6, <1>7, StillKeeps DEF RefInv, PipeTyped, HandTyped

LEMMA WsPutKeeps ==
    ASSUME RefInv, WsPut
    PROVE  RefInv'
<1>1. LineTyped /\ wsOut # <<>> /\ Put(Head(wsOut)) /\ wsOut' = Tail(wsOut) /\ wsOut \in Seq(Events)
  BY DEF RefInv, PipeTyped, WsPut, LineTyped
<1>3. Head(wsOut) \in Events /\ wsOut' \in Seq(Events)
  BY <1>1, TailFacts
<1>4. queue' \in Seq(Events)
  BY <1>1, <1>3, PutKeeps DEF LineTyped
<1>6. LineTyped'
  BY <1>1, <1>3, <1>4 DEF LineTyped, WsPut, venue
<1>7. Still /\ run' = run /\ faults' = faults
  BY DEF WsPut, Still, db, consuming
<1> QED
  BY <1>6, <1>7, StillKeeps DEF RefInv, PipeTyped, HandTyped

LEMMA RestPollKeeps ==
    ASSUME RefInv, RestPoll
    PROVE  RefInv'
<1>1. LineTyped /\ RowsTyped /\ faults \in Nat
  BY DEF RefInv, PipeTyped, HandTyped
<1>2. Still /\ run' = run /\ faults' \in Nat
  BY <1>1 DEF RestPoll, Still, db, consuming
<1>3. restOut' \in {restOut, Answer} /\ fetched' \in Nat
  BY <1>1 DEF RestPoll, LineTyped
<1>4. restOut' \in Seq(Events) /\ \A i \in DOMAIN restOut' : restOut'[i].kind = "rest"
  BY <1>1, <1>3, AnswerFacts DEF LineTyped
<1>5. LineTyped'
  BY <1>1, <1>3, <1>4 DEF LineTyped, RestPoll, queueing
<1> QED
  BY <1>2, <1>5, StillKeeps

(* What the stream hands over.                                             *)
LEMMA ConnectedFacts ==
    /\ Connected \in Seq(Events)
    /\ \A i \in DOMAIN Connected : Connected[i].kind = "health"
<1>1. PICK h \in Events : h = Control("health") /\ h.kind = "health"
  BY EventFacts
<1>2. CASE fresh
  <2>1. Connected = <<h>>
    BY <1>1, <1>2 DEF Connected
  <2> QED
    BY <1>1, <2>1
<1>3. CASE ~fresh
  <2>1. Connected = <<>>
    BY <1>3 DEF Connected
  <2> QED
    BY <2>1
<1> QED
  BY <1>2, <1>3

LEMMA WsEventOut ==
    ASSUME LineTyped, NEW n \in head + 1 .. MaxSeq, WsEvent(n)
    PROVE  /\ wsOut' \in Seq(Events) /\ n \in Nat /\ head' = n
           /\ \A i \in DOMAIN wsOut' :
                 \/ i = 1 /\ wsOut'[i] = Book(conn, epoch, n)
                 \/ i > 1 /\ wsOut'[i].kind = "health"
<1>1. n \in Nat /\ head' = n /\ conn \in Nat /\ epoch \in Nat
  BY PipelineAssumption DEF LineTyped, WsEvent, Delivered
<1>2. PICK b \in Events : b = Book(conn, epoch, n)
  BY <1>1, BookFacts
<1>3. PICK c \in Seq(Events) : c = Connected /\ \A i \in DOMAIN c : c[i].kind = "health"
  BY ConnectedFacts
<1>4. PICK t : t = <<b>> \o c
  OBVIOUS
<1>5. wsOut' = t
  BY <1>2, <1>3, <1>4 DEF WsEvent
<1>6. <<b>> \in Seq(Events) /\ Len(<<b>>) = 1 /\ <<b>>[1] = b
  OBVIOUS
<1>7. /\ t \in Seq(Events) /\ DOMAIN t = 1 .. (Len(c) + 1) /\ Len(c) \in Nat
      /\ DOMAIN c = 1 .. Len(c) /\ t[1] = b
      /\ \A i \in DOMAIN c : t[1 + i] = c[i]
  BY <1>4, <1>6, ConcatFacts
<1>8. ASSUME NEW i \in DOMAIN t, i # 1
      PROVE  i > 1 /\ t[i].kind = "health"
  <2>1. i - 1 \in DOMAIN c /\ 1 + (i - 1) = i /\ i > 1
    BY <1>7, <1>8
  <2>2. t[i] = c[i - 1]
    BY <1>7, <2>1
  <2> QED
    BY <1>3, <2>1, <2>2
<1> QED
  BY <1>1, <1>2, <1>5, <1>7, <1>8

LEMMA WsReconnectOut ==
    ASSUME LineTyped, NEW n \in head + 1 .. MaxSeq, WsReconnect(n)
    PROVE  /\ wsOut' \in Seq(Events) /\ n \in Nat /\ head' = n /\ Len(wsOut') >= 2
           /\ DOMAIN wsOut' = 1 .. Len(wsOut')
           /\ \A i \in DOMAIN wsOut' :
                 \/ i = 1 /\ wsOut'[i] = Gone(conn, epoch)
                 \/ i = Len(wsOut') /\ wsOut'[i] = Book(conn + 1, epoch + 1, n)
                 \/ i # 1 /\ i < Len(wsOut') /\ wsOut'[i].kind = "health"
<1>1. n \in Nat /\ head' = n /\ conn \in Nat /\ epoch \in Nat
  BY PipelineAssumption DEF LineTyped, WsReconnect, Delivered
<1>2. PICK g \in Events, b \in Events : g = Gone(conn, epoch) /\ b = Book(conn + 1, epoch + 1, n)
  BY <1>1, BookFacts, EventFacts
<1>3. PICK c \in Seq(Events) : c = Connected /\ \A i \in DOMAIN c : c[i].kind = "health"
  BY ConnectedFacts
<1>4. PICK t : t = <<g>> \o c
  OBVIOUS
<1>5. PICK u : u = t \o <<b>>
  OBVIOUS
<1>6. wsOut' = u
  BY <1>2, <1>3, <1>4, <1>5 DEF WsReconnect
<1>7. <<g>> \in Seq(Events) /\ Len(<<g>>) = 1 /\ <<g>>[1] = g
  OBVIOUS
<1>8. /\ t \in Seq(Events) /\ DOMAIN t = 1 .. (Len(c) + 1) /\ Len(c) \in Nat
      /\ DOMAIN c = 1 .. Len(c) /\ t[1] = g
      /\ \A i \in DOMAIN c : t[1 + i] = c[i]
  BY <1>4, <1>7, ConcatFacts
<1>9. <<b>> \in Seq(Events) /\ Len(<<b>>) = 1 /\ <<b>>[1] = b /\ Len(t) = Len(c) + 1
  BY <1>8
<1>10. /\ u \in Seq(Events) /\ DOMAIN u = 1 .. (Len(c) + 2) /\ u[Len(c) + 2] = b
       /\ \A i \in DOMAIN t : u[i] = t[i]
  <2>1. /\ u \in Seq(Events) /\ DOMAIN u = 1 .. (Len(t) + 1)
        /\ \A i \in DOMAIN t : u[i] = t[i]
        /\ \A i \in DOMAIN <<b>> : u[Len(t) + i] = <<b>>[i]
    BY <1>5, <1>8, <1>9, ConcatFacts
  <2>2. 1 \in DOMAIN <<b>> /\ Len(t) + 1 = Len(c) + 2
    BY <1>8, <1>9
  <2> QED
    BY <1>9, <2>1, <2>2
<1>11. Len(u) = Len(c) + 2
  BY <1>8, <1>10
<1>12. ASSUME NEW i \in DOMAIN u, i # 1, i # Len(u)
       PROVE  i < Len(u) /\ u[i].kind = "health"
  <2>1. i - 1 \in DOMAIN c /\ 1 + (i - 1) = i /\ i < Len(u) /\ i \in DOMAIN t
    BY <1>8, <1>10, <1>11, <1>12
  <2>2. u[i] = c[i - 1]
    BY <1>8, <1>10, <2>1
  <2> QED
    BY <1>3, <2>1, <2>2
<1>13. 1 \in DOMAIN t /\ u[1] = g
  BY <1>8, <1>10
<1> QED
  BY <1>1, <1>2, <1>6, <1>8, <1>10, <1>11, <1>12, <1>13

LEMMA StreamKeeps ==
    ASSUME RefInv, NEW n \in head + 1 .. MaxSeq, WsEvent(n) \/ WsReconnect(n)
    PROVE  RefInv'
<1>1. LineTyped /\ faults \in Nat
  BY DEF RefInv, PipeTyped, HandTyped
<1>2. Still /\ run' = run /\ faults' = faults
  BY DEF WsEvent, WsReconnect, Still, db, consuming
<1>3. CASE WsEvent(n)
  <2>1. wsOut' \in Seq(Events) /\ head' \in Nat
    BY <1>1, <1>3, WsEventOut
  <2>2. UNCHANGED <<queue, restOut, conn, epoch, items, fetched, staleBase>>
    BY <1>3 DEF WsEvent, queueing
  <2>3. LineTyped'
    BY <1>1, <2>1, <2>2 DEF LineTyped
  <2> QED
    BY <1>1, <1>2, <2>3, StillKeeps
<1>4. CASE WsReconnect(n)
  <2>1. wsOut' \in Seq(Events) /\ head' \in Nat
    BY <1>1, <1>4, WsReconnectOut
  <2>2. UNCHANGED <<queue, restOut, items, fetched, staleBase>> /\ conn' = conn + 1 /\ epoch' = epoch + 1
    BY <1>4 DEF WsReconnect, queueing
  <2>3. LineTyped'
    BY <1>1, <2>1, <2>2 DEF LineTyped
  <2> QED
    BY <1>1, <1>2, <2>3, StillKeeps
<1> QED
  BY <1>3, <1>4

LEMMA WorkerKeeps ==
    ASSUME RefInv, RestWait \/ WsConnect \/ WsFails \/ WsStops
    PROVE  RefInv'
<1>1. LineTyped /\ faults \in Nat /\ cp.epoch \in Nat
  BY DEF RefInv, PipeTyped, HandTyped, RowsTyped, Checkpoints
<1>2. CASE RestWait
  BY <1>1, <1>2, StillKeeps DEF RestWait, Still, db, consuming, queueing, venue, LineTyped
<1>3. CASE WsStops
  BY <1>1, <1>3, StillKeeps DEF WsStops, Still, db, consuming, queueing, venue, LineTyped
<1>4. CASE WsConnect
  <2>1. conn' \in Nat /\ epoch' \in Nat /\ staleBase' \in BOOLEAN
    BY <1>1, <1>4 DEF WsConnect, LineTyped
  <2> QED
    BY <1>1, <1>4, <2>1, StillKeeps DEF WsConnect, Still, db, consuming, queueing, venue, LineTyped
<1>5. CASE WsFails
  <2>1. PICK k \in {"stale", "wsdown"} : wsOut' = <<Control(k)>>
    BY <1>5 DEF WsFails
  <2>2. Control(k) \in Events
    BY EventFacts
  <2>3. wsOut' \in Seq(Events)
    BY <2>1, <2>2
  <2> QED
    BY <1>1, <1>5, <2>3, StillKeeps DEF WsFails, Still, db, consuming, queueing, venue, LineTyped
<1> QED
  BY <1>2, <1>3, <1>4, <1>5

LEMMA ControlKeeps ==
    ASSUME RefInv,
           \/ Shutdown \/ Gathered \/ QueueJoined \/ WorkerRaises \/ PutSentinel \/ Ended \/ Publish
           \/ FinalizeReadsQuarantine \/ FinalizeReadsEvents \/ Finished
    PROVE  RefInv'
<1>1. LineTyped /\ faults \in Nat
  BY DEF RefInv, PipeTyped, HandTyped
<1>2. CASE Shutdown \/ Gathered \/ Ended \/ FinalizeReadsQuarantine \/ FinalizeReadsEvents
  BY <1>1, <1>2, StillKeeps DEF Shutdown, Gathered, Ended, FinalizeReadsQuarantine,
     FinalizeReadsEvents, Still, db, consuming, queueing, workers, venue, LineTyped
<1>3. CASE QueueJoined \/ WorkerRaises
  <2>1. faults' \in Nat /\ Close
    BY <1>1, <1>3 DEF QueueJoined, WorkerRaises
  <2>2. restOut' = <<>> /\ wsOut' = <<>> /\ run' = "close" /\ Still
        /\ UNCHANGED <<queue, conn, epoch, head, items, fetched, staleBase>>
    BY <2>1 DEF Close, Still, db, consuming, queueing, venue
  <2>3. LineTyped'
    BY <1>1, <2>2 DEF LineTyped
  <2> QED
    BY <2>1, <2>2, <2>3, StillKeeps
<1>4. CASE PutSentinel
  <2>1. queue' \in Seq(Events)
    BY <1>1, <1>4, PutKeeps, EventFacts DEF PutSentinel, Sentinel, LineTyped
  <2> QED
    BY <1>1, <1>4, <2>1, StillKeeps DEF PutSentinel, Still, db, consuming, workers, venue, LineTyped
<1>5. CASE Publish
  BY <1>1, <1>5, StillKeeps DEF Publish, Still, db, consuming, queueing, workers, LineTyped
<1>6. CASE Finished
  <2>1. UNCHANGED pipeVars
    BY <1>6 DEF Finished
  <2> QED
    BY <1>1, <2>1, StillKeeps DEF pipeVars, Still, db, consuming, queueing, workers, venue, LineTyped
<1> QED
  BY <1>2, <1>3, <1>4, <1>5, <1>6

(* The consumer lets go of its envelope, or a new process starts.          *)
LEMMA EmptyHandKeeps ==
    ASSUME RefInv, LineTyped', faults' \in Nat,
           UNCHANGED <<mode, raw, experimental, quarantine, payloads, cp, restCp, snapshots>>,
           consumer' # "busy", todo' = <<>>, current' = Blank,
           run' = "down" => consumer' = "idle"
    PROVE  RefInv'
<1>1. RowsTyped'
  BY DEF RefInv, PipeTyped, RowsTyped
<1>2. HandTyped'
  BY EventFacts DEF HandTyped
<1>3. SourcesOfMembers'
  BY DEF RefInv, SourcesOfMembers
<1>4. ReferencesHold'
  BY DEF RefInv, ReferencesHold, Ids, Identity, Blank
<1> QED
  BY <1>1, <1>2, <1>3, <1>4 DEF RefInv, PipeTyped

LEMMA HandsKeep ==
    ASSUME RefInv, StartWorkers \/ ProcessDies \/ Persisted \/ PersistFails
    PROVE  RefInv'
<1>1. LineTyped /\ HandTyped /\ faults \in Nat
  BY DEF RefInv, PipeTyped, HandTyped
<1>2. CASE StartWorkers
  <2>1. Control("health") \in Events
    BY EventFacts
  <2>2. queue' \in Seq(Events) /\ restOut' = <<>> /\ wsOut' = <<>>
    BY <1>2, <2>1 DEF StartWorkers
  <2>3. LineTyped'
    BY <1>1, <1>2, <2>2 DEF LineTyped, StartWorkers, venue
  <2>4. /\ consumer' = "idle" /\ todo' = <<>> /\ current' = Blank /\ run' = "gather" /\ faults' = faults
        /\ UNCHANGED <<mode, raw, experimental, quarantine, payloads, cp, restCp, snapshots>>
    BY <1>2 DEF StartWorkers, db
  <2> QED
    BY <1>1, <2>3, <2>4, EmptyHandKeeps
<1>3. CASE ProcessDies
  <2>1. LineTyped'
    BY <1>1, <1>3 DEF LineTyped, ProcessDies, venue
  <2>2. /\ consumer' = "idle" /\ todo' = <<>> /\ current' = Blank /\ faults' \in Nat
        /\ UNCHANGED <<mode, raw, experimental, quarantine, payloads, cp, restCp, snapshots>>
    BY <1>1, <1>3 DEF ProcessDies, db
  <2> QED
    BY <2>1, <2>2, EmptyHandKeeps
<1>4. CASE Persisted \/ PersistFails
  <2>1. LineTyped'
    BY <1>1, <1>4 DEF LineTyped, Persisted, PersistFails, TaskDone, workers, venue
  <2>2. /\ consumer' \in {"idle", "dead"} /\ todo' = <<>> /\ current' = Blank /\ faults' \in Nat
        /\ UNCHANGED <<mode, raw, experimental, quarantine, payloads, cp, restCp, snapshots>>
    BY <1>1, <1>4 DEF Persisted, PersistFails, TaskDone, db
  <2>3. run' # "down"
    BY <1>1, <1>4 DEF HandTyped, Persisted, PersistFails
  <2> QED
    BY <2>1, <2>2, <2>3, EmptyHandKeeps
<1> QED
  BY <1>2, <1>3, <1>4

LEMMA TakeKeeps ==
    ASSUME RefInv, Take
    PROVE  RefInv'
<1>1. LineTyped /\ HandTyped /\ RowsTyped /\ queue # <<>> /\ queue \in Seq(Events)
  BY DEF RefInv, PipeTyped, LineTyped, Take
<1>2. PICK e \in Events : e = Head(queue)
  BY <1>1, TailFacts
<1>3. LineTyped'
  <2>1. queue' = Tail(queue) /\ UNCHANGED <<restOut, wsOut, conn, epoch, head, items, fetched, staleBase>>
    BY DEF Take, workers, venue
  <2>2. queue' \in Seq(Events)
    BY <1>1, <2>1, TailFacts
  <2> QED
    BY <1>1, <2>1, <2>2 DEF LineTyped
<1>4. /\ UNCHANGED <<mode, raw, experimental, quarantine, payloads, cp, restCp, snapshots, faults, run>>
      /\ run # "down" /\ consumer = "idle"
  BY DEF Take, db, Running
<1>5. CASE e = Sentinel
  <2>1. consumer' = "ended" /\ todo' = todo /\ current' = current
    BY <1>2, <1>5 DEF Take
  <2>2. todo' = <<>> /\ current' = Blank
    BY <1>1, <1>4, <2>1 DEF HandTyped
  <2> QED
    BY <1>1, <1>3, <1>4, <2>1, <2>2, EmptyHandKeeps DEF HandTyped
<1>6. CASE e # Sentinel
  <2>1. /\ consumer' = "busy" /\ current' = e /\ \E v \in Verdicts : todo' = Plan(e, v)
    BY <1>2, <1>6 DEF Take
  <2>2. PICK v \in BOOLEAN, s \in Seq(Writes) :
           s = Plan(e, v) /\ todo' = s /\ Ordered(s, e) /\ Traced(s, e)
    BY <1>1, <2>1, PlanSound, PipelineAssumption
  <2>3. RowsTyped'
    BY <1>1, <1>4 DEF RowsTyped
  <2>4. HandTyped'
    BY <1>1, <1>4, <2>1, <2>2 DEF HandTyped
  <2>5. Ordered(s, e)'
    BY <1>4, <2>2 DEF Ordered, HasRow, Ids, GivesRow, Identity, Gap
  <2>6. Traced(s, e)'
    BY <1>4, <2>2 DEF Traced, HasRow, Ids, LeavesTrace, Identity
  <2>7. (consumer = "busy" => Ordered(todo, current) /\ Traced(todo, current))'
    BY <2>1, <2>2, <2>5, <2>6
  <2>8. SourcesOfMembers'
    BY <1>4 DEF RefInv, SourcesOfMembers
  <2>9. ReferencesHold'
    BY <1>4 DEF RefInv, ReferencesHold, Ids, Identity, Blank
  <2> QED
    BY <1>3, <2>3, <2>4, <2>7, <2>8, <2>9 DEF RefInv, PipeTyped
<1> QED
  BY <1>5, <1>6

(* The manifest and the purge.                                             *)
LEMMA ArchiveKeeps ==
    ASSUME RefInv, FinalizeCommits \/ \E cutoff \in 1 .. MaxFetch + 1 : Purge(cutoff)
    PROVE  RefInv'
<1>1. /\ UNCHANGED <<mode, raw, experimental, quarantine, cp, restCp, consumer, todo, current, faults, run>>
      /\ UNCHANGED <<queue, restOut, wsOut, conn, epoch, head, items, fetched, staleBase>>
  BY DEF FinalizeCommits, Purge, db, consuming, queueing, workers, venue
<1>2. RowsTyped' /\ LineTyped' /\ HandTyped'
  BY <1>1 DEF RefInv, PipeTyped, RowsTyped, LineTyped, HandTyped
<1>3. PICK s, e : s = todo /\ e = current /\ s = todo' /\ e = current'
  BY <1>1
<1>4. consumer' = "busy" => Ordered(s, e) /\ Traced(s, e)
  BY <1>1, <1>3 DEF RefInv
<1>5. Ordered(s, e) => Ordered(s, e)'
  BY <1>1 DEF Ordered, HasRow, Ids, GivesRow, Identity, Gap
<1>6. Traced(s, e) => Traced(s, e)'
  BY <1>1 DEF Traced, HasRow, Ids, LeavesTrace, Identity
<1>7. (consumer = "busy" => Ordered(todo, current) /\ Traced(todo, current))'
  BY <1>3, <1>4, <1>5, <1>6
<1>8. /\ (cp.event # Blank => cp.event \in Ids(raw \cup experimental))'
      /\ (restCp # 0 => \E x \in raw \cup experimental : x.kind = "rest" /\ x.item = restCp)'
  BY <1>1 DEF RefInv, ReferencesHold, Ids, Identity, Blank
<1>9. CASE FinalizeCommits
  <2>1. PICK m, s0 :
           /\ snapshots' = snapshots \cup {s0} /\ s0.members = m
           /\ s0.sources = {x.fetch : x \in m} \cap payloads
    <3>1. PICK m : m = Members(finalizer.source, finalizer.quarantine)
      OBVIOUS
    <3>2. PICK s0 : s0 = [members |-> m, eligible |-> Eligible(m, finalizer.source),
                          sources |-> {x.fetch : x \in m} \cap payloads]
      OBVIOUS
    <3>3. s0.members = m /\ s0.sources = {x.fetch : x \in m} \cap payloads
      BY <3>2
    <3>4. snapshots' = snapshots \cup {[members |-> m, eligible |-> Eligible(m, finalizer.source),
                                       sources |-> {x.fetch : x \in m} \cap payloads]}
      BY <1>9, <3>1, Zenon DEF FinalizeCommits
    <3>5. snapshots' = snapshots \cup {s0}
      BY <3>2, <3>4
    <3> QED
      BY <3>3, <3>5
  <2>2. payloads' = payloads
    BY <1>9 DEF FinalizeCommits, db
  <2>3. SourcesOfMembers'
    BY <2>1 DEF RefInv, SourcesOfMembers
  <2>4. (\A x \in snapshots : x.sources \subseteq payloads)'
    BY <2>1, <2>2 DEF RefInv, ReferencesHold
  <2> QED
    BY <1>2, <1>7, <1>8, <2>3, <2>4 DEF RefInv, PipeTyped, ReferencesHold
<1>10. CASE \E cutoff \in 1 .. MaxFetch + 1 : Purge(cutoff)
  <2>1. PICK k : payloads' = {p \in payloads : p >= k \/ p \in Protected} /\ snapshots' = snapshots
    BY <1>10 DEF Purge
  <2>2. SourcesOfMembers'
    BY <2>1 DEF RefInv, SourcesOfMembers
  <2>3. ASSUME NEW x \in snapshots, NEW p \in x.sources
        PROVE  p \in payloads'
    <3>1. p \in payloads /\ p \in {e0.fetch : e0 \in x.members}
      BY <2>3 DEF RefInv, ReferencesHold, SourcesOfMembers
    <3>2. p \in Protected
      BY <3>1 DEF Protected
    <3> QED
      BY <2>1, <3>1, <3>2
  <2>4. (\A x \in snapshots : x.sources \subseteq payloads)'
    BY <2>1, <2>3
  <2> QED
    BY <1>2, <1>7, <1>8, <2>2, <2>4 DEF RefInv, PipeTyped, ReferencesHold
<1> QED
  BY <1>9, <1>10

LEMMA PipeInitially == PipeInit => RefInv
<1> SUFFICES ASSUME PipeInit PROVE RefInv
  OBVIOUS
<1>1. NoCheckpoint \in Checkpoints /\ NoCheckpoint.event = Blank
  <2>1. PICK b \in Events : b = Blank
    BY EventFacts
  <2>2. NoCheckpoint = [conn |-> 0, epoch |-> 0, seq |-> 0, recovery |-> FALSE, event |-> b]
    BY <2>1 DEF NoCheckpoint
  <2> QED
    BY <2>1, <2>2 DEF Checkpoints
<1>2. RowsTyped
  BY <1>1 DEF PipeInit, RowsTyped
<1>3. LineTyped
  <2>1. <<>> \in Seq(Events) /\ DOMAIN <<>> = {}
    OBVIOUS
  <2>2. /\ queue = <<>> /\ restOut = <<>> /\ wsOut = <<>> /\ conn = 0 /\ epoch = 0
        /\ head = 0 /\ items = 1 /\ fetched = 0 /\ staleBase = FALSE
    BY DEF PipeInit
  <2> QED
    BY <2>1, <2>2 DEF LineTyped
<1>4. HandTyped
  BY EventFacts DEF PipeInit, HandTyped
<1>5. SourcesOfMembers /\ ReferencesHold
  BY <1>1 DEF PipeInit, SourcesOfMembers, ReferencesHold
<1> QED
  BY <1>2, <1>3, <1>4, <1>5 DEF RefInv, PipeTyped, PipeInit

LEMMA PipeStep == RefInv /\ [PipeNext]_pipeVars => RefInv'
<1> SUFFICES ASSUME RefInv, [PipeNext]_pipeVars PROVE RefInv'
  OBVIOUS
<1>1. CASE UNCHANGED pipeVars
  <2>1. LineTyped /\ faults \in Nat
    BY DEF RefInv, PipeTyped, HandTyped
  <2> QED
    BY <1>1, <2>1, StillKeeps DEF pipeVars, Still, db, consuming, queueing, workers, venue, LineTyped
<1>2. CASE PipeNext
  BY <1>2, RestPutKeeps, WsPutKeeps, RestPollKeeps, WorkerKeeps, StreamKeeps, TakeKeeps,
     PersistKeeps, HandsKeep, ControlKeeps, ArchiveKeeps DEF PipeNext
<1> QED
  BY <1>1, <1>2

LEMMA PipelineInvariant == PipeSpec => []RefInv
<1> QED
  BY PipeInitially, PipeStep, PTL DEF PipeSpec

(* Whatever crashes, fails or is purged between two transactions of        *)
(* persist, the checkpoints speak of rows that exist and the responses     *)
(* that backed a finalized snapshot stay (CheckpointWriter, purge_expired).*)
THEOREM ReferencesAlwaysHold == PipeSpec => []ReferencesHold
<1>1. RefInv => ReferencesHold
  BY DEF RefInv
<1> QED
  BY <1>1, PipelineInvariant, PTL

LEMMA TraceStep ==
    ASSUME RefInv, [PipeNext]_pipeVars, consumer = "busy", consumer' = "idle", faults' = faults
    PROVE  Identity(current) \in Ids(raw \cup experimental) \cup quarantine
<1>1. HandTyped /\ faults \in Nat /\ Traced(todo, current)
  BY DEF RefInv, PipeTyped, HandTyped
<1>2. Persisted
  <2>1. ~StartWorkers
    BY <1>1 DEF StartWorkers, HandTyped
  <2>2. ~(PersistFails \/ ProcessDies)
    BY <1>1 DEF PersistFails, ProcessDies
  <2>3. ~(UNCHANGED pipeVars \/ Finished)
    BY DEF pipeVars, Finished, consuming
  <2>4. ~(RestPut \/ WsPut \/ RestPoll \/ RestWait \/ WsConnect \/ WsFails \/ WsStops)
    BY DEF RestPut, WsPut, RestPoll, RestWait, WsConnect, WsFails, WsStops, consuming
  <2>5. ~\E n \in head + 1 .. MaxSeq : WsEvent(n) \/ WsReconnect(n)
    BY DEF WsEvent, WsReconnect, consuming
  <2>6. ~(Take \/ Persist)
    BY DEF Take, Persist
  <2>7. ~(Shutdown \/ Gathered \/ QueueJoined \/ WorkerRaises \/ PutSentinel \/ Ended \/ Publish)
    BY DEF Shutdown, Gathered, QueueJoined, WorkerRaises, PutSentinel, Ended, Publish, Close, consuming
  <2>8. ~(FinalizeReadsQuarantine \/ FinalizeReadsEvents \/ FinalizeCommits)
    BY DEF FinalizeReadsQuarantine, FinalizeReadsEvents, FinalizeCommits, consuming
  <2>9. ~\E cutoff \in 1 .. MaxFetch + 1 : Purge(cutoff)
    BY DEF Purge, consuming
  <2> QED
    BY <2>1, <2>2, <2>3, <2>4, <2>5, <2>6, <2>7, <2>8, <2>9 DEF PipeNext
<1>3. todo = <<>>
  BY <1>2 DEF Persisted
<1> QED
  BY <1>1, <1>3 DEF Traced, HasRow

(* An envelope the consumer finishes without an error has left a row:      *)
(* production, experimental or quarantine (ResearchEventConsumer.run).     *)
THEOREM EnvelopesLeaveATrace == PipeSpec => DurableTrace
<1>1. RefInv /\ [PipeNext]_pipeVars =>
        [consumer = "busy" /\ consumer' = "idle" /\ faults' = faults
            => Identity(current) \in Ids(raw \cup experimental) \cup quarantine]_pipeVars
  BY TraceStep
<1> QED
  BY <1>1, PipelineInvariant, PTL DEF PipeSpec, DurableTrace

-----------------------------------------------------------------------------
(* What the quarantine holds.  Events of the book stream stay in line on   *)
(* their way from the worker to the consumer: the updates by number and,   *)
(* unless the worker's base epoch was stale, by epoch and connection, from *)
(* the checkpoint through the envelope in hand, the queue and the worker's *)
(* output to the connection as it is now.                                  *)
Streamed(e) == e.kind \in {"book", "gone"}

UpTo(x, y) == x.epoch < y.epoch \/ (x.epoch = y.epoch /\ x.conn = y.conn)

InOrder(x, y) ==
    Streamed(x) /\ Streamed(y) =>
        /\ x.kind = "book" /\ y.kind = "book" => x.item < y.item
        /\ ~staleBase => UpTo(x, y)

Now == Gone(conn, epoch)

UpToNow(x) ==
    Streamed(x) =>
        /\ x.conn <= conn /\ (x.kind = "book" => x.item <= head /\ x.fetch = 0)
        /\ ~staleBase => UpTo(cp, x) /\ UpTo(x, Now)

InLine(q) == \A i, j \in DOMAIN q : i < j => InOrder(q[i], q[j])
Precedes(x, q) == \A i \in DOMAIN q : InOrder(x, q[i])
NoneLate(q) == \A i \in DOMAIN q : UpToNow(q[i])

(* A row of a book update lies behind every update still in the line.      *)
Passed(r, q) == \A i \in DOMAIN q : r.kind = "book" /\ q[i].kind = "book" => r.item < q[i].item
Behind(r, q, o) ==
    /\ r.kind = "book" => r.item <= head /\ r.fetch = 0
    /\ Passed(r, q) /\ Passed(r, o)

(* The event e in hand, the queue q and the output o.                      *)
Line(e, q, o) ==
    /\ InLine(q) /\ InLine(o) /\ \A i \in DOMAIN q : Precedes(q[i], o)
    /\ Precedes(e, q) /\ Precedes(e, o)
    /\ UpToNow(e) /\ NoneLate(q) /\ NoneLate(o)
    /\ \A r \in raw \cup judged : Behind(r, q, o)

LineInv == Line(current, queue, wsOut) /\ (~staleBase => UpTo(cp, Now))

JudgedInv ==
    /\ judged \subseteq Events
    /\ \A r \in raw : InvalidReason(r) => Identity(r) \in judged
    /\ \A r \in judged : r.kind = "book" \/ InvalidReason(r)
    /\ InvalidReason(current) => Identity(current) \in judged

(* What the writes s still hold for e.                                     *)
Pending(s, op, e) == \E i \in DOMAIN s : s[i].op = op /\ s[i].event = e

WillQuarantine(s, e) ==
    Identity(e) \in judged /\ (Stored(raw, e) \/ Pending(s, "raw", e)) =>
        Identity(e) \in quarantine \cup torn \/ Pending(s, "quarantine", e)

MovesOnlyByStream(s, e) == Pending(s, "checkpoint", e) => e.kind \in {"book", "gone", "rest"}

RowBeforeQuarantine(s, e) ==
    \A i \in DOMAIN s : s[i].op = "quarantine" =>
        e \in raw \/ \E j \in 1 .. (i - 1) : s[j].op = "raw" /\ s[j].event = e

HandInv ==
    consumer = "busy" =>
        /\ WillQuarantine(todo, current) /\ MovesOnlyByStream(todo, current)
        /\ current.kind = "book" /\ ~staleBase => RowBeforeQuarantine(todo, current)

ExactInv ==
    /\ LineInv /\ JudgedInv /\ HandInv
    /\ \A e \in quarantine : e.kind = "book" => e.conn <= conn
    /\ QuarantineExact

LEMMA UpToTransitive ==
    ASSUME NEW x, NEW y, NEW z, x.epoch \in Nat, y.epoch \in Nat, z.epoch \in Nat,
           UpTo(x, y), UpTo(y, z)
    PROVE  UpTo(x, z)
  BY DEF UpTo

LEMMA SilentInOrder ==
    ASSUME NEW x, ~Streamed(x)
    PROVE  /\ UpToNow(x) /\ \A y : InOrder(x, y) /\ InOrder(y, x)
           /\ \A q : Precedes(x, q)
           /\ x.kind # "book"
  BY DEF UpToNow, InOrder, Streamed, Precedes

(* The line survives what the workers and the consumer do to it.           *)
LEMMA LineReleases ==
    ASSUME NEW e, NEW q, NEW o, Line(e, q, o)
    PROVE  Line(Blank, q, o)
<1>1. ~Streamed(Blank)
  BY DEF Streamed, Blank
<1> QED
  BY <1>1, SilentInOrder DEF Line

LEMMA LineDrops ==
    ASSUME NEW e, NEW q, NEW o, Line(e, q, o)
    PROVE  Line(e, q, <<>>) /\ Line(e, <<>>, <<>>)
<1>1. DOMAIN <<>> = {}
  OBVIOUS
<1> QED
  BY <1>1 DEF Line, InLine, Precedes, NoneLate, Behind, Passed

LEMMA LineQueues ==
    ASSUME NEW e, NEW q \in Seq(Events), NEW o, NEW x \in Events, ~Streamed(x), Line(e, q, o)
    PROVE  Line(e, Append(q, x), o)
<1>1. PICK p : p = Append(q, x)
  OBVIOUS
<1>2. /\ DOMAIN q = 1 .. Len(q) /\ Len(q) \in Nat /\ DOMAIN p = 1 .. (Len(q) + 1)
      /\ \A i \in DOMAIN q : p[i] = q[i]
      /\ p[Len(q) + 1] = x
  BY <1>1, AppendFacts
<1>3. \A i \in DOMAIN p : p[i] = x \/ (i \in DOMAIN q /\ p[i] = q[i])
  BY <1>2
<1>4. UpToNow(x) /\ (\A y : InOrder(x, y) /\ InOrder(y, x)) /\ Precedes(x, o) /\ x.kind # "book"
  BY SilentInOrder
<1>5. InLine(p)
  BY <1>3, <1>4 DEF Line, InLine
<1>6. (\A i \in DOMAIN p : Precedes(p[i], o)) /\ NoneLate(p)
  BY <1>3, <1>4 DEF Line, NoneLate
<1>7. Precedes(e, p)
  BY <1>3, <1>4 DEF Line, Precedes
<1>8. \A r \in raw \cup judged : Behind(r, p, o)
  BY <1>3, <1>4 DEF Line, Behind, Passed
<1> QED
  BY <1>1, <1>5, <1>6, <1>7, <1>8 DEF Line

LEMMA LineTakes ==
    ASSUME NEW e, NEW q \in Seq(Events), q # <<>>, NEW o, Line(e, q, o)
    PROVE  /\ Line(Head(q), Tail(q), o) /\ Line(e, Tail(q), o)
           /\ \A r \in raw \cup judged : r.kind = "book" /\ Head(q).kind = "book" => r.item < Head(q).item
           /\ UpToNow(Head(q))
<1>1. PICK x, t : x = Head(q) /\ t = Tail(q)
  OBVIOUS
<1>2. /\ x = q[1] /\ 1 \in DOMAIN q /\ DOMAIN q = 1 .. Len(q) /\ Len(q) \in Nat
      /\ DOMAIN t = 1 .. (Len(q) - 1)
      /\ \A i \in DOMAIN t : i + 1 \in DOMAIN q /\ t[i] = q[i + 1] /\ 1 < i + 1
  <2>1. /\ x = q[1] /\ 1 \in DOMAIN q /\ DOMAIN q = 1 .. Len(q) /\ Len(q) \in Nat
        /\ DOMAIN t = 1 .. (Len(q) - 1)
        /\ \A i \in DOMAIN t : i + 1 \in DOMAIN q /\ t[i] = q[i + 1]
    BY <1>1, TailFacts
  <2> QED
    BY <2>1
<1>3. InLine(t)
  <2> SUFFICES ASSUME NEW i \in DOMAIN t, NEW j \in DOMAIN t, i < j
               PROVE  InOrder(t[i], t[j])
    BY DEF InLine
  <2>1. i + 1 < j + 1
    BY <1>2
  <2> QED
    BY <1>2, <2>1 DEF Line, InLine
<1>4. Precedes(x, t)
  BY <1>2 DEF Line, InLine, Precedes
<1>5. Precedes(x, o) /\ UpToNow(x) /\ NoneLate(t) /\ \A i \in DOMAIN t : Precedes(t[i], o)
  BY <1>2 DEF Line, NoneLate
<1>6. Precedes(e, t)
  BY <1>2 DEF Line, Precedes
<1>7. \A r \in raw \cup judged :
         Behind(r, t, o) /\ (r.kind = "book" /\ x.kind = "book" => r.item < x.item)
  BY <1>2 DEF Line, Behind, Passed
<1> QED
  BY <1>1, <1>3, <1>4, <1>5, <1>6, <1>7 DEF Line

LEMMA LineMoves ==
    ASSUME NEW e, NEW q \in Seq(Events), NEW o \in Seq(Events), o # <<>>, Line(e, q, o)
    PROVE  Line(e, Append(q, Head(o)), Tail(o))
<1>0. PICK x \in Events, t \in Seq(Events) : x = Head(o) /\ t = Tail(o)
  BY TailFacts
<1>1. PICK p : x = Head(o) /\ t = Tail(o) /\ p = Append(q, x)
  BY <1>0
<1>2. /\ x = o[1] /\ 1 \in DOMAIN o
      /\ DOMAIN t = 1 .. (Len(o) - 1) /\ Len(o) \in Nat
      /\ \A i \in DOMAIN t : i + 1 \in DOMAIN o /\ t[i] = o[i + 1] /\ 1 < i + 1
  <2>1. /\ x = o[1] /\ 1 \in DOMAIN o /\ DOMAIN o = 1 .. Len(o) /\ Len(o) \in Nat
        /\ DOMAIN t = 1 .. (Len(o) - 1)
        /\ \A i \in DOMAIN t : i + 1 \in DOMAIN o /\ t[i] = o[i + 1]
    BY <1>1, TailFacts
  <2> QED
    BY <2>1
<1>3. /\ DOMAIN q = 1 .. Len(q) /\ Len(q) \in Nat /\ DOMAIN p = 1 .. (Len(q) + 1)
      /\ \A i \in DOMAIN q : p[i] = q[i]
      /\ p[Len(q) + 1] = x
  BY <1>1, AppendFacts
<1>4. \A i \in DOMAIN p : (p[i] = x /\ i = Len(q) + 1) \/ (i \in DOMAIN q /\ p[i] = q[i])
  BY <1>3
<1>5. InLine(t)
  <2> SUFFICES ASSUME NEW i \in DOMAIN t, NEW j \in DOMAIN t, i < j
               PROVE  InOrder(t[i], t[j])
    BY DEF InLine
  <2>1. i + 1 < j + 1
    BY <1>2
  <2> QED
    BY <1>2, <2>1 DEF Line, InLine
<1>6. InLine(p)
  <2> SUFFICES ASSUME NEW i \in DOMAIN p, NEW j \in DOMAIN p, i < j
               PROVE  InOrder(p[i], p[j])
    BY DEF InLine
  <2>1. i \in DOMAIN q /\ p[i] = q[i]
    BY <1>3, <1>4
  <2>2. CASE p[j] = x
    <3>1. Precedes(q[i], o)
      BY <2>1 DEF Line
    <3> QED
      BY <1>2, <2>1, <2>2, <3>1 DEF Precedes
  <2>3. CASE j \in DOMAIN q /\ p[j] = q[j]
    BY <2>1, <2>3 DEF Line, InLine
  <2> QED
    BY <1>4, <2>2, <2>3
<1>7. Precedes(x, t)
  BY <1>2 DEF Line, InLine, Precedes
<1>8. \A i \in DOMAIN q : Precedes(q[i], t)
  BY <1>2 DEF Line, Precedes
<1>9. (\A i \in DOMAIN p : Precedes(p[i], t)) /\ Precedes(e, t)
  BY <1>2, <1>4, <1>7, <1>8 DEF Line, Precedes
<1>10. Precedes(e, p)
  BY <1>2, <1>4 DEF Line, Precedes
<1>11. NoneLate(p) /\ NoneLate(t)
  BY <1>2, <1>4 DEF Line, NoneLate
<1>12. \A r \in raw \cup judged : Behind(r, p, t)
  BY <1>2, <1>4 DEF Line, Behind, Passed
<1> QED
  BY <1>1, <1>5, <1>6, <1>9, <1>10, <1>11, <1>12 DEF Line

LEMMA LineOf ==
    ASSUME NEW e, NEW q, NEW x \in Events, ~Streamed(x), Line(e, q, <<>>)
    PROVE  Line(e, q, <<x>>)
<1>0. PICK o : o = <<x>>
  OBVIOUS
<1>1. o = <<x>> /\ DOMAIN o = {1} /\ o[1] = x
  BY <1>0
<1>2. UpToNow(x) /\ (\A y : InOrder(x, y) /\ InOrder(y, x)) /\ x.kind # "book"
  BY SilentInOrder
<1>3. InLine(o) /\ NoneLate(o) /\ \A y : Precedes(y, o)
  BY <1>1, <1>2 DEF InLine, NoneLate, Precedes
<1>4. \A r \in raw \cup judged : Behind(r, q, o)
  BY <1>1, <1>2 DEF Line, Behind, Passed
<1> QED
  BY <1>1, <1>3, <1>4 DEF Line

(* It does not depend on anything else.                                    *)
LEMMA LineGrows ==
    ASSUME NEW e, NEW q, NEW o, Line(e, q, o), UNCHANGED <<staleBase, cp, conn, epoch, head>>,
           \A r \in raw' \cup judged' : Behind(r, q, o)
    PROVE  Line(e, q, o)'
<1>1. \A x, y : InOrder(x, y)' <=> InOrder(x, y)
  BY DEF InOrder, Streamed, UpTo
<1>2. \A x : UpToNow(x)' <=> UpToNow(x)
  BY DEF UpToNow, Streamed, UpTo, Now, Gone, Blank
<1>3. \A r : Behind(r, q, o)' <=> Behind(r, q, o)
  BY DEF Behind, Passed
<1>4. InLine(q)' /\ InLine(o)'
  BY <1>1 DEF InLine, Line
<1>5. /\ \A i \in DOMAIN q : Precedes(q[i], o)'
      /\ Precedes(e, q)' /\ Precedes(e, o)'
  BY <1>1 DEF Precedes, Line
<1>6. UpToNow(e)' /\ NoneLate(q)' /\ NoneLate(o)'
  BY <1>2 DEF NoneLate, Line
<1>7. (\A r \in raw \cup judged : Behind(r, q, o))'
  BY <1>3
<1> QED
  BY <1>4, <1>5, <1>6, <1>7 DEF Line

LEMMA LineStands ==
    ASSUME NEW e, NEW q, NEW o, Line(e, q, o),
           UNCHANGED <<raw, judged, staleBase, cp, conn, epoch, head>>
    PROVE  Line(e, q, o)'
<1>1. \A r \in raw' \cup judged' : Behind(r, q, o)
  BY DEF Line
<1> QED
  BY <1>1, LineGrows

-----------------------------------------------------------------------------
(* Steps that leave the rows, the quarantine and the consumer alone.       *)
LEMMA CalmKeeps ==
    ASSUME RefInv, ExactInv, LineInv', conn' \in Nat,
           UNCHANGED <<raw, quarantine, consumer, todo, current, judged, torn>>,
           \/ conn' = conn /\ staleBase' = staleBase
           \/ conn' > conn /\ (staleBase' = staleBase \/ staleBase' = TRUE \/ ~Streamed(current))
    PROVE  ExactInv'
<1>1. /\ JudgedInv /\ HandInv /\ QuarantineExact /\ quarantine \subseteq Events /\ conn \in Nat
      /\ \A e \in quarantine : e.kind = "book" => e.conn <= conn
  BY DEF ExactInv, RefInv, PipeTyped, RowsTyped, LineTyped
<1>2. \A e \in quarantine : e.conn \in Nat
  BY <1>1 DEF Events
<1>3. JudgedInv'
  BY <1>1 DEF JudgedInv, InvalidReason, Identity
<1>4. PICK s, c : s = todo /\ c = current /\ s = todo' /\ c = current'
  OBVIOUS
<1>5. HandInv'
  <2> SUFFICES ASSUME consumer' = "busy"
               PROVE  /\ WillQuarantine(s, c)' /\ MovesOnlyByStream(s, c)'
                      /\ c.kind = "book" /\ ~staleBase' => RowBeforeQuarantine(s, c)'
    BY <1>4 DEF HandInv
  <2>1. /\ WillQuarantine(s, c) /\ MovesOnlyByStream(s, c)
        /\ c.kind = "book" /\ ~staleBase => RowBeforeQuarantine(s, c)
    BY <1>1, <1>4 DEF HandInv
  <2>2. WillQuarantine(s, c)'
    BY <2>1 DEF WillQuarantine, Pending, Stored, Identity
  <2>3. MovesOnlyByStream(s, c)'
    BY <2>1 DEF MovesOnlyByStream, Pending
  <2>4. c.kind = "book" /\ ~staleBase' => ~staleBase
    BY <1>4 DEF Streamed
  <2>5. RowBeforeQuarantine(s, c) => RowBeforeQuarantine(s, c)'
    BY DEF RowBeforeQuarantine
  <2> QED
    BY <2>1, <2>2, <2>3, <2>4, <2>5
<1>6. (\A e \in quarantine : e.kind = "book" => e.conn <= conn)'
  BY <1>1, <1>2
<1>7. (Ids(raw) \cap judged \subseteq quarantine \cup torn \cup {Identity(current)})'
  BY <1>1 DEF QuarantineExact, Ids, Identity
<1>8. (\A e \in quarantine : e.kind = "book" /\ e.conn = conn /\ e \notin raw => staleBase)'
  <2> SUFFICES ASSUME NEW e \in quarantine, e.kind = "book", e.conn = conn', e \notin raw
               PROVE  staleBase'
    OBVIOUS
  <2>1. e.conn <= conn /\ e.conn \in Nat
    BY <1>1, <1>2
  <2>2. conn' = conn /\ staleBase' = staleBase
    BY <1>1, <2>1
  <2> QED
    BY <1>1, <2>2 DEF QuarantineExact
<1> QED
  BY <1>3, <1>5, <1>6, <1>7, <1>8 DEF ExactInv, QuarantineExact

(* The consumer lets go.                                                   *)
LEMMA LetGoKeeps ==
    ASSUME RefInv, ExactInv, LineInv',
           UNCHANGED <<raw, quarantine, judged, conn, staleBase>>, torn \subseteq torn',
           consumer' # "busy", current' = Blank,
           Identity(current) \in Ids(raw) \cap judged => Identity(current) \in quarantine \cup torn'
    PROVE  ExactInv'
<1>1. JudgedInv /\ QuarantineExact /\ \A e \in quarantine : e.kind = "book" => e.conn <= conn
  BY DEF ExactInv
<1>2. JudgedInv'
  BY <1>1 DEF JudgedInv, InvalidReason, Identity, Blank
<1>3. HandInv'
  BY DEF HandInv
<1>4. (Ids(raw) \cap judged \subseteq quarantine \cup torn \cup {Identity(current)})'
  <2>1. Ids(raw)' = Ids(raw)
    BY DEF Ids, Identity
  <2>2. Ids(raw) \cap judged \subseteq quarantine \cup torn'
    BY <1>1 DEF QuarantineExact
  <2> QED
    BY <2>1, <2>2
<1>5. (\A e \in quarantine : e.kind = "book" /\ e.conn = conn /\ e \notin raw => staleBase)'
  BY <1>1 DEF QuarantineExact
<1>6. (\A e \in quarantine : e.kind = "book" => e.conn <= conn)'
  BY <1>1
<1> QED
  BY <1>2, <1>3, <1>4, <1>5, <1>6 DEF ExactInv, QuarantineExact

(* Blank stands for no envelope and is never judged.                       *)
LEMMA BlankFacts ==
    ASSUME JudgedInv
    PROVE  ~Streamed(Blank) /\ Identity(Blank) = Blank /\ Identity(Blank) \notin judged
<1>1. Identity(Blank) = Blank /\ Blank.kind = "none" /\ ~InvalidReason(Blank)
  BY DEF Identity, Blank, InvalidReason
<1> QED
  BY <1>1 DEF JudgedInv, Streamed

(* Where the checkpoint and the connection stand still, so does the end of *)
(* the line.                                                               *)
Settled == UNCHANGED <<raw, judged, staleBase, cp, conn, epoch, head>>

LEMMA EndStands ==
    ASSUME LineInv, Settled
    PROVE  (~staleBase => UpTo(cp, Now))'
  BY DEF LineInv, Settled, UpTo, Now, Gone, Blank

LEMMA ExactAside ==
    ASSUME RefInv, ExactInv,
           \/ RestPoll \/ RestWait \/ WsStops \/ Shutdown \/ Gathered \/ Ended \/ Publish
           \/ FinalizeReadsQuarantine \/ FinalizeReadsEvents \/ FinalizeCommits \/ UNCHANGED pipeVars
           \/ \E cutoff \in 1 .. MaxFetch + 1 : Purge(cutoff)
    PROVE  ExactInv'
<1>1. /\ UNCHANGED <<quarantine, consumer, todo, current, torn, queue, wsOut>>
      /\ Settled
  <2>1. CASE RestPoll \/ RestWait \/ WsStops
    BY <2>1 DEF RestPoll, RestWait, WsStops, Settled, db, consuming, queueing, venue, history
  <2>2. CASE Shutdown \/ Gathered \/ Ended \/ Publish
    BY <2>2 DEF Shutdown, Gathered, Ended, Publish, Settled, db, consuming, queueing, workers, venue, history
  <2>3. CASE FinalizeReadsQuarantine \/ FinalizeReadsEvents \/ FinalizeCommits
    BY <2>3 DEF FinalizeReadsQuarantine, FinalizeReadsEvents, FinalizeCommits, Settled, db,
       consuming, queueing, workers, venue, history
  <2>4. CASE UNCHANGED pipeVars
    BY <2>4 DEF pipeVars, Settled, db, consuming, queueing, workers, venue, history
  <2>5. CASE \E cutoff \in 1 .. MaxFetch + 1 : Purge(cutoff)
    BY <2>5 DEF Purge, Settled, consuming, queueing, workers, venue, history
  <2> QED
    BY <2>1, <2>2, <2>3, <2>4, <2>5
<1>2. PICK c, q, o : /\ c = current /\ q = queue /\ o = wsOut
                     /\ c = current' /\ q = queue' /\ o = wsOut'
  BY <1>1
<1>3. Line(c, q, o)
  BY <1>2 DEF ExactInv, LineInv
<1>4. Line(c, q, o)'
  BY <1>1, <1>3, LineStands DEF Settled
<1>5. LineInv'
  BY <1>1, <1>2, <1>4, EndStands DEF LineInv, ExactInv
<1>6. conn' \in Nat /\ UNCHANGED <<raw, judged, conn, staleBase>>
  BY <1>1 DEF Settled, RefInv, PipeTyped, LineTyped
<1> QED
  BY <1>1, <1>5, <1>6, CalmKeeps

LEMMA ExactQueueing ==
    ASSUME RefInv, ExactInv, RestPut \/ PutSentinel \/ WsPut
    PROVE  ExactInv'
<1>1. UNCHANGED <<quarantine, consumer, todo, current, torn>> /\ Settled
  BY DEF RestPut, PutSentinel, WsPut, Settled, db, consuming, workers, venue, history
<1>2. PICK q \in Seq(Events), o \in Seq(Events) : q = queue /\ o = wsOut
  BY DEF RefInv, PipeTyped, LineTyped
<1>3. PICK c : c = current /\ c = current'
  BY <1>1
<1>4. Line(c, q, o)
  BY <1>2, <1>3 DEF ExactInv, LineInv
<1>5. Line(c, queue', wsOut')
  <2>1. CASE RestPut \/ PutSentinel
    <3>1. PICK x \in Events : queue' = Append(q, x) /\ ~Streamed(x) /\ wsOut' = o
      <4>1. CASE RestPut
        <5>1. restOut \in Seq(Events) /\ restOut # <<>> /\ \A i \in DOMAIN restOut : restOut[i].kind = "rest"
          BY <4>1 DEF RestPut, RefInv, PipeTyped, LineTyped
        <5>2. PICK x \in Events : x = Head(restOut) /\ x.kind = "rest"
          BY <5>1, TailFacts
        <5> QED
          BY <1>2, <4>1, <5>2 DEF RestPut, Put, Streamed
      <4>2. CASE PutSentinel
        <5>1. Sentinel \in Events /\ ~Streamed(Sentinel)
          BY EventFacts DEF Sentinel, Streamed
        <5>2. queue' = Append(q, Sentinel) /\ wsOut' = o
          BY <1>2, <4>2 DEF PutSentinel, Put, workers
        <5> QED
          BY <5>1, <5>2
      <4> QED
        BY <2>1, <4>1, <4>2
    <3> QED
      BY <1>4, <3>1, LineQueues
  <2>2. CASE WsPut
    <3>1. o # <<>> /\ queue' = Append(q, Head(o)) /\ wsOut' = Tail(o)
      BY <1>2, <2>2 DEF WsPut, Put
    <3> QED
      BY <1>4, <3>1, LineMoves
  <2> QED
    BY <2>1, <2>2
<1>6. PICK p, u : p = queue' /\ u = wsOut'
  OBVIOUS
<1>7. Line(c, p, u)'
  BY <1>1, <1>5, <1>6, LineStands DEF Settled
<1>8. LineInv'
  BY <1>1, <1>3, <1>6, <1>7, EndStands DEF LineInv, ExactInv
<1>9. conn' \in Nat /\ UNCHANGED <<raw, judged, conn, staleBase>>
  BY <1>1 DEF Settled, RefInv, PipeTyped, LineTyped
<1> QED
  BY <1>1, <1>8, <1>9, CalmKeeps

LEMMA ExactOutput ==
    ASSUME RefInv, ExactInv, WsFails \/ QueueJoined \/ WorkerRaises
    PROVE  ExactInv'
<1>1. UNCHANGED <<quarantine, consumer, todo, current, torn, queue>> /\ Settled
  BY DEF WsFails, QueueJoined, WorkerRaises, Close, Settled, db, consuming, queueing, venue, history
<1>2. PICK q, o, c : q = queue /\ o = wsOut /\ q = queue' /\ c = current /\ c = current'
  BY <1>1
<1>3. Line(c, q, o)
  BY <1>2 DEF ExactInv, LineInv
<1>4. Line(c, q, <<>>)
  BY <1>3, LineDrops
<1>5. Line(c, q, wsOut')
  <2>1. CASE WsFails
    <3>1. PICK k \in {"stale", "wsdown"} : wsOut' = <<Control(k)>>
      BY <2>1 DEF WsFails
    <3>2. PICK x \in Events : x = Control(k) /\ ~Streamed(x)
      BY EventFacts DEF Streamed
    <3> QED
      BY <1>4, <3>1, <3>2, LineOf
  <2>2. CASE QueueJoined \/ WorkerRaises
    BY <1>4, <2>2 DEF QueueJoined, WorkerRaises, Close
  <2> QED
    BY <2>1, <2>2
<1>6. PICK u : u = wsOut'
  OBVIOUS
<1>7. Line(c, q, u)'
  BY <1>1, <1>5, <1>6, LineStands DEF Settled
<1>8. LineInv'
  BY <1>1, <1>2, <1>6, <1>7, EndStands DEF LineInv, ExactInv
<1>9. conn' \in Nat /\ UNCHANGED <<raw, judged, conn, staleBase>>
  BY <1>1 DEF Settled, RefInv, PipeTyped, LineTyped
<1> QED
  BY <1>1, <1>8, <1>9, CalmKeeps

LEMMA ExactHands ==
    ASSUME RefInv, ExactInv, StartWorkers \/ ProcessDies \/ Persisted \/ PersistFails
    PROVE  ExactInv'
<1>1. /\ UNCHANGED quarantine /\ Settled /\ torn \subseteq torn'
      /\ consumer' # "busy" /\ current' = Blank
  BY DEF StartWorkers, ProcessDies, Persisted, PersistFails, TaskDone, Settled, db, workers,
     venue, history
<1>2a. PICK q \in Seq(Events) : q = queue
  BY DEF RefInv, PipeTyped, LineTyped
<1>2. PICK o, c : q = queue /\ o = wsOut /\ c = current
  BY <1>2a
<1>3. Line(c, q, o)
  BY <1>2 DEF ExactInv, LineInv
<1>4. Line(Blank, q, o) /\ Line(Blank, <<>>, <<>>)
  BY <1>3, LineReleases, LineDrops
<1>5. Line(Blank, queue', wsOut')
  <2>1. CASE Persisted \/ PersistFails
    BY <1>2, <1>4, <2>1 DEF Persisted, PersistFails, TaskDone, workers
  <2>2. CASE ProcessDies
    BY <1>4, <2>2 DEF ProcessDies
  <2>3. CASE StartWorkers
    <3>1. PICK x \in Events : x = Control("health") /\ ~Streamed(x)
      BY EventFacts DEF Streamed
    <3>2. queue' = <<x>> /\ wsOut' = <<>>
      BY <2>3, <3>1 DEF StartWorkers
    <3>3. <<x>> = Append(<<>>, x) /\ <<>> \in Seq(Events)
      OBVIOUS
    <3> QED
      BY <1>4, <3>1, <3>2, <3>3, LineQueues
  <2> QED
    BY <2>1, <2>2, <2>3
<1>6. PICK p, u, b : p = queue' /\ u = wsOut' /\ b = Blank
  OBVIOUS
<1>7. Line(b, p, u)'
  BY <1>1, <1>5, <1>6, LineStands DEF Settled
<1>8. LineInv'
  BY <1>1, <1>6, <1>7, EndStands DEF LineInv, ExactInv
<1>9. Identity(current) \in Ids(raw) \cap judged => Identity(current) \in quarantine \cup torn'
  <2>0. JudgedInv /\ HandInv /\ HandTyped
    BY DEF ExactInv, RefInv, PipeTyped
  <2>1. CASE consumer # "busy"
    <3>1. current = Blank
      BY <2>0, <2>1 DEF HandTyped
    <3> QED
      BY <2>0, <3>1, BlankFacts
  <2>2. CASE consumer = "busy" /\ Persisted
    <3>1. todo = <<>> /\ WillQuarantine(todo, current) /\ torn' = torn
      BY <2>0, <2>2 DEF HandInv, Persisted, history
    <3>2. DOMAIN <<>> = {}
      OBVIOUS
    <3>3. ~Pending(todo, "quarantine", current)
      BY <3>1, <3>2 DEF Pending
    <3>4. Identity(current) \in Ids(raw) => Stored(raw, current)
      BY DEF Ids, Stored
    <3> QED
      BY <3>1, <3>3, <3>4 DEF WillQuarantine
  <2>3. CASE consumer = "busy" /\ (PersistFails \/ ProcessDies)
    BY <2>3 DEF PersistFails, ProcessDies
  <2>4. CASE consumer = "busy" /\ StartWorkers
    BY <2>0, <2>4 DEF HandTyped, StartWorkers
  <2> QED
    BY <2>1, <2>2, <2>3, <2>4
<1>10. UNCHANGED <<raw, judged, conn, staleBase>>
  BY <1>1 DEF Settled
<1> QED
  BY <1>1, <1>8, <1>9, <1>10, LetGoKeeps

-----------------------------------------------------------------------------
(* What a plan holds: the checkpoint of the stream moves only by stream    *)
(* events, a row unfit for a snapshot is quarantined as well, and an event *)
(* is refused without a row only for its epoch or a conflicting row.       *)
PlanExact(s, e) ==
    /\ MovesOnlyByStream(s, e)
    /\ Pending(s, "raw", e) => Pending(s, "quarantine", e) \/ ~Unfit(e)
    /\ \A i \in DOMAIN s : s[i].op = "quarantine" =>
          \/ OldEpoch(e) \/ Stored(raw, e) \/ e.kind = "rest"
          \/ \E j \in 1 .. (i - 1) : s[j].op = "raw" /\ s[j].event = e

LEMMA RowFirstExact ==
    ASSUME NEW e \in Events, NEW s \in Seq(Writes), s # <<>>, s[1].op = "raw", s[1].event = e,
           Pending(s, "quarantine", e) \/ ~Unfit(e), MovesOnlyByStream(s, e)
    PROVE  PlanExact(s, e)
<1>1. 1 \in DOMAIN s /\ DOMAIN s = 1 .. Len(s) /\ Len(s) \in Nat
  OBVIOUS
<1>2. ASSUME NEW i \in DOMAIN s, s[i].op = "quarantine"
      PROVE  \E j \in 1 .. (i - 1) : s[j].op = "raw" /\ s[j].event = e
  <2>1. i # 1 /\ i \in 1 .. Len(s)
    BY <1>1, <1>2
  <2>2. 1 \in 1 .. (i - 1)
    BY <1>1, <2>1
  <2> QED
    BY <2>2
<1> QED
  BY <1>2 DEF PlanExact

LEMMA BodyIsExact ==
    ASSUME RowsTyped, NEW e \in Events, NEW v \in BOOLEAN
    PROVE  PlanExact(Body(e, v), e)
<1>1. PICK q \in Writes, a \in Writes, x \in Writes :
        /\ q = Write("quarantine", e) /\ a = Write("raw", e) /\ x = Write("experimental", e)
        /\ q.op = "quarantine" /\ a.op = "raw" /\ x.op = "experimental"
        /\ q.event = e /\ a.event = e /\ x.event = e
  BY WriteFacts DEF WriteOps
<1>2. PICK g \in Writes : g = Write("raw", Gap(e)) /\ g.op = "raw" /\ g.event = Gap(e)
  BY WriteFacts, EventFacts DEF WriteOps
<1>3. ASSUME NEW r \in BOOLEAN
      PROVE  \E c \in Writes : c = Checkpoint(e, r) /\ c.op = "checkpoint" /\ c.event = e
  BY WriteFacts
<1>5. PICK s : s = Body(e, v)
  OBVIOUS
<1> SUFFICES PlanExact(s, e)
  BY <1>5
<1>a. CASE s = <<>>
  <2>1. DOMAIN s = {}
    BY <1>a
  <2> QED
    BY <2>1 DEF PlanExact, MovesOnlyByStream, Pending
<1>b. CASE s = <<q>> /\ (OldEpoch(e) \/ \E r \in raw : Identity(r) = Identity(e) /\ r # e)
  <2>1. DOMAIN s = {1} /\ s[1] = q
    BY <1>b
  <2>2. OldEpoch(e) \/ Stored(raw, e)
    BY <1>b DEF Stored
  <2> QED
    BY <1>1, <2>1, <2>2 DEF PlanExact, MovesOnlyByStream, Pending
<1>c. CASE s = <<a, q>>
  <2>1. s \in Seq(Writes) /\ DOMAIN s = 1 .. 2 /\ s[1] = a /\ s[2] = q /\ s # <<>>
    BY <1>c
  <2>2. Pending(s, "quarantine", e) /\ MovesOnlyByStream(s, e)
    BY <1>1, <2>1 DEF MovesOnlyByStream, Pending
  <2> QED
    BY <1>1, <2>1, <2>2, RowFirstExact
<1>d. CASE e.kind = "book" /\ \E r \in BOOLEAN : s = <<a, q, g, Checkpoint(e, r)>>
  <2>0. PICK r \in BOOLEAN : s = <<a, q, g, Checkpoint(e, r)>>
    BY <1>d
  <2>1. PICK c \in Writes : c = Checkpoint(e, r)
    BY <1>3
  <2>2. s \in Seq(Writes) /\ DOMAIN s = 1 .. 4 /\ s[1] = a /\ s[2] = q /\ s # <<>>
    BY <2>0, <2>1
  <2>3. Pending(s, "quarantine", e) /\ MovesOnlyByStream(s, e)
    BY <1>1, <1>d, <2>2 DEF MovesOnlyByStream, Pending
  <2> QED
    BY <1>1, <2>2, <2>3, RowFirstExact
<1>e. CASE e.kind = "book" /\ \E r \in BOOLEAN : s = <<a, q, Checkpoint(e, r)>>
  <2>0. PICK r \in BOOLEAN : s = <<a, q, Checkpoint(e, r)>>
    BY <1>e
  <2>1. PICK c \in Writes : c = Checkpoint(e, r)
    BY <1>3
  <2>2. s \in Seq(Writes) /\ DOMAIN s = 1 .. 3 /\ s[1] = a /\ s[2] = q /\ s # <<>>
    BY <2>0, <2>1
  <2>3. Pending(s, "quarantine", e) /\ MovesOnlyByStream(s, e)
    BY <1>1, <1>e, <2>2 DEF MovesOnlyByStream, Pending
  <2> QED
    BY <1>1, <2>2, <2>3, RowFirstExact
<1>f. CASE ~Unfit(e) /\ e.kind \in {"book", "gone", "rest"} /\ \E r \in BOOLEAN : s = <<a, Checkpoint(e, r)>>
  <2>0. PICK r \in BOOLEAN : s = <<a, Checkpoint(e, r)>>
    BY <1>f
  <2>1. PICK c \in Writes : c = Checkpoint(e, r)
    BY <1>3
  <2>2. s \in Seq(Writes) /\ DOMAIN s = 1 .. 2 /\ s[1] = a /\ s # <<>>
    BY <2>0, <2>1
  <2>3. MovesOnlyByStream(s, e)
    BY <1>f DEF MovesOnlyByStream
  <2> QED
    BY <1>1, <1>f, <2>2, <2>3, RowFirstExact
<1>g. CASE ~Unfit(e) /\ s = <<a>>
  <2>1. s \in Seq(Writes) /\ DOMAIN s = {1} /\ s[1] = a /\ s # <<>>
    BY <1>g
  <2>2. MovesOnlyByStream(s, e)
    BY <1>1, <2>1 DEF MovesOnlyByStream, Pending
  <2> QED
    BY <1>1, <1>g, <2>1, <2>2, RowFirstExact
<1>h. CASE e.kind \in {"book", "rest"} /\ \E r \in BOOLEAN : s = <<x, Checkpoint(e, r)>>
  <2>0. PICK r \in BOOLEAN : s = <<x, Checkpoint(e, r)>>
    BY <1>h
  <2>1. PICK c \in Writes : c = Checkpoint(e, r) /\ c.op = "checkpoint"
    BY <1>3
  <2>2. DOMAIN s = 1 .. 2 /\ s[1] = x /\ s[2] = c
    BY <2>0, <2>1
  <2>3. \A i \in DOMAIN s : s[i].op \notin {"raw", "quarantine"}
    BY <1>1, <2>1, <2>2
  <2> QED
    BY <1>h, <2>3 DEF PlanExact, MovesOnlyByStream, Pending
<1>i. CASE e.kind \in {"book", "rest"} /\ \E r \in BOOLEAN : s = <<Checkpoint(e, r)>>
  <2>0. PICK r \in BOOLEAN : s = <<Checkpoint(e, r)>>
    BY <1>i
  <2>1. PICK c \in Writes : c = Checkpoint(e, r) /\ c.op = "checkpoint"
    BY <1>3
  <2>2. DOMAIN s = {1} /\ s[1] = c
    BY <2>0, <2>1
  <2>3. \A i \in DOMAIN s : s[i].op \notin {"raw", "quarantine"}
    BY <2>1, <2>2
  <2> QED
    BY <1>i, <2>3 DEF PlanExact, MovesOnlyByStream, Pending
<1>j. PersistGap(e) = <<a, q, g, Checkpoint(e, TRUE)>>
  BY <1>1, <1>2 DEF PersistGap
<1> QED
  BY <1>1, <1>5, <1>a, <1>b, <1>c, <1>d, <1>e, <1>f, <1>g, <1>h, <1>i, <1>j, BodyForms

LEMMA PlanIsExact ==
    ASSUME RowsTyped, NEW e \in Events, NEW v \in BOOLEAN
    PROVE  PlanExact(Plan(e, v), e)
<1>1. PICK s \in Seq(Writes) : s = Body(e, v) /\ PlanExact(s, e)
  BY BodySound, BodyIsExact
<1>2. PICK p \in Writes : p = Write("payload", e) /\ p.op = "payload" /\ p.event = e
  BY WriteFacts DEF WriteOps
<1>3. CASE Plan(e, v) = <<>> \o Body(e, v)
  <2>1. <<>> \o s = s
    OBVIOUS
  <2> QED
    BY <1>1, <1>3, <2>1
<1>4. CASE Plan(e, v) = <<Write("payload", e)>> \o Body(e, v) /\ e.kind = "rest"
  <2>1. PICK t : t = <<p>> \o s
    OBVIOUS
  <2>2. <<p>> \in Seq(Writes) /\ Len(<<p>>) = 1 /\ <<p>>[1] = p
    OBVIOUS
  <2>3. /\ DOMAIN t = 1 .. (Len(s) + 1) /\ Len(s) \in Nat
        /\ DOMAIN s = 1 .. Len(s) /\ t[1] = p
        /\ \A i \in DOMAIN s : t[1 + i] = s[i] /\ 1 + i \in DOMAIN t
    <3>1. /\ DOMAIN t = 1 .. (Len(s) + 1) /\ Len(s) \in Nat
          /\ DOMAIN s = 1 .. Len(s) /\ t[1] = p
          /\ \A i \in DOMAIN s : t[1 + i] = s[i]
      BY <2>1, <2>2, ConcatFacts
    <3> QED
      BY <3>1
  <2>4. \A i \in DOMAIN t : i = 1 \/ (i - 1 \in DOMAIN s /\ t[i] = s[i - 1])
    <3> SUFFICES ASSUME NEW i \in DOMAIN t, i # 1
                 PROVE  i - 1 \in DOMAIN s /\ t[i] = s[i - 1]
      OBVIOUS
    <3>1. i - 1 \in DOMAIN s /\ 1 + (i - 1) = i
      BY <2>3
    <3> QED
      BY <2>3, <3>1
  <2>5. \A op \in {"raw", "quarantine", "checkpoint"} : Pending(t, op, e) <=> Pending(s, op, e)
    <3> SUFFICES ASSUME NEW op \in {"raw", "quarantine", "checkpoint"}
                 PROVE  Pending(t, op, e) <=> Pending(s, op, e)
      OBVIOUS
    <3>1. Pending(s, op, e) => Pending(t, op, e)
      BY <2>3 DEF Pending
    <3>2. Pending(t, op, e) => Pending(s, op, e)
      BY <1>2, <2>3, <2>4 DEF Pending
    <3> QED
      BY <3>1, <3>2
  <2>6. PlanExact(t, e)
    BY <1>1, <1>4, <2>5 DEF PlanExact, MovesOnlyByStream
  <2> QED
    BY <1>1, <1>2, <1>4, <2>1, <2>6
<1> QED
  BY <1>3, <1>4, PlanShape

-----------------------------------------------------------------------------
(* The worker brings something new.                                        *)
LEMMA StreamLine ==
    ASSUME NEW e \in Events, NEW q \in Seq(Events), NEW o, Line(e, q, <<>>),
           raw \subseteq Events, judged \subseteq Events,
           UNCHANGED <<raw, judged, staleBase>>, head \in Nat, head' \in Nat, head < head',
           \A x \in Events : UpToNow(x) =>
                UpToNow(x)' /\ \A i \in DOMAIN o : InOrder(x, o[i])',
           InLine(o)', NoneLate(o)',
           \A i \in DOMAIN o : o[i].kind = "book" => o[i].item = head'
    PROVE  Line(e, q, o)'
<1>1. \A i \in DOMAIN q : q[i] \in Events
  OBVIOUS
<1>2. \A x, y : InOrder(x, y)' <=> InOrder(x, y)
  BY DEF InOrder, Streamed, UpTo
<1>3. InLine(q)' /\ Precedes(e, q)'
  BY <1>2 DEF Line, InLine, Precedes
<1>4. UpToNow(e) /\ \A i \in DOMAIN q : UpToNow(q[i])
  BY DEF Line, NoneLate
<1>5. (\A i \in DOMAIN q : Precedes(q[i], o)') /\ Precedes(e, o)'
  BY <1>1, <1>4 DEF Precedes
<1>6. UpToNow(e)' /\ NoneLate(q)'
  BY <1>1, <1>4 DEF NoneLate
<1>7. (\A r \in raw \cup judged : Behind(r, q, o))'
  <2> SUFFICES ASSUME NEW r \in raw \cup judged
               PROVE  Behind(r, q, o)'
    OBVIOUS
  <2>1. Behind(r, q, <<>>) /\ r.item \in Nat
    BY DEF Line, Events
  <2>2. r.kind = "book" => r.item <= head' /\ r.item < head' /\ r.fetch = 0
    BY <2>1 DEF Behind
  <2>3. Passed(r, q)'
    BY <2>1 DEF Behind, Passed
  <2>4. Passed(r, o)'
    BY <2>2 DEF Passed
  <2> QED
    BY <2>2, <2>3, <2>4 DEF Behind
<1> QED
  BY <1>3, <1>5, <1>6, <1>7 DEF Line

LEMMA NowFacts ==
    ASSUME LineTyped
    PROVE  Now.conn = conn /\ Now.epoch = epoch /\ conn \in Nat /\ epoch \in Nat
<1>1. conn \in Nat /\ epoch \in Nat
  BY DEF LineTyped
<1>2. Gone(conn, epoch).conn = conn /\ Gone(conn, epoch).epoch = epoch
  BY <1>1, EventFacts
<1> QED
  BY <1>1, <1>2 DEF Now

LEMMA ExactEvent ==
    ASSUME RefInv, ExactInv, RefInv', NEW n \in head + 1 .. MaxSeq, WsEvent(n)
    PROVE  ExactInv'
<1>1. /\ UNCHANGED <<raw, quarantine, consumer, todo, current, judged, torn, staleBase, cp, conn, epoch, queue>>
      /\ wsOut = <<>>
  BY DEF WsEvent, db, consuming, queueing, history
<1>2. /\ LineTyped /\ RowsTyped /\ head \in Nat /\ conn \in Nat /\ epoch \in Nat /\ cp.epoch \in Nat
      /\ raw \subseteq Events /\ judged \subseteq Events /\ LineTyped'
  BY DEF RefInv, PipeTyped, LineTyped, RowsTyped, Checkpoints, ExactInv, JudgedInv
<1>3. PICK o : o = wsOut' /\ n \in Nat /\ head' = n
           /\ \A i \in DOMAIN o : \/ i = 1 /\ o[i] = Book(conn, epoch, n)
                                  \/ i > 1 /\ o[i].kind = "health"
  BY <1>2, WsEventOut
<1>4. head < head'
  BY <1>2, <1>3
<1>5. PICK b \in Events : /\ b = Book(conn, epoch, n) /\ b.kind = "book" /\ b.conn = conn
                          /\ b.epoch = epoch /\ b.item = n /\ b.fetch = 0
  BY <1>2, <1>3, BookFacts
<1>6. /\ Now.conn = conn /\ Now.epoch = epoch /\ Now' = Now
  BY <1>1, <1>2, NowFacts DEF Now, Gone, Blank
<1>7. ASSUME NEW x \in Events, UpToNow(x)
      PROVE  UpToNow(x)' /\ \A i \in DOMAIN o : InOrder(x, o[i])'
  <2>1. x.item \in Nat
    BY DEF Events
  <2>2. UpToNow(x)'
    BY <1>1, <1>2, <1>3, <1>4, <1>6, <1>7, <2>1 DEF UpToNow, Streamed, UpTo
  <2>3. InOrder(x, b)'
    BY <1>1, <1>2, <1>3, <1>4, <1>5, <1>6, <1>7, <2>1 DEF UpToNow, InOrder, Streamed, UpTo
  <2>4. \A y : y.kind = "health" => InOrder(x, y)'
    BY DEF InOrder, Streamed
  <2> QED
    BY <1>3, <1>5, <2>2, <2>3, <2>4
<1>8. InLine(o)'
  BY <1>3 DEF InLine, InOrder, Streamed
<1>9. NoneLate(o)'
  <2>1. UpToNow(b)'
    BY <1>1, <1>2, <1>3, <1>5, <1>6 DEF UpToNow, UpTo, ExactInv, LineInv
  <2>2. \A y : y.kind = "health" => UpToNow(y)'
    BY DEF UpToNow, Streamed
  <2> QED
    BY <1>3, <1>5, <2>1, <2>2 DEF NoneLate
<1>10. \A i \in DOMAIN o : o[i].kind = "book" => o[i].item = head'
  BY <1>3, <1>5
<1>11. PICK e \in Events, q \in Seq(Events) : e = current /\ q = queue
  BY DEF RefInv, PipeTyped, LineTyped, HandTyped
<1>12. Line(e, q, <<>>)
  BY <1>1, <1>11 DEF ExactInv, LineInv
<1>13. Line(e, q, o)'
  BY <1>1, <1>2, <1>3, <1>4, <1>7, <1>8, <1>9, <1>10, <1>12, StreamLine
<1>14. (~staleBase => UpTo(cp, Now))'
  BY <1>1, <1>6 DEF ExactInv, LineInv, UpTo
<1>15. LineInv'
  BY <1>1, <1>3, <1>11, <1>13, <1>14 DEF LineInv
<1> QED
  BY <1>1, <1>2, <1>15, CalmKeeps

LEMMA ExactReconnect ==
    ASSUME RefInv, ExactInv, RefInv', NEW n \in head + 1 .. MaxSeq, WsReconnect(n)
    PROVE  ExactInv'
<1>1. /\ UNCHANGED <<raw, quarantine, consumer, todo, current, judged, torn, staleBase, cp, queue>>
      /\ wsOut = <<>> /\ conn' = conn + 1 /\ epoch' = epoch + 1
  BY DEF WsReconnect, db, consuming, queueing, history
<1>2. /\ LineTyped /\ RowsTyped /\ head \in Nat /\ conn \in Nat /\ epoch \in Nat /\ cp.epoch \in Nat
      /\ raw \subseteq Events /\ judged \subseteq Events /\ LineTyped'
  BY DEF RefInv, PipeTyped, LineTyped, RowsTyped, Checkpoints, ExactInv, JudgedInv
<1>3. PICK o : /\ o = wsOut' /\ n \in Nat /\ head' = n /\ Len(o) >= 2 /\ DOMAIN o = 1 .. Len(o)
               /\ \A i \in DOMAIN o : \/ i = 1 /\ o[i] = Gone(conn, epoch)
                                      \/ i = Len(o) /\ o[i] = Book(conn + 1, epoch + 1, n)
                                      \/ i # 1 /\ i < Len(o) /\ o[i].kind = "health"
  BY <1>2, WsReconnectOut
<1>4. head < head'
  BY <1>2, <1>3
<1>5. PICK b \in Events : /\ b = Book(conn + 1, epoch + 1, n) /\ b.kind = "book" /\ b.conn = conn + 1
                          /\ b.epoch = epoch + 1 /\ b.item = n /\ b.fetch = 0
  <2>1. conn + 1 \in Nat /\ epoch + 1 \in Nat /\ n \in Nat
    BY <1>2, <1>3
  <2> QED
    BY <2>1, BookFacts
<1>5a. PICK g \in Events : g = Gone(conn, epoch) /\ g.kind = "gone" /\ g.conn = conn /\ g.epoch = epoch
  BY <1>2, EventFacts
<1>6. /\ Now.conn = conn /\ Now.epoch = epoch /\ Now'.conn = conn + 1 /\ Now'.epoch = epoch + 1
  <2>1. Gone(conn + 1, epoch + 1).conn = conn + 1 /\ Gone(conn + 1, epoch + 1).epoch = epoch + 1
    BY <1>2, EventFacts
  <2>2. Now' = Gone(conn + 1, epoch + 1)
    BY <1>1 DEF Now, Gone, Blank
  <2> QED
    BY <1>2, <2>1, <2>2, NowFacts
<1>7. ASSUME NEW x \in Events, UpToNow(x)
      PROVE  UpToNow(x)' /\ \A i \in DOMAIN o : InOrder(x, o[i])'
  <2>1. x.item \in Nat /\ x.conn \in Nat /\ x.epoch \in Nat
    BY DEF Events
  <2>2. UpToNow(x)'
    BY <1>1, <1>2, <1>3, <1>4, <1>6, <1>7, <2>1 DEF UpToNow, Streamed, UpTo
  <2>3. InOrder(x, b)'
    BY <1>1, <1>2, <1>3, <1>4, <1>5, <1>6, <1>7, <2>1 DEF UpToNow, InOrder, Streamed, UpTo
  <2>4. InOrder(x, g)'
    BY <1>1, <1>2, <1>5a, <1>6, <1>7, <2>1 DEF UpToNow, InOrder, Streamed, UpTo
  <2>5. \A y : y.kind = "health" => InOrder(x, y)'
    BY DEF InOrder, Streamed
  <2> QED
    BY <1>3, <1>5, <1>5a, <2>2, <2>3, <2>4, <2>5
<1>8. InLine(o)'
  <2>1. InOrder(g, b)'
    BY <1>2, <1>5, <1>5a DEF InOrder, UpTo
  <2>2. \A y, z : y.kind = "health" => InOrder(y, z)' /\ InOrder(z, y)'
    BY DEF InOrder, Streamed
  <2>3. ASSUME NEW i \in DOMAIN o, NEW j \in DOMAIN o, i < j
        PROVE  InOrder(o[i], o[j])'
    <3>1. CASE o[i].kind = "health" \/ o[j].kind = "health"
      BY <2>2, <3>1
    <3>2. CASE ~(o[i].kind = "health" \/ o[j].kind = "health")
      <4>1. i = 1 /\ j = Len(o)
        BY <1>3, <2>3, <3>2
      <4>2. i # j /\ Len(o) # 1
        BY <1>3, <4>1, <2>3
      <4>3. o[i] = g /\ o[j] = b
        BY <1>3, <1>5, <1>5a, <4>1, <4>2
      <4> QED
        BY <2>1, <4>3
    <3> QED
      BY <3>1, <3>2
  <2> QED
    BY <2>3 DEF InLine
<1>9. NoneLate(o)'
  <2>0. ~staleBase => UpTo(cp, Now)
    BY DEF ExactInv, LineInv
  <2>1. UpToNow(b)'
    BY <1>1, <1>2, <1>3, <1>5, <1>6, <2>0 DEF UpToNow, UpTo
  <2>2. UpToNow(g)'
    BY <1>1, <1>2, <1>5a, <1>6, <2>0 DEF UpToNow, UpTo
  <2>3. \A y : y.kind = "health" => UpToNow(y)'
    BY DEF UpToNow, Streamed
  <2> QED
    BY <1>3, <1>5, <1>5a, <2>1, <2>2, <2>3 DEF NoneLate
<1>10. \A i \in DOMAIN o : o[i].kind = "book" => o[i].item = head'
  BY <1>3, <1>5, <1>5a
<1>11. PICK e \in Events, q \in Seq(Events) : e = current /\ q = queue
  BY DEF RefInv, PipeTyped, LineTyped, HandTyped
<1>12. Line(e, q, <<>>)
  BY <1>1, <1>11 DEF ExactInv, LineInv
<1>13. Line(e, q, o)'
  BY <1>1, <1>2, <1>3, <1>4, <1>7, <1>8, <1>9, <1>10, <1>12, StreamLine
<1>14. (~staleBase => UpTo(cp, Now))'
  BY <1>1, <1>2, <1>6 DEF ExactInv, LineInv, UpTo
<1>15. LineInv'
  BY <1>1, <1>3, <1>11, <1>13, <1>14 DEF LineInv
<1>16. conn' \in Nat /\ conn' > conn
  BY <1>1, <1>2
<1> QED
  BY <1>1, <1>15, <1>16, CalmKeeps

LEMMA ExactConnect ==
    ASSUME RefInv, ExactInv, WsConnect
    PROVE  ExactInv'
<1>1. /\ UNCHANGED <<raw, quarantine, consumer, todo, current, judged, torn, cp, queue, wsOut, head>>
      /\ wsOut = <<>> /\ conn' = conn + 1 /\ epoch' = cp.epoch + 1
      /\ staleBase' = (BookEvents(queue) # {} \/ current.kind \in {"book", "gone"})
  BY DEF WsConnect, db, consuming, queueing, venue, history
<1>2. conn \in Nat /\ cp.epoch \in Nat /\ head \in Nat
  BY DEF RefInv, PipeTyped, LineTyped, RowsTyped, Checkpoints
<1>3a. PICK e \in Events, q \in Seq(Events) : e = current /\ q = queue
  BY DEF RefInv, PipeTyped, LineTyped, HandTyped
<1>3. PICK o : e = current /\ q = queue /\ o = wsOut
  BY <1>3a
<1>4. Line(e, q, o) /\ DOMAIN o = {}
  BY <1>1, <1>3 DEF ExactInv, LineInv
<1>5. ~staleBase' => ~Streamed(e) /\ \A i \in DOMAIN q : ~Streamed(q[i])
  BY <1>1, <1>3 DEF BookEvents, Streamed
<1>6. InLine(q)' /\ InLine(o)'
  BY <1>4, <1>5 DEF Line, InLine, InOrder
<1>7. (\A i \in DOMAIN q : Precedes(q[i], o)') /\ Precedes(e, q)' /\ Precedes(e, o)'
  BY <1>4, <1>5 DEF Line, Precedes, InOrder
<1>8. \A x \in Events : x.conn \in Nat
  BY DEF Events
<1>9. UpToNow(e)'
  BY <1>1, <1>2, <1>4, <1>5, <1>8 DEF Line, UpToNow
<1>10. NoneLate(q)' /\ NoneLate(o)'
  <2>1. ASSUME NEW i \in DOMAIN q
        PROVE  UpToNow(q[i])'
    <3>1. q[i] \in Events /\ q[i].conn \in Nat /\ UpToNow(q[i])
      BY <1>4, <1>8 DEF Line, NoneLate
    <3> QED
      BY <1>1, <1>2, <1>5, <3>1 DEF UpToNow
  <2> QED
    BY <1>4, <2>1 DEF NoneLate
<1>11. (\A r \in raw \cup judged : Behind(r, q, o))'
  BY <1>1, <1>4 DEF Line, Behind, Passed
<1>12. Line(e, q, o)'
  BY <1>6, <1>7, <1>9, <1>10, <1>11 DEF Line
<1>13. (~staleBase => UpTo(cp, Now))'
  <2>1. Gone(conn + 1, cp.epoch + 1).epoch = cp.epoch + 1
    BY <1>2, EventFacts
  <2>2. Now' = Gone(conn + 1, cp.epoch + 1)
    BY <1>1 DEF Now, Gone, Blank
  <2> QED
    BY <1>1, <1>2, <2>1, <2>2 DEF UpTo
<1>14. LineInv'
  BY <1>1, <1>3, <1>12, <1>13 DEF LineInv
<1>15. conn' \in Nat /\ conn' > conn
  BY <1>1, <1>2
<1>16. Streamed(current) => staleBase' = TRUE
  <2>1. staleBase' \in BOOLEAN
    BY <1>1
  <2>2. Streamed(current) => staleBase'
    BY <1>1 DEF Streamed
  <2> QED
    BY <2>1, <2>2
<1> QED
  BY <1>1, <1>14, <1>15, <1>16, CalmKeeps

-----------------------------------------------------------------------------
(* The consumer takes an envelope.                                         *)
(* The event in hand may join the rows: it is before all that follows.     *)
LEMMA InHandIsBehind ==
    ASSUME NEW e, NEW q, NEW o, Line(e, q, o)
    PROVE  Behind(e, q, o)
<1>1. e.kind = "book" => e.item <= head /\ e.fetch = 0
  BY DEF Line, UpToNow, Streamed
<1>2. Passed(e, q) /\ Passed(e, o)
  BY DEF Line, Precedes, InOrder, Streamed, Passed
<1> QED
  BY <1>1, <1>2 DEF Behind

LEMMA IdentityIsBehind ==
    ASSUME NEW e \in Events, NEW q, NEW o, Behind(e, q, o)
    PROVE  Behind(Identity(e), q, o)
  BY IdentityFacts DEF Behind, Passed

LEMMA JudgedIdentity ==
    ASSUME NEW e \in Events
    PROVE  (InvalidReason(Identity(e)) <=> InvalidReason(e)) /\ (Identity(e).kind = e.kind)
  BY IdentityFacts DEF InvalidReason

LEMMA ExactTake ==
    ASSUME RefInv, ExactInv, Take
    PROVE  ExactInv'
<1>1. /\ UNCHANGED <<raw, quarantine, torn, cp, conn, epoch, head, staleBase, wsOut>>
      /\ queue # <<>> /\ queue' = Tail(queue) /\ consumer = "idle"
  BY DEF Take, db, workers, venue
<1>2. /\ raw \subseteq Events /\ judged \subseteq Events /\ current = Blank /\ RowsTyped
      /\ JudgedInv /\ QuarantineExact /\ LineInv
      /\ \A x \in quarantine : x.kind = "book" => x.conn <= conn
  BY <1>1 DEF RefInv, PipeTyped, RowsTyped, HandTyped, ExactInv, JudgedInv
<1>3a. PICK q \in Seq(Events) : q = queue /\ q # <<>>
  BY <1>1 DEF RefInv, PipeTyped, LineTyped
<1>3. PICK o : q = queue /\ o = wsOut /\ q # <<>>
  BY <1>3a
<1>4a. PICK e \in Events : e = Head(q)
  BY <1>3, TailFacts
<1>4. PICK t : e = Head(q) /\ t = Tail(q)
  BY <1>4a
<1>5. /\ Line(e, t, o) /\ Line(Blank, t, o) /\ UpToNow(e)
      /\ \A r \in raw \cup judged : r.kind = "book" /\ e.kind = "book" => r.item < e.item
  <2>1. Line(Blank, q, o)
    BY <1>2, <1>3 DEF LineInv
  <2> QED
    BY <1>3, <1>4, <2>1, LineTakes
<1>6. (~staleBase => UpTo(cp, Now))'
  BY <1>1, <1>2 DEF LineInv, UpTo, Now, Gone, Blank
<1>7. CASE e = Sentinel
  <2>1. consumer' = "ended" /\ current' = Blank /\ judged' = judged
    BY <1>2, <1>3, <1>4, <1>7 DEF Take
  <2>2. PICK b : b = Blank
    OBVIOUS
  <2>3. Line(b, t, o)'
    BY <1>1, <1>5, <2>1, <2>2, LineStands
  <2>4. LineInv'
    BY <1>1, <1>3, <1>4, <1>6, <2>1, <2>2, <2>3 DEF LineInv
  <2>5. Identity(current) \notin judged
    BY <1>2, BlankFacts
  <2> QED
    BY <1>1, <2>1, <2>4, <2>5, LetGoKeeps
<1>8. CASE e # Sentinel
  <2>1. /\ consumer' = "busy" /\ current' = e /\ \E v \in Verdicts : todo' = Plan(e, v)
        /\ judged' = IF Unfit(e) THEN judged \cup {Identity(e)} ELSE judged
    BY <1>3, <1>4, <1>8 DEF Take
  <2>2a. PICK v \in BOOLEAN : todo' = Plan(e, v)
    BY <2>1, PipelineAssumption
  <2>2. PICK s : s = Plan(e, v) /\ todo' = s
    BY <2>2a
  <2>3. PlanExact(s, e)
    BY <1>2, <2>2, PlanIsExact
  <2>4. Identity(e) \in Events /\ Identity(e).kind = e.kind /\ Identity(e).item = e.item /\ e.item \in Nat
    BY IdentityFacts DEF Events
  <2>5. e.kind = "book" => ~Stored(raw, e) /\ Identity(e) \notin judged
    <3>1. ASSUME e.kind = "book", NEW r \in raw, Identity(r) = Identity(e)
          PROVE  FALSE
      <4>1. r \in Events /\ r.kind = e.kind /\ r.item = e.item
        BY <1>2, <3>1, IdentityFacts
      <4> QED
        BY <1>5, <2>4, <3>1, <4>1
    <3>2. e.kind = "book" => Identity(e) \notin judged
      BY <1>5, <2>4
    <3> QED
      BY <3>1, <3>2 DEF Stored
  <2>6. Unfit(e) => e.kind = "book" \/ InvalidReason(e)
    BY DEF Unfit
  <2>7. InvalidReason(e) /\ Stored(raw, e) => Identity(e) \in judged
    <3> SUFFICES ASSUME InvalidReason(e), NEW r \in raw, Identity(r) = Identity(e)
                 PROVE  Identity(e) \in judged
      BY DEF Stored
    <3>1. r \in Events /\ InvalidReason(r)
      BY <1>2, JudgedIdentity
    <3> QED
      BY <1>2, <3>1 DEF JudgedInv
  <2>8. Ids(raw) \cap judged \subseteq quarantine \cup torn
    <3>1. Identity(current) \notin judged
      BY <1>2, BlankFacts
    <3> QED
      BY <1>2, <3>1 DEF QuarantineExact
  <2>9. Stored(raw, e) => Identity(e) \in Ids(raw)
    BY DEF Stored, Ids
  <2>10. Stored(raw, e) /\ Identity(e) \in judged' => Identity(e) \in quarantine \cup torn
    BY <2>1, <2>5, <2>6, <2>7, <2>8, <2>9
  <2>11. ~Unfit(e) => Identity(e) \notin judged'
    <3> SUFFICES ASSUME ~Unfit(e), Identity(e) \in judged
                 PROVE  FALSE
      BY <2>1
    <3>1. e.kind = "book" \/ InvalidReason(e)
      BY <1>2, <2>4, JudgedIdentity DEF JudgedInv
    <3> QED
      BY <2>5, <3>1 DEF Unfit
  <2>12. WillQuarantine(s, e)'
    <3>1. Identity(e) \in judged' /\ (Stored(raw, e) \/ Pending(s, "raw", e)) =>
             Identity(e) \in quarantine \cup torn \/ Pending(s, "quarantine", e)
      BY <2>3, <2>10, <2>11 DEF PlanExact
    <3> QED
      BY <1>1, <3>1 DEF WillQuarantine, Pending, Stored, Identity
  <2>13. MovesOnlyByStream(s, e)'
    BY <2>3 DEF PlanExact, MovesOnlyByStream, Pending
  <2>14. e.kind = "book" /\ ~staleBase' => RowBeforeQuarantine(s, e)'
    <3> SUFFICES ASSUME e.kind = "book", ~staleBase
                 PROVE  \A i \in DOMAIN s : s[i].op = "quarantine" =>
                            \E j \in 1 .. (i - 1) : s[j].op = "raw" /\ s[j].event = e
      BY <1>1 DEF RowBeforeQuarantine
    <3>1. UpTo(cp, e) /\ cp.epoch \in Nat /\ e.epoch \in Nat
      BY <1>2, <1>5 DEF UpToNow, Streamed, RowsTyped, Checkpoints, Events
    <3>2. ~OldEpoch(e)
      BY <3>1 DEF OldEpoch, UpTo
    <3> QED
      BY <2>3, <2>5, <3>2 DEF PlanExact
  <2>15. HandInv'
    BY <2>1, <2>2, <2>12, <2>13, <2>14 DEF HandInv
  <2>16. JudgedInv'
    <3>1. judged' \subseteq Events /\ judged \subseteq judged' /\ judged' \subseteq judged \cup {Identity(e)}
      BY <1>2, <2>1, <2>4
    <3>2. \A r \in judged' : r.kind = "book" \/ InvalidReason(r)
      BY <1>2, <2>1, <2>4, <2>6, JudgedIdentity DEF JudgedInv
    <3>3. InvalidReason(e) => Identity(e) \in judged'
      BY <2>1 DEF Unfit
    <3>4. \A r \in raw : InvalidReason(r) => Identity(r) \in judged'
      BY <1>2, <3>1 DEF JudgedInv
    <3> QED
      BY <1>1, <2>1, <3>1, <3>2, <3>3, <3>4 DEF JudgedInv, InvalidReason, Identity
  <2>17. LineInv'
    <3>1. Behind(Identity(e), t, o)
      BY <1>5, InHandIsBehind, IdentityIsBehind
    <3>2. \A r \in raw' \cup judged' : Behind(r, t, o)
      BY <1>1, <1>5, <2>1, <3>1 DEF Line
    <3>3. Line(e, t, o)'
      BY <1>1, <1>5, <3>2, LineGrows
    <3> QED
      BY <1>1, <1>3, <1>4, <1>6, <2>1, <3>3 DEF LineInv
  <2>18. QuarantineExact'
    <3>1. Ids(raw) \cap judged' \subseteq quarantine \cup torn \cup {Identity(e)}
      BY <2>1, <2>8
    <3>2. Ids(raw)' = Ids(raw) /\ Identity(current)' = Identity(e)
      BY <1>1, <2>1 DEF Ids, Identity
    <3>3. (Ids(raw) \cap judged \subseteq quarantine \cup torn \cup {Identity(current)})'
      BY <1>1, <3>1, <3>2
    <3> QED
      BY <1>1, <1>2, <3>3 DEF QuarantineExact
  <2> QED
    BY <1>1, <1>2, <2>15, <2>16, <2>17, <2>18 DEF ExactInv
<1> QED
  BY <1>7, <1>8

-----------------------------------------------------------------------------
(* The checkpoint moves to the event in hand, which nothing in the line    *)
(* precedes.                                                               *)
LEMMA LineFollows ==
    ASSUME NEW e \in Events, NEW q, NEW o, Line(e, q, o), Streamed(e),
           UNCHANGED <<raw, judged, staleBase, conn, epoch, head>>,
           cp.epoch \in Nat, cp'.conn = e.conn, cp'.epoch \in {e.epoch, cp.epoch},
           cp'.epoch >= e.epoch, cp'.epoch >= cp.epoch
    PROVE  Line(e, q, o)' /\ (~staleBase => UpTo(cp, Now))'
<1>1. e.epoch \in Nat
  BY DEF Events
<1>2. UpToNow(e)
  BY DEF Line
<1>3. ~staleBase => cp'.epoch = e.epoch /\ cp'.conn = e.conn
  BY <1>1, <1>2 DEF UpToNow, UpTo
<1>4. Now' = Now
  BY DEF Now, Gone, Blank
<1>5. \A x : ~staleBase => (UpTo(cp, x)' <=> UpTo(e, x))
  BY <1>3 DEF UpTo
<1>6. \A x, y : InOrder(x, y)' <=> InOrder(x, y)
  BY DEF InOrder, Streamed, UpTo
<1>7. \A x : UpToNow(x) /\ InOrder(e, x) => UpToNow(x)'
  <2> SUFFICES ASSUME NEW x, UpToNow(x), InOrder(e, x), Streamed(x)
               PROVE  /\ x.conn <= conn' /\ (x.kind = "book" => x.item <= head' /\ x.fetch = 0)
                      /\ ~staleBase' => UpTo(cp, x)' /\ UpTo(x, Now)'
    BY DEF UpToNow, Streamed
  <2>1. x.conn <= conn' /\ (x.kind = "book" => x.item <= head' /\ x.fetch = 0)
    BY DEF UpToNow
  <2>2. ~staleBase => UpTo(e, x) /\ UpTo(x, Now)
    BY DEF UpToNow, InOrder
  <2>3. UpTo(x, Now)' <=> UpTo(x, Now)
    BY <1>4 DEF UpTo
  <2> QED
    BY <1>5, <2>1, <2>2, <2>3
<1>8. UpToNow(e)'
  <2>1. ~staleBase => UpTo(cp, e)' /\ UpTo(e, Now)'
    BY <1>2, <1>3, <1>4 DEF UpTo, UpToNow
  <2> QED
    BY <1>2, <2>1 DEF UpToNow, Streamed
<1>9. NoneLate(q)' /\ NoneLate(o)'
  BY <1>7 DEF Line, NoneLate, Precedes
<1>10. InLine(q)' /\ InLine(o)'
  BY <1>6 DEF InLine, Line
<1>11. /\ \A i \in DOMAIN q : Precedes(q[i], o)'
       /\ Precedes(e, q)' /\ Precedes(e, o)'
  BY <1>6 DEF Precedes, Line
<1>12. (\A r \in raw \cup judged : Behind(r, q, o))'
  BY DEF Line, Behind, Passed
<1>13. Line(e, q, o)'
  BY <1>8, <1>9, <1>10, <1>11, <1>12 DEF Line
<1>14. (~staleBase => UpTo(cp, Now))'
  BY <1>2, <1>3, <1>4 DEF UpToNow, UpTo
<1> QED
  BY <1>13, <1>14

LEMMA ExactPersist ==
    ASSUME RefInv, ExactInv, Persist
    PROVE  ExactInv'
<1>1. /\ RowsTyped /\ LineTyped /\ HandTyped /\ LineInv /\ JudgedInv /\ HandInv /\ QuarantineExact
      /\ consumer = "busy" /\ todo # <<>> /\ Apply(Head(todo)) /\ todo' = Tail(todo)
      /\ \A x \in quarantine : x.kind = "book" => x.conn <= conn
      /\ Ordered(todo, current) /\ raw \subseteq Events /\ judged \subseteq Events /\ cp.epoch \in Nat
  BY DEF RefInv, PipeTyped, RowsTyped, Checkpoints, Persist, ExactInv, JudgedInv
<1>2. UNCHANGED <<consumer, current, queue, wsOut, conn, epoch, head, staleBase, judged, torn>>
  BY DEF Persist, queueing, workers, venue, history
<1>3. PICK s \in Seq(Writes) : s = todo /\ s # <<>>
  BY <1>1 DEF HandTyped
<1>4. PICK e \in Events : e = current
  BY <1>1 DEF HandTyped
<1>5. PICK w \in Writes : w = Head(s) /\ w = s[1]
  BY <1>3, TailFacts
<1>6a. /\ Tail(s) \in Seq(Writes) /\ DOMAIN s = 1 .. Len(s) /\ Len(s) \in Nat /\ 1 \in DOMAIN s
       /\ DOMAIN Tail(s) = 1 .. (Len(s) - 1)
       /\ \A i \in DOMAIN Tail(s) : i + 1 \in DOMAIN s /\ Tail(s)[i] = s[i + 1]
  BY <1>3, TailFacts
<1>6b. PICK t : t = Tail(s)
  OBVIOUS
<1>6. /\ DOMAIN s = 1 .. Len(s) /\ Len(s) \in Nat /\ 1 \in DOMAIN s
      /\ DOMAIN t = 1 .. (Len(s) - 1)
      /\ \A i \in DOMAIN t : i + 1 \in DOMAIN s /\ t[i] = s[i + 1]
  BY <1>6a, <1>6b
<1>7. PICK q, o : q = queue /\ o = wsOut /\ q = queue' /\ o = wsOut'
  BY <1>2
<1>8. /\ Apply(w) /\ todo' = t /\ current' = e /\ Line(e, q, o)
      /\ WillQuarantine(s, e) /\ MovesOnlyByStream(s, e)
      /\ e.kind = "book" /\ ~staleBase => RowBeforeQuarantine(s, e)
      /\ Ordered(s, e) /\ UpToNow(e)
  BY <1>1, <1>2, <1>3, <1>4, <1>5, <1>6b, <1>7 DEF HandInv, LineInv, Line
<1>9. /\ raw \subseteq raw' /\ quarantine \subseteq quarantine'
      /\ raw' \subseteq Events /\ raw' \subseteq raw \cup {w.event}
      /\ w.op # "raw" => raw' = raw
      /\ w.op = "raw" => Stored(raw, w.event)'
      /\ quarantine' \subseteq quarantine \cup {Identity(w.event)}
      /\ w.op # "quarantine" => quarantine' = quarantine
      /\ w.op = "quarantine" => Identity(w.event) \in quarantine'
      /\ w.op # "checkpoint" => cp' = cp
  BY <1>1, <1>8, ApplyGrows
<1>10. w.event = e \/ (w.op = "raw" /\ w.event = Gap(e))
  BY <1>5, <1>6, <1>8 DEF Ordered
<1>11. Gap(e) \in Events /\ Gap(e).kind = "gap" /\ Identity(Gap(e)).kind = "gap"
  BY EventFacts, IdentityFacts
<1>12. \A r \in judged : r.kind # "gap"
  BY <1>1 DEF JudgedInv, InvalidReason
<1>13. ~InvalidReason(Gap(e)) /\ Behind(Gap(e), q, o)
  BY <1>11 DEF InvalidReason, Behind, Passed
<1>14. \A i \in DOMAIN s : i = 1 \/ (i - 1 \in DOMAIN t /\ t[i - 1] = s[i] /\ i \in Nat)
  <2> SUFFICES ASSUME NEW i \in DOMAIN s, i # 1
               PROVE  i - 1 \in DOMAIN t /\ t[i - 1] = s[i] /\ i \in Nat
    OBVIOUS
  <2>1. i - 1 \in DOMAIN t /\ (i - 1) + 1 = i /\ i \in Nat
    BY <1>6
  <2> QED
    BY <1>6, <2>1
<1>15. \A op : Pending(t, op, e) => Pending(s, op, e)
  BY <1>6 DEF Pending
<1>16. LineInv'
  <2>1. CASE cp' = cp
    <3>1. \A r \in raw' \cup judged' : Behind(r, q, o)
      <4>1. Behind(e, q, o)
        BY <1>8, InHandIsBehind
      <4> QED
        BY <1>2, <1>8, <1>9, <1>10, <1>13, <4>1 DEF Line
    <3>2. Line(e, q, o)'
      BY <1>2, <1>8, <2>1, <3>1, LineGrows
    <3>3. (~staleBase => UpTo(cp, Now))'
      BY <1>1, <1>2, <2>1 DEF LineInv, UpTo, Now, Gone, Blank
    <3> QED
      BY <1>7, <1>8, <3>2, <3>3 DEF LineInv
  <2>2. CASE cp' # cp
    <3>1. w.op = "checkpoint" /\ w.event = e
      BY <1>9, <1>10, <2>2
    <3>2. /\ e.kind # "rest" /\ cp'.conn = e.conn
          /\ cp'.epoch >= e.epoch /\ cp'.epoch >= cp.epoch
          /\ cp'.epoch \in {e.epoch, cp.epoch}
      BY <1>1, <1>8, <2>2, <3>1, CheckpointSaved
    <3>3. Pending(s, "checkpoint", e)
      BY <1>5, <1>6, <3>1 DEF Pending
    <3>4. Streamed(e)
      BY <1>8, <3>2, <3>3 DEF MovesOnlyByStream, Streamed
    <3>5. raw' = raw
      BY <1>9, <3>1
    <3>6. Line(e, q, o)' /\ (~staleBase => UpTo(cp, Now))'
      BY <1>1, <1>2, <1>8, <3>2, <3>4, <3>5, LineFollows
    <3> QED
      BY <1>7, <1>8, <3>6 DEF LineInv
  <2> QED
    BY <2>1, <2>2
<1>17. JudgedInv'
  <2>1. \A r \in raw' : InvalidReason(r) => Identity(r) \in judged
    BY <1>1, <1>4, <1>9, <1>10, <1>13 DEF JudgedInv
  <2> QED
    BY <1>1, <1>2, <2>1 DEF JudgedInv, InvalidReason, Identity
<1>18. WillQuarantine(t, e)'
  <2> SUFFICES ASSUME Identity(e) \in judged, Stored(raw, e)' \/ Pending(t, "raw", e)
               PROVE  Identity(e) \in quarantine' \cup torn \/ Pending(t, "quarantine", e)
    BY <1>2 DEF WillQuarantine, Pending, Identity
  <2>1. Stored(raw, e)' => Stored(raw, e) \/ Pending(s, "raw", e)
    <3> SUFFICES ASSUME NEW r \in raw', Identity(r) = Identity(e), ~Stored(raw, e)
                 PROVE  Pending(s, "raw", e)
      BY DEF Stored, Identity
    <3>1. r \notin raw
      BY DEF Stored
    <3>2. r = w.event /\ w.op = "raw"
      BY <1>9, <3>1
    <3>3. w.event = e
      BY <1>10, <1>11, <1>12, <3>2
    <3> QED
      BY <1>5, <1>6, <3>2, <3>3 DEF Pending
  <2>2. Identity(e) \in quarantine \cup torn \/ Pending(s, "quarantine", e)
    BY <1>8, <1>15, <2>1 DEF WillQuarantine
  <2>3. ASSUME NEW i \in DOMAIN s, s[i].op = "quarantine", s[i].event = e
        PROVE  Identity(e) \in quarantine' \/ Pending(t, "quarantine", e)
    <3>1. CASE i = 1
      BY <1>5, <1>9, <2>3, <3>1
    <3>2. CASE i # 1
      BY <1>14, <2>3, <3>2 DEF Pending
    <3> QED
      BY <3>1, <3>2
  <2> QED
    BY <1>9, <2>2, <2>3 DEF Pending
<1>19. MovesOnlyByStream(t, e)'
  BY <1>8, <1>15 DEF MovesOnlyByStream, Pending
<1>20. e.kind = "book" => e.fetch = 0 /\ Identity(e) = e /\ e.conn <= conn
  BY <1>8, IdentityFacts DEF UpToNow, Streamed
<1>21. e.kind = "book" /\ w.op = "raw" /\ w.event = e => e \in raw'
  <2> SUFFICES ASSUME e.kind = "book", w.op = "raw", w.event = e
               PROVE  e \in raw'
    OBVIOUS
  <2>1. Stored(raw, e)'
    BY <1>9
  <2>2. PICK r \in raw' : Identity(r) = Identity(e)
    BY <2>1 DEF Stored, Identity
  <2>3. CASE r = e
    BY <2>3
  <2>4. CASE r # e
    <3>1. r \in raw /\ r \in Events /\ Behind(r, q, o)
      BY <1>1, <1>8, <1>9, <2>4 DEF Line
    <3>2. r.kind = "book"
      BY <2>2, <3>1, IdentityFacts
    <3>3. r.fetch = 0
      BY <3>1, <3>2 DEF Behind
    <3>4. Identity(r) = r
      BY <3>1, <3>3, IdentityFacts
    <3> QED
      BY <1>20, <2>2, <3>4
  <2> QED
    BY <2>3, <2>4
<1>22. e.kind = "book" /\ ~staleBase' => RowBeforeQuarantine(t, e)'
  <2> SUFFICES ASSUME e.kind = "book", ~staleBase, NEW i \in DOMAIN t, t[i].op = "quarantine"
               PROVE  e \in raw' \/ \E j \in 1 .. (i - 1) : t[j].op = "raw" /\ t[j].event = e
    BY <1>2 DEF RowBeforeQuarantine
  <2>1. i + 1 \in DOMAIN s /\ t[i] = s[i + 1] /\ i \in Nat
    BY <1>6
  <2>2. e \in raw \/ \E j \in 1 .. ((i + 1) - 1) : s[j].op = "raw" /\ s[j].event = e
    BY <1>8, <2>1 DEF RowBeforeQuarantine
  <2>3. ASSUME NEW j \in 1 .. ((i + 1) - 1), s[j].op = "raw", s[j].event = e
        PROVE  e \in raw' \/ \E k \in 1 .. (i - 1) : t[k].op = "raw" /\ t[k].event = e
    <3>1. CASE j = 1
      BY <1>5, <1>21, <2>3, <3>1
    <3>2. CASE j # 1
      <4>1. j - 1 \in 1 .. (i - 1) /\ j \in DOMAIN s
        BY <1>6, <2>1, <3>2
      <4>2. t[j - 1] = s[j]
        BY <1>14, <3>2, <4>1
      <4> QED
        BY <2>3, <4>1, <4>2
    <3> QED
      BY <3>1, <3>2
  <2> QED
    BY <1>9, <2>2, <2>3
<1>23. HandInv'
  BY <1>8, <1>18, <1>19, <1>22 DEF HandInv
<1>24. \A x \in quarantine' : x \in quarantine \/ (w.op = "quarantine" /\ w.event = e /\ x = Identity(e))
  BY <1>9, <1>10
<1>25. (\A x \in quarantine : x.kind = "book" => x.conn <= conn)'
  <2>1. Identity(e).kind = e.kind /\ Identity(e).conn = e.conn
    BY IdentityFacts
  <2> QED
    BY <1>1, <1>2, <1>20, <1>24, <2>1
<1>26. QuarantineExact'
  <2>1. ASSUME NEW r \in raw', Identity(r) \in judged
        PROVE  Identity(r) \in quarantine' \cup torn' \cup {Identity(e)}
    <3>1. CASE r \in raw
      BY <1>1, <1>2, <1>4, <1>9, <2>1, <3>1 DEF QuarantineExact, Ids
    <3>2. CASE r \notin raw
      BY <1>9, <1>10, <1>11, <1>12, <2>1, <3>2
    <3> QED
      BY <3>1, <3>2
  <2>2. (Ids(raw) \cap judged \subseteq quarantine \cup torn \cup {Identity(current)})'
    <3>1. Identity(current)' = Identity(e)
      BY <1>8 DEF Identity
    <3>2. Ids(raw)' = {Identity(r) : r \in raw'}
      BY DEF Ids, Identity
    <3> QED
      BY <1>2, <2>1, <3>1, <3>2
  <2>3. ASSUME NEW x \in quarantine', x.kind = "book", x.conn = conn', x \notin raw'
        PROVE  staleBase'
    <3>1. CASE x \in quarantine
      BY <1>1, <1>2, <1>9, <2>3, <3>1 DEF QuarantineExact
    <3>2. CASE w.op = "quarantine" /\ w.event = e /\ x = Identity(e)
      <4>1. e.kind = "book" /\ x = e
        BY <1>20, <2>3, <3>2, IdentityFacts
      <4>2. e \notin raw
        BY <1>9, <2>3, <4>1
      <4>3. ~staleBase => e \in raw \/ \E j \in 1 .. (1 - 1) : s[j].op = "raw" /\ s[j].event = e
        BY <1>5, <1>6, <1>8, <3>2, <4>1 DEF RowBeforeQuarantine
      <4> QED
        BY <1>2, <4>2, <4>3
    <3> QED
      BY <1>24, <3>1, <3>2
  <2> QED
    BY <2>2, <2>3 DEF QuarantineExact
<1> QED
  BY <1>16, <1>17, <1>23, <1>25, <1>26 DEF ExactInv

LEMMA ExactInitially == PipeInit => ExactInv
<1> SUFFICES ASSUME PipeInit PROVE ExactInv
  OBVIOUS
<1>1. /\ raw = {} /\ judged = {} /\ quarantine = {} /\ queue = <<>> /\ wsOut = <<>>
      /\ current = Blank /\ consumer = "idle" /\ cp = NoCheckpoint /\ conn = 0 /\ epoch = 0
  BY DEF PipeInit
<1>2. ~Streamed(Blank) /\ DOMAIN <<>> = {} /\ ~InvalidReason(Blank)
  BY DEF Streamed, Blank, InvalidReason
<1>3. Line(current, queue, wsOut)
  BY <1>1, <1>2 DEF Line, InLine, Precedes, NoneLate, UpToNow
<1>4. UpTo(cp, Now)
  <2>1. cp.epoch = 0 /\ cp.conn = 0
    BY <1>1 DEF NoCheckpoint
  <2>2. Now.epoch = 0 /\ Now.conn = 0
    BY <1>1 DEF Now, Gone, Blank
  <2> QED
    BY <2>1, <2>2 DEF UpTo
<1>5. JudgedInv /\ HandInv /\ QuarantineExact
  BY <1>1, <1>2 DEF JudgedInv, HandInv, QuarantineExact, Ids
<1> QED
  BY <1>1, <1>3, <1>4, <1>5 DEF ExactInv, LineInv

LEMMA ExactStep == RefInv /\ ExactInv /\ [PipeNext]_pipeVars => ExactInv'
<1> SUFFICES ASSUME RefInv, ExactInv, [PipeNext]_pipeVars PROVE ExactInv'
  OBVIOUS
<1>1. RefInv'
  BY PipeStep
<1>2. CASE \E n \in head + 1 .. MaxSeq : WsEvent(n) \/ WsReconnect(n)
  BY <1>1, <1>2, ExactEvent, ExactReconnect
<1>3. CASE UNCHANGED pipeVars \/ Finished
  BY <1>3, ExactAside DEF Finished
<1> QED
  BY <1>2, <1>3, ExactAside, ExactQueueing, ExactOutput, ExactHands, ExactConnect, ExactTake,
     ExactPersist DEF PipeNext

(* A row judged broken is in quarantine once its envelope is done, unless  *)
(* a crash or a database error cut the envelope short; and an event of the *)
(* newest connection is refused as old only if the worker read its base    *)
(* epoch past unprocessed events (ResearchEventConsumer.persist).          *)
THEOREM QuarantineIsExact == PipeSpec => []QuarantineExact
<1>1. PipeInit => RefInv /\ ExactInv
  BY PipeInitially, ExactInitially
<1>2. RefInv /\ ExactInv /\ [PipeNext]_pipeVars => (RefInv /\ ExactInv)'
  BY PipeStep, ExactStep
<1>3. RefInv /\ ExactInv => QuarantineExact
  BY DEF ExactInv
<1> QED
  BY <1>1, <1>2, <1>3, PTL DEF PipeSpec
=============================================================================
