--------------------------- MODULE ResearchRun_proofs ---------------------------
(***************************************************************************)
(* A completed run vouches for its artifacts, and every reader of a        *)
(* finalized snapshot gets the same dataset, for any number of runs,       *)
(* configurations, events and attempts.                                    *)
(*                                                                         *)
(* Neither property is inductive.  What is: a process that has passed      *)
(* save_run("running") has taken the completed status away, so the files   *)
(* it writes cannot be vouched for before they are sealed; a process past  *)
(* freeze_hypothesis works under the frozen hypothesis, which once frozen  *)
(* never changes; a snapshot once stored never changes, so what was read   *)
(* from its members stays what anyone would read.                          *)
(*                                                                         *)
(* That a PASS is clean rests on a second invariant: the raw table only    *)
(* grows, so the ids whose quarantine is counted include those of the      *)
(* dataset, read long before; and the quarantine is finite, so that a      *)
(* count of zero means none.                                               *)
(*                                                                         *)
(* The second part is about the backtest that such a run replays.          *)
(***************************************************************************)
EXTENDS ResearchRun, Backtest, FiniteSetTheorems, SumTheorems, TLAPS

(* The records keep their fields.                                          *)
Shape ==
    /\ config \in [Runs -> Configs]
    /\ DOMAIN row = Runs /\ DOMAIN files = Runs /\ DOMAIN step = Runs /\ DOMAIN local = Runs
    /\ \A r \in Runs : /\ DOMAIN files[r] = {"content", "manifest"}
                       /\ DOMAIN local[r] = DOMAIN NoLocal

Storing == {"relevant", "judge", "write", "seal", "save"}
Reading == {"normalize", "finalize", "members", "existing", "commit", "running",
            "relevant", "judge"}
Frozen == {"build", "source"} \cup Reading \cup Storing

(* A process past freeze_hypothesis works under the frozen hypothesis.     *)
UnderHypothesis == \A r \in Runs : step[r] \in Frozen => hypothesis = config[r].hypothesis

(* A process past save_run("running") has taken the verdict back.          *)
NotVouched == \A r \in Runs : step[r] \in Storing => row[r].status = "running"

(* What was read from the members of the stored snapshot.                  *)
FromMembers(r, data) ==
    snapshot # NoSnapshot /\ data = Dataset(config[r], snapshot.members)

Results == \A r \in Runs :
    step[r] \in {"write", "seal", "save"} =>
        /\ local[r].result.hypothesis = config[r].hypothesis
        /\ local[r].result.reader => FromMembers(r, local[r].result.data)

Reads == \A r \in Runs :
    /\ local[r].found => snapshot # NoSnapshot
    /\ step[r] \in Reading /\ local[r].found => FromMembers(r, local[r].data)

(* The artifacts of a process that writes them.                            *)
Written == \A r \in Runs :
    /\ step[r] \in {"seal", "save"} => files[r].content = local[r].result
    /\ step[r] = "save" => files[r].manifest = files[r].content

Vouched == \A r \in Runs : row[r].status = "completed" =>
    /\ files[r].manifest = files[r].content
    /\ files[r].content.verdict = row[r].verdict
    /\ files[r].content.hypothesis = config[r].hypothesis
    /\ hypothesis = config[r].hypothesis

Published == \A r \in Runs :
    files[r].content.reader => FromMembers(r, files[r].content.data)

IInv == Shape /\ UnderHypothesis /\ NotVouched /\ Results /\ Reads /\ Written /\ Vouched /\ Published

-----------------------------------------------------------------------------
(* Initially no process runs and nothing is stored.                        *)
LEMMA InitEstablishes == Init => IInv
  BY DEF Init, IInv, Shape, UnderHypothesis, NotVouched, Results, Reads, Written, Vouched,
         Published, NoLocal, NoResult, Frozen, Storing, Reading, None

(* An exception or a kill leaves the database as it is.                    *)
LEMMA RaisePreserves ==
    ASSUME NEW r \in Runs, IInv, Raise(r), UNCHANGED config
    PROVE  IInv'
  BY DEF Raise, Go, Know, db, IInv, Shape, UnderHypothesis, NotVouched, Results, Reads, Written,
         Vouched, Published, FromMembers, NoLocal, Frozen, Storing, Reading
(* A new attempt starts with nothing read.                                 *)
LEMMA BeginPreserves ==
    ASSUME NEW r \in Runs, IInv, Begin(r)
    PROVE  IInv'
  BY DEF Begin, Go, db, IInv, Shape, UnderHypothesis, NotVouched, Results, Reads, Written,
        Vouched, Published, FromMembers, Frozen, Storing, Reading

(* Ingesting touches neither hypothesis nor snapshot.                      *)
LEMMA IngestPreserves ==
    ASSUME NEW r \in Runs, IInv, Ingest(r)
    PROVE  IInv'
<1>1. /\ UNCHANGED <<config, hypothesis, snapshot, row, files, step>>
      /\ local' = [local EXCEPT ![r] = [local[r] EXCEPT !.input = local[r].input + 1]]
  BY DEF Ingest, At, Know
<1> QED
  BY <1>1 DEF IInv, Shape, UnderHypothesis, NotVouched, Results, Reads, Written,
         Vouched, Published, FromMembers, Frozen, Storing, Reading, NoLocal

(* The check reads the hypothesis the process goes on with.                *)
LEMMA FreezeReadsPreserves ==
    ASSUME NEW r \in Runs, IInv, FreezeReads(r)
    PROVE  IInv'
  BY RaisePreserves DEF FreezeReads, At, Go, db, IInv, Shape, UnderHypothesis, NotVouched,
        Results, Reads, Written, Vouched, Published, FromMembers, Frozen, Storing, Reading

(* The insertion finds no row, so no other process is past it.             *)
LEMMA FreezeInsertsPreserves ==
    ASSUME NEW r \in Runs, IInv, FreezeInserts(r)
    PROVE  IInv'
  BY RaisePreserves, ResearchAssumption DEF FreezeInserts, At, Go, IInv, Shape,
        UnderHypothesis, NotVouched, Results, Reads, Written, Vouched, Published,
        FromMembers, Frozen, Storing, Reading

(* A manifest that was found is stored.                                    *)
LEMMA ReadManifestPreserves ==
    ASSUME NEW r \in Runs, IInv, ReadManifest(r)
    PROVE  IInv'
<1>1. CASE Raise(r)
  BY <1>1, RaisePreserves DEF ReadManifest, At
<1>2. CASE ~Raise(r)
  <2> DEFINE found == snapshot # NoSnapshot
  <2>1. /\ local' = [local EXCEPT ![r] = [local[r] EXCEPT !.found = found]]
        /\ step' = [step EXCEPT ![r] = "source"] /\ step[r] = "build"
        /\ UNCHANGED <<config, hypothesis, snapshot, row, files>>
    BY <1>2 DEF ReadManifest, At, Go, Know, db
  <2>2. local'[r].found = found
    BY <2>1 DEF IInv, Shape, NoLocal
  <2>3. /\ DOMAIN local' = Runs /\ \A q \in Runs : DOMAIN local'[q] = DOMAIN NoLocal
        /\ \A q \in Runs \ {r} : local'[q] = local[q]
    BY <2>1 DEF IInv, Shape
  <2> HIDE DEF found
  <2>4. Reads'
    BY <2>1, <2>2, <2>3 DEF found, IInv, Shape, Reads, FromMembers, Reading
  <2> QED
    BY <2>1, <2>3, <2>4 DEF IInv, Shape, UnderHypothesis, NotVouched, Results, Written,
       Vouched, Published, FromMembers, Frozen, Storing, Reading
<1> QED
  BY <1>1, <1>2

(* A run that found a manifest reads the members.                          *)
LEMMA ReadSourcePreserves ==
    ASSUME NEW r \in Runs, IInv, ReadSource(r)
    PROVE  IInv'
  BY DEF ReadSource, Source, At, Go, Know, db, NoLocal, IInv, Shape, UnderHypothesis,
        NotVouched, Results, Reads, Written, Vouched, Published, FromMembers, Frozen,
        Storing, Reading

(* Quarantining refused events changes no dataset that was read.           *)
LEMMA RefusePreserves ==
    ASSUME NEW r \in Runs, IInv, Refuse(r)
    PROVE  IInv'
  BY DEF Refuse, At, Know, NoLocal, IInv, Shape, UnderHypothesis, NotVouched, Results,
        Reads, Written, Vouched, Published, FromMembers, Frozen, Storing, Reading

(* The dataset is kept.                                                    *)
LEMMA BuiltPreserves ==
    ASSUME NEW r \in Runs, IInv, Built(r)
    PROVE  IInv'
  BY DEF Built, At, Go, db, IInv, Shape, UnderHypothesis, NotVouched, Results, Reads,
        Written, Vouched, Published, FromMembers, Frozen, Storing, Reading

(* finalize only reads.                                                    *)
LEMMA QuarantineReadPreserves ==
    ASSUME NEW r \in Runs, IInv, FinalizeReadsQuarantine(r)
    PROVE  IInv'
  BY DEF FinalizeReadsQuarantine, At, Go, Know, db, NoLocal, IInv, Shape, UnderHypothesis,
        NotVouched, Results, Reads, Written, Vouched, Published, FromMembers, Frozen,
        Storing, Reading

(* finalize only reads.                                                    *)
LEMMA EventsReadPreserves ==
    ASSUME NEW r \in Runs, IInv, FinalizeReadsEvents(r)
    PROVE  IInv'
  BY DEF FinalizeReadsEvents, At, Go, Know, db, NoLocal, IInv, Shape, UnderHypothesis,
        NotVouched, Results, Reads, Written, Vouched, Published, FromMembers, Frozen,
        Storing, Reading

(* finalize finds the manifest of another run, or goes on.                 *)
LEMMA ManifestReadPreserves ==
    ASSUME NEW r \in Runs, IInv, FinalizeReadsManifest(r)
    PROVE  IInv'
  BY DEF FinalizeReadsManifest, Finalized, At, Go, Know, db, NoLocal, IInv, Shape,
        UnderHypothesis, NotVouched, Results, Reads, Written, Vouched, Published,
        FromMembers, Frozen, Storing, Reading

(* A stored snapshot is only ever replaced by itself.                      *)
LEMMA CommitPreserves ==
    ASSUME NEW r \in Runs, IInv, FinalizeCommits(r)
    PROVE  IInv'
  BY RaisePreserves DEF FinalizeCommits, Finalized, At, Go, Know, NoLocal, IInv, Shape,
        UnderHypothesis, NotVouched, Results, Reads, Written, Vouched, Published,
        FromMembers, Frozen, Storing, Reading

(* The row stops vouching before the first file is touched.                *)
LEMMA SaveRunningPreserves ==
    ASSUME NEW r \in Runs, IInv, SaveRunning(r)
    PROVE  IInv'
  BY DEF SaveRunning, At, Go, IInv, Shape, UnderHypothesis, NotVouched, Results, Reads,
        Written, Vouched, Published, FromMembers, Frozen, Storing, Reading

(* The relevant ids are only read.                                         *)
LEMMA RelevantPreserves ==
    ASSUME NEW r \in Runs, IInv, RelevantIds(r)
    PROVE  IInv'
  BY DEF RelevantIds, At, Go, Know, db, NoLocal, IInv, Shape, UnderHypothesis, NotVouched,
        Results, Reads, Written, Vouched, Published, FromMembers, Frozen, Storing, Reading

(* The result is computed from what was read, under the frozen hypothesis. *)
LEMMA EvaluatePreserves ==
    ASSUME NEW r \in Runs, IInv, Evaluate(r)
    PROVE  IInv'
  BY RaisePreserves DEF Evaluate, At, Go, Know, db, NoLocal, IInv, Shape, UnderHypothesis,
        NotVouched, Results, Reads, Written, Vouched, Published, FromMembers, Frozen,
        Storing, Reading

(* The files change while the row says running.                            *)
LEMMA WriteFilesPreserves ==
    ASSUME NEW r \in Runs, IInv, WriteFiles(r)
    PROVE  IInv'
  BY DEF WriteFiles, At, Go, IInv, Shape, UnderHypothesis, NotVouched, Results, Reads,
        Written, Vouched, Published, FromMembers, Frozen, Storing, Reading

(* The manifest seals what is in the directory.                            *)
LEMMA WriteManifestPreserves ==
    ASSUME NEW r \in Runs, IInv, WriteManifest(r)
    PROVE  IInv'
  BY DEF WriteManifest, At, Go, IInv, Shape, UnderHypothesis, NotVouched, Results, Reads,
        Written, Vouched, Published, FromMembers, Frozen, Storing, Reading

(* The row vouches for what has been sealed.                               *)
LEMMA SaveCompletedPreserves ==
    ASSUME NEW r \in Runs, IInv, SaveCompleted(r)
    PROVE  IInv'
  BY DEF SaveCompleted, At, Go, Know, NoLocal, NoResult, IInv, Shape, UnderHypothesis,
        NotVouched, Results, Reads, Written, Vouched, Published, FromMembers, Frozen,
        Storing, Reading

(* The collector and stuttering change nothing the invariant speaks of.    *)
LEMMA CollectorPreserves ==
    ASSUME IInv, Collect \/ CollectorQuarantines \/ UNCHANGED vars
    PROVE  IInv'
  BY DEF Collect, CollectorQuarantines, vars, db, IInv, Shape, UnderHypothesis, NotVouched,
         Results, Reads, Written, Vouched, Published, FromMembers

(* Every step of every process preserves the invariant.                    *)
LEMMA NextPreserves == IInv /\ [Next]_vars => IInv'
<1> SUFFICES ASSUME IInv, [Next]_vars PROVE IInv'
  OBVIOUS
<1>1. ASSUME NEW r \in Runs,
             \/ Begin(r) \/ Ingest(r) \/ FreezeReads(r) \/ FreezeInserts(r)
             \/ ReadManifest(r) \/ ReadSource(r) \/ Refuse(r) \/ Built(r)
      PROVE  IInv'
  BY <1>1, BeginPreserves, IngestPreserves, FreezeReadsPreserves, FreezeInsertsPreserves,
     ReadManifestPreserves, ReadSourcePreserves, RefusePreserves, BuiltPreserves
<1>2. ASSUME NEW r \in Runs,
             \/ FinalizeReadsQuarantine(r) \/ FinalizeReadsEvents(r)
             \/ FinalizeReadsManifest(r) \/ FinalizeCommits(r)
      PROVE  IInv'
  BY <1>2, QuarantineReadPreserves, EventsReadPreserves, ManifestReadPreserves, CommitPreserves
<1>3. ASSUME NEW r \in Runs,
             \/ SaveRunning(r) \/ RelevantIds(r) \/ Evaluate(r)
             \/ WriteFiles(r) \/ WriteManifest(r) \/ SaveCompleted(r)
      PROVE  IInv'
  BY <1>3, SaveRunningPreserves, RelevantPreserves, EvaluatePreserves, WriteFilesPreserves,
     WriteManifestPreserves, SaveCompletedPreserves
<1>4. ASSUME NEW r \in Runs, Crash(r) PROVE IInv'
  BY <1>4, RaisePreserves DEF Crash
<1> QED
  BY <1>1, <1>2, <1>3, <1>4, CollectorPreserves DEF Next

(* Throughout every behaviour of the runs.                                 *)
LEMMA Invariance == Spec => []IInv
  BY InitEstablishes, NextPreserves, PTL DEF Spec

(* A completed row vouches for its artifacts: the manifest seals the files,*)
(* they hold the row's verdict and were computed under the hypothesis that *)
(* is frozen, for any runs, crashes and repeated attempts (save_run,       *)
(* write, freeze_hypothesis).                                              *)
THEOREM RecordsStand == Spec => []RecordMatchesArtifacts
<1>1. IInv => RecordMatchesArtifacts
  BY DEF IInv, Vouched, RecordMatchesArtifacts
<1> QED
  BY <1>1, Invariance, PTL

(* Every run that found the snapshot finalized published the dataset of    *)
(* its members, whatever was stored, quarantined or finalized since        *)
(* (build, snapshot_events, finalize).                                     *)
THEOREM SnapshotReadersAgree == Spec => []ReadersAgree
<1>1. IInv => ReadersAgree
  BY DEF IInv, Published, FromMembers, ReadersAgree
<1> QED
  BY <1>1, Invariance, PTL

-----------------------------------------------------------------------------
(* The second invariant: what a PASS rests on.                             *)

(* What a PASS says of the dataset it was computed from.                   *)
Clean(r, result) ==
    result.verdict = "PASS" =>
        /\ result.measured /\ result.early
        /\ result.data # {}
        /\ result.dirty = {}
        /\ \A e \in result.data : WellFormed(e) /\ e.at <= config[r].cutoff
        /\ Unbroken(result.data)

(* Events are never deleted, so a stored or a prepared snapshot, and what  *)
(* a process has read of either, are still in the raw table.               *)
Stored ==
    /\ snapshot.members \subseteq raw
    /\ \A r \in Runs : local[r].manifest.members \subseteq raw

(* A dataset holds well formed events of the cutoff's past.                *)
Sifted(r, data) ==
    /\ data \subseteq Usable(config[r], raw)
    /\ \A e \in data : WellFormed(e)

Sifting == \A r \in Runs : step[r] \in Reading => Sifted(r, local[r].data)

(* The ids whose quarantine is counted include those of the dataset.       *)
Covered == \A r \in Runs : step[r] = "judge" => Ids(local[r].data) \subseteq local[r].relevant

Judged == \A r \in Runs :
    /\ step[r] \in {"write", "seal", "save"} => Clean(r, local[r].result)
    /\ Clean(r, files[r].content)

(* Only a completed row shows a verdict.                                   *)
Shown == \A r \in Runs : row[r].verdict # None => row[r].status = "completed"

PInv == IsFiniteSet(quarantine) /\ Stored /\ Sifting /\ Covered /\ Judged /\ Shown

-----------------------------------------------------------------------------
(* More rows make more events usable, and a dataset is what is usable and  *)
(* not refused.                                                            *)
LEMMA UsableGrows ==
    ASSUME NEW c, NEW S, NEW T, S \subseteq T
    PROVE  Usable(c, S) \subseteq Usable(c, T)
  BY DEF Usable, Wanted

(* What is read from a table is sifted.                                    *)
LEMMA DatasetSifts ==
    ASSUME NEW c, NEW S
    PROVE  /\ Dataset(c, S) \subseteq Usable(c, S)
           /\ \A e \in Dataset(c, S) : WellFormed(e)
  BY DEF Dataset, Refused

(* The process of r is at step s and has read l; the others stay.          *)
Becomes(r, s, l) ==
    \A q \in Runs : /\ step'[q] = IF q = r THEN s ELSE step[q]
                    /\ local'[q] = IF q = r THEN l ELSE local[q]

(* A step of the process of r to step s, with l read: what it has to       *)
(* respect.                                                                *)
LEMMA StepKeeps ==
    ASSUME IInv, PInv, NEW r \in Runs, NEW s, NEW l, UNCHANGED config,
           Becomes(r, s, l), raw \subseteq raw', IsFiniteSet(quarantine'), snapshot'.members \subseteq raw',
           l.manifest.members \subseteq raw',
           s \in Reading => l.data \subseteq Usable(config[r], raw') /\ \A e \in l.data : WellFormed(e),
           s = "judge" => Ids(l.data) \subseteq l.relevant,
           s \in {"write", "seal", "save"} => Clean(r, l.result),
           \A q \in Runs : Clean(q, files'[q].content),
           \A q \in Runs : row'[q].verdict # None => row'[q].status = "completed"
    PROVE  PInv'
<1> DEFINE grown(c) == Usable(c, raw) \subseteq Usable(c, raw')
<1>1. \A q \in Runs : grown(config[q])
  BY UsableGrows
<1>2. \A q \in Runs : /\ step'[q] = IF q = r THEN s ELSE step[q]
                      /\ local'[q] = IF q = r THEN l ELSE local[q]
  BY DEF Becomes
<1>3. Stored'
  BY <1>2 DEF PInv, Stored
<1>4. Sifting'
  BY <1>1, <1>2 DEF PInv, Sifting, Sifted
<1>5. Covered'
  BY <1>2 DEF PInv, Covered
<1> QED
  BY <1>2, <1>3, <1>4, <1>5 DEF PInv, Judged, Shown, Clean

(* An exception or a kill forgets what was read.                           *)
LEMMA RaiseKeeps ==
    ASSUME NEW r \in Runs, IInv, PInv, Raise(r), UNCHANGED config
    PROVE  PInv'
<1>1. NoLocal.manifest.members = {}
  BY DEF NoLocal, NoSnapshot
<1>2. "down" \notin Reading /\ "down" # "judge" /\ "down" \notin {"write", "seal", "save"}
  BY DEF Reading
<1>3. /\ Becomes(r, "down", NoLocal)
      /\ UNCHANGED <<raw, quarantine, snapshot, files, row>>
  BY DEF Raise, Go, Know, db, Becomes, IInv, Shape
<1> HIDE DEF NoLocal
<1> QED
  BY <1>1, <1>2, <1>3, StepKeeps DEF PInv, Stored, Judged, Shown

(* A step that only moves on.                                              *)
LEMMA GoKeeps ==
    ASSUME NEW r \in Runs, IInv, PInv, NEW s, Go(r, s), UNCHANGED <<config, db, local>>,
           s \in Reading => step[r] \in Reading, s # "judge", s \notin {"write", "seal", "save"}
    PROVE  PInv'
<1>1. Becomes(r, s, local[r])
  BY DEF IInv, Shape, Becomes, Go
<1> QED
  BY <1>1, StepKeeps DEF db, PInv, Stored, Sifting, Sifted, Judged, Shown

(* A new attempt has read nothing.                                         *)
LEMMA BeginKeeps ==
    ASSUME NEW r \in Runs, IInv, PInv, Begin(r)
    PROVE  PInv'
  BY GoKeeps DEF Begin, Reading

(* Rows and quarantine records are only added.                             *)
LEMMA IngestKeeps ==
    ASSUME NEW r \in Runs, IInv, PInv, Ingest(r)
    PROVE  PInv'
<1> DEFINE l == [local[r] EXCEPT !.input = local[r].input + 1]
<1>1. /\ raw \subseteq raw' /\ UNCHANGED <<config, snapshot, row, files, step>>
      /\ local' = [local EXCEPT ![r] = l]
  BY DEF Ingest, At, Know
<1>2. PICK more : quarantine' = quarantine \cup more /\ IsFiniteSet(more)
  <2>1. PICK q : quarantine' = quarantine \cup {q} \/ quarantine' = quarantine \cup {}
    <3> DEFINE q == [id |-> config[r].raw[local[r].input + 1].id, at |-> config[r].cutoff]
    <3>1. quarantine' = quarantine \cup {q} \/ quarantine' = quarantine \cup {}
      BY DEF Ingest
    <3> QED
      BY <3>1
  <2> QED
    BY <2>1, FS_Singleton, FS_EmptySet
<1>3. IsFiniteSet(quarantine')
  BY <1>2, FS_Union DEF PInv
<1>4. Becomes(r, "ingest", l) /\ "ingest" \notin Reading
  BY <1>1 DEF Ingest, At, IInv, Shape, Reading, Becomes
<1>5. l.manifest = local[r].manifest
  BY DEF IInv, Shape, NoLocal
<1> HIDE DEF l
<1> QED
  BY <1>1, <1>3, <1>4, <1>5, StepKeeps DEF PInv, Stored, Judged, Shown

(* Freezing the hypothesis reads no event.                                 *)
LEMMA FreezeReadsKeeps ==
    ASSUME NEW r \in Runs, IInv, PInv, FreezeReads(r)
    PROVE  PInv'
  BY RaiseKeeps, GoKeeps DEF FreezeReads, At, Reading

(* Neither does inserting it.                                              *)
LEMMA FreezeInsertsKeeps ==
    ASSUME NEW r \in Runs, IInv, PInv, FreezeInserts(r)
    PROVE  PInv'
<1>1. CASE Raise(r)
  BY <1>1, RaiseKeeps DEF FreezeInserts, At
<1>2. CASE ~Raise(r)
  <2>1. /\ Becomes(r, "build", local[r])
        /\ UNCHANGED <<config, raw, quarantine, snapshot, row, files>> /\ "build" \notin Reading
    BY <1>2 DEF FreezeInserts, At, Go, Becomes, IInv, Shape, Reading
  <2> QED
    BY <2>1, StepKeeps DEF PInv, Stored, Judged, Shown
<1> QED
  BY <1>1, <1>2

(* The manifest is only looked for.                                        *)
LEMMA ReadManifestKeeps ==
    ASSUME NEW r \in Runs, IInv, PInv, ReadManifest(r)
    PROVE  PInv'
<1>1. CASE Raise(r)
  BY <1>1, RaiseKeeps DEF ReadManifest, At
<1>2. CASE ~Raise(r)
  <2> DEFINE l == [local[r] EXCEPT !.found = (snapshot # NoSnapshot)]
  <2>1. /\ Becomes(r, "source", l)
        /\ UNCHANGED <<config, raw, quarantine, snapshot, row, files>> /\ "source" \notin Reading
    BY <1>2 DEF ReadManifest, At, Go, Know, db, Becomes, IInv, Shape, Reading
  <2>2. l.manifest = local[r].manifest
    BY DEF IInv, Shape, NoLocal
  <2> HIDE DEF l
  <2> QED
    BY <2>1, <2>2, StepKeeps DEF PInv, Stored, Judged, Shown
<1> QED
  BY <1>1, <1>2

(* The dataset is sifted from the raw table or from members that are in it.*)
LEMMA ReadSourceKeeps ==
    ASSUME NEW r \in Runs, IInv, PInv, ReadSource(r)
    PROVE  PInv'
<1> DEFINE D == Dataset(config[r], Source(r))
           T == Refused(Usable(config[r], Source(r)))
           l == [local[r] EXCEPT !.todo = T, !.data = D]
<1>1. /\ Becomes(r, "normalize", l)
      /\ UNCHANGED <<config, raw, quarantine, snapshot, row, files>>
  BY DEF ReadSource, At, Go, Know, db, Becomes, IInv, Shape
<1>2. Source(r) \subseteq raw
  BY DEF Source, PInv, Stored
<1>3. D \subseteq Usable(config[r], raw) /\ \A e \in D : WellFormed(e)
  BY <1>2, UsableGrows, DatasetSifts
<1> HIDE DEF D, T
<1>4. l.manifest = local[r].manifest /\ l.data = D
  BY DEF IInv, Shape, NoLocal
<1> HIDE DEF l
<1> QED
  BY <1>1, <1>3, <1>4, StepKeeps DEF PInv, Stored, Judged, Shown

(* One more quarantine record; the dataset stays.                          *)
LEMMA RefuseKeeps ==
    ASSUME NEW r \in Runs, IInv, PInv, Refuse(r)
    PROVE  PInv'
<1>1. PICK e : /\ quarantine' = quarantine \cup {[id |-> e.id, at |-> config[r].cutoff]}
               /\ Know(r, [local[r] EXCEPT !.todo = @ \ {e}])
  BY DEF Refuse
<1> DEFINE T == local[r].todo \ {e}
           l == [local[r] EXCEPT !.todo = T]
<1>2. IsFiniteSet(quarantine')
  BY <1>1, FS_AddElement DEF PInv
<1>3. step[r] = "normalize" /\ UNCHANGED <<config, raw, snapshot, row, files, step>>
  BY DEF Refuse, At
<1>4. Becomes(r, "normalize", l)
  BY <1>1, <1>3 DEF Becomes, Know, IInv, Shape
<1> HIDE DEF T
<1>5. l.manifest = local[r].manifest /\ l.data = local[r].data
  BY DEF IInv, Shape, NoLocal
<1> HIDE DEF l
<1>6. step[r] \in Reading
  BY <1>3 DEF Reading
<1> QED
  BY <1>2, <1>3, <1>4, <1>5, <1>6, StepKeeps DEF PInv, Stored, Sifting, Sifted, Judged, Shown

(* The dataset is kept.                                                    *)
LEMMA BuiltKeeps ==
    ASSUME NEW r \in Runs, IInv, PInv, Built(r)
    PROVE  PInv'
  BY GoKeeps DEF Built, At, Reading

(* finalize reads the quarantine, then the events.                         *)
LEMMA QuarantineReadKeeps ==
    ASSUME NEW r \in Runs, IInv, PInv, FinalizeReadsQuarantine(r)
    PROVE  PInv'
<1> DEFINE ids == Ids({q \in quarantine : q.at <= config[r].cutoff})
           l == [local[r] EXCEPT !.quarantined = ids]
<1>1. /\ Becomes(r, "members", l) /\ step[r] = "finalize"
      /\ UNCHANGED <<config, raw, quarantine, snapshot, row, files>>
  BY DEF FinalizeReadsQuarantine, At, Go, Know, db, Becomes, IInv, Shape
<1> HIDE DEF ids
<1>2. l.manifest = local[r].manifest /\ l.data = local[r].data
  BY DEF IInv, Shape, NoLocal
<1> HIDE DEF l
<1>3. step[r] \in Reading
  BY <1>1 DEF Reading
<1> QED
  BY <1>1, <1>2, <1>3, StepKeeps DEF PInv, Stored, Sifting, Sifted, Judged, Shown

(* The members it collects are rows of the table.                          *)
LEMMA EventsReadKeeps ==
    ASSUME NEW r \in Runs, IInv, PInv, FinalizeReadsEvents(r)
    PROVE  PInv'
<1> DEFINE M == Manifest(config[r], local[r].quarantined, raw)
           l == [local[r] EXCEPT !.quarantined = {}, !.manifest = M]
<1>1. /\ Becomes(r, "existing", l) /\ step[r] = "members"
      /\ UNCHANGED <<config, raw, quarantine, snapshot, row, files>>
  BY DEF FinalizeReadsEvents, At, Go, Know, db, Becomes, IInv, Shape
<1>2. M.members \subseteq raw
  BY DEF Manifest
<1> HIDE DEF M
<1>3. l.manifest = M /\ l.data = local[r].data
  BY DEF IInv, Shape, NoLocal
<1> HIDE DEF l
<1>4. step[r] \in Reading
  BY <1>1 DEF Reading
<1> QED
  BY <1>1, <1>2, <1>3, <1>4, StepKeeps DEF PInv, Stored, Sifting, Sifted, Judged, Shown

(* A finalized snapshot sends the process on, or ends it.                  *)
LEMMA FinalizedKeeps ==
    ASSUME NEW r \in Runs, IInv, PInv, NEW m, Finalized(r, m), step[r] \in Reading,
           UNCHANGED <<config, raw, quarantine, row, files>>, snapshot'.members \subseteq raw
    PROVE  PInv'
<1>1. CASE m.eligible
  <2> DEFINE l == [local[r] EXCEPT !.manifest = NoSnapshot]
  <2>1. Becomes(r, "running", l)
    BY <1>1 DEF Finalized, Go, Know, Becomes, IInv, Shape
  <2>2. l.manifest = NoSnapshot /\ NoSnapshot.members = {} /\ l.data = local[r].data
    BY DEF IInv, Shape, NoLocal, NoSnapshot
  <2> HIDE DEF l
  <2> QED
    BY <2>1, <2>2, StepKeeps DEF PInv, Stored, Sifting, Sifted, Judged, Shown
<1>2. CASE ~m.eligible
  <2>1. Becomes(r, "down", NoLocal)
    BY <1>2 DEF Finalized, Go, Know, Becomes, IInv, Shape
  <2>2. NoLocal.manifest.members = {} /\ "down" \notin Reading
    BY DEF NoLocal, NoSnapshot, Reading
  <2> QED
    BY <2>1, <2>2, StepKeeps DEF PInv, Stored, Judged, Shown
<1> QED
  BY <1>1, <1>2

(* The snapshot of another run, or none.                                   *)
LEMMA ManifestReadKeeps ==
    ASSUME NEW r \in Runs, IInv, PInv, FinalizeReadsManifest(r)
    PROVE  PInv'
<1>1. CASE snapshot # NoSnapshot
  BY <1>1, FinalizedKeeps DEF FinalizeReadsManifest, At, db, PInv, Stored, Reading
<1>2. CASE snapshot = NoSnapshot
  BY <1>2, GoKeeps DEF FinalizeReadsManifest, At, Reading
<1> QED
  BY <1>1, <1>2

(* The stored members are the ones that were collected.                    *)
LEMMA CommitKeeps ==
    ASSUME NEW r \in Runs, IInv, PInv, FinalizeCommits(r)
    PROVE  PInv'
<1>1. CASE Raise(r)
  BY <1>1, RaiseKeeps DEF FinalizeCommits, At
<1>2. CASE ~Raise(r)
  BY <1>2, FinalizedKeeps DEF FinalizeCommits, At, PInv, Stored, Reading
<1> QED
  BY <1>1, <1>2

(* save_run("running") hides the verdict of the attempt before.            *)
LEMMA SaveRunningKeeps ==
    ASSUME NEW r \in Runs, IInv, PInv, SaveRunning(r)
    PROVE  PInv'
<1>1. /\ Becomes(r, "relevant", local[r]) /\ step[r] = "running"
      /\ UNCHANGED <<config, raw, quarantine, snapshot, files>>
  BY DEF SaveRunning, At, Go, Becomes, IInv, Shape
<1>2. \A q \in Runs : row'[q].verdict # None => row'[q].status = "completed"
  BY DEF SaveRunning, IInv, Shape, PInv, Shown
<1>3. step[r] \in Reading
  BY <1>1 DEF Reading
<1> QED
  BY <1>1, <1>2, <1>3, StepKeeps DEF PInv, Stored, Sifting, Sifted, Judged

(* The table still holds everything the dataset was read from.             *)
LEMMA RelevantKeeps ==
    ASSUME NEW r \in Runs, IInv, PInv, RelevantIds(r)
    PROVE  PInv'
<1> DEFINE ids == Ids(Usable(config[r], raw))
           l == [local[r] EXCEPT !.relevant = ids]
<1>1. /\ Becomes(r, "judge", l) /\ step[r] = "relevant"
      /\ UNCHANGED <<config, raw, quarantine, snapshot, row, files>>
  BY DEF RelevantIds, At, Go, Know, db, Becomes, IInv, Shape
<1>2. step[r] \in Reading
  BY <1>1 DEF Reading
<1>3. Ids(local[r].data) \subseteq ids
  BY <1>2 DEF Ids, PInv, Sifting, Sifted
<1> HIDE DEF ids
<1>4. l.manifest = local[r].manifest /\ l.data = local[r].data /\ l.relevant = ids
  BY DEF IInv, Shape, NoLocal
<1> HIDE DEF l
<1> QED
  BY <1>1, <1>2, <1>3, <1>4, StepKeeps DEF PInv, Stored, Sifting, Sifted, Judged, Shown

(* evaluate_acceptance: PASS is only given with quality, with every check  *)
(* measured and with enough rows.                                          *)
LEMMA PassNeeds ==
    ASSUME NEW c, NEW quality \in BOOLEAN, NEW rules, NEW e, Verdict(c, quality, rules, e) = "PASS"
    PROVE  quality /\ ~Said(Checks(quality, rules, e), "none") /\ e.rows = "enough"
<1> DEFINE missing == \/ Said(Checks(quality, rules, e), "none")
                      \/ Said(Thresholds(c, Checks(quality, rules, e), e), "none")
                      \/ e.rows # "enough"
           refuted == \/ Said(Checks(quality, rules, e), "no")
                      \/ Said(Thresholds(c, Checks(quality, rules, e), e), "no")
<1>1. Verdict(c, quality, rules, e) =
          CASE ~quality -> "FAIL"
            [] quality /\ missing -> "INSUFFICIENT_EVIDENCE"
            [] quality /\ ~missing /\ refuted -> "FAIL"
            [] OTHER -> "PASS"
  BY DEF Verdict
<1>2. missing \in BOOLEAN /\ refuted \in BOOLEAN
  OBVIOUS
<1> HIDE DEF missing, refuted
<1>3. quality /\ ~missing
  BY <1>1, <1>2
<1> QED
  BY <1>3 DEF missing

(* Quality is only granted to a dataset none of whose events is in the     *)
(* quarantine.                                                             *)
LEMMA QualityIsClean ==
    ASSUME PInv, NEW r \in Runs, step[r] = "judge", NEW e,
           Quality(local[r].data, Cardinality({q \in quarantine : q.id \in local[r].relevant}), e)
    PROVE  /\ local[r].data # {} /\ Unbroken(local[r].data)
           /\ Ids(local[r].data) \cap Ids(quarantine) = {}
<1> DEFINE found == {q \in quarantine : q.id \in local[r].relevant}
<1>1. IsFiniteSet(found)
  BY FS_Subset DEF PInv
<1>2. Cardinality(found) = 0
  BY DEF Quality
<1>3. found = {}
  BY <1>1, <1>2, FS_EmptySet
<1>4. Ids(local[r].data) \subseteq local[r].relevant
  BY DEF PInv, Covered
<1>5. \A x \in Ids(quarantine) : x \notin local[r].relevant
  BY <1>3 DEF Ids
<1> QED
  BY <1>4, <1>5 DEF Quality

(* The verdict is drawn from the sifted dataset.                           *)
LEMMA EvaluateKeeps ==
    ASSUME NEW r \in Runs, IInv, PInv, Evaluate(r)
    PROVE  PInv'
<1>1. CASE Raise(r)
  BY <1>1, RaiseKeeps DEF Evaluate, At
<1>2. CASE ~Raise(r)
  <2> DEFINE c == config[r]
             D == local[r].data
             found == Cardinality({q \in quarantine : q.id \in local[r].relevant})
  <2>1. PICK e \in Evidence :
           LET quality == Quality(D, found, e)
               complete == RulesComplete(c, D)
               result == [verdict |-> Verdict(c, quality, complete, e),
                          data |-> D, hypothesis |-> c.hypothesis,
                          measured |-> ~Said(Checks(quality, complete, e), "none"),
                          early |-> c.frozen <= e.oosAt,
                          dirty |-> Ids(D) \cap Ids(quarantine),
                          reader |-> local[r].found]
           IN  /\ ~WalkForwardRaises(c, quality, e)
               /\ Know(r, [NoLocal EXCEPT !.result = result]) /\ Go(r, "write") /\ UNCHANGED db
    BY <1>2 DEF Evaluate
  <2> DEFINE quality == Quality(D, found, e)
             complete == RulesComplete(c, D)
             result == [verdict |-> Verdict(c, quality, complete, e),
                        data |-> D, hypothesis |-> c.hypothesis,
                        measured |-> ~Said(Checks(quality, complete, e), "none"),
                        early |-> c.frozen <= e.oosAt,
                        dirty |-> Ids(D) \cap Ids(quarantine),
                        reader |-> local[r].found]
             l == [NoLocal EXCEPT !.result = result]
  <2>2. /\ ~WalkForwardRaises(c, quality, e)
        /\ Know(r, l) /\ Go(r, "write")
        /\ UNCHANGED <<config, raw, quarantine, snapshot, row, files>>
        /\ step[r] = "judge" /\ step[r] \in Reading
    BY <2>1 DEF Evaluate, At, db, Reading
  <2>3. Becomes(r, "write", l)
    BY <2>2 DEF Know, Go, Becomes, IInv, Shape
  <2>4. quality \in BOOLEAN
    BY ResearchAssumption DEF Quality
  <2>5. \A x \in D : WellFormed(x) /\ x.at <= config[r].cutoff
    BY <2>2 DEF PInv, Sifting, Sifted, Usable
  <2>6. Verdict(c, quality, complete, e) = "PASS" =>
           /\ ~Said(Checks(quality, complete, e), "none") /\ c.frozen <= e.oosAt
           /\ D # {} /\ Unbroken(D) /\ Ids(D) \cap Ids(quarantine) = {}
    <3> SUFFICES ASSUME Verdict(c, quality, complete, e) = "PASS"
                 PROVE  /\ ~Said(Checks(quality, complete, e), "none") /\ c.frozen <= e.oosAt
                        /\ D # {} /\ Unbroken(D) /\ Ids(D) \cap Ids(quarantine) = {}
      OBVIOUS
    <3> HIDE DEF complete, quality
    <3>1. quality /\ ~Said(Checks(quality, complete, e), "none") /\ e.rows = "enough"
      BY <2>4, PassNeeds
    <3>2. D # {} /\ Unbroken(D) /\ Ids(D) \cap Ids(quarantine) = {}
      BY <3>1, <2>2, QualityIsClean DEF quality
    <3>3. c.frozen \in Nat /\ e.oosAt \in Nat
      BY ResearchAssumption DEF IInv, Shape
    <3>4. c.frozen <= e.oosAt
      BY <2>2, <3>1, <3>3 DEF WalkForwardRaises
    <3> QED
      BY <3>1, <3>2, <3>4
  <2> HIDE DEF quality, complete, c, found
  <2>7. /\ result.verdict = Verdict(c, quality, complete, e) /\ result.data = D
        /\ result.measured = ~Said(Checks(quality, complete, e), "none")
        /\ result.early = (c.frozen <= e.oosAt)
        /\ result.dirty = Ids(D) \cap Ids(quarantine)
    OBVIOUS
  <2> HIDE DEF result
  <2>8. Clean(r, result)
    BY <2>5, <2>6, <2>7 DEF Clean
  <2>9. l.manifest.members = {} /\ l.result = result
    BY DEF NoLocal, NoSnapshot
  <2>10. "write" \notin Reading
    BY DEF Reading
  <2> HIDE DEF l
  <2> QED
    BY <2>2, <2>3, <2>8, <2>9, <2>10, StepKeeps DEF PInv, Stored, Judged, Shown
<1> QED
  BY <1>1, <1>2

(* The files hold what was judged, and the row names its verdict.          *)
LEMMA WriteFilesKeeps ==
    ASSUME NEW r \in Runs, IInv, PInv, WriteFiles(r) \/ WriteManifest(r)
    PROVE  PInv'
<1>1. PICK s \in {"seal", "save"} : Becomes(r, s, local[r])
  BY DEF WriteFiles, WriteManifest, Go, Becomes, IInv, Shape
<1>2. /\ step[r] \in {"write", "seal", "save"}
      /\ UNCHANGED <<config, raw, quarantine, snapshot, row>>
  BY DEF WriteFiles, WriteManifest, At
<1>3. \A q \in Runs : files'[q].content \in {files[q].content, local[q].result}
                      /\ (files'[q].content = files[q].content \/ q = r)
  BY DEF WriteFiles, WriteManifest, IInv, Shape
<1>4. \A q \in Runs : Clean(q, files'[q].content)
  BY <1>2, <1>3 DEF PInv, Judged
<1>5. s \notin Reading /\ s # "judge"
  BY DEF Reading
<1> QED
  BY <1>1, <1>2, <1>4, <1>5, StepKeeps DEF PInv, Stored, Judged, Shown

(* A verdict is shown with the completed status.                           *)
LEMMA SaveCompletedKeeps ==
    ASSUME NEW r \in Runs, IInv, PInv, SaveCompleted(r)
    PROVE  PInv'
<1>1. /\ Becomes(r, "down", NoLocal) /\ UNCHANGED <<config, raw, quarantine, snapshot, files>>
  BY DEF SaveCompleted, At, Go, Know, Becomes, IInv, Shape
<1>2. \A q \in Runs : row'[q].verdict # None => row'[q].status = "completed"
  BY DEF SaveCompleted, IInv, Shape, PInv, Shown
<1>3. NoLocal.manifest.members = {} /\ "down" \notin Reading
  BY DEF NoLocal, NoSnapshot, Reading
<1> QED
  BY <1>1, <1>2, <1>3, StepKeeps DEF PInv, Stored, Judged

(* The collector adds an event, or a record to the quarantine.             *)
LEMMA CollectorKeeps ==
    ASSUME IInv, PInv, Collect \/ CollectorQuarantines \/ UNCHANGED vars
    PROVE  PInv'
<1>1. raw \subseteq raw' /\ UNCHANGED <<config, snapshot, row, files, step, local>>
  BY DEF Collect, CollectorQuarantines, vars, db
<1>2. PICK q : quarantine' = quarantine \/ quarantine' = quarantine \cup {q}
  <2>1. CASE Collect \/ UNCHANGED vars
    BY <2>1 DEF Collect, vars, db
  <2>2. CASE CollectorQuarantines
    BY <2>2 DEF CollectorQuarantines
  <2> QED
    BY <2>1, <2>2
<1>3. IsFiniteSet(quarantine')
  BY <1>2, FS_AddElement DEF PInv
<1>4. \A r \in Runs : Usable(config[r], raw) \subseteq Usable(config[r], raw')
  BY <1>1, UsableGrows
<1> QED
  BY <1>1, <1>3, <1>4 DEF PInv, Stored, Sifting, Sifted, Covered, Judged, Clean, Shown

(* Throughout every behaviour of the runs.                                 *)
LEMMA PassInvariance == Spec => []PInv
<1>1. Init => PInv
  BY FS_EmptySet DEF Init, PInv, Stored, Sifting, Covered, Judged, Shown, Clean, NoLocal,
     NoResult, NoSnapshot, None, Reading
<1>2. IInv /\ PInv /\ [Next]_vars => PInv'
  <2> SUFFICES ASSUME IInv, PInv, [Next]_vars PROVE PInv'
    OBVIOUS
  <2>1. ASSUME NEW r \in Runs,
               \/ Begin(r) \/ Ingest(r) \/ FreezeReads(r) \/ FreezeInserts(r)
               \/ ReadManifest(r) \/ ReadSource(r) \/ Refuse(r) \/ Built(r)
        PROVE  PInv'
    BY <2>1, BeginKeeps, IngestKeeps, FreezeReadsKeeps, FreezeInsertsKeeps, ReadManifestKeeps,
       ReadSourceKeeps, RefuseKeeps, BuiltKeeps
  <2>2. ASSUME NEW r \in Runs,
               \/ FinalizeReadsQuarantine(r) \/ FinalizeReadsEvents(r)
               \/ FinalizeReadsManifest(r) \/ FinalizeCommits(r)
        PROVE  PInv'
    BY <2>2, QuarantineReadKeeps, EventsReadKeeps, ManifestReadKeeps, CommitKeeps
  <2>3. ASSUME NEW r \in Runs,
               \/ SaveRunning(r) \/ RelevantIds(r) \/ Evaluate(r)
               \/ WriteFiles(r) \/ WriteManifest(r) \/ SaveCompleted(r)
        PROVE  PInv'
    BY <2>3, SaveRunningKeeps, RelevantKeeps, EvaluateKeeps, WriteFilesKeeps, SaveCompletedKeeps
  <2>4. ASSUME NEW r \in Runs, Crash(r) PROVE PInv'
    BY <2>4, RaiseKeeps DEF Crash
  <2> QED
    BY <2>1, <2>2, <2>3, <2>4, CollectorKeeps DEF Next
<1> QED
  BY <1>1, <1>2, Invariance, PTL DEF Spec

(* A PASS rests on a dataset that is not empty, not quarantined, well      *)
(* formed, unbroken and of the cutoff's past, with every check measured    *)
(* and the hypothesis frozen before the first out-of-sample row, for any   *)
(* runs, events, crashes and repeated attempts (evaluate_data_quality,     *)
(* evaluate_acceptance, _walk_forward).                                    *)
THEOREM PassesAreClean == Spec => []PassIsClean
<1>1. IInv /\ PInv => PassIsClean
  BY DEF IInv, Vouched, PInv, Judged, Shown, Clean, PassIsClean, None
<1> QED
  BY <1>1, Invariance, PassInvariance, PTL

-----------------------------------------------------------------------------
(***************************************************************************)
(* The backtest, for every instrument, quote, signal, rate, fee, leverage  *)
(* and every number of orders.                                             *)
(*                                                                         *)
(* LoopSound and Served are what the matching of one snapshot keeps from   *)
(* order to order: the ledger's money adds up, and an exit that is pending *)
(* and not lost is covered, by an event or an order of the engine's own    *)
(* form for at least all that is held.  That an exit exists is not         *)
(* inductive: only one that covers the position cannot be used up before   *)
(* the position is closed and the pending mark taken away.                 *)
(***************************************************************************)

(* Of two numbers the larger one.                                          *)
LEMMA MaxOfTwo ==
    ASSUME NEW m \in Int, NEW n \in Int
    PROVE  Max({m, n}) = IF m >= n THEN m ELSE n
<1> DEFINE T == {m, n}
           x == IF m >= n THEN m ELSE n
<1>1. x \in T /\ \A y \in T : x >= y
  OBVIOUS
<1>2. \A z \in T : (\A y \in T : z >= y) => z = x
  OBVIOUS
<1> HIDE DEF T, x
<1>3. Max(T) = x
  BY <1>1, <1>2 DEF Max
<1> QED
  BY <1>3 DEF T, x

(* The ledger's positions, and the cost of one with a sign.                *)
Holdings == [lots : Int, basis : Int, mark : Int, stop : Int, take : Int]
Holds(p) == p \in Holdings /\ (p.lots = 0 => p.basis = 0)
Cost(p) == Sign(p.lots) * p.basis

(* What a closing takes out of the cost of a position.                     *)
LEMMA RemovedCost ==
    ASSUME NEW p, Holds(p), NEW d \in Int, (p.lots > 0 /\ d < 0) \/ (p.lots < 0 /\ d > 0)
    PROVE  /\ Removed(p, d) \in Int
           /\ Abs(p.lots) <= Abs(d) => Removed(p, d) = p.basis
           /\ Min({Abs(d), Abs(p.lots)}) = IF Abs(d) <= Abs(p.lots) THEN Abs(d) ELSE Abs(p.lots)
<1>1. p.lots \in Int /\ p.basis \in Int
  BY DEF Holds, Holdings
<1>2. PICK l \in Int : l = Abs(p.lots) /\ l > 0
  BY <1>1 DEF Abs
<1>3. PICK a \in Int : a = Abs(d)
  BY DEF Abs
<1>4. PICK v \in Int : v = p.basis
  BY <1>1
<1>5. Min({a, l}) = IF a <= l THEN a ELSE l
  BY MinOfTwo
<1>6. PICK c \in Int : c = Min({a, l})
  BY <1>5
<1>7. ~(p.lots * d >= 0)
  BY <1>1, ProductSigns
<1>8. Removed(p, d) = (v * c) \div l
  BY <1>2, <1>3, <1>4, <1>6, <1>7 DEF Removed
<1>9. (v * c) \div l \in Int
  <2>1. v * c \in Int
    BY ProductSigns
  <2> QED
    BY <1>2, <2>1
<1>10. (v * l) \div l = v
  BY <1>2
<1>11. l <= a => c = l
  BY <1>5, <1>6
<1> QED
  BY <1>2, <1>3, <1>4, <1>5, <1>8, <1>9, <1>10, <1>11

(* What a fill realizes and what it adds to the cost make up its price     *)
(* (Position.apply_fill).                                                  *)
LEMMA LedgerConserves ==
    ASSUME NEW p, Holds(p), NEW d \in Int, NEW price \in Int
    PROVE  /\ Basis(p, d, price) \in Int /\ Realized(p, d, price) \in Int
           /\ p.lots + d = 0 => Basis(p, d, price) = 0
           /\ Realized(p, d, price)
                = Sign(p.lots + d) * Basis(p, d, price) - Cost(p) - d * price * Unit
<1>1. PICK l \in Int : l = p.lots
  BY DEF Holds, Holdings
<1>2. PICK v \in Int : v = p.basis
  BY DEF Holds, Holdings
<1>3. PICK w \in Int : w = price * Unit
  BY MoneyAssumption
<1>4. l = 0 => v = 0
  BY <1>1, <1>2 DEF Holds
<1>5. Cost(p) = Sign(l) * v
  BY <1>1, <1>2 DEF Cost
<1>6. Sign(l) * v = IF l > 0 THEN v ELSE IF l < 0 THEN -v ELSE 0
  BY DEF Sign
<1>7. PICK x \in Int : x = d * w
  OBVIOUS
<1>8. d * price * Unit = x
  BY <1>3, <1>7, MoneyAssumption
<1>9. Abs(d) * price * Unit = IF d < 0 THEN -x ELSE x
  <2>1. Abs(d) * price * Unit = Abs(d) * w
    BY <1>3, MoneyAssumption DEF Abs
  <2> QED
    BY <1>7, <2>1 DEF Abs
<1>10. CASE l = 0 \/ d = 0 \/ (l > 0 /\ d > 0) \/ (l < 0 /\ d < 0)
  <2>1. p.lots * d >= 0
    BY <1>1, <1>10, ProductSigns
  <2>2. PICK y \in Int : y = Abs(d) * price * Unit
    BY <1>9
  <2>3. Basis(p, d, price) = v + y /\ Realized(p, d, price) = 0
    BY <1>2, <2>1, <2>2 DEF Basis, Realized
  <2>4. y = IF d < 0 THEN -x ELSE x
    BY <1>9, <2>2
  <2>5. Sign(l + d) * (v + y) = IF l + d > 0 THEN v + y ELSE IF l + d < 0 THEN -(v + y) ELSE 0
    BY DEF Sign
  <2>6. d = 0 => x = 0
    BY <1>7
  <2>7. 0 = (IF l + d > 0 THEN v + y ELSE IF l + d < 0 THEN -(v + y) ELSE 0)
              - (IF l > 0 THEN v ELSE IF l < 0 THEN -v ELSE 0) - x
    BY <1>4, <1>10, <2>4, <2>6
  <2>8. l + d = 0 => v + y = 0
    BY <1>4, <1>10, <2>4, <2>6
  <2> QED
    BY <1>1, <1>5, <1>6, <1>8, <2>3, <2>5, <2>7, <2>8
<1>11. CASE (l > 0 /\ d < 0) \/ (l < 0 /\ d > 0)
  <2>1. ~(p.lots * d >= 0)
    BY <1>1, <1>11, ProductSigns
  <2>2. PICK k \in Int : k = Removed(p, d) /\ (Abs(l) <= Abs(d) => k = v)
    BY <1>1, <1>2, <1>11, RemovedCost
  <2>3. PICK c \in Int : c = Min({Abs(d), Abs(p.lots)})
                         /\ c = IF Abs(d) <= Abs(l) THEN Abs(d) ELSE Abs(l)
    <3>1. Min({Abs(d), Abs(p.lots)}) = IF Abs(d) <= Abs(l) THEN Abs(d) ELSE Abs(l)
      BY <1>1, <1>11, RemovedCost
    <3>2. Abs(d) \in Int /\ Abs(l) \in Int
      BY DEF Abs
    <3> QED
      BY <3>1, <3>2
  <2>4. c * price * Unit = c * w
    BY <1>3, MoneyAssumption
  <2>5. Realized(p, d, price) = Sign(l) * (c * w - k)
    BY <1>1, <2>1, <2>2, <2>3, <2>4 DEF Realized
  <2>6. PICK z \in Int : z = c * w
    OBVIOUS
  <2>7. Sign(l) * (z - k) = IF l > 0 THEN z - k ELSE -(z - k)
    BY <1>11 DEF Sign
  <2>8. CASE Abs(d) <= Abs(l)
    <3>1. (p.lots + d) * p.lots >= 0
      <4>1. (l > 0 /\ l + d >= 0) \/ (l < 0 /\ l + d <= 0)
        BY <1>11, <2>8 DEF Abs
      <4> QED
        BY <1>1, <4>1, ProductSigns
    <3>2. Basis(p, d, price) = v - k
      BY <1>2, <2>1, <2>2, <3>1 DEF Basis
    <3>3. z = IF d < 0 THEN -x ELSE x
      BY <1>7, <2>3, <2>6, <2>8 DEF Abs
    <3>4. l + d = 0 => k = v
      BY <1>11, <2>2 DEF Abs
    <3>5. Sign(l + d) * (v - k) = IF l + d > 0 THEN v - k ELSE IF l + d < 0 THEN -(v - k) ELSE 0
      BY DEF Sign
    <3>6. (l > 0 => l + d >= 0) /\ (l < 0 => l + d <= 0)
      BY <1>11, <2>8 DEF Abs
    <3>7. (IF l > 0 THEN z - k ELSE -(z - k))
            = (IF l + d > 0 THEN v - k ELSE IF l + d < 0 THEN -(v - k) ELSE 0)
               - (IF l > 0 THEN v ELSE IF l < 0 THEN -v ELSE 0) - x
      BY <1>11, <3>3, <3>4, <3>6
    <3> QED
      BY <1>1, <1>5, <1>6, <1>8, <2>5, <2>6, <2>7, <3>2, <3>4, <3>5, <3>7
  <2>9. CASE ~(Abs(d) <= Abs(l))
    <3>1. ~((p.lots + d) * p.lots >= 0)
      <4>1. (l > 0 /\ l + d < 0) \/ (l < 0 /\ l + d > 0)
        BY <1>11, <2>9 DEF Abs
      <4> QED
        BY <1>1, <4>1, ProductSigns
    <3>2. Basis(p, d, price) = Abs(l + d) * price * Unit
      BY <1>1, <2>1, <3>1 DEF Basis
    <3>3. PICK y \in Int : y = l * w
      OBVIOUS
    <3>4. (l + d) * w = y + x
      BY <1>7, <3>3
    <3>5. PICK u \in Int : u = Abs(l + d) * price * Unit /\ u = IF l + d < 0 THEN -(y + x) ELSE y + x
      <4>1. Abs(l + d) * price * Unit = Abs(l + d) * w
        BY <1>3, MoneyAssumption DEF Abs
      <4>2. Abs(l + d) * w = IF l + d < 0 THEN -(y + x) ELSE y + x
        BY <3>4 DEF Abs
      <4> QED
        BY <4>1, <4>2
    <3>6. z = (IF l < 0 THEN -y ELSE y) /\ k = v
      BY <2>2, <2>3, <2>6, <2>9, <3>3 DEF Abs
    <3>7. Sign(l + d) * u = IF l + d > 0 THEN u ELSE IF l + d < 0 THEN -u ELSE 0
      BY DEF Sign
    <3>8. (l > 0 => l + d < 0) /\ (l < 0 => l + d > 0)
      BY <1>11, <2>9 DEF Abs
    <3>9. (IF l > 0 THEN z - k ELSE -(z - k))
            = (IF l + d > 0 THEN u ELSE IF l + d < 0 THEN -u ELSE 0)
               - (IF l > 0 THEN v ELSE IF l < 0 THEN -v ELSE 0) - x
      BY <1>11, <3>5, <3>6, <3>8
    <3> QED
      BY <1>1, <1>5, <1>6, <1>8, <1>11, <2>5, <2>6, <2>7, <3>2, <3>5, <3>7, <3>8, <3>9
  <2> QED
    BY <2>8, <2>9
<1> QED
  BY <1>10, <1>11

(* The position after a fill and its protection.                           *)
LEMMA PositionAfter ==
    ASSUME NEW p, Holds(p), NEW d \in Int, NEW price \in Int, NEW stop \in Int, NEW take \in Int,
           NEW q, q = Protect(ApplyFill(p, d, price), stop, take)
    PROVE  /\ Holds(q) /\ q.lots = p.lots + d /\ ApplyFill(p, d, price).lots = p.lots + d
           /\ Realized(p, d, price) = Cost(q) - Cost(p) - d * price * Unit
<1> DEFINE a == ApplyFill(p, d, price)
<1>1. p.lots \in Int /\ p \in Holdings
  BY DEF Holds, Holdings
<1>2. /\ Basis(p, d, price) \in Int
      /\ Realized(p, d, price) = Sign(p.lots + d) * Basis(p, d, price) - Cost(p) - d * price * Unit
      /\ p.lots + d = 0 => Basis(p, d, price) = 0
  BY LedgerConserves
<1>3. a \in Holdings /\ a.lots = p.lots + d /\ a.basis = Basis(p, d, price)
  <2>1. CASE p.lots + d = 0
    <3>1. a = Flat
      BY <2>1 DEF ApplyFill
    <3>2. Flat \in Holdings /\ Flat.lots = 0 /\ Flat.basis = 0
      BY DEF Flat, Holdings, NoPrice
    <3> QED
      BY <1>2, <2>1, <3>1, <3>2
  <2>2. CASE p.lots + d # 0
    <3>1. a = [p EXCEPT !.lots = @ + d, !.mark = price, !.basis = Basis(p, d, price)]
      BY <2>2 DEF ApplyFill
    <3>2. p.lots + d \in Int
      BY <1>1
    <3>3. a.lots = p.lots + d /\ a.basis = Basis(p, d, price)
      BY <1>1, <3>1 DEF Holdings
    <3>4. a \in Holdings
      BY <1>1, <1>2, <3>1, <3>2 DEF Holdings
    <3> QED
      BY <3>3, <3>4
  <2> QED
    BY <2>1, <2>2
<1> HIDE DEF a
<1>4. q = a \/ q = [a EXCEPT !.stop = stop, !.take = take]
  BY DEF Protect, a
<1>5. q \in Holdings /\ q.lots = a.lots /\ q.basis = a.basis
  BY <1>3, <1>4 DEF Holdings
<1>6. Cost(q) = Sign(p.lots + d) * Basis(p, d, price)
  BY <1>3, <1>5 DEF Cost
<1>7. Holds(q)
  BY <1>2, <1>3, <1>5 DEF Holds
<1> QED
  BY <1>2, <1>3, <1>5, <1>6, <1>7 DEF a

-----------------------------------------------------------------------------
(* The state of the matching loop.                                         *)

Submissions ==
    [key : Keys, side : {"buy", "sell"}, lots : Nat, rem : Int, limit : Nat,
     tif : {"gtc", "ioc", "fok"}, post : BOOLEAN, reduce : BOOLEAN, exit : BOOLEAN,
     exp : Nat, stop : Nat, take : Nat, id : Nat, sub : Nat]

Loops ==
    [left : SUBSET Submissions, orders : SUBSET Submissions, pos : [Keys -> Holdings],
     cash : Int, flow : Int, pending : SUBSET Keys, liquid : SUBSET Keys,
     lost : SUBSET Keys, error : {NoError, "reduce-only", "protection"}]

CostsOf(ps) == [k \in Keys |-> Cost(ps[k])]

(* Money, and the pending sets.                                            *)
LoopSound(s) ==
    /\ s \in Loops
    /\ IsFiniteSet(s.left) /\ IsFiniteSet(s.orders)
    /\ \A k \in Keys : Holds(s.pos[k])
    /\ s.liquid \subseteq s.pending
    /\ s.cash = Cash + s.flow + Total(CostsOf(s.pos))

(* A total of integers, and what one changed term does to it.              *)
LEMMA CostChanges ==
    ASSUME NEW ps, \A j \in Keys : Holds(ps[j]), NEW k \in Keys, NEW q, Holds(q),
           ps \in [Keys -> Holdings]
    PROVE  /\ Total(CostsOf(ps)) \in Int /\ Cost(ps[k]) \in Int /\ Cost(q) \in Int
           /\ Total(CostsOf([ps EXCEPT ![k] = q])) = Total(CostsOf(ps)) + (Cost(q) - Cost(ps[k]))
<1> DEFINE f == CostsOf(ps)
           h == CostsOf([ps EXCEPT ![k] = q])
<1>1. \A p : Holds(p) => Cost(p) \in Int
  BY DEF Holds, Holdings, Cost, Sign
<1>2. f \in [Keys -> Int] /\ h \in [Keys -> Int]
  BY <1>1 DEF CostsOf
<1>3. h[k] = Cost(q) /\ f[k] = Cost(ps[k]) /\ \A j \in Keys : j # k => h[j] = f[j]
  BY DEF CostsOf
<1> HIDE DEF f, h
<1>4. Total(f) = Sum(f, Keys) /\ Total(h) = Sum(h, Keys)
  <2>1. DOMAIN f = Keys /\ DOMAIN h = Keys
    BY <1>2
  <2> QED
    BY <2>1 DEF Total, Sum
<1>5. \A x \in Keys : f[x] \in Int
  BY <1>2
<1>6. Sum(f, Keys) \in Int
  BY <1>5, KeysAssumption, SumType
<1>7. h[k] \in Int
  BY <1>2
<1>8. Sum(h, Keys) = Sum(f, Keys) + (h[k] - f[k])
  BY <1>3, <1>5, <1>7, KeysAssumption, SumChanges
<1> QED
  BY <1>1, <1>3, <1>4, <1>6, <1>8 DEF f, h

(* An order stays.                                                         *)
LEMMA KeptSound ==
    ASSUME NEW s, LoopSound(s), NEW o \in Submissions, NEW r, r = Kept(s, o)
    PROVE  /\ LoopSound(r) /\ r.orders = s.orders \cup {o} /\ r.left = s.left /\ r.pos = s.pos
           /\ r.pending = s.pending /\ r.lost = s.lost /\ r.error = s.error
<1>1. s \in Loops
  BY DEF LoopSound
<1>2. r = [s EXCEPT !.orders = s.orders \cup {o}]
  BY DEF Kept
<1>3. s.orders \cup {o} \in SUBSET Submissions
  BY <1>1 DEF Loops
<1>4. r \in Loops
  BY <1>1, <1>2, <1>3 DEF Loops
<1>5. /\ r.orders = s.orders \cup {o} /\ r.left = s.left /\ r.pos = s.pos /\ r.cash = s.cash /\ r.flow = s.flow
      /\ r.pending = s.pending /\ r.lost = s.lost /\ r.liquid = s.liquid /\ r.error = s.error
  BY <1>1, <1>2 DEF Loops
<1>6. IsFiniteSet(r.orders)
  BY <1>5, FS_AddElement DEF LoopSound
<1> QED
  BY <1>4, <1>5, <1>6 DEF LoopSound

(* No exit that stays pending and is not lost has its position enlarged.   *)
Narrower(p, q) ==
    /\ p.lots > 0 => q.lots > 0 /\ q.lots <= p.lots
    /\ p.lots < 0 => q.lots < 0 /\ p.lots <= q.lots
    /\ p.lots = 0 => q.lots = 0

Narrows(s, r) ==
    \A k \in r.pending \ r.lost : k \in s.pending \ s.lost /\ Narrower(s.pos[k], r.pos[k])

(* The fill reaches the ledger.                                            *)
LEMMA ConsumeSound ==
    ASSUME NEW s, LoopSound(s), NEW o \in Submissions, NEW n \in Int, NEW price \in Int,
           NEW fee \in Int, NEW r, r = Consume(s, o, n, price, fee)
    PROVE  /\ LoopSound(r) /\ r.left = s.left /\ r.orders = s.orders
           /\ r.error = NoError =>
                /\ s.error = NoError /\ Narrows(s, r)
                /\ r.pos[o.key].lots = s.pos[o.key].lots + Signed(o, n)
                /\ r.pos[o.key].lots = 0 => o.key \notin r.pending
<1>1. /\ s \in Loops /\ o.key \in Keys /\ Holds(s.pos[o.key]) /\ o.stop \in Int /\ o.take \in Int
  BY DEF LoopSound, Submissions
<1>2. PICK k \in Keys : k = o.key
  BY <1>1
<1>3. PICK d \in Int : d = Signed(o, n)
  BY DEF Signed
<1>4. PICK p : p = s.pos[k] /\ Holds(p)
  BY <1>1, <1>2
<1>5. PICK a : a = ApplyFill(p, d, price)
  OBVIOUS
<1>6. PICK q : q = Protect(a, o.stop, o.take)
  OBVIOUS
<1>7. /\ Holds(q) /\ q.lots = p.lots + d /\ a.lots = p.lots + d
      /\ Realized(p, d, price) = Cost(q) - Cost(p) - d * price * Unit
  BY <1>1, <1>4, <1>5, <1>6, PositionAfter
<1>8. PICK g \in Int : g = Realized(p, d, price)
  BY <1>4, LedgerConserves
<1>9. PICK x \in Int : x = d * price * Unit
  BY MoneyAssumption
<1>10. CASE \E e \in {"reduce-only", "protection"} : r = [s EXCEPT !.error = e]
  <2>1. PICK e \in {"reduce-only", "protection"} : r = [s EXCEPT !.error = e]
    BY <1>10
  <2>2. r \in Loops
    BY <1>1, <2>1 DEF Loops
  <2>3. /\ r.orders = s.orders /\ r.left = s.left /\ r.pos = s.pos /\ r.cash = s.cash /\ r.flow = s.flow
        /\ r.pending = s.pending /\ r.lost = s.lost /\ r.liquid = s.liquid /\ r.error = e
    BY <1>1, <2>1 DEF Loops
  <2> QED
    BY <2>2, <2>3 DEF LoopSound, NoError
<1> DEFINE lo == IF a.lots * d > 0 /\ k \in s.pending THEN s.lost \cup {k} ELSE s.lost
           b == [s EXCEPT !.pos[k] = q, !.cash = @ + g - fee, !.flow = @ - x - fee, !.lost = lo]
<1>11. CASE r = IF Open(a) THEN b ELSE Closed(b, k)
  <2>1. lo \in SUBSET Keys /\ [s.pos EXCEPT ![k] = q] \in [Keys -> Holdings]
    BY <1>1, <1>7 DEF Loops, Holds
  <2>2. PICK i1 \in Int : i1 = s.cash
    BY <1>1 DEF Loops
  <2>3. PICK i2 \in Int : i2 = s.flow
    BY <1>1 DEF Loops
  <2> HIDE DEF lo
  <2>4. b \in Loops
    <3>1. PICK ps \in [Keys -> Holdings] : ps = [s.pos EXCEPT ![k] = q]
      BY <2>1
    <3>2. PICK j1 \in Int : j1 = s.cash + g - fee
      BY <2>2
    <3>3. PICK j2 \in Int : j2 = s.flow - x - fee
      BY <2>3
    <3>4. b = [s EXCEPT !.pos = ps, !.cash = j1, !.flow = j2, !.lost = lo]
      BY <1>1, <3>1, <3>2, <3>3 DEF Loops
    <3> HIDE DEF b
    <3> QED
      BY <1>1, <2>1, <3>4 DEF Loops
  <2>5. /\ b.pos = [s.pos EXCEPT ![k] = q] /\ b.cash = i1 + g - fee /\ b.flow = i2 - x - fee /\ b.lost = lo
        /\ b.left = s.left /\ b.orders = s.orders /\ b.error = s.error
        /\ b.pending = s.pending /\ b.liquid = s.liquid
    BY <1>1, <2>2, <2>3 DEF Loops
  <2> HIDE DEF b
  <2>6. b.cash = Cash + b.flow + Total(CostsOf(b.pos))
    <3>1. s.pos \in [Keys -> Holdings] /\ \A j \in Keys : Holds(s.pos[j])
      BY <1>1 DEF LoopSound, Loops
    <3>2. PICK t1 \in Int : t1 = Total(CostsOf(s.pos))
      BY <1>7, <3>1, CostChanges
    <3>3. PICK c1 \in Int : c1 = Cost(p)
      BY <1>4, <1>7, <3>1, CostChanges
    <3>4. PICK c2 \in Int : c2 = Cost(q)
      BY <1>4, <1>7, <3>1, CostChanges
    <3>5. Total(CostsOf(b.pos)) = t1 + (c2 - c1)
      BY <1>4, <1>7, <2>5, <3>1, <3>2, <3>3, <3>4, CostChanges
    <3>6. i1 = Cash + i2 + t1
      BY <2>2, <2>3, <3>2 DEF LoopSound
    <3>7. g = c2 - c1 - x
      BY <1>7, <1>8, <1>9, <3>3, <3>4
    <3>8. i1 + g - fee = Cash + (i2 - x - fee) + (t1 + (c2 - c1))
      BY <3>6, <3>7, MoneyAssumption
    <3> QED
      BY <2>5, <3>5, <3>8
  <2>7. \A j \in Keys : Holds(b.pos[j]) /\ (b.pos[j] = IF j = k THEN q ELSE s.pos[j])
    BY <1>1, <1>7, <2>5 DEF LoopSound, Loops
  <2>8. LoopSound(b)
    BY <2>4, <2>5, <2>6, <2>7 DEF LoopSound
  <2>9. b.pos[k].lots = p.lots + d
    BY <1>7, <2>7
  <2>10. CASE Open(a)
    <3>1. r = b /\ p.lots + d # 0
      BY <1>7, <1>11, <2>10 DEF Open
    <3>2. ASSUME NEW j \in b.pending \ b.lost PROVE j \in s.pending \ s.lost /\ Narrower(s.pos[j], b.pos[j])
      <4>1. j \in s.pending \ s.lost /\ j \in Keys
        BY <1>1, <2>5, <3>2 DEF lo, Loops
      <4>2. CASE j # k
        <5>1. b.pos[j] = s.pos[j] /\ s.pos[j].lots \in Int
          BY <1>1, <2>7, <4>1, <4>2 DEF Loops, Holdings
        <5> QED
          BY <4>1, <5>1 DEF Narrower
      <4>3. CASE j = k
        <5>1. PICK l \in Int : l = p.lots
          BY <1>4 DEF Holds, Holdings
        <5>2. ~((l + d) * d > 0)
          BY <1>7, <2>5, <3>2, <4>1, <4>3, <5>1 DEF lo
        <5>3. ~((l + d > 0 /\ d > 0) \/ (l + d < 0 /\ d < 0))
          BY <5>2, ProductSigns
        <5>4. s.pos[j].lots = l /\ b.pos[j].lots = l + d /\ l + d # 0
          BY <1>4, <2>9, <3>1, <4>3, <5>1
        <5>5. (l > 0 => l + d > 0 /\ l + d <= l) /\ (l < 0 => l + d < 0 /\ l <= l + d) /\ l # 0
          BY <5>3, <5>4
        <5> QED
          BY <4>1, <5>4, <5>5 DEF Narrower
      <4> QED
        BY <4>2, <4>3
    <3> QED
      BY <1>2, <1>3, <1>4, <2>5, <2>8, <2>9, <3>1, <3>2 DEF Narrows
  <2>11. CASE ~Open(a)
    <3>1. r = [b EXCEPT !.pending = @ \ {k}, !.liquid = @ \ {k}, !.lost = @ \ {k}] /\ p.lots + d = 0
      BY <1>7, <1>11, <2>11 DEF Open, Closed
    <3>2. r \in Loops
      BY <2>4, <3>1 DEF Loops
    <3>3. /\ r.orders = b.orders /\ r.left = b.left /\ r.pos = b.pos /\ r.cash = b.cash /\ r.flow = b.flow
          /\ r.pending = b.pending \ {k} /\ r.lost = b.lost \ {k} /\ r.liquid = b.liquid \ {k} /\ r.error = b.error
      BY <2>4, <3>1 DEF Loops
    <3>4. LoopSound(r)
      BY <2>8, <3>2, <3>3 DEF LoopSound
    <3>5. ASSUME NEW j \in r.pending \ r.lost PROVE j \in s.pending \ s.lost /\ Narrower(s.pos[j], r.pos[j])
      <4>1. j # k /\ j \in s.pending \ s.lost /\ j \in Keys
        BY <1>1, <2>5, <3>3, <3>5 DEF lo, Loops
      <4>2. r.pos[j] = s.pos[j] /\ s.pos[j].lots \in Int
        BY <1>1, <2>7, <3>3, <4>1 DEF Loops, Holdings
      <4> QED
        BY <4>1, <4>2 DEF Narrower
    <3> QED
      BY <1>2, <1>3, <1>4, <2>5, <2>9, <3>3, <3>4, <3>5 DEF Narrows
  <2> QED
    BY <2>10, <2>11
<1>12. (\E e \in {"reduce-only", "protection"} : r = [s EXCEPT !.error = e])
       \/ r = IF Open(a) THEN b ELSE Closed(b, k)
  BY <1>2, <1>3, <1>4, <1>5, <1>6, <1>8, <1>9 DEF Consume
<1> QED
  BY <1>10, <1>11, <1>12

(* What an exit needs: an order of the engine's own form that can close    *)
(* all that is held.                                                       *)
ExitForm(o) ==
    o.exit /\ o.reduce /\ o.limit = NoPrice /\ o.tif = "gtc" /\ ~o.post /\ o.exp = 0

Covers(o, n, k, p) ==
    /\ o.key = k /\ ExitForm(o)
    /\ p.lots # 0 /\ o.side = IF p.lots > 0 THEN "sell" ELSE "buy"
    /\ Abs(p.lots) <= n

Waiting(k, p) == \E i \in DOMAIN queue : Covers(queue[i].order, queue[i].order.lots, k, p)

(* Every exit pending and not lost is covered, by the queue, by the orders *)
(* left or kept, or by an order of X.                                      *)
Served(s, X) ==
    s.error = NoError =>
        \A k \in s.pending \ s.lost :
            \/ Waiting(k, s.pos[k])
            \/ \E o \in (s.left \cup s.orders) \cup X : Covers(o, o.rem, k, s.pos[k])

(* A position that narrows stays covered.                                  *)
LEMMA StillCovered ==
    ASSUME NEW o, NEW n \in Int, NEW k, NEW p, NEW q, p.lots \in Int, q.lots \in Int,
           Covers(o, n, k, p), Narrower(p, q)
    PROVE  Covers(o, n, k, q)
<1>1. PICK l \in Int : l = p.lots
  OBVIOUS
<1>2. PICK m \in Int : m = q.lots
  OBVIOUS
<1>3. l # 0 /\ (IF l < 0 THEN -l ELSE l) <= n
  BY <1>1 DEF Covers, Abs
<1>4. (l > 0 => m > 0 /\ m <= l) /\ (l < 0 => m < 0 /\ l <= m)
  BY <1>1, <1>2 DEF Narrower
<1>5. m # 0 /\ (m > 0 <=> l > 0) /\ (IF m < 0 THEN -m ELSE m) <= n
  BY <1>3, <1>4
<1>6. o.key = k /\ ExitForm(o) /\ o.side = IF l > 0 THEN "sell" ELSE "buy"
  BY <1>1 DEF Covers
<1> QED
  BY <1>2, <1>5, <1>6 DEF Covers, Abs

(* The form of what waits in the queue.                                    *)
QueueTyped == \A i \in DOMAIN queue : queue[i].order \in Forms

(* An order that is no cover may go.                                       *)
LEMMA GoneServed ==
    ASSUME NEW s, NEW o, Served(s, {o}), ~Covers(o, o.rem, o.key, s.pos[o.key])
    PROVE  Served(s, {})
  BY DEF Served, Covers

(* What narrows is served by what served before.                           *)
LEMMA NarrowServed ==
    ASSUME QueueTyped, NEW s, LoopSound(s), NEW r, LoopSound(r), NEW X \in SUBSET Submissions,
           Served(s, X), NEW k, r.error = NoError, s.error = NoError, Narrows(s, r), k \in r.pending \ r.lost
    PROVE  \/ Waiting(k, r.pos[k])
           \/ \E o \in (s.left \cup s.orders) \cup X :
                 Covers(o, o.rem, k, s.pos[k]) /\ Covers(o, o.rem, k, r.pos[k])
<1>1. k \in s.pending \ s.lost /\ Narrower(s.pos[k], r.pos[k])
  BY DEF Narrows
<1>2. k \in Keys /\ s \in Loops /\ r \in Loops
  BY DEF LoopSound, Loops
<1>3. s.pos[k].lots \in Int /\ r.pos[k].lots \in Int
  BY <1>2 DEF Loops, Holdings
<1>4. CASE Waiting(k, s.pos[k])
  <2>1. PICK i \in DOMAIN queue : Covers(queue[i].order, queue[i].order.lots, k, s.pos[k])
    BY <1>4 DEF Waiting
  <2>2. queue[i].order.lots \in Int
    BY DEF QueueTyped, Forms
  <2>3. Covers(queue[i].order, queue[i].order.lots, k, r.pos[k])
    BY <1>1, <1>3, <2>1, <2>2, StillCovered
  <2> QED
    BY <2>3 DEF Waiting
<1>5. ASSUME NEW o \in (s.left \cup s.orders) \cup X, Covers(o, o.rem, k, s.pos[k])
      PROVE  Covers(o, o.rem, k, r.pos[k])
  <2>1. o.rem \in Int
    BY <1>2 DEF Loops, Submissions
  <2> QED
    BY <1>1, <1>3, <1>5, <2>1, StillCovered
<1> QED
  BY <1>1, <1>4, <1>5 DEF Served

(* The caps and the match are numbers.                                     *)
SnapOK(snap) ==
    /\ snap.key \in Keys /\ snap.bid \in Nat \ {0} /\ snap.ask \in Nat \ {0} /\ snap.mark \in Nat
    /\ snap.last \in Nat /\ snap.take \in Nat /\ snap.pass \in Nat

LEMMA TotalInt ==
    ASSUME NEW f \in [Keys -> Int]
    PROVE  Total(f) \in Int
<1>1. Total(f) = Sum(f, Keys)
  <2>1. DOMAIN f = Keys
    OBVIOUS
  <2> QED
    BY <2>1 DEF Total, Sum
<1>2. \A x \in Keys : f[x] \in Int
  OBVIOUS
<1>3. Sum(f, Keys) \in Int
  BY <1>2, KeysAssumption, SumType
<1> QED
  BY <1>1, <1>3

LEMMA MarginType ==
    ASSUME NEW ps \in [Keys -> Holdings], NEW c \in Int
    PROVE  AvailableMargin(ps, c) \in Int /\ AvailableMargin(ps, c) >= 0
<1>1. PICK u \in [Keys -> Int] : u = [k \in Keys |-> Unrealized(ps[k])]
  <2>1. \A p \in Holdings : Unrealized(p) \in Int
    <3> SUFFICES ASSUME NEW p \in Holdings PROVE Unrealized(p) \in Int
      OBVIOUS
    <3>1. p.lots \in Int /\ p.mark \in Int /\ p.basis \in Int
      BY DEF Holdings
    <3>2. p.lots * p.mark * Unit \in Int
      BY <3>1, MoneyAssumption
    <3>3. Sign(p.lots) * p.basis \in Int
      BY <3>1 DEF Sign
    <3> QED
      BY <3>2, <3>3 DEF Unrealized
  <2> QED
    BY <2>1
<1>2. PICK g \in [Keys -> Int] : g = [k \in Keys |-> Abs(ps[k].lots) * ps[k].mark]
  <2>1. \A p \in Holdings : Abs(p.lots) * p.mark \in Int
    <3> SUFFICES ASSUME NEW p \in Holdings PROVE Abs(p.lots) * p.mark \in Int
      OBVIOUS
    <3>1. Abs(p.lots) \in Int /\ p.mark \in Int
      BY DEF Holdings, Abs
    <3> QED
      BY <3>1
  <2> QED
    BY <2>1
<1>3. PICK e \in Int : e = Equity(ps, c)
  BY <1>1, TotalInt DEF Equity
<1>4. PICK h \in Int : h = Gross(ps)
  BY <1>2, TotalInt DEF Gross
<1>5. Unit \div Leverage \in Int
  BY MoneyAssumption
<1>6. PICK y \in Int : y = e - h * (Unit \div Leverage)
  BY <1>5
<1>7. AvailableMargin(ps, c) = Max({0, y})
  BY <1>3, <1>4, <1>6 DEF AvailableMargin
<1> QED
  BY <1>7, MaxOfTwo

LEMMA MaximumFillType ==
    ASSUME NEW s \in Loops, NEW o \in Submissions, NEW price \in Nat \ {0}, NEW m,
           m = MaximumFill(s, o, price)
    PROVE  /\ m.lots \in Int
           /\ o.reduce =>
                /\ m.some = (Closing(s.pos[o.key], o) > 0)
                /\ m.lots = IF o.rem <= Closing(s.pos[o.key], o) THEN o.rem ELSE Closing(s.pos[o.key], o)
<1>1. o.key \in Keys /\ o.rem \in Int /\ s.pos \in [Keys -> Holdings] /\ s.cash \in Int
  BY DEF Loops, Submissions
<1>2. s.pos[o.key].lots \in Int
  BY <1>1 DEF Holdings
<1>3. PICK c \in Int : c = Closing(s.pos[o.key], o)
  BY <1>2 DEF Closing, Abs
<1>4. PICK y \in Int : y = AvailableMargin(s.pos, s.cash)
  BY <1>1, MarginType
<1>5. PICK u \in Int : u = Unit \div Leverage /\ u > 0
  <2>1. Unit \in Nat /\ Leverage \in Nat /\ Unit > 0 /\ Leverage > 0 /\ Unit % Leverage = 0
    BY MoneyAssumption
  <2> QED
    BY <2>1
<1>6. PICK v \in Int : v = price * (u + Fee) /\ v > 0
  <2>1. PICK x \in Int : x = u + Fee /\ x > 0
    BY <1>5, MoneyAssumption
  <2>2. price * x \in Int /\ price * x > 0
    BY <2>1, ProductSigns
  <2> QED
    BY <2>1, <2>2
<1>7. PICK w \in Int : w = y \div v
  BY <1>6
<1>8. PICK n \in Int : n = o.rem
  BY <1>1
<1>9. CASE o.reduce
  <2>1. m = [lots |-> Min({n, c}), some |-> c > 0]
    BY <1>3, <1>8, <1>9 DEF MaximumFill
  <2>2. Min({n, c}) = IF n <= c THEN n ELSE c
    BY MinOfTwo
  <2> QED
    BY <1>3, <1>8, <2>1, <2>2
<1>10. CASE ~o.reduce
  <2>1. m = [lots |-> Min({n, c + w}), some |-> c > 0 \/ y > 0]
    BY <1>3, <1>4, <1>5, <1>6, <1>7, <1>8, <1>10 DEF MaximumFill
  <2>2. Min({n, c + w}) = IF n <= c + w THEN n ELSE c + w
    BY MinOfTwo
  <2> QED
    BY <1>10, <2>1, <2>2
<1> QED
  BY <1>9, <1>10

LEMMA MatchType ==
    ASSUME NEW o \in Submissions, NEW snap, SnapOK(snap), NEW cap \in Int, NEW m,
           m = MatchDetails(o, snap, cap)
    PROVE  /\ m.lots \in Int /\ m.price \in Int /\ FillFee(m) \in Int
           /\ ExitForm(o) => ~m.refused /\ m.lots = IF cap <= snap.take THEN cap ELSE snap.take
<1>1. /\ o.limit \in Int /\ snap.take \in Int /\ snap.pass \in Int /\ snap.ask \in Int /\ snap.bid \in Int
      /\ Slip \in Int /\ Fee \in Int /\ MakerFee \in Int
  BY MoneyAssumption DEF Submissions, SnapOK
<1>2. Marketable(o, snap) \in BOOLEAN
  BY DEF Marketable
<1>3. PICK price \in Int : price = IF Marketable(o, snap) THEN TakerPrice(o, snap) ELSE o.limit
  BY <1>1 DEF TakerPrice
<1>4. PICK n \in Int : n = Min({cap, IF Marketable(o, snap) THEN snap.take ELSE snap.pass})
                        /\ (Marketable(o, snap) => n = IF cap <= snap.take THEN cap ELSE snap.take)
  <2>1. PICK x \in Int : x = IF Marketable(o, snap) THEN snap.take ELSE snap.pass
    BY <1>1
  <2>2. Min({cap, x}) = IF cap <= x THEN cap ELSE x
    BY MinOfTwo
  <2> QED
    BY <2>1, <2>2
<1>5. m.price = price /\ m.lots \in {0, n} /\ m.taker = Marketable(o, snap)
      /\ m.refused = (o.post /\ Marketable(o, snap))
  BY <1>3, <1>4 DEF MatchDetails
<1>6. FillFee(m) \in Int
  <2>1. PICK a \in Int : a = m.lots * m.price
    BY <1>5
  <2>2. PICK b \in Int : b = IF m.taker THEN Fee ELSE MakerFee
    BY <1>1
  <2>3. a * b \in Int
    BY ProductSigns
  <2> QED
    BY <2>1, <2>2, <2>3 DEF FillFee
<1>7. ExitForm(o) => ~m.refused /\ m.lots = n /\ Marketable(o, snap)
  <2> SUFFICES ASSUME ExitForm(o) PROVE ~m.refused /\ m.lots = n /\ Marketable(o, snap)
    OBVIOUS
  <2>1. o.limit = NoPrice /\ ~o.post
    BY DEF ExitForm
  <2>2. Marketable(o, snap)
    BY <2>1 DEF Marketable
  <2>3. m.lots = n
    BY <1>4, <2>1, <2>2 DEF MatchDetails
  <2> QED
    BY <1>5, <2>1, <2>2, <2>3
<1> QED
  BY <1>4, <1>5, <1>6, <1>7

LEMMA KeptServed ==
    ASSUME NEW s, LoopSound(s), NEW o \in Submissions, Served(s, {o}), NEW r, r = Kept(s, o)
    PROVE  LoopSound(r) /\ r.left = s.left /\ Served(r, {})
<1>1. /\ LoopSound(r) /\ r.orders = s.orders \cup {o} /\ r.left = s.left /\ r.pos = s.pos
      /\ r.pending = s.pending /\ r.lost = s.lost /\ r.error = s.error
  BY KeptSound
<1> QED
  BY <1>1 DEF Served

(* An order that matches (ExecutionSimulator.match).                       *)
LEMMA ExecutedKeeps ==
    ASSUME QueueTyped, NEW s, LoopSound(s), NEW o \in Submissions, Served(s, {o}), NEW m,
           m.lots \in Int, m.price \in Int, FillFee(m) \in Int, NEW r, r = Executed(s, o, m),
           Covers(o, o.rem, o.key, s.pos[o.key]) =>
              ~m.refused /\ 0 <= m.lots /\ m.lots <= Abs(s.pos[o.key].lots)
    PROVE  LoopSound(r) /\ r.left = s.left /\ Served(r, {})
<1> DEFINE k == o.key
           cov == Covers(o, o.rem, k, s.pos[k])
           left == [o EXCEPT !.rem = @ - m.lots]
           f == Consume(s, o, m.lots, m.price, FillFee(m))
<1>1. CASE r = Kept(s, o)
  BY <1>1, KeptServed
<1>2. CASE r = s /\ ~cov
  BY <1>2, GoneServed
<1>3. /\ o.rem \in Int /\ k \in Keys /\ s \in Loops /\ s.pos[k].lots \in Int
  BY DEF Submissions, LoopSound, Loops, Holdings
<1>4. left \in Submissions /\ left.rem = o.rem - m.lots /\ left.key = o.key /\ left.side = o.side
      /\ (ExitForm(o) => ExitForm(left))
  BY <1>3 DEF Submissions, ExitForm
<1>5. /\ LoopSound(f) /\ f.left = s.left /\ f.orders = s.orders
      /\ f.error = NoError =>
            /\ s.error = NoError /\ Narrows(s, f)
            /\ f.pos[k].lots = s.pos[k].lots + Signed(o, m.lots)
            /\ f.pos[k].lots = 0 => k \notin f.pending
  BY ConsumeSound
<1>6. PICK l \in Int : l = s.pos[k].lots
  BY <1>3
<1>7. PICK n \in Int : n = m.lots
  OBVIOUS
<1>8. PICK a \in Int : a = o.rem
  BY <1>3
<1>9. cov => /\ l # 0 /\ (IF l < 0 THEN -l ELSE l) <= a /\ 0 <= n /\ n <= (IF l < 0 THEN -l ELSE l)
             /\ Signed(o, n) = IF l > 0 THEN -n ELSE n
  BY <1>6, <1>7, <1>8 DEF Covers, Abs, Signed
<1> HIDE DEF left, f
<1>10. ASSUME f.error = NoError, NEW j \in f.pending \ f.lost
       PROVE  \/ Waiting(j, f.pos[j])
              \/ \E x \in s.left \cup s.orders : Covers(x, x.rem, j, f.pos[j])
              \/ j = k /\ cov /\ Covers(o, o.rem, k, f.pos[k])
  <2>1. \/ Waiting(j, f.pos[j])
        \/ \E x \in (s.left \cup s.orders) \cup {o} :
              Covers(x, x.rem, j, s.pos[j]) /\ Covers(x, x.rem, j, f.pos[j])
    BY <1>5, <1>10, NarrowServed
  <2> QED
    BY <2>1 DEF Covers
<1>11. CASE r = f /\ (left.rem = 0 \/ o.tif = "ioc")
  <2>1. ASSUME f.error = NoError, NEW j \in f.pending \ f.lost, cov, j = k PROVE FALSE
    <3>1. o.tif = "gtc"
      BY <2>1 DEF Covers, ExitForm
    <3>2. a = n
      BY <1>4, <1>7, <1>8, <1>11, <3>1
    <3>3. f.pos[k].lots = l + (IF l > 0 THEN -n ELSE n)
      BY <1>5, <1>6, <1>7, <1>9, <2>1
    <3>4. l + (IF l > 0 THEN -n ELSE n) = 0
      BY <1>9, <2>1, <3>2
    <3> QED
      BY <1>5, <2>1, <3>3, <3>4
  <2>2. Served(f, {})
    BY <1>5, <1>10, <2>1 DEF Served
  <2> QED
    BY <1>5, <1>11, <2>2
<1>12. CASE r = Kept(f, left)
  <2>1. /\ LoopSound(r) /\ r.orders = f.orders \cup {left} /\ r.left = f.left /\ r.pos = f.pos
        /\ r.pending = f.pending /\ r.lost = f.lost /\ r.error = f.error
    BY <1>4, <1>5, <1>12, KeptSound
  <2>2. ASSUME f.error = NoError, NEW j \in f.pending \ f.lost, cov, Covers(o, o.rem, k, f.pos[k]), j = k
        PROVE  Covers(left, left.rem, k, f.pos[k])
    <3>1. PICK i \in Int : i = f.pos[k].lots /\ i = l + (IF l > 0 THEN -n ELSE n)
      BY <1>5, <1>6, <1>7, <1>9, <2>2
    <3>2. (IF i < 0 THEN -i ELSE i) <= a - n
      BY <1>9, <2>2, <3>1
    <3>3. left.rem = a - n
      BY <1>4, <1>7, <1>8
    <3>4. i # 0 /\ (o.side = IF i > 0 THEN "sell" ELSE "buy") /\ ExitForm(o)
      BY <2>2, <3>1 DEF Covers
    <3> QED
      BY <1>4, <3>1, <3>2, <3>3, <3>4 DEF Covers, Abs
  <2>3. Served(r, {})
    BY <1>5, <1>10, <2>1, <2>2 DEF Served
  <2> QED
    BY <1>5, <2>1, <2>3
<1>13. \/ r = Kept(s, o)
       \/ r = s /\ ~cov
       \/ r = f /\ (left.rem = 0 \/ o.tif = "ioc")
       \/ r = Kept(f, left)
  <2>1. m.refused => ~cov
    OBVIOUS
  <2>2. o.tif # "gtc" => ~cov
    BY DEF Covers, ExitForm
  <2> QED
    BY <2>1, <2>2 DEF Executed, left, f
<1> QED
  BY <1>1, <1>2, <1>11, <1>12, <1>13

(* One candidate.                                                          *)
LEMMA MatchKeeps ==
    ASSUME QueueTyped, NEW s, LoopSound(s), NEW o \in Submissions, Served(s, {o}),
           NEW snap, SnapOK(snap), NEW t, NEW r, r = Match(s, o, snap, t)
    PROVE  LoopSound(r) /\ r.left = s.left /\ Served(r, {})
<1> DEFINE k == o.key
           cov == Covers(o, o.rem, k, s.pos[k])
           price == IF o.side = "buy" THEN snap.ask ELSE snap.bid
           cap == MaximumFill(s, o, price)
           m == MatchDetails(o, snap, cap.lots)
<1>1. CASE r = Kept(s, o)
  BY <1>1, KeptServed
<1>2. CASE r = s /\ ~cov
  BY <1>2, GoneServed
<1>3. s \in Loops /\ price \in Nat \ {0} /\ k \in Keys /\ s.pos[k].lots \in Int /\ o.rem \in Int
  BY DEF LoopSound, SnapOK, Submissions, Loops, Holdings
<1>4. /\ cap.lots \in Int
      /\ o.reduce =>
            /\ cap.some = (Closing(s.pos[k], o) > 0)
            /\ cap.lots = IF o.rem <= Closing(s.pos[k], o) THEN o.rem ELSE Closing(s.pos[k], o)
  <2> HIDE DEF price
  <2> QED
    BY <1>3, MaximumFillType
<1> HIDE DEF cap
<1>5. /\ m.lots \in Int /\ m.price \in Int /\ FillFee(m) \in Int
      /\ ExitForm(o) => ~m.refused /\ m.lots = IF cap.lots <= snap.take THEN cap.lots ELSE snap.take
  BY <1>4, MatchType
<1> HIDE DEF m
<1>6. ASSUME cov PROVE cap.some /\ ~m.refused /\ 0 <= m.lots /\ m.lots <= Abs(s.pos[k].lots)
  <2>1. PICK l \in Int : l = s.pos[k].lots
    BY <1>3
  <2>2. PICK a \in Int : a = o.rem
    BY <1>3
  <2>3. /\ ExitForm(o) /\ o.reduce /\ l # 0 /\ o.side = (IF l > 0 THEN "sell" ELSE "buy")
        /\ Abs(l) <= a
    BY <1>6, <2>1, <2>2 DEF Covers, ExitForm
  <2>4. PICK b \in Int : b = Abs(l) /\ b > 0
    BY <2>3 DEF Abs
  <2>5. Closing(s.pos[k], o) = b
    <3>1. Signed(o, 1) = IF l > 0 THEN -1 ELSE 1
      BY <2>3 DEF Signed
    <3>2. l * Signed(o, 1) < 0
      BY <2>3, <3>1
    <3> QED
      BY <2>1, <2>4, <3>2 DEF Closing
  <2>6. cap.some /\ cap.lots = b
    <3>1. (b > 0) = TRUE
      BY <2>4
    <3>2. cap.some = TRUE
      BY <1>4, <2>3, <2>5, <3>1
    <3>3. b <= a
      BY <2>3, <2>4
    <3>4. cap.lots = IF a <= b THEN a ELSE b
      BY <1>4, <2>2, <2>3, <2>5
    <3>5. cap.lots = b
      BY <3>3, <3>4
    <3> QED
      BY <3>2, <3>5
  <2>7. m.lots = IF b <= snap.take THEN b ELSE snap.take
    BY <1>5, <2>3, <2>6
  <2>8. snap.take \in Nat
    BY DEF SnapOK
  <2> QED
    BY <1>5, <2>1, <2>3, <2>4, <2>6, <2>7, <2>8
<1>7. CASE r = Executed(s, o, m)
  BY <1>5, <1>6, <1>7, ExecutedKeeps
<1>8. CASE r = [s EXCEPT !.lost = IF o.exit THEN @ \cup {k} ELSE @]
  <2>1. PICK lo \in SUBSET Keys : lo = (IF o.exit THEN s.lost \cup {k} ELSE s.lost)
    BY <1>3 DEF Loops
  <2>2. r = [s EXCEPT !.lost = lo]
    BY <1>3, <1>8, <2>1 DEF Loops
  <2>3. r \in Loops
    BY <1>3, <2>2 DEF Loops
  <2>4. /\ r.orders = s.orders /\ r.left = s.left /\ r.pos = s.pos /\ r.cash = s.cash /\ r.flow = s.flow
        /\ r.pending = s.pending /\ r.lost = lo /\ r.liquid = s.liquid /\ r.error = s.error
    BY <1>3, <2>2 DEF Loops
  <2>5. LoopSound(r)
    BY <2>3, <2>4 DEF LoopSound
  <2>6. \A j \in r.pending \ r.lost : j \in s.pending \ s.lost /\ ~Covers(o, o.rem, j, s.pos[j])
    BY <2>1, <2>4 DEF Covers, ExitForm
  <2>7. Served(r, {})
    BY <2>4, <2>6 DEF Served
  <2> QED
    BY <2>4, <2>5, <2>7
<1>9. \/ r = Kept(s, o)
      \/ r = s /\ ~cov
      \/ r = Executed(s, o, m)
      \/ r = [s EXCEPT !.lost = IF o.exit THEN @ \cup {k} ELSE @]
  <2>1. o.exp # 0 => ~cov
    BY DEF Covers, ExitForm
  <2>2. ~cap.some => ~cov
    BY <1>6
  <2>3. \/ r = Kept(s, o) \/ (r = s /\ o.exp # 0) \/ r = Capped(s, o, snap, cap)
    BY DEF Match, cap
  <2>4. CASE r = Capped(s, o, snap, cap)
    BY <2>2, <2>4 DEF Capped, m
  <2> QED
    BY <2>1, <2>3, <2>4
<1> QED
  BY <1>1, <1>2, <1>7, <1>8, <1>9

(* The next candidate is one of those left.                                *)
LEMMA CandidateIn ==
    ASSUME NEW left \in SUBSET Submissions, left # {}
    PROVE  Candidate(left) \in left
<1> DEFINE T == {o.sub : o \in left}
<1>1. \A o \in left : o.sub \in Nat /\ o.id \in Nat
  BY DEF Submissions
<1>2. T \in SUBSET Nat /\ T # {}
  BY <1>1
<1>3. PICK m \in T : \A y \in T : m <= y
  <2> HIDE DEF T
  <2> QED
    BY <1>2, LeastNat
<1> DEFINE U == {o.id : o \in {x \in left : x.sub = m}}
<1>4. U \in SUBSET Nat /\ U # {}
  BY <1>1, <1>3
<1>5. PICK n \in U : \A y \in U : n <= y
  <2> HIDE DEF U
  <2> QED
    BY <1>4, LeastNat
<1>6. PICK o \in left : o.sub = m /\ o.id = n
  BY <1>5
<1>7. \A p \in left : ~Precedes(p.sub, p.id, o.sub, o.id)
  <2> SUFFICES ASSUME NEW p \in left, Precedes(p.sub, p.id, o.sub, o.id) PROVE FALSE
    OBVIOUS
  <2>1. p.sub \in Nat /\ p.id \in Nat /\ o.sub \in Nat /\ o.id \in Nat
    BY <1>1
  <2>2. o.sub <= p.sub
    BY <1>3, <1>6
  <2>3. p.sub = o.sub /\ p.id < o.id
    BY <2>1, <2>2 DEF Precedes
  <2>4. o.id <= p.id
    BY <1>5, <1>6, <2>3
  <2> QED
    BY <2>1, <2>3, <2>4
<1> QED
  BY <1>7 DEF Candidate

InLoop(s) == LoopSound(s) /\ Served(s, {})

(* One round of the loop.                                                  *)
LEMMA RoundKeeps ==
    ASSUME QueueTyped, NEW s, InLoop(s), s.left # {}, NEW snap, SnapOK(snap), NEW t, NEW r,
           r = MatchNext(s, snap, t)
    PROVE  InLoop(r) /\ \E c \in s.left : r.left = s.left \ {c}
<1>1. s \in Loops /\ LoopSound(s) /\ Served(s, {})
  BY DEF InLoop, LoopSound
<1>2. s.left \in SUBSET Submissions
  BY <1>1 DEF Loops
<1>3. PICK c : c = Candidate(s.left) /\ c \in s.left
  BY <1>2, CandidateIn
<1> DEFINE u == [s EXCEPT !.left = s.left \ {c}]
<1>4. u \in Loops
  BY <1>1, <1>2 DEF Loops
<1>5. /\ u.orders = s.orders /\ u.left = s.left \ {c} /\ u.pos = s.pos /\ u.cash = s.cash /\ u.flow = s.flow
      /\ u.pending = s.pending /\ u.lost = s.lost /\ u.liquid = s.liquid /\ u.error = s.error
  BY <1>1 DEF Loops
<1>6. r = Match(u, c, snap, t)
  BY <1>3 DEF MatchNext
<1> HIDE DEF u
<1>7. IsFiniteSet(u.left)
  BY <1>1, <1>5, FS_RemoveElement DEF LoopSound
<1>8. LoopSound(u)
  BY <1>1, <1>4, <1>5, <1>7 DEF LoopSound
<1>9. Served(u, {c})
  BY <1>1, <1>5 DEF Served
<1>10. c \in Submissions
  BY <1>2, <1>3
<1>11. LoopSound(r) /\ r.left = u.left /\ Served(r, {})
  BY <1>6, <1>8, <1>9, <1>10, MatchKeeps
<1> QED
  BY <1>3, <1>5, <1>11 DEF InLoop

(* The mark of the ledger moves no money.                                  *)
LEMMA MarkKeeps ==
    ASSUME NEW s, InLoop(s), NEW snap, SnapOK(snap), NEW r, r = Mark(s, snap)
    PROVE  /\ InLoop(r) /\ r.left = s.left /\ r.orders = s.orders /\ r.pending = s.pending
           /\ r.liquid = s.liquid /\ r.lost = s.lost /\ r.error = s.error
<1>1. s \in Loops /\ LoopSound(s) /\ Served(s, {}) /\ s.pos \in [Keys -> Holdings]
      /\ \A j \in Keys : Holds(s.pos[j])
  BY DEF InLoop, LoopSound, Loops
<1>2. PICK k \in Keys : k = snap.key
  BY DEF SnapOK
<1>3. PICK p \in Holdings : p = s.pos[k]
  BY <1>1
<1>4. PICK q : q = Marked(p, snap.mark)
  OBVIOUS
<1>5. q \in Holdings /\ q.lots = p.lots /\ q.basis = p.basis
  <2>1. snap.mark \in Int
    BY DEF SnapOK
  <2> QED
    BY <1>4, <2>1 DEF Marked, Holdings
<1>6. Holds(q) /\ Cost(q) = Cost(p)
  BY <1>1, <1>3, <1>5 DEF Holds, Cost
<1> DEFINE ps == [s.pos EXCEPT ![k] = q]
<1>7. ps \in [Keys -> Holdings] /\ \A j \in Keys : Holds(ps[j]) /\ ps[j].lots = s.pos[j].lots
  BY <1>1, <1>3, <1>5, <1>6
<1>8. CostsOf(ps) = CostsOf(s.pos)
  BY <1>1, <1>3, <1>6 DEF CostsOf
<1>9. r = [s EXCEPT !.pos = ps]
  BY <1>1, <1>2, <1>3, <1>4 DEF Mark, Loops
<1> HIDE DEF ps
<1>10. r \in Loops
  BY <1>1, <1>7, <1>9 DEF Loops
<1>11. /\ r.orders = s.orders /\ r.left = s.left /\ r.pos = ps /\ r.cash = s.cash /\ r.flow = s.flow
       /\ r.pending = s.pending /\ r.lost = s.lost /\ r.liquid = s.liquid /\ r.error = s.error
  BY <1>1, <1>9 DEF Loops
<1>12. LoopSound(r)
  BY <1>1, <1>7, <1>8, <1>10, <1>11 DEF LoopSound
<1>13. \A j \in Keys : \A o, n : Covers(o, n, j, s.pos[j]) => Covers(o, n, j, r.pos[j])
  BY <1>7, <1>11 DEF Covers
<1>14. Served(r, {})
  <2> SUFFICES ASSUME r.error = NoError, NEW j \in r.pending \ r.lost
               PROVE  \/ Waiting(j, r.pos[j])
                      \/ \E o \in (r.left \cup r.orders) \cup {} : Covers(o, o.rem, j, r.pos[j])
    BY DEF Served
  <2>1. j \in Keys
    BY <1>10 DEF Loops
  <2>2. \/ Waiting(j, s.pos[j])
        \/ \E o \in (s.left \cup s.orders) \cup {} : Covers(o, o.rem, j, s.pos[j])
    BY <1>1, <1>11 DEF Served
  <2>3. Waiting(j, s.pos[j]) => Waiting(j, r.pos[j])
    BY <1>13, <2>1 DEF Waiting
  <2> QED
    BY <1>11, <1>13, <2>1, <2>2, <2>3
<1> QED
  BY <1>11, <1>12, <1>14 DEF InLoop

Rounds(g, base, snap, t, z) ==
    g = [n \in 0 .. z |-> IF n = 0 THEN base ELSE MatchNext(g[n - 1], snap, t)]

(* The loop over the candidates has a result, for any number of them.      *)
LEMMA RoundsExist ==
    ASSUME NEW base, NEW snap, NEW t
    PROVE  \A z \in Nat : \E g : Rounds(g, base, snap, t, z)
<1> DEFINE N == {z \in Nat : \E g : Rounds(g, base, snap, t, z)}
<1>1. 0 \in N
  <2> DEFINE g == [n \in 0 .. 0 |-> base]
  <2>1. \A n \in 0 .. 0 : n = 0
    OBVIOUS
  <2>2. g = [n \in 0 .. 0 |-> IF n = 0 THEN base ELSE MatchNext(g[n - 1], snap, t)]
    BY <2>1
  <2> HIDE DEF g
  <2>3. Rounds(g, base, snap, t, 0)
    BY <2>2 DEF Rounds
  <2> QED
    BY <2>3
<1>2. ASSUME NEW z \in Nat, z \in N PROVE z + 1 \in N
  <2>1. PICK g : Rounds(g, base, snap, t, z)
    BY <1>2
  <2> DEFINE h == [n \in 0 .. (z + 1) |-> IF n = 0 THEN base ELSE MatchNext(g[n - 1], snap, t)]
             k == [n \in 0 .. (z + 1) |-> IF n = 0 THEN base ELSE MatchNext(h[n - 1], snap, t)]
  <2>2. \A n \in 0 .. z : h[n] = g[n]
    BY <2>1 DEF Rounds
  <2>3. \A n \in 0 .. (z + 1) : n # 0 => n - 1 \in 0 .. z
    OBVIOUS
  <2>4. \A n \in 0 .. (z + 1) : h[n] = k[n]
    BY <2>2, <2>3
  <2>5. h = k
    BY <2>4
  <2>6. Rounds(h, base, snap, t, z + 1)
    BY <2>5 DEF Rounds
  <2> QED
    BY <2>6
<1> HIDE DEF N
<1>3. Nat \subseteq N
  BY <1>1, <1>2, SetInduction
<1> QED
  BY <1>3 DEF N

Book == [left |-> orders, orders |-> {}, pos |-> pos, cash |-> cash, flow |-> flow,
         pending |-> pending, liquid |-> liquid, lost |-> lost, error |-> NoError]

(* What a snapshot does before anything is scheduled: none is left.        *)
LEMMA MatchedKeeps ==
    ASSUME QueueTyped, InLoop(Book), NEW snap, SnapOK(snap), NEW t
    PROVE  InLoop(Matched(snap, t)) /\ Matched(snap, t).left = {}
<1> DEFINE z == Cardinality(orders)
           base == Mark(Book, snap)
           f == CHOOSE g : Rounds(g, base, snap, t, z)
<1>1. IsFiniteSet(orders) /\ z \in Nat
  <2>1. Book.left = orders
    BY DEF Book
  <2>2. IsFiniteSet(orders)
    BY <2>1 DEF InLoop, LoopSound
  <2> QED
    BY <2>2, FS_CardinalityType
<1>2. InLoop(base) /\ base.left = orders
  <2>1. Book.left = orders
    BY DEF Book
  <2> QED
    BY <2>1, MarkKeeps
<1>3. Rounds(f, base, snap, t, z)
  BY <1>1, RoundsExist
<1>4. Matched(snap, t) = f[z]
  BY DEF Matched, Rounds, Book
<1> HIDE DEF z, base, f
<1> DEFINE N == {n \in Nat : n <= z => InLoop(f[n]) /\ IsFiniteSet(f[n].left)
                                       /\ Cardinality(f[n].left) = z - n}
<1>5. 0 \in N
  <2>1. f[0] = base
    BY <1>1, <1>3 DEF Rounds
  <2>2. Cardinality(f[0].left) = z - 0
    BY <1>1, <1>2, <2>1 DEF z
  <2> QED
    BY <1>1, <1>2, <2>1, <2>2
<1>6. ASSUME NEW n \in Nat, n \in N PROVE n + 1 \in N
  <2> SUFFICES ASSUME n + 1 <= z
               PROVE  /\ InLoop(f[n + 1]) /\ IsFiniteSet(f[n + 1].left)
                      /\ Cardinality(f[n + 1].left) = z - (n + 1)
    OBVIOUS
  <2>1. n + 1 \in 0 .. z /\ n + 1 # 0 /\ (n + 1) - 1 = n /\ n <= z
    BY <1>1
  <2>2. f[n + 1] = MatchNext(f[n], snap, t)
    BY <1>3, <2>1 DEF Rounds
  <2>3. InLoop(f[n]) /\ IsFiniteSet(f[n].left) /\ Cardinality(f[n].left) = z - n
    BY <1>6, <2>1
  <2>4. f[n].left # {}
    <3>1. z - n # 0
      BY <1>1
    <3> QED
      BY <2>3, <3>1, FS_EmptySet
  <2>5. InLoop(f[n + 1]) /\ \E c \in f[n].left : f[n + 1].left = f[n].left \ {c}
    BY <2>2, <2>3, <2>4, RoundKeeps
  <2>6. PICK c \in f[n].left : f[n + 1].left = f[n].left \ {c}
    BY <2>5
  <2>7. IsFiniteSet(f[n + 1].left) /\ Cardinality(f[n + 1].left) = (z - n) - 1
    BY <2>3, <2>6, FS_RemoveElement
  <2>8. (z - n) - 1 = z - (n + 1)
    BY <1>1
  <2> QED
    BY <2>5, <2>7, <2>8
<1> HIDE DEF N
<1>7. Nat \subseteq N
  BY <1>5, <1>6, SetInduction
<1>8. InLoop(f[z]) /\ IsFiniteSet(f[z].left) /\ Cardinality(f[z].left) = z - z
  BY <1>1, <1>7 DEF N
<1>9. f[z].left = {}
  <2>1. z - z = 0
    BY <1>1
  <2> QED
    BY <1>8, <2>1, FS_EmptySet
<1> QED
  BY <1>4, <1>8, <1>9

-----------------------------------------------------------------------------
(* The engine.                                                             *)

Events ==
    [type : {"exit", "creation"}, time : Nat, order : Forms]
        \cup [type : {"submission"}, time : Nat, order : Forms, id : Nat]

ExitsCovered ==
    \A k \in pending \ lost :
        \/ \E i \in DOMAIN queue : Covers(queue[i].order, queue[i].order.lots, k, pos[k])
        \/ \E o \in orders : Covers(o, o.rem, k, pos[k])

BacktestInv ==
    /\ queue \in Seq(Events) /\ count \in Nat
    /\ LoopSound(Book)
    /\ ExitsCovered
    /\ DistressHandled

LEMMA BacktestStarts == BacktestInit => BacktestInv
<1> SUFFICES ASSUME BacktestInit PROVE BacktestInv
  OBVIOUS
<1>1. queue = <<>> /\ count = 0 /\ orders = {} /\ cash = Cash /\ flow = 0
      /\ pending = {} /\ liquid = {} /\ lost = {}
  BY DEF BacktestInit
<1>2. Flat \in Holdings /\ Holds(Flat) /\ Cost(Flat) = 0 /\ Flat.lots = 0
  BY DEF Flat, Holdings, Holds, Cost, Sign, NoPrice
<1>3. pos \in [Keys -> Holdings] /\ \A k \in Keys : pos[k] = Flat
  BY <1>2 DEF BacktestInit
<1>4. Book \in Loops /\ Book.pos = pos /\ Book.cash = cash /\ Book.flow = flow /\ Book.left = {} /\ Book.orders = {}
      /\ Book.pending = {} /\ Book.liquid = {}
  BY <1>1, <1>3, MoneyAssumption DEF Book, Loops
<1>5. Total(CostsOf(pos)) = 0
  <2> DEFINE f == CostsOf(pos)
  <2>1. DOMAIN f = Keys /\ \A k \in Keys : f[k] = 0
    BY <1>2, <1>3 DEF CostsOf
  <2> HIDE DEF f
  <2>2. Total(f) = Sum(f, Keys)
    BY <2>1 DEF Total, Sum
  <2>3. Sum(f, Keys) = 0
    BY <2>1, KeysAssumption, SumOfZeros
  <2> QED
    BY <2>2, <2>3 DEF f
<1>6. LoopSound(Book)
  <2>1. IsFiniteSet({})
    BY FS_EmptySet
  <2>2. Book.cash = Cash + Book.flow + Total(CostsOf(Book.pos))
    BY <1>1, <1>4, <1>5, MoneyAssumption
  <2> QED
    BY <1>2, <1>3, <1>4, <2>1, <2>2 DEF LoopSound
<1>7. ExitsCovered
  BY <1>1 DEF ExitsCovered
<1>8. DistressHandled
  BY <1>2, <1>3 DEF DistressHandled, Distress, Open
<1> QED
  BY <1>1, <1>6, <1>7, <1>8 DEF BacktestInv

(* Popping an event keeps the others.                                      *)
LEMMA PoppedKeeps ==
    ASSUME NEW q \in Seq(Events), NEW i \in DOMAIN q, NEW r, r = RemoveAt(q, i)
    PROVE  r \in Seq(Events) /\ \A j \in DOMAIN q : j # i => \E m \in DOMAIN r : r[m] = q[j]
<1>1. DOMAIN q = 1 .. Len(q) /\ Len(q) \in Nat /\ i \in 1 .. Len(q)
  OBVIOUS
<1> DEFINE a == SubSeq(q, 1, i - 1)
           b == SubSeq(q, i + 1, Len(q))
<1>2. a \in Seq(Events) /\ Len(a) = i - 1 /\ \A m \in 1 .. (i - 1) : a[m] = q[m]
  BY <1>1
<1>3. b \in Seq(Events) /\ Len(b) = Len(q) - i /\ \A m \in 1 .. (Len(q) - i) : b[m] = q[m + i]
  BY <1>1
<1>4. r = a \o b
  BY DEF RemoveAt
<1> HIDE DEF a, b
<1>5. r \in Seq(Events) /\ Len(r) = Len(a) + Len(b)
  BY <1>2, <1>3, <1>4
<1>6. ASSUME NEW j \in DOMAIN q, j # i PROVE \E m \in DOMAIN r : r[m] = q[j]
  <2>1. CASE j < i
    <3>1. j \in 1 .. (i - 1) /\ j \in 1 .. Len(a) /\ j \in DOMAIN r
      BY <1>1, <1>2, <1>3, <1>5, <2>1
    <3>2. r[j] = a[j]
      BY <1>2, <1>3, <1>4, <3>1
    <3> QED
      BY <1>2, <3>1, <3>2
  <2>2. CASE j > i
    <3>1. PICK x \in 1 .. (Len(q) - i) : x + i = j
      <4>1. j \in Int /\ i \in Int /\ j - i \in 1 .. (Len(q) - i) /\ (j - i) + i = j
        BY <1>1, <2>2
      <4> QED
        BY <4>1
    <3>2. PICK n \in Nat : n = Len(a)
      BY <1>1, <1>2
    <3>3. n + x \in DOMAIN r
      BY <1>1, <1>2, <1>3, <1>5, <3>1, <3>2
    <3>4. x \in 1 .. Len(b)
      BY <1>3, <3>1
    <3>5. (a \o b)[n + x] = b[x]
      BY <1>2, <1>3, <3>2, <3>4
    <3>6. b[x] = q[j]
      BY <1>3, <3>1
    <3> QED
      BY <1>4, <3>3, <3>5, <3>6
  <2> QED
    BY <1>1, <1>6, <2>1, <2>2
<1> QED
  BY <1>5, <1>6

(* A popped event that is pushed again in another form.                    *)
Again(q, i, e, r) ==
    /\ q \in Seq(Events) /\ i \in DOMAIN q /\ e \in Events /\ e.order = q[i].order
    /\ r = Append(RemoveAt(q, i), e)

LEMMA PushedAgain ==
    ASSUME NEW q, NEW i, NEW e, NEW r, Again(q, i, e, r)
    PROVE  r \in Seq(Events) /\ \A j \in DOMAIN q : \E m \in DOMAIN r : r[m].order = q[j].order
<1>1. PICK u \in Seq(Events) : u = RemoveAt(q, i) /\ \A j \in DOMAIN q : j # i => \E m \in DOMAIN u : u[m] = q[j]
  <2>1. q \in Seq(Events) /\ i \in DOMAIN q
    BY DEF Again
  <2> QED
    BY <2>1, PoppedKeeps
<1>2. r = Append(u, e) /\ e \in Events /\ e.order = q[i].order
  BY <1>1 DEF Again
<1>3. r \in Seq(Events) /\ Len(r) = Len(u) + 1 /\ Len(u) \in Nat /\ DOMAIN u = 1 .. Len(u)
  BY <1>2
<1>4. DOMAIN r = 1 .. (Len(u) + 1)
  BY <1>2, <1>3
<1>5. r[Len(u) + 1] = e /\ \A m \in 1 .. Len(u) : r[m] = u[m]
  BY <1>2
<1>6. ASSUME NEW j \in DOMAIN q PROVE \E m \in DOMAIN r : r[m].order = q[j].order
  <2>1. CASE j = i
    <3>1. Len(u) + 1 \in DOMAIN r
      BY <1>3, <1>4
    <3> QED
      BY <1>2, <1>5, <2>1, <3>1
  <2>2. CASE j # i
    <3>1. PICK m \in DOMAIN u : u[m] = q[j]
      BY <1>1, <2>2
    <3>2. m \in DOMAIN r /\ r[m] = q[j]
      BY <1>3, <1>4, <1>5, <3>1
    <3> QED
      BY <3>2
  <2> QED
    BY <2>1, <2>2
<1> QED
  BY <1>3, <1>6

(* Steps that leave the ledger and the orders alone.                       *)
LEMMA QueueStep ==
    ASSUME BacktestInv, UNCHANGED <<orders, pos, cash, flow, pending, liquid, lost>>,
           \A j \in DOMAIN queue : \E m \in DOMAIN queue' : queue'[m].order = queue[j].order
    PROVE  LoopSound(Book)' /\ ExitsCovered'
<1>1. Book' = Book
  BY DEF Book
<1>2. LoopSound(Book)'
  BY <1>1 DEF BacktestInv, LoopSound
<1>3. ExitsCovered'
  <2> SUFFICES ASSUME NEW k \in pending \ lost
               PROVE  \/ \E i \in DOMAIN queue' : Covers(queue'[i].order, queue'[i].order.lots, k, pos[k])
                      \/ \E o \in orders : Covers(o, o.rem, k, pos[k])
    BY DEF ExitsCovered
  <2>1. \/ \E i \in DOMAIN queue : Covers(queue[i].order, queue[i].order.lots, k, pos[k])
        \/ \E o \in orders : Covers(o, o.rem, k, pos[k])
    BY DEF BacktestInv, ExitsCovered
  <2> QED
    BY <2>1
<1> QED
  BY <1>2, <1>3

(* Every member of a finite set is listed.                                 *)
LEMMA Listed ==
    ASSUME NEW S, IsFiniteSet(S)
    PROVE  /\ Cardinality(S) \in Nat
           /\ SetToSeq(S) \in [1 .. Cardinality(S) -> S]
           /\ \A e \in S : \E i \in 1 .. Cardinality(S) : SetToSeq(S)[i] = e
<1> DEFINE n == Cardinality(S)
           f == SetToSeq(S)
<1>1. n \in Nat /\ ExistsBijection(1 .. n, S)
  BY FS_CardinalityType
<1>2. IsFiniteSet(1 .. n) /\ Cardinality(1 .. n) = n
  BY <1>1, FS_Interval
<1>3. \E g \in [1 .. n -> S] : IsInjective(g)
  BY <1>1 DEF ExistsBijection, Bijection, Injection, IsInjective
<1>4. f \in [1 .. n -> S] /\ IsInjective(f)
  BY <1>3 DEF SetToSeq
<1> HIDE DEF f, n
<1>5. f \in Injection(1 .. n, S)
  BY <1>4 DEF Injection, IsInjective
<1>6. f \in Surjection(1 .. n, S)
  BY <1>2, <1>5, FS_Injection DEF n
<1> QED
  BY <1>1, <1>4, <1>6 DEF Surjection, f, n

(* A list as a sequence, and one list behind another.                      *)
LEMMA ListIsSequence ==
    ASSUME NEW S, NEW n \in Nat, NEW f \in [1 .. n -> S]
    PROVE  f \in Seq(S) /\ Len(f) = n
<1>1. f \in Seq(S)
  <2>1. f = [i \in 1 .. n |-> f[i]] /\ \A i \in 1 .. n : f[i] \in S
    OBVIOUS
  <2>2. [i \in 1 .. n |-> f[i]] \in Seq(S)
    BY <2>1
  <2> QED
    BY <2>1, <2>2
<1>2. Len(f) \in Nat /\ DOMAIN f = 1 .. Len(f) /\ DOMAIN f = 1 .. n
  BY <1>1
<1> QED
  BY <1>1, <1>2

LEMMA BehindEachOther ==
    ASSUME NEW S, NEW u \in Seq(S), NEW v \in Seq(S), NEW w, w = u \o v
    PROVE  /\ w \in Seq(S) /\ Len(w) = Len(u) + Len(v)
           /\ \A i \in 1 .. Len(u) : w[i] = u[i]
           /\ \A i \in 1 .. Len(v) : w[Len(u) + i] = v[i]
<1>1. w \in Seq(S)
  OBVIOUS
<1>2. Len(w) = Len(u) + Len(v)
  OBVIOUS
<1>3. \A i \in 1 .. Len(u) : w[i] = u[i]
  OBVIOUS
<1>4. \A i \in 1 .. Len(v) : w[Len(u) + i] = v[i]
  OBVIOUS
<1> QED
  BY <1>1, <1>2, <1>3, <1>4

(* What a snapshot schedules (_on_market).                                 *)
LEMMA ScheduledKeeps ==
    ASSUME BacktestInv, NEW s, InLoop(s), s.left = {}, s.error = NoError, NEW snap, SnapOK(snap),
           NEW t \in Nat, NEW hit \in BOOLEAN, hit = Distress(s.pos, s.cash),
           Scheduled(s, t, hit, Fresh(s, hit), Exits(s, snap, Fresh(s, hit)) \ s.pending)
    PROVE  queue' \in Seq(Events) /\ LoopSound(Book)' /\ ExitsCovered' /\ DistressHandled'
<1> DEFINE fresh == Fresh(s, hit)
           exits == Exits(s, snap, fresh) \ s.pending
<1>1. s \in Loops /\ LoopSound(s) /\ Served(s, {}) /\ s.pos \in [Keys -> Holdings]
      /\ s.pending \subseteq Keys /\ s.liquid \subseteq s.pending /\ s.lost \subseteq Keys
      /\ s.orders \subseteq Submissions /\ IsFiniteSet(s.orders) /\ s.cash \in Int /\ s.flow \in Int
  BY DEF InLoop, LoopSound, Loops
<1>2. fresh \subseteq Keys /\ \A k \in fresh : Open(s.pos[k])
  BY DEF Fresh
<1>3. exits \subseteq Keys /\ (\A k \in exits : Open(s.pos[k])) /\ fresh \subseteq s.pending \cup exits
  <2>1. Triggered(s.pos[snap.key], snap) => Open(s.pos[snap.key])
    BY DEF Triggered
  <2> QED
    BY <1>2, <2>1 DEF Exits, SnapOK
<1>4. hit => \A k \in Keys : Open(s.pos[k]) => k \in s.pending \cup exits
  BY <1>1, <1>3 DEF Fresh
<1>5. /\ orders' = Survivors(s, hit) /\ pos' = s.pos /\ cash' = s.cash /\ flow' = s.flow /\ lost' = s.lost
      /\ pending' = s.pending \cup exits /\ liquid' = s.liquid \cup fresh
      /\ queue' = queue \o [i \in 1 .. Cardinality(exits) |->
                              LET e == SetToSeq(exits)[i] IN ExitSignal(e, s.pos[e], t)]
  BY DEF Scheduled
<1> HIDE DEF fresh, exits
<1>6. orders' \subseteq s.orders /\ (hit => \A o \in orders' : o.reduce)
      /\ \A o \in s.orders : o.reduce => o \in orders'
  BY <1>5 DEF Survivors
<1>7. LoopSound(Book)'
  <2>1. orders' \in SUBSET Submissions /\ IsFiniteSet(orders') /\ IsFiniteSet({})
    BY <1>1, <1>6, FS_Subset, FS_EmptySet
  <2>2. pending' \in SUBSET Keys /\ liquid' \in SUBSET Keys /\ liquid' \subseteq pending'
    BY <1>1, <1>2, <1>3, <1>5
  <2>3. Book' \in Loops
    BY <1>1, <1>5, <2>1, <2>2 DEF Book, Loops
  <2>4. /\ Book'.left = orders' /\ Book'.orders = {} /\ Book'.pos = s.pos /\ Book'.cash = s.cash /\ Book'.flow = s.flow
        /\ Book'.pending = pending' /\ Book'.liquid = liquid'
    BY <1>5 DEF Book
  <2>5. (\A k \in Keys : Holds(s.pos[k])) /\ s.cash = Cash + s.flow + Total(CostsOf(s.pos))
    BY <1>1 DEF LoopSound
  <2> QED
    BY <2>1, <2>2, <2>3, <2>4, <2>5 DEF LoopSound
<1> DEFINE sig(e) == ExitSignal(e, s.pos[e], t)
           ex == [i \in 1 .. Cardinality(exits) |-> sig(SetToSeq(exits)[i])]
<1>8. /\ Cardinality(exits) \in Nat /\ SetToSeq(exits) \in [1 .. Cardinality(exits) -> exits]
      /\ \A e \in exits : \E i \in 1 .. Cardinality(exits) : SetToSeq(exits)[i] = e
  <2>1. IsFiniteSet(exits)
    BY <1>3, KeysAssumption, FS_Subset
  <2> QED
    BY <2>1, Listed
<1>9. \A e \in exits : sig(e) \in Events /\ Covers(sig(e).order, sig(e).order.lots, e, s.pos[e])
  <2> SUFFICES ASSUME NEW e \in exits
               PROVE  sig(e) \in Events /\ Covers(sig(e).order, sig(e).order.lots, e, s.pos[e])
    OBVIOUS
  <2>1. PICK l \in Int : l = s.pos[e].lots /\ l # 0
    BY <1>1, <1>3 DEF Open, Holdings
  <2>2. PICK n \in Nat \ {0} : n = Abs(l)
    BY <2>1 DEF Abs
  <2>3. PICK o : o = [key |-> e, side |-> IF l > 0 THEN "sell" ELSE "buy",
                lots |-> n, limit |-> NoPrice, tif |-> "gtc", post |-> FALSE,
                reduce |-> TRUE, exit |-> TRUE, exp |-> 0, stop |-> NoPrice,
                take |-> NoPrice, calc |-> 0, net |-> 0]
    OBVIOUS
  <2>4. o \in Forms
    BY <1>3, <2>3 DEF Forms, NoPrice
  <2>5. sig(e) = [type |-> "exit", time |-> t, order |-> o]
    BY <2>1, <2>2, <2>3 DEF ExitSignal
  <2>6. sig(e) \in Events /\ sig(e).order = o
    BY <2>4, <2>5 DEF Events
  <2>7. o.key = e /\ ExitForm(o) /\ o.side = (IF l > 0 THEN "sell" ELSE "buy") /\ o.lots = n
    BY <2>3 DEF ExitForm
  <2>8. Abs(l) <= n
    BY <2>2
  <2> QED
    BY <2>1, <2>6, <2>7, <2>8 DEF Covers
<1>10. ex \in Seq(Events) /\ Len(ex) = Cardinality(exits) /\ queue' = queue \o ex
  <2>1. \A i \in 1 .. Cardinality(exits) : sig(SetToSeq(exits)[i]) \in Events
    BY <1>8, <1>9
  <2>2. queue' = queue \o ex
    BY <1>5
  <2> HIDE DEF sig
  <2>3. ex \in [1 .. Cardinality(exits) -> Events]
    BY <2>1
  <2> HIDE DEF ex
  <2>4. ex \in Seq(Events) /\ Len(ex) = Cardinality(exits)
    BY <1>8, <2>3, ListIsSequence
  <2> QED
    BY <2>2, <2>4
<1>11. queue \in Seq(Events)
  BY DEF BacktestInv
<1>12. \A e \in exits : \E i \in 1 .. Len(ex) : ex[i] = sig(e)
  BY <1>8, <1>10
<1> HIDE DEF sig, ex
<1>13. /\ queue' \in Seq(Events) /\ Len(queue') = Len(queue) + Len(ex)
       /\ \A i \in 1 .. Len(queue) : queue'[i] = queue[i]
       /\ \A i \in 1 .. Len(ex) : queue'[Len(queue) + i] = ex[i]
  <2>1. PICK u \in Seq(Events) : u = queue
    BY <1>11
  <2>2. PICK v \in Seq(Events) : v = ex
    BY <1>10
  <2>3. PICK w : w = queue'
    OBVIOUS
  <2>4. w = u \o v
    BY <1>10, <2>1, <2>2, <2>3
  <2>5. /\ w \in Seq(Events) /\ Len(w) = Len(u) + Len(v)
        /\ \A i \in 1 .. Len(u) : w[i] = u[i]
        /\ \A i \in 1 .. Len(v) : w[Len(u) + i] = v[i]
    BY <2>4, BehindEachOther
  <2> QED
    BY <2>1, <2>2, <2>3, <2>5
<1>14. \A i \in DOMAIN queue : i \in DOMAIN queue' /\ queue'[i] = queue[i]
  BY <1>11, <1>13
<1>15. \A e \in exits : \E i \in DOMAIN queue' : queue'[i] = sig(e)
  <2> SUFFICES ASSUME NEW e \in exits PROVE \E i \in DOMAIN queue' : queue'[i] = sig(e)
    OBVIOUS
  <2>1. PICK i \in 1 .. Len(ex) : ex[i] = sig(e)
    BY <1>12
  <2>2. Len(queue) + i \in 1 .. Len(queue') /\ 1 .. Len(queue') = DOMAIN queue'
    BY <1>10, <1>11, <1>13
  <2> QED
    BY <1>13, <2>1, <2>2
<1>16. ExitsCovered'
  <2> SUFFICES ASSUME NEW k \in pending' \ lost'
               PROVE  \/ \E i \in DOMAIN queue' : Covers(queue'[i].order, queue'[i].order.lots, k, pos'[k])
                      \/ \E o \in orders' : Covers(o, o.rem, k, pos'[k])
    BY DEF ExitsCovered
  <2>1. CASE k \in exits
    BY <1>5, <1>9, <1>15, <2>1
  <2>2. CASE k \in s.pending
    <3>1. \/ \E i \in DOMAIN queue : Covers(queue[i].order, queue[i].order.lots, k, s.pos[k])
          \/ \E o \in s.orders : Covers(o, o.rem, k, s.pos[k])
      BY <1>1, <1>5, <2>2 DEF Served, Waiting
    <3>2. \A o : Covers(o, o.rem, k, s.pos[k]) => o.reduce
      BY DEF Covers, ExitForm
    <3> QED
      BY <1>5, <1>6, <1>14, <3>1, <3>2
  <2> QED
    BY <1>5, <2>1, <2>2
<1>17. DistressHandled'
  BY <1>4, <1>5, <1>6 DEF DistressHandled
<1> QED
  BY <1>7, <1>13, <1>16, <1>17

(* Only a snapshot is followed by what DistressHandled promises.           *)
LEMMA RanksOfOthers ==
    /\ Rank("funding") # 1 /\ Rank("signal") # 1 /\ Rank("exit") # 1
    /\ Rank("creation") # 1 /\ Rank("submission") # 1
  BY DEF Rank

LEMMA OthersHandle ==
    ASSUME NEW t, NEW K, NEW type \in {"funding", "signal", "exit", "creation", "submission"},
           Handled(t, type, K)
    PROVE  DistressHandled'
<1>1. at'.rank = Rank(type)
  BY DEF Handled
<1>2. Rank(type) # 1
  BY RanksOfOthers
<1> QED
  BY <1>1, <1>2 DEF DistressHandled

(* The book as the loop takes it up.                                       *)
LEMMA BookInLoop ==
    ASSUME BacktestInv
    PROVE  InLoop(Book) /\ QueueTyped
<1>1. QueueTyped
  BY DEF BacktestInv, QueueTyped, Events
<1>2. Book.left = orders /\ Book.orders = {} /\ Book.pos = pos /\ Book.pending = pending /\ Book.lost = lost
  BY DEF Book
<1>3. Served(Book, {})
  BY <1>2 DEF BacktestInv, ExitsCovered, Served, Waiting
<1> QED
  BY <1>1, <1>3 DEF InLoop, BacktestInv

LEMMA MarketStep ==
    ASSUME BacktestInv, NEW t \in Nat, NEW k \in Keys, NEW q \in Snapshots, OnMarket(t, k, q)
    PROVE  BacktestInv'
<1>1. PICK snap : snap = [q EXCEPT !.key = k]
  OBVIOUS
<1>2. SnapOK(snap)
  BY <1>1, SnapshotsAssumption DEF SnapOK
<1>3. InLoop(Book) /\ QueueTyped
  BY BookInLoop
<1>4. PICK m : m = Matched(snap, t) /\ InLoop(m) /\ m.left = {}
  BY <1>2, <1>3, MatchedKeeps
<1>5. PICK s : s = Mark(m, snap) /\ InLoop(s) /\ s.left = {}
  BY <1>2, <1>4, MarkKeeps
<1>6. PICK hit : hit = Distress(s.pos, s.cash)
  OBVIOUS
<1>7. hit \in BOOLEAN
  BY <1>6 DEF Distress
<1>8. Settled(s, snap, t, hit) /\ UNCHANGED count
  BY <1>1, <1>4, <1>5, <1>6 DEF OnMarket, Outcome
<1>9. CASE s.error # NoError
  <2>1. error' # NoError /\ UNCHANGED <<queue, orders, pos, cash, flow, pending, liquid, lost>>
    BY <1>8, <1>9 DEF Settled, ledger
  <2>2. LoopSound(Book)' /\ ExitsCovered'
    BY <2>1, QueueStep
  <2>3. DistressHandled'
    BY <2>1 DEF DistressHandled
  <2> QED
    BY <1>8, <2>1, <2>2, <2>3 DEF BacktestInv
<1>10. CASE s.error = NoError
  <2>1. Scheduled(s, t, hit, Fresh(s, hit), Exits(s, snap, Fresh(s, hit)) \ s.pending)
    BY <1>8, <1>10 DEF Settled
  <2>2. queue' \in Seq(Events) /\ LoopSound(Book)' /\ ExitsCovered' /\ DistressHandled'
    BY <1>2, <1>5, <1>6, <1>7, <1>10, <2>1, ScheduledKeeps
  <2> QED
    BY <1>8, <2>2 DEF BacktestInv
<1> QED
  BY <1>9, <1>10

LEMMA FundingStep ==
    ASSUME BacktestInv, NEW t \in Nat, NEW k \in Keys, NEW rate \in Rates, NEW q \in Snapshots,
           OnFunding(t, k, rate, q.mark)
    PROVE  BacktestInv'
<1>1. LoopSound(Book) /\ Book \in Loops
  BY DEF BacktestInv, LoopSound
<1>2. Book.pos = pos /\ Book.cash = cash /\ Book.flow = flow /\ Book.pending = pending /\ Book.liquid = liquid
      /\ Book.left = orders /\ Book.orders = {} /\ Book.lost = lost
  BY DEF Book
<1>3. PICK l \in Int : l = pos[k].lots
  BY <1>1, <1>2 DEF Loops, Holdings
<1>4. PICK m \in Int : m = q.mark
  BY SnapshotsAssumption
<1>5. PICK r \in Int : r = rate
  BY MoneyAssumption
<1>6. PICK a \in Int : a = -(l * m * r)
  BY ProductSigns
<1>7. cash' = cash + a /\ flow' = flow + a
  BY <1>3, <1>4, <1>5, <1>6 DEF OnFunding
<1>8. UNCHANGED <<queue, orders, count, pos, pending, liquid, lost>>
  BY DEF OnFunding
<1>9. PICK c \in Int : c = cash
  BY <1>1, <1>2 DEF Loops
<1>10. PICK f \in Int : f = flow
  BY <1>1, <1>2 DEF Loops
<1>11. Book' \in Loops
  <2>1. PICK x \in Int : x = cash'
    BY <1>7, <1>9
  <2>2. PICK y \in Int : y = flow'
    BY <1>7, <1>10
  <2>3. /\ orders \in SUBSET Submissions /\ pos \in [Keys -> Holdings] /\ pending \in SUBSET Keys
        /\ liquid \in SUBSET Keys /\ lost \in SUBSET Keys
    BY <1>1, <1>2 DEF Loops
  <2> QED
    BY <1>8, <2>1, <2>2, <2>3 DEF Book, Loops
<1>12. Book'.pos = pos /\ Book'.cash = c + a /\ Book'.flow = f + a /\ Book'.pending = pending /\ Book'.liquid = liquid
      /\ Book'.left = orders /\ Book'.orders = {}
  BY <1>7, <1>8, <1>9, <1>10 DEF Book
<1>13. c = Cash + f + Total(CostsOf(pos))
  BY <1>1, <1>2, <1>9, <1>10 DEF LoopSound
<1>14. Total(CostsOf(pos)) \in Int
  <2>1. pos \in [Keys -> Holdings] /\ \A j \in Keys : Holds(pos[j])
    BY <1>1, <1>2 DEF LoopSound, Loops
  <2> QED
    BY <2>1, CostChanges
<1>15. c + a = Cash + (f + a) + Total(CostsOf(pos))
  <2>1. PICK x \in Int : x = Total(CostsOf(pos))
    BY <1>14
  <2> QED
    BY <1>13, <2>1, MoneyAssumption
<1>16. LoopSound(Book)'
  BY <1>1, <1>2, <1>11, <1>12, <1>15 DEF LoopSound
<1>17. ExitsCovered'
  BY <1>8 DEF BacktestInv, ExitsCovered
<1>18. DistressHandled'
  BY OthersHandle DEF OnFunding
<1> QED
  BY <1>8, <1>16, <1>17, <1>18 DEF BacktestInv

LEMMA SignalStep ==
    ASSUME BacktestInv, NEW t \in Nat, NEW s \in Signals, OnSignal(t, s)
    PROVE  BacktestInv'
<1>1. PICK e : e = [type |-> "creation", time |-> t + s.order.calc, order |-> s.order]
  OBVIOUS
<1>2. s.order \in Forms
  BY SignalsAssumption
<1>3. PICK c \in Nat : c = t + s.order.calc
  BY <1>2 DEF Forms
<1>4. e \in Events
  BY <1>1, <1>2, <1>3 DEF Events
<1>5. queue' = Append(queue, e) /\ UNCHANGED <<orders, count, pos, cash, flow, pending, liquid, lost>>
  BY <1>1 DEF OnSignal, ledger
<1>6. PICK u \in Seq(Events) : u = queue
  BY DEF BacktestInv
<1>7. PICK v : v = Append(u, e)
  OBVIOUS
<1>8. v \in Seq(Events) /\ Len(v) = Len(u) + 1 /\ Len(u) \in Nat /\ \A j \in 1 .. Len(u) : v[j] = u[j]
  BY <1>4, <1>7
<1>9. \A j \in DOMAIN u : j \in DOMAIN v /\ v[j] = u[j]
  BY <1>8
<1>10. \A j \in DOMAIN queue : \E m \in DOMAIN queue' : queue'[m].order = queue[j].order
  BY <1>5, <1>6, <1>7, <1>9
<1>11. LoopSound(Book)' /\ ExitsCovered'
  BY <1>5, <1>10, QueueStep
<1>12. DistressHandled'
  BY OthersHandle DEF OnSignal
<1> QED
  BY <1>5, <1>6, <1>7, <1>8, <1>11, <1>12 DEF BacktestInv

LEMMA ExitSignalStep ==
    ASSUME BacktestInv, NEW i \in DOMAIN queue, OnExitSignal(i)
    PROVE  BacktestInv'
<1>1. PICK u \in Seq(Events) : u = queue
  BY DEF BacktestInv
<1>2. PICK e : e = [u[i] EXCEPT !.type = "creation"]
  OBVIOUS
<1>3. u[i] \in Events /\ u[i].type = "exit"
  BY <1>1 DEF OnExitSignal, NextOwn
<1>4. u[i] \in [type : {"exit", "creation"}, time : Nat, order : Forms]
  BY <1>3 DEF Events
<1>5. e \in Events /\ e.order = u[i].order
  BY <1>2, <1>4 DEF Events
<1>6. PICK v : v = Append(RemoveAt(u, i), e)
  OBVIOUS
<1>7. v \in Seq(Events) /\ \A j \in DOMAIN u : \E m \in DOMAIN v : v[m].order = u[j].order
  <2>1. Again(u, i, e, v)
    BY <1>1, <1>5, <1>6 DEF Again
  <2> QED
    BY <2>1, PushedAgain
<1>8. queue' = v /\ UNCHANGED <<orders, count, pos, cash, flow, pending, liquid, lost>>
  BY <1>1, <1>2, <1>6 DEF OnExitSignal, Popped, ledger
<1>9. LoopSound(Book)' /\ ExitsCovered'
  BY <1>1, <1>7, <1>8, QueueStep
<1>10. DistressHandled'
  BY OthersHandle DEF OnExitSignal
<1> QED
  BY <1>7, <1>8, <1>9, <1>10 DEF BacktestInv

LEMMA CreationStep ==
    ASSUME BacktestInv, NEW i \in DOMAIN queue, OnOrderCreation(i)
    PROVE  BacktestInv'
<1>1. PICK u \in Seq(Events) : u = queue
  BY DEF BacktestInv
<1>2. u[i] \in Events
  BY <1>1
<1>3. u[i].order \in Forms /\ u[i].time \in Nat
  BY <1>2 DEF Events
<1>4. PICK c \in Nat : c = count + 1
  BY DEF BacktestInv
<1>5. PICK w \in Nat : w = u[i].time + u[i].order.net
  BY <1>3 DEF Forms
<1>6. PICK e : e = [type |-> "submission", time |-> w, order |-> u[i].order, id |-> c]
  OBVIOUS
<1>7. e \in Events /\ e.order = u[i].order
  BY <1>3, <1>6 DEF Events
<1>8. PICK v : v = Append(RemoveAt(u, i), e)
  OBVIOUS
<1>9. v \in Seq(Events) /\ \A j \in DOMAIN u : \E m \in DOMAIN v : v[m].order = u[j].order
  <2>1. Again(u, i, e, v)
    BY <1>1, <1>7, <1>8 DEF Again
  <2> QED
    BY <2>1, PushedAgain
<1>10. queue' = v /\ count' = c /\ UNCHANGED <<orders, pos, cash, flow, pending, liquid, lost>>
  BY <1>1, <1>4, <1>5, <1>6, <1>8 DEF OnOrderCreation, Popped, ledger
<1>11. LoopSound(Book)' /\ ExitsCovered'
  BY <1>1, <1>9, <1>10, QueueStep
<1>12. DistressHandled'
  BY OthersHandle DEF OnOrderCreation
<1> QED
  BY <1>9, <1>10, <1>11, <1>12 DEF BacktestInv

(* The order takes over the cover of the event it came with.               *)
LEMMA SubmitStep ==
    ASSUME BacktestInv, NEW i \in DOMAIN queue, Submit(i)
    PROVE  BacktestInv'
<1>1. PICK u \in Seq(Events) : u = queue
  BY DEF BacktestInv
<1>2. u[i] \in Events /\ u[i].type = "submission"
  BY <1>1 DEF Submit, NextOwn
<1>3. u[i] \in [type : {"submission"}, time : Nat, order : Forms, id : Nat]
  BY <1>2 DEF Events
<1>4. PICK o \in Forms : o = u[i].order
  BY <1>3
<1>5. PICK n \in Nat : n = u[i].id
  BY <1>3
<1>6. PICK w \in Nat : w = u[i].time
  BY <1>3
<1>7. PICK x : x = Order(o, n, w)
  OBVIOUS
<1>8. x \in Submissions
  BY <1>7 DEF Order, Submissions, Forms
<1>9. \A k, p : Covers(o, o.lots, k, p) => Covers(x, x.rem, k, p) /\ ~(o.post /\ o.limit = NoPrice)
  BY <1>7 DEF Covers, ExitForm, Order
<1>10. orders' = (IF o.post /\ o.limit = NoPrice THEN orders ELSE orders \cup {x})
       /\ queue' = RemoveAt(u, i) /\ UNCHANGED <<count, pos, cash, flow, pending, liquid, lost>>
  BY <1>1, <1>4, <1>5, <1>6, <1>7 DEF Submit, Popped, ledger
<1>11. PICK v : v = RemoveAt(u, i)
  OBVIOUS
<1>12. v \in Seq(Events) /\ \A j \in DOMAIN u : j # i => \E m \in DOMAIN v : v[m] = u[j]
  BY <1>1, <1>11, PoppedKeeps
<1>13. LoopSound(Book)'
  <2>1. LoopSound(Book) /\ Book \in Loops
    BY DEF BacktestInv, LoopSound
  <2>2. /\ Book.left = orders /\ Book.orders = {} /\ Book.pos = pos /\ Book.cash = cash
        /\ Book.flow = flow /\ Book.pending = pending /\ Book.liquid = liquid
    BY DEF Book
  <2>3. orders \in SUBSET Submissions /\ IsFiniteSet(orders)
    BY <2>1, <2>2 DEF LoopSound, Loops
  <2>4. orders' \in SUBSET Submissions /\ IsFiniteSet(orders')
    BY <1>8, <1>10, <2>3, FS_AddElement
  <2>5. /\ pos \in [Keys -> Holdings] /\ pending \in SUBSET Keys /\ liquid \in SUBSET Keys
        /\ lost \in SUBSET Keys /\ cash \in Int /\ flow \in Int
    BY <2>1 DEF Book, Loops
  <2>6. PICK b : b = Book'
    OBVIOUS
  <2>7. b \in Loops
    BY <1>10, <2>4, <2>5, <2>6 DEF Book, Loops
  <2>8. /\ b.left = orders' /\ b.orders = {} /\ b.pos = pos /\ b.cash = cash
        /\ b.flow = flow /\ b.pending = pending /\ b.liquid = liquid
    BY <1>10, <2>6 DEF Book
  <2>9. LoopSound(b)
    BY <2>1, <2>2, <2>4, <2>7, <2>8 DEF LoopSound
  <2> QED
    BY <2>6, <2>9 DEF LoopSound
<1>14. ExitsCovered'
  <2> SUFFICES ASSUME NEW k \in pending \ lost
               PROVE  \/ \E j \in DOMAIN queue' : Covers(queue'[j].order, queue'[j].order.lots, k, pos[k])
                      \/ \E p \in orders' : Covers(p, p.rem, k, pos[k])
    BY <1>10 DEF ExitsCovered
  <2>1. CASE \E j \in DOMAIN u : Covers(u[j].order, u[j].order.lots, k, pos[k])
    <3>1. PICK j \in DOMAIN u : Covers(u[j].order, u[j].order.lots, k, pos[k])
      BY <2>1
    <3>2. CASE j = i
      <4>1. Covers(x, x.rem, k, pos[k]) /\ x \in orders'
        BY <1>4, <1>9, <1>10, <3>1, <3>2
      <4> QED
        BY <4>1
    <3>3. CASE j # i
      <4>1. PICK m \in DOMAIN v : v[m] = u[j]
        BY <1>12, <3>3
      <4> QED
        BY <1>10, <1>11, <3>1, <4>1
    <3> QED
      BY <3>2, <3>3
  <2>2. CASE \E p \in orders : Covers(p, p.rem, k, pos[k])
    BY <1>10, <2>2
  <2> QED
    BY <1>1, <2>1, <2>2 DEF BacktestInv, ExitsCovered
<1>15. DistressHandled'
  BY OthersHandle DEF Submit
<1> QED
  BY <1>10, <1>11, <1>12, <1>13, <1>14, <1>15 DEF BacktestInv

LEMMA BacktestStep == BacktestInv /\ [BacktestNext]_backtestVars => BacktestInv'
<1> SUFFICES ASSUME BacktestInv, [BacktestNext]_backtestVars PROVE BacktestInv'
  OBVIOUS
<1>1. ASSUME NEW t \in 1 .. MaxTime, NEW k \in Keys, NEW q \in Snapshots, OnMarket(t, k, q)
      PROVE  BacktestInv'
  BY <1>1, MarketStep
<1>2. ASSUME NEW t \in 1 .. MaxTime, NEW k \in Keys, NEW r \in Rates, NEW q \in Snapshots,
             OnFunding(t, k, r, q.mark)
      PROVE  BacktestInv'
  BY <1>2, FundingStep
<1>3. ASSUME NEW t \in 1 .. MaxTime, NEW s \in Signals, OnSignal(t, s)
      PROVE  BacktestInv'
  BY <1>3, SignalStep
<1>4. ASSUME NEW i \in DOMAIN queue, OnExitSignal(i) \/ OnOrderCreation(i) \/ Submit(i)
      PROVE  BacktestInv'
  BY <1>4, ExitSignalStep, CreationStep, SubmitStep
<1>5. CASE UNCHANGED backtestVars
  <2>1. UNCHANGED <<queue, orders, count, pos, cash, flow, pending, liquid, lost, at, error>>
    BY <1>5 DEF backtestVars, ledger
  <2>2. LoopSound(Book)' /\ ExitsCovered'
    BY <2>1, QueueStep
  <2>3. DistressHandled'
    BY <2>1 DEF BacktestInv, DistressHandled
  <2> QED
    BY <2>1, <2>2, <2>3 DEF BacktestInv
<1> QED
  BY <1>1, <1>2, <1>3, <1>4, <1>5 DEF BacktestNext

LEMMA BacktestAlways == BacktestSpec => []BacktestInv
  BY BacktestStarts, BacktestStep, PTL DEF BacktestSpec

(* The ledger's cash is what fills, fees and funding moved, plus what the  *)
(* open positions have cost, whatever the sequence of averaging, partial   *)
(* closes, reversals and settlements (PortfolioLedger, Position.apply_fill)*)
(* and also after an exception has ended the run.                          *)
THEOREM MoneyIsConserved == BacktestSpec => []Conserves
<1>1. BacktestInv => Conserves
  <2> SUFFICES ASSUME BacktestInv PROVE Conserves
    OBVIOUS
  <2>1. LoopSound(Book) /\ Book.cash = cash /\ Book.flow = flow /\ Book.pos = pos
    BY DEF BacktestInv, Book
  <2>2. cash = Cash + flow + Total(CostsOf(pos))
    BY <2>1 DEF LoopSound
  <2> QED
    BY <2>2 DEF Conserves, CostsOf, Cost
<1> QED
  BY <1>1, BacktestAlways, PTL

(* A scheduled exit (_schedule_exit, _exit_pending) is never forgotten: as *)
(* long as it is pending and not lost, an exit for its instrument is in    *)
(* the event queue or among the submitted orders, through signal, creation,*)
(* submission, partial fills and the cancellations of a liquidation.       *)
THEOREM ExitsAreServed == BacktestSpec => []ExitsServed
<1>1. BacktestInv => ExitsServed
  BY DEF BacktestInv, ExitsCovered, ExitsServed, ExitUnderWay, Covers, ExitForm
<1> QED
  BY <1>1, BacktestAlways, PTL

(* After a snapshot that leaves the equity at or below the maintenance     *)
(* margin, only reduce-only orders are left and every open position has a  *)
(* pending exit (_on_market, _liquidation_pending).                        *)
THEOREM DistressIsHandled == BacktestSpec => []DistressHandled
<1>1. BacktestInv => DistressHandled
  BY DEF BacktestInv
<1> QED
  BY <1>1, BacktestAlways, PTL
=============================================================================
