--------------------------- MODULE Certification ---------------------------
(***************************************************************************)
(* A market-data certification run from launch to sealed evidence          *)
(* (cli/main.py run_market_data_certification and                          *)
(* launch_market_data_certification, services/research/certification_*.py).*)
(*                                                                         *)
(* Several attempts at one run id may follow each other or overlap.  An    *)
(* attempt writes its stages to the registry row and the lifecycle log,    *)
(* collects under a lease, issues one certificate per capability, promotes *)
(* what passed, and exports and seals the result.  A launcher registers an *)
(* attempt, waits for it and unloads it; an operator can re-export.        *)
(* Signals, I/O errors and kills strike between any two durable effects.   *)
(***************************************************************************)
EXTENDS CertificationVerdict

CONSTANTS
    Attempts,        \* processes started for the run id
    Launched,        \* the ones the launcher registers; an operator starts the others
    Capabilities,    \* sequence of capabilities, in the order they are judged
    Samples,         \* what a window can bring: capability -> set of samples
    Overlap,         \* where a running attempt may stand when another one starts
    MaxTrouble       \* bound on signals, I/O errors and kills together

Nothing == "none"
Caps == {Capabilities[i] : i \in DOMAIN Capabilities}

\* A run judges at least one capability; no process is called "none".
ASSUME CapabilitiesAssumption == Capabilities \in Seq(Caps) /\ Capabilities # <<>>
ASSUME AttemptsAssumption == Nothing \notin Attempts
ASSUME SamplesAssumption == \A c \in Caps : Samples[c] \subseteq SampleRecords

VARIABLES
    pc,        \* attempt -> where its process stands
    at,        \* attempt -> index of the stage it writes next
    cap,       \* attempt -> index of the capability it judges
    how,       \* attempt -> what its exception will be recorded as
    grp,       \* attempt -> is lease_group set?
    row,       \* CertificationRunRow
    log,       \* number of lines of lifecycle.jsonl (append only)
    lease,     \* CollectorLeaseRow of the group: [by, live]
    certs,     \* MarketDataCertificationRow per capability
    promos,    \* CapabilityPromotionRow per capability
    prod,      \* whose window's events are in production, per capability
    file,      \* certification-records, promotions, manifest, run and marker
    exp,       \* attempt -> its export: where it stands, the rows it read
    lau,       \* the launcher
    trouble    \* signals, I/O errors and kills so far

process == <<pc, at, cap, how, grp>>
database == <<row, lease, certs, promos, prod>>
certVars == <<process, database, log, file, exp, lau, trouble>>

NoCert == [by |-> Nothing, verdict |-> Nothing, gate |-> "closed", sound |-> TRUE]
NoRows == [by |-> Nothing, certs |-> [c \in Caps |-> NoCert], promos |-> [c \in Caps |-> FALSE]]
NoManifest == [run |-> Nothing, log |-> 0, records |-> NoRows.certs,
               promotions |-> NoRows.promos]
NoExport == [at |-> "idle", rows |-> NoRows, sha |-> NoManifest]

\* What the evidence opens: nothing without a PASS, live evidence and an audit;
\* an audit that names no run ids is found out by promote only.
Gate(j) ==
    IF j.verdict = "PASS" /\ j.live /\ j.audit # "none" THEN j.audit ELSE "closed"

\* Every outcome certify can have for a capability, and whether it means what
\* Reference says.  Evaluated once: samples themselves are not state.
Outcomes == [c \in Caps |->
    {LET j == Judge(c, s) IN
       [verdict |-> j.verdict, raises |-> j.raises, gate |-> Gate(j),
        sound |-> Reference(c, s, j)] : s \in Samples[c]}]

\* The lifecycle stages, with those that follow one another directly taken as
\* one: only the last of a group is named.
StageNames == <<"PROCESS_STARTED",
                "MIGRATION_VERIFIED",            \* after CONFIG_LOADED, DB_CONNECTION_VERIFIED
                "ADAPTERS_CREATED",              \* after AUDIT_ARTIFACT_VERIFIED
                "CERTIFICATION_WINDOW_STARTED",  \* after LEASE_ACQUIRED, COLLECTOR_STARTED
                "FINALIZATION_STARTED",          \* after FIRST_EVENT_RECEIVED
                "ARTIFACT_WRITTEN",
                "PROCESS_COMPLETED">>

\* What the process does once a stage is written: most often the next stage.
After(stage) ==
    CASE stage = "MIGRATION_VERIFIED" -> "audit"
      [] stage = "ADAPTERS_CREATED" -> "acquire"
      [] stage = "CERTIFICATION_WINDOW_STARTED" -> "collect"
      [] stage = "FINALIZATION_STARTED" -> "certify"
      [] stage = "PROCESS_COMPLETED" -> "export"
      [] OTHER -> "row"

CertInit ==
    /\ pc = [a \in Attempts |-> "idle"]
    /\ at = [a \in Attempts |-> 1]
    /\ cap = [a \in Attempts |-> 1]
    /\ how = [a \in Attempts |-> Nothing]
    /\ grp = [a \in Attempts |-> FALSE]
    /\ row = [by |-> Nothing, status |-> Nothing, stage |-> Nothing]
    /\ log = 0
    /\ lease = [by |-> Nothing, live |-> FALSE]
    /\ certs = NoRows.certs
    /\ promos = NoRows.promos
    /\ prod = [c \in Caps |-> Nothing]
    /\ file = [records |-> NoRows.certs, promotions |-> NoRows.promos,
               manifest |-> NoManifest, run |-> NoManifest, marker |-> NoManifest]
    /\ exp = [a \in Attempts |-> NoExport]
    /\ lau = [at |-> "idle", of |-> Nothing]
    /\ trouble = 0

-----------------------------------------------------------------------------
(***************************************************************************)
(* The process                                                             *)
(***************************************************************************)

Handled == {"open", "row", "log", "audit", "acquire", "collect", "certify", "promote",
            "produce", "artifact", "release", "export", "echo"}
Running(a) == pc[a] \notin {"idle", "exit", "dead"}
Goto(a, label) == pc' = [pc EXCEPT ![a] = label]

\* A process that ends takes its variables with it.
End(a, label) ==
    /\ Goto(a, label)
    /\ at' = [at EXCEPT ![a] = 1]
    /\ cap' = [cap EXCEPT ![a] = 1]
    /\ how' = [how EXCEPT ![a] = Nothing]
    /\ grp' = [grp EXCEPT ![a] = FALSE]

Capability(a) == Capabilities[cap[a]]

\* The except clauses: lifecycle is bound only when its constructor returned,
\* that is once the first stage is in the log.
Raise(a, status) ==
    /\ Goto(a, IF at[a] > 1 THEN "fail" ELSE "restore")
    /\ how' = [how EXCEPT ![a] = status]

\* Preflight passed, the workspace exists (initialize keeps what is in it) and
\* the signal handlers are installed.
Start(a) ==
    /\ pc[a] = "idle"
    /\ \A b \in Attempts : Running(b) => pc[b] \in Overlap
    /\ Goto(a, "open")
    /\ UNCHANGED <<at, cap, how, grp, database, log, file, exp, trouble>>

\* The database answers with the current migration; CertificationLifecycle
\* first saves the row as STARTING, whatever row the run id had.
Open(a) ==
    /\ pc[a] = "open"
    /\ row' = [by |-> a, status |-> "STARTING", stage |-> "PROCESS_STARTED"]
    /\ Goto(a, "row")
    /\ UNCHANGED <<at, cap, how, grp, lease, certs, promos, prod, log, file, exp,
                   lau, trouble>>

\* CertificationLifecycle.stage: the row first, then the log line.
StageStatus(stage) ==
    CASE stage = "PROCESS_STARTED" -> "STARTING"
      [] stage = "PROCESS_COMPLETED" -> "COMPLETED"
      [] OTHER -> "RUNNING"

StageRow(a) ==
    /\ pc[a] = "row"
    /\ row' = [by |-> a, status |-> StageStatus(StageNames[at[a]]),
               stage |-> StageNames[at[a]]]
    /\ Goto(a, "log")
    /\ UNCHANGED <<at, cap, how, grp, lease, certs, promos, prod, log, file, exp,
                   lau, trouble>>

StageLog(a) ==
    /\ pc[a] = "log"
    /\ log' = log + 1
    /\ Goto(a, After(StageNames[at[a]]))
    /\ at' = [at EXCEPT ![a] = @ + 1]
    /\ UNCHANGED <<cap, how, grp, database, file, exp, lau, trouble>>

\* verify_capability_audit accepts the artifact of this commit, or raises.
Audit(a) ==
    /\ pc[a] = "audit"
    /\ \/ Goto(a, "row") /\ UNCHANGED how
       \/ Raise(a, "FAILED")
    /\ UNCHANGED <<at, cap, grp, database, log, file, exp, lau, trouble>>

\* The lease lasts for the window and five minutes and is never renewed.
\* lease_group is set before acquire is called.
Acquire(a) ==
    /\ pc[a] = "acquire"
    /\ grp' = [grp EXCEPT ![a] = TRUE]
    /\ \/ /\ lease.by = Nothing \/ ~lease.live
          /\ lease' = [by |-> a, live |-> TRUE]
          /\ Goto(a, "row")
          /\ UNCHANGED how
       \/ /\ lease.by # Nothing /\ lease.live
          /\ Raise(a, "FAILED")
          /\ UNCHANGED lease
    /\ UNCHANGED <<at, cap, row, certs, promos, prod, log, file, exp, lau,
                   trouble>>

\* _run_certification_collection: the timer ends the collector, or the
\* collector ended first and the run raises.
Collect(a) ==
    /\ pc[a] = "collect"
    /\ \/ Goto(a, "row") /\ UNCHANGED how
       \/ Raise(a, "FAILED")
    /\ UNCHANGED <<at, cap, grp, database, log, file, exp, lau, trouble>>

MutCertify(a) ==
    /\ pc[a] = "certify"
    /\ \E o \in Outcomes[Capability(a)] :
         IF o.raises THEN Raise(a, "FAILED") /\ UNCHANGED certs
         ELSE /\ certs' = [certs EXCEPT ![Capability(a)] =
                             [by |-> a, verdict |-> o.verdict, gate |-> o.gate,
                              sound |-> o.sound]]
              /\ Goto(a, IF o.gate # "closed" THEN "promote" ELSE "artifact")
              /\ UNCHANGED how
    /\ UNCHANGED <<at, cap, grp, row, lease, promos, prod, log, file, exp, lau,
                   trouble>>

\* certify, whose last act is an insert that refuses another certificate of
\* the same id; the run goes on to promote a PASS of an audited live sample.
Certify(a) ==
    /\ pc[a] = "certify"
    /\ \E o \in Outcomes[Capability(a)] :
         IF o.raises \/ certs[Capability(a)].by # Nothing
         THEN Raise(a, "FAILED") /\ UNCHANGED certs
         ELSE /\ certs' = [certs EXCEPT ![Capability(a)] =
                             [by |-> a, verdict |-> o.verdict, gate |-> o.gate,
                              sound |-> o.sound]]
              /\ Goto(a, IF o.gate # "closed" THEN "promote" ELSE "artifact")
              /\ UNCHANGED how
    /\ UNCHANGED <<at, cap, grp, row, lease, promos, prod, log, file, exp, lau,
                   trouble>>

\* CapabilityPromotionService.promote re-reads the certificate and asks for
\* every evidence gate, the audit's run ids among them.
PromoteGates(cert) ==
    cert.verdict = "PASS" /\ cert.gate = "bound"

Promote(a) ==
    /\ pc[a] = "promote"
    /\ LET cert == certs[Capability(a)] IN
         \/ /\ cert.by = a /\ PromoteGates(cert)
            /\ promos' = [promos EXCEPT ![Capability(a)] = TRUE]
            /\ Goto(a, "produce")
            /\ UNCHANGED how
         \/ /\ ~(cert.by = a /\ PromoteGates(cert))
            /\ Raise(a, "FAILED")
            /\ UNCHANGED promos
    /\ UNCHANGED <<at, cap, grp, row, lease, certs, prod, log, file, exp, lau,
                   trouble>>

\* The window's events are stored again as production events.
Produce(a) ==
    /\ pc[a] = "produce"
    /\ prod' = [prod EXCEPT ![Capability(a)] = a]
    /\ Goto(a, "artifact")
    /\ UNCHANGED <<at, cap, how, grp, row, lease, certs, promos, log, file, exp,
                   lau, trouble>>

WriteArtifact(a) ==
    /\ pc[a] = "artifact"
    /\ cap' = [cap EXCEPT ![a] = @ + 1]
    /\ Goto(a, IF cap[a] = Len(Capabilities) THEN "release" ELSE "certify")
    /\ UNCHANGED <<at, how, grp, database, log, file, exp, lau, trouble>>

\* release deletes the row only if this owner still holds it.
Released(a) == IF lease.by = a THEN [by |-> Nothing, live |-> FALSE] ELSE lease

Release(a) ==
    /\ pc[a] = "release"
    /\ lease' = Released(a)
    /\ grp' = [grp EXCEPT ![a] = FALSE]
    /\ Goto(a, "row")
    /\ UNCHANGED <<at, cap, how, row, certs, promos, prod, log, file, exp, lau,
                   trouble>>

\* CertificationLifecycle.fail keeps last_stage; then crash.json and the log.
Fail(a) ==
    /\ pc[a] = "fail"
    /\ row' = [by |-> a, status |-> how[a], stage |-> StageNames[at[a] - 1]]
    /\ Goto(a, "failLog")
    /\ UNCHANGED <<at, cap, how, grp, lease, certs, promos, prod, log, file, exp,
                   lau, trouble>>

FailLog(a) ==
    /\ pc[a] = "failLog"
    /\ log' = log + 1
    /\ Goto(a, "restore")
    /\ UNCHANGED <<at, cap, how, grp, database, file, exp, lau, trouble>>

\* The summary line after a successful export.
Echo(a) ==
    /\ pc[a] = "echo"
    /\ Goto(a, "restore")
    /\ UNCHANGED <<at, cap, how, grp, database, log, file, exp, lau, trouble>>

\* finally: the old handlers come back first, then the lease is released.
Restore(a) ==
    /\ pc[a] = "restore"
    /\ Goto(a, "unwind")
    /\ UNCHANGED <<at, cap, how, grp, database, log, file, exp, lau, trouble>>

Unwind(a) ==
    /\ pc[a] = "unwind"
    /\ lease' = IF grp[a] THEN Released(a) ELSE lease
    /\ End(a, "exit")
    /\ UNCHANGED <<row, certs, promos, prod, log, file, exp,
                   lau, trouble>>

-----------------------------------------------------------------------------
(***************************************************************************)
(* export_completed_run, by the attempt itself or by the export command:   *)
(* one read of the database, then one atomic file after another.           *)
(***************************************************************************)

Exportable == row.status = "COMPLETED" /\ lease.by = Nothing

ExportStep(x, from, to) ==
    /\ exp[x].at = from
    /\ exp' = [exp EXCEPT ![x].at = to]

ReadRows(x) ==
    /\ Exportable
    /\ exp[x].at = "idle"
    /\ exp' = [exp EXCEPT ![x] =
                 [at |-> "records",
                  rows |-> [by |-> row.by, certs |-> certs, promos |-> promos],
                  sha |-> NoManifest]]
    /\ UNCHANGED file

WriteRecords(x) ==
    /\ ExportStep(x, "records", "manifest")
    /\ file' = [file EXCEPT !.records = exp[x].rows.certs,
                            !.promotions = exp[x].rows.promos]

\* The manifest hashes the evidence files as they are now on disk; run.json and
\* the marker carry the hash of the manifest just written.
WriteManifest(x) ==
    LET manifest == [run |-> exp[x].rows.by, log |-> log, records |-> file.records,
                     promotions |-> file.promotions]
    IN  /\ exp[x].at = "manifest"
        /\ exp' = [exp EXCEPT ![x].at = "run", ![x].sha = manifest]
        /\ file' = [file EXCEPT !.manifest = manifest]

WriteRun(x) ==
    /\ ExportStep(x, "run", "marker")
    /\ file' = [file EXCEPT !.run = exp[x].sha]

WriteMarker(x) ==
    /\ exp[x].at = "marker"
    /\ exp' = [exp EXCEPT ![x] = NoExport]
    /\ file' = [file EXCEPT !.marker = exp[x].sha]

ExportFiles(x) ==
    \/ WriteRecords(x) \/ WriteManifest(x) \/ WriteRun(x)
    \/ WriteMarker(x)

\* The attempt's own export, which raises when the row or the lease forbids it.
ExportOwn(a) ==
    /\ pc[a] = "export"
    /\ \/ (ReadRows(a) \/ ExportFiles(a)) /\ exp[a].at # "marker" /\ UNCHANGED <<pc, how>>
       \/ WriteMarker(a) /\ Goto(a, "echo") /\ UNCHANGED how
       \/ exp[a].at = "idle" /\ ~Exportable /\ Raise(a, "FAILED") /\ UNCHANGED <<exp, file>>
    /\ UNCHANGED <<at, cap, grp, database, log, lau, trouble>>

MutExportCommand ==
    /\ row.by # Nothing /\ lease.by = Nothing
    /\ LET manifest == [run |-> row.by, log |-> log, records |-> certs, promotions |-> promos]
       IN  file' = [records |-> certs, promotions |-> promos, manifest |-> manifest,
                    run |-> manifest, marker |-> manifest]
    /\ UNCHANGED <<process, database, log, exp, lau, trouble>>

\* export-certification-run, at any time, beside whatever attempt runs.  Its
\* reads and writes are taken as one step.
ExportCommand ==
    /\ Exportable
    /\ LET manifest == [run |-> row.by, log |-> log, records |-> certs, promotions |-> promos]
       IN  file' = [records |-> certs, promotions |-> promos, manifest |-> manifest,
                    run |-> manifest, marker |-> manifest]
    /\ UNCHANGED <<process, database, log, exp, lau, trouble>>

\* reconstruct_from_artifacts and verify_run.
Reconstructs ==
    /\ file.marker # NoManifest
    /\ file.marker = file.manifest /\ file.run = file.manifest
    /\ file.manifest.log = log
    /\ file.manifest.records = file.records
    /\ file.manifest.promotions = file.promotions

Verifies ==
    /\ Reconstructs
    /\ row.status = "COMPLETED" /\ row.stage = "PROCESS_COMPLETED"
    /\ lease.by = Nothing
    /\ file.records = certs

-----------------------------------------------------------------------------
(***************************************************************************)
(* Trouble                                                                 *)
(***************************************************************************)

\* What a signal does to an attempt: the handler raises CertificationCanceled
\* wherever the process is.  Inside fail() it ends fail(); once finally runs it
\* ends the process before the lease is released.
Interrupted(a, status) ==
    /\ exp' = [exp EXCEPT ![a] = NoExport]
    /\ \/ pc[a] \in Handled /\ Raise(a, status) /\ UNCHANGED <<at, cap, grp>>
       \/ /\ pc[a] \in {"fail", "failLog"} /\ Goto(a, "restore")
          /\ UNCHANGED <<at, cap, how, grp>>
       \/ pc[a] \in {"restore", "unwind"} /\ End(a, "dead")

Signal(a) ==
    /\ trouble < MaxTrouble
    /\ Interrupted(a, "CANCELED")
    /\ trouble' = trouble + 1
    /\ UNCHANGED <<database, log, file, lau>>

\* The database or the disk fails under a step that uses it.
IOError(a) ==
    /\ trouble < MaxTrouble
    /\ pc[a] \notin {"restore", "echo"}
    /\ Interrupted(a, "FAILED")
    /\ trouble' = trouble + 1
    /\ UNCHANGED <<database, log, file, lau>>

Killed(a) ==
    /\ End(a, "dead")
    /\ exp' = [exp EXCEPT ![a] = NoExport]

Kill(a) ==
    /\ trouble < MaxTrouble
    /\ Running(a)
    /\ Killed(a)
    /\ trouble' = trouble + 1
    /\ UNCHANGED <<database, log, file, lau>>

\* The lease ends five minutes after the window should have: a slow start or
\* a long finalization outlasts it.
LeaseExpires ==
    /\ lease.by # Nothing /\ lease.live
    /\ lease' = [lease EXCEPT !.live = FALSE]
    /\ UNCHANGED <<process, row, certs, promos, prod, log, file, exp, lau,
                   trouble>>

-----------------------------------------------------------------------------
(***************************************************************************)
(* launch-market-data-certification --wait                                 *)
(***************************************************************************)

\* Preflight passes in the same interpreter, and the agent is registered.
Launch(a) ==
    /\ a \in Launched /\ lau.at = "idle"
    /\ lau' = [at |-> "watch", of |-> a]
    /\ Start(a)

StartDirect(a) == a \notin Launched /\ Start(a) /\ UNCHANGED lau

\* application_started: the process exists, and the row is STARTING or RUNNING
\* or PROCESS_STARTED is in the output, which earlier attempts wrote to as well.
ApplicationStarted ==
    /\ Running(lau.of)
    /\ row.status \in {"STARTING", "RUNNING"} \/ log > 0

Watchdog ==
    /\ lau.at = "watch"
    /\ lau' = [lau EXCEPT !.at = IF ApplicationStarted THEN "poll" ELSE "unload"]
    /\ UNCHANGED <<process, database, log, file, exp, trouble>>

\* The wait loop reads the registry, then asks for the pid: a failed run ends
\* the wait, a completed one once its process is gone, any other goes on.
PollRow ==
    /\ lau.at = "poll"
    /\ row.status \in {"FAILED", "CANCELED", "COMPLETED"}
    /\ lau' = [lau EXCEPT !.at = IF row.status = "COMPLETED" THEN "pid" ELSE "unload"]
    /\ UNCHANGED <<process, database, log, file, exp, trouble>>

PollPid ==
    /\ lau.at = "pid"
    /\ lau' = [lau EXCEPT !.at = IF Running(lau.of) THEN "poll" ELSE "unload"]
    /\ UNCHANGED <<process, database, log, file, exp, trouble>>

MutDeadline ==
    /\ lau.at = "poll" /\ ~Running(lau.of)
    /\ lau' = [lau EXCEPT !.at = "unload"]
    /\ UNCHANGED <<process, database, log, file, exp, trouble>>

Deadline ==
    /\ lau.at = "poll"
    /\ lau' = [lau EXCEPT !.at = "unload"]
    /\ UNCHANGED <<process, database, log, file, exp, trouble>>

\* unload: SIGTERM, ten seconds, SIGKILL; then bootout.
Unload ==
    /\ lau.at = "unload"
    /\ \/ /\ Running(lau.of)
          /\ lau' = [lau EXCEPT !.at = "grace"]
          /\ Interrupted(lau.of, "CANCELED")
       \/ /\ ~Running(lau.of)
          /\ lau' = [lau EXCEPT !.at = "done"]
          /\ UNCHANGED <<process, exp>>
    /\ UNCHANGED <<database, log, file, trouble>>

UnloadEnds ==
    /\ lau.at = "grace"
    /\ lau' = [lau EXCEPT !.at = "done"]
    /\ IF Running(lau.of) THEN Killed(lau.of) ELSE UNCHANGED <<process, exp>>
    /\ UNCHANGED <<database, log, file, trouble>>

Launcher == Watchdog \/ PollRow \/ PollPid \/ Unload \/ UnloadEnds

Process(a) ==
    \/ Open(a) \/ StageRow(a) \/ StageLog(a) \/ Audit(a) \/ Acquire(a) \/ Collect(a)
    \/ Certify(a) \/ Promote(a) \/ Produce(a) \/ WriteArtifact(a) \/ Release(a)
    \/ ExportOwn(a) \/ Echo(a) \/ Fail(a) \/ FailLog(a) \/ Restore(a) \/ Unwind(a)

CertNext ==
    \/ \E a \in Attempts : StartDirect(a) \/ Launch(a) \/ Process(a)
    \/ \E a \in Attempts : Signal(a) \/ IOError(a) \/ Kill(a)
    \/ ExportCommand
    \/ LeaseExpires
    \/ Launcher
    \/ Deadline

CertSpec == CertInit /\ [][CertNext]_certVars

\* The launcher is a sequential program; its deadline passes for good, so a
\* loop that keeps coming back to its head finds it passed.
CertFairSpec == CertSpec /\ WF_certVars(Launcher) /\ SF_certVars(Deadline)

-----------------------------------------------------------------------------
(***************************************************************************)
(* Properties                                                              *)
(***************************************************************************)

\* A certificate's verdict means what Reference says of the sample it was
\* issued for: live trades in order, one funding schedule, settlements on the
\* funding grid exactly when the history did not fail.
VerdictSound == \A c \in Caps : certs[c].sound

\* Production events come from the very window that was certified: they have a
\* promotion, and it a stored PASS with live evidence and a bound audit issued
\* for the same attempt's sample, through reruns, signals and crashes.
PromotionBacked ==
    \A c \in Caps :
        /\ promos[c] => PromoteGates(certs[c])
        /\ prod[c] # Nothing => promos[c] /\ prod[c] = certs[c].by

\* A directory that reconstruct_from_artifacts accepts holds every capability's
\* certificate as the database has it, all from one attempt; if verify_run
\* accepts it too, the registry row is of that attempt.
SealTruthful ==
    Reconstructs =>
        /\ file.records = certs /\ file.promotions = promos
        /\ \A c \in Caps : certs[c].by = file.manifest.run
        /\ Verifies => row.by = file.manifest.run

\* The waiting launcher always returns, even for a run whose collection hangs,
\* and then the process it registered is gone.
LaunchEnds == lau.at = "watch" ~> lau.at = "done" /\ ~Running(lau.of)

=============================================================================
