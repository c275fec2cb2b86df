------------------------------ MODULE ResearchRun ------------------------------
(***************************************************************************)
(* ResearchPipeline.run (services/research/pipeline.py) against the        *)
(* research database: ingest the configured events, freeze the hypothesis, *)
(* build the point-in-time dataset (dataset.py), finalize the snapshot     *)
(* (data_operations.py), judge the data, measure, accept, write the        *)
(* artifacts (report.py) and the run's row (repository.py).                *)
(*                                                                         *)
(* Every transaction is a step: the runs of several commands, the          *)
(* collector and a crash fall between them.  All runs name one snapshot    *)
(* and one hypothesis version.  A run id is a hash of its configuration,   *)
(* so an attempt that is repeated writes the same row and the same         *)
(* directory.  Bound: attempts of one run id do not overlap.               *)
(* Returns and statistics are an outcome of Evidence; features, regimes    *)
(* and the backtest (Backtest.tla) only feed them.  The registry of        *)
(* hypotheses in memory is new in every command, so it never refuses.      *)
(***************************************************************************)
EXTENDS Integers, SequencesExt, FiniteSetsExt

CONSTANTS
    Runs,          \* run ids
    Configs,       \* the configurations they may have
    Evidence,      \* what the measurements may come to
    Collected,     \* the events the collector may store meanwhile
    Cutoff,        \* cutoff_at; times above it lie in the future of the dataset
    MinimumEvents, \* minimum_production_events of the eligibility policy
    MaxAttempts    \* bound: commands started

Observations == {"oos_net_pnl", "deflated_sharpe", "pbo", "maximum_drawdown", "ruin_probability"}

None == "none"

ASSUME ResearchAssumption ==
    /\ Cutoff \in Nat /\ MinimumEvents \in Nat /\ MaxAttempts \in Nat
    /\ \A c \in Configs : /\ c.cutoff \in Nat /\ c.frozen \in Nat /\ c.hypothesis # None
                          /\ \A x \in c.rules : {x.stored, x.valid, x.known} \subseteq BOOLEAN
                          /\ c.supported \in BOOLEAN /\ c.thresholds \subseteq Observations
    /\ \A e \in Evidence :
          /\ {e.quality, e.oos, e.dependencies, e.robust, e.pbo, e.sharpe, e.ruin, e.stress,
              e.drawdown, e.capital, e.threshold} \subseteq BOOLEAN
          /\ e.rows \in {"none", "few", "flat", "enough"} /\ e.oosAt \in Nat

VARIABLES
    config,      \* of each run
    raw,         \* RawMarketEventRow: at most one row for an id
    quarantine,  \* MarketDataQuarantineRow: the id, and the time it was written with
    hypothesis,  \* FrozenHypothesisRow of the version: its content
    snapshot,    \* DataSnapshotRow and its members
    row,         \* ResearchRunRow
    files,       \* the artifact directory: the files, and the manifest that seals them
    step,        \* where the process of a run is; down when there is none
    local,       \* what it has read
    attempts

db == <<raw, quarantine, hypothesis, snapshot, row, files>>
vars == <<config, db, step, local, attempts>>

NoSnapshot == [cutoff |-> 0, members |-> {}, eligible |-> FALSE]
NoResult == [verdict |-> None, data |-> {}, hypothesis |-> None, measured |-> FALSE,
             early |-> FALSE, dirty |-> {}, reader |-> FALSE]
NoLocal ==
    [input |-> 0, found |-> FALSE, todo |-> {}, data |-> {}, quarantined |-> {},
     manifest |-> NoSnapshot, relevant |-> {}, result |-> NoResult]

-----------------------------------------------------------------------------
(* The point-in-time dataset.                                              *)
Wanted(c, S) == {e \in S : e.kind \in c.types}

Usable(c, S) == {e \in Wanted(c, S) : e.at <= c.cutoff}

(* _validate_payload, and the two checks of the timestamps.                *)
WellFormed(e) == ~e.bad

Before(e, f) == e.at < f.at \/ (e.at = f.at /\ e.id < f.id)

(* previous_sequences: the last well formed event of the stream, broken or *)
(* not.                                                                    *)
Earlier(S, e) == {f \in S : WellFormed(f) /\ f.conn = e.conn /\ f.kind = e.kind /\ Before(f, e)}

OutOfSequence(S, e) ==
    \E f \in Earlier(S, e) :
        /\ \A g \in Earlier(S, e) : g = f \/ Before(g, f)
        /\ e.seq # f.seq + 1

Refused(S) == {e \in S : ~WellFormed(e) \/ OutOfSequence(S, e)}

(* The dataset that build makes of the rows it read.                       *)
Dataset(c, S) == Usable(c, S) \ Refused(Usable(c, S))

(* evaluate_data_quality: its own look at the sequences ignores the        *)
(* connection and the event type.                                          *)
Unbroken(D) ==
    \A e \in D : LET earlier == {f \in D : Before(f, e)} IN
        earlier = {} \/ \E f \in earlier : /\ \A g \in earlier : g = f \/ Before(g, f)
                                           /\ e.seq = f.seq + 1

MutQuality(D, count, e) ==  \* mutant: quarantined events are no reason
    D # {} /\ Unbroken(D) /\ e.quality

Quality(D, count, e) == D # {} /\ count = 0 /\ Unbroken(D) /\ e.quality

-----------------------------------------------------------------------------
(* The snapshot.                                                           *)
Synchronized(e) == e.kind # "book" \/ e.sync

Market(S) == {e \in S : e.kind # "gap"}

Eligible(members, source) ==
    /\ Cardinality(Market(members)) >= MinimumEvents
    /\ \A e \in source : Synchronized(e)
    /\ 100 * Cardinality(source \ Market(source)) <= Max({1, Cardinality(Market(members))})

Manifest(c, quarantined, S) ==
    LET source == {e \in S : e.at <= c.cutoff}
        members == {e \in source : e.id \notin quarantined /\ Synchronized(e)}
    IN  [cutoff |-> c.cutoff, members |-> members, eligible |-> Eligible(members, source)]

-----------------------------------------------------------------------------
(* The measurements.  An answer is "none" where the code has no value:     *)
(* without quality walk-forward and overfitting are not computed, without  *)
(* complete rules stress and capital are not, and few or constant returns  *)
(* leave part of the overfitting result empty.                             *)
Answer(b) == IF b THEN "yes" ELSE "no"

WalkForward(quality, e) ==
    LET walked == quality /\ e.rows # "none"
    IN  [oos_net_pnl |-> Answer(walked /\ e.oos),
         dependency_robustness |->
            IF walked /\ e.dependencies THEN Answer(e.robust) ELSE "none"]

(* walk_forward_splits raises when the rows do not fill one window; the    *)
(* hypothesis has to be older than the first out-of-sample row.            *)
WalkForwardRaises(c, quality, e) ==
    quality /\ e.rows # "none" /\ (e.oosAt = 0 \/ c.frozen > e.oosAt)

Overfitting(quality, e) ==
    LET some == quality /\ e.rows \in {"flat", "enough"}
        all == quality /\ e.rows = "enough"
    IN  [pbo |-> IF some THEN Answer(e.pbo) ELSE "none",
         deflated_sharpe |-> IF all THEN Answer(e.sharpe) ELSE "none",
         ruin_probability |-> IF all THEN Answer(e.ruin) ELSE "none"]

CostStress(rules, e) ==
    [cost_stress_survival |-> IF rules THEN Answer(e.stress) ELSE "none",
     maximum_drawdown |-> IF rules THEN Answer(e.drawdown) ELSE "none"]

Capital(rules, e) == [capital |-> IF rules THEN Answer(e.capital) ELSE "none"]

(* The frozen rules of the instrument.  A fixture brings its events and    *)
(* the rules it stores itself, production data has to name stored ones.    *)
RulesRaise(c, data) ==
    \/ c.rules = {} /\ c.raw = <<>>
    \/ \E x \in c.rules : ~x.stored \/ (data # {} /\ ~x.valid)

(* Every field of the rule is known, verified and has its evidence.        *)
RulesComplete(c, data) == data = {} \/ \A x \in c.rules : x.known

(* evaluate_acceptance.                                                    *)
Checks(quality, rules, e) ==
    WalkForward(quality, e) @@ Overfitting(quality, e) @@ CostStress(rules, e) @@ Capital(rules, e)

(* _apply_frozen_thresholds: one more check for each threshold, none where *)
(* its observation is none; the sum of no returns is an observation.       *)
Thresholds(c, checks, e) ==
    [name \in c.thresholds |->
        IF name # "oos_net_pnl" /\ checks[name] = "none" THEN "none" ELSE Answer(e.threshold)]

Said(checks, answer) == \E name \in DOMAIN checks : checks[name] = answer

Verdict(c, quality, rules, e) ==
    LET checks == Checks(quality, rules, e)
        frozen == Thresholds(c, checks, e)
        missing == Said(checks, "none") \/ Said(frozen, "none") \/ e.rows # "enough"
    IN  CASE ~quality -> "FAIL"
          [] quality /\ missing -> "INSUFFICIENT_EVIDENCE"
          [] quality /\ ~missing /\ (Said(checks, "no") \/ Said(frozen, "no")) -> "FAIL"
          [] OTHER -> "PASS"

-----------------------------------------------------------------------------
Init ==
    /\ config \in {f \in [Runs -> Configs] : IsInjective(f)}  \* the run id is its hash
    /\ raw = {} /\ quarantine = {} /\ hypothesis = None /\ snapshot = NoSnapshot
    /\ row = [r \in Runs |-> [status |-> None, verdict |-> None]]
    /\ files = [r \in Runs |-> [content |-> NoResult, manifest |-> NoResult]]
    /\ step = [r \in Runs |-> "down"] /\ local = [r \in Runs |-> NoLocal]
    /\ attempts = 0

At(r, s) == step[r] = s /\ UNCHANGED <<config, attempts>>
Go(r, s) == step' = [step EXCEPT ![r] = s]
Know(r, l) == local' = [local EXCEPT ![r] = l]

(* An exception ends the command; nothing is undone.                       *)
Raise(r) == Go(r, "down") /\ Know(r, NoLocal) /\ UNCHANGED db

Begin(r) ==
    /\ step[r] = "down" /\ attempts < MaxAttempts
    /\ attempts' = attempts + 1
    /\ Go(r, "ingest") /\ UNCHANGED <<config, db, local>>

Ids(S) == {e.id : e \in S}
Known(S, e) == \E f \in S : f.id = e.id

(* One entry of raw_events.  A row that exists is never changed, so the    *)
(* transactions of an entry may be one step.                               *)
Ingest(r) ==
    /\ At(r, "ingest")
    /\ local[r].input < Len(config[r].raw)
    /\ LET i == local[r].input + 1
           e == config[r].raw[i]
           repeated == \E j \in 1 .. i - 1 : config[r].raw[j].id = e.id
       IN  /\ raw' = IF repeated \/ Known(raw, e) THEN raw ELSE raw \cup {e}
           /\ quarantine' = quarantine \cup
                 IF repeated \/ (Known(raw, e) /\ e \notin raw)
                 THEN {[id |-> e.id, at |-> config[r].cutoff]} ELSE {}
           /\ Know(r, [local[r] EXCEPT !.input = i])
    /\ UNCHANGED <<hypothesis, snapshot, row, files, step>>

(* repository.freeze_hypothesis: the row is read, then inserted.           *)
FreezeReads(r) ==
    /\ At(r, "ingest") /\ local[r].input = Len(config[r].raw)
    /\ IF config[r].frozen > config[r].cutoff \/ hypothesis \notin {None, config[r].hypothesis}
       THEN Raise(r)
       ELSE Go(r, IF hypothesis = None THEN "insert" ELSE "build") /\ UNCHANGED <<db, local>>

FreezeInserts(r) ==
    /\ At(r, "insert")
    /\ IF hypothesis # None THEN Raise(r)
       ELSE /\ hypothesis' = config[r].hypothesis
            /\ Go(r, "build") /\ UNCHANGED <<raw, quarantine, snapshot, row, files, local>>

ReadManifest(r) ==
    /\ At(r, "build")
    /\ IF snapshot # NoSnapshot /\ (snapshot.cutoff # config[r].cutoff \/ ~snapshot.eligible)
       THEN Raise(r)
       ELSE /\ Know(r, [local[r] EXCEPT !.found = snapshot # NoSnapshot])
            /\ Go(r, "source") /\ UNCHANGED db

MutSource(r) == raw  \* mutant: a finalized snapshot is rebuilt from the live table

Source(r) == IF local[r].found THEN snapshot.members ELSE raw

ReadSource(r) ==
    /\ At(r, "source")
    /\ LET used == Usable(config[r], Source(r))
       IN  Know(r, [local[r] EXCEPT !.todo = Refused(used),
                                    !.data = Dataset(config[r], Source(r))])
    /\ Go(r, "normalize") /\ UNCHANGED db

(* The refused events are quarantined in the order of the rows.            *)
Refuse(r) ==
    /\ At(r, "normalize")
    /\ \E e \in local[r].todo :
          /\ \A f \in local[r].todo : f = e \/ Before(e, f)
          /\ quarantine' = quarantine \cup {[id |-> e.id, at |-> config[r].cutoff]}
          /\ Know(r, [local[r] EXCEPT !.todo = @ \ {e}])
    /\ UNCHANGED <<raw, hypothesis, snapshot, row, files, step>>

Built(r) ==
    /\ At(r, "normalize") /\ local[r].todo = {}
    /\ Go(r, IF local[r].found THEN "running" ELSE "finalize")
    /\ UNCHANGED <<db, local>>

(* DataSnapshotService.finalize.                                           *)
FinalizeReadsQuarantine(r) ==
    /\ At(r, "finalize")
    /\ LET ids == Ids({q \in quarantine : q.at <= config[r].cutoff})
       IN  Know(r, [local[r] EXCEPT !.quarantined = ids])
    /\ Go(r, "members") /\ UNCHANGED db

FinalizeReadsEvents(r) ==
    /\ At(r, "members")
    /\ Know(r, [local[r] EXCEPT !.quarantined = {},
                 !.manifest = Manifest(config[r], local[r].quarantined, raw)])
    /\ Go(r, "existing") /\ UNCHANGED db

Finalized(r, manifest) ==
    IF manifest.eligible THEN Go(r, "running") /\ Know(r, [local[r] EXCEPT !.manifest = NoSnapshot])
    ELSE Go(r, "down") /\ Know(r, NoLocal)

FinalizeReadsManifest(r) ==
    /\ At(r, "existing")
    /\ IF snapshot # NoSnapshot THEN Finalized(r, snapshot)
       ELSE Go(r, "commit") /\ UNCHANGED local
    /\ UNCHANGED db

FinalizeCommits(r) ==
    /\ At(r, "commit")
    /\ IF snapshot \notin {NoSnapshot, local[r].manifest} THEN Raise(r)
       ELSE /\ snapshot' = local[r].manifest
            /\ Finalized(r, local[r].manifest)
            /\ UNCHANGED <<raw, quarantine, hypothesis, row, files>>

MutSaveRunning(r) ==  \* mutant: a completed row is kept until the repetition completes
    /\ At(r, "running")
    /\ row' = IF row[r].status = "completed" THEN row
              ELSE [row EXCEPT ![r] = [status |-> "running", verdict |-> None]]
    /\ Go(r, "relevant") /\ UNCHANGED <<raw, quarantine, hypothesis, snapshot, files, local>>

SaveRunning(r) ==
    /\ At(r, "running")
    /\ row' = [row EXCEPT ![r] = [status |-> "running", verdict |-> None]]
    /\ Go(r, "relevant") /\ UNCHANGED <<raw, quarantine, hypothesis, snapshot, files, local>>

RelevantIds(r) ==
    /\ At(r, "relevant")
    /\ Know(r, [local[r] EXCEPT !.relevant = Ids(Usable(config[r], raw))])
    /\ Go(r, "judge") /\ UNCHANGED db

(* The count of quarantine rows, and everything computed from it: quality, *)
(* rules, walk-forward, stress, overfitting, capital, acceptance.          *)
Evaluate(r) ==
    /\ At(r, "judge")
    /\ \E e \in Evidence :
        LET c == config[r]
            count == Cardinality({q \in quarantine : q.id \in local[r].relevant})
            quality == Quality(local[r].data, count, e)
            complete == RulesComplete(c, local[r].data)
        IN  IF \/ RulesRaise(c, local[r].data) \/ WalkForwardRaises(c, quality, e)
               \/ ~c.supported
            THEN Raise(r)
            ELSE /\ Know(r, [NoLocal EXCEPT
                        !.result = [verdict |-> Verdict(c, quality, complete, e),
                                    data |-> local[r].data,
                                    hypothesis |-> c.hypothesis,
                                    measured |-> ~Said(Checks(quality, complete, e), "none"),
                                    early |-> c.frozen <= e.oosAt,
                                    dirty |-> Ids(local[r].data) \cap Ids(quarantine),
                                    reader |-> local[r].found]])
                 /\ Go(r, "write") /\ UNCHANGED db

(* ResearchArtifactWriter.write: the files, then the manifest over them.   *)
WriteFiles(r) ==
    /\ At(r, "write")
    /\ files' = [files EXCEPT ![r].content = local[r].result]
    /\ Go(r, "seal") /\ UNCHANGED <<raw, quarantine, hypothesis, snapshot, row, local>>

WriteManifest(r) ==
    /\ At(r, "seal")
    /\ files' = [files EXCEPT ![r].manifest = files[r].content]
    /\ Go(r, "save") /\ UNCHANGED <<raw, quarantine, hypothesis, snapshot, row, local>>

SaveCompleted(r) ==
    /\ At(r, "save")
    /\ row' = [row EXCEPT ![r] = [status |-> "completed", verdict |-> local[r].result.verdict]]
    /\ Go(r, "down") /\ Know(r, NoLocal)
    /\ UNCHANGED <<raw, quarantine, hypothesis, snapshot, files>>

(* The process of a run is killed.                                         *)
Crash(r) == step[r] # "down" /\ Raise(r) /\ UNCHANGED <<config, attempts>>

(* The collector stores an event, and may quarantine one it has stored: at *)
(* the time it does so, before the cutoff or after it.                     *)
Collect ==
    /\ \E e \in Collected : ~Known(raw, e) /\ raw' = raw \cup {e}
    /\ UNCHANGED <<config, quarantine, hypothesis, snapshot, row, files, step, local, attempts>>

CollectorQuarantines ==
    /\ \E e \in raw \cap Collected, t \in {Cutoff, Cutoff + 1} :
          /\ \A q \in quarantine : q.id # e.id
          /\ quarantine' = quarantine \cup {[id |-> e.id, at |-> t]}
    /\ UNCHANGED <<config, raw, hypothesis, snapshot, row, files, step, local, attempts>>

Next ==
    \/ \E r \in Runs :
          \/ Begin(r) \/ Ingest(r) \/ FreezeReads(r) \/ FreezeInserts(r)
          \/ ReadManifest(r) \/ ReadSource(r) \/ Refuse(r) \/ Built(r)
          \/ FinalizeReadsQuarantine(r) \/ FinalizeReadsEvents(r)
          \/ FinalizeReadsManifest(r) \/ FinalizeCommits(r)
          \/ SaveRunning(r) \/ RelevantIds(r) \/ Evaluate(r)
          \/ WriteFiles(r) \/ WriteManifest(r) \/ SaveCompleted(r) \/ Crash(r)
    \/ Collect \/ CollectorQuarantines

Spec == Init /\ [][Next]_vars

-----------------------------------------------------------------------------
(* A PASS that anyone can read (the artifacts of a completed run) rests on *)
(* a dataset none of whose events was quarantined by then, by this run, by *)
(* an earlier attempt or by the collector, malformed, out of sequence or   *)
(* available only after the cutoff; every check was measured, and the      *)
(* hypothesis was frozen before the first out-of-sample observation        *)
(* (evaluate_data_quality, evaluate_acceptance, _walk_forward).            *)
PassIsClean ==
    \A r \in Runs : row[r].verdict = "PASS" =>
        LET result == files[r].content
        IN  /\ result.measured /\ result.early
            /\ result.data # {}
            /\ result.dirty = {}
            /\ \A e \in result.data : WellFormed(e) /\ e.at <= config[r].cutoff
            /\ Unbroken(result.data)

(* A run that found the snapshot finalized uses its members, whatever has  *)
(* been stored or quarantined since: it gets the dataset every other       *)
(* reader of the snapshot gets (build, snapshot_events).                   *)
ReadersAgree ==
    \A r \in Runs : LET result == files[r].content IN
        result.reader =>
            result.data = Dataset(config[r], snapshot.members)

(* A completed row vouches for its artifacts: the manifest seals the files *)
(* in the directory, they hold the row's verdict and they were computed    *)
(* under the hypothesis that was frozen before the data was read, also     *)
(* when a later attempt of the same run id was cut off anywhere (save_run, *)
(* write, freeze_hypothesis).                                              *)
RecordMatchesArtifacts ==
    \A r \in Runs : row[r].status = "completed" =>
        /\ files[r].manifest = files[r].content
        /\ files[r].content.verdict = row[r].verdict
        /\ files[r].content.hypothesis = hypothesis

=============================================================================
