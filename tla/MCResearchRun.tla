----------------------------- MODULE MCResearchRun -----------------------------
(***************************************************************************)
(* Bounds for ResearchRun: two runs that share a snapshot and a            *)
(* hypothesis version, events of one connection of which the second is     *)
(* missing, a malformed, a conflicting, a future and an unsynchronized     *)
(* one, and times 1 .. 3 around the cutoff 2.                              *)
(***************************************************************************)
EXTENDS ResearchRun

Event(id, at, kind, seq) ==
    [id |-> id, at |-> at, kind |-> kind, conn |-> 1, seq |-> seq, bad |-> FALSE,
     sync |-> TRUE, payload |-> 1]

First == Event(1, 1, "book", 1)
Skips == Event(2, 1, "book", 3)    \* follows 1: a gap
Second == Event(3, 2, "book", 2)
Future == Event(4, 3, "book", 3)
Malformed == [Event(5, 2, "book", 2) EXCEPT !.bad = TRUE]
Torn == [Event(6, 2, "book", 2) EXCEPT !.sync = FALSE]
Control == Event(7, 1, "gap", 0)
Conflict == [First EXCEPT !.payload = 2]

MCCollected == {Second}

Rule == [stored |-> TRUE, valid |-> TRUE, known |-> TRUE]

Base == [raw |-> <<First>>, types |-> {"book"}, cutoff |-> 2, frozen |-> 1,
         hypothesis |-> "h1", rules |-> {Rule}, supported |-> TRUE,
         thresholds |-> {"pbo"}]

MCConfigs ==
    {Base,
     [Base EXCEPT !.hypothesis = "h2", !.raw = <<Skips>>],
     [Base EXCEPT !.raw = <<First, Conflict, Malformed, Future>>, !.rules = {[Rule EXCEPT !.known = FALSE]}],
     [Base EXCEPT !.frozen = 2, !.raw = <<Conflict, Torn>>],
     [Base EXCEPT !.cutoff = 1, !.raw = <<Control, First>>, !.rules = {}]}

Good == [quality |-> TRUE, rows |-> "enough", oosAt |-> 1, oos |-> TRUE, dependencies |-> TRUE,
         robust |-> TRUE, pbo |-> TRUE, sharpe |-> TRUE, ruin |-> TRUE, stress |-> TRUE,
         drawdown |-> TRUE, capital |-> TRUE, threshold |-> TRUE]

MCEvidence ==
    {Good, [Good EXCEPT !.oosAt = 0], [Good EXCEPT !.rows = "none"], [Good EXCEPT !.rows = "flat"],
     [Good EXCEPT !.threshold = FALSE]}

RunSymmetry == Permutations(Runs)
=============================================================================
