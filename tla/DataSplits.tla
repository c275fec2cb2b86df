------------------------------- MODULE DataSplits -------------------------------
(***************************************************************************)
(* The splits of an ordered set of observations 0 .. n - 1 that the        *)
(* validation uses (services/validation/splits.py): walk-forward windows,  *)
(* purged folds and the chronological split.  A call is a request; what it *)
(* returns is a function of it.  Blocks are sets of indices, as the code's *)
(* np.arange(a, b) is a .. b - 1.                                          *)
(***************************************************************************)
EXTENDS Integers, FiniteSets

CONSTANT Requests  \* the calls that are made

VARIABLE request

Idle == [kind |-> "none"]

(* The arguments the calls accept; others raise ValueError.                *)
WalkForwardCalls ==
    [kind : {"walk"}, n : Nat \ {0}, train : Nat \ {0}, validation : Nat, oos : Nat \ {0},
     step : Nat \ {0}, anchored : BOOLEAN, purge : Nat, embargo : Nat]
FoldCalls ==
    [kind : {"fold"}, n : Nat \ {0, 1}, splits : Nat \ {0, 1}, purge : Nat, embargo : Nat]
(* Fractions in tenths.  n * 0.7 and n * (0.7 + 0.1) are floating point:   *)
(* a product that should be whole may fall just short of it, at either     *)
(* boundary, both or none.                                                 *)
ChronologicalCalls ==
    [kind : {"chrono"}, n : Nat \ {0, 1, 2}, trainTenths : 1 .. 9, validationTenths : 1 .. 9,
     short : [train : BOOLEAN, validation : BOOLEAN], purge : Nat, embargo : Nat]

ASSUME RequestsAssumption ==
    Requests \subseteq WalkForwardCalls \cup FoldCalls \cup ChronologicalCalls

Block(first, end) == first .. end - 1

-----------------------------------------------------------------------------
(* walk_forward_splits: the window at an offset.                           *)
Offsets(c) == {k * c.step : k \in 0 .. c.n}

TrainEnd(c, o) == c.train + o

MutTrain(c, o) ==  \* mutant: nothing is purged
    Block(IF c.anchored THEN 0 ELSE o, TrainEnd(c, o))

Train(c, o) == Block(IF c.anchored THEN 0 ELSE o, TrainEnd(c, o) - c.purge)

ValidationStart(c, o) == TrainEnd(c, o) + c.embargo

ValidationEnd(c, o) ==
    IF c.validation = 0 THEN TrainEnd(c, o) ELSE ValidationStart(c, o) + c.validation

Validation(c, o) ==
    IF c.validation = 0 THEN {} ELSE Block(ValidationStart(c, o), ValidationEnd(c, o) - c.purge)

OosStart(c, o) == ValidationEnd(c, o) + c.embargo

OutOfSample(c, o) == Block(OosStart(c, o), OosStart(c, o) + c.oos)

Accepted(c) == c.train > c.purge /\ (c.validation = 0 \/ c.validation > c.purge)

(* The loop stops at the first window that does not fit; with none at all  *)
(* the call raises.                                                        *)
Windows(c) == {o \in Offsets(c) : Accepted(c) /\ OosStart(c, o) + c.oos <= c.n}

-----------------------------------------------------------------------------
(* purged_kfold: np.array_split makes the first n % splits blocks longer.  *)
Smaller(a, b) == IF a < b THEN a ELSE b
Larger(a, b) == IF a < b THEN b ELSE a

TestStart(c, k) == k * (c.n \div c.splits) + Smaller(k, c.n % c.splits)

Test(c, k) == Block(TestStart(c, k), TestStart(c, k + 1))

Excluded(c, k) ==
    Block(Larger(0, TestStart(c, k) - c.purge), Smaller(c.n, TestStart(c, k + 1) + c.embargo))

FoldTrain(c, k) == Block(0, c.n) \ Excluded(c, k)

Folds(c) == 0 .. c.splits - 1

FoldsMade(c) == c.splits <= c.n /\ \A k \in Folds(c) : FoldTrain(c, k) # {}

-----------------------------------------------------------------------------
(* chronological_split.                                                    *)
Boundary(c, tenths, short) ==
    (c.n * tenths) \div 10 - (IF short /\ (c.n * tenths) % 10 = 0 THEN 1 ELSE 0)

TrainBoundary(c) == Boundary(c, c.trainTenths, c.short.train)
ValidationBoundary(c) == Boundary(c, c.trainTenths + c.validationTenths, c.short.validation)

ChronoTrain(c) == Block(0, TrainBoundary(c) - c.purge)
ChronoValidation(c) == Block(TrainBoundary(c) + c.embargo, ValidationBoundary(c) - c.purge)
ChronoOos(c) == Block(ValidationBoundary(c) + c.embargo, c.n)

SplitMade(c) ==
    /\ c.trainTenths + c.validationTenths < 10
    /\ ChronoTrain(c) # {} /\ ChronoValidation(c) # {} /\ ChronoOos(c) # {}

-----------------------------------------------------------------------------
SplitInit == request = Idle
Ask == request = Idle /\ request' \in Requests
Answered == request # Idle /\ request' = Idle
SplitNext == Ask \/ Answered
SplitSpec == SplitInit /\ [][SplitNext]_request

-----------------------------------------------------------------------------
(* Between an observation of one block and one of a later block lie the    *)
(* purged and the embargoed ones.                                          *)
Apart(A, B, gap) == \A i \in A, j \in B : j - i > gap

(* No observation of a window, fold or split leaks into a later block of   *)
(* it: blocks are separated by purge and embargo, lie within the           *)
(* observations and are never empty (walk_forward_splits, purged_kfold,    *)
(* chronological_split).                                                   *)
WalkForwardSound(c) ==
    \A o \in Windows(c) :
        /\ Apart(Train(c, o), Validation(c, o), c.purge + c.embargo)
        /\ Apart(Validation(c, o), OutOfSample(c, o), c.purge + c.embargo)
        /\ Apart(Train(c, o), OutOfSample(c, o), c.purge + c.embargo)
        /\ Train(c, o) # {} /\ OutOfSample(c, o) # {}
        /\ Train(c, o) \cup Validation(c, o) \cup OutOfSample(c, o) \subseteq Block(0, c.n)

ChronologicalSound(c) ==
    SplitMade(c) =>
        /\ Apart(ChronoTrain(c), ChronoValidation(c), c.purge + c.embargo)
        /\ Apart(ChronoValidation(c), ChronoOos(c), c.purge + c.embargo)
        /\ ChronoTrain(c) \cup ChronoValidation(c) \cup ChronoOos(c) \subseteq Block(0, c.n)

(* Training rows lie purge before a test fold or embargo after it, and the *)
(* folds test every observation exactly once.                              *)
FoldsSound(c) ==
    FoldsMade(c) =>
        /\ \A k \in Folds(c) : \A i \in FoldTrain(c, k), j \in Test(c, k) :
              IF i < j THEN j - i > c.purge ELSE i - j > c.embargo
        /\ \A i \in Block(0, c.n) :
              \E k \in Folds(c) : /\ i \in Test(c, k)
                                  /\ \A l \in Folds(c) \ {k} : i \notin Test(c, l)

(* The out-of-sample returns that _walk_forward concatenates count no      *)
(* observation twice when a step is as long as the block, which it is by   *)
(* default.                                                                *)
OosOnce(c) ==
    \A o, p \in Windows(c) : o < p /\ c.step >= c.oos =>
        OutOfSample(c, o) \cap OutOfSample(c, p) = {}

(* The invariant of the calls: no leak, and nothing tested twice.          *)
SplitsSound ==
    /\ request.kind = "walk" => WalkForwardSound(request) /\ OosOnce(request)
    /\ request.kind = "fold" => FoldsSound(request)
    /\ request.kind = "chrono" => ChronologicalSound(request)
=============================================================================
