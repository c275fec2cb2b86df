------------------------------ MODULE LegExecution ------------------------------
(***************************************************************************)
(* The non-atomic two-leg machine (domain/execution/leg_state.py), called  *)
(* by anybody in any order, and the two venues that fill its legs.  The    *)
(* methods have no guard on the state they find: what they find is what    *)
(* the properties are about.                                               *)
(*                                                                         *)
(* Quantities are lots at a constant reference price, so the naked         *)
(* exposure is a number of lots.  A call that raises changes nothing and   *)
(* is no step.                                                             *)
(***************************************************************************)
EXTENDS Integers

CONSTANTS
    Target,         \* target_quantity
    MaximumNaked,   \* policy.maximum_naked_exposure, in lots
    Timeout,        \* policy.first_leg_timeout
    MaxAge          \* bound on the clock

ASSUME LegAssumption ==
    Target \in Nat \ {0} /\ MaximumNaked \in Nat \ {0} /\ Timeout \in Nat /\ MaxAge \in Nat

VARIABLES
    state,    \* snapshot.state
    first,    \* snapshot.first_filled_quantity
    second,   \* snapshot.second_filled_quantity
    age,      \* now - snapshot.started_at
    sent,     \* the legs submitted so far
    filled    \* leg -> what its venue has filled

legVars == <<state, first, second, age, sent, filled>>

States == {"PLANNED", "FIRST_SUBMITTED", "FIRST_PARTIAL", "FIRST_FILLED",
           "SECOND_SUBMITTED", "HEDGED", "UNWINDING", "COMPLETED", "HALTED"}

Abs(n) == IF n < 0 THEN -n ELSE n
NakedExposure(f, s) == Abs(f - s)

LegInit ==
    /\ state = "PLANNED" /\ first = 0 /\ second = 0
    /\ age = 0 /\ sent = {} /\ filled = [leg \in {1, 2} |-> 0]

(* _transition; submitting a leg puts its order on the venue.              *)
Transition(to, legs) ==
    /\ state' = to /\ sent' = sent \cup legs
    /\ UNCHANGED <<first, second, age, filled>>

SubmitFirst == Transition("FIRST_SUBMITTED", {1})

(* inLimit: the price is within second_leg_chase_limit_bps.                *)
SubmitSecond(inLimit) ==
    IF inLimit THEN Transition("SECOND_SUBMITTED", {2}) ELSE Transition("UNWINDING", {})

MutReconciled(f, s) ==  \* mutant: both legs hold something, so the pair is hedged
    CASE f = Target /\ s = Target -> "COMPLETED"
      [] f > 0 /\ s > 0 /\ ~(f = Target /\ s = Target) -> "HEDGED"
      [] f = Target /\ s = 0 -> "FIRST_FILLED"
      [] f \in 1 .. Target - 1 /\ s = 0 -> "FIRST_PARTIAL"
      [] OTHER -> state

(* The state reconcile reads off cumulative fills f and s.                 *)
Reconciled(f, s) ==
    CASE f = Target /\ s = Target -> "COMPLETED"
      [] f \in 1 .. Target - 1 /\ s = f -> "HEDGED"
      [] f = Target /\ s # Target -> "FIRST_FILLED"
      [] f \in 1 .. Target - 1 /\ s # f -> "FIRST_PARTIAL"
      [] OTHER -> state

Monotone(f, s) == f >= first /\ s >= second

(* Reports may be late: any fills the venues had at some time.             *)
Reconcile(f, s) ==
    /\ Monotone(f, s) /\ f <= Target /\ s <= Target
    /\ state' = IF NakedExposure(f, s) > MaximumNaked THEN "HALTED" ELSE Reconciled(f, s)
    /\ first' = f /\ second' = s
    /\ UNCHANGED <<age, sent, filled>>

(* The states the first-leg timeout applies to.                            *)
Expired == {"FIRST_SUBMITTED", "FIRST_PARTIAL"}

CheckTimeout ==
    /\ state \in Expired /\ age >= Timeout
    /\ Transition("UNWINDING", {})

(* handle_preflight_change: fillable is the quantity the second venue can  *)
(* still take, 0 also standing for exhausted collateral.                   *)
HandlePreflightChange(valid, healthy, alternate, fillable, inLimit) ==
    LET next == CASE ~valid -> "HALTED"
                  [] valid /\ ~healthy -> IF alternate THEN "SECOND_SUBMITTED" ELSE "UNWINDING"
                  [] valid /\ healthy /\ fillable <= 0 -> "UNWINDING"
                  [] valid /\ healthy /\ fillable \in 1 .. Target - 1 -> "SECOND_SUBMITTED"
                  [] OTHER -> IF inLimit THEN "SECOND_SUBMITTED" ELSE "UNWINDING"
    IN  Transition(next, IF next = "SECOND_SUBMITTED" THEN {2} ELSE {})

(* External: the venue of a submitted leg fills one more lot.              *)
VenueFills(leg) ==
    /\ leg \in sent /\ filled[leg] < Target
    /\ filled' = [filled EXCEPT ![leg] = @ + 1]
    /\ UNCHANGED <<state, first, second, age, sent>>

Later == age < MaxAge /\ age' = age + 1 /\ UNCHANGED <<state, first, second, sent, filled>>

LegNext ==
    \/ SubmitFirst
    \/ \E inLimit \in BOOLEAN : SubmitSecond(inLimit)
    \/ \E f \in 0 .. filled[1], s \in 0 .. filled[2] : Reconcile(f, s)
    \/ CheckTimeout
    \/ \E valid, healthy, alternate, inLimit \in BOOLEAN, fillable \in 0 .. Target :
          HandlePreflightChange(valid, healthy, alternate, fillable, inLimit)
    \/ \E leg \in {1, 2} : VenueFills(leg)
    \/ Later

LegSpec == LegInit /\ [][LegNext]_legVars

-----------------------------------------------------------------------------
LegTypeOK ==
    /\ state \in States
    /\ first \in 0 .. Target /\ second \in 0 .. Target
    /\ age \in Nat
    /\ sent \subseteq {1, 2}
    /\ filled \in [{1, 2} -> 0 .. Target]

(* A state that speaks of fills is true of the venues, however late and    *)
(* reordered the reports and whatever was called in between: COMPLETED     *)
(* means both legs are filled, HEDGED that the recorded fills match, and   *)
(* neither record ever exceeds what its venue filled.                      *)
ClaimsTrue ==
    /\ first <= filled[1] /\ second <= filled[2]
    /\ state = "COMPLETED" => filled = [leg \in {1, 2} |-> Target]
    /\ state = "HEDGED" => first > 0 /\ first = second
    /\ state = "FIRST_FILLED" => filled[1] = Target /\ second < Target

(* A breach on record is never hidden behind a state that reconcile found  *)
(* harmless: HEDGED, COMPLETED and the two first-leg fill states imply an  *)
(* exposure within the policy.                                             *)
FillStatesAreSafe ==
    state \in {"FIRST_PARTIAL", "FIRST_FILLED", "HEDGED", "COMPLETED"}
        => NakedExposure(first, second) <= MaximumNaked
=============================================================================
