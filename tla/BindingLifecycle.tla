--------------------------- MODULE BindingLifecycle ---------------------------
(***************************************************************************)
(* What one gateway promises about a preflight binding: the order in which *)
(* the states of PreflightBindingState may follow each other, one version  *)
(* per write.  No submission is skipped, an outcome is recorded only for a *)
(* leg that was reserved or is being reconciled, and COMPLETED and HALTED  *)
(* are final.                                                              *)
(***************************************************************************)
EXTENDS Naturals

CONSTANT Signals

VARIABLES state, version

lifecycle == <<state, version>>

(* Where a write may go from each state.  A pending binding is rewritten   *)
(* in place when its position snapshot is recorded.                        *)
After(st) ==
    CASE st \in {"UNBOUND", "ABORTED"} -> {"RESERVED"}
      [] st = "RESERVED" ->
            {"RESERVED", "FIRST_LEG_ACCEPTED", "ABORTED", "RECONCILIATION_REQUIRED"}
      [] st = "FIRST_LEG_ACCEPTED" -> {"SECOND_LEG_SUBMITTED"}
      [] st = "SECOND_LEG_SUBMITTED" ->
            {"SECOND_LEG_SUBMITTED", "COMPLETED", "HEDGING_REQUIRED", "ABORTED",
             "RECONCILIATION_REQUIRED"}
      [] st = "HEDGING_REQUIRED" -> {"SECOND_LEG_SUBMITTED", "HALTED"}
      [] st = "RECONCILIATION_REQUIRED" ->
            {"FIRST_LEG_ACCEPTED", "COMPLETED", "HEDGING_REQUIRED", "ABORTED", "HALTED"}
      [] OTHER -> {}

Init ==
    /\ state = [s \in Signals |-> "UNBOUND"]
    /\ version = [s \in Signals |-> 0]

Write(s) ==
    /\ \E st \in After(state[s]) : state' = [state EXCEPT ![s] = st]
    /\ version' = [version EXCEPT ![s] = @ + 1]

Next == \E s \in Signals : Write(s)

Spec == Init /\ [][Next]_lifecycle
=============================================================================
