------------------------------ MODULE MCDecisions ------------------------------
(***************************************************************************)
(* The risk manager, the leg machine and the validation splits share no    *)
(* state, so whatever holds of each while the others rest holds of every   *)
(* interleaving: one of the three moves in a behaviour.                    *)
(***************************************************************************)
EXTENDS RiskControl, LegExecution, DataSplits

DecisionsInit == Init /\ LegInit /\ SplitInit
DecisionsNext ==
    \/ Next /\ LegInit /\ SplitInit /\ UNCHANGED <<legVars, request>>
    \/ LegNext /\ Init /\ SplitInit /\ UNCHANGED <<vars, request>>
    \/ SplitNext /\ Init /\ LegInit /\ UNCHANGED <<vars, legVars>>
DecisionsSpec == DecisionsInit /\ [][DecisionsNext]_<<vars, legVars, request>>

MCRequests ==
    [kind : {"walk"}, n : 1 .. 9, train : 1 .. 3, validation : 0 .. 2, oos : 1 .. 2,
     step : 1 .. 2, anchored : BOOLEAN, purge : 0 .. 1, embargo : 0 .. 1]
    \cup [kind : {"fold"}, n : 2 .. 9, splits : 2 .. 4, purge : 0 .. 2, embargo : 0 .. 2]
    \cup [kind : {"chrono"}, n : 3 .. 12, trainTenths : {4, 6, 7}, validationTenths : {1, 2, 3},
          short : [train : BOOLEAN, validation : BOOLEAN], purge : 0 .. 2, embargo : 0 .. 1]
=============================================================================
