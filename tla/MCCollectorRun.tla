---------------------------- MODULE MCCollectorRun ----------------------------
EXTENDS CollectorRun, TLC

CONSTANTS r1, r2, g1

(* Two runs of the same command line. *)
SameGroups == (r1 :> <<g1>>) @@ (r2 :> <<g1>>)
=============================================================================
