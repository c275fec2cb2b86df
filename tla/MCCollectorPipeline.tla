-------------------------- MODULE MCCollectorPipeline --------------------------
(* Three book updates, two connections, two REST responses, a crash or a   *)
(* database error and a snapshot taken at the worst moment.                *)
EXTENDS CollectorPipeline
=============================================================================
