---------------------------- MODULE MCShadowRuntime ----------------------------
(* Both books and the Bitget rate are stored when the run starts.          *)
EXTENDS ShadowRuntime

MCSeed == [s \in Streams |->
    IF s = "hf" THEN <<>>
    ELSE <<[snapshot |-> s \in {"hb", "bb"}, ok |-> TRUE, epoch |-> IF s = "bb" THEN 1 ELSE 0,
            seq |-> IF s = "bb" THEN 1 ELSE 0, prev |-> 0, ts |-> 0]>>]
MCMaxRow == [s \in Streams |-> IF s = "bb" THEN 3 ELSE 1]
=============================================================================
