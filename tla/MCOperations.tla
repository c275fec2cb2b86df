----------------------------- MODULE MCOperations -----------------------------
EXTENDS Operations
MCDeliveries == {Legs}
MCFee == [l \in Legs |-> IF l = 1 THEN 2 ELSE 1]
=============================================================================
