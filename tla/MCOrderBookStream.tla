--------------------------- MODULE MCOrderBookStream ---------------------------
(* A handful of updates, two under way at a time, and a few faults.        *)
EXTENDS OrderBookStream
=============================================================================
