---------------------------- MODULE MCPaperBroker ----------------------------
EXTENDS PaperBroker

\* A quote of one tick around mid.
Quote(symbol, time, seq, mid, lots) ==
    [symbol |-> symbol, at |-> time, seq |-> seq, bid |-> mid - 1, ask |-> mid + 1,
     bidLots |-> lots, askLots |-> lots, good |-> TRUE]
Poor(quote) == [quote EXCEPT !.good = FALSE]

\* A rising and falling feed of one symbol, one with a poor quote, and two
\* interleaved symbols, the second without sequence numbers.
MCFeeds ==
    {<<Quote("x", 1, 1, 20, 2), Quote("x", 2, 2, 30, 1), Quote("x", 3, 3, 10, 3), Quote("x", 4, 4, 30, 2)>>,
     <<Quote("x", 1, 1, 20, 1), Poor(Quote("x", 2, 2, 10, 1)), Quote("x", 3, 3, 40, 3)>>,
     <<Quote("x", 1, 1, 30, 2), Quote("y", 1, NoSequence, 10, 2),
       Quote("x", 2, 2, 20, 1), Quote("y", 3, NoSequence, 30, 3)>>}

Request(id, symbol, side, lots, limit) ==
    [id |-> id, symbol |-> symbol, side |-> side, lots |-> lots, limit |-> limit]

MCRates == {1, -2}

MCRequests ==
    {Request("a", "x", "buy", 2, NoLimit), Request("b", "x", "sell", 3, NoLimit),
     Request("c", "x", "buy", 1, 21), Request("d", "y", "sell", 2, 9)}
=============================================================================
