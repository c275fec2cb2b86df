----------------------------- MODULE MCBacktest -----------------------------
EXTENDS Backtest

\* A quote around a mid price, with the lots a taker and a resting order get.
Quote(mid, take, pass) ==
    [key |-> NoKey, bid |-> mid - 1, ask |-> mid + 1, mark |-> mid, last |-> mid,
     take |-> take, pass |-> pass]

MCSnapshots == {Quote(m, t, 1) : m \in {4, 8}, t \in {1, 2}}

Plain == [key |-> "k", side |-> "buy", lots |-> 2, limit |-> NoPrice, tif |-> "gtc",
          post |-> FALSE, reduce |-> FALSE, exit |-> FALSE, exp |-> 0, stop |-> NoPrice,
          take |-> NoPrice, calc |-> 0, net |-> 0]

MCSignals ==
    {[id |-> "open", order |-> [Plain EXCEPT !.stop = 4]],
     [id |-> "open", order |-> [Plain EXCEPT !.limit = 8, !.take = 11, !.calc = 1]],
     [id |-> "turn", order |-> [Plain EXCEPT !.side = "sell", !.lots = 3, !.net = 1]],
     [id |-> "turn", order |-> [Plain EXCEPT !.side = "sell", !.tif = "ioc"]],
     [id |-> "trim", order |-> [Plain EXCEPT !.side = "sell", !.reduce = TRUE]],
     [id |-> "trim", order |-> [Plain EXCEPT !.limit = 5, !.post = TRUE, !.exp = 4]]}
=============================================================================
