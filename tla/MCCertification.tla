-------------------------- MODULE MCCertification --------------------------
EXTENDS Certification

MCCapabilities == <<"funding_current", "trade", "funding_history">>

Event(id, recv, xts, seq, tid, epoch, gap, skew, final, ok) ==
    [id |-> id, recv |-> recv, xts |-> xts, seq |-> seq, tid |-> tid, named |-> TRUE,
     epoch |-> epoch, gap |-> gap, skew |-> skew, final |-> final, ok |-> ok]

Sample(events, current, contract, cross, audit) ==
    [events |-> events, current |-> current, contract |-> contract, cross |-> cross,
     audit |-> audit]

Trade(i, r) == Event(i, i, r.xts, r.seq, r.tid, r.epoch, NONE, r.skew, TRUE, r.ok)
Keys == [xts : {1, 2}, seq : {NONE, 1, 2}, tid : {NONE, 1, 2}, epoch : {1},
         skew : {"near"}, ok : {TRUE}]
OtherKeys == [xts : {NONE, 1}, seq : {NONE, 1, 2}, tid : {1}, epoch : {1, 2},
              skew : {"unknown", "near", "far"}, ok : BOOLEAN]
Trades == {<<Trade(1, p), Trade(2, q), Trade(3, [r EXCEPT !.xts = 3])>> : p, q, r \in Keys}
            \cup {<<Trade(1, p), Trade(2, q)>> : p, q \in OtherKeys}
            \cup {<<Trade(2, p), Trade(1, q)>> : p, q \in Keys}
            \cup {<<[Trade(1, p) EXCEPT !.tid = NONE, !.named = n]>> : p \in OtherKeys, n \in BOOLEAN}

Current == {<<Event(1, r, NONE, NONE, NONE, 1, g, "near", TRUE, o),
              Event(2, 4, NONE, NONE, NONE, 1, h, "near", TRUE, TRUE)>>
                : g, h \in {4, 6}, r \in {0, 2}, o \in BOOLEAN}

Settled(i, t, g, f) == Event(i, 1, t, NONE, NONE, 1, g, "near", f, TRUE)
History == {<<>>}
             \cup {<<Settled(1, t, g, TRUE), Settled(2, u, h, f), Settled(k, v, NONE, TRUE)>>
                : t, u, v \in {NONE, 0, 2, 3, 4}, g, h \in {NONE, 4}, f \in BOOLEAN, k \in {2, 3}}

MCSamples ==
    [funding_current |->
        {Sample(e, e, k, x, b) : e \in Current, k \in BOOLEAN, x \in {"close", "apart", "missing"},
            b \in {"bound", "anonymous"}},
     trade |-> {Sample(e, <<>>, TRUE, "close", "bound") : e \in Trades},
     funding_history |-> {Sample(e, <<>>, TRUE, "close", "bound") : e \in History}]
=============================================================================
