---------------------------- MODULE MCLiveGateway ----------------------------
EXTENDS LiveGateway, TLC

CONSTANTS gw1, gw2, p1, p2, c1, c2, sig, ra, rb, ru, h1

(* ra opens the receive leg, rb the pay leg; ru unwinds the receive leg.   *)
MCSignalOf == [r \in Requests |-> sig]
MCKeyOf == [r \in Requests |-> r]
MCRole == [r \in Requests |-> IF r \in {ra, ru} THEN "receive" ELSE "pay"]
MCSign == [r \in Requests |-> IF r = ra THEN 1 ELSE -1]
MCReduceOnly == [r \in Requests |-> r = ru]
MCRecovery == [r \in Requests |-> IF r = ru THEN "unwind" ELSE None]
MCHash == [r \in Requests |-> h1]
OneHome == [t \in Tasks |-> gw1]
TwoHomes == [t \in Tasks |-> IF t \in {p2, c2} THEN gw2 ELSE gw1]
=============================================================================
