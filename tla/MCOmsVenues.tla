----------------------------- MODULE MCOmsVenues -----------------------------
(* The order manager at both of its venues in one run: the engine over the  *)
(* paper matcher (OmsEngine) or over the live exchange (OmsLive), or one     *)
(* algorithm order (OmsAlgo).  An engine is created with one adapter, and    *)
(* the children of an algorithm are registered with neither, so each         *)
(* behaviour is one of the three; they share no variable.                    *)
EXTENDS MCOmsEngine, OmsLive, OmsAlgo

\* The account bought one unit before, or nothing.
Past == {<<[side |-> "buy", qty |-> 1]>>}
NoPast == {<<>>}

OfKind(kind, total, weights, slice, jitter, again, tif) ==
    [kind : {kind}, venue : {"paper", "live"}, total : {total}, weights : {weights},
     slice : {slice}, jitter : {jitter}, again : {again}, tif : {tif}]

\* Five thirds of a unit round up, seven shares of them to more than the
\* total; a bucket without volume; a last slice that is smaller.
ParentOrders == UNION {
    OfKind("twap", 5, <<1, 1, 1>>, 1, 0, FALSE, "GTC"),
    OfKind("twap", 5, <<1, 1, 1>>, 1, 0, TRUE, "GTC"),
    OfKind("twap", 11, <<1, 1, 1, 1, 1, 1, 1>>, 1, 0, FALSE, "GTC"),
    OfKind("vwap", 5, <<2, 0, 3, 1>>, 1, 0, FALSE, "GTC"),
    OfKind("iceberg", 5, <<1>>, 2, 1, FALSE, "GTC"),
    OfKind("iceberg", 3, <<1>>, 2, 0, FALSE, "IOC"),
    OfKind("seek", 3, <<1>>, 2, 0, FALSE, "GTC")}

VARIABLE venueType

VenuesInit == venueType \in {"paper", "live", "algorithm"} /\ Init /\ LiveInit
              /\ AlgoInit /\ (venueType # "algorithm" => job = CHOOSE j \in Jobs : TRUE)

VenuesNext ==
    \/ venueType = "paper" /\ Next /\ UNCHANGED <<venueType, liveVars, algoVars>>
    \/ venueType = "live" /\ LiveNext /\ UNCHANGED <<venueType, vars, algoVars>>
    \/ venueType = "algorithm" /\ AlgoNext /\ UNCHANGED <<venueType, vars, liveVars>>

VenuesSpec ==
    VenuesInit /\ [][VenuesNext]_<<venueType, vars, liveVars, algoVars>> /\ LiveFairness
==============================================================================
