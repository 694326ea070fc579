---------------------------- MODULE MC_CppOrderBook ----------------------------
(* Small instances of the C++ order books. *)
EXTENDS CppOrderBook

ThreeIds == 1..3
TwoIds == 1..2
MCPrices == {2, 4}
MCLots == {1, 2}
MCFunds == {1, NoCap}   \* one unit, or none authorised
OnePrice == {2}
LargeLots == {4, 5}
ThreeUnits == {3}       \* affords three shares at OnePrice, and costs four

\* Ids are only compared for equality, so they are used in order.  One resting
\* share is enough to hold a slot for a ticker that is never reset, and when the
\* slot has been given away, one more order to meet the stale entries of its book;
\* and of a submission that does not end the first trades are enough.
Bounded ==
    /\ Known = 1 .. Cardinality(Known)
    /\ \A t \in Tickers \ {ResetTicker}, i \in Ids :
          /\ Len(vault[t]) =< IF rewound THEN 2 ELSE 1
          /\ ~rewound /\ vault[t] = <<i>> => OrderOf(i).type # "market" /\ OrderOf(i).size =< 1
    /\ rewound => Len(trades) =< 2
================================================================================
