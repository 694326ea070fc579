---------------------------- MODULE MC_TradeDaemon -----------------------------
(* Small instances of the settlement of trades. *)
EXTENDS TradeDaemon, TLC

Deal(buyer, seller, quantity, settled, locked, held) ==
    [buyer |-> buyer, seller |-> seller, quantity |-> quantity,
     settled |-> settled, locked |-> locked, held |-> held]

\* Two limit trades in opposite directions, the first below the buyer's limit,
\* so that two daemons can lock the same rows in opposite orders.
Opposite == {Deal("ann", "bob", 1, 2, 3, 3), Deal("bob", "ann", 2, 1, 1, 1)}
\* A buyer with two trades of one order, one filled below its limit price.
Fills == {Deal("ann", "bob", 1, 2, 3, 3), Deal("ann", "bob", 2, 6, 6, 6)}
\* A market buy holds 1% above the ask and locks nothing in the trade.
Market == {Deal("ann", "bob", 1, 2, 0, 3), Deal("ann", "bob", 2, 6, 6, 6)}
\* A user whose buy meets the same user's sell.
OwnSell == {Deal("ann", "ann", 1, 2, 2, 2), Deal("ann", "bob", 2, 3, 3, 3)}

\* One trade below the limit of its buyer.
One == {Deal("ann", "bob", 1, 2, 3, 3)}
\* The daemons are copies of one command.
Alike == Permutations(Daemons)
================================================================================
