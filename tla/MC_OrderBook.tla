----------------------------- MODULE MC_OrderBook ------------------------------
(* Small instances of the Python order book. *)
EXTENDS OrderBook

ThreeIds == 1..3
MCPrices == {2, 3}
MCLots == {1, 2}
MCFunds == {1}           \* affords one lot at either price, not two
Steady == {1}           \* the clock moves forward between two orders

\* With a steady clock no two stamps are equal and the ids are never compared:
\* the orders may as well get their ids in order.
IdsInOrder == \A n \in DOMAIN placed : placed[n] = n
================================================================================
