------------------------------ MODULE MC_OrderApi -------------------------------
(* Small instances of the order API. *)
EXTENDS OrderApi

Order(id, user, side, type, price, quantity) ==
    [id |-> id, user |-> user, side |-> side, type |-> type,
     price |-> price, quantity |-> quantity]

\* Two requests of one user for the same hash, one at a limit that leaves a
\* share over, and a seller below that limit.
Mixed == {Order(1, "ann", "buy", "limit", 100, 2),
          Order(2, "ann", "buy", "market", 0, 1),
          Order(3, "bob", "sell", "limit", 90, 2)}
Limits == {Order(1, "ann", "buy", "limit", 100, 2),
           Order(3, "bob", "sell", "limit", 90, 1)}
\* No trade yet, the book emptied by the last one, and a price.
Earlier == {[ask |-> -1, bid |-> -1], [ask |-> 0, bid |-> 0], [ask |-> 100, bid |-> 80]}
=================================================================================
