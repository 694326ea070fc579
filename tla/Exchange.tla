-------------------------------- MODULE Exchange -------------------------------
(***************************************************************************)
(* What an order book of the exchange promises, without heaps, tombstones, *)
(* threads or locks: a set of live orders, traded best price first and     *)
(* oldest first, one submission at a time.  Both matching engines of the   *)
(* project are meant to implement it.                                      *)
(***************************************************************************)
EXTENDS Integers

CONSTANTS Ids

VARIABLES
    live,       \* the orders that can still be filled
    order,      \* what each order asked for
    shares,     \* the shares each order still wants
    taker,      \* the order submitted last
    running     \* whether its submission is still being processed

exchangeVars == <<live, order, shares, taker, running>>

Opposite(i, j) == {order[i].side, order[j].side} = {"buy", "sell"}
Beats(i, j) ==  \* i is served before j, both on the same side
    \/ order[i].side = "buy" /\ order[i].price > order[j].price
    \/ order[i].side = "sell" /\ order[i].price < order[j].price
    \/ order[i].price = order[j].price /\ order[i].stamp < order[j].stamp

\* m is a live order the taker may trade with next.
Candidate(m) ==
    /\ m \in live /\ Opposite(m, taker)
    /\ \A i \in live : order[i].side = order[m].side => ~Beats(i, m)
Acceptable(m) ==
    \/ order[taker].type = "market"
    \/ order[taker].side = "buy" /\ order[taker].price >= order[m].price
    \/ order[taker].side = "sell" /\ order[taker].price =< order[m].price

Kept(orders) ==
    \A i \in orders : order'[i] = order[i] /\ shares'[i] = shares[i]

Submit(i) ==
    /\ ~running /\ running'
    /\ taker' = i /\ shares[i] = 0 /\ shares'[i] > 0
    /\ Kept(live)
    /\ live' = IF order'[i].type = "limit" THEN live \cup {i} ELSE live

\* The budget of a market buy may end it inside a resting order.
Budgeted == order[taker].type = "market" /\ order[taker].side = "buy"
Fill(m, quantity) ==
    /\ running /\ shares[taker] > 0 /\ Candidate(m) /\ Acceptable(m)
    /\ quantity > 0
    /\ shares' = [shares EXCEPT ![m] = @ - quantity, ![taker] = @ - quantity]
    /\ shares'[m] = 0 \/ shares'[taker] = 0 \/ Budgeted
    /\ live' = {i \in live : shares'[i] > 0}
    /\ UNCHANGED <<order, taker, running>>

\* A limit order keeps trading until nothing acceptable is left.
Finish ==
    /\ running /\ ~running'
    /\ order[taker].type = "limit" /\ shares[taker] > 0 =>
          ~\E m \in Ids : Candidate(m) /\ Acceptable(m)
    /\ UNCHANGED <<live, order, shares, taker>>

Cancel(i) ==
    /\ ~running /\ i \in live
    /\ live' = live \ {i}
    /\ UNCHANGED <<order, shares, taker, running>>

Reset ==
    /\ ~running /\ live' = {}
    /\ UNCHANGED <<order, shares, taker, running>>

\* An order that can no longer be filled may be forgotten.
Forget ==
    /\ ~running /\ ~running' /\ Kept(live)
    /\ UNCHANGED live

Init == live = {} /\ ~running
Next ==
    \/ \E i \in Ids : Submit(i) \/ Cancel(i)
    \/ \E m \in Ids : Fill(m, shares[m] - shares'[m])
    \/ Finish
    \/ Reset
    \/ Forget
Spec == Init /\ [][Next]_exchangeVars
================================================================================
