------------------------------- MODULE OrderBook -------------------------------
(***************************************************************************)
(* One ticker's order book of the Python matching engine                   *)
(* (core_python/engine.py).  The event-loop thread submits orders, reads   *)
(* the best prices and resets the book; worker threads of the cancellation *)
(* dependency run tombstone_delete.  Every operation but the reset holds   *)
(* the book's lock; one iteration of a matching loop is one step.          *)
(***************************************************************************)
EXTENDS Integers, Sequences, Functions

CONSTANTS
    Ids,        \* order ids; their order is the string order of the UUIDs
    Prices,     \* limit prices, already scaled to integers
    Lots,       \* order sizes, already scaled to integers
    Funds,      \* max_authorized_funds of market buys; NoCap stands for None
    Ticks,      \* how far datetime.now() may move between two orders
    PM          \* PRECISION_MULTIPLIER

NoId  == 0
NoCap == -1
Side  == {"buy", "sell"}

ASSUME IdsAssumption == Ids \subseteq Nat \ {NoId}
ASSUME DataAssumption ==
    /\ Prices \subseteq Nat \ {0}
    /\ Lots \subseteq Nat \ {0}
    /\ Funds \subseteq Nat \cup {NoCap}
    /\ Ticks \subseteq Int
    /\ PM \in Nat \ {0}

VARIABLES
    heap,       \* the heaps self.bid and self.ask, as the sets of their entries
    active,     \* the keys of active_uuids
    canceled,   \* canceled_uuids
    order,      \* the Order objects, by id
    shares,     \* number_of_shares of each Order object
    killed,     \* the ids whose Order object has is_canceled set
    lock,       \* who holds self.lock
    call,       \* what the event-loop thread is running in the engine
    doomed,     \* the id the worker holding the lock is tombstoning
    taker,      \* the order submitted last
    spent,      \* total_spent of process_market_orders_ioc
    trades,     \* the list of trades the last submission built
    bbo,        \* what get_current_bbo last returned
    placed      \* the ids in the order process_order was called with them

bookVars == <<heap, active, canceled, shares>>
vars == <<heap, active, canceled, order, shares, killed, lock, call, doomed,
          taker, spent, trades, bbo, placed>>

Order ==
    [side : Side, type : {"limit", "market"}, price : Prices \cup {0},
     size : Lots, funds : Funds \cup {NoCap}, stamp : Int]
NoOrder ==
    [side |-> "none", type |-> "none", price |-> 0,
     size |-> 0, funds |-> NoCap, stamp |-> 0]

Trade == [buyer : Ids, seller : Ids, quantity : Nat, settled : Nat, locked : Nat]

\* datetime.now() when the last order was stamped
Clock == IF taker = NoId THEN 0 ELSE order[taker].stamp
Known == {i \in Ids : order[i] # NoOrder}
\* Bug: max() instead of min() for the traded quantity.
BugLeast(a, b) == IF a < b THEN b ELSE a
Least(a, b) == IF a < b THEN a ELSE b
Other(side) == IF side = "buy" THEN "sell" ELSE "buy"

(***************************************************************************)
(* The heap order: price first (negated on the bid side), then date_time,  *)
(* then the id.                                                            *)
(***************************************************************************)
\* Bug: the ask heap is a max-heap too.
BugBetter(i, j) == order[i].price > order[j].price
Better(i, j) ==
    IF order[i].side = "buy" THEN order[i].price > order[j].price
                             ELSE order[i].price < order[j].price
\* Bug: the newest of two orders at one price comes first.
BugAhead(i, j) ==
    \/ Better(i, j)
    \/ order[i].price = order[j].price /\ order[i].stamp > order[j].stamp
Ahead(i, j) ==
    \/ Better(i, j)
    \/ /\ order[i].price = order[j].price
       /\ \/ order[i].stamp < order[j].stamp
          \/ order[i].stamp = order[j].stamp /\ i < j
IsTop(i, side) == i \in heap[side] /\ \A j \in heap[side] \ {i} : Ahead(i, j)
\* Bug: the tombstone check is left out.
BugLiveTop(side) == {i \in heap[side] : IsTop(i, side)}
LiveTop(side)  == {i \in heap[side] \ canceled : IsTop(i, side)}

Init ==
    /\ heap = [s \in Side |-> {}]
    /\ active = {} /\ canceled = {} /\ killed = {}
    /\ order = [i \in Ids |-> NoOrder]
    /\ shares = [i \in Ids |-> 0]
    /\ lock = "free" /\ call = "none"
    /\ doomed = NoId /\ taker = NoId
    /\ spent = 0 /\ trades = <<>>
    /\ bbo = [buy |-> 0, sell |-> 0]
    /\ placed = <<>>

(***************************************************************************)
(* The event-loop thread: submissions.  The gateway stamps the order, then *)
(* process_order takes the lock.                                           *)
(***************************************************************************)
Enter(what) == call = "none" /\ lock = "free" /\ call' = what /\ lock' = "loop"
Leave       == call' = "none" /\ lock' = "free"

NewOrder(i, o, tick) ==
    /\ i \notin Known
    /\ order' = [order EXCEPT ![i] = [o EXCEPT !.stamp = Clock + tick]]
    /\ placed' = Append(placed, i)
    /\ shares' = [shares EXCEPT ![i] = o.size]
    /\ taker' = i /\ trades' = <<>>

SubmitLimit(i, side, price, size, tick) ==
    /\ Enter("limit")
    /\ NewOrder(i, [side |-> side, type |-> "limit", price |-> price,
                    size |-> size, funds |-> NoCap, stamp |-> 0], tick)
    /\ heap' = [heap EXCEPT ![side] = @ \cup {i}]
    /\ active' = active \cup {i}
    /\ UNCHANGED <<canceled, killed, doomed, spent, bbo>>

SubmitMarket(i, side, size, funds, tick) ==
    /\ Enter("market")
    /\ NewOrder(i, [side |-> side, type |-> "market", price |-> 0,
                    size |-> size, funds |-> funds, stamp |-> 0], tick)
    /\ spent' = 0
    /\ UNCHANGED <<heap, active, canceled, killed, doomed, bbo>>

(***************************************************************************)
(* Steps of the loops that hold the lock.                                  *)
(***************************************************************************)
\* Bug: the loop continues without popping the tombstone.
BugPopTombstone(i, side) == UNCHANGED vars
PopTombstone(i, side) ==
    /\ heap' = [heap EXCEPT ![side] = @ \ {i}]
    /\ canceled' = canceled \ {i}
    /\ UNCHANGED <<active, order, shares, killed, lock, call, doomed, taker,
                   spent, trades, bbo, placed>>

\* Bug: only the buyer's number_of_shares is reduced.
BugCross(b, a, quantity, settled, locked) ==
    /\ shares' = [shares EXCEPT ![b] = @ - quantity]
    /\ trades' = Append(trades, [buyer |-> b, seller |-> a, quantity |-> quantity,
                                 settled |-> settled, locked |-> locked])
    /\ heap' = [s \in Side |-> {i \in heap[s] : i \notin {b, a} \/ shares'[i] > 0}]
    /\ active' = {i \in active : i \notin {b, a} \/ shares'[i] > 0}

Cross(b, a, quantity, settled, locked) ==
    /\ shares' = [shares EXCEPT ![b] = @ - quantity, ![a] = @ - quantity]
    /\ trades' = Append(trades, [buyer |-> b, seller |-> a, quantity |-> quantity,
                                 settled |-> settled, locked |-> locked])
    /\ heap' = [s \in Side |-> {i \in heap[s] : i \notin {b, a} \/ shares'[i] > 0}]
    /\ active' = {i \in active : i \notin {b, a} \/ shares'[i] > 0}

\* execute
LimitSkip(b, a) ==
    /\ call = "limit" /\ IsTop(b, "buy") /\ IsTop(a, "sell")
    /\ \/ b \in canceled /\ PopTombstone(b, "buy")
       \/ b \notin canceled /\ a \in canceled /\ PopTombstone(a, "sell")

\* Bug: the price of the later order.
BugSettledPrice(b, a) ==
    IF order[b].stamp > order[a].stamp THEN order[b].price ELSE order[a].price
SettledPrice(b, a) ==
    IF order[b].stamp < order[a].stamp THEN order[b].price ELSE order[a].price

LimitMatch(b, a) ==
    /\ call = "limit" /\ b \in LiveTop("buy") /\ a \in LiveTop("sell")
    /\ order[b].price >= order[a].price
    /\ Cross(b, a, Least(shares[b], shares[a]),
              SettledPrice(b, a), order[b].price)
    /\ UNCHANGED <<canceled, order, killed, lock, call, doomed, taker, spent, bbo, placed>>

\* Bug: the loop breaks at equal prices.
BugLimitDone ==
    /\ call = "limit"
    /\ \/ heap["buy"] = {} \/ heap["sell"] = {}
       \/ \E b \in LiveTop("buy"), a \in LiveTop("sell") : order[b].price =< order[a].price
    /\ Leave
    /\ UNCHANGED <<bookVars, order, killed, doomed, taker, spent, trades, bbo, placed>>
LimitDone ==
    /\ call = "limit"
    /\ \/ heap["buy"] = {} \/ heap["sell"] = {}
       \/ \E b \in LiveTop("buy"), a \in LiveTop("sell") : order[b].price < order[a].price
    /\ Leave
    /\ UNCHANGED <<bookVars, order, killed, doomed, taker, spent, trades, bbo, placed>>

\* process_market_orders_ioc
Target == Other(order[taker].side)
Cost(r) == (Least(shares[taker], shares[r]) * order[r].price) \div PM
\* Bug: total_spent is not counted.
BugOverBudget(r) ==
    /\ order[taker].side = "buy" /\ order[taker].funds # NoCap
    /\ Cost(r) > order[taker].funds
OverBudget(r) ==
    /\ order[taker].side = "buy"
    /\ order[taker].funds # NoCap
    /\ spent + Cost(r) > order[taker].funds

MarketSkip(r) ==
    /\ call = "market" /\ shares[taker] > 0
    /\ IsTop(r, Target) /\ r \in canceled
    /\ PopTombstone(r, Target)

MarketMatch(r) ==
    /\ call = "market" /\ shares[taker] > 0
    /\ r \in LiveTop(Target) /\ ~OverBudget(r)
    /\ IF order[taker].side = "buy"
       THEN /\ spent' = spent + Cost(r)
            /\ Cross(taker, r, Least(shares[taker], shares[r]), order[r].price, 0)
       ELSE /\ spent' = spent
            /\ Cross(r, taker, Least(shares[taker], shares[r]), order[r].price, 0)
    /\ UNCHANGED <<canceled, order, killed, lock, call, doomed, taker, bbo, placed>>

MarketDone ==
    /\ call = "market"
    /\ \/ shares[taker] = 0
       \/ heap[Target] = {}
       \/ \E r \in LiveTop(Target) : OverBudget(r)
    /\ Leave
    /\ UNCHANGED <<bookVars, order, killed, doomed, taker, spent, trades, bbo, placed>>

(***************************************************************************)
(* get_current_bbo: dead asks are popped before dead bids.                 *)
(***************************************************************************)
ReadBBO ==
    /\ Enter("bbo")
    /\ UNCHANGED <<bookVars, order, killed, doomed, taker, spent, trades, bbo, placed>>

Clean(side) == heap[side] = {} \/ LiveTop(side) # {}

BBOSkip(i, side) ==
    /\ call = "bbo" /\ IsTop(i, side) /\ i \in canceled
    /\ side = "buy" => Clean("sell")
    /\ PopTombstone(i, side)

BBODone ==
    /\ call = "bbo" /\ Clean("sell") /\ Clean("buy")
    /\ bbo' = [s \in Side |-> IF heap[s] = {} THEN 0
                              ELSE order[CHOOSE i \in LiveTop(s) : TRUE].price]
    /\ Leave
    /\ UNCHANGED <<bookVars, order, killed, doomed, taker, spent, trades, placed>>

(***************************************************************************)
(* reset_engine takes no lock: a worker may run between its assignments.   *)
(***************************************************************************)
ResetHeaps ==
    /\ call = "none" /\ call' = "reset active"
    /\ heap' = [s \in Side |-> {}]
    /\ UNCHANGED <<active, canceled, order, shares, killed, lock, doomed, taker,
                   spent, trades, bbo, placed>>

ResetActive ==
    /\ call = "reset active" /\ call' = "reset canceled"
    /\ active' = {}
    /\ UNCHANGED <<heap, canceled, order, shares, killed, lock, doomed, taker,
                   spent, trades, bbo, placed>>

ResetCanceled ==
    /\ call = "reset canceled" /\ call' = "none"
    /\ canceled' = {}
    /\ UNCHANGED <<heap, active, order, shares, killed, lock, doomed, taker,
                   spent, trades, bbo, placed>>

(***************************************************************************)
(* tombstone_delete, on a worker thread.  An id that is not active leaves  *)
(* the book as it is and returns False.                                    *)
(***************************************************************************)
CancelPop(i) ==
    /\ lock = "free" /\ lock' = "worker"
    /\ i \in active /\ active' = active \ {i}
    /\ doomed' = i
    /\ UNCHANGED <<heap, canceled, order, shares, killed, call, taker, spent,
                   trades, bbo, placed>>

\* Bug: the id is not added to canceled_uuids.
BugCancelMark ==
    /\ lock = "worker" /\ lock' = "free"
    /\ killed' = killed \cup {doomed} /\ doomed' = NoId
    /\ UNCHANGED <<heap, active, canceled, order, shares, call, taker, spent,
                   trades, bbo, placed>>

CancelMark ==
    /\ lock = "worker" /\ lock' = "free"
    /\ killed' = killed \cup {doomed}
    /\ canceled' = canceled \cup {doomed}
    /\ doomed' = NoId
    /\ UNCHANGED <<heap, active, order, shares, call, taker, spent, trades, bbo, placed>>

LoopStep ==
    \/ \E b, a \in Ids : LimitSkip(b, a) \/ LimitMatch(b, a)
    \/ LimitDone
    \/ \E r \in Ids : MarketSkip(r) \/ MarketMatch(r)
    \/ MarketDone
    \/ \E i \in Ids, s \in Side : BBOSkip(i, s)
    \/ BBODone
    \/ ResetActive \/ ResetCanceled

Next ==
    \/ \E i \in Ids, s \in Side, n \in Lots, d \in Ticks :
          \/ \E p \in Prices : SubmitLimit(i, s, p, n, d)
          \/ \E f \in IF s = "buy" THEN Funds ELSE {NoCap} : SubmitMarket(i, s, n, f, d)
    \/ ReadBBO
    \/ ResetHeaps
    \/ \E i \in Ids : CancelPop(i)
    \/ CancelMark
    \/ LoopStep

\* A thread inside the engine runs to the end of its call.
Spec == Init /\ [][Next]_vars /\ WF_vars(LoopStep) /\ WF_vars(CancelMark)

(***************************************************************************)
(* Properties                                                              *)
(***************************************************************************)
Live(side) == heap[side] \cap active

\* The variables hold what the engine's fields can hold.
TypeOK ==
    /\ heap \in [Side -> SUBSET Ids]
    /\ active \subseteq Ids /\ canceled \subseteq Ids /\ killed \subseteq Ids
    /\ order \in [Ids -> Order \cup {NoOrder}]
    /\ shares \in [Ids -> Nat]
    /\ lock \in {"free", "loop", "worker"}
    /\ call \in {"none", "limit", "market", "bbo", "reset active", "reset canceled"}
    /\ doomed \in Ids \cup {NoId} /\ taker \in Ids \cup {NoId}
    /\ spent \in Nat
    /\ trades \in Seq(Trade)
    /\ bbo \in [Side -> Nat]
    /\ placed \in Seq(Ids)

\* The heaps and the index of process_order and tombstone_delete agree: an
\* entry that is still in a heap is either cancelable or a tombstone (or being
\* made one), never both, whatever a reset without the lock does in between;
\* and every order that can be canceled can still be filled.
IndexAgrees ==
    /\ \A s \in Side : \A i \in heap[s] :
          /\ order[i].side = s /\ order[i].type = "limit" /\ shares[i] > 0
          /\ i \in active <=> i \notin canceled /\ i # doomed
    /\ canceled \cap active = {} /\ doomed \notin active \cup canceled
    /\ call # "reset active" => active \subseteq heap["buy"] \cup heap["sell"]

\* execute leaves no two orders that could trade with each other, so the book
\* is uncrossed whenever no submission is running, however many of the orders
\* on top were canceled in the meantime.
Uncrossed ==
    call # "limit" =>
       \A b \in Live("buy"), a \in Live("sell") : order[b].price < order[a].price

\* Every trade that a submission reports was made by the order submitted: a
\* call never trades two resting orders with each other.
TakerTrades ==
    \A n \in DOMAIN trades : taker \in {trades[n].buyer, trades[n].seller}

\* The trades returned to the caller account for every share that the
\* submitted order lost.
TradesAccount ==
    taker # NoId =>
       order[taker].size =
          shares[taker] + SumFunction([n \in DOMAIN trades |-> trades[n].quantity])

\* What a market buy really costs, before each trade's cost is rounded down,
\* stays within the funds held for it but for less than one unit a trade.
BudgetHeld ==
    (taker # NoId /\ order[taker].type = "market" /\ order[taker].funds # NoCap) =>
       SumFunction([n \in DOMAIN trades |-> trades[n].quantity * trades[n].settled])
          =< order[taker].funds * PM + Len(trades) * (PM - 1)

\* The party of trade t that was resting in the book.
Maker(t) == IF t.buyer = taker THEN t.seller ELSE t.buyer

\* The order that rested in the book sets the price of a trade, and the price a
\* limit buyer's funds were locked at (price_locked_by_user) covers it.
MakerPrice ==
    \A n \in DOMAIN trades :
       /\ trades[n].settled = order[Maker(trades[n])].price
       /\ order[taker].type = "limit" => trades[n].locked >= trades[n].settled

EarlierArrival(i, j) ==
    \E m, n \in DOMAIN placed : m < n /\ placed[m] = i /\ placed[n] = j

\* README.md, "Matching engine core": best price first, and the same price
\* resolves by whichever order arrived first.  No trade passes over an order
\* that could still be filled and has the better price or arrived earlier.
PriceTimePriority ==
    [][Len(trades') > Len(trades) =>
         LET m == Maker(trades'[Len(trades')]) IN
         \A i \in Live(order[m].side) \ {m} :
            /\ ~Better(i, m)
            /\ order[i].price = order[m].price => ~EarlierArrival(i, m)]_vars

\* An order that tombstone_delete has returned to a caller is never filled
\* again, whatever the engine was doing when the cancellation arrived.
CanceledNeverTrades ==
    [][\A i \in (killed \cup {doomed}) \cap Ids : shares'[i] = shares[i]]_vars

\* get_current_bbo reports, for each side, the best price among the orders that
\* can still be filled, or 0 when there are none.
BBOExact ==
    [][call = "bbo" /\ call' = "none" =>
         \A s \in Side :
            \/ Live(s)' = {} /\ bbo'[s] = 0
            \/ \E i \in Live(s)' : /\ bbo'[s] = order[i].price
                                   /\ \A j \in Live(s)' : ~Better(j, i)]_vars

\* Every call into the engine returns and gives the lock back, so a worker that
\* waits for the lock finds it free again.
CallsReturn == /\ call # "none" ~> call = "none"
               /\ lock # "free" ~> lock = "free"

(***************************************************************************)
(* The abstract exchange this book implements: orders that can still be    *)
(* filled are the keys of active_uuids.                                    *)
(***************************************************************************)
Market == INSTANCE Exchange WITH live <- active,
             running <- (call \in {"limit", "market"})
ImplementsExchange == Market!Spec
================================================================================
