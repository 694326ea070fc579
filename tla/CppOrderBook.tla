------------------------------ MODULE CppOrderBook ------------------------------
(***************************************************************************)
(* The order books of the C++ matching engine (core_cpp), one for each     *)
(* ticker, over the one arena of order slots that all of them share.  The  *)
(* event-loop thread submits, quotes and resets; worker threads cancel.    *)
(* Submissions and cancellations hold the book's engine_mutex, quotes and  *)
(* resets do not.  One iteration of a matching loop is one step.  What     *)
(* match_buy and match_sell do alike is one action here.                   *)
(*                                                                         *)
(* A reset gives the slots of all the books away but empties one book.     *)
(* From then on the slots of the others' orders are overwritten by new     *)
(* ones, and their heaps, whose order depends on what the slots hold, may  *)
(* have any entry on top and may hold one twice.                           *)
(***************************************************************************)
EXTENDS Integers, Sequences, FiniteSets, Functions

CONSTANTS
    Tickers,
    ResetTicker,  \* the ticker that POST /admin/reset names
    Ids,          \* order ids; each is submitted at most once
    Prices,       \* limit prices, already scaled to integers
    Lots,         \* order sizes, already scaled to integers
    Funds,        \* max_authorized_funds of market buys
    PM,           \* PRICE_PRECISION
    Word          \* 2^64, or a smaller number that wraps earlier

NoId  == 0
NoCap == Word - 1  \* UINT64_MAX
Unsent == -1       \* the slot of an order not submitted yet
Taken == -2        \* the slot of an order that nothing points to any more
Side  == {"buy", "sell"}

ASSUME NamesAssumption ==
    /\ Ids \subseteq Nat \ {NoId} /\ IsFiniteSet(Ids)
    /\ ResetTicker \in Tickers
ASSUME DataAssumption ==
    /\ PM \in Nat \ {0} /\ Word \in Nat \ {0}
    /\ Prices \subseteq 1 .. NoCap
    /\ Lots \subseteq 1 .. NoCap
    /\ Funds \subseteq 0 .. NoCap

VARIABLES
    arena,      \* the Order structs of ArenaAllocator's slabs
    offset,     \* the slot allocate_index returns next
    slot,       \* where each order is: Order* of active_orders, order_idx
    heap,       \* bids and asks of each book: the slots in them
    vault,      \* metadata_vault of each book
    active,     \* the keys of active_orders
    canceled,   \* canceled_orders
    lock,       \* who holds each book's engine_mutex
    doomed,     \* the id a worker has found in each book's active_orders
    call, at,   \* what the event-loop thread is running, and in which book
    taker,      \* the order submitted last
    spent,      \* total_spent of match_buy
    trades,     \* executed_trades of the submission that runs
    bbo,        \* what get_current_bbo returned, until the next call
    rewound     \* whether the last reset gave away slots of other books' orders

arenaVars == <<arena, offset, slot>>
bookVars == <<heap, vault, active, canceled>>
threadVars == <<lock, doomed, call, at>>
resultVars == <<taker, spent, trades, bbo>>
vars == <<arenaVars, bookVars, threadVars, resultVars, rewound>>

Slot == 0 .. Cardinality(Ids) - 1
Blank ==
    [side |-> "none", type |-> "none", price |-> 0, size |-> 0, shares |-> 0,
     funds |-> NoCap, stamp |-> 0, meta |-> 0, canceled |-> FALSE]
NoQuote == [buy |-> 0, sell |-> 0]

Init ==
    /\ arena = [s \in Slot |-> Blank] /\ offset = 0
    /\ slot = [i \in Ids |-> Unsent]
    /\ heap = [t \in Tickers |-> [s \in Side |-> {}]]
    /\ vault = [t \in Tickers |-> <<>>]
    /\ active = [t \in Tickers |-> {}] /\ canceled = [t \in Tickers |-> {}]
    /\ lock = [t \in Tickers |-> "free"]
    /\ doomed = [t \in Tickers |-> NoId]
    /\ call = "none" /\ at = ResetTicker
    /\ taker = NoId /\ spent = 0 /\ trades = <<>> /\ bbo = NoQuote
    /\ rewound = FALSE

Known == {i \in Ids : slot[i] # Unsent}
\* metadata_vault[order->metadata_index].order_id, which is read without a check
\* of the index: beyond the vault, whatever is there.
IdAt(t, s) == vault[t][arena[s].meta]
IdsAt(t, s) ==
    IF arena[s].meta \in DOMAIN vault[t] THEN {IdAt(t, s)} ELSE Ids \cup {NoId}
Least(a, b) == IF a < b THEN a ELSE b
Other(side) == IF side = "buy" THEN "sell" ELSE "buy"

(***************************************************************************)
(* BidComparator and AskComparator: price first, then date_time.           *)
(***************************************************************************)
Better(r, s) ==
    IF arena[r].side = "buy" THEN arena[r].price > arena[s].price
                             ELSE arena[r].price < arena[s].price
\* Bug: the comparators compare date_time the other way round.
BugAhead(r, s) ==
    \/ Better(r, s)
    \/ arena[r].price = arena[s].price /\ arena[r].stamp > arena[s].stamp
Ahead(r, s) ==
    \/ Better(r, s)
    \/ arena[r].price = arena[s].price /\ arena[r].stamp < arena[s].stamp
IsTop(t, side, s) ==
    s \in heap[t][side] /\ (rewound \/ \A r \in heap[t][side] \ {s} : Ahead(s, r))
\* Bug: is_canceled is not looked at.
BugLiveTop(t, side) == {s \in heap[t][side] : IsTop(t, side, s)}
LiveTop(t, side) == {s \in heap[t][side] : IsTop(t, side, s) /\ ~arena[s].canceled}

(***************************************************************************)
(* process_order: a slot, a metadata entry and the next tick of the book's *)
(* logical clock (current_time counts what the vault holds).               *)
(***************************************************************************)
\* Bug: two submissions get the same slot.
BugNextOffset == IF offset = 1 THEN 1 ELSE offset + 1
NextOffset == offset + 1
\* active_orders keeps its pointers into a slot that is given to another order.
Indexed(j) == \E t \in Tickers : j \in active[t]
Submit(t, i, o) ==
    /\ call = "none" /\ lock[t] = "free"
    /\ i \notin Known /\ offset \in Slot
    /\ offset' = NextOffset
    /\ slot' = [j \in Ids |-> IF j = i THEN offset
                             ELSE IF slot[j] = offset /\ ~Indexed(j) THEN Taken
                             ELSE slot[j]]
    /\ arena' = [arena EXCEPT ![offset] =
                   [o EXCEPT !.meta = Len(vault[t]) + 1, !.stamp = Len(vault[t])]]
    /\ vault' = [vault EXCEPT ![t] = Append(@, i)]
    /\ lock' = [lock EXCEPT ![t] = "loop"]
    /\ call' = "match" /\ at' = t
    /\ taker' = i /\ bbo' = NoQuote
    /\ UNCHANGED <<heap, active, canceled, doomed, spent, trades, rewound>>
NewOrder(side, type, price, size, funds) ==
    [Blank EXCEPT !.side = side, !.type = type, !.price = price,
                  !.size = size, !.shares = size, !.funds = funds]

(***************************************************************************)
(* match_buy and match_sell, with the taker in hand and not in a heap.     *)
(***************************************************************************)
Taker == arena[slot[taker]]
Target == Other(Taker.side)
Pop(side, s) ==
    \/ heap' = [heap EXCEPT ![at][side] = @ \ {s}]
    \/ rewound /\ UNCHANGED heap

\* A slot that a rewound heap names may hold a market order, which has no price.
Acceptable(s) ==
    \/ Taker.type = "market" /\ arena[s].price # 0
    \/ Taker.type = "limit" /\ Taker.side = "buy" /\ Taker.price >= arena[s].price
    \/ Taker.type = "limit" /\ Taker.side = "sell" /\ Taker.price =< arena[s].price
\* Bug: the later order sets the price.
BugSettled(s) ==
    IF Taker.type = "limit" /\ Taker.stamp > arena[s].stamp
    THEN Taker.price ELSE arena[s].price
Settled(s) ==
    IF Taker.type = "limit" /\ (arena[s].price = 0 \/ Taker.stamp < arena[s].stamp)
    THEN Taker.price ELSE arena[s].price

\* The budget, in uint64_t: a cost that is not a whole number of PRECISION units
\* is one more; a trade that would exceed the budget shrinks to what the rest
\* of it affords.
Capped == Taker.type = "market" /\ Taker.side = "buy" /\ Taker.funds # NoCap
Cost(quantity, price) ==
    LET cost == ((quantity * price) \div PM) % Word
    IN IF cost % PM = 0 THEN cost ELSE (cost + 1) % Word
Offered(s) == Least(Taker.shares, arena[s].shares)
OverBudget(s) ==
    Capped /\ (spent + Cost(Offered(s), Settled(s))) % Word > Taker.funds
Quantity(s) ==
    IF OverBudget(s)
    THEN ((((Taker.funds - spent) % Word) * PM) \div Settled(s)) % Word
    ELSE Offered(s)
\* The loop breaks at s: it asks too much, or the budget affords no share of it.
Blocked(s) == Acceptable(s) => OverBudget(s) /\ Quantity(s) = 0

Skip(s) ==
    /\ call = "match" /\ Taker.shares > 0
    /\ IsTop(at, Target, s) /\ arena[s].canceled
    /\ Pop(Target, s)
    /\ \E i \in IdsAt(at, s) : canceled' = [canceled EXCEPT ![at] = @ \ {i}]
    /\ UNCHANGED <<arenaVars, vault, active, threadVars, resultVars, rewound>>

\* price_locked_by_user is the taker's limit, also when the taker sells.
\* Bug: the quantity from before the budget was looked at.
BugTradeWith(i, s, quantity) ==
    [buyer  |-> IF Taker.side = "buy" THEN taker ELSE i,
     seller |-> IF Taker.side = "buy" THEN i ELSE taker,
     quantity |-> Offered(s), settled |-> Settled(s), locked |-> 0]
TradeWith(i, s, quantity) ==
    [buyer  |-> IF Taker.side = "buy" THEN taker ELSE i,
     seller |-> IF Taker.side = "buy" THEN i ELSE taker,
     quantity |-> quantity, settled |-> Settled(s),
     locked |-> IF Taker.type = "limit" THEN Taker.price ELSE 0]
Less(orders, s, quantity) == [orders EXCEPT ![s].shares = (@ - quantity) % Word]
\* A slot that a rewound heap names may be the taker's own, which then loses the
\* quantity twice.
Match(s) ==
    LET quantity == Quantity(s)
    IN /\ call = "match" /\ Taker.shares > 0
       /\ s \in LiveTop(at, Target) /\ ~Blocked(s)
       /\ spent' = IF Capped THEN (spent + Cost(quantity, Settled(s))) % Word ELSE spent
       /\ arena' = Less(Less(arena, slot[taker], quantity), s, quantity)
       /\ \E i \in IdsAt(at, s) :
             /\ trades' = Append(trades, TradeWith(i, s, quantity))
             /\ IF arena'[s].shares = 0
                THEN /\ Pop(Target, s)
                     /\ active' = [active EXCEPT ![at] = @ \ {i}]
                ELSE UNCHANGED <<heap, active>>
       /\ UNCHANGED <<offset, slot, vault, canceled, threadVars, taker, bbo, rewound>>

\* The loop ends; what is left of a limit order is pushed and can be found.
\* Bug: it is entered under its slot.
BugIndexKey ==
    IF Taker.type = "limit" /\ Taker.shares > 0
    THEN /\ heap' = [heap EXCEPT ![at][Taker.side] = @ \cup {slot[taker]}]
         /\ active' = [active EXCEPT ![at] = @ \cup {slot[taker]}]
    ELSE UNCHANGED <<heap, active>>
Rest ==
    IF Taker.type = "limit" /\ Taker.shares > 0
    THEN /\ heap' = [heap EXCEPT ![at][Taker.side] = @ \cup {slot[taker]}]
         /\ active' = [active EXCEPT ![at] = @ \cup {taker}]
    ELSE UNCHANGED <<heap, active>>
\* Bug: the loop ends at equal prices.
BugStops ==
    \/ Taker.shares = 0 \/ heap[at][Target] = {}
    \/ \E s \in LiveTop(at, Target) : Blocked(s) \/ Taker.price = arena[s].price
Stops ==
    \/ Taker.shares = 0 \/ heap[at][Target] = {}
    \/ \E s \in LiveTop(at, Target) : Blocked(s)
Done ==
    /\ call = "match" /\ Stops
    /\ Rest
    /\ call' = "none"
    /\ lock' = [lock EXCEPT ![at] = "free"]
    /\ spent' = 0 /\ trades' = <<>>  \* returned to the caller
    /\ UNCHANGED <<arenaVars, vault, canceled, doomed, at, taker, bbo, rewound>>

(***************************************************************************)
(* get_current_bbo, without the mutex: dead asks are popped first.         *)
(***************************************************************************)
ReadBBO(t) ==
    /\ call = "none"
    /\ call' = "bbo" /\ at' = t /\ bbo' = NoQuote
    /\ UNCHANGED <<arenaVars, bookVars, lock, doomed, taker, spent, trades, rewound>>
Clean(side) == heap[at][side] = {} \/ LiveTop(at, side) # {}
BBOSkip(side, s) ==
    /\ call = "bbo" /\ IsTop(at, side, s) /\ arena[s].canceled
    /\ side = "buy" => Clean("sell")
    /\ Pop(side, s)
    /\ \E i \in IdsAt(at, s) : canceled' = [canceled EXCEPT ![at] = @ \ {i}]
    /\ UNCHANGED <<arenaVars, vault, active, threadVars, resultVars, rewound>>
Quotes(side) ==
    IF heap[at][side] = {} THEN {0} ELSE {arena[s].price : s \in LiveTop(at, side)}
BBODone ==
    /\ call = "bbo"
    /\ \E buy \in Quotes("buy"), sell \in Quotes("sell") :
          bbo' = [buy |-> buy, sell |-> sell]
    /\ call' = "none"
    /\ UNCHANGED <<arenaVars, bookVars, lock, doomed, at, taker, spent, trades, rewound>>

(***************************************************************************)
(* reset_engine, without the mutex: the arena of all the books is rewound, *)
(* one book is emptied.                                                    *)
(***************************************************************************)
ResetEnter ==
    /\ call = "none"
    /\ call' = "reset" /\ at' = ResetTicker /\ bbo' = NoQuote
    /\ UNCHANGED <<arenaVars, bookVars, lock, doomed, taker, spent, trades, rewound>>
Occupied(t) == heap[t]["buy"] \cup heap[t]["sell"] \cup active[t] \cup canceled[t] # {}
\* Bug: the tombstones' ids are kept.
BugReset ==
    /\ call = "reset"
    /\ offset' = 0
    /\ heap' = [heap EXCEPT ![at] = [s \in Side |-> {}]]
    /\ vault' = [vault EXCEPT ![at] = <<>>]
    /\ active' = [active EXCEPT ![at] = {}]
    /\ rewound' = \E t \in Tickers \ {at} : Occupied(t)
    /\ call' = "none"
    /\ UNCHANGED <<arena, slot, canceled, lock, doomed, at, resultVars>>
Reset ==
    /\ call = "reset"
    /\ offset' = 0
    /\ heap' = [heap EXCEPT ![at] = [s \in Side |-> {}]]
    /\ vault' = [vault EXCEPT ![at] = <<>>]
    /\ active' = [active EXCEPT ![at] = {}]
    /\ canceled' = [canceled EXCEPT ![at] = {}]
    /\ rewound' = \E t \in Tickers \ {at} : Occupied(t)
    /\ call' = "none"
    /\ UNCHANGED <<arena, slot, lock, doomed, at, resultVars>>

(***************************************************************************)
(* tombstone_delete on a worker thread, under the mutex.  An id that is    *)
(* not active leaves the book as it is.                                    *)
(***************************************************************************)
CancelEnter(t, i) ==
    /\ lock[t] = "free" /\ i \in active[t]
    /\ lock' = [lock EXCEPT ![t] = "worker"]
    /\ doomed' = [doomed EXCEPT ![t] = i]
    /\ UNCHANGED <<arenaVars, bookVars, call, at, resultVars, rewound>>
\* Bug: the order is only taken out of active_orders.
BugTombstone(i) == UNCHANGED arena
Tombstone(i) == arena' = [arena EXCEPT ![slot[i]].canceled = TRUE]
CancelMark(t) ==
    /\ lock[t] = "worker"
    /\ Tombstone(doomed[t])
    /\ canceled' = [canceled EXCEPT ![t] = @ \cup {doomed[t]}]
    /\ active' = [active EXCEPT ![t] = @ \ {doomed[t]}]
    /\ lock' = [lock EXCEPT ![t] = "free"]
    /\ doomed' = [doomed EXCEPT ![t] = NoId]
    /\ UNCHANGED <<offset, slot, heap, vault, call, at, resultVars, rewound>>

\* Two threads in one book's containers without a common lock.
Racing == call \in {"bbo", "reset"} /\ lock[at] = "worker"

LoopCalls(t) ==
    \/ \E i \in Ids, side \in Side, size \in Lots :
          \/ \E price \in Prices :
                Submit(t, i, NewOrder(side, "limit", price, size, NoCap))
          \/ \E funds \in IF side = "buy" THEN Funds ELSE {NoCap} :
                Submit(t, i, NewOrder(side, "market", 0, size, funds))
    \/ ReadBBO(t)
LoopSteps ==
    \/ \E s \in Slot : Skip(s) \/ Match(s) \/ \E side \in Side : BBOSkip(side, s)
    \/ Done \/ BBODone \/ Reset
Next ==
    /\ ~Racing
    /\ \/ \E t \in Tickers : LoopCalls(t) \/ CancelMark(t)
       \/ \E t \in Tickers, i \in Ids : CancelEnter(t, i)
       \/ ResetEnter
       \/ LoopSteps
Spec == Init /\ [][Next]_vars

(***************************************************************************)
(* Properties.  They are claimed until a reset finds orders in another     *)
(* book, and again from a reset on that finds none; and nothing is claimed *)
(* of anything after a data race.                                          *)
(***************************************************************************)
Books == IF rewound THEN {} ELSE Tickers
Resting(t) == heap[t]["buy"] \cup heap[t]["sell"]
Live(t, side) == {s \in heap[t][side] : IdAt(t, s) \in active[t]}

OrderRec ==
    [side : Side \cup {"none"}, type : {"limit", "market", "none"},
     price : Prices \cup {0}, size : 0 .. NoCap, shares : 0 .. NoCap,
     funds : 0 .. NoCap, stamp : Nat, meta : Nat, canceled : BOOLEAN]
Trade ==
    [buyer : Ids \cup {NoId}, seller : Ids \cup {NoId}, quantity : 0 .. NoCap,
     settled : Nat, locked : Nat]
\* The variables hold what the engine's fields can hold.
TypeOK ==
    /\ arena \in [Slot -> OrderRec]
    /\ offset \in Nat
    /\ slot \in [Ids -> Slot \cup {Unsent, Taken}]
    /\ heap \in [Tickers -> [Side -> SUBSET Slot]]
    /\ vault \in [Tickers -> Seq(Ids)]
    /\ active \in [Tickers -> SUBSET Ids] /\ canceled \in [Tickers -> SUBSET Ids]
    /\ lock \in [Tickers -> {"free", "loop", "worker"}]
    /\ doomed \in [Tickers -> Ids \cup {NoId}]
    /\ call \in {"none", "match", "bbo", "reset"} /\ at \in Tickers
    /\ taker \in Ids \cup {NoId} /\ spent \in 0 .. NoCap
    /\ trades \in Seq(Trade)
    /\ bbo \in [Side -> Nat]
    /\ rewound \in BOOLEAN

\* While no reset has taken slots of other books, a resting order keeps its slot
\* of the shared arena to itself, and the allocator will not give it away: no
\* submission to any ticker writes over it.
SlotsOwned ==
    \A t \in Books :
       /\ \A s \in Resting(t) : s < offset
       /\ \A u \in Books \ {t} : Resting(t) \cap Resting(u) = {}
       /\ heap[t]["buy"] \cap heap[t]["sell"] = {}

\* The slots in the heaps, the metadata and the index of tombstone_delete
\* agree: an entry of a heap is a live order that can be canceled under its own
\* id or a tombstone that is known as one, and there is nothing else in the
\* index or in canceled_orders.
EntryAgrees(t, side, s) ==
    /\ arena[s].side = side /\ arena[s].type = "limit" /\ arena[s].shares > 0
    /\ arena[s].meta \in DOMAIN vault[t] /\ slot[IdAt(t, s)] = s
    /\ arena[s].canceled <=> IdAt(t, s) \notin active[t]
BookAgrees(t) ==
    /\ \A side \in Side : \A s \in heap[t][side] : EntryAgrees(t, side, s)
    /\ active[t] \cap canceled[t] = {}
    /\ active[t] \cup canceled[t] = {IdAt(t, s) : s \in Resting(t)}
IndexAgrees == \A t \in Books : BookAgrees(t)

\* No two live orders that could trade with each other are left in a book.
Uncrossed ==
    \A t \in Books : \A b \in Live(t, "buy"), a \in Live(t, "sell") :
       arena[b].price < arena[a].price

\* The trades of a submission are what its order wanted and no more: they
\* account for every share it lost.
TradesAccount ==
    call = "match" /\ at \in Books =>
       Taker.size = Taker.shares
                    + SumFunction([n \in DOMAIN trades |-> trades[n].quantity])

\* test_engine.py, test_market_order_financial_ceiling: a market buy
\* that reaches its budget drops what is left of it, so it never trades more
\* shares than it asked for.
NeverOverfilled ==
    call = "match" /\ Capped /\ at \in Books =>
       SumFunction([n \in DOMAIN trades |-> trades[n].quantity]) =< Taker.size

\* The resting order sets the price, and what a buyer with a limit is reported to
\* have locked covers it.
MakerPrice ==
    call = "match" /\ at \in Books =>
       \A n \in DOMAIN trades :
          LET maker == IF trades[n].buyer = taker THEN trades[n].seller ELSE trades[n].buyer
          IN /\ trades[n].settled = arena[slot[maker]].price
             /\ Taker.side = "buy" /\ Taker.type = "limit" =>
                   trades[n].locked >= trades[n].settled

\* An order that tombstone_delete has returned to a caller never loses another
\* share, whatever is submitted to any ticker, until its book is done with it.
CanceledNeverTrades ==
    [][\A t \in Books : \A i \in canceled[t] :
          arena'[slot[i]].shares = arena[slot[i]].shares]_vars

EarlierArrival(t, r, s) ==
    \E m, n \in DOMAIN vault[t] :
       m < n /\ vault[t][m] = IdAt(t, r) /\ vault[t][n] = IdAt(t, s)
\* README.md, "Matching engine core": best price first, and the same price
\* resolves by whichever order arrived first.
PriceTimePriority ==
    [][Len(trades') > Len(trades) /\ at \in Books =>
         LET trade == trades'[Len(trades')]
             s == slot[IF trade.buyer = taker THEN trade.seller ELSE trade.buyer]
         IN \A r \in Live(at, Target) \ {s} :
               /\ ~Better(r, s)
               /\ arena[r].price = arena[s].price => ~EarlierArrival(at, r, s)]_vars

\* get_current_bbo reports, for each side, the best price among the orders that
\* can still be filled, or 0 when there are none.
BBOExact ==
    [][call = "bbo" /\ call' = "none" /\ at \in Books =>
         \A side \in Side :
            \/ Live(at, side) = {} /\ bbo'[side] = 0
            \/ \E s \in Live(at, side) :
                  bbo'[side] = arena[s].price /\ \A r \in Live(at, side) : ~Better(r, s)]_vars

\* README.md, "Matching engine core": each ticker gets its own order book, so a
\* submission to one ticker changes no order that rests in another's.
TickersApart ==
    [][\A t \in Tickers : \A i \in active[t] :
          arena'[slot[i]].shares # arena[slot[i]].shares => call = "match" /\ at = t]_vars

\* The same exchange as the Python book implements (docs/RESEARCH.md, "Cross-Engine
\* Parity Methodology").  A limit order is live from its submission on.
OrderOf(i) == IF slot[i] \in Slot THEN arena[slot[i]] ELSE Blank
Running == call = "match" /\ at = ResetTicker
Market == INSTANCE Exchange WITH
    live <- active[ResetTicker]
            \cup (IF Running /\ Taker.type = "limit" /\ Taker.shares > 0
                  THEN {taker} ELSE {}),
    order <- [i \in Ids |-> [f \in {"side", "type", "price", "stamp"} |-> OrderOf(i)[f]]],
    shares <- [i \in Ids |-> OrderOf(i).shares],
    running <- Running
\* Every step is one of the exchange or changes nothing in it, also the reset that
\* begins the confusion and the one that ends it; between the two nothing is claimed.
ImplementsExchange ==
    Market!Init /\ [][(rewound /\ rewound') \/ [Market!Next]_(Market!exchangeVars)]_vars
=================================================================================
