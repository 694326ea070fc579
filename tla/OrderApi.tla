-------------------------------- MODULE OrderApi --------------------------------
(***************************************************************************)
(* The order API (main.py) with its dependencies have_funds and            *)
(* check_owner_ship: requests to place and to cancel orders for one        *)
(* ticker, interleaved at every await of the event loop.  One Redis call   *)
(* is one step.  The engine's own work is one step here (a submission      *)
(* holds the event loop and the book's lock); which of several acceptable  *)
(* orders it fills is left open, module OrderBook is about that.  Each     *)
(* order is a constant that is placed by one request.                      *)
(***************************************************************************)
EXTENDS Integers, FiniteSets, Functions

CONSTANTS
    Users,
    Nobody,
    Orders,       \* the orders users may place
    StartCash,    \* each user's cash in the cache
    StartShares,  \* and shares
    Quotes,       \* the best prices the cache may hold from earlier trading
    Retries,      \* retry_counter of have_funds
    Faults        \* bound: how many faults may happen

None == -1        \* no such field in the hash
Quote == [ask : Nat \cup {None}, bid : Nat \cup {None}]

ASSUME OrdersAssumption ==
    Orders \subseteq [id : Nat, user : Users, side : {"buy", "sell"},
                      type : {"limit", "market"},
                      price : Nat, quantity : Nat \ {0}]
ASSUME FiniteAssumption == IsFiniteSet(Users) /\ IsFiniteSet(Orders)
ASSUME NumbersAssumption ==
    /\ StartCash \in Nat /\ StartShares \in Nat
    /\ Retries \in Nat \ {0} /\ Faults \in Nat
    /\ Quotes \subseteq Quote
ASSUME NobodyAssumption == Nobody \notin Users

VARIABLES
    cache,      \* cache:portfolio:<user> and cache:positions:<user>
    bbo,        \* ticker:<ticker>:bbo
    pc,         \* where the request of each order is
    seen,       \* what it has read of the cache
    touched,    \* whether the key it WATCHes was written since
    tries,      \* its retry_counter
    held,       \* its locked_fiat or locked_shares
    unsure,     \* the orders for which the reply to an EXEC was lost
    left,       \* the shares of each order in the book
    outbox,     \* the trades of each submission that are not in the stream yet
    quoted,     \* and the best prices to go with them
    stream,     \* executed_trades_stream: each trade with its 1st or 2nd sending
    settled,    \* the entries settle_cache has seen
    repeated,   \* the orders whose rollback Redis ran twice
    canceler,   \* whose DELETE took each order out of the book
    deleting,   \* the orders whose DELETE is in delete_order
    faults

holdVars == <<seen, touched, tries, unsure>>
bookVars == <<left, outbox, quoted>>
tradeVars == <<stream, settled, repeated>>
cancelVars == <<canceler, deleting>>
vars == <<cache, bbo, pc, holdVars, held, bookVars, tradeVars, cancelVars, faults>>

Accounts == Users \X {"cash", "shares"}
Account(o) == <<o.user, IF o.side = "buy" THEN "cash" ELSE "shares">>
Balance(available, locked) == [available |-> available, locked |-> locked]
Start(asset) == IF asset = "cash" THEN StartCash ELSE StartShares
NoneSeen == [available |-> 0, locked |-> 0, price |-> None]

Init ==
    /\ cache = [a \in Accounts |-> Balance(Start(a[2]), 0)]
    /\ bbo \in Quotes
    /\ pc = [o \in Orders |-> "watch"]
    /\ seen = [o \in Orders |-> NoneSeen]
    /\ touched = [o \in Orders |-> FALSE]
    /\ tries = [o \in Orders |-> Retries]
    /\ held = [o \in Orders |-> 0]
    /\ unsure = {}
    /\ left = [o \in Orders |-> 0]
    /\ outbox = [o \in Orders |-> {}]
    /\ quoted = [o \in Orders |-> [ask |-> 0, bid |-> 0]]
    /\ stream = {} /\ settled = {} /\ repeated = {}
    /\ canceler = [o \in Orders |-> Nobody]
    /\ deleting = {}
    /\ faults = 0

Goto(o, next) == pc' = [pc EXCEPT ![o] = next]
Fault == faults < Faults /\ faults' = faults + 1

(***************************************************************************)
(* have_funds: WATCH, read, check, MULTI, HSET, EXEC.                      *)
(***************************************************************************)
Watching(o) == pc[o] \in {"available", "locked", "price", "exec"}
\* Every write to a key breaks the WATCHes of it.
Touch(accounts) ==
    touched' = [o \in Orders |-> touched[o] \/ (Watching(o) /\ Account(o) \in accounts)]

Watch(o) ==
    /\ pc[o] = "watch"
    /\ touched' = [touched EXCEPT ![o] = FALSE]
    /\ seen' = [seen EXCEPT ![o] = NoneSeen]
    /\ Goto(o, "available")
    /\ UNCHANGED <<cache, bbo, tries, unsure, held, bookVars, tradeVars,
                   cancelVars, faults>>
ReadAvailable(o) ==
    /\ pc[o] = "available"
    /\ seen' = [seen EXCEPT ![o].available = cache[Account(o)].available]
    /\ Goto(o, "locked")
    /\ UNCHANGED <<cache, bbo, touched, tries, unsure, held, bookVars, tradeVars,
                   cancelVars, faults>>
ReadLocked(o) ==
    /\ pc[o] = "locked"
    /\ seen' = [seen EXCEPT ![o].locked = cache[Account(o)].locked]
    /\ Goto(o, "price")
    /\ UNCHANGED <<cache, bbo, touched, tries, unsure, held, bookVars, tradeVars,
                   cancelVars, faults>>

\* What the order needs: a market buy 1% more than the best ask in the cache,
\* which is 0, and not missing, when the last trade emptied the book.
Total(o, price) ==
    CASE o.side = "sell"                      -> o.quantity
      [] o.side = "buy" /\ o.type = "limit"  -> o.price * o.quantity
      [] o.side = "buy" /\ o.type = "market" -> (price * o.quantity * 101) \div 100
\* Bug: what is already locked counts as funds too.
BugEnough(o, price) == Total(o, price) =< seen[o].available + cache[Account(o)].locked
Enough(o, price) == Total(o, price) =< seen[o].available
\* The best price is read last; it is not under WATCH.
ReadPrice(o) ==
    /\ pc[o] = "price"
    /\ LET price == IF o.side = "buy" THEN bbo.ask ELSE bbo.bid
       IN /\ seen' = [seen EXCEPT ![o].price = price]
          /\ IF (o.type = "market" /\ price = None) \/ ~Enough(o, price)
             THEN Goto(o, "refused") ELSE Goto(o, "exec")
    /\ UNCHANGED <<cache, bbo, touched, tries, unsure, held, bookVars, tradeVars,
                   cancelVars, faults>>

\* Bug: the key is not watched.
BugUnbroken(o) == TRUE
Unbroken(o) == ~touched[o]
\* EXEC writes both fields, computed from what was read before.
Place(o) ==
    LET total == Total(o, seen[o].price)
    IN cache' = [cache EXCEPT ![Account(o)] =
                   Balance(seen[o].available - total, seen[o].locked + total)]
Execute(o) ==
    /\ pc[o] = "exec" /\ Unbroken(o)
    /\ Place(o)
    /\ Touch({Account(o)})
    /\ held' = [held EXCEPT ![o] = Total(o, seen[o].price)]
    /\ Goto(o, "submit")
    /\ UNCHANGED <<bbo, seen, tries, unsure, bookVars, tradeVars, cancelVars, faults>>

\* Bug: the loop ends without an exception when the retries are used up.
BugWatchError(o) ==
    /\ tries' = [tries EXCEPT ![o] = @ - 1]
    /\ Goto(o, IF tries[o] > 1 THEN "watch" ELSE "submit")
\* A WatchError: try again, or give up with status 409.
WatchError(o) ==
    /\ tries' = [tries EXCEPT ![o] = @ - 1]
    /\ Goto(o, IF tries[o] > 1 THEN "watch" ELSE "refused")
Conflict(o) ==
    /\ pc[o] = "exec" /\ ~Unbroken(o)
    /\ WatchError(o)
    /\ UNCHANGED <<cache, bbo, seen, touched, unsure, held, bookVars, tradeVars,
                   cancelVars, faults>>
\* The connection breaks during EXEC: the client cannot tell whether the hold
\* was placed and raises WatchError too.
LoseReply(o) ==
    /\ pc[o] = "exec" /\ Fault
    /\ \/ Unbroken(o) /\ Place(o) /\ Touch({Account(o)})
       \/ UNCHANGED <<cache, touched>>
    /\ WatchError(o)
    /\ unsure' = unsure \cup {o}
    /\ UNCHANGED <<bbo, seen, held, bookVars, tradeVars, cancelVars>>

(***************************************************************************)
(* place_order: the engine, then the stream.                               *)
(***************************************************************************)
Acceptable(o, m) ==
    \/ o.type = "market"
    \/ o.side = "buy" /\ o.price >= m.price
    \/ o.side = "sell" /\ o.price =< m.price
Makers(o) == {m \in Orders : left[m] > 0 /\ m.side # o.side /\ Acceptable(o, m)}
\* A trade is settled at the resting order's price; the buyer's own limit is
\* what it unlocks, and 0 when the submitted order was a market order.
TradeOf(o, m, quantity) ==
    LET buy == IF o.side = "buy" THEN o ELSE m
    IN [buy |-> buy, sell |-> IF o.side = "buy" THEN m ELSE o,
        quantity |-> quantity, paid |-> m.price * quantity,
        unlocked |-> IF o.type = "market" THEN 0 ELSE buy.price * quantity]
Trades(o, fill) == {TradeOf(o, m, fill[m]) : m \in {n \in DOMAIN fill : fill[n] > 0}}
Filled(fill) == SumFunction(fill)
Paid(fill) == SumFunction([m \in DOMAIN fill |-> m.price * fill[m]])
\* Bug: the engine ignores max_authorized_funds.
BugWithinFunds(o, fill) == TRUE
WithinFunds(o, fill) == o.side = "buy" /\ o.type = "market" => Paid(fill) =< held[o]
\* Only the budget may stop an order before it or its makers are used up.
Fills(o) ==
    {fill \in [Makers(o) -> 0 .. o.quantity] :
       /\ \A m \in Makers(o) : fill[m] =< left[m]
       /\ Filled(fill) \in 0 .. o.quantity
       /\ WithinFunds(o, fill)
       /\ \/ o.side = "buy" /\ o.type = "market"
          \/ Filled(fill) = o.quantity
          \/ \A m \in Makers(o) : fill[m] = left[m]}

\* The price of an order no other on its side beats, or 0.
PriceOf(best) == IF best = {} THEN 0 ELSE (CHOOSE o \in best : TRUE).price
Best(book) ==
    LET resting(side) == {o \in Orders : book[o] > 0 /\ o.side = side}
    IN [ask |-> PriceOf({o \in resting("sell") :
                           \A p \in resting("sell") : o.price =< p.price}),
        bid |-> PriceOf({o \in resting("buy") :
                           \A p \in resting("buy") : o.price >= p.price})]

Submit(o) ==
    /\ pc[o] = "submit"
    /\ \E fill \in Fills(o) :
         /\ left' = [p \in Orders |->
                       CASE p \in Makers(o) -> left[p] - fill[p]
                         [] p = o /\ o.type = "limit" -> o.quantity - Filled(fill)
                         [] OTHER -> left[p]]
         /\ outbox' = [outbox EXCEPT ![o] = Trades(o, fill)]
         /\ quoted' = [quoted EXCEPT ![o] = IF Trades(o, fill) = {} THEN @ ELSE Best(left')]
         /\ Goto(o, IF Trades(o, fill) = {} THEN "done" ELSE "publish")
    /\ UNCHANGED <<cache, bbo, holdVars, held, tradeVars, cancelVars, faults>>

\* One MULTI: XADD of each trade and HSET of the best prices.
Send(o, sendings) ==
    /\ stream' = stream \cup (outbox[o] \X sendings)
    /\ bbo' = quoted[o]
\* retry_on_timeout: when the reply does not come in time the client sends the
\* MULTI again, and Redis may run it twice.
Publish(o) ==
    /\ pc[o] = "publish"
    /\ \/ Send(o, {1}) /\ UNCHANGED faults
       \/ Send(o, {1, 2}) /\ Fault
    /\ outbox' = [outbox EXCEPT ![o] = {}]
    /\ Goto(o, "done")
    /\ UNCHANGED <<cache, holdVars, held, left, quoted, settled, repeated, cancelVars>>

\* The route raises: before the engine took the order, or because the stream
\* cannot be reached (whether or not Redis ran the MULTI).
RouteFails(o) ==
    /\ pc[o] \in {"submit", "publish"} /\ Fault
    /\ \/ pc[o] = "publish" /\ Send(o, {1})
       \/ UNCHANGED <<stream, bbo>>
    /\ outbox' = [outbox EXCEPT ![o] = {}]
    /\ Goto(o, "rollback")
    /\ UNCHANGED <<cache, holdVars, held, left, quoted, settled, repeated, cancelVars>>
\* have_funds gets the exception at its yield and gives the hold back.
GiveBack(o, amount) ==
    /\ cache' = [cache EXCEPT ![Account(o)] = Balance(@.available + amount, @.locked - amount)]
    /\ Touch({Account(o)})
    /\ held' = [held EXCEPT ![o] = 0]
    /\ Goto(o, "failed")
    /\ UNCHANGED <<bbo, seen, tries, unsure, bookVars, stream, settled, cancelVars>>
Rollback(o) ==
    /\ pc[o] = "rollback"
    /\ GiveBack(o, held[o])
    /\ UNCHANGED <<repeated, faults>>
\* The MULTI of the HINCRBYs too may run twice.
RollbackTwice(o) ==
    /\ pc[o] = "rollback" /\ Fault
    /\ GiveBack(o, held[o] + held[o])
    /\ repeated' = repeated \cup {o}
RollbackFails(o) ==
    /\ pc[o] = "rollback" /\ Fault
    /\ Goto(o, "failed")
    /\ UNCHANGED <<cache, bbo, holdVars, held, bookVars, tradeVars, cancelVars>>

\* The engine's process ends: the book and all requests under way are gone.
Crash ==
    /\ Fault
    /\ pc' = [o \in Orders |->
                 IF \/ pc[o] \in {"done", "failed", "refused"}
                    \/ pc[o] = "watch" /\ tries[o] = Retries
                 THEN pc[o] ELSE "failed"]
    /\ left' = [o \in Orders |-> 0]
    /\ outbox' = [o \in Orders |-> {}]
    /\ deleting' = {}
    /\ UNCHANGED <<cache, bbo, holdVars, held, quoted, tradeVars, canceler>>

\* POST /admin/reset empties the book; nobody's hold is given back.
Reset ==
    /\ left' = [o \in Orders |-> 0]
    /\ UNCHANGED <<cache, bbo, pc, holdVars, held, outbox, quoted, tradeVars,
                   cancelVars, faults>>

(***************************************************************************)
(* settle_cache of the trade daemon, as one step here: what matters is     *)
(* that it writes while requests are between WATCH and EXEC.  TradeDaemon  *)
(* has its HINCRBYs one by one.                                            *)
(***************************************************************************)
Settle(entry) ==
    /\ entry \in stream \ settled
    /\ LET t == entry[1]
           cashOf(o) == <<o.user, "cash">>
           sharesOf(o) == <<o.user, "shares">>
           saved == IF t.unlocked > t.paid THEN t.unlocked - t.paid ELSE 0
           by(a, b, n) == IF a = b THEN n ELSE 0
       IN /\ cache' = [a \in Accounts |->
                Balance(cache[a].available + by(a, cashOf(t.sell), t.paid)
                           + by(a, sharesOf(t.buy), t.quantity)
                           + by(a, cashOf(t.buy), saved),
                        cache[a].locked - by(a, sharesOf(t.sell), t.quantity)
                           - by(a, cashOf(t.buy), t.unlocked))]
          /\ Touch({cashOf(t.buy), sharesOf(t.buy), cashOf(t.sell), sharesOf(t.sell)})
    /\ settled' = settled \cup {entry}
    /\ UNCHANGED <<bbo, pc, seen, tries, unsure, held, bookVars, stream, repeated,
                   cancelVars, faults>>

(***************************************************************************)
(* DELETE /order: check_owner_ship takes the order out of the book, then   *)
(* compares its owner; delete_order looks for it in the book again.        *)
(***************************************************************************)
CheckOwnership(o, u) ==
    /\ pc[o] = "done" /\ left[o] > 0
    /\ left' = [left EXCEPT ![o] = 0]
    /\ canceler' = [canceler EXCEPT ![o] = u]
    /\ deleting' = IF u = o.user THEN deleting \cup {o} ELSE deleting
    /\ UNCHANGED <<cache, bbo, pc, holdVars, held, outbox, quoted, tradeVars, faults>>
\* Found, the order's remaining hold is given back; else status 404.
DeleteOrder(o) ==
    /\ o \in deleting
    /\ LET back == IF o.side = "buy" THEN o.price * left[o] ELSE left[o]
       IN IF left[o] > 0
          THEN /\ cache' = [cache EXCEPT ![Account(o)] =
                              Balance(@.available + back, @.locked - back)]
               /\ Touch({Account(o)})
          ELSE UNCHANGED <<cache, touched>>
    /\ left' = [left EXCEPT ![o] = 0]
    /\ deleting' = deleting \ {o}
    /\ UNCHANGED <<bbo, pc, seen, tries, unsure, held, outbox, quoted, tradeVars,
                   canceler, faults>>

HaveFunds(o) ==
    \/ Watch(o) \/ ReadAvailable(o) \/ ReadLocked(o) \/ ReadPrice(o)
    \/ Execute(o) \/ Conflict(o) \/ LoseReply(o)
    \/ Rollback(o) \/ RollbackTwice(o) \/ RollbackFails(o)
PlaceOrder(o) == Submit(o) \/ Publish(o) \/ RouteFails(o)
Next ==
    \/ \E o \in Orders : HaveFunds(o) \/ PlaceOrder(o) \/ DeleteOrder(o)
    \/ \E o \in Orders, u \in Users : CheckOwnership(o, u)
    \/ \E entry \in stream : Settle(entry)
    \/ Reset
    \/ Crash
Spec == Init /\ [][Next]_vars

(***************************************************************************)
(* Properties.                                                             *)
(***************************************************************************)
Trade ==
    [buy : Orders, sell : Orders, quantity : Nat, paid : Nat, unlocked : Nat]
Stage == {"watch", "available", "locked", "price", "exec", "submit", "publish",
          "rollback", "done", "refused", "failed"}
\* The fields keep their types; what a user may spend is never negative.
TypeOK ==
    /\ cache \in [Accounts -> [available : Nat, locked : Int]]
    /\ bbo \in Quote
    /\ pc \in [Orders -> Stage]
    /\ seen \in [Orders -> [available : Nat, locked : Int, price : Nat \cup {None}]]
    /\ touched \in [Orders -> BOOLEAN]
    /\ tries \in [Orders -> 0 .. Retries]
    /\ held \in [Orders -> Nat]
    /\ unsure \subseteq Orders
    /\ left \in [Orders -> Nat]
    /\ outbox \in [Orders -> SUBSET Trade]
    /\ quoted \in [Orders -> Quote]
    /\ stream \subseteq Trade \X {1, 2} /\ settled \subseteq stream
    /\ repeated \subseteq Orders
    /\ canceler \in [Orders -> Users \cup {Nobody}]
    /\ deleting \subseteq Orders
    /\ faults \in Nat

Released(o, t) ==
    IF o = t.buy THEN t.unlocked ELSE IF o = t.sell THEN t.quantity ELSE 0
ReleasedAll(o, entries) == SumFunction([e \in entries |-> Released(o, e[1])])
OrdersOn(a) == {o \in Orders : Account(o) = a}

\* The locked field of a hash is exactly the holds placed, less what the entries
\* of the stream released when they were settled: concurrent requests,
\* settlements and rollbacks lose no update of each other's.  After a lost reply
\* it may be more, never less, but for a rollback that ran twice.
HoldsExact ==
    \A a \in Accounts : OrdersOn(a) \cap repeated = {} =>
       LET holds == SumFunction([o \in OrdersOn(a) |-> held[o] - ReleasedAll(o, settled)])
       IN /\ cache[a].locked >= holds
          /\ OrdersOn(a) \cap unsure = {} => cache[a].locked = holds

\* What is still to be paid for by each order: what is left of it in the book
\* and its trades on the way to settlement.
Unsettled == (UNION {outbox[p] : p \in Orders}) \cup {e[1] : e \in stream \ settled}
Needed(o) ==
    (IF o.side = "buy" THEN o.price * left[o] ELSE left[o])
      + SumFunction([t \in Unsettled |-> Released(o, t)])
SentTwice(o) == \E e \in stream : e[2] = 2 /\ o \in {e[1].buy, e[1].sell}
\* README.md, "The flow": the funds of an order are locked as long as it lasts.
\* They are for every user none of whose requests failed and none of whose
\* trades were sent twice, whatever happens to the requests of others.
AnsweredFunded ==
    \A a \in Accounts :
       (\A o \in OrdersOn(a) : pc[o] # "failed" /\ ~SentTwice(o)) =>
          cache[a].locked >= SumFunction([o \in OrdersOn(a) |-> Needed(o)])

\* Trading moves money and shares between users and makes none: together they
\* can never spend more than they brought, whatever stale quotes the holds of
\* market orders were computed from, unless a trade was sent twice or a request
\* failed after its trades.
NothingCreated ==
    (\A o \in Orders : pc[o] # "failed" /\ ~SentTwice(o)) =>
       \A asset \in {"cash", "shares"} :
          SumFunction([u \in Users |-> cache[<<u, asset>>].available - Start(asset)]) =< 0

\* The optimistic transactions of all requests amount to atomic reservations.
Balances == INSTANCE Reservations WITH
    available <- [a \in Accounts |-> cache[a].available],
    locked <- [a \in Accounts |-> cache[a].locked]
ImplementsReservations == Balances!Spec

\* main.py, the answer of delete_order: the order was cancelled and its funds are
\* returned.  When a DELETE, whoever sent it, has taken an order out of the book
\* and nothing is under way on the account, only what live orders and unsettled
\* trades need is locked.
CancelReturnsFunds ==
    \A o \in Orders :
       /\ canceler[o] # Nobody
       /\ \A p \in OrdersOn(Account(o)) :
             pc[p] \in {"watch", "done"} /\ p \notin deleting
       => cache[Account(o)].locked = SumFunction([p \in OrdersOn(Account(o)) |-> Needed(p)])
=================================================================================
