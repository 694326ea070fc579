----------------------------- MODULE OrderApiProofs -----------------------------
(***************************************************************************)
(* Proofs about the order API, for any users, orders, prices and faults:   *)
(* the optimistic transactions of have_funds amount to atomic              *)
(* reservations, and what a user may spend never becomes negative.         *)
(***************************************************************************)
EXTENDS OrderApi, TLAPS

\* While the WATCH of a request is unbroken, what it has read is what the cache
\* holds; a request that goes on to EXEC found enough, and has a try left.
SeenCurrent ==
    \A o \in Orders :
       /\ pc[o] \in {"locked", "price", "exec"} /\ ~touched[o] =>
             seen[o].available = cache[Account(o)].available
       /\ pc[o] \in {"price", "exec"} /\ ~touched[o] =>
             seen[o].locked = cache[Account(o)].locked
       /\ pc[o] = "exec" =>
             Enough(o, seen[o].price) /\ (o.type = "market" => seen[o].price \in Nat)
       /\ pc[o] = "watch" \/ Watching(o) => tries[o] > 0
IInv == TypeOK /\ SeenCurrent

BalanceType == [available : Nat, locked : Int]

\* The hash an order's hold goes to is one of the users'.
LEMMA AccountOfOrder ==
    ASSUME NEW o \in Orders
    PROVE  Account(o) \in Accounts /\ o.user \in Users
  BY OrdersAssumption DEF Account, Accounts

\* The 1% on top of a market buy is rounded to a natural number.
LEMMA Hundredth ==
    ASSUME NEW n \in Nat
    PROVE  (n * 101) \div 100 \in Nat
  OBVIOUS

\* Price times quantity is a natural number.
LEMMA Product ==
    ASSUME NEW m \in Nat, NEW n \in Nat
    PROVE  m * n \in Nat
  OBVIOUS

\* A hold is never negative.
LEMMA TotalIsNat ==
    ASSUME NEW o \in Orders, NEW price \in Nat \cup {None},
           o.type = "market" => price \in Nat
    PROVE  Total(o, price) \in Nat
<1>1. /\ o.quantity \in Nat /\ o.price \in Nat
      /\ o.side \in {"buy", "sell"} /\ o.type \in {"limit", "market"}
  BY OrdersAssumption
<1>2. CASE o.side = "sell"
  BY <1>1, <1>2 DEF Total
<1>3. CASE o.side = "buy" /\ o.type = "limit"
  <2>1. Total(o, price) = o.price * o.quantity
    BY <1>3 DEF Total
  <2>2. QED
    BY <1>1, <2>1, Product
<1>4. CASE o.side = "buy" /\ o.type = "market"
  <2>1. Total(o, price) = (price * o.quantity * 101) \div 100
    BY <1>4 DEF Total
  <2>2. price * o.quantity \in Nat
    BY <1>1, <1>4, Product
  <2>3. QED
    BY <2>1, <2>2, Hundredth
<1>5. QED
  BY <1>1, <1>2, <1>3, <1>4

\* The initial states satisfy the invariant.
LEMMA InitInv == Init => IInv
<1> SUFFICES ASSUME Init PROVE IInv
  OBVIOUS
<1>1. TypeOK
  BY NumbersAssumption, NobodyAssumption
     DEF Init, TypeOK, Accounts, Start, Balance, NoneSeen, None, Quote, Stage
<1>2. SeenCurrent
  BY NumbersAssumption DEF Init, SeenCurrent, Watching
<1>3. QED
  BY <1>1, <1>2 DEF IInv

\* The steps of have_funds, one by one, keep the invariant: WATCH ...
LEMMA WatchInv ==
    ASSUME IInv, NEW o \in Orders, Watch(o)
    PROVE  IInv'
<1>1. TypeOK'
  BY DEF IInv, TypeOK, Watch, Goto, Stage, NoneSeen, None, bookVars, tradeVars, cancelVars
<1>2. SeenCurrent'
  BY DEF IInv, TypeOK, SeenCurrent, Watch, Goto, Watching, Enough, bookVars, tradeVars, cancelVars
<1>3. QED
  BY <1>1, <1>2 DEF IInv

\* ... the two reads of the hash, current while nobody breaks the WATCH ...
LEMMA ReadAvailableInv ==
    ASSUME IInv, NEW o \in Orders, ReadAvailable(o)
    PROVE  IInv'
<1>1. cache[Account(o)] \in BalanceType
  BY AccountOfOrder DEF IInv, TypeOK, BalanceType
<1>2. TypeOK'
  BY <1>1 DEF IInv, TypeOK, ReadAvailable, Goto, Stage, BalanceType, bookVars, tradeVars, cancelVars
<1>3. SeenCurrent'
  BY DEF IInv, TypeOK, SeenCurrent, ReadAvailable, Goto, Watching, Enough, bookVars, tradeVars, cancelVars
<1>4. QED
  BY <1>2, <1>3 DEF IInv

\* ... of which this is the second ...
LEMMA ReadLockedInv ==
    ASSUME IInv, NEW o \in Orders, ReadLocked(o)
    PROVE  IInv'
<1>1. cache[Account(o)] \in BalanceType
  BY AccountOfOrder DEF IInv, TypeOK, BalanceType
<1>2. TypeOK'
  BY <1>1 DEF IInv, TypeOK, ReadLocked, Goto, Stage, BalanceType, bookVars, tradeVars, cancelVars
<1>3. SeenCurrent'
  BY DEF IInv, TypeOK, SeenCurrent, ReadLocked, Goto, Watching, Enough, bookVars, tradeVars, cancelVars
<1>4. QED
  BY <1>2, <1>3 DEF IInv

\* ... and the best price, after which the total is known to be covered.
LEMMA ReadPriceInv ==
    ASSUME IInv, NEW o \in Orders, ReadPrice(o)
    PROVE  IInv'
<1> DEFINE price == IF o.side = "buy" THEN bbo.ask ELSE bbo.bid
<1>1. price \in Nat \cup {None}
  BY DEF IInv, TypeOK, Quote
<1>2. /\ pc[o] = "price"
      /\ seen' = [seen EXCEPT ![o].price = price]
      /\ pc' = [pc EXCEPT ![o] = IF (o.type = "market" /\ price = None) \/ ~Enough(o, price)
                                THEN "refused" ELSE "exec"]
  BY DEF ReadPrice, Goto
<1>3. UNCHANGED <<cache, bbo, touched, tries, unsure, held, bookVars, tradeVars,
                  cancelVars, faults>>
  BY DEF ReadPrice
<1>4. TypeOK'
  <2>1. seen' \in [Orders -> [available : Nat, locked : Int, price : Nat \cup {None}]]
    BY <1>1, <1>2 DEF IInv, TypeOK
  <2>2. pc' \in [Orders -> Stage]
    BY <1>2 DEF IInv, TypeOK, Stage
  <2>3. QED
    BY <1>3, <2>1, <2>2 DEF IInv, TypeOK, bookVars, tradeVars, cancelVars
<1>5. /\ seen'[o].price = price
      /\ seen'[o].available = seen[o].available
      /\ seen'[o].locked = seen[o].locked
  BY <1>2 DEF IInv, TypeOK
<1>6. \A p \in Orders \ {o} : seen'[p] = seen[p] /\ pc'[p] = pc[p]
  BY <1>2 DEF IInv, TypeOK
<1>7. pc'[o] = "exec" => Enough(o, price) /\ (o.type = "market" => price \in Nat)
  BY <1>1, <1>2 DEF IInv, TypeOK
<1>8. pc'[o] \in {"refused", "exec"}
  BY <1>2 DEF IInv, TypeOK
<1>9. SeenCurrent'
  BY <1>2, <1>3, <1>5, <1>6, <1>7, <1>8 DEF IInv, SeenCurrent, Watching, Enough
<1>10. QED
  BY <1>4, <1>9 DEF IInv

\* What EXEC writes when the WATCH is unbroken: a hold of total, on top of what
\* the hash holds.
LEMMA Placed ==
    ASSUME IInv, NEW o \in Orders, pc[o] = "exec", Unbroken(o), Place(o)
    PROVE  LET a == Account(o)  total == Total(o, seen[o].price)
           IN /\ total \in Nat /\ total =< cache[a].available
              /\ cache' = [cache EXCEPT ![a] = Balance(cache[a].available - total,
                                                      cache[a].locked + total)]
<1>1. Total(o, seen[o].price) \in Nat
  BY TotalIsNat DEF IInv, TypeOK, SeenCurrent
<1>2. /\ seen[o].available = cache[Account(o)].available
      /\ seen[o].locked = cache[Account(o)].locked
      /\ Total(o, seen[o].price) =< seen[o].available
  BY DEF IInv, SeenCurrent, Unbroken, Enough
<1>3. QED
  BY <1>1, <1>2 DEF Place

\* A hold leaves a balance whose available field is not negative.
LEMMA NewBalance ==
    ASSUME NEW a \in Accounts, NEW x \in Nat, NEW y \in Int,
           cache \in [Accounts -> BalanceType], cache' = [cache EXCEPT ![a] = Balance(x, y)]
    PROVE  /\ cache' \in [Accounts -> BalanceType]
           /\ \A b \in Accounts \ {a} : cache'[b] = cache[b]
  BY DEF BalanceType, Balance

\* EXEC writes a balance of the right type.
LEMMA PlacedType ==
    ASSUME IInv, NEW o \in Orders, pc[o] = "exec", Unbroken(o), Place(o)
    PROVE  /\ cache' \in [Accounts -> BalanceType]
           /\ \A b \in Accounts \ {Account(o)} : cache'[b] = cache[b]
<1> DEFINE a == Account(o)  total == Total(o, seen[o].price)
<1>1. a \in Accounts
  BY AccountOfOrder
<1>2. cache \in [Accounts -> BalanceType]
  BY DEF IInv, TypeOK, BalanceType
<1>3. /\ total \in Nat /\ total =< cache[a].available
      /\ cache' = [cache EXCEPT ![a] = Balance(cache[a].available - total,
                                              cache[a].locked + total)]
  BY Placed
<1>4. cache[a].available \in Nat /\ cache[a].locked \in Int
  BY <1>1, <1>2 DEF BalanceType
<1> HIDE DEF a, total
<1>5. cache[a].available - total \in Nat /\ cache[a].locked + total \in Int
  BY <1>3, <1>4
<1>6. QED
  BY <1>1, <1>2, <1>3, <1>5, NewBalance DEF a

\* A write to some keys keeps every other request's reads current; the requests
\* in moved leave have_funds or start over.
LEMMA TouchKeeps ==
    ASSUME IInv, NEW S \in SUBSET Accounts, Touch(S),
           \A b \in Accounts \ S : cache'[b] = cache[b],
           seen' = seen, NEW moved \in SUBSET Orders,
           \A p \in moved : ~Watching(p)' /\ (pc'[p] = "watch" => tries'[p] > 0),
           \A p \in Orders \ moved : pc'[p] = pc[p] /\ tries'[p] = tries[p]
    PROVE  SeenCurrent' /\ touched' \in [Orders -> BOOLEAN]
<1>1. touched' \in [Orders -> BOOLEAN]
  BY DEF IInv, TypeOK, Touch, Watching
<1>2. ASSUME NEW p \in Orders, ~touched'[p], Watching(p)
      PROVE  ~touched[p] /\ cache'[Account(p)] = cache[Account(p)]
  BY <1>2, AccountOfOrder DEF Touch
<1>3. \A p \in moved : pc'[p] \notin {"available", "locked", "price", "exec"}
  BY DEF Watching
<1>4. ASSUME NEW p \in Orders \ moved
      PROVE  /\ pc'[p] \in {"locked", "price", "exec"} /\ ~touched'[p] =>
                   seen[p].available = cache'[Account(p)].available
             /\ pc'[p] \in {"price", "exec"} /\ ~touched'[p] =>
                   seen[p].locked = cache'[Account(p)].locked
             /\ Watching(p)' => Watching(p)
  BY <1>2, <1>4 DEF IInv, SeenCurrent, Watching
<1>5. QED
  BY <1>1, <1>3, <1>4 DEF IInv, SeenCurrent, Enough, Watching

\* A write to one hash breaks the WATCHes of that hash ...
LEMMA TouchOne ==
    ASSUME IInv, NEW o \in Orders, Touch({Account(o)}),
           \A b \in Accounts \ {Account(o)} : cache'[b] = cache[b],
           seen' = seen, ~Watching(o)', pc'[o] = "watch" => tries'[o] > 0,
           \A p \in Orders \ {o} : pc'[p] = pc[p] /\ tries'[p] = tries[p]
    PROVE  SeenCurrent' /\ touched' \in [Orders -> BOOLEAN]
<1> DEFINE S == {Account(o)}  moved == {o}
<1>1. S \in SUBSET Accounts /\ moved \in SUBSET Orders
  BY AccountOfOrder
<1>2. /\ Touch(S) /\ \A b \in Accounts \ S : cache'[b] = cache[b]
      /\ \A p \in moved : ~Watching(p)' /\ (pc'[p] = "watch" => tries'[p] > 0)
      /\ \A p \in Orders \ moved : pc'[p] = pc[p] /\ tries'[p] = tries[p]
  BY DEF Watching
<1> HIDE DEF S, moved
<1>3. QED
  BY <1>1, <1>2, TouchKeeps

\* ... and no write breaks none.
LEMMA TouchNone ==
    ASSUME IInv, NEW S \in SUBSET Accounts, Touch(S),
           \A b \in Accounts \ S : cache'[b] = cache[b],
           seen' = seen, pc' = pc, tries' = tries
    PROVE  SeenCurrent' /\ touched' \in [Orders -> BOOLEAN]
<1> DEFINE moved == {}
<1>1. /\ moved \in SUBSET Orders
      /\ \A p \in moved : ~Watching(p)' /\ (pc'[p] = "watch" => tries'[p] > 0)
      /\ \A p \in Orders \ moved : pc'[p] = pc[p] /\ tries'[p] = tries[p]
  OBVIOUS
<1> HIDE DEF moved
<1>2. QED
  BY <1>1, TouchKeeps

\* EXEC keeps the invariant: every other request that watches the hash is told.
LEMMA ExecuteInv ==
    ASSUME IInv, NEW o \in Orders, Execute(o)
    PROVE  IInv'
<1>1. pc[o] = "exec" /\ Unbroken(o) /\ Place(o)
  BY DEF Execute
<1>2. cache' \in [Accounts -> BalanceType]
      /\ \A b \in Accounts \ {Account(o)} : cache'[b] = cache[b]
  BY <1>1, PlacedType
<1>3. Total(o, seen[o].price) \in Nat
  BY <1>1, Placed
<1>4. held' \in [Orders -> Nat]
  BY <1>3 DEF Execute, IInv, TypeOK
<1>5. pc' \in [Orders -> Stage] /\ pc'[o] = "submit"
      /\ \A p \in Orders \ {o} : pc'[p] = pc[p]
  BY DEF Execute, Goto, IInv, TypeOK, Stage
<1>6. tries' = tries /\ seen' = seen /\ tries \in [Orders -> 0 .. Retries]
  BY DEF Execute, IInv, TypeOK
<1>7. ~Watching(o)'
  BY <1>5 DEF Watching
<1>8. SeenCurrent' /\ touched' \in [Orders -> BOOLEAN]
  BY <1>2, <1>5, <1>6, <1>7, TouchOne, AccountOfOrder DEF Execute
<1>9. TypeOK'
  BY <1>2, <1>4, <1>5, <1>6, <1>8
     DEF Execute, IInv, TypeOK, BalanceType, bookVars, tradeVars, cancelVars
<1>10. QED
  BY <1>8, <1>9 DEF IInv

\* Where a WatchError leads.
LEMMA ErrorSteps ==
    ASSUME IInv, NEW o \in Orders, pc[o] = "exec", WatchError(o)
    PROVE  /\ pc' \in [Orders -> Stage] /\ pc'[o] \in {"watch", "refused"}
           /\ \A p \in Orders \ {o} : pc'[p] = pc[p] /\ tries'[p] = tries[p]
           /\ tries' \in [Orders -> 0 .. Retries]
           /\ pc'[o] = "watch" => tries'[o] > 0
<1>1. tries[o] \in 1 .. Retries /\ tries \in [Orders -> 0 .. Retries]
  BY NumbersAssumption DEF IInv, TypeOK, SeenCurrent, Watching
<1>2. tries[o] - 1 \in 0 .. Retries /\ (tries[o] > 1 => tries[o] - 1 > 0)
  BY <1>1, NumbersAssumption
<1>3. QED
  BY <1>1, <1>2 DEF WatchError, Goto, IInv, TypeOK, Stage

\* A refused EXEC keeps the invariant.
LEMMA ConflictInv ==
    ASSUME IInv, NEW o \in Orders, Conflict(o)
    PROVE  IInv'
<1>1. pc[o] = "exec" /\ WatchError(o)
      /\ UNCHANGED <<cache, bbo, seen, touched, unsure, held, bookVars, tradeVars,
                     cancelVars, faults>>
  BY DEF Conflict
<1>2. TypeOK'
  BY <1>1, ErrorSteps DEF IInv, TypeOK, bookVars, tradeVars, cancelVars
<1>3. SeenCurrent'
  BY <1>1, ErrorSteps DEF IInv, SeenCurrent, Enough, Watching
<1>4. QED
  BY <1>2, <1>3 DEF IInv

\* A lost reply keeps the invariant, whether or not Redis ran the EXEC.
LEMMA LoseReplyInv ==
    ASSUME IInv, NEW o \in Orders, LoseReply(o)
    PROVE  IInv'
<1>1. pc[o] = "exec" /\ WatchError(o) /\ seen' = seen /\ unsure' = unsure \cup {o}
      /\ faults' = faults + 1 /\ UNCHANGED <<bbo, held, bookVars, tradeVars, cancelVars>>
  BY DEF LoseReply, Fault
<1>2. ~Watching(o)'
  BY <1>1, ErrorSteps DEF Watching
<1>3. cache' \in [Accounts -> BalanceType] /\ SeenCurrent' /\ touched' \in [Orders -> BOOLEAN]
  <2>1. CASE Unbroken(o) /\ Place(o) /\ Touch({Account(o)})
    <3>1. cache' \in [Accounts -> BalanceType]
          /\ \A b \in Accounts \ {Account(o)} : cache'[b] = cache[b]
      BY <1>1, <2>1, PlacedType
    <3>2. QED
      BY <1>1, <1>2, <2>1, <3>1, ErrorSteps, TouchOne, AccountOfOrder
  <2>2. CASE UNCHANGED <<cache, touched>>
    BY <1>1, <2>2, ErrorSteps DEF IInv, TypeOK, SeenCurrent, Enough, Watching, BalanceType
  <2>3. QED
    BY <2>1, <2>2 DEF LoseReply
<1>4. TypeOK'
  BY <1>1, <1>3, ErrorSteps DEF IInv, TypeOK, BalanceType, bookVars, tradeVars, cancelVars
<1>5. QED
  BY <1>3, <1>4 DEF IInv

\* A request past have_funds moves on; nobody's reads are affected.
LEMMA RouteKeeps ==
    ASSUME IInv, NEW o \in Orders, UNCHANGED <<cache, holdVars>>,
           pc' \in [Orders -> Stage], ~Watching(o)', pc'[o] # "watch",
           \A p \in Orders \ {o} : pc'[p] = pc[p]
    PROVE  SeenCurrent'
  BY DEF IInv, SeenCurrent, Enough, Watching, holdVars

\* What the engine reports of a fill has the type of a trade.
LEMMA FillType ==
    ASSUME TypeOK, NEW o \in Orders, NEW fill \in Fills(o)
    PROVE  /\ Trades(o, fill) \subseteq Trade
           /\ \A m \in Makers(o) : left[m] - fill[m] \in Nat
           /\ o.quantity - Filled(fill) \in Nat
<1>1. /\ fill \in [Makers(o) -> 0 .. o.quantity]
      /\ \A m \in Makers(o) : fill[m] =< left[m]
      /\ Filled(fill) \in 0 .. o.quantity
  BY DEF Fills
<1>2. /\ Makers(o) \subseteq Orders /\ left \in [Orders -> Nat]
      /\ \A m \in Orders : m.price \in Nat /\ m.quantity \in Nat
  BY OrdersAssumption DEF Makers, TypeOK
<1>3. ASSUME NEW m \in Makers(o)
      PROVE  TradeOf(o, m, fill[m]) \in Trade
  <2>1. fill[m] \in Nat /\ m \in Orders
    BY <1>1, <1>2
  <2>2. m.price * fill[m] \in Nat /\ o.price * fill[m] \in Nat
    BY <1>2, <2>1, Product
  <2>3. QED
    BY <2>1, <2>2 DEF TradeOf, Trade
<1>4. Trades(o, fill) \subseteq Trade
  BY <1>1, <1>3 DEF Trades
<1>5. ASSUME NEW m \in Makers(o)
      PROVE  left[m] - fill[m] \in Nat
  <2>1. left[m] \in Nat /\ fill[m] \in Nat /\ fill[m] =< left[m]
    BY <1>1, <1>2
  <2>2. QED
    BY <2>1
<1>6. o.quantity - Filled(fill) \in Nat
  BY <1>1, <1>2
<1>7. QED
  BY <1>4, <1>5, <1>6

\* Quotes are natural numbers.
LEMMA BestType ==
    ASSUME NEW book
    PROVE  Best(book) \in Quote
<1>1. ASSUME NEW best \in SUBSET Orders
      PROVE  PriceOf(best) \in Nat
  <2>1. CASE best = {}
    BY <2>1 DEF PriceOf
  <2>2. CASE best # {}
    <3>1. (CHOOSE o \in best : TRUE) \in Orders
      BY <2>2
    <3>2. QED
      BY <2>2, <3>1, OrdersAssumption DEF PriceOf
  <2>3. QED
    BY <2>1, <2>2
<1>2. QED
  BY <1>1 DEF Best, Quote

\* The engine keeps the invariant: it writes nothing the requests read.
LEMMA SubmitInv ==
    ASSUME IInv, NEW o \in Orders, Submit(o)
    PROVE  IInv'
<1>1. PICK fill \in Fills(o) :
         /\ left' = [p \in Orders |->
                       CASE p \in Makers(o) -> left[p] - fill[p]
                         [] p = o /\ o.type = "limit" -> o.quantity - Filled(fill)
                         [] OTHER -> left[p]]
         /\ outbox' = [outbox EXCEPT ![o] = Trades(o, fill)]
         /\ quoted' = [quoted EXCEPT ![o] = IF Trades(o, fill) = {} THEN @ ELSE Best(left')]
         /\ pc' = [pc EXCEPT ![o] = IF Trades(o, fill) = {} THEN "done" ELSE "publish"]
  BY DEF Submit, Goto
<1>2. /\ Trades(o, fill) \subseteq Trade
      /\ \A m \in Makers(o) : left[m] - fill[m] \in Nat
      /\ o.quantity - Filled(fill) \in Nat
  BY FillType DEF IInv
<1>3. left' \in [Orders -> Nat]
  <2>1. ASSUME NEW p \in Orders PROVE left'[p] \in Nat
    <3>0. left'[p] = CASE p \in Makers(o) -> left[p] - fill[p]
                       [] p = o /\ o.type = "limit" -> o.quantity - Filled(fill)
                       [] OTHER -> left[p]
      BY <1>1
    <3>1. CASE p \in Makers(o)
      <4>1. p # o
        BY <3>1 DEF Makers
      <4>2. QED
        BY <1>2, <3>0, <3>1, <4>1
    <3>2. CASE p \notin Makers(o) /\ p = o /\ o.type = "limit"
      BY <1>2, <3>0, <3>2
    <3>3. CASE p \notin Makers(o) /\ ~(p = o /\ o.type = "limit")
      BY <3>0, <3>3 DEF IInv, TypeOK
    <3>4. QED
      BY <3>1, <3>2, <3>3
  <2>2. QED
    BY <1>1, <2>1
<1>4. outbox' \in [Orders -> SUBSET Trade] /\ quoted' \in [Orders -> Quote]
  BY <1>1, <1>2, BestType DEF IInv, TypeOK
<1>5. /\ pc' \in [Orders -> Stage] /\ ~Watching(o)' /\ pc'[o] # "watch"
      /\ \A p \in Orders \ {o} : pc'[p] = pc[p]
  BY <1>1 DEF IInv, TypeOK, Stage, Watching
<1>6. UNCHANGED <<cache, bbo, holdVars, held, tradeVars, cancelVars, faults>>
  BY DEF Submit
<1>7. TypeOK'
  BY <1>3, <1>4, <1>5, <1>6 DEF IInv, TypeOK, holdVars, tradeVars, cancelVars
<1>8. QED
  BY <1>5, <1>6, <1>7, RouteKeeps DEF IInv

\* The steps of the route and its failure.
LEMMA RouteSteps ==
    ASSUME IInv, NEW o \in Orders, NEW next \in Stage, Goto(o, next),
           next \notin {"watch", "available", "locked", "price", "exec"}
    PROVE  /\ pc' \in [Orders -> Stage] /\ ~Watching(o)' /\ pc'[o] # "watch"
           /\ \A p \in Orders \ {o} : pc'[p] = pc[p]
  BY DEF IInv, TypeOK, Goto, Watching

\* What is sent has the type of the stream.
LEMMA SendType ==
    ASSUME IInv, NEW o \in Orders, NEW sendings \in SUBSET {1, 2}, Send(o, sendings)
    PROVE  stream' \subseteq Trade \X {1, 2} /\ settled \subseteq stream' /\ bbo' \in Quote
<1>1. outbox[o] \subseteq Trade /\ quoted[o] \in Quote
  BY DEF IInv, TypeOK
<1>2. outbox[o] \X sendings \subseteq Trade \X {1, 2}
  BY <1>1
<1>3. QED
  BY <1>1, <1>2 DEF Send, IInv, TypeOK

\* Publishing keeps the invariant: the quotes are under no WATCH.
LEMMA PublishInv ==
    ASSUME IInv, NEW o \in Orders, Publish(o)
    PROVE  IInv'
<1>1. /\ pc' \in [Orders -> Stage] /\ ~Watching(o)' /\ pc'[o] # "watch"
      /\ \A p \in Orders \ {o} : pc'[p] = pc[p]
  BY RouteSteps DEF Publish, Stage
<1>2. SeenCurrent'
  BY <1>1, RouteKeeps DEF Publish
<1>3. stream' \subseteq Trade \X {1, 2} /\ settled \subseteq stream' /\ bbo' \in Quote
  BY SendType DEF Publish
<1>4. faults' \in Nat
  BY DEF Publish, Fault, IInv, TypeOK
<1>5. outbox' = [outbox EXCEPT ![o] = {}]
      /\ UNCHANGED <<cache, holdVars, held, left, quoted, settled, repeated, cancelVars>>
  BY DEF Publish
<1>6. TypeOK'
  BY <1>1, <1>3, <1>4, <1>5 DEF IInv, TypeOK, holdVars, cancelVars
<1>7. QED
  BY <1>2, <1>6 DEF IInv

\* A failing route keeps the invariant.
LEMMA RouteFailsInv ==
    ASSUME IInv, NEW o \in Orders, RouteFails(o)
    PROVE  IInv'
<1>1. /\ pc' \in [Orders -> Stage] /\ ~Watching(o)' /\ pc'[o] # "watch"
      /\ \A p \in Orders \ {o} : pc'[p] = pc[p]
  BY RouteSteps DEF RouteFails, Stage
<1>2. SeenCurrent'
  BY <1>1, RouteKeeps DEF RouteFails
<1>4. stream' \subseteq Trade \X {1, 2} /\ settled \subseteq stream' /\ bbo' \in Quote
  <2>1. CASE Send(o, {1})
    BY <2>1, SendType
  <2>2. CASE UNCHANGED <<stream, bbo>>
    BY <2>2 DEF IInv, TypeOK
  <2>3. QED
    BY <2>1, <2>2 DEF RouteFails
<1>5. TypeOK'
  <2>1. /\ outbox' = [outbox EXCEPT ![o] = {}] /\ faults' = faults + 1
        /\ UNCHANGED <<cache, holdVars, held, left, quoted, settled, repeated, cancelVars>>
    BY DEF RouteFails, Fault
  <2>2. outbox' \in [Orders -> SUBSET Trade] /\ faults' \in Nat
    BY <2>1 DEF IInv, TypeOK
  <2>3. QED
    BY <1>1, <1>4, <2>1, <2>2 DEF IInv, TypeOK, holdVars, cancelVars
<1>6. QED
  BY <1>2, <1>5 DEF IInv

\* Giving back a hold, whole or in part.
LEMMA GivenBack ==
    ASSUME IInv, NEW o \in Orders, NEW n \in Nat,
           cache' = [cache EXCEPT ![Account(o)] = Balance(@.available + n, @.locked - n)]
    PROVE  /\ cache' \in [Accounts -> BalanceType]
           /\ \A b \in Accounts \ {Account(o)} : cache'[b] = cache[b]
<1> DEFINE a == Account(o)
<1>1. a \in Accounts /\ cache \in [Accounts -> BalanceType]
  BY AccountOfOrder DEF IInv, TypeOK, BalanceType
<1>2. cache[a].available \in Nat /\ cache[a].locked \in Int
  BY <1>1 DEF BalanceType
<1>3. cache' = [cache EXCEPT ![a] = Balance(cache[a].available + n, cache[a].locked - n)]
  OBVIOUS
<1> HIDE DEF a
<1>4. cache[a].available + n \in Nat /\ cache[a].locked - n \in Int
  BY <1>2
<1>5. QED
  BY <1>1, <1>3, <1>4, NewBalance DEF a

\* A rollback keeps the invariant, be it of the whole hold or of twice the hold.
LEMMA GiveBackInv ==
    ASSUME IInv, NEW o \in Orders, NEW n \in Nat, GiveBack(o, n),
           repeated' \subseteq Orders, faults' \in Nat
    PROVE  IInv'
<1>1. /\ pc' \in [Orders -> Stage] /\ ~Watching(o)' /\ pc'[o] # "watch"
      /\ \A p \in Orders \ {o} : pc'[p] = pc[p]
  BY RouteSteps DEF GiveBack, Stage
<1>2. /\ cache' \in [Accounts -> BalanceType]
      /\ \A b \in Accounts \ {Account(o)} : cache'[b] = cache[b]
  BY GivenBack DEF GiveBack
<1>3. SeenCurrent' /\ touched' \in [Orders -> BOOLEAN]
  BY <1>1, <1>2, TouchOne, AccountOfOrder DEF GiveBack, IInv, TypeOK
<1>4. TypeOK'
  BY <1>1, <1>2, <1>3
     DEF GiveBack, IInv, TypeOK, BalanceType, bookVars, cancelVars
<1>5. QED
  BY <1>3, <1>4 DEF IInv

\* Both rollbacks are of that kind.
LEMMA RollbackInv ==
    ASSUME IInv, NEW o \in Orders, Rollback(o) \/ RollbackTwice(o)
    PROVE  IInv'
<1>1. held[o] \in Nat /\ held[o] + held[o] \in Nat /\ faults \in Nat /\ repeated \subseteq Orders
  BY DEF IInv, TypeOK
<1>2. QED
  BY <1>1, GiveBackInv DEF Rollback, RollbackTwice, Fault

\* A rollback that fails keeps the invariant.
LEMMA RollbackFailsInv ==
    ASSUME IInv, NEW o \in Orders, RollbackFails(o)
    PROVE  IInv'
<1>1. /\ pc' \in [Orders -> Stage] /\ ~Watching(o)' /\ pc'[o] # "watch"
      /\ \A p \in Orders \ {o} : pc'[p] = pc[p]
  BY RouteSteps DEF RollbackFails, Stage
<1>2. SeenCurrent'
  BY <1>1, RouteKeeps DEF RollbackFails
<1>3. TypeOK'
  BY <1>1 DEF RollbackFails, Fault, IInv, TypeOK, holdVars, bookVars, tradeVars, cancelVars
<1>4. QED
  BY <1>2, <1>3 DEF IInv

\* A crash of the engine keeps the invariant.
LEMMA CrashInv ==
    ASSUME IInv, Crash
    PROVE  IInv'
<1>1. /\ \A p \in Orders : pc'[p] = "failed" \/ (pc'[p] = pc[p] /\ ~Watching(p))
      /\ pc' \in [Orders -> Stage]
  BY DEF Crash, IInv, TypeOK, Stage, Watching
<1>2. /\ left' = [o \in Orders |-> 0] /\ outbox' = [o \in Orders |-> {}]
      /\ deleting' = {} /\ faults' = faults + 1
      /\ UNCHANGED <<cache, bbo, holdVars, held, quoted, tradeVars, canceler>>
  BY DEF Crash, Fault
<1>3. TypeOK'
  BY <1>1, <1>2 DEF IInv, TypeOK, holdVars, tradeVars
<1>4. SeenCurrent'
  BY <1>1, <1>2 DEF IInv, SeenCurrent, Watching, holdVars
<1>5. QED
  BY <1>3, <1>4 DEF IInv

\* An admin's reset keeps the invariant.
LEMMA ResetInv ==
    ASSUME IInv, Reset
    PROVE  IInv'
<1>1. TypeOK'
  BY DEF Reset, IInv, TypeOK, holdVars, tradeVars, cancelVars
<1>2. SeenCurrent'
  BY DEF Reset, IInv, SeenCurrent, Enough, Watching, holdVars
<1>3. QED
  BY <1>1, <1>2 DEF IInv

\* The hashes a trade's settlement writes.
Hashes(t) == {<<t.buy.user, "cash">>, <<t.buy.user, "shares">>,
              <<t.sell.user, "cash">>, <<t.sell.user, "shares">>}

\* Adding and taking away natural numbers.
LEMMA MoreAndLess ==
    ASSUME NEW v \in Nat, NEW l \in Int, NEW x \in Nat, NEW y \in Nat, NEW z \in Nat,
           NEW m \in Nat, NEW n \in Nat
    PROVE  /\ v + x + y + z \in Nat /\ l - m - n \in Int
           /\ v + x + y + z >= v /\ l - m - n =< l
  OBVIOUS

\* settle_cache adds to what may be spent and takes from what is locked.
LEMMA SettleFrees ==
    ASSUME IInv, NEW entry \in stream, Settle(entry)
    PROVE  /\ cache' \in [Accounts -> BalanceType]
           /\ \A a \in Accounts : /\ cache'[a].available >= cache[a].available
                                  /\ cache'[a].locked =< cache[a].locked
           /\ \A a \in Accounts \ Hashes(entry[1]) :
                 cache'[a] = cache[a]
<1> DEFINE t == entry[1]
           saved == IF t.unlocked > t.paid THEN t.unlocked - t.paid ELSE 0
           By(a, b, n) == IF a = b THEN n ELSE 0
<1>1. t.paid \in Nat /\ t.quantity \in Nat /\ t.unlocked \in Nat
  BY DEF IInv, TypeOK, Trade
<1>2. ASSUME NEW a \in Accounts
      PROVE  cache'[a] = Balance(
                cache[a].available + By(a, <<t.sell.user, "cash">>, t.paid)
                   + By(a, <<t.buy.user, "shares">>, t.quantity)
                   + By(a, <<t.buy.user, "cash">>, saved),
                cache[a].locked - By(a, <<t.sell.user, "shares">>, t.quantity)
                   - By(a, <<t.buy.user, "cash">>, t.unlocked))
  BY DEF Settle
<1>3. DOMAIN cache' = Accounts /\ cache' = [a \in Accounts |-> cache'[a]]
  BY DEF Settle
<1>4. saved \in Nat
  BY <1>1
<1>5. ASSUME NEW a \in Accounts
      PROVE  /\ cache[a].available \in Nat /\ cache[a].locked \in Int
             /\ By(a, <<t.sell.user, "cash">>, t.paid) \in Nat
             /\ By(a, <<t.buy.user, "shares">>, t.quantity) \in Nat
             /\ By(a, <<t.buy.user, "cash">>, saved) \in Nat
             /\ By(a, <<t.sell.user, "shares">>, t.quantity) \in Nat
             /\ By(a, <<t.buy.user, "cash">>, t.unlocked) \in Nat
  BY <1>1, <1>4 DEF IInv, TypeOK
<1> HIDE DEF By, saved
<1>6. ASSUME NEW a \in Accounts
      PROVE  /\ cache'[a] \in BalanceType
             /\ cache'[a].available >= cache[a].available
             /\ cache'[a].locked =< cache[a].locked
  <2> DEFINE v == cache[a].available + By(a, <<t.sell.user, "cash">>, t.paid)
                   + By(a, <<t.buy.user, "shares">>, t.quantity)
                   + By(a, <<t.buy.user, "cash">>, saved)
             l == cache[a].locked - By(a, <<t.sell.user, "shares">>, t.quantity)
                   - By(a, <<t.buy.user, "cash">>, t.unlocked)
  <2>1. v \in Nat /\ l \in Int /\ v >= cache[a].available /\ l =< cache[a].locked
    BY <1>5, MoreAndLess
  <2>2. cache'[a] = Balance(v, l)
    BY <1>2
  <2> HIDE DEF v, l
  <2>3. QED
    BY <2>1, <2>2 DEF Balance, BalanceType
<1>7. ASSUME NEW a \in Accounts \ Hashes(t)
      PROVE  cache'[a] = cache[a]
  <2>1. /\ By(a, <<t.sell.user, "cash">>, t.paid) = 0
        /\ By(a, <<t.buy.user, "shares">>, t.quantity) = 0
        /\ By(a, <<t.buy.user, "cash">>, saved) = 0
        /\ By(a, <<t.sell.user, "shares">>, t.quantity) = 0
        /\ By(a, <<t.buy.user, "cash">>, t.unlocked) = 0
    BY DEF By, Hashes
  <2>2. cache'[a] = Balance(cache[a].available, cache[a].locked)
    BY <1>2, <1>5, <2>1
  <2>3. cache[a] \in BalanceType
    BY DEF IInv, TypeOK, BalanceType
  <2>4. QED
    BY <2>2, <2>3 DEF Balance, BalanceType
<1>8. QED
  BY <1>3, <1>6, <1>7

\* settle_cache keeps the invariant.
LEMMA SettleInv ==
    ASSUME IInv, NEW entry \in stream, Settle(entry)
    PROVE  IInv'
<1> DEFINE t == entry[1]
<1>1. t.buy.user \in Users /\ t.sell.user \in Users
  BY AccountOfOrder DEF IInv, TypeOK, Trade
<1>2. Hashes(t) \subseteq Accounts
  BY <1>1 DEF Hashes, Accounts
<1>3. Touch(Hashes(t)) /\ seen' = seen /\ pc' = pc /\ tries' = tries
  <2>1. Hashes(t) = {<<t.buy.user, "cash">>, <<t.buy.user, "shares">>,
                     <<t.sell.user, "cash">>, <<t.sell.user, "shares">>}
    BY DEF Hashes
  <2>2. QED
    BY <2>1 DEF Settle
<1>4. SeenCurrent' /\ touched' \in [Orders -> BOOLEAN]
  <2>1. \A b \in Accounts \ Hashes(t) : cache'[b] = cache[b]
    BY SettleFrees
  <2>2. QED
    BY <1>2, <1>3, <2>1, TouchNone
<1>5. cache' \in [Accounts -> BalanceType]
  BY SettleFrees
<1>6. TypeOK'
  BY <1>3, <1>4, <1>5 DEF Settle, IInv, TypeOK, BalanceType, bookVars, cancelVars
<1>7. QED
  BY <1>4, <1>6 DEF IInv

\* check_owner_ship keeps the invariant.
LEMMA CheckOwnershipInv ==
    ASSUME IInv, NEW o \in Orders, NEW u \in Users, CheckOwnership(o, u)
    PROVE  IInv'
<1>1. UNCHANGED <<cache, bbo, pc, holdVars, held, outbox, quoted, tradeVars, faults>>
  BY DEF CheckOwnership
<1>2. TypeOK'
  BY <1>1 DEF CheckOwnership, IInv, TypeOK, holdVars, tradeVars
<1>3. SeenCurrent'
  BY <1>1 DEF IInv, SeenCurrent, Enough, Watching, holdVars
<1>4. QED
  BY <1>2, <1>3 DEF IInv

\* What delete_order gives back, if it still finds the order.
Back(o) == IF o.side = "buy" THEN o.price * left[o] ELSE left[o]
\* What delete_order gives back is a natural number.
LEMMA BackIsNat ==
    ASSUME IInv, NEW o \in Orders
    PROVE  Back(o) \in Nat
<1>1. o.price \in Nat /\ left[o] \in Nat
  BY OrdersAssumption DEF IInv, TypeOK
<1>2. QED
  BY <1>1, Product DEF Back

\* delete_order keeps the invariant.
LEMMA DeleteOrderInv ==
    ASSUME IInv, NEW o \in Orders, DeleteOrder(o)
    PROVE  IInv'
<1>1. /\ left' = [left EXCEPT ![o] = 0] /\ deleting' = deleting \ {o}
      /\ UNCHANGED <<bbo, pc, seen, tries, unsure, held, outbox, quoted, tradeVars,
                     canceler, faults>>
  BY DEF DeleteOrder
<1>2. cache' \in [Accounts -> BalanceType] /\ SeenCurrent' /\ touched' \in [Orders -> BOOLEAN]
  <2>1. CASE left[o] > 0
    <3>1. /\ cache' = [cache EXCEPT ![Account(o)] =
                         Balance(@.available + Back(o), @.locked - Back(o))]
          /\ Touch({Account(o)})
      BY <2>1 DEF DeleteOrder, Back
    <3>2. /\ cache' \in [Accounts -> BalanceType]
          /\ \A b \in Accounts \ {Account(o)} : cache'[b] = cache[b]
      BY <3>1, BackIsNat, GivenBack
    <3>3. QED
      BY <1>1, <3>1, <3>2, TouchNone, AccountOfOrder
  <2>2. CASE ~(left[o] > 0)
    <3>1. UNCHANGED <<cache, touched>>
      BY <2>2 DEF DeleteOrder
    <3>2. QED
      BY <1>1, <3>1 DEF IInv, TypeOK, SeenCurrent, Enough, Watching, BalanceType
  <2>3. QED
    BY <2>1, <2>2
<1>3. TypeOK'
  BY <1>1, <1>2 DEF IInv, TypeOK, BalanceType, tradeVars
<1>4. QED
  BY <1>2, <1>3 DEF IInv

\* Every step keeps the invariant.
LEMMA NextInv == IInv /\ [Next]_vars => IInv'
<1> SUFFICES ASSUME IInv, [Next]_vars PROVE IInv'
  OBVIOUS
<1>1. ASSUME NEW o \in Orders, HaveFunds(o) PROVE IInv'
  BY <1>1, WatchInv, ReadAvailableInv, ReadLockedInv, ReadPriceInv, ExecuteInv,
     ConflictInv, LoseReplyInv, RollbackInv, RollbackFailsInv DEF HaveFunds
<1>2. ASSUME NEW o \in Orders, PlaceOrder(o) PROVE IInv'
  BY <1>2, SubmitInv, PublishInv, RouteFailsInv DEF PlaceOrder
<1>3. ASSUME NEW o \in Orders, DeleteOrder(o) PROVE IInv'
  BY <1>3, DeleteOrderInv
<1>4. ASSUME NEW o \in Orders, NEW u \in Users, CheckOwnership(o, u) PROVE IInv'
  BY <1>4, CheckOwnershipInv
<1>5. ASSUME NEW entry \in stream, Settle(entry) PROVE IInv'
  BY <1>5, SettleInv
<1>6. CASE Crash \/ Reset
  BY <1>6, CrashInv, ResetInv
<1>7. CASE UNCHANGED vars
  BY <1>7 DEF vars, holdVars, bookVars, tradeVars, cancelVars, IInv, TypeOK,
              SeenCurrent, Enough, Watching
<1>8. QED
  BY <1>1, <1>2, <1>3, <1>4, <1>5, <1>6, <1>7 DEF Next

\* The API's fields keep their types, and whatever users, requests, settlements
\* and faults there are, the cache never lets a user spend less than nothing.
THEOREM TypeCorrect == Spec => []TypeOK
<1>1. IInv => TypeOK
  BY DEF IInv
<1>2. QED
  BY <1>1, InitInv, NextInv, PTL DEF Spec

(***************************************************************************)
(* The refinement: every step reserves, frees, or leaves the balances.     *)
(***************************************************************************)
LEMMA Reserves ==
    ASSUME IInv, NEW o \in Orders, pc[o] = "exec", Unbroken(o), Place(o)
    PROVE  Balances!Next
<1> DEFINE a == Account(o)  total == Total(o, seen[o].price)
           available == [b \in Accounts |-> cache[b].available]
           locked == [b \in Accounts |-> cache[b].locked]
<1>1. /\ total \in Nat /\ total =< cache[a].available
      /\ cache' = [cache EXCEPT ![a] = Balance(cache[a].available - total,
                                              cache[a].locked + total)]
  BY Placed
<1>2. /\ a \in Accounts /\ cache \in [Accounts -> BalanceType]
      /\ cache[a].available \in Nat /\ cache[a].locked \in Int
  BY AccountOfOrder DEF IInv, TypeOK, BalanceType
<1> HIDE DEF a, total
<1>3. /\ cache'[a].available = cache[a].available - total
      /\ cache'[a].locked = cache[a].locked + total
      /\ \A b \in Accounts \ {a} : cache'[b] = cache[b]
  BY <1>1, <1>2 DEF Balance, BalanceType
<1>4. available' = [available EXCEPT ![a] = @ - total]
  BY <1>2, <1>3
<1>5. locked' = [locked EXCEPT ![a] = @ + total]
  BY <1>2, <1>3
<1>6. available[a] - available'[a] = total /\ total =< available[a]
  BY <1>1, <1>2, <1>3
<1> DEFINE d == available[a] - available'[a]
<1>7. /\ d \in Nat /\ d =< available[a]
      /\ available' = [available EXCEPT ![a] = @ - d]
      /\ locked' = [locked EXCEPT ![a] = @ + d]
  <2> HIDE DEF available, locked
  <2>1. d = total
    BY <1>6
  <2> HIDE DEF d
  <2>2. QED
    BY <1>1, <1>4, <1>5, <1>6, <2>1
<1>8. \E b \in Accounts :
         /\ 0 =< available[b] - available'[b]
         /\ available[b] - available'[b] =< available[b]
         /\ available' = [available EXCEPT ![b] = @ - (available[b] - available'[b])]
         /\ locked' = [locked EXCEPT ![b] = @ + (available[b] - available'[b])]
  <2> HIDE DEF available, locked
  <2>1. 0 =< d /\ d =< available[a]
    BY <1>7
  <2>2. a \in Accounts
    BY <1>2
  <2>3. WITNESS a \in Accounts
  <2>4. QED
    BY <1>7, <2>1
<1>9. QED
  BY <1>8 DEF Balances!Next, Balances!Reserve

\* Whatever takes nothing from available and adds nothing to locked, frees.
LEMMA Frees ==
    ASSUME \A a \in Accounts : /\ cache'[a].available >= cache[a].available
                              /\ cache'[a].locked =< cache[a].locked
    PROVE  Balances!Next
  BY DEF Balances!Next, Balances!Free

\* Rollback and delete_order free.
LEMMA GivesBack ==
    ASSUME IInv, NEW o \in Orders, NEW n \in Nat,
           cache' = [cache EXCEPT ![Account(o)] = Balance(@.available + n, @.locked - n)]
    PROVE  Balances!Next
<1> DEFINE a == Account(o)
<1>1. a \in Accounts /\ cache \in [Accounts -> BalanceType]
  BY AccountOfOrder DEF IInv, TypeOK, BalanceType
<1>2. ASSUME NEW b \in Accounts
      PROVE  /\ cache'[b].available >= cache[b].available
             /\ cache'[b].locked =< cache[b].locked
  <2>1. cache[b].available \in Nat /\ cache[b].locked \in Int
    BY <1>1 DEF BalanceType
  <2>2. CASE b = a
    <3>1. cache'[b] = Balance(cache[b].available + n, cache[b].locked - n)
      BY <1>1, <2>2
    <3>2. QED
      BY <2>1, <3>1 DEF Balance
  <2>3. CASE b # a
    BY <1>1, <2>1, <2>3
  <2>4. QED
    BY <2>2, <2>3
<1>3. QED
  BY <1>2, Frees

\* Every step of the API is a reservation, a release or a stutter.
LEMMA StepReserves == IInv /\ [Next]_vars => [Balances!Next]_(Balances!balances)
<1> SUFFICES ASSUME IInv, [Next]_vars PROVE Balances!Next \/ UNCHANGED cache
  BY DEF Balances!balances
<1>1. ASSUME NEW o \in Orders, HaveFunds(o) PROVE Balances!Next \/ UNCHANGED cache
  <2>1. CASE Execute(o)
    BY <2>1, Reserves DEF Execute
  <2>2. CASE LoseReply(o)
    BY <2>2, Reserves DEF LoseReply
  <2>3. CASE Rollback(o) \/ RollbackTwice(o)
    <3>1. held[o] \in Nat /\ held[o] + held[o] \in Nat
      BY DEF IInv, TypeOK
    <3>2. QED
      BY <2>3, <3>1, GivesBack DEF Rollback, RollbackTwice, GiveBack
  <2>4. QED
    BY <1>1, <2>1, <2>2, <2>3
       DEF HaveFunds, Watch, ReadAvailable, ReadLocked, ReadPrice, Conflict, RollbackFails
<1>2. ASSUME NEW o \in Orders, PlaceOrder(o) PROVE UNCHANGED cache
  BY <1>2 DEF PlaceOrder, Submit, Publish, RouteFails
<1>3. ASSUME NEW o \in Orders, DeleteOrder(o) PROVE Balances!Next \/ UNCHANGED cache
  <2>1. CASE left[o] > 0
    BY <1>3, <2>1, BackIsNat, GivesBack DEF DeleteOrder, Back
  <2>2. CASE ~(left[o] > 0)
    BY <1>3, <2>2 DEF DeleteOrder
  <2>3. QED
    BY <2>1, <2>2
<1>4. ASSUME NEW o \in Orders, NEW u \in Users, CheckOwnership(o, u)
      PROVE  UNCHANGED cache
  BY <1>4 DEF CheckOwnership
<1>5. ASSUME NEW entry \in stream, Settle(entry) PROVE Balances!Next
  BY <1>5, SettleFrees, Frees
<1>6. CASE Crash \/ Reset
  BY <1>6 DEF Crash, Reset
<1>7. CASE UNCHANGED vars
  BY <1>7 DEF vars
<1>8. QED
  BY <1>1, <1>2, <1>3, <1>4, <1>5, <1>6, <1>7 DEF Next

\* The initial balances are initial states of the reservations.
LEMMA InitReserves == Init => Balances!Init
  BY NumbersAssumption DEF Init, Balances!Init, Accounts, Start, Balance

\* The optimistic transactions, retries, lost replies and rollbacks of any
\* number of requests, with settlements and cancellations in between, amount
\* to atomic reservations: no interleaving loses an update or overdraws.
THEOREM ReservationsImplemented == Spec => ImplementsReservations
  BY InitInv, NextInv, InitReserves, StepReserves, PTL
     DEF Spec, ImplementsReservations, Balances!Spec
=================================================================================
