---------------------------- MODULE OrderBookProofs ----------------------------
(***************************************************************************)
(* Theorems about the Python order book, for every set of orders, prices,  *)
(* sizes, budgets and clock steps.                                         *)
(***************************************************************************)
EXTENDS OrderBook, SumProofs

\* What the operations rely on besides the types: who holds the lock, what kind
\* of order is being processed, and that only orders submitted so far are in
\* the book.
Control ==
    /\ lock = "loop" <=> call \in {"limit", "market", "bbo"}
    /\ lock = "worker" <=> doomed # NoId
    /\ call \in {"limit", "market"} => taker \in Known /\ order[taker].type = call
    /\ active \cup canceled \cup killed \subseteq Known
    /\ doomed \in Known \cup {NoId} /\ taker \in Known \cup {NoId}
    /\ \A s \in Side : heap[s] \subseteq Known
    /\ call \in {"reset active", "reset canceled"} => \A s \in Side : heap[s] = {}

\* The bounds that the assumptions on the constants give.
LEMMA Ranges ==
    /\ \A p \in Prices \cup {0} : p \in Nat
    /\ \A f \in Funds \cup {NoCap} : f \in Nat \cup {NoCap}
    /\ \A n \in Lots : n \in Nat \ {0}
    /\ \A d \in Ticks : d \in Int
BY DataAssumption

\* The fields of an order.
LEMMA OrderFields ==
    ASSUME NEW o \in Order
    PROVE  /\ o.side \in Side /\ o.type \in {"limit", "market"}
           /\ o.price \in Nat /\ o.size \in Nat \ {0}
           /\ o.funds \in Nat \cup {NoCap} /\ o.stamp \in Int
BY Ranges DEF Order

\* An id that is known names an order.
LEMMA KnownIsOrder ==
    ASSUME TypeOK, NEW i \in Known
    PROVE  i \in Ids /\ order[i] \in Order
BY DEF TypeOK, Known

\* Stamping a new order keeps the types.
LEMMA NewOrderType ==
    ASSUME TypeOK, NEW i \in Ids, NEW tick \in Ticks, NEW o \in Order,
           NewOrder(i, o, tick)
    PROVE  /\ order' \in [Ids -> Order \cup {NoOrder}] /\ shares' \in [Ids -> Nat]
           /\ placed' \in Seq(Ids) /\ trades' \in Seq(Trade) /\ taker' \in Ids
<1>1. Clock \in Int
  <2>1. CASE taker = NoId
    BY <2>1 DEF Clock
  <2>2. CASE taker \in Ids /\ order[taker] \in Order
    BY <2>2, IdsAssumption, OrderFields DEF Clock
  <2>3. CASE taker \in Ids /\ order[taker] = NoOrder
    BY <2>3, IdsAssumption DEF Clock, NoOrder
  <2>4. QED
    BY <2>1, <2>2, <2>3 DEF TypeOK
<1>2. Clock + tick \in Int
  BY <1>1, Ranges
<1>3. [o EXCEPT !.stamp = Clock + tick] \in Order
  BY <1>2 DEF Order
<1>4. order' \in [Ids -> Order \cup {NoOrder}]
  BY <1>3 DEF TypeOK, NewOrder
<1>5. shares' \in [Ids -> Nat]
  BY OrderFields DEF TypeOK, NewOrder
<1>6. placed' \in Seq(Ids)
  <2>1. placed \in Seq(Ids)
    BY DEF TypeOK
  <2>2. placed' = Append(placed, i)
    BY DEF NewOrder
  <2>3. QED
    BY <2>1, <2>2
<1>7. trades' \in Seq(Trade) /\ taker' \in Ids
  BY DEF NewOrder
<1>8. QED
  BY <1>4, <1>5, <1>6, <1>7

\* What a trade does to the book, to the index and to the list of trades.
LEMMA CrossEffect ==
    ASSUME TypeOK, NEW b \in Ids, NEW a \in Ids, b # a,
           NEW settled \in Nat, NEW locked \in Nat,
           Cross(b, a, Least(shares[b], shares[a]), settled, locked)
    PROVE  /\ shares' \in [Ids -> Nat] /\ heap' \in [Side -> SUBSET Ids]
           /\ active' \subseteq active /\ trades' \in Seq(Trade)
           /\ \A s \in Side : heap'[s] \subseteq heap[s]
           /\ \A i \in Ids \ {b, a} : shares'[i] = shares[i]
           /\ \A i \in Ids : \A s \in Side :
                 i \in heap'[s] <=> i \in heap[s] /\ (i \notin {b, a} \/ shares'[i] > 0)
           /\ \A i \in Ids :
                 i \in active' <=> i \in active /\ (i \notin {b, a} \/ shares'[i] > 0)
<1> DEFINE q == Least(shares[b], shares[a])
<1>1. shares[b] \in Nat /\ shares[a] \in Nat /\ shares \in [Ids -> Nat]
  BY DEF TypeOK
<1>2. q \in Nat /\ shares[b] - q \in Nat /\ shares[a] - q \in Nat
  BY <1>1 DEF Least
<1>3. shares' = [shares EXCEPT ![b] = @ - q, ![a] = @ - q]
  BY DEF Cross
<1>4. shares' \in [Ids -> Nat] /\ \A i \in Ids \ {b, a} : shares'[i] = shares[i]
  BY <1>1, <1>2, <1>3
<1>5. heap' = [s \in Side |-> {i \in heap[s] : i \notin {b, a} \/ shares'[i] > 0}]
      /\ active' = {i \in active : i \notin {b, a} \/ shares'[i] > 0}
  BY DEF Cross
<1>6. heap \in [Side -> SUBSET Ids] /\ trades \in Seq(Trade) /\ active \subseteq Ids
  BY DEF TypeOK
<1>7. trades' \in Seq(Trade)
  <2> DEFINE t == [buyer |-> b, seller |-> a, quantity |-> q,
                   settled |-> settled, locked |-> locked]
  <2>1. t \in Trade
    BY <1>2 DEF Trade
  <2>2. trades' = Append(trades, t)
    BY DEF Cross
  <2> HIDE DEF t
  <2>3. QED
    BY <1>6, <2>1, <2>2
<1>8. QED
  BY <1>4, <1>5, <1>6, <1>7

IInv == TypeOK /\ Control /\ IndexAgrees

\* The initial states satisfy the invariant.
LEMMA InitIInv == Init => IInv
<1> SUFFICES ASSUME Init PROVE IInv
  OBVIOUS
<1>1. TypeOK
  BY DEF Init, TypeOK, NoId, Side, Trade
<1>2. Control
  BY DEF Init, Control, Side, NoId
<1>3. IndexAgrees
  BY DEF Init, IndexAgrees, Side
<1>4. QED
  BY <1>1, <1>2, <1>3 DEF IInv

\* Popping a tombstone keeps heaps and index in agreement.
LEMMA PopIInv ==
    ASSUME IInv, NEW i \in Ids, NEW s \in Side,
           i \in heap[s] \cap canceled, PopTombstone(i, s), lock = "loop"
    PROVE  IInv'
<1> USE DEF IInv, PopTombstone
<1>1. doomed = NoId
  BY DEF Control
<1>2. heap' \in [Side -> SUBSET Ids] /\ \A t \in Side : heap'[t] \subseteq heap[t]
  BY DEF TypeOK
<1>3. TypeOK'
  BY <1>2 DEF TypeOK
<1>4. Known' = Known
  BY DEF Known
<1>5. Control'
  BY <1>2, <1>4 DEF Control
<1>6. IndexAgrees'
  <2>1. i \notin active /\ active' = active /\ call' = call /\ doomed' = doomed
    BY DEF IndexAgrees
  <2>2. ASSUME NEW t \in Side PROVE i \notin heap'[t]
    <3>1. t # s => i \notin heap[t]
      <4>1. order[i].side = s /\ (i \in heap[t] => order[i].side = t)
        BY DEF IndexAgrees
      <4> QED
        BY <4>1
    <3>2. heap'[t] = IF t = s THEN heap[t] \ {i} ELSE heap[t]
      BY DEF TypeOK
    <3>3. QED
      BY <3>1, <3>2
  <2>3. \A t \in Side : \A j \in heap[t] \ {i} : j \in heap'[t]
    BY DEF TypeOK
  <2>4. active \subseteq Ids /\ order' = order /\ shares' = shares
    BY DEF TypeOK
  <2>5. ASSUME NEW t \in Side, NEW j \in heap'[t]
        PROVE  /\ order'[j].side = t /\ order'[j].type = "limit" /\ shares'[j] > 0
               /\ j \in active' <=> j \notin canceled' /\ j # doomed'
    <3>1. j \in heap[t] /\ j # i
      BY <1>2, <2>2
    <3>2. QED
      BY <2>1, <2>4, <3>1 DEF IndexAgrees
  <2>6. canceled' \cap active' = {} /\ doomed' \notin active' \cup canceled'
    <3>1. canceled \cap active = {} /\ doomed \notin active \cup canceled
      BY DEF IndexAgrees
    <3>2. canceled' = canceled \ {i}
      OBVIOUS
    <3>3. QED
      BY <2>1, <3>1, <3>2
  <2>7. call' # "reset active" => active' \subseteq heap'["buy"] \cup heap'["sell"]
    BY <2>1, <2>3 DEF IndexAgrees, Side
  <2>8. QED
    BY <2>5, <2>6, <2>7 DEF IndexAgrees
<1>7. QED
  BY <1>3, <1>5, <1>6

\* So does a trade, which drops used-up orders from both.
LEMMA CrossIInv ==
    ASSUME IInv, NEW b \in Ids, NEW a \in Ids, b # a,
           NEW settled \in Nat, NEW locked \in Nat,
           Cross(b, a, Least(shares[b], shares[a]), settled, locked),
           UNCHANGED <<canceled, order, killed, lock, call, doomed, taker, bbo, placed>>,
           spent' \in Nat
    PROVE  IInv'
<1> DEFINE Kept(i) == i \notin {b, a} \/ shares'[i] > 0
<1>1. TypeOK
  BY DEF IInv
<1>2. /\ shares' \in [Ids -> Nat] /\ heap' \in [Side -> SUBSET Ids]
      /\ active' \subseteq active /\ trades' \in Seq(Trade)
      /\ \A s \in Side : heap'[s] \subseteq heap[s]
      /\ \A i \in Ids \ {b, a} : shares'[i] = shares[i]
      /\ \A i \in Ids : \A s \in Side : i \in heap'[s] <=> i \in heap[s] /\ Kept(i)
      /\ \A i \in Ids : i \in active' <=> i \in active /\ Kept(i)
  BY <1>1, CrossEffect
<1> HIDE DEF Kept
<1>3. TypeOK'
  BY <1>1, <1>2 DEF TypeOK
<1>4. Known' = Known
  BY DEF Known
<1>5. Control'
  BY <1>2, <1>4 DEF Control, IInv
<1>6. IndexAgrees'
  <2>1. ASSUME NEW s \in Side, NEW i \in heap'[s]
        PROVE  /\ order'[i].side = s /\ order'[i].type = "limit" /\ shares'[i] > 0
               /\ i \in active' <=> i \notin canceled' /\ i # doomed'
    <3>1. i \in Ids /\ i \in heap[s] /\ Kept(i)
      BY <1>1, <1>2 DEF TypeOK
    <3>2. /\ order[i].side = s /\ order[i].type = "limit" /\ shares[i] > 0
          /\ i \in active <=> i \notin canceled /\ i # doomed
      BY <3>1 DEF IInv, IndexAgrees
    <3>3. shares'[i] > 0
      BY <1>2, <3>1, <3>2 DEF Kept
    <3>4. i \in active' <=> i \in active
      BY <1>2, <3>1
    <3>5. QED
      BY <3>2, <3>3, <3>4
  <2>2. canceled' \cap active' = {} /\ doomed' \notin active' \cup canceled'
    <3>1. canceled \cap active = {} /\ doomed \notin active \cup canceled
      BY DEF IndexAgrees, IInv
    <3>2. QED
      BY <1>2, <3>1
  <2>3. call' # "reset active" => active' \subseteq heap'["buy"] \cup heap'["sell"]
    <3>1. call # "reset active" => active \subseteq heap["buy"] \cup heap["sell"]
      BY DEF IndexAgrees, IInv
    <3>2. active \subseteq Ids
      BY <1>1 DEF TypeOK
    <3>3. QED
      BY <1>2, <3>1, <3>2 DEF Side
  <2>4. QED
    BY <2>1, <2>2, <2>3 DEF IndexAgrees
<1>7. QED
  BY <1>3, <1>5, <1>6 DEF IInv

\* A new order is known from then on and changes nothing about the others.
LEMMA NewOrderEffect ==
    ASSUME TypeOK, NEW i \in Ids, NEW tick \in Ticks, NEW o \in Order,
           NewOrder(i, o, tick)
    PROVE  /\ Known' = Known \cup {i} /\ i \notin Known /\ taker' = i
           /\ \A j \in Ids \ {i} : order'[j] = order[j] /\ shares'[j] = shares[j]
           /\ order'[i].side = o.side /\ order'[i].type = o.type /\ shares'[i] > 0
<1>1. /\ i \notin Known /\ taker' = i
      /\ order' = [order EXCEPT ![i] = [o EXCEPT !.stamp = Clock + tick]]
      /\ shares' = [shares EXCEPT ![i] = o.size]
  BY DEF NewOrder
<1>2. order \in [Ids -> Order \cup {NoOrder}] /\ shares \in [Ids -> Nat]
  BY DEF TypeOK
<1>3. \A j \in Ids \ {i} : order'[j] = order[j] /\ shares'[j] = shares[j]
  BY <1>1, <1>2
<1>4. order'[i].side = o.side /\ order'[i].type = o.type /\ o.side \in Side
  BY <1>1, <1>2, OrderFields DEF Order
<1>5. shares'[i] > 0
  BY <1>1, <1>2, OrderFields
<1>6. order'[i] # NoOrder
  BY <1>4 DEF NoOrder, Side
<1>7. Known' = Known \cup {i}
  BY <1>3, <1>6 DEF Known
<1>8. QED
  BY <1>1, <1>3, <1>4, <1>5, <1>7

\* What SubmitLimit stamps is an order ...
LEMMA LimitOrderIsOrder ==
    ASSUME NEW s \in Side, NEW p \in Prices, NEW n \in Lots
    PROVE  [side |-> s, type |-> "limit", price |-> p, size |-> n,
            funds |-> NoCap, stamp |-> 0] \in Order
BY DEF Order

\* ... and so is what SubmitMarket stamps.
LEMMA MarketOrderIsOrder ==
    ASSUME NEW s \in Side, NEW n \in Lots, NEW f \in Funds \cup {NoCap}
    PROVE  [side |-> s, type |-> "market", price |-> 0, size |-> n,
            funds |-> f, stamp |-> 0] \in Order
BY DEF Order

\* A limit order enters its heap and the index together.
LEMMA SubmitLimitIInv ==
    ASSUME IInv, NEW i \in Ids, NEW s \in Side, NEW p \in Prices, NEW n \in Lots,
           NEW d \in Ticks, SubmitLimit(i, s, p, n, d)
    PROVE  IInv'
<1> DEFINE o == [side |-> s, type |-> "limit", price |-> p, size |-> n,
                 funds |-> NoCap, stamp |-> 0]
<1>1. o \in Order /\ o.side = s /\ o.type = "limit"
  BY LimitOrderIsOrder
<1>2. NewOrder(i, o, d)
  BY DEF SubmitLimit
<1> HIDE DEF o
<1>3. TypeOK /\ Control /\ IndexAgrees
  BY DEF IInv
<1>4. /\ order' \in [Ids -> Order \cup {NoOrder}] /\ shares' \in [Ids -> Nat]
      /\ placed' \in Seq(Ids) /\ trades' \in Seq(Trade) /\ taker' \in Ids
  BY <1>1, <1>2, <1>3, NewOrderType
<1>5. /\ Known' = Known \cup {i} /\ i \notin Known /\ taker' = i
      /\ \A j \in Ids \ {i} : order'[j] = order[j] /\ shares'[j] = shares[j]
      /\ order'[i].side = s /\ order'[i].type = "limit" /\ shares'[i] > 0
  BY <1>1, <1>2, <1>3, NewOrderEffect
<1>6. /\ heap' = [heap EXCEPT ![s] = @ \cup {i}] /\ active' = active \cup {i}
      /\ call = "none" /\ lock = "free" /\ call' = "limit" /\ lock' = "loop"
      /\ UNCHANGED <<canceled, killed, doomed, spent, bbo>>
  BY DEF SubmitLimit, Enter
<1>7. /\ heap \in [Side -> SUBSET Ids] /\ active \subseteq Ids /\ canceled \subseteq Ids
      /\ killed \subseteq Ids /\ doomed \in Ids \cup {NoId}
      /\ spent \in Nat /\ bbo \in [Side -> Nat]
  BY <1>3 DEF TypeOK
<1>8. heap' \in [Side -> SUBSET Ids]
      /\ \A t \in Side : heap'[t] = IF t = s THEN heap[t] \cup {i} ELSE heap[t]
  BY <1>6, <1>7
<1>9. TypeOK'
  BY <1>4, <1>6, <1>7, <1>8 DEF TypeOK
<1>10. doomed = NoId /\ i # NoId
  BY <1>3, <1>6, IdsAssumption DEF Control
<1>11. Control'
  BY <1>3, <1>5, <1>6, <1>8, <1>10 DEF Control
<1>12. i \notin active /\ i \notin canceled /\ \A t \in Side : i \notin heap[t]
  BY <1>3, <1>5 DEF Control
<1>13. IndexAgrees'
  <2>1. ASSUME NEW t \in Side, NEW j \in heap'[t]
        PROVE  /\ order'[j].side = t /\ order'[j].type = "limit" /\ shares'[j] > 0
               /\ j \in active' <=> j \notin canceled' /\ j # doomed'
    <3>1. CASE j = i
      BY <1>5, <1>6, <1>8, <1>10, <1>12, <3>1
    <3>2. CASE j # i
      <4>1. j \in heap[t] /\ j \in Ids
        BY <1>7, <1>8, <3>2
      <4>2. /\ order[j].side = t /\ order[j].type = "limit" /\ shares[j] > 0
            /\ j \in active <=> j \notin canceled /\ j # doomed
        BY <1>3, <4>1 DEF IndexAgrees
      <4>3. QED
        BY <1>5, <1>6, <3>2, <4>1, <4>2
    <3>3. QED
      BY <3>1, <3>2
  <2>2. canceled' \cap active' = {} /\ doomed' \notin active' \cup canceled'
    <3>1. canceled \cap active = {} /\ doomed \notin active \cup canceled
      BY <1>3 DEF IndexAgrees
    <3>2. QED
      BY <1>6, <1>10, <1>12, <3>1
  <2>3. active' \subseteq heap'["buy"] \cup heap'["sell"]
    <3>1. active \subseteq heap["buy"] \cup heap["sell"]
      BY <1>3, <1>6 DEF IndexAgrees
    <3>2. QED
      BY <1>6, <1>8, <3>1 DEF Side
  <2>4. QED
    BY <2>1, <2>2, <2>3 DEF IndexAgrees
<1>14. QED
  BY <1>9, <1>11, <1>13 DEF IInv

\* A market order enters neither.
LEMMA SubmitMarketIInv ==
    ASSUME IInv, NEW i \in Ids, NEW s \in Side, NEW n \in Lots,
           NEW f \in Funds \cup {NoCap}, NEW d \in Ticks, SubmitMarket(i, s, n, f, d)
    PROVE  IInv'
<1> DEFINE o == [side |-> s, type |-> "market", price |-> 0, size |-> n,
                 funds |-> f, stamp |-> 0]
<1>1. o \in Order /\ o.type = "market"
  BY MarketOrderIsOrder
<1>2. NewOrder(i, o, d)
  BY DEF SubmitMarket
<1> HIDE DEF o
<1>3. TypeOK /\ Control /\ IndexAgrees
  BY DEF IInv
<1>4. /\ order' \in [Ids -> Order \cup {NoOrder}] /\ shares' \in [Ids -> Nat]
      /\ placed' \in Seq(Ids) /\ trades' \in Seq(Trade) /\ taker' \in Ids
  BY <1>1, <1>2, <1>3, NewOrderType
<1>5. /\ Known' = Known \cup {i} /\ i \notin Known /\ taker' = i
      /\ \A j \in Ids \ {i} : order'[j] = order[j] /\ shares'[j] = shares[j]
      /\ order'[i].type = "market"
  BY <1>1, <1>2, <1>3, NewOrderEffect
<1>6. /\ call = "none" /\ lock = "free" /\ call' = "market" /\ lock' = "loop"
      /\ spent' = 0 /\ UNCHANGED <<heap, active, canceled, killed, doomed, bbo>>
  BY DEF SubmitMarket, Enter
<1>7. TypeOK'
  BY <1>3, <1>4, <1>6 DEF TypeOK
<1>8. Control'
  BY <1>3, <1>5, <1>6 DEF Control
<1>9. IndexAgrees'
  <2>1. ASSUME NEW t \in Side, NEW j \in heap[t]
        PROVE  order'[j] = order[j] /\ shares'[j] = shares[j]
    BY <1>3, <1>5 DEF Control, TypeOK
  <2>2. QED
    BY <1>3, <1>6, <2>1 DEF IndexAgrees
<1>10. QED
  BY <1>7, <1>8, <1>9 DEF IInv

\* The end of a loop keeps the invariant.
LEMMA DoneIInv ==
    ASSUME IInv, LimitDone \/ MarketDone \/ ReadBBO
    PROVE  IInv'
<1>1. UNCHANGED <<bookVars, order, killed, doomed, taker, spent, trades, bbo, placed>>
      /\ \/ call = "none" /\ lock = "free" /\ call' = "bbo" /\ lock' = "loop"
         \/ call \in {"limit", "market"} /\ call' = "none" /\ lock' = "free"
  BY DEF LimitDone, MarketDone, ReadBBO, Leave, Enter
<1>2. TypeOK'
  BY <1>1 DEF IInv, TypeOK, bookVars
<1>3. Known' = Known
  BY <1>1 DEF Known
<1>4. Control'
  BY <1>1, <1>3 DEF IInv, Control, bookVars
<1>5. IndexAgrees'
  BY <1>1 DEF IInv, IndexAgrees, bookVars
<1>6. QED
  BY <1>2, <1>4, <1>5 DEF IInv

\* Quoting keeps the invariant.
LEMMA BBODoneIInv ==
    ASSUME IInv, BBODone
    PROVE  IInv'
<1>1. /\ UNCHANGED <<bookVars, order, killed, doomed, taker, spent, trades, placed>>
      /\ call = "bbo" /\ call' = "none" /\ lock' = "free"
  BY DEF BBODone, Leave
<1>2. bbo' \in [Side -> Nat]
  <2>1. ASSUME NEW s \in Side, heap[s] # {}
        PROVE  order[CHOOSE i \in LiveTop(s) : TRUE].price \in Nat
    <3>1. LiveTop(s) # {}
      BY <2>1 DEF BBODone, Clean, Side
    <3>2. PICK i \in LiveTop(s) : i = CHOOSE j \in LiveTop(s) : TRUE
      BY <3>1
    <3>3. i \in Known
      BY <3>2 DEF LiveTop, IInv, Control
    <3>4. QED
      BY <3>2, <3>3, KnownIsOrder, OrderFields DEF IInv
  <2>2. bbo' = [s \in Side |-> IF heap[s] = {} THEN 0
                               ELSE order[CHOOSE i \in LiveTop(s) : TRUE].price]
    BY DEF BBODone
  <2>3. QED
    BY <2>1, <2>2
<1>3. TypeOK'
  BY <1>1, <1>2 DEF IInv, TypeOK, bookVars
<1>4. Known' = Known
  BY <1>1 DEF Known
<1>5. Control'
  BY <1>1, <1>4 DEF IInv, Control, bookVars
<1>6. IndexAgrees'
  BY <1>1 DEF IInv, IndexAgrees, bookVars
<1>7. QED
  BY <1>3, <1>5, <1>6 DEF IInv

\* The reset touches the heaps first: from then on no entry is left to disagree
\* with the index, whatever the index still holds.
LEMMA ResetIInv ==
    ASSUME IInv, ResetHeaps \/ ResetActive \/ ResetCanceled
    PROVE  IInv'
<1>1. Known' = Known
  BY DEF ResetHeaps, ResetActive, ResetCanceled, Known
<1>2. \A s \in Side : heap'[s] = {}
  BY DEF IInv, Control, ResetHeaps, ResetActive, ResetCanceled
<1>3. TypeOK'
  BY <1>2 DEF IInv, TypeOK, ResetHeaps, ResetActive, ResetCanceled
<1>4. Control'
  BY <1>1, <1>2 DEF IInv, Control, ResetHeaps, ResetActive, ResetCanceled
<1>5. canceled' \cap active' = {} /\ doomed' \notin active' \cup canceled'
  BY DEF IInv, IndexAgrees, ResetHeaps, ResetActive, ResetCanceled
<1>6. call' # "reset active" => active' = {}
  <2>1. ASSUME ResetCanceled PROVE active = {}
    BY <2>1, <1>2 DEF IInv, IndexAgrees, ResetCanceled, Side
  <2>2. QED
    BY <2>1 DEF ResetHeaps, ResetActive, ResetCanceled
<1>7. IndexAgrees'
  BY <1>2, <1>5, <1>6 DEF IndexAgrees
<1>8. QED
  BY <1>3, <1>4, <1>7 DEF IInv

\* A cancellation takes an order out of the index and names it as doomed ...
LEMMA CancelPopIInv ==
    ASSUME IInv, NEW i \in Ids, CancelPop(i)
    PROVE  IInv'
<1>1. TypeOK /\ Control /\ IndexAgrees
  BY DEF IInv
<1>2. /\ lock = "free" /\ lock' = "worker" /\ i \in active /\ active' = active \ {i}
      /\ doomed' = i /\ doomed = NoId /\ i # NoId /\ i \in Known /\ i \notin canceled
      /\ UNCHANGED <<heap, canceled, order, shares, killed, call, taker, spent,
                     trades, bbo, placed>>
  BY <1>1, IdsAssumption DEF CancelPop, Control, IndexAgrees
<1>3. TypeOK'
  BY <1>1, <1>2 DEF TypeOK
<1>4. Known' = Known
  BY <1>2 DEF Known
<1>5. Control'
  BY <1>1, <1>2, <1>4 DEF Control
<1>6. IndexAgrees'
  <2>1. ASSUME NEW s \in Side, NEW j \in heap'[s]
        PROVE  /\ order'[j].side = s /\ order'[j].type = "limit" /\ shares'[j] > 0
               /\ j \in active' <=> j \notin canceled' /\ j # doomed'
    <3>1. j \in heap[s] /\ j \in Known
      BY <1>1, <1>2 DEF Control
    <3>2. j # NoId
      BY <3>1, IdsAssumption DEF Known
    <3>3. /\ order[j].side = s /\ order[j].type = "limit" /\ shares[j] > 0
          /\ j \in active <=> j \notin canceled /\ j # doomed
      BY <1>1, <3>1 DEF IndexAgrees
    <3>4. QED
      BY <1>2, <3>2, <3>3
  <2>2. canceled' \cap active' = {} /\ doomed' \notin active' \cup canceled'
    BY <1>1, <1>2 DEF IndexAgrees
  <2>3. call' # "reset active" => active' \subseteq heap'["buy"] \cup heap'["sell"]
    BY <1>1, <1>2 DEF IndexAgrees
  <2>4. QED
    BY <2>1, <2>2, <2>3 DEF IndexAgrees
<1>7. QED
  BY <1>3, <1>5, <1>6 DEF IInv

\* ... and then makes it a tombstone.
LEMMA CancelMarkIInv ==
    ASSUME IInv, CancelMark
    PROVE  IInv'
<1>1. TypeOK /\ Control /\ IndexAgrees
  BY DEF IInv
<1>2. /\ lock = "worker" /\ lock' = "free" /\ doomed \in Known /\ doomed' = NoId
      /\ killed' = killed \cup {doomed} /\ canceled' = canceled \cup {doomed}
      /\ doomed # NoId /\ NoId \notin Known
      /\ UNCHANGED <<heap, active, order, shares, call, taker, spent, trades, bbo, placed>>
  BY <1>1, IdsAssumption DEF CancelMark, Control, Known
<1>3. TypeOK'
  BY <1>1, <1>2 DEF TypeOK, Known
<1>4. Known' = Known
  BY <1>2 DEF Known
<1>5. Control'
  BY <1>1, <1>2, <1>4 DEF Control
<1>6. IndexAgrees'
  <2>1. ASSUME NEW s \in Side, NEW j \in heap'[s]
        PROVE  /\ order'[j].side = s /\ order'[j].type = "limit" /\ shares'[j] > 0
               /\ j \in active' <=> j \notin canceled' /\ j # doomed'
    <3>1. j \in heap[s] /\ j \in Known
      BY <1>1, <1>2 DEF Control
    <3>2. /\ order[j].side = s /\ order[j].type = "limit" /\ shares[j] > 0
          /\ j \in active <=> j \notin canceled /\ j # doomed
      BY <1>1, <3>1 DEF IndexAgrees
    <3>3. QED
      BY <1>2, <3>1, <3>2
  <2>2. canceled' \cap active' = {} /\ doomed' \notin active' \cup canceled'
    <3>1. canceled \cap active = {} /\ doomed \notin active
      BY <1>1 DEF IndexAgrees
    <3>2. NoId \notin active /\ NoId \notin canceled
      BY <1>1, <1>2 DEF Control
    <3>3. QED
      BY <1>2, <3>1, <3>2
  <2>3. call' # "reset active" => active' \subseteq heap'["buy"] \cup heap'["sell"]
    BY <1>1, <1>2 DEF IndexAgrees
  <2>4. QED
    BY <2>1, <2>2, <2>3 DEF IndexAgrees
<1>7. QED
  BY <1>3, <1>5, <1>6 DEF IInv

\* The two orders of a trade of execute, and the resting order of a trade of
\* process_market_orders_ioc, can be filled: they are in a heap and in the index.
LEMMA LiveTopIsLive ==
    ASSUME IInv, NEW s \in Side, NEW i \in LiveTop(s), lock = "loop"
    PROVE  /\ i \in heap[s] /\ i \in active /\ i \in Known /\ i \in Ids
           /\ order[i].side = s /\ order[i].type = "limit" /\ order[i].price \in Nat
<1>1. i \in heap[s] /\ i \notin canceled
  BY DEF LiveTop
<1>2. i \in Known /\ doomed = NoId
  BY <1>1 DEF IInv, Control
<1>3. i \in Ids /\ i # NoId /\ order[i].price \in Nat
  BY <1>2, IdsAssumption, OrderFields DEF Known, IInv, TypeOK
<1>4. QED
  BY <1>1, <1>2, <1>3 DEF IInv, IndexAgrees

\* A trade of two limit orders keeps the invariant.
LEMMA LimitMatchIInv ==
    ASSUME IInv, NEW b \in Ids, NEW a \in Ids, LimitMatch(b, a)
    PROVE  IInv'
<1>1. /\ b \in LiveTop("buy") /\ a \in LiveTop("sell")
      /\ UNCHANGED <<canceled, order, killed, lock, call, doomed, taker, spent, bbo, placed>>
  BY DEF LimitMatch
<1>2. lock = "loop"
  BY DEF LimitMatch, IInv, Control
<1>3. /\ order[b].price \in Nat /\ order[a].price \in Nat
      /\ order[b].side = "buy" /\ order[a].side = "sell"
  BY <1>1, <1>2, LiveTopIsLive DEF Side
<1>4. b # a
  BY <1>3
<1>5. spent' \in Nat
  BY <1>1 DEF IInv, TypeOK
<1>6. PICK settled \in Nat, locked \in Nat :
         Cross(b, a, Least(shares[b], shares[a]), settled, locked)
  BY <1>3 DEF LimitMatch, SettledPrice
<1>7. QED
  BY <1>1, <1>4, <1>5, <1>6, CrossIInv

\* The cost of a market trade is a natural number.
LEMMA CostIsNat ==
    ASSUME IInv, NEW r \in Known, taker \in Known
    PROVE  Cost(r) \in Nat
<1>1. shares[taker] \in Nat /\ shares[r] \in Nat /\ order[r].price \in Nat
  BY KnownIsOrder, OrderFields DEF IInv, TypeOK
<1> DEFINE q == Least(shares[taker], shares[r])
<1>2. q \in Nat
  BY <1>1 DEF Least
<1> HIDE DEF q
<1>3. q * order[r].price \in Nat
  BY <1>1, <1>2
<1> DEFINE c == q * order[r].price
<1>4. c \in Nat
  BY <1>3
<1> HIDE DEF c
<1>5. c \div PM \in Nat
  BY <1>4, DataAssumption
<1>6. QED
  BY <1>5 DEF Cost, c, q

\* A trade of a market order keeps the invariant.
LEMMA MarketMatchIInv ==
    ASSUME IInv, NEW r \in Ids, MarketMatch(r)
    PROVE  IInv'
<1>1. /\ r \in LiveTop(Target) /\ call = "market"
      /\ UNCHANGED <<canceled, order, killed, lock, call, doomed, taker, bbo, placed>>
  BY DEF MarketMatch
<1>2. lock = "loop" /\ taker \in Known /\ order[taker].type = "market" /\ taker \in Ids
  BY <1>1 DEF IInv, Control, Known
<1>3. Target \in Side
  BY DEF Target, Other, Side
<1>4. order[r].price \in Nat /\ r \in Known /\ r # taker
  BY <1>1, <1>2, <1>3, LiveTopIsLive
<1>5. spent' \in Nat
  BY <1>2, <1>4, CostIsNat DEF MarketMatch, IInv, TypeOK
<1>6. Least(shares[taker], shares[r]) = Least(shares[r], shares[taker])
  <2>1. shares[taker] \in Nat /\ shares[r] \in Nat
    BY <1>2 DEF IInv, TypeOK
  <2>2. QED
    BY <2>1 DEF Least
<1>7. \/ Cross(taker, r, Least(shares[taker], shares[r]), order[r].price, 0)
      \/ Cross(r, taker, Least(shares[r], shares[taker]), order[r].price, 0)
  BY <1>6 DEF MarketMatch
<1>8. QED
  BY <1>1, <1>2, <1>4, <1>5, <1>7, CrossIInv

\* Every step keeps the invariant.
LEMMA NextIInv == IInv /\ [Next]_vars => IInv'
<1> SUFFICES ASSUME IInv, [Next]_vars PROVE IInv'
  OBVIOUS
<1>1. ASSUME NEW i \in Ids, NEW s \in Side, NEW n \in Lots, NEW d \in Ticks,
             NEW p \in Prices, SubmitLimit(i, s, p, n, d)
      PROVE  IInv'
  BY <1>1, SubmitLimitIInv
<1>2. ASSUME NEW i \in Ids, NEW s \in Side, NEW n \in Lots, NEW d \in Ticks,
             NEW f \in IF s = "buy" THEN Funds ELSE {NoCap}, SubmitMarket(i, s, n, f, d)
      PROVE  IInv'
  <2>1. f \in Funds \cup {NoCap}
    OBVIOUS
  <2>2. QED
    BY <1>2, <2>1, SubmitMarketIInv
<1>3. ASSUME ReadBBO \/ LimitDone \/ MarketDone PROVE IInv'
  BY <1>3, DoneIInv
<1>4. ASSUME ResetHeaps \/ ResetActive \/ ResetCanceled PROVE IInv'
  BY <1>4, ResetIInv
<1>5. ASSUME NEW i \in Ids, CancelPop(i) PROVE IInv'
  BY <1>5, CancelPopIInv
<1>6. ASSUME CancelMark PROVE IInv'
  BY <1>6, CancelMarkIInv
<1>7. ASSUME NEW b \in Ids, NEW a \in Ids, LimitSkip(b, a) PROVE IInv'
  <2>1. lock = "loop"
    BY <1>7 DEF LimitSkip, IInv, Control
  <2>2. QED
    BY <1>7, <2>1, PopIInv DEF LimitSkip, IsTop, Side
<1>8. ASSUME NEW b \in Ids, NEW a \in Ids, LimitMatch(b, a) PROVE IInv'
  BY <1>8, LimitMatchIInv
<1>9. ASSUME NEW r \in Ids, MarketSkip(r) PROVE IInv'
  <2>1. lock = "loop" /\ Target \in Side
    BY <1>9 DEF MarketSkip, IInv, Control, Target, Other, Side
  <2>2. QED
    BY <1>9, <2>1, PopIInv DEF MarketSkip, IsTop
<1>10. ASSUME NEW r \in Ids, MarketMatch(r) PROVE IInv'
  BY <1>10, MarketMatchIInv
<1>11. ASSUME NEW i \in Ids, NEW s \in Side, BBOSkip(i, s) PROVE IInv'
  <2>1. lock = "loop"
    BY <1>11 DEF BBOSkip, IInv, Control
  <2>2. QED
    BY <1>11, <2>1, PopIInv DEF BBOSkip, IsTop
<1>12. ASSUME BBODone PROVE IInv'
  BY <1>12, BBODoneIInv
<1>13. ASSUME UNCHANGED vars PROVE IInv'
  <2>1. TypeOK' /\ Known' = Known
    BY <1>13 DEF vars, IInv, TypeOK, Known
  <2>2. Control'
    BY <1>13, <2>1 DEF vars, IInv, Control
  <2>3. IndexAgrees'
    BY <1>13 DEF vars, IInv, IndexAgrees
  <2>4. QED
    BY <2>1, <2>2, <2>3 DEF IInv
<1>14. QED
  BY <1>1, <1>2, <1>3, <1>4, <1>5, <1>6, <1>7, <1>8, <1>9, <1>10, <1>11, <1>12, <1>13
     DEF Next, LoopStep

\* The invariant holds in every reachable state.
LEMMA Invariance == Spec => []IInv
BY InitIInv, NextIInv, PTL DEF Spec

\* The engine's fields keep their types, for every number of orders.
THEOREM TypeCorrect == Spec => []TypeOK
<1>1. IInv => TypeOK
  BY DEF IInv
<1>2. QED
  BY <1>1, Invariance, PTL

\* Heaps and index agree in every reachable state: what can still be filled can
\* be canceled and the other way round, with workers canceling between any two
\* operations and in the middle of a reset.
THEOREM IndexCorrect == Spec => []IndexAgrees
<1>1. IInv => IndexAgrees
  BY DEF IInv
<1>2. QED
  BY <1>1, Invariance, PTL

(***************************************************************************)
(* The book is uncrossed.  While execute runs, only the order just         *)
(* submitted may cross the other side: no cancellation can slip in between *)
(* and every pair of resting orders was uncrossed before.                  *)
(***************************************************************************)
CrossInv ==
    \A b \in Live("buy"), a \in Live("sell") :
       \/ call = "limit" /\ taker \in {b, a}
       \/ order[b].price < order[a].price

\* Fewer live orders cannot make the book crossed.
LEMMA ShrinkKeepsCrossInv ==
    ASSUME CrossInv,
           \A s \in Side : Live(s)' \subseteq Live(s),
           \A s \in Side : \A i \in Live(s)' : order'[i] = order[i],
           (call' = call /\ taker' = taker) \/ call # "limit"
    PROVE  CrossInv'
BY DEF CrossInv, Side

\* A trade only takes orders away ...
LEMMA MatchShrinks ==
    ASSUME IInv, NEW b \in Ids, NEW a \in Ids, LimitMatch(b, a) \/ MarketMatch(b)
    PROVE  \A s \in Side : Live(s)' \subseteq Live(s)
<1>1. \A s \in Side : heap'[s] \subseteq heap[s]
  BY DEF LimitMatch, MarketMatch, Cross
<1>2. active' \subseteq active
  BY DEF LimitMatch, MarketMatch, Cross
<1>3. QED
  BY <1>1, <1>2 DEF Live

\* ... and so does popping a tombstone.
LEMMA PopShrinks ==
    ASSUME IInv, NEW i \in Ids, NEW t \in Side, PopTombstone(i, t)
    PROVE  /\ \A s \in Side : Live(s)' \subseteq Live(s)
           /\ order' = order /\ call' = call /\ taker' = taker
BY DEF IInv, TypeOK, PopTombstone, Live

\* A new limit order crosses as the taker only.
LEMMA SubmitLimitCrossInv ==
    ASSUME IInv, CrossInv, NEW i \in Ids, NEW s \in Side, NEW p \in Prices,
           NEW n \in Lots, NEW d \in Ticks, SubmitLimit(i, s, p, n, d)
    PROVE  CrossInv'
<1> DEFINE o == [side |-> s, type |-> "limit", price |-> p, size |-> n,
                 funds |-> NoCap, stamp |-> 0]
<1>1. o \in Order /\ NewOrder(i, o, d)
  BY LimitOrderIsOrder DEF SubmitLimit
<1> HIDE DEF o
<1>2. taker' = i /\ \A j \in Ids \ {i} : order'[j] = order[j]
  BY <1>1, NewOrderEffect DEF IInv
<1>3. /\ heap' = [heap EXCEPT ![s] = @ \cup {i}] /\ active' = active \cup {i}
      /\ call = "none" /\ call' = "limit"
  BY DEF SubmitLimit, Enter
<1>4. \A t \in Side : heap[t] \subseteq Ids /\ heap'[t] \subseteq heap[t] \cup {i}
  BY <1>3 DEF IInv, TypeOK
<1>5. \A t \in Side : \A j \in Live(t)' : j # i => j \in Live(t) /\ j \in Ids
  BY <1>3, <1>4 DEF Live
<1>6. QED
  BY <1>2, <1>3, <1>5 DEF CrossInv, Side

\* A market order does not enter the book.
LEMMA SubmitMarketCrossInv ==
    ASSUME IInv, CrossInv, NEW i \in Ids, NEW s \in Side, NEW n \in Lots,
           NEW f \in Funds \cup {NoCap}, NEW d \in Ticks, SubmitMarket(i, s, n, f, d)
    PROVE  CrossInv'
<1> DEFINE o == [side |-> s, type |-> "market", price |-> 0, size |-> n,
                 funds |-> f, stamp |-> 0]
<1>1. o \in Order /\ NewOrder(i, o, d)
  BY MarketOrderIsOrder DEF SubmitMarket
<1> HIDE DEF o
<1>2. i \notin Known /\ \A j \in Ids \ {i} : order'[j] = order[j]
  BY <1>1, NewOrderEffect DEF IInv
<1>3. heap' = heap /\ active' = active /\ call = "none"
  BY DEF SubmitMarket, Enter
<1>4. \A t \in Side : Live(t) \subseteq Ids \ {i}
  BY <1>2 DEF Live, IInv, TypeOK, Control
<1>5. QED
  BY <1>2, <1>3, <1>4, ShrinkKeepsCrossInv DEF Live

\* execute stops when the two best live orders do not cross: then no live
\* orders do.
LEMMA LimitDoneCrossInv ==
    ASSUME IInv, CrossInv, LimitDone
    PROVE  CrossInv'
<1>1. heap' = heap /\ active' = active /\ order' = order /\ lock = "loop"
  BY DEF LimitDone, bookVars, IInv, Control
<1>2. CASE heap["buy"] = {} \/ heap["sell"] = {}
  BY <1>1, <1>2 DEF CrossInv, Live
<1>3. CASE \E b \in LiveTop("buy"), a \in LiveTop("sell") : order[b].price < order[a].price
  <2>1. PICK b \in LiveTop("buy"), a \in LiveTop("sell") : order[b].price < order[a].price
    BY <1>3
  <2>2. /\ order[b].side = "buy" /\ order[a].side = "sell"
        /\ order[b].price \in Nat /\ order[a].price \in Nat
    BY <1>1, <2>1, LiveTopIsLive DEF Side
  <2>3. ASSUME NEW c \in Live("buy"), NEW e \in Live("sell")
        PROVE  order[c].price < order[e].price
    <3>1. c \in Known /\ e \in Known
      BY DEF IInv, Control, Live, Side
    <3>2. order[c].price \in Nat /\ order[e].price \in Nat
      BY <3>1, KnownIsOrder, OrderFields DEF IInv
    <3>3. order[c].price =< order[b].price
      BY <2>1, <2>2, <3>2 DEF LiveTop, IsTop, Live, Ahead, Better
    <3>4. order[a].price =< order[e].price
      BY <2>1, <2>2, <3>2 DEF LiveTop, IsTop, Live, Ahead, Better
    <3>5. QED
      BY <2>1, <2>2, <3>2, <3>3, <3>4
  <2>4. QED
    BY <1>1, <2>3 DEF CrossInv, Live
<1>4. QED
  BY <1>2, <1>3 DEF LimitDone

\* Every step keeps CrossInv.
LEMMA NextCrossInv == IInv /\ CrossInv /\ [Next]_vars => CrossInv'
<1> SUFFICES ASSUME IInv, CrossInv, [Next]_vars PROVE CrossInv'
  OBVIOUS
<1>1. ASSUME NEW i \in Ids, NEW s \in Side, NEW n \in Lots, NEW d \in Ticks,
             NEW p \in Prices, SubmitLimit(i, s, p, n, d)
      PROVE  CrossInv'
  BY <1>1, SubmitLimitCrossInv
<1>2. ASSUME NEW i \in Ids, NEW s \in Side, NEW n \in Lots, NEW d \in Ticks,
             NEW f \in IF s = "buy" THEN Funds ELSE {NoCap}, SubmitMarket(i, s, n, f, d)
      PROVE  CrossInv'
  BY <1>2, SubmitMarketCrossInv
<1>3. ASSUME MarketDone \/ ReadBBO \/ BBODone \/ ResetHeaps \/ ResetActive
             \/ ResetCanceled \/ (\E i \in Ids : CancelPop(i)) \/ CancelMark
             \/ UNCHANGED vars
      PROVE  CrossInv'
  <2>1. \A s \in Side : heap'[s] \subseteq heap[s]
    BY <1>3 DEF IInv, TypeOK, MarketDone, ReadBBO, BBODone, ResetHeaps, ResetActive,
                ResetCanceled, CancelPop, CancelMark, vars, bookVars
  <2>2. active' \subseteq active
    BY <1>3 DEF MarketDone, ReadBBO, BBODone, ResetHeaps, ResetActive,
                ResetCanceled, CancelPop, CancelMark, vars, bookVars
  <2>3. order' = order /\ taker' = taker /\ (call' = call \/ call # "limit")
    BY <1>3 DEF MarketDone, ReadBBO, BBODone, ResetHeaps, ResetActive, Enter,
                ResetCanceled, CancelPop, CancelMark, vars
  <2>4. QED
    BY <2>1, <2>2, <2>3, ShrinkKeepsCrossInv DEF Live
<1>4. ASSUME LimitDone PROVE CrossInv'
  BY <1>4, LimitDoneCrossInv
<1>5. ASSUME NEW b \in Ids, NEW a \in Ids, LimitMatch(b, a) \/ MarketMatch(b)
      PROVE  CrossInv'
  <2>1. order' = order /\ call' = call /\ taker' = taker
    BY <1>5 DEF LimitMatch, MarketMatch
  <2>2. QED
    BY <1>5, <2>1, MatchShrinks, ShrinkKeepsCrossInv
<1>6. ASSUME NEW b \in Ids, NEW a \in Ids, LimitSkip(b, a) PROVE CrossInv'
  BY <1>6, PopShrinks, ShrinkKeepsCrossInv DEF LimitSkip, Side
<1>7. ASSUME NEW r \in Ids, MarketSkip(r) PROVE CrossInv'
  BY <1>7, PopShrinks, ShrinkKeepsCrossInv DEF MarketSkip, Target, Other, Side
<1>8. ASSUME NEW i \in Ids, NEW s \in Side, BBOSkip(i, s) PROVE CrossInv'
  BY <1>8, PopShrinks, ShrinkKeepsCrossInv DEF BBOSkip
<1>9. QED
  BY <1>1, <1>2, <1>3, <1>4, <1>5, <1>6, <1>7, <1>8 DEF Next, LoopStep

\* CrossInv holds in every reachable state.
LEMMA CrossInvariance == Spec => []CrossInv
<1>1. Init => CrossInv
  BY DEF Init, CrossInv, Live, Side
<1>2. QED
  BY <1>1, NextCrossInv, Invariance, PTL DEF Spec

\* Between two submissions no two live orders can trade with each other: the
\* matching loop never stops too early, and cancellations, tombstones and
\* resets never uncover a crossed book.
THEOREM BookUncrossed == Spec => []Uncrossed
<1>1. CrossInv => Uncrossed
  BY DEF CrossInv, Uncrossed
<1>2. QED
  BY <1>1, CrossInvariance, PTL

\* The trades after a match are those before and the new one.
LEMMA AppendTrade ==
    ASSUME TypeOK, NEW b \in Ids, NEW a \in Ids, NEW q \in Nat,
           NEW settled \in Nat, NEW locked \in Nat, Cross(b, a, q, settled, locked),
           TakerTrades, taker' = taker, taker \in {b, a}
    PROVE  TakerTrades'
<1> DEFINE t == [buyer |-> b, seller |-> a, quantity |-> q,
                 settled |-> settled, locked |-> locked]
<1>1. trades' = Append(trades, t) /\ t.buyer = b /\ t.seller = a /\ t \in Trade
  BY DEF Cross, Trade
<1>2. trades \in Seq(Trade)
  BY DEF TypeOK
<1> HIDE DEF t
<1>3. ASSUME NEW n \in DOMAIN trades' PROVE taker \in {trades'[n].buyer, trades'[n].seller}
  <2>1. n \in 1 .. Len(trades) + 1 /\ trades' = Append(trades, t)
    BY <1>1, <1>2, <1>3
  <2>2. CASE n = Len(trades) + 1
    BY <1>1, <1>2, <2>1, <2>2
  <2>3. CASE n \in DOMAIN trades
    BY <1>1, <1>2, <2>3 DEF TakerTrades
  <2>4. QED
    BY <1>2, <2>1, <2>2, <2>3
<1>4. QED
  BY <1>3 DEF TakerTrades

\* Every step keeps TakerTrades: the two tops cross, so one is the taker.
LEMMA NextTakerTrades == IInv /\ CrossInv /\ TakerTrades /\ [Next]_vars => TakerTrades'
<1> SUFFICES ASSUME IInv, CrossInv, TakerTrades, [Next]_vars PROVE TakerTrades'
  OBVIOUS
<1>1. TypeOK
  BY DEF IInv
<1>2. ASSUME NEW i \in Ids, NEW o, NEW d, NewOrder(i, o, d) PROVE TakerTrades'
  BY <1>2 DEF NewOrder, TakerTrades
<1>3. ASSUME NEW b \in Ids, NEW a \in Ids, LimitMatch(b, a) PROVE TakerTrades'
  <2>1. lock = "loop" /\ b \in LiveTop("buy") /\ a \in LiveTop("sell") /\ taker' = taker
    BY <1>3 DEF LimitMatch, IInv, Control
  <2>2. /\ b \in Live("buy") /\ order[b].price \in Nat
        /\ a \in Live("sell") /\ order[a].price \in Nat
    BY <2>1, LiveTopIsLive DEF Live, Side
  <2>3. taker \in {b, a}
    BY <1>3, <2>2 DEF LimitMatch, CrossInv
  <2>4. shares[b] \in Nat /\ shares[a] \in Nat
    BY <1>1 DEF TypeOK
  <2>5. Least(shares[b], shares[a]) \in Nat
    BY <2>4 DEF Least
  <2>6. PICK settled \in Nat, locked \in Nat :
           Cross(b, a, Least(shares[b], shares[a]), settled, locked)
    BY <1>3, <2>2 DEF LimitMatch, SettledPrice
  <2>7. QED
    BY <1>1, <2>1, <2>3, <2>5, <2>6, AppendTrade
<1>4. ASSUME NEW r \in Ids, MarketMatch(r) PROVE TakerTrades'
  <2>1. lock = "loop" /\ taker \in Ids /\ taker' = taker /\ Target \in Side
    BY <1>4 DEF MarketMatch, IInv, Control, Known, Target, Other, Side
  <2>2. order[r].price \in Nat
    BY <1>4, <2>1, LiveTopIsLive DEF MarketMatch
  <2>3. shares[taker] \in Nat /\ shares[r] \in Nat
    BY <1>1, <2>1 DEF TypeOK
  <2>4. Least(shares[taker], shares[r]) \in Nat
    BY <2>3 DEF Least
  <2>5. \/ Cross(taker, r, Least(shares[taker], shares[r]), order[r].price, 0)
        \/ Cross(r, taker, Least(shares[taker], shares[r]), order[r].price, 0)
    BY <1>4 DEF MarketMatch
  <2>6. QED
    BY <1>1, <2>1, <2>2, <2>4, <2>5, AppendTrade
<1>5. ASSUME trades' = trades, taker' = taker PROVE TakerTrades'
  BY <1>5 DEF TakerTrades
<1>6. ASSUME \/ LimitDone \/ MarketDone \/ ReadBBO \/ BBODone \/ CancelMark
             \/ ResetHeaps \/ ResetActive \/ ResetCanceled
             \/ \E b, a \in Ids : LimitSkip(b, a) \/ MarketSkip(b) \/ CancelPop(b)
             \/ \E i \in Ids, s \in Side : BBOSkip(i, s)
             \/ UNCHANGED vars
      PROVE  trades' = trades /\ taker' = taker
  BY <1>6 DEF LimitDone, MarketDone, ReadBBO, BBODone, CancelMark, CancelPop, ResetHeaps,
              ResetActive, ResetCanceled, LimitSkip, MarketSkip, BBOSkip, PopTombstone, vars
<1>7. QED
  BY <1>2, <1>3, <1>4, <1>5, <1>6 DEF Next, LoopStep, SubmitLimit, SubmitMarket

\* A submission never trades two resting orders with each other: every trade in
\* the list it returns has the submitted order as buyer or seller.
THEOREM OnlyTakerTrades == Spec => []TakerTrades
<1>1. Init => TakerTrades
  BY DEF Init, TakerTrades
<1>2. QED
  BY <1>1, NextTakerTrades, Invariance, CrossInvariance, PTL DEF Spec

(***************************************************************************)
(* A canceled order is out of the index for good, and only orders of the   *)
(* index, or the market order being processed, lose shares.                *)
(***************************************************************************)
KilledInv ==
    /\ killed \cap active = {}
    /\ \A i \in (active \cup killed \cup {doomed}) \cap Ids : order[i].type = "limit"

\* The id of a new order was not canceled before.
LEMMA NewOrderKilledInv ==
    ASSUME IInv, KilledInv, NEW i \in Ids, NEW d \in Ticks, NEW o \in Order,
           NewOrder(i, o, d), killed' = killed, doomed' = doomed,
           active' = active \/ (active' = active \cup {i} /\ o.type = "limit")
    PROVE  KilledInv' /\ \A j \in (killed \cup {doomed}) \cap Ids : shares'[j] = shares[j]
<1>1. /\ i \notin Known /\ order'[i].type = o.type
      /\ \A j \in Ids \ {i} : order'[j] = order[j] /\ shares'[j] = shares[j]
  BY NewOrderEffect DEF IInv
<1>2. i \notin active /\ i \notin killed /\ i # doomed
  BY <1>1, IdsAssumption DEF IInv, Control
<1>3. QED
  BY <1>1, <1>2 DEF KilledInv

\* Every step keeps KilledInv and takes no share from a canceled order.
LEMMA NextKilledInv ==
    IInv /\ KilledInv /\ [Next]_vars =>
       KilledInv' /\ \A j \in (killed \cup {doomed}) \cap Ids : shares'[j] = shares[j]
<1> DEFINE Kept == \A j \in (killed \cup {doomed}) \cap Ids : shares'[j] = shares[j]
<1> SUFFICES ASSUME IInv, KilledInv, [Next]_vars PROVE KilledInv' /\ Kept
  OBVIOUS
<1>1. ASSUME NEW i \in Ids, NEW s \in Side, NEW n \in Lots, NEW d \in Ticks,
             NEW p \in Prices, SubmitLimit(i, s, p, n, d)
      PROVE  KilledInv' /\ Kept
  BY <1>1, LimitOrderIsOrder, NewOrderKilledInv DEF SubmitLimit
<1>2. ASSUME NEW i \in Ids, NEW s \in Side, NEW n \in Lots, NEW d \in Ticks,
             NEW f \in IF s = "buy" THEN Funds ELSE {NoCap}, SubmitMarket(i, s, n, f, d)
      PROVE  KilledInv' /\ Kept
  BY <1>2, MarketOrderIsOrder, NewOrderKilledInv DEF SubmitMarket
<1>3. ASSUME NEW b \in Ids, NEW a \in Ids, NEW q, NEW settled, NEW locked,
             Cross(b, a, q, settled, locked), lock = "loop",
             b \notin killed, a \notin killed, UNCHANGED <<order, killed, doomed>>
      PROVE  KilledInv' /\ Kept
  <2>1. active' \subseteq active /\ doomed = NoId
    BY <1>3 DEF Cross, IInv, Control
  <2>2. \A j \in Ids \ {b, a} : shares'[j] = shares[j]
    BY <1>3 DEF Cross, IInv, TypeOK
  <2>3. QED
    BY <1>3, <2>1, <2>2, IdsAssumption DEF KilledInv
<1>4. ASSUME NEW b \in Ids, NEW a \in Ids, LimitMatch(b, a) PROVE KilledInv' /\ Kept
  <2>1. lock = "loop"
    BY <1>4 DEF LimitMatch, IInv, Control
  <2>2. b \in active /\ a \in active
    BY <1>4, <2>1, LiveTopIsLive DEF LimitMatch, Side
  <2>3. b \notin killed /\ a \notin killed
    BY <2>2 DEF KilledInv
  <2>4. QED
    BY <1>3, <1>4, <2>1, <2>3 DEF LimitMatch
<1>5. ASSUME NEW r \in Ids, MarketMatch(r) PROVE KilledInv' /\ Kept
  <2>1. lock = "loop" /\ Target \in Side /\ taker \in Ids /\ order[taker].type = "market"
    BY <1>5 DEF MarketMatch, IInv, Control, Target, Other, Side, Known
  <2>2. r \in active
    BY <1>5, <2>1, LiveTopIsLive DEF MarketMatch
  <2>3. r \notin killed /\ taker \notin killed
    BY <2>1, <2>2 DEF KilledInv
  <2>4. QED
    BY <1>3, <1>5, <2>1, <2>3 DEF MarketMatch
<1>6. ASSUME \/ LimitDone \/ MarketDone \/ ReadBBO \/ BBODone
             \/ ResetHeaps \/ ResetActive \/ ResetCanceled
             \/ \E b, a \in Ids : LimitSkip(b, a) \/ MarketSkip(b)
             \/ \E i \in Ids, s \in Side : BBOSkip(i, s)
             \/ UNCHANGED vars
      PROVE  KilledInv' /\ Kept
  <2>1. /\ active' \subseteq active /\ UNCHANGED <<order, shares, killed, doomed>>
    BY <1>6 DEF LimitDone, MarketDone, ReadBBO, BBODone, ResetHeaps, ResetActive,
                ResetCanceled, LimitSkip, MarketSkip, BBOSkip, PopTombstone, vars, bookVars
  <2>2. QED
    BY <2>1 DEF KilledInv
<1>7. ASSUME NEW i \in Ids, CancelPop(i) PROVE KilledInv' /\ Kept
  BY <1>7 DEF CancelPop, KilledInv
<1>8. ASSUME CancelMark PROVE KilledInv' /\ Kept
  <2>1. doomed \notin active
    BY DEF IInv, IndexAgrees
  <2>2. NoId \notin Ids
    BY IdsAssumption
  <2>3. QED
    BY <1>8, <2>1, <2>2 DEF CancelMark, KilledInv
<1>9. QED
  BY <1>1, <1>2, <1>4, <1>5, <1>6, <1>7, <1>8 DEF Next, LoopStep

\* Once tombstone_delete has taken an order out of the index it never loses
\* another share, in whatever order threads and operations follow.
THEOREM CanceledIsFinal == Spec => CanceledNeverTrades
<1>1. Init => KilledInv
  BY IdsAssumption DEF Init, KilledInv
<1>2. IInv /\ KilledInv /\ [Next]_vars =>
         [\A i \in (killed \cup {doomed}) \cap Ids : shares'[i] = shares[i]]_vars
  BY NextKilledInv
<1>3. QED
  BY <1>1, <1>2, NextKilledInv, Invariance, PTL DEF Spec, CanceledNeverTrades

(***************************************************************************)
(* The clock.  As long as it moves forward between two orders, the stamps  *)
(* tell the orders' arrivals apart, and the order submitted last is the    *)
(* youngest.                                                               *)
(***************************************************************************)
MovesForward == \A d \in Ticks : d > 0

ClockInv ==
    /\ taker = NoId => Known = {} /\ placed = <<>>
    /\ \A i \in Known \ {taker} : order[i].stamp < order[taker].stamp
    /\ \A n \in DOMAIN placed : placed[n] \in Known
    /\ \A m, n \in DOMAIN placed : m < n => order[placed[m]].stamp < order[placed[n]].stamp

\* A new order is stamped after all others.
LEMMA NewOrderClockInv ==
    ASSUME MovesForward, IInv, ClockInv, NEW i \in Ids, NEW d \in Ticks, NEW o \in Order,
           NewOrder(i, o, d)
    PROVE  ClockInv'
<1>1. /\ i \notin Known /\ order'[i].stamp = Clock + d /\ taker' = i /\ i # NoId
      /\ order'[i] \in Order
      /\ \A j \in Ids \ {i} : order'[j] = order[j]
  <2>1. TypeOK
    BY DEF IInv
  <2>2. /\ i \notin Known /\ taker' = i
        /\ \A j \in Ids \ {i} : order'[j] = order[j]
        /\ order'[i].side = o.side /\ o.side \in Side
    BY <2>1, NewOrderEffect, OrderFields
  <2>3. order'[i] \in Order
    <3>1. order'[i] \in Order \cup {NoOrder}
      BY <2>1, NewOrderType
    <3>2. order'[i] # NoOrder
      BY <2>2 DEF NoOrder, Side
    <3>3. QED
      BY <3>1, <3>2
  <2>4. order'[i].stamp = Clock + d
    <3>1. order \in [Ids -> Order \cup {NoOrder}]
      BY <2>1 DEF TypeOK
    <3>2. order' = [order EXCEPT ![i] = [o EXCEPT !.stamp = Clock + d]]
      BY DEF NewOrder
    <3>3. order'[i] = [o EXCEPT !.stamp = Clock + d]
      BY <3>1, <3>2
    <3>4. QED
      BY <3>3 DEF Order
  <2>5. QED
    BY <2>2, <2>3, <2>4, IdsAssumption
<1>2. d > 0 /\ d \in Int
  BY Ranges DEF MovesForward
<1>3. \A j \in Known : j \in Ids /\ order[j].stamp \in Int
  BY KnownIsOrder, OrderFields DEF IInv
<1>4. ASSUME NEW j \in Known PROVE order'[j].stamp < order'[i].stamp /\ j # i
  <2>1. taker \in Known /\ Clock = order[taker].stamp
    BY <1>4 DEF ClockInv, IInv, Control, Clock
  <2>2. order[j].stamp =< order[taker].stamp
    BY <1>3, <1>4, <2>1 DEF ClockInv
  <2>3. j # i /\ order'[j] = order[j]
    BY <1>1, <1>3, <1>4
  <2>4. QED
    BY <1>1, <1>2, <1>3, <2>1, <2>2, <2>3
<1>5. Known' = Known \cup {i}
  <2>1. order'[i] # NoOrder
    BY <1>1, OrderFields DEF NoOrder, Side
  <2>2. QED
    BY <1>1, <2>1 DEF Known
<1>6. placed \in Seq(Ids) /\ placed' = Append(placed, i)
  BY DEF IInv, TypeOK, NewOrder
<1>7. /\ DOMAIN placed' = DOMAIN placed \cup {Len(placed) + 1}
      /\ placed'[Len(placed) + 1] = i
      /\ \A n \in DOMAIN placed : placed'[n] = placed[n] /\ n < Len(placed) + 1 /\ n \in Nat
      /\ Len(placed) + 1 \in Nat
  BY <1>6
<1>8. \A n \in DOMAIN placed : placed[n] \in Known
  BY DEF ClockInv
<1>9. ASSUME NEW m \in DOMAIN placed', NEW n \in DOMAIN placed', m < n
      PROVE  order'[placed'[m]].stamp < order'[placed'[n]].stamp
  <2>1. m \in DOMAIN placed
    BY <1>7, <1>9
  <2>2. CASE n \in DOMAIN placed
    <3>1. order[placed[m]].stamp < order[placed[n]].stamp
      BY <1>9, <2>1, <2>2 DEF ClockInv
    <3>2. placed[m] \in Ids \ {i} /\ placed[n] \in Ids \ {i}
      BY <1>3, <1>4, <1>8, <2>1, <2>2
    <3>3. QED
      BY <1>1, <1>7, <2>1, <2>2, <3>1, <3>2
  <2>3. CASE n = Len(placed) + 1
    BY <1>4, <1>7, <1>8, <2>1, <2>3
  <2>4. QED
    BY <1>7, <2>2, <2>3
<1>10. \A n \in DOMAIN placed' : placed'[n] \in Known'
  BY <1>5, <1>7, <1>8
<1>11. \A j \in Known' \ {taker'} : order'[j].stamp < order'[taker'].stamp
  BY <1>1, <1>4, <1>5
<1>12. QED
  BY <1>1, <1>9, <1>10, <1>11 DEF ClockInv

\* Only a submission stamps an order.
LEMMA ClockFrame ==
    ASSUME ClockInv, UNCHANGED <<order, taker, placed>>
    PROVE  ClockInv'
BY DEF ClockInv, Known

\* The steps that are neither a submission nor a trade touch no order and no
\* list of trades.
LEMMA QuietSteps ==
    ASSUME \/ LimitDone \/ MarketDone \/ ReadBBO \/ BBODone \/ CancelMark
           \/ ResetHeaps \/ ResetActive \/ ResetCanceled
           \/ \E b, a \in Ids : LimitSkip(b, a) \/ MarketSkip(b) \/ CancelPop(b)
           \/ \E i \in Ids, s \in Side : BBOSkip(i, s)
           \/ UNCHANGED vars
    PROVE  UNCHANGED <<order, taker, placed, trades>>
BY DEF LimitDone, MarketDone, ReadBBO, BBODone, CancelMark, CancelPop, ResetHeaps,
       ResetActive, ResetCanceled, LimitSkip, MarketSkip, BBOSkip, PopTombstone, vars

\* Every step keeps the stamps in the order of arrival.
LEMMA NextClockInv ==
    ASSUME MovesForward
    PROVE  IInv /\ ClockInv /\ [Next]_vars => ClockInv'
<1> SUFFICES ASSUME IInv, ClockInv, [Next]_vars PROVE ClockInv'
  OBVIOUS
<1>1. ASSUME NEW i \in Ids, NEW s \in Side, NEW n \in Lots, NEW d \in Ticks,
             NEW p \in Prices, SubmitLimit(i, s, p, n, d)
      PROVE  ClockInv'
  BY <1>1, LimitOrderIsOrder, NewOrderClockInv DEF SubmitLimit
<1>2. ASSUME NEW i \in Ids, NEW s \in Side, NEW n \in Lots, NEW d \in Ticks,
             NEW f \in IF s = "buy" THEN Funds ELSE {NoCap}, SubmitMarket(i, s, n, f, d)
      PROVE  ClockInv'
  BY <1>2, MarketOrderIsOrder, NewOrderClockInv DEF SubmitMarket
<1>3. ASSUME NEW b \in Ids, NEW a \in Ids, LimitMatch(b, a) \/ MarketMatch(b)
      PROVE  ClockInv'
  BY <1>3, ClockFrame DEF LimitMatch, MarketMatch
<1>4. ASSUME UNCHANGED <<order, taker, placed, trades>> PROVE ClockInv'
  BY <1>4, ClockFrame
<1>5. QED
  BY <1>1, <1>2, <1>3, <1>4, QuietSteps DEF Next, LoopStep

\* Nothing was submitted in the initial state.
LEMMA InitClockInv == Init => ClockInv
BY DEF Init, ClockInv, Known

(***************************************************************************)
(* Prices and priority.                                                    *)
(***************************************************************************)
\* What a step that trades adds to the list of trades: the submitted order is
\* one of the parties, the other one was the top of its side and sets the price.
FairTrade(t) ==
    /\ taker \in {t.buyer, t.seller} /\ t.buyer # t.seller
    /\ \E s \in Side : Maker(t) \in LiveTop(s)
    /\ t.settled = order[Maker(t)].price
    /\ order[taker].type = "limit" => t.locked >= t.settled

\* execute trades at the older order's price, and the younger one is the taker.
LEMMA LimitTrades ==
    ASSUME IInv, CrossInv, ClockInv, NEW b \in Ids, NEW a \in Ids, LimitMatch(b, a)
    PROVE  \E t \in Trade : trades' = Append(trades, t) /\ FairTrade(t)
<1>1. lock = "loop" /\ b \in LiveTop("buy") /\ a \in LiveTop("sell")
  BY DEF LimitMatch, IInv, Control
<1>2. /\ b \in Live("buy") /\ order[b].price \in Nat /\ b \in Known /\ order[b].side = "buy"
      /\ a \in Live("sell") /\ order[a].price \in Nat /\ a \in Known /\ order[a].side = "sell"
  BY <1>1, LiveTopIsLive DEF Live, Side
<1>3. order[b].price >= order[a].price /\ b # a /\ order[b].stamp \in Int /\ order[a].stamp \in Int
  BY <1>2, KnownIsOrder, OrderFields DEF LimitMatch, IInv
<1>4. taker \in {b, a}
  BY <1>2, <1>3 DEF LimitMatch, CrossInv
<1> DEFINE q == Least(shares[b], shares[a])
           t == [buyer |-> b, seller |-> a, quantity |-> q,
                 settled |-> SettledPrice(b, a), locked |-> order[b].price]
<1>5. q \in Nat
  <2>1. shares[b] \in Nat /\ shares[a] \in Nat
    BY DEF IInv, TypeOK
  <2>2. QED
    BY <2>1 DEF Least
<1>6. t \in Trade /\ trades' = Append(trades, t)
  BY <1>2, <1>5 DEF Trade, SettledPrice, LimitMatch, Cross
<1>7. Maker(t) = IF b = taker THEN a ELSE b
  BY DEF Maker
<1>8. SettledPrice(b, a) = order[Maker(t)].price /\ order[b].price >= SettledPrice(b, a)
  <2>1. CASE b = taker
    <3>1. order[a].stamp < order[b].stamp
      BY <1>2, <1>3, <2>1 DEF ClockInv
    <3>2. SettledPrice(b, a) = order[a].price
      BY <1>3, <3>1 DEF SettledPrice
    <3>3. QED
      BY <1>3, <1>7, <2>1, <3>2
  <2>2. CASE a = taker
    <3>1. order[b].stamp < order[a].stamp
      BY <1>2, <1>3, <2>2 DEF ClockInv
    <3>2. SettledPrice(b, a) = order[b].price
      BY <3>1 DEF SettledPrice
    <3>3. QED
      BY <1>2, <1>3, <1>7, <2>2, <3>2
  <2>3. QED
    BY <1>4, <2>1, <2>2
<1>9. \E s \in Side : Maker(t) \in LiveTop(s)
  BY <1>1, <1>7 DEF Side
<1>10. FairTrade(t)
  BY <1>3, <1>4, <1>8, <1>9 DEF FairTrade
<1>11. QED
  BY <1>6, <1>10

\* process_market_orders_ioc trades at the resting order's price.
LEMMA MarketTrades ==
    ASSUME IInv, NEW r \in Ids, MarketMatch(r)
    PROVE  \E t \in Trade : trades' = Append(trades, t) /\ FairTrade(t)
<1>1. /\ lock = "loop" /\ r \in LiveTop(Target) /\ Target \in Side
      /\ taker \in Ids /\ order[taker].type = "market"
  BY DEF MarketMatch, IInv, Control, Known, Target, Other, Side
<1>2. order[r].price \in Nat /\ r # taker
  BY <1>1, LiveTopIsLive
<1> DEFINE q == Least(shares[taker], shares[r])
           t(b, a) == [buyer |-> b, seller |-> a, quantity |-> q,
                       settled |-> order[r].price, locked |-> 0]
<1>3. q \in Nat
  <2>1. shares[taker] \in Nat /\ shares[r] \in Nat
    BY <1>1 DEF IInv, TypeOK
  <2>2. QED
    BY <2>1 DEF Least
<1>4. t(taker, r) \in Trade /\ t(r, taker) \in Trade
  BY <1>1, <1>2, <1>3 DEF Trade
<1>5. trades' = Append(trades, t(taker, r)) \/ trades' = Append(trades, t(r, taker))
  BY DEF MarketMatch, Cross
<1>6. Maker(t(taker, r)) = r /\ Maker(t(r, taker)) = r
  BY <1>2 DEF Maker
<1>7. FairTrade(t(taker, r)) /\ FairTrade(t(r, taker))
  BY <1>1, <1>2, <1>6 DEF FairTrade
<1>8. QED
  BY <1>4, <1>5, <1>7

\* A fair trade keeps MakerPrice.
LEMMA FairTradeKeeps ==
    ASSUME TypeOK, MakerPrice, NEW t \in Trade, trades' = Append(trades, t), FairTrade(t),
           UNCHANGED <<order, taker>>
    PROVE  MakerPrice'
<1>1. trades \in Seq(Trade)
  BY DEF TypeOK
<1>2. ASSUME NEW n \in DOMAIN trades'
      PROVE  /\ trades'[n].settled = order[Maker(trades'[n])].price
             /\ order[taker].type = "limit" => trades'[n].locked >= trades'[n].settled
  <2>1. n \in 1 .. Len(trades) + 1
    BY <1>1, <1>2
  <2>2. CASE n = Len(trades) + 1
    <3>1. trades'[n] = t
      BY <1>1, <2>2
    <3>2. QED
      BY <3>1 DEF FairTrade
  <2>3. CASE n \in DOMAIN trades
    <3>1. trades'[n] = trades[n]
      BY <1>1, <2>3
    <3>2. QED
      BY <2>3, <3>1 DEF MakerPrice
  <2>4. QED
    BY <1>1, <2>1, <2>2, <2>3
<1>3. QED
  BY <1>2 DEF MakerPrice, Maker

\* Every step keeps MakerPrice.
LEMMA NextMakerPrice ==
    IInv /\ CrossInv /\ ClockInv /\ MakerPrice /\ [Next]_vars => MakerPrice'
<1> SUFFICES ASSUME IInv, CrossInv, ClockInv, MakerPrice, [Next]_vars PROVE MakerPrice'
  OBVIOUS
<1>1. ASSUME NEW i \in Ids, NEW o, NEW d, NewOrder(i, o, d) PROVE MakerPrice'
  BY <1>1 DEF NewOrder, MakerPrice
<1>2. ASSUME NEW b \in Ids, NEW a \in Ids, LimitMatch(b, a) PROVE MakerPrice'
  <2>1. PICK t \in Trade : trades' = Append(trades, t) /\ FairTrade(t)
    BY <1>2, LimitTrades
  <2>2. UNCHANGED <<order, taker>>
    BY <1>2 DEF LimitMatch
  <2>3. QED
    BY <2>1, <2>2, FairTradeKeeps DEF IInv
<1>3. ASSUME NEW r \in Ids, MarketMatch(r) PROVE MakerPrice'
  <2>1. PICK t \in Trade : trades' = Append(trades, t) /\ FairTrade(t)
    BY <1>3, MarketTrades
  <2>2. UNCHANGED <<order, taker>>
    BY <1>3 DEF MarketMatch
  <2>3. QED
    BY <2>1, <2>2, FairTradeKeeps DEF IInv
<1>4. ASSUME UNCHANGED <<order, taker, placed, trades>> PROVE MakerPrice'
  BY <1>4 DEF MakerPrice, Maker
<1>5. QED
  BY <1>1, <1>2, <1>3, <1>4, QuietSteps DEF Next, LoopStep, SubmitLimit, SubmitMarket

\* What is allowed to be a trade of a step.
Priority(t) ==
    \A i \in Live(order[Maker(t)].side) \ {Maker(t)} :
       /\ ~Better(i, Maker(t))
       /\ order[i].price = order[Maker(t)].price => ~EarlierArrival(i, Maker(t))

\* Nothing live is ahead of the top of a heap, and the heap order is the order
\* of arrival within a price.
LEMMA TopHasPriority ==
    ASSUME IInv, ClockInv, lock = "loop", NEW t, FairTrade(t)
    PROVE  Priority(t)
<1> DEFINE m == Maker(t)
<1>1. PICK s \in Side : m \in LiveTop(s)
  BY DEF FairTrade
<1>2. m \in heap[s] /\ m \in Known /\ order[m].side = s
  BY <1>1, LiveTopIsLive
<1>3. order[m].stamp \in Int /\ order[m].price \in Nat
  BY <1>2, KnownIsOrder, OrderFields DEF IInv
<1> HIDE DEF m
<1>4. ASSUME NEW i \in Live(s) \ {m}
      PROVE  ~Better(i, m) /\ (order[i].price = order[m].price => ~EarlierArrival(i, m))
  <2>1. i \in heap[s] /\ i \in Known /\ order[i].side = s
    BY <1>4 DEF Live, IInv, Control, IndexAgrees
  <2>2. order[i].stamp \in Int /\ order[i].price \in Nat
    BY <2>1, KnownIsOrder, OrderFields DEF IInv
  <2>3. Ahead(m, i)
    BY <1>1, <1>4, <2>1 DEF LiveTop, IsTop
  <2>4. ~Better(i, m)
    BY <1>2, <1>3, <2>1, <2>2, <2>3 DEF Ahead, Better
  <2>5. ASSUME order[i].price = order[m].price, EarlierArrival(i, m) PROVE FALSE
    <3>1. order[m].stamp =< order[i].stamp
      BY <1>2, <1>3, <2>1, <2>2, <2>3, <2>5 DEF Ahead, Better
    <3>2. order[i].stamp < order[m].stamp
      BY <2>5 DEF EarlierArrival, ClockInv
    <3>3. QED
      BY <1>3, <2>2, <3>1, <3>2
  <2>6. QED
    BY <2>4, <2>5
<1>5. QED
  BY <1>2, <1>4 DEF Priority, m

\* The last trade of a list that has one more.
LEMMA LastTrade ==
    ASSUME NEW s \in Seq(Trade), NEW t \in Trade
    PROVE  Append(s, t)[Len(Append(s, t))] = t
OBVIOUS

\* The trades of a new submission are none.
LEMMA NoTradesYet ==
    ASSUME TypeOK, trades' = <<>>
    PROVE  ~(Len(trades') > Len(trades))
<1>1. trades \in Seq(Trade)
  BY DEF TypeOK
<1>2. Len(trades) \in Nat
  BY <1>1
<1>3. QED
  BY <1>2

\* Every step that trades respects price and time.
LEMMA NextPriority ==
    IInv /\ CrossInv /\ ClockInv /\ [Next]_vars =>
       (Len(trades') > Len(trades) => Priority(trades'[Len(trades')]))
<1> SUFFICES ASSUME IInv, CrossInv, ClockInv, [Next]_vars, Len(trades') > Len(trades)
             PROVE  Priority(trades'[Len(trades')])
  OBVIOUS
<1>1. trades \in Seq(Trade) /\ TypeOK
  BY DEF IInv, TypeOK
<1>2. ASSUME NEW b \in Ids, NEW a \in Ids, LimitMatch(b, a)
      PROVE  Priority(trades'[Len(trades')])
  <2>1. PICK t \in Trade : trades' = Append(trades, t) /\ FairTrade(t)
    BY <1>2, LimitTrades
  <2>2. lock = "loop" /\ trades'[Len(trades')] = t
    BY <1>1, <1>2, <2>1, LastTrade DEF LimitMatch, IInv, Control
  <2>3. QED
    BY <2>1, <2>2, TopHasPriority
<1>3. ASSUME NEW r \in Ids, MarketMatch(r) PROVE Priority(trades'[Len(trades')])
  <2>1. PICK t \in Trade : trades' = Append(trades, t) /\ FairTrade(t)
    BY <1>3, MarketTrades
  <2>2. lock = "loop" /\ trades'[Len(trades')] = t
    BY <1>1, <1>3, <2>1, LastTrade DEF MarketMatch, IInv, Control
  <2>3. QED
    BY <2>1, <2>2, TopHasPriority
<1>4. ASSUME NEW i \in Ids, NEW o, NEW d, NewOrder(i, o, d) PROVE FALSE
  BY <1>1, <1>4, NoTradesYet DEF NewOrder
<1>5. ASSUME UNCHANGED <<order, taker, placed, trades>> PROVE FALSE
  <2>1. Len(trades) \in Nat
    BY <1>1
  <2>2. QED
    BY <1>5, <2>1
<1>6. QED
  BY <1>2, <1>3, <1>4, <1>5, QuietSteps DEF Next, LoopStep, SubmitLimit, SubmitMarket

\* With a clock that moves forward between two orders, a trade settles at the
\* price of the order that was resting, and a limit buyer's locked price covers it.
THEOREM MakerSetsPrice == ASSUME MovesForward PROVE Spec => []MakerPrice
<1>1. Init => MakerPrice
  BY DEF Init, MakerPrice
<1>2. IInv /\ ClockInv /\ [Next]_vars => ClockInv'
  BY NextClockInv
<1>3. QED
  BY <1>1, <1>2, InitClockInv, NextMakerPrice, Invariance, CrossInvariance, PTL DEF Spec

\* With such a clock no trade passes over a live order of a better price, or of
\* the same price that arrived earlier.
THEOREM PriorityKept == ASSUME MovesForward PROVE Spec => PriceTimePriority
<1>1. IInv /\ ClockInv /\ [Next]_vars => ClockInv'
  BY NextClockInv
<1>2. IInv /\ CrossInv /\ ClockInv /\ [Next]_vars =>
        [Len(trades') > Len(trades) =>
           LET m == Maker(trades'[Len(trades')]) IN
           \A i \in Live(order[m].side) \ {m} :
              /\ ~Better(i, m)
              /\ order[i].price = order[m].price => ~EarlierArrival(i, m)]_vars
  BY NextPriority DEF Priority
<1>3. QED
  BY <1>1, <1>2, InitClockInv, Invariance, CrossInvariance, PTL DEF Spec, PriceTimePriority

(***************************************************************************)
(* The best bid and offer.                                                 *)
(***************************************************************************)
\* The live top of a heap is the best live order of its side.
LEMMA LiveTopIsBest ==
    ASSUME IInv, NEW s \in Side, NEW i \in LiveTop(s), lock = "loop"
    PROVE  i \in Live(s) /\ \A j \in Live(s) : ~Better(j, i)
<1>1. /\ i \in heap[s] /\ i \in active /\ i \in Known
      /\ order[i].side = s /\ order[i].price \in Nat
  BY LiveTopIsLive
<1>2. ASSUME NEW j \in Live(s) PROVE ~Better(j, i)
  <2>1. j \in heap[s] /\ j \in Known /\ order[j].side = s
    BY <1>2 DEF Live, IInv, Control, IndexAgrees
  <2>2. order[j].price \in Nat
    BY <2>1, KnownIsOrder, OrderFields DEF IInv
  <2>3. j = i \/ Ahead(i, j)
    BY <2>1 DEF LiveTop, IsTop
  <2>4. QED
    BY <1>1, <2>1, <2>2, <2>3 DEF Ahead, Better
<1>3. QED
  BY <1>1, <1>2 DEF Live

\* What get_current_bbo returns for side s.
BestOf(s) ==
    \/ Live(s)' = {} /\ bbo'[s] = 0
    \/ \E i \in Live(s)' : /\ bbo'[s] = order[i].price
                           /\ \A j \in Live(s)' : ~Better(j, i)

\* It is read off the tops of the heaps, when these are live.
LEMMA BBODoneBest ==
    ASSUME IInv, BBODone, NEW s \in Side
    PROVE  BestOf(s)
<1>1. lock = "loop" /\ Live(s)' = Live(s) /\ Clean(s)
  BY DEF BBODone, IInv, Control, Live, bookVars, Side
<1>2. bbo'[s] = IF heap[s] = {} THEN 0 ELSE order[CHOOSE i \in LiveTop(s) : TRUE].price
  BY DEF BBODone
<1>3. CASE heap[s] = {}
  BY <1>1, <1>2, <1>3 DEF BestOf, Live
<1>4. CASE heap[s] # {}
  <2> DEFINE i == CHOOSE i \in LiveTop(s) : TRUE
  <2>1. i \in LiveTop(s)
    BY <1>1, <1>4 DEF Clean
  <2>2. bbo'[s] = order[i].price
    BY <1>2, <1>4
  <2> HIDE DEF i
  <2>3. i \in Live(s) /\ \A j \in Live(s) : ~Better(j, i)
    BY <1>1, <2>1, LiveTopIsBest
  <2>4. QED
    BY <1>1, <2>2, <2>3 DEF BestOf
<1>5. QED
  BY <1>3, <1>4

\* Only BBODone ends a get_current_bbo.
LEMMA OnlyBBODone ==
    ASSUME [Next]_vars, call = "bbo", call' = "none"
    PROVE  BBODone
<1>1. call' # call
  OBVIOUS
<1>2. QED
  BY <1>1 DEF Next, LoopStep, SubmitLimit, SubmitMarket, Enter, ReadBBO, ResetHeaps,
     CancelPop, CancelMark, LimitSkip, LimitMatch, LimitDone, MarketSkip, MarketMatch,
     MarketDone, BBOSkip, PopTombstone, ResetActive, ResetCanceled, vars

\* get_current_bbo reports the best prices of the orders that can be filled,
\* whatever is canceled before and between its steps.
THEOREM BestPrices == Spec => BBOExact
<1>1. IInv /\ [Next]_vars =>
        [call = "bbo" /\ call' = "none" =>
           \A s \in Side :
              \/ Live(s)' = {} /\ bbo'[s] = 0
              \/ \E i \in Live(s)' : /\ bbo'[s] = order[i].price
                                     /\ \A j \in Live(s)' : ~Better(j, i)]_vars
  BY OnlyBBODone, BBODoneBest DEF BestOf
<1>2. QED
  BY <1>1, Invariance, PTL DEF Spec, BBOExact

(***************************************************************************)
(* The book implements the exchange.                                       *)
(***************************************************************************)
\* An order has shares only once it is submitted, and a limit order that is
\* being processed can be filled until it has no shares left: no worker gets the
\* lock to cancel it.
RestInv ==
    /\ \A i \in Ids \ Known : shares[i] = 0
    /\ call = "limit" /\ shares[taker] > 0 => taker \in active

\* A new order rests at once, or is a market order.
LEMMA NewOrderRest ==
    ASSUME IInv, RestInv, NEW i \in Ids, NEW d \in Ticks, NEW o \in Order,
           NewOrder(i, o, d), call' = "limit" => i \in active'
    PROVE  RestInv'
<1>1. /\ Known' = Known \cup {i} /\ taker' = i
      /\ \A j \in Ids \ {i} : shares'[j] = shares[j]
  BY NewOrderEffect DEF IInv
<1>2. QED
  BY <1>1 DEF RestInv

\* Every step keeps RestInv.
LEMMA NextRest == IInv /\ RestInv /\ [Next]_vars => RestInv'
<1> SUFFICES ASSUME IInv, RestInv, [Next]_vars PROVE RestInv'
  OBVIOUS
<1>1. ASSUME NEW i \in Ids, NEW s \in Side, NEW n \in Lots, NEW d \in Ticks,
             NEW p \in Prices, SubmitLimit(i, s, p, n, d)
      PROVE  RestInv'
  BY <1>1, LimitOrderIsOrder, NewOrderRest DEF SubmitLimit
<1>2. ASSUME NEW i \in Ids, NEW s \in Side, NEW n \in Lots, NEW d \in Ticks,
             NEW f \in IF s = "buy" THEN Funds ELSE {NoCap}, SubmitMarket(i, s, n, f, d)
      PROVE  RestInv'
  BY <1>2, MarketOrderIsOrder, NewOrderRest DEF SubmitMarket, Enter
<1>3. ASSUME NEW b \in Known, NEW a \in Known, b # a, NEW settled \in Nat, NEW locked \in Nat,
             Cross(b, a, Least(shares[b], shares[a]), settled, locked),
             UNCHANGED <<order, call, taker>>
      PROVE  RestInv'
  <2>1. b \in Ids /\ a \in Ids /\ TypeOK
    BY <1>3 DEF Known, IInv
  <2>2. /\ \A i \in Ids \ {b, a} : shares'[i] = shares[i]
        /\ \A i \in Ids : i \in active' <=> i \in active /\ (i \notin {b, a} \/ shares'[i] > 0)
        /\ shares' \in [Ids -> Nat]
    BY <1>3, <2>1, CrossEffect
  <2>3. /\ shares'[b] = shares[b] - Least(shares[b], shares[a])
        /\ shares'[a] = shares[a] - Least(shares[b], shares[a])
        /\ shares[b] \in Nat /\ shares[a] \in Nat
    BY <1>3, <2>1 DEF Cross, TypeOK
  <2>4. \A i \in Ids : shares'[i] > 0 => shares[i] > 0
    BY <2>1, <2>2, <2>3 DEF Least
  <2>5. \A i \in Ids \ Known' : shares'[i] = 0
    BY <1>3, <2>2 DEF RestInv, Known
  <2>6. ASSUME call = "limit", shares'[taker] > 0 PROVE taker \in active'
    <3>1. taker \in Ids
      BY <2>6 DEF IInv, Control, Known
    <3>2. taker \in active
      BY <2>4, <2>6, <3>1 DEF RestInv
    <3>3. QED
      BY <2>2, <2>6, <3>1, <3>2
  <2>7. QED
    BY <1>3, <2>5, <2>6 DEF RestInv
<1>4. ASSUME NEW b \in Ids, NEW a \in Ids, LimitMatch(b, a) PROVE RestInv'
  <2>1. /\ lock = "loop" /\ b \in LiveTop("buy") /\ a \in LiveTop("sell")
        /\ UNCHANGED <<order, call, taker>>
    BY <1>4 DEF LimitMatch, IInv, Control
  <2>2. /\ b \in Known /\ order[b].price \in Nat /\ order[b].side = "buy"
        /\ a \in Known /\ order[a].price \in Nat /\ order[a].side = "sell"
    BY <2>1, LiveTopIsLive DEF Side
  <2>3. PICK settled \in Nat, locked \in Nat :
           Cross(b, a, Least(shares[b], shares[a]), settled, locked)
    BY <1>4, <2>2 DEF LimitMatch, SettledPrice
  <2>4. b # a
    BY <2>2
  <2>5. QED
    BY <1>3, <2>1, <2>2, <2>3, <2>4
<1>5. ASSUME NEW r \in Ids, MarketMatch(r) PROVE RestInv'
  <2>1. call' # "limit" /\ order' = order
    BY <1>5 DEF MarketMatch
  <2>2. r \in Known /\ taker \in Known
    BY <1>5, LiveTopIsLive DEF MarketMatch, IInv, Control, Target, Other, Side
  <2>3. \A i \in Ids \ {r, taker} : shares'[i] = shares[i]
    BY <1>5 DEF MarketMatch, Cross, IInv, TypeOK
  <2>4. QED
    BY <2>1, <2>2, <2>3 DEF RestInv, Known
<1>6. ASSUME \/ LimitDone \/ MarketDone \/ ReadBBO \/ BBODone \/ CancelMark
             \/ ResetHeaps \/ ResetActive \/ ResetCanceled
             \/ \E b, a \in Ids : LimitSkip(b, a) \/ MarketSkip(b)
             \/ \E i \in Ids, s \in Side : BBOSkip(i, s)
             \/ UNCHANGED vars
      PROVE  RestInv'
  <2>1. /\ UNCHANGED <<order, shares, taker>>
        /\ call' = "limit" => call = "limit" /\ active' = active
    BY <1>6 DEF LimitDone, MarketDone, ReadBBO, BBODone, ResetHeaps, ResetActive, Enter,
                Leave, ResetCanceled, LimitSkip, MarketSkip, BBOSkip, PopTombstone,
                CancelMark, vars, bookVars
  <2>2. QED
    BY <2>1 DEF RestInv, Known
<1>7. ASSUME NEW i \in Ids, CancelPop(i) PROVE RestInv'
  <2>1. UNCHANGED <<order, shares, taker>> /\ call' = call /\ call # "limit"
    BY <1>7 DEF CancelPop, IInv, Control
  <2>2. QED
    BY <2>1 DEF RestInv, Known
<1>8. QED
  BY <1>1, <1>2, <1>4, <1>5, <1>6, <1>7 DEF Next, LoopStep

\* A submission of the book is one of the exchange.
LEMMA SubmitRefines ==
    ASSUME IInv, RestInv, NEW i \in Ids, NEW d \in Ticks, NEW o \in Order,
           NewOrder(i, o, d), call = "none", call' = o.type,
           active' = IF o.type = "limit" THEN active \cup {i} ELSE active
    PROVE  Market!Submit(i)
<1>1. /\ i \notin Known /\ taker' = i /\ shares'[i] > 0 /\ order'[i].type = o.type
      /\ \A j \in Ids \ {i} : order'[j] = order[j] /\ shares'[j] = shares[j]
  BY NewOrderEffect DEF IInv
<1>2. shares[i] = 0 /\ active \subseteq Ids \ {i}
  BY <1>1 DEF RestInv, IInv, Control, TypeOK
<1>3. o.type \in {"limit", "market"}
  BY OrderFields
<1>4. QED
  BY <1>1, <1>2, <1>3 DEF Market!Submit, Market!Kept

\* The orders that can be filled are in the heap of their side.
LEMMA ActiveInHeap ==
    ASSUME IInv, lock = "loop", NEW i \in active
    PROVE  /\ i \in Ids /\ i \in Known /\ order[i].side \in Side /\ i \in heap[order[i].side]
           /\ order[i].type = "limit" /\ shares[i] > 0
           /\ order[i].price \in Nat /\ order[i].stamp \in Int
<1>1. i \in heap["buy"] \/ i \in heap["sell"]
  BY DEF IInv, Control, IndexAgrees
<1>2. PICK s \in Side : i \in heap[s]
  BY <1>1 DEF Side
<1>3. i \in Known /\ order[i].side = s /\ order[i].type = "limit" /\ shares[i] > 0
  BY <1>2 DEF IInv, Control, IndexAgrees
<1>4. QED
  BY <1>2, <1>3, KnownIsOrder, OrderFields DEF IInv

\* The live top of a heap is a candidate of the exchange.
LEMMA TopIsCandidate ==
    ASSUME IInv, lock = "loop", NEW s \in Side, NEW m \in LiveTop(s),
           order[taker].side = Other(s)
    PROVE  Market!Candidate(m)
<1>1. m \in active /\ order[m].side = s
  BY LiveTopIsLive
<1>2. Market!Opposite(m, taker)
  BY <1>1 DEF Market!Opposite, Other, Side
<1>3. ASSUME NEW i \in active, order[i].side = order[m].side PROVE ~Market!Beats(i, m)
  <2>1. /\ i \in heap[s] /\ order[i].price \in Nat /\ order[i].stamp \in Int
        /\ order[m].price \in Nat /\ order[m].stamp \in Int /\ order[i].side = s
    BY <1>1, <1>3, ActiveInHeap
  <2>2. i = m \/ Ahead(m, i)
    BY <2>1 DEF LiveTop, IsTop
  <2>3. QED
    BY <1>1, <2>1, <2>2 DEF Ahead, Better, Market!Beats, Side
<1>4. QED
  BY <1>1, <1>2, <1>3 DEF Market!Candidate

\* A trade of the book with the resting order m is a fill of the exchange.
LEMMA CrossRefines ==
    ASSUME IInv, lock = "loop", call \in {"limit", "market"}, NEW m \in Ids, taker \in Ids,
           NEW settled, NEW locked, m # taker,
           shares[taker] > 0, shares[m] > 0, Market!Candidate(m), Market!Acceptable(m),
           \/ Cross(taker, m, Least(shares[taker], shares[m]), settled, locked)
           \/ Cross(m, taker, Least(shares[taker], shares[m]), settled, locked),
           UNCHANGED <<order, taker, call>>
    PROVE  Market!Fill(m, shares[m] - shares'[m])
<1> DEFINE q == Least(shares[taker], shares[m])
<1>1. shares[taker] \in Nat /\ shares[m] \in Nat /\ shares \in [Ids -> Nat]
  BY DEF IInv, TypeOK
<1>2. q \in Nat /\ q > 0 /\ (q = shares[taker] \/ q = shares[m])
  BY <1>1 DEF Least
<1> HIDE DEF q
<1>3. /\ \/ shares' = [shares EXCEPT ![taker] = @ - q, ![m] = @ - q]
         \/ shares' = [shares EXCEPT ![m] = @ - q, ![taker] = @ - q]
      /\ active' = {i \in active : i \notin {m, taker} \/ shares'[i] > 0}
  BY DEF Cross, q
<1>4. shares' = [shares EXCEPT ![m] = @ - q, ![taker] = @ - q]
  BY <1>1, <1>3
<1>5. /\ shares'[m] = shares[m] - q /\ shares'[taker] = shares[taker] - q
      /\ \A i \in Ids \ {m, taker} : shares'[i] = shares[i]
  BY <1>1, <1>4
<1>6. shares[m] - shares'[m] = q
  BY <1>1, <1>2, <1>5
<1>7. shares'[m] = 0 \/ shares'[taker] = 0
  BY <1>1, <1>2, <1>5
<1>8. active' = {i \in active : shares'[i] > 0}
  BY <1>3, <1>5, ActiveInHeap
<1>9. QED
  BY <1>2, <1>4, <1>6, <1>7, <1>8 DEF Market!Fill

\* A trade of execute ...
LEMMA LimitMatchRefines ==
    ASSUME IInv, CrossInv, NEW b \in Ids, NEW a \in Ids, LimitMatch(b, a)
    PROVE  \E m \in Ids : Market!Fill(m, shares[m] - shares'[m])
<1>1. /\ lock = "loop" /\ call = "limit" /\ b \in LiveTop("buy") /\ a \in LiveTop("sell")
      /\ UNCHANGED <<order, taker, call>>
  BY DEF LimitMatch, IInv, Control
<1>2. /\ b \in Live("buy") /\ order[b].price \in Nat /\ order[b].side = "buy" /\ b \in active
      /\ a \in Live("sell") /\ order[a].price \in Nat /\ order[a].side = "sell" /\ a \in active
  BY <1>1, LiveTopIsLive DEF Live, Side
<1>3. shares[b] > 0 /\ shares[a] > 0 /\ shares[b] \in Nat /\ shares[a] \in Nat
  BY <1>1, <1>2, ActiveInHeap DEF IInv, TypeOK
<1>4. order[b].price >= order[a].price /\ taker \in {b, a} /\ b # a
  BY <1>2 DEF LimitMatch, CrossInv
<1>5. Cross(b, a, Least(shares[b], shares[a]), SettledPrice(b, a), order[b].price)
      /\ Least(shares[b], shares[a]) = Least(shares[a], shares[b])
  BY <1>3 DEF LimitMatch, Least
<1>6. CASE taker = b
  <2>1. Market!Candidate(a)
    BY <1>1, <1>2, <1>6, TopIsCandidate DEF Other, Side
  <2>2. Market!Acceptable(a)
    BY <1>2, <1>4, <1>6 DEF Market!Acceptable
  <2>3. QED
    BY <1>1, <1>3, <1>4, <1>5, <1>6, <2>1, <2>2, CrossRefines
<1>7. CASE taker = a
  <2>1. Market!Candidate(b)
    BY <1>1, <1>2, <1>7, TopIsCandidate DEF Other, Side
  <2>2. Market!Acceptable(b)
    BY <1>2, <1>4, <1>7 DEF Market!Acceptable
  <2>3. QED
    BY <1>1, <1>3, <1>4, <1>5, <1>7, <2>1, <2>2, CrossRefines
<1>8. QED
  BY <1>4, <1>6, <1>7

\* ... and one of process_market_orders_ioc.
LEMMA MarketMatchRefines ==
    ASSUME IInv, NEW r \in Ids, MarketMatch(r)
    PROVE  Market!Fill(r, shares[r] - shares'[r])
<1>1. /\ lock = "loop" /\ call = "market" /\ r \in LiveTop(Target) /\ Target \in Side
      /\ taker \in Ids /\ order[taker].type = "market" /\ shares[taker] > 0
      /\ UNCHANGED <<order, taker, call>>
  BY DEF MarketMatch, IInv, Control, Known, Target, Other, Side
<1>2. r \in active /\ order[r].type = "limit"
  BY <1>1, LiveTopIsLive
<1>3. shares[r] > 0 /\ r # taker
  BY <1>1, <1>2, ActiveInHeap
<1>4. order[taker].side = Other(Target)
  <2>1. order[taker].side \in Side
    BY <1>1, KnownIsOrder, OrderFields DEF IInv, Control
  <2>2. QED
    BY <2>1 DEF Target, Other, Side
<1>5. Market!Candidate(r) /\ Market!Acceptable(r)
  BY <1>1, <1>4, TopIsCandidate DEF Market!Acceptable
<1>6. \/ Cross(taker, r, Least(shares[taker], shares[r]), order[r].price, 0)
      \/ Cross(r, taker, Least(shares[taker], shares[r]), order[r].price, 0)
  BY DEF MarketMatch
<1>7. QED
  BY <1>1, <1>3, <1>5, <1>6, CrossRefines

\* execute ends when nothing is left that the taker accepts.
LEMMA LimitDoneRefines ==
    ASSUME IInv, RestInv, LimitDone
    PROVE  Market!Finish
<1>1. lock = "loop" /\ call = "limit" /\ call' = "none" /\ UNCHANGED <<active, order, shares, taker>>
  BY DEF LimitDone, Leave, IInv, Control, bookVars
<1>2. ASSUME shares[taker] > 0, NEW m \in Ids, Market!Candidate(m), Market!Acceptable(m)
      PROVE  FALSE
  <2>1. taker \in active /\ m \in active /\ order[taker].type = "limit"
    BY <1>1, <1>2 DEF RestInv, Market!Candidate, IInv, Control
  <2>2. /\ taker \in heap[order[taker].side] /\ order[taker].price \in Nat
        /\ m \in heap[order[m].side] /\ order[m].price \in Nat
        /\ {order[taker].side, order[m].side} = {"buy", "sell"}
    BY <1>1, <1>2, <2>1, ActiveInHeap DEF Market!Candidate, Market!Opposite
  <2>3. PICK x \in heap["buy"], y \in heap["sell"] : {x, y} = {taker, m}
    BY <2>2
  <2>4. /\ x \in active /\ order[x].side = "buy" /\ order[x].price \in Nat
        /\ y \in active /\ order[y].side = "sell" /\ order[y].price \in Nat
    BY <1>1, <2>1, <2>3, ActiveInHeap DEF IInv, IndexAgrees, Side
  <2>5. order[x].price >= order[y].price
    BY <1>2, <2>1, <2>2, <2>3, <2>4 DEF Market!Acceptable
  <2>6. PICK b \in LiveTop("buy"), a \in LiveTop("sell") : order[b].price < order[a].price
    BY <2>3 DEF LimitDone
  <2>7. /\ order[b].price \in Nat /\ order[b].side = "buy"
        /\ order[a].price \in Nat /\ order[a].side = "sell"
    BY <1>1, <2>6, LiveTopIsLive DEF Side
  <2>8. x \in Live("buy") /\ y \in Live("sell")
    BY <2>3, <2>4 DEF Live
  <2>9. ~Better(x, b) /\ ~Better(y, a)
    BY <1>1, <2>6, <2>8, LiveTopIsBest DEF Side
  <2>10. order[x].price =< order[b].price /\ order[y].price >= order[a].price
    BY <2>4, <2>7, <2>9 DEF Better
  <2>11. QED
    BY <2>4, <2>5, <2>6, <2>7, <2>10
<1>3. QED
  BY <1>1, <1>2 DEF Market!Finish

\* A market order may end at any time, as far as the exchange is concerned.
LEMMA MarketDoneRefines ==
    ASSUME IInv, MarketDone
    PROVE  Market!Finish
<1>1. /\ order[taker].type = "market" /\ call = "market" /\ call' = "none"
      /\ UNCHANGED <<active, order, shares, taker>>
  BY DEF MarketDone, Leave, IInv, Control, bookVars
<1>2. QED
  BY <1>1 DEF Market!Finish

\* Two formulas that are both false have the same value.
LEMMA BothFalse ==
    ASSUME NEW x, NEW y, NEW S, ~(x \in S), ~(y \in S)
    PROVE  (x \in S) = (y \in S)
<1>1. (x \in S) = FALSE
  OBVIOUS
<1>2. (y \in S) = FALSE
  OBVIOUS
<1>3. QED
  BY <1>1, <1>2

\* Every step of the book is a step of the exchange or leaves it alone.
LEMMA StepRefines ==
    IInv /\ CrossInv /\ RestInv /\ [Next]_vars => [Market!Next]_(Market!exchangeVars)
<1> SUFFICES ASSUME IInv, CrossInv, RestInv, [Next]_vars
             PROVE  Market!Next \/ UNCHANGED Market!exchangeVars
  OBVIOUS
<1>1. ASSUME NEW i \in Ids, NEW s \in Side, NEW n \in Lots, NEW d \in Ticks,
             NEW p \in Prices, SubmitLimit(i, s, p, n, d)
      PROVE  Market!Next
  <2>1. Market!Submit(i)
    BY <1>1, LimitOrderIsOrder, SubmitRefines DEF SubmitLimit, Enter
  <2>2. QED
    BY <2>1 DEF Market!Next
<1>2. ASSUME NEW i \in Ids, NEW s \in Side, NEW n \in Lots, NEW d \in Ticks,
             NEW f \in IF s = "buy" THEN Funds ELSE {NoCap}, SubmitMarket(i, s, n, f, d)
      PROVE  Market!Next
  <2>1. Market!Submit(i)
    BY <1>2, MarketOrderIsOrder, SubmitRefines DEF SubmitMarket, Enter
  <2>2. QED
    BY <2>1 DEF Market!Next
<1>3. ASSUME NEW b \in Ids, NEW a \in Ids, LimitMatch(b, a) PROVE Market!Next
  BY <1>3, LimitMatchRefines DEF Market!Next
<1>4. ASSUME NEW r \in Ids, MarketMatch(r) PROVE Market!Next
  BY <1>4, MarketMatchRefines DEF Market!Next
<1>5. ASSUME LimitDone \/ MarketDone PROVE Market!Next
  BY <1>5, LimitDoneRefines, MarketDoneRefines DEF Market!Next
<1>6. ASSUME NEW i \in Ids, CancelPop(i) PROVE Market!Next
  <2>1. Market!Cancel(i)
    BY <1>6 DEF CancelPop, Market!Cancel, IInv, Control
  <2>2. QED
    BY <2>1 DEF Market!Next
<1>7. ASSUME ResetActive PROVE Market!Next
  <2>1. /\ call = "reset active" /\ call' = "reset canceled" /\ active' = {}
        /\ UNCHANGED <<order, shares, taker>>
    BY <1>7 DEF ResetActive
  <2>2. ~(call \in {"limit", "market"}) /\ ~(call' \in {"limit", "market"})
    BY <2>1
  <2>3. (call' \in {"limit", "market"}) = (call \in {"limit", "market"})
    BY <2>2, BothFalse
  <2>4. Market!Reset
    BY <2>1, <2>2, <2>3, Zenon DEF Market!Reset
  <2>5. QED
    BY <2>4 DEF Market!Next
<1>8. ASSUME \/ ReadBBO \/ BBODone \/ CancelMark \/ ResetHeaps \/ ResetCanceled
             \/ \E b, a \in Ids : LimitSkip(b, a) \/ MarketSkip(b)
             \/ \E i \in Ids, s \in Side : BBOSkip(i, s)
             \/ UNCHANGED vars
      PROVE  UNCHANGED Market!exchangeVars
  <2>1. /\ UNCHANGED <<active, order, shares, taker>>
        /\ call' = call \/ {call, call'} \cap {"limit", "market"} = {}
    BY <1>8 DEF ReadBBO, BBODone, ResetHeaps, Enter, Leave, ResetCanceled, LimitSkip,
                MarketSkip, BBOSkip, PopTombstone, CancelMark, vars, bookVars
  <2>2. (call' \in {"limit", "market"}) = (call \in {"limit", "market"})
    <3>1. CASE call' = call
      BY <3>1
    <3>2. CASE {call, call'} \cap {"limit", "market"} = {}
      <4>1. ~(call \in {"limit", "market"}) /\ ~(call' \in {"limit", "market"})
        BY <3>2
      <4>2. QED
        BY <4>1, BothFalse
    <3>3. QED
      BY <2>1, <3>1, <3>2
  <2>3. QED
    BY <2>1, <2>2, Zenon DEF Market!exchangeVars
<1>9. QED
  BY <1>1, <1>2, <1>3, <1>4, <1>5, <1>6, <1>7, <1>8 DEF Next, LoopStep

\* The heaps with their tombstones, the lock and the threads implement one book
\* that trades best price first and oldest first, one submission at a time.
THEOREM ExchangeImplemented == Spec => ImplementsExchange
<1>1. Init => RestInv /\ Market!Init
  BY DEF Init, RestInv, Market!Init
<1>2. QED
  BY <1>1, NextRest, StepRefines, Invariance, CrossInvariance, PTL
     DEF Spec, ImplementsExchange, Market!Spec

(***************************************************************************)
(* The accounts of a submission: the shares and the money of its trades.   *)
(***************************************************************************)
Quantities == [n \in DOMAIN trades |-> trades[n].quantity]
Costs == [n \in DOMAIN trades |-> trades[n].quantity * trades[n].settled]

\* One more trade adds its shares and its price to the sums.
LEMMA TradeSums ==
    ASSUME trades \in Seq(Trade), NEW t \in Trade, trades' = Append(trades, t)
    PROVE  /\ SumFunction(Quantities) \in Int
           /\ SumFunction(Quantities)' = SumFunction(Quantities) + t.quantity
           /\ SumFunction(Costs) \in Int
           /\ SumFunction(Costs)' = SumFunction(Costs) + t.quantity * t.settled
           /\ Len(trades) \in Nat /\ Len(trades') = Len(trades) + 1
<1>1. PICK n \in Nat : n = Len(trades) /\ DOMAIN trades = 1 .. n
  OBVIOUS
<1>2. /\ Len(trades') = n + 1 /\ DOMAIN trades' = 1 .. (n + 1)
      /\ trades'[n + 1] = t /\ \A i \in 1 .. n : trades'[i] = trades[i] /\ trades[i] \in Trade
  BY <1>1
<1>3. \A u \in Trade : u.quantity \in Nat /\ u.settled \in Nat /\ u.quantity * u.settled \in Nat
  BY DEF Trade
<1>4. /\ SumFunction(Quantities) \in Int
      /\ SumFunction(Quantities)' = SumFunction(Quantities) + t.quantity
  <2>1. PICK f, g : f = Quantities /\ g = Quantities'
    OBVIOUS
  <2>2. DOMAIN f = 1 .. n /\ \A i \in 1 .. n : f[i] \in Int
    BY <1>1, <1>2, <1>3, <2>1 DEF Quantities
  <2>3. DOMAIN g = 1 .. (n + 1) /\ g[n + 1] = t.quantity /\ \A i \in 1 .. n : g[i] = f[i]
    BY <1>1, <1>2, <2>1 DEF Quantities
  <2>4. g[n + 1] \in Int
    BY <1>3, <2>3
  <2>5. SumFunction(f) \in Int /\ SumFunction(g) = SumFunction(f) + g[n + 1]
    BY <2>2, <2>3, <2>4, SumAppend
  <2> QED
    BY <2>1, <2>3, <2>5
<1>5. /\ SumFunction(Costs) \in Int
      /\ SumFunction(Costs)' = SumFunction(Costs) + t.quantity * t.settled
  <2>1. PICK f, g : f = Costs /\ g = Costs'
    OBVIOUS
  <2>2. DOMAIN f = 1 .. n /\ \A i \in 1 .. n : f[i] \in Int
    BY <1>1, <1>2, <1>3, <2>1 DEF Costs
  <2>3. DOMAIN g = 1 .. (n + 1) /\ g[n + 1] = t.quantity * t.settled /\ \A i \in 1 .. n : g[i] = f[i]
    BY <1>1, <1>2, <2>1 DEF Costs
  <2>4. g[n + 1] \in Int
    BY <1>3, <2>3
  <2>5. SumFunction(f) \in Int /\ SumFunction(g) = SumFunction(f) + g[n + 1]
    BY <2>2, <2>3, <2>4, SumAppend
  <2> QED
    BY <2>1, <2>3, <2>5
<1> QED
  BY <1>1, <1>2, <1>4, <1>5

\* What the trades cost is an integer.
LEMMA CostsInt ==
    ASSUME trades \in Seq(Trade)
    PROVE  SumFunction(Costs) \in Int
<1>1. DOMAIN Costs = 1 .. Len(trades) /\ Len(trades) \in Nat
  BY DEF Costs
<1>2. IsFiniteSet(DOMAIN Costs)
  BY <1>1, FS_Interval
<1>3. \A u \in Trade : u.quantity * u.settled \in Int
  BY DEF Trade
<1>4. \A n \in DOMAIN Costs : Costs[n] \in Int
  BY <1>3 DEF Costs
<1> QED
  BY <1>2, <1>4, SumInt DEF SumFunction

\* A submission starts with no trade.
LEMMA NoSums ==
    ASSUME trades' = <<>>
    PROVE  SumFunction(Quantities)' = 0 /\ SumFunction(Costs)' = 0 /\ Len(trades') = 0
<1>1. DOMAIN Quantities' = {} /\ DOMAIN Costs' = {}
  BY DEF Quantities, Costs
<1> QED
  BY <1>1, SumOfNone

\* Both parties of a trade lose the shares traded.
LEMMA CrossShares ==
    ASSUME TypeOK, NEW b \in Ids, NEW a \in Ids, b # a, NEW q \in Nat,
           NEW settled, NEW locked, Cross(b, a, q, settled, locked)
    PROVE  shares'[b] = shares[b] - q /\ shares'[a] = shares[a] - q
BY DEF TypeOK, Cross

\* A trade of execute takes its shares from the submitted order.
LEMMA LimitAccount ==
    ASSUME IInv, CrossInv, NEW b \in Ids, NEW a \in Ids, LimitMatch(b, a)
    PROVE  \E t \in Trade : /\ trades' = Append(trades, t)
                            /\ shares[taker] \in Nat
                            /\ shares'[taker] = shares[taker] - t.quantity
<1>1. lock = "loop" /\ b \in LiveTop("buy") /\ a \in LiveTop("sell")
  BY DEF LimitMatch, IInv, Control
<1>2. /\ b \in Live("buy") /\ order[b].price \in Nat /\ order[b].side = "buy"
      /\ a \in Live("sell") /\ order[a].price \in Nat /\ order[a].side = "sell"
  BY <1>1, LiveTopIsLive DEF Live, Side
<1>3. taker \in {b, a} /\ b # a
  BY <1>2 DEF LimitMatch, CrossInv
<1>4. shares[b] \in Nat /\ shares[a] \in Nat /\ TypeOK
  BY DEF IInv, TypeOK
<1>5. PICK q \in Nat : q = Least(shares[b], shares[a])
  BY <1>4 DEF Least
<1>6. SettledPrice(b, a) \in Nat
  BY <1>2 DEF SettledPrice
<1>7. PICK t \in Trade : t = [buyer |-> b, seller |-> a, quantity |-> q,
                              settled |-> SettledPrice(b, a), locked |-> order[b].price]
  BY <1>2, <1>6 DEF Trade
<1>8. trades' = Append(trades, t) /\ t.quantity = q
  BY <1>5, <1>7 DEF LimitMatch, Cross
<1>9. shares'[b] = shares[b] - q /\ shares'[a] = shares[a] - q
  BY <1>3, <1>4, <1>5, CrossShares DEF LimitMatch
<1> QED
  BY <1>3, <1>4, <1>8, <1>9

\* A trade of process_market_orders_ioc does too, and adds its cost, rounded
\* down, to total_spent when the order buys, which stays within the funds.
LEMMA MarketAccount ==
    ASSUME IInv, NEW r \in Ids, MarketMatch(r)
    PROVE  \E t \in Trade :
              /\ trades' = Append(trades, t)
              /\ shares[taker] \in Nat
              /\ shares'[taker] = shares[taker] - t.quantity
              /\ order[taker].side = "buy" =>
                    /\ spent' = spent + (t.quantity * t.settled) \div PM
                    /\ order[taker].funds # NoCap => spent' =< order[taker].funds
<1>1. /\ lock = "loop" /\ r \in LiveTop(Target) /\ Target \in Side
      /\ taker \in Ids /\ order[taker].type = "market" /\ taker \in Known
  BY DEF MarketMatch, IInv, Control, Known, Target, Other, Side
<1>2. order[r].price \in Nat /\ r # taker /\ r \in Known
  BY <1>1, LiveTopIsLive DEF IInv, Control, LiveTop
<1>3. shares[taker] \in Nat /\ shares[r] \in Nat /\ TypeOK
  BY <1>1 DEF IInv, TypeOK
<1>4. PICK q \in Nat : q = Least(shares[taker], shares[r])
  BY <1>3 DEF Least
<1>5. PICK b \in Ids, a \in Ids :
         /\ b # a /\ taker \in {b, a}
         /\ Cross(b, a, q, order[r].price, 0)
         /\ order[taker].side = "buy" => spent' = spent + Cost(r)
  BY <1>1, <1>2, <1>4 DEF MarketMatch
<1>6. PICK t \in Trade : t = [buyer |-> b, seller |-> a, quantity |-> q,
                              settled |-> order[r].price, locked |-> 0]
  BY <1>2 DEF Trade
<1>7. /\ trades' = Append(trades, t) /\ t.quantity = q
      /\ Cost(r) = (t.quantity * t.settled) \div PM
  BY <1>4, <1>5, <1>6 DEF Cross, Cost
<1>8. shares'[taker] = shares[taker] - q
  BY <1>3, <1>5, CrossShares
<1>9. ASSUME order[taker].side = "buy", order[taker].funds # NoCap
      PROVE  spent' =< order[taker].funds
  <2>1. order[taker].funds \in Nat
    BY <1>1, <1>9, KnownIsOrder, OrderFields DEF IInv
  <2>2. Cost(r) \in Nat
    BY <1>1, <1>2, CostIsNat
  <2>3. spent \in Nat
    BY DEF IInv, TypeOK
  <2>4. ~(spent + Cost(r) > order[taker].funds)
    BY <1>9 DEF MarketMatch, OverBudget
  <2> QED
    BY <1>5, <1>9, <2>1, <2>2, <2>3, <2>4
<1> QED
  BY <1>3, <1>5, <1>7, <1>8, <1>9

\* The steps that neither submit nor trade leave the shares alone as well.
LEMMA QuietAccount ==
    ASSUME \/ LimitDone \/ MarketDone \/ ReadBBO \/ BBODone \/ CancelMark
           \/ ResetHeaps \/ ResetActive \/ ResetCanceled
           \/ \E b, a \in Ids : LimitSkip(b, a) \/ MarketSkip(b) \/ CancelPop(b)
           \/ \E i \in Ids, s \in Side : BBOSkip(i, s)
           \/ UNCHANGED vars
    PROVE  UNCHANGED <<order, taker, trades, shares, spent>>
BY DEF LimitDone, MarketDone, ReadBBO, BBODone, CancelMark, CancelPop, ResetHeaps,
       ResetActive, ResetCanceled, LimitSkip, MarketSkip, BBOSkip, PopTombstone,
       vars, bookVars

\* What a submission starts from: the whole order, no trade, nothing spent.
LEMMA NewAccount ==
    ASSUME TypeOK, NEW i \in Ids, NEW tick \in Ticks, NEW o \in Order, NewOrder(i, o, tick)
    PROVE  /\ taker' = i /\ i # NoId /\ trades' = <<>>
           /\ order'[i].size = o.size /\ shares'[i] = o.size /\ o.size \in Nat
           /\ order'[i].type = o.type /\ order'[i].funds = o.funds
           /\ order'[i].side = o.side
<1>1. order \in [Ids -> Order \cup {NoOrder}] /\ shares \in [Ids -> Nat]
  BY DEF TypeOK
<1>2. order' = [order EXCEPT ![i] = [o EXCEPT !.stamp = Clock + tick]]
  BY DEF NewOrder
<1>3. /\ order'[i].size = o.size /\ order'[i].type = o.type /\ order'[i].funds = o.funds
      /\ order'[i].side = o.side
  BY <1>1, <1>2 DEF Order
<1> QED
  BY <1>1, <1>3, OrderFields, IdsAssumption DEF NewOrder

\* TradesAccount with the sum named.
LEMMA AccountIs ==
    TradesAccount <=> (taker # NoId =>
       order[taker].size = shares[taker] + SumFunction(Quantities))
BY DEF TradesAccount, Quantities

\* Every step keeps the account of the shares.
LEMMA NextTradesAccount ==
    IInv /\ CrossInv /\ TradesAccount /\ [Next]_vars => TradesAccount'
<1> SUFFICES ASSUME IInv, CrossInv, TradesAccount, [Next]_vars PROVE TradesAccount'
  OBVIOUS
<1>0. TypeOK /\ trades \in Seq(Trade)
  BY DEF IInv, TypeOK
<1>1. ASSUME NEW i \in Ids, NEW d \in Ticks, NEW o \in Order, NewOrder(i, o, d)
      PROVE  TradesAccount'
  <2>1. taker' = i /\ trades' = <<>> /\ order'[i].size = shares'[i] /\ shares'[i] \in Nat
    BY <1>0, <1>1, NewAccount
  <2>2. SumFunction(Quantities)' = 0
    BY <2>1, NoSums
  <2> QED
    BY <2>1, <2>2 DEF TradesAccount, Quantities
<1>2. ASSUME NEW t \in Trade, trades' = Append(trades, t), UNCHANGED <<order, taker>>,
             shares[taker] \in Nat, shares'[taker] = shares[taker] - t.quantity
      PROVE  TradesAccount'
  <2>1. /\ SumFunction(Quantities) \in Int
        /\ SumFunction(Quantities)' = SumFunction(Quantities) + t.quantity
    BY <1>0, <1>2, TradeSums
  <2>2. t.quantity \in Nat
    BY DEF Trade
  <2>3. taker # NoId => order[taker].size = shares[taker] + SumFunction(Quantities)
    BY AccountIs
  <2>4. (taker # NoId => order[taker].size = shares[taker] + SumFunction(Quantities))'
    BY <1>2, <2>1, <2>2, <2>3
  <2> QED
    BY <2>4 DEF TradesAccount, Quantities
<1>3. ASSUME NEW b \in Ids, NEW a \in Ids, LimitMatch(b, a) PROVE TradesAccount'
  <2>1. UNCHANGED <<order, taker>>
    BY <1>3 DEF LimitMatch
  <2> QED
    BY <1>2, <1>3, <2>1, LimitAccount
<1>4. ASSUME NEW r \in Ids, MarketMatch(r) PROVE TradesAccount'
  <2>1. UNCHANGED <<order, taker>>
    BY <1>4 DEF MarketMatch
  <2> QED
    BY <1>2, <1>4, <2>1, MarketAccount
<1>5. ASSUME UNCHANGED <<order, taker, trades, shares, spent>> PROVE TradesAccount'
  BY <1>5 DEF TradesAccount
<1>6. ASSUME NEW i \in Ids, NEW s \in Side, NEW n \in Lots, NEW d \in Ticks,
             NEW p \in Prices, SubmitLimit(i, s, p, n, d)
      PROVE  TradesAccount'
  BY <1>1, <1>6, LimitOrderIsOrder DEF SubmitLimit
<1>7. ASSUME NEW i \in Ids, NEW s \in Side, NEW n \in Lots, NEW d \in Ticks,
             NEW f \in IF s = "buy" THEN Funds ELSE {NoCap}, SubmitMarket(i, s, n, f, d)
      PROVE  TradesAccount'
  BY <1>1, <1>7, MarketOrderIsOrder DEF SubmitMarket
<1> QED
  BY <1>3, <1>4, <1>5, <1>6, <1>7, QuietAccount DEF Next, LoopStep

\* The trades returned to the caller account for every share the submitted
\* order lost, and so for everything the caller has to settle.
THEOREM TradesAccounted == Spec => []TradesAccount
<1>1. Init => TradesAccount
  BY DEF Init, TradesAccount
<1>2. QED
  BY <1>1, NextTradesAccount, Invariance, CrossInvariance, PTL DEF Spec

(***************************************************************************)
(* The budget of a market buy.  total_spent, the sum of the rounded costs, *)
(* stays within the funds, and each trade loses less than one unit by the  *)
(* rounding.                                                               *)
(***************************************************************************)
BudgetInv ==
    (taker # NoId /\ order[taker].type = "market" /\ order[taker].funds # NoCap) =>
       /\ order[taker].side = "buy"
       /\ spent =< order[taker].funds
       /\ SumFunction(Costs) =< spent * PM + Len(trades) * (PM - 1)

\* Rounding down loses less than one unit.
LEMMA DivLoss ==
    ASSUME NEW x \in Nat
    PROVE  x \div PM \in Nat /\ x =< (x \div PM) * PM + (PM - 1)
<1>1. PM \in Nat \ {0}
  BY DataAssumption
<1>2. x \div PM \in Nat /\ x % PM \in 0 .. (PM - 1) /\ x = PM * (x \div PM) + (x % PM)
  BY <1>1
<1> QED
  BY <1>1, <1>2

\* One more trade fits the bound when its rounded cost was added to total_spent.
LEMMA BudgetStep ==
    ASSUME NEW sum \in Int, NEW before \in Nat, NEW after, NEW n \in Nat, NEW x \in Nat,
           after = before + x \div PM,
           sum =< before * PM + n * (PM - 1)
    PROVE  sum + x =< after * PM + (n + 1) * (PM - 1)
<1>1. PICK c \in Nat : c = x \div PM /\ x =< c * PM + (PM - 1)
  BY DivLoss
<1>2. PM \in Nat \ {0}
  BY DataAssumption
<1>3. (before + c) * PM = before * PM + c * PM
  BY <1>2
<1>4. (n + 1) * (PM - 1) = n * (PM - 1) + (PM - 1)
  BY <1>2
<1>5. PICK u, v, w \in Int : u = before * PM /\ v = c * PM /\ w = n * (PM - 1)
  BY <1>2
<1>6. sum + x =< (u + v) + (w + (PM - 1))
  BY <1>1, <1>2, <1>5
<1> QED
  BY <1>1, <1>3, <1>4, <1>5, <1>6

\* Every step keeps the budget.
LEMMA NextBudgetInv == IInv /\ CrossInv /\ BudgetInv /\ [Next]_vars => BudgetInv'
<1> SUFFICES ASSUME IInv, CrossInv, BudgetInv, [Next]_vars PROVE BudgetInv'
  OBVIOUS
<1>0. TypeOK /\ trades \in Seq(Trade) /\ spent \in Nat
  BY DEF IInv, TypeOK
<1>1. ASSUME NEW i \in Ids, NEW s \in Side, NEW n \in Lots, NEW d \in Ticks,
             NEW p \in Prices, SubmitLimit(i, s, p, n, d)
      PROVE  BudgetInv'
  BY <1>0, <1>1, LimitOrderIsOrder, NewAccount DEF SubmitLimit, BudgetInv
<1>2. ASSUME NEW i \in Ids, NEW s \in Side, NEW n \in Lots, NEW d \in Ticks,
             NEW f \in IF s = "buy" THEN Funds ELSE {NoCap}, SubmitMarket(i, s, n, f, d)
      PROVE  BudgetInv'
  <2> DEFINE o == [side |-> s, type |-> "market", price |-> 0, size |-> n,
                   funds |-> f, stamp |-> 0]
  <2>1. o \in Order /\ NewOrder(i, o, d) /\ spent' = 0
    BY <1>2, MarketOrderIsOrder DEF SubmitMarket
  <2>2. taker' = i /\ trades' = <<>> /\ order'[i].funds = f /\ order'[i].side = s
    BY <1>0, <2>1, NewAccount
  <2>3. SumFunction(Costs)' = 0 /\ Len(trades') = 0
    BY <2>2, NoSums
  <2>4. f # NoCap => s = "buy" /\ f \in Nat
    BY Ranges
  <2>5. PM \in Nat
    BY DataAssumption
  <2> HIDE DEF o
  <2> QED
    BY <2>1, <2>2, <2>3, <2>4, <2>5 DEF BudgetInv, Side
<1>3. ASSUME NEW b \in Ids, NEW a \in Ids, LimitMatch(b, a) PROVE BudgetInv'
  <2>1. UNCHANGED <<order, taker>> /\ call = "limit"
    BY <1>3 DEF LimitMatch
  <2>2. order[taker].type = "limit"
    BY <2>1 DEF IInv, Control
  <2> QED
    BY <2>1, <2>2 DEF BudgetInv
<1>4. ASSUME NEW r \in Ids, MarketMatch(r) PROVE BudgetInv'
  <2>1. UNCHANGED <<order, taker>>
    BY <1>4 DEF MarketMatch
  <2>2. PICK t \in Trade :
           /\ trades' = Append(trades, t)
           /\ order[taker].side = "buy" =>
                 /\ spent' = spent + (t.quantity * t.settled) \div PM
                 /\ order[taker].funds # NoCap => spent' =< order[taker].funds
    BY <1>4, MarketAccount
  <2>3. /\ SumFunction(Costs) \in Int
        /\ SumFunction(Costs)' = SumFunction(Costs) + t.quantity * t.settled
        /\ Len(trades) \in Nat /\ Len(trades') = Len(trades) + 1
    BY <1>0, <2>2, TradeSums
  <2>4. PICK x \in Nat : x = t.quantity * t.settled
    BY DEF Trade
  <2>5. SUFFICES ASSUME taker # NoId, order[taker].type = "market", order[taker].funds # NoCap
                 PROVE  /\ order[taker].side = "buy" /\ spent' =< order[taker].funds
                        /\ SumFunction(Costs)' =< spent' * PM + Len(trades') * (PM - 1)
    BY <2>1 DEF BudgetInv
  <2>6. /\ order[taker].side = "buy"
        /\ SumFunction(Costs) =< spent * PM + Len(trades) * (PM - 1)
    BY <2>5 DEF BudgetInv
  <2>7. spent' = spent + x \div PM /\ spent' =< order[taker].funds
    BY <2>2, <2>4, <2>5, <2>6
  <2>8. SumFunction(Costs) + x =< spent' * PM + (Len(trades) + 1) * (PM - 1)
    BY <1>0, <2>3, <2>6, <2>7, BudgetStep
  <2> QED
    BY <2>3, <2>4, <2>6, <2>7, <2>8
<1>5. ASSUME UNCHANGED <<order, taker, trades, shares, spent>> PROVE BudgetInv'
  BY <1>5 DEF BudgetInv, Costs
<1> QED
  BY <1>1, <1>2, <1>3, <1>4, <1>5, QuietAccount DEF Next, LoopStep

\* What a market buy pays, before the rounding, exceeds the funds held for it by
\* less than one unit a trade.
THEOREM BudgetKept == Spec => []BudgetHeld
<1>1. Init => BudgetInv
  BY DEF Init, BudgetInv
<1>2. IInv /\ BudgetInv => BudgetHeld
  <2> SUFFICES ASSUME IInv, BudgetInv, taker # NoId, order[taker].type = "market",
                      order[taker].funds # NoCap
               PROVE  SumFunction(Costs) =< order[taker].funds * PM + Len(trades) * (PM - 1)
    BY DEF BudgetHeld, Costs
  <2>1. /\ spent =< order[taker].funds
        /\ SumFunction(Costs) =< spent * PM + Len(trades) * (PM - 1)
    BY DEF BudgetInv
  <2>2. taker \in Known /\ TypeOK /\ trades \in Seq(Trade) /\ spent \in Nat
    BY DEF IInv, Control, TypeOK
  <2>3. order[taker].funds \in Nat
    BY <2>2, KnownIsOrder, OrderFields
  <2>4. PM \in Nat /\ Len(trades) \in Nat
    BY <2>2, DataAssumption
  <2>5. SumFunction(Costs) \in Int
    BY <2>2, CostsInt
  <2>6. \A x, y \in Nat : x =< y => x * PM =< y * PM
    BY <2>4
  <2>7. spent * PM =< order[taker].funds * PM
    BY <2>1, <2>2, <2>3, <2>6
  <2>8. PICK u, v, w \in Int : /\ u = spent * PM /\ v = order[taker].funds * PM
                               /\ w = Len(trades) * (PM - 1)
    BY <2>2, <2>3, <2>4
  <2> QED
    BY <2>1, <2>5, <2>7, <2>8
<1>3. QED
  BY <1>1, <1>2, NextBudgetInv, Invariance, CrossInvariance, PTL DEF Spec
================================================================================
