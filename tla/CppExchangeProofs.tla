---------------------------- MODULE CppExchangeProofs ---------------------------
(***************************************************************************)
(* What the C++ order books promise to traders: no crossed book, the       *)
(* resting order's price, best price and oldest order first, exact quotes. *)
(* It all rests on the invariant of CppOrderBookProofs, for any tickers,   *)
(* orders and budgets, and holds while ~rewound: from the start, or from a *)
(* reset that finds no order in another book, until one that does.         *)
(***************************************************************************)
EXTENDS CppOrderBookProofs

(***************************************************************************)
(* What the steps do.                                                      *)
(***************************************************************************)
\* An order as process_order gets it.
Ordered(o) ==
    /\ o \in OrderRec /\ o.side \in Side /\ o.type \in {"limit", "market"}
    /\ o.shares = o.size /\ o.size \in Lots
    /\ ~o.canceled /\ o.shares > 0 /\ (o.type = "limit" => o.price \in Prices)
    /\ o.type = "market" => o.funds \in Funds \cup {NoCap}

\* What a caller hands over is one.
LEMMA CallerOrders ==
    ASSUME NEW side \in Side, NEW type \in {"limit", "market"}, NEW price \in Prices \cup {0},
           type = "limit" => price \in Prices,
           NEW size \in Lots, NEW funds \in Funds \cup {NoCap}
    PROVE  Ordered(NewOrder(side, type, price, size, funds))
<1> DEFINE o == NewOrder(side, type, price, size, funds)
<1>1. funds \in 0 .. NoCap
  BY DataAssumption, WordIsNat
<1>2. o \in OrderRec /\ o.side \in Side /\ o.canceled = FALSE
      /\ (o.type = "limit" => o.price \in Prices)
  BY <1>1, NewOrderType
<1>3. o.type = type /\ o.shares = size /\ o.size = size /\ o.funds = funds
  BY DEF NewOrder, Blank
<1>4. size > 0
  BY DataAssumption
<1>5. QED
  BY <1>2, <1>3, <1>4 DEF Ordered

\* A step that changes no order, no index, no list and no taker, and at most pops
\* entries of heaps.
Quiet ==
    /\ UNCHANGED <<arena, offset, slot, vault, active, rewound, taker, spent, trades>>
    /\ \A t \in Tickers, side \in Side : heap'[t][side] \subseteq heap[t][side]
    /\ call = "match" \/ call' = "match" => call' = call /\ at' = at

\* Dropping a tombstone is one.
LEMMA PopIsQuiet ==
    ASSUME IInv, NEW side \in Side, NEW s, Pop(side, s), call' = call, at' = at,
           UNCHANGED <<arena, offset, slot, vault, active, rewound, taker, spent, trades>>
    PROVE  Quiet
<1>1. heap \in [Tickers -> [Side -> SUBSET Slot]] /\ at \in Tickers
  BY DEF IInv, TypeOK
<1>2. \A t \in Tickers, sd \in Side : heap'[t][sd] \subseteq heap[t][sd]
  BY <1>1 DEF Pop
<1>3. QED
  BY <1>2 DEF Quiet

\* A submission, a trade, the end of a submission, a reset, a cancellation: the
\* other steps are quiet.
LEMMA Steps ==
    ASSUME IInv, [Next]_vars
    PROVE  \/ \E t \in Tickers, i \in Ids : \E o : Ordered(o) /\ Submit(t, i, o)
           \/ \E s \in Slot : Match(s)
           \/ Done
           \/ Reset /\ ~Racing
           \/ \E t \in Tickers : CancelMark(t)
           \/ Quiet
<1>1. ASSUME NEW t \in Tickers, LoopCalls(t)
      PROVE  Quiet \/ \E i \in Ids : \E o : Ordered(o) /\ Submit(t, i, o)
  <2>1. CASE ReadBBO(t)
    BY <2>1 DEF ReadBBO, Quiet, arenaVars, bookVars
  <2>2. ASSUME NEW i \in Ids, NEW side \in Side, NEW size \in Lots, NEW price \in Prices,
               Submit(t, i, NewOrder(side, "limit", price, size, NoCap))
        PROVE  \E o : Ordered(o) /\ Submit(t, i, o)
    BY <2>2, CallerOrders
  <2>3. ASSUME NEW i \in Ids, NEW side \in Side, NEW size \in Lots,
               NEW funds \in IF side = "buy" THEN Funds ELSE {NoCap},
               Submit(t, i, NewOrder(side, "market", 0, size, funds))
        PROVE  \E o : Ordered(o) /\ Submit(t, i, o)
    BY <2>3, CallerOrders
  <2>4. QED
    BY <1>1, <2>1, <2>2, <2>3 DEF LoopCalls
<1>2. ASSUME NEW t \in Tickers, NEW i \in Ids, CancelEnter(t, i) PROVE Quiet
  BY <1>2 DEF CancelEnter, Quiet, arenaVars, bookVars, resultVars
<1>3. ASSUME ResetEnter PROVE Quiet
  BY <1>3 DEF ResetEnter, Quiet, arenaVars, bookVars
<1>4. ASSUME NEW s \in Slot, Skip(s) PROVE Quiet
  <2>1. Target \in Side
    BY <1>4 DEF Skip, IInv, InHand, Target, Other, Side
  <2>2. QED
    BY <1>4, <2>1, PopIsQuiet DEF Skip, arenaVars, threadVars, resultVars
<1>5. ASSUME NEW s \in Slot, NEW side \in Side, BBOSkip(side, s) PROVE Quiet
  BY <1>5, PopIsQuiet DEF BBOSkip, arenaVars, threadVars, resultVars
<1>6. ASSUME BBODone PROVE Quiet
  BY <1>6 DEF BBODone, Quiet, arenaVars, bookVars
<1>7. ASSUME UNCHANGED vars PROVE Quiet
  BY <1>7 DEF Quiet, vars, arenaVars, bookVars, threadVars, resultVars
<1>8. QED
  BY <1>1, <1>2, <1>3, <1>4, <1>5, <1>6, <1>7 DEF Next, LoopSteps

\* The books' entries have slots, and are not the order in hand.
LEMMA RestingSlots ==
    ASSUME IInv, NEW t \in Books, NEW s \in Resting(t)
    PROVE  /\ t \in Tickers /\ s \in Slot /\ s \in Nat /\ s < offset /\ ~rewound
           /\ call = "match" => s # slot[taker]
           /\ arena[s] \in OrderRec /\ arena[s].meta \in DOMAIN vault[t]
           /\ slot[IdAt(t, s)] = s /\ IdAt(t, s) \in Ids /\ IdAt(t, s) \in Known
           /\ arena[s].type = "limit" /\ arena[s].price \in Nat /\ arena[s].stamp \in Nat
           /\ arena[s].shares > 0
<1>1. TypeOK /\ SlotsOwned /\ IndexAgrees /\ InHand /\ t \in Tickers /\ ~rewound
  BY DEF IInv, Books
<1>2. s \in Slot /\ s < offset /\ s \in Nat /\ arena[s] \in OrderRec
  BY <1>1, SlotIsNat DEF TypeOK, Resting, Side, SlotsOwned
<1>3. \E side \in Side : EntryAgrees(t, side, s)
  BY <1>1 DEF IndexAgrees, BookAgrees, Resting, Side
<1>4. /\ arena[s].meta \in DOMAIN vault[t] /\ slot[IdAt(t, s)] = s
      /\ arena[s].type = "limit" /\ arena[s].shares > 0
  BY <1>3 DEF EntryAgrees
<1>5. IdAt(t, s) \in Ids
  BY <1>1, <1>4 DEF TypeOK, IdAt
<1>6. arena[s].price \in Nat /\ arena[s].stamp \in Nat
  <2>1. arena[s].price \in Prices \cup {0} /\ arena[s].stamp \in Nat
    BY <1>2 DEF OrderRec
  <2>2. Prices \cup {0} \subseteq Nat
    BY DataAssumption, WordIsNat
  <2>3. QED
    BY <2>1, <2>2
<1>7. IdAt(t, s) \in Known
  BY <1>2, <1>4, <1>5 DEF Known, Unsent
<1>8. call = "match" => s # slot[taker]
  BY <1>1 DEF InHand
<1>9. QED
  BY <1>1, <1>2, <1>4, <1>5, <1>6, <1>7, <1>8

\* A submission writes one slot, which no book has, and one metadata entry.
LEMMA SubmitEffect ==
    ASSUME IInv, NEW t \in Tickers, NEW i \in Ids, NEW o, Ordered(o), Submit(t, i, o)
    PROVE  /\ Books' = Books /\ rewound' = rewound /\ i \notin Known /\ slot[i] = Unsent
           /\ offset \in Slot /\ taker' = i /\ at' = t /\ call = "none" /\ call' = "match"
           /\ slot'[taker'] = offset /\ Known' = Known \cup {i}
           /\ Taker'.side = o.side /\ Taker'.type = o.type /\ Taker'.price = o.price
           /\ Taker'.shares = o.shares /\ Taker'.size = o.size /\ Taker'.funds = o.funds
           /\ Taker'.stamp = Len(vault[t]) /\ Taker'.meta = Len(vault[t]) + 1
           /\ vault[t] \in Seq(Ids) /\ vault'[t] = Append(vault[t], i)
           /\ \A u \in Tickers \ {t} : vault'[u] = vault[u]
           /\ heap' = heap /\ active' = active /\ trades' = trades
           /\ \A u \in Books : \A s \in Resting(u) :
                 arena'[s] = arena[s] /\ IdAt(u, s)' = IdAt(u, s)
           /\ \A j \in Known : slot[j] # offset => slot'[j] = slot[j]
<1> DEFINE n == Len(vault[t])
           new == [o EXCEPT !.meta = n + 1, !.stamp = n]
<1>1. TypeOK /\ vault[t] \in Seq(Ids) /\ n \in Nat /\ offset \in Slot /\ o \in OrderRec
  BY DEF IInv, TypeOK, Submit, Ordered
<1>2. /\ new.side = o.side /\ new.type = o.type /\ new.price = o.price /\ new.funds = o.funds
      /\ new.shares = o.shares /\ new.size = o.size /\ new.stamp = n /\ new.meta = n + 1
  BY <1>1 DEF OrderRec
<1>3. /\ arena' = [arena EXCEPT ![offset] = new]
      /\ vault' = [vault EXCEPT ![t] = Append(@, i)]
      /\ slot' = [j \in Ids |-> IF j = i THEN offset
                                ELSE IF slot[j] = offset /\ ~Indexed(j) THEN Taken
                                ELSE slot[j]]
      /\ heap' = heap /\ active' = active /\ trades' = trades
      /\ rewound' = rewound /\ taker' = i /\ at' = t
      /\ call = "none" /\ call' = "match" /\ i \notin Known /\ slot[i] = Unsent
  BY DEF Submit, Books, Known
<1> HIDE DEF new, n
<1>4. /\ arena'[offset] = new /\ \A s \in Slot \ {offset} : arena'[s] = arena[s]
      /\ vault'[t] = Append(vault[t], i) /\ \A u \in Tickers \ {t} : vault'[u] = vault[u]
      /\ slot'[i] = offset /\ \A j \in Ids \ {i} : slot[j] # offset => slot'[j] = slot[j]
  BY <1>1, <1>3 DEF TypeOK
<1>5. Taker' = new
  BY <1>3, <1>4 DEF Taker
<1>6. Known' = Known \cup {i}
  <2>1. offset # Unsent
    BY <1>1, SlotIsNat DEF Unsent
  <2>2. \A j \in Ids \ {i} : slot'[j] # Unsent <=> slot[j] # Unsent
    BY <1>3, <2>1 DEF Unsent, Taken
  <2>3. QED
    BY <1>4, <2>1, <2>2 DEF Known
<1>7. Books' = Books
  BY <1>3 DEF Books
<1>8. ASSUME NEW u \in Books, NEW s \in Resting(u)
      PROVE  arena'[s] = arena[s] /\ IdAt(u, s)' = IdAt(u, s)
  <2>1. u \in Tickers /\ s \in Slot /\ s # offset /\ arena[s].meta \in DOMAIN vault[u]
    BY <1>1, RestingSlots, SlotIsNat
  <2>2. arena'[s] = arena[s]
    BY <1>4, <2>1
  <2>3. vault'[u][arena[s].meta] = vault[u][arena[s].meta]
    <3>1. CASE u = t
      BY <1>1, <1>4, <2>1, <3>1, AppendKeeps
    <3>2. CASE u # t
      BY <1>4, <2>1, <3>2
    <3>3. QED
      BY <3>1, <3>2
  <2>4. QED
    BY <2>2, <2>3 DEF IdAt
<1>9. \A j \in Known : slot[j] # offset => slot'[j] = slot[j]
  BY <1>3, <1>4 DEF Known
<1>10. QED
  BY <1>1, <1>2, <1>3, <1>4, <1>5, <1>6, <1>7, <1>8, <1>9 DEF n

\* All of an order but its shares and its mark.
Described(s) ==
    /\ arena'[s].side = arena[s].side /\ arena'[s].type = arena[s].type
    /\ arena'[s].price = arena[s].price /\ arena'[s].funds = arena[s].funds
    /\ arena'[s].stamp = arena[s].stamp /\ arena'[s].meta = arena[s].meta
    /\ arena'[s].size = arena[s].size

\* What a trade does to the list of trades, whatever heaps are confused.
LEMMA AnyMatch ==
    ASSUME IInv, NEW s \in Slot, Match(s)
    PROVE  /\ \A r \in Slot : Described(r)
           /\ UNCHANGED <<offset, slot, vault, call, at, taker, rewound>>
           /\ call = "match"
<1>1. arena \in [Slot -> OrderRec] /\ call = "match" /\ slot[taker] \in Slot
  BY DEF IInv, TypeOK, Match, InHand
<1>2. Quantity(s) \in 0 .. NoCap
  <2>1. Acceptable(s) /\ NoId \in Ids \cup {NoId}
    BY DEF Match, Blocked
  <2>2. QED
    BY <1>1, <2>1, TradeType
<1>3. arena' = Less(Less(arena, slot[taker], Quantity(s)), s, Quantity(s))
  BY DEF Match
<1>4. \A r \in Slot : Described(r)
  BY <1>1, <1>2, <1>3, SharesOnly DEF Described
<1>5. UNCHANGED <<offset, slot, vault, call, at, taker, rewound>>
  BY DEF Match, threadVars
<1>6. QED
  BY <1>1, <1>4, <1>5

\* A trade takes shares from two orders, and may take the resting one away.
LEMMA MatchEffect ==
    ASSUME IInv, ~rewound, NEW s \in Slot, Match(s)
    PROVE  LET trade == TradeWith(IdAt(at, s), s, Quantity(s))
           IN /\ \A r \in Slot : Described(r)
              /\ UNCHANGED <<offset, slot, vault, call, at, taker, rewound>>
              /\ trades' = Append(trades, trade)
              /\ trades \in Seq(Trade) /\ trade \in Trade
              /\ \A t \in Tickers, side \in Side : heap'[t][side] \subseteq heap[t][side]
              /\ \A t \in Tickers : active'[t] \subseteq active[t]
              /\ active' = IF arena'[s].shares = 0
                           THEN [active EXCEPT ![at] = @ \ {IdAt(at, s)}] ELSE active
<1>1. /\ arena \in [Slot -> OrderRec] /\ heap \in [Tickers -> [Side -> SUBSET Slot]]
      /\ active \in [Tickers -> SUBSET Ids] /\ at \in Tickers /\ trades \in Seq(Trade)
      /\ vault[at] \in Seq(Ids) /\ call = "match" /\ s \in LiveTop(at, Target)
      /\ Acceptable(s) /\ at \in Books
  BY DEF IInv, TypeOK, Match, Blocked, Books
<1>2. Target \in Side /\ s \in heap[at][Target]
  BY <1>1, Facing
<1>3. BookAgrees(at)
  BY <1>1 DEF IInv, IndexAgrees
<1>4. IdsAt(at, s) = {IdAt(at, s)} /\ IdAt(at, s) \in Ids
  BY <1>1, <1>2, <1>3, OwnId
<1>5. PICK i : i = IdAt(at, s) /\ i \in Ids
  BY <1>4
<1>6. /\ trades' = Append(trades, TradeWith(i, s, Quantity(s)))
      /\ IF arena'[s].shares = 0
         THEN Pop(Target, s) /\ active' = [active EXCEPT ![at] = @ \ {i}]
         ELSE heap' = heap /\ active' = active
  BY <1>4, <1>5 DEF Match
<1>7. TradeWith(i, s, Quantity(s)) \in Trade
  BY <1>1, <1>5, TradeType
<1>8. \A t \in Tickers, side \in Side : heap'[t][side] \subseteq heap[t][side]
  <2>1. CASE heap' = heap
    BY <2>1
  <2>2. CASE heap' = [heap EXCEPT ![at][Target] = @ \ {s}]
    BY <1>1, <2>2
  <2>3. QED
    BY <1>6, <2>1, <2>2 DEF Pop
<1>9. \A t \in Tickers : active'[t] \subseteq active[t]
  <2>1. CASE active' = active
    BY <2>1
  <2>2. CASE active' = [active EXCEPT ![at] = @ \ {i}]
    BY <1>1, <2>2
  <2>3. QED
    BY <1>6, <2>1, <2>2
<1>10. QED
  BY <1>1, <1>5, <1>6, <1>7, <1>8, <1>9, AnyMatch

\* A cancellation marks one order.
LEMMA CancelEffect ==
    ASSUME IInv, NEW t \in Tickers, CancelMark(t)
    PROVE  /\ \A r \in Slot : Described(r) /\ arena'[r].shares = arena[r].shares
           /\ UNCHANGED <<offset, slot, heap, vault, call, at, taker, trades, rewound>>
           /\ \A u \in Tickers : active'[u] \subseteq active[u]
<1>1. arena \in [Slot -> OrderRec] /\ active \in [Tickers -> SUBSET Ids]
  BY DEF IInv, TypeOK
<1>2. arena' = [arena EXCEPT ![slot[doomed[t]]].canceled = TRUE]
  BY DEF CancelMark, Tombstone
<1>3. ASSUME NEW r \in Slot PROVE Described(r) /\ arena'[r].shares = arena[r].shares
  <2>1. arena[r] \in OrderRec
    BY <1>1
  <2>2. arena'[r] = arena[r] \/ arena'[r] = [arena[r] EXCEPT !.canceled = TRUE]
    BY <1>1, <1>2
  <2>3. QED
    BY <2>1, <2>2 DEF Described, OrderRec
<1>4. UNCHANGED <<offset, slot, heap, vault, call, at, taker, trades, rewound>>
  BY DEF CancelMark, resultVars
<1>5. \A u \in Tickers : active'[u] \subseteq active[u]
  BY <1>1 DEF CancelMark
<1>6. QED
  BY <1>3, <1>4, <1>5

(***************************************************************************)
(* The best live orders.                                                   *)
(***************************************************************************)
\* The live top of a heap is the best live order of its side.
LEMMA TopIsBest ==
    ASSUME IInv, NEW t \in Books, NEW side \in Side, NEW s \in LiveTop(t, side)
    PROVE  /\ s \in Live(t, side) /\ s \in Resting(t) /\ arena[s].side = side
           /\ \A r \in Live(t, side) : ~Better(r, s)
<1>1. s \in heap[t][side] /\ ~arena[s].canceled /\ IsTop(t, side, s) /\ ~rewound
  BY DEF LiveTop, Books
<1>2. \A r \in heap[t][side] : r \in Resting(t) /\ EntryAgrees(t, side, r)
  BY DEF IInv, IndexAgrees, BookAgrees, Resting, Side
<1>3. s \in Live(t, side)
  BY <1>1, <1>2 DEF Live, EntryAgrees
<1>4. ASSUME NEW r \in Live(t, side) PROVE ~Better(r, s)
  <2>1. r \in heap[t][side] /\ (r = s \/ Ahead(s, r))
    BY <1>1, <1>4 DEF Live, IsTop
  <2>2. /\ arena[r].side = side /\ arena[s].side = side
        /\ arena[r].price \in Nat /\ arena[s].price \in Nat
    BY <1>1, <1>2, <2>1, RestingSlots DEF EntryAgrees
  <2>3. QED
    BY <2>1, <2>2 DEF Ahead, Better
<1>5. QED
  BY <1>1, <1>2, <1>3, <1>4 DEF EntryAgrees

\* What get_current_bbo returns for a side.
BestOf(side) ==
    \/ Live(at, side) = {} /\ bbo'[side] = 0
    \/ \E s \in Live(at, side) :
          bbo'[side] = arena[s].price /\ \A r \in Live(at, side) : ~Better(r, s)

\* It is read off the live tops.
LEMMA BBODoneBest ==
    ASSUME IInv, BBODone, at \in Books, NEW side \in Side
    PROVE  BestOf(side)
<1>1. PICK price \in Quotes(side) : bbo'[side] = price
  <2>1. PICK buy \in Quotes("buy"), sell \in Quotes("sell") :
          bbo' = [buy |-> buy, sell |-> sell]
    BY DEF BBODone
  <2>2. QED
    BY <2>1 DEF Side
<1>2. CASE heap[at][side] = {}
  BY <1>1, <1>2 DEF BestOf, Live, Quotes
<1>3. CASE heap[at][side] # {}
  <2>1. PICK s \in LiveTop(at, side) : price = arena[s].price
    BY <1>3 DEF Quotes
  <2>2. QED
    BY <1>1, <2>1, TopIsBest DEF BestOf
<1>4. QED
  BY <1>2, <1>3

\* Nothing else ends a get_current_bbo.
LEMMA OnlyBBODone ==
    ASSUME [Next]_vars, call = "bbo", call' = "none"
    PROVE  BBODone
<1>1. call' # call /\ Next
  BY DEF vars, threadVars
<1>2. QED
  BY <1>1 DEF Next, LoopCalls, LoopSteps, Submit, ReadBBO, CancelMark, CancelEnter,
     ResetEnter, Skip, Match, BBOSkip, Done, Reset, threadVars

\* A quote is the best price of the orders that can be filled, whatever workers
\* cancel before it is read, while no reset has given away slots of books other
\* than its own.
THEOREM BestPrices == Spec => BBOExact
<1>1. IInv /\ [Next]_vars =>
        [call = "bbo" /\ call' = "none" /\ at \in Books =>
           \A side \in Side :
              \/ Live(at, side) = {} /\ bbo'[side] = 0
              \/ \E s \in Live(at, side) :
                    bbo'[side] = arena[s].price /\ \A r \in Live(at, side) : ~Better(r, s)]_vars
  BY OnlyBBODone, BBODoneBest DEF BestOf
<1>2. QED
  BY <1>1, Inductive, PTL DEF Spec, BBOExact

(***************************************************************************)
(* No crossed book.                                                        *)
(***************************************************************************)
\* Fewer live orders at the same prices cannot cross.
LEMMA FewerUncrossed ==
    ASSUME Uncrossed,
           \A t \in Books' : \/ t \in Books /\ \A side \in Side : Live(t, side)' \subseteq Live(t, side)
                             \/ \E side \in Side : Live(t, side)' = {},
           \A t \in Books, side \in Side : \A s \in Live(t, side)' : arena'[s].price = arena[s].price
    PROVE  Uncrossed'
BY DEF Uncrossed, Side

\* A step that leaves names and prices and only takes orders out.
LEMMA ShrinkUncrossed ==
    ASSUME IInv, Uncrossed, \A s \in Slot : Described(s), vault' = vault, rewound' = rewound,
           \A t \in Tickers, side \in Side : heap'[t][side] \subseteq heap[t][side],
           \A t \in Tickers : active'[t] \subseteq active[t]
    PROVE  Uncrossed'
<1>1. Books' = Books /\ Books \subseteq Tickers /\ heap \in [Tickers -> [Side -> SUBSET Slot]]
  BY DEF Books, IInv, TypeOK
<1>2. ASSUME NEW t \in Books, NEW side \in Side, NEW s \in Live(t, side)'
      PROVE  s \in Live(t, side) /\ arena'[s].price = arena[s].price
  <2>1. s \in heap[t][side] /\ s \in Slot /\ IdAt(t, s)' \in active[t]
    BY <1>1, <1>2 DEF Live
  <2>2. IdAt(t, s)' = IdAt(t, s) /\ arena'[s].price = arena[s].price
    BY <2>1 DEF IdAt, Described
  <2>3. QED
    BY <2>1, <2>2 DEF Live
<1>3. \A t \in Books, side \in Side : Live(t, side)' \subseteq Live(t, side)
  BY <1>2
<1>4. QED
  BY <1>1, <1>2, <1>3, FewerUncrossed

\* The best live order that faces what is left of a limit order is too far away, so
\* they all are.
LEMMA NoneAccepted ==
    ASSUME IInv, ~rewound, Done, Taker.type = "limit", Taker.shares > 0,
           NEW r \in Live(at, Target)
    PROVE  IF Taker.side = "buy" THEN Taker.price < arena[r].price
                                 ELSE arena[r].price < Taker.price
<1>1. /\ call = "match" /\ at \in Books /\ slot[taker] \in Slot /\ Taker.side \in Side
      /\ Target \in Side /\ Target = Other(Taker.side)
  BY DEF Done, IInv, TypeOK, InHand, Books, Target, Other, Side
<1>2. PICK s \in LiveTop(at, Target) : Blocked(s)
  BY DEF Done, Stops, Live
<1>3. s \in Resting(at) /\ arena[s].side = Target /\ ~Better(r, s)
  BY <1>1, <1>2, TopIsBest
<1>4. r \in Resting(at) /\ r \in heap[at][Target]
  BY <1>1 DEF Live, Resting, Side
<1>5. arena[r].side = Target
  BY <1>1, <1>4 DEF IInv, IndexAgrees, BookAgrees, EntryAgrees
<1>6. arena[s].price \in Nat /\ arena[r].price \in Nat /\ arena[s].shares > 0
  BY <1>1, <1>3, <1>4, RestingSlots
<1>7. Taker.price \in Nat
  <2>1. Prices \subseteq Nat
    BY DataAssumption, WordIsNat
  <2>2. Taker.price \in Prices
    BY <1>1 DEF IInv, Priced, Taker
  <2>3. QED
    BY <2>1, <2>2
<1>8. ~OverBudget(s)
  BY DEF OverBudget, Capped
<1>9. ~Acceptable(s)
  BY <1>2, <1>8 DEF Blocked
<1>10. QED
  BY <1>1, <1>3, <1>5, <1>6, <1>7, <1>9 DEF Acceptable, Better, Other, Side

\* What is left of a limit order joins its side when nothing live of the other
\* side would have been accepted.
LEMMA DoneUncrossed ==
    ASSUME IInv, ~rewound, Uncrossed, Done
    PROVE  Uncrossed'
<1>1. PICK k \in Books, m \in Slot, own \in Side, facing \in Side :
        /\ k = at /\ m = slot[taker] /\ own = Taker.side /\ facing = Other(own)
        /\ arena[m] = Taker
  BY DEF Done, IInv, TypeOK, InHand, Books, Taker, Other, Side
<1>2. /\ call = "match" /\ k \in Tickers /\ taker \in Ids /\ IdAt(k, m) = taker
      /\ Target = facing /\ own # facing /\ arena[m].side = own /\ m \notin Resting(k)
      /\ \A side \in Side : side = own \/ side = facing
  BY <1>1 DEF Done, IInv, InHand, Books, Taker, Target, Other, Side
<1>3. UNCHANGED <<arena, vault, rewound>> /\ Books' = Books /\ Books \subseteq Tickers
  BY DEF Done, arenaVars, Books
<1>4. CASE UNCHANGED <<heap, active>>
  BY <1>3, <1>4 DEF Uncrossed, Live, IdAt
<1>5. CASE Taker.type = "limit" /\ Taker.shares > 0
  <2>1. /\ heap' = [heap EXCEPT ![k][own] = @ \cup {m}]
        /\ active' = [active EXCEPT ![k] = @ \cup {taker}]
    BY <1>1, <1>5 DEF Done, Rest
  <2>2. heap \in [Tickers -> [Side -> SUBSET Slot]] /\ active \in [Tickers -> SUBSET Ids]
    BY DEF IInv, TypeOK
  <2>3. /\ heap'[k][own] = heap[k][own] \cup {m} /\ heap'[k][facing] = heap[k][facing]
        /\ active'[k] = active[k] \cup {taker}
        /\ \A t \in Tickers \ {k} : heap'[t] = heap[t] /\ active'[t] = active[t]
    BY <1>2, <2>1, <2>2
  <2>4. \A t, s : IdAt(t, s)' = IdAt(t, s)
    BY <1>3 DEF IdAt
  <2>5. \A t \in Books \ {k}, side \in Side : Live(t, side)' = Live(t, side)
    BY <1>3, <2>3, <2>4 DEF Live
  <2>6. ASSUME NEW side \in Side, NEW s \in Live(k, side)', s # m
        PROVE  s \in Live(k, side)
    <3>1. s \in heap[k][side] /\ IdAt(k, s) \in active[k] \cup {taker}
      BY <1>2, <2>3, <2>4, <2>6 DEF Live
    <3>2. slot[IdAt(k, s)] = s
      BY <1>1, <3>1, RestingSlots DEF Resting, Side
    <3>3. IdAt(k, s) # taker
      BY <1>1, <2>6, <3>2
    <3>4. QED
      BY <3>1, <3>3 DEF Live
  <2>7. m \notin Live(k, facing)'
    BY <1>2, <2>3 DEF Live, Resting, Side
  <2>8. ASSUME NEW r \in Live(k, facing)
        PROVE  IF own = "buy" THEN arena[m].price < arena[r].price
                              ELSE arena[r].price < arena[m].price
    BY <1>1, <1>2, <1>5, <2>8, NoneAccepted
  <2>9. ASSUME NEW b \in Live(k, "buy")', NEW a \in Live(k, "sell")'
        PROVE  arena[b].price < arena[a].price
    <3>1. CASE b # m /\ a # m
      BY <1>1, <2>6, <2>9, <3>1 DEF Uncrossed, Side
    <3>2. CASE own = "buy" /\ b = m
      <4>1. facing = "sell"
        BY <1>1, <3>2 DEF Other
      <4>2. a # m /\ a \in Live(k, facing)
        BY <2>6, <2>7, <2>9, <4>1
      <4>3. QED
        BY <2>8, <3>2, <4>2
    <3>3. CASE own = "sell" /\ a = m
      <4>1. facing = "buy"
        BY <1>1, <3>3 DEF Other
      <4>2. b # m /\ b \in Live(k, facing)
        BY <2>6, <2>7, <2>9, <4>1
      <4>3. QED
        BY <2>8, <3>3, <4>2
    <3>4. (b = m => own = "buy") /\ (a = m => own = "sell")
      BY <1>2, <2>7, <2>9 DEF Side
    <3>5. QED
      BY <3>1, <3>2, <3>3, <3>4
  <2>10. ASSUME NEW t \in Books, NEW b \in Live(t, "buy")', NEW a \in Live(t, "sell")'
         PROVE  arena[b].price < arena[a].price
    <3>1. CASE t = k
      BY <2>9, <2>10, <3>1
    <3>2. CASE t # k
      BY <2>5, <2>10, <3>2 DEF Uncrossed, Side
    <3>3. QED
      BY <3>1, <3>2
  <2>11. QED
    BY <1>3, <2>10 DEF Uncrossed
<1>6. QED
  BY <1>4, <1>5 DEF Done, Rest

\* Every step keeps the books uncrossed.
LEMMA NextUncrossed == IInv /\ Uncrossed /\ [Next]_vars => Uncrossed'
<1> SUFFICES ASSUME IInv, Uncrossed, [Next]_vars, ~rewound' PROVE Uncrossed'
  BY DEF Uncrossed, Books
<1>1. ASSUME NEW t \in Tickers, NEW i \in Ids, NEW o, Ordered(o), Submit(t, i, o)
      PROVE  Uncrossed'
  <2>1. /\ Books' = Books /\ heap' = heap /\ active' = active
        /\ \A u \in Books : \A s \in Resting(u) :
              arena'[s] = arena[s] /\ IdAt(u, s)' = IdAt(u, s)
    BY <1>1, SubmitEffect
  <2>2. ASSUME NEW u \in Books, NEW side \in Side, NEW s \in Live(u, side)'
        PROVE  s \in Live(u, side) /\ arena'[s].price = arena[s].price
    <3>1. s \in heap[u][side] /\ s \in Resting(u) /\ IdAt(u, s)' \in active[u]
      BY <2>1, <2>2 DEF Live, Resting, Side
    <3>2. QED
      BY <2>1, <3>1 DEF Live
  <2>3. QED
    BY <2>1, <2>2, FewerUncrossed
<1>2. ASSUME NEW s \in Slot, Match(s) PROVE Uncrossed'
  <2>1. ~rewound
    BY <1>2 DEF Match
  <2>2. QED
    BY <1>2, <2>1, MatchEffect, ShrinkUncrossed
<1>3. CASE Done
  BY <1>3, DoneUncrossed DEF Done
<1>4. CASE Reset
  <2>1. /\ Books' \subseteq {t \in Tickers : ~Occupied(t)} \cup {at} /\ at \in Tickers
        /\ heap' = [heap EXCEPT ![at] = [s \in Side |-> {}]]
    BY <1>4 DEF Reset, Books, IInv, TypeOK
  <2>2. heap \in [Tickers -> [Side -> SUBSET Slot]]
    BY DEF IInv, TypeOK
  <2>3. ASSUME NEW t \in Books' PROVE Live(t, "buy")' = {}
    <3>1. CASE t = at
      BY <2>1, <2>2, <3>1 DEF Live, Side
    <3>2. CASE t # at /\ t \in Tickers /\ ~Occupied(t)
      BY <2>1, <2>2, <3>2 DEF Live, Occupied, Side
    <3>3. QED
      BY <2>1, <2>3, <3>1, <3>2 DEF Books
  <2>4. QED
    BY <2>3 DEF Uncrossed
<1>5. ASSUME NEW t \in Tickers, CancelMark(t) PROVE Uncrossed'
  BY <1>5, CancelEffect, ShrinkUncrossed
<1>6. CASE Quiet
  BY <1>6, ShrinkUncrossed DEF Quiet, Described
<1>7. QED
  BY <1>1, <1>2, <1>3, <1>4, <1>5, <1>6, Steps

\* No two live orders of a book could trade with each other, while no reset has
\* given away slots of books other than its own.
THEOREM BooksUncrossed == Spec => []Uncrossed
<1>1. Init => Uncrossed
  BY DEF Init, Uncrossed, Live, Books, Side
<1>2. QED
  BY <1>1, NextUncrossed, Inductive, PTL DEF Spec

(***************************************************************************)
(* Who arrived first, and who sets the price.                              *)
(***************************************************************************)
\* A book's clock counts its metadata entries, and an id has one entry.
Clocked ==
    /\ \A t \in Books : \A s \in Resting(t) : arena[s].meta = arena[s].stamp + 1
    /\ call = "match" /\ ~rewound =>
          Taker.meta = Taker.stamp + 1 /\ Taker.meta = Len(vault[at])
Entered ==
    \A t \in Tickers :
       /\ \A n \in DOMAIN vault[t] : vault[t][n] \in Known
       /\ \A m, n \in DOMAIN vault[t] : vault[t][m] = vault[t][n] => m = n
\* The other side of a trade of the order in hand.
Maker(trade) == IF trade.buyer = taker THEN trade.seller ELSE trade.buyer
FairTrade(trade) ==
    /\ slot[Maker(trade)] \in Slot
    /\ trade.settled = arena[slot[Maker(trade)]].price
    /\ Taker.side = "buy" /\ Taker.type = "limit" => trade.locked >= trade.settled
FairTrades ==
    /\ call # "match" => trades = <<>>
    /\ call = "match" /\ ~rewound => \A n \in DOMAIN trades : FairTrade(trades[n])
Arrivals == Clocked /\ Entered /\ FairTrades

\* A step that adds no metadata entry, no trade and no order to a heap, and
\* changes none's description, keeps all of that.
LEMMA KeepsArrivals ==
    ASSUME IInv, Arrivals, \A s \in Slot : Described(s),
           UNCHANGED <<slot, vault, rewound, taker, trades>>,
           \A t \in Tickers, side \in Side : heap'[t][side] \subseteq heap[t][side],
           call = "match" \/ call' = "match" => call' = call /\ at' = at
    PROVE  Arrivals'
<1>1. Books' = Books /\ Books \subseteq Tickers /\ Known' = Known
  BY DEF Books, Known
<1>2. \A t \in Books : Resting(t)' \subseteq Resting(t)
  BY <1>1 DEF Resting, Side
<1>3. call = "match" => slot[taker] \in Slot
  BY DEF IInv, InHand
<1>4. Clocked'
  <2>1. \A t \in Books : \A s \in Resting(t)' : arena'[s].meta = arena'[s].stamp + 1
    BY <1>2, RestingSlots DEF Arrivals, Clocked, Described
  <2>2. call' = "match" /\ ~rewound' =>
          (Taker.meta)' = (Taker.stamp)' + 1 /\ (Taker.meta)' = Len(vault'[at'])
    BY <1>3 DEF Arrivals, Clocked, Described, Taker
  <2>3. QED
    BY <1>1, <2>1, <2>2 DEF Clocked
<1>5. Entered'
  BY <1>1 DEF Arrivals, Entered
<1>6. FairTrades'
  <2>1. ASSUME call' = "match", ~rewound, NEW n \in DOMAIN trades
        PROVE  FairTrade(trades[n])'
    <3>1. FairTrade(trades[n]) /\ Described(slot[taker])
      BY <1>3, <2>1 DEF Arrivals, FairTrades
    <3>2. Maker(trades[n])' = Maker(trades[n]) /\ slot' = slot /\ taker' = taker
      BY DEF Maker
    <3>3. Described(slot[Maker(trades[n])])
      BY <3>1 DEF FairTrade
    <3>4. QED
      BY <3>1, <3>2, <3>3 DEF FairTrade, Described, Taker
  <2>2. QED
    BY <2>1 DEF Arrivals, FairTrades
<1>7. QED
  BY <1>4, <1>5, <1>6 DEF Arrivals

\* Of confused books little is claimed.
LEMMA StaleArrivals ==
    ASSUME Arrivals, rewound', slot' = slot, vault' = vault, call' # "match" => trades' = <<>>
    PROVE  Arrivals'
<1>1. Books' = {} /\ Known' = Known
  BY DEF Books, Known
<1>2. QED
  BY <1>1 DEF Arrivals, Clocked, Entered, FairTrades

\* A trade of the order in hand is at the resting order's price.
LEMMA MatchArrivals ==
    ASSUME IInv, ~rewound, Arrivals, NEW s \in Slot, Match(s)
    PROVE  Arrivals'
<1> DEFINE trade == TradeWith(IdAt(at, s), s, Quantity(s))
<1>1. /\ \A r \in Slot : Described(r)
      /\ UNCHANGED <<offset, slot, vault, call, at, taker, rewound>>
      /\ trades' = Append(trades, trade) /\ trades \in Seq(Trade) /\ trade \in Trade
      /\ \A t \in Tickers, side \in Side : heap'[t][side] \subseteq heap[t][side]
  BY MatchEffect
<1>2. /\ call = "match" /\ at \in Books /\ at \in Tickers /\ taker \in Ids
      /\ Taker.side \in Side /\ Target \in Side /\ s \in LiveTop(at, Target) /\ Acceptable(s)
      /\ slot[taker] \in Slot
  BY DEF Match, Blocked, IInv, TypeOK, InHand, Books, Target, Other, Side
<1>3. s \in Resting(at)
  BY <1>2, TopIsBest
<1>4. /\ slot[IdAt(at, s)] = s /\ s # slot[taker] /\ arena[s].meta \in DOMAIN vault[at]
      /\ arena[s].price \in Nat /\ arena[s].stamp \in Nat
  BY <1>2, <1>3, RestingSlots
<1>5. Settled(s) = arena[s].price
  <2>1. /\ arena[s].meta = arena[s].stamp + 1
        /\ Taker.meta = Taker.stamp + 1 /\ Taker.meta = Len(vault[at])
    BY <1>2, <1>3 DEF Arrivals, Clocked
  <2>2. vault[at] \in Seq(Ids) /\ Taker.stamp \in Nat
    BY <1>2 DEF IInv, TypeOK, Taker, OrderRec
  <2>3. ~(Taker.stamp < arena[s].stamp)
    BY <1>4, <2>1, <2>2
  <2>4. arena[s].price # 0
    <3>1. arena[s].price \in Prices
      BY <1>2, Facing
    <3>2. QED
      BY <3>1, DataAssumption
  <2>5. QED
    BY <2>3, <2>4 DEF Settled
<1>6. FairTrade(trade)
  <2>1. Maker(trade) = IdAt(at, s)
    BY <1>2, <1>4 DEF Maker, TradeWith
  <2>2. trade.settled = arena[s].price
    BY <1>5 DEF TradeWith
  <2>3. Taker.side = "buy" /\ Taker.type = "limit" => trade.locked >= arena[s].price
    BY <1>2 DEF TradeWith, Acceptable
  <2>4. QED
    BY <1>4, <2>1, <2>2, <2>3 DEF FairTrade
<1> HIDE DEF trade
<1>7. ASSUME NEW x, FairTrade(x) PROVE FairTrade(x)'
  <2>1. Maker(x)' = Maker(x) /\ Described(slot[Maker(x)]) /\ Described(slot[taker])
    BY <1>1, <1>2, <1>7 DEF Maker, FairTrade
  <2>2. QED
    BY <1>1, <1>7, <2>1 DEF FairTrade, Described, Taker
<1>8. FairTrades'
  <2>1. \A n \in DOMAIN trades' : trades'[n] = trade \/ (n \in DOMAIN trades /\ trades'[n] = trades[n])
    BY <1>1
  <2>2. \A n \in DOMAIN trades' : FairTrade(trades'[n])
    BY <1>2, <1>6, <2>1 DEF Arrivals, FairTrades
  <2>3. \A n \in DOMAIN trades' : FairTrade(trades[n])'
    BY <1>1, <1>7, <2>2 DEF FairTrade
  <2>4. QED
    BY <1>1, <1>2, <2>3 DEF FairTrades
<1>9. Clocked' /\ Entered'
  <2>1. Books' = Books /\ Known' = Known /\ \A t \in Books : Resting(t)' \subseteq Resting(t)
    BY <1>1 DEF Books, Known, Resting, Side
  <2>2. \A t \in Books : \A r \in Resting(t)' : arena'[r].meta = arena'[r].stamp + 1
    BY <1>1, <2>1, RestingSlots DEF Arrivals, Clocked, Described
  <2>3. (Taker.meta)' = (Taker.stamp)' + 1 /\ (Taker.meta)' = Len(vault'[at'])
    BY <1>1, <1>2 DEF Arrivals, Clocked, Described, Taker
  <2>4. QED
    BY <1>1, <2>1, <2>2, <2>3 DEF Arrivals, Clocked, Entered
<1>10. QED
  BY <1>8, <1>9 DEF Arrivals

\* A submission is stamped last in its book.
LEMMA SubmitArrivals ==
    ASSUME IInv, Arrivals, NEW t \in Tickers, NEW i \in Ids, NEW o, Ordered(o), Submit(t, i, o)
    PROVE  Arrivals'
<1> DEFINE n == Len(vault[t])
<1>1. /\ Books' = Books /\ i \notin Known /\ at' = t /\ call = "none" /\ call' = "match"
      /\ Known' = Known \cup {i} /\ (Taker.stamp)' = n /\ (Taker.meta)' = n + 1
      /\ vault[t] \in Seq(Ids) /\ vault'[t] = Append(vault[t], i)
      /\ \A u \in Tickers \ {t} : vault'[u] = vault[u]
      /\ heap' = heap /\ trades' = trades
      /\ \A u \in Books : \A s \in Resting(u) : arena'[s] = arena[s]
  BY SubmitEffect
<1>2. Clocked'
  <2>1. \A u \in Books : Resting(u)' = Resting(u)
    BY <1>1 DEF Resting
  <2>2. Len(vault'[t]) = n + 1
    BY <1>1
  <2>3. QED
    BY <1>1, <2>1, <2>2 DEF Arrivals, Clocked
<1>3. Entered'
  <2>1. \A m \in DOMAIN vault[t] : vault[t][m] \in Known
        /\ \A k \in DOMAIN vault[t] : vault[t][m] = vault[t][k] => m = k
    BY DEF Arrivals, Entered
  <2>2. \A m \in DOMAIN vault'[t] : \/ m \in DOMAIN vault[t] /\ vault'[t][m] = vault[t][m]
                                    \/ m = n + 1 /\ vault'[t][m] = i
    BY <1>1
  <2>3. /\ \A m \in DOMAIN vault'[t] : vault'[t][m] \in Known'
        /\ \A m, k \in DOMAIN vault'[t] : vault'[t][m] = vault'[t][k] => m = k
    BY <1>1, <2>1, <2>2
  <2>4. QED
    BY <1>1, <2>3 DEF Arrivals, Entered
<1>4. FairTrades'
  BY <1>1 DEF Arrivals, FairTrades
<1>5. QED
  BY <1>2, <1>3, <1>4 DEF Arrivals

\* The order that rests is in hand until then.
LEMMA DoneArrivals ==
    ASSUME IInv, ~rewound, Arrivals, Done
    PROVE  Arrivals'
<1>1. /\ UNCHANGED <<arena, slot, vault, rewound>> /\ call' = "none" /\ trades' = <<>>
      /\ call = "match" /\ Books' = Books /\ Known' = Known
  BY DEF Done, arenaVars, Books, Known
<1>2. \A t \in Books : \A s \in Resting(t)' : s \in Resting(t) \/ s = slot[taker]
  <2>1. \/ heap' = heap
        \/ heap' = [heap EXCEPT ![at][Taker.side] = @ \cup {slot[taker]}]
    BY DEF Done, Rest
  <2>2. heap \in [Tickers -> [Side -> SUBSET Slot]] /\ Books \subseteq Tickers
    BY DEF IInv, TypeOK, Books
  <2>3. \A t \in Books, side \in Side : heap'[t][side] \subseteq heap[t][side] \cup {slot[taker]}
    BY <2>1, <2>2
  <2>4. QED
    BY <2>3 DEF Resting, Side
<1>3. Clocked'
  BY <1>1, <1>2 DEF Arrivals, Clocked, Taker
<1>4. QED
  BY <1>1, <1>3 DEF Arrivals, Entered, FairTrades

\* Every step keeps the order of arrival and the makers' prices.
LEMMA NextArrivals == IInv /\ Arrivals /\ [Next]_vars => Arrivals'
<1> SUFFICES ASSUME IInv, Arrivals, [Next]_vars PROVE Arrivals'
  OBVIOUS
<1>1. CASE Reset
  <2>1. /\ Books' \subseteq {t \in Tickers : ~Occupied(t)} \cup {at} /\ at \in Tickers
        /\ heap' = [heap EXCEPT ![at] = [s \in Side |-> {}]]
        /\ vault' = [vault EXCEPT ![at] = <<>>] /\ slot' = slot /\ trades' = trades
        /\ call = "reset" /\ call' = "none"
    BY <1>1 DEF Reset, Books, IInv, TypeOK, resultVars
  <2>2. heap \in [Tickers -> [Side -> SUBSET Slot]] /\ vault \in [Tickers -> Seq(Ids)]
    BY DEF IInv, TypeOK
  <2>3. ASSUME NEW t \in Books' PROVE Resting(t)' = {}
    <3>1. CASE t = at
      BY <2>1, <2>2, <3>1 DEF Resting, Side
    <3>2. CASE t # at /\ t \in Tickers /\ ~Occupied(t)
      BY <2>1, <2>2, <3>2 DEF Resting, Occupied, Side
    <3>3. QED
      BY <2>1, <2>3, <3>1, <3>2 DEF Books
  <2>4. Entered'
    <3>1. vault'[at] = <<>> /\ \A t \in Tickers \ {at} : vault'[t] = vault[t]
      BY <2>1, <2>2
    <3>2. Known' = Known
      BY <2>1 DEF Known
    <3>3. QED
      BY <3>1, <3>2 DEF Arrivals, Entered
  <2>5. QED
    BY <2>1, <2>3, <2>4 DEF Arrivals, Clocked, FairTrades
<1>2. ASSUME NEW t \in Tickers, CancelMark(t) PROVE Arrivals'
  BY <1>2, CancelEffect, KeepsArrivals
<1>3. CASE Quiet
  BY <1>3, KeepsArrivals DEF Quiet, Described
<1>4. ASSUME NEW s \in Slot, Match(s) PROVE Arrivals'
  <2>1. CASE ~rewound
    BY <1>4, <2>1, MatchArrivals
  <2>2. CASE rewound
    <3>1. UNCHANGED <<slot, vault, call, rewound>> /\ call = "match"
      BY <1>4, AnyMatch
    <3>2. QED
      BY <2>2, <3>1, StaleArrivals
  <2>3. QED
    BY <2>1, <2>2
<1>5. CASE Done
  <2>1. CASE ~rewound
    BY <1>5, <2>1, DoneArrivals
  <2>2. CASE rewound
    <3>1. UNCHANGED <<slot, vault, rewound>> /\ trades' = <<>>
      BY <1>5 DEF Done, arenaVars
    <3>2. QED
      BY <2>2, <3>1, StaleArrivals
  <2>3. QED
    BY <2>1, <2>2
<1>6. QED
  BY <1>1, <1>2, <1>3, <1>4, <1>5, SubmitArrivals, Steps

\* It holds from the start on.
LEMMA ArrivalsHold == Spec => []Arrivals
<1>1. Init => Arrivals
  BY DEF Init, Arrivals, Clocked, Entered, FairTrades, Resting, Books, Side
<1>2. QED
  BY <1>1, NextArrivals, Inductive, PTL DEF Spec

\* Every trade that is reported is at the price of the order that was in the book,
\* and a limit buyer's reported lock covers it, whatever is canceled meanwhile,
\* while no reset has given away slots of books other than its own.
THEOREM MakerSetsPrice == Spec => []MakerPrice
<1>1. IInv /\ Arrivals => MakerPrice
  BY DEF Arrivals, FairTrades, FairTrade, Maker, MakerPrice, Books
<1>2. QED
  BY <1>1, ArrivalsHold, Inductive, PTL

\* Only a match reports a trade.
LEMMA OnlyMatch ==
    ASSUME IInv, [Next]_vars, Len(trades') > Len(trades)
    PROVE  \E s \in Slot : Match(s)
<1>1. Len(trades) \in Nat
  BY DEF IInv, TypeOK
<1>2. trades' # trades /\ trades' # <<>>
  BY <1>1
<1>3. CASE Quiet \/ Reset \/ Done \/ \E t \in Tickers : CancelMark(t)
  BY <1>2, <1>3 DEF Quiet, Reset, Done, CancelMark, resultVars
<1>4. ASSUME NEW t \in Tickers, NEW i \in Ids, NEW o, Submit(t, i, o) PROVE FALSE
  BY <1>2, <1>4 DEF Submit
<1>5. QED
  BY <1>3, <1>4, Steps

\* The trade of a match is with the best live order, the oldest at its price.
LEMMA MatchPriority ==
    ASSUME IInv, ~rewound, Arrivals, NEW s \in Slot, Match(s)
    PROVE  /\ slot[Maker(trades'[Len(trades')])] = s
           /\ \A r \in Live(at, Target) \ {s} :
                 /\ ~Better(r, s)
                 /\ arena[r].price = arena[s].price => ~EarlierArrival(at, r, s)
<1>1. /\ call = "match" /\ at \in Books /\ at \in Tickers /\ taker \in Ids
      /\ Taker.side \in Side /\ Target \in Side /\ s \in LiveTop(at, Target)
  BY DEF Match, IInv, TypeOK, InHand, Books, Target, Other, Side
<1>2. s \in Resting(at) /\ arena[s].side = Target /\ \A r \in Live(at, Target) : ~Better(r, s)
  BY <1>1, TopIsBest
<1>3. /\ slot[IdAt(at, s)] = s /\ s # slot[taker] /\ arena[s].meta \in DOMAIN vault[at]
      /\ arena[s].price \in Nat /\ arena[s].stamp \in Nat /\ arena[s].meta = arena[s].stamp + 1
  BY <1>1, <1>2, RestingSlots DEF Arrivals, Clocked
<1>4. trades'[Len(trades')] = TradeWith(IdAt(at, s), s, Quantity(s))
  BY MatchEffect
<1>5. slot[Maker(trades'[Len(trades')])] = s
  BY <1>1, <1>3, <1>4 DEF Maker, TradeWith
<1>6. ASSUME NEW r \in Live(at, Target) \ {s}, arena[r].price = arena[s].price
      PROVE  ~EarlierArrival(at, r, s)
  <2>1. r \in heap[at][Target] /\ r \in Resting(at) /\ Ahead(s, r)
    BY <1>1, <1>6 DEF Live, Resting, Side, LiveTop, IsTop
  <2>2. /\ arena[r].price \in Nat /\ arena[r].stamp \in Nat /\ arena[r].meta \in DOMAIN vault[at]
        /\ arena[r].meta = arena[r].stamp + 1
    BY <1>1, <2>1, RestingSlots DEF Arrivals, Clocked
  <2>3. arena[s].meta < arena[r].meta
    BY <1>3, <1>6, <2>1, <2>2 DEF Ahead, Better
  <2>4. ASSUME NEW m \in DOMAIN vault[at], NEW n \in DOMAIN vault[at],
               vault[at][m] = IdAt(at, r), vault[at][n] = IdAt(at, s)
        PROVE  m = arena[r].meta /\ n = arena[s].meta
    BY <1>1, <1>3, <2>2, <2>4 DEF Arrivals, Entered, IdAt
  <2>5. DOMAIN vault[at] \subseteq Nat
    BY <1>1 DEF IInv, TypeOK
  <2>6. QED
    BY <2>2, <2>3, <2>4, <2>5, <1>3 DEF EarlierArrival
<1>7. QED
  BY <1>2, <1>5, <1>6

\* Price-time priority in every book: the live order a trade takes is the best, and
\* of equals the one that was submitted first, whatever workers cancel, while no
\* reset has given away slots of books other than its own.
THEOREM PriorityKept == Spec => PriceTimePriority
<1>1. IInv /\ Arrivals /\ [Next]_vars =>
        [Len(trades') > Len(trades) /\ at \in Books =>
           LET trade == trades'[Len(trades')]
               s == slot[IF trade.buyer = taker THEN trade.seller ELSE trade.buyer]
           IN \A r \in Live(at, Target) \ {s} :
                 /\ ~Better(r, s)
                 /\ arena[r].price = arena[s].price => ~EarlierArrival(at, r, s)]_vars
  BY OnlyMatch, MatchPriority DEF Maker, Books
<1>2. QED
  BY <1>1, ArrivalsHold, Inductive, PTL DEF Spec, PriceTimePriority

(***************************************************************************)
(* The book of ResetTicker implements the exchange.                        *)
(***************************************************************************)
\* Only that book is reset, and no two orders have the same slot.
Single ==
    /\ call = "reset" => at = ResetTicker
    /\ ~rewound =>
          \A i, j \in Ids : slot[i] = slot[j] /\ slot[i] \in Slot /\ slot[i] < offset => i = j
LEMMA ResetTickerBooked == ~rewound => ResetTicker \in Books
BY NamesAssumption DEF Books

\* An order in the index is where the index says.
LEMMA ActiveSlots ==
    ASSUME IInv, NEW t \in Books, NEW i \in active[t]
    PROVE  /\ i \in Ids /\ slot[i] \in Slot /\ slot[i] \in Resting(t)
           /\ IdAt(t, slot[i]) = i /\ OrderOf(i) = arena[slot[i]]
           /\ OrderOf(i).side \in Side /\ slot[i] \in Live(t, OrderOf(i).side)
           /\ slot[i] \in heap[t][OrderOf(i).side]
<1>1. PICK s \in Resting(t) : i = IdAt(t, s)
  BY DEF IInv, IndexAgrees, BookAgrees
<1>2. slot[i] = s /\ s \in Slot /\ i \in Ids
  BY <1>1, RestingSlots
<1>3. PICK side \in Side : s \in heap[t][side]
  BY DEF Resting, Side
<1>4. arena[s].side = side
  BY <1>3 DEF IInv, IndexAgrees, BookAgrees, EntryAgrees
<1>5. QED
  BY <1>1, <1>2, <1>3, <1>4 DEF OrderOf, Live

\* Every step keeps one order to a slot.
LEMMA NextSingle == IInv /\ Single /\ [Next]_vars => Single'
<1> SUFFICES ASSUME IInv, Single, [Next]_vars PROVE Single'
  OBVIOUS
<1>1. call' = "reset" => at' = ResetTicker
  <2>1. ASSUME call' = "reset", call' # call PROVE at' = ResetTicker
    <3>1. Next
      BY <2>1 DEF vars, threadVars
    <3>2. ~LoopSteps
      BY <2>1 DEF LoopSteps, Skip, Match, BBOSkip, BBODone, Done, Reset, threadVars
    <3>3. \A t \in Tickers : ~CancelMark(t) /\ ~ReadBBO(t) /\ \A i \in Ids : ~CancelEnter(t, i)
      BY <2>1 DEF CancelMark, ReadBBO, CancelEnter
    <3>4. \A t, i, o : ~Submit(t, i, o)
      BY <2>1 DEF Submit
    <3>5. ResetEnter
      BY <3>1, <3>2, <3>3, <3>4 DEF Next, LoopCalls
    <3>6. QED
      BY <3>5 DEF ResetEnter
  <2>2. ASSUME call = "reset", call' = call PROVE at' = at
    BY <2>2 DEF Next, LoopCalls, LoopSteps, Submit, ReadBBO, CancelMark, CancelEnter,
       ResetEnter, Skip, Match, BBOSkip, BBODone, Done, Reset, threadVars, vars
  <2>3. QED
    BY <2>1, <2>2 DEF Single
<1>2. CASE UNCHANGED <<slot, offset, rewound>>
  BY <1>1, <1>2 DEF Single
<1>3. ASSUME NEW t \in Tickers, NEW i \in Ids, NEW o, Submit(t, i, o) PROVE Single'
  <2>1. /\ rewound' = rewound /\ offset \in Slot /\ offset' = offset + 1
        /\ slot' = [j \in Ids |-> IF j = i THEN offset
                                  ELSE IF slot[j] = offset /\ ~Indexed(j) THEN Taken
                                  ELSE slot[j]]
    BY <1>3 DEF Submit, NextOffset
  <2>2. Taken \notin Slot /\ Slot \subseteq Nat
    BY SlotIsNat DEF Taken
  <2>3. ASSUME ~rewound, NEW j \in Ids, Indexed(j) PROVE slot[j] # offset
    <3>1. PICK u \in Tickers : j \in active[u]
      BY <2>3 DEF Indexed
    <3>2. u \in Books
      BY <2>3 DEF Books
    <3>3. slot[j] \in Resting(u)
      BY <3>1, <3>2, ActiveSlots
    <3>4. slot[j] < offset /\ slot[j] \in Nat /\ offset \in Nat
      BY <2>1, <2>2, <3>2, <3>3, RestingSlots
    <3>5. QED
      BY <3>4
  <2>4. ASSUME ~rewound, NEW j \in Ids, slot'[j] \in Slot, slot'[j] < offset + 1
        PROVE  \/ j = i /\ slot'[j] = offset
               \/ j # i /\ slot'[j] = slot[j] /\ slot[j] # offset /\ slot[j] < offset
    <3>1. CASE j = i
      BY <2>1, <3>1
    <3>2. CASE j # i
      <4>1. slot'[j] = slot[j] /\ slot[j] # offset
        BY <2>1, <2>2, <2>3, <2>4, <3>2
      <4>2. slot[j] \in Nat /\ offset \in Nat /\ slot[j] < offset + 1
        BY <2>1, <2>2, <2>4, <4>1
      <4>3. slot[j] < offset
        BY <4>1, <4>2
      <4>4. QED
        BY <3>2, <4>1, <4>3
    <3>3. QED
      BY <3>1, <3>2
  <2>5. QED
    BY <1>1, <2>1, <2>4 DEF Single
<1>4. CASE Reset
  <2>1. offset' = 0
    BY <1>4 DEF Reset
  <2>2. \A s \in Slot : ~(s < 0)
    BY SlotIsNat
  <2>3. \A i \in Ids : ~(slot'[i] \in Slot /\ slot'[i] < offset')
    BY <2>1, <2>2
  <2>4. QED
    BY <1>1, <2>3 DEF Single
<1>5. CASE Done \/ \E s \in Slot : Match(s)
  BY <1>2, <1>5 DEF Done, Match, arenaVars
<1>6. CASE \E t \in Tickers : CancelMark(t)
  BY <1>2, <1>6 DEF CancelMark
<1>7. CASE Quiet
  BY <1>2, <1>7 DEF Quiet
<1>8. QED
  BY <1>3, <1>4, <1>5, <1>6, <1>7, Steps

\* It holds from the start on.
LEMMA SingleHolds == Spec => []Single
<1>1. Init => Single
  BY NamesAssumption, SlotIsNat DEF Init, Single, Unsent
<1>2. QED
  BY <1>1, NextSingle, Inductive, PTL DEF Spec

\* The exchange's words in those of the book.
LEMMA Terms ==
    ASSUME NEW i \in Ids, NEW j \in Ids
    PROVE  /\ Market!Opposite(i, j) <=> {OrderOf(i).side, OrderOf(j).side} = {"buy", "sell"}
           /\ Market!Beats(i, j) <=>
                 \/ OrderOf(i).side = "buy" /\ OrderOf(i).price > OrderOf(j).price
                 \/ OrderOf(i).side = "sell" /\ OrderOf(i).price < OrderOf(j).price
                 \/ OrderOf(i).price = OrderOf(j).price /\ OrderOf(i).stamp < OrderOf(j).stamp
BY DEF Market!Opposite, Market!Beats
LEMMA AcceptableTerm ==
    ASSUME NEW m \in Ids, taker \in Ids
    PROVE  Market!Acceptable(m) <=>
             \/ OrderOf(taker).type = "market"
             \/ OrderOf(taker).side = "buy" /\ OrderOf(taker).price >= OrderOf(m).price
             \/ OrderOf(taker).side = "sell" /\ OrderOf(taker).price =< OrderOf(m).price
BY DEF Market!Acceptable

\* What an order asked for.
Asked(i) == <<OrderOf(i).side, OrderOf(i).type, OrderOf(i).price, OrderOf(i).stamp>>
SameOrder(i) == Asked(i)' = Asked(i)
LEMMA SameTerm ==
    ASSUME NEW i \in Ids, SameOrder(i)
    PROVE  [f \in {"side", "type", "price", "stamp"} |-> OrderOf(i)[f]]'
           = [f \in {"side", "type", "price", "stamp"} |-> OrderOf(i)[f]]
BY DEF SameOrder, Asked

\* The orders that can be filled.
Fillable ==
    active[ResetTicker]
    \cup (IF Running /\ Taker.type = "limit" /\ Taker.shares > 0 THEN {taker} ELSE {})

\* A fill of the exchange, in the words of the book.
LEMMA FillTerm ==
    ASSUME NEW m \in Ids, taker \in Ids, m # taker, NEW q \in Nat, q > 0,
           Running, Running', taker' = taker, \A i \in Ids : SameOrder(i),
           OrderOf(m).shares \in Nat, OrderOf(taker).shares \in Nat, OrderOf(taker).shares > 0,
           (OrderOf(m).shares)' = OrderOf(m).shares - q,
           (OrderOf(taker).shares)' = OrderOf(taker).shares - q,
           \A i \in Ids \ {m, taker} : (OrderOf(i).shares)' = OrderOf(i).shares,
           \/ (OrderOf(m).shares)' = 0 \/ (OrderOf(taker).shares)' = 0
           \/ OrderOf(taker).type = "market" /\ OrderOf(taker).side = "buy",
           Fillable \subseteq Ids, Fillable' = {i \in Fillable : (OrderOf(i).shares)' > 0},
           Market!Candidate(m), Market!Acceptable(m)
    PROVE  Market!Next
<1> DEFINE wanted == [i \in Ids |-> OrderOf(i).shares]
           orders == [i \in Ids |-> [f \in {"side", "type", "price", "stamp"} |-> OrderOf(i)[f]]]
<1>1. orders' = orders
  BY SameTerm
<1>2. wanted[m] - wanted'[m] = q /\ wanted[taker] > 0
  OBVIOUS
<1>3. wanted' = [wanted EXCEPT ![m] = @ - q, ![taker] = @ - q]
  OBVIOUS
<1>4. \/ wanted'[m] = 0 \/ wanted'[taker] = 0
      \/ orders[taker].type = "market" /\ orders[taker].side = "buy"
  <2>1. orders[taker].type = OrderOf(taker).type /\ orders[taker].side = OrderOf(taker).side
    OBVIOUS
  <2>2. wanted'[m] = (OrderOf(m).shares)' /\ wanted'[taker] = (OrderOf(taker).shares)'
    OBVIOUS
  <2> HIDE DEF wanted, orders
  <2>3. QED
    BY <2>1, <2>2
<1>5. Fillable' = {i \in Fillable : wanted'[i] > 0}
  OBVIOUS
<1>6. Running' = Running
  OBVIOUS
<1>7. Market!Fill(m, q)
  BY <1>1, <1>2, <1>3, <1>4, <1>5, <1>6 DEF Market!Fill, Market!Budgeted, Fillable
<1>8. QED
  BY <1>2, <1>7 DEF Market!Next

\* What faces the taker at the top of a heap is a candidate of the exchange.
LEMMA TopIsCandidate ==
    ASSUME IInv, ~rewound, call = "match", at = ResetTicker, NEW s \in LiveTop(at, Target)
    PROVE  Market!Candidate(IdAt(at, s))
<1> DEFINE m == IdAt(at, s)
<1>1. /\ at \in Books /\ taker \in Ids /\ slot[taker] \in Slot /\ Taker.side \in Side
      /\ Target \in Side /\ Target = Other(Taker.side) /\ OrderOf(taker) = Taker
  BY DEF IInv, TypeOK, InHand, Books, Target, Other, Side, OrderOf, Taker
<1>2. /\ s \in Live(at, Target) /\ s \in Resting(at) /\ arena[s].side = Target
      /\ m \in Ids /\ slot[m] = s /\ s \in Slot /\ m \in active[at]
  BY <1>1, TopIsBest, RestingSlots DEF Live
<1>3. OrderOf(m) = arena[s]
  BY <1>2 DEF OrderOf
<1> HIDE DEF m
<1>4. Market!Opposite(m, taker)
  BY <1>1, <1>2, <1>3, Terms DEF Other, Side
<1>5. ASSUME NEW i \in Fillable, OrderOf(i).side = OrderOf(m).side PROVE ~Market!Beats(i, m)
  <2>1. i \in active[at]
    BY <1>1, <1>2, <1>3, <1>5 DEF Fillable, Other, Side
  <2>2. /\ i \in Ids /\ OrderOf(i) = arena[slot[i]] /\ slot[i] \in heap[at][Target]
        /\ slot[i] \in Resting(at)
    BY <1>1, <1>2, <1>3, <1>5, <2>1, ActiveSlots
  <2>3. /\ arena[slot[i]].price \in Nat /\ arena[slot[i]].stamp \in Nat
        /\ arena[s].price \in Nat /\ arena[s].stamp \in Nat
    BY <1>1, <1>2, <2>2, RestingSlots
  <2>4. slot[i] = s \/ Ahead(s, slot[i])
    BY <2>2 DEF LiveTop, IsTop
  <2>5. QED
    BY <1>1, <1>2, <1>3, <1>5, <2>2, <2>3, <2>4, Terms DEF Ahead, Better, Side
<1>6. \A i \in Fillable : i \in Ids
  BY <1>1, ActiveSlots DEF Fillable
<1>7. \A i \in Fillable :
        [j \in Ids |-> [f \in {"side", "type", "price", "stamp"} |-> OrderOf(j)[f]]][i].side
        = OrderOf(i).side
  BY <1>6
<1>8. QED
  BY <1>1, <1>2, <1>4, <1>5, <1>7 DEF Market!Candidate, Fillable, m

\* A number of the word is itself modulo the word.
LEMMA NoWrap == ASSUME NEW n \in 0 .. NoCap PROVE n % Word = n
BY DataAssumption DEF NoCap

\* No step but a submission changes what an order asked for.
LEMMA OrdersSame ==
    ASSUME slot' = slot, \A s \in Slot : Described(s), NEW i \in Ids
    PROVE  SameOrder(i)
BY DEF SameOrder, Asked, OrderOf, Described

\* A budget never buys more than is offered.
Modest ==
    call = "match" /\ ~rewound => \A s \in LiveTop(at, Target) : Quantity(s) =< Offered(s)

\* A trade takes the same number of shares from the two orders.
LEMMA MatchShares ==
    ASSUME IInv, ~rewound, Modest, NEW s \in Slot, Match(s)
    PROVE  /\ Quantity(s) \in Nat /\ Quantity(s) > 0
           /\ Taker.shares \in Nat /\ arena[s].shares \in Nat /\ s # slot[taker]
           /\ arena'[slot[taker]].shares = Taker.shares - Quantity(s)
           /\ arena'[s].shares = arena[s].shares - Quantity(s)
           /\ Capped \/ arena'[s].shares = 0 \/ arena'[slot[taker]].shares = 0
           /\ \A r \in Slot \ {s, slot[taker]} : arena'[r] = arena[r]
<1> DEFINE q == Quantity(s)
           m == slot[taker]
<1>1. /\ s \in LiveTop(at, Target) /\ call = "match" /\ m \in Slot /\ Taker = arena[m]
      /\ arena \in [Slot -> OrderRec] /\ Acceptable(s) /\ ~(OverBudget(s) /\ q = 0)
      /\ Taker.shares > 0
  BY DEF Match, Blocked, IInv, InHand, Taker, TypeOK
<1>2. /\ s # m /\ arena[s] \in OrderRec /\ arena[m] \in OrderRec
      /\ EntryAgrees(at, Target, s) /\ q \in 0 .. NoCap
  <2>1. /\ s # m /\ arena[s] \in OrderRec /\ Taker \in OrderRec
        /\ EntryAgrees(at, Target, s)
    BY <1>1, Facing
  <2>2. NoId \in Ids \cup {NoId}
    OBVIOUS
  <2>3. q \in 0 .. NoCap
    BY <1>1, <2>2, TradeType
  <2>4. QED
    BY <1>1, <2>1, <2>3
<1>3. /\ arena[s].shares \in 0 .. NoCap /\ arena[m].shares \in 0 .. NoCap
      /\ arena[s].shares > 0 /\ arena[m].shares > 0
  BY <1>1, <1>2 DEF OrderRec, EntryAgrees
<1>4. q =< Offered(s) /\ Offered(s) = Least(arena[m].shares, arena[s].shares)
      /\ (Capped \/ q = Offered(s)) /\ q # 0
  <2>1. q =< Offered(s) /\ Offered(s) = Least(arena[m].shares, arena[s].shares)
    BY <1>1 DEF Modest, Offered
  <2>2. OverBudget(s) => Capped
    BY DEF OverBudget
  <2>3. OverBudget(s) \/ q = Offered(s)
    BY DEF Quantity
  <2>4. Offered(s) # 0
    BY <1>3, <2>1 DEF Least
  <2>5. QED
    BY <1>1, <2>1, <2>2, <2>3, <2>4
<1>5. arena' = Less(Less(arena, m, q), s, q)
  BY DEF Match
<1> HIDE DEF q, m
<1>6. /\ arena[s].shares - q \in 0 .. NoCap /\ arena[m].shares - q \in 0 .. NoCap
      /\ Capped \/ arena[s].shares - q = 0 \/ arena[m].shares - q = 0
  BY <1>2, <1>3, <1>4, WordIsNat DEF Least
<1>7. /\ arena'[s].shares = (arena[s].shares - q) % Word
      /\ arena'[m].shares = (arena[m].shares - q) % Word
      /\ \A r \in Slot \ {s, m} : arena'[r] = arena[r]
  BY <1>1, <1>2, <1>5, SharesOnly
<1>8. arena'[s].shares = arena[s].shares - q /\ arena'[m].shares = arena[m].shares - q
  BY <1>6, <1>7, NoWrap
<1>9. q \in Nat /\ q > 0 /\ arena[s].shares \in Nat /\ arena[m].shares \in Nat
  BY <1>2, <1>3, <1>4, WordIsNat
<1>10. QED
  BY <1>1, <1>2, <1>6, <1>7, <1>8, <1>9 DEF q, m

(***************************************************************************)
(* The accounts of a submission: the shares of its trades.                 *)
(***************************************************************************)
Quantities == [n \in DOMAIN trades |-> trades[n].quantity]
\* There are trades only while a submission runs, and they and what the order in
\* hand still wants are what it asked for.
Accounted ==
    /\ call # "match" => trades = <<>>
    /\ call = "match" /\ ~rewound =>
          Taker.size = Taker.shares + SumFunction(Quantities)

\* One more trade adds its shares to the sum.
LEMMA QuantitiesSum ==
    ASSUME trades \in Seq(Trade), NEW t \in Trade, trades' = Append(trades, t)
    PROVE  /\ SumFunction(Quantities) \in Int
           /\ SumFunction(Quantities)' = SumFunction(Quantities) + t.quantity
<1>1. PICK n \in Nat : n = Len(trades) /\ DOMAIN trades = 1 .. n
  OBVIOUS
<1>2. /\ DOMAIN trades' = 1 .. (n + 1) /\ trades'[n + 1] = t
      /\ \A i \in 1 .. n : trades'[i] = trades[i] /\ trades[i] \in Trade
  BY <1>1
<1>3. \A u \in Trade : u.quantity \in Int
  BY WordIsNat DEF Trade
<1>4. PICK f, g : f = Quantities /\ g = Quantities'
  OBVIOUS
<1>5. DOMAIN f = 1 .. n /\ \A i \in 1 .. n : f[i] \in Int
  BY <1>1, <1>2, <1>3, <1>4 DEF Quantities
<1>6. DOMAIN g = 1 .. (n + 1) /\ g[n + 1] = t.quantity /\ \A i \in 1 .. n : g[i] = f[i]
  BY <1>1, <1>2, <1>4 DEF Quantities
<1>7. g[n + 1] \in Int
  BY <1>3, <1>6
<1>8. SumFunction(f) \in Int /\ SumFunction(g) = SumFunction(f) + g[n + 1]
  BY <1>5, <1>6, <1>7, SumAppend
<1> QED
  BY <1>4, <1>6, <1>8

\* What a trade takes from the order in hand is in its list.
LEMMA MatchAccounted ==
    ASSUME IInv, ~rewound, Modest, Accounted, NEW s \in Slot, Match(s)
    PROVE  Accounted'
<1> DEFINE trade == TradeWith(IdAt(at, s), s, Quantity(s))
<1>1. /\ call = "match" /\ slot[taker] \in Slot /\ \A r \in Slot : Described(r)
      /\ UNCHANGED <<slot, call, taker>>
      /\ trades' = Append(trades, trade)
      /\ trades \in Seq(Trade) /\ trade \in Trade /\ trade.quantity = Quantity(s)
  BY MatchEffect DEF Match, IInv, InHand, TradeWith
<1>2. /\ Quantity(s) \in Nat /\ Taker.shares \in Nat
      /\ arena'[slot[taker]].shares = Taker.shares - Quantity(s)
  BY MatchShares
<1>3. /\ SumFunction(Quantities) \in Int
      /\ SumFunction(Quantities)' = SumFunction(Quantities) + Quantity(s)
  BY <1>1, QuantitiesSum
<1>4. Taker' = arena'[slot[taker]] /\ Taker'.size = Taker.size
  BY <1>1 DEF Taker, Described
<1>5. Taker.size = Taker.shares + SumFunction(Quantities)
  BY <1>1 DEF Accounted
<1>6. Taker'.size = Taker'.shares + SumFunction(Quantities)'
  BY <1>2, <1>3, <1>4, <1>5
<1>7. QED
  BY <1>1, <1>6 DEF Accounted

\* Every step keeps the accounts.
LEMMA NextAccounted == IInv /\ Modest /\ Accounted /\ [Next]_vars => Accounted'
<1> SUFFICES ASSUME IInv, Modest, Accounted, [Next]_vars PROVE Accounted'
  OBVIOUS
<1>1. ASSUME NEW t \in Tickers, NEW i \in Ids, NEW o, Ordered(o), Submit(t, i, o)
      PROVE  Accounted'
  <2>1. /\ call = "none" /\ call' = "match" /\ trades' = trades
        /\ Taker'.size = o.size /\ Taker'.shares = o.shares
    BY <1>1, SubmitEffect
  <2>2. o.shares = o.size /\ o.size \in Int
    BY <1>1, WordIsNat DEF Ordered, OrderRec
  <2>3. trades' = <<>>
    BY <2>1 DEF Accounted
  <2>4. DOMAIN Quantities' = {}
    BY <2>3 DEF Quantities
  <2>5. SumFunction(Quantities)' = 0
    BY <2>4, SumOfNone
  <2>6. Taker'.size = Taker'.shares + SumFunction(Quantities)'
    BY <2>1, <2>2, <2>5
  <2>7. QED
    BY <2>1, <2>6 DEF Accounted
<1>2. CASE Done
  BY <1>2 DEF Done, Accounted
<1>3. CASE Reset
  BY <1>3 DEF Reset, resultVars, Accounted
<1>4. ASSUME NEW t \in Tickers, CancelMark(t) PROVE Accounted'
  <2>1. /\ \A r \in Slot : Described(r) /\ arena'[r].shares = arena[r].shares
        /\ UNCHANGED <<slot, call, taker, trades, rewound>>
    BY <1>4, CancelEffect
  <2>2. call = "match" => Taker'.size = Taker.size /\ Taker'.shares = Taker.shares
    BY <2>1 DEF IInv, InHand, Taker, Described
  <2>3. SumFunction(Quantities)' = SumFunction(Quantities)
    BY <2>1 DEF Quantities
  <2>4. QED
    BY <2>1, <2>2, <2>3 DEF Accounted
<1>5. CASE Quiet
  <2>1. /\ UNCHANGED <<arena, slot, taker, trades, rewound>>
        /\ call = "match" \/ call' = "match" => call' = call
    BY <1>5 DEF Quiet
  <2>2. SumFunction(Quantities)' = SumFunction(Quantities) /\ Taker' = Taker
    BY <2>1 DEF Quantities, Taker
  <2>3. QED
    BY <2>1, <2>2 DEF Accounted
<1>6. ASSUME NEW s \in Slot, Match(s) PROVE Accounted'
  <2>1. CASE ~rewound
    BY <1>6, <2>1, MatchAccounted
  <2>2. CASE rewound
    BY <1>6, <2>2, AnyMatch DEF Accounted
  <2>3. QED
    BY <2>1, <2>2
<1>7. QED
  BY <1>1, <1>2, <1>3, <1>4, <1>5, <1>6, Steps

\* The trades of a submission account for every share its order lost, as long as
\* no budget buys more than is offered and no reset has given away slots of books
\* other than its own.
THEOREM TradesAccounted == Spec /\ []Modest => []TradesAccount
<1>1. Init => Accounted
  BY DEF Init, Accounted
<1>2. Accounted => TradesAccount
  BY DEF Accounted, TradesAccount, Quantities, Books
<1>3. QED
  BY <1>1, <1>2, NextAccounted, Inductive, PTL DEF Spec

\* A market buy then never trades more shares than it asked for.
THEOREM ModestNeverOverfills == Spec /\ []Modest => []NeverOverfilled
<1>1. IInv /\ Accounted => NeverOverfilled
  <2> SUFFICES ASSUME IInv, Accounted, call = "match", ~rewound
               PROVE  SumFunction(Quantities) =< Taker.size
    BY DEF NeverOverfilled, Quantities, Books
  <2>1. Taker \in OrderRec
    BY DEF IInv, TypeOK, InHand, Taker
  <2>2. Taker.shares \in Nat /\ Taker.size \in Nat
    BY <2>1, WordIsNat DEF OrderRec
  <2>3. SumFunction(Quantities) \in Int
    <3>1. PICK f : f = Quantities
      OBVIOUS
    <3>2. trades \in Seq(Trade)
      BY DEF IInv, TypeOK
    <3>3. DOMAIN f = 1 .. Len(trades) /\ Len(trades) \in Nat
      BY <3>1, <3>2 DEF Quantities
    <3>4. IsFiniteSet(DOMAIN f)
      BY <3>3, FS_Interval
    <3>5. \A u \in Trade : u.quantity \in Int
      BY WordIsNat DEF Trade
    <3>6. \A n \in DOMAIN f : f[n] \in Int
      BY <3>1, <3>2, <3>5 DEF Quantities
    <3>7. QED
      BY <3>1, <3>4, <3>6, SumInt DEF SumFunction
  <2>4. QED
    BY <2>2, <2>3 DEF Accounted
<1>2. Init => Accounted
  BY DEF Init, Accounted
<1>3. QED
  BY <1>1, <1>2, NextAccounted, Inductive, PTL DEF Spec

\* It is a fill of the exchange.
LEMMA MatchRefines ==
    ASSUME IInv, ~rewound, Single, Modest, at = ResetTicker, NEW s \in Slot, Match(s)
    PROVE  Market!Next
<1>0. PICK m, q : m = IdAt(at, s) /\ q = Quantity(s)
  OBVIOUS
<1>1. /\ call = "match" /\ Taker.shares > 0 /\ s \in LiveTop(at, Target) /\ Acceptable(s)
      /\ taker \in Ids /\ slot[taker] \in Slot /\ at \in Books /\ at \in Tickers
      /\ Taker.side \in Side /\ Target \in Side /\ Taker = arena[slot[taker]]
      /\ slot[taker] < offset
  BY DEF Match, Blocked, IInv, TypeOK, InHand, Books, Target, Other, Side, Taker
<1>2. /\ \A r \in Slot : Described(r)
      /\ UNCHANGED <<offset, slot, vault, call, at, taker, rewound>>
  BY MatchEffect
<1>3. /\ q \in Nat /\ q > 0 /\ Taker.shares \in Nat /\ arena[s].shares \in Nat /\ s # slot[taker]
      /\ arena'[slot[taker]].shares = Taker.shares - q
      /\ arena'[s].shares = arena[s].shares - q
      /\ Capped \/ arena'[s].shares = 0 \/ arena'[slot[taker]].shares = 0
      /\ \A r \in Slot \ {s, slot[taker]} : arena'[r] = arena[r]
  BY <1>0, MatchShares
<1>4. /\ m \in Ids /\ slot[m] = s /\ m # taker /\ m \in active[at] /\ s \in Resting(at)
      /\ s < offset
  BY <1>0, <1>1, <1>3, TopIsBest, RestingSlots DEF Live
<1>5. /\ OrderOf(m) = arena[s] /\ OrderOf(taker) = Taker
      /\ OrderOf(m)' = arena'[s] /\ OrderOf(taker)' = arena'[slot[taker]]
  BY <1>1, <1>2, <1>4 DEF OrderOf
<1>6. ASSUME NEW i \in Ids \ {m, taker} PROVE OrderOf(i)' = OrderOf(i)
  <2>1. slot[i] \in Slot => slot[i] # s /\ slot[i] # slot[taker]
    BY <1>1, <1>4, <1>6 DEF Single
  <2>2. QED
    BY <1>2, <1>3, <2>1 DEF OrderOf
<1>7. /\ \A i \in active[at] : i \in Ids /\ OrderOf(i).shares > 0
      /\ Fillable \subseteq Ids
  BY <1>1, ActiveSlots, RestingSlots DEF Fillable
<1>8. active' = IF arena'[s].shares = 0 THEN [active EXCEPT ![at] = @ \ {m}] ELSE active
  BY <1>0, MatchEffect
<1>9. active \in [Tickers -> SUBSET Ids]
  BY DEF IInv, TypeOK
<1>10. Market!Candidate(m) /\ Market!Acceptable(m)
  BY <1>0, <1>1, <1>4, <1>5, TopIsCandidate, AcceptableTerm DEF Acceptable
<1>11. Capped => OrderOf(taker).type = "market" /\ OrderOf(taker).side = "buy"
  BY <1>5 DEF Capped
<1>12. Taker' = arena'[slot[taker]] /\ Running /\ Running' /\ (Taker.type)' = Taker.type
  BY <1>1, <1>2 DEF Running, Taker, Described
<1>13. Fillable' = {i \in Fillable : (OrderOf(i).shares)' > 0}
  <2>1. /\ active'[at] \subseteq active[at] /\ active[at] \subseteq active'[at] \cup {m}
        /\ m \in active'[at] <=> arena'[s].shares # 0
    BY <1>1, <1>4, <1>8, <1>9
  <2>2. arena'[s].shares \in Int /\ arena'[s].shares >= 0
    <3>1. arena' \in [Slot -> OrderRec]
      <4>1. IInv'
        BY MatchInv
      <4>2. QED
        BY <4>1 DEF IInv, TypeOK
    <3>2. arena'[s] \in OrderRec
      BY <3>1
    <3>3. QED
      BY <3>2, WordIsNat DEF OrderRec
  <2>3. taker \notin active[at]
    <3>1. slot[taker] \notin Resting(at)
      BY <1>1 DEF IInv, InHand
    <3>2. QED
      BY <1>1, <3>1, ActiveSlots
  <2>4. \A i \in active[at] : i \in active'[at] <=> (OrderOf(i).shares)' > 0
    <3>1. ASSUME NEW i \in active[at], i = m PROVE i \in active'[at] <=> (OrderOf(i).shares)' > 0
      BY <1>5, <2>1, <2>2, <3>1
    <3>2. ASSUME NEW i \in active[at], i # m PROVE i \in active'[at] <=> (OrderOf(i).shares)' > 0
      BY <1>6, <1>7, <2>1, <2>3, <3>2
    <3>3. QED
      BY <3>1, <3>2
  <2>5. /\ Fillable = active[at] \cup (IF Taker.type = "limit" THEN {taker} ELSE {})
        /\ Fillable' = active'[at]
                       \cup (IF Taker.type = "limit" /\ arena'[slot[taker]].shares > 0
                             THEN {taker} ELSE {})
    BY <1>1, <1>2, <1>12 DEF Fillable
  <2>6. QED
    <3>1. (OrderOf(taker).shares)' = arena'[slot[taker]].shares /\ taker' = taker
      BY <1>2, <1>5
    <3>2. \A i : i \in active'[at] <=> i \in active[at] /\ (OrderOf(i).shares)' > 0
      BY <2>1, <2>4
    <3>3. QED
      BY <2>5, <3>1, <3>2
<1>14. \A i \in Ids : SameOrder(i)
  BY <1>2, OrdersSame
<1>15. QED
  BY <1>1, <1>2, <1>3, <1>4, <1>5, <1>6, <1>7, <1>10, <1>11, <1>12, <1>13, <1>14, FillTerm

\* The end of a submission is that of the exchange: what is left of a limit order
\* was already one of the orders that can be filled.
LEMMA DoneRefines ==
    ASSUME IInv, ~rewound, at = ResetTicker, Done
    PROVE  Market!Next
<1>1. /\ call = "match" /\ call' = "none" /\ at' = at /\ UNCHANGED <<arena, slot, taker>>
      /\ at \in Books /\ at \in Tickers /\ taker \in Ids /\ slot[taker] \in Slot
      /\ Taker.side \in Side /\ Target = Other(Taker.side) /\ OrderOf(taker) = Taker
  BY DEF Done, arenaVars, IInv, TypeOK, InHand, Books, OrderOf, Taker, Target
<1>2. Fillable' = Fillable
  <2>1. active' = IF Taker.type = "limit" /\ Taker.shares > 0
                  THEN [active EXCEPT ![at] = @ \cup {taker}] ELSE active
    BY DEF Done, Rest
  <2>2. active'[at] = active[at] \cup (IF Taker.type = "limit" /\ Taker.shares > 0
                                       THEN {taker} ELSE {})
    BY <1>1, <2>1 DEF IInv, TypeOK
  <2>3. Running /\ ~Running'
    BY <1>1 DEF Running
  <2>4. QED
    BY <1>1, <2>2, <2>3 DEF Fillable
<1>3. ASSUME OrderOf(taker).type = "limit", OrderOf(taker).shares > 0, NEW m \in Ids,
             m \in Fillable, Market!Opposite(m, taker), Market!Acceptable(m)
      PROVE  FALSE
  <2>1. {OrderOf(m).side, Taker.side} = {"buy", "sell"}
    BY <1>1, <1>3, Terms
  <2>2. m # taker /\ OrderOf(m).side = Target
    BY <1>1, <2>1 DEF Other, Side
  <2>3. m \in active[at]
    BY <1>1, <1>3, <2>2 DEF Fillable
  <2>4. OrderOf(m) = arena[slot[m]] /\ slot[m] \in Live(at, Target)
    BY <1>1, <2>2, <2>3, ActiveSlots
  <2>5. IF Taker.side = "buy" THEN Taker.price < OrderOf(m).price
                              ELSE OrderOf(m).price < Taker.price
    BY <1>1, <1>3, <2>4, NoneAccepted
  <2>6. slot[m] \in Resting(at)
    BY <1>1, <2>3, ActiveSlots
  <2>7. OrderOf(m).price \in Nat
    BY <1>1, <2>4, <2>6, RestingSlots
  <2>8. Taker.price \in Nat
    <3>1. Taker \in OrderRec /\ Prices \cup {0} \subseteq Nat
      BY <1>1, DataAssumption, WordIsNat DEF IInv, TypeOK, Taker
    <3>2. QED
      BY <3>1 DEF OrderRec
  <2>9. QED
    BY <1>1, <1>3, <2>5, <2>7, <2>8, AcceptableTerm DEF Side
<1>4. Market!Finish
  <2>1. /\ OrderOf(taker).type = "limit" /\ OrderOf(taker).shares > 0 =>
              ~\E m \in Ids : Market!Candidate(m) /\ Market!Acceptable(m)
    BY <1>3 DEF Market!Candidate, Fillable
  <2>2. \A i : OrderOf(i)' = OrderOf(i)
    BY <1>1 DEF OrderOf
  <2>3. Running /\ ~Running'
    BY <1>1 DEF Running
  <2>4. QED
    BY <1>1, <1>2, <2>1, <2>2, <2>3 DEF Market!Finish, Fillable
<1>5. QED
  BY <1>4 DEF Market!Next

\* A submission to the book is one of the exchange.
LEMMA SubmitRefines ==
    ASSUME IInv, ~rewound, NEW i \in Ids, NEW o, Ordered(o), Submit(ResetTicker, i, o)
    PROVE  Market!Next
<1>1. /\ i \notin Known /\ slot[i] = Unsent /\ offset \in Slot /\ taker' = i
      /\ at' = ResetTicker /\ call = "none" /\ call' = "match" /\ slot'[taker'] = offset
      /\ (Taker.type)' = o.type /\ (Taker.shares)' = o.shares /\ active' = active
      /\ \A s \in Resting(ResetTicker) : arena'[s] = arena[s]
      /\ \A j \in Known : slot[j] # offset => slot'[j] = slot[j]
  BY NamesAssumption, SubmitEffect, ResetTickerBooked
<1>2. ~Running /\ Running'
  BY <1>1 DEF Running
<1>3. o.type \in {"limit", "market"} /\ o.shares > 0
  BY DEF Ordered
<1>4. OrderOf(i).shares = 0
  <2>1. Unsent \notin Slot
    BY SlotIsNat DEF Unsent
  <2>2. QED
    BY <1>1, <2>1 DEF OrderOf, Blank
<1>5. OrderOf(i)' = Taker'
  BY <1>1 DEF OrderOf, Taker
<1>6. Fillable = active[ResetTicker]
  BY <1>2 DEF Fillable
<1>7. Fillable' = IF o.type = "limit" THEN active[ResetTicker] \cup {i} ELSE active[ResetTicker]
  BY <1>1, <1>2, <1>3 DEF Fillable
<1>8. ASSUME NEW j \in active[ResetTicker] PROVE j \in Ids /\ OrderOf(j)' = OrderOf(j)
  <2>1. j \in Ids /\ slot[j] \in Slot /\ slot[j] \in Resting(ResetTicker)
    BY <1>8, ActiveSlots, ResetTickerBooked
  <2>2. j \in Known /\ slot[j] # offset
    <3>1. slot[j] < offset /\ slot[j] \in Nat /\ offset \in Nat
      BY <1>1, <2>1, RestingSlots, ResetTickerBooked, SlotIsNat
    <3>2. QED
      BY <2>1, <3>1 DEF Known, Unsent
  <2>3. QED
    BY <1>1, <2>1, <2>2 DEF OrderOf
<1>9. Market!Submit(i)
  <2>1. /\ (OrderOf(i).type)' = o.type /\ (OrderOf(i).shares)' > 0
    BY <1>1, <1>3, <1>5
  <2>2. Market!Kept(Fillable)
    BY <1>6, <1>8 DEF Market!Kept
  <2>3. QED
    BY <1>1, <1>2, <1>4, <1>6, <1>7, <2>1, <2>2 DEF Market!Submit, Fillable
<1>10. QED
  BY <1>9 DEF Market!Next

\* What the exchange calls forgetting, in the words of the book.
LEMMA ForgetTerm ==
    ASSUME ~Running, ~Running', active'[ResetTicker] = active[ResetTicker],
           \A i \in active[ResetTicker] : i \in Ids /\ OrderOf(i)' = OrderOf(i)
    PROVE  Market!Next
<1>1. Fillable = active[ResetTicker] /\ Fillable' = Fillable
  BY DEF Fillable
<1>2. Market!Kept(Fillable)
  BY <1>1 DEF Market!Kept
<1>3. Market!Forget
  BY <1>1, <1>2 DEF Market!Forget, Fillable
<1>4. QED
  BY <1>3 DEF Market!Next

\* What the other tickers' submissions do is nothing to the book, though they write
\* to the same arena.
LEMMA ElsewhereForgets ==
    ASSUME IInv, ~rewound,
           \/ \E t \in Tickers \ {ResetTicker}, i \in Ids : \E o : Ordered(o) /\ Submit(t, i, o)
           \/ at # ResetTicker /\ (Done \/ \E s \in Slot : Match(s))
    PROVE  Market!Next
<1>1. \A i \in active[ResetTicker] :
         i \in Ids /\ slot[i] \in Slot /\ slot[i] \in Resting(ResetTicker)
  BY ActiveSlots, ResetTickerBooked
<1>2. ASSUME NEW t \in Tickers \ {ResetTicker}, NEW i \in Ids, NEW o, Ordered(o), Submit(t, i, o)
      PROVE  Market!Next
  <2>1. /\ offset \in Slot /\ at' = t /\ call = "none" /\ active' = active
        /\ \A s \in Resting(ResetTicker) : arena'[s] = arena[s]
        /\ \A j \in Known : slot[j] # offset => slot'[j] = slot[j]
    BY <1>2, SubmitEffect, ResetTickerBooked
  <2>2. ASSUME NEW j \in active[ResetTicker] PROVE j \in Ids /\ OrderOf(j)' = OrderOf(j)
    <3>1. slot[j] < offset /\ slot[j] \in Nat /\ offset \in Nat
      BY <1>1, <2>1, <2>2, RestingSlots, ResetTickerBooked, SlotIsNat
    <3>2. j \in Known /\ slot[j] # offset
      BY <1>1, <2>2, <3>1 DEF Known, Unsent
    <3>3. QED
      BY <1>1, <2>1, <2>2, <3>2 DEF OrderOf
  <2>3. ~Running /\ ~Running'
    BY <2>1 DEF Running
  <2>4. QED
    BY <2>1, <2>2, <2>3, ForgetTerm
<1>3. ASSUME at # ResetTicker, NEW s \in Slot, Match(s)
      PROVE  Market!Next
  <2>1. /\ call = "match" /\ at \in Books /\ slot[taker] \in Slot /\ s \in LiveTop(at, Target)
        /\ Acceptable(s) /\ \A t \in Books : slot[taker] \notin Resting(t)
    BY <1>3 DEF Match, Blocked, IInv, TypeOK, InHand, Books
  <2>2. s \in Resting(at) /\ s \notin Resting(ResetTicker)
    <3>1. s \in Resting(at)
      BY <2>1, Facing
    <3>2. QED
      BY <1>3, <2>1, <3>1, ResetTickerBooked DEF IInv, SlotsOwned
  <2>3. UNCHANGED <<slot, call, at>>
    BY <1>3, MatchEffect
  <2>4. \A r \in Slot \ {s, slot[taker]} : arena'[r] = arena[r]
    <3>1. arena \in [Slot -> OrderRec] /\ NoId \in Ids \cup {NoId}
      BY DEF IInv, TypeOK
    <3>2. Quantity(s) \in 0 .. NoCap
      BY <2>1, <3>1, TradeType
    <3>3. arena' = Less(Less(arena, slot[taker], Quantity(s)), s, Quantity(s))
      BY <1>3 DEF Match
    <3>4. QED
      BY <2>1, <3>1, <3>2, <3>3, SharesOnly
  <2>5. active'[ResetTicker] = active[ResetTicker]
    BY <1>3, NamesAssumption, MatchEffect DEF IInv, TypeOK
  <2>6. ASSUME NEW j \in active[ResetTicker] PROVE j \in Ids /\ OrderOf(j)' = OrderOf(j)
    BY <1>1, <2>1, <2>2, <2>3, <2>4, <2>6, ResetTickerBooked DEF OrderOf
  <2>7. ~Running /\ ~Running'
    BY <1>3, <2>3 DEF Running
  <2>8. QED
    BY <2>5, <2>6, <2>7, ForgetTerm
<1>4. CASE at # ResetTicker /\ Done
  <2>1. UNCHANGED <<arena, slot, at>>
    BY <1>4 DEF Done, arenaVars
  <2>2. active'[ResetTicker] = active[ResetTicker]
    BY <1>4, NamesAssumption DEF Done, Rest, IInv, TypeOK
  <2>3. \A j \in active[ResetTicker] : j \in Ids /\ OrderOf(j)' = OrderOf(j)
    BY <1>1, <2>1 DEF OrderOf
  <2>4. ~Running /\ ~Running'
    BY <1>4, <2>1 DEF Running
  <2>5. QED
    BY <2>2, <2>3, <2>4, ForgetTerm
<1>5. QED
  BY <1>2, <1>3, <1>4

\* A step that the exchange does not see.
LEMMA StutterTerm ==
    ASSUME \A i \in Ids : SameOrder(i) /\ (OrderOf(i).shares)' = OrderOf(i).shares,
           taker' = taker, Running <=> Running',
           active'[ResetTicker] = active[ResetTicker],
           Running => (Taker.type)' = Taker.type /\ (Taker.shares)' = Taker.shares
    PROVE  UNCHANGED Market!exchangeVars
<1>1. Fillable' = Fillable
  BY DEF Fillable
<1>2. Running' = Running
  <2>1. Running \in BOOLEAN
    BY DEF Running
  <2>2. QED
    BY <2>1 DEF Running
<1>3. [i \in Ids |-> [f \in {"side", "type", "price", "stamp"} |-> OrderOf(i)[f]]]'
      = [i \in Ids |-> [f \in {"side", "type", "price", "stamp"} |-> OrderOf(i)[f]]]
  BY SameTerm
<1>4. [i \in Ids |-> OrderOf(i).shares]' = [i \in Ids |-> OrderOf(i).shares]
  OBVIOUS
<1>5. QED
  BY <1>1, <1>2, <1>3, <1>4 DEF Market!exchangeVars, Fillable

\* A cancellation in the book is one of the exchange, in another book nothing.
LEMMA CancelRefines ==
    ASSUME IInv, NEW t \in Tickers, CancelMark(t)
    PROVE  Market!Next \/ UNCHANGED Market!exchangeVars
<1>1. /\ \A r \in Slot : Described(r) /\ arena'[r].shares = arena[r].shares
      /\ UNCHANGED <<slot, call, at, taker>>
  BY CancelEffect
<1>2. \A i \in Ids : SameOrder(i) /\ (OrderOf(i).shares)' = OrderOf(i).shares
  BY <1>1, OrdersSame DEF OrderOf
<1>3. CASE t = ResetTicker
  <2>1. lock[t] = "worker" /\ doomed[t] \in active[t] /\ active'[t] = active[t] \ {doomed[t]}
    BY <1>3 DEF CancelMark, IInv, TypeOK, Found
  <2>2. ~Running /\ ~Running'
    BY <1>1, <1>3, <2>1 DEF Running, IInv, InHand
  <2>3. Fillable = active[t] /\ Fillable' = active'[t]
    BY <1>3, <2>2 DEF Fillable
  <2>4. [i \in Ids |-> [f \in {"side", "type", "price", "stamp"} |-> OrderOf(i)[f]]]'
        = [i \in Ids |-> [f \in {"side", "type", "price", "stamp"} |-> OrderOf(i)[f]]]
    BY <1>2, SameTerm
  <2>5. [i \in Ids |-> OrderOf(i).shares]' = [i \in Ids |-> OrderOf(i).shares]
    BY <1>2
  <2>6. Running' = Running
    BY <1>1 DEF Running
  <2>7. Market!Cancel(doomed[t])
    BY <1>1, <2>1, <2>2, <2>3, <2>4, <2>5, <2>6 DEF Market!Cancel, Fillable
  <2>8. doomed[t] \in Ids
    BY <2>1 DEF IInv, TypeOK
  <2>9. QED
    BY <2>7, <2>8 DEF Market!Next
<1>4. CASE t # ResetTicker
  <2>1. active'[ResetTicker] = active[ResetTicker]
    BY <1>4, NamesAssumption DEF CancelMark, IInv, TypeOK
  <2>2. Running <=> Running'
    BY <1>1 DEF Running
  <2>3. Running => (Taker.type)' = Taker.type /\ (Taker.shares)' = Taker.shares
    BY <1>1 DEF Running, IInv, InHand, Taker, Described
  <2>4. QED
    BY <1>1, <1>2, <2>1, <2>2, <2>3, StutterTerm
<1>5. QED
  BY <1>3, <1>4

\* So is a reset, whichever heaps are confused before it or after it.
LEMMA ResetRefines ==
    ASSUME IInv, Single, Reset
    PROVE  Market!Next
<1>1. /\ UNCHANGED <<arena, slot, at, taker>> /\ call = "reset" /\ call' = "none"
      /\ at = ResetTicker /\ active' = [active EXCEPT ![at] = {}]
  BY DEF Reset, resultVars, Single
<1>2. active'[ResetTicker] = {}
  BY <1>1, NamesAssumption DEF IInv, TypeOK
<1>3. ~Running /\ ~Running'
  BY <1>1 DEF Running
<1>4. Running' = Running
  BY <1>1 DEF Running
<1>5. Fillable' = {}
  BY <1>2, <1>3 DEF Fillable
<1>6. \A i : OrderOf(i)' = OrderOf(i)
  BY <1>1 DEF OrderOf
<1>7. Market!Reset
  BY <1>1, <1>3, <1>4, <1>5, <1>6 DEF Market!Reset, Fillable
<1>8. QED
  BY <1>7 DEF Market!Next

\* Every step is one of the exchange or leaves it alone.
LEMMA StepRefines ==
    IInv /\ Single /\ Modest /\ [Next]_vars
      => (rewound /\ rewound') \/ [Market!Next]_(Market!exchangeVars)
<1> SUFFICES ASSUME IInv, Single, Modest, [Next]_vars, ~(rewound /\ rewound')
             PROVE  Market!Next \/ UNCHANGED Market!exchangeVars
  OBVIOUS
<1>1. ASSUME NEW t \in Tickers, NEW i \in Ids, NEW o, Ordered(o), Submit(t, i, o)
      PROVE  Market!Next
  <2>1. ~rewound
    BY <1>1 DEF Submit
  <2>2. QED
    BY <1>1, <2>1, SubmitRefines, ElsewhereForgets
<1>2. ASSUME NEW s \in Slot, Match(s) PROVE Market!Next
  <2>1. ~rewound
    BY <1>2 DEF Match
  <2>2. QED
    BY <1>2, <2>1, MatchRefines, ElsewhereForgets
<1>3. CASE Done
  <2>1. ~rewound
    BY <1>3 DEF Done
  <2>2. QED
    BY <1>3, <2>1, DoneRefines, ElsewhereForgets
<1>4. CASE Quiet
  <2>1. UNCHANGED <<arena, slot, active, taker>>
        /\ (call = "match" \/ call' = "match" => call' = call /\ at' = at)
    BY <1>4 DEF Quiet
  <2>2. \A i \in Ids : SameOrder(i) /\ (OrderOf(i).shares)' = OrderOf(i).shares
    BY <2>1 DEF SameOrder, Asked, OrderOf
  <2>3. (Running <=> Running') /\ (Taker.type)' = Taker.type /\ (Taker.shares)' = Taker.shares
    BY <2>1 DEF Running, Taker
  <2>4. QED
    BY <2>1, <2>2, <2>3, StutterTerm
<1>5. QED
  BY <1>1, <1>2, <1>3, <1>4, CancelRefines, ResetRefines, Steps

\* The C++ book, with its arena shared between tickers, its tombstones, locks and
\* threads, implements the exchange that the Python book implements, as long as
\* no budget buys more than is offered: from the start, and from any reset that
\* finds no order in another book, up to and with the first that does.
THEOREM ExchangeImplemented == Spec /\ []Modest => ImplementsExchange
<1>1. Init => Market!Init
  BY NamesAssumption DEF Init, Market!Init, Running
<1>2. IInv /\ Single /\ Modest /\ [Next]_vars =>
        [(rewound /\ rewound') \/ [Market!Next]_(Market!exchangeVars)]_vars
  BY StepRefines
<1>3. QED
  BY <1>1, <1>2, SingleHolds, Inductive, PTL DEF Spec, ImplementsExchange

\* In an engine with one ticker there are no others' slots to give away: the book
\* implements the exchange at every step, whatever is reset.
THEOREM OneBookExchange ==
    ASSUME Tickers = {ResetTicker}
    PROVE  Spec /\ []Modest => Market!Spec
<1>1. Init => Market!Init /\ ~rewound
  BY NamesAssumption DEF Init, Market!Init, Running
<1>2. ASSUME IInv, ~rewound, [Next]_vars PROVE ~rewound'
  <2>1. Reset => ~rewound'
    <3>1. at \in Tickers
      BY <1>2 DEF IInv, TypeOK
    <3>2. \A t \in Tickers : t = at
      BY <3>1
    <3>3. QED
      BY <3>2 DEF Reset
  <2>2. ASSUME NEW s \in Slot, Match(s) PROVE rewound' = rewound
    BY <2>2 DEF Match
  <2>3. ASSUME NEW t \in Tickers, NEW i \in Ids, NEW o, Submit(t, i, o)
        PROVE  rewound' = rewound
    BY <2>3 DEF Submit
  <2>4. QED
    BY <1>2, <2>1, <2>2, <2>3, Steps DEF Done, CancelMark, Quiet
<1>3. IInv /\ Single /\ Modest /\ ~rewound /\ [Next]_vars =>
        [Market!Next]_(Market!exchangeVars)
  BY StepRefines
<1>4. IInv /\ ~rewound /\ [Next]_vars => ~rewound'
  BY <1>2
<1>5. QED
  BY <1>1, <1>3, <1>4, SingleHolds, Inductive, PTL DEF Spec, Market!Spec

(***************************************************************************)
(* When a budget cannot run out.  Ample(b) bounds the prices by b whole     *)
(* units and asks of a budget a unit more a share than that.                *)
(***************************************************************************)
Ample(b) ==
    /\ \A price \in Prices : price =< b * PM
    /\ \A funds \in Funds \ {NoCap} : \A size \in Lots : size * (b + 1) =< funds
\* What a budget still has to give is enough for the shares still wanted.
Afforded(b) ==
    /\ call # "match" => spent = 0
    /\ call = "match" /\ Capped /\ ~rewound => spent + Taker.shares * (b + 1) =< Taker.funds

\* A product of a price of at most b units is at most b units a share.
LEMMA PriceProduct ==
    ASSUME NEW b \in Nat, NEW q \in Nat, NEW p \in Nat, NEW m \in Nat \ {0}, p =< b * m
    PROVE  (q * p) \div m \in Nat /\ (q * p) \div m =< q * b
<1>1. b * m \in Nat /\ q * p \in Nat /\ q * b \in Nat
  OBVIOUS
<1>2. q * p =< q * (b * m)
  BY <1>1
<1>3. q * (b * m) = (q * b) * m
  OBVIOUS
<1>4. PICK x, y : x = q * p /\ y = q * b /\ x \in Nat /\ y \in Nat
  BY <1>1
<1>5. x =< y * m
  BY <1>2, <1>3, <1>4
<1>6. x \div m \in Nat /\ x \div m =< y
  BY <1>4, <1>5
<1>7. QED
  BY <1>4, <1>6

\* A cost is at most a unit more a share than the bound on the price.
LEMMA CostBound ==
    ASSUME NEW b \in Nat, NEW q \in Nat \ {0}, NEW p \in Nat, p =< b * PM,
           q * (b + 1) =< NoCap
    PROVE  Cost(q, p) \in Nat /\ Cost(q, p) =< q * (b + 1)
<1>1. PM \in Nat \ {0} /\ Word \in Nat \ {0} /\ NoCap \in Nat /\ Word = NoCap + 1
  BY DataAssumption DEF NoCap
<1>2. PICK c : c = (q * p) \div PM
  OBVIOUS
<1>3. c \in Nat /\ c =< q * b
  BY <1>1, <1>2, PriceProduct
<1>4. q * (b + 1) = q * b + q /\ q * b \in Nat
  OBVIOUS
<1>5. c + 1 =< q * (b + 1) /\ c + 1 \in 0 .. NoCap /\ c \in 0 .. NoCap
  BY <1>1, <1>3, <1>4
<1>6. c % Word = c /\ (c + 1) % Word = c + 1
  BY <1>5, NoWrap
<1>7. Cost(q, p) = c \/ Cost(q, p) = c + 1
  BY <1>2, <1>6 DEF Cost
<1>8. QED
  BY <1>3, <1>5, <1>7

\* What a trade costs leaves enough for the shares that are still wanted then.
LEMMA CostLeft ==
    ASSUME NEW b \in Nat, NEW w \in Nat, NEW q \in Nat, q =< w,
           NEW c \in Nat, c =< q * (b + 1), NEW x \in Nat, NEW f \in Nat,
           x + w * (b + 1) =< f
    PROVE  x + c =< f /\ x + c + (w - q) * (b + 1) =< f /\ q * (b + 1) =< f
<1>1. PICK y, z : /\ y = q * (b + 1) /\ z = (w - q) * (b + 1)
  OBVIOUS
<1>2. y \in Nat /\ z \in Nat /\ w * (b + 1) = y + z
  BY <1>1
<1>3. QED
  BY <1>1, <1>2

\* So a trade takes what is offered, and the budget stays ahead.
LEMMA AffordedTrade ==
    ASSUME NEW b \in Nat, Ample(b), IInv, ~rewound, Afforded(b), call = "match",
           NEW s \in LiveTop(at, Target)
    PROVE  /\ Quantity(s) = Offered(s) /\ Offered(s) \in Nat
           /\ Capped => LET q == Offered(s)
                            x == (spent + Cost(q, Settled(s))) % Word
                        IN x + (Taker.shares - q) * (b + 1) =< Taker.funds
<1>1. /\ arena[s].price \in Prices /\ EntryAgrees(at, Target, s)
      /\ arena[s] \in OrderRec /\ Taker \in OrderRec
  BY Facing
<1>2. /\ arena[s].shares \in 0 .. NoCap /\ Taker.shares \in 0 .. NoCap
      /\ Taker.funds \in 0 .. NoCap /\ NoCap \in Nat /\ spent \in 0 .. NoCap
  BY <1>1, WordIsNat DEF OrderRec, IInv, TypeOK
<1>3. Offered(s) \in Nat /\ Offered(s) =< Taker.shares
  BY <1>2 DEF Offered, Least
<1>4. CASE ~Capped
  BY <1>3, <1>4 DEF Quantity, OverBudget
<1>5. CASE Capped
  <2>1. Settled(s) = arena[s].price /\ arena[s].price \in Nat /\ arena[s].price =< b * PM
    <3>1. Settled(s) = arena[s].price
      BY <1>5 DEF Capped, Settled
    <3>2. arena[s].price \in 1 .. NoCap
      BY <1>1, DataAssumption, Zenon
    <3>3. arena[s].price =< b * PM
      BY <1>1, Zenon DEF Ample
    <3>4. QED
      BY <1>2, <3>1, <3>2, <3>3
  <2>2. spent + Taker.shares * (b + 1) =< Taker.funds
    BY <1>5 DEF Afforded
  <2>3. PICK q, x, w, f : q = Offered(s) /\ x = spent /\ w = Taker.shares /\ f = Taker.funds
    OBVIOUS
  <2>4. /\ q \in Nat /\ x \in Nat /\ w \in Nat /\ f \in Nat /\ q =< w /\ f =< NoCap
        /\ x + w * (b + 1) =< f
    BY <1>2, <1>3, <2>2, <2>3
  <2>5. PICK c : c = Cost(q, Settled(s))
    OBVIOUS
  <2>6. c \in Nat /\ x + c =< f /\ x + c + (w - q) * (b + 1) =< f
    <3>1. 0 \in Nat /\ 0 =< q * (b + 1)
      BY <2>4
    <3>2. q * (b + 1) =< f
      BY <2>4, <3>1, CostLeft
    <3>3. q * (b + 1) =< NoCap
      BY <1>2, <2>4, <3>2
    <3>4. CASE q = 0
      <4>1. Cost(0, Settled(s)) = 0
        BY <2>1, DataAssumption DEF Cost
      <4>2. c \in Nat /\ c =< q * (b + 1)
        BY <2>5, <3>1, <3>4, <4>1
      <4>3. QED
        BY <2>4, <4>2, CostLeft
    <3>5. CASE q # 0
      <4>1. c \in Nat /\ c =< q * (b + 1)
        BY <2>1, <2>4, <2>5, <3>3, <3>5, CostBound
      <4>2. QED
        BY <2>4, <4>1, CostLeft
    <3>6. QED
      BY <3>4, <3>5
  <2>7. (x + c) % Word = x + c
    <3>1. x + c \in 0 .. NoCap
      BY <1>2, <2>4, <2>6
    <3>2. QED
      BY <3>1, NoWrap
  <2>8. Quantity(s) = Offered(s)
    BY <2>3, <2>4, <2>5, <2>6, <2>7 DEF Quantity, OverBudget
  <2>9. QED
    BY <1>3, <2>3, <2>5, <2>6, <2>7, <2>8
<1>6. QED
  BY <1>4, <1>5

\* Such a budget never buys more than is offered, and every step keeps it so.
LEMMA AffordedModest ==
    ASSUME NEW b \in Nat, Ample(b), IInv, Afforded(b)
    PROVE  Modest
<1> SUFFICES ASSUME call = "match", ~rewound, NEW s \in LiveTop(at, Target)
             PROVE  Quantity(s) =< Offered(s)
  BY DEF Modest
<1>1. Quantity(s) = Offered(s) /\ Offered(s) \in Nat
  BY AffordedTrade
<1>2. QED
  BY <1>1

LEMMA NextAfforded ==
    ASSUME NEW b \in Nat, Ample(b), IInv, Afforded(b), [Next]_vars
    PROVE  Afforded(b)'
<1>1. ASSUME NEW t \in Tickers, NEW i \in Ids, NEW o, Ordered(o), Submit(t, i, o)
      PROVE  Afforded(b)'
  <2>1. /\ call = "none" /\ call' = "match" /\ spent' = spent
        /\ Taker'.type = o.type /\ Taker'.side = o.side /\ Taker'.funds = o.funds
        /\ Taker'.shares = o.size
    <3>1. /\ call = "none" /\ call' = "match"
          /\ Taker'.type = o.type /\ Taker'.side = o.side /\ Taker'.funds = o.funds
          /\ Taker'.shares = o.shares
      BY <1>1, SubmitEffect, Zenon
    <3>2. spent' = spent
      BY <1>1 DEF Submit
    <3>3. o.shares = o.size
      BY <1>1 DEF Ordered
    <3>4. QED
      BY <3>1, <3>2, <3>3
  <2>2. spent' = 0
    BY <2>1 DEF Afforded
  <2>3. ASSUME o.type = "market", o.funds # NoCap
        PROVE  0 + o.size * (b + 1) =< o.funds
    <3>1. o.funds \in Funds \ {NoCap} /\ o.size \in Lots
      BY <1>1, <2>3 DEF Ordered
    <3>2. o.size * (b + 1) =< o.funds
      BY <3>1 DEF Ample
    <3>3. o.size \in 1 .. NoCap /\ NoCap \in Nat
      BY <3>1, WordIsNat, DataAssumption, Zenon
    <3>4. QED
      BY <3>2, <3>3
  <2>4. QED
    BY <2>1, <2>2, <2>3 DEF Afforded, Capped
<1>2. ASSUME NEW s \in Slot, Match(s), ~rewound PROVE Afforded(b)'
  <2>1. /\ call = "match" /\ call' = "match" /\ slot[taker] \in Slot
        /\ \A r \in Slot : Described(r) /\ UNCHANGED <<slot, taker, rewound>>
        /\ s \in LiveTop(at, Target)
    BY <1>2, AnyMatch DEF Match, IInv, InHand
  <2>2. /\ Taker' = arena'[slot[taker]] /\ Taker'.type = Taker.type
        /\ Taker'.side = Taker.side /\ Taker'.funds = Taker.funds
    BY <2>1 DEF Taker, Described
  <2>3. Modest
    BY AffordedModest
  <2>4. Taker'.shares = Taker.shares - Quantity(s)
    BY <1>2, <2>2, <2>3, MatchShares
  <2>5. Quantity(s) = Offered(s)
    BY <1>2, <2>1, AffordedTrade
  <2>6. Capped' <=> Capped
    BY <2>2 DEF Capped
  <2>7. ASSUME Capped PROVE spent' + Taker'.shares * (b + 1) =< Taker'.funds
    <3>1. spent' = (spent + Cost(Offered(s), Settled(s))) % Word
      BY <1>2, <2>5, <2>7 DEF Match
    <3>2. ((spent + Cost(Offered(s), Settled(s))) % Word)
          + (Taker.shares - Offered(s)) * (b + 1) =< Taker.funds
      BY <1>2, <2>1, <2>7, AffordedTrade
    <3>3. QED
      BY <2>2, <2>4, <2>5, <3>1, <3>2
  <2>8. QED
    BY <2>1, <2>6, <2>7 DEF Afforded
<1>3. CASE Done
  BY <1>3 DEF Done, Afforded
<1>4. CASE Reset
  BY <1>4 DEF Reset, resultVars, Afforded
<1>5. ASSUME NEW t \in Tickers, CancelMark(t) PROVE Afforded(b)'
  <2>1. /\ \A r \in Slot : Described(r) /\ arena'[r].shares = arena[r].shares
        /\ UNCHANGED <<slot, call, taker, spent, rewound>>
    BY <1>5, CancelEffect DEF CancelMark, resultVars
  <2>2. call = "match" =>
          /\ Taker'.type = Taker.type /\ Taker'.side = Taker.side
          /\ Taker'.funds = Taker.funds /\ Taker'.shares = Taker.shares
    BY <2>1 DEF IInv, InHand, Taker, Described
  <2>3. QED
    BY <2>1, <2>2 DEF Afforded, Capped
<1>6. CASE Quiet
  BY <1>6 DEF Quiet, Afforded, Capped, Taker
<1>7. ASSUME NEW s \in Slot, Match(s), rewound PROVE Afforded(b)'
  BY <1>7, AnyMatch DEF Afforded
<1>8. QED
  BY <1>1, <1>2, <1>3, <1>4, <1>5, <1>6, <1>7, Steps

\* Where budgets are ample, at most what is offered is bought: no assumption about
\* the behaviour is left.
LEMMA AmpleModest ==
    ASSUME NEW b \in Nat, Ample(b)
    PROVE  Spec => []Modest
<1>1. Init => Afforded(b)
  BY DEF Init, Afforded
<1>2. IInv /\ Afforded(b) /\ [Next]_vars => Afforded(b)'
  BY NextAfforded
<1>3. IInv /\ Afforded(b) => Modest
  BY AffordedModest
<1>4. QED
  BY <1>1, <1>2, <1>3, Inductive, PTL DEF Spec

\* An order whose budget covers all it asks for, at any price, with a unit a share
\* to round up, is filled as the exchange fills it, and its trades account for every
\* share it lost, while no reset has given away slots of other books.  At a price of a hundred units or more that unit is within the 1%
\* that have_funds adds; it is the asks above the one it read that it does not cover.
THEOREM AmplyFundedExchange ==
    ASSUME NEW b \in Nat, Ample(b)
    PROVE  Spec => ImplementsExchange /\ []TradesAccount /\ []NeverOverfilled
BY AmpleModest, ExchangeImplemented, TradesAccounted, ModestNeverOverfills, PTL

\* Where no order has a budget, no assumption about budgets is needed.
THEOREM UnbudgetedExchange ==
    ASSUME Funds \subseteq {NoCap}
    PROVE  Spec => ImplementsExchange /\ []TradesAccount
<1>1. PM \in Nat \ {0} /\ NoCap \in Nat /\ \A p \in Prices : p \in Nat /\ p =< NoCap
  BY DataAssumption, WordIsNat
<1>2. NoCap =< NoCap * PM
  BY <1>1
<1>3. \A p \in Prices : p =< NoCap * PM
  BY <1>1, <1>2
<1>4. Ample(NoCap)
  BY <1>3 DEF Ample
<1>5. Spec => ImplementsExchange /\ []TradesAccount /\ []NeverOverfilled
  BY <1>1, <1>4, AmplyFundedExchange, Zenon
<1>6. QED
  BY <1>5, PTL
================================================================================
