--------------------------- MODULE CppOrderBookProofs ---------------------------
(***************************************************************************)
(* Proofs about the C++ order books, for any tickers, orders and budgets   *)
(* (those that overrun included): while no reset has taken slots of other  *)
(* books, every resting order keeps its slot of the shared arena to        *)
(* itself, and heaps, metadata and index agree.  Of the other states, in   *)
(* which Books is empty, the invariant says what the steps out of them     *)
(* need: the types, whose lock is held, and that a limit has a price.      *)
(***************************************************************************)
EXTENDS CppOrderBook, SumProofs

\* The order in hand has a slot, which no heap has and the allocator will not give
\* away, and a metadata entry of its own.
InHand ==
    call = "match" =>
       /\ taker \in Ids /\ lock[at] = "loop"
       /\ slot[taker] \in Slot /\ Taker.side \in Side
       /\ ~rewound =>
          /\ slot[taker] < offset /\ \A t \in Books : slot[taker] \notin Resting(t)
          /\ ~Taker.canceled
          /\ Taker.meta \in DOMAIN vault[at] /\ IdAt(at, slot[taker]) = taker
\* A worker that has found an order holds the lock until it has marked it.
Found ==
    \A t \in Tickers : lock[t] = "worker" => doomed[t] \in active[t]
\* A limit order has a price.
Priced == \A s \in Slot : arena[s].type = "limit" => arena[s].price \in Prices

IInv == TypeOK /\ SlotsOwned /\ IndexAgrees /\ InHand /\ Found /\ Priced

(***************************************************************************)
(* Facts about the data.                                                   *)
(***************************************************************************)
\* uint64_t arithmetic stays in the word.
LEMMA Wraps ==
    ASSUME NEW n \in Int
    PROVE  n % Word \in 0 .. NoCap
  BY DataAssumption DEF NoCap

LEMMA WordIsNat == NoCap \in Nat /\ 0 \in 0 .. NoCap
  BY DataAssumption DEF NoCap

\* The ids are finitely many, so that the slots are numbers from 0 on.
LEMMA SlotIsNat == Slot \subseteq Nat
  BY DEF Slot

\* The initial states satisfy the invariant.
LEMMA InitInv == Init => IInv
<1> SUFFICES ASSUME Init PROVE IInv
  OBVIOUS
<1>1. Blank \in OrderRec
  BY WordIsNat DEF Blank, OrderRec
<1>2. TypeOK
  <2>1. rewound \in BOOLEAN
    BY Zenon DEF Init
  <2>2. QED
    BY <1>1, <2>1, NamesAssumption, WordIsNat DEF Init, TypeOK, Side, NoQuote
<1>3. \A t \in Tickers : Resting(t) = {}
  BY DEF Init, Resting, Side
<1>4. SlotsOwned
  BY <1>3 DEF Init, SlotsOwned, Books, Side
<1>5. ASSUME NEW t \in Tickers PROVE BookAgrees(t)
  <2>1. heap[t] = [s \in Side |-> {}] /\ active[t] = {} /\ canceled[t] = {}
    BY DEF Init
  <2>2. QED
    BY <1>3, <2>1 DEF BookAgrees
<1>6. IndexAgrees
  BY <1>5 DEF IndexAgrees, Books
<1>7. InHand /\ Found
  BY DEF Init, InHand, Found, Books
<1>8. Priced
  BY DEF Init, Priced, Blank
<1>9. QED
  BY <1>2, <1>4, <1>6, <1>7, <1>8 DEF IInv

(***************************************************************************)
(* What a step may do to a book without disturbing it.                     *)
(***************************************************************************)
\* A book whose containers stay as they are, and whose entries keep what they
\* are known by, agrees as before.
LEMMA BookKept ==
    ASSUME NEW t \in Tickers, BookAgrees(t),
           heap'[t] = heap[t], active'[t] = active[t], canceled'[t] = canceled[t],
           \A s \in Resting(t) :
              /\ arena'[s].side = arena[s].side /\ arena'[s].type = arena[s].type
              /\ arena'[s].canceled = arena[s].canceled /\ arena'[s].shares > 0
              /\ arena'[s].meta \in DOMAIN vault'[t]
              /\ IdAt(t, s)' = IdAt(t, s) /\ slot'[IdAt(t, s)] = s
    PROVE  BookAgrees(t)'
<1>1. Resting(t)' = Resting(t)
  BY DEF Resting
<1>2. ASSUME NEW side \in Side, NEW s \in heap[t][side]
      PROVE  EntryAgrees(t, side, s)'
  <2>1. s \in Resting(t)
    BY DEF Resting, Side
  <2>2. EntryAgrees(t, side, s)
    BY DEF BookAgrees
  <2>3. QED
    BY <2>1, <2>2 DEF EntryAgrees
<1>3. {IdAt(t, s) : s \in Resting(t)}' = {IdAt(t, s) : s \in Resting(t)}
  BY <1>1
<1>4. QED
  BY <1>2, <1>3 DEF BookAgrees

\* A book of which nothing changes agrees as before.
LEMMA BookSame ==
    ASSUME NEW t \in Tickers, BookAgrees(t),
           heap'[t] = heap[t], active'[t] = active[t], canceled'[t] = canceled[t],
           arena' = arena, vault' = vault, slot' = slot
    PROVE  BookAgrees(t)'
<1>1. ASSUME NEW s \in Resting(t)
      PROVE  /\ arena'[s].shares > 0 /\ arena'[s].meta \in DOMAIN vault'[t]
             /\ IdAt(t, s)' = IdAt(t, s) /\ slot'[IdAt(t, s)] = s
  <2>1. \E side \in Side : EntryAgrees(t, side, s)
    BY DEF BookAgrees, Resting, Side
  <2>2. QED
    BY <2>1 DEF EntryAgrees, IdAt
<1>2. QED
  BY <1>1, BookKept

\* An entry is popped, and its id is dropped.
LEMMA BookPopped ==
    ASSUME NEW t \in Tickers, NEW side \in Side, NEW s \in heap[t][side], BookAgrees(t),
           heap[t]["buy"] \cap heap[t]["sell"] = {},
           heap'[t] = [heap[t] EXCEPT ![side] = @ \ {s}], heap[t] \in [Side -> SUBSET Slot],
           active'[t] = active[t] \ {IdAt(t, s)},
           canceled'[t] = canceled[t] \ {IdAt(t, s)},
           vault' = vault, slot' = slot,
           \A r \in Resting(t) \ {s} : arena'[r] = arena[r]
    PROVE  BookAgrees(t)'
<1>1. Resting(t)' = Resting(t) \ {s}
  BY DEF Resting, Side
<1>2. ASSUME NEW r \in Resting(t) \ {s}
      PROVE  IdAt(t, r)' = IdAt(t, r) /\ IdAt(t, r) # IdAt(t, s)
  <2>1. slot[IdAt(t, r)] = r /\ slot[IdAt(t, s)] = s
    BY DEF BookAgrees, EntryAgrees, Resting, Side
  <2>2. QED
    BY <2>1 DEF IdAt
<1>3. ASSUME NEW side2 \in Side, NEW r \in heap'[t][side2]
      PROVE  EntryAgrees(t, side2, r)'
  <2>1. r \in heap[t][side2] /\ r \in Resting(t) \ {s}
    BY <1>1 DEF Resting, Side
  <2>2. EntryAgrees(t, side2, r)
    BY <2>1 DEF BookAgrees
  <2>3. QED
    BY <1>2, <2>1, <2>2 DEF EntryAgrees
<1>4. {IdAt(t, r) : r \in Resting(t)}' = {IdAt(t, r) : r \in Resting(t)} \ {IdAt(t, s)}
  <2>1. {IdAt(t, r) : r \in Resting(t)}' = {IdAt(t, r) : r \in Resting(t) \ {s}}
    BY <1>1, <1>2
  <2>2. s \in Resting(t)
    BY DEF Resting, Side
  <2>3. QED
    BY <1>2, <2>1, <2>2
<1>5. QED
  BY <1>3, <1>4 DEF BookAgrees

\* An appended metadata entry leaves the others where they are.
LEMMA AppendKeeps ==
    ASSUME NEW q \in Seq(Ids), NEW i \in Ids
    PROVE  /\ Append(q, i) \in Seq(Ids) /\ Len(q) + 1 \in DOMAIN Append(q, i)
           /\ Append(q, i)[Len(q) + 1] = i
           /\ \A n \in DOMAIN q : n \in DOMAIN Append(q, i) /\ Append(q, i)[n] = q[n]
  OBVIOUS

\* process_order fills in where the metadata is and when the order came.
LEMMA Stamped ==
    ASSUME NEW o \in OrderRec, NEW n \in Nat
    PROVE  LET new == [o EXCEPT !.meta = n + 1, !.stamp = n]
           IN /\ new \in OrderRec /\ new.side = o.side /\ new.canceled = o.canceled
              /\ new.type = o.type /\ new.price = o.price /\ new.meta = n + 1
<1>1. n + 1 \in Nat
  OBVIOUS
<1>2. QED
  BY <1>1 DEF OrderRec

\* A pop takes one slot out of one heap of the book in hand.
LEMMA PopKeeps ==
    ASSUME IInv, ~rewound, NEW side \in Side, NEW s \in heap[at][side], Pop(side, s),
           offset' = offset, rewound' = rewound
    PROVE  /\ heap' = [heap EXCEPT ![at][side] = @ \ {s}]
           /\ heap' \in [Tickers -> [Side -> SUBSET Slot]]
           /\ heap'[at] = [heap[at] EXCEPT ![side] = @ \ {s}]
           /\ \A t \in Tickers \ {at} : heap'[t] = heap[t]
           /\ \A t \in Tickers : Resting(t)' \subseteq Resting(t)
           /\ SlotsOwned'
<1>2. heap' = [heap EXCEPT ![at][side] = @ \ {s}]
  BY DEF Pop
<1>3. heap \in [Tickers -> [Side -> SUBSET Slot]] /\ at \in Tickers
  BY DEF IInv, TypeOK
<1>4. heap' \in [Tickers -> [Side -> SUBSET Slot]]
  BY <1>2, <1>3
<1>5. heap'[at] = [heap[at] EXCEPT ![side] = @ \ {s}]
  BY <1>2, <1>3
<1>6. \A t \in Tickers \ {at} : heap'[t] = heap[t]
  BY <1>2, <1>3
<1>7. \A t \in Tickers, sd \in Side : heap'[t][sd] \subseteq heap[t][sd]
  BY <1>3, <1>5, <1>6
<1>8. \A t \in Tickers : Resting(t)' \subseteq Resting(t)
  BY <1>7 DEF Resting, Side
<1>9. SlotsOwned'
  <2>1. Books' = Books /\ Books \subseteq Tickers
    BY DEF Books
  <2>2. SlotsOwned
    BY DEF IInv
  <2>3. ASSUME NEW t \in Books
        PROVE  /\ \A r \in Resting(t)' : r < offset'
               /\ \A u \in Books \ {t} : Resting(t)' \cap Resting(u)' = {}
               /\ heap'[t]["buy"] \cap heap'[t]["sell"] = {}
    <3>1. \A r \in Resting(t)' : r < offset'
      BY <1>8, <2>1, <2>2 DEF SlotsOwned
    <3>2. \A u \in Books \ {t} : Resting(t)' \cap Resting(u)' = {}
      BY <1>8, <2>1, <2>2 DEF SlotsOwned
    <3>3. heap'[t]["buy"] \cap heap'[t]["sell"] = {}
      BY <1>7, <2>1, <2>2 DEF SlotsOwned, Side
    <3>4. QED
      BY <3>1, <3>2, <3>3
  <2>4. QED
    BY <2>1, <2>3 DEF SlotsOwned
<1>10. QED
  BY <1>2, <1>4, <1>5, <1>6, <1>8, <1>9

\* The metadata of an entry of a heap names one order.
LEMMA OwnId ==
    ASSUME NEW t \in Tickers, NEW side \in Side, NEW s \in heap[t][side],
           BookAgrees(t), vault[t] \in Seq(Ids)
    PROVE  IdsAt(t, s) = {IdAt(t, s)} /\ IdAt(t, s) \in Ids
<1>1. arena[s].meta \in DOMAIN vault[t]
  BY DEF BookAgrees, EntryAgrees
<1>2. QED
  BY <1>1 DEF IdsAt, IdAt

\* While books are confused, the invariant is what a step out of it needs.
LEMMA StaleInv ==
    ASSUME rewound', TypeOK', InHand', Found', Priced' PROVE IInv'
<1>1. Books' = {}
  BY DEF Books
<1>2. QED
  BY <1>1 DEF IInv, SlotsOwned, IndexAgrees

\* A pop of a confused heap leaves a heap of slots.
LEMMA StalePop ==
    ASSUME IInv, NEW side \in Side, NEW s \in Slot, Pop(side, s)
    PROVE  heap' \in [Tickers -> [Side -> SUBSET Slot]]
<1>1. heap \in [Tickers -> [Side -> SUBSET Slot]]
  BY DEF IInv, TypeOK
<1>2. QED
  BY <1>1 DEF Pop

(***************************************************************************)
(* Every action preserves the invariant.                                   *)
(***************************************************************************)
\* process_order gives the order a slot no heap has.
LEMMA SubmitInv ==
    ASSUME IInv, NEW t \in Tickers, NEW i \in Ids, NEW o \in OrderRec,
           o.side \in Side, o.canceled = FALSE, o.type = "limit" => o.price \in Prices,
           Submit(t, i, o)
    PROVE  IInv'
<1> DEFINE n == Len(vault[t])
<1> DEFINE new == [o EXCEPT !.meta = n + 1, !.stamp = n]
<1>1. TypeOK /\ SlotsOwned /\ IndexAgrees /\ Found /\ Priced
  BY DEF IInv
<1>2. n \in Nat /\ vault[t] \in Seq(Ids) /\ offset \in Slot /\ offset \in Nat
  BY <1>1 DEF TypeOK, Submit
<1>3. /\ new \in OrderRec /\ new.side \in Side /\ new.canceled = FALSE
      /\ new.type = "limit" => new.price \in Prices
      /\ new.meta = n + 1
  BY <1>2, Stamped
<1> HIDE DEF n, new
<1>4. /\ arena' = [arena EXCEPT ![offset] = new]
      /\ vault' = [vault EXCEPT ![t] = Append(@, i)]
      /\ heap' = heap /\ active' = active /\ canceled' = canceled
      /\ rewound' = rewound /\ taker' = i /\ at' = t
      /\ offset' = offset + 1
    BY DEF Submit, NextOffset, n, new
<1>5. /\ arena'[offset] = new /\ \A s \in Slot \ {offset} : arena'[s] = arena[s]
      /\ vault'[t] = Append(vault[t], i) /\ \A u \in Tickers \ {t} : vault'[u] = vault[u]
  BY <1>1, <1>2, <1>4 DEF TypeOK
<1>6. slot'[i] = offset /\ \A j \in Ids : j # i /\ slot[j] # offset => slot'[j] = slot[j]
  BY DEF Submit
<1>7. TypeOK'
  <2>1. arena' \in [Slot -> OrderRec] /\ offset' \in Nat
    BY <1>1, <1>2, <1>3, <1>4 DEF TypeOK
  <2>2. slot' \in [Ids -> Slot \cup {Unsent, Taken}]
    BY <1>1, <1>2 DEF TypeOK, Submit
  <2>3. vault' \in [Tickers -> Seq(Ids)]
    BY <1>1, <1>4 DEF TypeOK
  <2>4. bbo' \in [Side -> Nat]
    BY DEF Submit, NoQuote, Side
  <2>5. lock' \in [Tickers -> {"free", "loop", "worker"}]
    BY <1>1 DEF TypeOK, Submit
  <2>6. QED
    BY <1>1, <2>1, <2>2, <2>3, <2>4, <2>5 DEF TypeOK, Submit
<1>8. Books' = Books /\ Books \subseteq Tickers /\ \A u \in Books : Resting(u)' = Resting(u)
  BY <1>4 DEF Books, Resting
<1>9. \A u \in Books : \A s \in Resting(u) : s \in Slot /\ s # offset /\ s < offset /\ s \in Nat
  BY <1>1, <1>2, <1>8, SlotIsNat DEF TypeOK, Resting, SlotsOwned, Side
<1>10. SlotsOwned'
  <2>1. \A u \in Books : \A s \in Resting(u) : s < offset'
    BY <1>2, <1>4, <1>9
  <2>2. QED
    BY <1>1, <1>4, <1>8, <2>1 DEF SlotsOwned
<1>11. IndexAgrees'
  <2>1. ASSUME NEW u \in Books PROVE BookAgrees(u)'
    <3>1. BookAgrees(u) /\ u \in Tickers
      BY <1>1, <1>8 DEF IndexAgrees
    <3>2. ASSUME NEW s \in Resting(u)
          PROVE  /\ arena'[s].side = arena[s].side /\ arena'[s].type = arena[s].type
                 /\ arena'[s].canceled = arena[s].canceled /\ arena'[s].shares > 0
                 /\ arena'[s].meta \in DOMAIN vault'[u]
                 /\ IdAt(u, s)' = IdAt(u, s) /\ slot'[IdAt(u, s)] = s
      <4>1. \E side \in Side : EntryAgrees(u, side, s)
        BY <3>1 DEF BookAgrees, Resting, Side
      <4>2. arena'[s] = arena[s]
        BY <1>5, <1>9
      <4>3. arena[s].meta \in DOMAIN vault[u] /\ slot[IdAt(u, s)] = s /\ arena[s].shares > 0
        BY <4>1 DEF EntryAgrees
      <4>4. vault[u] \in Seq(Ids) /\ IdAt(u, s) \in Ids
        BY <1>1, <3>1, <4>3 DEF TypeOK, IdAt
      <4>5. arena[s].meta \in DOMAIN vault'[u] /\ vault'[u][arena[s].meta] = vault[u][arena[s].meta]
        <5>1. CASE u = t
          BY <1>5, <4>3, <4>4, <5>1, AppendKeeps
        <5>2. CASE u # t
          BY <1>5, <3>1, <4>3, <5>2
        <5>3. QED
          BY <5>1, <5>2
      <4>6. slot[i] = Unsent
        BY DEF Submit, Known
      <4>7. IdAt(u, s) # i
        BY <1>9, <4>3, <4>6 DEF Unsent
      <4>8. slot'[IdAt(u, s)] = s
        BY <1>6, <1>9, <4>3, <4>4, <4>7
      <4>9. QED
        BY <4>2, <4>3, <4>5, <4>8 DEF IdAt
    <3>3. QED
      BY <1>4, <3>1, <3>2, BookKept
  <2>2. QED
    BY <1>8, <2>1 DEF IndexAgrees
<1>12. InHand'
  <2>1. slot'[taker'] = offset /\ offset \in Slot /\ offset < offset'
    BY <1>2, <1>4, <1>6
  <2>2. \A u \in Books : offset \notin Resting(u)'
    BY <1>8, <1>9
  <2>3. Taker' = new
    BY <1>5, <2>1 DEF Taker
  <2>4. new.meta \in DOMAIN vault'[t] /\ vault'[t][new.meta] = i
    BY <1>2, <1>3, <1>5, AppendKeeps DEF n
  <2>5. IdAt(at, slot[taker])' = i
    BY <1>4, <1>5, <2>1, <2>4 DEF IdAt
  <2>6. lock'[t] = "loop"
    BY <1>1 DEF TypeOK, Submit
  <2>7. QED
    BY <1>3, <1>4, <1>8, <2>1, <2>2, <2>3, <2>4, <2>5, <2>6 DEF InHand
<1>13. Found'
  BY <1>1, <1>4, <1>8 DEF Found, TypeOK, Submit
<1>14. Priced'
  BY <1>1, <1>3, <1>5 DEF Priced, Submit
<1>15. QED
  BY <1>7, <1>10, <1>11, <1>12, <1>13, <1>14 DEF IInv

\* A tombstone at the top of a heap is dropped, by the loop of a match or of a
\* quote.
LEMMA DeadPopped ==
    ASSUME IInv, ~rewound, NEW side \in Side, NEW s \in heap[at][side],
           arena[s].canceled, Pop(side, s),
           \E i \in IdsAt(at, s) : canceled' = [canceled EXCEPT ![at] = @ \ {i}],
           UNCHANGED <<arenaVars, vault, active, threadVars, resultVars, rewound>>
    PROVE  IInv'
<1>1. TypeOK /\ SlotsOwned /\ IndexAgrees /\ InHand /\ Found /\ Priced
  BY DEF IInv
<1>2. /\ UNCHANGED <<arena, offset, slot, vault, active, lock, doomed, call, at>>
      /\ UNCHANGED <<taker, spent, trades, bbo, rewound>>
  BY DEF arenaVars, threadVars, resultVars
<1>3. /\ heap' \in [Tickers -> [Side -> SUBSET Slot]]
      /\ heap'[at] = [heap[at] EXCEPT ![side] = @ \ {s}]
      /\ \A t \in Tickers \ {at} : heap'[t] = heap[t]
      /\ \A t \in Tickers : Resting(t)' \subseteq Resting(t)
      /\ SlotsOwned'
  BY <1>2, PopKeeps
<1>4. Books' = Books /\ Books = Tickers
  BY <1>2 DEF Books
<1>0. canceled' = [canceled EXCEPT ![at] = @ \ {IdAt(at, s)}]
  <2>1. at \in Tickers /\ BookAgrees(at) /\ vault[at] \in Seq(Ids)
    BY <1>1, <1>4 DEF IndexAgrees, TypeOK
  <2>2. IdsAt(at, s) = {IdAt(at, s)}
    BY <2>1, OwnId
  <2>3. QED
    BY <2>2
<1>5. TypeOK'
  <2>1. canceled' \in [Tickers -> SUBSET Ids]
    BY <1>0, <1>1 DEF TypeOK
  <2>2. QED
    BY <1>1, <1>2, <1>3, <2>1 DEF TypeOK
<1>6. IndexAgrees'
  <2>1. ASSUME NEW t \in Books PROVE BookAgrees(t)'
    <3>1. BookAgrees(t) /\ t \in Tickers
      BY <1>1, <1>4, <2>1 DEF IndexAgrees
    <3>2. CASE t = at
      <4>1. IdAt(t, s) \notin active[t]
        BY <3>1, <3>2 DEF BookAgrees, EntryAgrees
      <4>2. active'[t] = active[t] \ {IdAt(t, s)}
        BY <1>2, <4>1
      <4>3. canceled'[t] = canceled[t] \ {IdAt(t, s)}
        BY <1>0, <1>1, <3>1, <3>2 DEF TypeOK
      <4>4. s \in heap[t][side] /\ heap'[t] = [heap[t] EXCEPT ![side] = @ \ {s}]
        BY <1>3, <3>2
      <4>5. heap[t]["buy"] \cap heap[t]["sell"] = {} /\ heap[t] \in [Side -> SUBSET Slot]
        BY <1>1, <3>1 DEF SlotsOwned, TypeOK
      <4>6. QED
        BY <1>2, <3>1, <4>2, <4>3, <4>4, <4>5, BookPopped
    <3>3. CASE t # at
      <4>1. heap'[t] = heap[t] /\ active'[t] = active[t] /\ canceled'[t] = canceled[t]
        BY <1>0, <1>1, <1>2, <1>3, <3>1, <3>3 DEF TypeOK
      <4>2. QED
        BY <1>2, <3>1, <4>1, BookSame
    <3>4. QED
      BY <3>2, <3>3
  <2>2. QED
    BY <1>4, <2>1 DEF IndexAgrees
<1>7. InHand'
  <2>1. Taker' = Taker /\ IdAt(at, slot[taker])' = IdAt(at, slot[taker])
    BY <1>2 DEF Taker, IdAt
  <2>2. QED
    BY <1>1, <1>2, <1>3, <1>4, <2>1 DEF InHand
<1>8. Found' /\ Priced'
  BY <1>1, <1>2, <1>4 DEF Found, Priced
<1>9. QED
  BY <1>3, <1>5, <1>6, <1>7, <1>8 DEF IInv

\* And so is one at the top of a confused heap.
LEMMA StalePopped ==
    ASSUME IInv, rewound, NEW side \in Side, NEW s \in Slot, Pop(side, s),
           \E i \in IdsAt(at, s) : canceled' = [canceled EXCEPT ![at] = @ \ {i}],
           UNCHANGED <<arenaVars, vault, active, threadVars, resultVars, rewound>>
    PROVE  IInv'
<1>1. TypeOK /\ InHand /\ Found /\ Priced
  BY DEF IInv
<1>2. /\ UNCHANGED <<arena, offset, slot, vault, active, lock, doomed, call, at>>
      /\ UNCHANGED <<taker, spent, trades, bbo, rewound>>
  BY DEF arenaVars, threadVars, resultVars
<1>3. heap' \in [Tickers -> [Side -> SUBSET Slot]]
  BY StalePop
<1>4. canceled' \in [Tickers -> SUBSET Ids]
  BY <1>1 DEF TypeOK
<1>5. TypeOK'
  BY <1>1, <1>2, <1>3, <1>4 DEF TypeOK
<1>6. InHand' /\ Found' /\ Priced'
  BY <1>1, <1>2 DEF InHand, Taker, Found, Priced
<1>7. QED
  BY <1>2, <1>5, <1>6, StaleInv

\* The loop of a match drops a tombstone.
LEMMA SkipInv == ASSUME IInv, NEW s \in Slot, Skip(s) PROVE IInv'
<1>1. Taker.side \in Side
  BY DEF IInv, InHand, Skip
<1>2. Target \in Side /\ s \in heap[at][Target]
  BY <1>1 DEF Target, Other, Side, Skip, IsTop
<1>3. QED
  BY <1>2, DeadPopped, StalePopped DEF Skip

\* get_current_bbo drops a tombstone.
LEMMA BBOSkipInv ==
    ASSUME IInv, NEW s \in Slot, NEW side \in Side, BBOSkip(side, s) PROVE IInv'
<1>1. s \in heap[at][side]
  BY DEF BBOSkip, IsTop
<1>2. QED
  BY <1>1, DeadPopped, StalePopped DEF BBOSkip

\* What a trade costs is a number of the word.
LEMMA CostType ==
    ASSUME NEW quantity \in Nat, NEW price \in Nat
    PROVE  Cost(quantity, price) \in 0 .. NoCap
<1> DEFINE cost == ((quantity * price) \div PM) % Word
<1>1. quantity * price \in Nat
  OBVIOUS
<1>2. (quantity * price) \div PM \in Int
  BY <1>1, DataAssumption
<1>3. cost \in 0 .. NoCap
  BY <1>2, Wraps
<1> HIDE DEF cost
<1>4. cost + 1 \in Int
  BY <1>3, WordIsNat
<1>5. (cost + 1) % Word \in 0 .. NoCap
  BY <1>4, Wraps
<1>6. QED
  BY <1>3, <1>5 DEF Cost, cost

\* What the rest of a budget affords is one too.
LEMMA AffordedType ==
    ASSUME NEW funds \in Int, NEW paid \in Int, NEW price \in Nat \ {0}
    PROVE  ((((funds - paid) % Word) * PM) \div price) % Word \in 0 .. NoCap
<1> DEFINE rest == (funds - paid) % Word
<1>1. rest \in 0 .. NoCap
  BY Wraps
<1>2. rest \in Nat
  BY <1>1, WordIsNat
<1> HIDE DEF rest
<1>3. rest * PM \in Nat
  BY <1>2, DataAssumption
<1> DEFINE product == rest * PM
<1> HIDE DEF product
<1>4. product \in Nat
  BY <1>3 DEF product
<1>5. product \div price \in Int
  BY <1>4
<1>6. QED
  BY <1>5, Wraps DEF product, rest

\* What is known of the order in hand and of a live order that it can reach.
LEMMA Facing ==
    ASSUME IInv, ~rewound, call = "match", NEW s \in LiveTop(at, Target)
    PROVE  /\ Target \in Side /\ s \in heap[at][Target] /\ s \in Slot /\ at \in Tickers
           /\ s \in Resting(at) /\ EntryAgrees(at, Target, s) /\ s # slot[taker]
           /\ IdAt(at, s) \in Ids /\ arena[s].price \in Prices
           /\ arena[s] \in OrderRec /\ Taker \in OrderRec
           /\ Settled(s) \in Nat \ {0}
<1>1. TypeOK /\ SlotsOwned /\ IndexAgrees /\ InHand /\ Priced
  BY DEF IInv
<1>2. Taker.side \in Side /\ at \in Books /\ at \in Tickers /\ slot[taker] \in Slot
  BY <1>1 DEF InHand, TypeOK, Books
<1>3. Target \in Side /\ s \in heap[at][Target]
  BY <1>2 DEF Target, Other, Side, LiveTop
<1>4. s \in Slot /\ s \in Resting(at)
  BY <1>1, <1>2, <1>3 DEF TypeOK, Resting, Side
<1>5. EntryAgrees(at, Target, s)
  BY <1>1, <1>2, <1>3 DEF IndexAgrees, BookAgrees
<1>6. s # slot[taker]
  BY <1>1, <1>2, <1>4 DEF InHand
<1>7. IdAt(at, s) \in Ids
  BY <1>1, <1>2, <1>5 DEF TypeOK, EntryAgrees, IdAt
<1>8. arena[s].price \in Prices
  BY <1>1, <1>4, <1>5 DEF Priced, EntryAgrees
<1>9. arena[s] \in OrderRec /\ Taker \in OrderRec
  BY <1>1, <1>2, <1>4 DEF TypeOK, Taker
<1>10. Taker.type = "limit" => Taker.price \in Prices
  BY <1>1, <1>2 DEF Priced, Taker
<1>11. Prices \subseteq Nat \ {0}
  BY DataAssumption, WordIsNat
<1>12. Settled(s) \in Nat \ {0}
  BY <1>8, <1>10, <1>11 DEF Settled
<1>13. QED
  BY <1>2, <1>3, <1>4, <1>5, <1>6, <1>7, <1>8, <1>9, <1>12

\* The quantity of a trade, and the trade, are well formed, whatever heap the
\* resting order comes from.
LEMMA TradeType ==
    ASSUME IInv, call = "match", NEW s \in Slot, Acceptable(s), NEW i \in Ids \cup {NoId}
    PROVE  /\ Quantity(s) \in 0 .. NoCap /\ TradeWith(i, s, Quantity(s)) \in Trade
           /\ Settled(s) \in Nat \ {0}
<1>0. /\ arena[s] \in OrderRec /\ Taker \in OrderRec /\ taker \in Ids
      /\ spent \in 0 .. NoCap /\ slot[taker] \in Slot
  BY DEF IInv, InHand, TypeOK, Taker
<1>1. /\ arena[s] \in OrderRec /\ Taker \in OrderRec /\ Settled(s) \in Nat \ {0}
      /\ taker \in Ids /\ spent \in 0 .. NoCap
  <2>1. arena[s].price \in Prices \cup {0}
    BY <1>0 DEF OrderRec
  <2>2. Taker.type = "limit" => Taker.price \in Prices
    BY <1>0 DEF IInv, Priced, Taker
  <2>3. Prices \subseteq Nat \ {0}
    BY DataAssumption, WordIsNat
  <2>4. Settled(s) \in Nat \ {0}
    BY <2>1, <2>2, <2>3 DEF Settled, Acceptable
  <2>5. QED
    BY <1>0, <2>4
<1>2. Taker.shares \in 0 .. NoCap /\ arena[s].shares \in 0 .. NoCap /\ Taker.funds \in 0 .. NoCap
  BY <1>1 DEF OrderRec
<1>3. Offered(s) \in 0 .. NoCap
  BY <1>2 DEF Offered, Least
<1>4. Taker.funds \in Int /\ spent \in Int
  BY <1>1, <1>2, WordIsNat
<1>5. Quantity(s) \in 0 .. NoCap
  BY <1>1, <1>3, <1>4, AffordedType DEF Quantity
<1>6. Taker.price \in Nat
  <2>1. Taker.price \in Prices \cup {0}
    BY <1>1 DEF OrderRec
  <2>2. Prices \cup {0} \subseteq Nat
    BY DataAssumption, WordIsNat
  <2>3. QED
    BY <2>1, <2>2
<1>7. QED
  BY <1>1, <1>5, <1>6, WordIsNat DEF TradeWith, Trade

\* The shares of one order go down, and nothing else in the arena changes.
LEMMA LessKeeps ==
    ASSUME NEW a \in [Slot -> OrderRec], NEW s \in Slot, NEW q \in 0 .. NoCap
    PROVE  /\ Less(a, s, q) \in [Slot -> OrderRec]
           /\ \A r \in Slot \ {s} : Less(a, s, q)[r] = a[r]
           /\ Less(a, s, q)[s].shares = (a[s].shares - q) % Word
           /\ \A r \in Slot :
                 /\ Less(a, s, q)[r].side = a[r].side /\ Less(a, s, q)[r].type = a[r].type
                 /\ Less(a, s, q)[r].canceled = a[r].canceled
                 /\ Less(a, s, q)[r].price = a[r].price /\ Less(a, s, q)[r].meta = a[r].meta
                 /\ Less(a, s, q)[r].funds = a[r].funds /\ Less(a, s, q)[r].size = a[r].size
                 /\ Less(a, s, q)[r].stamp = a[r].stamp
<1>1. a[s] \in OrderRec
  OBVIOUS
<1>2. a[s].shares \in Int /\ q \in Int
  BY <1>1, WordIsNat DEF OrderRec
<1>3. (a[s].shares - q) % Word \in 0 .. NoCap
  BY <1>2, Wraps
<1>4. PICK x, b : x = (a[s].shares - q) % Word /\ b = [a EXCEPT ![s].shares = x]
  OBVIOUS
<1>5. b[s] = [a[s] EXCEPT !.shares = x] /\ \A r \in Slot \ {s} : b[r] = a[r]
  BY <1>4
<1>6. /\ b[s] \in OrderRec /\ b[s].shares = x
      /\ b[s].side = a[s].side /\ b[s].type = a[s].type /\ b[s].canceled = a[s].canceled
      /\ b[s].price = a[s].price /\ b[s].meta = a[s].meta /\ b[s].funds = a[s].funds
      /\ b[s].size = a[s].size /\ b[s].stamp = a[s].stamp
  BY <1>1, <1>3, <1>4, <1>5 DEF OrderRec
<1>7. b \in [Slot -> OrderRec]
  <2>1. b = [r \in Slot |-> b[r]]
    BY <1>4
  <2>2. QED
    BY <1>5, <1>6, <2>1
<1>8. Less(a, s, q) = b
  BY <1>4 DEF Less
<1>9. QED
  BY <1>4, <1>5, <1>6, <1>7, <1>8

\* The shares of two orders go down, or those of one twice.
LEMMA SharesOnly ==
    ASSUME arena \in [Slot -> OrderRec], NEW m \in Slot, NEW s \in Slot,
           NEW q \in 0 .. NoCap, arena' = Less(Less(arena, m, q), s, q)
    PROVE  /\ arena' \in [Slot -> OrderRec]
           /\ \A r \in Slot \ {m, s} : arena'[r] = arena[r]
           /\ \A r \in Slot :
                 /\ arena'[r].side = arena[r].side /\ arena'[r].type = arena[r].type
                 /\ arena'[r].canceled = arena[r].canceled
                 /\ arena'[r].price = arena[r].price /\ arena'[r].meta = arena[r].meta
                 /\ arena'[r].funds = arena[r].funds /\ arena'[r].size = arena[r].size
                 /\ arena'[r].stamp = arena[r].stamp
           /\ m # s => /\ arena'[m].shares = (arena[m].shares - q) % Word
                       /\ arena'[s].shares = (arena[s].shares - q) % Word
<1>1. PICK half : half = Less(arena, m, q)
  OBVIOUS
<1>2. /\ half \in [Slot -> OrderRec]
      /\ \A r \in Slot \ {m} : half[r] = arena[r]
      /\ half[m].shares = (arena[m].shares - q) % Word
      /\ \A r \in Slot :
            /\ half[r].side = arena[r].side /\ half[r].type = arena[r].type
            /\ half[r].canceled = arena[r].canceled
            /\ half[r].price = arena[r].price /\ half[r].meta = arena[r].meta
            /\ half[r].funds = arena[r].funds /\ half[r].size = arena[r].size
            /\ half[r].stamp = arena[r].stamp
  BY <1>1, LessKeeps
<1>3. arena' = Less(half, s, q)
  BY <1>1
<1>4. /\ arena' \in [Slot -> OrderRec]
      /\ \A r \in Slot \ {s} : arena'[r] = half[r]
      /\ arena'[s].shares = (half[s].shares - q) % Word
      /\ \A r \in Slot :
            /\ arena'[r].side = half[r].side /\ arena'[r].type = half[r].type
            /\ arena'[r].canceled = half[r].canceled
            /\ arena'[r].price = half[r].price /\ arena'[r].meta = half[r].meta
            /\ arena'[r].funds = half[r].funds /\ arena'[r].size = half[r].size
            /\ arena'[r].stamp = half[r].stamp
  BY <1>2, <1>3, LessKeeps
<1>5. QED
  BY <1>2, <1>4

\* A trade.
LEMMA MatchInv == ASSUME IInv, ~rewound, NEW s \in Slot, Match(s) PROVE IInv'
<1> DEFINE m == slot[taker]
           q == Quantity(s)
<1>1. TypeOK /\ SlotsOwned /\ IndexAgrees /\ InHand /\ Found /\ Priced
  BY DEF IInv
<1>2. call = "match" /\ s \in LiveTop(at, Target) /\ Acceptable(s)
  BY DEF Match, Blocked
<1>3. /\ Target \in Side /\ s \in heap[at][Target] /\ at \in Tickers /\ at \in Books
      /\ s \in Resting(at) /\ EntryAgrees(at, Target, s) /\ s # m /\ m \in Slot
      /\ IdAt(at, s) \in Ids
  BY <1>1, <1>2, Facing DEF InHand, Books
<1>0. IdsAt(at, s) = {IdAt(at, s)}
  BY <1>1, <1>3, OwnId DEF IndexAgrees, TypeOK
<1>4. q \in 0 .. NoCap /\ TradeWith(IdAt(at, s), s, q) \in Trade /\ Settled(s) \in Nat
  BY <1>2, <1>3, TradeType
<1>5. /\ spent' = (IF Capped THEN (spent + Cost(q, Settled(s))) % Word ELSE spent)
      /\ arena' = Less(Less(arena, m, q), s, q)
      /\ trades' = Append(trades, TradeWith(IdAt(at, s), s, q))
      /\ UNCHANGED <<offset, slot, vault, canceled, taker, bbo, rewound>>
      /\ UNCHANGED <<lock, doomed, call, at>>
  BY <1>0 DEF Match, threadVars
<1>6. \/ /\ arena'[s].shares = 0 /\ Pop(Target, s)
         /\ active' = [active EXCEPT ![at] = @ \ {IdAt(at, s)}]
      \/ arena'[s].shares # 0 /\ heap' = heap /\ active' = active
  BY <1>0 DEF Match
<1>7. /\ arena' \in [Slot -> OrderRec]
      /\ \A r \in Slot \ {m, s} : arena'[r] = arena[r]
      /\ \A r \in Slot :
            /\ arena'[r].side = arena[r].side /\ arena'[r].type = arena[r].type
            /\ arena'[r].canceled = arena[r].canceled
            /\ arena'[r].price = arena[r].price /\ arena'[r].meta = arena[r].meta
  <2>1. arena \in [Slot -> OrderRec]
    BY <1>1 DEF TypeOK
  <2> HIDE DEF m, q
  <2>2. QED
    BY <1>3, <1>4, <1>5, <2>1, SharesOnly
<1>8. spent' \in 0 .. NoCap
  <2>1. q \in Nat /\ Settled(s) \in Nat /\ spent \in 0 .. NoCap
    BY <1>1, <1>4, WordIsNat DEF TypeOK
  <2>2. Cost(q, Settled(s)) \in 0 .. NoCap
    BY <2>1, CostType
  <2>3. spent + Cost(q, Settled(s)) \in Int
    BY <2>1, <2>2, WordIsNat
  <2>4. (spent + Cost(q, Settled(s))) % Word \in 0 .. NoCap
    BY <2>3, Wraps
  <2>5. QED
    BY <1>5, <2>1, <2>4
<1>9. trades' \in Seq(Trade)
  BY <1>1, <1>4, <1>5 DEF TypeOK
<1> HIDE DEF m, q
<1>10. /\ heap' \in [Tickers -> [Side -> SUBSET Slot]]
       /\ \A t \in Tickers \ {at} : heap'[t] = heap[t] /\ active'[t] = active[t]
       /\ \A t \in Tickers : Resting(t)' \subseteq Resting(t)
       /\ SlotsOwned' /\ active' \in [Tickers -> SUBSET Ids]
  <2>1. CASE Pop(Target, s) /\ active' = [active EXCEPT ![at] = @ \ {IdAt(at, s)}]
    <3>1. active' \in [Tickers -> SUBSET Ids] /\ \A t \in Tickers \ {at} : active'[t] = active[t]
      BY <1>1, <1>3, <2>1 DEF TypeOK
    <3>2. QED
      BY <1>3, <1>5, <2>1, <3>1, PopKeeps
  <2>2. CASE heap' = heap /\ active' = active
    BY <1>1, <1>5, <2>2 DEF TypeOK, SlotsOwned, Resting, Books
  <2>3. QED
    BY <1>6, <2>1, <2>2
<1>11. TypeOK'
  BY <1>1, <1>5, <1>7, <1>8, <1>9, <1>10 DEF TypeOK
<1>12. Books' = Books /\ Books \subseteq Tickers
  BY <1>5 DEF Books
<1>13. m \notin Resting(at) /\ \A t \in Books : m \notin Resting(t)
  BY <1>1, <1>2, <1>3 DEF InHand, m
<1>14. \A t \in Tickers : Resting(t) \subseteq Slot
  BY <1>1 DEF TypeOK, Resting, Side
<1>15. BookAgrees(at)
  BY <1>1, <1>3 DEF IndexAgrees
<1>16. ASSUME NEW t \in Books, t # at PROVE BookAgrees(t)'
  <2>1. t \in Tickers /\ BookAgrees(t) /\ heap'[t] = heap[t] /\ active'[t] = active[t]
    BY <1>1, <1>10, <1>12, <1>16 DEF IndexAgrees
  <2>2. ASSUME NEW r \in Resting(t)
        PROVE  /\ arena'[r] = arena[r] /\ arena[r].shares > 0
               /\ arena[r].meta \in DOMAIN vault[t] /\ slot[IdAt(t, r)] = r
    <3>1. r # m /\ r # s /\ r \in Slot
      BY <1>1, <1>3, <1>13, <1>14, <1>16, <2>1 DEF SlotsOwned
    <3>2. \E side \in Side : EntryAgrees(t, side, r)
      BY <2>1 DEF BookAgrees, Resting, Side
    <3>3. QED
      BY <1>7, <3>1, <3>2 DEF EntryAgrees
  <2>3. \A r \in Resting(t) : IdAt(t, r)' = IdAt(t, r)
    BY <1>5, <2>2 DEF IdAt
  <2>4. QED
    BY <1>5, <2>1, <2>2, <2>3, BookKept
<1>17. ASSUME NEW t \in Books, t = at PROVE BookAgrees(t)'
  <2>1. t \in Tickers /\ BookAgrees(t)
    BY <1>12, <1>15, <1>17
  <2>2. ASSUME NEW r \in Resting(t)
        PROVE  /\ r \in Slot /\ r # m /\ arena[r].shares > 0
               /\ arena[r].meta \in DOMAIN vault[t] /\ slot[IdAt(t, r)] = r
    <3>1. \E side \in Side : EntryAgrees(t, side, r)
      BY <2>1 DEF BookAgrees, Resting, Side
    <3>2. QED
      BY <1>13, <1>14, <2>1, <3>1 DEF EntryAgrees
  <2>3. CASE /\ Pop(Target, s)
             /\ active' = [active EXCEPT ![at] = @ \ {IdAt(at, s)}]
    <3>1. /\ s \in heap[t][Target] /\ heap'[t] = [heap[t] EXCEPT ![Target] = @ \ {s}]
          /\ heap[t]["buy"] \cap heap[t]["sell"] = {} /\ heap[t] \in [Side -> SUBSET Slot]
      BY <1>1, <1>3, <1>5, <1>17, <2>3, PopKeeps DEF TypeOK, SlotsOwned
    <3>2. active'[t] = active[t] \ {IdAt(t, s)}
      BY <1>1, <1>17, <2>1, <2>3 DEF TypeOK
    <3>3. IdAt(t, s) \in active[t]
      BY <1>2, <1>3, <1>17 DEF EntryAgrees, LiveTop
    <3>4. canceled'[t] = canceled[t] \ {IdAt(t, s)}
      BY <1>5, <2>1, <3>3 DEF BookAgrees
    <3>5. \A r \in Resting(t) \ {s} : arena'[r] = arena[r]
      BY <1>7, <2>2
    <3>6. QED
      BY <1>3, <1>5, <2>1, <3>1, <3>2, <3>4, <3>5, BookPopped
  <2>4. CASE arena'[s].shares # 0 /\ heap' = heap /\ active' = active
    <3>1. arena'[s].shares > 0
      <4>1. arena'[s] \in OrderRec
        BY <1>7
      <4>2. arena'[s].shares \in 0 .. NoCap
        BY <4>1 DEF OrderRec
      <4>3. QED
        BY <2>4, <4>2, WordIsNat
    <3>2. ASSUME NEW r \in Resting(t)
          PROVE  /\ arena'[r].side = arena[r].side /\ arena'[r].type = arena[r].type
                 /\ arena'[r].canceled = arena[r].canceled /\ arena'[r].shares > 0
                 /\ arena'[r].meta \in DOMAIN vault'[t]
                 /\ IdAt(t, r)' = IdAt(t, r) /\ slot'[IdAt(t, r)] = r
      <4>1. arena'[r].shares > 0
        BY <1>7, <2>2, <3>1
      <4>2. IdAt(t, r)' = IdAt(t, r)
        BY <1>5, <1>7, <2>2 DEF IdAt
      <4>3. QED
        BY <1>5, <1>7, <2>2, <4>1, <4>2
    <3>3. QED
      BY <1>5, <2>1, <2>4, <3>2, BookKept
  <2>5. QED
    BY <1>6, <2>3, <2>4
<1>18. IndexAgrees'
  BY <1>12, <1>16, <1>17 DEF IndexAgrees
<1>19. InHand'
  <2>1. m = slot[taker] /\ slot'[taker'] = m
    BY <1>5 DEF m
  <2>2. Taker'.side = Taker.side /\ Taker'.canceled = Taker.canceled /\ Taker'.meta = Taker.meta
    BY <1>3, <1>7, <2>1 DEF Taker
  <2>3. IdAt(at, slot[taker])' = IdAt(at, slot[taker])
    BY <1>3, <1>5, <1>7, <2>1 DEF IdAt
  <2>4. \A t \in Books : m \notin Resting(t)'
    BY <1>10, <1>12, <1>13
  <2>5. QED
    BY <1>1, <1>2, <1>5, <1>12, <2>1, <2>2, <2>3, <2>4 DEF InHand
<1>20. Found'
  <2>1. lock[at] = "loop"
    BY <1>1, <1>2 DEF InHand
  <2>2. QED
    BY <1>1, <1>5, <1>10, <1>12, <2>1 DEF Found
<1>21. Priced'
  BY <1>1, <1>7 DEF Priced
<1>22. QED
  BY <1>10, <1>11, <1>18, <1>19, <1>20, <1>21 DEF IInv

\* A trade with an entry of a confused heap, which may be the taker's own slot.
LEMMA StaleMatchInv == ASSUME IInv, rewound, NEW s \in Slot, Match(s) PROVE IInv'
<1> DEFINE m == slot[taker]
           q == Quantity(s)
<1>1. TypeOK /\ InHand /\ Found /\ Priced /\ rewound' = rewound
  BY DEF IInv, Match
<1>2. call = "match" /\ Acceptable(s)
  BY DEF Match, Blocked
<1>3. m \in Slot /\ at \in Tickers /\ lock[at] = "loop" /\ taker \in Ids /\ Target \in Side
  BY <1>1, <1>2 DEF InHand, TypeOK, Target, Other, Side
<1>4. q \in 0 .. NoCap /\ Settled(s) \in Nat
  BY <1>2, TradeType
<1>5. PICK i \in IdsAt(at, s) :
         /\ trades' = Append(trades, TradeWith(i, s, q))
         /\ \/ Pop(Target, s) /\ active' = [active EXCEPT ![at] = @ \ {i}]
            \/ heap' = heap /\ active' = active
  BY DEF Match
<1>6. /\ spent' = (IF Capped THEN (spent + Cost(q, Settled(s))) % Word ELSE spent)
      /\ arena' = Less(Less(arena, m, q), s, q)
      /\ UNCHANGED <<offset, slot, vault, canceled, taker, bbo, lock, doomed, call, at>>
  BY DEF Match, threadVars
<1>7. i \in Ids \cup {NoId}
  BY <1>1, <1>3 DEF IdsAt, IdAt, TypeOK
<1>8. trades' \in Seq(Trade)
  BY <1>1, <1>2, <1>5, <1>7, TradeType DEF TypeOK
<1>9. spent' \in 0 .. NoCap
  <2>1. q \in Nat /\ spent \in 0 .. NoCap
    BY <1>1, <1>4, WordIsNat DEF TypeOK
  <2>2. Cost(q, Settled(s)) \in 0 .. NoCap
    BY <1>4, <2>1, CostType
  <2>3. spent + Cost(q, Settled(s)) \in Int
    BY <2>1, <2>2, WordIsNat
  <2>4. (spent + Cost(q, Settled(s))) % Word \in 0 .. NoCap
    BY <2>3, Wraps
  <2>5. QED
    BY <1>6, <2>1, <2>4
<1> HIDE DEF m, q
<1>10. /\ arena' \in [Slot -> OrderRec]
       /\ \A r \in Slot :
             /\ arena'[r].side = arena[r].side /\ arena'[r].type = arena[r].type
             /\ arena'[r].price = arena[r].price
  <2>1. arena \in [Slot -> OrderRec]
    BY <1>1 DEF TypeOK
  <2>2. QED
    BY <1>3, <1>4, <1>6, <2>1, SharesOnly
<1>11. heap' \in [Tickers -> [Side -> SUBSET Slot]] /\ active' \in [Tickers -> SUBSET Ids]
       /\ \A t \in Tickers \ {at} : active'[t] = active[t]
  <2>1. CASE Pop(Target, s) /\ active' = [active EXCEPT ![at] = @ \ {i}]
    BY <1>1, <1>3, <2>1, StalePop DEF TypeOK
  <2>2. CASE heap' = heap /\ active' = active
    BY <1>1, <2>2 DEF TypeOK
  <2>3. QED
    BY <1>5, <2>1, <2>2
<1>12. TypeOK'
  BY <1>1, <1>6, <1>8, <1>9, <1>10, <1>11 DEF TypeOK
<1>13. InHand'
  <2>1. Taker'.side = Taker.side /\ slot'[taker'] = slot[taker]
    BY <1>3, <1>6, <1>10 DEF Taker, m
  <2>2. QED
    BY <1>1, <1>2, <1>6, <2>1 DEF InHand
<1>14. Found'
  BY <1>1, <1>3, <1>6, <1>11 DEF Found
<1>15. Priced'
  BY <1>1, <1>10 DEF Priced
<1>16. QED
  BY <1>1, <1>12, <1>13, <1>14, <1>15, StaleInv

\* What is left of a limit order takes the slot it had in hand into its heap.
LEMMA DoneInv == ASSUME IInv, ~rewound, Done PROVE IInv'
<1> DEFINE m == slot[taker]
<1>1. TypeOK /\ SlotsOwned /\ IndexAgrees /\ InHand /\ Found /\ Priced
  BY DEF IInv
<1>2. /\ call = "match" /\ call' = "none"
      /\ lock' = [lock EXCEPT ![at] = "free"] /\ spent' = 0 /\ trades' = <<>>
      /\ UNCHANGED <<arena, offset, slot, vault, canceled, doomed, at, taker, bbo, rewound>>
  BY DEF Done, arenaVars
<1>3. /\ at \in Books /\ at \in Tickers /\ taker \in Ids /\ m \in Slot /\ m < offset
      /\ \A t \in Books : m \notin Resting(t)
      /\ arena[m].side \in Side /\ ~arena[m].canceled
      /\ arena[m].meta \in DOMAIN vault[at] /\ IdAt(at, m) = taker
  BY <1>1, <1>2 DEF InHand, TypeOK, Taker, Books
<1>4. \/ /\ arena[m].type = "limit" /\ arena[m].shares > 0
         /\ heap' = [heap EXCEPT ![at][arena[m].side] = @ \cup {m}]
         /\ active' = [active EXCEPT ![at] = @ \cup {taker}]
      \/ heap' = heap /\ active' = active
  BY DEF Done, Rest, Taker
<1>5. Books' = Books /\ Books = Tickers
  BY <1>2 DEF Books
<1> DEFINE side == arena[m].side
<1> HIDE DEF m
<1>6. ASSUME arena[m].type = "limit" /\ arena[m].shares > 0,
             heap' = [heap EXCEPT ![at][side] = @ \cup {m}],
             active' = [active EXCEPT ![at] = @ \cup {taker}]
      PROVE  /\ heap' \in [Tickers -> [Side -> SUBSET Slot]]
             /\ active' \in [Tickers -> SUBSET Ids]
             /\ SlotsOwned' /\ IndexAgrees' /\ Found'
  <2>1. side \in Side
    BY <1>3
  <2> HIDE DEF side
  <2>2. /\ heap' \in [Tickers -> [Side -> SUBSET Slot]]
        /\ active' \in [Tickers -> SUBSET Ids]
        /\ heap'[at] = [heap[at] EXCEPT ![side] = @ \cup {m}]
        /\ active'[at] = active[at] \cup {taker}
        /\ \A t \in Tickers \ {at} : heap'[t] = heap[t] /\ active'[t] = active[t]
    BY <1>1, <1>3, <1>6, <2>1 DEF TypeOK
  <2>3. \A t \in Tickers \ {at} : Resting(t)' = Resting(t)
    BY <2>2 DEF Resting
  <2>4. \A t \in Tickers : t = at => Resting(t)' = Resting(t) \cup {m}
    <3>1. ASSUME NEW t \in Tickers, t = at PROVE Resting(t)' = Resting(t) \cup {m}
      <4>1. heap[t] \in [Side -> SUBSET Slot] /\ heap'[t] = [heap[t] EXCEPT ![side] = @ \cup {m}]
        BY <1>1, <2>2, <3>1 DEF TypeOK
      <4>2. CASE side = "buy"
        BY <4>1, <4>2 DEF Resting, Side
      <4>3. CASE side = "sell"
        BY <4>1, <4>3 DEF Resting, Side
      <4>4. QED
        BY <2>1, <4>2, <4>3 DEF Side
    <3>2. QED
      BY <3>1
  <2>5. SlotsOwned'
    <3>1. \A t \in Books : \A s \in Resting(t)' : s < offset
      BY <1>1, <1>3, <1>5, <2>3, <2>4 DEF SlotsOwned
    <3>2. \A t \in Books : \A u \in Books \ {t} : Resting(t)' \cap Resting(u)' = {}
      BY <1>1, <1>3, <1>5, <2>3, <2>4 DEF SlotsOwned
    <3>3. heap'[at]["buy"] \cap heap'[at]["sell"] = {}
      <4>1. heap[at]["buy"] \cap heap[at]["sell"] = {} /\ heap[at] \in [Side -> SUBSET Slot]
        BY <1>1, <1>3 DEF SlotsOwned, TypeOK
      <4>2. m \notin heap[at]["buy"] /\ m \notin heap[at]["sell"]
        BY <1>3 DEF Resting
      <4>3. QED
        BY <2>1, <2>2, <4>1, <4>2 DEF Side
    <3>4. \A t \in Books : heap'[t]["buy"] \cap heap'[t]["sell"] = {}
      BY <1>1, <1>5, <2>2, <3>3 DEF SlotsOwned
    <3>5. QED
      BY <1>2, <1>5, <3>1, <3>2, <3>4 DEF SlotsOwned
  <2>6. ASSUME NEW t \in Books, t # at PROVE BookAgrees(t)'
    <3>1. BookAgrees(t) /\ t \in Tickers
      BY <1>1, <1>5 DEF IndexAgrees
    <3>2. QED
      BY <1>2, <2>2, <2>6, <3>1, BookSame
  <2>7. ASSUME NEW t \in Books, t = at PROVE BookAgrees(t)'
    <3>1. t \in Tickers /\ BookAgrees(t) /\ canceled'[t] = canceled[t]
      BY <1>1, <1>2, <1>5 DEF IndexAgrees
    <3>2. ASSUME NEW r \in Resting(t)
          PROVE  /\ slot[IdAt(t, r)] = r /\ IdAt(t, r) # taker /\ IdAt(t, r)' = IdAt(t, r)
      <4>1. \E sd \in Side : EntryAgrees(t, sd, r)
        BY <3>1 DEF BookAgrees, Resting, Side
      <4>2. r # m /\ slot[IdAt(t, r)] = r
        BY <1>3, <2>7, <4>1 DEF EntryAgrees
      <4>3. QED
        BY <1>2, <4>2 DEF IdAt, m
    <3>3. ASSUME NEW sd \in Side, NEW r \in heap'[t][sd]
          PROVE  EntryAgrees(t, sd, r)'
      <4>1. CASE r \in heap[t][sd]
        <5>1. EntryAgrees(t, sd, r) /\ r \in Resting(t)
          BY <3>1, <4>1 DEF BookAgrees, Resting, Side
        <5>2. QED
          BY <1>2, <2>2, <2>7, <3>2, <5>1 DEF EntryAgrees
      <4>2. CASE r \notin heap[t][sd]
        <5>1. r = m /\ sd = side
          BY <1>1, <2>1, <2>2, <2>7, <3>1, <4>2 DEF TypeOK
        <5>2. QED
          <6>1. /\ arena'[r].side = side /\ arena'[r].type = "limit" /\ arena'[r].shares > 0
                /\ ~arena'[r].canceled /\ arena'[r].meta \in DOMAIN vault'[t]
            BY <1>2, <1>3, <1>6, <2>7, <5>1 DEF side
          <6>2. IdAt(t, r)' = taker
            BY <1>2, <1>3, <2>7, <5>1 DEF IdAt
          <6>3. slot'[taker] = r /\ taker \in active'[t]
            BY <1>2, <2>2, <2>7, <5>1 DEF m
          <6>4. QED
            BY <5>1, <6>1, <6>2, <6>3 DEF EntryAgrees
      <4>3. QED
        BY <4>1, <4>2
    <3>4. active[t] \cap canceled[t] = {}
          /\ active[t] \cup canceled[t] = {IdAt(t, r) : r \in Resting(t)}
      BY <3>1 DEF BookAgrees
    <3>5. taker \notin canceled[t]
      BY <3>2, <3>4
    <3>6. {IdAt(t, r) : r \in Resting(t)}' = {IdAt(t, r) : r \in Resting(t)} \cup {taker}
      <4>1. Resting(t)' = Resting(t) \cup {m}
        BY <2>4, <2>7, <3>1
      <4>2. arena' = arena /\ vault' = vault
        BY <1>2
      <4>3. {IdAt(t, r) : r \in Resting(t)}' = {IdAt(t, r) : r \in Resting(t) \cup {m}}
        BY <4>1, <4>2 DEF IdAt
      <4>4. IdAt(t, m) = taker
        BY <1>3, <2>7
      <4>5. QED
        BY <4>3, <4>4
    <3>7. QED
      BY <2>2, <2>7, <3>1, <3>3, <3>4, <3>5, <3>6 DEF BookAgrees
  <2>8. IndexAgrees'
    BY <1>5, <2>6, <2>7 DEF IndexAgrees
  <2>9. Found'
    BY <1>1, <1>2, <1>5, <2>2 DEF Found, TypeOK
  <2>10. QED
    BY <2>2, <2>5, <2>8, <2>9
<1>7. ASSUME heap' = heap /\ active' = active
      PROVE  /\ heap' \in [Tickers -> [Side -> SUBSET Slot]]
             /\ active' \in [Tickers -> SUBSET Ids]
             /\ SlotsOwned' /\ IndexAgrees' /\ Found'
  <2>1. SlotsOwned'
    BY <1>1, <1>2, <1>5, <1>7 DEF SlotsOwned, Resting
  <2>2. ASSUME NEW t \in Books PROVE BookAgrees(t)'
    BY <1>1, <1>2, <1>5, <1>7, BookSame DEF IndexAgrees
  <2>3. IndexAgrees' /\ Found'
    BY <1>1, <1>2, <1>5, <1>7, <2>2 DEF IndexAgrees, Found, TypeOK
  <2>4. QED
    BY <1>1, <1>7, <2>1, <2>3 DEF TypeOK
<1>8. /\ heap' \in [Tickers -> [Side -> SUBSET Slot]]
      /\ active' \in [Tickers -> SUBSET Ids]
      /\ SlotsOwned' /\ IndexAgrees' /\ Found'
  BY <1>4, <1>6, <1>7
<1>9. TypeOK'
  <2>1. lock' \in [Tickers -> {"free", "loop", "worker"}]
    BY <1>1, <1>2 DEF TypeOK
  <2>2. spent' \in 0 .. NoCap /\ trades' \in Seq(Trade)
    BY <1>2, WordIsNat
  <2>3. QED
    BY <1>1, <1>2, <1>8, <2>1, <2>2 DEF TypeOK
<1>10. InHand' /\ Priced'
  BY <1>1, <1>2 DEF InHand, Priced
<1>11. QED
  BY <1>8, <1>9, <1>10 DEF IInv

\* The same from a confused state.
LEMMA StaleDoneInv == ASSUME IInv, rewound, Done PROVE IInv'
<1>1. TypeOK /\ InHand /\ Found /\ Priced
  BY DEF IInv
<1>2. /\ call = "match" /\ call' = "none"
      /\ lock' = [lock EXCEPT ![at] = "free"] /\ spent' = 0 /\ trades' = <<>>
      /\ UNCHANGED <<arena, offset, slot, vault, canceled, doomed, at, taker, bbo, rewound>>
  BY DEF Done, arenaVars
<1>3. at \in Tickers /\ taker \in Ids /\ slot[taker] \in Slot /\ Taker.side \in Side
  BY <1>1, <1>2 DEF InHand, TypeOK
<1>4. /\ heap' \in [Tickers -> [Side -> SUBSET Slot]] /\ active' \in [Tickers -> SUBSET Ids]
      /\ \A t \in Tickers : active[t] \subseteq active'[t]
  <2>1. CASE /\ heap' = [heap EXCEPT ![at][Taker.side] = @ \cup {slot[taker]}]
             /\ active' = [active EXCEPT ![at] = @ \cup {taker}]
    <3>1. heap' \in [Tickers -> [Side -> SUBSET Slot]]
      BY <1>1, <1>3, <2>1 DEF TypeOK
    <3>2. /\ active' \in [Tickers -> SUBSET Ids]
          /\ \A t \in Tickers : active[t] \subseteq active'[t]
      BY <1>1, <1>3, <2>1 DEF TypeOK
    <3>3. QED
      BY <3>1, <3>2
  <2>2. CASE heap' = heap /\ active' = active
    BY <1>1, <2>2 DEF TypeOK
  <2>3. QED
    BY <2>1, <2>2 DEF Done, Rest
<1>5. /\ lock' \in [Tickers -> {"free", "loop", "worker"}]
      /\ \A t \in Tickers : lock'[t] = "worker" => lock[t] = "worker"
  BY <1>1, <1>2, <1>3 DEF TypeOK
<1>6. spent' \in 0 .. NoCap /\ trades' \in Seq(Trade)
  BY <1>2, WordIsNat
<1>7. TypeOK'
  BY <1>1, <1>2, <1>4, <1>5, <1>6 DEF TypeOK
<1>8. InHand' /\ Found' /\ Priced'
  BY <1>1, <1>2, <1>4, <1>5 DEF InHand, Found, Priced
<1>9. QED
  BY <1>2, <1>7, <1>8, StaleInv

\* What only reads the books leaves them as they are.
LEMMA BooksKept ==
    ASSUME IInv, UNCHANGED <<arenaVars, bookVars, rewound>>
    PROVE  SlotsOwned' /\ IndexAgrees' /\ Priced' /\ Books' = Books
<1>1. /\ SlotsOwned /\ IndexAgrees /\ Priced
      /\ UNCHANGED <<arena, offset, slot, heap, vault, active, canceled, rewound>>
  BY DEF IInv, arenaVars, bookVars
<1>2. Books' = Books /\ Books \subseteq Tickers
  BY <1>1 DEF Books
<1>3. SlotsOwned'
  BY <1>1, <1>2 DEF SlotsOwned, Resting
<1>4. ASSUME NEW t \in Books PROVE BookAgrees(t)'
  BY <1>1, <1>2, BookSame DEF IndexAgrees
<1>5. QED
  BY <1>1, <1>2, <1>3, <1>4 DEF IndexAgrees, Priced

\* A quote begins.
LEMMA ReadBBOInv == ASSUME IInv, NEW t \in Tickers, ReadBBO(t) PROVE IInv'
<1>1. SlotsOwned' /\ IndexAgrees' /\ Priced' /\ Books' = Books
  BY BooksKept DEF ReadBBO
<1>2. TypeOK'
  <2>1. bbo' \in [Side -> Nat]
    BY DEF ReadBBO, NoQuote, Side
  <2>2. QED
    BY <2>1 DEF IInv, TypeOK, ReadBBO, arenaVars, bookVars
<1>3. InHand' /\ Found'
  BY <1>1 DEF IInv, InHand, Found, ReadBBO, bookVars, Books
<1>4. QED
  BY <1>1, <1>2, <1>3 DEF IInv

\* A quote ends.
LEMMA BBODoneInv == ASSUME IInv, BBODone PROVE IInv'
<1>1. SlotsOwned' /\ IndexAgrees' /\ Priced' /\ Books' = Books
  BY BooksKept DEF BBODone
<1>2. ASSUME NEW side \in Side
      PROVE  Quotes(side) \subseteq Nat
  <2>2. LiveTop(at, side) \subseteq Slot
    BY DEF LiveTop, IInv, TypeOK
  <2>3. \A s \in Slot : arena[s].price \in Nat
    <3>1. \A s \in Slot : arena[s].price \in Prices \cup {0}
      BY DEF IInv, TypeOK, OrderRec
    <3>2. Prices \cup {0} \subseteq Nat
      BY DataAssumption, WordIsNat
    <3>3. QED
      BY <3>1, <3>2
  <2>4. QED
    BY <2>2, <2>3 DEF Quotes
<1>3. TypeOK'
  <2>1. bbo' \in [Side -> Nat]
    <3>1. PICK buy \in Quotes("buy"), sell \in Quotes("sell") :
             bbo' = [buy |-> buy, sell |-> sell]
      BY DEF BBODone
    <3>2. buy \in Nat /\ sell \in Nat
      BY <1>2 DEF Side
    <3>3. QED
      BY <3>1, <3>2 DEF Side
  <2>2. QED
    BY <2>1 DEF IInv, TypeOK, BBODone, arenaVars, bookVars
<1>4. InHand' /\ Found'
  BY <1>1 DEF IInv, InHand, Found, BBODone, bookVars
<1>5. QED
  BY <1>1, <1>3, <1>4 DEF IInv

\* A reset begins.
LEMMA ResetEnterInv == ASSUME IInv, ResetEnter PROVE IInv'
<1>1. SlotsOwned' /\ IndexAgrees' /\ Priced' /\ Books' = Books
  BY BooksKept DEF ResetEnter
<1>2. TypeOK'
  <2>1. bbo' \in [Side -> Nat]
    BY DEF ResetEnter, NoQuote, Side
  <2>2. QED
    BY <2>1, NamesAssumption DEF IInv, TypeOK, ResetEnter, arenaVars, bookVars
<1>3. InHand' /\ Found'
  BY <1>1 DEF IInv, InHand, Found, ResetEnter, bookVars
<1>4. QED
  BY <1>1, <1>2, <1>3 DEF IInv

\* The book that is reset is empty, and unless the books are confused from now on,
\* so are all the others: nothing owns or indexes a slot.
LEMMA ResetInv == ASSUME IInv, Reset, ~Racing PROVE IInv'
<1>1. TypeOK /\ SlotsOwned /\ IndexAgrees /\ Found /\ Priced
  BY DEF IInv
<1>2. /\ call = "reset" /\ call' = "none" /\ offset' = 0 /\ at \in Tickers /\ at' = at
      /\ heap' = [heap EXCEPT ![at] = [s \in Side |-> {}]]
      /\ vault' = [vault EXCEPT ![at] = <<>>]
      /\ active' = [active EXCEPT ![at] = {}]
      /\ canceled' = [canceled EXCEPT ![at] = {}]
      /\ rewound' = \E t \in Tickers \ {at} : Occupied(t)
      /\ UNCHANGED <<arena, slot, lock, doomed, taker, spent, trades, bbo>>
  BY <1>1 DEF Reset, resultVars, TypeOK
<1>3. TypeOK'
  <2>1. /\ heap' \in [Tickers -> [Side -> SUBSET Slot]]
        /\ vault' \in [Tickers -> Seq(Ids)]
        /\ active' \in [Tickers -> SUBSET Ids] /\ canceled' \in [Tickers -> SUBSET Ids]
        /\ offset' \in Nat
    BY <1>1, <1>2 DEF TypeOK
  <2>2. rewound' \in BOOLEAN
    BY <1>2, Zenon
  <2>3. QED
    BY <1>1, <1>2, <2>1, <2>2 DEF TypeOK
<1>4. ASSUME NEW t \in Tickers, t = at
      PROVE  /\ Resting(t)' = {} /\ heap'[t]["buy"] \cap heap'[t]["sell"] = {}
             /\ active'[t] = {} /\ canceled'[t] = {} /\ BookAgrees(t)'
  <2>1. /\ heap'[t] = [s \in Side |-> {}] /\ active'[t] = {} /\ canceled'[t] = {}
    BY <1>1, <1>2, <1>4 DEF TypeOK
  <2>2. Resting(t)' = {} /\ heap'[t]["buy"] \cap heap'[t]["sell"] = {}
    BY <2>1 DEF Resting, Side
  <2>3. BookAgrees(t)'
    BY <2>1, <2>2 DEF BookAgrees
  <2>4. QED
    BY <2>1, <2>2, <2>3
<1>5. ASSUME NEW t \in Books', t # at
      PROVE  /\ Resting(t)' = {} /\ heap'[t]["buy"] \cap heap'[t]["sell"] = {}
             /\ BookAgrees(t)'
  <2>1. t \in Tickers /\ ~Occupied(t)
    BY <1>2, <1>5 DEF Books
  <2>3. heap'[t] = heap[t] /\ active'[t] = active[t] /\ canceled'[t] = canceled[t]
    BY <1>1, <1>2, <1>5, <2>1 DEF TypeOK
  <2>4. /\ heap'[t]["buy"] = {} /\ heap'[t]["sell"] = {}
        /\ active'[t] = {} /\ canceled'[t] = {}
    BY <2>1, <2>3 DEF Occupied
  <2>5. Resting(t)' = {} /\ heap'[t]["buy"] \cap heap'[t]["sell"] = {}
    BY <2>4 DEF Resting
  <2>6. BookAgrees(t)'
    BY <2>4, <2>5 DEF BookAgrees, Side
  <2>7. QED
    BY <2>5, <2>6
<1>6. Books' \subseteq Tickers
  BY DEF Books
<1>7. SlotsOwned'
  BY <1>4, <1>5, <1>6 DEF SlotsOwned
<1>8. IndexAgrees'
  BY <1>4, <1>5, <1>6 DEF IndexAgrees
<1>9. InHand' /\ Priced'
  BY <1>1, <1>2 DEF InHand, Priced
<1>10. Found'
  <2>1. ASSUME NEW t \in Tickers, lock'[t] = "worker" PROVE doomed'[t] \in active'[t]
    <3>1. lock[t] = "worker" /\ t # at
      BY <1>2, <2>1 DEF Racing
    <3>2. active'[t] = active[t]
      BY <1>1, <1>2, <3>1 DEF TypeOK
    <3>3. QED
      BY <1>1, <1>2, <3>1, <3>2 DEF Found
  <2>2. QED
    BY <2>1 DEF Found
<1>11. QED
  BY <1>3, <1>7, <1>8, <1>9, <1>10 DEF IInv

\* A worker has found an order.
LEMMA CancelEnterInv ==
    ASSUME IInv, NEW t \in Tickers, NEW i \in Ids, CancelEnter(t, i) PROVE IInv'
<1>1. SlotsOwned' /\ IndexAgrees' /\ Priced' /\ Books' = Books
  BY BooksKept DEF CancelEnter
<1>2. /\ lock[t] = "free" /\ i \in active[t] /\ active' = active
      /\ lock' = [lock EXCEPT ![t] = "worker"] /\ doomed' = [doomed EXCEPT ![t] = i]
      /\ UNCHANGED <<arena, offset, slot, heap, vault, canceled, call, at>>
      /\ UNCHANGED <<taker, spent, trades, bbo, rewound>>
  BY DEF CancelEnter, arenaVars, bookVars, resultVars
<1>3. TypeOK /\ InHand /\ Found
  BY DEF IInv
<1>4. /\ lock' \in [Tickers -> {"free", "loop", "worker"}]
      /\ doomed' \in [Tickers -> Ids \cup {NoId}]
  BY <1>2, <1>3 DEF TypeOK
<1>5. TypeOK'
  BY <1>2, <1>3, <1>4 DEF TypeOK
<1>6. InHand'
  <2>1. call = "match" => at # t /\ at \in Tickers
    BY <1>2, <1>3 DEF InHand, TypeOK
  <2>2. call = "match" => lock'[at] = lock[at]
    BY <1>2, <1>3, <2>1 DEF TypeOK
  <2>3. Taker' = Taker /\ IdAt(at, slot[taker])' = IdAt(at, slot[taker])
    BY <1>2 DEF Taker, IdAt
  <2>4. \A u \in Tickers : Resting(u)' = Resting(u)
    BY <1>2 DEF Resting
  <2>5. Books \subseteq Tickers
    BY DEF Books
  <2>6. QED
    BY <1>1, <1>2, <1>3, <2>2, <2>3, <2>4, <2>5 DEF InHand
<1>7. Found'
  BY <1>2, <1>3 DEF Found, TypeOK
<1>8. QED
  BY <1>1, <1>5, <1>6, <1>7 DEF IInv

\* tombstone_delete marks the order that it has found: the entry of one heap and
\* the two indexes change together.
LEMMA CancelMarkInv ==
    ASSUME IInv, ~rewound, NEW t \in Tickers, CancelMark(t) PROVE IInv'
<1> DEFINE i == doomed[t]
<1>1. TypeOK /\ SlotsOwned /\ IndexAgrees /\ InHand /\ Found /\ Priced
  BY DEF IInv
<1>2. /\ t \in Tickers /\ lock[t] = "worker"
      /\ arena' = [arena EXCEPT ![slot[i]].canceled = TRUE]
      /\ canceled' = [canceled EXCEPT ![t] = @ \cup {i}]
      /\ active' = [active EXCEPT ![t] = @ \ {i}]
      /\ lock' = [lock EXCEPT ![t] = "free"]
      /\ doomed' = [doomed EXCEPT ![t] = NoId]
      /\ UNCHANGED <<offset, slot, heap, vault, call, at>>
      /\ UNCHANGED <<taker, spent, trades, bbo, rewound>>
  BY DEF CancelMark, Tombstone, resultVars
<1>3. Books' = Books /\ Books = Tickers
  BY <1>2 DEF Books
<1>4. \A u \in Tickers : Resting(u)' = Resting(u)
  BY <1>2 DEF Resting
<1>5. BookAgrees(t) /\ i \in active[t] /\ i \in Ids
  BY <1>1, <1>2, <1>3 DEF IndexAgrees, Found, TypeOK
<1>6. PICK r \in Resting(t) : i = IdAt(t, r)
  BY <1>5 DEF BookAgrees
<1>7. slot[i] = r /\ r \in Slot
  <2>1. \E side \in Side : EntryAgrees(t, side, r)
    BY <1>5 DEF BookAgrees, Resting, Side
  <2>2. QED
    BY <1>1, <1>6, <2>1 DEF EntryAgrees, TypeOK, Resting, Side
<1> HIDE DEF i
<1>8. /\ arena' \in [Slot -> OrderRec]
      /\ \A s \in Slot \ {r} : arena'[s] = arena[s]
      /\ arena'[r] = [arena[r] EXCEPT !.canceled = TRUE] /\ arena[r] \in OrderRec
  <2>1. arena \in [Slot -> OrderRec] /\ arena' = [arena EXCEPT ![r].canceled = TRUE]
    BY <1>1, <1>2, <1>7 DEF TypeOK
  <2>2. arena[r] \in OrderRec /\ [arena[r] EXCEPT !.canceled = TRUE] \in OrderRec
    BY <1>7, <2>1 DEF OrderRec
  <2>3. QED
    BY <1>7, <2>1, <2>2
<1>9. /\ arena'[r].canceled = TRUE /\ arena'[r].side = arena[r].side
      /\ arena'[r].type = arena[r].type /\ arena'[r].shares = arena[r].shares
      /\ arena'[r].meta = arena[r].meta /\ arena'[r].price = arena[r].price
  BY <1>8 DEF OrderRec
<1>10. /\ active'[t] = active[t] \ {i} /\ canceled'[t] = canceled[t] \cup {i}
       /\ \A u \in Tickers \ {t} : active'[u] = active[u] /\ canceled'[u] = canceled[u]
  BY <1>1, <1>2 DEF TypeOK
<1>11. TypeOK'
  <2>1. /\ lock' \in [Tickers -> {"free", "loop", "worker"}]
        /\ doomed' \in [Tickers -> Ids \cup {NoId}]
        /\ active' \in [Tickers -> SUBSET Ids] /\ canceled' \in [Tickers -> SUBSET Ids]
    BY <1>1, <1>2, <1>5 DEF TypeOK
  <2>2. QED
    BY <1>1, <1>2, <1>8, <2>1 DEF TypeOK
<1>12. SlotsOwned'
  BY <1>1, <1>2, <1>3, <1>4 DEF SlotsOwned
<1>13. \A u \in Tickers : \A s \in Resting(u) :
          /\ s \in Slot /\ IdAt(u, s)' = IdAt(u, s)
          /\ u # t /\ u \in Books => s # r
  <2>1. ASSUME NEW u \in Tickers, NEW s \in Resting(u)
        PROVE  s \in Slot /\ IdAt(u, s)' = IdAt(u, s)
    <3>1. s \in Slot
      BY <1>1 DEF TypeOK, Resting, Side
    <3>2. arena'[s].meta = arena[s].meta
      BY <1>8, <1>9, <3>1
    <3>3. QED
      BY <1>2, <3>1, <3>2 DEF IdAt
  <2>2. QED
    BY <1>1, <1>2, <1>3, <1>6, <2>1 DEF SlotsOwned
<1>14. ASSUME NEW u \in Books, u # t PROVE BookAgrees(u)'
  <2>1. u \in Tickers /\ BookAgrees(u)
    BY <1>1, <1>3 DEF IndexAgrees
  <2>2. ASSUME NEW s \in Resting(u)
        PROVE  /\ arena'[s] = arena[s] /\ arena[s].shares > 0
               /\ arena[s].meta \in DOMAIN vault[u] /\ slot[IdAt(u, s)] = s
    <3>1. \E side \in Side : EntryAgrees(u, side, s)
      BY <2>1 DEF BookAgrees, Resting, Side
    <3>2. QED
      BY <1>8, <1>13, <1>14, <2>1, <3>1 DEF EntryAgrees
  <2>3. QED
    BY <1>2, <1>10, <1>13, <1>14, <2>1, <2>2, BookKept
<1>15. BookAgrees(t)'
  <2>1. ASSUME NEW side \in Side, NEW s \in heap'[t][side]
        PROVE  EntryAgrees(t, side, s)'
    <3>1. s \in heap[t][side] /\ s \in Resting(t) /\ s \in Slot
      BY <1>2, <1>13 DEF Resting, Side
    <3>2. EntryAgrees(t, side, s) /\ IdAt(t, s)' = IdAt(t, s)
      BY <1>5, <1>13, <3>1 DEF BookAgrees
    <3>3. CASE s = r
      BY <1>2, <1>6, <1>7, <1>9, <1>10, <3>2, <3>3 DEF EntryAgrees
    <3>4. CASE s # r
      <4>1. IdAt(t, s) # i /\ arena'[s] = arena[s]
        BY <1>7, <1>8, <3>1, <3>2, <3>4 DEF EntryAgrees
      <4>2. QED
        BY <1>2, <1>10, <3>2, <4>1 DEF EntryAgrees
    <3>5. QED
      BY <3>3, <3>4
  <2>2. {IdAt(t, s) : s \in Resting(t)}' = {IdAt(t, s) : s \in Resting(t)}
    BY <1>4, <1>13
  <2>3. /\ active[t] \cap canceled[t] = {}
        /\ active[t] \cup canceled[t] = {IdAt(t, s) : s \in Resting(t)}
    BY <1>5 DEF BookAgrees
  <2>4. QED
    BY <1>5, <1>10, <2>1, <2>2, <2>3 DEF BookAgrees
<1>16. IndexAgrees'
  BY <1>3, <1>14, <1>15 DEF IndexAgrees
<1>17. InHand'
  <2>1. CASE call = "match"
    <3>1. at # t /\ at \in Tickers /\ lock'[at] = "loop" /\ slot[taker] \in Slot
      BY <1>1, <1>2, <2>1 DEF InHand, TypeOK
    <3>2. slot[taker] # r
      BY <1>1, <1>2, <1>3, <1>6, <2>1 DEF InHand
    <3>3. arena'[slot[taker]] = arena[slot[taker]]
      BY <1>8, <3>1, <3>2
    <3>4. Taker' = Taker /\ IdAt(at, slot[taker])' = IdAt(at, slot[taker])
      BY <1>2, <3>3 DEF Taker, IdAt
    <3>5. QED
      BY <1>1, <1>2, <1>3, <1>4, <2>1, <3>1, <3>4 DEF InHand
  <2>2. CASE call # "match"
    BY <1>1, <1>2, <1>3, <2>2 DEF InHand
  <2>3. QED
    BY <2>1, <2>2
<1>18. Found'
  <2>1. \A u \in Books : lock'[u] = "worker" => u # t /\ lock[u] = "worker"
    BY <1>1, <1>2, <1>3 DEF TypeOK
  <2>2. QED
    BY <1>1, <1>2, <1>3, <1>10, <2>1 DEF Found, TypeOK
<1>19. Priced'
  BY <1>1, <1>8, <1>9 DEF Priced
<1>20. QED
  BY <1>11, <1>12, <1>16, <1>17, <1>18, <1>19 DEF IInv

\* In a confused state the order is there, but its slot may be any.
LEMMA StaleCancelMarkInv ==
    ASSUME IInv, rewound, NEW t \in Tickers, CancelMark(t) PROVE IInv'
<1> DEFINE i == doomed[t]
<1>1. TypeOK /\ InHand /\ Found /\ Priced
  BY DEF IInv
<1>2. /\ lock[t] = "worker"
      /\ arena' = [arena EXCEPT ![slot[i]].canceled = TRUE]
      /\ canceled' = [canceled EXCEPT ![t] = @ \cup {i}]
      /\ active' = [active EXCEPT ![t] = @ \ {i}]
      /\ lock' = [lock EXCEPT ![t] = "free"]
      /\ doomed' = [doomed EXCEPT ![t] = NoId]
      /\ UNCHANGED <<offset, slot, heap, vault, call, at>>
      /\ UNCHANGED <<taker, spent, trades, bbo, rewound>>
  BY DEF CancelMark, Tombstone, resultVars
<1>3. i \in Ids
  BY <1>1, <1>2 DEF Found, TypeOK
<1>4. /\ arena' \in [Slot -> OrderRec]
      /\ \A s \in Slot :
            /\ arena'[s].side = arena[s].side /\ arena'[s].type = arena[s].type
            /\ arena'[s].price = arena[s].price
  <2>1. arena \in [Slot -> OrderRec]
    BY <1>1 DEF TypeOK
  <2>2. CASE slot[i] \in Slot
    <3>1. arena[slot[i]] \in OrderRec
      BY <2>1, <2>2
    <3>2. [arena[slot[i]] EXCEPT !.canceled = TRUE] \in OrderRec
      BY <3>1 DEF OrderRec
    <3>3. /\ arena'[slot[i]] = [arena[slot[i]] EXCEPT !.canceled = TRUE]
          /\ \A s \in Slot \ {slot[i]} : arena'[s] = arena[s]
      BY <1>2, <2>1, <2>2
    <3>4. arena' \in [Slot -> OrderRec]
      BY <1>2, <2>1, <2>2, <3>2
    <3>5. /\ arena'[slot[i]].side = arena[slot[i]].side
          /\ arena'[slot[i]].type = arena[slot[i]].type
          /\ arena'[slot[i]].price = arena[slot[i]].price
      BY <3>1, <3>3 DEF OrderRec
    <3>6. QED
      BY <3>3, <3>4, <3>5
  <2>3. CASE slot[i] \notin Slot
    <3>1. arena' = arena
      BY <1>2, <2>1, <2>3
    <3>2. QED
      BY <2>1, <3>1
  <2>4. QED
    BY <2>2, <2>3
<1> HIDE DEF i
<1>5. /\ lock' \in [Tickers -> {"free", "loop", "worker"}]
      /\ doomed' \in [Tickers -> Ids \cup {NoId}]
      /\ active' \in [Tickers -> SUBSET Ids] /\ canceled' \in [Tickers -> SUBSET Ids]
  BY <1>1, <1>2, <1>3 DEF TypeOK
<1>6. TypeOK'
  BY <1>1, <1>2, <1>4, <1>5 DEF TypeOK
<1>7. InHand'
  <2>1. CASE call = "match"
    <3>1. lock'[at] = "loop" /\ slot[taker] \in Slot /\ at \in Tickers
      BY <1>1, <1>2, <2>1 DEF InHand, TypeOK
    <3>2. Taker'.side = Taker.side
      BY <1>2, <1>4, <3>1 DEF Taker
    <3>3. QED
      BY <1>1, <1>2, <2>1, <3>1, <3>2 DEF InHand
  <2>2. CASE call # "match"
    BY <1>2, <2>2 DEF InHand
  <2>3. QED
    BY <2>1, <2>2
<1>8. Found'
  BY <1>1, <1>2 DEF Found, TypeOK
<1>9. Priced'
  BY <1>1, <1>4 DEF Priced
<1>10. QED
  BY <1>2, <1>6, <1>7, <1>8, <1>9, StaleInv

\* An order as a caller hands it over fits the struct.
LEMMA NewOrderType ==
    ASSUME NEW side \in Side, NEW type \in {"limit", "market"}, NEW price \in Prices \cup {0},
           type = "limit" => price \in Prices,
           NEW size \in Lots, NEW funds \in 0 .. NoCap
    PROVE  LET o == NewOrder(side, type, price, size, funds)
           IN /\ o \in OrderRec /\ o.side \in Side /\ o.canceled = FALSE
              /\ o.type = "limit" => o.price \in Prices
<1>1. size \in 0 .. NoCap
  BY DataAssumption, WordIsNat
<1>2. QED
  BY <1>1 DEF NewOrder, Blank, OrderRec

\* A call from the event loop's thread begins: a submission or a quote.
LEMMA LoopCallsInv == ASSUME IInv, NEW t \in Tickers, LoopCalls(t) PROVE IInv'
<1>1. ASSUME NEW i \in Ids, NEW side \in Side, NEW size \in Lots, NEW price \in Prices,
             Submit(t, i, NewOrder(side, "limit", price, size, NoCap))
      PROVE  IInv'
  <2>1. NoCap \in 0 .. NoCap
    BY WordIsNat
  <2> DEFINE o == NewOrder(side, "limit", price, size, NoCap)
  <2>2. /\ o \in OrderRec /\ o.side \in Side /\ o.canceled = FALSE
        /\ o.type = "limit" => o.price \in Prices
    BY <2>1, NewOrderType
  <2> HIDE DEF o
  <2>3. Submit(t, i, o)
    BY <1>1 DEF o
  <2>4. QED
    BY <2>2, <2>3, SubmitInv
<1>2. ASSUME NEW i \in Ids, NEW side \in Side, NEW size \in Lots,
             NEW funds \in IF side = "buy" THEN Funds ELSE {NoCap},
             Submit(t, i, NewOrder(side, "market", 0, size, funds))
      PROVE  IInv'
  <2>1. funds \in 0 .. NoCap
    BY DataAssumption, WordIsNat
  <2> DEFINE o == NewOrder(side, "market", 0, size, funds)
  <2>2. /\ o \in OrderRec /\ o.side \in Side /\ o.canceled = FALSE
        /\ o.type = "limit" => o.price \in Prices
    BY <2>1, NewOrderType
  <2> HIDE DEF o
  <2>3. Submit(t, i, o)
    BY <1>2 DEF o
  <2>4. QED
    BY <2>2, <2>3, SubmitInv
<1>3. CASE ReadBBO(t)
  BY <1>3, ReadBBOInv
<1>4. QED
  BY <1>1, <1>2, <1>3 DEF LoopCalls

\* The invariant says nothing that a step which changes no variable could undo.
LEMMA StutterInv == ASSUME IInv, UNCHANGED vars PROVE IInv'
<1>1. SlotsOwned' /\ IndexAgrees' /\ Priced' /\ Books' = Books
  BY BooksKept DEF vars
<1>2. TypeOK'
  BY DEF IInv, TypeOK, vars, arenaVars, bookVars, threadVars, resultVars
<1>3. InHand' /\ Found'
  <2>1. /\ UNCHANGED <<arena, offset, slot, heap, vault, active, lock, doomed, call, at, taker>>
        /\ rewound' = rewound
        /\ InHand /\ Found
    BY DEF IInv, vars, arenaVars, bookVars, threadVars, resultVars
  <2>2. Taker' = Taker /\ IdAt(at, slot[taker])' = IdAt(at, slot[taker])
    BY <2>1 DEF Taker, IdAt
  <2>3. \A u \in Tickers : Resting(u)' = Resting(u)
    BY <2>1 DEF Resting
  <2>4. Books \subseteq Tickers
    BY DEF Books
  <2>5. Found'
    BY <2>1 DEF Found
  <2>6. InHand'
    <3>1. CASE rewound
      BY <2>1, <2>2, <3>1 DEF InHand
    <3>2. CASE ~rewound
      BY <1>1, <2>1, <2>2, <2>3, <2>4, <3>2 DEF InHand
    <3>3. QED
      BY <3>1, <3>2
  <2>7. QED
    BY <2>5, <2>6
<1>4. QED
  BY <1>1, <1>2, <1>3 DEF IInv

\* Every step preserves the invariant.
LEMMA NextInv == IInv /\ [Next]_vars => IInv'
<1> SUFFICES ASSUME IInv, [Next]_vars PROVE IInv'
  OBVIOUS
<1>1. ASSUME NEW t \in Tickers, LoopCalls(t) PROVE IInv'
  BY <1>1, LoopCallsInv
<1>2. ASSUME NEW t \in Tickers, CancelMark(t) PROVE IInv'
  BY <1>2, CancelMarkInv, StaleCancelMarkInv
<1>3. ASSUME NEW t \in Tickers, NEW i \in Ids, CancelEnter(t, i) PROVE IInv'
  BY <1>3, CancelEnterInv
<1>4. CASE ResetEnter
  BY <1>4, ResetEnterInv
<1>5. ASSUME NEW s \in Slot, Skip(s) PROVE IInv'
  BY <1>5, SkipInv
<1>6. ASSUME NEW s \in Slot, Match(s) PROVE IInv'
  BY <1>6, MatchInv, StaleMatchInv
<1>7. ASSUME NEW s \in Slot, NEW side \in Side, BBOSkip(side, s) PROVE IInv'
  BY <1>7, BBOSkipInv
<1>8. CASE Done
  BY <1>8, DoneInv, StaleDoneInv
<1>9. CASE BBODone
  BY <1>9, BBODoneInv
<1>10. CASE Reset /\ ~Racing
  BY <1>10, ResetInv
<1>11. CASE UNCHANGED vars
  BY <1>11, StutterInv
<1>12. QED
  BY <1>1, <1>2, <1>3, <1>4, <1>5, <1>6, <1>7, <1>8, <1>9, <1>10, <1>11
     DEF Next, LoopSteps

(***************************************************************************)
(* The theorems.                                                           *)
(***************************************************************************)
\* The invariant holds of every state the engine can reach without a data race.
THEOREM Inductive == Spec => []IInv
<1>1. QED
  BY InitInv, NextInv, PTL DEF Spec

\* The variables hold what the engine's fields can hold; in particular no heap
\* names a slot, and no list an id, that there is not.
THEOREM TypeCorrect == Spec => []TypeOK
<1>1. IInv => TypeOK
  BY DEF IInv
<1>2. QED
  BY <1>1, Inductive, PTL

\* One arena serves all the books, and while no reset has given away slots of
\* books other than its own, each resting order keeps its slot to itself: no
\* allocation for any ticker writes over it.  That the condition is needed is what
\* the run that resets while another book has orders shows.
THEOREM SlotsKept == Spec => []SlotsOwned
<1>1. IInv => SlotsOwned
  BY DEF IInv
<1>2. QED
  BY <1>1, Inductive, PTL

\* While no reset has given away slots of books other than its own, the heaps, the
\* metadata and the indexes agree after every step of every thread:
\* tombstone_delete finds exactly the orders that can still be filled, and marks
\* no other.
THEOREM IndexCorrect == Spec => []IndexAgrees
<1>1. IInv => IndexAgrees
  BY DEF IInv
<1>2. QED
  BY <1>1, Inductive, PTL

\* A canceled order is a tombstone in a heap of its book.
LEMMA Buried ==
    ASSUME IInv, NEW t \in Books, NEW i \in canceled[t]
    PROVE  slot[i] \in Resting(t) /\ slot[i] \in Slot /\ arena[slot[i]].canceled
<1>1. BookAgrees(t) /\ t \in Tickers
  BY DEF IInv, IndexAgrees, Books
<1>2. PICK s \in Resting(t) : i = IdAt(t, s)
  BY <1>1 DEF BookAgrees
<1>3. \E side \in Side : EntryAgrees(t, side, s)
  BY <1>1 DEF BookAgrees, Resting, Side
<1>4. i \notin active[t]
  BY <1>1 DEF BookAgrees
<1>5. s \in Slot
  BY <1>1 DEF IInv, TypeOK, Resting, Side
<1>6. QED
  BY <1>2, <1>3, <1>4, <1>5 DEF EntryAgrees

\* A step takes no share from a canceled order.
LEMMA CanceledKept ==
    ASSUME IInv, Next, NEW t \in Books, NEW i \in canceled[t]
    PROVE  arena'[slot[i]].shares = arena[slot[i]].shares
<1> DEFINE r == slot[i]
<1>1. r \in Resting(t) /\ r \in Slot /\ arena[r].canceled
  BY Buried
<1>2. TypeOK /\ SlotsOwned /\ InHand /\ ~rewound
  BY DEF IInv, Books
<1>3. ASSUME NEW u \in Tickers, NEW j \in Ids, NEW o, Submit(u, j, o)
      PROVE  arena'[r] = arena[r]
  <2>1. r < offset /\ offset \in Nat /\ r \in Nat
    BY <1>1, <1>2, SlotIsNat DEF SlotsOwned, TypeOK
  <2>2. r # offset
    BY <2>1
  <2>3. QED
    BY <1>1, <1>2, <1>3, <2>2 DEF Submit, TypeOK
<1>4. ASSUME NEW s \in Slot, Match(s)
      PROVE  arena'[r].shares = arena[r].shares
  <2>1. call = "match" /\ ~arena[s].canceled
    BY <1>4 DEF Match, LiveTop
  <2>2. r # s /\ r # slot[taker] /\ slot[taker] \in Slot
    BY <1>1, <1>2, <2>1 DEF InHand
  <2>3. Quantity(s) \in 0 .. NoCap /\ arena \in [Slot -> OrderRec]
    <3>1. Acceptable(s) /\ NoId \in Ids \cup {NoId}
      BY <1>4 DEF Match, Blocked
    <3>2. QED
      BY <1>2, <2>1, <3>1, TradeType DEF TypeOK
  <2>4. arena' = Less(Less(arena, slot[taker], Quantity(s)), s, Quantity(s))
    BY <1>4 DEF Match
  <2>5. arena'[r] = arena[r]
    BY <1>1, <2>2, <2>3, <2>4, SharesOnly
  <2>6. QED
    BY <2>5
<1>5. ASSUME NEW u \in Tickers, CancelMark(u)
      PROVE  arena'[r].shares = arena[r].shares
  <2>1. arena' = [arena EXCEPT ![slot[doomed[u]]].canceled = TRUE]
    BY <1>5 DEF CancelMark, Tombstone
  <2>2. arena[r] \in OrderRec /\ arena \in [Slot -> OrderRec]
    BY <1>1, <1>2 DEF TypeOK
  <2>3. QED
    BY <1>1, <2>1, <2>2 DEF OrderRec
<1> HIDE DEF r
<1>6. ASSUME NEW u \in Tickers, LoopCalls(u) PROVE arena'[r].shares = arena[r].shares
  <2>1. CASE ReadBBO(u)
    BY <2>1 DEF ReadBBO, arenaVars
  <2>2. CASE \E j \in Ids, side \in Side, size \in Lots, price \in Prices :
                Submit(u, j, NewOrder(side, "limit", price, size, NoCap))
    BY <1>3, <2>2
  <2>3. CASE \E j \in Ids, side \in Side, size \in Lots :
                \E funds \in IF side = "buy" THEN Funds ELSE {NoCap} :
                   Submit(u, j, NewOrder(side, "market", 0, size, funds))
    BY <1>3, <2>3
  <2>4. QED
    BY <1>6, <2>1, <2>2, <2>3 DEF LoopCalls
<1>7. ASSUME NEW u \in Tickers, NEW j \in Ids, CancelEnter(u, j) PROVE arena' = arena
  BY <1>7 DEF CancelEnter, arenaVars
<1>8. ASSUME NEW s \in Slot, Skip(s) PROVE arena' = arena
  BY <1>8 DEF Skip, arenaVars
<1>9. ASSUME NEW s \in Slot, NEW side \in Side, BBOSkip(side, s) PROVE arena' = arena
  BY <1>9 DEF BBOSkip, arenaVars
<1>10. ASSUME ResetEnter \/ Done \/ BBODone \/ Reset PROVE arena' = arena
  BY <1>10 DEF ResetEnter, Done, BBODone, Reset, arenaVars
<1>11. ASSUME LoopSteps PROVE arena'[r].shares = arena[r].shares
  BY <1>4, <1>8, <1>9, <1>10, <1>11 DEF LoopSteps
<1>12. ASSUME ~LoopSteps PROVE arena'[r].shares = arena[r].shares
  BY <1>5, <1>6, <1>7, <1>10, <1>12 DEF Next
<1>13. QED
  BY <1>11, <1>12 DEF r

\* Once tombstone_delete has answered, no submission to any ticker takes another
\* share of the canceled order, until a reset gives away slots of books other than
\* its own.
THEOREM CanceledSafe == Spec => CanceledNeverTrades
<1> DEFINE Keeps == \A t \in Books : \A i \in canceled[t] :
                       arena'[slot[i]].shares = arena[slot[i]].shares
<1>1. IInv /\ [Next]_vars => [Keeps]_vars
  BY CanceledKept
<1> HIDE DEF Keeps
<1>2. Spec => [][Keeps]_vars
  BY <1>1, Inductive, PTL DEF Spec
<1>3. QED
  BY <1>2 DEF CanceledNeverTrades, Keeps

=================================================================================
