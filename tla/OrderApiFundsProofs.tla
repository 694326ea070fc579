--------------------------- MODULE OrderApiFundsProofs --------------------------
(***************************************************************************)
(* What the order API promises about money and shares, for any users,      *)
(* orders, quotes and faults: the locked fields are exactly the holds,     *)
(* orders stay funded, and trading creates nothing to spend.               *)
(***************************************************************************)
EXTENDS OrderApiProofs, SumProofs

(***************************************************************************)
(* The invariant: where the trades are.                                    *)
(***************************************************************************)
Parties(t) == {t.buy, t.sell}
Sent == {e[1] : e \in stream}
\* All trades that the engine reported and that were not lost with a request.
Reported == (UNION {outbox[p] : p \in Orders}) \cup Sent
\* The stages before the engine has the order.
Before == {"watch", "available", "locked", "price", "exec", "submit", "refused"}

Finite == IsFiniteSet(stream) /\ \A o \in Orders : IsFiniteSet(outbox[o])
Sided == \A t \in Reported : t.buy.side = "buy" /\ t.sell.side = "sell"
\* An order the engine does not have yet has no shares in the book and no trades.
Fresh ==
    \A o \in Orders :
       pc[o] \in Before => left[o] = 0 /\ \A t \in Reported : o \notin Parties(t)
\* A trade that is not in the stream yet is in one outbox.
Boxed ==
    \A o \in Orders : \A t \in outbox[o] :
       /\ pc[o] = "publish" /\ o \in Parties(t) /\ t \notin Sent
       /\ \A p \in Orders \ {o} : t \notin outbox[p]
Trading == Finite /\ Sided /\ Fresh /\ Boxed

(***************************************************************************)
(* Every step but a submission takes trades and shares away at most.       *)
(***************************************************************************)
Shrinks ==
    /\ \A o \in Orders : /\ outbox'[o] \in {{}, outbox[o]}
                         /\ outbox'[o] # {} => pc'[o] = pc[o]
                         /\ left'[o] \in {0, left[o]}
                         /\ pc'[o] \in Before => pc[o] \in Before
                         /\ pc[o] = "failed" => pc'[o] = "failed"
    /\ Sent' \subseteq Sent \cup UNION {outbox[p] : p \in {q \in Orders : outbox'[q] = {}}}
    /\ IsFiniteSet(stream')

\* Such a step keeps what is known of the trades.
LEMMA ShrinkTrading ==
    ASSUME IInv, Trading, Shrinks
    PROVE  Trading' /\ Reported' \subseteq Reported
<1>1. Reported' \subseteq Reported
  BY DEF Reported, Shrinks
<1>2. Finite'
  BY FS_EmptySet DEF Trading, Finite, Shrinks
<1>3. Sided' /\ Fresh'
  BY <1>1 DEF Trading, Sided, Fresh, Shrinks
<1>4. Boxed'
  <2> SUFFICES ASSUME NEW o \in Orders, NEW t \in outbox'[o]
               PROVE  /\ pc'[o] = "publish" /\ o \in Parties(t) /\ t \notin Sent'
                      /\ \A p \in Orders \ {o} : t \notin outbox'[p]
    BY DEF Boxed, Parties
  <2>1. outbox'[o] = outbox[o] /\ pc'[o] = pc[o] /\ outbox'[o] # {}
    BY DEF Shrinks
  <2>2. /\ pc[o] = "publish" /\ o \in Parties(t) /\ t \notin Sent
        /\ \A p \in Orders \ {o} : t \notin outbox[p]
    BY <2>1 DEF Trading, Boxed
  <2>3. t \notin UNION {outbox[p] : p \in {q \in Orders : outbox'[q] = {}}}
    BY <2>1, <2>2
  <2>4. QED
    BY <2>1, <2>2, <2>3 DEF Shrinks
<1>5. QED
  BY <1>1, <1>2, <1>3, <1>4 DEF Trading

\* A step of a request that has no trades on their way.
LEMMA QuietShrinks ==
    ASSUME IInv, Trading, NEW o \in Orders, pc[o] # "publish", pc[o] # "failed",
           NEW next, Goto(o, next), next \in Before => pc[o] \in Before,
           UNCHANGED <<outbox, stream>>, \A p \in Orders : left'[p] \in {0, left[p]}
    PROVE  Shrinks
<1>1. outbox[o] = {}
  BY DEF Trading, Boxed
<1>2. pc'[o] = next /\ \A p \in Orders \ {o} : pc'[p] = pc[p]
  BY DEF Goto, IInv, TypeOK
<1>3. Sent' = Sent /\ IsFiniteSet(stream')
  BY DEF Sent, Trading, Finite
<1>4. QED
  BY <1>1, <1>2, <1>3 DEF Shrinks

\* A step of no request.
LEMMA StillShrinks ==
    ASSUME Trading, UNCHANGED <<pc, outbox, stream>>, \A p \in Orders : left'[p] \in {0, left[p]}
    PROVE  Shrinks
<1>1. Sent' = Sent /\ IsFiniteSet(stream')
  BY DEF Sent, Trading, Finite
<1>2. QED
  BY <1>1 DEF Shrinks

\* Sending the trades of a request, or dropping them.
LEMMA SendShrinks ==
    ASSUME IInv, Trading, NEW o \in Orders, pc[o] \in {"submit", "publish"},
           NEW next \in {"done", "rollback"}, Goto(o, next),
           outbox' = [outbox EXCEPT ![o] = {}], left' = left,
           \/ stream' = stream
           \/ \E sendings \in SUBSET {1, 2} : stream' = stream \cup (outbox[o] \X sendings)
    PROVE  Shrinks
<1>1. pc'[o] = next /\ \A p \in Orders \ {o} : pc'[p] = pc[p]
  BY DEF Goto, IInv, TypeOK
<1>2. outbox'[o] = {} /\ \A p \in Orders \ {o} : outbox'[p] = outbox[p]
  BY DEF IInv, TypeOK
<1>3. Sent' \subseteq Sent \cup outbox[o]
  BY DEF Sent
<1>4. IsFiniteSet(stream')
  <2>1. IsFiniteSet(stream) /\ IsFiniteSet(outbox[o])
    BY DEF Trading, Finite
  <2>2. ASSUME NEW sendings \in SUBSET {1, 2}, stream' = stream \cup (outbox[o] \X sendings)
        PROVE  IsFiniteSet(stream')
    <3>1. IsFiniteSet({1}) /\ IsFiniteSet({1} \cup {2})
      BY FS_Singleton, FS_AddElement
    <3>2. IsFiniteSet(sendings)
      <4>1. PICK T : T = {1} \cup {2}
        OBVIOUS
      <4>2. IsFiniteSet(T) /\ sendings \in SUBSET T
        BY <3>1, <4>1
      <4>3. QED
        BY <4>2, FS_Subset
    <3>3. IsFiniteSet(outbox[o] \X sendings)
      BY <2>1, <3>2, FS_Product
    <3>4. QED
      BY <2>1, <2>2, <3>3, FS_Union
  <2>3. QED
    BY <2>1, <2>2
<1>5. next # "failed" /\ next \notin Before
  BY DEF Before
<1>6. QED
  BY <1>1, <1>2, <1>3, <1>4, <1>5 DEF Shrinks

\* All steps but submissions.
LEMMA StepShrinks ==
    ASSUME IInv, Trading, [Next]_vars, \A o \in Orders : ~Submit(o)
    PROVE  Shrinks
<1>1. ASSUME NEW o \in Orders, HaveFunds(o) PROVE Shrinks
  <2>1. /\ pc[o] # "publish" /\ pc[o] # "failed" /\ UNCHANGED <<outbox, stream, left>>
        /\ \E next : Goto(o, next) /\ (next \in Before => pc[o] \in Before)
    <3>1. CASE Watch(o) \/ ReadAvailable(o) \/ ReadLocked(o) \/ ReadPrice(o)
      BY <3>1 DEF Watch, ReadAvailable, ReadLocked, ReadPrice, Before, bookVars, tradeVars
    <3>2. CASE Execute(o) \/ Conflict(o) \/ LoseReply(o)
      BY <3>2 DEF Execute, Conflict, LoseReply, WatchError, Before, bookVars, tradeVars
    <3>3. CASE Rollback(o) \/ RollbackTwice(o) \/ RollbackFails(o)
      BY <3>3 DEF Rollback, RollbackTwice, RollbackFails, GiveBack, Before, bookVars, tradeVars
    <3>4. QED
      BY <1>1, <3>1, <3>2, <3>3 DEF HaveFunds
  <2>2. QED
    BY <2>1, QuietShrinks
<1>2. ASSUME NEW o \in Orders, Publish(o) \/ RouteFails(o) PROVE Shrinks
  <2>1. /\ pc[o] \in {"submit", "publish"} /\ left' = left
        /\ outbox' = [outbox EXCEPT ![o] = {}]
        /\ \E next \in {"done", "rollback"} : Goto(o, next)
        /\ \/ stream' = stream
           \/ \E sendings \in SUBSET {1, 2} : stream' = stream \cup (outbox[o] \X sendings)
    BY <1>2 DEF Publish, RouteFails, Send
  <2>2. QED
    BY <2>1, SendShrinks
<1>3. ASSUME NEW o \in Orders, DeleteOrder(o) PROVE Shrinks
  BY <1>3, StillShrinks DEF DeleteOrder, tradeVars, IInv, TypeOK
<1>4. ASSUME NEW o \in Orders, NEW u \in Users, CheckOwnership(o, u) PROVE Shrinks
  BY <1>4, StillShrinks DEF CheckOwnership, tradeVars, IInv, TypeOK
<1>5. ASSUME NEW entry \in stream, Settle(entry) PROVE Shrinks
  BY <1>5, StillShrinks DEF Settle, bookVars
<1>6. CASE Reset
  BY <1>6, StillShrinks DEF Reset, tradeVars
<1>7. CASE Crash
  <2>1. /\ \A p \in Orders : pc'[p] = "failed" \/ pc'[p] = pc[p]
        /\ \A p \in Orders : left'[p] = 0 /\ outbox'[p] = {}
        /\ stream' = stream
    BY <1>7 DEF Crash, tradeVars
  <2>2. Sent' = Sent /\ IsFiniteSet(stream')
    BY <2>1 DEF Sent, Trading, Finite
  <2>3. QED
    BY <2>1, <2>2 DEF Shrinks, Before
<1>8. CASE UNCHANGED vars
  BY <1>8, StillShrinks DEF vars, bookVars, tradeVars
<1>9. QED
  BY <1>1, <1>2, <1>3, <1>4, <1>5, <1>6, <1>7, <1>8 DEF Next, PlaceOrder

(***************************************************************************)
(* A submission adds trades between its order and orders in the book.      *)
(***************************************************************************)
\* The orders a submission fills, and the fill.
Filling(fill) == {m \in DOMAIN fill : fill[m] > 0}

\* What a trade of the submission of o says.
LEMMA TradeFields ==
    ASSUME NEW o \in Orders, NEW m \in Orders, m.side # o.side, NEW q
    PROVE  LET t == TradeOf(o, m, q)
           IN /\ Parties(t) = {o, m} /\ o # m
              /\ t.buy = (IF o.side = "buy" THEN o ELSE m)
              /\ t.sell = (IF o.side = "buy" THEN m ELSE o)
              /\ t.buy.side = "buy" /\ t.sell.side = "sell" /\ t.quantity = q
              /\ t.paid = m.price * q
              /\ t.unlocked = IF o.type = "market" THEN 0 ELSE t.buy.price * q
<1>1. o.side \in {"buy", "sell"} /\ m.side \in {"buy", "sell"}
  BY OrdersAssumption
<1>2. QED
  BY <1>1 DEF TradeOf, Parties

\* The orders that are filled are finitely many, and so are their trades, one each.
LEMMA TradesOfFill ==
    ASSUME IInv, NEW o \in Orders, NEW fill \in Fills(o)
    PROVE  /\ DOMAIN fill = Makers(o) /\ Makers(o) \subseteq Orders /\ o \notin Makers(o)
           /\ \A m \in Makers(o) : /\ fill[m] \in Nat /\ fill[m] =< left[m] /\ left[m] \in Nat
                                   /\ m.side # o.side /\ Acceptable(o, m) /\ left[m] > 0
           /\ IsFiniteSet(Makers(o)) /\ IsFiniteSet(Filling(fill)) /\ Filling(fill) \subseteq Makers(o)
           /\ Trades(o, fill) = {TradeOf(o, m, fill[m]) : m \in Filling(fill)}
           /\ IsFiniteSet(Trades(o, fill))
           /\ Filled(fill) \in Nat /\ Filled(fill) =< o.quantity
<1>1. /\ fill \in [Makers(o) -> 0 .. o.quantity]
      /\ \A m \in Makers(o) : fill[m] =< left[m]
      /\ Filled(fill) \in 0 .. o.quantity
  BY DEF Fills
<1>2. o.quantity \in Nat
  BY OrdersAssumption
<1>3. /\ DOMAIN fill = Makers(o) /\ Makers(o) \subseteq Orders /\ o \notin Makers(o)
      /\ \A m \in Makers(o) : /\ fill[m] \in Nat /\ fill[m] =< left[m] /\ left[m] \in Nat
                              /\ m.side # o.side /\ Acceptable(o, m) /\ left[m] > 0
  BY <1>1, <1>2 DEF Makers, IInv, TypeOK
<1>4. Filling(fill) \subseteq Makers(o)
  BY <1>3 DEF Filling
<1>5. IsFiniteSet(Makers(o)) /\ IsFiniteSet(Filling(fill))
  BY <1>3, <1>4, FiniteAssumption, FS_Subset
<1>6. Trades(o, fill) = {TradeOf(o, m, fill[m]) : m \in Filling(fill)}
  BY DEF Trades, Filling
<1>7. IsFiniteSet(Trades(o, fill))
  <2>1. PICK S, h : S = Filling(fill) /\ h = [m \in S |-> TradeOf(o, m, fill[m])]
    OBVIOUS
  <2>2. \A m \in S : Parties(h[m]) = {o, m} /\ m # o
    BY <1>3, <1>4, <2>1, TradeFields
  <2>3. \A x, y \in S : h[x] = h[y] => x = y
    BY <2>2
  <2>4. Trades(o, fill) = {h[m] : m \in S}
    BY <1>6, <2>1
  <2> DEFINE none == [m \in S |-> 0]
             zero == [t \in {h[m] : m \in S} |-> 0]
  <2>5. \A x \in S : none[x] \in Int /\ zero[h[x]] = none[x]
    OBVIOUS
  <2> HIDE DEF none, zero
  <2>6. /\ IsFiniteSet({h[x] : x \in S})
        /\ SumFunctionOnSet(zero, {h[x] : x \in S}) = SumFunctionOnSet(none, S)
    <3>1. IsFiniteSet(S)
      BY <1>5, <2>1
    <3>2. QED
      BY <2>3, <2>5, <3>1, SumImage
  <2>7. QED
    BY <2>4, <2>6
<1>8. QED
  BY <1>1, <1>2, <1>3, <1>4, <1>5, <1>6, <1>7

\* A submission: its fill, and where that leaves the book and the trades.
LEMMA SubmitEffect ==
    ASSUME IInv, Trading, NEW o \in Orders, Submit(o)
    PROVE  \E fill \in Fills(o) :
              /\ \A p \in Orders :
                    left'[p] = CASE p \in Makers(o) -> left[p] - fill[p]
                                 [] p = o /\ o.type = "limit" -> o.quantity - Filled(fill)
                                 [] OTHER -> left[p]
              /\ outbox'[o] = Trades(o, fill) /\ \A p \in Orders \ {o} : outbox'[p] = outbox[p]
              /\ Reported' = Reported \cup Trades(o, fill)
              /\ Reported \cap Trades(o, fill) = {}
              /\ pc[o] = "submit" /\ pc'[o] \in {"done", "publish"}
              /\ Trades(o, fill) # {} => pc'[o] = "publish"
              /\ \A p \in Orders \ {o} : pc'[p] = pc[p]
              /\ UNCHANGED <<cache, held, unsure, stream, settled, repeated, deleting>>
<1>1. PICK fill \in Fills(o) :
         /\ left' = [p \in Orders |->
                       CASE p \in Makers(o) -> left[p] - fill[p]
                         [] p = o /\ o.type = "limit" -> o.quantity - Filled(fill)
                         [] OTHER -> left[p]]
         /\ outbox' = [outbox EXCEPT ![o] = Trades(o, fill)]
         /\ pc' = [pc EXCEPT ![o] = IF Trades(o, fill) = {} THEN "done" ELSE "publish"]
  BY DEF Submit, Goto
<1>2. pc[o] = "submit" /\ UNCHANGED <<cache, held, unsure, stream, settled, repeated, deleting>>
  BY DEF Submit, holdVars, tradeVars, cancelVars
<1>3. outbox'[o] = Trades(o, fill) /\ \A p \in Orders \ {o} : outbox'[p] = outbox[p]
  BY <1>1 DEF IInv, TypeOK
<1>4. outbox[o] = {}
  BY <1>2 DEF Trading, Boxed
<1>5. Sent' = Sent
  BY <1>2 DEF Sent
<1>6. Reported' = Reported \cup Trades(o, fill)
  BY <1>3, <1>4, <1>5 DEF Reported
<1>7. \A t \in Trades(o, fill) : o \in Parties(t)
  BY TradesOfFill, TradeFields
<1>8. \A t \in Reported : o \notin Parties(t)
  BY <1>2 DEF Trading, Fresh, Before
<1>9. /\ pc'[o] \in {"done", "publish"} /\ (Trades(o, fill) # {} => pc'[o] = "publish")
      /\ \A p \in Orders \ {o} : pc'[p] = pc[p]
  BY <1>1 DEF IInv, TypeOK
<1>10. \A p \in Orders :
          left'[p] = CASE p \in Makers(o) -> left[p] - fill[p]
                       [] p = o /\ o.type = "limit" -> o.quantity - Filled(fill)
                       [] OTHER -> left[p]
  BY <1>1
<1>11. QED
  BY <1>2, <1>3, <1>6, <1>7, <1>8, <1>9, <1>10

\* It keeps what is known of the trades.
LEMMA SubmitTrading ==
    ASSUME IInv, Trading, NEW o \in Orders, Submit(o)
    PROVE  Trading'
<1>1. PICK fill \in Fills(o) :
         /\ \A p \in Orders :
               left'[p] = CASE p \in Makers(o) -> left[p] - fill[p]
                            [] p = o /\ o.type = "limit" -> o.quantity - Filled(fill)
                            [] OTHER -> left[p]
         /\ outbox'[o] = Trades(o, fill) /\ \A p \in Orders \ {o} : outbox'[p] = outbox[p]
         /\ Reported' = Reported \cup Trades(o, fill)
         /\ Reported \cap Trades(o, fill) = {}
         /\ pc[o] = "submit" /\ pc'[o] \in {"done", "publish"}
         /\ Trades(o, fill) # {} => pc'[o] = "publish"
         /\ \A p \in Orders \ {o} : pc'[p] = pc[p]
         /\ stream' = stream
  BY SubmitEffect
<1>2. \A m \in Filling(fill) : m \in Makers(o) /\ m \in Orders /\ m.side # o.side /\ left[m] > 0
  BY TradesOfFill
<1>3. \A t \in Trades(o, fill) : \E m \in Filling(fill) :
         Parties(t) = {o, m} /\ t.buy.side = "buy" /\ t.sell.side = "sell"
  BY <1>2, TradesOfFill, TradeFields
<1>4. Finite'
  BY <1>1, TradesOfFill DEF Trading, Finite
<1>5. Sided'
  BY <1>1, <1>3 DEF Trading, Sided
<1>6. Fresh'
  <2> SUFFICES ASSUME NEW p \in Orders, pc'[p] \in Before
               PROVE  left'[p] = 0 /\ \A t \in Reported' : p \notin Parties(t)
    BY DEF Fresh, Parties
  <2>1. p # o
    BY <1>1 DEF Before
  <2>2. left[p] = 0 /\ \A t \in Reported : p \notin Parties(t)
    BY <1>1, <2>1 DEF Trading, Fresh
  <2>3. p \notin Makers(o)
    BY <2>2, TradesOfFill
  <2>4. \A t \in Trades(o, fill) : p \notin Parties(t)
    BY <1>2, <1>3, <2>1, <2>3
  <2>5. QED
    BY <1>1, <2>1, <2>2, <2>3, <2>4
<1>7. Boxed'
  <2> SUFFICES ASSUME NEW p \in Orders, NEW t \in outbox'[p]
               PROVE  /\ pc'[p] = "publish" /\ p \in Parties(t) /\ t \notin Sent'
                      /\ \A r \in Orders \ {p} : t \notin outbox'[r]
    BY DEF Boxed, Parties
  <2>1. Sent' = Sent /\ Sent \subseteq Reported /\ \A r \in Orders : outbox[r] \subseteq Reported
    BY <1>1 DEF Sent, Reported
  <2>2. CASE p = o
    BY <1>1, <1>3, <2>1, <2>2
  <2>3. CASE p # o
    <3>1. t \in outbox[p] /\ t \in Reported /\ t \notin Trades(o, fill)
      BY <1>1, <2>1, <2>3
    <3>2. /\ pc[p] = "publish" /\ p \in Parties(t) /\ t \notin Sent
          /\ \A r \in Orders \ {p} : t \notin outbox[r]
      BY <3>1 DEF Trading, Boxed
    <3>3. QED
      BY <1>1, <2>1, <2>3, <3>1, <3>2
  <2>4. QED
    BY <2>2, <2>3
<1>8. QED
  BY <1>4, <1>5, <1>6, <1>7 DEF Trading

\* Every step keeps it.
LEMMA NextTrading == IInv /\ Trading /\ [Next]_vars => Trading'
BY SubmitTrading, StepShrinks, ShrinkTrading

\* At the start there are no trades.
LEMMA InitTrading == Init => Trading
<1> SUFFICES ASSUME Init PROVE Trading
  OBVIOUS
<1>1. /\ stream = {} /\ \A o \in Orders : outbox[o] = {} /\ left[o] = 0
  BY DEF Init
<1>2. Reported = {}
  BY <1>1 DEF Reported, Sent
<1>3. QED
  BY <1>1, <1>2, FS_EmptySet DEF Trading, Finite, Sided, Fresh, Boxed

(***************************************************************************)
(* Which orders have a hold.                                               *)
(***************************************************************************)
\* A request that have_funds has not let through holds nothing, one that waits for
\* the engine holds what its order needs.
Holding ==
    /\ \A o \in Orders : pc[o] \in Before \ {"submit"} => held[o] = 0
    /\ \A o \in Orders : pc[o] = "submit" =>
          /\ o.side = "sell" => held[o] = o.quantity
          /\ o.side = "buy" /\ o.type = "limit" => held[o] = o.price * o.quantity
    /\ \A o \in Orders : left[o] > 0 => o.type = "limit"
    /\ \A o \in deleting : pc[o] = "done" /\ left[o] = 0
    /\ \A o \in repeated : pc[o] = "failed"

\* How the request of an order may move when nothing is held or given back.
Moves(o) ==
    \/ pc'[o] = pc[o]
    \/ /\ pc[o] \notin {"done", "failed"} /\ pc'[o] # "submit"
       /\ pc'[o] \in Before => pc[o] \in Before \ {"submit"}

\* Then everyone's holds are what they were.
LEMMA MovesHolding ==
    ASSUME IInv, Holding, UNCHANGED <<held, repeated>>,
           \A p \in Orders : Moves(p) /\ left'[p] \in {0, left[p]},
           \A p \in deleting' : p \in Orders /\ pc[p] = "done" /\ left'[p] = 0
    PROVE  Holding'
<1>1. ASSUME NEW p \in Orders, pc'[p] \in Before \ {"submit"} PROVE held'[p] = 0
  BY <1>1 DEF Holding, Moves
<1>2. ASSUME NEW p \in Orders, pc'[p] = "submit" PROVE pc[p] = "submit"
  BY <1>2 DEF Moves
<1>3. \A p \in Orders : left'[p] > 0 => p.type = "limit"
  BY DEF Holding
<1>4. \A p \in Orders : pc[p] \in {"done", "failed"} => pc'[p] = pc[p]
  BY DEF Moves
<1>5. \A p \in repeated' : pc'[p] = "failed"
  BY <1>4 DEF Holding, IInv, TypeOK
<1>6. \A p \in deleting' : pc'[p] = "done" /\ left'[p] = 0
  BY <1>4
<1>7. QED
  BY <1>1, <1>2, <1>3, <1>5, <1>6 DEF Holding

\* A request moves, and nothing else is of interest here.
LEMMA OneMoves ==
    ASSUME IInv, Holding, NEW o \in Orders, NEW next, Goto(o, next),
           pc[o] \notin {"done", "failed"}, next # "submit",
           next \in Before => pc[o] \in Before \ {"submit"},
           UNCHANGED <<held, repeated, left, deleting>>
    PROVE  Holding'
<1>1. pc'[o] = next /\ \A p \in Orders \ {o} : pc'[p] = pc[p]
  BY DEF Goto, IInv, TypeOK
<1>2. \A p \in deleting' : p \in Orders /\ pc[p] = "done" /\ left'[p] = 0
  BY DEF Holding, IInv, TypeOK
<1>3. QED
  BY <1>1, <1>2, MovesHolding DEF Moves

\* No request moves.
LEMMA StillHolding ==
    ASSUME IInv, Holding, held' = held, repeated' = repeated, pc' = pc,
           \A p \in Orders : left'[p] \in {0, left[p]},
           \A p \in deleting' : p \in Orders /\ (p \in deleting \/ (pc[p] = "done" /\ left'[p] = 0))
    PROVE  Holding'
<1>1. \A p \in deleting' : p \in Orders /\ pc[p] = "done" /\ left'[p] = 0
  BY DEF Holding
<1>2. QED
  BY <1>1, MovesHolding DEF Moves

\* EXEC holds what the order needs.
LEMMA ExecuteHolding ==
    ASSUME IInv, Holding, NEW o \in Orders, Execute(o)
    PROVE  Holding'
<1>1. /\ pc[o] = "exec" /\ pc'[o] = "submit" /\ \A p \in Orders \ {o} : pc'[p] = pc[p]
      /\ held'[o] = Total(o, seen[o].price) /\ \A p \in Orders \ {o} : held'[p] = held[p]
      /\ UNCHANGED <<left, deleting, repeated>>
  BY DEF Execute, Goto, bookVars, tradeVars, cancelVars, IInv, TypeOK
<1>2. /\ o.side = "sell" => held'[o] = o.quantity
      /\ o.side = "buy" /\ o.type = "limit" => held'[o] = o.price * o.quantity
  BY <1>1 DEF Total
<1>3. QED
  BY <1>1, <1>2 DEF Holding, IInv, TypeOK

\* A rollback leaves no hold.
LEMMA GiveBackHolding ==
    ASSUME IInv, Holding, NEW o \in Orders, NEW n, pc[o] = "rollback", GiveBack(o, n),
           repeated' = repeated \/ repeated' = repeated \cup {o}
    PROVE  Holding'
<1>1. /\ pc'[o] = "failed" /\ \A p \in Orders \ {o} : pc'[p] = pc[p]
      /\ held'[o] = 0 /\ \A p \in Orders \ {o} : held'[p] = held[p]
      /\ UNCHANGED <<left, deleting>>
  BY DEF GiveBack, Goto, bookVars, cancelVars, IInv, TypeOK
<1>2. \A p \in deleting : p # o /\ p \in Orders
  BY DEF Holding, IInv, TypeOK
<1>3. QED
  BY <1>1, <1>2 DEF Holding, IInv, TypeOK

\* Only limit orders rest in the book.
LEMMA SubmitHolding ==
    ASSUME IInv, Trading, Holding, NEW o \in Orders, Submit(o)
    PROVE  Holding'
<1>1. PICK fill \in Fills(o) :
         /\ \A p \in Orders :
               left'[p] = CASE p \in Makers(o) -> left[p] - fill[p]
                            [] p = o /\ o.type = "limit" -> o.quantity - Filled(fill)
                            [] OTHER -> left[p]
         /\ pc[o] = "submit" /\ pc'[o] \in {"done", "publish"}
         /\ \A p \in Orders \ {o} : pc'[p] = pc[p]
         /\ UNCHANGED <<held, repeated, deleting>>
  BY SubmitEffect
<1>2. o \notin Makers(o) /\ \A m \in Makers(o) : left[m] > 0
  BY TradesOfFill
<1>3. ASSUME NEW p \in Orders, p # o, p \notin Makers(o) PROVE left'[p] = left[p]
  BY <1>1, <1>3
<1>4. ASSUME NEW p \in Orders, left'[p] > 0 PROVE p.type = "limit"
  <2>1. CASE p = o
    <3>1. left'[o] = IF o.type = "limit" THEN o.quantity - Filled(fill) ELSE left[o]
      BY <1>1, <1>2
    <3>2. QED
      BY <1>4, <2>1, <3>1 DEF Holding
  <2>2. CASE p # o
    BY <1>2, <1>3, <1>4, <2>2 DEF Holding
  <2>3. QED
    BY <2>1, <2>2
<1>5. ASSUME NEW p \in deleting PROVE pc'[p] = "done" /\ left'[p] = 0
  <2>1. p \in Orders /\ pc[p] = "done" /\ left[p] = 0
    BY DEF Holding, IInv, TypeOK
  <2>2. p # o /\ p \notin Makers(o)
    BY <1>1, <1>2, <2>1
  <2>3. QED
    BY <1>1, <1>3, <2>1, <2>2
<1>6. \A p \in repeated : p # o /\ p \in Orders
  BY <1>1 DEF Holding, IInv, TypeOK
<1>7. QED
  BY <1>1, <1>4, <1>5, <1>6 DEF Holding, Before

\* Every step keeps it.
LEMMA NextHolding == IInv /\ Trading /\ Holding /\ [Next]_vars => Holding'
<1> SUFFICES ASSUME IInv, Trading, Holding, [Next]_vars PROVE Holding'
  OBVIOUS
<1>1. ASSUME NEW o \in Orders, HaveFunds(o) PROVE Holding'
  <2>1. CASE Watch(o) \/ ReadAvailable(o) \/ ReadLocked(o) \/ ReadPrice(o)
    <3>1. /\ pc[o] \in {"watch", "available", "locked", "price"}
          /\ UNCHANGED <<held, repeated, left, deleting>>
          /\ \E next \in {"available", "locked", "price", "exec", "refused"} : Goto(o, next)
      BY <2>1 DEF Watch, ReadAvailable, ReadLocked, ReadPrice, bookVars, tradeVars, cancelVars
    <3>2. QED
      BY <3>1, OneMoves DEF Before
  <2>2. CASE Conflict(o) \/ LoseReply(o)
    <3>1. /\ pc[o] = "exec" /\ UNCHANGED <<held, repeated, left, deleting>>
          /\ \E next \in {"watch", "refused"} : Goto(o, next)
      BY <2>2 DEF Conflict, LoseReply, WatchError, bookVars, tradeVars, cancelVars
    <3>2. QED
      BY <3>1, OneMoves DEF Before
  <2>3. CASE RollbackFails(o)
    <3>1. /\ pc[o] = "rollback" /\ Goto(o, "failed")
          /\ UNCHANGED <<held, repeated, left, deleting>>
      BY <2>3 DEF RollbackFails, bookVars, tradeVars, cancelVars
    <3>2. QED
      BY <3>1, OneMoves DEF Before
  <2>4. QED
    BY <1>1, <2>1, <2>2, <2>3, ExecuteHolding, GiveBackHolding
       DEF HaveFunds, Rollback, RollbackTwice
<1>2. ASSUME NEW o \in Orders, Publish(o) \/ RouteFails(o) PROVE Holding'
  <2>1. /\ pc[o] \in {"submit", "publish"} /\ UNCHANGED <<held, repeated, left, deleting>>
        /\ \E next \in {"done", "rollback"} : Goto(o, next)
    BY <1>2 DEF Publish, RouteFails, cancelVars
  <2>2. QED
    BY <2>1, OneMoves DEF Before
<1>3. deleting \subseteq Orders /\ DOMAIN left = Orders
  BY DEF IInv, TypeOK
<1>4. ASSUME NEW o \in Orders, DeleteOrder(o) PROVE Holding'
  <2>1. /\ UNCHANGED <<held, repeated, pc>> /\ left' = [left EXCEPT ![o] = 0]
        /\ deleting' = deleting \ {o}
    BY <1>4 DEF DeleteOrder, tradeVars
  <2>2. QED
    BY <1>3, <2>1, StillHolding
<1>5. ASSUME NEW o \in Orders, NEW u \in Users, CheckOwnership(o, u) PROVE Holding'
  <2>1. /\ UNCHANGED <<held, repeated, pc>> /\ left' = [left EXCEPT ![o] = 0]
        /\ deleting' = deleting \/ deleting' = deleting \cup {o}
        /\ pc[o] = "done"
    BY <1>5 DEF CheckOwnership, tradeVars
  <2>2. \A p \in deleting' : p \in Orders /\ (p \in deleting \/ (pc[p] = "done" /\ left'[p] = 0))
    BY <1>3, <2>1
  <2>3. \A p \in Orders : left'[p] \in {0, left[p]}
    BY <1>3, <2>1
  <2>4. QED
    BY <2>1, <2>2, <2>3, StillHolding
<1>6. ASSUME NEW entry \in stream, Settle(entry) PROVE Holding'
  <2>1. UNCHANGED <<held, repeated, pc, left, deleting>>
    BY <1>6 DEF Settle, bookVars, cancelVars
  <2>2. QED
    BY <1>3, <2>1, StillHolding
<1>7. CASE Reset
  <2>1. UNCHANGED <<held, repeated, pc, deleting>> /\ \A p \in Orders : left'[p] = 0
    BY <1>7 DEF Reset, tradeVars, cancelVars
  <2>2. QED
    BY <1>3, <2>1, StillHolding
<1>8. CASE Crash
  <2>1. /\ UNCHANGED <<held, repeated>> /\ deleting' = {} /\ \A p \in Orders : left'[p] = 0
    BY <1>8 DEF Crash, tradeVars
  <2>2. \A p \in Orders :
           pc'[p] = IF \/ pc[p] \in {"done", "failed", "refused"}
                       \/ pc[p] = "watch" /\ tries[p] = Retries
                    THEN pc[p] ELSE "failed"
    BY <1>8 DEF Crash
  <2>3. \A p \in Orders : Moves(p)
    BY <2>2 DEF Moves, Before
  <2>4. QED
    BY <2>1, <2>3, MovesHolding
<1>9. CASE UNCHANGED vars
  <2>1. UNCHANGED <<held, repeated, pc, left, deleting>>
    BY <1>9 DEF vars, bookVars, tradeVars, cancelVars
  <2>2. QED
    BY <1>3, <2>1, StillHolding
<1>10. QED
  BY <1>1, <1>2, <1>4, <1>5, <1>6, <1>7, <1>8, <1>9, SubmitHolding DEF Next, PlaceOrder

(***************************************************************************)
(* The locked fields are the holds.                                        *)
(***************************************************************************)
HoldsOn(a) == SumFunction([o \in OrdersOn(a) |-> held[o] - ReleasedAll(o, settled)])

\* What a trade releases is a natural number.
LEMMA ReleasedNat ==
    ASSUME NEW o, NEW t \in Trade
    PROVE  Released(o, t) \in Nat
BY DEF Released, Trade

\* So is what all entries do that settle_cache has seen.
LEMMA ReleasedAllNat ==
    ASSUME IInv, Trading, NEW o
    PROVE  ReleasedAll(o, settled) \in Nat
<1>1. PICK S, f : S = settled /\ f = [e \in S |-> Released(o, e[1])]
  OBVIOUS
<1>2. IsFiniteSet(S)
  BY <1>1, FS_Subset DEF Trading, Finite, IInv, TypeOK
<1>3. \A e \in S : f[e] \in Nat
  BY <1>1, ReleasedNat DEF IInv, TypeOK
<1>4. SumFunctionOnSet(f, S) \in Nat
  BY <1>2, <1>3, SumNat
<1>5. QED
  BY <1>1, <1>4 DEF ReleasedAll, SumFunction

\* The orders on an account are finitely many.
LEMMA OrdersOnFinite ==
    ASSUME NEW a
    PROVE  IsFiniteSet(OrdersOn(a)) /\ OrdersOn(a) \subseteq Orders
<1>1. OrdersOn(a) \in SUBSET Orders
  BY DEF OrdersOn
<1>2. QED
  BY <1>1, FiniteAssumption, FS_Subset

\* What one order holds in excess of what was released.
Held(o) == held[o] - ReleasedAll(o, settled)
LEMMA HeldInt ==
    ASSUME IInv, Trading, NEW o \in Orders
    PROVE  Held(o) \in Int
BY ReleasedAllNat DEF Held, IInv, TypeOK

\* The sum of holds, as a sum over a rigid set.
LEMMA HoldsSum ==
    ASSUME NEW a
    PROVE  HoldsOn(a) = SumFunctionOnSet([o \in OrdersOn(a) |-> Held(o)], OrdersOn(a))
BY DEF HoldsOn, SumFunction, Held

\* A hold is placed or given back: the sum of its account changes by as much.
LEMMA HoldChanges ==
    ASSUME IInv, Trading, settled' = settled, NEW o \in Orders, NEW n \in Int,
           held' = [held EXCEPT ![o] = n], NEW a
    PROVE  /\ HoldsOn(a) \in Int
           /\ a = Account(o) => HoldsOn(a)' = HoldsOn(a) - held[o] + n
           /\ a # Account(o) => HoldsOn(a)' = HoldsOn(a)
<1>1. PICK S, f, g : /\ S = OrdersOn(a) /\ f = [p \in S |-> Held(p)]
                     /\ g = [p \in S |-> Held(p)']
  OBVIOUS
<1>2. HoldsOn(a) = SumFunctionOnSet(f, S)
  BY <1>1, HoldsSum
<1>3. HoldsOn(a)' = SumFunctionOnSet(g, S)
  BY <1>1 DEF HoldsOn, SumFunction, Held, OrdersOn
<1>4. IsFiniteSet(S) /\ S \subseteq Orders
  BY <1>1, OrdersOnFinite
<1>5. held'[o] = n /\ \A p \in Orders \ {o} : held'[p] = held[p]
  BY DEF IInv, TypeOK
<1>6. \A p : ReleasedAll(p, settled)' = ReleasedAll(p, settled)
  BY DEF ReleasedAll, Released
<1>7. /\ \A p \in Orders \ {o} : Held(p)' = Held(p)
      /\ Held(o) \in Int /\ Held(o)' = Held(o) - held[o] + n
      /\ held[o] \in Int
  <2>1. \A p \in Orders \ {o} : Held(p)' = Held(p)
    BY <1>5, <1>6 DEF Held
  <2>2. held[o] \in Int /\ ReleasedAll(o, settled) \in Int
    BY ReleasedAllNat DEF IInv, TypeOK
  <2>3. Held(o) = held[o] - ReleasedAll(o, settled)
        /\ Held(o)' = n - ReleasedAll(o, settled)
    BY <1>5, <1>6 DEF Held
  <2>4. QED
    BY <2>1, <2>2, <2>3
<1>8. \A p \in S : f[p] \in Int /\ g[p] \in Int
  <2>1. \A p \in Orders : Held(p) \in Int
    BY HeldInt
  <2>2. \A p \in Orders : Held(p)' \in Int
    BY <1>7, <2>1
  <2>3. QED
    BY <1>1, <1>4, <2>1, <2>2
<1>9. SumFunctionOnSet(f, S) \in Int
  BY <1>4, <1>8, SumInt
<1>10. ASSUME a = Account(o)
       PROVE  HoldsOn(a)' = HoldsOn(a) - held[o] + n
  <2>1. o \in S
    BY <1>1, <1>10 DEF OrdersOn
  <2>2. \A p \in S \ {o} : f[p] = g[p]
    BY <1>1, <1>4, <1>7
  <2>3. SumFunctionOnSet(g, S) = SumFunctionOnSet(f, S) - f[o] + g[o]
    <3>1. IsFiniteSet(S) /\ (\A p \in S : f[p] \in Int) /\ (\A p \in S : g[p] \in Int)
      BY <1>4, <1>8
    <3>2. QED
      BY <2>1, <2>2, <3>1, SumChange
  <2>4. g[o] - f[o] = n - held[o] /\ f[o] \in Int /\ g[o] \in Int
    BY <1>1, <1>7, <2>1
  <2>5. QED
    BY <1>2, <1>3, <1>7, <1>9, <2>3, <2>4
<1>11. ASSUME a # Account(o)
       PROVE  HoldsOn(a)' = HoldsOn(a)
  <2>1. o \notin S
    BY <1>1, <1>11 DEF OrdersOn
  <2>2. \A p \in S : f[p] = g[p]
    BY <1>1, <1>4, <1>7, <2>1
  <2>3. SumFunctionOnSet(f, S) = SumFunctionOnSet(g, S)
    BY <1>4, <2>2, SumSame
  <2>4. QED
    BY <1>2, <1>3, <2>3
<1>12. QED
  BY <1>2, <1>9, <1>10, <1>11

\* At the start there are no holds.
LEMMA InitHolding == Init => Holding
BY DEF Init, Holding, Before

\* A hold of n on an account, or one less for a negative n.
Moved(a, n) ==
    cache' = [cache EXCEPT ![a] = Balance(cache[a].available - n, cache[a].locked + n)]

\* What a step may do to the hashes and the holds.
Moving ==
    /\ settled' = settled
    /\ \E o \in Orders, n \in Int :
         /\ Moved(Account(o), n)
         /\ \/ held' = [held EXCEPT ![o] = held[o] + n]
            \/ held' = held /\ n \in Nat /\ o \in unsure'
            \/ held' = [held EXCEPT ![o] = 0] /\ o \in repeated'
LEMMA StepCases ==
    ASSUME IInv, Holding, [Next]_vars
    PROVE  /\ unsure \subseteq unsure' /\ repeated \subseteq repeated'
           /\ \/ UNCHANGED <<cache, held, settled>>
              \/ \E entry \in stream : Settle(entry)
              \/ Moving
<1>1. ASSUME NEW o \in Orders, Execute(o)
      PROVE  /\ unsure \subseteq unsure' /\ repeated \subseteq repeated' /\ Moving
  <2>1. /\ pc[o] = "exec" /\ Unbroken(o) /\ Place(o) /\ settled' = settled
        /\ held' = [held EXCEPT ![o] = Total(o, seen[o].price)]
        /\ unsure' = unsure /\ repeated' = repeated
    BY <1>1 DEF Execute, tradeVars
  <2>2. PICK n \in Nat : n = Total(o, seen[o].price) /\ Moved(Account(o), n)
    BY <2>1, Placed DEF Moved
  <2>3. held[o] = 0
    BY <2>1 DEF Holding, Before
  <2>4. held[o] + n = n
    BY <2>2, <2>3
  <2>5. held' = [held EXCEPT ![o] = held[o] + n]
    BY <2>1, <2>2, <2>4, Zenon
  <2>6. n \in Int
    OBVIOUS
  <2>7. QED
    BY <2>1, <2>2, <2>5, <2>6 DEF Moving
<1>2. ASSUME NEW o \in Orders, LoseReply(o)
      PROVE  /\ unsure \subseteq unsure' /\ repeated \subseteq repeated'
             /\ UNCHANGED <<cache, held, settled>> \/ Moving
  <2>1. /\ unsure' = unsure \cup {o} /\ repeated' = repeated /\ UNCHANGED <<held, settled>>
        /\ cache' = cache \/ (pc[o] = "exec" /\ Unbroken(o) /\ Place(o))
    BY <1>2 DEF LoseReply, tradeVars
  <2>2. ASSUME pc[o] = "exec", Unbroken(o), Place(o) PROVE Moving
    <3>1. PICK n \in Nat : Moved(Account(o), n)
      BY <2>2, Placed DEF Moved
    <3>2. QED
      BY <2>1, <3>1 DEF Moving
  <2>3. QED
    BY <2>1, <2>2
<1>3. ASSUME NEW o \in Orders, Rollback(o)
      PROVE  /\ unsure \subseteq unsure' /\ repeated \subseteq repeated' /\ Moving
  <2>1. /\ cache' = [cache EXCEPT ![Account(o)] =
                       Balance(cache[Account(o)].available + held[o],
                               cache[Account(o)].locked - held[o])]
        /\ held' = [held EXCEPT ![o] = 0]
        /\ UNCHANGED <<unsure, repeated, settled>>
    BY <1>3 DEF Rollback, GiveBack
  <2>2. /\ held[o] \in Int /\ -held[o] \in Int /\ held[o] + (-held[o]) = 0
        /\ cache[Account(o)].available \in Int /\ cache[Account(o)].locked \in Int
    BY AccountOfOrder DEF IInv, TypeOK
  <2>3. PICK n \in Int : n = -held[o]
    BY <2>2
  <2>4. /\ cache[Account(o)].available + held[o] = cache[Account(o)].available - n
        /\ cache[Account(o)].locked - held[o] = cache[Account(o)].locked + n
        /\ held[o] + n = 0
    BY <2>2, <2>3
  <2>5. Moved(Account(o), n) /\ held' = [held EXCEPT ![o] = held[o] + n]
    BY <2>1, <2>4, Zenon DEF Moved
  <2>6. QED
    BY <2>1, <2>5 DEF Moving
<1>4. ASSUME NEW o \in Orders, RollbackTwice(o)
      PROVE  /\ unsure \subseteq unsure' /\ repeated \subseteq repeated' /\ Moving
  <2>1. /\ cache' = [cache EXCEPT ![Account(o)] =
                       Balance(cache[Account(o)].available + (held[o] + held[o]),
                               cache[Account(o)].locked - (held[o] + held[o]))]
        /\ held' = [held EXCEPT ![o] = 0] /\ repeated' = repeated \cup {o}
        /\ UNCHANGED <<unsure, settled>>
    BY <1>4 DEF RollbackTwice, GiveBack
  <2>2. /\ held[o] \in Int
        /\ cache[Account(o)].available \in Int /\ cache[Account(o)].locked \in Int
    BY AccountOfOrder DEF IInv, TypeOK
  <2>3. PICK n \in Int : n = -(held[o] + held[o])
    BY <2>2
  <2>4. /\ cache[Account(o)].available + (held[o] + held[o]) = cache[Account(o)].available - n
        /\ cache[Account(o)].locked - (held[o] + held[o]) = cache[Account(o)].locked + n
    BY <2>2, <2>3
  <2>5. Moved(Account(o), n)
    BY <2>1, <2>4, Zenon DEF Moved
  <2>6. QED
    BY <2>1, <2>5 DEF Moving
<1>5. ASSUME NEW o \in Orders, DeleteOrder(o)
      PROVE  UNCHANGED <<unsure, repeated, cache, held, settled>>
  <2>1. left[o] = 0
    BY <1>5 DEF DeleteOrder, Holding
  <2>2. QED
    BY <1>5, <2>1 DEF DeleteOrder, tradeVars
<1>6. ASSUME NEW o \in Orders,
             \/ Watch(o) \/ ReadAvailable(o) \/ ReadLocked(o) \/ ReadPrice(o)
             \/ Conflict(o) \/ RollbackFails(o)
      PROVE  UNCHANGED <<unsure, repeated, cache, held, settled>>
  BY <1>6 DEF Watch, ReadAvailable, ReadLocked, ReadPrice, Conflict, RollbackFails,
              holdVars, tradeVars
<1>7. ASSUME NEW o \in Orders, PlaceOrder(o)
      PROVE  UNCHANGED <<unsure, repeated, cache, held, settled>>
  BY <1>7 DEF PlaceOrder, Submit, Publish, RouteFails, holdVars, tradeVars
<1>8. ASSUME (\E o \in Orders, u \in Users : CheckOwnership(o, u)) \/ Reset \/ Crash
      PROVE  UNCHANGED <<unsure, repeated, cache, held, settled>>
  BY <1>8 DEF CheckOwnership, Reset, Crash, holdVars, tradeVars
<1>9. ASSUME NEW entry \in stream, Settle(entry)
      PROVE  UNCHANGED <<unsure, repeated>>
  BY <1>9 DEF Settle
<1>10. CASE UNCHANGED vars
  BY <1>10 DEF vars, holdVars, tradeVars
<1>11. QED
  BY <1>1, <1>2, <1>3, <1>4, <1>5, <1>6, <1>7, <1>8, <1>9, <1>10 DEF Next, HaveFunds

\* A hold is a change of one hash.
LEMMA MovedCache ==
    ASSUME IInv, NEW o \in Orders, NEW n \in Int, Moved(Account(o), n), NEW a \in Accounts
    PROVE  /\ cache[a].locked \in Int /\ cache[a].available \in Int
           /\ a = Account(o) => /\ cache'[a].locked = cache[a].locked + n
                                /\ cache'[a].available = cache[a].available - n
           /\ a # Account(o) => cache'[a] = cache[a]
<1>1. cache[a].locked \in Int /\ cache[a].available \in Int /\ a \in DOMAIN cache
  BY DEF IInv, TypeOK
<1>2. a = Account(o) => cache'[a] = Balance(cache[a].available - n, cache[a].locked + n)
  BY <1>1 DEF Moved
<1>3. a # Account(o) => cache'[a] = cache[a]
  BY <1>1 DEF Moved
<1>4. QED
  BY <1>1, <1>2, <1>3 DEF Balance

\* What a hold does to the locked fields, it does to the holds.
LEMMA MovingExact ==
    ASSUME IInv, Trading, HoldsExact, Moving,
           unsure \subseteq unsure', repeated \subseteq repeated'
    PROVE  HoldsExact'
<1>1. PICK o \in Orders, n \in Int :
         /\ Moved(Account(o), n)
         /\ \/ held' = [held EXCEPT ![o] = held[o] + n]
            \/ held' = held /\ n \in Nat /\ o \in unsure'
            \/ held' = [held EXCEPT ![o] = 0] /\ o \in repeated'
  BY DEF Moving
<1>2. settled' = settled
  BY DEF Moving
<1> SUFFICES ASSUME NEW a \in Accounts, OrdersOn(a) \cap repeated' = {}
             PROVE  /\ cache'[a].locked >= HoldsOn(a)'
                    /\ OrdersOn(a) \cap unsure' = {} => cache'[a].locked = HoldsOn(a)'
  BY DEF HoldsExact, HoldsOn, OrdersOn
<1>3. /\ cache[a].locked >= HoldsOn(a)
      /\ OrdersOn(a) \cap unsure' = {} => cache[a].locked = HoldsOn(a)
  BY DEF HoldsExact, HoldsOn
<1>4. cache[a].locked \in Int /\ held[o] \in Int
  BY DEF IInv, TypeOK
<1>5. HoldsOn(a) \in Int
  <2>1. PICK S, f : S = OrdersOn(a) /\ f = [p \in S |-> Held(p)]
    OBVIOUS
  <2>2. IsFiniteSet(S) /\ \A p \in S : f[p] \in Int
    BY <2>1, OrdersOnFinite, HeldInt
  <2>3. QED
    BY <2>1, <2>2, HoldsSum, SumInt
<1>6. a = Account(o) => cache'[a].locked = cache[a].locked + n
  BY <1>1, MovedCache
<1>7. a # Account(o) => cache'[a].locked = cache[a].locked
  BY <1>1, MovedCache
<1>8. CASE held' = [held EXCEPT ![o] = held[o] + n]
  <2>1. PICK m \in Int : m = held[o] + n
    BY <1>4
  <2>2. /\ a = Account(o) => HoldsOn(a)' = HoldsOn(a) - held[o] + m
        /\ a # Account(o) => HoldsOn(a)' = HoldsOn(a)
    <3>1. held' = [held EXCEPT ![o] = m]
      BY <1>8, <2>1, Zenon
    <3>2. QED
      BY <1>2, <3>1, HoldChanges
  <2>3. QED
    BY <1>3, <1>4, <1>5, <1>6, <1>7, <2>1, <2>2
<1>9. CASE held' = held /\ n \in Nat /\ o \in unsure'
  <2>1. HoldsOn(a)' = HoldsOn(a)
    BY <1>2, <1>9 DEF HoldsOn, ReleasedAll, Released, OrdersOn
  <2>2. a = Account(o) => o \in OrdersOn(a) \cap unsure'
    BY <1>9 DEF OrdersOn
  <2>3. QED
    BY <1>3, <1>4, <1>5, <1>6, <1>7, <1>9, <2>1, <2>2
<1>10. CASE held' = [held EXCEPT ![o] = 0] /\ o \in repeated'
  <2>1. a # Account(o)
    BY <1>10 DEF OrdersOn
  <2>2. HoldsOn(a)' = HoldsOn(a)
    <3>1. PICK m \in Int : m = 0
      OBVIOUS
    <3>2. held' = [held EXCEPT ![o] = m]
      BY <1>10, <3>1, Zenon
    <3>3. QED
      BY <1>2, <2>1, <3>2, HoldChanges
  <2>3. QED
    BY <1>3, <1>7, <2>1, <2>2
<1>11. QED
  BY <1>1, <1>8, <1>9, <1>10

\* What the settlement of a trade releases on an account.
Freed(a, t) == (IF a = <<t.buy.user, "cash">> THEN t.unlocked ELSE 0)
                 + (IF a = <<t.sell.user, "shares">> THEN t.quantity ELSE 0)
LEMMA FreedOfOrders ==
    ASSUME NEW a, NEW t \in Trade, t.buy.side = "buy", t.sell.side = "sell"
    PROVE  SumFunctionOnSet([o \in OrdersOn(a) |-> Released(o, t)], OrdersOn(a)) = Freed(a, t)
<1>1. PICK S, f : S = OrdersOn(a) /\ f = [o \in S |-> Released(o, t)]
  OBVIOUS
<1>2. IsFiniteSet(S) /\ \A o \in S : o \in Orders /\ Account(o) = a
  BY <1>1, OrdersOnFinite DEF OrdersOn
<1>3. /\ t.buy \in Orders /\ t.sell \in Orders /\ t.unlocked \in Nat /\ t.quantity \in Nat
      /\ t.buy # t.sell
      /\ Account(t.buy) = <<t.buy.user, "cash">> /\ Account(t.sell) = <<t.sell.user, "shares">>
      /\ Account(t.buy) # Account(t.sell)
  BY DEF Trade, Account
<1>4. \A o \in S : f[o] = Released(o, t)
  BY <1>1
<1>5. CASE a = Account(t.buy)
  <2>1. t.buy \in S /\ f[t.buy] = t.unlocked /\ \A o \in S \ {t.buy} : f[o] = 0
    BY <1>1, <1>2, <1>3, <1>4, <1>5 DEF OrdersOn, Released
  <2>2. SumFunctionOnSet(f, S) = t.unlocked
    <3>1. f[t.buy] \in Int
      BY <1>3, <2>1
    <3>2. QED
      BY <1>2, <2>1, <3>1, SumOne
  <2>3. QED
    BY <1>1, <1>3, <1>5, <2>2 DEF Freed
<1>6. CASE a = Account(t.sell)
  <2>1. t.sell \in S /\ f[t.sell] = t.quantity /\ \A o \in S \ {t.sell} : f[o] = 0
    BY <1>1, <1>2, <1>3, <1>4, <1>6 DEF OrdersOn, Released
  <2>2. SumFunctionOnSet(f, S) = t.quantity
    <3>1. f[t.sell] \in Int
      BY <1>3, <2>1
    <3>2. QED
      BY <1>2, <2>1, <3>1, SumOne
  <2>3. QED
    BY <1>1, <1>3, <1>6, <2>2 DEF Freed
<1>7. CASE a # Account(t.buy) /\ a # Account(t.sell)
  <2>1. \A o \in S : f[o] = 0
    BY <1>2, <1>3, <1>4, <1>7 DEF Released
  <2>2. SumFunctionOnSet(f, S) = 0
    BY <1>2, <2>1, SumZero
  <2>3. QED
    BY <1>1, <1>3, <1>7, <2>2 DEF Freed
<1>8. QED
  BY <1>5, <1>6, <1>7

\* The trade of an entry in the stream.
LEMMA EntryTrade ==
    ASSUME IInv, Trading, NEW e \in stream
    PROVE  e[1] \in Trade /\ e[1].buy.side = "buy" /\ e[1].sell.side = "sell"
BY DEF Trading, Sided, Reported, Sent, IInv, TypeOK

\* What settle_cache takes from the locked fields, the trade releases.
LEMMA SettleLocked ==
    ASSUME IInv, NEW e \in stream, Settle(e), NEW a \in Accounts, e[1] \in Trade
    PROVE  /\ cache[a].locked \in Int /\ Freed(a, e[1]) \in Int
           /\ cache'[a].locked = cache[a].locked - Freed(a, e[1])
<1>1. PICK t \in Trade : t = e[1]
  OBVIOUS
<1>2. /\ cache[a].locked \in Int /\ t.quantity \in Nat /\ t.unlocked \in Nat
  BY DEF Trade, IInv, TypeOK
<1>3. cache'[a].locked
        = cache[a].locked - (IF a = <<t.sell.user, "shares">> THEN t.quantity ELSE 0)
            - (IF a = <<t.buy.user, "cash">> THEN t.unlocked ELSE 0)
  BY <1>1 DEF Settle, Balance
<1>4. QED
  BY <1>1, <1>2, <1>3 DEF Freed

LEMMA SettleExact ==
    ASSUME IInv, Trading, HoldsExact, NEW e \in stream, Settle(e)
    PROVE  HoldsExact'
<1>1. PICK t \in Trade : t = e[1] /\ t.buy.side = "buy" /\ t.sell.side = "sell"
  BY EntryTrade
<1>2. /\ e \notin settled /\ settled' = settled \cup {e}
      /\ UNCHANGED <<held, unsure, repeated>>
  BY DEF Settle
<1>3. \A o : ReleasedAll(o, settled)' = ReleasedAll(o, settled) + Released(o, t)
  <2> SUFFICES ASSUME NEW o
               PROVE  ReleasedAll(o, settled)' = ReleasedAll(o, settled) + Released(o, t)
    OBVIOUS
  <2>1. PICK S, f, g : /\ S = settled /\ f = [d \in S |-> Released(o, d[1])]
                       /\ g = [d \in S \cup {e} |-> Released(o, d[1])]
    OBVIOUS
  <2>2. IsFiniteSet(S)
    BY <2>1, FS_Subset DEF Trading, Finite, IInv, TypeOK
  <2>3. ReleasedAll(o, settled) = SumFunctionOnSet(f, S)
    BY <2>1 DEF ReleasedAll, SumFunction
  <2>4. ReleasedAll(o, settled)' = SumFunctionOnSet(g, S \cup {e})
    BY <1>2, <2>1 DEF ReleasedAll, SumFunction, Released
  <2>5. \A d \in S : g[d] \in Int
    <3>1. \A d \in S : Released(o, d[1]) \in Nat
      BY <2>1, ReleasedNat DEF IInv, TypeOK
    <3>2. QED
      BY <2>1, <3>1
  <2>6. e \notin S /\ g[e] = Released(o, t) /\ g[e] \in Int
    <3>1. Released(o, t) \in Nat
      BY ReleasedNat
    <3>2. QED
      BY <1>1, <1>2, <2>1, <3>1
  <2>7. SumFunctionOnSet(g, S \cup {e}) = SumFunctionOnSet(g, S) + g[e]
    BY <2>2, <2>5, <2>6, SumAdd
  <2>8. SumFunctionOnSet(f, S) = SumFunctionOnSet(g, S)
    <3>1. \A d \in S : f[d] = g[d]
      BY <2>1
    <3>2. QED
      BY <2>2, <3>1, SumSame
  <2>9. QED
    BY <2>3, <2>4, <2>6, <2>7, <2>8
<1> SUFFICES ASSUME NEW a \in Accounts, OrdersOn(a) \cap repeated' = {}
             PROVE  /\ cache'[a].locked >= HoldsOn(a)'
                    /\ OrdersOn(a) \cap unsure' = {} => cache'[a].locked = HoldsOn(a)'
  BY DEF HoldsExact, HoldsOn, OrdersOn
<1>4. /\ cache[a].locked >= HoldsOn(a)
      /\ OrdersOn(a) \cap unsure = {} => cache[a].locked = HoldsOn(a)
  BY <1>2 DEF HoldsExact, HoldsOn
<1>5. HoldsOn(a) = HoldsOn(a)' + Freed(a, t) /\ HoldsOn(a)' \in Int
  <2>1. PICK S, f, g, h : /\ S = OrdersOn(a) /\ h = [o \in S |-> Held(o)]
                          /\ f = [o \in S |-> Held(o)'] /\ g = [o \in S |-> Released(o, t)]
    OBVIOUS
  <2>2. IsFiniteSet(S) /\ S \subseteq Orders
    BY <2>1, OrdersOnFinite
  <2>3. \A o \in Orders : /\ Held(o) \in Int /\ Released(o, t) \in Int
                          /\ Held(o)' = Held(o) - Released(o, t)
    <3> SUFFICES ASSUME NEW o \in Orders
                 PROVE  /\ Held(o) \in Int /\ Released(o, t) \in Int
                        /\ Held(o)' = Held(o) - Released(o, t)
      OBVIOUS
    <3>1. held[o] \in Int /\ ReleasedAll(o, settled) \in Int /\ Released(o, t) \in Int
      BY ReleasedAllNat, ReleasedNat DEF IInv, TypeOK
    <3>2. Held(o) = held[o] - ReleasedAll(o, settled)
          /\ Held(o)' = held[o] - (ReleasedAll(o, settled) + Released(o, t))
      BY <1>2, <1>3 DEF Held
    <3>3. QED
      BY <3>1, <3>2
  <2>4. \A o \in S : f[o] \in Int /\ g[o] \in Int /\ h[o] = f[o] + g[o]
    BY <2>1, <2>2, <2>3
  <2>5. SumFunctionOnSet(h, S) = SumFunctionOnSet(f, S) + SumFunctionOnSet(g, S)
    BY <2>2, <2>4, SumPlus
  <2>6. SumFunctionOnSet(f, S) \in Int
    BY <2>2, <2>4, SumInt
  <2>7. HoldsOn(a) = SumFunctionOnSet(h, S)
    BY <2>1, HoldsSum
  <2>8. HoldsOn(a)' = SumFunctionOnSet(f, S)
    BY <2>1 DEF HoldsOn, SumFunction, Held, OrdersOn
  <2>9. SumFunctionOnSet(g, S) = Freed(a, t)
    BY <1>1, <2>1, FreedOfOrders
  <2>10. QED
    BY <2>5, <2>6, <2>7, <2>8, <2>9
<1>6. /\ cache[a].locked \in Int /\ Freed(a, t) \in Int
      /\ cache'[a].locked = cache[a].locked - Freed(a, t)
  BY <1>1, SettleLocked
<1>7. QED
  BY <1>2, <1>4, <1>5, <1>6

\* A step without holds and settlements.
LEMMA QuietExact ==
    ASSUME HoldsExact, UNCHANGED <<cache, held, settled>>,
           unsure \subseteq unsure', repeated \subseteq repeated'
    PROVE  HoldsExact'
<1> SUFFICES ASSUME NEW a \in Accounts, OrdersOn(a) \cap repeated' = {}
             PROVE  /\ cache'[a].locked >= HoldsOn(a)'
                    /\ OrdersOn(a) \cap unsure' = {} => cache'[a].locked = HoldsOn(a)'
  BY DEF HoldsExact, HoldsOn, OrdersOn
<1>1. HoldsOn(a)' = HoldsOn(a)
  BY DEF HoldsOn, ReleasedAll, Released, OrdersOn
<1>2. /\ cache[a].locked >= HoldsOn(a)
      /\ OrdersOn(a) \cap unsure' = {} => cache[a].locked = HoldsOn(a)
  BY DEF HoldsExact, HoldsOn
<1>3. QED
  BY <1>1, <1>2

\* At the start nothing is locked.
LEMMA InitExact == Init => HoldsExact
<1> SUFFICES ASSUME Init, NEW a \in Accounts
             PROVE  cache[a].locked = HoldsOn(a) /\ HoldsOn(a) \in Int
  BY DEF HoldsExact, HoldsOn
<1>1. cache[a].locked = 0 /\ settled = {} /\ \A o \in Orders : held[o] = 0
  BY DEF Init, Balance
<1>2. \A o : ReleasedAll(o, settled) = 0
  BY <1>1, SumOfNone DEF ReleasedAll
<1>3. PICK S, f : S = OrdersOn(a) /\ f = [o \in S |-> Held(o)]
  OBVIOUS
<1>4. IsFiniteSet(S) /\ \A o \in S : f[o] = 0
  BY <1>1, <1>2, <1>3, OrdersOnFinite DEF Held
<1>5. SumFunctionOnSet(f, S) = 0
  BY <1>4, SumZero
<1>6. QED
  BY <1>1, <1>3, <1>5, HoldsSum

(***************************************************************************)
(* Every order can pay: what it holds covers what is left of it in the     *)
(* book and all its trades.                                                *)
(***************************************************************************)
\* What a share of the order takes of its hold.
Worth(o) == IF o.side = "buy" THEN o.price ELSE 1
\* What a trade pays beyond what it unlocks: all of it, in a market order's trades.
Surcharge(t) == IF t.paid > t.unlocked THEN t.paid - t.unlocked ELSE 0
Claim(o, t) == Released(o, t) + (IF o = t.buy THEN Surcharge(t) ELSE 0)
Claimed(o) == SumFunction([t \in Reported |-> Claim(o, t)])
Funded ==
    \A o \in Orders : pc[o] # "failed" => held[o] >= Worth(o) * left[o] + Claimed(o)

\* Products.
LEMMA Distributes ==
    ASSUME NEW c \in Int, NEW m \in Int, NEW n \in Int
    PROVE  c * (m - n) = c * m - c * n /\ c * m \in Int /\ c * n \in Int
OBVIOUS

LEMMA Monotonic ==
    ASSUME NEW m \in Nat, NEW n \in Nat, NEW q \in Nat, m =< n
    PROVE  m * q =< n * q /\ m * q \in Nat /\ n * q \in Nat
<1>1. PICK d \in Nat : n = m + d
  <2>1. n - m \in Nat /\ n = m + (n - m)
    OBVIOUS
  <2>2. QED
    BY <2>1
<1>2. (m + d) * q = m * q + d * q /\ d * q \in Nat /\ m * q \in Nat
  OBVIOUS
<1>3. QED
  BY <1>1, <1>2

LEMMA WorthNat ==
    ASSUME NEW o \in Orders
    PROVE  Worth(o) \in Nat
BY OrdersAssumption DEF Worth

\* A claim is a natural number.
LEMMA ClaimNat ==
    ASSUME NEW o, NEW t \in Trade
    PROVE  Claim(o, t) \in Nat /\ Surcharge(t) \in Nat /\ Released(o, t) \in Nat
BY DEF Claim, Surcharge, Released, Trade

\* The trades are trades, and finitely many.
LEMMA ReportedFinite ==
    ASSUME IInv, Trading
    PROVE  IsFiniteSet(Reported) /\ Reported \subseteq Trade
<1>1. Reported \subseteq Trade
  BY DEF Reported, Sent, IInv, TypeOK
<1>2. IsFiniteSet(Sent)
  <2>1. PICK S, h : S = stream /\ h = [e \in S |-> e[1]]
    OBVIOUS
  <2>2. IsFiniteSet({h[e] : e \in S})
    BY <2>1, FiniteImage DEF Trading, Finite
  <2>3. QED
    BY <2>1, <2>2 DEF Sent
<1>3. IsFiniteSet(UNION {outbox[p] : p \in Orders})
  <2>1. IsFiniteSet({outbox[p] : p \in Orders})
    BY FiniteImage, FiniteAssumption
  <2>2. \A S \in {outbox[p] : p \in Orders} : IsFiniteSet(S)
    BY DEF Trading, Finite
  <2>3. QED
    BY <2>1, <2>2, FS_UNION
<1>4. QED
  BY <1>1, <1>2, <1>3, FS_Union DEF Reported

\* So is what all its trades claim of an order; nothing if it has none.
LEMMA ClaimedNat ==
    ASSUME IInv, Trading, NEW o
    PROVE  /\ Claimed(o) \in Nat
           /\ (\A t \in Reported : o \notin Parties(t)) => Claimed(o) = 0
<1>1. PICK S, f : S = Reported /\ f = [t \in S |-> Claim(o, t)]
  OBVIOUS
<1>2. IsFiniteSet(S) /\ \A t \in S : f[t] \in Nat
  BY <1>1, ReportedFinite, ClaimNat
<1>3. Claimed(o) = SumFunctionOnSet(f, S)
  BY <1>1 DEF Claimed, SumFunction
<1>4. ASSUME \A t \in Reported : o \notin Parties(t)
      PROVE  SumFunctionOnSet(f, S) = 0
  <2>1. \A t \in S : f[t] = 0
    BY <1>1, <1>4 DEF Claim, Released, Parties
  <2>2. QED
    BY <1>2, <2>1, SumZero
<1>5. QED
  BY <1>2, <1>3, <1>4, SumNat

\* Only EXEC and a rollback change a hold.
LEMMA HeldKept ==
    ASSUME IInv, [Next]_vars, NEW o \in Orders
    PROVE  held'[o] = held[o] \/ pc'[o] \in {"submit", "failed"}
<1>1. ASSUME NEW p \in Orders, Execute(p)
      PROVE  held'[o] = held[o] \/ pc'[o] \in {"submit", "failed"}
  BY <1>1 DEF Execute, Goto, IInv, TypeOK
<1>2. ASSUME NEW p \in Orders, Rollback(p) \/ RollbackTwice(p)
      PROVE  held'[o] = held[o] \/ pc'[o] \in {"submit", "failed"}
  BY <1>2 DEF Rollback, RollbackTwice, GiveBack, Goto, IInv, TypeOK
<1>3. ASSUME NEW p \in Orders,
             \/ Watch(p) \/ ReadAvailable(p) \/ ReadLocked(p) \/ ReadPrice(p)
             \/ Conflict(p) \/ LoseReply(p) \/ RollbackFails(p) \/ DeleteOrder(p)
      PROVE  held' = held
  BY <1>3 DEF Watch, ReadAvailable, ReadLocked, ReadPrice, Conflict, LoseReply,
              RollbackFails, DeleteOrder
<1>4. ASSUME NEW p \in Orders, PlaceOrder(p) PROVE held' = held
  BY <1>4 DEF PlaceOrder, Submit, Publish, RouteFails
<1>5. ASSUME \/ \E p \in Orders, u \in Users : CheckOwnership(p, u)
             \/ \E entry \in stream : Settle(entry)
             \/ Reset \/ Crash \/ UNCHANGED vars
      PROVE  held' = held
  BY <1>5 DEF CheckOwnership, Settle, Reset, Crash, vars
<1>6. QED
  BY <1>1, <1>2, <1>3, <1>4, <1>5 DEF Next, HaveFunds

\* A step that takes trades and shares away at most leaves the orders funded.
LEMMA ShrinkFunded ==
    ASSUME IInv, Trading, Funded, IInv', [Next]_vars, Shrinks
    PROVE  Funded'
<1>1. Trading' /\ Reported' \subseteq Reported
  BY ShrinkTrading
<1> SUFFICES ASSUME NEW o \in Orders, pc'[o] # "failed"
             PROVE  held'[o] >= Worth(o) * left'[o] + Claimed(o)'
  BY DEF Funded, Worth
<1>2. /\ held[o] \in Nat /\ held'[o] \in Nat /\ left[o] \in Nat /\ left'[o] \in Nat
      /\ Worth(o) \in Nat
  BY WorthNat DEF IInv, TypeOK
<1>3. CASE pc'[o] \in Before
  <2>1. left'[o] = 0 /\ \A t \in Reported' : o \notin Parties(t)
    BY <1>1, <1>3 DEF Trading, Fresh, Parties
  <2>2. PICK S, f : S = Reported' /\ f = [t \in S |-> Claim(o, t)]
    OBVIOUS
  <2>3. Claimed(o)' = SumFunctionOnSet(f, S)
    BY <2>2 DEF Claimed, SumFunction, Claim, Released, Surcharge
  <2>4. \A t \in S : f[t] = 0
    BY <2>1, <2>2 DEF Claim, Released, Parties
  <2>5. IsFiniteSet(S)
    BY <1>1, <2>2, ReportedFinite, FS_Subset
  <2>6. SumFunctionOnSet(f, S) = 0
    BY <2>4, <2>5, SumZero
  <2>7. QED
    BY <1>2, <2>1, <2>3, <2>6
<1>4. CASE pc'[o] \notin Before
  <2>1. held'[o] = held[o] /\ pc[o] # "failed"
    BY <1>4, HeldKept DEF Before, Shrinks
  <2>2. held[o] >= Worth(o) * left[o] + Claimed(o)
    BY <2>1 DEF Funded
  <2>3. PICK S, T, f, g : /\ S = Reported /\ f = [t \in S |-> Claim(o, t)]
                          /\ T = Reported' /\ g = [t \in T |-> Claim(o, t)]
    OBVIOUS
  <2>4. Claimed(o) = SumFunctionOnSet(f, S)
    BY <2>3 DEF Claimed, SumFunction
  <2>5. Claimed(o)' = SumFunctionOnSet(g, T)
    BY <2>3 DEF Claimed, SumFunction, Claim, Released, Surcharge
  <2>6. IsFiniteSet(S) /\ T \in SUBSET S /\ \A t \in S : f[t] \in Nat
    BY <1>1, <2>3, ReportedFinite, ClaimNat
  <2>7. /\ SumFunctionOnSet(f, T) \in Nat /\ SumFunctionOnSet(f, S) \in Nat
        /\ SumFunctionOnSet(f, T) =< SumFunctionOnSet(f, S)
    BY <2>6, SumPart
  <2>8. SumFunctionOnSet(g, T) = SumFunctionOnSet(f, T)
    <3>1. \A t \in T : g[t] = f[t]
      BY <2>3, <2>6
    <3>2. IsFiniteSet(T)
      BY <2>6, FS_Subset
    <3>3. QED
      BY <3>1, <3>2, SumSame
  <2>9. Worth(o) * left'[o] =< Worth(o) * left[o] /\ Worth(o) * left[o] \in Nat
        /\ Worth(o) * left'[o] \in Nat
    <3>1. PICK w \in Nat, m \in Nat : w = Worth(o) /\ m = left[o]
      BY <1>2
    <3>2. w * 0 = 0 /\ w * m \in Nat
      OBVIOUS
    <3>3. left'[o] = 0 \/ left'[o] = m
      BY <3>1 DEF Shrinks
    <3>4. QED
      BY <3>1, <3>2, <3>3
  <2>10. QED
    BY <1>2, <2>1, <2>2, <2>4, <2>5, <2>7, <2>8, <2>9
<1>5. QED
  BY <1>3, <1>4

\* What a trade of the submission of o claims.
LEMMA ClaimOfTrade ==
    ASSUME IInv, NEW o \in Orders, NEW m \in Makers(o), NEW q \in Nat, NEW p
    PROVE  LET t == TradeOf(o, m, q)
           IN /\ Claim(m, t) = Worth(m) * q
              /\ p \notin {o, m} => Claim(p, t) = 0
              /\ o.side = "sell" => Claim(o, t) = q
              /\ o.side = "buy" /\ o.type = "limit" => Claim(o, t) = o.price * q
              /\ o.side = "buy" /\ o.type = "market" => Claim(o, t) = m.price * q
<1>1. m \in Orders /\ m.side # o.side /\ Acceptable(o, m)
  BY DEF Makers
<1>2. PICK t : t = TradeOf(o, m, q)
  OBVIOUS
<1>3. /\ Parties(t) = {o, m} /\ o # m
      /\ t.buy = (IF o.side = "buy" THEN o ELSE m)
      /\ t.sell = (IF o.side = "buy" THEN m ELSE o)
      /\ t.quantity = q /\ t.paid = m.price * q
      /\ t.unlocked = IF o.type = "market" THEN 0 ELSE t.buy.price * q
  BY <1>1, <1>2, TradeFields
<1>4. /\ o.side \in {"buy", "sell"} /\ m.side \in {"buy", "sell"}
      /\ o.type \in {"limit", "market"} /\ o.price \in Nat /\ m.price \in Nat
  BY <1>1, OrdersAssumption
<1>5. PICK x, y : x = m.price * q /\ y = o.price * q
  OBVIOUS
<1>6. x \in Nat /\ y \in Nat /\ 1 * q = q
  BY <1>4, <1>5, Product
<1>7. ASSUME o.side = "buy", o.type = "limit" PROVE x =< y
  BY <1>1, <1>4, <1>5, <1>7, Monotonic DEF Acceptable
<1>8. p \notin {o, m} => Claim(p, t) = 0
  BY <1>3, <1>4 DEF Claim, Released
<1>9. CASE o.side = "sell"
  <2>1. t.buy = m /\ t.sell = o /\ t.unlocked = (IF o.type = "market" THEN 0 ELSE x)
        /\ t.paid = x /\ Worth(m) * q = x
    BY <1>1, <1>3, <1>4, <1>5, <1>9 DEF Worth
  <2>2. Claim(o, t) = q
    BY <1>3, <1>6, <2>1 DEF Claim, Released
  <2>3. Claim(m, t) = x
    BY <1>3, <1>6, <2>1 DEF Claim, Released, Surcharge
  <2>4. QED
    BY <1>2, <1>8, <1>9, <2>1, <2>2, <2>3
<1>10. CASE o.side = "buy"
  <2>1. t.buy = o /\ t.sell = m /\ t.unlocked = (IF o.type = "market" THEN 0 ELSE y)
        /\ t.paid = x /\ Worth(m) * q = q
    BY <1>1, <1>3, <1>4, <1>5, <1>6, <1>10 DEF Worth
  <2>2. Claim(m, t) = q
    BY <1>3, <1>6, <2>1 DEF Claim, Released
  <2>3. o.type = "limit" => Claim(o, t) = y
    BY <1>3, <1>6, <1>7, <1>10, <2>1 DEF Claim, Released, Surcharge
  <2>4. o.type = "market" => Claim(o, t) = x
    BY <1>3, <1>6, <2>1 DEF Claim, Released, Surcharge
  <2>5. QED
    BY <1>2, <1>5, <1>8, <1>10, <2>1, <2>2, <2>3, <2>4
<1>11. QED
  BY <1>4, <1>9, <1>10

\* What the trades of a fill claim of p, by the order they fill.
LEMMA FillClaims ==
    ASSUME IInv, NEW o \in Orders, NEW fill \in Fills(o), NEW p
    PROVE  SumFunctionOnSet([t \in Trades(o, fill) |-> Claim(p, t)], Trades(o, fill))
         = SumFunctionOnSet([m \in Filling(fill) |-> Claim(p, TradeOf(o, m, fill[m]))],
                            Filling(fill))
<1>1. PICK S, h, f, g : /\ S = Filling(fill) /\ h = [m \in S |-> TradeOf(o, m, fill[m])]
                        /\ g = [m \in S |-> Claim(p, TradeOf(o, m, fill[m]))]
                        /\ f = [t \in Trades(o, fill) |-> Claim(p, t)]
  OBVIOUS
<1>2. IsFiniteSet(S) /\ \A m \in S : m \in Makers(o) /\ m \in Orders /\ m.side # o.side
                                     /\ m # o /\ fill[m] \in Nat
  BY <1>1, TradesOfFill
<1>3. \A m \in S : Parties(h[m]) = {o, m}
  BY <1>1, <1>2, TradeFields
<1>4. \A x, y \in S : h[x] = h[y] => x = y
  BY <1>2, <1>3
<1>5. Trades(o, fill) = {h[m] : m \in S}
  BY <1>1, TradesOfFill
<1>6. \A m \in S : h[m] \in Trade
  <2> SUFFICES ASSUME NEW m \in S PROVE h[m] \in Trade
    OBVIOUS
  <2>1. /\ m.price * fill[m] \in Nat /\ o.price * fill[m] \in Nat /\ m.price \in Nat
    BY <1>2, Product, OrdersAssumption
  <2>2. h[m] = TradeOf(o, m, fill[m])
    BY <1>1
  <2>3. QED
    BY <1>2, <2>1, <2>2 DEF TradeOf, Trade
<1>7. \A m \in S : g[m] \in Int /\ f[h[m]] = g[m]
  <2>1. \A m \in S : Claim(p, h[m]) \in Nat
    BY <1>6, ClaimNat
  <2>2. \A m \in S : g[m] = Claim(p, h[m]) /\ h[m] \in Trades(o, fill)
    BY <1>1, <1>5
  <2>3. QED
    BY <1>1, <2>1, <2>2
<1>8. /\ IsFiniteSet({h[x] : x \in S})
      /\ SumFunctionOnSet(f, {h[x] : x \in S}) = SumFunctionOnSet(g, S)
  BY <1>2, <1>4, <1>7, SumImage
<1>9. QED
  BY <1>1, <1>5, <1>8

\* An order that is filled pays for that many shares.
LEMMA MakerClaims ==
    ASSUME IInv, NEW o \in Orders, NEW fill \in Fills(o), NEW p \in Orders \ {o}
    PROVE  SumFunctionOnSet([t \in Trades(o, fill) |-> Claim(p, t)], Trades(o, fill))
         = IF p \in Makers(o) THEN Worth(p) * fill[p] ELSE 0
<1>1. PICK S, g : S = Filling(fill) /\ g = [m \in S |-> Claim(p, TradeOf(o, m, fill[m]))]
  OBVIOUS
<1>2. IsFiniteSet(S) /\ \A m \in S : m \in Makers(o) /\ fill[m] \in Nat
  BY <1>1, TradesOfFill
<1>3. \A m \in S \ {p} : g[m] = 0
  BY <1>1, <1>2, ClaimOfTrade
<1>4. CASE p \in S
  <2>1. g[p] = Worth(p) * fill[p]
    BY <1>1, <1>2, <1>4, ClaimOfTrade
  <2>2. g[p] \in Int
    BY <1>2, <1>4, <2>1, WorthNat, Product
  <2>3. SumFunctionOnSet(g, S) = g[p]
    BY <1>2, <1>3, <1>4, <2>2, SumOne
  <2>4. QED
    BY <1>1, <1>2, <1>4, <2>1, <2>3, FillClaims
<1>5. CASE p \notin S
  <2>1. SumFunctionOnSet(g, S) = 0
    BY <1>2, <1>3, <1>5, SumZero
  <2>2. ASSUME p \in Makers(o) PROVE Worth(p) * fill[p] = 0
    <3>1. fill[p] = 0
      BY <1>1, <1>5, <2>2, TradesOfFill DEF Filling
    <3>2. PICK w \in Nat : w = Worth(p)
      BY WorthNat
    <3>3. w * 0 = 0
      OBVIOUS
    <3>4. QED
      BY <3>1, <3>2, <3>3
  <2>3. QED
    BY <1>1, <2>1, <2>2, FillClaims
<1>6. QED
  BY <1>4, <1>5

\* The submitted order pays for what it was filled with; a market buy pays what
\* the orders it fills ask.
LEMMA TakerClaims ==
    ASSUME IInv, NEW o \in Orders, NEW fill \in Fills(o)
    PROVE  SumFunctionOnSet([t \in Trades(o, fill) |-> Claim(o, t)], Trades(o, fill))
         = IF o.side = "buy" /\ o.type = "market" THEN Paid(fill)
           ELSE Worth(o) * Filled(fill)
<1>1. PICK S, g, M : /\ S = Filling(fill) /\ g = [m \in S |-> Claim(o, TradeOf(o, m, fill[m]))]
                     /\ M = Makers(o)
  OBVIOUS
<1>2. /\ IsFiniteSet(S) /\ S \in SUBSET M /\ IsFiniteSet(M) /\ M \subseteq Orders
      /\ \A m \in M : fill[m] \in Nat /\ (m \notin S => fill[m] = 0)
      /\ DOMAIN fill = M
  BY <1>1, TradesOfFill DEF Filling
<1>3. /\ o.side \in {"buy", "sell"} /\ o.type \in {"limit", "market"}
      /\ \A m \in M : m.price \in Nat
  BY <1>2, OrdersAssumption
<1>4. CASE o.side = "buy" /\ o.type = "market"
  <2>1. PICK f : f = [m \in M |-> m.price * fill[m]]
    OBVIOUS
  <2>2. Paid(fill) = SumFunctionOnSet(f, M)
    BY <1>2, <2>1 DEF Paid, SumFunction
  <2>3. \A m \in M : f[m] \in Int
    BY <1>2, <1>3, <2>1, Product
  <2>4. \A m \in M \ S : f[m] = 0
    <3>1. \A n \in Nat : n * 0 = 0
      OBVIOUS
    <3>2. QED
      BY <1>2, <1>3, <2>1, <3>1
  <2>5. \A m \in S : g[m] = f[m]
    BY <1>1, <1>2, <1>4, <2>1, ClaimOfTrade
  <2>6. SumFunctionOnSet(f, M) = SumFunctionOnSet(f, S)
    <3>1. \A m \in S : f[m] \in Int
      BY <1>2, <2>3
    <3>2. QED
      BY <1>2, <2>4, <3>1, SumSupport
  <2>7. SumFunctionOnSet(g, S) = SumFunctionOnSet(f, S)
    BY <1>2, <2>5, SumSame
  <2>8. QED
    BY <1>1, <1>4, <2>2, <2>6, <2>7, FillClaims
<1>5. CASE ~(o.side = "buy" /\ o.type = "market")
  <2>1. Filled(fill) = SumFunctionOnSet(fill, M)
    BY <1>2 DEF Filled, SumFunction
  <2>2. SumFunctionOnSet(fill, M) = SumFunctionOnSet(fill, S)
    <3>1. /\ \A m \in S : fill[m] \in Int
          /\ \A m \in M \ S : fill[m] = 0
      BY <1>2
    <3>2. QED
      BY <1>2, <3>1, SumSupport
  <2>3. PICK w \in Int : w = Worth(o)
    BY WorthNat
  <2>4. \A m \in S : fill[m] \in Int /\ g[m] = w * fill[m]
    <3> SUFFICES ASSUME NEW m \in S PROVE fill[m] \in Int /\ g[m] = w * fill[m]
      OBVIOUS
    <3>1. fill[m] \in Nat /\ m \in Makers(o) /\ 1 * fill[m] = fill[m]
      BY <1>1, <1>2
    <3>2. /\ o.side = "sell" => g[m] = fill[m]
          /\ o.side = "buy" /\ o.type = "limit" => g[m] = o.price * fill[m]
      BY <1>1, <3>1, ClaimOfTrade
    <3>3. QED
      BY <1>3, <1>5, <2>3, <3>1, <3>2 DEF Worth
  <2>5. SumFunctionOnSet(g, S) = w * SumFunctionOnSet(fill, S)
    BY <1>2, <2>4, SumTimes
  <2>6. QED
    BY <1>1, <1>5, <2>1, <2>2, <2>3, <2>5, FillClaims
<1>6. QED
  BY <1>4, <1>5

\* New trades add to what is claimed of an order.
LEMMA ClaimsAdded ==
    ASSUME IInv, Trading, NEW o \in Orders, NEW fill \in Fills(o), NEW p,
           Reported' = Reported \cup Trades(o, fill), Reported \cap Trades(o, fill) = {}
    PROVE  Claimed(p)' = Claimed(p)
             + SumFunctionOnSet([t \in Trades(o, fill) |-> Claim(p, t)], Trades(o, fill))
<1>1. PICK S, T, f, g, h : /\ S = Reported /\ f = [t \in S |-> Claim(p, t)]
                           /\ T = Trades(o, fill) /\ g = [t \in T |-> Claim(p, t)]
                           /\ h = [t \in S \cup T |-> Claim(p, t)]
  OBVIOUS
<1>2. IsFiniteSet(S) /\ IsFiniteSet(T) /\ S \cap T = {}
  BY <1>1, ReportedFinite, TradesOfFill
<1>3. (\A t \in S : h[t] \in Int) /\ (\A t \in T : h[t] \in Int)
  <2>1. \A t \in S : h[t] \in Int
    BY <1>1, ReportedFinite, ClaimNat
  <2>2. \A t \in T : t \in Trade
    <3> SUFFICES ASSUME NEW m \in Filling(fill) PROVE TradeOf(o, m, fill[m]) \in Trade
      BY <1>1, TradesOfFill
    <3>1. m \in Orders /\ fill[m] \in Nat
      BY TradesOfFill
    <3>2. /\ m.price * fill[m] \in Nat /\ o.price * fill[m] \in Nat
      BY <3>1, Product, OrdersAssumption
    <3>3. QED
      BY <3>1, <3>2 DEF TradeOf, Trade
  <2>3. \A t \in T : h[t] \in Int
    BY <1>1, <2>2, ClaimNat
  <2>4. QED
    BY <2>1, <2>3
<1>4. SumFunctionOnSet(h, S \cup T) = SumFunctionOnSet(h, S) + SumFunctionOnSet(h, T)
  BY <1>2, <1>3, SumUnion
<1>5. SumFunctionOnSet(f, S) = SumFunctionOnSet(h, S)
  <2>1. \A t \in S : f[t] = h[t]
    BY <1>1
  <2>2. QED
    BY <1>2, <2>1, SumSame
<1>6. SumFunctionOnSet(g, T) = SumFunctionOnSet(h, T)
  <2>1. \A t \in T : g[t] = h[t]
    BY <1>1
  <2>2. QED
    BY <1>2, <2>1, SumSame
<1>7. Claimed(p) = SumFunctionOnSet(f, S)
  BY <1>1 DEF Claimed, SumFunction
<1>8. Claimed(p)' = SumFunctionOnSet(h, S \cup T)
  BY <1>1 DEF Claimed, SumFunction, Claim, Released, Surcharge
<1>9. QED
  BY <1>1, <1>4, <1>5, <1>6, <1>7, <1>8

\* A submission leaves all orders funded: the submitted one, since its hold was
\* computed for it, and those it fills, at their own price.
LEMMA SubmitFunded ==
    ASSUME IInv, Trading, Holding, Funded, NEW o \in Orders, Submit(o)
    PROVE  Funded'
<1>1. PICK fill \in Fills(o) :
         /\ \A p \in Orders :
               left'[p] = CASE p \in Makers(o) -> left[p] - fill[p]
                            [] p = o /\ o.type = "limit" -> o.quantity - Filled(fill)
                            [] OTHER -> left[p]
         /\ Reported' = Reported \cup Trades(o, fill)
         /\ Reported \cap Trades(o, fill) = {}
         /\ pc[o] = "submit" /\ \A p \in Orders \ {o} : pc'[p] = pc[p]
         /\ held' = held
  BY SubmitEffect
<1>2. /\ o \notin Makers(o) /\ Filled(fill) \in Nat /\ Filled(fill) =< o.quantity
      /\ \A m \in Makers(o) : fill[m] \in Nat
  BY TradesOfFill
<1> SUFFICES ASSUME NEW p \in Orders, pc'[p] # "failed"
             PROVE  held'[p] >= Worth(p) * left'[p] + Claimed(p)'
  BY DEF Funded, Worth
<1>3. PICK n : n = SumFunctionOnSet([t \in Trades(o, fill) |-> Claim(p, t)], Trades(o, fill))
  OBVIOUS
<1>4. Claimed(p)' = Claimed(p) + n
  BY <1>1, <1>3, ClaimsAdded
<1>5. PICK w \in Nat : w = Worth(p)
  BY WorthNat
<1>6. held[p] \in Nat /\ left[p] \in Nat /\ Claimed(p) \in Nat /\ held'[p] = held[p]
  BY <1>1, ClaimedNat DEF IInv, TypeOK
<1>7. CASE p # o
  <2>1. held[p] >= w * left[p] + Claimed(p)
    BY <1>1, <1>5, <1>7 DEF Funded
  <2>2. n = IF p \in Makers(o) THEN w * fill[p] ELSE 0
    BY <1>3, <1>5, <1>7, MakerClaims
  <2>3. CASE p \in Makers(o)
    <3>1. left'[p] = left[p] - fill[p] /\ fill[p] \in Nat
      BY <1>1, <1>2, <2>3
    <3>2. w * (left[p] - fill[p]) = w * left[p] - w * fill[p]
          /\ w * left[p] \in Int /\ w * fill[p] \in Int
      <4>1. w \in Int /\ left[p] \in Int /\ fill[p] \in Int
        BY <1>6, <3>1
      <4>2. QED
        BY <4>1, Distributes
    <3>3. QED
      BY <1>4, <1>5, <1>6, <2>1, <2>2, <2>3, <3>1, <3>2
  <2>4. CASE p \notin Makers(o)
    <3>1. left'[p] = left[p] /\ n = 0
      BY <1>1, <1>7, <2>2, <2>4
    <3>2. QED
      BY <1>4, <1>5, <1>6, <2>1, <3>1
  <2>5. QED
    BY <2>3, <2>4
<1>8. CASE p = o
  <2>1. left[o] = 0 /\ Claimed(o) = 0
    BY <1>1, ClaimedNat DEF Trading, Fresh, Before
  <2>2. n = IF o.side = "buy" /\ o.type = "market" THEN Paid(fill) ELSE w * Filled(fill)
    BY <1>3, <1>5, <1>8, TakerClaims
  <2>3. /\ o.side \in {"buy", "sell"} /\ o.type \in {"limit", "market"}
        /\ o.quantity \in Nat /\ o.price \in Nat
    BY OrdersAssumption
  <2>4. left'[o] = IF o.type = "limit" THEN o.quantity - Filled(fill) ELSE 0
    BY <1>1, <1>2, <2>1
  <2>5. CASE o.type = "limit"
    <3>1. held[o] = w * o.quantity
      <4>1. 1 * o.quantity = o.quantity
        BY <2>3
      <4>2. QED
        BY <1>1, <1>5, <1>8, <2>3, <2>5, <4>1 DEF Holding, Worth
    <3>2. w * (o.quantity - Filled(fill)) = w * o.quantity - w * Filled(fill)
          /\ w * o.quantity \in Int /\ w * Filled(fill) \in Int
      BY <1>2, <2>3, Distributes
    <3>3. n = w * Filled(fill) /\ left'[o] = o.quantity - Filled(fill)
      BY <2>2, <2>4, <2>5
    <3>4. QED
      BY <1>4, <1>5, <1>6, <1>8, <2>1, <3>1, <3>2, <3>3
  <2>6. CASE o.type = "market" /\ o.side = "sell"
    <3>1. held[o] = o.quantity /\ w = 1
      BY <1>1, <1>5, <1>8, <2>6 DEF Holding, Worth
    <3>2. n = Filled(fill) /\ left'[o] = 0
      <4>1. 1 * Filled(fill) = Filled(fill)
        BY <1>2
      <4>2. QED
        BY <2>2, <2>4, <2>6, <3>1, <4>1
    <3>3. QED
      BY <1>2, <1>4, <1>5, <1>6, <1>8, <2>1, <2>3, <3>1, <3>2
  <2>7. CASE o.type = "market" /\ o.side = "buy"
    <3>1. n = Paid(fill) /\ left'[o] = 0
      BY <2>2, <2>4, <2>7
    <3>2. Paid(fill) =< held[o]
      BY <2>7 DEF Fills, WithinFunds
    <3>3. w * 0 = 0
      OBVIOUS
    <3>4. Paid(fill) \in Int
      <4>1. PICK M, f : M = Makers(o) /\ f = [m \in M |-> m.price * fill[m]]
        OBVIOUS
      <4>2. IsFiniteSet(M) /\ M \subseteq Orders /\ DOMAIN fill = M
        BY <4>1, TradesOfFill
      <4>3. \A m \in M : f[m] \in Int
        BY <1>2, <4>1, <4>2, Product, OrdersAssumption
      <4>4. Paid(fill) = SumFunctionOnSet(f, M)
        BY <4>1, <4>2 DEF Paid, SumFunction
      <4>5. QED
        BY <4>2, <4>3, <4>4, SumInt
    <3>5. QED
      BY <1>4, <1>5, <1>6, <1>8, <2>1, <3>1, <3>2, <3>3, <3>4
  <2>8. QED
    BY <2>3, <2>5, <2>6, <2>7
<1>9. QED
  BY <1>7, <1>8

LEMMA NextFunded == IInv /\ Trading /\ Holding /\ Funded /\ [Next]_vars => Funded'
BY SubmitFunded, StepShrinks, ShrinkFunded, NextInv

LEMMA InitFunded == Init => Funded
<1> SUFFICES ASSUME Init, NEW o \in Orders
             PROVE  held[o] >= Worth(o) * left[o] + Claimed(o)
  BY DEF Funded
<1>1. /\ stream = {} /\ \A p \in Orders : outbox[p] = {}
      /\ held[o] = 0 /\ left[o] = 0
  BY DEF Init
<1>2. Reported = {}
  BY <1>1 DEF Reported, Sent
<1>3. Claimed(o) = 0
  BY <1>2, SumOfNone DEF Claimed
<1>4. PICK w \in Nat : w = Worth(o)
  BY WorthNat
<1>5. w * 0 = 0
  OBVIOUS
<1>6. QED
  BY <1>1, <1>3, <1>4, <1>5

(***************************************************************************)
(* The trades of an order whose trades were sent once: those on the way to *)
(* settlement and those settled.                                           *)
(***************************************************************************)
LEMMA Split ==
    ASSUME IInv, Trading, NEW o, ~SentTwice(o), NEW f,
           \A t \in Reported : f[t] \in Nat,
           \A t \in Reported : o \notin Parties(t) => f[t] = 0
    PROVE  LET late == SumFunctionOnSet(f, Unsettled)
               done == SumFunctionOnSet([e \in settled |-> f[e[1]]], settled)
           IN /\ late \in Nat /\ done \in Nat
              /\ SumFunctionOnSet(f, Reported) = late + done
<1>1. PICK R, U, E, g : /\ R = Reported /\ U = Unsettled /\ E = settled
                        /\ g = [e \in E |-> f[e[1]]]
  OBVIOUS
<1>2. /\ \A e \in E : e \in stream /\ e = <<e[1], e[2]>> /\ e[2] \in {1, 2} /\ e[1] \in R
      /\ U \subseteq R
      /\ IsFiniteSet(R) /\ IsFiniteSet(E)
  <2>1. E \subseteq stream /\ stream \subseteq Trade \X {1, 2}
    BY <1>1 DEF IInv, TypeOK
  <2>2. \A e \in E : e[1] \in R
    BY <1>1, <2>1 DEF Reported, Sent
  <2>3. U \subseteq R
    BY <1>1 DEF Unsettled, Reported, Sent
  <2>4. IsFiniteSet(R) /\ IsFiniteSet(E)
    BY <1>1, <2>1, ReportedFinite, FS_Subset DEF Trading, Finite
  <2>5. QED
    BY <2>1, <2>2, <2>3, <2>4
<1>3. PICK Uo, Eo : /\ Uo = {t \in U : o \in Parties(t)}
                    /\ Eo = {e \in E : o \in Parties(e[1])}
  OBVIOUS
<1>4. \A e \in Eo : e[2] = 1
  BY <1>1, <1>2, <1>3 DEF SentTwice, Parties
<1>5. PICK h, Do : h = [e \in Eo |-> e[1]] /\ Do = {h[e] : e \in Eo}
  OBVIOUS
<1>6. \A x, y \in Eo : h[x] = h[y] => x = y
  BY <1>2, <1>3, <1>4, <1>5
<1>7. {t \in R : o \in Parties(t)} = Uo \cup Do
  <2>1. ASSUME NEW t \in R, o \in Parties(t), t \notin U PROVE t \in Do
    <3>1. PICK e \in stream : t = e[1] /\ e \in settled
      BY <1>1, <2>1 DEF Reported, Sent, Unsettled
    <3>2. e \in Eo /\ h[e] = t
      BY <1>1, <1>3, <1>5, <2>1, <3>1
    <3>3. QED
      BY <1>5, <3>2
  <2>2. Do \subseteq {t \in R : o \in Parties(t)}
    BY <1>2, <1>3, <1>5
  <2>3. QED
    BY <1>2, <1>3, <2>1, <2>2
<1>8. Uo \cap Do = {}
  <2> SUFFICES ASSUME NEW e \in Eo, e[1] \in Uo PROVE FALSE
    BY <1>5
  <2>1. e[1] \in Sent /\ e \in settled /\ e[2] = 1 /\ o \in Parties(e[1]) /\ e = <<e[1], 1>>
    BY <1>1, <1>2, <1>3, <1>4 DEF Sent
  <2>2. \A p \in Orders : e[1] \notin outbox[p]
    BY <2>1 DEF Trading, Boxed
  <2>3. PICK d \in stream \ settled : d[1] = e[1]
    BY <1>1, <1>3, <2>2 DEF Unsettled
  <2>4. d = <<d[1], d[2]>> /\ d[2] \in {1, 2}
    BY <2>3 DEF IInv, TypeOK
  <2>5. d[2] = 2
    BY <2>1, <2>3, <2>4
  <2>6. QED
    BY <2>1, <2>3, <2>5 DEF SentTwice, Parties
<1>9. IsFiniteSet(Uo) /\ IsFiniteSet(Eo) /\ IsFiniteSet(U) /\ Uo \in SUBSET U /\ Eo \in SUBSET E
  <2>1. Uo \in SUBSET U /\ Eo \in SUBSET E /\ U \in SUBSET R
    BY <1>2, <1>3
  <2>2. IsFiniteSet(U)
    BY <1>2, <2>1, FS_Subset
  <2>3. QED
    BY <1>2, <2>1, <2>2, FS_Subset
<1>10. \A t \in R : f[t] \in Int /\ f[t] \in Nat /\ (o \notin Parties(t) => f[t] = 0)
  BY <1>1
<1>11. SumFunctionOnSet(f, R) = SumFunctionOnSet(f, Uo \cup Do)
  <2>1. Uo \cup Do \in SUBSET R
    BY <1>7
  <2>2. \A t \in Uo \cup Do : f[t] \in Int
    BY <1>10, <2>1
  <2>3. \A t \in R \ (Uo \cup Do) : f[t] = 0
    BY <1>7, <1>10
  <2>4. QED
    BY <1>2, <2>1, <2>2, <2>3, SumSupport
<1>12. SumFunctionOnSet(f, U) = SumFunctionOnSet(f, Uo) /\ SumFunctionOnSet(f, U) \in Nat
  <2>1. \A t \in U : f[t] \in Nat
    BY <1>2, <1>10
  <2>2. \A t \in Uo : f[t] \in Int
    BY <1>9, <2>1
  <2>3. \A t \in U \ Uo : f[t] = 0
    BY <1>2, <1>3, <1>10
  <2>4. SumFunctionOnSet(f, U) = SumFunctionOnSet(f, Uo)
    BY <1>9, <2>2, <2>3, SumSupport
  <2>5. SumFunctionOnSet(f, U) \in Nat
    BY <1>9, <2>1, SumNat
  <2>6. QED
    BY <2>4, <2>5
<1>13. SumFunctionOnSet(g, E) = SumFunctionOnSet(g, Eo) /\ SumFunctionOnSet(g, E) \in Nat
  <2>1. \A e \in E : g[e] \in Nat
    BY <1>1, <1>2, <1>10
  <2>2. \A e \in Eo : g[e] \in Int
    BY <1>9, <2>1
  <2>3. \A e \in E \ Eo : g[e] = 0
    BY <1>1, <1>2, <1>3, <1>10
  <2>4. SumFunctionOnSet(g, E) = SumFunctionOnSet(g, Eo)
    BY <1>2, <1>9, <2>2, <2>3, SumSupport
  <2>5. SumFunctionOnSet(g, E) \in Nat
    BY <1>2, <2>1, SumNat
  <2>6. QED
    BY <2>4, <2>5
<1>14. IsFiniteSet(Do) /\ SumFunctionOnSet(f, Do) = SumFunctionOnSet(g, Eo)
  <2>1. \A e \in Eo : g[e] \in Int /\ f[h[e]] = g[e]
    BY <1>1, <1>2, <1>3, <1>5, <1>10
  <2>2. /\ IsFiniteSet({h[x] : x \in Eo})
        /\ SumFunctionOnSet(f, {h[x] : x \in Eo}) = SumFunctionOnSet(g, Eo)
    BY <1>6, <1>9, <2>1, SumImage
  <2>3. QED
    BY <1>5, <2>2
<1>15. SumFunctionOnSet(f, Uo \cup Do) = SumFunctionOnSet(f, Uo) + SumFunctionOnSet(f, Do)
  <2>1. (\A t \in Uo : f[t] \in Int) /\ (\A t \in Do : f[t] \in Int)
    BY <1>7, <1>10
  <2>2. QED
    BY <1>8, <1>9, <1>14, <2>1, SumUnion
<1>16. QED
  BY <1>1, <1>11, <1>12, <1>13, <1>14, <1>15

\* What the settled trades of an order paid beyond what they unlocked.
Surcharged(o) == SumFunction([e \in settled |-> IF o = e[1].buy THEN Surcharge(e[1]) ELSE 0])

\* What was not released of a hold pays for what the order still needs, and has
\* paid for the surcharges.
LEMMA OrderBacked ==
    ASSUME IInv, Trading, Funded, NEW o \in Orders, pc[o] # "failed", ~SentTwice(o)
    PROVE  /\ Held(o) \in Int /\ Needed(o) \in Nat /\ Surcharged(o) \in Nat
           /\ Held(o) >= Needed(o) + Surcharged(o)
<1>1. PICK R, U, E, f, g, released, paid, claimed :
         /\ R = Reported /\ U = Unsettled /\ E = settled
         /\ f = [t \in R |-> Claim(o, t)]
         /\ g = [t \in R |-> Released(o, t)]
         /\ released = [e \in E |-> Released(o, e[1])]
         /\ paid = [e \in E |-> IF o = e[1].buy THEN Surcharge(e[1]) ELSE 0]
         /\ claimed = [e \in E |-> f[e[1]]]
  OBVIOUS
<1>2. IsFiniteSet(R) /\ R \subseteq Trade /\ U \subseteq R /\ \A e \in E : e[1] \in R
  <2>1. U \subseteq R
    BY <1>1 DEF Unsettled, Reported, Sent
  <2>2. \A e \in E : e[1] \in R
    BY <1>1 DEF Reported, Sent, IInv, TypeOK
  <2>3. QED
    BY <1>1, <2>1, <2>2, ReportedFinite
<1>3. IsFiniteSet(U) /\ IsFiniteSet(E)
  <2>1. IsFiniteSet(E)
    BY <1>1, FS_Subset DEF Trading, Finite, IInv, TypeOK
  <2>2. QED
    BY <1>2, <2>1, FS_Subset
<1>4. \A t \in R : /\ f[t] \in Nat /\ g[t] \in Nat /\ g[t] =< f[t]
                   /\ (o \notin Parties(t) => f[t] = 0)
  <2> SUFFICES ASSUME NEW t \in R
               PROVE  /\ f[t] \in Nat /\ g[t] \in Nat /\ g[t] =< f[t]
                      /\ (o \notin Parties(t) => f[t] = 0)
    OBVIOUS
  <2>1. /\ Claim(o, t) \in Nat /\ Surcharge(t) \in Nat /\ Released(o, t) \in Nat
    BY <1>2, ClaimNat
  <2>2. Released(o, t) =< Claim(o, t)
    BY <2>1 DEF Claim
  <2>3. o \notin Parties(t) => Claim(o, t) = 0
    BY DEF Claim, Released, Parties
  <2>4. QED
    BY <1>1, <2>1, <2>2, <2>3
<1>5. /\ SumFunctionOnSet(f, U) \in Nat /\ SumFunctionOnSet(claimed, E) \in Nat
      /\ SumFunctionOnSet(f, R) = SumFunctionOnSet(f, U) + SumFunctionOnSet(claimed, E)
  <2>1. \A t \in Reported : f[t] \in Nat
    BY <1>1, <1>4
  <2>2. \A t \in Reported : o \notin Parties(t) => f[t] = 0
    BY <1>1, <1>4
  <2>3. /\ SumFunctionOnSet(f, Unsettled) \in Nat
        /\ SumFunctionOnSet([e \in settled |-> f[e[1]]], settled) \in Nat
        /\ SumFunctionOnSet(f, Reported) = SumFunctionOnSet(f, Unsettled)
             + SumFunctionOnSet([e \in settled |-> f[e[1]]], settled)
    BY <2>1, <2>2, Split
  <2>4. QED
    BY <1>1, <2>3
<1>6. \A e \in E : /\ released[e] \in Nat /\ paid[e] \in Nat
                   /\ claimed[e] = released[e] + paid[e]
  <2> SUFFICES ASSUME NEW e \in E
               PROVE  /\ released[e] \in Nat /\ paid[e] \in Nat
                      /\ claimed[e] = released[e] + paid[e]
    OBVIOUS
  <2>1. Released(o, e[1]) \in Nat /\ Surcharge(e[1]) \in Nat
    BY <1>2, ClaimNat
  <2>2. claimed[e] = Claim(o, e[1])
    BY <1>1, <1>2
  <2>3. QED
    BY <1>1, <2>1, <2>2 DEF Claim
<1>7. /\ SumFunctionOnSet(released, E) \in Nat /\ SumFunctionOnSet(paid, E) \in Nat
      /\ SumFunctionOnSet(claimed, E)
           = SumFunctionOnSet(released, E) + SumFunctionOnSet(paid, E)
  <2>1. (\A e \in E : released[e] \in Nat) /\ (\A e \in E : paid[e] \in Nat)
    BY <1>6
  <2>2. \A e \in E : released[e] \in Int /\ paid[e] \in Int /\ claimed[e] = released[e] + paid[e]
    BY <1>6
  <2>3. SumFunctionOnSet(claimed, E)
          = SumFunctionOnSet(released, E) + SumFunctionOnSet(paid, E)
    BY <1>3, <2>2, SumPlus
  <2>4. QED
    BY <1>3, <2>1, <2>3, SumNat
<1>8. /\ SumFunctionOnSet(g, U) =< SumFunctionOnSet(f, U) /\ SumFunctionOnSet(g, U) \in Nat
  <2>1. \A t \in U : g[t] \in Int /\ f[t] \in Int /\ g[t] =< f[t]
    BY <1>2, <1>4
  <2>2. \A t \in U : g[t] \in Nat
    BY <1>2, <1>4
  <2>3. SumFunctionOnSet(g, U) =< SumFunctionOnSet(f, U)
    BY <1>3, <2>1, SumLess
  <2>4. QED
    BY <1>3, <2>2, <2>3, SumNat
<1>9. Claimed(o) = SumFunctionOnSet(f, R)
  BY <1>1 DEF Claimed, SumFunction
<1>10. ReleasedAll(o, settled) = SumFunctionOnSet(released, E)
  BY <1>1 DEF ReleasedAll, SumFunction
<1>11. Surcharged(o) = SumFunctionOnSet(paid, E)
  BY <1>1 DEF Surcharged, SumFunction
<1>12. PICK n \in Nat : n = Worth(o) * left[o]
  <2>1. left[o] \in Nat /\ Worth(o) \in Nat
    BY WorthNat DEF IInv, TypeOK
  <2>2. QED
    BY <2>1, Product
<1>13. Needed(o) = n + SumFunctionOnSet(g, U)
  <2>1. n = IF o.side = "buy" THEN o.price * left[o] ELSE left[o]
    <3>1. left[o] \in Nat
      BY DEF IInv, TypeOK
    <3>2. 1 * left[o] = left[o]
      BY <3>1
    <3>3. QED
      BY <1>12, <3>2 DEF Worth
  <2>2. PICK h : h = [t \in U |-> Released(o, t)]
    OBVIOUS
  <2>3. SumFunction([t \in Unsettled |-> Released(o, t)]) = SumFunctionOnSet(h, U)
    BY <1>1, <2>2 DEF SumFunction
  <2>4. \A t \in U : h[t] = g[t]
    BY <1>1, <1>2, <2>2
  <2>5. SumFunctionOnSet(h, U) = SumFunctionOnSet(g, U)
    BY <1>3, <2>4, SumSame
  <2>6. QED
    BY <2>1, <2>3, <2>5 DEF Needed
<1>14. held[o] \in Nat /\ held[o] >= n + Claimed(o)
  BY <1>12 DEF Funded, IInv, TypeOK
<1>15. QED
  BY <1>5, <1>7, <1>8, <1>9, <1>10, <1>11, <1>13, <1>14 DEF Held

\* The locked field of an account none of whose requests failed is at least its holds.
LEMMA AnsweredHolds ==
    ASSUME IInv, Trading, Holding, HoldsExact, NEW a \in Accounts,
           \A o \in OrdersOn(a) : pc[o] # "failed"
    PROVE  /\ HoldsOn(a) = SumFunctionOnSet([o \in OrdersOn(a) |-> Held(o)], OrdersOn(a))
           /\ cache[a].locked \in Int /\ cache[a].locked >= HoldsOn(a)
<1>1. OrdersOn(a) \cap repeated = {}
  BY DEF Holding
<1>2. QED
  BY <1>1, HoldsSum DEF HoldsExact, HoldsOn, IInv, TypeOK

LEMMA BackedAnswered ==
    ASSUME IInv, Trading, Holding, Funded, HoldsExact
    PROVE  AnsweredFunded
<1> SUFFICES ASSUME NEW a \in Accounts,
                    \A o \in OrdersOn(a) : pc[o] # "failed" /\ ~SentTwice(o)
             PROVE  cache[a].locked >= SumFunction([o \in OrdersOn(a) |-> Needed(o)])
  BY DEF AnsweredFunded
<1>1. PICK S, f, g : /\ S = OrdersOn(a) /\ f = [o \in S |-> Needed(o)]
                     /\ g = [o \in S |-> Held(o)]
  OBVIOUS
<1>2. IsFiniteSet(S) /\ S \subseteq Orders
  BY <1>1, OrdersOnFinite
<1>3. \A o \in S : f[o] \in Int /\ g[o] \in Int /\ f[o] =< g[o]
  <2> SUFFICES ASSUME NEW o \in S
               PROVE  Needed(o) \in Int /\ Held(o) \in Int /\ Needed(o) =< Held(o)
    BY <1>1
  <2>1. /\ Held(o) \in Int /\ Needed(o) \in Nat /\ Surcharged(o) \in Nat
        /\ Held(o) >= Needed(o) + Surcharged(o)
    BY <1>1, <1>2, OrderBacked
  <2>2. QED
    BY <2>1
<1>4. SumFunctionOnSet(f, S) =< SumFunctionOnSet(g, S)
  BY <1>2, <1>3, SumLess
<1>5. SumFunctionOnSet(f, S) \in Int /\ SumFunctionOnSet(g, S) \in Int
  <2>1. (\A o \in S : f[o] \in Int) /\ (\A o \in S : g[o] \in Int)
    BY <1>3
  <2>2. QED
    BY <1>2, <2>1, SumInt
<1>6. cache[a].locked >= SumFunctionOnSet(g, S) /\ cache[a].locked \in Int
  BY <1>1, AnsweredHolds
<1>7. SumFunction([o \in OrdersOn(a) |-> Needed(o)]) = SumFunctionOnSet(f, S)
  BY <1>1 DEF SumFunction
<1>8. QED
  BY <1>4, <1>5, <1>6, <1>7

\* What the proofs know of every reachable state.
Invariant == IInv /\ Trading /\ Holding /\ Funded /\ HoldsExact
LEMMA Invariants == Spec => []Invariant
<1>1. Init => Invariant
  BY InitInv, InitTrading, InitHolding, InitFunded, InitExact DEF Invariant
<1>2. Invariant /\ [Next]_vars => Invariant'
  <2> SUFFICES ASSUME Invariant, [Next]_vars PROVE Invariant'
    OBVIOUS
  <2>1. IInv /\ Trading /\ Holding /\ Funded /\ HoldsExact
    BY DEF Invariant
  <2>2. HoldsExact'
    BY <2>1, StepCases, QuietExact, SettleExact, MovingExact
  <2>3. QED
    BY <2>1, <2>2, NextInv, NextTrading, NextHolding, NextFunded DEF Invariant
<1>3. QED
  BY <1>1, <1>2, PTL DEF Spec

\* HoldsExact of OrderApi: concurrent requests, settlements and rollbacks of one
\* user lose no update of the locked field, for any number of orders and faults.
THEOREM HoldsAreExact == Spec => []HoldsExact
BY Invariants, PTL DEF Invariant

\* AnsweredFunded of OrderApi: whatever the requests of others do, an account none
\* of whose requests failed and none of whose trades were sent twice has locked
\* what its live orders and their unsettled trades need.
THEOREM AnsweredAreFunded == Spec => []AnsweredFunded
<1>1. Invariant => AnsweredFunded
  BY BackedAnswered DEF Invariant
<1>2. QED
  BY <1>1, Invariants, PTL

(***************************************************************************)
(* What all users have together.                                           *)
(***************************************************************************)
Owned(u, asset) ==
    cache[<<u, asset>>].available + cache[<<u, asset>>].locked - Start(asset)
Wealth(asset) == SumFunction([u \in Users |-> Owned(u, asset)])
Surcharges == SumFunction([e \in settled |-> Surcharge(e[1])])
\* Only the surcharges were paid with money that is still locked.
Conserved ==
    Wealth("cash") = Surcharges /\ Wealth("shares") = 0

\* Two amounts change.
LEMMA TwoChange ==
    ASSUME NEW S, IsFiniteSet(S), NEW f, NEW g, \A u \in S : f[u] \in Int,
           NEW x \in S, NEW m \in Int, NEW y \in S, NEW n \in Int,
           \A u \in S : g[u] = f[u] + (IF u = x THEN m ELSE 0) + (IF u = y THEN n ELSE 0)
    PROVE  SumFunctionOnSet(g, S) = SumFunctionOnSet(f, S) + m + n
<1>1. PICK p, q, r : /\ p = [u \in S |-> IF u = x THEN m ELSE 0]
                     /\ q = [u \in S |-> IF u = y THEN n ELSE 0]
                     /\ r = [u \in S |-> f[u] + p[u]]
  OBVIOUS
<1>2. SumFunctionOnSet(p, S) = m
  <2>1. p[x] = m /\ p[x] \in Int /\ \A u \in S \ {x} : p[u] = 0
    BY <1>1
  <2>2. QED
    BY <2>1, SumOne
<1>3. SumFunctionOnSet(q, S) = n
  <2>1. q[y] = n /\ q[y] \in Int /\ \A u \in S \ {y} : q[u] = 0
    BY <1>1
  <2>2. QED
    BY <2>1, SumOne
<1>4. \A u \in S : p[u] \in Int /\ q[u] \in Int /\ g[u] = f[u] + p[u] + q[u]
  BY <1>1
<1>5. \A u \in S : f[u] \in Int /\ p[u] \in Int /\ r[u] = f[u] + p[u]
  BY <1>1, <1>4
<1>6. \A u \in S : r[u] \in Int /\ q[u] \in Int /\ g[u] = r[u] + q[u]
  BY <1>4, <1>5
<1>7. SumFunctionOnSet(r, S) = SumFunctionOnSet(f, S) + SumFunctionOnSet(p, S)
  BY <1>5, SumPlus
<1>8. SumFunctionOnSet(g, S) = SumFunctionOnSet(r, S) + SumFunctionOnSet(q, S)
  BY <1>6, SumPlus
<1>9. QED
  BY <1>2, <1>3, <1>7, <1>8

LEMMA OwnedInt ==
    ASSUME IInv, NEW u \in Users, NEW asset \in {"cash", "shares"}
    PROVE  /\ Owned(u, asset) \in Int /\ Start(asset) \in Nat
           /\ cache[<<u, asset>>].available \in Nat /\ cache[<<u, asset>>].locked \in Int
<1>1. <<u, asset>> \in Accounts
  BY DEF Accounts
<1>2. /\ cache[<<u, asset>>].available \in Nat /\ cache[<<u, asset>>].locked \in Int
      /\ Start(asset) \in Nat
  BY <1>1, NumbersAssumption DEF Start, IInv, TypeOK
<1>3. QED
  BY <1>2 DEF Owned

\* Holding and giving back moves nothing between users.
LEMMA MovingConserved ==
    ASSUME IInv, Conserved, Moving \/ UNCHANGED <<cache, settled>>
    PROVE  Conserved'
<1>1. settled' = settled
  BY DEF Moving
<1>2. Surcharges' = Surcharges
  BY <1>1 DEF Surcharges, Surcharge
<1>3. ASSUME NEW u \in Users, NEW asset \in {"cash", "shares"}
      PROVE  Owned(u, asset)' = Owned(u, asset)
  <2>1. <<u, asset>> \in Accounts
    BY DEF Accounts
  <2>2. PICK a \in Accounts : a = <<u, asset>>
    BY <2>1
  <2>3. cache[a].available \in Int /\ cache[a].locked \in Int
    BY DEF IInv, TypeOK
  <2>4. /\ cache'[a].available \in Int /\ cache'[a].locked \in Int
        /\ cache'[a].available + cache'[a].locked = cache[a].available + cache[a].locked
    <3>1. CASE Moving
      <4>1. PICK o \in Orders, n \in Int : Moved(Account(o), n)
        BY <3>1 DEF Moving
      <4>2. /\ a = Account(o) => /\ cache'[a].locked = cache[a].locked + n
                                 /\ cache'[a].available = cache[a].available - n
            /\ a # Account(o) => cache'[a] = cache[a]
        BY <4>1, MovedCache
      <4>3. QED
        BY <2>3, <4>2
    <3>2. CASE cache' = cache
      BY <2>3, <3>2
    <3>3. QED
      BY <3>1, <3>2
  <2>5. Owned(u, asset) = cache[a].available + cache[a].locked - Start(asset)
    BY <2>2, Zenon DEF Owned
  <2>6. Owned(u, asset)' = cache'[a].available + cache'[a].locked - Start(asset)
    BY <2>2, Zenon DEF Owned, Start
  <2>7. Start(asset) \in Int
    BY NumbersAssumption DEF Start
  <2>8. QED
    BY <2>3, <2>4, <2>5, <2>6, <2>7
<1>4. ASSUME NEW asset \in {"cash", "shares"} PROVE Wealth(asset)' = Wealth(asset)
  <2>1. PICK f, g : /\ f = [u \in Users |-> Owned(u, asset)]
                    /\ g = [u \in Users |-> Owned(u, asset)']
    OBVIOUS
  <2>2. \A u \in Users : f[u] = g[u]
    BY <1>3, <2>1
  <2>3. SumFunctionOnSet(f, Users) = SumFunctionOnSet(g, Users)
    BY <2>2, FiniteAssumption, SumSame
  <2>4. Wealth(asset) = SumFunctionOnSet(f, Users)
    BY <2>1 DEF Wealth, SumFunction
  <2>5. Wealth(asset)' = SumFunctionOnSet(g, Users)
    BY <2>1 DEF Wealth, SumFunction, Owned, Start
  <2>6. QED
    BY <2>3, <2>4, <2>5
<1>5. QED
  BY <1>2, <1>4 DEF Conserved

\* What the settlement of a trade brings to a user's account.
LEMMA SettleOwned ==
    ASSUME IInv, NEW e \in stream, Settle(e), NEW t \in Trade, t = e[1], NEW u \in Users
    PROVE  /\ Owned(u, "cash")' = Owned(u, "cash")
                + (IF u = t.sell.user THEN t.paid ELSE 0)
                + (IF u = t.buy.user THEN Surcharge(t) - t.paid ELSE 0)
           /\ Owned(u, "shares")' = Owned(u, "shares")
                + (IF u = t.sell.user THEN -t.quantity ELSE 0)
                + (IF u = t.buy.user THEN t.quantity ELSE 0)
<1>1. t.paid \in Nat /\ t.unlocked \in Nat /\ t.quantity \in Nat
  BY DEF Trade
<1>2. <<u, "cash">> \in Accounts /\ <<u, "shares">> \in Accounts
  BY DEF Accounts
<1>3. /\ cache[<<u, "cash">>].available \in Int /\ cache[<<u, "cash">>].locked \in Int
      /\ cache[<<u, "shares">>].available \in Int /\ cache[<<u, "shares">>].locked \in Int
      /\ Start("cash") \in Int /\ Start("shares") \in Int
  BY <1>2, NumbersAssumption DEF Start, IInv, TypeOK
<1>4. PICK saved \in Nat : saved = IF t.unlocked > t.paid THEN t.unlocked - t.paid ELSE 0
  BY <1>1
<1>5. /\ cache'[<<u, "cash">>].available = cache[<<u, "cash">>].available
            + (IF u = t.sell.user THEN t.paid ELSE 0) + (IF u = t.buy.user THEN saved ELSE 0)
      /\ cache'[<<u, "cash">>].locked = cache[<<u, "cash">>].locked
            - (IF u = t.buy.user THEN t.unlocked ELSE 0)
  <2>1. PICK a \in Accounts : a = <<u, "cash">>
    BY <1>2
  <2>2. /\ a = <<t.sell.user, "cash">> <=> u = t.sell.user
        /\ a = <<t.buy.user, "cash">> <=> u = t.buy.user
        /\ a # <<t.buy.user, "shares">> /\ a # <<t.sell.user, "shares">>
    BY <2>1
  <2>3. /\ cache'[a].available = cache[a].available
              + (IF a = <<t.sell.user, "cash">> THEN t.paid ELSE 0)
              + (IF a = <<t.buy.user, "shares">> THEN t.quantity ELSE 0)
              + (IF a = <<t.buy.user, "cash">> THEN saved ELSE 0)
        /\ cache'[a].locked = cache[a].locked
              - (IF a = <<t.sell.user, "shares">> THEN t.quantity ELSE 0)
              - (IF a = <<t.buy.user, "cash">> THEN t.unlocked ELSE 0)
    BY <1>4 DEF Settle, Balance
  <2>4. QED
    BY <1>1, <1>3, <2>1, <2>2, <2>3
<1>6. /\ cache'[<<u, "shares">>].available = cache[<<u, "shares">>].available
            + (IF u = t.buy.user THEN t.quantity ELSE 0)
      /\ cache'[<<u, "shares">>].locked = cache[<<u, "shares">>].locked
            - (IF u = t.sell.user THEN t.quantity ELSE 0)
  <2>1. PICK a \in Accounts : a = <<u, "shares">>
    BY <1>2
  <2>2. /\ a = <<t.sell.user, "shares">> <=> u = t.sell.user
        /\ a = <<t.buy.user, "shares">> <=> u = t.buy.user
        /\ a # <<t.buy.user, "cash">> /\ a # <<t.sell.user, "cash">>
    BY <2>1
  <2>3. /\ cache'[a].available = cache[a].available
              + (IF a = <<t.sell.user, "cash">> THEN t.paid ELSE 0)
              + (IF a = <<t.buy.user, "shares">> THEN t.quantity ELSE 0)
              + (IF a = <<t.buy.user, "cash">> THEN saved ELSE 0)
        /\ cache'[a].locked = cache[a].locked
              - (IF a = <<t.sell.user, "shares">> THEN t.quantity ELSE 0)
              - (IF a = <<t.buy.user, "cash">> THEN t.unlocked ELSE 0)
    BY <1>4 DEF Settle, Balance
  <2>4. QED
    BY <1>1, <1>3, <2>1, <2>2, <2>3
<1>7. saved - t.unlocked = Surcharge(t) - t.paid /\ Surcharge(t) \in Int
  BY <1>1, <1>4 DEF Surcharge
<1>8. /\ Owned(u, "cash")
           = cache[<<u, "cash">>].available + cache[<<u, "cash">>].locked - Start("cash")
      /\ Owned(u, "cash")'
           = cache'[<<u, "cash">>].available + cache'[<<u, "cash">>].locked - Start("cash")
      /\ Owned(u, "shares")
           = cache[<<u, "shares">>].available + cache[<<u, "shares">>].locked - Start("shares")
      /\ Owned(u, "shares")'
           = cache'[<<u, "shares">>].available + cache'[<<u, "shares">>].locked - Start("shares")
  BY DEF Owned, Start
<1>9. QED
  BY <1>1, <1>3, <1>5, <1>6, <1>7, <1>8

\* A settlement gives the buyer's money to the seller and the seller's shares to
\* the buyer, whoever they are.
LEMMA SettleConserved ==
    ASSUME IInv, Trading, Conserved, NEW e \in stream, Settle(e)
    PROVE  Conserved'
<1>1. PICK t \in Trade : t = e[1]
  BY EntryTrade
<1>2. /\ t.buy.user \in Users /\ t.sell.user \in Users
      /\ t.paid \in Int /\ t.quantity \in Int /\ -t.quantity \in Int
      /\ Surcharge(t) \in Nat /\ Surcharge(t) - t.paid \in Int
  BY ClaimNat, OrdersAssumption DEF Trade
<1>3. e \notin settled /\ settled' = settled \cup {e}
  BY DEF Settle
<1>4. Surcharges' = Surcharges + Surcharge(t) /\ Surcharges \in Int
  <2>1. PICK S, f, g : /\ S = settled /\ f = [d \in S |-> Surcharge(d[1])]
                       /\ g = [d \in S \cup {e} |-> Surcharge(d[1])]
    OBVIOUS
  <2>2. IsFiniteSet(S) /\ e \notin S
    BY <1>3, <2>1, FS_Subset DEF Trading, Finite, IInv, TypeOK
  <2>3. (\A d \in S : g[d] \in Int) /\ g[e] \in Int /\ g[e] = Surcharge(t)
    <3>1. \A d \in S : d[1] \in Trade
      BY <2>1 DEF IInv, TypeOK
    <3>2. \A d \in S : Surcharge(d[1]) \in Nat
      BY <3>1, ClaimNat
    <3>3. QED
      BY <1>1, <1>2, <2>1, <3>2
  <2>4. SumFunctionOnSet(g, S \cup {e}) = SumFunctionOnSet(g, S) + g[e]
    BY <2>2, <2>3, SumAdd
  <2>5. SumFunctionOnSet(f, S) = SumFunctionOnSet(g, S)
    <3>1. \A d \in S : f[d] = g[d]
      BY <2>1
    <3>2. QED
      BY <2>2, <3>1, SumSame
  <2>6. Surcharges = SumFunctionOnSet(f, S)
    BY <2>1 DEF Surcharges, SumFunction
  <2>7. Surcharges' = SumFunctionOnSet(g, S \cup {e})
    BY <1>3, <2>1 DEF Surcharges, SumFunction, Surcharge
  <2>8. SumFunctionOnSet(g, S) \in Int
    BY <2>2, <2>3, SumInt
  <2>9. QED
    BY <2>3, <2>4, <2>5, <2>6, <2>7, <2>8
<1>5. ASSUME NEW asset \in {"cash", "shares"}, NEW m \in Int, NEW n \in Int,
             \A u \in Users : Owned(u, asset)' = Owned(u, asset)
                 + (IF u = t.sell.user THEN m ELSE 0) + (IF u = t.buy.user THEN n ELSE 0)
      PROVE  Wealth(asset)' = Wealth(asset) + m + n
  <2>1. PICK S, f, g, x, y : /\ S = Users /\ x = t.sell.user /\ y = t.buy.user
                             /\ f = [u \in S |-> Owned(u, asset)]
                             /\ g = [u \in S |-> Owned(u, asset)']
    OBVIOUS
  <2>2. IsFiniteSet(S) /\ x \in S /\ y \in S
    BY <1>2, <2>1, FiniteAssumption
  <2>3. \A u \in S : f[u] \in Int
    BY <2>1, OwnedInt
  <2>4. \A u \in S : g[u] = f[u] + (IF u = x THEN m ELSE 0) + (IF u = y THEN n ELSE 0)
    BY <1>5, <2>1
  <2>5. SumFunctionOnSet(g, S) = SumFunctionOnSet(f, S) + m + n
    BY <2>2, <2>3, <2>4, TwoChange
  <2>6. Wealth(asset) = SumFunctionOnSet(f, S)
    BY <2>1 DEF Wealth, SumFunction
  <2>7. Wealth(asset)' = SumFunctionOnSet(g, S)
    BY <2>1 DEF Wealth, SumFunction, Owned, Start
  <2>8. QED
    BY <2>5, <2>6, <2>7
<1>6. Wealth("cash")' = Wealth("cash") + t.paid + (Surcharge(t) - t.paid)
  <2>1. \A u \in Users : Owned(u, "cash")' = Owned(u, "cash")
           + (IF u = t.sell.user THEN t.paid ELSE 0)
           + (IF u = t.buy.user THEN Surcharge(t) - t.paid ELSE 0)
    BY <1>1, SettleOwned
  <2>2. PICK m, n : m = t.paid /\ n = Surcharge(t) - t.paid
    OBVIOUS
  <2>3. \A u \in Users : Owned(u, "cash")' = Owned(u, "cash")
           + (IF u = t.sell.user THEN m ELSE 0) + (IF u = t.buy.user THEN n ELSE 0)
    BY <2>1, <2>2
  <2>4. "cash" \in {"cash", "shares"} /\ m \in Int /\ n \in Int
    BY <1>2, <2>2
  <2>5. Wealth("cash")' = Wealth("cash") + m + n
    BY <1>2, <1>5, <2>3, <2>4
  <2>6. QED
    BY <2>2, <2>5
<1>7. Wealth("shares")' = Wealth("shares") + (-t.quantity) + t.quantity
  <2>1. \A u \in Users : Owned(u, "shares")' = Owned(u, "shares")
           + (IF u = t.sell.user THEN -t.quantity ELSE 0)
           + (IF u = t.buy.user THEN t.quantity ELSE 0)
    BY <1>1, SettleOwned
  <2>2. PICK m, n : m = -t.quantity /\ n = t.quantity
    OBVIOUS
  <2>3. \A u \in Users : Owned(u, "shares")' = Owned(u, "shares")
           + (IF u = t.sell.user THEN m ELSE 0) + (IF u = t.buy.user THEN n ELSE 0)
    BY <2>1, <2>2
  <2>4. "shares" \in {"cash", "shares"} /\ m \in Int /\ n \in Int
    BY <1>2, <2>2
  <2>5. Wealth("shares")' = Wealth("shares") + m + n
    BY <1>2, <1>5, <2>3, <2>4
  <2>6. QED
    BY <2>2, <2>5
<1>8. QED
  BY <1>2, <1>4, <1>6, <1>7 DEF Conserved

LEMMA InitConserved == Init => Conserved
<1> SUFFICES ASSUME Init PROVE Conserved
  OBVIOUS
<1>1. ASSUME NEW asset \in {"cash", "shares"} PROVE Wealth(asset) = 0
  <2>1. PICK S, f : S = Users /\ f = [u \in S |-> Owned(u, asset)]
    OBVIOUS
  <2>2. \A u \in S : f[u] = 0
    <3> SUFFICES ASSUME NEW u \in Users PROVE Owned(u, asset) = 0
      BY <2>1
    <3>1. /\ cache[<<u, asset>>].available = Start(asset) /\ cache[<<u, asset>>].locked = 0
      BY DEF Init, Balance, Accounts
    <3>2. Start(asset) \in Nat
      BY NumbersAssumption DEF Start
    <3>3. QED
      BY <3>1, <3>2 DEF Owned
  <2>3. SumFunctionOnSet(f, S) = 0
    BY <2>1, <2>2, FiniteAssumption, SumZero
  <2>4. QED
    BY <2>1, <2>3 DEF Wealth, SumFunction
<1>2. Surcharges = 0
  BY SumOfNone DEF Surcharges, Init
<1>3. QED
  BY <1>1, <1>2 DEF Conserved

LEMMA Conservation == Spec => []Conserved
<1>1. Init => Invariant /\ Conserved
  BY InitInv, InitTrading, InitHolding, InitFunded, InitExact, InitConserved DEF Invariant
<1>2. Invariant /\ Conserved /\ [Next]_vars => Conserved'
  BY StepCases, MovingConserved, SettleConserved DEF Invariant
<1>3. Spec => []Invariant
  BY Invariants
<1>4. QED
  BY <1>1, <1>2, <1>3, PTL DEF Spec

\* The surcharges of all buys are those of the settled trades.
LEMMA SurchargesOfBuys ==
    ASSUME IInv, Trading
    PROVE  /\ IsFiniteSet({o \in Orders : o.side = "buy"})
           /\ \A o : Surcharged(o) \in Nat
           /\ SumFunctionOnSet([o \in {p \in Orders : p.side = "buy"} |-> Surcharged(o)],
                               {o \in Orders : o.side = "buy"}) = Surcharges
<1>1. PICK E, B, k, f, g : /\ E = settled /\ B = {o \in Orders : o.side = "buy"}
                        /\ k = [e \in E |-> e[1].buy]
                        /\ f = [e \in E |-> Surcharge(e[1])]
                        /\ g = [o \in B |-> Surcharged(o)]
  OBVIOUS
<1>2. IsFiniteSet(E) /\ IsFiniteSet(B)
  <2>1. B \in SUBSET Orders
    BY <1>1
  <2>2. QED
    BY <1>1, <2>1, FiniteAssumption, FS_Subset DEF Trading, Finite, IInv, TypeOK
<1>3. \A e \in E : k[e] \in B /\ f[e] \in Nat
  <2> SUFFICES ASSUME NEW e \in E PROVE e[1].buy \in B /\ Surcharge(e[1]) \in Nat
    BY <1>1
  <2>1. e[1] \in Trade /\ e[1].buy.side = "buy"
    BY <1>1, EntryTrade DEF IInv, TypeOK
  <2>2. QED
    BY <1>1, <2>1, ClaimNat DEF Trade
<1>4. ASSUME NEW o
      PROVE  /\ Surcharged(o) \in Nat
             /\ Surcharged(o) = SumFunctionOnSet(f, {e \in E : k[e] = o})
  <2>1. PICK T, h : /\ T = {e \in E : k[e] = o}
                    /\ h = [e \in E |-> IF o = e[1].buy THEN Surcharge(e[1]) ELSE 0]
    OBVIOUS
  <2>2. Surcharged(o) = SumFunctionOnSet(h, E)
    BY <1>1, <2>1 DEF Surcharged, SumFunction
  <2>3. T \in SUBSET E
    BY <2>1
  <2>4. \A e \in T : h[e] = f[e]
    BY <1>1, <2>1
  <2>5. \A e \in E \ T : h[e] = 0
    BY <1>1, <2>1
  <2>6. \A e \in T : h[e] \in Int
    BY <1>3, <2>3, <2>4
  <2>7. SumFunctionOnSet(h, E) = SumFunctionOnSet(h, T)
    BY <1>2, <2>3, <2>5, <2>6, SumSupport
  <2>8. SumFunctionOnSet(h, T) = SumFunctionOnSet(f, T)
    BY <1>2, <2>3, <2>4, FS_Subset, SumSame
  <2>9. SumFunctionOnSet(h, E) \in Nat
    <3>1. \A e \in E : h[e] \in Nat
      BY <1>1, <1>3, <2>1
    <3>2. QED
      BY <1>2, <3>1, SumNat
  <2>10. QED
    BY <2>1, <2>2, <2>7, <2>8, <2>9
<1>5. SumFunctionOnSet([o \in B |-> SumFunctionOnSet(f, {e \in E : k[e] = o})], B)
        = SumFunctionOnSet(f, E)
  <2>1. (\A e \in E : k[e] \in B) /\ (\A e \in E : f[e] \in Int)
    BY <1>3
  <2>2. QED
    BY <1>2, <2>1, SumGroups
<1>6. [o \in B |-> SumFunctionOnSet(f, {e \in E : k[e] = o})] = g
  BY <1>1, <1>4, Zenon
<1>7. Surcharges = SumFunctionOnSet(f, E)
  BY <1>1 DEF Surcharges, SumFunction
<1>8. SumFunctionOnSet(g, B) = Surcharges
  BY <1>5, <1>6, <1>7, Zenon
<1>9. QED
  BY <1>1, <1>2, <1>4, <1>8

\* What the orders on an account hold has paid for their surcharges.
LEMMA LockedCovers ==
    ASSUME Invariant, NEW a \in Accounts, \A o \in OrdersOn(a) : pc[o] # "failed" /\ ~SentTwice(o)
    PROVE  LET n == SumFunctionOnSet([o \in OrdersOn(a) |-> Surcharged(o)], OrdersOn(a))
           IN n \in Nat /\ cache[a].locked \in Int /\ cache[a].locked >= n
<1>1. PICK S, f, g : /\ S = OrdersOn(a) /\ f = [o \in S |-> Surcharged(o)]
                     /\ g = [o \in S |-> Held(o)]
  OBVIOUS
<1>2. IsFiniteSet(S) /\ S \subseteq Orders
  BY <1>1, OrdersOnFinite
<1>3. \A o \in S : f[o] \in Nat /\ g[o] \in Int /\ f[o] =< g[o]
  <2> SUFFICES ASSUME NEW o \in S
               PROVE  Surcharged(o) \in Nat /\ Held(o) \in Int /\ Surcharged(o) =< Held(o)
    BY <1>1
  <2>1. /\ Held(o) \in Int /\ Needed(o) \in Nat /\ Surcharged(o) \in Nat
        /\ Held(o) >= Needed(o) + Surcharged(o)
    BY <1>1, <1>2, OrderBacked DEF Invariant
  <2>2. QED
    BY <2>1
<1>4. SumFunctionOnSet(f, S) =< SumFunctionOnSet(g, S)
  <2>1. \A o \in S : f[o] \in Int /\ g[o] \in Int /\ f[o] =< g[o]
    BY <1>3
  <2>2. QED
    BY <1>2, <2>1, SumLess
<1>5. SumFunctionOnSet(f, S) \in Nat /\ SumFunctionOnSet(g, S) \in Int
  <2>1. (\A o \in S : f[o] \in Nat) /\ (\A o \in S : g[o] \in Int)
    BY <1>3
  <2>2. QED
    BY <1>2, <2>1, SumNat, SumInt
<1>6. cache[a].locked >= SumFunctionOnSet(g, S) /\ cache[a].locked \in Int
  BY <1>1, AnsweredHolds DEF Invariant
<1>7. QED
  BY <1>1, <1>4, <1>5, <1>6

\* So together they hold the surcharges, all of them buyers' cash.
LEMMA HoldsSurcharges ==
    ASSUME Invariant, \A o \in Orders : pc[o] # "failed" /\ ~SentTwice(o),
           NEW asset \in {"cash", "shares"}
    PROVE  LET n == SumFunctionOnSet([u \in Users |-> cache[<<u, asset>>].locked], Users)
           IN n \in Int /\ n >= IF asset = "cash" THEN Surcharges ELSE 0
<1>1. PICK U, f, c : /\ U = Users /\ f = [u \in U |-> cache[<<u, asset>>].locked]
                     /\ c = [u \in U |-> SumFunctionOnSet(
                               [o \in OrdersOn(<<u, asset>>) |-> Surcharged(o)],
                               OrdersOn(<<u, asset>>))]
  OBVIOUS
<1>2. IsFiniteSet(U)
  BY <1>1, FiniteAssumption
<1>3. \A u \in U : c[u] \in Nat /\ f[u] \in Int /\ c[u] =< f[u]
  <2> SUFFICES ASSUME NEW u \in U PROVE c[u] \in Nat /\ f[u] \in Int /\ c[u] =< f[u]
    OBVIOUS
  <2>1. PICK a \in Accounts : a = <<u, asset>>
    BY <1>1 DEF Accounts
  <2>2. \A o \in OrdersOn(a) : o \in Orders
    BY DEF OrdersOn
  <2>3. \A o \in OrdersOn(a) : pc[o] # "failed" /\ ~SentTwice(o)
    BY <2>2
  <2>4. PICK n : n = SumFunctionOnSet([o \in OrdersOn(a) |-> Surcharged(o)], OrdersOn(a))
    OBVIOUS
  <2>5. n \in Nat /\ cache[a].locked \in Int /\ cache[a].locked >= n
    BY <2>3, <2>4, LockedCovers
  <2>6. c[u] = n /\ f[u] = cache[a].locked
    BY <1>1, <2>1, <2>4
  <2>7. QED
    BY <2>5, <2>6
<1>4. SumFunctionOnSet(c, U) =< SumFunctionOnSet(f, U)
  <2>1. \A u \in U : c[u] \in Int /\ f[u] \in Int /\ c[u] =< f[u]
    BY <1>3
  <2>2. QED
    BY <1>2, <2>1, SumLess
<1>5. SumFunctionOnSet(c, U) \in Nat /\ SumFunctionOnSet(f, U) \in Int
  <2>1. (\A u \in U : c[u] \in Nat) /\ (\A u \in U : f[u] \in Int)
    BY <1>3
  <2>2. QED
    BY <1>2, <2>1, SumNat, SumInt
<1>6. ASSUME asset = "cash" PROVE SumFunctionOnSet(c, U) = Surcharges
  <2>1. PICK B, k, g : /\ B = {o \in Orders : o.side = "buy"}
                       /\ k = [o \in B |-> o.user] /\ g = [o \in B |-> Surcharged(o)]
    OBVIOUS
  <2>2. /\ IsFiniteSet(B) /\ \A o \in B : g[o] \in Int
        /\ SumFunctionOnSet(g, B) = Surcharges
    BY <2>1, SurchargesOfBuys DEF Invariant
  <2>3. \A o \in B : k[o] \in U
    BY <1>1, <2>1, OrdersAssumption
  <2>4. SumFunctionOnSet([u \in U |-> SumFunctionOnSet(g, {o \in B : k[o] = u})], U)
          = SumFunctionOnSet(g, B)
    BY <1>2, <2>2, <2>3, SumGroups
  <2>5. \A u \in U : c[u] = SumFunctionOnSet(g, {o \in B : k[o] = u})
    <3> SUFFICES ASSUME NEW u \in U PROVE c[u] = SumFunctionOnSet(g, {o \in B : k[o] = u})
      OBVIOUS
    <3>1. PICK T, h : T = OrdersOn(<<u, asset>>) /\ h = [o \in T |-> Surcharged(o)]
      OBVIOUS
    <3>2. T = {o \in B : k[o] = u}
      BY <1>6, <2>1, <3>1 DEF OrdersOn, Account
    <3>3. \A o \in T : h[o] = g[o]
      BY <2>1, <3>1, <3>2
    <3>4. IsFiniteSet(T)
      BY <3>1, OrdersOnFinite
    <3>5. SumFunctionOnSet(h, T) = SumFunctionOnSet(g, T)
      BY <3>3, <3>4, SumSame
    <3>6. c[u] = SumFunctionOnSet(h, T)
      BY <1>1, <3>1
    <3>7. QED
      BY <3>2, <3>5, <3>6
  <2>6. PICK d : d = [u \in U |-> SumFunctionOnSet(g, {o \in B : k[o] = u})]
    OBVIOUS
  <2>7. \A u \in U : c[u] = d[u]
    BY <2>5, <2>6
  <2>8. SumFunctionOnSet(c, U) = SumFunctionOnSet(d, U)
    BY <1>2, <2>7, SumSame
  <2>9. QED
    BY <2>2, <2>4, <2>6, <2>8
<1>7. QED
  BY <1>1, <1>4, <1>5, <1>6

LEMMA ConservedNothingCreated ==
    ASSUME Invariant, Conserved
    PROVE  NothingCreated
<1> SUFFICES ASSUME \A o \in Orders : pc[o] # "failed" /\ ~SentTwice(o),
                    NEW asset \in {"cash", "shares"}
             PROVE  SumFunction([u \in Users |->
                        cache[<<u, asset>>].available - Start(asset)]) =< 0
  BY DEF NothingCreated
<1>1. PICK U, f, g, h : /\ U = Users /\ h = [u \in U |-> Owned(u, asset)]
                        /\ f = [u \in U |-> cache[<<u, asset>>].available - Start(asset)]
                        /\ g = [u \in U |-> cache[<<u, asset>>].locked]
  OBVIOUS
<1>2. IsFiniteSet(U)
  BY <1>1, FiniteAssumption
<1>3. \A u \in U : f[u] \in Int /\ g[u] \in Int /\ h[u] = f[u] + g[u]
  <2> SUFFICES ASSUME NEW u \in Users
               PROVE  /\ cache[<<u, asset>>].available - Start(asset) \in Int
                      /\ cache[<<u, asset>>].locked \in Int
                      /\ Owned(u, asset) = (cache[<<u, asset>>].available - Start(asset))
                                              + cache[<<u, asset>>].locked
    BY <1>1
  <2>1. /\ cache[<<u, asset>>].available \in Nat /\ cache[<<u, asset>>].locked \in Int
        /\ Start(asset) \in Nat
    BY OwnedInt DEF Invariant
  <2>2. QED
    BY <2>1 DEF Owned
<1>4. SumFunctionOnSet(h, U) = SumFunctionOnSet(f, U) + SumFunctionOnSet(g, U)
  BY <1>2, <1>3, SumPlus
<1>5. SumFunctionOnSet(f, U) \in Int
  <2>1. \A u \in U : f[u] \in Int
    BY <1>3
  <2>2. QED
    BY <1>2, <2>1, SumInt
<1>6. /\ SumFunctionOnSet(g, U) \in Int
      /\ SumFunctionOnSet(g, U) >= IF asset = "cash" THEN Surcharges ELSE 0
  BY <1>1, HoldsSurcharges
<1>7. SumFunctionOnSet(h, U) = IF asset = "cash" THEN Surcharges ELSE 0
  <2>1. Wealth(asset) = SumFunctionOnSet(h, U)
    BY <1>1 DEF Wealth, SumFunction
  <2>2. QED
    BY <2>1 DEF Conserved
<1>8. Surcharges \in Int
  <2>1. PICK E, p : E = settled /\ p = [e \in E |-> Surcharge(e[1])]
    OBVIOUS
  <2>2. IsFiniteSet(E)
    BY <2>1, FS_Subset DEF Invariant, Trading, Finite, IInv, TypeOK
  <2>3. \A e \in E : p[e] \in Int
    <3>1. \A e \in E : e[1] \in Trade
      BY <2>1 DEF Invariant, IInv, TypeOK
    <3>2. QED
      BY <2>1, <3>1, ClaimNat
  <2>4. Surcharges = SumFunctionOnSet(p, E)
    BY <2>1 DEF Surcharges, SumFunction
  <2>5. QED
    BY <2>2, <2>3, <2>4, SumInt
<1>9. SumFunctionOnSet(f, U) =< 0
  BY <1>4, <1>5, <1>6, <1>7, <1>8
<1>10. QED
  BY <1>1, <1>9 DEF SumFunction

\* NothingCreated of OrderApi: while no request failed and no trade was sent twice,
\* the users together can never spend more than they brought, however stale the
\* quotes were that market orders computed their holds from.
THEOREM NothingIsCreated == Spec => []NothingCreated
<1>1. Invariant /\ Conserved => NothingCreated
  BY ConservedNothingCreated
<1>2. QED
  BY <1>1, Invariants, Conservation, PTL
=================================================================================
