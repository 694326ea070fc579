--------------------------- MODULE TradeDaemonProofs ---------------------------
(***************************************************************************)
(* Theorems about the settlement of trades, for every set of users, trades *)
(* and daemons, every cap of the stream and any number of faults.          *)
(***************************************************************************)
EXTENDS TradeDaemon, SumProofs, SequenceTheorems, TLAPS

\* The fields of a trade.
LEMMA TradeFields ==
    ASSUME NEW t \in Trades
    PROVE  /\ t.buyer \in Users /\ t.seller \in Users /\ t.quantity \in Nat
           /\ t.settled \in Nat /\ t.locked \in Nat /\ t.held \in Nat
BY TradesAssumption

\* The message a busy daemon has in hand is a trade.
LEMMA CurrentIsTrade ==
    ASSUME DaemonTypes, NEW d \in Daemons, pc[d] \in Busy
    PROVE  /\ batch[d] \in Seq(Trades) /\ batch[d] # <<>>
           /\ Current(d) \in Trades /\ Tail(batch[d]) \in Seq(Trades)
<1>1. batch[d] \in Seq(Trades) /\ batch[d] # <<>>
  BY DEF DaemonTypes
<1>2. QED
  BY <1>1, HeadTailProperties DEF Current

\* The head and the tail of a sequence that is not empty.
LEMMA NonEmpty ==
    ASSUME NEW S, NEW s \in Seq(S)
    PROVE  s # <<>> <=> Len(s) > 0
OBVIOUS

\* XREADGROUP returns messages of the stream.
LEMMA UnreadType ==
    ASSUME RedisTypes
    PROVE  /\ Unread \in Seq(Trades)
           /\ ToSet(Unread) \subseteq Trades
<1> DEFINE first == 1 + IF delivered > trimmed THEN delivered ELSE trimmed
<1>1. stream \in Seq(Trades) /\ first \in Nat \ {0} /\ Len(stream) \in Nat
  BY DEF RedisTypes
<1>2. \A i \in first .. Len(stream) : stream[i] \in Trades
  BY <1>1
<1>3. SubSeq(stream, first, Len(stream)) \in Seq(Trades)
  BY <1>1, <1>2, SubSeqProperties
<1>4. Unread \in Seq(Trades)
  BY <1>3 DEF Unread
<1>5. \A i \in DOMAIN Unread : Unread[i] \in Trades
  BY <1>4
<1>6. QED
  BY <1>4, <1>5 DEF ToSet

\* Going on with the batch keeps places and batches in step ...
LEMMA NextMessageTypes ==
    ASSUME DaemonTypes, NEW d \in Daemons, pc[d] \in Busy, NextMessage(d)
    PROVE  DaemonTypes'
<1>1. batch[d] \in Seq(Trades) /\ batch[d] # <<>> /\ Tail(batch[d]) \in Seq(Trades)
      /\ Len(Tail(batch[d])) = Len(batch[d]) - 1 /\ Len(batch[d]) \in Nat
  BY CurrentIsTrade, HeadTailProperties
<1>2. /\ batch' \in [Daemons -> Seq(Trades)]
      /\ batch'[d] = Tail(batch[d]) /\ \A e \in Daemons \ {d} : batch'[e] = batch[e]
  BY <1>1 DEF NextMessage, DaemonTypes
<1>3. Tail(batch[d]) # <<>> <=> Len(batch[d]) > 1
  <2>1. Tail(batch[d]) # <<>> <=> Len(Tail(batch[d])) > 0
    BY <1>1, NonEmpty
  <2>2. QED
    BY <1>1, <2>1
<1>4. /\ pc' \in [Daemons -> Busy \cup {"down", "read"}]
      /\ pc'[d] = (IF Len(batch[d]) > 1 THEN "check" ELSE "read")
      /\ \A e \in Daemons \ {d} : pc'[e] = pc[e]
  BY DEF NextMessage, DaemonTypes, Busy
<1>5. /\ todo' \in [Daemons -> Seq(Increment)]
      /\ todo'[d] = <<>> /\ \A e \in Daemons \ {d} : todo'[e] = todo[e]
  BY DEF NextMessage, DaemonTypes
<1>6. seen' \in [Daemons -> [buyer : Int, seller : Int]]
  BY DEF NextMessage, DaemonTypes, NoneSeen
<1>7. \A e \in Daemons : pc'[e] \in Busy <=> batch'[e] # <<>>
  BY <1>2, <1>3, <1>4 DEF DaemonTypes, Busy
<1>8. \A e \in Daemons : pc'[e] = "cache" <=> todo'[e] # <<>>
  BY <1>4, <1>5 DEF DaemonTypes
<1>9. QED
  BY <1>2, <1>4, <1>5, <1>6, <1>7, <1>8 DEF DaemonTypes

\* ... so does leaving it ...
LEMMA DropBatchTypes ==
    ASSUME DaemonTypes, NEW d \in Daemons, NEW next \in {"read", "down"},
           DropBatch(d, next)
    PROVE  DaemonTypes'
<1>1. /\ batch' \in [Daemons -> Seq(Trades)]
      /\ batch'[d] = <<>> /\ \A e \in Daemons \ {d} : batch'[e] = batch[e]
  BY DEF DropBatch, DaemonTypes
<1>2. /\ todo' \in [Daemons -> Seq(Increment)]
      /\ todo'[d] = <<>> /\ \A e \in Daemons \ {d} : todo'[e] = todo[e]
  BY DEF DropBatch, DaemonTypes
<1>3. /\ pc' \in [Daemons -> Busy \cup {"down", "read"}]
      /\ pc'[d] = next /\ \A e \in Daemons \ {d} : pc'[e] = pc[e]
  BY DEF DropBatch, DaemonTypes
<1>4. seen' \in [Daemons -> [buyer : Int, seller : Int]]
  BY DEF DropBatch, DaemonTypes, NoneSeen
<1>5. QED
  BY <1>1, <1>2, <1>3, <1>4 DEF DaemonTypes, Busy

\* ... and so does a step inside the message loop.
LEMMA GotoTypes ==
    ASSUME DaemonTypes, NEW d \in Daemons, pc[d] \in Busy \ {"cache"},
           NEW next \in Busy \ {"cache"}, Goto(d, next)
    PROVE  DaemonTypes'
BY DEF Goto, DaemonTypes, Busy

\* Releasing locks keeps their type.
LEMMA UnlockedType ==
    ASSUME DbTypes, NEW d \in Daemons
    PROVE  Unlocked(d) \in [Users -> Daemons \cup {NoDaemon}]
BY DEF DbTypes, Unlocked

\* Posting a trade keeps the types of the rows.
LEMMA PostTradeTypes ==
    ASSUME DaemonTypes, DbTypes, NEW d \in Daemons, NEW t \in Trades, PostTrade(d, t)
    PROVE  DbTypes'
<1>1. seen[d].buyer \in Int /\ seen[d].seller \in Int
  BY DEF DaemonTypes
<1>2. cash' \in [Users -> Int]
  BY <1>1, TradeFields DEF PostTrade, DbTypes
<1>3. shares' \in [Users -> Int]
  BY TradeFields DEF PostTrade, DbTypes
<1>4. QED
  BY <1>2, <1>3, UnlockedType DEF PostTrade, DbTypes

\* settle_cache is a sequence of increments, and not empty.
LEMMA SettleCacheType ==
    ASSUME NEW t \in Trades
    PROVE  SettleCache(t) \in Seq(Increment) /\ SettleCache(t) # <<>>
<1> DEFINE first == <<Incr(t.seller, "heldShares", -t.quantity),
                      Incr(t.seller, "cash", t.settled),
                      Incr(t.buyer, "held", -t.locked),
                      Incr(t.buyer, "shares", t.quantity)>>
           refund == Incr(t.buyer, "cash", t.locked - t.settled)
           last == IF t.locked > t.settled THEN <<refund>> ELSE <<>>
<1>1. /\ Incr(t.seller, "heldShares", -t.quantity) \in Increment
      /\ Incr(t.seller, "cash", t.settled) \in Increment
      /\ Incr(t.buyer, "held", -t.locked) \in Increment
      /\ Incr(t.buyer, "shares", t.quantity) \in Increment
      /\ refund \in Increment
  BY TradeFields DEF Incr, Increment
<1>2. SettleCache(t) = first \o last
  BY DEF SettleCache
<1>3. first \in Seq(Increment) /\ Len(first) = 4
  BY <1>1
<1> HIDE DEF first, refund
<1>4. last \in Seq(Increment) /\ Len(last) \in Nat
  BY <1>1
<1> HIDE DEF last
<1>5. first \o last \in Seq(Increment) /\ Len(first \o last) = Len(first) + Len(last)
  BY <1>3, <1>4, ConcatProperties
<1>6. QED
  BY <1>2, <1>3, <1>4, <1>5, NonEmpty

\* One HINCRBY keeps the cached accounts integers.
LEMMA CacheIncrTypes ==
    ASSUME CacheTypes, NEW i \in Increment,
           cache' = [cache EXCEPT ![i.user][i.field] = @ + i.by]
    PROVE  cache' \in [Users -> Account]
<1>1. i.user \in Users /\ i.field \in {"cash", "held", "shares", "heldShares"}
      /\ i.by \in Int
  BY DEF Increment
<1>2. cache \in [Users -> Account] /\ cache[i.user] \in Account
  BY <1>1 DEF CacheTypes
<1>3. [cache[i.user] EXCEPT ![i.field] = @ + i.by] \in Account
  <2>1. CASE i.field = "cash"
    BY <1>1, <1>2, <2>1 DEF Account
  <2>2. CASE i.field = "held"
    BY <1>1, <1>2, <2>2 DEF Account
  <2>3. CASE i.field = "shares"
    BY <1>1, <1>2, <2>3 DEF Account
  <2>4. CASE i.field = "heldShares"
    BY <1>1, <1>2, <2>4 DEF Account
  <2>5. QED
    BY <1>1, <2>1, <2>2, <2>3, <2>4
<1>4. cache' = [cache EXCEPT ![i.user] = [cache[i.user] EXCEPT ![i.field] = @ + i.by]]
  BY <1>1, <1>2
<1>5. QED
  BY <1>1, <1>2, <1>3, <1>4

\* Two fields of one account are set.
LEMMA TwoFields ==
    ASSUME NEW a \in Account, NEW x \in Int, NEW y \in Int
    PROVE  /\ [a EXCEPT !.cash = x, !.held = y] \in Account
           /\ [a EXCEPT !.shares = x, !.heldShares = y] \in Account
BY DEF Account

\* A hold moves an amount between two fields of one account.
LEMMA MoveTypes ==
    ASSUME NEW a \in Account, NEW n \in Int
    PROVE  /\ [a EXCEPT !.cash = @ - n, !.held = @ + n] \in Account
           /\ [a EXCEPT !.shares = @ - n, !.heldShares = @ + n] \in Account
<1>1. /\ a.cash - n \in Int /\ a.held + n \in Int
      /\ a.shares - n \in Int /\ a.heldShares + n \in Int
  BY DEF Account
<1>2. QED
  BY <1>1, TwoFields

\* Each group of types depends on its own variables alone.
LEMMA RedisFrame == RedisTypes /\ UNCHANGED <<reserved, redisVars>> => RedisTypes'
BY DEF RedisTypes, redisVars
\* The same for what daemons hold ...
LEMMA DaemonFrame == DaemonTypes /\ UNCHANGED daemonVars => DaemonTypes'
BY DEF DaemonTypes, daemonVars
\* ... the rows ...
LEMMA DbFrame == DbTypes /\ UNCHANGED dbVars => DbTypes'
BY DEF DbTypes, dbVars
\* ... and the cache.
LEMMA CacheFrame == CacheTypes /\ UNCHANGED <<cache, login, faults, logins>> => CacheTypes'
BY DEF CacheTypes

\* The same for the snapshot.
LEMMA SavedFrame == SavedTypes /\ UNCHANGED snapshotVars => SavedTypes'
BY DEF SavedTypes, snapshotVars

\* Taking an entry off the pending list, or not touching Redis but for it.
LEMMA AckTypes ==
    ASSUME RedisTypes, UNCHANGED <<reserved, stream, trimmed, group, delivered>>,
           pel' \subseteq pel
    PROVE  RedisTypes'
BY DEF RedisTypes

\* The initial states have the types.
LEMMA InitTypes == Init => TypeOK
<1> SUFFICES ASSUME Init PROVE TypeOK
  OBVIOUS
<1>1. RedisTypes
  <2>1. stream \in Seq(Trades) /\ 0 \in 0 .. Len(stream)
    <3>1. stream = <<>>
      BY DEF Init
    <3>2. QED
      BY <3>1
  <2>2. reserved \in [Trades -> SUBSET {"buy", "sell"}]
    BY DEF Init
  <2>3. QED
    BY <2>1, <2>2 DEF Init, RedisTypes
<1>2. DaemonTypes
  BY DEF Init, DaemonTypes, Busy, NoneSeen
<1>3. DbTypes
  BY NumbersAssumption DEF Init, DbTypes
<1>4. CacheTypes
  BY NumbersAssumption DEF Init, CacheTypes, Account, Fresh
<1>5. SavedTypes
  <2>1. /\ saved.stream = stream /\ saved.trimmed = trimmed /\ saved.group = group
        /\ saved.delivered = delivered /\ saved.pel = pel /\ saved.cache = cache
        /\ published = {} /\ unsure = {} /\ restarts = 0
    BY DEF Init, Redis
  <2>2. QED
    BY <1>1, <1>4, <2>1 DEF RedisTypes, CacheTypes, SavedTypes
<1>6. QED
  BY <1>1, <1>2, <1>3, <1>4, <1>5 DEF TypeOK

\* Each action keeps the types.  The engine's holds:
LEMMA HoldTypes ==
    ASSUME TypeOK, Hold
    PROVE  TypeOK'
<1>1. PICK t \in Trades : HoldFunds(t) \/ HoldShares(t)
  BY DEF Hold
<1>2. RedisTypes'
  <2>1. reserved' \in [Trades -> SUBSET {"buy", "sell"}]
    BY <1>1 DEF TypeOK, RedisTypes, HoldFunds, HoldShares
  <2>2. QED
    BY <2>1 DEF TypeOK, RedisTypes, Hold, redisVars
<1>3. cache' \in [Users -> Account]
  <2>1. CASE HoldFunds(t)
    <3>1. cache \in [Users -> Account] /\ cache[t.buyer] \in Account
          /\ t.held \in Int /\ t.buyer \in Users
      BY TradeFields DEF TypeOK, CacheTypes
    <3>2. [cache[t.buyer] EXCEPT !.cash = @ - t.held, !.held = @ + t.held] \in Account
      BY <3>1, MoveTypes
    <3>3. cache' = [cache EXCEPT ![t.buyer] =
                      [cache[t.buyer] EXCEPT !.cash = @ - t.held, !.held = @ + t.held]]
      BY <2>1 DEF HoldFunds
    <3>4. QED
      BY <3>1, <3>2, <3>3
  <2>2. CASE HoldShares(t)
    <3>1. cache \in [Users -> Account] /\ cache[t.seller] \in Account
          /\ t.quantity \in Int /\ t.seller \in Users
      BY TradeFields DEF TypeOK, CacheTypes
    <3>2. [cache[t.seller] EXCEPT !.shares = @ - t.quantity,
                                  !.heldShares = @ + t.quantity] \in Account
      BY <3>1, MoveTypes
    <3>3. cache' = [cache EXCEPT ![t.seller] =
                      [cache[t.seller] EXCEPT !.shares = @ - t.quantity,
                                              !.heldShares = @ + t.quantity]]
      BY <2>2 DEF HoldShares
    <3>4. QED
      BY <3>1, <3>2, <3>3
  <2>3. QED
    BY <1>1, <2>1, <2>2
<1>4. CacheTypes'
  BY <1>3 DEF TypeOK, CacheTypes, Hold
<1>5. QED
  BY <1>2, <1>4, DaemonFrame, DbFrame, SavedFrame DEF TypeOK, Hold

\* The engine's XADD:
LEMMA PublishTypes ==
    ASSUME TypeOK, NEW t \in Trades, Publish(t)
    PROVE  TypeOK'
<1>1. /\ stream \in Seq(Trades) /\ Len(stream) \in Nat
      /\ trimmed \in 0 .. Len(stream) /\ delivered \in 0 .. Len(stream)
  BY DEF TypeOK, RedisTypes
<1>2. stream' \in Seq(Trades) /\ Len(stream') = Len(stream) + 1
  BY <1>1 DEF Publish
<1>3. trimmed' \in 0 .. Len(stream')
  BY <1>1, <1>2, NumbersAssumption DEF Publish
<1>4. delivered' \in 0 .. Len(stream')
  BY <1>1, <1>2 DEF Publish
<1>5. RedisTypes'
  BY <1>2, <1>3, <1>4 DEF TypeOK, RedisTypes, Publish
<1>6. SavedTypes'
  BY DEF TypeOK, SavedTypes, Publish
<1>7. QED
  BY <1>5, <1>6, DaemonFrame, DbFrame, CacheFrame DEF TypeOK, Publish

\* A daemon starts:
LEMMA StartTypes ==
    ASSUME TypeOK, NEW d \in Daemons, Start(d)
    PROVE  TypeOK'
<1>1. RedisTypes'
  BY DEF Start, TypeOK, RedisTypes
<1>2. DaemonTypes'
  BY DEF Start, TypeOK, DaemonTypes, Busy
<1>3. QED
  BY <1>1, <1>2, DbFrame, CacheFrame, SavedFrame DEF TypeOK, Start

\* It is given messages:
LEMMA ReadTypes ==
    ASSUME TypeOK, NEW d \in Daemons, Read(d)
    PROVE  TypeOK'
<1>1. Unread \in Seq(Trades) /\ ToSet(Unread) \subseteq Trades
  BY UnreadType DEF TypeOK
<1>2. RedisTypes'
  <2>1. Len(stream) \in Nat
    BY DEF TypeOK, RedisTypes
  <2>2. QED
    BY <1>1, <2>1 DEF Read, TypeOK, RedisTypes
<1>3. DaemonTypes'
  BY <1>1 DEF Read, TypeOK, DaemonTypes, Busy
<1>4. QED
  BY <1>2, <1>3, DbFrame, CacheFrame, SavedFrame DEF TypeOK, Read

\* It looks for a duplicate:
LEMMA CheckTypes ==
    ASSUME TypeOK, NEW d \in Daemons, Check(d)
    PROVE  TypeOK'
<1>1. RedisTypes'
  BY AckTypes DEF TypeOK, Check
<1>2. DaemonTypes'
  BY NextMessageTypes, GotoTypes DEF TypeOK, Check, Busy
<1>3. QED
  BY <1>1, <1>2, DbFrame, CacheFrame, SavedFrame DEF TypeOK, Check

\* It locks the buyer's row:
LEMMA LockBuyerTypes ==
    ASSUME TypeOK, NEW d \in Daemons, LockBuyer(d)
    PROVE  TypeOK'
<1>1. Current(d).buyer \in Users
  BY CurrentIsTrade, TradeFields DEF TypeOK, LockBuyer, Busy
<1>2. DaemonTypes'
  BY <1>1 DEF TypeOK, DaemonTypes, DbTypes, LockBuyer, Busy
<1>3. DbTypes'
  BY <1>1 DEF TypeOK, DbTypes, LockBuyer
<1>4. QED
  BY <1>2, <1>3, RedisFrame, CacheFrame, SavedFrame DEF TypeOK, LockBuyer

\* It locks the seller's row:
LEMMA LockSellerTypes ==
    ASSUME TypeOK, NEW d \in Daemons, LockSeller(d)
    PROVE  TypeOK'
<1>1. Current(d).seller \in Users
  BY CurrentIsTrade, TradeFields DEF TypeOK, LockSeller, Busy
<1>2. DaemonTypes'
  BY <1>1 DEF TypeOK, DaemonTypes, DbTypes, LockSeller, Busy
<1>3. DbTypes'
  BY <1>1 DEF TypeOK, DbTypes, LockSeller
<1>4. QED
  BY <1>2, <1>3, RedisFrame, CacheFrame, SavedFrame DEF TypeOK, LockSeller

\* It commits:
LEMMA CommitTypes ==
    ASSUME TypeOK, NEW d \in Daemons, Commit(d)
    PROVE  TypeOK'
<1>1. Current(d) \in Trades
  BY CurrentIsTrade DEF TypeOK, Commit, Busy
<1>2. DbTypes'
  BY <1>1, PostTradeTypes DEF TypeOK, Commit
<1>3. DaemonTypes'
  BY GotoTypes DEF TypeOK, Commit, Busy
<1>4. QED
  BY <1>2, <1>3, RedisFrame, CacheFrame, SavedFrame DEF TypeOK, Commit

\* It is refused a duplicate:
LEMMA RefuseTypes ==
    ASSUME TypeOK, NEW d \in Daemons, Refuse(d)
    PROVE  TypeOK'
<1>1. RedisTypes'
  BY AckTypes DEF TypeOK, Refuse
<1>2. DaemonTypes'
  BY NextMessageTypes DEF TypeOK, Refuse, Busy
<1>3. DbTypes'
  BY UnlockedType DEF TypeOK, DbTypes, Refuse
<1>4. QED
  BY <1>1, <1>2, <1>3, CacheFrame, SavedFrame DEF TypeOK, Refuse

\* It runs the on_commit hooks:
LEMMA HookTypes ==
    ASSUME TypeOK, NEW d \in Daemons, Ack(d) \/ CacheIncr(d)
    PROVE  TypeOK'
<1>1. CASE Ack(d)
  <2>1. SettleCache(Current(d)) \in Seq(Increment) /\ SettleCache(Current(d)) # <<>>
    BY <1>1, CurrentIsTrade, SettleCacheType DEF TypeOK, Ack, Busy
  <2>2. DaemonTypes'
    BY <1>1, <2>1 DEF TypeOK, DaemonTypes, Ack, Busy
  <2>3. RedisTypes'
    BY <1>1, AckTypes DEF TypeOK, Ack
  <2>4. QED
    BY <1>1, <2>2, <2>3, DbFrame, CacheFrame, SavedFrame DEF TypeOK, Ack
<1>2. CASE CacheIncr(d)
  <2>1. todo[d] \in Seq(Increment) /\ todo[d] # <<>> /\ Len(todo[d]) \in Nat
    BY <1>2 DEF TypeOK, DaemonTypes, CacheIncr
  <2>2. Head(todo[d]) \in Increment /\ Tail(todo[d]) \in Seq(Increment)
        /\ Len(Tail(todo[d])) = Len(todo[d]) - 1
    BY <2>1, HeadTailProperties
  <2>3. CacheTypes'
    <3>1. cache' \in [Users -> Account]
      BY <1>2, <2>2, CacheIncrTypes DEF TypeOK, CacheIncr, Apply
    <3>2. QED
      BY <1>2, <3>1 DEF TypeOK, CacheTypes, CacheIncr
  <2>4. DaemonTypes'
    <3>1. CASE Len(todo[d]) = 1
      BY <1>2, <3>1, NextMessageTypes DEF TypeOK, CacheIncr, Busy
    <3>2. CASE Len(todo[d]) # 1
      <4>1. Tail(todo[d]) # <<>> <=> Len(Tail(todo[d])) > 0
        BY <2>2, NonEmpty
      <4>2. Len(Tail(todo[d])) > 0
        <5>1. Len(todo[d]) > 0
          BY <2>1, NonEmpty
        <5>2. \A n \in Nat : n # 1 /\ n > 0 => n - 1 > 0
          OBVIOUS
        <5>3. Len(todo[d]) - 1 > 0
          BY <2>1, <3>2, <5>1, <5>2, Zenon
        <5>4. QED
          BY <2>2, <5>3
      <4>3. Tail(todo[d]) # <<>>
        BY <4>1, <4>2
      <4>4. QED
        BY <1>2, <2>2, <3>2, <4>3 DEF TypeOK, DaemonTypes, CacheIncr
    <3>3. QED
      BY <3>1, <3>2
  <2>5. QED
    BY <1>2, <2>3, <2>4, RedisFrame, DbFrame, SavedFrame DEF TypeOK, CacheIncr
<1>3. QED
  BY <1>1, <1>2

\* An increment of its list is one of some user's fields.
LEMMA ApplyTypes ==
    ASSUME TypeOK, NEW d \in Daemons, pc[d] = "cache", Apply(d)
    PROVE  cache' \in [Users -> Account] /\ Head(todo[d]).user \in Users
<1>1. todo[d] \in Seq(Increment) /\ todo[d] # <<>>
  BY DEF TypeOK, DaemonTypes
<1>2. Head(todo[d]) \in Increment
  BY <1>1, HeadTailProperties
<1>3. Head(todo[d]).user \in Users
  BY <1>2 DEF Increment
<1>4. QED
  BY <1>2, <1>3, CacheIncrTypes DEF TypeOK, Apply

\* It fails:
LEMMA FailTypes ==
    ASSUME TypeOK, NEW d \in Daemons, Fail(d)
    PROVE  TypeOK'
<1>1. DaemonTypes'
  BY NextMessageTypes, DropBatchTypes
     DEF TypeOK, Fail, DbError, LoseCommit, RedisError, Crash, Busy
<1>2. DbTypes'
  <2>1. CASE LoseCommit(d)
    <3>1. Current(d) \in Trades
      BY <2>1, CurrentIsTrade DEF TypeOK, LoseCommit, Busy
    <3>2. QED
      BY <2>1, <3>1, PostTradeTypes DEF TypeOK, LoseCommit
  <2>2. CASE DbError(d) \/ RedisError(d) \/ Crash(d)
    BY <2>2, UnlockedType DEF TypeOK, DbTypes, DbError, RedisError, Crash
  <2>3. QED
    BY <2>1, <2>2 DEF Fail
<1>3. CacheTypes'
  <2>1. CASE pc[d] = "cache" /\ Apply(d) /\ RedisError(d)
    <3>1. cache' \in [Users -> Account]
      BY <2>1, ApplyTypes
    <3>2. QED
      BY <2>1, <3>1 DEF TypeOK, CacheTypes, RedisError, Fault
  <2>2. CASE UNCHANGED cache
    BY <2>2 DEF TypeOK, CacheTypes, Fail, Fault, DbError, LoseCommit, RedisError, Crash
  <2>3. QED
    BY <2>1, <2>2 DEF Fail, DbError, LoseCommit, RedisError, Crash
<1>4. RedisTypes'
  <2>1. UNCHANGED <<reserved, stream, trimmed, group, delivered>> /\ pel' \subseteq pel
    BY DEF Fail, DbError, LoseCommit, RedisError, Crash, redisVars
  <2>2. QED
    BY <2>1, AckTypes DEF TypeOK
<1>5. SavedTypes'
  BY SavedFrame DEF TypeOK, Fail, DbError, LoseCommit, RedisError, Crash
<1>6. QED
  BY <1>1, <1>2, <1>3, <1>4, <1>5 DEF TypeOK

\* It loses a reply:
LEMMA LoseTypes ==
    ASSUME TypeOK, NEW d \in Daemons, Lose(d)
    PROVE  TypeOK'
<1>1. CASE LoseIncrReply(d)
  <2>1. cache' \in [Users -> Account] /\ Head(todo[d]).user \in Users
    BY <1>1, ApplyTypes DEF LoseIncrReply
  <2>2. CacheTypes'
    BY <1>1, <2>1 DEF TypeOK, CacheTypes, LoseIncrReply, Fault
  <2>3. SavedTypes'
    BY <1>1, <2>1 DEF TypeOK, SavedTypes, LoseIncrReply
  <2>4. QED
    BY <1>1, <2>2, <2>3, RedisFrame, DaemonFrame, DbFrame DEF TypeOK, LoseIncrReply
<1>2. CASE LoseReadReply(d)
  <2>1. ToSet(Unread) \subseteq Trades /\ Len(stream) \in Nat
    BY UnreadType DEF TypeOK, RedisTypes
  <2>2. RedisTypes'
    BY <1>2, <2>1 DEF TypeOK, RedisTypes, LoseReadReply
  <2>3. CacheTypes'
    BY <1>2 DEF TypeOK, CacheTypes, LoseReadReply, Fault
  <2>4. QED
    BY <1>2, <2>2, <2>3, DaemonFrame, DbFrame, SavedFrame DEF TypeOK, LoseReadReply
<1>3. QED
  BY <1>1, <1>2 DEF Lose

\* Redis writes its snapshot:
LEMMA SaveTypes ==
    ASSUME TypeOK, Save
    PROVE  TypeOK'
<1>1. /\ saved'.stream = stream /\ saved'.trimmed = trimmed /\ saved'.group = group
      /\ saved'.delivered = delivered /\ saved'.pel = pel /\ saved'.cache = cache
  BY DEF Save, Redis
<1>2. SavedTypes'
  BY <1>1 DEF TypeOK, RedisTypes, CacheTypes, SavedTypes, Save
<1>3. QED
  BY <1>2, RedisFrame, DaemonFrame, DbFrame, CacheFrame DEF TypeOK, Save

\* Redis restarts:
LEMMA RestoreTypes ==
    ASSUME TypeOK, Restore
    PROVE  TypeOK'
<1>1. RedisTypes'
  BY DEF TypeOK, RedisTypes, SavedTypes, Restore
<1>2. CacheTypes'
  BY DEF TypeOK, CacheTypes, SavedTypes, Restore
<1>3. SavedTypes'
  BY DEF TypeOK, SavedTypes, Restore
<1>4. QED
  BY <1>1, <1>2, <1>3, DaemonFrame, DbFrame DEF TypeOK, Restore

\* A user logs in:
LEMMA LoginTypes ==
    ASSUME TypeOK, NEW u \in Users, LoginPortfolio(u) \/ LoginPositions(u) \/ LoginCache(u)
    PROVE  TypeOK'
<1>1. login[u] \in Seq(Int) /\ cash[u] \in Int /\ shares[u] \in Int
  BY DEF TypeOK, CacheTypes, DbTypes
<1>2. CacheTypes'
  <2>1. CASE LoginPortfolio(u)
    BY <1>1, <2>1 DEF TypeOK, CacheTypes, LoginPortfolio
  <2>2. CASE LoginPositions(u)
    BY <1>1, <2>2 DEF TypeOK, CacheTypes, LoginPositions
  <2>3. CASE LoginCache(u)
    <3>1. login[u][1] \in Int /\ login[u][2] \in Int
      BY <1>1, <2>3 DEF LoginCache
    <3>2. Fresh(login[u][1], login[u][2]) \in Account
      BY <3>1 DEF Fresh, Account
    <3>3. cache' \in [Users -> Account]
      BY <2>3, <3>2 DEF TypeOK, CacheTypes, LoginCache
    <3>4. login' \in [Users -> Seq(Int)]
      <4>1. login' \in {login, [login EXCEPT ![u] = <<>>]} /\ login \in [Users -> Seq(Int)]
        BY <2>3 DEF TypeOK, CacheTypes, LoginCache
      <4>2. <<>> \in Seq(Int)
        OBVIOUS
      <4>3. QED
        BY <4>1, <4>2
    <3>5. faults' \in Nat /\ logins' \in Nat
      BY <2>3 DEF TypeOK, CacheTypes, LoginCache, Fault
    <3>6. QED
      BY <3>3, <3>4, <3>5 DEF CacheTypes
  <2>4. QED
    BY <2>1, <2>2, <2>3
<1>3. SavedTypes'
  <2>1. CASE LoginPortfolio(u) \/ LoginPositions(u)
    BY <2>1, SavedFrame DEF TypeOK, LoginPortfolio, LoginPositions
  <2>2. CASE LoginCache(u)
    BY <2>2 DEF TypeOK, SavedTypes, LoginCache
  <2>3. QED
    BY <2>1, <2>2
<1>4. QED
  BY <1>2, <1>3, RedisFrame, DaemonFrame, DbFrame
     DEF TypeOK, LoginPortfolio, LoginPositions, LoginCache

\* Every step keeps the types.
LEMMA NextTypes == TypeOK /\ [Next]_vars => TypeOK'
<1> SUFFICES ASSUME TypeOK, [Next]_vars PROVE TypeOK'
  OBVIOUS
<1>1. CASE UNCHANGED vars
  BY <1>1, RedisFrame, DaemonFrame, DbFrame, CacheFrame, SavedFrame DEF TypeOK, vars
<1>2. CASE Hold
  BY <1>2, HoldTypes
<1>3. CASE \E t \in Trades : Publish(t)
  BY <1>3, PublishTypes
<1>4. ASSUME NEW d \in Daemons, Run(d) PROVE TypeOK'
  BY <1>4, StartTypes, ReadTypes, CheckTypes, LockBuyerTypes, LockSellerTypes,
     CommitTypes, RefuseTypes, HookTypes DEF Run, Settle
<1>5. CASE \E d \in Daemons : Fail(d) \/ Lose(d)
  BY <1>5, FailTypes, LoseTypes
<1>6. CASE Save \/ Restore
  BY <1>6, SaveTypes, RestoreTypes
<1>7. CASE \E u \in Users : LoginPortfolio(u) \/ LoginPositions(u) \/ LoginCache(u)
  BY <1>7, LoginTypes
<1>8. CASE \E d \in Daemons : Poll(d)
  BY <1>1, <1>8 DEF Poll
<1>9. QED
  BY <1>1, <1>2, <1>3, <1>4, <1>5, <1>6, <1>7, <1>8 DEF Next

\* Every field keeps its type, and a daemon has a message in hand exactly while
\* it is in the message loop.
THEOREM TypeCorrect == Spec => []TypeOK
BY InitTypes, NextTypes, PTL DEF Spec

(***************************************************************************)
(* XACK comes after the commit.                                            *)
(***************************************************************************)
\* What a daemon runs the on_commit hooks for is committed.
HooksAfterCommit == \A d \in Daemons : pc[d] \in {"ack", "cache"} => Current(d) \in rows

\* Nothing is ever taken out of the ledger.
LEMMA RowsGrow == [Next]_vars => rows \subseteq rows'
BY DEF Next, vars, dbVars, Hold, Publish, Run, Fail, Start, Read, Poll, Settle, Check,
       LockBuyer, LockSeller, Commit, Refuse, Ack, CacheIncr, DbError, LoseCommit,
       RedisError, Crash, Lose, LoseIncrReply, LoseReadReply, Save, Restore,
       LoginPortfolio, LoginPositions, LoginCache, PostTrade

\* Removing settled messages from the pending list.
LEMMA AckFrame ==
    ASSUME AckOnlySettled, UNCHANGED <<stream, trimmed, delivered>>,
           rows \subseteq rows', pel \subseteq pel' \cup rows
    PROVE  AckOnlySettled'
BY DEF AckOnlySettled

\* A step of one daemon that leaves it outside the hooks, or inside them with a
\* message that is committed.
LEMMA HooksFrame ==
    ASSUME HooksAfterCommit, DaemonTypes, NEW d \in Daemons, rows \subseteq rows',
           \A e \in Daemons \ {d} : pc'[e] = pc[e] /\ batch'[e] = batch[e],
           pc'[d] \in {"ack", "cache"} => Head(batch'[d]) \in rows'
    PROVE  HooksAfterCommit'
BY DEF HooksAfterCommit, Current

\* A step of one daemon leaves the batches of the others alone.
LEMMA OtherDaemons ==
    ASSUME DaemonTypes, NEW d \in Daemons, Run(d) \/ Fail(d)
    PROVE  \A e \in Daemons \ {d} : /\ pc'[e] = pc[e] /\ batch'[e] = batch[e]
                                    /\ seen'[e] = seen[e] /\ todo'[e] = todo[e]
BY DEF DaemonTypes, Run, Fail, Start, Read, Settle, Check, LockBuyer, LockSeller, Commit,
       Refuse, Ack, CacheIncr, DbError, LoseCommit, RedisError, Crash, NextMessage,
       DropBatch, Goto

\* What lies between two positions of the stream is in the subsequence.
LEMMA InSubSeq ==
    ASSUME NEW S, NEW s \in Seq(S), NEW m \in Nat \ {0}, NEW k \in Nat, k =< Len(s),
           NEW n \in m .. k
    PROVE  s[n] \in ToSet(SubSeq(s, m, k))
<1>1. \A i \in m .. k : s[i] \in S
  <2>1. Len(s) \in Nat
    OBVIOUS
  <2>2. m .. k \subseteq 1 .. Len(s)
    BY <2>1
  <2>3. QED
    BY <2>2
<1>2. /\ SubSeq(s, m, k) \in Seq(S)
      /\ Len(SubSeq(s, m, k)) = k - m + 1
      /\ \A i \in 1 .. k - m + 1 : SubSeq(s, m, k)[i] = s[m + i - 1]
  <2>1. m =< k /\ m \in Int /\ k \in Int
    OBVIOUS
  <2>2. QED
    BY <1>1, <2>1, SubSeqProperties
<1>3. n - m + 1 \in 1 .. k - m + 1 /\ m + (n - m + 1) - 1 = n
  OBVIOUS
<1>4. SubSeq(s, m, k)[n - m + 1] = s[n]
  BY <1>2, <1>3
<1>5. n - m + 1 \in DOMAIN SubSeq(s, m, k)
  BY <1>2, <1>3
<1>6. QED
  BY <1>4, <1>5 DEF ToSet

\* What a read moves the position over becomes pending, also if the reply is lost.
LEMMA ReadAcks ==
    ASSUME TypeOK, AckOnlySettled, UNCHANGED <<stream, trimmed, rows>>,
           delivered' = Len(stream), pel' = pel \cup ToSet(Unread)
    PROVE  AckOnlySettled'
<1> DEFINE first == 1 + IF delivered > trimmed THEN delivered ELSE trimmed
<1>1. /\ stream \in Seq(Trades) /\ Len(stream) \in Nat
      /\ trimmed \in Nat /\ delivered \in Nat /\ first \in Nat \ {0}
  BY DEF TypeOK, RedisTypes
<1>2. \A n \in first .. Len(stream) : stream[n] \in ToSet(Unread)
  BY <1>1, InSubSeq DEF Unread
<1>3. SUFFICES ASSUME NEW n \in (trimmed + 1) .. Len(stream)
               PROVE  stream[n] \in pel \cup ToSet(Unread) \cup rows
  BY DEF AckOnlySettled
<1>4. CASE n =< delivered
  BY <1>1, <1>4 DEF AckOnlySettled
<1>5. CASE n > delivered
  <2>1. n \in first .. Len(stream)
    BY <1>1, <1>5
  <2>2. QED
    BY <1>2, <2>1
<1>6. QED
  BY <1>1, <1>4, <1>5

\* What is not trimmed after an XADD was not trimmed before it.
LEMMA Narrow ==
    ASSUME NEW a \in Nat, NEW b \in Nat, a =< b,
           NEW c \in Nat, NEW l \in Nat, c =< l
    PROVE  \A n \in (b + 1) .. c : n \in (a + 1) .. c /\ n \in 1 .. l
  OBVIOUS

\* Trimming only removes entries the property speaks of.
LEMMA PublishAcks ==
    ASSUME TypeOK, AckOnlySettled, NEW t \in Trades, Publish(t)
    PROVE  AckOnlySettled'
<1>1. /\ stream \in Seq(Trades) /\ Len(stream) \in Nat /\ trimmed \in Nat
      /\ delivered \in Nat /\ delivered =< Len(stream)
  BY DEF TypeOK, RedisTypes
<1>2. \A n \in 1 .. Len(stream) : stream'[n] = stream[n]
  BY <1>1 DEF Publish
<1>3. trimmed' \in Nat /\ trimmed =< trimmed'
  BY <1>1 DEF Publish
<1>4. delivered' = delivered /\ pel' = pel /\ rows' = rows
  BY DEF Publish, dbVars
<1>5. \A n \in (trimmed' + 1) .. delivered : n \in (trimmed + 1) .. delivered
                                             /\ n \in 1 .. Len(stream)
  BY <1>1, <1>3, Narrow
<1>6. \A n \in (trimmed' + 1) .. delivered : stream'[n] \in pel \cup rows
  BY <1>2, <1>5 DEF AckOnlySettled
<1>7. QED
  BY <1>4, <1>6 DEF AckOnlySettled

\* The same of the snapshot: what is acknowledged in it is settled by now.
SavedAcks ==
    \A n \in (saved.trimmed + 1) .. saved.delivered : saved.stream[n] \in saved.pel \cup rows

LEMMA NextSavedAcks ==
    AckOnlySettled /\ SavedAcks /\ [Next]_vars => SavedAcks'
<1> SUFFICES ASSUME AckOnlySettled, SavedAcks, [Next]_vars PROVE SavedAcks'
  OBVIOUS
<1>1. rows \subseteq rows'
  BY RowsGrow
<1>2. CASE Save
  <2>1. /\ saved'.stream = stream /\ saved'.trimmed = trimmed
        /\ saved'.delivered = delivered /\ saved'.pel = pel
    BY <1>2 DEF Save, Redis
  <2>2. QED
    BY <1>1, <2>1 DEF AckOnlySettled, SavedAcks
<1>3. CASE ~Save
  <2>1. saved' = saved
    BY <1>3 DEF Next, vars, snapshotVars, Hold, Publish, Run, Fail, Start, Read, Poll, Settle,
        Check, LockBuyer, LockSeller, Commit, Refuse, Ack, CacheIncr, DbError, LoseCommit,
        RedisError, Crash, Lose, LoseIncrReply, LoseReadReply, Restore, LoginPortfolio,
        LoginPositions, LoginCache
  <2>2. QED
    BY <1>1, <2>1 DEF SavedAcks
<1>4. QED
  BY <1>2, <1>3

\* Every step keeps AckOnlySettled and HooksAfterCommit.
LEMMA NextAcks ==
    TypeOK /\ HooksAfterCommit /\ AckOnlySettled /\ SavedAcks /\ [Next]_vars
      => HooksAfterCommit' /\ AckOnlySettled'
<1> SUFFICES ASSUME TypeOK, HooksAfterCommit, AckOnlySettled, SavedAcks, [Next]_vars
             PROVE  HooksAfterCommit' /\ AckOnlySettled'
  OBVIOUS
<1>1. rows \subseteq rows'
  BY RowsGrow
<1>2. ASSUME UNCHANGED <<pc, batch, stream, trimmed, delivered, pel>>
      PROVE  HooksAfterCommit' /\ AckOnlySettled'
  BY <1>1, <1>2, AckFrame DEF HooksAfterCommit, Current
<1>3. CASE UNCHANGED vars
  BY <1>2, <1>3 DEF vars, daemonVars, redisVars
<1>4. CASE Hold
  BY <1>2, <1>4 DEF Hold, daemonVars, redisVars
<1>5. ASSUME NEW t \in Trades, Publish(t)
      PROVE  HooksAfterCommit' /\ AckOnlySettled'
  BY <1>1, <1>5, PublishAcks DEF Publish, HooksAfterCommit, Current, daemonVars
<1>6. ASSUME NEW d \in Daemons, Run(d)
      PROVE  HooksAfterCommit' /\ AckOnlySettled'
  <2>1. HooksAfterCommit'
    <3>1. pc'[d] \in {"ack", "cache"} => Head(batch'[d]) \in rows'
      <4>1. CASE Start(d) \/ Read(d) \/ Check(d) \/ LockBuyer(d) \/ LockSeller(d) \/ Refuse(d)
        BY <4>1 DEF TypeOK, DaemonTypes, Start, Read, Check, LockBuyer, LockSeller, Refuse,
                    Goto, NextMessage
      <4>2. CASE Commit(d)
        BY <4>2 DEF Commit, PostTrade, Goto, Current
      <4>3. CASE Ack(d)
        BY <4>3, <1>1 DEF Ack, HooksAfterCommit, Current
      <4>4. CASE CacheIncr(d)
        BY <4>4, <1>1 DEF CacheIncr, HooksAfterCommit, Current, TypeOK, DaemonTypes, NextMessage
      <4>5. QED
        BY <1>6, <4>1, <4>2, <4>3, <4>4 DEF Run, Settle
    <3>2. QED
      BY <1>1, <1>6, <3>1, OtherDaemons, HooksFrame DEF TypeOK
  <2>2. AckOnlySettled'
    <3>1. CASE Read(d)
      BY <3>1, ReadAcks DEF Read, dbVars
    <3>2. CASE Start(d) \/ LockBuyer(d) \/ LockSeller(d) \/ Commit(d) \/ CacheIncr(d)
      BY <1>1, <3>2, AckFrame DEF Start, LockBuyer, LockSeller, Commit, CacheIncr, redisVars
    <3>3. CASE Check(d) \/ Refuse(d) \/ Ack(d)
      BY <1>1, <3>3, AckFrame DEF Check, Refuse, Ack, HooksAfterCommit
    <3>4. QED
      BY <1>6, <3>1, <3>2, <3>3 DEF Run, Settle
  <2>3. QED
    BY <2>1, <2>2
<1>7. ASSUME NEW d \in Daemons, Fail(d)
      PROVE  HooksAfterCommit' /\ AckOnlySettled'
  <2>1. pc'[d] \notin {"ack", "cache"}
    BY <1>7 DEF TypeOK, DaemonTypes, Fail, DbError, LoseCommit, RedisError, Crash,
                NextMessage, DropBatch
  <2>2. HooksAfterCommit'
    BY <1>1, <1>7, <2>1, OtherDaemons, HooksFrame DEF TypeOK
  <2>3. pel \subseteq pel' \cup rows
    <3>1. CASE RedisError(d)
      BY <3>1 DEF RedisError, HooksAfterCommit
    <3>2. CASE DbError(d) \/ LoseCommit(d) \/ Crash(d)
      BY <3>2 DEF DbError, LoseCommit, Crash, redisVars
    <3>3. QED
      BY <1>7, <3>1, <3>2 DEF Fail
  <2>4. UNCHANGED <<stream, trimmed, delivered>>
    BY <1>7 DEF Fail, DbError, LoseCommit, RedisError, Crash, redisVars
  <2>5. AckOnlySettled'
    BY <1>1, <2>3, <2>4, AckFrame
  <2>6. QED
    BY <2>2, <2>5
<1>8. CASE Save \/ Restore
  <2>1. CASE Save
    BY <1>2, <2>1 DEF Save, daemonVars, redisVars
  <2>2. CASE Restore
    <3>1. HooksAfterCommit'
      BY <2>2, <1>1 DEF Restore, HooksAfterCommit, Current, daemonVars
    <3>2. AckOnlySettled'
      BY <2>2, <1>1 DEF Restore, AckOnlySettled, SavedAcks
    <3>3. QED
      BY <3>1, <3>2
  <2>3. QED
    BY <1>8, <2>1, <2>2
<1>9. CASE \E u \in Users : LoginPortfolio(u) \/ LoginPositions(u) \/ LoginCache(u)
  BY <1>2, <1>9 DEF LoginPortfolio, LoginPositions, LoginCache, daemonVars, redisVars
<1>10. CASE \E d \in Daemons : Poll(d)
  BY <1>3, <1>10 DEF Poll
<1>11. ASSUME NEW d \in Daemons, Lose(d)
       PROVE  HooksAfterCommit' /\ AckOnlySettled'
  <2>1. CASE LoseIncrReply(d)
    BY <1>2, <2>1 DEF LoseIncrReply, daemonVars, redisVars
  <2>2. CASE LoseReadReply(d)
    <3>1. AckOnlySettled'
      BY <2>2, ReadAcks DEF LoseReadReply, dbVars
    <3>2. HooksAfterCommit'
      BY <2>2, <1>1 DEF LoseReadReply, HooksAfterCommit, Current, daemonVars
    <3>3. QED
      BY <3>1, <3>2
  <2>3. QED
    BY <1>11, <2>1, <2>2 DEF Lose
<1>12. QED
  BY <1>3, <1>4, <1>5, <1>6, <1>7, <1>8, <1>9, <1>10, <1>11 DEF Next

\* However many daemons run, whatever fails, whichever replies are lost and
\* whatever Redis forgets or delivers again, a message is acknowledged only after
\* its trade is committed.
THEOREM AckAfterCommit == Spec => []AckOnlySettled
<1>1. Init => HooksAfterCommit /\ AckOnlySettled /\ SavedAcks
  BY DEF Init, Redis, HooksAfterCommit, AckOnlySettled, SavedAcks
<1>2. QED
  BY <1>1, InitTypes, NextTypes, NextAcks, NextSavedAcks, PTL DEF Spec

(***************************************************************************)
(* The ledger.                                                             *)
(***************************************************************************)
\* A transaction holds the rows it has read, and what it read is still there.
LockedRows ==
    \A d \in Daemons :
       /\ pc[d] \in {"lockSeller", "write"} =>
             /\ lock[Current(d).buyer] = d
             /\ seen[d].buyer = cash[Current(d).buyer]
       /\ pc[d] = "write" =>
             /\ lock[Current(d).seller] = d
             /\ seen[d].seller = cash[Current(d).seller]

\* The rows daemon d has read so far.
ReadRows(d) ==
    {u \in Users : \/ pc[d] \in {"lockSeller", "write"} /\ u = Current(d).buyer
                   \/ pc[d] = "write" /\ u = Current(d).seller}

\* A daemon's rows are its own, so another daemon's step keeps LockedRows for
\* it if that step changes no row locked by it.
LEMMA OthersKeepRows ==
    ASSUME TypeOK, LockedRows, NEW d \in Daemons, Run(d) \/ Fail(d),
           \A u \in Users : lock[u] \notin {d, NoDaemon} =>
                               lock'[u] = lock[u] /\ cash'[u] = cash[u]
    PROVE  \A e \in Daemons \ {d} :
              /\ pc'[e] \in {"lockSeller", "write"} =>
                    /\ lock'[Head(batch'[e]).buyer] = e
                    /\ seen'[e].buyer = cash'[Head(batch'[e]).buyer]
              /\ pc'[e] = "write" =>
                    /\ lock'[Head(batch'[e]).seller] = e
                    /\ seen'[e].seller = cash'[Head(batch'[e]).seller]
<1> SUFFICES ASSUME NEW e \in Daemons \ {d}, pc[e] \in {"lockSeller", "write"}
             PROVE  /\ lock'[Current(e).buyer] = e
                    /\ seen[e].buyer = cash'[Current(e).buyer]
                    /\ pc[e] = "write" => /\ lock'[Current(e).seller] = e
                                          /\ seen[e].seller = cash'[Current(e).seller]
  BY OtherDaemons DEF TypeOK, Current
<1>1. Current(e).buyer \in Users /\ Current(e).seller \in Users
  BY CurrentIsTrade, TradeFields DEF TypeOK, Busy
<1>2. e \notin {d, NoDaemon}
  BY DaemonsAssumption
<1>3. QED
  BY <1>1, <1>2 DEF LockedRows

\* Every step keeps LockedRows.
LEMMA NextRows ==
    TypeOK /\ LockedRows /\ [Next]_vars => LockedRows'
<1> SUFFICES ASSUME TypeOK, LockedRows, [Next]_vars
             PROVE  LockedRows'
  OBVIOUS
<1>1. ASSUME UNCHANGED <<pc, batch, seen, lock, cash>>
      PROVE  LockedRows'
  BY <1>1 DEF LockedRows, Current
<1>2. CASE UNCHANGED vars
  BY <1>1, <1>2 DEF vars, daemonVars, dbVars
<1>3. CASE \/ Hold \/ Save \/ Restore
           \/ \E t \in Trades : Publish(t)
           \/ \E d \in Daemons : Lose(d)
  BY <1>1, <1>3 DEF Hold, Save, Restore, Publish, Lose, LoseIncrReply, LoseReadReply,
                    daemonVars, dbVars
<1>4. CASE \E u \in Users : LoginPortfolio(u) \/ LoginPositions(u) \/ LoginCache(u)
  BY <1>1, <1>4 DEF LoginPortfolio, LoginPositions, LoginCache, daemonVars, dbVars
<1>5. CASE \E d \in Daemons : Poll(d)
  BY <1>2, <1>5 DEF Poll
<1>6. ASSUME NEW d \in Daemons, Run(d) \/ Fail(d)
      PROVE  LockedRows'
  <2>1. ASSUME pc[d] \in {"lockBuyer", "lockSeller", "write"}
        PROVE  Current(d) \in Trades /\ Current(d).buyer \in Users /\ Current(d).seller \in Users
    BY <2>1, CurrentIsTrade, TradeFields DEF TypeOK, Busy
  <2>2. \A u \in Users : lock[u] \notin {d, NoDaemon} =>
                            lock'[u] = lock[u] /\ cash'[u] = cash[u]
    <3> SUFFICES ASSUME NEW u \in Users, lock[u] \notin {d, NoDaemon}
                 PROVE  lock'[u] = lock[u] /\ cash'[u] = cash[u]
      OBVIOUS
    <3>1. CASE Start(d) \/ Read(d) \/ Check(d) \/ Ack(d) \/ CacheIncr(d)
      BY <3>1 DEF Start, Read, Check, Ack, CacheIncr, dbVars
    <3>2. CASE LockBuyer(d)
      BY <2>1, <3>2 DEF LockBuyer, Free, TypeOK, DbTypes
    <3>3. CASE LockSeller(d)
      BY <2>1, <3>3 DEF LockSeller, Free, TypeOK, DbTypes
    <3>4. CASE Commit(d) \/ LoseCommit(d)
      <4>1. lock[Current(d).buyer] = d /\ lock[Current(d).seller] = d
        BY <3>4 DEF Commit, LoseCommit, LockedRows
      <4>2. u # Current(d).buyer /\ u # Current(d).seller
        BY <4>1
      <4>3. QED
        BY <2>1, <3>4, <4>2 DEF Commit, LoseCommit, PostTrade, Unlocked, TypeOK, DbTypes
    <3>5. CASE Refuse(d) \/ DbError(d) \/ RedisError(d) \/ Crash(d)
      BY <3>5 DEF Refuse, DbError, RedisError, Crash, Unlocked
    <3>6. QED
      BY <1>6, <3>1, <3>2, <3>3, <3>4, <3>5 DEF Run, Settle, Fail
  <2>3. /\ pc'[d] \in {"lockSeller", "write"} =>
              /\ lock'[Head(batch'[d]).buyer] = d
              /\ seen'[d].buyer = cash'[Head(batch'[d]).buyer]
        /\ pc'[d] = "write" =>
              /\ lock'[Head(batch'[d]).seller] = d
              /\ seen'[d].seller = cash'[Head(batch'[d]).seller]
    <3>1. CASE LockBuyer(d)
      BY <2>1, <3>1 DEF LockBuyer, Current, TypeOK, DbTypes, DaemonTypes
    <3>2. CASE LockSeller(d)
      BY <2>1, <3>2 DEF LockSeller, LockedRows, Current, TypeOK, DbTypes, DaemonTypes
    <3>3. CASE ~LockBuyer(d) /\ ~LockSeller(d)
      <4>1. pc'[d] \notin {"lockSeller", "write"}
        BY <1>6, <3>3 DEF Run, Settle, Fail, Start, Read, Check, Commit, Refuse, Ack, CacheIncr,
              DbError, LoseCommit, RedisError, Crash, NextMessage, DropBatch, Goto, TypeOK,
              DaemonTypes
      <4>2. QED
        BY <4>1
    <3>4. QED
      BY <3>1, <3>2, <3>3
  <2>4. QED
    BY <1>6, <2>2, <2>3, OthersKeepRows DEF LockedRows, Current
<1>7. QED
  BY <1>2, <1>3, <1>4, <1>5, <1>6 DEF Next

NoOwnTrades == \A t \in Trades : t.buyer # t.seller

\* Committing the values computed from what was read under lock is what the
\* ledger calls posting the trade.
LEMMA PostRefines ==
    ASSUME TypeOK, LockedRows, NoOwnTrades, NEW d \in Daemons,
           pc[d] = "write", Current(d) \notin rows, PostTrade(d, Current(d))
    PROVE  Book!Post(Current(d))
<1> DEFINE t == Current(d)
<1>1. t \in Trades /\ t.buyer \in Users /\ t.seller \in Users /\ t.buyer # t.seller
      /\ t.settled \in Nat /\ t.quantity \in Nat
  BY CurrentIsTrade, TradeFields DEF TypeOK, Busy, NoOwnTrades
<1>2. cash \in [Users -> Int] /\ shares \in [Users -> Int]
  BY DEF TypeOK, DbTypes
<1>3. seen[d].buyer = cash[t.buyer] /\ seen[d].seller = cash[t.seller]
  BY DEF LockedRows
<1>4. cash' = Book!Move(cash, t.buyer, t.seller, t.settled)
  BY <1>1, <1>2, <1>3 DEF PostTrade, Book!Move
<1>5. shares' = Book!Move(shares, t.seller, t.buyer, t.quantity)
  BY <1>1, <1>2 DEF PostTrade, Book!Move
<1>6. QED
  BY <1>4, <1>5 DEF Book!Post, PostTrade

\* Every step posts one trade or leaves the ledger alone.
LEMMA StepRefines ==
    ASSUME NoOwnTrades
    PROVE  TypeOK /\ LockedRows /\ [Next]_vars => [Book!Next]_<<cash, shares, rows>>
<1> SUFFICES ASSUME TypeOK, LockedRows, [Next]_vars
             PROVE  Book!Next \/ UNCHANGED <<cash, shares, rows>>
  OBVIOUS
<1>1. ASSUME NEW d \in Daemons, Commit(d) \/ LoseCommit(d)
      PROVE  Book!Next
  <2>1. pc[d] = "write" /\ Current(d) \notin rows /\ PostTrade(d, Current(d))
    BY <1>1 DEF Commit, LoseCommit
  <2>2. Current(d) \in Trades
    BY <2>1, CurrentIsTrade DEF TypeOK, Busy
  <2>3. QED
    BY <2>1, <2>2, PostRefines DEF Book!Next
<1>2. ASSUME NEW d \in Daemons, Run(d) \/ Poll(d) \/ Fail(d), ~Commit(d), ~LoseCommit(d)
      PROVE  UNCHANGED <<cash, shares, rows>>
  BY <1>2 DEF Run, Settle, Poll, Fail, Start, Read, Check, LockBuyer, LockSeller, Refuse,
              Ack, CacheIncr, DbError, RedisError, Crash, dbVars, vars
<1>3. CASE \/ UNCHANGED vars \/ Hold \/ Save \/ Restore
           \/ \E t \in Trades : Publish(t)
           \/ \E d \in Daemons : Lose(d)
  BY <1>3 DEF vars, Hold, Save, Restore, Publish, Lose, LoseIncrReply, LoseReadReply, dbVars
<1>4. CASE \E u \in Users : LoginPortfolio(u) \/ LoginPositions(u) \/ LoginCache(u)
  BY <1>4 DEF LoginPortfolio, LoginPositions, LoginCache, dbVars
<1>5. QED
  BY <1>1, <1>2, <1>3, <1>4 DEF Next

\* If no user trades with himself, the daemons implement the ledger: each trade
\* is posted at most once and as a whole, for any number of daemons, with any
\* redelivery, failed calls, crashes and logins.
THEOREM LedgerImplemented ==
    ASSUME NoOwnTrades
    PROVE  Spec => ImplementsLedger
<1>1. Init => LockedRows /\ Book!Init
  BY DEF Init, LockedRows, Book!Init
<1>2. TypeOK /\ LockedRows /\ [Next]_vars => [Book!Next]_<<cash, shares, rows>>
  BY StepRefines
<1>3. QED
  BY <1>1, <1>2, InitTypes, NextTypes, NextRows, PTL
     DEF Spec, ImplementsLedger, Book!Spec, Book!ledgerVars

(***************************************************************************)
(* Sums over increments and over trades.                                   *)
(***************************************************************************)
\* What an increment adds to a field, and what a list of them does.
Amount(r, u, f) == IF r.user = u /\ r.field = f THEN r.by ELSE 0
Part(s, u, f) == SumFunction([i \in DOMAIN s |-> Amount(s[i], u, f)])
\* settle_cache adds to the available fields and takes from the locked ones.
Available == {"cash", "shares"}
Locked == {"held", "heldShares"}
Signs(s) ==
    \A i \in DOMAIN s : /\ s[i].field \in Available => s[i].by >= 0
                        /\ s[i].field \in Locked => s[i].by =< 0

LEMMA AmountInt ==
    ASSUME NEW r \in Increment, NEW u, NEW f
    PROVE  Amount(r, u, f) \in Int
BY DEF Amount, Increment

LEMMA PartSum ==
    ASSUME NEW s \in Seq(Increment), NEW u, NEW f
    PROVE  /\ DOMAIN s = 1 .. Len(s) /\ IsFiniteSet(1 .. Len(s))
           /\ Part(s, u, f)
                = SumFunctionOnSet([i \in 1 .. Len(s) |-> Amount(s[i], u, f)], 1 .. Len(s))
           /\ \A i \in 1 .. Len(s) : s[i] \in Increment /\ Amount(s[i], u, f) \in Int
<1>1. Len(s) \in Nat /\ DOMAIN s = 1 .. Len(s)
  OBVIOUS
<1>2. IsFiniteSet(1 .. Len(s))
  BY <1>1, FS_Interval
<1>3. \A i \in 1 .. Len(s) : s[i] \in Increment
  BY <1>1
<1>4. Part(s, u, f) = SumFunctionOnSet([i \in 1 .. Len(s) |-> Amount(s[i], u, f)], 1 .. Len(s))
  BY <1>1 DEF Part, SumFunction
<1>5. QED
  BY <1>1, <1>2, <1>3, <1>4, AmountInt

\* The sign of what a list of increments does.
LEMMA PartSign ==
    ASSUME NEW s \in Seq(Increment), NEW u, NEW f
    PROVE  /\ Part(s, u, f) \in Int
           /\ Signs(s) /\ f \in Available => Part(s, u, f) >= 0
           /\ Signs(s) /\ f \in Locked => Part(s, u, f) =< 0
<1>1. PICK D, a, z : /\ D = 1 .. Len(s) /\ a = [i \in D |-> Amount(s[i], u, f)]
                     /\ z = [i \in D |-> 0]
  OBVIOUS
<1>2. /\ IsFiniteSet(D) /\ Part(s, u, f) = SumFunctionOnSet(a, D) /\ DOMAIN s = D
      /\ \A i \in D : a[i] \in Int /\ s[i].by \in Int
  <2>1. /\ IsFiniteSet(D) /\ Part(s, u, f) = SumFunctionOnSet(a, D) /\ DOMAIN s = D
        /\ \A i \in D : a[i] \in Int /\ s[i] \in Increment
    BY <1>1, PartSum
  <2>2. \A r \in Increment : r.by \in Int
    BY DEF Increment
  <2>3. QED
    BY <2>1, <2>2
<1>3. Part(s, u, f) \in Int
  BY <1>2, SumInt
<1>4. \A i \in D : z[i] = 0 /\ z[i] \in Int
  BY <1>1
<1>5. SumFunctionOnSet(z, D) = 0
  BY <1>2, <1>4, SumZero
<1>6. ASSUME Signs(s), f \in Available PROVE Part(s, u, f) >= 0
  <2>1. \A i \in D : z[i] \in Int /\ a[i] \in Int /\ z[i] =< a[i]
    BY <1>1, <1>2, <1>4, <1>6 DEF Signs, Amount
  <2>2. SumFunctionOnSet(z, D) =< SumFunctionOnSet(a, D)
    BY <1>2, <2>1, SumLess
  <2>3. QED
    BY <1>2, <1>3, <1>5, <2>2
<1>7. ASSUME Signs(s), f \in Locked PROVE Part(s, u, f) =< 0
  <2>1. \A i \in D : a[i] \in Int /\ z[i] \in Int /\ a[i] =< z[i]
    BY <1>1, <1>2, <1>4, <1>7 DEF Signs, Amount
  <2>2. SumFunctionOnSet(a, D) =< SumFunctionOnSet(z, D)
    BY <1>2, <2>1, SumLess
  <2>3. QED
    BY <1>2, <1>5, <2>2
<1>8. QED
  BY <1>3, <1>6, <1>7

LEMMA PartEmpty ==
    ASSUME NEW u, NEW f
    PROVE  Part(<<>>, u, f) = 0
<1>1. DOMAIN <<>> = {}
  OBVIOUS
<1>2. QED
  BY <1>1, SumOfNone DEF Part

\* The first increment of a list, and the rest.
LEMMA PartTail ==
    ASSUME NEW s \in Seq(Increment), s # <<>>, NEW u, NEW f
    PROVE  /\ Head(s) \in Increment /\ Tail(s) \in Seq(Increment)
           /\ Part(s, u, f) = Amount(Head(s), u, f) + Part(Tail(s), u, f)
           /\ Signs(s) => Signs(Tail(s))
<1>1. PICK n \in Nat : n = Len(s) - 1 /\ Len(s) = n + 1
  <2>1. Len(s) \in Nat /\ Len(s) > 0
    BY NonEmpty
  <2>2. Len(s) - 1 \in Nat /\ Len(s) = (Len(s) - 1) + 1
    BY <2>1
  <2>3. QED
    BY <2>2
<1>2. /\ Head(s) \in Increment /\ Tail(s) \in Seq(Increment) /\ Len(Tail(s)) = n
      /\ Head(s) = s[1] /\ \A i \in 1 .. n : Tail(s)[i] = s[i + 1]
  BY <1>1, HeadTailProperties
<1>3. PICK a, b, D, E, h : /\ D = 1 .. (n + 1) /\ a = [i \in D |-> Amount(s[i], u, f)]
                           /\ E = 1 .. n /\ b = [i \in E |-> Amount(Tail(s)[i], u, f)]
                           /\ h = [i \in E |-> i + 1]
  OBVIOUS
<1>4. /\ IsFiniteSet(D) /\ DOMAIN s = D
      /\ Part(s, u, f) = SumFunctionOnSet(a, D) /\ \A i \in D : a[i] \in Int
  BY <1>1, <1>3, PartSum
<1>5. /\ IsFiniteSet(E) /\ DOMAIN Tail(s) = E
      /\ Part(Tail(s), u, f) = SumFunctionOnSet(b, E) /\ \A i \in E : b[i] \in Int
  BY <1>2, <1>3, PartSum
<1>6. 1 \in D /\ D \ {1} = {h[i] : i \in E}
  <2>1. \A i \in D \ {1} : i - 1 \in E /\ h[i - 1] = i
    BY <1>3
  <2>2. \A i \in E : h[i] \in D \ {1}
    BY <1>3
  <2>3. 1 \in D
    BY <1>3
  <2> HIDE <1>3
  <2>4. QED
    BY <2>1, <2>2, <2>3
<1>7. SumFunctionOnSet(a, D) = a[1] + SumFunctionOnSet(a, D \ {1})
  BY <1>4, <1>6, SumRemove
<1>8. \A i \in E : h[i] = i + 1 /\ i \in Nat
  BY <1>3
<1>9. \A x, y \in E : h[x] = h[y] => x = y
  BY <1>8
<1>10. \A i \in E : b[i] \in Int /\ a[h[i]] = b[i]
  BY <1>2, <1>3, <1>5, <1>8
<1>11. /\ IsFiniteSet({h[x] : x \in E})
       /\ SumFunctionOnSet(a, {h[x] : x \in E}) = SumFunctionOnSet(b, E)
  <2>1. IsFiniteSet(E)
    BY <1>5
  <2>2. QED
    BY <1>9, <1>10, <2>1, SumImage
<1>12. a[1] = Amount(Head(s), u, f)
  BY <1>2, <1>3, <1>6
<1>13. Signs(s) => Signs(Tail(s))
  <2>1. \A i \in E : i + 1 \in D
    BY <1>3
  <2>2. QED
    BY <1>2, <1>3, <1>4, <1>5, <2>1 DEF Signs
<1>14. QED
  BY <1>2, <1>4, <1>5, <1>6, <1>7, <1>11, <1>12, <1>13

\* What is left to a buyer of what a trade unlocks.
Saved(t) == IF t.locked > t.settled THEN t.locked - t.settled ELSE 0
\* settle_cache, one increment after another.
LEMMA SettleEntries ==
    ASSUME NEW t \in Trades
    PROVE  LET s == SettleCache(t)
           IN /\ DOMAIN s = (IF t.locked > t.settled THEN 1 .. 5 ELSE 1 .. 4)
              /\ s[1] = Incr(t.seller, "heldShares", -t.quantity)
              /\ s[2] = Incr(t.seller, "cash", t.settled)
              /\ s[3] = Incr(t.buyer, "held", -t.locked)
              /\ s[4] = Incr(t.buyer, "shares", t.quantity)
              /\ t.locked > t.settled => s[5] = Incr(t.buyer, "cash", t.locked - t.settled)
<1> DEFINE first == <<Incr(t.seller, "heldShares", -t.quantity),
                      Incr(t.seller, "cash", t.settled),
                      Incr(t.buyer, "held", -t.locked),
                      Incr(t.buyer, "shares", t.quantity)>>
           refund == Incr(t.buyer, "cash", t.locked - t.settled)
           last == IF t.locked > t.settled THEN <<refund>> ELSE <<>>
<1>1. SettleCache(t) = first \o last
  BY DEF SettleCache
<1>2. PICK S : /\ first \in Seq(S) /\ last \in Seq(S)
  <2>1. PICK S : S = {first[1], first[2], first[3], first[4], refund}
    OBVIOUS
  <2>2. first \in Seq(S)
    BY <2>1
  <2>3. last \in Seq(S)
    <3>1. refund \in S
      BY <2>1
    <3>2. CASE t.locked > t.settled
      <4>1. last = <<refund>>
        BY <3>2
      <4> HIDE DEF last, refund
      <4>2. QED
        BY <3>1, <4>1
    <3>3. CASE ~(t.locked > t.settled)
      <4>1. last = <<>>
        BY <3>3
      <4> HIDE DEF last, refund
      <4>2. QED
        BY <4>1
    <3>4. QED
      BY <3>2, <3>3
  <2>4. QED
    BY <2>2, <2>3
<1>3. /\ Len(first) = 4 /\ Len(last) = (IF t.locked > t.settled THEN 1 ELSE 0)
      /\ first[1] = Incr(t.seller, "heldShares", -t.quantity)
      /\ first[2] = Incr(t.seller, "cash", t.settled)
      /\ first[3] = Incr(t.buyer, "held", -t.locked)
      /\ first[4] = Incr(t.buyer, "shares", t.quantity)
      /\ t.locked > t.settled => last[1] = Incr(t.buyer, "cash", t.locked - t.settled)
  OBVIOUS
<1> HIDE DEF first, last
<1>4. PICK n : n = IF t.locked > t.settled THEN 5 ELSE 4
  OBVIOUS
<1>5. /\ first \o last \in Seq(S) /\ Len(first \o last) = n
      /\ \A i \in 1 .. n : (first \o last)[i] = IF i =< 4 THEN first[i] ELSE last[i - 4]
  <2>1. /\ first \o last \in Seq(S) /\ Len(first \o last) = Len(first) + Len(last)
        /\ \A i \in 1 .. Len(first) + Len(last) : (first \o last)[i] =
              IF i =< Len(first) THEN first[i] ELSE last[i - Len(first)]
    BY <1>2, ConcatProperties
  <2>2. Len(first) + Len(last) = n
    BY <1>3, <1>4
  <2>3. QED
    BY <1>3, <2>1, <2>2
<1>6. DOMAIN (first \o last) = 1 .. n /\ \A i \in 1 .. 4 : i \in 1 .. n /\ i =< 4
  BY <1>4, <1>5
<1>7. \A i \in 1 .. 4 : (first \o last)[i] = first[i]
  BY <1>5, <1>6
<1>8. t.locked > t.settled => (first \o last)[5] = last[1]
  BY <1>4, <1>5
<1>9. PICK s : s = first \o last /\ s = SettleCache(t)
  BY <1>1
<1>10. s[1] = first[1] /\ s[2] = first[2] /\ s[3] = first[3] /\ s[4] = first[4]
  BY <1>7, <1>9
<1>11. DOMAIN s = (IF t.locked > t.settled THEN 1 .. 5 ELSE 1 .. 4)
  BY <1>4, <1>6, <1>9
<1>12. t.locked > t.settled => s[5] = last[1]
  BY <1>8, <1>9
<1>13. QED
  BY <1>3, <1>9, <1>10, <1>11, <1>12

\* What settle_cache does to each field of each user, for a trade with oneself
\* too.
LEMMA PartSettle ==
    ASSUME NEW t \in Trades, NEW u
    PROVE  /\ Signs(SettleCache(t))
           /\ Part(SettleCache(t), u, "cash") = (IF u = t.seller THEN t.settled ELSE 0)
                                              + (IF u = t.buyer THEN Saved(t) ELSE 0)
           /\ Part(SettleCache(t), u, "shares") = (IF u = t.buyer THEN t.quantity ELSE 0)
           /\ Part(SettleCache(t), u, "held") = (IF u = t.buyer THEN -t.locked ELSE 0)
           /\ Part(SettleCache(t), u, "heldShares")
                = (IF u = t.seller THEN -t.quantity ELSE 0)
<1>1. t.quantity \in Nat /\ t.settled \in Nat /\ t.locked \in Nat /\ Saved(t) \in Nat
  BY TradeFields DEF Saved
<1>2. PICK s, D : s = SettleCache(t) /\ D = DOMAIN s
  OBVIOUS
<1>3. /\ D = (IF t.locked > t.settled THEN 1 .. 5 ELSE 1 .. 4)
      /\ s[1] = Incr(t.seller, "heldShares", -t.quantity)
      /\ s[2] = Incr(t.seller, "cash", t.settled)
      /\ s[3] = Incr(t.buyer, "held", -t.locked)
      /\ s[4] = Incr(t.buyer, "shares", t.quantity)
      /\ t.locked > t.settled => s[5] = Incr(t.buyer, "cash", t.locked - t.settled)
  BY <1>2, SettleEntries
<1>4. 1 \in D /\ 2 \in D /\ 3 \in D /\ 4 \in D
  BY <1>3
<1>5. \A i \in D \ {1, 2, 3, 4} : i = 5 /\ t.locked > t.settled
                                  /\ s[i] = Incr(t.buyer, "cash", t.locked - t.settled)
  BY <1>3
<1>6. /\ s[1].user = t.seller /\ s[1].field = "heldShares" /\ s[1].by = -t.quantity
      /\ s[2].user = t.seller /\ s[2].field = "cash" /\ s[2].by = t.settled
      /\ s[3].user = t.buyer /\ s[3].field = "held" /\ s[3].by = -t.locked
      /\ s[4].user = t.buyer /\ s[4].field = "shares" /\ s[4].by = t.quantity
  BY <1>3 DEF Incr
<1>7. \A i \in D \ {1, 2, 3, 4} :
         i = 5 /\ s[i].user = t.buyer /\ s[i].field = "cash" /\ s[i].by = Saved(t)
  BY <1>5 DEF Incr, Saved
<1>8. Signs(s)
  <2>1. \A i \in D : i \in {1, 2, 3, 4} \/ i \in D \ {1, 2, 3, 4}
    OBVIOUS
  <2>2. QED
    BY <1>1, <1>2, <1>6, <1>7, <2>1 DEF Signs, Available, Locked
<1>9. /\ IsFiniteSet(D)
      /\ \A f : Part(s, u, f) = SumFunctionOnSet([i \in D |-> Amount(s[i], u, f)], D)
      /\ \A f : \A i \in D : Amount(s[i], u, f) \in Int
  <2>1. s \in Seq(Increment)
    BY <1>2, SettleCacheType
  <2>2. D = 1 .. Len(s)
    BY <1>2, <2>1
  <2>3. IsFiniteSet(D)
    BY <1>2, <2>1, PartSum
  <2>4. ASSUME NEW f
        PROVE  /\ Part(s, u, f) = SumFunctionOnSet([i \in D |-> Amount(s[i], u, f)], D)
               /\ \A i \in D : Amount(s[i], u, f) \in Int
    BY <2>1, <2>2, PartSum
  <2>5. QED
    BY <2>3, <2>4
<1>10. Part(s, u, "shares") = (IF u = t.buyer THEN t.quantity ELSE 0)
  <2>1. PICK a : a = [i \in D |-> Amount(s[i], u, "shares")]
    OBVIOUS
  <2>2. a[4] = (IF u = t.buyer THEN t.quantity ELSE 0) /\ a[4] \in Int
    BY <1>1, <1>4, <1>6, <2>1 DEF Amount
  <2>3. \A i \in D \ {4} : a[i] = 0
    <3>1. \A i \in D \ {4} : i \in {1, 2, 3} \/ i \in D \ {1, 2, 3, 4}
      OBVIOUS
    <3>2. QED
      BY <1>4, <1>6, <1>7, <2>1, <3>1 DEF Amount
  <2>4. SumFunctionOnSet(a, D) = a[4]
    BY <1>4, <1>9, <2>2, <2>3, SumOne
  <2>5. QED
    BY <1>9, <2>1, <2>2, <2>4
<1>11. Part(s, u, "held") = (IF u = t.buyer THEN -t.locked ELSE 0)
  <2>1. PICK a : a = [i \in D |-> Amount(s[i], u, "held")]
    OBVIOUS
  <2>2. a[3] = (IF u = t.buyer THEN -t.locked ELSE 0) /\ a[3] \in Int
    BY <1>1, <1>4, <1>6, <2>1 DEF Amount
  <2>3. \A i \in D \ {3} : a[i] = 0
    <3>1. \A i \in D \ {3} : i \in {1, 2, 4} \/ i \in D \ {1, 2, 3, 4}
      OBVIOUS
    <3>2. QED
      BY <1>4, <1>6, <1>7, <2>1, <3>1 DEF Amount
  <2>4. SumFunctionOnSet(a, D) = a[3]
    BY <1>4, <1>9, <2>2, <2>3, SumOne
  <2>5. QED
    BY <1>9, <2>1, <2>2, <2>4
<1>12. Part(s, u, "heldShares") = (IF u = t.seller THEN -t.quantity ELSE 0)
  <2>1. PICK a : a = [i \in D |-> Amount(s[i], u, "heldShares")]
    OBVIOUS
  <2>2. a[1] = (IF u = t.seller THEN -t.quantity ELSE 0) /\ a[1] \in Int
    BY <1>1, <1>4, <1>6, <2>1 DEF Amount
  <2>3. \A i \in D \ {1} : a[i] = 0
    <3>1. \A i \in D \ {1} : i \in {2, 3, 4} \/ i \in D \ {1, 2, 3, 4}
      OBVIOUS
    <3>2. QED
      BY <1>4, <1>6, <1>7, <2>1, <3>1 DEF Amount
  <2>4. SumFunctionOnSet(a, D) = a[1]
    BY <1>4, <1>9, <2>2, <2>3, SumOne
  <2>5. QED
    BY <1>9, <2>1, <2>2, <2>4
<1>13. Part(s, u, "cash") = (IF u = t.seller THEN t.settled ELSE 0)
                          + (IF u = t.buyer THEN Saved(t) ELSE 0)
  <2>1. PICK a, E : a = [i \in D |-> Amount(s[i], u, "cash")] /\ E = D \ {2}
    OBVIOUS
  <2>2. a[2] = (IF u = t.seller THEN t.settled ELSE 0) /\ \A i \in D : a[i] \in Int
    BY <1>1, <1>4, <1>6, <1>9, <2>1 DEF Amount
  <2>3. SumFunctionOnSet(a, D) = a[2] + SumFunctionOnSet(a, E)
    BY <1>4, <1>9, <2>1, <2>2, SumRemove
  <2>4. IsFiniteSet(E)
    BY <1>9, <2>1, FS_Subset
  <2>5. \A i \in E \ {5} : a[i] = 0
    <3>1. \A i \in E \ {5} : i \in {1, 3, 4}
      BY <1>7, <2>1
    <3>2. QED
      BY <1>4, <1>6, <2>1, <3>1 DEF Amount
  <2>6. SumFunctionOnSet(a, E) = IF u = t.buyer THEN Saved(t) ELSE 0
    <3>1. CASE t.locked > t.settled
      <4>1. 5 \in E /\ 5 \in D \ {1, 2, 3, 4}
        BY <1>3, <2>1, <3>1
      <4>2. a[5] = (IF u = t.buyer THEN Saved(t) ELSE 0) /\ a[5] \in Int
        BY <1>1, <1>7, <2>1, <4>1 DEF Amount
      <4>3. SumFunctionOnSet(a, E) = a[5]
        BY <2>4, <2>5, <4>1, <4>2, SumOne
      <4>4. QED
        BY <4>2, <4>3
    <3>2. CASE ~(t.locked > t.settled)
      <4>1. \A i \in E : a[i] = 0
        BY <1>5, <1>4, <2>1, <2>5, <3>2, <1>3
      <4>2. SumFunctionOnSet(a, E) = 0
        BY <2>4, <4>1, SumZero
      <4>3. QED
        BY <3>2, <4>2 DEF Saved
    <3>3. QED
      BY <3>1, <3>2
  <2>7. QED
    BY <1>9, <2>1, <2>2, <2>3, <2>6
<1>14. QED
  BY <1>2, <1>8, <1>10, <1>11, <1>12, <1>13

\* One more trade in a sum over trades.
LEMMA TradeSums ==
    ASSUME NEW S \in SUBSET Trades
    PROVE  /\ Held(S) \in Nat /\ Quantity(S) \in Nat /\ Settled(S) \in Nat
           /\ \A t \in Trades \ S : /\ Held(S \cup {t}) = Held(S) + t.held
                                    /\ Quantity(S \cup {t}) = Quantity(S) + t.quantity
                                    /\ Settled(S \cup {t}) = Settled(S) + t.settled
<1>1. PICK h, q, p : /\ h = [t \in Trades |-> t.held] /\ q = [t \in Trades |-> t.quantity]
                     /\ p = [t \in Trades |-> t.settled]
  OBVIOUS
<1>2. \A x \in Trades : /\ h[x] = x.held /\ q[x] = x.quantity /\ p[x] = x.settled
                        /\ h[x] \in Nat /\ q[x] \in Nat /\ p[x] \in Nat
  BY <1>1, TradeFields
<1>3. ASSUME NEW T \in SUBSET Trades
      PROVE  /\ IsFiniteSet(T)
             /\ Held(T) = SumFunctionOnSet(h, T) /\ Quantity(T) = SumFunctionOnSet(q, T)
             /\ Settled(T) = SumFunctionOnSet(p, T)
             /\ Held(T) \in Nat /\ Quantity(T) \in Nat /\ Settled(T) \in Nat
  <2>1. IsFiniteSet(T)
    BY FiniteAssumption, FS_Subset
  <2>2. PICK a, b, c : /\ a = [t \in T |-> t.held] /\ b = [t \in T |-> t.quantity]
                       /\ c = [t \in T |-> t.settled]
    OBVIOUS
  <2>3. /\ \A x \in T : a[x] = h[x] /\ a[x] \in Nat
        /\ \A x \in T : b[x] = q[x] /\ b[x] \in Nat
        /\ \A x \in T : c[x] = p[x] /\ c[x] \in Nat
    BY <1>2, <2>2
  <2>4. /\ Held(T) = SumFunctionOnSet(a, T) /\ Quantity(T) = SumFunctionOnSet(b, T)
        /\ Settled(T) = SumFunctionOnSet(c, T)
    BY <2>2 DEF Held, Quantity, Settled, SumFunction
  <2>5. /\ SumFunctionOnSet(a, T) \in Nat /\ SumFunctionOnSet(b, T) \in Nat
        /\ SumFunctionOnSet(c, T) \in Nat
    BY <2>1, <2>3, SumNat
  <2>6. /\ SumFunctionOnSet(a, T) = SumFunctionOnSet(h, T)
        /\ SumFunctionOnSet(b, T) = SumFunctionOnSet(q, T)
        /\ SumFunctionOnSet(c, T) = SumFunctionOnSet(p, T)
    BY <2>1, <2>3, SumSame
  <2>7. QED
    BY <2>1, <2>4, <2>5, <2>6
<1>4. ASSUME NEW t \in Trades \ S
      PROVE  /\ Held(S \cup {t}) = Held(S) + t.held
             /\ Quantity(S \cup {t}) = Quantity(S) + t.quantity
             /\ Settled(S \cup {t}) = Settled(S) + t.settled
  <2>1. S \cup {t} \in SUBSET Trades /\ t \notin S
    OBVIOUS
  <2>2. IsFiniteSet(S) /\ h[t] \in Int /\ q[t] \in Int /\ p[t] \in Int
    BY <1>2, <1>3
  <2>3. (\A y \in S : h[y] \in Int) /\ (\A y \in S : q[y] \in Int) /\ (\A y \in S : p[y] \in Int)
    BY <1>2
  <2>4. /\ SumFunctionOnSet(h, S \cup {t}) = SumFunctionOnSet(h, S) + h[t]
        /\ SumFunctionOnSet(q, S \cup {t}) = SumFunctionOnSet(q, S) + q[t]
        /\ SumFunctionOnSet(p, S \cup {t}) = SumFunctionOnSet(p, S) + p[t]
    BY <2>1, <2>2, <2>3, SumAdd
  <2>5. /\ Held(S \cup {t}) = SumFunctionOnSet(h, S \cup {t})
        /\ Quantity(S \cup {t}) = SumFunctionOnSet(q, S \cup {t})
        /\ Settled(S \cup {t}) = SumFunctionOnSet(p, S \cup {t})
    BY <1>3, <2>1
  <2>6. /\ Held(S) = SumFunctionOnSet(h, S) /\ Quantity(S) = SumFunctionOnSet(q, S)
        /\ Settled(S) = SumFunctionOnSet(p, S)
    BY <1>3
  <2>7. QED
    BY <1>2, <2>4, <2>5, <2>6
<1>5. Held(S) \in Nat /\ Quantity(S) \in Nat /\ Settled(S) \in Nat
  BY <1>3
<1>6. QED
  BY <1>4, <1>5

(***************************************************************************)
(* The balances.                                                           *)
(***************************************************************************)
\* What the open balances are when no user trades with himself: the opening
\* balance and the whole of each recorded trade.
LEMMA NextBooks ==
    ASSUME NoOwnTrades, TypeOK, LockedRows, BooksBalance, [Next]_vars
    PROVE  BooksBalance'
<1>1. [Book!Next]_<<cash, shares, rows>>
  BY StepRefines
<1>2. CASE UNCHANGED <<cash, shares, rows>>
  BY <1>2 DEF BooksBalance
<1>3. ASSUME NEW t \in Trades, Book!Post(t)
      PROVE  BooksBalance'
  <2>1. /\ t.buyer \in Users /\ t.seller \in Users /\ t.buyer # t.seller
        /\ t.quantity \in Nat /\ t.settled \in Nat
    BY TradeFields DEF NoOwnTrades
  <2>2. /\ cash \in [Users -> Int] /\ shares \in [Users -> Int] /\ rows \subseteq Trades
    BY DEF TypeOK, DbTypes
  <2>3. t \notin rows /\ rows' = rows \cup {t}
    BY <1>3 DEF Book!Post
  <2> SUFFICES ASSUME NEW u \in Users
               PROVE  /\ cash'[u] = StartCash
                           - Settled({x \in rows' : x.buyer = u})
                           + Settled({x \in rows' : x.seller = u})
                      /\ shares'[u] = StartShares
                           + Quantity({x \in rows' : x.buyer = u})
                           - Quantity({x \in rows' : x.seller = u})
    BY DEF BooksBalance
  <2>4. PICK B, S : B = {x \in rows : x.buyer = u} /\ S = {x \in rows : x.seller = u}
    OBVIOUS
  <2>5. PICK B1, S1 : B1 = {x \in rows' : x.buyer = u} /\ S1 = {x \in rows' : x.seller = u}
    OBVIOUS
  <2>6. B \in SUBSET Trades /\ S \in SUBSET Trades /\ t \in Trades \ B /\ t \in Trades \ S
    BY <2>2, <2>3, <2>4
  <2>7. /\ Settled(B) \in Nat /\ Settled(S) \in Nat /\ Quantity(B) \in Nat /\ Quantity(S) \in Nat
        /\ Settled(B \cup {t}) = Settled(B) + t.settled
        /\ Settled(S \cup {t}) = Settled(S) + t.settled
        /\ Quantity(B \cup {t}) = Quantity(B) + t.quantity
        /\ Quantity(S \cup {t}) = Quantity(S) + t.quantity
    BY <2>6, TradeSums
  <2>8. /\ cash'[u] = cash[u] - (IF u = t.buyer THEN t.settled ELSE 0)
                              + (IF u = t.seller THEN t.settled ELSE 0)
        /\ shares'[u] = shares[u] + (IF u = t.buyer THEN t.quantity ELSE 0)
                                  - (IF u = t.seller THEN t.quantity ELSE 0)
    BY <1>3, <2>1, <2>2 DEF Book!Post, Book!Move
  <2>9. /\ cash[u] = StartCash - Settled(B) + Settled(S)
        /\ shares[u] = StartShares + Quantity(B) - Quantity(S)
    BY <2>4 DEF BooksBalance
  <2>10. StartCash \in Nat /\ StartShares \in Nat
    BY NumbersAssumption
  <2>11. /\ u = t.buyer => B1 = B \cup {t}
         /\ u # t.buyer => B1 = B
         /\ u = t.seller => S1 = S \cup {t}
         /\ u # t.seller => S1 = S
    BY <2>3, <2>4, <2>5
  <2>12. /\ Settled(B1) = Settled(B) + (IF u = t.buyer THEN t.settled ELSE 0)
         /\ Quantity(B1) = Quantity(B) + (IF u = t.buyer THEN t.quantity ELSE 0)
    BY <2>7, <2>11
  <2>13. /\ Settled(S1) = Settled(S) + (IF u = t.seller THEN t.settled ELSE 0)
         /\ Quantity(S1) = Quantity(S) + (IF u = t.seller THEN t.quantity ELSE 0)
    <3>1. CASE u = t.seller
      <4>1. Settled(S1) = Settled(S \cup {t}) /\ Quantity(S1) = Quantity(S \cup {t})
        BY <2>11, <3>1
      <4>2. QED
        BY <2>7, <3>1, <4>1
    <3>2. CASE u # t.seller
      <4>1. Settled(S1) = Settled(S) /\ Quantity(S1) = Quantity(S)
        BY <2>11, <3>2
      <4>2. QED
        BY <2>7, <3>2, <4>1
    <3>3. QED
      BY <3>1, <3>2
  <2>14. /\ cash'[u] = StartCash - Settled(B1) + Settled(S1)
         /\ shares'[u] = StartShares + Quantity(B1) - Quantity(S1)
    BY <2>1, <2>7, <2>8, <2>9, <2>10, <2>12, <2>13
  <2>15. QED
    BY <2>5, <2>14
<1>4. QED
  BY <1>1, <1>2, <1>3 DEF Book!Next

\* Without trades of a user with himself, the balances in Postgres are at every
\* moment the opening balances and the whole of each recorded trade, whatever
\* the faults and however many daemons settle.
THEOREM BooksBalanced ==
    ASSUME NoOwnTrades
    PROVE  Spec => []BooksBalance
<1>1. Init => LockedRows /\ BooksBalance
  <2> SUFFICES ASSUME Init PROVE LockedRows /\ BooksBalance
    OBVIOUS
  <2>1. LockedRows
    BY DEF Init, LockedRows
  <2>2. PICK N : N = {}
    OBVIOUS
  <2>3. Settled(N) = 0 /\ Quantity(N) = 0
    BY <2>2, SumOfNone DEF Settled, Quantity
  <2>4. \A u \in Users : {t \in rows : t.buyer = u} = N /\ {t \in rows : t.seller = u} = N
    BY <2>2 DEF Init
  <2>5. \A u \in Users : cash[u] = StartCash /\ shares[u] = StartShares
    BY DEF Init
  <2>6. ASSUME NEW u \in Users
        PROVE  /\ cash[u] = StartCash - Settled({t \in rows : t.buyer = u})
                           + Settled({t \in rows : t.seller = u})
               /\ shares[u] = StartShares + Quantity({t \in rows : t.buyer = u})
                             - Quantity({t \in rows : t.seller = u})
    <3>1. PICK B, S : B = {t \in rows : t.buyer = u} /\ S = {t \in rows : t.seller = u}
      OBVIOUS
    <3>2. Settled(B) = 0 /\ Settled(S) = 0 /\ Quantity(B) = 0 /\ Quantity(S) = 0
      BY <2>3, <2>4, <3>1
    <3>3. /\ cash[u] = StartCash - Settled(B) + Settled(S)
          /\ shares[u] = StartShares + Quantity(B) - Quantity(S)
      BY <2>5, <3>2, NumbersAssumption
    <3>4. QED
      BY <3>1, <3>3
  <2>7. QED
    BY <2>1, <2>6 DEF BooksBalance
<1>2. TypeOK /\ LockedRows /\ BooksBalance /\ [Next]_vars => BooksBalance'
  BY NextBooks
<1>3. QED
  BY <1>1, <1>2, InitTypes, NextTypes, NextRows, PTL DEF Spec

(***************************************************************************)
(* The cached balances.                                                    *)
(***************************************************************************)
\* The increments a daemon has still to send for the trade it has committed,
\* and what those of all daemons will do to a field of a user.
Remaining(d) == IF pc[d] = "ack" THEN SettleCache(Current(d)) ELSE todo[d]
Coming(u, f) == SumFunction([d \in Daemons |-> Part(Remaining(d), u, f)])

Signed == \A d \in Daemons : Signs(Remaining(d))
\* A trade of the stream, of its snapshot, of a batch or of the ledger has both
\* its holds.
Reserved ==
    /\ \A t \in ToSet(stream) : reserved[t] = {"buy", "sell"}
    /\ \A t \in ToSet(saved.stream) : reserved[t] = {"buy", "sell"}
    /\ \A d \in Daemons : \A t \in ToSet(batch[d]) : reserved[t] = {"buy", "sell"}
    /\ \A t \in rows : reserved[t] = {"buy", "sell"}
\* What is available to a user, with what is on its way to him and what his
\* unsettled trades will take, is in the ledger; what is locked for him, without
\* what is about to be unlocked, covers his unsettled trades.
BackedFor(u) ==
    /\ 0 =< cache[u].cash /\ 0 =< cache[u].shares
    /\ cache[u].cash + Coming(u, "cash") + Held(OpenBuys(u)) =< cash[u]
    /\ cache[u].shares + Coming(u, "shares") + Quantity(OpenSells(u)) =< shares[u]
    /\ cache[u].held + Coming(u, "held") >= Held(OpenBuys(u))
    /\ cache[u].heldShares + Coming(u, "heldShares") >= Quantity(OpenSells(u))
Backed == \A u \in Sure : BackedFor(u)

LEMMA RemainingType ==
    ASSUME DaemonTypes, NEW d \in Daemons
    PROVE  /\ Remaining(d) \in Seq(Increment)
           /\ pc[d] \notin {"ack", "cache"} => Remaining(d) = <<>>
<1>1. CASE pc[d] = "ack"
  BY <1>1, CurrentIsTrade, SettleCacheType DEF Remaining, Busy
<1>2. CASE pc[d] # "ack"
  BY <1>2 DEF Remaining, DaemonTypes
<1>3. QED
  BY <1>1, <1>2

\* The same, one step later.
LEMMA RemainingTypes == DaemonTypes => \A d \in Daemons : Remaining(d) \in Seq(Increment)
BY RemainingType
LEMMA RemainingNextTypes ==
    DaemonTypes' => \A d \in Daemons : Remaining(d)' \in Seq(Increment)
<1>1. DaemonTypes' => (\A d \in Daemons : Remaining(d) \in Seq(Increment))'
  BY RemainingTypes, PTL
<1>2. QED
  BY <1>1

LEMMA ComingSum ==
    ASSUME DaemonTypes, NEW u, NEW f
    PROVE  /\ Coming(u, f) = SumFunctionOnSet([d \in Daemons |-> Part(Remaining(d), u, f)], Daemons)
           /\ Coming(u, f) \in Int
           /\ \A d \in Daemons : Part(Remaining(d), u, f) \in Int
<1>1. PICK a : a = [d \in Daemons |-> Part(Remaining(d), u, f)]
  OBVIOUS
<1>2. \A d \in Daemons : Part(Remaining(d), u, f) \in Int
  BY RemainingType, PartSign
<1>3. \A d \in Daemons : a[d] \in Int
  BY <1>1, <1>2
<1>4. SumFunctionOnSet(a, Daemons) \in Int
  BY <1>3, FiniteAssumption, SumInt
<1>5. Coming(u, f) = SumFunctionOnSet(a, Daemons)
  BY <1>1 DEF Coming, SumFunction
<1>6. QED
  BY <1>1, <1>2, <1>4, <1>5

\* The sign of what is coming.
LEMMA ComingSign ==
    ASSUME DaemonTypes, Signed, NEW u
    PROVE  /\ Coming(u, "cash") >= 0 /\ Coming(u, "shares") >= 0
           /\ Coming(u, "held") =< 0 /\ Coming(u, "heldShares") =< 0
<1>1. PICK z, D : z = [d \in Daemons |-> 0] /\ D = Daemons
  OBVIOUS
<1>2. SumFunctionOnSet(z, D) = 0 /\ IsFiniteSet(D)
  <2>1. \A d \in D : z[d] = 0
    BY <1>1
  <2>2. IsFiniteSet(D)
    BY <1>1, FiniteAssumption
  <2>3. QED
    BY <2>1, <2>2, SumZero
<1>3. ASSUME NEW f \in Available
      PROVE  Coming(u, f) >= 0
  <2>1. PICK a : a = [d \in Daemons |-> Part(Remaining(d), u, f)]
    OBVIOUS
  <2>2. \A d \in D : z[d] \in Int /\ a[d] \in Int /\ z[d] =< a[d]
    BY <1>1, <2>1, RemainingType, PartSign DEF Signed
  <2>3. SumFunctionOnSet(z, D) =< SumFunctionOnSet(a, D)
    BY <1>2, <2>2, SumLess
  <2>4. Coming(u, f) = SumFunctionOnSet(a, D) /\ Coming(u, f) \in Int
    BY <1>1, <2>1, ComingSum
  <2>5. QED
    BY <1>2, <2>3, <2>4
<1>4. ASSUME NEW f \in Locked
      PROVE  Coming(u, f) =< 0
  <2>1. PICK a : a = [d \in Daemons |-> Part(Remaining(d), u, f)]
    OBVIOUS
  <2>2. \A d \in D : a[d] \in Int /\ z[d] \in Int /\ a[d] =< z[d]
    BY <1>1, <2>1, RemainingType, PartSign DEF Signed
  <2>3. SumFunctionOnSet(a, D) =< SumFunctionOnSet(z, D)
    BY <1>2, <2>2, SumLess
  <2>4. Coming(u, f) = SumFunctionOnSet(a, D) /\ Coming(u, f) \in Int
    BY <1>1, <2>1, ComingSum
  <2>5. QED
    BY <1>2, <2>3, <2>4
<1>5. QED
  BY <1>3, <1>4 DEF Available, Locked

\* What is coming changes by what one daemon has yet to send.
LEMMA ComingStep ==
    ASSUME DaemonTypes, DaemonTypes', NEW d \in Daemons,
           \A e \in Daemons \ {d} : Remaining(e)' = Remaining(e),
           NEW u, NEW f
    PROVE  Coming(u, f)' = Coming(u, f) - Part(Remaining(d), u, f) + Part(Remaining(d)', u, f)
<1>1. PICK D, a, b : /\ D = Daemons /\ a = [e \in Daemons |-> Part(Remaining(e), u, f)]
                     /\ b = [e \in Daemons |-> Part(Remaining(e)', u, f)]
  OBVIOUS
<1>2. /\ Coming(u, f) = SumFunctionOnSet(a, D) /\ \A e \in D : a[e] \in Int
  BY <1>1, ComingSum
<1>3. \A e \in D : b[e] \in Int
  <2>1. \A e \in Daemons : Remaining(e)' \in Seq(Increment)
    BY RemainingNextTypes
  <2>2. QED
    BY <1>1, <2>1, PartSign
<1>4. Coming(u, f)' = SumFunctionOnSet(b, D)
  BY <1>1 DEF Coming, SumFunction
<1>5. \A e \in D \ {d} : a[e] = b[e]
  BY <1>1
<1>6. IsFiniteSet(D) /\ d \in D
  BY <1>1, FiniteAssumption
<1>7. PICK E, x, y, c : /\ E = D /\ x = a /\ y = b /\ c = d
  OBVIOUS
<1>8. SumFunctionOnSet(y, E) = SumFunctionOnSet(x, E) - x[c] + y[c]
  <2>1. /\ IsFiniteSet(E) /\ c \in E /\ \A e \in E \ {c} : x[e] = y[e]
    BY <1>5, <1>6, <1>7
  <2>2. \A e \in E : x[e] \in Int
    BY <1>2, <1>7
  <2>3. \A e \in E : y[e] \in Int
    BY <1>3, <1>7
  <2>4. QED
    BY <2>1, <2>2, <2>3, SumChange
<1>9. QED
  BY <1>1, <1>2, <1>4, <1>6, <1>7, <1>8

\* Nothing comes or goes: the daemons go on as they were.
LEMMA ComingSame ==
    ASSUME \A e \in Daemons : Remaining(e)' = Remaining(e), NEW u, NEW f
    PROVE  Coming(u, f)' = Coming(u, f)
BY DEF Coming

LEMMA BackedInts ==
    ASSUME TypeOK, NEW u \in Users
    PROVE  /\ cache[u].cash \in Int /\ cache[u].held \in Int
           /\ cache[u].shares \in Int /\ cache[u].heldShares \in Int
           /\ cash[u] \in Int /\ shares[u] \in Int
           /\ Coming(u, "cash") \in Int /\ Coming(u, "shares") \in Int
           /\ Coming(u, "held") \in Int /\ Coming(u, "heldShares") \in Int
           /\ OpenBuys(u) \in SUBSET Trades /\ OpenSells(u) \in SUBSET Trades
           /\ Held(OpenBuys(u)) \in Nat /\ Quantity(OpenSells(u)) \in Nat
<1>1. OpenBuys(u) \in SUBSET Trades /\ OpenSells(u) \in SUBSET Trades
  BY DEF OpenBuys, OpenSells
<1>2. Held(OpenBuys(u)) \in Nat /\ Quantity(OpenSells(u)) \in Nat
  BY <1>1, TradeSums
<1>3. /\ cache[u].cash \in Int /\ cache[u].held \in Int
      /\ cache[u].shares \in Int /\ cache[u].heldShares \in Int
      /\ cash[u] \in Int /\ shares[u] \in Int
  BY DEF TypeOK, CacheTypes, DbTypes, Account
<1>4. \A f : Coming(u, f) \in Int
  BY ComingSum DEF TypeOK
<1>5. QED
  BY <1>1, <1>2, <1>3, <1>4

LEMMA Slack ==
    ASSUME NEW x \in Int, NEW p \in Int, NEW q \in Int, NEW h \in Int, NEW c \in Int
    PROVE  /\ q =< p /\ x + p + h =< c => x + q + h =< c
           /\ q >= p /\ x + p >= h => x + q >= h
OBVIOUS

\* A step that only lets a daemon forget what it has to send, if anything.
LEMMA BackedDrop ==
    ASSUME TypeOK, TypeOK', Signed, NEW u \in Users, BackedFor(u),
           NEW d \in Daemons, \A e \in Daemons \ {d} : Remaining(e)' = Remaining(e),
           Remaining(d)' \in {Remaining(d), <<>>},
           UNCHANGED <<cache, cash, shares, rows, reserved>>
    PROVE  BackedFor(u)'
<1>1. /\ Held(OpenBuys(u))' = Held(OpenBuys(u))
      /\ Quantity(OpenSells(u))' = Quantity(OpenSells(u))
  BY DEF OpenBuys, OpenSells
<1>2. ASSUME NEW f
      PROVE  /\ Coming(u, f) \in Int /\ Coming(u, f)' \in Int
             /\ f \in Available => Coming(u, f)' =< Coming(u, f)
             /\ f \in Locked => Coming(u, f)' >= Coming(u, f)
  <2>1. /\ Part(Remaining(d), u, f) \in Int /\ Coming(u, f) \in Int
        /\ f \in Available => Part(Remaining(d), u, f) >= 0
        /\ f \in Locked => Part(Remaining(d), u, f) =< 0
    BY RemainingType, PartSign, ComingSum DEF TypeOK, Signed
  <2>2. PICK x, y, z : /\ x = Part(Remaining(d), u, f) /\ y = Coming(u, f)
                       /\ z = Part(Remaining(d)', u, f)
    OBVIOUS
  <2>3. z \in {x, 0}
    BY <2>2, PartEmpty
  <2>4. Coming(u, f)' = y - x + z
    BY <2>2, ComingStep DEF TypeOK
  <2>5. QED
    BY <2>1, <2>2, <2>3, <2>4
<1>3. /\ Coming(u, "cash")' =< Coming(u, "cash") /\ Coming(u, "shares")' =< Coming(u, "shares")
      /\ Coming(u, "held")' >= Coming(u, "held")
      /\ Coming(u, "heldShares")' >= Coming(u, "heldShares")
      /\ Coming(u, "cash")' \in Int /\ Coming(u, "shares")' \in Int
      /\ Coming(u, "held")' \in Int /\ Coming(u, "heldShares")' \in Int
  BY <1>2 DEF Available, Locked
<1>4. cache' = cache /\ cash' = cash /\ shares' = shares
  OBVIOUS
<1>5. /\ Coming(u, "cash") \in Int /\ Coming(u, "shares") \in Int
      /\ Coming(u, "held") \in Int /\ Coming(u, "heldShares") \in Int
      /\ Held(OpenBuys(u)) \in Int /\ Quantity(OpenSells(u)) \in Int
  BY BackedInts
<1>6. /\ cache[u].cash \in Int /\ cache[u].held \in Int
      /\ cache[u].shares \in Int /\ cache[u].heldShares \in Int
      /\ cash[u] \in Int /\ shares[u] \in Int
  BY BackedInts
<1>7. cache'[u].cash + Coming(u, "cash")' + Held(OpenBuys(u))' =< cash'[u]
  <2>1. cache[u].cash + Coming(u, "cash") + Held(OpenBuys(u)) =< cash[u]
    BY DEF BackedFor
  <2>2. cache[u].cash + Coming(u, "cash")' + Held(OpenBuys(u)) =< cash[u]
    BY <1>3, <1>5, <1>6, <2>1, Slack
  <2>3. QED
    BY <1>1, <1>4, <2>2
<1>8. cache'[u].shares + Coming(u, "shares")' + Quantity(OpenSells(u))' =< shares'[u]
  <2>1. cache[u].shares + Coming(u, "shares") + Quantity(OpenSells(u)) =< shares[u]
    BY DEF BackedFor
  <2>2. cache[u].shares + Coming(u, "shares")' + Quantity(OpenSells(u)) =< shares[u]
    BY <1>3, <1>5, <1>6, <2>1, Slack
  <2>3. QED
    BY <1>1, <1>4, <2>2
<1>9. cache'[u].held + Coming(u, "held")' >= Held(OpenBuys(u))'
  <2>1. cache[u].held + Coming(u, "held") >= Held(OpenBuys(u))
    BY DEF BackedFor
  <2>2. cache[u].held + Coming(u, "held")' >= Held(OpenBuys(u))
    BY <1>3, <1>5, <1>6, <2>1, Slack
  <2>3. QED
    BY <1>1, <1>4, <2>2
<1>10. cache'[u].heldShares + Coming(u, "heldShares")' >= Quantity(OpenSells(u))'
  <2>1. cache[u].heldShares + Coming(u, "heldShares") >= Quantity(OpenSells(u))
    BY DEF BackedFor
  <2>2. cache[u].heldShares + Coming(u, "heldShares")' >= Quantity(OpenSells(u))
    BY <1>3, <1>5, <1>6, <2>1, Slack
  <2>3. QED
    BY <1>1, <1>4, <2>2
<1>11. 0 =< cache'[u].cash /\ 0 =< cache'[u].shares
  BY <1>4 DEF BackedFor
<1>12. QED
  BY <1>7, <1>8, <1>9, <1>10, <1>11 DEF BackedFor

\* A step that touches neither the user's balances nor the daemons.
LEMMA BackedSame ==
    ASSUME TypeOK, NEW u \in Users, BackedFor(u),
           \A e \in Daemons : Remaining(e)' = Remaining(e),
           cache'[u] = cache[u], UNCHANGED <<cash, shares, rows, reserved>>
    PROVE  BackedFor(u)'
<1>1. /\ Held(OpenBuys(u))' = Held(OpenBuys(u))
      /\ Quantity(OpenSells(u))' = Quantity(OpenSells(u))
  BY DEF OpenBuys, OpenSells
<1>2. \A f : Coming(u, f)' = Coming(u, f)
  BY ComingSame
<1>3. QED
  BY <1>1, <1>2 DEF BackedFor

\* The engine moves what it locks out of what is available.
LEMMA BackedHold ==
    ASSUME TypeOK, Reserved, NEW u \in Users, BackedFor(u), Hold
    PROVE  BackedFor(u)'
<1>1. PICK t \in Trades : HoldFunds(t) \/ HoldShares(t)
  BY DEF Hold
<1>2. /\ t.buyer \in Users /\ t.seller \in Users /\ t.held \in Nat /\ t.quantity \in Nat
  BY TradeFields
<1>3. \A f : Coming(u, f)' = Coming(u, f)
  <2>1. \A e \in Daemons : Remaining(e)' = Remaining(e)
    BY DEF Hold, daemonVars, Remaining, Current
  <2>2. QED
    BY <2>1, ComingSame
<1>4. UNCHANGED <<cash, shares, rows>>
  BY DEF Hold, dbVars
<1>5. reserved \in [Trades -> SUBSET {"buy", "sell"}] /\ cache \in [Users -> Account]
  BY DEF TypeOK, RedisTypes, CacheTypes
<1>6. t \notin rows
  BY <1>1 DEF Reserved, HoldFunds, HoldShares
<1>7. CASE HoldFunds(t)
  <2>1. /\ OpenSells(u)' = OpenSells(u)
        /\ u = t.buyer => OpenBuys(u)' = OpenBuys(u) \cup {t}
        /\ u # t.buyer => OpenBuys(u)' = OpenBuys(u)
        /\ t \notin OpenBuys(u)
    BY <1>4, <1>5, <1>6, <1>7 DEF OpenBuys, OpenSells, HoldFunds
  <2>2. /\ Held(OpenBuys(u))' = Held(OpenBuys(u)) + (IF u = t.buyer THEN t.held ELSE 0)
        /\ Quantity(OpenSells(u))' = Quantity(OpenSells(u))
    <3>1. OpenBuys(u) \in SUBSET Trades /\ Held(OpenBuys(u)) \in Nat
      BY BackedInts
    <3>2. Held(OpenBuys(u) \cup {t}) = Held(OpenBuys(u)) + t.held
      BY <2>1, <3>1, TradeSums
    <3>3. CASE u = t.buyer
      BY <2>1, <3>2, <3>3
    <3>4. CASE u # t.buyer
      BY <2>1, <3>1, <3>4
    <3>5. QED
      BY <3>3, <3>4
  <2>3. /\ cache'[u].cash = cache[u].cash - (IF u = t.buyer THEN t.held ELSE 0)
        /\ cache'[u].held = cache[u].held + (IF u = t.buyer THEN t.held ELSE 0)
        /\ cache'[u].shares = cache[u].shares /\ cache'[u].heldShares = cache[u].heldShares
        /\ u = t.buyer => cache[u].cash >= t.held
    <3>1. cache' = [cache EXCEPT ![t.buyer] =
                      [cache[t.buyer] EXCEPT !.cash = @ - t.held, !.held = @ + t.held]]
      BY <1>7 DEF HoldFunds
    <3>2. CASE u = t.buyer
      <4>1. cache'[u] = [cache[u] EXCEPT !.cash = @ - t.held, !.held = @ + t.held]
        BY <1>2, <1>5, <3>1, <3>2
      <4>2. QED
        BY <1>2, <1>5, <1>7, <3>2, <4>1 DEF HoldFunds, Account
    <3>3. CASE u # t.buyer
      <4>1. cache'[u] = cache[u]
        BY <1>2, <1>5, <3>1, <3>3
      <4>2. QED
        BY <1>2, <1>5, <3>3, <4>1 DEF Account
    <3>4. QED
      BY <3>2, <3>3
  <2>4. QED
    BY <1>2, <1>3, <1>4, <2>2, <2>3, BackedInts DEF BackedFor
<1>8. CASE HoldShares(t)
  <2>1. /\ OpenBuys(u)' = OpenBuys(u)
        /\ u = t.seller => OpenSells(u)' = OpenSells(u) \cup {t}
        /\ u # t.seller => OpenSells(u)' = OpenSells(u)
        /\ t \notin OpenSells(u)
    BY <1>4, <1>5, <1>6, <1>8 DEF OpenBuys, OpenSells, HoldShares
  <2>2. /\ Quantity(OpenSells(u))'
              = Quantity(OpenSells(u)) + (IF u = t.seller THEN t.quantity ELSE 0)
        /\ Held(OpenBuys(u))' = Held(OpenBuys(u))
    <3>1. OpenSells(u) \in SUBSET Trades /\ Quantity(OpenSells(u)) \in Nat
      BY BackedInts
    <3>2. Quantity(OpenSells(u) \cup {t}) = Quantity(OpenSells(u)) + t.quantity
      BY <2>1, <3>1, TradeSums
    <3>3. CASE u = t.seller
      BY <2>1, <3>2, <3>3
    <3>4. CASE u # t.seller
      BY <2>1, <3>1, <3>4
    <3>5. QED
      BY <3>3, <3>4
  <2>3. /\ cache'[u].shares = cache[u].shares - (IF u = t.seller THEN t.quantity ELSE 0)
        /\ cache'[u].heldShares = cache[u].heldShares + (IF u = t.seller THEN t.quantity ELSE 0)
        /\ cache'[u].cash = cache[u].cash /\ cache'[u].held = cache[u].held
        /\ u = t.seller => cache[u].shares >= t.quantity
    <3>1. cache' = [cache EXCEPT ![t.seller] =
                      [cache[t.seller] EXCEPT !.shares = @ - t.quantity,
                                              !.heldShares = @ + t.quantity]]
      BY <1>8 DEF HoldShares
    <3>2. CASE u = t.seller
      <4>1. cache'[u] = [cache[u] EXCEPT !.shares = @ - t.quantity,
                                         !.heldShares = @ + t.quantity]
        BY <1>2, <1>5, <3>1, <3>2
      <4>2. QED
        BY <1>2, <1>5, <1>8, <3>2, <4>1 DEF HoldShares, Account
    <3>3. CASE u # t.seller
      <4>1. cache'[u] = cache[u]
        BY <1>2, <1>5, <3>1, <3>3
      <4>2. QED
        BY <1>2, <1>5, <3>3, <4>1 DEF Account
    <3>4. QED
      BY <3>2, <3>3
  <2>4. QED
    BY <1>2, <1>3, <1>4, <2>2, <2>3, BackedInts DEF BackedFor
<1>9. QED
  BY <1>1, <1>7, <1>8

\* What a commit does to the balances in Postgres.
LEMMA PostEffect ==
    ASSUME TypeOK, LockedRows, NEW u \in Users, NEW d \in Daemons, pc[d] = "write",
           NEW t \in Trades, t = Current(d), PostTrade(d, t)
    PROVE  /\ cash'[u] \in Int /\ shares'[u] \in Int
           /\ cash'[u] >= cash[u] - (IF u = t.buyer THEN t.settled ELSE 0)
                                  + (IF u = t.seller THEN t.settled ELSE 0)
           /\ shares'[u] = shares[u] + (IF u = t.buyer THEN t.quantity ELSE 0)
                                     - (IF u = t.seller THEN t.quantity ELSE 0)
<1>1. /\ t.buyer \in Users /\ t.seller \in Users /\ t.settled \in Nat /\ t.quantity \in Nat
  BY TradeFields
<1>2. cash \in [Users -> Int] /\ shares \in [Users -> Int]
  BY DEF TypeOK, DbTypes
<1>3. seen[d].buyer = cash[t.buyer] /\ seen[d].seller = cash[t.seller]
  BY DEF LockedRows
<1>4. cash' = [[cash EXCEPT ![t.buyer] = cash[t.buyer] - t.settled]
                     EXCEPT ![t.seller] = cash[t.seller] + t.settled]
  BY <1>3 DEF PostTrade
<1>5. cash'[u] = IF u = t.seller THEN cash[u] + t.settled
                 ELSE IF u = t.buyer THEN cash[u] - t.settled ELSE cash[u]
  BY <1>1, <1>2, <1>4
<1>6. shares' = [[shares EXCEPT ![t.seller] = @ - t.quantity]
                         EXCEPT ![t.buyer] = @ + t.quantity]
  BY DEF PostTrade
<1>7. shares'[u] = shares[u] + (IF u = t.buyer THEN t.quantity ELSE 0)
                             - (IF u = t.seller THEN t.quantity ELSE 0)
  <2>1. CASE u = t.buyer /\ u = t.seller
    BY <1>1, <1>2, <1>6, <2>1
  <2>2. CASE u = t.buyer /\ u # t.seller
    BY <1>1, <1>2, <1>6, <2>2
  <2>3. CASE u # t.buyer /\ u = t.seller
    BY <1>1, <1>2, <1>6, <2>3
  <2>4. CASE u # t.buyer /\ u # t.seller
    BY <1>1, <1>2, <1>6, <2>4
  <2>5. QED
    BY <2>1, <2>2, <2>3, <2>4
<1>8. cash[u] \in Int /\ shares[u] \in Int
  BY <1>2
<1>9. QED
  BY <1>1, <1>5, <1>7, <1>8

\* A recorded trade is no longer open.
LEMMA PostOpen ==
    ASSUME TypeOK, Reserved, NEW u \in Users, NEW t \in Trades \ rows,
           reserved[t] = {"buy", "sell"}, rows' = rows \cup {t}, reserved' = reserved
    PROVE  /\ Held(OpenBuys(u))' \in Int /\ Quantity(OpenSells(u))' \in Int
           /\ Held(OpenBuys(u)) = Held(OpenBuys(u))' + (IF u = t.buyer THEN t.held ELSE 0)
           /\ Quantity(OpenSells(u))
                = Quantity(OpenSells(u))' + (IF u = t.seller THEN t.quantity ELSE 0)
<1>1. PICK B, S : B = OpenBuys(u)' /\ S = OpenSells(u)'
  OBVIOUS
<1>2. B \in SUBSET Trades /\ S \in SUBSET Trades /\ t \in Trades \ B /\ t \in Trades \ S
  BY <1>1 DEF OpenBuys, OpenSells
<1>3. /\ u = t.buyer => OpenBuys(u) = B \cup {t}
      /\ u # t.buyer => OpenBuys(u) = B
  BY <1>1 DEF OpenBuys
<1>4. /\ u = t.seller => OpenSells(u) = S \cup {t}
      /\ u # t.seller => OpenSells(u) = S
  BY <1>1 DEF OpenSells
<1>5. /\ Held(B) \in Nat /\ Quantity(S) \in Nat
      /\ Held(B \cup {t}) = Held(B) + t.held
      /\ Quantity(S \cup {t}) = Quantity(S) + t.quantity
  BY <1>2, TradeSums
<1>6. Held(OpenBuys(u)) = Held(B) + (IF u = t.buyer THEN t.held ELSE 0)
  <2>1. CASE u = t.buyer
    BY <1>3, <1>5, <2>1
  <2>2. CASE u # t.buyer
    BY <1>3, <1>5, <2>2
  <2>3. QED
    BY <2>1, <2>2
<1>7. Quantity(OpenSells(u)) = Quantity(S) + (IF u = t.seller THEN t.quantity ELSE 0)
  <2>1. CASE u = t.seller
    BY <1>4, <1>5, <2>1
  <2>2. CASE u # t.seller
    BY <1>4, <1>5, <2>2
  <2>3. QED
    BY <2>1, <2>2
<1>8. Held(OpenBuys(u))' = Held(B) /\ Quantity(OpenSells(u))' = Quantity(S)
  BY <1>1
<1>9. QED
  BY <1>5, <1>6, <1>7, <1>8

\* A user stays backed when what he gets and what is released for him are paid
\* for by the trades that are no longer open.
LEMMA BackedChange ==
    ASSUME TypeOK, NEW u \in Users, BackedFor(u), cache' = cache,
           NEW p \in Int, Coming(u, "cash")' = Coming(u, "cash") + p,
           NEW q \in Int, Coming(u, "shares")' = Coming(u, "shares") + q,
           NEW r \in Int, Coming(u, "held")' = Coming(u, "held") + r,
           NEW s \in Int, Coming(u, "heldShares")' = Coming(u, "heldShares") + s,
           NEW h \in Int, Held(OpenBuys(u)) = Held(OpenBuys(u))' + h,
           NEW m \in Int, Quantity(OpenSells(u)) = Quantity(OpenSells(u))' + m,
           NEW c \in Int, cash'[u] >= cash[u] + c, p =< c + h,
           NEW n \in Int, shares'[u] = shares[u] + n, q =< n + m,
           r >= -h, s >= -m,
           Held(OpenBuys(u))' \in Int, Quantity(OpenSells(u))' \in Int, cash'[u] \in Int
    PROVE  BackedFor(u)'
<1>1. /\ Coming(u, "cash") \in Int /\ Coming(u, "shares") \in Int
      /\ Coming(u, "held") \in Int /\ Coming(u, "heldShares") \in Int
      /\ cache[u].cash \in Int /\ cache[u].held \in Int
      /\ cache[u].shares \in Int /\ cache[u].heldShares \in Int
      /\ cash[u] \in Int /\ shares[u] \in Int
  BY BackedInts
<1>2. cache[u].cash + Coming(u, "cash")' + Held(OpenBuys(u))' =< cash'[u]
  <2>1. cache[u].cash + Coming(u, "cash") + Held(OpenBuys(u)) =< cash[u]
    BY DEF BackedFor
  <2>2. QED
    BY <1>1, <2>1
<1>3. cache[u].shares + Coming(u, "shares")' + Quantity(OpenSells(u))' =< shares'[u]
  <2>1. cache[u].shares + Coming(u, "shares") + Quantity(OpenSells(u)) =< shares[u]
    BY DEF BackedFor
  <2>2. QED
    BY <1>1, <2>1
<1>4. cache[u].held + Coming(u, "held")' >= Held(OpenBuys(u))'
  <2>1. cache[u].held + Coming(u, "held") >= Held(OpenBuys(u))
    BY DEF BackedFor
  <2>2. QED
    BY <1>1, <2>1
<1>5. cache[u].heldShares + Coming(u, "heldShares")' >= Quantity(OpenSells(u))'
  <2>1. cache[u].heldShares + Coming(u, "heldShares") >= Quantity(OpenSells(u))
    BY DEF BackedFor
  <2>2. QED
    BY <1>1, <2>1
<1>6. 0 =< cache[u].cash /\ 0 =< cache[u].shares
  BY DEF BackedFor
<1>7. QED
  BY <1>2, <1>3, <1>4, <1>5, <1>6 DEF BackedFor

\* The commit of a trade, after which settle_cache is to be sent, or lost.
LEMMA BackedPost ==
    ASSUME TypeOK, TypeOK', LockedRows, Reserved, NEW u \in Users, BackedFor(u),
           NEW d \in Daemons, \A e \in Daemons \ {d} : Remaining(e)' = Remaining(e),
           pc[d] = "write", NEW t \in Trades, t = Current(d), t \notin rows,
           reserved[t] = {"buy", "sell"}, PostTrade(d, t),
           Remaining(d)' \in {SettleCache(t), <<>>},
           UNCHANGED <<cache, reserved>>
    PROVE  BackedFor(u)'
<1>1. /\ t.settled \in Nat /\ t.quantity \in Nat /\ t.locked \in Nat /\ t.held \in Nat
      /\ Saved(t) \in Nat /\ t.settled =< t.held /\ t.locked =< t.held
      /\ Saved(t) + t.settled =< t.held
  BY TradeFields, TradesAssumption DEF Saved
<1>2. Remaining(d) = <<>>
  BY RemainingType DEF TypeOK
<1>3. ASSUME NEW f
      PROVE  Coming(u, f)' = Coming(u, f) + Part(Remaining(d)', u, f)
  <2>1. PICK z : z = Part(Remaining(d)', u, f)
    OBVIOUS
  <2>2. Part(Remaining(d), u, f) = 0
    BY <1>2, PartEmpty
  <2>3. Coming(u, f)' = Coming(u, f) - 0 + z
    BY <2>1, <2>2, ComingStep DEF TypeOK
  <2>4. Coming(u, f) \in Int
    BY ComingSum DEF TypeOK
  <2>5. QED
    BY <2>1, <2>3, <2>4
<1>4. PICK p, q, r, s : /\ p = Part(Remaining(d)', u, "cash") /\ q = Part(Remaining(d)', u, "shares")
                        /\ r = Part(Remaining(d)', u, "held")
                        /\ s = Part(Remaining(d)', u, "heldShares")
  OBVIOUS
<1>5. /\ p \in Int /\ q \in Int /\ r \in Int /\ s \in Int
      /\ p =< (IF u = t.seller THEN t.settled ELSE 0) + (IF u = t.buyer THEN Saved(t) ELSE 0)
      /\ q =< (IF u = t.buyer THEN t.quantity ELSE 0)
      /\ r >= (IF u = t.buyer THEN -t.locked ELSE 0)
      /\ s >= (IF u = t.seller THEN -t.quantity ELSE 0)
  <2>1. CASE Remaining(d)' = SettleCache(t)
    BY <1>1, <1>4, <2>1, PartSettle
  <2>2. CASE Remaining(d)' = <<>>
    <3>1. p = 0 /\ q = 0 /\ r = 0 /\ s = 0
      BY <1>4, <2>2, PartEmpty
    <3>2. QED
      BY <1>1, <3>1
  <2>3. QED
    BY <2>1, <2>2
<1>6. /\ Coming(u, "cash")' = Coming(u, "cash") + p
      /\ Coming(u, "shares")' = Coming(u, "shares") + q
      /\ Coming(u, "held")' = Coming(u, "held") + r
      /\ Coming(u, "heldShares")' = Coming(u, "heldShares") + s
  BY <1>3, <1>4
<1>7. rows' = rows \cup {t}
  BY DEF PostTrade
<1>8. /\ Held(OpenBuys(u))' \in Int /\ Quantity(OpenSells(u))' \in Int
      /\ Held(OpenBuys(u)) = Held(OpenBuys(u))' + (IF u = t.buyer THEN t.held ELSE 0)
      /\ Quantity(OpenSells(u))
           = Quantity(OpenSells(u))' + (IF u = t.seller THEN t.quantity ELSE 0)
  BY <1>7, PostOpen
<1>9. /\ cash'[u] \in Int /\ shares'[u] \in Int
      /\ cash'[u] >= cash[u] - (IF u = t.buyer THEN t.settled ELSE 0)
                             + (IF u = t.seller THEN t.settled ELSE 0)
      /\ shares'[u] = shares[u] + (IF u = t.buyer THEN t.quantity ELSE 0)
                                - (IF u = t.seller THEN t.quantity ELSE 0)
  BY PostEffect
<1>10. cache' = cache
  OBVIOUS
<1>11. /\ Coming(u, "cash") \in Int /\ Coming(u, "shares") \in Int
       /\ Coming(u, "held") \in Int /\ Coming(u, "heldShares") \in Int
       /\ cache[u].cash \in Int /\ cache[u].held \in Int
       /\ cache[u].shares \in Int /\ cache[u].heldShares \in Int
       /\ cash[u] \in Int /\ shares[u] \in Int
  BY BackedInts
<1>12. PICK h, m, c, n : /\ h = (IF u = t.buyer THEN t.held ELSE 0)
                          /\ m = (IF u = t.seller THEN t.quantity ELSE 0)
                          /\ c = (IF u = t.seller THEN t.settled ELSE 0)
                                 - (IF u = t.buyer THEN t.settled ELSE 0)
                          /\ n = (IF u = t.buyer THEN t.quantity ELSE 0)
                                 - (IF u = t.seller THEN t.quantity ELSE 0)
  OBVIOUS
<1>13. /\ h \in Int /\ m \in Int /\ c \in Int /\ n \in Int
       /\ p =< c + h /\ q =< n + m /\ r >= -h /\ s >= -m
  <2>1. CASE u = t.buyer /\ u = t.seller
    <3>1. h = t.held /\ m = t.quantity /\ c = 0 /\ n = 0
      BY <1>1, <1>12, <2>1
    <3>2. p =< t.settled + Saved(t) /\ q =< t.quantity /\ r >= -t.locked /\ s >= -t.quantity
      BY <1>1, <1>5, <2>1
    <3>3. h \in Int /\ m \in Int /\ c \in Int /\ n \in Int
      BY <1>1, <3>1
    <3>4. p =< c + h /\ q =< n + m
      BY <1>1, <1>5, <3>1, <3>2
    <3>5. r >= -h /\ s >= -m
      BY <1>1, <1>5, <3>1, <3>2
    <3>6. QED
      BY <3>3, <3>4, <3>5
  <2>2. CASE u = t.buyer /\ u # t.seller
    <3>1. h = t.held /\ m = 0 /\ c = -t.settled /\ n = t.quantity
      BY <1>1, <1>12, <2>2
    <3>2. p =< Saved(t) /\ q =< t.quantity /\ r >= -t.locked /\ s >= 0
      BY <1>1, <1>5, <2>2
    <3>3. h \in Int /\ m \in Int /\ c \in Int /\ n \in Int
      BY <1>1, <3>1
    <3>4. p =< c + h /\ q =< n + m
      BY <1>1, <1>5, <3>1, <3>2
    <3>5. r >= -h /\ s >= -m
      BY <1>1, <1>5, <3>1, <3>2
    <3>6. QED
      BY <3>3, <3>4, <3>5
  <2>3. CASE u # t.buyer /\ u = t.seller
    BY <1>1, <1>5, <1>12, <2>3
  <2>4. CASE u # t.buyer /\ u # t.seller
    BY <1>1, <1>5, <1>12, <2>4
  <2>5. QED
    BY <2>1, <2>2, <2>3, <2>4
<1>14. cash'[u] >= cash[u] + c /\ shares'[u] = shares[u] + n
  <2>1. CASE u = t.buyer /\ u = t.seller
    BY <1>1, <1>9, <1>11, <1>12, <2>1
  <2>2. CASE u = t.buyer /\ u # t.seller
    BY <1>1, <1>9, <1>11, <1>12, <2>2
  <2>3. CASE u # t.buyer /\ u = t.seller
    BY <1>1, <1>9, <1>11, <1>12, <2>3
  <2>4. CASE u # t.buyer /\ u # t.seller
    BY <1>1, <1>9, <1>11, <1>12, <2>4
  <2>5. QED
    BY <2>1, <2>2, <2>3, <2>4
<1>15. /\ Held(OpenBuys(u)) = Held(OpenBuys(u))' + h
       /\ Quantity(OpenSells(u)) = Quantity(OpenSells(u))' + m
  BY <1>8, <1>12
<1>16. QED
  BY <1>5, <1>6, <1>8, <1>9, <1>10, <1>13, <1>14, <1>15, BackedChange

\* A HINCRBY is sent, and the rest is left to send.
LEMMA IncrTodo ==
    ASSUME TypeOK, NEW d \in Daemons, CacheIncr(d)
    PROVE  /\ Remaining(d) = todo[d] /\ todo[d] \in Seq(Increment) /\ todo[d] # <<>>
           /\ Remaining(d)' = Tail(todo[d])
<1>1. PICK s : s = todo[d]
  OBVIOUS
<1>2. /\ pc[d] = "cache" /\ Remaining(d) = s /\ s \in Seq(Increment) /\ s # <<>>
      /\ pc \in [Daemons -> Busy \cup {"down", "read"}]
      /\ todo \in [Daemons -> Seq(Increment)]
  BY <1>1 DEF CacheIncr, Remaining, TypeOK, DaemonTypes
<1>3. Remaining(d)' = Tail(s)
  <2>1. CASE Len(todo[d]) = 1
    <3>1. pc'[d] # "ack" /\ todo'[d] = <<>>
      BY <1>2, <2>1 DEF CacheIncr, NextMessage
    <3>2. Tail(s) = <<>>
      <4>1. PICK r : r = Tail(s)
        OBVIOUS
      <4>2. Len(s) = 1
        BY <1>1, <2>1
      <4>3. r \in Seq(Increment) /\ Len(r) = Len(s) - 1
        BY <1>2, <4>1, HeadTailProperties
      <4>4. r = <<>>
        BY <4>2, <4>3
      <4>5. QED
        BY <4>1, <4>4
    <3>3. QED
      BY <3>1, <3>2 DEF Remaining
  <2>2. CASE Len(todo[d]) # 1
    <3>1. pc'[d] = "cache" /\ todo'[d] = Tail(s)
      BY <1>1, <1>2, <2>2 DEF CacheIncr
    <3>2. QED
      BY <3>1 DEF Remaining
  <2>3. QED
    BY <2>1, <2>2
<1>4. QED
  BY <1>1, <1>2, <1>3

\* An amount p of what is coming, c, arrives at x, which is then y; z is still
\* coming, and a daemon may have forgotten some of it.
LEMMA MovedIn ==
    ASSUME NEW x \in Int, NEW p \in Int, NEW c \in Int, NEW z \in Int,
           NEW h \in Int, NEW m \in Int, NEW y, y = x + p,
           z =< c - p, x + c + h =< m
    PROVE  y + z + h =< m
OBVIOUS
LEMMA MovedOut ==
    ASSUME NEW x \in Int, NEW p \in Int, NEW c \in Int, NEW z \in Int,
           NEW h \in Int, NEW y, y = x + p,
           z >= c - p, x + c >= h
    PROVE  y + z >= h
OBVIOUS

\* One HINCRBY moves an amount from what is coming into the cache, and the
\* daemon goes on to send the others or forgets them.
LEMMA BackedIncr ==
    ASSUME TypeOK, TypeOK', Signed, NEW u \in Users, BackedFor(u),
           NEW d \in Daemons, \A e \in Daemons \ {d} : Remaining(e)' = Remaining(e),
           pc[d] = "cache", Apply(d), Remaining(d)' \in {Tail(todo[d]), <<>>},
           UNCHANGED <<cash, shares, rows, reserved>>
    PROVE  BackedFor(u)'
<1>1. PICK s, i : s = todo[d] /\ i = Head(todo[d])
  OBVIOUS
<1>2. Remaining(d) = s /\ s \in Seq(Increment) /\ s # <<>>
  BY <1>1 DEF Remaining, TypeOK, DaemonTypes
<1>3. Remaining(d)' \in {Tail(s), <<>>}
  BY <1>1
<1>4. /\ i = Head(s) /\ i \in Increment /\ Tail(s) \in Seq(Increment)
      /\ i.field \in Available => i.by >= 0
  <2>1. i = Head(s) /\ i \in Increment /\ Tail(s) \in Seq(Increment)
    BY <1>1, <1>2, PartTail
  <2>2. i = s[1] /\ 1 \in DOMAIN s
    BY <1>2, <2>1, HeadTailProperties, NonEmpty
  <2>3. Signs(s)
    BY <1>2 DEF Signed
  <2>4. QED
    BY <2>1, <2>2, <2>3 DEF Signs
<1>5. ASSUME NEW f
      PROVE  /\ Amount(i, u, f) \in Int /\ Coming(u, f) \in Int /\ Coming(u, f)' \in Int
             /\ f \in Available => Coming(u, f)' =< Coming(u, f) - Amount(i, u, f)
             /\ f \in Locked => Coming(u, f)' >= Coming(u, f) - Amount(i, u, f)
  <2>1. PICK a, b, e, z : /\ a = Amount(i, u, f) /\ b = Part(Tail(s), u, f)
                          /\ e = Part(s, u, f) /\ z = Part(Remaining(d)', u, f)
    OBVIOUS
  <2>2. a \in Int /\ b \in Int /\ e = a + b
    <3>1. e = a + b
      BY <1>2, <1>4, <2>1, PartTail
    <3>2. a \in Int
      BY <1>4, <2>1, AmountInt
    <3>3. b \in Int
      BY <1>4, <2>1, PartSign
    <3>4. QED
      BY <3>1, <3>2, <3>3
  <2>3. z \in {b, 0}
    BY <1>3, <2>1, PartEmpty
  <2>4. (f \in Available => b >= 0) /\ (f \in Locked => b =< 0)
    <3>1. Signs(Tail(s))
      BY <1>2, PartTail DEF Signed
    <3>2. QED
      BY <1>4, <2>1, <3>1, PartSign
  <2>5. Coming(u, f)' = Coming(u, f) - e + z
    BY <1>2, <2>1, ComingStep DEF TypeOK
  <2>6. Coming(u, f) \in Int
    BY ComingSum DEF TypeOK
  <2>7. PICK x, y : x = Coming(u, f) /\ y = Coming(u, f)'
    OBVIOUS
  <2>8. x \in Int /\ z \in Int /\ y = x - e + z
    BY <2>2, <2>3, <2>5, <2>6, <2>7
  <2>9. (z >= 0 /\ z =< b => y =< x - a) /\ (z =< 0 /\ z >= b => y >= x - a) /\ y \in Int
    BY <2>2, <2>8
  <2>10. (f \in Available => z >= 0 /\ z =< b) /\ (f \in Locked => z =< 0 /\ z >= b)
    BY <2>2, <2>3, <2>4
  <2>11. QED
    BY <2>1, <2>2, <2>6, <2>7, <2>9, <2>10
<1>6. PICK p, q, r, v : /\ p = Amount(i, u, "cash") /\ q = Amount(i, u, "shares")
                        /\ r = Amount(i, u, "held") /\ v = Amount(i, u, "heldShares")
  OBVIOUS
<1>7. /\ p \in Int /\ q \in Int /\ r \in Int /\ v \in Int /\ p >= 0 /\ q >= 0
      /\ Coming(u, "cash")' \in Int /\ Coming(u, "cash")' =< Coming(u, "cash") - p
      /\ Coming(u, "shares")' \in Int /\ Coming(u, "shares")' =< Coming(u, "shares") - q
      /\ Coming(u, "held")' \in Int /\ Coming(u, "held")' >= Coming(u, "held") - r
      /\ Coming(u, "heldShares")' \in Int
      /\ Coming(u, "heldShares")' >= Coming(u, "heldShares") - v
  <2>1. p >= 0 /\ q >= 0
    BY <1>4, <1>6 DEF Amount, Available, Increment
  <2>2. /\ "cash" \in Available /\ "shares" \in Available
        /\ "held" \in Locked /\ "heldShares" \in Locked
    BY DEF Available, Locked
  <2>3. QED
    BY <1>5, <1>6, <2>1, <2>2
<1>8. /\ cache'[u].cash = cache[u].cash + p /\ cache'[u].shares = cache[u].shares + q
      /\ cache'[u].held = cache[u].held + r
      /\ cache'[u].heldShares = cache[u].heldShares + v
  <2>1. /\ i.user \in Users /\ i.field \in {"cash", "held", "shares", "heldShares"}
        /\ i.by \in Int
    BY <1>4 DEF Increment
  <2>2. cache \in [Users -> Account] /\ cache[u] \in Account
    BY DEF TypeOK, CacheTypes
  <2>3. cache' = [cache EXCEPT ![i.user][i.field] = @ + i.by]
    BY <1>1 DEF Apply
  <2>4. CASE u # i.user
    <3>1. cache'[u] = cache[u]
      BY <2>1, <2>2, <2>3, <2>4
    <3>2. p = 0 /\ q = 0 /\ r = 0 /\ v = 0
      BY <1>6, <2>4 DEF Amount
    <3>3. QED
      BY <2>2, <3>1, <3>2 DEF Account
  <2>5. CASE u = i.user
    <3>1. cache'[u] = [cache[u] EXCEPT ![i.field] = @ + i.by]
      BY <2>1, <2>2, <2>3, <2>5
    <3>2. /\ p = (IF i.field = "cash" THEN i.by ELSE 0)
          /\ q = (IF i.field = "shares" THEN i.by ELSE 0)
          /\ r = (IF i.field = "held" THEN i.by ELSE 0)
          /\ v = (IF i.field = "heldShares" THEN i.by ELSE 0)
      BY <1>6, <2>5 DEF Amount
    <3>3. CASE i.field = "cash"
      BY <2>1, <2>2, <3>1, <3>2, <3>3 DEF Account
    <3>4. CASE i.field = "held"
      BY <2>1, <2>2, <3>1, <3>2, <3>4 DEF Account
    <3>5. CASE i.field = "shares"
      BY <2>1, <2>2, <3>1, <3>2, <3>5 DEF Account
    <3>6. CASE i.field = "heldShares"
      BY <2>1, <2>2, <3>1, <3>2, <3>6 DEF Account
    <3>7. QED
      BY <2>1, <3>3, <3>4, <3>5, <3>6
  <2>6. QED
    BY <2>4, <2>5
<1>9. /\ Held(OpenBuys(u))' = Held(OpenBuys(u))
      /\ Quantity(OpenSells(u))' = Quantity(OpenSells(u))
      /\ cash'[u] = cash[u] /\ shares'[u] = shares[u]
  BY DEF OpenBuys, OpenSells
<1>10. /\ Held(OpenBuys(u)) \in Int /\ Quantity(OpenSells(u)) \in Int
       /\ cache[u].cash \in Int /\ cache[u].held \in Int
       /\ cache[u].shares \in Int /\ cache[u].heldShares \in Int
       /\ cash[u] \in Int /\ shares[u] \in Int
       /\ Coming(u, "cash") \in Int /\ Coming(u, "shares") \in Int
       /\ Coming(u, "held") \in Int /\ Coming(u, "heldShares") \in Int
  BY BackedInts
<1>11. cache'[u].cash + Coming(u, "cash")' + Held(OpenBuys(u))' =< cash'[u]
  <2>1. cache[u].cash + Coming(u, "cash") + Held(OpenBuys(u)) =< cash[u]
    BY DEF BackedFor
  <2>2. PICK x, c, z, h, m, y :
           /\ x = cache[u].cash /\ c = Coming(u, "cash") /\ z = Coming(u, "cash")'
           /\ h = Held(OpenBuys(u)) /\ m = cash[u] /\ y = cache'[u].cash
    OBVIOUS
  <2>3. /\ x \in Int /\ p \in Int /\ c \in Int /\ z \in Int /\ h \in Int /\ m \in Int
        /\ y = x + p /\ z =< c - p /\ x + c + h =< m
    BY <1>7, <1>8, <1>10, <2>1, <2>2
  <2>4. y + z + h =< m
    BY <2>3, MovedIn
  <2>5. QED
    BY <1>9, <2>2, <2>4
<1>12. cache'[u].shares + Coming(u, "shares")' + Quantity(OpenSells(u))' =< shares'[u]
  <2>1. cache[u].shares + Coming(u, "shares") + Quantity(OpenSells(u)) =< shares[u]
    BY DEF BackedFor
  <2>2. PICK x, c, z, h, m, y :
           /\ x = cache[u].shares /\ c = Coming(u, "shares") /\ z = Coming(u, "shares")'
           /\ h = Quantity(OpenSells(u)) /\ m = shares[u] /\ y = cache'[u].shares
    OBVIOUS
  <2>3. /\ x \in Int /\ q \in Int /\ c \in Int /\ z \in Int /\ h \in Int /\ m \in Int
        /\ y = x + q /\ z =< c - q /\ x + c + h =< m
    BY <1>7, <1>8, <1>10, <2>1, <2>2
  <2>4. y + z + h =< m
    BY <2>3, MovedIn
  <2>5. QED
    BY <1>9, <2>2, <2>4
<1>13. cache'[u].held + Coming(u, "held")' >= Held(OpenBuys(u))'
  <2>1. cache[u].held + Coming(u, "held") >= Held(OpenBuys(u))
    BY DEF BackedFor
  <2>2. PICK x, c, z, h, y :
           /\ x = cache[u].held /\ c = Coming(u, "held") /\ z = Coming(u, "held")'
           /\ h = Held(OpenBuys(u)) /\ y = cache'[u].held
    OBVIOUS
  <2>3. /\ x \in Int /\ r \in Int /\ c \in Int /\ z \in Int /\ h \in Int
        /\ y = x + r /\ z >= c - r /\ x + c >= h
    BY <1>7, <1>8, <1>10, <2>1, <2>2
  <2>4. y + z >= h
    BY <2>3, MovedOut
  <2>5. QED
    BY <1>9, <2>2, <2>4
<1>14. cache'[u].heldShares + Coming(u, "heldShares")' >= Quantity(OpenSells(u))'
  <2>1. cache[u].heldShares + Coming(u, "heldShares") >= Quantity(OpenSells(u))
    BY DEF BackedFor
  <2>2. PICK x, c, z, h, y :
           /\ x = cache[u].heldShares /\ c = Coming(u, "heldShares") /\ z = Coming(u, "heldShares")'
           /\ h = Quantity(OpenSells(u)) /\ y = cache'[u].heldShares
    OBVIOUS
  <2>3. /\ x \in Int /\ v \in Int /\ c \in Int /\ z \in Int /\ h \in Int
        /\ y = x + v /\ z >= c - v /\ x + c >= h
    BY <1>7, <1>8, <1>10, <2>1, <2>2
  <2>4. y + z >= h
    BY <2>3, MovedOut
  <2>5. QED
    BY <1>9, <2>2, <2>4
<1>15. 0 =< cache'[u].cash /\ 0 =< cache'[u].shares
  <2>1. 0 =< cache[u].cash /\ 0 =< cache[u].shares
    BY DEF BackedFor
  <2>2. PICK x, y : x = cache[u].cash /\ y = cache[u].shares
    OBVIOUS
  <2>3. x \in Int /\ y \in Int /\ p \in Int /\ q \in Int /\ p >= 0 /\ q >= 0 /\ 0 =< x /\ 0 =< y
    BY <1>7, <1>10, <2>1, <2>2
  <2>4. 0 =< x + p /\ 0 =< y + q
    BY <2>3
  <2>5. QED
    BY <1>8, <2>2, <2>4
<1>16. QED
  BY <1>11, <1>12, <1>13, <1>14, <1>15 DEF BackedFor

\* What is left to send after the loop goes on or is left.
LEMMA DroppedTodo ==
    ASSUME DaemonTypes, NEW d \in Daemons,
           \/ NextMessage(d)
           \/ DropBatch(d, "read") \/ DropBatch(d, "down")
    PROVE  Remaining(d)' = <<>>
<1>1. pc'[d] # "ack" /\ todo'[d] = <<>>
  <2>1. CASE NextMessage(d)
    BY <2>1 DEF DaemonTypes, NextMessage
  <2>2. CASE DropBatch(d, "read") \/ DropBatch(d, "down")
    BY <2>2 DEF DaemonTypes, DropBatch
  <2>3. QED
    BY <2>1, <2>2
<1>2. QED
  BY <1>1 DEF Remaining

\* What is left to send after a step inside the loop.
LEMMA KeptTodo ==
    ASSUME DaemonTypes, NEW d \in Daemons, pc[d] # "ack", pc'[d] # "ack",
           todo'[d] = todo[d]
    PROVE  Remaining(d)' = Remaining(d)
BY DEF Remaining

\* A daemon's step commits a trade, sends an increment, or does neither.
LEMMA DaemonSteps ==
    ASSUME TypeOK, NEW d \in Daemons, Run(d) \/ Fail(d)
    PROVE  \/ /\ UNCHANGED <<cache, cash, shares, rows, reserved>>
              /\ Remaining(d)' \in {Remaining(d), <<>>}
           \/ /\ Commit(d) \/ LoseCommit(d)
              /\ Remaining(d)' \in {SettleCache(Current(d)), <<>>}
           \/ /\ pc[d] = "cache" /\ Apply(d) /\ UNCHANGED <<cash, shares, rows, reserved>>
              /\ Remaining(d)' \in {Tail(todo[d]), <<>>}
<1>1. DaemonTypes
  BY DEF TypeOK
<1>2. CASE Start(d)
  <2>1. pc[d] # "ack" /\ pc'[d] # "ack" /\ todo'[d] = todo[d]
    BY <1>1, <1>2 DEF Start, DaemonTypes
  <2>2. QED
    BY <1>1, <1>2, <2>1, KeptTodo DEF Start, dbVars
<1>3. CASE Read(d)
  <2>1. pc[d] # "ack" /\ pc'[d] # "ack" /\ todo'[d] = todo[d]
    BY <1>1, <1>3 DEF Read, DaemonTypes
  <2>2. QED
    BY <1>1, <1>3, <2>1, KeptTodo DEF Read, dbVars
<1>4. CASE Check(d)
  <2>1. CASE NextMessage(d)
    BY <1>1, <1>4, <2>1, DroppedTodo DEF Check, dbVars
  <2>2. CASE Goto(d, "lockBuyer")
    <3>1. pc[d] # "ack" /\ pc'[d] # "ack" /\ todo'[d] = todo[d]
      BY <1>1, <1>4, <2>2 DEF Check, Goto, DaemonTypes
    <3>2. QED
      BY <1>1, <1>4, <3>1, KeptTodo DEF Check, dbVars
  <2>3. QED
    BY <1>4, <2>1, <2>2 DEF Check
<1>5. CASE LockBuyer(d)
  <2>1. pc[d] # "ack" /\ pc'[d] # "ack" /\ todo'[d] = todo[d]
    BY <1>1, <1>5 DEF LockBuyer, DaemonTypes
  <2>2. QED
    BY <1>1, <1>5, <2>1, KeptTodo DEF LockBuyer
<1>6. CASE LockSeller(d)
  <2>1. pc[d] # "ack" /\ pc'[d] # "ack" /\ todo'[d] = todo[d]
    BY <1>1, <1>6 DEF LockSeller, DaemonTypes
  <2>2. QED
    BY <1>1, <1>6, <2>1, KeptTodo DEF LockSeller
<1>7. CASE Commit(d)
  <2>1. pc'[d] = "ack" /\ batch' = batch
    BY <1>1, <1>7 DEF Commit, Goto, DaemonTypes
  <2>2. Remaining(d)' = SettleCache(Current(d))
    BY <2>1 DEF Remaining, Current
  <2>3. QED
    BY <1>7, <2>2
<1>8. CASE Refuse(d)
  <2>1. NextMessage(d) /\ UNCHANGED <<cache, cash, shares, rows, reserved>>
    BY <1>8 DEF Refuse
  <2>2. QED
    BY <1>1, <2>1, DroppedTodo
<1>9. CASE Ack(d)
  <2>1. pc[d] = "ack" /\ pc'[d] = "cache" /\ todo'[d] = SettleCache(Current(d))
    BY <1>1, <1>9 DEF Ack, DaemonTypes, Busy
  <2>2. Remaining(d)' = Remaining(d)
    BY <2>1 DEF Remaining
  <2>3. UNCHANGED <<cache, cash, shares, rows, reserved>>
    BY <1>9 DEF Ack, dbVars
  <2>4. QED
    BY <2>2, <2>3
<1>10. CASE DbError(d)
  <2>1. NextMessage(d) /\ UNCHANGED <<cache, cash, shares, rows, reserved>>
    BY <1>10 DEF DbError
  <2>2. QED
    BY <1>1, <2>1, DroppedTodo
<1>11. CASE LoseCommit(d)
  <2>1. NextMessage(d)
    BY <1>11 DEF LoseCommit
  <2>2. QED
    BY <1>1, <1>11, <2>1, DroppedTodo
<1>12. CASE RedisError(d) \/ Crash(d)
  <2>1. /\ DropBatch(d, "read") \/ DropBatch(d, "down")
        /\ UNCHANGED <<cash, shares, rows, reserved>>
        /\ UNCHANGED cache \/ (pc[d] = "cache" /\ Apply(d))
    BY <1>12 DEF RedisError, Crash
  <2>2. Remaining(d)' = <<>>
    BY <1>1, <2>1, DroppedTodo
  <2>3. QED
    BY <2>1, <2>2
<1>13. CASE CacheIncr(d)
  <2>1. /\ pc[d] = "cache" /\ Apply(d) /\ UNCHANGED <<cash, shares, rows, reserved>>
    BY <1>13 DEF CacheIncr, dbVars
  <2>2. Remaining(d)' = Tail(todo[d])
    BY <1>13, IncrTodo
  <2>3. QED
    BY <2>1, <2>2
<1>14. QED
  BY <1>2, <1>3, <1>4, <1>5, <1>6, <1>7, <1>8, <1>9, <1>10, <1>11, <1>12, <1>13
     DEF Run, Settle, Fail

\* The other daemons have the same to send.
LEMMA OthersTodo ==
    ASSUME TypeOK, NEW d \in Daemons, Run(d) \/ Fail(d)
    PROVE  \A e \in Daemons \ {d} : Remaining(e)' = Remaining(e)
BY OtherDaemons DEF TypeOK, Remaining, Current

\* What is read is in the stream.
LEMMA UnreadInStream ==
    ASSUME RedisTypes
    PROVE  ToSet(Unread) \subseteq ToSet(stream)
<1> DEFINE first == 1 + IF delivered > trimmed THEN delivered ELSE trimmed
<1>1. PICK s, m, n : /\ s = stream /\ m = first /\ n = Len(stream)
  OBVIOUS
<1>2. /\ s \in Seq(Trades) /\ m \in Nat \ {0} /\ n \in Nat /\ n = Len(s)
      /\ DOMAIN s = 1 .. n
  BY <1>1 DEF RedisTypes
<1>3. PICK r : r = SubSeq(s, m, n) /\ r = Unread
  BY <1>1 DEF Unread
<1>4. /\ SubSeq(s, m, n) \in Seq(Trades)
      /\ Len(SubSeq(s, m, n)) = IF m =< n THEN n - m + 1 ELSE 0
      /\ \A i \in 1 .. n - m + 1 : SubSeq(s, m, n)[i] = s[m + i - 1]
  <2>1. (\A i \in m .. n : s[i] \in Trades) /\ m \in Int /\ n \in Int
    BY <1>2
  <2>2. QED
    BY <2>1, SubSeqProperties
<1>5. CASE m =< n
  <2>1. /\ r \in Seq(Trades) /\ Len(r) = n - m + 1
        /\ \A i \in 1 .. n - m + 1 : r[i] = s[m + i - 1]
    BY <1>3, <1>4, <1>5
  <2>2. DOMAIN r = 1 .. n - m + 1
    BY <2>1
  <2>3. \A i \in 1 .. n - m + 1 : m + i - 1 \in 1 .. n
    BY <1>2
  <2>4. \A i \in DOMAIN r : r[i] \in ToSet(s)
    BY <1>2, <2>1, <2>2, <2>3 DEF ToSet
  <2>5. QED
    BY <1>1, <1>3, <2>4 DEF ToSet
<1>6. CASE ~(m =< n)
  <2>1. r \in Seq(Trades) /\ Len(r) = 0
    BY <1>3, <1>4, <1>6
  <2>2. DOMAIN r = {}
    BY <2>1
  <2>3. QED
    BY <1>3, <2>2 DEF ToSet
<1>7. QED
  BY <1>5, <1>6

\* The trades a daemon has in hand come from its batch or from the stream, and
\* it records only what it has in hand.
LEMMA DaemonTrades ==
    ASSUME TypeOK, NEW d \in Daemons, Run(d) \/ Fail(d)
    PROVE  /\ ToSet(batch'[d]) \subseteq ToSet(batch[d]) \cup ToSet(stream)
           /\ rows' \subseteq rows \cup ToSet(batch[d])
           /\ stream' = stream /\ reserved' = reserved
           /\ saved' = saved /\ unsure' = unsure
<1>1. stream' = stream /\ reserved' = reserved /\ saved' = saved /\ unsure' = unsure
  BY DEF Run, Settle, Fail, Start, Read, Check, LockBuyer, LockSeller, Commit, Refuse, Ack,
         CacheIncr, DbError, LoseCommit, RedisError, Crash, redisVars, snapshotVars
<1>2. batch \in [Daemons -> Seq(Trades)]
  BY DEF TypeOK, DaemonTypes
<1>3. ASSUME pc[d] \in Busy
      PROVE  /\ ToSet(Tail(batch[d])) \subseteq ToSet(batch[d])
             /\ Current(d) \in ToSet(batch[d])
  <2>1. PICK b : b = batch[d]
    OBVIOUS
  <2>2. b \in Seq(Trades) /\ b # <<>>
    BY <1>3, <2>1 DEF TypeOK, DaemonTypes
  <2>3. /\ Head(b) = b[1] /\ Tail(b) \in Seq(Trades) /\ Len(Tail(b)) = Len(b) - 1
        /\ \A i \in 1 .. Len(Tail(b)) : Tail(b)[i] = b[i + 1]
    BY <2>2, HeadTailProperties
  <2>4. PICK r, n : r = Tail(b) /\ n = Len(b) /\ n \in Nat /\ n > 0
    <3>1. Len(b) \in Nat /\ Len(b) > 0
      BY <2>2, NonEmpty
    <3>2. PICK n : n = Len(b) /\ n \in Nat /\ n > 0
      BY <3>1
    <3>3. QED
      BY <3>2
  <2>5. /\ DOMAIN b = 1 .. n /\ DOMAIN r = 1 .. (n - 1)
        /\ \A i \in 1 .. (n - 1) : r[i] = b[i + 1] /\ i + 1 \in 1 .. n
    <3>1. DOMAIN b = 1 .. n
      BY <2>2, <2>4
    <3>2. r \in Seq(Trades) /\ Len(r) = n - 1
      BY <2>3, <2>4
    <3>3. DOMAIN r = 1 .. (n - 1)
      BY <3>2
    <3>4. \A i \in 1 .. (n - 1) : r[i] = b[i + 1]
      BY <2>3, <2>4, <3>2
    <3>5. \A i \in 1 .. (n - 1) : i + 1 \in 1 .. n
      BY <2>4
    <3>6. QED
      BY <3>1, <3>3, <3>4, <3>5
  <2>6. ToSet(r) \subseteq ToSet(b)
    BY <2>5 DEF ToSet
  <2>7. b[1] \in ToSet(b)
    <3>1. 1 \in DOMAIN b
      BY <2>4, <2>5
    <3>2. QED
      BY <3>1 DEF ToSet
  <2>8. QED
    BY <2>1, <2>3, <2>4, <2>6, <2>7 DEF Current
<1>4. ToSet(<<>>) = {}
  BY DEF ToSet
<1>5. ASSUME NextMessage(d), pc[d] \in Busy
      PROVE  ToSet(batch'[d]) \subseteq ToSet(batch[d])
  <2>1. batch'[d] = Tail(batch[d])
    BY <1>2, <1>5 DEF NextMessage
  <2>2. QED
    BY <1>3, <1>5, <2>1
<1>6. ASSUME DropBatch(d, "read") \/ DropBatch(d, "down")
      PROVE  ToSet(batch'[d]) \subseteq ToSet(batch[d])
  <2>1. batch'[d] = <<>>
    BY <1>2, <1>6 DEF DropBatch
  <2>2. QED
    BY <1>4, <2>1
<1>7. ToSet(batch'[d]) \subseteq ToSet(batch[d]) \cup ToSet(stream)
  <2>1. CASE Read(d)
    <3>1. batch'[d] = Unread
      BY <1>2, <2>1 DEF Read
    <3>2. QED
      BY <3>1, UnreadInStream DEF TypeOK
  <2>2. CASE batch' = batch
    BY <2>2
  <2>3. CASE Check(d) /\ NextMessage(d)
    BY <1>5, <2>3 DEF Check, Busy
  <2>4. CASE Refuse(d) \/ DbError(d) \/ LoseCommit(d)
    BY <1>5, <2>4 DEF Refuse, DbError, LoseCommit, Busy
  <2>5. CASE CacheIncr(d) /\ NextMessage(d)
    BY <1>5, <2>5 DEF CacheIncr, Busy
  <2>6. CASE RedisError(d) \/ Crash(d)
    BY <1>6, <2>6 DEF RedisError, Crash
  <2>7. \/ Read(d)
        \/ batch' = batch
        \/ (Check(d) /\ NextMessage(d))
        \/ Refuse(d) \/ DbError(d) \/ LoseCommit(d)
        \/ (CacheIncr(d) /\ NextMessage(d))
        \/ RedisError(d) \/ Crash(d)
    <3>1. CASE Check(d)
      BY <3>1 DEF Check, Goto
    <3>2. CASE Start(d) \/ LockBuyer(d) \/ LockSeller(d) \/ Commit(d) \/ Ack(d)
      BY <3>2 DEF Start, LockBuyer, LockSeller, Commit, Ack, Goto
    <3>3. CASE CacheIncr(d)
      BY <3>3 DEF CacheIncr
    <3>4. QED
      BY <3>1, <3>2, <3>3 DEF Run, Settle, Fail
  <2>8. QED
    BY <2>1, <2>2, <2>3, <2>4, <2>5, <2>6, <2>7
<1>8. rows' \subseteq rows \cup ToSet(batch[d])
  <2>1. CASE Commit(d) \/ LoseCommit(d)
    BY <1>3, <2>1 DEF Commit, LoseCommit, PostTrade, Busy
  <2>2. CASE ~Commit(d) /\ ~LoseCommit(d)
    BY <2>2 DEF Run, Settle, Fail, Start, Read, Check, LockBuyer, LockSeller, Refuse, Ack,
           CacheIncr, DbError, RedisError, Crash, dbVars
  <2>3. QED
    BY <2>1, <2>2
<1>9. QED
  BY <1>1, <1>7, <1>8

LEMMA NextReserved == TypeOK /\ Reserved /\ [Next]_vars => Reserved'
<1> SUFFICES ASSUME TypeOK, Reserved, [Next]_vars PROVE Reserved'
  OBVIOUS
<1>1. ASSUME UNCHANGED <<reserved, batch, rows>>,
             stream' \in {stream, saved.stream}, saved'.stream \in {stream, saved.stream}
      PROVE  Reserved'
  BY <1>1 DEF Reserved
<1>2. CASE UNCHANGED vars
  BY <1>1, <1>2 DEF vars, redisVars, daemonVars, dbVars, snapshotVars
<1>3. CASE \E u \in Users : LoginPortfolio(u) \/ LoginPositions(u) \/ LoginCache(u)
  BY <1>1, <1>3 DEF LoginPortfolio, LoginPositions, LoginCache, redisVars, daemonVars, dbVars,
                    snapshotVars
<1>9. CASE Save
  <2>1. saved'.stream = stream
    BY <1>9 DEF Save, Redis
  <2>2. UNCHANGED <<reserved, stream, batch, rows>>
    BY <1>9 DEF Save, redisVars, daemonVars, dbVars
  <2>3. QED
    BY <1>1, <2>1, <2>2
<1>10. CASE Restore
  BY <1>1, <1>10 DEF Restore, daemonVars, dbVars
<1>11. CASE \E d \in Daemons : Lose(d)
  BY <1>1, <1>11 DEF Lose, LoseIncrReply, LoseReadReply, redisVars, daemonVars, dbVars,
                     snapshotVars
<1>4. CASE \E d \in Daemons : Poll(d)
  BY <1>2, <1>4 DEF Poll
<1>5. CASE Hold
  <2>1. PICK t \in Trades : HoldFunds(t) \/ HoldShares(t)
    BY <1>5 DEF Hold
  <2>2. /\ reserved \in [Trades -> SUBSET {"buy", "sell"}]
        /\ stream \in Seq(Trades) /\ batch \in [Daemons -> Seq(Trades)] /\ rows \subseteq Trades
        /\ saved.stream \in Seq(Trades)
    BY DEF TypeOK, RedisTypes, DaemonTypes, DbTypes, SavedTypes
  <2>3. \A x \in Trades : reserved[x] = {"buy", "sell"} => reserved'[x] = {"buy", "sell"}
    BY <2>1, <2>2 DEF HoldFunds, HoldShares
  <2>4. /\ ToSet(stream) \subseteq Trades /\ ToSet(saved.stream) \subseteq Trades
        /\ \A d \in Daemons : ToSet(batch[d]) \subseteq Trades
    BY <2>2 DEF ToSet
  <2>5. UNCHANGED <<stream, batch, rows, saved>>
    BY <1>5 DEF Hold, redisVars, daemonVars, dbVars, snapshotVars
  <2>6. QED
    BY <2>2, <2>3, <2>4, <2>5 DEF Reserved
<1>6. CASE \E t \in Trades : Publish(t)
  <2>1. PICK t \in Trades : Publish(t)
    BY <1>6
  <2>2. UNCHANGED <<reserved, batch, rows, saved>> /\ reserved[t] = {"buy", "sell"}
    BY <2>1 DEF Publish, daemonVars, dbVars
  <2>3. ToSet(stream') \subseteq ToSet(stream) \cup {t}
    <3>1. PICK s, n : s = stream' /\ n = Len(stream) /\ n \in Nat
      BY DEF TypeOK, RedisTypes
    <3>2. /\ stream \in Seq(Trades) /\ s = Append(stream, t)
      BY <2>1, <3>1 DEF Publish, TypeOK, RedisTypes
    <3>3. /\ DOMAIN s = 1 .. (n + 1) /\ s[n + 1] = t /\ DOMAIN stream = 1 .. n
          /\ \A i \in 1 .. n : s[i] = stream[i]
      BY <3>1, <3>2
    <3>4. \A i \in DOMAIN s : s[i] = t \/ s[i] \in ToSet(stream)
      <4>1. \A i \in 1 .. (n + 1) : i = n + 1 \/ i \in 1 .. n
        BY <3>1
      <4>2. QED
        BY <3>3, <4>1 DEF ToSet
    <3>5. QED
      BY <3>1, <3>4 DEF ToSet
  <2>4. QED
    BY <2>2, <2>3 DEF Reserved
<1>7. ASSUME NEW d \in Daemons, Run(d) \/ Fail(d)
      PROVE  Reserved'
  <2>1. /\ ToSet(batch'[d]) \subseteq ToSet(batch[d]) \cup ToSet(stream)
        /\ rows' \subseteq rows \cup ToSet(batch[d])
        /\ stream' = stream /\ reserved' = reserved /\ saved' = saved
    BY <1>7, DaemonTrades
  <2>2. \A e \in Daemons \ {d} : batch'[e] = batch[e]
    BY <1>7, OtherDaemons DEF TypeOK
  <2>3. QED
    BY <2>1, <2>2 DEF Reserved
<1>8. QED
  BY <1>2, <1>3, <1>4, <1>5, <1>6, <1>7, <1>9, <1>10, <1>11 DEF Next

\* What daemons have to send keeps its signs.
LEMMA NextSigned == TypeOK /\ TypeOK' /\ Signed /\ [Next]_vars => Signed'
<1> SUFFICES ASSUME TypeOK, TypeOK', Signed, [Next]_vars PROVE Signed'
  OBVIOUS
<1>1. ASSUME UNCHANGED daemonVars
      PROVE  Signed'
  BY <1>1 DEF Signed, Remaining, Current, daemonVars
<1>2. CASE UNCHANGED vars \/ Save \/ Restore \/ Hold \/ \E t \in Trades : Publish(t)
  BY <1>1, <1>2 DEF vars, Save, Restore, Hold, Publish
<1>3. CASE \E u \in Users : LoginPortfolio(u) \/ LoginPositions(u) \/ LoginCache(u)
  BY <1>1, <1>3 DEF LoginPortfolio, LoginPositions, LoginCache
<1>4. CASE \E d \in Daemons : Poll(d)
  BY <1>2, <1>4 DEF Poll
<1>5. ASSUME NEW d \in Daemons, Run(d) \/ Fail(d)
      PROVE  Signed'
  <2>1. PICK s, r : s = Remaining(d) /\ r = Remaining(d)'
    OBVIOUS
  <2>2. s \in Seq(Increment) /\ Signs(s)
    BY <2>1, RemainingType DEF TypeOK, Signed
  <2>3. Signs(<<>>)
    BY DEF Signs
  <2>4. ASSUME r \in {s, <<>>} PROVE Signs(r)
    BY <2>2, <2>3, <2>4
  <2>5. ASSUME Commit(d) \/ LoseCommit(d), r \in {SettleCache(Current(d)), <<>>}
        PROVE  Signs(r)
    <3>1. Current(d) \in Trades
      BY <2>5, CurrentIsTrade DEF Commit, LoseCommit, TypeOK, Busy
    <3>2. Signs(SettleCache(Current(d)))
      BY <3>1, PartSettle
    <3>3. QED
      BY <2>3, <2>5, <3>2
  <2>6. ASSUME pc[d] = "cache", r \in {Tail(todo[d]), <<>>} PROVE Signs(r)
    <3>1. s = todo[d] /\ s # <<>>
      BY <2>1, <2>6 DEF Remaining, TypeOK, DaemonTypes
    <3>2. QED
      BY <2>2, <2>3, <2>6, <3>1, PartTail
  <2>7. Signs(r)
    BY <1>5, <2>1, <2>4, <2>5, <2>6, DaemonSteps
  <2>8. QED
    BY <1>5, <2>1, <2>7, OthersTodo DEF Signed
<1>6. CASE \E d \in Daemons : Lose(d)
  BY <1>1, <1>6 DEF Lose, LoseIncrReply, LoseReadReply
<1>7. QED
  BY <1>2, <1>3, <1>4, <1>5, <1>6 DEF Next

\* Nobody is sure again.
LEMMA UnsureGrows == [Next]_vars => unsure \subseteq unsure'
<1> SUFFICES ASSUME [Next]_vars PROVE unsure \subseteq unsure'
  OBVIOUS
<1>1. CASE UNCHANGED vars
  BY <1>1 DEF vars, snapshotVars
<1>2. CASE Hold \/ (\E t \in Trades : Publish(t)) \/ Save \/ Restore
  BY <1>2 DEF Hold, Publish, Save, Restore, snapshotVars
<1>3. CASE \E d \in Daemons : Run(d) \/ Poll(d)
  BY <1>3 DEF Run, Settle, Poll, Start, Read, Check, LockBuyer, LockSeller, Commit, Refuse,
              Ack, CacheIncr, vars, snapshotVars
<1>4. CASE \E d \in Daemons : Fail(d) \/ Lose(d)
  BY <1>4 DEF Fail, DbError, LoseCommit, RedisError, Crash, Lose, LoseIncrReply,
              LoseReadReply, snapshotVars
<1>5. CASE \E u \in Users : LoginPortfolio(u) \/ LoginPositions(u) \/ LoginCache(u)
  BY <1>5 DEF LoginPortfolio, LoginPositions, LoginCache, snapshotVars
<1>6. QED
  BY <1>1, <1>2, <1>3, <1>4, <1>5 DEF Next

\* Every step keeps the cached balances backed, of all who are sure after it.
LEMMA NextBacked ==
    ASSUME TypeOK, TypeOK', LockedRows, Reserved, Signed, Backed, [Next]_vars
    PROVE  Backed'
<1> SUFFICES ASSUME NEW u \in Users, u \notin unsure', BackedFor(u)
             PROVE  BackedFor(u)'
  BY UnsureGrows DEF Backed, Sure
<1>1. ASSUME UNCHANGED <<daemonVars, cash, shares, rows, reserved>>, cache'[u] = cache[u]
      PROVE  BackedFor(u)'
  <2>1. \A e \in Daemons : Remaining(e)' = Remaining(e)
    BY <1>1 DEF daemonVars, Remaining, Current
  <2>2. QED
    BY <1>1, <2>1, BackedSame
<1>2. CASE UNCHANGED vars \/ Save \/ \E t \in Trades : Publish(t)
  BY <1>1, <1>2 DEF vars, dbVars, Save, Publish
<1>8. CASE Restore
  <2>1. cache'[u] = cache[u]
    BY <1>8 DEF Restore
  <2>2. QED
    BY <1>1, <1>8, <2>1 DEF Restore, dbVars
<1>9. CASE \E d \in Daemons : Lose(d)
  <2>1. PICK d \in Daemons : Lose(d)
    BY <1>9
  <2>2. CASE LoseIncrReply(d)
    <3>1. Head(todo[d]).user # u /\ Apply(d) /\ cache \in [Users -> Account]
      BY <2>2 DEF LoseIncrReply, TypeOK, CacheTypes
    <3>2. cache'[u] = cache[u]
      BY <3>1 DEF Apply
    <3>3. QED
      BY <1>1, <2>2, <3>2 DEF LoseIncrReply, dbVars
  <2>3. CASE LoseReadReply(d)
    BY <1>1, <2>3 DEF LoseReadReply, dbVars
  <2>4. QED
    BY <2>1, <2>2, <2>3 DEF Lose
<1>3. CASE \E d \in Daemons : Poll(d)
  BY <1>2, <1>3 DEF Poll
<1>4. CASE Hold
  BY <1>4, BackedHold
<1>5. ASSUME NEW v \in Users, LoginPortfolio(v) \/ LoginPositions(v) \/ LoginCache(v)
      PROVE  BackedFor(u)'
  <2>1. CASE LoginPortfolio(v) \/ LoginPositions(v)
    BY <1>1, <2>1 DEF LoginPortfolio, LoginPositions, dbVars
  <2>2. CASE LoginCache(v)
    <3>1. v # u /\ cache \in [Users -> Account]
      BY <2>2 DEF LoginCache, TypeOK, CacheTypes
    <3>2. cache'[u] = cache[u]
      BY <2>2, <3>1 DEF LoginCache
    <3>3. QED
      BY <1>1, <2>2, <3>2 DEF LoginCache, dbVars
  <2>3. QED
    BY <1>5, <2>1, <2>2
<1>6. ASSUME NEW d \in Daemons, Run(d) \/ Fail(d)
      PROVE  BackedFor(u)'
  <2>1. \A e \in Daemons \ {d} : Remaining(e)' = Remaining(e)
    BY <1>6, OthersTodo
  <2>2. CASE /\ UNCHANGED <<cache, cash, shares, rows, reserved>>
             /\ Remaining(d)' \in {Remaining(d), <<>>}
    BY <2>1, <2>2, BackedDrop
  <2>3. CASE /\ Commit(d) \/ LoseCommit(d)
             /\ Remaining(d)' \in {SettleCache(Current(d)), <<>>}
    <3>1. PICK t : t = Current(d)
      OBVIOUS
    <3>2. /\ pc[d] = "write" /\ t \notin rows /\ PostTrade(d, t)
          /\ cache' = cache /\ reserved' = reserved
      BY <2>3, <3>1 DEF Commit, LoseCommit
    <3>3. t \in Trades /\ t \in ToSet(batch[d])
      <4>1. rows' \subseteq rows \cup ToSet(batch[d])
        BY <1>6, DaemonTrades
      <4>2. QED
        BY <3>1, <3>2, <4>1, CurrentIsTrade DEF PostTrade, TypeOK, Busy
    <3>4. reserved[t] = {"buy", "sell"}
      BY <3>3 DEF Reserved
    <3>5. Remaining(d)' \in {SettleCache(t), <<>>}
      BY <2>3, <3>1
    <3>6. QED
      BY <2>1, <3>1, <3>2, <3>3, <3>4, <3>5, BackedPost
  <2>4. CASE /\ pc[d] = "cache" /\ Apply(d) /\ UNCHANGED <<cash, shares, rows, reserved>>
             /\ Remaining(d)' \in {Tail(todo[d]), <<>>}
    BY <2>1, <2>4, BackedIncr
  <2>5. QED
    BY <1>6, <2>2, <2>3, <2>4, DaemonSteps
<1>7. QED
  BY <1>2, <1>3, <1>4, <1>5, <1>6, <1>8, <1>9 DEF Next

LEMMA InitCache == Init => Reserved /\ Signed /\ Backed
<1> SUFFICES ASSUME Init PROVE Reserved /\ Signed /\ Backed
  OBVIOUS
<1>1. \A d \in Daemons : Remaining(d) = <<>>
  BY DEF Init, Remaining
<1>2. Reserved
  BY DEF Init, Redis, Reserved, ToSet
<1>3. Signed
  BY <1>1 DEF Signed, Signs
<1>5. ASSUME NEW u, NEW f PROVE Coming(u, f) = 0
  <2>1. PICK a : a = [d \in Daemons |-> Part(Remaining(d), u, f)]
    OBVIOUS
  <2>2. \A d \in Daemons : a[d] = 0
    BY <1>1, <2>1, PartEmpty
  <2>3. SumFunctionOnSet(a, Daemons) = 0
    BY <2>2, FiniteAssumption, SumZero
  <2>4. QED
    BY <2>1, <2>3 DEF Coming, SumFunction
<1>6. Held({}) = 0 /\ Quantity({}) = 0
  <2>1. PICK N : N = {}
    OBVIOUS
  <2>2. Held(N) = 0 /\ Quantity(N) = 0
    BY <2>1, SumOfNone DEF Held, Quantity
  <2>3. QED
    BY <2>1, <2>2
<1>7. ASSUME NEW u \in Users PROVE BackedFor(u)
  <2>1. OpenBuys(u) = {} /\ OpenSells(u) = {}
    BY DEF Init, OpenBuys, OpenSells
  <2>2. /\ cache[u].cash = StartCash /\ cache[u].shares = StartShares
        /\ cache[u].held = 0 /\ cache[u].heldShares = 0
        /\ cash[u] = StartCash /\ shares[u] = StartShares
    BY DEF Init, Fresh
  <2>3. Held(OpenBuys(u)) = 0 /\ Quantity(OpenSells(u)) = 0
    BY <1>6, <2>1
  <2>4. /\ Coming(u, "cash") = 0 /\ Coming(u, "shares") = 0
        /\ Coming(u, "held") = 0 /\ Coming(u, "heldShares") = 0
    BY <1>5
  <2>5. QED
    BY <2>2, <2>3, <2>4, NumbersAssumption DEF BackedFor
<1>8. QED
  BY <1>2, <1>3, <1>7 DEF Backed, Sure

\* What is on its way is never negative, and what is about to be unlocked is
\* never more than is locked.
LEMMA CacheSafe ==
    TypeOK /\ Signed /\ Backed => AvailableBacked /\ HoldsCover
<1> SUFFICES ASSUME TypeOK, Signed, Backed, NEW u \in Sure
             PROVE  /\ 0 =< cache[u].cash
                    /\ cache[u].cash + Held(OpenBuys(u)) =< cash[u]
                    /\ 0 =< cache[u].shares
                    /\ cache[u].shares + Quantity(OpenSells(u)) =< shares[u]
                    /\ cache[u].held >= Held(OpenBuys(u))
                    /\ cache[u].heldShares >= Quantity(OpenSells(u))
  BY DEF AvailableBacked, Covered, HoldsCover
<1> u \in Users
  BY DEF Sure
<1>1. /\ Coming(u, "cash") >= 0 /\ Coming(u, "shares") >= 0
      /\ Coming(u, "held") =< 0 /\ Coming(u, "heldShares") =< 0
  BY ComingSign DEF TypeOK
<1>2. BackedFor(u)
  BY DEF Backed
<1>3. QED
  BY <1>1, <1>2, BackedInts DEF BackedFor

\* The cache never lets a user spend more than the ledger has over and above his
\* unsettled trades: for any number of daemons, own trades, redeliveries, failed
\* calls, lost replies and commits, crashes and restarts of Redis, and for every
\* user who has not logged in meanwhile, none of whose HINCRBYs the client sent
\* twice and none of whose fields a restart set back.
THEOREM CacheIsBacked == Spec => []AvailableBacked
<1>1. Init => LockedRows
  BY DEF Init, LockedRows
<1>2. TypeOK /\ Signed /\ Backed => AvailableBacked
  BY CacheSafe
<1>3. TypeOK /\ TypeOK' /\ LockedRows /\ Reserved /\ Signed /\ Backed /\ [Next]_vars => Backed'
  BY NextBacked
<1>4. QED
  BY <1>1, <1>2, <1>3, InitTypes, NextTypes, NextRows, InitCache, NextReserved,
     NextSigned, PTL DEF Spec

\* The other half: what is locked for such a user covers his unsettled trades.
THEOREM HoldsCovered == Spec => []HoldsCover
<1>1. Init => LockedRows
  BY DEF Init, LockedRows
<1>2. TypeOK /\ Signed /\ Backed => HoldsCover
  BY CacheSafe
<1>3. TypeOK /\ TypeOK' /\ LockedRows /\ Reserved /\ Signed /\ Backed /\ [Next]_vars => Backed'
  BY NextBacked
<1>4. QED
  BY <1>1, <1>2, <1>3, InitTypes, NextTypes, NextRows, InitCache, NextReserved,
     NextSigned, PTL DEF Spec
================================================================================
