------------------------------ MODULE TradeDaemon ------------------------------
(***************************************************************************)
(* The way of an executed trade from the matching engine to the ledger     *)
(* (core_ledger/management/commands/trade_registery.py): the engine        *)
(* appends it to a capped Redis stream, a daemon of the consumer group     *)
(* reads it, settles it in one Postgres transaction under row locks,       *)
(* acknowledges it after the commit and then updates the cached balances   *)
(* the engine admits orders against.  One Redis or Postgres call is one    *)
(* step.  Each trade is a constant that is published at most once; the     *)
(* trade stands for its message and the message's id.                      *)
(***************************************************************************)
EXTENDS Integers, Sequences, FiniteSets, Functions, SequencesExt

CONSTANTS
    Users,
    Trades,       \* the trades the engine may execute
    Daemons,      \* the running copies of the management command
    NoDaemon,
    StartCash,    \* the cash of a new portfolio
    StartShares,  \* the shares of each portfolio before the first trade
    MaxLen,       \* the maxlen of XADD
    Faults,       \* bound: how many faults may happen
    Restarts,     \* bound: how often Redis restarts from its snapshot
    Logins        \* bound: how many users log in while trading goes on

ASSUME TradesAssumption ==
    /\ Trades \subseteq [buyer : Users, seller : Users, quantity : Nat,
                         settled : Nat,   \* what the buyer pays
                         locked : Nat,    \* price_locked_by_user times quantity
                         held : Nat]      \* the hold placed for the buy
    /\ \A t \in Trades : t.settled =< t.held /\ t.locked =< t.held
ASSUME NumbersAssumption ==
    /\ StartCash \in Nat /\ StartShares \in Nat /\ MaxLen \in Nat
    /\ Faults \in Nat /\ Restarts \in Nat /\ Logins \in Nat
ASSUME DaemonsAssumption == NoDaemon \notin Daemons
ASSUME FiniteAssumption == IsFiniteSet(Trades) /\ IsFiniteSet(Daemons)

VARIABLES
    reserved,   \* the sides of each trade whose order placed its hold
    stream,     \* executed_trades_stream, with the entries trimmed from it
    trimmed,    \* how many entries the cap removed at its front
    group,      \* whether the consumer group django_workers exists
    delivered,  \* the group's last delivered position
    pel,        \* the group's pending entries: delivered, not acknowledged
    pc,         \* what each daemon does next
    batch,      \* the messages each daemon has still to process
    todo,       \* the HINCRBYs each daemon has still to send in settle_cache
    seen,       \* the balances each daemon read in its transaction
    lock,       \* the daemon whose transaction locks each portfolio row
    cash,       \* Portfolio.cash_balance
    shares,     \* Position.quantity
    rows,       \* the trades with their LedgerTransaction rows committed
    cache,      \* cache:portfolio:<user> and cache:positions:<user>
    login,      \* what a login of each user has read of Postgres so far
    published,  \* history: the trades the engine has published
    saved,      \* the snapshot of Redis on disk
    unsure,     \* history: the users whose cached fields Redis may have
                \* changed twice or brought back, or a login has replaced
    faults,     \* how many calls, commits or processes have failed
    restarts, logins

redisVars == <<stream, trimmed, group, delivered, pel>>
daemonVars == <<pc, batch, todo, seen>>
dbVars == <<lock, cash, shares, rows>>
snapshotVars == <<published, saved, unsure, restarts>>
vars == <<reserved, redisVars, daemonVars, dbVars, cache, login, snapshotVars,
          faults, logins>>

NoneSeen == [buyer |-> 0, seller |-> 0]
Account == [cash : Int, held : Int, shares : Int, heldShares : Int]
Fresh(c, s) == [cash |-> c, held |-> 0, shares |-> s, heldShares |-> 0]
Current(d) == Head(batch[d])
\* All that Redis keeps and writes to its snapshot.
Redis == [stream |-> stream, trimmed |-> trimmed, group |-> group,
          delivered |-> delivered, pel |-> pel, cache |-> cache]

Init ==
    /\ reserved = [t \in Trades |-> {}]
    /\ stream = <<>> /\ trimmed = 0
    /\ group = FALSE /\ delivered = 0 /\ pel = {}
    /\ pc = [d \in Daemons |-> "down"]
    /\ batch = [d \in Daemons |-> <<>>]
    /\ todo = [d \in Daemons |-> <<>>]
    /\ seen = [d \in Daemons |-> NoneSeen]
    /\ lock = [u \in Users |-> NoDaemon]
    /\ cash = [u \in Users |-> StartCash]
    /\ shares = [u \in Users |-> StartShares]
    /\ rows = {}
    /\ cache = [u \in Users |-> Fresh(StartCash, StartShares)]
    /\ login = [u \in Users |-> <<>>]
    /\ published = {} /\ saved = Redis /\ unsure = {}
    /\ faults = 0 /\ restarts = 0 /\ logins = 0

(***************************************************************************)
(* The engine.                                                             *)
(***************************************************************************)
\* An order passes have_funds: its WATCHed transaction moves the funds or the
\* shares from the available to the locked field.
HoldFunds(t) ==
    /\ "buy" \notin reserved[t]
    /\ cache[t.buyer].cash >= t.held
    /\ cache' = [cache EXCEPT ![t.buyer] =
                    [cache[t.buyer] EXCEPT !.cash = @ - t.held, !.held = @ + t.held]]
    /\ reserved' = [reserved EXCEPT ![t] = @ \cup {"buy"}]
HoldShares(t) ==
    /\ "sell" \notin reserved[t]
    /\ cache[t.seller].shares >= t.quantity
    /\ cache' = [cache EXCEPT ![t.seller] =
                    [cache[t.seller] EXCEPT !.shares = @ - t.quantity,
                                            !.heldShares = @ + t.quantity]]
    /\ reserved' = [reserved EXCEPT ![t] = @ \cup {"sell"}]
Hold ==
    /\ \E t \in Trades : HoldFunds(t) \/ HoldShares(t)
    /\ UNCHANGED <<redisVars, daemonVars, dbVars, login, snapshotVars, faults, logins>>

\* XADD with MAXLEN ~: Redis removes whole nodes, so any number of the oldest
\* entries down to the cap may go, whether or not they were read.
Publish(t) ==
    /\ reserved[t] = {"buy", "sell"} /\ t \notin published
    /\ published' = published \cup {t}
    /\ stream' = Append(stream, t)
    /\ trimmed' \in trimmed .. (trimmed + Len(stream) + 1)
    /\ trimmed' > trimmed => Len(stream) + 1 - trimmed' >= MaxLen
    /\ UNCHANGED <<reserved, group, delivered, pel, daemonVars, dbVars, cache,
                   login, saved, unsure, faults, restarts, logins>>

(***************************************************************************)
(* The daemon's loop.                                                      *)
(***************************************************************************)
\* Bug: the group is created at the end of the stream ("$").
BugStart(d) ==
    /\ pc[d] = "down"
    /\ pc' = [pc EXCEPT ![d] = "read"]
    /\ group' = TRUE
    /\ delivered' = IF group THEN delivered ELSE Len(stream)
    /\ UNCHANGED <<reserved, stream, trimmed, pel, batch, todo, seen, dbVars,
                   cache, login, snapshotVars, faults, logins>>
\* The command starts and creates its group at id 0 unless Redis has it.
Start(d) ==
    /\ pc[d] = "down"
    /\ pc' = [pc EXCEPT ![d] = "read"]
    /\ group' = TRUE
    /\ UNCHANGED <<reserved, stream, trimmed, delivered, pel, batch, todo, seen,
                   dbVars, cache, login, snapshotVars, faults, logins>>

\* XREADGROUP with '>': everything in the stream the group was never given.
Unread ==
    SubSeq(stream, 1 + IF delivered > trimmed THEN delivered ELSE trimmed, Len(stream))
Read(d) ==
    /\ pc[d] = "read" /\ group /\ Unread # <<>>
    /\ batch' = [batch EXCEPT ![d] = Unread]
    /\ delivered' = Len(stream)
    /\ pel' = pel \cup ToSet(Unread)
    /\ pc' = [pc EXCEPT ![d] = "check"]
    /\ UNCHANGED <<reserved, stream, trimmed, group, todo, seen, dbVars, cache,
                   login, snapshotVars, faults, logins>>
\* The read times out, or fails because the group is gone, and is repeated.
Poll(d) ==
    /\ pc[d] = "read" /\ (~group \/ Unread = <<>>)
    /\ UNCHANGED vars

\* Bug: the transaction is left open and its locks stay.
BugUnlocked(d) == lock
\* The transaction of daemon d ends and its row locks go.
Unlocked(d) == [u \in Users |-> IF lock[u] = d THEN NoDaemon ELSE lock[u]]
\* Bug: the end of the batch is not noticed.
BugNextMessage(d) ==
    /\ batch' = [batch EXCEPT ![d] = Tail(@)]
    /\ pc' = [pc EXCEPT ![d] = "check"]
    /\ todo' = [todo EXCEPT ![d] = <<>>]
    /\ seen' = [seen EXCEPT ![d] = NoneSeen]
\* The loop goes on with the next message of the batch ...
NextMessage(d) ==
    /\ batch' = [batch EXCEPT ![d] = Tail(@)]
    /\ pc' = [pc EXCEPT ![d] = IF Len(batch[d]) > 1 THEN "check" ELSE "read"]
    /\ todo' = [todo EXCEPT ![d] = <<>>]
    /\ seen' = [seen EXCEPT ![d] = NoneSeen]
\* ... or an exception leaves the loop and the rest of the batch with it.
DropBatch(d, next) ==
    /\ batch' = [batch EXCEPT ![d] = <<>>]
    /\ pc' = [pc EXCEPT ![d] = next]
    /\ todo' = [todo EXCEPT ![d] = <<>>]
    /\ seen' = [seen EXCEPT ![d] = NoneSeen]
Goto(d, next) ==
    /\ pc' = [pc EXCEPT ![d] = next]
    /\ UNCHANGED <<batch, todo, seen>>

\* Bug: every message is acknowledged on receipt.
BugCheck(d) ==
    /\ pc[d] = "check"
    /\ pel' = pel \ {Current(d)}
    /\ IF Current(d) \in rows THEN NextMessage(d) ELSE Goto(d, "lockBuyer")
    /\ UNCHANGED <<reserved, stream, trimmed, group, delivered, dbVars, cache,
                   login, snapshotVars, faults, logins>>
\* A message whose SELL row exists is acknowledged and skipped.
Check(d) ==
    /\ pc[d] = "check"
    /\ \/ /\ Current(d) \in rows
          /\ pel' = pel \ {Current(d)}
          /\ NextMessage(d)
       \/ /\ Current(d) \notin rows
          /\ Goto(d, "lockBuyer")
          /\ UNCHANGED pel
    /\ UNCHANGED <<reserved, stream, trimmed, group, delivered, dbVars, cache,
                   login, snapshotVars, faults, logins>>

\* SELECT ... FOR UPDATE of the buyer's portfolio, then of the seller's.
\* Bug: get() without select_for_update().
BugFree(d, u) == TRUE
Free(d, u) == lock[u] \in {NoDaemon, d}
LockBuyer(d) ==
    /\ pc[d] = "lockBuyer" /\ Free(d, Current(d).buyer)
    /\ lock' = [lock EXCEPT ![Current(d).buyer] = d]
    /\ seen' = [seen EXCEPT ![d].buyer = cash[Current(d).buyer]]
    /\ pc' = [pc EXCEPT ![d] = "lockSeller"]
    /\ UNCHANGED <<reserved, redisVars, batch, todo, cash, shares, rows, cache,
                   login, snapshotVars, faults, logins>>
LockSeller(d) ==
    /\ pc[d] = "lockSeller" /\ Free(d, Current(d).seller)
    /\ lock' = [lock EXCEPT ![Current(d).seller] = d]
    /\ seen' = [seen EXCEPT ![d].seller = cash[Current(d).seller]]
    /\ pc' = [pc EXCEPT ![d] = "write"]
    /\ UNCHANGED <<reserved, redisVars, batch, todo, cash, shares, rows, cache,
                   login, snapshotVars, faults, logins>>

\* The writes of the transaction, visible from its commit: both cash balances
\* from the values read under lock, the seller's before the buyer's was saved.
BugPostTrade(d, t) ==  \* Bug: the seller is paid the price the buyer locked.
    /\ cash' = [[cash EXCEPT ![t.buyer] = seen[d].buyer - t.settled]
                      EXCEPT ![t.seller] = seen[d].seller + t.locked]
    /\ shares' = [[shares EXCEPT ![t.seller] = @ - t.quantity]
                          EXCEPT ![t.buyer] = @ + t.quantity]
    /\ rows' = rows \cup {t}
    /\ lock' = Unlocked(d)
PostTrade(d, t) ==
    /\ cash' = [[cash EXCEPT ![t.buyer] = seen[d].buyer - t.settled]
                      EXCEPT ![t.seller] = seen[d].seller + t.settled]
    /\ shares' = [[shares EXCEPT ![t.seller] = @ - t.quantity]
                          EXCEPT ![t.buyer] = @ + t.quantity]
    /\ rows' = rows \cup {t}
    /\ lock' = Unlocked(d)
\* Bug: stream_order_id is not unique.
BugCommit(d) ==
    /\ pc[d] = "write"
    /\ PostTrade(d, Current(d))
    /\ Goto(d, "ack")
    /\ UNCHANGED <<reserved, redisVars, cache, login, snapshotVars, faults, logins>>
Commit(d) ==
    /\ pc[d] = "write" /\ Current(d) \notin rows
    /\ PostTrade(d, Current(d))
    /\ Goto(d, "ack")
    /\ UNCHANGED <<reserved, redisVars, cache, login, snapshotVars, faults, logins>>
\* Bug: a refused duplicate runs the on_commit hooks too.
BugRefuse(d) ==
    /\ pc[d] = "write" /\ Current(d) \in rows
    /\ lock' = Unlocked(d)
    /\ Goto(d, "ack")
    /\ UNCHANGED <<reserved, redisVars, cash, shares, rows, cache, login,
                   snapshotVars, faults, logins>>
\* IntegrityError: stream_order_id is unique; roll back and acknowledge.
Refuse(d) ==
    /\ pc[d] = "write" /\ Current(d) \in rows
    /\ pel' = pel \ {Current(d)}
    /\ lock' = Unlocked(d)
    /\ NextMessage(d)
    /\ UNCHANGED <<reserved, stream, trimmed, group, delivered, cash, shares,
                   rows, cache, login, snapshotVars, faults, logins>>

(***************************************************************************)
(* The on_commit hooks: XACK, then settle_cache, one HINCRBY at a time.    *)
(***************************************************************************)
Incr(user, field, by) == [user |-> user, field |-> field, by |-> by]
\* Bug: all that was locked comes back, and not just what was not spent.
BugSettleCache(t) ==
    <<Incr(t.seller, "heldShares", -t.quantity),
      Incr(t.seller, "cash", t.settled),
      Incr(t.buyer, "held", -t.locked),
      Incr(t.buyer, "shares", t.quantity),
      Incr(t.buyer, "cash", t.locked)>>
SettleCache(t) ==
    <<Incr(t.seller, "heldShares", -t.quantity),
      Incr(t.seller, "cash", t.settled),
      Incr(t.buyer, "held", -t.locked),
      Incr(t.buyer, "shares", t.quantity)>>
    \o IF t.locked > t.settled
       THEN <<Incr(t.buyer, "cash", t.locked - t.settled)>> ELSE <<>>

Ack(d) ==
    /\ pc[d] = "ack"
    /\ pel' = pel \ {Current(d)}
    /\ pc' = [pc EXCEPT ![d] = "cache"]
    /\ todo' = [todo EXCEPT ![d] = SettleCache(Current(d))]
    /\ UNCHANGED <<reserved, stream, trimmed, group, delivered, batch, seen,
                   dbVars, cache, login, snapshotVars, faults, logins>>
\* Redis runs the increment the daemon is sending.
Apply(d) ==
    LET incr == Head(todo[d])
    IN cache' = [cache EXCEPT ![incr.user][incr.field] = @ + incr.by]
CacheIncr(d) ==
    /\ pc[d] = "cache"
    /\ Apply(d)
    /\ IF Len(todo[d]) = 1
       THEN NextMessage(d)
       ELSE /\ todo' = [todo EXCEPT ![d] = Tail(@)]
            /\ UNCHANGED <<pc, batch, seen>>
    /\ UNCHANGED <<reserved, redisVars, dbVars, login, snapshotVars, faults, logins>>

(***************************************************************************)
(* Faults.                                                                 *)
(***************************************************************************)
Fault == faults < Faults /\ faults' = faults + 1

\* Each of d's transaction and another daemon's holds a row the other wants.
Wants(d) ==
    CASE pc[d] = "lockBuyer"  -> {Current(d).buyer}
      [] pc[d] = "lockSeller" -> {Current(d).seller}
      [] OTHER                -> {}
Deadlocked(d) ==
    \E e \in Daemons \ {d} :
       /\ \E u \in Wants(d) : lock[u] = e
       /\ \E u \in Wants(e) : lock[u] = d

\* Postgres aborts the transaction; the OperationalError is logged and the
\* loop goes on with the next message.  A deadlock may come beyond the bound.
DbError(d) ==
    /\ pc[d] \in {"check", "lockBuyer", "lockSeller", "write"}
    /\ Deadlocked(d) \/ faults < Faults
    /\ faults' = faults + 1
    /\ lock' = Unlocked(d)
    /\ NextMessage(d)
    /\ UNCHANGED <<reserved, redisVars, cash, shares, rows, cache, login,
                   snapshotVars, logins>>
\* The connection is lost during COMMIT, after Postgres has committed: no hook
\* runs.
LoseCommit(d) ==
    /\ pc[d] = "write" /\ Current(d) \notin rows
    /\ Fault
    /\ PostTrade(d, Current(d))
    /\ NextMessage(d)
    /\ UNCHANGED <<reserved, redisVars, cache, login,
                   snapshotVars, logins>>
\* A call to Redis raises, after the client's last attempt, and no handler of
\* process_stream_message takes it.  Redis may have run the command.
RedisError(d) ==
    /\ \/ pc[d] \in {"ack", "cache"}
       \/ pc[d] \in {"check", "write"} /\ Current(d) \in rows
    /\ Fault
    /\ \/ UNCHANGED <<pel, cache>>
       \/ pc[d] = "cache" /\ Apply(d) /\ UNCHANGED pel
       \/ pc[d] # "cache" /\ pel' = pel \ {Current(d)} /\ UNCHANGED cache
    /\ lock' = Unlocked(d)
    /\ DropBatch(d, "read")
    /\ UNCHANGED <<reserved, stream, trimmed, group, delivered, cash, shares, rows,
                   login, snapshotVars, logins>>
\* The reply to a command is lost and redis-py sends the command again.  An
\* increment it repeats counts twice ...
LoseIncrReply(d) ==
    /\ pc[d] = "cache"
    /\ Fault
    /\ Apply(d)
    /\ unsure' = unsure \cup {Head(todo[d]).user}
    /\ UNCHANGED <<reserved, redisVars, daemonVars, dbVars, login, published,
                   saved, restarts, logins>>
\* ... and the messages of a lost answer to XREADGROUP are pending and in no
\* daemon's hands.  (XACK and XGROUP CREATE may be repeated.)
LoseReadReply(d) ==
    /\ pc[d] = "read" /\ group /\ Unread # <<>>
    /\ Fault
    /\ delivered' = Len(stream)
    /\ pel' = pel \cup ToSet(Unread)
    /\ UNCHANGED <<reserved, stream, trimmed, group, daemonVars, dbVars, cache,
                   login, snapshotVars, logins>>
Crash(d) ==
    /\ pc[d] # "down"
    /\ Fault
    /\ lock' = Unlocked(d)
    /\ DropBatch(d, "down")
    /\ UNCHANGED <<reserved, redisVars, cash, shares, rows, cache, login,
                   snapshotVars, logins>>

(***************************************************************************)
(* Redis writes a snapshot of the stream, the group and the hashes now and *)
(* then, and after a restart all of them are as in the last snapshot.  The *)
(* daemons keep what they have in hand, and Postgres its rows.             *)
(***************************************************************************)
Save ==
    /\ restarts < Restarts
    /\ saved' = Redis
    /\ UNCHANGED <<reserved, redisVars, daemonVars, dbVars, cache, login,
                   published, unsure, faults, restarts, logins>>
Restore ==
    /\ restarts < Restarts /\ restarts' = restarts + 1
    /\ stream' = saved.stream /\ trimmed' = saved.trimmed
    /\ group' = saved.group /\ delivered' = saved.delivered
    /\ pel' = saved.pel /\ cache' = saved.cache
    /\ unsure' = unsure \cup {u \in Users : cache[u] # saved.cache[u]}
    /\ UNCHANGED <<reserved, daemonVars, dbVars, login, published, saved, faults,
                   logins>>

(***************************************************************************)
(* redis_positions_portfolio_service, run when a user logs in: it reads    *)
(* the portfolio, then the positions, and replaces the cached hashes.      *)
(***************************************************************************)
LoginPortfolio(u) ==
    /\ login[u] = <<>> /\ logins < Logins
    /\ login' = [login EXCEPT ![u] = <<cash[u]>>]
    /\ logins' = logins + 1
    /\ UNCHANGED <<reserved, redisVars, daemonVars, dbVars, cache,
                   snapshotVars, faults>>
LoginPositions(u) ==
    /\ Len(login[u]) = 1
    /\ login' = [login EXCEPT ![u] = Append(@, IF shares[u] > 0 THEN shares[u] ELSE 0)]
    /\ UNCHANGED <<reserved, redisVars, daemonVars, dbVars, cache,
                   snapshotVars, faults, logins>>
\* The MULTI that replaces the hashes; it is sent again if the reply is lost.
LoginCache(u) ==
    /\ Len(login[u]) = 2
    /\ cache' = [cache EXCEPT ![u] = Fresh(login[u][1], login[u][2])]
    /\ unsure' = unsure \cup {u}
    /\ \/ login' = [login EXCEPT ![u] = <<>>] /\ UNCHANGED faults
       \/ Fault /\ UNCHANGED login
    /\ UNCHANGED <<reserved, redisVars, daemonVars, dbVars, published, saved,
                   restarts, logins>>

Settle(d) ==
    Check(d) \/ LockBuyer(d) \/ LockSeller(d) \/ Commit(d) \/ Refuse(d)
Run(d) == Start(d) \/ Read(d) \/ Settle(d) \/ Ack(d) \/ CacheIncr(d)
Lose(d) == LoseIncrReply(d) \/ LoseReadReply(d)
Fail(d) == DbError(d) \/ LoseCommit(d) \/ RedisError(d) \/ Crash(d)
Next ==
    \/ Hold
    \/ \E t \in Trades : Publish(t)
    \/ \E d \in Daemons : Run(d) \/ Poll(d) \/ Fail(d) \/ Lose(d)
    \/ Save \/ Restore
    \/ \E u \in Users : LoginPortfolio(u) \/ LoginPositions(u) \/ LoginCache(u)

Spec == Init /\ [][Next]_vars
\* A daemon that is down is started (by compose at first, after a crash by
\* whoever restarts it), one that can go on does, and Postgres detects a
\* deadlock.
Resolve(d) == Deadlocked(d) /\ DbError(d)
FairSpec == Spec /\ \A d \in Daemons : WF_vars(Run(d) \/ Resolve(d))

(***************************************************************************)
(* Properties.                                                             *)
(***************************************************************************)
Busy == {"check", "lockBuyer", "lockSeller", "write", "ack", "cache"}

Increment ==
    [user : Users, field : {"cash", "held", "shares", "heldShares"}, by : Int]
RedisTypes ==
    /\ reserved \in [Trades -> SUBSET {"buy", "sell"}]
    /\ stream \in Seq(Trades)
    /\ trimmed \in 0 .. Len(stream)
    /\ group \in BOOLEAN
    /\ delivered \in 0 .. Len(stream)
    /\ pel \subseteq Trades
DaemonTypes ==
    /\ pc \in [Daemons -> Busy \cup {"down", "read"}]
    /\ batch \in [Daemons -> Seq(Trades)]
    /\ todo \in [Daemons -> Seq(Increment)]
    /\ seen \in [Daemons -> [buyer : Int, seller : Int]]
    /\ \A d \in Daemons : pc[d] \in Busy <=> batch[d] # <<>>
    /\ \A d \in Daemons : pc[d] = "cache" <=> todo[d] # <<>>
DbTypes ==
    /\ lock \in [Users -> Daemons \cup {NoDaemon}]
    /\ cash \in [Users -> Int]
    /\ shares \in [Users -> Int]
    /\ rows \subseteq Trades
CacheTypes ==
    /\ cache \in [Users -> Account]
    /\ login \in [Users -> Seq(Int)]
    /\ faults \in Nat
    /\ logins \in Nat
SavedTypes ==
    /\ published \subseteq Trades
    /\ unsure \subseteq Users
    /\ restarts \in Nat
    /\ saved.stream \in Seq(Trades)
    /\ saved.trimmed \in 0 .. Len(saved.stream)
    /\ saved.group \in BOOLEAN
    /\ saved.delivered \in 0 .. Len(saved.stream)
    /\ saved.pel \subseteq Trades
    /\ saved.cache \in [Users -> Account]

\* The fields and the snapshot keep their types, the group's positions stay inside
\* the stream;
\* exactly the daemons inside the message loop have a message, and exactly those
\* in settle_cache an update to send.
TypeOK == RedisTypes /\ DaemonTypes /\ DbTypes /\ CacheTypes /\ SavedTypes

\* XACK comes after the commit: whatever the faults, lost replies and restarts of
\* Redis, a message of the stream that the group was given and that is no longer
\* pending is in the ledger.
AckOnlySettled ==
    \A n \in (trimmed + 1) .. delivered : stream[n] \in pel \cup rows

OpenBuys(u) == {t \in Trades \ rows : t.buyer = u /\ "buy" \in reserved[t]}
OpenSells(u) == {t \in Trades \ rows : t.seller = u /\ "sell" \in reserved[t]}
Held(trades) == SumFunction([t \in trades |-> t.held])
Quantity(trades) == SumFunction([t \in trades |-> t.quantity])
Settled(trades) == SumFunction([t \in trades |-> t.settled])

\* The users whose hashes only have_funds and settle_cache have written, each as
\* often as it meant to.  Of the others nothing is promised: an increment that the
\* client repeats pays twice, a snapshot brings back what was spent, and a login
\* releases every hold (test_services.py, test_cache_initialization_for_relogin).
Sure == Users \ unsure

\* What the cache lets such a user spend is money and shares the ledger really
\* has, over and above all that the user's unsettled trades will take from it:
\* neither a crash or an error between two HINCRBYs nor a message that is
\* delivered again, to whichever daemon, can let the engine admit an order that
\* would overdraw a portfolio.
Covered(u) ==
    /\ 0 =< cache[u].cash
    /\ cache[u].cash + Held(OpenBuys(u)) =< cash[u]
    /\ 0 =< cache[u].shares
    /\ cache[u].shares + Quantity(OpenSells(u)) =< shares[u]
AvailableBacked == \A u \in Sure : Covered(u)

\* README.md, "The flow": the funds and shares of an order are in the locked
\* fields for as long as the order, or its trade on the way to the ledger,
\* lasts.  Of such a user settle_cache releases no trade's hold twice and none
\* before its commit, though daemons crash, calls fail, others log in and messages
\* are delivered again.
HoldsCover ==
    \A u \in Sure :
       /\ cache[u].held >= Held(OpenBuys(u))
       /\ cache[u].heldShares >= Quantity(OpenSells(u))

\* The whole of each recorded trade is in the balances: a user has the opening
\* balance, less the buys, plus the sells.
BooksBalance ==
    \A u \in Users :
       /\ cash[u] = StartCash
              - Settled({t \in rows : t.buyer = u})
              + Settled({t \in rows : t.seller = u})
       /\ shares[u] = StartShares
              + Quantity({t \in rows : t.buyer = u})
              - Quantity({t \in rows : t.seller = u})

\* The transactions of any number of daemons, with redelivered messages and
\* faults, post every trade at most once and as a whole.
Book == INSTANCE Ledger WITH posted <- rows
ImplementsLedger == Book!Spec

\* Every trade in the stream reaches the ledger, those published before any daemon
\* ran included, unless the cap removes it; and after failures, which may leave a
\* message in nobody's hands, it is at least still pending.
EventuallySettled ==
    \A t \in Trades :
       t \in ToSet(stream) ~>
          \/ t \in rows
          \/ t \in ToSet(SubSeq(stream, 1, trimmed))
          \/ faults > 0 /\ t \in pel

\* README.md, "Atomicity and locking": a message that a daemon has in hand is
\* settled in the end; after a crash the daemon picks it up again.
InHandSettled ==
    \A d \in Daemons : \A t \in Trades : t \in ToSet(batch[d]) ~> t \in rows

\* No daemon waits for a row lock for ever, not even one that settles trades in
\* the opposite direction of another's: every batch comes to an end, if only by
\* a crash.
DaemonsReturn == \A d \in Daemons : pc[d] \in Busy ~> pc[d] \in {"read", "down"}

\* When all the trades are in the ledger and nothing has failed, the cache comes
\* to agree with the ledger, with nothing left locked.
CacheCatchesUp ==
    rows = Trades ~>
       faults > 0 \/ \A u \in Sure : cache[u] = Fresh(cash[u], shares[u])
================================================================================
