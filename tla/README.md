# Project Mitori, verified

TLA+ models of Project Mitori's two matching engines, its hold pattern and its
ledger, the TLC runs
that check them on small instances, and TLAPS proofs that hold for every
instance. Source paths are relative to the root of the repository.

Contents: [The system](#the-system) · [Modules](#modules) · [Runs](#runs) ·
[Disagreements](#where-code-and-text-disagree) · [Fairness](#fairness) ·
[Proofs](#proofs) · [Abstractions](#abstractions-and-assumptions) ·
[Not modelled](#not-modelled-and-why) · [Plan](#plan)

## The system

An order goes through the *hold pattern* (which moves money or shares of the
cached balances into a locked field), then into the *order book* of its ticker,
and, if it trades, into a Redis stream. The *trade daemon* settles each message
of the stream in one PostgreSQL transaction and, on commit, acknowledges it and
releases the locked fields of the cache. A cancellation takes an order out of
the book and should give its hold back.

```
 client ──POST /order──> have_funds ──> place_order ──> OrderBook (memory)
              (WATCH/MULTI/EXEC on Redis)      │ XADD + HSET bbo (MULTI)
 client ──DELETE──> check_owner_ship ─────────│──> OrderBook (worker thread)
                                               v
                     executed_trades_stream, group django_workers
                                               v
                     trade daemon: PostgreSQL transaction with row locks
                                               v on commit
                     XACK, settle_cache (HINCRBYs) ──> cached balances
                     cancelled_order_stream, group django_cancel_workers
                                               v
                     cancellation daemon: one row a message, on commit XACK
 client ──login──> redis_positions_portfolio_service ──> cached balances
```

### Components

| Component | Source | State | Operations |
| --- | --- | --- | --- |
| Python order book | `mitori_engine/core_python/engine.py`, `gateways/gateway_python.py` | bid and ask heaps, `active_uuids`, `canceled_uuids`, the lock, each order's shares | `process_order` (`execute`, `process_market_orders_ioc`), `tombstone_delete`, `get_current_bbo`, `reset_engine` |
| C++ order book | `mitori_engine/core_cpp`, `gateways/gateway_cpp.py` | index heaps over one static arena, metadata by id | the same four through pybind11 |
| Order API | `mitori_engine/main.py` | requests under way | `POST /order`, `DELETE /order/...`, `/admin/reset` |
| Hold pattern | `mitori_engine/api/have_funds.py`, `utility/have_funds_utility.py` | Redis hashes of available and locked cash and shares, best prices | optimistic transaction with three attempts, rollback when the route raises |
| Ownership check | `mitori_engine/api/check_ownership.py` | none | a synchronous dependency, run on a worker thread |
| Trade daemon | `mitori_backend/core_ledger/management/commands/trade_registery.py` | stream, consumer group, pending list, PostgreSQL rows | read, check for a duplicate, settle, acknowledge |
| Cancellation daemon | `.../commands/settle_cancelled_orders.py` | second stream, `CancelledOrders` | read, record, acknowledge |
| Cache services | `mitori_backend/core_ledger/services.py`, `accounts/serializers.py` | the Redis hashes | replace at login, settle after a trade |
| Redis client | `mitori_engine/infrastructure/client.py` | connections | retries on connection errors and timeouts |
| Authentication, managers | `api/security.py`, `api/dependencies.py`, `managers/` | a registry filled at start | token check, engine lookup |
| Accounts, views, settings | `mitori_backend/accounts`, `core_ledger/views.py`, `project` | users | register, login, read-only views |
| Benchmarks | `benchmark` | none | load generation and statistics |

### What is hard, and what correct means

* **Python order book.** The event-loop thread submits, quotes and resets while
  worker threads cancel; a cancelled order stays in its heap as a tombstone
  until it reaches the top; `reset_engine` takes no lock. *Correct*: heaps and
  index agree; a cancelled order never trades; best price and earliest arrival
  first; the book is uncrossed between submissions; each trade involves the
  order submitted, at the resting order's price, and all lost shares are
  reported; a market buy stays in its budget; quotes are of live orders; every
  call returns.
* **Hold pattern and order API.** Every `await` lets other requests, the daemon
  and rollbacks write the same hash; EXEC writes absolute values computed from
  earlier reads; a lost reply hides whether it ran; the price of a market order
  is read from a key nobody watches; the route may fail before or after the
  engine took the order. *Correct*: holds are atomic, never overdraw, and cover
  the order as long as it lives; all trading together creates no money or
  shares; only the owner cancels; cancelling returns the funds.
* **Trade daemon and cache.** Crash between commit, XACK and any of the five
  HINCRBYs; commands the Redis client sends again; a Redis that restarts from a
  snapshot; several daemons and redelivered messages; deadlocks of row locks;
  a capped stream; a login that replaces what settle_cache is updating.
  *Correct*: each trade is posted once and as a whole; nothing is acknowledged
  before it is settled; every message is settled in the end; the cache never
  promises more than the ledger has, and releases no hold early; it agrees with
  the ledger when everything is settled.
* **Cancellation daemon.** The same loop, one insert a message, but only a
  missing portfolio is handled: every other exception, the `IntegrityError` of a
  duplicate among them, takes the rest of the batch with it. *Correct*: a
  cancellation is recorded at most once; what is acknowledged is recorded; the
  loop reads on whatever happens.
* **C++ order book.** One static arena for the orders of all tickers, rewound
  by the reset of any of them; heaps, index and metadata name orders by slot;
  unsigned budget arithmetic; quotes and resets without the mutex. *Correct*: a
  resting order keeps its slot; the indexes agree; no ticker changes another's
  orders; and what the Python book promises (`docs/RESEARCH.md` claims both behave
  alike). A reset of one ticker breaks the first three for the others.

`PROJECT.json`, "hazards", lists every such point at its line with the
properties that would catch it.

## Modules

| Module | Models | Relation |
| --- | --- | --- |
| `Exchange` | what any order book promises: live orders, one submission at a time, best price and oldest first; a market buy may stop at its budget | abstract |
| `OrderBook` | the Python book, one loop iteration a step, worker threads between any two steps the lock allows | refines `Exchange` |
| `CppOrderBook` | the C++ books of all tickers over the shared arena, one loop iteration a step, numbers modulo `Word` | refines `Exchange` |
| `Reservations` | what the hold pattern promises: reservations in one step, in full, never below zero | abstract |
| `OrderApi` | POST and DELETE requests, one Redis call a step, with the engine as one step, settlements as one step, lost replies, a MULTI that Redis runs twice, failing routes and rollbacks, resets, crashes | refines `Reservations` |
| `Ledger` | what settlement promises: a trade is posted at most once, cash and shares in one step | abstract |
| `TradeDaemon` | stream, consumer group, several daemons, row locks, on-commit hooks, settle_cache one HINCRBY a step, logins, faults | refines `Ledger` |
| `CancelDaemon` | second stream and consumer group, several daemons, the rows, faults | |
| `OrderBookProofs`, `TradeDaemonProofs`, `CancelDaemonProofs` | theorems of the three | |
| `OrderApiProofs`, `OrderApiFundsProofs` | theorems of `OrderApi`: the transactions, then the sums of holds and balances | the second extends the first |
| `CppOrderBookProofs`, `CppExchangeProofs` | theorems of the C++ books: arena and indexes, then trading and refinement | the second extends the first |
| `SumProofs` | lemmas about sums over finite sets | used by the proofs about holds, balances and trades |
| `MC_OrderBook`, `MC_CppOrderBook`, `MC_OrderApi`, `MC_TradeDaemon`, `MC_CancelDaemon` | the instances TLC checks | |

Operators whose name begins with `Bug` are plausible slips of the code, one
before the definition it deforms. They take no part in the specifications: they
are there to show that each property would notice.

### How state and actions correspond

**OrderBook.** `heap[side]` is the set of entries of `self.bid` or `self.ask`
(a heap is used only through its minimum, so `IsTop` with the tuple order
price, `date_time`, id stands for `heap[0]`); `active` and `canceled` are
`active_uuids` and `canceled_uuids`; `shares` is `number_of_shares` of the
Order objects, `killed` their `is_canceled`. `lock` is `self.lock`, `call` what
the event loop is running. `SubmitLimit`/`SubmitMarket` are the gateway's stamp
and `process_order` up to its loop; `LimitSkip`, `LimitMatch`, `LimitDone` are
one pass of `execute`'s loop through its three branches; `MarketSkip`,
`MarketMatch`, `MarketDone` the same of `process_market_orders_ioc`;
`BBOSkip`, `BBODone` of `get_current_bbo`. `tombstone_delete` is `CancelPop`
and `CancelMark`, so that a reset without the lock can come in between;
`ResetHeaps`, `ResetActive`, `ResetCanceled` are `reset_engine`'s assignments.

**CppOrderBook.** `arena` holds the `Order` structs by slot, `offset` is the slot
`allocate_index` returns next, `slot[i]` where order `i` was put (the index
`process_order` passes around and the pointer in `active_orders`). `heap[t]`,
`vault[t]`, `active[t]`, `canceled[t]` are `bids` and `asks`, `metadata_vault`
and the keys of `active_orders` and `canceled_orders` of ticker `t`'s book;
`current_time` is the length of the vault, as both grow by one per order and are
reset together. `Submit` is the binding of `process_order` up to the matching
loop; `Skip`, `Match`, `Done` are one pass of the loops of `match_buy` and
`match_sell`, which differ in the sides and in the budget (`Quantity`, `Cost`);
`Rest`, in `Done`, is what `process_order` does with the remainder. `BBOSkip` and
`BBODone` are `get_current_bbo`, `Reset` is `reset_engine`, `CancelEnter` and
`CancelMark` are `tombstone_delete` on a worker thread. `lock[t]` is
`engine_mutex`. Between `ReadBBO` or `ResetEnter` and the end of the call a
worker may be in the same book: that is a data race, `Racing`, in which the model
ends. A `Reset` that finds another book occupied sets `rewound`, and every call goes
on as before, on all books: `Submit` overwrites the slots, and what the stale
heaps and pointers of the other books now refer to is matched (`Match`), popped
(`Skip`, `BBOSkip`), quoted (`Quotes`) or canceled (`Tombstone`, through `slot[i]`).
A heap was ordered by what its slots used to hold, so any of its entries may then
be on top (`IsTop`) and may be there twice (`Pop`); `IdsAt` is the unchecked read of
the vault, any id when the index is beyond it. `slot[i]` is `Taken` when nothing
points to order `i` any more.

**CancelDaemon.** As `TradeDaemon`, below: `Check`, `Orphaned`, `Create`,
`Refuse` and `Ack` are `process_cancelled_trades_stream`, `Start`, `Read`,
`Poll`, `DropBatch` are `handle`; `rows` keeps the order of the commits so that
a second row of one message would show.

**OrderApi.** Each order of `Orders` is placed by one request, whose place in
the code is `pc[o]`: `Watch`, `ReadAvailable`, `ReadLocked`, `ReadPrice`,
`Execute`, `Conflict` are `have_funds` up to its `yield`; `touched[o]` is
Redis' own flag that a WATCHed key was written. `Submit` is
`engine.submit_order` and `get_bbo` (neither awaits), `Publish` the MULTI with
the XADDs and the HSET; `Publish` and `RollbackTwice` let Redis run the MULTI
twice, as the client sends it again when the reply is late
(`infrastructure/client.py:24`), so that the stream has entries `<<trade, 1>>`
and `<<trade, 2>>`. `RouteFails`, `Rollback` and `RollbackFails` are the
exception path, `Reset` is `/admin/reset`. `CheckOwnership` is `check_owner_ship`, `DeleteOrder`
`delete_order`. `Settle` is settle_cache.

**TradeDaemon.** A trade stands for its message. `Read` is XREADGROUP with `>`:
it hands over all the group was never given and puts it into `pel`; `Check`,
`LockBuyer`, `LockSeller`, `Commit`, `Refuse` are `process_stream_message`
(the writes become visible at commit, so they are one step, made from the
balances read under lock); `Ack` and `CacheIncr` the on-commit hooks. `DbError`,
`LoseCommit`, `RedisError` and `Crash` are the ways out of the loop, each with
what the handlers do: the next message, or the rest of the batch dropped; a failed
call to Redis may have taken effect. The daemon's client (`trade_registery.py:120`,
redis-py 8.0.1) sends a command again when its reply is lost: `LoseIncrReply` is an
HINCRBY that counts and will count again, any number of times within `Faults`,
`LoseReadReply` an XREADGROUP whose messages are pending and in nobody's hands. (XACK
and XGROUP CREATE may be repeated without harm.) `Save` and `Restore` are Redis'
snapshots: stream, group, pending list and hashes are all set back together, while
PostgreSQL and what the daemons have in hand are not. `unsure` collects the
users one of whose increments was repeated, whose hashes a restart changed or who
logged in; no action looks at it. `Publish` trims at the
cap as `MAXLEN ~` may. `LoginPortfolio`, `LoginPositions`, `LoginCache` are the
three steps of `redis_positions_portfolio_service`.

## Runs

### `order_book` (`OrderBook.cfg`)
Three orders of any side, type, two prices, two sizes and one budget, with
quotes, cancellations on worker threads and resets in between.
`IndexAgrees`, `Uncrossed`, `TakerTrades`, `TradesAccount`, `MakerPrice`,
`BudgetHeld`, `CanceledNeverTrades`, `BBOExact`, `PriceTimePriority` hold,
`OrderBook` implements `Exchange`, and every call ends and frees the lock
(`CallsReturn`). *Why it is enough*: three orders are one
taker and two resting orders, which is what priority, partial fills, a
tombstone on top of a live order and a budget that ends inside the second trade
need; two prices give the cases better, equal and crossing; with `PM = 2` the
rounded cost of a share at 3 differs from the exact one, and the budget of 1 pays
for the first share of a market buy of two and not for the second, so that
`total_spent` counts (the mutant of `BudgetHeld` forgets it). Budgets that last for
several rounded trades are left to the theorem `BudgetKept`. The clock is
steady here (each order is stamped later than the one before), as the code
assumes; the constraint `IdsInOrder` then only removes permutations of ids, which
nothing but a tie in time compares.

### `cpp_book` (`CppOrderBook.cfg`)
Three orders of any side, type, two prices and two sizes on two tickers, one of
which is reset; cancellations on worker threads and quotes of both. `SlotsOwned`,
`IndexAgrees`, `Uncrossed`, `TradesAccount`, `MakerPrice`,
`CanceledNeverTrades`, `PriceTimePriority` and `BBOExact` hold of both books, and
the book of the ticker that is reset implements `Exchange`, until a reset finds
orders in the other book and again from a reset that finds none. In between
(`rewound`) only `TypeOK` is claimed, and `cpp_reset` shows what goes wrong. *Why it
is enough*: a taker and two resting orders again; the second ticker is there to
occupy slots, to lose them and to use its stale entries, for which one resting
order of one share and, after the reset, one further order are enough (`Bounded`;
the same constraint uses ids in order, as they are only compared for equality, and
cuts a submission off that goes on matching its own slot). Three
slots are filled twice, the second time after a reset. The two budgets are one
unit, which the first trade exceeds, and none at all (`UINT64_MAX`): between
them lie the budgets that overrun, which `cpp_budget` is about and after which
`TradesAccount` would speak of wrapped numbers. `Word` is 64, so that nothing else
wraps.

### `cancel_daemon` (`CancelDaemon.cfg`)
Two daemons, three cancellations, one of a user without a portfolio, a cap of
two entries, two faults of any kind (a failing call, a lost commit, a crash, a
Redis that restarts from a snapshot). `AckOnlyRecorded`, `RecordedOnce` and
`ReadsOn` hold. *Why it is enough*: two daemons have one message in hand after
a redelivery, which takes one fault; the second fault then hits the duplicate;
three messages are a batch whose rest can be lost and one that comes after. The
cancellations with a portfolio are interchangeable and are published in order.

### `trade_settlement` (`TradeDaemon.cfg`)
Two daemons, started at any time, two trades in opposite directions between the same
two users, a cap of one entry, up to two faults of any kind: failed calls, commits
and replies that are lost, crashes. `AckOnlySettled`, `AvailableBacked`,
`ImplementsLedger` and `DaemonsReturn` hold. So do `EventuallySettled` (a published
trade is settled, or the cap removed it, or, only after a failure, it is pending) and
`CacheCatchesUp` (when all trades are settled and nothing failed, the cache comes to
agree with the ledger). *Why it is enough*: two
daemons and opposite trades give the lock cycle and the lost update, and each user a
side to buy on and one to sell on, once below the limit and once at it; the cap of
one gives trimming before and after delivery; two faults give an increment sent
three times, or a failure and another one in what follows it. A deadlock's victim
counts as a fault, beyond the bound.

### `trade_restart` (`TradeDaemonRestart.cfg`)
Two daemons, one trade, up to two faults, a login at any moment, and Redis restarts
once from a snapshot that it may write at any moment, the first one after the users
logged in. `HoldsCover` and `ImplementsLedger` hold. *Why it is enough*: this is how a
message comes a second time, to the same or the other daemon, while the first still
has it in hand: then one of the two commits meets the unique column (`Refuse`). A
trade that is refused must neither be posted nor release its hold again. One trade
and one restart are enough for that; the two faults hit either daemon before or after
it. Users whose hashes the restart left as they were are those it was harmless to:
every restart in which the snapshot is no older than the last write to a user's
hashes has some.

### `order_api` (`OrderApi.cfg`)
One user's limit buy (2 at 100) and market buy (1) compete for one hash against
301 of cash, with another user's sell (2 at 90), two tries a request and two
faults, with resets, from three quotes earlier trading may have left (no trade yet, an
emptied book, prices). `HoldsExact`, `AnsweredFunded`, `NothingCreated` hold,
and the transactions implement `Reservations`. *Why it is enough*: two requests
on one hash are what a lost update needs; 301 is enough for both at the ask of
100 alone and not after rounding up by 1%, so both outcomes of the check occur
after either order of the requests; the seller gives trades below the limit, so
settlements with change interleave with the requests; two tries (three in the
code, and in the violation runs below) contain a retry and giving up; two faults
contain a lost reply and then a failing rollback or a crash, or a trade that is
sent twice and a rollback that runs twice. `HoldsExact` counts each entry of the
stream, as settle_cache does; of the users of a trade that was sent twice the
other two properties claim nothing, as its second settlement takes from the
holds of their other orders.

### Runs that show a disagreement
`trade_crash`, `trade_market`, `trade_own_sell`, `order_api_cancel`, `cpp_budget`, `cpp_reset` each check one property and find it
violated, see the next section. The first three have one daemon and two trades, the
others the same instances as the passing runs, each with the fewest faults
that show the point; `cpp_budget` has one
ticker, two orders of 4 or 5 shares, a price of 2 and a budget of 3 with `PM = 2`;
`cpp_reset` two orders and one price.

## Where code and text disagree

| Run | Property | What happens |
| --- | --- | --- |
| `trade_crash` | `InHandSettled` | The daemon reads only `>`; a message in hand when it crashes stays pending for ever, though `README.md:130` has it picked up again on restart. The same after an `OperationalError` (a deadlock's victim, for example) and for the rest of a dropped batch. |
| `trade_market` | `CacheCatchesUp` | `settle_cache` releases `price_locked_by_user` times the quantity, which the Python engine reports as 0 for trades of a market order: the buyer's hold is never released (`README.md:232`). |
| `trade_own_sell` | `BooksBalance` | Buyer and seller are loaded as two objects; when they are the same user the second save overwrites the first, and the debit is lost (`README.md:130`). |
| `order_api_cancel` | `CancelReturnsFunds` | `check_owner_ship` takes the order out of the book before it compares the owner (`README.md:180` says the reverse), and `delete_order` then looks for it in vain: a stranger's DELETE is refused and the order is gone, the owner's own is answered 404, and in both cases the hold stays locked and nothing reaches the cancellation stream (`main.py:190`). |
| `cpp_budget` | `NeverOverfilled` | In the C++ book a trade cut down to the rest of a budget can cost one unit more than that rest; the next subtraction wraps, and the trade after it takes more shares than either order has (`test_engine.py:142` and `docs/RESEARCH.md:135` say what should happen). |
| `cpp_reset` | `TickersApart` | `reset_engine` of one ticker rewinds the arena of all of them (`engine.cpp:29`) and empties only its own book. The next orders for it get the slots other tickers' orders are in: a trade then takes shares from what another book still lists as its own order, and that book's entries match, cancel and quote the new orders. `README.md:172` gives each ticker "its own order book". |

More facts came up that no text of the repository denies, or that it tells itself,
so that no run is made of them:

* The Redis client repeats an HINCRBY whose reply is lost (redis-py 8.0.1 retries by
  default), and `settle_cache`'s increments are relative: a user may be paid twice in
  the cache, and then spend money the ledger does not have, or a hold may be released
  twice. The unique `stream_order_id` protects the rows only. A restart of Redis
  brings back what was spent since its snapshot. `AvailableBacked` and `HoldsCover`
  are therefore about the other users (`Sure`).
* A login replaces the cache with locked fields of 0 while orders are open
  (`services.py:28-47`), against `README.md:220`; the repository's own test
  (`core_ledger/test/test_services.py:84-112`) records it and calls it "a really
  catastrophic bug". The same two properties leave out who has logged in meanwhile.
* When the stream cannot be written after the engine took the order,
  `have_funds` gives the hold back and the rest of the order stays in the book
  without one. `AnsweredFunded` is therefore about accounts none of whose
  requests failed.
* `settle_cancelled_orders.py` does not handle the `IntegrityError` of its unique
  `stream_order_id`, as the trade daemon does: a refused duplicate takes the rest
  of its batch with it, which then stays pending. `ReadsOn` is therefore about
  messages the group has not been given yet.

## Fairness

* `OrderBook`: weak fairness of `LoopStep` and `CancelMark` only, that is, a
  thread inside the engine runs to the end of its call. No order, quote,
  cancellation or reset ever has to happen.
* `TradeDaemon`: weak fairness of each daemon's next step or of PostgreSQL
  aborting its deadlocked transaction (`deadlock_timeout`). The command's loop
  is `while True`, its read blocks for three seconds and is repeated, and
  `docker-compose.yml` starts it. After a crash somebody has to start it again
  (compose sets no restart policy): of the properties that hold only
  `EventuallySettled` rests on this, and only for behaviours with a crash, after
  which it promises a message that is pending; `DaemonsReturn` lets a batch end in a
  crash and `CacheCatchesUp` speaks of behaviours without failures. `trade_crash`
  assumes the restart, as `README.md:130` does. Publishing, faults, snapshots and
  logins are not fair.
  Of PostgreSQL only that it aborts one of two deadlocked transactions is assumed.
* `CancelDaemon`: weak fairness of each daemon's next step, a start included,
  since `ReadsOn` has to survive crashes: after the last one somebody starts the
  command again. Publishing, faults and `Poll` are not fair.
* `OrderApi` and `CppOrderBook` state safety only.

## Proofs

All eight modules with proofs are checked in full. No theorem bounds the number of
users, orders, tickers, trades, daemons, retries, faults or the size of a number;
`FiniteAssumption` says that orders, users, trades and daemons are finitely many, so
that sums over them exist. Every safety invariant and action property of a passing
run is stated by a theorem, and so are all four refinements.

**SumProofs.** The models add with `SumFunction` and `SumFunctionOnSet`, folds
that are defined by recursion over the set. The prover cannot use an induction
theorem whose argument is a formula, so induction is done with sets: the set of
subsets for which a claim holds contains `{}` and is closed under adding an
element, hence contains the whole set (`SetInduction`, `SizeInduction`). From there:
the recursion is well defined whatever element `CHOOSE` takes first (`AnyOrder`),
and what the other modules cite, `SumEmpty`, `SumRemove`, `SumAdd`,
`SumChange`, `SumPlus`, `SumUnion`, `SumLess`, `SumTimes`, `SumSupport`.

**OrderBookProofs** (`TypeCorrect`, `IndexCorrect`, `BookUncrossed`,
`OnlyTakerTrades`, `CanceledIsFinal`, `MakerSetsPrice`, `PriorityKept`,
`BestPrices`, `ExchangeImplemented`, `TradesAccounted`, `BudgetKept`). `IInv ==
TypeOK /\ Control /\
IndexAgrees`: `Control` relates `lock`, `call`, `doomed` and `taker` (who is in
the engine), without which `IndexAgrees` is not inductive, since a cancellation
in the middle of a submission could remove the taker from the index. On top of
`IInv`, `CrossInv` says that during a limit submission every crossing pair
contains the taker: a match or a pop only shrinks the live sets, a new order
adds pairs with itself only, and `LimitDone` sees the best of both sides.
`Uncrossed` and `TakerTrades` follow. `KilledInv` says that cancelled orders are
outside `active`, from which `CanceledNeverTrades` follows, as a match takes only
live entries. `BestPrices` reads the quote off the live tops of both heaps.
`ExchangeImplemented` adds `RestInv`: an id that was never submitted has no
shares, and a limit order in hand with shares left is live, since no worker gets
the lock. A submission, a trade, the end of a loop, a cancellation and the second
assignment of a reset are then the exchange's five steps; it sees nothing else.
`TradesAccount` is inductive over `IInv`. `BudgetKept` needs `BudgetInv`:
`total_spent` never exceeds the funds, because a cut trade costs at most the
rest (`DivLoss` and its converse), and the exact costs are above `total_spent`
by at most what each rounding lost.
All of this holds for every clock, also one that stands still or goes back.
`MakerSetsPrice` and `PriorityKept` do not: they assume `MovesForward`, that the
clock moves between two orders, and need `ClockInv`, that stamps are then in order
of arrival. With equal stamps the code compares random ids, so either order may
come first.

**CppOrderBookProofs** (`TypeCorrect`, `SlotsKept`, `IndexCorrect`,
`CanceledSafe`). `IInv` adds to the three invariants what the order in hand is
(`InHand`: its slot is below the allocator's, in no heap, with metadata of its
own, and its book's mutex is the loop's), that a worker holds the mutex from
finding an order to marking it (`Found`), and that limit orders have prices
(`Priced`), for the division in the budget. Everything goes through the slot: two
entries of a heap have different ids because `slot` leads back from the id to
the entry, and no trade or cancellation in one book touches another because
their slots are disjoint, for which `SlotsOwned` and `InHand` need each other. A
reset empties one book and sets `rewound` unless the others are empty too, so
as long as `rewound` is false nobody owned a slot when the allocator last started
again. All but the types is conditional on that: `IInv` holds through the states in
which slots have been given away, in which it says little, and is all there again
after a reset that ends them. `TypeCorrect` covers those states too, with whatever
the stale entries do. The
theorems hold for every budget: what `cpp_budget` shows spoils numbers of
shares, never an index. They assume `~Racing`, as `Next` does.

**CppExchangeProofs** (`BestPrices`, `BooksUncrossed`, `MakerSetsPrice`,
`PriorityKept`, `ExchangeImplemented`, `OneBookExchange`, `TradesAccounted`,
`ModestNeverOverfills`,
`AmplyFundedExchange`, `UnbudgetedExchange`), on top of that
`IInv`. What each step does to the books is said once (`Steps` and the `Effect`
lemmas: all but five actions are `Quiet`). The live top of a heap is the best
live order of its side (`TopIsBest`), which gives the quotes; when it is too far
away, all are (`NoneAccepted`), which gives `BooksUncrossed` and the end of a
submission. `Arrivals` says that a book's clock counts its metadata entries and
that an id has only one, so there are no ties and, unlike for the Python book,
nothing is assumed of a clock. The refinement needs `Single`: while slots have not
been given away, no two orders that something points to have the same slot. What
the other tickers do is then at most the exchange's `Forget`,
though they write to the same arena. Only the steps between a reset that finds
orders in another book and one that finds none are exempt; `OneBookExchange` says
that an engine with one ticker has none of those and implements the exchange
outright (`Market!Spec`). `ExchangeImplemented`, `TradesAccounted` and
`ModestNeverOverfills` assume `[]Modest`, that no budget buys more than is
offered, as `cpp_budget` shows a behaviour where one does; the last says that this
is the only way to fill more than was asked for. `AmplyFundedExchange` has an assumption
on the constants instead, `Ample(b)`: no price is above `b` whole units, and a
budget is at least `b + 1` for each share. Then `Afforded(b)` is inductive: what is
left of the budget is enough for the shares still wanted, so it never cuts a
trade and nothing wraps. The 1% that `have_funds` adds to the best ask is that one
unit when the ask is a hundred or more; a sweep to asks above the one it read is
what it does not cover. `UnbudgetedExchange` is the case without budgets.

**OrderApiProofs** (`TypeCorrect`, `ReservationsImplemented`). `IInv ==
TypeOK /\ SeenCurrent`: what a request has read of its hash is what the hash
contains as long as its WATCH is unbroken, and at `exec` its total is covered
by the `available` it read. With that, EXEC's absolute values are a reservation
from the current balance; retries change nothing, a lost reply is a reservation
or a stutter, and rollback (once or twice), settlement and deletion free. `Total` may be any
natural number, so the proof covers every price and quantity.

**OrderApiFundsProofs** (`HoldsAreExact`, `AnsweredAreFunded`,
`NothingIsCreated`). `Invariant == IInv /\ Trading /\ Holding /\ Funded /\ HoldsExact`.
`Trading`: a trade has a buyer and a seller that were submitted, it is in one
outbox or in the stream and never in both, and no order that was not submitted
has one. Without it a settlement could release from an order twice, or from one
that holds nothing. `Holding`: a request that was not let through holds nothing,
one that waits for the engine holds its price times its quantity (a market buy
whatever the quote said), and only an answered limit order rests. `Funded` is
the part per order: a hold covers what is left of the order and the claims of
all its trades. A trade claims what its settlement will release or, when a
market buy paid more than that, the price paid (`Surcharge`); by `Funded` that
excess comes out of the order's own hold. `AnsweredFunded` is the sum of these
over an account, less what was settled, by `HoldsExact`. `NothingIsCreated`
adds `Conserved`: available and locked of all users together differ from what
they brought by exactly the surcharges settled so far, which were paid with money
still locked. The locked money is at least that, so the available is at most what
was brought.

**TradeDaemonProofs** (`TypeCorrect`, `AckAfterCommit`, `LedgerImplemented`,
`BooksBalanced`, `CacheIsBacked`, `HoldsCovered`).
`AckAfterCommit` needs `HooksAfterCommit` (a daemon in its hooks has its message
in the ledger) and the part of `TypeOK` that ties batches to places in the loop.
`LedgerImplemented` needs `LockedRows`: between its two SELECTs and its commit a
daemon holds the rows' locks and what it has read of them is what they contain,
because all others write only rows they hold. It assumes, beyond the
module's assumptions, `NoOwnTrades`, that no trade has one user on both sides; run
`trade_own_sell` shows why it is needed. `BooksBalanced` follows from the same:
each step of the ledger adds one trade to both sums.
`CacheIsBacked` and `HoldsCovered` allow trades of a user with himself, and other
users to log in.
The two properties are not inductive, since between a commit and the last HINCRBY
the cache lags behind the ledger. `BackedFor(u)` therefore counts what is on its way:
`Coming(u, f)` is the sum over the daemons of the increments of field `f` each has
still to send, the whole list before its XACK and the rest of it after. A commit
moves a trade from the unsettled to the coming, an increment moves an amount from
the coming to the cache, and a crash or a failed call drops coming increments, all of which leave
less available or more held (`Signed`: an increment of an available field is never
negative, one of a locked field never positive). `Reserved` says that every
trade in the stream, a batch or the snapshot has both its holds, and `LockedRows`
that a commit posts from current balances. Both theorems are about the users outside
`unsure`: an increment of theirs was applied as often as it was meant to be, a
restart of Redis found their hashes as they were, and they did not log in. No more can
be said (see [Disagreements](#where-code-and-text-disagree)); what the theorems add is
that a repeated increment, a login or a restart spoils nobody else's hashes, the other
side of the same trade included, and that a message that comes again after a restart
does not release or pay anything again.

**CancelDaemonProofs** (`TypeCorrect`, `AckAfterCommit`, `NoDuplicates`). `IInv`
is the three invariants and `HookAfterCommit`, that a daemon in its on-commit hook
has its message among the rows: the hook acknowledges without a look at them.
`RecordedOnce` rests on the unique column alone, as two daemons may both pass the
check before either commits.

**Only model-checked.** Liveness (`CallsReturn`, `EventuallySettled`,
`DaemonsReturn`, `CacheCatchesUp`, `ReadsOn`), which needs fairness and ENABLED; and
that the C++ book implements the exchange and accounts for its trades with a
budget that does run out in the first trade, as in the instance of `cpp_book`:
such a budget is neither `Ample` nor is `Modest` assumed there.

## Abstractions and assumptions

* Integers are exact. The engine scales prices and shares to integers; the
  rounding that remains (a market buy's cost, the 1% on a market hold) is
  modelled where it happens. `Decimal` columns are integers.
* Limit prices are positive (`schemas/schema.py` wants `gt=0`). The branches of the
  C++ book for a resting price of 0 matter only for a stale entry whose slot now
  holds a market order. Of such entries it is left open which one is on top of its
  heap; a sequence of stale entries that a heap really produces is one of those the
  model allows.
* An id is submitted once (`uuid4`). A ticker that nobody resets stands for all
  the others in the C++ book.
* `PriceTimePriority` of the Python book is checked for a clock that moves forward between two
  orders. With equal stamps the code compares random ids.
* Refusals that change nothing (bad token, unknown ticker, a missing user,
  an id that is not in the book) are left out.
* In `OrderApi` the engine may fill any acceptable makers: their priority is
  `OrderBook`'s subject. A cancellation on a worker thread between
  `submit_order` and `get_bbo` counts as one after both. settle_cache is one
  step; `TradeDaemon` splits it. A trade is settled whether or not the daemon
  lost it, i.e. at any later time or never.
* In `TradeDaemon` holds are placed in one step (`OrderApi` and its proof say
  that they may be) and released by the trade they were placed for.
* The price a trade reports as locked is the Python engine's.
* In `TradeDaemon` a message of the stream is delivered twice after Redis has
  restarted from a snapshot. The first snapshot is that of the initial state, when
  the users have logged in. A trade that is *published* twice gets two
  ids and is posted twice, like two trades; what that does to the holds is in
  `OrderApi`. An order that was held before the snapshot took its hold away may still
  trade, and a trade that Redis forgot is not published again.
* `CancelDaemon` publishes freely, although nothing reaches its stream while
  DELETE is answered 404.
* `docker-compose.yml` gives the engine Redis database 1 and the daemons
  database 0; the models assume one database.

## Not modelled, and why

* The length and depth getters of the C++ book change nothing, and
  `cleanup_memory` is called when nothing else runs. That `tombstone_delete`
  builds its Python result without the GIL (`bindings.cpp:311`) is beyond a model
  of the book.
* *Authentication, dependencies, managers*: no state changes after start.
* *Redis client*: its timeouts and retries appear as faults of its users.
* *Accounts, views, serializers, settings*: framework code without a protocol.
* *Benchmarks*: not part of the running system.

## Plan

Done, in this order: `Exchange`, `OrderBook` and its proofs; `Ledger`,
`TradeDaemon` and its proofs; `Reservations`, `OrderApi` and its proofs;
`CppOrderBook` and its proofs; `CancelDaemon` and its proofs; trades and rollbacks
that Redis runs twice; the trading properties and the refinement of both books;
`SumProofs` and the theorems about sums; the C++ book with ample budgets.

Next, proofs: `Modest` for budgets that run out, where what `cpp_budget` needs (a
cut trade whose cost rounds up past the rest, and a further order that is acceptable)
cannot occur.

Next, modelling: Redis' restart in `OrderApi`, where open orders then have holds
that the snapshot does not know.
