# A TLA+ model of the trading engine

The specifications in this directory model the C++ engine under `src/`: how an
order gets from a market event to the broker, how its fills come back, what the
threads in between share, and how they are started and stopped. TLC checks them
on small instances; TLAPS proves the central properties for every value of the
constants. `PROJECT.json` lists the components, the runs, the source lines of
every definition, the hazards and the theorems.

## 1. The system

One process, these threads:

| thread | code | what it does |
|---|---|---|
| consumer, one per symbol | `MarketEventConsumer::run` | receives market events over ZMQ, asks the strategy for an order, asks `RiskManager`, pushes the order |
| gateway | `OrderGateway::run` | pops orders, cancels the previous order of the same symbol and side, places the new one over REST |
| fill listener | `AlpacaFillListener::onMessage` | a WebSocket session with the broker: fills, cancels, and reconciliation after a reconnect |
| market data | `AlpacaWebSocketSource`, `MarketDataPipeline` | decodes msgpack messages and publishes events over ZMQ |
| main | `main`, `TradingEngine` | reads the configuration, starts everything, waits for a signal, joins, writes the latency report |

What they share, and how it is protected:

| state | writers | protection |
|---|---|---|
| the order queue (`LockFreeMPSCQueue`) | consumers push, the gateway pops | atomics on `head_` and `next` |
| the table of positions (`PositionManager::table_`) | any | compare-exchange on the key, open addressing |
| `filled`, `pending` of a position | consumers, gateway, listener | one atomic each, none for the pair |
| cost basis and realised profit | the listener | single writer |
| the tracker's slots (`PendingOrderTracker`) | gateway, listener | a concurrent map |
| `last_order_time` (`OrderCooldown`) | every consumer whose symbol is a prefix of the entry's | one atomic, load and store apart |
| the listener's memory (`filled_entries_`, `completed_entries_`) | the listener | single thread, bounded |
| submit times (`LatencyTracker::submit_timestamps_`) | gateway, listener | a mutex, but the clock is read before it |
| `is_running_` | main, a signal handler through `g_is_running_ptr` | one atomic |
| a rate limiter, in each REST client | the gateway, or the listener | atomics, one caller |

The documentation (`docs/ARCHITECTURE.md`) says that positions are kept in a
oneTBB `concurrent_hash_map`. `PositionManager` uses the lock-free table above;
the model follows the code.

What is hard about it, and what correctness means:

- **The queue.** A push takes two steps (exchange the head, link the
  predecessor), and a pop frees nodes. No node may be touched after it was
  freed, no order skipped, and a stop must not lose what was pushed before it.
- **The exposure.** A limit is checked on two counters that another thread
  moves shares between, and not always by one thread: a subscription matches by
  prefix. The limit should bound what the broker can execute, and the cooldown
  how many orders go out.
- **Cancel, then replace.** Fills race the REST replies that make an order
  known. At most one order of a symbol and side should be working.
- **Reconciliation.** The stream drops, and a paged query has to recover exactly
  what was lost. Every fill should count once.
- **Money.** The cost basis uses truncating division over signed positions. The
  books should balance all the same.
- **Throttling.** No request in the window after a warning, and no wait for ever.
- **Decoding.** A visitor with a dozen fields of state is driven through nested
  frames. What it publishes should be what one item says, and nothing else.
- **Life cycle.** Start-up may fail half way, and a signal may come at any time.
  No thread should outlive what it uses, and every shutdown should end.

## 2. The modules

| module | models | grain |
|---|---|---|
| `MPSCQueue` | `LockFreeMPSCQueue`, the loops around it, stop, joins, destructor | one memory operation |
| `OrderQueue` | what the queue promises: a FIFO that may be abandoned after the stop | one push, one pop |
| `TradingTypes` | orders, symbols, sides, quantities | |
| `PositionBook` | `onOrderSent`, `onFill`, `onOrderCancelled` on the two counters | one call |
| `PendingOrderTracker` | `recordOrder`, `getExistingOrder`, `onOrderCompleted` | one call |
| `Broker` | the trading service (external), as the REST client and the listener use it | one event |
| `OrderGateway` | `executeOrder` with every outcome of each REST call | one call or reply |
| `FillListener` | the session, the events, the reconciliation | one message, one query, one item |
| `OrderFlow` | the composition of the last five, with the consumer's `Submit` | |
| `RiskGate` | `RiskManager::onNewOrder`, `OrderCooldown::checkAndUpdate` against fills and cancels | one load or store |
| `PositionTable` | `PositionManager::findOrInsert` and `find` | one load or compare-exchange |
| `PositionLedger` | `applyBuyFill`, `applySellFill` | one fill |
| `RateLimiter` | `RateLimiter` under both policies, and the REST client's calls to it | one call |
| `MsgpackDecoder` | the visitor of `AlpacaMsgpackDecoder`, as operators from visitor to visitor | one callback |
| `MarketData` | `AlpacaWebSocketSource`, the parser and the data service (both external), `onSourceData` and the sink | one message, one token |
| `LatencyTracker` | `record`, `recordOrderSubmit`, `recordFillReceived` on two histograms | one call |
| `TradingEngine` | `main`, constructor, `run`, `shutdown`, destructor, signal handler, and every thread's loop as far as these and the latency tracker go | one start, join or exit; one call |
| `*_proofs` | the theorems about the module of that name (`OrderFlowTypes_proofs`: the types of `OrderFlow`) | |

A module `MC...` gives the constants of a module their values for TLC.

`OrderFlow` is composed by sharing variables: each component's actions say what
they do to the variables of that component and to those of the objects it calls,
and `OrderFlow` adds what stays unchanged. The queue enters as a sequence, here
and in `TradingEngine`. That this is justified is what `ImplementsFifo` and the
theorem `QueueIsFifo` show: `MPSCQueue` implements
`OrderQueue` under a refinement mapping that takes the orders whose exchange has
happened and that have not been popped.

The same code appears at two grains where its hazards ask for it. `OrderFlow`
takes the risk check and a fill as atomic, so that long histories stay within
reach; `RiskGate` takes them apart, in every thread that serves a symbol.

### How actions correspond to code

- `MPSCQueue`: a producer's push is the `exchange` on `head_` and then the store
  to `prev_head->next`; a pop reads `next`, moves the tail and deletes the old
  one. `WaitTestsHead` is the test of `wait_and_pop` that tells a queue which is
  empty from one whose push is half done.
- `OrderGateway`: `Pop` takes an order and looks up its predecessor;
  `CancelAccepted` and `CancelFailed` are the outcomes of `cancelOrder`;
  `PlaceAccepted`, `PlaceRefused` and `PlaceAckLost` those of `placeOrder`;
  `Record` and `Release` are the calls after the reply, so that a fill can be
  processed before them.
- `FillListener`: `Open`, `FirstAuthorized`, `Reauthorized`,
  `AuthorizationFails`, `Subscribed` and `Disconnect` are the session;
  `ProcessPartialFill`, `ProcessFill` and `ProcessCancel` the events;
  `ReconcileQuery` one page (`ReconcileQuerySkips` one from which `queryOrders`
  has left out orders it cannot represent), and `ReconcileNothing`,
  `ReconcileFill`, `ReconcileCancel` what is done with an item of it.
- `RiskGate`: `TakeEvent` (with the reading of the clock), the cooldown's load
  and test (`CooldownRefuses`, `CooldownPasses`), its store, the two loads of the
  exposure in either order with the decision, and the addition are separate
  actions of a consumer; the two halves of `onFill` are separate actions of the
  listener. A thread is named by its symbol; `Receives` is the subscription, and
  `Servers(s)` the threads that handle events of `s`. The history `counted` counts
  the orders of a symbol whose time falls in one cooldown, `Window`, that starts
  at an arbitrary time `From`.
- `MsgpackDecoder`: `StartArray` to `EndMap` and the `Visit...` operators are the
  callbacks of the same names; `Emits`, `EventOf` and `Authenticates` are
  `emitItem`. `MarketData` chooses the tokens: `OpenArray`, `Key`, `Scalar` and the
  others are what `msgpack::parse` may meet next, `Malformed` is where it gives
  up. The history `given` collects what the current item says without the
  visitor, and `Events` reads it on its own.
- `MarketData`: `OnOpen` logs in, `OnControlFrame` subscribes when the decoder calls
  `on_auth_success`, `ServerAuth` and `ServerSubscribe` are the data service.
- `TradingEngine`: `main` holds the next statement of the main thread. `Configure`
  is `loadConfig` with the override of `--symbols`; `Construct`, `StartListener`,
  `StartPublisher`, `LaunchGateway`, `LaunchConsumer` are the start-up, each with
  the exception it may throw (`ConfigureFails`, `ConstructFails`, `BindFails`,
  `LaunchFails`); `StopPublisher` to `Dump` are `shutdown`; `Destructor` is
  `~TradingEngine`, which shuts down if `run` did not, and `Destroy` the members'
  destructors. `SignalHandler` (its test of the pointer) and `SignalStores` (its
  store) may come between any two steps of any thread.

## 3. The runs

States are distinct states.

| run | properties | instance | states |
|---|---|---|---|
| `queue` | `NoUseAfterFree`, `NoLeak`, `PoppedInPushOrder`, `DrainedBeforeExit`, `ShutdownCompletes`, `ImplementsFifo` | 3 producers, one of which pushes twice; fair | 33,604 |
| `flow_accounting` | `NeverOverCounted`, `PositionsMatchBroker`, `SubmittedIsExecuted`, `EndIsLearnt` | buy 2, sell 1, buy 1; 2 lost connections; fair | 568,000 |
| `flow_faults` | `AtMostOneWorking`, `OverLimitOnlyByLost`, `TrackerKeepsWorking` | buys of 2, 1 and 1, limit 3, 1 lost connection; every fault but `eventInWindow` | 2,192,701 |
| `risk_gate` | `ExposureBounded`, `CooldownBounded`, `TypeOK` | 2 threads serve the symbol `FB`; limit 2, cooldown 2, time up to 6 | 334,339 |
| `position_table` | `UniqueKeys`, `CallsFindTheirKey`, `InsertFailsOnlyWhenFull`, `EntriesStay` | 3 threads, 3 keys, 2 slots, symmetric | 133,809 |
| `position_ledger` | `CashBalances`, `FlatHasNoCost`, `AverageWithinEntries` | 5 fills of 1 to 3 shares at 3 prices | 27,355 |
| `rate_limiter` | `NoRequestInWindow`, `DroppedOnlyInWindow`, `WaitReturns` | both policies, window 3, threshold 2, time up to 14; fair | 1,432 |
| `market_data` | `PublishesWhatItemSays`, `AuthSuccessIsFirst`, `SubscribesAnew`, `TypeOK` | frames of 2 items of 3 fields, values nested once; 1 lost connection; fair | 419,737 |
| `engine` | `NoUseAfterDestroy`, `OneTripPerOrder`, `OnlyLongWaitsAreMissed`, `ReportIsFinal`, `UnheardOnlyAfterStop`, `EngineEnds`, `TypeOK` | up to 2 symbols, 2 fills of the first order, time up to 2, waits counted up to 1; fair | 417,379 |

What they show, where the names do not say it:

- `ImplementsFifo` contains the liveness of `OrderQueue`: what was exchanged
  before the stop is executed in the end, even if its link is stored late.
- `OverLimitOnlyByLost` is `BrokerWithinLimit` under faults: a query that fails,
  a reconciliation that ends early, an order placed before the first
  authorization never let the broker execute more than the limit, and a lost
  acknowledgement costs no more than the order it was for.
- `PublishesWhatItemSays` compares the visitor with a decoding that has no state
  across items; nothing of an item before, of a nested map or of a frame that was
  cut off gets into an event, and numbers that do not fit a word are refused. It
  claims nothing of items in which a field the visitor reads is itself an array or
  a map (`odd`): the visitor takes the elements of such an array for the field.
- `AuthSuccessIsFirst`: `on_auth_success` is called for the first item of a frame,
  and for a later one only if it holds an array (`start_array` sets the index back
  at every depth).
- `ExposureBounded`: with *n* threads that serve a symbol, the limit is
  `Limit(s)`, the configured one plus *n* - 1 orders. Open orders stay within it,
  and what is held plus what is open within twice of it: each factor is what one
  kind of race costs, orders approved between another's check and addition, and
  fills that fall between the two loads. With one thread it says that the torn
  read never lets more than double the limit through.
- `CooldownBounded`: at most *n* * *n* orders pass in one cooldown, one where one
  thread serves the symbol. With several, each may have loaded the old time, a
  store may take the time back, and the unsigned difference of a thread that was
  overtaken wraps.
- `UnheardOnlyAfterStop`: `shutdown` stops the listener before the gateway has
  drained the queue, so that orders placed during the drain have no listener.
  Before the stop that cannot happen. It is about the thread: a session that is
  not authorized yet hears nothing either, which is the fault `earlyOrder` of
  `OrderFlow`.
- `OnlyLongWaitsAreMissed`: the wait of every order popped is in the histogram,
  once and unchanged, unless it exceeds `kHighestTrackable` (60 s), when
  `hdr_record_value_atomic` drops it and the report does not show it.
- `WaitReturns` is about the policy `Wait`, which only tests select: the REST
  clients that `main` builds drop.
- `OneTripPerOrder`: the clock is read before the mutex, so that a fill may have
  an older reading than the submission; the difference wraps to a number the
  histogram refuses, and no sample is longer than the time that has passed.

The type invariants of the modules whose runs do not list one are theorems
(section 4).

### Where the code and what is said of it disagree

Three runs end in a counterexample.

- `flow_late_event` (`NeverOverCounted`): the listener subscribes before it
  reconciles. A fill executed in between is applied by the reconciliation and,
  since `processFillEvent` does not ask `isCompleted`, again when its event is
  read. `test_fill_listener.cpp:741` expects one application.
- `flow_lost_ack` (`BrokerWithinLimit`): an order whose acknowledgement is lost
  is given back to the exposure while the broker still holds it.
- `risk_torn_read` (`LimitRespected`): `getTotalExposure` may see the shares of
  a fill in neither counter. `ExposureBounded` bounds the damage.

One more limit of the code shows as an assumption. The listener remembers
`kMaxTrackedOrders` orders, while each reconciliation asks for all orders since
the session started, so that a forgotten order is applied again:
`PositionsMatchBroker` needs `MaxTracked` to be the number of
orders, and fails with `MaxTracked = 1`.

A ZMQ subscription matches by prefix while consumers do not compare the symbol,
so that the thread for `F` handles events of `FB` too, and `validateConfig`
rejects only equal symbols. Nothing is assumed here: `risk_gate` has two such
symbols, and the bounds grow with the number of threads. `ARCHITECTURE.md` speaks
of a "dedicated thread per trading symbol", which is so only where no symbol is a
prefix of another.

### The environment: `Faults`

What the environment may do is a constant of `TradingTypes`, so that every run and
theorem says what it depends on.

| fault | meaning |
|---|---|
| `lostAck` | the broker accepts an order and `placeOrder` reports an error |
| `queryFail` | `queryOrders` fails and the reconciliation gives up |
| `foreignOrder` | the account has orders of fractional quantity, which `queryOrders` skips; a page that has become shorter is taken for the last |
| `authFail` | the broker refuses an authorization |
| `earlyOrder` | the gateway places orders before the first authorization |
| `eventInWindow` | the broker executes or cancels between the subscription request and the end of the reconciliation's queries |

A lost connection, with the events it loses, partial fills and cancels are
possible in every run. `flow_accounting` has no fault: each of `queryFail`,
`foreignOrder`, `earlyOrder`, `eventInWindow` and `lostAck` lets the positions
differ from the broker's until the next reconnect or for good, which follows
from the code (`AlpacaFillListener.cpp:298`, `:302`, `:409`,
`OrderGateway.cpp:83`). `authFail` is used together with `earlyOrder`: without
it the gateway of a session that is never authorized has nothing to place.
`eventInWindow` is left out of `flow_faults`: a cancel that the reconciliation
has seen and that is streamed as well is given back to `pending` twice
(`processCancelEvent` does not ask whether the order is completed), so that buys
of 2, 1 and 1 can exceed a limit of 2: `OverLimitOnlyByLost` fails there with
this fault, and holds with all the others (1,327,875 states). Three buys of one
share are too few to show it: they pass with all six faults (1,301,054 states).
`TrackerSafe` and `OneWorkingOrder` are proved for every set of faults. Four
buys of one share pass without `foreignOrder` and `eventInWindow` (14,206,218
states, 18 minutes).

### Bounds

`MaxOrders`, `MaxDisconnects`, `MaxDrops`, `MaxPush`, `MaxFills`, `MaxLength`
and `MaxTime` bound what is unbounded in the program. Three orders in a slot are
the fewest with a predecessor that has a predecessor; a page of two makes the
reconciliation take two queries; two lost connections let a reconciliation be
interrupted and repeated. Three producers allow a gap behind a gap in the
queue's chain, and the one that pushes twice follows up its own order. A table
of two slots for three keys has collisions, wrap-around and a full table. The
ledger's prices 3, 5, 8 do not divide evenly by the positions that occur. The
clock of the rate limiter runs long enough for three windows and for every wait
to end before the last tick. Two items of a frame show what one leaves to the
next; three fields are enough for a type and two values, and one level of
nesting for a map or an array inside an item. Words of 3 bits and a scale of 2
put 3, 4 and 8 on both sides of every test of range. In `risk_gate` the clock
starts anywhere and runs past a cooldown after the one that is counted; with
three threads the inductive invariant of the proofs has been checked as well
(4.1 million states). The engine's two consumers let one be launched and run when
the next one's constructor throws; times up to 2 and a range up to 1 give waits
on both sides of it, and the order with two fills has one after its entry was
erased. The engine run has no symbol beyond `kMaxSymbols`: that its orders are
refused is what `registerSymbol` says, and a unit test expects it.

### Fairness

Weak fairness of the gateway and the listener in `OrderFlow`; of the gateway,
the destructor and each producer's push and exit in `MPSCQueue`; of the clock
and the waiting thread in `RateLimiter`; of the session and the data service in
`MarketData`; of main, the gateway, the listener, the source's return and each
consumer's push and exit in `TradingEngine`, where a signal handler that has begun
also returns. The operating system schedules
runnable threads, the WebSocket library reconnects, a REST call is assumed to
return, and `ix::WebSocket::stop` to make `run` return. Nothing obliges the
strategy to trade, the broker to execute, a connection to drop, a signal to come
or the engine to stop. `EndIsLearnt` is checked without faults: a refused
authorization or a failed query ends the recovery until a later reconnect, which
the code does not force.

## 4. The proofs

| theorem | states | assumes |
|---|---|---|
| `MPSCQueue_proofs!NothingDangles` | `Spec => []NoUseAfterFree` | |
| `MPSCQueue_proofs!EverythingIsDeleted` | `Spec => []NoLeak` | |
| `MPSCQueue_proofs!OrdersKeepOrder` | `Spec => []PoppedInPushOrder` | |
| `MPSCQueue_proofs!GatewayDrains` | `Spec => []DrainedBeforeExit` | |
| `MPSCQueue_proofs!QueueIsFifo` | `Spec => Fifo!Safety` | |
| `OrderFlowTypes_proofs!TypeCorrect` | `Spec => []TypeOK` | |
| `OrderFlow_proofs!TrackerSafe` | `Spec => TrackerKeepsWorking` | |
| `OrderFlow_proofs!OneWorkingOrder` | `Spec => []AtMostOneWorking` | |
| `RiskGate_proofs!TypeCorrect` | `Spec => []TypeOK` | |
| `RiskGate_proofs!ExposureBound` | `Spec => []ExposureBounded` | |
| `RiskGate_proofs!OrdersRationed` | `Spec => []CooldownBounded` | |
| `RateLimiter_proofs!RequestsKeepOut` | `Spec => NoRequestInWindow` | |
| `RateLimiter_proofs!DropsEnd` | `Spec => DroppedOnlyInWindow` | |
| `PositionTable_proofs!OneEntryPerKey` | `Spec => []UniqueKeys` | |
| `PositionTable_proofs!CallsAreCorrect` | `Spec => []CallsFindTheirKey` | |
| `PositionTable_proofs!FailsOnlyWhenFull` | `Spec => []InsertFailsOnlyWhenFull` | |
| `PositionTable_proofs!EntriesAreStable` | `Spec => EntriesStay` | |
| `PositionLedger_proofs!BooksBalance` | `Spec => []CashBalances` | |
| `PositionLedger_proofs!FlatIsFree` | `Spec => []FlatHasNoCost` | |
| `PositionLedger_proofs!AverageStaysWithin` | `Spec => []AverageWithinEntries` | |
| `TradingEngine_proofs!ThreadsEndFirst` | `Spec => []NoUseAfterDestroy` | |
| `TradingEngine_proofs!TypeCorrect` | `Spec => []TypeOK` | |
| `TradingEngine_proofs!WaitsAreCounted` | `Spec => OnlyLongWaitsAreMissed` | |
| `TradingEngine_proofs!TripsAreCountedOnce` | `Spec => []OneTripPerOrder` | |
| `TradingEngine_proofs!ReportIsComplete` | `Spec => ReportIsFinal` | |
| `TradingEngine_proofs!OrdersAreHeard` | `Spec => UnheardOnlyAfterStop` | |

`MPSCQueue_proofs`, `PositionTable_proofs`, `PositionLedger_proofs` and
`RateLimiter_proofs` each have a theorem `TypeCorrect` as well.

Besides what the table says, the proofs use only the named assumptions on the
constants, which TLC evaluates in every run.

**MPSCQueue.** The nodes are numbered in the order of their exchange. `Shape`
says where `tail_` and `head_` are in that numbering and that no node occurs
twice; `Linked` that the pointer from each node to the next is stored, or is null
and some producer has yet to store it, and that it is stored wherever `tail_` has
passed; `Pushing` is the converse, each producer that has exchanged has one null
pointer to close; `Memory` that live are the nodes from `tail_` on. A producer's
`prev_head` has a null pointer, so that `tail_` has not passed it and it has not
been deleted. When `tail_ == head_` everything exchanged has been popped, since
the numbering is one to one; this is what the stop test relies on (`Stopped`).
For the refinement each action is shown to be a step of `OrderQueue` or to leave
its variables alone.

**OrderFlow.** That two orders are never both working is not inductive: it does
not say why the gateway, about to place an order, finds no other one working.
The invariant `Inv` adds four things. `Typed` is the type invariant with bounds on
quantities. `Lifecycle` relates where the gateway is with an order to what the
broker knows of it. `Reported` says that every event in the stream and every item
of a page tells the truth: an order said to have ended has ended. `Tracked` says
that while the gateway replaces an order the slot holds that order or nothing,
and that from the cancel on the slot's order is no longer working.
From these, `onOrderCompleted` clears only slots of ended orders, which is
`TrackerSafe`. `Known` adds that every working order
whose acknowledgement was not lost is in its slot, or is the one the gateway has
in hand. Two working orders of one slot would then be one.

**RiskGate.** `Exposure` counts the threads of a symbol by what they may still do.
A thread approves an order only if it has seen `pending`, alone, leave room for
it. `Deciding` are the threads that have seen this and have not added their order
yet: `pending` with an order for each of them stays within `Limit(s)`. Once `filled`
leaves no room for an order, only those threads can still approve one that have
read `filled` before (`Unaware`): what is held and open, with an order for each of
these and of those that have approved one, stays within twice `Limit(s)`. Each step
of a thread moves it from set to set and changes the counters by no more than the
sets lose; a fill or a cancel changes no set.

For the cooldown, `Spaced` goes by where `last_order_time` is. While it is before
`Window`, every thread but the `Early` ones may get an order through; an early
thread has read the clock before the window and can set the time back, once. While
it is in the window, the threads still `Able` to store a time of the window are
those that have passed the test and those that were overtaken by a later time, for
which the unsigned difference wraps. Once it is behind the window, every thread
`Inside` may get one more order through, and none comes inside any more. The sums of
these, 1 + 2 + ... over the threads that are not early, give the *n* * *n*. Doubled,
they need only linear facts about products, which `SumsGrow` collects; how the
cardinalities change with the sets is in `Counts`.

**RateLimiter.** `Throttle` says that a throttle in place dates from the last
warning, that none is in place while a reply is awaited, and that a warning
without a throttle is at least a window old.

**PositionTable.** `Reachable` says that from its hash to the slot of a key every
slot is taken, by other keys; `Passed` that the same holds of the slots a call has
been through. Both are stable because entries only appear (`Grows`). A second
entry of a key would lie behind its first one in the probe sequence, against
`Reachable`. A loop that has come to its end has passed every slot: the table is
full, and without the key.

**PositionLedger.** `CashBalances` and `AverageWithinEntries` are inductive with the
sign of the cost from `TypeOK`. The work is in two lemmas on quotients: what a
truncating division takes from the cost of a position that is partly closed leaves
the rest between the bounds on its average (`Close`), and so does adding at a price
that widens them (`Open`). They are stated for a long position; a short one is
their mirror image.

**TradingEngine.** `Progress` says, for each place of the main thread, which threads
have been joined and which objects exist, and that a signal handler which has
tested the pointer finds it cleared only once the destructor is through; `Heard`
that a gateway which may place an order has a listener, or was told to stop.
`Configured` ties the cooldown to the symbols. `Measured` is about the times: no
reading of the clock is ahead of it (`InThePast`); an order is queued once and is
unmeasured until it is popped, the order in the gateway's hand is in no queue any
more and has no entry yet, and an order with an entry has no round trip yet (`Once`).
`ElapsedIs` says that a word holds the difference of two readings with its sign, so
that the histogram, which takes no negative value, refuses one that was overtaken.

Out of the prover's reach, and checked by TLC alone: liveness and fairness;
`PositionsMatchBroker`, `OverLimitOnlyByLost` and `BrokerWithinLimit` (sums over
sets of orders, which need induction); `PublishesWhatItemSays` (the reference
decoding is about sequences of tokens of any length). `NeverOverCounted` is not
proved either.

## 5. Abstractions

- Memory is sequentially consistent. The queue's acquire and release pairs
  order what its hazards depend on; weaker outcomes are not explored, except
  that `RiskGate` lets either of the two relaxed loads come first.
- Prices matter only in `PositionLedger` and as `OrderValues` in `RiskGate`. JSON,
  client order ids and log messages are left out: an order is a number.
- The broker's ids are unique and not empty, no two orders have the same
  `created_at`, and no symbol's key is the table's mark for an empty slot.
- The broker's other statuses (`pending_cancel`, `replaced`, ...) do not occur;
  the reconciliation ignores them, as it ignores live orders without a fill.
- Orders of the account that are not the engine's own occur only as what makes a
  page shorter. (The reconciliation would also apply the fills of those with whole
  quantities; the engine is taken to have the account to itself otherwise.)
- A number in a msgpack frame is an integer or NaN. What a `double` rounds when a
  price is scaled is left out.
- While a frame is parsed the rest of the session waits: the parser reads nothing
  that others write.
- The signal handler is two steps, its test of the pointer and its store. On main
  or on a thread that is joined before the pointer is cleared the two cannot be
  told apart; but the logger's thread (`Logging.cpp:25`) outlives the engine, so
  that the destructor may come in between. The store is then undefined: in the
  model it does nothing, or ends the process. Nothing in the code excludes it, and
  no property says that it does not happen. That the threads of ZMQ do not take
  signals is assumed, and that a `recv` which a signal interrupts does not throw
  (a socket error, see section 6).
- The engine's symbols are not prefixes of each other; `RiskGate` has those that
  are.
- The keys of a msgpack map are scalars; a frame with an array or a map for a key
  is left out.
- Of the five histograms of `LatencyTracker` two are kept, `MpscQueue` and
  `FillRoundTrip`.

## 6. Not modelled

- Logging and thread pinning: no other part depends on them.
- The text of REST payloads and of the configuration file, TCP options, percentiles
  and the layout of the latency report: formatting and I/O.
- Replies and messages that do not parse: the code logs and skips them, except for
  `queryOrders`, where a null quantity makes `item.value` throw out of the WebSocket
  callback; what follows depends on `ix::WebSocket`, which is not in the repository.
- The ZMQ socket between publisher and consumers, which drops events that nobody
  has subscribed to or that exceed its buffer. A market event may come or not in
  every model, so that a lost one is one that did not come.
- The prices of the strategy and the rounding of doubles: out of TLC's and the
  prover's reach.
- Errors of the ZMQ sockets after start-up, a `recv` interrupted by a signal
  included: the exception leaves the thread's function and ends the process.
- The overload of `wait_and_pop` without a stop flag, which only a test calls.
- Weak memory: see section 5. The tools explore interleavings only.
