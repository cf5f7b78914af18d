---------------------------- MODULE TradingEngine ----------------------------
\* The life of the process: main, TradingEngine's constructor, run, shutdown
\* and destructor, the threads they start and join, and what those threads do
\* to the latency tracker on the way.  What else an order does to the engine's
\* state is in OrderFlow, and the queue's memory operations are in MPSCQueue;
\* here the queue is a sequence and a REST call one step.
EXTENDS LatencyTracker

CONSTANTS
  Files,        \* the symbols a configuration file may list
  Overrides,    \* the symbols --symbols may list
  Long,         \* a symbol of more than 8 bytes
  MaxSymbols,   \* OrderCooldown::kMaxSymbols
  MaxTime,      \* bound on the clock
  MaxFills      \* bound on the fills of each order

\* A consumer launched for the n-th symbol is named n, and so is its order.
ASSUME EngineAssumption ==
  /\ Orders \subseteq Nat
  /\ \A s \in Files \cup Overrides :
       s \in Seq({s[i] : i \in DOMAIN s}) /\ DOMAIN s \subseteq Orders
  /\ MaxSymbols \in Nat \ {0}
  /\ MaxFills \in [Orders -> Nat]
  /\ Word \in Nat
  /\ MaxTime \in 0..(Word \div 2 - 1)
  /\ Highest \in Nat

VARIABLES
  main,         \* where the main thread is
  symbols,      \* config.trading.symbols
  cooldown,     \* the slots OrderCooldown has registered
  running,      \* is_running_
  done,         \* shutdown_done_
  handler,      \* g_is_running_ptr points to the engine's flag
  signal,       \* signalHandler has tested the pointer and is about to store
  alive,        \* the objects that exist: the engine, its gateway, consumers
  listener,     \* the threads: none, what they do, ended, joined
  source,
  gateway,
  consumer,     \* one for each symbol, in launching order
  queue,        \* the orders pushed; an order is named by its consumer
  queuedAt,     \* Order::queuedAt of an order not popped yet
  inHand,       \* the order the gateway executes and the listener's fill
  stamp,        \* their readings of the clock; both are locals, reset after use
  sent,         \* the orders the broker has accepted
  fills,        \* how many fills of each it has sent
  events,       \* trade updates on their way
  clock,
  dumped        \* the report has been written

mainVars == <<symbols, cooldown, done, handler, signal, alive>>
threadVars == <<listener, source, gateway, consumer>>
workVars == <<queue, queuedAt, inHand, stamp, sent, fills, events>>
vars == <<main, running, mainVars, threadVars, workVars, trackerVars,
          clock, dumped>>

Objects == {"engine", "gateway", "consumers"}

Init ==
  /\ main = "configure"
  /\ symbols = <<>>
  /\ cooldown = <<>>
  /\ running = TRUE
  /\ done = FALSE
  /\ handler = FALSE
  /\ signal = FALSE
  /\ alive = {}
  /\ listener = "none"
  /\ source = "none"
  /\ gateway = "none"
  /\ consumer = [i \in Orders |-> "none"]
  /\ queue = <<>>
  /\ queuedAt = [i \in Orders |-> 0]
  /\ inHand = [gateway |-> None, listener |-> None]
  /\ stamp = [gateway |-> 0, listener |-> 0]
  /\ sent = {}
  /\ fills = [i \in Orders |-> 0]
  /\ events = <<>>
  /\ clock = 0
  /\ dumped = FALSE
  /\ InitTracker

-----------------------------------------------------------------------------
\* Configuration and construction

\* validateConfig's test of the symbols.  (Its other tests, of numbers, lead
\* to the same exception.)
Valid(syms) == \A i, j \in DOMAIN syms : i # j => syms[i] # syms[j]

\* applySymbolsOverride throws for an empty list and for a long symbol.
Applicable(syms) == syms # <<>> /\ \A i \in DOMAIN syms : syms[i] # Long

\* main: loadConfig, which validates, then the override, then validateConfig.
Configure ==
  /\ main = "configure"
  /\ \E syms \in Files \cup {s \in Overrides : Applicable(s)} :
       Valid(syms) /\ symbols' = syms
  /\ main' = "construct"
  /\ UNCHANGED <<running, cooldown, done, handler, signal, alive, threadVars,
                 workVars, trackerVars, clock, dumped>>

\* Any of these throws: main returns 1.
ConfigureFails ==
  /\ main = "configure"
  /\ main' = "exit"
  /\ UNCHANGED <<running, mainVars, threadVars, workVars, trackerVars, clock,
                 dumped>>

\* registerSymbol for each symbol in turn: beyond kMaxSymbols it does nothing.
Registered(syms) ==
  SubSeq(syms, 1, IF Len(syms) < MaxSymbols THEN Len(syms) ELSE MaxSymbols)

\* The constructor.  setup_signal_handler is its last call.
Construct ==
  /\ main = "construct"
  /\ main' = "startListener"
  /\ cooldown' = Registered(symbols)
  /\ alive' = Objects
  /\ handler' = TRUE
  /\ UNCHANGED <<running, symbols, done, signal, threadVars, workVars,
                 trackerVars, clock, dumped>>

\* The constructor throws (no API keys, a REST client or a socket fails): what
\* it had built is destroyed, and the destructor does not run.
ConstructFails ==
  /\ main = "construct"
  /\ main' = "exit"
  /\ UNCHANGED <<running, mainVars, threadVars, workVars, trackerVars, clock,
                 dumped>>

-----------------------------------------------------------------------------
\* TradingEngine::run

\* A run that does not start the listener.
StartListenerNot ==
  /\ main = "startListener"
  /\ main' = "startPublisher"
  /\ UNCHANGED <<running, mainVars, threadVars, workVars, trackerVars, clock,
                 dumped>>

\* fill_listener_->start().
StartListener ==
  /\ main = "startListener"
  /\ main' = "startPublisher"
  /\ listener' = "idle"
  /\ UNCHANGED <<running, mainVars, source, gateway, consumer, workVars,
                 trackerVars, clock, dumped>>

\* market_publisher_->start(): the sink binds and the source's thread starts.
StartPublisher ==
  /\ main = "startPublisher"
  /\ main' = "launchGateway"
  /\ source' = "idle"
  /\ UNCHANGED <<running, mainVars, listener, gateway, consumer, workVars,
                 trackerVars, clock, dumped>>

\* bind throws: run is left, and the destructor follows.
BindFails ==
  /\ main = "startPublisher"
  /\ main' = "destructor"
  /\ UNCHANGED <<running, mainVars, threadVars, workVars, trackerVars, clock,
                 dumped>>

\* launch_gateway.
LaunchGateway ==
  /\ main = "launchGateway"
  /\ main' = "launchConsumers"
  /\ gateway' = "idle"
  /\ UNCHANGED <<running, mainVars, listener, source, consumer, workVars,
                 trackerVars, clock, dumped>>

\* The loop of launch_consumers is at the i-th symbol.
LoopAt(i) == consumer[i] = "none" /\ \A j \in 1..(i - 1) : consumer[j] # "none"

\* One round of the loop.
LaunchConsumer ==
  /\ main = "launchConsumers"
  /\ \E i \in DOMAIN symbols :
       /\ LoopAt(i)
       /\ symbols[i] # Long
       /\ consumer' = [consumer EXCEPT ![i] = "loop"]
  /\ UNCHANGED <<main, running, mainVars, listener, source, gateway, workVars,
                 trackerVars, clock, dumped>>

\* The constructor of the next consumer throws, always for a long symbol and
\* otherwise when its socket fails; the earlier ones run already.
LaunchFails ==
  /\ main = "launchConsumers"
  /\ \E i \in DOMAIN symbols : LoopAt(i)
  /\ main' = "destructor"
  /\ UNCHANGED <<running, mainVars, threadVars, workVars, trackerVars, clock,
                 dumped>>

LaunchEnds ==
  /\ main = "launchConsumers"
  /\ \A i \in DOMAIN symbols : consumer[i] # "none"
  /\ main' = "loop"
  /\ UNCHANGED <<running, mainVars, threadVars, workVars, trackerVars, clock,
                 dumped>>

\* main_loop ends, and run calls shutdown.
MainLoopEnds ==
  /\ main = "loop"
  /\ ~running
  /\ main' = "stopPublisher"
  /\ done' = TRUE
  /\ UNCHANGED <<running, symbols, cooldown, handler, signal, alive,
                 threadVars, workVars, trackerVars, clock, dumped>>

-----------------------------------------------------------------------------
\* TradingEngine::shutdown and the destructor

\* A shutdown that stops the source and does not join its thread.
StopPublisherNoJoin ==
  /\ main = "stopPublisher"
  /\ main' = "joinConsumers"
  /\ UNCHANGED <<running, mainVars, threadVars, workVars, trackerVars, clock,
                 dumped>>

\* market_publisher_->stop() returns: the source's thread has been joined.
StopPublisher ==
  /\ main = "stopPublisher"
  /\ source \in {"none", "ended"}
  /\ main' = "joinConsumers"
  /\ source' = "joined"
  /\ UNCHANGED <<running, mainVars, listener, gateway, consumer, workVars,
                 trackerVars, clock, dumped>>

\* Every consumer is joined, then consumer_threads_.clear().
JoinConsumers ==
  /\ main = "joinConsumers"
  /\ \A i \in Orders : consumer[i] \in {"none", "ended"}
  /\ main' = "stopListener"
  /\ consumer' = [i \in Orders |-> "joined"]
  /\ alive' = alive \ {"consumers"}
  /\ UNCHANGED <<running, symbols, cooldown, done, handler, signal, listener,
                 source, gateway, workVars, trackerVars, clock, dumped>>

\* fill_listener_->stop() returns.
StopListener ==
  /\ main = "stopListener"
  /\ listener \in {"none", "ended"}
  /\ main' = "joinGateway"
  /\ listener' = "joined"
  /\ UNCHANGED <<running, mainVars, source, gateway, consumer, workVars,
                 trackerVars, clock, dumped>>

\* A shutdown that writes its report before it joins the gateway.
JoinGatewayAfterDump ==
  /\ main = "joinGateway"
  /\ IF dumped
     THEN /\ gateway \in {"none", "ended"}
          /\ main' = "dump"
          /\ gateway' = "joined"
          /\ alive' = alive \ {"gateway"}
          /\ UNCHANGED dumped
     ELSE /\ dumped' = TRUE
          /\ UNCHANGED <<main, gateway, alive>>
  /\ UNCHANGED <<running, symbols, cooldown, done, handler, signal, listener,
                 source, consumer, workVars, trackerVars, clock>>

\* The gateway is joined if it was launched, then order_gateway_.reset().
JoinGateway ==
  /\ main = "joinGateway"
  /\ gateway \in {"none", "ended"}
  /\ main' = "dump"
  /\ gateway' = "joined"
  /\ alive' = alive \ {"gateway"}
  /\ UNCHANGED <<running, symbols, cooldown, done, handler, signal, listener,
                 source, consumer, workVars, trackerVars, clock, dumped>>

\* latency_tracker_->dump("."); what it throws is caught.  shutdown returns,
\* to run and from there to the destructor, or to the destructor.
Dump ==
  /\ main = "dump"
  /\ main' = "destructor"
  /\ dumped' = TRUE
  /\ UNCHANGED <<running, mainVars, threadVars, workVars, trackerVars, clock>>

\* A destructor that relies on run to have cleared the flag.
DestructorNoStop ==
  /\ main = "destructor"
  /\ IF done
     THEN main' = "destroy" /\ handler' = FALSE /\ UNCHANGED done
     ELSE main' = "stopPublisher" /\ done' = TRUE /\ UNCHANGED handler
  /\ UNCHANGED <<running, symbols, cooldown, signal, alive, threadVars,
                 workVars, trackerVars, clock, dumped>>

\* ~TradingEngine: stop() if is_running_, shutdown() unless it has been done,
\* g_is_running_ptr = nullptr.
Destructor ==
  /\ main = "destructor"
  /\ running' = FALSE
  /\ IF done
     THEN main' = "destroy" /\ handler' = FALSE /\ UNCHANGED done
     ELSE main' = "stopPublisher" /\ done' = TRUE /\ UNCHANGED handler
  /\ UNCHANGED <<symbols, cooldown, signal, alive, threadVars, workVars,
                 trackerVars, clock, dumped>>

\* The members are destroyed, and main returns.
Destroy ==
  /\ main = "destroy"
  /\ main' = "exit"
  /\ alive' = {}
  /\ UNCHANGED <<running, symbols, cooldown, done, handler, signal, threadVars,
                 workVars, trackerVars, clock, dumped>>

\* The process is gone.
Terminated ==
  /\ main = "exit"
  /\ UNCHANGED vars

Main ==
  \/ Configure
  \/ ConfigureFails
  \/ Construct
  \/ ConstructFails
  \/ StartListener
  \/ StartPublisher
  \/ BindFails
  \/ LaunchGateway
  \/ LaunchConsumer
  \/ LaunchFails
  \/ LaunchEnds
  \/ MainLoopEnds
  \/ StopPublisher
  \/ JoinConsumers
  \/ StopListener
  \/ JoinGateway
  \/ Dump
  \/ Destructor
  \/ Destroy

\* signalHandler tests the pointer.  It may run on any thread that does not
\* block signals: one of the engine's, main itself, or the logger's, which is
\* there before the engine and after it.
SignalHandler ==
  /\ handler
  /\ ~signal
  /\ signal' = TRUE
  /\ UNCHANGED <<main, running, symbols, cooldown, done, handler, alive,
                 threadVars, workVars, trackerVars, clock, dumped>>

\* Then it stores through it.  On the logger's thread the destructor may have
\* come in between: the store is then undefined, and goes to where the flag was
\* or ends the process.
SignalStores ==
  /\ signal
  /\ signal' = FALSE
  /\ IF handler
     THEN running' = FALSE /\ UNCHANGED <<main, alive>>
     ELSE /\ \/ UNCHANGED <<main, alive>>
             \/ main' = "exit" /\ alive' = {}
          /\ UNCHANGED running
  /\ UNCHANGED <<symbols, cooldown, done, handler, threadVars, workVars,
                 trackerVars, clock, dumped>>

-----------------------------------------------------------------------------
\* The threads

\* The consumer has received an event, its order is approved (the cooldown
\* refuses a symbol it does not know) and stamped.  One order for each
\* consumer.
ConsumerTakesEvent(i) ==
  /\ consumer[i] = "loop"
  /\ running
  /\ \E k \in DOMAIN cooldown : cooldown[k] = symbols[i]
  /\ consumer' = [consumer EXCEPT ![i] = "push"]
  /\ queuedAt' = [queuedAt EXCEPT ![i] = clock]
  /\ UNCHANGED <<main, running, mainVars, listener, source, gateway, queue,
                 inHand, stamp, sent, fills, events, trackerVars, clock, dumped>>

\* order_callback_: the order is pushed, whether or not the engine still runs.
ConsumerPushes(i) ==
  /\ consumer[i] = "push"
  /\ consumer' = [consumer EXCEPT ![i] = "idle"]
  /\ queue' = Append(queue, i)
  /\ UNCHANGED <<main, running, mainVars, listener, source, gateway, queuedAt,
                 inHand, stamp, sent, fills, events, trackerVars, clock, dumped>>

\* recv has timed out or an event was handled, and is_running_ is false.
ConsumerEnds(i) ==
  /\ consumer[i] \in {"loop", "idle"}
  /\ ~running
  /\ consumer' = [consumer EXCEPT ![i] = "ended"]
  /\ UNCHANGED <<main, running, mainVars, listener, source, gateway, workVars,
                 trackerVars, clock, dumped>>

Consumer(i) ==
  \/ ConsumerTakesEvent(i)
  \/ ConsumerPushes(i)
  \/ ConsumerEnds(i)

\* OrderGateway::run pops an order, reads the clock and records the wait.
GatewayPops ==
  /\ gateway = "idle"
  /\ queue # <<>>
  /\ gateway' = "place"
  /\ inHand' = [inHand EXCEPT !.gateway = Head(queue)]
  /\ queue' = Tail(queue)
  /\ queuedAt' = [queuedAt EXCEPT ![Head(queue)] = 0]
  /\ Record(Head(queue), queuedAt[Head(queue)], clock)
  /\ UNCHANGED <<main, running, mainVars, listener, source, consumer, stamp,
                 sent, fills, events, clock, dumped>>

\* executeOrder: the broker accepts the order.
GatewayPlaces ==
  /\ gateway = "place"
  /\ gateway' = "placed"
  /\ sent' = sent \cup {inHand.gateway}
  /\ UNCHANGED <<main, running, mainVars, listener, source, consumer, queue,
                 queuedAt, inHand, stamp, fills, events, trackerVars, clock,
                 dumped>>

\* executeOrder: the order is skipped or refused.
GatewayDrops ==
  /\ gateway = "place"
  /\ gateway' = "idle"
  /\ inHand' = [inHand EXCEPT !.gateway = None]
  /\ UNCHANGED <<main, running, mainVars, listener, source, consumer, queue,
                 queuedAt, stamp, sent, fills, events, trackerVars, clock,
                 dumped>>

\* recordOrderSubmit reads the clock, before it takes the mutex.
GatewayReadsClock ==
  /\ gateway = "placed"
  /\ gateway' = "record"
  /\ stamp' = [stamp EXCEPT !.gateway = clock]
  /\ UNCHANGED <<main, running, mainVars, listener, source, consumer, queue,
                 queuedAt, inHand, sent, fills, events, trackerVars, clock,
                 dumped>>

GatewayRecords ==
  /\ gateway = "record"
  /\ gateway' = "idle"
  /\ RecordOrderSubmit(inHand.gateway, stamp.gateway)
  /\ inHand' = [inHand EXCEPT !.gateway = None]
  /\ stamp' = [stamp EXCEPT !.gateway = 0]
  /\ UNCHANGED <<main, running, mainVars, listener, source, consumer, queue,
                 queuedAt, sent, fills, events, clock, dumped>>

\* wait_and_pop finds the queue empty and is_running_ false.
GatewayEnds ==
  /\ gateway = "idle"
  /\ queue = <<>>
  /\ ~running
  /\ gateway' = "ended"
  /\ UNCHANGED <<main, running, mainVars, listener, source, consumer, workVars,
                 trackerVars, clock, dumped>>

Gateway ==
  \/ GatewayPops
  \/ GatewayPlaces
  \/ GatewayDrops
  \/ GatewayReadsClock
  \/ GatewayRecords
  \/ GatewayEnds

\* onMessage with a fill: processFillEvent calls recordFillReceived, which
\* reads the clock before it takes the mutex.
ListenerTakesFill ==
  /\ listener = "idle"
  /\ running
  /\ events # <<>>
  /\ listener' = "fill"
  /\ inHand' = [inHand EXCEPT !.listener = Head(events)]
  /\ stamp' = [stamp EXCEPT !.listener = clock]
  /\ events' = Tail(events)
  /\ UNCHANGED <<main, running, mainVars, source, gateway, consumer, queue,
                 queuedAt, sent, fills, trackerVars, clock, dumped>>

ListenerRecords ==
  /\ listener = "fill"
  /\ listener' = "idle"
  /\ RecordFillReceived(inHand.listener, stamp.listener)
  /\ inHand' = [inHand EXCEPT !.listener = None]
  /\ stamp' = [stamp EXCEPT !.listener = 0]
  /\ UNCHANGED <<main, running, mainVars, source, gateway, consumer, queue,
                 queuedAt, sent, fills, events, clock, dumped>>

\* onMessage returns at once when the engine has been stopped.
ListenerIgnores ==
  /\ listener = "idle"
  /\ ~running
  /\ events # <<>>
  /\ events' = Tail(events)
  /\ UNCHANGED <<main, running, mainVars, threadVars, queue, queuedAt, inHand,
                 stamp, sent, fills, trackerVars, clock, dumped>>

\* ix::WebSocket::stop(): run returns once the callback has.
ListenerEnds ==
  /\ main = "stopListener"
  /\ listener = "idle"
  /\ listener' = "ended"
  /\ UNCHANGED <<main, running, mainVars, source, gateway, consumer, workVars,
                 trackerVars, clock, dumped>>

Listener ==
  \/ ListenerTakesFill
  \/ ListenerRecords
  \/ ListenerIgnores
  \/ ListenerEnds

\* The same for the source, whose messages are in MarketData.
SourceEnds ==
  /\ main = "stopPublisher"
  /\ source = "idle"
  /\ source' = "ended"
  /\ UNCHANGED <<main, running, mainVars, listener, gateway, consumer, workVars,
                 trackerVars, clock, dumped>>

\* A fill of an accepted order; it may overtake the reply to placeOrder.
BrokerFills(i) ==
  /\ i \in sent
  /\ fills[i] < MaxFills[i]
  /\ fills' = [fills EXCEPT ![i] = @ + 1]
  /\ events' = Append(events, i)
  /\ UNCHANGED <<main, running, mainVars, threadVars, queue, queuedAt, inHand,
                 stamp, sent, trackerVars, clock, dumped>>

Tick ==
  /\ alive # {}
  /\ clock < MaxTime
  /\ clock' = clock + 1
  /\ UNCHANGED <<main, running, mainVars, threadVars, workVars, trackerVars,
                 dumped>>

Next ==
  \/ Main
  \/ SignalHandler
  \/ SignalStores
  \/ \E i \in Orders : Consumer(i)
  \/ Gateway
  \/ Listener
  \/ SourceEnds
  \/ \E i \in Orders : BrokerFills(i)
  \/ Tick
  \/ Terminated

Spec == Init /\ [][Next]_vars

\* The scheduler runs every thread that can run, REST calls return, and recv
\* times out.  Nothing obliges a market event, a fill or a signal to come.
FairSpec ==
  /\ Spec
  /\ WF_vars(Main)
  /\ WF_vars(Gateway)
  /\ WF_vars(Listener)
  /\ WF_vars(SourceEnds)
  /\ WF_vars(SignalStores)
  /\ \A i \in Orders : WF_vars(ConsumerPushes(i) \/ ConsumerEnds(i))
-----------------------------------------------------------------------------

\* Every variable has its type; the cooldown holds the first of the configured
\* symbols, and no sample is one the histograms cannot hold.
TypeOK ==
  /\ main \in {"configure", "construct", "startListener", "startPublisher",
               "launchGateway", "launchConsumers", "loop", "stopPublisher",
               "joinConsumers", "stopListener", "joinGateway", "dump",
               "destructor", "destroy", "exit"}
  /\ symbols \in Files \cup Overrides \cup {<<>>}
  /\ cooldown = SubSeq(symbols, 1, Len(cooldown))
  /\ {running, done, handler, signal, dumped} \subseteq BOOLEAN
  /\ alive \subseteq Objects
  /\ listener \in {"none", "idle", "fill", "ended", "joined"}
  /\ source \in {"none", "idle", "ended", "joined"}
  /\ gateway \in {"none", "idle", "place", "placed", "record", "ended", "joined"}
  /\ consumer \in [Orders -> {"none", "loop", "push", "idle", "ended", "joined"}]
  /\ queue \in Seq(Orders)
  /\ queuedAt \in [Orders -> 0..MaxTime]
  /\ inHand \in [gateway : Orders \cup {None}, listener : Orders \cup {None}]
  /\ stamp \in [gateway : 0..MaxTime, listener : 0..MaxTime]
  /\ sent \subseteq Orders
  /\ fills \in [Orders -> Nat] /\ \A i \in Orders : fills[i] <= MaxFills[i]
  /\ events \in Seq(Orders)
  /\ clock \in 0..MaxTime
  /\ submits \in [Orders -> 0..MaxTime \cup {None}]
  /\ waits \in [Orders -> Seq(0..Highest)]
  /\ trips \in [Orders -> Seq(0..Highest)]

Off == {"none", "ended", "joined"}

\* Whatever way the engine ends, by a signal during start-up, while trading or
\* while it shuts down, or by an exception of bind or of a consumer launched
\* after others, no thread runs when an object it uses is gone, and none is
\* left unjoined (std::thread would end the process) when the members are
\* destroyed.
NoUseAfterDestroy ==
  /\ "engine" \notin alive =>
       {listener, source, gateway} \cup {consumer[i] : i \in Orders}
         \subseteq {"none", "joined"}
  /\ "gateway" \notin alive => gateway \in Off
  /\ "consumers" \notin alive => \A i \in Orders : consumer[i] \in Off

\* An order has at most one sample of its round trip, however many fills it
\* has and however they race recordOrderSubmit, and the sample is a time that
\* has passed: a reading that was overtaken does not get in wrapped.
OneTripPerOrder ==
  \A i \in Orders :
    /\ Len(trips[i]) <= 1
    /\ \A k \in DOMAIN trips[i] : trips[i][k] \in 0..clock

\* The wait of every order the gateway takes off the queue is counted once and
\* as it was, although one thread read the first time and another the second;
\* only a wait longer than the histogram can hold is missing in the report.
OnlyLongWaitsAreMissed ==
  [][\A i \in Orders :
       gateway = "idle" /\ gateway' = "place" /\ inHand'.gateway = i =>
         LET wait == clock - queuedAt[i]
         IN  waits'[i] = IF wait <= Highest THEN <<wait>> ELSE <<>>]_vars

\* The report is complete: nothing is recorded once it has been written.
ReportIsFinal == [][dumped => UNCHANGED trackerVars]_vars

\* An order goes to the broker while no thread of the listener runs only after
\* the engine has been told to stop: start-up never gets ahead of the listener.
\* (That it runs does not say that it is authorized yet.)
UnheardOnlyAfterStop ==
  [][sent' # sent => listener \notin Off \/ ~running]_vars

\* A signal that finds the engine, a stop, or an exception once the engine is
\* built ends the process: no join waits for a thread that waits for something
\* else.
EngineEnds ==
  (signal \/ ~running \/ main = "destructor") ~> (main = "exit")
=============================================================================
