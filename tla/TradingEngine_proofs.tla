------------------------ MODULE TradingEngine_proofs ------------------------
(***************************************************************************)
(* Theorems about TradingEngine, for any configuration and any number of   *)
(* symbols, fills and clock ticks.                                         *)
(***************************************************************************)
EXTENDS TradingEngine, TLAPS

USE ZenonT(5), SMTT(30)

\* Where main may be, phase by phase.
Starting == {"startListener", "startPublisher", "launchGateway",
             "launchConsumers", "loop"}
Stopping == {"stopPublisher", "joinConsumers", "stopListener", "joinGateway",
             "dump"}
Ending == {"destructor", "destroy"}
Phases == {"configure", "construct", "exit"} \cup Starting \cup Stopping \cup Ending

ThreadTypes ==
  /\ main \in Phases
  /\ {running, done, handler, signal, dumped} \subseteq BOOLEAN
  /\ alive \subseteq Objects
  /\ listener \in {"none", "idle", "fill", "ended", "joined"}
  /\ source \in {"none", "idle", "ended", "joined"}
  /\ gateway \in {"none", "idle", "place", "placed", "record", "ended", "joined"}
  /\ consumer \in [Orders -> {"none", "loop", "push", "idle", "ended", "joined"}]

NoThread ==
  /\ listener = "none" /\ source = "none" /\ gateway = "none"
  /\ \A i \in Orders : consumer[i] = "none"

\* shutdown has gone as far as to join the threads it joins in turn.
SourceJoined == source = "joined"
ConsumersJoined == SourceJoined /\ \A i \in Orders : consumer[i] = "joined"
ListenerJoined == ConsumersJoined /\ listener = "joined"
AllJoined == ListenerJoined /\ gateway = "joined"

\* How the threads and the objects stand to where main is.
Progress ==
  /\ main \in {"configure", "construct"} => NoThread /\ ~done /\ ~handler /\ alive = {}
  /\ main = "startListener" => NoThread
  /\ main \in Starting => ~done /\ alive = Objects
  /\ main \in Starting \ {"startListener"} => listener \in {"idle", "fill"}
  /\ main \in Stopping => done /\ ~running
  /\ main = "joinConsumers" => SourceJoined
  /\ main = "stopListener" => ConsumersJoined
  /\ main = "joinGateway" => ListenerJoined
  /\ main = "dump" => AllJoined
  /\ main = "destructor" => (done => AllJoined /\ ~running) /\ (~done => alive = Objects /\ listener \in {"idle", "fill"})
  /\ main = "destroy" => AllJoined /\ ~handler
  /\ main = "exit" => alive = {} /\ ~handler /\ (AllJoined \/ NoThread)
  /\ main \in Stopping \cup Ending => "engine" \in alive
  /\ "gateway" \notin alive => gateway \in {"none", "joined"}
  /\ "consumers" \notin alive => \A i \in Orders : consumer[i] \in {"none", "joined"}
  /\ dumped => AllJoined
  /\ signal => handler \/ main \in {"destroy", "exit"}

\* A gateway that can place orders without a listener has been told to stop.
Heard == gateway \notin Off => listener \notin Off \/ ~running

Inv == ThreadTypes /\ Progress /\ Heard

\* The initial state satisfies the invariant.
LEMMA InitInv == Init => Inv
BY ZenonT(30)
DEF Inv, ThreadTypes, Progress, Heard, NoThread, Off, Phases, Objects,
    Starting, Stopping, Ending, SourceJoined, ConsumersJoined,
    ListenerJoined, AllJoined, Init

\* Every step keeps it.
LEMMA NextInv == Inv /\ [Next]_vars => Inv'
<1> SUFFICES ASSUME Inv, [Next]_vars PROVE Inv'
  OBVIOUS
<1> USE DEF Inv, ThreadTypes, Progress, Heard, NoThread, Off, Phases, Objects,
           Starting, Stopping, Ending, SourceJoined, ConsumersJoined,
           ListenerJoined, AllJoined,
           mainVars, threadVars
<1>1. CASE Configure
  BY <1>1 DEF Configure
<1>2. CASE ConfigureFails
  BY <1>2 DEF ConfigureFails
<1>3. CASE Construct
  BY <1>3 DEF Construct
<1>4. CASE ConstructFails
  BY <1>4 DEF ConstructFails
<1>5. CASE StartListener
  BY <1>5 DEF StartListener
<1>6. CASE StartPublisher
  BY <1>6 DEF StartPublisher
<1>7. CASE BindFails
  BY <1>7 DEF BindFails
<1>8. CASE LaunchGateway
  BY <1>8 DEF LaunchGateway
<1>9. CASE LaunchConsumer
  BY <1>9, ZenonT(30) DEF LaunchConsumer
<1>10. CASE LaunchFails
  BY <1>10 DEF LaunchFails
<1>11. CASE LaunchEnds
  BY <1>11 DEF LaunchEnds
<1>12. CASE MainLoopEnds
  BY <1>12 DEF MainLoopEnds
<1>13. CASE StopPublisher
  BY <1>13 DEF StopPublisher
<1>14. CASE JoinConsumers
  BY <1>14 DEF JoinConsumers
<1>15. CASE StopListener
  BY <1>15 DEF StopListener
<1>16. CASE JoinGateway
  BY <1>16 DEF JoinGateway
<1>17. CASE Dump
  BY <1>17 DEF Dump
<1>18. CASE Destructor
  BY <1>18, ZenonT(30) DEF Destructor
<1>19. CASE Destroy
  BY <1>19 DEF Destroy
<1>20. CASE SignalHandler \/ SignalStores
  <2>1. CASE SignalHandler
    BY <2>1 DEF SignalHandler
  <2>2. CASE SignalStores /\ handler
    BY <2>2, ZenonT(30) DEF SignalStores
  <2>3. CASE SignalStores /\ ~handler
    BY <2>3, ZenonT(30) DEF SignalStores
  <2> QED BY <1>20, <2>1, <2>2, <2>3
<1>21. ASSUME NEW i \in Orders, ConsumerTakesEvent(i) PROVE Inv'
  BY <1>21 DEF ConsumerTakesEvent
<1>22. ASSUME NEW i \in Orders, ConsumerPushes(i) PROVE Inv'
  BY <1>22 DEF ConsumerPushes
<1>23. ASSUME NEW i \in Orders, ConsumerEnds(i) PROVE Inv'
  BY <1>23 DEF ConsumerEnds
<1>24. CASE GatewayPops
  BY <1>24 DEF GatewayPops
<1>25. CASE GatewayPlaces
  BY <1>25 DEF GatewayPlaces
<1>26. CASE GatewayDrops
  BY <1>26 DEF GatewayDrops
<1>27. CASE GatewayReadsClock
  BY <1>27 DEF GatewayReadsClock
<1>28. CASE GatewayRecords
  BY <1>28 DEF GatewayRecords
<1>29. CASE GatewayEnds
  BY <1>29 DEF GatewayEnds
<1>30. CASE ListenerTakesFill
  BY <1>30 DEF ListenerTakesFill
<1>31. CASE ListenerRecords
  BY <1>31 DEF ListenerRecords
<1>32. CASE ListenerIgnores
  BY <1>32 DEF ListenerIgnores
<1>33. CASE ListenerEnds
  BY <1>33 DEF ListenerEnds
<1>34. CASE SourceEnds
  BY <1>34 DEF SourceEnds
<1>35. ASSUME NEW i \in Orders, BrokerFills(i) PROVE Inv'
  BY <1>35 DEF BrokerFills
<1>36. CASE Tick
  BY <1>36 DEF Tick
<1>37. CASE UNCHANGED vars
  BY <1>37 DEF vars
<1> QED
  BY ZenonT(30), <1>1, <1>2, <1>3, <1>4, <1>5, <1>6, <1>7, <1>8, <1>9, <1>10, <1>11,
     <1>12, <1>13, <1>14, <1>15, <1>16, <1>17, <1>18, <1>19, <1>20, <1>21,
     <1>22, <1>23, <1>24, <1>25, <1>26, <1>27, <1>28, <1>29, <1>30, <1>31,
     <1>32, <1>33, <1>34, <1>35, <1>36, <1>37
  DEF Next, Main, Consumer, Gateway, Listener, Terminated

\* The invariant holds in every behaviour.
LEMMA Invariance == Spec => []Inv
BY InitInv, NextInv, PTL DEF Spec

-----------------------------------------------------------------------------

\* The symbols are those of a file or an override, and the cooldown is given
\* them after they are set.
Configured ==
  /\ symbols \in Files \cup Overrides \cup {<<>>}
  /\ cooldown \in {<<>>, Registered(symbols)}
  /\ main \in {"configure", "construct"} => cooldown = <<>>

\* No symbols at first.
LEMMA InitConfigured == Init => Configured
BY DEF Init, Configured

\* The symbols are a sequence whose positions name consumers.
LEMMA SymbolsType ==
  ASSUME Configured
  PROVE  /\ Len(symbols) \in Nat /\ DOMAIN symbols = 1..Len(symbols)
         /\ symbols \in Seq({symbols[i] : i \in DOMAIN symbols})
<1>1. CASE symbols = <<>>
  BY <1>1
<1>2. CASE symbols \in Files \cup Overrides
  BY <1>2, EngineAssumption
<1> QED BY <1>1, <1>2 DEF Configured

\* Only Configure sets the symbols, only Construct registers them.
LEMMA NextConfigured == Configured /\ [Next]_vars => Configured'
<1> SUFFICES ASSUME Configured, [Next]_vars PROVE Configured'
  OBVIOUS
<1>1. CASE Configure
  BY <1>1 DEF Configured, Configure
<1>2. CASE Construct
  BY <1>2 DEF Configured, Construct
<1>3. ASSUME UNCHANGED <<symbols, cooldown>>,
             main' \in {"configure", "construct"} => main' = main
      PROVE  Configured'
  BY <1>3 DEF Configured, Registered
<1>4. CASE Main
  BY <1>1, <1>2, <1>3, <1>4
  DEF Main, ConfigureFails, ConstructFails, StartListener, StartPublisher,
      BindFails, LaunchGateway, LaunchConsumer, LaunchFails, LaunchEnds,
      MainLoopEnds, StopPublisher, JoinConsumers, StopListener, JoinGateway,
      Dump, Destructor, Destroy, mainVars
<1>5. ASSUME NEW i \in Orders, Consumer(i) \/ BrokerFills(i) PROVE Configured'
  BY <1>3, <1>5
  DEF Consumer, ConsumerTakesEvent, ConsumerPushes, ConsumerEnds, BrokerFills,
      mainVars
<1>6. CASE Gateway
  BY <1>3, <1>6
  DEF Gateway, GatewayPops, GatewayPlaces, GatewayDrops, GatewayReadsClock,
      GatewayRecords, GatewayEnds, mainVars
<1>7. CASE Listener
  BY <1>3, <1>7
  DEF Listener, ListenerTakesFill, ListenerRecords, ListenerIgnores,
      ListenerEnds, mainVars
<1>8. CASE SignalHandler \/ SignalStores \/ SourceEnds \/ Tick \/ UNCHANGED vars
  BY <1>3, <1>8
  DEF SignalHandler, SignalStores, SourceEnds, Tick, vars, mainVars
<1> QED
  BY <1>4, <1>5, <1>6, <1>7, <1>8 DEF Next, Terminated

-----------------------------------------------------------------------------

\* No way to end the engine leaves a thread running or unjoined when what it
\* uses is destroyed, for any number of consumers and wherever start-up fails.
THEOREM ThreadsEndFirst == Spec => []NoUseAfterDestroy
<1>1. Inv => NoUseAfterDestroy
  BY DEF Inv, ThreadTypes, Progress, NoThread, Objects, Off, Phases, Starting,
         Stopping, Ending, SourceJoined, ConsumersJoined, ListenerJoined,
         AllJoined, NoUseAfterDestroy
<1> QED BY <1>1, Invariance, PTL

\* dump writes the last word: every thread that records has been joined.
THEOREM ReportIsComplete == Spec => ReportIsFinal
<1>1. Inv /\ [Next]_vars => [dumped => UNCHANGED trackerVars]_vars
  <2> SUFFICES ASSUME Inv, Next, dumped PROVE UNCHANGED trackerVars
    OBVIOUS
  <2>1. gateway = "joined" /\ listener = "joined"
    BY DEF Inv, Progress, AllJoined, ListenerJoined
  <2>2. CASE Main
    BY Zenon, <2>2
    DEF Main, Configure, ConfigureFails, Construct, ConstructFails,
        StartListener, StartPublisher, BindFails, LaunchGateway, LaunchConsumer,
        LaunchFails, LaunchEnds, MainLoopEnds, StopPublisher, JoinConsumers,
        StopListener, JoinGateway, Dump, Destructor, Destroy
  <2>3. ~Gateway
    BY <2>1
    DEF Gateway, GatewayPops, GatewayPlaces, GatewayDrops, GatewayReadsClock,
        GatewayRecords, GatewayEnds
  <2>4. CASE Listener
    BY <2>1, <2>4
    DEF Listener, ListenerTakesFill, ListenerRecords, ListenerIgnores,
        ListenerEnds
  <2>5. ASSUME NEW i \in Orders, Consumer(i) \/ BrokerFills(i)
        PROVE  UNCHANGED trackerVars
    BY Zenon, <2>5
    DEF Consumer, ConsumerTakesEvent, ConsumerPushes, ConsumerEnds, BrokerFills
  <2>6. CASE SignalHandler \/ SignalStores \/ SourceEnds \/ Tick \/ Terminated
    BY Zenon, <2>6
    DEF SignalHandler, SignalStores, SourceEnds, Tick, Terminated, vars
  <2> QED BY <2>2, <2>3, <2>4, <2>5, <2>6 DEF Next
<1> QED BY <1>1, Invariance, PTL DEF Spec, ReportIsFinal

\* Until the engine is told to stop, every order goes out while the listener's
\* thread runs.
THEOREM OrdersAreHeard == Spec => UnheardOnlyAfterStop
<1>1. Inv /\ [Next]_vars =>
        [sent' # sent => listener \notin Off \/ ~running]_vars
  <2> SUFFICES ASSUME Inv, Next, sent' # sent
               PROVE  listener \notin Off \/ ~running
    OBVIOUS
  <2>1. GatewayPlaces
    BY ZenonT(30)
    DEF Next, Main, Configure, ConfigureFails, Construct, ConstructFails,
        StartListener, StartPublisher, BindFails, LaunchGateway, LaunchConsumer,
        LaunchFails, LaunchEnds, MainLoopEnds, StopPublisher, JoinConsumers,
        StopListener, JoinGateway, Dump, Destructor, Destroy, SignalHandler,
        SignalStores, Consumer, ConsumerTakesEvent, ConsumerPushes, ConsumerEnds, Gateway,
        GatewayPops, GatewayDrops, GatewayReadsClock, GatewayRecords,
        GatewayEnds, Listener, ListenerTakesFill, ListenerRecords,
        ListenerIgnores, ListenerEnds, SourceEnds, BrokerFills, Tick,
        Terminated, workVars, vars
  <2> QED BY <2>1 DEF GatewayPlaces, Inv, Heard, Off
<1> QED BY <1>1, Invariance, PTL DEF Spec, UnheardOnlyAfterStop

-----------------------------------------------------------------------------

\* Between readings of the clock below MaxTime, a word holds the difference
\* with its sign.
LEMMA ElapsedIs ==
  ASSUME NEW from \in 0..MaxTime, NEW to \in 0..MaxTime
  PROVE  Elapsed(from, to) = to - from
<1>1. /\ Word \in Nat /\ Word > 0 /\ MaxTime \in Nat
      /\ MaxTime < Word \div 2 /\ Word \div 2 \in Nat /\ 2 * (Word \div 2) <= Word
  BY EngineAssumption
<1>2. CASE from <= to
  <2>1. (to - from) % Word = to - from
    BY <1>1, <1>2
  <2> QED BY <1>1, <1>2, <2>1 DEF Elapsed
<1>3. CASE to < from
  <2>1. (to - from) % Word = to - from + Word
    BY <1>1, <1>3
  <2> QED BY <1>1, <1>3, <2>1 DEF Elapsed
<1> QED BY <1>2, <1>3

\* The types of what the threads work on and of the tracker.
WorkTypes ==
  /\ queue \in Seq(Orders)
  /\ queuedAt \in [Orders -> 0..MaxTime]
  /\ inHand \in [gateway : Orders \cup {None}, listener : Orders \cup {None}]
  /\ stamp \in [gateway : 0..MaxTime, listener : 0..MaxTime]
  /\ sent \subseteq Orders
  /\ fills \in [Orders -> Nat] /\ \A i \in Orders : fills[i] <= MaxFills[i]
  /\ events \in Seq(Orders)
  /\ clock \in 0..MaxTime
  /\ submits \in [Orders -> 0..MaxTime \cup {None}]
  /\ waits \in [Orders -> Seq(0..Highest)]
  /\ trips \in [Orders -> Seq(0..Highest)]
  /\ gateway \in {"place", "placed", "record"} => inHand.gateway # None
  /\ listener = "fill" => inHand.listener # None

\* Nothing is known of the order's round trip yet, nor of its wait.
Unsubmitted(i) == submits[i] = None /\ trips[i] = <<>>
Waiting(i) == waits[i] = <<>> /\ Unsubmitted(i)

\* An order is queued, popped, submitted and filled for the first time once,
\* in this order.
Once ==
  /\ \A i \in Orders : consumer[i] \in {"none", "loop", "push"} =>
       Waiting(i) /\ \A k \in 1..Len(queue) : queue[k] # i
  /\ \A i \in Orders, k \in 1..Len(queue) : queue[k] = i => Waiting(i)
  /\ \A k, l \in 1..Len(queue) : queue[k] = queue[l] => k = l
  /\ \A i \in Orders : inHand.gateway = i =>
       /\ Unsubmitted(i) /\ consumer[i] \notin {"none", "loop", "push"}
       /\ \A k \in 1..Len(queue) : queue[k] # i
  /\ \A i \in Orders : submits[i] # None => trips[i] = <<>>
  /\ OneTripPerOrder

\* No reading of the clock is ahead of it.
InThePast ==
  /\ \A i \in Orders : queuedAt[i] <= clock /\ submits[i] <= clock
  /\ stamp.gateway <= clock /\ stamp.listener <= clock

Measured == WorkTypes /\ Once /\ InThePast

\* Nothing has been measured at first.
LEMMA InitMeasured == Init => Measured
<1> SUFFICES ASSUME Init PROVE Measured
  OBVIOUS
<1> USE DEF Init, InitTracker
<1>1. WorkTypes
  BY EngineAssumption DEF WorkTypes, None
<1>3. Once
  BY DEF Once, Waiting, Unsubmitted, OneTripPerOrder, None
<1>4. InThePast
  BY EngineAssumption DEF InThePast, None
<1> QED
  BY <1>1, <1>3, <1>4 DEF Measured

\* Steps of main and ends of threads leave the work alone.
LEMMA MeasuredStays ==
  ASSUME Measured, UNCHANGED <<workVars, trackerVars, clock>>,
         gateway' \in {"place", "placed", "record"} => gateway' = gateway,
         listener' = "fill" => listener' = listener,
         \A i \in Orders : consumer'[i] \in {"none", "loop", "push"} =>
                             consumer[i] \in {"none", "loop", "push"}
  PROVE  Measured'
<1>1. WorkTypes'
  BY DEF Measured, WorkTypes, workVars, trackerVars
<1>2. Once'
  BY DEF Measured, Once, Waiting, Unsubmitted, OneTripPerOrder, workVars, trackerVars
<1>3. InThePast'
  BY DEF Measured, InThePast, workVars, trackerVars
<1> QED
  BY <1>1, <1>2, <1>3 DEF Measured

\* The consumer that main launches was not launched before.
LEMMA LaunchMeasured ==
  ASSUME Inv, Measured, LaunchConsumer
  PROVE  Measured'
<1>1. consumer \in [Orders -> {"none", "loop", "push", "idle", "ended", "joined"}]
  BY DEF Inv, ThreadTypes
<1>2. \A i \in Orders : consumer'[i] \in {"none", "loop", "push"} =>
                          consumer[i] \in {"none", "loop", "push"}
  BY <1>1 DEF LaunchConsumer, LoopAt
<1> QED
  BY <1>2, MeasuredStays DEF LaunchConsumer

\* Steps of main that launch no consumer, and ends of threads.
LEMMA OtherMeasured ==
  ASSUME Inv, Measured, UNCHANGED <<workVars, trackerVars, clock>>,
         gateway' \in {"place", "placed", "record"} => gateway' = gateway,
         listener' = "fill" => listener' = listener,
         \A i \in Orders :
           consumer'[i] = consumer[i] \/ consumer'[i] \in {"ended", "joined"}
  PROVE  Measured'
BY ZenonT(30), MeasuredStays

\* So main keeps the measurements.
LEMMA MainMeasured ==
  ASSUME Inv, Measured, Main
  PROVE  Measured'
<1>0. consumer \in [Orders -> {"none", "loop", "push", "idle", "ended", "joined"}]
  BY DEF Inv, ThreadTypes
<1>1. CASE LaunchConsumer
  BY <1>1, LaunchMeasured
<1>2. CASE Configure \/ ConfigureFails \/ ConstructFails
  BY <1>2, OtherMeasured
  DEF Configure, ConfigureFails, ConstructFails, Starting, threadVars, mainVars
<1>3. CASE Construct
  <2>1. NoThread'
    BY <1>3 DEF Construct, threadVars, Inv, Progress, NoThread
  <2> QED
    BY <1>3, <2>1, OtherMeasured DEF Construct, threadVars
<1>4. CASE StartListener \/ StartPublisher \/ BindFails \/ LaunchGateway
           \/ LaunchFails \/ LaunchEnds
  BY <1>4, OtherMeasured
  DEF StartListener, StartPublisher, BindFails, LaunchGateway, LaunchFails,
      LaunchEnds, Starting, threadVars
<1>5. CASE MainLoopEnds \/ StopPublisher \/ JoinConsumers \/ StopListener
           \/ JoinGateway \/ Dump \/ Destructor \/ Destroy
  BY <1>0, <1>5, OtherMeasured
  DEF MainLoopEnds, StopPublisher, JoinConsumers, StopListener, JoinGateway,
      Dump, Destructor, Destroy, Starting, threadVars
<1> QED
  BY <1>1, <1>2, <1>3, <1>4, <1>5 DEF Main

\* A consumer stamps and pushes its order before anything else is known of it.
LEMMA ConsumerMeasured ==
  ASSUME Inv, Measured, NEW i \in Orders, Consumer(i)
  PROVE  Measured'
<1>0. consumer \in [Orders -> {"none", "loop", "push", "idle", "ended", "joined"}]
  BY DEF Inv, ThreadTypes
<1>1. CASE ConsumerTakesEvent(i)
  <2> USE DEF ConsumerTakesEvent
  <2>1. WorkTypes'
    BY <1>1 DEF Measured, WorkTypes, trackerVars
  <2>3. Once'
    BY <1>0, <1>1 DEF Measured, Once, Waiting, Unsubmitted, OneTripPerOrder, trackerVars
  <2>4. InThePast'
    BY <1>1 DEF Measured, WorkTypes, InThePast, trackerVars
  <2> QED
    BY Zenon, <2>1, <2>3, <2>4 DEF Measured
<1>2. CASE ConsumerPushes(i)
  <2> USE DEF ConsumerPushes
  <2>0. queue \in Seq(Orders) /\ queue' = Append(queue, i)
    BY <1>2 DEF Measured, WorkTypes
  <2>1. WorkTypes'
    BY <1>2 DEF Measured, WorkTypes, trackerVars
  <2>3. /\ Len(queue') = Len(queue) + 1 /\ Len(queue) \in Nat
        /\ \A k \in 1..Len(queue) : queue'[k] = queue[k]
        /\ queue'[Len(queue) + 1] = i
    BY <2>0
  <2>4. \A j \in Orders : consumer'[j] \in {"none", "loop", "push"} =>
          j # i /\ consumer[j] \in {"none", "loop", "push"}
    BY <1>0, <1>2
  <2>5. Waiting(i) /\ \A k \in 1..Len(queue) : queue[k] # i
    BY <1>2 DEF Measured, Once
  <2>6. \A j \in Orders : (Waiting(j)' <=> Waiting(j)) /\ (Unsubmitted(j)' <=> Unsubmitted(j))
    BY <1>2 DEF Waiting, Unsubmitted, trackerVars
  <2>7. Once'
    <3>1. \A j \in Orders : consumer'[j] \in {"none", "loop", "push"} =>
            Waiting(j)' /\ \A k \in 1..Len(queue') : queue'[k] # j
      BY <2>3, <2>4, <2>6 DEF Measured, Once
    <3>2. \A j \in Orders, k \in 1..Len(queue') : queue'[k] = j => Waiting(j)'
      BY <2>3, <2>5, <2>6 DEF Measured, Once
    <3>3. \A k, l \in 1..Len(queue') : queue'[k] = queue'[l] => k = l
      BY <2>3, <2>5 DEF Measured, Once
    <3>4. OneTripPerOrder' /\ \A j \in Orders : submits'[j] # None => trips'[j] = <<>>
      BY <1>2 DEF Measured, Once, OneTripPerOrder, trackerVars
    <3>5. \A j \in Orders : inHand'.gateway = j =>
            /\ Unsubmitted(j)' /\ consumer'[j] \notin {"none", "loop", "push"}
            /\ \A k \in 1..Len(queue') : queue'[k] # j
      <4> SUFFICES ASSUME NEW j \in Orders, inHand.gateway = j
                   PROVE  /\ Unsubmitted(j)'
                          /\ consumer'[j] \notin {"none", "loop", "push"}
                          /\ \A k \in 1..Len(queue') : queue'[k] # j
        BY <1>2
      <4>1. /\ Unsubmitted(j) /\ consumer[j] \notin {"none", "loop", "push"}
            /\ \A k \in 1..Len(queue) : queue[k] # j
        BY DEF Measured, Once
      <4>2. j # i
        BY <1>2, <4>1
      <4> QED
        BY <2>3, <2>4, <2>6, <4>1, <4>2
    <3> QED
      BY <3>1, <3>2, <3>3, <3>4, <3>5 DEF Once
  <2>8. InThePast'
    BY <1>2 DEF Measured, InThePast, trackerVars
  <2> QED
    BY <2>1, <2>7, <2>8 DEF Measured
<1>3. CASE ConsumerEnds(i)
  BY <1>0, <1>3, OtherMeasured DEF ConsumerEnds
<1> QED
  BY <1>1, <1>2, <1>3 DEF Consumer

\* The gateway measures the wait of an order when it pops it.
LEMMA PopMeasured ==
  ASSUME Inv, Measured, GatewayPops
  PROVE  Measured'
<1> USE DEF GatewayPops, Record
<1>0. WorkTypes /\ Once /\ InThePast
  BY DEF Measured
<1>1. queue \in Seq(Orders) /\ queue # <<>>
  BY <1>0 DEF WorkTypes
<1>2. PICK i \in Orders : i = Head(queue)
  BY <1>1
<1>3. /\ Len(queue) \in Nat /\ Len(queue) >= 1 /\ queue[1] = i
      /\ queue' \in Seq(Orders) /\ Len(queue') = Len(queue) - 1
      /\ \A k \in 1..Len(queue') : queue'[k] = queue[k + 1]
  BY <1>1, <1>2
<1>4. /\ Waiting(i)
      /\ \A k \in 1..Len(queue') : queue'[k] # i
      /\ consumer[i] \notin {"none", "loop", "push"}
  BY <1>0, <1>2, <1>3 DEF Once
<1>7. /\ waits' \in [Orders -> Seq(0..Highest)]
      /\ \A j \in Orders \ {i} : waits'[j] = waits[j]
  <2>1. waits \in [Orders -> Seq(0..Highest)]
    BY <1>0 DEF WorkTypes
  <2>2. \/ waits' = waits
        \/ \E w \in 0..Highest : waits' = [waits EXCEPT ![i] = Append(@, w)]
    BY Zenon, <1>2 DEF Recorded
  <2>3. ASSUME NEW w \in 0..Highest, waits' = [waits EXCEPT ![i] = Append(@, w)]
        PROVE  /\ waits' \in [Orders -> Seq(0..Highest)]
               /\ \A j \in Orders \ {i} : waits'[j] = waits[j]
    <3>1. Append(waits[i], w) \in Seq(0..Highest)
      BY <2>1
    <3> QED
      BY Zenon, <2>1, <2>3, <3>1
  <2> QED
    BY Zenon, <2>1, <2>2, <2>3
<1>8. WorkTypes'
  <2>1. waits' \in [Orders -> Seq(0..Highest)]
    BY <1>7
  <2>4. queuedAt' \in [Orders -> 0..MaxTime]
    BY <1>0, <1>2, EngineAssumption DEF WorkTypes
  <2>2. /\ inHand' \in [gateway : Orders \cup {None}, listener : Orders \cup {None}]
        /\ inHand'.gateway = i /\ inHand'.listener = inHand.listener
    BY Zenon, <1>0, <1>2 DEF WorkTypes
  <2>3. i # None
    BY EngineAssumption DEF None
  <2> QED
    BY Zenon, <1>0, <1>3, <2>1, <2>2, <2>3, <2>4 DEF WorkTypes
<1>10. Once'
  <2>1. \A j \in Orders \ {i} : Waiting(j)' <=> Waiting(j)
    BY <1>7 DEF Waiting, Unsubmitted
  <2>2. \A j \in Orders : Unsubmitted(j)' <=> Unsubmitted(j)
    BY DEF Unsubmitted
  <2>3. \A j \in Orders : consumer'[j] \in {"none", "loop", "push"} =>
          Waiting(j)' /\ \A k \in 1..Len(queue') : queue'[k] # j
    BY <1>0, <1>3, <1>4, <2>1 DEF Once
  <2>4. \A j \in Orders, k \in 1..Len(queue') : queue'[k] = j => Waiting(j)'
    BY <1>0, <1>3, <1>4, <2>1 DEF Once
  <2>5. \A k, l \in 1..Len(queue') : queue'[k] = queue'[l] => k = l
    <3> SUFFICES ASSUME NEW k \in 1..Len(queue'), NEW l \in 1..Len(queue'),
                        queue'[k] = queue'[l]
                 PROVE  k = l
      OBVIOUS
    <3>1. k + 1 \in 1..Len(queue) /\ l + 1 \in 1..Len(queue) /\ queue[k + 1] = queue[l + 1]
      BY <1>3
    <3>2. k + 1 = l + 1
      BY <1>0, <3>1 DEF Once
    <3> QED
      BY <3>2
  <2>6. inHand'.gateway = i
    BY <1>0, <1>2 DEF WorkTypes
  <2>7. \A j \in Orders : inHand'.gateway = j =>
          /\ Unsubmitted(j)' /\ consumer'[j] \notin {"none", "loop", "push"}
          /\ \A k \in 1..Len(queue') : queue'[k] # j
    BY <1>4, <2>2, <2>6 DEF Waiting
  <2>9. OneTripPerOrder' /\ \A j \in Orders : submits'[j] # None => trips'[j] = <<>>
    BY <1>0 DEF Once, OneTripPerOrder
  <2> QED
    BY <2>3, <2>4, <2>5, <2>7, <2>9 DEF Once
<1>11. InThePast'
  BY <1>0, <1>2, EngineAssumption DEF InThePast, WorkTypes
<1> QED
  BY <1>8, <1>10, <1>11 DEF Measured

\* Steps that leave the queue and the measurements of every order alone.
LEMMA OnceStays ==
  ASSUME Once, consumer' = consumer, queue' = queue, trackerVars' = trackerVars,
         clock <= clock',
         clock \in Int, clock' \in Int,
         trips \in [Orders -> Seq(0..Highest)],
         \A i \in Orders : inHand'.gateway = i => inHand.gateway = i
  PROVE  Once'
<1>1. \A i \in Orders : (Waiting(i)' <=> Waiting(i)) /\ (Unsubmitted(i)' <=> Unsubmitted(i))
  BY DEF Waiting, Unsubmitted, trackerVars
<1>2. OneTripPerOrder'
  <2> SUFFICES ASSUME NEW i \in Orders
               PROVE  /\ Len(trips[i]) <= 1
                      /\ \A k \in DOMAIN trips[i] : trips[i][k] \in 0..clock'
    BY DEF OneTripPerOrder, trackerVars
  <2>1. \A k \in DOMAIN trips[i] : trips[i][k] \in 0..clock
    BY DEF Once, OneTripPerOrder
  <2> QED
    BY <2>1 DEF Once, OneTripPerOrder
<1> QED
  BY <1>1, <1>2 DEF Once, trackerVars

\* recordOrderSubmit is called once for an order, before a round trip of it
\* is measured.
LEMMA SubmitMeasured ==
  ASSUME Inv, Measured, GatewayRecords
  PROVE  Measured'
<1> USE DEF GatewayRecords, RecordOrderSubmit
<1>0. WorkTypes /\ Once /\ InThePast
  BY DEF Measured
<1>1. PICK i \in Orders : i = inHand.gateway
  BY <1>0 DEF WorkTypes
<1>2. /\ stamp.gateway \in 0..MaxTime /\ stamp.gateway <= clock
      /\ submits \in [Orders -> 0..MaxTime \cup {None}]
  BY <1>0 DEF WorkTypes, InThePast
<1>3. submits' = [submits EXCEPT ![i] = stamp.gateway]
  BY <1>1
<1>4. /\ Unsubmitted(i) /\ consumer[i] \notin {"none", "loop", "push"}
      /\ \A k \in 1..Len(queue) : queue[k] # i
  BY <1>0, <1>1 DEF Once
<1>5. inHand'.gateway = None /\ stamp'.gateway = 0
  BY <1>0 DEF WorkTypes
<1>6. WorkTypes'
  <2>1. submits' \in [Orders -> 0..MaxTime \cup {None}]
    BY Zenon, <1>2, <1>3
  <2>2. /\ inHand' \in [gateway : Orders \cup {None}, listener : Orders \cup {None}]
        /\ inHand'.listener = inHand.listener
    BY Zenon, <1>0 DEF WorkTypes
  <2>3. stamp' \in [gateway : 0..MaxTime, listener : 0..MaxTime]
    <3>1. 0 \in 0..MaxTime
      BY EngineAssumption
    <3> QED
      BY Zenon, <1>0, <3>1 DEF WorkTypes
  <2> QED
    BY Zenon, <1>0, <2>1, <2>2, <2>3 DEF WorkTypes
<1>8. Once'
  <2>1. \A j \in Orders \ {i} : /\ Unsubmitted(j)' <=> Unsubmitted(j)
                                /\ Waiting(j)' <=> Waiting(j)
    BY <1>2, <1>3 DEF Unsubmitted, Waiting
  <2>3. \A j \in Orders : consumer'[j] \in {"none", "loop", "push"} =>
          Waiting(j)' /\ \A k \in 1..Len(queue') : queue'[k] # j
    BY <1>0, <1>4, <2>1 DEF Once
  <2>4. \A j \in Orders, k \in 1..Len(queue') : queue'[k] = j => Waiting(j)'
    BY <1>0, <1>4, <2>1 DEF Once
  <2>5. \A k, l \in 1..Len(queue') : queue'[k] = queue'[l] => k = l
    BY <1>0 DEF Once
  <2>6. \A j \in Orders : inHand'.gateway # j
    BY <1>5, EngineAssumption DEF None
  <2>8. \A j \in Orders : submits'[j] # None => trips'[j] = <<>>
    BY <1>0, <1>2, <1>3, <1>4 DEF Once, Unsubmitted
  <2>9. OneTripPerOrder'
    BY <1>0 DEF Once, OneTripPerOrder
  <2> QED
    BY <2>3, <2>4, <2>5, <2>6, <2>8, <2>9 DEF Once
<1>9. InThePast'
  BY <1>0, <1>2, <1>3, <1>5 DEF InThePast, WorkTypes
<1> QED
  BY <1>6, <1>8, <1>9 DEF Measured

\* The gateway.
LEMMA GatewayMeasured ==
  ASSUME Inv, Measured, Gateway
  PROVE  Measured'
<1>0. WorkTypes /\ Once /\ InThePast
  BY DEF Measured
<1>1. CASE GatewayPops
  BY <1>1, PopMeasured
<1>2. CASE GatewayRecords
  BY <1>2, SubmitMeasured
<1>3. CASE GatewayEnds
  BY <1>3, OtherMeasured DEF GatewayEnds
<1>4. CASE GatewayPlaces \/ GatewayDrops \/ GatewayReadsClock
  <2> USE DEF GatewayPlaces, GatewayDrops, GatewayReadsClock
  <2>0. clock \in 0..MaxTime /\ clock' = clock /\ UNCHANGED <<queue, consumer, main, trackerVars>>
    BY <1>0, <1>4 DEF WorkTypes
  <2>1. WorkTypes'
    <3>1. CASE GatewayPlaces
      BY <1>0, <3>1 DEF WorkTypes, trackerVars
    <3>2. CASE GatewayDrops
      BY Zenon, <1>0, <3>2 DEF WorkTypes, trackerVars
    <3>3. CASE GatewayReadsClock
      BY Zenon, <1>0, <3>3 DEF WorkTypes, trackerVars
    <3> QED
      BY <1>4, <3>1, <3>2, <3>3
  <2>3. Once'
    <3>1. \A i \in Orders : inHand'.gateway = i => inHand.gateway = i
      <4>1. inHand \in [gateway : Orders \cup {None}, listener : Orders \cup {None}]
        BY <1>0 DEF WorkTypes
      <4>2. None \notin Orders
        BY EngineAssumption DEF None
      <4>3. CASE GatewayPlaces \/ GatewayReadsClock
        <5>1. inHand' = inHand
          BY <4>3
        <5> QED
          BY <5>1
      <4>4. CASE GatewayDrops
        <5>1. inHand' = [inHand EXCEPT !.gateway = None]
          BY <4>4
        <5>2. inHand'.gateway = None
          BY <4>1, <5>1
        <5> QED
          BY <4>2, <5>1, <5>2
      <4> QED
        BY <1>4, <4>3, <4>4
    <3>2. /\ trips \in [Orders -> Seq(0..Highest)]
          /\ clock \in Int /\ clock' \in Int /\ clock <= clock'
      BY <1>0, <2>0 DEF WorkTypes
    <3>3. consumer' = consumer /\ queue' = queue /\ trackerVars' = trackerVars
      BY <2>0
    <3> QED
      BY ZenonT(30), <1>0, <3>1, <3>2, <3>3, OnceStays
  <2>4. InThePast'
    <3>1. UNCHANGED <<queuedAt, submits>>
      BY <1>4 DEF trackerVars
    <3>2. stamp'.gateway <= clock /\ stamp'.listener <= clock
      <4>1. /\ stamp \in [gateway : 0..MaxTime, listener : 0..MaxTime]
            /\ clock \in 0..MaxTime
            /\ stamp.gateway <= clock /\ stamp.listener <= clock
        BY <1>0 DEF InThePast, WorkTypes
      <4>2. stamp' = stamp \/ stamp' = [stamp EXCEPT !.gateway = clock]
        BY <1>4
      <4> QED
        BY <4>1, <4>2
    <3> QED
      BY <1>0, <2>0, <3>1, <3>2 DEF InThePast
  <2> QED
    BY <2>1, <2>3, <2>4 DEF Measured
<1> QED
  BY <1>1, <1>2, <1>3, <1>4 DEF Gateway

\* recordFillReceived measures the first fill after the submission, erases the
\* entry, and the histogram refuses a time that has not passed.
LEMMA FillMeasured ==
  ASSUME Inv, Measured, ListenerRecords
  PROVE  Measured'
<1> USE DEF ListenerRecords, RecordFillReceived
<1>0. WorkTypes /\ Once /\ InThePast
  BY DEF Measured
<1>1. PICK i \in Orders : i = inHand.listener
  BY <1>0 DEF WorkTypes
<1>2. /\ clock \in 0..MaxTime /\ clock' = clock
      /\ submits \in [Orders -> 0..MaxTime \cup {None}]
      /\ trips \in [Orders -> Seq(0..Highest)]
      /\ Len(trips[i]) <= 1
      /\ \A k \in DOMAIN trips[i] : trips[i][k] \in 0..clock
  BY <1>0, <1>1 DEF WorkTypes, Once, OneTripPerOrder
<1>3. submits' = [submits EXCEPT ![i] = None]
  BY <1>1
<1>4. \/ trips' = trips
      \/ \E t \in 0..clock : /\ t \in 0..Highest /\ submits[i] # None
                             /\ trips' = [trips EXCEPT ![i] = Append(@, t)]
  <2>1. CASE submits[i] = None
    BY <1>1, <2>1
  <2>2. CASE submits[i] # None
    <3>1. PICK t : t = Elapsed(submits[i], stamp.listener)
      OBVIOUS
    <3>2. /\ submits[i] \in 0..MaxTime /\ stamp.listener \in 0..MaxTime
          /\ stamp.listener <= clock
      BY <1>0, <1>2, <2>2 DEF WorkTypes, InThePast
    <3>3. t = stamp.listener - submits[i]
      BY <3>1, <3>2, ElapsedIs
    <3>4. trips' = Recorded(trips, i, t)
      BY <1>1, <2>2, <3>1
    <3>5. t \in 0..Highest => t \in 0..clock
      BY <1>2, <3>2, <3>3
    <3> QED
      BY Zenon, <2>2, <3>4, <3>5 DEF Recorded
  <2> QED
    BY Zenon, <2>1, <2>2
<1>5. /\ trips' \in [Orders -> Seq(0..Highest)]
      /\ \A j \in Orders \ {i} : trips'[j] = trips[j]
      /\ submits[i] = None => trips' = trips
  <2>1. CASE trips' = trips
    BY <1>2, <2>1
  <2>2. ASSUME NEW t \in 0..Highest, submits[i] # None,
               trips' = [trips EXCEPT ![i] = Append(@, t)]
        PROVE  /\ trips' \in [Orders -> Seq(0..Highest)]
               /\ \A j \in Orders \ {i} : trips'[j] = trips[j]
    <3>1. Append(trips[i], t) \in Seq(0..Highest)
      BY <1>2
    <3> QED
      BY Zenon, <1>2, <2>2, <3>1
  <2> QED
    BY Zenon, <1>4, <2>1, <2>2
<1>6. Len(trips'[i]) <= 1 /\ \A k \in DOMAIN trips'[i] : trips'[i][k] \in 0..clock
  <2>1. CASE trips' = trips
    BY <1>2, <2>1
  <2>2. CASE \E t \in 0..clock : /\ t \in 0..Highest /\ submits[i] # None
                                 /\ trips' = [trips EXCEPT ![i] = Append(@, t)]
    <3>1. PICK t \in 0..clock : /\ t \in 0..Highest /\ submits[i] # None
                                /\ trips' = [trips EXCEPT ![i] = Append(@, t)]
      BY Zenon, <2>2
    <3>2. trips[i] = <<>>
      BY <1>0, <3>1 DEF Once
    <3>3. trips'[i] = Append(<<>>, t)
      BY Zenon, <1>2, <3>1, <3>2
    <3>4. Len(Append(<<>>, t)) = 1 /\ DOMAIN Append(<<>>, t) = 1..1 /\ Append(<<>>, t)[1] = t
      OBVIOUS
    <3>5. \A k \in 1..1 : k = 1
      OBVIOUS
    <3>6. Len(Append(<<>>, t)) <= 1
      BY ONLY <3>4
    <3> QED
      BY ZenonT(30), <3>1, <3>3, <3>4, <3>5, <3>6
  <2> QED
    BY <1>4, <2>1, <2>2
<1>7. WorkTypes'
  <2>1. submits' \in [Orders -> 0..MaxTime \cup {None}]
    BY Zenon, <1>2, <1>3
  <2>2. /\ inHand' \in [gateway : Orders \cup {None}, listener : Orders \cup {None}]
        /\ inHand'.gateway = inHand.gateway
    BY Zenon, <1>0 DEF WorkTypes
  <2>3. stamp' \in [gateway : 0..MaxTime, listener : 0..MaxTime]
    <3>1. 0 \in 0..MaxTime
      BY EngineAssumption
    <3> QED
      BY Zenon, <1>0, <3>1 DEF WorkTypes
  <2> QED
    BY Zenon, <1>0, <1>5, <2>1, <2>2, <2>3 DEF WorkTypes
<1>9. Once'
  <2>1. \A j \in Orders : Unsubmitted(j) => Unsubmitted(j)'
    BY <1>2, <1>3, <1>5 DEF Unsubmitted
  <2>2. \A j \in Orders : Waiting(j) => Waiting(j)'
    BY <2>1 DEF Waiting
  <2>3. inHand'.gateway = inHand.gateway
    BY <1>0 DEF WorkTypes
  <2>4. /\ \A j \in Orders : consumer'[j] \in {"none", "loop", "push"} =>
             Waiting(j)' /\ \A k \in 1..Len(queue') : queue'[k] # j
        /\ \A j \in Orders, k \in 1..Len(queue') : queue'[k] = j => Waiting(j)'
        /\ \A k, l \in 1..Len(queue') : queue'[k] = queue'[l] => k = l
    BY <1>0, <2>2 DEF Once
  <2>5. \A j \in Orders : inHand'.gateway = j =>
          /\ Unsubmitted(j)' /\ consumer'[j] \notin {"none", "loop", "push"}
          /\ \A k \in 1..Len(queue') : queue'[k] # j
    BY <1>0, <2>1, <2>3 DEF Once
  <2>6. \A j \in Orders : submits'[j] # None => trips'[j] = <<>>
    BY <1>0, <1>2, <1>3, <1>5 DEF Once
  <2>7. OneTripPerOrder'
    BY <1>0, <1>2, <1>5, <1>6 DEF Once, OneTripPerOrder
  <2> QED
    BY <2>4, <2>5, <2>6, <2>7 DEF Once
<1>10. InThePast'
  <2>1. \A j \in Orders : submits'[j] <= clock
    BY <1>0, <1>2, <1>3 DEF InThePast, None
  <2>2. stamp'.gateway <= clock /\ stamp'.listener <= clock
    BY <1>0, <1>2 DEF InThePast, WorkTypes
  <2> QED
    BY <1>0, <1>2, <2>1, <2>2 DEF InThePast
<1> QED
  BY <1>7, <1>9, <1>10 DEF Measured

\* The listener's other steps, the broker's fills and the clock.
LEMMA RestMeasured ==
  ASSUME Inv, Measured,
         ListenerTakesFill \/ ListenerIgnores \/ Tick
           \/ \E i \in Orders : BrokerFills(i)
  PROVE  Measured'
<1>0. WorkTypes /\ Once /\ InThePast
  BY DEF Measured
<1>1. /\ UNCHANGED <<main, consumer, gateway, queue, queuedAt, sent, submits, waits, trips>>
      /\ UNCHANGED trackerVars
  BY DEF ListenerTakesFill, ListenerIgnores, Tick, BrokerFills, threadVars,
         workVars, trackerVars
<1>2. clock \in 0..MaxTime /\ clock' \in 0..MaxTime /\ clock <= clock'
  <2>1. clock \in 0..MaxTime /\ MaxTime \in Nat
    BY <1>0, EngineAssumption DEF WorkTypes
  <2>2. CASE Tick
    BY <2>1, <2>2 DEF Tick
  <2>3. CASE ListenerTakesFill \/ ListenerIgnores \/ \E i \in Orders : BrokerFills(i)
    <3>1. clock' = clock
      BY Zenon, <2>3 DEF ListenerTakesFill, ListenerIgnores, BrokerFills
    <3> QED
      BY <2>1, <3>1
  <2> QED
    BY <2>2, <2>3
<1>3. /\ events \in Seq(Orders)
      /\ stamp \in [gateway : 0..MaxTime, listener : 0..MaxTime]
      /\ inHand \in [gateway : Orders \cup {None}, listener : Orders \cup {None}]
      /\ waits \in [Orders -> Seq(0..Highest)]
      /\ trips \in [Orders -> Seq(0..Highest)]
      /\ stamp.gateway <= clock /\ stamp.listener <= clock
  BY <1>0 DEF WorkTypes, InThePast
<1>4. /\ events' \in Seq(Orders)
      /\ fills' \in [Orders -> Nat] /\ \A i \in Orders : fills'[i] <= MaxFills[i]
  <2>1. CASE ListenerTakesFill \/ ListenerIgnores \/ Tick
    <3>1. fills' = fills
      BY <2>1 DEF ListenerTakesFill, ListenerIgnores, Tick, workVars
    <3>2. events' = events \/ (events # <<>> /\ events' = Tail(events))
      BY <2>1 DEF ListenerTakesFill, ListenerIgnores, Tick, workVars
    <3>3. events # <<>> => Tail(events) \in Seq(Orders)
      BY <1>3
    <3>4. events' \in Seq(Orders)
      BY ZenonT(30), <1>3, <3>2, <3>3
    <3> QED
      BY <1>0, <3>1, <3>4 DEF WorkTypes
  <2>2. ASSUME NEW i \in Orders, BrokerFills(i)
        PROVE  /\ events' \in Seq(Orders)
               /\ fills' \in [Orders -> Nat] /\ \A j \in Orders : fills'[j] <= MaxFills[j]
    <3>1. events' \in Seq(Orders)
      BY <1>3, <2>2 DEF BrokerFills
    <3>2. /\ fills \in [Orders -> Nat] /\ MaxFills \in [Orders -> Nat]
          /\ \A j \in Orders : fills[j] <= MaxFills[j]
      BY Zenon, <1>0, EngineAssumption DEF WorkTypes
    <3>3. fills' = [fills EXCEPT ![i] = fills[i] + 1] /\ fills[i] < MaxFills[i]
      BY <2>2 DEF BrokerFills
    <3>4. fills' \in [Orders -> Nat] /\ \A j \in Orders : fills'[j] <= MaxFills[j]
      BY <3>2, <3>3
    <3> QED
      BY <3>1, <3>4
  <2> QED
    BY <2>1, <2>2
<1>5. /\ stamp' \in [gateway : 0..MaxTime, listener : 0..MaxTime]
      /\ stamp'.gateway <= clock' /\ stamp'.listener <= clock'
  <2>1. stamp' = stamp \/ stamp' = [stamp EXCEPT !.listener = clock]
    BY DEF ListenerTakesFill, ListenerIgnores, Tick, BrokerFills, workVars
  <2>2. CASE stamp' = stamp
    <3>1. stamp.gateway \in 0..MaxTime /\ stamp.listener \in 0..MaxTime
      BY <1>3
    <3> QED
      BY <1>2, <1>3, <2>2, <3>1
  <2>3. CASE stamp' = [stamp EXCEPT !.listener = clock]
    <3>1. stamp.gateway \in 0..MaxTime /\ stamp'.gateway = stamp.gateway /\ stamp'.listener = clock
      BY <1>3, <2>3
    <3>2. stamp' \in [gateway : 0..MaxTime, listener : 0..MaxTime]
      BY Zenon, <1>2, <1>3, <2>3
    <3> QED
      BY <1>2, <1>3, <3>1, <3>2
  <2> QED
    BY <2>1, <2>2, <2>3
<1>6. /\ inHand' \in [gateway : Orders \cup {None}, listener : Orders \cup {None}]
      /\ inHand'.gateway = inHand.gateway
      /\ listener' = "fill" => inHand'.listener # None
  <2>1. CASE ListenerTakesFill
    <3>1. PICK i \in Orders : i = Head(events)
      BY <1>3, <2>1 DEF ListenerTakesFill
    <3>2. i # None
      BY EngineAssumption DEF None
    <3> QED
      BY Zenon, <1>3, <2>1, <3>1, <3>2 DEF ListenerTakesFill
  <2>2. CASE ~ListenerTakesFill
    BY Zenon, <1>0, <1>3, <2>2
    DEF WorkTypes, ListenerIgnores, Tick, BrokerFills, threadVars, workVars
  <2> QED
    BY <2>1, <2>2
<1>7. WorkTypes'
  BY Zenon, <1>0, <1>1, <1>2, <1>4, <1>5, <1>6 DEF WorkTypes
<1>9. Once'
  <2>1. /\ clock \in Int /\ clock' \in Int
        /\ \A i \in Orders : inHand'.gateway = i => inHand.gateway = i
    BY <1>1, <1>2, <1>6
  <2> QED
    BY ZenonT(30), <1>0, <1>1, <1>2, <1>3, <2>1, OnceStays
<1>10. InThePast'
  <2>1. \A i \in Orders : queuedAt[i] \in 0..MaxTime /\ submits[i] \in 0..MaxTime \cup {None}
    BY <1>0 DEF WorkTypes
  <2> QED
    BY <1>0, <1>1, <1>2, <1>5, <2>1 DEF InThePast, None
<1> QED
  BY <1>7, <1>9, <1>10 DEF Measured

\* Every step keeps the measurements.
LEMMA NextMeasured == Inv /\ Measured /\ [Next]_vars => Measured'
<1> SUFFICES ASSUME Inv, Measured, [Next]_vars PROVE Measured'
  OBVIOUS
<1>1. CASE Main
  BY <1>1, MainMeasured
<1>2. ASSUME NEW i \in Orders, Consumer(i) PROVE Measured'
  BY <1>2, ConsumerMeasured
<1>3. CASE Gateway
  BY <1>3, GatewayMeasured
<1>4. CASE ListenerRecords
  BY <1>4, FillMeasured
<1>5. CASE ListenerTakesFill \/ ListenerIgnores \/ Tick \/ \E i \in Orders : BrokerFills(i)
  BY <1>5, RestMeasured
<1>6. CASE ListenerEnds \/ SourceEnds \/ SignalHandler \/ SignalStores
  BY <1>6, OtherMeasured
  DEF ListenerEnds, SourceEnds, SignalHandler, SignalStores, threadVars
<1>7. CASE UNCHANGED vars
  BY <1>7, OtherMeasured DEF vars, threadVars
<1> QED
  BY ZenonT(30), <1>1, <1>2, <1>3, <1>4, <1>5, <1>6, <1>7 DEF Next, Listener, Terminated

\* All three invariants hold in every behaviour.
LEMMA MeasuredInvariance == Spec => [](Inv /\ Configured /\ Measured)
BY InitInv, NextInv, InitConfigured, NextConfigured, InitMeasured, NextMeasured,
   PTL DEF Spec

\* Every variable keeps its type, for any configuration and any number of
\* orders: the cooldown holds the first symbols, and every sample fits.
THEOREM TypeCorrect == Spec => []TypeOK
<1>1. Inv /\ Configured /\ Measured => TypeOK
  <2> SUFFICES ASSUME Inv, Configured, Measured PROVE TypeOK
    OBVIOUS
  <2>1. cooldown = SubSeq(symbols, 1, Len(cooldown))
    <3>1. CASE cooldown = <<>>
      BY <3>1, SymbolsType
    <3>2. CASE cooldown = Registered(symbols)
      BY <3>2, SymbolsType, EngineAssumption DEF Registered
    <3> QED
      BY <3>1, <3>2 DEF Configured
  <2>2. symbols \in Files \cup Overrides \cup {<<>>}
    BY DEF Configured
  <2>3. ThreadTypes /\ WorkTypes
    BY DEF Inv, Measured
  <2> QED
    BY Zenon, <2>1, <2>2, <2>3 DEF TypeOK, ThreadTypes, WorkTypes, Phases, Starting,
                            Stopping, Ending
<1> QED
  BY <1>1, MeasuredInvariance, PTL

\* Whichever thread read the clock first, the wait of every order the gateway
\* pops is counted once and as it was, unless it is beyond the histogram.
THEOREM WaitsAreCounted == Spec => OnlyLongWaitsAreMissed
<1>1. Measured /\ [Next]_vars =>
        [\A i \in Orders :
           gateway = "idle" /\ gateway' = "place" /\ inHand'.gateway = i =>
             LET wait == clock - queuedAt[i]
             IN  waits'[i] = IF wait <= Highest THEN <<wait>> ELSE <<>>]_vars
  <2> SUFFICES ASSUME Measured, Next, NEW i \in Orders,
                      gateway = "idle", gateway' = "place", inHand'.gateway = i
               PROVE  waits'[i] = IF clock - queuedAt[i] <= Highest
                                  THEN <<clock - queuedAt[i]>> ELSE <<>>
    OBVIOUS
  <2>1. GatewayPops
    BY ZenonT(30)
    DEF Next, Main, Configure, ConfigureFails, Construct, ConstructFails,
        StartListener, StartPublisher, BindFails, LaunchGateway, LaunchConsumer,
        LaunchFails, LaunchEnds, MainLoopEnds, StopPublisher, JoinConsumers,
        StopListener, JoinGateway, Dump, Destructor, Destroy, SignalHandler,
        SignalStores, Consumer, ConsumerTakesEvent, ConsumerPushes,
        ConsumerEnds, Gateway, GatewayPlaces, GatewayDrops, GatewayReadsClock,
        GatewayRecords, GatewayEnds, Listener, ListenerTakesFill,
        ListenerRecords, ListenerIgnores, ListenerEnds, SourceEnds, BrokerFills,
        Tick, Terminated, threadVars, vars
  <2>2. /\ queue \in Seq(Orders) /\ queue # <<>> /\ inHand'.gateway = Head(queue)
    BY <2>1 DEF GatewayPops, Measured, WorkTypes
  <2>3. i = Head(queue) /\ Waiting(i)
    <3>1. i = Head(queue) /\ 1 \in 1..Len(queue) /\ queue[1] = i
      BY <2>2
    <3> QED
      BY <3>1 DEF Measured, Once
  <2>4. /\ queuedAt[i] \in 0..MaxTime /\ clock \in 0..MaxTime /\ queuedAt[i] <= clock
        /\ MaxTime \in Int /\ Highest \in Nat
    BY EngineAssumption DEF Measured, WorkTypes, InThePast
  <2>5. PICK w \in Nat : w = clock - queuedAt[i]
    BY <2>4
  <2>6. Elapsed(queuedAt[i], clock) = w
    BY <2>4, <2>5, ElapsedIs
  <2>7. waits' = Recorded(waits, i, w)
    BY <2>1, <2>3, <2>6 DEF GatewayPops, Record
  <2>8. waits \in [Orders -> Seq(0..Highest)] /\ waits[i] = <<>>
    BY <2>3 DEF Measured, WorkTypes, Waiting
  <2>9. CASE w <= Highest
    <3>1. waits'[i] = Append(<<>>, w)
      <4>1. w \in 0..Highest
        BY <2>4, <2>9
      <4> QED
        BY Zenon, <2>7, <2>8, <4>1 DEF Recorded
    <3>2. Append(<<>>, w) = <<w>>
      OBVIOUS
    <3> QED
      BY Zenon, <2>5, <2>9, <3>1, <3>2
  <2>10. CASE ~(w <= Highest)
    <3>1. w \notin 0..Highest
      BY <2>4, <2>10
    <3> QED
      BY Zenon, <2>5, <2>7, <2>8, <2>10, <3>1 DEF Recorded
  <2> QED
    BY <2>9, <2>10
<1> QED
  BY <1>1, MeasuredInvariance, PTL DEF Spec, OnlyLongWaitsAreMissed

\* However many fills an order has and however they race recordOrderSubmit,
\* its round trip is counted at most once, with a time that has passed.
THEOREM TripsAreCountedOnce == Spec => []OneTripPerOrder
<1>1. Measured => OneTripPerOrder
  BY Zenon DEF Measured, Once
<1> QED
  BY <1>1, MeasuredInvariance, PTL
=============================================================================
