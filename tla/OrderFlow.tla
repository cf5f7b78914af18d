------------------------------ MODULE OrderFlow ------------------------------
(***************************************************************************)
(* The life of an order, end to end: a consumer thread submits it, the     *)
(* gateway cancels its predecessor and places it, the broker executes or   *)
(* cancels it, and the fill listener, whose connection may drop, counts    *)
(* what happened.  The components share the position counters and the      *)
(* tracker's slots, and run on threads of their own.                       *)
(***************************************************************************)
EXTENDS OrderGateway, FillListener

CONSTANTS
  MaxPosition,     \* max_position_per_symbol
  MaxDisconnects   \* bound: connections lost

ASSUME FlowAssumption == MaxPosition \in Nat /\ MaxDisconnects \in Nat

VARIABLE drops   \* connections lost so far

vars == <<brokerVars, position, slots, gatewayVars, listenerVars, drops>>

Init ==
  /\ BrokerInit
  /\ PositionInit
  /\ TrackerInit
  /\ GatewayInit
  /\ ListenerInit
  /\ drops = 0

-----------------------------------------------------------------------------

\* A risk check that looks at the filled position only.
RiskAllowsFilledOnly(o) ==
  /\ QtyOf[o] <= MaxPosition
  /\ Abs(position[SymbolOf[o]].filled + Signed(o, QtyOf[o])) <= MaxPosition

\* RiskManager::onNewOrder, as far as positions go.  A consumer calls it and
\* onOrderSent without a pause here; RiskGate looks between the loads.
RiskAllows(o) ==
  /\ QtyOf[o] <= MaxPosition
  /\ Abs(TotalExposure(position, SymbolOf[o]) + Signed(o, QtyOf[o]))
       <= MaxPosition

\* MarketEventConsumer::run: the strategy has an order, the risk manager
\* lets it pass, and it is pushed.  Orders of a slot are numbered in turn.
Submit(o) ==
  /\ stage[o] = "new"
  /\ \A p \in Orders : p < o /\ SlotOf(p) = SlotOf(o) => stage[p] # "new"
  /\ RiskAllows(o)
  /\ position' = OnOrderSent(position, o)
  /\ queue' = Append(queue, o)
  /\ stage' = [stage EXCEPT ![o] = "queued"]
  /\ UNCHANGED <<brokerVars, slots, gpc, gorder, gprev, listenerVars, drops>>

\* The gateway; without earlyOrder it has nothing to place before the
\* listener's first authorization.
Gateway ==
  /\ GatewayStep
  /\ gpc = "place" => hasConnected \/ "earlyOrder" \in Faults
  /\ UNCHANGED <<listenerVars, drops>>

\* The listener's blind spot: it has asked for the stream and does not have
\* it yet, or a reconciliation has pages still to query.
InWindow ==
  \/ conn = "listening" /\ ~subscribed
  \/ phase = "query"
  \/ phase = "apply" /\ more

\* The broker executes or ends an order.
BrokerEvent(o) ==
  /\ ~InWindow \/ "eventInWindow" \in Faults
  /\ BrokerCancels(o) \/ \E q \in 1..QtyOf[o] : BrokerFills(o, q)
  /\ UNCHANGED <<position, slots, gatewayVars, listenerVars, drops>>

ConnectionLost ==
  /\ drops < MaxDisconnects
  /\ Disconnect
  /\ drops' = drops + 1
  /\ UNCHANGED gatewayVars

Listener ==
  /\ Session \/ Messages \/ Reconciliation
  /\ UNCHANGED <<gatewayVars, drops>>

\* Everything the session brought has been dealt with: the gateway is idle,
\* no order is live, and the listener has nothing to read.
Idle ==
  /\ queue = <<>>
  /\ gpc = "idle"
  /\ stream = <<>>
  /\ phase = "idle"
  /\ conn = "refused" \/ (conn = "listening" /\ subscribed)
  /\ \A o \in Orders : bstatus[o] # "live"
  /\ UNCHANGED vars

Next ==
  \/ \E o \in Orders : Submit(o) \/ BrokerEvent(o)
  \/ Gateway
  \/ Listener
  \/ ConnectionLost
  \/ Idle

Spec == Init /\ [][Next]_vars

\* The gateway's and the listener's threads run, the WebSocket reconnects,
\* and the broker answers.  Nothing obliges the strategy to trade, the
\* broker to execute, or the connection to drop.
FairSpec == Spec /\ WF_vars(Gateway) /\ WF_vars(Listener)

-----------------------------------------------------------------------------

\* Every variable has its type; the gateway has an order in hand whenever it
\* is not idle, and one to cancel whenever it cancels.
TypeOK ==
  /\ BrokerType
  /\ PositionType
  /\ TrackerType
  /\ GatewayType
  /\ ListenerType
  /\ drops \in Nat

\* An order the gateway gave up although the broker has it: placeOrder's
\* acknowledgement was lost.
Lost(o) == stage[o] = "dropped" /\ bstatus[o] # "none"

\* executeOrder cancels before it replaces: however fills, cancels, replies
\* and reconciliations interleave, the broker never has two orders for the
\* same symbol and side that both may execute and neither of which the
\* gateway has asked to cancel, but for orders whose acknowledgement was
\* lost.
AtMostOneWorking ==
  \A o, p \in Orders :
    /\ SlotOf(o) = SlotOf(p)
    /\ Working(o) /\ ~Lost(o)
    /\ Working(p) /\ ~Lost(p)
    => o = p

\* PendingOrderTracker never forgets an order that may still execute: a slot
\* is cleared or overwritten only once the broker is done with its order or
\* has been asked to cancel it.
TrackerKeepsWorking ==
  [][\A o \in Orders :
       (slots[SlotOf(o)] = o /\ slots'[SlotOf(o)] # o) => ~Working(o)']_vars

\* What the listener has counted of an order is never more than the broker
\* executed: no fill is applied twice, be it from the stream, from a
\* reconciliation, or from both.
NeverOverCounted == \A o \in Orders : FindFilledQty(o) <= bfilled[o]

\* The listener is up to date: nothing to read and nothing to reconcile.
CaughtUp ==
  /\ conn = "listening"
  /\ subscribed
  /\ stream = <<>>
  /\ phase = "idle"

\* The part of an order that is still open, as the engine should see it: all
\* of it until the broker has it, then what the broker has yet to execute.
OpenQty(o) ==
  IF stage[o] \in {"new", "dropped"} THEN 0
  ELSE IF bstatus[o] = "none" THEN QtyOf[o]
  ELSE IF bstatus[o] = "live" THEN Remaining(o)
  ELSE 0

\* Whenever the listener is up to date, PositionManager agrees with the
\* broker: filled is what was executed and pending what is still open, for
\* every symbol, whatever was lost with a connection and reconciled since.
PositionsMatchBroker ==
  CaughtUp =>
    \A s \in Symbols :
      /\ position[s].filled =
           MapThenSumSet(LAMBDA o : Signed(o, bfilled[o]), OrdersOf(s))
      /\ position[s].pending =
           MapThenSumSet(LAMBDA o : Signed(o, OpenQty(o)), OrdersOf(s))

\* The shares of a symbol the engine could end up long by if every order the
\* broker holds executes and every sell fails (short: the converse).
WorstCase(s, side) ==
  MapThenSumSet(LAMBDA o : bfilled[o] + (IF bstatus[o] = "live"
                                         THEN Remaining(o) ELSE 0),
                {o \in OrdersOf(s) : SideOf[o] = side})

\* The limit RiskManager enforces on the engine's own counters also bounds
\* what the broker can execute, at every moment, for a strategy that trades
\* one side (SimpleMarketMakingStrategy only buys).
BrokerWithinLimit ==
  \A s \in Symbols :
    \A side \in Sides :
      (\A o \in OrdersOf(s) : SideOf[o] = side)
        => WorstCase(s, side) <= MaxPosition

\* A lost acknowledgement costs no more than the order it was for: onFill
\* moves shares from pending to filled and a cancel gives them back, so the
\* worst case exceeds the limit by at most the shares of lost orders, be
\* they reconciled or not.
OverLimitOnlyByLost ==
  \A s \in Symbols :
    \A side \in Sides :
      (\A o \in OrdersOf(s) : SideOf[o] = side)
        => WorstCase(s, side) <=
             MaxPosition + MapThenSumSet(LAMBDA o : QtyOf[o],
                                         {o \in OrdersOf(s) : Lost(o)})

\* Every submitted order is placed or dropped in the end: an order is
\* submitted once, so one that stayed queued would hold this up for ever.
SubmittedIsExecuted ==
  []<>(\A o \in Orders : stage[o] \notin {"queued", "executing"})

\* The listener learns of the end of every order, from the stream or, when
\* the event was lost, from a reconciliation: ends are final, so one it
\* never learnt of would hold this up for ever.
EndIsLearnt ==
  []<>(\A o \in Orders : bstatus[o] \in {"filled", "canceled"} => IsCompleted(o))
=============================================================================
