---------------------------- MODULE OrderGateway ----------------------------
(***************************************************************************)
(* OrderGateway::run and executeOrder, with the REST calls of              *)
(* AlpacaRestClient it makes: for each order popped, cancel the tracked    *)
(* order of the same symbol and side, then place the new one.  One action  *)
(* reaches from one REST call to the next; while a call is under way the   *)
(* broker and the fill listener run on.                                    *)
(***************************************************************************)
EXTENDS Broker, PositionBook, PendingOrderTracker

VARIABLES
  queue,   \* the order queue, as OrderQueue promises it
  stage,   \* how far each order has come
  gpc,     \* what the gateway thread does next
  gorder,  \* the order it executes
  gprev    \* the tracked order it found for that slot

gatewayVars == <<queue, stage, gpc, gorder, gprev>>

GatewayInit ==
  /\ queue = <<>>
  /\ stage = [o \in Orders |-> "new"]
  /\ gpc = "idle"
  /\ gorder = NoOrder
  /\ gprev = NoOrder

GatewayType ==
  /\ queue \in Seq(Orders)
  /\ stage \in [Orders -> {"new", "queued", "executing", "placed", "dropped"}]
  /\ gpc \in {"idle", "cancel", "place", "record", "release"}
  /\ gorder \in Orders \cup {NoOrder}
  /\ gprev \in Orders \cup {NoOrder}
  /\ gpc # "idle" => gorder \in Orders
  /\ gpc = "cancel" => gprev \in Orders

\* The gateway is done with its order and waits for the next.
Finish(outcome) ==
  /\ stage' = [stage EXCEPT ![gorder] = outcome]
  /\ gpc' = "idle"
  /\ gorder' = NoOrder
  /\ gprev' = NoOrder
  /\ UNCHANGED queue

\* onOrderCancelled(order): give the order's pending quantity back.
Drop ==
  /\ position' = OnOrderCancelled(position, gorder, QtyOf[gorder])
  /\ Finish("dropped")

-----------------------------------------------------------------------------

\* A gateway that takes the whole queue and executes its first order.
PopClearsQueue ==
  /\ gpc = "idle"
  /\ queue # <<>>
  /\ queue' = <<>>
  /\ gorder' = Head(queue)
  /\ gprev' = ExistingOrder(Head(queue))
  /\ gpc' = IF gprev' = NoOrder THEN "place" ELSE "cancel"
  /\ stage' = [stage EXCEPT ![Head(queue)] = "executing"]
  /\ UNCHANGED <<brokerVars, position, slots>>

\* Pop an order and look up the tracked one of its slot.
Pop ==
  /\ gpc = "idle"
  /\ queue # <<>>
  /\ queue' = Tail(queue)
  /\ gorder' = Head(queue)
  /\ gprev' = ExistingOrder(Head(queue))
  /\ gpc' = IF gprev' = NoOrder THEN "place" ELSE "cancel"
  /\ stage' = [stage EXCEPT ![Head(queue)] = "executing"]
  /\ UNCHANGED <<brokerVars, position, slots>>

\* cancelOrder returned 204 (the broker took the request) or 422 (the order
\* is finished): the new order may be placed.
CancelAccepted ==
  /\ gpc = "cancel"
  /\ BrokerTakesCancel(gprev)
  /\ gpc' = "place"
  /\ UNCHANGED <<queue, stage, gorder, gprev, position, slots>>

\* A gateway that places the new order although the cancel failed.
CancelFailedPlaceAnyway ==
  /\ gpc = "cancel"
  /\ gpc' = "place"
  /\ UNCHANGED <<brokerVars, queue, stage, gorder, gprev, position, slots>>

\* cancelOrder returned any other code or threw, before or after the broker
\* took the request: the new order is skipped.
CancelFailed ==
  /\ gpc = "cancel"
  /\ BrokerTakesCancel(gprev) \/ UNCHANGED brokerVars
  /\ Drop
  /\ UNCHANGED slots

\* placeOrder: the broker accepts the order, and the reply will say so.
PlaceAccepted ==
  /\ gpc = "place"
  /\ BrokerAccepts(gorder)
  /\ gpc' = "record"
  /\ UNCHANGED <<queue, stage, gorder, gprev, position, slots>>

\* placeOrder: the broker accepts the order, but the gateway sees an error.
PlaceAckLost ==
  /\ "lostAck" \in Faults
  /\ gpc = "place"
  /\ BrokerAccepts(gorder)
  /\ gpc' = "release"
  /\ UNCHANGED <<queue, stage, gorder, gprev, position, slots>>

\* placeOrder: dropped by the rate limiter, refused, or never sent.
PlaceRefused ==
  /\ gpc = "place"
  /\ Drop
  /\ UNCHANGED <<brokerVars, slots>>

\* The reply with the broker's id arrives: recordOrder.
Record ==
  /\ gpc = "record"
  /\ slots' = RecordOrder(gorder)
  /\ Finish("placed")
  /\ UNCHANGED <<brokerVars, position>>

\* The error arrives: onOrderCancelled.
Release ==
  /\ gpc = "release"
  /\ Drop
  /\ UNCHANGED <<brokerVars, slots>>

GatewayStep ==
  \/ Pop
  \/ CancelAccepted
  \/ CancelFailed
  \/ PlaceAccepted
  \/ PlaceAckLost
  \/ PlaceRefused
  \/ Record
  \/ Release
=============================================================================
