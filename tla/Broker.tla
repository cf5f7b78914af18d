------------------------------- MODULE Broker -------------------------------
(***************************************************************************)
(* The Alpaca trading service as the engine uses it: orders are accepted,  *)
(* filled in parts, cancelled (or expired, or rejected); trade_updates     *)
(* events go to the stream while a listener is subscribed to it and are    *)
(* lost otherwise; the order list can be queried page by page in the order *)
(* of creation.  The service is not part of the repository.                *)
(***************************************************************************)
EXTENDS TradingTypes, Sequences

VARIABLES
  bstatus,     \* the broker's status of each order
  bfilled,     \* the executed quantity of each order
  bcancel,     \* whether the broker accepted a cancel request for it
  created,     \* orders accepted, in the order of their created_at
  stream,      \* trade_updates events sent and not yet processed
  subscribed   \* whether the stream has a subscriber

brokerVars == <<bstatus, bfilled, bcancel, created, stream, subscribed>>

\* A trade_updates message as parseTradingUpdate returns it: a FillEvent, whole
\* or partial, or a CancelEvent (canceled, expired, rejected) with the shares
\* that were not filled.  Of other messages it makes nothing.
Event == [kind : {"fill", "partial_fill", "canceled"}, order : Orders, qty : Nat]

BrokerInit ==
  /\ bstatus = [o \in Orders |-> "none"]
  /\ bfilled = [o \in Orders |-> 0]
  /\ bcancel = [o \in Orders |-> FALSE]
  /\ created = <<>>
  /\ stream = <<>>
  /\ subscribed = FALSE

BrokerType ==
  /\ bstatus \in [Orders -> {"none", "live", "filled", "canceled"}]
  /\ bfilled \in [Orders -> Nat]
  /\ bcancel \in [Orders -> BOOLEAN]
  /\ created \in Seq(Orders)
  /\ stream \in Seq(Event)
  /\ subscribed \in BOOLEAN

\* What is left of an order to be executed.
Remaining(o) == QtyOf[o] - bfilled[o]

\* An order that may still execute and that nobody asked to cancel.
Working(o) == bstatus[o] = "live" /\ ~bcancel[o]

Send(e) == stream' = IF subscribed THEN Append(stream, e) ELSE stream

\* POST /v2/orders takes effect.
BrokerAccepts(o) ==
  /\ bstatus' = [bstatus EXCEPT ![o] = "live"]
  /\ created' = Append(created, o)
  /\ UNCHANGED <<bfilled, bcancel, stream, subscribed>>

\* DELETE /v2/orders/{id} takes effect; a finished order stays as it is.
BrokerTakesCancel(o) ==
  /\ bcancel' = [bcancel EXCEPT ![o] = @ \/ bstatus[o] = "live"]
  /\ UNCHANGED <<bstatus, bfilled, created, stream, subscribed>>

\* q shares of o are executed.
BrokerFills(o, q) ==
  /\ bstatus[o] = "live"
  /\ q \in 1..Remaining(o)
  /\ bfilled' = [bfilled EXCEPT ![o] = @ + q]
  /\ \/ /\ q < Remaining(o)
        /\ Send([kind |-> "partial_fill", order |-> o, qty |-> q])
        /\ UNCHANGED bstatus
     \/ /\ q = Remaining(o)
        /\ Send([kind |-> "fill", order |-> o, qty |-> q])
        /\ bstatus' = [bstatus EXCEPT ![o] = "filled"]
  /\ UNCHANGED <<bcancel, created, subscribed>>

\* o is cancelled, expires or is rejected; the event carries what is left.
BrokerCancels(o) ==
  /\ bstatus[o] = "live"
  /\ bstatus' = [bstatus EXCEPT ![o] = "canceled"]
  /\ Send([kind |-> "canceled", order |-> o, qty |-> Remaining(o)])
  /\ UNCHANGED <<bfilled, bcancel, created, subscribed>>

\* What GET /v2/orders tells of o: a live order is "new" until it executes.
Snapshot(o) ==
  [order  |-> o,
   status |-> IF bstatus[o] # "live" THEN bstatus[o]
              ELSE IF bfilled[o] > 0 THEN "partially_filled" ELSE "new",
   filled |-> bfilled[o]]

Snapshots ==
  [order : Orders, filled : Nat,
   status : {"none", "new", "partially_filled", "filled", "canceled"}]
=============================================================================
