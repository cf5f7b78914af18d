-------------------------- MODULE OrderFlow_proofs --------------------------
(***************************************************************************)
(* Proofs about the orders of OrderFlow and the tracker's slots, for any   *)
(* number of orders, symbols, quantities, page sizes and lost connections. *)
(***************************************************************************)
EXTENDS OrderFlowTypes_proofs

USE SMTT(30), ZenonT(30) DEF Orders, Sides

\* The broker is done with o.
Ended(o) == bstatus[o] \in {"filled", "canceled"}

\* An order goes once from the strategy through the queue to the broker, and
\* the tracker holds orders that have been placed, each in its own slot.
Lifecycle ==
  /\ \A o \in Orders : stage[o] \in {"new", "queued"} => bstatus[o] = "none"
  /\ \A i \in 1..Len(queue) : stage[queue[i]] = "queued"
  /\ \A i, j \in 1..Len(queue) : queue[i] = queue[j] => i = j
  /\ gpc # "idle" => stage[gorder] = "executing"
  /\ gpc \in {"cancel", "place"} => bstatus[gorder] = "none"
  /\ \A k \in Slots, o \in Orders :
       slots[k] = o => SlotOf(o) = k /\ stage[o] = "placed"

\* An end that the stream or a page reports is true, and stays true.
Reported ==
  /\ \A i \in 1..Len(stream) :
       stream[i].kind # "partial_fill" => Ended(stream[i].order)
  /\ \A i \in 1..Len(page) :
       page[i].status \in {"filled", "canceled"} => Ended(page[i].order)

\* While the gateway replaces an order, its slot holds the order it looked
\* up or, once that has ended, nothing; from the cancel on, the slot's order
\* is no longer working.
Tracked ==
  /\ gpc = "cancel" => /\ SlotOf(gprev) = SlotOf(gorder)
                       /\ slots[SlotOf(gorder)] \in {gprev, NoOrder}
  /\ gpc \in {"place", "record", "release"} =>
       \A o \in Orders : slots[SlotOf(gorder)] = o => ~Working(o)

Inv == Typed /\ Lifecycle /\ Reported /\ Tracked

\* The tracker knows every working order but those whose acknowledgement is
\* on its way or was lost.
Known ==
  \A o \in Orders :
    Working(o) => \/ Lost(o)
                  \/ slots[SlotOf(o)] = o
                  \/ gpc \in {"record", "release"} /\ gorder = o

\* What TrackerKeepsWorking says of one step.
KeepsWorking ==
  \A o \in Orders :
    (slots[SlotOf(o)] = o /\ slots'[SlotOf(o)] # o) => ~Working(o)'

\* The inductive invariant holds at the start.
LEMMA InitInv == Init => Inv /\ Known
<1> SUFFICES ASSUME Init PROVE Inv /\ Known
  OBVIOUS
<1>1. Typed
  BY InitTyped
<1> USE TypesAssumption, SlotType
    DEF Init, BrokerInit, GatewayInit, TrackerInit, ListenerInit
<1>2. Lifecycle
  BY DEF Lifecycle
<1>3. Reported
  BY DEF Reported
<1>4. Tracked
  BY DEF Tracked
<1>5. Known
  BY DEF Known, Working
<1> QED
  BY <1>1, <1>2, <1>3, <1>4, <1>5 DEF Inv

\* The listener's effect on the tracker: it clears the slot of an order that
\* has ended, or leaves the tracker alone.
LEMMA ListenerKeeps ==
  ASSUME Inv, UNCHANGED <<bstatus, bcancel, gatewayVars>>,
         \/ slots' = slots
         \/ \E o \in Orders : Ended(o) /\ slots' = OnOrderCompleted(o)
  PROVE  Lifecycle' /\ Tracked' /\ (Known => Known') /\ KeepsWorking
<1> USE DEF Inv, Typed, TypeOK, gatewayVars
<1>1. \A k \in Slots :
        \/ slots'[k] = slots[k]
        \/ slots'[k] = NoOrder /\ slots[k] \in Orders /\ Ended(slots[k])
  <2>1. CASE slots' = slots
    BY <2>1
  <2>2. ASSUME NEW o \in Orders, Ended(o), slots' = OnOrderCompleted(o)
        PROVE  \A k \in Slots :
                 \/ slots'[k] = slots[k]
                 \/ /\ slots'[k] = NoOrder
                    /\ slots[k] \in Orders
                    /\ Ended(slots[k])
    BY <2>2, SlotType DEF OnOrderCompleted, TrackerType
  <2> QED
    BY <2>1, <2>2
<1>2. Lifecycle'
  BY <1>1, TypesAssumption DEF Lifecycle
<1>3. \A o \in Orders : Ended(o) => ~Working(o)
  BY DEF Ended, Working
<1>4. \A o \in Orders : Working(o)' <=> Working(o)
  BY DEF Working
<1>5. Tracked'
  <2>1. gpc # "idle" => SlotOf(gorder) \in Slots
    BY SlotType DEF GatewayType
  <2>2. gpc = "cancel" => /\ SlotOf(gprev) = SlotOf(gorder)
                          /\ slots'[SlotOf(gorder)] \in {gprev, NoOrder}
    BY <1>1, <2>1 DEF Tracked
  <2>3. gpc \in {"place", "record", "release"} =>
          \A o \in Orders : slots'[SlotOf(gorder)] = o => ~Working(o)
    BY <1>1, <2>1, TypesAssumption DEF Tracked
  <2> QED
    BY <1>4, <2>2, <2>3 DEF Tracked
<1>6. Known => Known'
  BY <1>1, <1>3, <1>4, SlotType DEF Known, Lost
<1>7. KeepsWorking
  BY <1>1, <1>3, <1>4, SlotType DEF KeepsWorking
<1> QED
  BY <1>2, <1>5, <1>6, <1>7

\* The session's messages, and its loss, change no order and no slot.
LEMMA SessionInv ==
  ASSUME Inv, Session \/ Disconnect, UNCHANGED gatewayVars
  PROVE  Lifecycle' /\ Reported' /\ Tracked' /\ (Known => Known') /\ KeepsWorking
<1>1. /\ UNCHANGED <<bstatus, bcancel, slots, page>>
      /\ stream' = stream \/ stream' = <<>>
  BY DEF Session, Open, FirstAuthorized, Reauthorized, AuthorizationFails,
     Subscribed, Disconnect, brokerVars, reconcileVars, listenerVars
<1>2. Reported'
  BY <1>1 DEF Inv, Reported, Ended
<1> QED
  BY <1>1, <1>2, ListenerKeeps

\* A trade_updates event clears a slot only for an order that has ended.
LEMMA MessageInv ==
  ASSUME Inv, Messages, UNCHANGED gatewayVars
  PROVE  Lifecycle' /\ Reported' /\ Tracked' /\ (Known => Known') /\ KeepsWorking
<1> DEFINE msg == Head(stream)
<1>1. stream # <<>> /\ stream \in Seq(Event)
  BY DEF Messages, ProcessPartialFill, ProcessFill, ProcessCancel, NextEvent,
     Inv, Typed, TypeOK, BrokerType
<1>2. /\ UNCHANGED <<bstatus, bcancel, page>>
      /\ stream' = Tail(stream)
  BY DEF Messages, ProcessPartialFill, ProcessFill, ProcessCancel, NextEvent,
     reconcileVars
<1>3. msg \in Event /\ msg.order \in Orders /\ msg = stream[1] /\ Len(stream) >= 1
  <2>1. msg \in Event /\ msg = stream[1] /\ Len(stream) >= 1
    BY <1>1, HeadTail
  <2> QED
    BY <2>1 DEF Event
<1>4. msg.kind # "partial_fill" => Ended(msg.order)
  BY <1>1, <1>3 DEF Inv, Reported
<1>5. slots' = slots \/ (Ended(msg.order) /\ slots' = OnOrderCompleted(msg.order))
  BY <1>4
  DEF Messages, ProcessPartialFill, ProcessFill, ProcessCancel, NextEvent
<1>6. Reported'
  <2>1. /\ Len(stream') = Len(stream) - 1
        /\ \A i \in 1..Len(stream') : stream'[i] = stream[i + 1]
    BY <1>1, <1>2, HeadTail
  <2> QED
    BY <1>1, <1>2, <2>1 DEF Inv, Reported, Ended
<1> QED
  BY <1>2, <1>3, <1>5, <1>6, ListenerKeeps

\* So does a reconciliation, which works on snapshots that may be old:
\* what has ended in a snapshot has ended for good.
LEMMA ReconciliationInv ==
  ASSUME Inv, Reconciliation, UNCHANGED gatewayVars
  PROVE  Lifecycle' /\ Reported' /\ Tracked' /\ (Known => Known') /\ KeepsWorking
<1>1. UNCHANGED <<bstatus, bfilled, bcancel, stream>>
  BY ZenonT(30)
  DEF Reconciliation, ReconcileQuery, ReconcileQuerySkips, TakePage,
     ReconcileQueryFails, ReconcileNothing, ReconcileFill, ReconcileCancel, ReconcilePageEnds, ReconcileItem, brokerVars
<1>2. page \in Seq(Snapshots)
  BY DEF Inv, Typed, TypeOK, ListenerType
<1>3. CASE ReconcileQueryFails \/ ReconcilePageEnds
  <2>1. UNCHANGED <<page, slots>>
    BY <1>3 DEF ReconcileQueryFails, ReconcilePageEnds
  <2>2. Reported'
    BY <1>1, <2>1 DEF Inv, Reported, Ended
  <2> QED
    BY <1>1, <2>1, <2>2, ListenerKeeps
<1>4. CASE ReconcileQuery \/ ReconcileQuerySkips
  <2>1. PICK size \in Nat : TakePage(size)
    <3>1. PageLength(cursor) \in Nat /\ 0..PageLength(cursor) \subseteq Nat
      BY ListenerAssumption
      DEF PageLength, Inv, Typed, TypeOK, BrokerType, ListenerType, Bounds
    <3> QED
      BY ZenonT(30), <1>4, <3>1 DEF ReconcileQuery, ReconcileQuerySkips
  <2>2. page' = [i \in 1..size |-> Snapshot(created[cursor + i])] /\ slots' = slots
    BY <2>1 DEF TakePage, QueryOrders
  <2>3. Len(page') = size
    BY <2>1, <2>2
  <2>4. \A i \in 1..size :
          Snapshot(created[cursor + i]).status \in {"filled", "canceled"}
            => Ended(Snapshot(created[cursor + i]).order)
    BY DEF Snapshot, Ended
  <2>5. Reported'
    BY ZenonT(30), <1>1, <2>2, <2>3, <2>4 DEF Inv, Reported, Ended
  <2> QED
    BY <1>1, <2>2, <2>5, ListenerKeeps
<1>5. CASE ReconcileNothing \/ ReconcileFill \/ ReconcileCancel
  <2>1. page # <<>> /\ page' = Tail(page)
    BY ZenonT(30), <1>5
    DEF ReconcileNothing, ReconcileFill, ReconcileCancel, ReconcileItem
  <2>2. Item \in Snapshots /\ Item = page[1] /\ Len(page) >= 1
    BY <1>2, <2>1, HeadTail DEF Item
  <2>3. Item.order \in Orders
    BY <2>2 DEF Snapshots
  <2>4. Item.status \in {"filled", "canceled"} => Ended(Item.order)
    BY <1>2, <2>2 DEF Inv, Reported
  <2>5. slots' = slots
        \/ (Ended(Item.order) /\ slots' = OnOrderCompleted(Item.order))
    BY ZenonT(30), <1>5, <2>4
    DEF ReconcileNothing, ReconcileFill, ReconcileCancel
  <2>6. /\ Len(page') = Len(page) - 1
        /\ \A i \in 1..Len(page') : page'[i] = page[i + 1]
    BY <1>2, <2>1, HeadTail
  <2>7. Reported'
    BY <1>1, <1>2, <2>6 DEF Inv, Reported, Ended
  <2> QED
    BY <1>1, <2>3, <2>5, <2>7, ListenerKeeps
<1> QED
  BY <1>3, <1>4, <1>5 DEF Reconciliation

\* A consumer that submits an order disturbs none that is under way.
LEMMA SubmitInv ==
  ASSUME Inv, NEW o \in Orders, Submit(o)
  PROVE  Lifecycle' /\ Reported' /\ Tracked' /\ (Known => Known') /\ KeepsWorking
<1> USE DEF Inv, Typed, TypeOK
<1>1. /\ UNCHANGED <<bstatus, bcancel, stream, page, slots, gpc, gorder, gprev>>
      /\ stage[o] = "new"
      /\ queue' = Append(queue, o)
      /\ stage' = [stage EXCEPT ![o] = "queued"]
  BY DEF Submit, brokerVars, listenerVars, reconcileVars
<1>2. /\ Len(queue') = Len(queue) + 1
      /\ queue'[Len(queue) + 1] = o
      /\ \A i \in 1..Len(queue) : queue'[i] = queue[i] /\ queue[i] \in Orders
      /\ Len(queue) \in Nat
  <2>1. queue \in Seq(Orders)
    BY DEF GatewayType
  <2>2. \A i \in 1..Len(queue) : queue[i] \in Orders
    BY ZenonT(30), <2>1, ElementType
  <2> QED
    BY <1>1, <2>1, <2>2, AppendType
<1>3. \A p \in Orders : stage'[p] = IF p = o THEN "queued" ELSE stage[p]
  BY <1>1 DEF GatewayType
<1>4. Lifecycle'
  <2>1. \A p \in Orders : stage'[p] \in {"new", "queued"} => bstatus'[p] = "none"
    BY <1>1, <1>3 DEF Lifecycle
  <2>2. \A i \in 1..Len(queue') : stage'[queue'[i]] = "queued"
    BY <1>2, <1>3 DEF Lifecycle
  <2>3. \A i, j \in 1..Len(queue') : queue'[i] = queue'[j] => i = j
    BY <1>1, <1>2 DEF Lifecycle
  <2>4. gpc' # "idle" => stage'[gorder'] = "executing"
    BY <1>1, <1>3 DEF Lifecycle, GatewayType
  <2>5. \A k \in Slots, p \in Orders :
          slots'[k] = p => SlotOf(p) = k /\ stage'[p] = "placed"
    BY <1>1, <1>3 DEF Lifecycle
  <2> QED
    BY <1>1, <2>1, <2>2, <2>3, <2>4, <2>5 DEF Lifecycle
<1>5. Reported'
  BY <1>1 DEF Reported, Ended
<1>6. Tracked' /\ KeepsWorking
  BY <1>1 DEF Tracked, KeepsWorking, Working
<1>7. Known => Known'
  BY <1>1, <1>3 DEF Known, Lost, Working
<1> QED
  BY <1>4, <1>5, <1>6, <1>7

\* The gateway gives its order up: the broker and the tracker keep what they
\* have.
LEMMA FinishDropped ==
  ASSUME Inv, gpc # "idle", Finish("dropped"),
         UNCHANGED <<bstatus, stream, page, slots>>,
         \A o \in Orders : Working(o)' => Working(o)
  PROVE  /\ Lifecycle' /\ Reported' /\ Tracked' /\ KeepsWorking
         /\ gpc # "record" => (Known => Known')
<1> USE DEF Inv, Typed, TypeOK
<1>1. /\ gorder \in Orders /\ stage[gorder] = "executing"
      /\ gpc' = "idle" /\ queue' = queue
      /\ \A o \in Orders :
           stage'[o] = IF o = gorder THEN "dropped" ELSE stage[o]
  BY DEF Finish, GatewayType, Lifecycle
<1>2. \A i \in 1..Len(queue) : queue[i] \in Orders
  BY ZenonT(30), ElementType DEF GatewayType
<1>3. Lifecycle'
  <2>1. \A i \in 1..Len(queue) : stage'[queue[i]] = "queued"
    <3> SUFFICES ASSUME NEW i \in 1..Len(queue)
                 PROVE  stage'[queue[i]] = "queued"
      OBVIOUS
    <3>1. stage[queue[i]] = "queued" /\ queue[i] \in Orders
      BY <1>2 DEF Lifecycle
    <3>2. queue[i] # gorder
      BY <1>1, <3>1
    <3> QED
      BY <1>1, <3>1, <3>2
  <2>2. \A o \in Orders : stage'[o] \in {"new", "queued"} => bstatus[o] = "none"
    BY <1>1 DEF Lifecycle
  <2>3. \A k \in Slots, o \in Orders :
          slots[k] = o => SlotOf(o) = k /\ stage'[o] = "placed"
    BY <1>1 DEF Lifecycle
  <2> QED
    BY <1>1, <2>1, <2>2, <2>3 DEF Lifecycle
<1>4. Reported'
  BY DEF Reported, Ended
<1>5. Tracked'
  BY <1>1 DEF Tracked
<1>6. KeepsWorking
  BY DEF KeepsWorking
<1>7. gpc # "record" => (Known => Known')
  BY <1>1 DEF Known, Lost, Working
<1> QED
  BY <1>3, <1>4, <1>5, <1>6, <1>7

\* The gateway takes the next order, and the one it has to cancel.
LEMMA PopInv ==
  ASSUME Inv, Pop, UNCHANGED listenerVars
  PROVE  Lifecycle' /\ Reported' /\ Tracked' /\ (Known => Known') /\ KeepsWorking
<1> USE DEF Inv, Typed, TypeOK
<1>1. /\ queue \in Seq(Orders) /\ queue # <<>>
      /\ UNCHANGED <<bstatus, bcancel, stream, page, slots>>
      /\ gpc = "idle"
      /\ queue' = Tail(queue) /\ gorder' = Head(queue)
      /\ gprev' = slots[SlotOf(Head(queue))]
      /\ gpc' = IF gprev' = NoOrder THEN "place" ELSE "cancel"
      /\ stage' = [stage EXCEPT ![Head(queue)] = "executing"]
  BY DEF Pop, GatewayType, ExistingOrder, brokerVars, listenerVars, reconcileVars
<1>2. /\ gorder' \in Orders /\ gorder' = queue[1]
      /\ Len(queue) >= 1 /\ Len(queue) \in Nat
      /\ Len(queue') = Len(queue) - 1
      /\ \A i \in 1..Len(queue') : queue'[i] = queue[i + 1]
  <2>1. /\ Head(queue) \in Orders
        /\ Len(Tail(queue)) = Len(queue) - 1
        /\ \A i \in 1..Len(Tail(queue)) : Tail(queue)[i] = queue[i + 1]
        /\ Head(queue) = queue[1]
        /\ Len(queue) >= 1
    BY ZenonT(30), <1>1, HeadTail
  <2>2. Len(queue) \in Nat
    BY <1>1
  <2> QED
    BY <1>1, <2>1, <2>2
<1>3. \A i \in 1..Len(queue) : queue[i] \in Orders
  BY ZenonT(30), <1>1, ElementType
<1>4. stage[gorder'] = "queued" /\ bstatus[gorder'] = "none"
  BY <1>2, <1>3 DEF Lifecycle
<1>5. \A o \in Orders : stage'[o] = IF o = gorder' THEN "executing" ELSE stage[o]
  BY <1>1, <1>2 DEF GatewayType
<1>6. Lifecycle'
  <2>1. \A o \in Orders : stage'[o] \in {"new", "queued"} => bstatus'[o] = "none"
    BY <1>1, <1>5 DEF Lifecycle
  <2>2. \A i \in 1..Len(queue') : queue'[i] # gorder'
    BY <1>2 DEF Lifecycle
  <2>3. \A i \in 1..Len(queue') : stage'[queue'[i]] = "queued"
    <3> SUFFICES ASSUME NEW i \in 1..Len(queue')
                 PROVE  stage'[queue'[i]] = "queued"
      OBVIOUS
    <3>1. i + 1 \in 1..Len(queue) /\ queue'[i] = queue[i + 1]
      BY <1>2
    <3>2. stage[queue[i + 1]] = "queued" /\ queue[i + 1] \in Orders
      BY <1>3, <3>1 DEF Lifecycle
    <3> QED
      BY <1>5, <2>2, <3>1, <3>2
  <2>4. \A i, j \in 1..Len(queue') : queue'[i] = queue'[j] => i = j
    BY <1>2 DEF Lifecycle
  <2>5. \A k \in Slots, o \in Orders :
          slots'[k] = o => SlotOf(o) = k /\ stage'[o] = "placed"
    BY <1>1, <1>4, <1>5 DEF Lifecycle
  <2> QED
    BY <1>1, <1>2, <1>4, <1>5, <2>1, <2>3, <2>4, <2>5 DEF Lifecycle
<1>7. Reported'
  BY <1>1 DEF Reported, Ended
<1>8. SlotOf(gorder') \in Slots
  BY <1>2, SlotType
<1>9. Tracked'
  <2>1. gprev' \in Orders \cup {NoOrder}
    BY <1>1, <1>8 DEF TrackerType
  <2>2. gpc' = "cancel" => SlotOf(gprev') = SlotOf(gorder')
    BY <1>1, <1>8, <2>1 DEF Lifecycle
  <2>3. gpc' = "place" => slots[SlotOf(gorder')] \notin Orders
    BY <1>1, TypesAssumption
  <2>4. /\ gpc' \in {"cancel", "place"}
        /\ slots'[SlotOf(gorder')] = gprev'
    BY <1>1
  <2> QED
    BY <1>1, <2>2, <2>3, <2>4 DEF Tracked, SlotOf
<1>10. Known => Known'
  BY <1>1, <1>4, <1>5 DEF Known, Lost, Working
<1>11. KeepsWorking
  BY <1>1 DEF KeepsWorking
<1> QED
  BY <1>6, <1>7, <1>9, <1>10, <1>11

\* The broker takes the cancel request: the order found is working no more,
\* and no other order of the slot is tracked.
LEMMA CancelInv ==
  ASSUME Inv, CancelAccepted, UNCHANGED listenerVars
  PROVE  Lifecycle' /\ Reported' /\ Tracked' /\ (Known => Known') /\ KeepsWorking
<1> USE DEF Inv, Typed, TypeOK
<1>1. /\ UNCHANGED <<bstatus, stream, page, slots, queue, stage, gorder, gprev>>
      /\ gpc = "cancel" /\ gpc' = "place"
      /\ gprev \in Orders /\ gorder \in Orders
      /\ bcancel' = [bcancel EXCEPT ![gprev] = @ \/ bstatus[gprev] = "live"]
  BY DEF CancelAccepted, BrokerTakesCancel, GatewayType, listenerVars, reconcileVars
<1>2. \A o \in Orders : Working(o)' => Working(o) /\ o # gprev
  BY ZenonT(30), <1>1 DEF Working, BrokerType
<1>3. Lifecycle'
  BY <1>1 DEF Lifecycle
<1>4. Reported'
  BY <1>1 DEF Reported, Ended
<1>5. Tracked'
  BY <1>1, <1>2, TypesAssumption DEF Tracked
<1>6. Known => Known'
  BY <1>1, <1>2 DEF Known, Lost
<1>7. KeepsWorking
  BY <1>1 DEF KeepsWorking
<1> QED
  BY <1>3, <1>4, <1>5, <1>6, <1>7

\* The broker accepts the order; its acknowledgement is on its way, or lost.
LEMMA PlaceInv ==
  ASSUME Inv, PlaceAccepted \/ PlaceAckLost, UNCHANGED listenerVars
  PROVE  Lifecycle' /\ Reported' /\ Tracked' /\ (Known => Known') /\ KeepsWorking
<1> USE DEF Inv, Typed, TypeOK
<1>1. /\ UNCHANGED <<bcancel, stream, page, slots, queue, stage, gorder, gprev>>
      /\ gpc = "place" /\ gpc' \in {"record", "release"}
      /\ gorder \in Orders
      /\ \A o \in Orders : bstatus'[o] = IF o = gorder THEN "live" ELSE bstatus[o]
  BY ZenonT(30)
  DEF PlaceAccepted, PlaceAckLost, BrokerAccepts, GatewayType, BrokerType,
     listenerVars, reconcileVars
<1>2. stage[gorder] = "executing" /\ bstatus[gorder] = "none"
  BY <1>1 DEF Lifecycle
<1>3. SlotOf(gorder) \in Slots /\ slots[SlotOf(gorder)] # gorder
  BY <1>1, <1>2, SlotType DEF Lifecycle
<1>4. \A o \in Orders : o # gorder => (Working(o)' <=> Working(o))
  BY <1>1 DEF Working
<1>5. Lifecycle'
  BY <1>1, <1>2 DEF Lifecycle
<1>6. \A o \in Orders : Ended(o) => Ended(o)'
  BY <1>1, <1>2 DEF Ended
<1>7. /\ \A i \in 1..Len(stream) : stream[i].order \in Orders
      /\ \A i \in 1..Len(page) : page[i].order \in Orders
  <2>1. stream \in Seq(Event) /\ page \in Seq(Snapshots)
    BY DEF BrokerType, ListenerType
  <2>2. \A i \in 1..Len(stream) : stream[i] \in Event
    BY <2>1, ElementType
  <2>3. \A i \in 1..Len(page) : page[i] \in Snapshots
    BY <2>1, ElementType
  <2> QED
    BY <2>2, <2>3 DEF Event, Snapshots
<1>8. Reported'
  BY <1>1, <1>6, <1>7 DEF Reported, Ended
<1>9. Tracked'
  BY <1>1, <1>3, <1>4 DEF Tracked
<1>10. Known => Known'
  BY <1>1, <1>2, <1>4 DEF Known, Lost
<1>11. KeepsWorking
  BY <1>1 DEF KeepsWorking
<1> QED
  BY <1>5, <1>8, <1>9, <1>10, <1>11

\* recordOrder overwrites the slot, whose order is working no more.
LEMMA RecordInv ==
  ASSUME Inv, Record, UNCHANGED listenerVars
  PROVE  Lifecycle' /\ Reported' /\ Tracked' /\ (Known => Known') /\ KeepsWorking
<1> USE DEF Inv, Typed, TypeOK
<1>1. /\ UNCHANGED <<bstatus, bcancel, stream, page, queue>>
      /\ gpc = "record" /\ gpc' = "idle"
      /\ gorder \in Orders /\ SlotOf(gorder) \in Slots
      /\ \A k \in Slots :
           slots'[k] = IF k = SlotOf(gorder) THEN gorder ELSE slots[k]
      /\ \A o \in Orders :
           stage'[o] = IF o = gorder THEN "placed" ELSE stage[o]
  BY SlotType
  DEF Record, RecordOrder, Finish, GatewayType, TrackerType, brokerVars,
      listenerVars, reconcileVars
<1>2. stage[gorder] = "executing"
  BY <1>1 DEF Lifecycle
<1>3. \A i \in 1..Len(queue) : queue[i] \in Orders
  BY ZenonT(30), ElementType DEF GatewayType
<1>4. Lifecycle'
  <2>1. \A i \in 1..Len(queue) : stage'[queue[i]] = "queued"
    <3> SUFFICES ASSUME NEW i \in 1..Len(queue)
                 PROVE  stage'[queue[i]] = "queued"
      OBVIOUS
    <3>1. stage[queue[i]] = "queued" /\ queue[i] \in Orders
      BY <1>3 DEF Lifecycle
    <3>2. queue[i] # gorder
      BY <1>2, <3>1
    <3> QED
      BY <1>1, <3>1, <3>2
  <2>2. \A o \in Orders : stage'[o] \in {"new", "queued"} => bstatus[o] = "none"
    BY <1>1 DEF Lifecycle
  <2>3. \A k \in Slots, o \in Orders :
          slots'[k] = o => SlotOf(o) = k /\ stage'[o] = "placed"
    BY <1>1, <1>2 DEF Lifecycle
  <2> QED
    BY <1>1, <2>1, <2>2, <2>3 DEF Lifecycle
<1>5. Reported'
  BY <1>1 DEF Reported, Ended
<1>6. Tracked'
  BY <1>1 DEF Tracked
<1>7. \A o \in Orders : Working(o)' <=> Working(o)
  BY <1>1 DEF Working
<1>8. \A o \in Orders : slots[SlotOf(gorder)] = o => ~Working(o)
  BY <1>1 DEF Tracked
<1>9. Known => Known'
  BY <1>1, <1>2, <1>7, <1>8, SlotType DEF Known, Lost
<1>10. KeepsWorking
  BY <1>1, <1>7, <1>8, SlotType DEF KeepsWorking
<1> QED
  BY <1>4, <1>5, <1>6, <1>9, <1>10

\* The gateway's steps, REST calls failed and lost ones included.
LEMMA GatewayInv ==
  ASSUME Inv, GatewayStep, UNCHANGED listenerVars
  PROVE  Lifecycle' /\ Reported' /\ Tracked' /\ (Known => Known') /\ KeepsWorking
<1>1. CASE Pop
  BY <1>1, PopInv
<1>2. CASE CancelAccepted
  BY <1>2, CancelInv
<1>3. CASE PlaceAccepted \/ PlaceAckLost
  BY <1>3, PlaceInv
<1>4. CASE Record
  BY <1>4, RecordInv
<1>5. CASE CancelFailed \/ PlaceRefused \/ Release
  <2>1. /\ gpc \notin {"idle", "record"}
        /\ Finish("dropped")
        /\ UNCHANGED <<bstatus, stream, page, slots>>
    BY <1>5
    DEF CancelFailed, PlaceRefused, Release, Drop, BrokerTakesCancel, brokerVars,
        listenerVars, reconcileVars
  <2>2. bcancel' = bcancel
        \/ bcancel' = [bcancel EXCEPT ![gprev] = @ \/ bstatus[gprev] = "live"]
    BY ZenonT(30), <1>5
    DEF CancelFailed, PlaceRefused, Release, BrokerTakesCancel, brokerVars
  <2>3. \A o \in Orders : Working(o)' => Working(o)
    BY ZenonT(30), <2>1, <2>2 DEF Working, Inv, Typed, TypeOK, BrokerType
  <2> QED
    BY <2>1, <2>3, FinishDropped
<1> QED
  BY <1>1, <1>2, <1>3, <1>4, <1>5 DEF GatewayStep

\* The broker ends a live order or executes part of it; an event that
\* reports an end is sent in the same step.
LEMMA BrokerInv ==
  ASSUME Inv, NEW o \in Orders, BrokerEvent(o)
  PROVE  Lifecycle' /\ Reported' /\ Tracked' /\ (Known => Known') /\ KeepsWorking
<1> USE DEF Inv, Typed, TypeOK
<1>1. /\ bstatus[o] = "live"
      /\ \A p \in Orders : p # o => bstatus'[p] = bstatus[p]
      /\ bstatus'[o] \in {"live", "filled", "canceled"}
      /\ UNCHANGED <<bcancel, slots, page, queue, stage, gpc, gorder, gprev>>
  BY ZenonT(30)
  DEF BrokerEvent, BrokerCancels, BrokerFills, BrokerType, gatewayVars,
     listenerVars, reconcileVars
<1>2. \A p \in Orders : Working(p)' => Working(p)
  BY <1>1 DEF Working
<1>3. \A p \in Orders : Ended(p) => Ended(p)'
  BY <1>1 DEF Ended
<1>4. Lifecycle'
  BY <1>1 DEF Lifecycle, GatewayType
<1>5. Tracked'
  BY <1>1, <1>2 DEF Tracked, GatewayType
<1>6. Known => Known'
  BY <1>1, <1>2 DEF Known, Lost
<1>7. KeepsWorking
  BY <1>1 DEF KeepsWorking
<1>8. PICK sent : /\ Send(sent)
                  /\ sent.order = o
                  /\ sent.kind # "partial_fill" => Ended(o)'
  <2> DEFINE Reports(e) == /\ Send(e)
                           /\ e.order = o
                           /\ e.kind # "partial_fill" => Ended(o)'
  <2>1. ASSUME BrokerCancels(o) PROVE \E e : Reports(e)
    BY <2>1 DEF BrokerCancels, BrokerType, Ended
  <2>2. ASSUME NEW q \in 1..QtyOf[o], BrokerFills(o, q) PROVE \E e : Reports(e)
    <3>1. CASE Send([kind |-> "partial_fill", order |-> o, qty |-> q])
      BY <3>1
    <3>2. CASE bstatus' = [bstatus EXCEPT ![o] = "filled"]
               /\ Send([kind |-> "fill", order |-> o, qty |-> q])
      BY <3>2 DEF BrokerType, Ended
    <3> HIDE DEF Reports
    <3> QED
      BY <2>2, <3>1, <3>2 DEF BrokerFills
  <2>3. \E e : Reports(e)
    <3> HIDE DEF Reports
    <3> QED
      BY <2>1, <2>2 DEF BrokerEvent
  <2> QED
    BY <2>3
<1>9. /\ stream \in Seq(Event) /\ page \in Seq(Snapshots)
      /\ \A i \in 1..Len(stream) : stream[i].order \in Orders
      /\ \A i \in 1..Len(page) : page[i].order \in Orders
  <2>1. stream \in Seq(Event) /\ page \in Seq(Snapshots)
    BY DEF BrokerType, ListenerType
  <2>2. \A i \in 1..Len(stream) : stream[i] \in Event
    BY <2>1, ElementType
  <2>3. \A i \in 1..Len(page) : page[i] \in Snapshots
    BY <2>1, ElementType
  <2> QED
    BY <2>1, <2>2, <2>3 DEF Event, Snapshots
<1>10. \A i \in 1..Len(page) :
         page[i].status \in {"filled", "canceled"}
           => bstatus'[page[i].order] \in {"filled", "canceled"}
  BY <1>3, <1>9 DEF Reported, Ended
<1>11. \A i \in 1..Len(stream) :
         stream[i].kind # "partial_fill"
           => bstatus'[stream[i].order] \in {"filled", "canceled"}
  BY <1>3, <1>9 DEF Reported, Ended
<1>12. \A i \in 1..Len(stream') :
         stream'[i].kind # "partial_fill"
           => bstatus'[stream'[i].order] \in {"filled", "canceled"}
  <2>1. CASE stream' = stream
    BY <1>11, <2>1
  <2>2. CASE stream' = Append(stream, sent)
    <3>1. stream \in Seq(Event \cup {sent})
      BY <1>9
    <3>2. /\ Len(stream') = Len(stream) + 1
          /\ stream'[Len(stream) + 1] = sent
          /\ \A i \in 1..Len(stream) : stream'[i] = stream[i]
          /\ Len(stream) \in Nat
      BY <2>2, <3>1, AppendType
    <3> QED
      BY <1>8, <1>11, <3>2 DEF Ended
  <2> QED
    BY <1>8, <2>1, <2>2 DEF Send
<1>13. Reported'
  BY <1>1, <1>10, <1>12 DEF Reported, Ended
<1> QED
  BY <1>4, <1>5, <1>6, <1>7, <1>13

\* Every step keeps the inductive invariant, the tracked orders that work,
\* and the knowledge of the working ones.
LEMMA NextInv ==
  ASSUME Inv, [Next]_vars
  PROVE  Inv' /\ KeepsWorking /\ (Known => Known')
<1> DEFINE Goal == /\ Lifecycle' /\ Reported' /\ Tracked' /\ KeepsWorking
                   /\ Known => Known'
<1>1. Typed'
  BY NextTyped DEF Inv
<1> SUFFICES Goal
  BY <1>1 DEF Inv
<1>2. ASSUME NEW o \in Orders, Submit(o) \/ BrokerEvent(o) PROVE Goal
  BY <1>2, SubmitInv, BrokerInv
<1>3. CASE Gateway
  BY <1>3, GatewayInv DEF Gateway
<1>4. CASE Listener
  BY <1>4, SessionInv, MessageInv, ReconciliationInv DEF Listener
<1>5. CASE ConnectionLost
  BY <1>5, SessionInv DEF ConnectionLost
<1>6. CASE UNCHANGED vars
  <2>1. UNCHANGED <<bstatus, bcancel, stream, page, slots, stage, queue, gpc,
                    gorder, gprev>>
    BY <1>6 DEF vars, brokerVars, gatewayVars, listenerVars, reconcileVars
  <2>2. Lifecycle'
    BY <2>1 DEF Inv, Lifecycle
  <2>3. Reported'
    BY <2>1 DEF Inv, Reported, Ended
  <2>4. Tracked'
    BY <2>1 DEF Inv, Tracked, Working
  <2>5. Known => Known'
    BY <2>1 DEF Known, Lost, Working
  <2>6. KeepsWorking
    BY <2>1 DEF KeepsWorking
  <2> QED
    BY <2>2, <2>3, <2>4, <2>5, <2>6
<1> HIDE DEF Goal
<1> QED
  BY <1>2, <1>3, <1>4, <1>5, <1>6 DEF Next, Idle

\* The invariant holds throughout.
LEMMA Invariance == Spec => []Inv
<1>1. Inv /\ [Next]_vars => Inv'
  BY NextInv
<1> QED
  BY <1>1, InitInv, PTL DEF Spec

\* The tracker never forgets an order that may still execute, whatever the
\* broker, the connection and the replies do.
THEOREM TrackerSafe == Spec => TrackerKeepsWorking
<1>1. Inv /\ [Next]_vars =>
        [\A o \in Orders :
           (slots[SlotOf(o)] = o /\ slots'[SlotOf(o)] # o) => ~Working(o)']_vars
  BY NextInv DEF KeepsWorking
<1> QED
  BY <1>1, Invariance, PTL DEF Spec, TrackerKeepsWorking

\* The broker never has two working orders of one symbol and side, whatever
\* goes wrong, other than orders whose acknowledgement was lost.
THEOREM OneWorkingOrder == Spec => []AtMostOneWorking
<1>1. Init => Inv /\ Known
  BY InitInv
<1>2. (Inv /\ Known) /\ [Next]_vars => (Inv /\ Known)'
  BY NextInv
<1>3. Inv /\ Known => AtMostOneWorking
  BY DEF Inv, Tracked, Known, AtMostOneWorking
<1> QED
  BY <1>1, <1>2, <1>3, PTL DEF Spec
=============================================================================
