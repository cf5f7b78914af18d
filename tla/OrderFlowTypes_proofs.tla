----------------------- MODULE OrderFlowTypes_proofs ------------------------
(***************************************************************************)
(* Type correctness of OrderFlow, for any number of orders, symbols,       *)
(* quantities, page sizes and lost connections.                            *)
(***************************************************************************)
EXTENDS OrderFlow, TLAPS

\* The provers get 30 seconds a leaf; most need one.
USE SMTT(30), ZenonT(30) DEF Orders, Sides

\* Positions in created that the listener holds exist, and the broker never
\* executes more of an order than was ordered.
Bounds ==
  /\ sessionStart <= Len(created)
  /\ cursor <= Len(created)
  /\ \A o \in Orders : bfilled[o] <= QtyOf[o]

Typed == TypeOK /\ Bounds

\* An order's slot is a slot of the tracker.
LEMMA SlotType == \A o \in Orders : SlotOf(o) \in Slots
BY TypesAssumption DEF SlotOf, Slots

\* The elements of a sequence over S are in S.
LEMMA ElementType ==
  ASSUME NEW S, NEW s \in Seq(S), NEW i \in 1..Len(s)
  PROVE  s[i] \in S
OBVIOUS

\* What Head and Tail are in terms of the elements.
LEMMA HeadTail ==
  ASSUME NEW S, NEW s \in Seq(S), s # <<>>
  PROVE  /\ Head(s) \in S
         /\ Tail(s) \in Seq(S)
         /\ Len(Tail(s)) = Len(s) - 1
         /\ \A i \in 1..Len(Tail(s)) : Tail(s)[i] = s[i + 1]
         /\ Head(s) = s[1]
         /\ Len(s) >= 1
OBVIOUS

\* Append adds its element at the end.
LEMMA AppendType ==
  ASSUME NEW S, NEW s \in Seq(S), NEW e \in S
  PROVE  /\ Append(s, e) \in Seq(S)
         /\ Len(Append(s, e)) = Len(s) + 1
         /\ Append(s, e)[Len(s) + 1] = e
         /\ \A i \in 1..Len(s) : Append(s, e)[i] = s[i]
OBVIOUS

\* upsertFilledQty and markCompleted keep the listener's memory well formed,
\* also when they evict.
LEMMA RememberType ==
  ASSUME NEW S, NEW s \in Seq(S), NEW e \in S
  PROVE  Remember(s, e) \in Seq(S)
<1>1. CASE Len(s) >= MaxTracked
  <2>1. s # <<>>
    BY <1>1, ListenerAssumption
  <2>2. Tail(s) \in Seq(S)
    BY <2>1, HeadTail
  <2> QED
    BY <1>1, <2>2, AppendType DEF Remember
<1>2. CASE ~(Len(s) >= MaxTracked)
  BY <1>2, AppendType DEF Remember
<1> QED
  BY <1>1, <1>2

\* findFilledQty returns a quantity.
LEMMA FoundType ==
  ASSUME filledEntries \in Seq(FilledEntry), NEW o \in Orders
  PROVE  FindFilledQty(o) \in Int
<1> DEFINE Holds(i) == filledEntries[i].order = o
           c == CHOOSE i \in DOMAIN filledEntries : Holds(i)
<1>1. CASE \E i \in DOMAIN filledEntries : Holds(i)
  <2>1. c \in DOMAIN filledEntries
    <3> HIDE DEF Holds
    <3> QED
      BY <1>1
  <2>2. filledEntries[c] \in FilledEntry
    BY <2>1
  <2>3. filledEntries[c].qty \in Int
    BY <2>2 DEF FilledEntry
  <2> QED
    BY <1>1, <2>3 DEF FindFilledQty
<1>2. CASE ~\E i \in DOMAIN filledEntries : Holds(i)
  BY <1>2 DEF FindFilledQty
<1> QED
  BY <1>1, <1>2

\* upsertFilledQty leaves a list of entries, evicting or not.
LEMMA UpsertType ==
  ASSUME filledEntries \in Seq(FilledEntry), NEW o \in Orders, NEW q \in Int
  PROVE  UpsertFilledQty(o, q) \in Seq(FilledEntry)
<1>1. [order |-> o, qty |-> q] \in FilledEntry
  BY DEF FilledEntry
<1>2. CASE \E i \in DOMAIN filledEntries : filledEntries[i].order = o
  BY <1>1, <1>2 DEF UpsertFilledQty
<1>3. CASE ~\E i \in DOMAIN filledEntries : filledEntries[i].order = o
  BY <1>1, <1>3, RememberType DEF UpsertFilledQty
<1> QED
  BY <1>2, <1>3

\* markCompleted leaves a list of orders, evicting or not.
LEMMA MarkType ==
  ASSUME completed \in Seq(Orders), NEW o \in Orders
  PROVE  MarkCompleted(o) \in Seq(Orders)
BY ZenonT(30), RememberType DEF MarkCompleted

\* PositionManager's calls leave integer counters.
LEMMA PositionOps ==
  ASSUME NEW pos \in [Symbols -> [filled : Int, pending : Int]],
         NEW o \in Orders, NEW q \in Int
  PROVE  /\ OnOrderSent(pos, o) \in [Symbols -> [filled : Int, pending : Int]]
         /\ OnOrderCancelled(pos, o, q)
              \in [Symbols -> [filled : Int, pending : Int]]
         /\ OnFill(pos, o, q) \in [Symbols -> [filled : Int, pending : Int]]
<1> DEFINE Rec == [filled : Int, pending : Int]
<1>1. SymbolOf[o] \in Symbols /\ QtyOf[o] \in Int
  BY TypesAssumption
<1>2. Signed(o, q) \in Int /\ Signed(o, QtyOf[o]) \in Int
  BY <1>1 DEF Signed
<1>3. pos[SymbolOf[o]].filled \in Int /\ pos[SymbolOf[o]].pending \in Int
  BY <1>1
<1>4. OnFill(pos, o, q) \in [Symbols -> Rec]
  BY <1>1, <1>2, <1>3 DEF OnFill
<1>5. OnOrderSent(pos, o) \in [Symbols -> Rec]
  BY <1>1, <1>2, <1>3 DEF OnOrderSent
<1>6. OnOrderCancelled(pos, o, q) \in [Symbols -> Rec]
  BY <1>1, <1>2, <1>3 DEF OnOrderCancelled
<1> QED
  BY <1>4, <1>5, <1>6

\* The tracker's calls leave an order or nothing in each slot.
LEMMA TrackerOps ==
  ASSUME TrackerType, NEW o \in Orders
  PROVE  /\ RecordOrder(o) \in [Slots -> Orders \cup {NoOrder}]
         /\ OnOrderCompleted(o) \in [Slots -> Orders \cup {NoOrder}]
         /\ ExistingOrder(o) \in Orders \cup {NoOrder}
BY SlotType DEF TrackerType, RecordOrder, OnOrderCompleted, ExistingOrder

-----------------------------------------------------------------------------

\* The types hold at the start.
LEMMA InitTyped == Init => Typed
<1> SUFFICES ASSUME Init PROVE Typed
  OBVIOUS
<1> USE TypesAssumption DEF Init
<1>1. BrokerType
  <2>1. <<>> \in Seq(Orders) /\ <<>> \in Seq(Event)
    OBVIOUS
  <2> QED
    BY ZenonT(30), <2>1 DEF BrokerInit, BrokerType
<1>2. PositionType
  BY DEF PositionInit, PositionType
<1>3. TrackerType
  BY DEF TrackerInit, TrackerType
<1>4. GatewayType
  BY DEF GatewayInit, GatewayType
<1>5. ListenerType
  <2>1. <<>> \in Seq(Snapshots) /\ <<>> \in Seq(FilledEntry)
          /\ <<>> \in Seq(Orders)
    OBVIOUS
  <2> QED
    BY ZenonT(30), <2>1 DEF ListenerInit, ListenerType
<1>6. Bounds
  <2>1. Len(created) = 0 /\ \A o \in Orders : bfilled[o] = 0
    BY DEF BrokerInit
  <2> QED
    BY <2>1 DEF Bounds, ListenerInit
<1>7. drops \in Nat
  OBVIOUS
<1> QED
  BY <1>1, <1>2, <1>3, <1>4, <1>5, <1>6, <1>7 DEF Typed, TypeOK

\* What the gateway does to its own variables.
LEMMA FinishType ==
  ASSUME GatewayType, gpc # "idle", NEW outcome \in {"placed", "dropped"},
         Finish(outcome)
  PROVE  GatewayType'
BY DEF GatewayType, Finish

\* onOrderCancelled and the return to the loop keep the types.
LEMMA DropType ==
  ASSUME GatewayType, PositionType, gpc # "idle", Drop
  PROVE  GatewayType' /\ PositionType'
<1>1. GatewayType'
  BY FinishType DEF Drop
<1>2. gorder \in Orders /\ QtyOf[gorder] \in Int
  BY TypesAssumption DEF GatewayType
<1>3. PositionType'
  BY <1>2, PositionOps DEF Drop, PositionType
<1> QED
  BY <1>1, <1>3

\* The gateway's steps, and what each does to the broker.
LEMMA GatewayTyped ==
  ASSUME Typed, GatewayStep, UNCHANGED <<listenerVars, drops>>
  PROVE  Typed'
<1> USE DEF Typed, TypeOK
<1>1. ListenerType' /\ drops' \in Nat
  BY DEF listenerVars, sessionVars, reconcileVars, ledgerVars, ListenerType
<1>2. ASSUME UNCHANGED brokerVars PROVE BrokerType' /\ Bounds'
  BY <1>2
  DEF brokerVars, BrokerType, Bounds, listenerVars, sessionVars, reconcileVars
<1>3. ASSUME NEW o \in Orders, BrokerTakesCancel(o) PROVE BrokerType' /\ Bounds'
  BY <1>3
  DEF BrokerTakesCancel, BrokerType, Bounds, listenerVars, sessionVars,
      reconcileVars
<1>4. ASSUME NEW o \in Orders, BrokerAccepts(o) PROVE BrokerType' /\ Bounds'
  <2>1. created' \in Seq(Orders) /\ Len(created') = Len(created) + 1
    BY <1>4, AppendType DEF BrokerAccepts, BrokerType
  <2>2. BrokerType'
    BY <1>4, <2>1 DEF BrokerAccepts, BrokerType
  <2>3. /\ UNCHANGED <<sessionStart, cursor>>
        /\ sessionStart \in Nat /\ cursor \in Nat /\ Len(created) \in Nat
    BY DEF BrokerType, ListenerType, listenerVars, sessionVars, reconcileVars
  <2>4. \A p \in Orders : bfilled'[p] <= QtyOf[p]
    BY <1>4, TypesAssumption DEF BrokerAccepts, BrokerType, Bounds
  <2> QED
    BY <2>1, <2>2, <2>3, <2>4 DEF Bounds
<1>5. CASE Pop
  <2>1. Head(queue) \in Orders /\ Tail(queue) \in Seq(Orders)
    BY ZenonT(30), <1>5, HeadTail DEF Pop, GatewayType
  <2>2. ExistingOrder(Head(queue)) \in Orders \cup {NoOrder}
    BY <2>1, TrackerOps
  <2>3. GatewayType'
    BY <1>5, <2>1, <2>2 DEF Pop, GatewayType
  <2> QED
    BY <1>1, <1>2, <1>5, <2>3 DEF Pop, PositionType, TrackerType
<1>6. CASE CancelAccepted
  <2>1. gprev \in Orders /\ GatewayType'
    BY <1>6 DEF CancelAccepted, GatewayType
  <2> QED
    BY <1>1, <1>3, <1>6, <2>1 DEF CancelAccepted, PositionType, TrackerType
<1>7. CASE CancelFailed
  <2>1. gprev \in Orders
    BY <1>7 DEF CancelFailed, GatewayType
  <2>2. GatewayType' /\ PositionType'
    BY <1>7, DropType DEF CancelFailed
  <2> QED
    BY <1>1, <1>2, <1>3, <1>7, <2>1, <2>2 DEF CancelFailed, TrackerType
<1>8. CASE PlaceAccepted \/ PlaceAckLost
  <2>1. gorder \in Orders /\ GatewayType'
    BY <1>8 DEF PlaceAccepted, PlaceAckLost, GatewayType
  <2> QED
    BY <1>1, <1>4, <1>8, <2>1
    DEF PlaceAccepted, PlaceAckLost, PositionType, TrackerType
<1>9. CASE PlaceRefused \/ Release
  <2>1. GatewayType' /\ PositionType'
    BY <1>9, DropType DEF PlaceRefused, Release
  <2> QED
    BY <1>1, <1>2, <1>9, <2>1 DEF PlaceRefused, Release, TrackerType
<1>10. CASE Record
  <2>1. gorder \in Orders /\ GatewayType'
    BY <1>10, FinishType DEF Record, GatewayType
  <2>2. TrackerType'
    BY <1>10, <2>1, TrackerOps DEF Record, TrackerType
  <2> QED
    BY <1>1, <1>2, <1>10, <2>1, <2>2 DEF Record, PositionType
<1> QED
  BY <1>5, <1>6, <1>7, <1>8, <1>9, <1>10 DEF GatewayStep

\* A consumer that submits an order keeps the types.
LEMMA SubmitTyped ==
  ASSUME Typed, NEW o \in Orders, Submit(o)
  PROVE  Typed'
<1> USE DEF Typed, TypeOK
<1>1. queue' \in Seq(Orders)
  BY AppendType DEF Submit, GatewayType
<1>2. GatewayType'
  BY <1>1 DEF Submit, GatewayType
<1>3. PositionType'
  BY PositionOps DEF Submit, PositionType
<1>4. BrokerType' /\ Bounds'
  BY DEF Submit, BrokerType, Bounds, brokerVars, listenerVars, sessionVars,
     reconcileVars
<1>5. TrackerType' /\ ListenerType' /\ drops' \in Nat
  BY DEF Submit, TrackerType, ListenerType, listenerVars, sessionVars,
     reconcileVars, ledgerVars
<1> QED
  BY <1>2, <1>3, <1>4, <1>5

\* The session: what changes is conn, and the positions in created.
LEMMA SessionTyped ==
  ASSUME Typed, Session \/ Disconnect, UNCHANGED gatewayVars, drops' \in Nat
  PROVE  Typed'
<1> USE DEF Typed, TypeOK
<1>1. GatewayType'
  BY DEF gatewayVars, GatewayType
<1>2. PositionType' /\ TrackerType'
  BY DEF Session, Open, FirstAuthorized, Reauthorized, AuthorizationFails,
     Subscribed, Disconnect, PositionType, TrackerType
<1>3. <<>> \in Seq(Event)
  OBVIOUS
<1>4. BrokerType' /\ created' = created /\ bfilled' = bfilled
  BY ZenonT(30), <1>3
  DEF Session, Open, FirstAuthorized, Reauthorized, AuthorizationFails,
      Subscribed, Disconnect, BrokerType, brokerVars
<1>5. Len(created) \in Nat
  BY DEF BrokerType
<1> USE DEF ListenerType, Bounds
<1>6. CASE Open \/ AuthorizationFails \/ Subscribed \/ Disconnect
  BY <1>1, <1>2, <1>4, <1>6
  DEF Open, AuthorizationFails, Subscribed, Disconnect, reconcileVars,
      ledgerVars, listenerVars, sessionVars
<1>7. CASE FirstAuthorized
  BY <1>1, <1>2, <1>4, <1>5, <1>7
  DEF FirstAuthorized, reconcileVars, ledgerVars
<1>8. CASE Reauthorized
  BY <1>1, <1>2, <1>4, <1>8 DEF Reauthorized, ledgerVars
<1> QED
  BY <1>6, <1>7, <1>8 DEF Session

\* A message from the stream.
LEMMA MessageTyped ==
  ASSUME Typed, Messages, UNCHANGED <<gatewayVars, drops>>
  PROVE  Typed'
<1> USE DEF Typed, TypeOK
<1> DEFINE msg == Head(stream)
<1>1. stream # <<>>
  BY DEF Messages, ProcessPartialFill, ProcessFill, ProcessCancel, NextEvent
<1>2. msg \in Event /\ Tail(stream) \in Seq(Event)
  BY <1>1, HeadTail DEF BrokerType
<1>3. msg.order \in Orders /\ msg.qty \in Int
  BY <1>2 DEF Event
<1>4. /\ stream' = Tail(stream)
      /\ UNCHANGED <<bstatus, bfilled, bcancel, created, subscribed>>
      /\ UNCHANGED <<sessionVars, reconcileVars>>
  BY DEF Messages, ProcessPartialFill, ProcessFill, ProcessCancel, NextEvent
<1>5. BrokerType' /\ Bounds'
  BY <1>2, <1>4 DEF BrokerType, Bounds, sessionVars, reconcileVars
<1>6. GatewayType' /\ drops' \in Nat
  BY DEF gatewayVars, GatewayType
<1>7. PositionType'
  BY <1>3, PositionOps
  DEF Messages, ProcessPartialFill, ProcessFill, ProcessCancel, PositionType
<1>8. TrackerType'
  <2>1. slots' \in {slots, OnOrderCompleted(msg.order)}
    BY DEF Messages, ProcessPartialFill, ProcessFill, ProcessCancel
  <2> QED
    BY <1>3, <2>1, TrackerOps DEF TrackerType
<1>9. ListenerType'
  <2>1. FindFilledQty(msg.order) + msg.qty \in Int
    BY <1>3, FoundType DEF ListenerType
  <2>2. UpsertFilledQty(msg.order, FindFilledQty(msg.order) + msg.qty)
          \in Seq(FilledEntry)
    BY <1>3, <2>1, UpsertType DEF ListenerType
  <2>3. MarkCompleted(msg.order) \in Seq(Orders)
    BY <1>3, MarkType DEF ListenerType
  <2>4. filledEntries' \in Seq(FilledEntry) /\ completed' \in Seq(Orders)
    BY <2>2, <2>3
    DEF Messages, ProcessPartialFill, ProcessFill, ProcessCancel, ListenerType
  <2> QED
    BY <1>4, <2>4 DEF ListenerType, sessionVars, reconcileVars
<1> QED
  BY <1>5, <1>6, <1>7, <1>8, <1>9

\* A query returns snapshots.
LEMMA SnapshotType ==
  ASSUME BrokerType, NEW o \in Orders
  PROVE  Snapshot(o) \in Snapshots
BY DEF BrokerType, Snapshot, Snapshots

\* One order of a page, or the end of a page, or a query.
LEMMA ReconciliationTyped ==
  ASSUME Typed, Reconciliation, UNCHANGED <<gatewayVars, drops>>
  PROVE  Typed'
<1> USE DEF Typed, TypeOK
<1>1. UNCHANGED <<brokerVars, sessionVars>>
  BY DEF Reconciliation, ReconcileQuery, ReconcileQuerySkips, TakePage,
     ReconcileQueryFails, ReconcileNothing, ReconcileFill, ReconcileCancel, ReconcilePageEnds, ReconcileItem
<1>2. BrokerType'
  BY <1>1 DEF brokerVars, BrokerType
<1>3. GatewayType' /\ drops' \in Nat
  BY DEF gatewayVars, GatewayType
<1>4. CASE ReconcileQueryFails \/ ReconcilePageEnds
  BY <1>1, <1>2, <1>3, <1>4
  DEF ReconcileQueryFails, ReconcilePageEnds, PositionType, TrackerType,
      ListenerType, Bounds, brokerVars, sessionVars, ledgerVars
<1>5. CASE ReconcileQuery \/ ReconcileQuerySkips
  <2>0. PICK size \in 0..PageLength(cursor) : TakePage(size)
    <3>1. PageLength(cursor) \in 0..PageLength(cursor)
      BY ListenerAssumption DEF PageLength, BrokerType, ListenerType, Bounds
    <3> QED
      BY ZenonT(30), <1>5, <3>1 DEF ReconcileQuery, ReconcileQuerySkips
  <2>1. size \in Nat /\ cursor + size \in 0..Len(created) /\ cursor \in Nat
    BY ListenerAssumption DEF PageLength, BrokerType, ListenerType, Bounds
  <2>2. /\ page' = [i \in 1..size |-> Snapshot(created[cursor + i])]
        /\ cursor' = cursor + size
        /\ more' = (size = PageSize)
        /\ phase' = "apply"
        /\ UNCHANGED <<position, slots, ledgerVars>>
    BY <2>0 DEF TakePage, QueryOrders
  <2>3. \A i \in 1..size : created[cursor + i] \in Orders
    <3> SUFFICES ASSUME NEW i \in 1..size
                 PROVE  created[cursor + i] \in Orders
      OBVIOUS
    <3>1. cursor + i \in 1..Len(created)
      BY <2>1 DEF BrokerType
    <3>2. created \in Seq(Orders)
      BY DEF BrokerType
    <3> QED
      BY ZenonT(30), <3>1, <3>2, ElementType
  <2>4. \A i \in 1..size : Snapshot(created[cursor + i]) \in Snapshots
    BY <2>3, SnapshotType
  <2>5. page' \in Seq(Snapshots)
    BY <2>1, <2>2, <2>4
  <2>6. ListenerType'
    BY <1>1, <2>1, <2>2, <2>5 DEF ListenerType, sessionVars, ledgerVars
  <2>7. Bounds'
    BY <1>1, <2>1, <2>2 DEF Bounds, brokerVars, sessionVars
  <2> QED
    BY <1>2, <1>3, <2>2, <2>6, <2>7 DEF PositionType, TrackerType
<1>6. CASE ReconcileNothing \/ ReconcileFill \/ ReconcileCancel
  <2>1. /\ page # <<>> /\ page' = Tail(page)
        /\ UNCHANGED <<phase, cursor, more>>
    BY ZenonT(30), <1>6
    DEF ReconcileNothing, ReconcileFill, ReconcileCancel, ReconcileItem
  <2>2. Item \in Snapshots /\ page' \in Seq(Snapshots)
    BY <2>1, HeadTail DEF ListenerType, Item
  <2>3. Item.order \in Orders /\ Item.filled \in Nat
    BY <2>2 DEF Snapshots
  <2>4. Missed \in Int /\ QtyOf[Item.order] - Item.filled \in Int
    <3>1. filledEntries \in Seq(FilledEntry)
      BY DEF ListenerType
    <3>2. FindFilledQty(Item.order) \in Int
      BY ZenonT(30), <2>3, <3>1, FoundType
    <3>3. QtyOf[Item.order] \in Nat
      BY <2>3, TypesAssumption
    <3> QED
      BY <2>3, <3>2, <3>3 DEF Missed
  <2>5. Bounds'
    BY <1>1, <2>1 DEF Bounds, brokerVars, sessionVars
  <2>6. UpsertFilledQty(Item.order, Item.filled) \in Seq(FilledEntry)
    <3>1. Item.filled \in Int /\ filledEntries \in Seq(FilledEntry)
      BY <2>3 DEF ListenerType
    <3> QED
      BY <2>3, <3>1, UpsertType
  <2>7. MarkCompleted(Item.order) \in Seq(Orders)
    BY <2>3, MarkType DEF ListenerType
  <2>8. filledEntries' \in Seq(FilledEntry) /\ completed' \in Seq(Orders)
    BY <1>6, <2>6, <2>7
    DEF ReconcileNothing, ReconcileFill, ReconcileCancel, ledgerVars, ListenerType
  <2>9. ListenerType'
    BY <1>1, <2>1, <2>2, <2>8 DEF ListenerType, sessionVars
  <2>10. slots' \in {slots, OnOrderCompleted(Item.order)}
    BY ZenonT(30), <1>6 DEF ReconcileNothing, ReconcileFill, ReconcileCancel
  <2>11. TrackerType'
    BY <2>3, <2>10, TrackerOps DEF TrackerType
  <2>12. OnFill(position, Item.order, Missed)
           \in [Symbols -> [filled : Int, pending : Int]]
    BY ZenonT(30), <2>3, <2>4, PositionOps DEF PositionType
  <2> DEFINE fills == IF Missed > 0 THEN OnFill(position, Item.order, Missed)
                      ELSE position
  <2>13. fills \in [Symbols -> [filled : Int, pending : Int]]
    BY <2>12 DEF PositionType
  <2>14. OnOrderCancelled(fills, Item.order, QtyOf[Item.order] - Item.filled)
           \in [Symbols -> [filled : Int, pending : Int]]
    <3> HIDE DEF fills
    <3> QED
      BY <2>3, <2>4, <2>13, PositionOps
  <2>15. PositionType'
    BY ZenonT(30), <1>6, <2>12, <2>14
    DEF ReconcileNothing, ReconcileFill, ReconcileCancel, PositionType
  <2> QED
    BY <1>2, <1>3, <2>5, <2>9, <2>11, <2>15
<1> QED
  BY <1>4, <1>5, <1>6 DEF Reconciliation

\* A fill or the end of an order at the broker.
LEMMA BrokerTyped ==
  ASSUME Typed, NEW o \in Orders, BrokerEvent(o)
  PROVE  Typed'
<1> USE DEF Typed, TypeOK
<1>1. /\ PositionType' /\ TrackerType' /\ GatewayType' /\ ListenerType'
      /\ drops' \in Nat
  BY DEF BrokerEvent, PositionType, TrackerType, GatewayType, ListenerType,
     gatewayVars, listenerVars, sessionVars, reconcileVars, ledgerVars
<1>2. Remaining(o) \in Nat /\ bfilled[o] \in Nat /\ QtyOf[o] \in Nat
  BY TypesAssumption DEF Remaining, Bounds, BrokerType
<1>3. ASSUME NEW e \in Event, Send(e) PROVE stream' \in Seq(Event)
  BY <1>3, AppendType DEF Send, BrokerType
<1>4. CASE BrokerCancels(o)
  <2>1. [kind |-> "canceled", order |-> o, qty |-> Remaining(o)] \in Event
    BY <1>2 DEF Event
  <2>2. stream' \in Seq(Event)
    BY <1>3, <1>4, <2>1 DEF BrokerCancels
  <2>3. BrokerType'
    BY <1>4, <2>2 DEF BrokerCancels, BrokerType
  <2>4. Bounds'
    BY <1>4 DEF BrokerCancels, BrokerEvent, Bounds, listenerVars, sessionVars,
                reconcileVars
  <2> QED
    BY <1>1, <2>3, <2>4
<1>5. ASSUME NEW q \in 1..QtyOf[o], BrokerFills(o, q) PROVE Typed'
  <2>1. q \in Nat /\ q <= Remaining(o)
    BY <1>2, <1>5 DEF BrokerFills
  <2>2. /\ [kind |-> "partial_fill", order |-> o, qty |-> q] \in Event
        /\ [kind |-> "fill", order |-> o, qty |-> q] \in Event
    BY <2>1 DEF Event
  <2>3. stream' \in Seq(Event)
    BY <1>3, <1>5, <2>2 DEF BrokerFills
  <2>4. bfilled' = [bfilled EXCEPT ![o] = @ + q]
    BY <1>5 DEF BrokerFills
  <2>5. bfilled' \in [Orders -> Nat]
    BY <2>1, <2>4 DEF BrokerType
  <2>6. BrokerType'
    BY <1>5, <2>3, <2>5 DEF BrokerFills, BrokerType
  <2>7. \A p \in Orders : bfilled'[p] <= QtyOf[p]
    BY <1>2, <2>1, <2>4, TypesAssumption
    DEF BrokerType, Bounds, Remaining
  <2>8. Bounds'
    BY <1>5, <2>7
    DEF BrokerFills, BrokerEvent, Bounds, listenerVars, sessionVars,
        reconcileVars
  <2> QED
    BY <1>1, <2>6, <2>8
<1> QED
  BY <1>4, <1>5 DEF BrokerEvent

\* Every step keeps the types.
LEMMA NextTyped == Typed /\ [Next]_vars => Typed'
<1> SUFFICES ASSUME Typed, [Next]_vars PROVE Typed'
  OBVIOUS
<1>1. ASSUME NEW o \in Orders, Submit(o) \/ BrokerEvent(o) PROVE Typed'
  BY <1>1, SubmitTyped, BrokerTyped
<1>2. CASE Gateway
  BY <1>2, GatewayTyped DEF Gateway
<1>3. CASE Listener
  <2>1. drops' \in Nat
    BY <1>3 DEF Listener, Typed, TypeOK
  <2> QED
    BY <1>3, <2>1, SessionTyped, MessageTyped, ReconciliationTyped DEF Listener
<1>4. CASE ConnectionLost
  <2>1. drops' \in Nat
    BY <1>4 DEF ConnectionLost, Typed, TypeOK
  <2> QED
    BY <1>4, <2>1, SessionTyped DEF ConnectionLost
<1>5. CASE UNCHANGED vars
  BY <1>5
  DEF vars, Typed, TypeOK, Bounds, BrokerType, PositionType, TrackerType,
      GatewayType, ListenerType, brokerVars, gatewayVars, listenerVars,
      sessionVars, reconcileVars, ledgerVars
<1> QED
  BY <1>1, <1>2, <1>3, <1>4, <1>5 DEF Next, Idle

\* Every variable keeps its type: in particular the gateway never cancels an
\* order it did not find, and a page never reads past the broker's list.
THEOREM TypeCorrect == Spec => []TypeOK
<1>1. Typed => TypeOK
  BY DEF Typed
<1> QED
  BY <1>1, InitTyped, NextTyped, PTL DEF Spec
=============================================================================
