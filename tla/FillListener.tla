---------------------------- MODULE FillListener ----------------------------
(***************************************************************************)
(* AlpacaFillListener: the WebSocket session with the trade_updates stream *)
(* and what each message does to the positions, to the tracker and to the  *)
(* listener's own memory of what it has counted.  All of it runs on the    *)
(* one WebSocket thread, so a message waits while a reconciliation runs;   *)
(* the broker and the gateway do not.                                      *)
(***************************************************************************)
EXTENDS Broker, PositionBook, PendingOrderTracker

CONSTANTS
  MaxTracked,  \* kMaxTrackedOrders
  PageSize     \* kPageSize, the limit of one query

ASSUME ListenerAssumption ==
  /\ MaxTracked \in Nat \ {0}
  /\ PageSize \in Nat \ {0}

VARIABLES
  conn,           \* the session: down, open, refused, or listening
  hasConnected,   \* has_connected_
  sessionStart,   \* session_start_iso_, as a position in created
  phase,          \* whether a reconciliation runs, and what it does next
  cursor,         \* its cursor, as a position in created
  page,           \* what is left of the page it works on
  more,           \* whether that page was full
  filledEntries,  \* filled_entries_
  completed       \* completed_entries_

reconcileVars == <<phase, cursor, page, more>>
sessionVars == <<conn, hasConnected, sessionStart>>
ledgerVars == <<filledEntries, completed>>
listenerVars == <<sessionVars, reconcileVars, ledgerVars>>

FilledEntry == [order : Orders, qty : Int]

ListenerInit ==
  /\ conn = "down"
  /\ hasConnected = FALSE
  /\ sessionStart = 0
  /\ phase = "idle"
  /\ cursor = 0
  /\ page = <<>>
  /\ more = FALSE
  /\ filledEntries = <<>>
  /\ completed = <<>>

ListenerType ==
  /\ conn \in {"down", "open", "refused", "listening"}
  /\ hasConnected \in BOOLEAN
  /\ sessionStart \in Nat
  /\ phase \in {"idle", "query", "apply"}
  /\ cursor \in Nat
  /\ page \in Seq(Snapshots)
  /\ more \in BOOLEAN
  /\ filledEntries \in Seq(FilledEntry)
  /\ completed \in Seq(Orders)

-----------------------------------------------------------------------------

\* At the limit the oldest entry makes room for the new one.
Remember(entries, e) ==
  Append(IF Len(entries) >= MaxTracked THEN Tail(entries) ELSE entries, e)

\* findFilledQty
FindFilledQty(o) ==
  IF \E i \in DOMAIN filledEntries : filledEntries[i].order = o
  THEN filledEntries[CHOOSE i \in DOMAIN filledEntries :
                       filledEntries[i].order = o].qty
  ELSE 0

\* upsertFilledQty
UpsertFilledQty(o, q) ==
  IF \E i \in DOMAIN filledEntries : filledEntries[i].order = o
  THEN [i \in DOMAIN filledEntries |->
          IF filledEntries[i].order = o THEN [order |-> o, qty |-> q]
          ELSE filledEntries[i]]
  ELSE Remember(filledEntries, [order |-> o, qty |-> q])

\* isCompleted
IsCompleted(o) == \E i \in DOMAIN completed : completed[i] = o

\* markCompleted
MarkCompleted(o) == IF IsCompleted(o) THEN completed ELSE Remember(completed, o)

-----------------------------------------------------------------------------

\* The socket opens: sendAuth.
Open ==
  /\ conn = "down"
  /\ phase = "idle"
  /\ conn' = "open"
  /\ UNCHANGED <<brokerVars, position, slots, hasConnected, sessionStart,
                 reconcileVars, ledgerVars>>

\* The first authorization: sendSubscribe, and the session's start time is
\* taken.  nowIso8601 rounds down to the second, so orders created a moment
\* earlier may still count as later.
FirstAuthorized ==
  /\ conn = "open"
  /\ ~hasConnected
  /\ conn' = "listening"
  /\ hasConnected' = TRUE
  /\ sessionStart' \in 0..Len(created)
  /\ UNCHANGED <<brokerVars, position, slots, reconcileVars, ledgerVars>>

\* A listener that does not reconcile.
ReauthorizedOnly ==
  /\ conn = "open"
  /\ hasConnected
  /\ conn' = "listening"
  /\ UNCHANGED <<brokerVars, position, slots, hasConnected, sessionStart,
                 reconcileVars, ledgerVars>>

\* A later authorization: sendSubscribe, then reconcileAfterReconnect.
Reauthorized ==
  /\ conn = "open"
  /\ hasConnected
  /\ conn' = "listening"
  /\ phase' = "query"
  /\ cursor' = sessionStart
  /\ UNCHANGED <<brokerVars, position, slots, hasConnected, sessionStart,
                 page, more, ledgerVars>>

\* Any other authorization status is logged, and nothing else is sent.
AuthorizationFails ==
  /\ "authFail" \in Faults
  /\ conn = "open"
  /\ conn' = "refused"
  /\ UNCHANGED <<brokerVars, position, slots, hasConnected, sessionStart,
                 reconcileVars, ledgerVars>>

\* The broker acts on the subscription; handleListening only logs.
Subscribed ==
  /\ conn = "listening"
  /\ ~subscribed
  /\ subscribed' = TRUE
  /\ UNCHANGED <<bstatus, bfilled, bcancel, created, stream, position, slots,
                 listenerVars>>

\* The connection drops with the events under way, at any moment; a
\* reconciliation in progress goes on, it does not use the socket.
Disconnect ==
  /\ conn # "down"
  /\ conn' = "down"
  /\ subscribed' = FALSE
  /\ stream' = <<>>
  /\ UNCHANGED <<bstatus, bfilled, bcancel, created, position, slots,
                 hasConnected, sessionStart, reconcileVars, ledgerVars>>

-----------------------------------------------------------------------------

\* A trade_updates message is handled only between reconciliations.
NextEvent(kinds) ==
  /\ phase = "idle"
  /\ stream # <<>>
  /\ Head(stream).kind \in kinds
  /\ stream' = Tail(stream)
  /\ UNCHANGED <<bstatus, bfilled, bcancel, created, subscribed>>

\* processFillEvent for a partial fill.
ProcessPartialFill ==
  LET o == Head(stream).order
      q == Head(stream).qty
  IN  /\ NextEvent({"partial_fill"})
      /\ position' = OnFill(position, o, q)
      /\ filledEntries' = UpsertFilledQty(o, FindFilledQty(o) + q)
      /\ UNCHANGED <<completed, slots, sessionVars, reconcileVars>>

\* processFillEvent for the fill that completes an order.
ProcessFill ==
  LET o == Head(stream).order
      q == Head(stream).qty
  IN  /\ NextEvent({"fill"})
      /\ position' = OnFill(position, o, q)
      /\ filledEntries' = UpsertFilledQty(o, FindFilledQty(o) + q)
      /\ completed' = MarkCompleted(o)
      /\ slots' = OnOrderCompleted(o)
      /\ UNCHANGED <<sessionVars, reconcileVars>>

\* processCancelEvent.
ProcessCancel ==
  LET o == Head(stream).order
      q == Head(stream).qty
  IN  /\ NextEvent({"canceled"})
      /\ position' = OnOrderCancelled(position, o, q)
      /\ completed' = MarkCompleted(o)
      /\ slots' = OnOrderCompleted(o)
      /\ UNCHANGED <<filledEntries, sessionVars, reconcileVars>>

-----------------------------------------------------------------------------

\* How many orders a query for those created after a given one returns.
PageLength(after) ==
  IF Len(created) - after < PageSize THEN Len(created) - after ELSE PageSize

\* The first n orders that queryOrders("all", after) returns, oldest first.
QueryOrders(after, n) == [i \in 1..n |-> Snapshot(created[after + i])]

\* A page of n orders arrives; cursor moves onto the last of them.
TakePage(n) ==
  /\ phase = "query"
  /\ page' = QueryOrders(cursor, n)
  /\ more' = (n = PageSize)
  /\ cursor' = cursor + n
  /\ phase' = "apply"
  /\ UNCHANGED <<brokerVars, position, slots, sessionVars, ledgerVars>>

\* The next page of orders created after cursor.
ReconcileQuery == TakePage(PageLength(cursor))

\* The response is as long, but some of it are orders that queryOrders skips
\* because their quantity is not a whole number (the account's, not the
\* engine's): n orders are left of the page, which is no longer full.
ReconcileQuerySkips ==
  /\ "foreignOrder" \in Faults
  /\ \E n \in 0..PageLength(cursor) : n < PageSize /\ TakePage(n)

\* queryOrders fails: the reconciliation is given up.
ReconcileQueryFails ==
  /\ "queryFail" \in Faults
  /\ phase = "query"
  /\ phase' = "idle"
  /\ UNCHANGED <<brokerVars, position, slots, sessionVars, cursor, page, more,
                 ledgerVars>>

\* The order of the page that the loop has come to.
ReconcileItem ==
  /\ phase = "apply"
  /\ page # <<>>
  /\ page' = Tail(page)
  /\ UNCHANGED <<brokerVars, sessionVars, phase, cursor, more>>

Item == Head(page)
Missed == Item.filled - FindFilledQty(Item.order)

\* An order known to be complete, one the broker has nothing new about, or a
\* fill that was counted already.
ReconcileNothing ==
  /\ ReconcileItem
  /\ \/ IsCompleted(Item.order)
     \/ Item.status = "new"
     \/ Item.status \in {"filled", "partially_filled"} /\ Missed <= 0
  /\ UNCHANGED <<position, slots, ledgerVars>>

\* reconcileFill that applies all the broker's fills again.
ReconcileFillAgain ==
  LET o == Item.order
  IN  /\ ReconcileItem
      /\ ~IsCompleted(o)
      /\ Item.status \in {"filled", "partially_filled"}
      /\ Missed > 0
      /\ position' = OnFill(position, o, Item.filled)
      /\ filledEntries' = UpsertFilledQty(o, FindFilledQty(o) + Item.filled)
      /\ IF Item.status = "filled"
         THEN completed' = MarkCompleted(o) /\ slots' = OnOrderCompleted(o)
         ELSE UNCHANGED <<completed, slots>>

\* reconcileFill: apply what the stream did not bring.
ReconcileFill ==
  LET o == Item.order
  IN  /\ ReconcileItem
      /\ ~IsCompleted(o)
      /\ Item.status \in {"filled", "partially_filled"}
      /\ Missed > 0
      /\ position' = OnFill(position, o, Missed)
      /\ filledEntries' = UpsertFilledQty(o, Item.filled)
      /\ IF Item.status = "filled"
         THEN completed' = MarkCompleted(o) /\ slots' = OnOrderCompleted(o)
         ELSE UNCHANGED <<completed, slots>>

\* reconcileCancel without the fills missed before the cancel.
ReconcileCancelOnly ==
  LET o == Item.order
  IN  /\ ReconcileItem
      /\ ~IsCompleted(o)
      /\ Item.status = "canceled"
      /\ position' = OnOrderCancelled(position, o, QtyOf[o] - Item.filled)
      /\ UNCHANGED filledEntries
      /\ completed' = MarkCompleted(o)
      /\ slots' = OnOrderCompleted(o)

\* reconcileCancel: apply the missed fills, then give back the rest.
ReconcileCancel ==
  LET o == Item.order
      fills == IF Missed > 0 THEN OnFill(position, o, Missed) ELSE position
  IN  /\ ReconcileItem
      /\ ~IsCompleted(o)
      /\ Item.status = "canceled"
      /\ position' = OnOrderCancelled(fills, o, QtyOf[o] - Item.filled)
      /\ filledEntries' = IF Missed > 0 THEN UpsertFilledQty(o, Item.filled)
                          ELSE filledEntries
      /\ completed' = MarkCompleted(o)
      /\ slots' = OnOrderCompleted(o)

\* A full page is followed by another query, a shorter one is the last.
ReconcilePageEnds ==
  /\ phase = "apply"
  /\ page = <<>>
  /\ phase' = IF more THEN "query" ELSE "idle"
  /\ UNCHANGED <<brokerVars, position, slots, sessionVars, cursor, page, more,
                 ledgerVars>>

Session ==
  \/ Open
  \/ FirstAuthorized
  \/ Reauthorized
  \/ AuthorizationFails
  \/ Subscribed

Messages ==
  \/ ProcessPartialFill
  \/ ProcessFill
  \/ ProcessCancel

Reconciliation ==
  \/ ReconcileQuery
  \/ ReconcileQuerySkips
  \/ ReconcileQueryFails
  \/ ReconcileNothing
  \/ ReconcileFill
  \/ ReconcileCancel
  \/ ReconcilePageEnds
=============================================================================
