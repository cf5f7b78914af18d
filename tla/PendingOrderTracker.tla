------------------------ MODULE PendingOrderTracker ------------------------
(***************************************************************************)
(* PendingOrderTracker: the broker's id of the last order placed for each  *)
(* symbol and side.  The oneTBB map makes each call atomic; each operator  *)
(* is the map's new value after one call.                                  *)
(***************************************************************************)
EXTENDS TradingTypes

VARIABLE slots   \* slots_: the tracked order of each symbol and side

TrackerInit == slots = [k \in Slots |-> NoOrder]

TrackerType == slots \in [Slots -> Orders \cup {NoOrder}]

\* getExistingOrder
ExistingOrder(o) == slots[SlotOf(o)]

\* recordOrder: whatever was there is overwritten
RecordOrder(o) == [slots EXCEPT ![SlotOf(o)] = o]

\* A tracker that clears the slot whichever order it holds.
OnAnyOrderCompleted(o) == [slots EXCEPT ![SlotOf(o)] = NoOrder]

\* onOrderCompleted: the slot is cleared only if it still holds o
OnOrderCompleted(o) ==
  IF slots[SlotOf(o)] = o THEN [slots EXCEPT ![SlotOf(o)] = NoOrder] ELSE slots
=============================================================================
