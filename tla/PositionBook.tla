---------------------------- MODULE PositionBook ----------------------------
(***************************************************************************)
(* The filled and pending counters of PositionManager, one entry per       *)
(* symbol.  Each operator is the counters' new value after one call.  Cost *)
(* basis and profit are the subject of another module, and so are the      *)
(* loads and stores a call is made of.                                     *)
(***************************************************************************)
EXTENDS TradingTypes

VARIABLE position   \* filled and pending of every registered symbol

PositionInit == position = [s \in Symbols |-> [filled |-> 0, pending |-> 0]]

PositionType == position \in [Symbols -> [filled : Int, pending : Int]]

\* PositionManager::onOrderSent
OnOrderSent(pos, o) ==
  [pos EXCEPT ![SymbolOf[o]].pending = @ + Signed(o, QtyOf[o])]

\* PositionManager::onOrderCancelled for q shares of o
OnOrderCancelled(pos, o, q) ==
  [pos EXCEPT ![SymbolOf[o]].pending = @ - Signed(o, q)]

\* PositionManager::onFill for q shares of o
OnFill(pos, o, q) ==
  [pos EXCEPT ![SymbolOf[o]] = [filled  |-> @.filled + Signed(o, q),
                                pending |-> @.pending - Signed(o, q)]]

\* PositionManager::getTotalExposure
TotalExposure(pos, s) == pos[s].filled + pos[s].pending
=============================================================================
