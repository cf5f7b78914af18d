---------------------------- MODULE TradingTypes ----------------------------
(***************************************************************************)
(* The orders of a session (include/Order.hpp, include/Fill.hpp) and what  *)
(* their fields mean.  An order is a number; what the strategy decided     *)
(* about it (symbol, side, quantity) never changes, so it is a constant.   *)
(***************************************************************************)
EXTENDS Integers, FiniteSetsExt

CONSTANTS
  MaxOrders,   \* bound: orders of the session
  Symbols,     \* the traded symbols
  SymbolOf,    \* the symbol of each order
  SideOf,      \* the side of each order
  QtyOf,       \* the quantity of each order
  NoOrder,     \* an empty slot, std::nullopt
  Faults       \* what the environment may do to the engine

\* lostAck: the broker accepts an order and placeOrder reports an error (a
\*   timeout after the request was sent, a reply that is not JSON).
\* eventInWindow: the broker executes or cancels an order while the listener
\*   has asked to be subscribed but is not yet, or has yet to query it.
\* earlyOrder: the gateway places an order before the listener's first
\*   authorization.
\* queryFail: a reconciliation query fails.
\* foreignOrder: the account has orders that queryOrders cannot represent.
\* authFail: the broker refuses the listener's authorization.
FaultKinds ==
  {"lostAck", "eventInWindow", "earlyOrder", "queryFail", "foreignOrder", "authFail"}

Orders == 1..MaxOrders
Sides == {"Buy", "Sell"}

ASSUME TypesAssumption ==
  /\ MaxOrders \in Nat
  /\ SymbolOf \in [Orders -> Symbols]
  /\ SideOf \in [Orders -> Sides]
  /\ QtyOf \in [Orders -> Nat \ {0}]
  /\ NoOrder \notin Orders
  /\ Faults \subseteq FaultKinds

\* OrderSlotKey: the tracker keeps one order per symbol and side.
Slots == Symbols \X Sides
SlotOf(o) == <<SymbolOf[o], SideOf[o]>>

\* A quantity of o as it moves a position: buys add, sells subtract.
Signed(o, q) == IF SideOf[o] = "Buy" THEN q ELSE -q

OrdersOf(s) == {o \in Orders : SymbolOf[o] = s}

Abs(n) == IF n < 0 THEN -n ELSE n
=============================================================================
