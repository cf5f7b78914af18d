--------------------------- MODULE PositionLedger ---------------------------
(***************************************************************************)
(* The cost basis and the realized profit that PositionManager keeps for a *)
(* symbol: onFill with applyBuyFill and applySellFill, long and short, and *)
(* fills that cross from one to the other.  Only the fill listener's       *)
(* thread calls onFill, so a fill is one step.  Prices are integers, as    *)
(* they are after scaling, and divisions truncate as those of C++ do.      *)
(***************************************************************************)
EXTENDS Integers

CONSTANTS
  Prices,     \* scaled prices a fill may have
  MaxQty,     \* bound: the largest fill
  MaxFills    \* bound: the number of fills

ASSUME LedgerAssumption ==
  /\ Prices \subseteq Nat
  /\ MaxQty \in Nat
  /\ MaxFills \in Nat

VARIABLES
  filled,  \* filled
  cost,    \* cost_basis_total
  pnl,     \* realized_pnl
  paid,    \* history: paid for buys less received for sells
  low,     \* history: the lowest price the open position was entered at
  high,    \* history: the highest one
  fills    \* fills so far

vars == <<filled, cost, pnl, paid, low, high, fills>>

Init ==
  /\ filled = 0
  /\ cost = 0
  /\ pnl = 0
  /\ paid = 0
  /\ low = 0
  /\ high = 0
  /\ fills = 0

Least(a, b) == IF a < b THEN a ELSE b
Greatest(a, b) == IF a < b THEN b ELSE a
Magnitude(n) == IF n < 0 THEN -n ELSE n

\* a / b of C++, which rounds towards zero.
Quotient(a, b) ==
  IF (a < 0) = (b < 0) THEN Magnitude(a) \div Magnitude(b)
  ELSE -(Magnitude(a) \div Magnitude(b))

\* The range of entry prices after a fill that opens shares at p, of a new
\* position or of the one there is.
Enter(p, fresh) ==
  /\ low' = IF fresh THEN p ELSE Least(low, p)
  /\ high' = IF fresh THEN p ELSE Greatest(high, p)

\* A buy that takes the cost of the covered shares at the buy's own price.
ApplyBuyFillAtPrice(p, q) ==
  LET cover == IF filled < 0 THEN Least(q, -filled) ELSE 0
  IN  /\ pnl' = pnl
      /\ cost' = cost + p * q
      /\ IF q > cover THEN Enter(p, filled <= 0) ELSE UNCHANGED <<low, high>>
      /\ filled' = filled + q

\* applyBuyFill: first cover the short position, then open a long one.
ApplyBuyFill(p, q) ==
  LET cover == IF filled < 0 THEN Least(q, -filled) ELSE 0
      removed == IF cover > 0 THEN Quotient(cost * cover, filled) ELSE 0
  IN  /\ pnl' = pnl + (removed - p * cover)
      /\ cost' = cost + removed + p * (q - cover)
      /\ IF q > cover THEN Enter(p, filled <= 0) ELSE UNCHANGED <<low, high>>
      /\ filled' = filled + q

\* A sell that takes the average price first and multiplies then.
ApplySellFillByAverage(p, q) ==
  LET sold == IF filled > 0 THEN Least(q, filled) ELSE 0
      removed == IF sold > 0 THEN Quotient(cost, filled) * sold ELSE 0
  IN  /\ pnl' = pnl + (p * sold - removed)
      /\ cost' = cost - removed - p * (q - sold)
      /\ IF q > sold THEN Enter(p, filled >= 0) ELSE UNCHANGED <<low, high>>
      /\ filled' = filled - q

\* A sell whose profit forgets the cost of the shares sold.
ApplySellFillGross(p, q) ==
  LET sold == IF filled > 0 THEN Least(q, filled) ELSE 0
      removed == IF sold > 0 THEN Quotient(cost * sold, filled) ELSE 0
  IN  /\ pnl' = pnl + p * sold
      /\ cost' = cost - removed - p * (q - sold)
      /\ IF q > sold THEN Enter(p, filled >= 0) ELSE UNCHANGED <<low, high>>
      /\ filled' = filled - q

\* applySellFill: first sell the long position, then open a short one.
ApplySellFill(p, q) ==
  LET sold == IF filled > 0 THEN Least(q, filled) ELSE 0
      removed == IF sold > 0 THEN Quotient(cost * sold, filled) ELSE 0
  IN  /\ pnl' = pnl + (p * sold - removed)
      /\ cost' = cost - removed - p * (q - sold)
      /\ IF q > sold THEN Enter(p, filled >= 0) ELSE UNCHANGED <<low, high>>
      /\ filled' = filled - q

\* onFill, for the two sides
BuyFill(p, q) == ApplyBuyFill(p, q) /\ paid' = paid + p * q
SellFill(p, q) == ApplySellFill(p, q) /\ paid' = paid - p * q

OnFill ==
  /\ fills < MaxFills
  /\ fills' = fills + 1
  /\ \E p \in Prices, q \in 1..MaxQty : BuyFill(p, q) \/ SellFill(p, q)

\* The bound on fills is reached.
NoMoreFills == fills = MaxFills /\ UNCHANGED vars

Next == OnFill \/ NoMoreFills

Spec == Init /\ [][Next]_vars

-----------------------------------------------------------------------------

\* A long position's cost is positive, a short one's negative.
TypeOK ==
  /\ filled \in Int
  /\ cost \in Int
  /\ filled >= 0 => cost \in Nat
  /\ filled <= 0 => -cost \in Nat
  /\ pnl \in Int
  /\ paid \in Int
  /\ low \in Nat
  /\ high \in Nat
  /\ fills \in 0..MaxFills

\* The books balance to the last unit, whatever the divisions rounded: what
\* was paid, less what was received, is the cost of what is held less the
\* profit realized.
CashBalances == paid = cost - pnl

\* A flat position has no cost left over from rounding.
FlatHasNoCost == filled = 0 => cost = 0

\* The average cost of the open position lies between the lowest and the
\* highest price it was entered at, however often parts of it were closed:
\* rounding in the cost removed never accumulates beyond that.
AverageWithinEntries ==
  /\ filled > 0 => low * filled <= cost /\ cost <= high * filled
  /\ filled < 0 => low * (-filled) <= -cost /\ -cost <= high * (-filled)
=============================================================================
