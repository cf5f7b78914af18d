------------------------ MODULE PositionLedger_proofs ------------------------
(***************************************************************************)
(* Theorems about PositionLedger, for all prices, quantities and numbers   *)
(* of fills.                                                               *)
(***************************************************************************)
EXTENDS PositionLedger, TLAPS

USE SMTT(30), ZenonT(30)

\* Facts about products that the provers do not find by themselves.
LEMMA TimesNat ==
  ASSUME NEW a \in Nat, NEW b \in Nat
  PROVE  a * b \in Nat
OBVIOUS

LEMMA TimesMonotone ==
  ASSUME NEW a \in Int, NEW b \in Int, NEW c \in Nat, a <= b
  PROVE  a * c <= b * c
OBVIOUS

LEMMA TimesCancel ==
  ASSUME NEW a \in Int, NEW b \in Int, NEW c \in Nat \ {0}, a * c <= b * c
  PROVE  a <= b
OBVIOUS

LEMMA TimesCancelStrict ==
  ASSUME NEW a \in Int, NEW b \in Int, NEW c \in Nat \ {0}, a * c < b * c
  PROVE  a < b
OBVIOUS

LEMMA TimesMinus ==
  ASSUME NEW a \in Int, NEW b \in Int, NEW c \in Int
  PROVE  a * (b - c) = a * b - a * c /\ (b - c) * a = b * a - c * a
OBVIOUS

\* What division of natural numbers promises.
LEMMA DivBounds ==
  ASSUME NEW a \in Nat, NEW b \in Nat \ {0}
  PROVE  /\ a \div b \in Nat
         /\ (a \div b) * b <= a
         /\ a < (a \div b) * b + b
OBVIOUS

-----------------------------------------------------------------------------

\* Closing n of m shares that cost c in all: the truncated share of the cost
\* that is removed leaves an average between the same prices, and closing all
\* of them removes all of it.
LEMMA Close ==
  ASSUME NEW c \in Nat, NEW m \in Nat \ {0}, NEW n \in 1..m,
         NEW lo \in Nat, NEW hi \in Nat, lo * m <= c, c <= hi * m
  PROVE  LET r == (c * n) \div m
         IN  /\ r \in Nat
             /\ r <= c
             /\ n = m => r = c
             /\ lo * (m - n) <= c - r
             /\ c - r <= hi * (m - n)
<1> DEFINE r == (c * n) \div m
<1>1. n \in Nat /\ n <= m /\ m - n \in Nat /\ c * n \in Nat
  BY TimesNat
<1>2. r \in Nat /\ r * m <= c * n /\ c * n < r * m + m
  BY <1>1, DivBounds
<1> HIDE DEF r
<1>3. r <= c
  <2>1. c * n <= c * m
    BY <1>1, TimesMonotone
  <2>2. r * m <= c * m
    BY <1>1, <1>2, <2>1, TimesNat
  <2> QED BY <1>2, <2>2, TimesCancel
<1>4. n = m => r = c
  <2> SUFFICES ASSUME n = m PROVE r = c
    OBVIOUS
  <2>1. c * m < (r + 1) * m
    BY <1>2
  <2>2. c < r + 1
    BY <1>2, <2>1, TimesCancelStrict
  <2> QED BY <1>2, <1>3, <2>2
<1>5. (c - r) * m = c * m - r * m /\ c * (m - n) = c * m - c * n
  BY <1>1, <1>2, TimesMinus
<1>6. lo * (m - n) <= c - r
  <2>1. (lo * m) * (m - n) <= c * (m - n)
    BY <1>1, TimesMonotone
  <2>2. (lo * (m - n)) * m = (lo * m) * (m - n)
    BY <1>1
  <2>3. c * (m - n) <= (c - r) * m
    BY <1>1, <1>2, <1>5
  <2>4. (lo * (m - n)) * m <= (c - r) * m
    BY <1>1, <1>2, <2>1, <2>2, <2>3
  <2>5. lo * (m - n) \in Int /\ c - r \in Int
    BY <1>1, <1>2
  <2> QED BY <2>4, <2>5, TimesCancel
<1>7. c - r <= hi * (m - n)
  <2>1. c * (m - n) <= (hi * m) * (m - n)
    BY <1>1, TimesMonotone
  <2>2. (hi * (m - n) + 1) * m = (hi * m) * (m - n) + m
    BY <1>1
  <2>3. (c - r) * m < c * (m - n) + m
    BY <1>1, <1>2, <1>5
  <2>4. (c - r) * m < (hi * (m - n) + 1) * m
    BY <1>1, <1>2, <2>1, <2>2, <2>3
  <2>5. hi * (m - n) + 1 \in Int /\ c - r \in Int
    BY <1>1, <1>2
  <2>6. c - r < hi * (m - n) + 1
    BY <2>4, <2>5, TimesCancelStrict
  <2> QED BY <1>1, <1>2, <2>6
<1> QED BY <1>2, <1>3, <1>4, <1>6, <1>7 DEF r

\* Opening q shares at p beside m that cost c in all.
LEMMA Open ==
  ASSUME NEW c \in Nat, NEW m \in Nat, NEW lo \in Nat, NEW hi \in Nat,
         lo * m <= c, c <= hi * m, NEW p \in Nat, NEW q \in Nat
  PROVE  /\ Least(lo, p) \in Nat /\ Greatest(hi, p) \in Nat
         /\ Least(lo, p) * (m + q) <= c + p * q
         /\ c + p * q <= Greatest(hi, p) * (m + q)
<1> DEFINE l == Least(lo, p)
           h == Greatest(hi, p)
<1>1. l \in Nat /\ l <= lo /\ l <= p /\ h \in Nat /\ hi <= h /\ p <= h
  BY DEF Least, Greatest
<1> HIDE DEF l, h
<1>2. l * m <= lo * m /\ l * q <= p * q /\ hi * m <= h * m /\ p * q <= h * q
  BY <1>1, TimesMonotone
<1>3. l * (m + q) = l * m + l * q /\ h * (m + q) = h * m + h * q
  BY <1>1
<1>4. /\ l * m \in Int /\ l * q \in Int /\ h * m \in Int /\ h * q \in Int
      /\ p * q \in Int /\ lo * m \in Int /\ hi * m \in Int
  BY <1>1
<1>5. l * (m + q) <= c + p * q /\ c + p * q <= h * (m + q)
  BY <1>2, <1>3, <1>4
<1> QED BY <1>1, <1>5 DEF l, h

-----------------------------------------------------------------------------

\* The invariant: the properties together are inductive.  The average has to
\* be known to divide the cost without leaving a remainder of the wrong sign.
Inv == TypeOK /\ CashBalances /\ AverageWithinEntries

\* What a fill has to establish of the position.
Sound ==
  /\ filled \in Int /\ cost \in Int /\ low \in Nat /\ high \in Nat
  /\ filled >= 0 => cost \in Nat
  /\ filled <= 0 => -cost \in Nat
  /\ AverageWithinEntries

\* The cost that a buy takes off a short position.
LEMMA CoverQuotient ==
  ASSUME NEW c \in Nat, NEW m \in Nat \ {0}, NEW n \in Nat
  PROVE  Quotient((-c) * n, -m) = (c * n) \div m
<1>1. c * n \in Nat /\ (-c) * n = -(c * n)
  BY TimesNat
<1>2. CASE c * n = 0
  <2>1. 0 \div m = 0
    OBVIOUS
  <2> QED BY <1>1, <1>2, <2>1 DEF Quotient, Magnitude
<1>3. CASE c * n # 0
  <2>1. -(c * n) < 0 /\ -m < 0 /\ -(-(c * n)) = c * n /\ -(-m) = m
    BY <1>1, <1>3
  <2> QED BY <1>1, <2>1 DEF Quotient, Magnitude
<1> QED BY <1>2, <1>3

\* The cost that a sell takes off a long position.
LEMMA SellQuotient ==
  ASSUME NEW c \in Nat, NEW m \in Nat \ {0}, NEW n \in Nat
  PROVE  Quotient(c * n, m) = (c * n) \div m
<1>1. c * n \in Nat
  BY TimesNat
<1> QED BY <1>1 DEF Quotient, Magnitude

\* A buy keeps the position sound and moves its price from cash to the books.
LEMMA BuyKeeps ==
  ASSUME Inv, NEW p \in Nat, NEW q \in Nat \ {0}, ApplyBuyFill(p, q)
  PROVE  Sound' /\ pnl' \in Int /\ cost' - pnl' = (cost - pnl) + p * q
<1> USE DEF Inv, TypeOK
<1>1. CASE filled >= 0
  <2>1. /\ pnl' = pnl + (0 - p * 0) /\ cost' = cost + 0 + p * (q - 0)
        /\ filled' = filled + q /\ Enter(p, filled <= 0)
    BY <1>1 DEF ApplyBuyFill
  <2>2. p * q \in Nat /\ p * 0 = 0 /\ q - 0 = q
    BY TimesNat
  <2>3. cost \in Nat /\ pnl' = pnl /\ cost' = cost + p * q
    BY <1>1, <2>1, <2>2
  <2>4. CASE filled = 0
    <3>1. low' = p /\ high' = p /\ filled' = q /\ cost = 0
      BY <2>1, <2>4 DEF Enter
    <3> QED BY <2>2, <2>3, <3>1 DEF Sound, AverageWithinEntries
  <2>5. CASE filled > 0
    <3>1. low' = Least(low, p) /\ high' = Greatest(high, p)
      BY <2>1, <2>5 DEF Enter
    <3>2. low * filled <= cost /\ cost <= high * filled /\ filled \in Nat
      BY <2>5 DEF AverageWithinEntries
    <3>3. /\ low' \in Nat /\ high' \in Nat
          /\ low' * (filled + q) <= cost + p * q
          /\ cost + p * q <= high' * (filled + q)
      BY <2>3, <3>1, <3>2, Open, ZenonT(30)
    <3>4. cost' \in Nat /\ filled' \in Nat /\ filled' > 0
      BY <2>1, <2>2, <2>3, <3>2
    <3>5. low' * filled' <= cost' /\ cost' <= high' * filled'
      BY <2>1, <2>3, <3>3, ZenonT(30)
    <3>6. low' \in Nat /\ high' \in Nat /\ ~(filled' < 0) /\ ~(filled' <= 0)
      BY <3>3, <3>4
    <3>7. AverageWithinEntries'
      BY <3>5, <3>6 DEF AverageWithinEntries
    <3>8. filled' \in Int /\ cost' \in Int
      BY <3>4
    <3>9. Sound'
      BY <3>4, <3>6, <3>7, <3>8, ZenonT(30) DEF Sound
    <3> QED BY <2>2, <2>3, <3>9
  <2> QED BY <1>1, <2>4, <2>5
<1>2. CASE filled < 0
  <2> DEFINE m == -filled
             c == -cost
             n == Least(q, m)
             r == (c * n) \div m
  <2>1. /\ m \in Nat \ {0} /\ c \in Nat /\ n \in 1..m /\ n \in Nat
        /\ low * m <= c /\ c <= high * m
    BY <1>2 DEF AverageWithinEntries, Least
  <2>2. /\ r \in Nat /\ r <= c /\ (n = m => r = c)
        /\ low * (m - n) <= c - r /\ c - r <= high * (m - n)
    BY <2>1, Close, ZenonT(30)
  <2>3. Quotient(cost * n, filled) = r
    <3>1. cost = -c /\ filled = -m
      BY <2>1
    <3>2. Quotient((-c) * n, -m) = r
      BY <2>1, CoverQuotient, ZenonT(30)
    <3> HIDE DEF c, m, n, r
    <3> QED BY <3>1, <3>2
  <2>4. /\ pnl' = pnl + (r - p * n) /\ cost' = cost + r + p * (q - n)
        /\ IF q > n THEN Enter(p, filled <= 0) ELSE UNCHANGED <<low, high>>
        /\ filled' = filled + q
    BY <1>2, <2>1, <2>3 DEF ApplyBuyFill
  <2>5. p * (q - n) = p * q - p * n /\ p * q \in Int /\ p * n \in Int
    BY <2>1, TimesMinus
  <2> HIDE DEF r
  <2>6. pnl' \in Int /\ cost' - pnl' = (cost - pnl) + p * q
    BY <2>2, <2>4, <2>5
  <2>7. CASE q <= m
    <3>1. n = q /\ ~(q > n)
      BY <2>1, <2>7 DEF Least
    <3>2. cost' = cost + r /\ filled' = -(m - n) /\ low' = low /\ high' = high
      BY <2>1, <2>2, <2>4, <3>1
    <3>3. -cost' = c - r /\ -filled' = m - n /\ m - n \in Nat /\ c - r \in Nat
      BY <2>1, <2>2, <3>2
    <3>4. m - n = 0 => c - r = 0
      BY <2>1, <2>2
    <3>5. low' * (-filled') <= -cost' /\ -cost' <= high' * (-filled')
      BY <2>2, <3>2, <3>3
    <3>6. Sound'
      BY <2>1, <3>2, <3>3, <3>4, <3>5 DEF Sound, AverageWithinEntries
    <3> QED BY <2>6, <3>6
  <2>8. CASE q > m
    <3>1. n = m /\ q > n /\ r = c
      BY <2>1, <2>2, <2>8 DEF Least
    <3>2. /\ cost' = p * (q - m) /\ filled' = q - m /\ q - m \in Nat \ {0}
          /\ low' = p /\ high' = p
      BY <1>2, <2>1, <2>4, <2>8, <3>1 DEF Enter
    <3>3. low' * filled' <= cost' /\ cost' <= high' * filled' /\ cost' \in Nat
      BY <3>2, TimesNat
    <3>4. Sound'
      BY <3>2, <3>3 DEF Sound, AverageWithinEntries
    <3> QED BY <2>6, <3>4
  <2> QED BY <2>1, <2>7, <2>8
<1> QED BY <1>1, <1>2

\* A sell does the same in the other direction.
LEMMA SellKeeps ==
  ASSUME Inv, NEW p \in Nat, NEW q \in Nat \ {0}, ApplySellFill(p, q)
  PROVE  Sound' /\ pnl' \in Int /\ cost' - pnl' = (cost - pnl) - p * q
<1> USE DEF Inv, TypeOK
<1>1. CASE filled <= 0
  <2>1. /\ pnl' = pnl + (p * 0 - 0) /\ cost' = cost - 0 - p * (q - 0)
        /\ filled' = filled - q /\ Enter(p, filled >= 0)
    BY <1>1 DEF ApplySellFill
  <2>2. p * q \in Nat /\ p * 0 = 0 /\ q - 0 = q
    BY TimesNat
  <2>3. -cost \in Nat /\ pnl' = pnl /\ cost' = cost - p * q
    BY <1>1, <2>1, <2>2
  <2>4. CASE filled = 0
    <3>1. low' = p /\ high' = p /\ filled' = -q /\ cost = 0
      BY <2>1, <2>4 DEF Enter
    <3>2. -filled' = q /\ -cost' = p * q
      BY <2>2, <2>3, <3>1
    <3> QED BY <2>2, <2>3, <3>1, <3>2 DEF Sound, AverageWithinEntries
  <2>5. CASE filled < 0
    <3>1. low' = Least(low, p) /\ high' = Greatest(high, p)
      BY <2>1, <2>5 DEF Enter
    <3>2. /\ low * (-filled) <= -cost /\ -cost <= high * (-filled)
          /\ -filled \in Nat
      BY <2>5 DEF AverageWithinEntries
    <3>3. /\ low' \in Nat /\ high' \in Nat
          /\ low' * ((-filled) + q) <= (-cost) + p * q
          /\ (-cost) + p * q <= high' * ((-filled) + q)
      BY <2>3, <3>1, <3>2, Open, ZenonT(30)
    <3>4. -filled' = (-filled) + q /\ -cost' = (-cost) + p * q
      BY <2>1, <2>2, <2>3
    <3>5. -cost' \in Nat /\ filled' \in Int /\ filled' < 0
      BY <2>1, <2>2, <2>3, <2>5, <3>4
    <3>6. low' * (-filled') <= -cost' /\ -cost' <= high' * (-filled')
      BY <3>3, <3>4, ZenonT(30)
    <3>7. /\ low' \in Nat /\ high' \in Nat /\ ~(filled' > 0) /\ ~(filled' >= 0)
          /\ cost' \in Int
      BY <2>2, <2>3, <3>3, <3>5
    <3>8. AverageWithinEntries'
      BY <3>6, <3>7 DEF AverageWithinEntries
    <3>9. Sound'
      BY <3>5, <3>7, <3>8, ZenonT(30) DEF Sound
    <3> QED BY <2>2, <2>3, <3>9
  <2> QED BY <1>1, <2>4, <2>5
<1>2. CASE filled > 0
  <2> DEFINE n == Least(q, filled)
             r == (cost * n) \div filled
  <2>1. /\ filled \in Nat \ {0} /\ cost \in Nat /\ n \in 1..filled /\ n \in Nat
        /\ low * filled <= cost /\ cost <= high * filled
    BY <1>2 DEF AverageWithinEntries, Least
  <2>2. /\ r \in Nat /\ r <= cost /\ (n = filled => r = cost)
        /\ low * (filled - n) <= cost - r /\ cost - r <= high * (filled - n)
    BY <2>1, Close, ZenonT(30)
  <2>3. Quotient(cost * n, filled) = r
    BY <2>1, SellQuotient
  <2>4. /\ pnl' = pnl + (p * n - r) /\ cost' = cost - r - p * (q - n)
        /\ IF q > n THEN Enter(p, filled >= 0) ELSE UNCHANGED <<low, high>>
        /\ filled' = filled - q
    BY <1>2, <2>1, <2>3 DEF ApplySellFill
  <2>5. p * (q - n) = p * q - p * n /\ p * q \in Int /\ p * n \in Int
    BY <2>1, TimesMinus
  <2> HIDE DEF r
  <2>6. pnl' \in Int /\ cost' - pnl' = (cost - pnl) - p * q
    BY <2>2, <2>4, <2>5
  <2>7. CASE q <= filled
    <3>1. n = q /\ ~(q > n)
      BY <2>1, <2>7 DEF Least
    <3>2. cost' = cost - r /\ filled' = filled - n /\ low' = low /\ high' = high
      BY <2>1, <2>2, <2>4, <3>1
    <3>3. filled' \in Nat /\ cost' \in Nat /\ (filled' = 0 => cost' = 0)
      BY <2>1, <2>2, <3>2
    <3>4. low' * filled' <= cost' /\ cost' <= high' * filled'
      BY <2>2, <3>2
    <3>5. Sound'
      BY <2>1, <3>2, <3>3, <3>4 DEF Sound, AverageWithinEntries
    <3> QED BY <2>6, <3>5
  <2>8. CASE q > filled
    <3>1. n = filled /\ q > n /\ r = cost
      BY <2>1, <2>2, <2>8 DEF Least
    <3>2. /\ -cost' = p * (q - filled) /\ -filled' = q - filled
          /\ q - filled \in Nat \ {0} /\ low' = p /\ high' = p
          /\ filled' \in Int /\ filled' < 0 /\ cost' \in Int
      BY <1>2, <2>1, <2>4, <2>8, <3>1 DEF Enter
    <3>3. p * (q - filled) \in Nat
      BY <3>2, TimesNat
    <3>4. /\ low' * (-filled') = -cost' /\ high' * (-filled') = -cost'
          /\ -cost' \in Nat
      BY <3>2, <3>3, ZenonT(30)
    <3>5. ~(filled' > 0) /\ ~(filled' >= 0) /\ low' \in Nat /\ high' \in Nat
      BY <3>2
    <3>6. AverageWithinEntries'
      BY <3>4, <3>5 DEF AverageWithinEntries
    <3>7. Sound'
      BY <3>2, <3>4, <3>5, <3>6, ZenonT(30) DEF Sound
    <3> QED BY <2>6, <3>7
  <2> QED BY <2>1, <2>7, <2>8
<1> QED BY <1>1, <1>2

\* Nothing has been traded at the start.
LEMMA InitInv == Init => Inv
BY LedgerAssumption DEF Init, Inv, TypeOK, CashBalances, AverageWithinEntries

\* Every fill keeps the invariant.
LEMMA NextInv == Inv /\ [Next]_vars => Inv'
<1>1. ASSUME Inv, OnFill PROVE Inv'
  <2>1. PICK p \in Prices, q \in 1..MaxQty : BuyFill(p, q) \/ SellFill(p, q)
    BY <1>1 DEF OnFill
  <2>2. /\ p \in Nat /\ q \in Nat \ {0} /\ p * q \in Int /\ paid \in Int
        /\ paid = cost - pnl
    BY <1>1, LedgerAssumption DEF Inv, TypeOK, CashBalances
  <2>3. fills' \in 0..MaxFills
    BY <1>1, LedgerAssumption DEF OnFill, Inv, TypeOK
  <2>4. Sound' /\ pnl' \in Int /\ paid' \in Int /\ paid' = cost' - pnl'
    <3>1. CASE BuyFill(p, q)
      <4>1. Sound' /\ pnl' \in Int /\ cost' - pnl' = (cost - pnl) + p * q
        BY <1>1, <2>2, <3>1, BuyKeeps DEF BuyFill
      <4>2. paid' = paid + p * q /\ cost' \in Int
        BY <3>1, <4>1 DEF BuyFill, Sound
      <4> QED BY <2>2, <4>1, <4>2
    <3>2. CASE SellFill(p, q)
      <4>1. Sound' /\ pnl' \in Int /\ cost' - pnl' = (cost - pnl) - p * q
        BY <1>1, <2>2, <3>2, SellKeeps DEF SellFill
      <4>2. paid' = paid - p * q /\ cost' \in Int
        BY <3>2, <4>1 DEF SellFill, Sound
      <4> QED BY <2>2, <4>1, <4>2
    <3> QED BY <2>1, <3>1, <3>2
  <2> QED BY <2>3, <2>4, ZenonT(30) DEF Sound, Inv, TypeOK, CashBalances
<1>2. ASSUME Inv, UNCHANGED vars PROVE Inv'
  BY <1>2, ZenonT(30) DEF vars, Inv, TypeOK, CashBalances, AverageWithinEntries
<1> QED BY <1>1, <1>2 DEF Next, NoMoreFills

\* The invariant holds in every behaviour.
LEMMA Invariance == Spec => []Inv
BY InitInv, NextInv, PTL DEF Spec

\* The cost of a long position is never negative, that of a short one never
\* positive.
THEOREM TypeCorrect == Spec => []TypeOK
<1>1. Inv => TypeOK
  BY DEF Inv
<1> QED BY <1>1, Invariance, PTL

\* However the divisions round, the books balance to the last unit.
THEOREM BooksBalance == Spec => []CashBalances
<1>1. Inv => CashBalances
  BY DEF Inv
<1> QED BY <1>1, Invariance, PTL

\* A flat position has no cost left.
THEOREM FlatIsFree == Spec => []FlatHasNoCost
<1>1. Inv => FlatHasNoCost
  BY DEF Inv, TypeOK, FlatHasNoCost
<1> QED BY <1>1, Invariance, PTL

\* The average cost never leaves the range of the prices paid for the open
\* position, however often it is partly closed and added to.
THEOREM AverageStaysWithin == Spec => []AverageWithinEntries
<1>1. Inv => AverageWithinEntries
  BY DEF Inv
<1> QED BY <1>1, Invariance, PTL
=============================================================================
