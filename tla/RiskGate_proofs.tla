-------------------------- MODULE RiskGate_proofs --------------------------
(***************************************************************************)
(* Proofs about RiskGate, for every limit, order size, cooldown and set of *)
(* symbols, whichever of them are prefixes of others.                      *)
(***************************************************************************)
EXTENDS RiskGate, FiniteSetTheorems, TLAPS

\* The provers get 30 seconds a leaf; most need one.
USE ZenonT(10), SMTT(30)

-----------------------------------------------------------------------------
\* The inductive invariant: the exposure

\* Shares of s that onFill has added to filled and has yet to take from
\* pending.
Moving(s) == IF fqty > 0 /\ fsym = s THEN fqty ELSE 0

\* The threads that handle an event of s at one of the given places.
At(s, places) == {c \in Servers(s) : sym[c] = s /\ pc[c] \in places}

\* The threads that have approved an order of s and not yet counted it.
Approved(s) == At(s, {"send"})

\* Those, and the ones that have read pending alone and may still approve.
Deciding(s) ==
  Approved(s) \cup
    {c \in At(s, {"readFilled"}) : got[c] + OrderQty <= MaxPosition}

\* The threads that have read filled alone and may still approve.
Unaware(s) == {c \in At(s, {"readPending"}) : got[c] + OrderQty <= MaxPosition}

\* What k orders buy.
Shares(k) == k * OrderQty

\* A thread approves only if it has seen pending, alone, leave room for its
\* order; so pending and the orders approved exceed the limit by no more than
\* the orders of the other threads.  Once filled leaves no room for an order,
\* only those threads can still approve one that have read it before.
Exposure(s) ==
  /\ pending[s] = open[s] + Moving(s)
  /\ pending[s] + Shares(Cardinality(Deciding(s))) <= Limit(s)
  /\ \/ filled[s] + OrderQty <= MaxPosition
     \/ filled[s] + open[s] + Shares(Cardinality(Approved(s)))
          + Shares(Cardinality(Unaware(s))) <= 2 * Limit(s)

-----------------------------------------------------------------------------
\* The inductive invariant: the cooldown

Checking == {"cooldown", "stamp"}

\* The threads that read the clock before the window and have yet to store
\* that time, if they do.
Early(s) == {c \in At(s, Checking) : now[c] < From}

\* The other threads.
Rest(s) == Servers(s) \ Early(s)

\* The threads that read the clock in the window and have yet to store the
\* time, if they do.
Inside(s) == {c \in At(s, Checking) : now[c] \in Window}

\* Those of them that are certain to store it, or that have been overtaken by
\* one that has stored a later time or will.
Able(s) ==
  {c \in Inside(s) :
     \/ pc[c] = "stamp"
     \/ now[c] < last[s]
     \/ \E d \in Inside(s) : pc[d] = "stamp" /\ now[c] < now[d]}

\* While last_order_time is before the window, every thread that is not early
\* may get one order through, and then the ones that are able.  Each early
\* thread can set the time back once.  Once a time after the window has been
\* stored, every thread inside may get one more order through, and none can
\* come inside any more.
Spaced(s) ==
  LET n == Cardinality(Servers(s))
      f == Cardinality(Rest(s))
  IN  \/ /\ last[s] < From
         /\ 2 * counted[s] <= (f - 1) * f
      \/ /\ last[s] \in Window
         /\ 2 * (counted[s] + Cardinality(Able(s))) <= f * (f + 1)
      \/ /\ clock >= From + Cooldown
         /\ 2 * (counted[s] + Cardinality(Inside(s))) <= n * (n + 1) + 2 * (n - 1)

\* The clock has not gone back since a thread read it, and nothing was counted
\* before the window.
Past ==
  /\ \A c \in Symbols : now[c] <= clock
  /\ \A s \in Symbols : last[s] <= clock /\ (counted[s] > 0 => clock >= From)

\* A thread handles only what it is subscribed to.
Served == \A c \in Symbols : pc[c] # "idle" => c \in Servers(sym[c])

Inv ==
  /\ TypeOK
  /\ Past
  /\ Served
  /\ \A s \in Symbols : Exposure(s) /\ Spaced(s)

-----------------------------------------------------------------------------
\* Arithmetic and cardinalities

\* A difference of times that fits in a word is not changed by the wrap.
LEMMA NoWrap == \A d \in 0..MaxTime : d % WordSize = d
BY SMTT(30), RiskAssumption

\* More orders buy more.
LEMMA SharesGrow ==
  /\ \A j \in Nat : Shares(j) \in Nat /\ Shares(j + 1) = Shares(j) + OrderQty
  /\ \A j, k \in Nat : j <= k => Shares(j) <= Shares(k)
BY SMTT(30), RiskAssumption DEF Shares

\* The sums of the first numbers, doubled, grow with their number.
LEMMA SumsGrow ==
  /\ \A j \in Nat : 0 <= (j - 1) * j /\ (j - 1) * j + 2 * j = j * (j + 1)
  /\ \A j, k \in Nat :
       j <= k => (j - 1) * j <= (k - 1) * k /\ j * (j + 1) <= k * (k + 1)
  /\ \A j, k \in Nat : j + 1 <= k => j * (j + 1) <= (k - 1) * k
BY SMTT(30)

\* Sets of threads that serve s are finite, and counted by inclusion.
LEMMA Counts ==
  ASSUME NEW s \in Symbols, NEW S \in SUBSET Servers(s)
  PROVE  /\ Cardinality(S) \in Nat
         /\ Cardinality(S) <= Cardinality(Servers(s))
         /\ \A R \in SUBSET S : Cardinality(R) <= Cardinality(S)
         /\ \A R \in SUBSET S, c \in S :
              c \notin R => Cardinality(R) + 1 <= Cardinality(S)
         /\ \A R \in SUBSET Servers(s), c \in Servers(s) :
              R \subseteq S \cup {c} => Cardinality(R) <= Cardinality(S) + 1
<1>1. IsFiniteSet(Servers(s))
  <2>1. Servers(s) \in SUBSET Symbols
    BY DEF Servers
  <2> QED
    BY <2>1, FS_Subset, SymbolsAssumption
<1>2. IsFiniteSet(S) /\ Cardinality(S) <= Cardinality(Servers(s))
  BY <1>1, FS_Subset
<1>3. Cardinality(S) \in Nat
  BY <1>2, FS_CardinalityType
<1>4. \A R \in SUBSET S : Cardinality(R) <= Cardinality(S)
  BY <1>2, FS_Subset
<1>5. ASSUME NEW R \in SUBSET S, NEW c \in S, c \notin R
      PROVE  Cardinality(R) + 1 <= Cardinality(S)
  <2>1. IsFiniteSet(S \ {c}) /\ Cardinality(S \ {c}) = Cardinality(S) - 1
    BY <1>2, FS_RemoveElement
  <2>2. Cardinality(R) <= Cardinality(S \ {c})
    <3>1. R \in SUBSET (S \ {c})
      BY <1>5
    <3> QED
      BY <2>1, <3>1, FS_Subset
  <2>3. Cardinality(R) \in Nat
    BY <1>2, FS_Subset, FS_CardinalityType
  <2> QED
    BY SMTT(30), <2>1, <2>2, <2>3, <1>3
<1>6. ASSUME NEW R \in SUBSET Servers(s), NEW c \in Servers(s), R \subseteq S \cup {c}
      PROVE  Cardinality(R) <= Cardinality(S) + 1
  <2>1. /\ IsFiniteSet(S \cup {c})
        /\ Cardinality(S \cup {c}) = IF c \in S THEN Cardinality(S) ELSE Cardinality(S) + 1
    BY <1>2, FS_AddElement
  <2>2. Cardinality(R) <= Cardinality(S \cup {c})
    <3>1. R \in SUBSET (S \cup {c})
      BY <1>6
    <3> QED
      BY <2>1, <3>1, FS_Subset
  <2>3. Cardinality(R) \in Nat
    BY <1>1, FS_Subset, FS_CardinalityType
  <2> QED
    BY SMTT(30), <2>1, <2>2, <2>3, <1>3
<1> QED
  BY <1>2, <1>3, <1>4, <1>5, <1>6

\* A symbol is served at least by the thread of its own.
LEMMA Served1 ==
  ASSUME NEW s \in Symbols
  PROVE  s \in Servers(s) /\ Cardinality(Servers(s)) \in Nat \ {0}
<1>1. s \in Servers(s)
  BY SMTT(30), SymbolsAssumption DEF Servers, Receives, IsPrefix
<1>2. Cardinality({}) + 1 <= Cardinality(Servers(s)) /\ Cardinality(Servers(s)) \in Nat
  BY <1>1, Counts
<1> QED
  BY SMTT(30), <1>1, <1>2, FS_EmptySet

\* The sets of threads of the invariant are sets of threads that serve s.
LEMMA SetsOfServers ==
  ASSUME NEW s \in Symbols
  PROVE  /\ Approved(s) \in SUBSET Servers(s) /\ Deciding(s) \in SUBSET Servers(s)
         /\ Unaware(s) \in SUBSET Servers(s) /\ Rest(s) \in SUBSET Servers(s)
         /\ Inside(s) \in SUBSET Servers(s) /\ Able(s) \in SUBSET Servers(s)
         /\ Approved(s)' \in SUBSET Servers(s) /\ Deciding(s)' \in SUBSET Servers(s)
         /\ Unaware(s)' \in SUBSET Servers(s) /\ Rest(s)' \in SUBSET Servers(s)
         /\ Inside(s)' \in SUBSET Servers(s) /\ Able(s)' \in SUBSET Servers(s)
BY DEF Approved, Deciding, Unaware, Rest, Inside, Able, At

\* The limit, with its product by name.
LEMMA LimitShares ==
  ASSUME NEW s \in Symbols
  PROVE  /\ Limit(s) = MaxPosition + Shares(Cardinality(Servers(s))) - OrderQty
         /\ Limit(s) \in Nat
         /\ Shares(Cardinality(Servers(s))) \in Nat
<1>1. Cardinality(Servers(s)) \in Nat \ {0}
  BY Served1
<1>2. PICK k \in Nat : Cardinality(Servers(s)) = k + 1
  <2>1. Cardinality(Servers(s)) - 1 \in Nat
    BY SMTT(30), <1>1
  <2> QED
    BY SMTT(30), <1>1, <2>1
<1>3. Limit(s) = MaxPosition + Shares(k)
  BY SMTT(30), <1>2 DEF Limit, Shares
<1>4. /\ Shares(k) \in Nat /\ Shares(k + 1) = Shares(k) + OrderQty
      /\ Shares(Cardinality(Servers(s))) = Shares(k + 1)
  BY <1>2, SharesGrow
<1> QED
  BY SMTT(30), <1>3, <1>4, RiskAssumption

-----------------------------------------------------------------------------
\* The steps

\* The inductive invariant holds at the start.
LEMMA InitInv == Init => Inv
<1> SUFFICES ASSUME Init PROVE Inv
  OBVIOUS
<1>1. TypeOK /\ Past /\ Served
  BY SMTT(30), RiskAssumption DEF Init, TypeOK, Past, Served
<1> SUFFICES ASSUME NEW s \in Symbols PROVE Exposure(s) /\ Spaced(s)
  BY <1>1 DEF Inv
<1>2. Approved(s) = {} /\ Deciding(s) = {} /\ Unaware(s) = {} /\ Able(s) = {} /\ Inside(s) = {}
  BY DEF Approved, Deciding, Unaware, Able, Inside, At, Checking, Init, Servers
<1>3. Exposure(s)
  <2>1. Shares(Cardinality({})) = 0
    BY SMTT(30), FS_EmptySet, RiskAssumption DEF Shares
  <2>2. Limit(s) \in Nat
    BY LimitShares
  <2> QED
    BY SMTT(30), <1>2, <2>1, <2>2 DEF Init, Exposure, Moving
<1>4. Spaced(s)
  <2> DEFINE f == Cardinality(Rest(s))
  <2>1. f \in Nat
    BY SetsOfServers, Counts
  <2>2. 0 <= (f - 1) * f /\ 0 <= f * (f + 1)
    <3> HIDE DEF f
    <3> QED
      BY SMTT(30), <2>1, SumsGrow
  <2>3. last[s] = 0 /\ counted[s] = 0
    BY DEF Init
  <2>4. CASE From > 0
    BY SMTT(30), <2>2, <2>3, <2>4, RiskAssumption DEF Spaced
  <2>5. CASE From = 0 /\ Cooldown > 0
    BY SMTT(30), <1>2, <2>2, <2>3, <2>5, RiskAssumption, FS_EmptySet DEF Spaced, Window
  <2>6. CASE From = 0 /\ Cooldown = 0
    <3> DEFINE n == Cardinality(Servers(s))
    <3>1. n \in Nat \ {0}
      BY Served1
    <3>2. 0 <= n * (n + 1) + 2 * (n - 1)
      <4> HIDE DEF n
      <4>1. 0 <= (n - 1) * n /\ (n - 1) * n + 2 * n = n * (n + 1)
        BY <3>1, SumsGrow
      <4> QED
        BY SMTT(30), <3>1, <4>1
    <3>3. clock >= From + Cooldown
      BY SMTT(30), <2>6 DEF Init
    <3> QED
      BY SMTT(30), <1>2, <2>3, <3>2, <3>3, FS_EmptySet DEF Spaced
  <2> QED
    BY SMTT(30), <2>4, <2>5, <2>6, RiskAssumption
<1> QED
  BY <1>3, <1>4

\* Every step keeps the types.
LEMMA TypeInv == Inv /\ [Next]_vars => TypeOK'
<1> SUFFICES ASSUME TypeOK, Inv, [Next]_vars PROVE TypeOK'
  BY DEF Inv
<1> USE RiskAssumption DEF TypeOK
<1>1. ASSUME NEW c \in Symbols, NEW s \in Symbols, TakeEvent(c, s)
      PROVE  TypeOK'
  BY <1>1 DEF TakeEvent, Goto, counters, times, fillVars
<1>2. ASSUME NEW c \in Symbols, CooldownRefuses(c) \/ CooldownPasses(c)
      PROVE  TypeOK'
  BY SMTT(30), <1>2 DEF CooldownRefuses, CooldownPasses, Goto, counters, times, fillVars
<1>3. ASSUME NEW c \in Symbols, CooldownStamp(c) PROVE TypeOK'
  BY SMTT(30), <1>3 DEF CooldownStamp, Goto, counters, fillVars
<1>4. ASSUME NEW c \in Symbols, ReadFilledFirst(c) \/ ReadPendingFirst(c)
      PROVE  TypeOK'
  BY SMTT(30), <1>4 DEF ReadFilledFirst, ReadPendingFirst, Goto, counters, times, fillVars
<1>5. ASSUME NEW c \in Symbols, ReadPendingSecond(c) \/ ReadFilledSecond(c)
      PROVE  TypeOK'
  BY SMTT(30), <1>5 DEF ReadPendingSecond, ReadFilledSecond, Goto, counters, times, fillVars
<1>6. ASSUME NEW c \in Symbols, SendOrder(c) PROVE TypeOK'
  BY SMTT(30), <1>6 DEF SendOrder, Goto, times, fillVars
<1>7. ASSUME NEW s \in Symbols, NEW q \in 1..open[s], FillFilled(s, q)
      PROVE  TypeOK'
  BY SMTT(30), <1>7 DEF FillFilled, times
<1>8. CASE FillPending
  <2>1. pending[fsym] - fqty \in Nat
    BY SMTT(30), <1>8 DEF FillPending, Inv, Exposure, Moving
  <2> QED
    BY <1>8, <2>1 DEF FillPending, times
<1>9. ASSUME NEW s \in Symbols, NEW q \in 1..open[s], CancelOrder(s, q)
      PROVE  TypeOK'
  <2>1. pending[s] - q \in Nat
    BY SMTT(30), <1>9 DEF Inv, Exposure, Moving
  <2> QED
    BY SMTT(30), <1>9, <2>1 DEF CancelOrder, times, fillVars
<1>10. CASE Tick
  BY SMTT(30), <1>10 DEF Tick, counters, fillVars
<1>11. CASE UNCHANGED vars
  BY <1>11 DEF vars
<1> QED
  BY <1>1, <1>2, <1>3, <1>4, <1>5, <1>6, <1>7, <1>8, <1>9, <1>10, <1>11,
     SymbolsAssumption
  DEF Next, Consumer

\* Every step keeps the order of the times and the subscriptions.
LEMMA PastInv == Inv /\ [Next]_vars => Past' /\ Served'
<1> SUFFICES ASSUME TypeOK, Past, Served, [Next]_vars PROVE Past' /\ Served'
  BY DEF Inv
<1> USE RiskAssumption DEF TypeOK, Past, Served
<1>1. ASSUME NEW c \in Symbols, NEW s \in Symbols, TakeEvent(c, s)
      PROVE  Past' /\ Served'
  BY SMTT(30), <1>1 DEF TakeEvent, Goto, times, Servers
<1>2. ASSUME NEW c \in Symbols, CooldownRefuses(c) \/ CooldownPasses(c)
      PROVE  Past' /\ Served'
  BY SMTT(30), <1>2 DEF CooldownRefuses, CooldownPasses, Goto, times
<1>3. ASSUME NEW c \in Symbols, CooldownStamp(c) PROVE Past' /\ Served'
  BY SMTT(30), <1>3 DEF CooldownStamp, Goto, Window
<1>4. ASSUME NEW c \in Symbols, ReadFilledFirst(c) \/ ReadPendingFirst(c)
      PROVE  Past' /\ Served'
  BY SMTT(30), <1>4 DEF ReadFilledFirst, ReadPendingFirst, Goto, times
<1>5. ASSUME NEW c \in Symbols, ReadPendingSecond(c) \/ ReadFilledSecond(c)
      PROVE  Past' /\ Served'
  BY SMTT(30), <1>5 DEF ReadPendingSecond, ReadFilledSecond, Goto, times
<1>6. ASSUME NEW c \in Symbols, SendOrder(c) PROVE Past' /\ Served'
  BY <1>6 DEF SendOrder, Goto, times
<1>7. ASSUME NEW s \in Symbols, NEW q \in 1..open[s],
             FillFilled(s, q) \/ CancelOrder(s, q)
      PROVE  Past' /\ Served'
  BY SMTT(30), <1>7 DEF FillFilled, CancelOrder, times
<1>8. CASE FillPending
  BY <1>8 DEF FillPending, times
<1>9. CASE Tick
  BY SMTT(30), <1>9 DEF Tick
<1>10. CASE UNCHANGED vars
  BY <1>10 DEF vars
<1> QED
  BY <1>1, <1>2, <1>3, <1>4, <1>5, <1>6, <1>7, <1>8, <1>9, <1>10,
     SymbolsAssumption
  DEF Next, Consumer

-----------------------------------------------------------------------------
\* The exposure, step by step

\* Exposure(s) survives a step that adds no thread to its sets and no shares.
LEMMA ExposureKept ==
  ASSUME NEW s \in Symbols, TypeOK, TypeOK', Exposure(s),
         filled'[s] = filled[s], pending'[s] <= pending[s], open'[s] <= open[s],
         pending'[s] = open'[s] + Moving(s)',
         Approved(s)' \subseteq Approved(s), Deciding(s)' \subseteq Deciding(s),
         Unaware(s)' \subseteq Unaware(s)
  PROVE  Exposure(s)'
<1>1. /\ Cardinality(Approved(s)') \in Nat /\ Cardinality(Approved(s)) \in Nat
      /\ Cardinality(Deciding(s)') \in Nat /\ Cardinality(Deciding(s)) \in Nat
      /\ Cardinality(Unaware(s)') \in Nat /\ Cardinality(Unaware(s)) \in Nat
  BY SetsOfServers, Counts
<1>2. /\ Cardinality(Approved(s)') <= Cardinality(Approved(s))
      /\ Cardinality(Deciding(s)') <= Cardinality(Deciding(s))
      /\ Cardinality(Unaware(s)') <= Cardinality(Unaware(s))
  BY SetsOfServers, Counts
<1>3. /\ Shares(Cardinality(Approved(s)')) <= Shares(Cardinality(Approved(s)))
      /\ Shares(Cardinality(Deciding(s)')) <= Shares(Cardinality(Deciding(s)))
      /\ Shares(Cardinality(Unaware(s)')) <= Shares(Cardinality(Unaware(s)))
      /\ Shares(Cardinality(Approved(s)')) \in Nat /\ Shares(Cardinality(Approved(s))) \in Nat
      /\ Shares(Cardinality(Deciding(s)')) \in Nat /\ Shares(Cardinality(Deciding(s))) \in Nat
      /\ Shares(Cardinality(Unaware(s)')) \in Nat /\ Shares(Cardinality(Unaware(s))) \in Nat
  BY <1>1, <1>2, SharesGrow
<1>4. Limit(s) \in Nat
  BY LimitShares
<1>5. /\ filled'[s] \in Nat /\ pending[s] \in Nat /\ pending'[s] \in Nat
      /\ open[s] \in Nat /\ open'[s] \in Nat
  BY DEF TypeOK
<1> QED
  BY SMTT(30), <1>3, <1>4, <1>5, RiskAssumption DEF Exposure

\* The steps of checkAndUpdate leave the exposure alone.
LEMMA ExposureCooldown ==
  ASSUME TypeOK, TypeOK', NEW s \in Symbols, Exposure(s), NEW c \in Symbols,
         \/ \E u \in Symbols : TakeEvent(c, u)
         \/ CooldownRefuses(c) \/ CooldownPasses(c) \/ CooldownStamp(c)
  PROVE  Exposure(s)'
<1>1. /\ UNCHANGED <<filled, pending, open, got, fsym, fqty>>
      /\ pc[c] \in {"idle", "cooldown", "stamp"}
      /\ pc'[c] \in {"idle", "cooldown", "stamp", "read"}
      /\ \A d \in Symbols \ {c} : pc'[d] = pc[d] /\ sym'[d] = sym[d]
  BY SMTT(30) DEF TypeOK, TakeEvent, CooldownRefuses, CooldownPasses, CooldownStamp, Goto,
     counters, fillVars
<1>2. /\ Approved(s)' \subseteq Approved(s) /\ Deciding(s)' \subseteq Deciding(s)
      /\ Unaware(s)' \subseteq Unaware(s)
  BY <1>1 DEF Approved, Deciding, Unaware, At, Servers
<1>3. filled'[s] = filled[s] /\ pending'[s] <= pending[s] /\ open'[s] <= open[s]
  BY SMTT(30), <1>1 DEF TypeOK
<1>4. pending'[s] = open'[s] + Moving(s)'
  BY <1>1 DEF Exposure, Moving
<1> QED
  BY <1>2, <1>3, <1>4, ExposureKept

\* The fill listener and the cancels.
LEMMA ExposureFills ==
  ASSUME TypeOK, TypeOK', NEW s \in Symbols, Inv,
         \/ \E u \in Symbols : \E q \in 1..open[u] : FillFilled(u, q) \/ CancelOrder(u, q)
         \/ FillPending \/ Tick \/ UNCHANGED vars
  PROVE  Exposure(s)'
<1>1. UNCHANGED <<pc, sym, got>>
  BY DEF FillFilled, CancelOrder, FillPending, Tick, vars
<1>2. Approved(s)' = Approved(s) /\ Deciding(s)' = Deciding(s) /\ Unaware(s)' = Unaware(s)
  BY <1>1 DEF Approved, Deciding, Unaware, At, Servers
<1>3. Exposure(s)
  BY DEF Inv
<1>4. ASSUME NEW u \in Symbols, NEW q \in 1..open[u], FillFilled(u, q)
      PROVE  Exposure(s)'
  <2>1. /\ pending'[s] = pending[s] /\ pending'[s] = open'[s] + Moving(s)'
        /\ filled'[s] + open'[s] = filled[s] + open[s]
        /\ filled'[s] \in Nat /\ filled[s] \in Nat /\ pending[s] \in Nat
        /\ open[s] \in Nat /\ open'[s] \in Nat /\ open[s] <= pending[s]
    BY SMTT(30), <1>3, <1>4 DEF FillFilled, TypeOK, Exposure, Moving
  <2>2. filled[s] <= filled'[s]
    BY SMTT(30), <1>4 DEF FillFilled, TypeOK
  <2> DEFINE n == Shares(Cardinality(Servers(s)))
             d == Shares(Cardinality(Deciding(s)))
             a == Shares(Cardinality(Approved(s)))
             w == Shares(Cardinality(Unaware(s)))
  <2>3. /\ n \in Nat /\ d \in Nat /\ a \in Nat /\ w \in Nat /\ a <= d /\ w <= n
    <3>1. Approved(s) \in SUBSET Deciding(s)
      BY DEF Deciding
    <3>2. /\ Cardinality(Approved(s)) \in Nat /\ Cardinality(Deciding(s)) \in Nat
          /\ Cardinality(Unaware(s)) \in Nat /\ Cardinality(Servers(s)) \in Nat
          /\ Cardinality(Approved(s)) <= Cardinality(Deciding(s))
          /\ Cardinality(Unaware(s)) <= Cardinality(Servers(s))
      BY <3>1, SetsOfServers, Counts
    <3> QED
      BY <3>2, SharesGrow
  <2>4. Limit(s) = MaxPosition + n - OrderQty
    BY LimitShares
  <2>5. /\ pending[s] + d <= Limit(s)
        /\ \/ filled[s] + OrderQty <= MaxPosition
           \/ filled[s] + open[s] + a + w <= 2 * Limit(s)
    BY <1>3 DEF Exposure
  <2>6. \/ filled'[s] + OrderQty <= MaxPosition
        \/ filled'[s] + open'[s] + a + w <= 2 * Limit(s)
    <3> HIDE DEF n, d, a, w
    <3> QED
      BY SMTT(30), <2>1, <2>2, <2>3, <2>4, <2>5, RiskAssumption
  <2> QED
    BY <1>2, <2>1, <2>5, <2>6 DEF Exposure
<1>5. ASSUME NEW u \in Symbols, NEW q \in 1..open[u], CancelOrder(u, q)
      PROVE  Exposure(s)'
  <2>1. /\ filled'[s] = filled[s] /\ pending'[s] <= pending[s] /\ open'[s] <= open[s]
        /\ pending'[s] = open'[s] + Moving(s)'
    BY SMTT(30), <1>3, <1>5 DEF CancelOrder, fillVars, TypeOK, Exposure, Moving
  <2> QED
    BY <1>2, <1>3, <2>1, ExposureKept
<1>6. CASE FillPending
  <2>1. /\ filled'[s] = filled[s] /\ pending'[s] <= pending[s] /\ open'[s] <= open[s]
        /\ pending'[s] = open'[s] + Moving(s)'
    BY SMTT(30), <1>3, <1>6 DEF FillPending, TypeOK, Exposure, Moving
  <2> QED
    BY <1>2, <1>3, <2>1, ExposureKept
<1>7. CASE Tick \/ UNCHANGED vars
  <2>1. /\ filled'[s] = filled[s] /\ pending'[s] <= pending[s] /\ open'[s] <= open[s]
        /\ pending'[s] = open'[s] + Moving(s)'
    BY SMTT(30), <1>3, <1>7 DEF Tick, vars, counters, fillVars, TypeOK, Exposure, Moving
  <2> QED
    BY <1>2, <1>3, <2>1, ExposureKept
<1> QED
  BY <1>4, <1>5, <1>6, <1>7

\* The loads of getTotalExposure, the decision and onOrderSent.
LEMMA ExposureChecks ==
  ASSUME TypeOK, TypeOK', NEW s \in Symbols, Inv, NEW c \in Symbols,
         \/ ReadFilledFirst(c) \/ ReadPendingFirst(c)
         \/ ReadPendingSecond(c) \/ ReadFilledSecond(c) \/ SendOrder(c)
  PROVE  Exposure(s)'
<1>1. Exposure(s)
  BY DEF Inv
<1>2. /\ UNCHANGED <<filled, sym, fsym, fqty>>
      /\ \A d \in Symbols \ {c} : pc'[d] = pc[d] /\ got'[d] = got[d]
  BY SMTT(30) DEF TypeOK, ReadFilledFirst, ReadPendingFirst, ReadPendingSecond,
     ReadFilledSecond, SendOrder, Goto, counters, fillVars
<1>3. ASSUME UNCHANGED <<pending, open>>
      PROVE  /\ filled'[s] = filled[s] /\ pending'[s] <= pending[s]
             /\ open'[s] <= open[s] /\ pending'[s] = open'[s] + Moving(s)'
  BY SMTT(30), <1>1, <1>2, <1>3 DEF Exposure, Moving, TypeOK
<1>4. UNCHANGED <<pending, open>> \/ SendOrder(c)
  BY DEF ReadFilledFirst, ReadPendingFirst, ReadPendingSecond, ReadFilledSecond,
     counters
<1>5. CASE sym[c] # s
  <2>1. /\ Approved(s)' \subseteq Approved(s) /\ Deciding(s)' \subseteq Deciding(s)
        /\ Unaware(s)' \subseteq Unaware(s)
    BY <1>2, <1>5 DEF Approved, Deciding, Unaware, At, Servers
  <2>2. /\ filled'[s] = filled[s] /\ pending'[s] <= pending[s]
        /\ open'[s] <= open[s] /\ pending'[s] = open'[s] + Moving(s)'
    BY SMTT(30), <1>1, <1>2, <1>3, <1>4, <1>5 DEF SendOrder, TypeOK, Exposure, Moving
  <2> QED
    BY <1>1, <2>1, <2>2, ExposureKept
<1> SUFFICES ASSUME sym[c] = s PROVE Exposure(s)'
  BY <1>5
<1>6. pc[c] # "idle" /\ c \in Servers(s)
  BY DEF Inv, Served, ReadFilledFirst, ReadPendingFirst, ReadPendingSecond,
     ReadFilledSecond, SendOrder
<1> DEFINE n == Cardinality(Servers(s))
           d == Cardinality(Deciding(s))
           a == Cardinality(Approved(s))
           w == Cardinality(Unaware(s))
           d1 == Cardinality(Deciding(s)')
           a1 == Cardinality(Approved(s)')
           w1 == Cardinality(Unaware(s)')
<1>7. /\ n \in Nat /\ d \in Nat /\ a \in Nat /\ w \in Nat
      /\ d1 \in Nat /\ a1 \in Nat /\ w1 \in Nat /\ d1 <= n
  BY SetsOfServers, Counts
<1>8. /\ Shares(n) \in Nat /\ Shares(d) \in Nat /\ Shares(a) \in Nat
      /\ Shares(w) \in Nat /\ Shares(d1) \in Nat /\ Shares(a1) \in Nat
      /\ Shares(w1) \in Nat /\ Shares(d1) <= Shares(n)
  BY <1>7, SharesGrow
<1>9. Limit(s) = MaxPosition + Shares(n) - OrderQty
  BY LimitShares
<1>10. /\ filled[s] \in Nat /\ pending[s] \in Nat /\ open[s] \in Nat /\ got[c] \in Nat
       /\ OrderQty \in Nat \ {0} /\ MaxPosition \in Nat
  BY RiskAssumption DEF TypeOK
<1>11. /\ pending[s] + Shares(d) <= Limit(s)
       /\ \/ filled[s] + OrderQty <= MaxPosition
          \/ filled[s] + open[s] + Shares(a) + Shares(w) <= 2 * Limit(s)
  BY <1>1 DEF Exposure
<1>12. SUFFICES ASSUME TRUE
       PROVE  /\ pending'[s] = open'[s] + Moving(s)'
              /\ pending'[s] + Shares(d1) <= Limit(s)
              /\ \/ filled'[s] + OrderQty <= MaxPosition
                 \/ filled'[s] + open'[s] + Shares(a1) + Shares(w1) <= 2 * Limit(s)
  BY DEF Exposure
<1>a. CASE ReadFilledFirst(c)
  <2>1. UNCHANGED <<pending, open>> /\ got'[c] = filled[s] /\ pc'[c] = "readPending"
        /\ pc[c] = "read"
    BY <1>a DEF ReadFilledFirst, Goto, counters, TypeOK
  <2>2. Approved(s)' \subseteq Approved(s) /\ Deciding(s)' \subseteq Deciding(s)
    BY <1>2, <2>1 DEF Approved, Deciding, At, Servers
  <2>3. CASE filled[s] + OrderQty <= MaxPosition
    <3>1. d1 <= d
      BY <2>2, SetsOfServers, Counts
    <3>2. Shares(d1) <= Shares(d)
      BY <3>1, <1>7, SharesGrow
    <3> HIDE DEF n, d, a, w, d1, a1, w1
    <3>3. pending'[s] + Shares(d1) <= Limit(s)
      BY SMTT(30), <1>8, <1>9, <1>10, <1>11, <2>1, <3>2
    <3> QED
      BY <1>2, <1>3, <2>1, <2>3, <3>3
  <2>4. CASE ~(filled[s] + OrderQty <= MaxPosition)
    <3>1. Unaware(s)' \subseteq Unaware(s)
      BY <1>2, <2>1, <2>4 DEF Unaware, At, Servers
    <3>2. Exposure(s)'
      BY <1>1, <1>3, <2>1, <2>2, <3>1, ExposureKept
    <3> QED
      BY <3>2 DEF Exposure
  <2> QED
    BY <2>3, <2>4
<1>b. CASE ReadPendingFirst(c)
  <2>1. UNCHANGED <<pending, open>> /\ got'[c] = pending[s] /\ pc'[c] = "readFilled"
        /\ pc[c] = "read"
    BY <1>b DEF ReadPendingFirst, Goto, counters, TypeOK
  <2>2. Approved(s)' \subseteq Approved(s) /\ Unaware(s)' \subseteq Unaware(s)
    BY <1>2, <2>1 DEF Approved, Unaware, At, Servers
  <2>3. CASE pending[s] + OrderQty <= MaxPosition
    <3>1. a1 <= a /\ w1 <= w
      BY <2>2, SetsOfServers, Counts
    <3>2. Shares(a1) <= Shares(a) /\ Shares(w1) <= Shares(w)
      BY <3>1, <1>7, SharesGrow
    <3> HIDE DEF n, d, a, w, d1, a1, w1
    <3>3. pending[s] + Shares(d1) <= Limit(s)
      BY SMTT(30), <1>8, <1>9, <1>10, <2>3
    <3>4. \/ filled[s] + OrderQty <= MaxPosition
          \/ filled[s] + open[s] + Shares(a1) + Shares(w1) <= 2 * Limit(s)
      BY SMTT(30), <1>8, <1>9, <1>10, <1>11, <3>2
    <3> QED
      BY <1>2, <1>3, <2>1, <3>3, <3>4
  <2>4. CASE ~(pending[s] + OrderQty <= MaxPosition)
    <3>1. Deciding(s)' \subseteq Deciding(s)
      BY <1>2, <2>1, <2>2, <2>4 DEF Deciding, At, Servers
    <3>2. Exposure(s)'
      BY <1>1, <1>3, <2>1, <2>2, <3>1, ExposureKept
    <3> QED
      BY <3>2 DEF Exposure
  <2> QED
    BY <2>3, <2>4
<1>c. CASE ReadPendingSecond(c)
  <2>1. /\ UNCHANGED <<pending, open>> /\ pc[c] = "readPending"
        /\ \/ pc'[c] = "idle"
           \/ pc'[c] = "send" /\ got[c] + pending[s] + OrderQty <= MaxPosition
    BY SMTT(30), <1>10, <1>c DEF ReadPendingSecond, Allowed, Abs, Goto, counters, TypeOK
  <2>2. CASE pc'[c] = "idle"
    <3>1. /\ Approved(s)' \subseteq Approved(s) /\ Deciding(s)' \subseteq Deciding(s)
          /\ Unaware(s)' \subseteq Unaware(s)
      BY <1>2, <2>2 DEF Approved, Deciding, Unaware, At, Servers
    <3>2. Exposure(s)'
      BY <1>1, <1>3, <2>1, <3>1, ExposureKept
    <3> QED
      BY <3>2 DEF Exposure
  <2>3. CASE pc'[c] = "send" /\ got[c] + pending[s] + OrderQty <= MaxPosition
    <3>1. c \in Unaware(s) /\ c \notin Unaware(s)' /\ Unaware(s)' \subseteq Unaware(s)
      <4>1. got[c] + OrderQty <= MaxPosition
        BY SMTT(30), <1>10, <2>3
      <4> QED
        BY <1>2, <1>6, <2>1, <2>3, <4>1 DEF Unaware, At, Servers
    <3>2. Approved(s)' \subseteq Approved(s) \cup {c}
      BY <1>2 DEF Approved, At, Servers
    <3>3. w1 + 1 <= w /\ a1 <= a + 1
      BY <1>6, <3>1, <3>2, SetsOfServers, Counts
    <3>4. /\ Shares(w1) + OrderQty <= Shares(w)
          /\ Shares(a1) <= Shares(a) + OrderQty
      <4> HIDE DEF n, d, a, w, d1, a1, w1
      <4>1. Shares(w1 + 1) = Shares(w1) + OrderQty /\ Shares(w1 + 1) <= Shares(w)
        <5>1. w1 + 1 \in Nat
          BY SMTT(30), <1>7
        <5> QED
          BY <1>7, <3>3, <5>1, SharesGrow
      <4>2. Shares(a + 1) = Shares(a) + OrderQty /\ Shares(a1) <= Shares(a + 1)
        BY SMTT(30), <1>7, <3>3, SharesGrow
      <4> QED
        BY <4>1, <4>2
    <3> HIDE DEF n, d, a, w, d1, a1, w1
    <3>5. pending[s] + Shares(d1) <= Limit(s)
      BY <1>8, <1>9, <1>10, <2>3
    <3>6. \/ filled[s] + OrderQty <= MaxPosition
          \/ filled[s] + open[s] + Shares(a1) + Shares(w1) <= 2 * Limit(s)
      BY SMTT(30), <1>8, <1>9, <1>10, <1>11, <3>4
    <3> QED
      BY <1>2, <1>3, <2>1, <3>5, <3>6
  <2> QED
    BY <2>1, <2>2, <2>3
<1>d. CASE ReadFilledSecond(c)
  <2>1. /\ UNCHANGED <<pending, open>> /\ pc[c] = "readFilled"
        /\ \/ pc'[c] = "idle"
           \/ pc'[c] = "send" /\ got[c] + filled[s] + OrderQty <= MaxPosition
    BY SMTT(30), <1>10, <1>d DEF ReadFilledSecond, Allowed, Abs, Goto, counters, TypeOK
  <2>2. CASE pc'[c] = "idle"
    <3>1. /\ Approved(s)' \subseteq Approved(s) /\ Deciding(s)' \subseteq Deciding(s)
          /\ Unaware(s)' \subseteq Unaware(s)
      BY <1>2, <2>2 DEF Approved, Deciding, Unaware, At, Servers
    <3>2. Exposure(s)'
      BY <1>1, <1>3, <2>1, <3>1, ExposureKept
    <3> QED
      BY <3>2 DEF Exposure
  <2>3. CASE pc'[c] = "send" /\ got[c] + filled[s] + OrderQty <= MaxPosition
    <3>1. Deciding(s)' \subseteq Deciding(s)
      <4>1. got[c] + OrderQty <= MaxPosition
        BY SMTT(30), <1>10, <2>3
      <4> QED
        BY <1>2, <1>6, <2>1, <2>3, <4>1 DEF Deciding, Approved, At, Servers
    <3>2. d1 <= d
      BY <3>1, SetsOfServers, Counts
    <3>3. Shares(d1) <= Shares(d)
      BY <3>2, <1>7, SharesGrow
    <3> HIDE DEF n, d, a, w, d1, a1, w1
    <3>4. pending[s] + Shares(d1) <= Limit(s)
      BY SMTT(30), <1>8, <1>9, <1>10, <1>11, <3>3
    <3>5. filled[s] + OrderQty <= MaxPosition
      BY SMTT(30), <1>10, <2>3
    <3> QED
      BY <1>2, <1>3, <2>1, <3>4, <3>5
  <2> QED
    BY <2>1, <2>2, <2>3
<1>e. CASE SendOrder(c)
  <2>1. /\ pending'[s] = pending[s] + OrderQty /\ open'[s] = open[s] + OrderQty
        /\ pc[c] = "send" /\ pc'[c] = "idle"
    BY <1>e DEF SendOrder, Goto, TypeOK
  <2>2. /\ c \in Approved(s) /\ c \notin Approved(s)' /\ Approved(s)' \subseteq Approved(s)
        /\ c \in Deciding(s) /\ c \notin Deciding(s)' /\ Deciding(s)' \subseteq Deciding(s)
        /\ Unaware(s)' \subseteq Unaware(s)
    BY <1>2, <1>6, <2>1 DEF Approved, Deciding, Unaware, At, Servers
  <2>3. a1 + 1 <= a /\ d1 + 1 <= d /\ w1 <= w
    BY <2>2, SetsOfServers, Counts
  <2> HIDE DEF n, d, a, w, d1, a1, w1
  <2>4. /\ Shares(a1) + OrderQty <= Shares(a) /\ Shares(d1) + OrderQty <= Shares(d)
        /\ Shares(w1) <= Shares(w)
    <3>1. Shares(a1 + 1) = Shares(a1) + OrderQty /\ Shares(a1 + 1) <= Shares(a)
      BY SMTT(30), <1>7, <2>3, SharesGrow
    <3>2. Shares(d1 + 1) = Shares(d1) + OrderQty /\ Shares(d1 + 1) <= Shares(d)
      BY SMTT(30), <1>7, <2>3, SharesGrow
    <3> QED
      BY <3>1, <3>2, <1>7, <2>3, SharesGrow
  <2>5. pending'[s] = open'[s] + Moving(s)'
    BY SMTT(30), <1>1, <1>2, <1>10, <2>1 DEF Exposure, Moving, TypeOK
  <2>6. pending'[s] + Shares(d1) <= Limit(s)
    BY SMTT(30), <1>8, <1>9, <1>10, <1>11, <2>1, <2>4
  <2>7. \/ filled[s] + OrderQty <= MaxPosition
        \/ filled[s] + open'[s] + Shares(a1) + Shares(w1) <= 2 * Limit(s)
    BY SMTT(30), <1>8, <1>9, <1>10, <1>11, <2>1, <2>4
  <2> QED
    BY <1>2, <2>5, <2>6, <2>7
<1> QED
  BY <1>a, <1>b, <1>c, <1>d, <1>e

\* Every step keeps what the invariant says of the exposure.
LEMMA ExposureInv ==
  ASSUME Inv, [Next]_vars, NEW s \in Symbols
  PROVE  Exposure(s)'
<1>1. TypeOK /\ TypeOK' /\ Exposure(s)
  BY TypeInv DEF Inv
<1> QED
  BY <1>1, ExposureCooldown, ExposureFills, ExposureChecks, SymbolsAssumption
  DEF Next, Consumer

-----------------------------------------------------------------------------
\* The cooldown, step by step

\* Spaced(s) survives a step that stores no time and adds no thread to its sets.
LEMMA SpacedKept ==
  ASSUME NEW s \in Symbols, TypeOK, TypeOK', Spaced(s),
         last'[s] = last[s], counted'[s] = counted[s], clock <= clock',
         Rest(s) \subseteq Rest(s)',
         last[s] \in Window => Able(s)' \subseteq Able(s),
         clock >= From + Cooldown => Inside(s)' \subseteq Inside(s)
  PROVE  Spaced(s)'
<1> DEFINE n == Cardinality(Servers(s))
           f == Cardinality(Rest(s))
           g == Cardinality(Able(s))
           h == Cardinality(Inside(s))
           f1 == Cardinality(Rest(s)')
           g1 == Cardinality(Able(s)')
           h1 == Cardinality(Inside(s)')
<1>1. /\ f \in Nat /\ g \in Nat /\ h \in Nat /\ f1 \in Nat /\ g1 \in Nat
      /\ h1 \in Nat /\ f <= f1
  BY SetsOfServers, Counts
<1>2. /\ last[s] \in Window => g1 <= g
      /\ clock >= From + Cooldown => h1 <= h
  BY SetsOfServers, Counts
<1>3. (f - 1) * f <= (f1 - 1) * f1 /\ f * (f + 1) <= f1 * (f1 + 1)
  <2> HIDE DEF f, f1
  <2> QED
    BY <1>1, SumsGrow
<1>4. counted[s] \in Nat /\ clock \in Nat /\ clock' \in Nat
  BY SMTT(30), RiskAssumption DEF TypeOK
<1>5. CASE last[s] < From /\ 2 * counted[s] <= (f - 1) * f
  <2>1. (f - 1) * f \in Int /\ (f1 - 1) * f1 \in Int
    BY <1>1
  <2>2. 2 * counted'[s] <= (f1 - 1) * f1
    BY SMTT(30), <1>3, <1>4, <1>5, <2>1
  <2> QED
    BY <1>5, <2>2 DEF Spaced
<1>6. CASE last[s] \in Window /\ 2 * (counted[s] + g) <= f * (f + 1)
  <2>1. f * (f + 1) \in Int /\ f1 * (f1 + 1) \in Int
    BY SMTT(30), <1>1
  <2>2. g1 <= g
    BY <1>2, <1>6
  <2>3. 2 * (counted'[s] + g1) <= f1 * (f1 + 1)
    <3> HIDE DEF f, f1, g, g1
    <3> QED
      BY SMTT(30), <1>1, <1>3, <1>4, <1>6, <2>1, <2>2
  <2> QED
    BY <1>6, <2>3 DEF Spaced
<1>7. CASE clock >= From + Cooldown /\ 2 * (counted[s] + h) <= n * (n + 1) + 2 * (n - 1)
  <2>1. n * (n + 1) + 2 * (n - 1) \in Int
    BY SMTT(30), Served1
  <2>2. h1 <= h
    BY <1>2, <1>7
  <2>3. 2 * (counted'[s] + h1) <= n * (n + 1) + 2 * (n - 1)
    <3> DEFINE m == n * (n + 1) + 2 * (n - 1)
    <3> HIDE DEF m, h, h1
    <3>1. m \in Int /\ 2 * (counted[s] + h) <= m
      BY <1>7, <2>1 DEF m
    <3>2. 2 * (counted'[s] + h1) <= m
      BY SMTT(30), <1>1, <1>4, <2>2, <3>1
    <3> QED
      BY <3>2 DEF m
  <2>4. clock' >= From + Cooldown
    BY SMTT(30), <1>4, <1>7, RiskAssumption
  <2> QED
    BY <2>3, <2>4 DEF Spaced
<1> QED
  BY <1>5, <1>6, <1>7 DEF Spaced

\* No step but those of checkAndUpdate touches what Spaced is about.
LEMMA SpacedElsewhere ==
  ASSUME TypeOK, TypeOK', NEW s \in Symbols, Spaced(s),
         \/ \E c \in Symbols :
              \/ ReadFilledFirst(c) \/ ReadPendingFirst(c)
              \/ ReadPendingSecond(c) \/ ReadFilledSecond(c) \/ SendOrder(c)
         \/ \E u \in Symbols : \E q \in 1..open[u] : FillFilled(u, q) \/ CancelOrder(u, q)
         \/ FillPending \/ Tick \/ UNCHANGED vars
  PROVE  Spaced(s)'
<1>1. /\ UNCHANGED <<last, counted, now, sym>>
      /\ clock <= clock'
  BY SMTT(30), RiskAssumption
  DEF TypeOK, ReadFilledFirst, ReadPendingFirst, ReadPendingSecond,
     ReadFilledSecond, SendOrder, FillFilled, CancelOrder, FillPending, Tick,
     times, vars
<1>2. \A d \in Symbols, x \in Checking : (pc'[d] = x) <=> (pc[d] = x)
  <2>1. ASSUME NEW c \in Symbols,
               \/ ReadFilledFirst(c) \/ ReadPendingFirst(c)
               \/ ReadPendingSecond(c) \/ ReadFilledSecond(c) \/ SendOrder(c)
        PROVE  /\ pc[c] \notin Checking /\ pc'[c] \notin Checking
               /\ \A d \in Symbols \ {c} : pc'[d] = pc[d]
    BY SMTT(30), <2>1 DEF TypeOK, Checking, ReadFilledFirst, ReadPendingFirst,
       ReadPendingSecond, ReadFilledSecond, SendOrder, Goto
  <2>2. CASE UNCHANGED pc
    BY <2>2
  <2> QED
    BY <2>1, <2>2 DEF FillFilled, CancelOrder, FillPending, Tick, vars
<1>3. At(s, Checking)' = At(s, Checking)
  BY <1>1, <1>2 DEF At, Servers
<1>4. Inside(s)' = Inside(s) /\ Rest(s)' = Rest(s)
  BY <1>1, <1>3 DEF Inside, Rest, Early, Servers
<1>5. Able(s)' = Able(s)
  <2>1. \A d \in Inside(s) : (pc'[d] = "stamp") <=> (pc[d] = "stamp")
    BY <1>2 DEF Inside, At, Servers, Checking
  <2> QED
    BY <1>1, <1>4, <2>1 DEF Able
<1> QED
  BY <1>1, <1>4, <1>5, SpacedKept

\* An event is taken: the time read is not before any other.
LEMMA SpacedTake ==
  ASSUME Inv, TypeOK, TypeOK', NEW s \in Symbols, NEW c \in Symbols,
         NEW u \in Symbols, TakeEvent(c, u)
  PROVE  Spaced(s)'
<1>1. Spaced(s) /\ Past
  BY DEF Inv
<1>2. /\ UNCHANGED <<last, counted, clock>>
      /\ pc[c] = "idle" /\ pc'[c] = "cooldown" /\ sym'[c] = u /\ now'[c] = clock
      /\ \A d \in Symbols \ {c} : pc'[d] = pc[d] /\ sym'[d] = sym[d] /\ now'[d] = now[d]
  BY SMTT(30) DEF TypeOK, TakeEvent, Goto, times
<1>3. clock \in Nat /\ From \in Nat /\ Cooldown \in Nat
  BY SMTT(30), RiskAssumption DEF TypeOK
<1>4. CASE clock < From
  <2>1. counted'[s] = 0 /\ last'[s] < From
    BY SMTT(30), <1>1, <1>2, <1>3, <1>4 DEF Past, TypeOK
  <2> DEFINE f1 == Cardinality(Rest(s)')
  <2>2. f1 \in Nat
    BY SetsOfServers, Counts
  <2>3. 0 <= (f1 - 1) * f1
    <3> HIDE DEF f1
    <3> QED
      BY <2>2, SumsGrow
  <2> QED
    BY SMTT(30), <2>1, <2>3 DEF Spaced
<1>5. CASE ~(clock < From)
  <2>1. Early(s)' \subseteq Early(s)
    BY <1>2, <1>3, <1>5 DEF Early, At, Servers
  <2>2. Rest(s) \subseteq Rest(s)'
    BY <2>1 DEF Rest, Servers
  <2>3. Inside(s)' \subseteq Inside(s) \cup {c}
    BY <1>2 DEF Inside, At, Servers
  <2>4. clock >= From + Cooldown => c \notin Inside(s)'
    BY SMTT(30), <1>2, <1>3 DEF Inside, Window
  <2>5. Able(s)' \subseteq Able(s)
    <3> SUFFICES ASSUME NEW d \in Able(s)' PROVE d \in Able(s)
      OBVIOUS
    <3>1. /\ d \in Inside(s)'
          /\ \/ pc'[d] = "stamp"
             \/ now'[d] < last'[s]
             \/ \E e \in Inside(s)' : pc'[e] = "stamp" /\ now'[d] < now'[e]
      BY DEF Able
    <3>2. \A e \in Symbols : now'[e] <= clock /\ now'[e] \in Nat
      BY SMTT(30), <1>1, <1>2, RiskAssumption DEF Past, TypeOK
    <3>3. last'[s] <= clock /\ last'[s] \in Nat
      BY SMTT(30), <1>1, <1>2, RiskAssumption DEF Past, TypeOK
    <3>4. Inside(s)' \subseteq Symbols
      BY DEF Inside, At, Servers
    <3>5. d # c
      BY SMTT(30), <1>2, <1>3, <3>1, <3>2, <3>3, <3>4
    <3>6. d \in Inside(s)
      BY <2>3, <3>1, <3>5
    <3>7. ASSUME NEW e \in Inside(s)', pc'[e] = "stamp"
          PROVE  e \in Inside(s) /\ pc[e] = "stamp" /\ now'[e] = now[e]
      BY <1>2, <2>3, <3>4, <3>7
    <3> QED
      BY <1>2, <3>1, <3>4, <3>5, <3>6, <3>7 DEF Able
  <2>6. clock >= From + Cooldown => Inside(s)' \subseteq Inside(s)
    BY <2>3, <2>4
  <2>7. last'[s] = last[s] /\ counted'[s] = counted[s] /\ clock <= clock'
    BY SMTT(30), <1>2, <1>3
  <2> QED
    BY <1>1, <2>2, <2>5, <2>6, <2>7, SpacedKept
<1> QED
  BY <1>4, <1>5

\* The test of checkAndUpdate: in the window, it lets pass only a thread that
\* has been overtaken.
LEMMA SpacedTest ==
  ASSUME Inv, TypeOK, TypeOK', NEW s \in Symbols, NEW c \in Symbols,
         CooldownRefuses(c) \/ CooldownPasses(c)
  PROVE  Spaced(s)'
<1>1. Spaced(s) /\ Past
  BY DEF Inv
<1>2. /\ UNCHANGED <<last, counted, clock, sym>>
      /\ pc[c] = "cooldown"
      /\ \/ pc'[c] = "idle"
         \/ pc'[c] = "stamp" /\ now'[c] = now[c] /\ ~TooSoon(now[c], sym[c])
      /\ \A d \in Symbols \ {c} : pc'[d] = pc[d] /\ now'[d] = now[d]
  BY SMTT(30) DEF TypeOK, CooldownRefuses, CooldownPasses, Goto, times
<1>3. /\ clock \in Nat /\ From \in Nat /\ Cooldown \in Nat
      /\ now[c] \in 0..MaxTime /\ last[s] \in 0..MaxTime
  BY SMTT(30), RiskAssumption DEF TypeOK
<1>4. /\ At(s, Checking)' \subseteq At(s, Checking)
      /\ \A d \in At(s, Checking)' : now'[d] = now[d]
  BY <1>2 DEF At, Servers, Checking
<1>5. Rest(s) \subseteq Rest(s)' /\ Inside(s)' \subseteq Inside(s)
  BY <1>4 DEF Rest, Early, Inside, Servers
<1>6. ASSUME last[s] \in Window, c \in Inside(s)' PROVE now[c] < last[s]
  <2>1. sym[c] = s /\ now[c] \in Window /\ pc'[c] = "stamp"
    BY <1>2, <1>4, <1>6 DEF Inside, At, Checking, Servers
  <2>2. ~TooSoon(now[c], s)
    BY <1>2, <2>1
  <2>3. SUFFICES ASSUME now[c] >= last[s] PROVE FALSE
    BY SMTT(30), <1>3
  <2>4. now[c] - last[s] \in 0..MaxTime
    BY SMTT(30), <1>3, <2>3, RiskAssumption
  <2>5. (now[c] - last[s]) % WordSize = now[c] - last[s]
    BY <2>4, NoWrap
  <2>6. now[c] - last[s] < Cooldown
    BY SMTT(30), <1>3, <1>6, <2>1, <2>3 DEF Window
  <2> QED
    BY <2>2, <2>5, <2>6 DEF TooSoon
<1>7. ASSUME last[s] \in Window PROVE Able(s)' \subseteq Able(s)
  <2> SUFFICES ASSUME NEW d \in Able(s)' PROVE d \in Able(s)
    OBVIOUS
  <2>1. /\ d \in Inside(s)'
        /\ \/ pc'[d] = "stamp"
           \/ now'[d] < last'[s]
           \/ \E e \in Inside(s)' : pc'[e] = "stamp" /\ now'[d] < now'[e]
    BY DEF Able
  <2>2. Inside(s)' \subseteq Symbols /\ \A e \in Inside(s)' : now'[e] = now[e]
    BY <1>4 DEF Inside, At, Servers
  <2>3. d \in Inside(s) /\ now'[d] = now[d] /\ last'[s] = last[s] /\ d \in Symbols
    BY <1>2, <1>5, <2>1, <2>2
  <2>4. CASE d = c
    BY <1>6, <1>7, <2>1, <2>3, <2>4 DEF Able
  <2>5. CASE d # c
    <3>1. pc'[d] = pc[d]
      BY <1>2, <2>3, <2>5
    <3>2. ASSUME NEW e \in Inside(s)', pc'[e] = "stamp", now'[d] < now'[e]
          PROVE  d \in Able(s)
      <4>1. now[d] < now[e] /\ e \in Inside(s)
        BY <1>5, <2>2, <2>3, <3>2
      <4>2. CASE e = c
        <5>1. now[c] < last[s]
          BY <1>6, <1>7, <3>2, <4>2
        <5>2. now[d] \in Nat /\ now[c] \in Nat /\ last[s] \in Nat
          BY SMTT(30), <2>3, RiskAssumption DEF TypeOK
        <5>3. now[d] < last[s]
          BY <4>1, <4>2, <5>1, <5>2
        <5> QED
          BY <2>3, <5>3 DEF Able
      <4>3. CASE e # c
        <5>1. pc[e] = "stamp"
          BY <1>2, <2>2, <3>2, <4>3
        <5> QED
          BY <2>3, <4>1, <5>1 DEF Able
      <4> QED
        BY <4>2, <4>3
    <3> QED
      BY <2>1, <2>3, <3>1, <3>2 DEF Able
  <2> QED
    BY <2>4, <2>5
<1>8. last'[s] = last[s] /\ counted'[s] = counted[s] /\ clock <= clock'
  BY SMTT(30), <1>2, <1>3
<1> QED
  BY <1>1, <1>5, <1>7, <1>8, SpacedKept

\* checkAndUpdate stores the time: before the window, in it or after it.
LEMMA SpacedStamp ==
  ASSUME Inv, TypeOK, TypeOK', NEW s \in Symbols, NEW c \in Symbols,
         CooldownStamp(c)
  PROVE  Spaced(s)'
<1>1. Spaced(s) /\ Past /\ Served
  BY DEF Inv
<1>2. /\ UNCHANGED <<clock, sym>>
      /\ pc[c] = "stamp" /\ pc'[c] \notin Checking
      /\ last' = [last EXCEPT ![sym[c]] = now[c]]
      /\ counted' = [counted EXCEPT ![sym[c]] = IF now[c] \in Window THEN @ + 1 ELSE @]
      /\ \A d \in Symbols \ {c} : pc'[d] = pc[d] /\ now'[d] = now[d]
  BY SMTT(30) DEF TypeOK, CooldownStamp, Goto, Checking
<1>3. /\ clock \in Nat /\ From \in Nat /\ Cooldown \in Nat
      /\ now[c] \in Nat /\ last[s] \in Nat /\ counted[s] \in Nat
      /\ now[c] <= clock /\ sym[c] \in Symbols
  BY SMTT(30), <1>1, RiskAssumption DEF TypeOK, Past
<1>4. /\ At(s, Checking)' = At(s, Checking) \ {c}
      /\ \A d \in At(s, Checking)' : now'[d] = now[d]
  BY <1>2 DEF At, Servers
<1>5. /\ Rest(s) \subseteq Rest(s)' /\ Inside(s)' = Inside(s) \ {c}
      /\ \A d \in Inside(s)' : now'[d] = now[d] /\ pc'[d] = pc[d] /\ d \in Symbols
  BY <1>2, <1>4 DEF Rest, Early, Inside, Servers, At
<1>6. CASE sym[c] # s
  <2>1. last'[s] = last[s] /\ counted'[s] = counted[s] /\ clock <= clock'
    BY SMTT(30), <1>2, <1>3, <1>6 DEF TypeOK
  <2>2. Able(s)' \subseteq Able(s)
    BY <1>5, <2>1 DEF Able
  <2> QED
    BY <1>1, <1>5, <2>1, <2>2, SpacedKept
<1> SUFFICES ASSUME sym[c] = s PROVE Spaced(s)'
  BY <1>6
<1>7. /\ last'[s] = now[c]
      /\ counted'[s] = IF now[c] \in Window THEN counted[s] + 1 ELSE counted[s]
  BY <1>2 DEF TypeOK
<1>8. c \in Servers(s) /\ c \in At(s, Checking) /\ c \in Rest(s)'
  <2>1. c \in Servers(s)
    BY <1>1, <1>2 DEF Served
  <2> QED
    BY <1>2, <1>4, <2>1 DEF At, Checking, Rest, Early, Servers
<1> DEFINE n == Cardinality(Servers(s))
           f == Cardinality(Rest(s))
           g == Cardinality(Able(s))
           h == Cardinality(Inside(s))
           f1 == Cardinality(Rest(s)')
           g1 == Cardinality(Able(s)')
           h1 == Cardinality(Inside(s)')
<1>9. /\ n \in Nat /\ f \in Nat /\ g \in Nat /\ h \in Nat /\ f1 \in Nat
      /\ g1 \in Nat /\ h1 \in Nat /\ f <= f1 /\ f <= n /\ h1 + 1 <= n
  <2>1. h1 + 1 <= n
    BY <1>5, <1>8, SetsOfServers, Counts
  <2> QED
    BY <1>5, <2>1, SetsOfServers, Counts
<1>10. /\ 0 <= (f - 1) * f /\ (f - 1) * f + 2 * f = f * (f + 1)
       /\ (f - 1) * f <= (n - 1) * n /\ f * (f + 1) <= n * (n + 1)
       /\ (n - 1) * n + 2 * n = n * (n + 1) /\ f * (f + 1) <= f1 * (f1 + 1)
       /\ (f - 1) * f \in Int /\ f * (f + 1) \in Int /\ (n - 1) * n \in Int
       /\ n * (n + 1) \in Int /\ (f1 - 1) * f1 \in Int /\ f1 * (f1 + 1) \in Int
  <2> HIDE DEF n, f, f1
  <2>1. /\ (f - 1) * f \in Int /\ f * (f + 1) \in Int /\ (n - 1) * n \in Int
        /\ n * (n + 1) \in Int /\ (f1 - 1) * f1 \in Int /\ f1 * (f1 + 1) \in Int
    BY SMTT(30), <1>9
  <2> QED
    BY <1>9, <2>1, SumsGrow
<1>11. \/ last[s] < From /\ 2 * counted[s] <= (f - 1) * f
       \/ last[s] \in Window /\ 2 * (counted[s] + g) <= f * (f + 1)
       \/ clock >= From + Cooldown /\ 2 * (counted[s] + h) <= n * (n + 1) + 2 * (n - 1)
  BY <1>1 DEF Spaced
<1>12. SUFFICES ASSUME TRUE
       PROVE  \/ now[c] < From /\ 2 * counted'[s] <= (f1 - 1) * f1
              \/ now[c] \in Window /\ 2 * (counted'[s] + g1) <= f1 * (f1 + 1)
              \/ /\ clock >= From + Cooldown
                 /\ 2 * (counted'[s] + h1) <= n * (n + 1) + 2 * (n - 1)
  BY <1>2, <1>7 DEF Spaced
<1>13. CASE now[c] < From
  <2>1. c \notin Rest(s) /\ c \notin Inside(s) /\ counted'[s] = counted[s]
    BY SMTT(30), <1>3, <1>7, <1>8, <1>13 DEF Rest, Early, Inside, Window
  <2>2. f + 1 <= f1 /\ h1 = h
    BY <1>5, <1>8, <2>1, SetsOfServers, Counts
  <2>3. f * (f + 1) <= (f1 - 1) * f1
    <3> HIDE DEF f, f1
    <3> QED
      BY <1>9, <2>2, SumsGrow
  <2> DEFINE ff == (f - 1) * f
             fg == f * (f + 1)
             gg == (f1 - 1) * f1
             nn == n * (n + 1)
  <2>4. /\ ff \in Int /\ fg \in Int /\ gg \in Int /\ nn \in Int /\ ff + 2 * f = fg /\ fg <= gg
    BY <1>10, <2>3
  <2>5. \/ 2 * counted[s] <= ff
        \/ 2 * (counted[s] + g) <= fg
        \/ clock >= From + Cooldown /\ 2 * (counted[s] + h) <= nn + 2 * (n - 1)
    BY <1>11
  <2>6. \/ 2 * counted[s] <= gg
        \/ clock >= From + Cooldown /\ 2 * (counted[s] + h) <= nn + 2 * (n - 1)
    <3> HIDE DEF ff, fg, gg, nn, f, g, h, n
    <3> QED
      BY SMTT(30), <1>3, <1>9, <2>4, <2>5
  <2> QED
    BY <1>13, <2>1, <2>2, <2>6
<1>14. CASE now[c] \in Window
  <2>1. c \in Inside(s) /\ c \in Rest(s) /\ counted'[s] = counted[s] + 1
    BY SMTT(30), <1>3, <1>7, <1>8, <1>14 DEF Rest, Early, Inside, Window
  <2>2. c \in Able(s) /\ c \notin Able(s)' /\ c \notin Inside(s)'
    BY <1>2, <1>5, <2>1 DEF Able
  <2>3. h1 + 1 <= h
    BY <1>5, <2>1, <2>2, SetsOfServers, Counts
  <2>4. g1 + 1 <= f1
    <3>1. Able(s)' \subseteq Rest(s)'
      BY SMTT(30), <1>3 DEF Able, Inside, Rest, Early, Window, At, Servers, TypeOK
    <3> QED
      BY <1>8, <2>2, <3>1, SetsOfServers, Counts
  <2>5. ASSUME last[s] \in Window PROVE g1 + 1 <= g
    <3>1. Able(s)' \subseteq Able(s)
      BY SMTT(30), <1>2, <1>5, <1>7, <2>1 DEF Able
    <3> QED
      BY <2>2, <3>1, SetsOfServers, Counts
  <2>6. f1 = f
    <3>1. Rest(s)' = Rest(s)
      BY <1>4, <1>5, <2>1 DEF Rest, Early, Servers, At
    <3> QED
      BY <3>1
  <2> DEFINE ff == (f - 1) * f
             fg == f * (f + 1)
             nn == n * (n + 1)
  <2>7. /\ ff \in Int /\ fg \in Int /\ nn \in Int /\ ff + 2 * f = fg
    BY <1>10
  <2>8. \/ 2 * counted[s] <= ff
        \/ last[s] \in Window /\ 2 * (counted[s] + g) <= fg
        \/ clock >= From + Cooldown /\ 2 * (counted[s] + h) <= nn + 2 * (n - 1)
    BY <1>11
  <2>9. \/ 2 * (counted[s] + 1 + g1) <= fg
        \/ clock >= From + Cooldown /\ 2 * (counted[s] + 1 + h1) <= nn + 2 * (n - 1)
    <3> HIDE DEF ff, fg, nn, f, g, h, n, f1, g1, h1
    <3> QED
      BY SMTT(30), <1>3, <1>9, <2>3, <2>4, <2>5, <2>6, <2>7, <2>8
  <2> QED
    BY <1>14, <2>1, <2>6, <2>9
<1>15. CASE ~(now[c] < From) /\ now[c] \notin Window
  <2>1. clock >= From + Cooldown /\ counted'[s] = counted[s] /\ Inside(s)' = Inside(s)
    <3>1. clock >= From + Cooldown
      BY SMTT(30), <1>3, <1>15 DEF Window
    <3>2. counted'[s] = counted[s]
      BY <1>7, <1>15
    <3>3. c \notin Inside(s)
      BY <1>15 DEF Inside
    <3> QED
      BY <1>5, <3>1, <3>2, <3>3
  <2> DEFINE ff == (f - 1) * f
             fg == f * (f + 1)
             mm == (n - 1) * n
             nn == n * (n + 1)
  <2>2. /\ ff \in Int /\ fg \in Int /\ mm \in Int /\ nn \in Int /\ ff <= mm
        /\ fg <= nn /\ mm + 2 * n = nn
    BY <1>10
  <2>3. \/ 2 * counted[s] <= ff
        \/ 2 * (counted[s] + g) <= fg
        \/ 2 * (counted[s] + h) <= nn + 2 * (n - 1)
    BY <1>11
  <2>4. h1 = h
    BY <2>1
  <2>5. 2 * (counted[s] + h1) <= nn + 2 * (n - 1)
    <3> HIDE DEF ff, fg, mm, nn, f, g, h, n, f1, g1, h1
    <3> QED
      BY SMTT(30), <1>3, <1>9, <2>2, <2>3, <2>4
  <2> QED
    BY <2>1, <2>5
<1> QED
  BY <1>13, <1>14, <1>15

\* Every step keeps what the invariant says of the cooldown.
LEMMA SpacedInv ==
  ASSUME Inv, [Next]_vars, NEW s \in Symbols
  PROVE  Spaced(s)'
<1>1. TypeOK /\ TypeOK' /\ Spaced(s)
  BY TypeInv DEF Inv
<1> QED
  BY <1>1, SpacedElsewhere, SpacedTake, SpacedTest, SpacedStamp, SymbolsAssumption
  DEF Next, Consumer

-----------------------------------------------------------------------------

\* The inductive invariant holds throughout.
LEMMA Invariance == Spec => []Inv
<1>1. Inv /\ [Next]_vars => Inv'
  BY TypeInv, PastInv, ExposureInv, SpacedInv DEF Inv
<1> QED
  BY <1>1, InitInv, PTL DEF Spec

\* The counters are never negative, under any interleaving of the threads.
THEOREM TypeCorrect == Spec => []TypeOK
BY Invariance, PTL DEF Inv

\* However fills and cancels fall between the two loads of the risk check, and
\* however many threads check an order of one symbol at once: what is open
\* exceeds the limit by at most one order for each thread beyond the first, and
\* what is held plus what is open is at most twice that.
THEOREM ExposureBound == Spec => []ExposureBounded
<1>1. Inv => ExposureBounded
  <2> SUFFICES ASSUME Inv, NEW s \in Symbols
               PROVE  open[s] <= Limit(s) /\ filled[s] + open[s] <= 2 * Limit(s)
    BY DEF ExposureBounded
  <2> DEFINE n == Shares(Cardinality(Servers(s)))
             d == Shares(Cardinality(Deciding(s)))
             a == Shares(Cardinality(Approved(s)))
             w == Shares(Cardinality(Unaware(s)))
  <2>1. d \in Nat /\ a \in Nat /\ w \in Nat /\ n \in Nat /\ OrderQty <= n
    <3>1. /\ Cardinality(Deciding(s)) \in Nat /\ Cardinality(Approved(s)) \in Nat
          /\ Cardinality(Unaware(s)) \in Nat /\ Cardinality(Servers(s)) \in Nat \ {0}
      BY SetsOfServers, Counts, Served1
    <3>2. Shares(0) \in Nat /\ Shares(0 + 1) = Shares(0) + OrderQty /\ Shares(0 + 1) <= n
      BY SMTT(30), <3>1, SharesGrow
    <3> QED
      BY SMTT(30), <3>1, <3>2, SharesGrow, RiskAssumption
  <2>2. Limit(s) = MaxPosition + n - OrderQty
    BY LimitShares
  <2>3. /\ pending[s] + d <= Limit(s)
        /\ \/ filled[s] + OrderQty <= MaxPosition
           \/ filled[s] + open[s] + a + w <= 2 * Limit(s)
        /\ open[s] <= pending[s]
        /\ filled[s] \in Nat /\ pending[s] \in Nat /\ open[s] \in Nat
    BY SMTT(30) DEF Inv, TypeOK, Exposure, Moving
  <2> HIDE DEF n, d, a, w
  <2> QED
    BY SMTT(30), <2>1, <2>2, <2>3, RiskAssumption
<1> QED
  BY <1>1, Invariance, PTL

\* However the threads that serve a symbol interleave in checkAndUpdate, they
\* let at most n orders each pass in any one cooldown; a single one lets one.
THEOREM OrdersRationed == Spec => []CooldownBounded
<1>1. Inv => CooldownBounded
  <2> SUFFICES ASSUME Inv, NEW s \in Symbols
               PROVE  counted[s] <= Cardinality(Servers(s)) * Cardinality(Servers(s))
    BY DEF CooldownBounded
  <2> DEFINE n == Cardinality(Servers(s))
             f == Cardinality(Rest(s))
             g == Cardinality(Able(s))
             h == Cardinality(Inside(s))
  <2>1. /\ n \in Nat \ {0} /\ f \in Nat /\ g \in Nat /\ h \in Nat /\ f <= n
        /\ counted[s] \in Nat
    BY SetsOfServers, Counts, Served1 DEF Inv, TypeOK
  <2>2. \/ 2 * counted[s] <= (f - 1) * f
        \/ 2 * (counted[s] + g) <= f * (f + 1)
        \/ 2 * (counted[s] + h) <= n * (n + 1) + 2 * (n - 1)
    BY DEF Inv, Spaced
  <2> HIDE DEF n, f, g, h
  <2>3. 2 * counted[s] <= n * (n + 1) + 2 * (n - 1)
    <3> DEFINE ff == (f - 1) * f
               fg == f * (f + 1)
               mm == (n - 1) * n
               nn == n * (n + 1)
    <3>1. /\ ff \in Int /\ fg \in Int /\ mm \in Int /\ nn \in Int
          /\ ff <= mm /\ fg <= nn /\ mm + 2 * n = nn
      BY SMTT(30), <2>1, SumsGrow
    <3>2. \/ 2 * counted[s] <= ff
          \/ 2 * (counted[s] + g) <= fg
          \/ 2 * (counted[s] + h) <= nn + 2 * (n - 1)
      BY <2>2
    <3>3. 2 * counted[s] <= nn + 2 * (n - 1)
      <4> HIDE DEF ff, fg, mm, nn
      <4> QED
        BY SMTT(30), <2>1, <3>1, <3>2
    <3> QED
      BY <3>3
  <2>4. n * (n + 1) + 2 * (n - 1) <= 2 * (n * n)
    <3>1. 0 <= (n - 1) * (n - 2)
      <4>1. CASE n = 1
        BY SMTT(30), <4>1
      <4>2. CASE n # 1
        BY SMTT(30), <2>1, <4>2
      <4> QED
        BY <4>1, <4>2
    <3>2. (n - 1) * (n - 2) = n * n - 3 * n + 2 /\ n * (n + 1) = n * n + n
      BY SMTT(30), <2>1
    <3> QED
      BY SMTT(30), <2>1, <3>1, <3>2
  <2>5. counted[s] <= n * n
    BY SMTT(30), <2>1, <2>3, <2>4
  <2> QED
    BY <2>5 DEF n
<1> QED
  BY <1>1, Invariance, PTL
=============================================================================
