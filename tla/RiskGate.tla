------------------------------ MODULE RiskGate ------------------------------
(***************************************************************************)
(* RiskManager::onNewOrder between its loads and stores.  A consumer       *)
(* thread checks the cooldown of an event's symbol, reads its filled and   *)
(* its pending counter one after the other and then adds to the pending    *)
(* one, while the fill listener moves shares from pending to filled with   *)
(* two separate atomic operations and cancels take shares out of pending.  *)
(* A thread gets the events of every symbol its own is a prefix of, so     *)
(* that several threads may do all this for one symbol at once.            *)
(*                                                                         *)
(* Every order buys OrderQty shares, as SimpleMarketMakingStrategy does.   *)
(* The loads are relaxed and the two operands of a sum are evaluated in an *)
(* unspecified order, so either counter may be read first.                 *)
(***************************************************************************)
EXTENDS Integers, Sequences, FiniteSets, SequencesExt

CONSTANTS
  Symbols,        \* the configured symbols, as sequences of characters
  Traded,         \* those of which there are trades
  OrderQty,       \* the strategy's order_quantity_
  OrderValues,    \* what an order may be worth
  MaxOrderValue,  \* max_order_value_
  MaxPosition,    \* max_position_per_symbol_
  Cooldown,       \* cooldown_ns_
  From,           \* the start of the cooldown whose orders are counted
  WordSize,       \* 2^64: differences of times are unsigned
  MaxTime         \* bound: the last value of the clock

ASSUME SymbolsAssumption ==
  /\ IsFiniteSet(Symbols)
  /\ \A s \in Symbols : s \in Seq(STRING)
  /\ Traded \subseteq Symbols

ASSUME RiskAssumption ==
  /\ OrderQty \in Nat \ {0}
  /\ OrderValues \subseteq Nat
  /\ MaxOrderValue \in Nat
  /\ MaxPosition \in Nat
  /\ Cooldown \in Nat
  /\ From \in Nat
  /\ MaxTime \in Nat
  /\ WordSize \in Nat
  /\ WordSize > MaxTime

VARIABLES
  filled,    \* the filled counter of each symbol
  pending,   \* the pending counter of each symbol
  open,      \* shares of approved orders not yet filled or cancelled
  last,      \* last_order_time of each symbol
  counted,   \* history: the orders of each symbol that checkAndUpdate let
             \* pass at a time of Window
  clock,     \* nowNanos()
  pc,        \* where each consumer thread is; a thread is named by its symbol
  sym,       \* the symbol of the event it handles
  now,       \* the time it read in checkAndUpdate, 0 outside of it
  got,       \* the counter it read first, 0 outside of getTotalExposure
  fsym,      \* the fill the listener is applying: its symbol ...
  fqty       \* ... and its quantity, 0 between fills

vars == <<filled, pending, open, last, counted, clock, pc, sym, now, got, fsym, fqty>>
counters == <<filled, pending, open>>
times == <<last, counted, clock>>
fillVars == <<fsym, fqty>>

Init ==
  /\ filled = [s \in Symbols |-> 0]
  /\ pending = [s \in Symbols |-> 0]
  /\ open = [s \in Symbols |-> 0]
  /\ last = [s \in Symbols |-> 0]
  /\ counted = [s \in Symbols |-> 0]
  /\ clock \in 0..MaxTime
  /\ pc = [c \in Symbols |-> "idle"]
  /\ sym = [c \in Symbols |-> c]
  /\ now = [c \in Symbols |-> 0]
  /\ got = [c \in Symbols |-> 0]
  /\ fsym \in Symbols
  /\ fqty = 0

Abs(n) == IF n < 0 THEN -n ELSE n

\* A ZMQ subscription is a prefix of the topics it matches, and the topic of
\* an event is its symbol.
Receives(c, s) == IsPrefix(c, s)

\* The threads whose consumer gets the events of s.
Servers(s) == {c \in Symbols : Receives(c, s)}

\* One cooldown, from From on.
Window == From..(From + Cooldown - 1)

Goto(c, next) == pc' = [pc EXCEPT ![c] = next]

-----------------------------------------------------------------------------

\* An event for s arrives, the strategy makes an order for s of it, and
\* checkAndUpdate reads the clock.
TakeEvent(c, s) ==
  /\ pc[c] = "idle"
  /\ Receives(c, s)
  /\ sym' = [sym EXCEPT ![c] = s]
  /\ now' = [now EXCEPT ![c] = clock]
  /\ Goto(c, "cooldown")
  /\ UNCHANGED <<counters, times, got, fillVars>>

\* A cooldown of one nanosecond less.
TooSoonShort(time, s) == ((time - last[s]) % WordSize) + 1 < Cooldown

\* checkAndUpdate's test, on the last_order_time it has loaded.
TooSoon(time, s) == (time - last[s]) % WordSize < Cooldown

CooldownRefuses(c) ==
  /\ pc[c] = "cooldown"
  /\ TooSoon(now[c], sym[c])
  /\ now' = [now EXCEPT ![c] = 0]
  /\ Goto(c, "idle")
  /\ UNCHANGED <<counters, times, sym, got, fillVars>>

CooldownPasses(c) ==
  /\ pc[c] = "cooldown"
  /\ ~TooSoon(now[c], sym[c])
  /\ Goto(c, "stamp")
  /\ UNCHANGED <<counters, times, sym, now, got, fillVars>>

\* checkAndUpdate stores last_order_time; then the quantity is checked.
CooldownStamp(c) ==
  /\ pc[c] = "stamp"
  /\ last' = [last EXCEPT ![sym[c]] = now[c]]
  /\ counted' = [counted EXCEPT ![sym[c]] =
                   IF now[c] \in Window THEN @ + 1 ELSE @]
  /\ now' = [now EXCEPT ![c] = 0]
  /\ Goto(c, IF OrderQty > MaxPosition THEN "idle" ELSE "read")
  /\ UNCHANGED <<counters, clock, sym, got, fillVars>>

\* getTotalExposure reads one counter ...
ReadFilledFirst(c) ==
  /\ pc[c] = "read"
  /\ got' = [got EXCEPT ![c] = filled[sym[c]]]
  /\ Goto(c, "readPending")
  /\ UNCHANGED <<counters, times, sym, now, fillVars>>

ReadPendingFirst(c) ==
  /\ pc[c] = "read"
  /\ got' = [got EXCEPT ![c] = pending[sym[c]]]
  /\ Goto(c, "readFilled")
  /\ UNCHANGED <<counters, times, sym, now, fillVars>>

\* A limit on the exposure before the order.
AllowedBefore(exposure, value) ==
  /\ Abs(exposure) <= MaxPosition
  /\ value <= MaxOrderValue

\* The limits on the exposure and on the order's value.
Allowed(exposure, value) ==
  /\ Abs(exposure + OrderQty) <= MaxPosition
  /\ value <= MaxOrderValue

\* ... then the other one, and onNewOrder decides.
ReadPendingSecond(c) ==
  /\ pc[c] = "readPending"
  /\ \E value \in OrderValues :
       Goto(c, IF Allowed(got[c] + pending[sym[c]], value) THEN "send"
               ELSE "idle")
  /\ got' = [got EXCEPT ![c] = 0]
  /\ UNCHANGED <<counters, times, sym, now, fillVars>>

ReadFilledSecond(c) ==
  /\ pc[c] = "readFilled"
  /\ \E value \in OrderValues :
       Goto(c, IF Allowed(got[c] + filled[sym[c]], value) THEN "send"
               ELSE "idle")
  /\ got' = [got EXCEPT ![c] = 0]
  /\ UNCHANGED <<counters, times, sym, now, fillVars>>

\* onOrderSent; the order is on its way to the broker.
SendOrder(c) ==
  /\ pc[c] = "send"
  /\ pending' = [pending EXCEPT ![sym[c]] = @ + OrderQty]
  /\ open' = [open EXCEPT ![sym[c]] = @ + OrderQty]
  /\ Goto(c, "idle")
  /\ UNCHANGED <<filled, times, sym, now, got, fillVars>>

-----------------------------------------------------------------------------

\* onFill of q shares: filled.fetch_add ...
FillFilled(s, q) ==
  /\ fqty = 0
  /\ q \in 1..open[s]
  /\ filled' = [filled EXCEPT ![s] = @ + q]
  /\ open' = [open EXCEPT ![s] = @ - q]
  /\ fsym' = s
  /\ fqty' = q
  /\ UNCHANGED <<pending, times, pc, sym, now, got>>

\* ... then pending.fetch_sub.
FillPending ==
  /\ fqty > 0
  /\ pending' = [pending EXCEPT ![fsym] = @ - fqty]
  /\ fqty' = 0
  /\ UNCHANGED <<filled, open, times, pc, sym, now, got, fsym>>

\* A cancel that gives the shares back twice.
CancelOrderTwice(s, q) ==
  /\ q \in 1..open[s]
  /\ pending' = [pending EXCEPT ![s] = @ - 2 * q]
  /\ open' = [open EXCEPT ![s] = @ - q]
  /\ UNCHANGED <<filled, times, pc, sym, now, got, fillVars>>

\* onOrderCancelled of q shares, by the gateway or by the listener.
CancelOrder(s, q) ==
  /\ q \in 1..open[s]
  /\ pending' = [pending EXCEPT ![s] = @ - q]
  /\ open' = [open EXCEPT ![s] = @ - q]
  /\ UNCHANGED <<filled, times, pc, sym, now, got, fillVars>>

Tick ==
  /\ clock < MaxTime
  /\ clock' = clock + 1
  /\ UNCHANGED <<counters, last, counted, pc, sym, now, got, fillVars>>

Consumer(c) ==
  \/ \E s \in Traded : TakeEvent(c, s)
  \/ CooldownRefuses(c)
  \/ CooldownPasses(c)
  \/ CooldownStamp(c)
  \/ ReadFilledFirst(c)
  \/ ReadPendingFirst(c)
  \/ ReadPendingSecond(c)
  \/ ReadFilledSecond(c)
  \/ SendOrder(c)

Next ==
  \/ \E c \in Symbols : Consumer(c)
  \/ \E s \in Symbols : \E q \in 1..open[s] : FillFilled(s, q) \/ CancelOrder(s, q)
  \/ FillPending
  \/ Tick

Spec == Init /\ [][Next]_vars

-----------------------------------------------------------------------------

\* Every variable has its type; no counter of a strategy that buys is ever
\* negative, in whatever order the operations on it come.
TypeOK ==
  /\ filled \in [Symbols -> Nat]
  /\ pending \in [Symbols -> Nat]
  /\ open \in [Symbols -> Nat]
  /\ last \in [Symbols -> 0..MaxTime]
  /\ counted \in [Symbols -> Nat]
  /\ clock \in 0..MaxTime
  /\ pc \in [Symbols -> {"idle", "cooldown", "stamp", "read", "readPending",
                         "readFilled", "send"}]
  /\ sym \in [Symbols -> Symbols]
  /\ now \in [Symbols -> 0..MaxTime]
  /\ got \in [Symbols -> Nat]
  /\ fsym \in Symbols
  /\ fqty \in Nat

\* The position limit as the documentation states it: what is held and what
\* may still be bought is never more than max_position_per_symbol.
LimitRespected == \A s \in Symbols : filled[s] + open[s] <= MaxPosition

\* The limit with one order for each thread beyond the first that serves s.
Limit(s) == MaxPosition + (Cardinality(Servers(s)) - 1) * OrderQty

\* What onNewOrder makes of the limit, when fills slip in between the two loads
\* of getTotalExposure and other threads between the check and the addition:
\* such an order may be approved on an exposure that is too small, again and
\* again.  Yet each thread beyond the first that serves a symbol lets the
\* shares that are open exceed the limit by at most one order, and what is held
\* plus what is open stays within twice the limit thus raised.
ExposureBounded ==
  \A s \in Symbols :
    open[s] <= Limit(s) /\ filled[s] + open[s] <= 2 * Limit(s)

\* What checkAndUpdate makes of the cooldown.  One thread lets one order of its
\* symbol pass in any one cooldown.  With n threads a time may be stored after
\* a later one, so that last_order_time goes back, and a thread that was
\* overtaken subtracts a later time from an earlier one; but no more than n
\* orders for each of them get through.
CooldownBounded ==
  \A s \in Symbols :
    counted[s] <= Cardinality(Servers(s)) * Cardinality(Servers(s))
=============================================================================
