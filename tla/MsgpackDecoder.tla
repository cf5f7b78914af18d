--------------------------- MODULE MsgpackDecoder ---------------------------
(***************************************************************************)
(* AlpacaMsgpackDecoder: the visitor that msgpack::parse drives through a  *)
(* frame and that makes a market event of every quote and trade in it.     *)
(* Each callback is an operator from the visitor before to the one after.  *)
(*                                                                         *)
(* A scalar of the wire format is a record of its kind and its value.  A   *)
(* number is an integer or NaN (an infinity is one beyond Word; fractions  *)
(* are left out), a string is a name, and First8 says what is left of it   *)
(* in a buffer of eight bytes.                                             *)
(***************************************************************************)
EXTENDS Integers

CONSTANTS
  Scale,    \* kScalingFactor
  Word,     \* 2^64
  Second,   \* the nanoseconds of a second
  First8,   \* the first eight bytes of every string
  NaN       \* the float that is not a number

TextFields == {"msg_type", "symbol"}
PriceFields == {"p1", "p2"}
SizeFields == {"s1", "s2"}
NumberFields == {"timestamp"} \cup PriceFields \cup SizeFields

\* resetItem: what is known of an item before its first field.
NoItem ==
  [msg_type |-> "", symbol |-> "", timestamp |-> 0, p1 |-> 0, s1 |-> 0,
   p2 |-> 0, s2 |-> 0, invalid |-> FALSE]

\* The visitor decodeRaw makes for a frame.
NewVisitor ==
  [array_depth |-> 0, array_index |-> 0, map_depth |-> 0, in_key |-> FALSE,
   current_field |-> "none", item |-> NoItem]

-----------------------------------------------------------------------------

StartArray(v) == [v EXCEPT !.array_depth = @ + 1, !.array_index = 0]

EndArrayItem(v) ==
  IF v.array_depth = 1 THEN [v EXCEPT !.array_index = @ + 1] ELSE v

EndArray(v) == [v EXCEPT !.array_depth = @ - 1]

\* Whether the map that is open is an item of the frame.
InItem(v) == v.array_depth = 1 /\ v.map_depth = 1

\* A resetItem that keeps the sizes.
StartMapKeepsSizes(v) ==
  LET w == [v EXCEPT !.map_depth = @ + 1]
  IN  IF InItem(w)
      THEN [w EXCEPT !.item = [NoItem EXCEPT !.s1 = v.item.s1, !.s2 = v.item.s2],
                     !.current_field = "none"]
      ELSE w

StartMap(v) ==
  LET w == [v EXCEPT !.map_depth = @ + 1]
  IN  IF InItem(w)
      THEN [w EXCEPT !.item = NoItem, !.current_field = "none"]
      ELSE w

StartMapKey(v) == [v EXCEPT !.in_key = TRUE, !.current_field = "none"]
EndMapKey(v) == [v EXCEPT !.in_key = FALSE]
EndMapValue(v) == [v EXCEPT !.current_field = "none"]

\* A visitor that decrements the depth for items only.
EndMapOfItem(v) == IF InItem(v) THEN [v EXCEPT !.map_depth = @ - 1] ELSE v

EndMap(v) == [v EXCEPT !.map_depth = @ - 1]

-----------------------------------------------------------------------------

\* The field a key announces.
FieldOf(key) ==
  CASE key = "T" -> "msg_type"
    [] key = "S" -> "symbol"
    [] key = "t" -> "timestamp"
    [] key \in {"p", "bp"} -> "p1"
    [] key \in {"s", "bs"} -> "s1"
    [] key = "ap" -> "p2"
    [] key = "as" -> "s2"
    [] OTHER -> "none"

VisitStr(v, s) ==
  IF v.in_key THEN [v EXCEPT !.current_field = FieldOf(s)]
  ELSE IF v.current_field \in TextFields
  THEN [v EXCEPT !.item[v.current_field] = First8[s]]
  ELSE v

\* A number n for the current field, or an item that is not valid.
Take(v, n) == [v EXCEPT !.item[v.current_field] = n]
Invalidate(v) == [v EXCEPT !.item.invalid = TRUE]

VisitPositive(v, n) == IF v.current_field \in NumberFields THEN Take(v, n) ELSE v

VisitNegative(v) ==
  CASE v.current_field = "timestamp" -> Take(v, 0)
    [] v.current_field \in PriceFields \cup SizeFields -> Invalidate(v)
    [] OTHER -> v

\* Whether a double may be cast to uint64_t.
FitsWord(x) == x # NaN /\ x >= 0 /\ x < Word

VisitFloat(v, x) ==
  CASE v.current_field = "timestamp" -> Take(v, IF FitsWord(x) THEN x ELSE 0)
    [] v.current_field \in PriceFields -> Take(v, x)
    [] v.current_field \in SizeFields ->
         IF FitsWord(x) THEN Take(v, x) ELSE Invalidate(v)
    [] OTHER -> v

\* The timestamp extension, of four, eight or twelve bytes; the first has no
\* nanoseconds, and the seconds of the last may not fit.
DecodeTimestampExt(e) ==
  IF e.type = -1 /\ e.size \in {4, 8, 12}
  THEN (e.sec * Second + e.nsec) % Word
  ELSE 0

VisitExt(v, e) ==
  IF v.current_field = "timestamp" /\ e.size >= 1
  THEN Take(v, DecodeTimestampExt(e))
  ELSE v

\* The callback for scalar t, by its kind.
Value(v, t) ==
  CASE t.kind = "str" -> VisitStr(v, t.val)
    [] t.kind = "positive" -> VisitPositive(v, t.val)
    [] t.kind = "negative" -> VisitNegative(v)
    [] t.kind = "float" -> VisitFloat(v, t.val)
    [] t.kind = "ext" -> VisitExt(v, t.val)
    [] t.kind = "nil" -> v

\* Every visit_ callback returns at once outside a map and in a nested one,
\* and all but visit_str do in a key.  null_visitor ignores what is nil here:
\* nil, booleans and binaries.
Visit(v, t) ==
  IF v.map_depth # 1 \/ (v.in_key /\ t.kind # "str") THEN v ELSE Value(v, t)

-----------------------------------------------------------------------------

\* A check of the price before it is scaled.
IsSafeUnscaled(raw) == raw # NaN /\ raw >= 0 /\ raw < Word

IsSafePrice(raw) == raw # NaN /\ raw >= 0 /\ raw * Scale < Word

\* A success that counts at any place of the frame.
AuthenticatesAnywhere(v) == ~v.item.invalid /\ v.item.msg_type = "success"

\* emitItem calls on_auth_success.
Authenticates(v) ==
  /\ ~v.item.invalid
  /\ v.item.msg_type = "success"
  /\ v.array_index = 0

\* emitItem passes an event on.
Emits(v) ==
  /\ ~v.item.invalid
  /\ v.item.msg_type \in {"q", "t"}
  /\ v.item.symbol # ""
  /\ IsSafePrice(v.item.p1)
  /\ v.item.msg_type = "q" => IsSafePrice(v.item.p2)

\* The event: event_buffer_ is reused, and every field of it written.
EventOf(item) ==
  [eventType |-> IF item.msg_type = "q" THEN 1 ELSE 2,
   symbol    |-> item.symbol,
   timestamp |-> item.timestamp,
   p1        |-> item.p1 * Scale,
   s1        |-> item.s1,
   p2        |-> IF item.msg_type = "q" THEN item.p2 * Scale ELSE 0,
   s2        |-> IF item.msg_type = "q" THEN item.s2 ELSE 0]
=============================================================================
