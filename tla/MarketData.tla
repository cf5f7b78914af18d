----------------------------- MODULE MarketData -----------------------------
(***************************************************************************)
(* The market data pipeline up to the ZMQ socket: AlpacaWebSocketSource on *)
(* its own thread, the session it holds with Alpaca's data service,        *)
(* MsgpackDecoder on every frame of market data, token by token, and       *)
(* ZmqMarketEventSink.                                                     *)
(*                                                                         *)
(* The data service, the WebSocket library and msgpack::parse are not part *)
(* of the repository.  The parser is the source of frames: it goes through *)
(* arrays and maps nested as elements and values (the keys of a map are    *)
(* scalars), and may stop anywhere on malformed input.  It reads nothing   *)
(* that another actor writes, so the rest of the session waits here while  *)
(* a frame is parsed.                                                      *)
(***************************************************************************)
EXTENDS MsgpackDecoder, Sequences, SequencesExt

CONSTANTS
  Keys,        \* map keys, as scalars
  Scalars,     \* scalars at other places
  MaxLength,   \* bound: elements or entries of a container, by its depth
  MaxDrops     \* bound: connections lost

VARIABLES
  running,    \* is_running_
  source,     \* the source's thread: runs, or joined
  conn,       \* whether the WebSocket is connected
  toServer,   \* messages on their way to the service
  toClient,   \* frames on their way from the service
  auth,       \* the service's verdict on this connection's key
  subs,       \* whether the service sends market data
  drops,      \* connections lost so far
  parsing,    \* whether decodeRaw is at work
  visitor,    \* its visitor
  stack,      \* containers the parser is in, the innermost first
  given,      \* history: what the current item says, field by field
  odd,        \* history: whether a field of it is not a scalar
  arrays,     \* history: whether it holds an array
  published,  \* what the last token made the sink publish
  authCalls   \* whether it called on_auth_success

sessionVars == <<running, source, conn, toServer, toClient, auth, subs, drops>>
frameVars == <<parsing, visitor, stack, given, odd, arrays, published, authCalls>>
vars == <<sessionVars, frameVars>>

Fields == TextFields \cup NumberFields
NothingGiven == [f \in Fields |-> <<>>]

Init ==
  /\ running = TRUE
  /\ source = "runs"
  /\ conn = "down"
  /\ toServer = <<>>
  /\ toClient = <<>>
  /\ auth = "none"
  /\ subs = FALSE
  /\ drops = 0
  /\ parsing = FALSE
  /\ visitor = NewVisitor
  /\ stack = <<>>
  /\ given = NothingGiven
  /\ odd = FALSE
  /\ arrays = FALSE
  /\ published = {}
  /\ authCalls = FALSE

-----------------------------------------------------------------------------
(* The session. *)

\* A source that authenticates on its first connection only.
OnOpenOnce ==
  /\ source = "runs" /\ conn = "down" /\ ~parsing
  /\ conn' = "up"
  /\ toServer' = IF running /\ drops = 0 THEN <<"auth">> ELSE <<>>
  /\ toClient' = <<"success">>
  /\ UNCHANGED <<running, source, auth, subs, drops, frameVars>>

\* The WebSocket is open: sendAuth.  The service greets with "success" (its
\* message is "connected").
OnOpen ==
  /\ source = "runs" /\ conn = "down" /\ ~parsing
  /\ conn' = "up"
  /\ toServer' = IF running THEN <<"auth">> ELSE <<>>
  /\ toClient' = <<"success">>
  /\ UNCHANGED <<running, source, auth, subs, drops, frameVars>>

\* The service answers the authentication ...
ServerAuth ==
  /\ ~parsing
  /\ toServer # <<>> /\ Head(toServer) = "auth"
  /\ toServer' = Tail(toServer)
  /\ \/ auth' = "ok" /\ toClient' = Append(toClient, "success")
     \/ auth' = "refused" /\ toClient' = Append(toClient, "error")
  /\ UNCHANGED <<running, source, conn, subs, drops, frameVars>>

\* ... and the subscription, which it takes from who is authenticated.
ServerSubscribe ==
  /\ ~parsing
  /\ toServer # <<>> /\ Head(toServer) = "subscribe"
  /\ toServer' = Tail(toServer)
  /\ subs' = (auth = "ok")
  /\ toClient' = Append(toClient, IF auth = "ok" THEN "subscription" ELSE "error")
  /\ UNCHANGED <<running, source, conn, auth, drops, frameVars>>

\* Bound: market data comes one frame at a time, on the first connection.
ServerSendsData ==
  /\ ~parsing
  /\ subs /\ drops = 0 /\ running
  /\ toServer = <<>> /\ toClient = <<>>
  /\ toClient' = <<"data">>
  /\ UNCHANGED <<running, source, conn, toServer, auth, subs, drops, frameVars>>

\* The connection is lost, with all that is on its way.
Disconnect ==
  /\ ~parsing
  /\ conn = "up"
  /\ drops < MaxDrops
  /\ conn' = "down"
  /\ toServer' = <<>> /\ toClient' = <<>>
  /\ auth' = "none" /\ subs' = FALSE
  /\ drops' = drops + 1
  /\ UNCHANGED <<running, source, frameVars>>

\* A signal, or stop().
StopRunning ==
  /\ ~parsing
  /\ running
  /\ running' = FALSE
  /\ UNCHANGED <<source, conn, toServer, toClient, auth, subs, drops, frameVars>>

\* MarketDataPipeline::stop: close the WebSocket and join its thread, which
\* is not in the middle of a frame then.
StopSource ==
  /\ ~running
  /\ source = "runs" /\ ~parsing
  /\ source' = "joined"
  /\ conn' = "down"
  /\ toServer' = <<>> /\ toClient' = <<>>
  /\ auth' = "none" /\ subs' = FALSE
  /\ UNCHANGED <<running, drops, frameVars>>

\* sendSubscribe, to a connection that is still there.
SendSubscribe(called) ==
  toServer' = IF called /\ conn = "up" THEN Append(toServer, "subscribe")
              ELSE toServer

\* The visitor at the end of the one item of frame [{"T": type}].
ControlItem(type) ==
  LET Str(x) == [kind |-> "str", val |-> x]
      key == Visit(StartMapKey(StartMap(StartArray(NewVisitor))), Str("T"))
  IN  Visit(EndMapKey(key), Str(type))

\* onMessage: a frame of the session itself, decoded.  The greeting counts as
\* a success too: sendSubscribe follows it, and again the authentication.
OnControlFrame ==
  /\ ~parsing
  /\ toClient # <<>> /\ Head(toClient) # "data"
  /\ toClient' = Tail(toClient)
  /\ SendSubscribe(running /\ Authenticates(ControlItem(Head(toClient))))
  /\ UNCHANGED <<running, source, conn, auth, subs, drops, frameVars>>

-----------------------------------------------------------------------------
(* A frame of market data: onSourceData, decodeRaw and the parser. *)

Frame(on, v, st) ==
  /\ parsing' = on
  /\ visitor' = v
  /\ stack' = st

NoItemGiven ==
  /\ given' = NothingGiven
  /\ odd' = FALSE
  /\ arrays' = FALSE

NoOutput ==
  /\ published' = {}
  /\ authCalls' = FALSE

\* onMessage of a running engine starts to decode.
OnDataFrame ==
  /\ ~parsing
  /\ toClient = <<"data">>
  /\ toClient' = <<>>
  /\ Frame(running, NewVisitor, <<>>)
  /\ NoItemGiven /\ NoOutput
  /\ UNCHANGED <<running, source, conn, toServer, auth, subs, drops>>

\* A container of the stack: a map waits for a key, or for the value of one.
Container(kind) == [in |-> kind, key |-> "", n |-> 0]
Inner == Head(stack)
In(kind) == stack # <<>> /\ Inner.in = kind
HasRoom == Inner.n < MaxLength[Len(stack)]

TakesValue ==
  /\ parsing
  /\ \/ stack = <<>>
     \/ In("array") /\ HasRoom
     \/ In("map") /\ Inner.key # ""

TakesKey == parsing /\ In("map") /\ Inner.key = "" /\ HasRoom

\* A value of the innermost container of st is complete; without one, so is
\* the frame.
Complete(v, st) ==
  IF st = <<>> THEN Frame(FALSE, NewVisitor, <<>>)
  ELSE Frame(TRUE,
             IF Head(st).in = "array" THEN EndArrayItem(v) ELSE EndMapValue(v),
             [st EXCEPT ![1].key = "", ![1].n = @ + 1])

\* The parser is in a map that is an element of the frame's array.
InItemOf(st) == Len(st) = 2 /\ st[1].in = "map" /\ st[2].in = "array"

\* It is in such a map, or deeper.
WithinItem(st) == Len(st) >= 2 /\ InItemOf(SubSeq(st, Len(st) - 1, Len(st)))

\* A scalar of a kind field f may have.
Suits(f, t) ==
  \/ f \in TextFields /\ t.kind = "str"
  \/ f \in NumberFields /\ t.kind \in {"positive", "negative", "float"}
  \/ f = "timestamp" /\ t.kind = "ext" /\ t.val.size >= 1

Key(k) ==
  /\ TakesKey
  /\ Frame(TRUE, EndMapKey(Visit(StartMapKey(visitor), k)),
           [stack EXCEPT ![1].key = IF k.kind = "str" THEN k.val ELSE "number"])
  /\ NoOutput
  /\ UNCHANGED <<given, odd, arrays, sessionVars>>

Scalar(t) ==
  /\ TakesValue
  /\ Complete(Visit(visitor, t), stack)
  /\ given' = IF InItemOf(stack) /\ Suits(FieldOf(Inner.key), t)
              THEN [given EXCEPT ![FieldOf(Inner.key)] = Append(@, t)]
              ELSE given
  /\ NoOutput
  /\ UNCHANGED <<odd, arrays, sessionVars>>

OpenArray ==
  /\ TakesValue /\ Len(stack) < Len(MaxLength)
  /\ Frame(TRUE, StartArray(visitor), <<Container("array")>> \o stack)
  /\ odd' = (odd \/ (InItemOf(stack) /\ FieldOf(Inner.key) # "none"))
  /\ arrays' = (arrays \/ WithinItem(stack))
  /\ NoOutput
  /\ UNCHANGED <<given, sessionVars>>

OpenMap ==
  /\ TakesValue /\ Len(stack) < Len(MaxLength)
  /\ Frame(TRUE, StartMap(visitor), <<Container("map")>> \o stack)
  /\ IF InItemOf(stack')
     THEN NoItemGiven
     ELSE /\ odd' = (odd \/ (InItemOf(stack) /\ FieldOf(Inner.key) # "none"))
          /\ UNCHANGED <<given, arrays>>
  /\ NoOutput
  /\ UNCHANGED sessionVars

CloseArray ==
  /\ parsing /\ In("array")
  /\ Complete(EndArray(visitor), Tail(stack))
  /\ NoOutput
  /\ UNCHANGED <<given, odd, arrays, sessionVars>>

\* end_map, with emitItem when the map is an item of the frame.
CloseMap ==
  /\ parsing /\ In("map") /\ Inner.key = ""
  /\ published' = IF InItem(visitor) /\ Emits(visitor)
                  THEN {EventOf(visitor.item)} ELSE {}
  /\ authCalls' = (InItem(visitor) /\ Authenticates(visitor))
  /\ SendSubscribe(authCalls')
  /\ Complete(EndMap(visitor), Tail(stack))
  /\ IF InItemOf(stack) THEN NoItemGiven ELSE UNCHANGED <<given, odd, arrays>>
  /\ UNCHANGED <<running, source, conn, toClient, auth, subs, drops>>

\* The parser gives up, and decodeRaw with it.
Malformed ==
  /\ parsing
  /\ Frame(FALSE, NewVisitor, <<>>)
  /\ NoItemGiven /\ NoOutput
  /\ UNCHANGED sessionVars

Parser ==
  \/ \E k \in Keys : Key(k)
  \/ \E t \in Scalars : Scalar(t)
  \/ OpenArray
  \/ OpenMap
  \/ CloseArray
  \/ CloseMap
  \/ Malformed

-----------------------------------------------------------------------------

\* The source is stopped and joined.
Stopped == source = "joined" /\ UNCHANGED vars

OnMessage == OnOpen \/ OnControlFrame \/ OnDataFrame
Server == ServerAuth \/ ServerSubscribe

Next ==
  \/ OnMessage
  \/ Parser
  \/ Server
  \/ ServerSendsData
  \/ Disconnect
  \/ StopRunning
  \/ StopSource
  \/ Stopped

Spec == Init /\ [][Next]_vars

\* The WebSocket reconnects and delivers, and the service answers; nothing
\* obliges it to send market data.
FairSpec == Spec /\ WF_vars(OnMessage) /\ WF_vars(Server)

-----------------------------------------------------------------------------

\* Every variable has its type; the visitor's depths are those of the
\* parser's stack, so they never wrap below zero.
TypeOK ==
  /\ running \in BOOLEAN
  /\ source \in {"runs", "joined"}
  /\ conn \in {"up", "down"}
  /\ toServer \in Seq({"auth", "subscribe"})
  /\ toClient \in Seq({"success", "error", "subscription", "data"})
  /\ auth \in {"none", "ok", "refused"}
  /\ subs \in BOOLEAN
  /\ drops \in 0..MaxDrops
  /\ parsing \in BOOLEAN
  /\ visitor.array_depth = Len(SelectSeq(stack, LAMBDA c : c.in = "array"))
  /\ visitor.map_depth = Len(SelectSeq(stack, LAMBDA c : c.in = "map"))
  /\ odd \in BOOLEAN
  /\ arrays \in BOOLEAN
  /\ authCalls \in BOOLEAN

\* The reading of an item on its own, by the names of its fields: the last
\* value given counts, a value out of range spoils it.
InWord(t) == t.kind # "negative" /\ t.val # NaN /\ t.val \in 0..(Word - 1)
Said(f) ==
  IF given[f] = <<>> THEN [kind |-> "positive", val |-> 0] ELSE Last(given[f])
Text(f) == IF given[f] = <<>> THEN "" ELSE First8[Said(f).val]
Time ==
  LET t == Said("timestamp")
  IN  IF t.kind = "ext" THEN DecodeTimestampExt(t.val)
      ELSE IF InWord(t) THEN t.val ELSE 0
Priced(f) == Said(f).val # NaN /\ Said(f).val * Scale \in 0..(Word - 1)
Valid ==
  /\ \A f \in PriceFields : \A i \in 1..Len(given[f]) : given[f][i].kind # "negative"
  /\ \A f \in SizeFields : \A i \in 1..Len(given[f]) : InWord(given[f][i])
Events ==
  IF ~Valid \/ Text("symbol") = "" THEN {}
  ELSE IF Text("msg_type") = "q" /\ Priced("p1") /\ Priced("p2")
  THEN {[eventType |-> 1, symbol |-> Text("symbol"), timestamp |-> Time,
         p1 |-> Said("p1").val * Scale, s1 |-> Said("s1").val,
         p2 |-> Said("p2").val * Scale, s2 |-> Said("s2").val]}
  ELSE IF Text("msg_type") = "t" /\ Priced("p1")
  THEN {[eventType |-> 2, symbol |-> Text("symbol"), timestamp |-> Time,
         p1 |-> Said("p1").val * Scale, s1 |-> Said("s1").val,
         p2 |-> 0, s2 |-> 0]}
  ELSE {}

\* The step ends an item.
ItemEnds == InItemOf(stack) /\ Len(stack') = 1

\* What is published is what the item says and nothing else: no value comes
\* from a nested map, from another item or from an earlier frame, none wraps
\* when it is scaled or narrowed, and nothing but an item makes an event.
\* (Items whose own fields are arrays or maps are left out: the visitor takes
\* the elements of such an array for the field.)
PublishesWhatItemSays ==
  [][stack' # stack =>
       /\ published' # {} => InItemOf(stack)
       /\ (ItemEnds /\ ~odd) => published' = Events]_vars

\* on_auth_success is called for a valid item of type "success" that is the
\* first of its frame, and for a later one only if it holds an array, whose
\* start sets array_index back.
AuthSuccessIsFirst ==
  [][stack' # stack =>
       /\ authCalls' => /\ InItemOf(stack)
                        /\ stack[2].n = 0 \/ arrays
                        /\ odd \/ Text("msg_type") = "success"
       /\ (/\ ItemEnds /\ ~odd /\ Valid
           /\ Text("msg_type") = "success" /\ stack[2].n = 0)
          => authCalls']_vars

\* However often the connection drops, the source authenticates and
\* subscribes anew: a running engine whose key is not refused has market data
\* again.
SubscribesAnew == []<>(subs \/ ~running \/ auth = "refused")
=============================================================================
