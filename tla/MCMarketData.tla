---------------------------- MODULE MCMarketData ----------------------------
(***************************************************************************)
(* Instances of MarketData for TLC.  A word holds 0 to 7 and prices are    *)
(* scaled by 2, so that 3 is the largest price and 8 the first number that *)
(* does not fit.                                                           *)
(***************************************************************************)
EXTENDS MarketData

Str(x) == [kind |-> "str", val |-> x]

\* Keys of the type, the symbol, the time, a price and a size, and one that
\* names no field.
SomeKeys == {Str(k) : k \in {"T", "S", "t", "p", "as", "c"}}

\* Types, which may also be symbols, and numbers at the edges of what fits.
SomeScalars ==
  {Str(x) : x \in {"q", "t", "success"}}
    \cup {[kind |-> "positive", val |-> n] : n \in {3, 4}}
    \cup {[kind |-> "negative", val |-> -1]}
    \cup {[kind |-> "float", val |-> x] : x \in {8, NaN}}
    \cup {[kind |-> "ext",
            val |-> [type |-> -1, size |-> 12, sec |-> 2, nsec |-> 1]]}

\* A frame of two items, of three fields each, with values nested once.
Lengths == <<2, 3, 1>>

Texts ==
  [s \in {"q", "t", "success", "error", "subscription"} |->
     IF s = "subscription" THEN "subscrip" ELSE s]
=============================================================================
