---------------------------- MODULE PositionTable ----------------------------
(***************************************************************************)
(* The open-addressing table of PositionManager.  findOrInsert claims the  *)
(* first free slot of a symbol's probe sequence with a compare-exchange;   *)
(* find and findMutable (one operation here, they differ in constness)     *)
(* stop at the first free slot.  Consumer threads, the gateway and the     *)
(* fill listener call them at the same time, without locks.  One action is *)
(* one atomic operation on a slot's key.                                   *)
(***************************************************************************)
EXTENDS Naturals

CONSTANTS
  Threads,   \* consumers, gateway, fill listener
  Keys,      \* symbol keys; none of them is kEmptySlot
  Size,      \* kMaxSymbols
  Hash,      \* hash(key) & kMask
  Empty      \* kEmptySlot

Slot == 0..(Size - 1)

ASSUME TableAssumption ==
  /\ Size \in Nat \ {0}
  /\ Hash \in [Keys -> Slot]
  /\ Empty \notin Keys

VARIABLES
  table,   \* the key of every slot
  pc,      \* what each thread does next
  insert,  \* whether it is in findOrInsert
  key,     \* the key it looks for
  probe,   \* i, the slots it has passed
  result,  \* what its last call returned, Size for nullptr
  known    \* history: whether its key was in the table when it was called

vars == <<table, pc, insert, key, probe, result, known>>

Init ==
  /\ table = [s \in Slot |-> Empty]
  /\ pc = [t \in Threads |-> "idle"]
  /\ insert = [t \in Threads |-> FALSE]
  /\ key \in [Threads -> Keys]
  /\ probe = [t \in Threads |-> 0]
  /\ result = [t \in Threads |-> Size]
  /\ known = [t \in Threads |-> FALSE]

\* The slot thread t looks at: (start + i) & kMask.
At(t) == (Hash[key[t]] + probe[t]) % Size

Call(t, k, ins) ==
  /\ pc[t] = "idle"
  /\ key' = [key EXCEPT ![t] = k]
  /\ insert' = [insert EXCEPT ![t] = ins]
  /\ probe' = [probe EXCEPT ![t] = 0]
  /\ known' = [known EXCEPT ![t] = \E s \in Slot : table[s] = k]
  /\ pc' = [pc EXCEPT ![t] = "load"]
  /\ UNCHANGED <<table, result>>

Return(t, r) ==
  /\ result' = [result EXCEPT ![t] = r]
  /\ pc' = [pc EXCEPT ![t] = "idle"]
  /\ UNCHANGED probe

\* A loop that does not come to the last slot.
AdvanceShort(t) ==
  IF probe[t] + 2 < Size
  THEN /\ probe' = [probe EXCEPT ![t] = @ + 1]
       /\ pc' = [pc EXCEPT ![t] = "load"]
       /\ UNCHANGED result
  ELSE Return(t, Size)

\* Go on to the next slot, or return nullptr after the last.
Advance(t) ==
  IF probe[t] + 1 < Size
  THEN /\ probe' = [probe EXCEPT ![t] = @ + 1]
       /\ pc' = [pc EXCEPT ![t] = "load"]
       /\ UNCHANGED result
  ELSE Return(t, Size)

\* entry.key.load finds the key.
LoadFinds(t) ==
  /\ pc[t] = "load"
  /\ table[At(t)] = key[t]
  /\ Return(t, At(t))
  /\ UNCHANGED <<table, insert, key, known>>

\* entry.key.load finds the slot free: find gives up, findOrInsert claims it.
LoadFindsEmpty(t) ==
  /\ pc[t] = "load"
  /\ table[At(t)] = Empty
  /\ IF insert[t]
     THEN pc' = [pc EXCEPT ![t] = "claim"] /\ UNCHANGED <<probe, result>>
     ELSE Return(t, Size)
  /\ UNCHANGED <<table, insert, key, known>>

\* entry.key.load finds another key.
LoadFindsOther(t) ==
  /\ pc[t] = "load"
  /\ table[At(t)] \notin {key[t], Empty}
  /\ Advance(t)
  /\ UNCHANGED <<table, insert, key, known>>

\* A plain store instead of the compare-exchange.
ClaimSucceedsByStore(t) ==
  /\ pc[t] = "claim"
  /\ table' = [table EXCEPT ![At(t)] = key[t]]
  /\ Return(t, At(t))
  /\ UNCHANGED <<insert, key, known>>

\* compare_exchange_strong finds the slot still free and takes it.
ClaimSucceeds(t) ==
  /\ pc[t] = "claim"
  /\ table[At(t)] = Empty
  /\ table' = [table EXCEPT ![At(t)] = key[t]]
  /\ Return(t, At(t))
  /\ UNCHANGED <<insert, key, known>>

\* A findOrInsert that goes on whoever won the slot.
ClaimLostGoesOn(t) ==
  /\ pc[t] = "claim"
  /\ table[At(t)] # Empty
  /\ Advance(t)
  /\ UNCHANGED <<table, insert, key, known>>

\* Another thread took it: for the same key it is the entry looked for, for
\* another key the search goes on.
ClaimLost(t) ==
  /\ pc[t] = "claim"
  /\ table[At(t)] # Empty
  /\ IF table[At(t)] = key[t] THEN Return(t, At(t)) ELSE Advance(t)
  /\ UNCHANGED <<table, insert, key, known>>

Step(t) ==
  \/ \E k \in Keys, ins \in BOOLEAN : Call(t, k, ins)
  \/ LoadFinds(t)
  \/ LoadFindsEmpty(t)
  \/ LoadFindsOther(t)
  \/ ClaimSucceeds(t)
  \/ ClaimLost(t)

Next == \E t \in Threads : Step(t)

Spec == Init /\ [][Next]_vars

-----------------------------------------------------------------------------

\* Every variable has its type; a probe never passes the last slot.
TypeOK ==
  /\ table \in [Slot -> Keys \cup {Empty}]
  /\ pc \in [Threads -> {"idle", "load", "claim"}]
  /\ insert \in [Threads -> BOOLEAN]
  /\ key \in [Threads -> Keys]
  /\ probe \in [Threads -> Slot]
  /\ result \in [Threads -> 0..Size]
  /\ known \in [Threads -> BOOLEAN]

\* A symbol has one entry, however many threads insert it at once: no two
\* slots hold the same key.
UniqueKeys ==
  \A a, b \in Slot : table[a] = table[b] /\ table[a] # Empty => a = b

\* A slot's key, once set, never changes: entries handed out stay the
\* symbol's own.
EntriesStay ==
  [][\A s \in Slot : table[s] # Empty => table'[s] = table[s]]_vars

\* A call returns the entry of the key it was asked for, and it returns one
\* if the key was in the table when the call began: find never misses a
\* registered symbol, although inserts of others run meanwhile.
CallsFindTheirKey ==
  \A t \in Threads :
    pc[t] = "idle" =>
      /\ result[t] # Size => table[result[t]] = key[t]
      /\ known[t] => result[t] # Size

\* findOrInsert returns nullptr only when the table is full of other keys.
InsertFailsOnlyWhenFull ==
  \A t \in Threads :
    (pc[t] = "idle" /\ insert[t] /\ result[t] = Size)
      => \A s \in Slot : table[s] \notin {Empty, key[t]}
=============================================================================
