------------------------ MODULE PositionTable_proofs ------------------------
(***************************************************************************)
(* Theorems about PositionTable, for any number of threads, keys and slots *)
(* and any hash function.                                                  *)
(***************************************************************************)
EXTENDS PositionTable, TLAPS

USE SMTT(30), ZenonT(30)

\* The slot at offset i of the probe sequence of key k.
Pos(k, i) == (Hash[k] + i) % Size

\* The probe sequence of a key stays in the table and visits all of it.
LEMMA PosInSlot ==
  ASSUME NEW k \in Keys, NEW i \in Slot
  PROVE  Pos(k, i) \in Slot
BY TableAssumption DEF Pos, Slot

LEMMA PosReachesAll ==
  ASSUME NEW k \in Keys, NEW s \in Slot
  PROVE  \E i \in Slot : Pos(k, i) = s
<1> DEFINE h == Hash[k]
<1>1. Size \in Nat \ {0} /\ h \in Slot /\ s \in Nat /\ h \in Nat /\ s < Size /\ h < Size
  BY TableAssumption DEF Slot
<1>2. CASE h <= s
  <2>1. s - h \in Slot
    BY <1>1, <1>2 DEF Slot
  <2>2. (h + (s - h)) % Size = s
    BY <1>1, <1>2
  <2> QED BY <2>1, <2>2 DEF Pos
<1>3. CASE s < h
  <2>1. (s + Size) - h \in Slot
    BY <1>1, <1>3 DEF Slot
  <2>2. (h + ((s + Size) - h)) % Size = s
    BY <1>1, <1>3
  <2> QED BY <2>1, <2>2 DEF Pos
<1> QED BY <1>1, <1>2, <1>3

-----------------------------------------------------------------------------

\* Why a key is found by probing from its hash: the slots before it in its
\* probe sequence are taken, by other keys.
Reachable ==
  \A s \in Slot : table[s] # Empty =>
    \E j \in Slot :
      /\ Pos(table[s], j) = s
      /\ \A i \in Slot : i < j => table[Pos(table[s], i)] \notin {Empty, table[s]}

\* What a thread has passed is taken, by other keys than its own, and stays so.
Passed(t) ==
  pc[t] # "idle" =>
    \A i \in Slot : i < probe[t] => table[Pos(key[t], i)] \notin {Empty, key[t]}

\* Only findOrInsert claims, and a key that was there at the call still is.
Calling(t) ==
  /\ pc[t] = "claim" => insert[t]
  /\ pc[t] # "idle" /\ known[t] => \E s \in Slot : table[s] = key[t]

Inv ==
  /\ TypeOK
  /\ Reachable
  /\ \A t \in Threads : Passed(t) /\ Calling(t)
  /\ CallsFindTheirKey
  /\ InsertFailsOnlyWhenFull

\* Entries only appear: no step changes a slot that is taken.
Grows == \A s \in Slot : table[s] # Empty => table'[s] = table[s]

\* The slot a thread looks at is one of its probe sequence.
LEMMA AtIsPos ==
  ASSUME TypeOK, NEW t \in Threads
  PROVE  At(t) = Pos(key[t], probe[t]) /\ At(t) \in Slot
BY PosInSlot DEF TypeOK, At, Pos

\* A key that is in the table is met before a free slot is, and before the
\* end: the heart of find and findOrInsert.
LEMMA KeyIsMet ==
  ASSUME TypeOK, Reachable, NEW t \in Threads, Passed(t), pc[t] # "idle",
         table[At(t)] # key[t],
         table[At(t)] = Empty \/ probe[t] + 1 = Size
  PROVE  \A s \in Slot : table[s] # key[t]
<1> SUFFICES ASSUME NEW s \in Slot, table[s] = key[t] PROVE FALSE
  OBVIOUS
<1>1. key[t] \in Keys /\ key[t] # Empty /\ probe[t] \in Slot
  BY TableAssumption DEF TypeOK
<1>2. PICK j \in Slot :
        /\ Pos(key[t], j) = s
        /\ \A i \in Slot : i < j => table[Pos(key[t], i)] \notin {Empty, key[t]}
  BY <1>1 DEF Reachable
<1>3. At(t) = Pos(key[t], probe[t])
  BY AtIsPos
<1>4. ~(j < probe[t])
  BY <1>2 DEF Passed
<1>5. j # probe[t]
  BY <1>2, <1>3
<1>6. probe[t] < j
  BY <1>1, <1>4, <1>5, TableAssumption DEF Slot
<1>7. table[At(t)] # Empty
  BY <1>1, <1>2, <1>3, <1>6
<1>8. probe[t] + 1 < Size
  BY <1>1, <1>6, TableAssumption DEF Slot
<1> QED BY <1>7, <1>8, <1>1, TableAssumption DEF Slot

\* A thread that has passed every slot has seen a full table.
LEMMA AllPassed ==
  ASSUME TypeOK, NEW t \in Threads, Passed(t), pc[t] # "idle",
         table[At(t)] \notin {Empty, key[t]}, probe[t] + 1 = Size
  PROVE  \A s \in Slot : table[s] \notin {Empty, key[t]}
<1> SUFFICES ASSUME NEW s \in Slot PROVE table[s] \notin {Empty, key[t]}
  OBVIOUS
<1>1. key[t] \in Keys /\ probe[t] \in Slot
  BY DEF TypeOK
<1>2. PICK i \in Slot : Pos(key[t], i) = s
  BY <1>1, PosReachesAll
<1>3. CASE i < probe[t]
  BY <1>2, <1>3 DEF Passed
<1>4. CASE i = probe[t]
  BY <1>2, <1>4, AtIsPos
<1> QED BY <1>1, <1>3, <1>4, TableAssumption DEF Slot

\* The initial states satisfy the invariant: the table is empty.
LEMMA InitInv == Init => Inv
BY TableAssumption
DEF Init, Inv, TypeOK, Reachable, Passed, Calling, CallsFindTheirKey,
    InsertFailsOnlyWhenFull, Slot

\* What the properties say of one thread.
Returned(t) ==
  pc[t] = "idle" =>
    /\ result[t] # Size => table[result[t]] = key[t]
    /\ known[t] => result[t] # Size
    /\ insert[t] /\ result[t] = Size => \A s \in Slot : table[s] \notin {Empty, key[t]}

LEMMA ReturnedIff ==
  CallsFindTheirKey /\ InsertFailsOnlyWhenFull <=> \A t \in Threads : Returned(t)
BY DEF CallsFindTheirKey, InsertFailsOnlyWhenFull, Returned

LEMMA ReturnedIffNext ==
  (CallsFindTheirKey /\ InsertFailsOnlyWhenFull)' <=> \A t \in Threads : Returned(t)'
BY DEF CallsFindTheirKey, InsertFailsOnlyWhenFull, Returned

\* The variables that the end of a call, or of a round of its loop, changes.
CallTypes ==
  /\ pc \in [Threads -> {"idle", "load", "claim"}]
  /\ probe \in [Threads -> Slot]
  /\ result \in [Threads -> 0..Size]

LEMMA ReturnTypes ==
  ASSUME TypeOK, NEW t \in Threads, NEW r \in 0..Size, Return(t, r)
  PROVE  CallTypes'
BY DEF TypeOK, CallTypes, Return

LEMMA AdvanceTypes ==
  ASSUME TypeOK, NEW t \in Threads, Advance(t)
  PROVE  CallTypes'
<1>1. CASE probe[t] + 1 < Size
  <2>1. probe[t] + 1 \in Slot
    BY <1>1, TableAssumption DEF TypeOK, Slot
  <2> QED BY <1>1, <2>1 DEF TypeOK, CallTypes, Advance
<1>2. CASE ~(probe[t] + 1 < Size)
  BY <1>2, ReturnTypes, TableAssumption DEF Advance
<1> QED BY <1>1, <1>2

\* Every step keeps the types.
LEMMA StepTypes ==
  ASSUME TypeOK, NEW t \in Threads, Step(t)
  PROVE  TypeOK'
<1>1. At(t) \in Slot /\ At(t) \in 0..Size /\ Size \in 0..Size
  BY AtIsPos, TableAssumption DEF Slot
<1>2. ASSUME NEW k \in Keys, NEW ins \in BOOLEAN, Call(t, k, ins)
      PROVE  TypeOK'
  BY <1>2, TableAssumption DEF Call, TypeOK, Slot
<1>3. CASE LoadFinds(t)
  BY <1>1, <1>3, ReturnTypes DEF LoadFinds, TypeOK, CallTypes
<1>4. CASE LoadFindsEmpty(t)
  <2>1. CASE insert[t]
    BY <1>4, <2>1 DEF LoadFindsEmpty, TypeOK
  <2>2. CASE ~insert[t]
    BY <1>1, <1>4, <2>2, ReturnTypes DEF LoadFindsEmpty, TypeOK, CallTypes
  <2> QED BY <2>1, <2>2
<1>5. CASE LoadFindsOther(t)
  BY <1>5, AdvanceTypes DEF LoadFindsOther, TypeOK, CallTypes
<1>6. CASE ClaimSucceeds(t)
  BY <1>1, <1>6, ReturnTypes DEF ClaimSucceeds, TypeOK, CallTypes
<1>7. CASE ClaimLost(t)
  <2>1. CallTypes'
    BY <1>1, <1>7, ReturnTypes, AdvanceTypes DEF ClaimLost
  <2> QED BY <1>7, <2>1 DEF ClaimLost, TypeOK, CallTypes
<1> QED BY <1>2, <1>3, <1>4, <1>5, <1>6, <1>7 DEF Step

\* Only the compare-exchange writes to the table, and only to a free slot.
LEMMA StepGrows ==
  ASSUME TypeOK, NEW t \in Threads, Step(t)
  PROVE  Grows
BY AtIsPos
DEF TypeOK, Step, Call, LoadFinds, LoadFindsEmpty, LoadFindsOther,
    ClaimSucceeds, ClaimLost, Grows

\* The step of a thread changes nothing of another one's call.
LEMMA StepFrame ==
  ASSUME TypeOK, NEW t \in Threads, Step(t), NEW u \in Threads, u # t
  PROVE  /\ pc'[u] = pc[u] /\ key'[u] = key[u] /\ probe'[u] = probe[u]
         /\ insert'[u] = insert[u] /\ known'[u] = known[u]
         /\ result'[u] = result[u]
BY DEF TypeOK, Step, Call, LoadFinds, LoadFindsEmpty, LoadFindsOther,
    ClaimSucceeds, ClaimLost, Advance, Return

\* What is known of a thread's call outlives the steps of others.
LEMMA OthersKeep ==
  ASSUME TypeOK, Grows, NEW u \in Threads, Passed(u), Calling(u), Returned(u),
         pc'[u] = pc[u], key'[u] = key[u], probe'[u] = probe[u],
         insert'[u] = insert[u], known'[u] = known[u], result'[u] = result[u]
  PROVE  Passed(u)' /\ Calling(u)' /\ Returned(u)'
<1>1. key[u] \in Keys /\ key[u] # Empty /\ result[u] \in 0..Size
  BY TableAssumption DEF TypeOK
<1>2. \A i \in Slot : Pos(key[u], i) \in Slot
  BY <1>1, PosInSlot
<1>3. Passed(u)'
  BY <1>1, <1>2 DEF Passed, Grows, Pos
<1>4. Calling(u)'
  BY <1>1 DEF Calling, Grows
<1>5. result[u] # Size => result[u] \in Slot
  BY <1>1, TableAssumption DEF Slot
<1>6. Returned(u)'
  BY <1>1, <1>5 DEF Returned, Grows
<1> QED BY <1>3, <1>4, <1>6

\* A step keeps keys reachable: a claim takes the first free slot of the
\* key's probe sequence, and the key is nowhere else.
LEMMA StepReachable ==
  ASSUME TypeOK, Reachable, NEW t \in Threads, Passed(t), Step(t)
  PROVE  Reachable'
<1>1. CASE table' = table
  BY <1>1 DEF Reachable, Pos
<1>2. CASE ClaimSucceeds(t)
  <2>1. /\ At(t) \in Slot /\ At(t) = Pos(key[t], probe[t]) /\ key[t] \in Keys
        /\ probe[t] \in Slot /\ key[t] # Empty /\ table[At(t)] = Empty
        /\ pc[t] # "idle" /\ table' = [table EXCEPT ![At(t)] = key[t]]
        /\ table \in [Slot -> Keys \cup {Empty}]
    BY <1>2, AtIsPos, TableAssumption DEF ClaimSucceeds, TypeOK
  <2>2. \A s \in Slot : table[s] # key[t]
    BY <2>1, KeyIsMet
  <2> SUFFICES ASSUME NEW s \in Slot, table'[s] # Empty
               PROVE  \E j \in Slot :
                        /\ Pos(table'[s], j) = s
                        /\ \A i \in Slot : i < j =>
                             table'[Pos(table'[s], i)] \notin {Empty, table'[s]}
    BY DEF Reachable, Pos
  <2>3. CASE s = At(t)
    <3>1. table'[s] = key[t]
      BY <2>1, <2>3
    <3>2. \A i \in Slot : i < probe[t] => table[Pos(key[t], i)] \notin {Empty, key[t]}
      BY <2>1 DEF Passed
    <3>3. \A i \in Slot : i < probe[t] => table'[Pos(key[t], i)] \notin {Empty, key[t]}
      BY <2>1, <3>2, PosInSlot
    <3> QED BY <2>1, <2>3, <3>1, <3>3
  <2>4. CASE s # At(t)
    <3>1. table'[s] = table[s] /\ table[s] # Empty /\ table[s] \in Keys /\ table[s] # key[t]
      BY <2>1, <2>2, <2>4
    <3>2. PICK j \in Slot :
            /\ Pos(table[s], j) = s
            /\ \A i \in Slot : i < j => table[Pos(table[s], i)] \notin {Empty, table[s]}
      BY <3>1 DEF Reachable
    <3>3. \A i \in Slot : i < j => table'[Pos(table[s], i)] \notin {Empty, table[s]}
      BY <2>1, <3>1, <3>2, PosInSlot
    <3> QED BY <3>1, <3>2, <3>3
  <2> QED BY <2>3, <2>4
<1> QED
  BY <1>1, <1>2
  DEF Step, Call, LoadFinds, LoadFindsEmpty, LoadFindsOther, ClaimLost

\* What a step makes known of the thread that takes it.
LEMMA StepOwn ==
  ASSUME Inv, NEW t \in Threads, Step(t)
  PROVE  Passed(t)' /\ Calling(t)' /\ Returned(t)'
<1>1. /\ TypeOK /\ Reachable /\ Passed(t) /\ Calling(t) /\ Returned(t)
      /\ At(t) = Pos(key[t], probe[t]) /\ At(t) \in Slot
      /\ key[t] \in Keys /\ key[t] # Empty /\ probe[t] \in Slot
      /\ Size \in Nat /\ Size \notin Slot
  BY AtIsPos, ReturnedIff, TableAssumption DEF Inv, TypeOK, Slot
<1>2. \A i \in Slot : Pos(key[t], i) \in Slot
  BY <1>1, PosInSlot
<1>3. ASSUME NEW k \in Keys, NEW ins \in BOOLEAN, Call(t, k, ins)
      PROVE  Passed(t)' /\ Calling(t)' /\ Returned(t)'
  <2>1. /\ pc'[t] = "load" /\ key'[t] = k /\ probe'[t] = 0 /\ table' = table
        /\ known'[t] = (\E s \in Slot : table[s] = k)
    BY <1>3 DEF Call, Inv, TypeOK
  <2> QED BY <2>1, TableAssumption DEF Passed, Calling, Returned, Slot
<1>4. ASSUME Return(t, At(t)), table'[At(t)] = key[t], key' = key
      PROVE  Passed(t)' /\ Calling(t)' /\ Returned(t)'
  <2>1. pc'[t] = "idle" /\ result'[t] = At(t)
    BY <1>1, <1>4 DEF Return, TypeOK
  <2> QED BY <1>1, <1>4, <2>1 DEF Passed, Calling, Returned
<1>5. ASSUME Advance(t), pc[t] # "idle", table[At(t)] \notin {Empty, key[t]},
             UNCHANGED <<table, insert, key, known>>
      PROVE  Passed(t)' /\ Calling(t)' /\ Returned(t)'
  <2>1. CASE probe[t] + 1 < Size
    <3>1. pc'[t] = "load" /\ probe'[t] = probe[t] + 1
      BY <1>1, <1>5, <2>1 DEF Advance, TypeOK
    <3>2. Passed(t)'
      <4> SUFFICES ASSUME NEW i \in Slot, i < probe[t] + 1
                   PROVE  table[Pos(key[t], i)] \notin {Empty, key[t]}
        BY <1>5, <3>1 DEF Passed, Pos
      <4>1. CASE i < probe[t]
        BY <1>1, <1>5, <4>1 DEF Passed
      <4>2. CASE i = probe[t]
        BY <1>1, <1>5, <4>2
      <4> QED BY <1>1, <4>1, <4>2 DEF Slot
    <3>3. Calling(t)'
      BY <1>1, <1>5, <3>1 DEF Calling
    <3>4. Returned(t)'
      BY <3>1 DEF Returned
    <3> QED BY <3>2, <3>3, <3>4
  <2>2. CASE ~(probe[t] + 1 < Size)
    <3>1. pc'[t] = "idle" /\ result'[t] = Size
      BY <1>1, <1>5, <2>2 DEF Advance, Return, TypeOK
    <3>2. probe[t] + 1 = Size
      BY <1>1, <2>2 DEF Slot
    <3>3. \A s \in Slot : table[s] \notin {Empty, key[t]}
      BY <1>1, <1>5, <3>2, AllPassed
    <3>4. ~known[t]
      BY <1>1, <1>5, <3>3 DEF Calling
    <3> QED BY <1>5, <3>1, <3>3, <3>4 DEF Passed, Calling, Returned
  <2> QED BY <2>1, <2>2
<1>6. CASE LoadFinds(t)
  BY <1>4, <1>6 DEF LoadFinds
<1>7. CASE LoadFindsEmpty(t)
  <2>1. CASE insert[t]
    <3>1. /\ pc[t] # "idle" /\ pc'[t] = "claim"
          /\ UNCHANGED <<probe, table, insert, key, known>>
      BY <1>1, <1>7, <2>1 DEF LoadFindsEmpty, TypeOK
    <3> QED BY <1>1, <2>1, <3>1 DEF Passed, Calling, Returned, Pos
  <2>2. CASE ~insert[t]
    <3>1. /\ pc[t] # "idle" /\ pc'[t] = "idle" /\ result'[t] = Size
          /\ UNCHANGED <<table, insert, key, known>>
      BY <1>1, <1>7, <2>2 DEF LoadFindsEmpty, Return, TypeOK
    <3>2. \A s \in Slot : table[s] # key[t]
      BY <1>1, <1>7, <3>1, KeyIsMet DEF LoadFindsEmpty
    <3>3. ~known[t]
      BY <1>1, <3>1, <3>2 DEF Calling
    <3> QED BY <2>2, <3>1, <3>3 DEF Passed, Calling, Returned
  <2> QED BY <2>1, <2>2
<1>8. CASE LoadFindsOther(t)
  BY <1>5, <1>8 DEF LoadFindsOther
<1>9. CASE ClaimSucceeds(t)
  <2>1. table'[At(t)] = key[t]
    BY <1>1, <1>9 DEF ClaimSucceeds, TypeOK
  <2> QED BY <1>4, <1>9, <2>1 DEF ClaimSucceeds
<1>10. CASE ClaimLost(t)
  <2>1. CASE table[At(t)] = key[t]
    BY <1>4, <1>10, <2>1 DEF ClaimLost
  <2>2. CASE table[At(t)] # key[t]
    BY <1>5, <1>10, <2>2 DEF ClaimLost
  <2> QED BY <2>1, <2>2
<1> QED BY <1>3, <1>6, <1>7, <1>8, <1>9, <1>10 DEF Step

\* Every step keeps the invariant.
LEMMA NextInv == Inv /\ [Next]_vars => Inv'
<1>1. ASSUME Inv, UNCHANGED vars PROVE Inv'
  BY <1>1
  DEF vars, Inv, TypeOK, Reachable, Passed, Calling, CallsFindTheirKey,
      InsertFailsOnlyWhenFull, Pos
<1>2. ASSUME Inv, NEW t \in Threads, Step(t) PROVE Inv'
  <2>1. TypeOK' /\ Grows /\ Reachable'
    BY <1>2, StepTypes, StepGrows, StepReachable DEF Inv
  <2>2. ASSUME NEW u \in Threads
        PROVE  Passed(u)' /\ Calling(u)' /\ Returned(u)'
    <3>1. CASE u = t
      BY <1>2, <3>1, StepOwn
    <3>2. CASE u # t
      <4>1. TypeOK /\ Passed(u) /\ Calling(u) /\ Returned(u)
        BY <1>2, ReturnedIff DEF Inv
      <4>2. /\ pc'[u] = pc[u] /\ key'[u] = key[u] /\ probe'[u] = probe[u]
            /\ insert'[u] = insert[u] /\ known'[u] = known[u]
            /\ result'[u] = result[u]
        BY <1>2, <3>2, <4>1, StepFrame
      <4> QED BY <2>1, <4>1, <4>2, OthersKeep
    <3> QED BY <3>1, <3>2
  <2> QED BY <2>1, <2>2, ReturnedIffNext DEF Inv
<1> QED BY <1>1, <1>2 DEF Next

\* Any two slots a key could be in are the first of its probe sequence.
LEMMA ReachableUnique == TypeOK /\ Reachable => UniqueKeys
<1> SUFFICES ASSUME TypeOK, Reachable, NEW a \in Slot, NEW b \in Slot,
                    table[a] = table[b], table[a] # Empty
             PROVE  a = b
  BY DEF UniqueKeys
<1> DEFINE k == table[a]
<1>1. PICK i \in Slot :
        Pos(k, i) = a /\ \A n \in Slot : n < i => table[Pos(k, n)] \notin {Empty, k}
  BY DEF Reachable
<1>2. PICK j \in Slot :
        Pos(k, j) = b /\ \A n \in Slot : n < j => table[Pos(k, n)] \notin {Empty, k}
  BY DEF Reachable
<1>3. ~(i < j) /\ ~(j < i)
  BY <1>1, <1>2
<1>4. i = j
  BY <1>3, TableAssumption DEF Slot
<1> QED BY <1>1, <1>2, <1>4

\* The invariant holds in every behaviour.
LEMMA Invariance == Spec => []Inv
BY InitInv, NextInv, PTL DEF Spec

\* A probe never leaves the table: findOrInsert and find end after kMaxSymbols
\* rounds.
THEOREM TypeCorrect == Spec => []TypeOK
<1>1. Inv => TypeOK
  BY DEF Inv
<1> QED BY <1>1, Invariance, PTL

\* A symbol has one entry, whichever threads insert it at the same time.
THEOREM OneEntryPerKey == Spec => []UniqueKeys
<1>1. Inv => UniqueKeys
  BY ReachableUnique DEF Inv
<1> QED BY <1>1, Invariance, PTL

\* A call returns the entry of its own symbol and misses none that was in the
\* table when it began.
THEOREM CallsAreCorrect == Spec => []CallsFindTheirKey
<1>1. Inv => CallsFindTheirKey
  BY DEF Inv
<1> QED BY <1>1, Invariance, PTL

\* findOrInsert returns nullptr only when the table is full of other symbols.
THEOREM FailsOnlyWhenFull == Spec => []InsertFailsOnlyWhenFull
<1>1. Inv => InsertFailsOnlyWhenFull
  BY DEF Inv
<1> QED BY <1>1, Invariance, PTL

\* No step changes the key of an entry, so that the pointers PositionManager
\* hands out stay those of their symbol.
THEOREM EntriesAreStable == Spec => EntriesStay
<1>1. Inv /\ [Next]_vars =>
        [\A s \in Slot : table[s] # Empty => table'[s] = table[s]]_vars
  <2>1. ASSUME Inv, NEW t \in Threads, Step(t)
        PROVE  \A s \in Slot : table[s] # Empty => table'[s] = table[s]
    BY <2>1, StepGrows DEF Inv, Grows
  <2> QED BY <2>1 DEF Next
<1> QED BY <1>1, Invariance, PTL DEF Spec, EntriesStay
=============================================================================
