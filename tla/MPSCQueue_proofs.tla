-------------------------- MODULE MPSCQueue_proofs --------------------------
(***************************************************************************)
(* Theorems about MPSCQueue, for any number of producers and of pushes.    *)
(*                                                                         *)
(* The nodes are numbered in the order of their exchange, the stub being   *)
(* number 0.  The invariant says that tail_ is at the node of the last     *)
(* order popped and head_ at the last one exchanged, that the pointer from *)
(* each node to the one after it is there or is about to be stored by the  *)
(* producer that exchanged it, and that live are the nodes from tail_ on.  *)
(***************************************************************************)
EXTENDS MPSCQueue, SequenceTheorems, TLAPS

\* Node number i, and the number of the node tail_ is at.
At(i) == IF i = 0 THEN Stub ELSE chain[i]
Popped == Len(executed) + Len(drained)

\* Where tail_ and head_ are, and that no node is exchanged twice.
Shape ==
  /\ head = At(Len(chain))
  /\ Popped <= Len(chain)
  /\ tail = At(Popped)
  /\ \A i, j \in 1..Len(chain) : chain[i] = chain[j] => i = j
  /\ \A p \in Producers : \A k \in 1..MaxPush[p], i \in 1..Len(chain) :
       chain[i] = <<p, k>> => k <= pushes[p]

\* What was popped, by the gateway and then by the destructor.
InOrder ==
  /\ \A i \in 1..Len(executed) : executed[i] = chain[i]
  /\ \A i \in 1..Len(drained) : drained[i] = chain[Len(executed) + i]

\* Producer p has exchanged node i + 1 and is about to link it.
Links(p, i) ==
  /\ ppc[p] = "link"
  /\ prev[p] = At(i)
  /\ Current(p) = chain[i + 1]

\* Every pointer is stored or outstanding, and stored where tail_ has been.
Linked ==
  /\ next[At(Len(chain))] = Null
  /\ \A i \in 0..(Len(chain) - 1) :
       \/ next[At(i)] = chain[i + 1]
       \/ /\ next[At(i)] = Null
          /\ \E p \in Producers : Links(p, i)
  /\ \A i \in 0..(Popped - 1) : next[At(i)] # Null

\* A producer that is about to link has a gap of its own to close.
Pushing ==
  \A p \in Producers :
    /\ ppc[p] = "push" => pushes[p] < MaxPush[p]
    /\ ppc[p] = "link" =>
         \E i \in 0..(Len(chain) - 1) : Links(p, i) /\ next[At(i)] = Null

\* The nodes that have not been deleted.
Memory ==
  /\ gpc # "destroyed" =>
       live = {chain[i] : i \in {j \in 1..Len(chain) : j >= Popped}}
  /\ gpc = "destroyed" =>
       live = {} /\ \A p \in Producers : ppc[p] = "exited"

\* What the gateway has tested, and done, on its way out.
Stopped ==
  /\ stopAt <= Len(chain)
  /\ running => stopAt = 0
  /\ gpc \in {"testHead", "drain", "exited", "destroyed"} => ~running
  /\ gpc \in {"drain", "exited", "destroyed"} => Len(executed) >= stopAt
  /\ gpc \notin {"exited", "destroyed"} => drained = <<>>

Inv ==
  /\ TypeOK
  /\ Shape
  /\ InOrder
  /\ Linked
  /\ Pushing
  /\ Memory
  /\ Stopped

USE SMTT(30), ZenonT(30)

-----------------------------------------------------------------------------

\* A node is a producer with the number of one of its pushes.
LEMMA NodePair ==
  ASSUME NEW p \in Producers, NEW k \in 1..MaxPush[p]
  PROVE  <<p, k>> \in Node
BY DEF Node

\* The places of the nodes are different.
LEMMA AtFacts ==
  ASSUME TypeOK, Shape
  PROVE  /\ Len(chain) \in Nat
         /\ Len(executed) \in Nat /\ Len(drained) \in Nat
         /\ Popped \in 0..Len(chain)
         /\ \A i \in 1..Len(chain) : chain[i] \in Node
         /\ \A i \in 0..Len(chain) : At(i) \in Node \cup {Stub}
         /\ \A i, j \in 0..Len(chain) : At(i) = At(j) => i = j
<1>1. Len(chain) \in Nat /\ Len(executed) \in Nat /\ Len(drained) \in Nat
  BY DEF TypeOK
<1>2. \A i \in 1..Len(chain) : chain[i] \in Node
  BY DEF TypeOK
<1>3. \A i, j \in 0..Len(chain) : At(i) = At(j) => i = j
  BY <1>1, <1>2, MPSCAssumption DEF At, Shape
<1> QED BY <1>1, <1>2, <1>3 DEF At, Shape, Popped

\* The constructor leaves an empty queue.
LEMMA InitInv == Init => Inv
<1> SUFFICES ASSUME Init PROVE Inv
  OBVIOUS
<1>1. TypeOK
  BY MPSCAssumption DEF Init, TypeOK
<1>2. Shape /\ InOrder
  BY DEF Init, Shape, InOrder, At, Popped
<1>3. Linked
  BY DEF Init, Linked, At, Popped
<1>4. Pushing /\ Stopped
  BY DEF Init, Pushing, Stopped
<1>5. Memory
  BY DEF Init, Memory, Popped
<1> QED BY <1>1, <1>2, <1>3, <1>4, <1>5 DEF Inv

-----------------------------------------------------------------------------

\* What a non-null next tells: the queue is not empty, and it is the node
\* after tail_.
LEMMA NextOfTail ==
  ASSUME Inv, next[tail] # Null
  PROVE  /\ Popped < Len(chain)
         /\ next[tail] = chain[Popped + 1]
<1>1. Popped < Len(chain)
  BY AtFacts DEF Inv, Shape, Linked
<1> QED BY <1>1, AtFacts DEF Inv, Shape, Linked

\* A pop, whoever makes it: the tail moves by one place.
LEMMA AdvanceKeeps ==
  ASSUME Inv, Advance, gpc # "destroyed", gpc' = gpc,
         executed' \in Seq(Node), drained' \in Seq(Node),
         Popped' = Popped + 1, InOrder'
  PROVE  TypeOK' /\ Shape' /\ Linked' /\ Pushing' /\ Memory'
<1>1. /\ Popped < Len(chain) /\ tail' = chain[Popped + 1]
      /\ tail' = At(Popped + 1) /\ chain[Popped + 1] \in Node
  BY NextOfTail, AtFacts DEF Inv, Advance, At
<1>2. UNCHANGED <<head, pushes, ppc, prev, chain, next, running, stopAt>>
  BY DEF Advance, producerVars, stopVars
<1>3. TypeOK'
  BY <1>1, <1>2 DEF Inv, TypeOK, Advance
<1>4. Shape'
  BY <1>1, <1>2, AtFacts DEF Inv, Shape, At
<1>5. Linked'
  <2>1. \A i \in 0..(Popped' - 1) : next[At(i)] # Null
    <3> SUFFICES ASSUME NEW i \in 0..Popped PROVE next[At(i)] # Null
      BY AtFacts DEF Inv
    <3>1. CASE i = Popped
      BY <3>1 DEF Inv, Advance, Shape
    <3>2. CASE i # Popped
      <4>1. i \in 0..(Popped - 1)
        BY <3>2, AtFacts DEF Inv
      <4> QED BY <4>1 DEF Inv, Linked
    <3> QED BY <3>1, <3>2
  <2> QED BY ZenonT(30), <1>2, <2>1 DEF Inv, Linked, At, Links, Current
<1>6. Pushing'
  BY ZenonT(30), <1>2 DEF Inv, Pushing, At, Links, Current
<1>7. Memory'
  <2>1. live' = {chain[i] : i \in {j \in 1..Len(chain) : j >= Popped}} \ {At(Popped)}
    BY DEF Inv, Memory, Advance, Shape
  <2>2. live' = {chain[i] : i \in {j \in 1..Len(chain) : j >= Popped + 1}}
    BY <2>1, <1>1, AtFacts, MPSCAssumption DEF Inv, At, Shape
  <2> QED BY <1>2, <2>2 DEF Memory
<1> QED BY <1>3, <1>4, <1>5, <1>6, <1>7

\* The gateway pops.
LEMMA GatewayPopInv ==
  ASSUME Inv, WaitAndPop \/ DrainPops
  PROVE  Inv'
<1>1. /\ Advance /\ gpc' = gpc /\ gpc \in {"wait", "drain"}
      /\ executed' = Append(executed, next[tail]) /\ drained' = drained
  BY DEF WaitAndPop, DrainPops
<1>2. drained = <<>> /\ Len(drained) = 0
  BY <1>1 DEF Inv, Stopped
<1>3. next[tail] = chain[Popped + 1] /\ next[tail] \in Node
  BY <1>1, NextOfTail, AtFacts DEF Inv, Advance
<1>4. /\ executed' \in Seq(Node) /\ drained' \in Seq(Node)
      /\ Len(executed') = Len(executed) + 1
      /\ Popped' = Popped + 1 /\ Popped = Len(executed)
  BY <1>1, <1>2, <1>3, AtFacts DEF Inv, TypeOK, Popped
<1>5. InOrder'
  <2>1. chain' = chain
    BY <1>1 DEF Advance, producerVars
  <2>2. \A i \in 1..Len(executed') : executed'[i] = chain[i]
    <3>1. \A i \in 1..Len(executed) : executed'[i] = executed[i]
      BY <1>1, <1>3 DEF Inv, TypeOK
    <3>2. executed'[Len(executed) + 1] = chain[Len(executed) + 1]
      BY <1>1, <1>3, <1>4 DEF Inv, TypeOK
    <3>3. \A i \in 1..Len(executed') :
            i \in 1..Len(executed) \/ i = Len(executed) + 1
      BY <1>4, AtFacts DEF Inv
    <3> QED BY ZenonT(30), <3>1, <3>2, <3>3 DEF Inv, InOrder
  <2> QED BY <1>1, <1>2, <2>1, <2>2 DEF InOrder
<1>6. Stopped'
  BY <1>1, <1>4, AtFacts DEF Inv, Stopped, Advance, producerVars, stopVars, TypeOK
<1> QED BY <1>1, <1>4, <1>5, <1>6, AdvanceKeeps DEF Inv

\* The destructor pops.
LEMMA DestructorPopInv ==
  ASSUME Inv, DestructorPops
  PROVE  Inv'
<1>1. /\ Advance /\ gpc' = gpc /\ gpc = "exited"
      /\ drained' = Append(drained, next[tail]) /\ executed' = executed
  BY DEF DestructorPops, AllJoined
<1>2. next[tail] = chain[Popped + 1] /\ next[tail] \in Node
  BY <1>1, NextOfTail, AtFacts DEF Inv, Advance
<1>3. /\ executed' \in Seq(Node) /\ drained' \in Seq(Node)
      /\ Len(drained') = Len(drained) + 1
      /\ Popped' = Popped + 1
  BY <1>1, <1>2, AtFacts DEF Inv, TypeOK, Popped
<1>4. InOrder'
  <2>1. chain' = chain
    BY <1>1 DEF Advance, producerVars
  <2>2. \A i \in 1..Len(drained') : drained'[i] = chain[Len(executed) + i]
    BY <1>1, <1>2, <1>3, AtFacts DEF Inv, InOrder, TypeOK, Popped
  <2> QED BY <1>1, <2>1, <2>2 DEF InOrder, Inv
<1>5. Stopped'
  BY <1>1 DEF Inv, Stopped, Advance, producerVars, stopVars
<1> QED BY <1>1, <1>3, <1>4, <1>5, AdvanceKeeps DEF Inv

-----------------------------------------------------------------------------

\* The exchange: a new last place, whose link is outstanding.
LEMMA PushExchangeInv ==
  ASSUME Inv, NEW p \in Producers, PushExchange(p)
  PROVE  Inv'
<1> DEFINE node == <<p, pushes[p] + 1>>
<1>0. PICK n \in Nat : n = Len(chain)
  BY AtFacts DEF Inv
<1>1. /\ ppc[p] = "push"
      /\ pushes' = [pushes EXCEPT ![p] = @ + 1]
      /\ next' = [next EXCEPT ![node] = Null]
      /\ live' = live \cup {node}
      /\ prev' = [prev EXCEPT ![p] = head]
      /\ head' = node
      /\ chain' = Append(chain, node)
      /\ ppc' = [ppc EXCEPT ![p] = "link"]
      /\ UNCHANGED <<tail, gpc, executed, drained, running, stopAt>>
  BY DEF PushExchange, stopVars
<1>2. /\ pushes[p] \in Nat /\ pushes[p] + 1 \in 1..MaxPush[p] /\ node \in Node
      /\ node # Stub /\ node # Null
  <2>1. pushes[p] \in Nat /\ MaxPush[p] \in Nat /\ pushes[p] < MaxPush[p]
    BY ZenonT(30), <1>0, <1>1, MPSCAssumption DEF Inv, TypeOK, Pushing
  <2>2. pushes[p] + 1 \in 1..MaxPush[p]
    BY <2>1
  <2>3. node \in Node
    BY <2>2, NodePair
  <2> QED BY <2>1, <2>2, <2>3, MPSCAssumption
<1>3. /\ n \in Nat /\ Len(chain') = n + 1 /\ chain'[n + 1] = node
      /\ \A i \in 1..n : chain'[i] = chain[i]
      /\ chain' \in Seq(Node)
  BY <1>1, <1>2, <1>0, AtFacts DEF Inv, TypeOK
<1>4. \A i \in 1..n : chain[i] # node
  BY <1>0, <1>2, AtFacts DEF Inv, Shape
<1>5. /\ \A i \in 0..n : At(i)' = At(i) /\ At(i) # node
      /\ At(n + 1)' = node /\ Popped' = Popped
  <2>1. \A i \in 0..n : At(i)' = At(i)
    BY <1>3 DEF At
  <2>2. \A i \in 0..n : At(i) # node
    BY <1>2, <1>3, <1>4 DEF At
  <2>3. At(n + 1)' = node
    BY <1>3 DEF At
  <2>4. Popped' = Popped
    BY <1>1 DEF Popped
  <2> QED BY <2>1, <2>2, <2>3, <2>4
<1>6. /\ \A i \in 0..n : next'[At(i)] = next[At(i)]
      /\ next'[node] = Null
  BY <1>1, <1>2, <1>5, <1>0, AtFacts DEF Inv, TypeOK
<1>7. TypeOK'
  <2>1. /\ pushes' \in [Producers -> Nat]
        /\ \A q \in Producers : pushes'[q] <= MaxPush[q]
    BY <1>1, <1>2 DEF Inv, TypeOK
  <2>2. next' \in [Node \cup {Stub} -> Node \cup {Null}]
    BY <1>1, <1>2 DEF Inv, TypeOK
  <2>3. /\ ppc' \in [Producers -> {"loop", "push", "link", "exited"}]
        /\ prev' \in [Producers -> Node \cup {Stub, Null}]
    BY <1>1 DEF Inv, TypeOK
  <2> QED BY ZenonT(30), <1>1, <1>2, <1>3, <2>1, <2>2, <2>3 DEF Inv, TypeOK
<1>8. Shape'
  <2>1. head' = At(n + 1)' /\ Popped' <= Len(chain') /\ tail' = At(Popped)'
    <3>1. Popped \in 0..n /\ tail = At(Popped)
      BY <1>0, AtFacts DEF Inv, Shape
    <3> QED BY <1>1, <1>3, <1>5, <3>1
  <2>2. \A i, j \in 1..(n + 1) : chain'[i] = chain'[j] => i = j
    BY <1>0, <1>3, <1>4, AtFacts DEF Inv, Shape
  <2>3. \A q \in Producers : \A k \in 1..MaxPush[q], i \in 1..(n + 1) :
          chain'[i] = <<q, k>> => k <= pushes'[q]
    <3> SUFFICES ASSUME NEW q \in Producers, NEW k \in 1..MaxPush[q],
                        NEW i \in 1..(n + 1), chain'[i] = <<q, k>>
                 PROVE  k <= pushes'[q]
      OBVIOUS
    <3>0. MaxPush[q] \in Nat /\ pushes[q] \in Nat /\ pushes'[q] \in Nat /\ pushes'[q] >= pushes[q]
      <4>1. MaxPush[q] \in Nat /\ pushes[q] \in Nat /\ pushes[p] \in Nat
        BY MPSCAssumption DEF Inv, TypeOK
      <4>2. pushes'[q] = IF q = p THEN pushes[q] + 1 ELSE pushes[q]
        BY <1>1 DEF Inv, TypeOK
      <4> QED BY <4>1, <4>2
    <3>1. CASE i = n + 1
      BY <1>1, <1>3, <3>0, <3>1 DEF Inv, TypeOK
    <3>2. CASE i \in 1..n
      <4>1. k <= pushes[q]
        BY <1>0, <1>3, <3>2 DEF Inv, Shape
      <4> QED BY <4>1, <3>0
    <3> QED BY <1>0, <3>1, <3>2, <1>3
  <2> QED BY <2>1, <2>2, <2>3, <1>3, <1>5 DEF Shape
<1>9. InOrder'
  <2>1. \A i \in 1..Len(executed) : i \in 1..n
    BY <1>0, AtFacts DEF Inv, Popped
  <2>2. \A i \in 1..Len(drained) : Len(executed) + i \in 1..n
    BY <1>0, AtFacts DEF Inv, Popped
  <2> QED BY <1>0, <1>1, <1>3, <2>1, <2>2 DEF Inv, InOrder
<1>10. \A q \in Producers, i \in 0..(n - 1) : Links(q, i) => Links(q, i)'
  <2> SUFFICES ASSUME NEW q \in Producers, NEW i \in 0..(n - 1), Links(q, i)
               PROVE  Links(q, i)'
    OBVIOUS
  <2>1. q # p
    BY <1>1 DEF Links
  <2>2. ppc'[q] = ppc[q] /\ prev'[q] = prev[q] /\ pushes'[q] = pushes[q]
    BY <1>1, <2>1 DEF Inv, TypeOK
  <2> QED BY <1>3, <1>5, <2>2 DEF Links, Current
<1>11. Links(p, n)'
  BY <1>0, <1>1, <1>3, <1>5, AtFacts DEF Links, Current, Inv, TypeOK, Shape
<1>12. Linked'
  <2>1. next'[At(n + 1)'] = Null
    BY <1>5, <1>6
  <2>2. \A i \in 0..n :
          \/ next'[At(i)'] = chain'[i + 1]
          \/ /\ next'[At(i)'] = Null
             /\ \E q \in Producers : Links(q, i)'
    <3> SUFFICES ASSUME NEW i \in 0..n
                 PROVE  \/ next'[At(i)'] = chain'[i + 1]
                        \/ /\ next'[At(i)'] = Null
                           /\ \E q \in Producers : Links(q, i)'
      OBVIOUS
    <3>1. CASE i = n
      BY <1>0, <1>5, <1>6, <1>11, <3>1, <1>3 DEF Inv, Linked
    <3>2. CASE i \in 0..(n - 1)
      <4>1. next'[At(i)'] = next[At(i)] /\ chain'[i + 1] = chain[i + 1]
        BY <1>0, <1>3, <1>5, <1>6, <3>2
      <4>2. \/ next[At(i)] = chain[i + 1]
            \/ next[At(i)] = Null /\ \E q \in Producers : Links(q, i)
        BY <1>0, <3>2 DEF Inv, Linked
      <4> QED BY <3>2, <4>1, <4>2, <1>10
    <3> QED BY <3>1, <3>2, <1>3
  <2>3. \A i \in 0..(Popped' - 1) : next'[At(i)'] # Null
    BY <1>0, <1>5, <1>6, AtFacts DEF Inv, Linked
  <2> QED BY <2>1, <2>2, <2>3, <1>3 DEF Linked
<1>13. Pushing'
  <2> SUFFICES ASSUME NEW q \in Producers
               PROVE  /\ ppc'[q] = "push" => pushes'[q] < MaxPush[q]
                      /\ ppc'[q] = "link" =>
                           \E i \in 0..n : Links(q, i)' /\ next'[At(i)'] = Null
    BY <1>0, <1>3 DEF Pushing
  <2>1. CASE q = p
    <3>1. ppc'[p] = "link"
      BY <1>1 DEF Inv, TypeOK
    <3>2. next'[At(n)'] = Null /\ n \in 0..n
      BY <1>0, <1>3, <1>5, <1>6 DEF Inv, Linked
    <3> QED BY ZenonT(30), <1>11, <2>1, <3>1, <3>2
  <2>2. CASE q # p
    <3>1. ppc'[q] = ppc[q] /\ pushes'[q] = pushes[q]
      BY <1>1, <2>2 DEF Inv, TypeOK
    <3>2. ASSUME ppc[q] = "link"
          PROVE  \E i \in 0..n : Links(q, i)' /\ next'[At(i)'] = Null
      <4>1. PICK i \in 0..(n - 1) : Links(q, i) /\ next[At(i)] = Null
        BY <1>0, <3>2 DEF Inv, Pushing
      <4>2. i \in 0..n
        OBVIOUS
      <4>3. Links(q, i)' /\ next'[At(i)'] = Null
        BY ZenonT(30), <4>1, <4>2, <1>5, <1>6, <1>10
      <4> QED BY ZenonT(30), <4>2, <4>3
    <3> QED BY <3>1, <3>2 DEF Inv, Pushing
  <2> QED BY <2>1, <2>2
<1>14. Memory'
  <2>1. gpc # "destroyed"
    BY <1>0, <1>1 DEF Inv, Memory
  <2>2. live' = {chain'[i] : i \in {j \in 1..(n + 1) : j >= Popped}}
    <3>1. live = {chain[i] : i \in {j \in 1..n : j >= Popped}}
      BY <1>0, <2>1 DEF Inv, Memory
    <3>2. n + 1 >= Popped /\ Popped \in Nat
      BY <1>0, AtFacts DEF Inv
    <3>3. {j \in 1..(n + 1) : j >= Popped} = {j \in 1..n : j >= Popped} \cup {n + 1}
      BY <3>2, <1>3
    <3>4. {chain'[i] : i \in {j \in 1..n : j >= Popped}} = live
      BY <3>1, <1>3
    <3> QED BY <1>0, <3>3, <3>4, <1>1, <1>3
  <2> QED BY <2>1, <2>2, <1>1, <1>3, <1>5 DEF Memory
<1>15. Stopped'
  BY <1>0, <1>1, <1>3, AtFacts DEF Inv, Stopped, TypeOK
<1> QED BY <1>7, <1>8, <1>9, <1>12, <1>13, <1>14, <1>15 DEF Inv

\* The link: the gap after prev_head is closed, and no other.
LEMMA PushLinkInv ==
  ASSUME Inv, NEW p \in Producers, PushLink(p)
  PROVE  Inv'
<1>0. PICK n \in Nat : n = Len(chain)
  BY AtFacts DEF Inv
<1>1. PICK i \in 0..(n - 1) : Links(p, i) /\ next[At(i)] = Null
  BY <1>0 DEF Inv, Pushing, PushLink
<1>2. /\ next' = [next EXCEPT ![At(i)] = chain[i + 1]]
      /\ ppc' = [ppc EXCEPT ![p] = "loop"]
      /\ UNCHANGED <<head, tail, live, pushes, prev, gpc, executed, drained,
                     chain, running, stopAt>>
  BY <1>1 DEF PushLink, Links, stopVars
<1>3. /\ n \in Nat /\ At(i) \in Node \cup {Stub} /\ chain[i + 1] \in Node
      /\ \A j \in 0..n : At(j) = At(i) => j = i
  BY <1>0, AtFacts DEF Inv
<1>4. /\ next'[At(i)] = chain[i + 1]
      /\ \A j \in 0..n : j # i => next'[At(j)] = next[At(j)]
  BY <1>2, <1>3, <1>0, AtFacts DEF Inv, TypeOK
<1>5. TypeOK'
  BY <1>2, <1>3 DEF Inv, TypeOK
<1>6. Shape' /\ InOrder' /\ Memory' /\ Stopped'
  <2>1. Shape' /\ InOrder' /\ Stopped'
    BY <1>0, <1>2 DEF Inv, Shape, InOrder, Stopped, At, Popped
  <2>2. gpc # "destroyed"
    BY DEF Inv, Memory, PushLink
  <2> QED BY <1>2, <2>1, <2>2 DEF Inv, Memory, Popped
<1>7. \A q \in Producers : q # p => \A j \in 0..(n - 1) : Links(q, j) => Links(q, j)'
  BY <1>2 DEF Inv, TypeOK, Links, At, Current
<1>8. \A q \in Producers, j \in 0..(n - 1) : Links(q, j) /\ j = i => q = p
  BY <1>1 DEF Links, Current
<1>9. \A j \in 0..(n - 1) : Links(p, j) => j = i
  BY <1>1, <1>3 DEF Links
<1>10. Linked'
  <2>1. next'[At(n)] = Null
    BY <1>0, <1>4, <1>3 DEF Inv, Linked
  <2>2. \A j \in 0..(n - 1) :
          \/ next'[At(j)] = chain[j + 1]
          \/ next'[At(j)] = Null /\ \E q \in Producers : Links(q, j)'
    BY <1>0, <1>3, <1>4, <1>7, <1>9 DEF Inv, Linked
  <2>3. \A j \in 0..(Popped - 1) : next'[At(j)] # Null
    <3> SUFFICES ASSUME NEW j \in 0..(Popped - 1) PROVE next'[At(j)] # Null
      OBVIOUS
    <3>1. next[At(j)] # Null /\ j \in 0..n
      BY <1>0, AtFacts DEF Inv, Linked
    <3> QED BY <1>1, <1>4, <3>1
  <2>4. \A j \in 0..n : At(j)' = At(j) /\ Popped' = Popped
    BY <1>0, <1>2 DEF At, Popped
  <2>5. n \in 0..n /\ Popped \in 0..n /\ Len(chain') = n
    BY <1>0, <1>2, AtFacts DEF Inv
  <2>6. next'[At(n)'] = Null
    BY <2>1, <2>4, <2>5
  <2>7. \A j \in 0..(n - 1) :
          \/ next'[At(j)'] = chain'[j + 1]
          \/ next'[At(j)'] = Null /\ \E q \in Producers : Links(q, j)'
    BY <1>2, <2>2, <2>4
  <2>8. \A j \in 0..(Popped' - 1) : next'[At(j)'] # Null
    BY <2>3, <2>4, <2>5
  <2> QED BY ZenonT(30), <2>5, <2>6, <2>7, <2>8 DEF Linked
<1>11. Pushing'
  <2> SUFFICES ASSUME NEW q \in Producers
               PROVE  /\ ppc'[q] = "push" => pushes'[q] < MaxPush[q]
                      /\ ppc'[q] = "link" =>
                           \E j \in 0..(n - 1) : Links(q, j)' /\ next'[At(j)'] = Null
    BY <1>0, <1>2 DEF Pushing
  <2>1. CASE q = p
    BY <2>1, <1>2 DEF Inv, TypeOK
  <2>2. CASE q # p
    <3>1. ppc'[q] = ppc[q] /\ pushes'[q] = pushes[q]
      BY <1>2, <2>2 DEF Inv, TypeOK
    <3>2. ASSUME ppc[q] = "link"
          PROVE  \E j \in 0..(n - 1) : Links(q, j)' /\ next'[At(j)'] = Null
      <4>1. PICK j \in 0..(n - 1) : Links(q, j) /\ next[At(j)] = Null
        BY <1>0, <3>2 DEF Inv, Pushing
      <4>2. j # i
        BY <4>1, <1>8, <2>2
      <4>3. At(j)' = At(j)
        BY <1>2 DEF At
      <4> QED BY <1>0, <4>1, <4>2, <4>3, <1>3, <1>4, <1>7, <2>2
    <3> QED BY <3>1, <3>2 DEF Inv, Pushing
  <2> QED BY <2>1, <2>2
<1> QED BY <1>5, <1>6, <1>10, <1>11 DEF Inv

-----------------------------------------------------------------------------

\* A consumer thread between two pushes.
LEMMA ConsumerInv ==
  ASSUME Inv, NEW p \in Producers, ConsumerTakesEvent(p) \/ ConsumerExits(p)
  PROVE  Inv'
<1>1. PICK where \in {"push", "exited"} : ppc' = [ppc EXCEPT ![p] = where]
  BY DEF ConsumerTakesEvent, ConsumerExits
<1>2. /\ UNCHANGED <<head, tail, next, live, pushes, prev, gpc, executed,
                     drained, chain, running, stopAt>>
      /\ ppc[p] = "loop"
      /\ where = "push" => pushes[p] < MaxPush[p]
  BY <1>1 DEF ConsumerTakesEvent, ConsumerExits, stopVars, Inv, TypeOK
<1>3. /\ ppc'[p] = where
      /\ \A q \in Producers : q # p => ppc'[q] = ppc[q]
      /\ ppc' \in [Producers -> {"loop", "push", "link", "exited"}]
  BY <1>1 DEF Inv, TypeOK
<1>4. TypeOK' /\ Shape' /\ InOrder' /\ Stopped'
  BY ZenonT(30), <1>2, <1>3 DEF Inv, TypeOK, Shape, InOrder, Stopped, At, Popped
<1>5. \A q \in Producers, i \in Int : Links(q, i) => Links(q, i)'
  BY <1>2, <1>3 DEF Links, Current, At
<1>6. Linked'
  <2>1. /\ \A i \in Int : At(i)' = At(i)
        /\ Popped' = Popped /\ Len(chain) \in Nat
    BY <1>2, AtFacts DEF At, Popped, Inv
  <2>2. \A i \in 0..(Len(chain) - 1) :
          \/ next[At(i)] = chain[i + 1]
          \/ next[At(i)] = Null /\ \E q \in Producers : Links(q, i)'
    BY <1>5 DEF Inv, Linked
  <2>3. /\ next[At(Len(chain))] = Null
        /\ \A i \in 0..(Popped - 1) : next[At(i)] # Null
    BY DEF Inv, Linked
  <2> QED BY <1>2, <2>1, <2>2, <2>3 DEF Linked
<1>7. Pushing'
  <2> SUFFICES ASSUME NEW q \in Producers
               PROVE  /\ ppc'[q] = "push" => pushes'[q] < MaxPush[q]
                      /\ ppc'[q] = "link" =>
                           \E i \in 0..(Len(chain) - 1) :
                             Links(q, i)' /\ next[At(i)] = Null
    BY <1>2 DEF Pushing, At
  <2>1. CASE q = p
    BY <1>2, <1>3, <2>1
  <2>2. CASE q # p
    BY <1>2, <1>3, <1>5, <2>2 DEF Inv, Pushing
  <2> QED BY <2>1, <2>2
<1>8. Memory'
  <2>1. gpc # "destroyed"
    BY <1>2 DEF Inv, Memory
  <2> QED BY <1>2, <2>1 DEF Inv, Memory, Popped
<1> QED BY <1>4, <1>6, <1>7, <1>8 DEF Inv

\* What does not touch the queue keeps what is said of it.
LEMMA QueueKept ==
  ASSUME Inv, UNCHANGED <<head, tail, next, pushes, ppc, prev, executed,
                          drained, chain>>
  PROVE  Shape' /\ InOrder' /\ Linked' /\ Pushing'
<1>1. (\A i \in Int : At(i)' = At(i)) /\ Popped' = Popped
  BY DEF At, Popped
<1>2. Shape' /\ InOrder'
  BY <1>1 DEF Inv, Shape, InOrder, At, Popped
<1>3. Linked' /\ Pushing'
  BY ZenonT(30), <1>1 DEF Inv, Linked, Pushing, Links, Current, At
<1> QED BY <1>2, <1>3

\* The gateway's tests.  It begins to drain when tail_ and head_ are the same
\* node, and so everything exchanged has been popped.
LEMMA GatewayTestInv ==
  ASSUME Inv,
         WaitFindsNothing \/ WaitTestsRunning \/ WaitTestsHead \/ DrainEnds
  PROVE  Inv'
<1>1. /\ UNCHANGED <<head, tail, next, live, pushes, ppc, prev, executed,
                     drained, chain, running, stopAt>>
      /\ gpc \notin {"exited", "destroyed"}
      /\ gpc' \in {"wait", "testRunning", "testHead", "drain", "exited"}
  BY DEF WaitFindsNothing, WaitTestsRunning, WaitTestsHead, DrainEnds,
     producerVars, stopVars
<1>2. TypeOK' /\ Memory'
  BY <1>1 DEF Inv, TypeOK, Memory, Popped
<1>3. Stopped'
  <2>1. ASSUME WaitTestsHead, tail = head PROVE Len(executed) >= stopAt
    <3>1. Popped = Len(chain)
      <4>1. At(Popped) = At(Len(chain))
        BY <2>1 DEF Inv, Shape
      <4>2. Popped \in 0..Len(chain) /\ Len(chain) \in 0..Len(chain)
        BY AtFacts DEF Inv
      <4> QED BY <4>1, <4>2, AtFacts DEF Inv
    <3>2. Len(drained) = 0
      BY <1>1 DEF Inv, Stopped
    <3> QED BY <3>1, <3>2, AtFacts DEF Inv, Stopped, Popped
  <2>2. gpc' \in {"testHead", "drain", "exited"} => ~running
    BY DEF WaitFindsNothing, WaitTestsRunning, WaitTestsHead, DrainEnds,
       Inv, Stopped
  <2>3. gpc' \in {"drain", "exited"} => Len(executed) >= stopAt
    BY <2>1 DEF WaitFindsNothing, WaitTestsRunning, WaitTestsHead, DrainEnds,
       Inv, Stopped
  <2>4. drained = <<>>
    BY <1>1 DEF Inv, Stopped
  <2> QED BY <1>1, <2>2, <2>3, <2>4 DEF Inv, Stopped
<1> QED BY <1>1, <1>2, <1>3, QueueKept DEF Inv

\* The engine is told to stop.
LEMMA StopInv ==
  ASSUME Inv, StopRunning
  PROVE  Inv'
<1>1. /\ UNCHANGED <<head, tail, next, live, pushes, ppc, prev, executed,
                     drained, chain, gpc>>
      /\ running /\ running' = FALSE /\ stopAt' = Len(chain)
  BY DEF StopRunning, producerVars
<1>2. Len(chain) \in Nat
  BY AtFacts DEF Inv
<1>3. TypeOK'
  BY ZenonT(30), <1>1, <1>2 DEF Inv, TypeOK
<1>4. Memory'
  BY <1>1 DEF Inv, Memory, Popped
<1>5. Stopped'
  BY <1>1, <1>2 DEF Inv, Stopped
<1> QED BY <1>1, <1>3, <1>4, <1>5, QueueKept DEF Inv

\* With every producer gone no link is outstanding, and a null next means
\* that tail_ is the last node: the destructor deletes it and none is left.
LEMMA DestructorEndsInv ==
  ASSUME Inv, DestructorEnds
  PROVE  Inv'
<1>1. /\ UNCHANGED <<head, tail, next, pushes, ppc, prev, executed,
                     drained, chain, running, stopAt>>
      /\ gpc = "exited" /\ gpc' = "destroyed" /\ live' = live \ {tail}
      /\ next[tail] = Null
      /\ \A p \in Producers : ppc[p] = "exited"
  BY DEF DestructorEnds, AllJoined, producerVars, stopVars
<1>2. Popped = Len(chain)
  <2>1. ASSUME Popped # Len(chain) PROVE FALSE
    <3>1. Popped \in 0..(Len(chain) - 1)
      BY <2>1, AtFacts DEF Inv
    <3>2. next[tail] = chain[Popped + 1] \/ \E p \in Producers : Links(p, Popped)
      BY <3>1 DEF Inv, Linked, Shape
    <3>3. chain[Popped + 1] \in Node
      BY <3>1, AtFacts DEF Inv
    <3> QED BY <1>1, <3>2, <3>3, MPSCAssumption DEF Links
  <2> QED BY <2>1
<1>3. live' = {}
  <2>1. live = {chain[i] : i \in {j \in 1..Len(chain) : j >= Len(chain)}}
    BY <1>1, <1>2 DEF Inv, Memory
  <2>2. tail = At(Len(chain)) /\ Len(chain) \in Nat
    BY <1>2, AtFacts DEF Inv, Shape
  <2> QED BY <1>1, <2>1, <2>2 DEF At
<1>4. TypeOK' /\ Memory' /\ Stopped'
  BY <1>1, <1>3 DEF Inv, TypeOK, Memory, Stopped
<1> QED BY <1>1, <1>4, QueueKept DEF Inv

\* Every step keeps the invariant.
LEMMA NextInv == Inv /\ [Next]_vars => Inv'
<1> SUFFICES ASSUME Inv, [Next]_vars PROVE Inv'
  OBVIOUS
<1>1. CASE UNCHANGED vars
  <2>1. UNCHANGED <<head, tail, next, live, pushes, ppc, prev, running, gpc,
                    executed, drained, chain, stopAt>>
    BY <1>1 DEF vars
  <2>2. TypeOK' /\ Memory' /\ Stopped'
    BY <2>1 DEF Inv, TypeOK, Memory, Stopped, Popped
  <2> QED BY <2>1, <2>2, QueueKept DEF Inv
<1>2. CASE \E p \in Producers : Producer(p)
  BY <1>2, ConsumerInv, PushExchangeInv, PushLinkInv DEF Producer
<1>3. CASE Gateway
  BY <1>3, GatewayPopInv, GatewayTestInv DEF Gateway
<1>4. CASE Destructor
  BY <1>4, DestructorPopInv, DestructorEndsInv DEF Destructor
<1>5. CASE StopRunning
  BY <1>5, StopInv
<1> QED BY <1>1, <1>2, <1>3, <1>4, <1>5 DEF Next, Terminated

\* So it always holds.
LEMMA Invariance == Spec => []Inv
BY InitInv, NextInv, PTL DEF Spec

-----------------------------------------------------------------------------

\* LockFreeMPSCQueue: every pointer leads to a node or is null where it may
\* be.
THEOREM TypeCorrect == Spec => []TypeOK
<1>1. Inv => TypeOK
  BY DEF Inv
<1> QED BY <1>1, Invariance, PTL

\* try_pop deletes the old tail only when nobody will follow a pointer to it:
\* tail_ has passed it, and so its next has been stored.
THEOREM NothingDangles == Spec => []NoUseAfterFree
<1>1. Inv => NoUseAfterFree
  <2> SUFFICES ASSUME Inv, gpc # "destroyed" PROVE NoUseAfterFree
    BY DEF NoUseAfterFree
  <2>1. \A i \in 0..Len(chain) : i >= Popped => At(i) \in live \cup {Stub}
    BY AtFacts DEF Inv, Memory, At
  <2>2. tail \in live \cup {Stub} /\ head \in live \cup {Stub}
    BY <2>1, AtFacts DEF Inv, Shape
  <2>3. next[tail] \in live \cup {Null}
    BY NextOfTail, AtFacts DEF Inv, Memory
  <2>4. ASSUME NEW p \in Producers, ppc[p] = "link"
        PROVE  prev[p] \in live \cup {Stub}
    <3>1. PICK i \in 0..(Len(chain) - 1) : Links(p, i) /\ next[At(i)] = Null
      BY <2>4 DEF Inv, Pushing
    <3>2. i >= Popped
      BY <3>1, AtFacts DEF Inv, Linked
    <3> QED BY <2>1, <3>1, <3>2, AtFacts DEF Links, Inv
  <2> QED BY <2>2, <2>3, <2>4 DEF NoUseAfterFree
<1> QED BY <1>1, Invariance, PTL

\* ~LockFreeMPSCQueue deletes what is left, whatever was pushed and popped.
THEOREM EverythingIsDeleted == Spec => []NoLeak
<1>1. Inv => NoLeak
  BY DEF Inv, Memory, NoLeak
<1> QED BY <1>1, Invariance, PTL

\* Orders come out in the order of their exchange, each once.
THEOREM OrdersKeepOrder == Spec => []PoppedInPushOrder
<1>1. Inv => PoppedInPushOrder
  <2> SUFFICES ASSUME Inv PROVE PoppedInPushOrder
    OBVIOUS
  <2>1. /\ executed \in Seq(Node) /\ drained \in Seq(Node)
        /\ Len(executed \o drained) = Popped
    BY DEF Inv, TypeOK, Popped
  <2>2. \A i \in 1..Popped : (executed \o drained)[i] = chain[i]
    <3> SUFFICES ASSUME NEW i \in 1..Popped
                 PROVE  (executed \o drained)[i] = chain[i]
      BY ZenonT(30)
    <3>1. CASE i <= Len(executed)
      BY <2>1, <3>1 DEF Inv, InOrder, Popped
    <3>2. CASE i > Len(executed)
      <4>1. /\ i - Len(executed) \in 1..Len(drained)
            /\ Len(executed) + (i - Len(executed)) = i
        BY <2>1, <3>2 DEF Popped
      <4>2. (executed \o drained)[i] = drained[i - Len(executed)]
        BY <2>1, <3>2, <4>1 DEF Popped
      <4> QED BY <4>1, <4>2 DEF Inv, InOrder
    <3> QED BY <2>1, <3>1, <3>2, AtFacts DEF Inv
  <2> QED BY <2>1, <2>2, AtFacts DEF Inv, Shape, PoppedInPushOrder
<1> QED BY <1>1, Invariance, PTL

\* OrderGateway::run returns only when it has executed every order exchanged
\* before the stop.
THEOREM GatewayDrains == Spec => []DrainedBeforeExit
<1>1. Inv => DrainedBeforeExit
  BY DEF Inv, Stopped, DrainedBeforeExit
<1> QED BY <1>1, Invariance, PTL

-----------------------------------------------------------------------------

\* The queue as OrderQueue sees it.
Queued == SubSeq(chain, Popped + 1, Len(chain))

\* head_.exchange appends to it.
LEMMA ExchangeEnqueues ==
  ASSUME Inv, NEW p \in Producers, PushExchange(p)
  PROVE  /\ <<p, pushes[p] + 1>> \in Node
         /\ Queued' = Append(Queued, <<p, pushes[p] + 1>>)
<1> DEFINE node == <<p, pushes[p] + 1>>
<1>1. node \in Node
  <2>1. pushes[p] \in Nat /\ MaxPush[p] \in Nat /\ pushes[p] < MaxPush[p]
    BY ZenonT(30), MPSCAssumption DEF Inv, TypeOK, Pushing, PushExchange
  <2>2. pushes[p] + 1 \in 1..MaxPush[p]
    BY <2>1
  <2> QED BY <2>2, NodePair
<1>2. PICK n \in Nat : n = Len(chain)
  BY AtFacts DEF Inv
<1>3. PICK m \in 0..n : m = Popped
  BY <1>2, AtFacts DEF Inv
<1>4. /\ chain \in Seq(Node) /\ chain' \in Seq(Node) /\ Len(chain') = n + 1
      /\ chain'[n + 1] = node /\ \A i \in 1..n : chain'[i] = chain[i]
      /\ Popped' = m
  BY <1>1, <1>2, <1>3 DEF Inv, TypeOK, PushExchange, Popped
<1> HIDE DEF node
<1>5. /\ Queued \in Seq(Node) /\ Len(Queued) = n - m
      /\ \A i \in 1..(n - m) : Queued[i] = chain[m + i]
  <2>1. \A i \in (m + 1)..n : chain[i] \in Node
    BY <1>2, <1>4
  <2>2. /\ SubSeq(chain, m + 1, n) \in Seq(Node)
        /\ Len(SubSeq(chain, m + 1, n)) =
             IF m + 1 <= n THEN n - (m + 1) + 1 ELSE 0
        /\ \A i \in 1..(n - (m + 1) + 1) :
             SubSeq(chain, m + 1, n)[i] = chain[m + 1 + i - 1]
    BY <2>1, SubSeqProperties
  <2> QED BY <1>2, <1>3, <2>2 DEF Queued
<1>6. /\ Queued' \in Seq(Node) /\ Len(Queued') = n + 1 - m
      /\ \A i \in 1..(n + 1 - m) : Queued'[i] = chain'[m + i]
  <2>1. \A i \in (m + 1)..(n + 1) : chain'[i] \in Node
    BY <1>4
  <2>2. /\ SubSeq(chain', m + 1, n + 1) \in Seq(Node)
        /\ Len(SubSeq(chain', m + 1, n + 1)) =
             IF m + 1 <= n + 1 THEN n + 1 - (m + 1) + 1 ELSE 0
        /\ \A i \in 1..(n + 1 - (m + 1) + 1) :
             SubSeq(chain', m + 1, n + 1)[i] = chain'[m + 1 + i - 1]
    BY <2>1, SubSeqProperties
  <2> QED BY <1>4, <2>2 DEF Queued
<1>7. /\ Append(Queued, node) \in Seq(Node)
      /\ Len(Append(Queued, node)) = n - m + 1
      /\ \A i \in 1..(n - m) : Append(Queued, node)[i] = Queued[i]
      /\ Append(Queued, node)[n - m + 1] = node
  BY <1>1, <1>5
<1>8. \A i \in 1..(n + 1 - m) : Queued'[i] = Append(Queued, node)[i]
  <2> SUFFICES ASSUME NEW i \in 1..(n + 1 - m)
               PROVE  Queued'[i] = Append(Queued, node)[i]
    BY ZenonT(30)
  <2>1. CASE i = n + 1 - m
    BY <1>4, <1>6, <1>7, <2>1
  <2>2. CASE i \in 1..(n - m)
    <3>1. m + i \in 1..n /\ i \in 1..(n + 1 - m)
      BY <2>2
    <3>2. Queued'[i] = chain'[m + i] /\ chain'[m + i] = chain[m + i]
      BY <1>4, <1>6, <3>1
    <3>3. Queued[i] = chain[m + i] /\ Append(Queued, node)[i] = Queued[i]
      BY <1>5, <1>7, <2>2
    <3> QED BY <3>2, <3>3
  <2>3. i = n + 1 - m \/ i \in 1..(n - m)
    OBVIOUS
  <2> QED BY ZenonT(30), <2>1, <2>2, <2>3
<1>9. Queued' = Append(Queued, node)
  <2>1. Len(Queued') = Len(Append(Queued, node))
    BY <1>6, <1>7
  <2>2. \A i \in 1..Len(Queued') : Queued'[i] = Append(Queued, node)[i]
    BY ZenonT(30), <1>6, <1>8
  <2> QED BY <1>6, <1>7, <2>1, <2>2, SeqEqual
<1> QED BY <1>1, <1>9 DEF node

\* A pop takes its first order.
LEMMA AdvanceDequeues ==
  ASSUME Inv, Advance, Popped' = Popped + 1
  PROVE  /\ Queued # <<>>
         /\ Head(Queued) = next[tail]
         /\ Queued' = Tail(Queued)
<1>1. PICK n \in Nat : n = Len(chain) /\ Popped + 1 \in 1..n /\ n \in (Popped + 1)..n
  BY NextOfTail, AtFacts DEF Inv, Advance
<1>2. chain' = chain /\ chain \in Seq(Node) /\ next[tail] = chain[Popped + 1]
  BY NextOfTail DEF Inv, TypeOK, Advance, producerVars
<1>3. /\ Head(Queued) = chain[Popped + 1]
      /\ Tail(Queued) = SubSeq(chain, Popped + 1 + 1, Len(chain))
  BY <1>1, <1>2, HeadTailOfSubSeq DEF Queued
<1>4. Len(Queued) # 0
  <2>1. \A i \in (Popped + 1)..n : chain[i] \in Node
    BY <1>1, <1>2
  <2>2. Len(SubSeq(chain, Popped + 1, n)) =
          IF Popped + 1 <= n THEN n - (Popped + 1) + 1 ELSE 0
    BY <1>1, <2>1, SubSeqProperties
  <2> QED BY <1>1, <2>2 DEF Queued
<1>5. Queued' = SubSeq(chain, Popped + 1 + 1, Len(chain))
  BY <1>2 DEF Queued
<1>6. Queued # <<>>
  BY <1>4
<1> QED BY ZenonT(30), <1>2, <1>3, <1>5, <1>6

\* How many of the orders in it were there at the stop.
Backlog ==
  IF running \/ Len(executed) >= stopAt THEN 0 ELSE stopAt - Len(executed)

\* Each memory operation is a step of OrderQueue, or invisible to it.
LEMMA StepImplements == Inv /\ [Next]_vars => [Fifo!Next]_(Fifo!vars)
<1> SUFFICES ASSUME Inv, [Next]_vars PROVE [Fifo!Next]_(Fifo!vars)
  OBVIOUS
<1> DEFINE Closed == gpc \in {"exited", "destroyed"}
<1>1. ASSUME UNCHANGED <<chain, executed, drained, running, stopAt>>,
             Closed' = Closed
      PROVE  UNCHANGED Fifo!vars
  BY <1>1 DEF Fifo!vars
<1>2. ASSUME NEW p \in Producers, PushExchange(p) PROVE Fifo!Next
  <2>1. UNCHANGED <<executed, drained, running, stopAt, gpc>>
    BY <1>2 DEF PushExchange, stopVars
  <2>2. Fifo!Enqueue(<<p, pushes[p] + 1>>)
    BY ZenonT(30), <1>2, <2>1, ExchangeEnqueues DEF Fifo!Enqueue, Queued, Popped
  <2> QED BY <1>2, <2>2, ExchangeEnqueues DEF Fifo!Next
<1>3. CASE WaitAndPop \/ DrainPops
  <2>1. /\ Advance /\ gpc' = gpc /\ gpc \in {"wait", "drain"}
        /\ executed' = Append(executed, next[tail]) /\ drained' = drained
        /\ UNCHANGED <<running, stopAt>>
    BY <1>3 DEF WaitAndPop, DrainPops, Advance, stopVars
  <2>2. next[tail] \in Node
    BY <2>1, NextOfTail, AtFacts DEF Inv, Advance
  <2>3. /\ Len(executed) \in Nat /\ Len(drained) \in Nat /\ stopAt \in Nat
        /\ Len(executed') = Len(executed) + 1 /\ Popped' = Popped + 1
    BY <2>1, <2>2 DEF Inv, TypeOK, Popped
  <2>4. Backlog' = IF Backlog > 0 THEN Backlog - 1 ELSE 0
    BY <2>1, <2>3 DEF Backlog
  <2>5. Queued # <<>> /\ Head(Queued) = next[tail] /\ Queued' = Tail(Queued)
    BY <2>1, <2>3, AdvanceDequeues
  <2>6. Fifo!Dequeue
    BY ZenonT(30), <2>1, <2>4, <2>5 DEF Fifo!Dequeue, Queued, Popped, Backlog
  <2> QED BY <2>6 DEF Fifo!Next
<1>4. CASE StopRunning
  <2>1. /\ UNCHANGED <<chain, executed, drained, gpc>>
        /\ running /\ running' = FALSE /\ stopAt' = Len(chain)
    BY <1>4 DEF StopRunning, producerVars
  <2>2. Len(drained) = 0
    BY <2>1 DEF Inv, Stopped
  <2>3. Popped \in 0..Len(chain) /\ Len(chain) \in Nat /\ Len(executed) = Popped
    BY <2>2, AtFacts DEF Inv, Popped
  <2>4. Len(Queued) = Len(chain) - Popped
    <3>1. \A i \in (Popped + 1)..Len(chain) : chain[i] \in Node
      BY <2>3, AtFacts DEF Inv
    <3>2. Len(SubSeq(chain, Popped + 1, Len(chain))) =
            IF Popped + 1 <= Len(chain) THEN Len(chain) - (Popped + 1) + 1 ELSE 0
      BY <2>3, <3>1, SubSeqProperties
    <3> QED BY <2>3, <3>2 DEF Queued
  <2>5. Backlog' = Len(Queued)
    BY <2>1, <2>3, <2>4 DEF Backlog
  <2>6. Fifo!Stop
    BY <2>1, <2>5 DEF Fifo!Stop, Backlog, Queued, Popped
  <2> QED BY <2>6 DEF Fifo!Next
<1>5. CASE DrainEnds
  <2>1. /\ UNCHANGED <<chain, executed, drained, running, stopAt>>
        /\ gpc = "drain" /\ gpc' = "exited"
    BY <1>5 DEF DrainEnds, producerVars, stopVars
  <2>2. ~running /\ Backlog = 0
    BY <2>1 DEF Inv, Stopped, Backlog
  <2>3. Fifo!Close
    BY <2>1, <2>2 DEF Fifo!Close, Backlog
  <2> QED BY <2>3 DEF Fifo!Next
<1>6. CASE DestructorPops
  <2>1. /\ Advance /\ gpc' = gpc /\ gpc = "exited"
        /\ drained' = Append(drained, next[tail]) /\ executed' = executed
        /\ UNCHANGED <<running, stopAt>>
    BY <1>6 DEF DestructorPops, AllJoined, Advance, stopVars
  <2>2. next[tail] \in Node
    BY <2>1, NextOfTail, AtFacts DEF Inv, Advance
  <2>3. Popped' = Popped + 1
    BY <2>1, <2>2 DEF Inv, TypeOK, Popped
  <2>4. Queued # <<>> /\ Queued' = Tail(Queued)
    BY <2>1, <2>3, AdvanceDequeues
  <2>5. Fifo!Discard
    BY <2>1, <2>4 DEF Fifo!Discard, Queued, Popped
  <2> QED BY <2>5 DEF Fifo!Next
<1>7. ASSUME \/ \E p \in Producers : \/ ConsumerTakesEvent(p)
                                     \/ ConsumerExits(p)
                                     \/ PushLink(p)
             \/ WaitFindsNothing \/ WaitTestsRunning \/ WaitTestsHead
             \/ DestructorEnds \/ UNCHANGED vars
      PROVE  UNCHANGED Fifo!vars
  <2>1. UNCHANGED <<chain, executed, drained, running, stopAt>> /\ Closed' = Closed
    BY <1>7 DEF ConsumerTakesEvent, ConsumerExits, PushLink, WaitFindsNothing,
       WaitTestsRunning, WaitTestsHead, DestructorEnds, AllJoined, vars,
       producerVars, stopVars
  <2> QED BY <1>1, <2>1
<1> QED BY <1>2, <1>3, <1>4, <1>5, <1>6, <1>7
        DEF Next, Producer, Gateway, Destructor, Terminated

\* LockFreeMPSCQueue and the loops around it implement OrderQueue: an order
\* enters at head_.exchange, is received once and in order, and the gateway
\* closes the queue only when it has received what was there at the stop.
THEOREM QueueIsFifo == Spec => Fifo!Safety
<1>1. Init => Fifo!Init
  <2> SUFFICES ASSUME Init PROVE Fifo!Init
    OBVIOUS
  <2>1. /\ chain = <<>> /\ executed = <<>> /\ drained = <<>>
        /\ running = TRUE /\ gpc = "wait"
    BY DEF Init
  <2>2. SubSeq(chain, Len(executed) + Len(drained) + 1, Len(chain)) = <<>>
    BY <2>1, SubSeqEmpty
  <2> QED BY <2>1, <2>2 DEF Fifo!Init
<1> QED BY <1>1, Invariance, StepImplements, PTL DEF Spec, Fifo!Safety
=============================================================================
