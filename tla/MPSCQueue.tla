----------------------------- MODULE MPSCQueue -----------------------------
(***************************************************************************)
(* The lock-free order queue (include/LockFreeMPSCQueue.hpp) together with *)
(* the two loops that use it: the market-event consumer threads that push  *)
(* approved orders while is_running is set, and OrderGateway::run, which   *)
(* pops until it is told to stop, drains what it can see and returns.      *)
(*                                                                         *)
(* One action is one atomic memory operation on shared state.  The node a  *)
(* push allocates is private until head_.exchange, and what a pop does     *)
(* after it has seen a non-null next touches the consumer's side only, so  *)
(* both are merged with the operation next to them.  Deleting the old tail *)
(* in the same step as the load is the earliest moment the program can     *)
(* delete it, the worst case for a producer that still holds the pointer.  *)
(* Memory is sequentially consistent here; the code's acquire/release      *)
(* orders are not modelled.                                                *)
(***************************************************************************)
EXTENDS Naturals, Sequences

CONSTANTS
  Producers,   \* the market-event consumer threads, the queue's producers
  MaxPush,     \* bound: the pushes of each producer
  Stub,        \* the queue's embedded stub_ node
  Null         \* nullptr

\* The k-th node that producer p allocates; it stands for its order as well.
Node == UNION {{p} \X (1..MaxPush[p]) : p \in Producers}

ASSUME MPSCAssumption ==
  /\ MaxPush \in [Producers -> Nat]
  /\ Stub \notin Node
  /\ Null \notin Node
  /\ Null # Stub

VARIABLES
  head,      \* head_: the node most recently exchanged in
  tail,      \* tail_: the node before the oldest queued one
  next,      \* the next pointer of every node
  live,      \* nodes allocated and not yet deleted
  pushes,    \* how many nodes each producer has allocated
  ppc,       \* where each producer is
  prev,      \* each producer's prev_head
  running,   \* is_running_
  gpc,       \* where the gateway thread, later the destructor, is
  executed,  \* history: the orders the gateway popped, in order
  drained,   \* history: the orders only the destructor popped
  chain,     \* history: the nodes in the order of their exchange
  stopAt     \* history: Len(chain) when is_running_ was cleared

vars == <<head, tail, next, live, pushes, ppc, prev, running, gpc,
          executed, drained, chain, stopAt>>

producerVars == <<head, pushes, ppc, prev, chain>>
stopVars == <<running, stopAt>>

-----------------------------------------------------------------------------

Init ==
  /\ head = Stub
  /\ tail = Stub
  /\ next = [n \in Node \cup {Stub} |-> Null]
  /\ live = {}
  /\ pushes = [p \in Producers |-> 0]
  /\ ppc = [p \in Producers |-> "loop"]
  /\ prev = [p \in Producers |-> Null]
  /\ running = TRUE
  /\ gpc = "wait"
  /\ executed = <<>>
  /\ drained = <<>>
  /\ chain = <<>>
  /\ stopAt = 0

\* The node producer p is pushing, or pushed last.
Current(p) == <<p, pushes[p]>>

\* while (is_running_): an event arrived and its order was approved.
ConsumerTakesEvent(p) ==
  /\ ppc[p] = "loop"
  /\ running
  /\ pushes[p] < MaxPush[p]
  /\ ppc' = [ppc EXCEPT ![p] = "push"]
  /\ UNCHANGED <<head, tail, next, live, pushes, prev, gpc, executed,
                 drained, chain, stopVars>>

\* The loop condition is false: the consumer thread returns.
ConsumerExits(p) ==
  /\ ppc[p] = "loop"
  /\ ~running
  /\ ppc' = [ppc EXCEPT ![p] = "exited"]
  /\ UNCHANGED <<head, tail, next, live, pushes, prev, gpc, executed,
                 drained, chain, stopVars>>

\* push, up to and including head_.exchange(node).
PushExchange(p) ==
  LET node == <<p, pushes[p] + 1>>
  IN  /\ ppc[p] = "push"
      /\ pushes' = [pushes EXCEPT ![p] = @ + 1]
      /\ next' = [next EXCEPT ![node] = Null]
      /\ live' = live \cup {node}
      /\ prev' = [prev EXCEPT ![p] = head]
      /\ head' = node
      /\ chain' = Append(chain, node)
      /\ ppc' = [ppc EXCEPT ![p] = "link"]
      /\ UNCHANGED <<tail, gpc, executed, drained, stopVars>>

\* push, the final prev_head->next.store(node).
PushLink(p) ==
  /\ ppc[p] = "link"
  /\ next' = [next EXCEPT ![prev[p]] = Current(p)]
  /\ ppc' = [ppc EXCEPT ![p] = "loop"]
  /\ UNCHANGED <<head, tail, live, pushes, prev, gpc, executed, drained,
                 chain, stopVars>>

-----------------------------------------------------------------------------

\* A pop that deletes the node it has just read.
AdvanceDeletesNext ==
  /\ next[tail] # Null
  /\ tail' = next[tail]
  /\ live' = live \ {next[tail]}
  /\ UNCHANGED <<producerVars, next, stopVars>>

\* A pop that leaves tail_ where it is.
AdvanceKeepsTail ==
  /\ next[tail] # Null
  /\ UNCHANGED <<tail, live, producerVars, next, stopVars>>

\* The part of every pop that follows a non-null next: advance tail_ and
\* delete the old tail unless it is the stub.
Advance ==
  /\ next[tail] # Null
  /\ tail' = next[tail]
  /\ live' = live \ {tail}
  /\ UNCHANGED <<producerVars, next, stopVars>>

\* wait_and_pop(result, running) sees a next node, and the gateway executes
\* the order it took.
WaitAndPop ==
  /\ gpc = "wait"
  /\ Advance
  /\ executed' = Append(executed, next[tail])
  /\ UNCHANGED <<gpc, drained>>

\* wait_and_pop sees next == nullptr and goes on to its stop test.
WaitFindsNothing ==
  /\ gpc = "wait"
  /\ next[tail] = Null
  /\ gpc' = "testRunning"
  /\ UNCHANGED <<producerVars, tail, next, live, executed, drained, stopVars>>

\* The first half of the stop test: !running.load().
WaitTestsRunning ==
  /\ gpc = "testRunning"
  /\ gpc' = IF running THEN "wait" ELSE "testHead"
  /\ UNCHANGED <<producerVars, tail, next, live, executed, drained, stopVars>>

\* A stop test without its second half: a push half done is not waited for.
WaitTestsHeadNot ==
  /\ gpc = "testHead"
  /\ gpc' = "drain"
  /\ UNCHANGED <<producerVars, tail, next, live, executed, drained, stopVars>>

\* A stop test that compares the wrong way round.
WaitTestsHeadWrongly ==
  /\ gpc = "testHead"
  /\ gpc' = IF tail # head THEN "drain" ELSE "wait"
  /\ UNCHANGED <<producerVars, tail, next, live, executed, drained, stopVars>>

\* The second half, tail == head_.load(): wait_and_pop returns false only
\* when no push has exchanged the head.
WaitTestsHead ==
  /\ gpc = "testHead"
  /\ gpc' = IF tail = head THEN "drain" ELSE "wait"
  /\ UNCHANGED <<producerVars, tail, next, live, executed, drained, stopVars>>

\* OrderGateway::run's second loop: try_pop succeeds.
DrainPops ==
  /\ gpc = "drain"
  /\ Advance
  /\ executed' = Append(executed, next[tail])
  /\ UNCHANGED <<gpc, drained>>

\* try_pop sees next == nullptr: run returns.
DrainEnds ==
  /\ gpc = "drain"
  /\ next[tail] = Null
  /\ gpc' = "exited"
  /\ UNCHANGED <<producerVars, tail, next, live, executed, drained, stopVars>>

\* stop() or a signal clears is_running_.
StopRunning ==
  /\ running
  /\ running' = FALSE
  /\ stopAt' = Len(chain)
  /\ UNCHANGED <<producerVars, tail, next, live, gpc, executed, drained>>

\* shutdown() has joined every consumer thread and the gateway thread.
AllJoined ==
  /\ gpc = "exited"
  /\ \A p \in Producers : ppc[p] = "exited"

\* ~LockFreeMPSCQueue: while (try_pop(dummy)).
DestructorPops ==
  /\ AllJoined
  /\ Advance
  /\ drained' = Append(drained, next[tail])
  /\ UNCHANGED <<gpc, executed>>

\* A destructor that only pops.
DestructorEndsKeepsTail ==
  /\ AllJoined
  /\ next[tail] = Null
  /\ gpc' = "destroyed"
  /\ UNCHANGED <<producerVars, tail, next, live, executed, drained, stopVars>>

\* ~LockFreeMPSCQueue: delete the last tail unless it is the stub.
DestructorEnds ==
  /\ AllJoined
  /\ next[tail] = Null
  /\ live' = live \ {tail}
  /\ gpc' = "destroyed"
  /\ UNCHANGED <<producerVars, tail, next, executed, drained, stopVars>>

\* The process is gone.
Terminated ==
  /\ gpc = "destroyed"
  /\ UNCHANGED vars

Producer(p) ==
  \/ ConsumerTakesEvent(p)
  \/ ConsumerExits(p)
  \/ PushExchange(p)
  \/ PushLink(p)

Gateway ==
  \/ WaitAndPop
  \/ WaitFindsNothing
  \/ WaitTestsRunning
  \/ WaitTestsHead
  \/ DrainPops
  \/ DrainEnds

Destructor ==
  \/ DestructorPops
  \/ DestructorEnds

Next ==
  \/ \E p \in Producers : Producer(p)
  \/ Gateway
  \/ Destructor
  \/ StopRunning
  \/ Terminated

Spec == Init /\ [][Next]_vars

\* Threads that can run are eventually scheduled.  A consumer thread need
\* never see an event, so only the rest of its steps are fair; nothing
\* obliges anyone to stop the engine.
FairSpec ==
  /\ Spec
  /\ WF_vars(Gateway)
  /\ WF_vars(Destructor)
  /\ \A p \in Producers :
       WF_vars(ConsumerExits(p) \/ PushExchange(p) \/ PushLink(p))
-----------------------------------------------------------------------------

\* The queue's pointers lead to nodes: tail_ is never null, and only nodes
\* that were allocated are live.
TypeOK ==
  /\ head \in Node \cup {Stub}
  /\ tail \in Node \cup {Stub}
  /\ next \in [Node \cup {Stub} -> Node \cup {Null}]
  /\ live \subseteq Node
  /\ pushes \in [Producers -> Nat]
  /\ \A p \in Producers : pushes[p] <= MaxPush[p]
  /\ ppc \in [Producers -> {"loop", "push", "link", "exited"}]
  /\ prev \in [Producers -> Node \cup {Stub, Null}]
  /\ running \in BOOLEAN
  /\ gpc \in {"wait", "testRunning", "testHead", "drain", "exited",
              "destroyed"}
  /\ executed \in Seq(Node)
  /\ drained \in Seq(Node)
  /\ chain \in Seq(Node)
  /\ stopAt \in Nat

\* Until the queue is destroyed, every pointer a thread is about to follow
\* (tail_, the node after it, the prev_head of a push that has not linked
\* yet, head_) leads to a node that has not been deleted, although try_pop
\* deletes the old tail while pushes are in progress.
NoUseAfterFree ==
  gpc # "destroyed" =>
    /\ tail \in live \cup {Stub}
    /\ next[tail] \in live \cup {Null}
    /\ head \in live \cup {Stub}
    /\ \A p \in Producers : ppc[p] = "link" => prev[p] \in live \cup {Stub}

\* ~LockFreeMPSCQueue leaves no node behind: whatever the interleaving of
\* pushes, pops and the stop, each node is deleted by a pop or by it.
NoLeak == gpc = "destroyed" => live = {}

\* The gateway executes orders in the order of their head_.exchange, each
\* once, and none is skipped: what was popped is a prefix of what was
\* exchanged, although links are stored out of order.
PoppedInPushOrder ==
  LET popped == executed \o drained
  IN  /\ Len(popped) <= Len(chain)
      /\ \A i \in 1..Len(popped) : popped[i] = chain[i]

\* When OrderGateway::run has returned, every order whose push had reached
\* head_.exchange before is_running_ was cleared has been executed, even if
\* its link was stored only after the stop.
DrainedBeforeExit ==
  gpc \in {"exited", "destroyed"} => Len(executed) >= stopAt

\* Once is_running_ is cleared every thread returns and the queue is
\* destroyed: nobody waits on anybody for ever.
ShutdownCompletes == ~running ~> (gpc = "destroyed")

\* The queue implements the FIFO of OrderQueue: an order enters it at
\* head_.exchange and leaves it when tail_ moves onto its node.
Fifo == INSTANCE OrderQueue WITH
  Order <- Node,
  queue <- SubSeq(chain, Len(executed) + Len(drained) + 1, Len(chain)),
  received <- executed,
  stopped <- ~running,
  backlog <- IF running \/ Len(executed) >= stopAt THEN 0
             ELSE stopAt - Len(executed),
  closed <- gpc \in {"exited", "destroyed"}

\* The two loops and the memory operations of push and pop show the engine
\* nothing but OrderQueue's steps, its promise to deliver included.
ImplementsFifo == Fifo!Spec
=============================================================================
