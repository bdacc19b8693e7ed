----------------------------- MODULE MPSCQueue ------------------------------
(***************************************************************************)
(* core/mpsc_queue.h: the multi-producer single-consumer queue that feeds  *)
(* external submissions to a worker.                                       *)
(*                                                                         *)
(* The heap is explicit: a push allocates any free address, a pop frees    *)
(* the old sentinel, so an address may be reused while some producer still *)
(* remembers it.  Every access to memory shared between two threads is a   *)
(* step of its own; tail_ belongs to the consumer.                         *)
(***************************************************************************)
EXTENDS Naturals, Sequences

CONSTANTS
  Producers,
  Nodes,       \* addresses `new Node` can return
  NULL,        \* nullptr
  MaxPushes    \* bound: pushes per producer

ASSUME MPSCAssumption ==
  /\ NULL \notin Nodes
  /\ MaxPushes \in Nat

VARIABLES
  head,        \* head_: last node exchanged in
  tail,        \* tail_: current sentinel, consumer only
  next,        \* next[n]: Node::next
  value,       \* value[n]: Node::value
  live,        \* addresses allocated and not yet deleted
  pc,          \* where each producer is inside push()
  node,        \* its local `node`
  prev,        \* its local `prev`
  sent,        \* pushes it has started
  cpc,         \* where the consumer is
  cnext,       \* its local `next`
  chain,       \* history: sentinel, then every node in exchange order
  order,       \* history: values in exchange order
  popped       \* history: values returned by pop(), in order

heap == <<next, value, live>>
local == <<pc, node, prev, sent>>
history == <<chain, order, popped>>
vars == <<head, tail, heap, local, cpc, cnext, history>>

\* A producer's k-th push carries the value <<p, k>>: values are distinct.
Values == Producers \X (1 .. MaxPushes)
NoValue == <<>>

(***************************************************************************)
(* The constructor: one sentinel, pointed to by head_ and tail_.           *)
(***************************************************************************)
Init ==
  /\ head \in Nodes
  /\ tail = head
  /\ next = [n \in Nodes |-> NULL]
  /\ value = [n \in Nodes |-> NoValue]
  /\ live = {head}
  /\ pc = [p \in Producers |-> "idle"]
  /\ node = [p \in Producers |-> NULL]
  /\ prev = [p \in Producers |-> NULL]
  /\ sent = [p \in Producers |-> 0]
  /\ cpc = "idle"
  /\ cnext = NULL
  /\ chain = <<head>>
  /\ order = <<>>
  /\ popped = <<>>

-----------------------------------------------------------------------------
\* Node::next{nullptr}.  Mutant: no initialiser, a reused address keeps its old next.
FreshNextStale(n) == next[n]
FreshNext(n) == NULL

\* What the exchange returns.  Mutant: the sentinel is taken as the predecessor.
PredecessorTail == tail
Predecessor == head

\* The node linked from.  Mutant: head_ is read again instead of using prev.
LinkFromHead(p) == head
LinkFrom(p) == prev[p]

\* push(): `new Node(std::move(value))`, whose next starts out null.
PushAllocate(p) ==
  /\ pc[p] = "idle"
  /\ cpc \in {"idle", "take"}          \* the queue is not being destroyed
  /\ sent[p] < MaxPushes
  /\ \E n \in Nodes \ live :
       /\ live' = live \cup {n}
       /\ next' = [next EXCEPT ![n] = FreshNext(n)]
       /\ value' = [value EXCEPT ![n] = <<p, sent[p] + 1>>]
       /\ node' = [node EXCEPT ![p] = n]
  /\ sent' = [sent EXCEPT ![p] = @ + 1]
  /\ pc' = [pc EXCEPT ![p] = "exchange"]
  /\ UNCHANGED <<head, tail, prev, cpc, cnext, history>>

\* push(): prev = head_.exchange(node).
PushExchange(p) ==
  /\ pc[p] = "exchange"
  /\ prev' = [prev EXCEPT ![p] = Predecessor]
  /\ head' = node[p]
  /\ pc' = [pc EXCEPT ![p] = "link"]
  /\ chain' = Append(chain, node[p])
  /\ order' = Append(order, value[node[p]])
  /\ UNCHANGED <<tail, heap, node, sent, cpc, cnext, popped>>

\* push(): prev->next.store(node), and return.
PushLink(p) ==
  /\ pc[p] = "link"
  /\ next' = [next EXCEPT ![LinkFrom(p)] = node[p]]
  /\ pc' = [pc EXCEPT ![p] = "idle"]
  /\ UNCHANGED <<head, tail, value, live, node, prev, sent, cpc, cnext, chain, order, popped>>

-----------------------------------------------------------------------------
\* pop() finds a successor.
HasNext == next[tail] # NULL

\* The value moved out.
TakenValue == value[cnext]

\* `delete tail`.
FreedByPop == {tail}

\* pop(): next = tail->next.load(); null means return nullopt and no change.
\* In the destructor the same call ends the drain loop: see DestroySentinel.
PopLoad ==
  /\ cpc \in {"idle", "drain"}
  /\ HasNext
  /\ cnext' = next[tail]
  /\ cpc' = IF cpc = "idle" THEN "take" ELSE "drain_take"
  /\ UNCHANGED <<head, tail, heap, local, history>>

\* pop(): tail_ = next; move the value out; delete the old sentinel.
PopTake ==
  /\ cpc \in {"take", "drain_take"}
  /\ tail' = cnext
  /\ popped' = Append(popped, TakenValue)
  /\ live' = live \ FreedByPop
  /\ cnext' = NULL
  /\ cpc' = IF cpc = "take" THEN "idle" ELSE "drain"
  /\ UNCHANGED <<head, next, value, local, chain, order>>

\* ~MPSCQueue(): no other thread uses the queue any more.
Destroy ==
  /\ cpc = "idle"
  /\ \A p \in Producers : pc[p] = "idle"
  /\ cpc' = "drain"
  /\ UNCHANGED <<head, tail, heap, local, cnext, history>>

\* ~MPSCQueue(): the drain loop saw nullopt; delete tail_.
DestroySentinel ==
  /\ cpc = "drain"
  /\ ~HasNext
  /\ live' = live \ {tail}
  /\ cpc' = "destroyed"
  /\ UNCHANGED <<head, tail, next, value, local, cnext, history>>

Consume == PopLoad \/ PopTake
Push(p) == PushAllocate(p) \/ PushExchange(p) \/ PushLink(p)

Next ==
  \/ \E p \in Producers : Push(p)
  \/ Consume
  \/ Destroy
  \/ DestroySentinel

(***************************************************************************)
(* A producer inside push() and a consumer that polls are running threads, *)
(* so neither stops for ever; nobody has to start a push or destroy.       *)
(***************************************************************************)
Spec == Init /\ [][Next]_vars
FairSpec ==
  /\ Spec
  /\ \A p \in Producers : WF_vars(PushExchange(p) \/ PushLink(p))
  /\ WF_vars(Consume)

-----------------------------------------------------------------------------
Unpopped == SubSeq(order, Len(popped) + 1, Len(order))
Pending == {<<p, sent[p]>> : p \in {r \in Producers : pc[r] = "link"}}

\* Type invariant; a consumer past the null check holds a real node.
TypeOK ==
  /\ head \in Nodes /\ tail \in Nodes
  /\ next \in [Nodes -> Nodes \cup {NULL}]
  /\ value \in [Nodes -> Values \cup {NoValue}]
  /\ live \subseteq Nodes
  /\ pc \in [Producers -> {"idle", "exchange", "link"}]
  /\ node \in [Producers -> Nodes \cup {NULL}]
  /\ prev \in [Producers -> Nodes \cup {NULL}]
  /\ sent \in [Producers -> 0 .. MaxPushes]
  /\ cpc \in {"idle", "take", "drain", "drain_take", "destroyed"}
  /\ cnext \in Nodes \cup {NULL}
  /\ cpc \in {"take", "drain_take"} => cnext \in Nodes
  /\ chain \in Seq(Nodes)
  /\ order \in Seq(Values)
  /\ popped \in Seq(Values)

(***************************************************************************)
(* No thread ever dereferences a deleted node: the node whose next a       *)
(* producer is about to store into (mpsc_queue.h:38), the node the         *)
(* consumer is about to move from (line 51) and the sentinel it reads      *)
(* through (line 45) are allocated, although pop deletes nodes that        *)
(* producers once held as prev.                                            *)
(***************************************************************************)
NoUseAfterFree ==
  /\ \A p \in Producers : pc[p] = "link" => prev[p] \in live
  /\ cpc \in {"take", "drain_take"} => cnext \in live
  /\ cpc # "destroyed" => tail \in live /\ head \in live

(***************************************************************************)
(* pop() returns values in the order of the head_ exchanges, each once and *)
(* none skipped, however the link stores are reordered.                    *)
(***************************************************************************)
FIFO ==
  /\ Len(popped) <= Len(order)
  /\ \A i \in 1 .. Len(popped) : popped[i] = order[i]

(***************************************************************************)
(* pop() answers nullopt (mpsc_queue.h:46) only if the queue is empty or   *)
(* the push of the oldest value is still between its exchange and its      *)
(* link: a finished push can be hidden, but only by an unfinished one.     *)
(***************************************************************************)
OnlyPendingHides ==
  cpc = "idle" /\ next[tail] = NULL /\ Unpopped # <<>> => Head(Unpopped) \in Pending

(***************************************************************************)
(* The destructor's drain loop and final delete free every node.           *)
(***************************************************************************)
NoLeak == cpc = "destroyed" => live = {}

(***************************************************************************)
(* The queue implements AbstractMPSC, including its promise that a polling *)
(* consumer eventually gets the oldest value once that is published.       *)
(***************************************************************************)
Abstract == INSTANCE AbstractMPSC
  WITH q <- Unpopped, pending <- Pending, out <- popped
RefinesAbstractMPSC == Abstract!ASpec
=============================================================================
