--------------------------- MODULE SequenceProofs ---------------------------
(***************************************************************************)
(* Two components that keep a sequence, each on its own: the submission    *)
(* queue (core/mpsc_queue.h), for any producers, addresses and number of   *)
(* pushes, and the conversation of a session (session/conversation.h and   *)
(* session/summarizing_conversation.h), for every capacity and any number  *)
(* of messages.                                                            *)
(***************************************************************************)
EXTENDS MPSCQueue, SummarizingConversation, Integers, TLAPS

Linking(p) == pc[p] = "link"
Holding(p) == pc[p] = "exchange"

\* Positions of chain that still hold allocated nodes: the sentinel to head_.
First == Len(popped) + 1
Last == Len(chain)

(***************************************************************************)
(* The nodes from tail_ to head_ are the end of chain, all distinct.       *)
(***************************************************************************)
ChainInv ==
  /\ Len(chain) = Len(order) + 1
  /\ Len(popped) <= Len(order)
  /\ tail = chain[First]
  /\ head = chain[Last]
  /\ \A i, j \in First .. Last : chain[i] = chain[j] => i = j
  /\ \A i \in 1 .. Len(order) : i >= First => value[chain[i + 1]] = order[i]
  /\ \A i \in 1 .. Len(popped) : popped[i] = order[i]

\* A producer between exchange and link owns one gap of the chain.
Gap(p, i) ==
  /\ prev[p] = chain[i]
  /\ node[p] = chain[i + 1]
  /\ order[i] = <<p, sent[p]>>

(***************************************************************************)
(* next follows the chain except across the gaps, where it is null.        *)
(***************************************************************************)
LinkInv ==
  /\ next[chain[Last]] = NULL
  /\ \A i \in First .. Len(order) :
       \/ next[chain[i]] = chain[i + 1]
       \/ next[chain[i]] = NULL /\ \E p \in Producers : Linking(p) /\ Gap(p, i)
  /\ \A p \in Producers : Linking(p) =>
       \E i \in First .. Len(order) : Gap(p, i) /\ next[chain[i]] = NULL

(***************************************************************************)
(* Nodes not yet exchanged in are private to one producer.                 *)
(***************************************************************************)
PrivateInv ==
  /\ \A p \in Producers : Holding(p) =>
       /\ node[p] \in live
       /\ next[node[p]] = NULL
       /\ value[node[p]] = <<p, sent[p]>>
       /\ sent[p] \in 1 .. MaxPushes
       /\ \A i \in First .. Last : chain[i] # node[p]
  /\ \A p, r \in Producers : Holding(p) /\ Holding(r) /\ node[p] = node[r] => p = r

(***************************************************************************)
(* The allocated nodes are exactly those two kinds.                        *)
(***************************************************************************)
LiveInv ==
  /\ cpc # "destroyed" => \A i \in First .. Last : chain[i] \in live
  /\ \A n \in live : \/ cpc # "destroyed" /\ \E i \in First .. Last : n = chain[i]
                     \/ \E p \in Producers : Holding(p) /\ n = node[p]

ConsumerInv ==
  /\ cpc \in {"take", "drain_take"} => cnext = next[tail] /\ cnext # NULL
  /\ cpc \in {"drain", "drain_take", "destroyed"} => \A p \in Producers : pc[p] = "idle"
  /\ cpc = "destroyed" => First = Last

IInv == TypeOK /\ ChainInv /\ LinkInv /\ PrivateInv /\ LiveInv /\ ConsumerInv

-----------------------------------------------------------------------------
\* The constructor establishes the invariant.
LEMMA InitInv == Init => IInv
  <1> SUFFICES ASSUME Init PROVE IInv
    OBVIOUS
  <1> USE MPSCAssumption DEF Init
  <1>1. TypeOK
    BY DEF TypeOK
  <1>2. /\ Len(chain) = 1 /\ Len(order) = 0 /\ Len(popped) = 0
        /\ First = 1 /\ Last = 1 /\ chain[1] = head
    BY DEF First, Last
  <1>3. ChainInv
    BY <1>2 DEF ChainInv
  <1>4. LinkInv
    BY <1>2 DEF LinkInv, Linking
  <1>5. PrivateInv /\ LiveInv /\ ConsumerInv
    BY <1>2 DEF PrivateInv, LiveInv, ConsumerInv, Holding
  <1> QED
    BY <1>1, <1>3, <1>4, <1>5 DEF IInv

\* Index arithmetic on the chain, used by every step below.
LEMMA Indices ==
  ASSUME IInv
  PROVE  /\ First \in Nat /\ Last \in Nat /\ First >= 1 /\ First <= Last
         /\ Last = Len(order) + 1 /\ Len(order) \in Nat /\ Len(popped) \in Nat
         /\ Last = Len(chain) /\ First = Len(popped) + 1
         /\ \A i \in 1 .. Len(order) : i >= First => i \in First .. Last /\ i + 1 \in First .. Last
         /\ \A i \in First .. Last : chain[i] \in Nodes
         /\ tail = chain[First] /\ head = chain[Last]
  BY DEF IInv, TypeOK, ChainInv, First, Last

\* push() allocating a node disturbs nothing reachable: the address was free.
LEMMA PushAllocateInv ==
  ASSUME NEW p \in Producers, IInv, PushAllocate(p)
  PROVE  IInv'
  <1> USE MPSCAssumption DEF IInv
  <1> PICK n \in Nodes \ live :
        /\ live' = live \cup {n}
        /\ next' = [next EXCEPT ![n] = NULL]
        /\ value' = [value EXCEPT ![n] = <<p, sent[p] + 1>>]
        /\ node' = [node EXCEPT ![p] = n]
    BY DEF PushAllocate, FreshNext
  <1>0. /\ pc[p] = "idle" /\ cpc \in {"idle", "take"} /\ sent[p] < MaxPushes
        /\ sent' = [sent EXCEPT ![p] = @ + 1]
        /\ pc' = [pc EXCEPT ![p] = "exchange"]
        /\ UNCHANGED <<head, tail, prev, cpc, cnext, chain, order, popped>>
    BY DEF PushAllocate, history
  <1>1. TypeOK'
    BY <1>0 DEF TypeOK, Values
  <1>2. First' = First /\ Last' = Last
    BY <1>0 DEF First, Last
  <1>3. \A i \in First .. Last : chain[i] \in live /\ chain[i] # n /\ chain[i] \in Nodes
    BY <1>0 DEF LiveInv, TypeOK, First, Last, ChainInv
  <1>4. ChainInv'
    <2>1. \A i \in 1 .. Len(order) : i >= First => value'[chain[i + 1]] = value[chain[i + 1]]
      BY <1>3, Indices DEF TypeOK
    <2> QED
      BY <1>0, <1>2, <2>1 DEF ChainInv
  <1>5. LinkInv'
    <2>1. \A i \in First .. Last : next'[chain[i]] = next[chain[i]]
      BY <1>3 DEF TypeOK
    <2>2. Last = Len(order) + 1 /\ First \in Nat /\ Last \in Nat /\ First <= Last
      BY DEF ChainInv, First, Last, TypeOK
    <2>3. \A r \in Producers : Linking(r) => r # p /\ Linking(r)' /\ node'[r] = node[r] /\ sent'[r] = sent[r]
      BY <1>0 DEF Linking, TypeOK
    <2>4. \A r \in Producers : Linking(r)' => Linking(r)
      BY <1>0 DEF Linking, TypeOK
    <2>5. \A r \in Producers, i \in First .. Len(order) : Linking(r) => (Gap(r, i)' <=> Gap(r, i))
      BY <1>0, <2>3 DEF Gap
    <2> QED
      BY <1>0, <1>2, <2>1, <2>2, <2>3, <2>4, <2>5 DEF LinkInv
  <1>6. PrivateInv'
    BY <1>0, <1>2, <1>3 DEF PrivateInv, Holding, TypeOK
  <1>7. LiveInv'
    <2>1. cpc' # "destroyed" => \A i \in (First .. Last)' : chain'[i] \in live'
      BY <1>0, <1>2, <1>3
    <2>2. Holding(p)' /\ node'[p] = n
      BY <1>0 DEF Holding, TypeOK
    <2>3. \A r \in Producers : Holding(r) => Holding(r)' /\ node'[r] = node[r]
      BY <1>0 DEF Holding, TypeOK
    <2>4. \A m \in live : \/ cpc' # "destroyed" /\ \E i \in (First .. Last)' : m = chain'[i]
                          \/ \E r \in Producers : Holding(r)' /\ m = node'[r]
      BY <1>0, <1>2, <2>3 DEF LiveInv
    <2> QED
      BY <2>1, <2>2, <2>4 DEF LiveInv
  <1>8. ConsumerInv'
    <2>1. tail = chain[First] /\ First \in First .. Last
      BY DEF ChainInv, First, Last, TypeOK
    <2> QED
      BY <1>0, <1>2, <1>3, <2>1 DEF ConsumerInv, TypeOK
  <1> QED
    BY <1>1, <1>4, <1>5, <1>6, <1>7, <1>8

\* The exchange extends the chain by a private node and opens one gap.
LEMMA PushExchangeInv ==
  ASSUME NEW p \in Producers, IInv, PushExchange(p)
  PROVE  IInv'
  <1> USE MPSCAssumption DEF IInv
  <1>0. /\ pc[p] = "exchange"
        /\ prev' = [prev EXCEPT ![p] = head] /\ head' = node[p]
        /\ pc' = [pc EXCEPT ![p] = "link"]
        /\ chain' = Append(chain, node[p]) /\ order' = Append(order, value[node[p]])
        /\ UNCHANGED <<tail, next, value, live, node, sent, cpc, cnext, popped>>
    BY DEF PushExchange, heap, Predecessor
  <1>1. /\ node[p] \in live /\ next[node[p]] = NULL /\ node[p] \in Nodes
        /\ value[node[p]] = <<p, sent[p]>> /\ sent[p] \in 1 .. MaxPushes
        /\ \A i \in First .. Last : chain[i] # node[p]
    BY <1>0 DEF PrivateInv, Holding, TypeOK
  <1>1a. value[node[p]] \in Values
    BY <1>1 DEF Values
  <1>2. /\ chain' \in Seq(Nodes) /\ order' \in Seq(Values)
        /\ Len(chain') = Len(chain) + 1 /\ Len(order') = Len(order) + 1
        /\ \A i \in 1 .. Len(chain) : chain'[i] = chain[i]
        /\ \A i \in 1 .. Len(order) : order'[i] = order[i]
        /\ chain'[Len(chain) + 1] = node[p]
        /\ order'[Len(order) + 1] = <<p, sent[p]>>
    BY <1>0, <1>1, <1>1a DEF TypeOK
  <1>3. First' = First /\ Last' = Last + 1
    BY <1>0, <1>2 DEF First, Last
  <1>4. \A i \in First .. Last : chain'[i] = chain[i]
    BY <1>2, Indices
  <1>5. cpc \in {"idle", "take"}
    BY <1>0 DEF ConsumerInv, TypeOK
  <1>6. TypeOK'
    BY <1>0, <1>1, <1>2 DEF TypeOK
  <1>7. ChainInv'
    <2>1. Len(chain') = Len(order') + 1 /\ Len(popped') <= Len(order')
      BY <1>0, <1>2, Indices
    <2>2. tail' = chain'[First'] /\ head' = chain'[Last']
      BY <1>0, <1>2, <1>3, <1>4, Indices
    <2>3. ASSUME NEW i \in First' .. Last', NEW j \in First' .. Last', chain'[i] = chain'[j]
          PROVE  i = j
      <3>1. \A k \in First' .. Last' : k \in First .. Last \/ k = Last + 1
        BY <1>3, Indices
      <3>2. chain'[Last + 1] = node[p] /\ \A k \in First .. Last : chain'[k] # node[p]
        BY <1>1, <1>2, <1>4, Indices DEF PrivateInv, Holding, Last
      <3>3. CASE i \in First .. Last /\ j \in First .. Last
        BY <3>3, <2>3, <1>4 DEF ChainInv
      <3>4. CASE i = Last + 1 \/ j = Last + 1
        BY <3>1, <3>2, <3>4, <2>3
      <3> QED
        BY <3>1, <3>3, <3>4
    <2>4. ASSUME NEW i \in 1 .. Len(order'), i >= First'
          PROVE  value'[chain'[i + 1]] = order'[i]
      <3>1. CASE i = Len(order) + 1
        BY <3>1, <1>0, <1>1, <1>2, Indices, ZenonT(60)
      <3>2. CASE i \in 1 .. Len(order)
        BY <3>2, <2>4, <1>0, <1>2, <1>3, <1>4, Indices DEF ChainInv
      <3> QED
        BY <3>1, <3>2, <1>2, Indices
    <2>5. \A i \in 1 .. Len(popped') : popped'[i] = order'[i]
      BY <1>0, <1>2, Indices DEF ChainInv
    <2> QED
      BY <2>1, <2>2, <2>3, <2>4, <2>5 DEF ChainInv
  <1>8. LinkInv'
    <2>1. next'[chain'[Last']] = NULL
      BY <1>0, <1>1, <1>2, <1>3, Indices
    <2>2. \A r \in Producers, i \in First .. Len(order) :
             r # p => (Gap(r, i)' <=> Gap(r, i))
      <3>1. \A i \in First .. Len(order) : /\ chain'[i] = chain[i] /\ chain'[i + 1] = chain[i + 1]
                                            /\ order'[i] = order[i]
        BY <1>2, <1>4, Indices
      <3> QED
        BY <3>1, <1>0 DEF Gap, TypeOK
    <2>3. \A r \in Producers : r # p => (Linking(r)' <=> Linking(r))
      BY <1>0 DEF Linking, TypeOK
    <2>4. Linking(p)' /\ ~Linking(p)
      BY <1>0 DEF Linking, TypeOK
    <2> PICK k \in Nat : k = Len(order) + 1
      BY Indices
    <2>5. Gap(p, k)'
      BY <1>0, <1>2, Indices DEF Gap, TypeOK
    <2>6. next'[chain'[k]] = NULL
      <3>1. k = Last /\ k \in First .. Last
        BY Indices
      <3>2. next[chain[k]] = NULL
        BY <3>1 DEF LinkInv
      <3> QED
        BY <3>1, <3>2, <1>0, <1>4
    <2>7. \A i \in First .. Len(order) : /\ next'[chain'[i]] = next[chain[i]]
                                          /\ chain'[i + 1] = chain[i + 1]
      BY <1>0, <1>4, Indices
    <2>8. ASSUME NEW i \in First' .. Len(order')
          PROVE  \/ next'[chain'[i]] = chain'[i + 1]
                 \/ next'[chain'[i]] = NULL /\ \E r \in Producers : Linking(r)' /\ Gap(r, i)'
      <3>1. CASE i = k
        BY <3>1, <2>4, <2>5, <2>6
      <3>2. CASE i \in First .. Len(order)
        BY <3>2, <2>2, <2>3, <2>4, <2>7 DEF LinkInv
      <3> QED
        BY <3>1, <3>2, <1>2, <1>3, Indices
    <2>9. ASSUME NEW r \in Producers, Linking(r)'
          PROVE  \E i \in First' .. Len(order') : Gap(r, i)' /\ next'[chain'[i]] = NULL
      <3>1. CASE r = p
        BY <3>1, <2>5, <2>6, <1>2, <1>3, Indices
      <3>2. CASE r # p
        <4>1. PICK i \in First .. Len(order) : Gap(r, i) /\ next[chain[i]] = NULL
          BY <3>2, <2>3, <2>9 DEF LinkInv
        <4>2. Gap(r, i)' /\ next'[chain'[i]] = NULL /\ i \in First' .. Len(order')
          BY <4>1, <3>2, <2>2, <2>7, <1>2, <1>3, Indices
        <4> QED
          BY <4>2
      <3> QED
        BY <3>1, <3>2
    <2> QED
      BY <2>1, <2>8, <2>9 DEF LinkInv
  <1>9. PrivateInv'
    <2>1. \A r \in Producers : Holding(r)' => r # p /\ Holding(r)
      BY <1>0 DEF Holding, TypeOK
    <2>2. ASSUME NEW r \in Producers, Holding(r)', NEW i \in First' .. Last'
          PROVE  chain'[i] # node'[r]
      <3>1. r # p /\ Holding(r) /\ node'[r] = node[r] /\ node[r] # node[p]
        BY <2>1, <2>2, <1>0 DEF PrivateInv, Holding
      <3>2. i \in First .. Last \/ (i = Last + 1 /\ chain'[i] = node[p])
        BY <1>2, <1>3, Indices, SMTT(30) DEF Last
      <3>3. \A k \in First .. Last : chain[k] # node[r]
        BY <3>1 DEF PrivateInv
      <3> QED
        BY <3>1, <3>2, <3>3, <1>4
    <2> QED
      BY <2>1, <2>2, <1>0 DEF PrivateInv
  <1>10. LiveInv'
    <2>1. ASSUME NEW i \in First' .. Last' PROVE chain'[i] \in live
      <3>1. CASE i \in First .. Last
        BY <3>1, <1>4, <1>5 DEF LiveInv
      <3>2. CASE i = Last + 1
        BY <3>2, <1>1, <1>2, Indices
      <3> QED
        BY <3>1, <3>2, <1>3, Indices
    <2>2. ASSUME NEW n \in live
          PROVE  \/ \E i \in First' .. Last' : n = chain'[i]
                 \/ \E r \in Producers : Holding(r)' /\ n = node[r]
      <3>1. CASE \E i \in First .. Last : n = chain[i]
        BY <3>1, <1>3, <1>4, Indices
      <3>2. CASE n = node[p]
        BY <3>2, <1>2, <1>3, Indices
      <3>3. CASE \E r \in Producers : r # p /\ Holding(r) /\ n = node[r]
        BY <3>3, <1>0 DEF Holding, TypeOK
      <3> QED
        BY <3>1, <3>2, <3>3 DEF LiveInv
    <2> QED
      BY <2>1, <2>2, <1>0, <1>5 DEF LiveInv
  <1>11. ConsumerInv'
    BY <1>0, <1>5 DEF ConsumerInv
  <1> QED
    BY <1>6, <1>7, <1>8, <1>9, <1>10, <1>11

\* The link store closes the gap its producer owns, and no other.
LEMMA PushLinkInv ==
  ASSUME NEW p \in Producers, IInv, PushLink(p)
  PROVE  IInv'
  <1> USE MPSCAssumption DEF IInv
  <1>0. /\ pc[p] = "link"
        /\ next' = [next EXCEPT ![prev[p]] = node[p]]
        /\ pc' = [pc EXCEPT ![p] = "idle"]
        /\ UNCHANGED <<head, tail, value, live, node, prev, sent, cpc, cnext, chain, order, popped>>
    BY DEF PushLink, LinkFrom
  <1>1. PICK k \in First .. Len(order) : Gap(p, k) /\ next[chain[k]] = NULL
    BY <1>0 DEF LinkInv, Linking
  <1>2. /\ prev[p] = chain[k] /\ node[p] = chain[k + 1] /\ order[k] = <<p, sent[p]>>
        /\ k \in First .. Last /\ k + 1 \in First .. Last /\ k \in 1 .. Len(order)
    BY <1>1, Indices DEF Gap
  <1>3. First' = First /\ Last' = Last
    BY <1>0 DEF First, Last
  <1>4. /\ next'[chain[k]] = chain[k + 1]
        /\ \A i \in First .. Last : i # k => next'[chain[i]] = next[chain[i]]
    <2>1. \A i \in First .. Last : i # k => chain[i] # chain[k]
      BY <1>2 DEF ChainInv
    <2> QED
      BY <2>1, <1>0, <1>2, Indices DEF TypeOK
  <1>5. TypeOK'
    <2>1. next' \in [Nodes -> Nodes \cup {NULL}]
      BY <1>0 DEF TypeOK
    <2>2. pc' \in [Producers -> {"idle", "exchange", "link"}]
      BY <1>0 DEF TypeOK
    <2> QED
      BY <2>1, <2>2, <1>0 DEF TypeOK
  <1>6. ChainInv'
    BY <1>0, <1>3 DEF ChainInv
  <1>7. cpc \in {"idle", "take"}
    BY <1>0 DEF ConsumerInv, TypeOK
  <1>8. LinkInv'
    <2>1. \A r \in Producers : r # p => (Linking(r)' <=> Linking(r))
      BY <1>0 DEF Linking, TypeOK
    <2>2. ~Linking(p)'
      BY <1>0 DEF Linking, TypeOK
    <2>3. \A r \in Producers, i \in First .. Len(order) : Gap(r, i)' <=> Gap(r, i)
      BY <1>0 DEF Gap
    <2>4. \A r \in Producers : r # p => ~Gap(r, k)
      BY <1>2 DEF Gap
    <2>5. \A i \in First .. Len(order) : Gap(p, i) => i = k
      <3>1. \A i \in First .. Len(order) : i \in First .. Last
        BY Indices
      <3>2. \A i \in First .. Last : chain[i] = chain[k] => i = k
        BY <1>2 DEF ChainInv
      <3> QED
        BY <3>1, <3>2, <1>2 DEF Gap
    <2>6. next'[chain'[Last']] = NULL
      <3>1. Last \in First .. Last /\ Last # k
        BY <1>1, Indices
      <3>2. next[chain[Last]] = NULL
        BY DEF LinkInv
      <3> QED
        BY <3>1, <3>2, <1>0, <1>3, <1>4
    <2>7. ASSUME NEW i \in First' .. Len(order')
          PROVE  \/ next'[chain'[i]] = chain'[i + 1]
                 \/ next'[chain'[i]] = NULL /\ \E r \in Producers : Linking(r)' /\ Gap(r, i)'
      <3>1. CASE i = k
        BY <3>1, <1>0, <1>4
      <3>2. CASE i # k
        <4>1. i \in First .. Len(order) /\ i \in First .. Last
          BY <1>0, <1>3, Indices
        <4>2. next'[chain'[i]] = next[chain[i]] /\ chain'[i + 1] = chain[i + 1]
          BY <4>1, <3>2, <1>0, <1>4
        <4>3. CASE next[chain[i]] = chain[i + 1]
          BY <4>2, <4>3
        <4>4. CASE next[chain[i]] = NULL /\ \E r \in Producers : Linking(r) /\ Gap(r, i)
          BY <4>1, <4>2, <4>4, <3>2, <2>1, <2>3, <2>5
        <4> QED
          BY <4>1, <4>3, <4>4 DEF LinkInv
      <3> QED
        BY <3>1, <3>2
    <2>8. ASSUME NEW r \in Producers, Linking(r)'
          PROVE  \E i \in First' .. Len(order') : Gap(r, i)' /\ next'[chain'[i]] = NULL
      <3>1. r # p /\ Linking(r)
        BY <2>1, <2>2, <2>8
      <3>2. PICK i \in First .. Len(order) : Gap(r, i) /\ next[chain[i]] = NULL
        BY <3>1 DEF LinkInv
      <3>3. i # k /\ i \in First .. Last
        BY <3>1, <3>2, <2>4, Indices
      <3>4. Gap(r, i)' /\ next'[chain'[i]] = NULL
        BY <3>2, <3>3, <2>3, <1>0, <1>4
      <3> QED
        BY <3>4, <1>0, <1>3
    <2> QED
      BY <2>6, <2>7, <2>8 DEF LinkInv
  <1>9. PrivateInv'
    <2>1. \A r \in Producers : Holding(r)' => r # p /\ Holding(r)
      BY <1>0 DEF Holding, TypeOK
    <2>2. \A r \in Producers : Holding(r) => next'[node[r]] = next[node[r]]
      BY <1>0, <1>2 DEF PrivateInv, TypeOK
    <2> QED
      BY <2>1, <2>2, <1>0, <1>3 DEF PrivateInv
  <1>10. LiveInv'
    BY <1>0, <1>3 DEF LiveInv, Holding, TypeOK
  <1>11. ConsumerInv'
    <2>1. cpc = "take" => k # First
      BY <1>1, Indices DEF ConsumerInv
    <2>2. cpc = "take" => next'[tail] = next[tail]
      BY <2>1, <1>4, Indices
    <2> QED
      BY <2>2, <1>0, <1>7 DEF ConsumerInv
  <1> QED
    BY <1>5, <1>6, <1>8, <1>9, <1>10, <1>11

\* A non-null next of the sentinel is the second node of the chain.
LEMMA SentinelNext ==
  ASSUME IInv, next[tail] # NULL
  PROVE  /\ First \in 1 .. Len(order) /\ First + 1 \in First .. Last
         /\ next[tail] = chain[First + 1] /\ value[next[tail]] = order[First]
  <1>1. First # Last
    BY Indices DEF IInv, LinkInv
  <1>2. First \in First .. Len(order) /\ First \in 1 .. Len(order) /\ First + 1 \in First .. Last
    BY <1>1, Indices
  <1>3. next[tail] = chain[First + 1]
    BY <1>2, Indices DEF IInv, LinkInv
  <1> QED
    BY <1>2, <1>3, Indices DEF IInv, ChainInv

\* Reading next changes only the consumer's locals.
LEMMA PopLoadInv == ASSUME IInv, PopLoad PROVE IInv'
  <1> USE MPSCAssumption DEF IInv
  <1>0. /\ cpc \in {"idle", "drain"} /\ next[tail] # NULL /\ cnext' = next[tail]
        /\ cpc' = IF cpc = "idle" THEN "take" ELSE "drain_take"
        /\ UNCHANGED <<head, tail, next, value, live, pc, node, prev, sent, chain, order, popped>>
    BY DEF PopLoad, HasNext, heap, local, history
  <1>1. next[tail] \in Nodes
    BY <1>0, SentinelNext, Indices
  <1>2. TypeOK'
    BY <1>0, <1>1 DEF TypeOK
  <1>3. First' = First /\ Last' = Last
    BY <1>0 DEF First, Last
  <1>4. ChainInv'
    BY <1>0, <1>3 DEF ChainInv
  <1>5. LinkInv'
    BY <1>0, <1>3, ZenonT(60) DEF LinkInv, Linking, Gap
  <1>6. PrivateInv'
    BY <1>0, <1>3 DEF PrivateInv, Holding
  <1>7. LiveInv'
    BY <1>0, <1>3 DEF LiveInv, Holding
  <1>8. ConsumerInv'
    BY <1>0 DEF ConsumerInv
  <1> QED
    BY <1>2, <1>4, <1>5, <1>6, <1>7, <1>8

\* Taking the value moves the sentinel one place down the chain.
LEMMA PopTakeInv == ASSUME IInv, PopTake PROVE IInv'
  <1> USE MPSCAssumption DEF IInv
  <1>0. /\ cpc \in {"take", "drain_take"} /\ tail' = cnext
        /\ popped' = Append(popped, value[cnext]) /\ live' = live \ {tail} /\ cnext' = NULL
        /\ cpc' = IF cpc = "take" THEN "idle" ELSE "drain"
        /\ UNCHANGED <<head, next, value, pc, node, prev, sent, chain, order>>
    BY DEF PopTake, TakenValue, FreedByPop, local
  <1>1. cnext = next[tail] /\ next[tail] # NULL
    BY <1>0 DEF ConsumerInv
  <1>2. /\ First \in 1 .. Len(order) /\ First + 1 \in First .. Last
        /\ cnext = chain[First + 1] /\ value[cnext] = order[First]
    BY <1>1, SentinelNext
  <1>3. value[cnext] \in Values
    <2>1. order \in Seq(Values)
      BY DEF TypeOK
    <2> QED
      BY <2>1, <1>2
  <1>4. /\ popped' \in Seq(Values) /\ Len(popped') = Len(popped) + 1
        /\ \A i \in 1 .. Len(popped) : popped'[i] = popped[i]
        /\ popped'[First] = order[First]
    BY <1>0, <1>2, <1>3 DEF TypeOK, First
  <1>5. First' = First + 1 /\ Last' = Last /\ First' \in First .. Last
    BY <1>0, <1>2, <1>4 DEF First, Last
  <1>6. TypeOK'
    BY <1>0, <1>4 DEF TypeOK
  <1>7. \A i \in First' .. Last' : i \in First .. Last /\ i # First /\ chain[i] # tail
    BY <1>5, Indices DEF ChainInv
  <1>8. ChainInv'
    <2>1. Len(popped') <= Len(order')
      BY <1>0, <1>2, <1>4, Indices, SMTT(30)
    <2>2. tail' = chain'[First'] /\ head' = chain'[Last']
      BY <1>0, <1>2, <1>5, Indices
    <2>3. \A i, j \in First' .. Last' : chain'[i] = chain'[j] => i = j
      BY <1>0, <1>7 DEF ChainInv
    <2>4. \A i \in 1 .. Len(order') : i >= First' => value'[chain'[i + 1]] = order'[i]
      BY <1>0, <1>5, Indices DEF ChainInv
    <2>5. \A i \in 1 .. Len(popped') : popped'[i] = order'[i]
      BY <1>0, <1>4, Indices DEF ChainInv
    <2> QED
      BY <2>1, <2>2, <2>3, <2>4, <2>5, <1>0, Indices DEF ChainInv
  <1>9. LinkInv'
    <2>1. \A r \in Producers : Linking(r)' <=> Linking(r)
      BY <1>0 DEF Linking
    <2>2. \A r \in Producers, i \in First .. Len(order) : Gap(r, i)' <=> Gap(r, i)
      BY <1>0 DEF Gap
    <2>3. First \in Nat /\ Len(order) \in Nat /\ Len(order') = Len(order)
      BY <1>0, Indices
    <2>4. ASSUME NEW i \in First' .. Len(order')
          PROVE  \/ next'[chain'[i]] = chain'[i + 1]
                 \/ next'[chain'[i]] = NULL /\ \E r \in Producers : Linking(r)' /\ Gap(r, i)'
      <3>1. i \in First .. Len(order)
        BY <1>5, <2>3
      <3> QED
        BY <3>1, <2>1, <2>2, <1>0 DEF LinkInv
    <2>5. ASSUME NEW r \in Producers, Linking(r)'
          PROVE  \E i \in First' .. Len(order') : Gap(r, i)' /\ next'[chain'[i]] = NULL
      <3>1. PICK i \in First .. Len(order) : Gap(r, i) /\ next[chain[i]] = NULL
        BY <2>1, <2>5 DEF LinkInv
      <3>2. i # First
        BY <3>1, <1>1, Indices
      <3>3. i \in First' .. Len(order')
        BY <3>2, <1>5, <2>3
      <3> QED
        BY <3>1, <3>3, <2>2, <1>0
    <2>6. next'[chain'[Last']] = NULL
      BY <1>0, <1>5 DEF LinkInv
    <2> QED
      BY <2>4, <2>5, <2>6 DEF LinkInv
  <1>10. PrivateInv'
    <2>1. \A r \in Producers : Holding(r) => node[r] # tail
      BY Indices, SMTT(30) DEF PrivateInv
    <2> QED
      BY <2>1, <1>0, <1>7 DEF PrivateInv, Holding
  <1>11. LiveInv'
    <2>1. \A i \in First' .. Last' : chain'[i] \in live'
      BY <1>0, <1>7 DEF LiveInv
    <2>2. ASSUME NEW n \in live'
          PROVE  \/ \E i \in First' .. Last' : n = chain'[i]
                 \/ \E r \in Producers : Holding(r)' /\ n = node'[r]
      <3>1. n \in live /\ n # tail
        BY <1>0
      <3>2. CASE \E i \in First .. Last : n = chain[i]
        <4>1. PICK i \in First .. Last : n = chain[i]
          BY <3>2
        <4>2. i \in First' .. Last'
          BY <4>1, <3>1, <1>5, Indices
        <4> QED
          BY <4>1, <4>2, <1>0
      <3>3. CASE \E r \in Producers : Holding(r) /\ n = node[r]
        BY <3>3, <1>0 DEF Holding
      <3> QED
        BY <3>1, <3>2, <3>3 DEF LiveInv
    <2>3. cpc' # "destroyed"
      BY <1>0
    <2> QED
      BY <2>1, <2>2, <2>3 DEF LiveInv
  <1>12. ConsumerInv'
    BY <1>0 DEF ConsumerInv
  <1> QED
    BY <1>6, <1>8, <1>9, <1>10, <1>11, <1>12

\* Starting the destructor only moves the consumer.
LEMMA DestroyInv == ASSUME IInv, Destroy PROVE IInv'
  <1> USE MPSCAssumption DEF IInv
  <1>0. /\ cpc = "idle" /\ cpc' = "drain" /\ \A p \in Producers : pc[p] = "idle"
        /\ UNCHANGED <<head, tail, next, value, live, pc, node, prev, sent, cnext, chain, order, popped>>
    BY DEF Destroy, heap, local, history
  <1>1. First' = First /\ Last' = Last
    BY <1>0 DEF First, Last
  <1>2. TypeOK' /\ ChainInv'
    BY <1>0, <1>1 DEF TypeOK, ChainInv
  <1>3. LinkInv'
    BY <1>0, <1>1 DEF LinkInv, Linking, Gap
  <1>4. PrivateInv' /\ LiveInv' /\ ConsumerInv'
    BY <1>0, <1>1 DEF PrivateInv, LiveInv, ConsumerInv, Holding
  <1> QED
    BY <1>2, <1>3, <1>4

\* The drain loop ends with the sentinel alone, and frees it.
LEMMA DestroySentinelInv == ASSUME IInv, DestroySentinel PROVE IInv'
  <1> USE MPSCAssumption DEF IInv
  <1>0. /\ cpc = "drain" /\ next[tail] = NULL /\ live' = live \ {tail} /\ cpc' = "destroyed"
        /\ UNCHANGED <<head, tail, next, value, pc, node, prev, sent, cnext, chain, order, popped>>
    BY DEF DestroySentinel, HasNext, local, history
  <1>1. First' = First /\ Last' = Last
    BY <1>0 DEF First, Last
  <1>2. \A p \in Producers : pc[p] = "idle"
    BY <1>0 DEF ConsumerInv
  <1>3. First = Last
    <2>1. SUFFICES ASSUME First \in First .. Len(order) PROVE FALSE
      BY Indices
    <2>2. \/ next[tail] = chain[First + 1]
          \/ \E p \in Producers : Linking(p)
      BY <2>1, Indices DEF LinkInv
    <2>3. chain[First + 1] \in Nodes
      BY <2>1, Indices
    <2> QED
      BY <2>2, <2>3, <1>0, <1>2 DEF Linking
  <1>4. TypeOK' /\ ChainInv'
    BY <1>0, <1>1 DEF TypeOK, ChainInv
  <1>5. LinkInv'
    BY <1>0, <1>1 DEF LinkInv, Linking, Gap
  <1>6. PrivateInv'
    BY <1>0, <1>1, <1>2 DEF PrivateInv, Holding
  <1>7. LiveInv'
    BY <1>0, <1>1, <1>2, <1>3, Indices DEF LiveInv, Holding
  <1>8. ConsumerInv'
    BY <1>0, <1>1, <1>2, <1>3 DEF ConsumerInv
  <1> QED
    BY <1>4, <1>5, <1>6, <1>7, <1>8

\* IInv is an invariant of the queue.
LEMMA Invariance == Spec => []IInv
  <1>1. ASSUME IInv, [Next]_vars PROVE IInv'
    <2>1. CASE \E p \in Producers : Push(p)
      BY <1>1, <2>1, PushAllocateInv, PushExchangeInv, PushLinkInv DEF Push
    <2>2. CASE Consume
      BY <1>1, <2>2, PopLoadInv, PopTakeInv DEF Consume
    <2>3. CASE Destroy \/ DestroySentinel
      BY <1>1, <2>3, DestroyInv, DestroySentinelInv
    <2>4. CASE UNCHANGED vars
      <3>1. UNCHANGED <<head, tail, next, value, live, pc, node, prev, sent, cpc, cnext, chain, order, popped>>
        BY <2>4 DEF vars, heap, local, history
      <3>2. First' = First /\ Last' = Last
        BY <3>1 DEF First, Last
      <3>3. TypeOK' /\ ChainInv'
        BY <1>1, <3>1, <3>2 DEF IInv, TypeOK, ChainInv
      <3>4. LinkInv'
        BY <1>1, <3>1, <3>2 DEF IInv, LinkInv, Linking, Gap
      <3>5. PrivateInv' /\ LiveInv' /\ ConsumerInv'
        BY <1>1, <3>1, <3>2 DEF IInv, PrivateInv, LiveInv, ConsumerInv, Holding
      <3> QED
        BY <3>3, <3>4, <3>5 DEF IInv
    <2> QED
      BY <1>1, <2>1, <2>2, <2>3, <2>4 DEF Next
  <1> QED
    BY <1>1, InitInv, PTL DEF Spec

(***************************************************************************)
(* Every variable keeps its type (mpsc_queue.h:32-54).                     *)
(***************************************************************************)
THEOREM TypeCorrect == Spec => []TypeOK
  BY Invariance, PTL DEF IInv

(***************************************************************************)
(* No producer links into, and the consumer never reads, a deleted node.   *)
(***************************************************************************)
THEOREM MemorySafety == Spec => []NoUseAfterFree
  <1>1. IInv => NoUseAfterFree
    <2> SUFFICES ASSUME IInv PROVE NoUseAfterFree
      OBVIOUS
    <2>1. ASSUME NEW p \in Producers, pc[p] = "link" PROVE prev[p] \in live
      <3>1. cpc # "destroyed"
        BY <2>1 DEF IInv, ConsumerInv
      <3>2. PICK i \in First .. Len(order) : prev[p] = chain[i]
        BY <2>1 DEF IInv, LinkInv, Linking, Gap
      <3>3. i \in First .. Last
        BY Indices
      <3> QED
        BY <3>1, <3>2, <3>3 DEF IInv, LiveInv
    <2>2. ASSUME cpc \in {"take", "drain_take"} PROVE cnext \in live
      <3>1. cnext = next[tail] /\ next[tail] # NULL /\ cpc # "destroyed"
        BY <2>2 DEF IInv, ConsumerInv
      <3> QED
        BY <3>1, SentinelNext DEF IInv, LiveInv
    <2>3. cpc # "destroyed" => tail \in live /\ head \in live
      BY Indices DEF IInv, LiveInv
    <2> QED
      BY <2>1, <2>2, <2>3 DEF NoUseAfterFree
  <1> QED
    BY <1>1, Invariance, PTL

(***************************************************************************)
(* pop() returns the values in exchange order, none skipped or repeated.   *)
(***************************************************************************)
THEOREM PopsInOrder == Spec => []FIFO
  <1>1. IInv => FIFO
    BY DEF IInv, ChainInv, FIFO
  <1> QED
    BY <1>1, Invariance, PTL

(***************************************************************************)
(* ~MPSCQueue() leaves no node allocated.                                  *)
(***************************************************************************)
THEOREM DestructorFreesAll == Spec => []NoLeak
  <1>1. IInv => NoLeak
    BY DEF IInv, LiveInv, ConsumerInv, NoLeak, Holding
  <1> QED
    BY <1>1, Invariance, PTL

-----------------------------------------------------------------------------
(***************************************************************************)
(* The values of a queue are distinct: a producer numbers its pushes.      *)
(***************************************************************************)
OrderInv ==
  /\ \A i, j \in 1 .. Len(order) : order[i] = order[j] => i = j
  /\ \A i \in 1 .. Len(order), p \in Producers, k \in 1 .. MaxPushes :
       order[i] = <<p, k>> => k <= sent[p] /\ (Holding(p) => k < sent[p])

\* OrderInv is an invariant.
LEMMA OrderInvariance == Spec => []OrderInv
  <1>1. Init => OrderInv
    BY DEF Init, OrderInv
  <1>2. ASSUME IInv, OrderInv, [Next]_vars PROVE OrderInv'
    <2> USE MPSCAssumption DEF IInv
    <2>1. ASSUME NEW p \in Producers, PushAllocate(p) PROVE OrderInv'
      <3>1. /\ pc[p] = "idle" /\ sent' = [sent EXCEPT ![p] = @ + 1]
            /\ pc' = [pc EXCEPT ![p] = "exchange"] /\ order' = order
        BY <2>1 DEF PushAllocate, history
      <3>2. \A r \in Producers : /\ sent[r] \in Nat /\ sent'[r] = (IF r = p THEN sent[r] + 1 ELSE sent[r])
                                  /\ (Holding(r)' => r = p \/ Holding(r))
        BY <1>2, <3>1 DEF TypeOK, Holding
      <3> QED
        BY <1>2, <3>1, <3>2 DEF OrderInv
    <2>2. ASSUME NEW p \in Producers, PushExchange(p) PROVE OrderInv'
      <3>1. /\ pc[p] = "exchange" /\ sent' = sent
            /\ pc' = [pc EXCEPT ![p] = "link"]
            /\ order' = Append(order, value[node[p]])
        BY <2>2 DEF PushExchange
      <3>2. Holding(p) /\ value[node[p]] = <<p, sent[p]>> /\ sent[p] \in 1 .. MaxPushes
        BY <1>2, <3>1 DEF PrivateInv, Holding
      <3>3. \A r \in Producers : Holding(r)' => r # p /\ Holding(r)
        BY <1>2, <3>1 DEF TypeOK, Holding
      <3>4. <<p, sent[p]>> \in Values /\ order \in Seq(Values) /\ Len(order) \in Nat
        BY <1>2, <3>2 DEF TypeOK, Values
      <3>5. /\ Len(order') = Len(order) + 1 /\ order'[Len(order) + 1] = <<p, sent[p]>>
            /\ \A i \in 1 .. Len(order) : order'[i] = order[i]
        BY <3>1, <3>2, <3>4
      <3>6. \A i \in 1 .. Len(order) : order[i] # <<p, sent[p]>>
        BY <1>2, <3>2 DEF OrderInv
      <3>7. \A i, j \in 1 .. Len(order') : order'[i] = order'[j] => i = j
        BY <1>2, <3>4, <3>5, <3>6 DEF OrderInv
      <3>8. ASSUME NEW i \in 1 .. Len(order'), NEW r \in Producers, NEW k \in 1 .. MaxPushes,
                   order'[i] = <<r, k>>
            PROVE  k <= sent'[r] /\ (Holding(r)' => k < sent'[r])
        <4>1. CASE i \in 1 .. Len(order)
          BY <4>1, <1>2, <3>1, <3>3, <3>5, <3>8 DEF OrderInv
        <4>2. CASE i = Len(order) + 1
          BY <4>2, <3>1, <3>2, <3>3, <3>5, <3>8
        <4> QED
          BY <4>1, <4>2, <3>4, <3>5
      <3> QED
        BY <3>7, <3>8 DEF OrderInv
    <2>3. ASSUME NEW p \in Producers, PushLink(p) PROVE OrderInv'
      <3>1. order' = order /\ sent' = sent /\ pc' = [pc EXCEPT ![p] = "idle"]
        BY <2>3 DEF PushLink
      <3>2. \A r \in Producers : Holding(r)' => Holding(r)
        BY <1>2, <3>1 DEF TypeOK, Holding
      <3> QED
        BY <1>2, <3>1, <3>2 DEF OrderInv
    <2>4. ASSUME UNCHANGED <<order, sent, pc>> PROVE OrderInv'
      BY <1>2, <2>4 DEF OrderInv, Holding
    <2>5. Consume \/ Destroy \/ DestroySentinel \/ UNCHANGED vars => UNCHANGED <<order, sent, pc>>
      BY DEF Consume, PopLoad, PopTake, Destroy, DestroySentinel, vars, local, history
    <2> QED
      BY <1>2, <2>1, <2>2, <2>3, <2>4, <2>5 DEF Next, Push
  <1> QED
    BY <1>1, <1>2, Invariance, PTL DEF Spec

(***************************************************************************)
(* pop() answers nullopt on a queue that is not empty only while the push  *)
(* of the oldest value is between its exchange and its link.               *)
(***************************************************************************)
THEOREM HiddenOnlyByPending == Spec => []OnlyPendingHides
  <1>1. IInv => OnlyPendingHides
    <2> SUFFICES ASSUME IInv, cpc = "idle", next[tail] = NULL, Unpopped # <<>>
                 PROVE  Head(Unpopped) \in Pending
      BY DEF OnlyPendingHides
    <2>1. order \in Seq(Values) /\ First \in Nat /\ Len(order) \in Nat /\ First >= 1 /\ First = Len(popped) + 1
      BY Indices DEF IInv, TypeOK
    <2>2. First \in First .. Len(order) /\ Head(Unpopped) = order[First]
      BY <2>1 DEF Unpopped
    <2>3. chain[First + 1] \in Nodes
      BY <2>2, Indices
    <2>4. PICK p \in Producers : Linking(p) /\ Gap(p, First)
      BY <2>2, <2>3, Indices, MPSCAssumption DEF IInv, LinkInv
    <2> QED
      BY <2>2, <2>4 DEF Linking, Gap, Pending
  <1> QED
    BY <1>1, Invariance, PTL

LEMMA SameSequence ==
  ASSUME NEW S, NEW u \in Seq(S), NEW v \in Seq(S),
         Len(u) = Len(v), \A i \in 1 .. Len(u) : u[i] = v[i]
  PROVE  u = v
OBVIOUS

\* A suffix of a sequence grows with it.
LEMMA SubSeqAppend ==
  ASSUME NEW S, NEW s \in Seq(S), NEW e \in S, NEW m \in 1 .. Len(s) + 1
  PROVE  SubSeq(Append(s, e), m, Len(s) + 1) = Append(SubSeq(s, m, Len(s)), e)
  <1> DEFINE t == Append(s, e)
             l == SubSeq(t, m, Len(s) + 1)
             r == SubSeq(s, m, Len(s))
  <1>1. /\ t \in Seq(S) /\ Len(t) = Len(s) + 1 /\ t[Len(s) + 1] = e
        /\ \A i \in 1 .. Len(s) : t[i] = s[i]
    OBVIOUS
  <1>2. Len(s) \in Nat /\ m \in Int
    OBVIOUS
  <1>3. /\ r \in Seq(S) /\ Len(r) = Len(s) - m + 1
        /\ \A i \in 1 .. Len(s) - m + 1 : r[i] = s[m + i - 1]
    <2>1. \A i \in m .. Len(s) : s[i] \in S
      BY <1>2
    <2> QED
      BY <1>2, <2>1
  <1>4. /\ l \in Seq(S) /\ Len(l) = Len(s) - m + 2
        /\ \A i \in 1 .. Len(s) - m + 2 : l[i] = t[m + i - 1]
    <2>1. \A i \in m .. Len(s) + 1 : t[i] \in S
      BY <1>1, <1>2
    <2> QED
      BY <1>2, <2>1
  <1>5. /\ Append(r, e) \in Seq(S) /\ Len(Append(r, e)) = Len(s) - m + 2
        /\ \A i \in 1 .. Len(s) - m + 1 : Append(r, e)[i] = r[i]
        /\ Append(r, e)[Len(s) - m + 2] = e
    <2>1. /\ Append(r, e) \in Seq(S) /\ Len(Append(r, e)) = Len(r) + 1
          /\ \A i \in 1 .. Len(r) : Append(r, e)[i] = r[i]
          /\ Append(r, e)[Len(r) + 1] = e
      BY <1>3
    <2>2. Len(r) = Len(s) - m + 1 /\ Len(r) + 1 = Len(s) - m + 2
      BY <1>2, <1>3
    <2> HIDE DEF r
    <2> QED
      BY <2>1, <2>2
  <1> HIDE DEF t, l, r
  <1>6. ASSUME NEW i \in 1 .. Len(l) PROVE l[i] = Append(r, e)[i]
    <2>1. i \in 1 .. Len(s) - m + 2 /\ l[i] = t[m + i - 1]
      BY <1>4
    <2>2. CASE i = Len(s) - m + 2
      <3>1. m + i - 1 = Len(s) + 1
        BY <2>2, <1>2
      <3> QED
        BY <3>1, <2>1, <2>2, <1>1, <1>5
    <2>3. CASE i \in 1 .. Len(s) - m + 1
      <3>1. m + i - 1 \in 1 .. Len(s)
        BY <2>3, <1>2
      <3> QED
        BY <3>1, <2>1, <2>3, <1>1, <1>3, <1>5
    <2>4. i = Len(s) - m + 2 \/ i \in 1 .. Len(s) - m + 1
      <3> DEFINE k == Len(s) - m + 2
      <3>1. k \in Int /\ i \in 1 .. k /\ Len(s) - m + 1 = k - 1
        BY <2>1, <1>2
      <3> HIDE DEF k
      <3>2. i = k \/ i \in 1 .. k - 1
        BY <3>1
      <3> QED
        BY <3>1, <3>2 DEF k
    <2> QED
      BY <2>2, <2>3, <2>4
  <1>7. l = Append(r, e)
    <2> DEFINE v == Append(r, e)
    <2>1. v \in Seq(S) /\ l \in Seq(S) /\ Len(l) = Len(v)
      BY <1>4, <1>5
    <2>2. \A i \in 1 .. Len(l) : l[i] = v[i]
      BY <1>6
    <2> HIDE DEF v
    <2>3. l = v
      BY ONLY <2>1, <2>2, SameSequence
    <2> QED
      BY <2>3 DEF v
  <1> QED
    BY <1>7 DEF t, l, r

(***************************************************************************)
(* Every step of the queue is a step of AbstractMPSC or leaves it alone:   *)
(* the exchange enqueues, the link publishes, PopTake dequeues.            *)
(***************************************************************************)
THEOREM Refinement == Spec => Abstract!ASafety
  <1>1. Init => Abstract!AInit
    <2> SUFFICES ASSUME Init PROVE Abstract!AInit
      OBVIOUS
    <2>1. Unpopped = <<>>
      BY DEF Init, Unpopped
    <2>2. Pending = {}
      BY DEF Init, Pending
    <2> QED
      BY <2>1, <2>2 DEF Init, Abstract!AInit
  <1>2. ASSUME IInv, OrderInv, [Next]_vars PROVE [Abstract!ANext]_(Abstract!avars)
    <2> USE DEF IInv
    <2>0. /\ order \in Seq(Values) /\ Len(order) \in Nat /\ Len(popped) \in Nat
          /\ Len(popped) <= Len(order)
      BY <1>2, Indices DEF ChainInv, TypeOK
    <2>1. ASSUME NEW p \in Producers, PushAllocate(p) PROVE UNCHANGED Abstract!avars
      <3>1. /\ order' = order /\ popped' = popped /\ pc[p] = "idle"
            /\ pc' = [pc EXCEPT ![p] = "exchange"] /\ sent' = [sent EXCEPT ![p] = @ + 1]
        BY <2>1 DEF PushAllocate, history
      <3>2. \A r \in Producers : pc'[r] = "link" <=> pc[r] = "link"
        BY <1>2, <3>1 DEF TypeOK
      <3>2a. \A r \in Producers : pc[r] = "link" => sent'[r] = sent[r]
        BY <1>2, <3>1 DEF TypeOK
      <3>3. Pending' = Pending
        <4>1. \A x : x \in Pending' <=> \E r \in Producers : pc[r] = "link" /\ x = <<r, sent'[r]>>
          BY <3>2 DEF Pending
        <4>2. \A x : x \in Pending <=> \E r \in Producers : pc[r] = "link" /\ x = <<r, sent[r]>>
          BY DEF Pending
        <4>3. \A x : x \in Pending' <=> x \in Pending
          BY <4>1, <4>2, <3>2a
        <4> QED
          BY <4>3
      <3> QED
        BY <3>1, <3>3 DEF Abstract!avars, Unpopped
    <2>2. ASSUME NEW p \in Producers, PushExchange(p) PROVE Abstract!ANext
      <3>1. /\ pc[p] = "exchange" /\ sent' = sent /\ popped' = popped
            /\ pc' = [pc EXCEPT ![p] = "link"]
            /\ order' = Append(order, value[node[p]])
        BY <2>2 DEF PushExchange
      <3>2. value[node[p]] = <<p, sent[p]>> /\ sent[p] \in 1 .. MaxPushes
        BY <1>2, <3>1 DEF PrivateInv, Holding
      <3>3. <<p, sent[p]>> \in Values
        BY <3>2 DEF Values
      <3>4. Unpopped' = Append(Unpopped, <<p, sent[p]>>)
        <4>1. order' = Append(order, <<p, sent[p]>>)
          BY <3>1, <3>2
        <4>2. Len(order') = Len(order) + 1
          BY <4>1, <3>3, <2>0
        <4>3. Len(popped) + 1 \in 1 .. Len(order) + 1
          BY <2>0
        <4> QED
          BY <4>1, <4>2, <4>3, <3>1, <3>3, <2>0, SubSeqAppend DEF Unpopped
      <3>5. \A r \in Producers : pc'[r] = "link" <=> (r = p \/ pc[r] = "link")
        BY <1>2, <3>1 DEF TypeOK
      <3>6. Pending' = Pending \cup {<<p, sent[p]>>}
        BY <3>1, <3>5 DEF Pending
      <3>7. Abstract!Enqueue(<<p, sent[p]>>)
        BY <3>1, <3>4, <3>6 DEF Abstract!Enqueue
      <3> QED
        BY <3>3, <3>7 DEF Abstract!ANext
    <2>3. ASSUME NEW p \in Producers, PushLink(p) PROVE Abstract!ANext
      <3>1. /\ pc[p] = "link" /\ sent' = sent /\ popped' = popped /\ order' = order
            /\ pc' = [pc EXCEPT ![p] = "idle"]
        BY <2>3 DEF PushLink
      <3>2. PICK i \in First .. Len(order) : order[i] = <<p, sent[p]>>
        BY <1>2, <3>1 DEF LinkInv, Linking, Gap
      <3>3. <<p, sent[p]>> \in Values
        BY <1>2, <2>0, <3>2, Indices
      <3>4. \A r \in Producers : pc'[r] = "link" <=> (r # p /\ pc[r] = "link")
        BY <1>2, <3>1 DEF TypeOK
      <3>5. Pending' = Pending \ {<<p, sent[p]>>} /\ <<p, sent[p]>> \in Pending
        BY <3>1, <3>4 DEF Pending
      <3>6. Abstract!Publish(<<p, sent[p]>>)
        BY <3>1, <3>5 DEF Abstract!Publish, Unpopped
      <3> QED
        BY <3>3, <3>6 DEF Abstract!ANext
    <2>4. ASSUME PopTake PROVE Abstract!ANext
      <3>1. /\ order' = order /\ popped' = Append(popped, value[cnext])
            /\ cpc \in {"take", "drain_take"} /\ pc' = pc /\ sent' = sent
        BY <2>4 DEF PopTake, TakenValue, local
      <3>2. cnext = next[tail] /\ next[tail] # NULL
        BY <1>2, <3>1 DEF ConsumerInv
      <3>3. /\ First \in 1 .. Len(order) /\ value[cnext] = order[First] /\ First = Len(popped) + 1
        BY <1>2, <3>2, SentinelNext, Indices
      <3>4. order[First] \in Values /\ popped \in Seq(Values)
        BY <1>2, <2>0, <3>3 DEF TypeOK
      <3>5. Len(popped') = Len(popped) + 1
        BY <3>1, <3>3, <3>4
      <3>6. /\ Unpopped # <<>> /\ Head(Unpopped) = order[First] /\ Unpopped' = Tail(Unpopped)
        <4> HIDE DEF IInv
        <4> QED
          BY <2>0, <3>1, <3>3, <3>5, SMTT(30) DEF Unpopped
      <3>7. order[First] \notin Pending
        <4>1. SUFFICES ASSUME NEW r \in Producers, pc[r] = "link", order[First] = <<r, sent[r]>>
                       PROVE  FALSE
          BY DEF Pending
        <4>2. PICK i \in First .. Len(order) : order[i] = <<r, sent[r]>> /\ next[chain[i]] = NULL
          BY <1>2, <4>1 DEF LinkInv, Linking, Gap
        <4>3. i = First
          BY <1>2, <4>1, <4>2, <3>3, <2>0 DEF OrderInv
        <4> QED
          BY <1>2, <4>2, <4>3, <3>2, Indices
      <3>8. Pending' = Pending
        BY <3>1 DEF Pending
      <3>9. Abstract!Dequeue
        BY <3>1, <3>3, <3>6, <3>7, <3>8 DEF Abstract!Dequeue
      <3> QED
        BY <3>9 DEF Abstract!ANext
    <2>5. ASSUME UNCHANGED <<order, popped, pc, sent>> PROVE UNCHANGED Abstract!avars
      BY <2>5 DEF Abstract!avars, Unpopped, Pending
    <2>6. PopLoad \/ Destroy \/ DestroySentinel \/ UNCHANGED vars => UNCHANGED <<order, popped, pc, sent>>
      BY DEF PopLoad, Destroy, DestroySentinel, vars, local, history
    <2> QED
      BY <1>2, <2>1, <2>2, <2>3, <2>4, <2>5, <2>6 DEF Next, Push, Consume
  <1> QED
    BY <1>1, <1>2, Invariance, OrderInvariance, PTL DEF Spec, Abstract!ASafety

-----------------------------------------------------------------------------
(***************************************************************************)
(* What a history keeps (RecentKept) and which tool messages it may leave  *)
(* without their call (OrphansOldest), for every capacity, any number of   *)
(* calls per answer and any number of pushes.                              *)
(*                                                                         *)
(* RecentKept says what the history is for a given log.  It is inductive   *)
(* once it is known that only the first message of a log is a system       *)
(* message: eviction preserves whatever system message comes to the front. *)
(* OrphansOldest follows from it, since the log has its tool messages      *)
(* right behind the answer that asked for them (Rounds).                   *)
(*                                                                         *)
(* The same for the conversation that summarizes (NothingLost and          *)
(* RecentVerbatim), for every threshold and every number kept: SummaryInv  *)
(* is the inductive invariant, and push() of a rebuilt history is followed *)
(* through Rebuild by induction on the messages pushed back.               *)
(***************************************************************************)

\* Only the first message may be a system message, and there is one before
\* the prompt only.
SystemFirst ==
  /\ \A i \in 1 .. Len(log) : IsSystem(log[i]) => i = 1
  /\ turn = "start" => log = <<>>
  /\ turn = "prompt" => Len(log) = 1

\* A tool message comes after its answer and after nothing but results of
\* the same answer; run() pushes results right behind the last answer.
Rounds ==
  /\ \A i \in 1 .. Len(log) :
       /\ log[i].ids = {i}
       /\ log[i].role = "tool" =>
            /\ log[i].call \in 1 .. i - 1
            /\ \A j \in log[i].call + 1 .. i : log[j].call = log[i].call
  /\ turn = "tools" =>
       /\ calls_left > 0
       /\ answer \in 1 .. Len(log)
       /\ \A j \in answer + 1 .. Len(log) : log[j].call = answer

HistoryInv == HistoryTypes /\ RecentKept /\ SystemFirst /\ Rounds

LEMMA InitHistoryInv == HistoryInit => HistoryInv
  BY CapacityAssumption DEF HistoryInit, HistoryInv, HistoryTypes, RecentKept, Fitting, SystemFirst, Rounds, Heads, HasSystem, Message

\* What push() does to the history of a log.
LEMMA PushKeepsRecent ==
  ASSUME HistoryTypes, RecentKept, SystemFirst,
         NEW m \in Message, IsSystem(m) => log = <<>>,
         messages' = push(messages, max_messages, m),
         log' = Append(log, m), max_messages' = max_messages
  PROVE  messages' \in Seq(Message) /\ log' \in Seq(Message) /\ RecentKept'
<1> DEFINE app == Append(messages, m)
<1>1. /\ max_messages \in Nat /\ max_messages > 0
      /\ messages \in Seq(Message) /\ log \in Seq(Message)
  BY CapacityAssumption DEF HistoryTypes
<1>2. /\ app \in Seq(Message) /\ Len(app) = Len(messages) + 1
      /\ \A i \in 1 .. Len(messages) : app[i] = messages[i]
      /\ app[Len(app)] = m
  BY <1>1
<1>b. Len(messages) \in Nat /\ Len(log) \in Nat
  BY <1>1
<1>a. Append(messages, m) = app
  OBVIOUS
<1> HIDE DEF app
<1>3. /\ log' \in Seq(Message) /\ Len(log') = Len(log) + 1
      /\ \A i \in 1 .. Len(log) : log'[i] = log[i]
      /\ log'[Len(log')] = m
  BY <1>1
<1>4. Heads' = IF log = <<>> /\ IsSystem(m) THEN 1 ELSE Heads
  BY <1>1, <1>3 DEF Heads, HasSystem
<1>5. CASE Len(messages) < max_messages
  <2>1. messages' = app
    BY <1>1, <1>2, <1>a, <1>5 DEF push, evict_if_needed
  <2>2. Len(messages) = Len(log)
    BY <1>1, <1>5 DEF RecentKept, Fitting
  <2>3. \A i \in 1 .. Len(messages) : messages[i] = log[i]
    BY <1>1, <2>2 DEF RecentKept, Heads
  <2>4. Len(messages') = Fitting'
    BY <1>1, <1>b, <1>2, <1>3, <1>5, <2>1, <2>2 DEF Fitting
  <2>5. \A i \in 1 .. Len(messages') : messages'[i] = log'[i] /\ Len(log') - Len(messages') + i = i
    BY <1>b, <1>2, <1>3, <2>1, <2>2, <2>3
  <2> QED
    BY <1>2, <1>3, <2>1, <2>4, <2>5 DEF RecentKept
<1>6. CASE Len(messages) >= max_messages
  <2>1. Len(messages) = max_messages /\ Len(log) >= max_messages /\ log # <<>>
    BY <1>1, <1>6 DEF RecentKept, Fitting
  <2>2. Heads' = Heads /\ ~IsSystem(m) /\ Heads \in {0, 1}
    BY <1>4, <2>1 DEF Heads
  <2>3. CASE HasSystem
    <3>1. IsSystem(app[1]) /\ Len(app) > 1 /\ Heads = 1 /\ app[1] = log[1]
      BY <1>1, <1>2, <2>1, <2>3 DEF RecentKept, Heads, HasSystem
    <3>2. messages' = <<app[1]>> \o SubSeq(app, 3, Len(app))
      BY <1>1, <1>2, <1>a, <2>1, <3>1 DEF push, evict_if_needed, EraseSecond
    <3>3. /\ messages' \in Seq(Message) /\ Len(messages') = Len(messages)
          /\ messages'[1] = log[1]
          /\ \A i \in 2 .. Len(messages) : messages'[i] = app[i + 1]
      BY <1>1, <1>2, <2>1, <3>1, <3>2
    <3>4. \A i \in 2 .. Len(messages) : app[i + 1] = log'[Len(log) + 1 - Len(messages) + i]
      <4> SUFFICES ASSUME NEW i \in 2 .. Len(messages)
                   PROVE  app[i + 1] = log'[Len(log) + 1 - Len(messages) + i]
        OBVIOUS
      <4>1. CASE i = Len(messages)
        BY <1>1, <1>2, <1>3, <4>1
      <4>2. CASE i < Len(messages)
        <5>1. i + 1 \in 1 .. Len(messages) /\ ~(i + 1 <= Heads)
          BY <1>1, <3>1, <4>2
        <5>2. messages[i + 1] = log[Len(log) - Len(messages) + (i + 1)]
          BY <5>1 DEF RecentKept
        <5>3. /\ Len(log) - Len(messages) + (i + 1) = Len(log) + 1 - Len(messages) + i
              /\ Len(log) + 1 - Len(messages) + i \in 1 .. Len(log)
          BY <1>1, <2>1, <4>2
        <5> QED BY <1>2, <1>3, <5>1, <5>2, <5>3
      <4>3. i = Len(messages) \/ i < Len(messages)
        BY <1>b
      <4> QED BY <4>1, <4>2, <4>3
    <3>5. Len(messages') = Fitting'
      BY <1>1, <1>3, <2>1, <3>3 DEF Fitting
    <3>6. ASSUME NEW i \in 1 .. Len(messages')
          PROVE  messages'[i] = IF i <= Heads' THEN log'[i] ELSE log'[Len(log') - Len(messages') + i]
      <4>1. CASE i <= Heads'
        BY <1>1, <1>3, <2>1, <2>2, <3>1, <3>3, <4>1
      <4>2. CASE ~(i <= Heads')
        <5>1. i \in 2 .. Len(messages)
          BY <1>b, <2>2, <3>1, <3>3, <4>2
        <5>2. Len(log') - Len(messages') + i = Len(log) + 1 - Len(messages) + i
          BY <1>b, <1>3, <3>3
        <5> QED BY <3>3, <3>4, <4>2, <5>1, <5>2
      <4> QED BY <4>1, <4>2
    <3> QED
      BY <1>3, <3>3, <3>5, <3>6 DEF RecentKept
  <2>4. CASE ~HasSystem
    <3>1. Heads = 0 /\ ~IsSystem(app[1])
      <4>1. Heads = 0
        BY <2>4 DEF Heads
      <4>2. app[1] = log[Len(log) - Len(messages) + 1]
        BY <1>1, <1>2, <2>1, <4>1 DEF RecentKept
      <4>3. Len(log) - Len(messages) + 1 \in 1 .. Len(log)
        BY <1>1, <2>1
      <4> QED BY <2>1, <2>4, <4>1, <4>2, <4>3 DEF HasSystem, SystemFirst
    <3>2. messages' = Tail(app)
      BY <1>1, <1>2, <1>a, <2>1, <3>1 DEF push, evict_if_needed
    <3>3. /\ messages' \in Seq(Message) /\ Len(messages') = Len(messages)
          /\ \A i \in 1 .. Len(messages) : messages'[i] = app[i + 1]
      BY <1>1, <1>2, <2>1, <3>2
    <3>4. \A i \in 1 .. Len(messages) : app[i + 1] = log'[Len(log) + 1 - Len(messages) + i]
      <4> SUFFICES ASSUME NEW i \in 1 .. Len(messages)
                   PROVE  app[i + 1] = log'[Len(log) + 1 - Len(messages) + i]
        OBVIOUS
      <4>1. CASE i = Len(messages)
        BY <1>1, <1>2, <1>3, <4>1
      <4>2. CASE i < Len(messages)
        <5>1. i + 1 \in 1 .. Len(messages) /\ ~(i + 1 <= Heads)
          BY <1>1, <3>1, <4>2
        <5>2. messages[i + 1] = log[Len(log) - Len(messages) + (i + 1)]
          BY <5>1 DEF RecentKept
        <5>3. /\ Len(log) - Len(messages) + (i + 1) = Len(log) + 1 - Len(messages) + i
              /\ Len(log) + 1 - Len(messages) + i \in 1 .. Len(log)
          BY <1>1, <2>1, <4>2
        <5> QED BY <1>2, <1>3, <5>1, <5>2, <5>3
      <4>3. i = Len(messages) \/ i < Len(messages)
        BY <1>b
      <4> QED BY <4>1, <4>2, <4>3
    <3>5. Len(messages') = Fitting'
      BY <1>1, <1>3, <2>1, <3>3 DEF Fitting
    <3>6. ASSUME NEW i \in 1 .. Len(messages')
          PROVE  messages'[i] = IF i <= Heads' THEN log'[i] ELSE log'[Len(log') - Len(messages') + i]
      <4>1. CASE i <= Heads'
        BY <1>1, <1>3, <2>1, <2>2, <3>1, <3>3, <4>1
      <4>2. CASE ~(i <= Heads')
        <5>1. i \in 1 .. Len(messages)
          BY <3>3
        <5>2. Len(log') - Len(messages') + i = Len(log) + 1 - Len(messages) + i
          BY <1>b, <1>3, <3>3
        <5> QED BY <1>b, <3>3, <3>4, <4>2, <5>1, <5>2
      <4> QED BY <4>1, <4>2
    <3> QED
      BY <1>3, <3>3, <3>5, <3>6 DEF RecentKept
  <2> QED BY <2>3, <2>4
<1> QED BY <1>1, <1>5, <1>6

LEMMA NextHistoryInv == HistoryInv /\ [HistoryNext]_history_vars => HistoryInv'
<1> SUFFICES ASSUME HistoryInv, [HistoryNext]_history_vars
             PROVE  HistoryInv'
  OBVIOUS
<1>1. /\ HistoryTypes /\ RecentKept /\ SystemFirst /\ Rounds
      /\ log \in Seq(Message) /\ Len(log) \in Nat
  BY DEF HistoryInv, HistoryTypes
\* Every push is one of these.
<1>2. ASSUME NEW role \in {"system", "user", "assistant", "tool"}, NEW call \in Nat,
             NEW to \in {"prompt", "llm", "tools", "ended"},
             PushMessage(to, NewMessage(role, call)),
             role = "system" => log = <<>>,
             to = "prompt" => log = <<>>,
             role = "tool" => turn = "tools" /\ call = answer /\ answer' = answer,
             to = "tools" => role = "tool" \/ answer' = Len(log) + 1,
             to = "tools" => calls_left' > 0,
             answer' \in Nat, calls_left' \in Nat
      PROVE  HistoryInv'
  <2> DEFINE m == NewMessage(role, call)
  <2>1. m \in Message /\ m.role = role /\ m.call = call /\ m.ids = {Len(log) + 1}
    BY <1>1 DEF NewMessage, Message
  <2>2. messages' \in Seq(Message) /\ log' \in Seq(Message) /\ RecentKept'
    BY <1>1, <1>2, <2>1, PushKeepsRecent DEF PushMessage, IsSystem
  <2>3. /\ Len(log') = Len(log) + 1 /\ turn' = to
        /\ \A i \in 1 .. Len(log) : log'[i] = log[i]
        /\ log'[Len(log) + 1] = m
    BY <1>1, <1>2, <2>1 DEF PushMessage
  <2> HIDE DEF m
  <2>4. HistoryTypes'
    BY <1>1, <1>2, <2>2 DEF HistoryTypes, PushMessage
  <2>5. \A i \in 1 .. Len(log') : i \in 1 .. Len(log) \/ i = Len(log) + 1
    BY <1>1, <2>3
  <2>6. SystemFirst'
    <3>1. ASSUME NEW i \in 1 .. Len(log'), IsSystem(log'[i])
          PROVE  i = 1
      <4>1. CASE i \in 1 .. Len(log)
        BY <1>1, <2>3, <3>1, <4>1 DEF SystemFirst
      <4>2. CASE i = Len(log) + 1
        BY <1>1, <1>2, <2>1, <2>3, <3>1, <4>2 DEF IsSystem
      <4> QED BY <2>5, <4>1, <4>2
    <3>2. to = "prompt" => Len(log') = 1
      BY <1>1, <1>2, <2>3
    <3> QED BY <1>2, <2>3, <3>1, <3>2 DEF SystemFirst
  <2>7. role = "tool" =>
          /\ call \in 1 .. Len(log)
          /\ \A j \in call + 1 .. Len(log) + 1 : log'[j].call = call
    <3> SUFFICES ASSUME role = "tool"
                 PROVE  /\ call \in 1 .. Len(log)
                        /\ \A j \in call + 1 .. Len(log) + 1 : log'[j].call = call
      OBVIOUS
    <3>1. /\ call \in 1 .. Len(log)
          /\ \A j \in call + 1 .. Len(log) : log[j].call = call
      BY <1>1, <1>2 DEF Rounds
    <3> QED BY <1>1, <2>1, <2>3, <3>1
  <2>8. ASSUME NEW i \in 1 .. Len(log')
        PROVE  /\ log'[i].ids = {i}
               /\ log'[i].role = "tool" =>
                    /\ log'[i].call \in 1 .. i - 1
                    /\ \A j \in log'[i].call + 1 .. i : log'[j].call = log'[i].call
    <3>1. CASE i \in 1 .. Len(log)
      <4>1. /\ log[i].ids = {i}
            /\ log[i].role = "tool" =>
                 /\ log[i].call \in 1 .. i - 1
                 /\ \A j \in log[i].call + 1 .. i : log[j].call = log[i].call
        BY <1>1, <3>1 DEF Rounds
      <4> QED BY <1>1, <2>3, <3>1, <4>1
    <3>2. CASE i = Len(log) + 1
      BY <1>1, <2>1, <2>3, <2>7, <3>2
    <3> QED BY <2>5, <3>1, <3>2
  <2>9. ASSUME to = "tools"
        PROVE  /\ answer' \in 1 .. Len(log')
               /\ \A j \in answer' + 1 .. Len(log') : log'[j].call = answer'
    BY <1>1, <1>2, <2>3, <2>7, <2>9
  <2>10. Rounds'
    BY <1>2, <2>3, <2>8, <2>9 DEF Rounds
  <2> QED BY <2>2, <2>4, <2>6, <2>10 DEF HistoryInv
<1>3. CASE PushSystem
  BY <1>1, <1>2, <1>3 DEF PushSystem, SystemFirst, HistoryTypes
<1>4. CASE PushPrompt
  BY <1>1, <1>2, <1>4 DEF PushPrompt, HistoryTypes
<1>5. ASSUME NEW n \in 0 .. MaxCalls, PushAnswer(n)
      PROVE  HistoryInv'
  <2>1. answer' \in Nat /\ calls_left' \in Nat /\ n \in Nat
    BY <1>1, <1>5, CapacityAssumption DEF PushAnswer
  <2> QED BY <1>2, <1>5, <2>1 DEF PushAnswer
<1>6. CASE PushTool
  <2>1. answer' \in Nat /\ calls_left' \in Nat /\ (calls_left # 1 => calls_left' > 0)
    BY <1>1, <1>6 DEF PushTool, HistoryTypes, Rounds
  <2> QED BY <1>1, <1>2, <1>6, <2>1 DEF PushTool, HistoryTypes
<1>7. CASE EndRun
  BY <1>1, <1>7 DEF EndRun, HistoryInv, HistoryTypes, RecentKept, Fitting, Heads, HasSystem, SystemFirst, Rounds
<1>8. CASE Clear
  BY <1>1, <1>8, CapacityAssumption
     DEF Clear, HistoryInv, HistoryTypes, RecentKept, Fitting, Heads, HasSystem, SystemFirst, Rounds, Message
<1>9. CASE UNCHANGED history_vars
  BY <1>1, <1>9 DEF history_vars, HistoryInv, HistoryTypes, RecentKept, Fitting, Heads, HasSystem, SystemFirst, Rounds
<1> QED
  BY <1>3, <1>4, <1>5, <1>6, <1>7, <1>8, <1>9 DEF HistoryNext

(***************************************************************************)
(* A history of any capacity holds the system message and the last         *)
(* messages pushed, none missing in between (conversation.h).              *)
(***************************************************************************)
THEOREM KeepsRecent == HistorySpec => []RecentKept
<1>1. HistoryInv => RecentKept
  BY DEF HistoryInv
<1> QED BY InitHistoryInv, NextHistoryInv, <1>1, PTL DEF HistorySpec

\* A message that is not the system message comes from the end of the log,
\* and what lies between two such messages in the log is in the history.
LEMMA WindowOfLog ==
  ASSUME HistoryInv, NEW i \in 1 .. Len(messages), ~(i <= Heads)
  PROVE  LET k == Len(log) - Len(messages) + i
         IN  /\ k \in 1 .. Len(log) /\ messages[i] = log[k]
             /\ \A c \in 1 .. k - 1 :
                  c > k - i + Heads => i - (k - c) \in 1 .. i - 1 /\ messages[i - (k - c)].ids = {c}
<1> DEFINE k == Len(log) - Len(messages) + i
<1>1. /\ Len(messages) \in Nat /\ Len(log) \in Nat /\ Len(messages) <= Len(log)
      /\ Heads \in {0, 1}
  BY CapacityAssumption DEF HistoryInv, HistoryTypes, RecentKept, Fitting, Heads
<1>2. k \in 1 .. Len(log) /\ messages[i] = log[k]
  BY <1>1 DEF HistoryInv, RecentKept
<1>3. ASSUME NEW c \in 1 .. k - 1, c > k - i + Heads
      PROVE  i - (k - c) \in 1 .. i - 1 /\ messages[i - (k - c)].ids = {c}
  <2>1. /\ i - (k - c) \in 1 .. Len(messages) /\ ~(i - (k - c) <= Heads)
        /\ Len(log) - Len(messages) + (i - (k - c)) = c
        /\ c \in 1 .. Len(log) /\ i - (k - c) \in 1 .. i - 1
    <3>1. /\ c \in Nat /\ k \in Nat /\ i \in Nat /\ Len(messages) \in Nat /\ Len(log) \in Nat
          /\ 1 <= c /\ c <= k - 1 /\ k <= Len(log) /\ i <= Len(messages)
          /\ Heads \in Nat /\ c > k - i + Heads
      BY <1>1, <1>2, <1>3
    <3>2. Len(log) - Len(messages) + (i - (k - c)) = c
      BY ONLY <3>1 DEF k
    <3> HIDE DEF k
    <3>3. i - (k - c) \in 1 .. i - 1 /\ ~(i - (k - c) <= Heads) /\ c \in 1 .. Len(log)
      BY ONLY <3>1
    <3>4. i - (k - c) \in 1 .. Len(messages)
      BY ONLY <3>1, <3>3
    <3> QED
      BY ONLY <3>2, <3>3, <3>4
  <2>2. messages[i - (k - c)] = log[c]
    BY <2>1 DEF HistoryInv, RecentKept
  <2> QED BY <2>1, <2>2 DEF HistoryInv, Rounds
<1> QED BY <1>2, <1>3

LEMMA OrphansFromInv == HistoryInv => OrphansOldest
<1> SUFFICES ASSUME HistoryInv, NEW i \in 1 .. Len(messages), Orphan(messages, i)
             PROVE  /\ \A j \in 1 .. i - 1 :
                         IsSystem(messages[j]) \/ messages[j].call = messages[i].call
                    /\ messages[i].call = answer => Heads + 1 + (Len(log) - answer) > max_messages
  BY DEF OrphansOldest, OrphansAreOldest
<1> DEFINE k == Len(log) - Len(messages) + i
           c == messages[i].call
<1>1. /\ Len(messages) \in Nat /\ Len(log) \in Nat /\ max_messages \in Nat
      /\ Len(messages) = Fitting /\ Heads \in {0, 1} /\ answer \in Nat
  BY CapacityAssumption DEF HistoryInv, HistoryTypes, RecentKept, Heads
<1>2. \A j \in 1 .. Len(messages) : j <= Heads => IsSystem(messages[j]) /\ messages[j] = log[1] /\ j = 1
  BY <1>1 DEF HistoryInv, RecentKept, Heads, HasSystem
<1>3. ~(i <= Heads)
  BY <1>2 DEF Orphan, IsSystem
<1>4. /\ k \in 1 .. Len(log) /\ messages[i] = log[k]
      /\ \A d \in 1 .. k - 1 :
           d > k - i + Heads => i - (k - d) \in 1 .. i - 1 /\ messages[i - (k - d)].ids = {d}
  BY <1>3, WindowOfLog
<1>5. /\ c \in 1 .. k - 1
      /\ \A d \in c + 1 .. k : log[d].call = c
  BY <1>4 DEF HistoryInv, Rounds, Orphan
<1> HIDE DEF c
\* The answer is not in the history.
<1>6. c <= k - i + Heads
  <2>1. c \in Nat /\ k - i + Heads \in Nat
    BY <1>1, <1>4, <1>5 DEF Fitting
  <2>2. ASSUME c > k - i + Heads
        PROVE  FALSE
    <3>1. i - (k - c) \in 1 .. i - 1 /\ messages[i - (k - c)].ids = {c}
      BY <1>4, <1>5, <2>2
    <3> HIDE DEF k
    <3> QED BY <3>1 DEF Orphan, c
  <2> HIDE DEF k
  <2> QED BY <2>1, <2>2
<1>7. ASSUME NEW j \in 1 .. i - 1
      PROVE  IsSystem(messages[j]) \/ messages[j].call = c
  <2>1. CASE j <= Heads
    BY <1>1, <1>2, <2>1
  <2>2. CASE ~(j <= Heads)
    <3>1. j \in 1 .. Len(messages) /\ Len(log) - Len(messages) + j \in c + 1 .. k
      BY <1>1, <1>5, <1>6, <2>2
    <3>2. messages[j] = log[Len(log) - Len(messages) + j]
      BY <2>2, <3>1, WindowOfLog
    <3> QED BY <1>5, <3>1, <3>2
  <2> QED BY <2>1, <2>2
<1>8. ASSUME c = answer
      PROVE  Heads + 1 + (Len(log) - answer) > max_messages
  <2>1. CASE Len(log) > max_messages
    BY <1>1, <1>6, <1>8, <2>1 DEF Fitting
  <2>2. CASE ~(Len(log) > max_messages)
    \* Nothing has been evicted yet.
    <3>1. k = i /\ c = 1 /\ Heads = 1
      BY <1>1, <1>5, <1>6, <2>2 DEF Fitting
    <3>2. messages[1].ids = {1} /\ 1 \in 1 .. i - 1
      BY <1>1, <1>2, <1>5, <3>1 DEF HistoryInv, Rounds
    <3> QED BY <3>1, <3>2 DEF Orphan, c
  <2> QED BY <2>1, <2>2
<1> QED BY <1>7, <1>8 DEF c

(***************************************************************************)
(* Whatever the capacity, eviction leaves at most one answer's tool        *)
(* messages without their call, the oldest ones (conversation.h:55).       *)
(***************************************************************************)
THEOREM CutsOneRound == HistorySpec => []OrphansOldest
BY InitHistoryInv, NextHistoryInv, OrphansFromInv, PTL DEF HistorySpec

-----------------------------------------------------------------------------
(***************************************************************************)
(* SummarizingConversation.  For a log l that begins with h system         *)
(* messages, the history s is the system message, then one message that is *)
(* either from the log or a summary of what comes just before the rest,    *)
(* then the end of the log word for word.  The summary stays only as long  *)
(* as at least keep_recent messages follow it.                             *)
(***************************************************************************)
HeadsOf(l) == IF l # <<>> /\ IsSystem(l[1]) THEN 1 ELSE 0

Verbatim(s, l, h) ==
  /\ Len(s) <= max_messages /\ Len(s) <= Len(l) /\ h <= Len(s)
  /\ h = 1 => s[1] = l[1]
  /\ \A i \in h + 2 .. Len(s) : s[i] = l[Len(l) - Len(s) + i]

OldestKept(s, l, h) ==
  LET last == Len(l) - Len(s) + h + 1
  IN  /\ ~IsSystem(s[h + 1])
      /\ \E a \in h + 1 .. last : s[h + 1].ids = a .. last
      /\ \/ s[h + 1] = l[last] /\ (Len(s) = Len(l) \/ Len(s) = max_messages)
         \/ Len(s) > h + keep_recent

Shape(s, l) ==
  LET h == HeadsOf(l)
  IN  /\ Verbatim(s, l, h)
      /\ Len(s) > h => OldestKept(s, l, h)
      /\ Len(s) = h => Len(s) = Len(l) \/ max_messages = h

\* Nothing of the log is missing.
Whole(s, l) ==
  LET h == HeadsOf(l)
  IN  Len(s) > h => s[h + 1].ids = h + 1 .. Len(l) - Len(s) + h + 1

\* The parameters leave room for a summary.
Roomy == keep_recent + 3 <= summarize_threshold /\ summarize_threshold <= max_messages

SummaryInv ==
  /\ summarize_threshold \in Thresholds /\ keep_recent \in Keeps
  /\ summarized \in Seq(Message)
  /\ Shape(summarized, log)
  /\ Roomy /\ ~failed => Len(summarized) < summarize_threshold /\ Whole(summarized, log)

-----------------------------------------------------------------------------
\* push() with room for the message.
LEMMA PushFits ==
  ASSUME NEW s \in Seq(Message), NEW max \in Nat, NEW m \in Message, Len(s) < max
  PROVE  push(s, max, m) = Append(s, m)
<1>1. Len(Append(s, m)) = Len(s) + 1 /\ Len(s) \in Nat
  OBVIOUS
<1> QED
  BY <1>1 DEF push, evict_if_needed

\* What is known of a log (HistoryInv): every message has its own number, and only the
\* first may be a system message.
LogOK(l) ==
  /\ l \in Seq(Message)
  /\ \A i \in 1 .. Len(l) : l[i].ids = {i} /\ (IsSystem(l[i]) => i = 1)

\* push() when the history is full: the oldest message after the system message goes.
PushedFull(s, m) == push(s, Len(s), m)

LEMMA PushEvicts ==
  ASSUME NEW s \in Seq(Message), NEW m \in Message, s # <<>>
  PROVE  /\ PushedFull(s, m) \in Seq(Message) /\ Len(PushedFull(s, m)) = Len(s)
         /\ IsSystem(s[1]) =>
              /\ PushedFull(s, m)[1] = s[1]
              /\ \A i \in 2 .. Len(s) - 1 : PushedFull(s, m)[i] = s[i + 1]
              /\ 2 <= Len(s) => PushedFull(s, m)[Len(s)] = m
         /\ ~IsSystem(s[1]) =>
              /\ \A i \in 1 .. Len(s) - 1 : PushedFull(s, m)[i] = s[i + 1]
              /\ PushedFull(s, m)[Len(s)] = m
<1> DEFINE max == Len(s)
           t == PushedFull(s, m)
<1>0. max \in Nat \ {0} /\ Len(s) = max /\ t = push(s, max, m)
  BY DEF PushedFull
<1> HIDE DEF max, t
<1> DEFINE app == Append(s, m)
<1>1. /\ app \in Seq(Message) /\ Len(app) = max + 1
      /\ \A i \in 1 .. max : app[i] = s[i]
      /\ app[max + 1] = m
  BY <1>0
<1>2. t = IF IsSystem(s[1]) THEN <<app[1]>> \o SubSeq(app, 3, max + 1) ELSE Tail(app)
  BY <1>0, <1>1 DEF push, evict_if_needed, EraseSecond
<1> HIDE DEF app
<1>3. CASE IsSystem(s[1])
  <2>1. SubSeq(app, 3, max + 1) \in Seq(Message) /\ Len(SubSeq(app, 3, max + 1)) = max - 1
    BY <1>0, <1>1
  <2>2. \A i \in 1 .. max - 1 : SubSeq(app, 3, max + 1)[i] = app[i + 2]
    BY <1>0, <1>1
  <2>3. t \in Seq(Message) /\ Len(t) = max /\ t[1] = app[1]
    BY <1>0, <1>1, <1>2, <1>3, <2>1
  <2>4. ASSUME NEW i \in 2 .. max PROVE t[i] = app[i + 1]
    <3>1. t[i] = SubSeq(app, 3, max + 1)[i - 1]
      BY <1>0, <1>1, <1>2, <1>3, <2>1
    <3>2. i - 1 \in 1 .. max - 1 /\ (i - 1) + 2 = i + 1
      BY <1>0
    <3> QED
      BY <1>0, <2>2, <3>1, <3>2
  <2>5. \A i \in 2 .. max - 1 : t[i] = s[i + 1]
    BY <1>0, <1>1, <2>4
  <2>6. 2 <= max => t[max] = m
    BY <1>0, <1>1, <2>4
  <2> QED
    BY <1>0, <1>1, <1>3, <2>3, <2>5, <2>6 DEF max, t
<1>4. CASE ~IsSystem(s[1])
  <2>1. t \in Seq(Message) /\ Len(t) = max /\ \A i \in 1 .. max : t[i] = app[i + 1]
    BY <1>0, <1>1, <1>2, <1>4
  <2>2. \A i \in 1 .. max - 1 : t[i] = s[i + 1]
    BY <1>0, <1>1, <2>1
  <2>3. t[max] = m
    BY <1>0, <1>1, <2>1
  <2> QED
    BY <1>0, <1>4, <2>1, <2>2, <2>3 DEF max, t
<1> QED
  BY <1>0, <1>3, <1>4 DEF max, t

\* The log grows by a message that the history is given, too.
PushedTo(s, l, m) ==
  /\ s \in Seq(Message) /\ m \in Message
  /\ LogOK(l) /\ LogOK(Append(l, m))
  /\ Shape(s, l)
  /\ max_messages \in Nat \ {0} /\ keep_recent \in Nat

LEMMA AppendFacts ==
  ASSUME NEW s, NEW l, NEW m, PushedTo(s, l, m)
  PROVE  /\ Append(l, m) \in Seq(Message) /\ Len(Append(l, m)) = Len(l) + 1
         /\ \A i \in 1 .. Len(l) : Append(l, m)[i] = l[i]
         /\ Append(l, m)[Len(l) + 1] = m
         /\ Len(l) \in Nat /\ Len(s) \in Nat /\ HeadsOf(l) \in {0, 1}
         /\ l # <<>> => HeadsOf(Append(l, m)) = HeadsOf(l) /\ ~IsSystem(m)
<1>1. l \in Seq(Message) /\ m \in Message /\ s \in Seq(Message)
  BY DEF PushedTo, LogOK
<1>2. /\ Append(l, m) \in Seq(Message) /\ Len(Append(l, m)) = Len(l) + 1
      /\ \A i \in 1 .. Len(l) : Append(l, m)[i] = l[i]
      /\ Append(l, m)[Len(l) + 1] = m
      /\ Len(l) \in Nat /\ Len(s) \in Nat
  BY <1>1
<1>3. ASSUME l # <<>> PROVE HeadsOf(Append(l, m)) = HeadsOf(l) /\ ~IsSystem(m)
  <2>1. 1 \in 1 .. Len(l) /\ Len(l) + 1 \in 1 .. Len(Append(l, m)) /\ Len(l) + 1 # 1
    BY <1>1, <1>2, <1>3
  <2>2. Append(l, m)[1] = l[1] /\ Append(l, m) # <<>>
    BY <1>2, <2>1
  <2>3. ~IsSystem(m)
    BY <1>2, <2>1 DEF PushedTo, LogOK
  <2> QED
    BY <1>3, <2>2, <2>3 DEF HeadsOf
<1> QED
  BY <1>2, <1>3 DEF HeadsOf

\* The first message of all.
LEMMA PushFirst ==
  ASSUME NEW s, NEW l, NEW m, PushedTo(s, l, m), l = <<>>
  PROVE  LET t == push(s, max_messages, m)
         IN  t = <<m>> /\ s = <<>> /\ Shape(t, Append(l, m)) /\ Whole(t, Append(l, m))
<1>1. s = <<>> /\ m \in Message
  BY DEF PushedTo, Shape, Verbatim
<1>2. push(s, max_messages, m) = <<m>>
  <2>1. Len(s) < max_messages /\ max_messages \in Nat /\ s \in Seq(Message)
    BY <1>1 DEF PushedTo
  <2>2. push(s, max_messages, m) = Append(s, m)
    BY <1>1, <2>1, PushFits
  <2> QED
    BY <1>1, <2>2
<1>3. Append(l, m) = <<m>>
  BY <1>1
<1>4. m.ids = {1} /\ 1 .. 1 = {1}
  BY <1>1, <1>3 DEF PushedTo, LogOK
<1>5. Len(<<m>>) = 1 /\ <<m>>[1] = m /\ max_messages >= 1 /\ max_messages \in Nat
  BY DEF PushedTo
<1>6. ASSUME NEW h \in {0, 1} PROVE Verbatim(<<m>>, <<m>>, h)
  <2>1. \A i \in h + 2 .. 1 : FALSE
    OBVIOUS
  <2> QED
    BY <1>5, <2>1 DEF Verbatim
<1>7. CASE IsSystem(m)
  <2>1. HeadsOf(<<m>>) = 1
    BY <1>7 DEF HeadsOf
  <2>2. Shape(<<m>>, <<m>>)
    BY <1>5, <1>6, <2>1 DEF Shape
  <2>3. Whole(<<m>>, <<m>>)
    BY <1>5, <2>1 DEF Whole
  <2> QED
    BY <1>1, <1>2, <1>3, <2>2, <2>3
<1>8. CASE ~IsSystem(m)
  <2>1. HeadsOf(<<m>>) = 0
    BY <1>8 DEF HeadsOf
  <2>2. OldestKept(<<m>>, <<m>>, 0)
    BY <1>4, <1>8 DEF OldestKept
  <2>3. Shape(<<m>>, <<m>>)
    BY <1>5, <1>6, <2>1, <2>2 DEF Shape
  <2>4. Whole(<<m>>, <<m>>)
    BY <1>4, <1>5, <2>1 DEF Whole
  <2> QED
    BY <1>1, <1>2, <1>3, <2>3, <2>4
<1> QED
  BY <1>7, <1>8

\* There is room: nothing goes.
LEMMA PushWithRoom ==
  ASSUME NEW s, NEW l, NEW m, PushedTo(s, l, m), l # <<>>, Len(s) < max_messages
  PROVE  LET t == push(s, max_messages, m)
         IN  /\ t \in Seq(Message) /\ Len(t) = Len(s) + 1 /\ Shape(t, Append(l, m))
             /\ Whole(s, l) => Whole(t, Append(l, m))
<1> DEFINE t == push(s, max_messages, m)
           g == Append(l, m)
           h == HeadsOf(l)
           n == Len(l)
           k == Len(s)
<1>1. /\ g \in Seq(Message) /\ Len(g) = n + 1
      /\ \A i \in 1 .. n : g[i] = l[i]
      /\ g[n + 1] = m
      /\ n \in Nat /\ k \in Nat /\ h \in {0, 1} /\ HeadsOf(g) = h /\ ~IsSystem(m)
  BY AppendFacts
<1>2. /\ t \in Seq(Message) /\ Len(t) = k + 1
      /\ \A i \in 1 .. k : t[i] = s[i]
      /\ t[k + 1] = m
  <2>1. s \in Seq(Message) /\ m \in Message /\ max_messages \in Nat
    BY DEF PushedTo
  <2>2. t = Append(s, m)
    BY <2>1, PushFits
  <2> HIDE DEF t
  <2> QED
    BY <2>1, <2>2
<1>3. /\ Verbatim(s, l, h) /\ (k > h => OldestKept(s, l, h)) /\ (k = h => k = n \/ max_messages = h)
      /\ max_messages \in Nat /\ keep_recent \in Nat
  BY DEF PushedTo, Shape
<1>4. k <= n /\ h <= k /\ k < max_messages /\ (h = 1 => s[1] = l[1])
  BY <1>3 DEF Verbatim
<1>5. LogOK(g)
  BY DEF PushedTo
<1>6. (n + 1) - (k + 1) = n - k /\ n - k \in Nat
  BY <1>1, <1>4
<1> HIDE DEF t, g, h, n, k
<1>7. Verbatim(t, g, h)
  <2>1. ASSUME NEW i \in h + 2 .. k + 1 PROVE t[i] = g[n - k + i]
    <3>1. CASE i = k + 1
      <4>1. n - k + (k + 1) = n + 1
        BY <1>1
      <4> QED
        BY <1>1, <1>2, <3>1, <4>1
    <3>2. CASE i # k + 1
      <4>1. i \in h + 2 .. k /\ i \in 1 .. k /\ n - k + i \in 1 .. n
        BY <1>1, <1>4, <3>2
      <4>2. s[i] = l[n - k + i]
        BY <1>3, <4>1 DEF Verbatim, n, k
      <4> QED
        BY <1>1, <1>2, <4>1, <4>2
    <3> QED
      BY <3>1, <3>2
  <2>2. h = 1 => t[1] = g[1]
    <3>1. h = 1 => 1 \in 1 .. k /\ 1 \in 1 .. n
      BY <1>1, <1>4
    <3> QED
      BY <1>1, <1>2, <1>4, <3>1
  <2>3. k + 1 <= max_messages /\ k + 1 <= n + 1 /\ h <= k + 1
    BY <1>1, <1>3, <1>4
  <2> QED
    BY <1>1, <1>2, <1>6, <2>1, <2>2, <2>3 DEF Verbatim
<1>8. CASE k > h
  <2>1. OldestKept(s, l, h)
    BY <1>3, <1>8
  <2>2. h + 1 \in 1 .. k /\ n - k + h + 1 \in 1 .. n /\ (n + 1) - (k + 1) + h + 1 = n - k + h + 1
    BY <1>1, <1>4, <1>8
  <2>3. t[h + 1] = s[h + 1] /\ g[n - k + h + 1] = l[n - k + h + 1]
    BY <1>1, <1>2, <2>2
  <2>4. /\ ~IsSystem(s[h + 1])
        /\ \E a \in h + 1 .. n - k + h + 1 : s[h + 1].ids = a .. n - k + h + 1
        /\ \/ s[h + 1] = l[n - k + h + 1] /\ k = n
           \/ k > h + keep_recent
    <3>1. /\ ~IsSystem(s[h + 1])
          /\ \E a \in h + 1 .. n - k + h + 1 : s[h + 1].ids = a .. n - k + h + 1
          /\ \/ s[h + 1] = l[n - k + h + 1] /\ (k = n \/ k = max_messages)
             \/ k > h + keep_recent
      BY ONLY <2>1 DEF OldestKept, n, k
    <3>2. k # max_messages
      BY ONLY <1>1, <1>3, <1>4
    <3> QED
      BY ONLY <3>1, <3>2
  <2>5. OldestKept(t, g, h)
    <3>1. k = n => k + 1 = n + 1
      OBVIOUS
    <3>2. k > h + keep_recent => k + 1 > h + keep_recent
      BY <1>1, <1>3
    <3> QED
      BY <1>1, <1>2, <2>2, <2>3, <2>4, <3>1, <3>2 DEF OldestKept
  <2>6. Shape(t, g) /\ k + 1 # h
    <3>1. Len(t) # h
      BY <1>1, <1>2, <1>8
    <3> QED
      BY ONLY <1>1, <1>2, <1>7, <2>5, <3>1 DEF Shape
  <2>7. Whole(s, l) => Whole(t, g)
    <3>1. Whole(s, l) => s[h + 1].ids = h + 1 .. n - k + h + 1
      BY <1>8 DEF Whole, h, n, k
    <3> QED
      BY <1>1, <1>2, <2>2, <2>3, <3>1 DEF Whole
  <2> QED
    BY <1>2, <2>6, <2>7 DEF t, g, k
<1>9. CASE k = h
  <2>1. k = n
    BY <1>3, <1>4, <1>9
  <2>2. t[h + 1] = m /\ g[n + 1] = m /\ m.ids = {n + 1} /\ n + 1 .. n + 1 = {n + 1}
    BY <1>1, <1>2, <1>5, <1>9, <2>1 DEF LogOK
  <2>3. (n + 1) - (k + 1) + h + 1 = n + 1 /\ h + 1 = n + 1
    BY <1>1, <1>9, <2>1
  <2>4. OldestKept(t, g, h)
    <3>1. \E a \in h + 1 .. n + 1 : m.ids = a .. n + 1
      BY <1>1, <2>2, <2>3
    <3> QED
      BY <1>1, <1>2, <2>1, <2>2, <2>3, <3>1 DEF OldestKept
  <2>5. Shape(t, g)
    <3>1. Len(t) # h
      BY <1>1, <1>2, <1>9
    <3> QED
      BY ONLY <1>1, <1>7, <2>4, <3>1 DEF Shape
  <2>6. Whole(t, g)
    BY <1>1, <1>2, <2>2, <2>3 DEF Whole
  <2> QED
    BY <1>2, <2>5, <2>6 DEF t, g, k
<1> QED
  BY <1>1, <1>4, <1>8, <1>9

\* There is none: the oldest message after the system message goes.
LEMMA PushWhenFull ==
  ASSUME NEW s, NEW l, NEW m, PushedTo(s, l, m), l # <<>>, Len(s) = max_messages
  PROVE  LET t == push(s, max_messages, m)
         IN  t \in Seq(Message) /\ Len(t) = Len(s) /\ Shape(t, Append(l, m))
<1> DEFINE t == push(s, max_messages, m)
           g == Append(l, m)
           h == HeadsOf(l)
           n == Len(l)
           k == Len(s)
<1>1. /\ g \in Seq(Message) /\ Len(g) = n + 1
      /\ \A i \in 1 .. n : g[i] = l[i]
      /\ g[n + 1] = m
      /\ n \in Nat /\ k \in Nat /\ h \in {0, 1} /\ HeadsOf(g) = h /\ ~IsSystem(m)
  BY AppendFacts
<1>2. /\ Verbatim(s, l, h) /\ (k > h => OldestKept(s, l, h))
      /\ max_messages \in Nat \ {0} /\ keep_recent \in Nat
      /\ s \in Seq(Message) /\ m \in Message /\ LogOK(g)
  BY DEF PushedTo, Shape
<1>3. k <= n /\ h <= k /\ k = max_messages /\ (h = 1 => s[1] = l[1])
  BY <1>2 DEF Verbatim
<1>4. IsSystem(s[1]) <=> h = 1
  <2>1. CASE h = 1
    BY <1>3, <2>1 DEF HeadsOf, h
  <2>2. CASE h = 0
    <3>1. k > h
      BY <1>2, <1>3, <2>2
    <3>2. OldestKept(s, l, h)
      BY <1>2, <3>1
    <3>3. ~IsSystem(s[h + 1])
      BY ONLY <3>2 DEF OldestKept
    <3>4. h + 1 = 1
      BY ONLY <2>2
    <3> QED
      BY ONLY <2>2, <3>3, <3>4
  <2> QED
    BY <1>1, <2>1, <2>2
<1>5. /\ t \in Seq(Message) /\ Len(t) = k
      /\ h = 1 => t[1] = s[1]
      /\ \A i \in h + 1 .. k - 1 : t[i] = s[i + 1]
      /\ h + 1 <= k => t[k] = m
  <2>1. t = PushedFull(s, m) /\ s # <<>>
    BY <1>2, <1>3 DEF PushedFull
  <2> HIDE DEF t, h
  <2>2. /\ t \in Seq(Message) /\ Len(t) = k
        /\ IsSystem(s[1]) =>
             /\ t[1] = s[1]
             /\ \A i \in 2 .. k - 1 : t[i] = s[i + 1]
             /\ 2 <= k => t[k] = m
        /\ ~IsSystem(s[1]) =>
             /\ \A i \in 1 .. k - 1 : t[i] = s[i + 1]
             /\ t[k] = m
    BY <1>2, <2>1, PushEvicts
  <2> HIDE DEF k
  <2> QED
    BY <1>1, <1>3, <1>4, <2>2
<1> HIDE DEF t, g, h, n, k
\* Behind the system message the history is the end of the log.
<1>6. ASSUME NEW i \in h + 1 .. k PROVE t[i] = g[n + 1 - k + i] /\ n + 1 - k + i \in h + 2 .. n + 1
  <2>1. n + 1 - k + i \in h + 2 .. n + 1
    BY <1>1, <1>3
  <2>2. CASE i = k
    <3>1. n + 1 - k + i = n + 1
      BY <1>1, <2>2
    <3> QED
      BY <1>1, <1>5, <2>1, <2>2, <3>1
  <2>3. CASE i # k
    <3>1. i \in h + 1 .. k - 1 /\ i + 1 \in h + 2 .. k /\ n - k + (i + 1) = n + 1 - k + i
          /\ n + 1 - k + i \in 1 .. n
      BY <1>1, <1>3, <2>3
    <3>2. s[i + 1] = l[n - k + (i + 1)]
      BY <1>2, <3>1 DEF Verbatim, n, k
    <3> QED
      BY <1>1, <1>5, <2>1, <3>1, <3>2
  <2> QED
    BY <2>2, <2>3
<1>7. Verbatim(t, g, h)
  <2>1. ASSUME NEW i \in h + 2 .. k PROVE t[i] = g[n + 1 - k + i]
    <3>1. h \in Nat /\ k \in Nat
      BY <1>1
    <3>2. i \in h + 1 .. k
      BY ONLY <3>1, i \in h + 2 .. k
    <3> QED
      BY ONLY <1>6, <3>2
  <2>2. h = 1 => t[1] = g[1]
    <3>1. h = 1 => 1 \in 1 .. n
      BY <1>1, <1>3
    <3> QED
      BY <1>1, <1>3, <1>5, <3>1
  <2>3. k <= n + 1
    BY <1>1, <1>3
  <2>4. Len(g) - Len(t) = n + 1 - k /\ Len(t) = k /\ Len(g) = n + 1 /\ k <= max_messages /\ h <= k
    BY <1>1, <1>3, <1>5
  <2>5. \A i \in h + 2 .. Len(t) : t[i] = g[Len(g) - Len(t) + i]
    BY <2>1, <2>4
  <2> QED
    BY <2>2, <2>3, <2>4, <2>5 DEF Verbatim
<1>8. ASSUME k > h PROVE OldestKept(t, g, h)
  <2> DEFINE e == n + 1 - k + h + 1
  <2>1. h + 1 \in h + 1 .. k /\ n + 1 - k + (h + 1) = e
    BY <1>1, <1>8
  <2>2. t[h + 1] = g[e] /\ e \in h + 2 .. n + 1
    BY <1>6, <2>1
  <2> HIDE DEF e
  <2>3. e \in 1 .. n + 1 /\ e # 1 /\ e \in h + 1 .. e /\ e .. e = {e}
    <3>1. h \in Nat /\ n \in Nat /\ e \in Nat /\ h + 2 <= e /\ e <= n + 1
      BY ONLY <1>1, <2>2
    <3>2. e .. e = {e}
      BY ONLY <3>1
    <3> QED
      BY ONLY <3>1, <3>2
  <2>4. g[e].ids = {e} /\ ~IsSystem(g[e])
    BY <1>1, <1>2, <2>3 DEF LogOK
  <2>5. Len(g) - Len(t) + h + 1 = e /\ Len(t) = max_messages
    BY ONLY <1>1, <1>3, <1>5 DEF e
  <2>6. t[h + 1].ids = e .. e /\ ~IsSystem(t[h + 1])
    BY ONLY <2>2, <2>3, <2>4
  <2> QED
    BY ONLY <2>2, <2>3, <2>5, <2>6 DEF OldestKept
<1>9. Shape(t, g)
  BY <1>1, <1>3, <1>5, <1>7, <1>8 DEF Shape
<1> QED
  BY <1>5, <1>9 DEF t, g, k

\* What push() makes of the history before maybe_summarize() looks at it.
LEMMA PushKeepsShape ==
  ASSUME NEW s, NEW l, NEW m, PushedTo(s, l, m)
  PROVE  LET t == push(s, max_messages, m)
         IN  /\ t \in Seq(Message) /\ Shape(t, Append(l, m))
             /\ Len(s) < max_messages /\ Whole(s, l) => Len(t) = Len(s) + 1 /\ Whole(t, Append(l, m))
<1>1. m \in Message /\ s \in Seq(Message) /\ Len(s) \in Nat /\ max_messages \in Nat
  BY DEF PushedTo
<1>2. CASE l = <<>>
  <2>1. /\ push(s, max_messages, m) = <<m>> /\ s = <<>>
        /\ Shape(push(s, max_messages, m), Append(l, m)) /\ Whole(push(s, max_messages, m), Append(l, m))
    BY <1>2, PushFirst
  <2>2. <<m>> \in Seq(Message) /\ Len(<<m>>) = 0 + 1 /\ Len(<<>>) = 0
    BY <1>1
  <2> QED
    BY <2>1, <2>2
<1>3. CASE l # <<>> /\ Len(s) < max_messages
  BY <1>3, PushWithRoom
<1>4. CASE l # <<>> /\ ~(Len(s) < max_messages)
  <2>1. Len(s) <= max_messages
    BY DEF PushedTo, Shape, Verbatim
  <2>2. Len(s) = max_messages
    BY <1>1, <1>4, <2>1
  <2> QED
    BY <1>4, <2>2, PushWhenFull
<1> QED
  BY <1>2, <1>3, <1>4

\* What maybe_summarize() finds when the history is long enough.
ToShorten(s, l) ==
  /\ s \in Seq(Message) /\ LogOK(l)
  /\ Shape(s, l) /\ Worth(s)
  /\ max_messages \in Nat \ {0} /\ keep_recent \in Nat /\ summarize_threshold \in Nat

LEMMA ShortenFacts ==
  ASSUME NEW s, NEW l, ToShorten(s, l)
  PROVE  /\ start(s) = HeadsOf(l) /\ HeadsOf(l) \in {0, 1}
         /\ end(s) = Len(s) - keep_recent
         /\ end(s) \in HeadsOf(l) + 2 .. Len(s)
         /\ Len(s) \in Nat /\ Len(l) \in Nat /\ Len(s) <= Len(l) /\ Len(s) <= max_messages
         /\ OldestKept(s, l, HeadsOf(l))
         /\ \A i \in HeadsOf(l) + 2 .. Len(s) : s[i] = l[Len(l) - Len(s) + i]
         /\ HeadsOf(l) = 1 => s[1] = l[1] /\ IsSystem(s[1])
<1> DEFINE h == HeadsOf(l)
<1>1. /\ s \in Seq(Message) /\ l \in Seq(Message) /\ Len(s) \in Nat /\ Len(l) \in Nat
      /\ keep_recent \in Nat /\ max_messages \in Nat /\ h \in {0, 1}
  BY DEF ToShorten, LogOK, HeadsOf
<1>2. /\ Len(s) <= max_messages /\ Len(s) <= Len(l) /\ h <= Len(s)
      /\ h = 1 => s[1] = l[1]
      /\ \A i \in h + 2 .. Len(s) : s[i] = l[Len(l) - Len(s) + i]
      /\ Len(s) > h => OldestKept(s, l, h)
  BY DEF ToShorten, Shape, Verbatim
<1>3. h = 1 => IsSystem(s[1])
  BY <1>2 DEF HeadsOf
<1> HIDE DEF h
<1>4. start(s) = h
  <2>1. CASE h = 1
    BY <1>1, <1>2, <1>3, <2>1 DEF start
  <2>2. CASE h = 0
    <3>1. s # <<>> => ~IsSystem(s[1])
      <4>1. s # <<>> => Len(s) > h
        BY <1>1, <2>2
      <4>2. h + 1 = 1
        BY <2>2
      <4> QED
        BY <1>2, <4>1, <4>2 DEF OldestKept
    <3> QED
      BY <2>2, <3>1 DEF start
  <2> QED
    BY <1>1, <2>1, <2>2
<1>5. end(s) = Len(s) - keep_recent /\ end(s) \in h + 2 .. Len(s)
  <2>1. end(s) > h + 1
    BY <1>4 DEF ToShorten, Worth
  <2>2. Len(s) > keep_recent
    BY <1>1, <1>4, <2>1 DEF end
  <2> QED
    BY <1>1, <2>1, <2>2 DEF end
<1>6. Len(s) > h
  BY <1>1, <1>5
<1> QED
  BY <1>1, <1>2, <1>3, <1>4, <1>5, <1>6 DEF h

\* The summary stands for everything from the oldest message kept to the last
\* one that is not kept word for word.
LEMMA SummaryIds ==
  ASSUME NEW s, NEW l, ToShorten(s, l)
  PROVE  LET h == HeadsOf(l)
             k == Len(l) - Len(s)
         IN  \A a \in h + 1 .. k + h + 1 :
               s[h + 1].ids = a .. k + h + 1 => Summary(s).ids = a .. k + end(s)
<1> DEFINE h == HeadsOf(l)
           k == Len(l) - Len(s)
           e == end(s)
<1>1. /\ h \in {0, 1} /\ k \in Nat /\ e \in h + 2 .. Len(s) /\ Len(s) \in Nat /\ Len(l) \in Nat
      /\ \A i \in h + 2 .. Len(s) : s[i] = l[k + i]
      /\ start(s) = h /\ k + Len(s) = Len(l)
  <2>1. /\ h \in {0, 1} /\ e \in h + 2 .. Len(s) /\ Len(s) \in Nat /\ Len(l) \in Nat
        /\ Len(s) <= Len(l) /\ start(s) = h
        /\ \A i \in h + 2 .. Len(s) : s[i] = l[k + i]
    BY ShortenFacts
  <2>2. k \in Nat /\ k + Len(s) = Len(l)
    BY ONLY <2>1
  <2> QED
    BY ONLY <2>1, <2>2
<1>2. Summary(s).ids = UNION {s[i].ids : i \in h + 1 .. e}
  BY <1>1 DEF Summary
<1> HIDE DEF h, k, e
<1>3. ASSUME NEW i \in h + 2 .. Len(s) PROVE s[i].ids = {k + i}
  <2>1. k + i \in 1 .. Len(l)
    BY <1>1
  <2> QED
    BY <1>1, <2>1 DEF ToShorten, LogOK
<1>4. ASSUME NEW a \in h + 1 .. k + h + 1, s[h + 1].ids = a .. k + h + 1
      PROVE  UNION {s[i].ids : i \in h + 1 .. e} = a .. k + e
  <2>0. a \in Nat /\ h \in Nat /\ e \in Nat
    BY <1>1
  <2>1. ASSUME NEW i \in h + 1 .. e, NEW x \in s[i].ids PROVE x \in a .. k + e
    <3>1. CASE i = h + 1
      <4>1. x \in a .. k + h + 1
        BY <1>4, <2>1, <3>1
      <4> QED
        BY <1>1, <2>0, <4>1
    <3>2. CASE i # h + 1
      <4>1. i \in h + 2 .. Len(s) /\ k + i \in a .. k + e
        BY <1>1, <2>0, <3>2
      <4>2. x = k + i
        BY <1>3, <2>1, <4>1
      <4> QED
        BY <4>1, <4>2
    <3> QED
      BY <3>1, <3>2
  <2>2. ASSUME NEW x \in a .. k + e PROVE \E i \in h + 1 .. e : x \in s[i].ids
    <3>1. CASE x <= k + h + 1
      <4>1. h + 1 \in h + 1 .. e /\ x \in a .. k + h + 1
        BY <1>1, <2>0, <3>1
      <4> QED
        BY <1>4, <4>1
    <3>2. CASE ~(x <= k + h + 1)
      <4>1. x - k \in h + 1 .. e /\ x - k \in h + 2 .. Len(s) /\ k + (x - k) = x
        BY <1>1, <2>0, <3>2
      <4>2. x \in s[x - k].ids
        BY <1>3, <4>1
      <4> QED
        BY <4>1, <4>2
    <3> QED
      BY <3>1, <3>2
  <2> QED
    BY <2>1, <2>2
<1> QED
  BY <1>2, <1>4 DEF h, k, e

\* The messages given to new_conv: system message, summary, recent messages.
Shortened(s) ==
  SubSeq(s, 1, start(s)) \o <<Summary(s)>> \o SubSeq(s, end(s) + 1, Len(s))

LEMMA ConcatFacts ==
  ASSUME NEW u \in Seq(Message), NEW v \in Seq(Message)
  PROVE  /\ u \o v \in Seq(Message) /\ Len(u \o v) = Len(u) + Len(v)
         /\ Len(u) \in Nat /\ Len(v) \in Nat
         /\ \A i \in 1 .. Len(u) : (u \o v)[i] = u[i]
         /\ \A i \in Len(u) + 1 .. Len(u) + Len(v) : (u \o v)[i] = v[i - Len(u)]
OBVIOUS

LEMMA ShortenedFacts ==
  ASSUME NEW s, NEW l, ToShorten(s, l)
  PROVE  LET h == HeadsOf(l)
             q == Shortened(s)
         IN  /\ q \in Seq(Message) /\ Len(q) = h + 1 + keep_recent /\ Len(q) < Len(s)
             /\ h = 1 => q[1] = s[1]
             /\ q[h + 1] = Summary(s)
             /\ \A i \in h + 2 .. Len(q) : q[i] = l[Len(l) - Len(q) + i]
<1> DEFINE h == HeadsOf(l)
           e == end(s)
           q == Shortened(s)
           a == SubSeq(s, 1, h)
           b == <<Summary(s)>>
           c == SubSeq(s, e + 1, Len(s))
<1>1. /\ h \in {0, 1} /\ e \in h + 2 .. Len(s) /\ Len(s) \in Nat /\ Len(l) \in Nat
      /\ \A i \in h + 2 .. Len(s) : s[i] = l[Len(l) - Len(s) + i]
      /\ start(s) = h /\ e = Len(s) - keep_recent /\ Len(s) <= Len(l)
      /\ OldestKept(s, l, h)
  BY ShortenFacts
<1>2. s \in Seq(Message) /\ keep_recent \in Nat /\ LogOK(l)
  BY DEF ToShorten
<1>3. q = a \o b \o c
  BY <1>1 DEF Shortened
<1>4. Summary(s) \in Message
  <2>1. ASSUME NEW i \in start(s) + 1 .. end(s) PROVE s[i].ids \subseteq Nat
    <3>0. start(s) \in Nat /\ end(s) \in Nat /\ end(s) <= Len(s) /\ Len(s) \in Nat
      BY <1>1
    <3>1. i \in 1 .. Len(s)
      BY ONLY <3>0, i \in start(s) + 1 .. end(s)
    <3>2. s[i] \in Message
      BY <1>2, <3>1
    <3> QED
      BY <3>2 DEF Message
  <2>2. UNION {s[i].ids : i \in start(s) + 1 .. end(s)} \in SUBSET Nat
    BY <2>1
  <2> QED
    BY <2>2 DEF Summary, Message
<1> HIDE DEF h, e, q
<1>5. a \in Seq(Message) /\ Len(a) = h /\ (h = 1 => a[1] = s[1])
  BY <1>1, <1>2
<1>6. b \in Seq(Message) /\ Len(b) = 1 /\ b[1] = Summary(s)
  BY <1>4
<1>7. /\ c \in Seq(Message) /\ Len(c) = keep_recent
      /\ \A i \in 1 .. keep_recent : c[i] = s[e + i]
  <2>1. /\ s \in Seq(Message) /\ keep_recent \in Nat /\ Len(s) \in Nat /\ e \in 1 .. Len(s)
        /\ e = Len(s) - keep_recent
    BY <1>1, <1>2
  <2>2. c \in Seq(Message) /\ Len(c) = Len(s) - e
    BY <2>1
  <2>3. ASSUME NEW i \in 1 .. keep_recent PROVE c[i] = s[e + i]
    BY <2>1
  <2> QED
    BY <2>1, <2>2, <2>3
<1> HIDE DEF a, b, c
<1>8. a \o b \in Seq(Message) /\ Len(a \o b) = h + 1 /\ (a \o b)[h + 1] = Summary(s)
      /\ (h = 1 => (a \o b)[1] = s[1])
  <2>1. /\ a \o b \in Seq(Message) /\ Len(a \o b) = h + 1
        /\ \A i \in 1 .. h : (a \o b)[i] = a[i]
        /\ \A i \in h + 1 .. h + 1 : (a \o b)[i] = b[i - h]
    <3>1. /\ a \o b \in Seq(Message) /\ Len(a \o b) = Len(a) + Len(b)
          /\ \A i \in 1 .. Len(a) : (a \o b)[i] = a[i]
          /\ \A i \in Len(a) + 1 .. Len(a) + Len(b) : (a \o b)[i] = b[i - Len(a)]
      BY ONLY <1>5, <1>6, ConcatFacts
    <3> QED
      BY ONLY <1>5, <1>6, <3>1
  <2>2. h + 1 \in h + 1 .. h + 1 /\ (h + 1) - h = 1 /\ (h = 1 => 1 \in 1 .. h)
    BY <1>1
  <2>3. (a \o b)[h + 1] = b[1]
    BY <2>1, <2>2
  <2> QED
    BY <1>5, <1>6, <2>1, <2>2, <2>3
<1>9. /\ q \in Seq(Message) /\ Len(q) = h + 1 + keep_recent
      /\ \A i \in 1 .. h + 1 : q[i] = (a \o b)[i]
      /\ \A i \in h + 2 .. h + 1 + keep_recent : q[i] = c[i - (h + 1)]
  <2> DEFINE u == a \o b
  <2>1. q = u \o c /\ u \in Seq(Message) /\ Len(u) = h + 1
    BY <1>3, <1>8
  <2> HIDE DEF u
  <2>2. /\ u \o c \in Seq(Message) /\ Len(u \o c) = Len(u) + Len(c)
        /\ \A i \in 1 .. Len(u) : (u \o c)[i] = u[i]
        /\ \A i \in Len(u) + 1 .. Len(u) + Len(c) : (u \o c)[i] = c[i - Len(u)]
    BY <1>7, <2>1, ConcatFacts
  <2>3. (h + 1) + 1 = h + 2
    BY <1>1
  <2> QED
    BY <1>7, <2>1, <2>2, <2>3 DEF u
<1>10. Len(q) < Len(s)
  BY <1>1, <1>2, <1>9
<1>11. q[h + 1] = Summary(s) /\ (h = 1 => q[1] = s[1])
  <2>1. h + 1 \in 1 .. h + 1 /\ 1 \in 1 .. h + 1
    BY <1>1
  <2> QED
    BY <1>8, <1>9, <2>1
<1>12. ASSUME NEW i \in h + 2 .. Len(q) PROVE q[i] = l[Len(l) - Len(q) + i]
  <2>1. i \in h + 2 .. h + 1 + keep_recent /\ i - (h + 1) \in 1 .. keep_recent
    BY <1>1, <1>2, <1>9
  <2>2. q[i] = s[e + (i - (h + 1))]
    BY <1>7, <1>9, <2>1
  <2>3. /\ e + (i - (h + 1)) \in h + 2 .. Len(s)
        /\ Len(l) - Len(s) + (e + (i - (h + 1))) = Len(l) - Len(q) + i
    BY <1>1, <1>2, <1>9, <2>1
  <2> QED
    BY <1>1, <2>2, <2>3
<1> QED
  BY <1>9, <1>10, <1>11, <1>12 DEF h, q


-----------------------------------------------------------------------------
LEMMA LogFacts ==
  ASSUME HistoryInv
  PROVE  /\ LogOK(log) /\ HeadsOf(log) = Heads
         /\ max_messages \in Nat \ {0}
  BY CapacityAssumption DEF HistoryInv, HistoryTypes, Rounds, SystemFirst, LogOK, HeadsOf, Heads, HasSystem

LEMMA InitSummaryInv == SInit => HistoryInv /\ SummaryInv
<1> SUFFICES ASSUME SInit PROVE HistoryInv /\ SummaryInv
  OBVIOUS
<1>1. HistoryInv
  BY InitHistoryInv DEF SInit
<1>2. /\ summarized = <<>> /\ log = <<>>
      /\ summarize_threshold \in Thresholds /\ keep_recent \in Keeps
  BY DEF SInit, HistoryInit
<1>3. HeadsOf(<<>>) = 0 /\ Len(<<>>) = 0 /\ <<>> \in Seq(Message)
  BY DEF HeadsOf
<1>4. max_messages \in Nat \ {0} /\ summarize_threshold \in Nat /\ keep_recent \in Nat
  BY <1>1, <1>2, LogFacts, SummaryAssumption
<1>5. Shape(<<>>, <<>>)
  BY <1>3, <1>4 DEF Shape, Verbatim
<1>6. Roomy => 0 < summarize_threshold
  BY <1>4 DEF Roomy
<1>7. Whole(<<>>, <<>>)
  BY <1>3 DEF Whole
<1> QED
  BY <1>1, <1>2, <1>3, <1>5, <1>6, <1>7 DEF SummaryInv

\* The parameters do not change.
LEMMA SameParameters ==
  ASSUME UNCHANGED <<max_messages, keep_recent, summarize_threshold>>
  PROVE  /\ Shape(summarized, log)' <=> Shape(summarized', log')
         /\ Whole(summarized, log)' <=> Whole(summarized', log')
         /\ Roomy' <=> Roomy
<1>1. Shape(summarized, log)' <=> Shape(summarized', log')
  BY DEF Shape, Verbatim, OldestKept, HeadsOf, IsSystem
<1>2. Whole(summarized, log)' <=> Whole(summarized', log')
  BY DEF Whole, HeadsOf, IsSystem
<1>3. Roomy' <=> Roomy
  BY DEF Roomy
<1> QED
  BY <1>1, <1>2, <1>3
\* Which messages of the log each message of the history stands for.
LEMMA WhatStandsWhere ==
  ASSUME HistoryInv, SummaryInv
  PROVE  LET S == Len(summarized)  L == Len(log)  d == L - S
         IN  /\ S \in Nat /\ L \in Nat /\ Heads \in {0, 1} /\ d \in Nat /\ Heads <= S
             /\ S <= max_messages /\ max_messages \in Nat \ {0}
             /\ keep_recent \in Nat /\ summarize_threshold \in Nat
             /\ Heads = 1 => S >= 1 /\ summarized[1] = log[1] /\ summarized[1].ids = {1}
             /\ \A i \in Heads + 2 .. S : summarized[i].ids = {d + i} /\ summarized[i] = log[d + i]
             /\ S > Heads => \E a \in Heads + 1 .. d + Heads + 1 :
                               summarized[Heads + 1].ids = a .. d + Heads + 1
             /\ S > Heads => \/ /\ summarized[Heads + 1] = log[d + Heads + 1]
                                /\ S = L \/ S = max_messages
                             \/ S > Heads + keep_recent
             /\ S = Heads => S = L \/ max_messages = Heads
<1> DEFINE S == Len(summarized)
           L == Len(log)
           d == L - S
<1>1. /\ LogOK(log) /\ HeadsOf(log) = Heads /\ max_messages \in Nat \ {0}
      /\ keep_recent \in Nat /\ summarize_threshold \in Nat
      /\ summarized \in Seq(Message) /\ log \in Seq(Message)
  BY LogFacts, SummaryAssumption DEF SummaryInv, LogOK
<1>2. /\ Verbatim(summarized, log, Heads)
      /\ S > Heads => OldestKept(summarized, log, Heads)
      /\ S = Heads => S = L \/ max_messages = Heads
  BY <1>1 DEF SummaryInv, Shape
<1>3. /\ S \in Nat /\ L \in Nat /\ Heads \in {0, 1} /\ d \in Nat /\ Heads <= S /\ S <= max_messages
  BY <1>1, <1>2 DEF Verbatim, Heads
<1>4. \A i \in 1 .. L : log[i].ids = {i}
  BY DEF HistoryInv, Rounds
<1>5. Heads = 1 => S >= 1 /\ summarized[1] = log[1] /\ summarized[1].ids = {1}
  BY <1>2, <1>3, <1>4 DEF Verbatim
<1>6. ASSUME NEW i \in Heads + 2 .. S
      PROVE  summarized[i].ids = {d + i} /\ summarized[i] = log[d + i]
  <2>1. d + i = L - S + i /\ d + i \in 1 .. L
    BY <1>3
  <2>2. summarized[i] = log[L - S + i]
    BY <1>2 DEF Verbatim
  <2> QED
    BY <1>4, <2>1, <2>2
<1>7. ASSUME S > Heads
      PROVE  /\ \E a \in Heads + 1 .. d + Heads + 1 : summarized[Heads + 1].ids = a .. d + Heads + 1
             /\ \/ /\ summarized[Heads + 1] = log[d + Heads + 1]
                   /\ S = L \/ S = max_messages
                \/ S > Heads + keep_recent
  BY <1>2, <1>7 DEF OldestKept
<1> QED
  BY <1>1, <1>2, <1>3, <1>5, <1>6, <1>7

LEMMA NothingLostFromInv == HistoryInv /\ SummaryInv => NothingLost
<1> SUFFICES ASSUME HistoryInv, SummaryInv, ~failed, Roomy
             PROVE  PushesIn(summarized) = Pushed
  BY DEF NothingLost, Roomy
<1> DEFINE S == Len(summarized)
           L == Len(log)
           d == L - S
           h == Heads
<1>1. /\ S \in Nat /\ L \in Nat /\ h \in {0, 1} /\ d \in Nat /\ h <= S
      /\ h = 1 => S >= 1 /\ summarized[1].ids = {1}
      /\ \A i \in h + 2 .. S : summarized[i].ids = {d + i}
      /\ S = h => S = L \/ max_messages = h
      /\ max_messages \in Nat /\ keep_recent \in Nat /\ summarize_threshold \in Nat
  BY WhatStandsWhere
<1>2. S > h => summarized[h + 1].ids = h + 1 .. d + h + 1
  BY LogFacts DEF SummaryInv, Whole
<1>3. S = h => S = L
  BY <1>1 DEF Roomy
<1> HIDE DEF h
<1>4. ASSUME NEW n \in 1 .. L
      PROVE  \E i \in 1 .. S : n \in summarized[i].ids
  <2>1. CASE n <= h
    BY <1>1, <2>1
  <2>2. CASE n > h /\ n <= d + h + 1
    <3>1. S > h
      BY <1>1, <1>3, <2>2
    <3>2. h + 1 \in 1 .. S /\ n \in summarized[h + 1].ids
      BY <1>1, <1>2, <2>2, <3>1
    <3> QED
      BY <3>2
  <2>3. CASE n > d + h + 1
    <3>1. n - d \in h + 2 .. S /\ d + (n - d) = n /\ n - d \in 1 .. S
      BY <1>1, <2>3
    <3>2. summarized[n - d].ids = {n}
      BY <1>1, <3>1
    <3> QED
      BY <3>1, <3>2
  <2> QED
    BY <1>1, <2>1, <2>2, <2>3
<1>5. ASSUME NEW i \in 1 .. S, NEW n \in summarized[i].ids
      PROVE  n \in 1 .. L
  <2>1. CASE i <= h
    BY <1>1, <2>1
  <2>2. CASE i = h + 1
    BY <1>1, <1>2, <2>2
  <2>3. CASE i \in h + 2 .. S
    BY <1>1, <2>3
  <2> QED
    BY <1>1, <2>1, <2>2, <2>3
<1> QED
  BY <1>4, <1>5 DEF PushesIn, Pushed

LEMMA RecentVerbatimFromInv == HistoryInv /\ SummaryInv => RecentVerbatim
<1> SUFFICES ASSUME HistoryInv, SummaryInv
             PROVE  RecentVerbatim
  OBVIOUS
<1> DEFINE S == Len(summarized)
           L == Len(log)
           d == L - S
           h == Heads
           rest == {n \in Pushed : n > Heads}
           fits == {n \in rest : Len(log) - n < keep_recent /\ Len(log) - n < max_messages - Heads}
<1>1. /\ S \in Nat /\ L \in Nat /\ h \in {0, 1} /\ d \in Nat /\ h <= S
      /\ S <= max_messages /\ max_messages \in Nat \ {0} /\ keep_recent \in Nat
      /\ h = 1 => S >= 1 /\ summarized[1] = log[1] /\ summarized[1].ids = {1}
      /\ \A i \in h + 2 .. S : summarized[i].ids = {d + i} /\ summarized[i] = log[d + i]
      /\ S > h => \E a \in h + 1 .. d + h + 1 : summarized[h + 1].ids = a .. d + h + 1
      /\ S > h => \/ /\ summarized[h + 1] = log[d + h + 1]
                     /\ S = L \/ S = max_messages
                  \/ S > h + keep_recent
      /\ S = h => S = L \/ max_messages = h
  BY WhatStandsWhere
<1>2. HasSystem => log[1] = summarized[1]
  BY <1>1 DEF Heads
<1> HIDE DEF h
<1>3. ASSUME NEW i \in 1 .. S
      PROVE  /\ i <= h => i = 1 /\ h = 1 /\ summarized[i].ids = {1}
             /\ i > h => \A n \in summarized[i].ids : n \in Nat /\ n > h /\ n <= d + i
  <2>1. i <= h => i = 1 /\ h = 1 /\ summarized[i].ids = {1}
    BY <1>1
  <2>2. i = h + 1 => \A n \in summarized[i].ids : n \in Nat /\ n > h /\ n <= d + i
    BY <1>1
  <2>3. i \in h + 2 .. S => \A n \in summarized[i].ids : n \in Nat /\ n > h /\ n <= d + i
    BY <1>1
  <2> QED
    BY <1>1, <2>1, <2>2, <2>3
<1>4. ASSUME NEW i \in 1 .. S, NEW j \in 1 .. S, i < j,
             NEW a \in summarized[i].ids, NEW b \in summarized[j].ids
      PROVE  a < b
  <2>1. CASE i <= h
    <3>1. a = 1 /\ h = 1 /\ j > h
      BY <1>1, <1>3, <1>4, <2>1
    <3>2. b \in Nat /\ b > h
      BY <1>3, <3>1
    <3> QED
      BY <3>1, <3>2
  <2>2. CASE i > h
    <3>1. j \in h + 2 .. S
      BY <1>1, <1>4, <2>2
    <3>2. b = d + j
      BY <1>1, <3>1
    <3>3. a \in Nat /\ a <= d + i
      BY <1>3, <2>2
    <3> QED
      BY <1>1, <1>4, <3>2, <3>3
  <2> QED
    BY <1>1, <2>1, <2>2
<1>5. ASSUME NEW n \in h + 1 .. L, n > d + h + 1
      PROVE  n - d \in 1 .. S /\ summarized[n - d].ids = {n} /\ summarized[n - d] = log[n]
  <2>1. n - d \in h + 2 .. S /\ d + (n - d) = n /\ n - d \in 1 .. S
    BY <1>1, <1>5
  <2> QED
    BY <1>1, <2>1
<1>6. ASSUME NEW a \in h + 1 .. L, NEW b \in h + 1 .. L, a \in PushesIn(summarized), a < b
      PROVE  b \in PushesIn(summarized)
  <2>1. CASE b > d + h + 1
    BY <1>5, <2>1 DEF PushesIn
  <2>2. CASE b <= d + h + 1
    <3>1. PICK i \in 1 .. S : a \in summarized[i].ids
      BY <1>6 DEF PushesIn
    <3>2. i > h
      BY <1>1, <1>3, <1>6, <3>1
    <3>3. i = h + 1
      <4> SUFFICES ASSUME i \in h + 2 .. S PROVE FALSE
        BY <1>1, <3>2
      <4>1. a = d + i
        BY <1>1, <3>1
      <4> QED
        BY <1>1, <1>6, <2>2, <4>1
    <3>4. PICK x \in h + 1 .. d + h + 1 : summarized[h + 1].ids = x .. d + h + 1
      BY <1>1, <3>3
    <3>5. b \in summarized[h + 1].ids
      BY <1>1, <1>6, <2>2, <3>1, <3>3, <3>4
    <3> QED
      BY <3>3, <3>5 DEF PushesIn
  <2> QED
    BY <1>1, <2>1, <2>2
<1>7. ASSUME NEW n \in h + 1 .. L, L - n < keep_recent, L - n < max_messages - h
      PROVE  \E i \in 1 .. S : summarized[i] = log[n]
  <2>1. CASE n > d + h + 1
    BY <1>5, <2>1
  <2>2. CASE n <= d + h + 1
    <3>1. S > h
      BY <1>1, <1>7
    <3>2. /\ summarized[h + 1] = log[d + h + 1]
          /\ S = L \/ S = max_messages
      <4>1. ~(S > h + keep_recent)
        BY <1>1, <1>7, <2>2
      <4> QED
        BY <1>1, <3>1, <4>1
    <3>3. n = d + h + 1
      <4>1. S \in Nat /\ L \in Nat /\ h \in Nat /\ max_messages \in Nat /\ n \in Nat /\ n >= h + 1
        BY <1>1
      <4>2. CASE S = L
        BY <2>2, <4>1, <4>2
      <4>3. CASE S = max_messages
        BY <1>7, <2>2, <4>1, <4>3
      <4> QED
        BY <3>2, <4>2, <4>3
    <3>4. h + 1 \in 1 .. S
      BY <1>1, <3>1
    <3> QED
      BY <3>2, <3>3, <3>4
  <2>3. n > d + h + 1 \/ n <= d + h + 1
    BY <1>1
  <2> QED
    BY ONLY <2>1, <2>2, <2>3
<1>8. \A n \in rest : n \in h + 1 .. L
  BY <1>1 DEF Pushed, h
<1>9. \A a, b \in rest : a \in PushesIn(summarized) /\ a < b => b \in PushesIn(summarized)
  BY <1>6, <1>8
<1>10. \A n \in fits : \E i \in 1 .. S : summarized[i] = log[n]
  BY <1>7, <1>8 DEF h
<1> QED
  BY <1>1, <1>2, <1>4, <1>9, <1>10 DEF RecentVerbatim

-----------------------------------------------------------------------------
LOCAL Order == INSTANCE WellFoundedInduction

\* A nonempty set of numbers has a least one.
LEMMA LeastNumber ==
  ASSUME NEW U \in SUBSET Nat, U # {}
  PROVE  \E x \in U : \A y \in U : x <= y
<1> DEFINE R == {ss \in Nat \X Nat : ss[1] < ss[2]}
<1>1. Order!IsWellFoundedOn(R, Nat)
  BY Order!NatLessThanWellFounded, Zenon DEF Order!OpToRel
<1>2. ASSUME NEW x \in Nat, NEW y \in Nat, ~ (<<y, x>> \in R)
      PROVE  x <= y
  BY <1>2
<1> HIDE DEF R
<1>3. \E x \in U : \A y \in U : ~ (<<y, x>> \in R)
  BY <1>1, Order!WFMin, Zenon
<1> QED
  BY <1>2, <1>3

\* What new_conv receives fits: it ends up with exactly that.
LEMMA PushAllFits ==
  ASSUME max_messages \in Nat, NEW q \in Seq(Message), Len(q) <= max_messages
  PROVE  PushAll(q) = q
<1> DEFINE Grows(g) == g = [n \in 0 .. Len(q) |->
                              IF n = 0 THEN <<>> ELSE push(g[n - 1], max_messages, q[n])]
           w == [n \in 0 .. Len(q) |-> SubSeq(q, 1, n)]
           conv == CHOOSE g : Grows(g)
<1>1. ASSUME NEW n \in 0 .. Len(q), n # 0
      PROVE  push(SubSeq(q, 1, n - 1), max_messages, q[n]) = SubSeq(q, 1, n)
  <2> DEFINE p == SubSeq(q, 1, n - 1)
  <2>1. n \in 1 .. Len(q) /\ Len(q) \in Nat /\ q[n] \in Message
    BY <1>1
  <2>2. p \in Seq(Message) /\ Len(p) = n - 1 /\ \A i \in 1 .. n - 1 : p[i] = q[i]
    BY <2>1
  <2>3. Len(p) < max_messages
    BY <2>1, <2>2
  <2>4. Append(p, q[n]) = SubSeq(q, 1, n)
    <3>1. Append(p, q[n]) \in Seq(Message) /\ Len(Append(p, q[n])) = n
      BY <2>1, <2>2
    <3>2. SubSeq(q, 1, n) \in Seq(Message) /\ Len(SubSeq(q, 1, n)) = n
      BY <2>1
    <3>3. ASSUME NEW i \in 1 .. n PROVE Append(p, q[n])[i] = SubSeq(q, 1, n)[i]
      BY <2>1, <2>2
    <3> HIDE DEF p
    <3> QED
      BY <3>1, <3>2, <3>3
  <2> HIDE DEF p
  <2>5. push(p, max_messages, q[n]) = Append(p, q[n])
    BY <2>1, <2>2, <2>3, PushFits
  <2> QED
    BY <2>4, <2>5 DEF p
<1>2. SubSeq(q, 1, 0) = <<>>
  OBVIOUS
<1>3. Grows(w)
  <2>1. \A n \in 0 .. Len(q) : n # 0 => n - 1 \in 0 .. Len(q)
    OBVIOUS
  <2>2. ASSUME NEW n \in 0 .. Len(q)
        PROVE  w[n] = IF n = 0 THEN <<>> ELSE push(w[n - 1], max_messages, q[n])
    BY <1>1, <1>2, <2>1
  <2>3. w = [n \in 0 .. Len(q) |-> w[n]]
    OBVIOUS
  <2> HIDE DEF w
  <2> QED
    BY <2>2, <2>3
<1>4. Grows(conv)
  <2> HIDE DEF w, Grows
  <2> QED
    BY <1>3
<1> HIDE DEF conv
<1>5. ASSUME NEW n \in 0 .. Len(q)
      PROVE  conv[n] = IF n = 0 THEN <<>> ELSE push(conv[n - 1], max_messages, q[n])
  BY <1>4
<1>6. \A n \in 0 .. Len(q) : conv[n] = SubSeq(q, 1, n)
  <2> DEFINE U == {n \in 0 .. Len(q) : conv[n] # SubSeq(q, 1, n)}
  <2> SUFFICES ASSUME U # {} PROVE FALSE
    OBVIOUS
  <2>1. PICK n \in U : \A k \in U : n <= k
    <3>1. U \in SUBSET Nat
      OBVIOUS
    <3> HIDE DEF U
    <3> QED
      BY <3>1, LeastNumber
  <2>2. n \in 0 .. Len(q) /\ conv[n] # SubSeq(q, 1, n)
    OBVIOUS
  <2>3. n # 0
    BY <1>2, <1>5, <2>2
  <2>4. n - 1 \in 0 .. Len(q) /\ n - 1 \notin U
    BY <2>1, <2>2, <2>3
  <2>5. conv[n - 1] = SubSeq(q, 1, n - 1)
    BY <2>4
  <2> QED
    BY <1>1, <1>5, <2>2, <2>3, <2>5
<1>7. SubSeq(q, 1, Len(q)) = q
  OBVIOUS
<1>8. PushAll(q) = conv[Len(q)]
  BY DEF PushAll, conv
<1> QED
  BY <1>6, <1>7, <1>8

\* maybe_summarize() with an answer from the LLM.
LEMMA RebuildKeepsShape ==
  ASSUME NEW s, NEW l, ToShorten(s, l)
  PROVE  /\ Rebuild(s) \in Seq(Message) /\ Len(Rebuild(s)) = HeadsOf(l) + 1 + keep_recent
         /\ Shape(Rebuild(s), l)
         /\ Whole(s, l) => Whole(Rebuild(s), l)
<1> DEFINE h == HeadsOf(l)
           q == Shortened(s)
           n == Len(l)
<1>1. /\ h \in {0, 1} /\ Len(s) \in Nat /\ n \in Nat /\ Len(s) <= n /\ Len(s) <= max_messages
      /\ end(s) = Len(s) - keep_recent /\ end(s) \in h + 2 .. Len(s)
      /\ OldestKept(s, l, h) /\ (h = 1 => s[1] = l[1])
  BY ShortenFacts
<1>2. max_messages \in Nat \ {0} /\ keep_recent \in Nat
  BY DEF ToShorten
<1>3. /\ q \in Seq(Message) /\ Len(q) = h + 1 + keep_recent /\ Len(q) < Len(s)
      /\ h = 1 => q[1] = s[1]
      /\ q[h + 1] = Summary(s)
      /\ \A i \in h + 2 .. Len(q) : q[i] = l[n - Len(q) + i]
  BY ShortenedFacts
<1>4. \A a \in h + 1 .. n - Len(s) + h + 1 :
        s[h + 1].ids = a .. n - Len(s) + h + 1 => Summary(s).ids = a .. n - Len(s) + end(s)
  BY SummaryIds
<1> HIDE DEF h, q, n
<1>0. /\ h \in Nat /\ n \in Nat /\ Len(s) \in Nat /\ Len(q) \in Nat
      /\ max_messages \in Nat /\ keep_recent \in Nat
      /\ Len(q) = h + 1 + keep_recent /\ Len(q) < Len(s) /\ Len(s) <= n /\ Len(s) <= max_messages
      /\ end(s) = Len(s) - keep_recent
  <2>1. Len(q) \in Nat /\ h \in Nat
    BY ONLY <1>1, <1>3
  <2> QED
    BY ONLY <1>1, <1>2, <1>3, <2>1
<1>5. Rebuild(s) = q
  <2>1. Rebuild(s) = PushAll(q)
    BY DEF Rebuild, q, Shortened
  <2>2. Len(q) <= max_messages
    BY ONLY <1>0
  <2> QED
    BY <1>2, <1>3, <2>1, <2>2, PushAllFits
<1>6. Verbatim(q, l, h)
  <2>1. Len(q) <= max_messages /\ Len(q) <= n /\ h <= Len(q)
    BY ONLY <1>0
  <2> QED
    BY <1>1, <1>3, <2>1 DEF Verbatim, n
<1>7. n - Len(s) + end(s) = n - Len(q) + h + 1
  BY ONLY <1>0
<1>8. OldestKept(q, l, h)
  <2>1. ~IsSystem(Summary(s))
    BY DEF IsSystem, Summary
  <2>2. PICK a \in h + 1 .. n - Len(s) + h + 1 : s[h + 1].ids = a .. n - Len(s) + h + 1
    BY <1>1 DEF OldestKept, n
  <2>3. Summary(s).ids = a .. n - Len(q) + h + 1
    BY <1>4, <1>7, <2>2
  <2>4. a \in h + 1 .. n - Len(q) + h + 1
    BY ONLY <1>0, a \in h + 1 .. n - Len(s) + h + 1
  <2>5. Len(q) > h + keep_recent
    BY ONLY <1>0
  <2> QED
    BY <1>3, <2>1, <2>3, <2>4, <2>5 DEF OldestKept, n
<1>9. Shape(q, l)
  <2>1. Len(q) > h /\ Len(q) # h
    BY ONLY <1>0
  <2> QED
    BY <1>6, <1>8, <2>1 DEF Shape, h
<1>10. ASSUME Whole(s, l) PROVE Whole(q, l)
  <2>1. Len(s) > h /\ h + 1 \in h + 1 .. n - Len(s) + h + 1
    BY ONLY <1>0
  <2>2. s[h + 1].ids = h + 1 .. n - Len(s) + h + 1
    BY <1>10, <2>1 DEF Whole, h, n
  <2>3. q[h + 1].ids = h + 1 .. n - Len(q) + h + 1
    BY <1>3, <1>4, <1>7, <2>1, <2>2
  <2> QED
    BY <2>3 DEF Whole, h, n
<1> QED
  BY <1>3, <1>5, <1>9, <1>10 DEF h

\* push() of SummarizingConversation.
LEMMA PushKeepsSummaryInv ==
  ASSUME HistoryInv, HistoryInv', SummaryInv,
         NEW m, log' = Append(log, m), m \in Message,
         Summarize, UNCHANGED <<max_messages, keep_recent, summarize_threshold>>
  PROVE  SummaryInv'
<1> DEFINE h == HeadsOf(log')
           p == push(summarized, max_messages, m)
<1>1. /\ LogOK(log) /\ LogOK(log') /\ max_messages \in Nat \ {0}
      /\ keep_recent \in Nat /\ summarize_threshold \in Nat
      /\ summarized \in Seq(Message) /\ Shape(summarized, log)
      /\ summarize_threshold' \in Thresholds /\ keep_recent' \in Keeps
      /\ h \in {0, 1}
  <2>1. LogOK(log) /\ max_messages \in Nat \ {0}
    BY LogFacts
  <2>2. LogOK(log)'
    BY LogFacts, PTL
  <2>3. LogOK(log')
    BY <2>2 DEF LogOK, IsSystem, Message
  <2> QED
    BY <2>1, <2>3, SummaryAssumption DEF SummaryInv, HeadsOf
<1>2. log'[Len(log')] = m
  <2>1. log \in Seq(Message)
    BY <1>1 DEF LogOK
  <2> QED
    BY <2>1
<1>3. PushedTo(summarized, log, m)
  BY <1>1 DEF PushedTo
<1>4. /\ p \in Seq(Message) /\ Shape(p, log')
      /\ Len(summarized) < max_messages /\ Whole(summarized, log)
           => Len(p) = Len(summarized) + 1 /\ Whole(p, log')
  BY <1>3, PushKeepsShape
<1>5. \/ ~Worth(p) /\ summarized' = p /\ failed' = failed
      \/ Worth(p) /\ summarized' = Rebuild(p) /\ failed' = failed
      \/ Worth(p) /\ summarized' = p /\ failed' = TRUE
  BY <1>2 DEF Summarize
<1> HIDE DEF p, h
<1>6. ASSUME Worth(p)
      PROVE  /\ Rebuild(p) \in Seq(Message) /\ Len(Rebuild(p)) = h + 1 + keep_recent
             /\ Shape(Rebuild(p), log')
             /\ Whole(p, log') => Whole(Rebuild(p), log')
  <2>1. ToShorten(p, log')
    BY <1>1, <1>4, <1>6 DEF ToShorten
  <2> QED
    BY <2>1, RebuildKeepsShape DEF h
<1>7. summarized' \in Seq(Message) /\ Shape(summarized', log')
  BY <1>4, <1>5, <1>6
<1>8. ASSUME Roomy, failed' # TRUE
      PROVE  Len(summarized') < summarize_threshold /\ Whole(summarized', log')
  <2>1. Len(summarized) < summarize_threshold /\ Whole(summarized, log)
    BY <1>5, <1>8 DEF SummaryInv
  <2>2. Len(summarized) \in Nat /\ Len(summarized) < max_messages
        /\ keep_recent + 3 <= summarize_threshold
    BY <1>1, <1>8, <2>1 DEF Roomy
  <2>3. Len(p) = Len(summarized) + 1 /\ Whole(p, log')
    BY <1>4, <2>1, <2>2
  <2>4. CASE Worth(p) /\ summarized' = Rebuild(p)
    BY <1>1, <1>6, <2>2, <2>3, <2>4
  <2>5. CASE ~Worth(p) /\ summarized' = p
    <3>1. Len(p) < summarize_threshold
      <4> SUFFICES ASSUME Len(p) >= summarize_threshold PROVE FALSE
        BY <1>1, <2>2, <2>3
      <4>1. start(p) \in {0, 1}
        BY DEF start
      <4>2. end(p) = Len(p) - keep_recent /\ end(p) >= 3
        BY <1>1, <2>2, <2>3 DEF end
      <4>3. end(p) > start(p) + 1
        BY <1>1, <2>2, <2>3, <4>1, <4>2
      <4> QED
        BY <2>5, <4>3 DEF Worth
    <3> QED
      BY <2>3, <2>5, <3>1
  <2> QED
    BY <1>5, <1>8, <2>4, <2>5
<1> QED
  BY <1>1, <1>7, <1>8, SameParameters DEF SummaryInv

LEMMA StepSummaryInv == HistoryInv /\ SummaryInv /\ [SNext]_<<history_vars, summary>> => HistoryInv' /\ SummaryInv'
<1> SUFFICES ASSUME HistoryInv, SummaryInv, [SNext]_<<history_vars, summary>>
             PROVE  HistoryInv' /\ SummaryInv'
  OBVIOUS
<1>1. [HistoryNext]_history_vars
  BY DEF SNext, SPush, SStop, SClear, HistoryNext
<1>2. HistoryInv'
  BY <1>1, NextHistoryInv
<1>3. CASE SPush
  <2> DEFINE m == log'[Len(log')]
  <2>1. \E x : log' = Append(log, x)
    BY <1>3 DEF SPush, PushSystem, PushPrompt, PushAnswer, PushTool, PushMessage
  <2>2. log \in Seq(Message) /\ log' \in Seq(Message)
    BY <1>2 DEF HistoryInv, HistoryTypes, Message
  <2>3. log' = Append(log, m) /\ m \in Message
    BY <2>1, <2>2
  <2>4. Summarize /\ UNCHANGED <<max_messages, keep_recent, summarize_threshold>>
    BY <1>3 DEF SPush, PushSystem, PushPrompt, PushAnswer, PushTool, PushMessage
  <2> QED
    BY <1>2, <2>3, <2>4, PushKeepsSummaryInv
<1>4. CASE SStop \/ UNCHANGED <<history_vars, summary>>
  <2>1. UNCHANGED <<max_messages, log, summarize_threshold, keep_recent, summarized, failed>>
    BY <1>4 DEF SStop, EndRun, history_vars, summary
  <2> QED
    BY <1>2, <2>1, SameParameters DEF SummaryInv
<1>5. CASE SClear
  <2>1. /\ summarized' = <<>> /\ log' = <<>>
        /\ UNCHANGED <<max_messages, keep_recent, summarize_threshold>>
    BY <1>5 DEF SClear, Clear
  <2>2. HeadsOf(<<>>) = 0 /\ Len(<<>>) = 0 /\ <<>> \in Seq(Message)
    BY DEF HeadsOf
  <2>3. max_messages \in Nat \ {0} /\ summarize_threshold \in Nat /\ keep_recent \in Nat
    BY LogFacts, SummaryAssumption DEF SummaryInv
  <2>4. Shape(<<>>, <<>>)
    BY <2>2, <2>3 DEF Shape, Verbatim
  <2>5. Whole(<<>>, <<>>) /\ (Roomy => 0 < summarize_threshold)
    BY <2>2, <2>3 DEF Whole, Roomy
  <2> QED
    BY <1>2, <2>1, <2>2, <2>4, <2>5, SameParameters DEF SummaryInv
<1> QED
  BY <1>3, <1>4, <1>5 DEF SNext

(***************************************************************************)
(* As long as the LLM answers and the parameters leave room for a summary, *)
(* no message pushed is lost: every one is in the history or in a summary  *)
(* (summarizing_conversation.h:40-101), whatever the capacity, the         *)
(* threshold, the number kept and the number of messages.                  *)
(***************************************************************************)
THEOREM SummaryLosesNothing == SSpec => []NothingLost
BY InitSummaryInv, StepSummaryInv, NothingLostFromInv, PTL DEF SSpec

(***************************************************************************)
(* However often the LLM fails, the history stands in order for the system *)
(* message and an unbroken run of the last messages, and the newest        *)
(* keep_recent of them are there verbatim                                  *)
(* (summarizing_conversation.h:40-101).                                    *)
(***************************************************************************)
THEOREM SummaryKeepsRecent == SSpec => []RecentVerbatim
BY InitSummaryInv, StepSummaryInv, RecentVerbatimFromInv, PTL DEF SSpec
=============================================================================
