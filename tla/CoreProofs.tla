----------------------------- MODULE CoreProofs -----------------------------
(***************************************************************************)
(* The lock-free components of core/, each on its own.                     *)
(*                                                                         *)
(* core/future.h: the continuation has one owner and is freed once         *)
(* (FreedOnce), and every step is one of AbstractFuture's or leaves it     *)
(* alone.                                                                  *)
(*                                                                         *)
(* core/work_stealing_deque.h: no item is lost or taken twice, for any     *)
(* number of thieves, any initial capacity and any number of pushes, and   *)
(* the deque is that of AbstractDeque: every step adds the item at the     *)
(* bottom, takes the one at the bottom or at the top, or changes nothing   *)
(* of it.                                                                  *)
(***************************************************************************)
EXTENDS Future, WorkStealingDeque, TLAPS

\* Each side holds its reference until it is dropped.
RefsInv ==
  /\ "promise" \in refs <=> ppc # "gone"
  /\ "future" \in refs <=> cpc # "gone"

\* The producer: what it has published so far.  The exchange in the setter is
\* the first to put the sentinel into the slot.
ProducerInv ==
  /\ ppc = "start" => ~exception
  /\ ppc \in {"start", "publish"} => ~ready
  /\ ppc \in {"exchange", "invoke", "delete", "drop"} => ready
  /\ ppc = "invoke" => ~exception
  /\ slot = "sentinel" => ready /\ ppc # "exchange"
  /\ ready /\ ppc # "exchange" => slot # "null"

\* The value is there once it is published, until ~SharedState.
ValueInv ==
  /\ exception \/ ppc = "start" \/ (ppc = "gone" /\ ~ready) => value = "raw"
  /\ ppc = "publish" /\ ~exception => value = "live"
  /\ ready /\ ~exception /\ refs # {} => value \in {"live", "moved"}
  /\ refs = {} => value \in {"raw", "destroyed"}

\* Before then() there is no continuation; after it, a live one is in the slot
\* or in the hands of the producer.
Asking == {"start", "get", "wait_for"}
Calling == {"then_invoke", "then_delete", "then_mark"}
ContInv ==
  /\ cpc \in Asking => cont = "none" /\ slot # "cont"
  /\ cpc = "then_exchange" => cont = "live" /\ slot # "cont"
  /\ cpc \in Calling => slot = "cont" /\ ppc \in {"drop", "gone"} /\ ready
  /\ cpc \in {"then_invoke", "then_delete"} => cont = "live"
  /\ ProducerHasCont => cont = "live" /\ slot = "sentinel" /\ cpc \in {"drop", "gone"}
  /\ slot = "cont" /\ refs # {} /\ cpc # "then_mark" => cont = "live"
  /\ cpc \in {"drop", "gone"} /\ refs # {} /\ cont = "live" => slot = "cont" \/ ProducerHasCont
  /\ cpc = "then_mark" => cont = "freed"
  /\ refs = {} => cont # "live"

\* The callback has not been called before its time, and nobody is answered who
\* has registered one.
CallInv ==
  /\ cpc \in Asking \cup {"then_exchange", "then_invoke"} => calls = 0
  /\ ppc \in {"start", "publish", "exchange", "invoke"} => calls = 0
  /\ calls > 0 => cont # "none"
  /\ cpc \in Asking => answer = "none"
  /\ cont # "none" => answer = "none"

FutureInv == FutureTypeOK /\ RefsInv /\ ProducerInv /\ ValueInv /\ ContInv /\ CallInv

-----------------------------------------------------------------------------
LEMMA InitFutureInv == FutureInit => FutureInv
<1> SUFFICES ASSUME FutureInit PROVE FutureInv
  OBVIOUS
<1>1. ~ready /\ ~exception /\ ready \in BOOLEAN /\ exception \in BOOLEAN
  BY Zenon DEF FutureInit
<1> QED
  BY <1>1 DEF FutureInit, FutureInv, FutureTypeOK, RefsInv, ProducerInv, ValueInv, ContInv, CallInv, Asking,
              Calling, ProducerHasCont

\* One step per action: every action can disturb several of the conjuncts, and
\* the provers take the six of them together.
LEMMA StepFutureInv == FutureInv /\ [FutureNext]_future_vars => FutureInv'
<1> SUFFICES ASSUME FutureInv, [FutureNext]_future_vars PROVE FutureInv'
  OBVIOUS
<1> USE DEF FutureInv, FutureTypeOK, RefsInv, ProducerInv, ValueInv, ContInv, CallInv, Asking, Calling,
            ProducerHasCont, ProducerTo, ConsumerTo
<1>1. CASE SetValue
  BY <1>1 DEF SetValue
<1>2. CASE SetException
  BY <1>2 DEF SetException
<1>3. CASE SetReady
  <2>1. ready' /\ ready' \in BOOLEAN
    BY <1>3, Zenon DEF SetReady, Published
  <2>2. /\ ppc = "publish" /\ ppc' = "exchange"
        /\ UNCHANGED <<exception, value, slot, cont, refs, cpc, calls, answer>>
    BY <1>3 DEF SetReady
  <2>3. FutureTypeOK' /\ RefsInv' /\ ValueInv'
    BY <2>1, <2>2
  <2>4. ProducerInv'
    BY <2>1, <2>2
  <2>5. ContInv' /\ CallInv'
    BY <2>1, <2>2
  <2> QED
    BY <2>3, <2>4, <2>5 DEF FutureInv
<1>4. CASE SetExchange
  BY <1>4 DEF SetExchange, AfterExchange
<1>5. CASE SetInvoke
  BY <1>5 DEF SetInvoke
<1>6. CASE SetDelete
  BY <1>6 DEF SetDelete
<1>7. CASE PromiseDrop
  <2>1. FutureTypeOK' /\ RefsInv' /\ ProducerInv'
    BY <1>7 DEF PromiseDrop, Release, DestroyedValue, DestroyedCont
  <2>2. refs # {} /\ (refs' = {} <=> cpc = "gone")
    BY <1>7 DEF PromiseDrop, Release
  <2>3. ValueInv'
    BY <1>7, <2>2 DEF PromiseDrop, Release, DestroyedValue
  <2>4. ContInv'
    BY <1>7, <2>2 DEF PromiseDrop, Release, DestroyedCont
  <2>5. CallInv'
    BY <1>7, <2>2 DEF PromiseDrop, Release, DestroyedCont
  <2> QED
    BY <2>1, <2>3, <2>4, <2>5
<1>8. CASE Then
  BY <1>8 DEF Then
<1>9. CASE ThenExchange
  BY <1>9 DEF ThenExchange, LateThen
<1>10. CASE ThenInvoke
  BY <1>10 DEF ThenInvoke, LateCall
<1>11. CASE ThenDelete
  BY <1>11 DEF ThenDelete
<1>12. CASE ThenMark
  BY <1>12 DEF ThenMark, ConsumedMark
<1>13. CASE Wait
  BY <1>13 DEF Wait
<1>14. CASE WaitTimeout
  BY <1>14 DEF WaitTimeout
<1>15. CASE WaitDone
  BY <1>15 DEF WaitDone
<1>16. CASE FutureDrop
  <2>1. FutureTypeOK' /\ RefsInv' /\ ProducerInv'
    BY <1>16 DEF FutureDrop, Release, DestroyedValue, DestroyedCont
  <2>2. refs # {} /\ (refs' = {} <=> ppc = "gone")
    BY <1>16 DEF FutureDrop, Release
  <2>3. ValueInv'
    BY <1>16, <2>2 DEF FutureDrop, Release, DestroyedValue
  <2>4. ContInv'
    BY <1>16, <2>2 DEF FutureDrop, Release, DestroyedCont
  <2>5. CallInv'
    BY <1>16, <2>2 DEF FutureDrop, Release, DestroyedCont
  <2> QED
    BY <2>1, <2>3, <2>4, <2>5
<1>17. CASE UNCHANGED future_vars
  BY <1>17 DEF future_vars
<1> QED
  BY <1>1, <1>2, <1>3, <1>4, <1>5, <1>6, <1>7, <1>8, <1>9, <1>10, <1>11, <1>12, <1>13, <1>14, <1>15, <1>16, <1>17
     DEF FutureNext, Producer, Setting, Consumer, ThenRest

\* The type invariant of the shared state and of the two threads on it.
THEOREM FutureTypes == FutureSpec => []FutureTypeOK
<1>1. FutureInv => FutureTypeOK
  BY DEF FutureInv
<1> QED
  BY InitFutureInv, StepFutureInv, <1>1, PTL DEF FutureSpec

\* Whatever the order of set_value()/set_exception(), then() and the two
\* destructors, the continuation is deleted exactly once and never used after.
THEOREM ContinuationFreedOnce == FutureSpec => []FreedOnce
<1>1. FutureInv => FreedOnce
  BY DEF FutureInv, FreedOnce, FutureTypeOK, ContInv, ValueInv, ProducerHasCont, ConsumerHasCont
<1> QED
  BY InitFutureInv, StepFutureInv, <1>1, PTL DEF FutureSpec

-----------------------------------------------------------------------------
\* Every step of the code is a step of AbstractFuture or changes nothing it sees.
LEMMA FutureStepRefines == FutureInv /\ [FutureNext]_future_vars => [AFuture!ANext]_(AFuture!avars)
<1> SUFFICES ASSUME FutureInv, [FutureNext]_future_vars PROVE [AFuture!ANext]_(AFuture!avars)
  OBVIOUS
<1> USE DEF FutureInv, FutureTypeOK, ProducerInv, ContInv, CallInv, Asking, Calling, ProducerHasCont,
            ProducerTo, ConsumerTo, Outcome, Callback
<1>1. ASSUME SetValue PROVE UNCHANGED AFuture!avars
  BY <1>1 DEF SetValue, AFuture!avars
<1>2. ASSUME SetException PROVE UNCHANGED AFuture!avars
  BY <1>2 DEF SetException, AFuture!avars
<1>3. ASSUME SetReady PROVE AFuture!Resolve
  BY <1>3 DEF SetReady, Published, AFuture!Resolve
<1>4. ASSUME SetExchange PROVE UNCHANGED AFuture!avars
  BY <1>4 DEF SetExchange, AfterExchange, AFuture!avars
<1>5. ASSUME SetInvoke PROVE AFuture!Fire
  BY <1>5 DEF SetInvoke, AFuture!Fire
<1>6. ASSUME SetDelete PROVE UNCHANGED AFuture!avars
  BY <1>6 DEF SetDelete, AFuture!avars
<1>7. ASSUME PromiseDrop PROVE UNCHANGED AFuture!avars
  BY <1>7 DEF PromiseDrop, Release, DestroyedValue, DestroyedCont, AFuture!avars
<1>8. ASSUME Then PROVE AFuture!Register
  BY <1>8 DEF Then, AFuture!Register
<1>9. ASSUME ThenExchange PROVE UNCHANGED AFuture!avars
  BY <1>9 DEF ThenExchange, LateThen, AFuture!avars
<1>10. ASSUME ThenInvoke PROVE AFuture!Fire \/ UNCHANGED AFuture!avars
  BY <1>10 DEF ThenInvoke, LateCall, AFuture!Fire, AFuture!avars
<1>11. ASSUME ThenDelete PROVE UNCHANGED AFuture!avars
  BY <1>11 DEF ThenDelete, AFuture!avars
<1>12. ASSUME ThenMark PROVE UNCHANGED AFuture!avars
  BY <1>12 DEF ThenMark, ConsumedMark, AFuture!avars
<1>13. ASSUME Wait PROVE UNCHANGED AFuture!avars
  BY <1>13 DEF Wait, AFuture!avars
<1>14. ASSUME WaitTimeout PROVE UNCHANGED AFuture!avars
  BY <1>14 DEF WaitTimeout, AFuture!avars
<1>15. ASSUME WaitDone PROVE AFuture!Answer
  BY <1>15 DEF WaitDone, AFuture!Answer
<1>16. ASSUME FutureDrop PROVE UNCHANGED AFuture!avars
  BY <1>16 DEF FutureDrop, Release, DestroyedValue, DestroyedCont, AFuture!avars
<1>17. ASSUME UNCHANGED future_vars PROVE UNCHANGED AFuture!avars
  BY <1>17 DEF future_vars, AFuture!avars
<1> QED
  BY <1>1, <1>2, <1>3, <1>4, <1>5, <1>6, <1>7, <1>8, <1>9, <1>10, <1>11, <1>12, <1>13, <1>14, <1>15, <1>16, <1>17
     DEF FutureNext, Producer, Setting, Consumer, ThenRest, AFuture!ANext

\* One outcome, delivered to the caller of get()/wait_for() or, if it is a
\* value, to the callback, once: the safety part of RefinesAbstractFuture.
THEOREM FutureRefinement == FutureSpec => AFuture!ASafety
<1>1. FutureInit => AFuture!AInit
  BY DEF FutureInit, AFuture!AInit, Outcome, Callback
<1> QED
  BY InitFutureInv, StepFutureInv, FutureStepRefines, <1>1, PTL DEF FutureSpec, AFuture!ASafety

-----------------------------------------------------------------------------
Buffers == UNION {[cap : {c}, slot : [0 .. c - 1 -> Items \cup {Empty}]] : c \in Nat \ {0}}

-----------------------------------------------------------------------------
\* Division with remainder, as get() and put() use it.
LEMMA ModFacts ==
  ASSUME NEW c \in Nat \ {0}, NEW i \in Nat
  PROVE  i % c \in 0 .. c - 1 /\ i \div c \in Nat /\ i = c * (i \div c) + (i % c)
  OBVIOUS

\* Two indices less than a capacity apart use different slots.
LEMMA ModDistinct ==
  ASSUME NEW c \in Nat \ {0}, NEW i \in Nat, NEW j \in Nat, i < j, j - i < c
  PROVE  i % c # j % c
  <1>1. SUFFICES ASSUME i % c = j % c PROVE FALSE
    OBVIOUS
  <1>2. PICK q \in Nat, r \in Nat, m \in Nat : i = c * q + m /\ j = c * r + m
    <2>1. i \div c \in Nat /\ j \div c \in Nat /\ i % c \in Nat
      BY ModFacts
    <2>2. i = c * (i \div c) + (i % c) /\ j = c * (j \div c) + (i % c)
      BY <1>1, ModFacts
    <2> QED
      BY <2>1, <2>2, Zenon
  <1>3. j - i = c * (r - q)
    BY <1>2
  <1>4. r > q => c * (r - q) >= c
    OBVIOUS
  <1>5. r <= q => c * (r - q) <= 0
    OBVIOUS
  <1> QED
    BY <1>3, <1>4, <1>5

\* A buffer has a positive capacity and that many slots.
LEMMA BufferFacts ==
  ASSUME NEW buf \in Buffers
  PROVE  /\ buf.cap \in Nat \ {0}
         /\ buf.slot \in [0 .. buf.cap - 1 -> Items \cup {Empty}]
         /\ buf = [cap |-> buf.cap, slot |-> buf.slot]
  BY DEF Buffers

\* What grow() and the constructor build is a buffer.
LEMMA IsBuffer ==
  ASSUME NEW c \in Nat \ {0}, NEW f \in [0 .. c - 1 -> Items \cup {Empty}]
  PROVE  [cap |-> c, slot |-> f] \in Buffers
  BY DEF Buffers

\* get() reads an item or an unused slot.
LEMMA GetType ==
  ASSUME NEW buf \in Buffers, NEW i \in Nat
  PROVE  Get(buf, i) \in Items \cup {Empty}
  BY BufferFacts, ModFacts DEF Get

\* put() changes the slot of its own index and of none within a capacity of it.
LEMMA PutFacts ==
  ASSUME NEW buf \in Buffers, NEW i \in Nat, NEW v \in Items
  PROVE  /\ Put(buf, i, v) \in Buffers
         /\ Put(buf, i, v).cap = buf.cap
         /\ Get(Put(buf, i, v), i) = v
         /\ \A j \in Nat : j < i /\ i - j < buf.cap => Get(Put(buf, i, v), j) = Get(buf, j)
  <1>1. /\ buf.cap \in Nat \ {0} /\ buf.slot \in [0 .. buf.cap - 1 -> Items \cup {Empty}]
        /\ buf = [cap |-> buf.cap, slot |-> buf.slot]
    BY BufferFacts
  <1>2. i % buf.cap \in 0 .. buf.cap - 1
    BY <1>1, ModFacts
  <1>3. Put(buf, i, v) = [cap |-> buf.cap, slot |-> [buf.slot EXCEPT ![i % buf.cap] = v]]
    BY <1>1 DEF Put
  <1>4. [buf.slot EXCEPT ![i % buf.cap] = v] \in [0 .. buf.cap - 1 -> Items \cup {Empty}]
    BY <1>1
  <1>5. ASSUME NEW j \in Nat, j < i, i - j < buf.cap
        PROVE  Get(Put(buf, i, v), j) = Get(buf, j)
    <2>1. j % buf.cap # i % buf.cap /\ j % buf.cap \in 0 .. buf.cap - 1
      BY <1>1, <1>5, ModFacts, ModDistinct
    <2> QED
      BY <2>1, <1>1, <1>3 DEF Get
  <1> QED
    BY <1>1, <1>2, <1>3, <1>4, <1>5, IsBuffer DEF Get

\* grow() keeps every item of [t, b) at its index.
LEMMA GrowFacts ==
  ASSUME NEW buf \in Buffers, NEW t \in Nat, NEW b \in Nat, b - t <= buf.cap
  PROVE  /\ Grow(buf, t, b) \in Buffers
         /\ Grow(buf, t, b).cap = 2 * buf.cap
         /\ \A i \in t .. b - 1 : Get(Grow(buf, t, b), i) = Get(buf, i)
  <1> DEFINE c == 2 * buf.cap
             From(s) == {i \in t .. b - 1 : i % c = s}
             f == [s \in 0 .. c - 1 |->
                     IF From(s) = {} THEN Empty ELSE Get(buf, CHOOSE i \in From(s) : TRUE)]
  <1>1. buf.cap \in Nat \ {0} /\ c \in Nat \ {0} /\ c = 2 * buf.cap /\ b - t < c
    BY BufferFacts
  <1>2. Grow(buf, t, b) = [cap |-> c, slot |-> f]
    BY DEF Grow
  <1>3. f \in [0 .. c - 1 -> Items \cup {Empty}]
    <2>1. \A s \in 0 .. c - 1 : From(s) # {} => (CHOOSE i \in From(s) : TRUE) \in Nat
      OBVIOUS
    <2>2. \A s \in 0 .. c - 1 : From(s) # {} =>
            Get(buf, CHOOSE i \in From(s) : TRUE) \in Items \cup {Empty}
      BY <2>1, GetType
    <2> QED
      BY <2>2
  <1> HIDE DEF c
  <1>4. ASSUME NEW i \in t .. b - 1 PROVE f[i % c] = Get(buf, i)
    <2>0. i \in Nat
      OBVIOUS
    <2>1. i \in Nat /\ i % c \in 0 .. c - 1
      BY <2>0, <1>1, ModFacts
    <2>2. ASSUME NEW j \in t .. b - 1, j % c = i % c PROVE j = i
      <3>1. j \in Nat /\ i - j < c /\ j - i < c
        BY <1>1
      <3>2. ~(i < j)
        BY <3>1, <2>1, <2>2, <1>1, ModDistinct
      <3>3. ~(j < i)
        BY <3>1, <2>1, <2>2, <1>1, ModDistinct
      <3> QED
        BY <3>1, <3>2, <3>3, <2>1
    <2>3. i \in From(i % c) /\ \A j \in From(i % c) : j = i
      BY <2>2
    <2>4. (CHOOSE j \in From(i % c) : TRUE) = i
      BY <2>3
    <2> QED
      BY <2>1, <2>3, <2>4
  <1> HIDE DEF f
  <1>5. \A i \in t .. b - 1 : Get(Grow(buf, t, b), i) = Get(buf, i)
    BY <1>2, <1>4 DEF Get
  <1>6. [cap |-> c, slot |-> f] \in Buffers
    BY <1>1, <1>3, IsBuffer
  <1> QED
    BY <1>1, <1>2, <1>5, <1>6

-----------------------------------------------------------------------------
Pushing == opc \in {"push_grow", "push_put", "push_publish"}
Popping == opc \in {"pop_fence", "pop_cas", "pop_raced", "pop_empty"}
Committing(th) == tpc[th] \in {"steal_buffer", "steal_get", "steal_cas"}

\* The live items are between top_ and bottom_ and fit into the current buffer.
IndexInv ==
  /\ top <= LiveBottom
  /\ LiveBottom - top <= Current.cap
  /\ LiveBottom <= pushed

\* The owner's locals agree with the shared indices as far as it relies on them.
OwnerInv ==
  /\ Pushing => ob = bottom /\ ot <= top /\ pushed < MaxPushes
  /\ opc = "push_grow" => ob - ot <= Current.cap
  /\ opc \in {"push_put", "push_publish"} => ob - ot < Current.cap
  /\ opc = "push_publish" => Item(ob) = pushed + 1
  /\ Popping => ob = bottom
  /\ opc = "pop_cas" => ot = ob /\ ot <= top
  /\ opc = "pop_raced" => ot = ob /\ top = ob + 1
  /\ opc = "pop_empty" => ot = ob + 1 /\ top = ot

(***************************************************************************)
(* A thief whose t is still top_ holds a live index and the right item,    *)
(* even if it reads through a buffer that has been replaced.               *)
(***************************************************************************)
ThiefInv ==
  \A th \in Thieves :
    /\ tt[th] <= top
    /\ Committing(th) /\ tt[th] = top => top < LiveBottom
    /\ tpc[th] = "steal_get" => tbuf[th] \in 1 .. Len(bufs)
    /\ tpc[th] = "steal_get" /\ tt[th] = top => Get(bufs[tbuf[th]], top) = Item(top)
    /\ tpc[th] = "steal_cas" /\ tt[th] = top => tval[th] = Item(top)

\* What is live was pushed, what was not pushed was not taken.
ItemInv ==
  /\ \A i \in Live : Item(i) \in Items
  /\ \A v \in Items : v > pushed => Taken(v) = 0
  /\ ExactlyOnce

IInv == TypeOK /\ bufs \in Seq(Buffers) /\ IndexInv /\ OwnerInv /\ ThiefInv /\ ItemInv

-----------------------------------------------------------------------------
\* Type facts that the arithmetic steps need.
LEMMA Facts ==
  ASSUME IInv
  PROVE  /\ top \in Nat /\ bottom \in Int /\ LiveBottom \in Nat /\ pushed \in Nat
         /\ ob \in Int /\ ot \in Nat /\ MaxPushes \in Nat
         /\ Len(bufs) \in Nat \ {0} /\ Len(bufs) \in 1 .. Len(bufs)
         /\ Current \in Buffers /\ Current.cap \in Nat \ {0}
         /\ \A k \in 1 .. Len(bufs) : bufs[k] \in Buffers
         /\ \A i \in Live : i \in Nat
         /\ LiveBottom = IF Popping THEN bottom + 1 ELSE bottom
  <1> USE DequeAssumption DEF IInv
  <1>1. top \in Nat /\ bottom \in Int /\ pushed \in Nat /\ ob \in Int /\ ot \in Nat /\ Len(bufs) \in Nat \ {0}
    BY DEF TypeOK
  <1>2. LiveBottom \in Int /\ LiveBottom = IF Popping THEN bottom + 1 ELSE bottom
    BY <1>1 DEF LiveBottom, Popping
  <1>3. LiveBottom \in Nat /\ \A i \in Live : i \in Nat
    BY <1>1, <1>2 DEF IndexInv, Live
  <1>4. \A k \in 1 .. Len(bufs) : bufs[k] \in Buffers
    BY <1>1
  <1>5. Current \in Buffers /\ Current.cap \in Nat \ {0}
    BY <1>1, <1>4, BufferFacts DEF Current
  <1> QED
    BY <1>1, <1>2, <1>3, <1>4, <1>5

\* A thief's copy of top_ is never ahead of it.
LEMMA ThiefTops ==
  ASSUME IInv
  PROVE  \A th \in Thieves : tt[th] \in Nat /\ tt[th] <= top
  <1>1. tt \in [Thieves -> 0 .. MaxPushes]
    BY DEF IInv, TypeOK
  <1>2. \A th \in Thieves : tt[th] <= top
    BY DEF IInv, ThiefInv
  <1>3. \A th \in Thieves : tt[th] \in Nat
    BY <1>1, DequeAssumption
  <1> QED
    BY <1>2, <1>3, Zenon

\* The constructor establishes the invariant.
LEMMA InitInv == Init => IInv
  <1> SUFFICES ASSUME Init PROVE IInv
    OBVIOUS
  <1> USE DequeAssumption DEF Init
  <1>1. NewBuffer(InitCap) \in Buffers
    BY IsBuffer DEF NewBuffer
  <1>2. bufs \in Seq(Buffers) /\ Len(bufs) = 1 /\ bufs[1] = NewBuffer(InitCap) /\ Current.cap = InitCap
    BY <1>1 DEF Current, NewBuffer
  <1>3. TypeOK
    BY <1>1, <1>2, BufferFacts DEF TypeOK, Items
  <1>4. LiveBottom = 0 /\ Live = {}
    BY DEF LiveBottom, Live
  <1>5. IndexInv /\ OwnerInv
    BY <1>2, <1>4 DEF IndexInv, OwnerInv, Pushing, Popping
  <1>6. ThiefInv
    <2>1. top = 0 /\ \A th \in Thieves : tt[th] = 0 /\ tpc[th] = "idle"
      OBVIOUS
    <2> HIDE DEF Init
    <2>2. \A th \in Thieves : tt[th] <= top
      <3>1. 0 <= 0
        OBVIOUS
      <3> QED
        BY <2>1, <3>1, Zenon
    <2>3. \A th \in Thieves : ~Committing(th)
      BY <2>1 DEF Committing
    <2> QED
      BY <2>1, <2>2, <2>3 DEF ThiefInv
  <1>7. ItemInv
    BY <1>4 DEF ItemInv, ExactlyOnce, Taken, Items
  <1> QED
    BY <1>2, <1>3, <1>5, <1>6, <1>7 DEF IInv

\* A step that touches neither indices, buffers nor results keeps the items.
LEMMA FrameItems ==
  ASSUME IInv, UNCHANGED <<top, bufs, pushed, owner, stolen>>, LiveBottom' = LiveBottom
  PROVE  IndexInv' /\ ItemInv'
  <1>1. Current' = Current /\ Live' = Live /\ \A i \in Live : Item(i)' = Item(i)
    BY DEF Current, Live, Item
  <1> QED
    BY <1>1 DEF IInv, IndexInv, ItemInv, ExactlyOnce, Taken, Item

\* ... and what the thieves know of them.
LEMMA FrameThieves ==
  ASSUME IInv, UNCHANGED <<top, bufs, tpc, tt, tbuf, tval>>, LiveBottom' = LiveBottom
  PROVE  ThiefInv'
  <1>1. Current' = Current
    BY DEF Current
  <1> QED
    BY <1>1 DEF IInv, ThiefInv, Committing, Item

\* push() reads bottom_ and top_; a stale top_ only makes the deque look fuller.
LEMMA PushLoadInv == ASSUME IInv, PushLoad PROVE IInv'
  <1> USE DequeAssumption DEF IInv
  <1>0. /\ pushed < MaxPushes /\ opc = "idle" /\ ob' = bottom /\ ot' = top
        /\ opc' = (IF IsFull(Current, top, bottom) THEN "push_grow" ELSE "push_put")
        /\ UNCHANGED <<top, bottom, bufs, tpc, tt, tbuf, tval, pushed, owner, stolen>>
    BY DEF PushLoad, OwnerTo, shared, tlocal, history
  <1>1. LiveBottom = bottom /\ LiveBottom' = bottom
    BY <1>0 DEF LiveBottom
  <1>2. IndexInv' /\ ItemInv' /\ ThiefInv'
    BY <1>0, <1>1, FrameItems, FrameThieves
  <1>3. TypeOK'
    BY <1>0 DEF TypeOK
  <1>4. OwnerInv'
    <2>1. Current' = Current
      BY <1>0 DEF Current
    <2> QED
      BY <1>0, <1>1, <2>1, Facts DEF OwnerInv, Pushing, Popping, IndexInv, IsFull
  <1> QED
    BY <1>0, <1>2, <1>3, <1>4

\* grow() leaves every live item readable at its index.
LEMMA PushGrowKeeps == ASSUME IInv, PushGrow PROVE \A i \in Live : Item(i)' = Item(i)
  <1>0. opc = "push_grow" /\ bufs' = Append(bufs, Grow(Current, ot, ob)) /\ UNCHANGED <<top, bottom>>
    BY DEF PushGrow, OwnerTo
  <1>1. LiveBottom = bottom /\ ob = bottom /\ ob \in Nat /\ ot <= top /\ ob - ot <= Current.cap
    BY <1>0, Facts DEF LiveBottom, IInv, OwnerInv, Pushing
  <1>2. \A i \in ot .. ob - 1 : Get(Grow(Current, ot, ob), i) = Get(Current, i)
    <2>1. Current \in Buffers /\ ot \in Nat /\ ob \in Nat /\ ob - ot <= Current.cap
      BY <1>1, Facts
    <2> QED
      BY <2>1, GrowFacts
  <1>3. Current' = Grow(Current, ot, ob)
    <2>1. bufs' = Append(bufs, Grow(Current, ot, ob)) /\ bufs \in Seq(Buffers)
      BY <1>0 DEF IInv
    <2> QED
      BY <2>1 DEF Current
  <1>4. \A i \in Live : i \in ot .. ob - 1
    BY <1>1, Facts DEF Live
  <1> QED
    BY <1>2, <1>3, <1>4 DEF Item

\* grow() copies every live item to the slot it has in the new buffer.
LEMMA PushGrowInv == ASSUME IInv, PushGrow PROVE IInv'
  <1> USE DequeAssumption DEF IInv
  <1>0. /\ opc = "push_grow" /\ opc' = "push_put" /\ bufs' = Append(bufs, Grow(Current, ot, ob))
        /\ UNCHANGED <<top, bottom, ob, ot, tpc, tt, tbuf, tval, pushed, owner, stolen>>
    BY DEF PushGrow, OwnerTo, tlocal, history
  <1>1. LiveBottom = bottom /\ LiveBottom' = LiveBottom /\ ob = bottom /\ ob \in Nat /\ ot <= top /\ ob - ot <= Current.cap
    BY <1>0, Facts DEF LiveBottom, OwnerInv, Pushing
  <1>2. Grow(Current, ot, ob) \in Buffers /\ Grow(Current, ot, ob).cap = 2 * Current.cap
    <2>1. Current \in Buffers /\ ot \in Nat /\ ob \in Nat /\ ob - ot <= Current.cap
      BY <1>1, Facts
    <2> QED
      BY <2>1, GrowFacts
  <1>3. /\ bufs' \in Seq(Buffers) /\ Len(bufs') = Len(bufs) + 1
        /\ \A k \in 1 .. Len(bufs) : bufs'[k] = bufs[k]
        /\ Current' = Grow(Current, ot, ob)
    <2>1. bufs' = Append(bufs, Grow(Current, ot, ob)) /\ bufs \in Seq(Buffers)
      BY <1>0, <1>1, Facts
    <2> QED
      BY <1>0, <1>2, <2>1 DEF Current
  <1>4. Live' = Live /\ \A i \in Live : Item(i)' = Item(i)
    BY <1>0, <1>1, PushGrowKeeps DEF Live
  <1>5. TypeOK'
    <2>1. \A k \in 1 .. Len(bufs') : bufs'[k] \in Buffers
      BY <1>3
    <2>2. \A k \in 1 .. Len(bufs') :
            /\ bufs'[k].cap \in Nat \ {0}
            /\ bufs'[k].slot \in [0 .. bufs'[k].cap - 1 -> Items \cup {Empty}]
      BY <2>1, BufferFacts
    <2>3. tbuf' \in [Thieves -> 0 .. Len(bufs')] /\ Len(bufs') \in Nat \ {0}
      BY <1>0, <1>3, Facts DEF TypeOK
    <2> QED
      BY <2>2, <2>3, <1>0 DEF TypeOK
  <1>6. IndexInv'
    BY <1>0, <1>1, <1>2, <1>3, Facts DEF IndexInv
  <1>7. OwnerInv'
    BY <1>0, <1>1, <1>2, <1>3, Facts DEF OwnerInv, Pushing, Popping
  <1>8. ThiefInv'
    <2>1. top < LiveBottom => Item(top)' = Item(top)
      BY <1>0, <1>4, Facts DEF Live
    <2>2. ASSUME NEW th \in Thieves, tpc[th] = "steal_get"
          PROVE  tbuf[th] \in 1 .. Len(bufs') /\ bufs'[tbuf[th]] = bufs[tbuf[th]]
      BY <2>2, <1>3, Facts DEF ThiefInv
    <2> QED
      BY <2>1, <2>2, <1>0, <1>1 DEF ThiefInv, Committing
  <1>9. ItemInv'
    BY <1>0, <1>4 DEF ItemInv, ExactlyOnce, Taken
  <1> QED
    BY <1>3, <1>5, <1>6, <1>7, <1>8, <1>9

\* put() leaves every live item readable at its index.
LEMMA PushPutKeeps == ASSUME IInv, PushPut PROVE \A i \in Live : Item(i)' = Item(i)
  <1> DEFINE B == Put(Current, ob, pushed + 1)
  <1>0. opc = "push_put" /\ bufs' = [bufs EXCEPT ![Len(bufs)] = B]
    BY DEF PushPut, OwnerTo, Current
  <1>1. /\ LiveBottom = bottom /\ ob = bottom /\ ob \in Nat
        /\ ot <= top /\ ob - ot < Current.cap /\ pushed < MaxPushes
    BY <1>0, Facts DEF IInv, LiveBottom, OwnerInv, Pushing
  <1>2. pushed + 1 \in Items
    BY <1>1, Facts DEF Items
  <1>3. \A j \in Nat : j < ob /\ ob - j < Current.cap => Get(B, j) = Get(Current, j)
    <2>1. Current \in Buffers /\ ob \in Nat
      BY <1>1, Facts
    <2> QED
      BY <2>1, <1>2, PutFacts
  <1> HIDE DEF B
  <1>4. Current' = B
    <2>1. Len(bufs) \in 1 .. Len(bufs) /\ Len(bufs') = Len(bufs)
      BY <1>0, Facts
    <2>2. bufs \in [1 .. Len(bufs) -> Buffers]
      BY DEF IInv
    <2> QED
      BY <2>1, <2>2, <1>0 DEF Current
  <1>5. \A i \in Live : i \in Nat /\ i < ob /\ ob - i < Current.cap
    BY <1>1, Facts DEF Live
  <1> QED
    BY <1>3, <1>4, <1>5 DEF Item

\* put() writes a slot that no live item uses.
LEMMA PushPutInv == ASSUME IInv, PushPut PROVE IInv'
  <1> USE DequeAssumption DEF IInv
  <1> DEFINE B == Put(Current, ob, pushed + 1)
  <1>0. /\ opc = "push_put" /\ opc' = "push_publish" /\ bufs' = [bufs EXCEPT ![Len(bufs)] = B]
        /\ UNCHANGED <<top, bottom, ob, ot, tpc, tt, tbuf, tval, pushed, owner, stolen>>
    BY DEF PushPut, OwnerTo, tlocal, history, Current
  <1>1. /\ LiveBottom = bottom /\ LiveBottom' = LiveBottom /\ ob = bottom /\ ob \in Nat
        /\ ot <= top /\ ob - ot < Current.cap /\ pushed < MaxPushes
    BY <1>0, Facts DEF LiveBottom, OwnerInv, Pushing
  <1>2. pushed + 1 \in Items
    BY <1>1, Facts DEF Items
  <1>3. B \in Buffers /\ B.cap = Current.cap /\ Get(B, ob) = pushed + 1
    <2>1. Current \in Buffers /\ ob \in Nat
      BY <1>1, Facts
    <2> QED
      BY <2>1, <1>2, PutFacts
  <1> HIDE DEF B
  <1>4. /\ bufs' \in Seq(Buffers) /\ Len(bufs') = Len(bufs) /\ Current' = B
        /\ \A k \in 1 .. Len(bufs) : k # Len(bufs) => bufs'[k] = bufs[k]
        /\ bufs'[Len(bufs)] = B
    <2>1. Len(bufs) \in 1 .. Len(bufs) /\ Len(bufs') = Len(bufs)
      BY <1>0, Facts
    <2>2. bufs' \in Seq(Buffers)
      BY <2>1, <1>0, <1>3, Facts
    <2>3. bufs'[Len(bufs)] = B /\ \A k \in 1 .. Len(bufs) : k # Len(bufs) => bufs'[k] = bufs[k]
      <3>1. bufs \in [1 .. Len(bufs) -> Buffers]
        OBVIOUS
      <3> QED
        BY <3>1, <2>1, <1>0
    <2> QED
      BY <2>1, <2>2, <2>3 DEF Current
  <1>5. Live' = Live /\ \A i \in Live : Item(i)' = Item(i)
    BY <1>0, <1>1, PushPutKeeps DEF Live
  <1>6. TypeOK'
    <2>1. \A k \in 1 .. Len(bufs') : bufs'[k] \in Buffers
      BY <1>4
    <2>2. \A k \in 1 .. Len(bufs') :
            /\ bufs'[k].cap \in Nat \ {0}
            /\ bufs'[k].slot \in [0 .. bufs'[k].cap - 1 -> Items \cup {Empty}]
      BY <2>1, BufferFacts
    <2> QED
      BY <2>2, <1>4, <1>0 DEF TypeOK
  <1>7. IndexInv'
    BY <1>0, <1>1, <1>3, <1>4 DEF IndexInv
  <1>8. OwnerInv'
    BY <1>0, <1>1, <1>3, <1>4 DEF OwnerInv, Pushing, Popping, Item
  <1>9. ThiefInv'
    <2>1. top < LiveBottom => Item(top)' = Item(top)
      BY <1>0, <1>5, Facts DEF Live
    <2>2. ASSUME NEW th \in Thieves, tpc[th] = "steal_get", tt[th] = top
          PROVE  Get(bufs'[tbuf[th]], top) = Item(top)'
      <3>1. tbuf[th] \in 1 .. Len(bufs) /\ top < LiveBottom /\ Get(bufs[tbuf[th]], top) = Item(top)
        BY <2>2 DEF ThiefInv, Committing
      <3>2. CASE tbuf[th] = Len(bufs)
        BY <3>2, <1>0, <1>4 DEF Item
      <3>3. CASE tbuf[th] # Len(bufs)
        BY <3>3, <3>1, <2>1, <1>4
      <3> QED
        BY <3>2, <3>3
    <2> QED
      BY <2>1, <2>2, <1>0, <1>1, <1>4 DEF ThiefInv, Committing
  <1>10. ItemInv'
    BY <1>0, <1>5 DEF ItemInv, ExactlyOnce, Taken
  <1> QED
    BY <1>4, <1>6, <1>7, <1>8, <1>9, <1>10

\* The store to bottom_ makes the new item live.
LEMMA PushPublishInv == ASSUME IInv, PushPublish PROVE IInv'
  <1> USE DequeAssumption DEF IInv
  <1>0. /\ opc = "push_publish" /\ opc' = "idle" /\ bottom' = ob + 1 /\ pushed' = pushed + 1
        /\ UNCHANGED <<top, bufs, ob, ot, tpc, tt, tbuf, tval, owner, stolen>>
    BY DEF PushPublish, OwnerTo, tlocal
  <1>1. /\ LiveBottom = ob /\ LiveBottom' = ob + 1 /\ ob = bottom /\ ob \in Nat
        /\ ot <= top /\ ob - ot < Current.cap /\ pushed < MaxPushes /\ Item(ob) = pushed + 1
    BY <1>0, Facts DEF LiveBottom, OwnerInv, Pushing
  <1>2. Current' = Current /\ \A i : Item(i)' = Item(i)
    BY <1>0 DEF Current, Item
  <1>3. Live' = Live \cup {ob} /\ ob \notin Live
    BY <1>0, <1>1, Facts DEF Live, IndexInv
  <1>4. TypeOK'
    <2>1. bottom' \in -1 .. MaxPushes /\ pushed' \in 0 .. MaxPushes
      BY <1>0, <1>1, Facts DEF IndexInv
    <2> QED
      BY <2>1, <1>0 DEF TypeOK
  <1>5. IndexInv'
    BY <1>0, <1>1, <1>2, Facts DEF IndexInv
  <1>6. OwnerInv'
    BY <1>0 DEF OwnerInv, Pushing, Popping
  <1>7. ThiefInv'
    BY <1>0, <1>1, <1>2, Facts DEF ThiefInv, Committing
  <1>8. ItemInv'
    <2>1. pushed + 1 \in Items
      BY <1>1, Facts DEF Items
    <2>2. Taken(pushed + 1) = 0
      BY <2>1, Facts DEF ItemInv
    <2>3. \A i \in Live : Item(i) \in Items /\ Item(i) <= pushed
      BY DEF ItemInv, ExactlyOnce
    <2>4. \A v \in Items : Taken(v)' = Taken(v) /\ v \in Nat
      BY <1>0 DEF Taken, Items
    <2>5. \A i, j \in Live' : Item(i) = Item(j) => i = j
      BY <2>1, <2>3, <1>1, <1>3, Facts DEF ItemInv, ExactlyOnce, Items
    <2>6. ASSUME NEW v \in Items
          PROVE  (\E i \in Live' : Item(i) = v) <=> v <= pushed + 1 /\ Taken(v) = 0
      <3>1. CASE v = pushed + 1
        BY <3>1, <2>2, <1>1, <1>3, <2>4, Facts
      <3>2. CASE v # pushed + 1
        <4>1. (\E i \in Live' : Item(i) = v) <=> (\E i \in Live : Item(i) = v)
          BY <3>2, <1>1, <1>3
        <4>2. v <= pushed + 1 <=> v <= pushed
          BY <3>2, <2>4, Facts
        <4> QED
          BY <4>1, <4>2 DEF ItemInv, ExactlyOnce
      <3> QED
        BY <3>1, <3>2
    <2>7. \A i \in Live' : Item(i) \in Items
      BY <2>1, <2>3, <1>1, <1>3
    <2>8. \A v \in Items : v > pushed + 1 => Taken(v) = 0
      BY <2>4, Facts DEF ItemInv
    <2> QED
      BY <2>4, <2>5, <2>6, <2>7, <2>8, <1>0, <1>2 DEF ItemInv, ExactlyOnce
  <1> QED
    BY <1>0, <1>4, <1>5, <1>6, <1>7, <1>8

-----------------------------------------------------------------------------
\* pop() lowers bottom_: the last item is out of the reach of later thieves.
LEMMA PopStoreInv == ASSUME IInv, PopStore PROVE IInv'
  <1> USE DequeAssumption DEF IInv
  <1>0. /\ opc = "idle" /\ opc' = "pop_fence" /\ ob' = bottom - 1 /\ bottom' = bottom - 1
        /\ UNCHANGED <<top, bufs, ot, tpc, tt, tbuf, tval, pushed, owner, stolen>>
    BY DEF PopStore, OwnerTo, tlocal, history
  <1>1. LiveBottom = bottom /\ LiveBottom' = bottom
    BY <1>0, Facts DEF LiveBottom
  <1>2. IndexInv' /\ ItemInv' /\ ThiefInv'
    BY <1>0, <1>1, FrameItems, FrameThieves
  <1>3. TypeOK'
    <2>1. bottom - 1 \in -1 .. MaxPushes
      BY <1>1, Facts DEF TypeOK
    <2> QED
      BY <1>0, <2>1 DEF TypeOK
  <1>4. OwnerInv'
    BY <1>0 DEF OwnerInv, Pushing, Popping
  <1> QED
    BY <1>0, <1>2, <1>3, <1>4

\* Taking a live item, by whichever end, keeps the accounting exact.
LEMMA TakeItem ==
  ASSUME IInv, NEW k \in Live, Live' = Live \ {k}, UNCHANGED <<bufs, pushed>>,
         \/ owner' = [owner EXCEPT ![Item(k)] = @ + 1] /\ stolen' = stolen
         \/ stolen' = [stolen EXCEPT ![Item(k)] = @ + 1] /\ owner' = owner
  PROVE  ItemInv' /\ owner' \in [Items -> Nat] /\ stolen' \in [Items -> Nat]
  <1> USE DEF IInv
  <1>0. PICK w \in Items : w = Item(k)
    BY DEF ItemInv
  <1>1. owner \in [Items -> Nat] /\ stolen \in [Items -> Nat]
    BY DEF TypeOK
  <1>2. w \in Items /\ w <= pushed /\ Taken(w) = 0
    BY <1>0 DEF ItemInv, ExactlyOnce
  <1>3. \A i : Item(i)' = Item(i)
    BY DEF Item, Current
  <1>4. /\ owner' \in [Items -> Nat] /\ stolen' \in [Items -> Nat]
        /\ Taken(w)' = 1 /\ \A v \in Items : v # w => Taken(v)' = Taken(v)
    <2>1. \/ owner' = [owner EXCEPT ![w] = @ + 1] /\ stolen' = stolen
          \/ stolen' = [stolen EXCEPT ![w] = @ + 1] /\ owner' = owner
      BY <1>0
    <2>2. owner[w] = 0 /\ stolen[w] = 0
      BY <1>1, <1>2 DEF Taken
    <2>3. CASE owner' = [owner EXCEPT ![w] = @ + 1] /\ stolen' = stolen
      BY <1>1, <1>2, <2>2, <2>3 DEF Taken
    <2>4. CASE stolen' = [stolen EXCEPT ![w] = @ + 1] /\ owner' = owner
      BY <1>1, <1>2, <2>2, <2>4 DEF Taken
    <2> QED
      BY <2>1, <2>3, <2>4
  <1>5. \A i \in Live : Item(i) \in Items
    BY DEF ItemInv
  <1>6. \A i, j \in Live : Item(i) = Item(j) => i = j
    BY DEF ItemInv, ExactlyOnce
  <1>7. \A v \in Items : v # w =>
          ((\E i \in Live' : Item(i) = v) <=> (\E i \in Live : Item(i) = v))
    BY <1>0
  <1>8. ~ \E i \in Live' : Item(i) = w
    BY <1>0, <1>6
  <1>9. ExactlyOnce'
    <2>1. \A i, j \in Live' : Item(i)' = Item(j)' => i = j
      BY <1>3, <1>6
    <2>2. ASSUME NEW v \in Items
          PROVE  /\ Taken(v)' <= 1
                 /\ (\E i \in Live' : Item(i)' = v) <=> v <= pushed' /\ Taken(v)' = 0
      <3>1. CASE v = w
        <4>1. Taken(v)' = 1 /\ ~ \E i \in Live' : Item(i)' = v
          BY <3>1, <1>3, <1>4, <1>8
        <4> QED
          BY <4>1
      <3>2. CASE v # w
        BY <3>2, <1>3, <1>4, <1>7 DEF ItemInv, ExactlyOnce
      <3> QED
        BY <3>1, <3>2
    <2> QED
      BY <2>1, <2>2 DEF ExactlyOnce
  <1>10. \A v \in Items : v > pushed => Taken(v)' = 0
    <2>1. pushed \in Nat /\ w \in Nat
      BY <1>2, Facts DEF Items
    <2>2. \A v \in Items : v > pushed => v # w
      BY <2>1, <1>2
    <2> QED
      BY <2>2, <1>4 DEF ItemInv
  <1>11. \A i \in Live' : Item(i)' \in Items
    BY <1>3, <1>5
  <1> QED
    BY <1>4, <1>9, <1>10, <1>11 DEF ItemInv

\* pop() reads top_: empty, racing for the last item, or safe.
LEMMA PopLoadTopInv == ASSUME IInv, PopLoadTop PROVE IInv'
  <1> USE DequeAssumption DEF IInv
  <1>0. /\ opc = "pop_fence" /\ ot' = top
        /\ UNCHANGED <<top, bottom, bufs, ob, tpc, tt, tbuf, tval, pushed, stolen>>
    BY DEF PopLoadTop, OwnerTo, shared, tlocal
  <1>1. ob = bottom /\ LiveBottom = ob + 1 /\ top <= LiveBottom
    BY <1>0 DEF OwnerInv, Popping, LiveBottom, IndexInv
  <1>2. Current' = Current
    BY <1>0 DEF Current
  <1>3. CASE top <= ob /\ ~IsLast(top, ob)
    <2>1. opc' = "idle" /\ owner' = [owner EXCEPT ![Item(ob)] = @ + 1] /\ top < ob
      BY <1>0, <1>3, Facts DEF PopLoadTop, OwnerTo, NonEmpty, IsLast, Item
    <2>2. LiveBottom' = ob
      BY <1>0, <1>1, <2>1 DEF LiveBottom
    <2>3. ob \in Live /\ Live' = Live \ {ob}
      BY <1>0, <1>1, <2>1, <2>2, Facts DEF Live
    <2>4. ItemInv' /\ owner' \in [Items -> Nat] /\ stolen' \in [Items -> Nat]
      BY <1>0, <2>1, <2>3, TakeItem
    <2>5. TypeOK'
      BY <1>0, <2>1, <2>4 DEF TypeOK
    <2>6. IndexInv'
      BY <1>0, <1>1, <1>2, <2>1, <2>2, Facts DEF IndexInv
    <2>7. OwnerInv'
      BY <1>0, <2>1 DEF OwnerInv, Pushing, Popping
    <2>8. ThiefInv'
      BY <1>0, <1>2, <2>1, <2>2 DEF ThiefInv, Committing, Item
    <2> QED
      BY <1>0, <2>4, <2>5, <2>6, <2>7, <2>8
  <1>4. CASE (top <= ob /\ IsLast(top, ob)) \/ top > ob
    <2>1. /\ owner' = owner
          /\ \/ opc' = "pop_cas" /\ top = ob
             \/ opc' = "pop_empty" /\ top = ob + 1
      BY <1>0, <1>1, <1>4, Facts DEF PopLoadTop, OwnerTo, NonEmpty, IsLast
    <2>2. LiveBottom' = LiveBottom
      BY <1>0, <1>1, <2>1 DEF LiveBottom
    <2>3. IndexInv' /\ ItemInv' /\ ThiefInv'
      BY <1>0, <2>1, <2>2, FrameItems, FrameThieves
    <2>4. TypeOK'
      BY <1>0, <2>1 DEF TypeOK
    <2>5. OwnerInv'
      BY <1>0, <1>1, <2>1, Facts DEF OwnerInv, Pushing, Popping
    <2> QED
      BY <1>0, <2>3, <2>4, <2>5
  <1> QED
    BY <1>3, <1>4, Facts

\* The CAS of pop() decides the race for the last item.
LEMMA PopCasInv == ASSUME IInv, PopCas PROVE IInv'
  <1> USE DequeAssumption DEF IInv
  <1>0. /\ opc = "pop_cas" /\ opc' = "pop_raced"
        /\ UNCHANGED <<bottom, bufs, ob, ot, tpc, tt, tbuf, tval, pushed, stolen>>
    BY DEF PopCas, OwnerTo, tlocal
  <1>1. /\ ob = bottom /\ ot = ob /\ ot <= top
        /\ LiveBottom = ob + 1 /\ LiveBottom' = ob + 1 /\ top <= LiveBottom
        /\ LiveBottom <= pushed
    BY <1>0 DEF OwnerInv, Popping, LiveBottom, IndexInv
  <1>2. Current' = Current
    BY <1>0 DEF Current
  <1>3. CASE top = ot
    <2>1. top' = ob + 1 /\ owner' = [owner EXCEPT ![Item(ob)] = @ + 1]
      BY <1>1, <1>3 DEF PopCas, Item
    <2>2. ob \in Live /\ Live' = Live \ {ob}
      BY <1>1, <1>3, <2>1, Facts DEF Live
    <2>3. ItemInv' /\ owner' \in [Items -> Nat] /\ stolen' \in [Items -> Nat]
      BY <1>0, <2>1, <2>2, TakeItem
    <2>4. TypeOK'
      <3>1. top' \in 0 .. MaxPushes
        BY <1>1, <1>3, <2>1, Facts DEF TypeOK
      <3> QED
        BY <1>0, <2>3, <3>1 DEF TypeOK
    <2>5. IndexInv'
      BY <1>0, <1>1, <1>2, <2>1, Facts DEF IndexInv
    <2>6. OwnerInv'
      BY <1>0, <1>1, <2>1, Facts DEF OwnerInv, Pushing, Popping
    <2>7. ThiefInv'
      <3>1. \A th \in Thieves : tt'[th] <= top' /\ tt'[th] # top' /\ tt'[th] = tt[th]
        <4>1. \A th \in Thieves : tt[th] \in Nat /\ tt[th] <= top
          BY ThiefTops
        <4>2. top \in Nat /\ top' = top + 1 /\ tt' = tt
          BY <1>0, <1>1, <1>3, <2>1, Facts
        <4> QED
          BY <4>1, <4>2
      <3> QED
        BY <3>1, <1>0 DEF ThiefInv
    <2> QED
      BY <1>0, <2>3, <2>4, <2>5, <2>6, <2>7
  <1>4. CASE top # ot
    <2>1. top' = top /\ owner' = owner /\ top = ob + 1
      BY <1>1, <1>4, Facts, SMTT(30) DEF PopCas
    <2>2. IndexInv' /\ ItemInv' /\ ThiefInv'
      BY <1>0, <1>1, <2>1, FrameItems, FrameThieves
    <2>3. TypeOK'
      BY <1>0, <2>1 DEF TypeOK
    <2>4. OwnerInv'
      BY <1>0, <1>1, <2>1 DEF OwnerInv, Pushing, Popping
    <2> QED
      BY <1>0, <2>2, <2>3, <2>4
  <1> QED
    BY <1>3, <1>4

\* bottom_ is put back before pop() returns from an empty or lost deque.
LEMMA PopReturnInv == ASSUME IInv, PopRestore \/ PopEmpty PROVE IInv'
  <1> USE DequeAssumption DEF IInv
  <1>0. /\ opc \in {"pop_raced", "pop_empty"} /\ opc' = "idle" /\ bottom' = ob + 1
        /\ UNCHANGED <<top, bufs, ob, ot, tpc, tt, tbuf, tval, pushed, owner, stolen>>
    BY DEF PopRestore, PopEmpty, BottomAfterRace, BottomAfterEmpty, OwnerTo, tlocal, history, OwnerInv
  <1>1. LiveBottom = ob + 1 /\ LiveBottom' = ob + 1 /\ LiveBottom <= pushed
    BY <1>0 DEF LiveBottom, OwnerInv, Popping, IndexInv
  <1>2. IndexInv' /\ ItemInv' /\ ThiefInv'
    BY <1>0, <1>1, FrameItems, FrameThieves
  <1>3. TypeOK'
    <2>1. bottom' \in -1 .. MaxPushes
      BY <1>0, <1>1, Facts DEF TypeOK
    <2> QED
      BY <1>0, <2>1 DEF TypeOK
  <1>4. OwnerInv'
    BY <1>0 DEF OwnerInv, Pushing, Popping
  <1> QED
    BY <1>0, <1>2, <1>3, <1>4

-----------------------------------------------------------------------------
\* What a thief does before its CAS is invisible to the owner.
LEMMA FrameOwner ==
  ASSUME IInv, UNCHANGED <<shared, olocal, history>>
  PROVE  OwnerInv' /\ IndexInv' /\ ItemInv' /\ LiveBottom' = LiveBottom
  <1>1. UNCHANGED <<top, bottom, bufs, opc, ob, ot, pushed, owner, stolen>>
    BY DEF shared, olocal, history
  <1>2. LiveBottom' = LiveBottom /\ Current' = Current
    BY <1>1 DEF LiveBottom, Current
  <1>3. OwnerInv'
    BY <1>1, <1>2 DEF IInv, OwnerInv, Pushing, Popping, Item
  <1> QED
    BY <1>1, <1>2, <1>3, FrameItems

\* The reads of steal() leave the deque alone.
LEMMA StealReadInv ==
  ASSUME IInv, NEW th \in Thieves,
         StealLoadTop(th) \/ StealLoadBottom(th) \/ StealLoadBuffer(th) \/ StealGet(th)
  PROVE  IInv'
  <1> USE DequeAssumption DEF IInv
  <1>0. UNCHANGED <<shared, olocal, history>>
    BY DEF StealLoadTop, StealLoadBottom, StealLoadBuffer, StealGet
  <1>1. UNCHANGED <<top, bottom, bufs, opc, ob, ot, pushed, owner, stolen>>
    BY <1>0 DEF shared, olocal, history
  <1>2. OwnerInv' /\ IndexInv' /\ ItemInv' /\ LiveBottom' = LiveBottom
    BY <1>0, FrameOwner
  <1>3. Current' = Current /\ Item(top)' = Item(top)
    BY <1>1 DEF Current, Item
  <1>4. \A o \in Thieves : tt[o] \in Nat /\ tt[o] <= top
    BY ThiefTops
  <1>5. CASE StealLoadTop(th)
    <2>1. /\ tpc' = [tpc EXCEPT ![th] = "steal_fence"] /\ tt' = [tt EXCEPT ![th] = top]
          /\ tbuf' = tbuf /\ tval' = tval
      BY <1>5 DEF StealLoadTop, ThiefTo
    <2>2. TypeOK'
      BY <1>1, <2>1 DEF TypeOK
    <2>3. ThiefInv'
      <3>1. /\ tpc'[th] = "steal_fence" /\ tt'[th] = top
            /\ \A o \in Thieves : o # th => tpc'[o] = tpc[o] /\ tt'[o] = tt[o]
        BY <2>1 DEF TypeOK
      <3>2. \A o \in Thieves : tt'[o] <= top
        BY <3>1, <1>4, Facts
      <3> QED
        BY <1>1, <1>2, <1>3, <2>1, <3>1, <3>2 DEF ThiefInv, Committing
    <2> QED
      BY <1>1, <1>2, <2>2, <2>3
  <1>6. CASE StealLoadBottom(th)
    <2>1. /\ tpc' = [tpc EXCEPT ![th] = IF tt[th] < bottom THEN "steal_buffer" ELSE "idle"]
          /\ tt' = tt /\ tbuf' = tbuf /\ tval' = tval
      BY <1>6 DEF StealLoadBottom, ThiefTo
    <2>2. TypeOK'
      BY <1>1, <2>1 DEF TypeOK
    <2>3. bottom <= LiveBottom
      BY Facts
    <2>4. ThiefInv'
      <3>1. /\ tpc'[th] = "steal_buffer" => tt[th] < LiveBottom
            /\ tpc'[th] \in {"steal_buffer", "idle"}
            /\ \A o \in Thieves : o # th => tpc'[o] = tpc[o]
        <4>1. /\ tpc'[th] = IF tt[th] < bottom THEN "steal_buffer" ELSE "idle"
              /\ \A o \in Thieves : o # th => tpc'[o] = tpc[o]
          BY <2>1 DEF TypeOK
        <4>2. tt[th] \in Nat /\ bottom \in Int /\ LiveBottom \in Nat
          BY <1>4, Facts
        <4> QED
          <5>1. CASE tt[th] < bottom
            BY <5>1, <4>1, <4>2, <2>3
          <5>2. CASE ~(tt[th] < bottom)
            BY <5>2, <4>1
          <5> QED
            BY <5>1, <5>2
      <3>2. \A o \in Thieves : Committing(o)' /\ tt[o] = top => top < LiveBottom
        BY <3>1 DEF ThiefInv, Committing
      <3> QED
        BY <1>1, <1>2, <1>3, <1>4, <2>1, <3>1, <3>2 DEF ThiefInv
    <2> QED
      BY <1>1, <1>2, <2>2, <2>4
  <1>7. CASE StealLoadBuffer(th)
    <2>1. /\ tpc[th] = "steal_buffer" /\ tpc' = [tpc EXCEPT ![th] = "steal_get"]
          /\ tbuf' = [tbuf EXCEPT ![th] = Len(bufs)] /\ tt' = tt /\ tval' = tval
      BY <1>7 DEF StealLoadBuffer, ThiefTo
    <2>2. TypeOK'
      <3>1. Len(bufs) \in 0 .. Len(bufs)
        BY Facts
      <3> QED
        BY <1>1, <2>1, <3>1 DEF TypeOK
    <2>3. ThiefInv'
      BY <1>1, <1>2, <1>3, <2>1, Facts DEF ThiefInv, Committing, TypeOK, Item, Current
    <2> QED
      BY <1>1, <1>2, <2>2, <2>3
  <1>8. CASE StealGet(th)
    <2>1. /\ tpc[th] = "steal_get" /\ tpc' = [tpc EXCEPT ![th] = "steal_cas"]
          /\ tval' = [tval EXCEPT ![th] = Get(bufs[tbuf[th]], tt[th])]
          /\ tt' = tt /\ tbuf' = tbuf
      BY <1>8 DEF StealGet, ThiefTo
    <2>2. Get(bufs[tbuf[th]], tt[th]) \in Items \cup {Empty}
      <3>1. bufs[tbuf[th]] \in Buffers /\ tt[th] \in Nat
        BY <2>1, <1>4, Facts DEF ThiefInv
      <3> QED
        BY <3>1, GetType
    <2>3. TypeOK'
      BY <1>1, <2>1, <2>2 DEF TypeOK
    <2>4. ThiefInv'
      BY <1>1, <1>2, <1>3, <2>1, Facts DEF ThiefInv, Committing, TypeOK
    <2> QED
      BY <1>1, <1>2, <2>3, <2>4
  <1> QED
    BY <1>5, <1>6, <1>7, <1>8

\* The CAS of steal() takes the oldest item, if it is still the oldest.
LEMMA StealCasInv == ASSUME IInv, NEW th \in Thieves, StealCas(th) PROVE IInv'
  <1> USE DequeAssumption DEF IInv
  <1>0. /\ tpc[th] = "steal_cas" /\ tpc' = [tpc EXCEPT ![th] = "idle"]
        /\ UNCHANGED <<bottom, bufs, opc, ob, ot, tt, tbuf, tval, pushed, owner>>
    BY DEF StealCas, ThiefTo, olocal
  <1>1. LiveBottom' = LiveBottom /\ Current' = Current
    BY <1>0 DEF LiveBottom, Current
  <1>2. \A o \in Thieves : tt[o] \in Nat /\ tt[o] <= top
    BY ThiefTops
  <1>3. CASE tt[th] = top
    <2>1. top' = top + 1 /\ top < LiveBottom /\ tval[th] = Item(top)
      BY <1>0, <1>3 DEF StealCas, StealWins, ThiefInv, Committing
    <2>2. stolen' = [stolen EXCEPT ![Item(top)] = @ + 1]
      BY <1>3, <2>1 DEF StealCas, StealWins
    <2>3. top \in Live /\ Live' = Live \ {top}
      <3>1. top \in Int /\ LiveBottom \in Int
        BY Facts
      <3> QED
        BY ONLY <1>1, <2>1, <3>1 DEF Live
    <2>4. ItemInv' /\ owner' \in [Items -> Nat] /\ stolen' \in [Items -> Nat]
      BY <1>0, <2>2, <2>3, TakeItem
    <2>5. TypeOK'
      <3>1. top' \in 0 .. MaxPushes
        <4>1. /\ LiveBottom <= pushed /\ pushed <= MaxPushes
              /\ top \in Nat /\ LiveBottom \in Nat /\ pushed \in Nat /\ MaxPushes \in Nat
          BY Facts DEF TypeOK, IndexInv
        <4> QED
          BY ONLY <2>1, <4>1
      <3> QED
        BY <1>0, <2>4, <3>1 DEF TypeOK
    <2>6. IndexInv'
      <3>1. /\ LiveBottom \in Nat /\ top \in Nat /\ Current.cap \in Nat
            /\ LiveBottom - top <= Current.cap /\ LiveBottom <= pushed
        BY Facts DEF IndexInv
      <3>2. top + 1 <= LiveBottom /\ LiveBottom - (top + 1) <= Current.cap
        BY ONLY <2>1, <3>1
      <3> QED
        BY ONLY <1>0, <1>1, <2>1, <3>1, <3>2 DEF IndexInv
    <2>7. OwnerInv'
      <3>1. opc \notin {"pop_raced", "pop_empty"}
        <4> SUFFICES ASSUME opc \in {"pop_raced", "pop_empty"} PROVE FALSE
          OBVIOUS
        <4>1. LiveBottom = bottom + 1 /\ bottom \in Int /\ top \in Nat
          BY Facts DEF Popping
        <4>2. ob = bottom /\ top = ob + 1
          BY DEF OwnerInv, Popping
        <4> QED
          BY <2>1, <4>1, <4>2
      <3> QED
        BY <3>1, <1>0, <1>1, <2>1, Facts DEF OwnerInv, Pushing, Popping, Item
    <2>8. ThiefInv'
      <3>1. \A o \in Thieves : tt'[o] <= top' /\ tt'[o] # top'
        <4>1. tt' = tt /\ top \in Nat
          BY <1>0, Facts
        <4>2. ASSUME NEW o \in Thieves PROVE tt[o] < top + 1
          BY <1>2, <4>1
        <4>3. ASSUME NEW o \in Thieves PROVE tt'[o] <= top' /\ tt'[o] # top'
          <5>1. tt[o] \in Nat /\ tt[o] < top + 1 /\ tt'[o] = tt[o]
            BY <1>2, <4>1, <4>2
          <5> QED
            BY <2>1, <4>1, <5>1
        <4> QED
          BY <4>3
      <3>2. \A o \in Thieves : tpc'[o] = "steal_get" => tbuf'[o] \in 1 .. Len(bufs')
        BY <1>0 DEF ThiefInv, TypeOK
      <3> QED
        BY <3>1, <3>2 DEF ThiefInv
    <2> QED
      BY <1>0, <2>4, <2>5, <2>6, <2>7, <2>8
  <1>4. CASE tt[th] # top
    <2>1. top' = top /\ stolen' = stolen
      BY <1>4 DEF StealCas, StealWins
    <2>2. IndexInv' /\ ItemInv' /\ OwnerInv'
      BY <1>0, <2>1, FrameOwner DEF shared, olocal, history
    <2>3. TypeOK'
      BY <1>0, <2>1 DEF TypeOK
    <2>4. ThiefInv'
      BY <1>0, <1>1, <2>1 DEF ThiefInv, Committing, TypeOK, Item
    <2> QED
      BY <1>0, <2>2, <2>3, <2>4
  <1> QED
    BY <1>3, <1>4

\* IInv is an invariant.
LEMMA Invariance == Spec => []IInv
  <1>1. IInv /\ [Next]_vars => IInv'
    <2> SUFFICES ASSUME IInv, [Next]_vars PROVE IInv'
      OBVIOUS
    <2>1. CASE Push
      BY <2>1, PushLoadInv, PushGrowInv, PushPutInv, PushPublishInv DEF Push
    <2>2. CASE Pop
      BY <2>2, PopStoreInv, PopLoadTopInv, PopCasInv, PopReturnInv DEF Pop
    <2>3. CASE \E th \in Thieves : Steal(th)
      BY <2>3, StealReadInv, StealCasInv DEF Steal
    <2>4. CASE UNCHANGED vars
      <3>1. UNCHANGED <<shared, olocal, history>> /\ UNCHANGED <<tpc, tt, tbuf, tval>>
        BY <2>4 DEF vars, tlocal
      <3>2. UNCHANGED <<top, bottom, bufs, opc, ob, ot, pushed, owner, stolen>>
        BY <3>1 DEF shared, olocal, history
      <3>3. OwnerInv' /\ IndexInv' /\ ItemInv' /\ LiveBottom' = LiveBottom
        BY <3>1, FrameOwner
      <3>4. ThiefInv'
        BY <3>1, <3>2, <3>3, FrameThieves
      <3>5. TypeOK'
        BY <3>1, <3>2 DEF IInv, TypeOK
      <3> QED
        BY <3>2, <3>3, <3>4, <3>5 DEF IInv
    <2> QED
      BY <2>1, <2>2, <2>3, <2>4 DEF Next
  <1> QED
    BY InitInv, <1>1, PTL DEF Spec

(***************************************************************************)
(* The indices of the deque, the buffers and the locals of push(), pop()   *)
(* and steal() always have their types, for any number of thieves.         *)
(***************************************************************************)
THEOREM TypeCorrect == Spec => []TypeOK
  <1>1. IInv => TypeOK
    BY DEF IInv
  <1> QED
    BY Invariance, <1>1, PTL

(***************************************************************************)
(* No item is returned twice by pop() and steal(), and none is lost.       *)
(***************************************************************************)
THEOREM NoTaskTwiceOrLost == Spec => []ExactlyOnce
  <1>1. IInv => ExactlyOnce
    BY DEF IInv, ItemInv
  <1> QED
    BY Invariance, <1>1, PTL

(***************************************************************************)
(* pop() answers nullopt only when the deque has been emptied.             *)
(***************************************************************************)
THEOREM NulloptMeansEmpty == Spec => []PopFailsOnlyIfEmpty
  <1>1. IInv => PopFailsOnlyIfEmpty
    <2> SUFFICES ASSUME IInv, opc \in {"pop_raced", "pop_empty"} PROVE Live = {}
      BY DEF PopFailsOnlyIfEmpty
    <2>1. top = LiveBottom
      BY Facts DEF IInv, OwnerInv, Popping
    <2> QED
      BY <2>1, Facts DEF Live
  <1> QED
    BY Invariance, <1>1, PTL

-----------------------------------------------------------------------------
\* What a sequence is, as the steps of the refinement use it.
LEMMA SameSeq ==
  ASSUME NEW S, NEW s \in Seq(S), NEW t \in Seq(S), Len(s) = Len(t),
         \A k \in 1 .. Len(s) : s[k] = t[k]
  PROVE  s = t
  OBVIOUS

\* What is at the ends of a sequence, and what is left without them.
LEMMA SeqEnds ==
  ASSUME NEW S, NEW s \in Seq(S), NEW e \in S
  PROVE  /\ Append(s, e) \in Seq(S) /\ Len(Append(s, e)) = Len(s) + 1
         /\ \A k \in 1 .. Len(s) : Append(s, e)[k] = s[k]
         /\ Append(s, e)[Len(s) + 1] = e
         /\ Len(s) > 0 =>
              /\ s # <<>> /\ Head(s) = s[1]
              /\ Tail(s) \in Seq(S) /\ Len(Tail(s)) = Len(s) - 1
              /\ \A k \in 1 .. Len(s) - 1 : Tail(s)[k] = s[k + 1]
              /\ SubSeq(s, 1, Len(s) - 1) \in Seq(S) /\ Len(SubSeq(s, 1, Len(s) - 1)) = Len(s) - 1
              /\ \A k \in 1 .. Len(s) - 1 : SubSeq(s, 1, Len(s) - 1)[k] = s[k]
  <1>1. /\ Append(s, e) \in Seq(S) /\ Len(Append(s, e)) = Len(s) + 1
        /\ \A k \in 1 .. Len(s) : Append(s, e)[k] = s[k]
        /\ Append(s, e)[Len(s) + 1] = e
    <2>1. Len(s) \in Nat /\ Append(s, e) \in Seq(S) /\ Len(Append(s, e)) = Len(s) + 1
      OBVIOUS
    <2>2. \A k \in 1 .. Len(s) : Append(s, e)[k] = s[k]
      OBVIOUS
    <2>3. Append(s, e)[Len(s) + 1] = e
      BY <2>1
    <2> QED
      BY ONLY <2>1, <2>2, <2>3
  <1>2. ASSUME Len(s) > 0
        PROVE  /\ s # <<>> /\ Head(s) = s[1]
               /\ Tail(s) \in Seq(S) /\ Len(Tail(s)) = Len(s) - 1
               /\ \A k \in 1 .. Len(s) - 1 : Tail(s)[k] = s[k + 1]
    BY <1>2
  <1>3. ASSUME Len(s) > 0
        PROVE  /\ SubSeq(s, 1, Len(s) - 1) \in Seq(S) /\ Len(SubSeq(s, 1, Len(s) - 1)) = Len(s) - 1
               /\ \A k \in 1 .. Len(s) - 1 : SubSeq(s, 1, Len(s) - 1)[k] = s[k]
    <2> DEFINE f == [k \in 1 .. Len(s) - 1 |-> s[k]]
    <2>1. SubSeq(s, 1, Len(s) - 1) = f
      BY <1>3
    <2>2. Len(s) \in Nat /\ \A k \in 1 .. Len(s) - 1 : s[k] \in S
      OBVIOUS
    <2>3. f \in Seq(S) /\ Len(f) = Len(s) - 1
      BY <1>3, <2>2
    <2> QED
      BY <2>1, <2>3
  <1> QED
    BY <1>1, <1>2, <1>3

\* The contents of the deque are the live items, oldest first.
LEMMA ContentsFacts ==
  IInv => /\ Contents \in Seq(Items) /\ Len(Contents) = LiveBottom - top
          /\ LiveBottom - top \in Nat
          /\ \A k \in 1 .. LiveBottom - top : Contents[k] = Item(top + k - 1) /\ top + k - 1 \in Live
  <1> SUFFICES ASSUME IInv
               PROVE  /\ Contents \in Seq(Items) /\ Len(Contents) = LiveBottom - top
                      /\ LiveBottom - top \in Nat
                      /\ \A k \in 1 .. LiveBottom - top :
                           Contents[k] = Item(top + k - 1) /\ top + k - 1 \in Live
    OBVIOUS
  <1>1. top \in Nat /\ LiveBottom \in Nat /\ top <= LiveBottom
    BY Facts DEF IInv, IndexInv
  <1>2. LiveBottom - top \in Nat
    BY <1>1
  <1>3. ASSUME NEW k \in 1 .. LiveBottom - top PROVE top + k - 1 \in Live
    BY <1>1 DEF Live
  <1>4. \A k \in 1 .. LiveBottom - top : Item(top + k - 1) \in Items
    BY <1>3 DEF IInv, ItemInv
  <1>5. Contents \in [1 .. LiveBottom - top -> Items]
    BY <1>4 DEF Contents
  <1>6. \A k \in 1 .. LiveBottom - top : Contents[k] = Item(top + k - 1)
    BY DEF Contents
  <1>7. Contents \in Seq(Items) /\ Len(Contents) = LiveBottom - top
    BY <1>2, <1>5
  <1> QED
    BY <1>2, <1>3, <1>6, <1>7

\* ... and after a step.
LEMMA ContentsFactsNext ==
  IInv' => /\ Contents' \in Seq(Items) /\ Len(Contents') = LiveBottom' - top'
           /\ LiveBottom' - top' \in Nat
           /\ \A k \in 1 .. LiveBottom' - top' : Contents'[k] = Item(top + k - 1)'
  <1> DEFINE F == /\ Contents \in Seq(Items) /\ Len(Contents) = LiveBottom - top
                  /\ LiveBottom - top \in Nat
                  /\ \A k \in 1 .. LiveBottom - top : Contents[k] = Item(top + k - 1) /\ top + k - 1 \in Live
  <1>1. IInv => F
    BY ContentsFacts
  <1>2. IInv' => F'
    BY <1>1, PTL
  <1> QED
    BY <1>2 DEF Items

\* A step that leaves the live items where they are is none of AbstractDeque.
LEMMA ContentsKept ==
  ASSUME IInv, UNCHANGED <<top, owner, stolen>>, LiveBottom' = LiveBottom,
         \A i \in Live : Item(i)' = Item(i)
  PROVE  UNCHANGED Abstract!avars
  <1>1. \A k \in 1 .. LiveBottom - top : top + k - 1 \in Live
    BY ContentsFacts
  <1>2. Contents' = [k \in 1 .. LiveBottom - top |-> Item(top + k - 1)']
    BY DEF Contents
  <1>3. \A k \in 1 .. LiveBottom - top : Item(top + k - 1)' = Item(top + k - 1)
    <2> SUFFICES ASSUME NEW k \in 1 .. LiveBottom - top PROVE Item(top + k - 1)' = Item(top + k - 1)
      OBVIOUS
    <2>1. Item(top + k - 1)' = Get(Current', top + k - 1)
      BY DEF Item
    <2>2. Get(Current', top + k - 1) = Get(Current, top + k - 1)
      BY <1>1 DEF Item
    <2> QED
      BY <2>1, <2>2 DEF Item
  <1>4. Contents' = Contents
    BY <1>2, <1>3 DEF Contents
  <1> QED
    BY <1>4 DEF Abstract!avars

\* push() makes its item the newest at the store to bottom_.
LEMMA PushRefines == ASSUME IInv, IInv', PushPublish PROVE \E v \in Items : Abstract!PushBottom(v)
  <1> DEFINE n == LiveBottom - top
  <1>0. /\ opc = "push_publish" /\ opc' = "idle" /\ bottom' = ob + 1
        /\ UNCHANGED <<top, bufs, owner, stolen>>
    BY DEF PushPublish, OwnerTo, tlocal
  <1>1. LiveBottom = ob /\ LiveBottom' = ob + 1 /\ pushed < MaxPushes /\ Item(ob) = pushed + 1
    BY <1>0 DEF LiveBottom, IInv, OwnerInv, Pushing
  <1>2. \A i : Item(i)' = Item(i)
    BY <1>0 DEF Item, Current
  <1>3. pushed + 1 \in Items
    BY <1>1, Facts, DequeAssumption DEF Items
  <1>4. n \in Nat /\ top \in Nat /\ LiveBottom' - top' = n + 1 /\ top + (n + 1) - 1 = ob
    <2>1. top \in Nat /\ ob \in Int
      BY Facts
    <2>2. n \in Nat
      BY ContentsFacts
    <2>3. top' = top
      BY <1>0
    <2> QED
      BY ONLY <1>1, <2>1, <2>2, <2>3 DEF n
  <1>5. /\ Contents \in Seq(Items) /\ Len(Contents) = n
        /\ \A k \in 1 .. n : Contents[k] = Item(top + k - 1)
    BY ContentsFacts
  <1>6. /\ Contents' \in Seq(Items) /\ Len(Contents') = n + 1
        /\ \A k \in 1 .. n + 1 : Contents'[k] = Item(top + k - 1)
    BY <1>0, <1>2, <1>4, ContentsFactsNext
  <1> HIDE DEF n
  <1>7. Contents' = Append(Contents, pushed + 1)
    <2> DEFINE a == Append(Contents, pushed + 1)
    <2>1. /\ a \in Seq(Items) /\ Len(a) = n + 1 /\ a[n + 1] = pushed + 1
          /\ \A k \in 1 .. n : a[k] = Contents[k]
      BY <1>3, <1>5, SeqEnds
    <2> HIDE DEF a
    <2>2. ASSUME NEW k \in 1 .. n + 1 PROVE Contents'[k] = a[k]
      <3>1. CASE k = n + 1
        BY <1>1, <1>4, <1>6, <2>1, <3>1
      <3>2. CASE k # n + 1
        <4>1. k \in 1 .. n
          BY <1>4, <3>2
        <4> QED
          BY <1>5, <1>6, <2>1, <4>1
      <3> QED
        BY <3>1, <3>2
    <2>3. Contents' = a
      BY <1>6, <2>1, <2>2, SameSeq
    <2> QED
      BY <2>3 DEF a
  <1> QED
    BY <1>0, <1>3, <1>7 DEF Abstract!PushBottom

\* pop() takes the newest item, by its load of top_ or by its CAS.
LEMMA PopRefines ==
  ASSUME IInv, IInv', top < LiveBottom, LiveBottom' - top' = LiveBottom - top - 1,
         top' = top \/ top = LiveBottom - 1,
         owner' = [owner EXCEPT ![Item(LiveBottom - 1)] = @ + 1], UNCHANGED <<bufs, stolen>>
  PROVE  Abstract!PopBottom
  <1> DEFINE n == LiveBottom - top
  <1>1. \A i : Item(i)' = Item(i)
    BY DEF Item, Current
  <1>2. n \in Nat /\ n > 0 /\ top \in Nat /\ top' \in Int /\ n - 1 \in Nat /\ top + n - 1 = LiveBottom - 1
    <2>1. top' \in Nat
      <3>1. TypeOK'
        BY DEF IInv
      <3> QED
        BY <3>1, DequeAssumption DEF TypeOK
    <2>2. top \in Nat /\ LiveBottom \in Nat
      BY Facts
    <2> QED
      BY <2>1, <2>2
  <1>3. /\ Contents \in Seq(Items) /\ Len(Contents) = n
        /\ \A k \in 1 .. n : Contents[k] = Item(top + k - 1)
    BY ContentsFacts
  <1>4. /\ Contents' \in Seq(Items) /\ Len(Contents') = n - 1
        /\ \A k \in 1 .. n - 1 : Contents'[k] = Item(top' + k - 1)
    BY <1>1, ContentsFactsNext
  <1>5. \A k \in 1 .. n - 1 : top' = top
    <2>1. top = LiveBottom - 1 => n - 1 = 0
      BY <1>2
    <2> QED
      BY <2>1
  <1>6. Contents[n] = Item(LiveBottom - 1)
    BY <1>2, <1>3
  <1> HIDE DEF n
  <1>7. Contents' = SubSeq(Contents, 1, n - 1)
    <2> DEFINE a == SubSeq(Contents, 1, n - 1)
    <2>1. /\ a \in Seq(Items) /\ Len(a) = n - 1
          /\ \A k \in 1 .. n - 1 : a[k] = Contents[k]
      <3>1. Contents[n] \in Items
        BY <1>2, <1>3
      <3>2. Len(Contents) > 0 /\ a = SubSeq(Contents, 1, Len(Contents) - 1)
        BY <1>2, <1>3
      <3> HIDE DEF a
      <3> QED
        BY <1>3, <3>1, <3>2, SeqEnds
    <2> HIDE DEF a
    <2>2. ASSUME NEW k \in 1 .. n - 1 PROVE Contents'[k] = a[k]
      <3>1. k \in 1 .. n /\ top' = top
        BY <1>2, <1>5
      <3> QED
        BY <1>3, <1>4, <2>1, <3>1
    <2>3. Contents' = a
      BY <1>4, <2>1, <2>2, SameSeq
    <2> QED
      BY <2>3 DEF a
  <1>8. Contents # <<>>
    BY <1>2, <1>3
  <1> QED
    BY <1>3, <1>6, <1>7, <1>8 DEF Abstract!PopBottom

\* steal() takes the oldest item, at its CAS.
LEMMA StealRefines ==
  ASSUME IInv, IInv', top < LiveBottom, top' = top + 1, LiveBottom' = LiveBottom,
         stolen' = [stolen EXCEPT ![Item(top)] = @ + 1], UNCHANGED <<bufs, owner>>
  PROVE  Abstract!StealTop
  <1> DEFINE n == LiveBottom - top
  <1>1. \A i : Item(i)' = Item(i)
    BY DEF Item, Current
  <1>2. n \in Nat /\ n > 0 /\ top \in Nat /\ n - 1 \in Nat /\ LiveBottom' - top' = n - 1
    <2>1. top \in Nat /\ LiveBottom \in Nat
      BY Facts
    <2> QED
      BY ONLY <2>1, top < LiveBottom, top' = top + 1, LiveBottom' = LiveBottom
  <1>3. /\ Contents \in Seq(Items) /\ Len(Contents) = n
        /\ \A k \in 1 .. n : Contents[k] = Item(top + k - 1)
    BY ContentsFacts
  <1>4. /\ Contents' \in Seq(Items) /\ Len(Contents') = n - 1
        /\ \A k \in 1 .. n - 1 : Contents'[k] = Item(top + 1 + k - 1)
    BY <1>1, <1>2, ContentsFactsNext
  <1> HIDE DEF n
  <1>5. 1 \in 1 .. n /\ top + 1 - 1 = top /\ Contents[1] \in Items
    BY <1>2, <1>3
  <1>6. /\ Contents # <<>> /\ Head(Contents) = Contents[1]
        /\ Tail(Contents) \in Seq(Items) /\ Len(Tail(Contents)) = n - 1
        /\ \A k \in 1 .. n - 1 : Tail(Contents)[k] = Contents[k + 1]
    BY <1>2, <1>3, <1>5, SeqEnds
  <1>7. ASSUME NEW k \in 1 .. n - 1 PROVE Contents'[k] = Tail(Contents)[k]
    <2>1. k + 1 \in 1 .. n /\ top + (k + 1) - 1 = top + 1 + k - 1
      BY <1>2
    <2> QED
      BY <1>3, <1>4, <1>6, <2>1
  <1>8. Contents' = Tail(Contents)
    BY <1>4, <1>6, <1>7, SameSeq
  <1>9. Head(Contents) = Item(top)
    BY <1>3, <1>5, <1>6
  <1> QED
    BY <1>6, <1>8, <1>9 DEF Abstract!StealTop

\* Every step of the code is a step of AbstractDeque or changes nothing it sees.
LEMMA DequeStepRefines == IInv /\ IInv' /\ [Next]_vars => [Abstract!ANext]_(Abstract!avars)
  <1> SUFFICES ASSUME IInv, IInv', [Next]_vars PROVE [Abstract!ANext]_(Abstract!avars)
    OBVIOUS
  <1>0. ASSUME UNCHANGED <<top, bufs, owner, stolen>>, LiveBottom' = LiveBottom
        PROVE  UNCHANGED Abstract!avars
    <2>1. \A i \in Live : Item(i)' = Item(i)
      BY <1>0 DEF Item, Current
    <2> QED
      BY <1>0, <2>1, ContentsKept
  <1>1. ASSUME PushLoad PROVE UNCHANGED Abstract!avars
    <2>1. UNCHANGED <<top, bufs, owner, stolen>> /\ LiveBottom' = LiveBottom
      BY <1>1 DEF PushLoad, OwnerTo, shared, history, LiveBottom
    <2> QED
      BY <1>0, <2>1
  <1>2. ASSUME PushGrow \/ PushPut PROVE UNCHANGED Abstract!avars
    <2>1. UNCHANGED <<top, owner, stolen>> /\ LiveBottom' = LiveBottom
      BY <1>2 DEF PushGrow, PushPut, OwnerTo, history, LiveBottom
    <2>2. \A i \in Live : Item(i)' = Item(i)
      BY <1>2, PushGrowKeeps, PushPutKeeps
    <2> QED
      BY <2>1, <2>2, ContentsKept
  <1>3. ASSUME PushPublish PROVE \E v \in Items : Abstract!PushBottom(v)
    BY <1>3, PushRefines
  <1>4. ASSUME PopStore PROVE UNCHANGED Abstract!avars
    <2>1. UNCHANGED <<top, bufs, owner, stolen>>
      BY <1>4 DEF PopStore, history
    <2>2. opc = "idle" /\ opc' = "pop_fence" /\ bottom' = bottom - 1 /\ bottom \in Int
      BY <1>4, Facts DEF PopStore, OwnerTo
    <2>3. LiveBottom' = LiveBottom
      BY <2>2 DEF LiveBottom
    <2> QED
      BY <1>0, <2>1, <2>3
  <1>5. ASSUME PopLoadTop PROVE Abstract!PopBottom \/ UNCHANGED Abstract!avars
    <2>1. opc = "pop_fence" /\ UNCHANGED <<top, bottom, bufs, stolen>>
      BY <1>5 DEF PopLoadTop, OwnerTo, shared
    <2>2. ob = bottom /\ LiveBottom = bottom + 1 /\ bottom \in Int /\ top \in Nat
      BY <2>1, Facts DEF IInv, OwnerInv, Popping, LiveBottom
    <2>3. CASE NonEmpty(top, ob) /\ ~IsLast(top, ob)
      <3>1. /\ opc' = "idle" /\ top <= ob /\ top # ob
            /\ owner' = [owner EXCEPT ![Item(ob)] = @ + 1]
        BY <1>5, <2>3 DEF PopLoadTop, OwnerTo, NonEmpty, IsLast, Item
      <3>2. LiveBottom' = bottom
        BY <2>1, <3>1 DEF LiveBottom
      <3>3. /\ top < LiveBottom /\ LiveBottom' - top' = LiveBottom - top - 1 /\ ob = LiveBottom - 1
        BY <2>1, <2>2, <3>1, <3>2
      <3>4. owner' = [owner EXCEPT ![Item(LiveBottom - 1)] = @ + 1]
        BY <3>1, <3>3
      <3> QED
        BY <2>1, <3>3, <3>4, PopRefines
    <2>4. CASE ~(NonEmpty(top, ob) /\ ~IsLast(top, ob))
      <3>1. owner' = owner /\ opc' \in {"pop_cas", "pop_empty"}
        BY <1>5, <2>4 DEF PopLoadTop, OwnerTo
      <3>2. LiveBottom' = LiveBottom
        BY <2>1, <3>1 DEF LiveBottom
      <3> QED
        BY <1>0, <2>1, <3>1, <3>2
    <2> QED
      BY <2>3, <2>4
  <1>6. ASSUME PopCas PROVE Abstract!PopBottom \/ UNCHANGED Abstract!avars
    <2>1. opc = "pop_cas" /\ opc' = "pop_raced" /\ UNCHANGED <<bottom, bufs, stolen>>
      BY <1>6 DEF PopCas, OwnerTo
    <2>2. ob = bottom /\ ot = ob /\ LiveBottom = bottom + 1 /\ LiveBottom' = bottom + 1
          /\ bottom \in Int /\ top \in Nat
      BY <2>1, Facts DEF IInv, OwnerInv, Popping, LiveBottom
    <2>3. CASE top = ot
      <3>1. top' = ot + 1 /\ owner' = [owner EXCEPT ![Item(ob)] = @ + 1]
        BY <1>6, <2>3 DEF PopCas, Item
      <3>2. /\ top < LiveBottom /\ LiveBottom' - top' = LiveBottom - top - 1
            /\ top = LiveBottom - 1 /\ ob = LiveBottom - 1
        BY <2>2, <2>3, <3>1
      <3>3. owner' = [owner EXCEPT ![Item(LiveBottom - 1)] = @ + 1]
        BY <3>1, <3>2
      <3> QED
        BY <2>1, <3>2, <3>3, PopRefines
    <2>4. CASE top # ot
      <3>1. top' = top /\ owner' = owner
        BY <1>6, <2>4 DEF PopCas
      <3> QED
        BY <1>0, <2>1, <2>2, <3>1
    <2> QED
      BY <2>3, <2>4
  <1>7. ASSUME PopRestore \/ PopEmpty PROVE UNCHANGED Abstract!avars
    <2>1. /\ opc \in {"pop_raced", "pop_empty"} /\ opc' = "idle" /\ bottom' = ob + 1
          /\ UNCHANGED <<top, bufs, owner, stolen>>
      BY <1>7 DEF PopRestore, PopEmpty, BottomAfterRace, BottomAfterEmpty, OwnerTo, history, IInv, OwnerInv
    <2>2. LiveBottom' = LiveBottom
      BY <2>1 DEF LiveBottom, IInv, OwnerInv, Popping
    <2> QED
      BY <1>0, <2>1, <2>2
  <1>8. ASSUME NEW th \in Thieves,
               StealLoadTop(th) \/ StealLoadBottom(th) \/ StealLoadBuffer(th) \/ StealGet(th)
        PROVE  UNCHANGED Abstract!avars
    <2>1. UNCHANGED <<shared, olocal, history>>
      BY <1>8 DEF StealLoadTop, StealLoadBottom, StealLoadBuffer, StealGet
    <2>2. UNCHANGED <<top, bottom, opc, bufs, owner, stolen>>
      BY <2>1 DEF shared, olocal, history
    <2> QED
      BY <1>0, <2>2 DEF LiveBottom
  <1>9. ASSUME NEW th \in Thieves, StealCas(th)
        PROVE  Abstract!StealTop \/ UNCHANGED Abstract!avars
    <2>1. tpc[th] = "steal_cas" /\ UNCHANGED <<bottom, opc, bufs, owner>>
      BY <1>9 DEF StealCas, ThiefTo, olocal
    <2>2. LiveBottom' = LiveBottom
      BY <2>1 DEF LiveBottom
    <2>3. CASE StealWins(th)
      <3>1. tt[th] = top
        BY <2>3 DEF StealWins
      <3>2. top < LiveBottom /\ tval[th] = Item(top)
        BY <2>1, <3>1 DEF IInv, ThiefInv, Committing
      <3>3. top' = top + 1 /\ stolen' = [stolen EXCEPT ![Item(top)] = @ + 1]
        BY <1>9, <2>3, <3>1, <3>2 DEF StealCas
      <3> QED
        BY <2>1, <2>2, <3>2, <3>3, StealRefines
    <2>4. CASE ~StealWins(th)
      <3>1. top' = top /\ stolen' = stolen
        BY <1>9, <2>4 DEF StealCas
      <3> QED
        BY <1>0, <2>1, <2>2, <3>1
    <2> QED
      BY <2>3, <2>4
  <1>10. ASSUME UNCHANGED vars PROVE UNCHANGED Abstract!avars
    <2>1. UNCHANGED <<top, bottom, opc, bufs, owner, stolen>>
      BY <1>10 DEF vars, shared, olocal, history
    <2> QED
      BY <1>0, <2>1 DEF LiveBottom
  <1>11. CASE Push
    BY <1>1, <1>2, <1>3, <1>11 DEF Push, Abstract!ANext
  <1>12. CASE Pop
    BY <1>4, <1>5, <1>6, <1>7, <1>12 DEF Pop, Abstract!ANext
  <1>13. CASE \E th \in Thieves : Steal(th)
    BY <1>8, <1>9, <1>13 DEF Steal, Abstract!ANext
  <1> QED
    BY <1>10, <1>11, <1>12, <1>13 DEF Next

(***************************************************************************)
(* The deque implements AbstractDeque for any number of thieves and any    *)
(* number of pushes: pop() returns the newest item and steal() the oldest, *)
(* each at one instant, although every operation takes several steps and   *)
(* the buffer is replaced under a thief that is reading it.                *)
(***************************************************************************)
THEOREM DequeRefinement == Spec => RefinesAbstractDeque
  <1>1. Init => Abstract!AInit
    <2> SUFFICES ASSUME Init PROVE Abstract!AInit
      OBVIOUS
    <2>1. LiveBottom - top = 0
      BY DEF Init, LiveBottom
    <2>2. Contents = <<>>
      BY <2>1 DEF Contents
    <2> QED
      BY <2>2 DEF Init, Abstract!AInit
  <1> QED
    BY Invariance, DequeStepRefines, <1>1, PTL DEF Spec, RefinesAbstractDeque, Abstract!ASpec
=============================================================================
