-------------------------- MODULE WorkStealingDeque -------------------------
(***************************************************************************)
(* core/work_stealing_deque.h: the Chase-Lev deque of one worker.          *)
(*                                                                         *)
(* The owner pushes and pops at bottom_, thieves steal at top_.  Every     *)
(* access to an atomic that another thread writes is a step of its own.    *)
(* The order of the accesses is the program's: pop() separates its store   *)
(* of bottom_ from its load of top_ by a seq_cst fence, steal() its loads  *)
(* of top_ and bottom_ likewise, so these may not be reordered.            *)
(***************************************************************************)
EXTENDS Integers, Sequences

CONSTANTS
  Thieves,
  InitCap,      \* capacity of the first buffer
  MaxPushes     \* bound: pushes by the owner

ASSUME DequeAssumption ==
  /\ InitCap \in Nat \ {0}
  /\ MaxPushes \in Nat

VARIABLES
  top, bottom,          \* top_, bottom_
  bufs,                 \* old_buffers_, then buffer_ as the last element
  opc, ob, ot,          \* owner: where it is, its locals b and t
  tpc, tt, tbuf, tval,  \* thieves: where each is, its locals t, buf and value
  pushed,               \* history: pushes completed; the k-th pushes item k
  owner, stolen         \* history: how often pop() and steal() returned an item

shared == <<top, bottom, bufs>>
olocal == <<opc, ob, ot>>
tlocal == <<tpc, tt, tbuf, tval>>
history == <<pushed, owner, stolen>>
vars == <<shared, olocal, tlocal, history>>

Items == 1 .. MaxPushes
Empty == 0              \* T{}

(***************************************************************************)
(* CircularBuffer.  Mutants: an index that ignores the wrap of the larger  *)
(* buffer when it is copied; a buffer that is full one item too late.      *)
(***************************************************************************)
NewBuffer(cap) == [cap |-> cap, slot |-> [s \in 0 .. cap - 1 |-> Empty]]
Get(buf, i) == buf.slot[i % buf.cap]
Put(buf, i, v) == [buf EXCEPT !.slot[i % buf.cap] = v]

GrowSameSlots(buf, t, b) ==
  [cap  |-> 2 * buf.cap,
   slot |-> [s \in 0 .. 2 * buf.cap - 1 |-> IF s < buf.cap THEN buf.slot[s] ELSE Empty]]
Grow(buf, t, b) ==
  LET cap == 2 * buf.cap
      From(s) == {i \in t .. b - 1 : i % cap = s}
  IN  [cap  |-> cap,
       slot |-> [s \in 0 .. cap - 1 |->
                   IF From(s) = {} THEN Empty ELSE Get(buf, CHOOSE i \in From(s) : TRUE)]]

IsFull(buf, t, b) == b - t >= buf.cap

Current == bufs[Len(bufs)]

Init ==
  /\ top = 0 /\ bottom = 0
  /\ bufs = <<NewBuffer(InitCap)>>
  /\ opc = "idle" /\ ob = 0 /\ ot = 0
  /\ tpc = [th \in Thieves |-> "idle"]
  /\ tt = [th \in Thieves |-> 0]
  /\ tbuf = [th \in Thieves |-> 0]
  /\ tval = [th \in Thieves |-> Empty]
  /\ pushed = 0
  /\ owner = [v \in Items |-> 0]
  /\ stolen = [v \in Items |-> 0]

OwnerTo(from, to) == opc = from /\ opc' = to
ThiefTo(th, from, to) == tpc[th] = from /\ tpc' = [tpc EXCEPT ![th] = to]

-----------------------------------------------------------------------------
\* push(): load bottom_, top_ and buffer_; only top_ can change afterwards.
PushLoad ==
  /\ pushed < MaxPushes
  /\ OwnerTo("idle", IF IsFull(Current, top, bottom) THEN "push_grow" ELSE "push_put")
  /\ ob' = bottom
  /\ ot' = top
  /\ UNCHANGED <<shared, tlocal, history>>

\* push(): copy [t, b) into a buffer of twice the size and publish that; the
\* old one stays allocated for thieves that have already loaded it.
PushGrow ==
  /\ OwnerTo("push_grow", "push_put")
  /\ bufs' = Append(bufs, Grow(Current, ot, ob))
  /\ UNCHANGED <<top, bottom, ob, ot, tlocal, history>>

\* push(): buf->put(b, value).
PushPut ==
  /\ OwnerTo("push_put", "push_publish")
  /\ bufs' = [bufs EXCEPT ![Len(bufs)] = Put(@, ob, pushed + 1)]
  /\ UNCHANGED <<top, bottom, ob, ot, tlocal, history>>

\* push(): bottom_.store(b + 1, release).
PushPublish ==
  /\ OwnerTo("push_publish", "idle")
  /\ bottom' = ob + 1
  /\ pushed' = pushed + 1
  /\ UNCHANGED <<top, bufs, ob, ot, tlocal, owner, stolen>>

-----------------------------------------------------------------------------
\* Whether pop() finds anything.  Mutant: the last item is overlooked.
NonEmptyStrict(t, b) == t < b
NonEmpty(t, b) == t <= b

\* The last item is fought for with a CAS.  Mutant: it is taken like any other.
IsLastNever(t, b) == FALSE
IsLast(t, b) == t = b

\* bottom_ after the race for the last item.  Mutant: b, one short of top_.
BottomAfterRaceShort == ob
BottomAfterRace == ot + 1

\* bottom_ after finding the deque empty.
BottomAfterEmpty == ot

\* pop(): b = bottom_ - 1; bottom_.store(b).
PopStore ==
  /\ OwnerTo("idle", "pop_fence")
  /\ ob' = bottom - 1
  /\ bottom' = bottom - 1
  /\ UNCHANGED <<top, bufs, ot, tlocal, history>>

\* pop(): after the fence, t = top_.load().  With t < b the item at b is ours.
PopLoadTop ==
  /\ ot' = top
  /\ \/ /\ NonEmpty(top, ob) /\ ~IsLast(top, ob)
        /\ OwnerTo("pop_fence", "idle")
        /\ owner' = [owner EXCEPT ![Get(Current, ob)] = @ + 1]
     \/ /\ NonEmpty(top, ob) /\ IsLast(top, ob)
        /\ OwnerTo("pop_fence", "pop_cas")
        /\ UNCHANGED owner
     \/ /\ ~NonEmpty(top, ob)
        /\ OwnerTo("pop_fence", "pop_empty")
        /\ UNCHANGED owner
  /\ UNCHANGED <<shared, ob, tlocal, pushed, stolen>>

\* pop(): top_.compare_exchange_strong(t, t + 1).
PopCas ==
  /\ OwnerTo("pop_cas", "pop_raced")
  /\ IF top = ot
       THEN top' = ot + 1 /\ owner' = [owner EXCEPT ![Get(Current, ob)] = @ + 1]
       ELSE UNCHANGED <<top, owner>>
  /\ UNCHANGED <<bottom, bufs, ob, ot, tlocal, pushed, stolen>>

\* pop(): won or lost, bottom_.store(t + 1); return.
PopRestore ==
  /\ OwnerTo("pop_raced", "idle")
  /\ bottom' = BottomAfterRace
  /\ UNCHANGED <<top, bufs, ob, ot, tlocal, history>>

\* pop(): empty, bottom_.store(t); return nullopt.
PopEmpty ==
  /\ OwnerTo("pop_empty", "idle")
  /\ bottom' = BottomAfterEmpty
  /\ UNCHANGED <<top, bufs, ob, ot, tlocal, history>>

-----------------------------------------------------------------------------
\* The CAS of steal() succeeds.
StealWins(th) == top = tt[th]

\* steal(): t = top_.load().
StealLoadTop(th) ==
  /\ ThiefTo(th, "idle", "steal_fence")
  /\ tt' = [tt EXCEPT ![th] = top]
  /\ UNCHANGED <<shared, olocal, tbuf, tval, history>>

\* steal(): after the fence, b = bottom_.load(); return nullopt unless t < b.
StealLoadBottom(th) ==
  /\ ThiefTo(th, "steal_fence", IF tt[th] < bottom THEN "steal_buffer" ELSE "idle")
  /\ UNCHANGED <<shared, olocal, tt, tbuf, tval, history>>

\* steal(): buf = buffer_.load().
StealLoadBuffer(th) ==
  /\ ThiefTo(th, "steal_buffer", "steal_get")
  /\ tbuf' = [tbuf EXCEPT ![th] = Len(bufs)]
  /\ UNCHANGED <<shared, olocal, tt, tval, history>>

\* steal(): value = buf->get(t), possibly from a buffer replaced meanwhile.
StealGet(th) ==
  /\ ThiefTo(th, "steal_get", "steal_cas")
  /\ tval' = [tval EXCEPT ![th] = Get(bufs[tbuf[th]], tt[th])]
  /\ UNCHANGED <<shared, olocal, tt, tbuf, history>>

\* steal(): top_.compare_exchange_strong(t, t + 1); return value or nullopt.
StealCas(th) ==
  /\ ThiefTo(th, "steal_cas", "idle")
  /\ IF StealWins(th)
       THEN top' = tt[th] + 1 /\ stolen' = [stolen EXCEPT ![tval[th]] = @ + 1]
       ELSE UNCHANGED <<top, stolen>>
  /\ UNCHANGED <<bottom, bufs, olocal, tt, tbuf, tval, pushed, owner>>

-----------------------------------------------------------------------------
Push == PushLoad \/ PushGrow \/ PushPut \/ PushPublish
Pop == PopStore \/ PopLoadTop \/ PopCas \/ PopRestore \/ PopEmpty
Steal(th) ==
  \/ StealLoadTop(th) \/ StealLoadBottom(th) \/ StealLoadBuffer(th)
  \/ StealGet(th) \/ StealCas(th)

Next == Push \/ Pop \/ \E th \in Thieves : Steal(th)

(***************************************************************************)
(* The owner finishes what it has started and idle peers keep stealing;    *)
(* the owner need not push or pop again (its worker may be blocked).       *)
(***************************************************************************)
Spec == Init /\ [][Next]_vars
FairSpec ==
  /\ Spec
  /\ WF_vars(opc # "idle" /\ (Push \/ Pop))
  /\ \A th \in Thieves : WF_vars(Steal(th))

-----------------------------------------------------------------------------
(***************************************************************************)
(* The indices that hold an item nobody has taken.  While pop() has        *)
(* lowered bottom_ and not yet decided, the item it is after still counts. *)
(***************************************************************************)
LiveBottom ==
  IF opc \in {"pop_fence", "pop_cas", "pop_raced", "pop_empty"} THEN bottom + 1 ELSE bottom
Live == top .. LiveBottom - 1
Item(i) == Get(Current, i)
Taken(v) == owner[v] + stolen[v]

\* Type invariant; indices never run ahead of the pushes nor below -1.
TypeOK ==
  /\ top \in 0 .. MaxPushes
  /\ bottom \in -1 .. MaxPushes
  /\ Len(bufs) \in Nat \ {0}
  /\ \A k \in 1 .. Len(bufs) :
       /\ bufs[k].cap \in Nat \ {0}
       /\ bufs[k].slot \in [0 .. bufs[k].cap - 1 -> Items \cup {Empty}]
  /\ opc \in {"idle", "push_grow", "push_put", "push_publish",
              "pop_fence", "pop_cas", "pop_raced", "pop_empty"}
  /\ ob \in -1 .. MaxPushes
  /\ ot \in 0 .. MaxPushes
  /\ tpc \in [Thieves -> {"idle", "steal_fence", "steal_buffer", "steal_get", "steal_cas"}]
  /\ tt \in [Thieves -> 0 .. MaxPushes]
  /\ tbuf \in [Thieves -> 0 .. Len(bufs)]
  /\ tval \in [Thieves -> Items \cup {Empty}]
  /\ pushed \in 0 .. MaxPushes
  /\ owner \in [Items -> Nat]
  /\ stolen \in [Items -> Nat]

(***************************************************************************)
(* Every pushed item is returned once by pop() or steal(), or is in the    *)
(* deque once: no task is run twice or lost, whatever the owner, the       *)
(* thieves and a growing buffer do (work_stealing_deque.h:41-111).         *)
(***************************************************************************)
ExactlyOnce ==
  /\ \A i, j \in Live : Item(i) = Item(j) => i = j
  /\ \A v \in Items :
       /\ Taken(v) <= 1
       /\ (\E i \in Live : Item(i) = v) <=> v <= pushed /\ Taken(v) = 0

(***************************************************************************)
(* pop() gives up (lines 81-82, 89-90) only when nothing is left to take.  *)
(***************************************************************************)
PopFailsOnlyIfEmpty == opc \in {"pop_raced", "pop_empty"} => Live = {}

(***************************************************************************)
(* The deque implements AbstractDeque: pop() takes the newest item and     *)
(* steal() the oldest, each at one instant.                                *)
(***************************************************************************)
Contents == [k \in 1 .. LiveBottom - top |-> Item(top + k - 1)]
Abstract == INSTANCE AbstractDeque WITH items <- Contents
RefinesAbstractDeque == Abstract!ASpec

(***************************************************************************)
(* An item left in the deque of a worker that never pops again is stolen:  *)
(* failed steals cannot go on for ever.                                    *)
(***************************************************************************)
EventuallyTaken == \A v \in Items : pushed >= v ~> Taken(v) = 1
=============================================================================
