------------------------------- MODULE Future -------------------------------
(***************************************************************************)
(* core/future.h: the shared state of one Promise and its Future.          *)
(*                                                                         *)
(* The producer satisfies the promise once or drops it (a task that is     *)
(* deleted unrun, a continuation that is deleted unrun).  The consumer     *)
(* either registers a continuation, or waits with get() or wait_for(), or  *)
(* drops the future; the header forbids then() together with get().        *)
(* Promise<void>/Future<void> repeat the same code without the value.      *)
(***************************************************************************)
EXTENDS Naturals

VARIABLES
  ready,      \* ready_
  exception,  \* exception_ is set
  value,      \* value_storage_: "raw", "live", "moved" (live, but moved from), "destroyed"
  slot,       \* continuation_: "null", "cont" or "sentinel"
  cont,       \* the heap object of the continuation: "none", "live" or "freed"
  refs,       \* owners of the shared state
  ppc, cpc,   \* producer, consumer
  calls,      \* history: invocations of the callback
  answer      \* history: what get()/wait_for() gave

future_vars == <<ready, exception, value, slot, cont, refs, ppc, cpc, calls, answer>>

FutureInit ==
  /\ ready = FALSE /\ exception = FALSE
  /\ value = "raw"
  /\ slot = "null" /\ cont = "none"
  /\ refs = {"promise", "future"}
  /\ ppc = "start" /\ cpc = "start"
  /\ calls = 0
  /\ answer = "none"

ProducerTo(from, to) == ppc = from /\ ppc' = to
ConsumerTo(from, to) == cpc = from /\ cpc' = to

-----------------------------------------------------------------------------
\* What the exchange in set_value()/set_exception() does with the previous
\* occupant.
AfterExchange ==
  IF slot = "cont" THEN (IF exception THEN "delete" ELSE "invoke") ELSE "drop"

\* Both setters publish.  Mutant: only a value is published.
PublishedValueOnly == ~exception
Published == TRUE

\* set_value(): placement-new of the value.
SetValue ==
  /\ ProducerTo("start", "publish")
  /\ value' = "live"
  /\ UNCHANGED <<ready, exception, slot, cont, refs, cpc, calls, answer>>

\* set_exception(): exception_ = ep.
SetException ==
  /\ ProducerTo("start", "publish")
  /\ exception' = TRUE
  /\ UNCHANGED <<ready, value, slot, cont, refs, cpc, calls, answer>>

\* ready_.store(true, release).
SetReady ==
  /\ ProducerTo("publish", "exchange")
  /\ ready' = Published
  /\ UNCHANGED <<exception, value, slot, cont, refs, cpc, calls, answer>>

\* prev = continuation_.exchange(sentinel).
SetExchange ==
  /\ ProducerTo("exchange", AfterExchange)
  /\ slot' = "sentinel"
  /\ UNCHANGED <<ready, exception, value, cont, refs, cpc, calls, answer>>

\* set_value(): (*prev)(value).
SetInvoke ==
  /\ ProducerTo("invoke", "delete")
  /\ calls' = calls + 1
  /\ UNCHANGED <<ready, exception, value, slot, cont, refs, cpc, answer>>

\* delete prev: after the call, or instead of it for an exception.
SetDelete ==
  /\ ProducerTo("delete", "drop")
  /\ cont' = "freed"
  /\ UNCHANGED <<ready, exception, value, slot, refs, cpc, calls, answer>>

-----------------------------------------------------------------------------
\* then() found the sentinel.  Mutant: it relies on set_value() regardless.
LateThenTrusts == FALSE
LateThen == slot = "sentinel"

\* An exception is not for the callback.
LateCall == ~exception

\* What then() leaves in the slot.  Mutant: the deleted continuation.
ConsumedMarkMissing == slot
ConsumedMark == "sentinel"

\* then(): cont = new Cont.
Then ==
  /\ ConsumerTo("start", "then_exchange")
  /\ cont' = "live"
  /\ UNCHANGED <<ready, exception, value, slot, refs, ppc, calls, answer>>

\* then(): prev = continuation_.exchange(cont).
ThenExchange ==
  /\ ConsumerTo("then_exchange", IF LateThen THEN "then_invoke" ELSE "drop")
  /\ slot' = "cont"
  /\ UNCHANGED <<ready, exception, value, cont, refs, ppc, calls, answer>>

\* then(): call it ourselves unless the promise was broken by an exception.
ThenInvoke ==
  /\ ConsumerTo("then_invoke", "then_delete")
  /\ calls' = IF LateCall THEN calls + 1 ELSE calls
  /\ UNCHANGED <<ready, exception, value, slot, cont, refs, ppc, answer>>

\* then(): delete cont.
ThenDelete ==
  /\ ConsumerTo("then_delete", "then_mark")
  /\ cont' = "freed"
  /\ UNCHANGED <<ready, exception, value, slot, refs, ppc, calls, answer>>

\* then(): continuation_.store(sentinel), "so ~SharedState doesn't double-free".
ThenMark ==
  /\ ConsumerTo("then_mark", "drop")
  /\ slot' = ConsumedMark
  /\ UNCHANGED <<ready, exception, value, cont, refs, ppc, calls, answer>>

\* get() or wait_for() is called and finds the promise unsatisfied.
Wait ==
  /\ ~ready
  /\ \/ ConsumerTo("start", "get")
     \/ ConsumerTo("start", "wait_for")
  /\ UNCHANGED <<ready, exception, value, slot, cont, refs, ppc, calls, answer>>

\* wait_for() passes its deadline: nullopt, even if ready_ was set after the
\* last look at it.  The caller may ask again.
WaitTimeout ==
  /\ ConsumerTo("wait_for", "start")
  /\ UNCHANGED <<ready, exception, value, slot, cont, refs, ppc, calls, answer>>

\* get() or wait_for() sees ready_: rethrow, or move the value out.
WaitDone ==
  /\ ready
  /\ \E from \in {"start", "get", "wait_for"} : ConsumerTo(from, "drop")
  /\ IF exception
       THEN answer' = "exception" /\ UNCHANGED value
       ELSE answer' = "value" /\ value' = "moved"
  /\ UNCHANGED <<ready, exception, slot, cont, refs, ppc, calls>>

-----------------------------------------------------------------------------
\* ~SharedState, run by the last owner.
DestroyedValue == IF ready /\ ~exception THEN "destroyed" ELSE value
DestroyedCont == IF slot = "cont" THEN "freed" ELSE cont

Release(owner) ==
  /\ owner \in refs
  /\ refs' = refs \ {owner}
  /\ IF refs' = {}
       THEN value' = DestroyedValue /\ cont' = DestroyedCont
       ELSE UNCHANGED <<value, cont>>
  /\ UNCHANGED <<ready, exception, slot, calls, answer>>

\* The promise goes, satisfied or not.
PromiseDrop ==
  /\ ppc \in {"start", "drop"} /\ ppc' = "gone"
  /\ Release("promise")
  /\ UNCHANGED cpc

\* The future goes, asked or not.
FutureDrop ==
  /\ cpc \in {"start", "drop"} /\ cpc' = "gone"
  /\ Release("future")
  /\ UNCHANGED ppc

-----------------------------------------------------------------------------
Setting == SetReady \/ SetExchange \/ SetInvoke \/ SetDelete
Producer == SetValue \/ SetException \/ Setting \/ PromiseDrop
ThenRest == ThenExchange \/ ThenInvoke \/ ThenDelete \/ ThenMark
Consumer == Then \/ ThenRest \/ Wait \/ WaitTimeout \/ WaitDone \/ FutureDrop

FutureNext == Producer \/ Consumer

(***************************************************************************)
(* A thread inside set_value(), set_exception() or then() runs on; one     *)
(* that spins in get() keeps polling.  Nobody need satisfy the promise.    *)
(***************************************************************************)
FutureSpec == FutureInit /\ [][FutureNext]_future_vars
FutureFairSpec ==
  /\ FutureSpec
  /\ WF_future_vars(Setting)
  /\ WF_future_vars(ThenRest)
  /\ WF_future_vars(WaitDone /\ cpc \in {"get", "wait_for"})

-----------------------------------------------------------------------------
\* Type invariant; the callback is never called twice.
FutureTypeOK ==
  /\ ready \in BOOLEAN /\ exception \in BOOLEAN
  /\ value \in {"raw", "live", "moved", "destroyed"}
  /\ slot \in {"null", "cont", "sentinel"}
  /\ cont \in {"none", "live", "freed"}
  /\ refs \subseteq {"promise", "future"}
  /\ ppc \in {"start", "publish", "exchange", "invoke", "delete", "drop", "gone"}
  /\ cpc \in {"start", "get", "wait_for", "then_exchange", "then_invoke",
              "then_delete", "then_mark", "drop", "gone"}
  /\ calls \in {0, 1}
  /\ answer \in {"none", "value", "exception"}

(***************************************************************************)
(* Whoever is about to call or delete the continuation has it to itself    *)
(* and it is not deleted; the slot keeps a deleted one only while then()   *)
(* is about to overwrite it (future.h:152-155, 171-173, 230-238).  When    *)
(* the shared state is gone, so are the value and the continuation,        *)
(* whoever was last and whether or not the promise was satisfied           *)
(* (future.h:98-107).  No callback is called twice (FutureTypeOK).         *)
(***************************************************************************)
ProducerHasCont == ppc \in {"invoke", "delete"}
ConsumerHasCont == cpc \in {"then_exchange", "then_invoke", "then_delete"}
FreedOnce ==
  /\ FutureTypeOK
  /\ ProducerHasCont \/ ConsumerHasCont => cont = "live"
  /\ ~(ProducerHasCont /\ ConsumerHasCont)
  /\ slot = "cont" /\ refs # {} /\ cpc # "then_mark" => cont = "live"
  /\ refs = {} => cont # "live" /\ value \in {"raw", "destroyed"}

(***************************************************************************)
(* The implementation takes AbstractFuture's steps: a value that meets a   *)
(* continuation calls it once, whichever exchange comes first, and an      *)
(* exception never does (future.h:153, 232-234).                           *)
(***************************************************************************)
Outcome == IF ~ready THEN "none" ELSE IF exception THEN "exception" ELSE "value"
Callback == IF calls > 0 THEN "fired" ELSE IF cont = "none" THEN "none" ELSE "registered"
AFuture == INSTANCE AbstractFuture WITH outcome <- Outcome, callback <- Callback
RefinesAbstractFuture == AFuture!ASpec

(***************************************************************************)
(* Once a setter has begun, get() returns or throws.                       *)
(***************************************************************************)
GetReturns == ppc \notin {"start", "gone"} ~> cpc # "get"
=============================================================================
