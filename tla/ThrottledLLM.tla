---------------------------- MODULE ThrottledLLM ----------------------------
(***************************************************************************)
(* LLM calls on the thread pool: llm/throttled_llm_client.h around         *)
(* llm/llm_client.h around core/async_http_client.h.                       *)
(*                                                                         *)
(* A session is a task of the pool.  For a call it takes a permit, makes   *)
(* the inner client submit an HTTP task and a task that parses its answer, *)
(* chains the release of the permit to the latter with Future::then, and   *)
(* waits for the promise which that continuation sets (SessionProgram).    *)
(* The llm task gets the HTTP task, which waits for nothing.               *)
(*                                                                         *)
(* The semaphore is the one of module Semaphore, with its loops taken as   *)
(* one step: its acquire() does not help the pool while it waits.  The     *)
(* rate limiter in front of it only delays the call.                       *)
(***************************************************************************)
EXTENDS ThreadPool, FiniteSets

CONSTANTS
  MaxPermits,
  Calls,        \* the llm tasks
  MayThrow      \* tasks that may end in an exception

ASSUME CallsAssumption == MaxPermits \in Nat \ {0} /\ Calls \cup MayThrow \subseteq Tasks

\* What session s does for a call, with HTTP task h and llm task l.
SessionProgram(s, h, l) ==
  <<[op |-> "acquire", task |-> s], [op |-> "prepare", task |-> s],
    [op |-> "submit", task |-> h], [op |-> "submit", task |-> l],
    [op |-> "then", task |-> l], [op |-> "result", task |-> l]>>

Sessions == {s \in Roots : \E h \in Tasks, l \in Calls : Program[s] = SessionProgram(s, h, l)}

\* Nobody else uses the semaphore.
ASSUME SessionAssumption ==
  \A t \in Tasks \ Sessions : \A k \in 1 .. Len(Program[t]) : Program[t][k].op \in {"submit", "get"}

VARIABLES
  permits,      \* Semaphore::permits_
  failed,       \* tasks that ended in an exception
  cont          \* continuation of each call: "none", "set", "called" or "dropped"

calls == <<permits, failed, cont>>
allvars == <<vars, calls>>

CallInit ==
  /\ Init
  /\ permits = MaxPermits
  /\ failed = {}
  /\ cont = [l \in Calls |-> "none"]

Skip(w) == Advance(w) /\ UNCHANGED <<deque, subq, unlinked, next, pc, base, cursor, status, begun>>

\* The task on top leaves with an exception: nothing of its program is left.
Throw(w) ==
  /\ stack' = [stack EXCEPT ![w][Len(stack[w])].at = Len(Program[Top(w).task]) + 1]
  /\ failed' = failed \cup {Top(w).task}
  /\ UNCHANGED <<deque, subq, unlinked, next, pc, base, cursor, status, begun>>

\* sem_.acquire().
Acquire(w) ==
  /\ At(w, "acquire") /\ permits > 0
  /\ permits' = permits - 1
  /\ Skip(w)
  /\ UNCHANGED <<failed, cont>>

\* inner_.complete() builds the request ...
Prepare(w) == At(w, "prepare") /\ Skip(w) /\ UNCHANGED calls

\* Mutant: the exception leaves with the permit.
AfterThrowKept == permits
AfterThrow == permits + 1

\* ... or fails to (body.dump() throws): release and rethrow.
PrepareThrows(w) ==
  /\ At(w, "prepare") /\ Top(w).task \in MayThrow
  /\ permits' = AfterThrow
  /\ Throw(w)
  /\ UNCHANGED cont

\* The continuation of call l: called on a value, deleted on an exception.
Complete(l) ==
  /\ cont' = [cont EXCEPT ![l] = IF l \in failed THEN "dropped" ELSE "called"]
  /\ permits' = IF l \in failed THEN permits ELSE permits + 1

\* inner_fut.then(): the call may be complete already.
Then(w) ==
  /\ At(w, "then")
  /\ LET l == Instr(w).task IN
       IF status[l] = "done"
       THEN Complete(l)
       ELSE cont' = [cont EXCEPT ![l] = "set"] /\ UNCHANGED permits
  /\ Skip(w)
  /\ UNCHANGED failed

\* get() on the promise of the continuation.
ResultReady(w) ==
  /\ At(w, "result") /\ cont[Instr(w).task] = "called"
  /\ Skip(w)
  /\ UNCHANGED calls

ResultHelp(w) ==
  /\ Helps(w)
  /\ At(w, "result") /\ cont[Instr(w).task] # "called"
  /\ Move(w, "run", "own")
  /\ UNCHANGED calls

\* fut.get() in the llm task, outside its try block.
GetValue(w) == GetReady(w) /\ Instr(w).task \notin failed /\ UNCHANGED calls
GetThrows(w) ==
  /\ At(w, "get") /\ status[Instr(w).task] = "done" /\ Instr(w).task \in failed
  /\ Throw(w)
  /\ UNCHANGED <<permits, cont>>

\* An HTTP task throws (check_ssrf is called outside any try block).
HttpThrows(w) ==
  /\ Running(w) /\ Program[Top(w).task] = <<>>
  /\ Top(w).task \in MayThrow \ failed
  /\ Throw(w)
  /\ UNCHANGED <<permits, cont>>

\* Mutant: set_value() loses the continuation it finds.
FindsContNever(t) == FALSE
FindsCont(t) == t \in Calls /\ cont[t] = "set"

\* A task ends: its promise is set, and its continuation called by it.
End(w) ==
  /\ Finish(w)
  /\ IF FindsCont(Top(w).task) THEN Complete(Top(w).task) ELSE UNCHANGED <<permits, cont>>
  /\ UNCHANGED failed

-----------------------------------------------------------------------------
PoolStep(w) == (Look(w) \/ SubmitLocal(w) \/ GetHelp(w)) /\ UNCHANGED calls
CallStep(w) ==
  \/ Acquire(w) \/ Prepare(w) \/ PrepareThrows(w) \/ Then(w) \/ ResultReady(w) \/ ResultHelp(w)
  \/ GetValue(w) \/ GetThrows(w) \/ HttpThrows(w) \/ End(w)
CallNext ==
  \/ \E w \in Workers : PoolStep(w) \/ CallStep(w)
  \/ \E r \in Roots : Client(r) /\ UNCHANGED calls

(***************************************************************************)
(* Fairness of the pool; a free permit is taken by somebody who waits.     *)
(***************************************************************************)
CallSpec == CallInit /\ [][CallNext]_allvars
FairCallSpec ==
  /\ CallSpec
  /\ \A w \in Workers : WF_allvars(PoolStep(w) \/ CallStep(w))
  /\ \A w, v \in Workers : SF_allvars(StealFrom(w, v) /\ UNCHANGED calls)
  /\ \A r \in Roots : WF_allvars(ClientLink(r) /\ UNCHANGED calls)

-----------------------------------------------------------------------------
\* Type invariant.
CallTypeOK ==
  /\ TypeOK
  /\ permits \in 0 .. MaxPermits
  /\ failed \subseteq Tasks
  /\ cont \in [Calls -> {"none", "set", "called", "dropped"}]

\* Session s is in a call: its frame is past acquire, and the call's future is
\* not yet ready and chained.
FramesOf(s) == {f \in UNION {{stack[w][i] : i \in 1 .. Len(stack[w])} : w \in Workers} :
                  f.task = s}
CallOf(s) == {Program[s][k].task : k \in {k \in 1 .. Len(Program[s]) : Program[s][k].op = "then"}}
InCall(s) ==
  \E f \in FramesOf(s) :
     /\ 1 < f.at /\ s \notin failed
     /\ \A l \in CallOf(s) : cont[l] = "none" \/ status[l] # "done"
Out == Cardinality({s \in Roots : CallOf(s) # {} /\ InCall(s)})

(***************************************************************************)
(* "The semaphore permit is released asynchronously when the inner LLM     *)
(* call completes (via Future::then), so it tracks actual in-flight        *)
(* requests" (throttled_llm_client.h:24-26): a permit is out for each      *)
(* session that has acquired one and not seen the inner call complete.     *)
(* The one exception is a call that completes with an exception: its       *)
(* continuation is dropped and its permit with it.  The counter stays      *)
(* within its range (CallTypeOK).                                          *)
(***************************************************************************)
PermitsAccounted ==
  CallTypeOK /\ permits + Out + Cardinality({l \in Calls : cont[l] = "dropped"}) = MaxPermits

(***************************************************************************)
(* "Pool starvation is prevented by Future::get()'s inline work-stealing"  *)
(* (README.md:295): every session that is submitted ends.                  *)
(***************************************************************************)
EverySessionEnds == \A s \in Roots : status[s] = "queued" ~> status[s] = "done"

\* A worker waits for a permit on top of a suspended llm task, whose session
\* holds the permit until that task ends.
Buried(w) ==
  /\ At(w, "acquire") /\ permits = 0
  /\ \E i \in 1 .. Len(stack[w]) - 1 : stack[w][i].task \in Calls

(***************************************************************************)
(* The same, up to the two ways in which a permit does not come back.      *)
(* Either a call has completed with an exception, or a worker that waited  *)
(* in the fut.get() of an llm task (llm_client.h:69) has started another   *)
(* session on top, which waits in acquire() for what that llm task holds.  *)
(* Short of these, waiting for a permit, for the HTTP task and for the     *)
(* continuation, by helping or by polling, gets every session to its end.  *)
(***************************************************************************)
SessionsEndUnlessPermitStuck ==
  \A s \in Roots :
    status[s] = "queued" ~> \/ status[s] = "done"
                           \/ \E l \in Calls : cont[l] = "dropped"
                           \/ \E w \in Workers : Buried(w)
=============================================================================
