------------------------------ MODULE Semaphore -----------------------------
(***************************************************************************)
(* core/semaphore.h: the counting semaphore that caps LLM calls in flight. *)
(* A thread in try_acquire() works on a copy of the counter that may be    *)
(* stale; compare_exchange_weak fails then, or for no reason, and refreshes*)
(* the copy.                                                               *)
(***************************************************************************)
EXTENDS Integers, FiniteSets

CONSTANTS
  Clients,      \* threads that use the semaphore
  MaxPermits    \* max_permits_

VARIABLES
  permits,      \* permits_
  pc,           \* "idle", "try" in acquire(), "holding" until release()
  current       \* local copy of the counter

Init ==
  /\ permits = MaxPermits
  /\ pc = [c \in Clients |-> "idle"]
  /\ current = [c \in Clients |-> 0]

Goto(c, from, to) == pc[c] = from /\ pc' = [pc EXCEPT ![c] = to]

\* The CAS of try_acquire().  Mutant: a plain load and store.
StillCurrentUnchecked(c) == TRUE
StillCurrent(c) == permits = current[c]

\* The loop condition.
SeesPermit(c) == current[c] > 0

\* acquire() calls try_acquire(), which loads the counter.
Load(c) ==
  /\ Goto(c, "idle", "try")
  /\ current' = [current EXCEPT ![c] = permits]
  /\ UNCHANGED permits

\* The CAS succeeds: try_acquire() and acquire() return.
Take(c) ==
  /\ SeesPermit(c) /\ StillCurrent(c)
  /\ Goto(c, "try", "holding")
  /\ permits' = current[c] - 1
  /\ UNCHANGED current

\* The CAS fails, spuriously or not, and refreshes the copy.
Retry(c) ==
  /\ pc[c] = "try" /\ SeesPermit(c)
  /\ current' = [current EXCEPT ![c] = permits]
  /\ UNCHANGED <<permits, pc>>

\* What the next try_acquire() begins with.  Mutant: the loop keeps the old copy.
ReloadNothing(c) == current[c]
Reload(c) == permits

\* No permit: try_acquire() returns false; acquire() backs off and calls it again.
Backoff(c) ==
  /\ pc[c] = "try" /\ ~SeesPermit(c)
  /\ current' = [current EXCEPT ![c] = Reload(c)]
  /\ UNCHANGED <<permits, pc>>

\* release(): fetch_add, whose result the assertion then looks at.
Release(c) ==
  /\ Goto(c, "holding", "idle")
  /\ permits' = permits + 1
  /\ UNCHANGED current

-----------------------------------------------------------------------------
\* Type invariant.
TypeOK ==
  /\ permits \in 0 .. MaxPermits
  /\ pc \in [Clients -> {"idle", "try", "holding"}]
  /\ current \in [Clients -> 0 .. MaxPermits]

\* The threads that have a permit.
Holders == {c \in Clients : pc[c] = "holding"}
=============================================================================
