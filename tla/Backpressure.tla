---------------------------- MODULE Backpressure ----------------------------
(***************************************************************************)
(* The front of ThrottledLLMClient::complete() (llm/throttled_llm_client.h)*)
(* down to the accesses to the atomics: a thread acquires from the rate    *)
(* limiter, then from the semaphore, and holds its permit until the inner  *)
(* call has completed.  What happens in between, with the thread pool      *)
(* under it, is in module ThrottledLLM.                                    *)
(***************************************************************************)
EXTENDS Integers, FiniteSets

CONSTANTS
  Clients,              \* threads in complete()
  RateNum, RateDen,     \* rate, in fixed-point units per microsecond
  Burst, Needed,        \* bucket size and price of a call, in fixed-point units
  MaxTime,              \* bound: how long the clock runs
  MaxPermits            \* calls in flight

ASSUME BackpressureAssumption ==
  /\ RateNum \in Nat /\ RateDen \in Nat \ {0}
  /\ Burst \in Nat /\ Needed \in Nat \ {0} /\ MaxTime \in Nat
  /\ MaxPermits \in Nat \ {0}
  /\ IsFiniteSet(Clients)

VARIABLES clock, tokens, last_refill, rate_pc, now, prev, fresh, granted, spilled, truncated
VARIABLES permits, sem_pc, current

limiter == <<clock, tokens, last_refill, rate_pc, now, prev, fresh, granted, spilled, truncated>>
semaphore == <<permits, sem_pc, current>>
front_vars == <<limiter, semaphore>>

R == INSTANCE RateLimiter WITH pc <- rate_pc
S == INSTANCE Semaphore WITH pc <- sem_pc

FrontInit == R!Init /\ S!Init

Tick == R!Tick /\ UNCHANGED semaphore

\* rate_.acquire().
RateStep(c) ==
  /\ sem_pc[c] = "idle"
  /\ \/ R!ReadClock(c) \/ R!Load(c) \/ R!Claim(c) \/ R!ClaimFails(c)
     \/ R!Add(c) \/ R!Take(c) \/ R!Fail(c)
  /\ UNCHANGED semaphore

\* From the rate limiter to sem_.acquire().
Admit(c) == R!Return(c) /\ S!Load(c)

SemStep(c) == (S!Take(c) \/ S!Retry(c) \/ S!Backoff(c)) /\ UNCHANGED limiter

\* The inner call has completed.
Complete(c) == S!Release(c) /\ UNCHANGED limiter

FrontNext ==
  \/ Tick
  \/ \E c \in Clients : RateStep(c) \/ Admit(c) \/ SemStep(c) \/ Complete(c)

FrontSpec == FrontInit /\ [][FrontNext]_front_vars

(***************************************************************************)
(* A thread in complete() keeps running; whether calls are made, and       *)
(* whether they complete, is left open.  SF: a compare-exchange on an up-  *)
(* to-date copy does not fail for ever.  No order among the waiters.       *)
(***************************************************************************)
FrontFairSpec ==
  /\ FrontSpec
  /\ \A c \in Clients :
       /\ WF_front_vars(rate_pc[c] # "idle" /\ RateStep(c)) /\ WF_front_vars(Admit(c) \/ SemStep(c))
       /\ SF_front_vars(RateStep(c) /\ last_refill' # last_refill)
       /\ SF_front_vars(SemStep(c) /\ permits' # permits)

-----------------------------------------------------------------------------
\* Type invariant; the bucket holds at most its burst size.
FrontTypeOK == R!TypeOK /\ S!TypeOK

(***************************************************************************)
(* Permits are neither lost nor invented, whatever copies of the counter   *)
(* the threads work on: at most MaxPermits calls are in flight, and        *)
(* release() never asserts.                                                *)
(***************************************************************************)
PermitsConserved == permits + Cardinality(S!Holders) = MaxPermits

(***************************************************************************)
(* Every microsecond up to last_refill_ is turned into tokens exactly      *)
(* once, whoever claims it and however stale the clock value it claims it  *)
(* with: what accrued is in the bucket, granted, spilled over the brim,    *)
(* on its way, or truncated.                                               *)
(***************************************************************************)
RefillAccounted ==
  RateDen * (tokens + granted + spilled + Cardinality(R!Pending)) + truncated
    = RateDen * Burst + RateNum * last_refill

(***************************************************************************)
(* No more is granted than a full bucket and what the rate allows for the  *)
(* time that has passed.                                                   *)
(***************************************************************************)
RateRespected == RateDen * granted <= RateDen * Burst + RateNum * clock

(***************************************************************************)
(* A call is let through if from some point on the bucket and the          *)
(* semaphore always have something left.  When others keep emptying them,  *)
(* a thread that polls may look only at the moments when they are empty:   *)
(* the code promises no more than this.                                    *)
(***************************************************************************)
Waits(c) == rate_pc[c] # "idle" \/ sem_pc[c] = "try"
CallsLetThrough ==
  \A c \in Clients :
    <>[](tokens >= Needed /\ permits > 0) => (Waits(c) ~> sem_pc[c] = "holding")
=============================================================================
