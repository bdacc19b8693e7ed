----------------------------- MODULE RateLimiter ----------------------------
(***************************************************************************)
(* core/rate_limiter.h: the lock-free token bucket.  Time is in            *)
(* microseconds and tokens in fixed-point units (to_fixed), so the rate is *)
(* RateNum / RateDen units per microsecond, and a refill truncates.        *)
(*                                                                         *)
(* A thread reads the clock, loads last_refill_, claims the window between *)
(* the two with a CAS, adds its tokens, then takes some: other threads and *)
(* the clock move in between.  The CAS loops on tokens_ depend on nothing  *)
(* but the value they replace, so each is one step.                        *)
(***************************************************************************)
EXTENDS Integers, FiniteSetsExt

CONSTANTS
  Clients,              \* threads in acquire() or try_acquire()
  RateNum, RateDen,     \* rate_
  Burst,                \* to_fixed(burst_)
  Needed,               \* to_fixed(amount)
  MaxTime               \* bound: how long the clock runs

VARIABLES
  clock,        \* steady_clock
  tokens,       \* tokens_
  last_refill,  \* last_refill_
  pc,           \* "idle", in acquire() "poll", "load", "claim", "add" or "take", then "granted"
  now, prev,    \* locals of refill()
  fresh,        \* new_tokens
  granted,      \* history: units handed out
  spilled,      \* history: units that did not fit in the bucket
  truncated     \* history: fractions lost by refills, in 1/RateDen units

Init ==
  /\ clock = 0 /\ last_refill = 0
  /\ tokens = Burst
  /\ pc = [c \in Clients |-> "idle"]
  /\ now = [c \in Clients |-> 0]
  /\ prev = now /\ fresh = now
  /\ granted = 0 /\ spilled = 0 /\ truncated = 0

Tick ==
  /\ clock < MaxTime
  /\ clock' = clock + 1
  /\ UNCHANGED <<tokens, last_refill, pc, now, prev, fresh, granted, spilled, truncated>>

Goto(c, from, to) == pc[c] = from /\ pc' = [pc EXCEPT ![c] = to]

\* acquire() calls try_acquire(); refill(): now_us().
ReadClock(c) ==
  /\ \E from \in {"idle", "poll"} : Goto(c, from, "load")
  /\ now' = [now EXCEPT ![c] = clock]
  /\ UNCHANGED <<clock, tokens, last_refill, prev, fresh, granted, spilled, truncated>>

\* Where refill() goes with a window that starts at p.
AfterWindow(c, p) == IF now[c] > p THEN "claim" ELSE "take"

Load(c) ==
  /\ Goto(c, "load", AfterWindow(c, last_refill))
  /\ prev' = [prev EXCEPT ![c] = last_refill]
  /\ UNCHANGED <<clock, tokens, last_refill, now, fresh, granted, spilled, truncated>>

\* The CAS on last_refill_.  Mutant: a store.
ClaimsAnyway(c) == TRUE
Claims(c) == last_refill = prev[c]

\* new_tokens, in 1/RateDen units.
Accrued(c) == RateNum * (now[c] - prev[c])

Claim(c) ==
  /\ Claims(c)
  /\ Goto(c, "claim", IF Accrued(c) \div RateDen > 0 THEN "add" ELSE "take")
  /\ last_refill' = now[c]
  /\ fresh' = [fresh EXCEPT ![c] = Accrued(c) \div RateDen]
  /\ truncated' = truncated + (Accrued(c) % RateDen)
  /\ UNCHANGED <<clock, tokens, now, prev, granted, spilled>>

\* The CAS fails, spuriously or not: recompute the window.
ClaimFails(c) ==
  /\ Goto(c, "claim", AfterWindow(c, last_refill))
  /\ prev' = [prev EXCEPT ![c] = last_refill]
  /\ UNCHANGED <<clock, tokens, last_refill, now, fresh, granted, spilled, truncated>>

\* desired.
Desired(c) == Min({tokens + fresh[c], Burst})

Add(c) ==
  /\ Goto(c, "add", "take")
  /\ tokens' = Desired(c)
  /\ spilled' = spilled + (tokens + fresh[c] - Desired(c))
  /\ fresh' = [fresh EXCEPT ![c] = 0]
  /\ UNCHANGED <<clock, last_refill, now, prev, granted, truncated>>

\* try_acquire() returns true.
Take(c) ==
  /\ tokens >= Needed
  /\ Goto(c, "take", "granted")
  /\ tokens' = tokens - Needed
  /\ granted' = granted + Needed
  /\ UNCHANGED <<clock, last_refill, now, prev, fresh, spilled, truncated>>

\* try_acquire() returns false; acquire() sleeps and calls it again.
Fail(c) ==
  /\ tokens < Needed
  /\ Goto(c, "take", "poll")
  /\ UNCHANGED <<clock, tokens, last_refill, now, prev, fresh, granted, spilled, truncated>>

\* acquire() returns.
Return(c) ==
  /\ Goto(c, "granted", "idle")
  /\ UNCHANGED <<clock, tokens, last_refill, now, prev, fresh, granted, spilled, truncated>>

-----------------------------------------------------------------------------
\* Type invariant; the bucket holds at most its burst size.
TypeOK ==
  /\ clock \in 0 .. MaxTime /\ last_refill \in 0 .. clock
  /\ tokens \in 0 .. Burst
  /\ pc \in [Clients -> {"idle", "poll", "load", "claim", "add", "take", "granted"}]
  /\ now \in [Clients -> 0 .. clock] /\ prev \in [Clients -> 0 .. clock]
  /\ fresh \in [Clients -> Nat]
  /\ granted \in Nat /\ spilled \in Nat /\ truncated \in Nat

\* The units that have been claimed and not added yet.
Pending == UNION {{c} \X (1 .. fresh[c]) : c \in Clients}
=============================================================================
