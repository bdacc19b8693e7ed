----------------------------- MODULE CallProofs -----------------------------
(***************************************************************************)
(* The LLM calls on the thread pool, for any number of workers, sessions   *)
(* and permits: a permit of the limiter is free, held by a session or lost *)
(* by a call that threw (PermitsAccounted).                                *)
(***************************************************************************)
EXTENDS PoolProofs

-----------------------------------------------------------------------------
(***************************************************************************)
(* Permits of the LLM calls.  SessionOK follows one session through its    *)
(* call: st, fl, ct and sta are the stacks, the failed tasks, the          *)
(* continuations and the states of the tasks.  A session that has failed   *)
(* is at the end of its program (7); a continuation is set only while its  *)
(* session waits for the result (6); one that is used up belongs to a call *)
(* that is complete.                                                       *)
(***************************************************************************)
PosIn(st, s, k) ==
  \E w \in Workers : \E i \in 1 .. Len(st[w]) : st[w][i].task = s /\ st[w][i].at = k

LlmOf(s) == Program[s][5].task

SessionOK(s, st, fl, ct, sta) ==
  /\ \A k \in 1 .. 5 : PosIn(st, s, k) => ct[LlmOf(s)] = "none"
  /\ \A k \in 1 .. 6 : PosIn(st, s, k) => s \notin fl
  /\ PosIn(st, s, 7) /\ s \notin fl => ct[LlmOf(s)] = "called"
  /\ sta[s] \in {"new", "queued"} => ct[LlmOf(s)] = "none" /\ s \notin fl
  /\ ct[LlmOf(s)] = "set" => sta[LlmOf(s)] # "done" /\ PosIn(st, s, 6)
  /\ ct[LlmOf(s)] \in {"called", "dropped"} => sta[LlmOf(s)] = "done"

\* The sessions whose permit is out, and the calls that have lost one.
HasPermit(s, st, fl, ct, sta) ==
  /\ \E k \in 2 .. 7 : PosIn(st, s, k)
  /\ s \notin fl
  /\ ct[LlmOf(s)] = "none" \/ sta[LlmOf(s)] # "done"
Lost(ct) == {l \in Calls : ct[l] = "dropped"}

OK(s) == SessionOK(s, stack, failed, cont, status)
Has(s) == HasPermit(s, stack, failed, cont, status)
Held == {s \in Sessions : Has(s)}

ContTypes == [Calls -> {"none", "set", "called", "dropped"}]
CallTypes == failed \subseteq Tasks /\ cont \in ContTypes
Chained == \A l \in Calls : cont[l] = "set" => \E s \in Sessions : LlmOf(s) = l
CallCore == CallTypes /\ Chained /\ \A s \in Sessions : OK(s)

Accounted(n, held, lost) ==
  /\ n \in Nat /\ IsFiniteSet(held) /\ IsFiniteSet(lost)
  /\ n + Cardinality(held) + Cardinality(lost) = MaxPermits

CallInv == CallCore /\ Accounted(permits, Held, Lost(cont))

\* Where the instructions of a session are.
LEMMA SessionFacts ==
  ASSUME NEW s \in Sessions
  PROVE  /\ s \in Tasks /\ s \in Roots /\ LlmOf(s) \in Calls /\ LlmOf(s) \in Tasks
         /\ Len(Program[s]) = 6
         /\ Program[s][1].op = "acquire" /\ Program[s][2].op = "prepare"
         /\ Program[s][3].op = "submit" /\ Program[s][4].op = "submit"
         /\ Program[s][5].op = "then" /\ Program[s][6].op = "result"
         /\ Program[s][4] = [op |-> "submit", task |-> LlmOf(s)]
         /\ Program[s][5].task = LlmOf(s) /\ Program[s][6].task = LlmOf(s)
<1>1. PICK h \in Tasks, l \in Calls : Program[s] = SessionProgram(s, h, l)
  BY DEF Sessions
<1>2. s \in Roots /\ s \in Tasks
  BY PoolAssumption DEF Sessions
<1>3. LlmOf(s) = l /\ l \in Tasks
  BY <1>1, CallsAssumption DEF LlmOf, SessionProgram
<1>4. Program[s][5].task = LlmOf(s)
  BY DEF LlmOf
<1> QED
  BY <1>1, <1>2, <1>3, <1>4 DEF SessionProgram

\* A call belongs to one session, and is not one.
LEMMA CallIsOwn ==
  ASSUME NEW s1 \in Sessions, NEW s2 \in Sessions
  PROVE  /\ LlmOf(s1) = LlmOf(s2) => s1 = s2
         /\ LlmOf(s1) # s2
<1>1. Submits(s1, 4, LlmOf(s1)) /\ Submits(s2, 4, LlmOf(s2))
  BY SessionFacts DEF Submits
<1>2. Len(Program[s1]) = 6 /\ Len(Program[s2]) = 6
  BY SessionFacts
<1>3. 4 \in 1 .. Len(Program[s1]) /\ 4 \in 1 .. Len(Program[s2])
  BY <1>2
<1> QED
  BY <1>1, <1>3, SubmitAssumption, SessionFacts

\* Who is at an instruction of the semaphore or of the continuation.
LEMMA AtFacts ==
  ASSUME PoolInv, NEW w \in Workers, NEW op \in {"acquire", "prepare", "then", "result"}, At(w, op)
  PROVE  /\ Running(w) /\ ~AtEnd(w) /\ w \in Threads
         /\ Top(w).task \in Sessions
         /\ op = "acquire" => Top(w).at = 1
         /\ op = "prepare" => Top(w).at = 2
         /\ op = "then" => Top(w).at = 5
         /\ op = "result" => Top(w).at = 6
         /\ op \in {"then", "result"} => Instr(w).task = LlmOf(Top(w).task)
<1> DEFINE t == Top(w).task
           k == Top(w).at
<1>1. TypeOK /\ FrameInv /\ w \in Threads
  BY DEF PoolInv, Threads
<1>2. Running(w) /\ ~AtEnd(w) /\ k \in 1 .. Len(Program[t]) /\ Program[t][k].op = op
  BY <1>1, InstrFacts DEF At, Instr
<1>3. t \in Tasks
  BY <1>1, <1>2, TopFacts DEF Frames
<1>4. t \in Sessions
  BY <1>2, <1>3, SessionAssumption
<1>5. Len(Program[t]) = 6
  BY <1>4, SessionFacts
<1>6. k = 1 \/ k = 2 \/ k = 3 \/ k = 4 \/ k = 5 \/ k = 6
  BY <1>2, <1>5
<1>7. /\ Program[t][1].op = "acquire" /\ Program[t][2].op = "prepare"
      /\ Program[t][3].op = "submit" /\ Program[t][4].op = "submit"
      /\ Program[t][5].op = "then" /\ Program[t][6].op = "result"
      /\ Program[t][5].task = LlmOf(t) /\ Program[t][6].task = LlmOf(t)
  BY <1>4, SessionFacts
<1> HIDE DEF t, k
<1>8. /\ op = "acquire" => k = 1
      /\ op = "prepare" => k = 2
      /\ op = "then" => k = 5
      /\ op = "result" => k = 6
  BY <1>2, <1>6, <1>7
<1>9. op \in {"then", "result"} => Program[t][k].task = LlmOf(t)
  BY <1>7, <1>8
<1> QED
  BY <1>1, <1>2, <1>4, <1>8, <1>9 DEF t, k, Instr

\* A session has one position.
LEMMA OnePosition ==
  ASSUME PoolInv, NEW s, NEW k, NEW j, PosIn(stack, s, k), PosIn(stack, s, j)
  PROVE  k = j /\ status[s] = "running"
<1>1. \A w \in Workers : w \in Threads
  BY DEF Threads
<1> QED
  BY <1>1 DEF PosIn, PoolInv, FrameInv

LEMMA TopPosition ==
  ASSUME PoolInv, NEW w \in Workers, Running(w)
  PROVE  /\ w \in Threads /\ Top(w).task \in Tasks /\ Top(w).at \in Nat
         /\ status[Top(w).task] = "running"
         /\ PosIn(stack, Top(w).task, Top(w).at)
<1>1. TypeOK /\ FrameInv /\ w \in Threads
  BY DEF PoolInv, Threads
<1> QED
  BY <1>1, TopFacts DEF Frames, PosIn

\* What the three kinds of steps on a stack do to the positions.
LEMMA BeginPositions ==
  ASSUME PoolInv, NEW w \in Workers, NEW t \in Tasks, status[t] = "queued", Begin(w, t)
  PROVE  \A s, k : PosIn(stack', s, k) <=> PosIn(stack, s, k) \/ (s = t /\ k = 1)
<1>1. stack \in [Threads -> Seq(Frames)] /\ w \in Threads /\ Workers \subseteq Threads
  BY DEF PoolInv, TypeOK, Threads
<1> DEFINE f == [task |-> t, at |-> 1]
<1>2. f \in Frames /\ stack' = [stack EXCEPT ![w] = Append(@, f)]
  BY DEF Frames, Begin
<1>3. /\ Len(stack'[w]) = Len(stack[w]) + 1 /\ Len(stack[w]) \in Nat
      /\ \A i \in 1 .. Len(stack[w]) : stack'[w][i] = stack[w][i]
      /\ stack'[w][Len(stack[w]) + 1] = f
      /\ \A u \in Threads : u # w => stack'[u] = stack[u]
  BY <1>1, <1>2, PushFrame
<1>4. f.task = t /\ f.at = 1
  OBVIOUS
<1> HIDE DEF f
<1> SUFFICES ASSUME NEW s, NEW k
             PROVE  PosIn(stack', s, k) <=> PosIn(stack, s, k) \/ (s = t /\ k = 1)
  OBVIOUS
<1>5. ASSUME PosIn(stack', s, k) PROVE PosIn(stack, s, k) \/ (s = t /\ k = 1)
  <2>1. PICK u \in Workers : \E i \in 1 .. Len(stack'[u]) :
              stack'[u][i].task = s /\ stack'[u][i].at = k
    BY <1>5 DEF PosIn
  <2>2. PICK i \in 1 .. Len(stack'[u]) : stack'[u][i].task = s /\ stack'[u][i].at = k
    BY <2>1
  <2>3. CASE u # w
    BY <1>1, <1>3, <2>2, <2>3 DEF PosIn
  <2>4. CASE u = w /\ i = Len(stack[w]) + 1
    BY <1>3, <1>4, <2>2, <2>4
  <2>5. CASE u = w /\ i # Len(stack[w]) + 1
    <3>1. i \in 1 .. Len(stack[w])
      BY <1>3, <2>2, <2>5
    <3> QED
      BY <1>3, <2>2, <2>5, <3>1 DEF PosIn
  <2> QED
    BY <2>3, <2>4, <2>5
<1>6. ASSUME PosIn(stack, s, k) PROVE PosIn(stack', s, k)
  <2>1. PICK u \in Workers : \E i \in 1 .. Len(stack[u]) :
              stack[u][i].task = s /\ stack[u][i].at = k
    BY <1>6 DEF PosIn
  <2>2. PICK i \in 1 .. Len(stack[u]) : stack[u][i].task = s /\ stack[u][i].at = k
    BY <2>1
  <2>3. i \in 1 .. Len(stack'[u]) /\ stack'[u][i] = stack[u][i]
    BY <1>1, <1>3, <2>2
  <2> QED
    BY <2>2, <2>3 DEF PosIn
<1>7. ASSUME s = t, k = 1 PROVE PosIn(stack', s, k)
  <2>1. Len(stack[w]) + 1 \in 1 .. Len(stack'[w])
    BY <1>3
  <2> QED
    BY <1>3, <1>4, <1>7, <2>1 DEF PosIn
<1> QED
  BY <1>5, <1>6, <1>7

LEMMA MovePositions ==
  ASSUME PoolInv, NEW w \in Workers, Running(w), NEW a \in Nat, SetAt(w, a)
  PROVE  \A s, k : /\ s # Top(w).task => (PosIn(stack', s, k) <=> PosIn(stack, s, k))
                   /\ s = Top(w).task => (PosIn(stack', s, k) <=> k = a)
<1> DEFINE n == Len(stack[w])
           t == Top(w).task
<1>1. /\ stack \in [Threads -> Seq(Frames)] /\ w \in Threads /\ Workers \subseteq Threads
      /\ TypeOK /\ FrameInv
  BY DEF PoolInv, TypeOK, Threads
<1>2. stack[w] # <<>> /\ n \in 1 .. n /\ t = stack[w][n].task
  BY <1>1, TopFacts
<1>3. /\ \A u \in Threads : Len(stack'[u]) = Len(stack[u])
      /\ stack'[w][n] = [task |-> t, at |-> a]
      /\ \A u \in Threads : \A i \in 1 .. Len(stack[u]) :
           /\ stack'[u][i].task = stack[u][i].task
           /\ u # w \/ i # n => stack'[u][i] = stack[u][i]
  BY <1>1, <1>2, MoveInFrame
<1>4. n \in 1 .. Len(stack'[w]) /\ stack'[w][n].task = t /\ stack'[w][n].at = a
  BY <1>1, <1>2, <1>3
<1>5. \A u \in Threads : \A i \in 1 .. Len(stack[u]) : stack[u][i].task = t => u = w /\ i = n
  BY <1>1, <1>2 DEF FrameInv
<1> HIDE DEF n, t
<1>6. \A s, k : s # t => (PosIn(stack', s, k) <=> PosIn(stack, s, k))
  <2> SUFFICES ASSUME NEW s, NEW k, s # t
               PROVE  PosIn(stack', s, k) <=> PosIn(stack, s, k)
    OBVIOUS
  <2>1. \A u \in Workers : \A i \in 1 .. Len(stack[u]) :
          /\ Len(stack'[u]) = Len(stack[u])
          /\ stack'[u][i].task = stack[u][i].task
          /\ stack[u][i].task = s => stack'[u][i] = stack[u][i]
    BY <1>1, <1>2, <1>3
  <2>2. \A u \in Workers : Len(stack'[u]) = Len(stack[u])
    BY <1>1, <1>3
  <2>3. ASSUME PosIn(stack', s, k) PROVE PosIn(stack, s, k)
    <3>1. PICK u \in Workers : \E i \in 1 .. Len(stack[u]) :
                stack'[u][i].task = s /\ stack'[u][i].at = k
      BY <2>2, <2>3 DEF PosIn
    <3> QED
      BY <2>1, <3>1 DEF PosIn
  <2>4. ASSUME PosIn(stack, s, k) PROVE PosIn(stack', s, k)
    <3>1. PICK u \in Workers : \E i \in 1 .. Len(stack'[u]) :
                stack[u][i].task = s /\ stack[u][i].at = k
      BY <2>2, <2>4 DEF PosIn
    <3> QED
      BY <2>1, <2>2, <3>1 DEF PosIn
  <2> QED
    BY <2>3, <2>4
<1>7. \A k : PosIn(stack', t, k) <=> k = a
  <2>1. PosIn(stack', t, a)
    BY <1>4 DEF PosIn
  <2>2. ASSUME NEW k, PosIn(stack', t, k) PROVE k = a
    BY <1>1, <1>3, <1>4, <1>5, <2>2 DEF PosIn
  <2> QED
    BY <2>1, <2>2
<1> QED
  BY <1>6, <1>7 DEF t

LEMMA FinishPositions ==
  ASSUME PoolInv, NEW w \in Workers, Finish(w)
  PROVE  \A s, k : /\ s # Top(w).task => (PosIn(stack', s, k) <=> PosIn(stack, s, k))
                   /\ s = Top(w).task => ~PosIn(stack', s, k)
<1> DEFINE n == Len(stack[w])
           t == Top(w).task
<1>1. /\ stack \in [Threads -> Seq(Frames)] /\ w \in Threads /\ Workers \subseteq Threads
      /\ TypeOK /\ FrameInv /\ Running(w) /\ stack' = [stack EXCEPT ![w] = Front(@)]
  BY DEF PoolInv, TypeOK, Threads, Finish
<1>2. stack[w] # <<>> /\ n \in 1 .. n /\ t = stack[w][n].task
  BY <1>1, TopFacts
<1>3. /\ n \in Nat \ {0} /\ Len(stack'[w]) = n - 1
      /\ \A i \in 1 .. n - 1 : stack'[w][i] = stack[w][i]
      /\ \A u \in Threads : u # w => stack'[u] = stack[u]
  BY <1>1, <1>2, PopFrame
<1>4. \A u \in Threads : \A i \in 1 .. Len(stack[u]) : stack[u][i].task = t => u = w /\ i = n
  BY <1>1, <1>2 DEF FrameInv
<1>5. \A u \in Threads : \A i \in 1 .. Len(stack'[u]) :
        i \in 1 .. Len(stack[u]) /\ stack'[u][i] = stack[u][i] /\ (u = w => i # n)
  BY <1>1, <1>3
<1>6. \A u \in Threads : \A i \in 1 .. Len(stack[u]) :
        stack[u][i].task # t => i \in 1 .. Len(stack'[u])
  BY <1>1, <1>2, <1>3
<1> HIDE DEF n, t
<1>7. \A s, k : s # t => (PosIn(stack', s, k) <=> PosIn(stack, s, k))
  BY <1>1, <1>5, <1>6 DEF PosIn
<1>8. \A k : ~PosIn(stack', t, k)
  BY <1>1, <1>4, <1>5 DEF PosIn
<1> QED
  BY <1>7, <1>8 DEF t

(***************************************************************************)
(* A step that a session has no part in: it keeps its position, and its    *)
(* call completes only if nothing is chained to it.                        *)
(***************************************************************************)
Untouched(s) ==
  /\ \A k : PosIn(stack', s, k) <=> PosIn(stack, s, k)
  /\ s \in failed' <=> s \in failed
  /\ cont'[LlmOf(s)] = cont[LlmOf(s)]
  /\ \/ cont[LlmOf(s)] = "none"
     \/ status'[LlmOf(s)] = "done" <=> status[LlmOf(s)] = "done"
  /\ status'[s] \in {"new", "queued"} => status[s] \in {"new", "queued"}

LEMMA UntouchedKeeps ==
  ASSUME NEW s \in Sessions, OK(s), Untouched(s)
  PROVE  OK(s)' /\ (Has(s)' <=> Has(s))
<1>1. OK(s)'
  BY DEF OK, SessionOK, Untouched
<1>2. Has(s)' <=> Has(s)
  BY DEF Has, HasPermit, Untouched
<1> QED
  BY <1>1, <1>2

(***************************************************************************)
(* What a step of the calls comes to: the invariant of the sessions is     *)
(* kept, and either no permit moves, or that of one session t does.        *)
(***************************************************************************)
OthersKeep(t) == \A s \in Sessions \ {t} : Has(s)' <=> Has(s)

PermitMoves(t) ==
  \/ (Has(t)' <=> Has(t)) /\ permits' = permits /\ Lost(cont') = Lost(cont)
  \/ ~Has(t) /\ Has(t)' /\ permits > 0 /\ permits' = permits - 1 /\ Lost(cont') = Lost(cont)
  \/ Has(t) /\ ~Has(t)' /\ permits' = permits + 1 /\ Lost(cont') = Lost(cont)
  \/ /\ Has(t) /\ ~Has(t)' /\ permits' = permits
     /\ \E l : l \notin Lost(cont) /\ Lost(cont') = Lost(cont) \cup {l}

NoPermitMoves ==
  /\ \A s \in Sessions : Has(s)' <=> Has(s)
  /\ permits' = permits /\ Lost(cont') = Lost(cont)

CallGoesOn ==
  /\ CallCore'
  /\ NoPermitMoves \/ \E t \in Sessions : OthersKeep(t) /\ PermitMoves(t)

LEMMA CallCoreIs == CallCore <=> CallTypes /\ Chained /\ \A s \in Sessions : OK(s)
BY DEF CallCore

LEMMA NobodyMoves ==
  ASSUME CallCore, \A s \in Sessions : Untouched(s), failed' \subseteq Tasks,
         UNCHANGED <<permits, cont>>
  PROVE  CallGoesOn
<1>1. \A s \in Sessions : OK(s)' /\ (Has(s)' <=> Has(s))
  BY CallCoreIs, UntouchedKeeps
<1>2. CallTypes' /\ Chained' /\ Lost(cont') = Lost(cont)
  BY CallCoreIs DEF CallTypes, Chained, Lost
<1>3. NoPermitMoves
  BY <1>1, <1>2 DEF NoPermitMoves
<1> QED
  BY <1>1, <1>2, <1>3 DEF CallGoesOn, CallCore

LEMMA SessionMoves ==
  ASSUME CallCore, NEW t \in Sessions, \A s \in Sessions \ {t} : Untouched(s),
         CallTypes', Chained', OK(t)', PermitMoves(t)
  PROVE  CallGoesOn
<1>1. \A s \in Sessions \ {t} : OK(s)' /\ (Has(s)' <=> Has(s))
  BY CallCoreIs, UntouchedKeeps
<1>2. OthersKeep(t)
  BY <1>1 DEF OthersKeep
<1>3. CallCore'
  BY <1>1 DEF CallCore
<1> QED
  BY <1>2, <1>3 DEF CallGoesOn

-----------------------------------------------------------------------------
(***************************************************************************)
(* The steps.                                                              *)
(***************************************************************************)
LEMMA LookBegins ==
  ASSUME PoolInv, NEW w \in Workers, Look(w)
  PROVE  \/ UNCHANGED <<stack, status>>
         \/ \E t \in Tasks : status[t] = "queued" /\ Begin(w, t)
<1>1. w \in Threads
  BY DEF Threads
<1>2. ASSUME PopSubq(w, w), pc[w] \in Taking
      PROVE  \E t \in Tasks : status[t] = "queued" /\ Begin(w, t)
  BY <1>1, <1>2, PopSubqKeeps DEF PopSubq
<1>3. ASSUME PopBottom(w, w), pc[w] \in Taking
      PROVE  \E t \in Tasks : status[t] = "queued" /\ Begin(w, t)
  BY <1>1, <1>3, PopBottomKeeps DEF PopBottom
<1>4. CASE PollSubq(w) \/ TakeSubq(w)
  BY <1>2, <1>4 DEF PollSubq, TakeSubq, Taking, Looking
<1>5. CASE TakeOwn(w)
  BY <1>3, <1>5 DEF TakeOwn, Taking, Looking
<1>6. CASE \E v \in Workers : StealFrom(w, v)
  <2>1. PICK v \in Workers : StealFrom(w, v)
    BY <1>6
  <2>2. pc[w] \in Taking /\ Begin(w, Head(deque[v]))
    BY <2>1 DEF StealFrom, Taking, Looking
  <2> QED
    BY <1>1, <2>1, <2>2, StealKeeps
<1>7. CASE OwnEmpty(w) \/ SubqEmpty(w) \/ StealMiss(w) \/ CheckStop(w)
  BY <1>7 DEF OwnEmpty, SubqEmpty, StealMiss, CheckStop, Move
<1>8. CASE DrainDeque(w)
  BY <1>3, <1>8 DEF DrainDeque, Move, Taking
<1>9. CASE DrainSubq(w)
  BY <1>2, <1>9 DEF DrainSubq, Move, Taking
<1> QED
  BY <1>4, <1>5, <1>6, <1>7, <1>8, <1>9 DEF Look

LEMMA StillCalls ==
  ASSUME CallCore, UNCHANGED <<stack, status, permits, failed, cont>>
  PROVE  CallGoesOn
<1>1. \A s \in Sessions : Untouched(s)
  BY DEF Untouched
<1>2. failed' \subseteq Tasks
  BY CallCoreIs DEF CallTypes
<1> QED
  BY <1>1, <1>2, NobodyMoves

LEMMA BeginCalls ==
  ASSUME PoolInv, CallCore, NEW w \in Workers, NEW t \in Tasks, status[t] = "queued", Begin(w, t),
         UNCHANGED calls
  PROVE  CallGoesOn
<1>1. \A s, k : PosIn(stack', s, k) <=> PosIn(stack, s, k) \/ (s = t /\ k = 1)
  BY BeginPositions
<1>2. \A x \in Tasks : /\ x # t => status'[x] = status[x]
                       /\ x = t => status'[x] = "running"
  BY DEF Begin, PoolInv, TypeOK
<1>3. UNCHANGED <<permits, failed, cont>>
  BY DEF calls
<1>4. \A s \in Sessions \ {t} : Untouched(s)
  <2> SUFFICES ASSUME NEW s \in Sessions, s # t PROVE Untouched(s)
    OBVIOUS
  <2>1. s \in Tasks /\ LlmOf(s) \in Tasks
    BY SessionFacts
  <2>2. status'[LlmOf(s)] = "done" <=> status[LlmOf(s)] = "done"
    BY <1>2, <2>1
  <2> QED
    BY <1>1, <1>2, <1>3, <2>1, <2>2 DEF Untouched
<1>5. CASE t \notin Sessions
  BY <1>3, <1>4, <1>5, CallCoreIs, NobodyMoves DEF CallTypes
<1>6. CASE t \in Sessions
  <2>1. \A k : ~PosIn(stack, t, k)
    BY OnePosition
  <2>2. \A k : PosIn(stack', t, k) <=> k = 1
    BY <1>1, <2>1
  <2>3. cont[LlmOf(t)] = "none" /\ t \notin failed
    BY <1>6, CallCoreIs DEF OK, SessionOK
  <2>4. status'[t] = "running"
    BY <1>2
  <2>5. OK(t)'
    BY <1>3, <2>2, <2>3, <2>4 DEF OK, SessionOK
  <2>6. ~Has(t)
    BY <2>1 DEF Has, HasPermit
  <2>7. ~Has(t)'
    BY <2>2 DEF Has, HasPermit
  <2>8. PermitMoves(t)
    BY <1>3, <2>6, <2>7 DEF PermitMoves, Lost
  <2>9. CallTypes' /\ Chained'
    BY <1>3, CallCoreIs DEF CallTypes, Chained
  <2> QED
    BY <1>4, <1>6, <2>5, <2>8, <2>9, SessionMoves
<1> QED
  BY <1>5, <1>6

\* The task on top moves on; no other session has a part in it.
Calm ==
  /\ \A x \in Tasks : status'[x] = "done" <=> status[x] = "done"
  /\ \A x \in Tasks : status'[x] \in {"new", "queued"} => status[x] \in {"new", "queued"}

LEMMA OthersUntouched ==
  ASSUME PoolInv, NEW w \in Workers, Running(w), NEW a \in Nat, SetAt(w, a), Calm,
         NEW s \in Sessions, s # Top(w).task, s \in failed' <=> s \in failed,
         cont'[LlmOf(s)] = cont[LlmOf(s)]
  PROVE  Untouched(s)
<1>1. \A k : PosIn(stack', s, k) <=> PosIn(stack, s, k)
  BY MovePositions
<1>2. s \in Tasks /\ LlmOf(s) \in Tasks
  BY SessionFacts
<1>3. status'[LlmOf(s)] = "done" <=> status[LlmOf(s)] = "done"
  BY <1>2 DEF Calm
<1>4. status'[s] \in {"new", "queued"} => status[s] \in {"new", "queued"}
  BY <1>2 DEF Calm
<1> QED
  BY <1>1, <1>3, <1>4 DEF Untouched

\* Before then(): the permit is held from acquire() on.
LEMMA EarlyMove ==
  ASSUME PoolInv, CallCore, NEW w \in Workers, Running(w), NEW t \in Sessions, t = Top(w).task,
         NEW p \in 1 .. 4, p = Top(w).at, SetAt(w, p + 1), UNCHANGED <<failed, cont>>,
         status'[t] = "running"
  PROVE  OK(t)' /\ Has(t)' /\ (Has(t) <=> p > 1)
<1>1. PosIn(stack, t, p)
  BY TopPosition
<1>2. \A k : PosIn(stack, t, k) <=> k = p
  BY <1>1, OnePosition
<1>3. \A k : PosIn(stack', t, k) <=> k = p + 1
  BY MovePositions
<1>4. OK(t)
  BY CallCoreIs
<1>5. cont[LlmOf(t)] = "none" /\ t \notin failed
  BY <1>1, <1>4 DEF OK, SessionOK
<1>6. OK(t)'
  BY <1>3, <1>5 DEF OK, SessionOK
<1>7. Has(t)'
  BY <1>3, <1>5 DEF Has, HasPermit
<1>8. Has(t) <=> p > 1
  BY <1>2, <1>5 DEF Has, HasPermit
<1> QED
  BY <1>6, <1>7, <1>8

\* acquire(), prepare() and submit() of a session.
LEMMA EarlyCalls ==
  ASSUME PoolInv, CallCore, NEW w \in Workers, Running(w), ~AtEnd(w), Advance(w), Calm,
         NEW t \in Sessions, t = Top(w).task, NEW p \in 1 .. 4, p = Top(w).at,
         status'[t] = "running", UNCHANGED <<failed, cont>>,
         IF p = 1 THEN permits > 0 /\ permits' = permits - 1 ELSE permits' = permits
  PROVE  CallGoesOn
<1>1. SetAt(w, p + 1)
  BY AdvanceIsSetAt DEF PoolInv, Threads
<1>2. OK(t)' /\ Has(t)' /\ (Has(t) <=> p > 1)
  BY <1>1, EarlyMove
<1>3. \A s \in Sessions \ {t} : Untouched(s)
  BY <1>1, OthersUntouched
<1>4. CallTypes' /\ Chained' /\ Lost(cont') = Lost(cont)
  BY CallCoreIs DEF CallTypes, Chained, Lost
<1>5. PermitMoves(t)
  <2>1. CASE p = 1
    BY <1>2, <1>4, <2>1 DEF PermitMoves
  <2>2. CASE p # 1
    <3>1. p > 1
      BY <2>2
    <3> QED
      BY <1>2, <1>4, <2>2, <3>1 DEF PermitMoves
  <2> QED
    BY <2>1, <2>2
<1> QED
  BY <1>2, <1>3, <1>4, <1>5, SessionMoves

LEMMA SkipFacts ==
  ASSUME PoolInv, NEW w \in Workers, Running(w), Skip(w)
  PROVE  /\ Calm /\ Advance(w) /\ UNCHANGED status
         /\ status'[Top(w).task] = "running"
<1>1. Advance(w) /\ UNCHANGED status
  BY DEF Skip
<1> QED
  BY <1>1, TopPosition DEF Calm

LEMMA AcquireCalls ==
  ASSUME PoolInv, CallCore, NEW w \in Workers, Acquire(w) \/ Prepare(w)
  PROVE  CallGoesOn
<1> DEFINE t == Top(w).task
           p == Top(w).at
<1>1. Running(w) /\ ~AtEnd(w) /\ t \in Sessions /\ p \in 1 .. 4
  BY AtFacts DEF Acquire, Prepare
<1>2. Calm /\ Advance(w) /\ status'[t] = "running"
  BY <1>1, SkipFacts DEF Acquire, Prepare
<1>3. UNCHANGED <<failed, cont>>
  BY DEF Acquire, Prepare, calls
<1>4. IF p = 1 THEN permits > 0 /\ permits' = permits - 1 ELSE permits' = permits
  <2>1. CASE Acquire(w)
    BY <2>1, AtFacts DEF Acquire
  <2>2. CASE Prepare(w)
    <3>1. p = 2 /\ permits' = permits
      BY <2>2, AtFacts DEF Prepare, calls
    <3> QED
      BY <3>1
  <2> QED
    BY <2>1, <2>2
<1> HIDE DEF t, p
<1>5. t = Top(w).task /\ p = Top(w).at
  BY DEF t, p
<1> QED
  BY <1>1, <1>2, <1>3, <1>4, <1>5, EarlyCalls

LEMMA SubmitCalls ==
  ASSUME PoolInv, CallCore, NEW w \in Workers, SubmitLocal(w), UNCHANGED calls
  PROVE  CallGoesOn
<1> DEFINE t == Top(w).task
           p == Top(w).at
           u == Instr(w).task
<1>1. w \in Threads /\ TypeOK /\ FrameInv
  BY DEF PoolInv, Threads
<1>2. At(w, "submit") /\ Advance(w)
  BY DEF SubmitLocal
<1>3. Running(w) /\ ~AtEnd(w) /\ p \in 1 .. Len(Program[t]) /\ Program[t][p].op = "submit"
  BY <1>2 , <1>1, InstrFacts DEF At, Instr
<1>4. u \in Tasks /\ status[u] = "new" /\ status' = [status EXCEPT ![u] = "queued"]
  BY <1>1, SubmitMoves DEF SubmitLocal
<1>5. \A x \in Tasks : /\ x # u => status'[x] = status[x]
                       /\ x = u => status'[x] = "queued"
  BY <1>1, <1>4 DEF TypeOK
<1>6. Calm
  BY <1>4, <1>5 DEF Calm
<1>7. t \in Tasks /\ status[t] = "running"
  BY <1>3, TopPosition
<1>8. status'[t] = "running"
  BY <1>4, <1>5, <1>7
<1>9. UNCHANGED <<permits, failed, cont>>
  BY DEF calls
<1> HIDE DEF t, p, u
<1>10. t = Top(w).task /\ p = Top(w).at
  BY DEF t, p
<1>11. CASE t \in Sessions
  <2>1. Len(Program[t]) = 6 /\ Program[t][1].op = "acquire" /\ Program[t][5].op = "then"
        /\ Program[t][6].op = "result"
    BY <1>11, SessionFacts
  <2>2. p \in 2 .. 4
    BY <1>3, <2>1
  <2>3. p \in 1 .. 4 /\ p # 1
    BY <2>2
  <2> QED
    BY <1>2, <1>3, <1>6, <1>8, <1>9, <1>10, <1>11, <2>3, EarlyCalls
<1>12. CASE t \notin Sessions
  <2>1. SetAt(w, p + 1) /\ p + 1 \in Nat
    BY <1>1, <1>2, <1>3, <1>10, AdvanceIsSetAt
  <2>2. \A s \in Sessions : Untouched(s)
    BY <1>3, <1>6, <1>9, <1>10, <1>12, <2>1, OthersUntouched
  <2> QED
    BY <1>9, <2>2, CallCoreIs, NobodyMoves DEF CallTypes
<1> QED
  BY <1>11, <1>12

\* The tasks that are not sessions: get() and the failures of HTTP tasks.
LEMMA OutsiderCalls ==
  ASSUME PoolInv, CallCore, NEW w \in Workers, GetValue(w) \/ GetThrows(w) \/ HttpThrows(w)
  PROVE  CallGoesOn
<1> DEFINE t == Top(w).task
           p == Top(w).at
           n == Len(Program[t])
<1>1. w \in Threads /\ TypeOK /\ FrameInv
  BY DEF PoolInv, Threads
<1>2. Running(w) /\ UNCHANGED <<permits, cont, status>>
  BY DEF GetValue, GetThrows, HttpThrows, GetReady, At, Throw, calls
<1>3. t \in Tasks /\ p \in Nat /\ n \in Nat
  BY <1>1, <1>2, TopFacts DEF Frames
<1>4. t \notin Sessions
  <2>1. CASE At(w, "get")
    <3>1. p \in 1 .. n /\ Program[t][p].op = "get"
      BY <1>1, <2>1, InstrFacts DEF At, Instr
    <3>2. ASSUME t \in Sessions PROVE FALSE
      <4>1. /\ n = 6 /\ Program[t][1].op = "acquire" /\ Program[t][2].op = "prepare"
            /\ Program[t][3].op = "submit" /\ Program[t][4].op = "submit"
            /\ Program[t][5].op = "then" /\ Program[t][6].op = "result"
        BY <3>2, SessionFacts
      <4> HIDE DEF t, p, n
      <4>2. p = 1 \/ p = 2 \/ p = 3 \/ p = 4 \/ p = 5 \/ p = 6
        BY <3>1, <4>1
      <4> QED
        BY <3>1, <4>1, <4>2
    <3> QED
      BY <3>2
  <2>2. CASE Program[t] = <<>>
    <3>1. Len(Program[t]) = 0
      BY <2>2
    <3>2. ASSUME t \in Sessions PROVE Len(Program[t]) = 6
      BY <3>2, SessionFacts
    <3> QED
      BY <3>1, <3>2
  <2> QED
    BY <2>1, <2>2 DEF GetValue, GetThrows, HttpThrows, GetReady
<1>5. PICK a \in Nat : SetAt(w, a)
  <2>1. CASE GetValue(w)
    BY <1>1, <1>3, <2>1, AdvanceIsSetAt DEF GetValue, GetReady, At
  <2>2. CASE Throw(w)
    <3>1. SetAt(w, n + 1)
      BY <2>2 DEF Throw, SetAt
    <3>2. n + 1 \in Nat
      BY <1>3
    <3> QED
      BY <3>1, <3>2
  <2> QED
    BY <2>1, <2>2 DEF GetThrows, HttpThrows
<1>6. failed' \subseteq failed \cup {t} /\ failed \subseteq failed'
  BY DEF GetValue, GetThrows, HttpThrows, Throw, calls
<1> HIDE DEF t, p
<1>7. t = Top(w).task
  BY DEF t
<1>8. Calm
  BY <1>2 DEF Calm
<1>9. \A s \in Sessions : Untouched(s)
  BY <1>2, <1>4, <1>5, <1>6, <1>7, <1>8, OthersUntouched
<1> QED
  BY <1>2, <1>3, <1>6, <1>9, CallCoreIs, NobodyMoves DEF CallTypes

\* prepare() throws: the permit is given back before the exception leaves.
LEMMA ThrowCalls ==
  ASSUME PoolInv, CallCore, NEW w \in Workers, PrepareThrows(w), NEW t, t = Top(w).task
  PROVE  CallGoesOn
<1>1. Running(w) /\ t \in Sessions /\ Top(w).at = 2
  BY AtFacts DEF PrepareThrows
<1>2. SetAt(w, 7)
  <2>1. Len(Program[t]) = 6
    BY <1>1, SessionFacts
  <2>2. Len(Program[t]) + 1 = 7
    BY <2>1
  <2> QED
    BY <2>2 DEF PrepareThrows, Throw, SetAt
<1>3. /\ permits' = permits + 1 /\ failed' = failed \cup {t}
      /\ UNCHANGED <<cont, status>>
  BY DEF PrepareThrows, AfterThrow, Throw
<1>4. Calm
  BY <1>3 DEF Calm
<1>5. \A s \in Sessions \ {t} : Untouched(s)
  BY <1>1, <1>2, <1>3, <1>4, OthersUntouched
<1>6. PosIn(stack, t, 2) /\ status[t] = "running"
  BY <1>1, TopPosition
<1>7. \A k : PosIn(stack', t, k) <=> k = 7
  BY <1>1, <1>2, MovePositions
<1>8. OK(t)
  BY <1>1, CallCoreIs
<1>9. cont[LlmOf(t)] = "none" /\ t \notin failed
  BY <1>6, <1>8 DEF OK, SessionOK
<1>10. OK(t)'
  BY <1>3, <1>6, <1>7, <1>9 DEF OK, SessionOK
<1>11. Has(t) /\ ~Has(t)'
  <2>1. Has(t)
    BY <1>6, <1>9 DEF Has, HasPermit
  <2>2. ~Has(t)'
    BY <1>3 DEF Has, HasPermit
  <2> QED
    BY <2>1, <2>2
<1>12. PermitMoves(t)
  BY <1>3, <1>11 DEF PermitMoves
<1>13. CallTypes' /\ Chained'
  BY <1>1, <1>3, CallCoreIs, SessionFacts DEF CallTypes, Chained
<1> QED
  BY <1>1, <1>5, <1>10, <1>12, <1>13, SessionMoves

\* What becomes of the continuation of call l, and of the calls without one.
LEMMA ContChanges ==
  ASSUME cont \in ContTypes, NEW l \in Calls, cont[l] # "dropped",
         NEW v \in {"none", "set", "called", "dropped"}, cont' = [cont EXCEPT ![l] = v]
  PROVE  /\ cont' \in ContTypes /\ cont'[l] = v /\ l \notin Lost(cont)
         /\ \A x \in Calls : x # l => cont'[x] = cont[x]
         /\ v = "dropped" => Lost(cont') = Lost(cont) \cup {l}
         /\ v # "dropped" => Lost(cont') = Lost(cont)
<1>1. /\ cont' \in ContTypes /\ cont'[l] = v
      /\ \A x \in Calls : x # l => cont'[x] = cont[x]
  BY DEF ContTypes
<1>2. /\ \A x : x \in Lost(cont) <=> x \in Calls /\ cont[x] = "dropped"
      /\ \A x : x \in Lost(cont') <=> x \in Calls /\ cont'[x] = "dropped"
  BY DEF Lost
<1>3. ASSUME v = "dropped" PROVE Lost(cont') = Lost(cont) \cup {l}
  BY <1>1, <1>2, <1>3
<1>4. ASSUME v # "dropped" PROVE Lost(cont') = Lost(cont)
  BY <1>1, <1>2, <1>4
<1> QED
  BY <1>1, <1>2, <1>3, <1>4

\* Complete(): the permit of session t is given back, or lost.
LEMMA CompleteMoves ==
  ASSUME CallCore, NEW t \in Sessions, NEW l, l = LlmOf(t), cont[l] \in {"none", "set"}, Complete(l),
         Has(t), Has(t)' => cont'[l] = "none" \/ status'[l] # "done", status'[l] = "done"
  PROVE  /\ PermitMoves(t) /\ cont' \in ContTypes /\ cont'[l] \in {"called", "dropped"}
         /\ \A x \in Calls : x # l => cont'[x] = cont[x]
<1>1. l \in Calls /\ cont \in ContTypes
  BY SessionFacts, CallCoreIs DEF CallTypes
<1>2. CASE l \in failed
  <2>1. cont' = [cont EXCEPT ![l] = "dropped"] /\ permits' = permits
    BY <1>2 DEF Complete
  <2>2. /\ cont' \in ContTypes /\ cont'[l] = "dropped" /\ l \notin Lost(cont)
        /\ \A x \in Calls : x # l => cont'[x] = cont[x]
        /\ Lost(cont') = Lost(cont) \cup {l}
    BY <1>1, <2>1, ContChanges
  <2>3. ~Has(t)'
    BY <2>2
  <2> QED
    BY <2>1, <2>2, <2>3 DEF PermitMoves
<1>3. CASE l \notin failed
  <2>1. cont' = [cont EXCEPT ![l] = "called"] /\ permits' = permits + 1
    BY <1>3 DEF Complete
  <2>2. /\ cont' \in ContTypes /\ cont'[l] = "called"
        /\ \A x \in Calls : x # l => cont'[x] = cont[x]
        /\ Lost(cont') = Lost(cont)
    BY <1>1, <2>1, ContChanges
  <2>3. ~Has(t)'
    BY <2>2
  <2> QED
    BY <2>1, <2>2, <2>3 DEF PermitMoves
<1> QED
  BY <1>2, <1>3

LEMMA HasMeans ==
  ASSUME NEW t, NEW l, l = LlmOf(t)
  PROVE  Has(t)' => cont'[l] = "none" \/ status'[l] # "done"
BY DEF Has, HasPermit

\* A session that waits for the result of its call, in the next state.
LEMMA WaitsForResult ==
  ASSUME NEW s, \A k : PosIn(stack', s, k) <=> k = 6, s \notin failed', status'[s] = "running",
         \/ cont'[LlmOf(s)] = "set" /\ status'[LlmOf(s)] # "done"
         \/ cont'[LlmOf(s)] \in {"called", "dropped"} /\ status'[LlmOf(s)] = "done"
  PROVE  OK(s)'
<1>1. PosIn(stack', s, 6) /\ ~PosIn(stack', s, 7) /\ \A k \in 1 .. 5 : ~PosIn(stack', s, k)
  BY ONLY \A k : PosIn(stack', s, k) <=> k = 6
<1> QED
  BY <1>1 DEF OK, SessionOK

\* then(): the call is complete and the permit goes at once, or it is chained.
LEMMA ThenCalls ==
  ASSUME PoolInv, CallCore, NEW w \in Workers, Then(w), NEW t, t = Top(w).task
  PROVE  CallGoesOn
<1> DEFINE l == LlmOf(t)
<1>1. /\ Running(w) /\ ~AtEnd(w) /\ t \in Sessions /\ Top(w).at = 5
      /\ Instr(w).task = l
  BY AtFacts DEF Then
<1>2. Calm /\ Advance(w) /\ UNCHANGED <<status, failed>> /\ status'[t] = "running"
  BY <1>1, SkipFacts DEF Then
<1>3. SetAt(w, 6)
  BY <1>1, <1>2, AdvanceIsSetAt DEF PoolInv, Threads
<1>4. PosIn(stack, t, 5)
  BY <1>1, TopPosition
<1>5. \A k : PosIn(stack', t, k) <=> k = 6
  BY <1>1, <1>3, MovePositions
<1>6. OK(t) /\ cont \in ContTypes /\ failed \subseteq Tasks /\ Chained
  BY <1>1, CallCoreIs DEF CallTypes
<1>7. cont[l] = "none" /\ t \notin failed
  BY <1>4, <1>6 DEF OK, SessionOK
<1>8. Has(t)
  BY <1>4, <1>7 DEF Has, HasPermit
<1>9. IF status[l] = "done" THEN Complete(l)
                            ELSE cont' = [cont EXCEPT ![l] = "set"] /\ UNCHANGED permits
  BY <1>1 DEF Then
<1>10. l \in Calls
  BY <1>1, SessionFacts
<1>11. /\ PermitMoves(t) /\ cont' \in ContTypes
       /\ \A x \in Calls : x # l => cont'[x] = cont[x]
       /\ \/ status[l] = "done" /\ cont'[l] \in {"called", "dropped"}
          \/ status[l] # "done" /\ cont'[l] = "set"
  <2>1. CASE status[l] = "done"
    BY <1>1, <1>2, <1>7, <1>8, <1>9, <2>1, HasMeans, CompleteMoves
  <2>2. CASE status[l] # "done"
    <3>1. /\ cont' \in ContTypes /\ cont'[l] = "set" /\ Lost(cont') = Lost(cont)
          /\ \A x \in Calls : x # l => cont'[x] = cont[x]
      BY <1>6, <1>7, <1>9, <1>10, <2>2, ContChanges
    <3>2. Has(t)'
      BY <1>2, <1>5, <1>7, <2>2 DEF Has, HasPermit
    <3> QED
      BY <1>8, <1>9, <2>2, <3>1, <3>2 DEF PermitMoves
  <2> QED
    BY <2>1, <2>2
<1>12. \A s \in Sessions \ {t} : Untouched(s)
  <2> SUFFICES ASSUME NEW s \in Sessions, s # t PROVE Untouched(s)
    OBVIOUS
  <2>1. cont'[LlmOf(s)] = cont[LlmOf(s)]
    BY <1>1, <1>11, CallIsOwn, SessionFacts
  <2> QED
    BY <1>1, <1>2, <1>3, <2>1, OthersUntouched
<1>13. OK(t)'
  BY <1>2, <1>5, <1>7, <1>11, WaitsForResult
<1>14. CallTypes' /\ Chained'
  BY <1>1, <1>2, <1>6, <1>11 DEF CallTypes, Chained
<1> QED
  BY <1>1, <1>11, <1>12, <1>13, <1>14, SessionMoves

LEMMA ResultCalls ==
  ASSUME PoolInv, CallCore, NEW w \in Workers, ResultReady(w), NEW t, t = Top(w).task
  PROVE  CallGoesOn
<1> DEFINE l == LlmOf(t)
<1>1. /\ Running(w) /\ ~AtEnd(w) /\ t \in Sessions /\ Top(w).at = 6
      /\ Instr(w).task = l
  BY AtFacts DEF ResultReady
<1>2. Calm /\ Advance(w) /\ UNCHANGED status /\ status'[t] = "running"
  BY <1>1, SkipFacts DEF ResultReady
<1>3. SetAt(w, 7)
  BY <1>1, <1>2, AdvanceIsSetAt DEF PoolInv, Threads
<1>4. UNCHANGED <<permits, failed, cont>> /\ cont[l] = "called"
  BY <1>1 DEF ResultReady, calls
<1>5. \A k : PosIn(stack', t, k) <=> k = 7
  BY <1>1, <1>3, MovePositions
<1>6. OK(t)
  BY <1>1, CallCoreIs
<1>7. status[l] = "done"
  BY <1>4, <1>6 DEF OK, SessionOK
<1>8. OK(t)'
  BY <1>2, <1>4, <1>5, <1>7 DEF OK, SessionOK
<1>9. ~Has(t) /\ ~Has(t)'
  BY <1>2, <1>4, <1>7 DEF Has, HasPermit
<1>10. PermitMoves(t)
  BY <1>4, <1>9 DEF PermitMoves
<1>11. \A s \in Sessions \ {t} : Untouched(s)
  BY <1>1, <1>2, <1>3, <1>4, OthersUntouched
<1>12. CallTypes' /\ Chained'
  BY <1>4, CallCoreIs DEF CallTypes, Chained
<1> QED
  BY <1>1, <1>8, <1>10, <1>11, <1>12, SessionMoves

\* A task ends.  If it is a call that a continuation is chained to, its
\* session is still waiting, and its permit goes with the continuation.
LEMMA EndCalls ==
  ASSUME PoolInv, CallCore, NEW w \in Workers, End(w), NEW t, t = Top(w).task
  PROVE  CallGoesOn
<1>1. Finish(w) /\ Running(w) /\ AtEnd(w) /\ UNCHANGED failed
  BY DEF End, Finish
<1>2. t \in Tasks /\ status[t] = "running" /\ PosIn(stack, t, Top(w).at)
  BY <1>1, TopPosition
<1>3. \A x \in Tasks : /\ x # t => status'[x] = status[x]
                       /\ x = t => status'[x] = "done"
  BY <1>1, <1>2 DEF Finish, PoolInv, TypeOK
<1>4. \A s, k : /\ s # t => (PosIn(stack', s, k) <=> PosIn(stack, s, k))
                /\ s = t => ~PosIn(stack', s, k)
  BY <1>1, FinishPositions
<1>5. CallTypes /\ Chained /\ \A s \in Sessions : OK(s)
  BY CallCoreIs
<1>6. CASE FindsCont(t)
  <2>1. t \in Calls /\ cont[t] = "set" /\ Complete(t)
    BY <1>6 DEF FindsCont, End
  <2>2. PICK s \in Sessions : LlmOf(s) = t
    BY <1>5, <2>1 DEF Chained
  <2>3. s # t /\ s \in Tasks
    BY <2>2, CallIsOwn, SessionFacts
  <2>4. PosIn(stack, s, 6) /\ s \notin failed
    BY <1>5, <2>1, <2>2 DEF OK, SessionOK
  <2>5. \A k : PosIn(stack', s, k) <=> k = 6
    BY <1>4, <2>3, <2>4, OnePosition
  <2>6. status'[s] = "running" /\ status'[t] = "done"
    BY <1>2, <1>3, <2>3, <2>4, OnePosition
  <2>7. Has(s)
    BY <1>2, <2>2, <2>4 DEF Has, HasPermit
  <2>8. /\ PermitMoves(s) /\ cont' \in ContTypes /\ cont'[t] \in {"called", "dropped"}
        /\ \A x \in Calls : x # t => cont'[x] = cont[x]
    BY <2>1, <2>2, <2>6, <2>7, HasMeans, CompleteMoves
  <2>9. OK(s)'
    BY <1>1, <2>2, <2>4, <2>5, <2>6, <2>8, WaitsForResult
  <2>10. \A r \in Sessions \ {s} : Untouched(r)
    <3> SUFFICES ASSUME NEW r \in Sessions, r # s PROVE Untouched(r)
      OBVIOUS
    <3>1. /\ r # t /\ LlmOf(r) # t /\ r \in Tasks /\ LlmOf(r) \in Tasks /\ LlmOf(r) \in Calls
      <4>1. r \in Tasks /\ LlmOf(r) \in Tasks /\ LlmOf(r) \in Calls
        BY SessionFacts
      <4>2. r # LlmOf(s) /\ LlmOf(r) # LlmOf(s)
        BY CallIsOwn
      <4> QED
        BY ONLY <2>2, <4>1, <4>2
    <3>2. /\ cont'[LlmOf(r)] = cont[LlmOf(r)] /\ status'[LlmOf(r)] = status[LlmOf(r)]
          /\ status'[r] = status[r]
      BY <1>3, <2>8, <3>1
    <3> QED
      BY <1>1, <1>4, <3>1, <3>2 DEF Untouched
  <2>11. CallTypes' /\ Chained'
    BY <1>1, <1>5, <2>8 DEF CallTypes, Chained
  <2> QED
    BY <2>8, <2>9, <2>10, <2>11, SessionMoves
<1>7. CASE ~FindsCont(t)
  <2>1. UNCHANGED <<permits, cont>>
    BY <1>7 DEF End
  <2>2. \A s \in Sessions \ {t} : Untouched(s)
    <3> SUFFICES ASSUME NEW s \in Sessions, s # t PROVE Untouched(s)
      OBVIOUS
    <3>1. s \in Tasks /\ LlmOf(s) \in Tasks /\ LlmOf(s) \in Calls
      BY SessionFacts
    <3>2. \/ cont[LlmOf(s)] = "none"
          \/ status'[LlmOf(s)] = "done" <=> status[LlmOf(s)] = "done"
      <4>1. CASE LlmOf(s) # t
        BY <1>3, <3>1, <4>1
      <4>2. CASE LlmOf(s) = t
        <5>1. cont[t] # "set"
          BY <1>7, <3>1, <4>2 DEF FindsCont
        <5>2. cont[t] \in {"called", "dropped"} => status[t] = "done"
          BY <1>5, <4>2 DEF OK, SessionOK
        <5>3. cont[t] \in {"none", "set", "called", "dropped"}
          BY <1>5, <3>1, <4>2 DEF CallTypes, ContTypes
        <5> QED
          BY <1>2, <4>2, <5>1, <5>2, <5>3
      <4> QED
        BY <4>1, <4>2
    <3>3. status'[s] = status[s]
      BY <1>3, <3>1
    <3> QED
      BY <1>1, <1>4, <2>1, <3>2, <3>3 DEF Untouched
  <2>3. CASE t \notin Sessions
    BY <1>1, <1>5, <2>1, <2>2, <2>3, NobodyMoves DEF CallTypes
  <2>4. CASE t \in Sessions
    <3>1. Top(w).at = 7
      <4>1. Len(Program[t]) = 6
        BY <2>4, SessionFacts
      <4>2. Top(w).at \in 1 .. Len(Program[t]) + 1
        BY <1>1, TopFacts DEF PoolInv, Threads
      <4> QED
        BY <1>1, <4>1, <4>2 DEF AtEnd
    <3>2. PosIn(stack, t, 7) /\ OK(t)
      BY <1>2, <1>5, <2>4, <3>1
    <3>3. cont[LlmOf(t)] # "set"
      <4>1. ~PosIn(stack, t, 6)
        BY <3>2, OnePosition
      <4> QED
        BY <3>2, <4>1 DEF OK, SessionOK
    <3>4. LlmOf(t) # t /\ LlmOf(t) \in Tasks
      BY <2>4, CallIsOwn, SessionFacts
    <3>5. status'[LlmOf(t)] = status[LlmOf(t)] /\ status'[t] = "done"
      BY <1>2, <1>3, <3>4
    <3>6. OK(t)'
      BY <1>4, <2>1, <3>2, <3>3, <3>5 DEF OK, SessionOK
    <3>7. ~Has(t)
      BY <3>2 DEF OK, SessionOK, Has, HasPermit
    <3>8. ~Has(t)'
      BY <1>4 DEF Has, HasPermit
    <3>9. PermitMoves(t)
      BY <2>1, <3>7, <3>8 DEF PermitMoves
    <3>10. CallTypes' /\ Chained'
      BY <1>1, <1>5, <2>1 DEF CallTypes, Chained
    <3> QED
      BY <2>2, <2>4, <3>6, <3>9, <3>10, SessionMoves
  <2> QED
    BY <2>3, <2>4
<1> QED
  BY <1>6, <1>7

LEMMA StepCalls ==
  ASSUME PoolInv, CallCore, [CallNext]_allvars
  PROVE  PoolInv' /\ CallGoesOn
<1>1. CASE UNCHANGED allvars
  <2>1. UNCHANGED vars /\ UNCHANGED <<stack, status, permits, failed, cont>>
    BY <1>1 DEF allvars, vars, calls
  <2> QED
    BY <2>1, UnchangedKeeps, StillCalls
<1>2. ASSUME NEW r \in Roots, Client(r), UNCHANGED calls
      PROVE  PoolInv' /\ CallGoesOn
  <2>1. PoolInv'
    BY <1>2, ClientKeeps
  <2>2. r \in Tasks /\ status \in [Tasks -> {"new", "queued", "running", "done"}]
    BY PoolAssumption DEF PoolInv, TypeOK
  <2>3. UNCHANGED <<stack, permits, failed, cont>> /\ Calm
    BY <1>2, <2>2 DEF Client, ClientSubmit, ClientLink, calls, Calm
  <2>4. \A s \in Sessions : Untouched(s)
    <3> SUFFICES ASSUME NEW s \in Sessions PROVE Untouched(s)
      OBVIOUS
    <3>1. s \in Tasks /\ LlmOf(s) \in Tasks
      BY SessionFacts
    <3> QED
      BY <2>3, <3>1 DEF Untouched, Calm
  <2> QED
    BY <2>1, <2>3, <2>4, CallCoreIs, NobodyMoves DEF CallTypes
<1>3. ASSUME NEW w \in Workers, PoolStep(w)
      PROVE  PoolInv' /\ CallGoesOn
  <2>1. UNCHANGED calls /\ UNCHANGED <<permits, failed, cont>> /\ w \in Threads
    BY <1>3 DEF PoolStep, calls, Threads
  <2>2. CASE Look(w)
    BY <2>1, <2>2, LookKeeps, LookBegins, BeginCalls, StillCalls
  <2>3. CASE SubmitLocal(w)
    BY <2>1, <2>3, SubmitLocalKeeps, SubmitCalls
  <2>4. CASE GetHelp(w)
    <3>1. UNCHANGED <<stack, status>>
      BY <2>4 DEF GetHelp, Move
    <3> QED
      BY <2>1, <2>4, <3>1, GetHelpKeeps, StillCalls
  <2> QED
    BY <1>3, <2>2, <2>3, <2>4 DEF PoolStep
<1>4. ASSUME NEW w \in Workers, CallStep(w)
      PROVE  PoolInv' /\ CallGoesOn
  <2>1. w \in Threads
    BY DEF Threads
  <2>2. CASE Acquire(w) \/ Prepare(w)
    <3>1. Running(w) /\ ~AtEnd(w) /\ Skip(w)
      BY <2>2 DEF Acquire, Prepare, At
    <3> QED
      BY <2>1, <2>2, <3>1, SkipKeeps, AcquireCalls
  <2>3. CASE PrepareThrows(w)
    <3>1. Running(w) /\ Throw(w)
      BY <2>3 DEF PrepareThrows, At
    <3> QED
      BY <2>1, <2>3, <3>1, ThrowKeeps, ThrowCalls
  <2>4. CASE Then(w)
    <3>1. Running(w) /\ ~AtEnd(w) /\ Skip(w)
      BY <2>4 DEF Then, At
    <3> QED
      BY <2>1, <2>4, <3>1, SkipKeeps, ThenCalls
  <2>5. CASE ResultReady(w)
    <3>1. Running(w) /\ ~AtEnd(w) /\ Skip(w)
      BY <2>5 DEF ResultReady, At
    <3> QED
      BY <2>1, <2>5, <3>1, SkipKeeps, ResultCalls
  <2>6. CASE ResultHelp(w)
    <3>1. Move(w, "run", "own") /\ UNCHANGED <<stack, status, permits, failed, cont>>
      BY <2>6 DEF ResultHelp, Move, calls
    <3>2. PoolInv'
      BY <2>1, <3>1, MoveKeeps DEF Phases
    <3> QED
      BY <3>1, <3>2, StillCalls
  <2>7. CASE GetValue(w)
    <3>1. Running(w) /\ ~AtEnd(w) /\ Skip(w)
      BY <2>7 DEF GetValue, GetReady, At, Skip
    <3> QED
      BY <2>1, <2>7, <3>1, SkipKeeps, OutsiderCalls
  <2>8. CASE GetThrows(w) \/ HttpThrows(w)
    <3>1. Running(w) /\ Throw(w)
      BY <2>8 DEF GetThrows, HttpThrows, At
    <3> QED
      BY <2>1, <2>8, <3>1, ThrowKeeps, OutsiderCalls
  <2>9. CASE End(w)
    <3>1. Finish(w)
      BY <2>9 DEF End
    <3> QED
      BY <2>1, <2>9, <3>1, FinishStep, EndCalls
  <2> QED
    BY <1>4, <2>2, <2>3, <2>4, <2>5, <2>6, <2>7, <2>8, <2>9 DEF CallStep
<1> QED
  BY <1>1, <1>2, <1>3, <1>4 DEF CallNext

\* The sessions that hold a permit are those that Out counts.
LEMMA HeldIsOut ==
  ASSUME PoolInv
  PROVE  {s \in Roots : CallOf(s) # {} /\ InCall(s)} = Held
<1>1. ASSUME NEW s \in Roots, s \notin Sessions PROVE CallOf(s) = {}
  <2>1. s \in Tasks
    BY PoolAssumption
  <2>2. \A k \in 1 .. Len(Program[s]) : Program[s][k].op # "then"
    BY <1>1, <2>1, SessionAssumption
  <2> QED
    BY <2>2 DEF CallOf
<1>2. ASSUME NEW s \in Sessions PROVE CallOf(s) # {} /\ (InCall(s) <=> Has(s))
  <2>1. /\ Len(Program[s]) = 6
        /\ Program[s][1].op = "acquire" /\ Program[s][2].op = "prepare"
        /\ Program[s][3].op = "submit" /\ Program[s][4].op = "submit"
        /\ Program[s][5].op = "then" /\ Program[s][6].op = "result"
    BY SessionFacts
  <2>2. {k \in 1 .. Len(Program[s]) : Program[s][k].op = "then"} = {5}
    BY <2>1
  <2>3. CallOf(s) = {LlmOf(s)}
    BY <2>2 DEF CallOf, LlmOf
  <2>4. \A f \in FramesOf(s) : PosIn(stack, s, f.at) /\ f.at \in 1 .. 7
    <3> SUFFICES ASSUME NEW f \in FramesOf(s)
                 PROVE  PosIn(stack, s, f.at) /\ f.at \in 1 .. 7
      OBVIOUS
    <3>1. PICK w \in Workers : \E i \in 1 .. Len(stack[w]) : f = stack[w][i] /\ f.task = s
      BY DEF FramesOf
    <3>2. PICK i \in 1 .. Len(stack[w]) : f = stack[w][i] /\ f.task = s
      BY <3>1
    <3>3. f.at \in 1 .. Len(Program[s]) + 1
      BY <3>2 DEF PoolInv, FrameInv, Threads
    <3>4. f.at \in 1 .. 7
      BY <2>1, <3>3
    <3> QED
      BY <3>2, <3>4 DEF PosIn
  <2>5. \A k : PosIn(stack, s, k) => \E f \in FramesOf(s) : f.at = k
    BY DEF PosIn, FramesOf
  <2>6. InCall(s) => Has(s)
    <3> SUFFICES ASSUME InCall(s) PROVE Has(s)
      OBVIOUS
    <3>1. PICK f \in FramesOf(s) : /\ 1 < f.at /\ s \notin failed
                                   /\ cont[LlmOf(s)] = "none" \/ status[LlmOf(s)] # "done"
      BY <2>3 DEF InCall
    <3>2. f.at \in 2 .. 7 /\ PosIn(stack, s, f.at)
      BY <2>4, <3>1
    <3> QED
      BY <3>1, <3>2 DEF Has, HasPermit
  <2>7. Has(s) => InCall(s)
    <3> SUFFICES ASSUME Has(s) PROVE InCall(s)
      OBVIOUS
    <3>1. PICK k \in 2 .. 7 : PosIn(stack, s, k)
      BY DEF Has, HasPermit
    <3>2. PICK f \in FramesOf(s) : f.at = k
      BY <2>5, <3>1
    <3> QED
      BY <2>3, <3>1, <3>2 DEF Has, HasPermit, InCall
  <2> QED
    BY <2>3, <2>6, <2>7
<1>3. Sessions \subseteq Roots
  BY DEF Sessions
<1> QED
  BY <1>1, <1>2, <1>3 DEF Held

-----------------------------------------------------------------------------
(***************************************************************************)
(* Counting.                                                               *)
(***************************************************************************)
LOCAL Library == INSTANCE FiniteSetTheorems

LEMMA SameNotions ==
  \A S : /\ Library!IsFiniteSet(S) <=> IsFiniteSet(S)
         /\ Library!Cardinality(S) = Cardinality(S)
BY DEF Library!IsFiniteSet, IsFiniteSet, Library!Cardinality, Cardinality

LEMMA CountIsNumber ==
  ASSUME NEW S, IsFiniteSet(S)
  PROVE  Cardinality(S) \in Nat
BY SameNotions, Library!FS_CardinalityType

LEMMA NothingToCount == IsFiniteSet({}) /\ Cardinality({}) = 0
BY SameNotions, Library!FS_EmptySet

LEMMA OneMore ==
  ASSUME NEW S, IsFiniteSet(S), NEW x, x \notin S
  PROVE  IsFiniteSet(S \cup {x}) /\ Cardinality(S \cup {x}) = Cardinality(S) + 1
BY SameNotions, Library!FS_AddElement

LEMMA OneLess ==
  ASSUME NEW S, IsFiniteSet(S), NEW x \in S
  PROVE  IsFiniteSet(S \ {x}) /\ Cardinality(S \ {x}) = Cardinality(S) - 1
BY SameNotions, Library!FS_RemoveElement

LEMMA PermitsCounted ==
  ASSUME Accounted(permits, Held, Lost(cont)), CallGoesOn
  PROVE  Accounted(permits', Held', Lost(cont'))
<1>1. /\ \A s : s \in Held <=> s \in Sessions /\ Has(s)
      /\ \A s : s \in Held' <=> s \in Sessions /\ Has(s)'
  BY DEF Held
<1>2. /\ permits \in Nat /\ IsFiniteSet(Held) /\ IsFiniteSet(Lost(cont))
      /\ permits + Cardinality(Held) + Cardinality(Lost(cont)) = MaxPermits
  BY DEF Accounted
<1>3. Cardinality(Held) \in Nat /\ Cardinality(Lost(cont)) \in Nat
  BY <1>2, CountIsNumber
<1>4. CASE NoPermitMoves
  <2>1. Held' = Held
    BY <1>1, <1>4 DEF NoPermitMoves
  <2> QED
    BY <1>4, <2>1 DEF NoPermitMoves
<1>5. CASE \E t \in Sessions : OthersKeep(t) /\ PermitMoves(t)
  <2>1. PICK t \in Sessions : OthersKeep(t) /\ PermitMoves(t)
    BY <1>5
  <2>2. \A s \in Sessions \ {t} : Has(s)' <=> Has(s)
    BY <2>1 DEF OthersKeep
  <2>3. CASE (Has(t)' <=> Has(t)) /\ permits' = permits /\ Lost(cont') = Lost(cont)
    <3>1. Held' = Held
      BY <1>1, <2>2, <2>3
    <3> QED
      BY <2>3, <3>1
  <2>4. CASE ~Has(t) /\ Has(t)' /\ permits > 0 /\ permits' = permits - 1 /\ Lost(cont') = Lost(cont)
    <3>1. t \notin Held /\ Held' = Held \cup {t}
      BY <1>1, <2>2, <2>4
    <3>2. IsFiniteSet(Held') /\ Cardinality(Held') = Cardinality(Held) + 1
      BY <1>2, <3>1, OneMore
    <3> QED
      BY <1>2, <1>3, <2>4, <3>2, CallsAssumption DEF Accounted
  <2>5. CASE Has(t) /\ ~Has(t)' /\ permits' = permits + 1 /\ Lost(cont') = Lost(cont)
    <3>1. t \in Held /\ Held' = Held \ {t}
      BY <1>1, <2>2, <2>5
    <3>2. IsFiniteSet(Held') /\ Cardinality(Held') = Cardinality(Held) - 1
      BY <1>2, <3>1, OneLess
    <3> QED
      BY <1>2, <1>3, <2>5, <3>2, CallsAssumption DEF Accounted
  <2>6. CASE /\ Has(t) /\ ~Has(t)' /\ permits' = permits
             /\ \E l : l \notin Lost(cont) /\ Lost(cont') = Lost(cont) \cup {l}
    <3>1. t \in Held /\ Held' = Held \ {t}
      BY <1>1, <2>2, <2>6
    <3>2. IsFiniteSet(Held') /\ Cardinality(Held') = Cardinality(Held) - 1
      BY <1>2, <3>1, OneLess
    <3>3. PICK l : l \notin Lost(cont) /\ Lost(cont') = Lost(cont) \cup {l}
      BY <2>6
    <3>4. IsFiniteSet(Lost(cont')) /\ Cardinality(Lost(cont')) = Cardinality(Lost(cont)) + 1
      BY <1>2, <3>3, OneMore
    <3> QED
      BY <1>2, <1>3, <2>6, <3>2, <3>4, CallsAssumption DEF Accounted
  <2> QED
    BY <2>1, <2>3, <2>4, <2>5, <2>6 DEF PermitMoves
<1> QED
  BY <1>4, <1>5 DEF CallGoesOn

LEMMA InitCallInv == ASSUME CallInit PROVE PoolInv /\ CallInv
<1>1. /\ Init /\ permits = MaxPermits /\ failed = {} /\ cont = [l \in Calls |-> "none"]
      /\ stack = [w \in Threads |-> <<>>]
  BY DEF CallInit, Init
<1>2. \A s, k : ~PosIn(stack, s, k)
  BY <1>1 DEF PosIn, Threads
<1>3. CallTypes /\ Chained
  BY <1>1 DEF CallTypes, ContTypes, Chained
<1>4. \A s \in Sessions : OK(s)
  BY <1>1, <1>2, SessionFacts DEF OK, SessionOK
<1>5. Held = {} /\ Lost(cont) = {}
  BY <1>1, <1>2 DEF Held, Has, HasPermit, Lost
<1>6. Accounted(permits, {}, {})
  BY <1>1, NothingToCount, CallsAssumption DEF Accounted
<1> QED
  BY <1>1, <1>3, <1>4, <1>5, <1>6, InitPoolInv DEF CallInv, CallCore

LEMMA StepCallInv ==
  ASSUME PoolInv, CallInv, [CallNext]_allvars
  PROVE  PoolInv' /\ CallInv'
<1>1. CallCore /\ Accounted(permits, Held, Lost(cont))
  BY DEF CallInv
<1>2. PoolInv' /\ CallGoesOn
  BY <1>1, StepCalls
<1>3. Accounted(permits', Held', Lost(cont'))
  BY <1>1, <1>2, PermitsCounted
<1> QED
  BY <1>2, <1>3 DEF CallInv, CallGoesOn

(***************************************************************************)
(* The permits are accounted for: a permit is out for each session that    *)
(* has acquired one and not seen its inner call complete, and one is lost  *)
(* for each call that has completed with an exception                      *)
(* (throttled_llm_client.h:24-26, 53-67), for any number of workers,       *)
(* sessions and permits.                                                   *)
(***************************************************************************)
THEOREM PermitsTracked == CallSpec => []PermitsAccounted
<1>1. PoolInv /\ CallInv => PermitsAccounted
  <2> SUFFICES ASSUME PoolInv, CallInv PROVE PermitsAccounted
    OBVIOUS
  <2>1. Accounted(permits, Held, Lost(cont)) /\ CallTypes
    BY DEF CallInv, CallCore
  <2>2. Cardinality(Held) \in Nat /\ Cardinality(Lost(cont)) \in Nat
    BY <2>1, CountIsNumber DEF Accounted
  <2>3. Out = Cardinality(Held)
    BY HeldIsOut DEF Out
  <2>4. permits \in Nat /\ permits + Cardinality(Held) + Cardinality(Lost(cont)) = MaxPermits
    BY <2>1 DEF Accounted
  <2>5. permits \in 0 .. MaxPermits
    BY <2>2, <2>4, CallsAssumption
  <2>6. CallTypeOK
    BY <2>1, <2>5 DEF CallTypeOK, CallTypes, ContTypes, PoolInv
  <2> QED
    BY <2>3, <2>4, <2>6 DEF PermitsAccounted, Lost
<1> QED
  BY InitCallInv, StepCallInv, <1>1, PTL DEF CallSpec
=============================================================================
