----------------------------- MODULE PoolProofs -----------------------------
(***************************************************************************)
(* The thread pool, for any number of workers and any tasks: a submitted   *)
(* task is in one queue, a started one in one frame of one stack, and no   *)
(* task is run twice (RunOnce).                                            *)
(***************************************************************************)
EXTENDS ThrottledLLM, Integers, TLAPS

-----------------------------------------------------------------------------
(***************************************************************************)
(* PoolInv is kept by the pool of core/thread_pool.cpp and by the LLM      *)
(* calls on it (CallProofs).                                               *)
(***************************************************************************)

\* A queued task is in one place of one deque or submission queue.
QueueInv ==
  /\ \A v \in Workers : \A k \in 1 .. Len(deque[v]) : status[deque[v][k]] = "queued"
  /\ \A v \in Workers : \A k \in 1 .. Len(subq[v]) : status[subq[v][k]] = "queued"
  /\ \A v, u \in Workers : \A k \in 1 .. Len(deque[v]), j \in 1 .. Len(deque[u]) :
       deque[v][k] = deque[u][j] => v = u /\ k = j
  /\ \A v, u \in Workers : \A k \in 1 .. Len(subq[v]), j \in 1 .. Len(subq[u]) :
       subq[v][k] = subq[u][j] => v = u /\ k = j
  /\ \A v, u \in Workers : \A k \in 1 .. Len(deque[v]), j \in 1 .. Len(subq[u]) :
       deque[v][k] # subq[u][j]

InSubq(t) == \E v \in Workers : \E k \in 1 .. Len(subq[v]) : subq[v][k] = t
PlaceInv == \A t \in Tasks : status[t] = "queued" => InDeque(t) \/ InSubq(t)

\* A running task is in one frame of one stack.
FrameInv ==
  /\ \A w \in Threads : \A i \in 1 .. Len(stack[w]) :
       /\ status[stack[w][i].task] = "running"
       /\ stack[w][i].at \in 1 .. Len(Program[stack[w][i].task]) + 1
  /\ \A w, u \in Threads : \A i \in 1 .. Len(stack[w]), j \in 1 .. Len(stack[u]) :
       stack[w][i].task = stack[u][j].task => w = u /\ i = j
  /\ \A w \in Threads : pc[w] = "run" => stack[w] # <<>>

OnStack(t) == \E w \in Threads : \E i \in 1 .. Len(stack[w]) : stack[w][i].task = t
RunningInv == \A t \in Tasks : status[t] = "running" => OnStack(t)

\* Task t is past its k-th instruction.
Passed(t, k) ==
  \/ status[t] = "done"
  \/ \E w \in Threads : \E i \in 1 .. Len(stack[w]) : stack[w][i].task = t /\ k < stack[w][i].at

\* A task is new until its submitter gets to it.
FreshInv ==
  \A t, u \in Tasks : \A k \in 1 .. Len(Program[t]) :
    Submits(t, k, u) /\ status[u] # "new" => Passed(t, k)

\* A task is begun once, and a stack grows in the order in which they are begun.
BegunInv ==
  /\ \A a \in 1 .. Len(begun) : status[begun[a]] \in {"running", "done"}
  /\ \A t \in Tasks : status[t] \in {"running", "done"} => \E a \in 1 .. Len(begun) : begun[a] = t
  /\ \A a, b \in 1 .. Len(begun) : begun[a] = begun[b] => a = b
  /\ \A w \in Threads : \A i, j \in 1 .. Len(stack[w]) : \A a, b \in 1 .. Len(begun) :
       i < j /\ begun[a] = stack[w][i].task /\ begun[b] = stack[w][j].task => a < b
  /\ \A t, u \in Tasks : \A k \in 1 .. Len(Program[t]) : \A a, b \in 1 .. Len(begun) :
       Submits(t, k, u) /\ begun[a] = t /\ begun[b] = u => a < b

PoolInv ==
  TypeOK /\ QueueInv /\ PlaceInv /\ FrameInv /\ RunningInv /\ FreshInv /\ BegunInv

-----------------------------------------------------------------------------
\* How the stacks change: push, pop, and the position in the top frame.
LEMMA PushFrame ==
  ASSUME stack \in [Threads -> Seq(Frames)], NEW w \in Threads, NEW f \in Frames,
         stack' = [stack EXCEPT ![w] = Append(@, f)]
  PROVE  /\ stack' \in [Threads -> Seq(Frames)]
         /\ Len(stack'[w]) = Len(stack[w]) + 1 /\ Len(stack[w]) \in Nat
         /\ \A i \in 1 .. Len(stack[w]) : stack'[w][i] = stack[w][i]
         /\ stack'[w][Len(stack[w]) + 1] = f
         /\ \A u \in Threads : u # w => stack'[u] = stack[u]
OBVIOUS

LEMMA FrontFacts ==
  ASSUME NEW S, NEW s \in Seq(S), s # <<>>
  PROVE  /\ Front(s) \in Seq(S) /\ Len(Front(s)) = Len(s) - 1 /\ Len(s) \in Nat \ {0}
         /\ \A i \in 1 .. Len(s) - 1 : Front(s)[i] = s[i]
<1>1. Len(s) \in Nat \ {0}
  OBVIOUS
<1>2. Front(s) \in Seq(S)
  BY DEF Front
<1> DEFINE n == Len(s) - 1
<1>3. n \in Nat
  BY <1>1
<1>4. Len(Front(s)) = n
  <2> HIDE DEF n
  <2>1. Len(SubSeq(s, 1, n)) = n
    BY <1>3
  <2> QED
    BY <2>1 DEF Front, n
<1>5. \A i \in 1 .. n : Front(s)[i] = s[i]
  BY <1>1 DEF Front
<1> QED
  BY <1>1, <1>2, <1>4, <1>5

LEMMA PopFrame ==
  ASSUME stack \in [Threads -> Seq(Frames)], NEW w \in Threads, stack[w] # <<>>,
         stack' = [stack EXCEPT ![w] = Front(@)]
  PROVE  /\ stack' \in [Threads -> Seq(Frames)]
         /\ Len(stack[w]) \in Nat \ {0} /\ Len(stack'[w]) = Len(stack[w]) - 1
         /\ \A i \in 1 .. Len(stack[w]) - 1 : stack'[w][i] = stack[w][i]
         /\ \A u \in Threads : u # w => stack'[u] = stack[u]
<1>1. stack[w] \in Seq(Frames)
  OBVIOUS
<1> QED
  BY <1>1, FrontFacts

SetAt(w, a) == stack' = [stack EXCEPT ![w][Len(stack[w])].at = a]

LEMMA MoveInFrame ==
  ASSUME stack \in [Threads -> Seq(Frames)], NEW w \in Threads, stack[w] # <<>>, NEW a \in Nat,
         SetAt(w, a)
  PROVE  /\ stack' \in [Threads -> Seq(Frames)]
         /\ Len(stack[w]) \in Nat \ {0}
         /\ \A u \in Threads : Len(stack'[u]) = Len(stack[u])
         /\ stack'[w][Len(stack[w])] = [task |-> Top(w).task, at |-> a]
         /\ \A u \in Threads : \A i \in 1 .. Len(stack[u]) :
              /\ stack'[u][i].task = stack[u][i].task
              /\ u # w \/ i # Len(stack[w]) => stack'[u][i] = stack[u][i]
<1> DEFINE n == Len(stack[w])
           f == [task |-> Top(w).task, at |-> a]
<1>1. stack[w] \in Seq(Frames) /\ n \in Nat \ {0} /\ n \in 1 .. n
  OBVIOUS
<1>2. stack[w][n] \in Frames
  BY <1>1
<1>3. f \in Frames /\ [stack[w][n] EXCEPT !.at = a] = f
  BY <1>2 DEF Top, Frames
<1>5. stack' = [stack EXCEPT ![w] = [stack[w] EXCEPT ![n] = [stack[w][n] EXCEPT !.at = a]]]
  BY DEF SetAt
<1>6. stack' = [stack EXCEPT ![w] = [stack[w] EXCEPT ![n] = f]]
  BY <1>3, <1>5
<1>4. /\ [stack[w] EXCEPT ![n] = f] \in Seq(Frames) /\ Len([stack[w] EXCEPT ![n] = f]) = n
      /\ [stack[w] EXCEPT ![n] = f][n] = f
      /\ \A i \in 1 .. n : i # n => [stack[w] EXCEPT ![n] = f][i] = stack[w][i]
  BY <1>1, <1>3
<1> QED
  BY <1>1, <1>2, <1>3, <1>4, <1>6 DEF Top

LEMMA TopFacts ==
  ASSUME TypeOK, FrameInv, NEW w \in Threads, Running(w)
  PROVE  /\ stack[w] # <<>> /\ Len(stack[w]) \in 1 .. Len(stack[w])
         /\ Top(w) = stack[w][Len(stack[w])] /\ Top(w) \in Frames
         /\ status[Top(w).task] = "running"
         /\ Top(w).at \in 1 .. Len(Program[Top(w).task]) + 1
         /\ Len(Program[Top(w).task]) \in Nat
<1>1. stack[w] # <<>> /\ stack[w] \in Seq(Frames)
  BY DEF FrameInv, TypeOK, Running
<1>2. Len(stack[w]) \in 1 .. Len(stack[w]) /\ stack[w][Len(stack[w])] \in Frames
  BY <1>1
<1> QED
  BY <1>1, <1>2, PoolAssumption DEF FrameInv, Top, Frames

LEMMA InstrFacts ==
  ASSUME TypeOK, FrameInv, NEW w \in Threads, NEW op, At(w, op)
  PROVE  /\ Running(w) /\ Top(w).at \in 1 .. Len(Program[Top(w).task])
         /\ Instr(w) \in [op : STRING, task : Tasks]
         /\ Instr(w) = [op |-> op, task |-> Instr(w).task]
<1>1. Running(w) /\ ~AtEnd(w) /\ Instr(w).op = op
  BY DEF At
<1>2. Top(w).at \in 1 .. Len(Program[Top(w).task]) /\ Top(w).task \in Tasks
  BY <1>1, TopFacts DEF AtEnd, Frames
<1>3. Program[Top(w).task] \in Seq([op : STRING, task : Tasks])
  BY <1>2, PoolAssumption
<1>4. Instr(w) \in [op : STRING, task : Tasks]
  <2> DEFINE S == [op : STRING, task : Tasks]
  <2> HIDE DEF S
  <2>1. Program[Top(w).task] \in Seq(S)
    BY <1>3 DEF S
  <2>2. Instr(w) \in S
    BY <1>2, <2>1 DEF Instr
  <2> QED
    BY <2>2 DEF S
<1> QED
  BY <1>1, <1>2, <1>4

-----------------------------------------------------------------------------
(***************************************************************************)
(* The kinds of steps, and what each leaves of PoolInv.  StackInv is what  *)
(* the queues have no part in.                                             *)
(***************************************************************************)
StackInv == FrameInv /\ RunningInv /\ FreshInv /\ BegunInv

StackTypes ==
  /\ pc \in [Threads -> {"up", "own", "sub", "steal", "check", "drain_deque", "drain_subq",
                         "exit", "run", "join", "final_deques", "final_subqs", "gone"}]
  /\ base \in [Threads -> {"up", "own", "drain_deque", "drain_subq", "final_deques",
                           "final_subqs"}]
  /\ stack \in [Threads -> Seq(Frames)]
  /\ status \in [Tasks -> {"new", "queued", "running", "done"}]
  /\ begun \in Seq(Tasks)

Looking == {"own", "sub", "steal"}
Taking == Looking \cup {"drain_deque", "drain_subq", "final_deques", "final_subqs"}

\* A thread starts a queued task.
LEMMA BeginKeeps ==
  ASSUME PoolInv, NEW w \in Threads, NEW t \in Tasks, status[t] = "queued", pc[w] \in Taking,
         Begin(w, t)
  PROVE  StackTypes' /\ StackInv'
<1> DEFINE n == Len(stack[w])
<1>0. StackTypes
  BY DEF PoolInv, TypeOK, StackTypes
<1>1. /\ pc' = [pc EXCEPT ![w] = "run"]
      /\ base' = [base EXCEPT ![w] = IF stack[w] = <<>> THEN ReturnTo(w) ELSE @]
      /\ stack' = [stack EXCEPT ![w] = Append(@, [task |-> t, at |-> 1])]
      /\ status' = [status EXCEPT ![t] = "running"]
      /\ begun' = Append(begun, t)
  BY DEF Begin
<1>2. [task |-> t, at |-> 1] \in Frames
  BY DEF Frames
<1>3. /\ stack' \in [Threads -> Seq(Frames)]
      /\ Len(stack'[w]) = n + 1 /\ n \in Nat
      /\ \A i \in 1 .. n : stack'[w][i] = stack[w][i]
      /\ stack'[w][n + 1] = [task |-> t, at |-> 1]
      /\ \A u \in Threads : u # w => stack'[u] = stack[u]
  BY <1>0, <1>1, <1>2, PushFrame DEF StackTypes
<1>14. \A u \in Threads : Len(stack[u]) \in Nat /\ Len(stack'[u]) \in Nat
  BY <1>0, <1>3 DEF StackTypes
\* The frames are the old ones and the new one.
<1>15. \A u \in Threads : \A i \in 1 .. Len(stack[u]) :
         i \in 1 .. Len(stack'[u]) /\ stack'[u][i] = stack[u][i]
  <2> TAKE u \in Threads
  <2> QED
    BY <1>3, <1>14
<1>16. \A u \in Threads : \A i \in 1 .. Len(stack'[u]) :
         \/ u = w /\ i = n + 1
         \/ i \in 1 .. Len(stack[u]) /\ stack'[u][i] = stack[u][i]
  <2> TAKE u \in Threads
  <2>1. CASE u = w
    BY <1>3, <2>1
  <2>2. CASE u # w
    BY <1>3, <2>2
  <2> QED
    BY <2>1, <2>2
<1> HIDE DEF n
<1>4. /\ Len(begun) \in Nat /\ Len(begun') = Len(begun) + 1
      /\ begun'[Len(begun) + 1] = t
      /\ \A a \in 1 .. Len(begun) : begun'[a] = begun[a]
  BY <1>0, <1>1 DEF StackTypes
<1>5. /\ status'[t] = "running"
      /\ \A x \in Tasks : x # t => status'[x] = status[x]
  BY <1>0, <1>1 DEF StackTypes
<1>6. StackTypes'
  <2>1. base' \in [Threads -> {"up", "own", "drain_deque", "drain_subq", "final_deques",
                               "final_subqs"}]
    BY <1>0, <1>1 DEF StackTypes, ReturnTo, Taking, Looking
  <2>2. pc' \in [Threads -> {"up", "own", "sub", "steal", "check", "drain_deque", "drain_subq",
                             "exit", "run", "join", "final_deques", "final_subqs", "gone"}]
    BY <1>0, <1>1 DEF StackTypes
  <2>3. status' \in [Tasks -> {"new", "queued", "running", "done"}] /\ begun' \in Seq(Tasks)
    BY <1>0, <1>1 DEF StackTypes
  <2> QED
    BY <1>3, <2>1, <2>2, <2>3 DEF StackTypes
\* t was on no stack.
<1>7. \A u \in Threads : \A i \in 1 .. Len(stack[u]) :
         stack[u][i].task # t /\ stack[u][i].task \in Tasks
  <2> TAKE u \in Threads
  <2> TAKE i \in 1 .. Len(stack[u])
  <2>1. stack[u] \in Seq(Frames)
    BY <1>0 DEF StackTypes
  <2>2. stack[u][i] \in Frames
    BY <2>1
  <2> QED
    BY <2>2 DEF PoolInv, FrameInv, Frames
<1>8. FrameInv'
  <2>1. ASSUME NEW u \in Threads, NEW i \in 1 .. Len(stack'[u])
        PROVE  /\ status'[stack'[u][i].task] = "running"
               /\ stack'[u][i].at \in 1 .. Len(Program[stack'[u][i].task]) + 1
    <3>1. CASE u = w /\ i = n + 1
      BY <1>3, <1>5, <3>1, PoolAssumption
    <3>2. CASE ~(u = w /\ i = n + 1)
      <4>1. i \in 1 .. Len(stack[u]) /\ stack'[u][i] = stack[u][i]
        BY <1>16, <3>2
      <4> QED
        BY <1>5, <1>7, <4>1 DEF PoolInv, FrameInv
    <3> QED
      BY <3>1, <3>2
  <2>2. ASSUME NEW u \in Threads, NEW v \in Threads, NEW i \in 1 .. Len(stack'[u]),
               NEW j \in 1 .. Len(stack'[v]), stack'[u][i].task = stack'[v][j].task
        PROVE  u = v /\ i = j
    <3>1. CASE u = w /\ i = n + 1
      BY <1>3, <1>7, <1>16, <2>2, <3>1
    <3>2. CASE v = w /\ j = n + 1
      BY <1>3, <1>7, <1>16, <2>2, <3>2
    <3>3. CASE ~(u = w /\ i = n + 1) /\ ~(v = w /\ j = n + 1)
      <4>1. i \in 1 .. Len(stack[u]) /\ stack'[u][i] = stack[u][i]
        BY <1>16, <3>3
      <4>2. j \in 1 .. Len(stack[v]) /\ stack'[v][j] = stack[v][j]
        BY <1>16, <3>3
      <4> QED
        BY <2>2, <4>1, <4>2 DEF PoolInv, FrameInv
    <3> QED
      BY <3>1, <3>2, <3>3
  <2>3. ASSUME NEW u \in Threads, pc'[u] = "run" PROVE stack'[u] # <<>>
    <3>1. CASE u = w
      BY <1>3, <3>1
    <3>2. CASE u # w
      BY <1>0, <1>1, <1>3, <2>3, <3>2 DEF PoolInv, FrameInv, StackTypes
    <3> QED
      BY <3>1, <3>2
  <2> QED
    BY <2>1, <2>2, <2>3 DEF FrameInv
<1>9. ASSUME NEW x \in Tasks, NEW k \in Nat, k > 0 PROVE Passed(x, k)' <=> Passed(x, k)
  <2>1. Passed(x, k) => Passed(x, k)'
    BY <1>5, <1>15 DEF Passed
  <2>2. ASSUME Passed(x, k)' PROVE Passed(x, k)
    <3>1. CASE status'[x] = "done"
      BY <1>5, <3>1 DEF Passed
    <3>2. ASSUME NEW u \in Threads, NEW i \in 1 .. Len(stack'[u]), stack'[u][i].task = x,
                 k < stack'[u][i].at
          PROVE  Passed(x, k)
      <4>1. ~(u = w /\ i = n + 1)
        BY <1>3, <1>9, <3>2
      <4>2. i \in 1 .. Len(stack[u]) /\ stack'[u][i] = stack[u][i]
        BY <1>16, <4>1
      <4> QED
        BY <3>2, <4>2 DEF Passed
    <3> QED
      BY <2>2, <3>1, <3>2 DEF Passed
  <2> QED
    BY <2>1, <2>2
<1>10. RunningInv'
  <2> SUFFICES ASSUME NEW x \in Tasks, status'[x] = "running" PROVE OnStack(x)'
    BY DEF RunningInv
  <2>1. CASE x = t
    BY <1>3, <2>1 DEF OnStack
  <2>2. CASE x # t
    <3>1. OnStack(x)
      BY <1>5, <2>2 DEF PoolInv, RunningInv
    <3> QED
      BY <1>15, <3>1 DEF OnStack
  <2> QED
    BY <2>1, <2>2
<1>11. FreshInv'
  <2> SUFFICES ASSUME NEW x \in Tasks, NEW u \in Tasks, NEW k \in 1 .. Len(Program[x]),
                      Submits(x, k, u), status'[u] # "new"
               PROVE  Passed(x, k)'
    BY DEF FreshInv, Submits
  <2>1. status[u] # "new"
    BY <1>5
  <2> QED
    BY <1>9, <2>1 DEF PoolInv, FreshInv
\* t has not passed its instructions, and whoever submitted it has been begun.
<1>12. \A x \in Tasks : \A k \in 1 .. Len(Program[t]) : Submits(t, k, x) => status[x] = "new"
  <2> TAKE x \in Tasks
  <2> TAKE k \in 1 .. Len(Program[t])
  <2>1. ~Passed(t, k)
    BY <1>7 DEF Passed
  <2> QED
    BY <2>1 DEF PoolInv, FreshInv
<1>13. BegunInv'
  <2>1. ASSUME NEW a \in 1 .. Len(begun') PROVE status'[begun'[a]] \in {"running", "done"}
    <3>1. CASE a = Len(begun) + 1
      BY <1>4, <1>5, <3>1
    <3>2. CASE a # Len(begun) + 1
      <4>1. a \in 1 .. Len(begun) /\ begun'[a] = begun[a]
        BY <1>4, <3>2
      <4>2. begun[a] \in Tasks
        BY <1>0, <4>1 DEF StackTypes
      <4> QED
        BY <1>5, <4>1, <4>2 DEF PoolInv, BegunInv
    <3> QED
      BY <3>1, <3>2
  <2>2. ASSUME NEW x \in Tasks, status'[x] \in {"running", "done"}
        PROVE  \E a \in 1 .. Len(begun') : begun'[a] = x
    BY <1>4, <1>5, <2>2 DEF PoolInv, BegunInv
  <2>3. \A a \in 1 .. Len(begun) : begun[a] # t
    BY DEF PoolInv, BegunInv
  <2>4. ASSUME NEW a \in 1 .. Len(begun'), NEW b \in 1 .. Len(begun'), begun'[a] = begun'[b]
        PROVE  a = b
    BY <1>4, <2>3, <2>4 DEF PoolInv, BegunInv
  <2>5. ASSUME NEW u \in Threads, NEW i \in 1 .. Len(stack'[u]), NEW j \in 1 .. Len(stack'[u]),
               NEW a \in 1 .. Len(begun'), NEW b \in 1 .. Len(begun'),
               i < j, begun'[a] = stack'[u][i].task, begun'[b] = stack'[u][j].task
        PROVE  a < b
    <3>1. i \in 1 .. Len(stack[u]) /\ stack'[u][i] = stack[u][i] /\ a \in 1 .. Len(begun)
      <4>1. i \in 1 .. Len(stack[u]) /\ stack'[u][i] = stack[u][i]
        <5>1. ~(u = w /\ i = n + 1)
          BY <1>3, <2>5
        <5> QED
          BY <1>16, <5>1
      <4> QED
        BY <1>4, <1>7, <2>5, <4>1
    <3>2. CASE u = w /\ j = n + 1
      <4>1. begun'[b] = t
        BY <1>3, <2>5, <3>2
      <4>2. b = Len(begun) + 1
        BY <1>4, <2>3, <4>1
      <4> QED
        BY <1>4, <3>1, <4>2
    <3>3. CASE ~(u = w /\ j = n + 1)
      <4>1. j \in 1 .. Len(stack[u]) /\ stack'[u][j] = stack[u][j]
        BY <1>16, <3>3
      <4>2. b \in 1 .. Len(begun)
        BY <1>4, <1>7, <2>5, <4>1
      <4> QED
        <5>1. begun[a] = stack[u][i].task /\ begun[b] = stack[u][j].task
          BY <1>4, <2>5, <3>1, <4>1, <4>2
        <5> QED
          BY <2>5, <3>1, <4>1, <4>2, <5>1 DEF PoolInv, BegunInv
    <3> QED
      BY <3>2, <3>3
  <2>6. ASSUME NEW x \in Tasks, NEW u \in Tasks, NEW k \in 1 .. Len(Program[x]),
               NEW a \in 1 .. Len(begun'), NEW b \in 1 .. Len(begun'),
               Submits(x, k, u), begun'[a] = x, begun'[b] = u
        PROVE  a < b
    <3>1. status'[u] \in {"running", "done"}
      BY <2>1, <2>6
    <3>2. x # t
      BY <1>12, <1>5, <2>6, <3>1
    <3>3. a \in 1 .. Len(begun)
      BY <1>4, <2>6, <3>2
    <3> QED
      BY <1>4, <2>6, <3>3 DEF PoolInv, BegunInv
  <2> QED
    BY <2>1, <2>2, <2>4, <2>5, <2>6 DEF BegunInv, Submits
<1> QED
  BY <1>6, <1>8, <1>10, <1>11, <1>13 DEF StackInv

\* Frames move on and new tasks are queued; no task begins or ends.
MovesOn ==
  /\ \A u \in Threads : Len(stack'[u]) = Len(stack[u])
  /\ \A u \in Threads : \A i \in 1 .. Len(stack[u]) :
       /\ stack'[u][i].task = stack[u][i].task
       /\ stack[u][i].at <= stack'[u][i].at
       /\ stack'[u][i].at \in 1 .. Len(Program[stack[u][i].task]) + 1
Queues(x) ==
  /\ status[x] = "new" /\ status'[x] = "queued"
  /\ \A t \in Tasks : \A k \in 1 .. Len(Program[t]) : Submits(t, k, x) => Passed(t, k)'

LEMMA MovesOnKeeps ==
  ASSUME PoolInv, MovesOn, begun' = begun,
         \A x \in Tasks : status'[x] = status[x] \/ Queues(x),
         \A u \in Threads : pc'[u] = "run" => stack[u] # <<>>
  PROVE  StackInv'
<1>1. \A u \in Threads : stack[u] \in Seq(Frames)
  BY DEF PoolInv, TypeOK
<1>2. \A u \in Threads : \A i \in 1 .. Len(stack[u]) :
        stack[u][i] \in Frames /\ stack[u][i].task \in Tasks /\ stack[u][i].at \in Nat
  <2> TAKE u \in Threads
  <2> TAKE i \in 1 .. Len(stack[u])
  <2>1. stack[u][i] \in Frames
    BY <1>1
  <2> QED
    BY <2>1 DEF Frames
<1>3. \A u \in Threads : Len(stack[u]) \in Nat /\ (stack[u] = <<>> <=> Len(stack[u]) = 0)
  BY <1>1
<1>4. FrameInv'
  <2>1. ASSUME NEW u \in Threads, NEW i \in 1 .. Len(stack'[u])
        PROVE  /\ status'[stack'[u][i].task] = "running"
               /\ stack'[u][i].at \in 1 .. Len(Program[stack'[u][i].task]) + 1
    <3>1. i \in 1 .. Len(stack[u]) /\ stack'[u][i].task = stack[u][i].task
      BY DEF MovesOn
    <3>2. status[stack[u][i].task] = "running" /\ stack[u][i].task \in Tasks
      BY <1>2, <3>1 DEF PoolInv, FrameInv
    <3> QED
      BY <3>1, <3>2 DEF MovesOn, Queues
  <2>2. ASSUME NEW u \in Threads, NEW v \in Threads, NEW i \in 1 .. Len(stack'[u]),
               NEW j \in 1 .. Len(stack'[v]), stack'[u][i].task = stack'[v][j].task
        PROVE  u = v /\ i = j
    <3>1. i \in 1 .. Len(stack[u]) /\ j \in 1 .. Len(stack[v]) /\ stack[u][i].task = stack[v][j].task
      BY <2>2 DEF MovesOn
    <3> QED
      BY <3>1 DEF PoolInv, FrameInv
  <2>3. ASSUME NEW u \in Threads, pc'[u] = "run" PROVE stack'[u] # <<>>
    BY <1>3, <2>3 DEF MovesOn
  <2> QED
    BY <2>1, <2>2, <2>3 DEF FrameInv
<1>5. ASSUME NEW x \in Tasks, NEW k \in Nat, Passed(x, k) PROVE Passed(x, k)'
  <2>1. CASE status[x] = "done"
    BY <2>1 DEF Passed, Queues
  <2>2. ASSUME NEW u \in Threads, NEW i \in 1 .. Len(stack[u]), stack[u][i].task = x,
               k < stack[u][i].at
        PROVE  Passed(x, k)'
    <3>1. /\ i \in 1 .. Len(stack'[u]) /\ stack'[u][i].task = x
          /\ stack[u][i].at <= stack'[u][i].at /\ stack'[u][i].at \in Nat
      BY <1>2, <2>2, PoolAssumption DEF MovesOn
    <3>2. k < stack'[u][i].at
      BY <1>2, <2>2, <3>1
    <3> QED
      BY <3>1, <3>2 DEF Passed
  <2> QED
    BY <1>5, <2>1, <2>2 DEF Passed
<1>6. RunningInv'
  <2> SUFFICES ASSUME NEW x \in Tasks, status'[x] = "running" PROVE OnStack(x)'
    BY DEF RunningInv
  <2>1. OnStack(x)
    BY DEF PoolInv, RunningInv, Queues
  <2> QED
    BY <2>1 DEF OnStack, MovesOn
<1>7. FreshInv'
  <2> SUFFICES ASSUME NEW x \in Tasks, NEW u \in Tasks, NEW k \in 1 .. Len(Program[x]),
                      Submits(x, k, u), status'[u] # "new"
               PROVE  Passed(x, k)'
    BY DEF FreshInv, Submits
  <2>1. CASE status[u] # "new"
    BY <1>5, <2>1, PoolAssumption DEF PoolInv, FreshInv
  <2>2. CASE status[u] = "new"
    BY <2>2 DEF Queues
  <2> QED
    BY <2>1, <2>2
<1>8. BegunInv'
  <2>1. ASSUME NEW a \in 1 .. Len(begun) PROVE status'[begun[a]] \in {"running", "done"}
    <3>1. begun[a] \in Tasks
      BY DEF PoolInv, TypeOK
    <3> QED
      BY <3>1 DEF PoolInv, BegunInv, Queues
  <2>2. ASSUME NEW x \in Tasks, status'[x] \in {"running", "done"}
        PROVE  \E a \in 1 .. Len(begun) : begun[a] = x
    BY <2>2 DEF PoolInv, BegunInv, Queues
  <2>3. ASSUME NEW u \in Threads, NEW i \in 1 .. Len(stack'[u]), NEW j \in 1 .. Len(stack'[u]),
               NEW a \in 1 .. Len(begun), NEW b \in 1 .. Len(begun),
               i < j, begun[a] = stack'[u][i].task, begun[b] = stack'[u][j].task
        PROVE  a < b
    <3>1. /\ i \in 1 .. Len(stack[u]) /\ j \in 1 .. Len(stack[u])
          /\ begun[a] = stack[u][i].task /\ begun[b] = stack[u][j].task
      BY <2>3 DEF MovesOn
    <3> QED
      BY <2>3, <3>1 DEF PoolInv, BegunInv
  <2> QED
    BY <2>1, <2>2, <2>3 DEF PoolInv, BegunInv, Submits
<1> QED
  BY <1>4, <1>6, <1>7, <1>8 DEF StackInv

\* The task on top ends.
LEMMA FinishKeeps ==
  ASSUME PoolInv, NEW w \in Threads, Finish(w)
  PROVE  /\ StackTypes' /\ StackInv'
         /\ status[Top(w).task] = "running" /\ Top(w).task \in Tasks
         /\ status' = [status EXCEPT ![Top(w).task] = "done"]
<1> DEFINE n == Len(stack[w])
           t == Top(w).task
<1>0. StackTypes
  BY DEF PoolInv, TypeOK, StackTypes
<1>1. /\ Running(w) /\ AtEnd(w)
      /\ status' = [status EXCEPT ![t] = "done"]
      /\ stack' = [stack EXCEPT ![w] = Front(@)]
      /\ pc' = [pc EXCEPT ![w] = IF n = 1 THEN base[w] ELSE "run"]
      /\ UNCHANGED <<base, begun>>
  BY DEF Finish
<1>2. /\ stack[w] # <<>> /\ n \in 1 .. n /\ Top(w) = stack[w][n] /\ Top(w) \in Frames
      /\ status[t] = "running" /\ t \in Tasks
  BY <1>1, TopFacts DEF PoolInv, Frames
<1>3. /\ stack' \in [Threads -> Seq(Frames)]
      /\ n \in Nat \ {0} /\ Len(stack'[w]) = n - 1
      /\ \A i \in 1 .. n - 1 : stack'[w][i] = stack[w][i]
      /\ \A u \in Threads : u # w => stack'[u] = stack[u]
  BY <1>0, <1>1, <1>2, PopFrame DEF StackTypes
<1>4. /\ status'[t] = "done"
      /\ \A x \in Tasks : x # t => status'[x] = status[x]
  BY <1>0, <1>1, <1>2 DEF StackTypes
<1>5. StackTypes'
  <2>1. pc' \in [Threads -> {"up", "own", "sub", "steal", "check", "drain_deque", "drain_subq",
                             "exit", "run", "join", "final_deques", "final_subqs", "gone"}]
    BY <1>0, <1>1 DEF StackTypes
  <2>2. status' \in [Tasks -> {"new", "queued", "running", "done"}]
    BY <1>0, <1>1 DEF StackTypes
  <2> QED
    BY <1>0, <1>1, <1>3, <2>1, <2>2 DEF StackTypes
\* The frames that are left are those of the other tasks.
<1>6. \A u \in Threads : \A i \in 1 .. Len(stack'[u]) :
        /\ i \in 1 .. Len(stack[u]) /\ stack'[u][i] = stack[u][i]
        /\ ~(u = w /\ i = n)
  <2> TAKE u \in Threads
  <2>1. CASE u = w
    BY <1>3, <2>1
  <2>2. CASE u # w
    BY <1>3, <2>2
  <2> QED
    BY <2>1, <2>2
<1>7. \A u \in Threads : \A i \in 1 .. Len(stack[u]) :
        \/ u = w /\ i = n
        \/ i \in 1 .. Len(stack'[u]) /\ stack'[u][i] = stack[u][i]
  <2> TAKE u \in Threads
  <2>1. CASE u = w
    BY <1>3, <2>1
  <2>2. CASE u # w
    BY <1>3, <2>2
  <2> QED
    BY <2>1, <2>2
<1>8. \A u \in Threads : \A i \in 1 .. Len(stack[u]) : stack[u][i].task \in Tasks
  <2> TAKE u \in Threads
  <2> TAKE i \in 1 .. Len(stack[u])
  <2>1. stack[u] \in Seq(Frames)
    BY <1>0 DEF StackTypes
  <2>2. stack[u][i] \in Frames
    BY <2>1
  <2> QED
    BY <2>2 DEF Frames
<1>9. \A u \in Threads : \A i \in 1 .. Len(stack'[u]) : stack'[u][i].task # t
  <2> TAKE u \in Threads
  <2> TAKE i \in 1 .. Len(stack'[u])
  <2>1. i \in 1 .. Len(stack[u]) /\ stack'[u][i] = stack[u][i] /\ ~(u = w /\ i = n)
    BY <1>6
  <2>2. FrameInv
    BY DEF PoolInv
  <2> QED
    BY <1>2, <2>1, <2>2 DEF FrameInv
<1> HIDE DEF n, t
<1>10. FrameInv'
  <2>1. ASSUME NEW u \in Threads, NEW i \in 1 .. Len(stack'[u])
        PROVE  /\ status'[stack'[u][i].task] = "running"
               /\ stack'[u][i].at \in 1 .. Len(Program[stack'[u][i].task]) + 1
    <3>1. i \in 1 .. Len(stack[u]) /\ stack'[u][i] = stack[u][i] /\ stack[u][i].task # t
      BY <1>6, <1>9
    <3>2. status'[stack[u][i].task] = status[stack[u][i].task]
      BY <1>4, <1>8, <3>1
    <3> QED
      BY <3>1, <3>2 DEF PoolInv, FrameInv
  <2>2. ASSUME NEW u \in Threads, NEW v \in Threads, NEW i \in 1 .. Len(stack'[u]),
               NEW j \in 1 .. Len(stack'[v]), stack'[u][i].task = stack'[v][j].task
        PROVE  u = v /\ i = j
    <3>1. i \in 1 .. Len(stack[u]) /\ stack'[u][i] = stack[u][i]
      BY <1>6
    <3>2. j \in 1 .. Len(stack[v]) /\ stack'[v][j] = stack[v][j]
      BY <1>6
    <3> QED
      BY <2>2, <3>1, <3>2 DEF PoolInv, FrameInv
  <2>3. ASSUME NEW u \in Threads, pc'[u] = "run" PROVE stack'[u] # <<>>
    <3>1. CASE u = w
      <4>1. n # 1
        BY <1>0, <1>1, <2>3, <3>1 DEF StackTypes
      <4> QED
        BY <1>3, <3>1, <4>1
    <3>2. CASE u # w
      BY <1>0, <1>1, <1>3, <2>3, <3>2 DEF PoolInv, FrameInv, StackTypes
    <3> QED
      BY <3>1, <3>2
  <2> QED
    BY <2>1, <2>2, <2>3 DEF FrameInv
<1>11. ASSUME NEW x \in Tasks, NEW k \in Nat, Passed(x, k) PROVE Passed(x, k)'
  <2>1. CASE status'[x] = "done"
    BY <2>1 DEF Passed
  <2>2. CASE status'[x] # "done"
    <3>1. x # t /\ status[x] # "done"
      BY <1>4, <2>2
    <3>4. PICK u \in Threads : \E i \in 1 .. Len(stack[u]) : stack[u][i].task = x /\ k < stack[u][i].at
      BY <1>11, <3>1 DEF Passed
    <3>2. PICK i \in 1 .. Len(stack[u]) : stack[u][i].task = x /\ k < stack[u][i].at
      BY <3>4
    <3>3. ~(u = w /\ i = n)
      BY <1>2, <3>1, <3>2 DEF n, t
    <3> QED
      BY <1>7, <3>2, <3>3 DEF Passed
  <2> QED
    BY <2>1, <2>2
<1>12. RunningInv'
  <2> SUFFICES ASSUME NEW x \in Tasks, status'[x] = "running" PROVE OnStack(x)'
    BY DEF RunningInv
  <2>1. x # t /\ OnStack(x)
    BY <1>4 DEF PoolInv, RunningInv
  <2>4. PICK u \in Threads : \E i \in 1 .. Len(stack[u]) : stack[u][i].task = x
    BY <2>1 DEF OnStack
  <2>2. PICK i \in 1 .. Len(stack[u]) : stack[u][i].task = x
    BY <2>4
  <2>3. ~(u = w /\ i = n)
    BY <1>2, <2>1, <2>2 DEF n, t
  <2> QED
    BY <1>7, <2>2, <2>3 DEF OnStack
<1>13. FreshInv'
  <2> SUFFICES ASSUME NEW x \in Tasks, NEW u \in Tasks, NEW k \in 1 .. Len(Program[x]),
                      Submits(x, k, u), status'[u] # "new"
               PROVE  Passed(x, k)'
    BY DEF FreshInv, Submits
  <2>1. status[u] # "new"
    BY <1>2, <1>4 DEF t
  <2> QED
    BY <1>11, <2>1, PoolAssumption DEF PoolInv, FreshInv
<1>14. BegunInv'
  <2>1. ASSUME NEW a \in 1 .. Len(begun) PROVE status'[begun[a]] \in {"running", "done"}
    <3>1. begun[a] \in Tasks
      BY DEF PoolInv, TypeOK
    <3> QED
      BY <1>4, <3>1 DEF PoolInv, BegunInv
  <2>2. ASSUME NEW x \in Tasks, status'[x] \in {"running", "done"}
        PROVE  \E a \in 1 .. Len(begun) : begun[a] = x
    BY <1>2, <1>4, <2>2 DEF PoolInv, BegunInv, t
  <2>3. ASSUME NEW u \in Threads, NEW i \in 1 .. Len(stack'[u]), NEW j \in 1 .. Len(stack'[u]),
               NEW a \in 1 .. Len(begun), NEW b \in 1 .. Len(begun),
               i < j, begun[a] = stack'[u][i].task, begun[b] = stack'[u][j].task
        PROVE  a < b
    <3>1. i \in 1 .. Len(stack[u]) /\ stack'[u][i] = stack[u][i]
      BY <1>6
    <3>2. j \in 1 .. Len(stack[u]) /\ stack'[u][j] = stack[u][j]
      BY <1>6
    <3> QED
      BY <2>3, <3>1, <3>2 DEF PoolInv, BegunInv
  <2>4. BegunInv /\ begun' = begun
    BY <1>1 DEF PoolInv
  <2> QED
    BY <2>1, <2>2, <2>3, <2>4 DEF BegunInv, Submits
<1> QED
  BY <1>1, <1>2, <1>5, <1>10, <1>12, <1>13, <1>14 DEF StackInv, t

-----------------------------------------------------------------------------
\* The queues: nothing changes for them, one task is taken, or one is added.
LEMMA QueuesKept ==
  ASSUME PoolInv, UNCHANGED <<deque, subq>>,
         \A x \in Tasks : status'[x] = "queued" <=> status[x] = "queued"
  PROVE  QueueInv' /\ PlaceInv'
<1>1. \A v \in Workers : /\ \A k \in 1 .. Len(deque[v]) : deque[v][k] \in Tasks
                         /\ \A k \in 1 .. Len(subq[v]) : subq[v][k] \in Tasks
  <2> TAKE v \in Workers
  <2>1. deque[v] \in Seq(Tasks) /\ subq[v] \in Seq(Tasks)
    BY DEF PoolInv, TypeOK
  <2> QED
    BY <2>1
<1>2. QueueInv'
  BY <1>1 DEF PoolInv, QueueInv
<1>3. PlaceInv'
  BY DEF PoolInv, PlaceInv, InDeque, InSubq
<1> QED
  BY <1>2, <1>3

\* Task t is taken; d and e say how far the rest of each queue moves up.
Taken(t, d, e) ==
  /\ \A u \in Workers : \A k \in 1 .. Len(deque'[u]) :
       k + d[u] \in 1 .. Len(deque[u]) /\ deque'[u][k] = deque[u][k + d[u]] /\ deque'[u][k] # t
  /\ \A u \in Workers : \A k \in 1 .. Len(subq'[u]) :
       k + e[u] \in 1 .. Len(subq[u]) /\ subq'[u][k] = subq[u][k + e[u]] /\ subq'[u][k] # t
  /\ \A u \in Workers : \A k \in 1 .. Len(deque[u]) :
       deque[u][k] = t \/ \E j \in 1 .. Len(deque'[u]) : deque'[u][j] = deque[u][k]
  /\ \A u \in Workers : \A k \in 1 .. Len(subq[u]) :
       subq[u][k] = t \/ \E j \in 1 .. Len(subq'[u]) : subq'[u][j] = subq[u][k]

LEMMA QueuesTaken ==
  ASSUME PoolInv, NEW t \in Tasks, status' = [status EXCEPT ![t] = "running"],
         NEW d \in [Workers -> {0, 1}], NEW e \in [Workers -> {0, 1}], Taken(t, d, e)
  PROVE  QueueInv' /\ PlaceInv'
<1>0. \A v \in Workers : /\ \A k \in 1 .. Len(deque[v]) : deque[v][k] \in Tasks
                         /\ \A k \in 1 .. Len(subq[v]) : subq[v][k] \in Tasks
                         /\ d[v] \in Int /\ e[v] \in Int
  <2> TAKE v \in Workers
  <2>1. deque[v] \in Seq(Tasks) /\ subq[v] \in Seq(Tasks)
    BY DEF PoolInv, TypeOK
  <2> QED
    BY <2>1
<1>1. \A x \in Tasks : x # t => status'[x] = status[x]
  BY DEF PoolInv, TypeOK
<1>8. /\ \A v \in Workers : \A k \in 1 .. Len(deque[v]) : status[deque[v][k]] = "queued"
      /\ \A v \in Workers : \A k \in 1 .. Len(subq[v]) : status[subq[v][k]] = "queued"
      /\ \A v, u \in Workers : \A k \in 1 .. Len(deque[v]), j \in 1 .. Len(deque[u]) :
           deque[v][k] = deque[u][j] => v = u /\ k = j
      /\ \A v, u \in Workers : \A k \in 1 .. Len(subq[v]), j \in 1 .. Len(subq[u]) :
           subq[v][k] = subq[u][j] => v = u /\ k = j
  BY Zenon DEF PoolInv, QueueInv
<1>2. ASSUME NEW v \in Workers, NEW k \in 1 .. Len(deque'[v]) PROVE status'[deque'[v][k]] = "queued"
  <2>2. PICK a \in 1 .. Len(deque[v]) : deque'[v][k] = deque[v][a]
    BY DEF Taken
  <2>1. status[deque[v][a]] = "queued" /\ deque[v][a] \in Tasks
    BY <1>0, <1>8
  <2>3. deque[v][a] # t
    BY <2>2 DEF Taken
  <2> QED
    BY <1>1, <2>1, <2>2, <2>3
<1>3. ASSUME NEW v \in Workers, NEW k \in 1 .. Len(subq'[v]) PROVE status'[subq'[v][k]] = "queued"
  <2>2. PICK a \in 1 .. Len(subq[v]) : subq'[v][k] = subq[v][a]
    BY DEF Taken
  <2>1. status[subq[v][a]] = "queued" /\ subq[v][a] \in Tasks
    BY <1>0, <1>8
  <2>3. subq[v][a] # t
    BY <2>2 DEF Taken
  <2> QED
    BY <1>1, <2>1, <2>2, <2>3
<1>4. ASSUME NEW v \in Workers, NEW u \in Workers, NEW k \in 1 .. Len(deque'[v]),
             NEW j \in 1 .. Len(deque'[u]), deque'[v][k] = deque'[u][j]
      PROVE  v = u /\ k = j
  <2>1. PICK a \in 1 .. Len(deque[v]) : a = k + d[v] /\ deque'[v][k] = deque[v][a]
    BY DEF Taken
  <2>2. PICK b \in 1 .. Len(deque[u]) : b = j + d[u] /\ deque'[u][j] = deque[u][b]
    BY DEF Taken
  <2>3. deque[v][a] = deque[u][b]
    BY <1>4, <2>1, <2>2
  <2>4. v = u /\ a = b
    BY <1>8, <2>3
  <2> QED
    BY <1>0, <2>1, <2>2, <2>4
<1>5. ASSUME NEW v \in Workers, NEW u \in Workers, NEW k \in 1 .. Len(subq'[v]),
             NEW j \in 1 .. Len(subq'[u]), subq'[v][k] = subq'[u][j]
      PROVE  v = u /\ k = j
  <2>1. PICK a \in 1 .. Len(subq[v]) : a = k + e[v] /\ subq'[v][k] = subq[v][a]
    BY DEF Taken
  <2>2. PICK b \in 1 .. Len(subq[u]) : b = j + e[u] /\ subq'[u][j] = subq[u][b]
    BY DEF Taken
  <2>3. subq[v][a] = subq[u][b]
    BY <1>5, <2>1, <2>2
  <2>4. v = u /\ a = b
    BY <1>8, <2>3
  <2> QED
    BY <1>0, <2>1, <2>2, <2>4
<1>6. ASSUME NEW v \in Workers, NEW u \in Workers, NEW k \in 1 .. Len(deque'[v]),
             NEW j \in 1 .. Len(subq'[u])
      PROVE  deque'[v][k] # subq'[u][j]
  <2>1. k + d[v] \in 1 .. Len(deque[v]) /\ deque'[v][k] = deque[v][k + d[v]]
    BY DEF Taken
  <2>2. j + e[u] \in 1 .. Len(subq[u]) /\ subq'[u][j] = subq[u][j + e[u]]
    BY DEF Taken
  <2> QED
    BY <2>1, <2>2 DEF PoolInv, QueueInv
<1>7. PlaceInv'
  <2> SUFFICES ASSUME NEW x \in Tasks, status'[x] = "queued" PROVE InDeque(x)' \/ InSubq(x)'
    BY DEF PlaceInv
  <2>1. x # t
    BY DEF PoolInv, TypeOK
  <2>2. InDeque(x) \/ InSubq(x)
    BY <1>1, <2>1 DEF PoolInv, PlaceInv
  <2>3. ASSUME InDeque(x) PROVE InDeque(x)'
    <3>1. PICK v \in Workers : \E k \in 1 .. Len(deque[v]) : deque[v][k] = x
      BY <2>3 DEF InDeque
    <3>2. \E j \in 1 .. Len(deque'[v]) : deque'[v][j] = x
      BY <2>1, <3>1 DEF Taken
    <3> QED
      BY <3>2 DEF InDeque
  <2>4. ASSUME InSubq(x) PROVE InSubq(x)'
    <3>1. PICK v \in Workers : \E k \in 1 .. Len(subq[v]) : subq[v][k] = x
      BY <2>4 DEF InSubq
    <3>2. \E j \in 1 .. Len(subq'[v]) : subq'[v][j] = x
      BY <2>1, <3>1 DEF Taken
    <3> QED
      BY <3>2 DEF InSubq
  <2> QED
    BY <2>2, <2>3, <2>4
<1> QED
  BY <1>2, <1>3, <1>4, <1>5, <1>6, <1>7 DEF QueueInv

-----------------------------------------------------------------------------
(***************************************************************************)
(* The steps of the pool keep PoolInv.                                     *)
(***************************************************************************)
\* A task is taken from the bottom of a deque.
LEMMA PopBottomKeeps ==
  ASSUME PoolInv, NEW w \in Threads, NEW v \in Workers, pc[w] \in Taking, PopBottom(w, v)
  PROVE  /\ PoolInv'
         /\ deque[v][Len(deque[v])] \in Tasks /\ status[deque[v][Len(deque[v])]] = "queued"
<1> DEFINE n == Len(deque[v])
           t == deque[v][Len(deque[v])]
           d == [u \in Workers |-> 0]
           e == [u \in Workers |-> 0]
<1>0. TypeOK /\ QueueInv
  BY DEF PoolInv
<1>1. deque[v] \in Seq(Tasks) /\ deque[v] # <<>>
  BY <1>0 DEF TypeOK, PopBottom
<1>2. n \in Nat \ {0} /\ t \in Tasks /\ deque[v][Len(deque[v])] = t
  BY <1>1
<1>3. /\ Front(deque[v]) \in Seq(Tasks) /\ Len(Front(deque[v])) = n - 1
      /\ \A k \in 1 .. Len(deque[v]) - 1 : Front(deque[v])[k] = deque[v][k]
  BY <1>1, FrontFacts
<1>4. /\ deque' = [deque EXCEPT ![v] = Front(deque[v])] /\ UNCHANGED subq
      /\ UNCHANGED <<unlinked, next, cursor>> /\ Begin(w, t)
  BY <1>2 DEF PopBottom, WithoutBottom
<1>5. /\ deque' \in [Workers -> Seq(Tasks)] /\ deque'[v] = Front(deque[v])
      /\ \A u \in Workers : u # v => deque'[u] = deque[u]
  BY <1>0, <1>3, <1>4 DEF TypeOK
<1>6. status[t] = "queued"
  BY <1>0, <1>2 DEF QueueInv
<1>7. \A u \in Workers : Len(deque[u]) \in Nat /\ Len(subq[u]) \in Nat
  <2> TAKE u \in Workers
  <2>1. deque[u] \in Seq(Tasks) /\ subq[u] \in Seq(Tasks)
    BY <1>0 DEF TypeOK
  <2> QED
    BY <2>1
<1>8. \A u \in Workers : \A k \in 1 .. Len(deque'[u]) :
        k + d[u] \in 1 .. Len(deque[u]) /\ deque'[u][k] = deque[u][k + d[u]] /\ deque'[u][k] # t
  <2> TAKE u \in Workers
  <2> TAKE k \in 1 .. Len(deque'[u])
  <2>1. k + d[u] \in 1 .. Len(deque[u]) /\ deque'[u][k] = deque[u][k + d[u]]
    <3>1. CASE u = v
      BY <1>2, <1>3, <1>5, <3>1
    <3>2. CASE u # v
      BY <1>5, <1>7, <3>2
    <3> QED
      BY <3>1, <3>2
  <2>2. u = v => k + d[u] # n
    BY <1>2, <1>3, <1>5
  <2>3. PICK a \in 1 .. Len(deque[u]) : a = k + d[u] /\ deque'[u][k] = deque[u][a]
    BY <2>1
  <2>4. deque[u][a] # t
    BY <1>0, <1>2, <2>2, <2>3 DEF QueueInv
  <2> QED
    BY <2>1, <2>3, <2>4
<1>9. \A u \in Workers : \A k \in 1 .. Len(subq'[u]) :
        /\ k + e[u] \in 1 .. Len(subq[u]) /\ subq'[u][k] = subq[u][k + e[u]]
        /\ subq'[u][k] # t
  <2> TAKE u \in Workers
  <2> TAKE k \in 1 .. Len(subq'[u])
  <2>1. k + e[u] \in 1 .. Len(subq[u]) /\ subq'[u][k] = subq[u][k + e[u]]
    BY <1>0, <1>4, <1>7
  <2>2. subq[u][k + e[u]] # t
    BY <1>0, <1>2, <2>1 DEF QueueInv
  <2> QED
    BY <2>1, <2>2
<1>10. \A u \in Workers : \A k \in 1 .. Len(deque[u]) :
         deque[u][k] = t \/ \E j \in 1 .. Len(deque'[u]) : deque'[u][j] = deque[u][k]
  <2> TAKE u \in Workers
  <2> TAKE k \in 1 .. Len(deque[u])
  <2>1. CASE u # v
    BY <1>5, <2>1
  <2>2. CASE u = v /\ k # n
    <3>1. k \in 1 .. n - 1 /\ deque'[u][k] = deque[u][k]
      BY <1>2, <1>3, <1>5, <2>2
    <3> QED
      BY <1>3, <1>5, <2>2, <3>1
  <2> QED
    BY <2>1, <2>2
<1>11. \A u \in Workers : \A k \in 1 .. Len(subq[u]) :
         subq[u][k] = t \/ \E j \in 1 .. Len(subq'[u]) : subq'[u][j] = subq[u][k]
  BY <1>4
<1>12. d \in [Workers -> {0, 1}] /\ e \in [Workers -> {0, 1}]
  OBVIOUS
<1>13. status' = [status EXCEPT ![t] = "running"]
  BY <1>4 DEF Begin
<1> HIDE DEF d, e, t, n
<1>14. QueueInv' /\ PlaceInv'
  <2>1. Taken(t, d, e)
    BY <1>8, <1>9, <1>10, <1>11 DEF Taken
  <2> QED
    BY <1>2, <1>12, <1>13, <2>1, QueuesTaken
<1>15. StackTypes' /\ StackInv'
  BY <1>2, <1>4, <1>6, BeginKeeps
<1>16. TypeOK'
  BY <1>0, <1>4, <1>5, <1>15 DEF TypeOK, StackTypes
<1> QED
  BY <1>2, <1>6, <1>14, <1>15, <1>16 DEF PoolInv, StackInv

\* ... from a submission queue.
LEMMA PopSubqKeeps ==
  ASSUME PoolInv, NEW w \in Threads, NEW v \in Workers, pc[w] \in Taking, PopSubq(w, v)
  PROVE  /\ PoolInv'
         /\ Head(subq[v]) \in Tasks /\ status[Head(subq[v])] = "queued"
<1> DEFINE n == Len(subq[v])
           t == subq[v][1]
           d == [u \in Workers |-> 0]
           e == [u \in Workers |-> IF u = v THEN 1 ELSE 0]
<1>0. TypeOK /\ QueueInv
  BY DEF PoolInv
<1>1. subq[v] \in Seq(Tasks) /\ subq[v] # <<>>
  BY <1>0 DEF TypeOK, PopSubq, SubqReady
<1>2. n \in Nat \ {0} /\ t \in Tasks /\ Head(subq[v]) = t
  BY <1>1
<1>3. /\ Tail(subq[v]) \in Seq(Tasks) /\ Len(Tail(subq[v])) = n - 1
      /\ \A k \in 1 .. Len(subq[v]) - 1 : Tail(subq[v])[k] = subq[v][k + 1]
  BY <1>1
<1>4. /\ subq' = [subq EXCEPT ![v] = Tail(subq[v])] /\ UNCHANGED deque
      /\ UNCHANGED <<unlinked, next, cursor>> /\ Begin(w, t)
  BY <1>2 DEF PopSubq
<1>5. /\ subq' \in [Workers -> Seq(Tasks)] /\ subq'[v] = Tail(subq[v])
      /\ \A u \in Workers : u # v => subq'[u] = subq[u]
  BY <1>0, <1>3, <1>4 DEF TypeOK
<1>6. status[t] = "queued"
  BY <1>0, <1>2 DEF QueueInv
<1>7. \A u \in Workers : Len(deque[u]) \in Nat /\ Len(subq[u]) \in Nat
  <2> TAKE u \in Workers
  <2>1. deque[u] \in Seq(Tasks) /\ subq[u] \in Seq(Tasks)
    BY <1>0 DEF TypeOK
  <2> QED
    BY <2>1
<1>8. \A u \in Workers : \A k \in 1 .. Len(subq'[u]) :
        k + e[u] \in 1 .. Len(subq[u]) /\ subq'[u][k] = subq[u][k + e[u]] /\ subq'[u][k] # t
  <2> TAKE u \in Workers
  <2> TAKE k \in 1 .. Len(subq'[u])
  <2>1. k + e[u] \in 1 .. Len(subq[u]) /\ subq'[u][k] = subq[u][k + e[u]]
    <3>1. CASE u = v
      <4>1. k \in 1 .. n - 1 /\ e[u] = 1 /\ subq'[u] = Tail(subq[v])
        BY <1>3, <1>5, <3>1
      <4>2. k + 1 \in 1 .. n
        BY <1>2, <4>1
      <4> QED
        BY <1>3, <3>1, <4>1, <4>2
    <3>2. CASE u # v
      BY <1>5, <1>7, <3>2
    <3> QED
      BY <3>1, <3>2
  <2>2. u = v => k + e[u] # 1
    BY <1>2, <1>3, <1>5
  <2>3. PICK a \in 1 .. Len(subq[u]) : a = k + e[u] /\ subq'[u][k] = subq[u][a]
    BY <2>1
  <2>4. subq[u][a] # t
    BY <1>0, <1>2, <2>2, <2>3 DEF QueueInv
  <2> QED
    BY <2>1, <2>3, <2>4
<1>9. \A u \in Workers : \A k \in 1 .. Len(deque'[u]) :
        /\ k + d[u] \in 1 .. Len(deque[u]) /\ deque'[u][k] = deque[u][k + d[u]]
        /\ deque'[u][k] # t
  <2> TAKE u \in Workers
  <2> TAKE k \in 1 .. Len(deque'[u])
  <2>1. k + d[u] \in 1 .. Len(deque[u]) /\ deque'[u][k] = deque[u][k + d[u]]
    BY <1>0, <1>4, <1>7
  <2>2. deque[u][k + d[u]] # t
    BY <1>0, <1>2, <2>1 DEF QueueInv
  <2> QED
    BY <2>1, <2>2
<1>10. \A u \in Workers : \A k \in 1 .. Len(subq[u]) :
         subq[u][k] = t \/ \E j \in 1 .. Len(subq'[u]) : subq'[u][j] = subq[u][k]
  <2> TAKE u \in Workers
  <2> TAKE k \in 1 .. Len(subq[u])
  <2>1. CASE u # v
    BY <1>5, <2>1
  <2>2. CASE u = v /\ k # 1
    <3>1. k - 1 \in 1 .. n - 1 /\ (k - 1) + 1 = k
      BY <1>2, <2>2
    <3>2. Tail(subq[v])[k - 1] = subq[v][(k - 1) + 1]
      BY <1>3, <3>1
    <3>3. Tail(subq[v])[k - 1] = subq[v][k]
      BY <3>1, <3>2
    <3> QED
      BY <1>3, <1>5, <2>2, <3>1, <3>3
  <2> QED
    BY <2>1, <2>2
<1>11. \A u \in Workers : \A k \in 1 .. Len(deque[u]) :
         deque[u][k] = t \/ \E j \in 1 .. Len(deque'[u]) : deque'[u][j] = deque[u][k]
  BY <1>4
<1>12. d \in [Workers -> {0, 1}] /\ e \in [Workers -> {0, 1}]
  OBVIOUS
<1>13. status' = [status EXCEPT ![t] = "running"]
  BY <1>4 DEF Begin
<1> HIDE DEF d, e, t, n
<1>14. QueueInv' /\ PlaceInv'
  <2>1. Taken(t, d, e)
    BY <1>8, <1>9, <1>10, <1>11 DEF Taken
  <2> QED
    BY <1>2, <1>12, <1>13, <2>1, QueuesTaken
<1>15. StackTypes' /\ StackInv'
  BY <1>2, <1>4, <1>6, BeginKeeps
<1>16. TypeOK'
  BY <1>0, <1>4, <1>5, <1>15 DEF TypeOK, StackTypes
<1> QED
  BY <1>2, <1>6, <1>14, <1>15, <1>16 DEF PoolInv, StackInv

\* ... from the top of another worker's deque.
LEMMA StealKeeps ==
  ASSUME PoolInv, NEW w \in Threads, NEW v \in Workers, pc[w] \in Taking, StealFrom(w, v)
  PROVE  /\ PoolInv'
         /\ Head(deque[v]) \in Tasks /\ status[Head(deque[v])] = "queued"
<1> DEFINE n == Len(deque[v])
           t == deque[v][1]
           d == [u \in Workers |-> IF u = v THEN 1 ELSE 0]
           e == [u \in Workers |-> 0]
<1>0. TypeOK /\ QueueInv
  BY DEF PoolInv
<1>1. deque[v] \in Seq(Tasks) /\ deque[v] # <<>>
  BY <1>0 DEF TypeOK, StealFrom
<1>2. n \in Nat \ {0} /\ t \in Tasks /\ Head(deque[v]) = t
  BY <1>1
<1>3. /\ Tail(deque[v]) \in Seq(Tasks) /\ Len(Tail(deque[v])) = n - 1
      /\ \A k \in 1 .. Len(deque[v]) - 1 : Tail(deque[v])[k] = deque[v][k + 1]
  BY <1>1
<1>4. /\ deque' = [deque EXCEPT ![v] = Tail(deque[v])] /\ UNCHANGED subq
      /\ UNCHANGED <<unlinked, next, cursor>> /\ Begin(w, t)
  BY <1>2 DEF StealFrom
<1>5. /\ deque' \in [Workers -> Seq(Tasks)] /\ deque'[v] = Tail(deque[v])
      /\ \A u \in Workers : u # v => deque'[u] = deque[u]
  BY <1>0, <1>3, <1>4 DEF TypeOK
<1>6. status[t] = "queued"
  BY <1>0, <1>2 DEF QueueInv
<1>7. \A u \in Workers : Len(deque[u]) \in Nat /\ Len(subq[u]) \in Nat
  <2> TAKE u \in Workers
  <2>1. deque[u] \in Seq(Tasks) /\ subq[u] \in Seq(Tasks)
    BY <1>0 DEF TypeOK
  <2> QED
    BY <2>1
<1>8. \A u \in Workers : \A k \in 1 .. Len(deque'[u]) :
        k + d[u] \in 1 .. Len(deque[u]) /\ deque'[u][k] = deque[u][k + d[u]] /\ deque'[u][k] # t
  <2> TAKE u \in Workers
  <2> TAKE k \in 1 .. Len(deque'[u])
  <2>1. k + d[u] \in 1 .. Len(deque[u]) /\ deque'[u][k] = deque[u][k + d[u]]
    <3>1. CASE u = v
      <4>1. k \in 1 .. n - 1 /\ d[u] = 1 /\ deque'[u] = Tail(deque[v])
        BY <1>3, <1>5, <3>1
      <4>2. k + 1 \in 1 .. n
        BY <1>2, <4>1
      <4> QED
        BY <1>3, <3>1, <4>1, <4>2
    <3>2. CASE u # v
      BY <1>5, <1>7, <3>2
    <3> QED
      BY <3>1, <3>2
  <2>2. u = v => k + d[u] # 1
    BY <1>2, <1>3, <1>5
  <2>3. PICK a \in 1 .. Len(deque[u]) : a = k + d[u] /\ deque'[u][k] = deque[u][a]
    BY <2>1
  <2>4. deque[u][a] # t
    BY <1>0, <1>2, <2>2, <2>3 DEF QueueInv
  <2> QED
    BY <2>1, <2>3, <2>4
<1>9. \A u \in Workers : \A k \in 1 .. Len(subq'[u]) :
        /\ k + e[u] \in 1 .. Len(subq[u]) /\ subq'[u][k] = subq[u][k + e[u]]
        /\ subq'[u][k] # t
  <2> TAKE u \in Workers
  <2> TAKE k \in 1 .. Len(subq'[u])
  <2>1. k + e[u] \in 1 .. Len(subq[u]) /\ subq'[u][k] = subq[u][k + e[u]]
    BY <1>0, <1>4, <1>7
  <2>2. subq[u][k + e[u]] # t
    BY <1>0, <1>2, <2>1 DEF QueueInv
  <2> QED
    BY <2>1, <2>2
<1>10. \A u \in Workers : \A k \in 1 .. Len(deque[u]) :
         deque[u][k] = t \/ \E j \in 1 .. Len(deque'[u]) : deque'[u][j] = deque[u][k]
  <2> TAKE u \in Workers
  <2> TAKE k \in 1 .. Len(deque[u])
  <2>1. CASE u # v
    BY <1>5, <2>1
  <2>2. CASE u = v /\ k # 1
    <3>1. k - 1 \in 1 .. n - 1 /\ (k - 1) + 1 = k
      BY <1>2, <2>2
    <3>2. Tail(deque[v])[k - 1] = deque[v][(k - 1) + 1]
      BY <1>3, <3>1
    <3>3. Tail(deque[v])[k - 1] = deque[v][k]
      BY <3>1, <3>2
    <3> QED
      BY <1>3, <1>5, <2>2, <3>1, <3>3
  <2> QED
    BY <2>1, <2>2
<1>11. \A u \in Workers : \A k \in 1 .. Len(subq[u]) :
         subq[u][k] = t \/ \E j \in 1 .. Len(subq'[u]) : subq'[u][j] = subq[u][k]
  BY <1>4
<1>12. d \in [Workers -> {0, 1}] /\ e \in [Workers -> {0, 1}]
  OBVIOUS
<1>13. status' = [status EXCEPT ![t] = "running"]
  BY <1>4 DEF Begin
<1> HIDE DEF d, e, t, n
<1>14. QueueInv' /\ PlaceInv'
  <2>1. Taken(t, d, e)
    BY <1>8, <1>9, <1>10, <1>11 DEF Taken
  <2> QED
    BY <1>2, <1>12, <1>13, <2>1, QueuesTaken
<1>15. StackTypes' /\ StackInv'
  BY <1>2, <1>4, <1>6, BeginKeeps
<1>16. TypeOK'
  BY <1>0, <1>4, <1>5, <1>15 DEF TypeOK, StackTypes
<1> QED
  BY <1>2, <1>6, <1>14, <1>15, <1>16 DEF PoolInv, StackInv

\* A new task goes to the bottom of a deque ...
LEMMA DequeAdded ==
  ASSUME PoolInv, NEW v \in Workers, NEW t \in Tasks, status[t] = "new",
         status' = [status EXCEPT ![t] = "queued"],
         deque' = [deque EXCEPT ![v] = Append(@, t)], UNCHANGED subq
  PROVE  deque' \in [Workers -> Seq(Tasks)] /\ QueueInv' /\ PlaceInv'
<1> DEFINE n == Len(deque[v])
<1>0. /\ TypeOK /\ QueueInv /\ deque[v] \in Seq(Tasks)
      /\ \A u \in Workers : deque[u] \in Seq(Tasks) /\ subq[u] \in Seq(Tasks)
  BY DEF PoolInv, TypeOK
<1>1. \A u \in Workers : /\ \A k \in 1 .. Len(deque[u]) : deque[u][k] \in Tasks /\ deque[u][k] # t
                         /\ \A k \in 1 .. Len(subq[u]) : subq[u][k] \in Tasks /\ subq[u][k] # t
  <2> TAKE u \in Workers
  <2>1. \A k \in 1 .. Len(deque[u]) : deque[u][k] \in Tasks
    BY <1>0
  <2>2. \A k \in 1 .. Len(subq[u]) : subq[u][k] \in Tasks
    BY <1>0
  <2> QED
    BY <1>0, <2>1, <2>2 DEF QueueInv
<1>2. /\ Append(deque[v], t) \in Seq(Tasks) /\ Len(Append(deque[v], t)) = n + 1 /\ n \in Nat
      /\ \A k \in 1 .. n : Append(deque[v], t)[k] = deque[v][k]
      /\ Append(deque[v], t)[n + 1] = t
  BY <1>0
<1>3. /\ deque' \in [Workers -> Seq(Tasks)] /\ deque'[v] = Append(deque[v], t)
      /\ \A u \in Workers : u # v => deque'[u] = deque[u]
  BY <1>0, <1>2 DEF TypeOK
<1>4. status'[t] = "queued" /\ \A x \in Tasks : x # t => status'[x] = status[x]
  BY <1>0 DEF TypeOK
<1>5. \A u \in Workers : \A k \in 1 .. Len(deque'[u]) :
        \/ u = v /\ k = n + 1 /\ deque'[u][k] = t
        \/ k \in 1 .. Len(deque[u]) /\ deque'[u][k] = deque[u][k]
  <2> TAKE u \in Workers
  <2>1. CASE u = v
    BY <1>2, <1>3, <2>1
  <2>2. CASE u # v
    BY <1>3, <2>2
  <2> QED
    BY <2>1, <2>2
<1>6. \A u \in Workers : \A k \in 1 .. Len(deque[u]) :
        k \in 1 .. Len(deque'[u]) /\ deque'[u][k] = deque[u][k]
  <2> TAKE u \in Workers
  <2>1. CASE u = v
    BY <1>2, <1>3, <2>1
  <2>2. CASE u # v
    BY <1>3, <2>2
  <2> QED
    BY <2>1, <2>2
<1>7. n + 1 \in 1 .. Len(deque'[v]) /\ deque'[v][n + 1] = t
  BY <1>2, <1>3
<1> HIDE DEF n
<1>8. /\ \A u \in Workers : \A k \in 1 .. Len(deque[u]) : status'[deque[u][k]] = "queued"
      /\ \A u \in Workers : \A k \in 1 .. Len(subq[u]) : status'[subq[u][k]] = "queued"
  BY <1>0, <1>1, <1>4 DEF QueueInv
<1>9. \A u \in Workers : \A k \in 1 .. Len(deque'[u]) : status'[deque'[u][k]] = "queued"
  <2> TAKE u \in Workers
  <2> TAKE k \in 1 .. Len(deque'[u])
  <2> QED
    BY <1>4, <1>5, <1>8
<1>10. ASSUME NEW u \in Workers, NEW x \in Workers, NEW k \in 1 .. Len(deque'[u]),
              NEW j \in 1 .. Len(deque'[x]), deque'[u][k] = deque'[x][j]
       PROVE  u = x /\ k = j
  <2>1. CASE u = v /\ k = n + 1 /\ deque'[u][k] = t
    BY <1>1, <1>5, <1>10, <2>1
  <2>2. CASE x = v /\ j = n + 1 /\ deque'[x][j] = t
    BY <1>1, <1>5, <1>10, <2>2
  <2>3. CASE /\ k \in 1 .. Len(deque[u]) /\ deque'[u][k] = deque[u][k]
             /\ j \in 1 .. Len(deque[x]) /\ deque'[x][j] = deque[x][j]
    BY <1>0, <1>10, <2>3 DEF QueueInv
  <2> QED
    BY <1>5, <2>1, <2>2, <2>3
<1>11. ASSUME NEW u \in Workers, NEW x \in Workers, NEW k \in 1 .. Len(deque'[u]),
              NEW j \in 1 .. Len(subq[x])
       PROVE  deque'[u][k] # subq[x][j]
  <2>1. CASE deque'[u][k] = t
    BY <1>1, <2>1
  <2>2. CASE k \in 1 .. Len(deque[u]) /\ deque'[u][k] = deque[u][k]
    BY <1>0, <2>2 DEF QueueInv
  <2> QED
    BY <1>5, <2>1, <2>2
<1>12. QueueInv'
  <2>1. \A u, x \in Workers : \A k \in 1 .. Len(subq[u]), j \in 1 .. Len(subq[x]) :
          subq[u][k] = subq[x][j] => u = x /\ k = j
    BY <1>0, Zenon DEF QueueInv
  <2>2. \A u, x \in Workers : \A k \in 1 .. Len(deque'[u]), j \in 1 .. Len(deque'[x]) :
          deque'[u][k] = deque'[x][j] => u = x /\ k = j
    BY <1>10
  <2> QED
    BY <1>8, <1>9, <1>11, <2>1, <2>2 DEF QueueInv
<1>13. PlaceInv'
  <2> SUFFICES ASSUME NEW x \in Tasks, status'[x] = "queued" PROVE InDeque(x)' \/ InSubq(x)'
    BY DEF PlaceInv
  <2>1. CASE x = t
    BY <1>7, <2>1 DEF InDeque
  <2>2. CASE x # t
    <3>1. InDeque(x) \/ InSubq(x)
      BY <1>4, <2>2 DEF PoolInv, PlaceInv
    <3>2. InDeque(x) => InDeque(x)'
      BY <1>6 DEF InDeque
    <3>3. InSubq(x) => InSubq(x)'
      BY DEF InSubq
    <3> QED
      BY <3>1, <3>2, <3>3
  <2> QED
    BY <2>1, <2>2
<1> QED
  BY <1>3, <1>12, <1>13

\* ... or to the end of a submission queue.
LEMMA SubqAdded ==
  ASSUME PoolInv, NEW v \in Workers, NEW t \in Tasks, status[t] = "new",
         status' = [status EXCEPT ![t] = "queued"],
         subq' = [subq EXCEPT ![v] = Append(@, t)], UNCHANGED deque
  PROVE  subq' \in [Workers -> Seq(Tasks)] /\ QueueInv' /\ PlaceInv'
<1> DEFINE n == Len(subq[v])
<1>0. /\ TypeOK /\ QueueInv /\ subq[v] \in Seq(Tasks)
      /\ \A u \in Workers : deque[u] \in Seq(Tasks) /\ subq[u] \in Seq(Tasks)
  BY DEF PoolInv, TypeOK
<1>1. \A u \in Workers : /\ \A k \in 1 .. Len(deque[u]) : deque[u][k] \in Tasks /\ deque[u][k] # t
                         /\ \A k \in 1 .. Len(subq[u]) : subq[u][k] \in Tasks /\ subq[u][k] # t
  <2> TAKE u \in Workers
  <2>1. \A k \in 1 .. Len(deque[u]) : deque[u][k] \in Tasks
    BY <1>0
  <2>2. \A k \in 1 .. Len(subq[u]) : subq[u][k] \in Tasks
    BY <1>0
  <2> QED
    BY <1>0, <2>1, <2>2 DEF QueueInv
<1>2. /\ Append(subq[v], t) \in Seq(Tasks) /\ Len(Append(subq[v], t)) = n + 1 /\ n \in Nat
      /\ \A k \in 1 .. n : Append(subq[v], t)[k] = subq[v][k]
      /\ Append(subq[v], t)[n + 1] = t
  BY <1>0
<1>3. /\ subq' \in [Workers -> Seq(Tasks)] /\ subq'[v] = Append(subq[v], t)
      /\ \A u \in Workers : u # v => subq'[u] = subq[u]
  BY <1>0, <1>2 DEF TypeOK
<1>4. status'[t] = "queued" /\ \A x \in Tasks : x # t => status'[x] = status[x]
  BY <1>0 DEF TypeOK
<1>5. \A u \in Workers : \A k \in 1 .. Len(subq'[u]) :
        \/ u = v /\ k = n + 1 /\ subq'[u][k] = t
        \/ k \in 1 .. Len(subq[u]) /\ subq'[u][k] = subq[u][k]
  <2> TAKE u \in Workers
  <2>1. CASE u = v
    BY <1>2, <1>3, <2>1
  <2>2. CASE u # v
    BY <1>3, <2>2
  <2> QED
    BY <2>1, <2>2
<1>6. \A u \in Workers : \A k \in 1 .. Len(subq[u]) :
        k \in 1 .. Len(subq'[u]) /\ subq'[u][k] = subq[u][k]
  <2> TAKE u \in Workers
  <2>1. CASE u = v
    BY <1>2, <1>3, <2>1
  <2>2. CASE u # v
    BY <1>3, <2>2
  <2> QED
    BY <2>1, <2>2
<1>7. n + 1 \in 1 .. Len(subq'[v]) /\ subq'[v][n + 1] = t
  BY <1>2, <1>3
<1> HIDE DEF n
<1>8. /\ \A u \in Workers : \A k \in 1 .. Len(deque[u]) : status'[deque[u][k]] = "queued"
      /\ \A u \in Workers : \A k \in 1 .. Len(subq[u]) : status'[subq[u][k]] = "queued"
  BY <1>0, <1>1, <1>4 DEF QueueInv
<1>9. \A u \in Workers : \A k \in 1 .. Len(subq'[u]) : status'[subq'[u][k]] = "queued"
  <2> TAKE u \in Workers
  <2> TAKE k \in 1 .. Len(subq'[u])
  <2> QED
    BY <1>4, <1>5, <1>8
<1>10. ASSUME NEW u \in Workers, NEW x \in Workers, NEW k \in 1 .. Len(subq'[u]),
              NEW j \in 1 .. Len(subq'[x]), subq'[u][k] = subq'[x][j]
       PROVE  u = x /\ k = j
  <2>1. CASE u = v /\ k = n + 1 /\ subq'[u][k] = t
    BY <1>1, <1>5, <1>10, <2>1
  <2>2. CASE x = v /\ j = n + 1 /\ subq'[x][j] = t
    BY <1>1, <1>5, <1>10, <2>2
  <2>3. CASE /\ k \in 1 .. Len(subq[u]) /\ subq'[u][k] = subq[u][k]
             /\ j \in 1 .. Len(subq[x]) /\ subq'[x][j] = subq[x][j]
    BY <1>0, <1>10, <2>3 DEF QueueInv
  <2> QED
    BY <1>5, <2>1, <2>2, <2>3
<1>11. ASSUME NEW u \in Workers, NEW x \in Workers, NEW k \in 1 .. Len(subq'[u]),
              NEW j \in 1 .. Len(deque[x])
       PROVE  subq'[u][k] # deque[x][j]
  <2>1. CASE subq'[u][k] = t
    BY <1>1, <2>1
  <2>2. CASE k \in 1 .. Len(subq[u]) /\ subq'[u][k] = subq[u][k]
    BY <1>0, <2>2 DEF QueueInv
  <2> QED
    BY <1>5, <2>1, <2>2
<1>12. QueueInv'
  <2>1. \A u, x \in Workers : \A k \in 1 .. Len(deque[u]), j \in 1 .. Len(deque[x]) :
          deque[u][k] = deque[x][j] => u = x /\ k = j
    BY <1>0, Zenon DEF QueueInv
  <2>2. \A u, x \in Workers : \A k \in 1 .. Len(subq'[u]), j \in 1 .. Len(subq'[x]) :
          subq'[u][k] = subq'[x][j] => u = x /\ k = j
    BY <1>10
  <2> QED
    BY <1>8, <1>9, <1>11, <2>1, <2>2 DEF QueueInv
<1>13. PlaceInv'
  <2> SUFFICES ASSUME NEW x \in Tasks, status'[x] = "queued" PROVE InDeque(x)' \/ InSubq(x)'
    BY DEF PlaceInv
  <2>1. CASE x = t
    BY <1>7, <2>1 DEF InSubq
  <2>2. CASE x # t
    <3>1. InDeque(x) \/ InSubq(x)
      BY <1>4, <2>2 DEF PoolInv, PlaceInv
    <3>2. InSubq(x) => InSubq(x)'
      BY <1>6 DEF InSubq
    <3>3. InDeque(x) => InDeque(x)'
      BY DEF InDeque
    <3> QED
      BY <3>1, <3>2, <3>3
  <2> QED
    BY <2>1, <2>2
<1> QED
  BY <1>3, <1>12, <1>13

-----------------------------------------------------------------------------
\* The task on top moves on.
LEMMA SetAtMoves ==
  ASSUME PoolInv, NEW w \in Threads, Running(w),
         NEW a \in Top(w).at .. Len(Program[Top(w).task]) + 1, SetAt(w, a)
  PROVE  /\ MovesOn /\ stack' \in [Threads -> Seq(Frames)]
         /\ Len(stack[w]) \in 1 .. Len(stack'[w])
         /\ stack'[w][Len(stack[w])] = [task |-> Top(w).task, at |-> a]
         /\ \A u \in Threads : \A i \in 1 .. Len(stack[u]) :
              u # w \/ i # Len(stack[w]) => stack'[u][i] = stack[u][i]
<1> DEFINE n == Len(stack[w])
<1>0. TypeOK /\ FrameInv
  BY DEF PoolInv
<1>1. /\ stack[w] # <<>> /\ n \in 1 .. n /\ Top(w) = stack[w][n] /\ Top(w) \in Frames
      /\ Top(w).at \in 1 .. Len(Program[Top(w).task]) + 1 /\ Len(Program[Top(w).task]) \in Nat
  BY <1>0, TopFacts
<1>2. a \in 1 .. Len(Program[Top(w).task]) + 1 /\ Top(w).at <= a /\ a \in Nat
  BY <1>1
<1>3. /\ stack' \in [Threads -> Seq(Frames)]
      /\ \A u \in Threads : Len(stack'[u]) = Len(stack[u])
      /\ stack'[w][n] = [task |-> Top(w).task, at |-> a]
      /\ \A u \in Threads : \A i \in 1 .. Len(stack[u]) :
           /\ stack'[u][i].task = stack[u][i].task
           /\ u # w \/ i # n => stack'[u][i] = stack[u][i]
  BY <1>0, <1>1, <1>2, MoveInFrame DEF TypeOK
<1> HIDE DEF n
<1>4. ASSUME NEW u \in Threads, NEW i \in 1 .. Len(stack[u])
      PROVE  /\ stack[u][i].at <= stack'[u][i].at
             /\ stack'[u][i].at \in 1 .. Len(Program[stack[u][i].task]) + 1
  <2>1. CASE u = w /\ i = n
    BY <1>1, <1>2, <1>3, <2>1
  <2>2. CASE u # w \/ i # n
    <3>1. stack'[u][i] = stack[u][i]
      BY <1>3, <2>2
    <3>2. stack[u][i].at \in 1 .. Len(Program[stack[u][i].task]) + 1
      BY <1>0 DEF FrameInv
    <3>3. stack[u][i].at <= stack[u][i].at
      BY <3>2
    <3> QED
      BY <3>1, <3>2, <3>3
  <2> QED
    BY <2>1, <2>2
<1>5. MovesOn
  BY <1>3, <1>4 DEF MovesOn
<1> QED
  BY <1>1, <1>3, <1>5 DEF n

LEMMA AdvanceIsSetAt ==
  ASSUME TypeOK, FrameInv, NEW w \in Threads, Running(w), ~AtEnd(w), Advance(w)
  PROVE  /\ SetAt(w, Top(w).at + 1)
         /\ Top(w).at + 1 \in Top(w).at .. Len(Program[Top(w).task]) + 1
<1>1. SetAt(w, Top(w).at + 1)
  BY DEF SetAt, Advance, Top
<1>2. Top(w).at \in 1 .. Len(Program[Top(w).task]) + 1 /\ Len(Program[Top(w).task]) \in Nat
  BY TopFacts
<1> QED
  BY <1>1, <1>2 DEF AtEnd

\* A thread submits the next task of its program, which was new.
LEMMA SubmitMoves ==
  ASSUME PoolInv, NEW w \in Threads, At(w, "submit"), Advance(w),
         status' = [status EXCEPT ![Instr(w).task] = "queued"], UNCHANGED <<pc, begun>>
  PROVE  /\ StackInv' /\ stack' \in [Threads -> Seq(Frames)]
         /\ Instr(w).task \in Tasks /\ status[Instr(w).task] = "new"
<1> DEFINE n == Len(stack[w])
           p == Top(w).task
           m == Top(w).at
           t == Instr(w).task
<1>0. TypeOK /\ FrameInv
  BY DEF PoolInv
<1>1. /\ Running(w) /\ ~AtEnd(w) /\ m \in 1 .. Len(Program[p])
      /\ t \in Tasks /\ Program[p][m] = [op |-> "submit", task |-> t]
  BY <1>0, InstrFacts DEF At, Instr
<1>2. /\ n \in 1 .. n /\ Top(w) = stack[w][n] /\ p \in Tasks /\ status[p] = "running"
      /\ Len(Program[p]) \in Nat
  BY <1>0, <1>1, TopFacts DEF Frames
<1>3. Submits(p, m, t)
  BY <1>1 DEF Submits
<1>4. SetAt(w, m + 1) /\ m + 1 \in m .. Len(Program[p]) + 1
  BY <1>0, <1>1, AdvanceIsSetAt
<1>5. /\ MovesOn /\ stack' \in [Threads -> Seq(Frames)]
      /\ n \in 1 .. Len(stack'[w]) /\ stack'[w][n] = [task |-> p, at |-> m + 1]
  BY <1>1, <1>4, SetAtMoves
<1>6. n \in 1 .. Len(stack[w]) /\ stack[w][n].task = p /\ stack[w][n].at = m
  BY <1>2
<1> HIDE DEF n, p, m, t
<1>7. status[t] = "new"
  <2> SUFFICES ASSUME status[t] # "new" PROVE FALSE
    OBVIOUS
  <2>1. Passed(p, m)
    BY <1>1, <1>2, <1>3 DEF PoolInv, FreshInv
  <2>2. PICK u \in Threads : \E i \in 1 .. Len(stack[u]) : stack[u][i].task = p /\ m < stack[u][i].at
    BY <1>2, <2>1 DEF Passed
  <2>3. PICK i \in 1 .. Len(stack[u]) : stack[u][i].task = p /\ m < stack[u][i].at
    BY <2>2
  <2>4. u = w /\ i = n
    BY <1>0, <1>2, <1>6, <2>3 DEF FrameInv
  <2> QED
    BY <1>1, <1>6, <2>3, <2>4
<1>8. Queues(t)
  <2>1. status'[t] = "queued"
    BY <1>0, <1>1 DEF TypeOK, t
  <2>2. ASSUME NEW x \in Tasks, NEW k \in 1 .. Len(Program[x]), Submits(x, k, t)
        PROVE  Passed(x, k)'
    <3>1. x = p /\ k = m
      BY <1>1, <1>2, <1>3, <2>2, SubmitAssumption DEF Submits
    <3>2. m \in Nat
      BY <1>1, <1>2
    <3>3. stack'[w][n].task = p /\ m < stack'[w][n].at
      BY <1>5, <3>2
    <3> QED
      BY <1>5, <3>1, <3>3 DEF Passed
  <2> QED
    BY <1>7, <2>1, <2>2 DEF Queues
<1>9. \A x \in Tasks : status'[x] = status[x] \/ Queues(x)
  BY <1>0, <1>8 DEF TypeOK, t
<1>10. \A u \in Threads : pc'[u] = "run" => stack[u] # <<>>
  BY <1>0 DEF FrameInv
<1>11. StackInv'
  BY <1>5, <1>9, <1>10, MovesOnKeeps
<1> QED
  BY <1>1, <1>5, <1>7, <1>11 DEF t

LEMMA SubmitLocalKeeps ==
  ASSUME PoolInv, NEW w \in Workers, SubmitLocal(w)
  PROVE  PoolInv'
<1> DEFINE t == Instr(w).task
<1>0. TypeOK /\ w \in Threads
  BY DEF PoolInv, Threads
<1>1. /\ At(w, "submit") /\ Advance(w) /\ deque' = [deque EXCEPT ![w] = Append(@, t)]
      /\ status' = [status EXCEPT ![t] = "queued"]
      /\ UNCHANGED <<subq, unlinked, next, pc, base, cursor, begun>>
  BY DEF SubmitLocal
<1>2. StackInv' /\ stack' \in [Threads -> Seq(Frames)] /\ t \in Tasks /\ status[t] = "new"
  BY <1>0, <1>1, SubmitMoves
<1> HIDE DEF t
<1>3. deque' \in [Workers -> Seq(Tasks)] /\ QueueInv' /\ PlaceInv'
  BY <1>1, <1>2, DequeAdded
<1>4. status' \in [Tasks -> {"new", "queued", "running", "done"}]
  BY <1>0, <1>1 DEF TypeOK
<1>5. TypeOK'
  BY <1>0, <1>1, <1>2, <1>3, <1>4 DEF TypeOK
<1> QED
  BY <1>2, <1>3, <1>5 DEF PoolInv, StackInv

LEMMA TargetFacts == ASSUME next \in Nat PROVE Target \in Workers /\ next + 1 \in Nat
BY PoolAssumption DEF Target, Workers

LEMMA SubmitExternalKeeps ==
  ASSUME PoolInv, NEW w \in Threads, SubmitExternal(w)
  PROVE  PoolInv'
<1> DEFINE t == Instr(w).task
<1>0. TypeOK
  BY DEF PoolInv
<1>1. /\ At(w, "submit") /\ Advance(w) /\ subq' = [subq EXCEPT ![Target] = Append(@, t)]
      /\ status' = [status EXCEPT ![t] = "queued"] /\ next' = next + 1
      /\ UNCHANGED <<deque, unlinked, pc, base, cursor, begun>>
  BY DEF SubmitExternal
<1>2. StackInv' /\ stack' \in [Threads -> Seq(Frames)] /\ t \in Tasks /\ status[t] = "new"
  BY <1>1, SubmitMoves
<1>6. Target \in Workers /\ next' \in Nat
  BY <1>0, <1>1, TargetFacts DEF TypeOK
<1> HIDE DEF t
<1>3. subq' \in [Workers -> Seq(Tasks)] /\ QueueInv' /\ PlaceInv'
  BY <1>1, <1>2, <1>6, SubqAdded
<1>4. status' \in [Tasks -> {"new", "queued", "running", "done"}]
  BY <1>0, <1>1 DEF TypeOK
<1>5. TypeOK'
  BY <1>0, <1>1, <1>2, <1>3, <1>4, <1>6 DEF TypeOK
<1> QED
  BY <1>2, <1>3, <1>5 DEF PoolInv, StackInv

\* Steps that leave queues and tasks alone.
Quiet ==
  /\ UNCHANGED <<deque, subq, next, status, begun>>
  /\ StackTypes' /\ unlinked' \subseteq Roots /\ cursor' \in Workers
  /\ MovesOn /\ \A u \in Threads : pc'[u] = "run" => stack[u] # <<>>

LEMMA QuietKeeps == ASSUME PoolInv, Quiet PROVE PoolInv'
<1>1. StackInv'
  BY MovesOnKeeps DEF Quiet
<1>2. QueueInv' /\ PlaceInv'
  BY QueuesKept DEF Quiet
<1>3. TypeOK'
  BY DEF Quiet, PoolInv, TypeOK, StackTypes
<1> QED
  BY <1>1, <1>2, <1>3 DEF PoolInv, StackInv

LEMMA StackKept == ASSUME PoolInv, UNCHANGED stack PROVE MovesOn
<1>1. ASSUME NEW u \in Threads, NEW i \in 1 .. Len(stack[u])
      PROVE  /\ stack[u][i].at <= stack[u][i].at
             /\ stack[u][i].at \in 1 .. Len(Program[stack[u][i].task]) + 1
  <2>1. stack[u][i].at \in 1 .. Len(Program[stack[u][i].task]) + 1
    BY DEF PoolInv, FrameInv
  <2> QED
    BY <2>1
<1> QED
  BY <1>1 DEF MovesOn

LEMMA ClientKeeps ==
  ASSUME PoolInv, NEW r \in Roots, Client(r)
  PROVE  PoolInv'
<1>0. TypeOK /\ r \in Tasks
  BY PoolAssumption DEF PoolInv
<1>2. ASSUME UNCHANGED stack PROVE MovesOn
  BY <1>2, StackKept
<1>3. CASE ClientSubmit(r)
  <2>1. /\ status[r] = "new" /\ subq' = [subq EXCEPT ![Target] = Append(@, r)]
        /\ unlinked' = unlinked \cup {r} /\ next' = next + 1
        /\ status' = [status EXCEPT ![r] = "queued"]
        /\ UNCHANGED <<deque, pc, base, stack, cursor, begun>>
    BY <1>3 DEF ClientSubmit
  <2>2. Target \in Workers /\ next' \in Nat
    BY <1>0, <2>1, TargetFacts DEF TypeOK
  <2>3. subq' \in [Workers -> Seq(Tasks)] /\ QueueInv' /\ PlaceInv'
    BY <1>0, <2>1, <2>2, SubqAdded
  <2>4. status' \in [Tasks -> {"new", "queued", "running", "done"}] /\ unlinked' \subseteq Roots
    BY <1>0, <2>1 DEF TypeOK
  <2>5. TypeOK'
    BY <1>0, <2>1, <2>2, <2>3, <2>4 DEF TypeOK
  <2>6. Queues(r)
    <3>1. \A t \in Tasks : \A k \in 1 .. Len(Program[t]) : ~Submits(t, k, r)
      BY <1>0, SubmitAssumption
    <3> QED
      BY <1>0, <2>1, <3>1 DEF Queues, TypeOK
  <2>7. \A x \in Tasks : status'[x] = status[x] \/ Queues(x)
    BY <1>0, <2>1, <2>6 DEF TypeOK
  <2>8. \A u \in Threads : pc'[u] = "run" => stack[u] # <<>>
    BY <2>1 DEF PoolInv, FrameInv
  <2>9. StackInv'
    BY <1>2, <2>1, <2>7, <2>8, MovesOnKeeps
  <2> QED
    BY <2>3, <2>5, <2>9 DEF PoolInv, StackInv
<1>4. CASE ClientLink(r)
  <2>1. /\ unlinked' \subseteq Roots
        /\ UNCHANGED <<deque, subq, next, pc, base, stack, cursor, status, begun>>
    BY <1>0, <1>4 DEF ClientLink, AfterLink, TypeOK
  <2>2. \A u \in Threads : pc'[u] = "run" => stack[u] # <<>>
    BY <2>1 DEF PoolInv, FrameInv
  <2>3. Quiet
    BY <1>0, <1>2, <2>1, <2>2 DEF Quiet, TypeOK, StackTypes
  <2> QED
    BY <2>3, QuietKeeps
<1> QED
  BY <1>3, <1>4 DEF Client

LEMMA FinishStep ==
  ASSUME PoolInv, NEW w \in Threads, Finish(w)
  PROVE  PoolInv'
<1>0. TypeOK
  BY DEF PoolInv
<1>1. /\ StackTypes' /\ StackInv'
      /\ status[Top(w).task] = "running" /\ Top(w).task \in Tasks
      /\ status' = [status EXCEPT ![Top(w).task] = "done"]
  BY FinishKeeps
<1>2. UNCHANGED <<deque, subq, unlinked, next, cursor>>
  BY DEF Finish
<1>3. \A x \in Tasks : status'[x] = "queued" <=> status[x] = "queued"
  BY <1>0, <1>1 DEF TypeOK
<1>4. QueueInv' /\ PlaceInv'
  BY <1>2, <1>3, QueuesKept
<1>5. TypeOK'
  BY <1>0, <1>1, <1>2 DEF TypeOK, StackTypes
<1> QED
  BY <1>1, <1>4, <1>5 DEF PoolInv, StackInv

Phases == {"up", "own", "sub", "steal", "check", "drain_deque", "drain_subq",
           "exit", "run", "join", "final_deques", "final_subqs", "gone"}

LEMMA MoveKeeps ==
  ASSUME PoolInv, NEW w \in Threads, NEW from, NEW to \in Phases, to = "run" => stack[w] # <<>>,
         Move(w, from, to)
  PROVE  PoolInv'
<1>1. /\ pc' = [pc EXCEPT ![w] = to]
      /\ UNCHANGED <<deque, subq, unlinked, next, base, stack, cursor, status, begun>>
  BY DEF Move, Goto
<1>2. pc' \in [Threads -> Phases] /\ TypeOK
  BY <1>1 DEF PoolInv, TypeOK, Phases
<1>3. StackTypes' /\ unlinked' \subseteq Roots /\ cursor' \in Workers
  BY <1>1, <1>2 DEF TypeOK, StackTypes, Phases
<1>4. MovesOn
  BY <1>1, StackKept
<1>5. \A u \in Threads : pc'[u] = "run" => stack[u] # <<>>
  BY <1>1, <1>2 DEF PoolInv, FrameInv, TypeOK
<1>6. Quiet
  BY <1>1, <1>3, <1>4, <1>5 DEF Quiet
<1> QED
  BY <1>6, QuietKeeps

LEMMA NextQueueKeeps ==
  ASSUME PoolInv, NEW from \in Phases \ {"run"}, NEW to \in Phases \ {"run"}, NextQueue(from, to)
  PROVE  PoolInv'
<1>1. /\ pc' = [pc EXCEPT ![Main] = IF LastQueue THEN to ELSE from]
      /\ cursor' = IF LastQueue THEN 1 ELSE cursor + 1
      /\ UNCHANGED <<deque, subq, unlinked, next, base, stack, status, begun>>
  BY DEF NextQueue
<1>2. pc' \in [Threads -> Phases] /\ TypeOK
  BY <1>1 DEF PoolInv, TypeOK, Phases
<1>3. cursor' \in Workers
  BY <1>1, <1>2, PoolAssumption DEF LastQueue, TypeOK, Workers
<1>4. StackTypes' /\ unlinked' \subseteq Roots
  BY <1>1, <1>2 DEF TypeOK, StackTypes, Phases
<1>5. MovesOn
  BY <1>1, StackKept
<1>6. \A u \in Threads : pc'[u] = "run" => stack[u] # <<>>
  BY <1>1, <1>2 DEF PoolInv, FrameInv, TypeOK
<1>7. Quiet
  BY <1>1, <1>3, <1>4, <1>5, <1>6 DEF Quiet
<1> QED
  BY <1>7, QuietKeeps

\* The task on top goes to another place of its program.
LEMMA JumpKeeps ==
  ASSUME PoolInv, NEW w \in Threads, Running(w),
         NEW a \in Top(w).at .. Len(Program[Top(w).task]) + 1, SetAt(w, a),
         UNCHANGED <<deque, subq, unlinked, next, pc, base, cursor, status, begun>>
  PROVE  PoolInv'
<1>1. TypeOK
  BY DEF PoolInv
<1>2. MovesOn /\ stack' \in [Threads -> Seq(Frames)]
  BY SetAtMoves
<1>3. StackTypes' /\ unlinked' \subseteq Roots /\ cursor' \in Workers
  BY <1>1, <1>2 DEF TypeOK, StackTypes
<1>4. \A u \in Threads : pc'[u] = "run" => stack[u] # <<>>
  BY DEF PoolInv, FrameInv
<1>5. Quiet
  BY <1>2, <1>3, <1>4 DEF Quiet
<1> QED
  BY <1>5, QuietKeeps

LEMMA SkipKeeps ==
  ASSUME PoolInv, NEW w \in Threads, Running(w), ~AtEnd(w), Skip(w)
  PROVE  PoolInv'
<1>1. /\ Advance(w) /\ UNCHANGED <<deque, subq, unlinked, next, pc, base, cursor, status, begun>>
  BY DEF Skip
<1>2. /\ SetAt(w, Top(w).at + 1)
      /\ Top(w).at + 1 \in Top(w).at .. Len(Program[Top(w).task]) + 1
  BY <1>1, AdvanceIsSetAt DEF PoolInv
<1> QED
  BY <1>1, <1>2, JumpKeeps

LEMMA ThrowKeeps ==
  ASSUME PoolInv, NEW w \in Threads, Running(w), Throw(w)
  PROVE  PoolInv'
<1>1. /\ SetAt(w, Len(Program[Top(w).task]) + 1)
      /\ UNCHANGED <<deque, subq, unlinked, next, pc, base, cursor, status, begun>>
  BY DEF Throw, SetAt
<1>2. /\ Top(w).at \in 1 .. Len(Program[Top(w).task]) + 1 /\ Len(Program[Top(w).task]) \in Nat
  BY TopFacts DEF PoolInv
<1>3. Len(Program[Top(w).task]) + 1 \in Top(w).at .. Len(Program[Top(w).task]) + 1
  BY <1>2
<1> QED
  BY <1>1, <1>3, JumpKeeps

\* A worker looks for a task.
LEMMA LookKeeps ==
  ASSUME PoolInv, NEW w \in Workers, Look(w)
  PROVE  PoolInv'
<1>0. w \in Threads
  BY DEF Threads
<1> USE DEF Taking, Looking, Phases
<1>1. CASE PollSubq(w) \/ TakeSubq(w)
  BY <1>0, <1>1, PopSubqKeeps DEF PollSubq, TakeSubq
<1>2. CASE TakeOwn(w)
  BY <1>0, <1>2, PopBottomKeeps DEF TakeOwn
<1>3. CASE OwnEmpty(w)
  BY <1>0, <1>3, MoveKeeps DEF OwnEmpty
<1>4. CASE SubqEmpty(w)
  BY <1>0, <1>4, MoveKeeps DEF SubqEmpty
<1>5. CASE \E v \in Workers : StealFrom(w, v)
  BY <1>0, <1>5, StealKeeps DEF StealFrom
<1>6. CASE StealMiss(w)
  <2>1. CASE Idle(w)
    BY <1>0, <1>6, <2>1, MoveKeeps DEF StealMiss
  <2>2. CASE ~Idle(w)
    BY <1>0, <1>6, <2>2, MoveKeeps DEF StealMiss, Idle
  <2> QED
    BY <2>1, <2>2
<1>7. CASE CheckStop(w)
  BY <1>0, <1>7, MoveKeeps DEF CheckStop
<1>8. CASE DrainDeque(w)
  <2>1. CASE deque[w] # <<>>
    BY <1>0, <1>8, <2>1, PopBottomKeeps DEF DrainDeque
  <2>2. CASE deque[w] = <<>>
    BY <1>0, <1>8, <2>2, MoveKeeps DEF DrainDeque, AfterDrain
  <2> QED
    BY <2>1, <2>2
<1>9. CASE DrainSubq(w)
  <2>1. CASE SubqReady(w)
    BY <1>0, <1>9, <2>1, PopSubqKeeps DEF DrainSubq
  <2>2. CASE ~SubqReady(w)
    BY <1>0, <1>9, <2>2, MoveKeeps DEF DrainSubq
  <2> QED
    BY <2>1, <2>2
<1> QED
  BY <1>1, <1>2, <1>3, <1>4, <1>5, <1>6, <1>7, <1>8, <1>9 DEF Look

LEMMA GetHelpKeeps ==
  ASSUME PoolInv, NEW w \in Threads, GetHelp(w)
  PROVE  PoolInv'
BY MoveKeeps DEF GetHelp, Phases

LEMMA RunKeeps ==
  ASSUME PoolInv, NEW w \in Threads, Run(w)
  PROVE  PoolInv'
<1>1. CASE SubmitLocal(w)
  BY <1>1, SubmitLocalKeeps DEF SubmitLocal, OnPool
<1>2. CASE SubmitExternal(w)
  BY <1>2, SubmitExternalKeeps
<1>3. CASE GetReady(w)
  BY <1>3, SkipKeeps DEF GetReady, Skip, At
<1>4. CASE GetHelp(w)
  BY <1>4, GetHelpKeeps
<1>5. CASE Finish(w)
  BY <1>5, FinishStep
<1> QED
  BY <1>1, <1>2, <1>3, <1>4, <1>5 DEF Run

LEMMA DestructorKeeps ==
  ASSUME PoolInv, Destructor
  PROVE  PoolInv'
<1>0. Main \in Threads /\ cursor \in Workers
  BY DEF Threads, PoolInv, TypeOK
<1> USE DEF Taking, Looking, Phases
<1>1. CASE Destroy
  BY <1>0, <1>1, MoveKeeps DEF Destroy
<1>2. CASE Join
  BY <1>0, <1>2, MoveKeeps DEF Join
<1>3. CASE FinalDeques
  <2>1. CASE deque[cursor] # <<>>
    BY <1>0, <1>3, <2>1, PopBottomKeeps DEF FinalDeques
  <2>2. CASE deque[cursor] = <<>>
    BY <1>0, <1>3, <2>2, NextQueueKeeps DEF FinalDeques
  <2> QED
    BY <2>1, <2>2
<1>4. CASE FinalSubqs
  <2>1. CASE SubqReady(cursor)
    BY <1>0, <1>4, <2>1, PopSubqKeeps DEF FinalSubqs
  <2>2. CASE ~SubqReady(cursor)
    BY <1>0, <1>4, <2>2, NextQueueKeeps DEF FinalSubqs
  <2> QED
    BY <2>1, <2>2
<1>5. CASE Run(Main)
  BY <1>0, <1>5, RunKeeps
<1> QED
  BY <1>1, <1>2, <1>3, <1>4, <1>5 DEF Destructor

LEMMA UnchangedKeeps == ASSUME PoolInv, UNCHANGED vars PROVE PoolInv'
<1>1. MovesOn
  BY StackKept DEF vars
<1>2. \A u \in Threads : pc'[u] = "run" => stack[u] # <<>>
  BY DEF vars, PoolInv, FrameInv
<1>3. Quiet
  BY <1>1, <1>2 DEF vars, PoolInv, TypeOK, StackTypes, Quiet
<1> QED
  BY <1>3, QuietKeeps

LEMMA StepPoolInv == ASSUME PoolInv, [Next]_vars PROVE PoolInv'
<1>1. ASSUME NEW w \in Workers, Worker(w) PROVE PoolInv'
  BY <1>1, LookKeeps, RunKeeps DEF Worker, Threads
<1>2. ASSUME NEW r \in Roots, Client(r) PROVE PoolInv'
  BY <1>2, ClientKeeps
<1>3. ASSUME Destructor PROVE PoolInv'
  BY <1>3, DestructorKeeps
<1> QED
  BY <1>1, <1>2, <1>3, UnchangedKeeps DEF Next, Gone

LEMMA InitPoolInv == ASSUME Init PROVE PoolInv
<1> USE DEF Init
<1>1. TypeOK
  BY PoolAssumption DEF TypeOK, Workers, Threads, Main
<1>2. QueueInv /\ PlaceInv
  BY DEF QueueInv, PlaceInv
<1>3. FrameInv /\ RunningInv
  BY DEF FrameInv, RunningInv, Threads
<1>4. FreshInv /\ BegunInv
  BY DEF FreshInv, BegunInv, Threads
<1> QED
  BY <1>1, <1>2, <1>3, <1>4 DEF PoolInv

\* No task is run twice, whoever takes it from where.
THEOREM RunsOnce == Spec => []RunOnce
<1>1. PoolInv => RunOnce
  BY DEF PoolInv, RunOnce, BegunInv
<1> QED
  BY InitPoolInv, StepPoolInv, <1>1, PTL DEF Spec

-----------------------------------------------------------------------------
(***************************************************************************)
(* Where the threads are: what the pool keeps besides PoolInv.             *)
(***************************************************************************)
WorkerPhases == Looking \cup {"check", "drain_deque", "drain_subq", "exit", "run"}
MainPhases == {"up", "join", "final_deques", "final_subqs", "run", "gone"}
AllExited == \A w \in Workers : pc[w] = "exit"

\* The destructor runs tasks only after the last worker has exited.
PhaseInv ==
  /\ \A w \in Workers : pc[w] \in WorkerPhases /\ base[w] \in {"own", "drain_deque", "drain_subq"}
  /\ pc[Main] \in MainPhases
  /\ \A w \in Threads : pc[w] \notin {"run"} \cup Looking => stack[w] = <<>>
  /\ pc[Main] \notin {"up", "join"} => AllExited
  /\ pc[Main] = "run" => base[Main] \in {"final_deques", "final_subqs"}

\* Until then nothing but roots is in the submission queues.
RootsInv == ~AllExited => \A v \in Workers : \A k \in 1 .. Len(subq[v]) : subq[v][k] \in Roots

Where == PhaseInv /\ RootsInv

LEMMA WorkerPhase ==
  ASSUME TypeOK, PhaseInv, NEW w \in Workers, pc[w] # "exit", NEW x \in WorkerPhases,
         NEW b \in {"own", "drain_deque", "drain_subq"},
         pc' = [pc EXCEPT ![w] = x], base' = [base EXCEPT ![w] = b],
         \A u \in Threads : u # w => stack'[u] = stack[u],
         x \notin {"run"} \cup Looking => stack'[w] = <<>>
  PROVE  PhaseInv'
<1>1. w \in Threads /\ Main \in Threads /\ Main \notin Workers /\ ~AllExited
  BY DEF Threads, Workers, Main, AllExited
<1>2. /\ pc'[w] = x /\ base'[w] = b
      /\ \A u \in Threads : u # w => pc'[u] = pc[u] /\ base'[u] = base[u]
  BY <1>1 DEF TypeOK
<1>3. pc[Main] \in {"up", "join"} /\ pc'[Main] = pc[Main]
  BY <1>1, <1>2 DEF PhaseInv
<1> QED
  BY <1>1, <1>2, <1>3 DEF PhaseInv, Threads

LEMMA MainPhase ==
  ASSUME TypeOK, PhaseInv, NEW x \in MainPhases, pc' = [pc EXCEPT ![Main] = x],
         \A u \in Workers : stack'[u] = stack[u] /\ base'[u] = base[u],
         x # "run" => stack'[Main] = <<>>,
         x \notin {"up", "join"} => AllExited,
         x = "run" => base'[Main] \in {"final_deques", "final_subqs"}
  PROVE  PhaseInv' /\ (AllExited' <=> AllExited)
<1>1. Main \in Threads /\ Main \notin Workers
  BY DEF Threads, Workers, Main
<1>2. pc'[Main] = x /\ \A u \in Workers : pc'[u] = pc[u]
  BY <1>1 DEF TypeOK, Threads
<1>3. AllExited' <=> AllExited
  BY <1>2 DEF AllExited
<1> QED
  BY <1>1, <1>2, <1>3 DEF PhaseInv, Threads

\* A thread that starts a task had none, or waits in the one on top.
LEMMA BeginPhase ==
  ASSUME TypeOK, PhaseInv, NEW w \in Threads, NEW t \in Tasks, pc[w] \in Taking, Begin(w, t)
  PROVE  PhaseInv' /\ (AllExited => AllExited')
<1>1. /\ pc' = [pc EXCEPT ![w] = "run"]
      /\ base' = [base EXCEPT ![w] = IF stack[w] = <<>> THEN ReturnTo(w) ELSE base[w]]
      /\ stack' = [stack EXCEPT ![w] = Append(@, [task |-> t, at |-> 1])]
  BY DEF Begin
<1>2. \A u \in Threads : u # w => stack'[u] = stack[u]
  BY <1>1 DEF TypeOK
<1>3. CASE w = Main
  <2>1. pc[Main] \in {"final_deques", "final_subqs"} /\ AllExited /\ stack[Main] = <<>>
    BY <1>3 DEF PhaseInv, Taking, Looking, MainPhases
  <2>2. base'[Main] \in {"final_deques", "final_subqs"}
    BY <1>1, <1>3, <2>1 DEF TypeOK, ReturnTo
  <2>3. \A u \in Workers : stack'[u] = stack[u] /\ base'[u] = base[u]
    BY <1>1, <1>2, <1>3 DEF TypeOK, Threads, Workers, Main
  <2> QED
    BY <1>1, <1>3, <2>1, <2>2, <2>3, MainPhase DEF MainPhases
<1>4. CASE w # Main
  <2>1. w \in Workers /\ pc[w] # "exit"
    BY <1>4 DEF Threads, Taking, Looking
  <2>2. (IF stack[w] = <<>> THEN ReturnTo(w) ELSE base[w]) \in {"own", "drain_deque", "drain_subq"}
    BY <2>1 DEF PhaseInv, ReturnTo, Taking, Looking, WorkerPhases
  <2>3. PhaseInv'
    BY <1>1, <1>2, <2>1, <2>2, WorkerPhase DEF WorkerPhases
  <2>4. ~AllExited
    BY <2>1 DEF AllExited
  <2> QED
    BY <2>3, <2>4
<1> QED
  BY <1>3, <1>4

LEMMA MovePhase ==
  ASSUME TypeOK, PhaseInv, NEW w \in Workers, NEW from, from # "exit", NEW to \in WorkerPhases,
         to \notin {"run"} \cup Looking => stack[w] = <<>>, Move(w, from, to)
  PROVE  PhaseInv'
<1>1. /\ pc' = [pc EXCEPT ![w] = to] /\ pc[w] # "exit"
      /\ base' = [base EXCEPT ![w] = base[w]] /\ stack' = stack
  BY DEF Move, Goto, TypeOK
<1>2. base[w] \in {"own", "drain_deque", "drain_subq"}
  BY DEF PhaseInv
<1> QED
  BY <1>1, <1>2, WorkerPhase

\* The roots in the submission queues.
LEMMA RootsTaken ==
  ASSUME TypeOK, RootsInv, AllExited => AllExited', NEW w, NEW v \in Workers, PopSubq(w, v)
  PROVE  RootsInv'
<1> SUFFICES ASSUME ~AllExited', NEW u \in Workers, NEW k \in 1 .. Len(subq'[u])
             PROVE  subq'[u][k] \in Roots
  BY DEF RootsInv
<1>1. subq' = [subq EXCEPT ![v] = Tail(subq[v])] /\ subq[v] # <<>>
  BY DEF PopSubq, SubqReady
<1>2. subq[v] \in Seq(Tasks) /\ subq \in [Workers -> Seq(Tasks)]
  BY DEF TypeOK
<1>3. \A j \in 1 .. Len(subq[u]) : subq[u][j] \in Roots
  BY DEF RootsInv
<1>4. CASE u = v
  <2>1. /\ subq'[u] = Tail(subq[u]) /\ Len(Tail(subq[u])) = Len(subq[u]) - 1
        /\ Len(subq[u]) \in Nat
        /\ \A j \in 1 .. Len(subq[u]) - 1 : Tail(subq[u])[j] = subq[u][j + 1]
    BY <1>1, <1>2, <1>4
  <2>2. k \in 1 .. Len(subq[u]) - 1 /\ k + 1 \in 1 .. Len(subq[u])
    BY <2>1
  <2>3. subq'[u][k] = subq[u][k + 1]
    BY <2>1, <2>2
  <2> QED
    BY <1>3, <2>2, <2>3
<1>5. CASE u # v
  BY <1>1, <1>2, <1>3, <1>5
<1> QED
  BY <1>4, <1>5

LEMMA RootsKept ==
  ASSUME RootsInv, AllExited => AllExited', UNCHANGED subq
  PROVE  RootsInv'
BY DEF RootsInv

LEMMA RootsAdded ==
  ASSUME TypeOK, RootsInv, UNCHANGED pc, NEW v \in Workers, NEW r \in Roots,
         subq' = [subq EXCEPT ![v] = Append(@, r)]
  PROVE  RootsInv'
<1> SUFFICES ASSUME ~AllExited, NEW u \in Workers, NEW k \in 1 .. Len(subq'[u])
             PROVE  subq'[u][k] \in Roots
  BY DEF RootsInv, AllExited
<1>2. subq[v] \in Seq(Tasks) /\ subq \in [Workers -> Seq(Tasks)] /\ r \in Tasks
  BY PoolAssumption DEF TypeOK
<1>3. \A j \in 1 .. Len(subq[u]) : subq[u][j] \in Roots
  BY DEF RootsInv
<1>4. CASE u = v
  <2>1. /\ subq'[u] = Append(subq[u], r) /\ Len(Append(subq[u], r)) = Len(subq[u]) + 1
        /\ Len(subq[u]) \in Nat /\ Append(subq[u], r)[Len(subq[u]) + 1] = r
        /\ \A j \in 1 .. Len(subq[u]) : Append(subq[u], r)[j] = subq[u][j]
    BY <1>2, <1>4
  <2>2. k = Len(subq[u]) + 1 \/ k \in 1 .. Len(subq[u])
    BY <2>1
  <2> QED
    BY <1>3, <2>1, <2>2
<1>5. CASE u # v
  BY <1>2, <1>3, <1>5
<1> QED
  BY <1>4, <1>5

\* Where the threads are, after every step.
LEMMA PopWhere ==
  ASSUME PoolInv, Where, NEW w \in Threads, NEW v \in Workers, pc[w] \in Taking,
         PopBottom(w, v) \/ PopSubq(w, v) \/ StealFrom(w, v)
  PROVE  Where'
<1>1. CASE PopBottom(w, v)
  <2>1. deque[v][Len(deque[v])] \in Tasks
    BY <1>1, PopBottomKeeps
  <2>2. PhaseInv' /\ (AllExited => AllExited')
    BY <1>1, <2>1, BeginPhase DEF PopBottom, PoolInv, Where
  <2> QED
    BY <1>1, <2>2, RootsKept DEF PopBottom, Where
<1>2. CASE PopSubq(w, v)
  <2>1. Head(subq[v]) \in Tasks
    BY <1>2, PopSubqKeeps
  <2>2. PhaseInv' /\ (AllExited => AllExited')
    BY <1>2, <2>1, BeginPhase DEF PopSubq, PoolInv, Where
  <2> QED
    BY <1>2, <2>2, RootsTaken DEF PoolInv, Where
<1>3. CASE StealFrom(w, v)
  <2>1. Head(deque[v]) \in Tasks
    BY <1>3, StealKeeps
  <2>2. PhaseInv' /\ (AllExited => AllExited')
    BY <1>3, <2>1, BeginPhase DEF StealFrom, PoolInv, Where
  <2> QED
    BY <1>3, <2>2, RootsKept DEF StealFrom, Where
<1> QED
  BY <1>1, <1>2, <1>3

LEMMA MoveWhere ==
  ASSUME PoolInv, Where, NEW w \in Workers, NEW from, from # "exit", NEW to \in WorkerPhases,
         to \notin {"run"} \cup Looking => stack[w] = <<>>, Move(w, from, to)
  PROVE  Where'
<1>1. PhaseInv'
  BY MovePhase DEF PoolInv, Where
<1>2. ~AllExited /\ UNCHANGED subq
  BY DEF AllExited, Move, Goto
<1> QED
  BY <1>1, <1>2, RootsKept DEF Where

LEMMA LookWhere ==
  ASSUME PoolInv, Where, NEW w \in Workers, Look(w)
  PROVE  Where'
<1>0. w \in Threads
  BY DEF Threads
<1>10. pc[w] \notin {"run"} \cup Looking => stack[w] = <<>>
  BY <1>0 DEF Where, PhaseInv
<1> USE DEF Taking, Looking, WorkerPhases
<1>1. CASE PollSubq(w) \/ TakeSubq(w)
  BY <1>0, <1>1, PopWhere DEF PollSubq, TakeSubq
<1>2. CASE TakeOwn(w)
  BY <1>0, <1>2, PopWhere DEF TakeOwn
<1>3. CASE OwnEmpty(w)
  BY <1>3, MoveWhere DEF OwnEmpty
<1>4. CASE SubqEmpty(w)
  BY <1>4, MoveWhere DEF SubqEmpty
<1>5. CASE \E v \in Workers : StealFrom(w, v)
  BY <1>0, <1>5, PopWhere DEF StealFrom
<1>6. CASE StealMiss(w)
  <2>1. CASE Idle(w)
    BY <1>6, <2>1, MoveWhere DEF StealMiss, Idle
  <2>2. CASE ~Idle(w)
    BY <1>6, <2>2, MoveWhere DEF StealMiss
  <2> QED
    BY <2>1, <2>2
<1>7. CASE CheckStop(w)
  <2>1. stack[w] = <<>>
    BY <1>7, <1>10 DEF CheckStop, Move, Goto
  <2> QED
    BY <1>7, <2>1, MoveWhere DEF CheckStop
<1>8. CASE DrainDeque(w)
  <2>1. CASE deque[w] # <<>>
    BY <1>0, <1>8, <2>1, PopWhere DEF DrainDeque
  <2>2. CASE deque[w] = <<>>
    BY <1>8, <1>10, <2>2, MoveWhere DEF DrainDeque, AfterDrain
  <2> QED
    BY <2>1, <2>2
<1>9. CASE DrainSubq(w)
  <2>1. CASE SubqReady(w)
    BY <1>0, <1>9, <2>1, PopWhere DEF DrainSubq
  <2>2. CASE ~SubqReady(w)
    BY <1>9, <1>10, <2>2, MoveWhere DEF DrainSubq
  <2> QED
    BY <2>1, <2>2
<1> QED
  BY <1>1, <1>2, <1>3, <1>4, <1>5, <1>6, <1>7, <1>8, <1>9 DEF Look

\* The frame on top moves on or goes; nothing else of the stacks changes.
LEMMA OthersKept ==
  ASSUME TypeOK, NEW w \in Threads, SubmitLocal(w) \/ SubmitExternal(w) \/ GetReady(w) \/ Finish(w)
  PROVE  \A u \in Threads : u # w => stack'[u] = stack[u]
BY DEF SubmitLocal, SubmitExternal, GetReady, Finish, Advance, TypeOK

LEMMA FinishPops ==
  ASSUME PoolInv, NEW w \in Threads, Finish(w), Len(stack[w]) = 1
  PROVE  stack'[w] = <<>>
<1>1. stack[w] # <<>> /\ stack \in [Threads -> Seq(Frames)] /\ stack' = [stack EXCEPT ![w] = Front(@)]
  BY TopFacts DEF Finish, PoolInv, TypeOK
<1>2. stack' \in [Threads -> Seq(Frames)] /\ Len(stack'[w]) = Len(stack[w]) - 1
  BY <1>1, PopFrame
<1>3. stack'[w] \in Seq(Frames) /\ Len(stack'[w]) = 0
  BY <1>2
<1> QED
  BY <1>3

LEMMA WorkerRunWhere ==
  ASSUME PoolInv, Where, NEW w \in Workers, Run(w)
  PROVE  Where'
<1>0. /\ w \in Threads /\ TypeOK /\ PhaseInv /\ base[w] \in {"own", "drain_deque", "drain_subq"}
      /\ base = [base EXCEPT ![w] = base[w]]
  BY DEF Threads, PoolInv, TypeOK, Where, PhaseInv
<1>1. CASE SubmitLocal(w) \/ GetReady(w) \/ Finish(w)
  <2>1. pc[w] = "run" /\ UNCHANGED <<subq, base>>
    BY <1>1 DEF SubmitLocal, GetReady, Finish, At, Running
  <2>2. \A u \in Threads : u # w => stack'[u] = stack[u]
    BY <1>0, <1>1, OthersKept
  <2>3. ~AllExited
    BY <2>1 DEF AllExited
  <2>4. PhaseInv'
    <3>1. CASE SubmitLocal(w) \/ GetReady(w)
      <4>1. pc' = [pc EXCEPT ![w] = "run"]
        BY <1>0, <2>1, <3>1 DEF SubmitLocal, GetReady, TypeOK
      <4> QED
        BY <1>0, <2>1, <2>2, <4>1, WorkerPhase DEF WorkerPhases
    <3>2. CASE Finish(w) /\ Len(stack[w]) = 1
      <4>1. pc' = [pc EXCEPT ![w] = base[w]] /\ stack'[w] = <<>>
        BY <1>0, <3>2, FinishPops DEF Finish
      <4> QED
        BY <1>0, <2>1, <2>2, <4>1, WorkerPhase DEF WorkerPhases, Looking
    <3>3. CASE Finish(w) /\ Len(stack[w]) # 1
      <4>1. pc' = [pc EXCEPT ![w] = "run"]
        BY <3>3 DEF Finish
      <4> QED
        BY <1>0, <2>1, <2>2, <4>1, WorkerPhase DEF WorkerPhases
    <3> QED
      BY <1>1, <3>1, <3>2, <3>3
  <2> QED
    BY <2>1, <2>3, <2>4, RootsKept DEF Where
<1>2. CASE SubmitExternal(w)
  BY <1>2 DEF SubmitExternal, OnPool
<1>3. CASE GetHelp(w)
  BY <1>3, MoveWhere DEF GetHelp, WorkerPhases, Looking
<1> QED
  BY <1>1, <1>2, <1>3 DEF Run

LEMMA MainRunWhere ==
  ASSUME PoolInv, Where, Run(Main)
  PROVE  Where'
<1>0. TypeOK /\ PhaseInv /\ Main \in Threads /\ Main \notin Workers /\ Workers \subseteq Threads
  BY DEF PoolInv, Where, Threads, Workers, Main
<1>1. SubmitExternal(Main) \/ GetReady(Main) \/ Finish(Main)
  BY <1>0 DEF Run, SubmitLocal, OnPool, GetHelp, Helps
<1>2. pc[Main] = "run" /\ UNCHANGED base
  BY <1>1 DEF SubmitExternal, GetReady, Finish, At, Running
<1>3. AllExited /\ base[Main] \in {"final_deques", "final_subqs"}
  BY <1>0, <1>2 DEF PhaseInv
<1>4. \A u \in Workers : stack'[u] = stack[u] /\ base'[u] = base[u]
  BY <1>0, <1>1, <1>2, OthersKept
<1>5. PhaseInv' /\ (AllExited' <=> AllExited)
  <2>1. CASE SubmitExternal(Main) \/ GetReady(Main)
    <3>1. pc' = [pc EXCEPT ![Main] = "run"]
      BY <1>0, <1>2, <2>1 DEF SubmitExternal, GetReady, TypeOK
    <3> QED
      BY <1>0, <1>2, <1>3, <1>4, <3>1, MainPhase DEF MainPhases
  <2>2. CASE Finish(Main) /\ Len(stack[Main]) = 1
    <3>1. pc' = [pc EXCEPT ![Main] = base[Main]] /\ stack'[Main] = <<>>
      BY <1>0, <2>2, FinishPops DEF Finish
    <3> QED
      BY <1>0, <1>2, <1>3, <1>4, <3>1, MainPhase DEF MainPhases
  <2>3. CASE Finish(Main) /\ Len(stack[Main]) # 1
    <3>1. pc' = [pc EXCEPT ![Main] = "run"]
      BY <2>3 DEF Finish
    <3> QED
      BY <1>0, <1>2, <1>3, <1>4, <3>1, MainPhase DEF MainPhases
  <2> QED
    BY <1>1, <2>1, <2>2, <2>3
<1> QED
  BY <1>3, <1>5 DEF Where, RootsInv

LEMMA DestructorWhere ==
  ASSUME PoolInv, Where, Destructor
  PROVE  Where'
<1>0. /\ TypeOK /\ PhaseInv /\ RootsInv /\ Main \in Threads /\ cursor \in Workers
      /\ (pc[Main] # "run" => stack[Main] = <<>>)
  BY DEF PoolInv, TypeOK, Where, Threads, PhaseInv, MainPhases, Looking
<1>6. ASSUME NEW x \in MainPhases \ {"run"}, pc' = [pc EXCEPT ![Main] = x], pc[Main] # "run",
             x \notin {"up", "join"} => AllExited, UNCHANGED <<stack, base, subq>>
      PROVE  Where'
  <2>1. PhaseInv' /\ (AllExited' <=> AllExited)
    BY <1>0, <1>6, MainPhase
  <2> QED
    BY <1>0, <1>6, <2>1, RootsKept DEF Where
<1>1. CASE Destroy
  BY <1>1, <1>6 DEF Destroy, Move, Goto, MainPhases
<1>2. CASE Join
  BY <1>2, <1>6 DEF Join, Move, Goto, MainPhases, AllExited
<1>3. CASE FinalDeques
  <2>1. CASE deque[cursor] # <<>>
    BY <1>0, <1>3, <2>1, PopWhere DEF FinalDeques, Taking
  <2>2. CASE deque[cursor] = <<>>
    <3>1. AllExited /\ pc[Main] = "final_deques"
      BY <1>0, <1>3 DEF FinalDeques, PhaseInv
    <3> QED
      BY <1>3, <1>6, <2>2, <3>1 DEF FinalDeques, NextQueue, MainPhases
  <2> QED
    BY <2>1, <2>2
<1>4. CASE FinalSubqs
  <2>1. CASE SubqReady(cursor)
    BY <1>0, <1>4, <2>1, PopWhere DEF FinalSubqs, Taking
  <2>2. CASE ~SubqReady(cursor)
    <3>1. AllExited /\ pc[Main] = "final_subqs"
      BY <1>0, <1>4 DEF FinalSubqs, PhaseInv
    <3> QED
      BY <1>4, <1>6, <2>2, <3>1 DEF FinalSubqs, NextQueue, MainPhases
  <2> QED
    BY <2>1, <2>2
<1>5. CASE Run(Main)
  BY <1>5, MainRunWhere
<1> QED
  BY <1>1, <1>2, <1>3, <1>4, <1>5 DEF Destructor

LEMMA ClientWhere ==
  ASSUME PoolInv, Where, NEW r \in Roots, Client(r)
  PROVE  Where'
<1>1. UNCHANGED <<pc, base, stack>>
  BY DEF Client, ClientSubmit, ClientLink
<1>2. PhaseInv' /\ (AllExited' <=> AllExited)
  BY <1>1 DEF Where, PhaseInv, AllExited
<1>3. RootsInv'
  <2>1. CASE ClientSubmit(r)
    <3>1. Target \in Workers
      BY TargetFacts DEF PoolInv, TypeOK
    <3> QED
      BY <1>1, <2>1, <3>1, RootsAdded DEF ClientSubmit, PoolInv, Where
  <2>2. CASE ClientLink(r)
    BY <1>2, <2>2, RootsKept DEF ClientLink, Where
  <2> QED
    BY <2>1, <2>2 DEF Client
<1> QED
  BY <1>2, <1>3 DEF Where

LEMMA StepWhere == ASSUME PoolInv, Where, [Next]_vars PROVE Where'
<1>1. ASSUME NEW w \in Workers, Worker(w) PROVE Where'
  BY <1>1, LookWhere, WorkerRunWhere DEF Worker
<1>2. ASSUME NEW r \in Roots, Client(r) PROVE Where'
  BY <1>2, ClientWhere
<1>3. ASSUME Destructor PROVE Where'
  BY <1>3, DestructorWhere
<1>4. ASSUME UNCHANGED vars PROVE Where'
  BY <1>4 DEF vars, Where, PhaseInv, RootsInv, AllExited
<1> QED
  BY <1>1, <1>2, <1>3, <1>4 DEF Next, Gone

LEMMA InitWhere == ASSUME Init PROVE Where
<1>1. Main \in Threads /\ Main \notin Workers /\ Workers \subseteq Threads
  BY DEF Threads, Workers, Main
<1>2. pc[Main] = "up" /\ \A w \in Workers : pc[w] = "own" /\ base[w] = "own"
  BY <1>1 DEF Init
<1>3. \A w \in Threads : stack[w] = <<>>
  BY DEF Init
<1>4. PhaseInv
  BY <1>2, <1>3 DEF PhaseInv, WorkerPhases, MainPhases, Looking
<1>5. RootsInv
  BY DEF Init, RootsInv
<1> QED
  BY <1>4, <1>5 DEF Where
=============================================================================
