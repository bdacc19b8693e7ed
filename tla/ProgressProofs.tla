--------------------------- MODULE ProgressProofs ---------------------------
(***************************************************************************)
(* What becomes of the tasks of the pool, for any number of workers and    *)
(* any tasks: the workers never all wait for tasks that nobody processes   *)
(* (NoStarvation), and ~ThreadPool leaves nothing undone but what is late  *)
(* (ShutdownRunsAll).                                                      *)
(***************************************************************************)
EXTENDS PoolProofs

-----------------------------------------------------------------------------
(***************************************************************************)
(* What ~ThreadPool leaves.  A worker puts what its tasks submit into its  *)
(* deque, so that what is left over in a deque was submitted by a task;    *)
(* the destructor puts what such a task submits into a submission queue,   *)
(* and a worker exits only when its own is empty.                          *)
(***************************************************************************)
Items(s) == {s[k] : k \in 1 .. Len(s)}
OnMain == {stack[Main][i].task : i \in 1 .. Len(stack[Main])}

Children == SubmittedBy(Tasks)
Children2 == SubmittedBy(Children)
Children3 == SubmittedBy(Children2)

\* The part of ~ThreadPool that the destructor is in.
Stage == IF pc[Main] = "run" THEN base[Main] ELSE pc[Main]
Draining == {"drain_deque", "drain_subq"}

DequesInv == \A v \in Workers : Items(deque[v]) \subseteq Children
StopInv ==
  /\ Stopped => unlinked = {}
  /\ \A w \in Workers : pc[w] \in Draining \cup {"exit"} \/ base[w] \in Draining => Stopped
ExitInv ==
  Stage \in {"up", "join"} => cursor = 1 /\ \A w \in Workers : pc[w] = "exit" => subq[w] = <<>>
FinalInv ==
  /\ Stage = "final_deques" =>
       /\ \A v \in Workers : v < cursor => deque[v] = <<>>
       /\ \A v \in Workers : Items(subq[v]) \subseteq Children2
       /\ OnMain \subseteq Children
  /\ Stage = "final_subqs" =>
       /\ \A v \in Workers : deque[v] = <<>>
       /\ \A v \in Workers : Items(subq[v]) \subseteq Children2
       /\ \A v \in Workers : v < cursor => Items(subq[v]) \subseteq Children3
       /\ OnMain \subseteq Children2
  /\ Stage = "gone" =>
       /\ \A v \in Workers : deque[v] = <<>>
       /\ \A v \in Workers : Items(subq[v]) \subseteq Children3
DrainInv == DequesInv /\ StopInv /\ ExitInv /\ FinalInv

\* What is in a queue from which an item is taken, or to which one is added.
LEMMA ItemsTaken ==
  ASSUME NEW S, NEW s \in Seq(S), s # <<>>
  PROVE  /\ Items(Front(s)) \subseteq Items(s) /\ s[Len(s)] \in Items(s)
         /\ Items(Tail(s)) \subseteq Items(s) /\ Head(s) \in Items(s)
<1>1. Len(s) \in Nat \ {0}
  OBVIOUS
<1>2. Items(Front(s)) \subseteq Items(s)
  <2>1. Len(Front(s)) = Len(s) - 1 /\ \A i \in 1 .. Len(s) - 1 : Front(s)[i] = s[i]
    BY FrontFacts
  <2>2. \A i \in 1 .. Len(s) - 1 : i \in 1 .. Len(s)
    BY <1>1
  <2> QED
    BY <2>1, <2>2 DEF Items
<1>3. Items(Tail(s)) \subseteq Items(s)
  <2>1. Len(Tail(s)) = Len(s) - 1 /\ \A i \in 1 .. Len(s) - 1 : Tail(s)[i] = s[i + 1]
    OBVIOUS
  <2>2. \A i \in 1 .. Len(s) - 1 : i + 1 \in 1 .. Len(s)
    BY <1>1
  <2> QED
    BY <2>1, <2>2 DEF Items
<1>4. Head(s) = s[1] /\ 1 \in 1 .. Len(s) /\ Len(s) \in 1 .. Len(s)
  BY <1>1
<1> QED
  BY <1>2, <1>3, <1>4 DEF Items

LEMMA ItemsAdded ==
  ASSUME NEW S, NEW s \in Seq(S), NEW t \in S
  PROVE  Items(Append(s, t)) \subseteq Items(s) \cup {t}
<1>1. /\ Len(s) \in Nat /\ Len(Append(s, t)) = Len(s) + 1
      /\ Append(s, t)[Len(s) + 1] = t /\ \A k \in 1 .. Len(s) : Append(s, t)[k] = s[k]
  OBVIOUS
<1>2. \A k \in 1 .. Len(s) + 1 : k \in 1 .. Len(s) \/ k = Len(s) + 1
  BY <1>1
<1> QED
  BY <1>1, <1>2 DEF Items

LEMMA ItemsNone == Items(<<>>) = {}
<1>1. Len(<<>>) = 0 /\ 1 .. 0 = {}
  OBVIOUS
<1> QED
  BY <1>1 DEF Items

LEMMA Generations == /\ Children2 \subseteq Children /\ Children3 \subseteq Children2
                     /\ Children \subseteq Tasks
<1>1. Children2 \subseteq Children /\ Children \subseteq Tasks
  BY DEF Children2, Children, SubmittedBy
<1> QED
  BY <1>1 DEF Children3, Children2, SubmittedBy

\* The instruction of a thread that submits makes a task of the next generation.
LEMMA SubmitsNext ==
  ASSUME TypeOK, FrameInv, NEW w \in Threads, At(w, "submit"), NEW S, Top(w).task \in S
  PROVE  Instr(w).task \in SubmittedBy(S) /\ Instr(w).task \in Tasks /\ Top(w).task \in Tasks
<1>1. /\ Top(w).at \in 1 .. Len(Program[Top(w).task]) /\ Instr(w).task \in Tasks
      /\ Instr(w) = [op |-> "submit", task |-> Instr(w).task] /\ Running(w)
  BY InstrFacts
<1>2. Top(w).task \in Tasks
  BY <1>1, TopFacts DEF Frames
<1>3. Submits(Top(w).task, Top(w).at, Instr(w).task)
  BY <1>1 DEF Submits, Instr
<1> QED
  BY <1>1, <1>2, <1>3 DEF SubmittedBy

-----------------------------------------------------------------------------
\* A worker takes a step: the destructor has not got past join().
LEMMA WorkerDrains ==
  ASSUME TypeOK, PhaseInv, DrainInv, NEW w \in Workers, pc[w] # "exit", NEW x, NEW b,
         pc' = [pc EXCEPT ![w] = x], base' = [base EXCEPT ![w] = b],
         x \in Draining \cup {"exit"} \/ b \in Draining => Stopped,
         \A v \in Workers : Items(deque'[v]) \subseteq Children,
         \A v \in Workers : subq[v] = <<>> => subq'[v] = <<>>,
         x = "exit" => subq'[w] = <<>>,
         UNCHANGED <<unlinked, cursor>>
  PROVE  DrainInv'
<1>1. pc[Main] \in {"up", "join"}
  BY DEF PhaseInv, AllExited
<1>2. /\ w \in Threads /\ Main \in Threads /\ Main # w
      /\ \A u \in Workers : u \in Threads
  BY DEF Threads, Workers, Main
<1>3. /\ pc'[Main] = pc[Main] /\ pc'[w] = x /\ base'[w] = b
      /\ \A u \in Workers : u # w => pc'[u] = pc[u] /\ base'[u] = base[u]
  BY ONLY <1>2, pc' = [pc EXCEPT ![w] = x], base' = [base EXCEPT ![w] = b], TypeOK DEF TypeOK
<1>4. Stage' = Stage /\ Stage = pc[Main] /\ Stopped' = Stopped
  BY ONLY <1>1, <1>3 DEF Stage, Stopped
<1>5. DequesInv'
  BY DEF DequesInv, Children, SubmittedBy
<1>6. StopInv'
  BY <1>3, <1>4 DEF StopInv, DrainInv
<1>7. ExitInv'
  BY <1>1, <1>3, <1>4 DEF ExitInv, DrainInv
<1>8. FinalInv'
  BY ONLY <1>1, <1>4 DEF FinalInv
<1> QED
  BY <1>5, <1>6, <1>7, <1>8 DEF DrainInv

LEMMA PopDrains ==
  ASSUME PoolInv, PhaseInv, DrainInv, NEW w \in Workers, NEW v \in Workers,
         pc[w] \in Looking \cup Draining, PopBottom(w, v) \/ PopSubq(w, v) \/ StealFrom(w, v)
  PROVE  DrainInv'
<1> DEFINE b == IF stack[w] = <<>> THEN ReturnTo(w) ELSE base[w]
<1>1. TypeOK /\ w \in Threads /\ pc[w] # "exit"
  BY DEF PoolInv, Threads, Looking, Draining
<1>2. /\ pc' = [pc EXCEPT ![w] = "run"] /\ base' = [base EXCEPT ![w] = b]
      /\ UNCHANGED <<unlinked, cursor>>
  BY DEF PopBottom, PopSubq, StealFrom, Begin
<1>3. b \in Draining => Stopped
  BY DEF DrainInv, StopInv, ReturnTo, Looking, Draining
<1>4. \A u \in Workers : Items(deque'[u]) \subseteq Items(deque[u])
  <2>0. deque \in [Workers -> Seq(Tasks)] /\ deque[v] \in Seq(Tasks)
    BY <1>1 DEF TypeOK
  <2>1. CASE PopBottom(w, v)
    BY <2>0, <2>1, ItemsTaken DEF PopBottom, WithoutBottom
  <2>2. CASE PopSubq(w, v)
    BY <2>2 DEF PopSubq
  <2>3. CASE StealFrom(w, v)
    BY <2>0, <2>3, ItemsTaken DEF StealFrom
  <2> QED
    BY <2>1, <2>2, <2>3
<1>5. \A u \in Workers : subq[u] = <<>> => subq'[u] = <<>>
  BY <1>1 DEF PopBottom, PopSubq, StealFrom, SubqReady, TypeOK
<1>6. \A u \in Workers : Items(deque'[u]) \subseteq Children
  BY <1>4 DEF DrainInv, DequesInv
<1>7. "run" \notin Draining \cup {"exit"}
  BY DEF Draining
<1> HIDE DEF b
<1> QED
  BY <1>1, <1>2, <1>3, <1>5, <1>6, <1>7, WorkerDrains

LEMMA MoveDrains ==
  ASSUME PoolInv, PhaseInv, DrainInv, NEW w \in Workers, pc[w] # "exit", NEW from, NEW to,
         Move(w, from, to), to \in Draining \cup {"exit"} => Stopped,
         to = "exit" => subq[w] = <<>>
  PROVE  DrainInv'
<1>1. TypeOK /\ w \in Threads
  BY DEF PoolInv, Threads
<1>2. /\ pc' = [pc EXCEPT ![w] = to] /\ UNCHANGED <<deque, subq, unlinked, base, cursor>>
      /\ base' = [base EXCEPT ![w] = base[w]]
  BY <1>1 DEF Move, Goto, TypeOK
<1>3. base[w] \in Draining => Stopped
  BY DEF DrainInv, StopInv
<1>4. \A u \in Workers : Items(deque'[u]) \subseteq Children
  BY <1>2 DEF DrainInv, DequesInv
<1> QED
  BY <1>1, <1>2, <1>3, <1>4, WorkerDrains

LEMMA LookDrains ==
  ASSUME PoolInv, PhaseInv, DrainInv, NEW w \in Workers, Look(w)
  PROVE  DrainInv'
<1>1. CASE PollSubq(w) \/ TakeOwn(w) \/ TakeSubq(w)
  BY <1>1, PopDrains DEF PollSubq, TakeOwn, TakeSubq, Looking
<1>2. CASE OwnEmpty(w)
  BY <1>2, MoveDrains DEF OwnEmpty, Move, Goto, Draining
<1>3. CASE SubqEmpty(w)
  BY <1>3, MoveDrains DEF SubqEmpty, Move, Goto, Draining
<1>4. CASE \E v \in Workers : StealFrom(w, v)
  BY <1>4, PopDrains DEF StealFrom, Looking
<1>5. CASE StealMiss(w)
  <2> DEFINE to == IF Idle(w) THEN "check" ELSE "run"
  <2>1. pc[w] = "steal" /\ Move(w, "steal", to) /\ to \notin Draining \cup {"exit"}
    BY <1>5 DEF StealMiss, Move, Goto, Draining
  <2> HIDE DEF to
  <2> QED
    BY <2>1, MoveDrains
<1>6. CASE CheckStop(w)
  <2> DEFINE to == IF Stopped THEN "drain_deque" ELSE "own"
  <2>1. /\ pc[w] = "check" /\ Move(w, "check", to) /\ to # "exit"
        /\ to \in Draining \cup {"exit"} => Stopped
    BY <1>6 DEF CheckStop, SeesStop, Move, Goto, Draining
  <2> HIDE DEF to
  <2> QED
    BY <2>1, MoveDrains
<1>7. CASE DrainDeque(w)
  <2>1. pc[w] = "drain_deque" /\ pc[w] \in Draining /\ Stopped
    BY <1>7 DEF DrainDeque, Draining, DrainInv, StopInv
  <2>2. CASE PopBottom(w, w)
    BY <2>1, <2>2, PopDrains
  <2>3. CASE Move(w, "drain_deque", "drain_subq")
    BY <2>1, <2>3, MoveDrains
  <2> QED
    BY <1>7, <2>2, <2>3 DEF DrainDeque, AfterDrain
<1>8. CASE DrainSubq(w)
  <2>1. pc[w] = "drain_subq" /\ pc[w] \in Draining /\ Stopped /\ unlinked = {}
    BY <1>8 DEF DrainSubq, Draining, DrainInv, StopInv
  <2>2. CASE PopSubq(w, w)
    BY <2>1, <2>2, PopDrains
  <2>3. CASE ~SubqReady(w) /\ Move(w, "drain_subq", "exit")
    <3>1. subq[w] = <<>>
      BY <2>1, <2>3 DEF SubqReady
    <3> QED
      BY <2>1, <2>3, <3>1, MoveDrains
  <2> QED
    BY <1>8, <2>2, <2>3 DEF DrainSubq
<1> QED
  BY <1>1, <1>2, <1>3, <1>4, <1>5, <1>6, <1>7, <1>8 DEF Look

LEMMA WorkerRunDrains ==
  ASSUME PoolInv, PhaseInv, DrainInv, NEW w \in Workers, Run(w)
  PROVE  DrainInv'
<1>1. TypeOK /\ FrameInv /\ w \in Threads /\ base = [base EXCEPT ![w] = base[w]]
  BY DEF PoolInv, Threads, TypeOK
<1>2. pc[w] = "run" /\ (base[w] \in Draining => Stopped)
  BY DEF Run, SubmitLocal, SubmitExternal, GetReady, GetHelp, Finish, At, Running, DrainInv, StopInv
<1>3. \A u \in Workers : Items(deque[u]) \subseteq Children
  BY DEF DrainInv, DequesInv
<1>4. CASE SubmitLocal(w)
  <2> DEFINE t == Instr(w).task
  <2>1. /\ pc' = [pc EXCEPT ![w] = "run"] /\ deque' = [deque EXCEPT ![w] = Append(@, t)]
        /\ UNCHANGED <<subq, unlinked, base, cursor>>
    BY <1>1, <1>2, <1>4 DEF SubmitLocal, TypeOK
  <2>2. t \in Children /\ t \in Tasks
    <3>1. Top(w).task \in Tasks
      BY <1>1, <1>2, TopFacts DEF Running, Frames
    <3> QED
      BY <1>1, <1>4, <3>1, SubmitsNext DEF SubmitLocal, Children
  <2>3. deque \in [Workers -> Seq(Tasks)] /\ deque[w] \in Seq(Tasks)
    BY <1>1 DEF TypeOK
  <2>4. Items(Append(deque[w], t)) \subseteq Items(deque[w]) \cup {t}
    BY <2>2, <2>3, ItemsAdded
  <2> HIDE DEF t
  <2>5. \A u \in Workers : Items(deque'[u]) \subseteq Children
    BY <1>3, <2>1, <2>2, <2>3, <2>4
  <2> QED
    BY <1>1, <1>2, <2>1, <2>5, WorkerDrains DEF Draining
<1>5. CASE GetReady(w)
  <2>1. /\ pc' = [pc EXCEPT ![w] = "run"] /\ UNCHANGED <<deque, subq, unlinked, base, cursor>>
    BY <1>1, <1>2, <1>5 DEF GetReady, TypeOK
  <2> QED
    BY <1>1, <1>2, <1>3, <2>1, WorkerDrains DEF Draining
<1>6. CASE GetHelp(w)
  BY <1>2, <1>6, MoveDrains DEF GetHelp, Draining
<1>7. CASE Finish(w)
  <2> DEFINE x == IF Len(stack[w]) = 1 THEN base[w] ELSE "run"
  <2>1. pc' = [pc EXCEPT ![w] = x] /\ UNCHANGED <<deque, subq, unlinked, base, cursor>>
    BY <1>7 DEF Finish
  <2>2. x # "exit" /\ (x \in Draining \cup {"exit"} => Stopped)
    BY <1>2 DEF PhaseInv, Draining
  <2> HIDE DEF x
  <2> QED
    BY <1>1, <1>2, <1>3, <2>1, <2>2, WorkerDrains
<1>8. ~SubmitExternal(w)
  BY DEF SubmitExternal, OnPool
<1> QED
  BY <1>4, <1>5, <1>6, <1>7, <1>8 DEF Run

-----------------------------------------------------------------------------
\* A client submits before the destructor is called, when no worker exits.
LEMMA ClientDrains ==
  ASSUME PoolInv, PhaseInv, DrainInv, NEW r \in Roots, Client(r)
  PROVE  DrainInv'
<1>1. UNCHANGED <<deque, pc, base, stack, cursor>>
  BY DEF Client, ClientSubmit, ClientLink
<1>2. Stage' = Stage /\ Stopped' = Stopped /\ OnMain' = OnMain
  BY <1>1 DEF Stage, Stopped, OnMain
<1>3. DequesInv'
  BY <1>1 DEF DrainInv, DequesInv
<1>4. CASE ClientSubmit(r)
  <2>1. ~Stopped /\ Stage = "up"
    BY <1>4 DEF ClientSubmit, Stopped, Stage
  <2>2. StopInv'
    BY <1>1, <1>2, <2>1 DEF DrainInv, StopInv
  <2>3. ExitInv'
    BY <1>1, <1>2, <2>1 DEF DrainInv, StopInv, ExitInv
  <2>4. FinalInv'
    BY ONLY <1>2, <2>1 DEF FinalInv
  <2> QED
    BY <1>3, <2>2, <2>3, <2>4 DEF DrainInv
<1>5. CASE ClientLink(r)
  <2>1. UNCHANGED subq /\ unlinked' \subseteq unlinked
    BY <1>5 DEF ClientLink, AfterLink
  <2>2. StopInv'
    BY <1>1, <1>2, <2>1 DEF DrainInv, StopInv
  <2>3. ExitInv'
    BY <1>1, <1>2, <2>1 DEF DrainInv, ExitInv
  <2>4. FinalInv'
    BY <1>1, <1>2, <2>1 DEF DrainInv, FinalInv
  <2> QED
    BY <1>3, <2>2, <2>3, <2>4 DEF DrainInv
<1> QED
  BY <1>4, <1>5 DEF Client

\* The destructor takes a step after the last worker has exited.
LEMMA MainDrains ==
  ASSUME TypeOK, PhaseInv, DrainInv, pc[Main] # "up",
         \A w \in Workers : pc'[w] = pc[w] /\ base'[w] = base[w],
         \A v \in Workers : Items(deque'[v]) \subseteq Items(deque[v]),
         Stage' \notin {"up", "join"}, pc'[Main] # "up", FinalInv', UNCHANGED unlinked
  PROVE  DrainInv'
<1>1. Stopped /\ Stopped'
  BY DEF Stopped
<1>2. DequesInv'
  BY DEF DrainInv, DequesInv
<1>3. StopInv'
  BY <1>1 DEF DrainInv, StopInv
<1>4. ExitInv'
  BY DEF ExitInv
<1> QED
  BY <1>2, <1>3, <1>4 DEF DrainInv

\* The destructor starts a task that is left over.
LEMMA MainBegins ==
  ASSUME PoolInv, PhaseInv, pc[Main] \in {"final_deques", "final_subqs"}, NEW t \in Tasks,
         Begin(Main, t)
  PROVE  /\ Stage = pc[Main] /\ Stage' = pc[Main] /\ pc'[Main] = "run" /\ OnMain' = {t}
         /\ \A w \in Workers : pc'[w] = pc[w] /\ base'[w] = base[w]
<1>1. /\ TypeOK /\ Main \in Threads /\ Main \notin Workers /\ \A w \in Workers : w \in Threads
  BY DEF PoolInv, Threads, Workers, Main
<1>2. stack[Main] = <<>>
  BY <1>1 DEF PhaseInv, Looking
<1>3. /\ pc' = [pc EXCEPT ![Main] = "run"] /\ base' = [base EXCEPT ![Main] = pc[Main]]
      /\ stack' = [stack EXCEPT ![Main] = Append(@, [task |-> t, at |-> 1])]
  BY <1>2 DEF Begin, ReturnTo
<1>4. /\ pc'[Main] = "run" /\ base'[Main] = pc[Main]
      /\ \A w \in Workers : pc'[w] = pc[w] /\ base'[w] = base[w]
  BY <1>1, <1>3 DEF TypeOK
<1>5. stack'[Main] = <<[task |-> t, at |-> 1]>>
  BY <1>1, <1>2, <1>3 DEF TypeOK
<1>6. Len(stack'[Main]) = 1 /\ stack'[Main][1].task = t /\ 1 .. 1 = {1}
  BY <1>5
<1>7. OnMain' = {t}
  BY <1>6 DEF OnMain
<1>8. Stage = pc[Main] /\ Stage' = pc[Main]
  BY <1>4 DEF Stage
<1> QED
  BY <1>4, <1>7, <1>8

LEMMA FinalDequesDrains ==
  ASSUME PoolInv, PhaseInv, DrainInv, FinalDeques
  PROVE  DrainInv'
<1>1. /\ TypeOK /\ pc[Main] = "final_deques" /\ cursor \in Workers /\ Main \in Threads
      /\ Main \notin Workers /\ \A w \in Workers : w \in Threads
  BY DEF PoolInv, TypeOK, FinalDeques, Threads, Workers, Main
<1>2. Stage = "final_deques"
  BY <1>1 DEF Stage
<1>3. /\ \A v \in Workers : v < cursor => deque[v] = <<>>
      /\ \A v \in Workers : Items(subq[v]) \subseteq Children2
      /\ \A v \in Workers : Items(deque[v]) \subseteq Children
  BY <1>2 DEF DrainInv, FinalInv, DequesInv
<1>4. CASE deque[cursor] # <<>> /\ PopBottom(Main, cursor)
  <2> DEFINE t == deque[cursor][Len(deque[cursor])]
  <2>1. deque \in [Workers -> Seq(Tasks)] /\ deque[cursor] \in Seq(Tasks) /\ deque[cursor] # <<>>
    BY <1>1, <1>4 DEF TypeOK
  <2>2. t \in Items(deque[cursor]) /\ Items(Front(deque[cursor])) \subseteq Items(deque[cursor])
    BY <2>1, ItemsTaken
  <2>3. t \in Children /\ t \in Tasks
    BY <1>1, <1>3, <2>2, Generations
  <2>4. /\ deque' = [deque EXCEPT ![cursor] = Front(@)] /\ Begin(Main, t)
        /\ UNCHANGED <<subq, unlinked, cursor>>
    BY <1>4 DEF PopBottom, WithoutBottom
  <2> HIDE DEF t
  <2>5. /\ Stage' = "final_deques" /\ pc'[Main] = "run" /\ OnMain' = {t}
        /\ \A w \in Workers : pc'[w] = pc[w] /\ base'[w] = base[w]
    BY <1>1, <2>3, <2>4, MainBegins
  <2>6. \A v \in Workers : v # cursor => deque'[v] = deque[v]
    BY <2>1, <2>4
  <2>7. \A v \in Workers : v < cursor => v # cursor
    BY <1>1 DEF Workers
  <2>8. FinalInv'
    BY <1>3, <2>3, <2>4, <2>5, <2>6, <2>7 DEF FinalInv
  <2>9. \A v \in Workers : Items(deque'[v]) \subseteq Items(deque[v])
    BY <1>1, <2>1, <2>2, <2>4
  <2> QED
    BY <1>1, <2>4, <2>5, <2>8, <2>9, MainDrains
<1>5. CASE deque[cursor] = <<>> /\ NextQueue("final_deques", "final_subqs")
  <2>1. /\ pc' = [pc EXCEPT ![Main] = IF LastQueue THEN "final_subqs" ELSE "final_deques"]
        /\ cursor' = IF LastQueue THEN 1 ELSE cursor + 1
        /\ UNCHANGED <<deque, subq, unlinked, base, stack>>
    BY <1>5 DEF NextQueue
  <2>2. /\ pc'[Main] = (IF LastQueue THEN "final_subqs" ELSE "final_deques") /\ Stage' = pc'[Main]
        /\ \A w \in Workers : pc'[w] = pc[w] /\ base'[w] = base[w]
    BY <1>1, <2>1 DEF TypeOK, Stage
  <2>3. \A v \in Workers : v < cursor + 1 => deque[v] = <<>>
    <3>1. \A v \in Workers : v < cursor + 1 => v < cursor \/ v = cursor
      BY <1>1 DEF Workers
    <3> QED
      BY <1>3, <1>5, <3>1
  <2>4. stack[Main] = <<>>
    BY <1>1 DEF PhaseInv, Looking
  <2>5. OnMain' = {}
    <3>1. Len(stack'[Main]) = 0 /\ 1 .. 0 = {}
      BY <2>1, <2>4
    <3> QED
      BY <3>1 DEF OnMain
  <2>6. CASE LastQueue
    <3>1. \A v \in Workers : v < cursor + 1 /\ ~(v < 1)
      BY <2>6, PoolAssumption DEF LastQueue, Workers
    <3> QED
      BY <1>1, <1>3, <2>1, <2>2, <2>3, <2>5, <2>6, <3>1, MainDrains DEF FinalInv
  <2>7. CASE ~LastQueue
    BY <1>1, <1>3, <2>1, <2>2, <2>3, <2>5, <2>7, MainDrains DEF FinalInv
  <2> QED
    BY <2>6, <2>7
<1> QED
  BY <1>4, <1>5 DEF FinalDeques

LEMMA FinalSubqsDrains ==
  ASSUME PoolInv, PhaseInv, DrainInv, FinalSubqs
  PROVE  DrainInv'
<1>1. /\ TypeOK /\ pc[Main] = "final_subqs" /\ cursor \in Workers /\ Main \in Threads
      /\ Main \notin Workers /\ \A w \in Workers : w \in Threads
  BY DEF PoolInv, TypeOK, FinalSubqs, Threads, Workers, Main
<1>2. Stage = "final_subqs" /\ unlinked = {}
  BY <1>1 DEF Stage, DrainInv, StopInv, Stopped
<1>3. /\ \A v \in Workers : deque[v] = <<>>
      /\ \A v \in Workers : v < cursor => Items(subq[v]) \subseteq Children3
      /\ \A v \in Workers : Items(subq[v]) \subseteq Children2
  BY <1>2 DEF DrainInv, FinalInv
<1>4. CASE SubqReady(cursor) /\ PopSubq(Main, cursor)
  <2> DEFINE t == Head(subq[cursor])
  <2>1. subq \in [Workers -> Seq(Tasks)] /\ subq[cursor] \in Seq(Tasks) /\ subq[cursor] # <<>>
    BY <1>1, <1>4 DEF TypeOK, SubqReady
  <2>2. t \in Items(subq[cursor]) /\ Items(Tail(subq[cursor])) \subseteq Items(subq[cursor])
    BY <2>1, ItemsTaken
  <2>3. t \in Children2 /\ t \in Tasks
    BY <1>1, <1>3, <2>2, Generations
  <2>4. /\ subq' = [subq EXCEPT ![cursor] = Tail(@)] /\ Begin(Main, t)
        /\ UNCHANGED <<deque, unlinked, cursor>>
    BY <1>4 DEF PopSubq
  <2> HIDE DEF t
  <2>5. /\ Stage' = "final_subqs" /\ pc'[Main] = "run" /\ OnMain' = {t}
        /\ \A w \in Workers : pc'[w] = pc[w] /\ base'[w] = base[w]
    BY <1>1, <2>3, <2>4, MainBegins
  <2>6. \A v \in Workers : Items(subq'[v]) \subseteq Items(subq[v])
    BY <1>1, <2>1, <2>2, <2>4
  <2>7. FinalInv'
    BY <1>3, <2>3, <2>4, <2>5, <2>6 DEF FinalInv
  <2> QED
    BY <1>1, <2>4, <2>5, <2>7, MainDrains
<1>5. CASE ~SubqReady(cursor) /\ NextQueue("final_subqs", "gone")
  <2>1. /\ pc' = [pc EXCEPT ![Main] = IF LastQueue THEN "gone" ELSE "final_subqs"]
        /\ cursor' = IF LastQueue THEN 1 ELSE cursor + 1
        /\ UNCHANGED <<deque, subq, unlinked, base, stack>>
    BY <1>5 DEF NextQueue
  <2>2. /\ pc'[Main] = (IF LastQueue THEN "gone" ELSE "final_subqs") /\ Stage' = pc'[Main]
        /\ \A w \in Workers : pc'[w] = pc[w] /\ base'[w] = base[w]
    BY <1>1, <2>1 DEF TypeOK, Stage
  <2>3. \A v \in Workers : v < cursor + 1 => Items(subq[v]) \subseteq Children3
    <3>1. \A v \in Workers : v < cursor + 1 => v < cursor \/ v = cursor
      BY <1>1 DEF Workers
    <3>2. Items(subq[cursor]) = {}
      BY <1>2, <1>5, ItemsNone DEF SubqReady
    <3> QED
      BY <1>3, <3>1, <3>2
  <2>4. stack[Main] = <<>>
    BY <1>1 DEF PhaseInv, Looking
  <2>5. OnMain' = {}
    <3>1. Len(stack'[Main]) = 0 /\ 1 .. 0 = {}
      BY <2>1, <2>4
    <3> QED
      BY <3>1 DEF OnMain
  <2>6. CASE LastQueue
    <3>1. \A v \in Workers : v < cursor + 1
      BY <2>6, PoolAssumption DEF LastQueue, Workers
    <3> QED
      BY <1>1, <1>3, <2>1, <2>2, <2>3, <2>6, <3>1, MainDrains DEF FinalInv
  <2>7. CASE ~LastQueue
    BY <1>1, <1>3, <2>1, <2>2, <2>3, <2>5, <2>7, MainDrains DEF FinalInv
  <2> QED
    BY <2>6, <2>7
<1> QED
  BY <1>4, <1>5 DEF FinalSubqs

\* A task that the destructor runs submits to a submission queue.
LEMMA MainRunDrains ==
  ASSUME PoolInv, PhaseInv, DrainInv, Run(Main)
  PROVE  DrainInv'
<1>1. /\ TypeOK /\ FrameInv /\ Main \in Threads /\ Main \notin Workers
      /\ \A w \in Workers : w \in Threads
  BY DEF PoolInv, Threads, Workers, Main
<1>2. ~SubmitLocal(Main) /\ ~GetHelp(Main)
  BY <1>1 DEF SubmitLocal, OnPool, GetHelp, Helps
<1>3. pc[Main] = "run" /\ Running(Main)
  BY <1>2 DEF Run, SubmitExternal, GetReady, Finish, At, Running
<1>4. base[Main] \in {"final_deques", "final_subqs"} /\ Stage = base[Main]
  BY <1>3 DEF PhaseInv, Stage
<1>5. stack \in [Threads -> Seq(Frames)] /\ stack[Main] # <<>>
  BY <1>1, <1>3, TopFacts DEF TypeOK
<1>6. Top(Main).task \in OnMain
  <2>1. Len(stack[Main]) \in 1 .. Len(stack[Main]) /\ Top(Main) = stack[Main][Len(stack[Main])]
    BY <1>1, <1>3, TopFacts
  <2> QED
    BY <2>1 DEF OnMain
<1>7. ASSUME ~AtEnd(Main), Advance(Main)
      PROVE  OnMain' = OnMain
  <2>1. SetAt(Main, Top(Main).at + 1) /\ Top(Main).at + 1 \in Nat
    <3>1. SetAt(Main, Top(Main).at + 1)
      BY <1>1, <1>3, <1>7, AdvanceIsSetAt
    <3>2. Top(Main).at \in Nat
      BY <1>1, <1>3, TopFacts DEF Frames
    <3> QED
      BY ONLY <3>1, <3>2
  <2>2. /\ Len(stack'[Main]) = Len(stack[Main])
        /\ \A i \in 1 .. Len(stack[Main]) : stack'[Main][i].task = stack[Main][i].task
    BY <1>1, <1>5, <2>1, MoveInFrame
  <2> QED
    BY <2>2 DEF OnMain
<1>8. CASE SubmitExternal(Main)
  <2> DEFINE t == Instr(Main).task
  <2>1. /\ At(Main, "submit") /\ subq' = [subq EXCEPT ![Target] = Append(@, t)]
        /\ UNCHANGED <<deque, unlinked, pc, base, cursor>>
    BY <1>8 DEF SubmitExternal
  <2>2. OnMain' = OnMain /\ Stage' = Stage
    BY <1>7, <1>8, <2>1 DEF SubmitExternal, At, Stage
  <2>3. \A S : OnMain \subseteq S => t \in SubmittedBy(S) /\ t \in Tasks
    BY <1>1, <1>6, <2>1, SubmitsNext
  <2>4. /\ Target \in Workers /\ subq \in [Workers -> Seq(Tasks)] /\ t \in Tasks
        /\ subq[Target] \in Seq(Tasks)
    BY <1>1, <2>3, TargetFacts DEF TypeOK
  <2>5. Items(Append(subq[Target], t)) \subseteq Items(subq[Target]) \cup {t}
    BY <2>4, ItemsAdded
  <2> HIDE DEF t
  <2>6. \A v \in Workers : Items(subq'[v]) \subseteq Items(subq[v]) \cup {t}
    BY <2>1, <2>4, <2>5
  <2>7. FinalInv'
    <3>1. CASE Stage = "final_deques"
      <4>1. OnMain \subseteq Children /\ t \in Children2
        BY <2>3, <3>1 DEF DrainInv, FinalInv, Children2
      <4> QED
        BY <2>1, <2>2, <2>6, <3>1, <4>1 DEF DrainInv, FinalInv
    <3>2. CASE Stage = "final_subqs"
      <4>1. OnMain \subseteq Children2 /\ t \in Children3 /\ t \in Children2
        BY <2>3, <3>2, Generations DEF DrainInv, FinalInv, Children3
      <4> QED
        BY <2>1, <2>2, <2>6, <3>2, <4>1 DEF DrainInv, FinalInv
    <3> QED
      BY <1>4, <3>1, <3>2
  <2> QED
    BY <1>1, <1>3, <1>4, <2>1, <2>2, <2>7, MainDrains
<1>9. CASE GetReady(Main)
  <2>1. UNCHANGED <<deque, subq, unlinked, pc, base, cursor>> /\ OnMain' = OnMain
    BY <1>7, <1>9 DEF GetReady, At
  <2>2. Stage' = Stage
    BY <2>1 DEF Stage
  <2>3. FinalInv'
    BY <2>1, <2>2 DEF DrainInv, FinalInv
  <2> QED
    BY <1>1, <1>3, <1>4, <2>1, <2>2, <2>3, MainDrains
<1>10. CASE Finish(Main)
  <2>1. /\ pc' = [pc EXCEPT ![Main] = IF Len(stack[Main]) = 1 THEN base[Main] ELSE "run"]
        /\ stack' = [stack EXCEPT ![Main] = Front(@)]
        /\ UNCHANGED <<deque, subq, unlinked, base, cursor>>
    BY <1>10 DEF Finish
  <2>2. /\ pc'[Main] \in {base[Main], "run"} /\ Stage' = Stage
        /\ \A w \in Workers : pc'[w] = pc[w]
    BY <1>1, <1>4, <2>1 DEF TypeOK, Stage
  <2>3. OnMain' \subseteq OnMain
    <3>1. /\ Len(stack[Main]) \in Nat \ {0} /\ Len(stack'[Main]) = Len(stack[Main]) - 1
          /\ \A i \in 1 .. Len(stack[Main]) - 1 : stack'[Main][i] = stack[Main][i]
      BY <1>1, <1>5, <2>1, PopFrame
    <3>2. \A i \in 1 .. Len(stack[Main]) - 1 : i \in 1 .. Len(stack[Main])
      BY <3>1
    <3> QED
      BY <3>1, <3>2 DEF OnMain
  <2>4. FinalInv'
    BY <2>1, <2>2, <2>3 DEF DrainInv, FinalInv
  <2> QED
    BY <1>1, <1>3, <1>4, <2>1, <2>2, <2>4, MainDrains
<1> QED
  BY <1>2, <1>8, <1>9, <1>10 DEF Run

LEMMA DestructorDrains ==
  ASSUME PoolInv, PhaseInv, DrainInv, Destructor
  PROVE  DrainInv'
<1>1. /\ TypeOK /\ Main \in Threads /\ Main \notin Workers /\ \A w \in Workers : w \in Threads
  BY DEF PoolInv, Threads, Workers, Main
<1>2. CASE Destroy
  <2>1. /\ pc[Main] = "up" /\ pc' = [pc EXCEPT ![Main] = "join"] /\ unlinked = {}
        /\ UNCHANGED <<deque, subq, unlinked, base, cursor>>
    BY <1>2 DEF Destroy, Move, Goto
  <2>2. pc'[Main] = "join" /\ \A w \in Workers : pc'[w] = pc[w]
    BY <1>1, <2>1 DEF TypeOK
  <2>3. Stage = "up" /\ Stage' = "join" /\ Stopped'
    BY <2>1, <2>2 DEF Stage, Stopped
  <2>4. DequesInv' /\ StopInv'
    BY <2>1, <2>3 DEF DrainInv, DequesInv, StopInv
  <2>5. ExitInv'
    BY <2>1, <2>2, <2>3 DEF DrainInv, ExitInv
  <2>6. FinalInv'
    BY ONLY <2>3 DEF FinalInv
  <2> QED
    BY <2>4, <2>5, <2>6 DEF DrainInv
<1>3. CASE Join
  <2>1. /\ pc[Main] = "join" /\ pc' = [pc EXCEPT ![Main] = "final_deques"]
        /\ \A w \in Workers : pc[w] = "exit"
        /\ UNCHANGED <<deque, subq, unlinked, base, stack, cursor>>
    BY <1>3 DEF Join, Move, Goto
  <2>2. pc'[Main] = "final_deques" /\ \A w \in Workers : pc'[w] = pc[w]
    BY <1>1, <2>1 DEF TypeOK
  <2>3. Stage = "join" /\ Stage' = "final_deques"
    BY <2>1, <2>2 DEF Stage
  <2>4. cursor = 1 /\ \A v \in Workers : Items(subq[v]) = {}
    BY <2>1, <2>3, ItemsNone DEF DrainInv, ExitInv
  <2>5. \A v \in Workers : ~(v < 1)
    BY PoolAssumption DEF Workers
  <2>6. stack[Main] = <<>>
    BY <1>1, <2>1 DEF PhaseInv, Looking
  <2>7. OnMain' = {}
    <3>1. Len(stack'[Main]) = 0 /\ 1 .. 0 = {}
      BY <2>1, <2>6
    <3> QED
      BY <3>1 DEF OnMain
  <2>8. FinalInv'
    BY <2>1, <2>3, <2>4, <2>5, <2>7 DEF FinalInv
  <2> QED
    BY <1>1, <2>1, <2>2, <2>3, <2>8, MainDrains
<1> QED
  BY <1>2, <1>3, FinalDequesDrains, FinalSubqsDrains, MainRunDrains DEF Destructor

LEMMA StepDrains == ASSUME PoolInv, PhaseInv, DrainInv, [Next]_vars PROVE DrainInv'
<1>1. ASSUME NEW w \in Workers, Worker(w) PROVE DrainInv'
  BY <1>1, LookDrains, WorkerRunDrains DEF Worker
<1>2. CASE UNCHANGED vars
  <2>1. UNCHANGED <<deque, subq, unlinked, pc, base, stack, cursor>>
    BY <1>2 DEF vars
  <2>2. Stage' = Stage /\ Stopped' = Stopped /\ OnMain' = OnMain
    BY <2>1 DEF Stage, Stopped, OnMain
  <2> QED
    BY <2>1, <2>2 DEF DrainInv, DequesInv, StopInv, ExitInv, FinalInv
<1> QED
  BY <1>1, <1>2, ClientDrains, DestructorDrains DEF Next, Gone

LEMMA InitDrains == ASSUME Init PROVE DrainInv
<1>1. /\ Main \in Threads /\ Main \notin Workers /\ \A w \in Workers : w \in Threads
  BY DEF Threads, Workers, Main
<1>2. /\ pc[Main] = "up" /\ \A w \in Workers : pc[w] = "own" /\ base[w] = "own"
  BY <1>1 DEF Init
<1>3. /\ Stage = "up" /\ ~Stopped /\ cursor = 1
      /\ \A v \in Workers : deque[v] = <<>> /\ subq[v] = <<>>
  BY <1>2 DEF Init, Stage, Stopped
<1> QED
  BY <1>2, <1>3, ItemsNone DEF DrainInv, DequesInv, StopInv, ExitInv, FinalInv, Draining

\* No thread is in the middle of a task, and only late tasks are queued.
LEMMA GoneRan == ASSUME PoolInv, PhaseInv, DrainInv PROVE ShutdownRunsAll
<1> SUFFICES ASSUME pc[Main] = "gone", NEW t \in Tasks, status[t] \notin {"new", "done"}
             PROVE  t \in Children3
  BY DEF ShutdownRunsAll, Children, Children2, Children3
<1>1. \A w \in Threads : stack[w] = <<>>
  <2>1. \A w \in Workers : pc[w] = "exit"
    BY DEF PhaseInv, AllExited
  <2> QED
    BY <2>1 DEF PhaseInv, Threads, Looking
<1>2. status[t] # "running"
  <2>1. \A w \in Threads : Len(stack[w]) = 0
    BY <1>1
  <2>2. ~OnStack(t)
    BY <2>1 DEF OnStack
  <2> QED
    BY <2>2 DEF PoolInv, RunningInv
<1>3. status[t] = "queued"
  BY <1>2 DEF PoolInv, TypeOK
<1>4. /\ \A v \in Workers : deque[v] = <<>>
      /\ \A v \in Workers : Items(subq[v]) \subseteq Children3
  BY DEF DrainInv, FinalInv, Stage
<1>5. ~InDeque(t)
  <2>1. \A v \in Workers : Len(deque[v]) = 0
    BY <1>4
  <2> QED
    BY <2>1 DEF InDeque
<1>6. InSubq(t)
  BY <1>3, <1>5 DEF PoolInv, PlaceInv
<1> QED
  BY <1>4, <1>6 DEF InSubq, Items

(***************************************************************************)
(* ~ThreadPool runs every submitted task but for the last ones of chains   *)
(* of three submits or more, whatever the tasks, the workers and their     *)
(* order.                                                                  *)
(***************************************************************************)
THEOREM ShutdownRuns == Spec => []ShutdownRunsAll
<1> DEFINE Inv == PoolInv /\ Where /\ DrainInv
<1>1. Init => Inv
  BY InitPoolInv, InitWhere, InitDrains
<1>2. Inv /\ [Next]_vars => Inv'
  BY StepPoolInv, StepWhere, StepDrains DEF Where
<1>3. Inv => ShutdownRunsAll
  BY GoneRan DEF Where
<1> QED
  BY <1>1, <1>2, <1>3, PTL DEF Spec

-----------------------------------------------------------------------------
(***************************************************************************)
(* Waiting for tasks.                                                      *)
(***************************************************************************)

\* A task that another is stacked upon is waiting.
AtGet(f) == f.at <= Len(Program[f.task]) /\ Program[f.task][f.at].op = "get"
WaitInv ==
  \A w \in Threads : \A i \in 1 .. Len(stack[w]) :
    i < Len(stack[w]) \/ pc[w] # "run" => AtGet(stack[w][i])

\* What a task has passed, it has done.
PassedInv ==
  \A t, u \in Tasks : \A k \in 1 .. Len(Program[t]) :
    /\ Submits(t, k, u) /\ Passed(t, k) => status[u] # "new"
    /\ Gets(t, k, u) /\ Passed(t, k) => status[u] = "done"

IInv == PoolInv /\ PhaseInv /\ RootsInv /\ WaitInv /\ PassedInv

LEMMA BeginViews ==
  ASSUME PoolInv, NEW w \in Threads, NEW t \in Tasks, status[t] = "queued", Begin(w, t)
  PROVE  /\ \A u \in Threads : \A i \in 1 .. Len(stack'[u]) :
              \/ u = w /\ i = Len(stack'[u]) /\ stack'[u][i] = [task |-> t, at |-> 1]
              \/ /\ i \in 1 .. Len(stack[u]) /\ stack'[u][i] = stack[u][i]
                 /\ u # w /\ i < Len(stack'[u]) => i < Len(stack[u])
         /\ pc'[w] = "run" /\ \A u \in Threads : u # w => pc'[u] = pc[u]
         /\ \A x \in Tasks : /\ status[x] = "done" <=> status'[x] = "done"
                             /\ status[x] # "new" => status'[x] # "new"
<1>0. TypeOK
  BY DEF PoolInv
<1>1. /\ pc' = [pc EXCEPT ![w] = "run"]
      /\ stack' = [stack EXCEPT ![w] = Append(@, [task |-> t, at |-> 1])]
      /\ status' = [status EXCEPT ![t] = "running"]
  BY DEF Begin
<1>2. [task |-> t, at |-> 1] \in Frames
  BY DEF Frames
<1>3. /\ Len(stack'[w]) = Len(stack[w]) + 1 /\ Len(stack[w]) \in Nat
      /\ \A i \in 1 .. Len(stack[w]) : stack'[w][i] = stack[w][i]
      /\ stack'[w][Len(stack[w]) + 1] = [task |-> t, at |-> 1]
      /\ \A u \in Threads : u # w => stack'[u] = stack[u]
  BY <1>0, <1>1, <1>2, PushFrame DEF TypeOK
<1>4. ASSUME NEW u \in Threads, NEW i \in 1 .. Len(stack'[u])
      PROVE  \/ u = w /\ i = Len(stack'[u]) /\ stack'[u][i] = [task |-> t, at |-> 1]
             \/ /\ i \in 1 .. Len(stack[u]) /\ stack'[u][i] = stack[u][i]
                /\ u # w /\ i < Len(stack'[u]) => i < Len(stack[u])
  <2>1. CASE u = w
    <3>1. i \in 1 .. Len(stack[w]) + 1
      BY <1>3, <2>1
    <3>2. CASE i = Len(stack[w]) + 1
      BY ONLY <1>3, <2>1, <3>2
    <3>3. CASE i # Len(stack[w]) + 1
      <4>1. i \in 1 .. Len(stack[w])
        BY ONLY <1>3, <3>1, <3>3
      <4> QED
        BY ONLY <1>3, <2>1, <4>1
    <3> QED
      BY ONLY <3>2, <3>3
  <2>2. CASE u # w
    BY <1>3, <2>2
  <2> QED
    BY <2>1, <2>2
<1>5. /\ pc'[w] = "run" /\ \A u \in Threads : u # w => pc'[u] = pc[u]
  BY <1>0, <1>1 DEF TypeOK
<1>6. \A x \in Tasks : /\ status[x] = "done" <=> status'[x] = "done"
                       /\ status[x] # "new" => status'[x] # "new"
  BY <1>0, <1>1 DEF TypeOK
<1> QED
  BY <1>4, <1>5, <1>6

\* What a step may add to what is passed.
Did(t, k) ==
  \A u \in Tasks : /\ Submits(t, k, u) => status'[u] # "new"
                   /\ Gets(t, k, u) => status'[u] = "done"

LEMMA PassedKept ==
  ASSUME PassedInv, \A x \in Tasks : /\ status[x] = "done" => status'[x] = "done"
                                     /\ status[x] # "new" => status'[x] # "new",
         \A x \in Tasks : \A k \in 1 .. Len(Program[x]) : Passed(x, k)' => Passed(x, k) \/ Did(x, k)
  PROVE  PassedInv'
<1> SUFFICES ASSUME NEW t \in Tasks, NEW u \in Tasks, NEW k \in 1 .. Len(Program[t]), Passed(t, k)'
             PROVE  /\ Submits(t, k, u) => status'[u] # "new"
                    /\ Gets(t, k, u) => status'[u] = "done"
  BY DEF PassedInv, Submits, Gets
<1>1. CASE Passed(t, k)
  BY <1>1 DEF PassedInv
<1>2. CASE Did(t, k)
  BY <1>2 DEF Did
<1> QED
  BY <1>1, <1>2

Rest == WaitInv /\ PassedInv

LEMMA BeginRest ==
  ASSUME PoolInv, Rest, NEW w \in Threads, NEW t \in Tasks, status[t] = "queued", pc[w] # "run",
         Begin(w, t)
  PROVE  Rest'
<1>1. \A u \in Threads : \A i \in 1 .. Len(stack'[u]) :
        \/ u = w /\ i = Len(stack'[u]) /\ stack'[u][i] = [task |-> t, at |-> 1]
        \/ /\ i \in 1 .. Len(stack[u]) /\ stack'[u][i] = stack[u][i]
           /\ u # w /\ i < Len(stack'[u]) => i < Len(stack[u])
  BY BeginViews
<1>2. pc'[w] = "run" /\ \A u \in Threads : u # w => pc'[u] = pc[u]
  BY BeginViews
<1>3. \A x \in Tasks : /\ status[x] = "done" <=> status'[x] = "done"
                       /\ status[x] # "new" => status'[x] # "new"
  BY BeginViews
<1>4. WaitInv'
  <2> SUFFICES ASSUME NEW u \in Threads, NEW i \in 1 .. Len(stack'[u]),
                      i < Len(stack'[u]) \/ pc'[u] # "run"
               PROVE  AtGet(stack'[u][i])
    BY DEF WaitInv, AtGet
  <2>0. Len(stack'[u]) \in Nat
    OBVIOUS
  <2>1. ~(u = w /\ i = Len(stack'[u]))
    BY <1>2, <2>0
  <2>2. /\ i \in 1 .. Len(stack[u]) /\ stack'[u][i] = stack[u][i]
        /\ u # w /\ i < Len(stack'[u]) => i < Len(stack[u])
    BY <1>1, <2>1
  <2>3. i < Len(stack[u]) \/ pc[u] # "run"
    BY <1>2, <2>2
  <2>4. AtGet(stack[u][i])
    BY <2>2, <2>3 DEF Rest, WaitInv
  <2> QED
    BY <2>2, <2>4
<1>5. ASSUME NEW x \in Tasks, NEW k \in 1 .. Len(Program[x]), Passed(x, k)'
      PROVE  Passed(x, k)
  <2>1. CASE status'[x] = "done"
    BY <1>3, <2>1 DEF Passed
  <2>2. ASSUME NEW u \in Threads, NEW i \in 1 .. Len(stack'[u]), stack'[u][i].task = x,
               k < stack'[u][i].at
        PROVE  Passed(x, k)
    <3>1. stack'[u][i] # [task |-> t, at |-> 1]
      BY <2>2
    <3>2. i \in 1 .. Len(stack[u]) /\ stack'[u][i] = stack[u][i]
      BY <1>1, <3>1
    <3> QED
      BY <2>2, <3>2 DEF Passed
  <2> QED
    BY <1>5, <2>1, <2>2 DEF Passed
<1>6. PassedInv'
  BY <1>3, <1>5, PassedKept DEF Rest
<1> QED
  BY <1>4, <1>6 DEF Rest

\* Nothing moves on, and whoever leaves its task to look for another waits.
LEMMA StillRest ==
  ASSUME PoolInv, Rest, UNCHANGED <<stack, status>>,
         \A u \in Threads : pc'[u] # pc[u] => pc[u] # "run" \/ AtGet(Top(u))
  PROVE  Rest'
<1>1. WaitInv'
  <2> SUFFICES ASSUME NEW u \in Threads, NEW i \in 1 .. Len(stack[u]),
                      i < Len(stack[u]) \/ pc'[u] # "run"
               PROVE  AtGet(stack[u][i])
    BY DEF WaitInv, AtGet
  <2>0. stack[u] \in Seq(Frames)
    BY DEF PoolInv, TypeOK
  <2>1. CASE i < Len(stack[u]) \/ pc[u] # "run"
    BY <2>1 DEF Rest, WaitInv
  <2>2. CASE ~(i < Len(stack[u]) \/ pc[u] # "run")
    <3>1. i = Len(stack[u]) /\ AtGet(Top(u))
      BY <2>0, <2>2
    <3> QED
      BY <3>1 DEF Top
  <2> QED
    BY <2>1, <2>2
<1>2. PassedInv'
  BY DEF Rest, PassedInv, Passed
<1> QED
  BY <1>1, <1>2 DEF Rest

\* The task on top moves on by an instruction that it has done.
LEMMA AdvanceRest ==
  ASSUME PoolInv, Rest, NEW w \in Threads, Running(w), ~AtEnd(w), Advance(w), UNCHANGED pc,
         \A x \in Tasks : /\ status[x] = "done" <=> status'[x] = "done"
                          /\ status[x] # "new" => status'[x] # "new",
         Did(Top(w).task, Top(w).at)
  PROVE  Rest'
<1> DEFINE n == Len(stack[w])
           p == Top(w).task
           m == Top(w).at
<1>0. TypeOK /\ FrameInv
  BY DEF PoolInv
<1>1. SetAt(w, m + 1) /\ m + 1 \in m .. Len(Program[p]) + 1
  BY <1>0, AdvanceIsSetAt
<1>2. /\ MovesOn /\ n \in 1 .. Len(stack'[w]) /\ stack'[w][n] = [task |-> p, at |-> m + 1]
      /\ \A u \in Threads : \A i \in 1 .. Len(stack[u]) :
           u # w \/ i # n => stack'[u][i] = stack[u][i]
  BY <1>1, SetAtMoves
<1>3. \A u \in Threads : Len(stack'[u]) = Len(stack[u])
  BY <1>2 DEF MovesOn
<1>4. /\ n \in 1 .. n /\ Top(w) = stack[w][n] /\ p \in Tasks /\ m \in Nat /\ n = Len(stack[w])
  BY <1>0, TopFacts DEF Frames
<1>5. stack[w][n].task = p /\ stack[w][n].at = m
  BY <1>4
<1>9. Did(p, m) /\ pc[w] = "run"
  BY DEF Running
<1> HIDE DEF n, p, m
<1>6. WaitInv'
  <2> SUFFICES ASSUME NEW u \in Threads, NEW i \in 1 .. Len(stack[u]),
                      i < Len(stack[u]) \/ pc[u] # "run"
               PROVE  AtGet(stack'[u][i])
    BY <1>3 DEF WaitInv, AtGet
  <2>1. u # w \/ i # n
    BY <1>4, <1>9
  <2>2. AtGet(stack[u][i])
    BY DEF Rest, WaitInv
  <2> QED
    BY <1>2, <2>1, <2>2
<1>7. ASSUME NEW x \in Tasks, NEW k \in 1 .. Len(Program[x]), Passed(x, k)'
      PROVE  Passed(x, k) \/ Did(x, k)
  <2>1. CASE status'[x] = "done"
    BY <2>1 DEF Passed
  <2>2. ASSUME NEW u \in Threads, NEW i \in 1 .. Len(stack'[u]), stack'[u][i].task = x,
               k < stack'[u][i].at
        PROVE  Passed(x, k) \/ Did(x, k)
    <3>1. i \in 1 .. Len(stack[u])
      BY <1>3
    <3>2. CASE u # w \/ i # n
      BY <1>2, <2>2, <3>1, <3>2 DEF Passed
    <3>3. CASE u = w /\ i = n
      <4>1. x = p /\ k < m + 1
        <5>1. stack'[w][n].task = p /\ stack'[w][n].at = m + 1
          BY ONLY <1>2
        <5> QED
          BY <2>2, <3>3, <5>1
      <4>2. CASE k = m
        BY <1>9, <4>1, <4>2
      <4>3. CASE k # m
        <5>1. k < m
          <6>1. \A a, b \in Int : a < b + 1 /\ a # b => a < b
            OBVIOUS
          <6>2. k \in Int
            OBVIOUS
          <6>3. m \in Int
            BY ONLY <1>4
          <6>4. k < m + 1
            BY <4>1
          <6> QED
            BY ONLY <4>3, <6>1, <6>2, <6>3, <6>4
        <5> QED
          BY <1>5, <3>1, <3>3, <4>1, <5>1 DEF Passed
      <4> QED
        BY <4>2, <4>3
    <3> QED
      BY <3>2, <3>3
  <2> QED
    BY <1>7, <2>1, <2>2 DEF Passed
<1>8. PassedInv'
  BY <1>7, PassedKept DEF Rest
<1> QED
  BY <1>6, <1>8 DEF Rest

LEMMA FinishRest ==
  ASSUME PoolInv, Rest, NEW w \in Threads, Finish(w)
  PROVE  Rest'
<1> DEFINE n == Len(stack[w])
           t == Top(w).task
<1>0. TypeOK /\ FrameInv
  BY DEF PoolInv
<1>1. /\ Running(w) /\ AtEnd(w)
      /\ status' = [status EXCEPT ![t] = "done"]
      /\ stack' = [stack EXCEPT ![w] = Front(@)]
      /\ pc' = [pc EXCEPT ![w] = IF n = 1 THEN base[w] ELSE "run"]
  BY DEF Finish
<1>2. /\ stack[w] # <<>> /\ n \in 1 .. n /\ Top(w) = stack[w][n] /\ Top(w) \in Frames
      /\ status[t] = "running" /\ t \in Tasks /\ Len(Program[t]) \in Nat
  BY <1>0, <1>1, TopFacts DEF Frames
<1>3. /\ n \in Nat \ {0} /\ Len(stack'[w]) = n - 1
      /\ \A i \in 1 .. n - 1 : stack'[w][i] = stack[w][i]
      /\ \A u \in Threads : u # w => stack'[u] = stack[u]
  BY <1>0, <1>1, <1>2, PopFrame DEF TypeOK
<1>4. /\ status'[t] = "done"
      /\ \A x \in Tasks : x # t => status'[x] = status[x]
      /\ \A u \in Threads : u # w => pc'[u] = pc[u]
  BY <1>0, <1>1, <1>2 DEF TypeOK
<1>5. \A u \in Threads : \A i \in 1 .. Len(stack'[u]) :
        /\ i \in 1 .. Len(stack[u]) /\ stack'[u][i] = stack[u][i]
        /\ u = w => i < Len(stack[u])
        /\ u # w => Len(stack'[u]) = Len(stack[u])
  <2> TAKE u \in Threads
  <2>1. CASE u = w
    BY <1>3, <2>1
  <2>2. CASE u # w
    BY <1>3, <2>2
  <2> QED
    BY <2>1, <2>2
<1>6. n \in 1 .. Len(stack[w]) /\ stack[w][n].task = t /\ stack[w][n].at > Len(Program[t])
      /\ stack[w][n].at \in Nat
  BY <1>1, <1>2 DEF AtEnd, Frames
<1> HIDE DEF n, t
<1>7. WaitInv'
  <2> SUFFICES ASSUME NEW u \in Threads, NEW i \in 1 .. Len(stack'[u]),
                      i < Len(stack'[u]) \/ pc'[u] # "run"
               PROVE  AtGet(stack'[u][i])
    BY DEF WaitInv, AtGet
  <2>1. i \in 1 .. Len(stack[u]) /\ stack'[u][i] = stack[u][i]
    BY <1>5
  <2>2. i < Len(stack[u]) \/ pc[u] # "run"
    BY <1>4, <1>5
  <2>3. AtGet(stack[u][i])
    BY <2>1, <2>2 DEF Rest, WaitInv
  <2> QED
    BY <2>1, <2>3
<1>8. ASSUME NEW x \in Tasks, NEW k \in 1 .. Len(Program[x]), Passed(x, k)'
      PROVE  Passed(x, k)
  <2>1. CASE x = t
    <3>1. k < stack[w][n].at
      BY <1>2, <1>6, <2>1
    <3> QED
      BY <1>6, <2>1, <3>1 DEF Passed
  <2>2. CASE x # t /\ status'[x] = "done"
    BY <1>4, <2>2 DEF Passed
  <2>3. ASSUME NEW u \in Threads, NEW i \in 1 .. Len(stack'[u]), stack'[u][i].task = x,
               k < stack'[u][i].at
        PROVE  Passed(x, k)
    BY <1>5, <2>3 DEF Passed
  <2> QED
    BY <1>8, <2>1, <2>2, <2>3 DEF Passed
<1>9. \A x \in Tasks : /\ status[x] = "done" => status'[x] = "done"
                       /\ status[x] # "new" => status'[x] # "new"
  BY <1>4
<1>10. PassedInv'
  BY <1>8, <1>9, PassedKept DEF Rest
<1> QED
  BY <1>7, <1>10 DEF Rest

LEMMA PopRest ==
  ASSUME PoolInv, Rest, NEW w \in Threads, NEW v \in Workers, pc[w] \in Taking,
         PopBottom(w, v) \/ PopSubq(w, v) \/ StealFrom(w, v)
  PROVE  Rest'
<1>0. pc[w] # "run"
  BY DEF Taking, Looking
<1>1. CASE PopBottom(w, v)
  <2>1. deque[v][Len(deque[v])] \in Tasks /\ status[deque[v][Len(deque[v])]] = "queued"
    BY <1>1, PopBottomKeeps
  <2> QED
    BY <1>0, <1>1, <2>1, BeginRest DEF PopBottom
<1>2. CASE PopSubq(w, v)
  <2>1. Head(subq[v]) \in Tasks /\ status[Head(subq[v])] = "queued"
    BY <1>2, PopSubqKeeps
  <2> QED
    BY <1>0, <1>2, <2>1, BeginRest DEF PopSubq
<1>3. CASE StealFrom(w, v)
  <2>1. Head(deque[v]) \in Tasks /\ status[Head(deque[v])] = "queued"
    BY <1>3, StealKeeps
  <2> QED
    BY <1>0, <1>3, <2>1, BeginRest DEF StealFrom
<1> QED
  BY <1>1, <1>2, <1>3

LEMMA MoveRest ==
  ASSUME PoolInv, Rest, NEW w \in Threads, NEW from, NEW to, Move(w, from, to),
         from # "run" \/ AtGet(Top(w))
  PROVE  Rest'
<1>1. \A u \in Threads : pc'[u] # pc[u] => pc[u] # "run" \/ AtGet(Top(u))
  BY DEF Move, Goto, PoolInv, TypeOK
<1> QED
  BY <1>1, StillRest DEF Move

LEMMA LookRest ==
  ASSUME PoolInv, Rest, NEW w \in Workers, Look(w)
  PROVE  Rest'
<1>0. w \in Threads
  BY DEF Threads
<1> USE DEF Taking, Looking
<1>1. CASE PollSubq(w) \/ TakeSubq(w)
  BY <1>0, <1>1, PopRest DEF PollSubq, TakeSubq
<1>2. CASE TakeOwn(w)
  BY <1>0, <1>2, PopRest DEF TakeOwn
<1>3. CASE OwnEmpty(w) \/ SubqEmpty(w) \/ StealMiss(w) \/ CheckStop(w)
  BY <1>0, <1>3, MoveRest DEF OwnEmpty, SubqEmpty, StealMiss, CheckStop
<1>4. CASE \E v \in Workers : StealFrom(w, v)
  BY <1>0, <1>4, PopRest DEF StealFrom
<1>5. CASE DrainDeque(w)
  BY <1>0, <1>5, PopRest, MoveRest DEF DrainDeque
<1>6. CASE DrainSubq(w)
  BY <1>0, <1>6, PopRest, MoveRest DEF DrainSubq
<1> QED
  BY <1>1, <1>2, <1>3, <1>4, <1>5, <1>6 DEF Look

LEMMA SubmitRest ==
  ASSUME PoolInv, Rest, NEW w \in Threads, At(w, "submit"), Advance(w),
         status' = [status EXCEPT ![Instr(w).task] = "queued"], UNCHANGED <<pc, begun>>
  PROVE  Rest'
<1>0. TypeOK /\ FrameInv
  BY DEF PoolInv
<1>1. Instr(w).task \in Tasks /\ status[Instr(w).task] = "new"
  BY SubmitMoves
<1>2. \A x \in Tasks : /\ status[x] = "done" <=> status'[x] = "done"
                       /\ status[x] # "new" => status'[x] # "new"
  BY <1>0, <1>1 DEF TypeOK
<1>3. Did(Top(w).task, Top(w).at)
  <2>1. Program[Top(w).task][Top(w).at] = [op |-> "submit", task |-> Instr(w).task]
    BY <1>0, InstrFacts DEF Instr
  <2>2. status'[Instr(w).task] = "queued"
    BY <1>0, <1>1 DEF TypeOK
  <2> QED
    BY <2>1, <2>2 DEF Did, Submits, Gets
<1> QED
  BY <1>2, <1>3, AdvanceRest DEF At

LEMMA RunRest ==
  ASSUME PoolInv, Rest, NEW w \in Threads, Run(w)
  PROVE  Rest'
<1>0. TypeOK /\ FrameInv
  BY DEF PoolInv
<1>1. CASE SubmitLocal(w)
  BY <1>1, SubmitRest DEF SubmitLocal
<1>2. CASE SubmitExternal(w)
  BY <1>2, SubmitRest DEF SubmitExternal
<1>3. CASE GetReady(w)
  <2>1. Program[Top(w).task][Top(w).at] = [op |-> "get", task |-> Instr(w).task]
    BY <1>0, <1>3, InstrFacts DEF Instr, GetReady
  <2>2. Did(Top(w).task, Top(w).at)
    <3>1. \A u \in Tasks : ~Submits(Top(w).task, Top(w).at, u)
      BY ONLY <2>1 DEF Submits
    <3>2. \A u \in Tasks : Gets(Top(w).task, Top(w).at, u) => u = Instr(w).task
      BY ONLY <2>1 DEF Gets
    <3>3. status'[Instr(w).task] = "done"
      BY <1>3 DEF GetReady
    <3> QED
      BY ONLY <3>1, <3>2, <3>3 DEF Did
  <2>3. UNCHANGED <<pc, status>>
    BY <1>3 DEF GetReady
  <2> QED
    BY <1>3, <2>2, <2>3, AdvanceRest DEF GetReady, At
<1>4. CASE GetHelp(w)
  <2>2. Top(w).at \in 1 .. Len(Program[Top(w).task]) /\ Instr(w).op = "get"
    BY <1>0, <1>4, InstrFacts DEF GetHelp, At
  <2>3. Len(Program[Top(w).task]) \in Nat
    BY <1>0, <1>4, TopFacts DEF GetHelp, At
  <2>1. AtGet(Top(w))
    BY <2>2, <2>3 DEF AtGet, Instr
  <2> QED
    BY <1>4, <2>1, MoveRest DEF GetHelp
<1>5. CASE Finish(w)
  BY <1>5, FinishRest
<1> QED
  BY <1>1, <1>2, <1>3, <1>4, <1>5 DEF Run

LEMMA StepRest == ASSUME PoolInv, Rest, [Next]_vars PROVE Rest'
<1>1. ASSUME NEW w \in Workers, Worker(w) PROVE Rest'
  BY <1>1, LookRest, RunRest DEF Worker, Threads
<1>2. ASSUME NEW r \in Roots, Client(r) PROVE Rest'
  <2>1. CASE ClientSubmit(r)
    <3>1. /\ UNCHANGED <<pc, stack>> /\ status[r] = "new" /\ r \in Tasks
          /\ \A x \in Tasks : /\ status[x] = "done" <=> status'[x] = "done"
                              /\ status[x] # "new" => status'[x] # "new"
      BY <2>1, PoolAssumption DEF ClientSubmit, PoolInv, TypeOK
    <3>2. WaitInv'
      BY <3>1 DEF Rest, WaitInv, AtGet
    <3>3. \A x \in Tasks : \A k \in 1 .. Len(Program[x]) : Passed(x, k)' => Passed(x, k)
      BY <3>1 DEF Passed
    <3>4. PassedInv'
      BY <3>1, <3>3, PassedKept DEF Rest
    <3> QED
      BY <3>2, <3>4 DEF Rest
  <2>2. CASE ClientLink(r)
    BY <2>2, StillRest DEF ClientLink
  <2> QED
    BY <1>2, <2>1, <2>2 DEF Client
<1>3. ASSUME Destructor PROVE Rest'
  <2>0. Main \in Threads /\ cursor \in Workers
    BY DEF Threads, PoolInv, TypeOK
  <2>1. CASE Destroy \/ Join
    BY <2>0, <2>1, MoveRest DEF Destroy, Join
  <2>2. ASSUME NEW from, NEW to, NextQueue(from, to), pc[Main] # "run" PROVE Rest'
    <3>1. \A u \in Threads : pc'[u] # pc[u] => pc[u] # "run"
      BY <2>2 DEF NextQueue, PoolInv, TypeOK
    <3> QED
      BY <2>2, <3>1, StillRest DEF NextQueue
  <2>3. CASE FinalDeques
    BY <2>0, <2>2, <2>3, PopRest DEF FinalDeques, Taking
  <2>4. CASE FinalSubqs
    BY <2>0, <2>2, <2>4, PopRest DEF FinalSubqs, Taking
  <2>5. CASE Run(Main)
    BY <2>0, <2>5, RunRest
  <2> QED
    BY <1>3, <2>1, <2>3, <2>4, <2>5 DEF Destructor
<1>4. ASSUME UNCHANGED vars PROVE Rest'
  BY <1>4, StillRest DEF vars
<1> QED
  BY <1>1, <1>2, <1>3, <1>4 DEF Next, Gone

LEMMA InitIInv == ASSUME Init PROVE IInv
<1>1. PoolInv
  BY InitPoolInv
<1>2. PhaseInv /\ RootsInv
  BY InitWhere DEF Where
<1>3. WaitInv /\ PassedInv
  BY DEF Init, WaitInv, PassedInv, Passed, Threads
<1> QED
  BY <1>1, <1>2, <1>3 DEF IInv

LEMMA StepIInv == ASSUME IInv, [Next]_vars PROVE IInv'
BY StepPoolInv, StepWhere, StepRest DEF IInv, Where, Rest

-----------------------------------------------------------------------------
LOCAL Order == INSTANCE WellFoundedInduction

\* A nonempty set of positions has a last one.
LEMMA LastPosition ==
  ASSUME NEW n \in Nat, NEW T, T \subseteq 1 .. n, T # {}
  PROVE  \E x \in T : \A y \in T : y <= x
<1> DEFINE R == {ss \in Nat \X Nat : ss[1] < ss[2]}
           U == {n - y : y \in T}
<1>1. Order!IsWellFoundedOn(R, Nat)
  BY Order!NatLessThanWellFounded, Zenon DEF Order!OpToRel
<1>2. ASSUME NEW x \in Nat, NEW y \in Nat, ~ (<<y, x>> \in R)
      PROVE  x <= y
  BY <1>2
<1>3. U \subseteq Nat /\ U # {}
  <2>1. \A y \in T : n - y \in Nat
    OBVIOUS
  <2>2. PICK y \in T : TRUE
    OBVIOUS
  <2>3. n - y \in U
    OBVIOUS
  <2> QED
    BY <2>1, <2>3
<1> HIDE DEF R
<1>4. \E x \in U : \A y \in U : ~ (<<y, x>> \in R)
  <2> HIDE DEF U
  <2> QED
    BY <1>1, <1>3, Order!WFMin, Zenon
<1>5. PICK x \in U : \A y \in U : x <= y
  BY <1>2, <1>3, <1>4
<1>6. PICK a \in T : x = n - a
  OBVIOUS
<1>7. ASSUME NEW y \in T PROVE y <= a
  <2>1. x <= n - y
    BY <1>5
  <2> QED
    BY <1>6, <2>1
<1> QED
  BY <1>7

\* As long as a worker is in a task, a submitted task that is queued is in a deque.
LEMMA QueuedInDeque ==
  ASSUME IInv, ~AllExited, NEW t \in Tasks, status[t] = "queued", t \notin Roots
  PROVE  InDeque(t)
BY DEF IInv, PoolInv, PlaceInv, InSubq, RootsInv

\* A task that a worker in a task has passed is in a frame of a worker.
LEMMA RunningOnWorker ==
  ASSUME IInv, ~AllExited, NEW t \in Tasks, status[t] = "running"
  PROVE  \E u \in Workers : \E i \in 1 .. Len(stack[u]) : stack[u][i].task = t
<1>1. pc[Main] \in {"up", "join"} /\ Main \in Threads
  BY DEF IInv, PhaseInv, Threads
<1>2. stack[Main] = <<>>
  BY <1>1 DEF IInv, PhaseInv, Looking
<1>3. OnStack(t)
  BY DEF IInv, PoolInv, RunningInv
<1>4. PICK u \in Threads : \E i \in 1 .. Len(stack[u]) : stack[u][i].task = t
  BY <1>3 DEF OnStack
<1>5. u # Main
  BY <1>2, <1>4
<1> QED
  BY <1>4, <1>5 DEF Threads

\* Of the workers in a task, one is in the task that was begun last.
InTask == {w \in Workers : stack[w] # <<>>}

LEMMA LastBegun ==
  ASSUME PoolInv, InTask # {}
  PROVE  \E w \in InTask : \E a \in 1 .. Len(begun) :
           /\ begun[a] = Top(w).task
           /\ \A u \in InTask : \A i \in 1 .. Len(stack[u]), b \in 1 .. Len(begun) :
                begun[b] = stack[u][i].task => b <= a
<1> DEFINE T == {a \in 1 .. Len(begun) : \E w \in InTask : begun[a] = Top(w).task}
<1>0. ASSUME NEW w \in InTask
      PROVE  /\ w \in Threads /\ Len(stack[w]) \in 1 .. Len(stack[w]) /\ Top(w) = stack[w][Len(stack[w])]
             /\ \E a \in 1 .. Len(begun) : begun[a] = Top(w).task
  <2>1. w \in Threads /\ stack[w] # <<>> /\ stack[w] \in Seq(Frames)
    BY DEF InTask, PoolInv, TypeOK, Threads
  <2>2. Len(stack[w]) \in 1 .. Len(stack[w]) /\ stack[w][Len(stack[w])] \in Frames
    BY <2>1
  <2>3. status[Top(w).task] = "running" /\ Top(w).task \in Tasks
    BY <2>1, <2>2 DEF PoolInv, FrameInv, Top, Frames
  <2> QED
    BY <2>1, <2>2, <2>3 DEF PoolInv, BegunInv, Top
<1>1. T \subseteq 1 .. Len(begun) /\ T # {} /\ Len(begun) \in Nat
  <2>1. Len(begun) \in Nat
    BY DEF PoolInv, TypeOK
  <2> QED
    BY <1>0, <2>1
<1>2. PICK a \in T : \A y \in T : y <= a
  <2> HIDE DEF T
  <2> QED
    BY <1>1, LastPosition
<1>3. PICK w \in InTask : begun[a] = Top(w).task
  OBVIOUS
<1>4. ASSUME NEW u \in InTask, NEW i \in 1 .. Len(stack[u]), NEW b \in 1 .. Len(begun),
             begun[b] = stack[u][i].task
      PROVE  b <= a
  <2>1. PICK c \in 1 .. Len(begun) : begun[c] = Top(u).task
    BY <1>0
  <2>2. c <= a
    BY <1>2, <2>1
  <2>3. b <= c
    <3>1. CASE i = Len(stack[u])
      BY <1>0, <1>4, <2>1, <3>1 DEF PoolInv, BegunInv
    <3>2. CASE i # Len(stack[u])
      <4>1. i < Len(stack[u])
        <5>1. Len(stack[u]) \in 1 .. Len(stack[u])
          BY <1>0
        <5>2. i \in 1 .. Len(stack[u])
          OBVIOUS
        <5> QED
          BY ONLY <3>2, <5>1, <5>2
      <4>2. begun[c] = stack[u][Len(stack[u])].task
        BY <1>0, <2>1
      <4>3. b < c
        <5>1. /\ u \in Threads /\ i \in 1 .. Len(stack[u]) /\ Len(stack[u]) \in 1 .. Len(stack[u])
              /\ b \in 1 .. Len(begun) /\ c \in 1 .. Len(begun) /\ begun[b] = stack[u][i].task
          BY <1>0, <1>4
        <5>2. BegunInv
          BY DEF PoolInv
        <5>3. \A x, y \in 1 .. Len(stack[u]) : \A d, e \in 1 .. Len(begun) :
                x < y /\ begun[d] = stack[u][x].task /\ begun[e] = stack[u][y].task => d < e
          BY ONLY <5>1, <5>2 DEF BegunInv
        <5> QED
          BY ONLY <4>1, <4>2, <5>1, <5>3
      <4> QED
        BY <4>3
    <3> QED
      BY <3>1, <3>2
  <2> QED
    BY <1>1, <2>2, <2>3
<1> QED
  BY <1>3, <1>4

LEMMA Progress ==
  ASSUME IInv, NEW w0 \in InTask
  PROVE  \E w \in InTask : \A t \in Tasks : Awaits(w, t) => InDeque(t)
<1>0. PoolInv /\ TypeOK /\ FrameInv /\ PhaseInv /\ WaitInv /\ PassedInv /\ Workers \subseteq Threads
  BY DEF IInv, PoolInv, Threads
<1>1. ~AllExited
  BY <1>0 DEF InTask, AllExited, PhaseInv, Looking
<1>2. PICK w \in InTask : \E a \in 1 .. Len(begun) :
         /\ begun[a] = Top(w).task
         /\ \A u \in InTask : \A i \in 1 .. Len(stack[u]), b \in 1 .. Len(begun) :
              begun[b] = stack[u][i].task => b <= a
  BY <1>0, LastBegun
<1>3. PICK a \in 1 .. Len(begun) :
         /\ begun[a] = Top(w).task
         /\ \A u \in InTask : \A i \in 1 .. Len(stack[u]), b \in 1 .. Len(begun) :
              begun[b] = stack[u][i].task => b <= a
  BY <1>2
<1> SUFFICES ASSUME NEW t \in Tasks, Awaits(w, t), ~InDeque(t)
             PROVE  \E u \in InTask : \A x \in Tasks : Awaits(u, x) => InDeque(x)
  OBVIOUS
<1> DEFINE n == Len(stack[w])
           p == Top(w).task
           k == Top(w).at
<1>4. /\ w \in Threads /\ n \in 1 .. Len(stack[w]) /\ stack[w][n].task = p /\ stack[w][n].at = k
      /\ status[p] = "running" /\ p \in Tasks /\ k \in 1 .. Len(Program[p]) + 1
      /\ Len(Program[p]) \in Nat
  <2>1. w \in Threads /\ stack[w] # <<>> /\ stack[w] \in Seq(Frames)
    BY <1>0 DEF InTask, TypeOK
  <2>2. n \in 1 .. Len(stack[w]) /\ stack[w][n] \in Frames /\ Top(w) = stack[w][n]
    BY <2>1 DEF Top
  <2>3. p \in Tasks
    BY <2>2 DEF Frames
  <2>4. status[p] = "running" /\ k \in 1 .. Len(Program[p]) + 1
    <3>1. \A v \in Threads : \A i \in 1 .. Len(stack[v]) :
            /\ status[stack[v][i].task] = "running"
            /\ stack[v][i].at \in 1 .. Len(Program[stack[v][i].task]) + 1
      BY <1>0 DEF FrameInv
    <3> QED
      BY ONLY <2>1, <2>2, <3>1
  <2>5. Len(Program[p]) \in Nat
    BY <2>3, PoolAssumption
  <2> QED
    BY <2>1, <2>2, <2>3, <2>4, <2>5
<1>5. k \in 1 .. Len(Program[p]) /\ Gets(p, k, t) /\ status[t] # "done"
  <2>1. ~AtEnd(w) /\ Instr(w) = [op |-> "get", task |-> t] /\ status[t] # "done"
    BY DEF Awaits
  <2>2. ~(k > Len(Program[p])) /\ Program[p][k] = [op |-> "get", task |-> t]
    BY ONLY <2>1 DEF AtEnd, Instr
  <2>3. k \in 1 .. Len(Program[p])
    BY ONLY <1>4, <2>2
  <2> QED
    BY ONLY <2>1, <2>2, <2>3 DEF Gets
<1> HIDE DEF n, p, k
\* A task that is submitted and not done runs.
<1>6. ASSUME NEW q \in Tasks, NEW j \in 1 .. Len(Program[q]), Submits(q, j, t), Passed(q, j)
      PROVE  status[t] = "running"
  <2>1. status[t] # "new"
    BY <1>0, <1>6 DEF PassedInv
  <2>2. t \notin Roots
    BY <1>6, SubmitAssumption
  <2>3. status[t] # "queued"
    BY <1>1, <2>2, QueuedInDeque
  <2> QED
    BY <1>0, <1>5, <2>1, <2>3 DEF TypeOK
\* It waits for a task of its own: that was begun after it.
<1>7. CASE \E j \in 1 .. k - 1 : Submits(p, j, t)
  <2>1. PICK j \in 1 .. k - 1 : Submits(p, j, t)
    BY <1>7
  <2>2. j \in 1 .. Len(Program[p]) /\ j < k
    BY <1>4, <1>5
  <2>3. Passed(p, j)
    BY <1>4, <2>2 DEF Passed
  <2>4. status[t] = "running"
    BY <1>4, <1>6, <2>1, <2>2, <2>3
  <2>5. PICK u \in Workers : \E i \in 1 .. Len(stack[u]) : stack[u][i].task = t
    BY <1>1, <2>4, RunningOnWorker
  <2>6. PICK i \in 1 .. Len(stack[u]) : stack[u][i].task = t
    BY <2>5
  <2>7. PICK b \in 1 .. Len(begun) : begun[b] = t
    BY <1>0, <2>4 DEF PoolInv, BegunInv
  <2>8. a < b
    BY <1>0, <1>3, <1>4, <2>1, <2>2, <2>7 DEF PoolInv, BegunInv, p
  <2>9. u \in InTask
    BY <2>6 DEF InTask
  <2>10. b <= a
    BY <1>3, <2>6, <2>7, <2>9
  <2> QED
    BY <2>8, <2>10
\* It waits for a task that its submitter has or has submitted before.
<1>8. CASE \E q \in Tasks : \E m \in 1 .. Len(Program[q]) :
             /\ Submits(q, m, p)
             /\ \E j \in 1 .. m - 1 :
                  \/ Gets(q, j, t)
                  \/ Submits(q, j, t) /\ \A i \in 1 .. Len(Program[t]) : Program[t][i].op # "get"
  <2>1. PICK q \in Tasks : \E m \in 1 .. Len(Program[q]) :
             /\ Submits(q, m, p)
             /\ \E j \in 1 .. m - 1 :
                  \/ Gets(q, j, t)
                  \/ Submits(q, j, t) /\ \A i \in 1 .. Len(Program[t]) : Program[t][i].op # "get"
    BY <1>8
  <2>2. PICK m \in 1 .. Len(Program[q]) :
             /\ Submits(q, m, p)
             /\ \E j \in 1 .. m - 1 :
                  \/ Gets(q, j, t)
                  \/ Submits(q, j, t) /\ \A i \in 1 .. Len(Program[t]) : Program[t][i].op # "get"
    BY <2>1
  <2>3. PICK j \in 1 .. m - 1 :
           \/ Gets(q, j, t)
           \/ Submits(q, j, t) /\ \A i \in 1 .. Len(Program[t]) : Program[t][i].op # "get"
    BY <2>2
  <2>4. Passed(q, m)
    BY <1>0, <1>4, <2>2 DEF PoolInv, FreshInv
  <2>5. j \in 1 .. Len(Program[q]) /\ j < m
    BY PoolAssumption
  <2>6. Passed(q, j)
    <3>1. ASSUME NEW u \in Threads, NEW i \in 1 .. Len(stack[u]), stack[u][i].task = q,
                 m < stack[u][i].at
          PROVE  Passed(q, j)
      <4>1. stack[u][i].at \in 1 .. Len(Program[q]) + 1
        BY <1>0, <3>1 DEF FrameInv
      <4>2. j < stack[u][i].at
        BY <2>5, <3>1, <4>1
      <4> QED
        BY <3>1, <4>2 DEF Passed
    <3> QED
      BY <2>4, <3>1 DEF Passed
  <2>7. Submits(q, j, t) /\ \A i \in 1 .. Len(Program[t]) : Program[t][i].op # "get"
    BY <1>0, <1>5, <2>3, <2>5, <2>6 DEF PassedInv
  <2>8. status[t] = "running"
    BY <1>6, <2>5, <2>6, <2>7
  <2>9. PICK u \in Workers : \E i \in 1 .. Len(stack[u]) : stack[u][i].task = t
    BY <1>1, <2>8, RunningOnWorker
  <2>10. PICK i \in 1 .. Len(stack[u]) : stack[u][i].task = t
    BY <2>9
  <2>11. stack[u] \in Seq(Frames) /\ stack[u] # <<>> /\ u \in Threads
    BY <1>0, <2>10 DEF TypeOK
  <2>12. i = Len(stack[u])
    <3>1. ~AtGet(stack[u][i])
      <4>1. stack[u][i].at \in 1 .. Len(Program[t]) + 1 /\ Len(Program[t]) \in Nat
        <5>1. Len(Program[t]) \in Nat
          BY PoolAssumption
        <5>2. stack[u][i].at \in 1 .. Len(Program[stack[u][i].task]) + 1
          BY <1>0, <2>11 DEF FrameInv
        <5> QED
          BY ONLY <2>10, <5>1, <5>2
      <4> QED
        BY <2>7, <2>10, <4>1 DEF AtGet
    <3>2. ~(i < Len(stack[u]))
      BY <1>0, <2>11, <3>1 DEF WaitInv
    <3> QED
      BY <2>11, <3>2
  <2>13. Top(u).task = t
    BY <2>10, <2>12 DEF Top
  <2>14. ASSUME NEW x \in Tasks PROVE ~Awaits(u, x)
    <3>1. Top(u) = stack[u][i]
      BY <2>12 DEF Top
    <3>2. Len(Program[t]) \in Nat /\ Top(u).at \in 1 .. Len(Program[t]) + 1
      <4>1. Len(Program[t]) \in Nat
        BY PoolAssumption
      <4> QED
        BY <1>0, <2>10, <2>11, <3>1, <4>1 DEF FrameInv
    <3>3. ~AtEnd(u) => Top(u).at \in 1 .. Len(Program[t])
      BY <2>13, <3>2 DEF AtEnd
    <3>4. ~AtEnd(u) => Instr(u).op # "get"
      BY <2>7, <2>13, <3>3 DEF Instr
    <3> QED
      BY <3>4 DEF Awaits
  <2>15. u \in InTask
    BY <2>11 DEF InTask
  <2> QED
    BY <2>14, <2>15
<1> QED
  BY <1>4, <1>5, <1>7, <1>8, AwaitAssumption

\* Of the workers in a task, one can go on or take the task that it waits for.
THEOREM Starvation == Spec => []NoStarvation
<1>1. IInv => NoStarvation
  <2> SUFFICES ASSUME IInv, \E w \in Workers : stack[w] # <<>>
               PROVE  \E w \in Workers : stack[w] # <<>> /\ \A t \in Tasks : Awaits(w, t) => InDeque(t)
    BY DEF NoStarvation
  <2>1. PICK w0 \in Workers : stack[w0] # <<>>
    OBVIOUS
  <2>2. \E w \in InTask : \A t \in Tasks : Awaits(w, t) => InDeque(t)
    BY <2>1, Progress DEF InTask
  <2> QED
    BY <2>2 DEF InTask
<1> QED
  BY InitIInv, StepIInv, <1>1, PTL DEF Spec
=============================================================================
