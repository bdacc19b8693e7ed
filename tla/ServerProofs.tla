---------------------------- MODULE ServerProofs ----------------------------
(***************************************************************************)
(* Shutdown of the server (server/http_server.cpp, main.cpp), what the     *)
(* collector reaps and what the destructor of the SessionManager waits for *)
(* (session/session_manager.cpp), for any number of HTTP threads, stripes, *)
(* places and sessions.                                                    *)
(*                                                                         *)
(* How far insert_if_under() (core/concurrent_map.h:45) keeps the map      *)
(* within its capacity.  Every session of the map is either the last one   *)
(* that its thread inserted, or was there when the last insertion of some  *)
(* thread began to count.  Of those snapshots, as far as they are still in *)
(* the map, one contains all others, and it had room for one more.         *)
(***************************************************************************)
EXTENDS HttpServer, Integers, FiniteSetTheorems, TLAPS

\* Thread c has a session that no task has been submitted for.
Preparing(c) == pc[c] \in {"count", "insert", "submit"}

(***************************************************************************)
(* A session is not terminal before its workflow runs, and its workflow    *)
(* runs once: so the session that the collector is about to erase has been *)
(* terminal since it was inspected.                                        *)
(***************************************************************************)
TaskInv ==
  /\ next_id \in Nat \ {0}
  /\ state \in [Ids -> {"none", "created", "active", "terminal"}]
  /\ task \in [Ids -> {"none", "queued", "running", "done", "threw", "hung"}]
  /\ pc \in [Creators -> {"idle", "count", "insert", "submit", "track"}]
  /\ id \in [Creators -> 0 .. MaxIds]
  /\ \A i \in Ids : task[i] = "none" => state[i] \in {"none", "created"}
  /\ \A i \in Ids : task[i] = "queued" => state[i] = "created"
  /\ \A i \in Ids : i >= next_id => task[i] = "none"
  /\ \A c \in Creators : Preparing(c) =>
       /\ id[c] \in Ids /\ id[c] < next_id
       /\ task[id[c]] = "none" /\ state[id[c]] = "created"
       /\ \A d \in Creators : d # c /\ Preparing(d) => id[d] # id[c]
  /\ gc = "erase" => victim \in Ids /\ state[victim] = "terminal"

(***************************************************************************)
(* The server runs only while main() is in listen(); ~HttpServer ends      *)
(* after the collector; a signal that main() handles comes before          *)
(* ~HttpServer, and an HTTP thread that handles it keeps listen() waiting. *)
(***************************************************************************)
ServerInv ==
  /\ gc_thread \in {"none", "joinable", "joined"}
  /\ stop \in [Callers -> {"no", "tell", "join", "joining", "over"}]
  /\ main # "listen" => svr # "running" /\ ThreadsEnded
  /\ main = "ready" <=> gc_thread = "none"
  /\ gc_thread = "joined" => gc = "done"
  /\ \A x \in Callers : stop[x] = "joining" => gc_thread # "none"
  /\ stop["destructor"] # "no" => main \in {"stop", "destroy", "exit"}
  /\ stop["destructor"] = "over" => gc = "done"
  /\ main \in {"destroy", "exit"} => stop["destructor"] = "over"
  /\ dtor \in {"waiting", "gone"} => main \in {"destroy", "exit"}
  /\ HandlerInside <=> on \in Threads
  /\ g_server \/ on = "main" => stop["destructor"] = "no"
  /\ on = "http" => main = "listen"
  /\ \A c \in Creators : on = c => pc[c] # "idle"

IInv == TaskInv /\ ServerInv /\ OrderlyShutdown

LEMMA InitIInv == Init => IInv
<1> SUFFICES ASSUME Init PROVE IInv OBVIOUS
<1> USE ManagerAssumption DEF Init, ManagerInit
<1>1. TaskInv BY DEF TaskInv, Preparing, Ids
<1>2. ServerInv BY ServerAssumption DEF ServerInv, ThreadsEnded, HandlerInside, Threads, Callers
<1>3. OrderlyShutdown BY DEF OrderlyShutdown, Alive
<1> QED BY <1>1, <1>2, <1>3 DEF IInv

-----------------------------------------------------------------------------
\* Steps that leave sessions and tasks alone.
LEMMA TasksUnchanged ==
  ASSUME TaskInv, UNCHANGED <<next_id, state, task, pc, id>>,
         gc' = "erase" => gc = "erase" /\ victim' = victim
  PROVE  TaskInv'
  BY DEF TaskInv, Preparing

LEMMA HttpTasks ==
  ASSUME TaskInv, NEW c \in Creators, HttpStep(c) \/ Request(c)
  PROVE  TaskInv'
<1>1. UNCHANGED <<gc, victim>>
  BY DEF HttpStep, Request, CountStripe, Check, Insert, Submit, Track, Reserve, reaper
<1>2. CASE CountStripe(c) BY <1>1, <1>2, TasksUnchanged DEF CountStripe
<1>3. CASE Check(c) \/ Insert(c) \/ Track(c)
  <2>1. /\ UNCHANGED <<next_id, state, task>>
        /\ \E to \in {"idle", "insert", "submit"} :
             /\ pc' = [pc EXCEPT ![c] = to]
             /\ to # "idle" => id' = id /\ Preparing(c)
        /\ id' = id \/ id' = [id EXCEPT ![c] = 0]
    BY <1>3 DEF Check, Insert, Track, Goto, Preparing, TaskInv
  <2>2. /\ pc' \in [Creators -> {"idle", "count", "insert", "submit", "track"}]
        /\ id' \in [Creators -> 0 .. MaxIds]
    BY <2>1, ManagerAssumption DEF TaskInv
  <2>3. \A d \in Creators : Preparing(d)' => Preparing(d) /\ id'[d] = id[d]
    BY <2>1 DEF Preparing, TaskInv
  <2> QED BY <1>1, <2>1, <2>2, <2>3 DEF TaskInv
<1>4. CASE Submit(c)
  <2>1. /\ pc[c] = "submit" /\ pc' = [pc EXCEPT ![c] = "track"]
        /\ task' = [task EXCEPT ![id[c]] = "queued"]
        /\ UNCHANGED <<next_id, id, state>>
    BY <1>4 DEF Submit, Goto
  <2>2. /\ id[c] \in Ids /\ id[c] < next_id /\ state[id[c]] = "created"
        /\ \A d \in Creators : d # c /\ Preparing(d) => id[d] # id[c]
    BY <2>1 DEF TaskInv, Preparing
  <2>3. \A d \in Creators : Preparing(d)' => d # c /\ Preparing(d)
    BY <2>1 DEF TaskInv, Preparing
  <2>4. \A i \in Ids : i # id[c] => task'[i] = task[i] BY <2>1 DEF TaskInv
  <2>5. task'[id[c]] = "queued" BY <2>1, <2>2 DEF TaskInv
  <2>6. id[c] \in Int /\ next_id \in Int BY <2>2 DEF TaskInv, Ids
  <2>7. \A i \in Ids : i >= next_id => i # id[c] BY <2>2, <2>6
  <2>8. /\ task' \in [Ids -> {"none", "queued", "running", "done", "threw", "hung"}]
        /\ pc' \in [Creators -> {"idle", "count", "insert", "submit", "track"}]
    BY <2>1 DEF TaskInv
  <2> QED BY <1>1, <2>1, <2>2, <2>3, <2>4, <2>5, <2>7, <2>8 DEF TaskInv
<1>5. CASE Reserve(c)
  <2>1. /\ next_id <= MaxIds
        /\ pc' = [pc EXCEPT ![c] = "count"] /\ id' = [id EXCEPT ![c] = next_id]
        /\ next_id' = next_id + 1 /\ state' = [state EXCEPT ![next_id] = "created"]
        /\ UNCHANGED task
    BY <1>5 DEF Reserve, Goto
  <2>2. next_id \in Ids /\ task[next_id] = "none" /\ next_id \in Int
    BY <2>1, ManagerAssumption DEF TaskInv, Ids
  <2>3. \A d \in Creators : d # c => id'[d] = id[d] /\ (Preparing(d)' <=> Preparing(d))
    BY <2>1 DEF TaskInv, Preparing
  <2>4. \A d \in Creators : d # c /\ Preparing(d) => id[d] \in Ids /\ id[d] \in Int /\ id[d] < next_id
    BY DEF TaskInv, Ids
  <2>5. \A i \in Ids : i # next_id => state'[i] = state[i] BY <2>1 DEF TaskInv
  <2>6. state'[next_id] = "created" /\ id'[c] = next_id BY <2>1, <2>2 DEF TaskInv
  <2>7. \A i \in Ids : i >= next_id' => i >= next_id BY <2>1, <2>2 DEF Ids
  <2>8. /\ next_id' \in Nat \ {0}
        /\ state' \in [Ids -> {"none", "created", "active", "terminal"}]
        /\ pc' \in [Creators -> {"idle", "count", "insert", "submit", "track"}]
        /\ id' \in [Creators -> 0 .. MaxIds]
    BY <2>1, <2>2, ManagerAssumption DEF TaskInv
  <2>9. \A d \in Creators : Preparing(d)' =>
          /\ id'[d] \in Ids /\ id'[d] < next_id'
          /\ task'[id'[d]] = "none" /\ state'[id'[d]] = "created"
          /\ \A e \in Creators : e # d /\ Preparing(e)' => id'[e] # id'[d]
    BY <2>1, <2>2, <2>3, <2>4, <2>5, <2>6 DEF TaskInv
  <2>10. gc' = "erase" => victim' \in Ids /\ state'[victim'] = "terminal"
    BY <1>1, <2>2, <2>5 DEF TaskInv
  <2> QED BY <2>1, <2>2, <2>5, <2>6, <2>7, <2>8, <2>9, <2>10 DEF TaskInv
<1> QED BY <1>2, <1>3, <1>4, <1>5 DEF HttpStep, Request

LEMMA WorkflowTasks ==
  ASSUME TaskInv, NEW i \in Ids, WorkflowStep(i)
  PROVE  TaskInv'
<1>1. /\ UNCHANGED <<next_id, pc, id, gc, victim>>
      /\ \/ task[i] = "queued" /\ task' = [task EXCEPT ![i] = "running"]
                               /\ state' = [state EXCEPT ![i] = "active"]
         \/ task[i] = "running" /\ task' = task /\ state' = [state EXCEPT ![i] = "terminal"]
         \/ task[i] = "running" /\ task' = [task EXCEPT ![i] = "done"] /\ state' = state
         \/ task[i] = "running" /\ task' = [task EXCEPT ![i] = "threw"] /\ state' = state
         \/ task[i] = "running" /\ task' = [task EXCEPT ![i] = "hung"] /\ state' = state
  BY DEF WorkflowStep, Start, BecomeTerminal, Finish, Throw, Hang, creators, reaper, TaskInv
<1>2. \A j \in Ids : j # i => task'[j] = task[j] /\ state'[j] = state[j] BY <1>1 DEF TaskInv
<1>3. task'[i] \notin {"none", "queued"} /\ task[i] # "none" BY <1>1 DEF TaskInv
<1>4. state[i] = "terminal" => state'[i] = "terminal" BY <1>1 DEF TaskInv
<1>5. /\ state' \in [Ids -> {"none", "created", "active", "terminal"}]
      /\ task' \in [Ids -> {"none", "queued", "running", "done", "threw", "hung"}]
  BY <1>1 DEF TaskInv
<1>6. \A c \in Creators : Preparing(c)' <=> Preparing(c) BY <1>1 DEF Preparing
<1> QED BY <1>1, <1>2, <1>3, <1>4, <1>5, <1>6 DEF TaskInv
\* Steps of the main thread and of the signal handler do not touch the sessions.
LEMMA ServerSteps ==
  ASSUME MainStep \/ (\E x \in Callers : \E t : Stop(x, t)) \/ (\E t \in Threads : Signal(t))
  PROVE  /\ UNCHANGED <<next_id, state, task, pc, id, victim, map>>
         /\ gc' = gc \/ (gc' = "loop" /\ main = "ready")
<1>1. ASSUME NEW x \in Callers, NEW t, Stop(x, t)
      PROVE  UNCHANGED <<creators, state, task, victim, map, gc>>
  BY <1>1 DEF Stop, StopThreads, NotJoinable, Join, Joined, manager, reaper
<1>2. ASSUME NEW t \in Threads, Signal(t)
      PROVE  UNCHANGED <<creators, state, task, victim, map, gc>>
  BY <1>2 DEF Signal, manager, reaper
<1>3. CASE Listen \/ ListenFails \/ ListenReturns \/ LeaveServer \/ DestroyServer \/ DestroyManager
  BY <1>3 DEF Listen, ListenFails, ListenReturns, LeaveServer, DestroyServer, DestroyManager,
     Destroy, WaitOne, Destroyed, manager, reaper, creators
<1>4. CASE StartCollector
  BY <1>4 DEF StartCollector, MainGoto, creators
<1>5. "destructor" \in Callers BY DEF Callers
<1> QED BY <1>1, <1>2, <1>3, <1>4, <1>5 DEF MainStep, creators

LEMMA NextTasks ==
  ASSUME TaskInv, [Next]_vars
  PROVE  TaskInv'
<1>1. CASE MainStep \/ (\E x \in Callers : \E t : Stop(x, t)) \/ (\E t \in Threads : Signal(t))
  BY <1>1, ServerSteps, TasksUnchanged
<1>2. CASE CollectorStep
  <2>1. UNCHANGED creators /\ UNCHANGED <<state, task>>
    BY <1>2 DEF CollectorStep, Collects, CollectorGoto, CollectKeys, Erase, Inspect
  <2>2. CASE gc' # "erase" BY <2>1, <2>2, TasksUnchanged DEF creators
  <2>3. CASE gc' = "erase"
    <3>1. gc = "check" /\ victim' \in Ids /\ state[victim'] = "terminal"
      BY <1>2, <2>3 DEF CollectorStep, Collects, CollectorGoto, CollectKeys, Erase, Inspect, ShouldErase
    <3> QED BY <2>1, <3>1 DEF creators, TaskInv, Preparing
  <2> QED BY <2>2, <2>3
<1>3. CASE UNCHANGED vars
  BY <1>3, TasksUnchanged DEF vars, manager, creators, reaper
<1>4. "handler" \in Callers BY DEF Callers
<1> QED BY <1>1, <1>2, <1>3, <1>4, HttpTasks, WorkflowTasks DEF Next, Rest

\* An exception stays in its future.
LEMMA ThrewStays ==
  ASSUME TaskInv, [Next]_vars, NEW i \in Ids, task[i] = "threw"
  PROVE  task'[i] = "threw"
<1>1. CASE MainStep \/ (\E x \in Callers : \E t : Stop(x, t)) \/ (\E t \in Threads : Signal(t))
  BY <1>1, ServerSteps
<1>2. ASSUME NEW c \in Creators, HttpStep(c) \/ Request(c) PROVE task'[i] = "threw"
  <2>1. CASE Submit(c)
    BY <2>1 DEF Submit, Goto, TaskInv, Preparing
  <2>2. CASE ~Submit(c)
    BY <1>2, <2>2 DEF HttpStep, Request, CountStripe, Check, Insert, Track, Reserve
  <2> QED BY <2>1, <2>2
<1>3. ASSUME NEW j \in Ids, WorkflowStep(j) PROVE task'[i] = "threw"
  BY <1>3 DEF WorkflowStep, Start, BecomeTerminal, Finish, Throw, Hang, TaskInv
<1>4. CASE CollectorStep
  BY <1>4 DEF CollectorStep, Collects, CollectorGoto, CollectKeys, Erase, Inspect
<1>5. CASE UNCHANGED vars BY <1>5 DEF vars, manager
<1>6. "handler" \in Callers BY DEF Callers
<1> QED BY <1>1, <1>2, <1>3, <1>4, <1>5, <1>6 DEF Next, Rest

-----------------------------------------------------------------------------
LEMMA MainServer ==
  ASSUME ServerInv, MainStep, ~(\E t : Stop("destructor", t))
  PROVE  ServerInv'
<1>1. /\ pc' = pc /\ (gc' = gc \/ (gc' = "loop" /\ main = "ready")) BY ServerSteps
<1>2. CASE StartCollector
  BY <1>1, <1>2 DEF StartCollector, MainGoto, ServerInv, ThreadsEnded, HandlerInside, Callers
<1>3. CASE Listen
  BY <1>1, <1>3 DEF Listen, MainGoto, ServerInv, ThreadsEnded, HandlerInside, manager, reaper
<1>4. CASE ListenFails
  BY <1>1, <1>4 DEF ListenFails, MainGoto, ServerInv, ThreadsEnded, HandlerInside, manager, reaper
<1>5. CASE ListenReturns
  BY <1>1, <1>5 DEF ListenReturns, MainGoto, ServerInv, ThreadsEnded, HandlerInside, manager, reaper
<1>6. CASE LeaveServer
  BY <1>1, <1>6 DEF LeaveServer, MainGoto, Free, ClearsPointer, ServerInv, ThreadsEnded,
     HandlerInside, Callers, manager, reaper
<1>7. CASE DestroyServer
  BY <1>1, <1>7 DEF DestroyServer, MainGoto, ServerInv, ThreadsEnded, HandlerInside, manager, reaper
<1>8. CASE DestroyManager
  BY <1>1, <1>8 DEF DestroyManager, Destroy, WaitOne, Destroyed, ServerInv, ThreadsEnded,
     HandlerInside, manager, reaper
<1> QED BY <1>2, <1>3, <1>4, <1>5, <1>6, <1>7, <1>8 DEF MainStep

LEMMA StopServer ==
  ASSUME ServerInv, NEW x \in Callers, NEW t, Stop(x, t)
  PROVE  ServerInv'
<1>1. pc' = pc /\ gc' = gc
  BY DEF Stop, StopThreads, NotJoinable, Join, Joined, manager, creators, reaper
<1>2. UNCHANGED <<main, g_server>> /\ (dtor' = dtor \/ dtor' = "aborted")
  BY DEF Stop, StopThreads, NotJoinable, Join, Joined, manager
<1>3. \E to \in {"join", "joining", "over"} :
        /\ stop[x] \notin {"no", "over"} /\ stop' = [stop EXCEPT ![x] = to]
        /\ IF to = "over" THEN Return(x) ELSE on' = on
        /\ to = "over" => gc = "done" \/ gc_thread # "joinable"
  BY DEF Stop, StopThreads, NotJoinable, Join, Joined, StopGoto, Joinable
<1>4. /\ svr' \in {svr, "stopped"}
      /\ gc_thread' = gc_thread \/ (gc_thread' = "joined" /\ gc = "done" /\ stop[x] = "joining")
      /\ stop'[x] = "joining" => gc_thread = "joinable"
  BY DEF Stop, StopThreads, NotJoinable, Join, Joined, StopGoto, Joinable, ServerInv
<1>5. CASE x = "destructor"
  <2>1. stop'["handler"] = stop["handler"] /\ on' = on
    BY <1>3, <1>5 DEF Return, ServerInv, Callers
  <2>2. main \in {"stop", "destroy", "exit"} BY <1>3, <1>5 DEF ServerInv
  <2>3. stop'["destructor"] = "over" => gc = "done"
    BY <1>3, <1>5, <2>2 DEF ServerInv, Callers
  <2>4. ~g_server /\ on # "main" BY <1>3, <1>5 DEF ServerInv
  <2>5. stop' \in [Callers -> {"no", "tell", "join", "joining", "over"}]
    BY <1>3 DEF ServerInv
  <2>6. main \in {"destroy", "exit"} => FALSE BY <1>3, <1>5 DEF ServerInv
  <2>7. \A y \in Callers : stop'[y] = "joining" => gc_thread' # "none"
    BY <1>4, <1>5, <2>1 DEF ServerInv, Callers
  <2> QED BY <1>1, <1>2, <1>4, <2>1, <2>2, <2>3, <2>4, <2>5, <2>6, <2>7
       DEF ServerInv, ThreadsEnded, HandlerInside
<1>6. CASE x = "handler"
  <2>1. stop'["destructor"] = stop["destructor"] BY <1>3, <1>6 DEF ServerInv, Callers
  <2>2. HandlerInside' <=> on' \in Threads
    BY <1>3, <1>6, ServerAssumption DEF ServerInv, HandlerInside, Return, Callers, Threads
  <2>3. on' = on \/ on' = "handled" BY <1>3, <1>6 DEF Return
  <2>4. stop' \in [Callers -> {"no", "tell", "join", "joining", "over"}]
    BY <1>3 DEF ServerInv
  <2>5. \A y \in Callers : stop'[y] = "joining" => gc_thread' # "none"
    BY <1>4, <1>6, <2>1 DEF ServerInv, Callers
  <2>6. main = "ready" <=> gc_thread' = "none" BY <1>4 DEF ServerInv
  <2>7. on' = "http" => main = "listen" BY <2>3 DEF ServerInv
  <2>8. \A c \in Creators : on' = c => pc[c] # "idle" BY <2>3, ServerAssumption DEF ServerInv
  <2> QED BY <1>1, <1>2, <1>4, <2>1, <2>2, <2>3, <2>4, <2>5, <2>6, <2>7, <2>8
       DEF ServerInv, ThreadsEnded
<1> QED BY <1>5, <1>6 DEF Callers

LEMMA NextServer ==
  ASSUME TaskInv, ServerInv, [Next]_vars
  PROVE  ServerInv'
<1>1. ASSUME UNCHANGED server, dtor' = dtor, gc' = gc \/ gc # "done", pc' = pc
      PROVE  ServerInv'
  BY <1>1 DEF server, ServerInv, ThreadsEnded, HandlerInside
<1>2. ASSUME NEW c \in Creators, HttpStep(c) \/ Request(c) PROVE ServerInv'
  <2>1. UNCHANGED <<server, dtor, gc>>
    BY <1>2 DEF HttpStep, Request, CountStripe, Check, Insert, Submit, Track, Reserve, reaper
  <2>2. main = "listen"
    BY <1>2 DEF HttpStep, Request, CountStripe, Check, Insert, Submit, Track, Goto, ServerInv, ThreadsEnded
  <2>3. on # c /\ \A d \in Creators : d # c => pc'[d] = pc[d]
    BY <1>2 DEF HttpStep, Request, Free, CountStripe, Check, Insert, Submit, Track, Reserve, Goto, TaskInv
  <2> QED BY <2>1, <2>2, <2>3 DEF server, ServerInv, HandlerInside
<1>3. ASSUME NEW i \in Ids, WorkflowStep(i) PROVE ServerInv'
  BY <1>1, <1>3 DEF WorkflowStep, Start, BecomeTerminal, Finish, Throw, Hang, creators, reaper
<1>4. CASE CollectorStep
  BY <1>1, <1>4 DEF CollectorStep, Collects, CollectorGoto, CollectKeys, Erase, Inspect, creators
<1>5. ASSUME NEW t \in Threads, Signal(t) PROVE ServerInv'
  <2>1. UNCHANGED <<pc, gc, dtor, main, g_server, svr, gc_thread>>
    BY <1>5 DEF Signal, manager, creators, reaper
  <2>2. CASE g_server
    <3>1. /\ on' = t /\ stop' = [stop EXCEPT !["handler"] = "tell"]
          /\ t = "http" => main = "listen"
          /\ t \in Creators => pc[t] # "idle"
      BY <1>5, <2>2 DEF Signal
    <3>2. stop["destructor"] = "no" /\ stop'["destructor"] = stop["destructor"]
      BY <2>2, <3>1 DEF ServerInv, Callers
    <3>3. stop'["handler"] = "tell" BY <3>1 DEF ServerInv, Callers
    <3> QED BY <2>1, <3>1, <3>2, <3>3 DEF ServerInv, ThreadsEnded, HandlerInside, Callers
  <2>3. CASE ~g_server
    BY <1>5, <2>1, <2>3, ServerAssumption DEF Signal, ServerInv, ThreadsEnded, HandlerInside, Threads
  <2> QED BY <2>2, <2>3
<1>6. CASE UNCHANGED vars
  BY <1>1, <1>6 DEF vars, manager, creators, reaper
<1>7. "handler" \in Callers /\ "destructor" \in Callers BY DEF Callers
<1> QED BY <1>2, <1>3, <1>4, <1>5, <1>6, <1>7, MainServer, StopServer DEF Next, Rest

-----------------------------------------------------------------------------
\* What ends the process out of order.
LEMMA NextOrderly ==
  ASSUME TaskInv, ServerInv, OrderlyShutdown, [Next]_vars
  PROVE  OrderlyShutdown'
<1> SUFFICES ASSUME ~Alive', on' \notin {"pool", "collector"},
                    ~\E i \in Ids : task'[i] = "threw"
             PROVE  FALSE
  BY DEF OrderlyShutdown
<1>1. ~\E i \in Ids : task[i] = "threw" BY ThrewStays
<1>2. ASSUME UNCHANGED <<undefined, dtor, on>> PROVE FALSE
  BY <1>1, <1>2 DEF OrderlyShutdown, Alive
<1>11. ASSUME main # "listen" PROVE on \notin Creators /\ on # "http"
  BY <1>11 DEF ServerInv, ThreadsEnded
<1>3. ASSUME NEW x \in Callers, NEW t, Stop(x, t), x = "destructor" => t = "main" /\ on # "main",
             x = "handler" => t = on
      PROVE  FALSE
  <2>1. Alive BY <1>3 DEF Stop
  <2>2. CASE Join(x, t)
    <3>1. t # "collector" BY <1>3, <2>2 DEF Join, Callers
    <3>2. \E y \in Callers \ {x} : stop[y] = "joining" BY <2>1, <2>2, <3>1 DEF Join, Alive
    <3>3. \A y \in Callers : stop[y] \notin {"no", "over"}
      BY <2>2, <3>2 DEF Join, StopGoto, Callers
    <3>4. on \in Threads /\ on # "main" BY <3>3 DEF ServerInv, HandlerInside, Callers
    <3>5. main # "listen" BY <3>3 DEF ServerInv, Callers
    <3> QED BY <1>11, <2>2, <3>4, <3>5 DEF Join, Threads
  <2>3. CASE ~Join(x, t)
    BY <1>3, <2>1, <2>3 DEF Stop, StopThreads, NotJoinable, Joined, manager, Alive
  <2> QED BY <2>2, <2>3
<1>4. CASE MainStep
  <2>1. CASE Free("main") /\ Stop("destructor", "main") BY <1>3, <2>1 DEF Free, Callers
  <2>2. CASE DestroyServer
    <3>1. HandlerInside BY <2>2 DEF DestroyServer, MainGoto, Free, Alive, manager
    <3>2. on \in Threads /\ on # "main" /\ on' = on
      BY <2>2, <3>1 DEF DestroyServer, MainGoto, Free, ServerInv
    <3>3. main # "listen" BY <2>2 DEF DestroyServer, MainGoto
    <3> QED BY <1>11, <3>2, <3>3 DEF Threads
  <2>3. CASE DestroyManager
    <3>1. CASE WaitOne
      <4>1. \E i \in Ids : task[i] = "threw" \/ dtor' = dtor BY <3>1 DEF WaitOne
      <4> QED BY <1>1, <1>2, <2>3, <4>1 DEF DestroyManager
    <3>2. CASE ~WaitOne
      BY <1>2, <2>3, <3>2 DEF DestroyManager, Destroy, Destroyed, manager, Free, Alive
    <3> QED BY <3>1, <3>2
  <2>4. CASE StartCollector \/ Listen \/ ListenFails \/ ListenReturns \/ LeaveServer
    BY <1>2, <2>4 DEF StartCollector, Listen, ListenFails, ListenReturns, LeaveServer, manager
  <2> QED BY <1>4, <2>1, <2>2, <2>3, <2>4 DEF MainStep
<1>5. CASE Stop("handler", on) BY <1>3, <1>5 DEF Callers
<1>6. ASSUME NEW t \in Threads, Signal(t) PROVE FALSE
  BY <1>6 DEF Signal, Alive, manager
<1>7. ASSUME NEW c \in Creators, HttpStep(c) \/ Request(c) PROVE FALSE
  BY <1>2, <1>7 DEF HttpStep, Request, CountStripe, Check, Insert, Submit, Track, Reserve, server
<1>8. ASSUME NEW i \in Ids, WorkflowStep(i) PROVE FALSE
  BY <1>2, <1>8 DEF WorkflowStep, Start, BecomeTerminal, Finish, Throw, Hang, server
<1>9. CASE CollectorStep
  BY <1>2, <1>9 DEF CollectorStep, Collects, CollectorGoto, CollectKeys, Erase, Inspect, server
<1>10. CASE UNCHANGED vars BY <1>2, <1>10 DEF vars, manager, server
<1> QED BY <1>4, <1>5, <1>6, <1>7, <1>8, <1>9, <1>10 DEF Next, Rest

LEMMA Invariance == Spec => []IInv
<1>1. IInv /\ [Next]_vars => IInv' BY NextTasks, NextServer, NextOrderly DEF IInv
<1> QED BY InitIInv, <1>1, PTL DEF Spec

-----------------------------------------------------------------------------
(***************************************************************************)
(* The shutdown goes wrong only if the signal is handled on a pool thread  *)
(* or the collector, or a workflow threw (http_server.cpp:36, main.cpp:69).*)
(***************************************************************************)
THEOREM ShutdownInOrder == Spec => []OrderlyShutdown
<1>1. IInv => OrderlyShutdown BY DEF IInv
<1> QED BY Invariance, <1>1, PTL

(***************************************************************************)
(* When ~SessionManager begins, the HTTP threads and the collector are     *)
(* done: listen() and the join in stop() have waited for them.             *)
(***************************************************************************)
THEOREM NoThreadOutlives == Spec => []ThreadsGone
<1>1. IInv => ThreadsGone BY DEF IInv, ServerInv, ThreadsGone, ThreadsEnded
<1> QED BY Invariance, <1>1, PTL

(***************************************************************************)
(* gc() erases only sessions whose workflow has ended them, although it    *)
(* looks at them under one lock and erases them under another.             *)
(***************************************************************************)
THEOREM OnlyTerminalReaped == Spec => ReapsOnlyTerminal
<1>1. ASSUME IInv, [Next]_vars PROVE [\A i \in map \ map' : state[i] = "terminal"]_manager
  <2>1. ASSUME map \ map' = {} PROVE \A i \in map \ map' : state[i] = "terminal" BY <2>1
  <2>2. CASE MainStep \/ (\E x \in Callers : \E t : Stop(x, t)) \/ (\E t \in Threads : Signal(t))
    BY <2>1, <2>2, ServerSteps
  <2>3. ASSUME NEW c \in Creators, HttpStep(c) \/ Request(c) PROVE map \ map' = {}
    BY <2>3 DEF HttpStep, Request, CountStripe, Check, Insert, Submit, Track, Reserve
  <2>4. ASSUME NEW i \in Ids, WorkflowStep(i) PROVE map \ map' = {}
    BY <2>4 DEF WorkflowStep, Start, BecomeTerminal, Finish, Throw, Hang
  <2>5. CASE CollectorStep
    <3>1. CASE Erase BY <1>1, <3>1 DEF Erase, IInv, TaskInv
    <3>2. CASE ~Erase
      <4>1. map' = map
        BY <2>5, <3>2 DEF CollectorStep, Collects, CollectorGoto, CollectKeys, Inspect
      <4> QED BY <2>1, <4>1
    <3> QED BY <3>1, <3>2
  <2>6. CASE UNCHANGED vars BY <2>6 DEF vars
  <2>7. "handler" \in Callers BY DEF Callers
  <2> QED BY <1>1, <2>1, <2>2, <2>3, <2>4, <2>5, <2>6, <2>7 DEF Next, Rest
<1> QED BY Invariance, <1>1, PTL DEF Spec, ReapsOnlyTerminal

-----------------------------------------------------------------------------
(***************************************************************************)
(* Every task that has been submitted and is not over has its future in    *)
(* inflight_, or its create_session() is about to put it there; so the     *)
(* destructor, which waits for all of inflight_, waits for all of them.    *)
(***************************************************************************)
Waited(i) == \E k \in 1 .. Len(inflight) : inflight[k] = i

FutureKept ==
  /\ inflight \in Seq(Ids)
  /\ \A c \in Creators : pc[c] = "track" => id[c] \in Ids
  /\ \A i \in Ids : task[i] \in {"queued", "running", "hung"} =>
       Waited(i) \/ \E c \in Creators : pc[c] = "track" /\ id[c] = i
  /\ dtor = "gone" => inflight = <<>>

LEMMA LeastNumber ==
  ASSUME NEW U \in SUBSET Nat, U # {}
  PROVE  \E x \in U : \A y \in U : x <= y
<1> DEFINE R == {ss \in Nat \X Nat : ss[1] < ss[2]}
<1>1. IsWellFoundedOn(R, Nat)
  BY NatLessThanWellFounded, Zenon DEF OpToRel
<1>2. ASSUME NEW x \in Nat, NEW y \in Nat, ~ (<<y, x>> \in R)
      PROVE  x <= y
  BY <1>2
<1> HIDE DEF R
<1>3. \E x \in U : \A y \in U : ~ (<<y, x>> \in R)
  BY <1>1, WFMin, Zenon
<1> QED
  BY <1>2, <1>3

\* Prune() keeps every future that is not ready.
KeepsUnfinished(q, r) == /\ r \in Seq(Ids)
               /\ \A i \in 1 .. Len(q) : Unfinished(q[i]) => \E k \in 1 .. Len(r) : r[k] = q[i]

PruneStep(r, i) == IF Unfinished(i) THEN Append(r, i) ELSE r

LEMMA PruneKeeps ==
  ASSUME NEW q \in Seq(Ids)
  PROVE  KeepsUnfinished(q, Prune(q))
<1> DEFINE N == Len(q)
           Eq(g, m) == g = [n \in 0 .. m |-> IF n = 0 THEN <<>> ELSE PruneStep(g[n - 1], q[n])]
           Has(m) == \E g : Eq(g, m)
           g0 == CHOOSE g : Eq(g, N)
<1>1. N \in Nat /\ \A n \in 1 .. N : q[n] \in Ids
  OBVIOUS
<1>2. Has(0)
  <2> DEFINE e == [n \in 0 .. 0 |-> <<>>]
  <2>1. e = [n \in 0 .. 0 |-> IF n = 0 THEN <<>> ELSE PruneStep(e[n - 1], q[n])]
    OBVIOUS
  <2> QED
    BY <2>1
<1>3. ASSUME NEW m \in Nat, Has(m) PROVE Has(m + 1)
  <2>1. PICK g : g = [n \in 0 .. m |-> IF n = 0 THEN <<>> ELSE PruneStep(g[n - 1], q[n])]
    BY <1>3
  <2> DEFINE e == [n \in 0 .. m + 1 |-> IF n = m + 1 THEN PruneStep(g[m], q[m + 1]) ELSE g[n]]
  <2>2. ASSUME NEW n \in 0 .. m + 1
        PROVE  e[n] = IF n = 0 THEN <<>> ELSE PruneStep(e[n - 1], q[n])
    <3>1. CASE n = m + 1
      <4>1. e[n] = PruneStep(g[m], q[m + 1]) /\ m \in 0 .. m + 1 /\ m # m + 1 /\ n # 0 /\ n - 1 = m
        BY <3>1
      <4>2. e[m] = g[m]
        BY <4>1
      <4> QED
        BY <3>1, <4>1, <4>2
    <3>2. CASE n \in 0 .. m /\ n # 0
      <4>1. e[n] = g[n] /\ n - 1 \in 0 .. m + 1 /\ n - 1 # m + 1
        BY <3>2
      <4>2. e[n - 1] = g[n - 1]
        BY <4>1
      <4>3. g[n] = PruneStep(g[n - 1], q[n])
        BY <2>1, <3>2
      <4> QED
        BY <3>2, <4>1, <4>2, <4>3
    <3>3. CASE n = 0
      BY <2>1, <3>3
    <3> QED
      BY <3>1, <3>2, <3>3
  <2>3. e = [n \in 0 .. m + 1 |-> e[n]]
    OBVIOUS
  <2> HIDE DEF e
  <2>4. Eq(e, m + 1)
    BY <2>2, <2>3
  <2> QED
    BY <2>4
<1>4. Has(N)
  <2> DEFINE U == {m \in Nat : ~Has(m)}
  <2> HIDE DEF Has
  <2> SUFFICES ASSUME U # {} PROVE FALSE
    BY <1>1
  <2>1. PICK m \in U : \A k \in U : m <= k
    <3>1. U \in SUBSET Nat
      OBVIOUS
    <3> HIDE DEF U
    <3> QED
      BY <3>1, LeastNumber
  <2>2. m # 0 /\ m - 1 \in Nat /\ m - 1 \notin U
    BY <1>2, <2>1
  <2>3. Has((m - 1) + 1)
    BY <1>3, <2>2
  <2>4. (m - 1) + 1 = m
    OBVIOUS
  <2> QED
    BY <2>3, <2>4
<1>5. Eq(g0, N)
  <2> HIDE DEF Eq
  <2> QED
    BY <1>4
<1> HIDE DEF g0
<1>6. ASSUME NEW n \in 0 .. N
      PROVE  g0[n] = IF n = 0 THEN <<>> ELSE PruneStep(g0[n - 1], q[n])
  BY <1>5
<1> DEFINE P(n) == /\ g0[n] \in Seq(Ids)
                   /\ \A i \in 1 .. n : Unfinished(q[i]) => \E k \in 1 .. Len(g0[n]) : g0[n][k] = q[i]
<1>7. P(0)
  <2>1. 0 \in 0 .. N
    BY <1>1
  <2>2. g0[0] = <<>>
    BY <1>6, <2>1
  <2> QED
    BY <2>2
<1>8. ASSUME NEW n \in 1 .. N, P(n - 1) PROVE P(n)
  <2>1. g0[n] = PruneStep(g0[n - 1], q[n]) /\ q[n] \in Ids
    BY <1>1, <1>6
  <2> DEFINE r == g0[n - 1]
             s == g0[n]
  <2>2. /\ r \in Seq(Ids)
        /\ \A i \in 1 .. n - 1 : Unfinished(q[i]) => \E k \in 1 .. Len(r) : r[k] = q[i]
    BY <1>8
  <2>3. s = IF Unfinished(q[n]) THEN Append(r, q[n]) ELSE r
    BY <2>1 DEF PruneStep
  <2> HIDE DEF r, s
  <2>4. s \in Seq(Ids)
    BY <2>1, <2>2, <2>3
  <2>5. \A k \in 1 .. Len(r) : k \in 1 .. Len(s) /\ s[k] = r[k]
    BY <2>1, <2>2, <2>3
  <2>6. Unfinished(q[n]) => \E k \in 1 .. Len(s) : s[k] = q[n]
    <3>1. ASSUME Unfinished(q[n])
          PROVE  Len(r) + 1 \in 1 .. Len(s) /\ s[Len(r) + 1] = q[n]
      BY <2>1, <2>2, <2>3, <3>1
    <3> QED
      BY <3>1
  <2>7. ASSUME NEW i \in 1 .. n, Unfinished(q[i])
        PROVE  \E k \in 1 .. Len(s) : s[k] = q[i]
    <3>1. CASE i = n
      BY <2>6, <2>7, <3>1
    <3>2. CASE i \in 1 .. n - 1
      BY <2>2, <2>5, <2>7, <3>2
    <3> QED
      BY <3>1, <3>2
  <2> QED
    BY <2>4, <2>7 DEF s
<1>9. P(N)
  <2> DEFINE U == {m \in 0 .. N : ~P(m)}
  <2> HIDE DEF P
  <2> SUFFICES ASSUME U # {} PROVE FALSE
    BY <1>1
  <2>1. PICK m \in U : \A k \in U : m <= k
    <3>1. U \in SUBSET Nat
      BY <1>1
    <3> HIDE DEF U
    <3> QED
      BY <3>1, LeastNumber
  <2>2. m \in 1 .. N /\ m - 1 \in 0 .. N /\ m - 1 \notin U
    BY <1>1, <1>7, <2>1
  <2> QED
    BY <1>8, <2>2
<1>10. Prune(q) = g0[N]
  BY DEF Prune, g0, PruneStep
<1> QED
  BY <1>9, <1>10 DEF KeepsUnfinished

LEMMA KeptWhenUnchanged ==
  ASSUME FutureKept, UNCHANGED <<inflight, pc, id>>,
         \A i \in Ids : task'[i] \in {"queued", "running", "hung"} =>
                          task[i] \in {"queued", "running", "hung"},
         dtor' = "gone" => dtor = "gone"
  PROVE  FutureKept'
  BY DEF FutureKept, Waited

\* create_session(): the future moves from the caller into inflight_.
LEMMA TrackKeeps ==
  ASSUME TaskInv, FutureKept, dtor # "gone", NEW c \in Creators, Track(c)
  PROVE  FutureKept'
<1>1. /\ pc[c] = "track" /\ pc' = [pc EXCEPT ![c] = "idle"] /\ id' = [id EXCEPT ![c] = 0]
      /\ inflight' = Append(Prune(inflight), id[c]) /\ task' = task /\ dtor' = dtor
  BY DEF Track, Goto
<1>2. id[c] \in Ids /\ inflight \in Seq(Ids)
  BY <1>1 DEF FutureKept
<1> DEFINE r == Prune(inflight)
<1>3. /\ r \in Seq(Ids)
      /\ \A i \in 1 .. Len(inflight) : Unfinished(inflight[i]) => \E k \in 1 .. Len(r) : r[k] = inflight[i]
  BY <1>2, PruneKeeps DEF KeepsUnfinished
<1>4. inflight' = Append(r, id[c])
  BY <1>1
<1> HIDE DEF r
<1>5. /\ inflight' \in Seq(Ids) /\ Len(inflight') = Len(r) + 1 /\ inflight'[Len(r) + 1] = id[c]
      /\ Len(r) \in Nat /\ \A k \in 1 .. Len(r) : inflight'[k] = r[k]
  BY <1>2, <1>3, <1>4
<1>6. \E k \in 1 .. Len(inflight') : inflight'[k] = id[c]
  <2>1. Len(r) + 1 \in 1 .. Len(inflight')
    BY <1>5
  <2> QED
    BY <1>5, <2>1
<1>7. ASSUME NEW i \in Ids, task[i] \in {"queued", "running", "hung"}, Waited(i)
      PROVE  \E k \in 1 .. Len(inflight') : inflight'[k] = i
  <2>1. PICK k \in 1 .. Len(inflight) : inflight[k] = i
    BY <1>7 DEF Waited
  <2>2. Unfinished(inflight[k])
    BY <1>7, <2>1 DEF Unfinished
  <2>3. PICK j \in 1 .. Len(r) : r[j] = i
    BY <1>3, <2>1, <2>2
  <2>4. j \in 1 .. Len(inflight') /\ inflight'[j] = i
    BY <1>5, <2>3
  <2> QED
    BY <2>4
<1>8. \A d \in Creators : pc'[d] = "track" => d # c /\ pc[d] = "track" /\ id'[d] = id[d]
  BY <1>1 DEF TaskInv
<1>9. \A d \in Creators : pc[d] = "track" /\ d # c => pc'[d] = "track" /\ id'[d] = id[d]
  BY <1>1 DEF TaskInv
<1>10. ASSUME NEW i \in Ids, task'[i] \in {"queued", "running", "hung"}
       PROVE  (\E k \in 1 .. Len(inflight') : inflight'[k] = i)
                \/ \E d \in Creators : pc'[d] = "track" /\ id'[d] = i
  <2>1. task[i] \in {"queued", "running", "hung"}
    BY <1>1, <1>10
  <2>2. CASE Waited(i)
    BY <1>7, <2>1, <2>2
  <2>3. CASE i = id[c]
    BY <1>6, <2>3
  <2>4. CASE ~Waited(i) /\ i # id[c]
    <3>1. PICK d \in Creators : pc[d] = "track" /\ id[d] = i
      BY <2>1, <2>4 DEF FutureKept
    <3> QED
      BY <1>9, <2>4, <3>1
  <2> QED
    BY <2>2, <2>3, <2>4
<1> QED
  BY <1>1, <1>5, <1>8, <1>10 DEF FutureKept, Waited

\* ~SessionManager takes a future from inflight_ only if its task is over.
LEMMA WaitKeeps ==
  ASSUME FutureKept, WaitOne
  PROVE  FutureKept'
<1>1. /\ dtor = "waiting" /\ inflight # <<>> /\ inflight' = Tail(inflight)
      /\ task[Head(inflight)] \in {"done", "threw"}
      /\ dtor' \in {"waiting", "aborted"}
      /\ UNCHANGED <<pc, id, task>>
  BY DEF WaitOne, creators
<1>2. inflight \in Seq(Ids)
  BY DEF FutureKept
<1>3. inflight' \in Seq(Ids)
  BY <1>1, <1>2
<1>4. ASSUME NEW i \in Ids, task[i] \in {"queued", "running", "hung"}, Waited(i)
      PROVE  \E k \in 1 .. Len(inflight') : inflight'[k] = i
  <2>1. PICK k \in 1 .. Len(inflight) : inflight[k] = i
    BY <1>4 DEF Waited
  <2>2. k # 1
    BY <1>1, <1>2, <1>4, <2>1
  <2>3. k - 1 \in 1 .. Len(Tail(inflight)) /\ Tail(inflight)[k - 1] = inflight[k]
    BY <1>1, <1>2, <2>1, <2>2
  <2> QED
    BY <1>1, <2>1, <2>3
<1> QED
  BY <1>1, <1>3, <1>4 DEF FutureKept, Waited

LEMMA HttpKeeps ==
  ASSUME TaskInv, ThreadsGone, FutureKept, NEW c \in Creators, HttpStep(c) \/ Request(c)
  PROVE  FutureKept'
<1>1. dtor' = dtor
  BY DEF HttpStep, Request, CountStripe, Check, Insert, Submit, Track, Reserve
<1>2. CASE Track(c)
  <2>1. dtor # "gone"
    BY <1>2 DEF Track, Goto, ThreadsGone
  <2> QED
    BY <1>2, <2>1, TrackKeeps
<1>3. CASE Submit(c)
  <2>1. /\ pc[c] = "submit" /\ pc' = [pc EXCEPT ![c] = "track"]
        /\ task' = [task EXCEPT ![id[c]] = "queued"] /\ UNCHANGED <<id, inflight>>
    BY <1>3 DEF Submit, Goto
  <2>2. id[c] \in Ids
    BY <2>1 DEF TaskInv, Preparing
  <2>3. pc'[c] = "track" /\ \A d \in Creators : d # c => pc'[d] = pc[d]
    BY <2>1 DEF TaskInv
  <2>4. \A i \in Ids : i # id[c] => task'[i] = task[i]
    BY <2>1 DEF TaskInv
  <2>5. \A d \in Creators : pc[d] = "track" => pc'[d] = "track"
    BY <2>1, <2>3
  <2>6. \A d \in Creators : pc'[d] = "track" => id'[d] \in Ids
    BY <2>1, <2>2, <2>3 DEF FutureKept
  <2>7. ASSUME NEW i \in Ids, task'[i] \in {"queued", "running", "hung"}
        PROVE  Waited(i)' \/ \E d \in Creators : pc'[d] = "track" /\ id'[d] = i
    <3>1. CASE i = id[c]
      BY <2>1, <2>3, <3>1
    <3>2. CASE i # id[c]
      <4>1. Waited(i) \/ \E d \in Creators : pc[d] = "track" /\ id[d] = i
        BY <2>4, <2>7, <3>2 DEF FutureKept
      <4>2. Waited(i)' <=> Waited(i)
        BY <2>1 DEF Waited
      <4> QED
        BY <2>1, <2>5, <4>1, <4>2
    <3> QED
      BY <3>1, <3>2
  <2>8. inflight' \in Seq(Ids)
    BY <2>1 DEF FutureKept
  <2>9. dtor' = "gone" => inflight' = <<>>
    BY <1>1, <2>1 DEF FutureKept
  <2> QED
    BY <2>6, <2>7, <2>8, <2>9 DEF FutureKept
<1>4. CASE CountStripe(c) \/ Check(c) \/ Insert(c) \/ Reserve(c)
  <2>1. UNCHANGED <<inflight, task>>
    BY <1>4 DEF CountStripe, Check, Insert, Reserve
  <2>2. \A d \in Creators : \/ pc'[d] = pc[d] /\ id'[d] = id[d]
                            \/ pc[d] # "track" /\ pc'[d] # "track"
    BY <1>4 DEF CountStripe, Check, Insert, Reserve, Goto, TaskInv
  <2>3. \A d \in Creators : /\ pc[d] = "track" <=> pc'[d] = "track"
                            /\ pc[d] = "track" => id'[d] = id[d]
    BY <2>2
  <2>4. \A i \in Ids : Waited(i)' <=> Waited(i)
    BY <2>1 DEF Waited
  <2>5. ASSUME NEW i \in Ids, task'[i] \in {"queued", "running", "hung"}
        PROVE  Waited(i)' \/ \E d \in Creators : pc'[d] = "track" /\ id'[d] = i
    <3>1. Waited(i) \/ \E d \in Creators : pc[d] = "track" /\ id[d] = i
      BY <2>1, <2>5 DEF FutureKept
    <3> QED
      BY <2>3, <2>4, <3>1
  <2>6. \A d \in Creators : pc'[d] = "track" => id'[d] \in Ids
    BY <2>3 DEF FutureKept
  <2> QED
    BY <1>1, <2>1, <2>5, <2>6 DEF FutureKept
<1> QED
  BY <1>2, <1>3, <1>4 DEF HttpStep, Request

LEMMA NextKept ==
  ASSUME IInv, FutureKept, [Next]_vars
  PROVE  FutureKept'
<1>1. TaskInv /\ ThreadsGone
  BY DEF IInv, ServerInv, ThreadsGone, ThreadsEnded
<1>2. ASSUME NEW x \in Callers, NEW t, Stop(x, t) PROVE FutureKept'
  <2>1. UNCHANGED <<inflight, pc, id, task>> /\ (dtor' = dtor \/ dtor' = "aborted")
    BY <1>2 DEF Stop, StopThreads, NotJoinable, Join, Joined, manager, creators
  <2> QED
    BY <2>1, KeptWhenUnchanged
<1>3. CASE MainStep
  <2>1. CASE Stop("destructor", "main")
    BY <1>2, <2>1 DEF Callers
  <2>2. CASE WaitOne
    BY <2>2, WaitKeeps
  <2>3. CASE Destroyed
    BY <2>3 DEF Destroyed, FutureKept, Waited, creators
  <2>4. CASE ~Stop("destructor", "main") /\ ~WaitOne /\ ~Destroyed
    <3>1. UNCHANGED <<inflight, pc, id, task>> /\ (dtor' = "gone" => dtor = "gone")
      BY <1>3, <2>4 DEF MainStep, StartCollector, Listen, ListenFails, ListenReturns, LeaveServer,
         DestroyServer, DestroyManager, Destroy, manager, creators
    <3> QED
      BY <3>1, KeptWhenUnchanged
  <2> QED
    BY <2>1, <2>2, <2>3, <2>4
<1>4. ASSUME NEW t \in Threads, Signal(t) PROVE FutureKept'
  <2>1. UNCHANGED <<inflight, pc, id, task, dtor>>
    BY <1>4 DEF Signal, manager, creators
  <2> QED
    BY <2>1, KeptWhenUnchanged
<1>5. ASSUME NEW i \in Ids, WorkflowStep(i) PROVE FutureKept'
  <2>1. /\ UNCHANGED <<inflight, pc, id, dtor>>
        /\ task[i] \in {"queued", "running", "hung"}
        /\ task' = task \/ \E s : task' = [task EXCEPT ![i] = s]
    BY <1>5 DEF WorkflowStep, Start, BecomeTerminal, Finish, Throw, Hang, creators
  <2>2. \A j \in Ids : j # i => task'[j] = task[j]
    BY <1>1, <2>1 DEF TaskInv
  <2> QED
    BY <2>1, <2>2, KeptWhenUnchanged
<1>6. CASE CollectorStep
  <2>1. UNCHANGED <<inflight, pc, id, task, dtor>>
    BY <1>6 DEF CollectorStep, Collects, CollectorGoto, CollectKeys, Erase, Inspect, creators
  <2> QED
    BY <2>1, KeptWhenUnchanged
<1>7. CASE UNCHANGED vars
  <2>1. UNCHANGED <<inflight, pc, id, task, dtor>>
    BY <1>7 DEF vars, manager, creators
  <2> QED
    BY <2>1, KeptWhenUnchanged
<1>8. "handler" \in Callers
  BY DEF Callers
<1> QED
  BY <1>1, <1>2, <1>3, <1>4, <1>5, <1>6, <1>7, <1>8, HttpKeeps DEF Next, Rest

(***************************************************************************)
(* Nothing that uses the SessionManager outlives it: when its destructor   *)
(* returns no HTTP thread, no collector and no workflow task is left       *)
(* (session_manager.cpp:20-31), however many of them there were and        *)
(* however create_session() pruned inflight_ (session_manager.cpp:85-88).  *)
(***************************************************************************)
THEOREM NothingOutlives == Spec => []ManagerOutlivesUsers
<1>1. Init => FutureKept
  BY DEF Init, ManagerInit, FutureKept
<1>2. IInv /\ FutureKept => ManagerOutlivesUsers
  <2> SUFFICES ASSUME IInv, FutureKept PROVE ManagerOutlivesUsers
    OBVIOUS
  <2>1. ThreadsGone
    BY DEF IInv, ServerInv, ThreadsGone, ThreadsEnded
  <2>2. ASSUME dtor = "gone", NEW i \in Ids, task[i] \in {"queued", "running", "hung"} PROVE FALSE
    <3>1. inflight = <<>> /\ \A c \in Creators : pc[c] = "idle"
      BY <2>1, <2>2 DEF FutureKept, ThreadsGone
    <3>2. ~Waited(i)
      BY <3>1 DEF Waited
    <3> QED
      BY <2>2, <3>1, <3>2 DEF FutureKept
  <2>3. \A i \in Ids : task[i] \in {"none", "queued", "running", "done", "threw", "hung"}
    BY DEF IInv, TaskInv
  <2> QED
    BY <2>1, <2>2, <2>3 DEF ManagerOutlivesUsers
<1>3. FutureKept /\ IInv /\ [Next]_vars => FutureKept'
  BY NextKept
<1> QED
  BY Invariance, <1>1, <1>2, <1>3, PTL DEF Spec

-----------------------------------------------------------------------------
\* Thread c is in insert_if_under(): its session exists and is in nobody's sight.
Inserting(c) == pc[c] \in {"count", "insert"}

TypeInv ==
  /\ next_id \in Nat \ {0}
  /\ map \subseteq 1 .. next_id - 1
  /\ pc \in [Creators -> {"idle", "count", "insert", "submit", "track"}]
  /\ id \in [Creators -> 0 .. next_id - 1] /\ last \in [Creators -> 0 .. next_id - 1]
  /\ cursor \in [Creators -> 0 .. NumStripes - 1] /\ total \in [Creators -> Nat]
  /\ early \in [Creators -> SUBSET (1 .. next_id - 1)]
  /\ base \in [Creators -> SUBSET (1 .. next_id - 1)]

\* The id of a session that is being inserted is its own.
Fresh ==
  \A c \in Creators : Inserting(c) =>
    /\ id[c] # 0 /\ id[c] \notin map
    /\ \A d \in Creators :
         /\ id[c] \notin early[d] /\ id[c] \notin base[d] /\ id[c] # last[d]
         /\ d # c /\ Inserting(d) => id[c] # id[d]

\* What is left of the snapshot in the stripes that size() has visited.
Visited(c) == {i \in early[c] \cap map : i % NumStripes < cursor[c]}

\* The sum is not less than that; size() begins at the first stripe.
CountInv ==
  \A c \in Creators : IF pc[c] = "count" THEN Cardinality(Visited(c)) <= total[c]
                                          ELSE cursor[c] = 0

\* What is left of two snapshots is comparable.
Comparable(X, Y) == X \cap map \subseteq Y \/ Y \cap map \subseteq X

SnapshotInv ==
  /\ \A c, d \in Creators : Comparable(early[c], base[d]) /\ Comparable(early[c], early[d])
  /\ \A c \in Creators : Inserting(c) =>
       base[c] \cap map \subseteq early[c] /\ (last[c] \in map => last[c] \in early[c])
  /\ \A c \in Creators : last[c] # 0 => Cardinality(base[c] \cap map) < MaxSessions
  /\ \A c \in Creators : last[c] = 0 => base[c] = {}
  /\ \A i \in map : \E c \in Creators : i = last[c] \/ i \in base[c]
  /\ \E c \in Creators : \A d \in Creators : base[d] \cap map \subseteq base[c]

MapInv == TypeInv /\ Fresh /\ CountInv /\ RoomWhenInserting /\ SnapshotInv

-----------------------------------------------------------------------------
\* Sets of sessions of the map can be counted.
LEMMA Parts ==
  ASSUME NEW n \in Nat, NEW M \in SUBSET (1 .. n - 1), NEW S \in SUBSET M, NEW T \in SUBSET S
  PROVE  /\ IsFiniteSet(S) /\ IsFiniteSet(T)
         /\ Cardinality(S) \in Nat /\ Cardinality(T) \in Nat
         /\ Cardinality(T) <= Cardinality(S)
<1>1. IsFiniteSet(1 .. n - 1) BY FS_Interval
<1>2. S \in SUBSET (1 .. n - 1) OBVIOUS
<1>3. IsFiniteSet(S) BY ONLY <1>1, <1>2, FS_Subset
<1>4. IsFiniteSet(T) /\ Cardinality(T) <= Cardinality(S) BY <1>3, FS_Subset
<1> QED BY <1>3, <1>4, FS_CardinalityType

LEMMA InitMapInv == Init => MapInv
<1> SUFFICES ASSUME Init PROVE MapInv OBVIOUS
<1> USE ManagerAssumption DEF Init, ManagerInit
<1>1. TypeInv BY DEF TypeInv
<1>2. Fresh /\ CountInv /\ RoomWhenInserting
  BY DEF Fresh, CountInv, RoomWhenInserting, Inserting
<1>3. SnapshotInv
  BY DEF SnapshotInv, Comparable, Inserting
<1> QED BY <1>1, <1>2, <1>3 DEF MapInv

(***************************************************************************)
(* The collector erases sessions, and the threads that are past            *)
(* insert_if_under() go on.                                                *)
(***************************************************************************)
LEMMA ShrinkIInv ==
  ASSUME MapInv, map' \subseteq map,
         UNCHANGED <<next_id, cursor, total, early, last, base>>,
         pc' \in [Creators -> {"idle", "count", "insert", "submit", "track"}],
         id' \in [Creators -> 0 .. next_id - 1],
         \A c \in Creators : \/ pc'[c] = pc[c] /\ id'[c] = id[c]
                             \/ {pc[c], pc'[c]} \cap {"count", "insert"} = {}
  PROVE  MapInv'
<1>1. TypeInv' BY DEF MapInv, TypeInv
<1>2. Fresh' BY DEF MapInv, TypeInv, Fresh, Inserting
<1>3. CountInv'
  <2> SUFFICES ASSUME NEW c \in Creators, pc'[c] = "count"
               PROVE  Cardinality(Visited(c)') <= total'[c]
    BY DEF CountInv, MapInv
  <2>1. Visited(c)' \in SUBSET Visited(c) /\ Visited(c) \in SUBSET map BY DEF Visited
  <2>2. Cardinality(Visited(c)) <= total[c] BY DEF MapInv, CountInv
  <2>3. /\ Cardinality(Visited(c)') <= Cardinality(Visited(c))
        /\ Cardinality(Visited(c)') \in Nat /\ Cardinality(Visited(c)) \in Nat
    BY <2>1, Parts DEF MapInv, TypeInv
  <2> QED BY <2>2, <2>3 DEF MapInv, TypeInv
<1>4. ASSUME NEW X, Cardinality(X \cap map) < MaxSessions
      PROVE  Cardinality(X \cap map') < MaxSessions
  <2>1. /\ Cardinality(X \cap map') <= Cardinality(X \cap map)
        /\ Cardinality(X \cap map') \in Nat /\ Cardinality(X \cap map) \in Nat
    BY Parts DEF MapInv, TypeInv
  <2> QED BY <1>4, <2>1, ManagerAssumption
<1>5. RoomWhenInserting' BY <1>4 DEF MapInv, RoomWhenInserting
<1>6. SnapshotInv'
  <2>1. \A c \in Creators : Inserting(c)' => Inserting(c) BY DEF Inserting
  <2> QED BY <1>4, <2>1 DEF MapInv, SnapshotInv, Comparable
<1> QED BY <1>1, <1>2, <1>3, <1>5, <1>6 DEF MapInv
\* create_session() begins: the snapshot is the whole map, and contains all others.
LEMMA ReserveIInv ==
  ASSUME MapInv, NEW c \in Creators, Reserve(c)
  PROVE  MapInv'
<1>1. /\ pc[c] = "idle" /\ pc' = [pc EXCEPT ![c] = "count"]
      /\ id' = [id EXCEPT ![c] = next_id] /\ next_id' = next_id + 1
      /\ early' = [early EXCEPT ![c] = map]
      /\ UNCHANGED <<cursor, total, last, base, map>>
  BY DEF Reserve, Goto
<1>2. cursor[c] = 0 BY <1>1 DEF MapInv, CountInv
<1>3. TypeInv' BY <1>1 DEF MapInv, TypeInv
<1>4. Fresh' BY <1>1 DEF MapInv, TypeInv, Fresh, Inserting
<1>5. CountInv'
  <2> SUFFICES ASSUME NEW d \in Creators, pc'[d] = "count"
               PROVE  Cardinality(Visited(d)') <= total'[d]
    BY <1>1 DEF CountInv, MapInv, TypeInv
  <2>1. CASE d # c
    <3>1. Visited(d)' = Visited(d) BY <1>1, <2>1 DEF MapInv, TypeInv, Visited
    <3> QED BY <1>1, <2>1, <3>1 DEF MapInv, TypeInv, CountInv
  <2>2. CASE d = c
    <3>1. \A i \in map : ~(i % NumStripes < 0) BY ManagerAssumption DEF MapInv, TypeInv
    <3>2. Visited(d)' = {} BY <1>1, <1>2, <2>2, <3>1 DEF Visited
    <3> QED BY <1>1, <3>2, FS_EmptySet DEF MapInv, TypeInv
  <2> QED BY <2>1, <2>2
<1>6. RoomWhenInserting' BY <1>1 DEF MapInv, TypeInv, RoomWhenInserting
<1>7. SnapshotInv'
  <2>1. \A d \in Creators : d # c => early'[d] = early[d] /\ (Inserting(d)' <=> Inserting(d))
    BY <1>1 DEF MapInv, TypeInv, Inserting
  <2>2. early'[c] = map BY <1>1 DEF MapInv, TypeInv
  <2> QED BY <1>1, <2>1, <2>2 DEF MapInv, SnapshotInv, Comparable
<1> QED BY <1>3, <1>4, <1>5, <1>6, <1>7 DEF MapInv

\* One more stripe: what it adds to the part of the snapshot is counted.
LEMMA CountedEnough ==
  ASSUME MapInv, NEW c \in Creators, pc[c] = "count"
  PROVE  /\ Counted(c) \in Nat
         /\ Cardinality({i \in early[c] \cap map : i % NumStripes < cursor[c] + 1}) <= Counted(c)
<1> DEFINE More == {i \in early[c] \cap map : i % NumStripes < cursor[c] + 1}
           New == {i \in early[c] \cap map : i % NumStripes = cursor[c]}
<1>1. More = Visited(c) \cup New
  <2>1. \A i \in map : i % NumStripes \in Int BY ManagerAssumption DEF MapInv, TypeInv
  <2>2. cursor[c] \in Int BY ManagerAssumption DEF MapInv, TypeInv
  <2>3. \A i \in map : i % NumStripes < cursor[c] + 1 <=>
           i % NumStripes < cursor[c] \/ i % NumStripes = cursor[c]
    BY <2>1, <2>2
  <2> QED BY <2>3 DEF Visited
<1>2. /\ New \in SUBSET InStripe(cursor[c]) /\ InStripe(cursor[c]) \in SUBSET map
      /\ Visited(c) \in SUBSET map
  BY DEF InStripe, get_stripe, Visited
<1> HIDE DEF New, More
<1>3. /\ Cardinality(New) <= Cardinality(InStripe(cursor[c]))
      /\ Cardinality(New) \in Nat /\ Cardinality(InStripe(cursor[c])) \in Nat /\ IsFiniteSet(New)
  BY <1>2, Parts DEF MapInv, TypeInv
<1>4. Cardinality(Visited(c)) \in Nat /\ IsFiniteSet(Visited(c))
  BY <1>2, Parts DEF MapInv, TypeInv
<1>5. Cardinality(More) <= Cardinality(Visited(c)) + Cardinality(New)
  <2>1. Cardinality(More) = Cardinality(Visited(c)) + Cardinality(New) - Cardinality(Visited(c) \cap New)
    BY <1>1, <1>3, <1>4, FS_Union
  <2>2. Cardinality(Visited(c) \cap New) \in Nat
    BY <1>2, Parts DEF MapInv, TypeInv
  <2> QED BY ONLY <1>3, <1>4, <2>1, <2>2
<1>6. Cardinality(More) \in Nat
  <2>1. More \in SUBSET map BY DEF More
  <2> QED BY <2>1, Parts DEF MapInv, TypeInv
<1>7. Cardinality(Visited(c)) <= total[c] /\ total[c] \in Nat BY DEF MapInv, CountInv, TypeInv
<1>8. Cardinality(More) <= Counted(c) /\ Counted(c) \in Nat
  <2>1. Counted(c) = total[c] + Cardinality(InStripe(cursor[c]))
    BY DEF Counted
  <2> QED BY ONLY <1>3, <1>4, <1>5, <1>6, <1>7, <2>1
<1> QED BY <1>8 DEF More
LEMMA CountStripeIInv ==
  ASSUME MapInv, NEW c \in Creators, CountStripe(c)
  PROVE  MapInv'
<1>1. /\ pc[c] = "count" /\ cursor[c] < NumStripes - 1
      /\ total' = [total EXCEPT ![c] = Counted(c)]
      /\ cursor' = [cursor EXCEPT ![c] = cursor[c] + 1]
      /\ UNCHANGED <<next_id, pc, id, early, last, base, map>>
  BY DEF CountStripe
<1>2. /\ Counted(c) \in Nat
      /\ Cardinality({i \in early[c] \cap map : i % NumStripes < cursor[c] + 1}) <= Counted(c)
  BY <1>1, CountedEnough
<1>3. TypeInv' BY <1>1, <1>2, ManagerAssumption DEF MapInv, TypeInv
<1>4. CountInv'
  <2>1. ASSUME NEW d \in Creators, d # c
        PROVE  Visited(d)' = Visited(d) /\ total'[d] = total[d] /\ cursor'[d] = cursor[d]
    BY <1>1, <2>1 DEF MapInv, TypeInv, Visited
  <2>2. Visited(c)' = {i \in early[c] \cap map : i % NumStripes < cursor[c] + 1}
    BY <1>1 DEF MapInv, TypeInv, Visited
  <2>3. total'[c] = Counted(c) BY <1>1 DEF MapInv, TypeInv
  <2> QED BY <1>1, <1>2, <2>1, <2>2, <2>3 DEF MapInv, CountInv
<1>5. Fresh' /\ RoomWhenInserting' /\ SnapshotInv'
  BY <1>1 DEF MapInv, Fresh, RoomWhenInserting, SnapshotInv, Inserting, Comparable
<1> QED BY <1>3, <1>4, <1>5 DEF MapInv

\* The last stripe: the sum bounds what is left of the whole snapshot.
LEMMA CheckIInv ==
  ASSUME MapInv, NEW c \in Creators, Check(c)
  PROVE  MapInv'
<1>1. /\ pc[c] = "count" /\ cursor[c] = NumStripes - 1
      /\ pc' = [pc EXCEPT ![c] = IF HasRoom(c) THEN "insert" ELSE "idle"]
      /\ id' = [id EXCEPT ![c] = IF HasRoom(c) THEN id[c] ELSE 0]
      /\ cursor' = [cursor EXCEPT ![c] = 0] /\ total' = [total EXCEPT ![c] = 0]
      /\ early' = [early EXCEPT ![c] = IF HasRoom(c) THEN early[c] ELSE {}]
      /\ UNCHANGED <<next_id, last, base, map>>
  BY DEF Check, Goto
<1>2. HasRoom(c) => Cardinality(early[c] \cap map) < MaxSessions
  <2>1. \A i \in map : i % NumStripes < cursor[c] + 1
    BY <1>1, ManagerAssumption DEF MapInv, TypeInv
  <2>2. {i \in early[c] \cap map : i % NumStripes < cursor[c] + 1} = early[c] \cap map BY <2>1
  <2>3. Cardinality(early[c] \cap map) <= Counted(c) /\ Counted(c) \in Nat
    BY <1>1, <2>2, CountedEnough
  <2>4. Cardinality(early[c] \cap map) \in Nat BY Parts DEF MapInv, TypeInv
  <2> QED BY <2>3, <2>4, ManagerAssumption DEF HasRoom
<1>3. TypeInv' BY <1>1, ManagerAssumption DEF MapInv, TypeInv
<1>4. /\ \A d \in Creators : d # c => /\ pc'[d] = pc[d] /\ id'[d] = id[d] /\ cursor'[d] = cursor[d]
                                     /\ total'[d] = total[d] /\ early'[d] = early[d]
      /\ cursor'[c] = 0
      /\ \/ HasRoom(c) /\ pc'[c] = "insert" /\ id'[c] = id[c] /\ early'[c] = early[c]
         \/ pc'[c] = "idle" /\ early'[c] = {}
  BY <1>1 DEF MapInv, TypeInv
<1>5. Fresh' BY <1>1, <1>4 DEF MapInv, Fresh, Inserting
<1>6. CountInv'
  <2>1. ASSUME NEW d \in Creators, d # c PROVE Visited(d)' = Visited(d)
    BY <1>1, <1>4, <2>1 DEF Visited
  <2> QED BY <1>4, <2>1 DEF MapInv, CountInv
<1>7. RoomWhenInserting' BY <1>1, <1>2, <1>4 DEF MapInv, RoomWhenInserting
<1>8. SnapshotInv'
  <2>1. ASSUME NEW d \in Creators, NEW e \in Creators
        PROVE  Comparable(early[d], base[e])' /\ Comparable(early[d], early[e])'
    <3>1. Comparable(early[d], base[e]) /\ Comparable(early[d], early[e])
      BY DEF MapInv, SnapshotInv
    <3>2. /\ early'[d] = early[d] \/ early'[d] = {}
          /\ early'[e] = early[e] \/ early'[e] = {}
      BY <1>4
    <3>3. base' = base /\ map' = map
      BY <1>1
    <3> QED
      BY <3>1, <3>2, <3>3 DEF Comparable
  <2>2. \A d \in Creators : Inserting(d)' =>
          base'[d] \cap map' \subseteq early'[d] /\ (last'[d] \in map' => last'[d] \in early'[d])
    BY <1>1, <1>4 DEF MapInv, SnapshotInv, Inserting
  <2> QED BY <1>1, <2>1, <2>2 DEF MapInv, SnapshotInv
<1> QED BY <1>3, <1>5, <1>6, <1>7, <1>8 DEF MapInv
(***************************************************************************)
(* A session is inserted: it is in no snapshot, and the snapshot that its  *)
(* thread counted takes the place of the older one, which it contains.     *)
(***************************************************************************)
LEMMA InsertIInv ==
  ASSUME MapInv, NEW c \in Creators, Insert(c)
  PROVE  MapInv'
<1>1. /\ pc[c] = "insert" /\ pc' = [pc EXCEPT ![c] = "submit"]
      /\ map' = map \cup {id[c]}
      /\ last' = [last EXCEPT ![c] = id[c]]
      /\ base' = [base EXCEPT ![c] = early[c]] /\ early' = [early EXCEPT ![c] = {}]
      /\ UNCHANGED <<next_id, id, cursor, total>>
  BY DEF Insert, Goto
<1>2. /\ \A d \in Creators : d # c => /\ pc'[d] = pc[d] /\ last'[d] = last[d]
                                     /\ base'[d] = base[d] /\ early'[d] = early[d]
      /\ pc'[c] = "submit" /\ last'[c] = id[c] /\ base'[c] = early[c] /\ early'[c] = {}
  BY <1>1 DEF MapInv, TypeInv
<1>3. /\ id[c] # 0 /\ id[c] \notin map
      /\ \A d \in Creators : id[c] \notin early[d] /\ id[c] \notin base[d] /\ id[c] # last[d]
      /\ \A d \in Creators : d # c /\ Inserting(d) => id[d] # id[c]
  BY <1>1 DEF MapInv, Fresh, Inserting
<1>4. /\ \A d \in Creators : early[d] \cap map' = early[d] \cap map
      /\ \A d \in Creators : base[d] \cap map' = base[d] \cap map
  BY <1>1, <1>3
<1>5. \A d \in Creators : Inserting(d)' <=> d # c /\ Inserting(d) BY <1>2 DEF Inserting
<1>6. TypeInv'
  <2>1. id[c] \in 1 .. next_id - 1 BY <1>3 DEF MapInv, TypeInv
  <2>2. map' \subseteq 1 .. next_id' - 1 BY <1>1, <2>1 DEF MapInv, TypeInv
  <2> QED BY <1>1, <2>1, <2>2 DEF MapInv, TypeInv
<1>7. Fresh' BY <1>1, <1>2, <1>3, <1>5 DEF MapInv, Fresh
<1>8. CountInv'
  <2>1. ASSUME NEW d \in Creators, d # c PROVE Visited(d)' = Visited(d)
    BY <1>1, <1>2, <1>4, <2>1 DEF Visited
  <2> QED BY <1>1, <1>2, <2>1 DEF MapInv, CountInv
<1>9. RoomWhenInserting' BY <1>2, <1>4 DEF MapInv, RoomWhenInserting
<1>10. SnapshotInv'
  <2>1. \A d, e \in Creators : Comparable(early[d], base[e]) /\ Comparable(early[d], early[e])
    BY DEF MapInv, SnapshotInv
  <2>2. \A d, e \in Creators : Comparable(early[d], base[e])' /\ Comparable(early[d], early[e])'
    <3> SUFFICES ASSUME NEW d \in Creators, NEW e \in Creators
                 PROVE  /\ early'[d] \cap map' \subseteq base'[e] \/ base'[e] \cap map' \subseteq early'[d]
                        /\ early'[d] \cap map' \subseteq early'[e] \/ early'[e] \cap map' \subseteq early'[d]
      BY DEF Comparable
    <3>1. CASE d = c BY <1>2, <3>1
    <3>2. CASE d # c /\ e = c BY <1>2, <1>4, <2>1, <3>2 DEF Comparable
    <3>3. CASE d # c /\ e # c BY <1>2, <1>4, <2>1, <3>3 DEF Comparable
    <3> QED BY <3>1, <3>2, <3>3
  <2>3. \A d \in Creators : Inserting(d)' =>
          base'[d] \cap map' \subseteq early'[d] /\ (last'[d] \in map' => last'[d] \in early'[d])
    <3> SUFFICES ASSUME NEW d \in Creators, Inserting(d)'
                 PROVE  /\ base'[d] \cap map' \subseteq early'[d]
                        /\ last'[d] \in map' => last'[d] \in early'[d]
      OBVIOUS
    <3>1. d # c /\ base[d] \cap map \subseteq early[d] /\ (last[d] \in map => last[d] \in early[d])
      BY <1>5 DEF MapInv, SnapshotInv
    <3>2. base'[d] = base[d] /\ early'[d] = early[d] /\ last'[d] = last[d] /\ last[d] # id[c]
      BY <1>2, <1>3, <3>1
    <3> QED BY <1>1, <1>4, <3>1, <3>2
  <2>4. \A d \in Creators : last'[d] # 0 => Cardinality(base'[d] \cap map') < MaxSessions
    <3>1. Cardinality(early[c] \cap map) < MaxSessions BY <1>1 DEF MapInv, RoomWhenInserting
    <3>2. base'[c] \cap map' = early[c] \cap map BY <1>2, <1>4
    <3>3. \A d \in Creators : d # c => base'[d] \cap map' = base[d] \cap map BY <1>2, <1>4
    <3> QED BY <1>2, <3>1, <3>2, <3>3 DEF MapInv, SnapshotInv
  <2>5. \A d \in Creators : last'[d] = 0 => base'[d] = {} BY <1>2, <1>3 DEF MapInv, SnapshotInv
  <2>6. base[c] \cap map \subseteq early[c] /\ (last[c] \in map => last[c] \in early[c])
    BY <1>1 DEF MapInv, SnapshotInv, Inserting
  <2>7. \A i \in map' : \E d \in Creators : i = last'[d] \/ i \in base'[d]
    <3>1. \A i \in map : \E d \in Creators : i = last[d] \/ i \in base[d]
      BY DEF MapInv, SnapshotInv
    <3> QED BY <1>1, <1>2, <2>6, <3>1
  <2>8. \E d \in Creators : \A e \in Creators : base'[e] \cap map' \subseteq base'[d]
    <3>1. PICK d \in Creators : \A e \in Creators : base[e] \cap map \subseteq base[d]
      BY DEF MapInv, SnapshotInv
    <3>2. \A e \in Creators : e # c => base'[e] \cap map' = base[e] \cap map BY <1>2, <1>4
    <3>3. base'[c] \cap map' = early[c] \cap map BY <1>2, <1>4
    <3>4. CASE base[d] \cap map \subseteq early[c]
      <4>1. \A e \in Creators : base'[e] \cap map' \subseteq base'[c]
        BY <1>2, <3>1, <3>2, <3>3, <3>4
      <4> QED BY <4>1
    <3>5. CASE early[c] \cap map \subseteq base[d] /\ d # c
      <4>1. \A e \in Creators : base'[e] \cap map' \subseteq base'[d]
        BY <1>2, <3>1, <3>2, <3>3, <3>5
      <4> QED BY <4>1
    <3> QED BY <2>1, <2>6, <3>4, <3>5 DEF Comparable
  <2> QED BY <2>2, <2>3, <2>4, <2>5, <2>7, <2>8 DEF SnapshotInv
<1> QED BY <1>6, <1>7, <1>8, <1>9, <1>10 DEF MapInv

LEMMA NextIInv == MapInv /\ [Next]_vars => MapInv'
<1> SUFFICES ASSUME MapInv, [Next]_vars PROVE MapInv' OBVIOUS
<1>1. ASSUME NEW c \in Creators, Submit(c) \/ Track(c) PROVE MapInv'
  <2>1. /\ pc[c] \in {"submit", "track"}
        /\ \E to \in {"track", "idle"} : pc' = [pc EXCEPT ![c] = to]
        /\ id' = id \/ id' = [id EXCEPT ![c] = 0]
        /\ UNCHANGED <<next_id, cursor, total, early, last, base, map>>
    BY <1>1 DEF Submit, Track, Goto
  <2>2. /\ pc' \in [Creators -> {"idle", "count", "insert", "submit", "track"}]
        /\ id' \in [Creators -> 0 .. next_id - 1]
        /\ \A d \in Creators : \/ pc'[d] = pc[d] /\ id'[d] = id[d]
                              \/ {pc[d], pc'[d]} \cap {"count", "insert"} = {}
    BY <2>1 DEF MapInv, TypeInv
  <2> QED BY <2>1, <2>2, ShrinkIInv
<1>2. ASSUME NEW c \in Creators, HttpStep(c) \/ Request(c) PROVE MapInv'
  BY <1>1, <1>2, ReserveIInv, CountStripeIInv, CheckIInv, InsertIInv DEF HttpStep, Request
<1>3. ASSUME UNCHANGED creators, map' \subseteq map PROVE MapInv'
  BY <1>3, ShrinkIInv DEF creators, MapInv, TypeInv
<1>4. CASE CollectorStep
  BY <1>3, <1>4 DEF CollectorStep, Collects, CollectorGoto, CollectKeys, Erase, Inspect
<1>5. ASSUME NEW i \in Ids, WorkflowStep(i) PROVE MapInv'
  BY <1>3, <1>5 DEF WorkflowStep, Start, BecomeTerminal, Finish, Throw, Hang
<1>6. ASSUME NEW x, NEW t, Stop(x, t) PROVE MapInv'
  BY <1>3, <1>6 DEF Stop, StopThreads, NotJoinable, Join, Joined, manager
<1>7. CASE MainStep
  BY <1>3, <1>6, <1>7 DEF MainStep, StartCollector, Listen, ListenFails, ListenReturns,
     LeaveServer, DestroyServer, DestroyManager, Destroy, WaitOne, Destroyed, manager
<1>8. ASSUME NEW t \in Threads, Signal(t) PROVE MapInv'
  BY <1>3, <1>8 DEF Signal, manager
<1>9. CASE UNCHANGED vars BY <1>3, <1>9 DEF vars, manager
<1> QED BY <1>2, <1>4, <1>5, <1>6, <1>7, <1>8, <1>9 DEF Next, Rest

LEMMA MapInvariance == Spec => []MapInv
  BY InitMapInv, NextIInv, PTL DEF Spec

-----------------------------------------------------------------------------
(***************************************************************************)
(* insert_if_under() has seen room beside the sessions that were there     *)
(* before and still are, for any number of threads and stripes.            *)
(***************************************************************************)
THEOREM RoomSeen == Spec => []RoomWhenInserting
<1>1. MapInv => RoomWhenInserting BY DEF MapInv
<1> QED BY MapInvariance, <1>1, PTL

LEMMA BoundFromInv == MapInv => OvershootBounded
<1> SUFFICES ASSUME MapInv PROVE OvershootBounded OBVIOUS
<1>1. PICK c \in Creators : \A d \in Creators : base[d] \cap map \subseteq base[c]
  BY DEF MapInv, SnapshotInv
<1> DEFINE D == {d \in Creators : d # c \/ last[c] # 0}
           L == {last[d] : d \in D}
           B == base[c] \cap map
<1>2. \A i \in map : i # 0 /\ \E d \in Creators : i = last[d] \/ i \in base[d]
  BY DEF MapInv, TypeInv, SnapshotInv
<1>3. map \in SUBSET (L \cup B)
  BY <1>1, <1>2
<1>4. IsFiniteSet(D) /\ Cardinality(D) \in Nat /\ Cardinality(Creators) \in Nat
  <2>1. D \in SUBSET Creators OBVIOUS
  <2> HIDE DEF D
  <2> QED BY <2>1, ManagerAssumption, FS_Subset, FS_CardinalityType
<1>5. IsFiniteSet(L) /\ Cardinality(L) <= Cardinality(D)
  <2>1. [d \in D |-> last[d]] \in Surjection(D, L) BY DEF Surjection
  <2> HIDE DEF D, L
  <2> QED BY <1>4, <2>1, FS_Surjection
<1>6. IsFiniteSet(B) /\ Cardinality(B) \in Nat
  BY Parts DEF MapInv, TypeInv
<1>7. Cardinality(D) + Cardinality(B) <= MaxSessions + Cardinality(Creators) - 1
  <2>1. CASE last[c] # 0
    <3>1. D = Creators BY <2>1
    <3>2. Cardinality(B) < MaxSessions BY <2>1 DEF MapInv, SnapshotInv
    <3>3. Cardinality(D) = Cardinality(Creators) BY <3>1
    <3> HIDE DEF B, D
    <3> QED BY <1>4, <1>6, <3>2, <3>3, ManagerAssumption
  <2>2. CASE last[c] = 0
    <3>1. D = Creators \ {c} BY <2>2
    <3>2. Cardinality(D) = Cardinality(Creators) - 1
      BY <3>1, ManagerAssumption, FS_RemoveElement
    <3>3. B = {} BY <2>2 DEF MapInv, SnapshotInv
    <3>4. Cardinality(B) = 0 BY <3>3, FS_EmptySet
    <3> QED BY <1>4, <3>2, <3>4, ManagerAssumption
  <2> QED BY <2>1, <2>2
<1> HIDE DEF D, L, B
<1>8. /\ IsFiniteSet(L \cup B)
      /\ Cardinality(L \cup B) = Cardinality(L) + Cardinality(B) - Cardinality(L \cap B)
  BY <1>5, <1>6, FS_Union
<1>9. Cardinality(L \cap B) \in Nat /\ Cardinality(L) \in Nat
  <2>1. L \cap B \in SUBSET L OBVIOUS
  <2>2. IsFiniteSet(L \cap B) BY <1>5, <2>1, FS_Subset
  <2> QED BY <1>5, <2>2, FS_CardinalityType
<1>10. Cardinality(map) <= Cardinality(L \cup B) /\ Cardinality(map) \in Nat
  BY <1>3, <1>8, FS_Subset, FS_CardinalityType
<1> QED BY <1>4, <1>5, <1>6, <1>7, <1>8, <1>9, <1>10, ManagerAssumption DEF OvershootBounded

(***************************************************************************)
(* "The capacity check is approximate" (concurrent_map.h:43): the map      *)
(* never holds more than one session above its capacity for every other    *)
(* thread that creates sessions, however the counts over the stripes, the  *)
(* insertions and the collector interleave.                                *)
(***************************************************************************)
THEOREM CapacityOvershoot == Spec => []OvershootBounded
  BY MapInvariance, BoundFromInv, PTL
=============================================================================
