----------------------------- MODULE HttpServer -----------------------------
(***************************************************************************)
(* server/http_server.cpp and the server mode of main.cpp: the main thread *)
(* in start(), HTTP threads that call the SessionManager, the collector    *)
(* thread, a signal whose handler calls stop(), and the destructors.       *)
(*                                                                         *)
(* The handler runs on any thread of the process, which stands still       *)
(* meanwhile, and keeps the lock that it may have of a stripe of the map.  *)
(* httplib is external: its threads serve requests from listen() on, its   *)
(* stop() does nothing unless it listens, and listen() returns when it has *)
(* been stopped and its threads have ended.  Requests other than           *)
(* create_session() change nothing; all that is left of them is a thread   *)
(* "http", which the signal may find with a lock.  (Without one it is as   *)
(* if the main thread, which waits for it, handled the signal.)            *)
(***************************************************************************)
EXTENDS SessionManager

\* Where the signal is handled; before and after that, on no thread.
Threads == {"main", "collector", "pool", "http"} \cup Creators

ASSUME ServerAssumption ==
  Creators \cap {"main", "collector", "pool", "http", "none", "handled"} = {}

VARIABLES
  main,           \* main(): "ready", "start", "listen", "returned", "stop", "destroy" or "exit"
  g_server,       \* whether g_server is set
  svr,            \* svr_: "idle", "running" or "stopped"
  gc_stop,        \* gc_stop_
  gc_thread,      \* gc_thread_: "none", "joinable" or "joined"
  on,             \* thread that handles the signal; "none" before, "handled" after
  held,           \* stripe lock that this thread has, if any, as a set
  stop,           \* stop() called by the handler and by ~HttpServer: "no", "tell",
                  \* "join", "joining" or "over"
  undefined       \* two threads joined the collector, or a stopped server was used

server == <<main, g_server, svr, gc_stop, gc_thread, on, held, stop, undefined>>
vars == <<manager, server>>

Callers == {"handler", "destructor"}

Init ==
  /\ ManagerInit
  /\ main = "ready" /\ g_server = TRUE /\ svr = "idle"
  /\ gc_stop = FALSE /\ gc_thread = "none"
  /\ on = "none" /\ held = {} /\ stop = [x \in Callers |-> "no"]
  /\ undefined = FALSE

\* The process goes on, and thread t is not in the signal handler.
Alive == ~undefined /\ dtor # "aborted"
Free(t) == Alive /\ on # t

MainGoto(from, to) == Free("main") /\ main = from /\ main' = to

-----------------------------------------------------------------------------
\* start(): gc_thread_ is started, then svr_.listen() called.
StartCollector ==
  /\ MainGoto("ready", "start")
  /\ gc_thread' = "joinable" /\ gc' = "loop"
  /\ UNCHANGED <<creators, stripe, keys, victim, map, state, task, inflight, dtor>>
  /\ UNCHANGED <<g_server, svr, gc_stop, on, held, stop, undefined>>

Listen ==
  /\ MainGoto("start", "listen")
  /\ svr' = "running"
  /\ UNCHANGED <<manager, g_server, gc_stop, gc_thread, on, held, stop, undefined>>

\* The port cannot be bound.
ListenFails ==
  /\ MainGoto("start", "returned")
  /\ UNCHANGED <<manager, g_server, svr, gc_stop, gc_thread, on, held, stop, undefined>>

\* The HTTP threads are at the end of their requests.
ThreadsEnded == \A c \in Creators : pc[c] = "idle"

ListenReturns ==
  /\ svr = "stopped" /\ ThreadsEnded /\ on # "http"
  /\ MainGoto("listen", "returned")
  /\ UNCHANGED <<manager, g_server, svr, gc_stop, gc_thread, on, held, stop, undefined>>

\* g_server = nullptr.  Mutant: it is left as it is.
KeepsPointer == g_server
ClearsPointer == FALSE

\* ~HttpServer calls stop().
LeaveServer ==
  /\ MainGoto("returned", "stop")
  /\ g_server' = ClearsPointer
  /\ stop' = [stop EXCEPT !["destructor"] = "tell"]
  /\ UNCHANGED <<manager, svr, gc_stop, gc_thread, on, held, undefined>>

\* ~HttpServer is over; a handler may still be in stop().
HandlerInside == stop["handler"] \notin {"no", "over"}
DestroyServer ==
  /\ stop["destructor"] = "over"
  /\ MainGoto("stop", "destroy")
  /\ undefined' = HandlerInside
  /\ UNCHANGED <<manager, g_server, svr, gc_stop, gc_thread, on, held, stop>>

\* ~SessionManager, then the destructors of the rest.
DestroyManager ==
  /\ Free("main") /\ main = "destroy"
  /\ \/ (Destroy \/ WaitOne \/ Destroyed) /\ UNCHANGED main
     \/ dtor = "gone" /\ main' = "exit" /\ UNCHANGED manager
  /\ UNCHANGED <<g_server, svr, gc_stop, gc_thread, on, held, stop, undefined>>

-----------------------------------------------------------------------------
\* stop() called by x, on thread t.
StopGoto(x, from, to) == stop[x] = from /\ stop' = [stop EXCEPT ![x] = to]
Return(x) ==
  IF x = "handler" THEN on' = "handled" /\ held' = {} ELSE UNCHANGED <<on, held>>

\* Mutant: gc_stop_ is not set.
SetsNoFlag == gc_stop
SetsFlag == TRUE

\* svr_.stop() and gc_stop_.store(): only the collector reads the flag, so that nobody can
\* tell the two apart.
StopThreads(x) ==
  /\ StopGoto(x, "tell", "join")
  /\ svr' = IF svr = "running" THEN "stopped" ELSE svr
  /\ gc_stop' = SetsFlag
  /\ UNCHANGED <<manager, main, g_server, gc_thread, on, held, undefined>>

\* joinable().
Joinable == gc_thread = "joinable"

NotJoinable(x) ==
  /\ ~Joinable
  /\ StopGoto(x, "join", "over") /\ Return(x)
  /\ UNCHANGED <<manager, main, g_server, svr, gc_stop, gc_thread, undefined>>

\* join(): the collector joining itself throws, which nobody catches.
Join(x, t) ==
  /\ Joinable
  /\ StopGoto(x, "join", "joining")
  /\ IF t = "collector" THEN dtor' = "aborted" /\ UNCHANGED undefined
                      ELSE undefined' = (\E y \in Callers \ {x} : stop[y] = "joining") /\ UNCHANGED dtor
  /\ UNCHANGED <<creators, reaper, map, state, task, inflight>>
  /\ UNCHANGED <<main, g_server, svr, gc_stop, gc_thread, on, held>>

Joined(x) ==
  /\ gc = "done"
  /\ StopGoto(x, "joining", "over") /\ Return(x)
  /\ gc_thread' = "joined"
  /\ UNCHANGED <<manager, main, g_server, svr, gc_stop, undefined>>

Stop(x, t) ==
  Alive /\ (StopThreads(x) \/ NotJoinable(x) \/ Join(x, t) \/ Joined(x))

\* The stripe locks that the signal may find a thread with: in create_session() that of
\* size() or of insert_if_under(), in the other requests any.
Lock(k, mode) == [stripe |-> k, mode |-> mode]
AllLocks == {Lock(k, mode) : k \in 0 .. NumStripes - 1, mode \in {"shared", "unique"}}
Locks(t) ==
  CASE t = "http" -> AllLocks
    [] t \in Creators /\ pc[t] = "count" -> {Lock(cursor[t], "shared")}
    [] t \in Creators /\ pc[t] = "insert" -> {Lock(get_stripe(id[t]), "unique")}
    [] OTHER -> {}

\* signal_handler(): SIGINT or SIGTERM interrupts thread t.
Signal(t) ==
  /\ Alive /\ on = "none" /\ main # "exit"
  /\ t = "collector" => gc \notin {"none", "done"}
  /\ t = "http" => main = "listen"
  /\ t \in Creators => pc[t] # "idle"
  /\ IF g_server THEN on' = t /\ stop' = [stop EXCEPT !["handler"] = "tell"]
                 ELSE on' = "handled" /\ UNCHANGED stop
  /\ \/ t # "http" /\ held' = {}
     \/ \E l \in Locks(t) : held' = {l}
  /\ UNCHANGED <<manager, main, g_server, svr, gc_stop, gc_thread, undefined>>

-----------------------------------------------------------------------------
\* Whether a thread that is not in the handler gets a stripe.
CanRead(k) == Lock(k, "unique") \notin held
CanWrite(k) == \A l \in held : l.stripe # k

\* HTTP threads: handle_create_session().
HttpStep(c) ==
  /\ Free(c)
  /\ \/ CanRead(cursor[c]) /\ (CountStripe(c) \/ Check(c))
     \/ CanWrite(get_stripe(id[c])) /\ Insert(c)
     \/ Submit(c) \/ Track(c)
  /\ UNCHANGED server

Request(c) == Free(c) /\ svr = "running" /\ Reserve(c) /\ UNCHANGED server

\* The collector's loop around gc().
CollectorGoto(from, to) ==
  /\ gc = from /\ gc' = to
  /\ UNCHANGED <<creators, stripe, keys, victim, map, state, task, inflight, dtor>>

Collects ==
  \/ CollectorGoto("loop", IF gc_stop THEN "done" ELSE "asleep")
  \/ CollectorGoto("asleep", IF gc_stop THEN "done" ELSE "keys")
  \/ keys = {} /\ CollectorGoto("check", IF gc_stop THEN "done" ELSE "asleep")
  \/ CanRead(stripe) /\ CollectKeys
  \/ \E i \in Ids, old_enough \in BOOLEAN : CanRead(get_stripe(i)) /\ Inspect(i, old_enough)
  \/ CanWrite(get_stripe(victim)) /\ Erase
CollectorStep == Free("collector") /\ Collects /\ UNCHANGED server

\* The workflow task of session i, on some thread of the pool.
WorkflowStep(i) ==
  /\ Alive
  /\ Start(i) \/ BecomeTerminal(i) \/ Finish(i) \/ Throw(i) \/ Hang(i)
  /\ UNCHANGED server

MainStep ==
  \/ StartCollector \/ Listen \/ ListenFails \/ ListenReturns \/ LeaveServer
  \/ (Free("main") /\ Stop("destructor", "main")) \/ DestroyServer \/ DestroyManager

\* The handler's thread has the stripe that the collector needs, and waits for the collector.
Wedged ==
  /\ stop["handler"] = "joining"
  /\ \/ gc = "keys" /\ ~CanRead(stripe)
     \/ gc = "check" /\ keys # {} /\ \A i \in keys : ~CanRead(get_stripe(i))
     \/ gc = "erase" /\ ~CanWrite(get_stripe(victim))

\* The process has ended, serves on, or waits for what does not come.
Hung == \E i \in Ids : task[i] = "hung"
Rest == (main = "exit" \/ ~Alive \/ svr = "running" \/ Wedged \/ Hung) /\ UNCHANGED vars

Next ==
  \/ MainStep
  \/ Stop("handler", on) \/ \E t \in Threads : Signal(t)
  \/ \E c \in Creators : HttpStep(c) \/ Request(c)
  \/ CollectorStep
  \/ \E i \in Ids : WorkflowStep(i)
  \/ Rest

Spec == Init /\ [][Next]_vars

(***************************************************************************)
(* Threads run on, and the pool runs what is submitted to it.  SF: a       *)
(* terminal session that gc() looks at again and again is old enough at    *)
(* last.                                                                   *)
(***************************************************************************)
FairSpec ==
  /\ Spec
  /\ WF_vars(MainStep) /\ WF_vars(Stop("handler", on)) /\ WF_vars(CollectorStep)
  /\ WF_vars(\E c \in Creators : HttpStep(c)) /\ WF_vars(\E i \in Ids : WorkflowStep(i))
  /\ SF_vars(CollectorStep /\ gc' = "erase")

-----------------------------------------------------------------------------
\* Type invariant.
TypeOK ==
  /\ ManagerTypeOK
  /\ main \in {"ready", "start", "listen", "returned", "stop", "destroy", "exit"}
  /\ svr \in {"idle", "running", "stopped"} /\ gc_thread \in {"none", "joinable", "joined"}
  /\ on \in Threads \cup {"none", "handled"}
  /\ held \subseteq AllLocks
  /\ stop \in [Callers -> {"no", "tell", "join", "joining", "over"}]
  /\ g_server \in BOOLEAN /\ gc_stop \in BOOLEAN /\ undefined \in BOOLEAN

(***************************************************************************)
(* While ~SessionManager runs and after it, no HTTP thread is in a request *)
(* handler and the collector is not in gc(): both use the manager.         *)
(***************************************************************************)
ThreadsGone ==
  dtor \in {"waiting", "gone"} => gc = "done" /\ \A c \in Creators : pc[c] = "idle"

(***************************************************************************)
(* The same, and "Wait for all in-flight workflow tasks to complete"       *)
(* (session_manager.cpp:20): no task is left when the destructor returns.  *)
(***************************************************************************)
ManagerOutlivesUsers ==
  /\ ThreadsGone
  /\ dtor = "gone" => \A i \in Ids : task[i] \in {"none", "done", "threw"}

(***************************************************************************)
(* "Stop the server (thread-safe)" (http_server.h:24), as far as it is     *)
(* true: the shutdown is in order if the signal is handled on the main     *)
(* thread or an HTTP thread.  On a pool thread stop() may overlap with the *)
(* stop() of ~HttpServer, on the collector it waits for itself; and a      *)
(* workflow that threw takes ~SessionManager down.                         *)
(***************************************************************************)
OrderlyShutdown ==
  ~Alive => on \in {"pool", "collector"} \/ \E i \in Ids : task[i] = "threw"

(***************************************************************************)
(* "Start listening (blocks until stop() is called)" (http_server.h:21):   *)
(* once the server has been stopped while it listened, main() ends.  (A    *)
(* signal before that stops the collector and is otherwise lost.)  There   *)
(* are two exceptions.  An HTTP thread that the signal finds with a stripe *)
(* locked (concurrent_map.h:52, 93, 108, 121, 135) joins a collector that  *)
(* needs this stripe; and ~SessionManager waits (session_manager.cpp:28)   *)
(* for a workflow that never ends.                                         *)
(***************************************************************************)
ShutdownEnds == svr = "stopped" ~> main = "exit" \/ ~Alive \/ Wedged \/ Hung

(***************************************************************************)
(* Every session gives its place back, unless the collector has been told  *)
(* to stop, or the session's workflow threw or waits for ever: such a      *)
(* session never becomes terminal.                                         *)
(***************************************************************************)
SlotsRecovered ==
  \A i \in Ids :
    i \in map ~> (i \notin map \/ gc_stop \/ ~Alive \/ task[i] \in {"threw", "hung"})
=============================================================================
