--------------------------- MODULE SessionManager ---------------------------
(***************************************************************************)
(* session/session_manager.cpp on core/concurrent_map.h: create_session(), *)
(* which HTTP threads call, gc(), which the collector thread calls, and    *)
(* the destructor.  Who calls what and when is in module HttpServer.       *)
(*                                                                         *)
(* The map is locked one stripe at a time: size() and keys() walk over the *)
(* stripes while other threads insert and erase.  What is done under one   *)
(* lock is one step; HttpServer says when a lock cannot be had.            *)
(*                                                                         *)
(* A session's workflow is reduced to what the manager sees of it: it      *)
(* starts, its session becomes terminal, its task ends; or it throws; or   *)
(* it waits for ever, as in ThrottledLLM.                                  *)
(***************************************************************************)
EXTENDS Naturals, Sequences, FiniteSets

CONSTANTS
  Creators,       \* HTTP threads in create_session()
  MaxSessions,    \* max_sessions_
  NumStripes,     \* stripes of the map
  MaxIds,         \* bound: sessions created in all
  MayThrow,       \* ids whose workflow may throw
  MayHang         \* ids whose workflow may wait for ever

Ids == 1 .. MaxIds

ASSUME ManagerAssumption ==
  /\ MaxSessions \in Nat /\ MaxIds \in Nat
  /\ NumStripes \in Nat \ {0}
  /\ IsFiniteSet(Creators) /\ Creators # {}
  /\ MayThrow \subseteq Ids /\ MayHang \subseteq Ids

VARIABLES
  next_id,        \* next_id_
  map,            \* keys of sessions_
  state,          \* state of each session: "none", "created", "active" or "terminal"
  task,           \* its workflow task: "none", "queued", "running", "done", "threw" or
                  \* "hung"
  inflight,       \* inflight_
  pc,             \* create_session(): "idle", "count", "insert", "submit" or "track"
  id,             \* create_session(): the new id
  cursor, total,  \* size(): next stripe, sum so far
  early,          \* history: the map when the thread began to count
  last, base,     \* history: the last session it inserted, and early at that time
  gc,             \* collector thread: "none", "loop", "asleep", in gc() "keys",
                  \* "check" or "erase", at last "done"
  stripe,         \* keys(): next stripe
  keys,           \* ids left to look at
  victim,         \* should_erase
  dtor            \* ~SessionManager: "up", "waiting", "gone" or "aborted"

creators == <<next_id, pc, id, cursor, total, early, last, base>>
reaper == <<gc, stripe, keys, victim>>
manager == <<creators, reaper, map, state, task, inflight, dtor>>

ManagerInit ==
  /\ next_id = 1 /\ map = {}
  /\ state = [i \in Ids |-> "none"] /\ task = [i \in Ids |-> "none"]
  /\ inflight = <<>>
  /\ pc = [c \in Creators |-> "idle"]
  /\ id = [c \in Creators |-> 0]
  /\ cursor = id /\ total = id /\ last = id
  /\ early = [c \in Creators |-> {}] /\ base = early
  /\ gc = "none" /\ stripe = 0 /\ keys = {} /\ victim = 0
  /\ dtor = "up"

Goto(c, from, to) == pc[c] = from /\ pc' = [pc EXCEPT ![c] = to]

\* std::hash is the identity on integers.
get_stripe(i) == i % NumStripes
InStripe(k) == {i \in map : get_stripe(i) = k}

-----------------------------------------------------------------------------
\* create_session(): a new id and session.
Reserve(c) ==
  /\ next_id <= MaxIds
  /\ Goto(c, "idle", "count")
  /\ id' = [id EXCEPT ![c] = next_id]
  /\ next_id' = next_id + 1
  /\ state' = [state EXCEPT ![next_id] = "created"]
  /\ early' = [early EXCEPT ![c] = map]
  /\ UNCHANGED <<cursor, total, last, base, reaper, map, task, inflight, dtor>>

\* size(): one stripe.
Counted(c) == total[c] + Cardinality(InStripe(cursor[c]))

CountStripe(c) ==
  /\ pc[c] = "count" /\ cursor[c] < NumStripes - 1
  /\ total' = [total EXCEPT ![c] = Counted(c)]
  /\ cursor' = [cursor EXCEPT ![c] = @ + 1]
  /\ UNCHANGED <<next_id, pc, id, early, last, base, reaper, map, state, task, inflight, dtor>>

\* Mutant: room for one more.
HasRoomLate(c) == Counted(c) <= MaxSessions
HasRoom(c) == Counted(c) < MaxSessions

\* The last stripe: insert_if_under() compares the sum with the capacity.
Check(c) ==
  /\ cursor[c] = NumStripes - 1
  /\ Goto(c, "count", IF HasRoom(c) THEN "insert" ELSE "idle")
  /\ id' = [id EXCEPT ![c] = IF HasRoom(c) THEN @ ELSE 0]
  /\ cursor' = [cursor EXCEPT ![c] = 0] /\ total' = [total EXCEPT ![c] = 0]
  /\ early' = [early EXCEPT ![c] = IF HasRoom(c) THEN @ ELSE {}]
  /\ UNCHANGED <<next_id, last, base, reaper, map, state, task, inflight, dtor>>

Insert(c) ==
  /\ Goto(c, "insert", "submit")
  /\ map' = map \cup {id[c]}
  /\ last' = [last EXCEPT ![c] = id[c]]
  /\ base' = [base EXCEPT ![c] = early[c]] /\ early' = [early EXCEPT ![c] = {}]
  /\ UNCHANGED <<next_id, id, cursor, total, reaper, state, task, inflight, dtor>>

\* pool_.submit().
Submit(c) ==
  /\ Goto(c, "submit", "track")
  /\ task' = [task EXCEPT ![id[c]] = "queued"]
  /\ UNCHANGED <<next_id, id, cursor, total, early, last, base, reaper, map, state, inflight, dtor>>

\* The futures that are kept.  Mutant: the session's state is looked at.
UnfinishedByState(i) == state[i] # "terminal"
Unfinished(i) == task[i] \notin {"done", "threw"}

\* remove_if() and erase(); a recursive function, so that proofs can follow it.
Prune(futures) ==
  LET kept[n \in 0 .. Len(futures)] ==
        IF n = 0 THEN <<>>
        ELSE IF Unfinished(futures[n]) THEN Append(kept[n - 1], futures[n]) ELSE kept[n - 1]
  IN  kept[Len(futures)]

Track(c) ==
  /\ Goto(c, "track", "idle")
  /\ inflight' = Append(Prune(inflight), id[c])
  /\ id' = [id EXCEPT ![c] = 0]
  /\ UNCHANGED <<next_id, cursor, total, early, last, base, reaper, map, state, task, dtor>>

-----------------------------------------------------------------------------
\* The workflow task on the pool.
Start(i) ==
  /\ task[i] = "queued"
  /\ task' = [task EXCEPT ![i] = "running"]
  /\ state' = [state EXCEPT ![i] = "active"]
  /\ UNCHANGED <<creators, reaper, map, inflight, dtor>>

BecomeTerminal(i) ==
  /\ task[i] = "running" /\ state[i] = "active"
  /\ state' = [state EXCEPT ![i] = "terminal"]
  /\ UNCHANGED <<creators, reaper, map, task, inflight, dtor>>

Finish(i) ==
  /\ task[i] = "running" /\ state[i] = "terminal"
  /\ task' = [task EXCEPT ![i] = "done"]
  /\ UNCHANGED <<creators, reaper, map, state, inflight, dtor>>

\* The exception goes to the future; nobody touches the session.
Throw(i) ==
  /\ i \in MayThrow
  /\ task[i] = "running" /\ state[i] = "active"
  /\ task' = [task EXCEPT ![i] = "threw"]
  /\ UNCHANGED <<creators, reaper, map, state, inflight, dtor>>

\* run() does not return.
Hang(i) ==
  /\ i \in MayHang
  /\ task[i] = "running" /\ state[i] = "active"
  /\ task' = [task EXCEPT ![i] = "hung"]
  /\ UNCHANGED <<creators, reaper, map, state, inflight, dtor>>

-----------------------------------------------------------------------------
\* The stripe that keys() looks at last.  Mutant: one too early.
LastStripeEarly == NumStripes - 2
LastStripe == NumStripes - 1

\* gc(): keys(), one stripe at a time.
CollectKeys ==
  /\ gc = "keys"
  /\ keys' = keys \cup InStripe(stripe)
  /\ IF stripe < LastStripe THEN stripe' = stripe + 1 /\ UNCHANGED gc
                            ELSE stripe' = 0 /\ gc' = "check"
  /\ UNCHANGED <<creators, victim, map, state, task, inflight, dtor>>

\* Mutant: age alone decides.
ShouldEraseOld(i) == i \in map
ShouldErase(i) == i \in map /\ state[i] = "terminal"

\* A session is erased if it is terminal and old enough, as it is at last.
Inspect(i, old_enough) ==
  /\ gc = "check" /\ i \in keys
  /\ keys' = keys \ {i}
  /\ IF ShouldErase(i) /\ old_enough THEN gc' = "erase" /\ victim' = i
                                    ELSE UNCHANGED <<gc, victim>>
  /\ UNCHANGED <<creators, stripe, map, state, task, inflight, dtor>>

Erase ==
  /\ gc = "erase"
  /\ map' = map \ {victim}
  /\ gc' = "check" /\ victim' = 0
  /\ UNCHANGED <<creators, stripe, keys, state, task, inflight, dtor>>

-----------------------------------------------------------------------------
\* ~SessionManager.
Destroy ==
  /\ dtor = "up" /\ dtor' = "waiting"
  /\ UNCHANGED <<creators, reaper, map, state, task, inflight>>

\* f.get() on the next future, that of session i: an exception leaves the destructor,
\* which is noexcept.
WaitOne ==
  /\ dtor = "waiting" /\ inflight # <<>>
  /\ \E i \in Ids :
       /\ i = Head(inflight) /\ task[i] \in {"done", "threw"}
       /\ dtor' = IF task[i] = "threw" THEN "aborted" ELSE dtor
  /\ inflight' = Tail(inflight)
  /\ UNCHANGED <<creators, reaper, map, state, task>>

Destroyed ==
  /\ dtor = "waiting" /\ inflight = <<>>
  /\ dtor' = "gone"
  /\ UNCHANGED <<creators, reaper, map, state, task, inflight>>

-----------------------------------------------------------------------------
\* Type invariant.
ManagerTypeOK ==
  /\ next_id \in 1 .. MaxIds + 1
  /\ map \subseteq Ids /\ keys \subseteq Ids
  /\ state \in [Ids -> {"none", "created", "active", "terminal"}]
  /\ task \in [Ids -> {"none", "queued", "running", "done", "threw", "hung"}]
  /\ inflight \in Seq(Ids)
  /\ pc \in [Creators -> {"idle", "count", "insert", "submit", "track"}]
  /\ id \in [Creators -> 0 .. MaxIds]
  /\ cursor \in [Creators -> 0 .. NumStripes] /\ total \in [Creators -> Nat]
  /\ last \in [Creators -> 0 .. MaxIds]
  /\ early \in [Creators -> SUBSET Ids] /\ base \in [Creators -> SUBSET Ids]
  /\ gc \in {"none", "loop", "asleep", "keys", "check", "erase", "done"}
  /\ stripe \in 0 .. NumStripes /\ victim \in 0 .. MaxIds
  /\ dtor \in {"up", "waiting", "gone", "aborted"}

(***************************************************************************)
(* insert_if_under() inserts only if there is room for one more beside the *)
(* sessions that were there before it began to count and still are; those  *)
(* that came or went meanwhile may be counted or not.                      *)
(***************************************************************************)
RoomWhenInserting ==
  \A c \in Creators : pc[c] = "insert" => Cardinality(early[c] \cap map) < MaxSessions

(***************************************************************************)
(* "The capacity check is approximate" (concurrent_map.h:43), but not by   *)
(* more than one session for every other thread that creates one.          *)
(***************************************************************************)
OvershootBounded == Cardinality(map) <= MaxSessions + Cardinality(Creators) - 1

(***************************************************************************)
(* "Reap terminal sessions" (session_manager.h:65): no session leaves the  *)
(* map while its workflow still has to bring it to an end.                 *)
(***************************************************************************)
ReapsOnlyTerminal == [][\A i \in map \ map' : state[i] = "terminal"]_manager
=============================================================================
