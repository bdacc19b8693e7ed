---------------------------- MODULE Conversation ----------------------------
(***************************************************************************)
(* session/conversation.h, the bounded history of a session, written the   *)
(* way its users write it: create_session() (or main) pushes the system    *)
(* message, if there is one, and the prompt; run() of react.cpp pushes     *)
(* every answer of the LLM and then one "tool" message per tool call of    *)
(* it.  One thread owns a history: it has no lock, and nothing interleaves.*)
(*                                                                         *)
(* A message is its role, the pushes it stands for (its own number, or     *)
(* several for a summary, see SummarizingConversation) and, for a tool     *)
(* message, the answer that asked for the call.                            *)
(***************************************************************************)
EXTENDS Naturals, Sequences

CONSTANTS
  Capacities,       \* values of max_messages
  MaxCalls,         \* bound: tool calls of one answer
  MaxMessages       \* bound: messages pushed to one history

ASSUME CapacityAssumption ==
  Capacities \subseteq Nat \ {0} /\ MaxCalls \in Nat /\ MaxMessages \in Nat

VARIABLES
  max_messages, messages,
  turn,             \* "start", "prompt", "llm", "tools" or "ended"
  answer,           \* number of the answer whose calls are executed
  calls_left,       \* tool messages that run() still has to push for it
  log               \* history: every message pushed since the last clear()

history_vars == <<max_messages, messages, turn, answer, calls_left, log>>

HistoryInit ==
  /\ max_messages \in Capacities
  /\ messages = <<>> /\ log = <<>>
  /\ turn = "start" /\ answer = 0 /\ calls_left = 0

IsSystem(m) == m.role = "system"

\* messages_.erase(messages_.begin() + 1).  Mutant: begin() + 2.
EraseThird(msgs) == <<msgs[1], msgs[2]>> \o SubSeq(msgs, 4, Len(msgs))
EraseSecond(msgs) == <<msgs[1]>> \o SubSeq(msgs, 3, Len(msgs))

\* evict_if_needed(); its loop runs once at most, since push() is its only
\* caller and adds one message to no more than max.  Mutant: the front goes
\* whatever it is.
EvictFront(msgs, max) == IF Len(msgs) > max THEN Tail(msgs) ELSE msgs
evict_if_needed(msgs, max) ==
  IF Len(msgs) > max
    THEN IF Len(msgs) > 1 /\ IsSystem(msgs[1]) THEN EraseSecond(msgs) ELSE Tail(msgs)
    ELSE msgs

push(msgs, max, m) == evict_if_needed(Append(msgs, m), max)

-----------------------------------------------------------------------------
\* The user of the history.
NewMessage(role, call) == [role |-> role, ids |-> {Len(log) + 1}, call |-> call]

PushMessage(to, m) ==
  /\ turn' = to
  /\ messages' = push(messages, max_messages, m)
  /\ log' = Append(log, m)
  /\ UNCHANGED max_messages

PushSystem ==
  /\ turn = "start"
  /\ PushMessage("prompt", NewMessage("system", 0))
  /\ UNCHANGED <<answer, calls_left>>

PushPrompt ==
  /\ turn \in {"start", "prompt"}
  /\ PushMessage("llm", NewMessage("user", 0))
  /\ UNCHANGED <<answer, calls_left>>

\* The LLM answers; n is tool_calls.size().
PushAnswer(n) ==
  /\ turn = "llm" /\ Len(log) + 1 + n <= MaxMessages
  /\ PushMessage(IF n = 0 THEN "ended" ELSE "tools", NewMessage("assistant", 0))
  /\ answer' = Len(log) + 1 /\ calls_left' = n

\* One result of execute_batch().
PushTool ==
  /\ turn = "tools"
  /\ PushMessage(IF calls_left = 1 THEN "llm" ELSE "tools", NewMessage("tool", answer))
  /\ calls_left' = calls_left - 1
  /\ UNCHANGED answer

\* A guard of run() ends the loop, or the LLM's answer is an error.
EndRun ==
  /\ turn = "llm"
  /\ turn' = "ended"
  /\ UNCHANGED <<max_messages, messages, answer, calls_left, log>>

\* clear(), after which the history is as good as new.
Clear ==
  /\ turn = "ended"
  /\ turn' = "start" /\ answer' = 0 /\ calls_left' = 0
  /\ messages' = <<>> /\ log' = <<>>
  /\ UNCHANGED max_messages

HistoryNext ==
  PushSystem \/ PushPrompt \/ (\E n \in 0 .. MaxCalls : PushAnswer(n)) \/ PushTool \/ EndRun \/ Clear

HistorySpec == HistoryInit /\ [][HistoryNext]_history_vars

-----------------------------------------------------------------------------
HasSystem == log # <<>> /\ IsSystem(log[1])
Heads == IF HasSystem THEN 1 ELSE 0

\* Type invariant.
Message == [role : {"system", "user", "assistant", "tool"}, ids : SUBSET Nat, call : Nat]
HistoryTypes ==
  /\ max_messages \in Capacities
  /\ messages \in Seq(Message) /\ log \in Seq(Message)
  /\ turn \in {"start", "prompt", "llm", "tools", "ended"}
  /\ answer \in Nat /\ calls_left \in Nat

(***************************************************************************)
(* "the oldest non-system messages are evicted.  System messages (index 0) *)
(* are always preserved" (conversation.h:3): the history is the system     *)
(* message, if one was pushed, and as many of the last messages pushed as  *)
(* fit, none missing in between.                                           *)
(***************************************************************************)
Fitting == IF Len(log) > max_messages THEN max_messages ELSE Len(log)
RecentKept ==
  /\ Len(messages) = Fitting
  /\ \A i \in 1 .. Len(messages) :
       messages[i] = IF i <= Heads THEN log[i] ELSE log[Len(log) - Len(messages) + i]

(***************************************************************************)
(* Eviction looks at one message at a time and may drop an answer whose    *)
(* tool messages stay, which then refer to no call of the history.  Such   *)
(* orphans are only ever the oldest messages after the system message (or  *)
(* a summary), and belong to one answer; and those of the last answer are  *)
(* orphans only if it and its results alone do not fit.                    *)
(***************************************************************************)
Orphan(msgs, i) ==
  /\ msgs[i].role = "tool"
  /\ \A j \in 1 .. i - 1 : msgs[j].ids # {msgs[i].call}
IsSummary(m) == \E a, b \in m.ids : a # b
OrphansAreOldest(msgs) ==
  \A i \in 1 .. Len(msgs) : Orphan(msgs, i) =>
    \A j \in 1 .. i - 1 : IsSystem(msgs[j]) \/ IsSummary(msgs[j]) \/ msgs[j].call = msgs[i].call
OrphansOldest ==
  /\ OrphansAreOldest(messages)
  /\ \A i \in 1 .. Len(messages) : Orphan(messages, i) /\ messages[i].call = answer =>
       Heads + 1 + (Len(log) - answer) > max_messages
=============================================================================
