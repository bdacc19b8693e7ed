----------------------- MODULE SummarizingConversation ----------------------
(***************************************************************************)
(* session/summarizing_conversation.h: a Conversation whose older messages *)
(* are replaced by a summary that an LLM writes.  It is given what the     *)
(* Conversation it stands in for is given, push by push, so that the two   *)
(* histories can be compared.  push() waits for the LLM before it returns. *)
(***************************************************************************)
EXTENDS Conversation

CONSTANTS
  Thresholds,       \* values of summarize_threshold
  Keeps             \* values of keep_recent

ASSUME SummaryAssumption == Thresholds \subseteq Nat /\ Keeps \subseteq Nat

VARIABLES
  summarize_threshold, keep_recent,
  summarized,       \* conversation_.messages()
  failed            \* history: the LLM has failed since the last clear()

summary == <<summarize_threshold, keep_recent, summarized, failed>>

SInit ==
  /\ HistoryInit
  /\ summarize_threshold \in Thresholds /\ keep_recent \in Keeps
  /\ summarized = <<>> /\ failed = FALSE

-----------------------------------------------------------------------------
\* maybe_summarize(): the messages start + 1 .. end are summarized.
start(msgs) == IF msgs # <<>> /\ IsSystem(msgs[1]) THEN 1 ELSE 0

\* Mutant: one message more.
EndOffByOne(msgs) ==
  IF Len(msgs) > keep_recent /\ keep_recent > 0 THEN Len(msgs) - keep_recent + 1 ELSE start(msgs)
end(msgs) == IF Len(msgs) > keep_recent THEN Len(msgs) - keep_recent ELSE start(msgs)

Worth(msgs) ==
  /\ Len(msgs) >= summarize_threshold
  /\ end(msgs) > start(msgs) + 1

Summary(msgs) ==
  [role |-> "assistant",
   ids  |-> UNION {msgs[i].ids : i \in start(msgs) + 1 .. end(msgs)},
   call |-> 0]

\* new_conv: its messages are pushed one by one.
PushAll(msgs) ==
  LET conv[n \in 0 .. Len(msgs)] ==
        IF n = 0 THEN <<>> ELSE push(conv[n - 1], max_messages, msgs[n])
  IN  conv[Len(msgs)]

\* Mutant: the system message and the recent ones only.
RebuildWithout(msgs) ==
  PushAll(SubSeq(msgs, 1, start(msgs)) \o SubSeq(msgs, end(msgs) + 1, Len(msgs)))
Rebuild(msgs) ==
  PushAll(SubSeq(msgs, 1, start(msgs)) \o <<Summary(msgs)>>
            \o SubSeq(msgs, end(msgs) + 1, Len(msgs)))

\* push(): m is the message that the Conversation has been given.
Summarize ==
  LET pushed == push(summarized, max_messages, log'[Len(log')])
  IN  \/ /\ ~Worth(pushed)
         /\ summarized' = pushed /\ UNCHANGED failed
      \/ /\ Worth(pushed)
         /\ summarized' = Rebuild(pushed) /\ UNCHANGED failed
      \/ /\ Worth(pushed)       \* an error, or an empty answer
         /\ summarized' = pushed /\ failed' = TRUE

SPush ==
  /\ PushSystem \/ PushPrompt \/ (\E n \in 0 .. MaxCalls : PushAnswer(n)) \/ PushTool
  /\ Summarize
  /\ UNCHANGED <<summarize_threshold, keep_recent>>

SStop == EndRun /\ UNCHANGED summary

SClear ==
  /\ Clear
  /\ summarized' = <<>> /\ failed' = FALSE
  /\ UNCHANGED <<summarize_threshold, keep_recent>>

SNext == SPush \/ SStop \/ SClear
SSpec == SInit /\ [][SNext]_<<history_vars, summary>>

-----------------------------------------------------------------------------
PushesIn(msgs) == UNION {msgs[i].ids : i \in 1 .. Len(msgs)}
Pushed == 1 .. Len(log)

(***************************************************************************)
(* "older messages are summarized into a single message, preserving the    *)
(* system message and recent messages" (summarizing_conversation.h:3): as  *)
(* long as the LLM answers, and the parameters leave room for a summary    *)
(* (keep_recent + 3 <= threshold <= capacity), every message pushed is in  *)
(* the history or in what a summary of it was made from: eviction never    *)
(* happens, also not while the history is rebuilt.                         *)
(***************************************************************************)
NothingLost ==
  ~failed /\ keep_recent + 3 <= summarize_threshold /\ summarize_threshold <= max_messages
    => PushesIn(summarized) = Pushed

(***************************************************************************)
(* Whatever the parameters and however often the LLM fails: the history    *)
(* stands for the system message and an unbroken run of the last messages, *)
(* in order, and the keep_recent newest of them (as far as they fit) are   *)
(* there word for word.                                                    *)
(***************************************************************************)
RecentVerbatim ==
  LET tail == {n \in Pushed : n > Heads}
      fits == {n \in tail : Len(log) - n < keep_recent /\ Len(log) - n < max_messages - Heads}
  IN  /\ Len(summarized) <= max_messages
      /\ \A i, j \in 1 .. Len(summarized) : i < j =>
           \A a \in summarized[i].ids, b \in summarized[j].ids : a < b
      /\ \A a, b \in tail : a \in PushesIn(summarized) /\ a < b => b \in PushesIn(summarized)
      /\ HasSystem => log[1] = summarized[1]
      /\ \A n \in fits : \E i \in 1 .. Len(summarized) : summarized[i] = log[n]
=============================================================================
