-------------------------------- MODULE Shell -------------------------------
(***************************************************************************)
(* The handler of tools/builtin/shell.h: pipe(), fork(), a child that runs *)
(* the command with the write end as its output, and a parent that reads   *)
(* until end of file and then waits for the child.                         *)
(*                                                                         *)
(* Handlers of several calls run on several threads of one process.  The   *)
(* descriptors of a pipe are not close-on-exec: a child forked while       *)
(* another handler has its write end open holds that one too, until it     *)
(* exits.  Copies of a read end in a child keep nobody waiting, and are    *)
(* left out, as is the output.                                             *)
(***************************************************************************)
CONSTANTS
  ShellCalls,       \* the calls of the shell tool
  Endless           \* calls whose command may never exit

ASSUME ShellAssumption == Endless \subseteq ShellCalls /\ 0 \notin ShellCalls

VARIABLES
  stage,            \* "start", "piped", "forked", "reading", "waiting",
                    \* "cut" (waiting after a failed read) or "over"
  child,            \* "none", "running", "exited" or "reaped"
  writers,          \* who holds the write end of a call's pipe
  readable          \* calls whose read end is open in the process

shell == <<stage, child, writers, readable>>

Parent == 0         \* calls are numbered from 1

ShellInit ==
  /\ stage = [c \in ShellCalls |-> "start"]
  /\ child = [c \in ShellCalls |-> "none"]
  /\ writers = [c \in ShellCalls |-> {}]
  /\ readable = {}

Advance(c, from, to) == stage[c] = from /\ stage' = [stage EXCEPT ![c] = to]

CloseWriteEnd(c) == writers' = [writers EXCEPT ![c] = @ \ {Parent}]
CloseReadEnd(c) == readable' = readable \ {c}

Pipe(c) ==
  /\ Advance(c, "start", "piped")
  /\ writers' = [writers EXCEPT ![c] = {Parent}]
  /\ readable' = readable \cup {c}
  /\ UNCHANGED child

\* fork(): the child has every descriptor that the process has.
Fork(c) ==
  /\ Advance(c, "piped", "forked")
  /\ child' = [child EXCEPT ![c] = "running"]
  /\ writers' = [d \in ShellCalls |-> IF Parent \in writers[d] THEN writers[d] \cup {c}
                                                              ELSE writers[d]]
  /\ UNCHANGED readable

\* The parent closes pipefd[1].
Close(c) ==
  /\ Advance(c, "forked", "reading")
  /\ CloseWriteEnd(c)
  /\ UNCHANGED <<child, readable>>

\* The command exits, or execvp() fails and _exit(127) follows.
Exit(c) ==
  /\ child[c] = "running"
  /\ child' = [child EXCEPT ![c] = "exited"]
  /\ writers' = [d \in ShellCalls |-> writers[d] \ {c}]
  /\ UNCHANGED <<stage, readable>>

\* read() returns 0, and pipefd[0] is closed.
EndOfFile(c) ==
  /\ writers[c] = {}
  /\ Advance(c, "reading", "waiting")
  /\ CloseReadEnd(c)
  /\ UNCHANGED <<child, writers>>

\* read() fails: the loop ends all the same.
ReadFails(c) ==
  /\ Advance(c, "reading", "cut")
  /\ CloseReadEnd(c)
  /\ UNCHANGED <<child, writers>>

\* waitpid(), and the handler returns the output.
Reap(c) ==
  /\ child[c] = "exited"
  /\ Advance(c, "waiting", "over") \/ Advance(c, "cut", "over")
  /\ child' = [child EXCEPT ![c] = "reaped"]
  /\ UNCHANGED <<writers, readable>>

\* The arguments are refused, or pipe() fails.
Refuse(c) == Advance(c, "start", "over") /\ UNCHANGED <<child, writers, readable>>

\* fork() fails: both ends are closed.  Mutant: the read end is not.
CloseOne(c) == CloseWriteEnd(c) /\ UNCHANGED readable
CloseBoth(c) == CloseReadEnd(c) /\ CloseWriteEnd(c)

ForkFails(c) ==
  /\ Advance(c, "piped", "over")
  /\ CloseBoth(c)
  /\ UNCHANGED child

-----------------------------------------------------------------------------
(***************************************************************************)
(* A handler that is over, whichever way, has closed both ends of its pipe *)
(* and leaves no zombie; and one that has seen the end of file has all the *)
(* output, for its own child held the write end to the last.  After a      *)
(* failed read() that is not so.                                           *)
(***************************************************************************)
NothingLeftBehind ==
  \A c \in ShellCalls :
    /\ stage[c] = "over" => /\ Parent \notin writers[c] /\ c \notin readable
                            /\ child[c] \in {"none", "reaped"}
    /\ stage[c] = "waiting" => child[c] = "exited"
=============================================================================
