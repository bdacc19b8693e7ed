------------------------------ MODULE ToolCalls -----------------------------
(***************************************************************************)
(* TaskDAG on ToolExecutor, with some calls handled by the shell tool: a   *)
(* shell handler is running from the time that a worker takes it up, here  *)
(* (inline) or there (stolen), goes through the steps of Shell, and ends   *)
(* with them.  The other handlers are those of TaskDAG.                    *)
(***************************************************************************)
EXTENDS TaskDAG, Shell

ASSUME ShellCallsAssumption ==
  /\ ShellCalls \subseteq Calls \ MayHang
  /\ \A u \in Registries : ShellCalls \cap u = {}

all == <<vars, shell>>

InitAll == Init /\ ShellInit

\* A step of a shell handler, and its two ways to end.
ShellWorks(c) == Pipe(c) \/ Fork(c) \/ Close(c) \/ EndOfFile(c) \/ ReadFails(c)
ShellStep(c) ==
  /\ status[c] = "running"
  /\ \/ ShellWorks(c) /\ UNCHANGED vars
     \/ Reap(c) /\ HandlerEnds(c, "done") /\ UNCHANGED dag
     \/ (Refuse(c) \/ ForkFails(c)) /\ HandlerEnds(c, "threw") /\ UNCHANGED dag

OtherHandler(c) == Handler(c) /\ UNCHANGED <<dag, shell>>

NextAll ==
  \/ (\E deps \in DepSeqs : add_node(deps)) /\ UNCHANGED shell
  \/ (Sort \/ Levels) /\ UNCHANGED shell
  \/ (Batch \/ Expire \/ Steal) /\ UNCHANGED <<dag, shell>>
  \/ \E c \in ShellCalls : ShellStep(c) \/ (Exit(c) /\ UNCHANGED vars)
  \/ \E c \in Calls \ ShellCalls : OtherHandler(c)
  \/ Quiet /\ UNCHANGED shell

SpecAll == InitAll /\ [][NextAll]_all

(***************************************************************************)
(* The thread in execute() runs on, deadlines come, the threads that run   *)
(* handlers go on, and commands exit unless they are endless.  No other    *)
(* worker need be free to steal.                                           *)
(***************************************************************************)
FairAll ==
  /\ SpecAll
  /\ WF_all((Sort \/ Levels) /\ UNCHANGED shell)
  /\ WF_all(Batch /\ UNCHANGED <<dag, shell>>) /\ WF_all(Expire /\ UNCHANGED <<dag, shell>>)
  /\ \A c \in ShellCalls : WF_all(ShellStep(c))
  /\ \A c \in ShellCalls \ Endless : WF_all(Exit(c) /\ UNCHANGED vars)
  /\ \A c \in Calls \ ShellCalls : WF_all(OtherHandler(c))

-----------------------------------------------------------------------------
(***************************************************************************)
(* "Blocks until completion or timeout" (tool_executor.h:21): execute()    *)
(* returns a result for every node, also when a handler does not come      *)
(* back, unless the waiting worker itself has taken up something that does *)
(* not: that handler, a task of another session (future.h:212 runs either  *)
(* and looks at the clock only afterwards), or a shell handler, which      *)
(* comes back once its command has exited, and every other command that    *)
(* was started while its pipe was being set up.                            *)
(***************************************************************************)
ExecuteReturnsAll ==
  phase = "fill" ~> \/ phase = "returned" /\ Stored = NodeIds
                    \/ inlined # 0 /\ status[inlined] = "hung"
                    \/ pc = "stuck"
                    \/ inlined \in ShellCalls /\ writers[inlined] \cap Endless # {}
=============================================================================
