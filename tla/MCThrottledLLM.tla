--------------------------- MODULE MCThrottledLLM ---------------------------
(* Two sessions that make an LLM call each, and one that makes none: with  *)
(* it in between, round robin sends the other two to the same worker.      *)
EXTENDS ThrottledLLM

MCTasks == {"s1", "h1", "l1", "s2", "s3", "h3", "l3"}
MCRoots == {"s1", "s2", "s3"}
MCCalls == {"l1", "l3"}

Get(t) == <<[op |-> "get", task |-> t]>>

ThreeSessions ==
  [t \in MCTasks |->
     CASE t = "s1" -> SessionProgram("s1", "h1", "l1")
       [] t = "s3" -> SessionProgram("s3", "h3", "l3")
       [] t = "l1" -> Get("h1")
       [] t = "l3" -> Get("h3")
       [] OTHER -> <<>>]
=============================================================================
