---------------------------- MODULE MCThreadPool ----------------------------
EXTENDS ThreadPool

Submit(t) == [op |-> "submit", task |-> t]
Get(t) == [op |-> "get", task |-> t]

\* Two sessions.  The first maps over two subtasks and waits for both; the
\* second leaves a task behind (its caller gave up waiting) which uses a result
\* and submits another task of its own.
MixedTasks == {"r1", "a", "b", "r2", "x", "c", "d"}
MixedRoots == {"r1", "r2"}
Mixed ==
  [t \in MixedTasks |->
     CASE t = "r1" -> <<Submit("a"), Submit("b"), Get("a"), Get("b")>>
       [] t = "r2" -> <<Submit("x"), Get("x"), Submit("c")>>
       [] t = "c"  -> <<Get("x"), Submit("d")>>
       [] OTHER    -> <<>>]
=============================================================================
