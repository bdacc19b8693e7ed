------------------------------- MODULE TaskDAG ------------------------------
(***************************************************************************)
(* workflow/task_dag.h: tool calls that depend on the results of others.   *)
(* add_node() builds the graph, topological_sort() groups the nodes into   *)
(* levels, and execute() runs the levels one after the other as batches of *)
(* ToolExecutor.  Nodes are numbered from 1.                               *)
(*                                                                         *)
(* The arguments of a node are abstracted to the set of nodes whose        *)
(* placeholder substitute() replaces in them, if they have it.             *)
(***************************************************************************)
EXTENDS ToolExecutor

CONSTANT MaxDeps    \* bound: dependencies of a node, repetitions included

ASSUME DepsAssumption == MaxDeps \in Nat

VARIABLES
  phase,            \* "build", "fill", "level", "pop", "relax", "run", "batch", "returned" or "thrown"
  nodes,            \* dependencies of each node, in the order given
  in_degree, ready, levels, processed,
  level, level_size, node,    \* level that is built, and the node just popped
  scan,             \* position of a loop over the nodes
  current,          \* index of the level that is executed
  inputs,           \* for each level, the nodes whose results its arguments contain
  all_results       \* the nodes whose results have been stored, in order

sort == <<in_degree, ready, levels, processed, level, level_size, node, scan>>
run == <<current, inputs, all_results>>
dag == <<phase, nodes, sort, run>>
vars == <<executor, dag>>

Init ==
  /\ ExecutorInit
  /\ phase = "build" /\ nodes = <<>>
  /\ in_degree = <<>> /\ ready = <<>> /\ levels = <<>> /\ processed = 0
  /\ level = <<>> /\ level_size = 0 /\ node = 0 /\ scan = 1
  /\ current = 1 /\ inputs = <<>> /\ all_results = <<>>

NodeIds == 1 .. Len(nodes)
GotoPhase(from, to) == phase = from /\ phase' = to

-----------------------------------------------------------------------------
\* add_node(): "Dependency on future node".
Accepts(d, id) == d < id

add_node(deps) ==
  /\ phase = "build" /\ Len(nodes) < MaxCalls
  /\ \A p \in 1 .. Len(deps) : Accepts(deps[p], Len(nodes) + 1)
  /\ nodes' = Append(nodes, deps)
  /\ UNCHANGED <<phase, sort, run, executor>>

DepSeqs == UNION {[1 .. k -> 1 .. Len(nodes) + 1] : k \in 0 .. MaxDeps}

\* execute() calls topological_sort(), which counts the dependencies.
execute ==
  /\ GotoPhase("build", "fill")
  /\ in_degree' = [i \in NodeIds |-> Len(nodes[i])]
  /\ scan' = 1
  /\ UNCHANGED <<nodes, ready, levels, processed, level, level_size, node, run, executor>>

Fill ==
  /\ phase = "fill" /\ scan \in NodeIds
  /\ ready' = IF in_degree[scan] = 0 THEN Append(ready, scan) ELSE ready
  /\ scan' = scan + 1
  /\ UNCHANGED <<phase, nodes, in_degree, levels, processed, level, level_size, node, run, executor>>

Filled ==
  /\ scan > Len(nodes)
  /\ GotoPhase("fill", "level")
  /\ UNCHANGED <<nodes, sort, run, executor>>

\* The size of the queue when the level is begun.
LevelSize == Len(ready)

NextLevel ==
  /\ ready # <<>>
  /\ GotoPhase("level", "pop")
  /\ level' = <<>> /\ level_size' = LevelSize
  /\ UNCHANGED <<nodes, in_degree, ready, levels, processed, node, scan, run, executor>>

Pop ==
  /\ Len(level) < level_size
  /\ GotoPhase("pop", "relax")
  /\ node' = Head(ready) /\ ready' = Tail(ready)
  /\ level' = Append(level, Head(ready))
  /\ processed' = processed + 1
  /\ scan' = 1
  /\ UNCHANGED <<nodes, in_degree, levels, level_size, run, executor>>

\* dependents[node] holds every node as often as it depends on it, in order.
Times(i) == Cardinality({p \in 1 .. Len(nodes[i]) : nodes[i][p] = node})

\* Mutant: a repeated dependency is counted once.
DecrementOnce(i) == IF Times(i) > 0 THEN in_degree[i] - 1 ELSE in_degree[i]
Decrement(i) == in_degree[i] - Times(i)

Relax ==
  /\ phase = "relax" /\ scan \in NodeIds
  /\ in_degree' = [in_degree EXCEPT ![scan] = Decrement(scan)]
  /\ ready' = IF Times(scan) > 0 /\ Decrement(scan) = 0 THEN Append(ready, scan) ELSE ready
  /\ scan' = scan + 1
  /\ UNCHANGED <<phase, nodes, levels, processed, level, level_size, node, run, executor>>

Relaxed ==
  /\ scan > Len(nodes)
  /\ GotoPhase("relax", "pop")
  /\ UNCHANGED <<nodes, sort, run, executor>>

LevelDone ==
  /\ Len(level) = level_size
  /\ GotoPhase("pop", "level")
  /\ levels' = Append(levels, level) /\ level' = <<>>
  /\ UNCHANGED <<nodes, in_degree, ready, processed, level_size, node, scan, run, executor>>

\* "Cycle detected in task DAG" if processed != n.
Sorted ==
  /\ phase = "level" /\ ready = <<>>
  /\ phase' = IF processed = Len(nodes) THEN "run" ELSE "thrown"
  /\ UNCHANGED <<nodes, sort, run, executor>>

-----------------------------------------------------------------------------
\* The nodes that have an entry in results.
Elems(s) == {s[i] : i \in 1 .. Len(s)}
Stored == Elems(all_results)

\* substitute() for the nodes of the level.  Mutant: the last result has not
\* been stored.
SubstituteLate == Elems(SubSeq(all_results, 1, Len(all_results) - 1))
Substituted == Stored

ExecuteLevel ==
  /\ current <= Len(levels)
  /\ GotoPhase("run", "batch")
  /\ inputs' = Append(inputs, Substituted)
  /\ execute_batch(levels[current])
  /\ UNCHANGED <<nodes, sort, current, all_results>>

\* results[level[i]] and all_results; the locals of execute_batch() are gone.
StoreResults ==
  /\ pc = "returned" /\ pc' = "idle"
  /\ GotoPhase("batch", "run")
  /\ all_results' = all_results \o [i \in 1 .. Len(results) |-> results[i].call]
  /\ current' = current + 1
  /\ calls' = <<>> /\ next' = 1 /\ results' = <<>> /\ ready_at' = {}
  /\ UNCHANGED <<nodes, sort, inputs, unknown, deque, inlined, status, expired>>

Finish ==
  /\ current > Len(levels)
  /\ GotoPhase("run", "returned")
  /\ UNCHANGED <<nodes, sort, run, executor>>

-----------------------------------------------------------------------------
Sort ==
  execute \/ Fill \/ Filled \/ NextLevel \/ Pop \/ Relax \/ Relaxed \/ LevelDone \/ Sorted
Levels == ExecuteLevel \/ StoreResults \/ Finish
Handler(c) == \E s \in Ends : HandlerEnds(c, s)

\* The worker is inside a handler or a foreign task, or the DAG is done.
Quiet == (pc \in {"inline", "stuck"} \/ phase \in {"returned", "thrown"}) /\ UNCHANGED vars

Next ==
  \/ \E deps \in DepSeqs : add_node(deps)
  \/ Sort \/ Levels
  \/ (Batch \/ Expire \/ Steal \/ \E c \in Calls : Handler(c)) /\ UNCHANGED dag
  \/ Quiet

Spec == Init /\ [][Next]_vars

-----------------------------------------------------------------------------
(***************************************************************************)
(* Every node is in one level, once; it comes after the nodes that it      *)
(* depends on, and no later than it must: one of them is in the level      *)
(* just before.  This is so with repeated dependencies too, and "Cycle     *)
(* detected" (task_dag.h:110) is never thrown: add_node() leaves no room   *)
(* for a cycle, and the sort reaches every node.                           *)
(***************************************************************************)
Before(k) == UNION {Elems(levels[j]) : j \in 1 .. k - 1}
LevelsSound ==
  /\ phase # "thrown"
  /\ phase \in {"run", "batch", "returned"} => Before(Len(levels) + 1) = NodeIds
  /\ \A k \in 1 .. Len(levels) :
       /\ \A i, j \in 1 .. Len(levels[k]) : i # j => levels[k][i] # levels[k][j]
       /\ \A n \in Elems(levels[k]) :
            /\ n \notin Before(k) /\ Elems(nodes[n]) \subseteq Before(k)
            /\ k > 1 => Elems(nodes[n]) \cap Elems(levels[k - 1]) # {}

(***************************************************************************)
(* "{{node_N_result}} placeholders are substituted with actual outputs"    *)
(* (README.md:311): when a level is submitted, the results of all that its *)
(* nodes depend on are there, be they values, errors or timeouts, so that  *)
(* no placeholder of a dependency is left in the arguments.                *)
(***************************************************************************)
DependenciesFirst ==
  \A k \in 1 .. Len(inputs) :
    \A n \in Elems(levels[k]) : Elems(nodes[n]) \subseteq inputs[k]

\* Type invariant.
TypeOK ==
  /\ ExecutorTypeOK
  /\ phase \in {"build", "fill", "level", "pop", "relax", "run", "batch", "returned", "thrown"}
  /\ nodes \in Seq(Seq(Nat)) /\ in_degree \in Seq(Nat)
  /\ ready \in Seq(NodeIds) /\ levels \in Seq(Seq(NodeIds)) /\ level \in Seq(NodeIds)
  /\ processed \in Nat /\ level_size \in Nat /\ node \in Nat /\ scan \in Nat
  /\ current \in Nat /\ inputs \in Seq(SUBSET NodeIds) /\ all_results \in Seq(NodeIds)
=============================================================================
