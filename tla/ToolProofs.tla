----------------------------- MODULE ToolProofs -----------------------------
(***************************************************************************)
(* Tool calls: workflow/task_dag.h on tools/tool_executor.h, with the      *)
(* shell tool, for every number of nodes, dependencies, calls and unknown  *)
(* tools, and whatever the handlers and the other workers do.              *)
(*                                                                         *)
(* The levels of a DAG are sound (LevelsSound).  SortInv: in_degree[i] is  *)
(* the number of dependencies of i, repetitions included, that have not    *)
(* been taken off the queue, and the nodes at zero are those on the queue  *)
(* and those taken off.  The front of the queue, as far as it belongs to   *)
(* the level in progress, depends on earlier levels only; the rest depends *)
(* on a node of this level.                                                *)
(*                                                                         *)
(* The results of execute_batch() match its calls (ResultsMatchCalls), no  *)
(* timeout is reported for a handler that had ended when its turn came     *)
(* (NoFalseTimeout), and a node is submitted with the results of all that  *)
(* it depends on (DependenciesFirst).  BatchInv is the invariant of one    *)
(* batch after the other.  It needs calls that no earlier batch had, which *)
(* is what the levels of a DAG give (RunInv, with SortInv).                *)
(*                                                                         *)
(* A shell handler leaves nothing behind (NothingLeftBehind).              *)
(***************************************************************************)
EXTENDS ToolCalls, FiniteSetTheorems, WellFoundedInduction, TLAPS

Done == Before(Len(levels) + 1) \cup Elems(level)
Pending(i) == IF phase = "relax" /\ i >= scan THEN {node} ELSE {}
Unmet(i) == {p \in 1 .. Len(nodes[i]) : nodes[i][p] \notin Done \ Pending(i)}
Distinct(s) == \A a, b \in 1 .. Len(s) : a # b => s[a] # s[b]

\* Node n may be in level k.
Fits(n, k) ==
  /\ Elems(nodes[n]) \subseteq Before(k)
  /\ k > 1 => Elems(nodes[n]) \cap Elems(levels[k - 1]) # {}

NodesInv ==
  /\ nodes \in Seq(Seq(Nat))
  /\ \A i \in NodeIds : \A p \in 1 .. Len(nodes[i]) : nodes[i][p] \in 1 .. i - 1

Sorting == {"level", "pop", "relax"}

SortTypes ==
  /\ phase \in {"build", "fill", "run", "batch", "returned"} \cup Sorting
  /\ ready \in Seq(NodeIds) /\ level \in Seq(NodeIds) /\ levels \in Seq(Seq(NodeIds))
  /\ processed \in Nat /\ level_size \in Nat /\ scan \in Nat
  /\ phase \notin {"pop", "relax"} => level = <<>>
  /\ phase \in {"build", "fill"} => levels = <<>> /\ processed = 0
  /\ phase = "build" => ready = <<>>

\* The queue and the counters.
QueueInv ==
  /\ Distinct(ready) /\ Distinct(level)
  /\ Elems(ready) \cap Done = {}
  /\ Elems(level) \cap Before(Len(levels) + 1) = {}
  /\ processed = Cardinality(Done)
  /\ phase # "build" => in_degree \in [NodeIds -> Nat]
  /\ phase \in {"fill"} \cup Sorting =>
       \A i \in NodeIds : in_degree[i] = Cardinality(Unmet(i))
  /\ phase = "fill" =>
       \A i \in NodeIds : i \in Elems(ready) <=> i < scan /\ in_degree[i] = 0
  /\ phase \in Sorting =>
       \A i \in NodeIds : i \in Elems(ready) \cup Done <=> in_degree[i] = 0
  /\ phase = "relax" => level # <<>> /\ node = level[Len(level)]

\* What belongs to the level in progress.
LevelInv ==
  /\ phase = "level" /\ levels # <<>> =>
       \A j \in 1 .. Len(ready) : Elems(nodes[ready[j]]) \cap Elems(levels[Len(levels)]) # {}
  /\ phase \in {"pop", "relax"} =>
       /\ Len(level) <= level_size /\ level_size <= Len(level) + Len(ready)
       /\ \A j \in 1 .. Len(level) : Fits(level[j], Len(levels) + 1)
       /\ \A j \in 1 .. Len(ready) :
            IF j <= level_size - Len(level)
              THEN Fits(ready[j], Len(levels) + 1)
              ELSE Elems(nodes[ready[j]]) \cap Elems(level) # {}

LevelsInv ==
  /\ \A k \in 1 .. Len(levels) :
       /\ Distinct(levels[k])
       /\ \A n \in Elems(levels[k]) : n \notin Before(k) /\ Fits(n, k)
  /\ phase \in {"run", "batch", "returned"} => Before(Len(levels) + 1) = NodeIds

SortInv == NodesInv /\ SortTypes /\ QueueInv /\ LevelInv /\ LevelsInv

-----------------------------------------------------------------------------
\* Facts about sequences and sets of numbers.

LEMMA AppendAt ==
  ASSUME NEW S, NEW s \in Seq(S), NEW x \in S
  PROVE  /\ Append(s, x) \in Seq(S) /\ Len(Append(s, x)) = Len(s) + 1
         /\ Append(s, x)[Len(s) + 1] = x
         /\ \A j \in 1 .. Len(s) : Append(s, x)[j] = s[j]
OBVIOUS

LEMMA ElemsAppend ==
  ASSUME NEW S, NEW s \in Seq(S), NEW x \in S
  PROVE  Elems(Append(s, x)) = Elems(s) \cup {x}
BY DEF Elems

LEMMA DistinctAppend ==
  ASSUME NEW S, NEW s \in Seq(S), NEW x \in S, Distinct(s), x \notin Elems(s)
  PROVE  Distinct(Append(s, x))
<1>1. /\ Len(s) \in Nat /\ Len(Append(s, x)) = Len(s) + 1
      /\ \A j \in 1 .. Len(s) : Append(s, x)[j] = s[j]
      /\ Append(s, x)[Len(s) + 1] = x
  OBVIOUS
<1> QED BY <1>1 DEF Distinct, Elems

LEMMA ElemsTail ==
  ASSUME NEW S, NEW s \in Seq(S), s # <<>>, Distinct(s)
  PROVE  /\ Head(s) \in S /\ Tail(s) \in Seq(S) /\ Distinct(Tail(s))
         /\ Len(Tail(s)) = Len(s) - 1
         /\ \A j \in 1 .. Len(s) - 1 : Tail(s)[j] = s[j + 1]
         /\ Elems(Tail(s)) = Elems(s) \ {Head(s)}
         /\ Head(s) \in Elems(s) /\ Head(s) = s[1]
<1>1. /\ Head(s) \in S /\ Tail(s) \in Seq(S) /\ Len(s) \in Nat /\ Len(s) > 0
      /\ Len(Tail(s)) = Len(s) - 1 /\ Head(s) = s[1]
      /\ \A j \in 1 .. Len(s) - 1 : Tail(s)[j] = s[j + 1]
  OBVIOUS
<1>2. Head(s) \in Elems(s)
  BY <1>1 DEF Elems
<1>3. Distinct(Tail(s))
  BY <1>1 DEF Distinct
<1>4. ASSUME NEW x \in Elems(Tail(s))
      PROVE  x \in Elems(s) \ {Head(s)}
  BY <1>1 DEF Elems, Distinct
<1>5. ASSUME NEW x \in Elems(s) \ {Head(s)}
      PROVE  x \in Elems(Tail(s))
  <2>1. PICK i \in 1 .. Len(s) : x = s[i]
    BY DEF Elems
  <2>2. i - 1 \in 1 .. Len(s) - 1 /\ x = Tail(s)[i - 1]
    BY <1>1, <2>1
  <2> QED BY <1>1, <2>2 DEF Elems
<1> QED BY <1>1, <1>2, <1>3, <1>4, <1>5

\* A nonempty set of natural numbers has a least element.
LEMMA LeastNumber ==
  ASSUME NEW T, T \subseteq Nat, T # {}
  PROVE  \E x \in T : \A y \in T : x <= y
<1> DEFINE R == {ss \in Nat \X Nat : ss[1] < ss[2]}
<1>1. IsWellFoundedOn(R, Nat)
  BY NatLessThanWellFounded, Zenon DEF OpToRel
<1>2. ASSUME NEW x \in Nat, NEW y \in Nat, ~ (<<y, x>> \in R)
      PROVE  x <= y
  BY <1>2
<1> HIDE DEF R
<1>3. \E x \in T : \A y \in T : ~ (<<y, x>> \in R)
  BY <1>1, WFMin, Zenon
<1> QED BY <1>2, <1>3, Zenon

\* Before(k), seen from a later state.
LEMMA BeforeStep ==
  ASSUME levels \in Seq(Seq(NodeIds)), levels' = Append(levels, level)
  PROVE  /\ \A k \in 1 .. Len(levels) + 1 : Before(k)' = Before(k)
         /\ Before(Len(levels) + 1)' = Before(Len(levels) + 1) \cup Elems(level)
         /\ Before(1) = {}
<1>1. /\ Len(levels) \in Nat /\ Len(levels') = Len(levels) + 1
      /\ \A j \in 1 .. Len(levels) : levels'[j] = levels[j]
      /\ levels'[Len(levels) + 1] = level
  OBVIOUS
<1>2. ASSUME NEW k \in 1 .. Len(levels) + 1
      PROVE  Before(k)' = Before(k)
  BY <1>1 DEF Before, Elems
<1>3. Before(Len(levels) + 1)' = Before(Len(levels) + 1) \cup Elems(level)
  <2>1. \A x : x \in Before(Len(levels) + 1)' <=> \E j \in 1 .. Len(levels) + 1 : x \in Elems(levels'[j])
    BY <1>1 DEF Before
  <2>2. \A x : x \in Before(Len(levels) + 1) <=> \E j \in 1 .. Len(levels) : x \in Elems(levels[j])
    BY <1>1 DEF Before
  <2> QED BY <1>1, <2>1, <2>2
<1>4. Before(1) = {}
  BY DEF Before
<1> QED BY <1>2, <1>3, <1>4

-----------------------------------------------------------------------------
LEMMA InitSort == Init => SortInv
<1> SUFFICES ASSUME Init PROVE SortInv
  OBVIOUS
<1>1. Before(1) = {} /\ Elems(<<>>) = {} /\ Done = {} /\ NodeIds = {}
  BY DEF Init, Before, Elems, Done, NodeIds
<1>2. Cardinality(Done) = 0
  BY <1>1, FS_EmptySet
<1> QED
  BY <1>1, <1>2 DEF Init, SortInv, NodesInv, SortTypes, QueueInv, LevelInv, LevelsInv, Distinct, Sorting, NodeIds

\* What the steps of the executor, and the rest of execute(), leave alone.
LEMMA SortUnchanged ==
  ASSUME SortInv, UNCHANGED <<nodes, sort>>,
         \/ phase' = phase
         \/ phase \in {"run", "batch", "returned"} /\ phase' \in {"run", "batch", "returned"}
  PROVE  SortInv'
<1>1. /\ nodes' = nodes /\ in_degree' = in_degree /\ ready' = ready /\ levels' = levels
      /\ processed' = processed /\ level' = level /\ level_size' = level_size
      /\ node' = node /\ scan' = scan
  BY DEF sort
<1>2. NodesInv' /\ Done' = Done /\ NodeIds' = NodeIds
  BY <1>1 DEF SortInv, NodesInv, NodeIds, Done, Before, Elems
<1>3. SortTypes'
  BY <1>1 DEF SortInv, SortTypes, NodeIds, Sorting
<1>4. phase' \in {"fill"} \cup Sorting => phase' = phase
  BY DEF Sorting
<1>5. /\ \A k : Before(k)' = Before(k)
      /\ \A n, k : Fits(n, k)' <=> Fits(n, k)
      /\ Before(Len(levels) + 1)' = Before(Len(levels) + 1)
  BY <1>1 DEF Fits, Before
<1>6. LevelsInv'
  BY <1>1, <1>2, <1>5 DEF SortInv, LevelsInv
<1>7. LevelInv'
  BY <1>1, <1>4, <1>5 DEF SortInv, LevelInv, Sorting
<1>8. phase' = phase => \A i : Unmet(i)' = Unmet(i)
  BY <1>1, <1>2 DEF Unmet, Pending
<1>9. QueueInv'
  <2>1. phase' # "build" => phase # "build"
    OBVIOUS
  <2>2. /\ Distinct(ready)' /\ Distinct(level)'
        /\ Elems(ready)' \cap Done' = {}
        /\ Elems(level)' \cap Before(Len(levels) + 1)' = {}
        /\ processed' = Cardinality(Done')
        /\ phase' # "build" => in_degree' \in [NodeIds' -> Nat]
    BY <1>1, <1>2, <1>5, <2>1 DEF SortInv, QueueInv, Distinct, Elems
  <2>3. CASE phase' = phase
    BY <1>1, <1>2, <1>8, <2>2, <2>3 DEF SortInv, QueueInv
  <2>4. CASE phase' \in {"run", "batch", "returned"}
    BY <2>2, <2>4 DEF QueueInv, Sorting
  <2> QED BY <2>3, <2>4
<1> QED BY <1>2, <1>3, <1>6, <1>7, <1>9 DEF SortInv

LEMMA AddNodeSort ==
  ASSUME SortInv, NEW deps \in DepSeqs, add_node(deps)
  PROVE  SortInv'
<1>1. /\ phase = "build" /\ phase' = "build" /\ levels = <<>> /\ level = <<>> /\ ready = <<>>
      /\ levels' = <<>> /\ level' = <<>> /\ ready' = <<>> /\ processed = 0 /\ processed' = 0
      /\ level_size' \in Nat /\ scan' \in Nat
  BY DEF SortInv, SortTypes, add_node, sort
<1>2. deps \in Seq(Nat) /\ Len(nodes) \in Nat
  BY DepsAssumption DEF DepSeqs, SortInv, NodesInv
<1>3. NodesInv'
  <2>1. /\ nodes' \in Seq(Seq(Nat)) /\ Len(nodes') = Len(nodes) + 1
        /\ \A i \in 1 .. Len(nodes) : nodes'[i] = nodes[i]
        /\ nodes'[Len(nodes) + 1] = deps
    BY <1>2 DEF SortInv, NodesInv, add_node
  <2>2. \A p \in 1 .. Len(deps) : deps[p] \in 1 .. Len(nodes)
    BY <1>2, DepsAssumption DEF add_node, Accepts, DepSeqs
  <2>3. ASSUME NEW i \in 1 .. Len(nodes'), NEW p \in 1 .. Len(nodes'[i])
        PROVE  nodes'[i][p] \in 1 .. i - 1
    <3>1. CASE i \in 1 .. Len(nodes)
      BY <2>1, <3>1 DEF SortInv, NodesInv, NodeIds
    <3>2. CASE i = Len(nodes) + 1
      BY <1>2, <2>1, <2>2, <3>2
    <3> QED BY <1>2, <2>1, <3>1, <3>2
  <2> QED BY <2>1, <2>3 DEF NodesInv, NodeIds
<1>4. Done' = {} /\ Before(Len(levels) + 1)' = {} /\ Cardinality(Done)' = 0
  <2>1. Done' = {} /\ Before(Len(levels) + 1)' = {}
    BY <1>1 DEF Done, Before, Elems
  <2> QED BY <2>1, FS_EmptySet
<1>5. SortTypes' /\ LevelInv' /\ LevelsInv'
  BY <1>1 DEF SortTypes, LevelInv, LevelsInv, Sorting
<1>6. QueueInv'
  BY <1>1, <1>4 DEF QueueInv, Distinct, Elems, Sorting
<1> QED BY <1>3, <1>5, <1>6 DEF SortInv

LEMMA ExecuteSort == SortInv /\ execute => SortInv'
<1> SUFFICES ASSUME SortInv, execute PROVE SortInv'
  OBVIOUS
<1>1. /\ phase = "build" /\ phase' = "fill" /\ levels' = <<>> /\ level' = <<>>
      /\ ready' = <<>> /\ ready = <<>> /\ processed' = 0 /\ level_size' \in Nat /\ scan' = 1 /\ nodes' = nodes
      /\ in_degree' = [i \in NodeIds |-> Len(nodes[i])]
  BY DEF SortInv, SortTypes, execute, GotoPhase
<1>2. NodesInv' /\ NodeIds' = NodeIds /\ \A i \in NodeIds : nodes[i] \in Seq(Nat)
  BY <1>1, SMTT(20) DEF SortInv, NodesInv, NodeIds
<1>3. Done' = {} /\ Before(Len(levels) + 1)' = {} /\ Cardinality(Done') = 0
  <2>1. Done' = {} /\ Before(Len(levels) + 1)' = {}
    BY <1>1 DEF Done, Before, Elems
  <2> QED BY <2>1, FS_EmptySet
<1>4. \A i \in NodeIds : in_degree'[i] = Cardinality(Unmet(i)') /\ in_degree'[i] \in Nat
  <2> TAKE i \in NodeIds
  <2>1. Unmet(i)' = 1 .. Len(nodes[i])
    BY <1>1, <1>3 DEF Unmet, Pending
  <2>2. Len(nodes[i]) \in Nat
    BY <1>2
  <2>3. Cardinality(1 .. Len(nodes[i])) = Len(nodes[i])
    BY <2>2, FS_Interval
  <2> QED BY <1>1, <2>1, <2>2, <2>3
<1>5. SortTypes' /\ LevelInv' /\ LevelsInv'
  BY <1>1, <1>2 DEF SortTypes, LevelInv, LevelsInv, Sorting
<1>6. in_degree' \in [NodeIds' -> Nat]
  BY <1>1, <1>2, <1>4
<1>7. QueueInv'
  BY <1>1, <1>2, <1>3, <1>4, <1>6 DEF QueueInv, Distinct, Elems, Sorting, NodeIds
<1> QED BY <1>2, <1>5, <1>7 DEF SortInv

LEMMA FillSort == SortInv /\ Fill => SortInv'
<1> SUFFICES ASSUME SortInv, Fill PROVE SortInv'
  OBVIOUS
<1>1. /\ phase = "fill" /\ phase' = "fill" /\ levels = <<>> /\ level = <<>> /\ levels' = <<>> /\ level' = <<>>
      /\ processed' = 0 /\ level_size' \in Nat /\ scan \in NodeIds /\ scan' = scan + 1 /\ nodes' = nodes
      /\ in_degree' = in_degree /\ ready \in Seq(NodeIds)
      /\ ready' = IF in_degree[scan] = 0 THEN Append(ready, scan) ELSE ready
  BY DEF SortInv, SortTypes, Fill
<1>2. NodesInv' /\ NodeIds' = NodeIds /\ Len(nodes) \in Nat
  BY <1>1 DEF SortInv, NodesInv, NodeIds
<1>3. /\ Done = {} /\ Done' = {} /\ Before(Len(levels) + 1)' = {} /\ Cardinality(Done') = 0
  <2>1. Done = {} /\ Done' = {} /\ Before(Len(levels) + 1)' = {}
    BY <1>1 DEF Done, Before, Elems
  <2> QED BY <2>1, FS_EmptySet
<1>4. \A i : Unmet(i)' = Unmet(i)
  BY <1>1, <1>3 DEF Unmet, Pending
<1>5. /\ in_degree \in [NodeIds -> Nat]
      /\ \A i \in NodeIds : in_degree[i] = Cardinality(Unmet(i))
      /\ \A i \in NodeIds : i \in Elems(ready) <=> i < scan /\ in_degree[i] = 0
      /\ Distinct(ready)
  BY <1>1 DEF SortInv, QueueInv
<1>6. ready' \in Seq(NodeIds) /\ Elems(ready') = Elems(ready) \cup (IF in_degree[scan] = 0 THEN {scan} ELSE {})
  BY <1>1, ElemsAppend
<1>7. \A i \in NodeIds : i \in Elems(ready') <=> i < scan' /\ in_degree'[i] = 0
  <2> TAKE i \in NodeIds
  <2>1. i \in Nat /\ scan \in Nat /\ (i < scan + 1 <=> i < scan \/ i = scan)
    BY <1>1, <1>2 DEF NodeIds
  <2> QED BY <1>1, <1>5, <1>6, <2>1
<1>8. Distinct(ready')
  <2>1. scan \notin Elems(ready)
    BY <1>1, <1>2, <1>5 DEF NodeIds
  <2> QED BY <1>1, <1>5, <2>1, DistinctAppend
<1>9. SortTypes' /\ LevelInv' /\ LevelsInv'
  BY <1>1, <1>2, <1>6 DEF SortTypes, LevelInv, LevelsInv, Sorting, NodeIds
<1>10. QueueInv'
  BY <1>1, <1>2, <1>3, <1>4, <1>5, <1>7, <1>8, SMTT(20) DEF QueueInv, Distinct, Elems, Sorting
<1> QED BY <1>2, <1>9, <1>10 DEF SortInv

LEMMA FilledSort == SortInv /\ Filled => SortInv'
<1> SUFFICES ASSUME SortInv, Filled PROVE SortInv'
  OBVIOUS
<1>1. /\ phase = "fill" /\ phase' = "level" /\ levels = <<>> /\ level = <<>>
      /\ scan > Len(nodes) /\ scan \in Nat
      /\ nodes' = nodes /\ in_degree' = in_degree /\ ready' = ready /\ levels' = levels
      /\ processed' = processed /\ level' = level /\ level_size' = level_size /\ scan' = scan
  BY DEF SortInv, SortTypes, Filled, GotoPhase, sort
<1>2. NodesInv' /\ NodeIds' = NodeIds /\ Len(nodes) \in Nat /\ Done' = Done /\ Done = {}
  BY <1>1 DEF SortInv, NodesInv, NodeIds, Done, Before, Elems
<1>3. \A i : Unmet(i)' = Unmet(i)
  BY <1>1, <1>2 DEF Unmet, Pending
<1>4. \A i \in NodeIds : i \in Elems(ready) \cup Done <=> in_degree[i] = 0
  BY <1>1, <1>2 DEF SortInv, QueueInv, NodeIds
<1>5. SortTypes' /\ LevelInv' /\ LevelsInv'
  BY <1>1, <1>2 DEF SortInv, SortTypes, LevelInv, LevelsInv, Sorting
<1>6. Before(Len(levels) + 1)' = Before(Len(levels) + 1)
  BY <1>1 DEF Before
<1>7. QueueInv'
  BY <1>1, <1>2, <1>3, <1>4, <1>6 DEF SortInv, QueueInv, Distinct, Elems, Sorting
<1> QED BY <1>2, <1>5, <1>7 DEF SortInv

\* A node whose count is zero has all its dependencies behind it.
LEMMA ZeroMeansMet ==
  ASSUME SortInv, NEW i \in NodeIds, phase \in {"level", "pop"}, in_degree[i] = 0
  PROVE  Elems(nodes[i]) \subseteq Done
<1>1. nodes[i] \in Seq(Nat) /\ Len(nodes[i]) \in Nat
  BY DEF SortInv, NodesInv, NodeIds
<1>2. IsFiniteSet(1 .. Len(nodes[i]))
  BY <1>1, FS_Interval
<1>3. IsFiniteSet(Unmet(i))
  BY <1>2, FS_Subset DEF Unmet
<1>4. Cardinality(Unmet(i)) = 0
  BY DEF SortInv, QueueInv, Sorting
<1>5. Unmet(i) = {}
  BY <1>3, <1>4, FS_EmptySet
<1> QED BY <1>5 DEF Unmet, Pending, Elems

LEMMA NextLevelSort == SortInv /\ NextLevel => SortInv'
<1> SUFFICES ASSUME SortInv, NextLevel PROVE SortInv'
  OBVIOUS
<1>1. /\ phase = "level" /\ phase' = "pop" /\ level = <<>> /\ level' = <<>>
      /\ ready \in Seq(NodeIds) /\ level_size' = Len(ready) /\ levels \in Seq(Seq(NodeIds))
      /\ nodes' = nodes /\ in_degree' = in_degree /\ ready' = ready /\ levels' = levels
      /\ processed' = processed /\ scan' = scan
  BY DEF SortInv, SortTypes, NextLevel, LevelSize, GotoPhase
<1>2. NodesInv' /\ NodeIds' = NodeIds /\ Len(nodes) \in Nat /\ Done' = Done
  BY <1>1 DEF SortInv, NodesInv, NodeIds, Done, Before, Elems
<1>3. \A i : Unmet(i)' = Unmet(i)
  BY <1>1, <1>2 DEF Unmet, Pending
<1>4. /\ \A k : Before(k)' = Before(k)
      /\ \A n, k : Fits(n, k)' <=> Fits(n, k)
      /\ Before(Len(levels) + 1)' = Before(Len(levels) + 1)
      /\ Done = Before(Len(levels) + 1)
  BY <1>1 DEF Fits, Before, Done, Elems
<1>5. SortTypes'
  BY <1>1, <1>2 DEF SortInv, SortTypes, Sorting
<1>6. LevelsInv'
  BY <1>1, <1>2, <1>4 DEF SortInv, LevelsInv
<1>7. ASSUME NEW j \in 1 .. Len(ready)
      PROVE  Fits(ready[j], Len(levels) + 1)
  <2>1. ready[j] \in NodeIds /\ ready[j] \in Elems(ready)
    BY <1>1 DEF Elems
  <2>2. in_degree[ready[j]] = 0
    BY <1>1, <2>1 DEF SortInv, QueueInv, Sorting
  <2>3. Elems(nodes[ready[j]]) \subseteq Before(Len(levels) + 1)
    BY <1>1, <1>4, <2>1, <2>2, ZeroMeansMet
  <2>4. ASSUME Len(levels) + 1 > 1
        PROVE  Elems(nodes[ready[j]]) \cap Elems(levels[(Len(levels) + 1) - 1]) # {}
    <3>1. Len(levels) \in Nat /\ levels # <<>> /\ (Len(levels) + 1) - 1 = Len(levels)
      BY <1>1, <2>4
    <3> QED BY <1>1, <3>1 DEF SortInv, LevelInv
  <2> QED BY <2>3, <2>4 DEF Fits
<1>8. LevelInv'
  BY <1>1, <1>4, <1>7 DEF LevelInv
<1>9. QueueInv'
  BY <1>1, <1>2, <1>3, <1>4 DEF SortInv, QueueInv, Distinct, Elems, Sorting
<1> QED BY <1>2, <1>5, <1>6, <1>8, <1>9 DEF SortInv

LEMMA DoneInNodes ==
  ASSUME NodesInv, SortTypes
  PROVE  Done \subseteq NodeIds /\ IsFiniteSet(Done) /\ Before(Len(levels) + 1) \subseteq NodeIds
<1>1. ASSUME NEW s \in Seq(NodeIds)
      PROVE  Elems(s) \subseteq NodeIds
  BY DEF Elems
<1>2. /\ level \in Seq(NodeIds) /\ Len(levels) \in Nat
      /\ \A j \in 1 .. Len(levels) : levels[j] \in Seq(NodeIds)
  BY DEF SortTypes
<1>3. Before(Len(levels) + 1) \subseteq NodeIds
  BY <1>1, <1>2 DEF Before
<1>4. IsFiniteSet(NodeIds)
  BY FS_Interval DEF NodeIds, NodesInv
<1> QED BY <1>1, <1>2, <1>3, <1>4, FS_Subset DEF Done

LEMMA PopSort == SortInv /\ Pop => SortInv'
<1> SUFFICES ASSUME SortInv, Pop PROVE SortInv'
  OBVIOUS
<1>1. /\ phase = "pop" /\ phase' = "relax" /\ level \in Seq(NodeIds) /\ Len(level) < level_size
      /\ ready \in Seq(NodeIds) /\ level_size \in Nat /\ levels \in Seq(Seq(NodeIds))
      /\ node' = Head(ready) /\ ready' = Tail(ready) /\ level' = Append(level, Head(ready))
      /\ processed' = processed + 1 /\ processed \in Nat /\ scan' = 1
      /\ nodes' = nodes /\ in_degree' = in_degree /\ levels' = levels /\ level_size' = level_size
  BY DEF SortInv, SortTypes, Pop, GotoPhase
<1>2. NodesInv' /\ NodeIds' = NodeIds /\ Len(nodes) \in Nat /\ NodeIds \subseteq Nat
  BY <1>1, SMTT(20) DEF SortInv, NodesInv, NodeIds
<1>3. /\ level_size <= Len(level) + Len(ready)
      /\ \A j \in 1 .. Len(level) : Fits(level[j], Len(levels) + 1)
      /\ \A j \in 1 .. Len(ready) :
           IF j <= level_size - Len(level)
             THEN Fits(ready[j], Len(levels) + 1)
             ELSE Elems(nodes[ready[j]]) \cap Elems(level) # {}
  BY <1>1 DEF SortInv, LevelInv
<1>4. ready # <<>> /\ Distinct(ready) /\ Distinct(level) /\ Elems(ready) \cap Done = {}
  BY <1>1, <1>3 DEF SortInv, QueueInv
<1>5. /\ Head(ready) \in NodeIds /\ Tail(ready) \in Seq(NodeIds) /\ Distinct(Tail(ready))
      /\ Len(Tail(ready)) = Len(ready) - 1
      /\ \A j \in 1 .. Len(ready) - 1 : Tail(ready)[j] = ready[j + 1]
      /\ Elems(Tail(ready)) = Elems(ready) \ {Head(ready)}
      /\ Head(ready) \in Elems(ready) /\ Head(ready) = ready[1]
  BY <1>1, <1>4, ElemsTail
<1>6. Elems(level') = Elems(level) \cup {Head(ready)}
  BY <1>1, <1>5, ElemsAppend
<1>7. /\ \A k : Before(k)' = Before(k)
      /\ \A n, k : Fits(n, k)' <=> Fits(n, k)
      /\ Before(Len(levels) + 1)' = Before(Len(levels) + 1)
  BY <1>1 DEF Fits, Before
<1>8. Done' = Done \cup {Head(ready)} /\ Head(ready) \notin Done
  BY <1>4, <1>5, <1>6, <1>7 DEF Done
<1>9. \A i \in NodeIds : Unmet(i)' = Unmet(i)
  <2> TAKE i \in NodeIds
  <2>1. Pending(i)' = {Head(ready)} /\ Pending(i) = {}
    BY <1>1, <1>2 DEF Pending, NodeIds
  <2> QED BY <1>1, <1>8, <2>1 DEF Unmet
<1>10. processed' = Cardinality(Done')
  <2>1. IsFiniteSet(Done)
    BY DoneInNodes DEF SortInv
  <2> QED BY <1>1, <1>8, <2>1, FS_AddElement DEF SortInv, QueueInv
<1>11. SortTypes'
  BY <1>1, <1>2, <1>5 DEF SortTypes, Sorting
<1>12. LevelsInv'
  BY <1>1, <1>2, <1>7 DEF SortInv, LevelsInv
<1>13. LevelInv'
  <2>1. /\ Len(level') = Len(level) + 1 /\ Len(level) \in Nat /\ Len(ready) \in Nat
        /\ \A j \in 1 .. Len(level) : level'[j] = level[j]
        /\ level'[Len(level) + 1] = ready[1]
    BY <1>1, <1>5
  <2>2. Fits(ready[1], Len(levels) + 1)
    BY <1>1, <1>3, <1>4, <2>1
  <2>3. \A j \in 1 .. Len(level') : Fits(level'[j], Len(levels) + 1)
    BY <1>3, <2>1, <2>2
  <2>4. ASSUME NEW j \in 1 .. Len(ready')
        PROVE  IF j <= level_size - Len(level')
                 THEN Fits(ready'[j], Len(levels) + 1)
                 ELSE Elems(nodes[ready'[j]]) \cap Elems(level') # {}
    <3>1. j + 1 \in 1 .. Len(ready) /\ ready'[j] = ready[j + 1]
      BY <1>1, <1>5, <2>1
    <3>2. j <= level_size - Len(level') <=> j + 1 <= level_size - Len(level)
      BY <1>1, <2>1, <1>5
    <3> QED BY <1>3, <1>6, <3>1, <3>2
  <2> QED BY <1>1, <1>3, <1>5, <1>7, <2>1, <2>3, <2>4 DEF LevelInv
<1>14. QueueInv'
  <2>1. Distinct(level')
    <3>1. Head(ready) \notin Elems(level)
      BY <1>8 DEF Done
    <3> QED BY <1>1, <1>4, <1>5, <3>1, DistinctAppend
  <2>2. /\ Elems(ready') \cap Done' = {}
        /\ Elems(level') \cap Before(Len(levels) + 1) = {}
    BY <1>1, <1>4, <1>5, <1>6, <1>8 DEF Done, SortInv, QueueInv
  <2>3. level' # <<>> /\ node' = level'[Len(level')]
    BY <1>1, <1>5
  <2>4. Elems(ready') \cup Done' = Elems(ready) \cup Done
    BY <1>1, <1>5, <1>8
  <2>5. /\ in_degree' \in [NodeIds' -> Nat]
        /\ \A i \in NodeIds' : in_degree'[i] = Cardinality(Unmet(i)')
        /\ \A i \in NodeIds' : i \in Elems(ready') \cup Done' <=> in_degree'[i] = 0
    BY <1>1, <1>2, <1>9, <2>4 DEF SortInv, QueueInv, Sorting
  <2> QED BY <1>1, <1>5, <1>7, <1>10, <2>1, <2>2, <2>3, <2>5 DEF QueueInv
<1> QED BY <1>2, <1>11, <1>12, <1>13, <1>14 DEF SortInv

LEMMA RelaxSort == SortInv /\ Relax => SortInv'
<1> SUFFICES ASSUME SortInv, Relax PROVE SortInv'
  OBVIOUS
<1>1. /\ phase = "relax" /\ phase' = "relax" /\ level \in Seq(NodeIds) /\ scan \in NodeIds
      /\ ready \in Seq(NodeIds) /\ level_size \in Nat /\ levels \in Seq(Seq(NodeIds))
      /\ in_degree' = [in_degree EXCEPT ![scan] = Decrement(scan)]
      /\ ready' = IF Times(scan) > 0 /\ Decrement(scan) = 0 THEN Append(ready, scan) ELSE ready
      /\ scan' = scan + 1 /\ processed' = processed /\ processed \in Nat
      /\ nodes' = nodes /\ levels' = levels /\ level' = level /\ level_size' = level_size /\ node' = node
  BY DEF SortInv, SortTypes, Relax
<1>2. NodesInv' /\ NodeIds' = NodeIds /\ Len(nodes) \in Nat /\ NodeIds \subseteq Nat /\ Done' = Done
  BY <1>1 DEF SortInv, NodesInv, NodeIds, Done, Before, Elems
<1>3. /\ \A k : Before(k)' = Before(k)
      /\ \A n, k : Fits(n, k)' <=> Fits(n, k)
      /\ Before(Len(levels) + 1)' = Before(Len(levels) + 1)
  BY <1>1 DEF Fits, Before
<1>n. PICK n \in NodeIds : n = scan
  BY <1>1
<1>4. /\ in_degree \in [NodeIds -> Nat] /\ Distinct(ready) /\ Distinct(level)
      /\ \A i \in NodeIds : in_degree[i] = Cardinality(Unmet(i))
      /\ \A i \in NodeIds : i \in Elems(ready) \cup Done <=> in_degree[i] = 0
      /\ Elems(ready) \cap Done = {} /\ level # <<>> /\ node = level[Len(level)]
  BY <1>1 DEF SortInv, QueueInv, Sorting
<1>5. node \in Elems(level) /\ node \in Done
  BY <1>1, <1>4 DEF Elems, Done
\* The count of the node at hand.
<1>6. /\ Times(n) \in Nat /\ Decrement(n) \in Nat
      /\ Decrement(n) = Cardinality(Unmet(n)')
      /\ Times(n) > 0 => in_degree[n] > 0 /\ node \in Elems(nodes[n])
  <2> DEFINE T == {p \in 1 .. Len(nodes[n]) : nodes[n][p] = node}
  <2>1. Pending(n) = {node} /\ Pending(n)' = {}
    BY <1>1, <1>2, <1>n DEF Pending
  <2>2. Unmet(n)' = Unmet(n) \ T /\ Unmet(n) \cap T = T
    BY <1>1, <1>2, <1>5, <2>1 DEF Unmet
  <2>3. IsFiniteSet(Unmet(n)) /\ IsFiniteSet(T)
    <3>1. IsFiniteSet(1 .. Len(nodes[n]))
      BY FS_Interval DEF SortInv, NodesInv, NodeIds
    <3> QED BY <3>1, FS_Subset DEF Unmet
  <2>4. Times(n) = Cardinality(T)
    BY DEF Times
  <2> HIDE DEF T
  <2>5. /\ Cardinality(T) \in Nat /\ IsFiniteSet(Unmet(n)')
        /\ Cardinality(Unmet(n)') = Cardinality(Unmet(n)) - Cardinality(T)
        /\ Cardinality(Unmet(n)') \in Nat
    BY <2>2, <2>3, FS_Difference, FS_CardinalityType
  <2>6. Times(n) > 0 => node \in Elems(nodes[n])
    <3> SUFFICES ASSUME Times(n) > 0 PROVE node \in Elems(nodes[n])
      OBVIOUS
    <3>1. T # {}
      BY <2>4, <2>5, FS_EmptySet
    <3> QED BY <3>1 DEF T, Elems
  <2> QED BY <1>1, <1>4, <2>4, <2>5, <2>6 DEF Decrement
\* The others are as they were.
<1>7. \A i \in NodeIds : i # n => Unmet(i)' = Unmet(i) /\ in_degree'[i] = in_degree[i]
  <2> TAKE i \in NodeIds
  <2>1. i # n => Pending(i)' = Pending(i)
    BY <1>1, <1>2, <1>n, SMTT(20) DEF Pending
  <2> QED BY <1>1, <1>2, <1>4, <1>n, <2>1 DEF Unmet
<1>8. in_degree'[n] = Decrement(n) /\ in_degree' \in [NodeIds -> Nat]
  BY <1>1, <1>4, <1>6, <1>n
<1>9. \A i \in NodeIds : in_degree'[i] = Cardinality(Unmet(i)')
  BY <1>4, <1>6, <1>7, <1>8
<1>10. CASE Times(n) > 0 /\ Decrement(n) = 0
  <2>1. ready' = Append(ready, n) /\ n \notin Elems(ready) /\ n \notin Done
    BY <1>1, <1>4, <1>6, <1>10, <1>n
  <2>2. ready' \in Seq(NodeIds) /\ Distinct(ready') /\ Elems(ready') = Elems(ready) \cup {n}
    BY <1>1, <1>4, <2>1, DistinctAppend, ElemsAppend
  <2>3. SortTypes'
    BY <1>1, <1>2, <2>2 DEF SortInv, SortTypes, Sorting
  <2>4. LevelsInv'
    BY <1>1, <1>2, <1>3 DEF SortInv, LevelsInv
  <2>5. LevelInv'
    <3>1. /\ Len(ready') = Len(ready) + 1 /\ Len(ready) \in Nat /\ Len(level) \in Nat
          /\ \A j \in 1 .. Len(ready) : ready'[j] = ready[j]
          /\ ready'[Len(ready) + 1] = n
      BY <1>1, <2>1
    <3>2. /\ Len(level) <= level_size /\ level_size <= Len(level) + Len(ready)
          /\ \A j \in 1 .. Len(level) : Fits(level[j], Len(levels) + 1)
          /\ \A j \in 1 .. Len(ready) :
               IF j <= level_size - Len(level)
                 THEN Fits(ready[j], Len(levels) + 1)
                 ELSE Elems(nodes[ready[j]]) \cap Elems(level) # {}
      BY <1>1 DEF SortInv, LevelInv
    <3>3. Elems(nodes[n]) \cap Elems(level) # {} /\ ~(Len(ready) + 1 <= level_size - Len(level))
      BY <1>1, <1>5, <1>6, <1>10, <3>1, <3>2
    <3>4. ASSUME NEW j \in 1 .. Len(ready')
          PROVE  IF j <= level_size - Len(level)
                   THEN Fits(ready'[j], Len(levels) + 1)
                   ELSE Elems(nodes[ready'[j]]) \cap Elems(level) # {}
      <4>1. CASE j \in 1 .. Len(ready)
        BY <3>1, <3>2, <4>1
      <4>2. CASE j = Len(ready) + 1
        BY <3>1, <3>3, <4>2
      <4> QED BY <3>1, <4>1, <4>2
    <3> QED BY <1>1, <1>3, <3>1, <3>2, <3>4, SMTT(20) DEF LevelInv
  <2>6. \A i \in NodeIds : i \in Elems(ready') \cup Done' <=> in_degree'[i] = 0
    BY <1>2, <1>4, <1>7, <1>8, <1>10, <2>2
  <2>7. QueueInv'
    BY <1>1, <1>2, <1>3, <1>4, <1>8, <1>9, <2>1, <2>2, <2>6, SMTT(20) DEF SortInv, QueueInv, Sorting
  <2> QED BY <1>2, <2>3, <2>4, <2>5, <2>7 DEF SortInv
<1>11. CASE ~(Times(n) > 0 /\ Decrement(n) = 0)
  <2>1. ready' = ready
    BY <1>1, <1>11, <1>n
  <2>2. SortTypes'
    BY <1>1, <1>2, <2>1 DEF SortInv, SortTypes, Sorting
  <2>3. LevelsInv'
    BY <1>1, <1>2, <1>3 DEF SortInv, LevelsInv
  <2>4. LevelInv'
    BY <1>1, <1>3, <2>1 DEF SortInv, LevelInv
  <2>5. in_degree'[n] = 0 <=> in_degree[n] = 0
    BY <1>4, <1>6, <1>8, <1>11, SMTT(20) DEF Decrement
  <2>6. \A i \in NodeIds : i \in Elems(ready') \cup Done' <=> in_degree'[i] = 0
    BY <1>2, <1>4, <1>7, <2>1, <2>5
  <2>7. QueueInv'
    BY <1>1, <1>2, <1>3, <1>4, <1>8, <1>9, <2>1, <2>6 DEF SortInv, QueueInv, Sorting
  <2> QED BY <1>2, <2>2, <2>3, <2>4, <2>7 DEF SortInv
<1> QED BY <1>10, <1>11

LEMMA RelaxedSort == SortInv /\ Relaxed => SortInv'
<1> SUFFICES ASSUME SortInv, Relaxed PROVE SortInv'
  OBVIOUS
<1>1. /\ phase = "relax" /\ phase' = "pop" /\ scan > Len(nodes) /\ scan \in Nat
      /\ nodes' = nodes /\ in_degree' = in_degree /\ ready' = ready /\ levels' = levels
      /\ processed' = processed /\ level' = level /\ level_size' = level_size /\ scan' = scan
  BY DEF SortInv, SortTypes, Relaxed, GotoPhase, sort
<1>2. NodesInv' /\ NodeIds' = NodeIds /\ Len(nodes) \in Nat /\ Done' = Done
  BY <1>1 DEF SortInv, NodesInv, NodeIds, Done, Before, Elems
<1>3. \A i \in NodeIds : Unmet(i)' = Unmet(i)
  <2> TAKE i \in NodeIds
  <2>1. Pending(i)' = {} /\ Pending(i) = {}
    BY <1>1, <1>2 DEF Pending, NodeIds
  <2> QED BY <1>1, <1>2, <2>1 DEF Unmet
<1>4. /\ \A k : Before(k)' = Before(k)
      /\ \A n, k : Fits(n, k)' <=> Fits(n, k)
      /\ Before(Len(levels) + 1)' = Before(Len(levels) + 1)
  BY <1>1 DEF Fits, Before
<1>5. SortTypes'
  BY <1>1, <1>2 DEF SortInv, SortTypes, Sorting
<1>6. LevelsInv' /\ LevelInv'
  BY <1>1, <1>2, <1>4 DEF SortInv, LevelsInv, LevelInv
<1>7. QueueInv'
  BY <1>1, <1>2, <1>3, <1>4, SMTT(20) DEF SortInv, QueueInv, Distinct, Elems, Sorting
<1> QED BY <1>2, <1>5, <1>6, <1>7 DEF SortInv

LEMMA LevelDoneSort == SortInv /\ LevelDone => SortInv'
<1> SUFFICES ASSUME SortInv, LevelDone PROVE SortInv'
  OBVIOUS
<1>1. /\ phase = "pop" /\ phase' = "level" /\ Len(level) = level_size
      /\ levels' = Append(levels, level) /\ level' = <<>>
      /\ levels \in Seq(Seq(NodeIds)) /\ level \in Seq(NodeIds) /\ ready \in Seq(NodeIds)
      /\ nodes' = nodes /\ in_degree' = in_degree /\ ready' = ready
      /\ processed' = processed /\ level_size' = level_size /\ scan' = scan
  BY DEF SortInv, SortTypes, LevelDone, GotoPhase
<1>2. NodesInv' /\ NodeIds' = NodeIds /\ Len(nodes) \in Nat
  BY <1>1, SMTT(20) DEF SortInv, NodesInv, NodeIds
<1>3. /\ Len(levels) \in Nat /\ Len(levels') = Len(levels) + 1 /\ levels' \in Seq(Seq(NodeIds))
      /\ \A k \in 1 .. Len(levels) : levels'[k] = levels[k]
      /\ levels'[Len(levels) + 1] = level
  BY <1>1
<1>4. /\ \A k \in 1 .. Len(levels) + 1 : Before(k)' = Before(k)
      /\ Before(Len(levels) + 1)' = Before(Len(levels) + 1) \cup Elems(level)
  BY <1>1, BeforeStep
<1>5. Done' = Done
  BY <1>1, <1>4 DEF Done, Elems
<1>6. \A i : Unmet(i)' = Unmet(i)
  BY <1>1, <1>5 DEF Unmet, Pending
<1>7. \A k \in 1 .. Len(levels) + 1 : \A n : Fits(n, k)' <=> Fits(n, k)
  <2> TAKE k \in 1 .. Len(levels) + 1
  <2> TAKE n
  <2>1. k > 1 => k - 1 \in 1 .. Len(levels)
    BY <1>3
  <2>2. k > 1 => levels'[k - 1] = levels[k - 1]
    BY <1>3, <2>1
  <2> QED BY <1>1, <1>4, <2>2 DEF Fits
<1>8. SortTypes'
  BY <1>1, <1>2, <1>3 DEF SortInv, SortTypes, Sorting
<1>9. LevelsInv'
  <2>1. ASSUME NEW k \in 1 .. Len(levels')
        PROVE  Distinct(levels'[k]) /\ \A n \in Elems(levels'[k]) : n \notin Before(k)' /\ Fits(n, k)'
    <3>1. CASE k \in 1 .. Len(levels)
      <4>1. k \in 1 .. Len(levels) + 1 /\ levels'[k] = levels[k]
        BY <1>3, <3>1
      <4> QED BY <1>4, <1>7, <3>1, <4>1 DEF SortInv, LevelsInv
    <3>2. CASE k = Len(levels) + 1
      <4>1. k \in 1 .. Len(levels) + 1 /\ levels'[k] = level
        BY <1>3, <3>2
      <4>2. Distinct(level) /\ \A n \in Elems(level) : n \notin Before(k) /\ Fits(n, k)
        BY <1>1, <3>2 DEF SortInv, QueueInv, LevelInv, Elems
      <4> QED BY <1>4, <1>7, <4>1, <4>2
    <3> QED BY <1>3, <3>1, <3>2
  <2> QED BY <1>1, <2>1 DEF LevelsInv
<1>10. LevelInv'
  <2>1. \A j \in 1 .. Len(ready) : Elems(nodes[ready[j]]) \cap Elems(level) # {}
    <3> TAKE j \in 1 .. Len(ready)
    <3>1. ~(j <= level_size - Len(level))
      BY <1>1
    <3> QED BY <1>1, <3>1 DEF SortInv, LevelInv
  <2> QED BY <1>1, <1>3, <2>1 DEF LevelInv
<1>11. QueueInv'
  <2>1. Distinct(level)' /\ Elems(level)' = {}
    BY <1>1 DEF Distinct, Elems
  <2> QED BY <1>1, <1>2, <1>5, <1>6, <2>1 DEF SortInv, QueueInv, Sorting
<1> QED BY <1>2, <1>8, <1>9, <1>10, <1>11 DEF SortInv

\* When the queue is empty every node has been taken off it: the least one
\* that has not would have no dependency left.
LEMMA AllSorted ==
  ASSUME SortInv, phase = "level", ready = <<>>
  PROVE  Done = NodeIds /\ processed = Len(nodes) /\ Before(Len(levels) + 1) = NodeIds
<1>1. /\ NodesInv /\ SortTypes /\ level = <<>> /\ Elems(ready) = {} /\ Elems(level) = {}
      /\ \A i \in NodeIds : i \in Done <=> in_degree[i] = 0
      /\ \A i \in NodeIds : in_degree[i] = Cardinality(Unmet(i))
  <2>1. NodesInv /\ SortTypes /\ QueueInv
    BY DEF SortInv
  <2>2. level = <<>> /\ Elems(ready) = {}
    BY <2>1 DEF SortTypes, Elems
  <2>3. Elems(level) = {}
    BY <2>2 DEF Elems
  <2>4. /\ \A i \in NodeIds : i \in Elems(ready) \cup Done <=> in_degree[i] = 0
        /\ \A i \in NodeIds : in_degree[i] = Cardinality(Unmet(i))
    BY <2>1 DEF QueueInv, Sorting
  <2> QED
    BY <2>1, <2>2, <2>3, <2>4
<1>0. Len(nodes) \in Nat
  BY <1>1 DEF NodesInv
<1>2. Done \subseteq NodeIds
  BY <1>1, DoneInNodes
<1>3. ASSUME NodeIds \ Done # {}
      PROVE  FALSE
  <2>1. NodeIds \ Done \subseteq Nat
    BY DEF NodeIds
  <2>2. PICK n \in NodeIds \ Done : \A y \in NodeIds \ Done : n <= y
    BY <1>3, <2>1, LeastNumber
  <2>3. \A p \in 1 .. Len(nodes[n]) : nodes[n][p] \in Done
    <3> TAKE p \in 1 .. Len(nodes[n])
    <3>1. n \in NodeIds
      BY <2>2
    <3>2. PICK d \in 1 .. n - 1 : d = nodes[n][p]
      BY <1>1, <3>1 DEF NodesInv
    <3>3. d \in NodeIds /\ ~(n <= d)
      BY <1>0, <3>1 DEF NodeIds
    <3> QED BY <2>2, <3>2, <3>3
  <2>4. Unmet(n) = {}
    BY <2>3 DEF Unmet, Pending
  <2>5. in_degree[n] = 0
    BY <1>1, <2>4, FS_EmptySet
  <2> QED BY <1>1, <2>2, <2>5
<1>4. Done = NodeIds
  BY <1>2, <1>3
<1>5. 1 \in Int /\ Len(nodes) \in Int
  BY <1>0
<1>6. Cardinality(1 .. Len(nodes)) = IF 1 > Len(nodes) THEN 0 ELSE Len(nodes) - 1 + 1
  BY <1>5, FS_Interval, Zenon
<1>7. Cardinality(NodeIds) = Len(nodes)
  BY <1>0, <1>6 DEF NodeIds
<1> QED BY <1>1, <1>4, <1>7 DEF SortInv, QueueInv, Done

LEMMA SortedSort == SortInv /\ Sorted => SortInv'
<1> SUFFICES ASSUME SortInv, Sorted PROVE SortInv'
  OBVIOUS
<1>1. /\ phase = "level" /\ ready = <<>>
      /\ nodes' = nodes /\ in_degree' = in_degree /\ ready' = ready /\ levels' = levels
      /\ processed' = processed /\ level' = level /\ level_size' = level_size /\ scan' = scan
  BY DEF Sorted, sort
<1>2. phase' = "run" /\ Before(Len(levels) + 1) = NodeIds
  BY <1>1, AllSorted DEF Sorted
<1>3. NodesInv' /\ NodeIds' = NodeIds /\ Done' = Done
  BY <1>1 DEF SortInv, NodesInv, NodeIds, Done, Before, Elems
<1>4. /\ \A k : Before(k)' = Before(k)
      /\ \A n, k : Fits(n, k)' <=> Fits(n, k)
      /\ Before(Len(levels) + 1)' = Before(Len(levels) + 1)
  BY <1>1 DEF Fits, Before
<1>5. SortTypes'
  BY <1>1, <1>2, <1>3 DEF SortInv, SortTypes, Sorting
<1>6. LevelsInv' /\ LevelInv'
  BY <1>1, <1>2, <1>3, <1>4 DEF SortInv, LevelsInv, LevelInv
<1>7. QueueInv'
  BY <1>1, <1>2, <1>3, <1>4 DEF SortInv, QueueInv, Distinct, Elems, Sorting
<1> QED BY <1>3, <1>5, <1>6, <1>7 DEF SortInv

-----------------------------------------------------------------------------
LEMMA NextSort == SortInv /\ [Next]_vars => SortInv'
<1> SUFFICES ASSUME SortInv, [Next]_vars PROVE SortInv'
  OBVIOUS
<1>1. ASSUME UNCHANGED dag PROVE SortInv'
  BY <1>1, SortUnchanged DEF dag
<1>2. CASE Levels
  BY <1>2, SortUnchanged DEF Levels, ExecuteLevel, StoreResults, Finish, GotoPhase, sort
<1>3. CASE Sort
  BY <1>3, ExecuteSort, FillSort, FilledSort, NextLevelSort, PopSort, RelaxSort, RelaxedSort,
     LevelDoneSort, SortedSort DEF Sort
<1>4. CASE \E deps \in DepSeqs : add_node(deps)
  BY <1>4, AddNodeSort
<1>5. CASE Quiet \/ UNCHANGED vars
  BY <1>1, <1>5 DEF Quiet, vars
<1> QED BY <1>1, <1>2, <1>3, <1>4, <1>5 DEF Next

(***************************************************************************)
(* For every DAG: Kahn's algorithm as coded in topological_sort() puts     *)
(* each node into one level, right after the last of its dependencies, and *)
(* never finds a cycle (task_dag.h).                                       *)
(***************************************************************************)
THEOREM SoundLevels == Spec => []LevelsSound
<1>1. SortInv => LevelsSound
  BY DEF SortInv, SortTypes, LevelsInv, LevelsSound, Fits, Distinct, Sorting
<1> QED BY InitSort, NextSort, <1>1, PTL DEF Spec

-----------------------------------------------------------------------------
Kinds == {"value", "error", "timeout", "unknown"}
Results == [call : Calls, kind : Kinds]
Statuses == {"new", "queued", "running"} \cup Ends

Waiting == {"poll", "clock", "inline", "foreign", "stuck"}

BatchTypes ==
  /\ pc \in {"idle", "submit", "collect", "returned"} \cup Waiting
  /\ calls \in Seq(Calls) /\ Distinct(calls)
  /\ next \in Nat \ {0} /\ next <= Len(calls) + 1
  /\ deque \in Seq(Calls) /\ Distinct(deque)
  /\ results \in Seq(Results) /\ ready_at \subseteq Calls
  /\ status \in [Calls -> Statuses]

\* What is queued has not been taken up, what is still to be submitted is
\* new, and a handler that was complete stays so.
HandlersInv ==
  /\ \A i \in 1 .. Len(deque) : status[deque[i]] = "queued"
  /\ pc = "submit" => \A j \in 1 .. Len(calls) : j >= next => status[calls[j]] = "new"
  /\ \A c \in ready_at : Complete(c)

\* How far the collection is.  The clock is read only for a call that was
\* not complete when ready_ was read, hence not when its wait began.
Progress ==
  /\ pc \in {"idle", "submit"} => results = <<>>
  /\ pc \in {"collect"} \cup Waiting => Len(results) = next - 1
  /\ pc \in Waiting => next <= Len(calls) /\ calls[next] \notin unknown
  /\ pc = "clock" => calls[next] \notin ready_at
  /\ pc = "returned" => Len(results) = Len(calls)

ResultOf(r, c) ==
  /\ r.call = c
  /\ r.kind = "value" => status[c] = "done"
  /\ r.kind = "error" => status[c] = "threw"
  /\ r.kind = "unknown" <=> c \in unknown
  /\ r.call \in ready_at => r.kind # "timeout"

ResultsInv ==
  /\ Len(results) <= Len(calls)
  /\ \A i \in 1 .. Len(results) : ResultOf(results[i], calls[i])

BatchInv == BatchTypes /\ HandlersInv /\ Progress /\ ResultsInv

\* The nodes that have been given to a batch, and what is stored of them.
Given == Before(IF phase = "batch" THEN current + 1 ELSE current)

RunInv ==
  /\ Len(nodes) <= MaxCalls
  /\ current \in Nat \ {0} /\ all_results \in Seq(Calls) /\ inputs \in Seq(SUBSET Calls)
  /\ \A c \in Calls : status[c] # "new" => c \in Given
  /\ phase \in {"build", "fill"} \cup Sorting => pc = "idle" /\ current = 1
  /\ phase \in {"run", "returned"} => pc = "idle"
  /\ phase = "batch" =>
       pc # "idle" /\ current <= Len(levels) /\ calls = levels[current]
  /\ Stored = Before(current)
  /\ Len(inputs) = IF phase = "batch" THEN current ELSE current - 1
  /\ \A k \in 1 .. Len(inputs) : inputs[k] = Before(k)
  /\ current <= Len(levels) + 1

IInv == SortInv /\ BatchInv /\ RunInv

-----------------------------------------------------------------------------
\* One batch.

LEMMA LaunchBatch ==
  ASSUME BatchInv, Submit \/ SubmitUnknown \/ Launched
  PROVE  BatchInv'
<1>1. /\ pc = "submit" /\ results = <<>> /\ results' = results /\ calls' = calls
      /\ unknown' = unknown /\ ready_at' = ready_at
  BY DEF BatchInv, Progress, Submit, SubmitUnknown, Launched, Goto
<1>2. /\ calls \in Seq(Calls) /\ Len(calls) \in Nat /\ next \in Nat \ {0}
      /\ deque \in Seq(Calls) /\ Len(deque) \in Nat /\ status \in [Calls -> Statuses]
      /\ \A j \in 1 .. Len(calls) : j >= next => status[calls[j]] = "new"
  BY <1>1 DEF BatchInv, BatchTypes, HandlersInv
<1>3. ResultsInv'
  BY <1>1 DEF BatchInv, ResultsInv
<1>4. CASE Submit
  <2>1. /\ pc' = "submit" /\ next <= Len(calls) /\ next' = next + 1
        /\ deque' = Append(deque, calls[next])
        /\ status' = [status EXCEPT ![calls[next]] = "queued"]
    BY <1>1, <1>4 DEF Submit, CallsLeft, call
  <2>2. next \in 1 .. Len(calls) /\ calls[next] \in Calls /\ status[calls[next]] = "new"
    BY <1>2, <2>1
  <2>3. \A i \in 1 .. Len(deque) : deque[i] # calls[next] /\ deque[i] \in Calls
    BY <1>2, <2>2 DEF BatchInv, HandlersInv
  <2>4. deque' \in Seq(Calls) /\ Distinct(deque')
    BY <1>2, <2>1, <2>2, <2>3, DistinctAppend DEF BatchInv, BatchTypes, Elems
  <2>5. BatchTypes'
    BY <1>1, <1>2, <2>1, <2>2, <2>4 DEF BatchInv, BatchTypes, Statuses, Distinct
  <2>6. \A i \in 1 .. Len(deque') : status'[deque'[i]] = "queued"
    <3>1. /\ Len(deque') = Len(deque) + 1 /\ deque'[Len(deque) + 1] = calls[next]
          /\ \A i \in 1 .. Len(deque) : deque'[i] = deque[i]
      BY <1>2, <2>1, <2>2
    <3>2. ASSUME NEW i \in 1 .. Len(deque) PROVE status'[deque'[i]] = "queued"
      BY <1>2, <2>1, <2>3, <3>1 DEF BatchInv, HandlersInv
    <3>3. status'[calls[next]] = "queued"
      BY <1>2, <2>1, <2>2
    <3> QED BY <1>2, <3>1, <3>2, <3>3
  <2>7. \A j \in 1 .. Len(calls) : j >= next + 1 => status'[calls[j]] = "new"
    <3> SUFFICES ASSUME NEW j \in 1 .. Len(calls), j >= next + 1 PROVE status'[calls[j]] = "new"
      OBVIOUS
    <3>1. calls[j] # calls[next] /\ calls[j] \in Calls /\ status[calls[j]] = "new"
      BY <1>2, <2>2 DEF BatchInv, BatchTypes, Distinct
    <3> QED BY <1>2, <2>1, <3>1
  <2>8. \A c \in ready_at : Complete(c)'
    <3> SUFFICES ASSUME NEW c \in ready_at PROVE Complete(c)'
      OBVIOUS
    <3>1. c \in Calls /\ Complete(c) /\ c # calls[next]
      BY <2>2 DEF BatchInv, BatchTypes, HandlersInv, Complete
    <3> QED BY <1>2, <2>1, <3>1 DEF Complete
  <2>9. HandlersInv'
    BY <1>1, <2>1, <2>6, <2>7, <2>8 DEF HandlersInv
  <2> QED BY <1>1, <1>3, <2>1, <2>5, <2>9 DEF BatchInv, Progress, Waiting
<1>5. CASE SubmitUnknown
  <2>1. pc' = "submit" /\ next <= Len(calls) /\ next' = next + 1 /\ deque' = deque /\ status' = status
    BY <1>1, <1>5 DEF SubmitUnknown, CallsLeft
  <2>2. BatchTypes' /\ HandlersInv'
    BY <1>1, <1>2, <2>1 DEF BatchInv, BatchTypes, HandlersInv, Distinct, Complete
  <2> QED BY <1>1, <1>3, <2>1, <2>2 DEF BatchInv, Progress, Waiting
<1>6. CASE Launched
  <2>1. pc' = "collect" /\ next' = 1 /\ deque' = deque /\ status' = status
    BY <1>6 DEF Launched, Goto
  <2>2. BatchTypes' /\ HandlersInv'
    BY <1>1, <1>2, <2>1 DEF BatchInv, BatchTypes, HandlersInv, Distinct, Complete
  <2> QED BY <1>1, <1>3, <2>1, <2>2 DEF BatchInv, Progress, Waiting
<1> QED BY <1>4, <1>5, <1>6

\* A result is noted.
LEMMA CollectBatch ==
  ASSUME BatchInv, NEW kind \in Kinds, CallsLeft, pc \in {"collect", "poll", "clock"},
         kind = "value" => status[call] = "done",
         kind = "error" => status[call] = "threw",
         kind = "unknown" <=> call \in unknown,
         call \in ready_at => kind # "timeout",
         pc' = "collect", next' = next + 1,
         results' = Append(results, [call |-> call, kind |-> kind]),
         UNCHANGED <<unknown, calls, deque, status, ready_at>>
  PROVE  BatchInv'
<1>1. /\ calls \in Seq(Calls) /\ Len(calls) \in Nat /\ next \in 1 .. Len(calls)
      /\ call = calls[next] /\ call \in Calls
      /\ results \in Seq(Results) /\ Len(results) = next - 1
  BY DEF BatchInv, BatchTypes, Progress, CallsLeft, call, Waiting
<1>2. [call |-> call, kind |-> kind] \in Results
  BY <1>1 DEF Results
<1>3. /\ results' \in Seq(Results) /\ Len(results') = next
      /\ \A i \in 1 .. Len(results) : results'[i] = results[i]
      /\ results'[next] = [call |-> call, kind |-> kind]
  BY <1>1, <1>2
<1>4. BatchTypes' /\ HandlersInv'
  <2>1. BatchTypes /\ HandlersInv
    BY DEF BatchInv
  <2>2. next' \in Nat \ {0} /\ next' <= Len(calls) + 1
    BY <1>1
  <2>3. BatchTypes'
    BY <1>3, <2>1, <2>2 DEF BatchTypes, Distinct
  <2>4. HandlersInv'
    BY <2>1 DEF HandlersInv, Complete
  <2> QED BY <2>3, <2>4
<1>5. ResultsInv'
  <2>1. \A r, c : ResultOf(r, c)' <=> ResultOf(r, c)
    BY DEF ResultOf
  <2>2. ResultOf(results'[next], calls[next])
    BY <1>1, <1>3 DEF ResultOf
  <2>3. \A i \in 1 .. Len(results) : ResultOf(results'[i], calls[i])
    BY <1>3 DEF BatchInv, ResultsInv
  <2>4. \A i \in 1 .. Len(results') : ResultOf(results'[i], calls[i])
    BY <1>1, <1>3, <2>2, <2>3
  <2>5. Len(results') <= Len(calls) /\ calls' = calls
    BY <1>1, <1>3
  <2> QED BY <2>1, <2>4, <2>5 DEF ResultsInv
<1>6. Progress'
  BY <1>1, <1>3 DEF Progress, Waiting
<1> QED BY <1>4, <1>5, <1>6 DEF BatchInv

LEMMA ResultBatch ==
  ASSUME BatchInv, CollectUnknown \/ Value \/ Error \/ Timeout
  PROVE  BatchInv'
<1>1. CASE CollectUnknown
  <2>1. call \in ready_at => "unknown" # "timeout"
    OBVIOUS
  <2> QED BY <1>1, <2>1, CollectBatch DEF CollectUnknown, NoteUnknown, Kinds
<1>2. ASSUME pc \in {"poll", "clock"} PROVE CallsLeft /\ call \notin unknown
  BY <1>2 DEF BatchInv, Progress, CallsLeft, call, Waiting
<1>3. CASE Value
  BY <1>2, <1>3, CollectBatch DEF Value, Collect, Goto, Kinds
<1>4. CASE Error
  BY <1>2, <1>4, CollectBatch DEF Error, Collect, Goto, Kinds
<1>5. CASE Timeout
  <2>1. pc = "clock" /\ call \notin ready_at
    BY <1>5 DEF Timeout, Collect, Goto, BatchInv, Progress, call
  <2> QED BY <1>2, <1>5, <2>1, CollectBatch DEF Timeout, Collect, Goto, Kinds
<1> QED BY <1>1, <1>3, <1>4, <1>5

LEMMA WaitBatch ==
  ASSUME BatchInv,
         \/ BeginWait \/ Expire \/ NotReady \/ InlineReturns \/ InlineForeign \/ ForeignReturns
         \/ ForeignHangs \/ Spin \/ Return
  PROVE  BatchInv'
<1>1. /\ calls \in Seq(Calls) /\ Len(calls) \in Nat /\ next \in Nat \ {0} /\ next <= Len(calls) + 1
      /\ results \in Seq(Results) /\ Len(results) \in Nat
  BY DEF BatchInv, BatchTypes
<1>2. CASE BeginWait
  <2>1. /\ pc = "collect" /\ pc' = "poll" /\ next <= Len(calls) /\ call = calls[next]
        /\ call \in Calls /\ call \notin unknown /\ Len(results) = next - 1
        /\ ready_at' = IF Complete(call) THEN ready_at \cup {call} ELSE ready_at
        /\ unknown' = unknown /\ calls' = calls /\ next' = next /\ deque' = deque
        /\ status' = status /\ results' = results
    BY <1>1, <1>2 DEF BeginWait, Goto, CallsLeft, call, BatchInv, Progress
  <2>2. BatchTypes' /\ HandlersInv'
    BY <1>1, <2>1 DEF BatchInv, BatchTypes, HandlersInv, Distinct, Complete, Waiting
  <2>3. \A i \in 1 .. Len(results) : calls[i] # call
    BY <1>1, <2>1 DEF BatchInv, BatchTypes, Distinct
  <2>4. ResultsInv'
    BY <2>1, <2>3 DEF BatchInv, ResultsInv, ResultOf
  <2> QED BY <2>1, <2>2, <2>4 DEF BatchInv, Progress, Waiting
<1>3. ASSUME UNCHANGED <<unknown, calls, next, deque, status, results, ready_at>>,
             pc' # "submit", Progress',
             pc' \in {"collect", "returned"} \cup Waiting
      PROVE  BatchInv'
  <2>1. BatchTypes' /\ HandlersInv'
    BY <1>3 DEF BatchInv, BatchTypes, HandlersInv, Distinct, Complete
  <2>2. ResultsInv'
    BY <1>3 DEF BatchInv, ResultsInv, ResultOf
  <2> QED BY <1>3, <2>1, <2>2 DEF BatchInv
<1>4. CASE Expire
  BY <1>3, <1>4 DEF Expire, BatchInv, Progress, Waiting
<1>5. ASSUME NEW from \in Waiting, NEW to \in Waiting, pc = from, pc' = to,
             to = "clock" => calls[next] \notin ready_at,
             UNCHANGED <<unknown, calls, next, deque, status, results, ready_at>>
      PROVE  BatchInv'
  BY <1>3, <1>5 DEF BatchInv, Progress, Waiting
<1>6. CASE NotReady
  <2>1. calls[next] \notin ready_at
    BY <1>6 DEF NotReady, TakesValue, call, BatchInv, HandlersInv
  <2> QED BY <1>5, <1>6, <2>1 DEF NotReady, Moves, Goto, Waiting
<1>7. CASE InlineReturns \/ InlineForeign \/ ForeignReturns \/ ForeignHangs \/ Spin
  BY <1>5, <1>7
     DEF InlineReturns, InlineForeign, ForeignReturns, ForeignHangs, Spin, Moves, Goto, Waiting
<1>8. CASE Return
  <2>1. Len(results) = Len(calls)
    BY <1>1, <1>8 DEF Return, Goto, CallsLeft, BatchInv, Progress
  <2> QED BY <1>3, <1>8, <2>1 DEF Return, Goto, BatchInv, Progress, Waiting
<1> QED BY <1>2, <1>4, <1>6, <1>7, <1>8

\* The status of handlers that are not complete, and not to be submitted,
\* changes.
LEMMA StatusBatch ==
  ASSUME BatchInv, status' \in [Calls -> Statuses],
         \A c \in Calls : status[c] \in {"new", "done", "threw"} => status'[c] = status[c],
         deque' \in Seq(Calls), Distinct(deque'),
         \A i \in 1 .. Len(deque') : status'[deque'[i]] = "queued",
         pc' = pc \/ (pc = "clock" /\ pc' = "inline"),
         UNCHANGED <<unknown, calls, next, results, ready_at>>
  PROVE  BatchInv'
<1>1. calls \in Seq(Calls) /\ Len(calls) \in Nat /\ ready_at \subseteq Calls /\ Len(results) \in Nat
  BY DEF BatchInv, BatchTypes
<1>2. BatchTypes'
  BY DEF BatchInv, BatchTypes, Distinct, Waiting
<1>3. HandlersInv'
  <2>1. \A c \in ready_at : Complete(c)'
    BY <1>1 DEF BatchInv, HandlersInv, Complete
  <2>2. pc' = "submit" => \A j \in 1 .. Len(calls) : j >= next => status'[calls[j]] = "new"
    BY <1>1 DEF BatchInv, HandlersInv
  <2> QED BY <2>1, <2>2 DEF HandlersInv
<1>4. ResultsInv'
  <2>1. ASSUME NEW i \in 1 .. Len(results) PROVE ResultOf(results[i], calls[i])'
    <3>1. i \in 1 .. Len(calls) /\ calls[i] \in Calls /\ ResultOf(results[i], calls[i])
      BY <1>1 DEF BatchInv, ResultsInv
    <3> QED BY <3>1 DEF ResultOf
  <2> QED BY <2>1 DEF BatchInv, ResultsInv
<1>5. Progress'
  BY DEF BatchInv, Progress, Waiting
<1> QED BY <1>2, <1>3, <1>4, <1>5 DEF BatchInv

LEMMA TakeBatch ==
  ASSUME BatchInv, Inline \/ Steal
  PROVE  BatchInv'
<1>1. /\ deque \in Seq(Calls) /\ Len(deque) \in Nat /\ status \in [Calls -> Statuses]
      /\ \A i \in 1 .. Len(deque) : deque[i] \in Calls /\ status[deque[i]] = "queued"
      /\ Distinct(deque) /\ deque # <<>> /\ Len(deque) > 0
  BY DEF BatchInv, BatchTypes, HandlersInv, Inline, Steal
<1>2. CASE Inline
  <2>1. /\ pc = "clock" /\ pc' = "inline" /\ deque' = SubSeq(deque, 1, Len(deque) - 1)
        /\ status' = [status EXCEPT ![deque[Len(deque)]] = "running"]
        /\ UNCHANGED <<unknown, calls, next, results, ready_at>>
    BY <1>2 DEF Inline, RunInlined
  <2>2. /\ deque' \in Seq(Calls) /\ Len(deque') = Len(deque) - 1
        /\ \A i \in 1 .. Len(deque) - 1 : deque'[i] = deque[i]
    <3> DEFINE n == Len(deque) - 1
    <3>1. n \in Nat /\ n < Len(deque) /\ deque \in Seq(Calls)
      BY <1>1
    <3> HIDE DEF n
    <3>2. SubSeq(deque, 1, n) \in Seq(Calls)
      BY <3>1
    <3>3. Len(SubSeq(deque, 1, n)) = n
      BY <3>1
    <3>4. \A i \in 1 .. n : SubSeq(deque, 1, n)[i] = deque[i]
      BY <3>1
    <3> QED BY <2>1, <3>2, <3>3, <3>4 DEF n
  <2>3. Distinct(deque') /\ \A i \in 1 .. Len(deque') : deque'[i] # deque[Len(deque)]
    BY <1>1, <2>2 DEF Distinct
  <2>4. \A i \in 1 .. Len(deque') : status'[deque'[i]] = "queued"
    BY <1>1, <2>1, <2>2, <2>3
  <2>5. /\ status' \in [Calls -> Statuses]
        /\ \A c \in Calls : status[c] \in {"new", "done", "threw"} => status'[c] = status[c]
    BY <1>1, <2>1 DEF Statuses
  <2> QED BY <2>1, <2>2, <2>3, <2>4, <2>5, StatusBatch
<1>3. CASE Steal
  <2>1. /\ deque' = Tail(deque) /\ pc' = pc
        /\ status' = [status EXCEPT ![deque[1]] = "running"]
        /\ UNCHANGED <<unknown, calls, next, results, ready_at>>
    BY <1>1, <1>3 DEF Steal
  <2>2. /\ deque' \in Seq(Calls) /\ Len(deque') = Len(deque) - 1
        /\ \A i \in 1 .. Len(deque) - 1 : deque'[i] = deque[i + 1]
    BY <1>1, <2>1
  <2>3. Distinct(deque') /\ \A i \in 1 .. Len(deque') : deque'[i] # deque[1]
    BY <1>1, <2>2, SMTT(20) DEF Distinct
  <2>4. \A i \in 1 .. Len(deque') : status'[deque'[i]] = "queued"
    BY <1>1, <2>1, <2>2, <2>3
  <2>5. /\ status' \in [Calls -> Statuses]
        /\ \A c \in Calls : status[c] \in {"new", "done", "threw"} => status'[c] = status[c]
    BY <1>1, <2>1 DEF Statuses
  <2>6. pc' = pc \/ (pc = "clock" /\ pc' = "inline")
    BY <2>1
  <2> QED BY <2>1, <2>2, <2>3, <2>4, <2>5, <2>6, StatusBatch
<1> QED BY <1>2, <1>3

LEMMA EndBatch ==
  ASSUME BatchInv, NEW c \in Calls, NEW s \in Ends, HandlerEnds(c, s)
  PROVE  BatchInv'
<1>1. /\ status \in [Calls -> Statuses] /\ status[c] = "running"
      /\ status' = [status EXCEPT ![c] = s]
      /\ deque' = deque /\ deque \in Seq(Calls) /\ Distinct(deque) /\ pc' = pc
      /\ UNCHANGED <<unknown, calls, next, results, ready_at>>
  BY DEF BatchInv, BatchTypes, HandlerEnds
<1>2. ASSUME NEW i \in 1 .. Len(deque') PROVE status'[deque'[i]] = "queued"
  <2>1. deque'[i] = deque[i] /\ i \in 1 .. Len(deque)
    BY <1>1
  <2>2. deque[i] \in Calls
    BY <1>1, <2>1
  <2>3. status[deque[i]] = "queued"
    BY <2>1 DEF BatchInv, HandlersInv
  <2> QED BY <1>1, <2>1, <2>2, <2>3
<1>3. /\ status' \in [Calls -> Statuses] /\ Distinct(deque')
      /\ \A d \in Calls : status[d] \in {"new", "done", "threw"} => status'[d] = status[d]
  BY <1>1 DEF Statuses
<1>4. pc' = pc \/ (pc = "clock" /\ pc' = "inline")
  BY <1>1
<1> QED BY <1>1, <1>2, <1>3, <1>4, StatusBatch

\* A batch begins and ends.
LEMMA BatchUnchanged ==
  ASSUME BatchInv, UNCHANGED <<unknown, pc, calls, next, deque, status, results, ready_at>>
  PROVE  BatchInv'
<1>1. BatchTypes'
  BY DEF BatchInv, BatchTypes, Distinct
<1>2. HandlersInv'
  BY DEF BatchInv, HandlersInv, Complete
<1>3. Progress'
  BY DEF BatchInv, Progress
<1>4. ResultsInv'
  BY DEF BatchInv, ResultsInv, ResultOf
<1> QED BY <1>1, <1>2, <1>3, <1>4 DEF BatchInv

LEMMA StartBatch ==
  ASSUME BatchInv, NEW cs \in Seq(Calls), Distinct(cs), execute_batch(cs),
         \A j \in 1 .. Len(cs) : status[cs[j]] = "new"
  PROVE  BatchInv'
<1>1. /\ pc' = "submit" /\ calls' = cs /\ next' = 1 /\ results' = <<>>
      /\ UNCHANGED <<unknown, deque, status, ready_at>> /\ Len(cs) \in Nat
  BY DEF execute_batch, Goto
<1>2. BatchTypes' /\ HandlersInv'
  <2>1. results' \in Seq(Results) /\ next' \in Nat \ {0} /\ next' <= Len(calls') + 1
    BY <1>1
  <2>2. BatchTypes /\ HandlersInv
    BY DEF BatchInv
  <2>3. Distinct(calls)' /\ (Distinct(deque)' <=> Distinct(deque))
    BY <1>1 DEF Distinct
  <2>4. BatchTypes'
    BY <1>1, <2>1, <2>2, <2>3 DEF BatchTypes
  <2>5. \A c \in ready_at' : Complete(c)'
    BY <1>1, <2>2 DEF HandlersInv, Complete
  <2>6. HandlersInv'
    BY <1>1, <2>2, <2>5 DEF HandlersInv
  <2> QED BY <2>4, <2>6
<1>3. Progress' /\ ResultsInv'
  BY <1>1 DEF Progress, ResultsInv, Waiting
<1> QED BY <1>2, <1>3 DEF BatchInv

LEMMA StoreBatch ==
  ASSUME BatchInv, StoreResults
  PROVE  BatchInv'
<1>1. /\ pc' = "idle" /\ calls' = <<>> /\ next' = 1 /\ results' = <<>> /\ ready_at' = {}
      /\ UNCHANGED <<unknown, deque, status>>
  BY DEF StoreResults
<1>2. BatchTypes' /\ HandlersInv'
  <2>1. BatchTypes /\ HandlersInv
    BY DEF BatchInv
  <2>2. calls' \in Seq(Calls) /\ Len(calls') = 0 /\ results' \in Seq(Results)
    BY <1>1
  <2>3. BatchTypes'
    BY <1>1, <2>1, <2>2 DEF BatchTypes, Distinct
  <2>4. HandlersInv'
    BY <1>1, <2>1 DEF HandlersInv
  <2> QED BY <2>3, <2>4
<1>3. Progress' /\ ResultsInv'
  BY <1>1 DEF Progress, ResultsInv, Waiting
<1> QED BY <1>2, <1>3 DEF BatchInv

-----------------------------------------------------------------------------
\* One level after the other.

LEMMA BeforeNext ==
  ASSUME NEW k \in Nat \ {0}
  PROVE  Before(k + 1) = Before(k) \cup Elems(levels[k])
<1>1. 1 .. k + 1 - 1 = 1 .. k - 1 \cup {k}
  OBVIOUS
<1> QED BY <1>1 DEF Before

LEMMA BeforeFirst == Before(1) = {}
BY DEF Before

LEMMA InitIInv == Init => IInv
<1> SUFFICES ASSUME Init PROVE IInv
  OBVIOUS
<1>1. /\ pc = "idle" /\ calls = <<>> /\ next = 1 /\ deque = <<>> /\ results = <<>> /\ ready_at = {}
      /\ status = [c \in Calls |-> "new"]
      /\ phase = "build" /\ nodes = <<>> /\ levels = <<>>
      /\ current = 1 /\ inputs = <<>> /\ all_results = <<>>
  BY DEF Init, ExecutorInit
<1>2. SortInv
  BY InitSort
<1>3. BatchInv
  BY <1>1 DEF BatchInv, BatchTypes, HandlersInv, Progress, ResultsInv, Distinct, Statuses, Waiting
<1>4. RunInv
  BY <1>1, BeforeFirst, BatchAssumption DEF RunInv, Given, Stored, Elems, Sorting
<1> QED BY <1>2, <1>3, <1>4 DEF IInv

\* Building and sorting.
LEMMA SortIInv ==
  ASSUME IInv, SortInv', Sort \/ \E deps \in DepSeqs : add_node(deps)
  PROVE  IInv'
<1>1. /\ phase \in {"build", "fill"} \cup Sorting /\ UNCHANGED <<run, executor>>
      /\ phase' \in {"build", "fill", "run", "thrown"} \cup Sorting
  BY DEF Sort, execute, Fill, Filled, NextLevel, Pop, Relax, Relaxed, LevelDone, Sorted,
         add_node, GotoPhase, Sorting, IInv
<1>2. phase' # "thrown"
  BY DEF SortInv, SortTypes, Sorting
<1>3. /\ pc' = pc /\ calls' = calls /\ next' = next /\ deque' = deque /\ results' = results
      /\ ready_at' = ready_at /\ status' = status /\ unknown' = unknown
      /\ current' = current /\ inputs' = inputs /\ all_results' = all_results
      /\ pc = "idle" /\ current = 1
  BY <1>1 DEF run, executor, IInv, RunInv
<1>4. BatchInv'
  BY <1>3, BatchUnchanged DEF IInv
<1>5. Len(nodes') <= MaxCalls
  <2>1. CASE Sort
    BY <2>1 DEF Sort, execute, Fill, Filled, NextLevel, Pop, Relax, Relaxed, LevelDone, Sorted, IInv, RunInv
  <2>2. CASE \E deps \in DepSeqs : add_node(deps)
    <3>1. PICK deps \in DepSeqs : add_node(deps)
      BY <2>2
    <3>2. Len(nodes) < MaxCalls /\ nodes' = Append(nodes, deps) /\ nodes \in Seq(Seq(Nat)) /\ nodes' \in Seq(Seq(Nat))
      BY <3>1 DEF add_node, IInv, SortInv, NodesInv
    <3>3. Len(nodes) \in Nat /\ Len(nodes') = Len(nodes) + 1
      BY <3>2
    <3> QED BY <3>2, <3>3, BatchAssumption
  <2> QED BY <2>1, <2>2
<1>6. levels \in Seq(Seq(NodeIds)) /\ levels' \in Seq(Seq(NodeIds'))
  BY DEF IInv, SortInv, SortTypes
<1>7. Before(1)' = {} /\ Before(1) = {} /\ Len(levels') \in Nat /\ inputs = <<>> /\ Stored = {}
  <2>1. Len(inputs) = 0 /\ inputs \in Seq(SUBSET Calls)
    BY <1>1, <1>3 DEF IInv, RunInv, Sorting
  <2>2. inputs = <<>> /\ Len(levels') \in Nat
    BY <1>6, <2>1
  <2>3. Before(1) = {} /\ Before(1)' = {}
    BY BeforeFirst DEF Before
  <2>4. Stored = {}
    BY <1>3, <2>3 DEF IInv, RunInv
  <2> QED BY <2>2, <2>3, <2>4
<1>8. Before(current)' = {}
  BY <1>3, <1>7 DEF Before
<1>9. Given = {} /\ Given' = {} /\ Stored' = {}
  BY <1>1, <1>2, <1>3, <1>7 DEF Given, Sorting, Stored, Before
<1>10. \A c \in Calls : status'[c] # "new" => c \in Given'
  BY <1>3, <1>9 DEF IInv, RunInv
<1>11. RunInv'
  <2>1. /\ current \in Nat \ {0} /\ all_results \in Seq(Calls) /\ inputs \in Seq(SUBSET Calls)
    BY DEF IInv, RunInv
  <2>2. phase' # "batch" /\ phase' # "returned" /\ Len(inputs') = 0 /\ current' <= Len(levels') + 1
    BY <1>1, <1>2, <1>3, <1>7 DEF Sorting
  <2>3. Stored' = Before(current)'
    BY <1>8, <1>9
  <2> QED BY <1>3, <1>5, <1>10, <2>1, <2>2, <2>3 DEF RunInv
<1> QED BY <1>4, <1>11 DEF IInv

LEMMA LevelIInv ==
  ASSUME IInv, SortInv', Levels
  PROVE  IInv'
<1>1. /\ nodes' = nodes /\ levels' = levels /\ Len(levels) \in Nat /\ current \in Nat \ {0}
      /\ levels \in Seq(Seq(NodeIds)) /\ NodeIds \subseteq Calls
      /\ Stored = Before(current) /\ inputs \in Seq(SUBSET Calls) /\ all_results \in Seq(Calls)
      /\ \A k : Before(k)' = Before(k)
  <2>1. Len(nodes) \in Nat /\ Len(nodes) <= MaxCalls /\ MaxCalls \in Nat
    BY BatchAssumption DEF IInv, SortInv, NodesInv, RunInv
  <2>2. NodeIds \subseteq Calls
    BY <2>1 DEF NodeIds, Calls
  <2>3. nodes' = nodes /\ levels' = levels
    BY DEF Levels, ExecuteLevel, StoreResults, Finish, sort
  <2>4. \A k : Before(k)' = Before(k)
    BY <2>3 DEF Before
  <2>5. levels \in Seq(Seq(NodeIds)) /\ Len(levels) \in Nat
    BY DEF IInv, SortInv, SortTypes
  <2> QED BY <2>2, <2>3, <2>4, <2>5 DEF IInv, RunInv
<1>2. CASE ExecuteLevel
  <2>1. /\ phase = "run" /\ phase' = "batch" /\ current <= Len(levels)
        /\ inputs' = Append(inputs, Stored) /\ execute_batch(levels[current])
        /\ current' = current /\ all_results' = all_results
        /\ calls' = levels[current] /\ pc' = "submit" /\ status' = status
    BY <1>2 DEF ExecuteLevel, GotoPhase, Substituted, execute_batch, Goto
  <2>2. /\ current \in 1 .. Len(levels) /\ levels[current] \in Seq(NodeIds)
        /\ levels[current] \in Seq(Calls) /\ Distinct(levels[current])
        /\ \A n \in Elems(levels[current]) : n \notin Before(current)
    BY <1>1, <2>1 DEF IInv, SortInv, LevelsInv
  <2>3. \A j \in 1 .. Len(levels[current]) : status[levels[current][j]] = "new"
    <3>1. Given = Before(current)
      BY <2>1 DEF Given
    <3>2. \A n \in Elems(levels[current]) : n \in Calls /\ n \notin Given
      BY <2>2, <3>1 DEF Elems
    <3>3. \A n \in Elems(levels[current]) : status[n] = "new"
      BY <3>2 DEF IInv, RunInv
    <3> QED BY <3>3 DEF Elems
  <2>4. BatchInv'
    BY <2>1, <2>2, <2>3, StartBatch DEF IInv
  <2>5. Before(current + 1) = Before(current) \cup Elems(levels[current])
    BY <1>1, BeforeNext
  <2>6. /\ Len(inputs) = current - 1 /\ Len(inputs') = current /\ Stored \in SUBSET Calls
        /\ inputs' \in Seq(SUBSET Calls) /\ inputs'[current] = Stored
        /\ \A k \in 1 .. current - 1 : inputs'[k] = inputs[k] /\ inputs[k] = Before(k)
    <3>1. Stored \in SUBSET Calls
      BY <1>1 DEF Stored, Elems
    <3>2. Len(inputs) = current - 1 /\ \A k \in 1 .. current - 1 : inputs[k] = Before(k)
      BY <2>1 DEF IInv, RunInv
    <3>3. /\ inputs' \in Seq(SUBSET Calls) /\ Len(inputs') = Len(inputs) + 1
          /\ inputs'[Len(inputs) + 1] = Stored
          /\ \A k \in 1 .. Len(inputs) : inputs'[k] = inputs[k]
      <4>1. inputs \in Seq(SUBSET Calls) /\ inputs' = Append(inputs, Stored)
        BY <1>1, <2>1
      <4> QED BY ONLY <3>1, <4>1, AppendAt
    <3>4. Len(inputs) + 1 = current
      BY <1>1, <3>2
    <3> QED BY <3>1, <3>2, <3>3, <3>4
  <2>7. \A k \in 1 .. Len(inputs') : inputs'[k] = Before(k)
    <3> TAKE k \in 1 .. Len(inputs')
    <3>1. k \in 1 .. current - 1 \/ k = current
      BY <1>1, <2>6
    <3> QED BY <1>1, <2>6, <3>1
  <2>8. Given' = Before(current + 1) /\ Given = Before(current)
    BY <1>1, <2>1 DEF Given, Before
  <2>9. Before(current)' = Before(current) /\ Stored' = Stored
    BY <1>1, <2>1 DEF Before, Stored
  <2>10. RunInv'
    BY <1>1, <2>1, <2>5, <2>6, <2>7, <2>8, <2>9 DEF IInv, RunInv, Sorting
  <2> QED BY <2>4, <2>10 DEF IInv
<1>3. CASE StoreResults
  <2>1. /\ phase = "batch" /\ phase' = "run" /\ pc = "returned" /\ pc' = "idle"
        /\ current' = current + 1 /\ inputs' = inputs /\ status' = status
        /\ all_results' = all_results \o [i \in 1 .. Len(results) |-> results[i].call]
        /\ current <= Len(levels) /\ calls = levels[current]
    BY <1>3 DEF StoreResults, GotoPhase, IInv, RunInv
  <2>2. BatchInv'
    BY <1>3, StoreBatch DEF IInv
  <2> DEFINE new == [i \in 1 .. Len(results) |-> results[i].call]
  <2>3. /\ Len(results) = Len(calls) /\ Len(calls) \in Nat /\ calls \in Seq(Calls)
        /\ \A i \in 1 .. Len(results) : results[i].call = calls[i]
    <3>1. BatchTypes /\ Progress /\ ResultsInv
      BY DEF IInv, BatchInv
    <3>2. Len(results) = Len(calls)
      BY <2>1, <3>1 DEF Progress
    <3>3. Len(calls) \in Nat /\ calls \in Seq(Calls)
      BY <3>1 DEF BatchTypes
    <3>4. \A i \in 1 .. Len(results) : results[i].call = calls[i]
      BY <3>1 DEF ResultsInv, ResultOf
    <3> QED BY <3>2, <3>3, <3>4
  <2>4. new \in Seq(Calls) /\ Len(new) = Len(calls) /\ \A i \in 1 .. Len(calls) : new[i] = calls[i]
    <3>1. new = [i \in 1 .. Len(calls) |-> calls[i]]
      BY <2>3
    <3> HIDE DEF new
    <3>2. \A i \in 1 .. Len(calls) : calls[i] \in Calls
      BY <2>3
    <3> QED BY ONLY <2>3, <3>1, <3>2
  <2> HIDE DEF new
  <2>5. /\ all_results' = all_results \o new /\ all_results' \in Seq(Calls)
        /\ Len(all_results') = Len(all_results) + Len(calls) /\ Len(all_results) \in Nat
        /\ \A i \in 1 .. Len(all_results) : all_results'[i] = all_results[i]
        /\ \A i \in 1 .. Len(calls) : all_results'[Len(all_results) + i] = calls[i]
    BY <1>1, <2>1, <2>3, <2>4, SMTT(20) DEF new
  <2>6. Stored' = Stored \cup Elems(calls)
    <3>1. ASSUME NEW x \in Stored' PROVE x \in Stored \cup Elems(calls)
      <4>1. PICK i \in 1 .. Len(all_results') : x = all_results'[i]
        BY DEF Stored, Elems
      <4>2. CASE i <= Len(all_results)
        <5>1. i \in 1 .. Len(all_results)
          BY <2>3, <2>5, <4>2
        <5>2. x = all_results[i]
          BY <2>5, <4>1, <5>1
        <5> QED BY <5>1, <5>2 DEF Stored, Elems
      <4>3. CASE i > Len(all_results)
        <5>1. i - Len(all_results) \in 1 .. Len(calls) /\ i = Len(all_results) + (i - Len(all_results))
          BY <2>3, <2>5, <4>3
        <5>2. x = calls[i - Len(all_results)]
          BY <2>5, <4>1, <5>1
        <5> QED BY <5>1, <5>2 DEF Elems
      <4> QED BY <2>5, <4>2, <4>3
    <3>2. ASSUME NEW i \in 1 .. Len(all_results) PROVE all_results[i] \in Stored'
      <4>1. i \in 1 .. Len(all_results') /\ all_results'[i] = all_results[i]
        BY <2>3, <2>5
      <4> QED BY <4>1 DEF Stored, Elems
    <3>3. ASSUME NEW i \in 1 .. Len(calls) PROVE calls[i] \in Stored'
      <4>1. Len(all_results) + i \in 1 .. Len(all_results') /\ all_results'[Len(all_results) + i] = calls[i]
        BY <2>3, <2>5
      <4> QED BY <4>1 DEF Stored, Elems
    <3>4. Stored \subseteq Stored' /\ Elems(calls) \subseteq Stored'
      BY <3>2, <3>3 DEF Stored, Elems
    <3> QED BY <3>1, <3>4
  <2>7. Before(current + 1) = Before(current) \cup Elems(levels[current])
    BY <1>1, BeforeNext
  <2>8. Given' = Before(current + 1) /\ Given = Before(current + 1) /\ Before(current)' = Before(current + 1)
    BY <1>1, <2>1 DEF Given, Before
  <2>9. Stored' = Before(current + 1)
    BY <1>1, <2>1, <2>6, <2>7
  <2>10. \A c \in Calls : status'[c] # "new" => c \in Given'
    BY <2>1, <2>8 DEF IInv, RunInv
  <2>11. /\ Len(inputs') = current /\ current + 1 - 1 = current /\ current + 1 \in Nat \ {0}
         /\ \A k \in 1 .. Len(inputs') : inputs'[k] = Before(k)
    BY <1>1, <2>1 DEF IInv, RunInv
  <2>12. /\ Len(inputs') = current' - 1 /\ inputs' \in Seq(SUBSET Calls)
         /\ \A k \in 1 .. Len(inputs') : inputs'[k] = Before(k)'
         /\ current' \in Nat \ {0} /\ current' <= Len(levels') + 1 /\ Len(nodes') <= MaxCalls
    <3>1. inputs \in Seq(SUBSET Calls) /\ Len(nodes) <= MaxCalls /\ Len(levels) \in Nat /\ current \in Nat
      BY <1>1 DEF IInv, RunInv
    <3>2. nodes' = nodes /\ levels' = levels /\ \A k : Before(k)' = Before(k)
      BY <1>1 DEF Before
    <3>3. \A k \in 1 .. Len(inputs') : inputs'[k] = Before(k)'
      BY <2>11, <3>2
    <3>4. current' = current + 1 /\ current <= Len(levels) /\ inputs' = inputs
      BY <2>1
    <3>5. Len(inputs') = current' - 1 /\ current' \in Nat \ {0} /\ current' <= Len(levels) + 1
      BY ONLY <2>11, <3>1, <3>4
    <3> QED BY <3>1, <3>2, <3>3, <3>4, <3>5
  <2>13. RunInv'
    BY <2>1, <2>5, <2>8, <2>9, <2>10, <2>12 DEF RunInv, Sorting
  <2> QED BY <2>2, <2>13 DEF IInv
<1>4. CASE Finish
  <2>1. /\ phase = "run" /\ phase' = "returned" /\ UNCHANGED <<run, executor>>
    BY <1>4 DEF Finish, GotoPhase
  <2>2. /\ pc' = pc /\ calls' = calls /\ next' = next /\ deque' = deque /\ results' = results
        /\ ready_at' = ready_at /\ status' = status /\ unknown' = unknown
        /\ current' = current /\ inputs' = inputs /\ all_results' = all_results
    BY <2>1 DEF run, executor
  <2>3. BatchInv'
    BY <2>2, BatchUnchanged DEF IInv
  <2>4. Given' = Given /\ Stored' = Stored /\ Before(current)' = Before(current)
    BY <1>1, <2>1, <2>2 DEF Given, Stored, Before
  <2>5. RunInv'
    BY <1>1, <2>1, <2>2, <2>4 DEF IInv, RunInv, Sorting
  <2> QED BY <2>3, <2>5 DEF IInv
<1> QED BY <1>2, <1>3, <1>4 DEF Levels

\* The steps of the executor, of the other workers and of the handlers.
LEMMA StepIInv ==
  ASSUME IInv, SortInv', UNCHANGED dag, Batch \/ Expire \/ Steal \/ \E c \in Calls : Handler(c)
  PROVE  IInv'
<1>1. /\ phase' = phase /\ nodes' = nodes /\ levels' = levels
      /\ current' = current /\ inputs' = inputs /\ all_results' = all_results
  BY DEF dag, sort, run
<1>2. BatchInv'
  <2>1. CASE \E c \in Calls : Handler(c)
    <3>1. PICK c \in Calls, s \in Ends : HandlerEnds(c, s)
      BY <2>1 DEF Handler
    <3> QED BY <3>1, EndBatch DEF IInv
  <2> QED BY <2>1, LaunchBatch, ResultBatch, WaitBatch, TakeBatch DEF Batch, IInv
<1>3. calls' = calls /\ (pc' = "idle" <=> pc = "idle")
  BY DEF Batch, Submit, SubmitUnknown, Launched, CollectUnknown, BeginWait, Value, Error, NotReady,
         Timeout, Collect, Inline, InlineReturns, InlineForeign, ForeignReturns, ForeignHangs, Spin,
         Moves, Return, Expire, Steal, Handler, HandlerEnds, Goto
<1>4. \A k : Before(k)' = Before(k)
  BY <1>1 DEF Before
<1>5. Given' = Given /\ Stored' = Stored /\ Before(current)' = Before(current)
  BY <1>1 DEF Given, Stored, Before
<1>6. ASSUME NEW c \in Calls, status'[c] # "new" PROVE c \in Given
  <2>1. status \in [Calls -> Statuses]
    BY DEF IInv, BatchInv, BatchTypes
  <2>2. CASE Submit
    <3>1. pc = "submit" /\ next <= Len(calls) /\ status' = [status EXCEPT ![calls[next]] = "queued"]
      BY <2>2 DEF Submit, CallsLeft, call
    <3>2. phase = "batch" /\ calls = levels[current] /\ next \in 1 .. Len(calls) /\ current \in Nat \ {0}
      <4>1. phase \in {"build", "fill"} \cup Sorting \cup {"run", "batch", "returned"}
        BY DEF IInv, SortInv, SortTypes, Sorting
      <4>2. phase = "batch" /\ calls = levels[current] /\ current \in Nat \ {0}
        BY <3>1, <4>1 DEF IInv, RunInv
      <4>3. calls \in Seq(Calls) /\ next \in Nat \ {0}
        BY DEF IInv, BatchInv, BatchTypes
      <4> QED BY ONLY <3>1, <4>2, <4>3
    <3>3. calls[next] \in Given
      BY <3>2, BeforeNext DEF Given, Elems
    <3>4. c = calls[next] \/ status[c] # "new"
      BY <1>6, <2>1, <3>1
    <3> QED BY <3>3, <3>4 DEF IInv, RunInv
  <2>3. CASE Inline \/ Steal
    <3>1. PICK i \in 1 .. Len(deque) : status' = [status EXCEPT ![deque[i]] = "running"]
      <4>1. deque \in Seq(Calls) /\ deque # <<>>
        BY <2>3 DEF Inline, Steal, IInv, BatchInv, BatchTypes
      <4>2. 1 \in 1 .. Len(deque) /\ Len(deque) \in 1 .. Len(deque) /\ Head(deque) = deque[1]
        BY <4>1
      <4> QED BY <2>3, <4>2 DEF Inline, RunInlined, Steal
    <3>2. status[deque[i]] = "queued"
      BY DEF IInv, BatchInv, HandlersInv
    <3>3. status[c] # "new"
      BY <1>6, <2>1, <3>1, <3>2
    <3> QED BY <3>3 DEF IInv, RunInv
  <2>4. CASE \E d \in Calls : Handler(d)
    <3>1. status[c] # "new"
      BY <1>6, <2>1, <2>4 DEF Handler, HandlerEnds
    <3> QED BY <3>1 DEF IInv, RunInv
  <2>5. CASE status' = status
    BY <1>6, <2>5 DEF IInv, RunInv
  <2> QED BY <2>2, <2>3, <2>4, <2>5
          DEF Batch, SubmitUnknown, Launched, CollectUnknown, BeginWait, Value, Error, NotReady,
              Timeout, Collect, InlineReturns, InlineForeign, ForeignReturns, ForeignHangs, Spin,
              Moves, Return, Expire
<1>7. RunInv'
  BY <1>1, <1>3, <1>4, <1>5, <1>6 DEF IInv, RunInv
<1> QED BY <1>2, <1>7 DEF IInv

LEMMA NextIInv == IInv /\ [Next]_vars => IInv'
<1> SUFFICES ASSUME IInv, [Next]_vars PROVE IInv'
  OBVIOUS
<1>1. SortInv'
  BY NextSort DEF IInv
<1>2. CASE Quiet \/ UNCHANGED vars
  <2>1. UNCHANGED <<executor, phase, nodes, levels, current, inputs, all_results>>
    BY <1>2 DEF Quiet, vars, dag, sort, run
  <2>2. BatchInv'
    BY <2>1, BatchUnchanged DEF executor, IInv
  <2>3. /\ \A k : Before(k)' = Before(k)
        /\ Given' = Given /\ Stored' = Stored /\ Before(current)' = Before(current)
    BY <2>1 DEF Given, Stored, Before
  <2>4. status' = status /\ pc' = pc /\ calls' = calls
    BY <2>1 DEF executor
  <2>5. RunInv'
    BY <2>1, <2>3, <2>4 DEF IInv, RunInv
  <2> QED BY <1>1, <2>2, <2>5 DEF IInv
<1> QED BY <1>1, <1>2, SortIInv, LevelIInv, StepIInv DEF Next

LEMMA Invariance == Spec => []IInv
BY InitIInv, NextIInv, PTL DEF Spec

(***************************************************************************)
(* execute_batch() returns one result per call, in the order of the calls, *)
(* each the handler's own (tool_executor.h), for every batch of a DAG.     *)
(***************************************************************************)
THEOREM ResultsMatch == Spec => []ResultsMatchCalls
<1>1. IInv => ResultsMatchCalls
  BY DEF IInv, BatchInv, Progress, ResultsInv, ResultOf, ResultsMatchCalls
<1> QED BY Invariance, <1>1, PTL

(***************************************************************************)
(* wait_for() never reports a timeout for a handler that had ended when    *)
(* the wait for it began.                                                  *)
(***************************************************************************)
THEOREM TimeoutsAreTrue == Spec => []NoFalseTimeout
<1>1. IInv => NoFalseTimeout
  BY DEF IInv, BatchInv, ResultsInv, ResultOf, NoFalseTimeout
<1> QED BY Invariance, <1>1, PTL

(***************************************************************************)
(* The results of all that the nodes of a level depend on are there when   *)
(* execute() of task_dag.h substitutes them and submits the level.         *)
(***************************************************************************)
THEOREM ResultsBeforeUse == Spec => []DependenciesFirst
<1>1. IInv => DependenciesFirst
  <2> SUFFICES ASSUME IInv, NEW k \in 1 .. Len(inputs), NEW n \in Elems(levels[k])
               PROVE  Elems(nodes[n]) \subseteq inputs[k]
    BY DEF DependenciesFirst
  <2>1. k \in 1 .. Len(levels)
    <3>1. /\ current \in Nat /\ Len(levels) \in Nat
          /\ Len(inputs) = current \/ Len(inputs) = current - 1
          /\ Len(inputs) = current => current <= Len(levels)
          /\ current <= Len(levels) + 1
      BY DEF IInv, RunInv, SortInv, SortTypes
    <3> QED BY <3>1
  <2>2. Fits(n, k) /\ inputs[k] = Before(k)
    BY <2>1 DEF IInv, RunInv, SortInv, LevelsInv
  <2> QED BY <2>2 DEF Fits
<1> QED BY Invariance, <1>1, PTL

(***************************************************************************)
(* Calls that the shell tool handles are calls like others: whatever the   *)
(* steps of pipes and children, each is a step of a handler or none that   *)
(* TaskDAG and ToolExecutor can see.  So the theorems above hold with the  *)
(* shell tool too.                                                         *)
(***************************************************************************)
THEOREM ShellCallsAreCalls == SpecAll => Spec
<1>1. InitAll => Init BY DEF InitAll
<1>2. ASSUME [NextAll]_all PROVE [Next]_vars
  <2>1. ASSUME NEW c \in ShellCalls, ShellStep(c) PROVE Next \/ UNCHANGED vars
    <3>1. c \in Calls BY ShellCallsAssumption
    <3>2. CASE UNCHANGED vars BY <3>2
    <3>3. CASE (HandlerEnds(c, "done") \/ HandlerEnds(c, "threw")) /\ UNCHANGED dag
      BY <3>1, <3>3 DEF Next, Handler, Ends
    <3> QED BY <2>1, <3>2, <3>3 DEF ShellStep
  <2>2. ASSUME NEW c \in Calls \ ShellCalls, OtherHandler(c) PROVE Next
    BY <2>2 DEF OtherHandler, Next
  <2>3. CASE UNCHANGED all BY <2>3 DEF all
  <2> QED BY <1>2, <2>1, <2>2, <2>3 DEF NextAll, Next
<1> QED BY <1>1, <1>2, PTL DEF SpecAll, Spec

-----------------------------------------------------------------------------
(***************************************************************************)
(* The shell tool.  The parent has the write end of its pipe open between  *)
(* pipe() and close(), the read end until the loop of reads is left, and a *)
(* child that runs holds its own write end: so the parent sees the end of  *)
(* file only when its child has exited, whatever other children hold       *)
(* besides.                                                                *)
(***************************************************************************)
ChildAt(s) ==
  CASE s \in {"start", "piped"} -> {"none"}
    [] s \in {"forked", "reading", "cut"} -> {"running", "exited"}
    [] s = "waiting" -> {"exited"}
    [] s = "over" -> {"none", "reaped"}

Stages == {"start", "piped", "forked", "reading", "waiting", "cut", "over"}

ShellInv ==
  /\ stage \in [ShellCalls -> Stages]
  /\ child \in [ShellCalls -> {"none", "running", "exited", "reaped"}]
  /\ DOMAIN writers = ShellCalls /\ writers = [c \in ShellCalls |-> writers[c]]
  /\ \A c \in ShellCalls :
       /\ child[c] \in ChildAt(stage[c])
       /\ Parent \in writers[c] <=> stage[c] \in {"piped", "forked"}
       /\ c \in readable <=> stage[c] \in {"piped", "forked", "reading"}
       /\ child[c] = "running" => c \in writers[c]

\* A step of the handler of call c.
ShellMoves(c) ==
  /\ stage' = [stage EXCEPT ![c] = stage'[c]] /\ child' = [child EXCEPT ![c] = child'[c]]
  /\ stage'[c] \in Stages
  /\ child'[c] \in {"none", "running", "exited", "reaped"}
  /\ child'[c] \in ChildAt(stage'[c])
  /\ writers' = [d \in ShellCalls |-> writers'[d]]
  /\ \A d \in ShellCalls \ {c} : /\ Parent \in writers'[d] <=> Parent \in writers[d]
                                 /\ d \in writers[d] => d \in writers'[d]
                                 /\ d \in readable' <=> d \in readable
  /\ c \in readable' <=> stage'[c] \in {"piped", "forked", "reading"}
  /\ Parent \in writers'[c] <=> stage'[c] \in {"piped", "forked"}
  /\ child'[c] = "running" => c \in writers'[c]

LEMMA ShellAdvances ==
  ASSUME ShellInv, NEW c \in ShellCalls, ShellMoves(c)
  PROVE  ShellInv'
<1>1. \A d \in ShellCalls \ {c} : stage'[d] = stage[d] /\ child'[d] = child[d]
  BY DEF ShellMoves, ShellInv
<1>2. /\ stage' \in [ShellCalls -> Stages]
      /\ child' \in [ShellCalls -> {"none", "running", "exited", "reaped"}]
  BY DEF ShellMoves, ShellInv
<1>3. DOMAIN writers' = ShellCalls /\ writers' = [d \in ShellCalls |-> writers'[d]]
  BY DEF ShellMoves
<1>4. ASSUME NEW d \in ShellCalls
      PROVE  /\ child'[d] \in ChildAt(stage'[d])
             /\ Parent \in writers'[d] <=> stage'[d] \in {"piped", "forked"}
             /\ d \in readable' <=> stage'[d] \in {"piped", "forked", "reading"}
             /\ child'[d] = "running" => d \in writers'[d]
  <2>1. CASE d = c
    BY <2>1 DEF ShellMoves
  <2>2. CASE d # c
    BY <1>1, <2>2 DEF ShellMoves, ShellInv
  <2> QED
    BY <2>1, <2>2
<1>5. \A d \in ShellCalls : ChildAt(stage[d])' = ChildAt(stage'[d])
  BY DEF ChildAt
<1> QED
  BY <1>2, <1>3, <1>4, <1>5 DEF ShellInv, Parent

LEMMA HandlerShell ==
  ASSUME ShellInv, NEW c \in ShellCalls,
         ShellWorks(c) \/ Reap(c) \/ Refuse(c) \/ ForkFails(c)
  PROVE  ShellInv'
<1>1. /\ \A d \in ShellCalls : d # Parent
      /\ \A d \in ShellCalls : /\ stage[d] \in {"start", "piped"} => child[d] = "none"
                               /\ stage[d] \in {"forked", "reading", "cut"} => child[d] \in {"running", "exited"}
                               /\ stage[d] = "waiting" => child[d] = "exited"
  BY ShellAssumption DEF Parent, ShellInv, ChildAt
<1>2. /\ ChildAt("piped") = {"none"} /\ ChildAt("forked") = {"running", "exited"}
      /\ ChildAt("reading") = {"running", "exited"} /\ ChildAt("waiting") = {"exited"}
      /\ ChildAt("cut") = {"running", "exited"} /\ ChildAt("over") = {"none", "reaped"}
  BY DEF ChildAt
<1>3. ShellMoves(c)
  <2>1. CASE Pipe(c)
    BY <1>1, <1>2, <2>1 DEF Pipe, Advance, ShellInv, ShellMoves, Stages
  <2>2. CASE Fork(c)
    <3>1. stage[c] = "piped" /\ stage'[c] = "forked" /\ child'[c] = "running"
      BY <2>2 DEF Fork, Advance, ShellInv
    <3>2. \A d \in ShellCalls : writers'[d] = IF Parent \in writers[d] THEN writers[d] \cup {c} ELSE writers[d]
      BY <2>2 DEF Fork
    <3>3. Parent \in writers[c]
      BY <3>1 DEF ShellInv
    <3>4. \A d \in ShellCalls : Parent \in writers'[d] <=> Parent \in writers[d]
      BY <1>1, <3>2
    <3>5. /\ stage' = [stage EXCEPT ![c] = "forked"] /\ child' = [child EXCEPT ![c] = "running"]
          /\ writers' = [d \in ShellCalls |-> writers'[d]]
      BY <2>2 DEF Fork, Advance
    <3>6. readable' = readable /\ c \in readable
      BY <2>2, <3>1 DEF Fork, ShellInv
    <3> QED
      BY <1>2, <3>1, <3>2, <3>3, <3>4, <3>5, <3>6 DEF ShellMoves, Stages
  <2>3. CASE Close(c)
    BY <1>1, <1>2, <2>3 DEF Close, CloseWriteEnd, Advance, ShellInv, ShellMoves, Stages
  <2>4. CASE EndOfFile(c) \/ ReadFails(c)
    <3>1. /\ stage[c] = "reading" /\ child' = child /\ writers' = writers /\ readable' = readable \ {c}
          /\ \/ stage' = [stage EXCEPT ![c] = "waiting"] /\ writers[c] = {}
             \/ stage' = [stage EXCEPT ![c] = "cut"]
      BY <2>4 DEF EndOfFile, ReadFails, CloseReadEnd, Advance
    <3>2. /\ (stage'[c] = "waiting" /\ writers[c] = {}) \/ stage'[c] = "cut"
          /\ stage' = [stage EXCEPT ![c] = stage'[c]] /\ child' = [child EXCEPT ![c] = child'[c]]
      BY <3>1 DEF ShellInv
    <3>3. /\ child[c] \in {"running", "exited"} /\ Parent \notin writers[c]
          /\ child[c] = "running" => c \in writers[c]
          /\ writers' = [d \in ShellCalls |-> writers'[d]]
      BY <1>1, <3>1 DEF ShellInv
    <3>4. child[c] \in ChildAt(stage'[c])
      BY <1>2, <3>2, <3>3
    <3> QED
      BY <3>1, <3>2, <3>3, <3>4 DEF ShellMoves, Stages
  <2>5. CASE Reap(c)
    <3>1. /\ stage[c] \in {"waiting", "cut"} /\ stage' = [stage EXCEPT ![c] = "over"]
          /\ child' = [child EXCEPT ![c] = "reaped"] /\ writers' = writers /\ readable' = readable
      BY <2>5 DEF Reap, Advance
    <3>2. /\ stage'[c] = "over" /\ child'[c] = "reaped"
          /\ Parent \notin writers[c] /\ c \notin readable
          /\ writers' = [d \in ShellCalls |-> writers'[d]]
      BY <3>1 DEF ShellInv
    <3> QED
      BY <1>2, <3>1, <3>2 DEF ShellMoves, Stages
  <2>6. CASE Refuse(c)
    BY <1>1, <1>2, <2>6 DEF Refuse, Advance, ShellInv, ShellMoves, Stages
  <2>7. CASE ForkFails(c)
    <3>1. /\ stage[c] = "piped" /\ stage' = [stage EXCEPT ![c] = "over"] /\ child' = child
          /\ writers' = [writers EXCEPT ![c] = @ \ {Parent}] /\ readable' = readable \ {c}
      BY <2>7 DEF ForkFails, CloseBoth, CloseWriteEnd, CloseReadEnd, Advance
    <3>2. /\ stage'[c] = "over" /\ stage' = [stage EXCEPT ![c] = stage'[c]]
          /\ child[c] = "none" /\ child'[c] = "none" /\ child' = [child EXCEPT ![c] = child'[c]]
      BY <1>1, <3>1 DEF ShellInv
    <3>3. /\ writers' = [d \in ShellCalls |-> writers'[d]]
          /\ \A d \in ShellCalls \ {c} : writers'[d] = writers[d]
          /\ Parent \notin writers'[c]
      BY <3>1 DEF ShellInv
    <3> QED
      BY <1>2, <3>1, <3>2, <3>3 DEF ShellMoves, Stages
  <2> QED
    BY <2>1, <2>2, <2>3, <2>4, <2>5, <2>6, <2>7 DEF ShellWorks
<1> QED
  BY <1>3, ShellAdvances

\* A command ends, and all that it holds is closed.
LEMMA ExitShell ==
  ASSUME ShellInv, NEW c \in ShellCalls, Exit(c)
  PROVE  ShellInv'
<1>1. /\ child' = [child EXCEPT ![c] = "exited"] /\ stage' = stage /\ child[c] = "running"
      /\ writers' = [d \in ShellCalls |-> writers[d] \ {c}] /\ readable' = readable
  BY DEF Exit
<1>2. c # Parent
  BY ShellAssumption DEF Parent
<1>3. child' \in [ShellCalls -> {"none", "running", "exited", "reaped"}]
  BY <1>1 DEF ShellInv
<1>4. stage[c] \in {"forked", "reading", "cut"}
  BY <1>1 DEF ShellInv, ChildAt, Stages
<1>5. ASSUME NEW d \in ShellCalls
      PROVE  /\ child'[d] \in ChildAt(stage'[d])
             /\ Parent \in writers'[d] <=> stage'[d] \in {"piped", "forked"}
             /\ d \in readable' <=> stage'[d] \in {"piped", "forked", "reading"}
             /\ child'[d] = "running" => d \in writers'[d]
  <2>1. writers'[d] = writers[d] \ {c}
    BY <1>1
  <2>2. CASE d = c
    BY <1>1, <1>2, <1>4, <2>1, <2>2 DEF ShellInv, ChildAt
  <2>3. CASE d # c
    BY <1>1, <1>2, <2>1, <2>3 DEF ShellInv
  <2> QED
    BY <2>2, <2>3
<1>6. \A d \in ShellCalls : ChildAt(stage[d])' = ChildAt(stage'[d])
  BY DEF ChildAt
<1>7. DOMAIN writers' = ShellCalls /\ writers' = [d \in ShellCalls |-> writers'[d]]
  BY <1>1
<1>8. stage' \in [ShellCalls -> Stages]
  BY <1>1 DEF ShellInv
<1> QED
  BY <1>3, <1>5, <1>6, <1>7, <1>8 DEF ShellInv, Parent

(***************************************************************************)
(* Handlers of the shell tool leave neither end of their pipe open and no  *)
(* zombie, and see the end of file only after their command has exited     *)
(* (shell.h:116-162), whether fork() or read() fails or not, and however   *)
(* many of them fork at the same time.                                     *)
(***************************************************************************)
THEOREM ShellTidy == SpecAll => []NothingLeftBehind
<1>1. InitAll => ShellInv
  <2> SUFFICES ASSUME ShellInit PROVE ShellInv
    BY DEF InitAll
  <2>1. /\ \A c \in ShellCalls : stage[c] = "start" /\ child[c] = "none" /\ writers[c] = {}
        /\ readable = {} /\ ChildAt("start") = {"none"}
    BY DEF ShellInit, ChildAt
  <2> QED
    BY <2>1 DEF ShellInit, ShellInv, Stages
<1>2. ShellInv /\ [NextAll]_all => ShellInv'
  <2> SUFFICES ASSUME ShellInv, [NextAll]_all PROVE ShellInv'
    OBVIOUS
  <2>1. ASSUME UNCHANGED shell PROVE ShellInv'
    BY <2>1 DEF shell, ShellInv, ChildAt, Parent
  <2>2. ASSUME NEW c \in ShellCalls, ShellStep(c) PROVE ShellInv'
    BY <2>2, HandlerShell DEF ShellStep
  <2>3. CASE UNCHANGED all
    BY <2>1, <2>3 DEF all
  <2>4. ASSUME NEW c \in Calls \ ShellCalls, OtherHandler(c) PROVE ShellInv'
    BY <2>1, <2>4 DEF OtherHandler
  <2> QED
    BY <2>1, <2>2, <2>3, <2>4, ExitShell DEF NextAll
<1>3. ShellInv => NothingLeftBehind
  BY DEF ShellInv, NothingLeftBehind, ChildAt
<1> QED
  BY <1>1, <1>2, <1>3, PTL DEF SpecAll
=============================================================================
