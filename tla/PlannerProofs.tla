--------------------------- MODULE PlannerProofs ---------------------------
(***************************************************************************)
(* The planner, for any problem and any budgets.  A claim about every node *)
(* or every action of a plan is proved by looking at the least number at   *)
(* which it could fail.                                                    *)
(***************************************************************************)
EXTENDS Planner, PlannerHeapProofs

-----------------------------------------------------------------------------
(* The search *)

Node == [state : State, parent : Nat, act : 0..Actions, depth : Nat, g : Nat, f : Nat]
Entry == [f : Nat, idx : Nat]

\* Node i is the successor of an earlier node by an action that applies there.
Extends(i) ==
  LET n == nodes[i]
      p == nodes[n.parent]
  IN  /\ n.parent \in 1..(i - 1) /\ n.act \in 1..Actions
      /\ n.state = problem.succ[p.state][n.act]
      /\ n.g = p.g + problem.cost[p.state][n.act]
      /\ n.depth = p.depth + 1 /\ n.depth <= problem.max_plan_depth

NodesInv ==
  /\ nodes \in Seq(Node) /\ nodes # <<>>
  /\ nodes[1] = SearchNode(Start, 0, 0, 0, 0)
  /\ \A i \in 2..Len(nodes) : Extends(i)
  /\ \A i \in 1..Len(nodes) : nodes[i].state \in visited
  /\ visited \subseteq State

IsHeap(h) == h \in Seq(Entry) /\ HeapOrder(h) /\ Distinct(h)

OpenInv ==
  /\ IsHeap(open)
  /\ \A e \in Range(open) : e.idx \in 1..Len(nodes) /\ e.f = nodes[e.idx].f

(***************************************************************************)
(* While a node is expanded, every action tried has added at most one node *)
(* to those the budget allowed.                                            *)
(***************************************************************************)
BudgetInv ==
  /\ cur \in 0..Len(nodes) /\ act \in 0..Actions /\ (cur = 0 <=> act = 0)
  /\ iters \in Nat /\ iters <= problem.max_iters
  /\ Len(nodes) <= problem.max_nodes + (IF act = 0 THEN Actions ELSE act - 1)

SearchInv == problem \in Problems /\ NodesInv /\ OpenInv /\ BudgetInv /\ PlanSound

\* The number of targets a state misses.
LEMMA UnsatisfiedType ==
  ASSUME NEW s
  PROVE  Unsatisfied(s) \in Nat
<1> DEFINE n == Len(Targets)
           S == 1..n
           T == {g \in DOMAIN Targets : s \notin Targets[g]}
<1>1. n \in Nat /\ DOMAIN Targets = S
  BY DomainAssumption
<1>2. T \in SUBSET S
  BY <1>1
<1>3. IsFiniteSet(S)
  BY <1>1, FS_Interval
<1>4. Unsatisfied(s) = Cardinality(T)
  BY Zenon DEF Unsatisfied
<1> HIDE DEF S, T
<1>5. IsFiniteSet(T)
  BY <1>2, <1>3, FS_Subset
<1> QED
  BY <1>4, <1>5, FS_CardinalityType

\* The parts of a new node.
LEMMA SearchNodeType ==
  ASSUME NEW s \in State, NEW p \in Nat, NEW a \in 0..Actions, NEW d \in Nat, NEW g \in Nat,
         NEW x, x = SearchNode(s, p, a, d, g)
  PROVE  /\ x \in Node
         /\ x.state = s /\ x.parent = p /\ x.act = a /\ x.depth = d /\ x.g = g
  BY UnsatisfiedType DEF SearchNode, Node

\* The parts of a problem.
LEMMA ProblemType ==
  ASSUME NEW pr \in Problems
  PROVE  /\ \A s \in State, a \in 1..Actions : /\ pr.succ[s][a] \in State \cup {None}
                                               /\ pr.cost[s][a] \in Nat
         /\ pr.max_iters \in Nat \ {0} /\ pr.max_nodes \in Nat \ {0}
         /\ pr.max_plan_depth \in Nat \ {0}
<1>1. /\ pr.succ \in [State -> [1..Actions -> State \cup {None}]]
      /\ pr.cost \in [State -> [1..Actions -> Nat]]
      /\ pr.max_iters \in Nat \ {0} /\ pr.max_nodes \in Nat \ {0}
      /\ pr.max_plan_depth \in Nat \ {0}
  BY ProblemAssumption
<1>2. ASSUME NEW s \in State, NEW a \in 1..Actions
      PROVE  pr.succ[s][a] \in State \cup {None} /\ pr.cost[s][a] \in Nat
  <2>1. /\ pr.succ[s] \in [1..Actions -> State \cup {None}]
        /\ pr.cost[s] \in [1..Actions -> Nat]
    BY Zenon, <1>1, <1>2
  <2> QED
    BY Zenon, <1>2, <2>1
<1> QED
  BY Zenon, <1>1, <1>2

-----------------------------------------------------------------------------
(* What a plan does *)

\* Outcome, of a given problem.
OutcomeIn(pr, p) ==
  LET run[i \in 0..Len(p)] ==
        IF i = 0 THEN [state |-> Start, cost |-> 0]
        ELSE LET before == run[i - 1].state IN
             IF before = None THEN run[i - 1]
             ELSE [state |-> pr.succ[before][p[i]],
                   cost |-> run[i - 1].cost + pr.cost[before][p[i]]]
  IN  run[Len(p)]

\* OutcomeIn is Outcome for the problem of the run.
LEMMA OutcomeIsIn ==
  ASSUME NEW p
  PROVE  Outcome(p) = OutcomeIn(problem, p)
  BY DEF Outcome, OutcomeIn

\* One more action from outcome v.
Step(pr, v, a) ==
  IF v.state = None THEN v
  ELSE [state |-> pr.succ[v.state][a], cost |-> v.cost + pr.cost[v.state][a]]

Sum == [state : State \cup {None}, cost : Nat]

RunTable(pr, p, n, run) ==
  /\ run \in [0..n -> Sum]
  /\ OutcomeIn(pr, p) = run[n]
  /\ run[0] = [state |-> Start, cost |-> 0]
  /\ \A i \in 1..n : run[i] = Step(pr, run[i - 1], p[i])

\* A step leads to a state or to None, at a natural cost.
LEMMA StepType ==
  ASSUME NEW pr \in Problems, NEW v \in Sum, NEW a \in 1..Actions
  PROVE  Step(pr, v, a) \in Sum
<1>1. v.state \in State \cup {None} /\ v.cost \in Nat
  BY DEF Sum
<1>2. CASE v.state = None
  BY <1>2 DEF Step
<1>3. CASE v.state # None
  <2>1. pr.succ[v.state][a] \in State \cup {None} /\ pr.cost[v.state][a] \in Nat
    BY <1>1, <1>3, ProblemType
  <2>2. v.cost + pr.cost[v.state][a] \in Nat
    BY <1>1, <2>1
  <2> QED
    BY <1>3, <2>1, <2>2 DEF Step, Sum
<1> QED
  BY <1>2, <1>3

\* The recursion of Outcome has the solution it describes.
LEMMA OutcomeUnfolds ==
  ASSUME NEW pr \in Problems, NEW p \in Seq(1..Actions), NEW n, n = Len(p)
  PROVE  \E run : RunTable(pr, p, n, run)
<1> DEFINE D == 0..n
           first == [state |-> Start, cost |-> 0]
           rank == [i \in D |-> i]
           stop == {0}
           base == [i \in D |-> first]
           prev == [i \in D |-> IF i = 0 THEN 0 ELSE i - 1]
           step == [i \in D |-> [v \in Sum |-> IF i = 0 THEN v ELSE Step(pr, v, p[i])]]
           Body(f, i) == IF i = 0 THEN [state |-> Start, cost |-> 0]
                         ELSE LET before == f[i - 1].state IN
                              IF before = None THEN f[i - 1]
                              ELSE [state |-> pr.succ[before][p[i]],
                                    cost |-> f[i - 1].cost + pr.cost[before][p[i]]]
<1>1. n \in Nat /\ 0 \in D /\ n \in D /\ (\A i \in D : i \in Nat /\ i <= n)
  OBVIOUS
<1>2. \A i \in D : i # 0 => i \in 1..n /\ p[i] \in 1..Actions
  <2>1. p \in [1..n -> 1..Actions]
    BY Zenon, SeqIsFunction
  <2> QED
    BY <1>1, <2>1
<1>3. first \in Sum
  BY DomainAssumption DEF Sum
<1>4. WellDefined(D, Sum, n, rank, stop, base, prev, step)
  <2>1. rank \in [D -> 0..n] /\ stop \in SUBSET D
    BY <1>1
  <2>2. base \in [D -> Sum]
    BY <1>3
  <2>3. prev \in [D -> D]
    BY <1>1
  <2>4. step \in [D -> [Sum -> Sum]]
    BY <1>2, StepType
  <2>5. \A i \in D \ stop : rank[prev[i]] < rank[i]
    BY <1>1
  <2> HIDE DEF D, rank, stop, base, prev, step
  <2> QED
    BY <1>1, <2>1, <2>2, <2>3, <2>4, <2>5 DEF WellDefined
<1>5. PICK f \in [D -> Sum] : Recurs(f, D, stop, base, prev, step)
  <2> HIDE DEF D, rank, stop, base, prev, step
  <2> QED
    BY <1>4, Recursion
<1>6. f[0] = first
  BY Zenon, <1>1, <1>5 DEF Recurs
<1>7. ASSUME NEW i \in 1..n PROVE f[i] = Step(pr, f[i - 1], p[i])
  <2>1. i \in D /\ i # 0 /\ i - 1 \in D /\ i \notin stop
    BY <1>1
  <2>2. f[i] = step[i][f[prev[i]]]
    BY <1>5, <2>1 DEF Recurs
  <2>3. prev[i] = i - 1 /\ f[i - 1] \in Sum
    BY <2>1
  <2> QED
    BY <2>1, <2>2, <2>3
<1>8. ASSUME NEW i \in D PROVE f[i] = Body(f, i)
  <2>1. i # 0 => i \in 1..n
    BY <1>1
  <2> QED
    BY Zenon, <1>6, <1>7, <2>1 DEF Step
<1> DEFINE run == CHOOSE g : g = [i \in D |-> Body(g, i)]
<1>9. OutcomeIn(pr, p) = run[n]
  BY DEF OutcomeIn
<1>10. run = [i \in D |-> Body(run, i)]
  <2>1. f = [i \in D |-> Body(f, i)]
    BY <1>8
  <2> HIDE DEF Body
  <2> QED
    BY Zenon, <2>1
<1> HIDE DEF run
<1>11. ASSUME NEW i \in D, \A j \in D : rank[j] < rank[i] => run[j] = f[j]
       PROVE  run[i] = f[i]
  <2>1. run[i] = Body(run, i)
    <3> HIDE DEF Body
    <3> QED
      BY Zenon, <1>10
  <2>2. CASE i = 0
    BY Zenon, <1>6, <2>1, <2>2
  <2>3. CASE i # 0
    <3>1. i - 1 \in D /\ rank[i - 1] < rank[i]
      BY <1>1, <2>3
    <3>2. run[i - 1] = f[i - 1]
      BY <1>11, <3>1
    <3>3. Body(run, i) = Body(f, i)
      BY Zenon, <2>3, <3>2
    <3> QED
      BY Zenon, <1>8, <2>1, <3>3
  <2> QED
    BY <2>2, <2>3
<1>12. \A i \in D : run[i] = f[i]
  <2> DEFINE T == {i \in D : run[i] # f[i]}
  <2> SUFFICES ASSUME T # {} PROVE FALSE
    OBVIOUS
  <2>1. PICK i \in T : \A j \in D : rank[j] < rank[i] => j \notin T
    <3>1. RanksSome(D, rank, T)
      BY <1>1 DEF RanksSome
    <3> HIDE DEF D, rank, T
    <3> QED
      BY Zenon, <3>1, LeastRanked
  <2> HIDE DEF rank
  <2> QED
    BY Zenon, <1>11, <2>1
<1>13. OutcomeIn(pr, p) = f[n]
  BY Zenon, <1>1, <1>9, <1>12
<1> QED
  BY Zenon, <1>6, <1>7, <1>13 DEF RunTable

\* The empty plan stays at the start.
LEMMA OutcomeOfNothing ==
  ASSUME NEW pr \in Problems
  PROVE  OutcomeIn(pr, <<>>) = [state |-> Start, cost |-> 0]
<1>1. <<>> \in Seq(1..Actions) /\ Len(<<>>) = 0
  OBVIOUS
<1>2. PICK run : RunTable(pr, <<>>, 0, run)
  BY Zenon, <1>1, OutcomeUnfolds
<1> QED
  BY Zenon, <1>2 DEF RunTable

\* A plan with one more action leads one step further.
LEMMA OutcomeOfAppend ==
  ASSUME NEW pr \in Problems, NEW p \in Seq(1..Actions), NEW a \in 1..Actions
  PROVE  OutcomeIn(pr, Append(p, a)) = Step(pr, OutcomeIn(pr, p), a)
<1> DEFINE q == Append(p, a)
           n == Len(p)
           m == n + 1
<1>1. /\ q \in Seq(1..Actions) /\ Len(q) = m /\ n \in Nat /\ m \in Nat
      /\ q[m] = a /\ \A i \in 1..n : q[i] = p[i]
  OBVIOUS
<1> HIDE DEF q
<1>2. PICK f : RunTable(pr, p, n, f)
  BY OutcomeUnfolds
<1> HIDE DEF n
<1>3. PICK h : RunTable(pr, q, m, h)
  <2> HIDE DEF m
  <2> QED
    BY <1>1, OutcomeUnfolds
<1>4. /\ OutcomeIn(pr, p) = f[n] /\ f[0] = h[0]
      /\ \A i \in 1..n : f[i] = Step(pr, f[i - 1], p[i])
  BY Zenon, <1>2, <1>3 DEF RunTable
<1>5. /\ OutcomeIn(pr, q) = h[m]
      /\ \A i \in 1..m : h[i] = Step(pr, h[i - 1], q[i])
  BY Zenon, <1>3 DEF RunTable
<1> DEFINE T == {i \in 0..n : h[i] # f[i]}
<1>6. T = {}
  <2> SUFFICES ASSUME T # {} PROVE FALSE
    OBVIOUS
  <2>1. T \in SUBSET Nat
    BY <1>1
  <2>2. PICK i \in T : \A j \in T : i <= j
    <3> HIDE DEF T
    <3> QED
      BY Zenon, <2>1, Least
  <2>3. i \in 0..n /\ h[i] # f[i] /\ i # 0
    BY <1>4
  <2>4. i \in 1..n /\ i \in 1..m /\ i - 1 \in 0..n /\ i \in Nat /\ i - 1 \in Nat /\ ~(i <= i - 1)
    BY <1>1, <2>3
  <2>5. h[i - 1] = f[i - 1]
    BY <2>2, <2>4
  <2>6. h[i] = Step(pr, h[i - 1], q[i]) /\ f[i] = Step(pr, f[i - 1], p[i]) /\ q[i] = p[i]
    BY Zenon, <1>1, <1>4, <1>5, <2>4
  <2> QED
    BY Zenon, <2>3, <2>5, <2>6
<1>7. n \in 0..n /\ m \in 1..m /\ m - 1 = n
  BY <1>1
<1>8. h[n] = f[n]
  BY <1>6, <1>7
<1>9. h[m] = Step(pr, h[m - 1], q[m])
  BY Zenon, <1>5, <1>7
<1> QED
  BY Zenon, <1>1, <1>4, <1>5, <1>7, <1>8, <1>9 DEF q

-----------------------------------------------------------------------------
(* The plan to a node *)

\* The parts of the nodes a search holds.
LEMMA NodeType ==
  ASSUME problem \in Problems, NodesInv
  PROVE  /\ Len(nodes) \in Nat /\ Len(nodes) >= 1 /\ DOMAIN nodes = 1..Len(nodes)
         /\ \A i \in 1..Len(nodes) :
              /\ nodes[i] \in Node
              /\ nodes[i].state \in State /\ nodes[i].depth \in Nat /\ nodes[i].g \in Nat
              /\ nodes[i].f \in Nat
         /\ nodes[1].state = Start /\ nodes[1].depth = 0 /\ nodes[1].g = 0
         /\ nodes[1].act = 0 /\ nodes[1].parent = 0
<1>1. nodes \in Seq(Node) /\ nodes # <<>> /\ nodes[1] = SearchNode(Start, 0, 0, 0, 0)
  BY DEF NodesInv
<1>2. nodes \in [1..Len(nodes) -> Node] /\ Len(nodes) \in Nat
  BY <1>1, SeqIsFunction
<1>3. Len(nodes) >= 1
  BY <1>1
<1>4. \A x \in Node : x.state \in State /\ x.depth \in Nat /\ x.g \in Nat /\ x.f \in Nat
  BY DEF Node
<1>5. 0 \in Nat /\ 0 \in 0..Actions /\ Start \in State
  BY DomainAssumption
<1>6. /\ nodes[1].state = Start /\ nodes[1].depth = 0 /\ nodes[1].g = 0
      /\ nodes[1].act = 0 /\ nodes[1].parent = 0
  BY <1>1, <1>5, SearchNodeType
<1> QED
  BY <1>2, <1>3, <1>4, <1>6

WalkTable(i, walk) ==
  /\ walk \in [1..i -> Seq(1..Actions)]
  /\ ActionsTo(i) = walk[i]
  /\ walk[1] = <<>>
  /\ \A j \in 2..i : walk[j] = Append(walk[nodes[j].parent], nodes[j].act)

\* The recursion of ActionsTo has the solution it describes.
LEMMA ActionsToUnfolds ==
  ASSUME problem \in Problems, NodesInv, NEW n \in 1..Len(nodes)
  PROVE  \E walk : WalkTable(n, walk)
<1> DEFINE D == 1..n
           V == Seq(1..Actions)
           rank == [i \in D |-> i]
           stop == {1}
           base == [i \in D |-> <<>>]
           prev == [i \in D |-> IF i = 1 THEN 1 ELSE nodes[i].parent]
           step == [i \in D |-> [v \in V |-> IF i = 1 THEN v ELSE Append(v, nodes[i].act)]]
           Body(f, i) == IF i = 1 THEN <<>> ELSE Append(f[nodes[i].parent], nodes[i].act)
<1>1. n \in Nat /\ 1 \in D /\ n \in D /\ (\A i \in D : i \in Nat /\ 1 <= i /\ i <= n)
  BY NodeType
<1>2. \A i \in D : i # 1 => /\ i \in 2..Len(nodes) /\ i \in 2..n
  BY <1>1, NodeType
<1>3. ASSUME NEW i \in D, i # 1
      PROVE  nodes[i].parent \in D /\ nodes[i].parent < i /\ nodes[i].act \in 1..Actions
  <2>1. nodes[i].parent \in 1..(i - 1) /\ nodes[i].act \in 1..Actions
    BY Zenon, <1>2, <1>3 DEF NodesInv, Extends
  <2> QED
    BY <1>1, <2>1
<1>4. WellDefined(D, V, n, rank, stop, base, prev, step)
  <2>1. rank \in [D -> 0..n] /\ stop \in SUBSET D
    BY <1>1
  <2>2. base \in [D -> V]
    OBVIOUS
  <2>3. prev \in [D -> D]
    BY <1>1, <1>3
  <2>4. step \in [D -> [V -> V]]
    <3>1. ASSUME NEW i \in D, NEW v \in V, i # 1 PROVE Append(v, nodes[i].act) \in V
      <4>1. nodes[i].act \in 1..Actions
        BY <1>3, <3>1
      <4> DEFINE a == nodes[i].act
      <4> HIDE DEF a
      <4>2. Append(v, a) \in Seq(1..Actions)
        BY <4>1 DEF a
      <4> QED
        BY <4>2 DEF a
    <3> HIDE DEF V, D
    <3> QED
      BY <3>1
  <2>5. \A i \in D \ stop : rank[prev[i]] < rank[i]
    BY <1>1, <1>3
  <2> HIDE DEF D, V, rank, stop, base, prev, step
  <2> QED
    BY Zenon, <1>1, <2>1, <2>2, <2>3, <2>4, <2>5 DEF WellDefined
<1>5. PICK f \in [D -> V] : Recurs(f, D, stop, base, prev, step)
  <2> HIDE DEF D, V, rank, stop, base, prev, step
  <2> QED
    BY <1>4, Recursion
<1>6. f[1] = <<>>
  BY Zenon, <1>1, <1>5 DEF Recurs
<1>7. ASSUME NEW i \in D, i # 1 PROVE f[i] = Append(f[nodes[i].parent], nodes[i].act)
  <2>1. i \notin stop /\ prev[i] = nodes[i].parent /\ nodes[i].parent \in D
    BY <1>3, <1>7
  <2>2. f[i] = step[i][f[prev[i]]]
    BY Zenon, <1>5, <2>1 DEF Recurs
  <2>3. f[nodes[i].parent] \in V
    BY <2>1
  <2> HIDE DEF D, V, prev
  <2> QED
    BY Zenon, <1>7, <2>1, <2>2, <2>3
<1>8. ASSUME NEW i \in D PROVE f[i] = Body(f, i)
  BY Zenon, <1>6, <1>7
<1> DEFINE walk == CHOOSE g : g = [i \in D |-> Body(g, i)]
<1>9. ActionsTo(n) = walk[n]
  BY DEF ActionsTo
<1>10. walk = [i \in D |-> Body(walk, i)]
  <2>1. f = [i \in D |-> Body(f, i)]
    BY <1>8
  <2> HIDE DEF Body
  <2> QED
    BY Zenon, <2>1
<1> HIDE DEF walk
<1>11. ASSUME NEW i \in D, \A j \in D : rank[j] < rank[i] => walk[j] = f[j]
       PROVE  walk[i] = f[i]
  <2>1. walk[i] = Body(walk, i)
    <3> HIDE DEF Body
    <3> QED
      BY Zenon, <1>10
  <2>2. CASE i = 1
    BY Zenon, <1>6, <2>1, <2>2
  <2>3. CASE i # 1
    <3>1. nodes[i].parent \in D /\ rank[nodes[i].parent] < rank[i]
      BY <1>3, <2>3
    <3>2. walk[nodes[i].parent] = f[nodes[i].parent]
      BY Zenon, <1>11, <3>1
    <3>3. Body(walk, i) = Body(f, i)
      BY Zenon, <2>3, <3>2
    <3> QED
      BY Zenon, <1>8, <2>1, <3>3
  <2> QED
    BY <2>2, <2>3
<1>12. \A i \in D : walk[i] = f[i]
  <2> DEFINE T == {i \in D : walk[i] # f[i]}
  <2> SUFFICES ASSUME T # {} PROVE FALSE
    BY Zenon
  <2>1. PICK i \in T : \A j \in D : rank[j] < rank[i] => j \notin T
    <3>1. RanksSome(D, rank, T)
      BY <1>1 DEF RanksSome
    <3> HIDE DEF D, rank, T
    <3> QED
      BY Zenon, <3>1, LeastRanked
  <2> HIDE DEF rank
  <2> QED
    BY Zenon, <1>11, <2>1
<1>13. ActionsTo(n) = f[n]
  BY Zenon, <1>1, <1>9, <1>12
<1>14. \A i \in 2..n : i \in D /\ i # 1
  BY <1>1
<1> QED
  BY Zenon, <1>6, <1>7, <1>13, <1>14 DEF WalkTable

\* The actions to a node lead to its state, at its cost.
LEMMA ActionsReach ==
  ASSUME problem \in Problems, NodesInv, NEW n \in 1..Len(nodes)
  PROVE  /\ Len(ActionsTo(n)) = nodes[n].depth
         /\ OutcomeIn(problem, ActionsTo(n)) = [state |-> nodes[n].state, cost |-> nodes[n].g]
<1>1. PICK walk : WalkTable(n, walk)
  BY ActionsToUnfolds
<1> DEFINE P(j) == /\ Len(walk[j]) = nodes[j].depth
                   /\ OutcomeIn(problem, walk[j]) = [state |-> nodes[j].state, cost |-> nodes[j].g]
           T == {j \in 1..n : ~P(j)}
<1>2. /\ walk \in [1..n -> Seq(1..Actions)] /\ ActionsTo(n) = walk[n] /\ walk[1] = <<>>
      /\ \A j \in 2..n : walk[j] = Append(walk[nodes[j].parent], nodes[j].act)
  BY Zenon, <1>1 DEF WalkTable
<1>3. /\ n \in Nat /\ n \in 1..n /\ \A j \in 1..n : j \in Nat /\ j \in 1..Len(nodes)
      /\ \A j \in 1..n : j # 1 => j \in 2..n /\ j \in 2..Len(nodes)
  BY NodeType
<1>4. P(1)
  <2>1. OutcomeIn(problem, walk[1]) = [state |-> Start, cost |-> 0]
    BY Zenon, <1>2, OutcomeOfNothing
  <2>2. nodes[1].state = Start /\ nodes[1].depth = 0 /\ nodes[1].g = 0
    BY Zenon, NodeType
  <2>3. Len(walk[1]) = 0
    BY <1>2
  <2> QED
    BY Zenon, <2>1, <2>2, <2>3
<1>5. ASSUME NEW j \in 1..n, j # 1, P(nodes[j].parent) PROVE P(j)
  <2> DEFINE b == nodes[j].parent
             a == nodes[j].act
             p == walk[b]
  <2>1. /\ b \in 1..(j - 1) /\ a \in 1..Actions
        /\ nodes[j].state = problem.succ[nodes[b].state][a]
        /\ nodes[j].g = nodes[b].g + problem.cost[nodes[b].state][a]
        /\ nodes[j].depth = nodes[b].depth + 1
    BY Zenon, <1>3, <1>5 DEF NodesInv, Extends
  <2>2. walk[j] = Append(p, a)
    BY Zenon, <1>2, <1>3, <1>5
  <2>3. b \in 1..n /\ b \in 1..Len(nodes)
    <3> HIDE DEF b
    <3>1. b \in 1..n
      BY <1>3, <1>5, <2>1
    <3> QED
      BY Zenon, <1>3, <3>1
  <2>4. nodes[b].state \in State /\ nodes[b].state # None /\ p \in Seq(1..Actions)
    <3>1. nodes[b].state \in State
      BY Zenon, <2>3, NodeType
    <3> HIDE DEF b
    <3> QED
      BY Zenon, <1>2, <2>3, <3>1, DomainAssumption
  <2>5. /\ Len(p) = nodes[b].depth
        /\ OutcomeIn(problem, p) = [state |-> nodes[b].state, cost |-> nodes[b].g]
    BY Zenon, <1>5
  <2> HIDE DEF a, b, p
  <2>6. Len(walk[j]) = nodes[j].depth
    <3>1. Len(Append(p, a)) = Len(p) + 1
      BY <2>1, <2>4
    <3> QED
      BY Zenon, <2>1, <2>2, <2>5, <3>1
  <2>7. OutcomeIn(problem, walk[j]) = Step(problem, OutcomeIn(problem, p), a)
    BY Zenon, <2>1, <2>2, <2>4, OutcomeOfAppend
  <2> DEFINE v == OutcomeIn(problem, p)
  <2>8. v.state = nodes[b].state /\ v.cost = nodes[b].g
    BY <2>5
  <2> HIDE DEF v
  <2>9. Step(problem, v, a) = [state |-> nodes[j].state, cost |-> nodes[j].g]
    BY Zenon, <2>1, <2>4, <2>8 DEF Step
  <2> QED
    BY Zenon, <2>6, <2>7, <2>9 DEF v
<1> HIDE DEF P
<1>6. T = {}
  <2> SUFFICES ASSUME T # {} PROVE FALSE
    OBVIOUS
  <2>1. T \in SUBSET Nat
    BY <1>3
  <2>2. PICK j \in T : \A q \in T : j <= q
    <3> HIDE DEF T
    <3> QED
      BY Zenon, <2>1, Least
  <2>3. j \in 1..n /\ j # 1
    BY <1>4
  <2>4. nodes[j].parent \in 1..(j - 1)
    BY Zenon, <1>3, <2>3 DEF NodesInv, Extends
  <2>5. nodes[j].parent \in 1..n /\ ~(j <= nodes[j].parent)
    BY <1>3, <2>3, <2>4
  <2>6. P(nodes[j].parent)
    BY Zenon, <2>2, <2>5
  <2> QED
    BY Zenon, <1>5, <2>3, <2>6
<1>7. P(n)
  BY Zenon, <1>3, <1>6
<1> QED
  BY Zenon, <1>2, <1>7 DEF P

-----------------------------------------------------------------------------
(* The invariant *)

\* The keys of the heap are numbers.
LEMMA EntryKeys == \A x \in Entry : x.f \in Nat
  BY DEF Entry

\* PushedEntries for the entries of the planner.
LEMMA EntryPushed ==
  ASSUME NEW h, IsHeap(h), NEW e \in Entry, e \notin Range(h), NEW r, r = heap_push(h, e)
  PROVE  /\ IsHeap(r)
         /\ Len(r) = Len(h) + 1 /\ Range(r) = Range(h) \cup {e}
<1> DEFINE E == Entry
<1>1. e \in E /\ \A x \in E : x.f \in Nat
  BY EntryKeys
<1>2. h \in Seq(E) /\ HeapOrder(h) /\ Distinct(h)
  BY Zenon DEF IsHeap
<1> HIDE DEF E
<1>3. /\ r \in Seq(E) /\ HeapOrder(r) /\ Distinct(r)
      /\ Len(r) = Len(h) + 1 /\ Range(r) = Range(h) \cup {e}
  BY <1>1, <1>2, PushedEntries
<1> QED
  BY Zenon, <1>3 DEF E, IsHeap

\* PoppedEntries for the entries of the planner: the root is a least one.
LEMMA EntryPopped ==
  ASSUME NEW h, IsHeap(h), h # <<>>, NEW r, r = heap_pop(h)
  PROVE  /\ IsHeap(r) /\ h[1] \in Range(h)
         /\ Len(r) = Len(h) - 1 /\ Range(r) = Range(h) \ {h[1]}
         /\ \A d \in Range(h) : h[1].f <= d.f
<1> DEFINE E == Entry
<1>1. \A x \in E : x.f \in Nat
  BY EntryKeys
<1>2. h \in Seq(E) /\ HeapOrder(h) /\ Distinct(h)
  BY Zenon DEF IsHeap
<1> HIDE DEF E
<1>3. /\ r \in Seq(E) /\ HeapOrder(r) /\ Distinct(r) /\ h[1] \in Range(h)
      /\ Len(r) = Len(h) - 1 /\ Range(r) = Range(h) \ {h[1]}
  BY <1>1, <1>2, PoppedEntries
<1>4. \A j \in 1..Len(h) : h[1].f <= h[j].f
  BY Zenon, <1>1, <1>2, RootLeast
<1>5. DOMAIN h = 1..Len(h)
  BY <1>2
<1>6. \A d \in Range(h) : h[1].f <= d.f
  BY Zenon, <1>4, <1>5 DEF Range
<1> QED
  BY Zenon, <1>3, <1>6 DEF E, IsHeap

\* fleece_goap_plan starts with the root in nodes, in the heap and visited.
LEMMA InitSearch == Init => SearchInv
<1> SUFFICES ASSUME Init PROVE SearchInv
  OBVIOUS
<1> DEFINE root == SearchNode(Start, 0, 0, 0, 0)
           e == [f |-> root.f, idx |-> 1]
<1>1. /\ problem \in Problems /\ nodes = <<root>> /\ visited = {Start} /\ iters = 0
      /\ cur = 0 /\ act = 0 /\ result = Searching
      /\ open = heap_push(<<>>, [f |-> nodes[1].f, idx |-> 1])
  BY Zenon DEF Init
<1>2. root \in Node /\ root.state = Start
  <2>1. Start \in State /\ 0 \in Nat /\ 0 \in 0..Actions
    BY DomainAssumption
  <2>2. root = SearchNode(Start, 0, 0, 0, 0)
    OBVIOUS
  <2> HIDE DEF root
  <2> QED
    BY <2>1, <2>2, SearchNodeType
<1> HIDE DEF root
<1>3. /\ nodes \in Seq(Node) /\ nodes # <<>> /\ nodes[1] = root /\ Len(nodes) = 1
      /\ \A i \in 1..Len(nodes) : i = 1
  BY <1>1, <1>2
<1>4. NodesInv
  <2>1. \A i \in 2..Len(nodes) : FALSE
    BY <1>3
  <2>2. Start \in State
    BY DomainAssumption
  <2> QED
    BY Zenon, <1>1, <1>2, <1>3, <2>1, <2>2 DEF NodesInv, root
<1>5. root.f \in Nat /\ e \in Entry /\ e.idx = 1 /\ e.f = root.f
  BY <1>2 DEF Node, Entry
<1>6. open = heap_push(<<>>, e)
  BY <1>1, <1>3
<1> HIDE DEF e
<1>7. IsHeap(open) /\ Range(open) = {e}
  <2> DEFINE none == <<>>
  <2>1. none \in Seq(Entry) /\ Len(none) = 0 /\ Range(none) = {}
    BY DEF Range
  <2>2. IsHeap(none)
    BY <2>1 DEF IsHeap, HeapOrder, Distinct
  <2>3. open = heap_push(none, e) /\ e \notin Range(none)
    BY <1>6, <2>1
  <2> HIDE DEF none
  <2>4. IsHeap(open) /\ Range(open) = Range(none) \cup {e}
    BY <1>5, <2>2, <2>3, EntryPushed
  <2> QED
    BY <2>1, <2>4
<1>8. OpenInv
  <2>1. \A x \in Range(open) : x = e
    BY <1>7
  <2>2. 1 \in 1..Len(nodes)
    BY <1>3
  <2> QED
    BY Zenon, <1>3, <1>5, <1>7, <2>1, <2>2 DEF OpenInv
<1>9. BudgetInv
  <2>1. problem.max_iters \in Nat \ {0} /\ problem.max_nodes \in Nat \ {0}
    BY Zenon, <1>1, ProblemType
  <2> QED
    BY <1>1, <1>3, <2>1, DomainAssumption DEF BudgetInv
<1>10. PlanSound
  <2>1. result.found = FALSE
    BY <1>1 DEF Searching
  <2> QED
    BY Zenon, <2>1 DEF PlanSound
<1> QED
  BY Zenon, <1>1, <1>4, <1>8, <1>9, <1>10 DEF SearchInv

\* PlanSound speaks of the problem and the result only.
SoundIn(pr, res) ==
  res.found =>
    LET end == OutcomeIn(pr, res.plan) IN
    /\ end.state # None /\ GoalsMet(end.state)
    /\ end.cost = res.cost
    /\ Len(res.plan) <= pr.max_plan_depth

\* PlanSound of the result before a step,
LEMMA SoundNow == PlanSound <=> SoundIn(problem, result)
  BY Zenon, OutcomeIsIn DEF PlanSound, SoundIn

\* and after it.
LEMMA SoundNext == PlanSound' <=> SoundIn(problem', result')
<1>1. Outcome(result.plan)' = OutcomeIn(problem', result'.plan)
  BY DEF Outcome, OutcomeIn
<1> QED
  BY Zenon, <1>1 DEF PlanSound, SoundIn, GoalsMet, Unsatisfied

\* A step that adds no node.
LEMMA SameNodes ==
  ASSUME NodesInv, UNCHANGED <<problem, nodes, visited>>
  PROVE  NodesInv'
<1>1. problem' = problem /\ nodes' = nodes /\ visited' = visited
  OBVIOUS
<1>2. \A i \in 2..Len(nodes) : Extends(i)'
  BY Zenon, <1>1 DEF NodesInv, Extends
<1> QED
  BY Zenon, <1>1, <1>2 DEF NodesInv

\* A step that leaves the result alone.
LEMMA SameSound ==
  ASSUME PlanSound, problem' = problem, result' = result
  PROVE  PlanSound'
  BY Zenon, SoundNow, SoundNext

\* A turn of fleece_goap_plan's loop that pops a node: a goal gives its plan.
LEMMA PopSearch ==
  ASSUME SearchInv, Pop
  PROVE  SearchInv'
<1> DEFINE i == open[1].idx
<1>1. /\ ~result.ended /\ cur = 0 /\ open # <<>> /\ open' = heap_pop(open)
      /\ Len(nodes) <= problem.max_nodes /\ iters < problem.max_iters /\ iters' = iters + 1
      /\ problem' = problem /\ nodes' = nodes /\ visited' = visited
  BY DEF Pop, WithinBudget
<1>2. \/ /\ GoalsMet(nodes[i].state)
         /\ result' = [found |-> TRUE, ended |-> TRUE, plan |-> ActionsTo(i), cost |-> nodes[i].g]
         /\ cur' = cur /\ act' = act
      \/ cur' = i /\ act' = 1 /\ result' = result
  BY DEF Pop
<1>3. problem \in Problems /\ NodesInv /\ OpenInv /\ BudgetInv /\ PlanSound
  BY Zenon DEF SearchInv
<1>4. /\ IsHeap(open') /\ open[1] \in Range(open)
      /\ Range(open') = Range(open) \ {open[1]}
  BY <1>1, <1>3, EntryPopped DEF OpenInv
<1>5. i \in 1..Len(nodes)
  BY Zenon, <1>3, <1>4 DEF OpenInv
<1> HIDE DEF i
<1>6. NodesInv'
  BY Zenon, <1>1, <1>3, SameNodes
<1>7. OpenInv'
  <2>1. \A e \in Range(open') : e \in Range(open)
    BY <1>4
  <2> QED
    BY Zenon, <1>1, <1>3, <1>4, <2>1 DEF OpenInv
<1>8. BudgetInv'
  <2>1. /\ problem.max_iters \in Nat \ {0} /\ problem.max_nodes \in Nat \ {0}
        /\ Actions \in Nat \ {0} /\ Len(nodes) \in Nat
    BY Zenon, <1>3, ProblemType, NodeType, DomainAssumption
  <2>2. act = 0 /\ iters \in Nat
    BY <1>1, <1>3 DEF BudgetInv
  <2> QED
    BY <1>1, <1>2, <1>5, <2>1, <2>2 DEF BudgetInv
<1>9. PlanSound'
  <2>1. CASE result' = result
    BY Zenon, <1>1, <1>3, <2>1, SameSound
  <2>2. CASE /\ GoalsMet(nodes[i].state)
             /\ result' = [found |-> TRUE, ended |-> TRUE, plan |-> ActionsTo(i), cost |-> nodes[i].g]
    <3>1. /\ Len(ActionsTo(i)) = nodes[i].depth
          /\ OutcomeIn(problem, ActionsTo(i)) = [state |-> nodes[i].state, cost |-> nodes[i].g]
      BY Zenon, <1>3, <1>5, ActionsReach
    <3>2. nodes[i].depth <= problem.max_plan_depth
      <4>1. CASE i = 1
        <5>1. nodes[i].depth = 0
          BY Zenon, <1>3, <4>1, NodeType
        <5>2. problem.max_plan_depth \in Nat \ {0}
          BY Zenon, <1>3, ProblemType
        <5> QED
          BY <5>1, <5>2
      <4>2. CASE i # 1
        <5>1. i \in 2..Len(nodes)
          BY <1>3, <1>5, <4>2, NodeType
        <5> QED
          BY Zenon, <1>3, <5>1 DEF NodesInv, Extends
      <4> QED
        BY <4>1, <4>2
    <3>3. nodes[i].state \in State
      BY Zenon, <1>3, <1>5, NodeType
    <3> DEFINE end == OutcomeIn(problem, ActionsTo(i))
    <3>4. end.state = nodes[i].state /\ end.cost = nodes[i].g
      BY <3>1
    <3>5. result'.plan = ActionsTo(i) /\ result'.cost = nodes[i].g
      BY <2>2
    <3> HIDE DEF end
    <3>6. end.state # None
      BY Zenon, <3>3, <3>4, DomainAssumption
    <3>7. SoundIn(problem, result')
      BY Zenon, <2>2, <3>1, <3>2, <3>4, <3>5, <3>6 DEF SoundIn, end
    <3> QED
      BY Zenon, <1>1, <3>7, SoundNext
  <2> QED
    BY Zenon, <1>2, <2>1, <2>2
<1> QED
  BY Zenon, <1>1, <1>3, <1>6, <1>7, <1>8, <1>9 DEF SearchInv

\* The search ends without a plan.
LEMMA GiveUpSearch ==
  ASSUME SearchInv, GiveUp
  PROVE  SearchInv'
<1>1. /\ result' = NoPlan /\ problem' = problem /\ nodes' = nodes /\ open' = open
      /\ visited' = visited /\ iters' = iters /\ cur' = cur /\ act' = act
  BY DEF GiveUp
<1>2. problem \in Problems /\ NodesInv /\ OpenInv /\ BudgetInv
  BY Zenon DEF SearchInv
<1>3. NodesInv'
  BY Zenon, <1>1, <1>2, SameNodes
<1>4. OpenInv' /\ BudgetInv'
  BY Zenon, <1>1, <1>2 DEF OpenInv, BudgetInv
<1>5. PlanSound'
  <2>1. NoPlan.found = FALSE
    BY DEF NoPlan, Searching
  <2>2. SoundIn(problem, result')
    BY Zenon, <1>1, <2>1 DEF SoundIn
  <2> QED
    BY Zenon, <1>1, <2>2, SoundNext
<1> QED
  BY Zenon, <1>1, <1>2, <1>3, <1>4, <1>5 DEF SearchInv

\* An appended node leaves the others where they are.
LEMMA AppendedNode ==
  ASSUME NEW E, NEW s \in Seq(E), NEW x \in E, NEW t, t = Append(s, x)
  PROVE  /\ t \in Seq(E) /\ Len(t) = Len(s) + 1 /\ Len(s) \in Nat
         /\ t[Len(s) + 1] = x
         /\ \A i \in 1..Len(s) : t[i] = s[i]
  OBVIOUS

\* The actions are tried one by one.
LEMMA AfterType ==
  ASSUME NEW a \in 1..Actions
  PROVE  /\ After(a) \in 0..Actions
         /\ After(a) = 0 => a = Actions
         /\ After(a) # 0 => After(a) = a + 1
  BY DomainAssumption DEF After

\* One action is tried: a new node is a successor of the expanded one.
LEMMA ExpandSearch ==
  ASSUME SearchInv, Expand
  PROVE  SearchInv'
<1> DEFINE node == nodes[cur]
           s == problem.succ[node.state][act]
           c == problem.cost[node.state][act]
           x == SearchNode(s, cur, act, node.depth + 1, node.g + c)
           N == Len(nodes)
<1>1. /\ cur # 0 /\ act' = After(act) /\ cur' = (IF act' = 0 THEN 0 ELSE cur)
      /\ problem' = problem /\ iters' = iters /\ result' = result
  BY Zenon DEF Expand
<1>2. \/ /\ s # None /\ node.depth + 1 <= problem.max_plan_depth
         /\ visited' = visited \cup {s} /\ nodes' = Append(nodes, x)
         /\ open' = heap_push(open, [f |-> nodes'[Len(nodes')].f, idx |-> Len(nodes')])
      \/ /\ visited' = visited \/ (s # None /\ visited' = visited \cup {s})
         /\ nodes' = nodes /\ open' = open
  <2> DEFINE fresh == s # None /\ s \notin visited /\ Cardinality(visited) < VisitedCap
             kept == fresh /\ WithinDepthCap(node.depth + 1)
  <2>1. /\ visited' = IF fresh THEN visited \cup {s} ELSE visited
        /\ nodes' = IF kept THEN Append(nodes, x) ELSE nodes
        /\ open' = IF kept
                   THEN heap_push(open, [f |-> nodes'[Len(nodes')].f, idx |-> Len(nodes')])
                   ELSE open
    BY Zenon DEF Expand
  <2>2. /\ fresh => s # None
        /\ kept => fresh /\ node.depth + 1 <= problem.max_plan_depth
    BY Zenon DEF WithinDepthCap
  <2> HIDE DEF node, s, c, x, fresh, kept
  <2> QED
    BY Zenon, <2>1, <2>2
<1>3. problem \in Problems /\ NodesInv /\ OpenInv /\ BudgetInv /\ PlanSound
  BY Zenon DEF SearchInv
<1>4. /\ N \in Nat /\ N >= 1 /\ nodes \in Seq(Node)
      /\ \A i \in 1..N : /\ nodes[i].state \in State /\ nodes[i].depth \in Nat
                         /\ nodes[i].g \in Nat
  BY Zenon, <1>3, NodeType DEF NodesInv
<1>5. cur \in 1..N /\ act \in 1..Actions
  BY <1>1, <1>3, <1>4, DomainAssumption DEF BudgetInv
<1>6. node.state \in State /\ node.depth \in Nat /\ node.g \in Nat
  BY Zenon, <1>4, <1>5
<1>7. s \in State \cup {None} /\ c \in Nat
  BY Zenon, <1>3, <1>5, <1>6, ProblemType
<1>8. PlanSound'
  BY Zenon, <1>1, <1>3, SameSound
<1> HIDE DEF node, s, c, x, N
<1>9. Len(nodes') \in {N, N + 1} => BudgetInv'
  <2>1. HAVE Len(nodes') \in {N, N + 1}
  <2>2. /\ problem.max_nodes \in Nat /\ Actions \in Nat \ {0}
        /\ iters \in Nat /\ iters <= problem.max_iters
        /\ N <= problem.max_nodes + (act - 1)
    <3>1. problem.max_nodes \in Nat \ {0} /\ Actions \in Nat \ {0}
      BY Zenon, <1>3, ProblemType, DomainAssumption
    <3> QED
      BY <1>3, <1>5, <3>1 DEF BudgetInv, N
  <2>3. /\ act' \in 0..Actions /\ (act' = 0 => act = Actions)
        /\ (act' # 0 => act' = act + 1)
    BY Zenon, <1>1, <1>5, AfterType
  <2>4. /\ cur' \in 0..Len(nodes') /\ (cur' = 0 <=> act' = 0)
        /\ Len(nodes') <= problem.max_nodes + (IF act' = 0 THEN Actions ELSE act' - 1)
    <3>1. CASE act' = 0
      BY <1>1, <1>4, <2>1, <2>2, <2>3, <3>1
    <3>2. CASE act' # 0
      BY <1>1, <1>4, <1>5, <2>1, <2>2, <2>3, <3>2
    <3> QED
      BY <3>1, <3>2
  <2> QED
    BY Zenon, <1>1, <2>2, <2>3, <2>4 DEF BudgetInv
<1>10. \A i \in 2..N : Extends(i)
  BY Zenon, <1>3 DEF NodesInv, N
<1>11. CASE nodes' = nodes /\ open' = open
  <2>1. visited' = visited \/ (visited' = visited \cup {s} /\ s # None)
    BY Zenon, <1>2
  <2>2. visited' \subseteq State /\ visited \subseteq visited'
    BY <1>3, <1>7, <2>1 DEF NodesInv
  <2>3. \A i \in 2..N : Extends(i)'
    BY Zenon, <1>1, <1>10, <1>11 DEF Extends
  <2>4. \A i \in 1..N : nodes[i].state \in visited'
    BY <1>3, <2>2 DEF NodesInv, N
  <2>5. NodesInv'
    BY Zenon, <1>3, <1>11, <2>2, <2>3, <2>4 DEF NodesInv, N
  <2>6. OpenInv'
    BY Zenon, <1>3, <1>11 DEF OpenInv
  <2>7. Len(nodes') \in {N, N + 1}
    BY <1>11 DEF N
  <2> QED
    BY Zenon, <1>1, <1>3, <1>8, <1>9, <2>5, <2>6, <2>7 DEF SearchInv
<1>12. CASE /\ s # None /\ node.depth + 1 <= problem.max_plan_depth
            /\ visited' = visited \cup {s} /\ nodes' = Append(nodes, x)
            /\ open' = heap_push(open, [f |-> nodes'[Len(nodes')].f, idx |-> Len(nodes')])
  <2>1. /\ x \in Node /\ x.state = s /\ x.parent = cur /\ x.act = act
        /\ x.depth = node.depth + 1 /\ x.g = node.g + c
    <3>1. /\ s \in State /\ cur \in Nat /\ act \in 0..Actions
          /\ node.depth + 1 \in Nat /\ node.g + c \in Nat
      BY <1>4, <1>5, <1>6, <1>7, <1>12, DomainAssumption
    <3>2. x = SearchNode(s, cur, act, node.depth + 1, node.g + c)
      BY Zenon DEF x
    <3> QED
      BY <3>1, <3>2, SearchNodeType
  <2>2. /\ nodes' \in Seq(Node) /\ Len(nodes') = N + 1 /\ nodes'[N + 1] = x
        /\ \A i \in 1..N : nodes'[i] = nodes[i]
    <3>1. /\ nodes' \in Seq(Node) /\ Len(nodes') = Len(nodes) + 1
          /\ nodes'[Len(nodes) + 1] = x
          /\ \A i \in 1..Len(nodes) : nodes'[i] = nodes[i]
      BY <1>4, <1>12, <2>1, AppendedNode
    <3> QED
      BY Zenon, <3>1 DEF N
  <2>3. /\ 1 \in 1..N /\ 1..(N + 1) = 1..N \cup {N + 1} /\ 2..(N + 1) = 2..N \cup {N + 1}
        /\ 2..N \subseteq 1..N
    BY <1>4
  <2>4. visited' \subseteq State /\ visited \subseteq visited' /\ s \in visited'
    BY <1>3, <1>7, <1>12 DEF NodesInv
  <2>5. ASSUME NEW i \in 2..N
        PROVE  Extends(i)'
    <3>1. Extends(i) /\ i \in 1..N
      BY Zenon, <1>10, <2>3, <2>5
    <3>2. nodes[i].parent \in 1..N
      <4>1. nodes[i].parent \in 1..(i - 1)
        BY Zenon, <3>1 DEF Extends
      <4> QED
        BY <1>4, <3>1, <4>1
    <3>3. nodes'[i] = nodes[i] /\ nodes'[nodes[i].parent] = nodes[nodes[i].parent]
      BY Zenon, <2>2, <3>1, <3>2
    <3> QED
      BY Zenon, <1>1, <3>1, <3>3 DEF Extends
  <2>6. ASSUME NEW i, i = N + 1
        PROVE  Extends(i)'
    <3>1. nodes'[i] = x /\ nodes'[cur] = node
      BY Zenon, <1>5, <2>2, <2>6 DEF node
    <3>2. cur \in 1..(i - 1)
      BY <1>4, <1>5, <2>6
    <3>3. x.state = problem.succ[node.state][act] /\ x.g = node.g + problem.cost[node.state][act]
      BY Zenon, <2>1 DEF s, c
    <3> QED
      BY Zenon, <1>1, <1>5, <1>12, <2>1, <3>1, <3>2, <3>3 DEF Extends
  <2>7. \A i \in 2..(N + 1) : Extends(i)'
    BY Zenon, <2>3, <2>5, <2>6
  <2>8. \A i \in 1..(N + 1) : nodes'[i].state \in visited'
    <3>1. \A i \in 1..N : nodes'[i].state \in visited'
      BY Zenon, <1>3, <2>2, <2>4 DEF NodesInv, N
    <3> QED
      BY Zenon, <2>1, <2>2, <2>3, <2>4, <3>1
  <2>9. NodesInv'
    <3>1. nodes' # <<>>
      BY <1>4, <2>2
    <3>2. nodes'[1] = SearchNode(Start, 0, 0, 0, 0)
      BY Zenon, <1>3, <2>2, <2>3 DEF NodesInv
    <3> QED
      BY Zenon, <2>2, <2>4, <2>7, <2>8, <3>1, <3>2 DEF NodesInv
  <2>10. OpenInv'
    <3> DEFINE e == [f |-> x.f, idx |-> N + 1]
    <3>1. open' = heap_push(open, e)
      BY Zenon, <1>12, <2>2
    <3>2. e \in Entry /\ e.f = x.f /\ e.idx = N + 1
      BY <1>4, <2>1 DEF Entry, Node
    <3> HIDE DEF e
    <3>3. e \notin Range(open)
      <4>1. \A d \in Range(open) : d.idx \in 1..N
        BY Zenon, <1>3 DEF OpenInv, N
      <4>2. N + 1 \notin 1..N
        BY <1>4
      <4> QED
        BY Zenon, <3>2, <4>1, <4>2
    <3>4. IsHeap(open') /\ Range(open') = Range(open) \cup {e}
      BY Zenon, <1>3, <3>1, <3>2, <3>3, EntryPushed DEF OpenInv
    <3>5. ASSUME NEW d \in Range(open')
          PROVE  d.idx \in 1..Len(nodes') /\ d.f = nodes'[d.idx].f
      <4>1. CASE d = e
        BY Zenon, <2>2, <2>3, <3>2, <4>1
      <4>2. CASE d \in Range(open)
        <5>1. d.idx \in 1..N /\ d.f = nodes[d.idx].f
          BY Zenon, <1>3, <4>2 DEF OpenInv, N
        <5> QED
          BY Zenon, <2>2, <2>3, <5>1
      <4> QED
        BY Zenon, <3>4, <3>5, <4>1, <4>2
    <3> QED
      BY Zenon, <3>4, <3>5 DEF OpenInv
  <2>11. Len(nodes') \in {N, N + 1}
    BY <2>2
  <2> QED
    BY Zenon, <1>1, <1>3, <1>8, <1>9, <2>9, <2>10, <2>11 DEF SearchInv
<1> QED
  BY Zenon, <1>2, <1>11, <1>12

\* Every step of a search keeps its invariant.
LEMMA SearchStep ==
  ASSUME SearchInv, [Next]_vars
  PROVE  SearchInv'
<1>1. CASE Pop
  BY Zenon, <1>1, PopSearch
<1>2. CASE GiveUp
  BY Zenon, <1>2, GiveUpSearch
<1>3. CASE Expand
  BY Zenon, <1>3, ExpandSearch
<1>4. CASE UNCHANGED vars
  <2>1. /\ problem' = problem /\ nodes' = nodes /\ open' = open /\ visited' = visited
        /\ iters' = iters /\ cur' = cur /\ act' = act /\ result' = result
    BY <1>4 DEF vars
  <2>2. problem \in Problems /\ NodesInv /\ OpenInv /\ BudgetInv /\ PlanSound
    BY Zenon DEF SearchInv
  <2>3. NodesInv' /\ PlanSound'
    BY Zenon, <2>1, <2>2, SameNodes, SameSound
  <2>4. OpenInv' /\ BudgetInv'
    BY Zenon, <2>1, <2>2 DEF OpenInv, BudgetInv
  <2> QED
    BY Zenon, <2>1, <2>2, <2>3, <2>4 DEF SearchInv
<1> QED
  BY Zenon, <1>1, <1>2, <1>3, <1>4 DEF Next

(***************************************************************************)
(* Every state of a run of fleece_goap_plan is one of a search: the nodes  *)
(* are successors of earlier ones, the heap is ordered, holds no entry     *)
(* twice and only positions of the array of nodes, the budgets hold, and   *)
(* a plan that was returned is sound.                                      *)
(***************************************************************************)
THEOREM SearchCorrect == Spec => []SearchInv
<1>1. Init => SearchInv
  BY Zenon, InitSearch
<1>2. SearchInv /\ [Next]_vars => SearchInv'
  BY Zenon, SearchStep
<1> QED
  BY PTL, <1>1, <1>2 DEF Spec

(***************************************************************************)
(* Whatever the domain, the targets and the limits, a plan that            *)
(* fleece_goap_plan returns applies action by action from the start,       *)
(* satisfies every target, costs what it says and is within                *)
(* max_plan_depth.                                                         *)
(***************************************************************************)
THEOREM PlansSound == Spec => []PlanSound
<1>1. SearchInv => PlanSound
  BY Zenon DEF SearchInv
<1> QED
  BY PTL, <1>1, SearchCorrect

(***************************************************************************)
(* The main loop of fleece_goap_plan pops at most max_iters nodes, and     *)
(* nodes_push is never called for more than max_nodes nodes and the        *)
(* successors of one more.                                                 *)
(***************************************************************************)
THEOREM SearchWithinBudget == Spec => []SearchBounded
<1>1. ASSUME SearchInv
      PROVE  SearchBounded
  <2>1. problem \in Problems /\ NodesInv /\ BudgetInv
    BY Zenon, <1>1 DEF SearchInv
  <2>2. /\ Len(nodes) \in Nat /\ problem.max_nodes \in Nat \ {0} /\ Actions \in Nat \ {0}
    BY Zenon, <2>1, NodeType, ProblemType, DomainAssumption
  <2> QED
    BY <2>1, <2>2 DEF SearchBounded, BudgetInv
<1> QED
  BY PTL, <1>1, SearchCorrect

(***************************************************************************)
(* The indices fleece_goap_plan follows without a check are in range:      *)
(* parents before their children, heap entries and the expanded node in    *)
(* nodes.                                                                  *)
(***************************************************************************)
THEOREM PlannerTypeCorrect == Spec => []TypeOK
<1>1. ASSUME SearchInv
      PROVE  TypeOK
  <2>1. problem \in Problems /\ NodesInv /\ OpenInv /\ BudgetInv
    BY Zenon, <1>1 DEF SearchInv
  <2>2. /\ Len(nodes) \in Nat /\ Len(nodes) >= 1 /\ DOMAIN nodes = 1..Len(nodes)
        /\ nodes[1].act = 0 /\ nodes[1].parent = 0 /\ Actions \in Nat \ {0}
    BY Zenon, <2>1, NodeType, DomainAssumption
  <2>3. ASSUME NEW i \in 1..Len(nodes)
        PROVE  /\ nodes[i].state \in visited
               /\ nodes[i].parent \in 0..(i - 1)
               /\ nodes[i].act \in 0..Actions
               /\ nodes[i].g \in Nat /\ nodes[i].f \in Nat
    <3>1. nodes[i].state \in visited /\ nodes[i].g \in Nat /\ nodes[i].f \in Nat
      BY Zenon, <2>1, <2>3, NodeType DEF NodesInv
    <3>2. CASE i = 1
      BY <2>2, <3>1, <3>2
    <3>3. CASE i # 1
      <4>1. i \in 2..Len(nodes)
        BY <2>2, <2>3, <3>3
      <4>2. nodes[i].parent \in 1..(i - 1) /\ nodes[i].act \in 1..Actions
        BY Zenon, <2>1, <4>1 DEF NodesInv, Extends
      <4> QED
        BY <2>2, <3>1, <4>1, <4>2
    <3> QED
      BY <3>2, <3>3
  <2>4. \A i \in DOMAIN open : open[i].idx \in DOMAIN nodes /\ open[i].f = nodes[open[i].idx].f
    <3>1. \A i \in DOMAIN open : open[i] \in Range(open)
      BY Zenon DEF Range
    <3> QED
      BY Zenon, <2>1, <2>2, <3>1 DEF OpenInv
  <2>5. visited \subseteq State /\ cur \in 0..Len(nodes) /\ act \in 0..Actions /\ iters \in Nat
    BY Zenon, <2>1 DEF NodesInv, BudgetInv
  <2> QED
    BY Zenon, <2>3, <2>4, <2>5 DEF TypeOK
<1> QED
  BY PTL, <1>1, SearchCorrect

\* A heap holds no entry twice.
LEMMA HeapCount ==
  ASSUME NEW h, IsHeap(h)
  PROVE  Cardinality(Range(h)) = Len(h)
<1>1. h \in Seq(Entry) /\ Distinct(h)
  BY Zenon DEF IsHeap
<1>2. h \in [1..Len(h) -> Entry] /\ Len(h) \in Nat
  BY Zenon, <1>1, SeqIsFunction
<1> QED
  BY Zenon, <1>1, <1>2, DistinctCount

\* What an expansion does to the heap.
LEMMA ExpandOpen ==
  ASSUME SearchInv, SearchInv', Expand, open' # open
  PROVE  /\ Range(open) \subseteq Range(open') /\ Len(open') = Len(open) + 1
         /\ Cardinality(Range(open')) = Len(open')
<1> DEFINE e == [f |-> nodes'[Len(nodes')].f, idx |-> Len(nodes')]
<1>1. /\ open' = heap_push(open, e)
      /\ \E x : nodes' = Append(nodes, x)
  BY Zenon DEF Expand
<1>2. /\ problem \in Problems /\ NodesInv /\ OpenInv
      /\ nodes' \in Seq(Node) /\ IsHeap(open')
  BY Zenon DEF SearchInv, NodesInv, OpenInv
<1>3. Len(nodes) \in Nat /\ nodes \in Seq(Node)
  BY Zenon, <1>2, NodeType DEF NodesInv
<1>4. Len(nodes') = Len(nodes) + 1
  BY <1>1, <1>2, <1>3
<1>5. e \in Entry /\ e.idx = Len(nodes) + 1
  <2>1. nodes'[Len(nodes')] \in Node
    BY <1>2, <1>3, <1>4
  <2> QED
    BY <1>3, <1>4, <2>1 DEF Entry, Node
<1> HIDE DEF e
<1>6. e \notin Range(open)
  <2>1. \A d \in Range(open) : d.idx \in 1..Len(nodes)
    BY Zenon, <1>2 DEF OpenInv
  <2>2. Len(nodes) + 1 \notin 1..Len(nodes)
    BY <1>3
  <2> QED
    BY Zenon, <1>5, <2>1, <2>2
<1>7. Len(open') = Len(open) + 1 /\ Range(open') = Range(open) \cup {e}
  BY Zenon, <1>1, <1>2, <1>5, <1>6, EntryPushed DEF OpenInv
<1> QED
  BY Zenon, <1>2, <1>7, HeapCount

(***************************************************************************)
(* In every search, heap_pop removes an entry of least f and heap_push     *)
(* adds one, and moving the hole loses and duplicates none.                *)
(***************************************************************************)
THEOREM HeapPopsLeast == Spec => PopsLeast
<1> DEFINE Least1 == \E e \in Range(open) :
                        /\ \A d \in Range(open) : e.f <= d.f
                        /\ Range(open') = Range(open) \ {e} /\ Len(open') = Len(open) - 1
           More == /\ Range(open) \subseteq Range(open') /\ Len(open') = Len(open) + 1
                   /\ Cardinality(Range(open')) = Len(open')
<1>1. ASSUME SearchInv, SearchInv', [Next]_vars
      PROVE  [UNCHANGED open \/ Least1 \/ More]_vars
  <2>1. CASE Pop
    <3>1. IsHeap(open) /\ open # <<>> /\ open' = heap_pop(open)
      BY Zenon, <1>1, <2>1 DEF Pop, SearchInv, OpenInv
    <3>2. /\ open[1] \in Range(open)
          /\ Len(open') = Len(open) - 1 /\ Range(open') = Range(open) \ {open[1]}
          /\ \A d \in Range(open) : open[1].f <= d.f
      BY Zenon, <3>1, EntryPopped
    <3> QED
      BY Zenon, <3>2
  <2>2. CASE GiveUp
    BY Zenon, <2>2 DEF GiveUp
  <2>3. CASE Expand
    BY Zenon, <1>1, <2>3, ExpandOpen
  <2> QED
    BY Zenon, <1>1, <2>1, <2>2, <2>3 DEF Next
<1> QED
  BY PTL, <1>1, SearchCorrect DEF Spec, PopsLeast

-----------------------------------------------------------------------------
(* Shortest plans *)

\* Within, of a given problem: what one more action adds to a set of states.
Grown(pr, B) ==
  B \cup {s \in State : \E q \in B, a \in 1..Actions : pr.succ[q][a] = s}

WithinIn(pr, d) ==
  LET ball[i \in 0..d] ==
        IF i = 0 THEN {Start}
        ELSE ball[i - 1] \cup
             {s \in State : \E q \in ball[i - 1], a \in 1..Actions :
                              pr.succ[q][a] = s}
  IN  ball[d]

BallTable(pr, n, ball) ==
  /\ ball \in [0..n -> SUBSET State]
  /\ WithinIn(pr, n) = ball[n]
  /\ ball[0] = {Start}
  /\ \A i \in 1..n : ball[i] = Grown(pr, ball[i - 1])

\* The recursion of Within has the solution it describes.
LEMMA WithinUnfolds ==
  ASSUME NEW pr \in Problems, NEW n \in Nat
  PROVE  \E ball : BallTable(pr, n, ball)
<1> DEFINE D == 0..n
           V == SUBSET State
           rank == [i \in D |-> i]
           stop == {0}
           base == [i \in D |-> {Start}]
           prev == [i \in D |-> IF i = 0 THEN 0 ELSE i - 1]
           step == [i \in D |-> [B \in V |-> Grown(pr, B)]]
           Body(f, i) == IF i = 0 THEN {Start}
                         ELSE f[i - 1] \cup
                              {s \in State : \E q \in f[i - 1], a \in 1..Actions :
                                               pr.succ[q][a] = s}
<1>1. 0 \in D /\ n \in D /\ (\A i \in D : i \in Nat /\ i <= n)
  OBVIOUS
<1>2. WellDefined(D, V, n, rank, stop, base, prev, step)
  <2>1. rank \in [D -> 0..n] /\ stop \in SUBSET D
    BY <1>1
  <2>2. base \in [D -> V]
    BY DomainAssumption
  <2>3. prev \in [D -> D]
    BY <1>1
  <2>4. step \in [D -> [V -> V]]
    <3>1. \A B \in V : Grown(pr, B) \in V
      BY DEF Grown
    <3> HIDE DEF D, V
    <3> QED
      BY <3>1
  <2>5. \A i \in D \ stop : rank[prev[i]] < rank[i]
    BY <1>1
  <2> HIDE DEF D, V, rank, stop, base, prev, step
  <2> QED
    BY <1>1, <2>1, <2>2, <2>3, <2>4, <2>5 DEF WellDefined
<1>3. PICK f \in [D -> V] : Recurs(f, D, stop, base, prev, step)
  <2> HIDE DEF D, V, rank, stop, base, prev, step
  <2> QED
    BY <1>2, Recursion
<1>4. f[0] = {Start}
  BY Zenon, <1>1, <1>3 DEF Recurs
<1>5. ASSUME NEW i \in 1..n PROVE f[i] = Grown(pr, f[i - 1])
  <2>1. i \in D /\ i # 0 /\ i - 1 \in D /\ i \notin stop
    BY <1>1
  <2>2. f[i] = step[i][f[prev[i]]]
    BY Zenon, <1>3, <2>1 DEF Recurs
  <2>3. prev[i] = i - 1 /\ f[i - 1] \in V
    BY <2>1
  <2> HIDE DEF V, D
  <2> QED
    BY <2>1, <2>2, <2>3
<1>6. ASSUME NEW i \in D PROVE f[i] = Body(f, i)
  <2>1. i # 0 => i \in 1..n
    BY <1>1
  <2> QED
    BY Zenon, <1>4, <1>5, <2>1 DEF Grown
<1> DEFINE ball == CHOOSE g : g = [i \in D |-> Body(g, i)]
<1>7. WithinIn(pr, n) = ball[n]
  BY DEF WithinIn
<1>8. ball = [i \in D |-> Body(ball, i)]
  <2>1. f = [i \in D |-> Body(f, i)]
    BY <1>6
  <2> HIDE DEF Body
  <2> QED
    BY Zenon, <2>1
<1> HIDE DEF ball
<1>9. ASSUME NEW i \in D, \A j \in D : rank[j] < rank[i] => ball[j] = f[j]
      PROVE  ball[i] = f[i]
  <2>1. ball[i] = Body(ball, i)
    <3> HIDE DEF Body
    <3> QED
      BY Zenon, <1>8
  <2>2. CASE i = 0
    BY Zenon, <1>4, <2>1, <2>2
  <2>3. CASE i # 0
    <3>1. i - 1 \in D /\ rank[i - 1] < rank[i]
      BY <1>1, <2>3
    <3>2. ball[i - 1] = f[i - 1]
      BY <1>9, <3>1
    <3>3. Body(ball, i) = Body(f, i)
      BY Zenon, <2>3, <3>2
    <3> QED
      BY Zenon, <1>6, <2>1, <3>3
  <2> QED
    BY <2>2, <2>3
<1>10. \A i \in D : ball[i] = f[i]
  <2> DEFINE T == {i \in D : ball[i] # f[i]}
  <2> SUFFICES ASSUME T # {} PROVE FALSE
    OBVIOUS
  <2>1. PICK i \in T : \A j \in D : rank[j] < rank[i] => j \notin T
    <3>1. RanksSome(D, rank, T)
      BY <1>1 DEF RanksSome
    <3> HIDE DEF D, V, rank, T
    <3> QED
      BY Zenon, <3>1, LeastRanked
  <2> HIDE DEF rank
  <2> QED
    BY Zenon, <1>9, <2>1
<1>11. WithinIn(pr, n) = f[n]
  BY Zenon, <1>1, <1>7, <1>10
<1> QED
  BY Zenon, <1>4, <1>5, <1>11, <1>3 DEF BallTable

\* Node i is in the heap, or it is the one being expanded.
Waiting(i) == \E e \in Range(open) : e.idx = i
Pending(i) == Waiting(i) \/ i = cur

Met(i) == GoalsMet(nodes[i].state)

\* A node for state s, at most d actions from the start.
Covered(s, d) == \E j \in 1..Len(nodes) : nodes[j].state = s /\ nodes[j].depth <= d

\* Node i is out of the heap, and action a has been tried there.
Tried(i, a) == ~Waiting(i) /\ (i = cur => a < act)

\* Costs are depths, and the estimate is exact at a goal and 1 elsewhere.
Estimates ==
  \A i \in 1..Len(nodes) : /\ nodes[i].g = nodes[i].depth
                           /\ nodes[i].f = nodes[i].depth + Unsatisfied(nodes[i].state)

\* A goal that was reached has not been passed over.
GoalsWait == \A i \in 1..Len(nodes) : Met(i) => Waiting(i)

\* Nodes are expanded depth by depth.
Frontier ==
  \A i, j \in 1..Len(nodes) : Pending(i) /\ ~Met(i) => nodes[j].depth <= nodes[i].depth + 1

\* A state is dropped as too deep only when all that is left is as deep.
NoneDropped ==
  \A i \in 1..Len(nodes) :
    Pending(i) /\ ~Met(i) /\ nodes[i].depth < problem.max_plan_depth =>
      \A s \in visited : \E j \in 1..Len(nodes) : nodes[j].state = s

\* The node being expanded is the least that was waiting, and no goal.
CurLeast ==
  cur # 0 => /\ ~Waiting(cur) /\ ~Met(cur)
             /\ \A i \in 1..Len(nodes) : Waiting(i) => nodes[cur].f <= nodes[i].f

(***************************************************************************)
(* Every action tried has led to a state some node reaches as fast, unless *)
(* the budget of nodes is spent, and then the heap is not empty.           *)
(***************************************************************************)
Complete ==
  /\ Len(nodes) > problem.max_nodes => open # <<>>
  /\ Len(nodes) <= problem.max_nodes =>
       \A i \in 1..Len(nodes), a \in 1..Actions :
         /\ Tried(i, a) /\ nodes[i].depth < problem.max_plan_depth
         /\ problem.succ[nodes[i].state][a] # None
         => Covered(problem.succ[nodes[i].state][a], nodes[i].depth + 1)

Levels == Estimates /\ GoalsWait /\ Frontier /\ NoneDropped /\ CurLeast /\ Complete

\* Every action costs 1 and there is one target, the case ShortestPlan is about.
Unit == UnitCosts /\ Len(Targets) = 1

\* With one target, the estimate is 0 or 1.
LEMMA OneTarget ==
  ASSUME Len(Targets) = 1, NEW s
  PROVE  Unsatisfied(s) = IF GoalsMet(s) THEN 0 ELSE 1
<1> DEFINE T == {g \in DOMAIN Targets : s \notin Targets[g]}
<1>1. DOMAIN Targets = {1}
  BY DomainAssumption
<1>2. T = {} \/ T = {1}
  BY <1>1
<1>3. Unsatisfied(s) = Cardinality(T)
  BY Zenon DEF Unsatisfied
<1> HIDE DEF T
<1>4. Unsatisfied(s) \in {0, 1}
  BY Zenon, <1>2, <1>3, FS_EmptySet, FS_Singleton
<1> QED
  BY <1>4 DEF GoalsMet

(***************************************************************************)
(* Between two expansions, no goal is nearer than the nodes in the heap:   *)
(* all states within distance d have a node that was expanded or waits.    *)
(***************************************************************************)
LEMMA NoneNearer ==
  ASSUME problem \in Problems, NodesInv, Levels, Unit, cur = 0,
         Len(nodes) <= problem.max_nodes, NEW d \in 0..problem.max_plan_depth,
         \A i \in 1..Len(nodes) : Waiting(i) => nodes[i].f > d,
         NEW s \in WithinIn(problem, d)
  PROVE  ~GoalsMet(s)
<1>1. /\ Len(nodes) \in Nat /\ 1 \in 1..Len(nodes)
      /\ \A i \in 1..Len(nodes) : /\ nodes[i].state \in State /\ nodes[i].depth \in Nat
                                  /\ i # 0
      /\ nodes[1].state = Start /\ nodes[1].depth = 0
  BY NodeType
<1>2. d \in Nat /\ problem.max_plan_depth \in Nat /\ d <= problem.max_plan_depth
  BY ProblemType
<1>3. \A i \in 1..Len(nodes) : nodes[i].f = nodes[i].depth + (IF Met(i) THEN 0 ELSE 1)
  <2>1. Estimates /\ Len(Targets) = 1
    BY Zenon DEF Levels, Unit
  <2> QED
    BY Zenon, <2>1, OneTarget DEF Estimates, Met
<1>4. ASSUME NEW j \in 1..Len(nodes), nodes[j].depth < d
      PROVE  ~Waiting(j)
  <2>1. nodes[j].depth \in Nat /\ nodes[j].f = nodes[j].depth + (IF Met(j) THEN 0 ELSE 1)
    BY Zenon, <1>1, <1>3
  <2>2. ~(nodes[j].f > d)
    BY <1>2, <1>4, <2>1
  <2> QED
    BY Zenon, <2>2
<1>5. PICK ball : BallTable(problem, d, ball)
  BY Zenon, <1>2, WithinUnfolds
<1>6. /\ ball \in [0..d -> SUBSET State] /\ WithinIn(problem, d) = ball[d]
      /\ ball[0] = {Start}
      /\ \A i \in 1..d : ball[i] = Grown(problem, ball[i - 1])
  BY Zenon, <1>5 DEF BallTable
<1> DEFINE P(e) == \A q \in ball[e] : Covered(q, e)
<1>7. P(0)
  BY <1>1, <1>6 DEF Covered
<1>8. ASSUME NEW e \in 1..d, P(e - 1)
      PROVE  P(e)
  <2> SUFFICES ASSUME NEW q \in ball[e] PROVE Covered(q, e)
    OBVIOUS
  <2>1. \/ q \in ball[e - 1]
        \/ q \in State /\ \E p \in ball[e - 1], a \in 1..Actions : problem.succ[p][a] = q
    BY <1>6 DEF Grown
  <2>2. CASE q \in ball[e - 1]
    <3>1. PICK j \in 1..Len(nodes) : nodes[j].state = q /\ nodes[j].depth <= e - 1
      BY Zenon, <1>8, <2>2 DEF Covered
    <3>2. nodes[j].depth <= e
      BY <1>1, <1>2, <3>1
    <3> QED
      BY Zenon, <3>1, <3>2 DEF Covered
  <2>3. ASSUME NEW p \in ball[e - 1], NEW a \in 1..Actions, problem.succ[p][a] = q, q \in State
        PROVE  Covered(q, e)
    <3>1. PICK j \in 1..Len(nodes) : nodes[j].state = p /\ nodes[j].depth <= e - 1
      BY Zenon, <1>8, <2>3 DEF Covered
    <3>2. nodes[j].depth < d /\ nodes[j].depth < problem.max_plan_depth
      BY <1>1, <1>2, <3>1
    <3>3. Tried(j, a)
      BY Zenon, <1>1, <1>4, <3>2 DEF Tried
    <3>4. problem.succ[nodes[j].state][a] # None
      BY Zenon, <2>3, <3>1, DomainAssumption
    <3>5. Covered(q, nodes[j].depth + 1)
      <4>1. Complete
        BY Zenon DEF Levels
      <4> QED
        BY Zenon, <2>3, <3>1, <3>2, <3>3, <3>4, <4>1 DEF Complete
    <3>6. PICK k \in 1..Len(nodes) : nodes[k].state = q /\ nodes[k].depth <= nodes[j].depth + 1
      BY Zenon, <3>5 DEF Covered
    <3>7. nodes[k].depth <= e
      BY <1>1, <1>2, <3>1, <3>6
    <3> QED
      BY Zenon, <3>6, <3>7 DEF Covered
  <2> QED
    BY Zenon, <2>1, <2>2, <2>3
<1>9. P(d)
  <2> DEFINE T == {e \in 0..d : ~P(e)}
  <2> HIDE DEF P
  <2> SUFFICES ASSUME T # {} PROVE FALSE
    BY <1>2
  <2>1. T \in SUBSET Nat
    BY <1>2
  <2>2. PICK e \in T : \A y \in T : e <= y
    <3> HIDE DEF T
    <3> QED
      BY Zenon, <2>1, Least
  <2>3. e # 0 /\ e \in 1..d /\ e - 1 \in 0..d
    BY <1>2, <1>7
  <2>4. e - 1 \notin T
    BY <2>2, <2>3
  <2> QED
    BY <1>8, <2>3, <2>4
<1>10. PICK k \in 1..Len(nodes) : nodes[k].state = s /\ nodes[k].depth <= d
  BY Zenon, <1>6, <1>9 DEF Covered
<1> SUFFICES ASSUME GoalsMet(s) PROVE FALSE
  OBVIOUS
<1>11. Met(k) /\ Waiting(k)
  <2>1. GoalsWait
    BY Zenon DEF Levels
  <2> QED
    BY Zenon, <1>10, <2>1 DEF GoalsWait, Met
<1>12. nodes[k].f > d /\ nodes[k].f = nodes[k].depth /\ nodes[k].depth \in Nat
  BY <1>1, <1>3, <1>11
<1> QED
  BY <1>2, <1>10, <1>12

\* ShortestPlan, of a given problem, result and heap.
ReachesIn(pr, d) == \E s \in WithinIn(pr, d) : GoalsMet(s)

ShortestIn(pr, res, h) ==
  /\ res.found => \A d \in 0..pr.max_plan_depth : d < Len(res.plan) => ~ReachesIn(pr, d)
  /\ res.ended /\ ~res.found /\ h = <<>> => ~ReachesIn(pr, pr.max_plan_depth)

\* ShortestPlan before a step,
LEMMA ShortestNow == ShortestPlan <=> (Unit => ShortestIn(problem, result, open))
<1>1. \A d : Reaches(d) <=> ReachesIn(problem, d)
  BY DEF Reaches, ReachesIn, Within, WithinIn
<1> QED
  BY Zenon, <1>1 DEF ShortestPlan, ShortestIn, Unit

\* and after it.
LEMMA ShortestNext ==
  ASSUME problem' = problem
  PROVE  ShortestPlan' <=> (Unit => ShortestIn(problem, result', open'))
<1>1. \A d : Reaches(d)' <=> ReachesIn(problem, d)
  BY DEF Reaches, ReachesIn, Within, WithinIn, GoalsMet, Unsatisfied
<1>2. UnitCosts' <=> UnitCosts
  BY DEF UnitCosts
<1>3. Reaches(problem.max_plan_depth)' <=> ReachesIn(problem, problem.max_plan_depth)
  BY DEF Reaches, ReachesIn, Within, WithinIn, GoalsMet, Unsatisfied
<1> QED
  BY Zenon, <1>1, <1>2, <1>3 DEF ShortestPlan, ShortestIn, Unit

\* The search of a problem with unit costs and one target.
Exact ==
  Unit => ShortestPlan /\ (result.ended => cur = 0) /\ (~result.ended => Levels)

\* What a pop takes out of the heap: a node of least f, which waits no more.
LEMMA PopWaiting ==
  ASSUME OpenInv, open # <<>>, open' = heap_pop(open), NEW i, i = open[1].idx
  PROVE  /\ i \in 1..Len(nodes) /\ Waiting(i)
         /\ \A j : Waiting(j)' <=> Waiting(j) /\ j # i
         /\ \A j : Waiting(j) => nodes[i].f <= nodes[j].f
<1>1. IsHeap(open) /\ \A e \in Range(open) : e.idx \in 1..Len(nodes) /\ e.f = nodes[e.idx].f
  BY Zenon DEF OpenInv
<1>2. /\ open[1] \in Range(open) /\ Range(open') = Range(open) \ {open[1]}
      /\ \A e \in Range(open) : open[1].f <= e.f
  BY <1>1, EntryPopped
<1>3. Range(open) \subseteq Entry
  <2>1. open \in [1..Len(open) -> Entry]
    BY Zenon, <1>1, SeqIsFunction DEF IsHeap
  <2> QED
    BY <2>1 DEF Range
<1>4. \A e \in Range(open) : e.idx = i => e = open[1]
  <2>1. \A e \in Range(open) : e.idx = i => e.f = open[1].f /\ e \in Entry
    BY Zenon, <1>1, <1>2, <1>3
  <2>2. open[1] \in Entry
    BY <1>2, <1>3
  <2>3. \A x, y \in Entry : x.idx = y.idx /\ x.f = y.f => x = y
    BY DEF Entry
  <2> QED
    BY Zenon, <2>1, <2>2, <2>3
<1>5. \A e : e \in Range(open') <=> e \in Range(open) /\ e # open[1]
  BY Zenon, <1>2
<1>6. \A j : Waiting(j)' <=> Waiting(j) /\ j # i
  BY Zenon, <1>4, <1>5 DEF Waiting
<1>7. i \in 1..Len(nodes) /\ Waiting(i) /\ open[1].f = nodes[i].f
  BY Zenon, <1>1, <1>2 DEF Waiting
<1>8. ASSUME NEW j, Waiting(j) PROVE nodes[i].f <= nodes[j].f
  <2>1. PICK e \in Range(open) : e.idx = j
    BY Zenon, <1>8 DEF Waiting
  <2>2. e.f = nodes[j].f /\ open[1].f <= e.f
    BY Zenon, <1>1, <1>2, <2>1
  <2> QED
    BY Zenon, <1>7, <2>2
<1> QED
  BY Zenon, <1>6, <1>7, <1>8

\* A node that is no goal is popped: its expansion starts.
LEMMA PopLevels ==
  ASSUME SearchInv, Levels, Pop, cur' # 0
  PROVE  Levels'
<1> DEFINE i == open[1].idx
<1>1. /\ cur = 0 /\ open # <<>> /\ open' = heap_pop(open) /\ Len(nodes) <= problem.max_nodes
      /\ problem' = problem /\ nodes' = nodes /\ visited' = visited
      /\ ~Met(i) /\ cur' = i /\ act' = 1
  BY DEF Pop, WithinBudget, Met
<1>2. problem \in Problems /\ NodesInv /\ OpenInv
  BY Zenon DEF SearchInv
<1>3. /\ i \in 1..Len(nodes) /\ Waiting(i)
      /\ \A j : Waiting(j)' <=> Waiting(j) /\ j # i
      /\ \A j : Waiting(j) => nodes[i].f <= nodes[j].f
  BY <1>1, <1>2, PopWaiting
<1> HIDE DEF i
<1>4. \A j : Met(j)' <=> Met(j)
  BY Zenon, <1>1 DEF Met, GoalsMet, Unsatisfied
<1>5. \A j : Pending(j)' => Pending(j)
  BY Zenon, <1>1, <1>3 DEF Pending
<1>6. Estimates'
  BY Zenon, <1>1 DEF Levels, Estimates, Unsatisfied
<1>7. GoalsWait'
  BY Zenon, <1>1, <1>3, <1>4 DEF Levels, GoalsWait
<1>8. Frontier'
  BY Zenon, <1>1, <1>4, <1>5 DEF Levels, Frontier
<1>9. NoneDropped'
  BY Zenon, <1>1, <1>4, <1>5 DEF Levels, NoneDropped
<1>10. CurLeast'
  BY Zenon, <1>1, <1>3, <1>4 DEF CurLeast
<1>11. Complete'
  <2>1. /\ Len(nodes) \in Nat /\ problem.max_nodes \in Nat
        /\ \A j \in 1..Len(nodes) : j # 0
    BY <1>2, NodeType, ProblemType
  <2>2. ~(Len(nodes) > problem.max_nodes)
    BY <1>1, <2>1
  <2>3. ASSUME NEW j \in 1..Len(nodes), NEW a \in 1..Actions, Tried(j, a)'
        PROVE  Tried(j, a)
    <3>1. ~(a < 1)
      BY DomainAssumption
    <3>2. j # i
      BY Zenon, <1>1, <2>3, <3>1 DEF Tried
    <3> QED
      BY Zenon, <1>1, <1>3, <2>1, <2>3, <3>2 DEF Tried
  <2>4. \A x, e : Covered(x, e)' <=> Covered(x, e)
    BY Zenon, <1>1 DEF Covered
  <2> QED
    BY Zenon, <1>1, <2>2, <2>3, <2>4 DEF Levels, Complete, Covered
<1> QED
  BY Zenon, <1>6, <1>7, <1>8, <1>9, <1>10, <1>11 DEF Levels

\* A goal is popped: no plan is shorter than the one to it.
LEMMA PopShortest ==
  ASSUME SearchInv, Levels, Unit, Pop, cur' = 0
  PROVE  ShortestIn(problem, result', open')
<1> DEFINE i == open[1].idx
<1>1. /\ cur = 0 /\ open # <<>> /\ open' = heap_pop(open) /\ Len(nodes) <= problem.max_nodes
      /\ problem' = problem
  BY DEF Pop, WithinBudget
<1>2. problem \in Problems /\ NodesInv /\ OpenInv
  BY Zenon DEF SearchInv
<1>3. /\ i \in 1..Len(nodes) /\ Waiting(i)
      /\ \A j : Waiting(j) => nodes[i].f <= nodes[j].f
  BY <1>1, <1>2, PopWaiting
<1>4. /\ Met(i)
      /\ result' = [found |-> TRUE, ended |-> TRUE, plan |-> ActionsTo(i), cost |-> nodes[i].g]
  <2>1. i # 0
    BY <1>2, <1>3, NodeType
  <2> QED
    BY Zenon, <2>1 DEF Pop, Met
<1> HIDE DEF i
<1>5. result'.found = TRUE /\ result'.plan = ActionsTo(i)
  BY <1>4
<1>6. Len(result'.plan) = nodes[i].depth
  BY Zenon, <1>2, <1>3, <1>5, ActionsReach
<1>7. /\ \A j \in 1..Len(nodes) : nodes[j].f \in Nat /\ nodes[j].depth \in Nat
      /\ problem.max_plan_depth \in Nat
  BY <1>2, NodeType, ProblemType
<1>8. nodes[i].f = nodes[i].depth
  <2>1. nodes[i].f = nodes[i].depth + Unsatisfied(nodes[i].state) /\ Unsatisfied(nodes[i].state) = 0
    BY Zenon, <1>3, <1>4 DEF Levels, Estimates, Met, GoalsMet
  <2> QED
    BY <1>3, <1>7, <2>1
<1>9. ASSUME NEW d \in 0..problem.max_plan_depth, d < Len(result'.plan)
      PROVE  ~ReachesIn(problem, d)
  <2>1. \A j \in 1..Len(nodes) : Waiting(j) => nodes[j].f > d
    BY <1>3, <1>6, <1>7, <1>8, <1>9
  <2> QED
    BY Zenon, <1>1, <1>2, <2>1, NoneNearer DEF ReachesIn
<1> QED
  BY Zenon, <1>5, <1>9 DEF ShortestIn

\* The search ends without a plan: if the heap is empty, there is none.
LEMMA GiveUpShortest ==
  ASSUME SearchInv, Levels, Unit, GiveUp
  PROVE  ShortestIn(problem, result', open')
<1>1. result' = NoPlan /\ cur = 0 /\ open' = open
  BY DEF GiveUp
<1>2. problem \in Problems /\ NodesInv
  BY Zenon DEF SearchInv
<1>3. ~result'.found
  BY <1>1 DEF NoPlan, Searching
<1>4. ASSUME open = <<>>
      PROVE  ~ReachesIn(problem, problem.max_plan_depth)
  <2>1. Len(nodes) \in Nat /\ problem.max_nodes \in Nat /\ problem.max_plan_depth \in Nat
    BY <1>2, NodeType, ProblemType
  <2>2. ~(Len(nodes) > problem.max_nodes)
    BY Zenon, <1>4 DEF Levels, Complete
  <2>3. Len(nodes) <= problem.max_nodes /\ problem.max_plan_depth \in 0..problem.max_plan_depth
    BY <2>1, <2>2
  <2>4. \A j \in 1..Len(nodes) : ~Waiting(j)
    BY <1>4 DEF Waiting, Range
  <2> QED
    BY Zenon, <1>1, <1>2, <2>3, <2>4, NoneNearer DEF ReachesIn
<1> QED
  BY Zenon, <1>1, <1>3, <1>4 DEF ShortestIn

\* The search starts with the root waiting.
LEMMA InitLevels ==
  ASSUME Init, SearchInv
  PROVE  Levels
<1> DEFINE root == SearchNode(Start, 0, 0, 0, 0)
           e == [f |-> root.f, idx |-> 1]
<1>1. /\ nodes = <<root>> /\ open = heap_push(<<>>, [f |-> nodes[1].f, idx |-> 1])
      /\ visited = {Start} /\ cur = 0
  BY Zenon DEF Init
<1>2. problem \in Problems /\ NodesInv /\ OpenInv
  BY Zenon DEF SearchInv
<1>3. Len(nodes) = 1 /\ 1..Len(nodes) = {1} /\ nodes[1] = root /\ open = heap_push(<<>>, e)
  BY <1>1
<1>4. /\ nodes[1].state = Start /\ nodes[1].depth = 0 /\ nodes[1].g = 0 /\ nodes[1].f \in Nat
      /\ \A i \in 1..Len(nodes) : i # 0
  BY <1>2, <1>3, NodeType
<1>5. nodes[1].f = nodes[1].depth + Unsatisfied(nodes[1].state)
  <2>1. nodes[1].f = 0 + Unsatisfied(Start)
    BY <1>3 DEF SearchNode
  <2> QED
    BY Zenon, <1>4, <2>1
<1>6. e \in Range(open) /\ e.idx = 1
  <2>1. e \in Entry
    BY <1>3, <1>4 DEF Entry
  <2>2. IsHeap(<<>>) /\ Range(<<>>) = {}
    BY EmptyInterval DEF IsHeap, HeapOrder, Distinct, Range
  <2>3. e.idx = 1
    OBVIOUS
  <2> HIDE DEF e
  <2> QED
    BY <1>3, <2>1, <2>2, <2>3, EntryPushed
<1> HIDE DEF e, root
<1>7. Waiting(1) /\ open # <<>>
  BY <1>6 DEF Waiting, Range
<1>8. Estimates /\ GoalsWait
  BY Zenon, <1>3, <1>4, <1>5, <1>7 DEF Estimates, GoalsWait
<1>9. Frontier
  BY <1>3, <1>4 DEF Frontier
<1>10. NoneDropped /\ CurLeast
  BY <1>1, <1>3, <1>4 DEF NoneDropped, CurLeast
<1>11. Complete
  BY Zenon, <1>3, <1>7 DEF Complete, Tried
<1> QED
  BY Zenon, <1>8, <1>9, <1>10, <1>11 DEF Levels

\* States that all have a node are no more than the nodes.
LEMMA FewStates ==
  ASSUME problem \in Problems, NodesInv, NEW V,
         \A s \in V : \E j \in 1..Len(nodes) : nodes[j].state = s
  PROVE  Cardinality(V) \in Nat /\ Cardinality(V) <= Len(nodes)
<1> DEFINE n == Len(nodes)
           S == 1..n
           at == [j \in S |-> nodes[j].state]
           T == {at[j] : j \in S}
<1>1. n \in Nat
  BY NodeType
<1>2. IsFiniteSet(S) /\ Cardinality(S) = n
  <2> HIDE DEF n
  <2>1. /\ IsFiniteSet(1..n)
        /\ Cardinality(1..n) = IF 1 > n THEN 0 ELSE n - 1 + 1
    <3>1. 1 \in Int /\ n \in Int
      BY <1>1
    <3> QED
      BY Zenon, <3>1, FS_Interval
  <2> QED
    BY <1>1, <2>1
<1>3. at \in Surjection(S, T)
  <2>1. at \in [S -> T]
    OBVIOUS
  <2>2. \A t \in T : \E j \in S : at[j] = t
    OBVIOUS
  <2> QED
    BY Zenon, <2>1, <2>2 DEF Surjection
<1>4. V \subseteq T
  BY DEF T, at
<1> HIDE DEF n, S, at, T
<1>5. IsFiniteSet(T) /\ Cardinality(T) <= Cardinality(S)
  BY Zenon, <1>2, <1>3, FS_Surjection
<1>6. IsFiniteSet(V) /\ Cardinality(V) <= Cardinality(T)
  BY <1>4, <1>5, FS_Subset
<1>7. Cardinality(V) \in Nat /\ Cardinality(T) \in Nat
  BY <1>5, <1>6, FS_CardinalityType
<1> QED
  BY <1>1, <1>2, <1>5, <1>6, <1>7 DEF n

(***************************************************************************)
(* What an expansion step does: the successor was visited or there is no   *)
(* room for it, or it is dropped as too deep, or it becomes a node that    *)
(* waits.                                                                  *)
(***************************************************************************)
LEMMA ExpandFacts ==
  ASSUME SearchInv, SearchInv', Expand, NEW s, s = problem.succ[nodes[cur].state][act],
         NEW d, d = nodes[cur].depth
  PROVE  /\ cur \in 1..Len(nodes) /\ act \in 1..Actions /\ problem' = problem
         /\ \A i \in 1..Len(nodes) : i = cur' => i = cur
         /\ \A a \in 1..Actions : (cur = cur' => a < act') => a < act \/ a = act
         /\ \/ /\ nodes' = nodes /\ open' = open /\ visited' = visited
               /\ s = None \/ s \in visited \/ ~(Cardinality(visited) < VisitedCap)
            \/ /\ nodes' = nodes /\ open' = open /\ visited' = visited \cup {s}
               /\ ~(d + 1 <= problem.max_plan_depth)
            \/ /\ visited' = visited \cup {s}
               /\ nodes' = Append(nodes, SearchNode(s, cur, act, d + 1,
                             nodes[cur].g + problem.cost[nodes[cur].state][act]))
               /\ open' = heap_push(open, [f |-> nodes'[Len(nodes')].f, idx |-> Len(nodes')])
<1> DEFINE c == problem.cost[nodes[cur].state][act]
           x == SearchNode(s, cur, act, d + 1, nodes[cur].g + c)
           fresh == s # None /\ s \notin visited /\ Cardinality(visited) < VisitedCap
           kept == fresh /\ WithinDepthCap(d + 1)
<1>1. /\ cur # 0 /\ act' = After(act) /\ cur' = (IF act' = 0 THEN 0 ELSE cur)
      /\ problem' = problem
  BY Zenon DEF Expand
<1>2. /\ visited' = IF fresh THEN visited \cup {s} ELSE visited
      /\ nodes' = IF kept THEN Append(nodes, x) ELSE nodes
      /\ open' = IF kept
                 THEN heap_push(open, [f |-> nodes'[Len(nodes')].f, idx |-> Len(nodes')])
                 ELSE open
  BY Zenon DEF Expand
<1>3. problem \in Problems /\ NodesInv /\ BudgetInv
  BY Zenon DEF SearchInv
<1>4. Len(nodes) \in Nat
  BY Zenon, <1>3, NodeType
<1>5. cur \in 1..Len(nodes) /\ act \in 1..Actions
  BY <1>1, <1>3, <1>4, DomainAssumption DEF BudgetInv
<1>6. \A i \in 1..Len(nodes) : i = cur' => i = cur
  BY <1>1, <1>4
<1>7. ASSUME NEW a \in 1..Actions, cur = cur' => a < act'
      PROVE  a < act \/ a = act
  <2>1. /\ After(act) = 0 => act = Actions
        /\ After(act) # 0 => After(act) = act + 1
    BY Zenon, <1>5, AfterType
  <2>2. CASE act' = 0
    BY <1>1, <1>5, <2>1, <2>2, DomainAssumption
  <2>3. CASE act' # 0
    BY <1>1, <1>5, <1>7, <2>1, <2>3, DomainAssumption
  <2> QED
    BY <2>2, <2>3
<1>8. /\ ~fresh => s = None \/ s \in visited \/ ~(Cardinality(visited) < VisitedCap)
      /\ fresh /\ ~kept => ~(d + 1 <= problem.max_plan_depth)
      /\ kept => fresh
  BY Zenon DEF WithinDepthCap
<1> HIDE DEF fresh, kept, x
<1>9. \/ /\ nodes' = nodes /\ open' = open /\ visited' = visited
         /\ s = None \/ s \in visited \/ ~(Cardinality(visited) < VisitedCap)
      \/ /\ nodes' = nodes /\ open' = open /\ visited' = visited \cup {s}
         /\ ~(d + 1 <= problem.max_plan_depth)
      \/ /\ visited' = visited \cup {s} /\ nodes' = Append(nodes, x)
         /\ open' = heap_push(open, [f |-> nodes'[Len(nodes')].f, idx |-> Len(nodes')])
  BY Zenon, <1>2, <1>8
<1> QED
  BY Zenon, <1>1, <1>5, <1>6, <1>7, <1>9 DEF x

\* The node being expanded is a least one, and no node is two deeper.
LEMMA CurFacts ==
  ASSUME problem \in Problems, NodesInv, Levels, Unit, cur \in 1..Len(nodes),
         NEW d, d = nodes[cur].depth
  PROVE  /\ ~Met(cur) /\ ~Waiting(cur) /\ d \in Nat /\ nodes[cur].f = d + 1
         /\ \A i \in 1..Len(nodes) : Pending(i) /\ ~Met(i) => d <= nodes[i].depth
         /\ \A i \in 1..Len(nodes) : nodes[i].depth <= d + 1
         /\ d < problem.max_plan_depth =>
              \A s \in visited : \E j \in 1..Len(nodes) : nodes[j].state = s
<1>1. \A i \in 1..Len(nodes) : nodes[i].depth \in Nat /\ i # 0
  BY NodeType
<1>2. /\ ~Met(cur) /\ ~Waiting(cur) /\ Pending(cur)
      /\ \A i \in 1..Len(nodes) : Waiting(i) => nodes[cur].f <= nodes[i].f
  BY Zenon, <1>1 DEF Levels, CurLeast, Pending
<1>3. ASSUME NEW i \in 1..Len(nodes), ~Met(i)
      PROVE  nodes[i].f = nodes[i].depth + 1
  <2>1. nodes[i].f = nodes[i].depth + Unsatisfied(nodes[i].state)
    BY Zenon DEF Levels, Estimates
  <2>2. Unsatisfied(nodes[i].state) = 1
    BY Zenon, <1>3, OneTarget DEF Met, Unit
  <2> QED
    BY Zenon, <2>1, <2>2
<1>4. ASSUME NEW i \in 1..Len(nodes), Pending(i), ~Met(i)
      PROVE  d <= nodes[i].depth
  <2>1. CASE i = cur
    BY <1>1, <2>1
  <2>2. CASE Waiting(i)
    <3>1. nodes[cur].f <= nodes[i].f /\ nodes[cur].f = d + 1 /\ nodes[i].f = nodes[i].depth + 1
      BY Zenon, <1>2, <1>3, <1>4, <2>2
    <3> QED
      BY <1>1, <3>1
  <2> QED
    BY Zenon, <1>4, <2>1, <2>2 DEF Pending
<1>5. \A i \in 1..Len(nodes) : nodes[i].depth <= d + 1
  BY Zenon, <1>2 DEF Levels, Frontier
<1>6. d < problem.max_plan_depth =>
        \A s \in visited : \E j \in 1..Len(nodes) : nodes[j].state = s
  BY Zenon, <1>2 DEF Levels, NoneDropped
<1> QED
  BY Zenon, <1>1, <1>2, <1>3, <1>4, <1>5, <1>6

\* An expansion step that adds no node: the successor is known or too deep.
LEMMA ExpandKeeps ==
  ASSUME SearchInv, SearchInv', Levels, Unit, Expand, nodes' = nodes
  PROVE  Levels'
<1> DEFINE s == problem.succ[nodes[cur].state][act]
           d == nodes[cur].depth
<1>1. problem \in Problems /\ NodesInv
  BY Zenon DEF SearchInv
<1>2. /\ cur \in 1..Len(nodes) /\ act \in 1..Actions /\ problem' = problem
      /\ \A i \in 1..Len(nodes) : i = cur' => i = cur
      /\ \A a \in 1..Actions : (cur = cur' => a < act') => a < act \/ a = act
      /\ open' = open
      /\ \/ /\ visited' = visited
            /\ s = None \/ s \in visited \/ ~(Cardinality(visited) < VisitedCap)
         \/ /\ visited' = visited \cup {s}
            /\ ~(d + 1 <= problem.max_plan_depth)
  <2> DEFINE x == SearchNode(s, cur, act, d + 1,
                    nodes[cur].g + problem.cost[nodes[cur].state][act])
  <2>1. nodes # Append(nodes, x)
    <3>1. nodes \in Seq(Node)
      BY Zenon, <1>1 DEF NodesInv
    <3> HIDE DEF x
    <3>2. Len(Append(nodes, x)) = Len(nodes) + 1 /\ Len(nodes) \in Nat
      BY <3>1
    <3> QED
      BY <3>2
  <2> QED
    BY Zenon, <2>1, ExpandFacts
<1>3. /\ ~Met(cur) /\ ~Waiting(cur) /\ d \in Nat
      /\ \A i \in 1..Len(nodes) : Pending(i) /\ ~Met(i) => d <= nodes[i].depth
      /\ \A i \in 1..Len(nodes) : nodes[i].depth <= d + 1
      /\ d < problem.max_plan_depth =>
           \A q \in visited : \E j \in 1..Len(nodes) : nodes[j].state = q
  BY Zenon, <1>1, <1>2, CurFacts
<1> HIDE DEF s, d
<1>4. /\ \A j : (Met(j)' <=> Met(j)) /\ (Waiting(j)' <=> Waiting(j))
      /\ \A j \in 1..Len(nodes) : Pending(j)' => Pending(j)
  BY Zenon, <1>2 DEF Met, GoalsMet, Unsatisfied, Waiting, Pending
<1>5. /\ Len(nodes) \in Nat /\ problem.max_nodes \in Nat /\ problem.max_plan_depth \in Nat
      /\ \A i \in 1..Len(nodes) : nodes[i].depth \in Nat /\ i # 0
  BY <1>1, NodeType, ProblemType
<1>6. Estimates' /\ GoalsWait' /\ Frontier'
  BY Zenon, <1>4 DEF Levels, Estimates, Unsatisfied, GoalsWait, Frontier
<1>7. NoneDropped'
  <2>1. CASE visited' = visited
    BY Zenon, <1>2, <1>4, <2>1 DEF Levels, NoneDropped
  <2>2. CASE ~(d + 1 <= problem.max_plan_depth)
    <3>1. \A i \in 1..Len(nodes) :
            Pending(i) /\ ~Met(i) => ~(nodes[i].depth < problem.max_plan_depth)
      BY <1>3, <1>5, <2>2
    <3> QED
      BY Zenon, <1>2, <1>4, <3>1 DEF NoneDropped
  <2> QED
    BY Zenon, <1>2, <2>1, <2>2
<1>8. CurLeast'
  <2>1. cur' # 0 => cur' = cur
    BY Zenon DEF Expand
  <2> QED
    BY Zenon, <1>3, <1>4, <1>5, <1>2, <2>1 DEF Levels, CurLeast
<1>9. Complete'
  <2>1. ASSUME NEW i \in 1..Len(nodes), NEW a \in 1..Actions, Tried(i, a)', ~Tried(i, a)
        PROVE  i = cur /\ a = act
    BY Zenon, <1>2, <1>4, <2>1 DEF Tried
  <2>2. ASSUME Len(nodes) <= problem.max_nodes, d < problem.max_plan_depth, s # None
        PROVE  Covered(s, d + 1)
    <3>1. /\ visited' = visited
          /\ s = None \/ s \in visited \/ ~(Cardinality(visited) < VisitedCap)
      BY <1>2, <1>3, <1>5, <2>2
    <3>2. Cardinality(visited) \in Nat /\ Cardinality(visited) <= Len(nodes)
      BY <1>1, <1>3, <2>2, FewStates
    <3>3. Cardinality(visited) < VisitedCap
      BY <1>5, <2>2, <3>2 DEF VisitedCap
    <3> QED
      BY Zenon, <1>3, <2>2, <3>1, <3>3 DEF Covered
  <2>3. ASSUME Len(nodes) <= problem.max_nodes, NEW i \in 1..Len(nodes), NEW a \in 1..Actions,
               Tried(i, a)', nodes[i].depth < problem.max_plan_depth,
               problem.succ[nodes[i].state][a] # None
        PROVE  Covered(problem.succ[nodes[i].state][a], nodes[i].depth + 1)
    <3>1. CASE Tried(i, a)
      BY Zenon, <2>3, <3>1 DEF Levels, Complete
    <3>2. CASE i = cur /\ a = act
      BY Zenon, <2>2, <2>3, <3>2 DEF s, d
    <3> QED
      BY Zenon, <2>1, <2>3, <3>1, <3>2
  <2>4. Len(nodes) > problem.max_nodes => open # <<>>
    BY Zenon DEF Levels, Complete
  <2> QED
    BY Zenon, <1>2, <2>3, <2>4 DEF Complete, Covered
<1> QED
  BY Zenon, <1>6, <1>7, <1>8, <1>9 DEF Levels

\* An expansion step that adds a node.
LEMMA ExpandAdds ==
  ASSUME SearchInv, SearchInv', Levels, Unit, Expand, nodes' # nodes
  PROVE  Levels'
<1> DEFINE s == problem.succ[nodes[cur].state][act]
           d == nodes[cur].depth
           N == Len(nodes)
           x == SearchNode(s, cur, act, d + 1, nodes[cur].g + problem.cost[nodes[cur].state][act])
           e == [f |-> nodes'[Len(nodes')].f, idx |-> Len(nodes')]
<1>1. /\ problem \in Problems /\ NodesInv /\ OpenInv
      /\ nodes' \in Seq(Node)
  BY Zenon DEF SearchInv, NodesInv
<1>2. /\ cur \in 1..N /\ act \in 1..Actions /\ problem' = problem
      /\ \A i \in 1..N : i = cur' => i = cur
      /\ \A a \in 1..Actions : (cur = cur' => a < act') => a < act \/ a = act
      /\ visited' = visited \cup {s} /\ nodes' = Append(nodes, x) /\ open' = heap_push(open, e)
  BY Zenon, ExpandFacts
<1>3. /\ ~Met(cur) /\ ~Waiting(cur) /\ d \in Nat /\ nodes[cur].f = d + 1
      /\ \A i \in 1..N : Pending(i) /\ ~Met(i) => d <= nodes[i].depth
      /\ \A i \in 1..N : nodes[i].depth <= d + 1
      /\ d < problem.max_plan_depth =>
           \A q \in visited : \E j \in 1..N : nodes[j].state = q
  BY Zenon, <1>1, <1>2, CurFacts
<1>4. /\ N \in Nat /\ problem.max_nodes \in Nat /\ problem.max_plan_depth \in Nat
      /\ nodes \in Seq(Node)
      /\ \A i \in 1..N : /\ nodes[i].depth \in Nat /\ nodes[i].g \in Nat /\ nodes[i].f \in Nat
                         /\ nodes[i].state \in State /\ i # 0
  BY <1>1, NodeType, ProblemType DEF NodesInv
<1>5. problem.cost[nodes[cur].state][act] = 1 /\ nodes[cur].g = d
  BY Zenon, <1>2, <1>4 DEF Unit, UnitCosts, Levels, Estimates
<1>6. /\ x.state = s /\ x.depth = d + 1 /\ x.g = d + 1
      /\ x.f = x.depth + Unsatisfied(x.state)
  BY <1>3, <1>5 DEF SearchNode
<1> HIDE DEF x, s, d
<1>7. /\ Len(nodes') = N + 1 /\ nodes'[N + 1] = x
      /\ \A i \in 1..N : nodes'[i] = nodes[i]
      /\ \A i \in 1..Len(nodes') : i \in 1..N \/ i = N + 1
      /\ N + 1 \in 1..Len(nodes') /\ N + 1 \notin 1..N /\ N + 1 # 0
      /\ \A i \in 1..N : i \in 1..Len(nodes')
  <2>1. /\ Len(nodes') = Len(nodes) + 1 /\ nodes'[Len(nodes) + 1] = x
        /\ \A i \in 1..Len(nodes) : nodes'[i] = nodes[i]
    BY <1>2, <1>4
  <2>2. Len(nodes') = N + 1
    BY Zenon, <2>1
  <2> HIDE DEF N
  <2>3. /\ \A i \in 1..(N + 1) : i \in 1..N \/ i = N + 1
        /\ N + 1 \in 1..(N + 1) /\ N + 1 \notin 1..N /\ N + 1 # 0
        /\ \A i \in 1..N : i \in 1..(N + 1)
    BY <1>4
  <2> QED
    BY Zenon, <2>1, <2>2, <2>3 DEF N
<1>8. \A j : Waiting(j)' <=> Waiting(j) \/ j = N + 1
  <2>1. e \in Entry /\ e.idx = N + 1
    <3>1. nodes'[N + 1] \in Node
      BY <1>1, <1>4, <1>7
    <3> QED
      BY <1>4, <1>7, <3>1 DEF Entry, Node
  <2> HIDE DEF e
  <2>2. e \notin Range(open)
    BY Zenon, <1>1, <1>7, <2>1 DEF OpenInv
  <2>3. Range(open') = Range(open) \cup {e}
    BY Zenon, <1>1, <1>2, <2>1, <2>2, EntryPushed DEF OpenInv
  <2>4. \A y : y \in Range(open') <=> y \in Range(open) \/ y = e
    BY Zenon, <2>3
  <2> QED
    BY Zenon, <2>1, <2>4 DEF Waiting
<1> HIDE DEF e, N
<1>9. /\ \A j \in 1..N : (Met(j)' <=> Met(j)) /\ (Pending(j)' => Pending(j))
      /\ \A j \in 1..N : Waiting(j)' <=> Waiting(j)
  BY Zenon, <1>2, <1>7, <1>8 DEF Met, GoalsMet, Unsatisfied, Pending
<1>10. Estimates'
  <2>1. ASSUME NEW i \in 1..N
        PROVE  /\ nodes'[i].g = nodes'[i].depth
               /\ nodes'[i].f = nodes'[i].depth + Unsatisfied(nodes'[i].state)
    BY Zenon, <1>7 DEF Levels, Estimates, N
  <2> QED
    BY Zenon, <1>6, <1>7, <2>1 DEF Estimates, Unsatisfied
<1>11. GoalsWait'
  <2>1. ASSUME NEW i \in 1..N, Met(i)'
        PROVE  Waiting(i)'
    BY Zenon, <1>9, <2>1 DEF Levels, GoalsWait, N
  <2> QED
    BY Zenon, <1>7, <1>8, <2>1 DEF GoalsWait
<1>12. ASSUME NEW i \in 1..Len(nodes'), NEW j \in 1..Len(nodes'), Pending(i)', ~Met(i)'
       PROVE  nodes'[j].depth <= nodes'[i].depth + 1
  <2>1. nodes'[j].depth \in Nat /\ nodes'[j].depth <= d + 1
    <3>1. CASE j = N + 1
      BY <1>3, <1>6, <1>7, <3>1
    <3>2. CASE j \in 1..N
      BY Zenon, <1>3, <1>4, <1>7, <3>2
    <3> QED
      BY Zenon, <1>7, <3>1, <3>2
  <2>2. nodes'[i].depth \in Nat /\ d <= nodes'[i].depth
    <3>1. CASE i = N + 1
      BY <1>3, <1>6, <1>7, <3>1
    <3>2. CASE i \in 1..N
      <4>1. d <= nodes[i].depth
        BY Zenon, <1>3, <1>9, <1>12, <3>2
      <4> QED
        BY Zenon, <1>4, <1>7, <3>2, <4>1
    <3> QED
      BY Zenon, <1>7, <3>1, <3>2
  <2> QED
    BY <1>3, <2>1, <2>2
<1>13. Frontier'
  BY Zenon, <1>12 DEF Frontier
<1>14. ASSUME NEW i \in 1..Len(nodes'), Pending(i)', ~Met(i)',
              nodes'[i].depth < problem.max_plan_depth, NEW q \in visited'
       PROVE  \E j \in 1..Len(nodes') : nodes'[j].state = q
  <2>1. CASE q = s
    BY Zenon, <1>6, <1>7, <2>1
  <2>2. CASE q \in visited
    <3>1. d < problem.max_plan_depth
      <4>1. CASE i = N + 1
        BY <1>3, <1>4, <1>6, <1>7, <1>14, <4>1
      <4>2. CASE i \in 1..N
        <5>1. d <= nodes[i].depth /\ nodes'[i] = nodes[i] /\ nodes[i].depth \in Nat
          BY Zenon, <1>3, <1>4, <1>7, <1>9, <1>14, <4>2
        <5> QED
          BY <1>3, <1>4, <1>14, <5>1
      <4> QED
        BY Zenon, <1>7, <4>1, <4>2
    <3>2. PICK j \in 1..N : nodes[j].state = q
      BY Zenon, <1>3, <2>2, <3>1
    <3>3. j \in 1..Len(nodes') /\ nodes'[j] = nodes[j]
      BY Zenon, <1>7
    <3> QED
      BY Zenon, <3>2, <3>3
  <2> QED
    BY <1>2, <2>1, <2>2
<1>15. NoneDropped'
  BY Zenon, <1>2, <1>14 DEF NoneDropped
<1>16. CurLeast'
  <2>1. cur' # 0 => cur' = cur
    BY Zenon DEF Expand
  <2>2. ASSUME NEW i \in 1..Len(nodes'), Waiting(i)'
        PROVE  nodes'[cur].f <= nodes'[i].f
    <3>1. nodes'[cur].f = d + 1
      BY Zenon, <1>2, <1>3, <1>7
    <3>2. CASE i = N + 1
      <4>1. nodes'[i].f = d + 1 + Unsatisfied(x.state) /\ Unsatisfied(x.state) \in Nat
        BY Zenon, <1>6, <1>7, <3>2, UnsatisfiedType
      <4> QED
        BY <1>3, <3>1, <4>1
    <3>3. CASE i \in 1..N
      BY Zenon, <1>2, <1>4, <1>7, <1>9, <2>2, <3>3 DEF Levels, CurLeast, N
    <3> QED
      BY Zenon, <1>7, <3>2, <3>3
  <2>3. ASSUME NEW k, k = cur PROVE ~Waiting(k)' /\ ~Met(k)'
    BY Zenon, <1>2, <1>3, <1>9, <2>3
  <2> QED
    BY Zenon, <2>1, <2>2, <2>3 DEF CurLeast
<1>17. ASSUME Len(nodes') <= problem.max_nodes, NEW i \in 1..Len(nodes'), NEW a \in 1..Actions,
              Tried(i, a)', nodes'[i].depth < problem.max_plan_depth,
              problem.succ[nodes'[i].state][a] # None
       PROVE  \E j \in 1..Len(nodes') : /\ nodes'[j].state = problem.succ[nodes'[i].state][a]
                                        /\ nodes'[j].depth <= nodes'[i].depth + 1
  <2>1. i \in 1..N /\ nodes'[i] = nodes[i] /\ Len(nodes) <= problem.max_nodes
    <3>1. i \in 1..N
      BY Zenon, <1>7, <1>8, <1>17 DEF Tried
    <3>2. Len(nodes) <= problem.max_nodes
      BY <1>4, <1>7, <1>17 DEF N
    <3> QED
      BY Zenon, <1>7, <3>1, <3>2
  <2>2. CASE Tried(i, a)
    <3>1. PICK j \in 1..N : /\ nodes[j].state = problem.succ[nodes[i].state][a]
                            /\ nodes[j].depth <= nodes[i].depth + 1
      BY Zenon, <1>17, <2>1, <2>2 DEF Levels, Complete, Covered, N
    <3> QED
      BY Zenon, <1>7, <2>1, <3>1
  <2>3. CASE i = cur /\ a = act
    <3>1. x.depth <= d + 1
      BY <1>3, <1>6
    <3> QED
      BY Zenon, <1>6, <1>7, <2>1, <2>3, <3>1 DEF s, d
  <2>4. Tried(i, a) \/ (i = cur /\ a = act)
    BY Zenon, <1>2, <1>8, <1>17, <2>1 DEF Tried
  <2> QED
    BY Zenon, <2>2, <2>3, <2>4
<1>18. Complete'
  <2>1. open' # <<>>
    <3>1. PICK y \in Range(open') : y.idx = N + 1
      BY Zenon, <1>8 DEF Waiting
    <3> QED
      BY <3>1 DEF Range
  <2> QED
    BY Zenon, <1>2, <1>17, <2>1 DEF Complete, Covered
<1> QED
  BY Zenon, <1>10, <1>11, <1>13, <1>15, <1>16, <1>18 DEF Levels

\* At the start there is no result to speak of.
LEMMA InitExact ==
  ASSUME Init, SearchInv
  PROVE  Exact
<1>1. cur = 0 /\ result = Searching
  BY Zenon DEF Init
<1>2. ~result.found /\ ~result.ended
  BY <1>1 DEF Searching
<1>3. ShortestPlan
  BY Zenon, <1>2, ShortestNow DEF ShortestIn
<1> QED
  BY Zenon, <1>1, <1>2, <1>3, InitLevels DEF Exact

\* Every step of a search with unit costs and one target stays exact.
LEMMA ExactStep ==
  ASSUME SearchInv, SearchInv', Exact, [Next]_vars
  PROVE  Exact'
<1>1. problem' = problem
  BY Zenon DEF Next, Pop, GiveUp, Expand, vars
<1> SUFFICES ASSUME Unit
             PROVE  /\ ShortestIn(problem, result', open')
                    /\ result'.ended => cur' = 0
                    /\ ~result'.ended => Levels'
  BY Zenon, <1>1, ShortestNext DEF Exact, Unit, UnitCosts
<1>2. /\ ShortestIn(problem, result, open) /\ (result.ended => cur = 0)
      /\ ~result.ended => Levels
  BY Zenon, ShortestNow DEF Exact
<1>3. CASE Pop
  <2>1. ~result.ended /\ cur = 0 /\ Levels
    BY Zenon, <1>2, <1>3 DEF Pop
  <2>2. CASE cur' = 0
    <3>1. ShortestIn(problem, result', open')
      BY Zenon, <1>3, <2>1, <2>2, PopShortest
    <3>2. result'.ended
      <4>1. open[1].idx \in 1..Len(nodes) /\ open[1].idx # 0
        BY PopWaiting, NodeType, <1>3 DEF SearchInv, Pop
      <4>2. result' = [found |-> TRUE, ended |-> TRUE, plan |-> ActionsTo(open[1].idx),
                       cost |-> nodes[open[1].idx].g]
        BY Zenon, <1>3, <2>2, <4>1 DEF Pop
      <4> QED
        BY <4>2
    <3> QED
      BY Zenon, <2>2, <3>1, <3>2
  <2>3. CASE cur' # 0
    <3>1. Levels'
      BY Zenon, <1>3, <2>1, <2>3, PopLevels
    <3>2. result' = result
      BY Zenon, <1>3, <2>1, <2>3 DEF Pop
    <3> QED
      BY Zenon, <1>2, <2>1, <3>1, <3>2 DEF ShortestIn
  <2> QED
    BY <2>2, <2>3
<1>4. CASE GiveUp
  <2>1. ~result.ended /\ Levels /\ cur = 0 /\ cur' = cur /\ result' = NoPlan
    BY Zenon, <1>2, <1>4 DEF GiveUp
  <2>2. result'.ended
    BY <2>1 DEF NoPlan, Searching
  <2>3. ShortestIn(problem, result', open')
    BY Zenon, <1>4, <2>1, GiveUpShortest
  <2> QED
    BY Zenon, <2>1, <2>2, <2>3
<1>5. CASE Expand
  <2>1. cur # 0 /\ result' = result
    BY Zenon, <1>5 DEF Expand
  <2>2. ~result.ended /\ Levels
    BY Zenon, <1>2, <2>1
  <2>3. Levels'
    BY Zenon, <1>5, <2>2, ExpandKeeps, ExpandAdds
  <2> QED
    BY Zenon, <1>2, <2>1, <2>2, <2>3 DEF ShortestIn
<1>6. CASE UNCHANGED vars
  <2>1. /\ nodes' = nodes /\ open' = open /\ visited' = visited /\ cur' = cur /\ act' = act
        /\ result' = result
    BY <1>6 DEF vars
  <2>2. Levels => Levels'
    <3>1. /\ \A i : (Waiting(i)' <=> Waiting(i)) /\ (Met(i)' <=> Met(i))
          /\ \A i : (Pending(i)' <=> Pending(i))
      BY Zenon, <2>1 DEF Waiting, Pending, Met, GoalsMet, Unsatisfied
    <3>2. Estimates => Estimates'
      BY Zenon, <2>1 DEF Estimates, Unsatisfied
    <3>3. (GoalsWait => GoalsWait') /\ (Frontier => Frontier')
      BY Zenon, <2>1, <3>1 DEF GoalsWait, Frontier
    <3>4. (NoneDropped => NoneDropped') /\ (CurLeast => CurLeast')
      BY Zenon, <1>1, <2>1, <3>1 DEF NoneDropped, CurLeast
    <3>5. Complete => Complete'
      BY Zenon, <1>1, <2>1, <3>1 DEF Complete, Tried, Covered
    <3> QED
      BY Zenon, <3>2, <3>3, <3>4, <3>5 DEF Levels
  <2> QED
    BY Zenon, <1>2, <2>1, <2>2
<1> QED
  BY Zenon, <1>3, <1>4, <1>5, <1>6 DEF Next

(***************************************************************************)
(* With unit costs and one target goal, fleece_goap_plan is exact in every *)
(* domain and under every budget: no plan is shorter than the one it       *)
(* returns, and an empty heap means that there is none within              *)
(* max_plan_depth.                                                         *)
(***************************************************************************)
THEOREM PlansShortest == Spec => []ShortestPlan
<1>1. Init /\ SearchInv => Exact
  BY Zenon, InitExact
<1>2. SearchInv /\ SearchInv' /\ Exact /\ [Next]_vars => Exact'
  BY Zenon, ExactStep
<1>3. Exact => ShortestPlan
  BY Zenon, ShortestNow DEF Exact
<1> QED
  BY PTL, <1>1, <1>2, <1>3, SearchCorrect DEF Spec
=============================================================================
