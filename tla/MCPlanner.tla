----------------------------- MODULE MCPlanner -----------------------------
(***************************************************************************)
(* Planning problems on the states 0..7; 0 is the start and 4 the goal.    *)
(***************************************************************************)
EXTENDS Planner

Goal4 == <<{4}>>

Nowhere == [a \in 1..Actions |-> None]

\* Edges from s: actions lead forward, or the first one state back.
Edges(s) ==
  {e \in [1..Actions -> 0..4 \cup {None}] :
     /\ e[3] = None
     /\ \A a \in 1..2 : e[a] # None => e[a] > s \/ (a = 1 /\ e[a] + 1 = s)}

Graph(a, b, c, d) ==
  [s \in State |-> CASE s = 0 -> a [] s = 1 -> b [] s = 2 -> c [] s = 3 -> d
                     [] OTHER -> Nowhere]

\* Every graph of such edges, all actions at 1 or the second one at 3.  The
\* search expands no goal, so nothing need leave 4.
Mazes ==
  {[succ |-> Graph(a, b, c, d), cost |-> [s \in State |-> k],
    max_iters |-> 4, max_nodes |-> 5, max_plan_depth |-> 2] :
     a \in {e \in Edges(0) : e[1] # None}, b \in Edges(1), c \in Edges(2),
     d \in {e \in Edges(3) : e[1] # 4},
     k \in {<<1, 1, 1>>, <<1, 3, 1>>}}

Price == [1..Actions -> {1, 3}]

\* Trees that fill the heap, or the table of visited states.
Trees ==
  {[succ |-> Graph(<<1, 2, 3>>, <<5, 6, 7>>, <<x, 4, None>>, Nowhere),
    cost |-> [s \in State |-> IF s = 0 THEN k ELSE l],
    max_iters |-> 9, max_nodes |-> n, max_plan_depth |-> d] :
     x \in {0, None}, k \in Price, l \in Price, n \in {2, 8}, d \in {1, 2}}
  \cup
  {[succ |-> Graph(<<1, 2, None>>, <<3, 5, 6>>, <<7, 4, None>>, Nowhere),
    cost |-> [s \in State |-> k],
    max_iters |-> 9, max_nodes |-> 3, max_plan_depth |-> 1] : k \in Price}

AllProblems == Mazes \cup Trees
=============================================================================
