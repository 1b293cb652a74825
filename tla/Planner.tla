------------------------------ MODULE Planner ------------------------------
(***************************************************************************)
(* fleece_goap_plan: best-first search over simulated blackboards, from a  *)
(* start state to one where every target goal is satisfied, with budgets   *)
(* on iterations, nodes and plan length.                                   *)
(*                                                                         *)
(* A blackboard is a state; what the host's callbacks answer is a problem: *)
(* which actions apply where, where they lead and what they cost, with the *)
(* budgets the host has set.  The open list is the array of the binary     *)
(* heap.  Out of memory paths, which give up the search, are left out.     *)
(***************************************************************************)
EXTENDS PlannerHeap, FiniteSets, Functions

CONSTANTS State, Start,
          Actions,  \* number of actions
          Targets,  \* for every target goal, the states that satisfy it
          Problems, \* [succ, cost, max_iters, max_nodes, max_plan_depth]
          None      \* succ[s][a] is a state, or None: a does not apply

\* action_cost_for replaces a negative cost by 1.  A cost that is no number
\* passes its test, and compares false with everything: it is left out.
ASSUME ProblemAssumption ==
  \A p \in Problems :
    /\ p.succ \in [State -> [1..Actions -> State \cup {None}]]
    /\ p.cost \in [State -> [1..Actions -> Nat]]
    /\ p.max_iters \in Nat \ {0} /\ p.max_nodes \in Nat \ {0} /\ p.max_plan_depth \in Nat \ {0}
ASSUME DomainAssumption ==
  /\ Actions \in Nat \ {0}
  /\ Start \in State /\ None \notin State
  /\ Targets \in Seq(SUBSET State)

VARIABLES problem, nodes, visited, iters,
          open, \* the heap: [f, idx], idx a position of nodes
          cur, \* the node being expanded, 0 = pop the next one
          act, \* the action to try next on it
          result

vars == <<problem, nodes, open, visited, iters, cur, act, result>>

\* count_unsatisfied
Unsatisfied(s) == Cardinality({g \in DOMAIN Targets : s \notin Targets[g]})

GoalsMet(s) == Unsatisfied(s) = 0

SearchNode(s, parent, a, depth, g) ==
  [state |-> s, parent |-> parent, act |-> a, depth |-> depth, g |-> g,
   f |-> g + Unsatisfied(s)]

Searching == [found |-> FALSE, ended |-> FALSE, plan |-> <<>>, cost |-> 0]
NoPlan == [Searching EXCEPT !.ended = TRUE]

Init ==
  /\ problem \in Problems
  /\ nodes = <<SearchNode(Start, 0, 0, 0, 0)>>
  /\ open = heap_push(<<>>, [f |-> nodes[1].f, idx |-> 1])
  /\ visited = {Start}
  /\ iters = 0
  /\ cur = 0 /\ act = 0
  /\ result = Searching

\* Mutant: either budget keeps the search going.
EitherBudget == Len(nodes) <= problem.max_nodes \/ iters < problem.max_iters

WithinBudget == Len(nodes) <= problem.max_nodes /\ iters < problem.max_iters

\* Mutant: the actions in the order the walk to the root meets them.
FromGoal(i) ==
  LET back[j \in 1..i] ==
        IF j = 1 THEN <<>> ELSE <<nodes[j].act>> \o back[nodes[j].parent]
  IN  back[i]

\* The actions from the root to node i: the parents, in reverse.
ActionsTo(i) ==
  LET walk[j \in 1..i] ==
        IF j = 1 THEN <<>> ELSE Append(walk[nodes[j].parent], nodes[j].act)
  IN  walk[i]

\* Pop a node; it is a goal, or its expansion starts.
Pop ==
  /\ ~result.ended /\ cur = 0
  /\ WithinBudget
  /\ open # <<>>
  /\ LET i == open[1].idx IN
       /\ open' = heap_pop(open)
       /\ iters' = iters + 1
       /\ IF GoalsMet(nodes[i].state)
          THEN /\ result' = [found |-> TRUE, ended |-> TRUE,
                             plan |-> ActionsTo(i), cost |-> nodes[i].g]
               /\ UNCHANGED <<cur, act>>
          ELSE cur' = i /\ act' = 1 /\ UNCHANGED result
  /\ UNCHANGED <<problem, nodes, visited>>

GiveUp ==
  /\ ~result.ended /\ cur = 0
  /\ ~WithinBudget \/ open = <<>>
  /\ result' = NoPlan
  /\ UNCHANGED <<problem, nodes, open, visited, iters, cur, act>>

\* Mutant: one action too many.
PastTheLast(a) == IF a > Actions THEN 0 ELSE a + 1

\* The action after a, or 0 when the node is expanded.
After(a) == IF a = Actions THEN 0 ELSE a + 1

\* The table is full: a state that cannot be added counts as visited.
VisitedCap == 2 * problem.max_nodes + 1

\* Mutant: plans of exactly max_plan_depth actions are lost.
BelowDepthCap(d) == d < problem.max_plan_depth

WithinDepthCap(d) == d <= problem.max_plan_depth

(***************************************************************************)
(* Try the next action.  A successor not seen before is marked as visited  *)
(* first and dropped afterwards if it is too deep.                         *)
(***************************************************************************)
Expand ==
  /\ cur # 0
  /\ LET node == nodes[cur]
         s == problem.succ[node.state][act]
         fresh == s # None /\ s \notin visited /\ Cardinality(visited) < VisitedCap
         kept == fresh /\ WithinDepthCap(node.depth + 1)
     IN  /\ visited' = IF fresh THEN visited \cup {s} ELSE visited
         /\ nodes' = IF kept
                     THEN Append(nodes, SearchNode(s, cur, act, node.depth + 1,
                                   node.g + problem.cost[node.state][act]))
                     ELSE nodes
         /\ open' = IF kept THEN heap_push(open, [f |-> nodes'[Len(nodes')].f, idx |-> Len(nodes')])
                    ELSE open
         /\ act' = After(act)
         /\ cur' = IF act' = 0 THEN 0 ELSE cur
  /\ UNCHANGED <<problem, iters, result>>

Next == Pop \/ GiveUp \/ Expand

Spec == Init /\ [][Next]_vars
-----------------------------------------------------------------------------
TypeOK ==
  /\ \A i \in 1..Len(nodes) :
       /\ nodes[i].state \in visited
       /\ nodes[i].parent \in 0..(i - 1)
       /\ nodes[i].act \in 0..Actions
       /\ nodes[i].g \in Nat /\ nodes[i].f \in Nat
  /\ \A i \in DOMAIN open : open[i].idx \in DOMAIN nodes /\ open[i].f = nodes[open[i].idx].f
  /\ visited \subseteq State
  /\ cur \in 0..Len(nodes) /\ act \in 0..Actions
  /\ iters \in Nat

\* The state and the cost after the first i actions of plan p.
Outcome(p) ==
  LET run[i \in 0..Len(p)] ==
        IF i = 0 THEN [state |-> Start, cost |-> 0]
        ELSE LET before == run[i - 1].state IN
             IF before = None THEN run[i - 1]
             ELSE [state |-> problem.succ[before][p[i]],
                   cost |-> run[i - 1].cost + problem.cost[before][p[i]]]
  IN  run[Len(p)]

(***************************************************************************)
(* A plan does what it is for: its actions, applied in order from the      *)
(* start, all apply, reach a state with every target satisfied, cost what  *)
(* the plan says, and are no more than max_plan_depth.                     *)
(***************************************************************************)
PlanSound ==
  result.found =>
    LET end == Outcome(result.plan) IN
    /\ end.state # None /\ GoalsMet(end.state)
    /\ end.cost = result.cost
    /\ Len(result.plan) <= problem.max_plan_depth

\* States at most d actions away from the start.
Within(d) ==
  LET ball[i \in 0..d] ==
        IF i = 0 THEN {Start}
        ELSE ball[i - 1] \cup
             {s \in State : \E q \in ball[i - 1], a \in 1..Actions :
                              problem.succ[q][a] = s}
  IN  ball[d]

Reaches(d) == \E s \in Within(d) : GoalsMet(s)

UnitCosts == \A s \in State, a \in 1..Actions : problem.cost[s][a] = 1

(***************************************************************************)
(* With the default cost of 1 for every action and one target goal, the    *)
(* search is exact: no plan is shorter than the one it returns, and when   *)
(* it ends with an empty heap there is none of at most max_plan_depth      *)
(* actions, even if too deep states have filled the table of visited ones. *)
(***************************************************************************)
ShortestPlan ==
  UnitCosts /\ Len(Targets) = 1 =>
    /\ result.found => \A d \in 0..problem.max_plan_depth : d < Len(result.plan) => ~Reaches(d)
    /\ result.ended /\ ~result.found /\ open = <<>> => ~Reaches(problem.max_plan_depth)

(***************************************************************************)
(* max_iters and max_nodes bound the search.  The nodes may exceed the     *)
(* budget by the successors of the last node expanded.                     *)
(***************************************************************************)
SearchBounded ==
  /\ iters <= problem.max_iters
  /\ Len(nodes) <= problem.max_nodes + Actions

(***************************************************************************)
(* In whatever order the search pushes and pops, a pop removes an entry of *)
(* least f, and moving the hole loses and duplicates no entry.             *)
(***************************************************************************)
PopsLeast ==
  [][\/ UNCHANGED open
     \/ \E e \in Range(open) :
          /\ \A d \in Range(open) : e.f <= d.f
          /\ Range(open') = Range(open) \ {e} /\ Len(open') = Len(open) - 1
     \/ /\ Range(open) \subseteq Range(open') /\ Len(open') = Len(open) + 1
        /\ Cardinality(Range(open')) = Len(open')]_vars
=============================================================================
