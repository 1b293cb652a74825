----------------------------- MODULE MCGoalPool -----------------------------
(***************************************************************************)
(* Two nodes and two goals.  At first nobody can outbid on g2; on g1 node  *)
(* 2 outbids node 1, and prefers it to g2.                                 *)
(***************************************************************************)
EXTENDS GoalPool

CONSTANTS g1, g2

AllScores == {2, 5}

Bid12 == [n \in Node |-> [g \in Goal |-> IF g = g1 /\ n = 2 THEN 5 ELSE 2]]

Limits ==
  [slack |-> 0, crashes |-> 1, rescores |-> 2, reasserts |-> 1, lapses |-> 1,
   takeovers |-> 2, stalls |-> 1]

\* What a scenario allows of them.
Leaving(allowed) ==
  [b \in Budget |-> IF b \in DOMAIN allowed THEN Limits[b] - allowed[b] ELSE Limits[b]]

Both(one, two) == [n \in Node |-> IF n = 1 THEN one ELSE two]

Begin(up, known, able, accepted, unheard, allowed) ==
  [up |-> up, known |-> known, ready |-> able, fit |-> accepted, score |-> Bid12,
   silent |-> unheard, spent |-> Leaving(allowed)]

Scenarios ==
  { \* A race for one goal: a node may crash, node 1 may be blocked.
    Begin(Node, Both({g2}, {}), {2}, Both(Goal, Goal), Both({}, {}),
          [crashes |-> 1]),
    \* A blocked goal, or its prerequisite, may be released with nothing posted.
    Begin(Node, Both({g2}, {}), {2}, Both(Goal, Goal), Both({}, {}),
          [stalls |-> 1]),
    \* The winner asserts its claim again, and may crash.
    Begin(Node, Both({g2}, {}), Node, Both(Goal, Goal), Both({}, {}),
          [crashes |-> 1, reasserts |-> 1]),
    \* The nodes have not heard of each other and take the goal in turns.
    Begin(Node, Both({g2}, {}), Node, Both(Goal, Goal), Both({2}, {1}),
          [takeovers |-> 2, lapses |-> 1, crashes |-> 1]),
    \* Node 2 outbids node 1; scores change, up to rejection and back.
    Begin(Node, Both({g1}, {}), Node, Both(Goal, Goal), Both({}, {}),
          [rescores |-> 2, crashes |-> 1]),
    \* The better goal arrives while node 2 may hold the other one.
    Begin(Node, Both(Goal, {g2}), Node, Both({g2}, Goal), Both({}, {}),
          [slack |-> 0]),
    \* A node on its own: its scorer drops a goal for the other one and takes
    \* it back, and it may be blocked, with or without a prerequisite.
    Begin({1}, Both(Goal, {}), {}, Both(Goal, {}), Both({2}, {}),
          [rescores |-> 2, reasserts |-> 1, stalls |-> 1]) }
=============================================================================
