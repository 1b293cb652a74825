---------------------------- MODULE MCGoapTables ----------------------------
(***************************************************************************)
(* Rows whose texts, lists and numbers sit on both sides of the lengths    *)
(* where a CBOR head grows and of the sizes of the fixed text fields.      *)
(***************************************************************************)
EXTENDS GoapTables

Chars(c, n) == [i \in 1..n |-> c]

A == <<97>>
B == <<98>>
F1 == <<102>>
F2 == <<103>>
Bad == <<33>>
Dim == <<100>>
Level == <<108>>

Act(id, cost, dur, exec, pre, eff) ==
  [id |-> id, name |-> <<>>, cost |-> cost, dest |-> B, dur |-> dur, exec |-> exec,
   pre |-> pre, eff |-> eff]

GoalRow(id, expr, priority, curve) ==
  [id |-> id, name |-> A, expr |-> expr, priority |-> priority, curve_id |-> curve]

Curve(id, dim, pts) ==
  [id |-> id, name |-> <<>>, dim |-> dim, x_min |-> -2, x_max |-> 9, points |-> pts]

Point(x, y) == <<x, y>>

Mission(ids, note) == [id |-> A, name |-> B, goal_ids |-> ids, note |-> note]

TooLong == Chars(122, 64)

Rows ==
  [actions |->
     <<{Act(A, F1, 47, Chars(102, 256), <<F1>>, <<F2, Bad>>),
        Act(TooLong, F1, 0, F1, <<>>, <<>>)},
       {Act(Chars(97, 63), <<>>, 131072, F2, <<>>, <<>>)}>>,
   goals |-> <<{GoalRow(A, F1, 2, A)}, {GoalRow(B, Bad, 4, B), GoalRow(B, F2, 2, <<>>)}>>,
   utilities |->
     <<{Curve(A, Dim, <<Point(6, 0), Point(2, 8), Point(4, 4)>>)},
       {Curve(B, Level, <<Point(4, 4), Point(0, 0), Point(4, 8)>>), Curve(B, <<>>, <<>>)}>>,
   missions |-> <<{Mission(<<A, B>>, Chars(110, 24)), Mission(<<>>, Chars(110, 128))}>>]

Big ==
  [name |-> Chars(80, 23),
   actions |-> <<Act(A, F1, 48, <<>>, <<Bad>>, <<F2>>), Act(B, <<>>, -2, F1, <<>>, <<>>)>>,
   goals |-> <<GoalRow(A, F1, 3, A)>>,
   utilities |-> <<Curve(A, Dim, <<Point(2, 8), Point(4, 0)>>)>>,
   missions |-> <<Mission(<<A>>, B)>>]

Small ==
  [NoTables EXCEPT !.actions = <<Act(A, F2, 0, F1, <<>>, <<>>)>>,
                   !.goals = <<GoalRow(B, Bad, 2, <<>>)>>]

BothPlans == {Big, Small}
BadSources == {Bad}
BothNames == {A, TooLong}
Fields == <<Dim, Level>>
=============================================================================
