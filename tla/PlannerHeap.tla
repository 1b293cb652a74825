---------------------------- MODULE PlannerHeap ----------------------------
(***************************************************************************)
(* The planner's open list: a binary heap in an array, ordered by f.       *)
(* heap_push and heap_pop move a hole up or down the array and drop the    *)
(* entry into it.  Positions are from 1; growing the array is left out.    *)
(***************************************************************************)
EXTENDS Naturals, Sequences

\* e dropped into h, its hole starting at position `start' and moving up.
SiftUp(h, e, start) ==
  LET up[i \in 1..start] ==
        IF i = 1 \/ h[i \div 2].f <= e.f
        THEN [h EXCEPT ![i] = e]
        ELSE [up[i \div 2] EXCEPT ![i] = h[i \div 2]]
  IN  up[start]

LesserChild(h, i) ==
  IF 2 * i < Len(h) /\ h[2 * i + 1].f < h[2 * i].f THEN 2 * i + 1 ELSE 2 * i

\* Mutant: the last entry is not put into the hole.
HoleLeftOpen(h, e) ==
  LET down[i \in 1..Len(h)] ==
        IF 2 * i > Len(h) \/ h[LesserChild(h, i)].f >= e.f
        THEN h
        ELSE [down[LesserChild(h, i)] EXCEPT ![i] = h[LesserChild(h, i)]]
  IN  down[1]

\* e dropped into h, its hole starting at the root and moving down.
SiftDown(h, e) ==
  LET down[i \in 1..Len(h)] ==
        IF 2 * i > Len(h) \/ h[LesserChild(h, i)].f >= e.f
        THEN [h EXCEPT ![i] = e]
        ELSE [down[LesserChild(h, i)] EXCEPT ![i] = h[LesserChild(h, i)]]
  IN  down[1]

heap_push(h, e) == SiftUp(Append(h, e), e, Len(h) + 1)

\* What heap_pop leaves; it hands out the first entry.
heap_pop(h) ==
  IF Len(h) = 1 THEN <<>> ELSE SiftDown(SubSeq(h, 1, Len(h) - 1), h[Len(h)])
=============================================================================
