----------------------------- MODULE GoapTables -----------------------------
(***************************************************************************)
(* What a node plans with: the tables of actions, goals, utility curves    *)
(* and missions, the plan blob that carries them from the tool that        *)
(* authors them to the device, the ranking of goals on a blackboard, and   *)
(* the cache of functions compiled from the tables' sources.               *)
(*                                                                         *)
(* A text is a sequence of bytes, a row of a table a record of its fields, *)
(* a point of a curve a pair <<x, y>>.  Out of memory paths are left out.  *)
(***************************************************************************)
EXTENDS Cbor, FiniteSets, SequencesExt

CONSTANTS NameMax, SourceMax, NoteMax, \* sizes of the fixed text fields
          Def,         \* Def[t][i]: what a host may register as row i of table t
          Names,       \* names a host gives to the tables
          Plans,       \* tables that blobs from elsewhere hold
          Field,       \* names of blackboard fields, in strcmp's order
          Value,       \* values of fields: numbers, or NotANumber
          NotANumber,
          Broken,      \* sources that do not compile
          MaxCompiled, \* bound: compilations in a behaviour
          None

ASSUME SizeAssumption == {NameMax, SourceMax, NoteMax} \subseteq Nat \ {0}
ASSUME BoundAssumption == MaxCompiled \in Nat

VARIABLES tables,   \* [name, actions, goals, utilities, missions]
          loaded,   \* the blob last deserialized, if into the present tables
          bb,       \* the blackboard: a sequence of [name, val, shared]
          cache,    \* the evaluator: [entries, next], or None before it exists
          called,   \* the source last asked for and the function handed out
          compiled, \* compilations so far
          rebuilt   \* the tables changed after the cache was sized

js == <<cache, called, compiled, rebuilt>>
vars == <<tables, loaded, bb, js>>

TableName == <<"actions", "goals", "utilities", "missions">>

\* fleece_goap_create, fleece_goap_reset
NoTables ==
  [name |-> <<>>, actions |-> <<>>, goals |-> <<>>, utilities |-> <<>>,
   missions |-> <<>>]

Init ==
  /\ tables = NoTables /\ loaded = None /\ bb = <<>>
  /\ cache = None /\ called = None /\ compiled = 0 /\ rebuilt = FALSE
-----------------------------------------------------------------------------
(* Registration *)

\* Room, with the closing NUL, for the text fields copied by copy_str.
SizeOf(f) ==
  CASE f \in {"cost", "exec", "expr"} -> SourceMax
    [] f = "note" -> NoteMax
    [] OTHER -> NameMax

\* What a field holds: a number, a text, a list of items that are alike, or a
\* tuple of items under an array head.
Number == [kind |-> "number"]
String == [kind |-> "text"]
ListOf(item) == [kind |-> "list", item |-> item]
Tuple(head, items) == [kind |-> "tuple", head |-> head, items |-> items]

ShapeOf(f) ==
  CASE f \in {"dur", "priority", "x_min", "x_max"} -> Number
    [] f \in {"pre", "eff", "goal_ids"} -> ListOf(String)
    [] f = "points" -> ListOf(Tuple(2, <<Number, Number>>))
    [] OTHER -> String

\* Mutant: no room is left for the closing NUL.
FitsUnclosed(text, f) == Len(text) <= SizeOf(f)

\* copy_str
Fits(text, f) == Len(text) < SizeOf(f)

RowFits(row) == \A f \in DOMAIN row : ShapeOf(f) = String => Fits(row[f], f)

\* Insertion sort: an element goes behind the ones that may precede it.
Sorted(s, MayPrecede(_, _)) ==
  FoldLeft(LAMBDA done, e :
             InsertAt(done, 1 + Cardinality({i \in DOMAIN done : MayPrecede(done[i], e)}), e),
           <<>>, s)

\* Mutant: the points stay in the order they were registered in.
PointsAsGiven(row) == row

\* What is stored for a row: a curve's points are sorted by x.
Stored(row) ==
  IF "points" \notin DOMAIN row THEN row
  ELSE [row EXCEPT !.points = Sorted(@, LAMBDA p, q : p[1] <= q[1])]

\* fleece_goap_add_*: [ok, tables] after registering row in table t of T.
Add(T, t, row) ==
  IF RowFits(row) THEN [ok |-> TRUE, tables |-> [T EXCEPT ![t] = Append(@, Stored(row))]]
  ELSE [ok |-> FALSE, tables |-> T]

(***************************************************************************)
(* The host registers a row.  After a reset it may do so under a living    *)
(* evaluator, which only the rows with sources, actions and goals, matter  *)
(* to.                                                                     *)
(***************************************************************************)
Register(t) ==
  /\ Len(tables[t]) < Len(Def[t]) /\ loaded = None
  /\ cache # None => t \in {"actions", "goals"}
  /\ \E row \in Def[t][Len(tables[t]) + 1] : tables' = Add(tables, t, row).tables
  /\ rebuilt' = (cache # None) /\ called' = None
  /\ UNCHANGED <<loaded, bb, cache, compiled>>

SetName ==
  /\ loaded = None /\ cache = None
  /\ \E n \in Names :
       tables' = [tables EXCEPT !.name = IF Len(n) < NameMax THEN n ELSE <<>>]
  /\ UNCHANGED <<loaded, bb, js>>

Reset ==
  /\ tables' = NoTables
  /\ loaded' = None
  /\ rebuilt' = (cache # None) /\ called' = None
  /\ UNCHANGED <<bb, cache, compiled>>
-----------------------------------------------------------------------------
(* The plan blob *)

Magic == <<70, 80, 2>>

\* The fields of a row, in the order serialize_body writes them.
WriteOrder ==
  [actions |-> <<"id", "name", "cost", "dest", "dur", "exec", "pre", "eff">>,
   goals |-> <<"id", "name", "expr", "priority", "curve_id">>,
   utilities |-> <<"id", "name", "dim", "x_min", "x_max", "points">>,
   missions |-> <<"id", "name", "goal_ids", "note">>]

\* The array head in front of a row; a curve's is one more than its items.
RowHead == [actions |-> 8, goals |-> 5, utilities |-> 7, missions |-> 4]

Row(t, order) == Tuple(RowHead[t], [i \in DOMAIN order[t] |-> ShapeOf(order[t][i])])

\* A row as a tuple of its fields, the tables as a tuple of their rows.
Items(t, row) == [i \in DOMAIN WriteOrder[t] |-> row[WriteOrder[t][i]]]

PlanShape ==
  Tuple(5, <<String>> \o [i \in DOMAIN TableName |-> ListOf(Row(TableName[i], WriteOrder))])

PlanItems(T) ==
  <<T.name>> \o [i \in DOMAIN TableName |->
                   LET t == TableName[i] IN [r \in DOMAIN T[t] |-> Items(t, T[t][r])]]

Total(s) == FoldLeft(LAMBDA a, b : a + b, 0, s)

Each(Op(_), s) == [i \in DOMAIN s |-> Op(s[i])]

HeadOf(shape, v) == IF shape.kind = "list" THEN Len(v) ELSE shape.head

ItemOf(shape, i) == IF shape.kind = "list" THEN shape.item ELSE shape.items[i]

RECURSIVE Size(_, _), Write(_, _), Read(_, _, _)

Size(shape, v) ==
  CASE shape.kind = "number" -> NumSize(v)
    [] shape.kind = "text" -> TextSize(v)
    [] OTHER -> UintSize(HeadOf(shape, v))
                  + Total([i \in DOMAIN v |-> Size(ItemOf(shape, i), v[i])])

Write(shape, v) ==
  CASE shape.kind = "number" -> WriteNum(v)
    [] shape.kind = "text" -> WriteText(v)
    [] OTHER -> WriteHead(Array, HeadOf(shape, v))
                  \o FlattenSeq([i \in DOMAIN v |-> Write(ItemOf(shape, i), v[i])])

\* serialize_body_size, serialize_body
BodySize(T) == Size(PlanShape, PlanItems(T))
Body(T) == Write(PlanShape, PlanItems(T))

Serialize(T) == Magic \o Body(T)

\* Mutant: a row is read in another order than it is written in.
ExecBeforeDest ==
  [WriteOrder EXCEPT !.actions = <<"id", "name", "cost", "exec", "dur", "dest", "pre", "eff">>]

\* The order fleece_goap_deserialize reads them in.
ReadOrder ==
  [actions |-> <<"id", "name", "cost", "dest", "dur", "exec", "pre", "eff">>,
   goals |-> <<"id", "name", "expr", "priority", "curve_id">>,
   utilities |-> <<"id", "name", "dim", "x_min", "x_max", "points">>,
   missions |-> <<"id", "name", "goal_ids", "note">>]

IsArray(h) == h.ok /\ h.major = Array

\* One item, or the items of an array one after the other.
Read(shape, b, pos) ==
  LET h == ReadHead(b, pos)
      n == IF shape.kind = "list" THEN h.value ELSE Len(shape.items)
      upTo[i \in 0..n] ==
        IF i = 0 THEN [ok |-> TRUE, pos |-> h.pos, val |-> <<>>]
        ELSE LET before == upTo[i - 1]
                 r == Read(ItemOf(shape, i), b, before.pos)
             IN  IF ~before.ok \/ ~r.ok THEN Failed
                 ELSE [r EXCEPT !.val = Append(before.val, @)]
  IN  CASE shape.kind = "number" -> ReadNum(b, pos)
        [] shape.kind = "text" -> ReadText(b, pos)
        [] OTHER -> IF ~IsArray(h) \/ (shape.kind = "tuple" /\ h.value # shape.head)
                    THEN Failed ELSE upTo[n]

ReadRow(t, b, pos) ==
  LET r == Read(Row(t, ReadOrder), b, pos)
      position(f) == CHOOSE i \in DOMAIN ReadOrder[t] : ReadOrder[t][i] = f
  IN  IF r.ok THEN [r EXCEPT !.val = [f \in ToSet(ReadOrder[t]) |-> @[position(f)]]]
      ELSE Failed

\* Mutant: a row that cannot be read ends its table, not the load.
LenientTable(t, b, acc) ==
  LET h == ReadHead(b, acc.pos) IN
  IF ~acc.ok \/ ~IsArray(h) THEN [acc EXCEPT !.ok = FALSE]
  ELSE FoldLeft(LAMBDA a, i :
                  LET r == ReadRow(t, b, a.pos) IN
                  IF ~r.ok THEN a
                  ELSE [a EXCEPT !.pos = r.pos, !.tables = Add(a.tables, t, r.val).tables],
                [acc EXCEPT !.pos = h.pos], [i \in 1..h.value |-> i])

\* Reads one table into acc = [ok, pos, tables], row by row.
ReadTable(t, b, acc) ==
  LET h == ReadHead(b, acc.pos) IN
  IF ~acc.ok \/ ~IsArray(h) THEN [acc EXCEPT !.ok = FALSE]
  ELSE FoldLeft(LAMBDA a, i :
                  LET r == ReadRow(t, b, a.pos)
                      new == Add(a.tables, t, r.val)
                  IN  IF ~a.ok \/ ~r.ok THEN [a EXCEPT !.ok = FALSE]
                      ELSE [ok |-> new.ok, pos |-> r.pos, tables |-> new.tables],
                [acc EXCEPT !.pos = h.pos], [i \in 1..h.value |-> i])

\* The tables' own name is cut to its field, not refused.
ReadName(text) == SubSeq(text, 1, IF Len(text) < NameMax THEN Len(text) ELSE NameMax - 1)

(***************************************************************************)
(* fleece_goap_deserialize: a blob refused for its first bytes leaves the  *)
(* tables alone (reset is FALSE); one that fails later has replaced them   *)
(* by the rows read up to there.                                           *)
(***************************************************************************)
Deserialize(b) ==
  LET h == ReadHead(b, 3)
      name == ReadText(b, h.pos)
      start == [ok |-> TRUE, pos |-> name.pos,
                tables |-> [NoTables EXCEPT !.name = ReadName(name.val)]]
      end == FoldLeft(LAMBDA acc, t : ReadTable(t, b, acc), start, TableName)
  IN  IF Len(b) < 3 \/ ~IsPrefix(Magic, b) \/ ~IsArray(h)
      THEN [ok |-> FALSE, reset |-> FALSE, tables |-> NoTables]
      ELSE IF h.value # 5 THEN [ok |-> FALSE, reset |-> FALSE, tables |-> NoTables]
      ELSE IF ~name.ok THEN [ok |-> FALSE, reset |-> TRUE, tables |-> NoTables]
      ELSE [ok |-> end.ok, reset |-> TRUE, tables |-> end.tables]

\* What comes of a blob, whole or cut off after any number of bytes.
Arrival(p) ==
  LET blob == Serialize(p) IN
  {[plan |-> p, whole |-> n = Len(blob), end |-> Deserialize(SubSeq(blob, 1, n))] :
     n \in 0..Len(blob)}

Arrivals == UNION {Arrival(p) : p \in Plans}

\* A blob arrives and is deserialized.  One refused before the reset changes
\* nothing.
Load(a) ==
  /\ bb = <<>>
  /\ a.end.reset
  /\ tables' = a.end.tables
  /\ loaded' = [plan |-> a.plan, whole |-> a.whole, ok |-> a.end.ok]
  /\ rebuilt' = (cache # None) /\ called' = None
  /\ UNCHANGED <<bb, cache, compiled>>
-----------------------------------------------------------------------------
(* The blackboard, and the ranking of goals on it *)

\* The position of a field, 0 if it is absent.
BBIndex(b, name) == SelectInSeq(b, LAMBDA f : f.name = name)

\* A field is looked up by its name alone: setting it in one namespace takes
\* it out of the other.  The header's lookup "across both namespaces, self
\* first" supposes that both can hold it.
BBSet(name, v, shared) ==
  LET f == [name |-> name, val |-> v, shared |-> shared]
      i == BBIndex(bb, name)
  IN  bb' = IF i # 0 THEN [bb EXCEPT ![i] = f]
            ELSE IF Len(name) < NameMax THEN Append(bb, f) ELSE bb

BBDelete(name) == bb' = SelectSeq(bb, LAMBDA f : f.name # name)

Rank(name) == CHOOSE i \in DOMAIN Field : Field[i] = name

\* Mutant: the namespace of a field is not part of the key.
KeyOfNames(b) ==
  Each(LAMBDA f : <<FALSE, f.name, f.val>>,
       Sorted(b, LAMBDA f, g : Rank(f.name) <= Rank(g.name)))

\* make_state_key: the fields by name, each with its namespace and value.
StateKey(b) ==
  Each(LAMBDA f : <<f.shared, f.name, f.val>>,
       Sorted(b, LAMBDA f, g : Rank(f.name) <= Rank(g.name)))

One == 2

\* The curve's value at v: constant outside its points, linear between them.
CurveScore(pts, v) ==
  LET n == Len(pts)
      segment == {i \in 1..(n - 1) : v \in pts[i][1]..pts[i + 1][1]}
      i == CHOOSE k \in segment : \A j \in segment : k <= j
      a == pts[i]
      c == pts[i + 1]
  IN  CASE n = 0 -> 0
        [] n > 0 /\ v <= pts[1][1] -> pts[1][2]
        [] n > 0 /\ v > pts[1][1] /\ v >= pts[n][1] -> pts[n][2]
        [] OTHER -> a[2] + ((c[2] - a[2]) * (v - a[1])) \div (c[1] - a[1])

\* The first curve with that id, None if there is none.
FindUtility(id) ==
  LET i == SelectInSeq(tables.utilities, LAMBDA u : u.id = id)
  IN  IF id = <<>> \/ i = 0 THEN None ELSE tables.utilities[i]

\* fleece_goap_goal_utility, for a goal of the table
Utility(g) ==
  LET u == FindUtility(tables.goals[g].curve_id)
      i == BBIndex(bb, u.dim)
      flat == IF u.points = <<>> THEN One ELSE u.points[1][2]
      score == IF u = None THEN One
               ELSE IF u.dim = <<>> \/ i = 0 THEN flat
               ELSE IF bb[i].val = NotANumber THEN 0
               ELSE CurveScore(u.points, bb[i].val)
  IN  score * tables.goals[g].priority

\* Mutant: goals of equal utility change places.
RankLaterFirst(sat, threshold) ==
  Sorted(SelectSeq([g \in DOMAIN tables.goals |-> g],
                   LAMBDA g : g \notin sat /\ Utility(g) > threshold),
         LAMBDA g, h : Utility(g) > Utility(h))

\* fleece_goap_rank_goals, with room for all goals, as its caller has.
RankGoals(sat, threshold) ==
  Sorted(SelectSeq([g \in DOMAIN tables.goals |-> g],
                   LAMBDA g : g \notin sat /\ Utility(g) > threshold),
         LAMBDA g, h : Utility(g) >= Utility(h))

\* fleece_goap_select_goal: 0 for none.
SelectGoal(sat, threshold) ==
  FoldLeft(LAMBDA best, g :
             IF g \notin sat /\ Utility(g) > best.score
             THEN [goal |-> g, score |-> Utility(g)] ELSE best,
           [goal |-> 0, score |-> threshold],
           [g \in DOMAIN tables.goals |-> g]).goal

\* The host or a script changes its blackboard.
Blackboard ==
  /\ loaded = None /\ cache = None
  /\ \E i \in DOMAIN Field :
       \/ \E v \in Value, shared \in BOOLEAN : BBSet(Field[i], v, shared)
       \/ BBDelete(Field[i])
  /\ UNCHANGED <<tables, loaded, js>>
-----------------------------------------------------------------------------
(* Compiled functions *)

\* The functions the tables have a source for: [kind, idx, sub].
Functions(T) ==
  LET rows(t) == DOMAIN T[t]
      keys(kind, a, subs) == [kind : {kind}, idx : {a}, sub : subs]
  IN  UNION {keys("pre", a, DOMAIN T.actions[a].pre) : a \in rows("actions")}
        \cup UNION {keys("eff", a, DOMAIN T.actions[a].eff) : a \in rows("actions")}
        \cup [kind : {"cost", "exec"}, idx : rows("actions"), sub : {1}]
        \cup [kind : {"goal"}, idx : rows("goals"), sub : {1}]

SourceOf(k) ==
  CASE k.kind \in {"pre", "eff"} -> tables.actions[k.idx][k.kind][k.sub]
    [] k.kind \in {"cost", "exec"} -> tables.actions[k.idx][k.kind]
    [] k.kind = "goal" -> tables.goals[k.idx].expr

Unused == [used |-> FALSE]

\* Mutant: exec bodies are not counted.
CapWithoutExec(T) ==
  LET n == Cardinality({k \in Functions(T) : k.kind # "exec"}) IN IF n = 0 THEN 1 ELSE n

\* Entries for all sources of the tables, and at least one.
CacheCap(T) == IF Functions(T) = {} THEN 1 ELSE Cardinality(Functions(T))

\* fleece_goap_js_eval_create
CreateEval ==
  /\ cache = None /\ loaded # None
  /\ cache' = [entries |-> [i \in 1..CacheCap(tables) |-> Unused], next |-> 1]
  /\ UNCHANGED <<tables, loaded, bb, called, compiled, rebuilt>>

DestroyEval ==
  /\ cache # None
  /\ cache' = None /\ called' = None /\ rebuilt' = FALSE
  /\ UNCHANGED <<tables, loaded, bb, compiled>>

\* A function is the source it was compiled from; None if that is broken.
Compile(src) == IF src \in Broken THEN None ELSE src

Entry(k, src) == [used |-> TRUE, key |-> k, src |-> src, fn |-> Compile(src)]

\* Mutant: the source is not compared.
SameKey(e, k, src) == e.used /\ e.key = k

\* goap_fn_entry_match
Match(e, k, src) == e.used /\ e.key = k /\ e.src = src

(***************************************************************************)
(* goap_get_js_fn: the first entry for k, recompiled in place if its       *)
(* source is another one, or the next slot, whoever holds it.              *)
(***************************************************************************)
GetFn(k) ==
  LET src == SourceOf(k)
      at == SelectInSeq(cache.entries, LAMBDA e : e.used /\ e.key = k)
      slot == IF at = 0 THEN cache.next ELSE at
      hit == at # 0 /\ Match(cache.entries[slot], k, src)
  IN  /\ src # <<>>
      /\ IF hit
         THEN /\ called' = [src |-> src, fn |-> cache.entries[slot].fn]
              /\ UNCHANGED <<cache, compiled>>
         ELSE /\ compiled < MaxCompiled
              /\ compiled' = compiled + 1
              /\ called' = [src |-> src, fn |-> Compile(src)]
              /\ cache' = [entries |-> [cache.entries EXCEPT ![slot] = Entry(k, src)],
                           next |-> IF at = 0 THEN (cache.next % Len(cache.entries)) + 1
                                    ELSE cache.next]
      /\ UNCHANGED <<tables, loaded, bb, rebuilt>>

CallFn == cache # None /\ \E k \in Functions(tables) : GetFn(k)

Next ==
  \/ \E t \in ToSet(TableName) : Register(t)
  \/ SetName \/ Reset
  \/ \E a \in Arrivals : Load(a)
  \/ Blackboard
  \/ CreateEval \/ DestroyEval \/ CallFn

Spec == Init /\ [][Next]_vars
-----------------------------------------------------------------------------
(***************************************************************************)
(* Every text in the tables, registered or read from a blob, is closed     *)
(* within its fixed field, and the evaluator's cache has one entry per     *)
(* function and a next slot that exists.                                   *)
(***************************************************************************)
TypeOK ==
  /\ Len(tables.name) < NameMax
  /\ \A t \in ToSet(TableName) : \A i \in DOMAIN tables[t] :
       LET row == tables[t][i] IN
       \A f \in DOMAIN row : ShapeOf(f) = String => Len(row[f]) < SizeOf(f)
  /\ cache # None =>
       /\ cache.next \in DOMAIN cache.entries
       /\ \A i, j \in {k \in DOMAIN cache.entries : cache.entries[k].used} :
            cache.entries[i].key = cache.entries[j].key => i = j
  /\ compiled \in 0..MaxCompiled /\ rebuilt \in BOOLEAN

\* Enough to see all tables: they do not depend on the rest of the state.
Authoring == bb = <<>> /\ cache = None

(***************************************************************************)
(* The two passes of the encoder agree: for every content of the tables,   *)
(* the bytes serialize_body writes are as many as serialize_body_size      *)
(* measured for the buffer, at every length where a head grows.            *)
(***************************************************************************)
TwoPassSizing == Authoring => Len(Body(tables)) = BodySize(tables)

(***************************************************************************)
(* A plan survives the trip from the tool to the device: what serialize    *)
(* wrote, deserialize reads back field by field, whatever has been         *)
(* registered, and serializing that again would give the same blob.        *)
(***************************************************************************)
RoundTrip ==
  Authoring =>
    LET r == Deserialize(Serialize(tables)) IN r.ok /\ r.tables = tables

(***************************************************************************)
(* A blob cut off anywhere is refused.  The tables then hold a part of the *)
(* plan in the blob: never rows of two plans, and never a row that is not  *)
(* in the plan.                                                            *)
(***************************************************************************)
CutBlobRefused ==
  loaded # None =>
    /\ loaded.ok <=> loaded.whole
    /\ loaded.ok => tables = loaded.plan
    /\ \A t \in ToSet(TableName) : IsPrefix(tables[t], loaded.plan[t])

(***************************************************************************)
(* The planner prunes a simulated state it has seen: blackboards have one  *)
(* key exactly when they hold the same fields, in whatever order their     *)
(* actions wrote them.                                                     *)
(***************************************************************************)
KeyIsState ==
  /\ {[name |-> k[2], val |-> k[3], shared |-> k[1]] : k \in ToSet(StateKey(bb))} = ToSet(bb)
  /\ \A other \in SetToSeqs(ToSet(bb)) : StateKey(other) = StateKey(bb)

(***************************************************************************)
(* A curve is the function its points describe, in whatever order they     *)
(* were registered: its value at v is that of the nearest points on either *)
(* side, weighed by their distance, and at a step that of one of the two.  *)
(***************************************************************************)
CurveIsItsPoints ==
  \A i \in DOMAIN tables.utilities : \A v \in Value \ {NotANumber} :
    LET P == ToSet(tables.utilities[i].points)
        score == CurveScore(tables.utilities[i].points, v)
        below == {p \in P : p[1] <= v}
        above == {p \in P : p[1] >= v}
    IN  below # {} /\ above # {} =>
          \E a \in below, c \in above :
            /\ \A p \in P : p[1] <= a[1] \/ c[1] <= p[1]
            /\ IF a[1] = c[1] THEN score = a[2]
               ELSE score * (c[1] - a[1]) = a[2] * (c[1] - v) + c[2] * (v - a[1])

(***************************************************************************)
(* The brain walks the ranking and falls back along it: it has every       *)
(* unsatisfied goal of positive utility once, the best first, equal ones   *)
(* in the order of the table, and begins with the goal select_goal finds.  *)
(***************************************************************************)
RanksByUtility ==
  \A sat \in SUBSET DOMAIN tables.goals :
    LET r == RankGoals(sat, 0) IN
    /\ ToSet(r) = {g \in DOMAIN tables.goals \ sat : Utility(g) > 0}
    /\ \A i, j \in DOMAIN r : i < j =>
         \/ Utility(r[i]) > Utility(r[j])
         \/ Utility(r[i]) = Utility(r[j]) /\ r[i] < r[j]
    /\ SelectGoal(sat, 0) = IF r = <<>> THEN 0 ELSE r[1]

(***************************************************************************)
(* After the tables are rebuilt under a living evaluator no function of    *)
(* the old plan runs for the new one: what goap_get_js_fn hands out was    *)
(* compiled from the source the tables have now.                           *)
(***************************************************************************)
FreshFunctions == called # None => called.fn = Compile(called.src)

(***************************************************************************)
(* The cache is as large as it has to be: until the tables are rebuilt, no *)
(* compiled function is thrown out to make room for another.               *)
(***************************************************************************)
NothingEvicted ==
  [][cache # None /\ cache' # None /\ ~rebuilt =>
       \A i \in DOMAIN cache.entries :
         cache.entries[i].used => cache'.entries[i] = cache.entries[i]]_vars
=============================================================================
