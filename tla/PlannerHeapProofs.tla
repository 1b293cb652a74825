-------------------------- MODULE PlannerHeapProofs --------------------------
(***************************************************************************)
(* The binary heap of the planner: heap_push and heap_pop keep its order   *)
(* and add and remove just the entry they should.  A claim about every     *)
(* position of an array is proved by looking at the least number at which  *)
(* it could fail.                                                          *)
(***************************************************************************)
EXTENDS PlannerHeap, Functions, FiniteSetTheorems, TLAPS

-----------------------------------------------------------------------------
(* Least counterexamples, and recursive functions *)

\* A set of naturals that is not empty has a least element.
LEMMA Least ==
  ASSUME NEW T \in SUBSET Nat, T # {}
  PROVE  \E x \in T : \A y \in T : x <= y
<1> DEFINE R == OpToRel(<, Nat)
<1>1. IsWellFoundedOn(R, Nat)
  BY Zenon, NatLessThanWellFounded
<1>2. R = {ss \in Nat \X Nat : ss[1] < ss[2]}
  BY Zenon DEF OpToRel
<1> HIDE DEF R
<1>3. PICK x \in T : \A y \in T : ~(<<y, x>> \in R)
  BY Zenon, <1>1, WFMin
<1>4. ASSUME NEW y \in T PROVE x <= y
  <2>1. x \in Nat /\ y \in Nat
    OBVIOUS
  <2>2. y < x => <<y, x>> \in R
    BY <1>2, <2>1
  <2> QED
    BY <1>3, <2>1, <2>2
<1> QED
  BY <1>4

\* An element of T of least rank.
LEMMA LeastRank ==
  ASSUME NEW D, NEW rank \in [D -> Nat], NEW T \in SUBSET D, T # {}
  PROVE  \E x \in T : \A y \in D : rank[y] < rank[x] => y \notin T
<1> DEFINE R == {rank[x] : x \in T}
<1>1. R \in SUBSET Nat /\ R # {}
  OBVIOUS
<1>2. PICK r \in R : \A q \in R : r <= q
  BY Zenon, <1>1, Least
<1>3. PICK x \in T : r = rank[x]
  OBVIOUS
<1>4. ASSUME NEW y \in T, rank[y] < rank[x] PROVE FALSE
  <2>1. rank[x] <= rank[y]
    BY <1>2, <1>3
  <2>2. rank[x] \in Nat /\ rank[y] \in Nat
    OBVIOUS
  <2> QED
    BY <1>4, <2>1, <2>2
<1> QED
  BY <1>4

(***************************************************************************)
(* A function may be defined at i from its value at prev[i], when the rank *)
(* of prev[i] is lower.                                                    *)
(***************************************************************************)
WellDefined(D, V, n, rank, stop, base, prev, step) ==
  /\ n \in Nat /\ rank \in [D -> 0..n] /\ stop \in SUBSET D
  /\ base \in [D -> V] /\ prev \in [D -> D] /\ step \in [D -> [V -> V]]
  /\ \A i \in D \ stop : rank[prev[i]] < rank[i]

Recurs(f, D, stop, base, prev, step) ==
  \A i \in D : f[i] = IF i \in stop THEN base[i] ELSE step[i][f[prev[i]]]

\* Such a function exists.
LEMMA Recursion ==
  ASSUME NEW D, NEW V, NEW n, NEW rank, NEW stop, NEW base, NEW prev, NEW step,
         WellDefined(D, V, n, rank, stop, base, prev, step)
  PROVE  \E f \in [D -> V] : Recurs(f, D, stop, base, prev, step)
<1> USE DEF WellDefined
<1> DEFINE Solves(f, m) ==
             \A i \in D : rank[i] < m =>
               f[i] = IF i \in stop THEN base[i] ELSE step[i][f[prev[i]]]
           T == {m \in Nat : ~(\E f \in [D -> V] : Solves(f, m))}
<1>1. T = {}
  <2> SUFFICES ASSUME T # {} PROVE FALSE
    OBVIOUS
  <2>1. PICK m \in T : \A q \in T : m <= q
    BY Zenon, Least
  <2>2. m # 0
    <3>1. Solves(base, 0)
      OBVIOUS
    <3> QED
      BY <3>1
  <2>3. m \in Nat /\ m - 1 \in Nat /\ m - 1 \notin T
    BY SMTT(30), <2>1, <2>2
  <2>4. PICK f \in [D -> V] : Solves(f, m - 1)
    BY <2>3
  <2> DEFINE F(i) == IF i \in stop THEN base[i] ELSE step[i][f[prev[i]]]
             g == [i \in D |-> IF rank[i] = m - 1 THEN F(i) ELSE f[i]]
  <2>5. ASSUME NEW i \in D PROVE F(i) \in V
    OBVIOUS
  <2>6. g \in [D -> V]
    BY <2>5
  <2>7. ASSUME NEW i \in D, rank[i] < m
        PROVE  g[i] = IF i \in stop THEN base[i] ELSE step[i][g[prev[i]]]
    <3>1. g[i] = F(i)
      <4>1. CASE rank[i] = m - 1
        BY <4>1
      <4>2. CASE rank[i] # m - 1
        <5>1. rank[i] < m - 1
          BY <2>3, <2>7, <4>2
        <5> QED
          BY <2>4, <4>2, <5>1
      <4> QED
        BY <4>1, <4>2
    <3>2. i \notin stop => g[prev[i]] = f[prev[i]]
      <4>1. i \notin stop => rank[prev[i]] # m - 1
        BY <2>3, <2>7
      <4> QED
        BY <4>1
    <3> HIDE DEF g
    <3> QED
      BY <3>1, <3>2
  <2> HIDE DEF g
  <2>8. Solves(g, m)
    BY <2>7
  <2> QED
    BY <2>6, <2>8
<1>2. PICK f \in [D -> V] : Solves(f, n + 1)
  <2>1. n + 1 \in Nat
    OBVIOUS
  <2> HIDE DEF Solves
  <2> QED
    BY Zenon, <1>1, <2>1
<1>3. \A i \in D : rank[i] < n + 1
  OBVIOUS
<1> QED
  BY <1>2, <1>3 DEF Recurs

-----------------------------------------------------------------------------
(* The heap *)

\* The parent of position i of a heap.
LEMMA Half ==
  ASSUME NEW i \in Nat, i >= 2
  PROVE  i \div 2 \in 1..(i - 1) /\ (i = 2 * (i \div 2) \/ i = 2 * (i \div 2) + 1)
  OBVIOUS

\* A sequence is a function on its positions.
LEMMA SeqIsFunction ==
  ASSUME NEW E, NEW s \in Seq(E)
  PROVE  s \in [1..Len(s) -> E] /\ Len(s) \in Nat
  OBVIOUS

\* What SiftUp computes, position by position.
UpTable(E, h, e, n, up) ==
  /\ up \in [1..n -> [1..n -> E]]
  /\ SiftUp(h, e, n) = up[n]
  /\ \A i \in 1..n : up[i] = IF i = 1 \/ h[i \div 2].f <= e.f
                             THEN [h EXCEPT ![i] = e]
                             ELSE [up[i \div 2] EXCEPT ![i] = h[i \div 2]]

\* The recursion of SiftUp has the solution it describes.
LEMMA SiftUpUnfolds ==
  ASSUME NEW n \in Nat \ {0}, NEW E, NEW h \in [1..n -> E], NEW e \in E
  PROVE  \E up : UpTable(E, h, e, n, up)
<1> DEFINE D == 1..n
           V == [D -> E]
           rank == [i \in D |-> i]
           stop == {i \in D : i = 1 \/ h[i \div 2].f <= e.f}
           base == [i \in D |-> [h EXCEPT ![i] = e]]
           prev == [i \in D |-> IF i = 1 THEN 1 ELSE i \div 2]
           step == [i \in D |-> [x \in V |-> [x EXCEPT ![i] = h[prev[i]]]]]
           Body(f, i) == IF i = 1 \/ h[i \div 2].f <= e.f
                         THEN [h EXCEPT ![i] = e]
                         ELSE [f[i \div 2] EXCEPT ![i] = h[i \div 2]]
<1>1. n \in Nat /\ rank \in [D -> Nat]
  OBVIOUS
<1>2. rank \in [D -> 0..n] /\ stop \in SUBSET D /\ base \in [D -> V]
  OBVIOUS
<1>3. prev \in [D -> D] /\ \A i \in D \ stop : prev[i] < i /\ prev[i] = i \div 2
  BY Half
<1>4. step \in [D -> [V -> V]]
  BY <1>3
<1>5. \A i \in D \ stop : rank[prev[i]] < rank[i]
  BY <1>3
<1>6. PICK f \in [D -> V] : Recurs(f, D, stop, base, prev, step)
  <2> HIDE DEF D, V, rank, stop, base, prev, step
  <2>1. WellDefined(D, V, n, rank, stop, base, prev, step)
    BY <1>1, <1>2, <1>3, <1>4, <1>5 DEF WellDefined
  <2> QED
    BY <2>1, Recursion
<1>7. ASSUME NEW i \in D PROVE f[i] = Body(f, i)
  <2>1. CASE i \in stop
    BY Zenon, <1>6, <2>1 DEF Recurs
  <2>2. CASE i \notin stop
    BY Zenon, <1>3, <1>6, <2>2 DEF Recurs
  <2> QED
    BY <2>1, <2>2
<1>8. f = [i \in D |-> Body(f, i)]
  BY <1>7
<1> DEFINE up == CHOOSE g : g = [i \in D |-> Body(g, i)]
<1>9. up = [i \in D |-> Body(up, i)]
  BY Zenon, <1>8
<1>10. SiftUp(h, e, n) = up[n]
  BY DEF SiftUp
<1> HIDE DEF up
<1>11. ASSUME NEW i \in D, \A j \in D : rank[j] < rank[i] => up[j] = f[j]
       PROVE  up[i] = f[i]
  <2>1. CASE i \in stop
    BY <1>7, <1>9, <2>1
  <2>2. CASE i \notin stop
    <3>1. up[i \div 2] = f[i \div 2]
      BY <1>3, <1>11, <2>2
    <3>2. /\ up[i] = [up[i \div 2] EXCEPT ![i] = h[i \div 2]]
          /\ f[i] = [f[i \div 2] EXCEPT ![i] = h[i \div 2]]
      BY Zenon, <1>7, <1>9, <2>2
    <3> QED
      BY Zenon, <3>1, <3>2
  <2> QED
    BY <2>1, <2>2
<1>12. \A i \in D : up[i] = f[i]
  <2> DEFINE T == {i \in D : up[i] # f[i]}
  <2> SUFFICES ASSUME T # {} PROVE FALSE
    OBVIOUS
  <2>1. PICK i \in T : \A j \in D : rank[j] < rank[i] => j \notin T
    <3>1. T \in SUBSET D /\ T # {}
      OBVIOUS
    <3> HIDE DEF D, rank, T
    <3> QED
      BY ZenonT(40), <1>1, <3>1, LeastRank
  <2> QED
    BY Zenon, <1>11, <2>1
<1>13. n \in D
  OBVIOUS
<1>14. SiftUp(h, e, n) = f[n]
  BY Zenon, <1>10, <1>12, <1>13
<1> QED
  BY Zenon, <1>7, <1>14 DEF UpTable

\* The lesser child of position i is one of its two children.
LEMMA Child ==
  ASSUME NEW E, NEW h \in Seq(E), NEW i \in 1..Len(h), 2 * i <= Len(h)
  PROVE  /\ LesserChild(h, i) \in (i + 1)..Len(h)
         /\ LesserChild(h, i) = 2 * i \/ LesserChild(h, i) = 2 * i + 1
         /\ LesserChild(h, i) \div 2 = i
<1>1. Len(h) \in Nat /\ i \in Nat /\ 1 <= i
  OBVIOUS
<1> DEFINE c == LesserChild(h, i)
           n == Len(h)
<1>2. c = 2 * i \/ (c = 2 * i + 1 /\ 2 * i < n)
  BY Zenon, <1>1 DEF LesserChild
<1> HIDE DEF c, n
<1>3. n \in Nat /\ 2 * i <= n
  BY <1>1 DEF n
<1>4. c \in (i + 1)..n /\ c \div 2 = i
  BY <1>1, <1>2, <1>3
<1> QED
  BY <1>2, <1>4 DEF c, n

\* What SiftDown computes, position by position.
DownTable(E, h, e, n, down) ==
  /\ down \in [1..n -> [1..n -> E]]
  /\ SiftDown(h, e) = down[1]
  /\ \A i \in 1..n :
       down[i] = IF 2 * i > n \/ h[LesserChild(h, i)].f >= e.f
                 THEN [h EXCEPT ![i] = e]
                 ELSE [down[LesserChild(h, i)] EXCEPT ![i] = h[LesserChild(h, i)]]

\* The recursion of SiftDown has the solution it describes.
LEMMA SiftDownUnfolds ==
  ASSUME NEW E, NEW h \in Seq(E), NEW n, n = Len(h), n # 0, NEW e \in E
  PROVE  \E down : DownTable(E, h, e, n, down)
<1> DEFINE D == 1..n
           V == [D -> E]
           rank == [i \in D |-> n - i]
           stop == {i \in D : 2 * i > n \/ h[LesserChild(h, i)].f >= e.f}
           base == [i \in D |-> [h EXCEPT ![i] = e]]
           prev == [i \in D |-> IF 2 * i > n THEN i ELSE LesserChild(h, i)]
           step == [i \in D |-> [x \in V |-> [x EXCEPT ![i] = h[prev[i]]]]]
           Body(f, i) == IF 2 * i > n \/ h[LesserChild(h, i)].f >= e.f
                         THEN [h EXCEPT ![i] = e]
                         ELSE [f[LesserChild(h, i)] EXCEPT ![i] = h[LesserChild(h, i)]]
<1>1. n \in Nat /\ rank \in [D -> Nat] /\ h \in [D -> E]
  OBVIOUS
<1>2. rank \in [D -> 0..n] /\ stop \in SUBSET D /\ base \in [D -> V]
  BY <1>1
<1>3. /\ prev \in [D -> D]
      /\ \A i \in D \ stop : prev[i] > i /\ prev[i] = LesserChild(h, i)
  BY <1>1, Child
<1>4. step \in [D -> [V -> V]]
  BY SMTT(30), <1>1, <1>3
<1>5. \A i \in D \ stop : rank[prev[i]] < rank[i]
  BY SMTT(30), <1>1, <1>3
<1>6. PICK f \in [D -> V] : Recurs(f, D, stop, base, prev, step)
  <2> HIDE DEF D, V, rank, stop, base, prev, step
  <2>1. WellDefined(D, V, n, rank, stop, base, prev, step)
    BY <1>1, <1>2, <1>3, <1>4, <1>5 DEF WellDefined
  <2> QED
    BY <2>1, Recursion
<1>7. ASSUME NEW i \in D PROVE f[i] = Body(f, i)
  <2>1. CASE i \in stop
    BY Zenon, <1>6, <2>1 DEF Recurs
  <2>2. CASE i \notin stop
    BY Zenon, <1>3, <1>6, <2>2 DEF Recurs
  <2> QED
    BY <2>1, <2>2
<1>8. f = [i \in D |-> Body(f, i)]
  BY <1>7
<1> DEFINE down == CHOOSE g : g = [i \in D |-> Body(g, i)]
<1>9. down = [i \in D |-> Body(down, i)]
  BY Zenon, <1>8
<1>10. SiftDown(h, e) = down[1]
  BY DEF SiftDown
<1> HIDE DEF down
<1>11. ASSUME NEW i \in D, \A j \in D : rank[j] < rank[i] => down[j] = f[j]
       PROVE  down[i] = f[i]
  <2>1. CASE i \in stop
    BY <1>7, <1>9, <2>1
  <2>2. CASE i \notin stop
    <3> DEFINE c == LesserChild(h, i)
    <3>1. c \in D /\ rank[c] < rank[i]
      BY <1>3, <1>5, <2>2
    <3> HIDE DEF rank
    <3>2. down[c] = f[c]
      BY Zenon, <1>11, <3>1
    <3>3. down[i] = [down[c] EXCEPT ![i] = h[c]] /\ f[i] = [f[c] EXCEPT ![i] = h[c]]
      BY Zenon, <1>7, <1>9, <2>2
    <3> QED
      BY Zenon, <3>2, <3>3
  <2> QED
    BY <2>1, <2>2
<1>12. \A i \in D : down[i] = f[i]
  <2> DEFINE T == {i \in D : down[i] # f[i]}
  <2> SUFFICES ASSUME T # {} PROVE FALSE
    OBVIOUS
  <2>1. PICK i \in T : \A j \in D : rank[j] < rank[i] => j \notin T
    <3>1. T \in SUBSET D /\ T # {}
      OBVIOUS
    <3> HIDE DEF D, rank, T
    <3> QED
      BY ZenonT(40), <1>1, <3>1, LeastRank
  <2> HIDE DEF rank
  <2> QED
    BY Zenon, <1>11, <2>1
<1>13. 1 \in D
  BY <1>1
<1>14. SiftDown(h, e) = f[1]
  BY Zenon, <1>10, <1>12, <1>13
<1> QED
  BY Zenon, <1>7, <1>14 DEF DownTable

(***************************************************************************)
(* The heap seen as its keys alone: positions D, k the keys before, and    *)
(* u[i] the keys left when key x is placed at i or above.                  *)
(***************************************************************************)
Positions(D, n) == \A i : i \in D <=> i \in Nat /\ 1 <= i /\ i <= n

Climbs(D, k, x, u) ==
  \A i, j \in D : u[i][j] = IF i = 1 \/ k[i \div 2] <= x
                           THEN IF j = i THEN x ELSE k[j]
                           ELSE IF j = i THEN k[i \div 2] ELSE u[i \div 2][j]

Ordered(k, m) == \A j \in Nat : 2 <= j /\ j <= m => k[j \div 2] <= k[j]

(***************************************************************************)
(* Moving up keeps the order of the keys.  Seen from position i, nothing   *)
(* beyond i has changed, no key before i has grown, and the order holds up *)
(* to i.                                                                   *)
(***************************************************************************)
Raised(D, k, x, v, i) ==
  /\ \A j \in D : i < j => v[j] = k[j]
  /\ v[i] = x \/ (i > 1 /\ x < k[i \div 2] /\ v[i] = k[i \div 2])
  /\ Ordered(v, i)
  /\ \A j \in D : j < i => v[j] <= k[j]

\* The key is placed at i.
LEMMA RaisedHere ==
  ASSUME NEW n \in Nat, NEW D, Positions(D, n), NEW k \in [D -> Nat], NEW x \in Nat,
         NEW v \in [D -> Nat], NEW i \in D, Ordered(k, n - 1),
         i = 1 \/ k[i \div 2] <= x,
         \A j \in D : v[j] = IF j = i THEN x ELSE k[j]
  PROVE  Raised(D, k, x, v, i)
<1>1. ASSUME NEW j \in Nat, 2 <= j, j <= i PROVE v[j \div 2] <= v[j]
  <2>1. j \in D /\ j \div 2 \in D /\ j \div 2 # i /\ i \in Nat /\ i <= n
    BY <1>1, Half DEF Positions
  <2>2. CASE j = i
    BY <1>1, <2>1, <2>2
  <2>3. CASE j # i
    <3>1. v[j] = k[j] /\ v[j \div 2] = k[j \div 2] /\ j <= n - 1
      BY <1>1, <2>1, <2>3
    <3> QED
      BY <1>1, <3>1 DEF Ordered
  <2> QED
    BY <2>2, <2>3
<1>2. Ordered(v, i)
  BY <1>1 DEF Ordered
<1>3. \A j \in D : j < i => v[j] <= k[j]
  BY DEF Positions
<1>4. \A j \in D : i < j => v[j] = k[j]
  BY DEF Positions
<1> QED
  BY <1>2, <1>3, <1>4 DEF Raised

\* The key of the parent moves down to i, and the hole up.
LEMMA RaisedAbove ==
  ASSUME NEW n \in Nat, NEW D, Positions(D, n), NEW k \in [D -> Nat], NEW x \in Nat,
         NEW v \in [D -> Nat], NEW w \in [D -> Nat], NEW i \in D, Ordered(k, n - 1),
         i # 1, x < k[i \div 2], Raised(D, k, x, w, i \div 2),
         \A j \in D : v[j] = IF j = i THEN k[i \div 2] ELSE w[j]
  PROVE  Raised(D, k, x, v, i)
<1> DEFINE p == i \div 2
<1>1. p \in D /\ 1 <= p /\ p < i /\ i \in Nat /\ p \in Nat /\ i <= n
  BY Half DEF Positions
<1>2. /\ \A j \in D : p < j => w[j] = k[j]
      /\ w[p] = x \/ (p > 1 /\ x < k[p \div 2] /\ w[p] = k[p \div 2])
      /\ Ordered(w, p)
      /\ \A j \in D : j < p => w[j] <= k[j]
  BY DEF Raised
<1>3. x < k[p]
  OBVIOUS
<1>4. \A j \in D : v[j] = IF j = i THEN k[p] ELSE w[j]
  OBVIOUS
<1>5. i \div 2 = p
  OBVIOUS
<1> HIDE DEF p
<1>6. w[p] <= k[p]
  <2>1. CASE w[p] = x
    BY <1>1, <1>3, <2>1
  <2>2. CASE p > 1 /\ w[p] = k[p \div 2]
    <3>1. p <= n - 1 /\ 2 <= p
      BY <1>1, <2>2
    <3> QED
      BY <1>1, <2>2, <3>1 DEF Ordered
  <2> QED
    BY <1>2, <2>1, <2>2
<1>7. ASSUME NEW j \in D, j < i PROVE w[j] <= k[j]
  <2>1. j \in Nat /\ w[j] \in Nat /\ k[j] \in Nat
    BY DEF Positions
  <2>2. CASE j < p
    BY <1>2, <2>2
  <2>3. CASE j = p
    BY <1>6, <2>3
  <2>4. CASE p < j
    BY <1>2, <2>1, <2>4
  <2> QED
    BY <1>1, <2>1, <2>2, <2>3, <2>4
<1>8. ASSUME NEW j \in Nat, 2 <= j, j <= i PROVE v[j \div 2] <= v[j]
  <2> DEFINE q == j \div 2
  <2>1. q \in D /\ j \in D /\ q < i
    BY <1>1, <1>8, Half DEF Positions
  <2>2. q # i
    BY <1>1, <2>1
  <2>3. v[q] = w[q] /\ w[q] <= k[q] /\ w[q] \in Nat /\ k[q] \in Nat
    BY <1>4, <1>7, <2>1, <2>2
  <2>4. CASE j = i
    <3>1. q = p
      BY <1>5, <2>4
    <3>2. v[j] = k[p]
      BY <1>4, <2>1, <2>4
    <3> QED
      BY <2>3, <3>1, <3>2
  <2>5. CASE j # i /\ j <= p
    <3>1. v[j] = w[j]
      BY <1>4, <2>1, <2>5
    <3>2. w[q] <= w[j]
      BY <1>2, <1>8, <2>5 DEF Ordered
    <3> QED
      BY <2>3, <3>1, <3>2
  <2>6. CASE j # i /\ p < j
    <3>1. v[j] = k[j]
      BY <1>2, <1>4, <2>1, <2>6
    <3>2. j <= n - 1
      BY <1>1, <1>8, <2>6
    <3>3. k[q] <= k[j]
      BY <1>8, <3>2 DEF Ordered
    <3>4. k[j] \in Nat
      BY <2>1
    <3>5. v[j \div 2] = v[q]
      OBVIOUS
    <3> HIDE DEF q
    <3> QED
      BY <2>3, <3>1, <3>3, <3>4, <3>5
  <2> QED
    BY <1>1, <2>4, <2>5, <2>6
<1>9. Ordered(v, i)
  BY <1>8 DEF Ordered
<1>10. \A j \in D : i < j => v[j] = k[j]
  <2> SUFFICES ASSUME NEW j \in D, i < j PROVE v[j] = k[j]
    OBVIOUS
  <2>1. j \in Nat /\ j # i /\ p < j
    BY <1>1 DEF Positions
  <2> QED
    BY <1>2, <1>4, <2>1
<1>11. v[i] = k[p] /\ i > 1
  BY <1>1, <1>4
<1>12. \A j \in D : j < i => v[j] <= k[j]
  <2> SUFFICES ASSUME NEW j \in D, j < i PROVE v[j] <= k[j]
    OBVIOUS
  <2>1. j # i
    BY <1>1
  <2> QED
    BY <1>4, <1>7, <2>1
<1> QED
  BY <1>3, <1>5, <1>9, <1>10, <1>11, <1>12 DEF Raised

\* LeastRank with its hypotheses in one predicate, which names the instance.
RanksSome(D, rank, T) == rank \in [D -> Nat] /\ T \in SUBSET D /\ T # {}

\* The step of every induction below.
LEMMA LeastRanked ==
  ASSUME NEW D, NEW rank, NEW T, RanksSome(D, rank, T)
  PROVE  \E i \in T : \A j \in D : rank[j] < rank[i] => j \notin T
  BY LeastRank DEF RanksSome

\* Every position but the root has its parent among the positions.
LEMMA HalfIn ==
  ASSUME NEW n \in Nat, NEW D, Positions(D, n), NEW i \in D, i # 1
  PROVE  i \div 2 \in D /\ i \div 2 < i
<1>1. i \in Nat /\ 2 <= i /\ i <= n
  BY DEF Positions
<1>2. i \div 2 \in Nat /\ 1 <= i \div 2 /\ i \div 2 < i
  BY <1>1
<1> QED
  BY <1>1, <1>2 DEF Positions

\* heap_push's loop leaves the keys in heap order.
LEMMA KeysUp ==
  ASSUME NEW n \in Nat \ {0}, NEW D, Positions(D, n), NEW k \in [D -> Nat], NEW x \in Nat,
         NEW u \in [D -> [D -> Nat]], Ordered(k, n - 1), Climbs(D, k, x, u)
  PROVE  Ordered(u[n], n)
<1> DEFINE P(i) == Raised(D, k, x, u[i], i)
           T == {i \in D : ~P(i)}
           rank == [i \in D |-> i]
<1>1. ASSUME NEW i \in D, i = 1 \/ k[i \div 2] <= x PROVE P(i)
  <2>1. \A j \in D : u[i][j] = IF j = i THEN x ELSE k[j]
    BY Zenon, <1>1 DEF Climbs
  <2>2. u[i] \in [D -> Nat]
    OBVIOUS
  <2> QED
    BY Zenon, <1>1, <2>1, <2>2, RaisedHere
<1>2. ASSUME NEW i \in D, ~(i = 1 \/ k[i \div 2] <= x), P(i \div 2) PROVE P(i)
  <2>1. i \div 2 \in D
    BY <1>2, HalfIn
  <2>2. \A j \in D : u[i][j] = IF j = i THEN k[i \div 2] ELSE u[i \div 2][j]
    BY <1>2 DEF Climbs
  <2>3. u[i] \in [D -> Nat] /\ u[i \div 2] \in [D -> Nat]
    BY <2>1
  <2>4. i # 1 /\ x < k[i \div 2]
    BY <1>2, <2>1
  <2> QED
    BY Zenon, <1>2, <2>2, <2>3, <2>4, RaisedAbove
<1> HIDE DEF P
<1>3. T = {}
  <2> SUFFICES ASSUME T # {} PROVE FALSE
    OBVIOUS
  <2>1. rank \in [D -> Nat]
    BY DEF Positions
  <2>2. PICK i \in T : \A j \in D : rank[j] < rank[i] => j \notin T
    <3>1. RanksSome(D, rank, T)
      BY <2>1 DEF RanksSome
    <3> HIDE DEF rank, T
    <3> QED
      BY Zenon, <3>1, LeastRanked
  <2>3. ~(i = 1 \/ k[i \div 2] <= x)
    BY <1>1
  <2>4. i \div 2 \in D /\ i \div 2 < i
    BY <2>3, HalfIn
  <2>5. rank[i \div 2] < rank[i]
    BY <2>4
  <2>6. P(i \div 2)
    BY <2>2, <2>4, <2>5
  <2> QED
    BY <1>2, <2>3, <2>6
<1>4. n \in D
  BY DEF Positions
<1>5. P(n)
  BY <1>3, <1>4
<1> QED
  BY <1>5 DEF P, Raised

(***************************************************************************)
(* The same for moving down from i: c[i] is the lesser child of i.         *)
(***************************************************************************)
Sinks(D, n, k, x, c, d) ==
  \A i, j \in D : d[i][j] = IF 2 * i > n \/ k[c[i]] >= x
                            THEN IF j = i THEN x ELSE k[j]
                            ELSE IF j = i THEN k[c[i]] ELSE d[c[i]][j]

Lesser(D, n, k, c) ==
  \A i \in D : 2 * i <= n => /\ c[i] \in D
                             /\ c[i] = 2 * i \/ c[i] = 2 * i + 1
                             /\ k[c[i]] <= k[2 * i]
                             /\ 2 * i < n => k[c[i]] <= k[2 * i + 1]

OrderedFrom(v, i, n) == \A j \in Nat : 2 <= j /\ j <= n /\ i <= j \div 2 => v[j \div 2] <= v[j]

Lowered(D, n, k, x, c, v, i) ==
  /\ \A j \in D : j < i => v[j] = k[j]
  /\ v[i] = x \/ (2 * i <= n /\ k[c[i]] < x /\ v[i] = k[c[i]])
  /\ OrderedFrom(v, i, n)
  /\ \A j \in D : i < j => k[j] <= v[j]

\* The key is placed at i.
LEMMA LoweredHere ==
  ASSUME NEW n \in Nat, NEW D, Positions(D, n), NEW k \in [D -> Nat], NEW x \in Nat,
         NEW c \in [D -> Nat], NEW v \in [D -> Nat], NEW i \in D, Ordered(k, n),
         Lesser(D, n, k, c), 2 * i > n \/ k[c[i]] >= x,
         \A j \in D : v[j] = IF j = i THEN x ELSE k[j]
  PROVE  Lowered(D, n, k, x, c, v, i)
<1>1. ASSUME NEW j \in Nat, 2 <= j, j <= n, i <= j \div 2 PROVE v[j \div 2] <= v[j]
  <2> DEFINE q == j \div 2
  <2>1. /\ j \in D /\ q \in D /\ j # i /\ i \in Nat /\ i <= n
        /\ j = 2 * q \/ j = 2 * q + 1
    BY <1>1, Half DEF Positions
  <2>2. CASE q = i
    <3>1. 2 * i <= n /\ (j = 2 * i \/ (j = 2 * i + 1 /\ 2 * i < n))
      BY <1>1, <2>1, <2>2
    <3>2. /\ k[c[i]] <= k[j] /\ k[c[i]] \in Nat /\ k[j] \in Nat
          /\ v[j] = k[j] /\ v[q] = x /\ k[c[i]] >= x
      BY <2>1, <2>2, <3>1 DEF Lesser
    <3> QED
      BY <3>2
  <2>3. CASE q # i
    <3>1. v[j] = k[j] /\ v[q] = k[q]
      BY <2>1, <2>3
    <3> QED
      BY <1>1, <3>1 DEF Ordered
  <2> QED
    BY <2>2, <2>3
<1>2. OrderedFrom(v, i, n)
  BY <1>1 DEF OrderedFrom
<1>3. \A j \in D : i < j => k[j] <= v[j]
  BY DEF Positions
<1>4. \A j \in D : j < i => v[j] = k[j]
  BY DEF Positions
<1> QED
  BY <1>2, <1>3, <1>4 DEF Lowered

\* The key of the lesser child moves up to i, and the hole down.
LEMMA LoweredBelow ==
  ASSUME NEW n \in Nat, NEW D, Positions(D, n), NEW k \in [D -> Nat], NEW x \in Nat,
         NEW c \in [D -> Nat], NEW v \in [D -> Nat], NEW w \in [D -> Nat], NEW i \in D,
         Ordered(k, n), Lesser(D, n, k, c), 2 * i <= n, k[c[i]] < x,
         Lowered(D, n, k, x, c, w, c[i]),
         \A j \in D : v[j] = IF j = i THEN k[c[i]] ELSE w[j]
  PROVE  Lowered(D, n, k, x, c, v, i)
<1> DEFINE p == c[i]
<1>1. /\ p \in D /\ i \in Nat /\ p \in Nat /\ i < p /\ 1 <= i /\ p <= n
      /\ k[p] <= k[2 * i]
      /\ 2 * i < n => k[p] <= k[2 * i + 1]
  BY DEF Lesser, Positions
<1>2. /\ \A j \in D : j < p => w[j] = k[j]
      /\ w[p] = x \/ (2 * p <= n /\ k[c[p]] < x /\ w[p] = k[c[p]])
      /\ OrderedFrom(w, p, n)
      /\ \A j \in D : p < j => k[j] <= w[j]
  BY DEF Lowered
<1>3. k[p] < x
  OBVIOUS
<1>4. \A j \in D : v[j] = IF j = i THEN k[p] ELSE w[j]
  OBVIOUS
<1>5. p = c[i]
  OBVIOUS
<1> HIDE DEF p
<1>6. k[p] <= w[p]
  <2>1. CASE w[p] = x
    BY <1>1, <1>3, <2>1
  <2>2. CASE 2 * p <= n /\ w[p] = k[c[p]]
    <3>1. c[p] \in D /\ (c[p] = 2 * p \/ c[p] = 2 * p + 1)
      BY <1>1, <2>2 DEF Lesser
    <3>2. c[p] \in Nat /\ 2 <= c[p] /\ c[p] <= n /\ c[p] \div 2 = p
      BY <1>1, <3>1 DEF Positions
    <3>3. k[c[p] \div 2] <= k[c[p]]
      BY <3>2 DEF Ordered
    <3> QED
      BY <2>2, <3>2, <3>3
  <2> QED
    BY <1>2, <2>1, <2>2
<1>7. ASSUME NEW j \in D PROVE k[j] <= w[j] /\ j \in Nat /\ w[j] \in Nat /\ k[j] \in Nat
  <2>1. j \in Nat /\ w[j] \in Nat /\ k[j] \in Nat
    BY DEF Positions
  <2>2. CASE j < p
    BY <1>2, <2>1, <2>2
  <2>3. CASE j = p
    BY <1>6, <2>1, <2>3
  <2>4. CASE p < j
    BY <1>2, <2>1, <2>4
  <2> QED
    BY <1>1, <2>1, <2>2, <2>3, <2>4
<1>8. ASSUME NEW j \in Nat, 2 <= j, j <= n, i <= j \div 2 PROVE v[j \div 2] <= v[j]
  <2> DEFINE q == j \div 2
  <2>1. q \in D /\ j \in D /\ i < j /\ q \in Nat /\ i <= q /\ (j = 2 * q \/ j = 2 * q + 1)
    BY <1>1, <1>8, Half DEF Positions
  <2>2. v[j] = w[j] /\ k[j] <= w[j] /\ k[j] \in Nat /\ w[j] \in Nat
    BY <1>1, <1>4, <1>7, <2>1
  <2>3. k[q] <= k[j]
    BY <1>8 DEF Ordered
  <2>4. OrderedFrom(w, p, n) /\ p <= q => w[q] <= w[j]
    BY <1>8 DEF OrderedFrom
  <2>5. v[j \div 2] = v[q]
    OBVIOUS
  <2> HIDE DEF q
  <2>6. CASE q = i
    <3>1. v[q] = k[p] /\ k[p] \in Nat
      BY <1>1, <1>4, <2>1, <2>6
    <3>2. k[p] <= k[j]
      BY <1>1, <1>8, <2>1, <2>6
    <3> QED
      BY <2>2, <2>5, <3>1, <3>2
  <2>7. CASE q # i /\ q < p
    <3>1. v[q] = k[q] /\ k[q] \in Nat
      BY <1>2, <1>4, <1>7, <2>1, <2>7
    <3> QED
      BY <2>2, <2>3, <2>5, <3>1
  <2>8. CASE q # i /\ p <= q
    <3>1. v[q] = w[q]
      BY <1>4, <2>1, <2>8
    <3> QED
      BY <1>2, <2>2, <2>4, <2>5, <2>8, <3>1
  <2> QED
    BY <1>1, <2>1, <2>6, <2>7, <2>8
<1>9. OrderedFrom(v, i, n)
  BY <1>8 DEF OrderedFrom
<1>10. \A j \in D : j < i => v[j] = k[j]
  <2> SUFFICES ASSUME NEW j \in D, j < i PROVE v[j] = k[j]
    OBVIOUS
  <2>1. j \in Nat /\ j # i /\ j < p
    BY <1>1 DEF Positions
  <2> QED
    BY <1>2, <1>4, <2>1
<1>11. v[i] = k[p]
  BY <1>1, <1>4
<1>12. \A j \in D : i < j => k[j] <= v[j]
  <2> SUFFICES ASSUME NEW j \in D, i < j PROVE k[j] <= v[j]
    OBVIOUS
  <2>1. j # i
    BY <1>1
  <2> QED
    BY <1>4, <1>7, <2>1
<1> QED
  BY <1>3, <1>5, <1>9, <1>10, <1>11, <1>12 DEF Lowered

\* heap_pop's loop leaves the keys in heap order.
LEMMA KeysDown ==
  ASSUME NEW n \in Nat \ {0}, NEW D, Positions(D, n), NEW k \in [D -> Nat], NEW x \in Nat,
         NEW c \in [D -> Nat], NEW d \in [D -> [D -> Nat]], Ordered(k, n),
         Lesser(D, n, k, c), Sinks(D, n, k, x, c, d)
  PROVE  Ordered(d[1], n)
<1> DEFINE P(i) == Lowered(D, n, k, x, c, d[i], i)
           T == {i \in D : ~P(i)}
           rank == [i \in D |-> n - i]
<1>1. \A i \in D : i \in Nat /\ 1 <= i /\ i <= n
  BY DEF Positions
<1>2. ASSUME NEW i \in D, 2 * i > n \/ k[c[i]] >= x PROVE P(i)
  <2>1. \A j \in D : d[i][j] = IF j = i THEN x ELSE k[j]
    BY <1>2 DEF Sinks
  <2>2. d[i] \in [D -> Nat]
    OBVIOUS
  <2> QED
    BY Zenon, <1>2, <2>1, <2>2, LoweredHere
<1>3. ASSUME NEW i \in D, ~(2 * i > n \/ k[c[i]] >= x)
      PROVE  c[i] \in D /\ i < c[i] /\ 2 * i <= n /\ k[c[i]] < x
  <2>1. 2 * i <= n
    BY <1>1, <1>3
  <2>2. c[i] \in D /\ (c[i] = 2 * i \/ c[i] = 2 * i + 1)
    BY <2>1 DEF Lesser
  <2> QED
    BY <1>1, <1>3, <2>1, <2>2
<1>4. ASSUME NEW i \in D, ~(2 * i > n \/ k[c[i]] >= x), P(c[i]) PROVE P(i)
  <2>1. c[i] \in D /\ 2 * i <= n /\ k[c[i]] < x
    BY <1>3, <1>4
  <2>2. \A j \in D : d[i][j] = IF j = i THEN k[c[i]] ELSE d[c[i]][j]
    BY <1>4 DEF Sinks
  <2>3. d[i] \in [D -> Nat] /\ d[c[i]] \in [D -> Nat]
    BY <2>1
  <2> QED
    BY Zenon, <1>4, <2>1, <2>2, <2>3, LoweredBelow
<1> HIDE DEF P
<1>5. T = {}
  <2> SUFFICES ASSUME T # {} PROVE FALSE
    OBVIOUS
  <2>1. rank \in [D -> Nat]
    BY <1>1
  <2>2. PICK i \in T : \A j \in D : rank[j] < rank[i] => j \notin T
    <3>1. RanksSome(D, rank, T)
      BY <2>1 DEF RanksSome
    <3> HIDE DEF rank, T
    <3> QED
      BY Zenon, <3>1, LeastRanked
  <2>3. ~(2 * i > n \/ k[c[i]] >= x)
    BY <1>2
  <2>4. c[i] \in D /\ i < c[i]
    BY <1>3, <2>3
  <2>5. rank[c[i]] < rank[i]
    BY <1>1, <2>4
  <2>6. P(c[i])
    BY <2>2, <2>4, <2>5
  <2> QED
    BY <1>4, <2>3, <2>6
<1>6. 1 \in D
  BY DEF Positions
<1>7. P(1)
  BY <1>5, <1>6
<1>8. OrderedFrom(d[1], 1, n)
  BY <1>7 DEF P, Lowered
<1> QED
  BY <1>8, Half DEF OrderedFrom, Ordered

(***************************************************************************)
(* Moving the hole loses and duplicates nothing: r is h with e at position *)
(* i, its positions renamed by the permutation pi.                         *)
(***************************************************************************)
Permutes(D, pi) ==
  /\ pi \in [D -> D]
  /\ \A a, b \in D : pi[a] = pi[b] => a = b
  /\ \A b \in D : \E a \in D : pi[a] = b

Moved(D, h, e, r, i, pi) ==
  Permutes(D, pi) /\ \A j \in D : r[j] = IF pi[j] = i THEN e ELSE h[pi[j]]

\* The entry is placed at i.
LEMMA MovedHere ==
  ASSUME NEW D, NEW h, NEW e, NEW r, NEW i \in D,
         \A j \in D : r[j] = IF j = i THEN e ELSE h[j]
  PROVE  Moved(D, h, e, r, i, [j \in D |-> j])
  BY DEF Moved, Permutes

\* w has its hole at p; r is w with h[p] put at i, and the hole at p filled.
Carries(D, h, e, r, w, i, p, pi) ==
  /\ i \in D /\ p \in D /\ i # p
  /\ Moved(D, h, e, w, p, pi) /\ pi[i] = i
  /\ \A j \in D : r[j] = IF j = i THEN h[p] ELSE w[j]

\* The entry of the next position moves to i.
LEMMA MovedOn ==
  ASSUME NEW D, NEW h, NEW e, NEW r, NEW w, NEW i, NEW p, NEW pi,
         Carries(D, h, e, r, w, i, p, pi)
  PROVE  \E om : /\ Moved(D, h, e, r, i, om)
                 /\ \A j \in D : j # i /\ j # p /\ pi[j] = j => om[j] = j
<1>1. /\ i \in D /\ p \in D /\ i # p /\ pi[i] = i
      /\ \A j \in D : r[j] = IF j = i THEN h[p] ELSE w[j]
  BY Zenon DEF Carries
<1> DEFINE om == [j \in D |-> IF j = i THEN p ELSE IF pi[j] = p THEN i ELSE pi[j]]
<1>2. /\ pi \in [D -> D]
      /\ \A a, b \in D : pi[a] = pi[b] => a = b
      /\ \A b \in D : \E a \in D : pi[a] = b
      /\ \A j \in D : w[j] = IF pi[j] = p THEN e ELSE h[pi[j]]
  BY DEF Carries, Moved, Permutes
<1>3. om \in [D -> D]
  BY <1>1, <1>2
<1>4. ASSUME NEW a \in D, NEW b \in D, om[a] = om[b] PROVE a = b
  BY <1>1, <1>2, <1>4
<1>5. ASSUME NEW b \in D PROVE \E a \in D : om[a] = b
  <2>1. CASE b = p
    BY <1>1, <2>1
  <2>2. CASE b = i
    <3>1. PICK a \in D : pi[a] = p
      BY <1>1, <1>2
    <3>2. om[a] = b
      BY <1>1, <2>2, <3>1
    <3> QED
      BY <3>2
  <2>3. CASE b # p /\ b # i
    <3>1. PICK a \in D : pi[a] = b
      BY <1>1, <1>2
    <3>2. om[a] = b
      BY <1>1, <2>3, <3>1
    <3> QED
      BY <3>2
  <2> QED
    BY <2>1, <2>2, <2>3
<1>6. ASSUME NEW j \in D PROVE r[j] = IF om[j] = i THEN e ELSE h[om[j]]
  <2>1. CASE j = i
    BY <1>1, <2>1
  <2>2. CASE j # i
    <3>1. r[j] = w[j] /\ pi[j] # i
      BY <1>1, <1>2, <2>2
    <3> QED
      BY <1>1, <1>2, <2>2, <3>1
  <2> QED
    BY <2>1, <2>2
<1>7. \A j \in D : j # i /\ j # p /\ pi[j] = j => om[j] = j
  OBVIOUS
<1> HIDE DEF om
<1>8. Moved(D, h, e, r, i, om)
  BY <1>3, <1>4, <1>5, <1>6 DEF Moved, Permutes
<1> QED
  BY <1>7, <1>8

\* The recursion of SiftUp, which ends at the positions of stop.
Rises(D, h, e, stop, up) ==
  /\ 1 \in stop
  /\ \A i, j \in D : up[i][j] = IF i \in stop THEN IF j = i THEN e ELSE h[j]
                                ELSE IF j = i THEN h[i \div 2] ELSE up[i \div 2][j]

\* heap_push's loop only moves entries.
LEMMA EntriesUp ==
  ASSUME NEW n \in Nat \ {0}, NEW D, Positions(D, n), NEW h, NEW e, NEW stop, NEW up,
         Rises(D, h, e, stop, up)
  PROVE  \E pi : Moved(D, h, e, up[n], n, pi)
<1> DEFINE P(i) == \E pi : Moved(D, h, e, up[i], i, pi) /\ \A j \in D : i < j => pi[j] = j
           T == {i \in D : ~P(i)}
           rank == [i \in D |-> i]
<1>1. \A i \in D : i \in Nat
  BY DEF Positions
<1>2. ASSUME NEW i \in D, i \in stop PROVE P(i)
  <2>1. Moved(D, h, e, up[i], i, [j \in D |-> j])
    BY <1>2, MovedHere DEF Rises
  <2> QED
    BY <2>1
<1>3. ASSUME NEW i \in D, i \notin stop, P(i \div 2) PROVE P(i)
  <2>1. i \div 2 \in D /\ i \div 2 < i /\ i \div 2 # i
    BY <1>1, <1>3, HalfIn DEF Rises
  <2> DEFINE p == i \div 2
  <2>2. \A j \in D : up[i][j] = IF j = i THEN h[p] ELSE up[p][j]
    BY <1>3 DEF Rises
  <2> HIDE DEF p
  <2>3. PICK pi : Moved(D, h, e, up[p], p, pi) /\ \A j \in D : p < j => pi[j] = j
    BY <1>3 DEF p
  <2>4. p \in D /\ i # p /\ p < i
    BY <2>1 DEF p
  <2>5. pi[i] = i
    BY <2>3, <2>4
  <2> DEFINE r == up[i]
             w == up[p]
  <2>6. Carries(D, h, e, r, w, i, p, pi)
    BY Zenon, <2>2, <2>3, <2>4, <2>5 DEF Carries
  <2> HIDE DEF r, w
  <2>7. PICK om : /\ Moved(D, h, e, r, i, om)
                  /\ \A j \in D : j # i /\ j # p /\ pi[j] = j => om[j] = j
    BY <2>6, MovedOn
  <2>8. \A j \in D : i < j => om[j] = j
    BY <1>1, <2>3, <2>4, <2>7
  <2> QED
    BY <2>7, <2>8 DEF r
<1> HIDE DEF P
<1>4. T = {}
  <2> SUFFICES ASSUME T # {} PROVE FALSE
    OBVIOUS
  <2>1. rank \in [D -> Nat]
    BY <1>1
  <2>2. PICK i \in T : \A j \in D : rank[j] < rank[i] => j \notin T
    <3>1. RanksSome(D, rank, T)
      BY <2>1 DEF RanksSome
    <3> HIDE DEF rank, T
    <3> QED
      BY Zenon, <3>1, LeastRanked
  <2>3. i \notin stop /\ i # 1
    BY <1>2 DEF Rises
  <2>4. i \div 2 \in D /\ i \div 2 < i
    BY <2>3, HalfIn
  <2>5. rank[i \div 2] < rank[i]
    BY <2>4
  <2>6. P(i \div 2)
    BY <2>2, <2>4, <2>5
  <2> QED
    BY <1>3, <2>3, <2>6
<1>5. n \in D
  BY DEF Positions
<1>6. P(n)
  BY <1>4, <1>5
<1> QED
  BY <1>6 DEF P

\* The recursion of SiftDown: c[i] is where the hole goes from i.
Falls(D, h, e, stop, c, down) ==
  /\ \A i \in D \ stop : c[i] \in D /\ i < c[i]
  /\ \A i, j \in D : down[i][j] = IF i \in stop THEN IF j = i THEN e ELSE h[j]
                                  ELSE IF j = i THEN h[c[i]] ELSE down[c[i]][j]

\* heap_pop's loop only moves entries.
LEMMA EntriesDown ==
  ASSUME NEW n \in Nat \ {0}, NEW D, Positions(D, n), NEW h, NEW e, NEW stop, NEW c, NEW down,
         Falls(D, h, e, stop, c, down)
  PROVE  \E pi : Moved(D, h, e, down[1], 1, pi)
<1> DEFINE P(i) == \E pi : Moved(D, h, e, down[i], i, pi) /\ \A j \in D : j < i => pi[j] = j
           T == {i \in D : ~P(i)}
           rank == [i \in D |-> n - i]
<1>1. \A i \in D : i \in Nat /\ i <= n
  BY DEF Positions
<1>2. ASSUME NEW i \in D, i \in stop PROVE P(i)
  <2>1. Moved(D, h, e, down[i], i, [j \in D |-> j])
    BY <1>2, MovedHere DEF Falls
  <2> QED
    BY <2>1
<1>3. ASSUME NEW i \in D, i \notin stop, P(c[i]) PROVE P(i)
  <2> DEFINE p == c[i]
  <2>1. \A j \in D : down[i][j] = IF j = i THEN h[p] ELSE down[p][j]
    BY <1>3 DEF Falls
  <2> HIDE DEF p
  <2>2. PICK pi : Moved(D, h, e, down[p], p, pi) /\ \A j \in D : j < p => pi[j] = j
    BY <1>3 DEF p
  <2>3. p \in D /\ i # p /\ i < p
    BY <1>1, <1>3 DEF p, Falls
  <2>4. pi[i] = i
    BY <2>2, <2>3
  <2> DEFINE r == down[i]
             w == down[p]
  <2>5. Carries(D, h, e, r, w, i, p, pi)
    BY Zenon, <2>1, <2>2, <2>3, <2>4 DEF Carries
  <2> HIDE DEF r, w
  <2>6. PICK om : /\ Moved(D, h, e, r, i, om)
                  /\ \A j \in D : j # i /\ j # p /\ pi[j] = j => om[j] = j
    BY <2>5, MovedOn
  <2>7. \A j \in D : j < i => om[j] = j
    BY <1>1, <2>2, <2>3, <2>6
  <2> QED
    BY <2>6, <2>7 DEF r
<1> HIDE DEF P
<1>4. T = {}
  <2> SUFFICES ASSUME T # {} PROVE FALSE
    OBVIOUS
  <2>1. rank \in [D -> Nat]
    BY <1>1
  <2>2. PICK i \in T : \A j \in D : rank[j] < rank[i] => j \notin T
    <3>1. RanksSome(D, rank, T)
      BY <2>1 DEF RanksSome
    <3> HIDE DEF rank, T
    <3> QED
      BY Zenon, <3>1, LeastRanked
  <2>3. i \notin stop
    BY <1>2
  <2>4. c[i] \in D /\ i < c[i]
    BY <2>3 DEF Falls
  <2>5. rank[c[i]] < rank[i]
    BY <1>1, <2>4
  <2>6. P(c[i])
    BY <2>2, <2>4, <2>5
  <2> QED
    BY <1>3, <2>3, <2>6
<1>5. 1 \in D
  BY DEF Positions
<1>6. P(1)
  BY <1>4, <1>5
<1> QED
  BY <1>6 DEF P

\* No entry comes before its parent.
HeapOrder(h) == \A j \in 2..Len(h) : h[j \div 2].f <= h[j].f

PushKeeps(E, h, e, n) ==
  /\ heap_push(h, e) \in [1..n -> E]
  /\ HeapOrder(heap_push(h, e))
  /\ \E pi : /\ Permutes(1..n, pi)
             /\ \A j \in 1..n : heap_push(h, e)[j] = IF pi[j] = n THEN e ELSE h[pi[j]]

\* heap_push keeps the order, and its array holds the old entries and e.
LEMMA Pushed ==
  ASSUME NEW E, \A x \in E : x.f \in Nat, NEW h \in Seq(E), NEW e \in E, HeapOrder(h),
         NEW n \in Nat, n = Len(h) + 1
  PROVE  PushKeeps(E, h, e, n)
<1> DEFINE H == Append(h, e)
           D == 1..n
<1>1. Len(h) \in Nat /\ n \in Nat \ {0} /\ Len(H) = n /\ H \in Seq(E)
  OBVIOUS
<1>2. n \in Nat \ {0} /\ H \in [D -> E] /\ H[n] = e /\ \A j \in D : j # n => H[j] = h[j]
  <2>1. H \in [D -> E]
    <3> HIDE DEF H
    <3> QED
      BY <1>1, SeqIsFunction
  <2>2. H[n] = e
    BY <1>1
  <2>3. ASSUME NEW j \in D, j # n PROVE H[j] = h[j]
    <3>1. j \in 1..Len(h)
      BY <1>1, <2>3
    <3> QED
      BY <3>1
  <2> QED
    BY <1>1, <2>1, <2>2, <2>3
<1>3. Positions(D, n)
  BY <1>2 DEF Positions
<1>4. heap_push(h, e) = SiftUp(H, e, n)
  BY Zenon DEF heap_push
<1>5. \A j \in 2..(n - 1) : H[j \div 2].f <= H[j].f
  <2> SUFFICES ASSUME NEW j \in 2..(n - 1) PROVE H[j \div 2].f <= H[j].f
    OBVIOUS
  <2>1. j \in Nat /\ 2 <= j /\ j <= n - 1 /\ j # n
    BY <1>2
  <2>2. j \div 2 \in 1..(j - 1)
    BY <2>1, Half
  <2>3. j \in 2..Len(h) /\ j \in D /\ j \div 2 \in D /\ j \div 2 # n
    BY <1>2, <2>1, <2>2
  <2>4. H[j] = h[j] /\ H[j \div 2] = h[j \div 2]
    BY <1>2, <2>1, <2>3
  <2> QED
    BY <2>3, <2>4 DEF HeapOrder
<1> HIDE DEF H
<1>6. PICK up : UpTable(E, H, e, n, up)
  BY <1>2, SiftUpUnfolds
<1>7. /\ up \in [D -> [D -> E]]
      /\ SiftUp(H, e, n) = up[n]
      /\ \A i \in D : up[i] = IF i = 1 \/ H[i \div 2].f <= e.f
                              THEN [H EXCEPT ![i] = e]
                              ELSE [up[i \div 2] EXCEPT ![i] = H[i \div 2]]
  BY Zenon, <1>6 DEF UpTable
<1> HIDE DEF D
<1>8. up \in [D -> [D -> E]]
  BY <1>7
<1>9. n \in D
  BY <1>2, <1>3 DEF Positions
<1>10. ASSUME NEW i \in D, NEW j \in D
       PROVE  up[i][j] = IF i = 1 \/ H[i \div 2].f <= e.f
                         THEN IF j = i THEN e ELSE H[j]
                         ELSE IF j = i THEN H[i \div 2] ELSE up[i \div 2][j]
  <2>1. CASE i = 1 \/ H[i \div 2].f <= e.f
    <3>1. up[i] = [H EXCEPT ![i] = e]
      BY Zenon, <1>7, <2>1
    <3> QED
      BY <1>2, <2>1, <3>1
  <2>2. CASE ~(i = 1 \/ H[i \div 2].f <= e.f)
    <3>1. up[i] = [up[i \div 2] EXCEPT ![i] = H[i \div 2]]
      BY Zenon, <1>7, <2>2
    <3>2. i \div 2 \in D
      BY <1>2, <1>3, <2>2, HalfIn
    <3>3. up[i \div 2] \in [D -> E]
      BY <1>8, <3>2
    <3> QED
      BY <2>2, <3>1, <3>3
  <2> QED
    BY <2>1, <2>2
<1> DEFINE k == [j \in D |-> H[j].f]
           u == [i \in D |-> [j \in D |-> up[i][j].f]]
           x == e.f
<1>11. HeapOrder(up[n])
  <2>1. k \in [D -> Nat] /\ x \in Nat /\ u \in [D -> [D -> Nat]]
    BY <1>2, <1>8
  <2>2. Ordered(k, n - 1)
    <3> SUFFICES ASSUME NEW j \in Nat, 2 <= j, j <= n - 1 PROVE k[j \div 2] <= k[j]
      BY Zenon DEF Ordered
    <3>1. j \in D /\ j # 1 /\ j \in 2..(n - 1)
      <4>1. j <= n
        BY <1>1
      <4>2. j \in D
        BY <1>3, <4>1 DEF Positions
      <4> QED
        BY <1>1, <4>2
    <3>2. j \div 2 \in D
      BY Zenon, <1>2, <1>3, <3>1, HalfIn
    <3> QED
      BY <1>5, <3>1, <3>2
  <2>3. ASSUME NEW i \in D, NEW j \in D
        PROVE  u[i][j] = IF i = 1 \/ k[i \div 2] <= x
                         THEN IF j = i THEN x ELSE k[j]
                         ELSE IF j = i THEN k[i \div 2] ELSE u[i \div 2][j]
    <3>1. i # 1 => i \div 2 \in D
      BY <1>2, <1>3, HalfIn
    <3>2. u[i][j] = up[i][j].f /\ k[j] = H[j].f
      OBVIOUS
    <3>3. i # 1 => k[i \div 2] = H[i \div 2].f /\ u[i \div 2][j] = up[i \div 2][j].f
      BY <3>1
    <3>4. up[i][j] = IF i = 1 \/ H[i \div 2].f <= x
                     THEN IF j = i THEN e ELSE H[j]
                     ELSE IF j = i THEN H[i \div 2] ELSE up[i \div 2][j]
      BY <1>10
    <3>5. x = e.f
      OBVIOUS
    <3> HIDE DEF u, k, x
    <3> QED
      BY <3>2, <3>3, <3>4, <3>5
  <2>4. Climbs(D, k, x, u)
    <3> HIDE DEF u, k, x
    <3> QED
      BY <2>3 DEF Climbs
  <2>5. Ordered(u[n], n)
    <3> HIDE DEF u, k, x
    <3> QED
      BY Zenon, <1>2, <1>3, <2>1, <2>2, <2>4, KeysUp
  <2>6. up[n] \in [D -> E] /\ Len(up[n]) = n
    <3>1. up[n] \in [1..n -> E]
      BY <1>9, <1>8 DEF D
    <3> QED
      BY <1>2, <3>1 DEF D
  <2> SUFFICES ASSUME NEW j \in 2..n PROVE up[n][j \div 2].f <= up[n][j].f
    BY <2>6 DEF HeapOrder
  <2>7. j \in Nat /\ 2 <= j /\ j <= n
    BY <1>2
  <2>8. j \in D /\ j # 1
    BY <1>3, <2>7 DEF Positions
  <2>9. j \in D /\ j \div 2 \in D
    BY Zenon, <1>2, <1>3, <2>8, HalfIn
  <2>10. u[n][j \div 2] <= u[n][j]
    BY Zenon, <2>5, <2>7 DEF Ordered
  <2> QED
    BY <1>9, <2>9, <2>10
<1>12. \E pi : Moved(D, H, e, up[n], n, pi)
  <2> DEFINE stop == {i \in D : i = 1 \/ H[i \div 2].f <= e.f}
  <2>1. 1 \in stop
    BY <1>2, <1>3 DEF Positions
  <2>2. \A i, j \in D : up[i][j] = IF i \in stop THEN IF j = i THEN e ELSE H[j]
                                   ELSE IF j = i THEN H[i \div 2] ELSE up[i \div 2][j]
    BY <1>10
  <2>3. Rises(D, H, e, stop, up)
    BY <2>1, <2>2 DEF Rises
  <2> HIDE DEF stop
  <2> QED
    BY <1>2, <1>3, <2>3, EntriesUp
<1>13. PICK pi : Moved(D, H, e, up[n], n, pi)
  BY <1>12
<1>14. Permutes(D, pi) /\ \A j \in D : up[n][j] = IF pi[j] = n THEN e ELSE h[pi[j]]
  <2>1. Permutes(D, pi) /\ pi \in [D -> D]
    BY <1>13 DEF Moved, Permutes
  <2> SUFFICES ASSUME NEW j \in D PROVE up[n][j] = IF pi[j] = n THEN e ELSE h[pi[j]]
    BY <2>1
  <2>2. up[n][j] = IF pi[j] = n THEN e ELSE H[pi[j]]
    BY <1>13 DEF Moved
  <2>3. pi[j] \in D
    BY <2>1
  <2> QED
    BY <1>2, <2>2, <2>3
<1>15. heap_push(h, e) = up[n] /\ up[n] \in [D -> E]
  BY <1>4, <1>7, <1>9
<1> QED
  BY <1>11, <1>14, <1>15 DEF D, PushKeeps

\* There is no position in an empty heap.
LEMMA EmptyInterval == \A j \in 1..0 : FALSE
  OBVIOUS

\* heap_pop keeps the order, and its array holds the old entries but the first.
LEMMA Popped ==
  ASSUME NEW E, \A x \in E : x.f \in Nat, NEW h \in Seq(E), HeapOrder(h),
         NEW n \in Nat, n = Len(h) - 1
  PROVE  /\ heap_pop(h) \in [1..n -> E]
         /\ HeapOrder(heap_pop(h))
         /\ \E pi : /\ Permutes(1..n, pi)
                    /\ \A j \in 1..n :
                         heap_pop(h)[j] = IF pi[j] = 1 THEN h[n + 1] ELSE h[pi[j]]
<1> DEFINE H == SubSeq(h, 1, n)
           D == 1..n
           e == h[n + 1]
           c == [i \in D |-> LesserChild(H, i)]
<1>1. Len(h) = n + 1 /\ e \in E
  OBVIOUS
<1>2. CASE n = 0
  <2>1. heap_pop(h) = <<>>
    BY <1>1, <1>2 DEF heap_pop
  <2>2. <<>> \in Seq(E) /\ Len(<<>>) = 0
    OBVIOUS
  <2>3. heap_pop(h) \in [1..n -> E]
    <3>1. <<>> \in [1..Len(<<>>) -> E]
      BY <2>2, SeqIsFunction
    <3> QED
      BY Zenon, <1>2, <2>1, <2>2, <3>1
  <2>4. HeapOrder(heap_pop(h))
    BY <2>1, <2>2 DEF HeapOrder
  <2>5. \A j \in 1..n : FALSE
    BY Zenon, <1>2, EmptyInterval
  <2> DEFINE id == [j \in 1..n |-> j]
  <2>6. id \in [1..n -> 1..n]
    OBVIOUS
  <2> HIDE DEF id
  <2>7. Permutes(1..n, id)
    BY Zenon, <2>5, <2>6 DEF Permutes
  <2> QED
    BY Zenon, <2>3, <2>4, <2>5, <2>7
<1>3. CASE n # 0
  <2>1. H \in Seq(E) /\ Len(H) = n /\ \A j \in D : H[j] = h[j]
    BY <1>1
  <2>2. Positions(D, n) /\ n \in Nat \ {0}
    BY <1>3 DEF Positions
  <2>3. heap_pop(h) = SiftDown(H, e)
    <3>1. Len(h) # 1 /\ n = Len(h) - 1 /\ n + 1 = Len(h)
      BY <1>1, <1>3
    <3> QED
      BY Zenon, <3>1 DEF heap_pop
  <2>4. \A j \in 2..n : H[j \div 2].f <= H[j].f
    <3> SUFFICES ASSUME NEW j \in 2..n PROVE H[j \div 2].f <= H[j].f
      BY Zenon
    <3>1. j \in Nat /\ 2 <= j /\ j <= n
      OBVIOUS
    <3>2. j \div 2 \in 1..(j - 1)
      BY <3>1, Half
    <3>3. j \in 2..Len(h) /\ j \in D /\ j \div 2 \in D
      BY <1>1, <3>1, <3>2
    <3>4. H[j] = h[j] /\ H[j \div 2] = h[j \div 2]
      BY <2>1, <3>3
    <3> QED
      BY <3>3, <3>4 DEF HeapOrder
  <2> HIDE DEF H, e
  <2>5. H \in [D -> E]
    BY <2>1, SeqIsFunction
  <2>6. PICK down : DownTable(E, H, e, n, down)
    BY SMTT(30), <1>1, <2>1, <2>2, SiftDownUnfolds
  <2>7. ASSUME NEW i \in D, 2 * i <= n
        PROVE  /\ c[i] \in D /\ i < c[i]
               /\ c[i] = 2 * i \/ c[i] = 2 * i + 1
    <3>1. LesserChild(H, i) \in (i + 1)..n
      BY Zenon, <2>1, <2>7, Child
    <3>2. c[i] = 2 * i \/ c[i] = 2 * i + 1
      BY Zenon, <2>1, <2>7, Child
    <3> QED
      BY <2>2, <3>1, <3>2
  <2>8. /\ down \in [D -> [D -> E]]
        /\ SiftDown(H, e) = down[1]
        /\ \A i \in D : down[i] = IF 2 * i > n \/ H[c[i]].f >= e.f
                                  THEN [H EXCEPT ![i] = e]
                                  ELSE [down[c[i]] EXCEPT ![i] = H[c[i]]]
    BY <2>6 DEF DownTable
  <2>9. ASSUME NEW i \in D, 2 * i <= n
        PROVE  H[c[i]].f <= H[2 * i].f /\ (2 * i < n => H[c[i]].f <= H[2 * i + 1].f)
    <3>1. c[i] = IF 2 * i < n /\ H[2 * i + 1].f < H[2 * i].f THEN 2 * i + 1 ELSE 2 * i
      BY <2>1 DEF LesserChild
    <3>2. 2 * i \in D /\ (2 * i < n => 2 * i + 1 \in D)
      BY <2>9
    <3>3. H[2 * i].f \in Nat /\ (2 * i < n => H[2 * i + 1].f \in Nat)
      BY Zenon, <2>5, <3>2
    <3> HIDE DEF c
    <3> QED
      BY <3>1, <3>3
  <2>10. c \in [D -> Nat]
    <3> SUFFICES ASSUME NEW i \in D PROVE LesserChild(H, i) \in Nat
      OBVIOUS
    <3> QED
      BY DEF LesserChild
  <2>11. down \in [D -> [D -> E]]
    BY <2>8
  <2> HIDE DEF D, c
  <2>12. 1 \in D
    BY <2>2 DEF Positions
  <2>13. ASSUME NEW i \in D PROVE 2 * i \in Nat /\ i \in Nat
    BY <2>2 DEF Positions
  <2>14. ASSUME NEW i \in D, ~(2 * i > n \/ H[c[i]].f >= e.f)
         PROVE  c[i] \in D /\ i < c[i] /\ 2 * i <= n
    <3>1. 2 * i <= n
      BY <2>13, <2>14
    <3> QED
      BY <2>7, <3>1
  <2>15. ASSUME NEW i \in D, NEW j \in D
         PROVE  down[i][j] = IF 2 * i > n \/ H[c[i]].f >= e.f
                             THEN IF j = i THEN e ELSE H[j]
                             ELSE IF j = i THEN H[c[i]] ELSE down[c[i]][j]
    <3>1. CASE 2 * i > n \/ H[c[i]].f >= e.f
      <4>1. down[i] = [H EXCEPT ![i] = e]
        BY Zenon, <2>8, <3>1
      <4> QED
        BY <2>5, <3>1, <4>1
    <3>2. CASE ~(2 * i > n \/ H[c[i]].f >= e.f)
      <4>1. down[i] = [down[c[i]] EXCEPT ![i] = H[c[i]]]
        BY Zenon, <2>8, <3>2
      <4>2. down[c[i]] \in [D -> E]
        BY <2>11, <2>14, <3>2
      <4> QED
        BY <3>2, <4>1, <4>2
    <3> QED
      BY <3>1, <3>2
  <2> DEFINE k == [j \in D |-> H[j].f]
             d == [i \in D |-> [j \in D |-> down[i][j].f]]
             x == e.f
  <2>16. k \in [D -> Nat] /\ x \in Nat /\ d \in [D -> [D -> Nat]]
    BY <1>1, <2>5, <2>11
  <2>17. Ordered(k, n)
    <3> SUFFICES ASSUME NEW j \in Nat, 2 <= j, j <= n PROVE k[j \div 2] <= k[j]
      BY Zenon DEF Ordered
    <3>1. j \in D
      BY <2>2 DEF Positions
    <3>2. j \in D /\ j # 1 /\ j \in 2..n
      BY <2>2, <3>1
    <3>3. j \div 2 \in D
      BY Zenon, <2>2, <3>2, HalfIn
    <3> QED
      BY <2>4, <3>2, <3>3
  <2>18. Lesser(D, n, k, c)
    <3> SUFFICES ASSUME NEW i \in D, 2 * i <= n
                 PROVE  /\ c[i] \in D
                        /\ c[i] = 2 * i \/ c[i] = 2 * i + 1
                        /\ k[c[i]] <= k[2 * i]
                        /\ 2 * i < n => k[c[i]] <= k[2 * i + 1]
      BY Zenon DEF Lesser
    <3>1. c[i] \in D /\ (c[i] = 2 * i \/ c[i] = 2 * i + 1)
      BY <2>7
    <3>2. i \in Nat /\ 1 <= i
      BY <2>2 DEF Positions
    <3>3. /\ 2 * i \in Nat /\ 1 <= 2 * i
          /\ 2 * i + 1 \in Nat /\ 1 <= 2 * i + 1 /\ (2 * i < n => 2 * i + 1 <= n)
      BY <2>2, <3>2
    <3>4. 2 * i \in D /\ (2 * i < n => 2 * i + 1 \in D)
      BY <2>2, <3>3 DEF Positions
    <3>5. /\ k[c[i]] = H[c[i]].f /\ k[2 * i] = H[2 * i].f
          /\ 2 * i < n => k[2 * i + 1] = H[2 * i + 1].f
      BY <3>1, <3>4
    <3> QED
      BY <2>9, <3>1, <3>5
  <2>19. ASSUME NEW i \in D, NEW j \in D
         PROVE  d[i][j] = IF 2 * i > n \/ k[c[i]] >= x
                          THEN IF j = i THEN x ELSE k[j]
                          ELSE IF j = i THEN k[c[i]] ELSE d[c[i]][j]
    <3>1. d[i][j] = down[i][j].f /\ k[j] = H[j].f /\ x = e.f
      OBVIOUS
    <3>2. 2 * i <= n => c[i] \in D
      BY <2>7
    <3>3. 2 * i <= n => k[c[i]] = H[c[i]].f /\ d[c[i]][j] = down[c[i]][j].f
      BY <3>2
    <3>4. 2 * i <= n \/ 2 * i > n
      BY <2>13
    <3> HIDE DEF d, k, x
    <3> QED
      BY <2>15, <3>1, <3>3, <3>4
  <2>20. Sinks(D, n, k, x, c, d)
    <3> HIDE DEF d, k, x
    <3> QED
      BY <2>19 DEF Sinks
  <2>21. Ordered(d[1], n)
    <3> HIDE DEF d, k, x
    <3> QED
      BY Zenon, <2>2, <2>10, <2>16, <2>17, <2>18, <2>20, KeysDown
  <2>22. HeapOrder(down[1])
    <3>1. down[1] \in [1..n -> E]
      BY SMTT(30), <2>11, <2>12 DEF D
    <3>2. Len(down[1]) = n
      BY <2>2, <3>1
    <3> SUFFICES ASSUME NEW j \in 2..n PROVE down[1][j \div 2].f <= down[1][j].f
      BY <3>2 DEF HeapOrder
    <3>3. j \in D /\ j # 1 /\ j \in Nat /\ 2 <= j /\ j <= n
      BY SMTT(30), <2>2 DEF Positions
    <3>4. j \div 2 \in D
      BY Zenon, <2>2, <3>3, HalfIn
    <3>5. d[1][j \div 2] <= d[1][j]
      BY Zenon, <2>21, <3>3 DEF Ordered
    <3> QED
      BY <2>12, <3>3, <3>4, <3>5
  <2>23. PICK pi : Moved(D, H, e, down[1], 1, pi)
    <3> DEFINE stop == {i \in D : 2 * i > n \/ H[c[i]].f >= e.f}
    <3>1. Falls(D, H, e, stop, c, down)
      BY <2>14, <2>15 DEF Falls
    <3> HIDE DEF stop
    <3> QED
      BY <2>2, <3>1, EntriesDown
  <2>24. Permutes(D, pi) /\ \A j \in D : down[1][j] = IF pi[j] = 1 THEN e ELSE h[pi[j]]
    <3>1. Permutes(D, pi) /\ pi \in [D -> D]
      BY <2>23 DEF Moved, Permutes
    <3> SUFFICES ASSUME NEW j \in D PROVE down[1][j] = IF pi[j] = 1 THEN e ELSE h[pi[j]]
      BY <3>1
    <3>2. down[1][j] = IF pi[j] = 1 THEN e ELSE H[pi[j]]
      BY <2>23 DEF Moved
    <3>3. pi[j] \in D
      BY <3>1
    <3> QED
      BY <2>1, <3>2, <3>3
  <2>25. heap_pop(h) = down[1] /\ down[1] \in [D -> E]
    BY <2>3, <2>8, <2>11, <2>12
  <2> QED
    BY <2>22, <2>24, <2>25 DEF D, e
<1> QED
  BY <1>2, <1>3

Distinct(h) == \A a, b \in 1..Len(h) : h[a] = h[b] => a = b

\* The root is an entry of least f.
LEMMA RootLeast ==
  ASSUME NEW E, \A x \in E : x.f \in Nat, NEW h \in Seq(E), HeapOrder(h)
  PROVE  \A j \in 1..Len(h) : h[1].f <= h[j].f
<1> DEFINE n == Len(h)
           T == {j \in 1..n : ~(h[1].f <= h[j].f)}
<1>1. n \in Nat /\ \A j \in 1..n : j \in Nat /\ 1 <= j /\ j <= n
  BY SeqIsFunction
<1>2. \A j \in 1..n : h[j].f \in Nat
  BY SeqIsFunction
<1> SUFFICES ASSUME T # {} PROVE FALSE
  OBVIOUS
<1>3. PICK j \in T : \A q \in T : j <= q
  <2>1. T \in SUBSET Nat
    BY <1>1
  <2> HIDE DEF T
  <2> QED
    BY <2>1, Least
<1>4. j \in 1..n /\ 1 \in 1..n /\ ~(h[1].f <= h[j].f)
  BY <1>1
<1>5. j # 1
  BY <1>2, <1>4
<1>6. j \div 2 \in 1..n /\ j \div 2 < j /\ j \in 2..n
  BY <1>1, <1>4, <1>5, Half
<1>7. h[1].f <= h[j \div 2].f
  <2>1. j \div 2 \notin T
    BY <1>1, <1>3, <1>4, <1>6
  <2> QED
    BY <1>6, <2>1
<1>8. h[j \div 2].f <= h[j].f
  BY <1>6 DEF HeapOrder
<1> QED
  BY <1>2, <1>4, <1>6, <1>7, <1>8

\* An array without duplicates has as many entries as positions.
LEMMA DistinctCount ==
  ASSUME NEW n \in Nat, NEW E, NEW h \in [1..n -> E], Distinct(h)
  PROVE  Cardinality(Range(h)) = Len(h)
<1>1. Len(h) = n
  OBVIOUS
<1>2. h \in [1..n -> Range(h)]
  BY DEF Range
<1>3. \A a, b \in 1..n : h[a] = h[b] => a = b
  BY <1>1 DEF Distinct
<1>4. \A t \in Range(h) : \E s \in 1..n : h[s] = t
  BY DEF Range
<1>5. h \in Bijection(1..n, Range(h))
  BY Zenon, <1>2, <1>3, <1>4 DEF Bijection, Injection, Surjection, IsInjective
<1>6. ExistsBijection(1..n, Range(h))
  BY Zenon, <1>5 DEF ExistsBijection
<1> QED
  BY Zenon, <1>1, <1>6, FS_CountingElements

\* heap_push adds its entry to a heap and keeps it one.
LEMMA PushedEntries ==
  ASSUME NEW E, \A x \in E : x.f \in Nat, NEW h \in Seq(E), NEW e \in E, HeapOrder(h),
         Distinct(h), e \notin Range(h), NEW r, r = heap_push(h, e)
  PROVE  /\ r \in Seq(E) /\ HeapOrder(r) /\ Distinct(r)
         /\ Len(r) = Len(h) + 1 /\ Range(r) = Range(h) \cup {e}
<1> DEFINE n == Len(h) + 1
           D == 1..n
<1>1. n \in Nat /\ n # 0 /\ h \in [1..(n - 1) -> E] /\ n \in D /\ Len(h) = n - 1
  BY SeqIsFunction
<1>2. /\ r \in [D -> E] /\ HeapOrder(r)
      /\ \E pi : /\ Permutes(D, pi)
                 /\ \A j \in D : r[j] = IF pi[j] = n THEN e ELSE h[pi[j]]
  <2>1. n = Len(h) + 1
    OBVIOUS
  <2> HIDE DEF n
  <2>2. n \in Nat
    BY <1>1
  <2>3. PushKeeps(E, h, e, n)
    BY <2>1, <2>2, Pushed
  <2> QED
    BY Zenon, <2>3 DEF PushKeeps
<1>3. PICK pi : Permutes(D, pi) /\ \A j \in D : r[j] = IF pi[j] = n THEN e ELSE h[pi[j]]
  BY <1>2
<1>4. /\ pi \in [D -> D]
      /\ \A a, b \in D : pi[a] = pi[b] => a = b
      /\ \A b \in D : \E a \in D : pi[a] = b
  BY <1>3 DEF Permutes
<1>5. r \in Seq(E) /\ Len(r) = n /\ r \in [D -> E]
  BY <1>1, <1>2
<1>6. Range(h) = {h[j] : j \in 1..(n - 1)} /\ Range(r) = {r[j] : j \in D}
  BY <1>1, <1>5 DEF Range
<1>7. \A a \in D : a # n => a \in 1..(n - 1)
  BY <1>1
<1>8. \A a \in 1..(n - 1) : a \in D /\ a # n
  BY <1>1
<1>9. \A a, b \in 1..(n - 1) : h[a] = h[b] => a = b
  BY <1>1 DEF Distinct
<1> HIDE DEF n, D
<1>10. \A j \in D : pi[j] # n => h[pi[j]] \in Range(h)
  BY <1>4, <1>6, <1>7
<1>11. ASSUME NEW a \in D, NEW b \in D, r[a] = r[b] PROVE a = b
  <2>1. pi[a] \in D /\ pi[b] \in D
    BY <1>4
  <2>2. pi[a] = pi[b]
    BY <1>3, <1>7, <1>9, <1>10, <1>11, <2>1
  <2> QED
    BY <1>4, <2>2
<1>12. Distinct(r)
  BY <1>5, <1>11 DEF Distinct, D
<1>13. ASSUME NEW y \in Range(r) PROVE y \in Range(h) \cup {e}
  BY <1>3, <1>6, <1>10
<1>14. ASSUME NEW y \in Range(h) \cup {e} PROVE y \in Range(r)
  <2>1. CASE y = e
    <3>1. PICK a \in D : pi[a] = n
      BY <1>1, <1>4
    <3> QED
      BY <1>3, <1>6, <2>1, <3>1
  <2>2. CASE y \in Range(h)
    <3>1. PICK j \in 1..(n - 1) : y = h[j]
      BY <1>6, <2>2
    <3>2. PICK a \in D : pi[a] = j
      BY <1>4, <1>8
    <3>3. r[a] = y
      BY <1>3, <1>8, <3>1, <3>2
    <3> QED
      BY <1>6, <3>3
  <2> QED
    BY <2>1, <2>2
<1>15. Range(r) = Range(h) \cup {e}
  BY <1>13, <1>14
<1>16. Len(r) = Len(h) + 1
  BY <1>5 DEF n
<1> QED
  BY <1>2, <1>5, <1>12, <1>15, <1>16

\* heap_pop takes the root from a heap and keeps it one.
LEMMA PoppedEntries ==
  ASSUME NEW E, \A x \in E : x.f \in Nat, NEW h \in Seq(E), HeapOrder(h),
         Distinct(h), h # <<>>, NEW r, r = heap_pop(h)
  PROVE  /\ r \in Seq(E) /\ HeapOrder(r) /\ Distinct(r)
         /\ Len(r) = Len(h) - 1 /\ Range(r) = Range(h) \ {h[1]} /\ h[1] \in Range(h)
<1> DEFINE n == Len(h) - 1
           D == 1..n
           m == n + 1
<1>1. n \in Nat /\ h \in [1..m -> E] /\ Len(h) = m /\ m \in 1..m /\ 1 \in 1..m
  BY SeqIsFunction
<1>2. /\ r \in [D -> E] /\ HeapOrder(r)
      /\ \E pi : /\ Permutes(D, pi)
                 /\ \A j \in D : r[j] = IF pi[j] = 1 THEN h[m] ELSE h[pi[j]]
  <2> HIDE DEF n
  <2>1. n = Len(h) - 1
    BY DEF n
  <2>2. n \in Nat
    BY <1>1
  <2>3. /\ heap_pop(h) \in [D -> E] /\ HeapOrder(heap_pop(h))
        /\ \E pi : /\ Permutes(D, pi)
                   /\ \A j \in D : heap_pop(h)[j] = IF pi[j] = 1 THEN h[n + 1] ELSE h[pi[j]]
    BY <2>1, <2>2, Popped
  <2> QED
    BY Zenon, <2>3
<1>3. PICK pi : Permutes(D, pi) /\ \A j \in D : r[j] = IF pi[j] = 1 THEN h[m] ELSE h[pi[j]]
  BY <1>2
<1>4. /\ pi \in [D -> D]
      /\ \A a, b \in D : pi[a] = pi[b] => a = b
      /\ \A b \in D : \E a \in D : pi[a] = b
  BY <1>3 DEF Permutes
<1> HIDE DEF n
<1>5. r \in Seq(E) /\ Len(r) = n /\ r \in [D -> E]
  BY <1>1, <1>2
<1>6. Range(h) = {h[j] : j \in 1..m} /\ Range(r) = {r[j] : j \in D}
  BY Zenon, <1>1, <1>5 DEF Range
<1>7. \A a \in 1..m : a = m \/ a \in D
  BY <1>1
<1>8. \A a \in D : a \in 1..m /\ a # m /\ m # 1
  BY <1>1
<1>9. \A a, b \in 1..m : h[a] = h[b] => a = b
  BY <1>1 DEF Distinct
<1>10. m # 1 => 1 \in D
  BY <1>1
<1> HIDE DEF m, D
<1> DEFINE s == [j \in D |-> IF pi[j] = 1 THEN m ELSE pi[j]]
<1>11. ASSUME NEW j \in D PROVE s[j] \in 1..m /\ s[j] # 1 /\ r[j] = h[s[j]]
  BY <1>1, <1>3, <1>4, <1>8
<1>12. ASSUME NEW a \in D, NEW b \in D, s[a] = s[b] PROVE a = b
  BY Zenon, <1>4, <1>8, <1>12
<1>13. ASSUME NEW b \in 1..m, b # 1 PROVE \E a \in D : s[a] = b
  <2>1. CASE b = m
    <3>1. PICK a \in D : pi[a] = 1
      BY <1>4, <1>10, <1>13, <2>1
    <3> QED
      BY <2>1, <3>1
  <2>2. CASE b # m
    <3>1. PICK a \in D : pi[a] = b
      BY <1>4, <1>7, <2>2
    <3> QED
      BY <1>13, <3>1
  <2> QED
    BY <2>1, <2>2
<1> HIDE DEF s
<1>14. ASSUME NEW a \in D, NEW b \in D, r[a] = r[b] PROVE a = b
  <2>1. s[a] = s[b]
    BY <1>9, <1>11, <1>14
  <2> QED
    BY <1>12, <2>1
<1>15. Distinct(r)
  BY <1>5, <1>14 DEF Distinct, D
<1>16. ASSUME NEW y \in Range(r) PROVE y \in Range(h) \ {h[1]}
  <2>1. PICK j \in D : y = r[j]
    BY <1>6
  <2>2. s[j] \in 1..m /\ s[j] # 1 /\ y = h[s[j]]
    BY <1>11, <2>1
  <2> QED
    BY <1>1, <1>6, <1>9, <2>2
<1>17. ASSUME NEW y \in Range(h) \ {h[1]} PROVE y \in Range(r)
  <2>1. PICK b \in 1..m : y = h[b]
    BY <1>6
  <2>2. b # 1
    BY <1>17, <2>1
  <2>3. PICK a \in D : s[a] = b
    BY <1>13, <2>2
  <2>4. y = r[a]
    BY <1>11, <2>1, <2>3
  <2> QED
    BY <1>6, <2>4
<1>18. Range(r) = Range(h) \ {h[1]}
  BY <1>16, <1>17
<1>19. Len(r) = Len(h) - 1 /\ h[1] \in Range(h)
  BY <1>1, <1>5, <1>6 DEF n
<1> QED
  BY <1>2, <1>5, <1>15, <1>18, <1>19
==============================================================================
