--------------------------- MODULE GoalPoolProofs ---------------------------
(***************************************************************************)
(* The goal-pool auction, for any number of nodes and goals, any scores    *)
(* and margin, and records that arrive late, again and in any order.       *)
(***************************************************************************)
EXTENDS GoalPool, TLAPS

-----------------------------------------------------------------------------
(* Sequences of writes *)

AnyWrite == [kind : {"goal", "claim"}, task : Task, val : {Open, Tombstone} \cup Bid]

LEMMA Concatenated ==
  ASSUME NEW S, NEW s \in Seq(S), NEW a \in S, NEW b \in S
  PROVE  /\ <<a>> = Append(<<>>, a)
         /\ s \o <<>> = s
         /\ s \o <<a>> = Append(s, a)
         /\ s \o <<a, b>> = Append(Append(s, a), b)
         /\ <<>> \o <<a>> = <<a>>
<1>1. <<a>> = Append(<<>>, a) /\ <<>> \o <<a>> = <<a>>
  OBVIOUS
<1>2. s \o <<>> = s
  OBVIOUS
<1>3. s \o <<a>> = Append(s, a)
  OBVIOUS
<1>4. s \o <<a, b>> = Append(Append(s, a), b)
  <2> DEFINE l == s \o <<a, b>>
             r == Append(Append(s, a), b)
  <2>1. l \in Seq(S) /\ Len(l) = Len(s) + 2
    OBVIOUS
  <2>2. r \in Seq(S) /\ Len(r) = Len(s) + 2
    OBVIOUS
  <2>3. ASSUME NEW i \in 1..(Len(s) + 2) PROVE l[i] = r[i]
    OBVIOUS
  <2> QED
    BY <2>1, <2>2, <2>3
<1> QED
  BY <1>1, <1>2, <1>3, <1>4

\* Of several writes to a record the last one counts.
LEMMA StampedAppend ==
  ASSUME NEW n \in Node, NEW base \in Nat, NEW w \in Seq(AnyWrite), Len(w) <= 3,
         NEW x \in AnyWrite, NEW kind \in {"goal", "claim"}, NEW records
  PROVE  Stamped(n, base, Append(w, x), kind, records) =
           [t \in Task |->
              IF x.kind = kind /\ x.task = t
              THEN [ts |-> base + (Len(w) + 1), origin |-> n, val |-> x.val]
              ELSE Stamped(n, base, w, kind, records)[t]]
<1> DEFINE y == Append(w, x)
           Of(v, t) == {i \in DOMAIN v : v[i].kind = kind /\ v[i].task = t}
           last(m) == CHOOSE i \in m : \A j \in m : j <= i
           Value(v, t) == IF Of(v, t) = {} THEN records[t]
                          ELSE [ts |-> base + last(Of(v, t)), origin |-> n,
                                val |-> v[last(Of(v, t))].val]
<1>1. /\ Stamped(n, base, y, kind, records) = [t \in Task |-> Value(y, t)]
      /\ Stamped(n, base, w, kind, records) = [t \in Task |-> Value(w, t)]
  BY DEF Stamped
<1>2. /\ Len(w) \in 0..3 /\ DOMAIN w = 1..Len(w) /\ DOMAIN y = 1..(Len(w) + 1)
      /\ y[Len(w) + 1] = x /\ \A i \in 1..Len(w) : y[i] = w[i]
  <2>0. Len(w) \in Nat /\ DOMAIN w = 1..Len(w) /\ y \in Seq(AnyWrite)
    OBVIOUS
  <2>1. Len(w) \in 0..3
    BY <2>0
  <2>2. Len(y) = Len(w) + 1
    OBVIOUS
  <2>3. y[Len(w) + 1] = x /\ \A i \in 1..Len(w) : y[i] = w[i]
    OBVIOUS
  <2> QED
    BY <2>0, <2>1, <2>2, <2>3
<1> HIDE DEF Value
<1> SUFFICES ASSUME NEW t \in Task
             PROVE  Value(y, t) =
                      IF x.kind = kind /\ x.task = t
                      THEN [ts |-> base + (Len(w) + 1), origin |-> n, val |-> x.val]
                      ELSE Value(w, t)
  BY <1>1
<1> USE DEF Value
<1> HIDE DEF y
<1>3. CASE x.kind = kind /\ x.task = t
  <2>1. Len(w) + 1 \in Of(y, t) /\ \A j \in Of(y, t) : j <= Len(w) + 1
    BY <1>2, <1>3
  <2>2. Of(y, t) \subseteq Nat
    BY <1>2
  <2> DEFINE m == Of(y, t)
  <2> HIDE DEF m
  <2>3. last(m) = Len(w) + 1
    BY <1>2, <2>1, <2>2 DEF m
  <2> QED
    <3>1. Of(y, t) # {} /\ Value(y, t) = [ts |-> base + last(m), origin |-> n, val |-> y[last(m)].val]
      BY Zenon, <2>1 DEF m
    <3>2. y[last(m)].val = x.val
      BY Zenon, <1>2, <2>3
    <3> QED
      BY Zenon, <1>3, <2>3, <3>1, <3>2
<1>4. CASE ~(x.kind = kind /\ x.task = t)
  <2>1. Of(y, t) = Of(w, t)
    BY <1>2, <1>4
  <2>2. CASE Of(w, t) = {}
    BY Zenon, <1>4, <2>1, <2>2
  <2>3. CASE Of(w, t) # {}
    <3> DEFINE m == Of(w, t)
    <3>1. m \subseteq 1..3 /\ m # {} /\ m \subseteq 1..Len(w)
      BY <1>2, <2>3
    <3> HIDE DEF m
    <3>2. \E i \in m : \A j \in m : j <= i
      <4>1. CASE 3 \in m
        BY <3>1, <4>1
      <4>2. CASE 3 \notin m /\ 2 \in m
        BY <3>1, <4>2
      <4>3. CASE 3 \notin m /\ 2 \notin m
        <5>1. ASSUME NEW j \in m PROVE j = 1
          <6>1. j \in 1..3 /\ j # 2 /\ j # 3
            BY <3>1, <4>3
          <6> QED
            BY <6>1
        <5>2. 1 \in m
          BY Zenon, <3>1, <5>1
        <5> QED
          BY <5>1, <5>2
      <4> QED
        BY <4>1, <4>2, <4>3
    <3>3. last(m) \in m
      BY <3>2
    <3>4. y[last(m)] = w[last(m)]
      BY Zenon, <1>2, <3>1, <3>3
    <3> QED
      BY Zenon, <1>4, <2>1, <2>3, <3>4 DEF m
  <2> QED
    BY Zenon, <2>2, <2>3
<1> QED
  BY Zenon, <1>3, <1>4 DEF y

LEMMA StampedEmpty ==
  ASSUME NEW n, NEW base, NEW kind, NEW records
  PROVE  Stamped(n, base, <<>>, kind, records) = [t \in Task |-> records[t]]
  BY DEF Stamped

-----------------------------------------------------------------------------
(* The inductive invariant *)

\* A clock is never behind a record of its node.
StampsPast ==
  \A n \in Node, t \in Task :
    pool[n][t].ts <= clock[n] /\ claim[n][t].ts <= clock[n]

\* A version of a mission goal: the one posting, or a deletion after it.
PostedOnce(v) ==
  /\ v.val = Open => v.ts = 1 /\ v.origin = 1
  /\ v.val = Tombstone => v.ts = 0 \/ v.ts > 1

GoalsPostedOnce ==
  \A g \in Goal :
    /\ \A n \in Node : PostedOnce(pool[n][g])
    /\ \A r \in sent : r.kind = "goal" /\ r.task = g => PostedOnce(r.ver)

\* Of version v of a claim node n made, n has this one or a later one.
Outdated(v, n, t) ==
  Record!Live(v) /\ v.val.owner = n => ~Record!Supersedes(v, claim[n][t])

\* Nobody has a newer version of a node's claim than the node itself.
OwnClaimsNewest ==
  \A n \in Node :
    /\ \A m \in Node, t \in Task : Outdated(claim[m][t], n, t)
    /\ \A r \in sent : r.kind = "claim" => Outdated(r.ver, n, r.task)

\* Nobody has a newer version of a node's prerequisite than the node itself.
PrerequisitesNewest ==
  \A n \in Node :
    /\ \A m \in Node :
         ~Record!Supersedes(pool[m][Prerequisite(n)], pool[n][Prerequisite(n)])
    /\ \A r \in sent :
         r.kind = "goal" /\ r.task = Prerequisite(n)
           => ~Record!Supersedes(r.ver, pool[n][Prerequisite(n)])

\* A node claims what it has seen posted, and its prerequisite while it is open;
\* never that of another node.
ClaimsPosted ==
  \A n \in Node :
    /\ \A g \in Goal : OwnClaim(n, g) => pool[n][g].ts > 0
    /\ OwnClaim(n, Prerequisite(n)) => Record!Live(pool[n][Prerequisite(n)])
    /\ \A m \in Node \ {n} : ~OwnClaim(n, Prerequisite(m))

Inv ==
  /\ TypeOK
  /\ StampsPast
  /\ GoalsPostedOnce
  /\ OwnClaimsNewest
  /\ PrerequisitesNewest
  /\ ClaimsPosted
  /\ NoStrayClaim

-----------------------------------------------------------------------------
(* What a brain tick may do to the records of its node *)

\* Version v was written in this tick, which ends with the clock at top.
Fresh(n, top, v) == v.ts > clock[n] /\ v.ts <= top /\ v.origin = n

\* A goal is left alone, found done, or it is the node's own prerequisite.
GoalEffect(n, top, goals) ==
  \A t \in Task :
    \/ goals[t] = pool[n][t]
    \/ /\ Fresh(n, top, goals[t])
       /\ \/ t \in Goal /\ Record!Live(pool[n][t]) /\ goals[t].val = Tombstone
          \/ t = Prerequisite(n)

\* A claim is left alone, unless it was held and is not any more; or released;
\* or made on the key that is held afterwards.
ClaimEffect(n, top, key, claims) ==
  \A t \in Task :
    \/ /\ claims[t] = claim[n][t]
       /\ HaveCurrent(n) /\ t = held[n] => key = t
    \/ /\ Fresh(n, top, claims[t])
       /\ \/ ~Record!Live(claims[t])
          \/ t = key /\ claims[t].val.owner = n

Effect(n, top, key, goals, claims) ==
  /\ top \in Nat /\ top >= clock[n]
  /\ key \in Goal \cup {Prerequisite(n), None}
  /\ goals \in [Task -> GoalVersion]
  /\ claims \in [Task -> ClaimVersion]
  /\ GoalEffect(n, top, goals)
  /\ ClaimEffect(n, top, key, claims)
  /\ key # None => Record!Live(goals[key])
  /\ LET pre == Prerequisite(n) IN
       ~Record!Live(goals[pre]) /\ goals[pre] # pool[n][pre] => ~Record!Live(claims[pre])

Tick(n, top, key, goals, claims) ==
  /\ Effect(n, top, key, goals, claims)
  /\ clock' = [clock EXCEPT ![n] = top]
  /\ held' = [held EXCEPT ![n] = key]
  /\ pool' = [pool EXCEPT ![n] = goals]
  /\ claim' = [claim EXCEPT ![n] = claims]
  /\ \A r \in sent' :
       \/ r \in sent
       \/ \E t \in Task : \/ r = [kind |-> "goal", task |-> t, ver |-> goals[t]]
                          \/ r = [kind |-> "claim", task |-> t, ver |-> claims[t]]
  /\ dropped' \in [Node -> SUBSET Task]
  /\ \A m \in Node \ {n} : dropped'[m] = dropped[m]
  /\ \A t \in dropped[n] \cup Rejected(n) :
       t \in dropped'[n] \/ t = key \/ ~Record!Live(claims[t])
  /\ spent' \in [Budget -> Nat]
  /\ ready' \subseteq Node
  /\ UNCHANGED mission

LEMMA Names ==
  ASSUME NEW n \in Node
  PROVE  /\ n \in Nat \ {0}
         /\ Prerequisite(n) \in Task /\ Prerequisite(n) \notin Goal
         /\ \A m \in Node : Prerequisite(m) = Prerequisite(n) => m = n
         /\ \A t \in Task : t \in Goal \/ \E m \in Node : t = Prerequisite(m)
  BY NodeAssumption, NamesAssumption DEF Task, Prerequisite

LEMMA TickTypes ==
  ASSUME TypeOK, NEW n \in Node, NEW top, NEW key, NEW goals, NEW claims,
         Tick(n, top, key, goals, claims)
  PROVE  TypeOK'
<1>1. pool' \in [Node -> [Task -> GoalVersion]] /\ claim' \in [Node -> [Task -> ClaimVersion]]
  BY DEF TypeOK, Tick, Effect
<1>2. clock' \in [Node -> Nat] /\ held' \in [Node -> Task \cup {None}]
  <2>1. key \in Task \cup {None}
    BY Zenon, Names DEF Tick, Effect, Task
  <2> QED
    BY <2>1 DEF TypeOK, Tick, Effect
<1>3. sent' \subseteq [kind : {"goal"}, task : Task, ver : GoalVersion]
                      \cup [kind : {"claim"}, task : Task, ver : ClaimVersion]
  <2> SUFFICES ASSUME NEW r \in sent'
               PROVE  r \in [kind : {"goal"}, task : Task, ver : GoalVersion]
                            \cup [kind : {"claim"}, task : Task, ver : ClaimVersion]
    OBVIOUS
  <2>1. CASE r \in sent
    BY <2>1 DEF TypeOK
  <2>2. ASSUME NEW t \in Task, r = [kind |-> "goal", task |-> t, ver |-> goals[t]]
        PROVE  r \in [kind : {"goal"}, task : Task, ver : GoalVersion]
    <3>1. goals[t] \in GoalVersion
      BY DEF Tick, Effect
    <3> QED
      BY <2>2, <3>1
  <2>3. ASSUME NEW t \in Task, r = [kind |-> "claim", task |-> t, ver |-> claims[t]]
        PROVE  r \in [kind : {"claim"}, task : Task, ver : ClaimVersion]
    <3>1. claims[t] \in ClaimVersion
      BY DEF Tick, Effect
    <3> QED
      BY <2>3, <3>1
  <2> QED
    BY <2>1, <2>2, <2>3 DEF Tick
<1>4. /\ ready' \subseteq Node /\ alive' \subseteq Node /\ fit' \in [Node -> SUBSET Goal]
      /\ score' \in [Node -> [Goal -> Scores]] /\ silent' \in [Node -> SUBSET Node]
      /\ dropped' \in [Node -> SUBSET Task] /\ spent' \in [Budget -> Nat]
  BY Zenon DEF TypeOK, Tick, mission
<1> QED
  BY <1>1, <1>2, <1>3, <1>4 DEF TypeOK

\* What the steps below use of a tick, record by record.
LEMMA TickRecords ==
  ASSUME TypeOK, StampsPast, NEW n \in Node, NEW top, NEW key, NEW goals, NEW claims,
         Tick(n, top, key, goals, claims)
  PROVE  /\ \A m \in Node \ {n} : /\ pool'[m] = pool[m] /\ claim'[m] = claim[m]
                                  /\ clock'[m] = clock[m] /\ held'[m] = held[m]
         /\ pool'[n] = goals /\ claim'[n] = claims /\ clock'[n] = top /\ held'[n] = key
         /\ \A t \in Task : /\ goals[t] = pool[n][t] \/ goals[t].ts > pool[n][t].ts
                            /\ claims[t] = claim[n][t] \/ claims[t].ts > claim[n][t].ts
                            /\ goals[t].ts <= top /\ claims[t].ts <= top
<1>1. /\ \A m \in Node \ {n} : /\ pool'[m] = pool[m] /\ claim'[m] = claim[m]
                               /\ clock'[m] = clock[m] /\ held'[m] = held[m]
      /\ pool'[n] = goals /\ claim'[n] = claims /\ clock'[n] = top /\ held'[n] = key
  BY Zenon DEF TypeOK, Tick
<1>2. ASSUME NEW t \in Task
      PROVE  /\ goals[t] = pool[n][t] \/ goals[t].ts > pool[n][t].ts
             /\ claims[t] = claim[n][t] \/ claims[t].ts > claim[n][t].ts
             /\ goals[t].ts <= top /\ claims[t].ts <= top
  <2>1. /\ pool[n][t].ts \in Nat /\ claim[n][t].ts \in Nat /\ clock[n] \in Nat /\ top \in Nat
        /\ goals[t].ts \in Nat /\ claims[t].ts \in Nat /\ clock[n] <= top
        /\ pool[n][t].ts <= clock[n] /\ claim[n][t].ts <= clock[n]
    BY DEF TypeOK, StampsPast, Tick, Effect, GoalVersion, ClaimVersion
  <2>2. goals[t] = pool[n][t] \/ (goals[t].ts > clock[n] /\ goals[t].ts <= top)
    BY Zenon DEF Tick, Effect, GoalEffect, Fresh
  <2>3. claims[t] = claim[n][t] \/ (claims[t].ts > clock[n] /\ claims[t].ts <= top)
    BY Zenon DEF Tick, Effect, ClaimEffect, Fresh
  <2> QED
    BY <2>1, <2>2, <2>3
<1> QED
  BY Zenon, <1>1, <1>2

LEMMA TickStamps ==
  ASSUME TypeOK, StampsPast, NEW n \in Node, NEW top, NEW key, NEW goals, NEW claims,
         Tick(n, top, key, goals, claims)
  PROVE  StampsPast'
<1> SUFFICES ASSUME NEW m \in Node, NEW t \in Task
             PROVE  pool'[m][t].ts <= clock'[m] /\ claim'[m][t].ts <= clock'[m]
  BY Zenon DEF StampsPast
<1>1. CASE m = n
  BY <1>1, TickRecords
<1>2. CASE m # n
  <2>1. pool'[m] = pool[m] /\ claim'[m] = claim[m] /\ clock'[m] = clock[m]
    BY <1>2, TickRecords
  <2> QED
    BY Zenon, <2>1 DEF StampsPast
<1> QED
  BY <1>1, <1>2

LEMMA TickPostedOnce ==
  ASSUME Inv, NEW n \in Node, NEW top, NEW key, NEW goals, NEW claims,
         Tick(n, top, key, goals, claims)
  PROVE  GoalsPostedOnce'
<1> SUFFICES ASSUME NEW g \in Goal
             PROVE  /\ \A m \in Node : PostedOnce(pool'[m][g])
                    /\ \A r \in sent' : r.kind = "goal" /\ r.task = g => PostedOnce(r.ver)
  BY DEF GoalsPostedOnce
<1> USE DEF Inv
<1>1. g \in Task /\ g # Prerequisite(n)
  BY Names DEF Task
<1>2. PostedOnce(goals[g])
  <2>1. PostedOnce(pool[n][g]) /\ pool[n][g] \in GoalVersion /\ goals[g] \in GoalVersion
    BY Zenon, <1>1 DEF GoalsPostedOnce, TypeOK, Tick, Effect
  <2>2. CASE goals[g] = pool[n][g]
    BY <2>1, <2>2
  <2>3. CASE goals[g] # pool[n][g]
    <3>1. Record!Live(pool[n][g]) /\ goals[g].val = Tombstone
      BY Zenon, <1>1, <2>3 DEF Tick, Effect, GoalEffect
    <3>2. pool[n][g].ts = 1
      BY Zenon, <2>1, <3>1 DEF PostedOnce, GoalVersion, Record!Live
    <3>3. goals[g].ts > pool[n][g].ts
      BY <1>1, <2>3, TickRecords
    <3>4. Open # Tombstone
      BY Zenon, NamesAssumption
    <3> QED
      BY Zenon, <3>1, <3>2, <3>3, <3>4 DEF PostedOnce
  <2> QED
    BY Zenon, <2>2, <2>3
<1>3. ASSUME NEW m \in Node PROVE PostedOnce(pool'[m][g])
  BY <1>2, TickRecords DEF GoalsPostedOnce
<1>4. ASSUME NEW r \in sent', r.kind = "goal", r.task = g PROVE PostedOnce(r.ver)
  <2>1. CASE r \in sent
    BY <1>4, <2>1 DEF GoalsPostedOnce
  <2>2. CASE r \notin sent
    <3>1. r.ver = goals[g]
      BY <1>4, <2>2 DEF Tick
    <3> QED
      BY Zenon, <1>2, <3>1
  <2> QED
    BY <2>1, <2>2
<1> QED
  BY <1>3, <1>4

\* A version that does not supersede another does not supersede a newer one.
LEMMA StillOutdated ==
  ASSUME NEW v, NEW a, NEW b, v.ts \in Nat, a.ts \in Nat, b.ts \in Nat,
         v.origin \in Nat, a.origin \in Nat, b.origin \in Nat,
         b = a \/ b.ts > a.ts, ~Record!Supersedes(v, a)
  PROVE  ~Record!Supersedes(v, b)
  BY DEF Record!Supersedes

LEMMA TickOwnClaims ==
  ASSUME Inv, NEW n \in Node, NEW top, NEW key, NEW goals, NEW claims,
         Tick(n, top, key, goals, claims)
  PROVE  OwnClaimsNewest'
<1> SUFFICES ASSUME NEW k \in Node
             PROVE  /\ \A m \in Node, t \in Task : Outdated(claim[m][t], k, t)'
                    /\ \A r \in sent' : r.kind = "claim" => Outdated(r.ver, k, r.task)'
  BY Zenon DEF OwnClaimsNewest
<1> USE DEF Inv
<1>1. ASSUME NEW v \in ClaimVersion, NEW t \in Task, Outdated(v, k, t)
      PROVE  Record!Live(v) /\ v.val.owner = k => ~Record!Supersedes(v, claim'[k][t])
  <2>1. claim'[k][t] = claim[k][t] \/ claim'[k][t].ts > claim[k][t].ts
    BY TickRecords
  <2>2. claim[k][t] \in ClaimVersion /\ claim'[k][t] \in ClaimVersion
    BY TickTypes DEF TypeOK
  <2> QED
    BY Zenon, <1>1, <2>1, <2>2, StillOutdated DEF ClaimVersion, Outdated
<1>2. ASSUME NEW t \in Task
      PROVE  Record!Live(claims[t]) /\ claims[t].val.owner = k
               => ~Record!Supersedes(claims[t], claim'[k][t])
  <2>1. claims[t] \in ClaimVersion /\ claim[n][t] \in ClaimVersion /\ claim'[n][t] = claims[t]
    <3>1. claims[t] \in ClaimVersion
      BY Zenon DEF Tick, Effect
    <3>2. claim[n][t] \in ClaimVersion
      <4>1. claim \in [Node -> [Task -> ClaimVersion]]
        BY Zenon DEF TypeOK
      <4> HIDE DEF Inv
      <4> QED
        BY Zenon, <4>1
    <3>3. claim'[n] = claims
      BY TickRecords
    <3> QED
      BY Zenon, <3>1, <3>2, <3>3
  <2>2. CASE k = n
    BY <2>1, <2>2 DEF Record!Supersedes, ClaimVersion
  <2>3. CASE k # n /\ claims[t] = claim[n][t]
    <3>1. Outdated(claims[t], k, t)
      BY Zenon, <2>3 DEF OwnClaimsNewest
    <3> QED
      BY <1>1, <2>1, <3>1
  <2>4. CASE k # n /\ claims[t] # claim[n][t]
    BY Zenon, <2>4 DEF Tick, Effect, ClaimEffect
  <2> QED
    BY <2>2, <2>3, <2>4
<1>3. ASSUME NEW m \in Node, NEW t \in Task
      PROVE  Record!Live(claim'[m][t]) /\ claim'[m][t].val.owner = k
               => ~Record!Supersedes(claim'[m][t], claim'[k][t])
  <2>1. CASE m = n
    BY <1>2, <2>1, TickRecords
  <2>2. CASE m # n
    <3>1. claim'[m][t] = claim[m][t] /\ claim[m][t] \in ClaimVersion
      BY <2>2, TickRecords DEF TypeOK
    <3>2. Outdated(claim[m][t], k, t)
      BY Zenon DEF OwnClaimsNewest
    <3> QED
      BY Zenon, <1>1, <3>1, <3>2
  <2> QED
    BY Zenon, <2>1, <2>2
<1>4. ASSUME NEW r \in sent', r.kind = "claim"
      PROVE  Record!Live(r.ver) /\ r.ver.val.owner = k
               => ~Record!Supersedes(r.ver, claim'[k][r.task])
  <2>1. CASE r \in sent
    <3>1. r.ver \in ClaimVersion /\ r.task \in Task
      BY Zenon, <1>4, <2>1 DEF TypeOK
    <3>2. Outdated(r.ver, k, r.task)
      BY Zenon, <1>4, <2>1 DEF OwnClaimsNewest
    <3> QED
      BY <1>1, <3>1, <3>2
  <2>2. CASE r \notin sent
    <3>1. PICK t \in Task : r.task = t /\ r.ver = claims[t]
      BY <1>4, <2>2 DEF Tick
    <3> QED
      BY Zenon, <1>2, <3>1
  <2> QED
    BY Zenon, <2>1, <2>2
<1> QED
  BY <1>3, <1>4 DEF Outdated

LEMMA TickPrerequisites ==
  ASSUME Inv, NEW n \in Node, NEW top, NEW key, NEW goals, NEW claims,
         Tick(n, top, key, goals, claims)
  PROVE  PrerequisitesNewest'
<1> SUFFICES ASSUME NEW k \in Node
             PROVE  LET pre == Prerequisite(k) IN
                    /\ \A m \in Node : ~Record!Supersedes(pool'[m][pre], pool'[k][pre])
                    /\ \A r \in sent' : r.kind = "goal" /\ r.task = pre
                                          => ~Record!Supersedes(r.ver, pool'[k][pre])
  BY DEF PrerequisitesNewest
<1> DEFINE pre == Prerequisite(k)
<1> USE DEF Inv
<1>1. pre \in Task
  BY Zenon, Names
<1>2. ASSUME NEW v \in GoalVersion, ~Record!Supersedes(v, pool[k][pre])
      PROVE  ~Record!Supersedes(v, pool'[k][pre])
  <2>1. pool'[k][pre] = pool[k][pre] \/ pool'[k][pre].ts > pool[k][pre].ts
    BY <1>1, TickRecords
  <2>2. pool[k][pre] \in GoalVersion /\ pool'[k][pre] \in GoalVersion
    BY <1>1, TickTypes DEF TypeOK
  <2> HIDE DEF pre
  <2> QED
    BY Zenon, <1>2, <2>1, <2>2, StillOutdated DEF GoalVersion
<1>3. ~Record!Supersedes(goals[pre], pool'[k][pre])
  <2>1. goals[pre] \in GoalVersion /\ pool'[n][pre] = goals[pre]
    <3>1. goals[pre] \in GoalVersion
      BY Zenon, <1>1 DEF Tick, Effect
    <3>2. pool'[n] = goals
      BY TickRecords
    <3> QED
      BY Zenon, <3>1, <3>2
  <2>2. CASE k = n
    BY <2>1, <2>2 DEF Record!Supersedes, GoalVersion
  <2>3. CASE k # n
    <3>1. goals[pre] = pool[n][pre]
      BY Zenon, <1>1, <2>3, Names DEF Tick, Effect, GoalEffect
    <3>2. ~Record!Supersedes(pool[n][pre], pool[k][pre])
      BY DEF PrerequisitesNewest
    <3> QED
      BY Zenon, <1>2, <2>1, <3>1, <3>2
  <2> QED
    BY <2>2, <2>3
<1>4. ASSUME NEW m \in Node PROVE ~Record!Supersedes(pool'[m][pre], pool'[k][pre])
  <2>1. CASE m = n
    BY <1>3, <2>1, TickRecords
  <2>2. CASE m # n
    <3>1. pool'[m][pre] = pool[m][pre] /\ pool[m][pre] \in GoalVersion
      BY <1>1, <2>2, TickRecords DEF TypeOK
    <3>2. ~Record!Supersedes(pool[m][pre], pool[k][pre])
      BY DEF PrerequisitesNewest
    <3> QED
      BY Zenon, <1>2, <3>1, <3>2
  <2> QED
    BY Zenon, <2>1, <2>2
<1>5. ASSUME NEW r \in sent', r.kind = "goal", r.task = pre
      PROVE  ~Record!Supersedes(r.ver, pool'[k][pre])
  <2>1. CASE r \in sent
    <3>1. r.ver \in GoalVersion
      BY Zenon, <1>5, <2>1 DEF TypeOK
    <3>2. ~Record!Supersedes(r.ver, pool[k][pre])
      BY Zenon, <1>5, <2>1 DEF PrerequisitesNewest
    <3> QED
      BY Zenon, <1>2, <3>1, <3>2
  <2>2. CASE r \notin sent
    <3>1. r.ver = goals[pre]
      BY <1>5, <2>2 DEF Tick
    <3> QED
      BY Zenon, <1>3, <3>1
  <2> QED
    BY Zenon, <2>1, <2>2
<1> QED
  BY Zenon, <1>4, <1>5

\* A claim the node owns after a tick was owned before, or is on the held key.
LEMMA TickOwnClaim ==
  ASSUME Inv, NEW n \in Node, NEW top, NEW key, NEW goals, NEW claims,
         Tick(n, top, key, goals, claims), NEW t \in Task,
         Record!Live(claims[t]), claims[t].val.owner = n
  PROVE  \/ t = key /\ Record!Live(goals[t])
         \/ /\ OwnClaim(n, t)
            /\ HaveCurrent(n) /\ t = held[n] => key = t
<1>1. t # None
  BY Zenon, NamesAssumption
<1>2. CASE claims[t] = claim[n][t]
  BY Zenon, <1>2 DEF OwnClaim, Tick, Effect, ClaimEffect
<1>3. CASE claims[t] # claim[n][t]
  BY Zenon, <1>1, <1>3 DEF Tick, Effect, ClaimEffect
<1> QED
  BY <1>2, <1>3

LEMMA TickClaimsPosted ==
  ASSUME Inv, NEW n \in Node, NEW top, NEW key, NEW goals, NEW claims,
         Tick(n, top, key, goals, claims)
  PROVE  ClaimsPosted'
<1> SUFFICES ASSUME NEW m \in Node
             PROVE  /\ \A g \in Goal : OwnClaim(m, g)' => pool'[m][g].ts > 0
                    /\ OwnClaim(m, Prerequisite(m))' => Record!Live(pool'[m][Prerequisite(m)])
                    /\ \A k \in Node \ {m} : ~OwnClaim(m, Prerequisite(k))'
  BY Zenon DEF ClaimsPosted
<1> USE DEF Inv
<1>1. CASE m # n
  <2>1. pool'[m] = pool[m] /\ claim'[m] = claim[m]
    BY Zenon, <1>1, TickRecords
  <2> QED
    BY Zenon, <2>1 DEF ClaimsPosted, OwnClaim
<1>2. CASE m = n
  <2>1. pool'[n] = goals /\ claim'[n] = claims
    BY TickRecords
  <2>2. ASSUME NEW g \in Goal, Record!Live(claims[g]), claims[g].val.owner = n
        PROVE  goals[g].ts > 0
    <3>1. g \in Task
      BY Zenon DEF Task
    <3>2. CASE Record!Live(goals[g])
      <4>1. PostedOnce(goals[g]) /\ goals[g] \in GoalVersion
        <5>1. PostedOnce(pool'[n][g])
          BY Zenon, TickPostedOnce DEF GoalsPostedOnce
        <5>2. goals[g] \in GoalVersion
          BY Zenon, <3>1 DEF Tick, Effect
        <5> QED
          BY Zenon, <2>1, <5>1, <5>2
      <4> QED
        BY <3>2, <4>1 DEF PostedOnce, GoalVersion, Record!Live
    <3>3. CASE OwnClaim(n, g)
      <4>1. pool[n][g].ts > 0 /\ pool[n][g].ts \in Nat /\ goals[g].ts \in Nat
        <5>1. pool[n][g].ts > 0
          BY Zenon, <3>3 DEF ClaimsPosted
        <5>2. pool[n][g] \in GoalVersion /\ goals[g] \in GoalVersion
          BY Zenon, <3>1 DEF TypeOK, Tick, Effect
        <5> QED
          BY Zenon, <5>1, <5>2 DEF GoalVersion
      <4>2. goals[g] = pool[n][g] \/ goals[g].ts > pool[n][g].ts
        BY Zenon, <3>1, TickRecords
      <4> QED
        BY <4>1, <4>2
    <3> QED
      BY <2>2, <3>1, <3>2, <3>3, TickOwnClaim
  <2>3. ASSUME Record!Live(claims[Prerequisite(n)]), claims[Prerequisite(n)].val.owner = n
        PROVE  Record!Live(goals[Prerequisite(n)])
    <3>1. Prerequisite(n) \in Task
      BY Zenon, Names
    <3>2. CASE OwnClaim(n, Prerequisite(n))
      <4>1. Record!Live(pool[n][Prerequisite(n)])
        BY Zenon, <3>2 DEF ClaimsPosted
      <4> QED
        BY Zenon, <2>3, <4>1 DEF Tick, Effect
    <3> QED
      BY Zenon, <2>3, <3>1, <3>2, TickOwnClaim
  <2>4. ASSUME NEW k \in Node \ {n},
               Record!Live(claims[Prerequisite(k)]), claims[Prerequisite(k)].val.owner = n
        PROVE  FALSE
    <3>1. Prerequisite(k) \in Task /\ Prerequisite(k) # Prerequisite(n) /\ Prerequisite(k) \notin Goal
      BY Zenon, Names
    <3>2. Prerequisite(k) # key
      BY Zenon, <3>1, NamesAssumption DEF Tick, Effect
    <3>3. OwnClaim(n, Prerequisite(k))
      BY Zenon, <2>4, <3>1, <3>2, TickOwnClaim
    <3> QED
      BY Zenon, <3>3 DEF ClaimsPosted
  <2> QED
    BY Zenon, <1>2, <2>1, <2>2, <2>3, <2>4 DEF OwnClaim
<1> QED
  BY Zenon, <1>1, <1>2

LEMMA TickNoStray ==
  ASSUME Inv, NEW n \in Node, NEW top, NEW key, NEW goals, NEW claims,
         Tick(n, top, key, goals, claims)
  PROVE  NoStrayClaim'
<1> SUFFICES ASSUME NEW m \in Node, NEW t \in Task,
                    Record!Live(pool'[m][t]), OwnClaim(m, t)'
             PROVE  held'[m] = t \/ t \in dropped'[m]
  BY Zenon DEF NoStrayClaim
<1> USE DEF Inv
<1>1. CASE m # n
  <2>1. pool'[m] = pool[m] /\ claim'[m] = claim[m] /\ held'[m] = held[m]
    BY <1>1, TickRecords
  <2>2. dropped'[m] = dropped[m]
    BY Zenon, <1>1 DEF Tick
  <2> QED
    BY Zenon, <2>1, <2>2 DEF NoStrayClaim, OwnClaim
<1>2. CASE m = n
  <2>1. pool'[n] = goals /\ claim'[n] = claims /\ held'[n] = key
    BY TickRecords
  <2>2. Record!Live(goals[t]) /\ Record!Live(claims[t]) /\ claims[t].val.owner = n
    BY Zenon, <1>2, <2>1 DEF OwnClaim
  <2>3. CASE OwnClaim(n, t) /\ (HaveCurrent(n) /\ t = held[n] => key = t)
    <3>1. Record!Live(pool[n][t])
      <4>1. CASE goals[t] = pool[n][t]
        BY <2>2, <4>1
      <4>2. CASE t = Prerequisite(n)
        BY Zenon, <2>3, <4>2 DEF ClaimsPosted
      <4> QED
        BY Zenon, <2>2, <4>1, <4>2 DEF Tick, Effect, GoalEffect, Record!Live
    <3>2. t \in dropped[n] \/ t = held[n]
      BY Zenon, <2>3, <3>1 DEF NoStrayClaim
    <3>3. CASE t = held[n]
      <4>1. t # None
        BY Zenon, NamesAssumption
      <4>2. HaveCurrent(n) \/ t \in Rejected(n)
        BY Zenon, <2>3, <3>1, <3>3, <4>1 DEF HaveCurrent, Rejected
      <4> QED
        BY Zenon, <1>2, <2>1, <2>2, <2>3, <3>3, <4>2 DEF Tick
    <3>4. CASE t \in dropped[n]
      BY Zenon, <1>2, <2>1, <2>2, <3>4 DEF Tick
    <3> QED
      BY Zenon, <3>2, <3>3, <3>4
  <2> QED
    <3>1. \/ t = key
          \/ OwnClaim(n, t) /\ (HaveCurrent(n) /\ t = held[n] => key = t)
      BY Zenon, <2>2, TickOwnClaim
    <3> QED
      BY Zenon, <1>2, <2>1, <2>3, <3>1
<1> QED
  BY Zenon, <1>1, <1>2

LEMMA TickKeeps ==
  ASSUME Inv, NEW n \in Node, NEW top, NEW key, NEW goals, NEW claims,
         Tick(n, top, key, goals, claims)
  PROVE  Inv'
<1>1. TypeOK' /\ StampsPast'
  BY TickTypes, TickStamps DEF Inv
<1>2. GoalsPostedOnce' /\ OwnClaimsNewest'
  BY Zenon, TickPostedOnce, TickOwnClaims
<1>3. PrerequisitesNewest' /\ ClaimsPosted' /\ NoStrayClaim'
  BY Zenon, TickPrerequisites, TickClaimsPosted, TickNoStray
<1> QED
  BY <1>1, <1>2, <1>3 DEF Inv

-----------------------------------------------------------------------------
(* Every brain tick is such a tick *)

Goals(n, base, writes) == Stamped(n, base, writes, "goal", pool[n])
Claims(n, base, writes) == Stamped(n, base, writes, "claim", claim[n])

\* What writes do, whatever the clock has advanced to before them: of the key
\* that was claimed either it is held now, or the claim is released.
HasEffect(n, writes, claimed, key) ==
  \A base \in Nat : base >= clock[n] =>
    /\ Effect(n, base + Len(writes), key, Goals(n, base, writes), Claims(n, base, writes))
    /\ claimed # key => ~Record!Live(Claims(n, base, writes)[claimed])

LEMMA CommitKeeps ==
  ASSUME Inv, NEW n \in Node, NEW claimed, NEW key, NEW w \in Seq(AnyWrite),
         HasEffect(n, w, claimed, key), NEW taken \in Nat, NEW stalled \in Nat,
         Commit(n, w, taken, stalled), Drop(n, claimed), held' = [held EXCEPT ![n] = key],
         ready' \subseteq Node, UNCHANGED mission
  PROVE  Inv'
<1>1. PICK extra \in 0..(Limit.slack - spent.slack) :
        /\ clock' = [clock EXCEPT ![n] = clock[n] + extra + Len(w)]
        /\ pool' = [pool EXCEPT ![n] = Goals(n, clock[n] + extra, w)]
        /\ claim' = [claim EXCEPT ![n] = Claims(n, clock[n] + extra, w)]
        /\ sent' = Undelivered(sent
             \cup {[kind |-> "goal", task |-> t, ver |-> Goals(n, clock[n] + extra, w)[t]] :
                     t \in {u \in Task : Goals(n, clock[n] + extra, w)[u] # pool[n][u]}}
             \cup {[kind |-> "claim", task |-> t, ver |-> Claims(n, clock[n] + extra, w)[t]] :
                     t \in {u \in Task : Claims(n, clock[n] + extra, w)[u] # claim[n][u]}})
        /\ spent' = [spent EXCEPT !.slack = spent.slack + extra, !.takeovers = spent.takeovers + taken,
                                  !.stalls = spent.stalls + stalled]
  BY Zenon DEF Commit, Goals, Claims
<1> DEFINE base == clock[n] + extra
           goals == Goals(n, base, w)
           claims == Claims(n, base, w)
<1>2. extra \in Nat /\ clock[n] \in Nat /\ Len(w) \in Nat /\ base \in Nat /\ base >= clock[n]
  <2>1. Limit.slack \in Nat /\ spent.slack \in Nat
    BY LimitAssumption DEF Inv, TypeOK, Budget
  <2>2. clock[n] \in Nat /\ Len(w) \in Nat
    BY DEF Inv, TypeOK
  <2>3. extra \in Nat
    BY <2>1
  <2> QED
    BY <2>2, <2>3
<1>3. /\ Effect(n, base + Len(w), key, goals, claims)
      /\ claimed # key => ~Record!Live(claims[claimed])
  BY Zenon, <1>2 DEF HasEffect
<1>4. \A r \in sent' :
        \/ r \in sent
        \/ \E t \in Task : \/ r = [kind |-> "goal", task |-> t, ver |-> goals[t]]
                           \/ r = [kind |-> "claim", task |-> t, ver |-> claims[t]]
  BY Zenon, <1>1 DEF Undelivered
<1>5. spent' \in [Budget -> Nat]
  <2>1. spent \in [Budget -> Nat]
    BY DEF Inv, TypeOK
  <2>2. /\ spent' = [spent EXCEPT !.slack = spent.slack + extra, !.takeovers = spent.takeovers + taken,
                                  !.stalls = spent.stalls + stalled]
        /\ extra \in Nat
    BY <1>1, <1>2
  <2>3. /\ {"slack", "takeovers", "stalls"} \subseteq Budget
        /\ spent.slack + extra \in Nat /\ spent.takeovers + taken \in Nat
        /\ spent.stalls + stalled \in Nat
    <3>1. spent.slack \in Nat /\ spent.takeovers \in Nat /\ spent.stalls \in Nat
      BY <2>1 DEF Budget
    <3> QED
      BY SMTT(30), <2>2, <3>1 DEF Budget
  <2> QED
    BY Zenon, <2>1, <2>2, <2>3
<1>6. clock' = [clock EXCEPT ![n] = base + Len(w)]
  BY <1>1
<1> HIDE DEF base
<1>7. pool' = [pool EXCEPT ![n] = goals] /\ claim' = [claim EXCEPT ![n] = claims]
  BY Zenon, <1>1 DEF base
<1> HIDE DEF goals, claims
<1>8. /\ dropped' \in [Node -> SUBSET Task]
      /\ \A m \in Node \ {n} : dropped'[m] = dropped[m]
      /\ \A t \in dropped[n] \cup Rejected(n) : t \in dropped'[n] \/ t = claimed
  <2>1. dropped \in [Node -> SUBSET Task] /\ held[n] \in Task \cup {None}
    BY Zenon DEF Inv, TypeOK
  <2>2. Rejected(n) \subseteq Task
    BY Zenon, <2>1 DEF Rejected
  <2> QED
    BY <2>1, <2>2 DEF Drop
<1>9. Tick(n, base + Len(w), key, goals, claims)
  BY Zenon, <1>3, <1>4, <1>5, <1>6, <1>7, <1>8 DEF Tick
<1> QED
  BY Zenon, <1>9, TickKeeps

Payload == {Open, Tombstone} \cup Bid

WriteOf(kind, t, val) == [kind |-> kind, task |-> t, val |-> val]

VersionOf(ts, n, val) == [ts |-> ts, origin |-> n, val |-> val]

Short == {w \in Seq(AnyWrite) : Len(w) <= 3}

\* A further write changes one record of its kind and no other.
LEMMA WriteChanges ==
  ASSUME NEW n \in Node, NEW base \in Nat, NEW w \in Short,
         NEW kind \in {"goal", "claim"}, NEW u \in Task, NEW val \in Payload,
         NEW k \in {"goal", "claim"}, NEW records
  PROVE  Stamped(n, base, Append(w, WriteOf(kind, u, val)), k, records) =
           IF kind = k
           THEN [t \in Task |-> IF t = u THEN VersionOf(base + (Len(w) + 1), n, val)
                                ELSE Stamped(n, base, w, k, records)[t]]
           ELSE Stamped(n, base, w, k, records)
<1> DEFINE x == WriteOf(kind, u, val)
           old == Stamped(n, base, w, k, records)
<1>1. x \in AnyWrite
  BY Zenon DEF WriteOf, AnyWrite, Payload
<1>2. x.kind = kind /\ x.task = u /\ x.val = val
  BY Zenon DEF WriteOf
<1>3. old = [t \in Task |-> old[t]]
  BY Zenon DEF Stamped
<1>4. w \in Seq(AnyWrite) /\ Len(w) <= 3
  BY Zenon DEF Short
<1> HIDE DEF x
<1>5. Stamped(n, base, Append(w, x), k, records) =
        [t \in Task |->
           IF x.kind = k /\ x.task = t
           THEN [ts |-> base + (Len(w) + 1), origin |-> n, val |-> x.val]
           ELSE old[t]]
  BY <1>1, <1>4, StampedAppend
<1> HIDE DEF old
<1>6. Stamped(n, base, Append(w, x), k, records) =
        [t \in Task |-> IF kind = k /\ u = t THEN VersionOf(base + (Len(w) + 1), n, val)
                        ELSE old[t]]
  BY Zenon, <1>2, <1>5 DEF VersionOf
<1>7. CASE kind = k
  <2>1. Stamped(n, base, Append(w, x), k, records) =
          [t \in Task |-> IF t = u THEN VersionOf(base + (Len(w) + 1), n, val) ELSE old[t]]
    BY Zenon, <1>6, <1>7
  <2> QED
    BY Zenon, <1>7, <2>1 DEF x, old
<1>8. CASE kind # k
  <2>1. Stamped(n, base, Append(w, x), k, records) = [t \in Task |-> old[t]]
    BY Zenon, <1>6, <1>8
  <2> QED
    BY Zenon, <1>3, <1>8, <2>1 DEF x, old
<1> QED
  BY Zenon, <1>7, <1>8

LEMMA ClaimAppended ==
  ASSUME NEW n \in Node, NEW base \in Nat, NEW w \in Short, NEW u \in Task, NEW val \in Payload
  PROVE  /\ Goals(n, base, Append(w, WriteOf("claim", u, val))) = Goals(n, base, w)
         /\ Claims(n, base, Append(w, WriteOf("claim", u, val))) =
              [t \in Task |-> IF t = u THEN VersionOf(base + (Len(w) + 1), n, val)
                              ELSE Claims(n, base, w)[t]]
<1>1. "claim" \in {"goal", "claim"} /\ "goal" \in {"goal", "claim"} /\ "claim" # "goal"
  BY Zenon
<1>2. Goals(n, base, Append(w, WriteOf("claim", u, val))) = Goals(n, base, w)
  BY <1>1, WriteChanges DEF Goals
<1>3. Claims(n, base, Append(w, WriteOf("claim", u, val))) =
        [t \in Task |-> IF t = u THEN VersionOf(base + (Len(w) + 1), n, val)
                        ELSE Claims(n, base, w)[t]]
  BY <1>1, WriteChanges DEF Claims
<1> QED
  BY <1>2, <1>3

LEMMA GoalAppended ==
  ASSUME NEW n \in Node, NEW base \in Nat, NEW w \in Short, NEW u \in Task, NEW val \in Payload
  PROVE  /\ Claims(n, base, Append(w, WriteOf("goal", u, val))) = Claims(n, base, w)
         /\ Goals(n, base, Append(w, WriteOf("goal", u, val))) =
              [t \in Task |-> IF t = u THEN VersionOf(base + (Len(w) + 1), n, val)
                              ELSE Goals(n, base, w)[t]]
<1>1. "claim" \in {"goal", "claim"} /\ "goal" \in {"goal", "claim"} /\ "claim" # "goal"
  OBVIOUS
<1>2. Claims(n, base, Append(w, WriteOf("goal", u, val))) = Claims(n, base, w)
  BY <1>1, WriteChanges DEF Claims
<1>3. Goals(n, base, Append(w, WriteOf("goal", u, val))) =
        [t \in Task |-> IF t = u THEN VersionOf(base + (Len(w) + 1), n, val)
                        ELSE Goals(n, base, w)[t]]
  BY <1>1, WriteChanges DEF Goals
<1> QED
  BY Zenon, <1>2, <1>3

LEMMA Extended ==
  ASSUME NEW w \in Seq(AnyWrite), NEW kind \in {"goal", "claim"}, NEW u \in Task, NEW val \in Payload
  PROVE  /\ WriteOf(kind, u, val) \in AnyWrite
         /\ Append(w, WriteOf(kind, u, val)) \in Seq(AnyWrite)
         /\ Len(w) \in Nat /\ Len(Append(w, WriteOf(kind, u, val))) = Len(w) + 1
<1>1. WriteOf(kind, u, val) \in AnyWrite
  BY Zenon DEF WriteOf, AnyWrite, Payload
<1> QED
  BY <1>1

LEMMA Bids ==
  ASSUME Inv, NEW n \in Node, NEW t \in Task, Scorable(n, t)
  PROVE  \E b \in Bid : b.owner = n /\ ClaimWrite(n, t) = WriteOf("claim", t, b)
<1>1. ScoreOf(n, t) \in Nat
  <2>1. CASE t = Prerequisite(n)
    BY <2>1 DEF ScoreOf, Interrupt
  <2>2. CASE t # Prerequisite(n)
    <3>1. t \in Goal
      BY Zenon, <2>2 DEF Scorable, Inv, TypeOK
    <3> QED
      <4>1. score[n][t] \in Scores
        BY <3>1 DEF Inv, TypeOK
      <4> QED
        BY Zenon, <2>2, <4>1, ScoreAssumption DEF ScoreOf
  <2> QED
    BY Zenon, <2>1, <2>2
<1> DEFINE b == [owner |-> n, score |-> ScoreOf(n, t)]
<1>2. b \in Bid /\ b.owner = n
  BY Zenon, <1>1 DEF Bid
<1>3. ClaimWrite(n, t) = WriteOf("claim", t, b)
  BY Zenon DEF ClaimWrite, WriteOf
<1> QED
  BY <1>2, <1>3

\* What claim_best_goal leaves: the goals untouched, and the claims changed as
\* a tick may change them.
Claimed(n, key, writes) ==
  /\ key \in Goal \cup {Prerequisite(n), None} /\ (key # None => Record!Live(pool[n][key]))
  /\ writes \in Seq(AnyWrite) /\ Len(writes) <= 2
  /\ \A base \in Nat : base >= clock[n] =>
       /\ Goals(n, base, writes) = pool[n]
       /\ Claims(n, base, writes) \in [Task -> ClaimVersion]
       /\ ClaimEffect(n, base + Len(writes), key, Claims(n, base, writes))

LEMMA KeptClaimed ==
  ASSUME Inv, NEW n \in Node
  PROVE  Claimed(n, IF HaveCurrent(n) THEN held[n] ELSE None, <<>>)
<1> DEFINE key == IF HaveCurrent(n) THEN held[n] ELSE None
<1>1. key \in Goal \cup {Prerequisite(n), None} /\ (key # None => Record!Live(pool[n][key]))
  BY Zenon DEF Inv, TypeOK, HaveCurrent, Scorable
<1>2. <<>> \in Seq(AnyWrite) /\ Len(<<>>) = 0
  OBVIOUS
<1>3. pool[n] \in [Task -> GoalVersion] /\ claim[n] \in [Task -> ClaimVersion]
  BY Zenon DEF Inv, TypeOK
<1>4. ASSUME NEW base \in Nat
      PROVE  Goals(n, base, <<>>) = pool[n] /\ Claims(n, base, <<>>) = claim[n]
  BY <1>3, StampedEmpty DEF Goals, Claims
<1>5. \A top : ClaimEffect(n, top, key, claim[n])
  BY Zenon DEF ClaimEffect
<1> QED
  BY <1>1, <1>2, <1>3, <1>4, <1>5 DEF Claimed

\* A version a tick of node n writes.
LEMMA FreshVersion ==
  ASSUME Inv, NEW n \in Node, NEW ts \in Nat, ts > clock[n], NEW top \in Nat, ts <= top, NEW val
  PROVE  /\ Fresh(n, top, VersionOf(ts, n, val))
         /\ VersionOf(ts, n, val).val = val
         /\ val \in Bid \cup {Tombstone} => VersionOf(ts, n, val) \in ClaimVersion
         /\ val \in {Open, Tombstone} => VersionOf(ts, n, val) \in GoalVersion
<1> DEFINE v == VersionOf(ts, n, val)
<1>1. clock[n] \in Nat /\ n \in Nat
  BY Zenon, NodeAssumption DEF Inv, TypeOK
<1>2. v.ts = ts /\ v.origin = n /\ v.val = val
  BY Zenon DEF VersionOf
<1>3. Fresh(n, top, v)
  BY Zenon, <1>1, <1>2 DEF Fresh
<1>4. /\ val \in Bid \cup {Tombstone} => v \in ClaimVersion
      /\ val \in {Open, Tombstone} => v \in GoalVersion
  BY Zenon, <1>1 DEF VersionOf, ClaimVersion, GoalVersion
<1> QED
  BY Zenon, <1>2, <1>3, <1>4

LEMMA SwitchClaimed ==
  ASSUME Inv, NEW n \in Node, NEW t \in SwitchTo(n)
  PROVE  Claimed(n, t, SwitchWrites(n, t))
<1>1. t \in Task /\ t # held[n] /\ Record!Live(pool[n][t]) /\ Scorable(n, t)
  BY Zenon DEF SwitchTo, BestCandidates, Candidates
<1>2. PICK b \in Bid : b.owner = n /\ ClaimWrite(n, t) = WriteOf("claim", t, b)
  BY Zenon, <1>1, Bids
<1>3. pool[n] \in [Task -> GoalVersion] /\ claim[n] \in [Task -> ClaimVersion] /\ clock[n] \in Nat
  BY DEF Inv, TypeOK
<1>4. b \in Payload /\ Tombstone \in Payload /\ "claim" \in {"goal", "claim"}
  BY Zenon DEF Payload
<1> DEFINE e == <<>>
           one == Append(e, WriteOf("claim", t, b))
<1>0. t \in Task /\ t \in Goal \cup {Prerequisite(n), None}
  BY Zenon, <1>1 DEF Scorable, Inv, TypeOK
<1>5. e \in Short /\ e \in Seq(AnyWrite)
  BY DEF Short
<1>51. Len(e) = 0
  BY Zenon
<1>6. \A base \in Nat : Goals(n, base, e) = pool[n] /\ Claims(n, base, e) = claim[n]
  BY <1>3, StampedEmpty DEF Goals, Claims
<1>7. <<ClaimWrite(n, t)>> = one
  BY <1>2
<1> HIDE DEF e
<1>8. one \in Seq(AnyWrite) /\ Len(one) = 1
  <2>1. one \in Seq(AnyWrite) /\ Len(one) = Len(e) + 1
    BY Zenon, <1>0, <1>4, <1>5, Extended
  <2> QED
    BY <1>51, <2>1
<1>9. ASSUME NEW base \in Nat
      PROVE  /\ Goals(n, base, one) = pool[n]
             /\ Claims(n, base, one) =
                  [u \in Task |-> IF u = t THEN VersionOf(base + 1, n, b) ELSE claim[n][u]]
  <2>1. /\ Goals(n, base, one) = Goals(n, base, e)
        /\ Claims(n, base, one) =
             [u \in Task |-> IF u = t THEN VersionOf(base + (Len(e) + 1), n, b)
                             ELSE Claims(n, base, e)[u]]
    BY <1>0, <1>4, <1>5, ClaimAppended
  <2> QED
    BY <1>51, <1>6, <2>1
<1> HIDE DEF one
<1>10. CASE ~HaveCurrent(n)
  <2>1. SwitchWrites(n, t) = one
    <3>1. one \o <<>> = one
      BY <1>8
    <3> QED
      BY <1>7, <1>10, <3>1 DEF SwitchWrites
  <2>2. ASSUME NEW base \in Nat, base >= clock[n]
        PROVE  /\ Claims(n, base, one) \in [Task -> ClaimVersion]
               /\ ClaimEffect(n, base + 1, t, Claims(n, base, one))
    <3> DEFINE v == VersionOf(base + 1, n, b)
    <3>1. Fresh(n, base + 1, v) /\ v.val = b /\ v \in ClaimVersion
      <4>1. base + 1 \in Nat /\ base + 1 > clock[n] /\ base + 1 <= base + 1
        BY <1>3, <2>2
      <4> QED
        BY <4>1, FreshVersion
    <3> HIDE DEF v
    <3>2. Claims(n, base, one) = [u \in Task |-> IF u = t THEN v ELSE claim[n][u]]
      BY Zenon, <1>9 DEF v
    <3>3. Claims(n, base, one) \in [Task -> ClaimVersion]
      BY Zenon, <1>3, <3>1, <3>2
    <3>4. v.val.owner = n
      BY <1>2, <3>1
    <3> QED
      BY Zenon, <1>10, <3>1, <3>2, <3>3, <3>4 DEF ClaimEffect
  <2>3. one \in Seq(AnyWrite) /\ Len(one) <= 2 /\ \A base \in Nat : base + Len(one) = base + 1
    BY <1>8
  <2>4. Claimed(n, t, one)
    BY Zenon, <1>0, <1>1, <1>9, <2>2, <2>3 DEF Claimed
  <2> QED
    BY <2>1, <2>4
<1>11. CASE HaveCurrent(n)
  <2>1. held[n] \in Task
    BY Zenon, <1>11 DEF HaveCurrent, Inv, TypeOK
  <2> DEFINE two == Append(one, WriteOf("claim", held[n], Tombstone))
  <2>2. SwitchWrites(n, t) = two
    <3>1. Delete("claim", held[n]) = WriteOf("claim", held[n], Tombstone)
      BY Zenon DEF Delete, WriteOf
    <3>2. WriteOf("claim", held[n], Tombstone) \in AnyWrite
      BY Zenon, <1>4, <1>8, <2>1, Extended
    <3>3. one \o <<WriteOf("claim", held[n], Tombstone)>> = two
      BY Zenon, <1>8, <3>2, Concatenated
    <3> QED
      BY Zenon, <1>7, <1>11, <3>1, <3>3 DEF SwitchWrites
  <2>3. two \in Seq(AnyWrite) /\ Len(two) = 2
    <3>1. one \in Seq(AnyWrite)
      BY <1>8
    <3>2. two \in Seq(AnyWrite) /\ Len(two) = Len(one) + 1
      BY Zenon, <1>4, <2>1, <3>1, Extended
    <3> QED
      BY <1>8, <3>2
  <2>4. one \in Short
    BY <1>8 DEF Short
  <2>5. ASSUME NEW base \in Nat
        PROVE  /\ Goals(n, base, two) = pool[n]
               /\ Claims(n, base, two) =
                    [u \in Task |-> IF u = held[n] THEN VersionOf(base + 2, n, Tombstone)
                                    ELSE IF u = t THEN VersionOf(base + 1, n, b)
                                    ELSE claim[n][u]]
    <3>1. /\ Goals(n, base, two) = Goals(n, base, one)
          /\ Claims(n, base, two) =
               [u \in Task |-> IF u = held[n] THEN VersionOf(base + (Len(one) + 1), n, Tombstone)
                               ELSE Claims(n, base, one)[u]]
      BY <1>4, <2>1, <2>4, ClaimAppended
    <3>2. Len(one) + 1 = 2
      BY <1>8
    <3> QED
      BY <1>9, <3>1, <3>2
  <2> HIDE DEF two
  <2>6. ASSUME NEW base \in Nat, base >= clock[n]
        PROVE  /\ Claims(n, base, two) \in [Task -> ClaimVersion]
               /\ ClaimEffect(n, base + 2, t, Claims(n, base, two))
    <3> DEFINE v == VersionOf(base + 1, n, b)
               d == VersionOf(base + 2, n, Tombstone)
    <3>1. Fresh(n, base + 2, v) /\ v.val = b /\ v \in ClaimVersion
      <4>1. base + 1 \in Nat /\ base + 1 > clock[n] /\ base + 2 \in Nat /\ base + 1 <= base + 2
        BY <1>3, <2>6
      <4> QED
        BY <4>1, FreshVersion
    <3>2. Fresh(n, base + 2, d) /\ d.val = Tombstone /\ d \in ClaimVersion
      <4>1. base + 2 \in Nat /\ base + 2 > clock[n] /\ base + 2 <= base + 2
        BY <1>3, <2>6
      <4> QED
        BY <4>1, FreshVersion
    <3> HIDE DEF v, d
    <3>3. Claims(n, base, two) =
            [u \in Task |-> IF u = held[n] THEN d ELSE IF u = t THEN v ELSE claim[n][u]]
      BY Zenon, <2>5 DEF v, d
    <3>4. Claims(n, base, two) \in [Task -> ClaimVersion]
      BY Zenon, <1>3, <3>1, <3>2, <3>3
    <3>5. v.val.owner = n /\ ~Record!Live(d)
      BY <1>2, <3>1, <3>2 DEF Record!Live
    <3> QED
      BY Zenon, <3>1, <3>2, <3>3, <3>4, <3>5 DEF ClaimEffect
  <2>7. two \in Seq(AnyWrite) /\ Len(two) <= 2 /\ \A base \in Nat : base + Len(two) = base + 2
    BY <2>3
  <2>8. Claimed(n, t, two)
    BY Zenon, <1>0, <1>1, <2>5, <2>6, <2>7 DEF Claimed
  <2> QED
    BY <2>2, <2>8
<1> QED
  BY Zenon, <1>10, <1>11

LEMMA BestGoalClaimed ==
  ASSUME Inv, NEW n \in Node, NEW refused, NEW c \in ClaimBestGoal(n, refused)
  PROVE  Claimed(n, c.key, c.writes) /\ c.taken \in Nat
<1>1. CASE refused \/ SwitchTo(n) = {}
  <2>1. c = [key |-> IF HaveCurrent(n) THEN held[n] ELSE None, writes |-> <<>>, taken |-> 0]
    BY Zenon, <1>1 DEF ClaimBestGoal
  <2>2. c.key = (IF HaveCurrent(n) THEN held[n] ELSE None) /\ c.writes = <<>> /\ c.taken \in Nat
    BY <2>1
  <2> QED
    BY Zenon, <2>2, KeptClaimed
<1>2. CASE ~refused /\ SwitchTo(n) # {}
  <2>1. PICK t \in SwitchTo(n) :
          c = [key |-> t, writes |-> SwitchWrites(n, t),
               taken |-> IF HeldByLive(n, t) THEN 1 ELSE 0]
    BY Zenon, <1>2 DEF ClaimBestGoal
  <2>2. c.key = t /\ c.writes = SwitchWrites(n, t) /\ c.taken \in {0, 1}
    BY Zenon, <2>1
  <2> QED
    BY <2>2, SwitchClaimed
<1> QED
  BY Zenon, <1>1, <1>2

LEMMA WorkEffect ==
  ASSUME Inv, NEW n \in Node, NEW key, NEW w, Claimed(n, key, w)
  PROVE  HasEffect(n, w, key, key)
<1> SUFFICES ASSUME NEW base \in Nat, base >= clock[n]
             PROVE  Effect(n, base + Len(w), key, Goals(n, base, w), Claims(n, base, w))
  BY Zenon DEF HasEffect
<1>1. base + Len(w) \in Nat /\ base + Len(w) >= clock[n]
  <2>1. clock[n] \in Nat
    BY Zenon DEF Inv, TypeOK
  <2>2. Len(w) \in Nat
    BY SMTT(30) DEF Claimed
  <2> QED
    BY <2>1, <2>2
<1>2. Goals(n, base, w) = pool[n] /\ pool[n] \in [Task -> GoalVersion]
  BY DEF Claimed, Inv, TypeOK
<1>3. /\ Claims(n, base, w) \in [Task -> ClaimVersion]
      /\ ClaimEffect(n, base + Len(w), key, Claims(n, base, w))
      /\ key \in Goal \cup {Prerequisite(n), None} /\ (key # None => Record!Live(pool[n][key]))
  BY Zenon DEF Claimed
<1> QED
  BY Zenon, <1>1, <1>2, <1>3 DEF Effect, GoalEffect

\* The claims after claim_best_goal and the deletion of the claim on its key.
LEMMA Released ==
  ASSUME Inv, NEW n \in Node, NEW key \in Task, NEW w, Claimed(n, key, w),
         NEW base \in Nat, base >= clock[n], NEW ts \in Nat, ts >= base + Len(w), ts > clock[n],
         NEW claims,
         claims = [t \in Task |-> IF t = key THEN VersionOf(ts, n, Tombstone)
                                  ELSE Claims(n, base, w)[t]]
  PROVE  /\ claims \in [Task -> ClaimVersion]
         /\ ClaimEffect(n, ts, None, claims)
         /\ ~Record!Live(claims[key])
<1> DEFINE d == VersionOf(ts, n, Tombstone)
           old == Claims(n, base, w)
<1>1. Fresh(n, ts, d) /\ d \in ClaimVersion /\ d.val = Tombstone
  BY FreshVersion
<1>2. old \in [Task -> ClaimVersion] /\ ClaimEffect(n, base + Len(w), key, old)
  BY Zenon DEF Claimed
<1>3. Len(w) \in Nat
  <2>1. w \in Seq(AnyWrite)
    BY Zenon DEF Claimed
  <2> QED
    BY ONLY <2>1
<1>0. claims = [t \in Task |-> IF t = key THEN d ELSE old[t]]
  BY Zenon
<1> HIDE DEF d, old
<1>4. claims \in [Task -> ClaimVersion]
  BY Zenon, <1>0, <1>1, <1>2
<1>5. ~Record!Live(claims[key])
  BY <1>0, <1>1 DEF Record!Live
<1>6. ASSUME NEW t \in Task
      PROVE  \/ /\ claims[t] = claim[n][t]
                /\ ~(HaveCurrent(n) /\ t = held[n])
             \/ Fresh(n, ts, claims[t]) /\ ~Record!Live(claims[t])
  <2>1. CASE t = key
    BY Zenon, <1>0, <1>1, <1>5, <2>1
  <2>2. CASE t # key
    <3>1. \/ old[t] = claim[n][t] /\ (HaveCurrent(n) /\ t = held[n] => key = t)
          \/ Fresh(n, base + Len(w), old[t]) /\ ~Record!Live(old[t])
      BY Zenon, <1>2, <2>2 DEF ClaimEffect
    <3>2. old[t].ts \in Nat
      BY Zenon, <1>2 DEF ClaimVersion
    <3>3. Fresh(n, base + Len(w), old[t]) => Fresh(n, ts, old[t])
      BY <1>3, <3>2 DEF Fresh
    <3> QED
      BY Zenon, <1>0, <2>2, <3>1, <3>3
  <2> QED
    BY Zenon, <2>1, <2>2
<1>7. ClaimEffect(n, ts, None, claims)
  BY Zenon, <1>6 DEF ClaimEffect
<1> QED
  BY Zenon, <1>4, <1>5, <1>7

LEMMA FinishEffect ==
  ASSUME Inv, NEW n \in Node, NEW key \in Task, NEW w, Claimed(n, key, w),
         key = Prerequisite(n) \/ key \in Goal
  PROVE  /\ w \o Done(n, key).writes \in Seq(AnyWrite)
         /\ HasEffect(n, w \o Done(n, key).writes, key, None)
<1>1. w \in Seq(AnyWrite) /\ Len(w) \in Nat /\ Len(w) <= 2 /\ clock[n] \in Nat /\ key # None
  BY NamesAssumption DEF Claimed, Inv, TypeOK
<1>2. Tombstone \in Payload /\ "claim" \in {"goal", "claim"} /\ "goal" \in {"goal", "claim"}
  BY DEF Payload
<1> DEFINE one == Append(w, WriteOf("goal", key, Tombstone))
           two == Append(one, WriteOf("claim", key, Tombstone))
<1>3. w \in Seq(AnyWrite) /\ w \in Short
  BY <1>1 DEF Short
<1>4. /\ one \in Seq(AnyWrite) /\ Len(one) = Len(w) + 1
      /\ WriteOf("goal", key, Tombstone) \in AnyWrite
  BY Zenon, <1>2, <1>3, Extended
<1>5. one \in Seq(AnyWrite) /\ one \in Short
  BY <1>1, <1>4 DEF Short
<1>6. /\ two \in Seq(AnyWrite) /\ Len(two) = Len(one) + 1
      /\ WriteOf("claim", key, Tombstone) \in AnyWrite
  <2> HIDE DEF one
  <2> QED
    BY Zenon, <1>2, <1>5, Extended
<1>7. w \o Done(n, key).writes = two
  <2>1. Done(n, key).writes = <<WriteOf("goal", key, Tombstone), WriteOf("claim", key, Tombstone)>>
    BY Zenon DEF Done, Delete, WriteOf
  <2> QED
    BY <1>3, <1>4, <1>6, <2>1, Concatenated
<1>8. ASSUME NEW base \in Nat, base >= clock[n]
      PROVE  /\ Effect(n, base + Len(two), None, Goals(n, base, two), Claims(n, base, two))
             /\ ~Record!Live(Claims(n, base, two)[key])
  <2> DEFINE ts == base + (Len(one) + 1)
             g == VersionOf(base + (Len(w) + 1), n, Tombstone)
             goals == Goals(n, base, two)
             claims == Claims(n, base, two)
  <2>1. /\ Goals(n, base, one) = [t \in Task |-> IF t = key THEN g ELSE Goals(n, base, w)[t]]
        /\ Claims(n, base, one) = Claims(n, base, w)
    BY <1>2, <1>3, GoalAppended
  <2>2. /\ goals = Goals(n, base, one)
        /\ claims = [t \in Task |-> IF t = key THEN VersionOf(ts, n, Tombstone)
                                    ELSE Claims(n, base, one)[t]]
    <3> HIDE DEF one
    <3> QED
      BY <1>2, <1>5, ClaimAppended
  <2>3. /\ ts \in Nat /\ ts = base + Len(two) /\ ts > clock[n] /\ ts >= base + Len(w)
        /\ base + (Len(w) + 1) \in Nat /\ base + (Len(w) + 1) > clock[n]
        /\ base + (Len(w) + 1) <= ts
    <3> HIDE DEF one, two
    <3> QED
      BY <1>1, <1>4, <1>6, <1>8
  <2> HIDE DEF one, two, ts
  <2>4. Fresh(n, ts, g) /\ g \in GoalVersion /\ g.val = Tombstone
    BY <2>3, FreshVersion
  <2>5. Goals(n, base, w) = pool[n] /\ pool[n] \in [Task -> GoalVersion] /\ Record!Live(pool[n][key])
    BY Zenon, <1>1, <1>8 DEF Claimed, Inv, TypeOK
  <2>6. /\ claims \in [Task -> ClaimVersion]
        /\ ClaimEffect(n, ts, None, claims)
        /\ ~Record!Live(claims[key])
    <3>1. claims = [t \in Task |-> IF t = key THEN VersionOf(ts, n, Tombstone)
                                   ELSE Claims(n, base, w)[t]]
      BY <2>1, <2>2
    <3> QED
      BY <1>8, <2>3, <3>1, Released
  <2> HIDE DEF g
  <2>7. goals = [t \in Task |-> IF t = key THEN g ELSE pool[n][t]]
    BY Zenon, <2>1, <2>2, <2>5
  <2> HIDE DEF goals, claims
  <2>8. goals \in [Task -> GoalVersion]
    BY Zenon, <2>4, <2>5, <2>7
  <2>9. GoalEffect(n, ts, goals)
    BY Zenon, <2>4, <2>5, <2>7 DEF GoalEffect
  <2>10. goals[Prerequisite(n)] # pool[n][Prerequisite(n)] => ~Record!Live(claims[Prerequisite(n)])
    BY SMTT(30), <2>6, <2>7, Names
  <2>11. Effect(n, ts, None, goals, claims)
    BY <1>1, <2>3, <2>6, <2>8, <2>9, <2>10 DEF Effect
  <2> QED
    BY Zenon, <2>3, <2>6, <2>11 DEF goals, claims
<1> HIDE DEF two
<1> QED
  BY Zenon, <1>6, <1>7, <1>8 DEF HasEffect

LEMMA Pair ==
  ASSUME NEW S, NEW a \in S, NEW b \in S
  PROVE  <<a>> \o <<b>> = <<a, b>>
<1> DEFINE l == <<a>> \o <<b>>
           r == <<a, b>>
<1>1. l \in Seq(S) /\ Len(l) = 2 /\ l[1] = a /\ l[2] = b
  OBVIOUS
<1>2. r \in Seq(S) /\ Len(r) = 2 /\ r[1] = a /\ r[2] = b
  OBVIOUS
<1> HIDE DEF l, r
<1>3. ASSUME NEW i \in 1..2 PROVE l[i] = r[i]
  <2>1. i = 1 \/ i = 2
    OBVIOUS
  <2> QED
    BY <1>1, <1>2, <2>1
<1>4. l = r
  BY <1>1, <1>2, <1>3
<1> QED
  BY Zenon, <1>4 DEF l, r

\* The claim on the key is released, and nothing else happens.
LEMMA ReleaseEffect ==
  ASSUME Inv, NEW n \in Node, NEW key \in Task, NEW w, Claimed(n, key, w)
  PROVE  /\ Append(w, Delete("claim", key)) \in Seq(AnyWrite)
         /\ HasEffect(n, Append(w, Delete("claim", key)), key, None)
<1> DEFINE one == Append(w, WriteOf("claim", key, Tombstone))
<1>1. /\ w \in Seq(AnyWrite) /\ Len(w) \in Nat /\ Len(w) <= 2 /\ clock[n] \in Nat
      /\ Tombstone \in Payload /\ "claim" \in {"goal", "claim"}
  BY DEF Claimed, Inv, TypeOK, Payload
<1>2. w \in Seq(AnyWrite) /\ w \in Short
  BY <1>1 DEF Short
<1>3. Append(w, Delete("claim", key)) = one
  BY Zenon DEF Delete, WriteOf
<1>4. pool[n] \in [Task -> GoalVersion]
  BY Zenon DEF Inv, TypeOK
<1>5. one \in Seq(AnyWrite) /\ Len(one) = Len(w) + 1
  BY Zenon, <1>1, <1>2, Extended
<1>6. ASSUME NEW base \in Nat, base >= clock[n]
      PROVE  /\ Effect(n, base + Len(one), None, Goals(n, base, one), Claims(n, base, one))
             /\ ~Record!Live(Claims(n, base, one)[key])
  <2> DEFINE ts == base + (Len(w) + 1)
  <2>1. /\ Goals(n, base, one) = Goals(n, base, w)
        /\ Claims(n, base, one) = [t \in Task |-> IF t = key THEN VersionOf(ts, n, Tombstone)
                                                  ELSE Claims(n, base, w)[t]]
    BY <1>1, <1>2, ClaimAppended
  <2>2. ts \in Nat /\ ts = base + Len(one) /\ ts > clock[n] /\ ts >= clock[n] /\ ts >= base + Len(w)
    <3> HIDE DEF one
    <3> QED
      BY <1>1, <1>5, <1>6
  <2> HIDE DEF ts, one
  <2>3. Goals(n, base, one) = pool[n]
    BY Zenon, <1>6, <2>1 DEF Claimed
  <2>4. /\ Claims(n, base, one) \in [Task -> ClaimVersion]
        /\ ClaimEffect(n, ts, None, Claims(n, base, one))
        /\ ~Record!Live(Claims(n, base, one)[key])
    BY <1>6, <2>1, <2>2, Released
  <2>5. Effect(n, ts, None, Goals(n, base, one), Claims(n, base, one))
    BY Zenon, <1>4, <2>2, <2>3, <2>4 DEF Effect, GoalEffect
  <2> QED
    BY Zenon, <2>2, <2>4, <2>5
<1> HIDE DEF one
<1> QED
  BY Zenon, <1>3, <1>5, <1>6 DEF HasEffect

LEMMA BlockEffect ==
  ASSUME Inv, NEW n \in Node, NEW key \in Goal, NEW w, Claimed(n, key, w)
  PROVE  /\ w \o Blocked(n, key) \in Seq(AnyWrite)
         /\ HasEffect(n, w \o Blocked(n, key), key, None)
<1> DEFINE pre == Prerequisite(n)
<1>0. key \in Task /\ pre \in Task /\ key # pre /\ key # None
  BY Zenon, Names, NamesAssumption DEF Task
<1>1. w \in Seq(AnyWrite) /\ Len(w) \in Nat /\ Len(w) <= 2 /\ clock[n] \in Nat
  <2>1. w \in Seq(AnyWrite) /\ Len(w) <= 2
    BY Zenon DEF Claimed
  <2>2. clock[n] \in Nat
    BY Zenon DEF Inv, TypeOK
  <2>3. Len(w) \in Nat
    BY ONLY <2>1
  <2> QED
    BY Zenon, <2>1, <2>2, <2>3
<1>2. /\ Tombstone \in Payload /\ Open \in Payload
      /\ "claim" \in {"goal", "claim"} /\ "goal" \in {"goal", "claim"}
  BY DEF Payload
<1>3. w \in Seq(AnyWrite) /\ w \in Short
  BY <1>1 DEF Short
<1> DEFINE g == WriteOf("goal", pre, Open)
           d == WriteOf("claim", key, Tombstone)
<1>4. /\ Delete("claim", key) = d
      /\ [kind |-> "goal", task |-> pre, val |-> Open] = g
  BY Zenon DEF Delete, WriteOf
<1>5. pool[n] \in [Task -> GoalVersion]
  BY Zenon DEF Inv, TypeOK
<1>6. d \in AnyWrite /\ g \in AnyWrite
  <2> HIDE DEF pre
  <2> QED
    BY Zenon, <1>0, <1>2, <1>3, Extended
<1>7. CASE Record!Live(pool[n][pre])
  <2>1. w \o Blocked(n, key) = Append(w, d)
    <3>1. Blocked(n, key) = <<>> \o <<d>>
      BY Zenon, <1>4, <1>7 DEF Blocked
    <3> HIDE DEF d
    <3>2. <<>> \o <<d>> = <<d>> /\ w \o <<d>> = Append(w, d)
      BY Zenon, <1>3, <1>6, Concatenated
    <3> QED
      BY Zenon, <3>1, <3>2
  <2> HIDE DEF d
  <2> QED
    BY Zenon, <1>0, <1>4, <2>1, ReleaseEffect
<1>8. CASE ~Record!Live(pool[n][pre])
  <2> DEFINE one == Append(w, g)
             two == Append(one, d)
  <2>1. w \o Blocked(n, key) = two
    <3>1. Blocked(n, key) = <<g>> \o <<d>>
      BY Zenon, <1>4, <1>8 DEF Blocked
    <3> HIDE DEF g, d
    <3>2. <<g>> \o <<d>> = <<g, d>> /\ w \o <<g, d>> = Append(Append(w, g), d)
      BY <1>3, <1>6, Concatenated, Pair
    <3> QED
      BY Zenon, <3>1, <3>2
  <2>2. one \in Seq(AnyWrite) /\ Len(one) = Len(w) + 1
    <3> HIDE DEF pre
    <3> QED
      BY <1>0, <1>2, <1>3, Extended
  <2>3. one \in Seq(AnyWrite) /\ one \in Short
    <3> HIDE DEF one
    <3> QED
      BY <1>1, <2>2 DEF Short
  <2>4. two \in Seq(AnyWrite) /\ Len(two) = Len(one) + 1
    <3> HIDE DEF one
    <3> QED
      BY <1>0, <1>2, <2>3, Extended
  <2>5. ASSUME NEW base \in Nat, base >= clock[n]
        PROVE  /\ Effect(n, base + Len(two), None, Goals(n, base, two), Claims(n, base, two))
               /\ ~Record!Live(Claims(n, base, two)[key])
    <3> DEFINE ts == base + (Len(one) + 1)
               o == VersionOf(base + (Len(w) + 1), n, Open)
               goals == Goals(n, base, two)
               claims == Claims(n, base, two)
    <3>1. /\ Goals(n, base, one) = [t \in Task |-> IF t = pre THEN o ELSE Goals(n, base, w)[t]]
          /\ Claims(n, base, one) = Claims(n, base, w)
      <4> HIDE DEF pre
      <4> QED
        BY <1>0, <1>2, <1>3, GoalAppended
    <3>2. /\ goals = Goals(n, base, one)
          /\ claims = [t \in Task |-> IF t = key THEN VersionOf(ts, n, Tombstone)
                                      ELSE Claims(n, base, one)[t]]
      <4> HIDE DEF one
      <4> QED
        BY <1>0, <1>2, <2>3, ClaimAppended
    <3>3. /\ ts \in Nat /\ ts = base + Len(two) /\ ts > clock[n] /\ ts >= base + Len(w)
          /\ base + (Len(w) + 1) \in Nat /\ base + (Len(w) + 1) > clock[n]
          /\ base + (Len(w) + 1) <= ts
      <4> HIDE DEF one, two
      <4> QED
        BY <1>1, <2>2, <2>4, <2>5
    <3> HIDE DEF one, two, ts
    <3>4. Fresh(n, ts, o) /\ o \in GoalVersion /\ o.val = Open
      BY <3>3, FreshVersion
    <3>5. Goals(n, base, w) = pool[n]
      BY Zenon, <2>5 DEF Claimed
    <3>6. /\ claims \in [Task -> ClaimVersion] /\ ClaimEffect(n, ts, None, claims)
          /\ ~Record!Live(claims[key])
      <4>1. claims = [t \in Task |-> IF t = key THEN VersionOf(ts, n, Tombstone)
                                     ELSE Claims(n, base, w)[t]]
        BY Zenon, <3>1, <3>2
      <4> QED
        BY <1>0, <2>5, <3>3, <4>1, Released
    <3> HIDE DEF o
    <3>7. goals = [t \in Task |-> IF t = pre THEN o ELSE pool[n][t]]
      BY Zenon, <3>1, <3>2, <3>5
    <3> HIDE DEF goals, claims
    <3>8. goals \in [Task -> GoalVersion]
      BY Zenon, <1>5, <3>4, <3>7
    <3>9. GoalEffect(n, ts, goals)
      BY Zenon, <3>4, <3>7 DEF GoalEffect
    <3>10. Record!Live(goals[pre])
      BY Zenon, <1>0, <3>4, <3>7, NamesAssumption DEF Record!Live
    <3>11. Effect(n, ts, None, goals, claims)
      <4>1. ts >= clock[n]
        BY <1>1, <3>3
      <4> QED
        BY Zenon, <3>3, <3>6, <3>8, <3>9, <3>10, <4>1 DEF Effect
    <3> QED
      BY Zenon, <3>3, <3>6, <3>11 DEF goals, claims
  <2> HIDE DEF two
  <2> QED
    BY Zenon, <2>1, <2>4, <2>5 DEF HasEffect
<1> QED
  BY Zenon, <1>7, <1>8

LEMMA ReassertKeeps ==
  ASSUME Inv, NEW n \in Node, Reassert(n)
  PROVE  Inv'
<1> DEFINE key == held[n]
           ts == clock[n] + 1
           e == <<>>
<1>1. /\ HaveCurrent(n) /\ key \in Task /\ Scorable(n, key) /\ Record!Live(pool[n][key])
      /\ key \in Goal \cup {Prerequisite(n), None}
  BY Zenon DEF Reassert, HaveCurrent, Scorable, Inv, TypeOK
<1>2. PICK b \in Bid : b.owner = n /\ ClaimWrite(n, key) = WriteOf("claim", key, b)
  BY Zenon, <1>1, Bids
<1> DEFINE one == Append(e, WriteOf("claim", key, b))
           claims == Claims(n, clock[n], one)
           v == VersionOf(ts, n, b)
<1>3. e \in Short /\ clock[n] \in Nat /\ b \in Payload
  BY DEF Short, Inv, TypeOK, Payload
<1>4. Claims(n, clock[n], e) = claim[n] /\ Len(e) = 0 /\ claim[n] \in [Task -> ClaimVersion]
  BY StampedEmpty DEF Claims, Inv, TypeOK
<1>5. <<ClaimWrite(n, key)>> = one
  BY <1>2
<1>6. claims = [t \in Task |-> IF t = key THEN v ELSE claim[n][t]]
  <2>0. key \in Task
    BY Zenon, <1>1
  <2> HIDE DEF e, key
  <2>1. claims = [t \in Task |-> IF t = key THEN VersionOf(clock[n] + (Len(e) + 1), n, b)
                                 ELSE Claims(n, clock[n], e)[t]]
    <3> DEFINE base == clock[n]
    <3>1. base \in Nat
      BY Zenon, <1>3
    <3> HIDE DEF base
    <3>2. Claims(n, base, one) =
            [t \in Task |-> IF t = key THEN VersionOf(base + (Len(e) + 1), n, b)
                            ELSE Claims(n, base, e)[t]]
      BY <1>3, <2>0, <3>1, ClaimAppended
    <3> QED
      BY <3>2 DEF base
  <2>2. clock[n] + (Len(e) + 1) = ts
    BY <1>3, <1>4
  <2> QED
    BY Zenon, <1>4, <2>1, <2>2
<1>7. Fresh(n, ts, v) /\ v.val = b /\ v \in ClaimVersion
  <2>1. ts \in Nat /\ ts > clock[n] /\ ts <= ts
    BY <1>3
  <2> HIDE DEF ts
  <2> QED
    BY <2>1, FreshVersion
<1>8. v.val.owner = n
  BY Zenon, <1>2, <1>7
<1> HIDE DEF v
<1>9. claims \in [Task -> ClaimVersion]
  BY <1>4, <1>6, <1>7
<1>10. ClaimEffect(n, ts, key, claims)
  BY Zenon, <1>6, <1>7, <1>8 DEF ClaimEffect
<1>11. /\ claim' = [claim EXCEPT ![n] = claims]
       /\ sent' = Undelivered(sent \cup
            {[kind |-> "claim", task |-> key, ver |-> claims[key]]})
  BY Zenon, <1>5 DEF Reassert, Claims
<1> HIDE DEF claims
<1>12. Effect(n, ts, key, pool[n], claims)
  <2>1. ts \in Nat /\ ts >= clock[n] /\ pool[n] \in [Task -> GoalVersion]
    BY <1>3 DEF Inv, TypeOK
  <2> QED
    BY Zenon, <1>1, <1>9, <1>10, <2>1 DEF Effect, GoalEffect
<1>13. /\ clock' = [clock EXCEPT ![n] = ts]
       /\ held' = [held EXCEPT ![n] = key]
       /\ pool' = [pool EXCEPT ![n] = pool[n]]
       /\ ready' \subseteq Node /\ UNCHANGED mission
  BY DEF Reassert, Inv, TypeOK
<1>14. /\ spent' \in [Budget -> Nat]
       /\ dropped' = dropped /\ dropped \in [Node -> SUBSET Task] /\ Rejected(n) = {}
  <2>1. spent \in [Budget -> Nat] /\ dropped \in [Node -> SUBSET Task]
    BY Zenon DEF Inv, TypeOK
  <2>2. spent' = [spent EXCEPT !.reasserts = @ + 1] /\ dropped' = dropped
    BY DEF Reassert
  <2>3. Rejected(n) = {}
    BY Zenon, <1>1 DEF Rejected
  <2> QED
    BY <2>1, <2>2, <2>3 DEF Budget
<1>15. \A r \in sent' : r \in sent \/ r = [kind |-> "claim", task |-> key, ver |-> claims[key]]
  BY Zenon, <1>11 DEF Undelivered
<1>16. Tick(n, ts, key, pool[n], claims)
  <2> HIDE DEF key, ts
  <2> QED
    BY Zenon, <1>1, <1>11, <1>12, <1>13, <1>14, <1>15 DEF Tick
<1> QED
  BY <1>16, TickKeeps

-----------------------------------------------------------------------------
(* Deliveries *)

\* A record that arrives is newer, and no clock is behind it.
LEMMA DeliverGoal ==
  ASSUME Inv, NEW n \in Node, NEW r \in sent, Deliver(n, r), r.kind = "goal"
  PROVE  Inv'
<1> USE DEF Inv
<1> DEFINE u == r.task
<1>1. u \in Task /\ r.ver \in GoalVersion
  BY DEF TypeOK
<1>2. /\ Record!Supersedes(r.ver, pool[n][u])
      /\ pool' = [pool EXCEPT ![n][u] = r.ver]
      /\ claim' = claim /\ sent' \subseteq sent
      /\ clock' = [clock EXCEPT ![n] = IF r.ver.ts > clock[n] THEN r.ver.ts ELSE clock[n]]
      /\ UNCHANGED <<held, ready, fit, score, silent, alive, dropped, spent>>
  BY DEF Deliver, Undelivered, mission
<1> HIDE DEF u
<1>3. TypeOK'
  <2>1. pool' \in [Node -> [Task -> GoalVersion]]
    BY Zenon, <1>1, <1>2 DEF TypeOK
  <2>2. clock' \in [Node -> Nat]
    BY Zenon, <1>1, <1>2 DEF TypeOK, GoalVersion
  <2> QED
    BY Zenon, <1>2, <2>1, <2>2 DEF TypeOK
<1>4. \A m \in Node, t \in Task :
        pool'[m][t] = IF m = n /\ t = u THEN r.ver ELSE pool[m][t]
  BY Zenon, <1>2 DEF TypeOK
<1>5. StampsPast'
  <2> SUFFICES ASSUME NEW m \in Node, NEW t \in Task
               PROVE  pool'[m][t].ts <= clock'[m] /\ claim'[m][t].ts <= clock'[m]
    BY Zenon DEF StampsPast
  <2>1. /\ clock[m] \in Nat /\ pool[m][t].ts \in Nat /\ claim[m][t].ts \in Nat /\ r.ver.ts \in Nat
        /\ pool[m][t].ts <= clock[m] /\ claim[m][t].ts <= clock[m]
    BY <1>1 DEF TypeOK, StampsPast, GoalVersion, ClaimVersion
  <2>2. clock'[m] = IF m = n /\ r.ver.ts > clock[m] THEN r.ver.ts ELSE clock[m]
    BY Zenon, <1>2 DEF TypeOK
  <2>3. pool'[m][t] = IF m = n /\ t = u THEN r.ver ELSE pool[m][t]
    BY Zenon, <1>4
  <2> QED
    BY <1>2, <2>1, <2>2, <2>3
<1>6. GoalsPostedOnce'
  <2>1. u \in Goal => PostedOnce(r.ver)
    BY Zenon DEF GoalsPostedOnce, u
  <2>2. ASSUME NEW g \in Goal, NEW m \in Node PROVE PostedOnce(pool'[m][g])
    <3>1. g \in Task
      BY Zenon DEF Task
    <3> QED
      BY Zenon, <1>4, <2>1, <3>1 DEF GoalsPostedOnce
  <2> QED
    BY Zenon, <1>2, <2>2 DEF GoalsPostedOnce
<1>7. OwnClaimsNewest'
  BY Zenon, <1>2 DEF OwnClaimsNewest, Outdated
<1>8. ASSUME NEW k \in Node, u = Prerequisite(k) PROVE k # n
  BY Zenon, <1>2, <1>8 DEF PrerequisitesNewest, u
<1>9. PrerequisitesNewest'
  <2> SUFFICES ASSUME NEW k \in Node
               PROVE  LET pre == Prerequisite(k) IN
                      /\ \A m \in Node : ~Record!Supersedes(pool'[m][pre], pool'[k][pre])
                      /\ \A q \in sent' : q.kind = "goal" /\ q.task = pre
                                            => ~Record!Supersedes(q.ver, pool'[k][pre])
    BY Zenon DEF PrerequisitesNewest
  <2> DEFINE pre == Prerequisite(k)
  <2>1. pre \in Task
    BY Zenon, Names
  <2>2. pool'[k][pre] = pool[k][pre]
    BY Zenon, <1>4, <1>8, <2>1
  <2>3. ASSUME NEW m \in Node PROVE ~Record!Supersedes(pool'[m][pre], pool'[k][pre])
    <3>1. CASE m = n /\ pre = u
      <4>1. ~Record!Supersedes(r.ver, pool[k][pre])
        BY Zenon, <3>1 DEF PrerequisitesNewest, u
      <4> QED
        BY Zenon, <1>4, <2>1, <2>2, <3>1, <4>1
    <3>2. CASE ~(m = n /\ pre = u)
      <4>1. pool'[m][pre] = pool[m][pre]
        BY Zenon, <1>4, <2>1, <3>2
      <4> QED
        BY Zenon, <2>2, <4>1 DEF PrerequisitesNewest
    <3> QED
      BY Zenon, <3>1, <3>2
  <2> QED
    BY <1>2, <2>2, <2>3 DEF PrerequisitesNewest
<1>10. ClaimsPosted'
  <2> SUFFICES ASSUME NEW m \in Node
               PROVE  /\ \A g \in Goal : OwnClaim(m, g)' => pool'[m][g].ts > 0
                      /\ OwnClaim(m, Prerequisite(m))' => Record!Live(pool'[m][Prerequisite(m)])
                      /\ \A k \in Node \ {m} : ~OwnClaim(m, Prerequisite(k))'
    BY Zenon DEF ClaimsPosted
  <2>1. ASSUME NEW g \in Goal, OwnClaim(m, g)' PROVE pool'[m][g].ts > 0
    <3>1. pool[m][g].ts > 0
      BY Zenon, <1>2, <2>1 DEF ClaimsPosted, OwnClaim
    <3>2. g \in Task
      BY Zenon DEF Task
    <3>3. pool[m][g].ts \in Nat /\ r.ver.ts \in Nat
      BY <1>1, <3>2 DEF TypeOK, GoalVersion
    <3>4. m = n /\ g = u => r.ver.ts >= pool[m][g].ts
      BY <1>2, <3>3 DEF Record!Supersedes
    <3> QED
      BY <1>4, <3>1, <3>2, <3>3, <3>4
  <2>2. ASSUME OwnClaim(m, Prerequisite(m))' PROVE Record!Live(pool'[m][Prerequisite(m)])
    <3>1. Record!Live(pool[m][Prerequisite(m)])
      BY Zenon, <1>2, <2>2 DEF ClaimsPosted, OwnClaim
    <3>2. pool'[m][Prerequisite(m)] = pool[m][Prerequisite(m)]
      BY Zenon, <1>4, <1>8, Names
    <3> QED
      BY Zenon, <3>1, <3>2
  <2>3. ASSUME NEW k \in Node \ {m}, OwnClaim(m, Prerequisite(k))' PROVE FALSE
    BY Zenon, <1>2, <2>3 DEF ClaimsPosted, OwnClaim
  <2> QED
    BY Zenon, <2>1, <2>2, <2>3
<1>11. NoStrayClaim'
  <2> SUFFICES ASSUME NEW m \in Node, NEW t \in Task,
                      Record!Live(pool'[m][t]), OwnClaim(m, t)'
               PROVE  held'[m] = t \/ t \in dropped'[m]
    BY Zenon DEF NoStrayClaim
  <2>1. OwnClaim(m, t) /\ held'[m] = held[m] /\ dropped'[m] = dropped[m]
    BY Zenon, <1>2 DEF OwnClaim
  <2>2. CASE ~(m = n /\ t = u)
    BY Zenon, <1>4, <2>1, <2>2 DEF NoStrayClaim
  <2>3. CASE m = n /\ t = u
    <3>1. t # Prerequisite(n)
      BY <1>8, <2>3
    <3>2. t \in Goal
      <4>1. ASSUME NEW k \in Node, t = Prerequisite(k) PROVE FALSE
        BY Zenon, <2>1, <2>3, <3>1, <4>1 DEF ClaimsPosted
      <4> QED
        BY Zenon, <4>1, Names
    <3>3. Record!Live(r.ver) /\ PostedOnce(r.ver) /\ PostedOnce(pool[n][t])
      BY Zenon, <1>4, <2>3, <3>2 DEF GoalsPostedOnce, u
    <3>4. r.ver.ts = 1 /\ r.ver.origin = 1
      BY <1>1, <3>3 DEF PostedOnce, GoalVersion, Record!Live
    <3>5. pool[n][t] \in GoalVersion /\ pool[n][t].ts > 0
      BY Zenon, <2>1, <2>3, <3>2 DEF TypeOK, ClaimsPosted
    <3>6. pool[n][t].ts > 1 \/ (pool[n][t].ts = 1 /\ pool[n][t].origin = 1)
      BY <3>3, <3>5 DEF PostedOnce, GoalVersion
    <3>7. pool[n][t].ts \in Nat /\ pool[n][t].origin \in Nat
      BY <3>5 DEF GoalVersion
    <3>8. ~Record!Supersedes(r.ver, pool[n][t])
      BY <3>4, <3>6, <3>7 DEF Record!Supersedes
    <3> QED
      BY Zenon, <1>2, <2>3, <3>8
  <2> QED
    BY Zenon, <2>2, <2>3
<1> QED
  BY Zenon, <1>3, <1>5, <1>6, <1>7, <1>9, <1>10, <1>11

LEMMA DeliverClaim ==
  ASSUME Inv, NEW n \in Node, NEW r \in sent, Deliver(n, r), r.kind = "claim"
  PROVE  Inv'
<1> USE DEF Inv
<1> DEFINE u == r.task
<1>1. u \in Task /\ r.ver \in ClaimVersion
  BY Zenon DEF TypeOK
<1>2. /\ Record!Supersedes(r.ver, claim[n][u])
      /\ claim' = [claim EXCEPT ![n][u] = r.ver]
      /\ pool' = pool /\ sent' \subseteq sent
      /\ clock' = [clock EXCEPT ![n] = IF r.ver.ts > clock[n] THEN r.ver.ts ELSE clock[n]]
      /\ UNCHANGED <<held, ready, fit, score, silent, alive, dropped, spent>>
  BY Zenon DEF Deliver, Undelivered, mission
<1> HIDE DEF u
<1>3. TypeOK'
  <2>1. claim' \in [Node -> [Task -> ClaimVersion]]
    BY Zenon, <1>1, <1>2 DEF TypeOK
  <2>2. clock' \in [Node -> Nat]
    BY Zenon, <1>1, <1>2 DEF TypeOK, ClaimVersion
  <2> QED
    BY <1>2, <2>1, <2>2 DEF TypeOK
<1>4. \A m \in Node, t \in Task :
        claim'[m][t] = IF m = n /\ t = u THEN r.ver ELSE claim[m][t]
  BY Zenon, <1>2 DEF TypeOK
<1>5. StampsPast'
  <2> SUFFICES ASSUME NEW m \in Node, NEW t \in Task
               PROVE  pool'[m][t].ts <= clock'[m] /\ claim'[m][t].ts <= clock'[m]
    BY Zenon DEF StampsPast
  <2>1. /\ clock[m] \in Nat /\ pool[m][t].ts \in Nat /\ claim[m][t].ts \in Nat /\ r.ver.ts \in Nat
        /\ pool[m][t].ts <= clock[m] /\ claim[m][t].ts <= clock[m]
    BY <1>1 DEF TypeOK, StampsPast, GoalVersion, ClaimVersion
  <2>2. clock'[m] = IF m = n /\ r.ver.ts > clock[m] THEN r.ver.ts ELSE clock[m]
    BY Zenon, <1>2 DEF TypeOK
  <2>3. claim'[m][t] = IF m = n /\ t = u THEN r.ver ELSE claim[m][t]
    BY Zenon, <1>4
  <2> QED
    BY <1>2, <2>1, <2>2, <2>3
<1>6. GoalsPostedOnce' /\ PrerequisitesNewest'
  BY Zenon, <1>2 DEF GoalsPostedOnce, PrerequisitesNewest
\* Nobody sends a node a newer version of its own claim.
<1>7. ASSUME NEW m \in Node, NEW t \in Task, OwnClaim(m, t)' PROVE OwnClaim(m, t)
  <2>1. CASE m = n /\ t = u
    <3>1. Record!Live(r.ver) /\ r.ver.val.owner = n
      BY Zenon, <1>4, <1>7, <2>1 DEF OwnClaim
    <3>2. ~Record!Supersedes(r.ver, claim[n][u])
      BY Zenon, <3>1 DEF OwnClaimsNewest, Outdated, u
    <3> QED
      BY Zenon, <1>2, <3>2
  <2>2. CASE ~(m = n /\ t = u)
    BY Zenon, <1>4, <1>7, <2>2 DEF OwnClaim
  <2> QED
    BY Zenon, <2>1, <2>2
<1>8. ASSUME NEW v \in ClaimVersion, NEW k \in Node, NEW t \in Task, Outdated(v, k, t)
      PROVE  Record!Live(v) /\ v.val.owner = k => ~Record!Supersedes(v, claim'[k][t])
  <2>1. claim[k][t] \in ClaimVersion
    <3>1. claim \in [Node -> [Task -> ClaimVersion]]
      BY Zenon DEF TypeOK
    <3> HIDE DEF Inv
    <3> QED
      BY Zenon, <3>1
  <2>2. CASE k = n /\ t = u
    <3> SUFFICES ASSUME ~Record!Supersedes(v, claim[n][u])
                 PROVE  ~Record!Supersedes(v, r.ver)
      BY Zenon, <1>4, <1>8, <2>2 DEF Outdated
    <3> QED
      BY <1>1, <1>2, <2>1, <2>2 DEF Record!Supersedes, ClaimVersion
  <2>3. CASE ~(k = n /\ t = u)
    BY Zenon, <1>4, <1>8, <2>3 DEF Outdated
  <2> QED
    BY Zenon, <2>2, <2>3
<1>9. OwnClaimsNewest'
  <2> SUFFICES ASSUME NEW k \in Node
               PROVE  /\ \A m \in Node, t \in Task : Outdated(claim[m][t], k, t)'
                      /\ \A q \in sent' : q.kind = "claim" => Outdated(q.ver, k, q.task)'
    BY Zenon DEF OwnClaimsNewest
  <2>1. ASSUME NEW m \in Node, NEW t \in Task
        PROVE  Record!Live(claim'[m][t]) /\ claim'[m][t].val.owner = k
                 => ~Record!Supersedes(claim'[m][t], claim'[k][t])
    <3>1. claim'[m][t] \in ClaimVersion
      <4>1. claim' \in [Node -> [Task -> ClaimVersion]]
        BY Zenon, <1>3 DEF TypeOK
      <4> HIDE DEF Inv
      <4> QED
        BY Zenon, <4>1
    <3>2. Outdated(claim'[m][t], k, t)
      <4>1. CASE m = n /\ t = u
        BY Zenon, <1>4, <4>1 DEF OwnClaimsNewest, u
      <4>2. CASE ~(m = n /\ t = u)
        BY Zenon, <1>4, <4>2 DEF OwnClaimsNewest
      <4> QED
        BY Zenon, <4>1, <4>2
    <3> QED
      BY Zenon, <1>8, <3>1, <3>2
  <2>2. ASSUME NEW q \in sent', q.kind = "claim"
        PROVE  Record!Live(q.ver) /\ q.ver.val.owner = k
                 => ~Record!Supersedes(q.ver, claim'[k][q.task])
    <3>1. q \in sent
      BY Zenon, <1>2
    <3>2. q.ver \in ClaimVersion /\ q.task \in Task
      BY Zenon, <2>2, <3>1 DEF TypeOK
    <3>3. Outdated(q.ver, k, q.task)
      BY Zenon, <2>2, <3>1 DEF OwnClaimsNewest
    <3> QED
      BY Zenon, <1>8, <3>2, <3>3
  <2> QED
    BY Zenon, <2>1, <2>2 DEF Outdated
<1>10. ClaimsPosted'
  <2> SUFFICES ASSUME NEW m \in Node
               PROVE  /\ \A g \in Goal : OwnClaim(m, g)' => pool'[m][g].ts > 0
                      /\ OwnClaim(m, Prerequisite(m))' => Record!Live(pool'[m][Prerequisite(m)])
                      /\ \A k \in Node \ {m} : ~OwnClaim(m, Prerequisite(k))'
    BY Zenon DEF ClaimsPosted
  <2>1. Goal \subseteq Task /\ \A k \in Node : Prerequisite(k) \in Task
    BY Zenon, Names DEF Task
  <2> QED
    BY <1>2, <1>7, <2>1 DEF ClaimsPosted
<1>11. NoStrayClaim'
  <2> SUFFICES ASSUME NEW m \in Node, NEW t \in Task,
                      Record!Live(pool'[m][t]), OwnClaim(m, t)'
               PROVE  held'[m] = t \/ t \in dropped'[m]
    BY Zenon DEF NoStrayClaim
  <2>1. OwnClaim(m, t)
    BY Zenon, <1>7
  <2>2. held'[m] = held[m] /\ dropped'[m] = dropped[m]
    BY Zenon, <1>2
  <2> QED
    BY <1>2, <2>1, <2>2 DEF NoStrayClaim
<1> QED
  BY Zenon, <1>3, <1>5, <1>6, <1>9, <1>10, <1>11

-----------------------------------------------------------------------------
(* Initially, and in every step *)

LEMMA InitInv == Init => Inv
<1> SUFFICES ASSUME Init PROVE Inv
  OBVIOUS
<1>1. PICK s \in Scenario :
        /\ pool = [n \in Node |-> [t \in Task |->
                     IF t \in s.known[n] THEN Posted ELSE Record!Absent]]
        /\ claim = [n \in Node |-> [t \in Task |-> Record!Absent]]
        /\ clock = [n \in Node |-> IF s.known[n] = {} THEN 0 ELSE 1]
        /\ held = [n \in Node |-> None]
        /\ ready = s.ready
        /\ fit = s.fit /\ score = s.score
        /\ silent = s.silent
        /\ alive = s.up
        /\ sent = {[kind |-> "goal", task |-> g, ver |-> Posted] :
                     g \in {h \in Goal : \E m, n \in Node : h \in s.known[m] \ s.known[n]}}
        /\ dropped = [n \in Node |-> {}]
        /\ spent = s.spent
  BY Zenon DEF Init
<1>2. /\ s.known \in [Node -> SUBSET Goal] /\ s.fit \in [Node -> SUBSET Goal]
      /\ s.score \in [Node -> [Goal -> Scores]] /\ s.silent \in [Node -> SUBSET Node]
      /\ s.ready \subseteq Node /\ s.up \subseteq Node
      /\ s.spent \in [Budget -> Nat]
  BY Zenon, ScenarioAssumption
<1>3. Posted \in GoalVersion /\ Record!Absent \in GoalVersion /\ Record!Absent \in ClaimVersion
  BY Zenon DEF Posted, Record!Absent, GoalVersion, ClaimVersion
<1>4. /\ Posted.ts = 1 /\ Posted.origin = 1 /\ Posted.val = Open
      /\ Record!Absent.ts = 0 /\ Record!Absent.origin = 0 /\ Record!Absent.val = Tombstone
      /\ Open # Tombstone
  BY NamesAssumption DEF Posted, Record!Absent
<1>5. ASSUME NEW r \in sent PROVE \E g \in Goal : r = [kind |-> "goal", task |-> g, ver |-> Posted]
  BY Zenon, <1>1
<1>6. TypeOK
  <2>1. /\ pool \in [Node -> [Task -> GoalVersion]] /\ claim \in [Node -> [Task -> ClaimVersion]]
        /\ clock \in [Node -> Nat] /\ held \in [Node -> Task \cup {None}]
        /\ dropped \in [Node -> SUBSET Task]
    BY Zenon, <1>1, <1>3
  <2>2. sent \subseteq [kind : {"goal"}, task : Task, ver : GoalVersion]
    BY <1>3, <1>5 DEF Task
  <2> QED
    BY Zenon, <1>1, <1>2, <2>1, <2>2 DEF TypeOK
<1>7. ASSUME NEW n \in Node, NEW t \in Task
      PROVE  /\ pool[n][t] = IF t \in s.known[n] THEN Posted ELSE Record!Absent
             /\ claim[n][t] = Record!Absent
             /\ clock[n] = IF s.known[n] = {} THEN 0 ELSE 1
  BY Zenon, <1>1
<1>8. StampsPast
  <2> SUFFICES ASSUME NEW n \in Node, NEW t \in Task
               PROVE  pool[n][t].ts <= clock[n] /\ claim[n][t].ts <= clock[n]
    BY Zenon DEF StampsPast
  <2>1. CASE s.known[n] = {}
    <3>1. clock[n] = 0 /\ pool[n][t].ts = 0 /\ claim[n][t].ts = 0
      BY Zenon, <1>4, <1>7, <2>1
    <3> QED
      BY ONLY <3>1
  <2>2. CASE s.known[n] # {}
    <3>1. clock[n] = 1 /\ pool[n][t].ts \in {0, 1} /\ claim[n][t].ts = 0
      BY Zenon, <1>4, <1>7, <2>2
    <3> QED
      BY ONLY <3>1
  <2> QED
    BY Zenon, <2>1, <2>2
<1>9. GoalsPostedOnce
  <2>1. PostedOnce(Posted) /\ PostedOnce(Record!Absent)
    BY Zenon, <1>4 DEF PostedOnce
  <2>2. ASSUME NEW g \in Goal, NEW n \in Node PROVE PostedOnce(pool[n][g])
    BY Zenon, <1>7, <2>1 DEF Task
  <2>3. ASSUME NEW r \in sent PROVE PostedOnce(r.ver)
    BY <1>5, <2>1
  <2> QED
    BY Zenon, <2>2, <2>3 DEF GoalsPostedOnce
<1>10. \A n \in Node, t \in Task : ~Record!Live(claim[n][t])
  BY <1>4, <1>7 DEF Record!Live
<1>11. OwnClaimsNewest
  <2>1. \A r \in sent : r.kind # "claim"
    BY <1>5
  <2> QED
    BY Zenon, <1>10, <2>1 DEF OwnClaimsNewest, Outdated
<1>12. PrerequisitesNewest
  <2>1. ASSUME NEW n \in Node, NEW m \in Node PROVE pool[m][Prerequisite(n)] = Record!Absent
    <3>1. Prerequisite(n) \in Task /\ Prerequisite(n) \notin s.known[m]
      BY Zenon, <1>2, Names
    <3> QED
      BY Zenon, <1>7, <3>1
  <2>2. ~Record!Supersedes(Record!Absent, Record!Absent)
    BY <1>4 DEF Record!Supersedes
  <2>3. ASSUME NEW n \in Node, NEW r \in sent PROVE r.task # Prerequisite(n)
    BY <1>5, Names
  <2> QED
    BY Zenon, <2>1, <2>2, <2>3 DEF PrerequisitesNewest
<1>13. ClaimsPosted /\ NoStrayClaim
  <2>1. \A n \in Node, t \in Task : ~OwnClaim(n, t)
    BY Zenon, <1>10 DEF OwnClaim
  <2>2. Goal \subseteq Task /\ \A n \in Node : Prerequisite(n) \in Task
    BY Zenon DEF Task
  <2> QED
    BY Zenon, <2>1, <2>2 DEF ClaimsPosted, NoStrayClaim
<1> QED
  BY <1>6, <1>8, <1>9, <1>11, <1>12, <1>13 DEF Inv

\* Scores, silence and crashes leave the records and what is held alone.
LEMMA Elsewhere ==
  ASSUME Inv, UNCHANGED shared, TypeOK'
  PROVE  Inv'
<1>1. UNCHANGED <<pool, claim, clock, held, ready, sent, dropped>>
  BY Zenon DEF shared
<1>2. StampsPast' /\ GoalsPostedOnce' /\ OwnClaimsNewest'
  BY Zenon, <1>1 DEF Inv, StampsPast, GoalsPostedOnce, OwnClaimsNewest, Outdated
<1>3. PrerequisitesNewest' /\ ClaimsPosted' /\ NoStrayClaim'
  BY Zenon, <1>1 DEF Inv, PrerequisitesNewest, ClaimsPosted, NoStrayClaim, OwnClaim
<1> QED
  BY Zenon, <1>2, <1>3 DEF Inv

LEMMA BoundSpent ==
  ASSUME Inv, NEW f \in Budget, spent' = [spent EXCEPT ![f] = @ + 1]
  PROVE  spent' \in [Budget -> Nat]
<1>1. spent \in [Budget -> Nat]
  BY Zenon DEF Inv, TypeOK
<1> QED
  BY <1>1

\* Every action keeps the invariant.
LEMMA StepInv == Inv /\ [Next]_vars => Inv'
<1> SUFFICES ASSUME Inv, [Next]_vars PROVE Inv'
  BY Zenon
<1>1. ASSUME NEW n \in Node, NEW refused \in BOOLEAN, Work(n, refused) PROVE Inv'
  <2>1. PICK c \in ClaimBestGoal(n, refused) :
          Commit(n, c.writes, c.taken, 0) /\ Drop(n, c.key) /\ held' = [held EXCEPT ![n] = c.key]
    BY Zenon, <1>1 DEF Work
  <2>2. Claimed(n, c.key, c.writes) /\ c.taken \in Nat /\ 0 \in Nat
    BY BestGoalClaimed
  <2>3. c.writes \in Seq(AnyWrite) /\ HasEffect(n, c.writes, c.key, c.key)
    BY Zenon, <2>2, WorkEffect DEF Claimed
  <2>4. ready' \subseteq Node /\ UNCHANGED mission
    BY Zenon, <1>1 DEF Work, Inv, TypeOK
  <2> QED
    BY Zenon, <2>1, <2>2, <2>3, <2>4, CommitKeeps
<1>2. ASSUME NEW n \in Node, NEW refused \in BOOLEAN, Finish(n, refused) PROVE Inv'
  <2>1. PICK c \in ClaimBestGoal(n, refused) :
          /\ c.key = Prerequisite(n) \/ c.key \in Goal
          /\ Commit(n, c.writes \o Done(n, c.key).writes, c.taken, 0) /\ Drop(n, c.key)
          /\ ready' = Done(n, c.key).ready
    BY Zenon, <1>2 DEF Finish
  <2>2. Claimed(n, c.key, c.writes) /\ c.key \in Task /\ c.taken \in Nat /\ 0 \in Nat
    BY <2>1, BestGoalClaimed, Names DEF Task
  <2>3. /\ c.writes \o Done(n, c.key).writes \in Seq(AnyWrite)
        /\ HasEffect(n, c.writes \o Done(n, c.key).writes, c.key, None)
    BY <2>1, <2>2, FinishEffect
  <2>4. ready' \subseteq Node
    BY Zenon, <2>1 DEF Done, Inv, TypeOK
  <2>5. held' = [held EXCEPT ![n] = None] /\ UNCHANGED mission
    BY Zenon, <1>2 DEF Finish
  <2> QED
    BY Zenon, <2>1, <2>2, <2>3, <2>4, <2>5, CommitKeeps
<1>3. ASSUME NEW n \in Node, NEW refused \in BOOLEAN, Block(n, refused) PROVE Inv'
  <2>1. PICK c \in ClaimBestGoal(n, refused) :
          /\ c.key \in Goal
          /\ Commit(n, c.writes \o Blocked(n, c.key), c.taken, 0) /\ Drop(n, c.key)
    BY Zenon, <1>3 DEF Block
  <2>2. Claimed(n, c.key, c.writes) /\ c.taken \in Nat /\ 0 \in Nat
    BY BestGoalClaimed
  <2>3. /\ c.writes \o Blocked(n, c.key) \in Seq(AnyWrite)
        /\ HasEffect(n, c.writes \o Blocked(n, c.key), c.key, None)
    BY Zenon, <2>1, <2>2, BlockEffect
  <2>4. /\ held' = [held EXCEPT ![n] = None]
        /\ ready' \subseteq Node /\ UNCHANGED mission
    BY Zenon, <1>3 DEF Block, Inv, TypeOK
  <2> QED
    BY Zenon, <2>1, <2>2, <2>3, <2>4, CommitKeeps
<1>4. ASSUME NEW n \in Node, NEW refused \in BOOLEAN, Stall(n, refused) PROVE Inv'
  <2>1. PICK c \in ClaimBestGoal(n, refused) :
          /\ c.key \in Goal \cup {Prerequisite(n)}
          /\ Commit(n, Append(c.writes, Delete("claim", c.key)), c.taken, 1) /\ Drop(n, c.key)
    BY Zenon, <1>4 DEF Stall
  <2>2. Claimed(n, c.key, c.writes) /\ c.key \in Task /\ c.taken \in Nat /\ 1 \in Nat
    BY <2>1, BestGoalClaimed, Names DEF Task
  <2>3. /\ Append(c.writes, Delete("claim", c.key)) \in Seq(AnyWrite)
        /\ HasEffect(n, Append(c.writes, Delete("claim", c.key)), c.key, None)
    BY Zenon, <2>2, ReleaseEffect
  <2>4. /\ held' = [held EXCEPT ![n] = None]
        /\ ready' \subseteq Node /\ UNCHANGED mission
    BY Zenon, <1>4 DEF Stall, Inv, TypeOK
  <2> QED
    BY Zenon, <2>1, <2>2, <2>3, <2>4, CommitKeeps
<1>5. ASSUME NEW n \in Node, NEW r \in sent, Deliver(n, r) PROVE Inv'
  <2>1. r.kind = "goal" \/ r.kind = "claim"
    BY Zenon, <1>5 DEF Deliver
  <2> QED
    BY Zenon, <1>5, <2>1, DeliverGoal, DeliverClaim
<1>6. ASSUME NEW n \in Node, Crash(n) PROVE Inv'
  <2>1. /\ UNCHANGED <<shared, fit, score, silent>> /\ alive' \subseteq alive
        /\ spent' = [spent EXCEPT !["crashes"] = @ + 1] /\ "crashes" \in Budget
    BY Zenon, <1>6 DEF Crash, Budget
  <2>2. spent' \in [Budget -> Nat]
    BY Zenon, <2>1, BoundSpent
  <2>3. TypeOK'
    BY Zenon, <2>1, <2>2 DEF Inv, TypeOK, shared
  <2> QED
    BY Zenon, <2>1, <2>3, Elsewhere
<1>7. ASSUME NEW n \in Node, NEW g \in Goal, Rescore(n, g) PROVE Inv'
  <2>1. /\ UNCHANGED <<shared, silent, alive>>
        /\ spent' = [spent EXCEPT !["rescores"] = @ + 1] /\ "rescores" \in Budget
    BY Zenon, <1>7 DEF Rescore, Budget
  <2>2. spent' \in [Budget -> Nat]
    BY Zenon, <2>1, BoundSpent
  <2>3. fit' \in [Node -> SUBSET Goal] /\ score' \in [Node -> [Goal -> Scores]]
    <3>1. fit \in [Node -> SUBSET Goal] /\ score \in [Node -> [Goal -> Scores]]
      BY Zenon DEF Inv, TypeOK
    <3>2. CASE fit' = [fit EXCEPT ![n] = @ \ {g}] /\ score' = score
      BY <3>1, <3>2
    <3>3. ASSUME NEW v \in Scores, fit' = [fit EXCEPT ![n] = @ \cup {g}],
                 score' = [score EXCEPT ![n][g] = v]
          PROVE  fit' \in [Node -> SUBSET Goal] /\ score' \in [Node -> [Goal -> Scores]]
      BY <3>1, <3>3
    <3> QED
      BY Zenon, <1>7, <3>2, <3>3 DEF Rescore
  <2>4. TypeOK'
    BY Zenon, <2>1, <2>2, <2>3 DEF Inv, TypeOK, shared
  <2> QED
    BY Zenon, <2>1, <2>4, Elsewhere
<1>8. ASSUME NEW n \in Node, NEW m \in Node, Bury(n, m) \/ Lapse(n, m) \/ Hear(n, m) PROVE Inv'
  <2>1. UNCHANGED <<shared, fit, score, alive>>
    BY Zenon, <1>8 DEF Bury, Lapse, Hear
  <2>2. spent' \in [Budget -> Nat]
    <3>1. \/ spent' = spent
          \/ spent' = [spent EXCEPT !["lapses"] = @ + 1] /\ "lapses" \in Budget
      BY Zenon, <1>8 DEF Bury, Lapse, Hear, Budget
    <3> QED
      BY Zenon, <3>1, BoundSpent DEF Inv, TypeOK
  <2>3. silent' \in [Node -> SUBSET Node]
    <3>1. silent \in [Node -> SUBSET Node]
      BY Zenon DEF Inv, TypeOK
    <3>2. \/ silent' = [silent EXCEPT ![n] = @ \cup {m}]
          \/ silent' = [silent EXCEPT ![n] = @ \ {m}]
      BY Zenon, <1>8 DEF Bury, Lapse, Hear
    <3> QED
      BY <3>1, <3>2
  <2>4. TypeOK'
    BY Zenon, <2>1, <2>2, <2>3 DEF Inv, TypeOK, shared
  <2> QED
    BY Zenon, <2>1, <2>4, Elsewhere
<1>9. ASSUME UNCHANGED vars PROVE Inv'
  <2>1. UNCHANGED shared /\ UNCHANGED <<fit, score, silent, alive, spent>>
    BY Zenon, <1>9 DEF vars, shared
  <2>2. TypeOK'
    BY Zenon, <2>1 DEF Inv, TypeOK, shared
  <2> QED
    BY Zenon, <2>1, <2>2, Elsewhere
<1> QED
  BY Zenon, <1>1, <1>2, <1>3, <1>4, <1>5, <1>6, <1>7, <1>8, <1>9, ReassertKeeps DEF Next

(***************************************************************************)
(* claim_best_goal, cas_claim and the deletions of goal_pool_tick leave no *)
(* claim behind: a node owns no claim on an open goal other than the one   *)
(* it holds, whatever arrives in between and whatever scoreGoal returns    *)
(* from tick to tick; but for the claim on a goal that was rejected while  *)
(* it was held, which stays until the node claims that goal again.         *)
(***************************************************************************)
THEOREM ClaimsFollowHeldKey == Spec => []NoStrayClaim
<1>1. Inv => NoStrayClaim
  BY DEF Inv
<1> QED
  BY <1>1, InitInv, StepInv, PTL DEF Spec

(***************************************************************************)
(* The records of goals and of claims keep their kinds of payload, in      *)
(* every replica and on the way.                                           *)
(***************************************************************************)
THEOREM TypeCorrect == Spec => []TypeOK
<1>1. Inv => TypeOK
  BY DEF Inv
<1> QED
  BY <1>1, InitInv, StepInv, PTL DEF Spec

(***************************************************************************)
(* Only the node itself writes its claims: the version a node has of its   *)
(* own claim is the newest there is, so gossip cannot hand it back a claim *)
(* it has released or lost.                                                *)
(***************************************************************************)
THEOREM OwnClaimsStayNewest == Spec => []OwnClaimsNewest
<1>1. Inv => OwnClaimsNewest
  BY DEF Inv
<1> QED
  BY <1>1, InitInv, StepInv, PTL DEF Spec
=============================================================================
