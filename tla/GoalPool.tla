------------------------------ MODULE GoalPool ------------------------------
(***************************************************************************)
(* The goal-pool auction: nodes claim goals of the shared world by scored  *)
(* compare-and-set on their own replica, drop a claim that another node's  *)
(* overwrote, take over the claims of silent peers, complete goals, and    *)
(* author a prerequisite goal for themselves when a goal is blocked.       *)
(*                                                                         *)
(* Goal and claim records are last-writer-wins fields of module Versions.  *)
(* What a node wrote reaches the others record by record, late, in any     *)
(* order and any number of times: a bounded delta may split them.  The     *)
(* scorer and the action library are mission scripts, modelled by what     *)
(* they return.  Every brain tick also writes the held key as a self       *)
(* field; `slack' bounds how many of these clock ticks the model counts.   *)
(***************************************************************************)
EXTENDS Naturals, Sequences

CONSTANTS Node,
          Goal,
          Scores,    \* numbers scoreGoal may return
          Margin,    \* contest_margin
          Scenario,  \* how it may begin: see ScenarioAssumption
          Open,      \* the payload of a goal record
          Tombstone,
          None,      \* no key held
          MaxClock,  \* bound on the logical clocks
          Limit      \* bounds on what happens: see Budget

\* Extra clock ticks, crashes, scores that change, re-assertions, live peers
\* that fall silent, claims taken from live peers, and goals released without
\* a prerequisite.
Budget == {"slack", "crashes", "rescores", "reasserts", "lapses", "takeovers", "stalls"}

ASSUME ScenarioAssumption ==
  \A s \in Scenario :
    /\ s.known \in [Node -> SUBSET Goal]
    /\ s.fit \in [Node -> SUBSET Goal]
    /\ s.score \in [Node -> [Goal -> Scores]]
    /\ s.silent \in [Node -> SUBSET Node]
    /\ s.ready \subseteq Node /\ s.up \subseteq Node
    /\ s.spent \in [Budget -> Nat]
ASSUME NodeAssumption == Node \subseteq Nat \ {0} /\ MaxClock \in Nat
ASSUME ScoreAssumption == Scores \subseteq Nat
ASSUME LimitAssumption == Limit \in [Budget -> Nat]

VARIABLES pool,    \* pool[n][t]: the goal record of task t at node n
          claim,   \* claim[n][t]: the record claim_<t> at node n
          clock,
          held,    \* the self field the held key is published into
          ready,   \* nodes none of whose actions is blocked
          fit,     \* fit[n]: the goals scoreGoal accepts at n
          score,   \* score[n][g]: the number it returns for them
          silent,  \* silent[n]: peers n has not heard from within the peer TTL
          alive,
          sent,    \* records on their way to some node
          dropped, \* dropped[n]: goals n let go of with the claim still its own
          spent    \* what has been used of Limit

vars == <<pool, claim, clock, held, ready, fit, score, silent, alive, sent, dropped, spent>>

\* goal_pre_<id>, the prerequisite goal of node n.
Prerequisite(n) == <<"goal_pre", n>>

Task == Goal \cup {Prerequisite(n) : n \in Node}

Bid == [owner : Node, score : Nat]

ASSUME NamesAssumption ==
  /\ \A n \in Node : Prerequisite(n) \notin Goal
  /\ None \notin Task
  /\ Tombstone \notin {Open} \cup Bid

Record == INSTANCE Versions
            WITH Key <- Task, Value <- {Open} \cup Bid

\* An interrupt goal outscores every other; nobody else may take it.
Interrupt == 1000

ScoreOf(n, t) == IF t = Prerequisite(n) THEN Interrupt ELSE score[n][t]

Scorable(n, t) == t = Prerequisite(n) \/ t \in fit[n]
-----------------------------------------------------------------------------
Posted == [ts |-> 1, origin |-> 1, val |-> Open]

\* Node 1 has posted goals; some of them are known to other nodes.
Init ==
  \E s \in Scenario :
    /\ pool = [n \in Node |-> [t \in Task |->
                 IF t \in s.known[n] THEN Posted ELSE Record!Absent]]
    /\ claim = [n \in Node |-> [t \in Task |-> Record!Absent]]
    /\ clock = [n \in Node |-> IF s.known[n] = {} THEN 0 ELSE 1]
    /\ held = [n \in Node |-> None]
    /\ ready = s.ready
    /\ fit = s.fit /\ score = s.score
    /\ silent = s.silent
    /\ alive = s.up
    /\ sent = {[kind |-> "goal", task |-> g, ver |-> Posted] :
                 g \in {h \in Goal : \E m, n \in Node : h \in s.known[m] \ s.known[n]}}
    /\ dropped = [n \in Node |-> {}]
    /\ spent = s.spent

OwnClaim(n, t) == Record!Live(claim[n][t]) /\ claim[n][t].val.owner = n

\* Mutant: whether the claim is still ours is not looked at.
CurrentIfPosted(n) ==
  /\ held[n] # None
  /\ Record!Live(pool[n][held[n]])
  /\ Scorable(n, held[n])

\* have_current
HaveCurrent(n) ==
  /\ held[n] # None
  /\ OwnClaim(n, held[n])
  /\ Record!Live(pool[n][held[n]])
  /\ Scorable(n, held[n])

\* Mutant: a silent holder keeps its claim.
EligibleWithoutTakeover(n, t) ==
  \/ ~Record!Live(claim[n][t])
  \/ claim[n][t].val.owner = n
  \/ ScoreOf(n, t) > claim[n][t].val.score + Margin

(***************************************************************************)
(* Unclaimed or ours, held by a peer not heard from for longer than the    *)
(* peer TTL or not tracked at all, or beaten by more than the margin.      *)
(***************************************************************************)
Eligible(n, t) ==
  \/ ~Record!Live(claim[n][t])
  \/ claim[n][t].val.owner = n
  \/ claim[n][t].val.owner \in silent[n]
  \/ ScoreOf(n, t) > claim[n][t].val.score + Margin

Candidates(n) ==
  {t \in Task \ {held[n]} :
     Record!Live(pool[n][t]) /\ Scorable(n, t) /\ Eligible(n, t)}

\* The scan keeps the first candidate no other beats; slot order decides.
BestCandidates(n) ==
  LET found == Candidates(n) IN
  {t \in found : \A u \in found : ScoreOf(n, u) <= ScoreOf(n, t)}

SwitchTo(n) ==
  {t \in BestCandidates(n) :
     HaveCurrent(n) => ScoreOf(n, t) > ScoreOf(n, held[n]) + Margin}

\* cas_claim's record: who claims and the score.
ClaimWrite(n, t) ==
  [kind |-> "claim", task |-> t, val |-> [owner |-> n, score |-> ScoreOf(n, t)]]

Delete(kind, t) == [kind |-> kind, task |-> t, val |-> Tombstone]

\* Mutant: the claim switched away from is not released.
ClaimWithoutRelease(n, t) == <<ClaimWrite(n, t)>>

\* cas_claim, then the release of the claim switched away from.
SwitchWrites(n, t) ==
  <<ClaimWrite(n, t)>>
    \o (IF HaveCurrent(n) THEN <<Delete("claim", held[n])>> ELSE <<>>)

\* The claim on t is one of a silent peer that is alive nevertheless.
HeldByLive(n, t) ==
  Record!Live(claim[n][t]) /\ claim[n][t].val.owner \in (alive \cap silent[n]) \ {n}

(***************************************************************************)
(* The outcomes of claim_best_goal: the key now held, the records written, *)
(* in order, and whether a live peer loses its claim.  The compare-and-set *)
(* reads and writes the replica in one go, so only a store without room    *)
(* can refuse it.                                                          *)
(***************************************************************************)
ClaimBestGoal(n, refused) ==
  LET kept == IF HaveCurrent(n) THEN held[n] ELSE None
      won == IF refused THEN {} ELSE SwitchTo(n)
  IN  IF won = {}
      THEN {[key |-> kept, writes |-> <<>>, taken |-> 0]}
      ELSE {[key |-> t, writes |-> SwitchWrites(n, t),
             taken |-> IF HeldByLive(n, t) THEN 1 ELSE 0] : t \in won}

\* A goal the node held and its scorer rejects now: claim_best_goal forgets
\* it, and leaves the claim as it is.
Rejected(n) ==
  {t \in {held[n]} \ {None} :
     OwnClaim(n, t) /\ Record!Live(pool[n][t]) /\ ~Scorable(n, t)}

\* What a node that ends up with `key' has dropped.
Drop(n, key) == dropped' = [dropped EXCEPT ![n] = (@ \cup Rejected(n)) \ {key}]

\* A goal found satisfied: goal and claim are deleted, nothing is held.
Done(n, t) ==
  [writes |-> <<Delete("goal", t), Delete("claim", t)>>,
   ready |-> IF t = Prerequisite(n) THEN ready \cup {n} ELSE ready]

\* Mutant: the claim is kept.
BlockedKeepsClaim(n, t) ==
  <<[kind |-> "goal", task |-> Prerequisite(n), val |-> Open]>>

\* No action applies, but one would after the effect of another: post that
\* as the prerequisite unless it exists, and release.
Blocked(n, t) ==
  LET pre == Prerequisite(n) IN
  (IF Record!Live(pool[n][pre]) THEN <<>>
   ELSE <<[kind |-> "goal", task |-> pre, val |-> Open]>>)
    \o <<Delete("claim", t)>>

\* Apply writes, in order, to the records of one kind of a node.
Stamped(n, base, writes, kind, records) ==
  [t \in Task |->
     LET mine == {i \in DOMAIN writes : writes[i].kind = kind /\ writes[i].task = t}
     IN  IF mine = {} THEN records[t]
         ELSE LET last == CHOOSE i \in mine : \A j \in mine : j <= i
              IN  [ts |-> base + last, origin |-> n, val |-> writes[last].val]]

\* Records some running node would still take; the others change nothing.
Undelivered(records) ==
  {r \in records : \E n \in alive :
     Record!Supersedes(r.ver, (IF r.kind = "goal" THEN pool' ELSE claim')[n][r.task])}

\* Only what the store holds at the end of the tick can be exported.
Commit(n, writes, taken, stalled) ==
  \E extra \in 0..(Limit.slack - spent.slack) :
    LET base == clock[n] + extra
        goals == Stamped(n, base, writes, "goal", pool[n])
        claims == Stamped(n, base, writes, "claim", claim[n])
    IN  /\ base + Len(writes) <= MaxClock
        /\ spent.takeovers + taken <= Limit.takeovers
        /\ spent.stalls + stalled <= Limit.stalls
        /\ writes = <<>> => extra = 0
        /\ clock' = [clock EXCEPT ![n] = base + Len(writes)]
        /\ pool' = [pool EXCEPT ![n] = goals]
        /\ claim' = [claim EXCEPT ![n] = claims]
        /\ sent' = Undelivered(sent
             \cup {[kind |-> "goal", task |-> t, ver |-> goals[t]] :
                     t \in {u \in Task : goals[u] # pool[n][u]}}
             \cup {[kind |-> "claim", task |-> t, ver |-> claims[t]] :
                     t \in {u \in Task : claims[u] # claim[n][u]}})
        /\ spent' = [spent EXCEPT !.slack = @ + extra, !.takeovers = @ + taken,
                                  !.stalls = @ + stalled]

mission == <<fit, score, silent, alive>>

(***************************************************************************)
(* goal_pool_tick: claim, publish the key, and dispatch.  A held goal is   *)
(* worked on, or waits for a provider, without touching the pool; or it is *)
(* found satisfied; or it is blocked.                                      *)
(***************************************************************************)
Work(n, refused) ==
  /\ n \in alive
  /\ \E c \in ClaimBestGoal(n, refused) :
       /\ Commit(n, c.writes, c.taken, 0)
       /\ Drop(n, c.key)
       /\ held' = [held EXCEPT ![n] = c.key]
  /\ UNCHANGED <<ready, mission>>

Finish(n, refused) ==
  /\ n \in alive
  /\ \E c \in ClaimBestGoal(n, refused) :
       /\ c.key = Prerequisite(n) \/ (c.key \in Goal /\ n \in ready)
       /\ Commit(n, c.writes \o Done(n, c.key).writes, c.taken, 0)
       /\ Drop(n, c.key)
       /\ ready' = Done(n, c.key).ready
  /\ held' = [held EXCEPT ![n] = None]
  /\ UNCHANGED mission

Block(n, refused) ==
  /\ n \in alive \ ready
  /\ \E c \in ClaimBestGoal(n, refused) :
       /\ c.key \in Goal
       /\ Commit(n, c.writes \o Blocked(n, c.key), c.taken, 0)
       /\ Drop(n, c.key)
  /\ held' = [held EXCEPT ![n] = None]
  /\ UNCHANGED <<ready, mission>>

(***************************************************************************)
(* A blocked goal is released with nothing posted: the prerequisite's      *)
(* record does not fit or the store has no room for it, or the goal is the *)
(* prerequisite, which exists.                                             *)
(***************************************************************************)
Stall(n, refused) ==
  /\ n \in alive \ ready
  /\ \E c \in ClaimBestGoal(n, refused) :
       /\ c.key \in Goal \cup {Prerequisite(n)}
       /\ Commit(n, Append(c.writes, Delete("claim", c.key)), c.taken, 1)
       /\ Drop(n, c.key)
  /\ held' = [held EXCEPT ![n] = None]
  /\ UNCHANGED <<ready, mission>>

\* Every 30th tick a claim that is kept is written again.
Reassert(n) ==
  /\ n \in alive
  /\ HaveCurrent(n) /\ SwitchTo(n) = {}
  /\ spent.reasserts < Limit.reasserts
  /\ clock[n] < MaxClock
  /\ UNCHANGED <<pool, held, ready, mission, dropped>>
  /\ LET claims == Stamped(n, clock[n], <<ClaimWrite(n, held[n])>>, "claim", claim[n])
     IN  /\ claim' = [claim EXCEPT ![n] = claims]
         /\ sent' = Undelivered(sent \cup
              {[kind |-> "claim", task |-> held[n], ver |-> claims[held[n]]]})
  /\ clock' = [clock EXCEPT ![n] = @ + 1]
  /\ spent' = [spent EXCEPT !.reasserts = @ + 1]

\* A record of another node arrives and is merged.
Deliver(n, r) ==
  /\ n \in alive
  /\ \/ /\ r.kind = "goal"
        /\ Record!Supersedes(r.ver, pool[n][r.task])
        /\ pool' = [pool EXCEPT ![n][r.task] = r.ver]
        /\ UNCHANGED claim
     \/ /\ r.kind = "claim"
        /\ Record!Supersedes(r.ver, claim[n][r.task])
        /\ claim' = [claim EXCEPT ![n][r.task] = r.ver]
        /\ UNCHANGED pool
  /\ sent' = Undelivered(sent)
  /\ clock' = [clock EXCEPT ![n] = IF r.ver.ts > @ THEN r.ver.ts ELSE @]
  /\ UNCHANGED <<held, ready, mission, dropped, spent>>

shared == <<pool, claim, clock, held, ready, sent, dropped>>

Crash(n) ==
  /\ n \in alive
  /\ spent.crashes < Limit.crashes
  /\ alive' = alive \ {n}
  /\ spent' = [spent EXCEPT !.crashes = @ + 1]
  /\ UNCHANGED <<shared, fit, score, silent>>

\* scoreGoal, called on live values at every tick, changes its mind on g.
Rescore(n, g) ==
  /\ n \in alive
  /\ spent.rescores < Limit.rescores
  /\ \/ /\ g \in fit[n]
        /\ fit' = [fit EXCEPT ![n] = @ \ {g}]
        /\ UNCHANGED score
     \/ \E v \in Scores :
          /\ g \notin fit[n] \/ v # score[n][g]
          /\ fit' = [fit EXCEPT ![n] = @ \cup {g}]
          /\ score' = [score EXCEPT ![n][g] = v]
  /\ spent' = [spent EXCEPT !.rescores = @ + 1]
  /\ UNCHANGED <<shared, silent, alive>>

\* The TTL runs out at n on a peer that is down.
Bury(n, m) ==
  /\ n \in alive /\ m \in Node \ alive /\ m \notin silent[n]
  /\ silent' = [silent EXCEPT ![n] = @ \cup {m}]
  /\ UNCHANGED <<shared, fit, score, alive, spent>>

\* It runs out on a live one: its frames are lost, or reach n through others.
Lapse(n, m) ==
  /\ n \in alive /\ m \in alive \ {n} /\ m \notin silent[n]
  /\ spent.lapses < Limit.lapses
  /\ silent' = [silent EXCEPT ![n] = @ \cup {m}]
  /\ spent' = [spent EXCEPT !.lapses = @ + 1]
  /\ UNCHANGED <<shared, fit, score, alive>>

\* A frame of m reaches n, and the table of tracked peers has room for m.
Hear(n, m) ==
  /\ n \in alive /\ m \in alive \cap silent[n]
  /\ silent' = [silent EXCEPT ![n] = @ \ {m}]
  /\ UNCHANGED <<shared, fit, score, alive, spent>>

Next ==
  \E n \in Node :
    \/ \E refused \in BOOLEAN :
         \/ Work(n, refused) \/ Finish(n, refused)
         \/ Block(n, refused) \/ Stall(n, refused)
    \/ Reassert(n)
    \/ \E r \in sent : Deliver(n, r)
    \/ Crash(n)
    \/ \E g \in Goal : Rescore(n, g)
    \/ \E m \in Node : Bury(n, m) \/ Lapse(n, m) \/ Hear(n, m)

Spec == Init /\ [][Next]_vars
-----------------------------------------------------------------------------
GoalVersion == [ts : Nat, origin : Nat, val : {Open, Tombstone}]

ClaimVersion == [ts : Nat, origin : Nat, val : Bid \cup {Tombstone}]

\* Goal and claim records keep their kinds of payload, wherever they are.
TypeOK ==
  /\ pool \in [Node -> [Task -> GoalVersion]]
  /\ claim \in [Node -> [Task -> ClaimVersion]]
  /\ clock \in [Node -> Nat]
  /\ held \in [Node -> Task \cup {None}]
  /\ ready \subseteq Node /\ alive \subseteq Node
  /\ fit \in [Node -> SUBSET Goal]
  /\ score \in [Node -> [Goal -> Scores]]
  /\ silent \in [Node -> SUBSET Node]
  /\ sent \subseteq [kind : {"goal"}, task : Task, ver : GoalVersion]
                     \cup [kind : {"claim"}, task : Task, ver : ClaimVersion]
  /\ dropped \in [Node -> SUBSET Task]
  /\ spent \in [Budget -> Nat]

(***************************************************************************)
(* A node owns, in its own replica, no claim on an open goal other than    *)
(* the one it holds: switching, losing, completing and being blocked never *)
(* leave a claim behind that keeps the others away from a goal nobody      *)
(* works on.  One thing does: a goal rejected by scoreGoal while it is     *)
(* held is dropped with the claim in place, until the node claims it       *)
(* again.                                                                  *)
(***************************************************************************)
NoStrayClaim ==
  \A n \in Node, t \in Task :
    Record!Live(pool[n][t]) /\ OwnClaim(n, t) => held[n] = t \/ t \in dropped[n]

(***************************************************************************)
(* The main loop ticks the brain forever, gossip reaches every node that   *)
(* stays up, and the TTL of a peer that is down runs out.                  *)
(***************************************************************************)
Fairness ==
  \A n \in Node :
    /\ WF_vars(Work(n, FALSE))
    /\ WF_vars(\E r \in sent : Deliver(n, r))
    /\ WF_vars(\E m \in Node : Bury(n, m))

FairSpec == Spec /\ Fairness

\* Nodes that are up hear one another within the TTL, from some time on.
HearEachOther == <>[](\A m, n \in alive : m \notin silent[n])

(***************************************************************************)
(* Exclusive ownership: nodes that claimed the same goal, at the same time *)
(* or because they took one another for dead, find out, and all but one    *)
(* let go for good, even if nobody ever finishes a goal; given that scores *)
(* settle and that they do hear one another in the end.                    *)
(***************************************************************************)
EventuallyExclusive ==
  HearEachOther =>
    <>[](\A m, n \in alive : m # n /\ held[m] = held[n] => held[m] = None)

\* Missions make progress: work on a goal, and what blocks it, come to an end.
MissionFairness ==
  \A n \in Node : WF_vars(Finish(n, FALSE)) /\ WF_vars(Block(n, FALSE))

(***************************************************************************)
(* If work comes to an end and survivors hear one another, every goal a    *)
(* survivor knows of is completed in the end, whoever crashed while        *)
(* holding it, whatever prerequisites had to come first or could not be    *)
(* posted at once, whoever was outbid, switched or was taken for dead.     *)
(* Two things are in the way: every survivor's scorer may reject the goal, *)
(* or one that rejects it may have dropped it with the claim in place, and *)
(* be alive.                                                               *)
(***************************************************************************)
EveryGoalDone ==
  MissionFairness /\ HearEachOther =>
    <>[](\A n \in alive, g \in Goal :
           \/ ~Record!Live(pool[n][g])
           \/ \A m \in alive : g \notin fit[m]
           \/ \E m \in alive : OwnClaim(m, g) /\ g \in dropped[m] \ fit[m])
=============================================================================
