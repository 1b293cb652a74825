----------------------------- MODULE GoapBrain -----------------------------
(***************************************************************************)
(* The behaviour loop of one node: every tick runs the exec body of the    *)
(* action in flight on a copy of the state (the blackboard), commits the   *)
(* copy, and replans when the action ended, falling back to lower ranked   *)
(* goals and putting goals that cannot be planned on a cooldown.           *)
(*                                                                         *)
(* Goals are numbered by rank.  Which of them are unsatisfied, which the   *)
(* planner finds a plan for and what a script does are inputs.  A cooldown *)
(* is the number of ticks left, goal_cooldown_until - tick_count.          *)
(***************************************************************************)
EXTENDS Naturals

CONSTANTS Goal,           \* ids of goals: the higher, the more useful
          Action,
          HasExec,        \* actions with an exec body
          Field,          \* names of shared fields
          Value,          \* bytes a field may hold, whoever wrote them
          Serialized,     \* bytes -> the bytes QuickJS writes for what it parses
                          \* from them, Absent if they are not JSON
          Absent,
          None,
          MaxActionTicks, \* the watchdog, off (0) unless the host sets it
          CooldownTicks   \* likewise

ASSUME GoalAssumption == Goal \subseteq Nat /\ HasExec \subseteq Action
ASSUME TicksAssumption == MaxActionTicks \in Nat /\ CooldownTicks \in Nat
ASSUME NoneAssumption == None \notin Goal \cup Action

\* What QuickJS has written it parses, and writes the same way again.
ASSUME SerializedAssumption ==
  /\ Absent \notin Value
  /\ Serialized \in [Value -> Value \cup {Absent}]
  /\ \A v \in Value : Serialized[v] # Absent => Serialized[Serialized[v]] = Serialized[v]

VARIABLES goal, action, plan, progress, cooldown,
          world,     \* the live shared fields
          stamped,   \* fields the last step gave a fresh timestamp
          op,        \* what the last exec body did to the live store itself
          wanted,    \* goals fleece_goap_rank_goals returns
          plannable  \* goals fleece_goap_plan finds a plan for

brain == <<goal, action, plan, progress, cooldown>>
vars == <<brain, world, stamped, op, wanted, plannable>>

NoOp == [kind |-> "none", field |-> None, val |-> Absent]

Init ==
  /\ goal = None /\ action = None /\ plan = FALSE /\ progress = 0
  /\ cooldown = [g \in Goal |-> 0]
  /\ world \in [Field -> Value \cup {Absent}]
  /\ stamped = {} /\ op = NoOp
  /\ wanted \in SUBSET Goal /\ plannable \in SUBSET Goal

\* Peers' writes arrive, the script's step() and the sensors run.
Environment ==
  /\ \/ /\ wanted' \in SUBSET Goal /\ plannable' \in SUBSET Goal
        /\ UNCHANGED world
     \/ /\ \E f \in Field, v \in Value \cup {Absent} : world' = [world EXCEPT ![f] = v]
        /\ UNCHANGED <<wanted, plannable>>
  /\ stamped' = {} /\ op' = NoOp
  /\ UNCHANGED brain

\* tick_count++, as the cooldowns see it.
TickedCooldown == [g \in Goal |-> IF cooldown[g] > 0 THEN cooldown[g] - 1 ELSE 0]

\* Mutant: a goal that is skipped is put on cooldown again.
TriedOrSkipped(best, cd) == {g \in wanted : \A b \in best : g > b}

\* Goals searched in vain before the chosen one, or all of them.
TriedInVain(best, cd) == {g \in wanted : cd[g] = 0 /\ \A b \in best : g > b}

\* Mutant: only the best goal is tried.
FirstOnly(cd) ==
  {g \in wanted : cd[g] = 0 /\ g \in plannable /\ \A h \in wanted : cd[h] = 0 => h <= g}

\* The goals off cooldown that a plan exists for.
Feasible(cd) == {g \in wanted \cap plannable : cd[g] = 0}

(***************************************************************************)
(* brain_replan: the highest ranked feasible goal, and the first action of *)
(* its plan; idle without one.                                             *)
(***************************************************************************)
Replan ==
  LET cd == TickedCooldown
      best == {g \in Feasible(cd) : \A h \in Feasible(cd) : h <= g}
      failed == TriedInVain(best, cd)
  IN  /\ cooldown' = [g \in Goal |->
                        IF g \in failed THEN CooldownTicks ELSE cd[g]]
      /\ \/ /\ best = {}
            /\ goal' = None /\ action' = None /\ plan' = FALSE
            /\ progress' = IF action = None THEN progress ELSE 0
         \/ \E g \in best, a \in Action :
              goal' = g /\ action' = a /\ plan' = TRUE /\ progress' = 0

NoExec ==
  /\ UNCHANGED world
  /\ stamped' = {} /\ op' = NoOp

\* Nothing in flight, or an action without a body, which completes at once.
TickPlan ==
  /\ action = None \/ action \notin HasExec
  /\ NoExec
  /\ Replan
  /\ UNCHANGED <<wanted, plannable>>

\* The watchdog gives up on the action.
Wedged == MaxActionTicks > 0 /\ progress + 1 >= MaxActionTicks

TickAborted ==
  /\ action \in HasExec /\ Wedged
  /\ NoExec
  /\ Replan
  /\ UNCHANGED <<wanted, plannable>>

\* Bytes as QuickJS writes them.
Canonical == {v \in Value : Serialized[v] = v}

\* A field through goap_bb_to_js and goap_js_to_bb.
RoundTrip(v) == IF v = Absent THEN Absent ELSE Serialized[v]

(***************************************************************************)
(* What an exec body may do to one field: change it in its blackboard, or  *)
(* act on the live store with delete world[f] or worldCompareAndSet.  What *)
(* a script writes, QuickJS has serialized.                                *)
(***************************************************************************)
ScriptOp ==
  {NoOp}
    \cup [kind : {"blackboard", "compareAndSet"}, field : Field, val : Canonical]
    \cup [kind : {"delete"}, field : {f \in Field : world[f] # Absent}, val : {Absent}]

\* The blackboard after the body: every field of the snapshot went through
\* JSON.parse and JSON.stringify, whether the body touched it or not.
Blackboard(o) ==
  [f \in Field |-> IF o.kind = "blackboard" /\ o.field = f THEN o.val ELSE RoundTrip(world[f])]

LiveStore(o) ==
  IF o.kind \in {"delete", "compareAndSet"} THEN [world EXCEPT ![o.field] = o.val]
  ELSE world

\* Mutant: every field of the blackboard is written.
AllFields(bb, store) == {f \in Field : bb[f] # Absent}

\* Fields bb_commit writes: those the store does not hold byte for byte.
Changed(bb, store) == {f \in Field : bb[f] # Absent /\ bb[f] # store[f]}

\* The body runs and `written' of its blackboard's changes get committed.
Exec(o, written) ==
  LET bb == Blackboard(o) IN
  /\ world' = [f \in Field |-> IF f \in written THEN bb[f] ELSE LiveStore(o)[f]]
  /\ stamped' = written
                  \cup {f \in {o.field} : o.kind \in {"delete", "compareAndSet"}}
  /\ op' = o

ExecCommitted == \E o \in ScriptOp : Exec(o, Changed(Blackboard(o), LiveStore(o)))

\* A write is refused, and the fields after it are not written.
ExecCutShort ==
  \E o \in ScriptOp :
    \E written \in SUBSET Changed(Blackboard(o), LiveStore(o)) :
      /\ written # Changed(Blackboard(o), LiveStore(o))
      /\ Exec(o, written)

Running == action \in HasExec /\ ~Wedged

\* Mutant: ticks that did not finish the action are not counted.
KeepRunningUncounted ==
  /\ cooldown' = TickedCooldown
  /\ UNCHANGED <<goal, action, plan, progress>>

KeepRunning ==
  /\ progress' = progress + 1
  /\ cooldown' = TickedCooldown
  /\ UNCHANGED <<goal, action, plan>>

\* The body is not done, or its commit or the snapshot failed.
TickExec ==
  /\ Running
  /\ ExecCommitted \/ ExecCutShort \/ NoExec
  /\ KeepRunning
  /\ UNCHANGED <<wanted, plannable>>

TickDone ==
  /\ Running
  /\ ExecCommitted
  /\ Replan
  /\ UNCHANGED <<wanted, plannable>>

\* The body threw: what it did to the live store stays, the next tick replans.
TickThrew ==
  /\ Running
  /\ \E o \in ScriptOp : Exec(o, {})
  /\ action' = None
  /\ progress' = progress + 1
  /\ cooldown' = TickedCooldown
  /\ UNCHANGED <<goal, plan, wanted, plannable>>

\* The snapshot to plan from cannot be taken: the tick ends without replanning.
TickNoReplan ==
  /\ \/ /\ action = None \/ action \notin HasExec \/ Wedged
        /\ NoExec
     \/ Running /\ ExecCommitted
  /\ cooldown' = TickedCooldown
  /\ action' = None
  /\ IF action = None THEN UNCHANGED <<plan, progress>>
     ELSE plan' = FALSE /\ progress' = 0
  /\ UNCHANGED <<goal, wanted, plannable>>

Next ==
  \/ TickPlan \/ TickAborted \/ TickExec \/ TickDone \/ TickThrew
  \/ TickNoReplan
  \/ Environment

Spec == Init /\ [][Next]_vars
-----------------------------------------------------------------------------
TypeOK ==
  /\ goal \in Goal \cup {None}
  /\ action \in Action \cup {None}
  /\ plan \in BOOLEAN
  /\ progress \in Nat
  /\ cooldown \in [Goal -> 0..CooldownTicks]
  /\ world \in [Field -> Value \cup {Absent}]
  /\ stamped \subseteq Field
  /\ wanted \subseteq Goal /\ plannable \subseteq Goal

\* An action in flight belongs to a plan, for a goal, and is within its time.
InFlight ==
  action # None =>
    /\ plan /\ goal # None
    /\ MaxActionTicks > 0 => progress < MaxActionTicks

(***************************************************************************)
(* A tick gives a fresh timestamp to a field the script did not write only *)
(* when its bytes are not as QuickJS would write them, as those of a peer  *)
(* or of native code may be, and then they are: bytes written elsewhere    *)
(* are re-stamped once and not on every tick, which would keep a           *)
(* conflicting peer's write from ever winning against the refreshed copy.  *)
(***************************************************************************)
NoIdleRestamp ==
  [][\A f \in stamped' :
       \/ op'.field = f
       \/ world[f] \notin Canonical /\ world'[f] \in Canonical]_vars

(***************************************************************************)
(* What an exec body did to the live store is still there after its tick:  *)
(* a claim taken with worldCompareAndSet, one released with delete.        *)
(***************************************************************************)
DirectWritesSurvive ==
  op.kind \in {"delete", "compareAndSet"} => world[op.field] = op.val

(***************************************************************************)
(* The runtime ticks the brain forever, and memory for a snapshot to plan  *)
(* from is not refused for ever.                                           *)
(***************************************************************************)
Fairness ==
  /\ WF_vars(TickPlan)
  /\ WF_vars(TickAborted)
  /\ WF_vars(TickExec)

FairSpec == Spec /\ Fairness

(***************************************************************************)
(* With the watchdog on, no action pins the brain, whatever its body does: *)
(* when no wanted goal can be planned any more, the brain lets go of the   *)
(* action in flight and becomes idle.  With the watchdog off, as it is by  *)
(* default, a body that never ends does pin it.                            *)
(***************************************************************************)
NeverPinned ==
  <>[](wanted \cap plannable = {}) => <>[](MaxActionTicks > 0 => action = None)

(***************************************************************************)
(* With the watchdog on, the best goal is not locked out by cooldowns or   *)
(* by actions in flight for others: if it can be planned from some time    *)
(* on, it is pursued again and again.                                      *)
(***************************************************************************)
BestGoalPursued ==
  \A g \in Goal :
    <>[](g \in wanted \cap plannable /\ \A h \in wanted : h <= g) => []<>(goal = g)

(***************************************************************************)
(* A goal that cannot be planned does not make the brain idle: as long as  *)
(* some wanted goal can be, it acts again and again.                       *)
(***************************************************************************)
FallsBack ==
  \A g \in Goal : <>[](g \in wanted \cap plannable) => []<>(action # None)
=============================================================================
