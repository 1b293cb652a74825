-------------------------- MODULE GoapBrainProofs --------------------------
(***************************************************************************)
(* The brain for any goals, actions, fields, watchdog and cooldown: what   *)
(* is in flight is bounded by the watchdog, and a commit re-stamps only    *)
(* what changed.                                                           *)
(***************************************************************************)
EXTENDS GoapBrain, TLAPS

(***************************************************************************)
(* The inductive invariant, by the three parts of the state: what the      *)
(* brain is doing, the shared fields, and the inputs.                      *)
(***************************************************************************)
BrainType ==
  /\ goal \in Goal \cup {None}
  /\ action \in Action \cup {None}
  /\ plan \in BOOLEAN
  /\ progress \in Nat
  /\ cooldown \in [Goal -> 0..CooldownTicks]

WorldType ==
  /\ world \in [Field -> Value \cup {Absent}]
  /\ stamped \subseteq Field

InputType == wanted \subseteq Goal /\ plannable \subseteq Goal

IInv == BrainType /\ InFlight /\ WorldType /\ InputType

\* What a step may stamp.
NotIdle ==
  \A f \in stamped' : op'.field = f \/ (world[f] \notin Canonical /\ world'[f] \in Canonical)

LEMMA TypeParts == TypeOK <=> BrainType /\ WorldType /\ InputType
  BY DEF TypeOK, BrainType, WorldType, InputType

LEMMA InitIInv == Init => IInv
<1> SUFFICES ASSUME Init PROVE IInv
  OBVIOUS
<1>1. BrainType
  <2>1. plan \in BOOLEAN /\ goal \in Goal \cup {None} /\ action \in Action \cup {None}
    BY Zenon DEF Init
  <2>2. progress \in Nat /\ cooldown \in [Goal -> 0..CooldownTicks]
    BY TicksAssumption DEF Init
  <2> QED
    BY <2>1, <2>2 DEF BrainType
<1>2. InFlight
  BY DEF Init, InFlight
<1>3. WorldType /\ InputType
  BY DEF Init, WorldType, InputType
<1> QED
  BY <1>1, <1>2, <1>3 DEF IInv

\* The clock of the cooldowns stays within its range.
LEMMA TickedType ==
  ASSUME BrainType
  PROVE  TickedCooldown \in [Goal -> 0..CooldownTicks]
  BY TicksAssumption DEF BrainType, TickedCooldown

\* brain_replan, whatever it finds.
LEMMA ReplanBrain ==
  ASSUME IInv, Replan
  PROVE  BrainType' /\ InFlight'
<1> DEFINE cd == TickedCooldown
           best == {g \in Feasible(cd) : \A h \in Feasible(cd) : h <= g}
           failed == TriedInVain(best, cd)
<1>1. cd \in [Goal -> 0..CooldownTicks]
  BY TickedType DEF IInv
<1>2. cooldown' = [g \in Goal |-> IF g \in failed THEN CooldownTicks ELSE cd[g]]
  BY DEF Replan
<1>3. best \subseteq Goal
  BY DEF Feasible, IInv, InputType
<1>4. \/ /\ goal' = None /\ action' = None /\ plan' = FALSE
         /\ progress' = IF action = None THEN progress ELSE 0
      \/ \E g \in best, a \in Action :
           goal' = g /\ action' = a /\ plan' = TRUE /\ progress' = 0
  BY DEF Replan
<1>5. cooldown' \in [Goal -> 0..CooldownTicks]
  <2> HIDE DEF cd, failed
  <2> QED
    BY <1>1, <1>2, TicksAssumption
<1> HIDE DEF best
<1>6. CASE /\ goal' = None /\ action' = None /\ plan' = FALSE
           /\ progress' = IF action = None THEN progress ELSE 0
  <2>1. BrainType'
    BY Zenon, <1>5, <1>6 DEF IInv, BrainType
  <2>2. InFlight'
    BY <1>6 DEF InFlight
  <2> QED
    BY <2>1, <2>2
<1>7. ASSUME NEW g \in best, NEW a \in Action,
             goal' = g /\ action' = a /\ plan' = TRUE /\ progress' = 0
      PROVE  BrainType' /\ InFlight'
  <2>1. g \in Goal /\ g # None
    BY <1>3, NoneAssumption
  <2>2. BrainType'
    BY <1>5, <1>7, <2>1 DEF BrainType
  <2>3. InFlight'
    BY <1>7, <2>1 DEF InFlight
  <2> QED
    BY <2>2, <2>3
<1> QED
  BY Zenon, <1>4, <1>6, <1>7

\* A stored field through QuickJS and back: it is as before, or it was not as
\* QuickJS writes it and is now, or it is lost.
LEMMA RoundTripOnce ==
  ASSUME NEW v \in Value \cup {Absent}
  PROVE  /\ RoundTrip(v) \in Canonical \cup {Absent}
         /\ RoundTrip(v) # v => v \notin Canonical
<1>1. CASE v = Absent
  BY <1>1 DEF RoundTrip
<1>2. CASE v # Absent
  <2>1. v \in Value /\ RoundTrip(v) = Serialized[v] /\ Serialized[v] \in Value \cup {Absent}
    BY <1>2, SerializedAssumption DEF RoundTrip
  <2>2. Serialized[v] # Absent => Serialized[Serialized[v]] = Serialized[v]
    BY <2>1, SerializedAssumption
  <2> QED
    BY <2>1, <2>2 DEF Canonical
<1> QED
  BY <1>1, <1>2

\* An exec body and its commit, whole or cut short.
LEMMA ExecWorld ==
  ASSUME WorldType, NEW o \in ScriptOp, NEW written,
         written \subseteq Changed(Blackboard(o), LiveStore(o)), Exec(o, written)
  PROVE  WorldType' /\ NotIdle
<1> DEFINE bb == Blackboard(o)
           live == LiveStore(o)
<1>0. Canonical \subseteq Value
  BY DEF Canonical
<1>1. \/ o = NoOp
      \/ o \in [kind : {"blackboard", "compareAndSet"}, field : Field, val : Canonical]
      \/ o \in [kind : {"delete"}, field : {f \in Field : world[f] # Absent}, val : {Absent}]
  BY DEF ScriptOp
<1>2. \/ o.kind = "none"
      \/ o.kind = "blackboard" /\ o.field \in Field /\ o.val \in Value
      \/ /\ o.kind \in {"delete", "compareAndSet"}
         /\ o.field \in Field /\ o.val \in Value \cup {Absent}
  BY <1>0, <1>1 DEF NoOp
<1>3. /\ live \in [Field -> Value \cup {Absent}]
      /\ \A f \in Field : live[f] = world[f] \/ o.field = f
  BY <1>2 DEF LiveStore, WorldType
<1>4. \A f \in Field : /\ RoundTrip(world[f]) \in Canonical \cup {Absent}
                       /\ RoundTrip(world[f]) # world[f] => world[f] \notin Canonical
  BY RoundTripOnce DEF WorldType
<1>5. /\ bb \in [Field -> Value \cup {Absent}]
      /\ \A f \in Field : bb[f] = RoundTrip(world[f]) \/ o.field = f
  <2>1. bb = [f \in Field |-> IF o.kind = "blackboard" /\ o.field = f THEN o.val
                             ELSE RoundTrip(world[f])]
    BY DEF Blackboard
  <2> HIDE DEF bb
  <2> QED
    BY <1>0, <1>2, <1>4, <2>1
<1>6. /\ world' = [f \in Field |-> IF f \in written THEN bb[f] ELSE live[f]]
      /\ stamped' = written \cup {f \in {o.field} : o.kind \in {"delete", "compareAndSet"}}
      /\ op' = o
  BY DEF Exec
<1>7. written \subseteq Field /\ \A f \in written : bb[f] # Absent /\ bb[f] # live[f]
  BY DEF Changed
<1> HIDE DEF bb, live
<1>8. world' \in [Field -> Value \cup {Absent}]
  BY <1>3, <1>5, <1>6
<1>9. stamped' \subseteq Field
  BY <1>2, <1>6, <1>7
<1>10. ASSUME NEW f \in written, o.field # f
       PROVE  world[f] \notin Canonical /\ world'[f] \in Canonical
  <2>1. f \in Field /\ world'[f] = bb[f] /\ bb[f] = RoundTrip(world[f])
    BY <1>5, <1>6, <1>7, <1>10
  <2>2. RoundTrip(world[f]) # world[f] /\ RoundTrip(world[f]) # Absent
    BY <1>3, <1>7, <1>10, <2>1
  <2> QED
    BY <1>4, <2>1, <2>2
<1> QED
  BY <1>6, <1>8, <1>9, <1>10 DEF WorldType, NotIdle

\* What a tick does to the world, by the three ways its body can end.
LEMMA TickWorld ==
  ASSUME WorldType,
         \/ NoExec \/ ExecCommitted \/ ExecCutShort
         \/ \E o \in ScriptOp : Exec(o, {})
  PROVE  WorldType' /\ NotIdle
<1>1. CASE NoExec
  BY <1>1 DEF NoExec, WorldType, NotIdle
<1>2. CASE ExecCommitted
  <2>1. PICK o \in ScriptOp : Exec(o, Changed(Blackboard(o), LiveStore(o)))
    BY <1>2 DEF ExecCommitted
  <2> QED
    BY <2>1, ExecWorld
<1>3. CASE ExecCutShort
  <2>1. PICK o \in ScriptOp :
          \E written \in SUBSET Changed(Blackboard(o), LiveStore(o)) : Exec(o, written)
    BY <1>3 DEF ExecCutShort
  <2>2. PICK written \in SUBSET Changed(Blackboard(o), LiveStore(o)) : Exec(o, written)
    BY <2>1
  <2> QED
    BY <2>2, ExecWorld
<1>4. CASE \E o \in ScriptOp : Exec(o, {})
  BY <1>4, ExecWorld
<1> QED
  BY <1>1, <1>2, <1>3, <1>4

\* A tick that goes on with the action in flight.
LEMMA KeepRunningBrain ==
  ASSUME IInv, Running, KeepRunning
  PROVE  BrainType' /\ InFlight'
<1>1. action # None
  BY GoalAssumption, NoneAssumption DEF Running
<1>2. cooldown' \in [Goal -> 0..CooldownTicks]
  BY TickedType DEF KeepRunning, IInv
<1>3. goal' = goal /\ action' = action /\ plan' = plan /\ progress' = progress + 1
  BY DEF KeepRunning
<1>4. BrainType'
  BY <1>2, <1>3 DEF IInv, BrainType
<1>5. MaxActionTicks > 0 => progress' < MaxActionTicks
  BY <1>3, TicksAssumption DEF Running, Wedged, IInv, BrainType
<1>6. InFlight'
  BY <1>1, <1>3, <1>5 DEF IInv, InFlight
<1> QED
  BY <1>4, <1>6

\* A tick that lets go of the action without replanning.
LEMMA LetGoBrain ==
  ASSUME IInv, action' = None, goal' = goal, cooldown' = TickedCooldown,
         plan' \in {plan, FALSE}, progress' \in {progress, progress + 1, 0}
  PROVE  BrainType' /\ InFlight'
<1>1. cooldown' \in [Goal -> 0..CooldownTicks]
  BY TickedType DEF IInv
<1>2. plan' \in BOOLEAN
  BY Zenon DEF IInv, BrainType
<1>3. goal' \in Goal \cup {None} /\ action' \in Action \cup {None} /\ progress' \in Nat
  BY DEF IInv, BrainType
<1>4. BrainType'
  BY <1>1, <1>2, <1>3 DEF BrainType
<1>5. InFlight'
  BY DEF InFlight
<1> QED
  BY <1>4, <1>5

\* Every step keeps the invariant and re-stamps nothing idly.
LEMMA NextIInv ==
  ASSUME IInv, Next
  PROVE  IInv' /\ NotIdle
<1>1. WorldType
  BY DEF IInv
<1>2. ASSUME wanted' = wanted, plannable' = plannable PROVE InputType'
  BY <1>2 DEF IInv, InputType
<1>3. CASE TickPlan \/ TickAborted
  <2>1. WorldType' /\ NotIdle
    BY <1>1, <1>3, TickWorld DEF TickPlan, TickAborted
  <2>2. BrainType' /\ InFlight'
    BY <1>3, ReplanBrain DEF TickPlan, TickAborted
  <2> QED
    BY <1>2, <1>3, <2>1, <2>2 DEF TickPlan, TickAborted, IInv
<1>4. CASE TickExec
  <2>1. WorldType' /\ NotIdle
    BY <1>1, <1>4, TickWorld DEF TickExec
  <2>2. BrainType' /\ InFlight'
    BY <1>4, KeepRunningBrain DEF TickExec
  <2> QED
    BY <1>2, <1>4, <2>1, <2>2 DEF TickExec, IInv
<1>5. CASE TickDone
  <2>1. WorldType' /\ NotIdle
    BY <1>1, <1>5, TickWorld DEF TickDone
  <2>2. BrainType' /\ InFlight'
    BY <1>5, ReplanBrain DEF TickDone
  <2> QED
    BY <1>2, <1>5, <2>1, <2>2 DEF TickDone, IInv
<1>6. CASE TickThrew
  <2>1. WorldType' /\ NotIdle
    BY <1>1, <1>6, TickWorld DEF TickThrew
  <2>2. BrainType' /\ InFlight'
    BY <1>6, LetGoBrain DEF TickThrew
  <2> QED
    BY <1>2, <1>6, <2>1, <2>2 DEF TickThrew, IInv
<1>7. CASE TickNoReplan
  <2>1. WorldType' /\ NotIdle
    BY <1>1, <1>7, TickWorld DEF TickNoReplan
  <2>2. BrainType' /\ InFlight'
    BY Zenon, <1>7, LetGoBrain DEF TickNoReplan
  <2> QED
    BY <1>2, <1>7, <2>1, <2>2 DEF TickNoReplan, IInv
<1>8. CASE Environment
  <2>1. WorldType' /\ NotIdle /\ InputType'
    BY <1>8 DEF Environment, IInv, WorldType, InputType, NotIdle
  <2>2. BrainType' /\ InFlight'
    BY <1>8 DEF Environment, brain, IInv, BrainType, InFlight
  <2> QED
    BY <2>1, <2>2 DEF IInv
<1> QED
  BY <1>3, <1>4, <1>5, <1>6, <1>7, <1>8 DEF Next

LEMMA StutterIInv == IInv /\ UNCHANGED vars => IInv'
  BY DEF IInv, vars, brain, BrainType, InFlight, WorldType, InputType

LEMMA Inductive == IInv /\ [Next]_vars => IInv'
  BY NextIInv, StutterIInv

(***************************************************************************)
(* Every variable of the brain keeps its type: a cooldown never counts     *)
(* below zero nor above cooldown_ticks, whatever fails in a tick.          *)
(***************************************************************************)
THEOREM TypeCorrect == Spec => []TypeOK
<1>1. IInv => TypeOK
  BY TypeParts DEF IInv
<1> QED
  BY InitIInv, Inductive, <1>1, PTL DEF Spec

(***************************************************************************)
(* Whatever the exec bodies do, an action in flight belongs to a plan for  *)
(* a goal, and the watchdog's count never reaches max_action_ticks.        *)
(***************************************************************************)
THEOREM WatchdogBounds == Spec => []InFlight
<1>1. IInv => InFlight
  BY DEF IInv
<1> QED
  BY InitIInv, Inductive, <1>1, PTL DEF Spec

(***************************************************************************)
(* For any set of fields, any script and any way of writing JSON that      *)
(* QuickJS reads back as it wrote it, a tick gives a fresh timestamp to a  *)
(* field the script did not write only to replace bytes that QuickJS would *)
(* not write by those it would.  Nothing it leaves behind is re-stamped by *)
(* the next tick, unless somebody else writes the field.                   *)
(***************************************************************************)
THEOREM ForeignBytesStampedOnce == Spec => NoIdleRestamp
<1>1. IInv /\ [Next]_vars =>
        [\A f \in stamped' :
           \/ op'.field = f
           \/ world[f] \notin Canonical /\ world'[f] \in Canonical]_vars
  BY NextIInv DEF NotIdle
<1> QED
  BY InitIInv, Inductive, <1>1, PTL DEF Spec, NoIdleRestamp
=============================================================================
