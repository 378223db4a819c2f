-------------------------- MODULE DeployGate_proofs --------------------------
(* What the deploy gate guarantees for every list of stacks, every set of   *)
(* plans and any number of runs, drifts and failures.                       *)
EXTENDS DeployGate, FiniteSetTheorems, TLAPS

USE StacksAssumption, PlansAssumption, InputsAssumption

Before(r) == {Order[i] : i \in 1..(at[r] - 1)}

(* A run has applied and settled nothing before its apply job, whose loop   *)
(* has settled just the stacks it has passed.                               *)
LoopOK ==
    \A r \in Runs :
        /\ saved[r] # None => job[r] \in {"applying", "failed"} /\ at[r] <= Len(Order)
        /\ job[r] \in {"idle", "queued", "planning", "planned"} =>
             settled[r] = {} /\ \A s \in Stacks : applied[r][s] = None
        /\ job[r] = "applying" =>
             /\ settled[r] = Before(r)
             /\ \A j \in at[r]..Len(Order) : applied[r][Order[j]] = None

(* A plan that was applied passed the diff and, when no plan was approved,  *)
(* the destroy gate.                                                        *)
GateOK ==
    \A r \in Runs, s \in Stacks :
        applied[r][s] # None =>
            /\ PlanDiff(s, approved[r][s], applied[r][s])
            /\ approved[r][s] = None => ~PlanHasDestroy(applied[r][s])

(* From the end of the plan job on, the plans shown are acknowledged.       *)
AckOK ==
    \A r \in Runs :
        (job[r] \in {"planned", "applying", "done"}
         \/ \E s \in Stacks : applied[r][s] # None)
        => DestroyAck(ack[r], Shown(r))

GateInv == TypeOK /\ LoopOK /\ GateOK /\ AckOK /\ StopsAtFailure /\ DoneIsComplete

(* The defensive search for "will be destroyed" finds nothing that the      *)
(* count of destroys does not.                                              *)
LEMMA DestroyIsCounted ==
    ASSUME NEW p \in Plans
    PROVE  PlanHasDestroy(p) <=> PlanCounts(p)[3] > 0
<1> DEFINE D == Having(p, {"destroy", "replace"})
<1>1. IsFiniteSet(D)
  BY FS_Subset DEF Having
<1>2. Having(p, {"destroy"}) # {} => D # {}
  BY DEF Having
<1>3. D # {} => Cardinality(D) # 0
  BY <1>1, FS_EmptySet
<1>4. Cardinality(D) \in Nat
  BY <1>1, FS_CardinalityType
<1>5. PlanCounts(p)[3] = Cardinality(D)
  BY DEF PlanCounts
<1> HIDE DEF D
<1> QED
  BY <1>2, <1>3, <1>4, <1>5 DEF PlanHasDestroy

(* Hence two plans with equal views both destroy or both do not.            *)
LEMMA ViewShowsDestroy ==
    ASSUME NEW p \in Plans, NEW q \in Plans, View(p) = View(q)
    PROVE  PlanHasDestroy(p) <=> PlanHasDestroy(q)
<1>1. PlanCounts(p) = PlanCounts(q)
  BY DEF View
<1> QED
  BY <1>1, DestroyIsCounted

(* The position of a run is a stack while its loop is not over.             *)
LEMMA AtStack ==
    ASSUME TypeOK, NEW r \in Runs, at[r] <= Len(Order)
    PROVE  At(r) \in Stacks /\ at[r] \in 1..Len(Order) /\ Len(Order) \in Nat
BY DEF TypeOK, At, Stacks

(* What a write leaves pending is pending of every stack.                   *)
LEMMA WriteType ==
    ASSUME NEW s \in Stacks, NEW rest, NEW f \in AfterWrite(s, rest)
    PROVE  f \in [Stacks -> Plans]
BY DEF AfterWrite

(* The initial state satisfies the invariant.                               *)
LEMMA GateInit == Init => GateInv
<1> SUFFICES ASSUME Init PROVE GateInv
  OBVIOUS
<1>1. Len(Order) \in Nat
  OBVIOUS
<1>2. TypeOK
  BY <1>1 DEF Init, TypeOK, Jobs
<1>3. LoopOK
  BY DEF Init, LoopOK
<1>4. GateOK /\ AckOK /\ DoneIsComplete
  BY DEF Init, GateOK, AckOK, DoneIsComplete
<1>5. StopsAtFailure
  BY DEF Init, StopsAtFailure, Stacks
<1> QED
  BY <1>2, <1>3, <1>4, <1>5 DEF GateInv

(* Steps of the plan job and of the workflow keep the types.                *)
LEMMA TypeFlow ==
    ASSUME TypeOK, NEW r \in Runs,
           Dispatch(r) \/ StartPlan(r) \/ EndPlan(r) \/ Approve(r) \/ Complete(r)
           \/ FailClosed(r) \/ ApplyRefused(r) \/ Break(r)
    PROVE  TypeOK'
<1>1. Len(Order) \in Nat
  OBVIOUS
<1> USE <1>1 DEF TypeOK, Jobs
<1>2. CASE Dispatch(r)
  BY <1>2 DEF Dispatch
<1>3. CASE StartPlan(r)
  BY <1>3 DEF StartPlan
<1>4. CASE EndPlan(r)
  BY <1>4 DEF EndPlan
<1>5. CASE Approve(r)
  BY <1>5 DEF Approve
<1>6. CASE Complete(r)
  BY <1>6 DEF Complete
<1>7. CASE FailClosed(r)
  BY <1>7 DEF FailClosed
<1>8. CASE ApplyRefused(r)
  BY <1>8 DEF ApplyRefused
<1>9. CASE Break(r)
  BY <1>9 DEF Break, Unlucky
<1> QED
  BY <1>2, <1>3, <1>4, <1>5, <1>6, <1>7, <1>8, <1>9

(* Steps of the two loops keep the types.                                   *)
LEMMA TypeLoop ==
    ASSUME TypeOK, LoopOK, NEW r \in Runs,
           PlanStack(r) \/ Replan(r) \/ Skip(r) \/ Apply(r) \/ ApplyFails(r)
    PROVE  TypeOK'
<1>1. Len(Order) \in Nat
  OBVIOUS
<1>2. At(r) \in Stacks /\ at[r] + 1 \in 1..(Len(Order) + 1)
  <2>1. at[r] <= Len(Order)
    BY DEF PlanStack, Replan, Skip, Apply, ApplyFails, MayApply, LoopOK
  <2> QED
    BY <1>1, <2>1, AtStack DEF TypeOK
<1>3. saved[r] # None => saved[r] \in Plans
  BY DEF TypeOK
<1>4. \A rest, f : f \in AfterWrite(At(r), rest) => f \in [Stacks -> Plans]
  BY DEF AfterWrite
<1> USE <1>2 DEF TypeOK, Jobs
<1>5. CASE PlanStack(r)
  <2>1. pending[At(r)] \in Plans
    OBVIOUS
  <2>2. approved' \in [Runs -> [Stacks -> Plans \cup {None}]]
    BY <1>5, <2>1 DEF PlanStack
  <2> QED
    BY <1>5, <2>2 DEF PlanStack
<1>6. CASE Replan(r)
  BY <1>6 DEF Replan
<1>7. CASE Skip(r)
  BY <1>7 DEF Skip, Settle
<1>8. CASE Apply(r)
  <2>1. pending' \in [Stacks -> Plans]
    BY <1>8, <1>4 DEF Apply
  <2>2. applied' \in [Runs -> [Stacks -> Plans \cup {None}]]
    BY <1>8, <1>3 DEF Apply, MayApply
  <2> QED
    BY <1>8, <2>1, <2>2 DEF Apply, Settle
<1>9. CASE ApplyFails(r)
  <2>1. pending' \in [Stacks -> Plans]
    BY <1>9, <1>4 DEF ApplyFails
  <2>2. applied' \in [Runs -> [Stacks -> Plans \cup {None}]]
    BY <1>9, <1>3 DEF ApplyFails, MayApply
  <2> QED
    BY <1>9, <2>1, <2>2 DEF ApplyFails, Unlucky
<1> QED
  BY <1>5, <1>6, <1>7, <1>8, <1>9

Outside == (\E s \in Stacks : Drift(s))
           \/ (\E s \in AppStacks : AppStart(s) \/ AppApply(s))

(* What happens outside the workflow keeps the types and the workflow.      *)
LEMMA OutsideStep == TypeOK /\ Outside => TypeOK' /\ UNCHANGED flow
<1> SUFFICES ASSUME TypeOK, Outside PROVE TypeOK' /\ UNCHANGED flow
  OBVIOUS
<1>1. UNCHANGED flow
  BY DEF Outside, Drift, AppStart, AppApply
<1> USE <1>1 DEF TypeOK, flow
<1>2. ASSUME NEW s \in Stacks, Drift(s) PROVE TypeOK'
  BY <1>2 DEF Drift, Unlucky
<1>3. ASSUME NEW s \in AppStacks, AppStart(s) PROVE TypeOK'
  BY <1>3 DEF AppStart, Unlucky
<1>4. ASSUME NEW s \in AppStacks, AppApply(s) PROVE TypeOK'
  <2>1. pending' \in [Stacks -> Plans]
    BY <1>4 DEF AppApply, AfterWrite
  <2> QED
    BY <1>4, <2>1 DEF AppApply
<1> QED
  BY <1>1, <1>2, <1>3, <1>4 DEF Outside

RunStep(r) == Pipeline(r) \/ ApplyFails(r) \/ Break(r)

(* Every step of a run keeps the types.                                     *)
LEMMA TypeRun ==
    ASSUME TypeOK, LoopOK, NEW r \in Runs, RunStep(r)
    PROVE  TypeOK'
BY TypeFlow, TypeLoop DEF RunStep, Pipeline

(* Steps of a run keep what is known of its position.                       *)
LEMMA LoopRun ==
    ASSUME TypeOK, LoopOK, NEW r \in Runs, RunStep(r)
    PROVE  LoopOK'
<1>1. Len(Order) \in Nat
  OBVIOUS
<1> USE <1>1 DEF LoopOK, TypeOK
<1>2. CASE Dispatch(r)
  BY <1>2 DEF Dispatch, Before
<1>3. CASE StartPlan(r)
  BY <1>3 DEF StartPlan, Before
<1>4. CASE PlanStack(r)
  BY <1>4 DEF PlanStack, Before
<1>5. CASE EndPlan(r)
  BY <1>5 DEF EndPlan, Before
<1>6. CASE Approve(r)
  <2>1. Before(r)' = {}
    BY <1>6 DEF Approve, Before
  <2>2. \A j \in 1..Len(Order) : applied[r][Order[j]] = None
    BY <1>6 DEF Approve, Stacks
  <2> QED
    BY <1>6, <2>1, <2>2 DEF Approve, Before
<1>7. CASE Replan(r)
  BY <1>7 DEF Replan, Before
<1>8. CASE FailClosed(r)
  BY <1>8 DEF FailClosed, Before
<1>9. CASE Skip(r) \/ Apply(r)
  <2>1. /\ job[r] = "applying" /\ saved[r] # None /\ job' = job
        /\ Settle(r)
    BY <1>9 DEF Skip, Apply, MayApply
  <2>2. at[r] \in 1..Len(Order) /\ At(r) \in Stacks
    BY <2>1, AtStack
  <2>3. Before(r)' = Before(r) \cup {At(r)}
    BY <2>1, <2>2 DEF Settle, Before, At
  <2>4. \A j \in (at[r] + 1)..Len(Order) : applied'[r][Order[j]] = None
    <3>1. CASE Skip(r)
      BY <3>1, <2>1, <2>2 DEF Skip
    <3>2. CASE Apply(r)
      <4> SUFFICES ASSUME NEW j \in (at[r] + 1)..Len(Order)
                   PROVE  applied'[r][Order[j]] = None
        OBVIOUS
      <4>1. j \in 1..Len(Order) /\ j # at[r]
        BY <2>2
      <4>2. Order[j] # At(r) /\ Order[j] \in Stacks
        BY <2>2, <4>1 DEF At, Stacks
      <4> QED
        BY <3>2, <4>1, <4>2, <2>1, <2>2 DEF Apply
    <3> QED
      BY <1>9, <3>1, <3>2
  <2>5. \A q \in Runs \ {r} : /\ at'[q] = at[q] /\ saved'[q] = saved[q]
                              /\ settled'[q] = settled[q] /\ applied'[q] = applied[q]
    BY <1>9, <2>1 DEF Skip, Apply, Settle
  <2>6. at'[r] = at[r] + 1 /\ saved'[r] = None /\ settled'[r] = settled[r] \cup {At(r)}
    BY <2>1 DEF Settle
  <2>7. settled'[r] = Before(r)'
    BY <2>1, <2>3, <2>6
  <2>8. \A q \in Runs \ {r} : Before(q)' = Before(q)
    BY <2>5 DEF Before
  <2>9. ASSUME NEW q \in Runs, q # r
        PROVE  /\ saved'[q] # None =>
                     job'[q] \in {"applying", "failed"} /\ at'[q] <= Len(Order)
               /\ job'[q] \in {"idle", "queued", "planning", "planned"} =>
                     settled'[q] = {} /\ \A s \in Stacks : applied'[q][s] = None
               /\ job'[q] = "applying" =>
                     /\ settled'[q] = Before(q)'
                     /\ \A j \in at'[q]..Len(Order) : applied'[q][Order[j]] = None
    BY <2>1, <2>5, <2>8, <2>9
  <2> QED
    BY <2>1, <2>4, <2>6, <2>7, <2>9
<1>10. CASE ApplyRefused(r)
  BY <1>10 DEF ApplyRefused, MayApply, Before
<1>11. CASE Complete(r)
  BY <1>11 DEF Complete, Before
<1>12. CASE ApplyFails(r)
  BY <1>12 DEF ApplyFails, MayApply, Before
<1>13. CASE Break(r)
  BY <1>13 DEF Break, Before
<1> QED
  BY <1>2, <1>3, <1>4, <1>5, <1>6, <1>7, <1>8, <1>9, <1>10, <1>11, <1>12, <1>13
     DEF RunStep, Pipeline

(* Steps that apply nothing and keep the plans shown leave the record of    *)
(* what passed the gates as it is.                                          *)
LEMMA GateRun ==
    ASSUME TypeOK, LoopOK, GateOK, NEW r \in Runs, RunStep(r)
    PROVE  GateOK'
<1> USE DEF GateOK
<1>1. CASE Dispatch(r)
  BY <1>1 DEF Dispatch, TypeOK
<1>2. CASE PlanStack(r)
  <2>1. \A s \in Stacks : applied[r][s] = None
    BY <1>2 DEF PlanStack, LoopOK
  <2>2. applied' = applied /\ \A q \in Runs \ {r} : approved'[q] = approved[q]
    BY <1>2 DEF PlanStack, TypeOK
  <2> QED
    BY <2>1, <2>2
<1>3. CASE Apply(r) \/ ApplyFails(r)
  <2>1. /\ job[r] = "applying" /\ saved[r] # None /\ GatePasses(r)
        /\ applied' = [applied EXCEPT ![r][At(r)] = saved[r]]
        /\ approved' = approved
    BY <1>3 DEF Apply, ApplyFails, MayApply
  <2>2. At(r) \in Stacks
    BY <2>1, AtStack DEF LoopOK
  <2>3. /\ PlanDiff(At(r), approved[r][At(r)], saved[r])
        /\ approved[r][At(r)] = None => ~PlanHasDestroy(saved[r])
    BY <2>1 DEF GatePasses, DestroyAck, PlanDiff
  <2>4. \A q \in Runs, s \in Stacks :
            applied'[q][s] = IF q = r /\ s = At(r) THEN saved[r] ELSE applied[q][s]
    BY <2>1, <2>2 DEF TypeOK
  <2> QED
    BY <2>1, <2>3, <2>4
<1>4. ASSUME UNCHANGED <<approved, applied>> PROVE GateOK'
  BY <1>4
<1> QED
  BY <1>1, <1>2, <1>3, <1>4 DEF RunStep, Pipeline, StartPlan, EndPlan, Approve,
     Replan, FailClosed, Skip, ApplyRefused, Complete, Break

(* The plan job ends well only with an acknowledgment, and no later step    *)
(* changes the acknowledgment or the plans shown.                           *)
LEMMA AckRun ==
    ASSUME TypeOK, LoopOK, AckOK, NEW r \in Runs, RunStep(r)
    PROVE  AckOK'
<1> DEFINE Same(q) == /\ job'[q] = job[q] /\ ack'[q] = ack[q]
                      /\ approved'[q] = approved[q] /\ applied'[q] = applied[q]
<1>1. ASSUME \A q \in Runs \ {r} : Same(q),
             \/ /\ job'[r] \notin {"planned", "applying", "done"}
                /\ \A s \in Stacks : applied'[r][s] = None
             \/ DestroyAck(ack[r], Shown(r)) /\ ack'[r] = ack[r] /\ approved'[r] = approved[r]
      PROVE  AckOK'
  <2>1. \A q \in Runs : approved'[q] = approved[q] => Shown(q)' = Shown(q)
    BY DEF Shown
  <2> QED
    BY <1>1, <2>1 DEF AckOK
<1>2. CASE Dispatch(r)
  <2>1. \A q \in Runs \ {r} : Same(q)
    BY <1>2 DEF Dispatch, TypeOK
  <2>2. job'[r] = "queued" /\ \A s \in Stacks : applied'[r][s] = None
    BY <1>2 DEF Dispatch, TypeOK
  <2> QED
    BY <1>1, <2>1, <2>2
<1>3. CASE StartPlan(r) \/ PlanStack(r)
  <2>1. \A q \in Runs \ {r} : Same(q)
    BY <1>3 DEF StartPlan, PlanStack, TypeOK
  <2>2. job'[r] = "planning" /\ \A s \in Stacks : applied'[r][s] = None
    BY <1>3 DEF StartPlan, PlanStack, TypeOK, LoopOK
  <2> QED
    BY <1>1, <2>1, <2>2
<1>4. CASE EndPlan(r)
  <2>1. \A q \in Runs \ {r} : Same(q)
    BY <1>4 DEF EndPlan, TypeOK
  <2>2. /\ job'[r] = IF DestroyAck(ack[r], Shown(r)) THEN "planned" ELSE "failed"
        /\ \A s \in Stacks : applied'[r][s] = None
        /\ ack' = ack /\ approved' = approved
    BY <1>4 DEF EndPlan, TypeOK, LoopOK
  <2> QED
    BY <1>1, <2>1, <2>2
<1>5. CASE Approve(r) \/ Complete(r) \/ FailClosed(r) \/ ApplyRefused(r)
           \/ Replan(r) \/ Skip(r) \/ Apply(r) \/ ApplyFails(r)
  <2>1. \A q \in Runs \ {r} : Same(q)
    BY <1>5 DEF Approve, Complete, FailClosed, ApplyRefused, Replan, Skip, Apply,
       ApplyFails, TypeOK
  <2>2. job[r] \in {"planned", "applying"} /\ ack' = ack /\ approved' = approved
    BY <1>5 DEF Approve, Complete, FailClosed, ApplyRefused, Replan, Skip, Apply,
       ApplyFails, MayApply
  <2> QED
    BY <1>1, <2>1, <2>2 DEF AckOK
<1>6. CASE Break(r)
  <2>1. /\ \A q \in Runs \ {r} : Same(q)
        /\ job'[r] = "failed" /\ ack' = ack /\ approved' = approved /\ applied' = applied
    BY <1>6 DEF Break, TypeOK
  <2>2. CASE job[r] \in {"planned", "applying"}
    BY <1>1, <2>1, <2>2 DEF AckOK
  <2>3. CASE job[r] \in {"queued", "planning"}
    <3>1. \A s \in Stacks : applied[r][s] = None
      BY <2>3 DEF LoopOK
    <3> QED
      BY <1>1, <2>1, <3>1
  <2> QED
    BY <1>6, <2>2, <2>3 DEF Break
<1> QED
  BY <1>2, <1>3, <1>4, <1>5, <1>6 DEF RunStep, Pipeline

(* A stack is applied right after all before it were settled, and all are   *)
(* settled when the loop ends.                                              *)
LEMMA OrderRun ==
    ASSUME TypeOK, LoopOK, StopsAtFailure, DoneIsComplete, NEW r \in Runs, RunStep(r)
    PROVE  StopsAtFailure' /\ DoneIsComplete'
<1>1. Len(Order) \in Nat
  OBVIOUS
<1> USE <1>1 DEF TypeOK
<1>2. CASE Dispatch(r)
  BY <1>2, SMTT(20) DEF Dispatch, StopsAtFailure, DoneIsComplete, Stacks
<1>3. CASE Apply(r) \/ ApplyFails(r)
  <2>1. /\ job[r] = "applying" /\ saved[r] # None
        /\ applied' = [applied EXCEPT ![r][At(r)] = saved[r]]
        /\ job'[r] # "done" /\ \A q \in Runs \ {r} : job'[q] = job[q] /\ settled'[q] = settled[q]
        /\ settled[r] \subseteq settled'[r]
    BY <1>3 DEF Apply, ApplyFails, MayApply, Settle
  <2>2. at[r] \in 1..Len(Order) /\ At(r) \in Stacks
    BY <2>1, AtStack DEF LoopOK
  <2>3. \A i \in 1..(at[r] - 1) : Order[i] \in settled[r]
    BY <2>1, <2>2 DEF LoopOK, Before
  <2>4. Upstreams[At(r)] \subseteq settled[r]
    <3> SUFFICES ASSUME NEW u \in Upstreams[At(r)] PROVE u \in settled[r]
      OBVIOUS
    <3>0. u \in Stacks
      BY <2>2
    <3>1. PICK i \in 1..Len(Order) : u = Order[i]
      BY <3>0 DEF Stacks
    <3>2. i < at[r]
      BY <2>2, <3>1 DEF At
    <3> QED
      BY <2>3, <3>1, <3>2, <2>2
  <2>5. ASSUME NEW j \in 1..Len(Order), applied'[r][Order[j]] # None
        PROVE  /\ \A i \in 1..(j - 1) : Order[i] \in settled'[r]
               /\ Upstreams[Order[j]] \subseteq settled'[r]
    <3>1. CASE j = at[r]
      BY <3>1, <2>1, <2>3, <2>4 DEF At
    <3>2. CASE j # at[r]
      <4>1. Order[j] # At(r) /\ Order[j] \in Stacks
        BY <3>2, <2>2 DEF At, Stacks
      <4>2. applied[r][Order[j]] # None
        BY <4>1, <2>1, <2>2, <2>5
      <4> QED
        BY <4>2, <2>1 DEF StopsAtFailure
    <3> QED
      BY <3>1, <3>2
  <2>6. \A q \in Runs \ {r} : applied'[q] = applied[q]
    BY <2>1, <2>2
  <2> QED
    BY <2>1, <2>5, <2>6, ZenonT(30) DEF StopsAtFailure, DoneIsComplete
<1>4. CASE Skip(r)
  BY <1>4 DEF Skip, Settle, StopsAtFailure, DoneIsComplete
<1>5. CASE Complete(r)
  <2>1. Before(r) = Stacks
    BY <1>5 DEF Complete, Before, Stacks
  <2> QED
    BY <1>5, <2>1 DEF Complete, LoopOK, StopsAtFailure, DoneIsComplete
<1>6. ASSUME UNCHANGED <<applied, settled>>,
             \A q \in Runs : job'[q] = "done" => job[q] = "done"
      PROVE  StopsAtFailure' /\ DoneIsComplete'
  BY <1>6 DEF StopsAtFailure, DoneIsComplete
<1>7. CASE StartPlan(r) \/ PlanStack(r) \/ EndPlan(r) \/ Approve(r) \/ Replan(r)
           \/ FailClosed(r) \/ ApplyRefused(r) \/ Break(r)
  BY <1>6, <1>7 DEF StartPlan, PlanStack, EndPlan, Approve, Replan, FailClosed,
     ApplyRefused, Break
<1> QED
  BY <1>2, <1>3, <1>4, <1>5, <1>7 DEF RunStep, Pipeline

(* Every step keeps the invariant.                                          *)
LEMMA GateStep == GateInv /\ [Next]_vars => GateInv'
<1> SUFFICES ASSUME GateInv, [Next]_vars PROVE GateInv'
  OBVIOUS
<1>1. ASSUME NEW r \in Runs, RunStep(r) PROVE GateInv'
  BY <1>1, TypeRun, LoopRun, GateRun, AckRun, OrderRun DEF GateInv
<1>2. ASSUME TypeOK', UNCHANGED flow PROVE GateInv'
  <2>1. \A r \in Runs : Before(r)' = Before(r) /\ Shown(r)' = Shown(r)
    BY <1>2 DEF flow, Before, Shown
  <2>2. LoopOK'
    BY <1>2, <2>1 DEF GateInv, flow, LoopOK
  <2>3. GateOK'
    BY <1>2 DEF GateInv, flow, GateOK
  <2>4. AckOK'
    BY <1>2, <2>1 DEF GateInv, flow, AckOK
  <2>5. StopsAtFailure' /\ DoneIsComplete'
    BY <1>2 DEF GateInv, flow, StopsAtFailure, DoneIsComplete
  <2> QED
    BY <1>2, <2>2, <2>3, <2>4, <2>5 DEF GateInv
<1>3. CASE Outside
  BY <1>2, <1>3, OutsideStep DEF GateInv
<1>4. CASE UNCHANGED vars
  <2>1. TypeOK'
    BY <1>4 DEF GateInv, TypeOK, vars, flow
  <2> QED
    BY <1>2, <1>4, <2>1 DEF vars
<1> QED
  BY <1>1, <1>3, <1>4 DEF Next, Outside, RunStep

(* The invariant holds in every reachable state.                            *)
THEOREM GateSafety == Spec => []GateInv
BY GateInit, GateStep, PTL DEF Spec

(* The variables keep their types.                                          *)
THEOREM GateTypeCorrect == Spec => []TypeOK
<1>1. GateInv => TypeOK
  BY DEF GateInv
<1> QED
  BY GateSafety, <1>1, PTL

(* A job that ends well has settled every stack.                            *)
THEOREM DoneInFull == Spec => []DoneIsComplete
<1>1. GateInv => DoneIsComplete
  BY DEF GateInv
<1> QED
  BY GateSafety, <1>1, PTL

(* Whatever drifts and whichever runs interleave, an applied plan has the   *)
(* counts and the addresses its approver saw.                               *)
THEOREM OnlyTheViewApproved == Spec => []AppliedAsApproved
<1>1. GateInv => AppliedAsApproved
  BY DEF GateInv, GateOK, PlanDiff, AppliedAsApproved
<1> QED
  BY GateSafety, <1>1, PTL

(* Nothing is destroyed without acknowledgment: equal views destroy alike,  *)
(* so the check in the plan job covers the plans of the apply job.          *)
THEOREM NoUnacknowledgedDestroy == Spec => []DestroysAcknowledged
<1>1. GateInv => DestroysAcknowledged
  <2> SUFFICES ASSUME GateInv, NEW r \in Runs, NEW s \in Stacks,
                      applied[r][s] # None, PlanHasDestroy(applied[r][s])
               PROVE  ack[r]
    BY DEF DestroysAcknowledged
  <2>1. /\ PlanDiff(s, approved[r][s], applied[r][s]) /\ approved[r][s] # None
        /\ DestroyAck(ack[r], Shown(r))
    BY DEF GateInv, GateOK, AckOK
  <2>2. applied[r][s] \in Plans /\ approved[r][s] \in Plans
    BY <2>1 DEF GateInv, TypeOK
  <2>3. PlanHasDestroy(approved[r][s])
    BY <2>1, <2>2, ViewShowsDestroy DEF PlanDiff
  <2> QED
    BY <2>1, <2>3 DEF DestroyAck, Shown
<1> QED
  BY GateSafety, <1>1, PTL

(* A run never applies a stack before its upstreams are settled, nor after  *)
(* one that failed.                                                         *)
THEOREM FailureStops == Spec => []StopsAtFailure
<1>1. GateInv => StopsAtFailure
  BY DEF GateInv
<1> QED
  BY GateSafety, <1>1, PTL

CPhase == [r \in Runs |-> Phase(job[r])]
CShown == [r \in Runs |-> [s \in Stacks |-> Seen(approved[r][s])]]
CMade == [r \in Runs |-> [s \in Stacks |-> Seen(applied[r][s])]]

(* A step that leaves the plans shown and applied alone is a step of the    *)
(* contract or none.                                                        *)
LEMMA PhaseSteps ==
    ASSUME GateInv, NEW r \in Runs,
           StartPlan(r) \/ EndPlan(r) \/ Approve(r) \/ Replan(r) \/ FailClosed(r)
           \/ Skip(r) \/ ApplyRefused(r) \/ Complete(r) \/ Break(r)
    PROVE  Contract!CApprove(r) \/ Contract!CClose(r) \/ UNCHANGED Contract!cvars
<1>1. UNCHANGED <<ack, approved, applied>>
  BY DEF StartPlan, EndPlan, Approve, Replan, FailClosed, Skip, ApplyRefused, Complete, Break
<1>2. UNCHANGED <<CShown, CMade>>
  BY <1>1 DEF CShown, CMade
<1>3. job \in [Runs -> Jobs] /\ CPhase = [q \in Runs |-> Phase(job[q])]
      /\ CPhase' = [q \in Runs |-> Phase(job'[q])]
  BY DEF GateInv, TypeOK, CPhase, Phase
<1>4. CASE job' = job
  BY <1>1, <1>2, <1>4 DEF Contract!cvars, CShown, CMade
<1>5. CASE job' = [job EXCEPT ![r] = "planning"] /\ job[r] = "queued"
  <2>1. CPhase' = CPhase
    BY <1>3, <1>5 DEF Phase
  <2> QED
    BY <1>1, <1>2, <2>1 DEF Contract!cvars, CShown, CMade, CPhase
<1>6. CASE job' = [job EXCEPT ![r] = "planned"] /\ job[r] = "planning"
  <2>1. CPhase' = CPhase
    BY <1>3, <1>6 DEF Phase
  <2> QED
    BY <1>1, <1>2, <2>1 DEF Contract!cvars, CShown, CMade, CPhase
<1>7. ASSUME NEW j \in {"failed", "done"}, job' = [job EXCEPT ![r] = j],
             job[r] \in {"queued", "planning", "planned", "applying"}
      PROVE  Contract!CClose(r)
  <2>1. CPhase' = [CPhase EXCEPT ![r] = "closed"] /\ CPhase[r] # "closed"
    BY <1>3, <1>7 DEF Phase
  <2> QED
    BY <1>1, <1>2, <2>1 DEF Contract!CClose, CShown, CMade, CPhase
<1>8. CASE Approve(r)
  <2>1. /\ CPhase' = [CPhase EXCEPT ![r] = "approved"]
        /\ CPhase[r] = "open"
    BY <1>3, <1>8 DEF Phase, Approve
  <2>2. ASSUME NEW s \in Stacks,
               CShown[r][s] \in {View(p) : p \in {q \in Plans : PlanHasDestroy(q)}} \ {None}
        PROVE  ack[r]
    <3>1. approved[r][s] # None /\ CShown[r][s] = View(approved[r][s])
      BY <2>2 DEF CShown, Seen
    <3>2. PICK q \in Plans : PlanHasDestroy(q) /\ View(approved[r][s]) = View(q)
      BY <2>2, <3>1
    <3>3. approved[r][s] \in Plans
      BY <3>1 DEF GateInv, TypeOK
    <3>4. PlanHasDestroy(approved[r][s])
      BY <3>2, <3>3, ViewShowsDestroy
    <3>5. DestroyAck(ack[r], Shown(r))
      BY <1>8 DEF Approve, GateInv, AckOK
    <3> QED
      BY <3>1, <3>4, <3>5 DEF DestroyAck, Shown
  <2>3. Contract!Stacks = Stacks
    BY DEF Contract!Stacks, Stacks
  <2> QED
    BY <1>1, <1>2, <2>1, <2>2, <2>3 DEF Contract!CApprove, CShown, CMade, CPhase
<1>9. job' = job
      \/ (job' = [job EXCEPT ![r] = "planning"] /\ job[r] = "queued")
      \/ (job' = [job EXCEPT ![r] = "planned"] /\ job[r] = "planning")
      \/ (\E j \in {"failed", "done"} : job' = [job EXCEPT ![r] = j]
           /\ job[r] \in {"queued", "planning", "planned", "applying"})
      \/ Approve(r)
  BY DEF StartPlan, EndPlan, Replan, FailClosed, Skip, ApplyRefused, MayApply, Complete, Break
<1> QED
  BY <1>4, <1>5, <1>6, <1>7, <1>8, <1>9

(* A dispatch opens the run, and a staged plan is shown.                    *)
LEMMA ShowSteps ==
    ASSUME GateInv, NEW r \in Runs, Dispatch(r) \/ PlanStack(r)
    PROVE  Contract!COpen(r) \/ Contract!CShow(r) \/ UNCHANGED Contract!cvars
<1>1. Contract!Stacks = Stacks
  BY DEF Contract!Stacks, Stacks
<1>2. CASE Dispatch(r)
  <2>1. /\ CPhase[r] = "closed"
        /\ CPhase' = [CPhase EXCEPT ![r] = "open"]
        /\ \E a \in BOOLEAN : ack' = [ack EXCEPT ![r] = a]
        /\ CShown' = [CShown EXCEPT ![r] = [s \in Stacks |-> None]]
        /\ CMade' = [CMade EXCEPT ![r] = [s \in Stacks |-> None]]
    <3>1. CPhase[r] = "closed" /\ CPhase' = [CPhase EXCEPT ![r] = "open"]
      BY <1>2 DEF Dispatch, GateInv, TypeOK, CPhase, Phase
    <3>2. \E a \in BOOLEAN : ack' = [ack EXCEPT ![r] = a]
      BY <1>2 DEF Dispatch
    <3>3. CShown' = [CShown EXCEPT ![r] = [s \in Stacks |-> None]]
      BY <1>2 DEF Dispatch, GateInv, TypeOK, CShown, Seen
    <3>4. CMade' = [CMade EXCEPT ![r] = [s \in Stacks |-> None]]
      BY <1>2 DEF Dispatch, GateInv, TypeOK, CMade, Seen
    <3> QED
      BY <3>1, <3>2, <3>3, <3>4
  <2> QED
    BY <1>1, <2>1 DEF Contract!COpen, Contract!Blank, CPhase, CShown, CMade
<1>3. CASE PlanStack(r)
  <2>1. At(r) \in Stacks /\ pending[At(r)] \in Plans
    BY <1>3, AtStack DEF PlanStack, GateInv, TypeOK
  <2>2. UNCHANGED <<CPhase, ack, CMade>>
    BY <1>3 DEF PlanStack, CPhase, CMade
  <2>3. CASE At(r) \in Deferred
    <3>1. CShown' = CShown
      BY <1>3, <2>3 DEF PlanStack, CShown
    <3> QED
      BY <2>2, <3>1 DEF Contract!cvars, CPhase, CShown, CMade
  <2>4. CASE At(r) \notin Deferred
    <3>1. pending[At(r)] # None
      BY <2>1
    <3>2. CShown' = [CShown EXCEPT ![r][At(r)] = View(pending[At(r)])]
      BY <1>3, <2>1, <2>4, <3>1 DEF PlanStack, GateInv, TypeOK, CShown, Seen
    <3>3. CPhase[r] = "open"
      BY <1>3 DEF PlanStack, CPhase, Phase
    <3>4. \E s \in Contract!Stacks \ Deferred, v \in {View(p) : p \in Plans} :
              CShown' = [CShown EXCEPT ![r][s] = v]
      BY <1>1, <2>1, <2>4, <3>2
    <3> QED
      BY <2>2, <3>3, <3>4 DEF Contract!CShow, CPhase, CShown, CMade
  <2> QED
    BY <2>3, <2>4
<1> QED
  BY <1>2, <1>3

(* An apply, whole or broken off, executes what the contract allows.        *)
LEMMA ApplySteps ==
    ASSUME GateInv, NEW r \in Runs, Apply(r) \/ ApplyFails(r)
    PROVE  Contract!CExecute(r)
<1> DEFINE v == View(saved[r])
           Destructive == {View(p) : p \in {q \in Plans : PlanHasDestroy(q)}}
<1>1. /\ job[r] = "applying" /\ saved[r] # None /\ GatePasses(r)
      /\ applied' = [applied EXCEPT ![r][At(r)] = saved[r]]
      /\ approved' = approved /\ ack' = ack
      /\ job' = job \/ job' = [job EXCEPT ![r] = "failed"]
  BY DEF Apply, ApplyFails, MayApply
<1>2. at[r] \in 1..Len(Order) /\ At(r) \in Stacks /\ saved[r] \in Plans
  BY <1>1, AtStack DEF GateInv, LoopOK, TypeOK
<1>3. CMade' = [CMade EXCEPT ![r][At(r)] = v]
  BY <1>1, <1>2, ZenonT(30) DEF GateInv, TypeOK, CMade, Seen
<1>4. ASSUME NEW j \in at[r]..Len(Order) PROVE CMade[r][Order[j]] = None
  <2>1. j \in 1..Len(Order)
    BY <1>2
  <2>2. Order[j] \in Stacks
    BY <2>1 DEF Stacks
  <2>3. applied[r][Order[j]] = None
    BY <1>1, <1>4 DEF GateInv, LoopOK
  <2> QED
    BY <2>2, <2>3 DEF CMade, Seen
<1>5. \/ v = CShown[r][At(r)]
      \/ CShown[r][At(r)] = None /\ At(r) \in Deferred /\ v \notin Destructive
  <2>1. CASE approved[r][At(r)] = None
    <3>1. At(r) \in Deferred /\ ~PlanHasDestroy(saved[r])
      BY <1>1, <2>1 DEF GatePasses, PlanDiff, DestroyAck
    <3>2. v \notin Destructive
      <4> SUFFICES ASSUME NEW q \in Plans, PlanHasDestroy(q), View(saved[r]) = View(q)
                   PROVE  FALSE
        OBVIOUS
      <4> QED
        BY <1>2, <3>1, ViewShowsDestroy
    <3> QED
      BY <1>2, <2>1, <3>1, <3>2 DEF CShown, Seen
  <2>2. CASE approved[r][At(r)] # None
    BY <1>1, <1>2, <2>2 DEF GatePasses, PlanDiff, CShown, Seen
  <2> QED
    BY <2>1, <2>2
<1>6. /\ CPhase[r] = "approved"
      /\ CPhase' = CPhase \/ CPhase' = [CPhase EXCEPT ![r] = "closed"]
  BY <1>1, ZenonT(30) DEF CPhase, Phase, GateInv, TypeOK
<1>7. \E p \in {"approved", "closed"} : CPhase' = [CPhase EXCEPT ![r] = p]
  BY <1>6 DEF CPhase
<1>8. CShown' = CShown
  BY <1>1 DEF CShown
<1>9. v \in {View(p) : p \in Plans}
  BY <1>2
<1> HIDE DEF v, Destructive
<1>10. \E i \in 1..Len(Order), w \in {View(p) : p \in Plans} :
          /\ \A j \in i..Len(Order) : CMade[r][Order[j]] = None
          /\ \/ w = CShown[r][Order[i]]
             \/ CShown[r][Order[i]] = None /\ Order[i] \in Deferred /\ w \notin Destructive
          /\ CMade' = [CMade EXCEPT ![r][Order[i]] = w]
  BY <1>2, <1>3, <1>4, <1>5, <1>9 DEF At
<1>11. \E i \in 1..Len(Order), w \in {View(p) : p \in Plans} :
          Contract!MayExecute(r, i, w) /\ CMade' = [CMade EXCEPT ![r][Order[i]] = w]
  BY <1>10 DEF Contract!MayExecute, CShown, CMade, Destructive
<1> QED
  BY <1>1, <1>6, <1>7, <1>8, <1>11 DEF Contract!CExecute, CPhase, CShown, CMade

(* The scripts implement the promise of the gate: every step of every run   *)
(* is a step of the contract or none of its business.                       *)
THEOREM GateKeepsContract == Spec => KeepsContract
<1>1. Init => Contract!CInit
  BY DEF Init, Contract!CInit, Contract!Blank, Contract!Stacks, Stacks, Phase, Seen
<1>2. GateInv /\ [Next]_vars => [Contract!CNext]_(Contract!cvars)
  <2> SUFFICES ASSUME GateInv, [Next]_vars
               PROVE  Contract!CNext \/ UNCHANGED Contract!cvars
    OBVIOUS
  <2>1. ASSUME NEW r \in Runs, RunStep(r)
        PROVE  Contract!CNext \/ UNCHANGED Contract!cvars
    BY <2>1, PhaseSteps, ShowSteps, ApplySteps DEF RunStep, Pipeline, Contract!CNext
  <2>2. CASE UNCHANGED flow
    BY <2>2 DEF flow, Contract!cvars
  <2>3. CASE Outside
    BY <2>2, <2>3, OutsideStep DEF GateInv
  <2>4. CASE UNCHANGED vars
    BY <2>2, <2>4 DEF vars
  <2> QED
    BY <2>1, <2>3, <2>4 DEF Next, Outside, RunStep
<1> QED
  BY <1>1, <1>2, GateSafety, PTL DEF Spec, KeepsContract, Contract!CSpec
=============================================================================
