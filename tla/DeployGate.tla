------------------------------ MODULE DeployGate ------------------------------
(***************************************************************************)
(* The informed deploy gate: plan_env.sh, the human approval and           *)
(* deploy_env.sh, as jobs of deploy_cloud_infra.yml.                       *)
(*                                                                         *)
(* A run plans every stack, stages the plan texts and waits for approval.  *)
(* Its apply job plans each stack again, compares the new text with the    *)
(* staged one by counts and addresses, and applies the new plan or fails.  *)
(* The cloud may drift at any moment; applying a stack may change what its *)
(* downstream stacks have to do; another lane may apply one stack on its   *)
(* own (deploy-lambda of deploy_all_dm_applications.yml).                  *)
(***************************************************************************)
EXTENDS Integers, Sequences, FiniteSets

CONSTANTS
    Runs,       \* dispatches of the workflow that may be under way together
    Order,      \* the stacks as stack_list.sh prints them
    Upstreams,  \* [stack -> its upstreams in stack_map.json]
    Deferred,   \* stacks with bootstrap_plannable: false
    Resources,  \* resource addresses, and "output" values, of a stack
    Plans,      \* plans a stack may need
    Acks,       \* values of the destroy_ack input
    AppStacks,  \* stacks the application lane applies
    MaxEvents,  \* drifts, failures and application deploys in a behaviour
    None        \* no plan

Acts == {"none", "create", "update", "replace", "destroy", "output"}
Stacks == {Order[i] : i \in 1..Len(Order)}
NoChanges == [x \in Resources |-> "none"]

ASSUME StacksAssumption ==
    /\ Order \in Seq(Stacks)
    /\ \A i, j \in 1..Len(Order) : Order[i] = Order[j] => i = j
    /\ Upstreams \in [Stacks -> SUBSET Stacks]
    /\ \A i, j \in 1..Len(Order) : Order[i] \in Upstreams[Order[j]] => i < j
    /\ Deferred \subseteq Stacks /\ AppStacks \subseteq Stacks

ASSUME PlansAssumption ==
    /\ IsFiniteSet(Resources)
    /\ Plans \subseteq [Resources -> Acts] /\ NoChanges \in Plans
    /\ None \notin [Resources -> Acts]

ASSUME InputsAssumption == Acks \subseteq BOOLEAN /\ MaxEvents \in Nat

VARIABLES
    pending,   \* [stack -> the plan terraform would make of it now]
    job,       \* [run -> where it is in the workflow]
    ack,       \* [run -> its destroy_ack input]
    at,        \* [run -> index of the stack its script is at]
    approved,  \* [run -> [stack -> plan in the saved-plans artifact, or None]]
    saved,     \* [run -> the tfplan of the stack at hand, or None]
    stale,     \* [run -> the state was written since saved was made]
    settled,   \* [run -> stacks its apply job is through with]
    applied,   \* [run -> [stack -> plan whose apply was started, or None]]
    app,       \* stacks being applied by the application lane
    events     \* unlucky events so far

flow == <<job, ack, at, approved, saved, settled, applied>>
vars == <<pending, flow, stale, app, events>>

Jobs == {"idle", "queued", "planning", "planned", "applying", "done", "failed"}
-----------------------------------------------------------------------------
(* plan_gate_check.sh: what it reads off a plan text.  Terraform prints    *)
(* "# a must be replaced", which counts as an add and a destroy but is not *)
(* among the address lines; a plan with only output changes has exit code  *)
(* 2 and neither counts nor addresses.                                     *)

Having(p, acts) == {x \in Resources : p[x] \in acts}

PlanCounts(p) ==
    <<Cardinality(Having(p, {"create", "replace"})),
      Cardinality(Having(p, {"update"})),
      Cardinality(Having(p, {"destroy", "replace"}))>>

PlanAddresses(p) == Having(p, {"create", "update", "destroy"})

View(p) == <<PlanCounts(p), PlanAddresses(p)>>

PlanHasDestroy(p) == PlanCounts(p)[3] > 0 \/ Having(p, {"destroy"}) # {}

(* Mistakes: changes are told from the address lines; the comparison is of *)
(* the counts alone; a destroy that an add makes good needs no consent.    *)
HasAddresses(p) == PlanAddresses(p) # {}
PlanDiffCounts(s, a, p) ==
    IF a = None THEN s \in Deferred ELSE PlanCounts(a) = PlanCounts(p)
DestroyAckNet(a, ps) == a \/ \A p \in ps : PlanCounts(p)[3] <= PlanCounts(p)[1]

(* The exit code of terraform plan -detailed-exitcode.                     *)
HasChanges(p) == Having(p, Acts \ {"none"}) # {}

DestroyAck(a, ps) == a \/ \A p \in ps : ~PlanHasDestroy(p)

PlanDiff(s, a, p) == IF a = None THEN s \in Deferred ELSE View(a) = View(p)
-----------------------------------------------------------------------------
Init ==
    /\ pending \in [Stacks -> Plans]
    /\ job = [r \in Runs |-> "idle"]
    /\ ack = [r \in Runs |-> FALSE]
    /\ at = [r \in Runs |-> 1]
    /\ approved = [r \in Runs |-> [s \in Stacks |-> None]]
    /\ saved = [r \in Runs |-> None]
    /\ stale = [r \in Runs |-> FALSE]
    /\ settled = [r \in Runs |-> {}]
    /\ applied = [r \in Runs |-> [s \in Stacks |-> None]]
    /\ app = {}
    /\ events = 0

Unlucky == events < MaxEvents /\ events' = events + 1

(* The concurrency group tf-prd is of the job, not of the run: it is free  *)
(* between the plan job and the apply job.                                 *)
GroupFree == \A r \in Runs : job[r] \notin {"planning", "applying"}

At(r) == Order[at[r]]

(* workflow_dispatch, also the re-trigger after a failure.                 *)
Dispatch(r) ==
    /\ job[r] \in {"idle", "done", "failed"}
    /\ \E a \in Acks : ack' = [ack EXCEPT ![r] = a]
    /\ job' = [job EXCEPT ![r] = "queued"]
    /\ at' = [at EXCEPT ![r] = 1]
    /\ approved' = [approved EXCEPT ![r] = [s \in Stacks |-> None]]
    /\ saved' = [saved EXCEPT ![r] = None]
    /\ settled' = [settled EXCEPT ![r] = {}]
    /\ applied' = [applied EXCEPT ![r] = [s \in Stacks |-> None]]
    /\ UNCHANGED <<pending, stale, app, events>>

StartPlan(r) ==
    /\ job[r] = "queued" /\ GroupFree
    /\ job' = [job EXCEPT ![r] = "planning"]
    /\ UNCHANGED <<pending, ack, at, approved, saved, settled, applied, stale, app, events>>

(* One turn of the loop of plan_env.sh: a deferred stack is only listed.   *)
PlanStack(r) ==
    /\ job[r] = "planning" /\ at[r] <= Len(Order)
    /\ approved' = IF At(r) \in Deferred THEN approved
                   ELSE [approved EXCEPT ![r][At(r)] = pending[At(r)]]
    /\ at' = [at EXCEPT ![r] = @ + 1]
    /\ UNCHANGED <<pending, job, ack, saved, settled, applied, stale, app, events>>

Shown(r) == {approved[r][s] : s \in Stacks} \ {None}

(* The destroy acknowledgment over every staged plan ends the plan job.    *)
EndPlan(r) ==
    /\ job[r] = "planning" /\ at[r] > Len(Order)
    /\ job' = [job EXCEPT ![r] = IF DestroyAck(ack[r], Shown(r)) THEN "planned"
                                 ELSE "failed"]
    /\ UNCHANGED <<pending, ack, at, approved, saved, settled, applied, stale, app, events>>

(* The environment gate is approved and the apply job gets the group.      *)
Approve(r) ==
    /\ job[r] = "planned" /\ GroupFree
    /\ job' = [job EXCEPT ![r] = "applying"]
    /\ at' = [at EXCEPT ![r] = 1]
    /\ UNCHANGED <<pending, ack, approved, saved, settled, applied, stale, app, events>>

(* deploy_stack up to the plan that tf_plan.sh saves.                      *)
Replan(r) ==
    /\ job[r] = "applying" /\ at[r] <= Len(Order) /\ saved[r] = None
    /\ saved' = [saved EXCEPT ![r] = pending[At(r)]]
    /\ stale' = [stale EXCEPT ![r] = FALSE]
    /\ UNCHANGED <<pending, job, ack, at, approved, settled, applied, app, events>>

(* Mistake: a deferred stack meets no destroy gate.                        *)
GatePassesDeferred(r) == PlanDiff(At(r), approved[r][At(r)], saved[r])

(* The two gates over the new plan.  DESTROY_ACK is not in the environment *)
(* of the apply job, so that it is "false" for a deferred stack.           *)
GatePasses(r) ==
    /\ At(r) \in Deferred /\ approved[r][At(r)] = None => DestroyAck(FALSE, {saved[r]})
    /\ PlanDiff(At(r), approved[r][At(r)], saved[r])

(* Mistake: the loop goes on after a divergence.                           *)
FailOpen(r) ==
    /\ job[r] = "applying" /\ saved[r] # None
    /\ ~GatePasses(r)
    /\ at' = [at EXCEPT ![r] = @ + 1]
    /\ saved' = [saved EXCEPT ![r] = None]
    /\ UNCHANGED <<pending, job, ack, approved, settled, applied, stale, app, events>>

FailClosed(r) ==
    /\ job[r] = "applying" /\ saved[r] # None
    /\ ~GatePasses(r)
    /\ job' = [job EXCEPT ![r] = "failed"]
    /\ UNCHANGED <<pending, ack, at, approved, saved, settled, applied, stale, app, events>>

(* On to the next stack of the loop.                                       *)
Settle(r) ==
    /\ settled' = [settled EXCEPT ![r] = @ \cup {At(r)}]
    /\ at' = [at EXCEPT ![r] = @ + 1]
    /\ saved' = [saved EXCEPT ![r] = None]

(* Mistake: the loop advances again after a stack without changes.         *)
SkipTwice(r) ==
    /\ job[r] = "applying" /\ saved[r] # None
    /\ GatePasses(r) /\ ~HasChanges(saved[r])
    /\ settled' = [settled EXCEPT ![r] = @ \cup {At(r)}]
    /\ at' = [at EXCEPT ![r] = @ + 2]
    /\ saved' = [saved EXCEPT ![r] = None]
    /\ UNCHANGED <<pending, job, ack, approved, applied, stale, app, events>>

(* Nothing to apply.                                                       *)
Skip(r) ==
    /\ job[r] = "applying" /\ saved[r] # None
    /\ GatePasses(r) /\ ~HasChanges(saved[r])
    /\ Settle(r)
    /\ UNCHANGED <<pending, job, ack, approved, applied, stale, app, events>>

(* What may be pending once stack s was written: its own rest, and new     *)
(* work for its downstream stacks.                                         *)
AfterWrite(s, rest) ==
    {f \in [Stacks -> Plans] :
        /\ f[s] \in rest
        /\ \A d \in Stacks \ {s} : s \notin Upstreams[d] => f[d] = pending[d]}

MayApply(r) ==
    /\ job[r] = "applying" /\ saved[r] # None
    /\ GatePasses(r) /\ HasChanges(saved[r])

(* terraform apply tfplan: the saved plan, whatever became of the cloud    *)
(* since; only a state written since then is refused.                      *)
Apply(r) ==
    /\ MayApply(r) /\ ~stale[r]
    /\ applied' = [applied EXCEPT ![r][At(r)] = saved[r]]
    /\ pending' \in AfterWrite(At(r), IF pending[At(r)] = saved[r] THEN {NoChanges}
                                      ELSE Plans)
    /\ Settle(r)
    /\ UNCHANGED <<job, ack, approved, stale, app, events>>

ApplyRefused(r) ==
    /\ MayApply(r) /\ stale[r]
    /\ job' = [job EXCEPT ![r] = "failed"]
    /\ UNCHANGED <<pending, ack, at, approved, saved, settled, applied, stale, app, events>>

(* Some of the plan was executed before the error; set -e ends the script. *)
ApplyFails(r) ==
    /\ MayApply(r) /\ ~stale[r] /\ Unlucky
    /\ applied' = [applied EXCEPT ![r][At(r)] = saved[r]]
    /\ pending' \in AfterWrite(At(r), Plans)
    /\ job' = [job EXCEPT ![r] = "failed"]
    /\ UNCHANGED <<ack, at, approved, saved, settled, stale, app>>

Complete(r) ==
    /\ job[r] = "applying" /\ at[r] > Len(Order)
    /\ job' = [job EXCEPT ![r] = "done"]
    /\ UNCHANGED <<pending, ack, at, approved, saved, settled, applied, stale, app, events>>

(* A job is displaced in the queue of its group, rejected, left until the  *)
(* artifact expires, cancelled, timed out, or its lock check, init,        *)
(* validate or plan fails.                                                 *)
Break(r) ==
    /\ job[r] \in {"queued", "planning", "planned", "applying"} /\ Unlucky
    /\ job' = [job EXCEPT ![r] = "failed"]
    /\ UNCHANGED <<pending, ack, at, approved, saved, settled, applied, stale, app>>

(* Something outside the workflows changes what a stack needs.             *)
Drift(s) ==
    /\ Unlucky
    /\ \E p \in Plans \ {pending[s]} : pending' = [pending EXCEPT ![s] = p]
    /\ UNCHANGED <<flow, stale, app>>

(* deploy-lambda: terraform apply -auto-approve, in a concurrency group of *)
(* its own and with layer inputs of its own.                               *)
AppStart(s) ==
    /\ s \notin app /\ Unlucky
    /\ app' = app \cup {s}
    /\ UNCHANGED <<pending, flow, stale>>

AppApply(s) ==
    /\ s \in app
    /\ app' = app \ {s}
    /\ pending' \in AfterWrite(s, Plans)
    /\ stale' = [r \in Runs |-> stale[r] \/ (saved[r] # None /\ At(r) = s)]
    /\ UNCHANGED <<flow, events>>

Pipeline(r) ==
    \/ Dispatch(r) \/ StartPlan(r) \/ PlanStack(r) \/ EndPlan(r) \/ Approve(r)
    \/ Replan(r) \/ FailClosed(r) \/ Skip(r) \/ Apply(r) \/ ApplyRefused(r)
    \/ Complete(r)

Next ==
    \/ \E r \in Runs : Pipeline(r) \/ ApplyFails(r) \/ Break(r)
    \/ \E s \in Stacks : Drift(s)
    \/ \E s \in AppStacks : AppStart(s) \/ AppApply(s)

(* Jobs get on, and the operator re-triggers and approves, which is how a  *)
(* divergence is meant to be resolved.                                     *)
Fairness ==
    /\ \A r \in Runs : WF_vars(Pipeline(r))
    /\ \A s \in AppStacks : WF_vars(AppApply(s))

Spec == Init /\ [][Next]_vars /\ Fairness
-----------------------------------------------------------------------------
TypeOK ==
    /\ pending \in [Stacks -> Plans]
    /\ job \in [Runs -> Jobs]
    /\ ack \in [Runs -> BOOLEAN]
    /\ at \in [Runs -> 1..(Len(Order) + 1)]
    /\ approved \in [Runs -> [Stacks -> Plans \cup {None}]]
    /\ saved \in [Runs -> Plans \cup {None}]
    /\ stale \in [Runs -> BOOLEAN]
    /\ settled \in [Runs -> SUBSET Stacks]
    /\ applied \in [Runs -> [Stacks -> Plans \cup {None}]]
    /\ app \subseteq AppStacks
    /\ events \in 0..MaxEvents

(* "apply proceeds iff add/change/destroy counts AND the changed-address   *)
(* set match": whatever drifted between plan, approval, re-plan and apply, *)
(* what a run applies has the view its approver was shown.                 *)
AppliedAsApproved ==
    \A r \in Runs, s \in Stacks \ Deferred :
        applied[r][s] # None =>
            approved[r][s] # None /\ View(applied[r][s]) = View(approved[r][s])

(* No run destroys without its acknowledgment, although it is checked in   *)
(* the plan job only, on plans that are not the ones applied.              *)
DestroysAcknowledged ==
    \A r \in Runs, s \in Stacks :
        (applied[r][s] # None /\ PlanHasDestroy(applied[r][s])) => ack[r]

(* "no further downstream applies": a run that applies a stack has settled *)
(* everything before it, hence its upstreams; once a stack fails, nothing  *)
(* after it is touched.                                                    *)
StopsAtFailure ==
    \A r \in Runs, j \in 1..Len(Order) :
        applied[r][Order[j]] # None =>
            /\ \A i \in 1..(j - 1) : Order[i] \in settled[r]
            /\ Upstreams[Order[j]] \subseteq settled[r]

(* A run that ends well, which is when the release is tagged, is through   *)
(* with every stack.                                                       *)
DoneIsComplete == \A r \in Runs : job[r] = "done" => settled[r] = Stacks

(* "guarantees the applied plan is the approved plan".                     *)
AppliedIsApproved ==
    \A r \in Runs, s \in Stacks \ Deferred :
        applied[r][s] # None => applied[r][s] = approved[r][s]

(* An operator who re-triggers, acknowledges and approves gets the stacks  *)
(* deployed one after the other, whatever drifted, failed or diverged on   *)
(* the way; only a deferred stack that has to destroy something holds them *)
(* up, because its acknowledgment is never passed on.                      *)
HeldUp(j) ==
    \E i \in 1..j : Order[i] \in Deferred /\ PlanHasDestroy(pending[Order[i]])

Converges ==
    <>[](\A r \in Runs : ack[r]) =>
    <>[](\A j \in 1..Len(Order) : pending[Order[j]] = NoChanges \/ HeldUp(j))

(* The promise of the gate, which the scripts keep by counts and addresses *)
(* of two plans made at different times.                                   *)
Phase(j) == CASE j \in {"queued", "planning", "planned"} -> "open"
              [] j = "applying" -> "approved"
              [] OTHER -> "closed"

Seen(p) == IF p = None THEN None ELSE View(p)

Contract ==
    INSTANCE DeployContract WITH
        Nothing <- None,
        Views <- {View(p) : p \in Plans},
        Destroying <- {View(p) : p \in {q \in Plans : PlanHasDestroy(q)}},
        phase <- [r \in Runs |-> Phase(job[r])],
        acked <- ack,
        shown <- [r \in Runs |-> [s \in Stacks |-> Seen(approved[r][s])]],
        made <- [r \in Runs |-> [s \in Stacks |-> Seen(applied[r][s])]]

KeepsContract == Contract!CSpec
=============================================================================
