---------------------------- MODULE DeployContract ----------------------------
(***************************************************************************)
(* What the informed gate promises, without the scripts that keep the      *)
(* promise: a run shows a view of each stack's plan, a human approves, and *)
(* from then on the run executes, in stack order, only what it showed; of  *)
(* a stack it could not show (deferred) it executes nothing that destroys. *)
(***************************************************************************)
EXTENDS Naturals, Sequences

CONSTANTS
    Runs,       \* dispatches of the deploy
    Order,      \* the stacks, upstream first
    Deferred,   \* stacks that are not shown before the gate
    Views,      \* what the gate can see of a plan
    Destroying, \* the views with a destroy
    Nothing     \* not shown, or not executed

Stacks == {Order[i] : i \in 1..Len(Order)}

VARIABLES
    phase,   \* [run -> "open", "approved" or "closed"]
    acked,   \* [run -> destroys are acknowledged]
    shown,   \* [run -> [stack -> view or Nothing]]
    made     \* [run -> [stack -> view executed or Nothing]]

cvars == <<phase, acked, shown, made>>

Blank == [s \in Stacks |-> Nothing]

CInit ==
    /\ phase = [r \in Runs |-> "closed"]
    /\ acked = [r \in Runs |-> FALSE]
    /\ shown = [r \in Runs |-> Blank]
    /\ made = [r \in Runs |-> Blank]

COpen(r) ==
    /\ phase[r] = "closed"
    /\ phase' = [phase EXCEPT ![r] = "open"]
    /\ \E a \in BOOLEAN : acked' = [acked EXCEPT ![r] = a]
    /\ shown' = [shown EXCEPT ![r] = Blank]
    /\ made' = [made EXCEPT ![r] = Blank]

CShow(r) ==
    /\ phase[r] = "open"
    /\ \E s \in Stacks \ Deferred, v \in Views :
           shown' = [shown EXCEPT ![r][s] = v]
    /\ UNCHANGED <<phase, acked, made>>

CApprove(r) ==
    /\ phase[r] = "open"
    /\ \A s \in Stacks : shown[r][s] \in Destroying \ {Nothing} => acked[r]
    /\ phase' = [phase EXCEPT ![r] = "approved"]
    /\ UNCHANGED <<acked, shown, made>>

MayExecute(r, i, v) ==
    /\ \A j \in i..Len(Order) : made[r][Order[j]] = Nothing
    /\ \/ v = shown[r][Order[i]]
       \/ shown[r][Order[i]] = Nothing /\ Order[i] \in Deferred /\ v \notin Destroying

(* One stack is executed; the run may break off with it.                   *)
CExecute(r) ==
    /\ phase[r] = "approved"
    /\ \E i \in 1..Len(Order), v \in Views :
          /\ MayExecute(r, i, v)
          /\ made' = [made EXCEPT ![r][Order[i]] = v]
    /\ \E p \in {"approved", "closed"} : phase' = [phase EXCEPT ![r] = p]
    /\ UNCHANGED <<acked, shown>>

CClose(r) ==
    /\ phase[r] # "closed"
    /\ phase' = [phase EXCEPT ![r] = "closed"]
    /\ UNCHANGED <<acked, shown, made>>

CNext == \E r \in Runs : COpen(r) \/ CShow(r) \/ CApprove(r) \/ CExecute(r) \/ CClose(r)

CSpec == CInit /\ [][CNext]_cvars
=============================================================================
