----------------------------- MODULE MCDeployGate -----------------------------
(* Instances of DeployGate for TLC: a stack and its downstream stack, with  *)
(* two resources, as peripherals and lambda in stack_map.json.              *)
EXTENDS DeployGate, TLC

CONSTANTS up, down, x, y, r1, r2

TwoStacks == <<up, down>>
Chain == (up :> {}) @@ (down :> {up})
OneStack == <<down>>
NoUpstreams == (down :> {})

Change(res, act) == [NoChanges EXCEPT ![res] = act]

(* Plans that the gate tells apart and plans that it does not: the two      *)
(* replacements have equal views, and so have the swap and its reverse.     *)
ManyPlans ==
    {NoChanges, Change(x, "replace"), Change(y, "replace"),
     Change(y, "destroy"), Change(x, "output"), Change(x, "update"),
     [Change(x, "create") EXCEPT ![y] = "destroy"],
     [Change(x, "destroy") EXCEPT ![y] = "create"]}

(* One plan of each kind that the gate treats differently; the last two    *)
(* have equal counts.                                                       *)
RunPlans == {NoChanges, Change(x, "create"), Change(x, "replace"),
             [Change(x, "create") EXCEPT ![y] = "destroy"]}
=============================================================================
