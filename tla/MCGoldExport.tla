---------------------------- MODULE MCGoldExport ----------------------------
(* Instances of GoldExport for TLC.                                        *)
EXTENDS GoldExport

CONSTANTS etherscan, k1, k2, d1, d2, d3

(* Both keys come from one view: a row depends on no view but its own.     *)
OneView == [r \in {k1, k2} |-> etherscan]

(* A view of version 0 has seen no key yet, one of version 1 has, and in   *)
(* version 2 (after a full refresh) the second key is gone.                *)
ComeAndGo == [v \in Versions |-> CASE v = 0 -> {} [] v = 1 -> {k1, k2}
                                [] OTHER -> {k1}]
=============================================================================
