--------------------------- MODULE MCApiAccounting ---------------------------
(* Two processes, of which one is shipped, and two keys.                     *)
EXTENDS ApiAccounting

CONSTANTS k1, k2

OneOrBoth == {{k1}, {k1, k2}}

(* A call to a provider, and a line whose fields were lost.                  *)
CallAndGarbage ==
    {[kind |-> "web3", key |-> k2, status |-> "ok"],
     [kind |-> "garbled", key |-> k2, status |-> "ok"]}
=============================================================================
