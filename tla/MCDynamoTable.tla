---------------------------- MODULE MCDynamoTable ----------------------------
(* A partition of two sort keys, one of which has the prefix asked for.     *)
EXTENDS DynamoTable

CONSTANTS c1, c2, v

TwoKeys == 1..2
WholeAndPrefix == {{1, 2}, {2}}

Put(k) == [key |-> k, item |-> [val |-> v, ttl |-> FALSE]]
PutTtl(k) == [key |-> k, item |-> [val |-> v, ttl |-> TRUE]]

(* A full partition, and one with a single item that expires.               *)
FullOrOne ==
    {[k \in TwoKeys |-> [val |-> v, ttl |-> FALSE]],
     [k \in TwoKeys |-> IF k = 2 THEN [val |-> v, ttl |-> TRUE] ELSE NoItem]}

(* A key comes back after a full batch, and a key comes twice in one.       *)
TwoBatches == {<<Put(1), Put(2), PutTtl(1)>>, <<Put(1), PutTtl(1)>>}
=============================================================================
