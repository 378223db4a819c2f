------------------------ MODULE MCEthereumPipeline ------------------------
(* Small chains with forks for the pipeline's model checking.  "a1".."a5"  *)
(* is the winning chain, "b2" and "b3" are its losing branch.              *)
EXTENDS EthereumPipeline

AllBlocks == {"a1", "a2", "a3", "a4", "a5", "b2", "b3"}
AllNumber ==
    [b \in AllBlocks |->
       CASE b = "a1" -> 1 [] b \in {"a2", "b2"} -> 2 [] b \in {"a3", "b3"} -> 3
         [] b = "a4" -> 4 [] b = "a5" -> 5]
AllParent ==
    [b \in AllBlocks |->
       CASE b = "a1" -> "none" [] b \in {"a2", "b2"} -> "a1" [] b = "a3" -> "a2"
         [] b = "b3" -> "b2" [] b = "a4" -> "a3" [] b = "a5" -> "a4"]

NumberIn(S) == [b \in S |-> AllNumber[b]]
ParentIn(S) == [b \in S |-> IF AllParent[b] \in S THEN AllParent[b] ELSE "none"]

OneTx == {"t1"}
Called == [t \in OneTx |-> "c1"]

(* A fork two blocks deep that loses.  The transaction is in its first     *)
(* block, whose row may come twice; its copy in the winning branch is      *)
(* malformed.                                                              *)
ForkBlocks == AllBlocks \ {"a1", "a5"}
ForkNumber == NumberIn(ForkBlocks)
ForkParent == ParentIn(ForkBlocks)
ForkRows == {[tx |-> "t1", block |-> "a2"], [tx |-> "t1", block |-> "b2"]}
ForkWellFormed == {x \in ForkRows : x.block = "b2"}
ForkSingle == (ForkBlocks \ {"b2"}) \cup OneTx

(* Two siblings, a block on top of one of them, one before both; the same  *)
(* transaction is in both siblings.                                        *)
TreeBlocks == {"a1", "a2", "b2", "a3"}
TreeNumber == NumberIn(TreeBlocks)
TreeParent == ParentIn(TreeBlocks)
TreeTxs == {"t1", "t2"}
TreeTo == [t \in TreeTxs |-> IF t = "t1" THEN "c1" ELSE "null"]
TreeRows == {[tx |-> "t1", block |-> "a2"], [tx |-> "t1", block |-> "b2"],
             [tx |-> "t2", block |-> "a1"]}
TreeWellFormed == {x \in TreeRows : x.tx = "t1"}
=============================================================================
