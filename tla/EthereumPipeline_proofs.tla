----------------------- MODULE EthereumPipeline_proofs -----------------------
(***************************************************************************)
(* Safety of the pipeline for any block tree, any set of transactions, any *)
(* window and any number of deliveries and failures.                       *)
(***************************************************************************)
EXTENDS EthereumPipeline, FiniteSetTheorems, TLAPS

(* What the index calls canonical would be called canonical if it were     *)
(* recomputed now: it may be older than the table, but never ahead of it.  *)
IndexBacked ==
    \A b \in Blocks :
        index[b].status = "canonical" => Classify(ethBlocks, b) = "canonical"

(* The gold table is a part of the valid silver rows.                      *)
GoldBacked ==
    \A r \in DOMAIN gas :
        /\ r \in DOMAIN enriched /\ gas[r] <= enriched[r]
        /\ r.status = "valid"

PipelineInv == TypeOK /\ IndexBacked /\ ValidIsCanonical /\ GoldBacked

Counts == [Blocks -> Nat]

IsRowBag(B) == DOMAIN B \subseteq Rows /\ B \in [DOMAIN B -> Nat \ {0}]

-----------------------------------------------------------------------------
(* A table with more rows never takes a block back from "canonical": the   *)
(* head only moves on, and the child that vouches for a block leaves the   *)
(* window after it.                                                        *)
LEMMA ClassifyMonotone ==
    ASSUME NEW S \in Counts, NEW T \in Counts, \A c \in Blocks : S[c] <= T[c],
           NEW b \in Blocks, Classify(S, b) = "canonical"
    PROVE  Classify(T, b) = "canonical"
<1> USE DEF Counts
<1>1. Present(S) \subseteq Present(T)
  BY DEF Present
<1>2. b \in Present(S) /\ T[b] # 0
  BY DEF Classify, Present
<1>3. CASE Outside(S, b)
  BY <1>1, <1>2, <1>3 DEF Outside, Classify
<1>4. CASE ~Outside(S, b) /\ Outside(T, b)
  BY <1>2, <1>4 DEF Classify
<1>5. CASE ~Outside(S, b) /\ ~Outside(T, b)
  <2>1. ~Recent(S, b) /\ b \in ParentRefs(S)
    BY <1>5 DEF Classify
  <2>2. ~Recent(T, b)
    BY <1>1, <2>1 DEF Recent
  <2>3. PICK c \in WindowOf(S) : Parent[c] = b
    BY <2>1 DEF ParentRefs
  <2>4. c \in Present(T) /\ c \in Blocks /\ Number[c] = Number[b] + 1
    BY <1>1, <2>3, ChainAssumption DEF WindowOf, Present
  <2>5. ~Outside(T, c)
    <3>1. SUFFICES ASSUME Outside(T, c) PROVE FALSE
      OBVIOUS
    <3>2. PICK m \in Present(T) : Number[c] <= Number[m] - WindowBlocks
      BY <3>1 DEF Outside
    <3>3. Number[b] <= Number[m] - WindowBlocks
      <4>1. m \in Blocks /\ Number[m] \in Nat /\ Number[b] \in Nat
        BY <3>2, ChainAssumption DEF Present
      <4> QED BY <3>2, <4>1, <2>4, WindowAssumption
    <3> QED BY <1>5, <3>2, <3>3 DEF Outside
  <2>6. b \in ParentRefs(T)
    BY <2>3, <2>4, <2>5 DEF ParentRefs, WindowOf
  <2> QED BY <1>2, <1>5, <2>2, <2>6 DEF Classify
<1> QED BY <1>3, <1>4, <1>5

(* A block's class is one of four.                                         *)
LEMMA ClassifyType ==
    ASSUME NEW S, NEW b
    PROVE  Classify(S, b) \in ChainStatus
BY DEF Classify, ChainStatus

(* The initial state satisfies the invariant.                              *)
LEMMA InitPipeline == Init => PipelineInv
BY BoundsAssumption
   DEF Init, PipelineInv, TypeOK, IndexBacked, ValidIsCanonical, GoldBacked,
       ChainStatus, Flows, EmptyBag, SetToBag

-----------------------------------------------------------------------------
(* Steps that leave the index and the joined rows alone.                   *)
LEMMA LeavesRows ==
    ASSUME PipelineInv, UNCHANGED <<index, enriched, gas, ethBlocks>>
    PROVE  IndexBacked' /\ ValidIsCanonical' /\ GoldBacked'
BY DEF PipelineInv, IndexBacked, ValidIsCanonical, GoldBacked, Classify,
       Outside, Recent, ParentRefs, WindowOf, Present

(* Updates, failures and the ingestion of transactions and decoded inputs. *)
LEMMA EdgesKeep ==
    ASSUME PipelineInv,
           \/ Update \/ IngestTransactions \/ IngestDecoded
           \/ \E f \in Flows : Fail(f)
    PROVE  PipelineInv'
<1>1. CASE Update
  BY <1>1, LeavesRows DEF PipelineInv, TypeOK, Update, silver, gold
<1>2. CASE IngestTransactions
  BY <1>2, LeavesRows DEF PipelineInv, TypeOK, IngestTransactions, Done, gold
<1>3. CASE IngestDecoded
  BY <1>3, LeavesRows DEF PipelineInv, TypeOK, IngestDecoded, Done, gold
<1>4. ASSUME NEW f \in Flows, Fail(f) PROVE PipelineInv'
  <2>1. TypeOK'
    BY <1>4, BoundsAssumption DEF PipelineInv, TypeOK, Fail, silver, gold
  <2> QED BY <1>4, <2>1, LeavesRows DEF PipelineInv, Fail, silver, gold
<1> QED BY <1>1, <1>2, <1>3, <1>4

(* New blocks: the index falls behind, but is not contradicted.            *)
LEMMA IngestBlocksKeeps ==
    ASSUME PipelineInv, IngestBlocks
    PROVE  PipelineInv'
<1>1. TypeOK'
  BY DEF PipelineInv, TypeOK, IngestBlocks, Done, gold
<1>2. /\ ethBlocks \in Counts /\ ethBlocks' \in Counts
      /\ \A c \in Blocks : ethBlocks[c] <= ethBlocks'[c]
  BY BoundsAssumption
     DEF PipelineInv, TypeOK, IngestBlocks, Appended, Counts
<1>3. IndexBacked'
  BY <1>2, ClassifyMonotone DEF PipelineInv, IndexBacked, IngestBlocks
<1>4. ValidIsCanonical' /\ GoldBacked'
  BY DEF PipelineInv, ValidIsCanonical, GoldBacked, IngestBlocks, gold
<1> QED BY <1>1, <1>3, <1>4 DEF PipelineInv

(* The index is recomputed: no canonical block is lost.                    *)
LEMMA ReindexKeeps ==
    ASSUME PipelineInv, Reindex
    PROVE  /\ PipelineInv'
           /\ \A b \in Blocks : index[b].status = "canonical"
                => index'[b].status = "canonical"
<1>1. \A b \in Blocks : index'[b] = [status |-> Classify(ethBlocks, b),
                                     rows |-> IndexRows(ethBlocks, b)]
  BY DEF Reindex
<1>2. UNCHANGED <<ethBlocks, staging, decoded, consumed, enriched, gas,
                  ranking, lambda, failures>>
  BY DEF Reindex, Done, silver, gold
<1>a. \A b \in Blocks : index'[b].status = Classify(ethBlocks, b)
  <2>1. TAKE b \in Blocks
  <2> DEFINE entry == [status |-> Classify(ethBlocks, b),
                      rows |-> IndexRows(ethBlocks, b)]
  <2>2. index'[b] = entry
    BY <1>1
  <2>3. entry.status = Classify(ethBlocks, b)
    OBVIOUS
  <2> HIDE DEF entry
  <2> QED BY <2>2, <2>3
<1>3. \A b \in Blocks : index[b].status = "canonical"
        => index'[b].status = "canonical"
  BY <1>a DEF PipelineInv, IndexBacked
<1>4. TypeOK'
  <2>1. \A b \in Blocks : IndexRows(ethBlocks, b) \in 0..MaxCopies \cup {1}
    BY BoundsAssumption DEF IndexRows, PipelineInv, TypeOK
  <2>2. index' \in [Blocks -> [status : ChainStatus, rows : 0..MaxCopies \cup {1}]]
    BY <2>1, ClassifyType DEF Reindex
  <2> QED BY <1>2, <2>2 DEF PipelineInv, TypeOK, Reindex, Done
<1>5. IndexBacked'
  <2>1. \A b \in Blocks : Classify(ethBlocks, b)' = Classify(ethBlocks, b)
    BY <1>2 DEF Classify, Outside, Recent, ParentRefs, WindowOf, Present
  <2> QED BY <1>a, <2>1 DEF IndexBacked
<1>6. ValidIsCanonical'
  BY <1>2, <1>3 DEF PipelineInv, TypeOK, ValidIsCanonical, Rows
<1>7. GoldBacked'
  BY <1>2 DEF PipelineInv, GoldBacked
<1> QED BY <1>3, <1>4, <1>5, <1>6, <1>7 DEF PipelineInv

-----------------------------------------------------------------------------
(* The union of two bags of rows: its rows are those of either, and none   *)
(* becomes rarer.                                                          *)
LEMMA RowBagUnion ==
    ASSUME NEW B, IsRowBag(B), NEW C, IsRowBag(C)
    PROVE  /\ IsRowBag(B (+) C)
           /\ DOMAIN (B (+) C) = DOMAIN B \cup DOMAIN C
           /\ \A r \in DOMAIN B : B[r] <= (B (+) C)[r]
BY DEF IsRowBag, (+)

(* The product of two positive numbers is positive.                        *)
LEMMA PositiveProduct ==
    ASSUME NEW m \in Nat \ {0}, NEW n \in Nat \ {0}
    PROVE  m * n \in Nat \ {0}
OBVIOUS

(* Every joined row is a row, counted at least once, and says "valid" only *)
(* of a block that the index calls canonical.                              *)
LEMMA JoinedRows ==
    ASSUME PipelineInv, NEW r \in NewRows
    PROVE  /\ r \in Rows
           /\ NewCopies(r) \in Nat \ {0}
           /\ r.status = "valid" => index[r.block].status = "canonical"
<1>1. PICK x \in Pending : r \in {Joined(x, h) : h \in Headers(x.block)}
  BY DEF NewRows
<1>2. PICK h \in Headers(x.block) : r = Joined(x, h)
  BY <1>1
<1>3. /\ x \in TxRows /\ x.tx \in Txs /\ x.block \in Blocks
      /\ x = [tx |-> x.tx, block |-> x.block]
  BY <1>1, TransactionsAssumption DEF Pending
<1>4. h = NoBlock \/ (h \in Blocks /\ ethBlocks[h] \in Nat \ {0})
  BY <1>2, BoundsAssumption DEF Headers, Present, PipelineInv, TypeOK
<1>5. /\ r.tx = x.tx /\ r.block = x.block /\ r.header = h
      /\ r.status = TxStatus(index[x.block].status)
      /\ r.decoded = (decoded[x.tx] > 0)
      /\ SourceOf(r) = x
  BY <1>2, <1>3 DEF Joined, SourceOf
<1>6. index[x.block].status \in ChainStatus
  BY <1>3 DEF PipelineInv, TypeOK
<1>7. r \in Rows
  BY <1>2, <1>3, <1>4, <1>6 DEF Joined, Rows, TxStatus, ChainStatus
<1>8. r.status = "valid" => index[r.block].status = "canonical"
  BY <1>5, <1>6 DEF TxStatus, ChainStatus
<1>9. NewCopies(r) \in Nat \ {0}
  <2>1. staging[x] - consumed[x] \in Nat \ {0}
    BY <1>1, <1>3, BoundsAssumption DEF Pending, PipelineInv, TypeOK
  <2>2. (IF h = NoBlock THEN 1 ELSE ethBlocks[h]) \in Nat \ {0}
    BY <1>4
  <2>3. AtLeastOne(decoded[x.tx]) \in Nat \ {0}
    BY <1>3, BoundsAssumption DEF AtLeastOne, PipelineInv, TypeOK
  <2>4. AtLeastOne(index[x.block].rows) \in Nat \ {0}
    BY <1>3, BoundsAssumption DEF AtLeastOne, PipelineInv, TypeOK
  <2>5. NewCopies(r) = (staging[x] - consumed[x])
                       * (IF h = NoBlock THEN 1 ELSE ethBlocks[h])
                       * AtLeastOne(decoded[x.tx])
                       * AtLeastOne(index[x.block].rows)
    BY <1>5 DEF NewCopies
  <2>6. (staging[x] - consumed[x]) * (IF h = NoBlock THEN 1 ELSE ethBlocks[h])
        \in Nat \ {0}
    BY <2>1, <2>2, PositiveProduct
  <2>7. (staging[x] - consumed[x]) * (IF h = NoBlock THEN 1 ELSE ethBlocks[h])
        * AtLeastOne(decoded[x.tx]) \in Nat \ {0}
    BY <2>3, <2>6, PositiveProduct
  <2> QED BY <2>4, <2>5, <2>7, PositiveProduct
<1> QED BY <1>7, <1>8, <1>9

(* The join appends rows that agree with the index of this moment.         *)
LEMMA EnrichKeeps ==
    ASSUME PipelineInv, Enrich
    PROVE  PipelineInv'
<1> DEFINE new == [r \in NewRows |-> NewCopies(r)]
<1>1. IsRowBag(new) /\ DOMAIN new = NewRows
  BY JoinedRows DEF IsRowBag
<1>2. IsRowBag(enriched)
  BY DEF PipelineInv, TypeOK, IsRowBag
<1>3. enriched' = enriched (+) new
  BY DEF Enrich
<1> HIDE DEF new
<1>4. /\ IsRowBag(enriched')
      /\ DOMAIN enriched' = DOMAIN enriched \cup NewRows
      /\ \A r \in DOMAIN enriched : enriched[r] <= enriched'[r]
  BY <1>1, <1>2, <1>3, RowBagUnion
<1>5. TypeOK'
  BY <1>4 DEF PipelineInv, TypeOK, Enrich, Done, silver, gold, IsRowBag
<1>6. IndexBacked'
  BY DEF PipelineInv, IndexBacked, Enrich, silver, Classify, Outside, Recent,
         ParentRefs, WindowOf, Present
<1>7. ValidIsCanonical'
  BY <1>4, JoinedRows DEF PipelineInv, ValidIsCanonical, Enrich
<1>8. GoldBacked'
  <2>1. SUFFICES ASSUME NEW r \in DOMAIN gas
                 PROVE  /\ r \in DOMAIN enriched' /\ gas[r] <= enriched'[r]
                        /\ r.status = "valid"
    BY DEF GoldBacked, Enrich, gold
  <2>2. r \in DOMAIN enriched /\ gas[r] <= enriched[r] /\ r.status = "valid"
    BY <2>1 DEF PipelineInv, GoldBacked
  <2>3. gas[r] \in Nat /\ enriched[r] \in Nat /\ enriched'[r] \in Nat
    BY <1>4, <2>1, <2>2 DEF PipelineInv, TypeOK, IsRowBag
  <2> QED BY <1>4, <2>2, <2>3
<1> QED BY <1>5, <1>6, <1>7, <1>8 DEF PipelineInv

(* A filter of a bag of rows is one, with the same counts.                 *)
LEMMA RowBagFilter ==
    ASSUME NEW B, IsRowBag(B), NEW R
    PROVE  /\ IsRowBag(Filter(B, R))
           /\ DOMAIN Filter(B, R) = DOMAIN B \cap R
           /\ \A r \in DOMAIN Filter(B, R) : Filter(B, R)[r] = B[r]
BY DEF IsRowBag, Filter

(* The gold tables are computed from the silver one.                       *)
LEMMA GoldKeeps ==
    ASSUME PipelineInv, RefreshGas \/ RefreshRanking \/ RefreshLambda
    PROVE  PipelineInv'
<1>0. IsRowBag(enriched)
  BY DEF PipelineInv, TypeOK, IsRowBag
<1>1. CASE RefreshGas
  <2>1. /\ IsRowBag(gas') /\ DOMAIN gas' = DOMAIN enriched \cap ValidRows
        /\ \A r \in DOMAIN gas' : gas'[r] = enriched[r]
    BY <1>0, <1>1, RowBagFilter DEF RefreshGas
  <2>2. TypeOK'
    BY <1>1, <2>1 DEF PipelineInv, TypeOK, RefreshGas, Done, silver, IsRowBag
  <2>3. GoldBacked'
    BY <1>0, <1>1, <2>1 DEF GoldBacked, RefreshGas, ValidRows, IsRowBag
  <2>4. IndexBacked' /\ ValidIsCanonical'
    BY <1>1 DEF PipelineInv, IndexBacked, ValidIsCanonical, RefreshGas, silver,
                Classify, Outside, Recent, ParentRefs, WindowOf, Present
  <2> QED BY <2>2, <2>3, <2>4 DEF PipelineInv
<1>2. CASE RefreshRanking
  <2>1. ranking' \subseteq {To[t] : t \in Txs} \ {NoAddress}
    <3>1. \A r \in ValidRows : r.tx \in Txs
      BY DEF ValidRows, PipelineInv, TypeOK, Rows
    <3>2. {To[r.tx] : r \in ValidRows} \subseteq {To[t] : t \in Txs}
      BY <3>1
    <3>3. ranking' \subseteq {To[r.tx] : r \in ValidRows} \ {NoAddress}
      BY <1>2 DEF RefreshRanking
    <3> QED BY <3>2, <3>3
  <2>2. TypeOK'
    BY <1>2, <2>1 DEF PipelineInv, TypeOK, RefreshRanking, Done, silver
  <2> QED BY <1>2, <2>2, LeavesRows DEF PipelineInv, RefreshRanking, silver
<1>3. CASE RefreshLambda
  <2>1. IsRowBag(lambda')
    BY <1>0, <1>3, RowBagFilter DEF RefreshLambda
  <2>2. TypeOK'
    BY <1>3, <2>1 DEF PipelineInv, TypeOK, RefreshLambda, Done, silver, IsRowBag
  <2> QED BY <1>3, <2>2, LeavesRows DEF PipelineInv, RefreshLambda, silver
<1> QED BY <1>1, <1>2, <1>3

(* Every step keeps the invariant.                                         *)
LEMMA NextPipeline == PipelineInv /\ [Next]_vars => PipelineInv'
<1> SUFFICES ASSUME PipelineInv, [Next]_vars PROVE PipelineInv'
  OBVIOUS
<1>1. CASE Next
  BY <1>1, EdgesKeep, IngestBlocksKeeps, ReindexKeeps, EnrichKeeps, GoldKeeps
     DEF Next, Progress
<1>2. CASE UNCHANGED vars
  BY <1>2 DEF vars, silver, gold, PipelineInv, TypeOK, IndexBacked,
              ValidIsCanonical, GoldBacked, Classify, Outside, Recent,
              ParentRefs, WindowOf, Present
<1> QED BY <1>1, <1>2

-----------------------------------------------------------------------------
(* The invariant holds in every run of the pipeline.                       *)
THEOREM PipelineSafety == Spec => []PipelineInv
BY InitPipeline, NextPipeline, PTL DEF Spec

(* Every table keeps its type: no join or filter makes a row of nothing.   *)
THEOREM PipelineTypes == Spec => []TypeOK
BY PipelineSafety, PTL DEF PipelineInv

(* A row that was joined as "valid" is of a block that is canonical in     *)
(* every later index, for any window and any forks.                        *)
THEOREM ValidForGood == Spec => []ValidIsCanonical
BY PipelineSafety, PTL DEF PipelineInv

(* The gas table never shows a transaction of an orphan block, although it *)
(* and the index may come from different updates.                          *)
THEOREM GoldIsCanonical == Spec => []GoldExcludesOrphans
<1>1. PipelineInv => GoldExcludesOrphans
  BY DEF PipelineInv, GoldBacked, ValidIsCanonical, GoldExcludesOrphans
<1> QED BY <1>1, PipelineSafety, PTL

(* The index never takes a block back from "canonical".                    *)
THEOREM CanonicalForGood == Spec => CanonicalIsFinal
<1>1. PipelineInv /\ [Next]_vars =>
        [\A b \in Blocks : index[b].status = "canonical"
           => index'[b].status = "canonical"]_vars
  <2>1. SUFFICES ASSUME PipelineInv, Next, NEW b \in Blocks,
                        index[b].status = "canonical"
                 PROVE  index'[b].status = "canonical"
    OBVIOUS
  <2>2. CASE Reindex
    BY <2>1, <2>2, ReindexKeeps
  <2>3. CASE ~Reindex
    BY <2>1, <2>3
       DEF Next, Progress, Update, IngestBlocks, IngestTransactions,
           IngestDecoded, Enrich, RefreshGas, RefreshRanking, RefreshLambda,
           Fail, silver, gold
  <2> QED BY <2>2, <2>3
<1> QED BY <1>1, PipelineSafety, PTL DEF Spec, CanonicalIsFinal
-----------------------------------------------------------------------------
(* A transaction the join has read has a row.                              *)
NothingDropped ==
    \A x \in TxRows : consumed[x] > 0 =>
        \E r \in DOMAIN enriched : SourceOf(r) = x

(* One step drops nothing: a pending row finds a header or the empty one.  *)
LEMMA DropsNothing == PipelineInv /\ NothingDropped /\ [Next]_vars => NothingDropped'
<1> SUFFICES ASSUME PipelineInv, NothingDropped, [Next]_vars
             PROVE  NothingDropped'
  OBVIOUS
<1>1. CASE Enrich
  <2>1. SUFFICES ASSUME NEW x \in TxRows, staging[x] > 0
                 PROVE  \E r \in DOMAIN enriched' : SourceOf(r) = x
    BY <1>1 DEF NothingDropped, Enrich
  <2>2. DOMAIN enriched' = DOMAIN enriched \cup NewRows
    BY <1>1 DEF Enrich, (+)
  <2>3. CASE staging[x] > consumed[x]
    <3>1. x \in Pending /\ Headers(x.block) # {}
      BY <2>1, <2>3 DEF Pending, Headers
    <3>2. PICK h \in Headers(x.block) : TRUE
      BY <3>1
    <3>3. Joined(x, h) \in NewRows
      BY <3>1, <3>2 DEF NewRows
    <3>4. SourceOf(Joined(x, h)) = x
      BY <2>1, TransactionsAssumption DEF SourceOf, Joined
    <3> QED BY <2>2, <3>3, <3>4
  <2>4. CASE ~(staging[x] > consumed[x])
    <3>1. consumed[x] > 0
      BY <2>1, <2>4, BoundsAssumption DEF PipelineInv, TypeOK
    <3> QED BY <2>1, <2>2, <3>1 DEF NothingDropped
  <2> QED BY <2>3, <2>4
<1>2. CASE ~Enrich
  <2>1. UNCHANGED <<consumed, enriched>>
    BY <1>2
       DEF Next, Progress, Update, IngestBlocks, IngestTransactions,
           IngestDecoded, Reindex, RefreshGas, RefreshRanking, RefreshLambda,
           Fail, vars, silver, gold
  <2> QED BY <2>1 DEF NothingDropped
<1> QED BY <1>1, <1>2

(* However late its block, its header or its decoded input: no transaction *)
(* that the stream has read is missing from transactions_ethereum.         *)
THEOREM NothingLost == Spec => []NothingDropped
<1>1. Init => NothingDropped
  BY DEF Init, NothingDropped
<1> QED BY <1>1, DropsNothing, PipelineSafety, PTL DEF Spec

-----------------------------------------------------------------------------
(* The index and the chain of the head.                                    *)

(* Until a flow has failed, the index is that of the table, except between *)
(* the two flows of an update that write them; and that of the blocks is   *)
(* the first of the two.                                                   *)
IndexFresh ==
    /\ "eth_blocks" \in todo => "index" \in todo
    /\ (failures = 0 /\ "index" \notin todo) =>
         \A b \in Blocks : index[b].status = Classify(ethBlocks, b)

(* The only flow that the index is computed from is that of the blocks.    *)
LEMMA OnlyBlocksFeedIndex ==
    ASSUME NEW f \in Flows, "index" \in Downstream(f)
    PROVE  f = "eth_blocks"
<1>1. Reads("index") = {"eth_blocks"} /\ Reads("eth_blocks") = {}
  BY DEF Reads
<1>2. \A X : "eth_blocks" \notin {g \in Flows : Reads(g) \cap X # {}}
  BY <1>1
<1> QED BY <1>1, <1>2 DEF Downstream

LEMMA FreshStep == PipelineInv /\ IndexFresh /\ [Next]_vars => IndexFresh'
<1> SUFFICES ASSUME PipelineInv, IndexFresh, [Next]_vars PROVE IndexFresh'
  OBVIOUS
<1>1. ASSUME ethBlocks' = ethBlocks
      PROVE  \A b : Classify(ethBlocks, b)' = Classify(ethBlocks, b)
  BY <1>1 DEF Classify, Outside, Recent, ParentRefs, WindowOf, Present
<1>2. CASE Update
  BY <1>2 DEF Update, IndexFresh, Flows
<1>3. CASE IngestBlocks
  BY <1>3 DEF IngestBlocks, Ready, Done, IndexFresh
<1>4. CASE Reindex
  <2>1. "eth_blocks" \notin todo /\ todo' = todo \ {"index"} /\ ethBlocks' = ethBlocks
    BY <1>4 DEF Reindex, Ready, Reads, Done, silver
  <2>2. \A b \in Blocks : index'[b].status = Classify(ethBlocks, b)
    <3> TAKE b \in Blocks
    <3> DEFINE s == Classify(ethBlocks, b)
               n == IndexRows(ethBlocks, b)
    <3>1. index'[b] = [status |-> s, rows |-> n]
      BY <1>4 DEF Reindex
    <3> HIDE DEF s, n
    <3> QED BY <3>1 DEF s
  <2> QED BY <1>1, <2>1, <2>2 DEF IndexFresh
<1>5. CASE IngestTransactions \/ IngestDecoded \/ Enrich \/ RefreshGas
           \/ RefreshRanking \/ RefreshLambda
  <2>1. /\ UNCHANGED <<ethBlocks, index, failures>>
        /\ \E f \in Flows \ {"index"} : todo' = todo \ {f}
    BY <1>5 DEF IngestTransactions, IngestDecoded, Enrich, RefreshGas,
                RefreshRanking, RefreshLambda, Done, Flows, silver
  <2> QED BY <1>1, <2>1 DEF IndexFresh
<1>6. ASSUME NEW f \in Flows, Fail(f) PROVE IndexFresh'
  <2>1. /\ f \in todo /\ todo \cap Reads(f) = {}
        /\ failures' = failures + 1 /\ failures \in Nat
        /\ todo' = todo \ ({f} \cup Downstream(f))
    BY <1>6, BoundsAssumption DEF Fail, Ready, PipelineInv, TypeOK
  <2>2. ASSUME "eth_blocks" \in todo' PROVE "index" \in todo'
    <3>1. "index" \in todo /\ f # "eth_blocks" /\ "eth_blocks" \in todo
      BY <2>1, <2>2 DEF IndexFresh
    <3>2. f # "index"
      BY <2>1, <3>1 DEF Reads
    <3> QED BY <2>1, <3>1, <3>2, OnlyBlocksFeedIndex
  <2> QED BY <2>1, <2>2 DEF IndexFresh
<1>7. CASE UNCHANGED vars
  BY <1>1, <1>7 DEF vars, silver, IndexFresh
<1> QED BY <1>2, <1>3, <1>4, <1>5, <1>6, <1>7 DEF Next, Progress

(* The chain of the head is itself one of the sets it is cut out of.       *)
LEMMA ChainClosed ==
    ASSUME NEW S
    PROVE  DescendsIn(S, HeadChain(S))
<1>1. Newest(S) \subseteq HeadChain(S)
  BY DEF Newest, HeadChain, DescendsIn
<1>2. ASSUME NEW c \in HeadChain(S), Parent[c] \in Present(S)
      PROVE  Parent[c] \in HeadChain(S)
  BY <1>2 DEF HeadChain, DescendsIn
<1> QED BY <1>1, <1>2 DEF DescendsIn

(* An orphan is not on the chain of the head: it is below a newest block,  *)
(* and a block on the chain that refers to it would be in its window.      *)
LEMMA OrphanOffChain ==
    ASSUME NEW S \in Counts, NEW b \in Blocks, Classify(S, b) = "orphan"
    PROVE  b \notin HeadChain(S)
<1> DEFINE A == HeadChain(S) \ {b}
<1>1. ~Outside(S, b) /\ ~Recent(S, b) /\ b \notin ParentRefs(S)
  BY DEF Classify
<1>2. b \notin Newest(S)
  <2>1. PICK m \in Present(S) : ~(Number[b] > Number[m] - Confirmations)
    BY <1>1 DEF Recent
  <2>2. m \in Blocks /\ Number[m] \in Nat /\ Number[b] \in Nat
    BY ChainAssumption DEF Present
  <2>3. ~(Number[m] <= Number[b])
    BY <2>1, <2>2, WindowAssumption
  <2> QED BY <2>3 DEF Newest
<1>3. ASSUME NEW c \in Present(S), Parent[c] = b PROVE FALSE
  <2>1. c \in Blocks /\ Number[c] = Number[b] + 1 /\ Number[b] \in Nat
    BY <1>3, ChainAssumption DEF Present
  <2>2. ~Outside(S, c)
    <3> SUFFICES ASSUME NEW m \in Present(S), Number[c] <= Number[m] - WindowBlocks
                 PROVE  FALSE
      BY DEF Outside
    <3>1. Number[m] \in Nat
      BY ChainAssumption DEF Present
    <3>2. Number[b] <= Number[m] - WindowBlocks
      BY <2>1, <3>1, WindowAssumption
    <3> QED BY <1>1, <3>2 DEF Outside
  <2> QED BY <1>1, <1>3, <2>2 DEF ParentRefs, WindowOf
<1>4. DescendsIn(S, A)
  <2>1. Newest(S) \subseteq A
    BY <1>2, ChainClosed DEF DescendsIn
  <2>2. ASSUME NEW c \in A, Parent[c] \in Present(S) PROVE Parent[c] \in A
    <3>1. c \in Present(S) /\ Parent[c] \in HeadChain(S)
      BY <2>2, ChainClosed DEF DescendsIn, HeadChain
    <3> QED BY <1>3, <3>1
  <2> QED BY <2>1, <2>2 DEF DescendsIn
<1>5. A \in SUBSET Present(S)
  BY DEF HeadChain
<1> QED BY <1>4, <1>5 DEF HeadChain

(* For any block tree, window and order of arrival: no block the head      *)
(* descends from is taken for an orphan, and a canonical block off that    *)
(* chain is old or has a child.                                            *)
THEOREM IndexOfHead == Spec => []IndexFollowsHead
<1>1. Init => IndexFresh
  BY DEF Init, IndexFresh, Classify
<1>2. PipelineInv /\ IndexFresh => IndexFollowsHead
  <2> SUFFICES ASSUME PipelineInv, NEW b \in Blocks,
                      index[b].status = Classify(ethBlocks, b)
               PROVE  /\ index[b].status = "orphan" => b \notin HeadChain(ethBlocks)
                      /\ index[b].status = "canonical" =>
                           \/ Outside(ethBlocks, b)
                           \/ \E c \in Present(ethBlocks) : Parent[c] = b
    BY DEF IndexFresh, IndexFollowsHead
  <2>1. ethBlocks \in Counts
    BY BoundsAssumption DEF PipelineInv, TypeOK, Counts
  <2>2. index[b].status = "canonical" =>
          Outside(ethBlocks, b) \/ b \in ParentRefs(ethBlocks)
    BY DEF Classify
  <2> QED BY <2>1, <2>2, OrphanOffChain DEF ParentRefs, WindowOf
<1> QED BY <1>1, <1>2, FreshStep, PipelineSafety, PTL DEF Spec

-----------------------------------------------------------------------------
(* How often the join has a transaction.                                   *)

(* The rows that stem from x are finitely many, and so are their copies.   *)
LEMMA CopiesFinite ==
    ASSUME NEW B, IsRowBag(B), NEW x
    PROVE  IsFiniteSet(Copies(B, x))
<1> DEFINE R == {r \in DOMAIN B : SourceOf(r) = x}
           H == Blocks \cup {NoBlock}
           D == BOOLEAN
           E == {"valid", "orphaned", "unconfirmed"}
           f == [r \in R |-> <<r.header, <<r.decoded, r.status>>>>]
           T == {{r} \X (1..B[r]) : r \in R}
           g == [r \in R |-> {r} \X (1..B[r])]
<1>1. IsFiniteSet(H)
  BY ChainAssumption, FS_AddElement
<1>2. IsFiniteSet(D) /\ IsFiniteSet(E)
  <2>1. IsFiniteSet({}) /\ IsFiniteSet({TRUE}) /\ IsFiniteSet({"valid"})
    BY FS_EmptySet, FS_Singleton
  <2>2. IsFiniteSet({TRUE} \cup {FALSE})
    BY <2>1, FS_AddElement
  <2>3. IsFiniteSet({"valid"} \cup {"orphaned"})
    BY <2>1, FS_AddElement
  <2>4. IsFiniteSet(({"valid"} \cup {"orphaned"}) \cup {"unconfirmed"})
    BY <2>3, FS_AddElement
  <2>5. D = {TRUE} \cup {FALSE} /\ E = ({"valid"} \cup {"orphaned"}) \cup {"unconfirmed"}
    OBVIOUS
  <2> QED BY <2>2, <2>4, <2>5
<1>3. IsFiniteSet(D \X E)
  BY <1>2, FS_Product
<1>4. IsFiniteSet(H \X (D \X E))
  BY <1>1, <1>3, FS_Product
<1>5. R \subseteq Rows /\ \A r \in R : r.tx = x.tx /\ r.block = x.block
  BY DEF IsRowBag, SourceOf
<1>6. f \in Injection(R, H \X (D \X E))
  <2>1. f \in [R -> H \X (D \X E)]
    BY <1>5 DEF Rows
  <2>2. ASSUME NEW r \in R, NEW s \in R, f[r] = f[s] PROVE r = s
    <3>1. r.header = s.header /\ r.decoded = s.decoded /\ r.status = s.status
      BY <2>2
    <3>2. r.tx = s.tx /\ r.block = s.block /\ r \in Rows /\ s \in Rows
      BY <1>5
    <3> QED BY <3>1, <3>2 DEF Rows
  <2> HIDE DEF f, R
  <2> QED BY <2>1, <2>2 DEF Injection, IsInjective
<1>7. IsFiniteSet(R)
  BY <1>4, <1>6, FS_Injection
<1>8. g \in Surjection(R, T)
  BY DEF Surjection
<1>9. IsFiniteSet(T)
  BY <1>7, <1>8, FS_Surjection
<1>10. ASSUME NEW t \in T PROVE IsFiniteSet(t)
  <2>1. PICK r \in R : t = {r} \X (1..B[r])
    OBVIOUS
  <2>2. IsFiniteSet({r}) /\ IsFiniteSet(1..B[r])
    <3>1. IsFiniteSet({r})
      BY FS_Singleton
    <3>2. B[r] \in Int /\ 1 \in Int
      BY DEF IsRowBag
    <3>3. IsFiniteSet(1..B[r])
      BY <3>2, FS_Interval
    <3> QED BY <3>1, <3>3
  <2> QED BY <2>1, <2>2, FS_Product
<1>11. Copies(B, x) = UNION T
  BY DEF Copies
<1> HIDE DEF T
<1> QED BY <1>9, <1>10, <1>11, FS_UNION

(* The copies that row r gains.                                            *)
Gained(r, m, n) == {r} \X ((m + 1)..(m + n))

LEMMA GainedCount ==
    ASSUME NEW r, NEW m \in Nat, NEW n \in Nat
    PROVE  IsFiniteSet(Gained(r, m, n)) /\ Cardinality(Gained(r, m, n)) = n
<1>1. IsFiniteSet((m + 1)..(m + n)) /\ Cardinality((m + 1)..(m + n)) = n
  BY FS_Interval
<1>2. IsFiniteSet({r}) /\ Cardinality({r}) = 1
  BY FS_Singleton
<1> QED BY <1>1, <1>2, FS_Product DEF Gained

(* The multiplicity of r in bag B.                                         *)
Held(B, r) == IF r \in DOMAIN B THEN B[r] ELSE 0

(* A pair is a copy when its row stems from x and its number is within the *)
(* multiplicity of the row.                                                *)
LEMMA CopyOf ==
    ASSUME NEW B, IsRowBag(B), NEW x, NEW r, NEW k
    PROVE  <<r, k>> \in Copies(B, x) <=> SourceOf(r) = x /\ k \in 1..Held(B, r)
<1>1. \A s \in DOMAIN B : B[s] \in Nat \ {0}
  BY DEF IsRowBag
<1> QED BY <1>1 DEF Copies, Held

(* The multiplicities of a union are the sums.                             *)
LEMMA HeldUnion ==
    ASSUME NEW B, IsRowBag(B), NEW C, IsRowBag(C), NEW r
    PROVE  /\ Held(B, r) \in Nat /\ Held(C, r) \in Nat
           /\ Held(B (+) C, r) = Held(B, r) + Held(C, r)
<1>1. \A s \in DOMAIN B : B[s] \in Nat \ {0}
  BY DEF IsRowBag
<1>2. \A s \in DOMAIN C : C[s] \in Nat \ {0}
  BY DEF IsRowBag
<1> QED BY <1>1, <1>2 DEF Held, (+)

(* What a union adds to the copies of x: at least those of any one row     *)
(* that is added, and no more if no other row of x is.                     *)
LEMMA UnionCounts ==
    ASSUME NEW B, IsRowBag(B), NEW C, IsRowBag(C), NEW x,
           NEW r0 \in DOMAIN C, SourceOf(r0) = x
    PROVE  /\ CopiesOf(B (+) C, x) >= CopiesOf(B, x) + C[r0]
           /\ (\A r \in DOMAIN C : SourceOf(r) = x => r = r0)
                => CopiesOf(B (+) C, x) = CopiesOf(B, x) + C[r0]
<1> DEFINE m == Held(B, r0)
           n == C[r0]
           before == Copies(B, x)
           gained == Gained(r0, m, n)
           after == Copies(B (+) C, x)
<1>1. m \in Nat /\ n \in Nat /\ Held(C, r0) = n
  BY HeldUnion DEF IsRowBag, Held
<1>2. IsRowBag(B (+) C)
  BY RowBagUnion
<1>3. IsFiniteSet(before) /\ IsFiniteSet(after)
  BY <1>2, CopiesFinite
<1>4. IsFiniteSet(gained) /\ Cardinality(gained) = n
  BY <1>1, GainedCount
<1>5. before \cap gained = {}
  <2> SUFFICES ASSUME NEW c \in before, c \in gained PROVE FALSE
    OBVIOUS
  <2>1. PICK k \in (m + 1)..(m + n) : c = <<r0, k>>
    BY DEF Gained
  <2>2. k \in 1..m
    BY <2>1, CopyOf
  <2> QED BY <1>1, <2>1, <2>2
<1>6. before \cup gained \subseteq after
  <2>1. ASSUME NEW c \in before PROVE c \in after
    <3>1. PICK r, k : c = <<r, k>>
      BY DEF Copies
    <3>2. SourceOf(r) = x /\ k \in 1..Held(B, r)
      BY <2>1, <3>1, CopyOf
    <3>3. k \in 1..Held(B (+) C, r)
      BY <3>2, HeldUnion
    <3> QED BY <1>2, <3>1, <3>2, <3>3, CopyOf
  <2>2. ASSUME NEW c \in gained PROVE c \in after
    <3>1. PICK k \in (m + 1)..(m + n) : c = <<r0, k>>
      BY <2>2 DEF Gained
    <3>2. Held(B (+) C, r0) = m + n
      BY <1>1, HeldUnion
    <3>3. k \in 1..(m + n)
      BY <1>1
    <3> QED BY <1>2, <3>1, <3>2, <3>3, CopyOf
  <2> QED BY <2>1, <2>2
<1>7. ASSUME \A r \in DOMAIN C : SourceOf(r) = x => r = r0
      PROVE  after = before \cup gained
  <2> SUFFICES ASSUME NEW c \in after PROVE c \in before \cup gained
    BY <1>6
  <2>1. PICK r, k : c = <<r, k>>
    BY DEF Copies
  <2>2. SourceOf(r) = x /\ k \in 1..Held(B (+) C, r)
    BY <1>2, <2>1, CopyOf
  <2>3. k \in 1..(Held(B, r) + Held(C, r))
    BY <2>2, HeldUnion
  <2>4. CASE r = r0
    <3>1. k \in 1..m \/ k \in (m + 1)..(m + n)
      BY <1>1, <2>3, <2>4
    <3> QED BY <2>1, <2>2, <2>4, <3>1, CopyOf DEF Gained
  <2>5. CASE r # r0
    <3>1. Held(C, r) = 0 /\ Held(B, r) \in Nat
      BY <1>7, <2>2, <2>5, HeldUnion DEF Held
    <3>2. k \in 1..Held(B, r)
      BY <2>3, <3>1
    <3> QED BY <2>1, <2>2, <3>2, CopyOf
  <2> QED BY <2>4, <2>5
<1>8. Cardinality(before \cup gained) = Cardinality(before) + n
  <2>1. Cardinality({}) = 0 /\ Cardinality(before) \in Nat
    BY <1>3, FS_EmptySet, FS_CardinalityType
  <2>2. Cardinality(before \cup gained)
          = Cardinality(before) + Cardinality(gained) - Cardinality(before \cap gained)
    BY <1>3, <1>4, FS_Union
  <2>3. Cardinality(before \cap gained) = 0
    BY <1>5, <2>1
  <2> HIDE DEF before, gained, n
  <2> QED BY <1>1, <1>4, <2>1, <2>2, <2>3
<1>9. Cardinality(before \cup gained) <= Cardinality(after)
  BY <1>3, <1>6, FS_Subset
<1>10. Cardinality(before) \in Nat /\ Cardinality(after) \in Nat
  BY <1>3, FS_CardinalityType
<1> HIDE DEF before, gained, after, n
<1>11. Cardinality(after) >= Cardinality(before) + n
  BY <1>1, <1>8, <1>9, <1>10
<1>12. (\A r \in DOMAIN C : SourceOf(r) = x => r = r0)
         => Cardinality(after) = Cardinality(before) + n
  BY <1>7, <1>8
<1> QED BY <1>11, <1>12 DEF CopiesOf, before, after, n

(* A union that adds no row of x leaves its copies alone.                  *)
LEMMA UnionKeeps ==
    ASSUME NEW B, IsRowBag(B), NEW C, IsRowBag(C), NEW x,
           \A r \in DOMAIN C : SourceOf(r) # x
    PROVE  CopiesOf(B (+) C, x) = CopiesOf(B, x)
<1>1. \A r : SourceOf(r) = x => Held(B (+) C, r) = Held(B, r)
  <2> TAKE r
  <2> HAVE SourceOf(r) = x
  <2>1. Held(C, r) = 0
    BY DEF Held
  <2> QED BY <2>1, HeldUnion
<1>2. IsRowBag(B (+) C)
  BY RowBagUnion
<1>3. \A r, k : <<r, k>> \in Copies(B (+) C, x) <=> <<r, k>> \in Copies(B, x)
  BY <1>1, <1>2, CopyOf
<1>4. \A c \in Copies(B, x) \cup Copies(B (+) C, x) : \E r, k : c = <<r, k>>
  BY DEF Copies
<1>5. Copies(B (+) C, x) = Copies(B, x)
  BY <1>3, <1>4
<1> QED BY <1>5 DEF CopiesOf

-----------------------------------------------------------------------------
(* A block has several index rows only if it has several rows itself.      *)
SeveralRows == \A b \in Blocks : index[b].rows > 1 => ethBlocks[b] > 1

(* The join has read no more than was staged.                              *)
ReadOnce == \A x \in TxRows : consumed[x] <= staging[x]

CountInv == ReadOnce /\ SeveralRows /\ JoinKeepsCount

(* Tables that only grow leave what has several rows with several.         *)
LEMMA SeverallyStays ==
    ASSUME TypeOK, TypeOK', Appended(ethBlocks, ethBlocks'),
           Appended(decoded, decoded'),
           NEW x \in TxRows, JoinedSeverally(x)
    PROVE  JoinedSeverally(x)'
<1>1. \A b \in Blocks : /\ ethBlocks[b] \in Nat /\ ethBlocks'[b] \in Nat
                        /\ ethBlocks[b] <= ethBlocks'[b]
  BY BoundsAssumption DEF TypeOK, Appended
<1>2. /\ decoded[x.tx] \in Nat /\ decoded'[x.tx] \in Nat
      /\ decoded[x.tx] <= decoded'[x.tx]
  BY BoundsAssumption, TransactionsAssumption DEF TypeOK, Appended
<1>3. Present(ethBlocks) \subseteq Present(ethBlocks')
  BY <1>1 DEF Present
<1>4. Present(ethBlocks) \subseteq Blocks
  BY DEF Present
<1> QED BY <1>1, <1>2, <1>3, <1>4 DEF JoinedSeverally

(* A product is no less than a factor if the other is positive.            *)
LEMMA ProductAtLeast ==
    ASSUME NEW m \in Nat, NEW n \in Nat \ {0}
    PROVE  m * n \in Nat /\ m * n >= m
<1>1. PICK k \in Nat : n = k + 1
  <2>1. n - 1 \in Nat /\ n = (n - 1) + 1
    OBVIOUS
  <2> QED BY <2>1
<1>2. m * n = m * k + m /\ m * k \in Nat
  BY <1>1
<1> QED BY <1>2

(* The rows that the join makes of x, row by row.                          *)
LEMMA JoinedFrom ==
    ASSUME PipelineInv, NEW r \in NewRows
    PROVE  /\ SourceOf(r) \in Pending
           /\ r.header \in Headers(r.block)
           /\ r = Joined(SourceOf(r), r.header)
<1>1. PICK x \in Pending : r \in {Joined(x, h) : h \in Headers(x.block)}
  BY DEF NewRows
<1>2. PICK h \in Headers(x.block) : r = Joined(x, h)
  BY <1>1
<1>3. x = [tx |-> x.tx, block |-> x.block]
  BY <1>1, TransactionsAssumption DEF Pending
<1>4. r.tx = x.tx /\ r.block = x.block /\ r.header = h
  BY <1>2 DEF Joined
<1>5. SourceOf(r) = x
  BY <1>3, <1>4 DEF SourceOf
<1> QED BY <1>1, <1>2, <1>4, <1>5

(* What a pending transaction is joined with: at least as many copies as   *)
(* are pending, and exactly those if every table has one row at most.      *)
LEMMA JoinCopies ==
    ASSUME PipelineInv, SeveralRows, NEW x \in Pending, NEW h \in Headers(x.block)
    PROVE  LET r == Joined(x, h)
               n == staging[x] - consumed[x]
           IN /\ r \in NewRows /\ SourceOf(r) = x
              /\ NewCopies(r) \in Nat /\ NewCopies(r) >= n
              /\ ~JoinedSeverally(x) =>
                   /\ NewCopies(r) = n
                   /\ \A s \in NewRows : SourceOf(s) = x => s = r
<1> DEFINE r == Joined(x, h)
           n == staging[x] - consumed[x]
           k == IF h = NoBlock THEN 1 ELSE ethBlocks[h]
           d == AtLeastOne(decoded[x.tx])
           i == AtLeastOne(index[x.block].rows)
<1>1. /\ x \in TxRows /\ x.tx \in Txs /\ x.block \in Blocks
      /\ x = [tx |-> x.tx, block |-> x.block]
  BY TransactionsAssumption DEF Pending
<1>2. r.tx = x.tx /\ r.block = x.block /\ r.header = h /\ SourceOf(r) = x
  BY <1>1 DEF Joined, SourceOf
<1>3. r \in NewRows
  BY DEF NewRows
<1>4. n \in Nat
  BY <1>1, BoundsAssumption DEF Pending, PipelineInv, TypeOK
<1>5. k \in Nat \ {0}
  BY BoundsAssumption DEF Headers, Present, PipelineInv, TypeOK
<1>6. d \in Nat \ {0}
  BY <1>1, BoundsAssumption DEF AtLeastOne, PipelineInv, TypeOK
<1>7. i \in Nat \ {0}
  BY <1>1, BoundsAssumption DEF AtLeastOne, PipelineInv, TypeOK
<1>8. NewCopies(r) = n * k * d * i
  BY <1>2 DEF NewCopies
<1>9. NewCopies(r) \in Nat /\ NewCopies(r) >= n
  <2> HIDE DEF r, n, k, d, i
  <2>1. n * k \in Nat /\ n * k >= n
    BY <1>4, <1>5, ProductAtLeast
  <2>2. n * k * d \in Nat /\ n * k * d >= n * k
    BY <1>6, <2>1, ProductAtLeast
  <2>3. n * k * d * i \in Nat /\ n * k * d * i >= n * k * d
    BY <1>7, <2>2, ProductAtLeast
  <2>4. n * k * d * i >= n
    BY <1>4, <2>1, <2>2, <2>3
  <2> QED BY <1>8, <2>3, <2>4
<1>10. ASSUME ~JoinedSeverally(x)
       PROVE  NewCopies(r) = n /\ \A s \in NewRows : SourceOf(s) = x => s = r
  <2>1. d = 1
    BY <1>1, <1>10, BoundsAssumption
       DEF JoinedSeverally, AtLeastOne, PipelineInv, TypeOK
  <2>2. k = 1
    BY <1>10, BoundsAssumption
       DEF JoinedSeverally, Headers, Present, PipelineInv, TypeOK
  <2>3. i = 1
    <3>1. ~(ethBlocks[x.block] > 1)
      BY <1>1, <1>10, BoundsAssumption
         DEF JoinedSeverally, Present, PipelineInv, TypeOK
    <3>2. ~(index[x.block].rows > 1) /\ index[x.block].rows \in Nat
      BY <1>1, <3>1, BoundsAssumption DEF SeveralRows, PipelineInv, TypeOK
    <3> QED BY <3>2 DEF AtLeastOne
  <2>4. NewCopies(r) = n
    <3> HIDE DEF r, n, k, d, i
    <3> QED BY <1>4, <1>8, <2>1, <2>2, <2>3
  <2>5. ASSUME NEW s \in NewRows, SourceOf(s) = x PROVE s = r
    <3>1. s.header \in Headers(s.block) /\ s = Joined(x, s.header)
      BY <2>5, JoinedFrom
    <3>2. s.block = x.block
      BY <3>1 DEF Joined
    <3>3. s.header = h
      BY <1>10, <3>1, <3>2 DEF Headers, JoinedSeverally
    <3> QED BY <3>1, <3>3
  <2> QED BY <2>4, <2>5
<1> QED BY <1>2, <1>3, <1>9, <1>10

(* The join appends what is pending, and more only for a reason.           *)
LEMMA EnrichCounts ==
    ASSUME PipelineInv, CountInv, Enrich
    PROVE  CountInv'
<1> DEFINE new == [r \in NewRows |-> NewCopies(r)]
<1>1. IsRowBag(new) /\ DOMAIN new = NewRows /\ IsRowBag(enriched)
  BY JoinedRows DEF IsRowBag, PipelineInv, TypeOK
<1>2. /\ enriched' = enriched (+) new /\ consumed' = staging
      /\ UNCHANGED <<ethBlocks, staging, decoded, index>>
  BY DEF Enrich, silver
<1>3. ReadOnce'
  BY <1>2, BoundsAssumption DEF ReadOnce, PipelineInv, TypeOK
<1>4. SeveralRows'
  BY <1>2 DEF CountInv, SeveralRows
<1>5. JoinKeepsCount'
  <2> SUFFICES ASSUME NEW x \in TxRows
               PROVE  /\ CopiesOf(enriched', x) >= staging[x]
                      /\ CopiesOf(enriched', x) > staging[x] => JoinedSeverally(x)
    <3>1. \A x \in TxRows : JoinedSeverally(x)' = JoinedSeverally(x)
      BY <1>2 DEF JoinedSeverally, Present
    <3>2. \A x \in TxRows : CopiesOf(enriched, x)' = CopiesOf(enriched', x)
      BY DEF CopiesOf, Copies, SourceOf
    <3> QED BY <1>2, <3>1, <3>2 DEF JoinKeepsCount
  <2>1. /\ consumed[x] \in Nat /\ staging[x] \in Nat /\ consumed[x] <= staging[x]
        /\ CopiesOf(enriched, x) >= consumed[x]
        /\ CopiesOf(enriched, x) > consumed[x] => JoinedSeverally(x)
    BY BoundsAssumption
       DEF CountInv, ReadOnce, JoinKeepsCount, PipelineInv, TypeOK
  <2>2. CopiesOf(enriched, x) \in Nat
    BY <1>1, CopiesFinite, FS_CardinalityType DEF CopiesOf
  <2>3. CASE x \in Pending
    <3> DEFINE n == staging[x] - consumed[x]
    <3>1. PICK h \in Headers(x.block) : TRUE
      BY DEF Headers
    <3> DEFINE r == Joined(x, h)
    <3>2. /\ r \in NewRows /\ SourceOf(r) = x
          /\ new[r] \in Nat /\ new[r] >= n
          /\ ~JoinedSeverally(x) =>
               new[r] = n /\ \A s \in NewRows : SourceOf(s) = x => s = r
      BY <2>3, JoinCopies DEF CountInv
    <3> HIDE DEF new, r
    <3>3. /\ CopiesOf(enriched', x) >= CopiesOf(enriched, x) + new[r]
          /\ ~JoinedSeverally(x) =>
               CopiesOf(enriched', x) = CopiesOf(enriched, x) + new[r]
      BY <1>1, <1>2, <3>2, UnionCounts
    <3>4. CopiesOf(enriched', x) \in Nat
      BY <1>1, <1>2, RowBagUnion, CopiesFinite, FS_CardinalityType DEF CopiesOf
    <3> QED BY <2>1, <2>2, <3>2, <3>3, <3>4
  <2>4. CASE x \notin Pending
    <3>1. staging[x] = consumed[x]
      BY <2>1, <2>4 DEF Pending
    <3>2. \A r \in NewRows : SourceOf(r) # x
      BY <2>4, JoinedFrom
    <3> HIDE DEF new
    <3>3. CopiesOf(enriched', x) = CopiesOf(enriched, x)
      BY <1>1, <1>2, <3>2, UnionKeeps
    <3> QED BY <2>1, <3>1, <3>3
  <2> QED BY <2>3, <2>4
<1> QED BY <1>3, <1>4, <1>5 DEF CountInv

(* The other steps leave the joined rows alone and let the tables grow.    *)
LEMMA CountStep == PipelineInv /\ CountInv /\ [Next]_vars => CountInv'
<1> SUFFICES ASSUME PipelineInv, CountInv, [Next]_vars PROVE CountInv'
  OBVIOUS
<1>1. TypeOK /\ TypeOK'
  BY NextPipeline DEF PipelineInv
<1>2. ASSUME ~Enrich
      PROVE  /\ UNCHANGED <<consumed, enriched>>
             /\ Appended(ethBlocks, ethBlocks')
             /\ Appended(decoded, decoded')
             /\ Appended(staging, staging')
             /\ index' = index \/ Reindex
  BY <1>1, <1>2, BoundsAssumption
     DEF Next, Progress, Update, IngestBlocks, IngestTransactions,
         IngestDecoded, Reindex, RefreshGas, RefreshRanking, RefreshLambda,
         Fail, vars, silver, gold, TypeOK, Appended
<1>3. CASE ~Enrich
  <2>1. ReadOnce'
    <3>1. \A x \in TxRows : consumed[x] <= staging[x] /\ staging[x] <= staging'[x]
      BY <1>1, <1>2, <1>3 DEF CountInv, ReadOnce, TypeOK, Appended
    <3>2. \A x \in TxRows : /\ consumed[x] \in Nat /\ staging[x] \in Nat
                            /\ staging'[x] \in Nat
      BY <1>1, BoundsAssumption DEF TypeOK
    <3> QED BY <1>2, <1>3, <3>1, <3>2 DEF ReadOnce
  <2>2. SeveralRows'
    <3>1. \A b \in Blocks : /\ ethBlocks[b] \in Nat /\ ethBlocks'[b] \in Nat
                            /\ ethBlocks[b] <= ethBlocks'[b]
      BY <1>1, <1>2, <1>3, BoundsAssumption DEF TypeOK, Appended
    <3>2. CASE index' = index
      BY <3>1, <3>2 DEF CountInv, SeveralRows
    <3>3. CASE Reindex
      <4> SUFFICES ASSUME NEW b \in Blocks, index'[b].rows > 1
                   PROVE  ethBlocks'[b] > 1
        BY DEF SeveralRows
      <4> DEFINE s == Classify(ethBlocks, b)
                 n == IndexRows(ethBlocks, b)
      <4>1. index'[b] = [status |-> s, rows |-> n] /\ ethBlocks' = ethBlocks
        BY <3>3 DEF Reindex, silver
      <4>2. ~(n > 1) \/ n = ethBlocks[b]
        BY DEF IndexRows
      <4> HIDE DEF s, n
      <4>3. index'[b].rows = n
        BY <4>1
      <4> QED BY <4>1, <4>2, <4>3
    <3> QED BY <1>2, <1>3, <3>2, <3>3
  <2>3. JoinKeepsCount'
    <3> SUFFICES ASSUME NEW x \in TxRows
                 PROVE  /\ CopiesOf(enriched, x)' >= consumed'[x]
                        /\ CopiesOf(enriched, x)' > consumed'[x]
                             => JoinedSeverally(x)'
      BY DEF JoinKeepsCount
    <3>1. CopiesOf(enriched, x)' = CopiesOf(enriched, x)
      BY <1>2, <1>3 DEF CopiesOf, Copies, SourceOf
    <3>2. JoinedSeverally(x) => JoinedSeverally(x)'
      BY <1>1, <1>2, <1>3, SeverallyStays
    <3> QED BY <1>2, <1>3, <3>1, <3>2 DEF CountInv, JoinKeepsCount
  <2> QED BY <2>1, <2>2, <2>3 DEF CountInv
<1> QED BY <1>3, EnrichCounts

(* Over any failures, forks and duplicates: a transaction that was staged  *)
(* and read is in transactions_ethereum that often, and more often only if *)
(* a header of its number or its decoded input has several rows.           *)
THEOREM JoinCounts == Spec => []JoinKeepsCount
<1>1. Init => CountInv
  <2> SUFFICES ASSUME Init PROVE CountInv
    OBVIOUS
  <2>1. ReadOnce /\ SeveralRows
    BY DEF Init, ReadOnce, SeveralRows
  <2>2. \A x : Copies(enriched, x) = {}
    BY DEF Init, Copies, EmptyBag, SetToBag
  <2>3. \A x : CopiesOf(enriched, x) = 0
    BY <2>2, FS_EmptySet DEF CopiesOf
  <2>4. JoinKeepsCount
    BY <2>3 DEF Init, JoinKeepsCount
  <2> QED BY <2>1, <2>4 DEF CountInv
<1>2. CountInv => JoinKeepsCount
  BY DEF CountInv
<1> QED BY <1>1, <1>2, CountStep, PipelineSafety, PTL DEF Spec
=============================================================================
