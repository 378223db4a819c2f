-------------------------- MODULE EthereumPipeline --------------------------
(***************************************************************************)
(* The DLT pipeline dm-ethereum (apps/dabs/dlt_ethereum): blocks,          *)
(* transactions and decoded inputs are appended to silver tables, blocks   *)
(* are classified by parent hash, transactions are joined with what is     *)
(* known at that moment, and gold tables are computed from the result.     *)
(*                                                                         *)
(* An update runs every flow once, each after the flows it reads; a flow   *)
(* that fails takes the flows that read from it out of the update, and the *)
(* next update starts again from the streams' checkpoints.  What capture   *)
(* delivers, in which order and how often, is arbitrary.                   *)
(***************************************************************************)
EXTENDS Integers, FiniteSets, Bags

CONSTANTS
    Blocks,        \* block hashes, of every fork
    NoBlock,       \* a parent outside Blocks, or a header that is missing
    Number,        \* [block -> block number]
    Parent,        \* [block -> parent hash, or NoBlock]
    Txs,           \* transaction hashes
    TxRows,        \* which transaction is in which block
    WellFormed,    \* the members of TxRows that the expectations keep
    To,            \* [transaction -> to_address, or NoAddress]
    NoAddress,     \* to_address of a contract creation
    WindowBlocks,  \* _CANONICAL_WINDOW_BLOCKS, 1000 in the code
    Confirmations, \* the blocks at the head that stay open, 64 in the code
    Single,        \* bound: blocks and transactions delivered once at most
    MaxCopies,     \* bound: deliveries of any other record
    MaxFailures    \* bound: flows that fail

ASSUME ChainAssumption ==
    /\ IsFiniteSet(Blocks)
    /\ NoBlock \notin Blocks
    /\ Number \in [Blocks -> Nat]
    /\ Parent \in [Blocks -> Blocks \cup {NoBlock}]
    /\ \A b \in Blocks : Parent[b] # NoBlock => Number[b] = Number[Parent[b]] + 1

ASSUME TransactionsAssumption ==
    /\ TxRows \subseteq [tx : Txs, block : Blocks]
    /\ WellFormed \subseteq TxRows
    /\ DOMAIN To = Txs

ASSUME WindowAssumption ==
    /\ WindowBlocks \in Nat
    /\ Confirmations \in Nat \ {0}

ASSUME BoundsAssumption == MaxCopies \in Nat /\ MaxFailures \in Nat

VARIABLES
    todo,       \* the flows of the current update that have not run
    failures,   \* flows that failed so far
    ethBlocks,  \* s_apps.eth_blocks: [block -> number of its rows]
    staging,    \* s_apps.eth_transactions_staging: [row -> copies]
    decoded,    \* s_apps.txs_inputs_decoded_fast: [transaction -> copies]
    index,      \* s_apps.eth_canonical_blocks_index: [block -> status, rows]
    consumed,   \* [row -> copies of staging the join has read]
    enriched,   \* s_apps.transactions_ethereum, a bag of Rows
    gas,        \* g_apps.ethereum_gas_consume, a bag of Rows
    ranking,    \* g_apps.popular_contracts_ranking, a set of addresses
    lambda      \* g_apps.transactions_lambda, a bag of Rows

silver == <<ethBlocks, staging, decoded>>
gold == <<gas, ranking, lambda>>
vars == <<todo, failures, silver, index, consumed, enriched, gold>>

ChainStatus == {"canonical", "orphan", "unconfirmed", "none"}

Rows == [tx : Txs, block : Blocks, header : Blocks \cup {NoBlock},
         decoded : BOOLEAN, status : {"valid", "orphaned", "unconfirmed"}]

-----------------------------------------------------------------------------
(* The canonical index, as a function of the eth_blocks table S.           *)

Present(S) == {b \in Blocks : S[b] > 0}

(* block_number <= max_num - 1000                                          *)
Outside(S, b) ==
    \E m \in Present(S) : Number[b] <= Number[m] - WindowBlocks

(* block_number > max_num - 64                                             *)
Recent(S, b) ==
    \A m \in Present(S) : Number[b] > Number[m] - Confirmations

WindowOf(S) == {b \in Present(S) : ~Outside(S, b)}

(* Mistake: only blocks that are settled themselves vouch for a parent.    *)
ParentRefsSettled(S) == {Parent[c] : c \in {b \in WindowOf(S) : ~Recent(S, b)}}

ParentRefs(S) == {Parent[c] : c \in WindowOf(S)}

(* Mistake: blocks that leave the window leave the index.                  *)
ClassifyWindow(S, b) ==
    IF S[b] = 0 \/ Outside(S, b) THEN "none"
    ELSE IF Recent(S, b) THEN "unconfirmed"
    ELSE IF b \in ParentRefs(S) THEN "canonical"
    ELSE "orphan"

(* Mistake: a block nobody refers to yet counts as canonical.              *)
ClassifyEager(S, b) ==
    IF S[b] = 0 THEN "none"
    ELSE IF Recent(S, b) /\ b \notin ParentRefs(S) THEN "canonical"
    ELSE IF Outside(S, b) \/ b \in ParentRefs(S) THEN "canonical"
    ELSE "orphan"

Classify(S, b) ==
    IF S[b] = 0 THEN "none"
    ELSE IF Outside(S, b) THEN "canonical"
    ELSE IF Recent(S, b) THEN "unconfirmed"
    ELSE IF b \in ParentRefs(S) THEN "canonical"
    ELSE "orphan"

(* Mistake: the two branches of the union overlap.                         *)
IndexRowsBoth(S, b) == IF S[b] = 0 THEN 0 ELSE IF Outside(S, b) THEN S[b] + 1 ELSE 1

(* Inside the window rows are DISTINCT, outside they are not.              *)
IndexRows(S, b) ==
    IF S[b] = 0 THEN 0 ELSE IF Outside(S, b) THEN S[b] ELSE 1

-----------------------------------------------------------------------------
(* The stream-static join of new staging rows.                             *)

TxStatus(s) ==
    CASE s = "canonical" -> "valid"
      [] s = "orphan" -> "orphaned"
      [] OTHER -> "unconfirmed"

(* A left join keeps a row that finds no partner.                          *)
AtLeastOne(n) == IF n = 0 THEN 1 ELSE n

(* Blocks join by number alone, so that siblings join as well.             *)
Headers(b) ==
    LET same == {h \in Present(ethBlocks) : Number[h] = Number[b]}
    IN IF same = {} THEN {NoBlock} ELSE same

Pending == {x \in TxRows : staging[x] > consumed[x]}

Joined(x, h) ==
    [tx |-> x.tx, block |-> x.block, header |-> h,
     decoded |-> decoded[x.tx] > 0,
     status |-> TxStatus(index[x.block].status)]

NewRows == UNION {{Joined(x, h) : h \in Headers(x.block)} : x \in Pending}

SourceOf(r) == [tx |-> r.tx, block |-> r.block]

NewCopies(r) ==
    (staging[SourceOf(r)] - consumed[SourceOf(r)])
    * (IF r.header = NoBlock THEN 1 ELSE ethBlocks[r.header])
    * AtLeastOne(decoded[r.tx])
    * AtLeastOne(index[r.block].rows)

(* The rows of bag B in set R.                                             *)
Filter(B, R) == [r \in DOMAIN B \cap R |-> B[r]]

ValidRows == {r \in DOMAIN enriched : r.status = "valid"}

-----------------------------------------------------------------------------
(* One update.                                                             *)

Flows == {"eth_blocks", "staging", "decoded", "index", "transactions",
          "gas", "ranking", "lambda"}

Reads(f) ==
    CASE f = "index" -> {"eth_blocks"}
      [] f = "transactions" -> {"eth_blocks", "staging", "decoded", "index"}
      [] f \in {"gas", "ranking"} -> {"transactions"}
      [] f = "lambda" -> {"transactions", "ranking"}
      [] OTHER -> {}

Downstream(f) ==
    LET direct == {g \in Flows : f \in Reads(g)}
        second == {g \in Flows : Reads(g) \cap direct # {}}
        third == {g \in Flows : Reads(g) \cap second # {}}
    IN direct \cup second \cup third
       \cup {g \in Flows : Reads(g) \cap third # {}}

Init ==
    /\ todo = {}
    /\ failures = 0
    /\ ethBlocks = [b \in Blocks |-> 0]
    /\ staging = [x \in TxRows |-> 0]
    /\ decoded = [t \in Txs |-> 0]
    /\ index = [b \in Blocks |-> [status |-> "none", rows |-> 0]]
    /\ consumed = [x \in TxRows |-> 0]
    /\ enriched = EmptyBag
    /\ gas = EmptyBag
    /\ ranking = {}
    /\ lambda = EmptyBag

(* The trigger job starts an update; there is one at a time.               *)
Update ==
    /\ todo = {}
    /\ todo' = Flows
    /\ UNCHANGED <<failures, silver, index, consumed, enriched, gold>>

Ready(f) == f \in todo /\ todo \cap Reads(f) = {}

Done(f) == todo' = todo \ {f} /\ UNCHANGED failures

(* T gains, in T', the records that have been delivered since.             *)
Appended(T, U) == \A k \in DOMAIN T : T[k] <= U[k]

IngestBlocks ==
    /\ Ready("eth_blocks")
    /\ Done("eth_blocks")
    /\ ethBlocks' \in [Blocks -> 0..MaxCopies]
    /\ Appended(ethBlocks, ethBlocks')
    /\ \A b \in Blocks \cap Single : ethBlocks'[b] <= 1
    /\ UNCHANGED <<staging, decoded, index, consumed, enriched, gold>>

(* Malformed transactions are dropped by the expectations.                 *)
IngestTransactions ==
    /\ Ready("staging")
    /\ Done("staging")
    /\ staging' \in [TxRows -> 0..MaxCopies]
    /\ Appended(staging, staging')
    /\ \A x \in TxRows : x.tx \in Single => staging'[x] <= 1
    /\ \A x \in TxRows \ WellFormed : staging'[x] = 0
    /\ UNCHANGED <<ethBlocks, decoded, index, consumed, enriched, gold>>

IngestDecoded ==
    /\ Ready("decoded")
    /\ Done("decoded")
    /\ decoded' \in [Txs -> 0..MaxCopies]
    /\ Appended(decoded, decoded')
    /\ UNCHANGED <<ethBlocks, staging, index, consumed, enriched, gold>>

(* The index is recomputed from the whole table.                           *)
Reindex ==
    /\ Ready("index")
    /\ Done("index")
    /\ index' = [b \in Blocks |-> [status |-> Classify(ethBlocks, b),
                                   rows |-> IndexRows(ethBlocks, b)]]
    /\ UNCHANGED <<silver, consumed, enriched, gold>>

(* Mistake: what the stream has read is not remembered.                    *)
EnrichAgain ==
    /\ Ready("transactions")
    /\ Done("transactions")
    /\ enriched' = enriched (+) [r \in NewRows |-> NewCopies(r)]
    /\ UNCHANGED <<silver, index, consumed, gold>>

(* The join reads each staging row once and appends what it finds now.     *)
Enrich ==
    /\ Ready("transactions")
    /\ Done("transactions")
    /\ enriched' = enriched (+) [r \in NewRows |-> NewCopies(r)]
    /\ consumed' = staging
    /\ UNCHANGED <<silver, index, gold>>

(* Mistakes: no filter by status, or one filter too many.                  *)
RefreshGasAll ==
    /\ Ready("gas")
    /\ Done("gas")
    /\ gas' = enriched
    /\ UNCHANGED <<silver, index, consumed, enriched, ranking, lambda>>

RefreshGasDecoded ==
    /\ Ready("gas")
    /\ Done("gas")
    /\ gas' = Filter(enriched, {r \in ValidRows : r.decoded})
    /\ UNCHANGED <<silver, index, consumed, enriched, ranking, lambda>>

RefreshGas ==
    /\ Ready("gas")
    /\ Done("gas")
    /\ gas' = Filter(enriched, ValidRows)
    /\ UNCHANGED <<silver, index, consumed, enriched, ranking, lambda>>

(* The 100 addresses most called in the last hour: some of those that      *)
(* valid transactions call.                                                *)
RefreshRanking ==
    /\ Ready("ranking")
    /\ Done("ranking")
    /\ ranking' \in SUBSET ({To[r.tx] : r \in ValidRows} \ {NoAddress})
    /\ UNCHANGED <<silver, index, consumed, enriched, gas, lambda>>

RefreshLambda ==
    /\ Ready("lambda")
    /\ Done("lambda")
    /\ lambda' = Filter(enriched, {r \in DOMAIN enriched :
                     /\ r.status \in {"valid", "unconfirmed"}
                     /\ To[r.tx] \in ranking})
    /\ UNCHANGED <<silver, index, consumed, enriched, gas, ranking>>

(* Flow f fails: nothing of it is committed, what reads it does not run.   *)
Fail(f) ==
    /\ Ready(f)
    /\ failures < MaxFailures
    /\ failures' = failures + 1
    /\ todo' = todo \ ({f} \cup Downstream(f))
    /\ UNCHANGED <<silver, index, consumed, enriched, gold>>

Progress ==
    \/ Update
    \/ IngestBlocks
    \/ IngestTransactions
    \/ IngestDecoded
    \/ Reindex
    \/ Enrich
    \/ RefreshGas
    \/ RefreshRanking
    \/ RefreshLambda

Next == Progress \/ \E f \in Flows : Fail(f)

(* Updates keep being triggered and run to their end.                      *)
Spec == Init /\ [][Next]_vars /\ WF_vars(Progress)
-----------------------------------------------------------------------------
TypeOK ==
    /\ todo \in SUBSET Flows
    /\ failures \in 0..MaxFailures
    /\ ethBlocks \in [Blocks -> 0..MaxCopies]
    /\ staging \in [TxRows -> 0..MaxCopies]
    /\ decoded \in [Txs -> 0..MaxCopies]
    /\ index \in [Blocks -> [status : ChainStatus, rows : 0..MaxCopies \cup {1}]]
    /\ consumed \in [TxRows -> 0..MaxCopies]
    /\ \A B \in {enriched, gas, lambda} :
         DOMAIN B \subseteq Rows /\ B \in [DOMAIN B -> Nat \ {0}]
    /\ ranking \subseteq {To[t] : t \in Txs} \ {NoAddress}

(* Once a block is canonical it stays so, however the window moves on and  *)
(* whatever forks, duplicates and late blocks arrive: silver rows may keep *)
(* the status they saw.                                                    *)
CanonicalIsFinal ==
    [][\A b \in Blocks : index[b].status = "canonical"
         => index'[b].status = "canonical"]_vars

Newest(S) == {b \in Present(S) : \A m \in Present(S) : Number[m] <= Number[b]}

(* A holds the newest blocks and every parent that is present.             *)
DescendsIn(S, A) ==
    /\ Newest(S) \subseteq A
    /\ \A c \in A : Parent[c] \in Present(S) => Parent[c] \in A

(* The blocks that some newest block of the indexed table descends from:   *)
(* what all such sets have in common.                                      *)
HeadChain(S) ==
    {b \in Present(S) : \A A \in SUBSET Present(S) : DescendsIn(S, A) => b \in A}

(* No block the chain's head descends from is taken for an orphan, and a   *)
(* canonical block off that chain is one the window has left behind or the *)
(* inner block of a losing branch.                                         *)
IndexFollowsHead ==
    (failures = 0 /\ todo \cap {"eth_blocks", "index"} = {}) =>
    LET chain == HeadChain(ethBlocks) IN
    \A b \in Blocks :
        /\ index[b].status = "orphan" => b \notin chain
        /\ (index[b].status = "canonical" /\ b \notin chain)
           => \/ Outside(ethBlocks, b)
              \/ \E c \in Present(ethBlocks) : Parent[c] = b

(* The status a row was given when it was joined is never recomputed, and  *)
(* a row that says "valid" is never contradicted by a later index.         *)
ValidIsCanonical ==
    \A r \in DOMAIN enriched :
        r.status = "valid" => index[r.block].status = "canonical"

(* The copies in bag B of the rows that stem from x, one by one.           *)
Copies(B, x) ==
    UNION {{r} \X (1..B[r]) : r \in {s \in DOMAIN B : SourceOf(s) = x}}

CopiesOf(B, x) == Cardinality(Copies(B, x))

(* Something that x is joined with has several rows.                       *)
JoinedSeverally(x) ==
    \/ decoded[x.tx] > 1
    \/ \E g, h \in Present(ethBlocks) :
         /\ Number[g] = Number[x.block] /\ Number[h] = Number[x.block]
         /\ g # h \/ ethBlocks[g] > 1

(* Every transaction that was read is there, as often as it was staged,    *)
(* over any failures; more often only if its block number or its decoded   *)
(* input has several rows.                                                 *)
JoinKeepsCount ==
    \A x \in TxRows :
        /\ CopiesOf(enriched, x) >= consumed[x]
        /\ CopiesOf(enriched, x) > consumed[x] => JoinedSeverally(x)

(* "Filtra tx_status = 'valid' para excluir transacoes de blocos orphan":  *)
(* the gold table shows no transaction of a block the index holds for an   *)
(* orphan, although the two may stem from different updates, and no row    *)
(* more often than silver has it.                                          *)
GoldExcludesOrphans ==
    \A r \in DOMAIN gas :
        /\ index[r.block].status # "orphan"
        /\ r \in DOMAIN enriched /\ gas[r] <= enriched[r]

(* ADR-005: "Its tx_hash deduplication ranks by decode quality".           *)
OneRowPerTransaction ==
    \A t \in Txs :
        BagCardinality(Filter(lambda, {r \in DOMAIN lambda : r.tx = t})) <= 1

(* Whatever is staged is joined in the end, failed updates or not, and a   *)
(* valid row reaches the gold table.                                       *)
RowsArrive ==
    \A x \in WellFormed :
        /\ staging[x] > 0 ~> \E r \in DOMAIN enriched : SourceOf(r) = x
        /\ (\E r \in ValidRows : SourceOf(r) = x)
           ~> \E r \in DOMAIN gas : SourceOf(r) = x
=============================================================================
