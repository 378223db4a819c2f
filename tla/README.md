# A verification project for dd-chain-explorer

TLA+ models of the parts of dd-chain-explorer whose correctness depends on order, overlap, failure
or time, the TLC runs that check them on small instances, and TLAPS proofs of what holds for every
instance. Paths are relative to the repository root. A line such as `handler.py:192` names the code
that a definition, a property or a hazard is about; PROJECT.json maps every definition to its lines.

## 1. The system

The repository holds everything downstream of an S3 bucket into which a separate program writes raw
Ethereum data.

| component | where | state it keeps | operations |
|---|---|---|---|
| Contracts ingestion Lambda | `apps/lambda/contracts_ingestion/handler.py` | one S3 object per contract and clock hour | one asynchronous event = crawl, for every contract, the hour before `exec_date`: two block lookups, a paging loop, an existence check, a put |
| Etherscan client | `utils/src/dm_chain_utils/dm_etherscan.py` | a call counter, an ABI cache on disk and in memory | block by time, transactions by block interval, ABI; every request is logged |
| DynamoDB client | `utils/src/dm_chain_utils/dm_dynamodb.py` | one table | put, get, update, delete, conditional put, query, batch write, batch delete, delete by partition |
| Parameter Store client | `utils/src/dm_chain_utils/dm_parameter_store.py` | SSM parameters | put, delete, paged listing of a path |
| Ethereum DLT pipeline | `apps/dabs/dlt_ethereum/src/streaming/ethereum_pipeline.py` | bronze, silver and gold tables, stream checkpoints | a triggered update: append new records, recompute the canonical index, join new transactions, recompute gold |
| App logs DLT pipeline | `apps/dabs/dlt_app_logs/src/streaming/app_logs_pipeline.py` | log tables, two gold views of API key consumption | a triggered update |
| Gold export job | `apps/dabs/job_export_gold` | one JSON part file under `exports/gold_api_keys` | read both views, empty the prefix, write |
| Gold to DynamoDB Lambda | `apps/lambda/gold_to_dynamodb/handler.py` | items `CONSUMPTION / {source}#{key}` | one S3 notification = read the object, put its rows |
| Terraform lock check | `scripts/ci/tf_state_lock_check.sh` | nothing of its own; deletes items of the lock table | scan, judge ages, conditional delete |
| Deploy gate | `scripts/ci/plan_env.sh`, `deploy_env.sh`, `tf_plan.sh`, `plan_gate_check.sh`, `.github/workflows/deploy_cloud_infra.yml` | staged plan texts, the saved plan, the cloud itself | plan, show, approve, re-plan, compare, apply, stack by stack |
| Application deploy | `.github/workflows/deploy_all_dm_applications.yml` | Lambda code and layer, bundles | build, test, apply the lambda stack |
| Destroy, drift, plan-on-PR, layer resolution, stack map, guards | `scripts/ci`, `.github/workflows` | none or the cloud | see section 7 |

How they interact. The three clients are one library, which both Lambdas call, each process with an instance of its own;
what processes share is behind it: the table, the parameters, the container's directory of ABIs. The Lambdas use a part of
it (`query`, `put_item`, the listing of parameters, the block lookup and the transactions of a contract); the rest, among it the
conditional put, the batches and the ABI lookup, has no caller in this repository today and is modelled as what the library offers.
The capture program is a separate project (`dd-chain-capture`) that shares no library with this one
(ADR-007, `specs/memory/architecture.md:250-259`): it delivers raw data and logs to S3 by way of Fluent Bit, and only the SSM parameters
are common to both (ADR-006). Its log lines are what the app logs pipeline reads.
The pipelines, the export job and both Lambdas communicate only through S3
objects, tables and S3 notifications: no component waits for another, everything is asynchronous,
and everything but the pipelines' streams is delivered at least once. The workflows communicate
through the cloud's Terraform state (with its DynamoDB locks), through run artifacts, and through a
human who approves an environment gate.

What is hard here: overlapping and retried Lambda deliveries over one key space; an object store
with no conditional put; an overwrite that deletes before it writes; plans that are shown at one
time and applied at another; locks broken by age; chain reorganisations seen in an arbitrary order;
a stream whose rows are never revisited joined to tables that are recomputed; flows that fail while
others commit; calls of several requests on a table that others write to between them, with stale reads and answers that are
lost. PROJECT.json lists each hazard at its line.

## 2. The modules

| module | component | abstract / composed with |
|---|---|---|
| `ContractsIngestion` | ingestion Lambda, with what it uses of the Etherscan, SSM and DynamoDB clients | |
| `StateLock` | lock check, Terraform commands, lock table | |
| `DeployContract` | the promise of the informed gate, without scripts | abstract specification of `DeployGate` |
| `DeployGate` | plan job, approval, apply job, gate script, concurrency group, application lane | refines `DeployContract` |
| `GoldExport` | export job, S3 notifications and the Lambda, composed | |
| `EthereumPipeline` | ingestion into silver, canonical index, join, gold tables | |
| `DynamoTable` | DynamoDB client, with boto3's batch writer and the service's ttl and stale reads | |
| `EtherscanClient` | Etherscan client and the Parameter Store client its key comes from | |
| `ApiAccounting` | app logs pipeline, from lines on S3 to the two consumption views | extends `EtherscanClient`, whose lines it counts |
| `MC…` | constants of the TLC instances | |
| `…_proofs` | theorems and proofs; of `ContractsIngestion` in two modules | `ContractsPaging_proofs` (crawls) extends `ContractsIngestion_proofs` |

Each component module says in its header what a behaviour is. Below is how its state and actions
correspond to the code. Operators introduced as a "Mistake" are used by no action: each is a
plausible bug (a dropped condition, a boundary, a missing reset) against which a property is tried.

### ContractsIngestion

An event is one asynchronous invocation. `phase`, `attempt` are Lambda's; `date`, `upper`, `rank`, `pos`,
`cursor`, `data`, `acc` are the handler's locals (`exec_date`, `block_after`, `block_before`, `data`, `all_contract_data`);
`objects` is the bucket. Time is in `Moments`, `PerHour` of them to the hour. An `exec_date` is any moment: the default is truncated to its hour
(`handler.py:283`), one that the event has is taken as it is (284). The window is the hour before `exec_date`; the
key is that of the clock hour in which `exec_date` lies (`Truncated`, 102-106). `Start` is `handler` up to the loop of `run` (`handler.py:269-306`),
`NextPage` and `EndOfPages` are turns of `_get_transactions` (162-182), `HeadFound`, `HeadMissing`
and `Put` are `_write_to_s3` (184-200) with the check and the put as separate steps. `ApiError` is
the generator ending at a message that is not "OK" (176), `StartFails` any exception before the
loop, `Crash` the 300 s timeout or a failing put. Etherscan's answer is `Page`: at most `Offset`
transactions from the lower limit on, ascending. An answer knows the chain up to a head that may be behind the newest block
(`HeadsNow`): a page then ends there (`PageOf`) and the lookup of the window's end takes an earlier block (`UpperSeen`). Limits are decimal strings in the code and are
compared as such (167): `StrLess` is that comparison on numbers below 10^9, which the
chain, at a block every twelve seconds, takes centuries to reach. Which blocks a window has is a constant of its `exec_date`
(`AfterBlock`, `BeforeBlock`), and blocks do not change once an answer has shown them: reorganisations of recent blocks are left out.
Transactions carry an identity and a block number; the other columns are copied and left out.
`clean`, `origin`, `made` and `mishaps` are history variables: `clean` and `origin` tell whether every answer of a crawl succeeded and
knew its whole window, `made` is the `exec_date` whose delivery wrote an object, and `mishaps` remembers the two things that the
code does not exclude, a delivery that began while another ran, and a `head_object` that failed for
an object that exists (`_check_file_exists` answers False for any exception, 184-190). What holds
only while neither has happened is stated over it (`OverwriteNeedsMishap`), so nothing is assumed
away.

### StateLock

`lock` holds per state the command whose ID the lock item carries. `Scan` is lines 27-79 of the script, `Remove` the conditional
delete (97-111), item by item, at any later time. The staleness rule is `Stale`: too old, or without a `Created` time that
parses (75), which is the case of the locks of `Undated`. Terraform writes that time into every lock and Python from 3.11 on parses its
form, so `Undated` is empty on the runners; an older Python on an operator's machine fails on its nine digits. The `-md5` digest item of a state has no `Info`, is
listed as STALE by every scan and its delete is refused, as DynamoDB's comparison with a missing attribute is
false; it changes nothing and is left out. Terraform's own locking is external: an item is created only if
there is none, and removed only by its ID. Time is in ticks; a command of a workflow job (`CI`)
cannot outlive its job's `timeout-minutes` while it runs. An operator's command can.
That a killed job's terraform is dead at once is part of `Kill`.

### DeployGate and DeployContract

A plan is a function from resources to actions (`create`, `update`, `destroy`, `replace`, a
change of outputs, `none`). `PlanCounts` and `PlanAddresses` are what `plan_gate_check.sh` reads off
the text (48-82): a forced replacement is printed as "must be replaced", so it counts as one add and
one destroy but is not an address line; a change of outputs has neither. `pending[s]` is the plan
terraform would make for stack `s` now. `PlanStack` is a turn of `plan_env.sh`'s loop, `EndPlan` its
acknowledgment gate, `Approve` the environment gate with the start of the apply job, `Replan`,
`GatePasses`, `FailClosed`, `Skip`, `Apply`, `ApplyFails` are `deploy_stack` and
`deploy_stack_replan_diff` (112-258), `Complete` the end of the loop. `Break` is every other way in
which a job ends badly. Jobs of one concurrency group exclude one another, not runs (`GroupFree`).
`Drift` changes a plan from outside, `AfterWrite` is the effect of an apply on its own stack and on
the stacks downstream. Terraform refuses a saved plan whose state has been written since
(`ApplyRefused`), which is external. The lock check is not repeated here; that another command holds
the lock is one of the failures.

`DeployContract` is the promise: show, approve, then execute in order and only what was shown;
of a stack that could not be shown execute nothing that destroys. The refinement maps `job` to
three phases, and plans to their views. It is over views on purpose: the promise over plans is
refuted (section 4).

### GoldExport

`files` is the sequence of part files, each the two versions of the views it holds; `parts` is what
the prefix holds now. `ExportDelete` and `ExportWrite` are the two halves of `mode("overwrite")`
(`export_gold.py:74`); the view versions read are any that the views had since the run began
(`Readable`). A slot is a notification with its deliveries; `NotifyAgain` is a duplicate or a late
one. `Begin` is `get_object` (`gold_to_dynamodb/handler.py:42`), `Put` one item (87), `Crash` a batch
that raises or a timeout. `overlapped` is a history variable: a delivery has begun while another was running, which
nothing in the code or the Lambda's settings excludes. Part files have names of their own (Spark's UUIDs), so a delivery of a replaced file
fails. `MaxVersion`, `MaxFiles` and `Slots` bound the behaviour.

### EthereumPipeline

Tables are functions or bags. An update runs each flow once, after the flows it reads; a flow that
fails commits nothing and takes the flows below it out of the update, and the stream's
checkpoint (`consumed`) moves only with its commit. Bronze and silver ingestion are one step per
table: records arrive in any order, with gaps, and up to `MaxCopies` times. `Classify` and
`IndexRows` are the SQL of the canonical index (`ethereum_pipeline.py:537-583`) as functions of
`eth_blocks`, the maximum expressed by quantifiers, `DISTINCT` inside the window and none outside.
`Headers`, `Joined` and `NewCopies` are the stream-static left join (345-423): by number with the
blocks, by hash with the index, by transaction with the decoded inputs, with the multiplicity of
every match. `WindowBlocks` and `Confirmations` stand for 1000 and 64. `RefreshGas` stands for the gold
tables that filter `tx_status = 'valid'`; `RefreshRanking` takes any part of the addresses that
valid transactions call, which includes the top 100 of the last hour.

### DynamoTable

One partition: `table` is the leader's, `replica` what an eventually consistent read may still see, per key.
`PutItem`, `DeleteItem`, `UpdateItem` and `ConditionalPut` are one request each (`dm_dynamodb.py:64-168`); `claims` holds who was told
True for which key. `ConditionalPutLost` is botocore's repetition of a put whose answer was lost: the condition fails on the item
just written, and the caller is told False. The calls of several requests are `Query` and `DeleteAllByPk` (174-202, 245-251), page
by page with `NextPage` and `LastPage`, and `BatchWrite` (213-221). A page ends at its limit or anywhere (1 MB). boto3's batch
writer is external but modelled by what it does: it fills a buffer, sends a batch (`Flush`), puts what the service left unprocessed at
the end, loses a batch that is refused (`FlushFails`) and flushes the rest when it is closed. `calm` is a history variable: what was under a key
ever since a call began, or `Touched` once anyone else may have changed it or a replica lags. All the promises of the calls are about
keys that stayed calm. Sort keys are numbers, since only their order matters; an item is its attributes and whether it has a ttl.
get_item, item_exists and ping are single reads and left out.

### EtherscanClient and ApiAccounting

A run lists the parameters of a path (`Page`, `LastPage`). A page that SSM refuses ends the listing with what there is (`PageFails`: `ClientError`
and missing credentials are caught, `dm_parameter_store.py:118`); any other failure is not caught and ends the run (`PageBreaks`). It takes the first name (`key`, `handler.py:293-298`) and has a client.
`Track` is `_track_call`: a line with the name of the key and the message of the answer. Only lines of processes in `Shipped` are
followed; the ingestion Lambda logs to CloudWatch and is not one of them. `Look` to `Return` are `get_contract_abi`: the memoised `_load_from_disk`
(`memo`, misses included), the request, and the file, which is emptied before it is written (`"torn"`). Files and the directory are shared by
the processes, `memo` is of one process and may drop an entry (`Evict`). `stayed`, `was` and `erred` are history variables. The processes of `Shipped`
are whatever logs through this client under a logger that the pipeline selects; the repository does not say that any does today.

In `ApiAccounting` `landed` holds the copies of lines on S3, `bronze` those that Auto Loader has read, `silver` two bags with what each stream has read
in `read`, and `view` the bag of rows behind the counts of a view. `Update(F)` is a triggered update in which the flows in F fail: a flow that fails
commits nothing, nor do those that read it. It is one step because the flows of an update see one version of bronze. The lists of
loggers are disjoint (`LoggersAssumption`), as the defaults of `databricks.yml` are.

## 3. Runs

Deadlock checking is off wherever the system may stop: an event is done or given up, the dispatches,
exports or locks of an instance are used up. `EthereumPipeline` has no such end and is checked for deadlock.

| run | question | bounds |
|---|---|---|
| `ingestion_race` | types, no mixed objects, nothing stored twice by `exec_date`s an hour apart, done means stored, clean crawls of one `exec_date` agree, an overwrite needs an overlap or a failed check | 2 contracts, moments 1:00, 1:30 and 2:00, 2 events (symmetric) of 2 deliveries that may overlap, pages of 2, answers that know the chain up to block 18 or 22; 1.5 million states |
| `ingestion_paging` | what paging loses, that it ends, and that an event with an explicit `exec_date` ends with that hour stored | every history of up to 5 transactions in 6 blocks, pages of 3, windows 8..10 (limits of one and two digits) and 11..13, heads 11, 12 and 14, 1 event of 2 deliveries |
| `lock_sweep` | only locks that are stale or cannot be dated are broken; jobs never lose a lock; an abandoned lock is freed | 4 commands (2 jobs of limit 1, 2 operators, one with an undated lock), 2 concurrent checks, age limit 2 |
| `gate` | order, stop at failure; what is applied looks as approved; destroys acknowledged; the scripts implement `DeployContract`; re-triggering gets everything deployed | 2 dispatches, 2 stacks, the first deferred and the second one shared with the application lane, 4 plans of which two have equal counts, 1 unlucky event |
| `gold_chain` | until deliveries overlap served items move forward and what is done is served; an export lands or is given up | 2 rows of a view with 3 versions (empty, full, one row gone), 2 exports, 3 notifications of 2 deliveries |
| `eth_forks` | the index follows the head; canonical is final; valid rows are never contradicted; gold excludes orphans; the join loses nothing and multiplies only for a reason; what is staged is joined and what is valid reaches gold | a chain of 3 blocks and a losing branch of 2 under window 2, 1 confirmation, a block row and its transaction rows up to twice, 1 failing flow |
| `dynamo_table` | a query shows what stayed as it was; a batch leaves what it was given; a semaphore has one holder; every call returns | 2 keys, one under a prefix; 1 query or batch of one client, 2 writes of either, limits 0 and 2, batches of 2 that overflow or have a key twice, 1 fault |
| `api_usage` | the ABI lookup is honest; every shipped call is counted under its key, once per delivery | 2 processes (1 shipped), 2 parameters on pages of 1, 2 runs, 1 contract, 1 line in up to 2 copies, 1 put or delete, 1 failure |

The four runs of section 4 are expected to be violated. The other half of a question is often in another
run: `lock_operator` shows the lock of an operator's command broken under the bounds under which `lock_sweep` shows the
jobs' locks kept. `calls_ok` shows the wrong half of the counts whose sum `api_usage` shows right.

Why these bounds are enough. Every hazard here involves one pair: two deliveries, two checks, two
runs, a run and a drift, a block and its sibling. Each instance has the pair, a third actor where a lock or
an item can change hands twice, and a second value (contract, hour, stack, row) so that mixing shows. Numbers are
scaled so that limits are reached: pages of 1 to 3 are filled and overfull, a batch of 2 is exceeded by a third request, the window of 2 blocks moves past a fork,
an age limit of 2 ticks is passed. The mutants, one per property in PROJECT.json, show that each run reaches the
case its property is about. Where the instance might still be too small, section 5 has a proof.

## 4. What the code does against its own words

Four runs are expected to be violated; each checks one sentence of a comment or a document.

- `lock_operator`: "conditional delete — safe against active runs" (`tf_state_lock_check.sh:90`). The condition compares the
  item with itself; it protects a lock that changed hands and not one that is merely old. Jobs are safe because
  their timeout is below the age limit (`JobsKeepLock`); an operator's command is not.
- `gate_exact`: "guarantees the applied plan is the approved plan" (`specs/memory/product/cicd-pipeline.md:81-82`). The gate
  compares counts and the addresses of lines that say "will be"; what it guarantees is `AppliedAsApproved`.
- `eth_dedup`: the catalog and ADR-005 describe `transactions_lambda` as deduplicated by `tx_hash`
  (`specs/memory/architecture.md:241`). Nothing deduplicates, and siblings double a row.
- `calls_ok`: "Uma linha por chave com contadores de requisições OK e com erro separados" (`app_logs_pipeline.py:214`). The client logs
  the message of Etherscan's answer, "OK" (`dm_etherscan.py:147, 182, 215, 238`); the view counts `call_status == "ok"` as ok and the rest as errors
  (239-240), so every successful call is in `calls_error_total`.

Observed while modelling and stated here, without a run:

- A transaction joined while its block is among the last 64 keeps `unconfirmed` (`ethereum_pipeline.py:413`) and never reaches the
  tables of valid transactions, which line 26 calls "consumo de gas por transação canônica".
- "Etherscan is only called once per address" (`dm_etherscan.py:84`): a process that has looked an address up before it was saved remembers
  the miss and asks once more. `AnswerHonest` says that it costs no more than the request.
- The limit of `query` is handed to every page anew (`dm_dynamodb.py:191-198`), so that when a page was cut short a query returns up to twice the
  limit less one; a limit of 0 is none.
- `delete_all_by_pk` returns how many items it listed, not how many it deleted; it also deletes an item, or a semaphore, that was put under a
  listed key after the listing.
- `conditional_put_item` returns False to the caller whose own put succeeded if the answer was lost; the item then stays until its ttl passes.
- An unprocessed request may land after a later one for the same key, or fill a batch with a key twice, which the service refuses.
- `_convert_decimals` leaves a Decimal in a list inside a list (`dm_dynamodb.py:293-305`).
- The ingestion Lambda's logger is in neither list of the app logs pipeline and its log goes to CloudWatch: its own calls are in no view.
- The windows of the views count from `_ingested_at`, so a line that is late counts as recent.
- "write_to_s3's whole contract is never overwrite an already-ingested hour"
  (`tests/lambda/test_contracts_ingestion_handler.py:221-222`): check and put are two requests, so overlapping
  deliveries both put. `OverwriteNeedsMishap` says that an overlap or a failed check is the only way, and
  `CleanCrawlsAgree` that clean crawls for one `exec_date` store the same transactions. An overwrite may still change an object: when one
  of the crawls was not clean, or when the two are for different `exec_date`s in one clock hour.
- An explicit `exec_date` is not truncated, its key is (`handler.py:284, 102-106`). 10:00 and 10:30 share the key of hour 10, so that the later one
  skips its window, or in a race replaces the other's; 10:30 and 11:00 have two keys, and the transactions after 10:00 and before 10:30
  are stored under both. `HoursDisjoint` holds of `exec_date`s an hour or more apart, which all whole hours are.
- A crawl that an API error cuts short is stored and reported like a whole one, and the hour is then skipped
  for ever. So is a crawl whose answers came from an index behind the chain: what it did not know yet is lost for good, and the default
  `exec_date`, the start of the running hour, leaves Etherscan little time after the hour. `CleanMeansWhole` is about clean crawls only.
- The listing of parameters survives a page that SSM refuses, but not a timeout or a lost connection
  (`dm_parameter_store.py:118`): these cost the run the keys it had already listed.
- "two dispatches cannot race the same remote state" (`cicd-pipeline.md:107-108`): the application lane applies the
  lambda stack in a concurrency group of its own (`deploy_all_dm_applications.yml:31`). `AppApply` is that step; terraform's
  refusal of a plan older than the state (`ApplyRefused`) is what keeps `AppliedAsApproved`.
- "Re-run the deploy with the destroy-acknowledgment input enabled to proceed" (`plan_gate_check.sh:134`): the apply
  job does not receive the input, so a deferred stack with a destroy could never proceed. No stack of `stack_map.json` is deferred today.
- An older delivery that overlaps a newer one can leave older items; no reserved concurrency excludes it. A key that vanishes from the
  views keeps its item. An export that fails after emptying the prefix leaves it empty until the next.
- `tf_plan.sh:15-20` asks read-only callers for `-lock=false`, which the hml plan job does not pass; and `deploy_env.sh:129-131` says
  that the check fails on a live lock, while the script reports it and exits 0, leaving the failure to terraform.

## 5. What is proved

Every `…_proofs` module proves, for all values of its constants that satisfy the named assumptions,
that an invariant stronger than the properties is inductive, and derives the properties from it.

- **ContractsIngestion** (`Typing`, `TypeCorrect`, `ContentCorrect`, `StoredOnce`, `WholeHoursStoreOnce`, `WriteOnce`). `ContentSound`
  is not inductive alone: a put needs the contract under `pos` to be one of the delivery's list and the
  cursor to be at or above its window, which is `DeliveryOK`. `PageProperties` shows that a page lies in
  the window asked for. `StoredOnce` is about deliveries whose `exec_date`s are an hour or more apart: the last block at or before the one is no
  later than the first at or after the start of the other's window (`BlockTimesAssumption`, which is what "before" and "after" mean), and the loop stops short of
  it. `WholeHoursStoreOnce` adds that different whole hours are that far apart (`HoursApart`). `WriteOnce` (`OverwriteNeedsMishap`) needs that until a mishap the one running
  delivery between check and put is at a key without an object.
- **ContractsPaging** (`DoneIsIngested`, `PagingIsComplete`, `CleanCrawlsAreOne`, `NoEventCircles`), about the crawls
  of the same module. *Done*: what a running delivery has passed in its list is stored under the hour of its `exec_date` (`ProgressInv`), and no step
  deletes an object. *Complete*: below its cursor a clean crawl has every transaction of its window but those `LossExplained`
  names (`CrawlsOK`); the lemma is `PageCovers`, that a page has all up to its last block unless that
  block alone fills it. *One*: the crawls of one `exec_date`, as long as they are clean, are a walk over points (cursor, page, list) that depend on the history alone. Its outcomes
  are the dead ends of the least set of points closed under `Onward`, stated without recursion; as the walk has one way on
  from each point it has one outcome, and every clean crawl and every object of one is on it (`OutcomesOK`, `StoredOutcomes`). That a retry, another
  delivery or a lookup of the window at another time changes nothing is the point; of different `exec_date`s it says nothing.
  *No circles*: deliveries left, contracts left, stages left and pages left decrease in lexicographic order with every step of an event, and no
  other step raises them, which is the safety half of `EveryEventEnds`.
- **StateLock** (`LockSafety`, `SweepBreaksOnlyStale`, `JobsExclude`, `SweepSparesJobs`). The delete acts on
  an observation that may be arbitrarily old; what saves it is that ages only grow, so whatever a scan
  condemned is stale for good (`CondemnedIsStale`), hence a young command with a lock that can be dated owns its state's item
  (`YoungOwns`). `JobsExclude` and `SweepSparesJobs` are about such jobs, with operators' commands and undated locks
  beside them, and assume only `JobLimit <= StaleAfter`.
- **DeployGate** (`GateTypeCorrect`, `OnlyTheViewApproved`, `NoUnacknowledgedDestroy`, `FailureStops`,
  `GateKeepsContract`). The invariant ties the loop index to what is settled (`LoopOK`), what was applied to
  the gate it passed (`GateOK`), and every phase after the plan job to the acknowledgment (`AckOK`).
  That a destroy cannot slip in after the acknowledgment rests on `ViewShowsDestroy`: plans with equal
  views agree on whether they destroy. The refinement is proved step by step: each action maps to one
  action of `DeployContract` or a stutter.
- **GoldExport** (`GoldTypes`, `SinglePart`, `FallsBackOnlyByOverlap`, `ServedForward`, `DoneIsServed`). The prefix holds
  the newest file or nothing (`OnlyNewest`), so a delivery that has read a file read the newest (`ReadNewest`);
  versions are monotone along the files (`ViewsForward`); and until deliveries overlap there is one writer, and nothing
  served is newer than what it writes (`OneWriter`).
- **EthereumPipeline** (`PipelineTypes`, `CanonicalForGood`, `ValidForGood`, `GoldIsCanonical`, `NothingLost`, `IndexOfHead`, `JoinCounts`). The key lemma,
  `ClassifyMonotone`, is that a table with more rows never takes a block back from "canonical": a child leaves the
  window after its parent. The index may lag the table but is backed by it (`IndexBacked`), so recomputing it
  keeps what silver rows have seen, whatever failed in between.
  `IndexOfHead`: while nothing is owed the index is that of the blocks there are (`IndexFresh`). `HeadChain` is the least set that has the
  newest blocks and is closed under parents; an orphan could be taken out of it and it would still be such a set, as neither a newest block
  nor, inside the window, a parent is an orphan (`OrphanOffChain`). This needs `Confirmations >= 1`. `JoinCounts`: a row of the joined table is
  as often there as it has copies, copies of disjoint batches add up, and a batch has at least one for every row newly read, since the join
  is a left join (`JoinCopies`); more only for a number with several headers or an input with several rows, which
  once there are there for good (`SeverallyStays`).
- **StateLock, DeployGate, GoldExport** also prove what no run repeats for want of states: `LockTypes`, `JobsExclude`, `DoneInFull`, `SinglePart` and
  `FallsBackOnlyByOverlap` (`JobsExclusive`, `DoneIsComplete`, `OnePart` and `OlderOnlyByOverlap`).
- **DynamoTable** (`TableTypes`, `SemaphoreExcludes`, `QueryIsStable`, `BatchIsKept`, `NoCallCircles`). What a query has listed agrees with every calm key up to
  its start key, so that a page may only add what is ahead of it; a calm key reads alike at the leader and at a replica, which is why the history
  counts a lagging key as touched. Of a batch, whatever was asked is still to be handed over, held, or is in the table: unprocessed requests only move
  from one of the three to another. A claim is backed by its item, so the condition of another put fails.
  `NoCallCircles` is the safety half of `EveryCallEnds`: the keys ahead of a query and the requests left of a batch shrink with every
  answer, and no step of another client, who may add items and requests of its own, gives one back.
- **ApiAccounting** (`UsageTypes`, `AbiAnswers`, `CountsOneEach`, `NoCallCountedTwice`). A whole file or a remembered hit is of a verified contract, and nothing is ever un-verified (`CacheOK`); a silver table holds exactly one copy
  of what its stream has read and kept (`PipelineInv`), which survives every failing flow, and as no line is in both tables their union
  has one copy of each. A count is thus the size of a set of (row, copy) pairs, which maps one to one into the deliveries of lines of that key.

Constants are assumed to be what the code and its configuration make them (`ConstantsAssumption`, `CallsAssumption` and the
like, each beside its constants): positive page and batch sizes, finitely many keys, blocks and names. TLC evaluates all of them on every run. Two
theorems of `StateLock` have a condition of their own, named above.

Model-checked only: liveness (`EveryEventEnds`, `PinnedHourIngested`, `AbandonedLockFreed`, `Converges`,
`ExportLands`, `RowsArrive`, `EveryCallEnds`, `CallsReachView`), since the prover has no rule for fairness and `ENABLED`. Of
`EveryEventEnds` and `EveryCallEnds` the other half is proved: no behaviour takes infinitely many steps of one event or one call.
`PinnedHourIngested` is, but for the event's end, `DoneIsIngested`. Every invariant and action property of a passing run has a theorem.

## 6. Fairness

- Lambda deliveries: weak fairness of a delivery's own steps. Lambda runs what it accepted; failures are never owed, and they are bounded by the number of deliveries.
- Lock check: time passes, commands end, checks keep coming, each is strongly fair in dealing with what it has
  listed (a check may be cancelled, but not every time).
- Deploy gate: jobs get on and the operator re-triggers and approves, which is what the scripts tell the operator to do on a
  divergence. Without that there is no progress, as the gate is meant to stop; unlucky events are bounded by `MaxEvents`.
- Pipeline: updates keep being triggered. The trigger job is declared paused (`databricks.yml:50-53, 81-84`), so this is an
  assumption about the operator. Failures are bounded by `MaxFailures`.

- Clients: a call that was begun gets on (`Proceed`), as the client waits for nothing but answers; failures are bounded by `MaxFaults`. The service
  processes at least one request of a batch it accepts.
- App logs: Fluent Bit delivers each line at least once, and updates keep being triggered. `CallsReachView` needs nothing of the processes that log.

## 7. Not modelled, and the plan

Not modelled for good: Terraform declarations, dashboards, the scorecard, release guards, test drivers (no state, or only
text); the numeric detail of aggregations and the time windows of the consumption views; requests of the clients that only read; drift detection and plan-on-PR, which only report; full refreshes of a pipeline.

Planned, in this order:

1. `LayerStore` — `resolve_layer.sh`, `resolve_layer_or_skip.sh` and the two lanes that apply the lambda stack with a layer of
   their own; composed with `DeployGate`'s application lane.
2. `DestroyEnv` — `destroy_env.sh` and `empty_s3_and_ecr.sh` in the shared group: reverse order, the ignored failure of emptying, a
   destroy between a plan and its apply; abstract specification: no stack is destroyed before the stacks that read it.
3. `StackSelection` — the set of changed stacks as a closure over the stack map, against a reference definition.
4. In `EthereumPipeline`: the withdrawals and chain-health tables.

Theorems planned: with the new modules, that no destroy precedes its readers; for those that are there, the safety half of
`RowsArrive`, `CallsReachView` and `AbandonedLockFreed` as decreasing measures, in the way of `NoEventCircles`.
