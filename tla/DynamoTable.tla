----------------------------- MODULE DynamoTable -----------------------------
(***************************************************************************)
(* DMDynamoDB (dm_dynamodb.py): the calls of several clients on one        *)
(* partition of the table.                                                 *)
(*                                                                         *)
(* put, update, delete and the conditional put are one request each.       *)
(* query asks for page after page, delete_all_by_pk deletes in batches     *)
(* what a query listed, and the batch writer of boto3 sends its requests   *)
(* until none is left.  Reads are eventually consistent: what a page shows *)
(* of an item may be older than the last write.                            *)
(***************************************************************************)
EXTENDS Integers, Sequences, FiniteSets, SequencesExt

CONSTANTS
    Clients,
    Callers,    \* bound: the clients whose queries and batches are followed
    Keys,       \* sort keys, as numbers: only their order matters
    Values,     \* the attributes of an item
    NoItem,     \* there is no item
    Touched,    \* mark of the history variable calm
    Initial,    \* bound: what the partition holds at first
    Ranges,     \* the sort keys that a pk and an sk_prefix select
    Limits,     \* limit arguments; 0 is no limit, as None is
    Batches,    \* lists of items given to batch_write
    BatchSize,  \* items the batch writer sends at once, 25 in boto3
    MaxCalls,   \* bound: queries and batches begun
    MaxWrites,  \* bound: single-item writes
    MaxFaults   \* bound: lost answers, refused batches and crashes

Items == [val : Values, ttl : BOOLEAN]
MaybeItem == Items \cup {NoItem}
Requests == [key : Keys, item : MaybeItem]

ASSUME KeysAssumption ==
    /\ Keys \subseteq Nat \ {0} /\ IsFiniteSet(Keys)
    /\ Ranges \subseteq SUBSET Keys /\ Keys \in Ranges
    /\ NoItem \notin Items /\ Touched \notin MaybeItem
    /\ Initial \subseteq [Keys -> MaybeItem]

ASSUME CallsAssumption ==
    /\ Callers \subseteq Clients
    /\ Limits \subseteq Nat /\ 0 \in Limits
    /\ Batches \subseteq Seq([key : Keys, item : Items])
    /\ BatchSize \in Nat \ {0}

ASSUME BoundsAssumption ==
    MaxCalls \in Nat /\ MaxWrites \in Nat /\ MaxFaults \in Nat

VARIABLES
    table,    \* [key -> item or NoItem], as the leader has it
    replica,  \* [key -> item or NoItem], as a lagging replica has it
    call,     \* [client -> the method it is in]
    step,     \* [client -> how far it is]
    range,    \* [client -> the keys its query selects]
    limit,    \* [client -> the limit of its query]
    start,    \* [client -> ExclusiveStartKey, 0 before the first page]
    got,      \* [client -> the items listed so far, with their keys]
    count,    \* [client -> len(items)]
    asked,    \* [client -> the requests its batch was given, as a set]
    reqs,     \* [client -> requests not yet handed to the batch writer]
    buffer,   \* [client -> requests the batch writer holds]
    failed,   \* [client -> its batch raised an exception]
    claims,   \* <<client, key>>: told True by conditional_put, not released
    calm,     \* history: [client -> [key -> what was there ever since its
              \*  call began, or Touched if another may have seen or made a
              \*  change]]
    begun, writes, faults

data == <<table, replica, claims>>
query == <<range, limit, start, got, count>>
batch == <<asked, reqs, buffer, failed>>
at == <<call, step>>
vars == <<data, at, query, batch, calm, begun, writes, faults>>

Calls == {"none", "query", "delete_all_by_pk", "batch_write"}
Steps == {"idle", "paging", "sending", "answer"}
-----------------------------------------------------------------------------
Init ==
    /\ table \in Initial
    /\ replica = table
    /\ call = [c \in Clients |-> "none"]
    /\ step = [c \in Clients |-> "idle"]
    /\ range = [c \in Clients |-> {}]
    /\ limit = [c \in Clients |-> 0]
    /\ start = [c \in Clients |-> 0]
    /\ got = [c \in Clients |-> {}]
    /\ count = [c \in Clients |-> 0]
    /\ asked = [c \in Clients |-> {}]
    /\ reqs = [c \in Clients |-> <<>>]
    /\ buffer = [c \in Clients |-> <<>>]
    /\ failed = [c \in Clients |-> FALSE]
    /\ claims = {}
    /\ calm = [c \in Clients |-> [k \in Keys |-> Touched]]
    /\ begun = 0
    /\ writes = 0
    /\ faults = 0

Fault == faults < MaxFaults /\ faults' = faults + 1

(* Calls other than those of D notice that the keys in K change.           *)
Disturb(D, K) ==
    [c \in Clients |-> [k \in Keys |->
        IF k \in K /\ c \notin D THEN Touched ELSE calm[c][k]]]

(* The table becomes T by a request of the clients in D, or by itself.     *)
(* A claim on a key ends with its item.                                    *)
Change(D, T) ==
    /\ table' = T
    /\ calm' = Disturb(D, {k \in Keys : T[k] # table[k]})
    /\ claims' = {x \in claims : T[x[2]] # NoItem}

(* A single-item request of client c.                                      *)
Write(c, k, i) ==
    /\ step[c] = "idle" /\ writes < MaxWrites
    /\ writes' = writes + 1
    /\ Change({c}, [table EXCEPT ![k] = i])
    /\ UNCHANGED <<replica, at, query, batch, begun, faults>>

PutItem(c) == \E k \in Keys, i \in Items : Write(c, k, i)

DeleteItem(c) == \E k \in Keys : Write(c, k, NoItem)

(* Mistake: an update that creates the item leaves its ttl out.            *)
UpdateItemBare(c) ==
    \E k \in Keys, v \in Values, t \in BOOLEAN :
        Write(c, k, IF table[k] = NoItem THEN [val |-> v]
                    ELSE [val |-> v, ttl |-> t \/ table[k].ttl])

(* SET leaves the other attributes, the ttl too, and creates a missing     *)
(* item.                                                                   *)
UpdateItem(c) ==
    \E k \in Keys, v \in Values, t \in BOOLEAN :
        Write(c, k, [val |-> v,
                     ttl |-> t \/ (table[k] # NoItem /\ table[k].ttl)])

(* Mistake: the condition is checked with a read of its own.               *)
ConditionalPutStale(c) ==
    /\ step[c] = "idle" /\ writes < MaxWrites
    /\ writes' = writes + 1
    /\ \E k \in Keys, v \in Values :
          /\ replica[k] = NoItem
          /\ table' = [table EXCEPT ![k] = [val |-> v, ttl |-> TRUE]]
          /\ calm' = Disturb({c}, {k})
          /\ claims' = claims \cup {<<c, k>>}
    /\ UNCHANGED <<replica, at, query, batch, begun, faults>>

(* A put with attribute_not_exists(pk) that the caller is told of.  When   *)
(* the condition fails nothing changes.                                    *)
ConditionalPut(c) ==
    /\ step[c] = "idle" /\ writes < MaxWrites
    /\ writes' = writes + 1
    /\ \E k \in Keys, v \in Values :
          /\ table[k] = NoItem
          /\ table' = [table EXCEPT ![k] = [val |-> v, ttl |-> TRUE]]
          /\ calm' = Disturb({c}, {k})
          /\ claims' = claims \cup {<<c, k>>}
    /\ UNCHANGED <<replica, at, query, batch, begun, faults>>

(* The answer to the put is lost; botocore sends it again, the condition   *)
(* fails on the item just written and the caller is told False.            *)
ConditionalPutLost(c) ==
    /\ Fault
    /\ step[c] = "idle"
    /\ \E k \in Keys, v \in Values :
          /\ table[k] = NoItem
          /\ Change({c}, [table EXCEPT ![k] = [val |-> v, ttl |-> TRUE]])
    /\ UNCHANGED <<replica, at, query, batch, begun, writes>>

(* The service removes an item whose ttl has passed.                       *)
Expire(k) ==
    /\ table[k] # NoItem /\ table[k].ttl
    /\ Change({}, [table EXCEPT ![k] = NoItem])
    /\ UNCHANGED <<replica, at, query, batch, begun, writes, faults>>

Replicate(k) ==
    /\ replica[k] # table[k]
    /\ replica' = [replica EXCEPT ![k] = table[k]]
    /\ UNCHANGED <<table, claims, at, query, batch, calm, begun, writes, faults>>
-----------------------------------------------------------------------------
(* query: pages in key order.                                              *)

Begin(c, method, s) ==
    /\ step[c] = "idle"
    /\ begun < MaxCalls
    /\ begun' = begun + 1
    /\ call' = [call EXCEPT ![c] = method]
    /\ step' = [step EXCEPT ![c] = s]
    /\ calm' = [calm EXCEPT ![c] =
                  [k \in Keys |-> IF table[k] = replica[k] THEN table[k]
                                  ELSE Touched]]
    /\ UNCHANGED <<data, writes, faults>>

BeginPaging(c, method, R, n) ==
    /\ Begin(c, method, "paging")
    /\ range' = [range EXCEPT ![c] = R]
    /\ limit' = [limit EXCEPT ![c] = n]
    /\ UNCHANGED <<start, got, count, batch>>

Query(c) == \E R \in Ranges, n \in Limits : BeginPaging(c, "query", R, n)

DeleteAllByPk(c) == BeginPaging(c, "delete_all_by_pk", Keys, 0)

(* A page may show an item as the leader or as a replica has it.           *)
Readings ==
    {[k \in Keys |-> IF k \in S THEN replica[k] ELSE table[k]] :
        S \in SUBSET {k \in Keys : replica[k] # table[k]}}

(* What is after the start key, if the items are read as seen.             *)
Ahead(c, seen) ==
    {[key |-> k, item |-> seen[k]] :
        k \in {j \in range[c] : start[c] < j /\ seen[j] # NoItem}}

KeysOf(P) == {e.key : e \in P}

Listed(c, P) ==
    /\ got' = [got EXCEPT ![c] = @ \cup P]
    /\ count' = [count EXCEPT ![c] = @ + Cardinality(P)]

(* Mistake: one page is enough when there is a limit.                      *)
FullOnce(c, n) == limit[c] # 0

(* limit and len(items) >= limit                                           *)
Full(c, n) == limit[c] # 0 /\ n >= limit[c]

(* A page with a LastEvaluatedKey: it ends at the limit, which every page  *)
(* is given anew, or wherever 1 MB was read.                               *)
NextPage(c) ==
    /\ step[c] = "paging"
    /\ \E seen \in Readings, last \in range[c] :
          LET P == {e \in Ahead(c, seen) : e.key <= last} IN
          /\ last \in KeysOf(P)
          /\ limit[c] = 0 \/ Cardinality(P) <= limit[c]
          /\ Listed(c, P)
          /\ start' = [start EXCEPT ![c] = last]
          /\ step' = [step EXCEPT ![c] =
                        IF Full(c, count[c] + Cardinality(P)) THEN "answer" ELSE @]
    /\ UNCHANGED <<data, call, range, limit, batch, calm, begun, writes, faults>>

Deletions(P) == {[key |-> k, item |-> NoItem] : k \in KeysOf(P)}

InOrder(s) == \A i, j \in 1..Len(s) : i < j => s[i].key < s[j].key

(* The last page; delete_all_by_pk goes on to delete the keys listed.      *)
LastPage(c) ==
    /\ step[c] = "paging"
    /\ \E seen \in Readings :
          LET P == Ahead(c, seen) IN
          /\ limit[c] = 0 \/ Cardinality(P) < limit[c]
          /\ Listed(c, P)
          /\ IF call[c] = "query" \/ got[c] \cup P = {}
             THEN /\ step' = [step EXCEPT ![c] = "answer"]
                  /\ UNCHANGED <<asked, reqs>>
             ELSE LET D == Deletions(got[c] \cup P) IN
                  /\ step' = [step EXCEPT ![c] = "sending"]
                  /\ asked' = [asked EXCEPT ![c] = D]
                  /\ \E s \in SetToSeqs(D) :
                        InOrder(s) /\ reqs' = [reqs EXCEPT ![c] = s]
    /\ UNCHANGED <<data, call, range, limit, start, buffer, failed, calm,
                   begun, writes, faults>>
-----------------------------------------------------------------------------
(* The batch writer of boto3.                                              *)

BatchWrite(c) ==
    /\ \E b \in Batches :
          /\ Begin(c, "batch_write", IF b = <<>> THEN "answer" ELSE "sending")
          /\ reqs' = [reqs EXCEPT ![c] = b]
          /\ asked' = [asked EXCEPT ![c] = {b[i] : i \in 1..Len(b)}]
    /\ UNCHANGED <<query, buffer, failed>>

Least(a, b) == IF a < b THEN a ELSE b

(* Requests are handed over until a batch is full, at least one if there   *)
(* is one; the rest is flushed when the writer is closed.                  *)
Handed(c) ==
    Least(Len(reqs[c]), IF Len(buffer[c]) < BatchSize
                        THEN BatchSize - Len(buffer[c]) ELSE 1)

Held(c) == buffer[c] \o SubSeq(reqs[c], 1, Handed(c))

Sent(c) == SubSeq(Held(c), 1, Least(BatchSize, Len(Held(c))))

Behind(c) == SubSeq(Held(c), Len(Sent(c)) + 1, Len(Held(c)))

(* The service takes no request with a key twice.                          *)
Acceptable(s) == \A i, j \in 1..Len(s) : s[i].key = s[j].key => i = j

(* What remains of the batch of c after a flush.                           *)
Remains(c, b, r) ==
    /\ buffer' = [buffer EXCEPT ![c] = b]
    /\ reqs' = [reqs EXCEPT ![c] = r]
    /\ step' = [step EXCEPT ![c] = IF b = <<>> /\ r = <<>> THEN "answer" ELSE @]

(* Mistake: what the service left unprocessed is not sent again.           *)
FlushOnce(c) ==
    /\ step[c] = "sending" /\ Acceptable(Sent(c))
    /\ \E done \in (SUBSET (1..Len(Sent(c)))) \ {{}} :
          Change({c}, [k \in Keys |->
              IF \E i \in done : Sent(c)[i].key = k
              THEN Sent(c)[CHOOSE i \in done : Sent(c)[i].key = k].item
              ELSE table[k]])
    /\ Remains(c, Behind(c), SubSeq(reqs[c], Handed(c) + 1, Len(reqs[c])))
    /\ UNCHANGED <<replica, call, query, asked, failed, begun, writes, faults>>

(* The service processes some requests of a batch, at least one, one by    *)
(* one: what others see between two of them they also see when the second  *)
(* is left unprocessed.  What is unprocessed goes to the end of the buffer.*)
Flush(c) ==
    /\ step[c] = "sending" /\ Acceptable(Sent(c))
    /\ \E done \in (SUBSET (1..Len(Sent(c)))) \ {{}} :
          /\ Change({c}, [k \in Keys |->
                 IF \E i \in done : Sent(c)[i].key = k
                 THEN Sent(c)[CHOOSE i \in done : Sent(c)[i].key = k].item
                 ELSE table[k]])
          /\ \E left \in SetToSeqs({Sent(c)[i] : i \in (1..Len(Sent(c))) \ done}) :
                Remains(c, Behind(c) \o left,
                        SubSeq(reqs[c], Handed(c) + 1, Len(reqs[c])))
    /\ UNCHANGED <<replica, call, query, asked, failed, begun, writes, faults>>

(* Mistake: a refused batch is kept and sent again.                        *)
FlushFailsAgain(c) ==
    /\ step[c] = "sending"
    /\ IF Acceptable(Sent(c)) THEN Fault ELSE UNCHANGED faults
    /\ failed' = [failed EXCEPT ![c] = TRUE]
    /\ Remains(c, Held(c), SubSeq(reqs[c], Handed(c) + 1, Len(reqs[c])))
    /\ UNCHANGED <<data, call, query, asked, calm, begun, writes>>

(* The batch is refused for a key twice, or throttled as a whole.  The     *)
(* exception drops it and what was not handed over; closing the writer     *)
(* still flushes what it holds, unless it was being closed already.        *)
FlushFails(c) ==
    /\ step[c] = "sending"
    /\ IF Acceptable(Sent(c)) THEN Fault ELSE UNCHANGED faults
    /\ failed' = [failed EXCEPT ![c] = TRUE]
    /\ Remains(c, IF reqs[c] = <<>> THEN <<>> ELSE Behind(c), <<>>)
    /\ UNCHANGED <<data, call, query, asked, calm, begun, writes>>
-----------------------------------------------------------------------------
(* The call is over and what it kept is gone.                              *)
Forget(c) ==
    /\ call' = [call EXCEPT ![c] = "none"]
    /\ step' = [step EXCEPT ![c] = "idle"]
    /\ range' = [range EXCEPT ![c] = {}]
    /\ limit' = [limit EXCEPT ![c] = 0]
    /\ start' = [start EXCEPT ![c] = 0]
    /\ got' = [got EXCEPT ![c] = {}]
    /\ count' = [count EXCEPT ![c] = 0]
    /\ asked' = [asked EXCEPT ![c] = {}]
    /\ reqs' = [reqs EXCEPT ![c] = <<>>]
    /\ buffer' = [buffer EXCEPT ![c] = <<>>]
    /\ failed' = [failed EXCEPT ![c] = FALSE]
    /\ calm' = [calm EXCEPT ![c] = [k \in Keys |-> Touched]]

Return(c) ==
    /\ step[c] = "answer"
    /\ Forget(c)
    /\ UNCHANGED <<data, begun, writes, faults>>

(* The client's process dies; its semaphores stay until their ttl passes.  *)
Crash(c) ==
    /\ Fault
    /\ step[c] # "idle" \/ \E k \in Keys : <<c, k>> \in claims
    /\ Forget(c)
    /\ claims' = {x \in claims : x[1] # c}
    /\ UNCHANGED <<table, replica, begun, writes>>

(* A call that is under way goes on.                                       *)
Proceed(c) ==
    \/ NextPage(c) \/ LastPage(c)
    \/ Flush(c) \/ FlushFails(c)
    \/ Return(c)

Next ==
    \/ \E c \in Clients :
          \/ PutItem(c) \/ DeleteItem(c) \/ UpdateItem(c)
          \/ ConditionalPut(c) \/ ConditionalPutLost(c) \/ Crash(c)
    \/ \E c \in Callers :
          \/ Query(c) \/ DeleteAllByPk(c) \/ BatchWrite(c) \/ Proceed(c)
    \/ \E k \in Keys : Expire(k) \/ Replicate(k)

(* A client waits for nothing but the service's answers.                   *)
Spec == Init /\ [][Next]_vars /\ \A c \in Callers : WF_vars(Proceed(c))
-----------------------------------------------------------------------------
Entries == [key : Keys, item : Items]

TypeOK ==
    /\ table \in [Keys -> MaybeItem]
    /\ replica \in [Keys -> MaybeItem]
    /\ call \in [Clients -> Calls]
    /\ step \in [Clients -> Steps]
    /\ range \in [Clients -> Ranges \cup {{}}]
    /\ limit \in [Clients -> Limits]
    /\ start \in [Clients -> Keys \cup {0}]
    /\ got \in [Clients -> SUBSET Entries]
    /\ count \in [Clients -> Nat]
    /\ asked \in [Clients -> SUBSET Requests]
    /\ reqs \in [Clients -> Seq(Requests)]
    /\ buffer \in [Clients -> Seq(Requests)]
    /\ failed \in [Clients -> BOOLEAN]
    /\ claims \subseteq Clients \X Keys
    /\ calm \in [Clients -> [Keys -> MaybeItem \cup {Touched}]]
    /\ begun \in 0..MaxCalls
    /\ writes \in 0..MaxWrites
    /\ faults \in 0..MaxFaults

(* What query answers, whatever others write between its pages and however *)
(* far a replica lags: every item that stayed as it was from the beginning *)
(* of the call is listed once and as it was, and a key that was free all   *)
(* along is not listed.  Of a query that was cut short by its limit this   *)
(* holds up to the last key it has.                                        *)
QuerySeesStable ==
    \A c \in Clients : (call[c] = "query" /\ step[c] = "answer") =>
        LET short == limit[c] # 0 /\ count[c] >= limit[c]
            reached == {k \in range[c] : short => k <= start[c]}
        IN
        /\ count[c] = Cardinality(KeysOf(got[c]))
        /\ \A k \in reached : calm[c][k] # Touched =>
              {e.item : e \in {f \in got[c] : f.key = k}} = {calm[c][k]} \ {NoItem}

(* What the batch of c is to leave under k: of several items given for k   *)
(* any one, as the requests of a batch have no order.                      *)
Wanted(c, k) ==
    IF call[c] = "delete_all_by_pk" THEN {NoItem}
    ELSE {q.item : q \in {r \in asked[c] : r.key = k}}

(* A batch_write that returns has written every key it was given, and      *)
(* delete_all_by_pk ("Remove todos os itens de uma partition key") leaves  *)
(* no item that was there when it began, over pages, full batches and      *)
(* unprocessed requests.  Only a key that somebody else wrote to after the *)
(* call began, or whose replica lagged when it began, may have anything    *)
(* else: a listing that lags does not show an item just written.           *)
BatchLands ==
    \A c \in Clients :
        (call[c] \in {"batch_write", "delete_all_by_pk"}
           /\ step[c] = "answer" /\ ~failed[c]) =>
            \A k \in Keys : (calm[c][k] # Touched /\ Wanted(c, k) # {}) =>
                table[k] \in Wanted(c, k)

(* "locks otimistas (ex: semaforo de API keys)": nobody is told True for a *)
(* key while another, who was told True, has neither released it nor lost  *)
(* it to its ttl or to a delete, however stale the reads.                  *)
SemaphoreExclusive ==
    \A x, y \in claims : x[2] = y[2] => x = y

(* Every call returns, although others may add items to the pages to come  *)
(* and the service may leave requests unprocessed time and again.          *)
EveryCallEnds == \A c \in Callers : step[c] # "idle" ~> step[c] = "idle"
=============================================================================
