------------------------- MODULE ContractsIngestion -------------------------
(***************************************************************************)
(* The contracts_ingestion Lambda (apps/lambda/contracts_ingestion):       *)
(* invocations of its handler crawl, for every contract of the DynamoDB    *)
(* CONTRACT partition, the transactions Etherscan reports for the hour    *)
(* before a moment, exec_date, and store them as one S3 object per         *)
(* contract and clock hour: the key is that of the hour in which exec_date *)
(* lies, which only the default of exec_date is sure to be the start of.   *)
(*                                                                         *)
(* An event is one asynchronous invocation request; AWS delivers it up to  *)
(* MaxAttempts times when the function raises or times out.  Deliveries of *)
(* different events may overlap.                                           *)
(***************************************************************************)
EXTENDS Integers, Sequences, FiniteSets

CONSTANTS
    Contracts,    \* contract addresses
    Events,       \* asynchronous invocation requests
    Moments,      \* clock times and exec_date values, as numbers
    PerHour,      \* moments per hour
    Histories,    \* [contract -> transactions], the chains Etherscan may hold
    Rankings,     \* the answers get_contracts may give: sequences of contracts
    AfterBlock,   \* [exec_date -> first block of the hour before it, or after]
    BeforeBlock,  \* [exec_date -> last block at or before it]
    Heads,        \* the newest blocks an answer of Etherscan may know
    Offset,       \* transactions per Etherscan page
    MaxAttempts,  \* deliveries of one event before AWS gives up
    NoDate,       \* an event without exec_date
    NoObject      \* an S3 key under which nothing is stored

Tx == [id : Nat, block : Nat]

(* replace(minute=0, second=0), and the hour=... of a key.                 *)
Truncated(t) == t - (t % PerHour)

Hours == {Truncated(t) : t \in Moments}

ASSUME ConstantsAssumption ==
    /\ Moments \subseteq Nat
    /\ PerHour \in Nat \ {0}
    /\ Hours \subseteq Moments
    /\ NoDate \notin Moments
    /\ Offset \in Nat \ {0}
    /\ MaxAttempts \in Nat \ {0}
    /\ Heads \subseteq Nat \ {0}
    /\ AfterBlock \in [Moments -> Nat]
    /\ BeforeBlock \in [Moments -> Nat \ {0}]

(* The last block at or before a moment is no later than the first one at  *)
(* or after it, nor than that of a later moment: at equality it is mined   *)
(* at that very moment.                                                    *)
ASSUME BlockTimesAssumption ==
    \A s, t \in Moments : s + PerHour <= t => BeforeBlock[s] <= AfterBlock[t]

ASSUME RankingsAssumption ==
    \A r \in Rankings : r \in Seq(Contracts)

(* sort="asc": Etherscan keeps a contract's transactions in block order.   *)
ASSUME HistoriesAssumption ==
    \A f \in Histories : \A c \in Contracts :
        /\ f[c] \in Seq(Tx)
        /\ \A i, j \in 1..Len(f[c]) : i <= j => f[c][i].block <= f[c][j].block

ASSUME NoObjectAssumption == NoObject \notin Seq(Tx)

Keys == Contracts \X Hours

VARIABLES
    now,       \* the clock, datetime.now
    txs,       \* [contract -> its transactions], fixed in a behaviour
    arg,       \* [event -> its exec_date, or NoDate]
    phase,     \* [event -> where its delivery stands]
    attempt,   \* [event -> deliveries begun]
    date,      \* [event -> exec_date of this delivery, end of its window]
    upper,     \* [event -> block_after]
    rank,      \* [event -> the list get_contracts returned]
    pos,       \* [event -> index in rank of the contract being crawled]
    cursor,    \* [event -> block_before]
    data,      \* [event -> the last page received]
    acc,       \* [event -> all_contract_data]
    objects,   \* [key -> the stored JSON list, or NoObject]
    clean,     \* history: no failure and no late answer of Etherscan has
               \* had a part in the crawl of this contract
    origin,    \* history: [key -> whether a clean crawl wrote the object]
    made,      \* history: [key -> exec_date of the delivery that wrote it]
    mishaps    \* history: "overlap" once a delivery began while another ran,
               \* "head" once head_object failed although the object exists

local == <<arg, phase, attempt, date, upper, rank, pos, cursor, data, acc,
           clean>>
stored == <<objects, origin, made>>
vars == <<now, txs, local, stored, mishaps>>

-----------------------------------------------------------------------------
(* Block limits.  They are decimal strings in the code, and the loop       *)
(* compares them as strings.                                               *)

Width(n) == 1 + Cardinality({d \in 1..8 : 10^d <= n})

Scale(d) == 10^d

(* str(a) < str(b), lexicographically, for numbers below 10^9.             *)
StrLess(a, b) ==
    IF Width(a) <= Width(b)
    THEN LET aligned == a * Scale(Width(b) - Width(a)) IN
         aligned < b \/ (aligned = b /\ Width(a) < Width(b))
    ELSE a < b * Scale(Width(a) - Width(b))

(* A mistake the properties must tell from the code (used by no action):   *)
(* the window closes at the block of exec_date.                            *)
UpperInclusive(t) == BeforeBlock[t]

Lower(t) == AfterBlock[t]
Upper(t) == BeforeBlock[t] - 1

(* An answer of Etherscan may come from an index that is behind the chain. *)
(* A block lookup then takes the newest block it knows.                    *)
HeadsNow == {b \in Heads : b <= BeforeBlock[now]}
UpperSeen(t, head) == IF head < BeforeBlock[t] THEN head - 1 ELSE Upper(t)

(* One txlist answer: the first Offset transactions of c in the blocks     *)
(* lo..hi.  An empty answer carries the message "No transactions found".   *)
Hits(c, lo, hi) ==
    {i \in 1..Len(txs[c]) : lo <= txs[c][i].block /\ txs[c][i].block <= hi}

FirstOf(S) == CHOOSE i \in S : \A j \in S : i <= j
LastOf(S) == CHOOSE i \in S : \A j \in S : j <= i

Page(c, lo, hi) ==
    LET hits == Hits(c, lo, hi)
        full == FirstOf(hits) + Offset - 1
    IN IF hits = {}
       THEN <<>>
       ELSE SubSeq(txs[c], FirstOf(hits),
                   IF full <= LastOf(hits) THEN full ELSE LastOf(hits))

Current(e) == rank[e][pos[e]]
Key(e) == <<Current(e), Truncated(date[e])>>

(* The page that the whole chain has for the request, and the one that an  *)
(* index up to block head has.                                             *)
FullPage(e) == Page(Current(e), cursor[e], upper[e])
PageOf(e, head) ==
    Page(Current(e), cursor[e], IF head < upper[e] THEN head ELSE upper[e])

Active(e) == phase[e] \in {"paging", "heading", "putting"}

-----------------------------------------------------------------------------
Init ==
    /\ now \in Moments
    /\ txs \in Histories
    /\ arg = [e \in Events |-> NoDate]
    /\ phase = [e \in Events |-> "idle"]
    /\ attempt = [e \in Events |-> 0]
    /\ date = [e \in Events |-> now]
    /\ upper = [e \in Events |-> 0]
    /\ rank = [e \in Events |-> <<>>]
    /\ pos = [e \in Events |-> 1]
    /\ cursor = [e \in Events |-> 0]
    /\ data = [e \in Events |-> <<>>]
    /\ acc = [e \in Events |-> <<>>]
    /\ clean = [e \in Events |-> TRUE]
    /\ objects = [k \in Keys |-> NoObject]
    /\ origin = [k \in Keys |-> FALSE]
    /\ made = [k \in Keys |-> k[2]]
    /\ mishaps = {}

Tick ==
    /\ now' \in {t \in Moments : now < t}
    /\ UNCHANGED <<txs, local, stored, mishaps>>

(* The scheduler (no exec_date) or an operator (exec_date t) sends event e.*)
Send(e) ==
    /\ phase[e] = "idle"
    /\ \E t \in Moments \cup {NoDate} : arg' = [arg EXCEPT ![e] = t]
    /\ phase' = [phase EXCEPT ![e] = "queued"]
    /\ UNCHANGED <<now, txs, attempt, date, upper, rank, pos, cursor, data, acc,
                   clean, stored, mishaps>>

(* Mistake: exec_date is ignored.                                          *)
ExecDateOfRun(e) == Truncated(now)

(* exec_date defaults to the start of the hour in which this delivery runs *)
(* and is taken as it is if the event has one.                             *)
ExecDate(e) == IF arg[e] = NoDate THEN Truncated(now) ELSE arg[e]

(* handler up to the first iteration of run: exec_date, the two block      *)
(* lookups of interval_config and the query of get_contracts.              *)
Start(e) ==
    /\ phase[e] = "queued"
    /\ ExecDate(e) <= now
    /\ \E r \in Rankings :
         /\ rank' = [rank EXCEPT ![e] = r]
         /\ phase' = [phase EXCEPT ![e] = IF r = <<>> THEN "done" ELSE "paging"]
    /\ \E head \in HeadsNow :
         /\ upper' = [upper EXCEPT ![e] = UpperSeen(ExecDate(e), head)]
         /\ clean' = [clean EXCEPT
                ![e] = UpperSeen(ExecDate(e), head) = Upper(ExecDate(e))]
    /\ attempt' = [attempt EXCEPT ![e] = @ + 1]
    /\ date' = [date EXCEPT ![e] = ExecDate(e)]
    /\ pos' = [pos EXCEPT ![e] = 1]
    /\ cursor' = [cursor EXCEPT ![e] = Lower(ExecDate(e))]
    /\ data' = [data EXCEPT ![e] = <<>>]
    /\ acc' = [acc EXCEPT ![e] = <<>>]
    /\ mishaps' = IF \E f \in Events : Active(f) THEN mishaps \cup {"overlap"}
                                               ELSE mishaps
    /\ UNCHANGED <<now, txs, arg, stored>>

(* Mistake: one delivery too many.                                         *)
AfterFailureLate(n) == IF n <= MaxAttempts THEN "queued" ELSE "failed"

AfterFailure(n) == IF n < MaxAttempts THEN "queued" ELSE "failed"

(* No Etherscan key in SSM, or a block lookup that is not "OK" (a moment in *)
(* the future always is not): the handler raises before it crawls.         *)
StartFails(e) ==
    /\ phase[e] = "queued"
    /\ attempt' = [attempt EXCEPT ![e] = @ + 1]
    /\ phase' = [phase EXCEPT ![e] = AfterFailure(attempt[e] + 1)]
    /\ UNCHANGED <<now, txs, arg, date, upper, rank, pos, cursor, data, acc,
                   clean, stored, mishaps>>

(* while block_before < block_after *)
InLoop(e) ==
    /\ phase[e] = "paging"
    /\ StrLess(cursor[e], upper[e])

(* Whether e's crawl is still clean after it was answered page.            *)
StillClean(e, page) == clean[e] /\ page = FullPage(e)

(* Mistake: paging continues after the last block seen.                    *)
NextPageAfter(e) ==
    /\ InLoop(e)
    /\ \E head \in HeadsNow : LET page == PageOf(e, head) IN
         /\ page \notin {<<>>, data[e]}
         /\ data' = [data EXCEPT ![e] = page]
         /\ acc' = [acc EXCEPT ![e] = @ \o page]
         /\ cursor' = [cursor EXCEPT ![e] = page[Len(page)].block + 1]
         /\ clean' = [clean EXCEPT ![e] = StillClean(e, page)]
    /\ UNCHANGED <<now, txs, arg, phase, attempt, date, upper, rank, pos,
                   stored, mishaps>>

(* A page that is neither empty nor the previous one is collected.         *)
NextPage(e) ==
    /\ InLoop(e)
    /\ \E head \in HeadsNow : LET page == PageOf(e, head) IN
         /\ page \notin {<<>>, data[e]}
         /\ data' = [data EXCEPT ![e] = page]
         /\ acc' = [acc EXCEPT ![e] = @ \o page]
         /\ cursor' = [cursor EXCEPT ![e] = page[Len(page)].block]
         /\ clean' = [clean EXCEPT ![e] = StillClean(e, page)]
    /\ UNCHANGED <<now, txs, arg, phase, attempt, date, upper, rank, pos,
                   stored, mishaps>>

(* The block limits have met.                                              *)
LimitsMet(e) == phase[e] = "paging" /\ ~InLoop(e) /\ UNCHANGED clean

(* Mistake: only an empty page ends the crawl.                             *)
EndOfPagesEmpty(e) ==
    /\ \/ LimitsMet(e)
       \/ /\ InLoop(e)
          /\ \E head \in HeadsNow :
               /\ PageOf(e, head) = <<>>
               /\ clean' = [clean EXCEPT ![e] = StillClean(e, PageOf(e, head))]
    /\ phase' = [phase EXCEPT ![e] = "heading"]
    /\ UNCHANGED <<now, txs, arg, attempt, date, upper, rank, pos, cursor, data,
                   acc, stored, mishaps>>

(* The generator ends: limits met, empty answer, or the same page again.   *)
EndOfPages(e) ==
    /\ \/ LimitsMet(e)
       \/ /\ InLoop(e)
          /\ \E head \in HeadsNow :
               /\ PageOf(e, head) \in {<<>>, data[e]}
               /\ clean' = [clean EXCEPT ![e] = StillClean(e, PageOf(e, head))]
    /\ phase' = [phase EXCEPT ![e] = "heading"]
    /\ UNCHANGED <<now, txs, arg, attempt, date, upper, rank, pos, cursor, data,
                   acc, stored, mishaps>>

(* A network error or NOTOK answer ends the generator just the same.       *)
ApiError(e) ==
    /\ InLoop(e)
    /\ phase' = [phase EXCEPT ![e] = "heading"]
    /\ clean' = [clean EXCEPT ![e] = FALSE]
    /\ UNCHANGED <<now, txs, arg, attempt, date, upper, rank, pos, cursor, data,
                   acc, stored, mishaps>>

(* Mistake: the list of transactions is not emptied between contracts.     *)
NextContractDirty(e) ==
    /\ pos' = [pos EXCEPT ![e] = @ + 1]
    /\ phase' = [phase EXCEPT ![e] = IF pos[e] < Len(rank[e]) THEN "paging"
                                                             ELSE "done"]
    /\ cursor' = [cursor EXCEPT ![e] = Lower(date[e])]
    /\ data' = [data EXCEPT ![e] = <<>>]
    /\ clean' = [clean EXCEPT ![e] = upper[e] = Upper(date[e])]
    /\ UNCHANGED <<now, txs, arg, attempt, date, upper, rank, acc>>

(* The next iteration of run's loop over the contracts, or its end.        *)
NextContract(e) ==
    /\ pos' = [pos EXCEPT ![e] = @ + 1]
    /\ phase' = [phase EXCEPT ![e] = IF pos[e] < Len(rank[e]) THEN "paging"
                                                             ELSE "done"]
    /\ cursor' = [cursor EXCEPT ![e] = Lower(date[e])]
    /\ data' = [data EXCEPT ![e] = <<>>]
    /\ acc' = [acc EXCEPT ![e] = <<>>]
    /\ clean' = [clean EXCEPT ![e] = upper[e] = Upper(date[e])]
    /\ UNCHANGED <<now, txs, arg, attempt, date, upper, rank>>

(* Mistakes: the answer of the existence check does not matter.            *)
HeadFoundAnyway(e) ==
    /\ phase[e] = "heading"
    /\ NextContract(e)
    /\ UNCHANGED <<stored, mishaps>>

HeadMissingAnyway(e) ==
    /\ phase[e] = "heading"
    /\ phase' = [phase EXCEPT ![e] = "putting"]
    /\ UNCHANGED <<now, txs, arg, attempt, date, upper, rank, pos, cursor, data,
                   acc, clean, stored, mishaps>>

(* _check_file_exists answers True: skip.                                  *)
HeadFound(e) ==
    /\ phase[e] = "heading"
    /\ objects[Key(e)] # NoObject
    /\ NextContract(e)
    /\ UNCHANGED <<stored, mishaps>>

(* It answers False: the object is missing, or head_object raised anything.*)
HeadMissing(e) ==
    /\ phase[e] = "heading"
    /\ phase' = [phase EXCEPT ![e] = "putting"]
    /\ mishaps' = IF objects[Key(e)] = NoObject THEN mishaps
                                                ELSE mishaps \cup {"head"}
    /\ UNCHANGED <<now, txs, arg, attempt, date, upper, rank, pos, cursor, data,
                   acc, clean, stored>>

Put(e) ==
    /\ phase[e] = "putting"
    /\ objects' = [objects EXCEPT ![Key(e)] = acc[e]]
    /\ origin' = [origin EXCEPT ![Key(e)] = clean[e]]
    /\ made' = [made EXCEPT ![Key(e)] = date[e]]
    /\ NextContract(e)
    /\ UNCHANGED mishaps

(* The 300 s timeout, or an exception of put_object.                       *)
Crash(e) ==
    /\ Active(e)
    /\ phase' = [phase EXCEPT ![e] = AfterFailure(attempt[e])]
    /\ UNCHANGED <<now, txs, arg, attempt, date, upper, rank, pos, cursor, data,
                   acc, clean, stored, mishaps>>

(* What a delivery does by itself when nothing outside fails.              *)
Advance(e) ==
    \/ Start(e)
    \/ ExecDate(e) > now /\ StartFails(e)
    \/ NextPage(e)
    \/ EndOfPages(e)
    \/ HeadFound(e)
    \/ HeadMissing(e)
    \/ Put(e)

Fault(e) == StartFails(e) \/ ApiError(e) \/ Crash(e)

Next ==
    \/ Tick
    \/ \E e \in Events : Send(e) \/ Advance(e) \/ Fault(e)

(* Lambda delivers what is queued and runs what it has started; no failure *)
(* is ever owed.                                                           *)
Fairness == \A e \in Events : WF_vars(Advance(e))

Spec == Init /\ [][Next]_vars /\ Fairness
-----------------------------------------------------------------------------
Phases == {"idle", "queued", "paging", "heading", "putting", "done", "failed"}

TypeOK ==
    /\ now \in Moments
    /\ txs \in Histories
    /\ arg \in [Events -> Moments \cup {NoDate}]
    /\ phase \in [Events -> Phases]
    /\ attempt \in [Events -> 0..MaxAttempts]
    /\ date \in [Events -> Moments]
    /\ upper \in [Events -> Nat]
    /\ rank \in [Events -> Seq(Contracts)]
    /\ pos \in [Events -> Nat \ {0}]
    /\ cursor \in [Events -> Nat]
    /\ data \in [Events -> Seq(Tx)]
    /\ acc \in [Events -> Seq(Tx)]
    /\ clean \in [Events -> BOOLEAN]
    /\ objects \in [Keys -> Seq(Tx) \cup {NoObject}]
    /\ origin \in [Keys -> BOOLEAN]
    /\ made \in [Keys -> Moments]
    /\ mishaps \subseteq {"overlap", "head"}

(* A running delivery is at a contract of its list and within its window,  *)
(* all of which it asks for if its crawl is clean; one still owed to its   *)
(* event has a delivery left.                                              *)
DeliveryOK ==
    \A e \in Events :
        /\ Active(e) => /\ pos[e] \in 1..Len(rank[e])
                       /\ Lower(date[e]) <= cursor[e]
                       /\ upper[e] <= Upper(date[e])
                       /\ (clean[e] => upper[e] = Upper(date[e]))
        /\ phase[e] = "idle" => attempt[e] = 0
        /\ phase[e] = "queued" => attempt[e] < MaxAttempts

(* The transactions the window of exec_date t asks for.                    *)
Window(c, t) == {txs[c][i] : i \in Hits(c, Lower(t), Upper(t))}

Content(s) == {s[i] : i \in DOMAIN s}

(* What a contract's crawl has collected belongs to that contract and to   *)
(* the window of the delivery; a stored object belongs to the contract of  *)
(* its key and to one window that ends in the hour of its key: no list,    *)
(* key or cursor survives from the previous contract or attempt.           *)
ContentSound ==
    /\ \A e \in Events : Active(e) =>
         Content(acc[e]) \subseteq Window(Current(e), date[e])
    /\ \A c \in Contracts, h \in Hours : objects[<<c, h>>] # NoObject =>
         /\ Truncated(made[<<c, h>>]) = h
         /\ Content(objects[<<c, h>>]) \subseteq Window(c, made[<<c, h>>])

(* No transaction is stored twice by deliveries whose exec_dates are an    *)
(* hour or more apart, as those of different whole hours are, although     *)
(* consecutive windows share the block mined exactly at the hour.  Of      *)
(* exec_dates that are closer, such as 10:30 and 11:00, the windows        *)
(* overlap and the keys differ: what they share is stored under both.      *)
HoursDisjoint ==
    \A c \in Contracts, g, h \in Hours :
        (/\ objects[<<c, g>>] # NoObject /\ objects[<<c, h>>] # NoObject
         /\ made[<<c, g>>] + PerHour <= made[<<c, h>>])
        => Content(objects[<<c, g>>]) \cap Content(objects[<<c, h>>]) = {}

(* Number of transactions of c in block b.                                 *)
InBlock(c, b) == Cardinality({i \in 1..Len(txs[c]) : txs[c][i].block = b})

(* Why a clean crawl may still lose transaction x of its window: the       *)
(* window's last block is never asked for again once the cursor reaches    *)
(* it; a block that fills a page repeats that page; and a limit that       *)
(* compares as text ends the loop early.                                   *)
LossExplained(c, t, x) ==
    \/ x.block = Upper(t)
    \/ \E b \in Lower(t)..x.block :
         \/ InBlock(c, b) >= Offset
         \/ ~StrLess(b, Upper(t))

(* An object written by a clean crawl lacks a transaction of its window    *)
(* only for one of the reasons above: paging itself loses nothing else.    *)
CleanMeansWhole ==
    \A c \in Contracts, h \in Hours :
        (objects[<<c, h>>] # NoObject /\ origin[<<c, h>>]) =>
        \A x \in Window(c, made[<<c, h>>]) \ Content(objects[<<c, h>>]) :
            LossExplained(c, made[<<c, h>>], x)

(* A delivery that reports 200 has left an object for every contract it    *)
(* listed under the hour of its exec_date, whichever of them it wrote and  *)
(* whichever it found.  What it found may be of another window that ends   *)
(* in that hour.                                                           *)
DoneMeansIngested ==
    \A e \in Events : phase[e] = "done" =>
        \A i \in 1..Len(rank[e]) :
            objects[<<rank[e][i], Truncated(date[e])>>] # NoObject

(* "write_to_s3's whole contract is never overwrite an already-ingested    *)
(* hour" (its test): so it does, crashes and retries included, until two   *)
(* deliveries overlap or the existence check fails on an existing object.  *)
OverwriteNeedsMishap ==
    [][\A k \in Keys :
         (objects[k] # NoObject /\ mishaps = {}) => objects'[k] = objects[k]]_vars

(* When an object replaces another one of the same exec_date and the crawl *)
(* of neither met a failure or a late answer of Etherscan, they are the    *)
(* same: when, how often and beside whom a crawl runs has no part in what  *)
(* it collects.                                                            *)
CleanCrawlsAgree ==
    [][\A k \in Keys :
         (/\ objects[k] # NoObject /\ origin[k] /\ origin'[k]
          /\ made'[k] = made[k])
         => objects'[k] = objects[k]]_vars

(* Every event sent is eventually done or given up: the paging loop, which *)
(* restarts at the block where the last page ended, terminates, whatever   *)
(* part of the chain each of its answers knows.                            *)
EveryEventEnds ==
    \A e \in Events : phase[e] = "queued" ~> phase[e] \in {"done", "failed"}

(* An event sent with an exec_date ends, however its deliveries fail, with *)
(* every contract it listed stored under the hour of that exec_date, or is *)
(* given up: no retry drifts to the hour in which it happens to run.       *)
PinnedHourIngested ==
    \A e \in Events, t \in Moments :
        (phase[e] = "queued" /\ arg[e] = t)
        ~> \/ phase[e] = "failed"
           \/ /\ phase[e] = "done"
              /\ \A i \in 1..Len(rank[e]) :
                     objects[<<rank[e][i], Truncated(t)>>] # NoObject
=============================================================================
