----------------------------- MODULE GoldExport -----------------------------
(***************************************************************************)
(* The chain that serves API key consumption from DynamoDB: the job        *)
(* export_gold writes the two gold views as one JSON part file under       *)
(* exports/gold_api_keys, replacing the previous one; S3 notifies the      *)
(* gold_to_dynamodb Lambda of the new object; the Lambda reads the object  *)
(* and puts one item per row.                                              *)
(*                                                                         *)
(* Part files are numbered in the order they are written.  A slot is one   *)
(* S3 notification and its up to MaxAttempts deliveries; S3 may notify     *)
(* more than once, and nothing keeps deliveries from overlapping;          *)
(* overlapped remembers that two did.                                      *)
(***************************************************************************)
EXTENDS Integers, Sequences

CONSTANTS
    Sources,      \* the gold views: etherscan and web3
    Rows,         \* sort keys {source}#{api_key_name}
    SourceOf,     \* [Rows -> Sources]
    MaxVersion,   \* bound: refreshes of a gold view
    Present,      \* [version -> the rows a view of that version holds]
    MaxFiles,     \* bound: exports that write
    Slots,        \* bound: notifications S3 sends
    MaxAttempts   \* deliveries of one notification before AWS gives up

Versions == 0..MaxVersion

ASSUME GoldAssumption ==
    /\ MaxVersion \in Nat
    /\ MaxFiles \in Nat
    /\ MaxAttempts \in Nat \ {0}
    /\ SourceOf \in [Rows -> Sources]
    /\ Present \in [Versions -> SUBSET Rows]

VARIABLES
    gold,      \* [source -> version of its view]
    job,       \* where the export run stands (max_concurrent_runs is 1)
    base,      \* [source -> version of its view when the run began]
    files,     \* history: the part files written, [source -> version] each
    parts,     \* numbers of the part files the export prefix holds
    file,      \* [slot -> number of the part file it is about, or 0]
    phase,     \* [slot -> where its delivery stands]
    attempt,   \* [slot -> deliveries begun]
    todo,      \* [slot -> rows read and not yet put]
    seen,      \* history: [slot -> files written when it read its object]
    table,     \* [row -> number of the file its item comes from, or 0]
    overlapped \* history: a delivery has begun while another was running

exporter == <<job, base, files, parts>>
vars == <<gold, exporter, file, phase, attempt, todo, seen, table, overlapped>>

RowsOf(n) == {r \in Rows : r \in Present[files[n][SourceOf[r]]]}
VersionAt(n, r) == files[n][SourceOf[r]]

-----------------------------------------------------------------------------
Init ==
    /\ gold = [s \in Sources |-> 0]
    /\ job = "idle"
    /\ base = [s \in Sources |-> 0]
    /\ files = <<>>
    /\ parts = {}
    /\ file = [d \in Slots |-> 0]
    /\ phase = [d \in Slots |-> "idle"]
    /\ attempt = [d \in Slots |-> 0]
    /\ todo = [d \in Slots |-> {}]
    /\ seen = [d \in Slots |-> 0]
    /\ table = [r \in Rows |-> 0]
    /\ overlapped = FALSE

(* A pipeline update commits a view; each view commits on its own.         *)
Refresh(s) ==
    /\ gold[s] < MaxVersion
    /\ gold' = [gold EXCEPT ![s] = @ + 1]
    /\ UNCHANGED <<exporter, file, phase, attempt, todo, seen, table, overlapped>>

ExportStart ==
    /\ job = "idle"
    /\ Len(files) < MaxFiles
    /\ job' = "running"
    /\ base' = gold
    /\ UNCHANGED <<gold, files, parts, file, phase, attempt, todo, seen, table,
                   overlapped>>

(* mode("overwrite") empties the prefix before it writes.                  *)
ExportDelete ==
    /\ job = "running"
    /\ job' = "deleted"
    /\ parts' = {}
    /\ UNCHANGED <<gold, base, files, file, phase, attempt, todo, seen, table,
                   overlapped>>

(* Slot d becomes a notification for file n.                               *)
Notify(d, n) ==
    /\ phase[d] = "idle"
    /\ file' = [file EXCEPT ![d] = n]
    /\ phase' = [phase EXCEPT ![d] = "queued"]

(* Mistake: the views are read again from their beginning.                 *)
ReadableStale == {v \in [Sources -> Versions] :
                     \A s \in Sources : v[s] <= gold[s]}

(* What the run may have read: of each view, a version it had at some time *)
(* since the run began.                                                    *)
Readable == {v \in [Sources -> Versions] :
                \A s \in Sources : base[s] <= v[s] /\ v[s] <= gold[s]}

(* coalesce(1): one part file with a name of its own, and its event.       *)
ExportWrite ==
    /\ job = "deleted"
    /\ \E v \in Readable : files' = Append(files, v)
    /\ \E d \in Slots : Notify(d, Len(files) + 1)
    /\ parts' = parts \cup {Len(files) + 1}
    /\ job' = "idle"
    /\ UNCHANGED <<gold, base, attempt, todo, seen, table, overlapped>>

(* The run fails; it is not retried, and what it deleted stays deleted.    *)
ExportFails ==
    /\ job # "idle"
    /\ job' = "idle"
    /\ UNCHANGED <<gold, base, files, parts, file, phase, attempt, todo, seen,
                   table, overlapped>>

(* S3 delivers an event of a file a second time, however late.             *)
NotifyAgain(d) ==
    /\ \E n \in 1..Len(files) : Notify(d, n)
    /\ UNCHANGED <<gold, exporter, attempt, todo, seen, table, overlapped>>

Running(d) == phase[d] = "writing"

(* Whether the delivery that begins overlaps another one.                  *)
Overlaps == overlapped \/ \E o \in Slots : Running(o)

(* get_object and the parsing of the lines; a file without rows is done.   *)
Begin(d) ==
    /\ phase[d] = "queued"
    /\ file[d] \in parts
    /\ todo' = [todo EXCEPT ![d] = RowsOf(file[d])]
    /\ phase' = [phase EXCEPT ![d] = IF RowsOf(file[d]) = {} THEN "done"
                                                            ELSE "writing"]
    /\ attempt' = [attempt EXCEPT ![d] = @ + 1]
    /\ seen' = [seen EXCEPT ![d] = Len(files)]
    /\ overlapped' = Overlaps
    /\ UNCHANGED <<gold, exporter, file, table>>

(* Mistake: one delivery too many.                                         *)
AfterFailureLate(n) == IF n <= MaxAttempts THEN "queued" ELSE "failed"

AfterFailure(n) == IF n < MaxAttempts THEN "queued" ELSE "failed"

(* get_object raises: an overwrite has removed the object, or S3 failed.   *)
BeginFails(d) ==
    /\ phase[d] = "queued"
    /\ attempt' = [attempt EXCEPT ![d] = @ + 1]
    /\ phase' = [phase EXCEPT ![d] = AfterFailure(attempt[d] + 1)]
    /\ UNCHANGED <<gold, exporter, file, todo, seen, table, overlapped>>

(* Mistake: the batch is dropped once its first item is put.               *)
PutFirst(d) ==
    /\ Running(d)
    /\ \E r \in todo[d] :
         /\ table' = [table EXCEPT ![r] = file[d]]
         /\ todo' = [todo EXCEPT ![d] = {}]
         /\ phase' = [phase EXCEPT ![d] = "done"]
    /\ UNCHANGED <<gold, exporter, file, attempt, seen, overlapped>>

(* The items of a batch are put one by one, in no particular order.        *)
Put(d) ==
    /\ Running(d)
    /\ \E r \in todo[d] :
         /\ table' = [table EXCEPT ![r] = file[d]]
         /\ todo' = [todo EXCEPT ![d] = @ \ {r}]
         /\ phase' = [phase EXCEPT ![d] = IF todo[d] = {r} THEN "done"
                                                          ELSE "writing"]
    /\ UNCHANGED <<gold, exporter, file, attempt, seen, overlapped>>

(* A batch raises or the Lambda times out, some rows put and some not.     *)
Crash(d) ==
    /\ Running(d)
    /\ phase' = [phase EXCEPT ![d] = AfterFailure(attempt[d])]
    /\ todo' = [todo EXCEPT ![d] = {}]
    /\ UNCHANGED <<gold, exporter, file, attempt, seen, table, overlapped>>

(* What a delivery does by itself when nothing outside fails.              *)
Advance(d) ==
    \/ Begin(d)
    \/ file[d] \notin parts /\ BeginFails(d)
    \/ Put(d)

Export == ExportStart \/ ExportDelete \/ ExportWrite \/ ExportFails

Next ==
    \/ \E s \in Sources : Refresh(s)
    \/ Export
    \/ \E d \in Slots : NotifyAgain(d) \/ Advance(d) \/ BeginFails(d) \/ Crash(d)

(* Lambda delivers what is queued and runs what it has begun.              *)
Fairness == \A d \in Slots : WF_vars(Advance(d))

Spec == Init /\ [][Next]_vars /\ Fairness
-----------------------------------------------------------------------------
TypeOK ==
    /\ gold \in [Sources -> Versions]
    /\ job \in {"idle", "running", "deleted"}
    /\ base \in [Sources -> Versions]
    /\ files \in Seq([Sources -> Versions])
    /\ parts \subseteq 1..Len(files)
    /\ file \in [Slots -> 0..Len(files)]
    /\ phase \in [Slots -> {"idle", "queued", "writing", "done", "failed"}]
    /\ attempt \in [Slots -> 0..MaxAttempts]
    /\ todo \in [Slots -> SUBSET Rows]
    /\ seen \in [Slots -> 0..Len(files)]
    /\ table \in [Rows -> 0..Len(files)]
    /\ overlapped \in BOOLEAN

(* The prefix never holds two part files: a consumer that lists it instead *)
(* of waiting for events meets one export at a time, and never two mixed.  *)
OnePart == \A m, n \in parts : m = n

(* An item only goes back to an older export when its delivery had read    *)
(* that export before the newer one existed: the overwrite removes what a  *)
(* late or repeated event would read, so only overlap can serve stale rows.*)
OlderOnlyByOverlap ==
    [][\A r \in Rows : table'[r] < table[r] =>
         \E d \in Slots : Running(d) /\ seen[d] < table[r]]_vars

(* Until two deliveries overlap no item ever goes back to an older version *)
(* of its view, whatever is lost, repeated, retried or late.               *)
NeverOlder ==
    [][~overlapped => \A r \in Rows : table[r] # 0 =>
         /\ table'[r] # 0
         /\ VersionAt(table[r], r) <= files'[table'[r]][SourceOf[r]]]_vars

(* Until two deliveries overlap, every row of a file whose delivery is     *)
(* done is served from that file or a newer one: a partial batch is        *)
(* completed by the retry before the event counts as done.                 *)
LandedStays ==
    ~overlapped =>
    \A d \in Slots : phase[d] = "done" =>
        \A r \in RowsOf(file[d]) : file[d] <= table[r]

(* Every row of file n is served from that file or a newer one.            *)
Landed(n) == \A r \in RowsOf(n) : n <= table[r]

(* An export that no later export removes is served in the end, unless one *)
(* of its events was given up after MaxAttempts deliveries or deliveries   *)
(* overlapped.                                                             *)
ExportLands ==
    \A n \in 1..MaxFiles :
        (n \in parts) ~> \/ n \notin parts
                         \/ Landed(n)
                         \/ \E d \in Slots : file[d] = n /\ phase[d] = "failed"
                         \/ overlapped
=============================================================================
