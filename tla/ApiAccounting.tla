---------------------------- MODULE ApiAccounting ----------------------------
(***************************************************************************)
(* From logged calls to the consumption views (app_logs_pipeline.py),      *)
(* composed with the client that logs them.                                *)
(*                                                                         *)
(* Fluent Bit delivers lines to S3, at least once and in any order.  An    *)
(* update of the pipeline runs each flow after those it reads: the bronze  *)
(* table, the two silver tables, the two gold views.  A flow that fails    *)
(* commits nothing, and those that read it do not run.  What an update     *)
(* writes depends on what the bronze table found, so it is one step.       *)
(***************************************************************************)
EXTENDS EtherscanClient, Bags

CONSTANTS
    Loggers,         \* values of the field logger
    StreamingNames,  \* streaming_logger_names
    BatchNames,      \* batch_logger_names
    ClientLogger,    \* the logger of the Etherscan clients
    CaptureLogger,   \* the logger of the capture program, which is external
    Captured,        \* bound: lines that the capture program logs
    MaxCopies        \* bound: deliveries of one line

(* A logger in both lists would have its lines in both silver tables.      *)
ASSUME LoggersAssumption ==
    /\ StreamingNames \subseteq Loggers /\ BatchNames \subseteq Loggers
    /\ StreamingNames \cap BatchNames = {}
    /\ ClientLogger \in Loggers /\ CaptureLogger \in Loggers
    /\ Captured \subseteq [kind : {"web3", "garbled"}, key : Names,
                           status : {"ok", "ERROR"}]
    /\ MaxCopies \in Nat \ {0}

Silver == {"logs_streaming", "logs_batch"}
Views == {"etherscan_consumption", "web3_keys_consumption"}
Flows == {"b_app_logs_data"} \cup Silver \cup Views

VARIABLES
    landed,  \* copies of lines on S3, <<number of the line, copy>>
    bronze,  \* those that b_app_logs_data holds
    read,    \* [silver table -> copies of bronze its stream has read]
    silver,  \* [silver table -> bag of the copies it holds]
    view     \* [view -> bag of the copies its counts are made of]

pipeline == <<landed, bronze, read, silver, view>>
vars == <<client, pipeline>>

Line(r) == lines[r[1]]

Init ==
    /\ ClientInit
    /\ landed = {}
    /\ bronze = {}
    /\ read = [s \in Silver |-> {}]
    /\ silver = [s \in Silver |-> EmptyBag]
    /\ view = [w \in Views |-> EmptyBag]
-----------------------------------------------------------------------------
(* A line of the capture program: a call to a Web3 provider, or one that   *)
(* Fluent Bit has wrapped so that level and message are NULL.              *)
Capture ==
    /\ Len(lines) < MaxLines
    /\ \E l \in Captured : lines' = Append(lines, l)
    /\ UNCHANGED <<params, phase, listing, verified, lookup, runs, edits,
                   faults, pipeline>>

(* Fluent Bit writes a line to S3.                                         *)
Deliver(i) ==
    /\ i <= Len(lines) /\ <<i, 1>> \notin landed
    /\ landed' = landed \cup {<<i, 1>>}
    /\ UNCHANGED <<client, bronze, read, silver, view>>

(* The answer of S3 was lost and the line is written again, to another     *)
(* file.                                                                   *)
DeliverAgain(i, n) ==
    /\ Fault
    /\ <<i, n - 1>> \in landed /\ <<i, n>> \notin landed
    /\ landed' = landed \cup {<<i, n>>}
    /\ UNCHANGED <<params, phase, listing, verified, lookup, lines, runs, edits,
                   bronze, read, silver, view>>

(* The table of f and those it reads, directly or not.                     *)
Upstream(f) ==
    CASE f = "b_app_logs_data" -> {f}
      [] f \in Silver -> {f, "b_app_logs_data"}
      [] f \in Views -> {f, "b_app_logs_data"} \cup Silver

LoggerOf(l) == IF l.kind = "etherscan" THEN ClientLogger ELSE CaptureLogger

NamesOf(s) == IF s = "logs_streaming" THEN StreamingNames ELSE BatchNames

(* expect_or_drop of level and message, and the filter on the logger.      *)
Kept(s, r) == Line(r).kind # "garbled" /\ LoggerOf(Line(r)) \in NamesOf(s)

(* Mistake: a stream reads its source from the beginning.                  *)
RefinedAgain(s, B) == silver[s] (+) SetToBag({r \in B : Kept(s, r)})

(* What a silver table holds once it has read the bronze table B.          *)
Refined(s, B) == silver[s] (+) SetToBag({r \in B \ read[s] : Kept(s, r)})

KindOf(w) == IF w = "etherscan_consumption" THEN "etherscan" ELSE "web3"

(* Mistake: only the streaming logs are read.                              *)
AggregatedStreaming(w, S) ==
    LET mine == {r \in BagToSet(S["logs_streaming"]) : Line(r).kind = KindOf(w)}
    IN  [r \in mine |-> S["logs_streaming"][r]]

(* The union of the silver tables, filtered on the message.                *)
Aggregated(w, S) ==
    LET all == S["logs_streaming"] (+) S["logs_batch"]
        mine == {r \in BagToSet(all) : Line(r).kind = KindOf(w)}
    IN  [r \in mine |-> all[r]]

(* An update in which the flows in F fail.  Auto Loader reads every file   *)
(* once, a view is recomputed as a whole.                                  *)
Update(F) ==
    LET Runs(f) == F \cap Upstream(f) = {} IN
    /\ bronze' = IF Runs("b_app_logs_data") THEN landed ELSE bronze
    /\ silver' = [s \in Silver |-> IF Runs(s) THEN Refined(s, landed) ELSE silver[s]]
    /\ read' = [s \in Silver |-> IF Runs(s) THEN landed ELSE read[s]]
    /\ view' = [w \in Views |-> IF Runs(w) THEN Aggregated(w, silver') ELSE view[w]]
    /\ UNCHANGED landed

UpdateAll == Update({}) /\ UNCHANGED client

UpdateFails(f) ==
    /\ Fault
    /\ Update({f})
    /\ UNCHANGED <<params, phase, listing, verified, lookup, lines, runs, edits>>

Next ==
    \/ ClientNext /\ UNCHANGED pipeline
    \/ Capture
    \/ \E i \in 1..MaxLines :
          Deliver(i) \/ \E n \in 2..MaxCopies : DeliverAgain(i, n)
    \/ UpdateAll
    \/ \E f \in Flows : UpdateFails(f)

(* Fluent Bit delivers every line once at least; updates keep being        *)
(* triggered.                                                              *)
Fairness ==
    /\ \A i \in 1..MaxLines : WF_vars(Deliver(i))
    /\ WF_vars(UpdateAll)

Spec == Init /\ [][Next]_vars /\ Fairness
-----------------------------------------------------------------------------
Copies == (1..MaxLines) \X (1..MaxCopies)

TypeOK ==
    /\ ClientTypeOK
    /\ landed \subseteq Copies
    /\ bronze \subseteq landed
    /\ read \in [Silver -> SUBSET bronze]
    /\ \A s \in Silver : IsABag(silver[s]) /\ BagToSet(silver[s]) \subseteq bronze
    /\ \A w \in Views : IsABag(view[w]) /\ BagToSet(view[w]) \subseteq bronze

(* The columns calls_total, calls_ok_total and calls_error_total of a key: *)
(* rows of the view are counted one by one.                                *)
Calls(w, k) == {r \in BagToSet(view[w]) : Line(r).key = k}
CallStatusOk(r) == Line(r).status = "ok"
Counted(w, R) == Cardinality(UNION {{r} \X (1..view[w][r]) : r \in R})
CallsTotal(w, k) == Counted(w, Calls(w, k))
CallsOk(w, k) == Counted(w, {r \in Calls(w, k) : CallStatusOk(r)})

(* A call is counted once for each time its line was delivered, in one view*)
(* and under one key, whichever flows failed in between.                   *)
CountedOncePerCopy ==
    \A w \in Views, k \in Names :
        CallsTotal(w, k) <=
            Cardinality({r \in landed : Line(r).kind = KindOf(w) /\ Line(r).key = k})

(* Every call that is shipped, of a logger that is configured, is counted  *)
(* in the end under the key it was made with, whichever flows fail.        *)
CallsReachView ==
    \A i \in 1..MaxLines :
        (i <= Len(lines) /\ \E s \in Silver : Kept(s, <<i, 1>>))
        ~> (\E w \in Views, k \in Names :
               /\ i <= Len(lines) /\ lines[i].kind = KindOf(w) /\ lines[i].key = k
               /\ \E r \in Calls(w, k) : r[1] = i)

(* "contadores de requisicoes OK e com erro separados": a call that        *)
(* Etherscan or the provider answered is counted as ok.                    *)
OkCallsCountedOk ==
    \A w \in Views, k \in Names :
        CallsOk(w, k) =
            Counted(w, {r \in Calls(w, k) : Line(r).status \in {"OK", "ok"}})
=============================================================================
