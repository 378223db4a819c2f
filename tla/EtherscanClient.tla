--------------------------- MODULE EtherscanClient ---------------------------
(***************************************************************************)
(* EtherscanClient (dm_etherscan.py) and the ParameterStoreClient          *)
(* (dm_parameter_store.py) its key comes from.                             *)
(*                                                                         *)
(* A run lists the keys under a path, page by page, and builds a client    *)
(* with the first of them.  Every request of the client is logged with the *)
(* name of the key and how it ended.  ABIs are looked up in a cache of the *)
(* process, then in a directory that all processes of the container share, *)
(* then at Etherscan.                                                      *)
(***************************************************************************)
EXTENDS Integers, Sequences, FiniteSets

CONSTANTS
    Clients,    \* processes, each with one client at a time
    Shipped,    \* those whose log Fluent Bit ships; the Lambda's is not
    Names,      \* parameter names under the path
    NoName,
    Initially,  \* bound: the sets of parameters there may be at first
    Addresses,  \* contracts, lower-cased
    NoAddress,
    PageSize,   \* parameters on a page, 10 in SSM
    MaxRuns,    \* bound: runs begun
    MaxLines,   \* bound: lines logged and shipped
    MaxEdits,   \* bound: parameters put or deleted
    MaxFaults   \* bound: failures and crashes

ASSUME ClientAssumption ==
    /\ Shipped \subseteq Clients
    /\ NoName \notin Names /\ NoAddress \notin Addresses
    /\ IsFiniteSet(Names) /\ Initially \subseteq SUBSET Names
    /\ PageSize \in Nat \ {0}
    /\ MaxRuns \in Nat /\ MaxLines \in Nat /\ MaxEdits \in Nat /\ MaxFaults \in Nat

VARIABLES
    params,    \* names of the parameters stored
    phase,     \* [client -> how far its run is]
    listed,    \* [client -> names of the parameters listed]
    key,       \* [client -> the first of them, its _api_key_id]
    verified,  \* contracts whose source Etherscan has
    disk,      \* [address -> its file in _ABI_CACHE_DIR]
    memo,      \* [client -> [address -> what lru_cache has of _load_from_disk]]
    addr,      \* [client -> the address it looks up]
    result,    \* [client -> what get_contract_abi returns]
    lines,     \* the lines logged so far, of those that are shipped
    stayed,    \* history: [client -> names stored ever since it began to list]
    was,       \* history: [client -> its address was verified when it asked]
    erred,     \* history: [client -> the request for its ABI failed]
    runs, edits, faults

listing == <<listed, key, stayed>>
lookup == <<disk, memo, addr, result, was, erred>>
client == <<params, phase, listing, verified, lookup, lines, runs, edits, faults>>

Phases == {"none", "listing", "refused", "ready", "asking", "saving",
           "writing", "answer"}
Kinds == {"etherscan", "web3", "garbled"}
Statuses == {"OK", "NOTOK", "ERROR", "ok"}
Lines == [kind : Kinds, key : Names, status : Statuses]
-----------------------------------------------------------------------------
ClientInit ==
    /\ params \in Initially
    /\ phase = [c \in Clients |-> "none"]
    /\ listed = [c \in Clients |-> {}]
    /\ key = [c \in Clients |-> NoName]
    /\ verified \in SUBSET Addresses
    /\ disk = [a \in Addresses |-> "absent"]
    /\ memo = [c \in Clients |-> [a \in Addresses |-> "none"]]
    /\ addr = [c \in Clients |-> NoAddress]
    /\ result = [c \in Clients |-> "none"]
    /\ lines = <<>>
    /\ stayed = [c \in Clients |-> {}]
    /\ was = [c \in Clients |-> FALSE]
    /\ erred = [c \in Clients |-> FALSE]
    /\ runs = 0
    /\ edits = 0
    /\ faults = 0

Fault == faults < MaxFaults /\ faults' = faults + 1
Step(c, from, to) == phase[c] = from /\ phase' = [phase EXCEPT ![c] = to]
-----------------------------------------------------------------------------
(* ParameterStoreClient                                                    *)

Edit(P) ==
    /\ edits < MaxEdits /\ edits' = edits + 1
    /\ params' = P
    /\ stayed' = [c \in Clients |-> stayed[c] \cap P]
    /\ UNCHANGED <<phase, listed, key, verified, lookup, lines, runs, faults>>

(* Without overwrite a name that exists is refused; with it only the value *)
(* changes.                                                                *)
PutParameter(n) == n \notin params /\ Edit(params \cup {n})

DeleteParameter(n) == n \in params /\ Edit(params \ {n})

Start(c) ==
    /\ Step(c, "none", "listing")
    /\ runs < MaxRuns /\ runs' = runs + 1
    /\ stayed' = [stayed EXCEPT ![c] = params]
    /\ UNCHANGED <<params, listed, key, verified, lookup, lines, edits, faults>>

(* The names in S are on a page; the first name of all is the key.         *)
Show(c, S) ==
    /\ Cardinality(S) <= PageSize
    /\ IF key[c] = NoName /\ S # {}
       THEN \E n \in S : key' = [key EXCEPT ![c] = n]
       ELSE UNCHANGED key

Page(c) ==
    /\ phase[c] = "listing"
    /\ \E S \in (SUBSET (params \ listed[c])) \ {{}} :
          /\ Show(c, S)
          /\ listed' = [listed EXCEPT ![c] = @ \cup S]
    /\ UNCHANGED <<params, phase, stayed, verified, lookup, lines, runs,
                   edits, faults>>

(* The listing is over: next(iter(...)) of the answer is the key, and an   *)
(* empty answer raises RuntimeError.  Nothing else of it is used.          *)
Listed(c, S) ==
    /\ Step(c, "listing", IF S = {} THEN "refused" ELSE "ready")
    /\ stayed' = [stayed EXCEPT ![c] = {}]

(* The last page leaves out nothing that was there all along.              *)
LastPage(c) ==
    /\ \E S \in SUBSET (params \ listed[c]) :
          /\ stayed[c] \subseteq listed[c] \cup S
          /\ Show(c, S)
          /\ Listed(c, listed[c] \cup S)
    /\ listed' = [listed EXCEPT ![c] = {}]
    /\ UNCHANGED <<params, verified, lookup, lines, runs, edits, faults>>

(* SSM refuses a page (ClientError) or there are no credentials: that is   *)
(* logged, and what was listed before is the answer.                       *)
PageFails(c) ==
    /\ Fault
    /\ Listed(c, listed[c])
    /\ listed' = [listed EXCEPT ![c] = {}]
    /\ UNCHANGED <<params, key, verified, lookup, lines, runs, edits>>

(* Any other failure, such as a timeout or a lost connection, is not       *)
(* caught: the run is over, whatever it had listed.                        *)
PageBreaks(c) ==
    /\ Fault
    /\ Listed(c, {})
    /\ listed' = [listed EXCEPT ![c] = {}]
    /\ UNCHANGED <<params, key, verified, lookup, lines, runs, edits>>
-----------------------------------------------------------------------------
(* EtherscanClient                                                         *)

(* Mistake: the client is built without the name of its key.               *)
TrackUnnamed(c, status) ==
    IF c \in Shipped
    THEN /\ Len(lines) < MaxLines
         /\ lines' = Append(lines, [kind |-> "etherscan", key |-> NoName,
                                    status |-> status])
    ELSE UNCHANGED lines

(* The message of the answer, or ERROR when there is none to parse.        *)
Track(c, status) ==
    IF c \in Shipped
    THEN /\ Len(lines) < MaxLines
         /\ lines' = Append(lines, [kind |-> "etherscan", key |-> key[c],
                                    status |-> status])
    ELSE UNCHANGED lines

(* get_block_by_timestamp and the two transaction lists.                   *)
Request(c) ==
    /\ phase[c] = "ready"
    /\ \E status \in {"OK", "NOTOK", "ERROR"} : Track(c, status)
    /\ UNCHANGED <<params, phase, listing, verified, lookup, runs, edits, faults>>

(* What the file of a gives; one that is being written does not parse.     *)
Load(a) == IF disk[a] = "whole" THEN "hit" ELSE "miss"

Cached(c, a) == IF memo[c][a] # "none" THEN memo[c][a] ELSE Load(a)

(* Mistake: the cache is around the whole lookup, misses included.         *)
LookWhole(c) ==
    \E a \in Addresses :
    /\ Step(c, "ready", IF Cached(c, a) = "hit" \/ memo[c][a] = "miss"
                        THEN "answer" ELSE "asking")
    /\ memo' = [memo EXCEPT ![c][a] = Cached(c, a)]
    /\ addr' = [addr EXCEPT ![c] = a]
    /\ result' = [result EXCEPT ![c] = IF Cached(c, a) = "hit" THEN "abi" ELSE "none"]
    /\ was' = [was EXCEPT ![c] = a \in verified]
    /\ UNCHANGED <<params, listing, verified, disk, erred, lines, runs, edits, faults>>

(* _load_from_disk, through the cache; it remembers misses too.            *)
Look(c) ==
    \E a \in Addresses :
    /\ Step(c, "ready", IF Cached(c, a) = "hit" THEN "answer" ELSE "asking")
    /\ memo' = [memo EXCEPT ![c][a] = Cached(c, a)]
    /\ addr' = [addr EXCEPT ![c] = a]
    /\ result' = [result EXCEPT ![c] = IF Cached(c, a) = "hit" THEN "abi" ELSE "none"]
    /\ was' = [was EXCEPT ![c] = a \in verified]
    /\ UNCHANGED <<params, listing, verified, disk, erred, lines, runs, edits, faults>>

(* The cache is full and drops an entry.                                   *)
Evict(c, a) ==
    /\ phase[c] = "ready" /\ memo[c][a] # "none"
    /\ memo' = [memo EXCEPT ![c][a] = "none"]
    /\ UNCHANGED <<params, phase, listing, verified, disk, addr, result, was,
                   erred, lines, runs, edits, faults>>

Fetch(c) ==
    /\ IF addr[c] \in verified
       THEN /\ Step(c, "asking", "saving")
            /\ result' = [result EXCEPT ![c] = "abi"]
            /\ Track(c, "OK")
       ELSE /\ Step(c, "asking", "answer")
            /\ UNCHANGED result
            /\ Track(c, "NOTOK")
    /\ UNCHANGED <<params, listing, verified, disk, memo, addr, was, erred,
                   runs, edits, faults>>

(* No answer, a refusal, or an ABI that does not parse.                    *)
FetchFails(c) ==
    /\ Fault
    /\ Step(c, "asking", "answer")
    /\ \E status \in {"OK", "NOTOK", "ERROR"} : Track(c, status)
    /\ erred' = [erred EXCEPT ![c] = TRUE]
    /\ UNCHANGED <<params, listing, verified, disk, memo, addr, result, was,
                   runs, edits>>

(* write_text empties the file before it writes.                           *)
SaveOpens(c) ==
    /\ Step(c, "saving", "writing")
    /\ disk' = [disk EXCEPT ![addr[c]] = "torn"]
    /\ UNCHANGED <<params, listing, verified, memo, addr, result, was, erred,
                   lines, runs, edits, faults>>

Save(c) ==
    /\ Step(c, "writing", "answer")
    /\ disk' = [disk EXCEPT ![addr[c]] = "whole"]
    /\ UNCHANGED <<params, listing, verified, memo, addr, result, was, erred,
                   lines, runs, edits, faults>>

(* A failure to save is logged; the ABI is returned all the same.          *)
SaveFails(c) ==
    /\ Fault
    /\ phase[c] \in {"saving", "writing"}
    /\ phase' = [phase EXCEPT ![c] = "answer"]
    /\ UNCHANGED <<params, listing, verified, lookup, lines, runs, edits>>

Return(c) ==
    /\ Step(c, "answer", "ready")
    /\ addr' = [addr EXCEPT ![c] = NoAddress]
    /\ result' = [result EXCEPT ![c] = "none"]
    /\ was' = [was EXCEPT ![c] = FALSE]
    /\ erred' = [erred EXCEPT ![c] = FALSE]
    /\ UNCHANGED <<params, listing, verified, disk, memo, lines, runs, edits, faults>>

(* The run is over or its process dies: the files and the lines stay.      *)
End(c) ==
    /\ phase[c] # "none"
    /\ IF phase[c] \in {"ready", "refused"} THEN UNCHANGED faults ELSE Fault
    /\ phase' = [phase EXCEPT ![c] = "none"]
    /\ listed' = [listed EXCEPT ![c] = {}]
    /\ key' = [key EXCEPT ![c] = NoName]
    /\ stayed' = [stayed EXCEPT ![c] = {}]
    /\ memo' = [memo EXCEPT ![c] = [a \in Addresses |-> "none"]]
    /\ addr' = [addr EXCEPT ![c] = NoAddress]
    /\ result' = [result EXCEPT ![c] = "none"]
    /\ was' = [was EXCEPT ![c] = FALSE]
    /\ erred' = [erred EXCEPT ![c] = FALSE]
    /\ UNCHANGED <<params, verified, disk, lines, runs, edits>>

(* The source of a contract is published.                                  *)
Verify(a) ==
    /\ a \notin verified
    /\ verified' = verified \cup {a}
    /\ UNCHANGED <<params, phase, listing, lookup, lines, runs, edits, faults>>

ClientNext ==
    \/ \E n \in Names : PutParameter(n) \/ DeleteParameter(n)
    \/ \E c \in Clients :
          \/ Start(c) \/ Page(c) \/ LastPage(c) \/ PageFails(c) \/ PageBreaks(c)
          \/ Request(c) \/ Look(c) \/ Fetch(c) \/ FetchFails(c)
          \/ SaveOpens(c) \/ Save(c) \/ SaveFails(c) \/ Return(c) \/ End(c)
    \/ \E c \in Clients, a \in Addresses : Evict(c, a)
    \/ \E a \in Addresses : Verify(a)
-----------------------------------------------------------------------------
ClientTypeOK ==
    /\ params \subseteq Names
    /\ phase \in [Clients -> Phases]
    /\ listed \in [Clients -> SUBSET Names]
    /\ key \in [Clients -> Names \cup {NoName}]
    /\ verified \subseteq Addresses
    /\ disk \in [Addresses -> {"absent", "torn", "whole"}]
    /\ memo \in [Clients -> [Addresses -> {"none", "miss", "hit"}]]
    /\ addr \in [Clients -> Addresses \cup {NoAddress}]
    /\ result \in [Clients -> {"abi", "none"}]
    /\ lines \in Seq(Lines)
    /\ stayed \in [Clients -> SUBSET Names]
    /\ was \in [Clients -> BOOLEAN]
    /\ erred \in [Clients -> BOOLEAN]
    /\ runs \in Nat /\ edits \in Nat /\ faults \in Nat

(* What get_contract_abi answers, over torn files, concurrent writers and  *)
(* remembered misses: an ABI only of a verified contract, and None for a   *)
(* contract that was verified before the call only if the request failed.  *)
(* A miss that is out of date costs a request but hides no ABI.            *)
AnswerHonest ==
    \A c \in Clients : phase[c] = "answer" =>
        /\ result[c] = "abi" => addr[c] \in verified
        /\ result[c] = "none" => erred[c] \/ ~was[c]
=============================================================================
