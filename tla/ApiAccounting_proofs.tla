------------------------- MODULE ApiAccounting_proofs -------------------------
(***************************************************************************)
(* Keys, ABIs and the tables of calls, for any number of processes, names, *)
(* pages, contracts, lines and copies.                                     *)
(***************************************************************************)
EXTENDS ApiAccounting, FiniteSetTheorems, TLAPS

(* The phases in which there is a client, which has a key.                 *)
Built == {"ready", "asking", "saving", "writing", "answer"}

(* Of what a run has listed the first name is its key.                     *)
ListingOK(c) ==
    /\ phase[c] = "none" => key[c] = NoName /\ listed[c] = {}
    /\ phase[c] = "listing" => (key[c] = NoName <=> listed[c] = {})
    /\ phase[c] \in Built => key[c] \in Names

(* What is on disk or remembered as a hit is the ABI of a verified         *)
(* contract, and so is what is being saved.                                *)
CacheOK ==
    /\ \A a \in Addresses : disk[a] = "whole" => a \in verified
    /\ \A c \in Clients, a \in Addresses : memo[c][a] = "hit" => a \in verified

LookupOK(c) ==
    /\ phase[c] \in {"asking", "saving", "writing"} => addr[c] \in Addresses
    /\ phase[c] = "asking" => result[c] = "none"
    /\ phase[c] \in {"saving", "writing"} => result[c] = "abi" /\ addr[c] \in verified
    /\ was[c] => addr[c] \in verified
    /\ phase[c] = "answer" =>
          /\ result[c] = "abi" => addr[c] \in verified
          /\ result[c] = "none" => erred[c] \/ ~was[c]

ClientInv ==
    ClientTypeOK /\ CacheOK /\ \A c \in Clients : ListingOK(c) /\ LookupOK(c)

-----------------------------------------------------------------------------
(* The client by itself.                                                   *)

LEMMA ClientInvInit == ClientInit => ClientInv
<1> SUFFICES ASSUME ClientInit PROVE ClientInv
  OBVIOUS
<1>1. ClientTypeOK
  BY ClientAssumption DEF ClientInit, ClientTypeOK, Phases
<1>2. CacheOK /\ \A c \in Clients : ListingOK(c) /\ LookupOK(c)
  BY DEF ClientInit, CacheOK, ListingOK, LookupOK, Built
<1> QED BY <1>1, <1>2 DEF ClientInv

LEMMA Tracked ==
    ASSUME ClientTypeOK, NEW c \in Clients, key[c] \in Names,
           NEW status \in Statuses, Track(c, status)
    PROVE  lines' \in Seq(Lines)
<1>1. [kind |-> "etherscan", key |-> key[c], status |-> status] \in Lines
  BY DEF Lines, Kinds
<1>2. lines \in Seq(Lines)
  BY DEF ClientTypeOK
<1>3. lines' = lines \/ lines' = Append(lines, [kind |-> "etherscan", key |-> key[c], status |-> status])
  BY DEF Track
<1> QED
  BY <1>1, <1>2, <1>3

LEMMA ListTypes ==
    ASSUME ClientInv, NEW c \in Clients,
           Start(c) \/ Page(c) \/ LastPage(c) \/ PageFails(c) \/ PageBreaks(c)
    PROVE  ClientTypeOK'
<1> USE DEF ClientInv
<1>1. CASE Start(c)
  BY <1>1 DEF ClientTypeOK, Start, Step, Phases, lookup
<1>2. CASE Page(c)
  <2>1. PICK S \in (SUBSET (params \ listed[c])) \ {{}} :
           Show(c, S) /\ listed' = [listed EXCEPT ![c] = @ \cup S]
    BY <1>2 DEF Page
  <2>2. S \subseteq Names
    BY <2>1 DEF ClientTypeOK
  <2>3. listed' \in [Clients -> SUBSET Names]
    BY <2>1, <2>2 DEF ClientTypeOK
  <2>4. key' \in [Clients -> Names \cup {NoName}]
    BY <2>1, <2>2 DEF ClientTypeOK, Show
  <2> QED BY <1>2, <2>3, <2>4 DEF ClientTypeOK, Page, lookup
<1>3. CASE LastPage(c)
  <2>1. PICK S \in SUBSET (params \ listed[c]) :
           Show(c, S) /\ Listed(c, listed[c] \cup S)
    BY <1>3 DEF LastPage
  <2>2. key' \in [Clients -> Names \cup {NoName}]
    BY <2>1 DEF ClientTypeOK, Show
  <2>3. phase' \in [Clients -> Phases] /\ stayed' \in [Clients -> SUBSET Names]
    BY <2>1 DEF ClientTypeOK, Listed, Step, Phases
  <2>4. listed' \in [Clients -> SUBSET Names]
    BY <1>3 DEF ClientTypeOK, LastPage
  <2> QED BY <1>3, <2>2, <2>3, <2>4 DEF ClientTypeOK, LastPage, lookup
<1>4. CASE PageFails(c)
  BY <1>4 DEF ClientTypeOK, PageFails, Listed, Step, Phases, Fault, lookup
<1>5. CASE PageBreaks(c)
  BY <1>5 DEF ClientTypeOK, PageBreaks, Listed, Step, Phases, Fault, lookup
<1> QED BY <1>1, <1>2, <1>3, <1>4, <1>5

LEMMA LookTypes ==
    ASSUME ClientInv, NEW c \in Clients,
           Request(c) \/ Look(c) \/ Fetch(c) \/ FetchFails(c)
    PROVE  ClientTypeOK'
<1> USE DEF ClientInv
<1>1. phase[c] \in {"ready", "asking"} => key[c] \in Names
  BY DEF ListingOK, Built
<1>2. CASE Request(c)
  <2>1. PICK status \in Statuses : Track(c, status)
    BY <1>2 DEF Request, Statuses
  <2>2. lines' \in Seq(Lines)
    BY <1>1, <1>2, <2>1, Tracked DEF Request
  <2> QED BY <1>2, <2>2 DEF ClientTypeOK, Request, listing, lookup
<1>3. CASE Look(c)
  <2>1. PICK a \in Addresses :
           /\ Step(c, "ready", IF Cached(c, a) = "hit" THEN "answer" ELSE "asking")
           /\ memo' = [memo EXCEPT ![c][a] = Cached(c, a)]
           /\ addr' = [addr EXCEPT ![c] = a]
           /\ result' = [result EXCEPT ![c] = IF Cached(c, a) = "hit" THEN "abi" ELSE "none"]
           /\ was' = [was EXCEPT ![c] = a \in verified]
           /\ UNCHANGED <<params, listing, verified, disk, erred, lines, runs, edits, faults>>
    BY <1>3 DEF Look
  <2>2. Cached(c, a) \in {"none", "miss", "hit"}
    BY DEF Cached, Load, ClientTypeOK
  <2>3. memo' \in [Clients -> [Addresses -> {"none", "miss", "hit"}]]
    BY <2>1, <2>2 DEF ClientTypeOK
  <2>4. was' \in [Clients -> BOOLEAN]
    BY <2>1 DEF ClientTypeOK
  <2>5. /\ phase' \in [Clients -> Phases] /\ addr' \in [Clients -> Addresses \cup {NoAddress}]
        /\ result' \in [Clients -> {"abi", "none"}]
    BY <2>1 DEF ClientTypeOK, Step, Phases
  <2> QED BY <2>1, <2>3, <2>4, <2>5 DEF ClientTypeOK, listing
<1>4. CASE Fetch(c)
  <2>1. PICK status \in Statuses : Track(c, status)
    BY <1>4 DEF Fetch, Statuses
  <2>2. lines' \in Seq(Lines)
    BY <1>1, <1>4, <2>1, Tracked DEF Fetch, Step
  <2> QED BY <1>4, <2>2 DEF ClientTypeOK, Fetch, Step, Phases, listing
<1>5. CASE FetchFails(c)
  <2>1. PICK status \in Statuses : Track(c, status)
    BY <1>5 DEF FetchFails, Statuses
  <2>2. lines' \in Seq(Lines)
    BY <1>1, <1>5, <2>1, Tracked DEF FetchFails, Step
  <2> QED BY <1>5, <2>2 DEF ClientTypeOK, FetchFails, Fault, Step, Phases, listing
<1> QED BY <1>2, <1>3, <1>4, <1>5

LEMMA EndTypes ==
    ASSUME ClientInv, NEW c \in Clients,
           \/ SaveOpens(c) \/ Save(c) \/ SaveFails(c) \/ Return(c) \/ End(c)
           \/ \E a \in Addresses : Evict(c, a)
    PROVE  ClientTypeOK'
<1> USE DEF ClientInv
<1>1. CASE SaveOpens(c) \/ Save(c)
  <2>1. disk' \in [Addresses -> {"absent", "torn", "whole"}]
    BY <1>1 DEF ClientTypeOK, SaveOpens, Save
  <2> QED BY <1>1, <2>1 DEF ClientTypeOK, SaveOpens, Save, Step, Phases, listing
<1>2. CASE SaveFails(c)
  BY <1>2 DEF ClientTypeOK, SaveFails, Fault, Phases, listing, lookup
<1>3. CASE Return(c)
  BY <1>3 DEF ClientTypeOK, Return, Step, Phases, listing
<1>4. CASE End(c)
  <2>1. faults' \in Nat
    BY <1>4 DEF ClientTypeOK, End, Fault
  <2> QED BY <1>4, <2>1 DEF ClientTypeOK, End, Phases
<1>5. CASE \E a \in Addresses : Evict(c, a)
  BY <1>5 DEF ClientTypeOK, Evict, listing
<1> QED BY <1>1, <1>2, <1>3, <1>4, <1>5

LEMMA Edited ==
    ASSUME ClientInv, NEW n \in Names, PutParameter(n) \/ DeleteParameter(n)
    PROVE  ClientInv'
<1> USE DEF ClientInv
<1>1. PICK P \in SUBSET Names : Edit(P)
  <2>1. params \cup {n} \in SUBSET Names /\ params \ {n} \in SUBSET Names
    BY DEF ClientTypeOK
  <2>2. CASE Edit(params \cup {n})
    BY <2>1, <2>2
  <2>3. CASE Edit(params \ {n})
    BY <2>1, <2>3
  <2> QED BY <2>2, <2>3 DEF PutParameter, DeleteParameter
<1>2. UNCHANGED <<phase, listed, key, verified, lookup, lines, runs, faults>>
  BY <1>1 DEF Edit
<1>4. ClientTypeOK'
  <2>1. stayed' \in [Clients -> SUBSET Names]
    BY <1>1 DEF ClientTypeOK, Edit
  <2>2. params' \in SUBSET Names /\ edits' \in Nat
    BY <1>1 DEF ClientTypeOK, Edit
  <2> QED BY <1>2, <2>1, <2>2 DEF ClientTypeOK, lookup
<1>5. CacheOK'
  BY <1>2 DEF CacheOK, lookup
<1>6. \A c \in Clients : LookupOK(c)'
  BY <1>2 DEF LookupOK, lookup
<1>7. \A c \in Clients : ListingOK(c)'
  BY <1>1, <1>2 DEF Edit, ListingOK
<1> QED BY <1>4, <1>5, <1>6, <1>7

LEMMA Published ==
    ASSUME ClientInv, NEW a \in Addresses, Verify(a)
    PROVE  ClientInv'
<1>1. verified' = verified \cup {a}
  BY DEF Verify
<1>2. UNCHANGED <<params, phase, listing, lookup, lines, runs, edits, faults>>
  BY DEF Verify
<1>3. ClientTypeOK'
  BY <1>1, <1>2 DEF ClientInv, ClientTypeOK, listing, lookup
<1>4. CacheOK'
  BY <1>1, <1>2 DEF ClientInv, CacheOK, lookup
<1>5. \A c \in Clients : ListingOK(c)' /\ LookupOK(c)'
  BY <1>1, <1>2 DEF ClientInv, ListingOK, LookupOK, listing, lookup
<1> QED BY <1>3, <1>4, <1>5 DEF ClientInv

(* Listing: the key of a run is of what it has listed.                     *)
LEMMA ListKeeps ==
    ASSUME ClientInv, NEW c \in Clients,
           Start(c) \/ Page(c) \/ LastPage(c) \/ PageFails(c) \/ PageBreaks(c),
           NEW d \in Clients
    PROVE  ListingOK(d)' /\ LookupOK(d)' /\ CacheOK'
<1> USE DEF ClientInv
<1>1. ListingOK(d) /\ ClientTypeOK
  OBVIOUS
<1>2. UNCHANGED <<verified, lookup>>
  BY DEF Start, Page, LastPage, PageFails, PageBreaks
<1>3. CacheOK'
  BY <1>2 DEF CacheOK, lookup
<1>4. phase'[d] = phase[d] \/ phase'[d] \in {"listing", "ready", "refused"}
  BY DEF Start, Step, Page, LastPage, PageFails, PageBreaks, Listed, ClientTypeOK
<1>5. LookupOK(d)'
  BY <1>2, <1>4 DEF LookupOK, lookup
<1>6. CASE Start(c)
  <2>1. ListingOK(d)'
    BY <1>1, <1>6, ClientAssumption DEF Start, Step, ListingOK, ClientTypeOK, Built
  <2> QED BY <2>1, <1>3, <1>5
<1>7. CASE Page(c)
  <2>1. PICK S \in (SUBSET (params \ listed[c])) \ {{}} :
           Show(c, S) /\ listed' = [listed EXCEPT ![c] = @ \cup S]
    BY <1>7 DEF Page
  <2>2. UNCHANGED <<params, phase>> /\ phase[c] = "listing"
    BY <1>7 DEF Page
  <2>3. CASE d = c
    <3>1. listed'[c] = listed[c] \cup S /\ listed'[c] # {}
      BY <2>1 DEF ClientTypeOK
    <3>2. ListingOK(c)
      OBVIOUS
    <3>3. key'[c] # NoName
      <4>1. CASE key[c] = NoName
        <5>1. PICK n \in S : key' = [key EXCEPT ![c] = n]
          BY <2>1, <4>1 DEF Show
        <5>2. key'[c] = n /\ n \in params
          BY <2>1, <5>1 DEF ClientTypeOK
        <5>3. n \in Names
          BY <5>2 DEF ClientTypeOK
        <5> QED BY <2>2, <3>2, <5>2, <5>3, ClientAssumption DEF ListingOK
      <4>2. CASE key[c] # NoName
        BY <2>1, <2>2, <3>2, <4>2 DEF Show, ListingOK
      <4> QED BY <4>1, <4>2
    <3> QED BY <1>3, <1>5, <2>2, <2>3, <3>1, <3>2, <3>3 DEF ListingOK, Built
  <2>4. CASE d # c
    <3>1. key'[d] = key[d] /\ listed'[d] = listed[d]
      BY <2>1, <2>4 DEF Show, ClientTypeOK
    <3> QED BY <1>1, <1>3, <1>5, <2>2, <3>1 DEF ListingOK
  <2> QED BY <2>3, <2>4
<1>8. CASE LastPage(c)
  <2>1. PICK S \in SUBSET (params \ listed[c]) :
           Show(c, S) /\ Listed(c, listed[c] \cup S)
    BY <1>8 DEF LastPage
  <2>2. params' = params
    BY <1>8 DEF LastPage
  <2>3. CASE d = c
    <3>1. phase[c] = "listing" /\ phase'[c] = IF listed[c] \cup S = {} THEN "refused" ELSE "ready"
      BY <2>1 DEF Listed, Step, ClientTypeOK
    <3>2. phase'[c] = "ready" => key'[c] \in Names
      <4> SUFFICES ASSUME listed[c] \cup S # {} PROVE key'[c] \in Names
        BY <3>1
      <4>1. ListingOK(c)
        OBVIOUS
      <4>2. CASE key[c] = NoName
        <5>1. S # {}
          BY <4>1, <4>2, <3>1 DEF ListingOK
        <5>2. PICK n \in S : key' = [key EXCEPT ![c] = n]
          BY <2>1, <4>2, <5>1 DEF Show
        <5> QED BY <2>1, <5>2 DEF ClientTypeOK
      <4>3. CASE key[c] # NoName
        BY <2>1, <4>3 DEF Show, ClientTypeOK
      <4> QED BY <4>2, <4>3
    <3> QED BY <1>3, <1>5, <2>3, <3>1, <3>2 DEF ListingOK, Built
  <2>4. CASE d # c
    <3>1. /\ key'[d] = key[d] /\ listed'[d] = listed[d]
          /\ phase'[d] = phase[d]
      BY <1>8, <2>1, <2>4 DEF LastPage, Show, Listed, Step, ClientTypeOK
    <3> QED BY <1>1, <1>3, <1>5, <2>2, <3>1 DEF ListingOK
  <2> QED BY <2>3, <2>4
<1>9. CASE PageFails(c)
  <2>1. key' = key /\ params' = params /\ Listed(c, listed[c])
        /\ listed' = [listed EXCEPT ![c] = {}]
    BY <1>9 DEF PageFails
  <2>2. CASE d = c
    <3>1. phase[c] = "listing" /\ phase'[c] = IF listed[c] = {} THEN "refused" ELSE "ready"
      BY <2>1 DEF Listed, Step, ClientTypeOK
    <3>2. phase'[c] = "ready" => key[c] \in Names
      BY <3>1, <1>1, <2>2 DEF ListingOK, ClientTypeOK
    <3> QED BY <1>3, <1>5, <2>1, <2>2, <3>1, <3>2 DEF ListingOK, Built
  <2>3. CASE d # c
    <3>1. /\ key'[d] = key[d] /\ listed'[d] = listed[d]
          /\ phase'[d] = phase[d]
      BY <2>1, <2>3 DEF Listed, Step, ClientTypeOK
    <3> QED BY <1>1, <1>3, <1>5, <2>1, <3>1 DEF ListingOK
  <2> QED BY <2>2, <2>3
<1>10. CASE PageBreaks(c)
  <2>1. /\ key' = key /\ listed' = [listed EXCEPT ![c] = {}]
        /\ Step(c, "listing", "refused")
    BY <1>10 DEF PageBreaks, Listed
  <2>2. CASE d = c
    <3>1. phase'[c] = "refused"
      BY <2>1 DEF Step, ClientTypeOK
    <3> QED BY <1>3, <1>5, <2>2, <3>1 DEF ListingOK, Built
  <2>3. CASE d # c
    <3>1. key'[d] = key[d] /\ listed'[d] = listed[d] /\ phase'[d] = phase[d]
      BY <2>1, <2>3 DEF Step, ClientTypeOK
    <3> QED BY <1>1, <1>3, <1>5, <3>1 DEF ListingOK
  <2> QED BY <2>2, <2>3
<1> QED BY <1>6, <1>7, <1>8, <1>9, <1>10

(* Looking up and saving, and the end of a run.                            *)
LEMMA LookKeeps ==
    ASSUME ClientInv, NEW c \in Clients,
           \/ Request(c) \/ Look(c) \/ Fetch(c) \/ FetchFails(c)
           \/ SaveOpens(c) \/ Save(c) \/ SaveFails(c) \/ Return(c) \/ End(c)
           \/ \E a \in Addresses : Evict(c, a)
    PROVE  CacheOK' /\ \A d \in Clients : ListingOK(d)' /\ LookupOK(d)'
<1> USE DEF ClientInv
<1>1. \A d \in Clients : ListingOK(d) /\ LookupOK(d)
  OBVIOUS
<1>2. /\ phase \in [Clients -> Phases] /\ key \in [Clients -> Names \cup {NoName}]
      /\ listed \in [Clients -> SUBSET Names]
      /\ memo \in [Clients -> [Addresses -> {"none", "miss", "hit"}]]
      /\ disk \in [Addresses -> {"absent", "torn", "whole"}]
      /\ addr \in [Clients -> Addresses \cup {NoAddress}]
      /\ result \in [Clients -> {"abi", "none"}]
      /\ was \in [Clients -> BOOLEAN] /\ erred \in [Clients -> BOOLEAN]
  BY DEF ClientTypeOK
<1>3. CASE End(c)
  <2>1. CacheOK'
    BY <1>2, <1>3 DEF End, CacheOK
  <2>2. ASSUME NEW d \in Clients PROVE ListingOK(d)' /\ LookupOK(d)'
    <3>1. CASE d = c
      BY <1>2, <1>3, <3>1 DEF End, ListingOK, LookupOK, Built
    <3>2. CASE d # c
      BY <1>1, <1>2, <1>3, <3>2 DEF End, ListingOK, LookupOK
    <3> QED BY <3>1, <3>2
  <2> QED BY <2>1, <2>2
<1>4. CASE ~End(c)
  <2>1. /\ UNCHANGED <<params, listing>>
        /\ \A d \in Clients : phase'[d] = phase[d] \/ (phase[d] \in Built /\ phase'[d] \in Built)
    <3>1. CASE Request(c) \/ \E a \in Addresses : Evict(c, a)
      BY <3>1 DEF Request, Evict, lookup
    <3>2. CASE Look(c)
      BY <1>2, <3>2 DEF Look, Step, Built
    <3>3. CASE Fetch(c)
      BY <1>2, <3>3 DEF Fetch, Step, Built
    <3>4. CASE FetchFails(c)
      BY <1>2, <3>4 DEF FetchFails, Step, Built
    <3>5. CASE SaveOpens(c) \/ Save(c)
      BY <1>2, <3>5 DEF SaveOpens, Save, Step, Built
    <3>6. CASE SaveFails(c)
      BY <1>2, <3>6 DEF SaveFails, Step, Built
    <3>7. CASE Return(c)
      BY <1>2, <3>7 DEF Return, Step, Built
    <3> QED BY <1>4, <3>1, <3>2, <3>3, <3>4, <3>5, <3>6, <3>7
  <2>2. \A d \in Clients : ListingOK(d)'
    BY <1>1, <2>1 DEF ListingOK, listing, Built
  <2>3. CASE Request(c)
    BY <1>1, <2>2, <2>3 DEF Request, CacheOK, LookupOK, lookup
  <2>4. CASE Look(c)
    <3>1. PICK a \in Addresses :
             /\ Step(c, "ready", IF Cached(c, a) = "hit" THEN "answer" ELSE "asking")
             /\ memo' = [memo EXCEPT ![c][a] = Cached(c, a)]
             /\ addr' = [addr EXCEPT ![c] = a]
             /\ result' = [result EXCEPT ![c] = IF Cached(c, a) = "hit" THEN "abi" ELSE "none"]
             /\ was' = [was EXCEPT ![c] = a \in verified]
             /\ UNCHANGED <<params, listing, verified, disk, erred, lines, runs, edits, faults>>
      BY <2>4 DEF Look
    <3>2. Cached(c, a) = "hit" => a \in verified
      BY DEF Cached, Load, CacheOK
    <3>3. CacheOK'
      BY <1>2, <3>1, <3>2 DEF CacheOK
    <3>4. ASSUME NEW d \in Clients PROVE LookupOK(d)'
      <4>1. CASE d = c
        <5>1. was'[c] = (a \in verified)
          BY <1>2, <3>1, Zenon
        <5>2. addr'[c] = a /\ verified' = verified
              /\ result'[c] = (IF Cached(c, a) = "hit" THEN "abi" ELSE "none")
              /\ phase'[c] = IF Cached(c, a) = "hit" THEN "answer" ELSE "asking"
          BY <1>2, <3>1 DEF Step
        <5> QED BY <3>2, <4>1, <5>1, <5>2 DEF LookupOK
      <4>2. CASE d # c
        <5>1. was'[d] = was[d]
          BY <1>2, <3>1, <4>2
        <5>2. /\ addr'[d] = addr[d] /\ verified' = verified /\ result'[d] = result[d]
              /\ phase'[d] = phase[d] /\ erred'[d] = erred[d]
          BY <1>2, <3>1, <4>2 DEF Step
        <5> QED BY <1>1, <5>1, <5>2 DEF LookupOK
      <4> QED BY <4>1, <4>2
    <3> QED BY <2>2, <3>3, <3>4
  <2>5. CASE Fetch(c)
    <3>1. CacheOK'
      BY <2>5 DEF Fetch, CacheOK
    <3>2. ASSUME NEW d \in Clients PROVE LookupOK(d)'
      <4>1. CASE d = c
        <5>1. LookupOK(c) /\ phase[c] = "asking"
          BY <1>1, <2>5 DEF Fetch, Step
        <5> QED BY <1>2, <2>5, <4>1, <5>1 DEF Fetch, Step, LookupOK
      <4>2. CASE d # c
        BY <1>1, <1>2, <2>5, <4>2 DEF Fetch, Step, LookupOK
      <4> QED BY <4>1, <4>2
    <3> QED BY <2>2, <3>1, <3>2
  <2>6. CASE FetchFails(c)
    <3>1. CacheOK'
      BY <2>6 DEF FetchFails, CacheOK
    <3>2. ASSUME NEW d \in Clients PROVE LookupOK(d)'
      <4>1. LookupOK(d) /\ LookupOK(c)
        BY <1>1
      <4> QED BY <1>2, <2>6, <4>1 DEF FetchFails, Step, LookupOK
    <3> QED BY <2>2, <3>1, <3>2
  <2>7. CASE SaveOpens(c) \/ Save(c)
    <3>1. LookupOK(c) /\ phase[c] \in {"saving", "writing"}
      BY <1>1, <2>7 DEF SaveOpens, Save, Step
    <3>2. CacheOK'
      BY <1>2, <2>7, <3>1 DEF SaveOpens, Save, CacheOK, LookupOK
    <3>3. ASSUME NEW d \in Clients PROVE LookupOK(d)'
      BY <1>1, <1>2, <2>7, <3>1 DEF SaveOpens, Save, Step, LookupOK
    <3> QED BY <2>2, <3>2, <3>3
  <2>8. CASE SaveFails(c)
    <3>1. CacheOK'
      BY <2>8 DEF SaveFails, CacheOK, lookup
    <3>2. ASSUME NEW d \in Clients PROVE LookupOK(d)'
      BY <1>1, <1>2, <2>8 DEF SaveFails, LookupOK, lookup
    <3> QED BY <2>2, <3>1, <3>2
  <2>9. CASE Return(c)
    <3>1. CacheOK'
      BY <2>9 DEF Return, CacheOK
    <3>2. ASSUME NEW d \in Clients PROVE LookupOK(d)'
      BY <1>1, <1>2, <2>9 DEF Return, Step, LookupOK
    <3> QED BY <2>2, <3>1, <3>2
  <2>10. CASE \E a \in Addresses : Evict(c, a)
    <3>1. PICK a \in Addresses : Evict(c, a)
      BY <2>10
    <3>2. CacheOK'
      BY <1>2, <3>1 DEF Evict, CacheOK
    <3>3. \A d \in Clients : LookupOK(d)'
      BY <1>1, <3>1 DEF Evict, LookupOK
    <3> QED BY <2>2, <3>2, <3>3
  <2> QED BY <1>4, <2>3, <2>4, <2>5, <2>6, <2>7, <2>8, <2>9, <2>10
<1> QED BY <1>3, <1>4

LEMMA ClientStep ==
    ASSUME ClientInv, [ClientNext]_client
    PROVE  ClientInv'
<1>1. CASE UNCHANGED client
  BY <1>1 DEF client, listing, lookup, ClientInv, ClientTypeOK, CacheOK, ListingOK, LookupOK
<1>2. ASSUME NEW n \in Names, PutParameter(n) \/ DeleteParameter(n) PROVE ClientInv'
  BY <1>2, Edited
<1>3. ASSUME NEW c \in Clients, Start(c) \/ Page(c) \/ LastPage(c) \/ PageFails(c) \/ PageBreaks(c)
      PROVE  ClientInv'
  BY <1>3, ListKeeps, ListTypes DEF ClientInv
<1>4. ASSUME NEW c \in Clients, Request(c) \/ Look(c) \/ Fetch(c) \/ FetchFails(c)
      PROVE  ClientInv'
  BY <1>4, LookKeeps, LookTypes DEF ClientInv
<1>5. ASSUME NEW c \in Clients,
             \/ SaveOpens(c) \/ Save(c) \/ SaveFails(c) \/ Return(c) \/ End(c)
             \/ \E a \in Addresses : Evict(c, a)
      PROVE  ClientInv'
  BY <1>5, LookKeeps, EndTypes DEF ClientInv
<1>6. ASSUME NEW a \in Addresses, Verify(a) PROVE ClientInv'
  BY <1>6, Published
<1> QED BY <1>1, <1>2, <1>3, <1>4, <1>5, <1>6 DEF ClientNext
-----------------------------------------------------------------------------
(* The client with the pipeline.                                           *)

LEMMA UsageStep ==
    ASSUME ClientInv, [Next]_vars
    PROVE  ClientInv'
<1>1. CASE [ClientNext]_client
  BY <1>1, ClientStep
<1>2. CASE Capture
  <2>1. PICK l \in Captured : lines' = Append(lines, l)
    BY <1>2 DEF Capture
  <2>2. l \in Lines
    BY <2>1, LoggersAssumption DEF Lines, Kinds, Statuses
  <2>3. lines' \in Seq(Lines)
    BY <2>1, <2>2 DEF ClientInv, ClientTypeOK
  <2>4. UNCHANGED <<params, phase, listing, verified, lookup, runs, edits, faults>>
    BY <1>2 DEF Capture
  <2> QED
    BY <2>3, <2>4 DEF ClientInv, ClientTypeOK, CacheOK, ListingOK, LookupOK, listing, lookup
<1>3. CASE \/ \E i \in 1..MaxLines, n \in 2..MaxCopies : DeliverAgain(i, n)
           \/ \E f \in Flows : UpdateFails(f)
  <2>1. /\ UNCHANGED <<params, phase, listing, verified, lookup, lines, runs, edits>>
        /\ Fault
    BY <1>3 DEF DeliverAgain, UpdateFails
  <2>2. faults' \in Nat
    BY <2>1 DEF Fault, ClientInv, ClientTypeOK
  <2> QED
    BY <2>1, <2>2 DEF ClientInv, ClientTypeOK, CacheOK, ListingOK, LookupOK, listing, lookup
<1>4. \/ [ClientNext]_client \/ Capture
      \/ \E i \in 1..MaxLines, n \in 2..MaxCopies : DeliverAgain(i, n)
      \/ \E f \in Flows : UpdateFails(f)
  BY DEF Next, Deliver, UpdateAll, vars
<1> QED BY <1>1, <1>2, <1>3, <1>4

LEMMA ClientSafe == Spec => []ClientInv
<1>1. Init => ClientInv
  BY ClientInvInit DEF Init
<1>2. ClientInv /\ [Next]_vars => ClientInv'
  BY UsageStep
<1> QED BY <1>1, <1>2, PTL DEF Spec

(* Whatever a process remembers and whatever of the shared directory is    *)
(* torn or out of date, get_contract_abi answers with the ABI of a verified*)
(* contract, and with None for a contract verified before the call only if *)
(* the request failed.                                                     *)
THEOREM AbiAnswers == Spec => []AnswerHonest
<1>1. ClientInv => AnswerHonest
  BY DEF ClientInv, LookupOK, AnswerHonest
<1> QED BY <1>1, ClientSafe, PTL

-----------------------------------------------------------------------------
(* The tables.                                                             *)

(* A stream's table holds one copy of what it has read and kept, and so    *)
(* does a view of what is about its kind of call.                          *)
PipelineInv ==
    /\ landed \subseteq Copies /\ \A r \in landed : r[1] <= Len(lines)
    /\ bronze \subseteq landed
    /\ read \in [Silver -> SUBSET bronze]
    /\ \A s \in Silver : silver[s] = SetToBag({r \in read[s] : Kept(s, r)})
    /\ \A w \in Views :
          /\ view[w] = SetToBag(DOMAIN view[w])
          /\ \A r \in DOMAIN view[w] : r \in bronze /\ Line(r).kind = KindOf(w)

(* What a view counts was delivered, is of its kind, and counts as one.    *)
OneEach ==
    \A w \in Views : \A r \in DOMAIN view[w] :
        r \in landed /\ Line(r).kind = KindOf(w) /\ view[w][r] = 1

LEMMA BagOfUnion ==
    ASSUME NEW S, NEW T, S \cap T = {}
    PROVE  SetToBag(S) (+) SetToBag(T) = SetToBag(S \cup T)
BY DEF SetToBag, (+)

(* Lines are appended, none is changed.                                    *)
LEMMA LinesGrow ==
    ASSUME ClientInv, [Next]_vars
    PROVE  /\ Len(lines) \in Nat /\ Len(lines) <= Len(lines')
           /\ \A i \in 1..Len(lines) : lines'[i] = lines[i]
<1>1. lines \in Seq(Lines)
  BY DEF ClientInv, ClientTypeOK
<1>2. lines' = lines \/ \E l : lines' = Append(lines, l)
  <2>1. CASE \E c \in Clients : Request(c) \/ Fetch(c) \/ FetchFails(c)
    <3>1. PICK c, status : Track(c, status)
      BY <2>1 DEF Request, Fetch, FetchFails
    <3> QED BY <3>1 DEF Track
  <2>2. CASE Capture
    BY <2>2 DEF Capture
  <2>3. CASE \E c \in Clients : Start(c) \/ Page(c) \/ LastPage(c) \/ PageFails(c) \/ PageBreaks(c)
    BY <2>3 DEF Start, Page, LastPage, PageFails, PageBreaks
  <2>4. CASE \E c \in Clients : \/ Look(c) \/ SaveOpens(c) \/ Save(c) \/ SaveFails(c)
                               \/ Return(c) \/ End(c)
    BY <2>4 DEF Look, SaveOpens, Save, SaveFails, Return, End
  <2>5. CASE UNCHANGED lines
    BY <2>5
  <2>6. \/ \E c \in Clients : Request(c) \/ Fetch(c) \/ FetchFails(c)
        \/ Capture
        \/ \E c \in Clients : Start(c) \/ Page(c) \/ LastPage(c) \/ PageFails(c) \/ PageBreaks(c)
        \/ \E c \in Clients : \/ Look(c) \/ SaveOpens(c) \/ Save(c) \/ SaveFails(c)
                              \/ Return(c) \/ End(c)
        \/ UNCHANGED lines
    BY DEF Next, vars, client, ClientNext, PutParameter, DeleteParameter, Edit, Evict,
           Verify, Deliver, DeliverAgain, UpdateAll, UpdateFails
  <2> QED BY <2>1, <2>2, <2>3, <2>4, <2>5, <2>6
<1> QED BY <1>1, <1>2

(* A line that was delivered stays what it was.                            *)
LEMMA LineStays ==
    ASSUME ClientInv, PipelineInv, [Next]_vars, NEW r \in landed
    PROVE  Line(r)' = Line(r) /\ r[1] <= Len(lines')
<1>1. r[1] \in 1..Len(lines)
  BY LinesGrow, ClientAssumption DEF PipelineInv, Copies
<1>2. lines'[r[1]] = lines[r[1]]
  BY <1>1, LinesGrow
<1>3. Len(lines') \in Nat
  <2>1. lines' \in Seq(Lines)
    BY UsageStep DEF ClientInv, ClientTypeOK
  <2> QED BY <2>1
<1> QED BY <1>1, <1>2, <1>3, LinesGrow DEF Line

(* A stream that reads what is new keeps what it had.                      *)
LEMMA StreamReads ==
    ASSUME PipelineInv, NEW s \in Silver, NEW B, read[s] \subseteq B
    PROVE  Refined(s, B) = SetToBag({r \in B : Kept(s, r)})
<1> DEFINE had == {r \in read[s] : Kept(s, r)}
           gets == {r \in B \ read[s] : Kept(s, r)}
<1>1. silver[s] = SetToBag(had)
  BY DEF PipelineInv
<1>2. had \cap gets = {} /\ had \cup gets = {r \in B : Kept(s, r)}
  OBVIOUS
<1>3. Refined(s, B) = SetToBag(had) (+) SetToBag(gets)
  BY <1>1 DEF Refined
<1> HIDE DEF had, gets
<1> QED BY <1>2, <1>3, BagOfUnion

(* No line is in both silver tables, so their union has one copy of each.  *)
LEMMA ViewCounts ==
    ASSUME NEW w \in Views, NEW R, NEW T,
           NEW S, S["logs_streaming"] = SetToBag({r \in R : Kept("logs_streaming", r)}),
           S["logs_batch"] = SetToBag({r \in T : Kept("logs_batch", r)})
    PROVE  /\ Aggregated(w, S) = SetToBag(DOMAIN Aggregated(w, S))
           /\ \A r \in DOMAIN Aggregated(w, S) : r \in R \cup T /\ Line(r).kind = KindOf(w)
<1> DEFINE ones == {r \in R : Kept("logs_streaming", r)}
           twos == {r \in T : Kept("logs_batch", r)}
<1>1. ones \cap twos = {}
  BY LoggersAssumption DEF Kept, NamesOf
<1>2. S["logs_streaming"] = SetToBag(ones) /\ S["logs_batch"] = SetToBag(twos)
  OBVIOUS
<1>3. ones \subseteq R /\ twos \subseteq T
  OBVIOUS
<1> HIDE DEF ones, twos
<1>4. S["logs_streaming"] (+) S["logs_batch"] = SetToBag(ones \cup twos)
  BY <1>1, <1>2, BagOfUnion
<1>5. Aggregated(w, S) = [r \in {q \in ones \cup twos : Line(q).kind = KindOf(w)} |-> 1]
  BY <1>4 DEF Aggregated, SetToBag, BagToSet
<1> QED BY <1>3, <1>5 DEF SetToBag

(* Delivering, and what leaves the tables alone.                           *)
LEMMA TablesStay ==
    ASSUME ClientInv, PipelineInv, [Next]_vars, UNCHANGED <<bronze, read, silver, view>>,
           NEW N, landed' = landed \cup N, N \subseteq Copies,
           \A r \in N : r[1] <= Len(lines')
    PROVE  PipelineInv'
<1>1. \A r \in landed : Line(r)' = Line(r) /\ r[1] <= Len(lines')
  BY LineStays
<1>2. \A s \in Silver, r \in landed : Kept(s, r)' <=> Kept(s, r)
  BY <1>1 DEF Kept
<1>3. landed' \subseteq Copies /\ bronze' \subseteq landed'
      /\ read' \in [Silver -> SUBSET bronze']
  BY DEF PipelineInv
<1>4. \A r \in landed' : r[1] <= Len(lines')
  BY <1>1
<1>5. ASSUME NEW s \in Silver PROVE silver'[s] = SetToBag({r \in read'[s] : Kept(s, r)'})
  <2>1. read[s] \subseteq landed
    BY DEF PipelineInv
  <2>2. {r \in read'[s] : Kept(s, r)'} = {r \in read[s] : Kept(s, r)}
    BY <1>2, <2>1
  <2> QED BY <2>2 DEF PipelineInv
<1>6. ASSUME NEW w \in Views
      PROVE  /\ view'[w] = SetToBag(DOMAIN view'[w])
             /\ \A r \in DOMAIN view'[w] : r \in bronze' /\ Line(r)'.kind = KindOf(w)
  BY <1>1 DEF PipelineInv
<1> QED BY <1>3, <1>4, <1>5, <1>6 DEF PipelineInv

(* An update, whichever flows fail.                                        *)
LEMMA UpdateKeeps ==
    ASSUME PipelineInv, NEW F, Update(F), UNCHANGED lines,
           F = {} \/ \E f \in Flows : F = {f}
    PROVE  PipelineInv'
<1> DEFINE Runs(f) == F \cap Upstream(f) = {}
<1>1. /\ bronze' = IF Runs("b_app_logs_data") THEN landed ELSE bronze
      /\ silver' = [s \in Silver |-> IF Runs(s) THEN Refined(s, landed) ELSE silver[s]]
      /\ read' = [s \in Silver |-> IF Runs(s) THEN landed ELSE read[s]]
      /\ view' = [w \in Views |-> IF Runs(w) THEN Aggregated(w, silver') ELSE view[w]]
      /\ UNCHANGED landed
  BY DEF Update
<1>2. /\ \A s \in Silver : Runs(s) => Runs("b_app_logs_data")
      /\ \A w \in Views : Runs(w) => \A s \in Silver : Runs(s)
  BY DEF Upstream, Silver, Views
<1> HIDE DEF Runs
<1>3. bronze \subseteq bronze' /\ bronze' \subseteq landed'
  BY <1>1 DEF PipelineInv
<1>4. \A s \in Silver : read[s] \subseteq landed /\ read[s] \subseteq bronze
  BY DEF PipelineInv
<1>5. read' \in [Silver -> SUBSET bronze']
  <2>1. \A s \in Silver : read'[s] \subseteq bronze'
    BY <1>1, <1>2, <1>3, <1>4
  <2> QED BY <1>1, <2>1
<1>6. \A s, r : Kept(s, r)' <=> Kept(s, r)
  BY DEF Kept, Line
<1>7. ASSUME NEW s \in Silver PROVE silver'[s] = SetToBag({r \in read'[s] : Kept(s, r)})
  <2>1. CASE Runs(s)
    BY <1>1, <1>4, <2>1, StreamReads
  <2>2. CASE ~Runs(s)
    BY <1>1, <2>2 DEF PipelineInv
  <2> QED BY <2>1, <2>2
<1>8. ASSUME NEW w \in Views
      PROVE  /\ view'[w] = SetToBag(DOMAIN view'[w])
             /\ \A r \in DOMAIN view'[w] : r \in bronze' /\ Line(r).kind = KindOf(w)
  <2>1. CASE Runs(w)
    <3>1. view'[w] = Aggregated(w, silver')
      BY <1>1, <2>1
    <3>2. "logs_streaming" \in Silver /\ "logs_batch" \in Silver
      BY DEF Silver
    <3>3. /\ silver'["logs_streaming"] =
                SetToBag({r \in read'["logs_streaming"] : Kept("logs_streaming", r)})
          /\ silver'["logs_batch"] =
                SetToBag({r \in read'["logs_batch"] : Kept("logs_batch", r)})
      BY <1>7, <3>2
    <3>4. /\ read'["logs_streaming"] \subseteq bronze'
          /\ read'["logs_batch"] \subseteq bronze'
      BY <1>5, <3>2
    <3>5. PICK R, T, S : /\ R = read'["logs_streaming"] /\ T = read'["logs_batch"]
                         /\ S = silver'
      OBVIOUS
    <3>6. /\ S["logs_streaming"] = SetToBag({r \in R : Kept("logs_streaming", r)})
          /\ S["logs_batch"] = SetToBag({r \in T : Kept("logs_batch", r)})
      BY <3>3, <3>5
    <3>7. /\ Aggregated(w, S) = SetToBag(DOMAIN Aggregated(w, S))
          /\ \A r \in DOMAIN Aggregated(w, S) : r \in R \cup T /\ Line(r).kind = KindOf(w)
      BY <3>6, ViewCounts
    <3> QED BY <3>1, <3>4, <3>5, <3>7
  <2>2. CASE ~Runs(w)
    BY <1>1, <1>3, <2>2 DEF PipelineInv
  <2> QED BY <2>1, <2>2
<1>9. \A r : Line(r)' = Line(r)
  BY DEF Line
<1>10. landed' \subseteq Copies /\ \A r \in landed' : r[1] <= Len(lines')
  BY <1>1 DEF PipelineInv
<1>11. \A s \in Silver : silver'[s] = SetToBag({r \in read'[s] : Kept(s, r)'})
  <2>1. ASSUME NEW s \in Silver
        PROVE  {r \in read'[s] : Kept(s, r)'} = {r \in read'[s] : Kept(s, r)}
    BY <1>6
  <2> QED BY <1>7, <2>1
<1>12. \A w \in Views :
         /\ view'[w] = SetToBag(DOMAIN view'[w])
         /\ \A r \in DOMAIN view'[w] : r \in bronze' /\ Line(r)'.kind = KindOf(w)
  BY <1>8, <1>9
<1> QED BY <1>3, <1>5, <1>10, <1>11, <1>12 DEF PipelineInv

LEMMA PipelineStep ==
    ASSUME ClientInv, PipelineInv, [Next]_vars
    PROVE  PipelineInv'
<1>1. CASE UNCHANGED pipeline
  BY <1>1, TablesStay, LineStays DEF pipeline
<1>2. ASSUME NEW i \in 1..MaxLines, Deliver(i) PROVE PipelineInv'
  <2>1. <<i, 1>> \in Copies /\ UNCHANGED lines /\ i <= Len(lines)
    BY <1>2, LoggersAssumption DEF Copies, Deliver, client
  <2>2. PICK N : N = {<<i, 1>>}
    OBVIOUS
  <2>3. UNCHANGED <<bronze, read, silver, view>> /\ landed' = landed \cup N
    BY <1>2, <2>2 DEF Deliver
  <2>4. N \subseteq Copies /\ \A r \in N : r[1] <= Len(lines')
    BY <2>1, <2>2
  <2> QED BY <2>3, <2>4, TablesStay
<1>3. ASSUME NEW i \in 1..MaxLines, NEW n \in 2..MaxCopies, DeliverAgain(i, n)
      PROVE  PipelineInv'
  <2>1. <<i, n>> \in Copies /\ UNCHANGED lines
    BY <1>3, LoggersAssumption DEF Copies, DeliverAgain
  <2>2. i <= Len(lines)
    BY <1>3 DEF DeliverAgain, PipelineInv
  <2>3. PICK N : N = {<<i, n>>}
    OBVIOUS
  <2>4. UNCHANGED <<bronze, read, silver, view>> /\ landed' = landed \cup N
    BY <1>3, <2>3 DEF DeliverAgain
  <2>5. N \subseteq Copies /\ \A r \in N : r[1] <= Len(lines')
    BY <2>1, <2>2, <2>3
  <2> QED BY <2>4, <2>5, TablesStay
<1>4. CASE UpdateAll
  BY <1>4, UpdateKeeps DEF UpdateAll, client
<1>5. ASSUME NEW f \in Flows, UpdateFails(f) PROVE PipelineInv'
  BY <1>5, UpdateKeeps DEF UpdateFails
<1> QED BY <1>1, <1>2, <1>3, <1>4, <1>5 DEF Next, vars, Capture

LEMMA PipelineSafe == Spec => [](ClientInv /\ PipelineInv)
<1>1. Init => ClientInv /\ PipelineInv
  BY ClientInvInit DEF Init, PipelineInv, EmptyBag, SetToBag
<1>2. (ClientInv /\ PipelineInv) /\ [Next]_vars => (ClientInv /\ PipelineInv)'
  BY UsageStep, PipelineStep
<1> QED BY <1>1, <1>2, PTL DEF Spec

(* Every variable has its type, however processes, deliveries and updates  *)
(* interleave.                                                             *)
THEOREM UsageTypes == Spec => []TypeOK
<1>1. ASSUME NEW S PROVE IsABag(SetToBag(S)) /\ BagToSet(SetToBag(S)) = S
  BY DEF IsABag, SetToBag, BagToSet
<1>2. ClientInv /\ PipelineInv => TypeOK
  <2> SUFFICES ASSUME ClientInv, PipelineInv PROVE TypeOK
    OBVIOUS
  <2>1. ASSUME NEW s \in Silver
        PROVE  IsABag(silver[s]) /\ BagToSet(silver[s]) \subseteq bronze
    BY <1>1 DEF PipelineInv
  <2>2. ASSUME NEW w \in Views
        PROVE  IsABag(view[w]) /\ BagToSet(view[w]) \subseteq bronze
    <3>1. IsABag(view[w]) /\ BagToSet(view[w]) = DOMAIN view[w]
      BY <1>1 DEF PipelineInv
    <3> QED BY <3>1 DEF PipelineInv
  <2>3. ClientTypeOK
    BY DEF ClientInv
  <2>4. landed \subseteq Copies /\ bronze \subseteq landed /\ read \in [Silver -> SUBSET bronze]
    BY DEF PipelineInv
  <2> QED BY <2>1, <2>2, <2>3, <2>4 DEF TypeOK
<1> QED BY <1>2, PipelineSafe, PTL

(* Whichever flows fail and are run again, a view holds of every line that *)
(* was delivered one copy per delivery at most, and only lines of its kind.*)
THEOREM CountsOneEach == Spec => []OneEach
<1>1. ASSUME NEW S, NEW r \in S PROVE SetToBag(S)[r] = 1
  BY DEF SetToBag
<1>2. PipelineInv => OneEach
  <2> SUFFICES ASSUME PipelineInv, NEW w \in Views, NEW r \in DOMAIN view[w]
               PROVE  r \in landed /\ Line(r).kind = KindOf(w) /\ view[w][r] = 1
    BY DEF OneEach
  <2>1. bronze \subseteq landed /\ r \in bronze /\ Line(r).kind = KindOf(w)
    BY DEF PipelineInv
  <2>2. view[w] = SetToBag(DOMAIN view[w])
    BY DEF PipelineInv
  <2> DEFINE D == DOMAIN view[w]
  <2>3. SetToBag(D)[r] = 1
    BY <1>1
  <2> QED BY <2>1, <2>2, <2>3
<1> QED BY <1>2, PipelineSafe, PTL

(* For any loggers, failures and redeliveries: a view counts no call more  *)
(* often than its line was delivered, and under no key but its own.        *)
THEOREM NoCallCountedTwice == Spec => []CountedOncePerCopy
<1>1. PipelineInv /\ OneEach => CountedOncePerCopy
  <2> SUFFICES ASSUME PipelineInv, OneEach, NEW w \in Views, NEW k \in Names
               PROVE  CallsTotal(w, k) <=
                        Cardinality({r \in landed : /\ Line(r).kind = KindOf(w)
                                                    /\ Line(r).key = k})
    BY DEF CountedOncePerCopy
  <2> DEFINE L == {r \in landed : Line(r).kind = KindOf(w) /\ Line(r).key = k}
             T == UNION {{r} \X (1..view[w][r]) : r \in Calls(w, k)}
             f == [c \in T |-> c[1]]
  <2>1. IsFiniteSet(L)
    <3>1. 1 \in Int /\ MaxLines \in Int /\ MaxCopies \in Int
      BY ClientAssumption, LoggersAssumption
    <3>2. IsFiniteSet(1..MaxLines) /\ IsFiniteSet(1..MaxCopies)
      BY <3>1, FS_Interval
    <3>3. IsFiniteSet(Copies)
      BY <3>2, FS_Product DEF Copies
    <3>4. L \in SUBSET Copies
      BY DEF PipelineInv
    <3> QED BY <3>3, <3>4, FS_Subset
  <2>2. \A c \in T : \E r \in L : c = <<r, 1>>
    <3> SUFFICES ASSUME NEW r \in Calls(w, k), NEW n \in 1..view[w][r]
                 PROVE  r \in L /\ <<r, n>> = <<r, 1>>
      OBVIOUS
    <3>1. r \in DOMAIN view[w] /\ Line(r).key = k
      BY DEF Calls, BagToSet
    <3>2. r \in landed /\ Line(r).kind = KindOf(w) /\ view[w][r] = 1
      BY <3>1 DEF OneEach
    <3> QED BY <3>1, <3>2
  <2>3. f \in Injection(T, L)
    <3> HIDE DEF T, L
    <3>1. f \in [T -> L]
      BY <2>2
    <3>2. ASSUME NEW c \in T, NEW d \in T, f[c] = f[d] PROVE c = d
      BY <2>2, <3>2
    <3> QED BY <3>1, <3>2 DEF Injection, IsInjective
  <2> HIDE DEF f, T, L
  <2>4. Cardinality(T) <= Cardinality(L)
    BY <2>1, <2>3, FS_Injection
  <2> QED BY <2>4 DEF CallsTotal, Counted, T, L
<1> QED BY <1>1, PipelineSafe, CountsOneEach, PTL
=============================================================================
