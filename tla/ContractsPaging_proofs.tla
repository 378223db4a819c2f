----------------------- MODULE ContractsPaging_proofs -----------------------
(* What a crawl of ContractsIngestion collects and leaves behind: that a   *)
(* delivery which reports success has stored every contract, that paging   *)
(* loses nothing it could have had, and that it is deterministic.          *)
EXTENDS ContractsIngestion_proofs

USE DEF stored

-----------------------------------------------------------------------------
(* The steps of one delivery.                                              *)

(* Delivery e stays where it is in its list and in its crawl.              *)
SamePlace(e) ==
    /\ date'[e] = date[e] /\ upper'[e] = upper[e] /\ arg'[e] = arg[e]
    /\ rank'[e] = rank[e] /\ pos'[e] = pos[e]

SameCrawl(e) ==
    SamePlace(e) /\ cursor'[e] = cursor[e] /\ data'[e] = data[e] /\ acc'[e] = acc[e]

Stays(e) == phase'[e] = phase[e] /\ SameCrawl(e) /\ clean'[e] = clean[e]

Begins(e) ==
    /\ phase'[e] = "paging" /\ cursor'[e] = Lower(date'[e])
    /\ data'[e] = <<>> /\ acc'[e] = <<>>

TakesPage(e, page) ==
    /\ phase[e] = "paging" /\ phase'[e] = "paging" /\ SamePlace(e)
    /\ StrLess(cursor[e], upper[e]) /\ page \notin {<<>>, data[e]}
    /\ data'[e] = page /\ acc'[e] = acc[e] \o page
    /\ cursor'[e] = page[Len(page)].block
    /\ clean'[e] => clean[e] /\ page = FullPage(e)

Pages(e) == \E head \in HeadsNow : TakesPage(e, PageOf(e, head))

(* The crawl of a contract ends by itself, or by a failure of the API.     *)
Ends(e) ==
    /\ phase[e] = "paging" /\ phase'[e] = "heading" /\ SameCrawl(e)
    /\ clean'[e] => /\ clean[e]
                    /\ \/ ~StrLess(cursor[e], upper[e])
                       \/ FullPage(e) \in {<<>>, data[e]}

Misses(e) ==
    /\ phase[e] = "heading" /\ phase'[e] = "putting"
    /\ SameCrawl(e) /\ clean'[e] = clean[e]

(* A delivery that is running after a step has done one of five things.    *)
LEMMA RunningSteps ==
    ASSUME Safe, [Next]_vars, NEW e \in Events, Active(e)'
    PROVE  Stays(e) \/ Begins(e) \/ Pages(e) \/ Ends(e) \/ Misses(e)
<1> USE DEF Safe, TypeOK, SamePlace, SameCrawl, Stays, Begins
<1>1. CASE Tick \/ UNCHANGED vars
  BY <1>1 DEF Tick, local, vars
<1>2. ASSUME NEW f \in Events, f # e, Send(f) \/ Advance(f) \/ Fault(f)
      PROVE  Stays(e)
  <2>1. CASE Send(f) \/ StartFails(f) \/ Start(f) \/ Crash(f)
    BY <1>2, <2>1 DEF Send, StartFails, Start, Crash
  <2>2. CASE NextPage(f) \/ EndOfPages(f) \/ ApiError(f) \/ HeadMissing(f)
    BY <1>2, <2>2 DEF NextPage, EndOfPages, LimitsMet, ApiError, HeadMissing
  <2>3. CASE HeadFound(f) \/ Put(f)
    BY <1>2, <2>3 DEF HeadFound, Put, NextContract
  <2> QED BY <1>2, <2>1, <2>2, <2>3 DEF Advance, Fault
<1>3. CASE Send(e) \/ StartFails(e) \/ Crash(e)
  BY <1>3 DEF Send, StartFails, Crash, AfterFailure, Active
<1>4. CASE Start(e)
  <2>1. phase'[e] = "paging" /\ date'[e] = ExecDate(e) /\ cursor'[e] = Lower(ExecDate(e))
    BY <1>4 DEF Start, Active
  <2> QED BY <1>4, <2>1 DEF Start, Lower
<1>5. CASE NextPage(e)
  <2>1. PICK head \in HeadsNow :
           /\ PageOf(e, head) \notin {<<>>, data[e]}
           /\ data' = [data EXCEPT ![e] = PageOf(e, head)]
           /\ acc' = [acc EXCEPT ![e] = @ \o PageOf(e, head)]
           /\ cursor' = [cursor EXCEPT
                  ![e] = PageOf(e, head)[Len(PageOf(e, head))].block]
           /\ clean' = [clean EXCEPT ![e] = StillClean(e, PageOf(e, head))]
    BY <1>5 DEF NextPage
  <2> DEFINE page == PageOf(e, head)
  <2> HIDE DEF page
  <2>2. /\ page \notin {<<>>, data[e]}
        /\ data' = [data EXCEPT ![e] = page]
        /\ acc' = [acc EXCEPT ![e] = @ \o page]
        /\ cursor' = [cursor EXCEPT ![e] = page[Len(page)].block]
        /\ clean' = [clean EXCEPT ![e] = StillClean(e, page)]
    BY <2>1 DEF page
  <2>3. TakesPage(e, page)
    BY <1>5, <2>2 DEF NextPage, InLoop, TakesPage, StillClean
  <2> QED BY <2>3 DEF Pages, page
<1>6. CASE EndOfPages(e)
  <2>1. phase[e] = "paging" /\ phase'[e] = "heading" /\ SameCrawl(e)
    BY <1>6 DEF EndOfPages, LimitsMet, InLoop
  <2>2. CASE LimitsMet(e)
    BY <2>1, <2>2 DEF LimitsMet, InLoop, Ends
  <2>3. CASE ~LimitsMet(e)
    <3>1. PICK head \in HeadsNow :
             /\ PageOf(e, head) \in {<<>>, data[e]}
             /\ clean' = [clean EXCEPT ![e] = StillClean(e, PageOf(e, head))]
      BY <1>6, <2>3 DEF EndOfPages
    <3>2. clean'[e] => clean[e] /\ PageOf(e, head) = FullPage(e)
      BY <3>1 DEF StillClean
    <3> QED BY <2>1, <3>1, <3>2 DEF Ends
  <2> QED BY <2>2, <2>3
<1>7. CASE ApiError(e)
  BY <1>7 DEF ApiError, InLoop, Ends
<1>8. CASE HeadMissing(e)
  BY <1>8 DEF HeadMissing, Misses
<1>9. CASE HeadFound(e) \/ Put(e)
  <2>1. NextContract(e)
    BY <1>9 DEF HeadFound, Put
  <2> QED BY <2>1 DEF NextContract, Active, Lower
<1> QED BY <1>1, <1>2, <1>3, <1>4, <1>5, <1>6, <1>7, <1>8, <1>9 DEF Next, Advance, Fault

(* An object changes only when a delivery puts it.                         *)
LEMMA ObjectSteps ==
    ASSUME Safe, [Next]_vars, NEW k \in Keys
    PROVE  \/ /\ objects'[k] = objects[k] /\ origin'[k] = origin[k]
              /\ made'[k] = made[k]
           \/ \E e \in Events :
                /\ Put(e) /\ phase[e] = "putting" /\ k = Key(e)
                /\ objects'[k] = acc[e] /\ origin'[k] = clean[e]
                /\ made'[k] = date[e]
<1>1. ASSUME NEW e \in Events, Put(e)
      PROVE  \/ /\ objects'[k] = objects[k] /\ origin'[k] = origin[k]
                /\ made'[k] = made[k]
             \/ /\ k = Key(e) /\ objects'[k] = acc[e] /\ origin'[k] = clean[e]
                /\ made'[k] = date[e]
  BY <1>1 DEF Put, Safe, TypeOK
<1>2. CASE \E e \in Events : Put(e)
  BY <1>1, <1>2 DEF Put
<1>3. CASE ~\E e \in Events : Put(e)
  BY <1>3
  DEF Next, vars, Tick, Send, Advance, Fault, Start, StartFails, NextPage,
      EndOfPages, ApiError, HeadFound, HeadMissing, Crash
<1> QED BY <1>2, <1>3

(* The histories do not change, nor do the windows cut out of them.        *)
LEMMA HistoryStays ==
    ASSUME [Next]_vars
    PROVE  txs' = txs
BY DEF Next, vars, local, Tick, Send, Advance, Fault, Start, StartFails,
       NextPage, EndOfPages, ApiError, HeadFound, HeadMissing, Put, Crash,
       NextContract

-----------------------------------------------------------------------------
(* A delivery that reports success.                                        *)

(* What is stored is never deleted.                                        *)
LEMMA ObjectsStay ==
    ASSUME Safe, [Next]_vars, NEW k \in Keys, objects[k] # NoObject
    PROVE  objects'[k] # NoObject
<1>1. \A e \in Events : acc[e] # NoObject
  BY NoObjectAssumption DEF Safe, TypeOK
<1> QED BY <1>1, ObjectSteps

Reports(e) == Active(e) \/ phase[e] = "done"

KeyAt(e, i) == <<rank[e][i], Truncated(date[e])>>

(* The contracts before the current one are stored under the hour of the   *)
(* delivery, whose exec_date is that of the event if the event has one.    *)
LeftBehind(e) ==
    /\ arg[e] \in {NoDate, date[e]}
    /\ phase[e] = "done" => pos[e] = Len(rank[e]) + 1
    /\ \A i \in 1..Len(rank[e]) :
         i < pos[e] => objects[KeyAt(e, i)] # NoObject

ProgressInv == \A e \in Events : Reports(e) => LeftBehind(e)

(* The contracts a delivery has dealt with are stored, a step later too.   *)
LEMMA NextContractLeaves ==
    ASSUME Safe, ProgressInv, [Next]_vars, NEW e \in Events, Active(e),
           NextContract(e), objects'[Key(e)] # NoObject
    PROVE  LeftBehind(e)'
<1>1. /\ pos[e] \in 1..Len(rank[e]) /\ rank[e] \in Seq(Contracts)
      /\ Truncated(date[e]) \in Hours /\ arg[e] \in {NoDate, date[e]}
      /\ \A i \in 1..Len(rank[e]) :
           i < pos[e] => objects[KeyAt(e, i)] # NoObject
  BY DEF Safe, TypeOK, DeliveryOK, ProgressInv, Reports, LeftBehind, Hours
<1>2. /\ date'[e] = date[e] /\ rank'[e] = rank[e] /\ arg'[e] = arg[e]
      /\ pos'[e] = pos[e] + 1
      /\ phase'[e] = "done" => ~(pos[e] < Len(rank[e]))
  BY DEF NextContract, Safe, TypeOK
<1>3. ASSUME NEW i \in 1..Len(rank[e]), i < pos[e] + 1
      PROVE  objects'[KeyAt(e, i)] # NoObject
  <2>1. KeyAt(e, i) \in Keys
    BY <1>1 DEF Keys, KeyAt
  <2>2. CASE i = pos[e]
    BY <2>2 DEF Key, Current, KeyAt
  <2>3. CASE i # pos[e]
    BY <1>1, <1>3, <2>1, <2>3, ObjectsStay
  <2> QED BY <2>2, <2>3
<1>4. Len(rank[e]) \in Nat
  BY <1>1
<1> QED BY <1>1, <1>2, <1>3, <1>4 DEF LeftBehind, KeyAt

(* A delivery moves in its list by starting or by ending with a contract.  *)
LEMMA PlaceSteps ==
    ASSUME Safe, [Next]_vars, NEW e \in Events, Reports(e)'
    PROVE  \/ Start(e) \/ HeadFound(e) \/ Put(e)
           \/ Reports(e) /\ SamePlace(e) /\ (phase'[e] = "done" => phase[e] = "done")
<1> USE DEF Safe, TypeOK, SamePlace, Reports, Active
<1>1. CASE Tick \/ UNCHANGED vars
  BY <1>1 DEF Tick, local, vars
<1>2. ASSUME NEW f \in Events, Send(f) \/ StartFails(f) \/ Crash(f)
      PROVE  Reports(e) /\ SamePlace(e) /\ (phase'[e] = "done" => phase[e] = "done")
  BY <1>2 DEF Send, StartFails, Crash, AfterFailure
<1>3. ASSUME NEW f \in Events, NextPage(f) \/ EndOfPages(f) \/ ApiError(f) \/ HeadMissing(f)
      PROVE  Reports(e) /\ SamePlace(e) /\ (phase'[e] = "done" => phase[e] = "done")
  BY <1>3 DEF NextPage, EndOfPages, LimitsMet, ApiError, HeadMissing, InLoop
<1>4. ASSUME NEW f \in Events, f # e, Start(f) \/ HeadFound(f) \/ Put(f)
      PROVE  Reports(e) /\ SamePlace(e) /\ (phase'[e] = "done" => phase[e] = "done")
  BY <1>4 DEF Start, HeadFound, Put, NextContract
<1> QED BY <1>1, <1>2, <1>3, <1>4 DEF Next, Advance, Fault

LEMMA ProgressStep == Safe /\ ProgressInv /\ [Next]_vars => ProgressInv'
<1> SUFFICES ASSUME Safe, ProgressInv, [Next]_vars, NEW e \in Events, Reports(e)'
             PROVE  LeftBehind(e)'
  BY DEF ProgressInv
<1>1. ASSUME Reports(e), SamePlace(e), phase'[e] = "done" => phase[e] = "done"
      PROVE  LeftBehind(e)'
  <2>1. /\ rank[e] \in Seq(Contracts) /\ Truncated(date[e]) \in Hours
        /\ LeftBehind(e)
    BY <1>1 DEF Safe, TypeOK, ProgressInv, Hours
  <2>2. \A i \in 1..Len(rank[e]) : KeyAt(e, i) \in Keys
    BY <2>1 DEF Keys, KeyAt
  <2>3. \A i \in 1..Len(rank[e]) : KeyAt(e, i)' = KeyAt(e, i)
    BY <1>1 DEF SamePlace, KeyAt
  <2> QED BY <1>1, <2>1, <2>2, <2>3, ObjectsStay DEF LeftBehind, SamePlace
<1>2. CASE Start(e)
  <2>1. /\ date'[e] = ExecDate(e) /\ pos'[e] = 1 /\ arg'[e] = arg[e]
        /\ phase'[e] = "done" => rank'[e] = <<>>
    BY <1>2 DEF Start, Safe, TypeOK
  <2> QED BY <2>1 DEF LeftBehind, ExecDate
<1>3. CASE HeadFound(e) \/ Put(e)
  <2>1. Active(e) /\ NextContract(e)
    BY <1>3 DEF HeadFound, Put, Active
  <2>2. Key(e) \in Keys
    BY <2>1, CurrentType
  <2>3. objects'[Key(e)] # NoObject
    BY <1>3, <2>2, NoObjectAssumption DEF HeadFound, Put, Safe, TypeOK
  <2> QED BY <2>1, <2>3, NextContractLeaves
<1> QED BY <1>1, <1>2, <1>3, PlaceSteps

LEMMA ProgressSafe == Spec => []ProgressInv
<1>1. Init => ProgressInv
  BY DEF Init, ProgressInv, Reports, Active
<1> QED BY <1>1, Typing, ProgressStep, PTL DEF Spec

(* A delivery that is done leaves every contract stored under the hour of  *)
(* its event: no retry drifts to the hour in which it happens to run.      *)
PinnedHourStored ==
    \A e \in Events, t \in Moments : (phase[e] = "done" /\ arg[e] = t) =>
        \A i \in 1..Len(rank[e]) : objects[<<rank[e][i], Truncated(t)>>] # NoObject

(* A delivery that reports 200 has left an object for every contract it    *)
(* listed, whatever ran, failed or was retried beside it.                  *)
THEOREM DoneIsIngested == Spec => [](DoneMeansIngested /\ PinnedHourStored)
<1>1. Safe /\ ProgressInv => DoneMeansIngested /\ PinnedHourStored
  <2> SUFFICES ASSUME Safe, ProgressInv, NEW e \in Events, phase[e] = "done"
               PROVE  /\ arg[e] \in {NoDate, date[e]}
                      /\ \A i \in 1..Len(rank[e]) :
                           objects[KeyAt(e, i)] # NoObject
    BY ConstantsAssumption DEF DoneMeansIngested, PinnedHourStored, KeyAt
  <2>1. LeftBehind(e) /\ Len(rank[e]) \in Nat
    BY DEF ProgressInv, Reports, Safe, TypeOK
  <2> QED BY <2>1 DEF LeftBehind
<1> QED BY <1>1, Typing, ProgressSafe, PTL

-----------------------------------------------------------------------------
(* Paging loses nothing it could have had.                                 *)

(* The transactions s are all of c's window of t, but for those that the   *)
(* loop is known to lose.                                                  *)
Whole(c, t, s) == \A x \in Window(c, t) \ Content(s) : LossExplained(c, t, x)

(* What the window has and was not collected is still ahead of the cursor. *)
Collected(e) ==
    \A i \in Hits(Current(e), Lower(date[e]), Upper(date[e])) :
        \/ txs[Current(e)][i] \in Content(acc[e])
        \/ cursor[e] <= txs[Current(e)][i].block

(* The last page is part of what was collected and left the cursor at its  *)
(* last block.                                                             *)
PageKept(e) ==
    data[e] # <<>> =>
        /\ Content(data[e]) \subseteq Content(acc[e])
        /\ cursor[e] = data[e][Len(data[e])].block

CrawlOK(e) ==
    /\ (phase[e] = "paging" /\ clean[e]) => Collected(e) /\ PageKept(e)
    /\ (phase[e] \in {"heading", "putting"} /\ clean[e])
         => Whole(Current(e), date[e], acc[e])

(* The window of a running delivery.                                       *)
LEMMA WindowType ==
    ASSUME Safe, NEW e \in Events, Active(e)
    PROVE  /\ txs \in Histories /\ Current(e) \in Contracts /\ date[e] \in Moments
           /\ cursor[e] \in Nat /\ Lower(date[e]) \in Nat /\ upper[e] \in Nat
           /\ Lower(date[e]) <= cursor[e]
           /\ clean[e] => upper[e] = Upper(date[e])
           /\ acc[e] \in Seq(Tx) /\ data[e] \in Seq(Tx)
           /\ \A i \in 1..Len(txs[Current(e)]) : txs[Current(e)][i].block \in Nat
<1>1. /\ txs \in Histories /\ Current(e) \in Contracts /\ date[e] \in Moments
      /\ cursor[e] \in Nat /\ Lower(date[e]) <= cursor[e] /\ upper[e] \in Nat
      /\ clean[e] => upper[e] = Upper(date[e])
      /\ acc[e] \in Seq(Tx) /\ data[e] \in Seq(Tx)
  BY CurrentType DEF Safe, TypeOK, DeliveryOK
<1>2. Lower(date[e]) \in Nat
  BY <1>1, WindowLimits
<1>3. txs[Current(e)] \in Seq(Tx)
  BY <1>1, HistoriesAssumption
<1>4. \A i \in 1..Len(txs[Current(e)]) : txs[Current(e)][i] \in Tx
  BY <1>3
<1> QED BY <1>1, <1>2, <1>4 DEF Tx

(* What is ahead of the cursor is asked for by the next page.              *)
LEMMA StillAhead ==
    ASSUME Safe, NEW e \in Events, Active(e),
           NEW i \in Hits(Current(e), Lower(date[e]), Upper(date[e])),
           cursor[e] <= txs[Current(e)][i].block
    PROVE  i \in Hits(Current(e), cursor[e], Upper(date[e]))
BY DEF Hits

(* One more page: what it leaves out is at its last block or later.        *)
LEMMA PageCollects ==
    ASSUME Safe, NEW e \in Events, NEW page \in Seq(Tx), TakesPage(e, page),
           clean'[e], Collected(e), txs' = txs
    PROVE  Collected(e)' /\ PageKept(e)'
<1> DEFINE c == Current(e)
<1>1. Active(e)
  BY DEF TakesPage, Active
<1>2. /\ date'[e] = date[e] /\ Current(e)' = Current(e)
      /\ data'[e] = page /\ acc'[e] = acc[e] \o page
      /\ cursor'[e] = page[Len(page)].block
  BY DEF TakesPage, SamePlace, Current
<1>3. page \in Seq(Tx) /\ acc[e] \in Seq(Tx)
  BY <1>1, WindowType
<1>4. page = Page(c, cursor[e], Upper(date[e])) /\ upper[e] = Upper(date[e])
  BY <1>1, WindowType DEF TakesPage, FullPage
<1>5. \A i \in Hits(c, Lower(date[e]), Upper(date[e])) :
        i \in 1..Len(txs[c])
  BY DEF Hits
<1>6. Content(acc[e] \o page) = Content(acc[e]) \cup Content(page)
  <2>1. Content(acc[e] \o page) \subseteq Content(acc[e]) \cup Content(page)
    BY <1>3 DEF Content
  <2>2. Content(acc[e]) \subseteq Content(acc[e] \o page)
    <3> SUFFICES ASSUME NEW i \in DOMAIN acc[e] PROVE acc[e][i] \in Content(acc[e] \o page)
      BY DEF Content
    <3>1. i \in DOMAIN (acc[e] \o page) /\ (acc[e] \o page)[i] = acc[e][i]
      BY <1>3
    <3> QED BY <3>1 DEF Content
  <2>3. Content(page) \subseteq Content(acc[e] \o page)
    <3> SUFFICES ASSUME NEW i \in DOMAIN page PROVE page[i] \in Content(acc[e] \o page)
      BY DEF Content
    <3>1. /\ Len(acc[e]) + i \in DOMAIN (acc[e] \o page)
          /\ (acc[e] \o page)[Len(acc[e]) + i] = page[i]
      BY <1>3
    <3> QED BY <3>1 DEF Content
  <2> QED BY <2>1, <2>2, <2>3
<1>7. ASSUME NEW i \in Hits(c, Lower(date[e]), Upper(date[e])),
             txs[c][i] \notin Content(acc[e] \o page)
      PROVE  page[Len(page)].block <= txs[c][i].block
  <2>1. txs[c][i] \notin Content(acc[e]) /\ txs[c][i] \notin Content(page)
    BY <1>6, <1>7
  <2>2. i \in Hits(c, cursor[e], Upper(date[e]))
    BY <1>1, <2>1, StillAhead DEF Collected
  <2> QED BY <1>1, <1>4, <2>1, <2>2, PageCovers, WindowType
<1>8. Collected(e)'
  <2>1. Hits(c, Lower(date[e]), Upper(date[e]))' = Hits(c, Lower(date[e]), Upper(date[e]))
    BY <1>2 DEF Hits, Lower, Upper
  <2> QED BY <1>2, <1>7, <2>1, SMTT(20) DEF Collected, Content
<1>9. PageKept(e)'
  <2>1. Content(page) \subseteq Content(acc[e] \o page)
    BY <1>6
  <2> QED BY <1>2, <2>1 DEF PageKept
<1> QED BY <1>8, <1>9

(* Why the loop may stop with a transaction still ahead of the cursor: its *)
(* condition compares text, or the page it repeats fills a block.          *)
LEMMA EndExplained ==
    ASSUME Safe, NEW e \in Events, Active(e), clean[e], Collected(e), PageKept(e),
           \/ ~StrLess(cursor[e], upper[e])
           \/ FullPage(e) \in {<<>>, data[e]}
    PROVE  Whole(Current(e), date[e], acc[e])
<1> DEFINE c == Current(e)
           d == date[e]
<1> SUFFICES ASSUME NEW i \in Hits(c, Lower(d), Upper(d)),
                    txs[c][i] \notin Content(acc[e])
             PROVE  LossExplained(c, d, txs[c][i])
  BY DEF Whole, Window
<1>0. upper[e] = Upper(d)
  BY WindowType
<1>1. /\ i \in Hits(c, cursor[e], Upper(d)) /\ cursor[e] \in Lower(d)..txs[c][i].block
  <2>1. cursor[e] <= txs[c][i].block
    BY DEF Collected
  <2>2. i \in 1..Len(txs[c])
    BY DEF Hits
  <2> QED BY <2>1, <2>2, StillAhead, WindowType
<1>2. CASE ~StrLess(cursor[e], upper[e])
  BY <1>0, <1>1, <1>2 DEF LossExplained
<1>3. CASE FullPage(e) \in {<<>>, data[e]}
  <2>1. FullPage(e) = Page(c, cursor[e], Upper(d))
    BY <1>0 DEF FullPage
  <2>2. txs[c][i] \notin Content(FullPage(e))
    <3>1. CASE FullPage(e) = <<>>
      BY <3>1 DEF Content
    <3>2. CASE FullPage(e) # <<>>
      BY <1>3, <3>2 DEF PageKept
    <3> QED BY <3>1, <3>2
  <2>3. /\ FullPage(e) # <<>>
        /\ FullPage(e)[Len(FullPage(e))].block = cursor[e]
             => InBlock(c, cursor[e]) >= Offset
    <3>1. upper[e] \in Int /\ cursor[e] \in Int
      BY WindowType
    <3> QED BY <1>0, <1>1, <2>1, <2>2, <3>1, PageCovers, WindowType
  <2>4. InBlock(c, cursor[e]) >= Offset
    BY <1>3, <2>3 DEF PageKept
  <2> QED BY <1>1, <2>4 DEF LossExplained
<1> QED BY <1>2, <1>3

(* Windows, and what is known to be lost of them, do not change.           *)
LEMMA WholeStays ==
    ASSUME [Next]_vars
    PROVE  \A c, t, s : Whole(c, t, s)' = Whole(c, t, s)
<1>1. txs' = txs
  BY HistoryStays
<1>2. \A c, lo, hi : Hits(c, lo, hi)' = Hits(c, lo, hi)
  BY <1>1 DEF Hits
<1>3. \A c, t : Window(c, t)' = Window(c, t)
  BY <1>1, <1>2 DEF Window, Lower, Upper
<1>4. \A c, b : InBlock(c, b)' = InBlock(c, b)
  BY <1>1 DEF InBlock
<1>5. \A c, t, x : LossExplained(c, t, x)' = LossExplained(c, t, x)
  BY <1>4 DEF LossExplained, Lower, Upper
<1> QED BY <1>3, <1>5 DEF Whole, Content

(* The running deliveries: each kind of step keeps what they have.         *)
LEMMA CrawlStep ==
    ASSUME Safe, [Next]_vars, NEW e \in Events, Active(e) => CrawlOK(e)
    PROVE  Active(e)' => CrawlOK(e)'
<1> SUFFICES ASSUME Active(e)' PROVE CrawlOK(e)'
  OBVIOUS
<1>1. txs' = txs
  BY HistoryStays
<1>2. \A c, lo, hi : Hits(c, lo, hi)' = Hits(c, lo, hi)
  BY <1>1 DEF Hits
<1>3. ASSUME SameCrawl(e), Collected(e) PROVE Collected(e)'
  BY <1>1, <1>2, <1>3 DEF Collected, SameCrawl, SamePlace, Current, Lower, Upper, Content
<1>4. ASSUME SameCrawl(e), PageKept(e) PROVE PageKept(e)'
  BY <1>4 DEF PageKept, SameCrawl, Content
<1>5. ASSUME SameCrawl(e), Whole(Current(e), date[e], acc[e])
      PROVE  Whole(Current(e), date[e], acc[e])'
  <2>1. Current(e)' = Current(e) /\ date'[e] = date[e] /\ acc'[e] = acc[e]
    BY <1>5 DEF SameCrawl, SamePlace, Current
  <2> QED BY <1>5, <2>1, WholeStays
<1>6. CASE Stays(e)
  <2>1. Active(e) /\ SameCrawl(e) /\ CrawlOK(e)
    BY <1>6 DEF Stays, Active
  <2> QED BY <1>3, <1>4, <1>5, <1>6, <2>1 DEF Stays, CrawlOK
<1>7. CASE Begins(e)
  <2>1. Collected(e)'
    BY <1>7 DEF Begins, Collected, Hits
  <2> QED BY <1>7, <2>1 DEF Begins, CrawlOK, PageKept
<1>8. CASE Pages(e)
  <2>1. PICK head \in HeadsNow : TakesPage(e, PageOf(e, head))
    BY <1>8 DEF Pages
  <2>2. Active(e) /\ PageOf(e, head) \in Seq(Tx)
    BY <2>1, PageOfType DEF TakesPage, Active
  <2>3. clean'[e] => Collected(e)
    BY <2>1, <2>2 DEF TakesPage, CrawlOK
  <2> QED BY <1>1, <2>1, <2>2, <2>3, PageCollects DEF CrawlOK, TakesPage
<1>9. CASE Ends(e)
  <2>1. Active(e) /\ (clean[e] => Collected(e) /\ PageKept(e))
    BY <1>9 DEF Ends, Active, CrawlOK
  <2>2. clean'[e] => Whole(Current(e), date[e], acc[e])
    BY <1>9, <2>1, EndExplained DEF Ends
  <2> QED BY <1>5, <1>9, <2>2 DEF Ends, CrawlOK
<1>10. CASE Misses(e)
  <2>1. clean[e] => Whole(Current(e), date[e], acc[e])
    BY <1>10 DEF Misses, Active, CrawlOK
  <2> QED BY <1>5, <1>10, <2>1 DEF Misses, CrawlOK
<1> QED BY <1>6, <1>7, <1>8, <1>9, <1>10, RunningSteps

CrawlsOK == \A e \in Events : Active(e) => CrawlOK(e)

LEMMA WholeStep ==
    Safe /\ CrawlsOK /\ CleanMeansWhole /\ [Next]_vars
      => CrawlsOK' /\ CleanMeansWhole'
<1> SUFFICES ASSUME Safe, CrawlsOK, CleanMeansWhole, [Next]_vars
             PROVE  CrawlsOK' /\ CleanMeansWhole'
  OBVIOUS
<1>1. CrawlsOK'
  BY CrawlStep DEF CrawlsOK
<1>2. txs' = txs
  BY HistoryStays
<1>3. \A c, t, s : Whole(c, t, s)' = Whole(c, t, s)
  BY WholeStays
<1>4. ASSUME NEW c \in Contracts, NEW h \in Hours,
             objects'[<<c, h>>] # NoObject, origin'[<<c, h>>]
      PROVE  Whole(c, made'[<<c, h>>], objects'[<<c, h>>])
  <2>1. <<c, h>> \in Keys
    BY DEF Keys
  <2>2. CASE UNCHANGED <<objects[<<c, h>>], origin[<<c, h>>], made[<<c, h>>]>>
    BY <1>4, <2>2 DEF CleanMeansWhole, Whole
  <2>3. CASE \E e \in Events :
               /\ phase[e] = "putting" /\ <<c, h>> = Key(e)
               /\ objects'[<<c, h>>] = acc[e] /\ origin'[<<c, h>>] = clean[e]
               /\ made'[<<c, h>>] = date[e]
    BY <1>4, <2>3 DEF CrawlsOK, CrawlOK, Active, Key
  <2> QED BY <2>1, <2>2, <2>3, ObjectSteps
<1>5. CleanMeansWhole'
  <2>1. \A c \in Contracts, h \in Hours :
          (objects'[<<c, h>>] # NoObject /\ origin'[<<c, h>>])
            => Whole(c, made[<<c, h>>], objects[<<c, h>>])'
    BY <1>3, <1>4
  <2> QED BY <2>1 DEF CleanMeansWhole, Whole
<1> QED BY <1>1, <1>5

(* An object that a clean crawl wrote lacks a transaction of its window    *)
(* only for a reason that LossExplained names: no interleaving, retry or   *)
(* page boundary loses another one.                                        *)
THEOREM PagingIsComplete == Spec => []CleanMeansWhole
<1>1. Init => CrawlsOK /\ CleanMeansWhole
  BY DEF Init, CrawlsOK, CleanMeansWhole, Active, Keys
<1> QED BY <1>1, Typing, WholeStep, PTL DEF Spec

-----------------------------------------------------------------------------
(* Paging is deterministic: with answers that know the whole window there  *)
(* is one outcome for a contract and an exec_date.  As nothing recursive can be defined here, the  *)
(* points a crawl may reach are the least set that is closed under its     *)
(* loop.                                                                   *)

(* A point of a crawl: cursor, last page and what was collected.           *)
Points == Nat \X Seq(Tx) \X Seq(Tx)

PageAt(c, t, p) == Page(c, p[1], Upper(t))

(* The loop goes on from point p, to point Onward.                         *)
GoesOn(c, t, p) == StrLess(p[1], Upper(t)) /\ PageAt(c, t, p) \notin {<<>>, p[2]}

Onward(c, t, p) ==
    <<PageAt(c, t, p)[Len(PageAt(c, t, p))].block, PageAt(c, t, p),
      p[3] \o PageAt(c, t, p)>>

Closed(c, t, C) == \A p \in C : GoesOn(c, t, p) => Onward(c, t, p) \in C

Reached(c, t, p) ==
    {q \in Points : \A C \in SUBSET Points : (p \in C /\ Closed(c, t, C)) => q \in C}

Outset(t) == <<Lower(t), <<>>, <<>>>>

(* What the crawl of c for exec_date t ends with.                          *)
Outcomes(c, t) ==
    {p[3] : p \in {q \in Reached(c, t, Outset(t)) : ~GoesOn(c, t, q)}}

LEMMA OnwardType ==
    ASSUME txs \in Histories, NEW c \in Contracts, NEW t \in Moments,
           NEW p \in Points, GoesOn(c, t, p)
    PROVE  Onward(c, t, p) \in Points
<1> DEFINE page == PageAt(c, t, p)
<1>1. p[1] \in Nat /\ p[3] \in Seq(Tx) /\ Upper(t) \in Int
  BY ConstantsAssumption DEF Points, Upper
<1>2. page \in Seq(Tx)
  BY <1>1, PageProperties DEF PageAt
<1>3. page # <<>>
  BY DEF GoesOn
<1> HIDE DEF page
<1>4. page[Len(page)] \in Tx
  BY <1>2, <1>3
<1>5. page[Len(page)].block \in Nat
  BY <1>4 DEF Tx
<1>6. p[3] \o page \in Seq(Tx)
  BY <1>1, <1>2
<1> QED BY <1>2, <1>5, <1>6 DEF Onward, Points, page

(* A point reaches itself, and all that follows on what it reaches.        *)
LEMMA ReachedForward ==
    ASSUME txs \in Histories, NEW c \in Contracts, NEW t \in Moments, NEW p \in Points
    PROVE  /\ p \in Reached(c, t, p)
           /\ Closed(c, t, Reached(c, t, p))
<1>1. p \in Reached(c, t, p)
  BY DEF Reached
<1>2. ASSUME NEW q \in Reached(c, t, p), GoesOn(c, t, q)
      PROVE  Onward(c, t, q) \in Reached(c, t, p)
  <2>1. q \in Points /\ Onward(c, t, q) \in Points
    BY <1>2, OnwardType DEF Reached
  <2>2. ASSUME NEW C \in SUBSET Points, p \in C, Closed(c, t, C)
        PROVE  Onward(c, t, q) \in C
    BY <1>2, <2>2 DEF Reached, Closed
  <2> QED BY <2>1, <2>2 DEF Reached
<1> QED BY <1>1, <1>2 DEF Closed

(* A point reaches another one through the point that follows it.          *)
LEMMA ReachedOnward ==
    ASSUME txs \in Histories, NEW c \in Contracts, NEW t \in Moments, NEW p \in Points,
           NEW q \in Reached(c, t, p), q # p
    PROVE  GoesOn(c, t, p) /\ q \in Reached(c, t, Onward(c, t, p))
<1>1. GoesOn(c, t, p)
  <2> SUFFICES ASSUME ~GoesOn(c, t, p) PROVE FALSE
    OBVIOUS
  <2>1. {p} \in SUBSET Points /\ Closed(c, t, {p})
    BY DEF Closed
  <2> QED BY <2>1 DEF Reached
<1>2. Onward(c, t, p) \in Points
  BY <1>1, OnwardType
<1> DEFINE R == Reached(c, t, Onward(c, t, p))
<1>3. Onward(c, t, p) \in R /\ Closed(c, t, R)
  BY <1>2, ReachedForward
<1>4. R \cup {p} \in SUBSET Points
  BY DEF Reached
<1> HIDE DEF R
<1>5. Closed(c, t, R \cup {p})
  BY <1>3 DEF Closed
<1>6. q \in R \cup {p}
  BY <1>4, <1>5 DEF Reached
<1> QED BY <1>1, <1>6 DEF R

(* Where every crawl sets out.                                             *)
LEMMA OutsetType ==
    ASSUME NEW t \in Moments
    PROVE  Outset(t) \in Points
<1>1. <<>> \in Seq(Tx) /\ Lower(t) \in Nat
  BY ConstantsAssumption DEF Lower
<1> QED BY <1>1 DEF Outset, Points

(* A crawl has one outcome.                                                *)
LEMMA OneOutcome ==
    ASSUME txs \in Histories, NEW c \in Contracts, NEW t \in Moments,
           NEW s \in Outcomes(c, t), NEW v \in Outcomes(c, t)
    PROVE  s = v
<1>0. Outset(t) \in Points
  BY OutsetType
<1>1. PICK p \in Reached(c, t, Outset(t)) : ~GoesOn(c, t, p) /\ s = p[3]
  BY DEF Outcomes
<1>2. PICK q \in Reached(c, t, Outset(t)) : ~GoesOn(c, t, q) /\ v = q[3]
  BY DEF Outcomes
<1> DEFINE D == {r \in Points : p \in Reached(c, t, r) /\ q \in Reached(c, t, r)}
<1>3. Outset(t) \in D
  BY <1>0
<1>4. ASSUME NEW r \in D, GoesOn(c, t, r) PROVE Onward(c, t, r) \in D
  <2>1. r # p /\ r # q
    BY <1>1, <1>2, <1>4
  <2>2. Onward(c, t, r) \in Points
    BY <1>4, OnwardType
  <2> QED BY <2>1, <2>2, ReachedOnward
<1>5. p \in D
  <2>1. Closed(c, t, D) /\ D \in SUBSET Points
    BY <1>4 DEF Closed
  <2> HIDE DEF D
  <2> QED BY <1>3, <2>1 DEF Reached
<1>6. q \in Reached(c, t, p) /\ p \in Points
  BY <1>5
<1>7. q = p
  BY <1>1, <1>6, ReachedOnward
<1> QED BY <1>1, <1>2, <1>7

PointOf(e) == <<cursor[e], data[e], acc[e]>>

OutcomeOK(e) ==
    /\ (phase[e] = "paging" /\ clean[e])
         => PointOf(e) \in Reached(Current(e), date[e], Outset(date[e]))
    /\ (phase[e] \in {"heading", "putting"} /\ clean[e])
         => acc[e] \in Outcomes(Current(e), date[e])

OutcomesOK == \A e \in Events : Active(e) => OutcomeOK(e)

(* An object of a clean crawl is what the crawl of its contract and of the *)
(* exec_date of its delivery ends with.                                    *)
StoredOutcomes ==
    \A c \in Contracts, h \in Hours :
        (objects[<<c, h>>] # NoObject /\ origin[<<c, h>>])
            => objects[<<c, h>>] \in Outcomes(c, made[<<c, h>>])

(* What can be reached depends on the histories alone, and they stay.      *)
LEMMA OutcomesStay ==
    ASSUME [Next]_vars
    PROVE  /\ \A c, t, p : Reached(c, t, p)' = Reached(c, t, p)
           /\ \A c, t : Outcomes(c, t)' = Outcomes(c, t)
<1>1. txs' = txs
  BY HistoryStays
<1>2. \A c, lo, hi : Page(c, lo, hi)' = Page(c, lo, hi)
  BY <1>1 DEF Page, Hits
<1>3. \A c, t, p : PageAt(c, t, p)' = PageAt(c, t, p)
  BY <1>2 DEF PageAt, Upper
<1>4. /\ \A c, t, p : GoesOn(c, t, p)' = GoesOn(c, t, p)
      /\ \A c, t, p : Onward(c, t, p)' = Onward(c, t, p)
  BY <1>3 DEF GoesOn, Onward, Upper
<1>5. \A c, t, C : Closed(c, t, C)' = Closed(c, t, C)
  BY <1>4 DEF Closed
<1>6. \A c, t, p : Reached(c, t, p)' = Reached(c, t, p)
  BY <1>5 DEF Reached
<1>7. \A c, t : Outcomes(c, t)' = Outcomes(c, t)
  BY <1>4, <1>6 DEF Outcomes, Outset, Lower
<1> QED BY <1>6, <1>7

LEMMA OutcomeStep ==
    ASSUME Safe, [Next]_vars, NEW e \in Events, Active(e) => OutcomeOK(e)
    PROVE  Active(e)' => OutcomeOK(e)'
<1> SUFFICES ASSUME Active(e)' PROVE OutcomeOK(e)'
  OBVIOUS
<1>1. ASSUME SamePlace(e) PROVE Current(e)' = Current(e) /\ date'[e] = date[e]
  BY <1>1 DEF SamePlace, Current
<1>2. \A t : Outset(t)' = Outset(t)
  BY DEF Outset, Lower
<1>3. CASE Stays(e)
  <2>1. Active(e) /\ OutcomeOK(e) /\ Current(e)' = Current(e) /\ date'[e] = date[e]
    BY <1>1, <1>3 DEF Stays, SameCrawl, Active
  <2>2. PointOf(e)' = PointOf(e)
    BY <1>3 DEF Stays, SameCrawl, PointOf
  <2> QED BY <1>2, <1>3, <2>1, <2>2, OutcomesStay DEF Stays, SameCrawl, OutcomeOK
<1>4. CASE Begins(e)
  <2>1. PointOf(e)' = Outset(date'[e])
    BY <1>4 DEF Begins, PointOf, Outset, Lower
  <2>2. Safe'
    BY SafeStep
  <2>3. (txs \in Histories /\ Current(e) \in Contracts /\ date[e] \in Moments)'
    <3>1. (/\ pos[e] \in 1..Len(rank[e]) /\ rank[e] \in Seq(Contracts)
           /\ txs \in Histories /\ date[e] \in Moments)'
      BY <2>2 DEF Safe, TypeOK, DeliveryOK
    <3> QED BY <3>1 DEF Current
  <2>4. (Outset(date[e]) \in Reached(Current(e), date[e], Outset(date[e])))'
    BY <2>3, ReachedForward, OutsetType, OutcomesStay, HistoryStays
  <2> QED BY <1>4, <2>1, <2>4 DEF Begins, OutcomeOK, Outset, Lower
<1>5. CASE Pages(e)
  <2> DEFINE c == Current(e)
             t == date[e]
  <2>0. PICK head \in HeadsNow : TakesPage(e, PageOf(e, head))
    BY <1>5 DEF Pages
  <2> DEFINE page == PageOf(e, head)
  <2> HIDE DEF page
  <2>1. TakesPage(e, page)
    BY <2>0 DEF page
  <2>2. SUFFICES ASSUME clean'[e]
                 PROVE  PointOf(e)' \in Reached(c, t, Outset(t))
    <3>1. c' = c /\ t' = t /\ phase'[e] = "paging"
      BY <1>1, <2>1 DEF TakesPage
    <3> HIDE DEF c, t
    <3> QED BY <1>2, <3>1, OutcomesStay DEF OutcomeOK, c, t
  <2>3. Active(e) /\ clean[e] /\ PointOf(e) \in Reached(c, t, Outset(t))
    BY <2>1, <2>2 DEF TakesPage, Active, OutcomeOK
  <2>4. upper[e] = Upper(t)
    BY <2>3, WindowType
  <2>5. page = PageAt(c, t, PointOf(e))
    BY <2>1, <2>2, <2>4 DEF TakesPage, FullPage, PageAt, PointOf
  <2>6. GoesOn(c, t, PointOf(e)) /\ PointOf(e)' = Onward(c, t, PointOf(e))
    BY <2>1, <2>4, <2>5 DEF TakesPage, GoesOn, Onward, PointOf
  <2> QED BY <2>3, <2>6, ReachedForward, OutsetType, WindowType DEF Closed
<1>6. CASE Ends(e)
  <2>1. /\ Active(e)
        /\ clean[e] => PointOf(e) \in Reached(Current(e), date[e], Outset(date[e]))
    BY <1>6 DEF Ends, Active, OutcomeOK
  <2>2. clean[e] => upper[e] = Upper(date[e])
    BY <2>1, WindowType
  <2>3. clean'[e] => clean[e] /\ ~GoesOn(Current(e), date[e], PointOf(e))
    BY <1>6, <2>2 DEF Ends, GoesOn, FullPage, PageAt, PointOf
  <2>4. clean'[e] => acc[e] \in Outcomes(Current(e), date[e])
    BY <2>1, <2>3 DEF Outcomes, PointOf
  <2>5. acc'[e] = acc[e] /\ Current(e)' = Current(e) /\ date'[e] = date[e]
    BY <1>1, <1>6 DEF Ends, SameCrawl
  <2> QED BY <1>6, <2>4, <2>5, OutcomesStay DEF Ends, OutcomeOK
<1>7. CASE Misses(e)
  <2>1. clean[e] => acc[e] \in Outcomes(Current(e), date[e])
    BY <1>7 DEF Misses, Active, OutcomeOK
  <2>2. /\ acc'[e] = acc[e] /\ Current(e)' = Current(e) /\ date'[e] = date[e]
        /\ clean'[e] = clean[e]
    BY <1>1, <1>7 DEF Misses, SameCrawl
  <2> QED BY <1>7, <2>1, <2>2, OutcomesStay DEF Misses, OutcomeOK
<1> QED BY <1>3, <1>4, <1>5, <1>6, <1>7, RunningSteps

(* Whichever delivery of an exec_date wrote it, a clean object is the same.*)
LEMMA StoredStep ==
    ASSUME Safe, OutcomesOK, StoredOutcomes, [Next]_vars,
           NEW c \in Contracts, NEW h \in Hours,
           objects'[<<c, h>>] # NoObject, origin'[<<c, h>>]
    PROVE  objects'[<<c, h>>] \in Outcomes(c, made'[<<c, h>>])
<1>1. <<c, h>> \in Keys
  BY DEF Keys
<1>2. CASE /\ objects'[<<c, h>>] = objects[<<c, h>>]
           /\ origin'[<<c, h>>] = origin[<<c, h>>]
           /\ made'[<<c, h>>] = made[<<c, h>>]
  BY <1>2 DEF StoredOutcomes
<1>3. CASE \E e \in Events :
             /\ phase[e] = "putting" /\ <<c, h>> = Key(e)
             /\ objects'[<<c, h>>] = acc[e] /\ origin'[<<c, h>>] = clean[e]
             /\ made'[<<c, h>>] = date[e]
  BY <1>3 DEF OutcomesOK, OutcomeOK, Active, Key
<1> QED BY <1>1, <1>2, <1>3, ObjectSteps

LEMMA OutcomesStep ==
    Safe /\ OutcomesOK /\ StoredOutcomes /\ [Next]_vars
      => OutcomesOK' /\ StoredOutcomes'
<1> SUFFICES ASSUME Safe, OutcomesOK, StoredOutcomes, [Next]_vars
             PROVE  OutcomesOK' /\ StoredOutcomes'
  OBVIOUS
<1>1. OutcomesOK'
  BY OutcomeStep DEF OutcomesOK
<1>2. StoredOutcomes'
  BY StoredStep, OutcomesStay DEF StoredOutcomes
<1> QED BY <1>1, <1>2

(* When an object replaces another one of the same exec_date, and neither  *)
(* crawl met a failure or an answer of Etherscan that was behind the       *)
(* chain, the two are the same: a race between such deliveries changes no  *)
(* data.  It says nothing of exec_dates that differ and share a key.       *)
THEOREM CleanCrawlsAreOne == Spec => CleanCrawlsAgree
<1>1. Init => OutcomesOK /\ StoredOutcomes
  BY DEF Init, OutcomesOK, StoredOutcomes, Active, Keys
<1>2. Safe /\ OutcomesOK /\ StoredOutcomes /\ [Next]_vars =>
      [\A k \in Keys :
         (/\ objects[k] # NoObject /\ origin[k] /\ origin'[k]
          /\ made'[k] = made[k])
         => objects'[k] = objects[k]]_vars
  <2> SUFFICES ASSUME Safe, OutcomesOK, StoredOutcomes, [Next]_vars,
                      NEW c \in Contracts, NEW h \in Hours,
                      objects[<<c, h>>] # NoObject, origin[<<c, h>>],
                      origin'[<<c, h>>], made'[<<c, h>>] = made[<<c, h>>]
               PROVE  objects'[<<c, h>>] = objects[<<c, h>>]
    BY DEF Keys
  <2>1. <<c, h>> \in Keys
    BY DEF Keys
  <2>2. objects[<<c, h>>] \in Outcomes(c, made[<<c, h>>])
    BY DEF StoredOutcomes
  <2>3. objects'[<<c, h>>] \in Outcomes(c, made[<<c, h>>])
    BY <2>1, ObjectsStay, StoredStep
  <2>4. txs \in Histories /\ made[<<c, h>>] \in Moments
    BY <2>1 DEF Safe, TypeOK
  <2> QED BY <2>2, <2>3, <2>4, OneOutcome
<1> QED BY <1>1, <1>2, Typing, OutcomesStep, PTL DEF Spec, CleanCrawlsAgree

-----------------------------------------------------------------------------
(* Why an event ends: what is left of it shrinks with every step of its    *)
(* deliveries, whatever the other ones do.                                 *)

Owed(e) == phase[e] = "queued" \/ Active(e)

DeliveriesLeft(e) == 2 * (MaxAttempts - attempt[e]) + (IF Active(e) THEN 1 ELSE 0)

ContractsLeft(e) == Len(rank[e]) + 1 - pos[e]

StagesLeft(e) ==
    IF phase[e] = "paging" THEN 2 ELSE IF phase[e] = "heading" THEN 1 ELSE 0

(* The first transactions of the block at which the cursor stands.         *)
BlockPage(e) == Page(Current(e), cursor[e], cursor[e])

(* The loop may stay at a block for one more page, never for two.          *)
PagesLeft(e) ==
    2 * (IF cursor[e] <= upper[e] THEN upper[e] - cursor[e] ELSE 0)
    + (IF data[e] = BlockPage(e) THEN 0 ELSE 1)

Bounded(e) ==
    /\ DeliveriesLeft(e) \in Nat
    /\ Active(e) => /\ ContractsLeft(e) \in Nat
                    /\ StagesLeft(e) \in Nat
                    /\ PagesLeft(e) \in Nat

(* The measures in the order of their weight.                              *)
Shrinks(e) ==
    \/ DeliveriesLeft(e)' < DeliveriesLeft(e)
    \/ /\ Active(e) /\ Active(e)' /\ DeliveriesLeft(e)' = DeliveriesLeft(e)
       /\ \/ ContractsLeft(e)' < ContractsLeft(e)
          \/ /\ ContractsLeft(e)' = ContractsLeft(e)
             /\ \/ StagesLeft(e)' < StagesLeft(e)
                \/ /\ StagesLeft(e)' = StagesLeft(e)
                   /\ PagesLeft(e)' < PagesLeft(e)

Rests(e) ==
    /\ Active(e)' = Active(e)
    /\ DeliveriesLeft(e)' = DeliveriesLeft(e)
    /\ Active(e) => /\ ContractsLeft(e)' = ContractsLeft(e)
                    /\ StagesLeft(e)' = StagesLeft(e)
                    /\ PagesLeft(e)' = PagesLeft(e)

LEMMA MeasureBounded ==
    ASSUME Safe, NEW e \in Events, Owed(e)
    PROVE  Bounded(e)
<1>1. attempt[e] \in 0..MaxAttempts /\ MaxAttempts \in Nat
  BY ConstantsAssumption DEF Safe, TypeOK
<1>2. DeliveriesLeft(e) \in Nat
  BY <1>1 DEF DeliveriesLeft
<1>3. ASSUME Active(e) PROVE ContractsLeft(e) \in Nat
  <2>1. rank[e] \in Seq(Contracts) /\ pos[e] \in 1..Len(rank[e])
    BY <1>3 DEF Safe, TypeOK, DeliveryOK
  <2>2. Len(rank[e]) \in Nat
    BY <2>1
  <2> QED BY <2>1, <2>2 DEF ContractsLeft
<1>4. ASSUME Active(e) PROVE PagesLeft(e) \in Nat
  BY <1>4, WindowType DEF PagesLeft
<1> QED BY <1>2, <1>3, <1>4 DEF Bounded, StagesLeft

(* A page that ends in the first block asked for is the page of that block *)
(* alone: what it has does not depend on where the window ends.            *)
LEMMA PageOfBlock ==
    ASSUME txs \in Histories, NEW c \in Contracts, NEW lo \in Nat, NEW hi \in Int,
           Page(c, lo, hi) # <<>>,
           Page(c, lo, hi)[Len(Page(c, lo, hi))].block = lo
    PROVE  Page(c, lo, hi) = Page(c, lo, lo)
<1> DEFINE p == Page(c, lo, hi)
           q == Page(c, lo, lo)
           Shape(h, i, j, k) ==
             /\ i <= j /\ j <= k
             /\ j - i + 1 <= Offset /\ (j < k => j - i + 1 = Offset)
             /\ Hits(c, lo, h) = i..k
             /\ Page(c, lo, h) \in Seq(Tx)
             /\ Len(Page(c, lo, h)) = j - i + 1
             /\ \A m \in 1..(j - i + 1) : Page(c, lo, h)[m] = txs[c][i + m - 1]
<1>0. \A h \in Int : Hits(c, lo, h) # {} =>
        \E a, b, z \in 1..Len(txs[c]) : Shape(h, a, b, z)
  BY PageShape
<1> HIDE DEF Shape
<1>1. PICK a, b, z \in 1..Len(txs[c]) : Shape(hi, a, b, z)
  <2>1. Hits(c, lo, hi) # {}
    BY DEF Page
  <2> QED BY <1>0, <2>1
<1>2. /\ \A k \in 1..Len(txs[c]) : txs[c][k].block \in Nat
      /\ \A k, l \in 1..Len(txs[c]) : k <= l => txs[c][k].block <= txs[c][l].block
  <2>1. txs[c] \in Seq(Tx)
    BY HistoriesAssumption
  <2>2. \A k \in 1..Len(txs[c]) : txs[c][k] \in Tx
    BY <2>1
  <2> QED BY <2>2, HistoriesAssumption DEF Tx
<1> HIDE DEF p, q
<1>3. /\ a <= b /\ b <= z
      /\ b - a + 1 <= Offset /\ (b < z => b - a + 1 = Offset)
      /\ Hits(c, lo, hi) = a..z
      /\ p \in Seq(Tx) /\ Len(p) = b - a + 1
      /\ \A i \in 1..(b - a + 1) : p[i] = txs[c][a + i - 1]
  BY <1>1 DEF Shape, p
<1>4. txs[c][b].block = lo
  <2>1. b - a + 1 \in 1..(b - a + 1) /\ a + (b - a + 1) - 1 = b
    BY <1>3
  <2> QED BY <1>3, <2>1 DEF p
<1>5. \A i \in a..b : i \in Hits(c, lo, lo)
  <2> TAKE i \in a..b
  <2>1. i \in 1..Len(txs[c]) /\ i \in a..z /\ i <= b
    BY <1>3
  <2>2. lo <= txs[c][i].block
    BY <1>3, <2>1 DEF Hits
  <2>3. txs[c][i].block <= lo
    BY <1>2, <1>4, <2>1
  <2> QED BY <2>1, <2>2, <2>3 DEF Hits
<1>6. Hits(c, lo, lo) # {}
  BY <1>3, <1>5
<1>7. PICK u, v, w \in 1..Len(txs[c]) : Shape(lo, u, v, w)
  <2>1. lo \in Int
    OBVIOUS
  <2> QED BY <1>0, <1>6, <2>1
<1>8. /\ u <= v /\ v <= w
      /\ v - u + 1 <= Offset /\ (v < w => v - u + 1 = Offset)
      /\ Hits(c, lo, lo) = u..w
      /\ q \in Seq(Tx) /\ Len(q) = v - u + 1
      /\ \A i \in 1..(v - u + 1) : q[i] = txs[c][u + i - 1]
  BY <1>7 DEF Shape, q
<1>9. Hits(c, lo, lo) \subseteq Hits(c, lo, hi)
  <2>1. lo <= hi
    <3>1. b \in Hits(c, lo, hi)
      BY <1>3
    <3> QED BY <1>4, <3>1 DEF Hits
  <2> QED BY <1>2, <2>1 DEF Hits
<1>10. u = a /\ b <= w /\ w <= z
  <2>1. u \in u..w /\ w \in u..w /\ a \in a..b /\ b \in a..b
    BY <1>3, <1>8
  <2>2. u \in a..z /\ w \in a..z /\ a \in u..w /\ b \in u..w
    BY <1>3, <1>5, <1>8, <1>9, <2>1
  <2> QED BY <2>2
<1>11. v = b
  <2>1. Offset \in Nat /\ a \in Nat /\ b \in Nat /\ z \in Nat /\ v \in Nat /\ w \in Nat
    BY <1>3, <1>8, ConstantsAssumption
  <2>2. /\ b - a + 1 <= Offset /\ (b < z => b - a + 1 = Offset)
        /\ v - a + 1 <= Offset /\ (v < w => v - a + 1 = Offset)
        /\ v <= w
    BY <1>3, <1>8, <1>10
  <2>3. ASSUME b < v PROVE FALSE
    <3>1. b < z
      BY <1>10, <2>1, <2>2, <2>3
    <3> QED BY <2>1, <2>2, <2>3, <3>1
  <2>4. ASSUME v < b PROVE FALSE
    <3>1. v < w
      BY <1>10, <2>1, <2>4
    <3> QED BY <2>1, <2>2, <2>4, <3>1
  <2> QED BY <2>1, <2>3, <2>4
<1>12. Len(p) = Len(q) /\ \A i \in 1..Len(p) : p[i] = q[i]
  BY <1>3, <1>8, <1>10, <1>11
<1>13. p = q
  BY <1>3, <1>8, <1>12, SeqEqual
<1> QED BY <1>13 DEF p, q

(* A page moves the cursor on, or was the last but for its repetition.     *)
LEMMA PageShrinks ==
    ASSUME Safe, NEW e \in Events, Pages(e), txs' = txs
    PROVE  PagesLeft(e)' < PagesLeft(e)
<1>0. PICK head \in HeadsNow : TakesPage(e, PageOf(e, head))
  BY DEF Pages
<1> DEFINE page == PageOf(e, head)
           last == page[Len(page)].block
           up == upper[e]
<1>1. Active(e) /\ page # <<>>
  BY <1>0 DEF TakesPage, Active
<1>2. cursor[e] \in Nat /\ up \in Nat /\ last \in Nat /\ cursor[e] <= last /\ last <= up
  BY <1>1, WindowType, PageOfType
<1>3. /\ cursor'[e] = last /\ upper'[e] = up /\ data'[e] = page
      /\ page # data[e] /\ Current(e)' = Current(e)
  BY <1>0 DEF TakesPage, SamePlace, Current
<1>4. last = cursor[e] => page = BlockPage(e)
  <2>1. Current(e) \in Contracts /\ txs \in Histories
    BY <1>1, WindowType
  <2>2. (IF head < up THEN head ELSE up) \in Int
    <3>1. head \in Nat
      BY ConstantsAssumption DEF HeadsNow
    <3> QED BY <1>2, <3>1
  <2> QED BY <1>1, <1>2, <2>1, <2>2, PageOfBlock DEF PageOf, BlockPage
<1>5. BlockPage(e)' = Page(Current(e), last, last)
  BY <1>3 DEF BlockPage, Page, Hits
<1>6. last = cursor[e] => data[e] # BlockPage(e) /\ data'[e] = BlockPage(e)'
  BY <1>3, <1>4, <1>5 DEF BlockPage
<1>7. PagesLeft(e) = 2 * (up - cursor[e]) + (IF data[e] = BlockPage(e) THEN 0 ELSE 1)
  BY <1>2 DEF PagesLeft
<1>8. PagesLeft(e)' = 2 * (up - last) + (IF data'[e] = BlockPage(e)' THEN 0 ELSE 1)
  BY <1>2, <1>3 DEF PagesLeft
<1> HIDE DEF up, last, page
<1>9. CASE last = cursor[e]
  BY <1>2, <1>6, <1>7, <1>8, <1>9
<1>10. CASE last # cursor[e]
  <2>1. last > cursor[e]
    BY <1>2, <1>10
  <2> QED BY <1>2, <1>7, <1>8, <2>1
<1> QED BY <1>9, <1>10

LEMMA StepShrinks ==
    ASSUME Safe, [Next]_vars, NEW e \in Events, Advance(e) \/ Fault(e)
    PROVE  Shrinks(e)
<1>1. /\ attempt[e] \in 0..MaxAttempts /\ MaxAttempts \in Nat
      /\ attempt \in [Events -> 0..MaxAttempts] /\ phase \in [Events -> Phases]
      /\ pos \in [Events -> Nat \ {0}] /\ pos[e] \in Nat
  BY ConstantsAssumption DEF Safe, TypeOK
<1>2. CASE Start(e) \/ StartFails(e)
  <2>1. ~Active(e) /\ attempt'[e] = attempt[e] + 1
    BY <1>1, <1>2 DEF Start, StartFails, Active
  <2> QED BY <1>1, <2>1 DEF Shrinks, DeliveriesLeft
<1>3. CASE Crash(e)
  <2>1. Active(e) /\ ~Active(e)' /\ attempt'[e] = attempt[e]
    BY <1>1, <1>3 DEF Crash, Active, AfterFailure
  <2> QED BY <1>1, <2>1 DEF Shrinks, DeliveriesLeft
<1>4. CASE NextPage(e)
  <2>1. Pages(e) /\ txs' = txs
    <3>1. Active(e)' /\ phase'[e] = "paging" /\ phase[e] = "paging"
      BY <1>4 DEF NextPage, InLoop, Active
    <3>2. Pages(e) \/ data'[e] = data[e] \/ data'[e] = <<>>
      BY <3>1, RunningSteps DEF Stays, Begins, Ends, Misses, SameCrawl
    <3>3. data'[e] \notin {<<>>, data[e]}
      BY <1>4 DEF NextPage, Safe, TypeOK
    <3> QED BY <3>2, <3>3, HistoryStays
  <2>2. PagesLeft(e)' < PagesLeft(e)
    BY <2>1, PageShrinks
  <2>3. /\ phase'[e] = phase[e] /\ phase[e] = "paging" /\ rank'[e] = rank[e]
        /\ pos'[e] = pos[e] /\ attempt'[e] = attempt[e]
    BY <1>4 DEF NextPage, InLoop
  <2> QED BY <2>2, <2>3 DEF Shrinks, DeliveriesLeft, ContractsLeft, StagesLeft, Active
<1>5. CASE EndOfPages(e) \/ ApiError(e)
  <2>1. /\ phase[e] = "paging" /\ phase'[e] = "heading" /\ rank'[e] = rank[e]
        /\ pos'[e] = pos[e] /\ attempt'[e] = attempt[e]
    BY <1>1, <1>5 DEF EndOfPages, LimitsMet, ApiError, InLoop
  <2> QED BY <2>1 DEF Shrinks, DeliveriesLeft, ContractsLeft, StagesLeft, Active
<1>6. CASE HeadMissing(e)
  <2>1. /\ phase[e] = "heading" /\ phase'[e] = "putting" /\ rank'[e] = rank[e]
        /\ pos'[e] = pos[e] /\ attempt'[e] = attempt[e]
    BY <1>1, <1>6 DEF HeadMissing
  <2> QED BY <2>1 DEF Shrinks, DeliveriesLeft, ContractsLeft, StagesLeft, Active
<1>7. CASE HeadFound(e) \/ Put(e)
  <2>1. /\ Active(e) /\ phase'[e] \in {"paging", "done"} /\ rank'[e] = rank[e]
        /\ pos'[e] = pos[e] + 1 /\ attempt'[e] = attempt[e]
    BY <1>1, <1>7 DEF HeadFound, Put, NextContract, Active
  <2>2. CASE phase'[e] = "done"
    <3>1. ~Active(e)'
      BY <2>2 DEF Active
    <3> QED BY <1>1, <2>1, <3>1 DEF Shrinks, DeliveriesLeft
  <2>3. CASE phase'[e] = "paging"
    <3>1. Active(e)' /\ DeliveriesLeft(e)' = DeliveriesLeft(e)
      BY <2>1, <2>3 DEF Active, DeliveriesLeft
    <3>2. Len(rank[e]) \in Nat
      BY DEF Safe, TypeOK
    <3>3. ContractsLeft(e)' < ContractsLeft(e)
      BY <1>1, <2>1, <3>2 DEF ContractsLeft
    <3> QED BY <2>1, <3>1, <3>3 DEF Shrinks
  <2> QED BY <2>1, <2>2, <2>3
<1> QED BY <1>2, <1>3, <1>4, <1>5, <1>6, <1>7 DEF Advance, Fault

LEMMA OthersRest ==
    ASSUME Safe, [Next]_vars, NEW e \in Events, Owed(e), ~(Advance(e) \/ Fault(e))
    PROVE  Rests(e)
<1> DEFINE Untouched ==
             phase'[e] = phase[e] /\ attempt'[e] = attempt[e] /\ SameCrawl(e)
<1>1. Untouched
  <2> USE DEF Safe, TypeOK, SameCrawl, SamePlace
  <2>1. CASE Tick \/ UNCHANGED vars
    BY <2>1 DEF Tick, local, vars
  <2>2. ASSUME NEW f \in Events, f # e, Send(f) \/ StartFails(f) \/ Start(f) \/ Crash(f)
        PROVE  Untouched
    BY <2>2 DEF Send, StartFails, Start, Crash
  <2>3. ASSUME NEW f \in Events, f # e,
               NextPage(f) \/ EndOfPages(f) \/ ApiError(f) \/ HeadMissing(f)
        PROVE  Untouched
    BY <2>3 DEF NextPage, EndOfPages, ApiError, HeadMissing
  <2>4. ASSUME NEW f \in Events, f # e, HeadFound(f) \/ Put(f)
        PROVE  Untouched
    BY <2>4 DEF HeadFound, Put, NextContract
  <2>5. ~Send(e)
    BY DEF Send, Owed, Active
  <2> QED BY <2>1, <2>2, <2>3, <2>4, <2>5 DEF Next, Advance, Fault
<1>2. BlockPage(e)' = BlockPage(e)
  BY <1>1, HistoryStays
  DEF BlockPage, Page, Hits, Current, SameCrawl, SamePlace
<1> QED BY <1>1, <1>2
     DEF Rests, Active, DeliveriesLeft, ContractsLeft, StagesLeft, PagesLeft,
         SameCrawl, SamePlace

(* A step of a delivery lowers what is left of its event, in an order that *)
(* is well founded, and no other step raises it: so an event that gets its *)
(* steps ends.  It is what EveryEventEnds rests on besides fairness: the   *)
(* loop that asks again for the block of its last page does not circle.    *)
EventsShrink ==
    [][\A e \in Events : Owed(e) =>
         /\ Bounded(e)
         /\ IF Advance(e) \/ Fault(e) THEN Shrinks(e) ELSE Rests(e)]_vars

THEOREM NoEventCircles == Spec => EventsShrink
<1>1. Safe /\ [Next]_vars =>
        [\A e \in Events : Owed(e) =>
           /\ Bounded(e)
           /\ IF Advance(e) \/ Fault(e) THEN Shrinks(e) ELSE Rests(e)]_vars
  BY MeasureBounded, StepShrinks, OthersRest
<1> QED BY <1>1, Typing, PTL DEF Spec, EventsShrink
=============================================================================
