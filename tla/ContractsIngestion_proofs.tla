---------------------- MODULE ContractsIngestion_proofs ----------------------
(* Theorems about ContractsIngestion, for any contracts, moments, chains,  *)
(* rankings, page size and number of deliveries.                           *)
EXTENDS ContractsIngestion, TLAPS, SequenceTheorems, FiniteSetTheorems

USE DEF stored

-----------------------------------------------------------------------------
(* Pages.                                                                  *)

Below == {p \in Nat \X Nat : p[1] < p[2]}

(* A set of naturals with an element has a least one.                      *)
LEMMA LeastElement ==
    ASSUME NEW S \in SUBSET Nat, S # {}
    PROVE  /\ FirstOf(S) \in S
           /\ \A j \in S : FirstOf(S) <= j
<1>1. Below = OpToRel(<, Nat)
  BY DEF Below, OpToRel
<1>2. IsWellFoundedOn(Below, Nat)
  BY <1>1, NatLessThanWellFounded
<1>3. PICK x \in S : \A y \in S : ~(<<y, x>> \in Below)
  BY <1>2, WFMin
<1>4. ASSUME NEW y \in S
      PROVE  x <= y
  <2>1. x \in Nat /\ y \in Nat
    OBVIOUS
  <2>2. ~(<<y, x>> \in Below)
    BY <1>3
  <2>3. ~(y < x)
    BY <2>1, <2>2 DEF Below
  <2>4. QED
    BY <2>1, <2>3
<1>5. QED
  BY <1>4 DEF FirstOf

(* A set of naturals bounded by n with an element has a greatest one.      *)
LEMMA GreatestElement ==
    ASSUME NEW n \in Nat, NEW S \in SUBSET (0..n), S # {}
    PROVE  /\ LastOf(S) \in S
           /\ \A j \in S : j <= LastOf(S)
<1> DEFINE T == {n - i : i \in S}
<1>1. T \in SUBSET Nat /\ T # {}
  <2>1. \A i \in S : i \in Int /\ n - i \in Nat
    OBVIOUS
  <2>2. PICK i \in S : TRUE
    OBVIOUS
  <2>3. n - i \in T
    OBVIOUS
  <2>4. QED
    BY <2>1, <2>3
<1>2. FirstOf(T) \in T /\ \A j \in T : FirstOf(T) <= j
  BY <1>1, LeastElement
<1>3. PICK m \in S : FirstOf(T) = n - m
  BY <1>2
<1>4. \A j \in S : j <= m
  <2> TAKE j \in S
  <2>1. n - j \in T
    OBVIOUS
  <2>2. n - m <= n - j
    BY <1>2, <1>3, <2>1
  <2>3. QED
    BY <2>2
<1>5. QED
  BY <1>4 DEF LastOf

(* As transactions are kept in block order, those asked for lie together,  *)
(* from index a to index z, and a page is the first Offset of them.        *)
LEMMA PageShape ==
    ASSUME txs \in Histories, NEW c \in Contracts, NEW lo \in Int, NEW hi \in Int,
           Hits(c, lo, hi) # {}
    PROVE  \E a, b, z \in 1..Len(txs[c]) :
             /\ a <= b /\ b <= z
             /\ b - a + 1 <= Offset /\ (b < z => b - a + 1 = Offset)
             /\ Hits(c, lo, hi) = a..z
             /\ Page(c, lo, hi) \in Seq(Tx)
             /\ Len(Page(c, lo, hi)) = b - a + 1
             /\ \A i \in 1..(b - a + 1) : Page(c, lo, hi)[i] = txs[c][a + i - 1]
<1> DEFINE hits == Hits(c, lo, hi)
           a == FirstOf(hits)
           z == LastOf(hits)
           full == a + Offset - 1
           b == IF full <= z THEN full ELSE z
<1>1. /\ txs[c] \in Seq(Tx)
      /\ \A i, j \in 1..Len(txs[c]) : i <= j => txs[c][i].block <= txs[c][j].block
  BY HistoriesAssumption
<1>2. hits \subseteq 1..Len(txs[c]) /\ Len(txs[c]) \in Nat
  BY <1>1 DEF Hits
<1>3. a \in hits /\ \A j \in hits : a <= j
  BY <1>2, LeastElement
<1>4. z \in hits /\ \A j \in hits : j <= z
  <2>1. hits \in SUBSET (0..Len(txs[c]))
    BY <1>2
  <2> QED BY <1>2, <2>1, GreatestElement
<1>5. /\ a \in 1..Len(txs[c]) /\ z \in 1..Len(txs[c]) /\ a <= z
      /\ b \in 1..Len(txs[c]) /\ a <= b /\ b <= z
      /\ b - a + 1 <= Offset /\ (b < z => b - a + 1 = Offset)
  <2>1. a \in 1..Len(txs[c]) /\ z \in 1..Len(txs[c]) /\ a <= z
    BY <1>2, <1>3, <1>4
  <2> HIDE DEF a, z
  <2>2. full \in Int /\ a <= full
    BY <1>2, <2>1, ConstantsAssumption
  <2>3. b \in Int /\ a <= b /\ b <= z /\ b <= full /\ (b < z => b = full)
    BY <2>1, <2>2
  <2>4. b - a + 1 <= Offset /\ (b < z => b - a + 1 = Offset)
    BY <2>1, <2>3, ConstantsAssumption
  <2> HIDE DEF b
  <2> QED BY <1>2, <2>1, <2>3, <2>4
<1>6. ASSUME NEW i \in a..z
      PROVE  i \in hits
  <2>1. i \in 1..Len(txs[c]) /\ a <= i /\ i <= z
    BY <1>2, <1>5
  <2>2. txs[c][a].block <= txs[c][i].block /\ txs[c][i].block <= txs[c][z].block
    BY <1>1, <1>5, <2>1
  <2>3. lo <= txs[c][a].block /\ txs[c][z].block <= hi
    BY <1>3, <1>4 DEF Hits
  <2>4. \A k \in 1..Len(txs[c]) : txs[c][k] \in Tx
    BY <1>1
  <2>5. /\ txs[c][a].block \in Int /\ txs[c][i].block \in Int
        /\ txs[c][z].block \in Int
    <3>1. txs[c][a] \in Tx /\ txs[c][i] \in Tx /\ txs[c][z] \in Tx
      <4> HIDE DEF a, z
      <4> QED BY <1>5, <2>1, <2>4
    <3>2. \A x \in Tx : x.block \in Int
      BY DEF Tx
    <3> HIDE DEF a, z
    <3> QED BY <3>1, <3>2
  <2>6. lo <= txs[c][i].block /\ txs[c][i].block <= hi
    BY <2>2, <2>3, <2>5
  <2> QED BY <2>1, <2>6 DEF Hits
<1>7. hits = a..z
  <2> HIDE DEF a, z, hits
  <2>1. \A i \in hits : i \in a..z
    BY <1>2, <1>3, <1>4, <1>5
  <2> QED BY <1>6, <2>1
<1>8. Page(c, lo, hi) = SubSeq(txs[c], a, b)
  BY DEF Page
<1> HIDE DEF a, b, z
<1>9. /\ Page(c, lo, hi) \in Seq(Tx)
      /\ Len(Page(c, lo, hi)) = b - a + 1
      /\ \A i \in 1..(b - a + 1) : Page(c, lo, hi)[i] = txs[c][a + i - 1]
  <2>1. \A i \in a..b : txs[c][i] \in Tx
    BY <1>1, <1>2, <1>5
  <2> QED BY <1>5, <1>8, <2>1, SubSeqProperties
<1> QED BY <1>5, <1>7, <1>9

(* A page is made of the transactions of c in the blocks asked for.        *)
LEMMA PageProperties ==
    ASSUME txs \in Histories, NEW c \in Contracts, NEW lo \in Int, NEW hi \in Int
    PROVE  /\ Page(c, lo, hi) \in Seq(Tx)
           /\ \A i \in 1..Len(Page(c, lo, hi)) :
                \E j \in Hits(c, lo, hi) : Page(c, lo, hi)[i] = txs[c][j]
<1>1. CASE Hits(c, lo, hi) = {}
  BY <1>1 DEF Page
<1>2. CASE Hits(c, lo, hi) # {}
  <2>1. PICK a, b, z \in 1..Len(txs[c]) :
             /\ a <= b /\ b <= z
             /\ Hits(c, lo, hi) = a..z
             /\ Page(c, lo, hi) \in Seq(Tx)
             /\ Len(Page(c, lo, hi)) = b - a + 1
             /\ \A i \in 1..(b - a + 1) : Page(c, lo, hi)[i] = txs[c][a + i - 1]
    BY <1>2, PageShape
  <2>2. ASSUME NEW i \in 1..Len(Page(c, lo, hi))
        PROVE  a + i - 1 \in a..z /\ Page(c, lo, hi)[i] = txs[c][a + i - 1]
    BY <2>1
  <2> QED BY <2>1, <2>2
<1> QED BY <1>1, <1>2

(* Between the first block asked for and the last one of a page that is    *)
(* not empty, nothing is left out; and only a full page leaves out any     *)
(* transaction that was asked for.                                         *)
LEMMA PageCovers ==
    ASSUME txs \in Histories, NEW c \in Contracts, NEW lo \in Int, NEW hi \in Int,
           NEW i \in Hits(c, lo, hi), txs[c][i] \notin Content(Page(c, lo, hi))
    PROVE  LET page == Page(c, lo, hi) IN
           /\ page # <<>>
           /\ page[Len(page)].block <= txs[c][i].block
           /\ page[Len(page)].block = lo => InBlock(c, lo) >= Offset
<1> DEFINE page == Page(c, lo, hi)
<1>1. PICK a, b, z \in 1..Len(txs[c]) :
             /\ a <= b /\ b <= z /\ (b < z => b - a + 1 = Offset)
             /\ Hits(c, lo, hi) = a..z
             /\ page \in Seq(Tx)
             /\ Len(page) = b - a + 1
             /\ \A k \in 1..(b - a + 1) : page[k] = txs[c][a + k - 1]
  BY PageShape
<1>2. /\ \A k \in 1..Len(txs[c]) : txs[c][k].block \in Nat
      /\ \A k, l \in 1..Len(txs[c]) : k <= l => txs[c][k].block <= txs[c][l].block
  <2>1. txs[c] \in Seq(Tx)
    BY HistoriesAssumption
  <2>2. \A k \in 1..Len(txs[c]) : txs[c][k] \in Tx
    BY <2>1
  <2> QED BY <2>2, HistoriesAssumption DEF Tx
<1> HIDE DEF page
<1>3. \A k \in a..b : txs[c][k] \in Content(page)
  <2> TAKE k \in a..b
  <2>1. k - a + 1 \in 1..(b - a + 1) /\ a + (k - a + 1) - 1 = k
    BY <1>1
  <2>2. page[k - a + 1] = txs[c][k] /\ k - a + 1 \in DOMAIN page
    BY <1>1, <2>1, SMTT(20)
  <2> QED BY <2>2 DEF Content
<1>4. i \in a..z /\ b < i /\ b < z
  <2>1. i \in a..z /\ ~(i \in a..b)
    BY <1>1, <1>3 DEF page
  <2> QED BY <1>1, <2>1
<1>5. page # <<>> /\ page[Len(page)] = txs[c][b]
  BY <1>1
<1>6. txs[c][b].block <= txs[c][i].block
  BY <1>1, <1>2, <1>4, SMTT(20)
<1>7. ASSUME txs[c][b].block = lo PROVE InBlock(c, lo) >= Offset
  <2> DEFINE same == {k \in 1..Len(txs[c]) : txs[c][k].block = lo}
  <2>1. \A k \in a..b : k \in same
    <3> TAKE k \in a..b
    <3>1. k \in 1..Len(txs[c]) /\ k \in Hits(c, lo, hi) /\ k <= b
      BY <1>1
    <3>2. lo <= txs[c][k].block /\ txs[c][k].block <= lo
      BY <1>1, <1>2, <1>7, <3>1 DEF Hits
    <3> QED BY <1>2, <3>1, <3>2
  <2>2. IsFiniteSet(1..Len(txs[c]))
    <3>1. Len(txs[c]) \in Nat
      BY HistoriesAssumption
    <3> QED BY <3>1, FS_Interval
  <2>3. IsFiniteSet(same)
    BY <2>2, FS_Subset
  <2>4. Cardinality(a..b) <= Cardinality(same)
    BY <2>1, <2>3, FS_Subset
  <2>5. Cardinality(a..b) = Offset
    BY <1>1, <1>4, FS_Interval
  <2>6. Cardinality(same) \in Nat
    BY <2>3, FS_CardinalityType
  <2> QED BY <2>4, <2>5, <2>6, ConstantsAssumption DEF InBlock
<1> QED BY <1>5, <1>6, <1>7 DEF page
-----------------------------------------------------------------------------
(* Types.                                                                  *)

Safe == TypeOK /\ DeliveryOK

(* The contract and the key of a running delivery are real ones.           *)
LEMMA CurrentType ==
    ASSUME Safe, NEW e \in Events, Active(e)
    PROVE  Current(e) \in Contracts /\ Key(e) \in Keys
<1>1. pos[e] \in 1..Len(rank[e]) /\ rank[e] \in Seq(Contracts)
  BY DEF Safe, TypeOK, DeliveryOK
<1>2. Truncated(date[e]) \in Hours
  BY DEF Safe, TypeOK, Hours
<1>3. QED
  BY <1>1, <1>2 DEF Safe, TypeOK, Current, Key, Keys

(* The page of a running delivery, and its last transaction when there is  *)
(* one: it is of the current contract, at or after the cursor.             *)
LEMMA PageOfType ==
    ASSUME Safe, NEW e \in Events, Active(e), NEW head \in HeadsNow
    PROVE  LET page == PageOf(e, head) IN
           /\ page \in Seq(Tx)
           /\ Content(page) \subseteq Window(Current(e), date[e])
           /\ page # <<>> => /\ page[Len(page)].block \in Nat
                             /\ cursor[e] <= page[Len(page)].block
                             /\ page[Len(page)].block <= upper[e]
<1> DEFINE c == Current(e)
           lo == cursor[e]
           hi == IF head < upper[e] THEN head ELSE upper[e]
           low == Lower(date[e])
           high == Upper(date[e])
           page == PageOf(e, head)
<1>1. /\ c \in Contracts /\ lo \in Nat /\ hi \in Nat /\ low \in Nat /\ high \in Int
      /\ low <= lo /\ hi <= high /\ hi <= upper[e] /\ upper[e] \in Nat
  <2>1. /\ date[e] \in Moments /\ cursor[e] \in Nat /\ upper[e] \in Nat
        /\ Lower(date[e]) <= cursor[e] /\ upper[e] <= Upper(date[e])
    BY DEF Safe, TypeOK, DeliveryOK
  <2>2. AfterBlock[date[e]] \in Nat /\ BeforeBlock[date[e]] \in Nat /\ head \in Nat
    BY <2>1, ConstantsAssumption DEF HeadsNow
  <2>3. QED
    BY <2>1, <2>2, CurrentType DEF Upper, Lower
<1>2. txs \in Histories
  BY DEF Safe, TypeOK
<1>3. /\ page \in Seq(Tx)
      /\ \A i \in 1..Len(page) :
           \E j \in Hits(c, lo, hi) : page[i] = txs[c][j]
  <2> HIDE DEF c, lo, hi
  <2>1. page = Page(c, lo, hi)
    BY DEF PageOf, c, lo, hi
  <2>2. c \in Contracts /\ lo \in Int /\ hi \in Int
    BY <1>1
  <2>3. QED
    BY <1>2, <2>1, <2>2, PageProperties
<1>4. \A j \in 1..Len(txs[c]) : txs[c][j].block \in Nat
  <2>1. \A j \in 1..Len(txs[c]) : txs[c][j] \in Tx
    BY <1>1, <1>2, HistoriesAssumption
  <2>2. QED
    BY <2>1 DEF Tx
<1> HIDE DEF c, lo, hi, low, high, page
<1>5. Hits(c, lo, hi) \subseteq Hits(c, low, high)
  BY <1>1, <1>4 DEF Hits
<1>6. Content(page) \subseteq Window(c, date[e])
  BY <1>3, <1>5 DEF Content, Window, low, high
<1>7. ASSUME page # <<>>
      PROVE  /\ page[Len(page)].block \in Nat
             /\ lo <= page[Len(page)].block
             /\ page[Len(page)].block <= upper[e]
  <2>1. Len(page) \in 1..Len(page)
    BY <1>3, <1>7
  <2>2. PICK j \in Hits(c, lo, hi) : page[Len(page)] = txs[c][j]
    BY <1>3, <2>1
  <2>3. txs[c][j].block \in Nat /\ lo <= txs[c][j].block /\ txs[c][j].block <= hi
    BY <1>4, <2>2 DEF Hits
  <2>4. QED
    BY <1>1, <2>2, <2>3
<1>8. QED
  BY <1>3, <1>6, <1>7 DEF page, c, lo

(* The limits of a window, as they are and as a lookup may report them.    *)
LEMMA WindowLimits ==
    ASSUME NEW t \in Moments
    PROVE  /\ Lower(t) \in Nat /\ Upper(t) \in Nat
           /\ \A head \in HeadsNow :
                UpperSeen(t, head) \in Nat /\ UpperSeen(t, head) <= Upper(t)
<1>1. BeforeBlock[t] \in Nat \ {0} /\ AfterBlock[t] \in Nat
  BY ConstantsAssumption
<1>2. \A head \in HeadsNow : head \in Nat \ {0}
  BY ConstantsAssumption DEF HeadsNow
<1> QED BY <1>1, <1>2 DEF Lower, Upper, UpperSeen

(* The initial state is well typed and no delivery is running.             *)
LEMMA SafeInit == Init => Safe
<1> SUFFICES ASSUME Init PROVE Safe
  OBVIOUS
<1>1. TypeOK
  <2>1. \A k \in Keys : k[2] \in Moments
    BY ConstantsAssumption DEF Keys
  <2> QED BY <2>1, ConstantsAssumption DEF Init, TypeOK, Phases
<1>2. DeliveryOK
  BY ConstantsAssumption DEF Init, DeliveryOK, Active
<1>3. QED
  BY <1>1, <1>2 DEF Safe

(* Every step keeps the types, keeps a running delivery inside its list    *)
(* and its window, and never uses up a delivery that a queued event still  *)
(* has.                                                                    *)
LEMMA SafeStep == Safe /\ [Next]_vars => Safe'
<1> SUFFICES ASSUME Safe, [Next]_vars PROVE Safe'
  OBVIOUS
<1> USE DEF Safe
<1>1. CASE Tick
  BY <1>1 DEF Tick, TypeOK, DeliveryOK, Active, local
<1>2. ASSUME NEW e \in Events, Send(e) PROVE Safe'
  BY <1>2, ConstantsAssumption, SMTT(20) DEF Send, TypeOK, DeliveryOK, Active, Phases
<1>3. ASSUME NEW e \in Events, Start(e) PROVE Safe'
  <2> DEFINE d == ExecDate(e)
  <2>1. d \in Moments /\ Lower(d) \in Nat /\ Upper(d) \in Nat
    <3>1. d \in Moments
      BY ConstantsAssumption DEF ExecDate, TypeOK, Hours
    <3> QED BY <3>1, WindowLimits
  <2>2. PICK up, cl :
           /\ up \in Nat /\ up <= Upper(d) /\ cl \in BOOLEAN /\ (cl => up = Upper(d))
           /\ upper' = [upper EXCEPT ![e] = up] /\ clean' = [clean EXCEPT ![e] = cl]
    <3>1. PICK head \in HeadsNow :
             /\ upper' = [upper EXCEPT ![e] = UpperSeen(d, head)]
             /\ clean' = [clean EXCEPT ![e] = UpperSeen(d, head) = Upper(d)]
      BY <1>3 DEF Start
    <3>2. UpperSeen(d, head) \in Nat /\ UpperSeen(d, head) <= Upper(d)
      BY <2>1, WindowLimits
    <3> QED BY <3>1, <3>2
  <2>3. PICK r \in Seq(Contracts) :
           /\ rank' = [rank EXCEPT ![e] = r]
           /\ phase' = [phase EXCEPT ![e] = IF r = <<>> THEN "done" ELSE "paging"]
    BY <1>3, RankingsAssumption DEF Start
  <2>4. /\ attempt' = [attempt EXCEPT ![e] = @ + 1] /\ date' = [date EXCEPT ![e] = d]
        /\ pos' = [pos EXCEPT ![e] = 1] /\ cursor' = [cursor EXCEPT ![e] = Lower(d)]
        /\ data' = [data EXCEPT ![e] = <<>>] /\ acc' = [acc EXCEPT ![e] = <<>>]
        /\ mishaps' \in {mishaps, mishaps \cup {"overlap"}}
        /\ UNCHANGED <<now, txs, arg, stored>>
    BY <1>3 DEF Start
  <2>5. phase[e] = "queued" /\ attempt[e] < MaxAttempts
    BY <1>3 DEF Start, DeliveryOK
  <2> HIDE DEF d
  <2>6. TypeOK'
    <3>1. attempt' \in [Events -> 0..MaxAttempts]
      BY <2>4, <2>5, ConstantsAssumption DEF TypeOK
    <3>2. /\ phase' \in [Events -> Phases] /\ rank' \in [Events -> Seq(Contracts)]
          /\ upper' \in [Events -> Nat] /\ clean' \in [Events -> BOOLEAN]
      BY <2>2, <2>3 DEF TypeOK, Phases
    <3>3. /\ date' \in [Events -> Moments] /\ cursor' \in [Events -> Nat]
          /\ pos' \in [Events -> Nat \ {0}]
          /\ data' \in [Events -> Seq(Tx)] /\ acc' \in [Events -> Seq(Tx)]
          /\ mishaps' \subseteq {"overlap", "head"}
      BY <2>1, <2>4 DEF TypeOK
    <3> QED BY <2>4, <3>1, <3>2, <3>3 DEF TypeOK
  <2>7. DeliveryOK'
    <3>1. ASSUME NEW f \in Events, f # e
          PROVE  /\ phase'[f] = phase[f] /\ attempt'[f] = attempt[f]
                 /\ pos'[f] = pos[f] /\ rank'[f] = rank[f] /\ date'[f] = date[f]
                 /\ cursor'[f] = cursor[f] /\ upper'[f] = upper[f]
                 /\ clean'[f] = clean[f]
      BY <2>2, <2>3, <2>4, <3>1 DEF TypeOK
    <3>2. /\ phase'[e] \in {"done", "paging"} /\ (phase'[e] = "paging" => rank'[e] # <<>>)
          /\ pos'[e] = 1 /\ rank'[e] \in Seq(Contracts) /\ date'[e] = d
          /\ cursor'[e] = Lower(d) /\ upper'[e] <= Upper(d)
          /\ (clean'[e] => upper'[e] = Upper(d))
      BY <2>2, <2>3, <2>4 DEF TypeOK
    <3>3. Active(e)' => 1 \in 1..Len(rank'[e])
      BY <3>2 DEF Active
    <3> QED BY <2>1, <3>1, <3>2, <3>3 DEF DeliveryOK, Active, Lower, Upper
  <2>8. QED
    BY <2>6, <2>7
<1>4. ASSUME NEW e \in Events, StartFails(e) PROVE Safe'
  BY <1>4, ConstantsAssumption
  DEF StartFails, AfterFailure, TypeOK, DeliveryOK, Active, Phases
<1>5. ASSUME NEW e \in Events, NextPage(e) PROVE Safe'
  <2>1. Active(e)
    BY <1>5 DEF NextPage, InLoop, Active
  <2>2. PICK page, last, cl :
           /\ page \in Seq(Tx) /\ last \in Nat /\ cursor[e] <= last
           /\ cl \in BOOLEAN /\ (cl => clean[e])
           /\ data' = [data EXCEPT ![e] = page]
           /\ acc' = [acc EXCEPT ![e] = @ \o page]
           /\ cursor' = [cursor EXCEPT ![e] = last]
           /\ clean' = [clean EXCEPT ![e] = cl]
    <3>1. PICK head \in HeadsNow : LET page == PageOf(e, head) IN
             /\ page # <<>>
             /\ data' = [data EXCEPT ![e] = page]
             /\ acc' = [acc EXCEPT ![e] = @ \o page]
             /\ cursor' = [cursor EXCEPT ![e] = page[Len(page)].block]
             /\ clean' = [clean EXCEPT ![e] = StillClean(e, page)]
      BY <1>5 DEF NextPage
    <3>2. StillClean(e, PageOf(e, head)) \in BOOLEAN
          /\ (StillClean(e, PageOf(e, head)) => clean[e])
      BY DEF StillClean, TypeOK
    <3> QED BY <2>1, <3>1, <3>2, PageOfType
  <2>3. UNCHANGED <<now, txs, arg, phase, attempt, date, upper, rank, pos,
                    stored, mishaps>>
    BY <1>5 DEF NextPage
  <2>5. TypeOK'
    BY <2>2, <2>3 DEF TypeOK
  <2>6. Lower(date[e]) \in Nat
    BY ConstantsAssumption DEF TypeOK, Lower
  <2>7. DeliveryOK'
    BY <2>2, <2>3, <2>6, SMTT(20) DEF TypeOK, DeliveryOK, Active, Lower, Upper
  <2>8. QED
    BY <2>5, <2>7
<1>6. ASSUME NEW e \in Events, EndOfPages(e) PROVE Safe'
  <2>1. PICK cl \in BOOLEAN : (cl => clean[e]) /\ clean' = [clean EXCEPT ![e] = cl]
    <3>1. CASE clean' = clean
      BY <3>1 DEF TypeOK
    <3>2. CASE clean' # clean
      BY <1>6, <3>2 DEF EndOfPages, LimitsMet, StillClean, TypeOK
    <3> QED BY <3>1, <3>2
  <2>2. phase[e] = "paging"
    BY <1>6 DEF EndOfPages, LimitsMet, InLoop
  <2> QED BY <1>6, <2>1, <2>2 DEF EndOfPages, TypeOK, DeliveryOK, Active, Phases, Upper
<1>7. ASSUME NEW e \in Events, ApiError(e) PROVE Safe'
  BY <1>7 DEF ApiError, InLoop, TypeOK, DeliveryOK, Active, Phases, Upper
<1>8. ASSUME NEW e \in Events, Active(e), NextContract(e),
             objects' \in [Keys -> Seq(Tx) \cup {NoObject}],
             origin' \in [Keys -> BOOLEAN], made' \in [Keys -> Moments],
             mishaps' = mishaps
      PROVE  Safe'
  <2>1. Lower(date[e]) \in Nat /\ pos[e] \in 1..Len(rank[e])
    BY <1>8, ConstantsAssumption DEF TypeOK, DeliveryOK, Lower
  <2>2. TypeOK'
    BY <1>8, <2>1 DEF NextContract, TypeOK, Phases
  <2>3. DeliveryOK'
    BY <1>8, <2>1, SMTT(20) DEF NextContract, TypeOK, DeliveryOK, Active, Lower, Upper
  <2>4. QED
    BY <2>2, <2>3
<1>9. ASSUME NEW e \in Events, HeadFound(e) PROVE Safe'
  <2>1. Active(e) /\ NextContract(e)
    BY <1>9 DEF HeadFound, Active
  <2>2. QED
    BY <1>8, <1>9, <2>1 DEF HeadFound, TypeOK
<1>10. ASSUME NEW e \in Events, HeadMissing(e) PROVE Safe'
  BY <1>10 DEF HeadMissing, TypeOK, DeliveryOK, Active, Phases
<1>11. ASSUME NEW e \in Events, Put(e) PROVE Safe'
  <2>1. Active(e) /\ NextContract(e)
    BY <1>11 DEF Put, Active
  <2>2. /\ objects' \in [Keys -> Seq(Tx) \cup {NoObject}]
        /\ origin' \in [Keys -> BOOLEAN] /\ made' \in [Keys -> Moments]
    BY <1>11, <2>1, CurrentType DEF Put, TypeOK
  <2>3. QED
    BY <1>8, <1>11, <2>1, <2>2 DEF Put
<1>12. ASSUME NEW e \in Events, Crash(e) PROVE Safe'
  BY <1>12, ConstantsAssumption
  DEF Crash, AfterFailure, TypeOK, DeliveryOK, Active, Phases
<1>13. CASE UNCHANGED vars
  BY <1>13 DEF vars, local, TypeOK, DeliveryOK, Active
<1>14. QED
  BY <1>1, <1>2, <1>3, <1>4, <1>5, <1>6, <1>7, <1>9, <1>10, <1>11, <1>12, <1>13
  DEF Next, Advance, Fault

(* Every variable keeps its type, an active delivery stays inside its list *)
(* of contracts and its window, and a queued event has a delivery left.    *)
THEOREM Typing == Spec => []Safe
<1>1. QED
  BY SafeInit, SafeStep, PTL DEF Spec

(* The variables keep their types.                                         *)
THEOREM TypeCorrect == Spec => []TypeOK
<1>1. Safe => TypeOK
  BY DEF Safe
<1>2. QED
  BY <1>1, Typing, PTL

-----------------------------------------------------------------------------
(* What is stored belongs to its key.                                      *)

(* No step collects or stores a transaction of another contract or window. *)
LEMMA ContentStep == Safe /\ ContentSound /\ [Next]_vars => ContentSound'
<1> SUFFICES ASSUME Safe, ContentSound, [Next]_vars PROVE ContentSound'
  OBVIOUS
<1> DEFINE Acc(e) == Active(e) => Content(acc[e]) \subseteq Window(Current(e), date[e])
           Obj(c, h) == objects[<<c, h>>] # NoObject =>
             /\ Truncated(made[<<c, h>>]) = h
             /\ Content(objects[<<c, h>>]) \subseteq Window(c, made[<<c, h>>])
<1>1. (\A e \in Events : Acc(e)) /\ (\A c \in Contracts, h \in Hours : Obj(c, h))
  BY DEF ContentSound
<1>2. txs' = txs /\ (\A c, h : Window(c, h)' = Window(c, h))
  <2>1. txs' = txs
    BY DEF Next, vars, local, Tick, Send, Advance, Fault, Start, StartFails,
           NextPage, EndOfPages, ApiError, HeadFound, HeadMissing, Put, Crash,
           NextContract
  <2>2. QED
    BY <2>1 DEF Window, Hits, Lower, Upper
<1>3. ASSUME (\A e \in Events : Acc(e))', UNCHANGED stored
      PROVE  ContentSound'
  BY <1>1, <1>2, <1>3 DEF ContentSound
<1>4. ASSUME NEW e \in Events, UNCHANGED <<date, rank, pos, acc>>,
             \A f \in Events : Active(f)' => Active(f)
      PROVE  (\A f \in Events : Acc(f))'
  BY <1>1, <1>2, <1>4 DEF Current
<1>5. ASSUME NEW e \in Events, acc' = [acc EXCEPT ![e] = <<>>],
             \A f \in Events : f # e =>
                 /\ Active(f)' = Active(f)
                 /\ (date[f])' = date[f]
                 /\ Current(f)' = Current(f)
      PROVE  (\A f \in Events : Acc(f))'
  <2> SUFFICES ASSUME NEW f \in Events PROVE Acc(f)'
    OBVIOUS
  <2>1. CASE f = e
    BY <1>5, <2>1 DEF Safe, TypeOK, Content
  <2>2. CASE f # e
    BY <1>1, <1>2, <1>5, <2>2 DEF Safe, TypeOK
  <2>3. QED
    BY <2>1, <2>2
<1>6. ASSUME NEW e \in Events, NextContract(e), Active(e)
      PROVE  (\A f \in Events : Acc(f))'
  <2>1. \A f \in Events : f # e =>
            /\ Active(f)' = Active(f)
            /\ (date[f])' = date[f]
            /\ Current(f)' = Current(f)
    BY <1>6 DEF NextContract, Active, Current, Safe, TypeOK
  <2>2. acc' = [acc EXCEPT ![e] = <<>>]
    BY <1>6 DEF NextContract
  <2>3. QED
    BY <1>5, <2>1, <2>2
<1>7. CASE Tick
  BY <1>3, <1>1, <1>2, <1>7 DEF Tick, local, Active, Current
<1>8. ASSUME NEW e \in Events, Send(e) PROVE ContentSound'
  <2>1. \A f \in Events : Active(f)' => Active(f)
    BY <1>8 DEF Send, Active, Safe, TypeOK
  <2>2. QED
    BY <1>3, <1>4, <1>8, <2>1 DEF Send
<1>9. ASSUME NEW e \in Events, Start(e) PROVE ContentSound'
  <2>1. \A f \in Events : f # e =>
            /\ Active(f)' = Active(f)
            /\ (date[f])' = date[f]
            /\ Current(f)' = Current(f)
    BY <1>9 DEF Start, Active, Current, Safe, TypeOK
  <2>2. acc' = [acc EXCEPT ![e] = <<>>] /\ UNCHANGED stored
    BY <1>9 DEF Start
  <2>3. QED
    BY <1>3, <1>5, <2>1, <2>2
<1>10. ASSUME NEW e \in Events, StartFails(e) PROVE ContentSound'
  <2>1. \A f \in Events : Active(f)' => Active(f)
    BY <1>10 DEF StartFails, AfterFailure, Active, Safe, TypeOK
  <2>2. QED
    BY <1>3, <1>4, <1>10, <2>1 DEF StartFails
<1>11. ASSUME NEW e \in Events, NextPage(e) PROVE ContentSound'
  <2>1. Active(e)
    BY <1>11 DEF NextPage, InLoop, Active
  <2>2. PICK page \in Seq(Tx) :
           /\ Content(page) \subseteq Window(Current(e), date[e])
           /\ acc' = [acc EXCEPT ![e] = @ \o page]
    BY <1>11, <2>1, PageOfType DEF NextPage
  <2>3. UNCHANGED <<phase, date, rank, pos, stored>>
    BY <1>11 DEF NextPage
  <2>4. acc[e] \in Seq(Tx)
    BY DEF Safe, TypeOK
  <2>5. Content(acc[e] \o page) \subseteq Content(acc[e]) \cup Content(page)
    BY <2>2, <2>4 DEF Content
  <2>6. ASSUME NEW f \in Events PROVE Acc(f)'
    <3>1. Active(f)' = Active(f) /\ Current(f)' = Current(f) /\ (date[f])' = date[f]
      BY <2>3 DEF Active, Current
    <3>2. CASE f = e
      <4>1. (acc[f])' = acc[e] \o page
        BY <2>2, <3>2 DEF Safe, TypeOK
      <4>2. Content(acc[e]) \subseteq Window(Current(e), date[e])
        BY <1>1, <2>1
      <4>3. Content(acc[f]') \subseteq Window(Current(e), date[e])
        BY <2>2, <2>5, <4>1, <4>2
      <4>4. QED
        BY <1>2, <3>1, <3>2, <4>3 DEF Content
    <3>3. CASE f # e
      <4>1. (acc[f])' = acc[f]
        BY <2>2, <3>3 DEF Safe, TypeOK
      <4>2. QED
        BY <1>1, <1>2, <3>1, <4>1 DEF Content
    <3>4. QED
      BY <3>2, <3>3
  <2>7. QED
    BY <1>3, <2>3, <2>6
<1>12. ASSUME NEW e \in Events, EndOfPages(e) PROVE ContentSound'
  <2>1. \A f \in Events : Active(f)' => Active(f)
    BY <1>12 DEF EndOfPages, LimitsMet, InLoop, Active, Safe, TypeOK
  <2>2. QED
    BY <1>3, <1>4, <1>12, <2>1 DEF EndOfPages
<1>13. ASSUME NEW e \in Events, ApiError(e) PROVE ContentSound'
  <2>1. \A f \in Events : Active(f)' => Active(f)
    BY <1>13 DEF ApiError, InLoop, Active, Safe, TypeOK
  <2>2. QED
    BY <1>3, <1>4, <1>13, <2>1 DEF ApiError
<1>14. ASSUME NEW e \in Events, HeadFound(e) PROVE ContentSound'
  BY <1>3, <1>6, <1>14 DEF HeadFound, Active
<1>15. ASSUME NEW e \in Events, HeadMissing(e) PROVE ContentSound'
  <2>1. \A f \in Events : Active(f)' => Active(f)
    BY <1>15 DEF HeadMissing, Active, Safe, TypeOK
  <2>2. QED
    BY <1>3, <1>4, <1>15, <2>1 DEF HeadMissing
<1>16. ASSUME NEW e \in Events, Put(e) PROVE ContentSound'
  <2>1. /\ Active(e) /\ NextContract(e)
        /\ objects' = [objects EXCEPT ![Key(e)] = acc[e]]
        /\ made' = [made EXCEPT ![Key(e)] = date[e]]
    BY <1>16 DEF Put, Active
  <2>2. (\A f \in Events : Acc(f))'
    BY <1>6, <2>1
  <2>3. Content(acc[e]) \subseteq Window(Current(e), date[e])
    BY <1>1, <2>1
  <2>4. ASSUME NEW c \in Contracts, NEW h \in Hours PROVE Obj(c, h)'
    <3>1. CASE <<c, h>> = Key(e)
      <4>1. (objects[<<c, h>>])' = acc[e] /\ (made[<<c, h>>])' = date[e]
        BY <2>1, <3>1, CurrentType DEF Safe, TypeOK
      <4>2. c = Current(e) /\ h = Truncated(date[e])
        BY <3>1 DEF Key
      <4>3. QED
        BY <1>2, <2>3, <4>1, <4>2 DEF Content
    <3>2. CASE <<c, h>> # Key(e)
      <4>1. (objects[<<c, h>>])' = objects[<<c, h>>] /\ (made[<<c, h>>])' = made[<<c, h>>]
        BY <2>1, <3>2 DEF Safe, TypeOK, Keys
      <4>2. QED
        BY <1>1, <1>2, <4>1 DEF Content
    <3>3. QED
      BY <3>1, <3>2
  <2>5. QED
    BY <2>2, <2>4 DEF ContentSound
<1>17. ASSUME NEW e \in Events, Crash(e) PROVE ContentSound'
  <2>1. \A f \in Events : Active(f)' => Active(f)
    BY <1>17 DEF Crash, AfterFailure, Active, Safe, TypeOK
  <2>2. QED
    BY <1>3, <1>4, <1>17, <2>1 DEF Crash
<1>18. CASE UNCHANGED vars
  BY <1>1, <1>2, <1>3, <1>18 DEF vars, local, Active, Current
<1>19. QED
  BY <1>7, <1>8, <1>9, <1>10, <1>11, <1>12, <1>13, <1>14, <1>15, <1>16, <1>17,
     <1>18
  DEF Next, Advance, Fault

(* Whatever is collected or stored belongs to its contract and window,     *)
(* for any interleaving of deliveries, failures and retries.               *)
THEOREM ContentCorrect == Spec => []ContentSound
<1>1. Init => ContentSound
  BY DEF Init, ContentSound, Active, Keys
<1>2. QED
  BY <1>1, Typing, ContentStep, PTL DEF Spec

(* Windows that end an hour or more apart share no block, although one may *)
(* end where the other begins.                                             *)
LEMMA WindowsApart ==
    ASSUME Safe, NEW c \in Contracts, NEW s \in Moments, NEW t \in Moments,
           s + PerHour <= t
    PROVE  Window(c, s) \cap Window(c, t) = {}
<1>1. \A i \in 1..Len(txs[c]) : txs[c][i] \in Tx
  BY HistoriesAssumption DEF Safe, TypeOK
<1>2. BeforeBlock[s] \in Nat /\ AfterBlock[t] \in Nat
  BY ConstantsAssumption
<1>3. BeforeBlock[s] <= AfterBlock[t]
  BY BlockTimesAssumption
<1>4. SUFFICES ASSUME NEW i \in Hits(c, Lower(s), Upper(s)),
                      NEW j \in Hits(c, Lower(t), Upper(t))
               PROVE  txs[c][i] # txs[c][j]
  BY DEF Window
<1>5. txs[c][i].block <= BeforeBlock[s] - 1 /\ AfterBlock[t] <= txs[c][j].block
  BY DEF Hits, Upper, Lower
<1>6. txs[c][i].block \in Nat /\ txs[c][j].block \in Nat
  BY <1>1 DEF Hits, Tx
<1>7. txs[c][i].block < txs[c][j].block
  BY <1>2, <1>3, <1>5, <1>6
<1>8. QED
  BY <1>6, <1>7

(* No transaction of a contract is stored twice by deliveries whose        *)
(* exec_dates are an hour or more apart.                                   *)
THEOREM StoredOnce == Spec => []HoursDisjoint
<1>1. Safe /\ ContentSound => HoursDisjoint
  <2> SUFFICES ASSUME Safe, ContentSound, NEW c \in Contracts,
                      NEW g \in Hours, NEW h \in Hours,
                      objects[<<c, g>>] # NoObject, objects[<<c, h>>] # NoObject,
                      made[<<c, g>>] + PerHour <= made[<<c, h>>]
               PROVE  Content(objects[<<c, g>>]) \cap Content(objects[<<c, h>>]) = {}
    BY DEF HoursDisjoint
  <2>1. made[<<c, g>>] \in Moments /\ made[<<c, h>>] \in Moments
    BY DEF Safe, TypeOK, Keys
  <2>2. Window(c, made[<<c, g>>]) \cap Window(c, made[<<c, h>>]) = {}
    BY <2>1, WindowsApart
  <2>3. QED
    BY <2>2 DEF ContentSound
<1>2. QED
  BY <1>1, Typing, ContentCorrect, PTL

(* The starts of different hours are an hour or more apart, hence so are   *)
(* the exec_dates of deliveries that take the default.                     *)
LEMMA HoursApart ==
    ASSUME NEW g \in Hours, NEW h \in Hours, g < h
    PROVE  g + PerHour <= h
<1>0. PerHour \in Nat \ {0} /\ Moments \subseteq Nat
  BY ConstantsAssumption
<1>1. ASSUME NEW x \in Hours PROVE \E n \in Nat : x = PerHour * n
  <2>1. PICK t \in Moments : x = t - (t % PerHour)
    BY DEF Hours, Truncated
  <2>2. t \in Nat /\ t \div PerHour \in Nat /\ t % PerHour \in Nat
    BY <1>0
  <2>3. t = PerHour * (t \div PerHour) + (t % PerHour)
    BY <1>0, <2>2
  <2>4. PerHour * (t \div PerHour) \in Nat
    BY <1>0, <2>2
  <2> QED BY <2>1, <2>2, <2>3, <2>4
<1>2. PICK a \in Nat : g = PerHour * a
  BY <1>1
<1>3. PICK b \in Nat : h = PerHour * b
  BY <1>1
<1>4. a < b
  BY <1>0, <1>2, <1>3
<1>5. PICK d \in Nat : b = a + 1 + d
  <2>1. b - a - 1 \in Nat
    BY <1>4
  <2> QED BY <2>1
<1>6. PerHour * b = PerHour * (a + 1) + PerHour * d
  BY <1>0, <1>5
<1>7. PerHour * (a + 1) = PerHour * a + PerHour /\ PerHour * d >= 0
  BY <1>0
<1> QED BY <1>0, <1>2, <1>3, <1>6, <1>7

WholeHours == \A k \in Keys : made[k] \in Hours

StoredUnderOneHour ==
    \A c \in Contracts, g, h \in Hours :
        (g # h /\ objects[<<c, g>>] # NoObject /\ objects[<<c, h>>] # NoObject)
        => Content(objects[<<c, g>>]) \cap Content(objects[<<c, h>>]) = {}

(* No transaction of a contract is stored under two hours as long as every *)
(* exec_date that led to an object is a whole hour, as the default is.     *)
COROLLARY WholeHoursStoreOnce == Spec => [](WholeHours => StoredUnderOneHour)
<1>1. Safe /\ ContentSound /\ HoursDisjoint => (WholeHours => StoredUnderOneHour)
  <2> SUFFICES ASSUME Safe, ContentSound, HoursDisjoint, WholeHours,
                      NEW c \in Contracts, NEW g \in Hours, NEW h \in Hours, g # h,
                      objects[<<c, g>>] # NoObject, objects[<<c, h>>] # NoObject
               PROVE  Content(objects[<<c, g>>]) \cap Content(objects[<<c, h>>]) = {}
    BY DEF StoredUnderOneHour
  <2> DEFINE s == made[<<c, g>>]
             t == made[<<c, h>>]
  <2>1. s \in Hours /\ t \in Hours
    BY DEF Keys, WholeHours
  <2>2. Truncated(s) = g /\ Truncated(t) = h
    BY DEF ContentSound
  <2>3. s + PerHour <= t \/ t + PerHour <= s
    <3>1. s \in Nat /\ t \in Nat /\ s # t
      BY <2>1, <2>2, ConstantsAssumption
    <3> HIDE DEF s, t
    <3>2. s < t \/ t < s
      BY <3>1
    <3> QED BY <2>1, <3>2, HoursApart
  <2> QED BY <2>3 DEF HoursDisjoint
<1> QED BY <1>1, Typing, ContentCorrect, StoredOnce, PTL

-----------------------------------------------------------------------------
(* Writing once.                                                           *)

(* Until something goes wrong, a delivery that is about to put still finds *)
(* its key empty, and nobody else is running.                              *)
AloneAndAbsent ==
    mishaps = {} =>
        /\ \A e, f \in Events : Active(e) /\ Active(f) => e = f
        /\ \A e \in Events : phase[e] = "putting" => objects[Key(e)] = NoObject

(* No mishap is forgotten.                                                 *)
LEMMA MishapsGrow ==
    ASSUME Safe, [Next]_vars
    PROVE  mishaps \subseteq mishaps'
BY DEF Next, vars, local, Tick, Send, Advance, Fault, Start, StartFails,
       NextPage, EndOfPages, ApiError, HeadFound, HeadMissing, Put, Crash

(* Until something goes wrong, the key a delivery is about to put stays    *)
(* empty until it puts it.                                                 *)
LEMMA AloneStep == Safe /\ AloneAndAbsent /\ [Next]_vars => AloneAndAbsent'
<1> SUFFICES ASSUME Safe, AloneAndAbsent, [Next]_vars, mishaps' = {}
             PROVE AloneAndAbsent'
  BY DEF AloneAndAbsent
<1> DEFINE Alone == \A e, f \in Events : Active(e) /\ Active(f) => e = f
           Absent(e) == phase[e] = "putting" => objects[Key(e)] = NoObject
<1>1. Alone /\ \A e \in Events : Absent(e)
  BY MishapsGrow DEF AloneAndAbsent
<1>2. phase \in [Events -> Phases] /\ objects \in [Keys -> Seq(Tx) \cup {NoObject}]
  BY DEF Safe, TypeOK
<1>3. ASSUME UNCHANGED <<date, rank, pos, objects>>,
             \A f \in Events : Active(f)' => Active(f),
             \A f \in Events : phase'[f] = "putting" => phase[f] = "putting"
      PROVE  AloneAndAbsent'
  BY <1>1, <1>3 DEF AloneAndAbsent, Key, Current
<1>4. CASE Tick
  BY <1>3, <1>4 DEF Tick, local, Active
<1>5. ASSUME NEW e \in Events, Send(e) PROVE AloneAndAbsent'
  BY <1>2, <1>3, <1>5 DEF Send, Active
<1>6. ASSUME NEW e \in Events, Start(e) PROVE AloneAndAbsent'
  <2>1. \A f \in Events : ~Active(f)
    BY <1>6 DEF Start, Active
  <2>2. \A f \in Events : Active(f)' => f = e
    BY <1>2, <1>6, <2>1 DEF Start, Active
  <2>3. \A f \in Events : phase'[f] # "putting"
    BY <1>2, <1>6, <2>1 DEF Start, Active
  <2>4. QED
    BY <2>2, <2>3 DEF AloneAndAbsent
<1>7. ASSUME NEW e \in Events, StartFails(e) PROVE AloneAndAbsent'
  BY <1>2, <1>3, <1>7 DEF StartFails, AfterFailure, Active
<1>8. ASSUME NEW e \in Events, NextPage(e) PROVE AloneAndAbsent'
  BY <1>3, <1>8 DEF NextPage, Active
<1>9. ASSUME NEW e \in Events, EndOfPages(e) PROVE AloneAndAbsent'
  BY <1>2, <1>3, <1>9 DEF EndOfPages, LimitsMet, InLoop, Active
<1>10. ASSUME NEW e \in Events, ApiError(e) PROVE AloneAndAbsent'
  BY <1>2, <1>3, <1>10 DEF ApiError, InLoop, Active
<1>11. ASSUME NEW e \in Events, phase[e] \in {"heading", "putting"},
              NextContract(e)
       PROVE  AloneAndAbsent'
  <2>1. \A f \in Events : Active(f) => f = e
    BY <1>1, <1>11 DEF Active
  <2>2. \A f \in Events : Active(f)' => f = e
    BY <1>2, <1>11, <2>1 DEF NextContract, Active
  <2>3. \A f \in Events : phase'[f] # "putting"
    BY <1>2, <1>11, <2>1 DEF NextContract, Active
  <2>4. QED
    BY <2>2, <2>3 DEF AloneAndAbsent
<1>12. ASSUME NEW e \in Events, HeadFound(e) PROVE AloneAndAbsent'
  BY <1>11, <1>12 DEF HeadFound
<1>13. ASSUME NEW e \in Events, HeadMissing(e) PROVE AloneAndAbsent'
  <2>1. objects[Key(e)] = NoObject
    BY <1>13 DEF HeadMissing
  <2>2. UNCHANGED <<date, rank, pos, objects>>
    BY <1>13 DEF HeadMissing
  <2>3. \A f \in Events : Active(f)' => Active(f)
    BY <1>2, <1>13 DEF HeadMissing, Active
  <2>4. \A f \in Events : phase'[f] = "putting" => f = e \/ phase[f] = "putting"
    BY <1>2, <1>13 DEF HeadMissing
  <2>5. QED
    BY <1>1, <2>1, <2>2, <2>3, <2>4 DEF AloneAndAbsent, Key, Current
<1>14. ASSUME NEW e \in Events, Put(e) PROVE AloneAndAbsent'
  BY <1>11, <1>14 DEF Put
<1>15. ASSUME NEW e \in Events, Crash(e) PROVE AloneAndAbsent'
  BY <1>2, <1>3, <1>15 DEF Crash, AfterFailure, Active
<1>16. CASE UNCHANGED vars
  BY <1>3, <1>16 DEF vars, local, Active
<1>17. QED
  BY <1>4, <1>5, <1>6, <1>7, <1>8, <1>9, <1>10, <1>12, <1>13, <1>14, <1>15,
     <1>16
  DEF Next, Advance, Fault

(* A put is the only step that changes an object.                          *)
LEMMA OnlyPutStores ==
    ASSUME Safe, AloneAndAbsent, [Next]_vars, mishaps = {},
           NEW k \in Keys, objects[k] # NoObject
    PROVE  objects'[k] = objects[k]
<1>1. CASE \E e \in Events : Put(e)
  <2>1. PICK e \in Events : Put(e)
    BY <1>1
  <2>2. objects[Key(e)] = NoObject
    BY <2>1 DEF Put, AloneAndAbsent
  <2>3. objects' = [objects EXCEPT ![Key(e)] = acc[e]]
    BY <2>1 DEF Put
  <2>4. QED
    BY <2>2, <2>3 DEF Safe, TypeOK
<1>2. CASE ~\E e \in Events : Put(e)
  BY <1>2
  DEF Next, vars, Tick, Send, Advance, Fault, Start, StartFails, NextPage,
      EndOfPages, ApiError, HeadFound, HeadMissing, Crash
<1>3. QED
  BY <1>1, <1>2

(* "Never overwrite an already-ingested hour" holds, crashes and retries   *)
(* included, until deliveries overlap or head_object fails on an object.   *)
THEOREM WriteOnce == Spec => OverwriteNeedsMishap
<1>1. Init => AloneAndAbsent
  BY DEF Init, AloneAndAbsent, Active
<1>2. Safe /\ AloneAndAbsent /\ [Next]_vars => AloneAndAbsent'
  BY AloneStep
<1>3. Safe /\ AloneAndAbsent /\ [Next]_vars =>
      [\A k \in Keys :
         (objects[k] # NoObject /\ mishaps = {}) => objects'[k] = objects[k]]_vars
  BY OnlyPutStores
<1>4. QED
  BY <1>1, <1>2, <1>3, Typing, PTL DEF Spec, OverwriteNeedsMishap
=============================================================================
