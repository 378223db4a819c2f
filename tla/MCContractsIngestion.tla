------------------------ MODULE MCContractsIngestion ------------------------
(* Instances of ContractsIngestion for TLC.                                *)
EXTENDS ContractsIngestion, TLC

CONSTANTS c1, c2, e1, e2

TxOf(id, b) == [id |-> id, block |-> b]

(* Moments of half an hour: 1:00, 1:30 and 2:00.  Block 18 is mined        *)
(* exactly at 1:00, so the window of 1:00 asks for 15..17, that of 1:30    *)
(* for 16..19 and that of 2:00 for 18..21.                                 *)
HalfHours == {2, 3, 4}
ThreeAfter == (2 :> 15) @@ (3 :> 16) @@ (4 :> 18)
ThreeBefore == (2 :> 18) @@ (3 :> 20) @@ (4 :> 22)
ThreeHeads == {18, 22}

(* All windows, a block 16 that fills a page, the shared block 18 and      *)
(* block 19 behind it, which an answer of head 18 does not know.           *)
OneHistory ==
    {[c \in {c1, c2} |->
        IF c = c1 THEN <<TxOf(1, 16), TxOf(2, 16)>>
                  ELSE <<TxOf(3, 16), TxOf(4, 18), TxOf(5, 19)>>]}

EventsAlike == Permutations({e1, e2})

TwoContracts == {<<c1, c2>>}
OneContract == {<<c1>>}

(* Every history of at most five transactions in the blocks 8..13, under   *)
(* the windows of 1:00 and 2:00: one whose limits cross from one digit to  *)
(* two (8..10) and one with limits of two digits (11..13).                 *)
Sorted(s) == \A i \in 1..(Len(s) - 1) : s[i] <= s[i + 1]
BlockLists(B, n) == {s \in UNION {[1..k -> B] : k \in 0..n} : Sorted(s)}
PagingHistories ==
    {[c \in {c1} |-> [i \in DOMAIN s |-> TxOf(i, s[i])]] :
        s \in BlockLists(8..13, 5)}
WholeHours == {2, 4}
PagingAfter == (2 :> 8) @@ (4 :> 11)
PagingBefore == (2 :> 11) @@ (4 :> 14)
PagingHeads == {11, 12, 14}
=============================================================================
