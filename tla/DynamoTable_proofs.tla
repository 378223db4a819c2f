-------------------------- MODULE DynamoTable_proofs --------------------------
(***************************************************************************)
(* Safety of the table client for any number of clients, keys, values and  *)
(* pages, any batch size, and any delay of the replica.                    *)
(***************************************************************************)
EXTENDS DynamoTable, FiniteSetTheorems, TLAPS

Elems(s) == {s[i] : i \in 1..Len(s)}

(* Requests of the batch of c that have not been processed.                *)
Pending(c) == Elems(reqs[c]) \cup Elems(buffer[c])

(* What c has listed of k is what k has been since the call began.         *)
Shows(c, k) ==
    calm[c][k] # Touched =>
        /\ \A e \in got[c] : e.key = k => e.item = calm[c][k]
        /\ calm[c][k] # NoItem => \E e \in got[c] : e.key = k

(* While c pages, what is calm looks the same to leader and replica, and   *)
(* up to the start key it has been listed.                                 *)
PagingOK(c) ==
    step[c] = "paging" =>
        /\ call[c] \in {"query", "delete_all_by_pk"}
        /\ call[c] = "delete_all_by_pk" => range[c] = Keys /\ limit[c] = 0
        /\ ~failed[c] /\ asked[c] = {} /\ reqs[c] = <<>> /\ buffer[c] = <<>>
        /\ count[c] = Cardinality(KeysOf(got[c]))
        /\ \A e \in got[c] : e.key \in range[c] /\ e.key <= start[c]
        /\ \A k \in range[c] : k <= start[c] => Shows(c, k)
        /\ \A k \in Keys : calm[c][k] # Touched =>
               table[k] = calm[c][k] /\ replica[k] = calm[c][k]

(* A query that has been answered.                                         *)
AnswerOK(c) ==
    (call[c] = "query" /\ step[c] = "answer") =>
        /\ count[c] = Cardinality(KeysOf(got[c]))
        /\ \A k \in range[c] :
               ((limit[c] # 0 /\ count[c] >= limit[c]) => k <= start[c]) => Shows(c, k)

(* While c sends, what is wanted under a calm key is there or pending.     *)
SendingOK(c) ==
    step[c] = "sending" =>
        /\ call[c] \in {"batch_write", "delete_all_by_pk"}
        /\ Pending(c) \subseteq asked[c]
        /\ call[c] = "delete_all_by_pk" => \A q \in asked[c] : q.item = NoItem
        /\ ~failed[c] => \A k \in Keys : (calm[c][k] # Touched /\ Wanted(c, k) # {}) =>
               table[k] \in Wanted(c, k) \/ \E q \in Pending(c) : q.key = k

LandedOK(c) ==
    (call[c] \in {"batch_write", "delete_all_by_pk"}
       /\ step[c] = "answer" /\ ~failed[c]) =>
        \A k \in Keys : (calm[c][k] # Touched /\ Wanted(c, k) # {}) =>
            table[k] \in Wanted(c, k)

IdleOK(c) ==
    step[c] = "idle" =>
        /\ start[c] = 0 /\ got[c] = {} /\ count[c] = 0
        /\ asked[c] = {} /\ reqs[c] = <<>> /\ buffer[c] = <<>> /\ ~failed[c]

ClientOK(c) ==
    IdleOK(c) /\ PagingOK(c) /\ AnswerOK(c) /\ SendingOK(c) /\ LandedOK(c)

(* A claim is on an item that exists, and on a key there is one claim.     *)
ClaimsOK ==
    /\ \A x \in claims : table[x[2]] # NoItem
    /\ SemaphoreExclusive

TableInv == TypeOK /\ ClaimsOK /\ \A c \in Clients : ClientOK(c)

-----------------------------------------------------------------------------
(* Sequences and their elements.                                           *)

LEMMA WiderSeq ==
    ASSUME NEW S, NEW T, S \subseteq T, NEW s \in Seq(S)
    PROVE  s \in Seq(T)
  OBVIOUS

LEMMA SplitElems ==
    ASSUME NEW S, NEW s \in Seq(S), NEW n \in 0..Len(s)
    PROVE  /\ SubSeq(s, 1, n) \in Seq(S) /\ SubSeq(s, n + 1, Len(s)) \in Seq(S)
           /\ Len(SubSeq(s, 1, n)) = n
           /\ Elems(s) = Elems(SubSeq(s, 1, n)) \cup Elems(SubSeq(s, n + 1, Len(s)))
<1> DEFINE a == SubSeq(s, 1, n)
           b == SubSeq(s, n + 1, Len(s))
<1>1. /\ a \in Seq(S) /\ b \in Seq(S)
      /\ Len(a) = n /\ Len(b) = Len(s) - n
      /\ \A i \in 1..n : a[i] = s[i]
      /\ \A i \in 1..(Len(s) - n) : b[i] = s[n + i]
  OBVIOUS
<1>2. ASSUME NEW i \in 1..Len(s)
      PROVE  s[i] \in Elems(a) \cup Elems(b)
  <2>1. CASE i <= n
    BY <1>1, <2>1 DEF Elems
  <2>2. CASE i > n
    <3>1. i - n \in 1..Len(b) /\ b[i - n] = s[i]
      BY <1>1, <2>2
    <3> QED BY <3>1 DEF Elems
  <2> QED BY <2>1, <2>2
<1>3. Elems(a) \subseteq Elems(s)
  BY <1>1 DEF Elems
<1>4. ASSUME NEW i \in 1..Len(b)
      PROVE  b[i] \in Elems(s)
  <2>1. n + i \in 1..Len(s) /\ s[n + i] = b[i]
    BY <1>1
  <2> QED BY <2>1 DEF Elems
<1> QED
  BY <1>1, <1>2, <1>3, <1>4 DEF Elems

LEMMA JoinElems ==
    ASSUME NEW S, NEW s \in Seq(S), NEW t \in Seq(S)
    PROVE  s \o t \in Seq(S) /\ Elems(s \o t) = Elems(s) \cup Elems(t)
<1>1. /\ s \o t \in Seq(S) /\ Len(s \o t) = Len(s) + Len(t)
      /\ \A i \in 1..Len(s) : (s \o t)[i] = s[i]
      /\ \A i \in 1..Len(t) : (s \o t)[Len(s) + i] = t[i]
  OBVIOUS
<1>2. ASSUME NEW i \in 1..Len(s \o t)
      PROVE  (s \o t)[i] \in Elems(s) \cup Elems(t)
  <2>1. CASE i <= Len(s)
    BY <1>1, <2>1 DEF Elems
  <2>2. CASE i > Len(s)
    <3>1. i - Len(s) \in 1..Len(t) /\ (s \o t)[i] = t[i - Len(s)]
      BY <1>1, <2>2
    <3> QED BY <3>1 DEF Elems
  <2> QED BY <2>1, <2>2
<1>3. Elems(s) \subseteq Elems(s \o t)
  BY <1>1 DEF Elems
<1>4. ASSUME NEW i \in 1..Len(t)
      PROVE  t[i] \in Elems(s \o t)
  <2>1. Len(s) + i \in 1..Len(s \o t)
    BY <1>1
  <2> QED BY <1>1, <2>1 DEF Elems
<1> QED
  BY <1>1, <1>2, <1>3, <1>4 DEF Elems

(* An arrangement of a finite set has all its elements.                    *)
LEMMA ArrangedElems ==
    ASSUME NEW S, IsFiniteSet(S), NEW s \in SetToSeqs(S)
    PROVE  s \in Seq(S) /\ Elems(s) = S
<1> DEFINE n == Cardinality(S)
<1>1. n \in Nat
  BY FS_CardinalityType
<1>2. s \in [1..n -> S] /\ \A i, j \in 1..n : i # j => s[i] # s[j]
  BY DEF SetToSeqs
<1>3. s \in Injection(1..n, S)
  BY <1>2 DEF Injection, IsInjective
<1>4. Cardinality(1..n) = n
  BY <1>1, FS_Interval
<1>5. s \in Surjection(1..n, S)
  BY <1>3, <1>4, FS_Injection
<1>6. s \in Seq(S) /\ Len(s) = n
  BY <1>1, <1>2
<1> QED
  BY <1>2, <1>5, <1>6 DEF Surjection, Elems

(* What a flush takes and leaves are the pending requests.                 *)
LEMMA HeldElems ==
    ASSUME NEW c, reqs[c] \in Seq(Requests), buffer[c] \in Seq(Requests)
    PROVE  LET rest == SubSeq(reqs[c], Handed(c) + 1, Len(reqs[c])) IN
           /\ Sent(c) \in Seq(Requests) /\ Behind(c) \in Seq(Requests)
           /\ rest \in Seq(Requests)
           /\ Pending(c) = Elems(Sent(c)) \cup Elems(Behind(c)) \cup Elems(rest)
<1> DEFINE rest == SubSeq(reqs[c], Handed(c) + 1, Len(reqs[c]))
           front == SubSeq(reqs[c], 1, Handed(c))
           n == Least(BatchSize, Len(Held(c)))
<1>1. Handed(c) \in 0..Len(reqs[c])
  <2>1. Len(reqs[c]) \in Nat /\ Len(buffer[c]) \in Nat /\ BatchSize \in Nat \ {0}
    BY CallsAssumption
  <2> QED BY <2>1 DEF Handed, Least
<1>2. /\ front \in Seq(Requests) /\ rest \in Seq(Requests)
      /\ Elems(reqs[c]) = Elems(front) \cup Elems(rest)
  BY <1>1, SplitElems
<1>3. /\ Held(c) \in Seq(Requests)
      /\ Elems(Held(c)) = Elems(buffer[c]) \cup Elems(front)
  <2>1. Held(c) = buffer[c] \o front
    BY DEF Held
  <2> HIDE DEF front
  <2> QED BY <1>2, <2>1, JoinElems
<1>4. n \in 0..Len(Held(c))
  <2>1. Len(Held(c)) \in Nat /\ BatchSize \in Nat \ {0}
    BY <1>3, CallsAssumption
  <2> QED BY <2>1 DEF Least
<1>5. /\ Sent(c) \in Seq(Requests) /\ Len(Sent(c)) = n
      /\ SubSeq(Held(c), n + 1, Len(Held(c))) \in Seq(Requests)
      /\ Elems(Held(c)) = Elems(Sent(c)) \cup Elems(SubSeq(Held(c), n + 1, Len(Held(c))))
  BY <1>3, <1>4, SplitElems DEF Sent
<1>6. Behind(c) = SubSeq(Held(c), n + 1, Len(Held(c)))
  BY <1>5 DEF Behind
<1> QED
  BY <1>2, <1>3, <1>5, <1>6 DEF Pending

-----------------------------------------------------------------------------
(* Pages.                                                                  *)

LEMMA KeysAreNumbers ==
    /\ \A k \in Keys \cup {0} : k \in Nat
    /\ \A k \in Keys : k > 0
    /\ \A R \in Ranges \cup {{}} : R \in SUBSET Keys
    /\ Keys \in Ranges
<1>1. \A R \in Ranges \cup {{}} : R \in SUBSET Keys
  BY KeysAssumption
<1>2. \A k \in Keys \cup {0} : k \in Nat
  BY KeysAssumption
<1>3. \A k \in Keys : k > 0
  BY KeysAssumption
<1> QED
  BY <1>1, <1>2, <1>3, KeysAssumption

(* A page of c with the keys in U: what it has, and how much it is.        *)
Page(c, seen, U) == {e \in Ahead(c, seen) : e.key \in U}

LEMMA PageOK ==
    ASSUME TypeOK, NEW c \in Clients, PagingOK(c), step[c] = "paging",
           NEW seen \in Readings, NEW U
    PROVE  LET P == Page(c, seen, U) IN
           /\ P \in SUBSET Entries
           /\ \A e \in P : e.key \in range[c] /\ start[c] < e.key /\ e.key \in U
           /\ Cardinality(P) \in Nat
           /\ count[c] + Cardinality(P) = Cardinality(KeysOf(got[c] \cup P))
           /\ \A k \in range[c] : (start[c] < k /\ k \in U /\ calm[c][k] # Touched) =>
                  /\ \A e \in P : e.key = k => e.item = calm[c][k]
                  /\ calm[c][k] # NoItem => \E e \in P : e.key = k
<1> USE KeysAssumption
<1> DEFINE P == Page(c, seen, U)
<1>1. range[c] \subseteq Keys /\ start[c] \in Nat /\ got[c] \subseteq Entries
  <2>1. range[c] \in Ranges \cup {{}} /\ start[c] \in Keys \cup {0}
    BY DEF TypeOK
  <2>2. got[c] \in SUBSET Entries
    BY DEF TypeOK
  <2> QED BY <2>1, <2>2, KeysAreNumbers
<1>2. /\ seen \in [Keys -> MaybeItem]
      /\ \A k \in Keys : seen[k] = table[k] \/ seen[k] = replica[k]
  <2>1. PICK S : seen = [k \in Keys |-> IF k \in S THEN replica[k] ELSE table[k]]
    BY DEF Readings
  <2>2. table \in [Keys -> MaybeItem] /\ replica \in [Keys -> MaybeItem]
    BY DEF TypeOK
  <2> QED BY <2>1, <2>2
<1>3. \A e \in P : /\ e.key \in range[c] /\ start[c] < e.key /\ e.key \in U
                   /\ e.item = seen[e.key] /\ e.item # NoItem
                   /\ e = [key |-> e.key, item |-> seen[e.key]]
  BY DEF Ahead, Page
<1>4. P \in SUBSET Entries
  BY <1>1, <1>2, <1>3 DEF Entries, MaybeItem
<1>5. \A k \in range[c] : (start[c] < k /\ k \in U /\ seen[k] # NoItem) =>
           \E e \in P : e.key = k
  <2> SUFFICES ASSUME NEW k \in range[c], start[c] < k, k \in U, seen[k] # NoItem
               PROVE  \E e \in P : e.key = k
    OBVIOUS
  <2> DEFINE e == [key |-> k, item |-> seen[k]]
  <2>1. e \in Ahead(c, seen)
    BY DEF Ahead
  <2>2. e.key = k
    OBVIOUS
  <2> QED BY <2>1, <2>2 DEF Page
<1>6. IsFiniteSet(KeysOf(P)) /\ IsFiniteSet(KeysOf(got[c]))
  <2>1. KeysOf(P) \in SUBSET Keys /\ KeysOf(got[c]) \in SUBSET Keys
    BY <1>1, <1>4 DEF KeysOf, Entries
  <2> QED BY <2>1, FS_Subset
<1>7. Cardinality(P) \in Nat /\ Cardinality(P) = Cardinality(KeysOf(P))
  <2> DEFINE f == [e \in P |-> e.key]
  <2>1. f \in Injection(P, KeysOf(P))
    BY <1>3 DEF Injection, IsInjective, KeysOf
  <2>2. f \in Surjection(P, KeysOf(P))
    BY DEF Surjection, KeysOf
  <2>3. IsFiniteSet(P)
    BY <1>6, <2>1, FS_Injection
  <2>4. Cardinality(P) = Cardinality(KeysOf(P))
    BY <1>6, <2>1, <2>2, FS_Injection
  <2> QED BY <2>3, <2>4, FS_CardinalityType
<1>8. KeysOf(P) \cap KeysOf(got[c]) = {}
  BY <1>1, <1>3 DEF KeysOf, PagingOK
<1>9. Cardinality(KeysOf(got[c]) \cup KeysOf(P)) =
          Cardinality(KeysOf(got[c])) + Cardinality(KeysOf(P))
  <2>1. Cardinality(KeysOf(got[c]) \cap KeysOf(P)) = 0
    BY <1>8, FS_EmptySet
  <2>2. Cardinality(KeysOf(got[c])) \in Nat /\ Cardinality(KeysOf(P)) \in Nat
    BY <1>6, FS_CardinalityType
  <2>3. Cardinality(KeysOf(got[c]) \cup KeysOf(P)) =
            Cardinality(KeysOf(got[c])) + Cardinality(KeysOf(P)) - 0
    BY <1>6, <2>1, FS_Union
  <2> QED BY <2>2, <2>3
<1>10. KeysOf(got[c] \cup P) = KeysOf(got[c]) \cup KeysOf(P)
  BY DEF KeysOf
<1>11. count[c] = Cardinality(KeysOf(got[c]))
  BY DEF PagingOK
<1>12. \A k \in range[c] : calm[c][k] # Touched => seen[k] = calm[c][k]
  BY <1>1, <1>2 DEF PagingOK
<1>13. count[c] + Cardinality(P) = Cardinality(KeysOf(got[c] \cup P))
  BY <1>7, <1>9, <1>10, <1>11
<1>14. ASSUME NEW k \in range[c], start[c] < k, k \in U, calm[c][k] # Touched
       PROVE  /\ \A e \in P : e.key = k => e.item = calm[c][k]
              /\ calm[c][k] # NoItem => \E e \in P : e.key = k
  BY <1>3, <1>5, <1>12, <1>14
<1> QED
  BY <1>3, <1>4, <1>7, <1>13, <1>14

-----------------------------------------------------------------------------
(* A flush.                                                                *)

LEMMA FiniteElems ==
    ASSUME NEW S, NEW s \in Seq(S), NEW D \in SUBSET (1..Len(s))
    PROVE  IsFiniteSet({s[i] : i \in D})
<1> DEFINE f == [i \in D |-> s[i]]
<1>1. IsFiniteSet(D)
  <2>1. IsFiniteSet(1..Len(s))
    BY FS_Interval
  <2> QED BY <2>1, FS_Subset
<1>2. f \in Surjection(D, {s[i] : i \in D})
  BY DEF Surjection
<1> QED
  BY <1>1, <1>2, FS_Surjection

(* Each key has what a pending request wanted, or is as it was and its     *)
(* requests are still pending; nothing is pending any more when c is told. *)
LEMMA FlushEffect ==
    ASSUME TypeOK, NEW c \in Clients, Flush(c)
    PROVE  /\ reqs' \in [Clients -> Seq(Requests)]
           /\ buffer' \in [Clients -> Seq(Requests)]
           /\ Pending(c) \subseteq Requests
           /\ Pending(c)' \subseteq Pending(c)
           /\ \A k \in Keys :
                 \/ \E q \in Pending(c) : q.key = k /\ table'[k] = q.item
                 \/ /\ table'[k] = table[k]
                    /\ \A q \in Pending(c) : q.key = k => q \in Pending(c)'
           /\ step'[c] \in {"sending", "answer"}
           /\ step'[c] = "answer" => Pending(c)' = {}
<1> DEFINE rest == SubSeq(reqs[c], Handed(c) + 1, Len(reqs[c]))
           S == Sent(c)
           B == Behind(c)
<1>1. /\ reqs \in [Clients -> Seq(Requests)] /\ buffer \in [Clients -> Seq(Requests)]
      /\ step \in [Clients -> Steps]
  BY DEF TypeOK
<1>2. /\ S \in Seq(Requests) /\ B \in Seq(Requests) /\ rest \in Seq(Requests)
      /\ Pending(c) = Elems(S) \cup Elems(B) \cup Elems(rest)
  BY <1>1, HeldElems
<1>3. PICK done \in (SUBSET (1..Len(S))) \ {{}} :
         /\ Change({c}, [k \in Keys |->
                IF \E i \in done : S[i].key = k
                THEN S[CHOOSE i \in done : S[i].key = k].item
                ELSE table[k]])
         /\ \E left \in SetToSeqs({S[i] : i \in (1..Len(S)) \ done}) :
               Remains(c, B \o left, rest)
  BY DEF Flush
<1> DEFINE L == {S[i] : i \in (1..Len(S)) \ done}
<1>4. PICK left \in SetToSeqs(L) : Remains(c, B \o left, rest)
  BY <1>3
<1> HIDE DEF S, B, rest
<1>5. left \in Seq(Requests) /\ Elems(left) = L
  <2>1. IsFiniteSet(L)
    BY <1>2, FiniteElems
  <2> HIDE DEF L
  <2>2. left \in Seq(L) /\ Elems(left) = L
    BY <2>1, <1>4, ArrangedElems
  <2>3. L \subseteq Requests
    BY <1>2 DEF L
  <2> QED BY <2>2, <2>3
<1>6. B \o left \in Seq(Requests) /\ Elems(B \o left) = Elems(B) \cup L
  BY <1>2, <1>5, JoinElems
<1>7. /\ buffer' = [buffer EXCEPT ![c] = B \o left]
      /\ reqs' = [reqs EXCEPT ![c] = rest]
      /\ step' = [step EXCEPT ![c] =
                     IF B \o left = <<>> /\ rest = <<>> THEN "answer" ELSE @]
  BY <1>4 DEF Remains
<1>8. buffer'[c] = B \o left /\ reqs'[c] = rest
  BY <1>1, <1>7
<1>9. Pending(c)' = Elems(rest) \cup Elems(B) \cup L
  <2>1. Pending(c)' = Elems(reqs'[c]) \cup Elems(buffer'[c])
    BY DEF Pending, Elems
  <2> QED BY <1>6, <1>8, <2>1
<1>10. L \subseteq Elems(S)
  BY DEF L, Elems
<1>11. ASSUME NEW k \in Keys
       PROVE  \/ \E q \in Pending(c) : q.key = k /\ table'[k] = q.item
              \/ /\ table'[k] = table[k]
                 /\ \A q \in Pending(c) : q.key = k => q \in Pending(c)'
  <2>1. table'[k] = IF \E i \in done : S[i].key = k
                    THEN S[CHOOSE i \in done : S[i].key = k].item ELSE table[k]
    BY <1>3 DEF Change
  <2>2. CASE \E i \in done : S[i].key = k
    <3>1. PICK i \in done : S[i].key = k /\ table'[k] = S[i].item
      BY <2>1, <2>2
    <3>2. S[i] \in Elems(S)
      BY <3>1 DEF Elems
    <3> QED BY <1>2, <3>1, <3>2
  <2>3. CASE ~\E i \in done : S[i].key = k
    <3>1. \A q \in Elems(S) : q.key = k => q \in L
      BY <2>3 DEF Elems
    <3> QED BY <1>2, <1>9, <2>1, <2>3, <3>1
  <2> QED BY <2>2, <2>3
<1>12. Elems(S) \subseteq Requests /\ Elems(B) \subseteq Requests /\ Elems(rest) \subseteq Requests
  BY <1>2 DEF Elems
<1>13. step'[c] \in {"sending", "answer"}
  BY <1>1, <1>7 DEF Flush
<1>14. ASSUME step'[c] = "answer" PROVE Pending(c)' = {}
  <2>1. buffer'[c] = <<>> /\ reqs'[c] = <<>>
    BY <1>1, <1>7, <1>8, <1>14 DEF Flush
  <2> QED BY <2>1 DEF Pending, Elems
<1> QED
  BY <1>1, <1>2, <1>6, <1>7, <1>9, <1>10, <1>11, <1>12, <1>13, <1>14

-----------------------------------------------------------------------------
(* Types.                                                                  *)

LEMMA WriteTypes ==
    ASSUME TypeOK, NEW c \in Clients, NEW k \in Keys, NEW i \in MaybeItem, Write(c, k, i)
    PROVE  TypeOK'
<1>1. table' \in [Keys -> MaybeItem]
  BY DEF TypeOK, Write, Change
<1>2. /\ calm' \in [Clients -> [Keys -> MaybeItem \cup {Touched}]]
      /\ claims' \subseteq Clients \X Keys
  BY DEF TypeOK, Write, Change, Disturb
<1>3. writes' \in 0..MaxWrites
  BY BoundsAssumption DEF TypeOK, Write
<1> QED
  BY <1>1, <1>2, <1>3 DEF TypeOK, Write, at, query, batch

LEMMA UpdateWrites ==
    ASSUME TypeOK, NEW c \in Clients, UpdateItem(c)
    PROVE  \E k \in Keys, i \in MaybeItem : Write(c, k, i)
<1>1. PICK k \in Keys, v \in Values, t \in BOOLEAN :
         Write(c, k, [val |-> v, ttl |-> t \/ (table[k] # NoItem /\ table[k].ttl)])
  BY DEF UpdateItem
<1>2. t \/ (table[k] # NoItem /\ table[k].ttl) \in BOOLEAN
  <2>1. CASE table[k] = NoItem
    BY <2>1, Zenon
  <2>2. CASE table[k] # NoItem
    <3>1. table[k] \in Items
      BY <2>2 DEF TypeOK, MaybeItem
    <3>2. table[k].ttl \in BOOLEAN
      BY <3>1 DEF Items
    <3> QED BY <2>2, <3>2, Zenon
  <2> QED BY <2>1, <2>2
<1> DEFINE i == [val |-> v, ttl |-> t \/ (table[k] # NoItem /\ table[k].ttl)]
<1>3. i \in MaybeItem
  BY <1>2 DEF Items, MaybeItem
<1> QED
  BY <1>1, <1>3, Zenon

(* What a conditional put does, whether its answer arrives or not.         *)
LEMMA CondEffect ==
    ASSUME TypeOK, NEW c \in Clients, ConditionalPut(c) \/ ConditionalPutLost(c)
    PROVE  \E k \in Keys, i \in Items :
              /\ table[k] = NoItem /\ table' = [table EXCEPT ![k] = i]
              /\ calm' = Disturb({c}, {k})
              /\ claims' \subseteq claims \cup {<<c, k>>}
<1>1. CASE ConditionalPut(c)
  <2>1. PICK k \in Keys, v \in Values :
           /\ table[k] = NoItem
           /\ table' = [table EXCEPT ![k] = [val |-> v, ttl |-> TRUE]]
           /\ calm' = Disturb({c}, {k})
           /\ claims' = claims \cup {<<c, k>>}
    BY <1>1 DEF ConditionalPut
  <2>2. [val |-> v, ttl |-> TRUE] \in Items
    BY DEF Items
  <2> QED BY <2>1, <2>2
<1>2. CASE ConditionalPutLost(c)
  <2>1. PICK k \in Keys, v \in Values :
           /\ table[k] = NoItem
           /\ Change({c}, [table EXCEPT ![k] = [val |-> v, ttl |-> TRUE]])
    BY <1>2 DEF ConditionalPutLost
  <2> DEFINE i == [val |-> v, ttl |-> TRUE]
             T == [table EXCEPT ![k] = i]
  <2>2. i \in Items
    BY DEF Items
  <2>3. table \in [Keys -> MaybeItem] /\ i # NoItem
    BY <2>2, KeysAssumption DEF TypeOK
  <2> HIDE DEF i
  <2>4. {j \in Keys : T[j] # table[j]} = {k}
    BY <2>1, <2>3
  <2>5. table' = T /\ calm' = Disturb({c}, {k}) /\ claims' \subseteq claims \cup {<<c, k>>}
    BY <2>1, <2>4 DEF Change, i
  <2> QED BY <2>1, <2>2, <2>5
<1> QED
  BY <1>1, <1>2

LEMMA CondTypes ==
    ASSUME TypeOK, NEW c \in Clients, ConditionalPut(c) \/ ConditionalPutLost(c)
    PROVE  TypeOK'
<1>1. PICK k \in Keys, i \in Items :
         /\ table' = [table EXCEPT ![k] = i]
         /\ calm' = Disturb({c}, {k})
         /\ claims' \subseteq claims \cup {<<c, k>>}
  BY CondEffect
<1>2. table' \in [Keys -> MaybeItem]
  BY <1>1 DEF TypeOK, MaybeItem
<1>3. calm' \in [Clients -> [Keys -> MaybeItem \cup {Touched}]]
  BY <1>1 DEF TypeOK, Disturb
<1>4. claims' \subseteq Clients \X Keys
  BY <1>1 DEF TypeOK
<1>5. writes' \in 0..MaxWrites /\ faults' \in 0..MaxFaults
  BY BoundsAssumption DEF TypeOK, ConditionalPut, ConditionalPutLost, Fault
<1> QED
  BY <1>2, <1>3, <1>4, <1>5
  DEF TypeOK, ConditionalPut, ConditionalPutLost, at, query, batch

LEMMA BeginTypes ==
    ASSUME TypeOK, NEW c \in Clients, Query(c) \/ DeleteAllByPk(c) \/ BatchWrite(c)
    PROVE  TypeOK'
<1>1. PICK method \in Calls, s \in Steps : Begin(c, method, s)
  BY DEF Query, DeleteAllByPk, BatchWrite, BeginPaging, Calls, Steps
<1>2. /\ table' \in [Keys -> MaybeItem] /\ replica' \in [Keys -> MaybeItem]
      /\ call' \in [Clients -> Calls] /\ step' \in [Clients -> Steps]
      /\ calm' \in [Clients -> [Keys -> MaybeItem \cup {Touched}]]
      /\ claims' \subseteq Clients \X Keys
  BY <1>1 DEF TypeOK, Begin, data
<1>3. begun' \in 0..MaxCalls /\ writes' \in 0..MaxWrites /\ faults' \in 0..MaxFaults
  BY <1>1, BoundsAssumption DEF TypeOK, Begin
<1>4. CASE Query(c) \/ DeleteAllByPk(c)
  <2>1. PICK m \in Calls, R \in Ranges, n \in Limits : BeginPaging(c, m, R, n)
    BY <1>4, CallsAssumption, KeysAreNumbers DEF Query, DeleteAllByPk, Calls
  <2> QED BY <1>2, <1>3, <2>1 DEF TypeOK, BeginPaging, batch
<1>5. CASE BatchWrite(c)
  <2>1. PICK b \in Batches :
           /\ reqs' = [reqs EXCEPT ![c] = b]
           /\ asked' = [asked EXCEPT ![c] = {b[i] : i \in 1..Len(b)}]
    BY <1>5 DEF BatchWrite
  <2>2. b \in Seq(Requests)
    <3>1. b \in Seq([key : Keys, item : Items])
      BY CallsAssumption
    <3>2. [key : Keys, item : Items] \subseteq Requests
      BY DEF Requests, MaybeItem
    <3> QED BY <3>1, <3>2, WiderSeq
  <2>3. {b[i] : i \in 1..Len(b)} \in SUBSET Requests
    BY <2>2
  <2> QED BY <1>2, <1>3, <1>5, <2>1, <2>2, <2>3 DEF TypeOK, BatchWrite, query
<1> QED
  BY <1>4, <1>5

LEMMA FlushTypes ==
    ASSUME TypeOK, NEW c \in Clients, Flush(c)
    PROVE  TypeOK'
<1>1. /\ reqs' \in [Clients -> Seq(Requests)] /\ buffer' \in [Clients -> Seq(Requests)]
      /\ Pending(c) \subseteq Requests
      /\ \A k \in Keys : \/ \E q \in Pending(c) : table'[k] = q.item
                         \/ table'[k] = table[k]
  BY FlushEffect
<1>2. table' = [k \in Keys |-> table'[k]] /\ calm' = Disturb({c}, {k \in Keys : table'[k] # table[k]})
  BY DEF Flush, Change
<1>3. table' \in [Keys -> MaybeItem]
  <2>1. \A q \in Requests : q.item \in MaybeItem
    BY DEF Requests
  <2>2. table \in [Keys -> MaybeItem]
    BY DEF TypeOK
  <2>3. \A k \in Keys : table'[k] \in MaybeItem
    BY <1>1, <2>1, <2>2
  <2> QED BY <1>2, <2>3
<1>4. /\ calm' \in [Clients -> [Keys -> MaybeItem \cup {Touched}]]
      /\ claims' \subseteq Clients \X Keys
  <2>1. calm \in [Clients -> [Keys -> MaybeItem \cup {Touched}]]
    BY DEF TypeOK
  <2>2. calm' \in [Clients -> [Keys -> MaybeItem \cup {Touched}]]
    BY <1>2, <2>1 DEF Disturb
  <2>3. claims' \subseteq claims
    BY DEF Flush, Change
  <2> QED BY <2>2, <2>3 DEF TypeOK
<1>5. step' \in [Clients -> Steps]
  BY DEF TypeOK, Flush, Remains, Steps
<1> QED
  BY <1>1, <1>3, <1>4, <1>5 DEF TypeOK, Flush, query

LEMMA FlushFailsTypes ==
    ASSUME TypeOK, NEW c \in Clients, FlushFails(c)
    PROVE  TypeOK'
<1>1. reqs[c] \in Seq(Requests) /\ buffer[c] \in Seq(Requests)
  BY DEF TypeOK
<1>2. Behind(c) \in Seq(Requests)
  BY <1>1, HeldElems
<1>3. /\ buffer' \in [Clients -> Seq(Requests)] /\ reqs' \in [Clients -> Seq(Requests)]
      /\ step' \in [Clients -> Steps]
  BY <1>2 DEF TypeOK, FlushFails, Remains, Steps
<1>4. faults' \in 0..MaxFaults
  BY BoundsAssumption DEF TypeOK, FlushFails, Fault
<1> QED
  BY <1>3, <1>4 DEF TypeOK, FlushFails, data, query

LEMMA ForgetTypes ==
    ASSUME TypeOK, NEW c \in Clients, Return(c) \/ Crash(c)
    PROVE  TypeOK'
<1>1. 0 \in Limits
  BY CallsAssumption
<1>2. Forget(c)
  BY DEF Return, Crash
<1>3. /\ call' \in [Clients -> Calls] /\ step' \in [Clients -> Steps]
      /\ range' \in [Clients -> Ranges \cup {{}}] /\ limit' \in [Clients -> Limits]
      /\ start' \in [Clients -> Keys \cup {0}] /\ got' \in [Clients -> SUBSET Entries]
      /\ count' \in [Clients -> Nat] /\ asked' \in [Clients -> SUBSET Requests]
      /\ reqs' \in [Clients -> Seq(Requests)] /\ buffer' \in [Clients -> Seq(Requests)]
      /\ failed' \in [Clients -> BOOLEAN]
      /\ calm' \in [Clients -> [Keys -> MaybeItem \cup {Touched}]]
  BY <1>1, <1>2 DEF TypeOK, Forget, Calls, Steps
<1>4. /\ table' \in [Keys -> MaybeItem] /\ replica' \in [Keys -> MaybeItem]
      /\ claims' \subseteq Clients \X Keys
      /\ begun' \in 0..MaxCalls /\ writes' \in 0..MaxWrites /\ faults' \in 0..MaxFaults
  <2>1. /\ UNCHANGED <<table, replica, begun, writes>> /\ claims' \subseteq claims
        /\ faults' = faults \/ Fault
    BY DEF Return, Crash, data
  <2>2. faults' \in 0..MaxFaults
    BY <2>1, BoundsAssumption DEF TypeOK, Fault
  <2> QED BY <2>1, <2>2 DEF TypeOK
<1> QED
  BY <1>3, <1>4 DEF TypeOK

-----------------------------------------------------------------------------
(* The client that takes a step.                                           *)

(* After a page with the keys in U, of which all in range up to b, the     *)
(* keys up to b have been listed as they are.                              *)
LEMMA ListedShows ==
    ASSUME TypeOK, NEW c \in Clients, PagingOK(c), step[c] = "paging",
           NEW seen \in Readings, NEW U,
           Listed(c, Page(c, seen, U)), calm'[c] = calm[c], NEW k \in range[c],
           k \in U \/ k <= start[c]
    PROVE  Shows(c, k)'
<1> DEFINE P == Page(c, seen, U)
<1>1. k \in Nat /\ start[c] \in Nat
  BY KeysAreNumbers DEF TypeOK
<1>2. got' = [got EXCEPT ![c] = @ \cup P] /\ got'[c] = got[c] \cup P
  BY DEF Listed, TypeOK
<1>3. \A e \in got[c] : e.key \in range[c] /\ e.key <= start[c]
  BY DEF PagingOK
<1>4. /\ \A e \in P : e.key \in range[c] /\ start[c] < e.key
      /\ \A j \in range[c] : (start[c] < j /\ j \in U /\ calm[c][j] # Touched) =>
            /\ \A e \in P : e.key = j => e.item = calm[c][j]
            /\ calm[c][j] # NoItem => \E e \in P : e.key = j
  BY PageOK
<1> HIDE DEF P
<1>5. range[c] \subseteq Nat
  <2>1. range[c] \in Ranges \cup {{}}
    BY DEF TypeOK
  <2>2. range[c] \in SUBSET Keys
    BY <2>1, KeysAreNumbers
  <2> QED BY <2>2, KeysAreNumbers
<1>6. CASE k <= start[c]
  <2>1. Shows(c, k)
    BY <1>6 DEF PagingOK
  <2>2. \A e \in P : e.key # k
    BY <1>1, <1>4, <1>5, <1>6
  <2> QED BY <1>2, <2>1, <2>2 DEF Shows
<1>7. CASE ~(k <= start[c])
  <2>1. k \in U /\ start[c] < k
    BY <1>1, <1>7
  <2>2. \A e \in got[c] : e.key # k
    BY <1>1, <1>3, <1>5, <2>1
  <2> QED BY <1>2, <1>4, <2>1, <2>2 DEF Shows
<1> QED
  BY <1>6, <1>7

LEMMA NextPageOK ==
    ASSUME TypeOK, NEW c \in Clients, ClientOK(c), NextPage(c)
    PROVE  TypeOK' /\ ClientOK(c)'
<1>1. PICK seen \in Readings, last \in range[c] :
         LET P == {e \in Ahead(c, seen) : e.key <= last} IN
         /\ last \in KeysOf(P)
         /\ limit[c] = 0 \/ Cardinality(P) <= limit[c]
         /\ Listed(c, P)
         /\ start' = [start EXCEPT ![c] = last]
         /\ step' = [step EXCEPT ![c] =
                       IF Full(c, count[c] + Cardinality(P)) THEN "answer" ELSE @]
  BY DEF NextPage
<1> DEFINE U == {k \in range[c] : k <= last}
           P == Page(c, seen, U)
<1>2. P = {e \in Ahead(c, seen) : e.key <= last}
  BY DEF Ahead, Page
<1>3. PagingOK(c) /\ step[c] = "paging"
  BY DEF ClientOK, NextPage
<1> HIDE DEF P
<1>4. /\ P \in SUBSET Entries
      /\ \A e \in P : e.key \in range[c] /\ start[c] < e.key /\ e.key \in U
      /\ Cardinality(P) \in Nat
      /\ count[c] + Cardinality(P) = Cardinality(KeysOf(got[c] \cup P))
  BY <1>3, PageOK DEF P
<1>5. /\ Listed(c, P) /\ start' = [start EXCEPT ![c] = last]
      /\ step' = [step EXCEPT ![c] =
                    IF Full(c, count[c] + Cardinality(P)) THEN "answer" ELSE @]
  BY <1>1, <1>2
<1>6. /\ start \in [Clients -> Keys \cup {0}] /\ step \in [Clients -> Steps]
      /\ got \in [Clients -> SUBSET Entries] /\ count \in [Clients -> Nat]
      /\ range[c] \in SUBSET Keys /\ start[c] \in Nat /\ last \in Nat /\ last \in Keys
      /\ limit[c] \in Nat /\ count[c] \in Nat
  BY KeysAreNumbers, CallsAssumption DEF TypeOK
<1>7. /\ start' \in [Clients -> Keys \cup {0}] /\ step' \in [Clients -> Steps]
      /\ start'[c] = last /\ got'[c] = got[c] \cup P
      /\ count'[c] = count[c] + Cardinality(P)
      /\ step'[c] = IF Full(c, count[c] + Cardinality(P)) THEN "answer" ELSE "paging"
  BY <1>3, <1>5, <1>6 DEF Listed, Steps
<1>8. got' \in [Clients -> SUBSET Entries] /\ count' \in [Clients -> Nat]
  BY <1>4, <1>5, <1>6 DEF Listed
<1>9. TypeOK'
  BY <1>7, <1>8 DEF TypeOK, NextPage, data, batch
<1>10. UNCHANGED <<call, range, limit, asked, reqs, buffer, failed, calm, table, replica>>
  BY DEF NextPage, data, batch
<1>11. start[c] < last
  <2>1. PICK e \in P : e.key = last
    BY <1>1, <1>2 DEF KeysOf
  <2> QED BY <1>4, <2>1
<1>12. \A k \in range[c] : k <= last => Shows(c, k)'
  BY <1>3, <1>5, <1>10, ListedShows DEF P
<1>13. \A e \in got'[c] : e.key \in range[c] /\ e.key <= last
  <2>1. \A e \in got[c] : e.key \in range[c] /\ e.key <= start[c]
    BY <1>3 DEF PagingOK
  <2>2. \A e \in P : e.key \in range[c] /\ e.key <= last
    BY <1>4
  <2>3. \A e \in got[c] : e.key \in Nat
    BY <2>1, <1>6, KeysAreNumbers
  <2> QED BY <1>6, <1>7, <1>11, <2>1, <2>2, <2>3
<1>14. count'[c] = Cardinality(KeysOf(got'[c]))
  BY <1>4, <1>7
<1>15. PagingOK(c)'
  <2>1. /\ call[c] \in {"query", "delete_all_by_pk"}
        /\ call[c] = "delete_all_by_pk" => range[c] = Keys /\ limit[c] = 0
        /\ ~failed[c] /\ asked[c] = {} /\ reqs[c] = <<>> /\ buffer[c] = <<>>
        /\ \A k \in Keys : calm[c][k] # Touched =>
               table[k] = calm[c][k] /\ replica[k] = calm[c][k]
    BY <1>3 DEF PagingOK
  <2> QED BY <2>1, <1>7, <1>10, <1>12, <1>13, <1>14 DEF PagingOK, KeysOf
<1>16. AnswerOK(c)'
  <2> SUFFICES ASSUME step'[c] = "answer", NEW k \in range[c],
                      (limit[c] # 0 /\ count'[c] >= limit[c]) => k <= last
               PROVE  Shows(c, k)'
    BY <1>7, <1>10, <1>14 DEF AnswerOK, KeysOf
  <2>1. Full(c, count'[c])
    BY <1>7
  <2> QED BY <1>12, <2>1 DEF Full
<1>17. LandedOK(c)' /\ SendingOK(c)' /\ IdleOK(c)'
  <2>1. step'[c] = "answer" => limit[c] # 0
    BY <1>7 DEF Full
  <2>2. step'[c] = "answer" => call[c] = "query"
    BY <2>1, <1>3 DEF PagingOK
  <2> QED BY <1>7, <1>10, <2>2 DEF LandedOK, SendingOK, IdleOK
<1> QED
  BY <1>9, <1>15, <1>16, <1>17 DEF ClientOK

(* What delete_all_by_pk sends: a deletion of each key it has listed.      *)
LEMMA DeletionsOf ==
    ASSUME NEW G \in SUBSET Entries
    PROVE  /\ Deletions(G) \in SUBSET Requests
           /\ IsFiniteSet(Deletions(G))
           /\ \A q \in Deletions(G) : q.item = NoItem
           /\ \A e \in G : \E q \in Deletions(G) : q.key = e.key
<1> DEFINE K == KeysOf(G)
           f == [k \in K |-> [key |-> k, item |-> NoItem]]
<1>1. K \in SUBSET Keys
  BY DEF KeysOf, Entries
<1>2. IsFiniteSet(K)
  BY <1>1, KeysAssumption, FS_Subset
<1>3. f \in Surjection(K, Deletions(G))
  BY DEF Surjection, Deletions
<1>4. IsFiniteSet(Deletions(G))
  BY <1>2, <1>3, FS_Surjection
<1>5. \A q \in Deletions(G) : q \in Requests /\ q.item = NoItem
  BY <1>1 DEF Deletions, Requests, MaybeItem
<1>6. ASSUME NEW e \in G PROVE \E q \in Deletions(G) : q.key = e.key
  <2>1. [key |-> e.key, item |-> NoItem] \in Deletions(G)
    BY DEF Deletions, KeysOf
  <2> QED BY <2>1
<1> QED
  BY <1>4, <1>5, <1>6

LEMMA LastPageOK ==
    ASSUME TypeOK, NEW c \in Clients, ClientOK(c), LastPage(c)
    PROVE  TypeOK' /\ ClientOK(c)'
<1>1. PICK seen \in Readings :
         LET P == Ahead(c, seen) IN
         /\ Listed(c, P)
         /\ IF call[c] = "query" \/ got[c] \cup P = {}
            THEN /\ step' = [step EXCEPT ![c] = "answer"]
                 /\ UNCHANGED <<asked, reqs>>
            ELSE LET D == Deletions(got[c] \cup P) IN
                 /\ step' = [step EXCEPT ![c] = "sending"]
                 /\ asked' = [asked EXCEPT ![c] = D]
                 /\ \E s \in SetToSeqs(D) :
                       InOrder(s) /\ reqs' = [reqs EXCEPT ![c] = s]
  BY DEF LastPage
<1> DEFINE P == Page(c, seen, Keys)
           G == got[c] \cup P
<1>2. PagingOK(c) /\ step[c] = "paging"
  BY DEF ClientOK, LastPage
<1>3. range[c] \in SUBSET Keys
  BY KeysAreNumbers DEF TypeOK
<1>4. P = Ahead(c, seen)
  BY <1>3 DEF Ahead, Page
<1>5. /\ P \in SUBSET Entries
      /\ Cardinality(P) \in Nat
      /\ count[c] + Cardinality(P) = Cardinality(KeysOf(got[c] \cup P))
  BY <1>2, PageOK
<1> HIDE DEF P
<1>6. UNCHANGED <<call, range, limit, start, buffer, failed, calm, table, replica>>
  BY DEF LastPage, data
<1>7. /\ got \in [Clients -> SUBSET Entries] /\ count \in [Clients -> Nat]
      /\ step \in [Clients -> Steps] /\ asked \in [Clients -> SUBSET Requests]
      /\ reqs \in [Clients -> Seq(Requests)]
  BY DEF TypeOK
<1>8. /\ got' = [got EXCEPT ![c] = G] /\ count' = [count EXCEPT ![c] = @ + Cardinality(P)]
      /\ Listed(c, P)
  BY <1>1, <1>4 DEF Listed
<1>9. G \in SUBSET Entries /\ got'[c] = G /\ count'[c] = Cardinality(KeysOf(G))
  BY <1>5, <1>7, <1>8
<1>10. got' \in [Clients -> SUBSET Entries] /\ count' \in [Clients -> Nat]
  BY <1>5, <1>7, <1>8, <1>9
<1>11. \A k \in range[c] : Shows(c, k)'
  BY <1>2, <1>3, <1>6, <1>8, ListedShows DEF P
<1>12. /\ call[c] \in {"query", "delete_all_by_pk"}
       /\ call[c] = "delete_all_by_pk" => range[c] = Keys
       /\ ~failed[c] /\ asked[c] = {} /\ reqs[c] = <<>> /\ buffer[c] = <<>>
       /\ \A k \in Keys : calm[c][k] # Touched => table[k] = calm[c][k]
  BY <1>2 DEF PagingOK
<1>13. CASE call[c] = "query" \/ G = {}
  <2>1. step' = [step EXCEPT ![c] = "answer"] /\ UNCHANGED <<asked, reqs>>
    BY <1>1, <1>4, <1>13
  <2>2. step' \in [Clients -> Steps] /\ step'[c] = "answer"
    BY <1>7, <2>1 DEF Steps
  <2>3. TypeOK'
    BY <1>10, <2>1, <2>2 DEF TypeOK, LastPage, data
  <2>4. AnswerOK(c)'
    BY <1>6, <1>9, <1>11 DEF AnswerOK, KeysOf
  <2>5. LandedOK(c)'
    <3> SUFFICES ASSUME call[c] = "delete_all_by_pk", NEW k \in Keys, calm[c][k] # Touched
                 PROVE  table[k] = NoItem
      BY <1>6, <1>12 DEF LandedOK, Wanted
    <3>1. G = {}
      BY <1>13
    <3>2. Shows(c, k)'
      BY <1>11, <1>12
    <3>3. calm[c][k] = NoItem
      BY <1>6, <1>9, <3>1, <3>2 DEF Shows
    <3> QED BY <1>12, <3>3
  <2>6. PagingOK(c)' /\ SendingOK(c)' /\ IdleOK(c)'
    BY <2>2 DEF PagingOK, SendingOK, IdleOK
  <2> QED BY <2>3, <2>4, <2>5, <2>6 DEF ClientOK
<1>14. CASE ~(call[c] = "query" \/ G = {})
  <2> DEFINE D == Deletions(G)
  <2>1. PICK s \in SetToSeqs(D) :
           /\ step' = [step EXCEPT ![c] = "sending"]
           /\ asked' = [asked EXCEPT ![c] = D]
           /\ reqs' = [reqs EXCEPT ![c] = s]
    BY <1>1, <1>4, <1>14
  <2>2. /\ D \in SUBSET Requests /\ IsFiniteSet(D)
        /\ \A q \in D : q.item = NoItem
        /\ \A e \in G : \E q \in D : q.key = e.key
    BY <1>9, DeletionsOf
  <2> HIDE DEF D
  <2>3. s \in Seq(D) /\ Elems(s) = D
    BY <2>1, <2>2, ArrangedElems
  <2>4. s \in Seq(Requests)
    BY <2>2, <2>3, WiderSeq
  <2>5. /\ step' \in [Clients -> Steps] /\ step'[c] = "sending"
        /\ asked' \in [Clients -> SUBSET Requests] /\ asked'[c] = D
        /\ reqs' \in [Clients -> Seq(Requests)] /\ reqs'[c] = s
    BY <1>7, <2>1, <2>2, <2>4 DEF Steps
  <2>6. TypeOK'
    BY <1>10, <2>5 DEF TypeOK, LastPage, data
  <2>7. Pending(c)' = D
    BY <1>6, <1>12, <2>3, <2>5 DEF Pending, Elems
  <2>8. SendingOK(c)'
    <3>1. call'[c] = "delete_all_by_pk"
      BY <1>6, <1>12, <1>14
    <3>2. ASSUME NEW k \in Keys, calm[c][k] # Touched
          PROVE  table[k] = NoItem \/ \E q \in D : q.key = k
      <4>1. Shows(c, k)'
        BY <1>6, <1>11, <1>12, <3>1
      <4>2. calm[c][k] = NoItem \/ \E e \in G : e.key = k
        BY <1>6, <1>9, <3>2, <4>1 DEF Shows
      <4> QED BY <1>12, <2>2, <3>2, <4>2
    <3> QED BY <1>6, <2>2, <2>5, <2>7, <3>1, <3>2 DEF SendingOK, Wanted, Pending
  <2>9. PagingOK(c)' /\ AnswerOK(c)' /\ LandedOK(c)' /\ IdleOK(c)'
    BY <2>5 DEF PagingOK, AnswerOK, LandedOK, IdleOK
  <2> QED BY <2>6, <2>8, <2>9 DEF ClientOK
<1> QED
  BY <1>13, <1>14

LEMMA BeginPagingOK ==
    ASSUME TypeOK, NEW c \in Clients, ClientOK(c), Query(c) \/ DeleteAllByPk(c)
    PROVE  ClientOK(c)'
<1>1. PICK method \in {"query", "delete_all_by_pk"}, R \in Ranges, n \in Limits :
         /\ BeginPaging(c, method, R, n)
         /\ method = "delete_all_by_pk" => R = Keys /\ n = 0
  BY KeysAreNumbers, CallsAssumption DEF Query, DeleteAllByPk
<1>2. IdleOK(c) /\ step[c] = "idle"
  BY <1>1 DEF ClientOK, BeginPaging, Begin
<1>3. /\ call'[c] = method /\ step'[c] = "paging" /\ range'[c] = R /\ limit'[c] = n
      /\ calm'[c] = [k \in Keys |-> IF table[k] = replica[k] THEN table[k] ELSE Touched]
      /\ UNCHANGED <<table, replica, start, got, count, asked, reqs, buffer, failed>>
  BY <1>1 DEF TypeOK, BeginPaging, Begin, data, batch
<1>4. /\ start'[c] = 0 /\ got'[c] = {} /\ count'[c] = 0
      /\ asked'[c] = {} /\ reqs'[c] = <<>> /\ buffer'[c] = <<>> /\ ~failed'[c]
  BY <1>2, <1>3 DEF IdleOK
<1>5. count'[c] = Cardinality(KeysOf(got'[c]))
  <2>1. KeysOf(got'[c]) = {}
    BY <1>4 DEF KeysOf
  <2> QED BY <1>4, <2>1, FS_EmptySet
<1>6. \A k \in R : ~(k <= 0)
  BY KeysAreNumbers
<1>7. \A k \in Keys : calm'[c][k] # Touched =>
         table'[k] = calm'[c][k] /\ replica'[k] = calm'[c][k]
  BY <1>3
<1>8. PagingOK(c)'
  BY <1>1, <1>3, <1>4, <1>5, <1>6, <1>7 DEF PagingOK, KeysOf
<1>9. IdleOK(c)' /\ AnswerOK(c)' /\ SendingOK(c)' /\ LandedOK(c)'
  BY <1>3 DEF IdleOK, AnswerOK, SendingOK, LandedOK
<1> QED
  BY <1>8, <1>9 DEF ClientOK

LEMMA BatchWriteOK ==
    ASSUME TypeOK, NEW c \in Clients, ClientOK(c), BatchWrite(c)
    PROVE  ClientOK(c)'
<1>1. PICK b \in Batches :
         /\ Begin(c, "batch_write", IF b = <<>> THEN "answer" ELSE "sending")
         /\ reqs' = [reqs EXCEPT ![c] = b]
         /\ asked' = [asked EXCEPT ![c] = {b[i] : i \in 1..Len(b)}]
  BY DEF BatchWrite
<1>2. IdleOK(c) /\ step[c] = "idle"
  BY <1>1 DEF ClientOK, Begin
<1>3. /\ call'[c] = "batch_write"
      /\ step'[c] = IF b = <<>> THEN "answer" ELSE "sending"
      /\ reqs'[c] = b /\ asked'[c] = Elems(b)
      /\ buffer'[c] = <<>> /\ ~failed'[c]
  BY <1>1, <1>2 DEF TypeOK, BatchWrite, Begin, IdleOK, Elems
<1>4. Pending(c)' = asked'[c]
  BY <1>3 DEF Pending, Elems
<1>5. \A k \in Keys : Wanted(c, k)' # {} => \E q \in asked'[c] : q.key = k
  BY <1>3 DEF Wanted
<1>6. b = <<>> => asked'[c] = {}
  BY <1>3 DEF Elems
<1>7. SendingOK(c)'
  BY <1>3, <1>4, <1>5 DEF SendingOK, Pending, Wanted
<1>8. LandedOK(c)'
  BY <1>3, <1>5, <1>6 DEF LandedOK, Wanted
<1>9. IdleOK(c)' /\ PagingOK(c)' /\ AnswerOK(c)'
  BY <1>3 DEF IdleOK, PagingOK, AnswerOK
<1> QED
  BY <1>7, <1>8, <1>9 DEF ClientOK

LEMMA FlushOK ==
    ASSUME TypeOK, NEW c \in Clients, ClientOK(c), Flush(c)
    PROVE  ClientOK(c)'
<1>1. SendingOK(c) /\ step[c] = "sending"
  BY DEF ClientOK, Flush
<1>2. /\ Pending(c)' \subseteq Pending(c)
      /\ \A k \in Keys :
            \/ \E q \in Pending(c) : q.key = k /\ table'[k] = q.item
            \/ /\ table'[k] = table[k]
               /\ \A q \in Pending(c) : q.key = k => q \in Pending(c)'
      /\ step'[c] \in {"sending", "answer"}
      /\ step'[c] = "answer" => Pending(c)' = {}
  BY FlushEffect
<1>3. UNCHANGED <<call, asked, failed>> /\ calm'[c] = calm[c]
  BY DEF TypeOK, Flush, Change, Disturb
<1>4. \A k \in Keys : Wanted(c, k)' = Wanted(c, k)
  BY <1>3 DEF Wanted
<1>5. /\ call[c] \in {"batch_write", "delete_all_by_pk"}
      /\ Pending(c) \subseteq asked[c]
      /\ call[c] = "delete_all_by_pk" => \A q \in asked[c] : q.item = NoItem
  BY <1>1 DEF SendingOK
<1>6. ASSUME ~failed[c], NEW k \in Keys, calm[c][k] # Touched, Wanted(c, k) # {}
      PROVE  table'[k] \in Wanted(c, k) \/ \E q \in Pending(c)' : q.key = k
  <2>1. table[k] \in Wanted(c, k) \/ \E q \in Pending(c) : q.key = k
    BY <1>1, <1>6 DEF SendingOK
  <2>2. \A q \in Pending(c) : q.key = k => q.item \in Wanted(c, k)
    BY <1>5 DEF Wanted
  <2> QED BY <1>2, <2>1, <2>2
<1>7. SendingOK(c)'
  BY <1>2, <1>3, <1>4, <1>5, <1>6 DEF SendingOK
<1>8. LandedOK(c)'
  BY <1>2, <1>3, <1>4, <1>6 DEF LandedOK
<1>9. IdleOK(c)' /\ PagingOK(c)' /\ AnswerOK(c)'
  BY <1>2, <1>3, <1>5 DEF IdleOK, PagingOK, AnswerOK
<1> QED
  BY <1>7, <1>8, <1>9 DEF ClientOK

LEMMA FlushFailsOK ==
    ASSUME TypeOK, NEW c \in Clients, ClientOK(c), FlushFails(c)
    PROVE  ClientOK(c)'
<1>1. SendingOK(c) /\ step[c] = "sending"
  BY DEF ClientOK, FlushFails
<1>2. reqs[c] \in Seq(Requests) /\ buffer[c] \in Seq(Requests)
  BY DEF TypeOK
<1>3. Elems(Behind(c)) \subseteq Pending(c)
  BY <1>2, HeldElems
<1>4. /\ failed'[c] /\ call' = call /\ asked' = asked
      /\ reqs'[c] = <<>> /\ buffer'[c] \in {<<>>, Behind(c)}
      /\ step'[c] \in {"sending", "answer"}
  <2> DEFINE b == IF reqs[c] = <<>> THEN <<>> ELSE Behind(c)
  <2>1. /\ failed' = [failed EXCEPT ![c] = TRUE] /\ UNCHANGED <<call, asked>>
        /\ buffer' = [buffer EXCEPT ![c] = b]
        /\ reqs' = [reqs EXCEPT ![c] = <<>>]
        /\ step' = [step EXCEPT ![c] = IF b = <<>> /\ <<>> = <<>> THEN "answer" ELSE @]
    BY DEF FlushFails, Remains
  <2>2. b \in {<<>>, Behind(c)}
    OBVIOUS
  <2> HIDE DEF b
  <2>3. step'[c] \in {"sending", "answer"}
    BY <1>1, <2>1 DEF TypeOK
  <2>4. failed'[c] /\ reqs'[c] = <<>> /\ buffer'[c] = b
    BY <2>1 DEF TypeOK
  <2> QED BY <2>1, <2>2, <2>3, <2>4
<1>5. Pending(c)' \subseteq Pending(c)
  <2>1. Elems(<<>>) = {}
    BY DEF Elems
  <2>2. Pending(c)' = Elems(reqs'[c]) \cup Elems(buffer'[c])
    BY DEF Pending, Elems
  <2> QED BY <1>3, <1>4, <2>1, <2>2
<1>6. SendingOK(c)'
  <2>1. /\ call'[c] \in {"batch_write", "delete_all_by_pk"}
        /\ Pending(c)' \subseteq asked'[c]
        /\ call'[c] = "delete_all_by_pk" => \A q \in asked'[c] : q.item = NoItem
    BY <1>1, <1>4, <1>5 DEF SendingOK
  <2> QED BY <2>1, <1>4 DEF SendingOK, Pending, Elems
<1>7. IdleOK(c)' /\ PagingOK(c)' /\ AnswerOK(c)' /\ LandedOK(c)'
  BY <1>1, <1>4 DEF IdleOK, PagingOK, AnswerOK, LandedOK, SendingOK
<1> QED
  BY <1>6, <1>7 DEF ClientOK

LEMMA ForgetOK ==
    ASSUME TypeOK, NEW c \in Clients, Forget(c)
    PROVE  ClientOK(c)'
<1>1. /\ step'[c] = "idle" /\ call'[c] = "none"
      /\ start'[c] = 0 /\ got'[c] = {} /\ count'[c] = 0
      /\ asked'[c] = {} /\ reqs'[c] = <<>> /\ buffer'[c] = <<>> /\ ~failed'[c]
  BY DEF TypeOK, Forget
<1> QED
  BY <1>1 DEF ClientOK, IdleOK, PagingOK, AnswerOK, SendingOK, LandedOK

-----------------------------------------------------------------------------
(* The other clients.                                                      *)

Locals(d) ==
    <<call[d], step[d], range[d], limit[d], start[d], got[d], count[d],
      asked[d], reqs[d], buffer[d], failed[d]>>

(* What d does not know to be Touched stays as it is.                      *)
Undisturbed(d) ==
    \A k \in Keys :
        \/ calm'[d][k] = Touched
        \/ /\ calm'[d][k] = calm[d][k] /\ table'[k] = table[k]
           /\ replica'[k] \in {replica[k], table[k]}

LEMMA OthersOK ==
    ASSUME TypeOK, NEW d \in Clients, ClientOK(d), Locals(d)' = Locals(d), Undisturbed(d)
    PROVE  ClientOK(d)'
<1>1. /\ call'[d] = call[d] /\ step'[d] = step[d] /\ range'[d] = range[d]
      /\ limit'[d] = limit[d] /\ start'[d] = start[d] /\ got'[d] = got[d]
      /\ count'[d] = count[d] /\ asked'[d] = asked[d] /\ reqs'[d] = reqs[d]
      /\ buffer'[d] = buffer[d] /\ failed'[d] = failed[d]
  BY DEF Locals
<1>2. /\ Pending(d)' = Pending(d) /\ \A k \in Keys : Wanted(d, k)' = Wanted(d, k)
  BY <1>1 DEF Pending, Elems, Wanted
<1>3. \A k \in Keys : calm'[d][k] # Touched =>
         /\ calm'[d][k] = calm[d][k] /\ table'[k] = table[k]
         /\ replica'[k] \in {replica[k], table[k]}
  BY DEF Undisturbed
<1>4. range[d] \in SUBSET Keys
  BY KeysAreNumbers DEF TypeOK
<1>5. \A k \in Keys : Shows(d, k) => Shows(d, k)'
  BY <1>1, <1>3 DEF Shows
<1>6. IdleOK(d)'
  BY <1>1 DEF ClientOK, IdleOK
<1>7. PagingOK(d)'
  <2> SUFFICES ASSUME step[d] = "paging"
               PROVE  PagingOK(d)'
    BY <1>1 DEF PagingOK
  <2>1. PagingOK(d)
    BY DEF ClientOK
  <2>2. \A k \in range[d] : k <= start[d] => Shows(d, k)'
    BY <2>1, <1>4, <1>5 DEF PagingOK
  <2>3. \A k \in Keys : calm'[d][k] # Touched =>
           table'[k] = calm'[d][k] /\ replica'[k] = calm'[d][k]
    BY <2>1, <1>3 DEF PagingOK
  <2> QED BY <2>1, <2>2, <2>3, <1>1 DEF PagingOK, KeysOf
<1>8. AnswerOK(d)'
  <2>1. AnswerOK(d)
    BY DEF ClientOK
  <2> SUFFICES ASSUME call[d] = "query", step[d] = "answer"
               PROVE  AnswerOK(d)'
    BY <1>1 DEF AnswerOK
  <2>2. count'[d] = Cardinality(KeysOf(got'[d]))
    BY <2>1, <1>1 DEF AnswerOK
  <2>3. \A k \in range[d] :
           ((limit[d] # 0 /\ count[d] >= limit[d]) => k <= start[d]) => Shows(d, k)'
    BY <2>1, <1>4, <1>5 DEF AnswerOK
  <2> QED BY <2>2, <2>3, <1>1 DEF AnswerOK, KeysOf
<1>9. SendingOK(d)'
  <2>1. SendingOK(d)
    BY DEF ClientOK
  <2> QED BY <2>1, <1>1, <1>2, <1>3 DEF SendingOK
<1>10. LandedOK(d)'
  <2>1. LandedOK(d)
    BY DEF ClientOK
  <2> QED BY <2>1, <1>1, <1>2, <1>3 DEF LandedOK
<1> QED
  BY <1>6, <1>7, <1>8, <1>9, <1>10 DEF ClientOK

LEMMA ChangeDisturbs ==
    ASSUME TypeOK, NEW D, NEW T, Change(D, T), replica' = replica, NEW d \in Clients \ D
    PROVE  Undisturbed(d)
  BY DEF Undisturbed, Change, Disturb

LEMMA ForgetDisturbs ==
    ASSUME TypeOK, NEW c \in Clients, Forget(c), table' = table, replica' = replica,
           NEW d \in Clients \ {c}
    PROVE  Undisturbed(d) /\ Locals(d)' = Locals(d)
  BY DEF TypeOK, Undisturbed, Forget, Locals

-----------------------------------------------------------------------------
(* Claims.                                                                 *)

LEMMA ChangeClaims ==
    ASSUME ClaimsOK, NEW D, NEW T, Change(D, T)
    PROVE  ClaimsOK'
  BY DEF ClaimsOK, SemaphoreExclusive, Change

LEMMA FewerClaims ==
    ASSUME ClaimsOK, table' = table, claims' \subseteq claims
    PROVE  ClaimsOK'
  BY DEF ClaimsOK, SemaphoreExclusive

LEMMA CondClaims ==
    ASSUME TypeOK, ClaimsOK, NEW c \in Clients, ConditionalPut(c) \/ ConditionalPutLost(c)
    PROVE  ClaimsOK'
<1>1. PICK k \in Keys, i \in Items :
         /\ table[k] = NoItem /\ table' = [table EXCEPT ![k] = i]
         /\ claims' \subseteq claims \cup {<<c, k>>}
  BY CondEffect
<1>2. \A x \in claims : x[2] \in Keys /\ x[2] # k
  BY <1>1 DEF ClaimsOK, TypeOK
<1>3. i # NoItem /\ table \in [Keys -> MaybeItem]
  BY KeysAssumption DEF TypeOK
<1>4. \A x \in claims' : x \in claims \/ x = <<c, k>>
  BY <1>1
<1>5. \A x \in claims' : table'[x[2]] # NoItem
  BY <1>1, <1>2, <1>3, <1>4 DEF ClaimsOK
<1>6. \A x, y \in claims' : x[2] = y[2] => x = y
  BY <1>2, <1>4 DEF ClaimsOK, SemaphoreExclusive
<1> QED
  BY <1>5, <1>6 DEF ClaimsOK, SemaphoreExclusive

-----------------------------------------------------------------------------
(* The invariant.                                                          *)

LEMMA TableInvInit == Init => TableInv
<1> SUFFICES ASSUME Init PROVE TableInv
  OBVIOUS
<1>1. 0 \in Limits
  BY CallsAssumption
<1>2. table \in [Keys -> MaybeItem] /\ replica = table
  BY KeysAssumption DEF Init
<1>3. TypeOK
  BY <1>1, <1>2, BoundsAssumption DEF Init, TypeOK, Calls, Steps
<1>4. ClaimsOK
  BY DEF Init, ClaimsOK, SemaphoreExclusive
<1>5. \A c \in Clients : ClientOK(c)
  BY DEF Init, ClientOK, IdleOK, PagingOK, AnswerOK, SendingOK, LandedOK
<1> QED
  BY <1>3, <1>4, <1>5 DEF TableInv

(* A request of a client that is in no call (D is that client), or a       *)
(* change the service makes by itself (D is empty).                        *)
LEMMA SingleOK ==
    ASSUME TypeOK, \A d \in Clients : ClientOK(d), NEW D, NEW T,
           Change(D, T) \/ (\E K \in SUBSET Keys : /\ calm' = Disturb(D, K)
                                                   /\ \A k \in Keys \ K : table'[k] = table[k]),
           \A d \in D : step[d] = "idle",
           replica' = replica, UNCHANGED <<at, query, batch>>
    PROVE  \A d \in Clients : ClientOK(d)'
<1> SUFFICES ASSUME NEW d \in Clients PROVE ClientOK(d)'
  OBVIOUS
<1>1. UNCHANGED <<call, step, range, limit, start, got, count, asked, reqs, buffer, failed>>
  BY DEF at, query, batch
<1>2. ClientOK(d)
  OBVIOUS
<1>3. CASE d \in D
  <2>1. step[d] = "idle"
    BY <1>3
  <2> QED BY <1>1, <1>2, <2>1
          DEF ClientOK, IdleOK, PagingOK, AnswerOK, SendingOK, LandedOK
<1>4. CASE d \notin D
  <2>1. Undisturbed(d)
    BY <1>4 DEF TypeOK, Undisturbed, Change, Disturb
  <2>2. Locals(d)' = Locals(d)
    BY <1>1 DEF Locals
  <2> QED BY <1>2, <2>1, <2>2, OthersOK
<1> QED
  BY <1>3, <1>4

(* A step of a call of c: the others go on as they were.                   *)
LEMMA CallOK ==
    ASSUME TypeOK, \A d \in Clients : ClientOK(d), NEW c \in Clients, ClientOK(c)',
           \A d \in Clients \ {c} : Undisturbed(d) /\ Locals(d)' = Locals(d)
    PROVE  \A d \in Clients : ClientOK(d)'
<1> SUFFICES ASSUME NEW d \in Clients PROVE ClientOK(d)'
  OBVIOUS
<1>1. CASE d = c
  BY <1>1
<1>2. CASE d # c
  BY <1>2, OthersOK
<1> QED
  BY <1>1, <1>2

LEMMA WriteInv ==
    ASSUME TableInv, NEW c \in Clients, NEW k \in Keys, NEW i \in MaybeItem, Write(c, k, i)
    PROVE  TableInv'
<1>1. TypeOK'
  BY WriteTypes DEF TableInv
<1>2. Change({c}, [table EXCEPT ![k] = i]) /\ step[c] = "idle"
  BY DEF Write
<1>3. ClaimsOK'
  BY <1>2, ChangeClaims DEF TableInv
<1>4. \A d \in Clients : ClientOK(d)'
  <2>1. replica' = replica /\ UNCHANGED <<at, query, batch>>
    BY DEF Write
  <2> QED BY <1>2, <2>1, SingleOK DEF TableInv
<1> QED
  BY <1>1, <1>3, <1>4 DEF TableInv

LEMMA CondInv ==
    ASSUME TableInv, NEW c \in Clients, ConditionalPut(c) \/ ConditionalPutLost(c)
    PROVE  TableInv'
<1>1. TypeOK' /\ ClaimsOK'
  BY CondTypes, CondClaims DEF TableInv
<1>2. PICK k \in Keys, i \in Items :
         table' = [table EXCEPT ![k] = i] /\ calm' = Disturb({c}, {k})
  BY CondEffect DEF TableInv
<1>3. step[c] = "idle" /\ replica' = replica /\ UNCHANGED <<at, query, batch>>
  BY DEF ConditionalPut, ConditionalPutLost
<1>4. \A j \in Keys \ {k} : table'[j] = table[j]
  BY <1>2 DEF TableInv, TypeOK
<1>5. \A d \in Clients : ClientOK(d)'
  <2>1. {k} \in SUBSET Keys /\ \A d \in {c} : step[d] = "idle"
    BY <1>3
  <2> QED BY <1>2, <1>3, <1>4, <2>1, SingleOK DEF TableInv
<1> QED
  BY <1>1, <1>5 DEF TableInv

LEMMA ServiceInv ==
    ASSUME TableInv, NEW k \in Keys, Expire(k) \/ Replicate(k)
    PROVE  TableInv'
<1>1. CASE Expire(k)
  <2>1. Change({}, [table EXCEPT ![k] = NoItem]) /\ replica' = replica
        /\ UNCHANGED <<at, query, batch>>
    BY <1>1 DEF Expire
  <2>2. ClaimsOK'
    BY <2>1, ChangeClaims DEF TableInv
  <2>3. \A d \in Clients : ClientOK(d)'
    BY <2>1, SingleOK DEF TableInv
  <2>4. /\ table' \in [Keys -> MaybeItem]
        /\ calm' \in [Clients -> [Keys -> MaybeItem \cup {Touched}]]
        /\ claims' \subseteq Clients \X Keys
    BY <2>1 DEF TableInv, TypeOK, Change, Disturb, MaybeItem
  <2>5. TypeOK'
    BY <1>1, <2>1, <2>4 DEF TableInv, TypeOK, Expire, at, query, batch
  <2> QED BY <2>2, <2>3, <2>5 DEF TableInv
<1>2. CASE Replicate(k)
  <2>1. /\ replica' = [replica EXCEPT ![k] = table[k]]
        /\ UNCHANGED <<table, claims, at, query, batch, calm, begun, writes, faults>>
    BY <1>2 DEF Replicate
  <2>2. TypeOK'
    BY <2>1 DEF TableInv, TypeOK, at, query, batch
  <2>3. ClaimsOK'
    BY <2>1, FewerClaims DEF TableInv
  <2>4. ASSUME NEW d \in Clients PROVE ClientOK(d)'
    <3>1. Undisturbed(d)
      BY <2>1 DEF TableInv, TypeOK, Undisturbed
    <3>2. Locals(d)' = Locals(d)
      BY <2>1 DEF at, query, batch, Locals
    <3> QED BY <3>1, <3>2, OthersOK DEF TableInv
  <2> QED BY <2>2, <2>3, <2>4 DEF TableInv
<1> QED
  BY <1>1, <1>2

LEMMA ForgetInv ==
    ASSUME TableInv, NEW c \in Clients, Return(c) \/ Crash(c)
    PROVE  TableInv'
<1>1. Forget(c) /\ table' = table /\ replica' = replica /\ claims' \subseteq claims
  BY DEF Return, Crash, data
<1>2. TypeOK' /\ ClaimsOK'
  BY <1>1, ForgetTypes, FewerClaims DEF TableInv
<1>3. ClientOK(c)'
  BY <1>1, ForgetOK DEF TableInv
<1>4. \A d \in Clients \ {c} : Undisturbed(d) /\ Locals(d)' = Locals(d)
  BY <1>1, ForgetDisturbs DEF TableInv
<1>5. \A d \in Clients : ClientOK(d)'
  BY <1>3, <1>4, CallOK DEF TableInv
<1> QED
  BY <1>2, <1>5 DEF TableInv

LEMMA CallInv ==
    ASSUME TableInv, NEW c \in Clients,
           \/ Query(c) \/ DeleteAllByPk(c) \/ BatchWrite(c)
           \/ NextPage(c) \/ LastPage(c) \/ FlushFails(c)
    PROVE  TableInv'
<1> USE DEF TableInv
<1>1. TypeOK'
  BY BeginTypes, NextPageOK, LastPageOK, FlushFailsTypes
<1>2. ClientOK(c)'
  BY BeginPagingOK, BatchWriteOK, NextPageOK, LastPageOK, FlushFailsOK
<1>3. UNCHANGED <<table, replica, claims>>
  BY DEF Query, DeleteAllByPk, BatchWrite, BeginPaging, Begin, NextPage, LastPage,
         FlushFails, data
<1>4. ClaimsOK'
  BY <1>3, FewerClaims
<1>5. ASSUME NEW d \in Clients \ {c}
      PROVE  Undisturbed(d) /\ Locals(d)' = Locals(d)
  <2>1. CASE Query(c) \/ DeleteAllByPk(c)
    <3>1. calm'[d] = calm[d]
      BY <2>1 DEF TypeOK, Query, DeleteAllByPk, BeginPaging, Begin
    <3>2. Locals(d)' = Locals(d)
      BY <2>1 DEF TypeOK, Query, DeleteAllByPk, BeginPaging, Begin, batch, Locals
    <3> QED BY <1>3, <3>1, <3>2 DEF Undisturbed
  <2>2. CASE BatchWrite(c)
    <3>1. calm'[d] = calm[d]
      BY <2>2 DEF TypeOK, BatchWrite, Begin
    <3>2. Locals(d)' = Locals(d)
      BY <2>2 DEF TypeOK, BatchWrite, Begin, query, Locals
    <3> QED BY <1>3, <3>1, <3>2 DEF Undisturbed
  <2>3. CASE NextPage(c)
    <3>1. calm'[d] = calm[d]
      BY <2>3 DEF NextPage
    <3>2. Locals(d)' = Locals(d)
      BY <2>3 DEF TypeOK, NextPage, Listed, batch, Locals
    <3> QED BY <1>3, <3>1, <3>2 DEF Undisturbed
  <2>4. CASE LastPage(c)
    <3>1. calm'[d] = calm[d]
      BY <2>4 DEF LastPage
    <3>2. Locals(d)' = Locals(d)
      BY <2>4 DEF TypeOK, LastPage, Listed, Locals
    <3> QED BY <1>3, <3>1, <3>2 DEF Undisturbed
  <2>5. CASE FlushFails(c)
    <3>1. calm'[d] = calm[d]
      BY <2>5 DEF FlushFails
    <3>2. Locals(d)' = Locals(d)
      BY <2>5 DEF TypeOK, FlushFails, Remains, query, Locals
    <3> QED BY <1>3, <3>1, <3>2 DEF Undisturbed
  <2> QED BY <2>1, <2>2, <2>3, <2>4, <2>5
<1>6. \A d \in Clients : ClientOK(d)'
  BY <1>2, <1>5, CallOK
<1> QED
  BY <1>1, <1>4, <1>6

LEMMA FlushInv ==
    ASSUME TableInv, NEW c \in Clients, Flush(c)
    PROVE  TableInv'
<1> USE DEF TableInv
<1>1. TypeOK' /\ ClientOK(c)'
  BY FlushTypes, FlushOK
<1>2. PICK T : Change({c}, T)
  BY DEF Flush
<1>3. ClaimsOK'
  BY <1>2, ChangeClaims
<1>4. ASSUME NEW d \in Clients \ {c}
      PROVE  Undisturbed(d) /\ Locals(d)' = Locals(d)
  <2>1. replica' = replica
    BY DEF Flush
  <2>2. Undisturbed(d)
    BY <1>2, <2>1, ChangeDisturbs
  <2>3. Locals(d)' = Locals(d)
    BY DEF TypeOK, Flush, Remains, query, Locals
  <2> QED BY <2>2, <2>3
<1>5. \A d \in Clients : ClientOK(d)'
  BY <1>1, <1>4, CallOK
<1> QED
  BY <1>1, <1>3, <1>5

LEMMA TableInvNext == TableInv /\ [Next]_vars => TableInv'
<1> SUFFICES ASSUME TableInv, [Next]_vars PROVE TableInv'
  OBVIOUS
<1>1. ASSUME NEW c \in Clients, PutItem(c) PROVE TableInv'
  <2>1. PICK k \in Keys, i \in Items : Write(c, k, i)
    BY <1>1 DEF PutItem
  <2>2. i \in MaybeItem
    BY DEF MaybeItem
  <2> QED BY <2>1, <2>2, WriteInv
<1>2. ASSUME NEW c \in Clients, DeleteItem(c) PROVE TableInv'
  <2>1. PICK k \in Keys : Write(c, k, NoItem)
    BY <1>2 DEF DeleteItem
  <2>2. NoItem \in MaybeItem
    BY DEF MaybeItem
  <2> QED BY <2>1, <2>2, WriteInv
<1>3. ASSUME NEW c \in Clients, UpdateItem(c) PROVE TableInv'
  <2>1. PICK k \in Keys, i \in MaybeItem : Write(c, k, i)
    BY <1>3, UpdateWrites DEF TableInv
  <2> QED BY <2>1, WriteInv
<1>4. ASSUME NEW c \in Clients, ConditionalPut(c) \/ ConditionalPutLost(c) PROVE TableInv'
  BY <1>4, CondInv
<1>5. ASSUME NEW c \in Clients, Crash(c) PROVE TableInv'
  BY <1>5, ForgetInv
<1>6. ASSUME NEW c \in Callers, Query(c) \/ DeleteAllByPk(c) \/ BatchWrite(c) \/ Proceed(c)
      PROVE  TableInv'
  <2>1. c \in Clients
    BY CallsAssumption
  <2> QED BY <1>6, <2>1, CallInv, FlushInv, ForgetInv DEF Proceed
<1>7. ASSUME NEW k \in Keys, Expire(k) \/ Replicate(k) PROVE TableInv'
  BY <1>7, ServiceInv
<1>8. CASE UNCHANGED vars
  <2>1. UNCHANGED <<table, replica, claims, calm, at, query, batch, begun, writes, faults>>
    BY <1>8 DEF vars, data
  <2>2. TypeOK'
    BY <2>1 DEF TableInv, TypeOK, at, query, batch
  <2>3. ClaimsOK'
    BY <2>1, FewerClaims DEF TableInv
  <2>4. ASSUME NEW d \in Clients PROVE ClientOK(d)'
    <3>1. Undisturbed(d) /\ Locals(d)' = Locals(d)
      BY <2>1 DEF at, query, batch, Locals, Undisturbed
    <3> QED BY <3>1, OthersOK DEF TableInv
  <2> QED BY <2>2, <2>3, <2>4 DEF TableInv
<1> QED
  BY <1>1, <1>2, <1>3, <1>4, <1>5, <1>6, <1>7, <1>8 DEF Next

LEMMA TableInvHolds == Spec => []TableInv
  BY TableInvInit, TableInvNext, PTL DEF Spec

-----------------------------------------------------------------------------

(* The types of the table and of the calls in progress hold for ever.      *)
THEOREM TableTypes == Spec => []TypeOK
<1>1. TableInv => TypeOK
  BY DEF TableInv
<1> QED BY <1>1, TableInvHolds, PTL

(* conditional_put_item as a semaphore: nobody is told True for a key      *)
(* while another's claim on it stands, whatever is lost, expires, crashes  *)
(* or lags.  A claim ends with its item, whoever deletes it.               *)
THEOREM SemaphoreExcludes == Spec => []SemaphoreExclusive
<1>1. TableInv => SemaphoreExclusive
  BY DEF TableInv, ClaimsOK
<1> QED BY <1>1, TableInvHolds, PTL

(* query lists once, and as it was, every item nobody touched while it     *)
(* paged, up to where its limit let it go, and lists no key that was free. *)
THEOREM QueryIsStable == Spec => []QuerySeesStable
<1>1. ASSUME TableInv PROVE QuerySeesStable
  <2> SUFFICES ASSUME NEW c \in Clients, call[c] = "query", step[c] = "answer"
               PROVE  /\ count[c] = Cardinality(KeysOf(got[c]))
                      /\ \A k \in {j \in range[c] :
                              (limit[c] # 0 /\ count[c] >= limit[c]) => j <= start[c]} :
                            calm[c][k] # Touched =>
                              {e.item : e \in {f \in got[c] : f.key = k}} = {calm[c][k]} \ {NoItem}
    BY DEF QuerySeesStable
  <2>1. AnswerOK(c)
    BY <1>1 DEF TableInv, ClientOK
  <2>2. \A e \in got[c] : e.item # NoItem
    BY <1>1, KeysAssumption DEF TableInv, TypeOK, Entries
  <2>3. ASSUME NEW k \in range[c],
               (limit[c] # 0 /\ count[c] >= limit[c]) => k <= start[c],
               calm[c][k] # Touched
        PROVE  {e.item : e \in {f \in got[c] : f.key = k}} = {calm[c][k]} \ {NoItem}
    <3>1. Shows(c, k)
      BY <2>1, <2>3 DEF AnswerOK
    <3>2. /\ \A e \in got[c] : e.key = k => e.item = calm[c][k]
          /\ calm[c][k] # NoItem => \E e \in got[c] : e.key = k
      BY <2>3, <3>1 DEF Shows
    <3>3. CASE calm[c][k] = NoItem
      BY <2>2, <3>2, <3>3
    <3>4. CASE calm[c][k] # NoItem
      BY <3>2, <3>4
    <3> QED BY <3>3, <3>4
  <2> QED BY <2>1, <2>3 DEF AnswerOK
<1> QED BY <1>1, TableInvHolds, PTL

(* batch_write has written each of its keys, and delete_all_by_pk has left *)
(* none of the items that were there, unless another client wrote there    *)
(* since or a replica lagged when the call began.                          *)
THEOREM BatchIsKept == Spec => []BatchLands
<1>1. TableInv => BatchLands
  BY DEF TableInv, ClientOK, LandedOK, BatchLands
<1> QED BY <1>1, TableInvHolds, PTL

-----------------------------------------------------------------------------
(* Why a call ends: what is left of it shrinks with every answer, whatever *)
(* the other clients do between its requests.                              *)

StagesLeft(c) ==
    CASE step[c] = "paging" -> 3
      [] step[c] = "sending" -> 2
      [] step[c] = "answer" -> 1
      [] OTHER -> 0

KeysAhead(c) == {k \in range[c] : start[c] < k}

RequestsLeft(c) == Len(reqs[c]) + Len(buffer[c])

Bounded(c) == IsFiniteSet(KeysAhead(c)) /\ RequestsLeft(c) \in Nat

Shrinks(c) ==
    \/ StagesLeft(c)' < StagesLeft(c)
    \/ /\ step[c] = "paging" /\ step'[c] = "paging"
       /\ Cardinality(KeysAhead(c)') < Cardinality(KeysAhead(c))
    \/ /\ step[c] = "sending" /\ step'[c] = "sending"
       /\ RequestsLeft(c)' < RequestsLeft(c)

Rests(c) ==
    /\ step'[c] = step[c]
    /\ KeysAhead(c)' = KeysAhead(c) /\ RequestsLeft(c)' = RequestsLeft(c)

LEMMA LengthOf ==
    ASSUME NEW S, NEW s \in Seq(S)
    PROVE  Len(s) \in Nat /\ (s # <<>> => Len(s) > 0)
  OBVIOUS

LEMMA CallBounded ==
    ASSUME TypeOK, NEW c \in Clients
    PROVE  Bounded(c)
<1>1. range[c] \in SUBSET Keys
  BY KeysAreNumbers DEF TypeOK
<1>2. KeysAhead(c) \in SUBSET Keys
  BY <1>1 DEF KeysAhead
<1>3. IsFiniteSet(KeysAhead(c))
  BY <1>2, KeysAssumption, FS_Subset
<1>4. reqs[c] \in Seq(Requests) /\ buffer[c] \in Seq(Requests)
  BY DEF TypeOK
<1>5. Len(reqs[c]) \in Nat /\ Len(buffer[c]) \in Nat
  BY <1>4, LengthOf
<1>6. RequestsLeft(c) \in Nat
  <2>1. ASSUME NEW m \in Nat, NEW n \in Nat
        PROVE  m + n \in Nat
    OBVIOUS
  <2> QED BY <1>5, <2>1, Zenon DEF RequestsLeft
<1> QED BY <1>3, <1>6 DEF Bounded

(* A page takes its last key from those ahead.                             *)
LEMMA PageShrinks ==
    ASSUME TypeOK, NEW c \in Clients, NextPage(c)
    PROVE  Shrinks(c)
<1>1. PICK seen \in Readings, last \in range[c] :
         /\ last \in KeysOf({e \in Ahead(c, seen) : e.key <= last})
         /\ start' = [start EXCEPT ![c] = last]
  BY DEF NextPage
<1>2. range' = range /\ step[c] = "paging" /\ step'[c] \in {"paging", "answer"}
  BY DEF NextPage, TypeOK
<1>3. start'[c] = last
  BY <1>1 DEF TypeOK
<1>4. last \in KeysAhead(c)
  BY <1>1 DEF KeysOf, Ahead, KeysAhead
<1>5. /\ start[c] \in Nat /\ last \in Nat /\ start[c] < last
      /\ \A k \in range[c] : k \in Nat
  BY <1>4, KeysAreNumbers DEF KeysAhead, TypeOK
<1>6. KeysAhead(c)' \in SUBSET (KeysAhead(c) \ {last})
  BY <1>2, <1>3, <1>5 DEF KeysAhead
<1>7. IsFiniteSet(KeysAhead(c))
  BY CallBounded DEF Bounded
<1>8. /\ IsFiniteSet(KeysAhead(c) \ {last})
      /\ Cardinality(KeysAhead(c) \ {last}) = Cardinality(KeysAhead(c)) - 1
  BY <1>4, <1>7, FS_RemoveElement
<1>9. /\ IsFiniteSet(KeysAhead(c)')
      /\ Cardinality(KeysAhead(c)') <= Cardinality(KeysAhead(c) \ {last})
  BY <1>6, <1>8, FS_Subset
<1>10. Cardinality(KeysAhead(c)') \in Nat /\ Cardinality(KeysAhead(c)) \in Nat
  BY <1>7, <1>9, FS_CardinalityType
<1>11. Cardinality(KeysAhead(c)') < Cardinality(KeysAhead(c))
  BY <1>8, <1>9, <1>10
<1> QED BY <1>2, <1>11 DEF Shrinks, StagesLeft

(* What a flush takes is not nothing, and what it leaves is the rest.      *)
LEMMA HeldLengths ==
    ASSUME TypeOK, NEW c \in Clients
    PROVE  LET rest == SubSeq(reqs[c], Handed(c) + 1, Len(reqs[c])) IN
           /\ Len(Sent(c)) \in Nat /\ Len(Behind(c)) \in Nat /\ Len(rest) \in Nat
           /\ RequestsLeft(c) = Len(Sent(c)) + Len(Behind(c)) + Len(rest)
           /\ RequestsLeft(c) > 0 => Len(Sent(c)) > 0
<1> DEFINE rest == SubSeq(reqs[c], Handed(c) + 1, Len(reqs[c]))
           front == SubSeq(reqs[c], 1, Handed(c))
           n == Least(BatchSize, Len(Held(c)))
<1>1. /\ reqs[c] \in Seq(Requests) /\ buffer[c] \in Seq(Requests)
      /\ Len(reqs[c]) \in Nat /\ Len(buffer[c]) \in Nat /\ BatchSize \in Nat \ {0}
  BY CallsAssumption DEF TypeOK
<1>2. /\ Handed(c) \in 0..Len(reqs[c])
      /\ Len(reqs[c]) > 0 => Handed(c) > 0
  BY <1>1 DEF Handed, Least
<1>3. front \in Seq(Requests) /\ Len(front) = Handed(c)
  BY <1>1, <1>2
<1>4. rest \in Seq(Requests) /\ Len(rest) = Len(reqs[c]) - Handed(c)
  BY <1>1, <1>2
<1>5. Held(c) \in Seq(Requests) /\ Len(Held(c)) = Len(buffer[c]) + Handed(c)
  <2>1. Held(c) = buffer[c] \o front
    BY DEF Held
  <2> HIDE DEF front
  <2>2. ASSUME NEW s \in Seq(Requests), NEW t \in Seq(Requests)
        PROVE  s \o t \in Seq(Requests) /\ Len(s \o t) = Len(s) + Len(t)
    OBVIOUS
  <2> QED BY <1>1, <1>3, <2>1, <2>2
<1>6. n \in 0..Len(Held(c)) /\ (Len(Held(c)) > 0 => n > 0)
  <2>1. Len(Held(c)) \in Nat
    BY <1>5
  <2> QED BY <1>1, <2>1 DEF Least
<1>7. Len(Sent(c)) = n
  BY <1>5, <1>6 DEF Sent
<1>8. Len(Behind(c)) = Len(Held(c)) - n
  BY <1>5, <1>6, <1>7 DEF Behind
<1> HIDE DEF rest, n
<1> DEFINE held == Len(Held(c))
           sent == Len(Sent(c))
           behind == Len(Behind(c))
           after == Len(rest)
           given == Len(reqs[c])
           kept == Len(buffer[c])
           h == Handed(c)
<1>9. /\ given \in Nat /\ kept \in Nat /\ h \in 0..given /\ (given > 0 => h > 0)
      /\ after = given - h /\ held = kept + h
      /\ n \in 0..held /\ (held > 0 => n > 0) /\ sent = n /\ behind = held - n
  BY <1>1, <1>2, <1>4, <1>5, <1>6, <1>7, <1>8
<1>10. RequestsLeft(c) = given + kept
  BY Zenon DEF RequestsLeft
<1> HIDE DEF held, sent, behind, after, given, kept, h
<1>11. /\ sent \in Nat /\ behind \in Nat /\ after \in Nat
       /\ RequestsLeft(c) = sent + behind + after
       /\ RequestsLeft(c) > 0 => sent > 0
  BY <1>9, <1>10
<1> QED BY <1>11 DEF rest, sent, behind, after

(* Processed requests are gone, and there is at least one.                 *)
LEMMA FewerLeft ==
    ASSUME NEW S, NEW s \in Seq(S), NEW done \in (SUBSET (1..Len(s))) \ {{}},
           NEW left \in SetToSeqs({s[i] : i \in (1..Len(s)) \ done})
    PROVE  left \in Seq(S) /\ Len(left) \in Nat /\ Len(left) < Len(s)
<1> DEFINE n == Len(s)
           D == (1..n) \ done
           L == {s[i] : i \in D}
           f == [i \in D |-> s[i]]
<1>1. n \in Nat
  BY LengthOf
<1>2. PICK i \in 1..n : i \in done
  OBVIOUS
<1>3. D \in SUBSET ((1..n) \ {i})
  BY <1>2
<1>4. f \in Surjection(D, L)
  BY DEF Surjection
<1>5. L \subseteq S
  <2>1. \A j \in 1..Len(s) : s[j] \in S
    OBVIOUS
  <2> QED BY <2>1
<1>6. left \in SetToSeqs(L)
  OBVIOUS
<1> HIDE DEF n, D, f
<1>7. IsFiniteSet(1..n) /\ Cardinality(1..n) = n
  <2>1. 1 \in Int /\ n \in Int /\ ~ 1 > n /\ n - 1 + 1 = n
    BY <1>1, <1>2
  <2> QED BY <2>1, FS_Interval
<1>8. IsFiniteSet((1..n) \ {i}) /\ Cardinality((1..n) \ {i}) = n - 1
  BY <1>2, <1>7, FS_RemoveElement
<1>9. IsFiniteSet(D) /\ Cardinality(D) <= Cardinality((1..n) \ {i})
  BY <1>3, <1>8, FS_Subset
<1> HIDE DEF L
<1>10. IsFiniteSet(L) /\ Cardinality(L) <= Cardinality(D)
  BY <1>4, <1>9, FS_Surjection
<1>11. Cardinality(L) \in Nat /\ Cardinality(D) \in Nat
  BY <1>9, <1>10, FS_CardinalityType
<1>12. left \in [1..Cardinality(L) -> L]
  BY <1>6 DEF SetToSeqs
<1>13. left \in Seq(L) /\ Len(left) = Cardinality(L)
  BY <1>11, <1>12
<1>14. left \in Seq(S)
  BY <1>5, <1>13, WiderSeq
<1>15. Len(left) < n
  BY <1>1, <1>8, <1>9, <1>10, <1>11, <1>13
<1> QED BY <1>11, <1>13, <1>14, <1>15 DEF n

LEMMA FlushShrinks ==
    ASSUME TypeOK, NEW c \in Clients, Flush(c)
    PROVE  Shrinks(c)
<1> DEFINE rest == SubSeq(reqs[c], Handed(c) + 1, Len(reqs[c]))
<1>a. PICK done \in (SUBSET (1..Len(Sent(c)))) \ {{}} :
         \E left \in SetToSeqs({Sent(c)[i] : i \in (1..Len(Sent(c))) \ done}) :
            Remains(c, Behind(c) \o left, rest)
  BY DEF Flush
<1>1. PICK left \in SetToSeqs({Sent(c)[i] : i \in (1..Len(Sent(c))) \ done}) :
         Remains(c, Behind(c) \o left, rest)
  BY <1>a
<1>2. /\ Len(Sent(c)) \in Nat /\ Len(Behind(c)) \in Nat /\ Len(rest) \in Nat
      /\ RequestsLeft(c) = Len(Sent(c)) + Len(Behind(c)) + Len(rest)
  BY HeldLengths
<1>3. Sent(c) \in Seq(Requests) /\ Behind(c) \in Seq(Requests)
  BY HeldElems DEF TypeOK
<1>4. left \in Seq(Requests) /\ Len(left) \in Nat /\ Len(left) < Len(Sent(c))
  BY <1>1, <1>3, FewerLeft
<1>5. Len(Behind(c) \o left) = Len(Behind(c)) + Len(left)
  <2>1. ASSUME NEW s \in Seq(Requests), NEW t \in Seq(Requests)
        PROVE  Len(s \o t) = Len(s) + Len(t)
    OBVIOUS
  <2> QED BY <1>3, <1>4, <2>1
<1>6. buffer'[c] = Behind(c) \o left /\ reqs'[c] = rest
  BY <1>1 DEF Remains, TypeOK
<1> HIDE DEF rest
<1>7. RequestsLeft(c)' = Len(rest) + (Len(Behind(c)) + Len(left))
  BY <1>5, <1>6 DEF RequestsLeft
<1>8. RequestsLeft(c)' < RequestsLeft(c)
  BY <1>2, <1>4, <1>7
<1>9. step[c] = "sending" /\ step'[c] \in {"sending", "answer"}
  BY <1>1 DEF Remains, Flush, TypeOK
<1> QED BY <1>8, <1>9 DEF Shrinks, StagesLeft

(* A refused batch is dropped; it is empty only if all is.                 *)
LEMMA FlushFailsShrinks ==
    ASSUME TypeOK, NEW c \in Clients, FlushFails(c)
    PROVE  Shrinks(c)
<1> DEFINE b == IF reqs[c] = <<>> THEN <<>> ELSE Behind(c)
<1>1. Remains(c, b, <<>>)
  BY DEF FlushFails
<1>2. /\ step[c] = "sending"
      /\ step'[c] = IF b = <<>> THEN "answer" ELSE "sending"
      /\ buffer'[c] = b /\ reqs'[c] = <<>>
  BY <1>1 DEF Remains, FlushFails, TypeOK
<1>3. CASE b = <<>>
  BY <1>2, <1>3 DEF Shrinks, StagesLeft
<1>4. CASE b # <<>>
  <2> DEFINE rest == SubSeq(reqs[c], Handed(c) + 1, Len(reqs[c]))
  <2>1. b = Behind(c)
    BY <1>4
  <2> HIDE DEF b
  <2>2. /\ Len(Sent(c)) \in Nat /\ Len(Behind(c)) \in Nat /\ Len(rest) \in Nat
        /\ RequestsLeft(c) = Len(Sent(c)) + Len(Behind(c)) + Len(rest)
        /\ RequestsLeft(c) > 0 => Len(Sent(c)) > 0
    BY HeldLengths
  <2> HIDE DEF rest
  <2>3. Behind(c) \in Seq(Requests)
    BY HeldElems DEF TypeOK
  <2>4. Len(Behind(c)) > 0
    BY <1>4, <2>1, <2>3, LengthOf
  <2>5. Len(Sent(c)) > 0
    BY <2>2, <2>4
  <2>6. RequestsLeft(c)' = Len(Behind(c))
    <3>1. Len(reqs'[c]) = 0
      BY <1>2
    <3> QED BY <1>2, <2>1, <2>2, <3>1 DEF RequestsLeft
  <2>7. RequestsLeft(c)' < RequestsLeft(c)
    BY <2>2, <2>5, <2>6
  <2> QED BY <1>2, <1>4, <2>7 DEF Shrinks
<1> QED BY <1>3, <1>4

(* The last page and the answer are a stage further, and so is a crash.    *)
LEMMA StageShrinks ==
    ASSUME TypeOK, NEW c \in Clients, step[c] # "idle",
           LastPage(c) \/ Return(c) \/ Crash(c)
    PROVE  Shrinks(c)
<1>1. step[c] \in Steps
  BY DEF TypeOK
<1>2. CASE LastPage(c)
  <2>1. step[c] = "paging" /\ step'[c] \in {"answer", "sending"}
    BY <1>2 DEF LastPage, TypeOK
  <2> QED BY <2>1 DEF Shrinks, StagesLeft
<1>3. CASE Return(c) \/ Crash(c)
  <2>1. step'[c] = "idle"
    BY <1>3 DEF Return, Crash, Forget, TypeOK
  <2> QED BY <1>1, <2>1 DEF Shrinks, StagesLeft, Steps
<1> QED BY <1>2, <1>3

LEMMA OwnStepShrinks ==
    ASSUME TypeOK, NEW c \in Clients, step[c] # "idle", Proceed(c) \/ Crash(c)
    PROVE  Shrinks(c)
<1>1. CASE NextPage(c)
  BY <1>1, PageShrinks
<1>2. CASE Flush(c)
  BY <1>2, FlushShrinks
<1>3. CASE FlushFails(c)
  BY <1>3, FlushFailsShrinks
<1>4. CASE LastPage(c) \/ Return(c) \/ Crash(c)
  BY <1>4, StageShrinks
<1> QED BY <1>1, <1>2, <1>3, <1>4 DEF Proceed

(* What a call works on is its client's own: no step of another client and *)
(* none of the service touches it.                                         *)
LEMMA OthersRest ==
    ASSUME TypeOK, NEW c \in Clients, step[c] # "idle",
           Next, ~ Proceed(c), ~ Crash(c)
    PROVE  Rests(c)
<1> DEFINE Same == /\ step'[c] = step[c] /\ range'[c] = range[c]
                   /\ start'[c] = start[c] /\ reqs'[c] = reqs[c]
                   /\ buffer'[c] = buffer[c]
<1> SUFFICES Same
  BY DEF Rests, KeysAhead, RequestsLeft
<1>1. CASE UNCHANGED <<at, query, batch>>
  BY <1>1 DEF at, query, batch
<1>2. ASSUME NEW d \in Clients,
             \/ PutItem(d) \/ DeleteItem(d) \/ UpdateItem(d)
             \/ ConditionalPut(d) \/ ConditionalPutLost(d)
      PROVE  Same
  BY <1>1, <1>2 DEF PutItem, DeleteItem, UpdateItem, Write, ConditionalPut,
                    ConditionalPutLost
<1>3. ASSUME NEW d \in Clients, Return(d) \/ Crash(d)
      PROVE  Same
  <2>1. d # c
    BY <1>3 DEF Proceed
  <2> QED BY <1>3, <2>1 DEF Return, Crash, Forget, TypeOK
<1>4. ASSUME NEW d \in Clients, Query(d) \/ DeleteAllByPk(d) \/ BatchWrite(d)
      PROVE  Same
  <2>1. CASE Query(d) \/ DeleteAllByPk(d)
    <3>1. d # c /\ \E s : step' = [step EXCEPT ![d] = s]
      BY <2>1 DEF Query, DeleteAllByPk, BeginPaging, Begin
    <3>2. /\ \E R : range' = [range EXCEPT ![d] = R]
          /\ UNCHANGED <<start, reqs, buffer>>
      BY <2>1 DEF Query, DeleteAllByPk, BeginPaging, batch
    <3> QED BY <3>1, <3>2 DEF TypeOK
  <2>2. CASE BatchWrite(d)
    <3>1. d # c /\ \E s : step' = [step EXCEPT ![d] = s]
      BY <2>2 DEF BatchWrite, Begin
    <3>2. /\ \E r : reqs' = [reqs EXCEPT ![d] = r]
          /\ UNCHANGED <<range, start, buffer>>
      BY <2>2 DEF BatchWrite, query
    <3> QED BY <3>1, <3>2 DEF TypeOK
  <2> QED BY <1>4, <2>1, <2>2
<1>5. ASSUME NEW d \in Clients, NextPage(d) \/ LastPage(d)
      PROVE  Same
  <2>1. d # c
    BY <1>5 DEF Proceed
  <2>2. /\ \E s : step' = [step EXCEPT ![d] = s]
        /\ start' = start \/ \E k : start' = [start EXCEPT ![d] = k]
        /\ reqs' = reqs \/ \E r : reqs' = [reqs EXCEPT ![d] = r]
        /\ UNCHANGED <<range, buffer>>
    BY <1>5 DEF NextPage, LastPage, batch
  <2> QED BY <2>1, <2>2 DEF TypeOK
<1>6. ASSUME NEW d \in Clients, Flush(d) \/ FlushFails(d)
      PROVE  Same
  <2>1. d # c
    BY <1>6 DEF Proceed
  <2>2. \E b, r : Remains(d, b, r)
    BY <1>6 DEF Flush, FlushFails
  <2>3. UNCHANGED <<range, start>>
    BY <1>6 DEF Flush, FlushFails, query
  <2> QED BY <2>1, <2>2, <2>3 DEF Remains, TypeOK
<1>7. ASSUME NEW k \in Keys, Expire(k) \/ Replicate(k)
      PROVE  Same
  BY <1>1, <1>7 DEF Expire, Replicate
<1>8. Callers \subseteq Clients
  BY CallsAssumption
<1> HIDE DEF Same
<1> QED BY <1>2, <1>3, <1>4, <1>5, <1>6, <1>7, <1>8 DEF Next, Proceed

CallsShrink ==
    \A c \in Callers : step[c] # "idle" =>
        /\ Bounded(c)
        /\ IF Proceed(c) \/ Crash(c) THEN Shrinks(c) ELSE Rests(c)

(* No call goes round in circles, the safety half of EveryCallEnds: each   *)
(* request of query, delete_all_by_pk and batch_write takes a key from the *)
(* finitely many ahead or a request from those left, or ends a stage, and  *)
(* nothing that the others do gives it back.  So items added to the pages  *)
(* to come and requests left unprocessed time and again cannot keep it up. *)
THEOREM NoCallCircles == Spec => [][CallsShrink]_vars
<1>1. ASSUME TypeOK, [Next]_vars
      PROVE  [CallsShrink]_vars
  <2> SUFFICES ASSUME Next, NEW c \in Callers, step[c] # "idle"
               PROVE  /\ Bounded(c)
                      /\ IF Proceed(c) \/ Crash(c) THEN Shrinks(c) ELSE Rests(c)
    BY <1>1 DEF CallsShrink
  <2>1. c \in Clients
    BY CallsAssumption
  <2>2. Bounded(c)
    BY <1>1, <2>1, CallBounded
  <2>3. Proceed(c) \/ Crash(c) => Shrinks(c)
    BY <1>1, <2>1, OwnStepShrinks
  <2>4. ~ Proceed(c) /\ ~ Crash(c) => Rests(c)
    BY <1>1, <2>1, OthersRest
  <2> QED BY <2>2, <2>3, <2>4
<1> QED BY <1>1, TableTypes, PTL DEF Spec
=============================================================================
