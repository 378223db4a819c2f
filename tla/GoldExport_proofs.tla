-------------------------- MODULE GoldExport_proofs --------------------------
(***************************************************************************)
(* Safety of the gold export chain for any number of views, rows, exports, *)
(* notifications and deliveries.                                           *)
(***************************************************************************)
EXTENDS GoldExport, TLAPS

(* Views only move forward, and so do the versions exports read.           *)
ViewsForward ==
    /\ \A s \in Sources : base[s] <= gold[s]
    /\ \A s \in Sources, n \in 1..Len(files) :
         /\ files[n][s] <= gold[s]
         /\ job # "idle" => files[n][s] <= base[s]
    /\ \A s \in Sources, m, n \in 1..Len(files) :
         m <= n => files[m][s] <= files[n][s]

(* The prefix holds the newest part file or nothing.                       *)
OnlyNewest ==
    /\ \A n \in parts : n = Len(files)
    /\ job = "deleted" => parts = {}

(* A notification that waits has a delivery left, and a delivery that is   *)
(* writing read its file while it was the newest.                          *)
ReadNewest ==
    \A d \in Slots :
        /\ phase[d] = "idle" => attempt[d] = 0
        /\ phase[d] = "queued" => attempt[d] < MaxAttempts
        /\ phase[d] # "idle" => file[d] \in 1..Len(files)
        /\ Running(d) => seen[d] = file[d]

(* Until two deliveries overlap: nothing served is newer than what the     *)
(* running delivery puts, and what it has put stays.                       *)
OneWriter ==
    ~overlapped => \A d \in Slots :
        /\ Running(d) =>
             /\ \A o \in Slots : Running(o) => o = d
             /\ \A r \in Rows : table[r] <= file[d]
             /\ \A r \in RowsOf(file[d]) \ todo[d] : file[d] <= table[r]
        /\ phase[d] = "done" => \A r \in RowsOf(file[d]) : file[d] <= table[r]

GoldInv == TypeOK /\ ViewsForward /\ OnlyNewest /\ ReadNewest /\ OneWriter

-----------------------------------------------------------------------------
(* A later export leaves the rows of an earlier file as they are.          *)
LEMMA RowsKept ==
    ASSUME NEW v \in [Sources -> Versions], NEW n \in 1..Len(files),
           files \in Seq([Sources -> Versions]),
           files' = Append(files, v)
    PROVE  /\ files'[n] = files[n]
           /\ RowsOf(n)' = RowsOf(n)
<1>1. files'[n] = files[n]
  OBVIOUS
<1> QED BY <1>1 DEF RowsOf

(* With files unchanged, the rows of every file are unchanged.             *)
LEMMA RowsSame ==
    ASSUME UNCHANGED files, NEW n
    PROVE  RowsOf(n)' = RowsOf(n)
BY DEF RowsOf

(* The initial state satisfies the invariant.                              *)
LEMMA InitGold == Init => GoldInv
<1> SUFFICES ASSUME Init
             PROVE  GoldInv
  OBVIOUS
<1>1. TypeOK
  <2>1. gold \in [Sources -> Versions] /\ base \in [Sources -> Versions]
    BY GoldAssumption DEF Init, Versions
  <2>2. overlapped \in BOOLEAN
    BY Zenon DEF Init
  <2>3. files \in Seq([Sources -> Versions]) /\ Len(files) = 0
    BY DEF Init
  <2> QED BY <2>1, <2>2, <2>3, GoldAssumption DEF Init, TypeOK
<1>2. ViewsForward /\ OnlyNewest
  BY DEF Init, ViewsForward, OnlyNewest
<1>3. ReadNewest /\ OneWriter
  BY DEF Init, ReadNewest, OneWriter, Running
<1> QED BY <1>1, <1>2, <1>3 DEF GoldInv

(* The views and the export job keep the invariant.                        *)
LEMMA RefreshKeeps ==
    ASSUME GoldInv, NEW s \in Sources, Refresh(s)
    PROVE  GoldInv'
<1> USE DEF exporter
<1>0. UNCHANGED files /\ \A n : RowsOf(n)' = RowsOf(n)
  BY DEF Refresh, RowsOf
<1>1. TypeOK'
  BY GoldAssumption DEF GoldInv, TypeOK, Refresh, Versions
<1>2. ViewsForward'
  <2>1. /\ \A x \in Sources : gold[x] <= gold'[x]
        /\ UNCHANGED <<job, base, files>>
    BY GoldAssumption DEF GoldInv, TypeOK, Refresh, Versions
  <2>2. \A x \in Sources : gold[x] \in Int /\ gold'[x] \in Int
    BY <1>1, GoldAssumption DEF GoldInv, TypeOK, Versions
  <2>3. \A x \in Sources : base[x] \in Int
    BY GoldAssumption DEF GoldInv, TypeOK, Versions
  <2>4. \A x \in Sources, n \in 1..Len(files) : files[n][x] \in Int
    <3> SUFFICES ASSUME NEW x \in Sources, NEW n \in 1..Len(files)
                 PROVE  files[n][x] \in Int
      OBVIOUS
    <3>1. files[n] \in [Sources -> Versions]
      BY DEF GoldInv, TypeOK
    <3> QED BY <3>1, GoldAssumption DEF Versions
  <2>5. \A x \in Sources : base'[x] <= gold'[x]
    BY <2>1, <2>2, <2>3 DEF GoldInv, ViewsForward
  <2>6. \A x \in Sources, n \in 1..Len(files) : files[n][x] <= gold'[x]
    BY <2>1, <2>2, <2>4 DEF GoldInv, ViewsForward
  <2> QED BY <2>1, <2>5, <2>6 DEF GoldInv, ViewsForward
<1>3. OnlyNewest' /\ ReadNewest'
  BY DEF GoldInv, OnlyNewest, ReadNewest, Refresh, Running
<1>4. OneWriter'
  BY <1>0 DEF GoldInv, OneWriter, Refresh, Running
<1> QED BY <1>1, <1>2, <1>3, <1>4 DEF GoldInv

(* The steps of the export run that write nothing keep the invariant.      *)
LEMMA QuietExportKeeps ==
    ASSUME GoldInv, ExportStart \/ ExportDelete \/ ExportFails
    PROVE  GoldInv'
<1>0. UNCHANGED <<gold, files, file, phase, attempt, todo, seen, table,
                  overlapped>>
      /\ \A n : RowsOf(n)' = RowsOf(n)
  BY DEF ExportStart, ExportDelete, ExportFails, RowsOf
<1>1. TypeOK'
  BY <1>0 DEF GoldInv, TypeOK, ExportStart, ExportDelete, ExportFails
<1>2. ViewsForward'
  BY <1>0, SMTT(20) DEF GoldInv, TypeOK, ViewsForward, ExportStart, ExportDelete,
              ExportFails, Versions
<1>3. OnlyNewest'
  BY <1>0 DEF GoldInv, OnlyNewest, ExportStart, ExportDelete, ExportFails
<1>4. ReadNewest' /\ OneWriter'
  BY <1>0 DEF GoldInv, ReadNewest, OneWriter, Running
<1> QED BY <1>1, <1>2, <1>3, <1>4 DEF GoldInv

(* The write of an export keeps the invariant.                             *)
LEMMA WriteKeeps ==
    ASSUME GoldInv, ExportWrite
    PROVE  GoldInv'
<1>1. PICK v \in Readable : files' = Append(files, v)
  BY DEF ExportWrite
<1>2. PICK d \in Slots : Notify(d, Len(files) + 1)
  BY DEF ExportWrite
<1>3. /\ v \in [Sources -> Versions]
      /\ \A s \in Sources : base[s] <= v[s] /\ v[s] <= gold[s]
  BY DEF Readable
<1>4. /\ files \in Seq([Sources -> Versions])
      /\ Len(files) \in Nat
      /\ Len(files') = Len(files) + 1
      /\ files' \in Seq([Sources -> Versions])
      /\ files'[Len(files) + 1] = v
  BY <1>1, <1>3 DEF GoldInv, TypeOK
<1>5. \A n \in 1..Len(files) : files'[n] = files[n] /\ RowsOf(n)' = RowsOf(n)
  BY <1>1, <1>3, <1>4, RowsKept
<1>6. /\ phase[d] = "idle"
      /\ file' = [file EXCEPT ![d] = Len(files) + 1]
      /\ phase' = [phase EXCEPT ![d] = "queued"]
      /\ UNCHANGED <<gold, base, attempt, todo, seen, table, overlapped>>
      /\ job = "deleted" /\ job' = "idle"
      /\ parts = {} /\ parts' = {Len(files) + 1}
  BY <1>2 DEF ExportWrite, Notify, GoldInv, OnlyNewest
<1>7. TypeOK'
  BY <1>4, <1>6 DEF GoldInv, TypeOK
<1>8. ViewsForward'
  <2>1. \A s \in Sources, n \in 1..Len(files) : files[n][s] <= v[s]
    <3> SUFFICES ASSUME NEW s \in Sources, NEW n \in 1..Len(files)
                 PROVE  files[n][s] <= v[s]
      OBVIOUS
    <3>1. files[n][s] <= base[s] /\ base[s] <= v[s]
      BY <1>3, <1>6 DEF GoldInv, ViewsForward
    <3>2. files[n] \in [Sources -> Versions] /\ base \in [Sources -> Versions]
      BY <1>4 DEF GoldInv, TypeOK
    <3>3. files[n][s] \in Int /\ base[s] \in Int /\ v[s] \in Int
      BY <1>3, <3>2, GoldAssumption DEF Versions
    <3> QED BY <3>1, <3>3
  <2>2. \A n \in 1..Len(files') : n \in 1..Len(files) \/ n = Len(files) + 1
    BY <1>4
  <2>3. \A s \in Sources, n \in 1..Len(files') : files'[n][s] <= gold'[s]
    BY <2>2, <1>3, <1>4, <1>5, <1>6 DEF GoldInv, ViewsForward
  <2>4. \A s \in Sources, m, n \in 1..Len(files') :
           m <= n => files'[m][s] <= files'[n][s]
    <3> SUFFICES ASSUME NEW s \in Sources, NEW m \in 1..Len(files'),
                        NEW n \in 1..Len(files'), m <= n
                 PROVE  files'[m][s] <= files'[n][s]
      OBVIOUS
    <3>1. CASE n \in 1..Len(files)
      <4>1. m \in 1..Len(files)
        BY <3>1, <1>4
      <4> QED BY <4>1, <3>1, <1>5 DEF GoldInv, ViewsForward
    <3>2. CASE n = Len(files) + 1 /\ m \in 1..Len(files)
      BY <3>2, <1>4, <1>5, <2>1
    <3>3. CASE n = Len(files) + 1 /\ m = Len(files) + 1
      <4>1. v[s] \in Nat
        BY <1>3 DEF Versions
      <4> QED BY <3>3, <1>4, <4>1
    <3> QED BY <3>1, <3>2, <3>3, <2>2
  <2> QED BY <2>3, <2>4, <1>6 DEF GoldInv, ViewsForward
<1>9. OnlyNewest'
  BY <1>4, <1>6 DEF OnlyNewest
<1>10. ReadNewest'
  BY <1>4, <1>6, GoldAssumption DEF GoldInv, TypeOK, ReadNewest, Running
<1>11. OneWriter'
  <2> SUFFICES ASSUME ~overlapped, NEW o \in Slots
               PROVE  /\ Running(o)' =>
                           /\ \A x \in Slots : Running(x)' => x = o
                           /\ \A r \in Rows : table'[r] <= file'[o]
                           /\ \A r \in RowsOf(file[o])' \ todo'[o] :
                                 file'[o] <= table'[r]
                      /\ phase'[o] = "done" =>
                           \A r \in RowsOf(file[o])' : file'[o] <= table'[r]
    BY <1>6 DEF OneWriter
  <2>1. CASE o = d
    BY <2>1, <1>6 DEF GoldInv, TypeOK, Running
  <2>2. CASE o # d
    <3>1. file'[o] = file[o] /\ phase'[o] = phase[o]
      BY <2>2, <1>6 DEF GoldInv, TypeOK
    <3>2. \A x \in Slots : Running(x)' => Running(x)
      BY <1>6 DEF GoldInv, TypeOK, Running
    <3>3. CASE phase[o] = "idle"
      BY <3>1, <3>3 DEF Running
    <3>4. CASE phase[o] # "idle"
      <4>1. RowsOf(file[o])' = RowsOf(file[o])
        <5>1. file[o] \in 1..Len(files)
          BY <3>4 DEF GoldInv, ReadNewest
        <5> QED BY <5>1, <3>1, <1>5 DEF RowsOf
      <4> QED BY <4>1, <3>1, <3>2, <1>6 DEF GoldInv, OneWriter, Running
    <3> QED BY <3>3, <3>4
  <2> QED BY <2>1, <2>2
<1> QED BY <1>7, <1>8, <1>9, <1>10, <1>11 DEF GoldInv

(* Notifications and deliveries leave views and exports alone.             *)
LEMMA OutsideSame ==
    ASSUME GoldInv, UNCHANGED <<gold, exporter>>
    PROVE  ViewsForward' /\ OnlyNewest'
BY DEF GoldInv, ViewsForward, OnlyNewest, exporter

(* A repeated notification keeps the invariant.                            *)
LEMMA NotifyKeeps ==
    ASSUME GoldInv, NEW d \in Slots, NotifyAgain(d)
    PROVE  GoldInv'
<1>0. PICK n \in 1..Len(files) : Notify(d, n)
  BY DEF NotifyAgain
<1>1. /\ UNCHANGED <<gold, job, base, files, parts, attempt, todo, seen, table,
                  overlapped>>
      /\ phase[d] = "idle"
      /\ file' = [file EXCEPT ![d] = n]
      /\ phase' = [phase EXCEPT ![d] = "queued"]
  BY <1>0 DEF NotifyAgain, Notify, exporter
<1>2. TypeOK'
  BY <1>1 DEF GoldInv, TypeOK
<1>3. ReadNewest'
  BY <1>1, GoldAssumption DEF GoldInv, TypeOK, ReadNewest, Running
<1>4. OneWriter'
  <2>1. \A m : RowsOf(m)' = RowsOf(m)
    BY <1>1 DEF RowsOf
  <2>2. \A o \in Slots : /\ Running(o)' <=> Running(o)
                         /\ (phase'[o] = "done") <=> (phase[o] = "done")
                         /\ o # d => file'[o] = file[o]
    BY <1>1 DEF GoldInv, TypeOK, Running
  <2>3. ~Running(d) /\ phase[d] # "done"
    BY <1>1 DEF Running
  <2>4. \A o \in Slots : o # d => RowsOf(file[o])' = RowsOf(file[o])
    BY <2>1, <2>2, <1>1 DEF RowsOf
  <2> QED BY <2>2, <2>3, <2>4, <1>1 DEF GoldInv, OneWriter
<1> QED BY <1>1, <1>2, <1>3, <1>4, OutsideSame DEF GoldInv, exporter

(* The first step of a delivery keeps the invariant.                       *)
LEMMA BeginKeeps ==
    ASSUME GoldInv, NEW d \in Slots, Begin(d)
    PROVE  GoldInv'
<1>1. /\ UNCHANGED <<gold, job, base, files, parts, file, table>>
      /\ UNCHANGED <<gold, exporter>>
      /\ phase[d] = "queued"
      /\ file[d] \in parts
      /\ todo' = [todo EXCEPT ![d] = RowsOf(file[d])]
      /\ phase' = [phase EXCEPT ![d] = IF RowsOf(file[d]) = {} THEN "done"
                                                              ELSE "writing"]
      /\ seen' = [seen EXCEPT ![d] = Len(files)]
      /\ \A n : RowsOf(n)' = RowsOf(n)
      /\ attempt' = [attempt EXCEPT ![d] = @ + 1]
      /\ overlapped' = Overlaps
  BY DEF Begin, exporter, RowsOf
<1>2. file[d] = Len(files) /\ file[d] \in 1..Len(files)
  BY <1>1 DEF GoldInv, OnlyNewest, TypeOK
<1>3. TypeOK'
  <2>1. RowsOf(file[d]) \subseteq Rows
    BY DEF RowsOf
  <2>2. attempt[d] < MaxAttempts
    BY <1>1 DEF GoldInv, ReadNewest
  <2>3. overlapped' \in BOOLEAN
    BY <1>1, Zenon DEF Overlaps
  <2> QED BY <1>1, <2>1, <2>2, <2>3, GoldAssumption DEF GoldInv, TypeOK
<1>4. ReadNewest'
  BY <1>1, <1>2 DEF GoldInv, TypeOK, ReadNewest, Running
<1>5. OneWriter'
  <2> SUFFICES ASSUME ~overlapped'
               PROVE  OneWriter'
    BY DEF OneWriter
  <2>1. ~overlapped /\ \A o \in Slots : ~Running(o)
    BY <1>1 DEF Overlaps
  <2>2. /\ \A o \in Slots : Running(o)' => o = d
        /\ \A o \in Slots \ {d} : phase'[o] = phase[o]
    BY <2>1, <1>1 DEF GoldInv, TypeOK, Running
  <2>3. \A r \in Rows : table'[r] <= file'[d]
    BY <1>1, <1>2 DEF GoldInv, TypeOK
  <2>4. RowsOf(file[d])' = RowsOf(file[d])
    BY <1>1 DEF RowsOf
  <2>5. todo'[d] = RowsOf(file[d])
    BY <1>1 DEF GoldInv, TypeOK
  <2>6. phase'[d] = "done" => RowsOf(file[d]) = {}
    BY <1>1 DEF GoldInv, TypeOK
  <2>7. \A o \in Slots \ {d} : RowsOf(file[o])' = RowsOf(file[o])
    BY <1>1 DEF RowsOf
  <2> QED BY <2>1, <2>2, <2>3, <2>4, <2>5, <2>6, <2>7, <1>1
          DEF GoldInv, OneWriter
<1> QED BY <1>1, <1>3, <1>4, <1>5, OutsideSame DEF GoldInv

(* A delivery that fails, at once or after some puts, keeps the invariant. *)
LEMMA FailKeeps ==
    ASSUME GoldInv, NEW d \in Slots, BeginFails(d) \/ Crash(d)
    PROVE  GoldInv'
<1>1. /\ UNCHANGED <<gold, job, base, files, parts, file, seen, table,
                     overlapped>>
      /\ UNCHANGED <<gold, exporter>>
      /\ phase[d] \in {"queued", "writing"}
      /\ todo' \in {todo, [todo EXCEPT ![d] = {}]}
      /\ \A n : RowsOf(n)' = RowsOf(n)
  BY DEF BeginFails, Crash, Running, exporter, RowsOf
<1>2. /\ attempt' \in [Slots -> 0..MaxAttempts]
      /\ phase' = [phase EXCEPT ![d] = AfterFailure(attempt'[d])]
  <2>1. CASE BeginFails(d)
    BY <2>1, GoldAssumption DEF GoldInv, TypeOK, ReadNewest, BeginFails
  <2>2. CASE Crash(d)
    BY <2>2 DEF GoldInv, TypeOK, Crash
  <2> QED BY <2>1, <2>2
<1>3. /\ phase'[d] \in {"queued", "failed"}
      /\ phase'[d] = "queued" => attempt'[d] < MaxAttempts
      /\ \A o \in Slots \ {d} : phase'[o] = phase[o] /\ attempt'[o] = attempt[o]
                                  /\ todo'[o] = todo[o]
  BY <1>1, <1>2 DEF GoldInv, TypeOK, AfterFailure, BeginFails, Crash
<1>4. TypeOK'
  BY <1>1, <1>2, <1>3 DEF GoldInv, TypeOK
<1>5. ReadNewest'
  BY <1>1, <1>3 DEF GoldInv, ReadNewest, Running
<1>6. OneWriter'
  <2>1. \A o \in Slots : RowsOf(file[o])' = RowsOf(file[o])
    BY <1>1 DEF RowsOf
  <2>2. \A o \in Slots : Running(o)' => Running(o) /\ o # d
    BY <1>3 DEF Running
  <2>3. \A o \in Slots : phase'[o] = "done" => phase[o] = "done" /\ o # d
    BY <1>3
  <2> QED BY <2>1, <2>2, <2>3, <1>1, <1>3 DEF GoldInv, OneWriter
<1> QED BY <1>1, <1>4, <1>5, <1>6, OutsideSame DEF GoldInv

(* The put of one row keeps the invariant.                                 *)
LEMMA PutKeeps ==
    ASSUME GoldInv, NEW d \in Slots, Put(d)
    PROVE  GoldInv'
<1>1. PICK r \in todo[d] :
         /\ table' = [table EXCEPT ![r] = file[d]]
         /\ todo' = [todo EXCEPT ![d] = @ \ {r}]
         /\ phase' = [phase EXCEPT ![d] = IF todo[d] = {r} THEN "done"
                                                          ELSE "writing"]
  BY DEF Put
<1>2. /\ UNCHANGED <<gold, job, base, files, parts, file, attempt, seen,
                  overlapped>>
      /\ UNCHANGED <<gold, exporter>>
      /\ Running(d)
      /\ \A n : RowsOf(n)' = RowsOf(n)
  BY DEF Put, exporter, RowsOf
<1>3. TypeOK'
  BY <1>1, <1>2 DEF GoldInv, TypeOK
<1>4. ReadNewest'
  BY <1>1, <1>2 DEF GoldInv, TypeOK, ReadNewest, Running
<1>5. OneWriter'
  <2> SUFFICES ASSUME ~overlapped
               PROVE  OneWriter'
    BY <1>2 DEF OneWriter
  <2>0. \A o \in Slots : RowsOf(file[o])' = RowsOf(file[o])
    BY <1>2 DEF RowsOf
  <2>1. \A o \in Slots : Running(o)' => o = d
    BY <1>1, <1>2 DEF GoldInv, TypeOK, OneWriter, Running
  <2>2. \A q \in Rows : table[q] <= table'[q] /\ table'[q] <= file[d]
    BY <1>1, <1>2 DEF GoldInv, TypeOK, OneWriter
  <2>3. \A q \in RowsOf(file[d]) \ todo'[d] : file[d] <= table'[q]
    <3> SUFFICES ASSUME NEW q \in RowsOf(file[d]) \ todo'[d]
                 PROVE  file[d] <= table'[q]
      OBVIOUS
    <3>1. q \in Rows /\ r \in Rows /\ file[d] \in Int
      BY <1>1 DEF RowsOf, GoldInv, TypeOK
    <3>2. CASE q = r
      BY <3>1, <3>2, <1>1 DEF GoldInv, TypeOK
    <3>3. CASE q # r
      <4>1. q \in RowsOf(file[d]) \ todo[d]
        BY <3>3, <1>1 DEF GoldInv, TypeOK
      <4>2. file[d] <= table[q]
        BY <4>1, <1>2 DEF GoldInv, OneWriter
      <4> QED BY <4>2, <3>1, <3>3, <1>1 DEF GoldInv, TypeOK
    <3> QED BY <3>2, <3>3
  <2>4. phase'[d] = "done" => todo'[d] = {}
    BY <1>1, <1>2 DEF GoldInv, TypeOK
  <2>5. \A o \in Slots \ {d} : phase'[o] = "done" =>
           \A q \in RowsOf(file[o]) : file[o] <= table'[q]
    <3> SUFFICES ASSUME NEW o \in Slots \ {d}, phase'[o] = "done",
                        NEW q \in RowsOf(file[o])
                 PROVE  file[o] <= table'[q]
      OBVIOUS
    <3>1. phase[o] = "done" /\ q \in Rows
      BY <1>1 DEF GoldInv, TypeOK, RowsOf
    <3>2. file[o] <= table[q] /\ table[q] <= table'[q]
      BY <3>1, <2>2 DEF GoldInv, OneWriter
    <3>3. file[o] \in Int /\ table[q] \in Int /\ table'[q] \in Int
      BY <3>1, <1>3, <1>2 DEF GoldInv, TypeOK
    <3> QED BY <3>2, <3>3
  <2> QED BY <2>0, <2>1, <2>2, <2>3, <2>4, <2>5, <1>2 DEF OneWriter
<1> QED BY <1>2, <1>3, <1>4, <1>5, OutsideSame DEF GoldInv

(* Every step, and every stutter, keeps the invariant.                     *)
LEMMA StepKeeps == GoldInv /\ [Next]_vars => GoldInv'
<1> SUFFICES ASSUME GoldInv, [Next]_vars
             PROVE  GoldInv'
  OBVIOUS
<1>1. CASE UNCHANGED vars
  BY <1>1 DEF vars, exporter, GoldInv, TypeOK, ViewsForward, OnlyNewest,
              ReadNewest, OneWriter, Running, RowsOf
<1>2. CASE \E s \in Sources : Refresh(s)
  BY <1>2, RefreshKeeps
<1>3. CASE Export
  BY <1>3, QuietExportKeeps, WriteKeeps DEF Export
<1>4. CASE \E d \in Slots : NotifyAgain(d) \/ Advance(d) \/ BeginFails(d)
                             \/ Crash(d)
  BY <1>4, NotifyKeeps, BeginKeeps, FailKeeps, PutKeeps DEF Advance
<1> QED BY <1>1, <1>2, <1>3, <1>4 DEF Next

(* The invariant of the export chain holds in every behaviour.             *)
THEOREM GoldSafety == Spec => []GoldInv
<1> QED BY InitGold, StepKeeps, PTL DEF Spec

(* The variables keep their types.                                         *)
THEOREM GoldTypes == Spec => []TypeOK
<1>1. GoldInv => TypeOK
  BY DEF GoldInv
<1> QED BY <1>1, GoldSafety, PTL

(* At most one part file is ever under the export prefix.                  *)
THEOREM SinglePart == Spec => []OnePart
<1>1. GoldInv => OnePart
  BY DEF GoldInv, OnlyNewest, OnePart
<1> QED BY <1>1, GoldSafety, PTL

(* Rows only fall back to an older export through a delivery that had read *)
(* it before the newer one was written.                                    *)
THEOREM FallsBackOnlyByOverlap == Spec => OlderOnlyByOverlap
<1>1. GoldInv /\ [Next]_vars =>
        [\A r \in Rows : table'[r] < table[r] =>
           \E d \in Slots : Running(d) /\ seen[d] < table[r]]_vars
  <2> SUFFICES ASSUME GoldInv, Next, NEW r \in Rows, table'[r] < table[r]
               PROVE  \E d \in Slots : Running(d) /\ seen[d] < table[r]
    OBVIOUS
  <2>0. table[r] \in Int
    BY DEF GoldInv, TypeOK
  <2>1. table' # table
    BY <2>0
  <2>2. PICK d \in Slots : Put(d)
    BY <2>1 DEF Next, Refresh, Export, ExportStart, ExportDelete, ExportWrite,
                ExportFails, NotifyAgain, Advance, Begin, BeginFails, Crash
  <2>3. table'[r] = table[r] \/ table'[r] = file[d]
    BY <2>2 DEF Put, GoldInv, TypeOK
  <2>4. Running(d) /\ seen[d] = file[d]
    BY <2>2 DEF Put, GoldInv, ReadNewest
  <2> QED BY <2>0, <2>3, <2>4
<1> QED BY <1>1, GoldSafety, PTL DEF Spec, OlderOnlyByOverlap

(* Until deliveries overlap a row never falls back to an older version     *)
(* of its view.                                                            *)
THEOREM ServedForward == Spec => NeverOlder
<1>1. GoldInv /\ GoldInv' /\ [Next]_vars =>
        [~overlapped => \A r \in Rows : table[r] # 0 =>
           /\ table'[r] # 0
           /\ VersionAt(table[r], r) <= files'[table'[r]][SourceOf[r]]]_vars
  <2> SUFFICES ASSUME GoldInv, GoldInv', Next, ~overlapped,
                      NEW r \in Rows, table[r] # 0
               PROVE  /\ table'[r] # 0
                      /\ VersionAt(table[r], r)
                            <= files'[table'[r]][SourceOf[r]]
    OBVIOUS
  <2>1. /\ table[r] \in 1..Len(files)
        /\ SourceOf[r] \in Sources
        /\ Len(files) \in Nat
    BY GoldAssumption DEF GoldInv, TypeOK
  <2>2. CASE table' = table
    <3>1. files'[table[r]] = files[table[r]]
      <4>1. CASE ExportWrite
        BY <4>1, <2>1 DEF ExportWrite, Readable, GoldInv, TypeOK
      <4>2. CASE ~ExportWrite
        BY <4>2 DEF Next, Refresh, Export, ExportStart, ExportDelete,
                    ExportFails, NotifyAgain, Advance, Begin, BeginFails, Put,
                    Crash, exporter
      <4> QED BY <4>1, <4>2
    <3>2. files[table[r]][SourceOf[r]] \in Int
      BY <2>1, GoldAssumption DEF GoldInv, TypeOK, Versions
    <3> QED BY <2>1, <2>2, <3>1, <3>2 DEF VersionAt
  <2>3. CASE table' # table
    <3>1. PICK d \in Slots : Put(d)
      BY <2>3 DEF Next, Refresh, Export, ExportStart, ExportDelete, ExportWrite,
                  ExportFails, NotifyAgain, Advance, Begin, BeginFails, Crash
    <3>2. /\ files' = files
          /\ table'[r] = table[r] \/ table'[r] = file[d]
          /\ Running(d)
      BY <3>1 DEF Put, GoldInv, TypeOK, exporter
    <3>3. /\ file[d] \in 1..Len(files)
          /\ table[r] <= file[d]
      BY <3>2 DEF GoldInv, ReadNewest, OneWriter, Running
    <3>4. /\ files[table[r]][SourceOf[r]] <= files[file[d]][SourceOf[r]]
          /\ files[table[r]][SourceOf[r]] <= files[table[r]][SourceOf[r]]
      BY <2>1, <3>3 DEF GoldInv, ViewsForward
    <3> QED BY <2>1, <3>2, <3>3, <3>4 DEF VersionAt
  <2> QED BY <2>2, <2>3
<1> QED BY <1>1, GoldSafety, PTL DEF Spec, NeverOlder

(* Until deliveries overlap a finished delivery's rows stay served.        *)
THEOREM DoneIsServed == Spec => []LandedStays
<1>1. GoldInv => LandedStays
  BY DEF GoldInv, OneWriter, LandedStays
<1> QED BY <1>1, GoldSafety, PTL
=============================================================================
