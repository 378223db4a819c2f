--------------------------- MODULE StateLock_proofs ---------------------------
(* What StateLock guarantees for every number of states, runs and sweeps    *)
(* and every pair of limits.                                                *)
EXTENDS StateLock, TLAPS

(* The strengthening.  Whoever appears in the table or in a scan has left   *)
(* "waiting", so its age only grows; what a scan condemned is stale for     *)
(* good; hence the delete of a scan can only hit a stale lock, however long *)
(* after the scan it comes, and a young command owns the item of its state. *)
Started == \A s \in States, r \in Runs : lock[s] = r => run[r] # "waiting"

CondemnedIsStale ==
    \A w \in Sweepers : \A item \in seen[w] :
        run[item[2]] # "waiting" /\ Stale(item[2])

YoungOwns ==
    \A r \in Runs : (Critical(r) /\ ~Stale(r)) => lock[target[r]] = r

LockInv == TypeOK /\ Started /\ CondemnedIsStale /\ YoungOwns

(* A job is stopped before its lock can pass for stale.                     *)
WithinLimit == \A r \in CI : Critical(r) => held[r] <= JobLimit

USE LockAssumption

(* The table starts empty and no scan has been made.                        *)
LEMMA LockInit == Init => LockInv /\ WithinLimit
BY DEF Init, LockInv, TypeOK, Started, CondemnedIsStale, YoungOwns,
       WithinLimit, Critical, MaxHeld

(* Every step keeps the variables in their types.                           *)
LEMMA TypeStep == TypeOK /\ [Next]_vars => TypeOK'
<1> SUFFICES ASSUME TypeOK, [Next]_vars PROVE TypeOK'
  OBVIOUS
<1> USE DEF TypeOK, Critical
<1>1. CASE Tick
  BY <1>1 DEF Tick, MaxHeld
<1>2. ASSUME NEW r \in Runs, Acquire(r) \/ AcquireFails(r) \/ Finish(r)
      PROVE  TypeOK'
  <2>1. CASE Acquire(r)
    BY <2>1 DEF Acquire, MaxHeld
  <2>2. CASE AcquireFails(r)
    BY <2>2 DEF AcquireFails
  <2>3. CASE Release(r)
    BY <2>3 DEF Release
  <2>4. CASE Kill(r)
    BY <2>4 DEF Kill
  <2> QED
    BY <1>2, <2>1, <2>2, <2>3, <2>4 DEF Finish
<1>3. ASSUME NEW w \in Sweepers, Sweep(w) \/ SweepDies(w)
      PROVE  TypeOK'
  <2>1. CASE Scan(w)
    BY <2>1 DEF Scan
  <2>2. CASE Remove(w)
    BY <2>2 DEF Remove
  <2>3. CASE SweepDies(w)
    BY <2>3 DEF SweepDies
  <2> QED
    BY <1>3, <2>1, <2>2, <2>3 DEF Sweep
<1>4. CASE UNCHANGED vars
  BY <1>4 DEF vars
<1> QED
  BY <1>1, <1>2, <1>3, <1>4 DEF Next

(* Every step keeps the strengthening.                                      *)
LEMMA LockStep == LockInv /\ [Next]_vars => LockInv'
<1> SUFFICES ASSUME LockInv, [Next]_vars PROVE LockInv'
  OBVIOUS
<1>0. TypeOK'
  BY TypeStep DEF LockInv
<1> USE DEF LockInv, TypeOK, Critical, Stale
<1>1. CASE Tick
  <2>1. \A r \in Runs : held'[r] >= held[r]
    BY <1>1 DEF Tick, MaxHeld
  <2>2. Started'
    BY <1>1 DEF Tick, Started
  <2>3. CondemnedIsStale'
    BY <1>1, <2>1, <1>0 DEF Tick, CondemnedIsStale, MaxHeld
  <2>4. YoungOwns'
    BY <1>1, <2>1, <1>0 DEF Tick, YoungOwns, MaxHeld
  <2> QED
    BY <1>0, <2>2, <2>3, <2>4
<1>2. ASSUME NEW r \in Runs, Acquire(r) \/ AcquireFails(r) \/ Finish(r)
      PROVE  LockInv'
  <2>1. CASE Acquire(r)
    <3>1. Started'
      BY <2>1 DEF Acquire, Started
    <3>2. CondemnedIsStale'
      BY <2>1 DEF Acquire, CondemnedIsStale
    <3>3. YoungOwns'
      BY <2>1 DEF Acquire, YoungOwns
    <3> QED
      BY <1>0, <3>1, <3>2, <3>3
  <2>2. CASE AcquireFails(r)
    BY <2>2, <1>0 DEF AcquireFails, Started, CondemnedIsStale, YoungOwns
  <2>3. CASE Release(r)
    <3>1. Started'
      BY <2>3 DEF Release, Started
    <3>2. CondemnedIsStale'
      BY <2>3 DEF Release, CondemnedIsStale
    <3>3. YoungOwns'
      BY <2>3 DEF Release, YoungOwns
    <3> QED
      BY <1>0, <3>1, <3>2, <3>3
  <2>4. CASE Kill(r)
    BY <2>4, <1>0 DEF Kill, Started, CondemnedIsStale, YoungOwns
  <2> QED
    BY <1>2, <2>1, <2>2, <2>3, <2>4 DEF Finish
<1>3. ASSUME NEW w \in Sweepers, Sweep(w) \/ SweepDies(w)
      PROVE  LockInv'
  <2>1. CASE Scan(w)
    <3>1. ASSUME NEW v \in Sweepers, NEW item \in seen'[v]
          PROVE  run[item[2]] # "waiting" /\ Stale(item[2])
      <4>1. CASE v = w
        <5>1. PICK t \in States : /\ lock[t] # Free /\ Stale(lock[t])
                                  /\ item = <<t, lock[t]>>
          BY <2>1, <3>1, <4>1 DEF Scan
        <5> QED
          BY <5>1 DEF Started
      <4>2. CASE v # w
        BY <2>1, <3>1, <4>2 DEF Scan, CondemnedIsStale
      <4> QED
        BY <4>1, <4>2
    <3>2. CondemnedIsStale'
      BY <2>1, <3>1 DEF Scan, CondemnedIsStale
    <3> QED
      BY <2>1, <1>0, <3>2 DEF Scan, Started, YoungOwns
  <2>2. CASE Remove(w)
    <3>1. PICK item \in seen[w] :
            /\ lock' = [lock EXCEPT ![item[1]] = IF @ = item[2] THEN Free ELSE @]
            /\ seen' = [seen EXCEPT ![w] = @ \ {item}]
            /\ UNCHANGED <<run, target, held>>
      BY <2>2 DEF Remove
    <3>2. Started'
      BY <3>1 DEF Started
    <3>3. CondemnedIsStale'
      BY <3>1 DEF CondemnedIsStale
    <3>4. Stale(item[2])
      BY DEF CondemnedIsStale
    <3>5. YoungOwns'
      BY <3>1, <3>4 DEF YoungOwns
    <3> QED
      BY <1>0, <3>2, <3>3, <3>5
  <2>3. CASE SweepDies(w)
    BY <2>3, <1>0 DEF SweepDies, Started, CondemnedIsStale, YoungOwns
  <2> QED
    BY <1>3, <2>1, <2>2, <2>3 DEF Sweep
<1>4. CASE UNCHANGED vars
  BY <1>4, <1>0 DEF vars, Started, CondemnedIsStale, YoungOwns
<1> QED
  BY <1>1, <1>2, <1>3, <1>4 DEF Next

(* The clock stops at the limit of a job that still runs, and a lock is     *)
(* created with age zero.                                                   *)
LEMMA LimitStep == TypeOK /\ WithinLimit /\ [Next]_vars => WithinLimit'
<1> SUFFICES ASSUME TypeOK, WithinLimit, [Next]_vars PROVE WithinLimit'
  OBVIOUS
<1> USE DEF TypeOK, WithinLimit, Critical
<1>1. CASE Tick
  BY <1>1 DEF Tick, MaxHeld
<1>2. ASSUME NEW r \in Runs, Acquire(r) \/ AcquireFails(r) \/ Finish(r)
      PROVE  WithinLimit'
  BY <1>2 DEF Acquire, AcquireFails, Finish, Release, Kill
<1>3. ASSUME NEW w \in Sweepers, Sweep(w) \/ SweepDies(w)
      PROVE  WithinLimit'
  BY <1>3 DEF Sweep, Scan, Remove, SweepDies
<1>4. CASE UNCHANGED vars
  BY <1>4 DEF vars
<1> QED
  BY <1>1, <1>2, <1>3, <1>4 DEF Next

(* The strengthening and the job limit hold in every reachable state.       *)
THEOREM LockSafety == Spec => [](LockInv /\ WithinLimit)
<1>1. LockInv /\ WithinLimit /\ [Next]_vars => (LockInv /\ WithinLimit)'
  BY LockStep, LimitStep DEF LockInv
<1> QED
  BY LockInit, <1>1, PTL DEF Spec

(* Every variable has its type, whoever runs and breaks which lock.         *)
THEOREM LockTypes == Spec => []TypeOK
<1>1. LockInv => TypeOK
  BY DEF LockInv
<1> QED
  BY LockSafety, <1>1, PTL

(* Whatever the limits are, two commands share a state only if one of them  *)
(* has outlived MAX_LOCK_AGE_MINUTES or has a lock that cannot be dated:    *)
(* that scan and delete are two steps costs no other command its lock.      *)
THEOREM SweepBreaksOnlyStale == Spec => []ExclusiveUnlessStale
<1>1. LockInv => ExclusiveUnlessStale
  BY DEF LockInv, TypeOK, YoungOwns, ExclusiveUnlessStale
<1> QED
  BY LockSafety, <1>1, PTL

(* Jobs that are stopped before the age limit of the sweep and whose locks  *)
(* it can date never look stale: among them the lock is a lock, whatever    *)
(* operators do.                                                            *)
THEOREM JobsExclude ==
    ASSUME JobLimit <= StaleAfter
    PROVE  Spec => []JobsExclusive
<1>1. LockInv /\ WithinLimit => JobsExclusive
  BY DEF LockInv, TypeOK, YoungOwns, WithinLimit, JobsExclusive, Critical, Stale,
         MaxHeld
<1> QED
  BY LockSafety, <1>1, PTL

(* Under the same limits no step, of the sweep, of another job or of an     *)
(* operator, takes the lock of a running job away.                          *)
THEOREM SweepSparesJobs ==
    ASSUME JobLimit <= StaleAfter
    PROVE  Spec => JobsKeepLock
<1>1. /\ LockInv /\ WithinLimit /\ (LockInv /\ WithinLimit)' /\ [Next]_vars
      => [\A r \in CI \ Undated :
            (Critical(r) /\ Critical(r)' /\ lock[target[r]] = r)
            => lock'[target[r]] = r]_vars
  <2> SUFFICES ASSUME LockInv', WithinLimit', [Next]_vars,
                      NEW r \in CI \ Undated, Critical(r)'
               PROVE  lock'[target[r]] = r
    OBVIOUS
  <2>1. target' = target
    BY DEF Next, vars, Tick, Acquire, AcquireFails, Finish, Release, Kill,
           Sweep, Scan, Remove, SweepDies
  <2>2. ~Stale(r)'
    BY DEF LockInv, TypeOK, WithinLimit, Critical, Stale, MaxHeld
  <2> QED
    BY <2>1, <2>2 DEF LockInv, YoungOwns
<1> QED
  BY LockSafety, <1>1, PTL DEF Spec, JobsKeepLock
=============================================================================
