------------------------------ MODULE StateLock ------------------------------
(***************************************************************************)
(* The Terraform lock table and scripts/ci/tf_state_lock_check.sh.         *)
(*                                                                         *)
(* Terraform commands (runs) take the DynamoDB lock of the state they      *)
(* write.  The check, which every job runs before its own terraform and    *)
(* which therefore runs at any moment of the commands of other jobs, scans *)
(* the table and removes the locks older than MAX_LOCK_AGE_MINUTES, or     *)
(* whose age it cannot tell.                                               *)
(*                                                                         *)
(* Time is counted in ticks; a run of CI lives at most JobLimit of them    *)
(* (timeout-minutes), one of an operator as long as it likes.              *)
(***************************************************************************)
EXTENDS Integers, FiniteSets

CONSTANTS
    States,      \* Terraform states sharing the lock table
    Runs,        \* terraform commands, each with a lock ID of its own
    CI,          \* those that a workflow job runs
    Undated,     \* those whose lock has no Created time that the check parses
    Sweepers,    \* executions of tf_state_lock_check.sh
    StaleAfter,  \* MAX_LOCK_AGE_MINUTES, in ticks
    JobLimit,    \* timeout-minutes of a job, in ticks
    Free         \* no lock item

ASSUME LockAssumption ==
    /\ CI \subseteq Runs
    /\ Undated \subseteq Runs
    /\ StaleAfter \in Nat
    /\ JobLimit \in Nat
    /\ Free \notin Runs

VARIABLES
    lock,     \* [state -> the run whose ID its lock item carries, or Free]
    run,      \* [run -> its phase]
    target,   \* [run -> the state it works on]
    held,     \* [run -> ticks since its lock was created]
    seen      \* [sweeper -> locks judged STALE and not yet dealt with]

vars == <<lock, run, target, held, seen>>

MaxHeld == StaleAfter + 1   \* ages above this one are not told apart

Init ==
    /\ lock = [s \in States |-> Free]
    /\ run = [r \in Runs |-> "waiting"]
    /\ target \in [Runs -> States]
    /\ held = [r \in Runs |-> 0]
    /\ seen = [w \in Sweepers |-> {}]

(* The state is being read or written under the lock.                      *)
Critical(r) == run[r] = "holding"

(* Every lock grows older; a CI run at its limit is stopped first.         *)
Tick ==
    /\ \A r \in CI : Critical(r) => held[r] < JobLimit
    /\ held' = [r \in Runs |->
                  IF run[r] \in {"holding", "killed"} /\ held[r] < MaxHeld
                  THEN held[r] + 1 ELSE held[r]]
    /\ UNCHANGED <<lock, run, target, seen>>

(* Terraform creates the lock item if there is none, else gives up.        *)
Acquire(r) ==
    /\ run[r] = "waiting"
    /\ lock[target[r]] = Free
    /\ lock' = [lock EXCEPT ![target[r]] = r]
    /\ run' = [run EXCEPT ![r] = "holding"]
    /\ held' = [held EXCEPT ![r] = 0]
    /\ UNCHANGED <<target, seen>>

AcquireFails(r) ==
    /\ run[r] = "waiting"
    /\ lock[target[r]] # Free
    /\ run' = [run EXCEPT ![r] = "failed"]
    /\ UNCHANGED <<lock, target, held, seen>>

(* Terraform writes the state and removes the lock item if it still        *)
(* carries the ID of this run; otherwise unlocking is an error.            *)
Release(r) ==
    /\ Critical(r)
    /\ lock' = [lock EXCEPT ![target[r]] = IF @ = r THEN Free ELSE @]
    /\ run' = [run EXCEPT ![r] = IF lock[target[r]] = r THEN "done" ELSE "failed"]
    /\ UNCHANGED <<target, held, seen>>

(* The runner dies or the job is cancelled: the lock item stays.           *)
Kill(r) ==
    /\ Critical(r)
    /\ run' = [run EXCEPT ![r] = "killed"]
    /\ UNCHANGED <<lock, target, held, seen>>

(* Mistake: the age is compared the wrong way round.                       *)
StaleIfYoung(r) == held[r] < StaleAfter

(* A lock of unknown age is STALE from its first moment.                   *)
Stale(r) == r \in Undated \/ held[r] > StaleAfter

(* The scan of the whole table.                                            *)
Scan(w) ==
    /\ seen[w] = {}
    /\ seen' = [seen EXCEPT ![w] =
                  {<<s, lock[s]>> : s \in {t \in States :
                                             lock[t] # Free /\ Stale(lock[t])}}]
    /\ UNCHANGED <<lock, run, target, held>>

(* Mistake: the delete has no condition.                                   *)
RemoveAnyway(w) ==
    \E item \in seen[w] :
        /\ lock' = [lock EXCEPT ![item[1]] = Free]
        /\ seen' = [seen EXCEPT ![w] = @ \ {item}]
        /\ UNCHANGED <<run, target, held>>

(* delete-item --condition-expression "Info = :expected_info": only while  *)
(* the item is the one that was scanned.                                   *)
Remove(w) ==
    \E item \in seen[w] :
        LET s == item[1] IN
        /\ lock' = [lock EXCEPT ![s] = IF @ = item[2] THEN Free ELSE @]
        /\ seen' = [seen EXCEPT ![w] = @ \ {item}]
        /\ UNCHANGED <<run, target, held>>

(* The job running the check is cancelled: the rest is not dealt with.     *)
SweepDies(w) ==
    /\ seen[w] # {}
    /\ seen' = [seen EXCEPT ![w] = {}]
    /\ UNCHANGED <<lock, run, target, held>>

Sweep(w) == Scan(w) \/ Remove(w)
Finish(r) == Release(r) \/ Kill(r)

Next ==
    \/ Tick
    \/ \E r \in Runs : Acquire(r) \/ AcquireFails(r) \/ Finish(r)
    \/ \E w \in Sweepers : Sweep(w) \/ SweepDies(w)

(* Time passes, a run does not hold its lock for ever, and jobs that run   *)
(* the check to its end keep coming.                                       *)
Fairness ==
    /\ WF_vars(Tick)
    /\ \A r \in Runs : WF_vars(Finish(r))
    /\ \A w \in Sweepers : WF_vars(Scan(w)) /\ SF_vars(Remove(w))

Spec == Init /\ [][Next]_vars /\ Fairness
-----------------------------------------------------------------------------
TypeOK ==
    /\ lock \in [States -> Runs \cup {Free}]
    /\ run \in [Runs -> {"waiting", "holding", "killed", "done", "failed"}]
    /\ target \in [Runs -> States]
    /\ held \in [Runs -> 0..MaxHeld]
    /\ seen \in [Sweepers -> SUBSET (States \X Runs)]

(* Two commands are inside the same state only if one of them has been     *)
(* there for longer than MAX_LOCK_AGE_MINUTES or has a lock of unknown     *)
(* age: the sweep, scan and delete apart, breaks no other lock.            *)
ExclusiveUnlessStale ==
    \A q, r \in Runs :
        (q # r /\ Critical(q) /\ Critical(r) /\ target[q] = target[r])
        => Stale(q) \/ Stale(r)

(* Two jobs are never inside the same state, operators whose locks the     *)
(* check breaks or not, if the check can date their locks.                 *)
JobsExclusive ==
    \A q, r \in CI \ Undated :
        (q # r /\ Critical(q) /\ Critical(r)) => target[q] # target[r]

(* No step takes the lock of a running job away, if the check can date it. *)
JobsKeepLock ==
    [][\A r \in CI \ Undated :
         (Critical(r) /\ Critical(r)' /\ lock[target[r]] = r)
         => lock'[target[r]] = r]_vars

(* "conditional delete -- safe against active runs": no step takes the     *)
(* lock of a running command away, whoever runs it.                        *)
SafeAgainstActiveRuns ==
    [][\A r \in Runs : (Critical(r) /\ Critical(r)' /\ lock[target[r]] = r)
                       => lock'[target[r]] = r]_vars

(* The lock of a run that died does not block its state for ever.          *)
AbandonedLockFreed ==
    \A s \in States, r \in Runs :
        (lock[s] = r /\ run[r] = "killed") ~> lock[s] # r
=============================================================================
