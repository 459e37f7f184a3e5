--------------------------- MODULE SchedulerLock ---------------------------
(***************************************************************************)
(* The lease that keeps the background scheduler's periodic tasks from     *)
(* overlapping.  Every API process runs TaskScheduler                      *)
(* (src/src/workers/scheduler.py); the processes share one row per task of *)
(* the table scheduler_locks (src/src/databases/pg_store.py), whose        *)
(* columns are locked_until and last_run_at.  This module follows one      *)
(* task, so one row.                                                       *)
(*                                                                         *)
(* The store has two implementations of acquire_scheduler_lock: on asyncpg *)
(* one conditional UPDATE, on the Supabase client a SELECT followed by an  *)
(* unconditional UPDATE.  The variable backend says which one is deployed. *)
(***************************************************************************)
EXTENDS Integers

CONSTANTS
  Workers,     \* processes that run the scheduler loop
  Interval,    \* interval_seconds of the task: also the lease's ttl_seconds
  Backends,    \* the stores to consider, of "asyncpg" and "supabase"
  MaxTime,     \* bound on the clock
  MaxCrashes   \* bound on the number of process crashes

ASSUME IntervalAssumption == Interval \in Nat \ {0}
ASSUME BackendsAssumption == Backends \subseteq {"asyncpg", "supabase"}
ASSUME BoundsAssumption == MaxTime \in Nat /\ MaxCrashes \in Nat

Null == -1   \* SQL NULL in locked_until or last_run_at

VARIABLES
  backend,      \* the store, which never changes
  fitsLease,    \* whether a live holder finishes before its lease runs out
  now,          \* the database's NOW(); processes read the same clock
  lockedUntil,  \* scheduler_locks.locked_until
  lastRun,      \* scheduler_locks.last_run_at
  pc,           \* where each process is in _try_run_task
  asOf,         \* the instant a process's lease is counted from
  crashes       \* crashes so far

deployment == <<backend, fitsLease>>
vars == <<deployment, now, lockedUntil, lastRun, pc, asOf, crashes>>

PCs == {"idle", "due", "read", "running", "releasing", "down"}

TypeOK ==
  /\ backend \in Backends /\ fitsLease \in BOOLEAN
  /\ now \in 0..MaxTime
  /\ lockedUntil \in {Null} \cup Nat
  /\ lastRun \in {Null} \cup Nat
  /\ pc \in [Workers -> PCs]
  /\ asOf \in [Workers -> 0..MaxTime]
  /\ crashes \in 0..MaxCrashes

Init ==
  /\ backend \in Backends /\ fitsLease \in BOOLEAN
  /\ now = 0
  /\ lockedUntil = Null
  /\ lastRun = Null
  /\ pc = [w \in Workers |-> "idle"]
  /\ asOf = [w \in Workers |-> 0]
  /\ crashes = 0

----------------------------------------------------------------------------
(* One pass of _try_run_task *)

IntervalElapsed == lastRun = Null \/ now - lastRun >= Interval

\* Mutants of LeaseOver: a lease is over at its last instant; a lease never ends.
LeaseOverEarly == lockedUntil = Null \/ lockedUntil <= now
LeaseOverOnRelease == lockedUntil = Null

LeaseOver == lockedUntil = Null \/ lockedUntil < now

\* get_scheduler_last_run, the elapsed test, and datetime.now() at the head
\* of acquire_scheduler_lock.  When the interval has not elapsed the pass
\* returns with nothing changed.
CheckLastRun(w) ==
  /\ pc[w] = "idle"
  /\ IntervalElapsed
  /\ pc' = [pc EXCEPT ![w] = "due"]
  /\ asOf' = [asOf EXCEPT ![w] = now]
  /\ UNCHANGED <<deployment, now, lockedUntil, lastRun, crashes>>

\* Mutant of AcquireWin: the lease is counted backwards.
AcquireWinExpired(w) ==
  /\ backend = "asyncpg"
  /\ pc[w] = "due"
  /\ LeaseOver
  /\ lockedUntil' = now - Interval
  /\ lastRun' = now
  /\ pc' = [pc EXCEPT ![w] = "running"]
  /\ asOf' = [asOf EXCEPT ![w] = now]
  /\ UNCHANGED <<deployment, now, crashes>>

\* asyncpg: UPDATE ... WHERE locked_until IS NULL OR locked_until < NOW()
\* reports "UPDATE 1" ...
AcquireWin(w) ==
  /\ backend = "asyncpg"
  /\ pc[w] = "due"
  /\ LeaseOver
  /\ lockedUntil' = now + Interval
  /\ lastRun' = now
  /\ pc' = [pc EXCEPT ![w] = "running"]
  /\ asOf' = [asOf EXCEPT ![w] = now]
  /\ UNCHANGED <<deployment, now, crashes>>

\* ... or "UPDATE 0", and the pass returns.
AcquireLose(w) ==
  /\ backend = "asyncpg"
  /\ pc[w] = "due"
  /\ ~LeaseOver
  /\ pc' = [pc EXCEPT ![w] = "idle"]
  /\ UNCHANGED <<deployment, now, lockedUntil, lastRun, asOf, crashes>>

\* Supabase: SELECT locked_until, compared with the instant captured before.
AcquireRead(w) ==
  /\ backend = "supabase"
  /\ pc[w] = "due"
  /\ pc' = [pc EXCEPT ![w] = IF lockedUntil > asOf[w] THEN "idle" ELSE "read"]
  /\ UNCHANGED <<deployment, now, lockedUntil, lastRun, asOf, crashes>>

\* Mutant of AcquireWrite: the new lease is appended to the old one.
AcquireWriteExtend(w) ==
  /\ pc[w] = "read"
  /\ lockedUntil' = (IF lockedUntil = Null THEN asOf[w] ELSE lockedUntil) + Interval
  /\ lastRun' = asOf[w]
  /\ pc' = [pc EXCEPT ![w] = "running"]
  /\ UNCHANGED <<deployment, now, asOf, crashes>>

\* Supabase: the UPDATE, which repeats no condition, then return True.
AcquireWrite(w) ==
  /\ pc[w] = "read"
  /\ lockedUntil' = asOf[w] + Interval
  /\ lastRun' = asOf[w]
  /\ pc' = [pc EXCEPT ![w] = "running"]
  /\ UNCHANGED <<deployment, now, asOf, crashes>>

\* task.func() returns or raises: both lead to the finally clause.
TaskEnds(w) ==
  /\ pc[w] = "running"
  /\ pc' = [pc EXCEPT ![w] = "releasing"]
  /\ UNCHANGED <<deployment, now, lockedUntil, lastRun, asOf, crashes>>

\* release_scheduler_lock: UPDATE ... SET locked_until = NULL, whoever holds it.
Release(w) ==
  /\ pc[w] = "releasing"
  /\ lockedUntil' = Null
  /\ pc' = [pc EXCEPT ![w] = "idle"]
  /\ UNCHANGED <<deployment, now, lastRun, asOf, crashes>>

----------------------------------------------------------------------------
(* The environment *)

Crash(w) ==
  /\ pc[w] # "down"
  /\ crashes < MaxCrashes
  /\ crashes' = crashes + 1
  /\ pc' = [pc EXCEPT ![w] = "down"]
  /\ UNCHANGED <<deployment, now, lockedUntil, lastRun, asOf>>

Restart(w) ==
  /\ pc[w] = "down"
  /\ pc' = [pc EXCEPT ![w] = "idle"]
  /\ UNCHANGED <<deployment, now, lockedUntil, lastRun, asOf, crashes>>

Holding(w) == pc[w] \in {"running", "releasing"}

LeaseEnd(w) == asOf[w] + Interval

Tick ==
  /\ now < MaxTime
  /\ fitsLease => \A w \in Workers : Holding(w) => now < LeaseEnd(w)
  /\ now' = now + 1
  /\ UNCHANGED <<deployment, lockedUntil, lastRun, pc, asOf, crashes>>

----------------------------------------------------------------------------

Steps(w) ==
  \/ CheckLastRun(w) \/ AcquireWin(w) \/ AcquireLose(w) \/ AcquireRead(w)
  \/ AcquireWrite(w) \/ TaskEnds(w) \/ Release(w) \/ Restart(w)

\* The bounded clock has no more instants; before that the model never stops.
ClockAtBound == now = MaxTime /\ UNCHANGED vars

Next ==
  \/ Tick
  \/ ClockAtBound
  \/ \E w \in Workers : Steps(w) \/ Crash(w)

Spec == Init /\ [][Next]_vars

\* The event loop resumes every ready coroutine and the supervisor restarts a
\* dead process; nothing makes a process crash.
Fairness == WF_vars(Tick) /\ \A w \in Workers : WF_vars(Steps(w))

----------------------------------------------------------------------------
(* Properties *)

\* Where the test of the lease and its renewal are one UPDATE, and a live holder
\* is done within its lease, two processes never run the task at the same time:
\* "using Postgres lock to prevent overlap" (_try_run_task).
MutualExclusion ==
  backend = "asyncpg" /\ fitsLease =>
    \A v, w \in Workers : Holding(v) /\ Holding(w) => v = w

\* A crashed holder blocks the task for one interval at most, because no
\* process ever writes a longer lease.
LeaseBounded == lockedUntil <= now + Interval

\* The inductive strengthening of MutualExclusion on the asyncpg store.  The
\* row carries exactly the lease of the process that holds it, and that lease
\* is not over: so LeaseOver, tested in the same statement that writes the new
\* lease, is false as long as somebody holds the lock.
LeaseInv ==
  /\ TypeOK
  /\ backend = "asyncpg" /\ fitsLease =>
       \A w \in Workers :
         /\ pc[w] # "read"
         /\ Holding(w) => lockedUntil = LeaseEnd(w) /\ now <= LeaseEnd(w)
  /\ MutualExclusion

\* The strengthening of LeaseBounded: no process counts a lease from the future.
BoundInv ==
  /\ TypeOK
  /\ \A w \in Workers : asOf[w] <= now
  /\ LeaseBounded

\* The task is started again after every instant, crashes of the holder
\* notwithstanding, as far as the bounded clock lets it: one interval for the
\* dead holder's lease, one for last_run_at.
KeepsRunning ==
  \A t \in 0..MaxTime - 2 * Interval - 1 : now = t ~> lastRun > t

============================================================================
