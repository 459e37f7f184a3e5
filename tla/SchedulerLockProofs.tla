------------------------ MODULE SchedulerLockProofs ------------------------
(***************************************************************************)
(* Proofs about SchedulerLock: type correctness, the bound on a dead       *)
(* holder's lease on either store, and mutual exclusion on the asyncpg     *)
(* store for any number of processes, any interval and any clock bound.    *)
(***************************************************************************)
EXTENDS SchedulerLock, TLAPS

\* Every variable of the scheduler's lock keeps its type, on either store and
\* whatever the processes do (acquire_scheduler_lock, release_scheduler_lock).
THEOREM TypeCorrect == Spec => []TypeOK
<1>1. Init => TypeOK
  BY BoundsAssumption DEF Init, TypeOK, PCs, Null
<1>2. TypeOK /\ [Next]_vars => TypeOK'
  <2> SUFFICES ASSUME TypeOK, [Next]_vars PROVE TypeOK'
    OBVIOUS
  <2> USE IntervalAssumption, BoundsAssumption DEF TypeOK, PCs, Null, deployment
  <2>1. CASE Tick
    BY <2>1 DEF Tick
  <2>2. CASE ClockAtBound
    BY <2>2 DEF ClockAtBound, vars, deployment
  <2>3. ASSUME NEW w \in Workers, CheckLastRun(w) PROVE TypeOK'
    BY <2>3 DEF CheckLastRun
  <2>4. ASSUME NEW w \in Workers, AcquireWin(w) PROVE TypeOK'
    BY <2>4 DEF AcquireWin
  <2>5. ASSUME NEW w \in Workers, AcquireLose(w) PROVE TypeOK'
    BY <2>5 DEF AcquireLose
  <2>6. ASSUME NEW w \in Workers, AcquireRead(w) PROVE TypeOK'
    BY <2>6 DEF AcquireRead
  <2>7. ASSUME NEW w \in Workers, AcquireWrite(w) PROVE TypeOK'
    BY <2>7 DEF AcquireWrite
  <2>8. ASSUME NEW w \in Workers, TaskEnds(w) PROVE TypeOK'
    BY <2>8 DEF TaskEnds
  <2>9. ASSUME NEW w \in Workers, Release(w) PROVE TypeOK'
    BY <2>9 DEF Release
  <2>10. ASSUME NEW w \in Workers, Restart(w) PROVE TypeOK'
    BY <2>10 DEF Restart
  <2>11. ASSUME NEW w \in Workers, Crash(w) PROVE TypeOK'
    BY <2>11 DEF Crash
  <2>12. CASE UNCHANGED vars
    BY <2>12 DEF vars, deployment
  <2> QED
    BY <2>1, <2>2, <2>3, <2>4, <2>5, <2>6, <2>7, <2>8, <2>9, <2>10, <2>11,
       <2>12 DEF Next, Steps
<1> QED
  BY <1>1, <1>2, PTL DEF Spec

\* Whatever the store, no lease ends more than one interval from now, so a
\* process that dies while holding the lock blocks the task for one interval
\* at most (locked_until, acquire_scheduler_lock).
THEOREM LeaseIsBounded == Spec => []LeaseBounded
<1>1. Init => BoundInv
  BY IntervalAssumption, BoundsAssumption
  DEF Init, BoundInv, LeaseBounded, TypeOK, PCs, Null
<1>2. TypeOK' /\ BoundInv /\ [Next]_vars => BoundInv'
  <2> SUFFICES ASSUME TypeOK', BoundInv, [Next]_vars PROVE BoundInv'
    OBVIOUS
  <2> USE IntervalAssumption, BoundsAssumption
      DEF BoundInv, LeaseBounded, TypeOK, Null, deployment
  <2>1. CASE Tick
    BY <2>1 DEF Tick
  <2>2. CASE ClockAtBound
    BY <2>2 DEF ClockAtBound, vars, deployment
  <2>3. ASSUME NEW w \in Workers, CheckLastRun(w) PROVE BoundInv'
    BY <2>3 DEF CheckLastRun
  <2>4. ASSUME NEW w \in Workers, AcquireWin(w) PROVE BoundInv'
    BY <2>4 DEF AcquireWin
  <2>5. ASSUME NEW w \in Workers, AcquireWrite(w) PROVE BoundInv'
    BY <2>5 DEF AcquireWrite
  <2>6. ASSUME NEW w \in Workers, Release(w) PROVE BoundInv'
    BY <2>6 DEF Release
  <2>7. ASSUME NEW w \in Workers,
               \/ AcquireLose(w) \/ AcquireRead(w) \/ TaskEnds(w)
               \/ Restart(w) \/ Crash(w)
        PROVE BoundInv'
    BY <2>7 DEF AcquireLose, AcquireRead, TaskEnds, Restart, Crash
  <2>8. CASE UNCHANGED vars
    BY <2>8 DEF vars, deployment
  <2> QED
    BY <2>1, <2>2, <2>3, <2>4, <2>5, <2>6, <2>7, <2>8 DEF Next, Steps
<1>3. BoundInv => LeaseBounded
  BY DEF BoundInv
<1> QED
  BY <1>1, <1>2, <1>3, TypeCorrect, PTL DEF Spec

\* On the asyncpg store, where the test of the lease and its renewal are one
\* UPDATE, two processes never run the task together provided that a live
\* holder finishes within its lease (_try_run_task: "using Postgres lock to
\* prevent overlap").
THEOREM AsyncpgExclusion == Spec => []MutualExclusion
<1>1. Init => LeaseInv
  BY BoundsAssumption
  DEF Init, LeaseInv, MutualExclusion, Holding, TypeOK, PCs, Null
<1>2. TypeOK' /\ LeaseInv /\ [Next]_vars => LeaseInv'
  <2> SUFFICES ASSUME TypeOK', LeaseInv, [Next]_vars PROVE LeaseInv'
    OBVIOUS
  <2> USE IntervalAssumption, BoundsAssumption
      DEF LeaseInv, MutualExclusion, Holding, LeaseEnd, TypeOK, Null, deployment
  <2>1. CASE Tick
    BY <2>1 DEF Tick
  <2>2. CASE ClockAtBound
    BY <2>2 DEF ClockAtBound, vars, deployment
  <2>3. ASSUME NEW w \in Workers, CheckLastRun(w) PROVE LeaseInv'
    BY <2>3 DEF CheckLastRun
  <2>4. ASSUME NEW w \in Workers, AcquireWin(w) PROVE LeaseInv'
    <3>1. fitsLease => \A v \in Workers : ~Holding(v)
      BY <2>4 DEF AcquireWin, LeaseOver
    <3> QED
      BY <2>4, <3>1 DEF AcquireWin
  <2>5. ASSUME NEW w \in Workers, AcquireLose(w) PROVE LeaseInv'
    BY <2>5 DEF AcquireLose
  <2>6. ASSUME NEW w \in Workers, AcquireRead(w) PROVE LeaseInv'
    BY <2>6 DEF AcquireRead
  <2>7. ASSUME NEW w \in Workers, AcquireWrite(w) PROVE LeaseInv'
    BY <2>7 DEF AcquireWrite
  <2>8. ASSUME NEW w \in Workers, TaskEnds(w) PROVE LeaseInv'
    BY <2>8 DEF TaskEnds
  <2>9. ASSUME NEW w \in Workers, Release(w) PROVE LeaseInv'
    <3>1. backend = "asyncpg" /\ fitsLease => \A v \in Workers : v # w => ~Holding(v)
      BY <2>9 DEF Release
    <3> QED
      BY <2>9, <3>1 DEF Release
  <2>10. ASSUME NEW w \in Workers, Restart(w) PROVE LeaseInv'
    BY <2>10 DEF Restart
  <2>11. ASSUME NEW w \in Workers, Crash(w) PROVE LeaseInv'
    BY <2>11 DEF Crash
  <2>12. CASE UNCHANGED vars
    BY <2>12 DEF vars, deployment
  <2> QED
    BY <2>1, <2>2, <2>3, <2>4, <2>5, <2>6, <2>7, <2>8, <2>9, <2>10, <2>11,
       <2>12 DEF Next, Steps
<1>3. LeaseInv => MutualExclusion
  BY DEF LeaseInv
<1> QED
  BY <1>1, <1>2, <1>3, TypeCorrect, PTL DEF Spec

============================================================================
