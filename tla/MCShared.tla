------------------------------ MODULE MCShared ------------------------------
(* Instances for TLC of what callers share: the scheduler's lease, the request *)
(* functions of the front ends, and the circuit breakers. They share nothing   *)
(* with each other, so one of them runs and the others stay as they are.       *)
EXTENDS SchedulerLock, ApiClient, Breaker, TLC

CONSTANTS g1, g2, p1, list, act

\* Two reads of one endpoint and one mutation.
TwoReads == (g1 :> list) @@ (g2 :> list) @@ (p1 :> act)

VARIABLE part   \* which one runs

sharedVars == <<vars, apiVars, breakerVars, part>>

Parts == {"lease", "api", "breaker"}

\* The initial state of a part that does not run: one of its deployments, at rest.
SharedInit ==
  /\ part \in Parts
  /\ Init        /\ (part # "lease" => backend = "asyncpg" /\ fitsLease)
  /\ ApiInit     /\ (part # "api" => client = "web")
  /\ BreakerInit /\ (part # "breaker" => kind = "gov")

Others(p) ==
  /\ p # "lease"   => UNCHANGED vars
  /\ p # "api"     => UNCHANGED apiVars
  /\ p # "breaker" => UNCHANGED breakerVars
  /\ part' = p

SharedNext ==
  \/ part = "lease"   /\ Next        /\ Others("lease")
  \/ part = "api"     /\ ApiNext     /\ Others("api")
  \/ part = "breaker" /\ BreakerNext /\ Others("breaker")

\* The fairness of each part: that of the lease holds where the lease runs, because
\* the clock and the schedulers of the others could go on.
LeaseFairness ==
  /\ WF_vars(part = "lease" /\ Tick)
  /\ \A w \in Workers : WF_vars(part = "lease" /\ Steps(w))

SharedSpec ==
  /\ SharedInit /\ [][SharedNext]_sharedVars
  /\ LeaseFairness /\ ApiFairness /\ BreakerFairness

\* Types of the three parts.
SharedTypeOK == TypeOK /\ ApiTypeOK /\ BreakerTypeOK

\* Where schedulers run, the task is started again after every instant, crashes of
\* its holder notwithstanding (KeepsRunning of SchedulerLock: _try_run_task).
TaskKeepsRunning == part = "lease" => KeepsRunning

\* Whoever calls goes on: every call of a page is answered in the end (apiFetch), and
\* no breaker that has opened shuts its callers out for good (before_request).
CallersGoOn == EveryCallSettles /\ Reopens

=============================================================================
