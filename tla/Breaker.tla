------------------------------ MODULE Breaker ------------------------------
(***************************************************************************)
(* The two circuit breakers of the backend, each with the callers that     *)
(* share it: "gov" is the one of the government data client                *)
(* (src/src/integrations/gov/circuit.py, used by client.py: _post), "llm"  *)
(* the one that every agent of a process asks before it calls the LLM      *)
(* (src/src/agents/base.py).  They are written twice and differ in when    *)
(* they stamp a failure, in what a success clears, and in that a refused   *)
(* LLM call is itself retried.  The variable kind says which one runs.     *)
(***************************************************************************)
EXTENDS Integers, FiniteSets

CONSTANTS
  Callers,     \* threads or coroutines that make calls
  Kinds,       \* the breakers to consider, of "gov" and "llm"
  Threshold,   \* fail_threshold, failure_threshold
  Cooldown,    \* cooldown_sec, recovery_timeout
  Attempts     \* stop_after_attempt of _call_llm and _call_llm_structured

ASSUME BreakerConstants ==
  /\ Kinds \subseteq {"gov", "llm"}
  /\ Threshold \in Nat \ {0} /\ Cooldown \in Nat /\ Attempts \in Nat \ {0}

Never == -1

VARIABLES
  kind,       \* the breaker, which never changes
  state,      \* _state
  failures,   \* _failures, _failure_count; only its comparison with Threshold
              \* matters, so that it stops there
  age,        \* the time since _opened_at, _last_failure_time; it stops at Cooldown
  says,       \* what each caller was last told, or how its call was admitted
  tries       \* attempts of the call a caller is making, 0 when it makes none

breaker == <<kind, state, failures, age>>
breakerVars == <<breaker, says, tries>>

Calling == {"admitted", "probing"}
Words == Calling \cup {"none", "ok", "failed", "refused", "untold"}

BreakerTypeOK ==
  /\ kind \in Kinds
  /\ state \in {"closed", "open", "half"}
  /\ failures \in 0 .. Threshold
  /\ age \in {Never} \cup 0 .. Cooldown
  /\ says \in [Callers -> Words]
  /\ tries \in [Callers -> 0 .. Attempts]

BreakerInit ==
  /\ kind \in Kinds
  /\ state = "closed" /\ failures = 0 /\ age = Never
  /\ says = [c \in Callers |-> "none"]
  /\ tries = [c \in Callers |-> 0]

\* Mutant of Seen: the cooldown ends one unit of time early.
SeenEarly == IF state = "open" /\ age >= Cooldown - 1 THEN "half" ELSE state

\* _current_state, is_open: an open breaker whose cooldown has passed is half-open,
\* from the next time that somebody looks.
Seen == IF state = "open" /\ age = Cooldown THEN "half" ELSE state

Tell(c, word) == says' = [says EXCEPT ![c] = word]

\* A call starts, or comes back from its backoff.
MayAsk(c) == says[c] \notin Calling /\ (kind = "llm" \/ tries[c] = 0)

\* allow_request, is_open: whoever looks at a breaker that is not open goes on, and
\* in a half-open one everybody does.
Admit(c) ==
  /\ MayAsk(c) /\ Seen # "open"
  /\ state' = Seen
  /\ Tell(c, IF Seen = "half" THEN "probing" ELSE "admitted")
  /\ tries' = [tries EXCEPT ![c] = @ + 1]
  /\ UNCHANGED <<kind, failures, age>>

\* Mutant of Again: one attempt too many.
AgainOnce(n) == IF kind = "llm" /\ n > Attempts THEN 0 ELSE n

\* An attempt that did not work is repeated after a backoff, until there were Attempts.
Again(n) == IF kind = "llm" /\ n = Attempts THEN 0 ELSE n

\* Mutant of Refuse: a refusal is stamped like a failure, so that polling keeps it shut.
RefuseStamped(c) ==
  /\ MayAsk(c) /\ Seen = "open"
  /\ age' = 0
  /\ Tell(c, "refused")
  /\ tries' = [tries EXCEPT ![c] = Again(@ + 1)]
  /\ UNCHANGED <<kind, state, failures>>

\* A refusal tells the breaker nothing.  The LLM's is a ConnectionError, one of the
\* errors that are retried; the other client has its message still to write.
Refuse(c) ==
  /\ MayAsk(c) /\ Seen = "open"
  /\ Tell(c, "refused")
  /\ tries' = [tries EXCEPT ![c] = Again(@ + 1)]
  /\ UNCHANGED breaker

\* The message of CircuitOpenError reads the state a second time.
Report(c) ==
  /\ kind = "gov" /\ says[c] = "refused" /\ tries[c] > 0
  /\ state' = Seen
  /\ tries' = [tries EXCEPT ![c] = 0]
  /\ UNCHANGED <<kind, failures, age, says>>

\* Mutant of Succeed: the failures are not forgotten.
SucceedCounting(c) ==
  /\ says[c] \in Calling
  /\ state' = "closed"
  /\ age' = IF kind = "gov" THEN Never ELSE age
  /\ Tell(c, "ok")
  /\ tries' = [tries EXCEPT ![c] = 0]
  /\ UNCHANGED <<kind, failures>>

\* record_success: only the government client's forgets the stamp.
Succeed(c) ==
  /\ says[c] \in Calling
  /\ failures' = 0 /\ state' = "closed"
  /\ age' = IF kind = "gov" THEN Never ELSE age
  /\ Tell(c, "ok")
  /\ tries' = [tries EXCEPT ![c] = 0]
  /\ UNCHANGED kind

Counted == IF failures < Threshold THEN failures + 1 ELSE failures

\* record_failure of the government client: a probe's failure opens whatever the count.
GovFailure ==
  LET opens == state = "half" \/ Counted = Threshold
  IN  /\ state' = IF opens THEN "open" ELSE state
      /\ age' = IF opens THEN 0 ELSE age

\* record_failure of the LLM's: every failure is stamped.
LlmFailure ==
  /\ state' = IF Counted = Threshold THEN "open" ELSE state
  /\ age' = 0

\* The government client records one failure for all the attempts of its HTTP layer.
Fail(c) ==
  /\ says[c] \in Calling
  /\ failures' = Counted
  /\ IF kind = "gov" THEN GovFailure ELSE LlmFailure
  /\ Tell(c, "failed")
  /\ tries' = [tries EXCEPT ![c] = IF kind = "gov" THEN 0 ELSE Again(@)]
  /\ UNCHANGED kind

\* An answer from the LLM cache, and any error that neither records nor retries.
Leave(c) ==
  /\ says[c] \in Calling
  /\ Tell(c, "untold")
  /\ tries' = [tries EXCEPT ![c] = 0]
  /\ UNCHANGED breaker

Cool ==
  /\ age \in 0 .. Cooldown - 1
  /\ age' = age + 1
  /\ UNCHANGED <<kind, state, failures, says, tries>>

BreakerNext ==
  \/ Cool
  \/ \E c \in Callers :
       Admit(c) \/ Refuse(c) \/ Report(c) \/ Succeed(c) \/ Fail(c) \/ Leave(c)

BreakerSpec == BreakerInit /\ [][BreakerNext]_breakerVars

\* Time passes; that anybody calls, or that a call ends, is not assumed.
BreakerFairness == WF_breakerVars(Cool)

----------------------------------------------------------------------------
(* Properties. *)

\* The state and the count agree: callers are shut out, or on probation, exactly
\* after Threshold failures without a success, there is then a stamp to wait for,
\* and a half-open breaker has waited (_current_state returns OPEN for ever when
\* _opened_at is None, and record_failure may come from a call of an earlier era).
CountAgrees ==
  /\ state = "closed" <=> failures < Threshold
  /\ state # "closed" => age # Never
  /\ state = "half" => age = Cooldown

\* Nobody is refused for good: a breaker that is open lets callers in again, however
\* many late failures of calls it had admitted before stamp it anew, and however
\* often callers are refused and ask again in the meantime.
Reopens == Seen = "open" ~> Seen # "open"

\* Both breakers keep the promise of FailFast, in which there is no half-open state:
\* the time left to wait is what the stamp's age leaves of the cooldown.
Promise == INSTANCE FailFast WITH
  fails <- failures,
  wait <- IF state = "closed" THEN 0 ELSE Cooldown - age,
  says <- [c \in Callers |-> IF says[c] \in Calling THEN "calling" ELSE says[c]]

ActsAsBreaker == Promise!Spec

============================================================================
