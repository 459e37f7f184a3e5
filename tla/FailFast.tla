------------------------------ MODULE FailFast ------------------------------
(***************************************************************************)
(* What a circuit breaker promises the callers of a remote service: after  *)
(* Threshold failures in a row they are refused for Cooldown, and at no    *)
(* other time.  It has no half-open state: once the wait is over everybody *)
(* is admitted, and the first failure starts another wait.                 *)
(***************************************************************************)
EXTENDS Integers

CONSTANTS Callers, Threshold, Cooldown

VARIABLES
  fails,   \* failures since the last success, counted up to Threshold
  wait,    \* how much longer callers are refused
  says     \* what each caller was last told, or that it is calling

Counted == IF fails < Threshold THEN fails + 1 ELSE fails

Init ==
  /\ fails = 0 /\ wait = 0
  /\ says = [c \in Callers |-> "none"]

Tell(c, word) == says' = [says EXCEPT ![c] = word]

Admit(c) ==
  /\ says[c] # "calling" /\ wait = 0
  /\ Tell(c, "calling")
  /\ UNCHANGED <<fails, wait>>

Refuse(c) ==
  /\ says[c] # "calling" /\ wait > 0
  /\ Tell(c, "refused")
  /\ UNCHANGED <<fails, wait>>

\* A success ends the wait, whenever its call was admitted.
Succeed(c) ==
  /\ says[c] = "calling"
  /\ fails' = 0 /\ wait' = 0
  /\ Tell(c, "ok")

Fail(c) ==
  /\ says[c] = "calling"
  /\ fails' = Counted
  /\ wait' = IF Counted = Threshold THEN Cooldown ELSE wait
  /\ Tell(c, "failed")

\* An end that says nothing about the service.
Leave(c) ==
  /\ says[c] = "calling"
  /\ Tell(c, "untold")
  /\ UNCHANGED <<fails, wait>>

Elapse ==
  /\ wait > 0
  /\ wait' = wait - 1
  /\ UNCHANGED <<fails, says>>

Next ==
  \/ Elapse
  \/ \E c \in Callers : Admit(c) \/ Refuse(c) \/ Succeed(c) \/ Fail(c) \/ Leave(c)

Spec == Init /\ [][Next]_<<fails, wait, says>>

============================================================================
