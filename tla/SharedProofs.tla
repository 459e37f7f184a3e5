---------------------------- MODULE SharedProofs ----------------------------
(***************************************************************************)
(* Proofs about Breaker: both breakers keep their types, agree with their  *)
(* count of failures, and implement FailFast, for any number of callers,   *)
(* any threshold, cooldown and number of attempts.  The last section is    *)
(* about MCShared: each of its parts behaves as it does alone, so that     *)
(* what is proved of the parts holds of the module that TLC checks.        *)
(***************************************************************************)
EXTENDS MCShared, SchedulerLockProofs, ApiClientProofs

LEMMA InitTypes == BreakerInit => BreakerTypeOK
BY BreakerConstants DEF BreakerInit, BreakerTypeOK, Words, Calling

\* What is seen of a breaker is a state it can have.
LEMMA SeenType ==
  ASSUME BreakerTypeOK
  PROVE  Seen \in {"closed", "open", "half"}
BY DEF BreakerTypeOK, Seen

LEMMA TellType ==
  ASSUME BreakerTypeOK, NEW c \in Callers, NEW w \in Words, Tell(c, w)
  PROVE  says' \in [Callers -> Words]
BY DEF BreakerTypeOK, Tell

\* Counting a failure brings the count to Threshold and leaves it there.
LEMMA CountedType ==
  ASSUME BreakerTypeOK
  PROVE  /\ Counted \in 0 .. Threshold /\ Counted > 0
         /\ Counted < Threshold => failures < Threshold /\ Counted = failures + 1
         /\ failures = Threshold => Counted = Threshold
BY BreakerConstants DEF BreakerTypeOK, Counted

\* A caller of the LLM that is between two attempts, or between two calls, has one
\* left; without this the number of attempts has no bound.
LeftToTry ==
  \A c \in Callers : says[c] \notin Calling /\ kind = "llm" => tries[c] < Attempts

TypeInv == BreakerTypeOK /\ LeftToTry

\* What a repeated attempt counts is below Attempts again, or a new call's count.
LEMMA AgainLeaves ==
  ASSUME BreakerConstants, NEW n \in 1 .. Attempts
  PROVE  /\ Again(n) \in 0 .. Attempts
         /\ kind = "llm" => Again(n) < Attempts
BY DEF Again, BreakerConstants

\* Whoever may ask has made fewer attempts than there are.
LEMMA MayAskLeaves ==
  ASSUME TypeInv, NEW c \in Callers, MayAsk(c)
  PROVE  tries[c] + 1 \in 1 .. Attempts
<1>1. tries[c] \in 0 .. Attempts
  BY DEF TypeInv, BreakerTypeOK
<1>2. CASE kind = "llm"
  BY <1>1, <1>2, BreakerConstants DEF TypeInv, LeftToTry, MayAsk
<1>3. CASE kind # "llm"
  BY <1>1, <1>3, BreakerConstants DEF MayAsk
<1> QED
  BY <1>2, <1>3

\* One caller is told something and its attempts are counted anew: the types of both
\* stay, and an attempt is left to it when one is needed.
LEMMA CallerStep ==
  ASSUME TypeInv, NEW c \in Callers, NEW w \in Words, NEW n \in 0 .. Attempts,
         Tell(c, w), tries' = [tries EXCEPT ![c] = n], kind' = kind,
         w \notin Calling /\ kind = "llm" => n < Attempts
  PROVE  /\ says' \in [Callers -> Words] /\ tries' \in [Callers -> 0 .. Attempts]
         /\ LeftToTry'
<1>1. says' = [says EXCEPT ![c] = w] /\ says \in [Callers -> Words]
      /\ tries \in [Callers -> 0 .. Attempts]
  BY DEF Tell, TypeInv, BreakerTypeOK
<1>2. ASSUME NEW d \in Callers, says'[d] \notin Calling, kind' = "llm"
      PROVE  tries'[d] < Attempts
  <2>1. CASE d = c
    BY <1>1, <1>2, <2>1
  <2>2. CASE d # c
    <3>1. says'[d] = says[d] /\ tries'[d] = tries[d]
      BY <1>1, <2>2
    <3> QED
      BY <1>2, <3>1 DEF TypeInv, LeftToTry
  <2> QED
    BY <2>1, <2>2
<1> QED
  BY <1>1, <1>2 DEF LeftToTry

LEMMA InitTypeInv == BreakerInit => TypeInv
BY InitTypes, BreakerConstants DEF BreakerInit, TypeInv, LeftToTry

\* Every action keeps the types and leaves an attempt to whoever may ask.
LEMMA NextTypeInv == TypeInv /\ [BreakerNext]_breakerVars => TypeInv'
<1> SUFFICES ASSUME TypeInv, [BreakerNext]_breakerVars PROVE TypeInv'
  OBVIOUS
<1> USE BreakerConstants
<1>0. BreakerTypeOK
  BY DEF TypeInv
<1>0a. 0 \in 0 .. Attempts /\ 0 < Attempts
  OBVIOUS
<1>k. kind' = kind
  BY DEF BreakerNext, breakerVars, breaker, Admit, Refuse, Report, Succeed, Fail, Leave, Cool
<1>1. CASE Cool
  <2>1. age' \in 0 .. Cooldown
    BY <1>1 DEF Cool
  <2> QED
    BY <1>0, <1>1, <2>1 DEF Cool, TypeInv, BreakerTypeOK, LeftToTry
<1>2. ASSUME NEW c \in Callers, Admit(c) PROVE TypeInv'
  <2>1. state' \in {"closed", "open", "half"} /\ failures' = failures /\ age' = age
    BY <1>0, <1>2, SeenType DEF Admit
  <2>2. PICK w \in Calling : Tell(c, w)
    BY <1>2 DEF Admit, Calling
  <2>3. tries[c] + 1 \in 1 .. Attempts /\ tries' = [tries EXCEPT ![c] = tries[c] + 1]
    BY <1>2, MayAskLeaves DEF Admit
  <2>4. w \in Words
    BY DEF Words
  <2> DEFINE n == tries[c] + 1
  <2>6. n \in 0 .. Attempts /\ tries' = [tries EXCEPT ![c] = n]
    BY <2>3
  <2> HIDE DEF n
  <2>5. /\ says' \in [Callers -> Words] /\ tries' \in [Callers -> 0 .. Attempts]
        /\ LeftToTry'
    BY <1>k, <2>2, <2>4, <2>6, CallerStep
  <2> QED
    BY <1>0, <1>k, <2>1, <2>5 DEF TypeInv, BreakerTypeOK
<1>3. ASSUME NEW c \in Callers, Refuse(c) PROVE TypeInv'
  <2>1. state' = state /\ failures' = failures /\ age' = age
    BY <1>3 DEF Refuse, breaker
  <2>2. tries[c] + 1 \in 1 .. Attempts
    BY <1>3, MayAskLeaves DEF Refuse
  <2>3. Again(tries[c] + 1) \in 0 .. Attempts
        /\ (kind = "llm" => Again(tries[c] + 1) < Attempts)
    BY <2>2, AgainLeaves
  <2>4. "refused" \in Words /\ Tell(c, "refused")
        /\ tries' = [tries EXCEPT ![c] = Again(tries[c] + 1)]
    BY <1>3 DEF Refuse, Words
  <2>5. /\ says' \in [Callers -> Words] /\ tries' \in [Callers -> 0 .. Attempts]
        /\ LeftToTry'
    BY <1>k, <2>3, <2>4, CallerStep
  <2> QED
    BY <1>0, <1>k, <2>1, <2>5 DEF TypeInv, BreakerTypeOK
<1>4. ASSUME NEW c \in Callers, Report(c) PROVE TypeInv'
  <2>1. /\ state' \in {"closed", "open", "half"} /\ failures' = failures /\ age' = age
        /\ says' = says /\ kind = "gov"
    BY <1>0, <1>4, SeenType DEF Report
  <2>2. tries' \in [Callers -> 0 .. Attempts]
    BY <1>0, <1>4 DEF Report, BreakerTypeOK
  <2> QED
    BY <1>0, <1>k, <2>1, <2>2 DEF TypeInv, BreakerTypeOK, LeftToTry
<1>5. ASSUME NEW c \in Callers, Succeed(c) PROVE TypeInv'
  <2>1. state' = "closed" /\ failures' = 0 /\ age' \in {Never} \cup 0 .. Cooldown
    BY <1>0, <1>5 DEF Succeed, BreakerTypeOK
  <2>2. "ok" \in Words /\ Tell(c, "ok") /\ tries' = [tries EXCEPT ![c] = 0]
    BY <1>5 DEF Succeed, Words
  <2>3. /\ says' \in [Callers -> Words] /\ tries' \in [Callers -> 0 .. Attempts]
        /\ LeftToTry'
    BY <1>0a, <1>k, <2>2, CallerStep
  <2> QED
    BY <1>0, <1>k, <2>1, <2>3 DEF TypeInv, BreakerTypeOK
<1>6. ASSUME NEW c \in Callers, Fail(c) PROVE TypeInv'
  <2>1. /\ state' \in {"closed", "open", "half"} /\ age' \in {Never} \cup 0 .. Cooldown
        /\ failures' \in 0 .. Threshold
    BY <1>0, <1>6, CountedType DEF Fail, GovFailure, LlmFailure, BreakerTypeOK
  <2>2. "failed" \in Words /\ Tell(c, "failed")
    BY <1>6 DEF Fail, Words
  <2>3. tries[c] \in 0 .. Attempts
    BY <1>0 DEF BreakerTypeOK
  <2>4. PICK n \in 0 .. Attempts : /\ tries' = [tries EXCEPT ![c] = n]
                                   /\ kind = "llm" => n < Attempts
    <3>1. CASE kind = "gov"
      <4>1. tries' = [tries EXCEPT ![c] = 0]
        BY <1>6, <3>1 DEF Fail
      <4> QED
        BY <1>0a, <4>1
    <3>2. CASE kind # "gov"
      <4>1. tries' = [tries EXCEPT ![c] = Again(tries[c])]
        BY <1>6, <3>2 DEF Fail
      <4>2. Again(tries[c]) \in 0 .. Attempts
            /\ (kind = "llm" => Again(tries[c]) < Attempts)
        BY <2>3 DEF Again
      <4> QED
        BY <4>1, <4>2
    <3> QED
      BY <3>1, <3>2
  <2>5. /\ says' \in [Callers -> Words] /\ tries' \in [Callers -> 0 .. Attempts]
        /\ LeftToTry'
    BY <1>k, <2>2, <2>4, CallerStep
  <2> QED
    BY <1>0, <1>k, <2>1, <2>5 DEF TypeInv, BreakerTypeOK
<1>7. ASSUME NEW c \in Callers, Leave(c) PROVE TypeInv'
  <2>1. state' = state /\ failures' = failures /\ age' = age
    BY <1>7 DEF Leave, breaker
  <2>2. "untold" \in Words /\ Tell(c, "untold") /\ tries' = [tries EXCEPT ![c] = 0]
    BY <1>7 DEF Leave, Words
  <2>3. /\ says' \in [Callers -> Words] /\ tries' \in [Callers -> 0 .. Attempts]
        /\ LeftToTry'
    BY <1>0a, <1>k, <2>2, CallerStep
  <2> QED
    BY <1>0, <1>k, <2>1, <2>3 DEF TypeInv, BreakerTypeOK
<1>8. CASE UNCHANGED breakerVars
  BY <1>0, <1>8 DEF breakerVars, breaker, TypeInv, BreakerTypeOK, LeftToTry
<1> QED
  BY <1>1, <1>2, <1>3, <1>4, <1>5, <1>6, <1>7, <1>8 DEF BreakerNext

\* Both breakers and their callers keep their types: the failures stay within the
\* threshold, the age within the cooldown, and no call makes more than Attempts attempts.
THEOREM BreakerTypes == BreakerSpec => []BreakerTypeOK
<1>1. BreakerSpec => []TypeInv
  BY InitTypeInv, NextTypeInv, PTL DEF BreakerSpec
<1>2. TypeInv => BreakerTypeOK
  BY DEF TypeInv
<1> QED
  BY <1>1, <1>2, PTL

----------------------------------------------------------------------------
(* The state and the count. *)

LEMMA InitCounts == BreakerInit => CountAgrees
BY BreakerConstants DEF BreakerInit, CountAgrees

\* Looking at a breaker changes open to half-open at most, and only a ripe one.
LEMMA LookingAgrees ==
  ASSUME BreakerTypeOK, CountAgrees, state' = Seen, failures' = failures, age' = age
  PROVE  CountAgrees'
BY BreakerConstants DEF BreakerTypeOK, CountAgrees, Seen, Never

\* What a failure does to either breaker: with the count at Threshold it is open and
\* freshly stamped, and below it closed as before.
LEMMA FailureOpens ==
  ASSUME BreakerTypeOK, CountAgrees, NEW c \in Callers, Fail(c)
  PROVE  /\ failures' = Counted
         /\ Counted = Threshold => state' = "open" /\ age' = 0
         /\ Counted # Threshold => state = "closed" /\ state' = "closed"
<1> USE BreakerConstants
<1>1. /\ failures' = Counted
      /\ IF kind = "gov" THEN GovFailure ELSE LlmFailure
  BY DEF Fail
<1>2. Counted # Threshold => state = "closed"
  BY CountedType DEF CountAgrees, BreakerTypeOK
<1>3. state = "half" => Counted = Threshold
  BY <1>2
<1>4. CASE kind = "gov"
  <2>1. GovFailure
    BY <1>1, <1>4
  <2>2. state' = (IF state = "half" \/ Counted = Threshold THEN "open" ELSE state)
        /\ age' = (IF state = "half" \/ Counted = Threshold THEN 0 ELSE age)
    BY <2>1 DEF GovFailure
  <2> QED
    BY <1>1, <1>2, <1>3, <2>2
<1>5. CASE kind # "gov"
  BY <1>1, <1>2, <1>5 DEF LlmFailure
<1> QED
  BY <1>4, <1>5

\* Every action keeps the state in step with the count.
LEMMA NextCounts == BreakerTypeOK /\ CountAgrees /\ [BreakerNext]_breakerVars => CountAgrees'
<1> SUFFICES ASSUME BreakerTypeOK, CountAgrees, [BreakerNext]_breakerVars PROVE CountAgrees'
  OBVIOUS
<1> USE BreakerConstants
<1>1. CASE Cool
  BY <1>1 DEF Cool, BreakerTypeOK, CountAgrees, Never
<1>2. ASSUME NEW c \in Callers, Admit(c) PROVE CountAgrees'
  BY <1>2, LookingAgrees DEF Admit
<1>3. ASSUME NEW c \in Callers, Refuse(c) PROVE CountAgrees'
  BY <1>3 DEF Refuse, breaker, CountAgrees
<1>4. ASSUME NEW c \in Callers, Report(c) PROVE CountAgrees'
  BY <1>4, LookingAgrees DEF Report
<1>5. ASSUME NEW c \in Callers, Succeed(c) PROVE CountAgrees'
  BY <1>5 DEF Succeed, CountAgrees
<1>6. ASSUME NEW c \in Callers, Fail(c) PROVE CountAgrees'
  <2>1. CASE Counted = Threshold
    BY <1>6, <2>1, FailureOpens DEF CountAgrees, Never
  <2>2. CASE Counted # Threshold
    <3>1. failures' = Counted /\ state' = "closed"
      BY <1>6, <2>2, FailureOpens
    <3>2. Counted < Threshold
      BY <2>2, CountedType
    <3> QED
      BY <3>1, <3>2 DEF CountAgrees
  <2> QED
    BY <2>1, <2>2
<1>7. ASSUME NEW c \in Callers, Leave(c) PROVE CountAgrees'
  BY <1>7 DEF Leave, breaker, CountAgrees
<1>8. CASE UNCHANGED breakerVars
  BY <1>8 DEF breakerVars, breaker, CountAgrees
<1> QED
  BY <1>1, <1>2, <1>3, <1>4, <1>5, <1>6, <1>7, <1>8 DEF BreakerNext

\* The breaker is open or half-open exactly after Threshold failures without a
\* success, then it has a stamp to wait for, and a half-open one has waited.
THEOREM CountsAgree == BreakerSpec => []CountAgrees
BY InitCounts, NextCounts, BreakerTypes, PTL DEF BreakerSpec

----------------------------------------------------------------------------
(* The refinement. *)

\* What FailFast sees of the breaker.
Wait == IF state = "closed" THEN 0 ELSE Cooldown - age
Says == [c \in Callers |-> IF says[c] \in Calling THEN "calling" ELSE says[c]]

\* There is something to wait for exactly when the breaker is seen open.
LEMMA WaitIsOpen ==
  ASSUME BreakerTypeOK, CountAgrees
  PROVE  /\ Wait \in 0 .. Cooldown
         /\ Wait > 0 <=> Seen = "open"
         /\ Seen # "open" => Wait = 0
BY BreakerConstants DEF BreakerTypeOK, CountAgrees, Wait, Seen, Never

\* Looking does not change what there is to wait for.
LEMMA LookingWaits ==
  ASSUME BreakerTypeOK, CountAgrees, state' = Seen, age' = age
  PROVE  Wait' = Wait
BY DEF Wait, Seen

\* Telling a caller something is telling it to FailFast's caller.
LEMMA Telling ==
  ASSUME BreakerTypeOK, NEW c \in Callers, NEW w \in Words, Tell(c, w)
  PROVE  Says' = [Says EXCEPT ![c] = IF w \in Calling THEN "calling" ELSE w]
<1>1. says' = [says EXCEPT ![c] = w] /\ says \in [Callers -> Words]
  BY DEF Tell, BreakerTypeOK
<1>2. \A d \in Callers : says'[d] = IF d = c THEN w ELSE says[d]
  BY <1>1
<1> QED
  BY <1>2 DEF Says

LEMMA SaysCalling ==
  ASSUME BreakerTypeOK, NEW c \in Callers
  PROVE  Says[c] = "calling" <=> says[c] \in Calling
BY DEF BreakerTypeOK, Says, Words, Calling

LEMMA InitPromises == BreakerInit => Promise!Init
BY DEF BreakerInit, Promise!Init, Calling

\* Every step of either breaker is a step of FailFast or leaves what it sees alone.
LEMMA NextPromises ==
  BreakerTypeOK /\ CountAgrees /\ [BreakerNext]_breakerVars =>
    [Promise!Next]_<<failures, Wait, Says>>
<1> SUFFICES ASSUME BreakerTypeOK, CountAgrees, [BreakerNext]_breakerVars
             PROVE  Promise!Next \/ UNCHANGED <<failures, Wait, Says>>
  OBVIOUS
<1> USE BreakerConstants
<1>1. CASE Cool
  <2>1. Says' = Says /\ failures' = failures /\ state' = state /\ age' = age + 1
        /\ age \in 0 .. Cooldown - 1
    BY <1>1 DEF Cool, Says
  <2>2. CASE state = "closed"
    BY <2>1, <2>2 DEF Wait
  <2>3. CASE state # "closed"
    <3>1. Wait > 0 /\ Wait' = Wait - 1
      BY <2>1, <2>3 DEF Wait
    <3> QED
      BY <2>1, <3>1 DEF Promise!Next, Promise!Elapse, Wait, Says
  <2> QED
    BY <2>2, <2>3
<1>2. ASSUME NEW c \in Callers, Admit(c) PROVE Promise!Admit(c)
  <2>1. Says[c] # "calling"
    BY <1>2, SaysCalling DEF Admit, MayAsk
  <2>2. Wait = 0 /\ Wait' = Wait /\ failures' = failures
    BY <1>2, WaitIsOpen, LookingWaits DEF Admit
  <2>3. PICK w \in Calling : Tell(c, w)
    BY <1>2 DEF Admit, Calling
  <2>4. Says' = [Says EXCEPT ![c] = "calling"]
    BY <2>3, Telling DEF Words
  <2> QED
    BY <2>1, <2>2, <2>4 DEF Promise!Admit, Promise!Tell, Wait, Says
<1>3. ASSUME NEW c \in Callers, Refuse(c) PROVE Promise!Refuse(c)
  <2>1. Says[c] # "calling"
    BY <1>3, SaysCalling DEF Refuse, MayAsk
  <2>2. Wait > 0 /\ Wait' = Wait /\ failures' = failures
    BY <1>3, WaitIsOpen DEF Refuse, breaker, Wait
  <2>3. Says' = [Says EXCEPT ![c] = "refused"]
    BY <1>3, Telling DEF Refuse, Words, Calling
  <2> QED
    BY <2>1, <2>2, <2>3 DEF Promise!Refuse, Promise!Tell, Wait, Says
<1>4. ASSUME NEW c \in Callers, Report(c) PROVE UNCHANGED <<failures, Wait, Says>>
  BY <1>4, LookingWaits DEF Report, Says
<1>5. ASSUME NEW c \in Callers, Succeed(c) PROVE Promise!Succeed(c)
  <2>1. Says[c] = "calling" /\ failures' = 0 /\ Wait' = 0
    BY <1>5, SaysCalling DEF Succeed, Wait
  <2>2. Says' = [Says EXCEPT ![c] = "ok"]
    BY <1>5, Telling DEF Succeed, Words, Calling
  <2> QED
    BY <2>1, <2>2 DEF Promise!Succeed, Promise!Tell, Wait, Says
<1>6. ASSUME NEW c \in Callers, Fail(c) PROVE Promise!Fail(c)
  <2>1. Says[c] = "calling" /\ failures' = Counted
    BY <1>6, SaysCalling DEF Fail
  <2>2. Says' = [Says EXCEPT ![c] = "failed"]
    BY <1>6, Telling DEF Fail, Words, Calling
  <2>3. Wait' = IF Counted = Threshold THEN Cooldown ELSE Wait
    <3>1. CASE Counted = Threshold
      BY <1>6, <3>1, FailureOpens DEF Wait
    <3>2. CASE Counted # Threshold
      BY <1>6, <3>2, FailureOpens DEF Wait
    <3> QED
      BY <3>1, <3>2
  <2>4. Promise!Counted = Counted
    BY DEF Promise!Counted, Counted
  <2> QED
    BY <2>1, <2>2, <2>3, <2>4 DEF Promise!Fail, Promise!Tell, Wait, Says
<1>7. ASSUME NEW c \in Callers, Leave(c) PROVE Promise!Leave(c)
  <2>1. Says[c] = "calling" /\ failures' = failures /\ Wait' = Wait
    BY <1>7, SaysCalling DEF Leave, breaker, Wait
  <2>2. Says' = [Says EXCEPT ![c] = "untold"]
    BY <1>7, Telling DEF Leave, Words, Calling
  <2> QED
    BY <2>1, <2>2 DEF Promise!Leave, Promise!Tell, Wait, Says
<1>8. CASE UNCHANGED breakerVars
  BY <1>8 DEF breakerVars, breaker, Wait, Says
<1> QED
  BY <1>1, <1>2, <1>3, <1>4, <1>5, <1>6, <1>7, <1>8 DEF BreakerNext, Promise!Next

\* Both breakers implement FailFast: callers are refused for Cooldown after Threshold
\* failures in a row and after each later failure, and at no other time; half-open is
\* not a state that a caller can tell from closed.
THEOREM ImplementsFailFast == BreakerSpec => ActsAsBreaker
<1>1. BreakerTypeOK /\ CountAgrees /\ [BreakerNext]_breakerVars =>
        [Promise!Next]_<<failures,
                         (IF state = "closed" THEN 0 ELSE Cooldown - age),
                         [c \in Callers |-> IF says[c] \in Calling THEN "calling" ELSE says[c]]>>
  BY NextPromises DEF Wait, Says
<1> QED
  BY <1>1, InitPromises, BreakerTypes, CountsAgree, PTL DEF BreakerSpec, ActsAsBreaker, Promise!Spec

----------------------------------------------------------------------------
(* The three parts in one module. *)

\* A part that does not run stays as it is, and the one that runs takes its own steps.
THEOREM EachAsAlone == SharedSpec => Spec /\ ApiSpec /\ BreakerSpec
<1>1. SharedInit => Init /\ ApiInit /\ BreakerInit
  BY DEF SharedInit
<1>2. [SharedNext]_sharedVars => [Next]_vars /\ [ApiNext]_apiVars /\ [BreakerNext]_breakerVars
  <2>1. CASE part = "lease" /\ Next /\ Others("lease")
    BY <2>1 DEF Others
  <2>2. CASE part = "api" /\ ApiNext /\ Others("api")
    BY <2>2 DEF Others
  <2>3. CASE part = "breaker" /\ BreakerNext /\ Others("breaker")
    BY <2>3 DEF Others
  <2>4. CASE UNCHANGED sharedVars
    BY <2>4 DEF sharedVars
  <2> QED
    BY <2>1, <2>2, <2>3, <2>4 DEF SharedNext
<1> QED
  BY <1>1, <1>2, PTL DEF SharedSpec, Spec, ApiSpec, BreakerSpec

\* The lease, the clients and the breakers keep their types.
THEOREM SharedTypes == SharedSpec => []SharedTypeOK
BY EachAsAlone, TypeCorrect, Typed, BreakerTypes, PTL DEF SharedTypeOK

\* What is checked of the three parts, liveness apart: no two holders of the lease and
\* none that outlives its interval, no mutation repeated after an answer, no read that
\* waits for a settled one, a breaker that agrees with its count; and the clients and
\* the breakers implement RemoteCall and FailFast.
THEOREM SharedKeepsItsWord ==
  SharedSpec =>
    /\ [](MutualExclusion /\ LeaseBounded /\ RepeatsOnlyUnheard /\ InflightIsLive /\ CountAgrees)
    /\ KeepsPromise /\ ActsAsBreaker
BY EachAsAlone, AsyncpgExclusion, LeaseIsBounded, Repetition, Merging, CountsAgree,
   Implements, ImplementsFailFast, PTL

=============================================================================
