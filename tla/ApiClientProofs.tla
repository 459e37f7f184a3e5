-------------------------- MODULE ApiClientProofs --------------------------
(***************************************************************************)
(* Proofs about ApiClient: every client keeps its types, merges only live  *)
(* reads, repeats a mutation only after an answer it could not use, and    *)
(* implements RemoteCall.                                                  *)
(***************************************************************************)
EXTENDS ApiClient, TLAPS

\* An answer that says "ok" is on its way only from a backend that ran the handler.
AnswerIsReal == \A r \in Reqs : req[r].st = "answered" /\ req[r].ans = "ok" => r \in done

\* Whoever backs off has an attempt left.
AttemptsLeft == \A r \in Reqs : req[r].st = "backoff" => req[r].tries < MaxRetries

\* The call that owns a promise is a GET that is being made, not itself merged.
OwnerIsGet ==
  \A e \in Endpoints : inflight[e] # None =>
    /\ inflight[e] \in Gets /\ EndpointOf[inflight[e]] = e
    /\ req[inflight[e]].st \in {"sent", "answered", "refreshing", "backoff"}

MergedIsGet ==
  \A r \in Reqs : req[r].st = "merged" =>
    /\ r \in Gets /\ req[r].with # None /\ inflight[EndpointOf[r]] = req[r].with

\* The client holds an answer of r that it can use, or r is over.
Heard(r) == Settled(r) \/ (req[r].st = "answered" /\ req[r].ans \in {"ok", "error"})

\* An execution that the client has not heard of is one more than those repeated.
Accounted ==
  \A r \in Reqs \ Gets :
    /\ again[r] <= unheard[r]
    /\ r \in done /\ ~Heard(r) => again[r] < unheard[r]

IInv == ApiTypeOK /\ AnswerIsReal /\ AttemptsLeft /\ OwnerIsGet /\ MergedIsGet /\ Accounted

----------------------------------------------------------------------------

LEMMA InitIInv == ApiInit => IInv
BY ApiConstants DEF ApiInit, IInv, ApiTypeOK, AnswerIsReal, AttemptsLeft, OwnerIsGet, MergedIsGet,
   Accounted, Blank, Heard, Settled, Endpoints, Answers, Request

\* What a call can be, and what its fields are.
LEMMA ReqFields ==
  ASSUME ApiTypeOK, NEW r \in Reqs
  PROVE  /\ req[r].st \in {"idle", "sent", "answered", "refreshing", "backoff", "merged",
                           "ok", "failed"}
         /\ req[r].ans \in Answers \cup {None}
         /\ req[r].tok \in BOOLEAN /\ req[r].retried \in BOOLEAN
         /\ req[r].tries \in 0 .. MaxRetries /\ req[r].with \in Reqs \cup {None}
BY DEF ApiTypeOK, Request

\* Sending and answering keep the shape of the calls.
LEMMA SendType ==
  ASSUME ApiTypeOK, NEW r \in Reqs, NEW retried \in BOOLEAN, NEW tries \in 0 .. MaxRetries,
         Send(r, retried, tries)
  PROVE  /\ req' \in [Reqs -> Request]
         /\ req'[r].st = "sent" /\ req'[r].tries = tries
         /\ \A s \in Reqs \ {r} : req'[s] = req[s]
<1> DEFINE q == [req[r] EXCEPT !.st = "sent", !.ans = None, !.tok = held,
                                !.retried = retried, !.tries = tries]
<1>1. req' = [req EXCEPT ![r] = q]
  BY DEF Send
<1>2. req \in [Reqs -> Request] /\ req[r] \in Request /\ held \in BOOLEAN
  BY DEF ApiTypeOK
<1>3. q \in Request /\ q.st = "sent" /\ q.tries = tries
  BY <1>2 DEF Request
<1> HIDE DEF q
<1> QED BY <1>1, <1>2, <1>3

LEMMA AnsweredType ==
  ASSUME ApiTypeOK, NEW r \in Reqs, NEW a \in Answers, req' = Answered(r, a)
  PROVE  /\ req' \in [Reqs -> Request]
         /\ req'[r].st = "answered" /\ req'[r].ans = a
         /\ \A s \in Reqs \ {r} : req'[s] = req[s]
<1>1. req \in [Reqs -> Request] /\ req[r] \in Request
  BY DEF ApiTypeOK
<1>2. req' = [req EXCEPT ![r] =
               [req[r] EXCEPT !.st = "answered", !.ans = a, !.tok = FALSE]]
  BY DEF Answered
<1>3. [req[r] EXCEPT !.st = "answered", !.ans = a, !.tok = FALSE] \in Request
  BY <1>1 DEF Request
<1>4. /\ [req[r] EXCEPT !.st = "answered", !.ans = a, !.tok = FALSE].st = "answered"
      /\ [req[r] EXCEPT !.st = "answered", !.ans = a, !.tok = FALSE].ans = a
  BY <1>1 DEF Request
<1> QED
  BY <1>1, <1>2, <1>3, <1>4

\* So do the changes of single fields, and a call that is over.
LEMMA FieldType ==
  ASSUME NEW q \in Request
  PROVE  /\ [q EXCEPT !.tok = FALSE] \in Request
         /\ [q EXCEPT !.st = "refreshing"] \in Request
         /\ [q EXCEPT !.st = "backoff"] \in Request
         /\ [q EXCEPT !.st = "sent", !.ans = None, !.tok = TRUE, !.retried = TRUE] \in Request
         /\ \A g \in Reqs : [q EXCEPT !.st = "merged", !.with = g] \in Request
BY DEF Request

LEMMA OverType ==
  ASSUME NEW o \in {"ok", "failed"}
  PROVE  Blank(o) \in Request /\ Blank(o).st = o
<1>1. 0 \in 0 .. MaxRetries
  BY ApiConstants
<1> QED BY <1>1 DEF Request, Blank

\* The parts of the invariant that are about the calls and the promises.
Shape == ApiTypeOK /\ AttemptsLeft /\ OwnerIsGet /\ MergedIsGet

LEMMA ShapeStep == IInv /\ [ApiNext]_apiVars => Shape'
<1> SUFFICES ASSUME IInv, [ApiNext]_apiVars PROVE Shape'
  OBVIOUS
<1> USE ApiConstants DEF IInv
<1>1. ASSUME NEW r \in Reqs, Call(r) PROVE Shape'
  <2> DEFINE e == EndpointOf[r]
  <2>1. CASE Merges /\ r \in Gets /\ inflight[e] # None
    <3>1. /\ req' = [req EXCEPT ![r].st = "merged", ![r].with = inflight[e]]
          /\ UNCHANGED <<inflight, client, refresh, held, done, again, unheard>>
      BY <1>1, <2>1 DEF Call
    <3>2. e \in Endpoints /\ inflight[e] \in Reqs /\ inflight[e] # r
      BY <1>1, <2>1 DEF Endpoints, ApiTypeOK, OwnerIsGet, Call
    <3>3. ApiTypeOK'
      <4>1. req' = [req EXCEPT ![r] = [req[r] EXCEPT !.st = "merged", !.with = inflight[e]]]
        BY <3>1
      <4>2. [req[r] EXCEPT !.st = "merged", !.with = inflight[e]] \in Request
        BY <3>2, FieldType DEF ApiTypeOK
      <4> QED BY <3>1, <4>1, <4>2 DEF ApiTypeOK
    <3>4. AttemptsLeft' /\ OwnerIsGet' /\ MergedIsGet'
      BY <1>1, <2>1, <3>1, <3>2 DEF ApiTypeOK, AttemptsLeft, OwnerIsGet, MergedIsGet, Call
    <3> QED BY <3>3, <3>4 DEF Shape
  <2>2. CASE ~(Merges /\ r \in Gets /\ inflight[e] # None)
    <3>1. /\ Send(r, FALSE, 0)
          /\ inflight' = IF Merges /\ r \in Gets THEN [inflight EXCEPT ![e] = r] ELSE inflight
          /\ UNCHANGED <<client, refresh, held, done, again, unheard>>
      BY <1>1, <2>2 DEF Call
    <3>2. e \in Endpoints
      BY DEF Endpoints
    <3>3. ApiTypeOK'
      <4>1. 0 \in 0 .. MaxRetries
        BY ApiConstants
      <4>2. req' \in [Reqs -> Request]
        BY <3>1, <4>1, SendType
      <4>3. inflight' \in [Endpoints -> Reqs \cup {None}]
        BY <3>1, <3>2 DEF ApiTypeOK
      <4> QED BY <3>1, <4>2, <4>3 DEF ApiTypeOK
    <3>4. /\ req'[r].st = "sent" /\ \A s \in Reqs \ {r} : req'[s] = req[s]
          /\ \A d \in Endpoints : inflight[d] # r
      <4>1. 0 \in 0 .. MaxRetries
        BY ApiConstants
      <4>2. \A d \in Endpoints : inflight[d] # r
        BY <1>1 DEF Call, OwnerIsGet
      <4> QED BY <3>1, <4>1, <4>2, SendType
    <3>5. AttemptsLeft'
      BY <3>4 DEF AttemptsLeft
    <3>6. OwnerIsGet'
      BY <2>2, <3>1, <3>2, <3>4 DEF ApiTypeOK, OwnerIsGet
    <3>7. MergedIsGet'
      BY <2>2, <3>1, <3>2, <3>4 DEF ApiTypeOK, MergedIsGet, Endpoints, Merges
    <3> QED BY <3>3, <3>5, <3>6, <3>7 DEF Shape
  <2> QED BY <2>1, <2>2
<1>2. ASSUME NEW r \in Reqs, Serve(r) PROVE Shape'
  <2>1. PICK a \in Answers : req' = Answered(r, a)
    BY <1>2 DEF Serve, Answers
  <2>2. ApiTypeOK'
    BY <1>2, <2>1, AnsweredType DEF Serve, ApiTypeOK, Count
  <2>3. AttemptsLeft' /\ OwnerIsGet' /\ MergedIsGet'
    BY <1>2, <2>1, AnsweredType DEF Serve, ApiTypeOK, AttemptsLeft, OwnerIsGet, MergedIsGet
  <2> QED BY <2>2, <2>3 DEF Shape
<1>3. ASSUME NEW r \in Reqs, Lose(r) PROVE Shape'
  <2>1. PICK a \in Answers : req' = Answered(r, a)
    BY <1>3 DEF Lose, Answers
  <2>2. ApiTypeOK'
    BY <1>3, <2>1, AnsweredType DEF Lose, ApiTypeOK, Count
  <2>3. AttemptsLeft' /\ OwnerIsGet' /\ MergedIsGet'
    BY <1>3, <2>1, AnsweredType DEF Lose, ApiTypeOK, AttemptsLeft, OwnerIsGet, MergedIsGet
  <2> QED BY <2>2, <2>3 DEF Shape
<1>4. ASSUME NEW r \in Reqs, Unauthorized(r) PROVE Shape'
  <2>1. ApiTypeOK'
    BY <1>4, FieldType DEF Unauthorized, ApiTypeOK
  <2>2. AttemptsLeft' /\ OwnerIsGet' /\ MergedIsGet'
    BY <1>4 DEF Unauthorized, ApiTypeOK, AttemptsLeft, OwnerIsGet, MergedIsGet
  <2> QED BY <2>1, <2>2 DEF Shape
<1>5. ASSUME NEW r \in Reqs, Backoff(r) PROVE Shape'
  <2>1. ApiTypeOK'
    BY <1>5, FieldType DEF Backoff, ApiTypeOK
  <2>2. AttemptsLeft' /\ OwnerIsGet' /\ MergedIsGet'
    BY <1>5 DEF Backoff, ApiTypeOK, AttemptsLeft, OwnerIsGet, MergedIsGet
  <2> QED BY <2>1, <2>2 DEF Shape
<1>6. ASSUME NEW r \in Reqs, Resend(r) PROVE Shape'
  <2>1. req[r].tries + 1 \in 0 .. MaxRetries
    BY <1>6, ReqFields DEF Resend, AttemptsLeft
  <2>2. ApiTypeOK'
    BY <1>6, <2>1, SendType DEF Resend, ApiTypeOK
  <2>3. /\ req'[r].st = "sent" /\ \A s \in Reqs \ {r} : req'[s] = req[s]
        /\ UNCHANGED <<client, inflight>>
    BY <1>6, <2>1, SendType DEF Resend
  <2>4. AttemptsLeft'
    BY <2>3 DEF AttemptsLeft
  <2>5. OwnerIsGet' /\ MergedIsGet'
    BY <1>6, <2>3 DEF Resend, OwnerIsGet, MergedIsGet, ApiTypeOK
  <2> QED BY <2>2, <2>4, <2>5 DEF Shape
<1>7. ASSUME NEW r \in Reqs, Answer(r) PROVE Shape'
  <2>1. PICK o \in {"ok", "failed"} : SettleAll(r, o)
    BY <1>7 DEF Answer, Outcome
  <2>2. ApiTypeOK'
    BY <1>7, <2>1, OverType DEF Answer, SettleAll, ApiTypeOK
  <2>3. \A s \in Reqs : req'[s] = IF s \in Sharers(r) THEN Blank(o) ELSE req[s]
    BY <2>1 DEF SettleAll
  <2>4. \A s \in Reqs : s \in Sharers(r) <=> s = r \/ (req[s].st = "merged" /\ req[s].with = r)
    BY DEF Sharers
  <2>5. /\ inflight' = [e \in Endpoints |-> IF inflight[e] = r THEN None ELSE inflight[e]]
        /\ UNCHANGED client
    BY <1>7, <2>1 DEF Answer, SettleAll
  <2>6. AttemptsLeft'
    BY <2>3, OverType DEF AttemptsLeft
  <2>7. OwnerIsGet'
    BY <2>3, <2>4, <2>5 DEF ApiTypeOK, OwnerIsGet
  <2>8. MergedIsGet'
    <3> SUFFICES ASSUME NEW s \in Reqs, req'[s].st = "merged"
                 PROVE  /\ s \in Gets /\ req'[s].with # None
                        /\ inflight'[EndpointOf[s]] = req'[s].with
      BY DEF MergedIsGet
    <3>1. s \notin Sharers(r) /\ req'[s] = req[s]
      BY <2>3, OverType
    <3>2. inflight[EndpointOf[s]] = req[s].with /\ req[s].with # r
      BY <2>4, <3>1 DEF MergedIsGet
    <3> QED BY <2>5, <3>1, <3>2 DEF MergedIsGet, Endpoints
  <2> QED BY <2>2, <2>6, <2>7, <2>8 DEF Shape
<1>8. CASE ServeRefresh
  BY <1>8 DEF ServeRefresh, Shape, ApiTypeOK, AttemptsLeft, OwnerIsGet, MergedIsGet
<1>9. CASE RefreshEnds
  <2> DEFINE waiting == {r \in Reqs : req[r].st = "refreshing"}
             sharing == UNION {Sharers(r) : r \in waiting}
  <2>1. CASE refresh = "ok"
    <3>1. /\ req' = [r \in Reqs |->
                IF r \in waiting
                THEN [req[r] EXCEPT !.st = "sent", !.ans = None, !.tok = TRUE, !.retried = TRUE]
                ELSE req[r]]
          /\ held' = TRUE /\ refresh' = "none"
          /\ UNCHANGED <<client, inflight, done, again, unheard>>
      BY <1>9, <2>1 DEF RefreshEnds
    <3>2. \A r \in Reqs : req[r] \in Request
      BY DEF ApiTypeOK
    <3>3. req' \in [Reqs -> Request]
      BY <3>1, <3>2, FieldType
    <3>4. ApiTypeOK'
      BY <3>1, <3>3 DEF ApiTypeOK
    <3>5. \A r \in Reqs : /\ req'[r] = req[r] \/ (req[r].st = "refreshing" /\ req'[r].st = "sent")
                          /\ req'[r].with = req[r].with
      <4> TAKE r \in Reqs
      <4>1. CASE r \in waiting
        <5> DEFINE q == req[r]
        <5>1. req'[r] = [q EXCEPT !.st = "sent", !.ans = None, !.tok = TRUE, !.retried = TRUE]
          BY <3>1, <4>1
        <5>2. q \in Request /\ q.st = "refreshing"
          BY <3>2, <4>1
        <5> HIDE DEF q
        <5>3. req'[r].st = "sent" /\ req'[r].with = q.with
          BY <5>1, <5>2 DEF Request
        <5> QED BY <5>2, <5>3 DEF q
      <4>2. CASE r \notin waiting
        BY <3>1, <4>2
      <4> QED BY <4>1, <4>2
    <3>6. AttemptsLeft' /\ OwnerIsGet' /\ MergedIsGet'
      BY <3>1, <3>5 DEF ApiTypeOK, AttemptsLeft, OwnerIsGet, MergedIsGet
    <3> QED BY <3>4, <3>6 DEF Shape
  <2>2. CASE refresh = "failed"
    <3>0. /\ req' = [r \in Reqs |-> IF r \in sharing THEN Blank("failed")
                                                     ELSE req[r]]
          /\ inflight' = [e \in Endpoints |->
                            IF inflight[e] \in waiting THEN None ELSE inflight[e]]
          /\ UNCHANGED <<client, held, done, again, unheard>> /\ refresh' = "none"
      BY <1>9, <2>2 DEF RefreshEnds
    <3>1. ApiTypeOK'
      BY <3>0, OverType DEF ApiTypeOK
    <3>2. AttemptsLeft'
      BY <3>0, OverType DEF ApiTypeOK, AttemptsLeft
    <3>3. \A r \in Reqs : r \in sharing <=> r \in waiting \/ (req[r].st = "merged" /\ req[r].with \in waiting)
      BY DEF Sharers
    <3>4. OwnerIsGet'
      BY <3>0, <3>3 DEF ApiTypeOK, OwnerIsGet
    <3>5. MergedIsGet'
      BY <3>0, <3>3, OverType DEF ApiTypeOK, OwnerIsGet, MergedIsGet, Endpoints
    <3> QED BY <3>1, <3>2, <3>4, <3>5 DEF Shape
  <2> QED BY <1>9, <2>1, <2>2 DEF RefreshEnds
<1>10. CASE Expire
  <2>1. ApiTypeOK'
    BY <1>10, FieldType DEF Expire, ApiTypeOK
  <2>2. \A r \in Reqs : /\ req'[r].st = req[r].st /\ req'[r].with = req[r].with
                        /\ req'[r].tries = req[r].tries
    BY <1>10 DEF Expire, ApiTypeOK, Request
  <2>3. AttemptsLeft' /\ OwnerIsGet' /\ MergedIsGet'
    BY <1>10, <2>2 DEF Expire, ApiTypeOK, AttemptsLeft, OwnerIsGet, MergedIsGet
  <2> QED BY <2>1, <2>3 DEF Shape
<1>11. CASE UNCHANGED apiVars
  BY <1>11 DEF apiVars, Shape, ApiTypeOK, AttemptsLeft, OwnerIsGet, MergedIsGet
<1> QED
  BY <1>1, <1>2, <1>3, <1>4, <1>5, <1>6, <1>7, <1>8, <1>9, <1>10, <1>11
  DEF ApiNext, ReqStep, Finished


----------------------------------------------------------------------------
(* Answers, executions and repetitions. *)

\* A call that is made, refused, put off or repeated is under way afterwards.
LEMMA UnderWay ==
  ASSUME ApiTypeOK, NEW s \in Reqs, Call(s) \/ Unauthorized(s) \/ Backoff(s) \/ Resend(s)
  PROVE  /\ \A t \in Reqs \ {s} : req'[t] = req[t]
         /\ req'[s].st \in {"merged", "sent", "refreshing", "backoff"}
<1>1. CASE Call(s)
  <2>1. \/ Send(s, FALSE, 0)
        \/ req' = [req EXCEPT ![s] = [req[s] EXCEPT !.st = "merged", !.with = inflight[EndpointOf[s]]]]
    BY <1>1 DEF Call
  <2>2. CASE Send(s, FALSE, 0)
    BY <2>2 DEF Send, ApiTypeOK, Request
  <2>3. CASE req' = [req EXCEPT ![s] = [req[s] EXCEPT !.st = "merged", !.with = inflight[EndpointOf[s]]]]
    BY <2>3 DEF ApiTypeOK, Request
  <2> QED BY <2>1, <2>2, <2>3
<1>2. CASE Unauthorized(s)
  BY <1>2 DEF Unauthorized, ApiTypeOK, Request
<1>3. CASE Backoff(s)
  BY <1>3 DEF Backoff, ApiTypeOK, Request
<1>4. CASE Resend(s)
  BY <1>4 DEF Resend, Send, ApiTypeOK, Request
<1> QED BY <1>1, <1>2, <1>3, <1>4

LEMMA AnswerIsRealStep == IInv /\ [ApiNext]_apiVars => AnswerIsReal'
<1> SUFFICES ASSUME IInv, [ApiNext]_apiVars, NEW r \in Reqs,
                    req'[r].st = "answered", req'[r].ans = "ok"
             PROVE  r \in done'
  BY DEF AnswerIsReal
<1> USE DEF IInv
<1>1. done \subseteq done'
  BY DEF ApiNext, ReqStep, Call, Serve, Lose, Unauthorized, Backoff, Resend, Answer, ServeRefresh,
         RefreshEnds, Expire, Finished, apiVars
<1>2. CASE req'[r] = req[r]
  BY <1>1, <1>2 DEF AnswerIsReal
<1>3. CASE req'[r].st = req[r].st /\ req'[r].ans = req[r].ans
  BY <1>1, <1>3 DEF AnswerIsReal
<1>4. ASSUME NEW s \in Reqs, Serve(s) PROVE r \in done'
  <2>1. CASE r = s
    <3>1. CASE req[s].tok
      BY <1>4, <2>1, <3>1 DEF Serve
    <3>2. CASE ~req[s].tok
      BY <1>4, <2>1, <3>2, AnsweredType DEF Serve, Answers
    <3> QED BY <3>1, <3>2
  <2>2. CASE r # s
    <3>1. PICK a \in Answers : req' = Answered(s, a)
      BY <1>4 DEF Serve, Answers
    <3> QED BY <1>2, <2>2, <3>1, AnsweredType
  <2> QED BY <2>1, <2>2
<1>5. ASSUME NEW s \in Reqs, Lose(s) PROVE r \in done'
  <2>1. PICK a \in {"reject", "timeout"} : req' = Answered(s, a)
    BY <1>5 DEF Lose
  <2>2. r # s
    BY <2>1, AnsweredType DEF Answers
  <2> QED BY <1>2, <2>1, <2>2, AnsweredType DEF Answers
<1>6. ASSUME NEW s \in Reqs, Call(s) \/ Unauthorized(s) \/ Backoff(s) \/ Resend(s)
      PROVE  r \in done'
  <2>1. r # s
    BY <1>6, UnderWay
  <2> QED BY <1>2, <1>6, <2>1, UnderWay
<1>9. ASSUME NEW s \in Reqs, Answer(s) PROVE r \in done'
  <2>1. PICK o \in {"ok", "failed"} : SettleAll(s, o)
    BY <1>9 DEF Answer, Outcome
  <2>2. req'[r] = req[r] \/ req'[r] = Blank(o)
    BY <2>1 DEF SettleAll
  <2> QED BY <1>2, <2>2, OverType
<1>10. CASE RefreshEnds
  <2>1. \/ req'[r] = req[r] \/ req'[r] = Blank("failed")
        \/ req'[r] = [req[r] EXCEPT !.st = "sent", !.ans = None, !.tok = TRUE, !.retried = TRUE]
    BY <1>10 DEF RefreshEnds
  <2>2. [req[r] EXCEPT !.st = "sent", !.ans = None, !.tok = TRUE, !.retried = TRUE].st = "sent"
    BY DEF ApiTypeOK, Request
  <2> QED BY <1>2, <2>1, <2>2, OverType
<1>11. CASE Expire
  <2>1. req'[r].st = req[r].st /\ req'[r].ans = req[r].ans
    BY <1>11 DEF Expire, ApiTypeOK, Request
  <2> QED BY <1>3, <2>1
<1>12. CASE ServeRefresh \/ UNCHANGED apiVars
  BY <1>2, <1>12 DEF ServeRefresh, apiVars
<1> QED
  BY <1>4, <1>5, <1>6, <1>9, <1>10, <1>11, <1>12 DEF ApiNext, ReqStep, Finished

LEMMA AccountedStep == IInv /\ [ApiNext]_apiVars => Accounted'
<1> SUFFICES ASSUME IInv, [ApiNext]_apiVars, NEW r \in Reqs \ Gets
             PROVE  /\ again'[r] <= unheard'[r]
                    /\ r \in done' /\ ~Heard(r)' => again'[r] < unheard'[r]
  BY DEF Accounted
<1> USE DEF IInv
<1>0. /\ again[r] <= unheard[r] /\ again[r] \in Nat /\ unheard[r] \in Nat
      /\ r \in done /\ ~Heard(r) => again[r] < unheard[r]
  BY DEF Accounted, ApiTypeOK
<1>1. CASE UNCHANGED <<done, again, unheard>> /\ (Heard(r) => Heard(r)')
  BY <1>0, <1>1
<1>2. CASE UNCHANGED <<done, again, unheard>> /\ req'[r] = req[r]
  BY <1>0, <1>2 DEF Heard, Settled
<1>3. ASSUME NEW s \in Reqs, Serve(s)
      PROVE  /\ again'[r] <= unheard'[r]
             /\ r \in done' /\ ~Heard(r)' => again'[r] < unheard'[r]
  <2>1. PICK a \in Answers : req' = Answered(s, a)
    BY <1>3 DEF Serve, Answers
  <2>2. CASE s # r
    <3>1. /\ again'[r] = again[r] /\ unheard'[r] = unheard[r] /\ (r \in done' <=> r \in done)
          /\ req'[r] = req[r]
      BY <1>3, <2>1, <2>2, AnsweredType DEF Serve, Count, ApiTypeOK
    <3> QED BY <1>0, <3>1 DEF Heard, Settled
  <2>3. CASE s = r /\ ~req[r].tok
    <3>1. UNCHANGED <<done, again, unheard>> /\ ~Heard(r)
      BY <1>3, <2>3 DEF Serve, Heard, Settled
    <3> QED BY <1>0, <3>1
  <2>4. CASE s = r /\ req[r].tok
    <3>1. PICK b \in {"ok", "error", "garbled"} :
            /\ req' = Answered(r, b)
            /\ unheard' = IF b = "garbled" THEN [unheard EXCEPT ![r] = @ + 1] ELSE unheard
            /\ again' = IF r \in done THEN [again EXCEPT ![r] = @ + 1] ELSE again
      BY <1>3, <2>4 DEF Serve, Count
    <3>2. again'[r] = IF r \in done THEN again[r] + 1 ELSE again[r]
      BY <3>1 DEF ApiTypeOK
    <3>3. unheard'[r] = IF b = "garbled" THEN unheard[r] + 1 ELSE unheard[r]
      BY <3>1 DEF ApiTypeOK
    <3>4. r \in done => again[r] < unheard[r]
      BY <1>0, <1>3, <2>4 DEF Serve, Heard, Settled
    <3>5. req'[r].st = "answered" /\ req'[r].ans = b
      BY <3>1, AnsweredType DEF Answers
    <3>6. CASE b = "garbled"
      BY <1>0, <3>2, <3>3, <3>4, <3>6
    <3>7. CASE b # "garbled"
      BY <1>0, <3>2, <3>3, <3>4, <3>5, <3>7 DEF Heard
    <3> QED BY <3>6, <3>7
  <2> QED BY <2>2, <2>3, <2>4 DEF ApiTypeOK, Request
<1>4. ASSUME NEW s \in Reqs, Lose(s)
      PROVE  /\ again'[r] <= unheard'[r]
             /\ r \in done' /\ ~Heard(r)' => again'[r] < unheard'[r]
  <2>1. PICK a \in Answers : req' = Answered(s, a)
    BY <1>4 DEF Lose, Answers
  <2>2. CASE s # r
    <3>1. /\ again'[r] = again[r] /\ unheard'[r] = unheard[r] /\ (r \in done' <=> r \in done)
          /\ req'[r] = req[r]
      BY <1>4, <2>1, <2>2, AnsweredType DEF Lose, Count, ApiTypeOK
    <3> QED BY <1>0, <3>1 DEF Heard, Settled
  <2>3. CASE s = r /\ req[r].st = "sent"
    <3>1. UNCHANGED <<done, again, unheard>> /\ ~Heard(r)
      BY <1>4, <2>3 DEF Lose, Heard, Settled
    <3> QED BY <1>0, <3>1
  <2>4. CASE s = r /\ req[r].st # "sent"
    <3>1. UNCHANGED <<done, again>> /\ unheard' = [unheard EXCEPT ![r] = @ + 1]
      BY <1>4, <2>4 DEF Lose, Count
    <3>2. unheard'[r] = unheard[r] + 1
      BY <3>1 DEF ApiTypeOK
    <3> QED BY <1>0, <3>1, <3>2
  <2> QED BY <2>2, <2>3, <2>4
<1>5. ASSUME NEW s \in Reqs, Call(s) \/ Unauthorized(s) \/ Backoff(s) \/ Resend(s)
      PROVE  /\ again'[r] <= unheard'[r]
             /\ r \in done' /\ ~Heard(r)' => again'[r] < unheard'[r]
  <2>1. UNCHANGED <<done, again, unheard>>
    BY <1>5 DEF Call, Unauthorized, Backoff, Resend
  <2>2. CASE s # r
    BY <1>2, <1>5, <2>1, <2>2, UnderWay
  <2>3. CASE s = r
    <3>1. ~Heard(r)
      BY <1>5, <2>3 DEF Call, Unauthorized, Backoff, Resend, Heard, Settled, Retryable
    <3> QED BY <1>1, <2>1, <3>1
  <2> QED BY <2>2, <2>3
<1>6. ASSUME NEW s \in Reqs, Answer(s)
      PROVE  /\ again'[r] <= unheard'[r]
             /\ r \in done' /\ ~Heard(r)' => again'[r] < unheard'[r]
  <2>1. PICK o \in {"ok", "failed"} : SettleAll(s, o)
    BY <1>6 DEF Answer, Outcome
  <2>2. req'[r] = req[r] \/ req'[r] = Blank(o)
    BY <2>1 DEF SettleAll
  <2>3. UNCHANGED <<done, again, unheard>>
    BY <1>6 DEF Answer
  <2>4. req'[r] = Blank(o) => Heard(r)'
    BY OverType DEF Heard, Settled
  <2> QED BY <1>1, <1>2, <2>2, <2>3, <2>4
<1>7. CASE RefreshEnds
  <2>1. UNCHANGED <<done, again, unheard>>
    BY <1>7 DEF RefreshEnds
  <2>2. CASE req[r].st = "refreshing"
    <3>1. ~Heard(r)
      BY <2>2 DEF Heard, Settled
    <3> QED BY <1>1, <2>1, <3>1
  <2>3. CASE req[r].st # "refreshing"
    <3>1. req'[r] = req[r] \/ req'[r] = Blank("failed")
      BY <1>7, <2>3 DEF RefreshEnds
    <3>2. req'[r] = Blank("failed") => Heard(r)'
      BY OverType DEF Heard, Settled
    <3> QED BY <1>1, <1>2, <2>1, <3>1, <3>2
  <2> QED BY <2>2, <2>3
<1>8. CASE Expire
  <2>1. req'[r].st = req[r].st /\ req'[r].ans = req[r].ans
    BY <1>8 DEF Expire, ApiTypeOK, Request
  <2>2. UNCHANGED <<done, again, unheard>>
    BY <1>8 DEF Expire
  <2> QED BY <1>1, <2>1, <2>2 DEF Heard, Settled
<1>9. CASE ServeRefresh \/ UNCHANGED apiVars
  BY <1>2, <1>9 DEF ServeRefresh, apiVars
<1> QED
  BY <1>3, <1>4, <1>5, <1>6, <1>7, <1>8, <1>9 DEF ApiNext, ReqStep, Finished

\* The strengthened invariant holds in every reachable state.
THEOREM Inductive == ApiSpec => []IInv
<1>1. IInv /\ [ApiNext]_apiVars => IInv'
  BY ShapeStep, AnswerIsRealStep, AccountedStep DEF IInv, Shape
<1> QED BY <1>1, InitIInv, PTL DEF ApiSpec

\* Every variable keeps its type, and no call uses more attempts than MAX_RETRY_ATTEMPTS
\* allows (_retryingRequest and requestWithRetry).
THEOREM Typed == ApiSpec => []ApiTypeOK
BY Inductive, PTL DEF IInv

\* Every client repeats a mutation only after an execution it could not hear of.
THEOREM Repetition == ApiSpec => []RepeatsOnlyUnheard
<1>1. IInv => RepeatsOnlyUnheard
  BY DEF IInv, Accounted, RepeatsOnlyUnheard
<1> QED BY <1>1, Inductive, PTL

\* The merged GETs of _inflightGets share only promises that are still to settle.
THEOREM Merging == ApiSpec => []InflightIsLive
<1>1. IInv => InflightIsLive
  BY DEF IInv, OwnerIsGet, MergedIsGet, InflightIsLive, Settled
<1> QED BY <1>1, Inductive, PTL

----------------------------------------------------------------------------
(* Every client implements RemoteCall. *)

\* What a caller sees of one call.
LEMMA Viewed ==
  ASSUME NEW r \in Reqs
  PROVE  View[r] = IF Settled(r) \/ req[r].st = "idle" THEN req[r].st ELSE "pending"
BY DEF View

LEMMA ViewedNext ==
  ASSUME NEW r \in Reqs
  PROVE  View'[r] = IF Settled(r)' \/ req'[r].st = "idle" THEN req'[r].st ELSE "pending"
BY DEF View

\* Calls that settle together, each of them pending, are one Settle of RemoteCall.
LEMMA SettleTogether ==
  ASSUME IInv, NEW S \in SUBSET Reqs, S # {}, NEW o \in {"ok", "failed"},
         \A s \in S : req[s].st \notin {"idle", "ok", "failed"},
         \A s \in Reqs : req'[s] = IF s \in S THEN Blank(o) ELSE req[s],
         o = "ok" => \E r \in S \cap done : \A s \in S : s = r \/ <<r, s>> \in SameGets,
         UNCHANGED done
  PROVE  Remote!Next
<1>1. \A s \in S : View[s] = "pending"
  BY Viewed DEF Settled
<1>2. \A s \in Reqs : View'[s] = IF s \in S THEN o ELSE View[s]
  <2> TAKE s \in Reqs
  <2>1. CASE s \in S
    BY <2>1, ViewedNext, OverType DEF Settled
  <2>2. CASE s \notin S
    BY <2>2, Viewed, ViewedNext DEF Settled
  <2> QED BY <2>1, <2>2
<1>3. View' = [s \in Reqs |-> IF s \in S THEN o ELSE View[s]]
  BY <1>2 DEF View
<1>4. Remote!Settle(S, o)
  BY <1>1, <1>3 DEF Remote!Settle
<1> QED BY <1>4 DEF Remote!Next

LEMMA RefineStep == IInv /\ [ApiNext]_apiVars => [Remote!Next]_<<View, done>>
<1> SUFFICES ASSUME IInv, [ApiNext]_apiVars PROVE Remote!Next \/ UNCHANGED <<View, done>>
  OBVIOUS
<1> USE DEF IInv
<1>1. ASSUME UNCHANGED done, \A r \in Reqs : View'[r] = View[r]
      PROVE  UNCHANGED <<View, done>>
  BY <1>1 DEF View
<1>2. ASSUME NEW r \in Reqs, Call(r) PROVE Remote!Next
  <2>1. /\ \A t \in Reqs \ {r} : req'[t] = req[t]
        /\ req'[r].st \in {"merged", "sent", "refreshing", "backoff"}
    BY <1>2, UnderWay
  <2>2. View[r] = "idle" /\ View'[r] = "pending"
    BY <1>2, <2>1, Viewed, ViewedNext DEF Call, Settled
  <2>3. \A t \in Reqs \ {r} : View'[t] = View[t]
    BY <2>1, Viewed, ViewedNext DEF Settled
  <2>4. View' = [View EXCEPT ![r] = "pending"] /\ UNCHANGED done
    BY <1>2, <2>2, <2>3 DEF View, Call
  <2> QED BY <2>2, <2>4 DEF Remote!Call, Remote!Next
<1>3. ASSUME NEW r \in Reqs, Serve(r) PROVE Remote!Next \/ UNCHANGED <<View, done>>
  <2>1. PICK a \in Answers : req' = Answered(r, a)
    BY <1>3 DEF Serve, Answers
  <2>2. View[r] = "pending" /\ \A t \in Reqs : View'[t] = View[t]
    BY <1>3, <2>1, AnsweredType, Viewed, ViewedNext DEF Serve, Settled
  <2>3. UNCHANGED View
    BY <2>2 DEF View
  <2>4. done' = done \cup {r} \/ done' = done
    BY <1>3 DEF Serve
  <2> QED BY <2>2, <2>3, <2>4 DEF Remote!Execute, Remote!Next
<1>4. ASSUME NEW r \in Reqs, Lose(r) PROVE UNCHANGED <<View, done>>
  <2>1. PICK a \in Answers : req' = Answered(r, a)
    BY <1>4 DEF Lose, Answers
  <2>2. \A t \in Reqs : View'[t] = View[t]
    BY <1>4, <2>1, AnsweredType, Viewed, ViewedNext DEF Lose, Settled
  <2> QED BY <1>1, <1>4, <2>2 DEF Lose
<1>5. ASSUME NEW r \in Reqs, Unauthorized(r) \/ Backoff(r) \/ Resend(r)
      PROVE  UNCHANGED <<View, done>>
  <2>1. /\ \A t \in Reqs \ {r} : req'[t] = req[t]
        /\ req'[r].st \in {"merged", "sent", "refreshing", "backoff"}
        /\ req[r].st \in {"answered", "backoff"}
    BY <1>5, UnderWay DEF Unauthorized, Backoff, Resend
  <2>2. \A t \in Reqs : View'[t] = View[t]
    BY <2>1, Viewed, ViewedNext DEF Settled
  <2> QED BY <1>1, <1>5, <2>2 DEF Unauthorized, Backoff, Resend
<1>6. ASSUME NEW r \in Reqs, Answer(r) PROVE Remote!Next
  <2> DEFINE o == Outcome(req[r].ans)
  <2>1. o \in {"ok", "failed"} /\ SettleAll(r, o) /\ UNCHANGED done
    BY <1>6 DEF Answer, Outcome
  <2>2. \A s \in Sharers(r) : req[s].st \notin {"idle", "ok", "failed"}
    BY <1>6 DEF Answer, Sharers
  <2>3. o = "ok" => r \in done
    BY <1>6 DEF Answer, Outcome, AnswerIsReal
  <2>4. \A s \in Sharers(r) : s = r \/ <<r, s>> \in SameGets
    <3> SUFFICES ASSUME NEW s \in Sharers(r), s # r PROVE <<r, s>> \in SameGets
      OBVIOUS
    <3>1. s \in Reqs /\ req[s].st = "merged" /\ req[s].with = r
      BY DEF Sharers
    <3>2. s \in Gets /\ inflight[EndpointOf[s]] = r /\ r # None
      BY <3>1 DEF MergedIsGet
    <3>3. r \in Gets /\ EndpointOf[r] = EndpointOf[s]
      BY <3>1, <3>2 DEF OwnerIsGet, Endpoints
    <3> QED BY <3>2, <3>3 DEF SameGets
  <2>5. r \in Sharers(r) /\ Sharers(r) \in SUBSET Reqs
    BY DEF Sharers
  <2>6. \A s \in Reqs : req'[s] = IF s \in Sharers(r) THEN Blank(o) ELSE req[s]
    BY <2>1 DEF SettleAll
  <2> HIDE DEF o
  <2> QED BY <2>1, <2>2, <2>3, <2>4, <2>5, <2>6, SettleTogether
<1>7. CASE RefreshEnds
  <2> DEFINE waiting == {r \in Reqs : req[r].st = "refreshing"}
             sharing == UNION {Sharers(r) : r \in waiting}
  <2>1. CASE refresh = "ok"
    <3>1. \A r \in Reqs : req'[r] = IF r \in waiting
            THEN [req[r] EXCEPT !.st = "sent", !.ans = None, !.tok = TRUE, !.retried = TRUE]
            ELSE req[r]
      BY <1>7, <2>1 DEF RefreshEnds
    <3>2. \A r \in waiting :
            [req[r] EXCEPT !.st = "sent", !.ans = None, !.tok = TRUE, !.retried = TRUE].st = "sent"
      BY DEF ApiTypeOK, Request
    <3>3. \A r \in Reqs : View'[r] = View[r]
      <4> TAKE r \in Reqs
      <4>1. CASE r \in waiting
        BY <3>1, <3>2, <4>1, Viewed, ViewedNext DEF Settled
      <4>2. CASE r \notin waiting
        BY <3>1, <4>2, Viewed, ViewedNext DEF Settled
      <4> QED BY <4>1, <4>2
    <3> QED BY <1>1, <1>7, <3>3 DEF RefreshEnds
  <2>2. CASE refresh = "failed"
    <3>1. \A s \in Reqs : req'[s] = IF s \in sharing THEN Blank("failed") ELSE req[s]
      BY <1>7, <2>2 DEF RefreshEnds
    <3>2. \A s \in sharing : req[s].st \notin {"idle", "ok", "failed"}
      BY DEF Sharers
    <3>3. sharing \in SUBSET Reqs /\ UNCHANGED done
      BY <1>7 DEF Sharers, RefreshEnds
    <3>4. CASE sharing = {}
      <4>1. \A r \in Reqs : View'[r] = View[r]
        BY <3>1, <3>4, Viewed, ViewedNext DEF Settled
      <4> QED BY <1>1, <3>3, <4>1
    <3>5. CASE sharing # {}
      <4> HIDE DEF sharing
      <4> QED BY <3>1, <3>2, <3>3, <3>5, SettleTogether
    <3> QED BY <3>4, <3>5
  <2> QED BY <1>7, <2>1, <2>2 DEF RefreshEnds
<1>8. CASE Expire
  <2>1. \A r \in Reqs : req'[r].st = req[r].st
    BY <1>8 DEF Expire, ApiTypeOK, Request
  <2>2. \A r \in Reqs : View'[r] = View[r]
    BY <2>1, Viewed, ViewedNext DEF Settled
  <2> QED BY <1>1, <1>8, <2>2 DEF Expire
<1>9. CASE ServeRefresh \/ UNCHANGED apiVars
  BY <1>9 DEF ServeRefresh, apiVars, View, Settled
<1> QED
  BY <1>2, <1>3, <1>4, <1>5, <1>6, <1>7, <1>8, <1>9 DEF ApiNext, ReqStep, Finished

\* Every client implements RemoteCall: a call is answered once, for good, and "ok" only
\* for work that the backend has done for it or for the read it was merged with.
THEOREM Implements == ApiSpec => KeepsPromise
<1>1. ApiInit => Remote!Init
  BY DEF ApiInit, Remote!Init, View, Blank, Settled
<1> QED BY <1>1, RefineStep, Inductive, PTL DEF ApiSpec, KeepsPromise, Remote!Spec

============================================================================
