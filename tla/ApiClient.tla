----------------------------- MODULE ApiClient -----------------------------
(***************************************************************************)
(* How the front ends talk to the backend: the request functions of the    *)
(* web client, of the shared package the admin uses, of the admin's fetch  *)
(* wrapper and of the mobile client. They differ in what they retry, in    *)
(* whether a 401 is followed by a refresh, and in whether identical reads  *)
(* in flight are merged.                                                   *)
(*                                                                         *)
(* A call is one caller's request. It is sent, executed and answered in    *)
(* separate steps; the answer or the request may be lost.                  *)
(***************************************************************************)
EXTENDS Naturals, FiniteSets

CONSTANTS
  Reqs,         \* the calls the pages make
  Gets,         \* those that are GETs; the others are mutations
  EndpointOf,   \* the endpoint each call is for
  Clients,      \* subset of {"web", "package", "fetch", "mobile"}
  None,
  MaxRetries    \* MAX_RETRY_ATTEMPTS

ASSUME ApiConstants ==
  /\ Gets \subseteq Reqs
  /\ DOMAIN EndpointOf = Reqs
  /\ Clients \subseteq {"web", "package", "fetch", "mobile"}
  /\ MaxRetries \in Nat
  /\ None \notin Reqs

VARIABLES
  client,    \* which of the clients this is
  req,       \* the state of each call
  inflight,  \* _inflightGets: the call whose GET of an endpoint is in flight
  refresh,   \* "none", "sent", "ok" or "failed": the shared refresh
  held,      \* the access token the client holds is good
  done,      \* history: calls the backend has executed
  again,     \* history: how often a mutation was executed after the first time
  unheard    \* history: executions of it whose answer the client could not use

apiVars == <<client, req, inflight, refresh, held, done, again, unheard>>

Endpoints == {EndpointOf[r] : r \in Reqs}

\* st: where the call is; ans: the answer on its way; tok: the token it carries is good;
\* tries: attempts so far; retried: this attempt has been repeated after a refresh;
\* with: the call whose promise a merged GET shares
Blank(st) == [st |-> st, ans |-> None, tok |-> FALSE, tries |-> 0, retried |-> FALSE, with |-> None]

Answers == {"ok", "error", "garbled", "401", "reject", "timeout"}

Request == [st : {"idle", "sent", "answered", "refreshing", "backoff", "merged", "ok", "failed"},
            ans : Answers \cup {None}, tok : BOOLEAN, tries : 0 .. MaxRetries,
            retried : BOOLEAN, with : Reqs \cup {None}]

ApiTypeOK ==
  /\ client \in Clients
  /\ req \in [Reqs -> Request]
  /\ inflight \in [Endpoints -> Reqs \cup {None}]
  /\ refresh \in {"none", "sent", "ok", "failed"}
  /\ held \in BOOLEAN
  /\ done \subseteq Reqs
  /\ again \in [Reqs -> Nat] /\ unheard \in [Reqs -> Nat]

ApiInit ==
  /\ client \in Clients
  /\ req = [r \in Reqs |-> Blank("idle")]
  /\ inflight = [e \in Endpoints |-> None]
  /\ refresh = "none"
  /\ held = TRUE
  /\ done = {}
  /\ again = [r \in Reqs |-> 0] /\ unheard = [r \in Reqs |-> 0]

----------------------------------------------------------------------------
(* What each client does. *)

\* Identical GETs in flight are merged; one with an abort signal would go alone (client.ts:122),
\* and no caller passes one.
Merges     == client \in {"web", "package"}
Refreshes  == client \in {"web", "package", "fetch"}
TellsTimeouts == client = "package"           \* a timeout from other failures of fetch

\* Mutant of Retryable: an HTTP error is retried too.
RetryableErrors(ans) == ans \in {"reject", "garbled", "error"}

\* _isRetryable of the web client: not an ApiError, an abort or a TypeError, so
\* a fetch that rejects is not retried and a 2xx body that does not parse is.
\* isRetryable of the package: a fetch that rejects, unless it timed out.
Retryable(ans) ==
  \/ client = "web" /\ ans = "garbled"
  \/ client = "package" /\ ans = "reject"

\* Mutant of Outcome: the status of the response is not looked at.
OutcomeAnyStatus(ans) == IF ans \in {"reject", "timeout"} THEN "failed" ELSE "ok"

\* An unparsable or empty 2xx body is an ApiError of the package (or undefined),
\* and is left to the caller by the admin's wrapper and the mobile client.
Outcome(ans) == IF ans = "ok" THEN "ok" ELSE "failed"

Settled(r) == req[r].st \in {"ok", "failed"}

\* The callers that share r's promise.
Sharers(r) == {s \in Reqs : s = r \/ (req[s].st = "merged" /\ req[s].with = r)}

\* Mutant of SettleAll: the finally that forgets the promise is missing.
SettleAllRemembered(r, o) ==
  /\ req' = [s \in Reqs |-> IF s \in Sharers(r) THEN Blank(o) ELSE req[s]]
  /\ UNCHANGED inflight

\* The promise of r settles; _inflightGets forgets it.
SettleAll(r, o) ==
  /\ req' = [s \in Reqs |-> IF s \in Sharers(r) THEN Blank(o) ELSE req[s]]
  /\ inflight' = [e \in Endpoints |-> IF inflight[e] = r THEN None ELSE inflight[e]]

Send(r, retried, tries) ==
  req' = [req EXCEPT ![r] = [@ EXCEPT !.st = "sent", !.ans = None, !.tok = held,
                                      !.retried = retried, !.tries = tries]]

----------------------------------------------------------------------------

\* A page makes the call: a GET joins the one in flight for its endpoint.
Call(r) ==
  /\ req[r].st = "idle"
  /\ LET e == EndpointOf[r] IN
     \/ /\ Merges /\ r \in Gets /\ inflight[e] # None
        /\ req' = [req EXCEPT ![r].st = "merged", ![r].with = inflight[e]]
        /\ UNCHANGED inflight
     \/ /\ ~(Merges /\ r \in Gets /\ inflight[e] # None)
        /\ Send(r, FALSE, 0)
        /\ inflight' = IF Merges /\ r \in Gets THEN [inflight EXCEPT ![e] = r] ELSE inflight
  /\ UNCHANGED <<client, refresh, held, done, again, unheard>>

Count(f, r) == IF r \in Gets THEN f ELSE [f EXCEPT ![r] = @ + 1]

Answered(r, a) == [req EXCEPT ![r] = [@ EXCEPT !.st = "answered", !.ans = a, !.tok = FALSE]]

\* The backend runs the handler, or refuses a token that has expired.
Serve(r) ==
  /\ req[r].st = "sent"
  /\ \/ /\ req[r].tok
        /\ \E a \in {"ok", "error", "garbled"} :
             /\ req' = Answered(r, a)
             /\ unheard' = IF a = "garbled" THEN Count(unheard, r) ELSE unheard
        /\ done' = done \cup {r}
        /\ again' = IF r \in done THEN Count(again, r) ELSE again
     \/ /\ ~req[r].tok
        /\ req' = Answered(r, "401")
        /\ UNCHANGED <<done, again, unheard>>
  /\ UNCHANGED <<client, inflight, refresh, held>>

\* The request or its answer is lost: fetch rejects, or the client's timer fires.
Lose(r) ==
  /\ \/ req[r].st = "sent" /\ UNCHANGED unheard
     \/ /\ req[r].st = "answered" /\ req[r].ans \in {"ok", "error"}
        /\ unheard' = Count(unheard, r)
  /\ \E a \in {"reject"} \cup (IF TellsTimeouts THEN {"timeout"} ELSE {}) :
       req' = Answered(r, a)
  /\ UNCHANGED <<client, inflight, refresh, held, done, again>>

\* Mutant of Unauthorized: it waits for a refresh that somebody else should start.
UnauthorizedWaits(r) ==
  /\ req[r].st = "answered" /\ req[r].ans = "401"
  /\ Refreshes /\ ~req[r].retried
  /\ req' = [req EXCEPT ![r].st = "refreshing"]
  /\ UNCHANGED <<client, inflight, refresh, held, done, again, unheard>>

\* A first 401 waits for the shared refresh, which it starts if there is none.
Unauthorized(r) ==
  /\ req[r].st = "answered" /\ req[r].ans = "401"
  /\ Refreshes /\ ~req[r].retried
  /\ req' = [req EXCEPT ![r].st = "refreshing"]
  /\ refresh' = IF refresh = "none" THEN "sent" ELSE refresh
  /\ UNCHANGED <<client, inflight, held, done, again, unheard>>

\* Mutant of Backoff: one attempt too many.
BackoffOnceMore(r) ==
  /\ req[r].st = "answered" /\ Retryable(req[r].ans) /\ req[r].tries <= MaxRetries
  /\ req' = [req EXCEPT ![r].st = "backoff"]
  /\ UNCHANGED <<client, inflight, refresh, held, done, again, unheard>>

\* A retryable failure of an attempt that is not the last.
Backoff(r) ==
  /\ req[r].st = "answered" /\ Retryable(req[r].ans) /\ req[r].tries < MaxRetries
  /\ req' = [req EXCEPT ![r].st = "backoff"]
  /\ UNCHANGED <<client, inflight, refresh, held, done, again, unheard>>

Resend(r) ==
  /\ req[r].st = "backoff"
  /\ Send(r, FALSE, req[r].tries + 1)
  /\ UNCHANGED <<client, inflight, refresh, held, done, again, unheard>>

\* Any other answer settles the call and everyone who shares its promise.
Answer(r) ==
  /\ req[r].st = "answered"
  /\ ~(req[r].ans = "401" /\ Refreshes /\ ~req[r].retried)
  /\ ~(Retryable(req[r].ans) /\ req[r].tries < MaxRetries)
  /\ SettleAll(r, Outcome(req[r].ans))
  /\ UNCHANGED <<client, refresh, held, done, again, unheard>>

----------------------------------------------------------------------------
(* The refresh that concurrent 401s share. *)

ServeRefresh ==
  /\ refresh = "sent"
  /\ refresh' \in {"ok", "failed"}
  /\ UNCHANGED <<client, req, inflight, held, done, again, unheard>>

\* The promise resolves: everyone who waits sends once more, or gives up.
RefreshEnds ==
  /\ refresh \in {"ok", "failed"}
  /\ refresh' = "none"
  /\ LET waiting == {r \in Reqs : req[r].st = "refreshing"}
         sharing == UNION {Sharers(r) : r \in waiting} IN
     IF refresh = "ok"
     THEN /\ held' = TRUE
          /\ req' = [r \in Reqs |->
               IF r \in waiting
               THEN [req[r] EXCEPT !.st = "sent", !.ans = None, !.tok = TRUE, !.retried = TRUE]
               ELSE req[r]]
          /\ UNCHANGED inflight
     ELSE /\ req' = [r \in Reqs |-> IF r \in sharing
                                    THEN Blank("failed") ELSE req[r]]
          /\ inflight' = [e \in Endpoints |->
                            IF inflight[e] \in waiting THEN None ELSE inflight[e]]
          /\ UNCHANGED held
  /\ UNCHANGED <<client, done, again, unheard>>

\* The access token expires, with every request that carries it on its way.
Expire ==
  /\ held
  /\ held' = FALSE
  /\ req' = [r \in Reqs |-> [req[r] EXCEPT !.tok = FALSE]]
  /\ UNCHANGED <<client, inflight, refresh, done, again, unheard>>

----------------------------------------------------------------------------

ReqStep(r) ==
  Call(r) \/ Serve(r) \/ Lose(r) \/ Unauthorized(r) \/ Backoff(r) \/ Resend(r) \/ Answer(r)

\* Every call has been answered.
Finished ==
  /\ \A r \in Reqs : Settled(r)
  /\ refresh = "none"
  /\ UNCHANGED apiVars

ApiNext == (\E r \in Reqs : ReqStep(r)) \/ ServeRefresh \/ RefreshEnds \/ Expire \/ Finished

ApiSpec == ApiInit /\ [][ApiNext]_apiVars

\* A request is served or fails, and timers and callbacks run; pages call as they like.
ApiFairness ==
  /\ \A r \in Reqs : /\ WF_apiVars(Serve(r) \/ Lose(r))
                     /\ WF_apiVars(Unauthorized(r) \/ Backoff(r) \/ Answer(r) \/ Resend(r))
  /\ WF_apiVars(ServeRefresh \/ RefreshEnds)

----------------------------------------------------------------------------
(* Properties. *)

\* A mutation is executed again only as often as an earlier execution's answer
\* did not reach the client in a form it could read: an answer that says "error"
\* is never followed by a second execution.
RepeatsOnlyUnheard == \A r \in Reqs \ Gets : again[r] <= unheard[r]

\* _inflightGets holds only GETs whose promise is unsettled, and whoever shares a
\* promise shares one that is: nobody waits for a call that is over.
InflightIsLive ==
  /\ \A e \in Endpoints : inflight[e] # None =>
       EndpointOf[inflight[e]] = e /\ ~Settled(inflight[e])
  /\ \A r \in Reqs : req[r].st = "merged" => inflight[EndpointOf[r]] = req[r].with

\* Every call is answered in the end.
EveryCallSettles == \A r \in Reqs : (req[r].st # "idle") ~> Settled(r)

\* The caller's view of a call.
View == [r \in Reqs |-> IF Settled(r) \/ req[r].st = "idle" THEN req[r].st ELSE "pending"]

SameGets == {p \in Gets \X Gets : EndpointOf[p[1]] = EndpointOf[p[2]]}

\* Each client keeps the promise of a remote call.
Remote == INSTANCE RemoteCall WITH call <- View, Same <- SameGets
KeepsPromise == Remote!Spec

============================================================================
