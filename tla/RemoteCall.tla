----------------------------- MODULE RemoteCall -----------------------------
(***************************************************************************)
(* What a client library promises the code that calls it: every call is    *)
(* answered at most once, for good, and an answer that says "ok" is about  *)
(* work the backend has really done for this call or, when identical reads *)
(* are merged, for the call that it was merged with.                       *)
(***************************************************************************)
CONSTANTS Reqs, Same   \* <<r, s>> \in Same: s may be answered with r's answer

VARIABLES call, done
\* call[r]: what the caller of r knows; done: the calls the backend has executed

TypeOK == call \in [Reqs -> {"idle", "pending", "ok", "failed"}] /\ done \subseteq Reqs

Init == call = [r \in Reqs |-> "idle"] /\ done = {}

Call(r) ==
  /\ call[r] = "idle"
  /\ call' = [call EXCEPT ![r] = "pending"]
  /\ UNCHANGED done

Execute(r) ==
  /\ call[r] = "pending"
  /\ done' = done \cup {r}
  /\ UNCHANGED call

\* Pending calls are answered together: "failed" needs no reason, "ok" is the answer
\* of one of them that the backend has executed and whose answer fits the others.
Settle(S, a) ==
  /\ S # {} /\ \A s \in S : call[s] = "pending"
  /\ a = "ok" => \E r \in S \cap done : \A s \in S : s = r \/ <<r, s>> \in Same
  /\ call' = [s \in Reqs |-> IF s \in S THEN a ELSE call[s]]
  /\ UNCHANGED done

Next ==
  \/ \E r \in Reqs : Call(r) \/ Execute(r)
  \/ \E S \in SUBSET Reqs, a \in {"ok", "failed"} : Settle(S, a)

Spec == Init /\ [][Next]_<<call, done>>

============================================================================
