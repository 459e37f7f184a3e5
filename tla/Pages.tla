------------------------------- MODULE Pages -------------------------------
(***************************************************************************)
(* A page of a front end that shows rows the backend keeps and changes     *)
(* them: its loads, its busy flags, its copies of the rows, the answers    *)
(* that come back late, the writes of other people. One page at a time,    *)
(* any of Pages.                                                           *)
(***************************************************************************)
EXTENDS Naturals, FiniteSets, PageRecords

CONSTANTS
  Pages,      \* page records
  Rows,
  None,
  MaxEvents,  \* clicks and returns of the user, changes by others, requests that are lost or refused
  MaxGets     \* loads under way at once

ASSUME PagesConstants ==
  /\ \A p \in Pages : p.failed \subseteq {"keep", "empty", "gone"}
  /\ \A p \in Pages : p.skips => p.load = "effect" /\ ~p.drops
  /\ \A p \in Pages : \A a \in p.acts :
       /\ a.to \in [DOMAIN a.to -> p.statuses] /\ DOMAIN a.to \subseteq p.statuses \cup {Absent}
       /\ a.on \in {"row", "modal", "many", "new"} /\ (a.on = "new" => Absent \in DOMAIN a.to)
       /\ ~a.writes => {"patch", "patchReload"} \cap {a.ok, a.bad} = {}
  /\ MaxEvents \in Nat /\ MaxGets \in Nat \ {0}

\* Rows are patched where they are in a useState; a page of react-query loads them again.
ASSUME QueriesAreNotPatched ==
  \A p \in Pages : p.load = "query" => \A a \in p.acts : "patch" \notin {a.ok, a.bad}

VARIABLES
  page,     \* the page
  db,       \* the rows' statuses in the backend
  key,      \* the filter chosen
  cache,    \* what each slot holds
  gets,     \* the loads under way
  erred,    \* the last load failed
  jobs,     \* the mutations under way
  busy,     \* the busy flags that are up
  open,     \* the modal: None, or a row and the status it had
  mine,     \* history: rows whose last change is mine, and acknowledged, under this filter
  was,      \* history: the statuses each row has had in the backend
  events    \* how many of those so far

vars == <<page, db, key, cache, gets, erred, jobs, busy, open, mine, was, events>>

Statuses == page.statuses \cup {Absent}
Slots    == IF page.load = "query" THEN page.keys ELSE {"view"}
Slot(k)  == IF page.load = "query" THEN k ELSE "view"
Shown    == cache[Slot(key)]
Flags    == {a.sets : a \in page.acts}
Spent    == UNION {a.once : a \in page.acts}

\* A slot holds the rows, the key they were loaded for, and whether they are still valid.
Answer == [rows : [Rows -> Statuses], of : page.keys, valid : BOOLEAN]
Load   == [id : 1 .. MaxGets, of : page.keys, ans : [Rows -> Statuses] \cup {None}]
Job    == [id : 1 .. MaxEvents, act : page.acts, rows : SUBSET Rows, todo : SUBSET Rows, done : SUBSET Rows,
           to : [Rows -> Statuses], st : {"sent", "awaiting"}, of : page.keys]

TypeOK ==
  /\ page \in Pages
  /\ db \in [Rows -> Statuses]
  /\ key \in page.keys
  /\ DOMAIN cache = Slots /\ \A s \in Slots : cache[s] \in Answer \cup {None}
  /\ gets \subseteq Load /\ \A g, h \in gets : g.id = h.id => g = h
  /\ erred \in BOOLEAN
  /\ jobs \subseteq Job /\ \A i, j \in jobs : i.id = j.id => i = j
  /\ busy \subseteq Flags \cup Spent
  /\ open = None \/ open \in [row : Rows, status : Statuses]
  /\ mine \subseteq Rows
  /\ was \in [Rows -> SUBSET Statuses] /\ \A r \in Rows : db[r] \in was[r]

----------------------------------------------------------------------------
(* Loads. *)

FreeId(g) == CHOOSE i \in 1 .. MaxGets : \A h \in g : h.id # i

\* Mutant of Superseded: nothing is forgotten.
SupersededNever(k) == {}

\* Loads whose answers a load for k makes unwanted.
Superseded(k) ==
  IF page.drops THEN gets
  ELSE IF page.load = "query" THEN {g \in gets : g.of = k} ELSE {}

\* Mutant of Joins: every reload joins the load that is under way.
JoinsAlways(k) == \E g \in gets : g.of = k

\* A load for k shares the answer of one under way: the client merges identical
\* GETs, and react-query does not restart a query that has no data yet.
Joins(k) ==
  /\ \E g \in gets : g.of = k
  /\ page.merges \/ (page.load = "query" /\ cache[Slot(k)] = None)

\* What the backend has told a new load already: where all keys have one GET, another
\* key's load may be waiting for the same promise.
SharedAnswer == IF page.merges /\ page.oneGet /\ gets # {} THEN (CHOOSE g \in gets : TRUE).ans ELSE None

\* gets, once a load for k has been asked for.
Loading(k) ==
  IF Joins(k) THEN {g \in gets : g \notin Superseded(k) \/ g.of = k}
  ELSE LET kept == gets \ Superseded(k)
       IN kept \cup {[id |-> FreeId(kept), of |-> k, ans |-> SharedAnswer]}

\* The modal, once these jobs are over.
Closed(over) ==
  IF \E j \in over : j.act.closes = "always" \/ (j.act.closes = "done" /\ j.done = j.rows)
  THEN None ELSE open

\* Once these are the loads under way: handlers awaiting a reload that is over end.
Settle(gs) ==
  LET over == {j \in jobs : j.st = "awaiting" /\ \A g \in gs : g.of # j.of}
  IN /\ gets' = gs
     /\ jobs' = jobs \ over
     /\ open' = Closed(over)
     /\ busy' = (busy \ {j.act.sets : j \in over}) \cup UNION {j.act.once : j \in over}

Room(k) == Joins(k) \/ Cardinality(gets \ Superseded(k)) < MaxGets

Event == events < MaxEvents /\ events' = events + 1

Init ==
  /\ page \in Pages
  /\ db \in [Rows -> Statuses]
  /\ key \in page.keys
  /\ cache = [s \in Slots |-> None]
  /\ gets = {[id |-> 1, of |-> key, ans |-> None]}
  /\ erred = FALSE
  /\ jobs = {} /\ busy = {} /\ open = None
  /\ mine = {} /\ was = [r \in Rows |-> {db[r]}]
  /\ events = 0

\* The backend reads the rows.
Read(g) ==
  /\ g.ans = None
  /\ gets' = (gets \ {g}) \cup {[g EXCEPT !.ans = db]}
  /\ UNCHANGED <<page, db, key, cache, erred, jobs, busy, open, mine, was, events>>

Skipped(g) == page.skips /\ \A r \in Rows : g.ans[r] = Absent

\* The answer arrives and is shown: under its own key, or over whatever is there.
Land(g) ==
  /\ g.ans # None
  /\ Settle(gets \ {g})
  /\ cache' = IF Skipped(g) THEN cache
              ELSE [cache EXCEPT ![Slot(g.of)] = [rows |-> g.ans, of |-> g.of, valid |-> TRUE]]
  /\ erred' = IF Slot(g.of) = Slot(key) THEN FALSE ELSE erred
  /\ UNCHANGED <<page, db, key, mine, was, events>>

\* The load fails; some pages then show an empty list.
LoadFails(g) ==
  /\ Event
  /\ Settle(gets \ {g})
  /\ \E left \in page.failed :
       /\ cache' = CASE left = "keep" -> cache
                     [] left = "gone" -> [cache EXCEPT ![Slot(g.of)] = None]
                     [] OTHER -> [cache EXCEPT ![Slot(g.of)] =
                                   [rows |-> [r \in Rows |-> Absent], of |-> g.of, valid |-> TRUE]]
       /\ erred' = IF Slot(g.of) = Slot(key) THEN left # "empty" ELSE erred
  /\ UNCHANGED <<page, db, key, mine, was>>

\* Mutant of Due: polled until there is something to show.
DueUntilShown == page.poll = "interval" /\ Shown = None /\ \A g \in gets : g.of # key

\* refetchInterval: not while a load is under way.
Due == page.poll = "interval" /\ \A g \in gets : g.of # key

Poll ==
  /\ Due
  /\ Room(key) /\ gets' = Loading(key)
  /\ UNCHANGED <<page, db, key, cache, erred, jobs, busy, open, mine, was, events>>

\* The window gets the focus and the query is stale.
Refocus ==
  /\ page.poll = "focus"
  /\ Event
  /\ \A g \in gets : g.of # key
  /\ Room(key) /\ gets' = Loading(key)
  /\ UNCHANGED <<page, db, key, cache, erred, jobs, busy, open, mine, was>>

\* The user presses reload.
Reload ==
  /\ page.reload
  /\ Event
  /\ Room(key) /\ gets' = Loading(key)
  /\ UNCHANGED <<page, db, key, cache, erred, jobs, busy, open, mine, was>>

\* The user chooses a filter, a tab or a page of the list.
Choose(k) ==
  /\ k # key /\ key' = k
  /\ Event
  /\ \/ Room(k) /\ Settle(Loading(k))
     \/ /\ page.load = "query" /\ cache[k] # None /\ cache[k].valid   \* still fresh
        /\ Settle(IF page.drops THEN {} ELSE gets)
  /\ erred' = IF page.load = "query" THEN FALSE ELSE erred
  /\ mine' = {}
  /\ UNCHANGED <<page, db, cache, was>>

----------------------------------------------------------------------------
(* Acts. *)

\* The user opens a row's modal, which keeps a copy, or closes it.
OpenRow(r) ==
  /\ \E a \in page.acts : a.on = "modal" /\ Shown # None /\ Shown.rows[r] \in DOMAIN a.to
  /\ open = None /\ open' = [row |-> r, status |-> Shown.rows[r]]
  /\ UNCHANGED <<page, db, key, cache, gets, erred, jobs, busy, mine, was, events>>

CloseRow ==
  /\ open # None /\ open' = None
  /\ UNCHANGED <<page, db, key, cache, gets, erred, jobs, busy, mine, was, events>>

\* The status the control goes by.
Seen(a, r) ==
  CASE a.on = "modal" -> open.status
    [] a.on = "new"   -> Absent
    [] OTHER          -> Shown.rows[r]

\* The rows a press of the control can be for.
Targets(a) ==
  CASE a.on = "row"   -> {{r} : r \in {x \in Rows : Shown # None /\ Shown.rows[x] \in DOMAIN a.to}}
    [] a.on = "modal" -> IF open # None /\ open.status \in DOMAIN a.to THEN {{open.row}} ELSE {}
    [] a.on = "many"  -> {R \in SUBSET Rows : R # {} /\ Shown # None
                                              /\ \A r \in R : Shown.rows[r] \in DOMAIN a.to}
    [] a.on = "new"   -> {{r} : r \in {x \in Rows : db[x] = Absent
                                                     /\ \A j \in jobs : x \notin j.rows}}

\* Mutant of Raised: the flag goes up only when the request has been sent off.
RaisedLate(a) == busy

\* Mutant of Raised: a flag of its own instead of the shared one.
RaisedOwn(a) == busy \cup {a.name}

Raised(a) == busy \cup {a.sets}

\* The user presses a control that is offered and not disabled.
Click(a, R) ==
  /\ Event
  /\ R \in Targets(a)
  /\ a.reads \cap busy = {}
  /\ jobs' = jobs \cup {[id |-> events', act |-> a, rows |-> R, todo |-> R, done |-> {},
                         to |-> [r \in Rows |-> IF r \in R THEN a.to[Seen(a, r)] ELSE Absent],
                         st |-> "sent", of |-> key]}
  /\ busy' = Raised(a)
  /\ UNCHANGED <<page, db, key, cache, gets, erred, open, mine, was>>

\* The backend changes the row and says so, or the answer is lost, or it refuses.
Serve(j, r) ==
  /\ j.st = "sent" /\ r \in j.todo
  /\ \/ /\ db' = IF j.act.writes THEN [db EXCEPT ![r] = j.to[r]] ELSE db
        /\ was' = [was EXCEPT ![r] = @ \cup {db'[r]}]
        /\ mine' = mine \ {r}
        /\ \/ jobs' = (jobs \ {j}) \cup {[j EXCEPT !.todo = @ \ {r}, !.done = @ \cup {r}]}
              /\ UNCHANGED events
           \/ jobs' = (jobs \ {j}) \cup {[j EXCEPT !.todo = @ \ {r}]}
              /\ Event
     \/ /\ Event
        /\ jobs' = (jobs \ {j}) \cup {[j EXCEPT !.todo = @ \ {r}]}
        /\ UNCHANGED <<db, was, mine>>
  /\ UNCHANGED <<page, key, cache, gets, erred, busy, open>>

\* Mutant of Followup: the handler does not look at the answer.
FollowupUnchecked(j) == j.act.ok

\* What the handler does once the answers are in.
Followup(j) == IF j.done = j.rows THEN j.act.ok ELSE j.act.bad

\* The rows of the job, set in the page's own copy.
Patched(j) ==
  IF Shown = None THEN cache
  ELSE [cache EXCEPT ![Slot(key)].rows =
         [r \in Rows |-> IF r \in j.rows THEN j.to[r] ELSE Shown.rows[r]]]

\* invalidateQueries: every key's answer is invalid and the shown one is loaded again.
Outdated == [s \in Slots |-> IF cache[s] = None THEN None ELSE [cache[s] EXCEPT !.valid = FALSE]]

\* Mutant of Lowered: the flag comes down only after a success.
LoweredOnSuccess(j) ==
  IF j.done = j.rows THEN (busy \ {j.act.sets}) \cup j.act.once ELSE busy

Lowered(j) ==
  (busy \ {j.act.sets}) \cup (IF j.done = j.rows THEN j.act.once ELSE {})

\* The answers are in: the job's rows are reloaded or patched, and its flag comes down.
Finish(j) ==
  /\ j.st = "sent" /\ j.todo = {}
  /\ LET what == Followup(j)
         reload == what \in {"invalidate", "reload", "patchReload"}
     IN /\ reload => Room(key)
        /\ gets'  = IF reload THEN Loading(key) ELSE IF what = "leave" THEN {} ELSE gets
        /\ cache' = CASE what = "leave" -> [s \in Slots |-> None]
                      [] what = "invalidate" -> Outdated
                      [] what \in {"patch", "patchReload"} -> Patched(j)
                      [] OTHER -> cache
        /\ mine' = IF Shown # None /\ what = "invalidate" THEN mine \cup j.done ELSE mine
        /\ IF reload /\ j.act.awaits
           THEN /\ jobs' = (jobs \ {j}) \cup {[j EXCEPT !.st = "awaiting", !.of = key]}
                /\ UNCHANGED <<busy, open>>
           ELSE jobs' = jobs \ {j} /\ busy' = Lowered(j) /\ open' = Closed({j})
  /\ UNCHANGED <<page, db, key, erred, was, events>>

\* Somebody else changes a row.
Other(r, s) ==
  /\ Event
  /\ s # db[r] /\ db' = [db EXCEPT ![r] = s]
  /\ was' = [was EXCEPT ![r] = @ \cup {s}]
  /\ mine' = mine \ {r}
  /\ UNCHANGED <<page, key, cache, gets, erred, jobs, busy, open>>

Next ==
  \/ \E g \in gets : Read(g) \/ Land(g) \/ LoadFails(g)
  \/ Poll \/ Refocus \/ Reload \/ \E k \in page.keys : Choose(k)
  \/ \E r \in Rows : OpenRow(r)
  \/ CloseRow
  \/ \E a \in page.acts : \E R \in SUBSET Rows : Click(a, R)
  \/ \E j \in jobs : (\E r \in Rows : Serve(j, r)) \/ Finish(j)
  \/ \E r \in Rows : \E s \in page.statuses : Other(r, s)

Spec == Init /\ [][Next]_vars

\* Requests are answered or fail, timers fire, and promises run their callbacks.
Fairness ==
  /\ \A i \in 1 .. MaxGets : WF_vars(\E g \in gets : g.id = i /\ (Read(g) \/ Land(g)))
  /\ WF_vars(\E j \in jobs : (\E r \in Rows : Serve(j, r)) \/ Finish(j))
  /\ WF_vars(Poll)

FairSpec == Spec /\ Fairness

----------------------------------------------------------------------------
(* Properties. *)

\* Every control that raises the flag is disabled by it.
Honoured(f) == \A a \in page.acts : a.sets = f => f \in a.reads

\* Two requests made under a busy flag are never on the wire together, whatever
\* order the answers come in, if every control that raises the flag reads it.
OneAtATime ==
  \A i, j \in jobs : i.act.sets = j.act.sets /\ Honoured(i.act.sets) => i = j

\* A row is never shown in a status the backend never had for it, unless the
\* page patches rows without looking at the answer.
ShownWasTrue ==
  (\A a \in page.acts : a.bad \notin {"patch", "patchReload"}) =>
    \A s \in Slots : cache[s] # None =>
      \A r \in Rows : cache[s].rows[r] \in was[r] \cup (IF "empty" \in page.failed THEN {Absent} ELSE {})

\* Once its requests are over a page that invalidates its list shows the user's
\* own acknowledged changes, also when an older load was under way at the time.
OwnWriteShows ==
  page.load = "query" /\ ~page.merges /\ "empty" \notin page.failed /\ gets = {} /\ jobs = {} /\ ~erred /\ Shown # None =>
    \A r \in mine : Shown.rows[r] = db[r]

\* The rows shown are those of the chosen filter once its loads are over.
ShownIsForKey ==
  (page.load = "query" \/ page.drops) /\ gets = {} /\ ~erred /\ Shown # None
    => Shown.of = key

\* What a page shows was true of the backend at some time, and is what the chosen
\* filter asked for once its loads are over (queryKey, the effects' dependencies).
RowsAreTrue == ShownWasTrue /\ ShownIsForKey

\* A polled page shows what the backend has, for good, once the changes stop.
PolledConverges == page.poll = "interval" => <>[](Shown # None /\ Shown.rows = db)

\* No failure leaves a control disabled: every raised flag comes down.
BusyEnds == []<>(busy \cap Flags = {})

============================================================================
