--------------------------- MODULE ScreensProofs ---------------------------
(***************************************************************************)
(* What holds of every page record and of every form record: the theorems  *)
(* about Pages and about Forms, with the inductive invariants they need.   *)
(***************************************************************************)
EXTENDS MCPages, FiniteSetTheorems, TLAPS

----------------------------------------------------------------------------
(* Pages: the inductive invariant. *)

RowsShape ==
  /\ page \in Pages /\ key \in page.keys
  /\ db \in [Rows -> Statuses]
  /\ DOMAIN cache = Slots /\ \A s \in Slots : cache[s] \in Answer \cup {None}
  /\ erred \in BOOLEAN
  /\ open = None \/ open \in [row : Rows, status : Statuses]
  /\ mine \subseteq Rows
  /\ was \in [Rows -> SUBSET Statuses] /\ \A r \in Rows : db[r] \in was[r]
  /\ events \in 0 .. MaxEvents

LoadsShape ==
  /\ gets \subseteq Load /\ IsFiniteSet(gets)
  /\ \A g, h \in gets : g.id = h.id => g = h

\* Jobs are numbered by the event that started them.
JobsShape ==
  /\ jobs \subseteq Job /\ busy \subseteq Flags \cup Spent
  /\ \A i, j \in jobs : i.id = j.id => i = j
  /\ \A j \in jobs : j.id <= events

\* The flag of a job is up for as long as the job lasts, where its controls read it.
FlagsUp == \A j \in jobs : Honoured(j.act.sets) => j.act.sets \in busy

\* What a page may show of a row.
Had(r) == was[r] \cup (IF "empty" \in page.failed THEN {Absent} ELSE {})

Checked == \A a \in page.acts : a.bad \notin {"patch", "patchReload"}

\* Where answers are checked, all that can come to be shown has been true: the
\* rows shown, the answers of loads on their way, and what a job has had done.
CachedWereTrue == \A s \in Slots : cache[s] # None => \A r \in Rows : cache[s].rows[r] \in Had(r)
LoadedWereTrue == \A g \in gets : g.ans # None => \A r \in Rows : g.ans[r] \in was[r]
DoneWereTrue   == \A j \in jobs : j.act.writes => \A r \in j.done : j.to[r] \in was[r]
TrueRows == Checked => CachedWereTrue /\ LoadedWereTrue /\ DoneWereTrue

\* A slot of the query cache holds its own key's rows. A page that drops its loads
\* has loads of the chosen key only, and one if it shows another key's rows.
Stale == cache["view"] # None /\ cache["view"].of # key
ForKey ==
  /\ page.load = "query" => \A s \in Slots : cache[s] # None => cache[s].of = s
  /\ page.load # "query" /\ page.drops =>
       /\ \A g \in gets : g.of = key
       /\ Stale => gets # {} \/ erred

\* A change of mine is in every answer the chosen key still waits for, and on the
\* screen unless the screen waits for such an answer.
Reloading == \E g \in gets : g.of = key
Refetches == page.load = "query" /\ ~page.merges /\ "empty" \notin page.failed
OwnWrites ==
  Refetches =>
    \A r \in mine :
      /\ \A g \in gets : g.of = key /\ g.ans # None => g.ans[r] = db[r]
      /\ cache[key] # None => cache[key].rows[r] = db[r] \/ erred \/ Reloading

PagesInv ==
  RowsShape /\ LoadsShape /\ JobsShape /\ FlagsUp /\ OneAtATime /\ TrueRows /\ ForKey /\ OwnWrites

----------------------------------------------------------------------------
(* Pages: lemmas. *)

\* What is made of the page's record does not change while the page is there.
LEMMA SamePage ==
  ASSUME page' = page
  PROVE  /\ Statuses' = Statuses /\ Slots' = Slots /\ Answer' = Answer /\ Load' = Load
         /\ Job' = Job /\ Flags' = Flags /\ Spent' = Spent /\ Checked' = Checked
         /\ Refetches' = Refetches
         /\ \A f : Honoured(f)' = Honoured(f)
         /\ \A k : Slot(k)' = Slot(k)
<1>1. Statuses' = Statuses /\ Slots' = Slots
  BY DEF Statuses, Slots
<1>2. Answer' = Answer /\ Load' = Load /\ Job' = Job
  BY <1>1 DEF Answer, Load, Job
<1>3. Flags' = Flags /\ Spent' = Spent /\ Checked' = Checked /\ Refetches' = Refetches
  BY DEF Flags, Spent, Checked, Refetches
<1>4. \A f : Honoured(f)' = Honoured(f)
  BY DEF Honoured
<1>5. \A k : Slot(k)' = Slot(k)
  BY DEF Slot
<1> QED
  BY <1>1, <1>2, <1>3, <1>4, <1>5

\* A free number is found while fewer loads than numbers are under way.
LEMMA FreeIdIsFree ==
  ASSUME NEW S, IsFiniteSet(S), Cardinality(S) < MaxGets
  PROVE  FreeId(S) \in 1 .. MaxGets /\ \A h \in S : h.id # FreeId(S)
<1>1. \E i \in 1 .. MaxGets : \A h \in S : h.id # i
  <2> SUFFICES ASSUME \A i \in 1 .. MaxGets : \E h \in S : h.id = i PROVE FALSE
    OBVIOUS
  <2> DEFINE f == [i \in 1 .. MaxGets |-> CHOOSE h \in S : h.id = i]
  <2>1. \A i \in 1 .. MaxGets : f[i] \in S /\ f[i].id = i
    OBVIOUS
  <2>2. f \in [1 .. MaxGets -> S]
    BY <2>1
  <2>3. IsFiniteSet(1 .. MaxGets) /\ Cardinality(1 .. MaxGets) = MaxGets
    BY PagesConstants, FS_Interval
  <2> HIDE DEF f
  <2>4. \E x, y \in 1 .. MaxGets : x # y /\ f[x] = f[y]
    <3>1. IsFiniteSet(S) /\ Cardinality(S) < Cardinality(1 .. MaxGets)
      BY <2>3
    <3> QED
      BY ONLY <2>2, <2>3, <3>1, FS_PigeonHole
  <2> QED
    BY <2>1, <2>4
<1> QED
  BY <1>1 DEF FreeId

\* The answer a new load shares is that of a load under way, and none where requests are not merged.
LEMMA SharedAnswerIs ==
  /\ SharedAnswer # None => \E g \in gets : g.ans = SharedAnswer
  /\ ~page.merges => SharedAnswer = None
BY DEF SharedAnswer

\* A load asked for: the loads are still numbered, there is one for the key, and
\* it is one of those there were or has read no more than they have.
LEMMA LoadingIs ==
  ASSUME LoadsShape, NEW k \in page.keys, Room(k)
  PROVE  /\ Loading(k) \subseteq Load /\ IsFiniteSet(Loading(k))
         /\ \A g, h \in Loading(k) : g.id = h.id => g = h
         /\ \E g \in Loading(k) : g.of = k
         /\ \A g \in Loading(k) : g \in gets \/ (g.of = k /\ g.ans = SharedAnswer)
<1>1. CASE Joins(k)
  <2>1. Loading(k) = {g \in gets : g \notin Superseded(k) \/ g.of = k}
    BY <1>1 DEF Loading
  <2>2. \E g \in gets : g.of = k
    BY <1>1 DEF Joins
  <2>3. IsFiniteSet(Loading(k))
    BY <2>1, FS_Subset DEF LoadsShape
  <2> QED
    BY <2>1, <2>2, <2>3 DEF LoadsShape
<1>2. CASE ~Joins(k)
  <2> DEFINE kept == gets \ Superseded(k)
             new  == [id |-> FreeId(kept), of |-> k, ans |-> SharedAnswer]
  <2>1. Loading(k) = kept \cup {new}
    BY <1>2 DEF Loading
  <2>2. IsFiniteSet(kept) /\ Cardinality(kept) < MaxGets
    BY <1>2, FS_Subset DEF LoadsShape, Room
  <2>3. FreeId(kept) \in 1 .. MaxGets /\ \A h \in kept : h.id # FreeId(kept)
    BY <2>2, FreeIdIsFree
  <2>4. new \in Load /\ new.of = k /\ new.ans = SharedAnswer /\ new.id = FreeId(kept)
    <3>1. SharedAnswer \in [Rows -> Statuses] \cup {None}
      BY SharedAnswerIs DEF LoadsShape, Load
    <3> QED
      BY <2>3, <3>1 DEF Load
  <2>5. IsFiniteSet(kept \cup {new})
    BY <2>2, FS_AddElement
  <2> HIDE DEF new
  <2> QED
    BY <2>1, <2>3, <2>4, <2>5 DEF LoadsShape
<1> QED
  BY <1>1, <1>2

\* What every step does to the page's record and to the count of events.
Later == page' = page /\ events' \in 0 .. MaxEvents /\ events <= events'

LEMMA EventIsLater ==
  ASSUME RowsShape, page' = page, Event \/ events' = events
  PROVE  Later
<1>1. events \in 0 .. MaxEvents /\ MaxEvents \in Nat
  BY PagesConstants DEF RowsShape
<1> QED
  BY <1>1 DEF Event, Later

\* Jobs end, none starts, and no flag comes down that one of the others holds.
LEMMA FewerJobs ==
  ASSUME RowsShape, JobsShape, FlagsUp, OneAtATime, Later,
         jobs' \subseteq jobs, busy' \subseteq Flags \cup Spent,
         \A j \in jobs' : Honoured(j.act.sets) => j.act.sets \in busy'
  PROVE  JobsShape' /\ FlagsUp' /\ OneAtATime'
<1>0. page' = page
  BY DEF Later
<1>1. \A j \in jobs' : j.id <= events'
  <2>1. \A j \in jobs : j.id \in Nat /\ j.id <= events
    BY DEF JobsShape, Job
  <2>2. events \in Nat /\ events' \in Nat /\ events <= events'
    BY DEF RowsShape, Later
  <2> QED
    BY <2>1, <2>2
<1>2. JobsShape'
  BY <1>0, <1>1, SamePage DEF JobsShape
<1>3. FlagsUp'
  BY <1>0, SamePage DEF FlagsUp
<1>4. OneAtATime'
  BY <1>0, SamePage DEF OneAtATime
<1> QED
  BY <1>2, <1>3, <1>4

LEMMA SameJobs ==
  ASSUME RowsShape, JobsShape, FlagsUp, OneAtATime, Later, jobs' = jobs, busy' = busy
  PROVE  JobsShape' /\ FlagsUp' /\ OneAtATime'
BY FewerJobs DEF JobsShape, FlagsUp

\* Handlers that waited for a load end with it; of the jobs that stay none has lost its flag.
LEMMA Settled ==
  ASSUME RowsShape, JobsShape, FlagsUp, OneAtATime, Later, NEW gs, Settle(gs)
  PROVE  /\ gets' = gs /\ jobs' \subseteq jobs /\ JobsShape' /\ FlagsUp' /\ OneAtATime'
         /\ open' \in {open, None}
<1> DEFINE over == {j \in jobs : j.st = "awaiting" /\ \A g \in gs : g.of # j.of}
<1>1. /\ gets' = gs /\ jobs' = jobs \ over
      /\ busy' = (busy \ {j.act.sets : j \in over}) \cup UNION {j.act.once : j \in over}
      /\ open' \in {open, None}
  BY DEF Settle, Closed
<1>2. over \subseteq jobs
  OBVIOUS
<1>3. \A j \in jobs : j.act \in page.acts
  BY DEF JobsShape, Job
<1> HIDE DEF over
<1>4. UNION {j.act.once : j \in over} \subseteq Spent
  BY <1>2, <1>3 DEF Spent
<1>5. busy' \subseteq Flags \cup Spent
  BY <1>1, <1>4 DEF JobsShape
<1>6. \A j \in jobs' : Honoured(j.act.sets) => j.act.sets \in busy'
  <2> SUFFICES ASSUME NEW j \in jobs', Honoured(j.act.sets) PROVE j.act.sets \in busy'
    OBVIOUS
  <2>1. j \in jobs /\ j \notin over
    BY <1>1
  <2>2. j.act.sets \in busy
    BY <2>1 DEF FlagsUp
  <2>3. \A i \in over : i.act.sets # j.act.sets
    BY <1>2, <2>1 DEF OneAtATime
  <2> QED
    BY <1>1, <2>2, <2>3
<1> QED
  BY <1>1, <1>5, <1>6, FewerJobs

----------------------------------------------------------------------------
(* Pages: loads. *)

\* What was true stays true while nothing new is shown, loaded or done.
LEMMA StillTrue ==
  ASSUME TrueRows, page' = page, cache' = cache, was' = was,
         \A g \in gets' : g \in gets \/ g.ans = SharedAnswer, jobs' \subseteq jobs
  PROVE  TrueRows'
<1>1. Checked' = Checked /\ Slots' = Slots /\ \A r : Had(r)' = Had(r)
  BY SamePage DEF Had
<1>2. ASSUME Checked
      PROVE  CachedWereTrue' /\ LoadedWereTrue' /\ DoneWereTrue'
  <2>1. CachedWereTrue /\ LoadedWereTrue /\ DoneWereTrue
    BY <1>2 DEF TrueRows
  <2>2. CachedWereTrue'
    BY <1>1, <2>1 DEF CachedWereTrue
  <2>3. LoadedWereTrue'
    BY <2>1, SharedAnswerIs DEF LoadedWereTrue
  <2>4. DoneWereTrue'
    BY <2>1 DEF DoneWereTrue
  <2> QED
    BY <2>2, <2>3, <2>4
<1> QED
  BY <1>1, <1>2 DEF TrueRows

\* The backend reads the rows: the answer is what they are now.
LEMMA ReadKeeps ==
  ASSUME PagesInv, NEW g \in gets, Read(g)
  PROVE  PagesInv'
<1> DEFINE answered == [g EXCEPT !.ans = db]
<1>1. /\ g.ans = None /\ gets' = (gets \ {g}) \cup {answered}
      /\ UNCHANGED <<page, db, key, cache, erred, jobs, busy, open, mine, was, events>>
  BY DEF Read
<1>2. RowsShape /\ LoadsShape /\ JobsShape /\ FlagsUp /\ OneAtATime /\ TrueRows /\ ForKey /\ OwnWrites
  BY DEF PagesInv
<1>3. answered \in Load /\ answered.id = g.id /\ answered.of = g.of /\ answered.ans = db
  BY <1>2 DEF LoadsShape, RowsShape, Load
<1> HIDE DEF answered
<1>4. RowsShape'
  BY <1>1, <1>2, SamePage DEF RowsShape
<1>5. LoadsShape'
  <2>1. gets' \subseteq Load'
    BY <1>1, <1>2, <1>3, SamePage DEF LoadsShape
  <2>2. IsFiniteSet(gets')
    BY <1>1, <1>2, FS_RemoveElement, FS_AddElement DEF LoadsShape
  <2>3. \A a, b \in gets' : a.id = b.id => a = b
    BY <1>1, <1>2, <1>3 DEF LoadsShape
  <2> QED
    BY <2>1, <2>2, <2>3 DEF LoadsShape
<1>6. JobsShape' /\ FlagsUp' /\ OneAtATime'
  BY <1>1, <1>2, EventIsLater, SameJobs
<1>7. TrueRows'
  <2>1. Checked' = Checked /\ Slots' = Slots /\ \A r : Had(r)' = Had(r)
    BY <1>1, SamePage DEF Had
  <2>2. ASSUME Checked
        PROVE  CachedWereTrue' /\ LoadedWereTrue' /\ DoneWereTrue'
    <3>1. CachedWereTrue /\ LoadedWereTrue /\ DoneWereTrue
      BY <1>2, <2>2 DEF TrueRows
    <3>2. CachedWereTrue' /\ DoneWereTrue'
      BY <1>1, <2>1, <3>1 DEF CachedWereTrue, DoneWereTrue
    <3>3. LoadedWereTrue'
      BY <1>1, <1>2, <1>3, <3>1 DEF LoadedWereTrue, RowsShape
    <3> QED
      BY <3>2, <3>3
  <2> QED
    BY <2>1, <2>2 DEF TrueRows
<1>8. ForKey'
  BY <1>1, <1>2, <1>3, SamePage DEF ForKey, Stale
<1>9. OwnWrites'
  <2>1. Reloading' = Reloading
    BY <1>1, <1>3 DEF Reloading
  <2> QED
    BY <1>1, <1>2, <1>3, <2>1, SamePage DEF OwnWrites
<1> QED
  BY <1>4, <1>5, <1>6, <1>7, <1>8, <1>9 DEF PagesInv

LEMMA SlotsOfKeys ==
  ASSUME NEW k \in page.keys
  PROVE  Slot(k) \in Slots /\ (page.load = "query" => Slot(k) = k)
BY DEF Slot, Slots

\* An answer lands: it is true, of the slot's key, and has my writes.
LEMMA LandKeeps ==
  ASSUME PagesInv, NEW g \in gets, Land(g)
  PROVE  PagesInv'
<1> DEFINE shown == [rows |-> g.ans, of |-> g.of, valid |-> TRUE]
<1>1. /\ g.ans # None /\ Settle(gets \ {g})
      /\ cache' = IF Skipped(g) THEN cache ELSE [cache EXCEPT ![Slot(g.of)] = shown]
      /\ erred' = IF Slot(g.of) = Slot(key) THEN FALSE ELSE erred
      /\ UNCHANGED <<page, db, key, mine, was, events>>
  BY DEF Land
<1>2. RowsShape /\ LoadsShape /\ JobsShape /\ FlagsUp /\ OneAtATime /\ TrueRows /\ ForKey /\ OwnWrites
  BY DEF PagesInv
<1>3. g.ans \in [Rows -> Statuses] /\ g.of \in page.keys /\ key \in page.keys
  BY <1>1, <1>2 DEF LoadsShape, RowsShape, Load
<1>4. shown \in Answer /\ shown.rows = g.ans /\ shown.of = g.of
  BY <1>3 DEF Answer
<1> HIDE DEF shown
<1>5. Slot(g.of) \in Slots /\ Slot(key) \in Slots
  BY <1>3, SlotsOfKeys
<1>6. /\ DOMAIN cache' = Slots
      /\ \A s \in Slots : \/ cache'[s] = cache[s] /\ (s = Slot(g.of) => Skipped(g))
                          \/ cache'[s] = shown /\ s = Slot(g.of)
  <2>1. DOMAIN cache = Slots
    BY <1>2 DEF RowsShape
  <2>2. CASE Skipped(g)
    BY <1>1, <2>1, <2>2
  <2>3. CASE ~Skipped(g)
    BY <1>1, <1>5, <2>1, <2>3
  <2> QED
    BY <2>2, <2>3
<1>14. Skipped(g) => page.load = "effect" /\ ~page.drops
  BY <1>2, PagesConstants DEF Skipped, RowsShape
<1>8. /\ gets' = gets \ {g} /\ jobs' \subseteq jobs /\ JobsShape' /\ FlagsUp' /\ OneAtATime'
      /\ open' \in {open, None}
  <2>1. Later
    BY <1>1, <1>2, EventIsLater
  <2> QED
    BY <1>1, <1>2, <2>1, Settled
<1>7. RowsShape'
  <2>1. \A s \in Slots : cache'[s] \in Answer \cup {None}
    BY <1>2, <1>4, <1>6 DEF RowsShape
  <2>2. erred' \in BOOLEAN
    BY <1>1, <1>2 DEF RowsShape
  <2>3. open' = None \/ open' \in [row : Rows, status : Statuses]
    BY <1>2, <1>8 DEF RowsShape
  <2> QED
    BY <1>1, <1>2, <1>6, <2>1, <2>2, <2>3, SamePage DEF RowsShape
<1>9. LoadsShape'
  BY <1>1, <1>2, <1>8, SamePage, FS_RemoveElement DEF LoadsShape
<1>10. TrueRows'
  <2>1. Checked' = Checked /\ Slots' = Slots /\ \A r : Had(r)' = Had(r)
    BY <1>1, SamePage DEF Had
  <2>2. ASSUME Checked
        PROVE  CachedWereTrue' /\ LoadedWereTrue' /\ DoneWereTrue'
    <3>1. CachedWereTrue /\ LoadedWereTrue /\ DoneWereTrue
      BY <1>2, <2>2 DEF TrueRows
    <3>2. \A r \in Rows : g.ans[r] \in Had(r)
      BY <1>1, <3>1 DEF LoadedWereTrue, Had
    <3>3. CachedWereTrue'
      BY <1>4, <1>6, <2>1, <3>1, <3>2 DEF CachedWereTrue
    <3>4. LoadedWereTrue' /\ DoneWereTrue'
      BY <1>1, <1>8, <3>1 DEF LoadedWereTrue, DoneWereTrue
    <3> QED
      BY <3>3, <3>4
  <2> QED
    BY <2>1, <2>2 DEF TrueRows
<1>11. ForKey'
  <2>1. ASSUME page.load = "query", NEW s \in Slots, cache'[s] # None PROVE cache'[s].of = s
    BY <1>2, <1>3, <1>4, <1>6, <2>1, SlotsOfKeys DEF ForKey
  <2>2. ASSUME page.load # "query", page.drops
        PROVE  (\A h \in gets' : h.of = key) /\ ~Stale'
    <3>1. \A h \in gets : h.of = key
      BY <1>2, <2>2 DEF ForKey
    <3>2. cache'["view"] = shown
      BY <1>6, <1>5, <1>14, <2>2 DEF Slot
    <3> QED
      BY <1>1, <1>4, <1>8, <3>1, <3>2 DEF Stale
  <2> QED
    BY <1>1, <2>1, <2>2, SamePage DEF ForKey
<1>12. OwnWrites'
  <2> SUFFICES ASSUME Refetches, NEW r \in mine
               PROVE  /\ \A h \in gets' : h.of = key /\ h.ans # None => h.ans[r] = db[r]
                      /\ cache'[key] # None => cache'[key].rows[r] = db[r] \/ erred' \/ Reloading'
    BY <1>1, SamePage DEF OwnWrites
  <2>1. /\ \A h \in gets : h.of = key /\ h.ans # None => h.ans[r] = db[r]
        /\ cache[key] # None => cache[key].rows[r] = db[r] \/ erred \/ Reloading
    BY <1>2 DEF OwnWrites
  <2>2. Slot(key) = key /\ Slot(g.of) = g.of
    BY <1>3, SlotsOfKeys DEF Refetches
  <2>3. CASE g.of = key
    <3>1. ~Skipped(g)
      BY <1>14 DEF Refetches
    <3>2. cache'[key] = shown
      BY <1>5, <1>6, <2>2, <2>3, <3>1
    <3> QED
      BY <1>1, <1>4, <1>8, <2>1, <2>3, <3>2
  <2>4. CASE g.of # key
    <3>1. Reloading => Reloading'
      BY <1>1, <1>8, <2>4 DEF Reloading
    <3>2. cache'[key] = cache[key] /\ erred' = erred
      BY <1>1, <1>5, <1>6, <2>2, <2>4
    <3> QED
      BY <1>8, <2>1, <3>1, <3>2
  <2> QED
    BY <2>3, <2>4
<1> QED
  BY <1>7, <1>8, <1>9, <1>10, <1>11, <1>12 DEF PagesInv

\* A load fails: the slot keeps its rows and says so, or holds nothing, or an empty list.
LEMMA LoadFailsKeeps ==
  ASSUME PagesInv, NEW g \in gets, LoadFails(g)
  PROVE  PagesInv'
<1> DEFINE empty == [rows |-> [r \in Rows |-> Absent], of |-> g.of, valid |-> TRUE]
<1>1. PICK left \in page.failed :
        /\ Event /\ Settle(gets \ {g})
        /\ cache' = CASE left = "keep" -> cache
                      [] left = "gone" -> [cache EXCEPT ![Slot(g.of)] = None]
                      [] OTHER -> [cache EXCEPT ![Slot(g.of)] = empty]
        /\ erred' = IF Slot(g.of) = Slot(key) THEN left # "empty" ELSE erred
        /\ UNCHANGED <<page, db, key, mine, was>>
  BY DEF LoadFails
<1>2. RowsShape /\ LoadsShape /\ JobsShape /\ FlagsUp /\ OneAtATime /\ TrueRows /\ ForKey /\ OwnWrites
  BY DEF PagesInv
<1>3. g.of \in page.keys /\ key \in page.keys /\ left \in {"keep", "empty", "gone"}
  BY <1>2, PagesConstants DEF LoadsShape, RowsShape, Load
<1>4. empty \in Answer /\ empty.rows = [r \in Rows |-> Absent] /\ empty.of = g.of
  BY <1>3 DEF Answer, Statuses
<1> HIDE DEF empty
<1>5. Slot(g.of) \in Slots /\ Slot(key) \in Slots
  BY <1>3, SlotsOfKeys
<1>6. /\ DOMAIN cache' = Slots
      /\ \A s \in Slots : \/ cache'[s] = cache[s] /\ (s = Slot(g.of) => left = "keep")
                          \/ cache'[s] = None /\ s = Slot(g.of) /\ left = "gone"
                          \/ cache'[s] = empty /\ s = Slot(g.of) /\ left = "empty"
  <2>1. DOMAIN cache = Slots
    BY <1>2 DEF RowsShape
  <2>2. CASE left = "keep"
    BY <1>1, <2>1, <2>2
  <2>3. CASE left = "gone"
    BY <1>1, <1>5, <2>1, <2>3
  <2>4. CASE left = "empty"
    BY <1>1, <1>5, <2>1, <2>4
  <2> QED
    BY <1>3, <2>2, <2>3, <2>4
<1>7. Later
  BY <1>1, <1>2, EventIsLater
<1>9. /\ gets' = gets \ {g} /\ jobs' \subseteq jobs /\ JobsShape' /\ FlagsUp' /\ OneAtATime'
      /\ open' \in {open, None}
  BY <1>1, <1>2, <1>7, Settled
<1>8. RowsShape'
  <2>1. \A s \in Slots : cache'[s] \in Answer \cup {None}
    BY <1>2, <1>4, <1>6 DEF RowsShape
  <2>2. erred' \in BOOLEAN
    BY <1>1, <1>2 DEF RowsShape
  <2>3. open' = None \/ open' \in [row : Rows, status : Statuses]
    BY <1>2, <1>9 DEF RowsShape
  <2> QED
    BY <1>1, <1>2, <1>6, <1>7, <2>1, <2>2, <2>3, SamePage DEF RowsShape, Later
<1>10. LoadsShape'
  BY <1>1, <1>2, <1>9, SamePage, FS_RemoveElement DEF LoadsShape
<1>11. TrueRows'
  <2>1. Checked' = Checked /\ Slots' = Slots /\ \A r : Had(r)' = Had(r)
    BY <1>1, SamePage DEF Had
  <2>2. ASSUME Checked
        PROVE  CachedWereTrue' /\ LoadedWereTrue' /\ DoneWereTrue'
    <3>1. CachedWereTrue /\ LoadedWereTrue /\ DoneWereTrue
      BY <1>2, <2>2 DEF TrueRows
    <3>2. left = "empty" => \A r \in Rows : empty.rows[r] \in Had(r)
      BY <1>4 DEF Had
    <3>3. CachedWereTrue'
      BY <1>6, <2>1, <3>1, <3>2 DEF CachedWereTrue
    <3>4. LoadedWereTrue' /\ DoneWereTrue'
      BY <1>1, <1>9, <3>1 DEF LoadedWereTrue, DoneWereTrue
    <3> QED
      BY <3>3, <3>4
  <2> QED
    BY <2>1, <2>2 DEF TrueRows
<1>12. ForKey'
  <2>1. ASSUME page.load = "query", NEW s \in Slots, cache'[s] # None PROVE cache'[s].of = s
    BY <1>2, <1>3, <1>4, <1>6, <2>1, SlotsOfKeys DEF ForKey
  <2>2. ASSUME page.load # "query", page.drops
        PROVE  (\A h \in gets' : h.of = key) /\ (Stale' => erred')
    <3>1. \A h \in gets : h.of = key
      BY <1>2, <2>2 DEF ForKey
    <3>2. Slot(g.of) = "view" /\ Slot(key) = "view" /\ "view" \in Slots
      BY <2>2 DEF Slot, Slots
    <3>3. Stale' => erred'
      BY <1>1, <1>4, <1>6, <3>1, <3>2 DEF Stale
    <3> QED
      BY <1>9, <3>1, <3>3
  <2> QED
    BY <1>1, <2>1, <2>2, SamePage DEF ForKey
<1>13. OwnWrites'
  <2> SUFFICES ASSUME Refetches, NEW r \in mine
               PROVE  /\ \A h \in gets' : h.of = key /\ h.ans # None => h.ans[r] = db[r]
                      /\ cache'[key] # None => cache'[key].rows[r] = db[r] \/ erred' \/ Reloading'
    BY <1>1, SamePage DEF OwnWrites
  <2>1. /\ \A h \in gets : h.of = key /\ h.ans # None => h.ans[r] = db[r]
        /\ cache[key] # None => cache[key].rows[r] = db[r] \/ erred \/ Reloading
    BY <1>2 DEF OwnWrites
  <2>2. Slot(key) = key /\ Slot(g.of) = g.of /\ left # "empty"
    BY <1>3, SlotsOfKeys DEF Refetches
  <2>3. CASE g.of = key
    BY <1>1, <1>9, <2>1, <2>2, <2>3
  <2>4. CASE g.of # key
    <3>1. Reloading => Reloading'
      BY <1>1, <1>9, <2>4 DEF Reloading
    <3>2. cache'[key] = cache[key] /\ erred' = erred
      BY <1>1, <1>5, <1>6, <2>2, <2>4
    <3> QED
      BY <1>9, <2>1, <3>1, <3>2
  <2> QED
    BY <2>3, <2>4
<1> QED
  BY <1>8, <1>9, <1>10, <1>11, <1>12, <1>13 DEF PagesInv

\* A load for the chosen key is asked for: by the poll, the focus, the button, a handler.
LEMMA AskingKeeps ==
  ASSUME PagesInv, Later, Room(key), gets' = Loading(key),
         UNCHANGED <<page, db, key, cache, erred, jobs, busy, open, mine, was>>
  PROVE  PagesInv'
<1>1. RowsShape /\ LoadsShape /\ JobsShape /\ FlagsUp /\ OneAtATime /\ TrueRows /\ ForKey /\ OwnWrites
  BY DEF PagesInv
<1>2. key \in page.keys
  BY <1>1 DEF RowsShape
<1>3. /\ gets' \subseteq Load /\ IsFiniteSet(gets')
      /\ \A g, h \in gets' : g.id = h.id => g = h
      /\ \E g \in gets' : g.of = key
      /\ \A g \in gets' : g \in gets \/ (g.of = key /\ g.ans = SharedAnswer)
  BY <1>1, <1>2, LoadingIs
<1>4. RowsShape'
  BY <1>1, SamePage DEF RowsShape, Later
<1>5. LoadsShape'
  BY <1>3, SamePage DEF LoadsShape
<1>6. JobsShape' /\ FlagsUp' /\ OneAtATime'
  BY <1>1, SameJobs
<1>7. TrueRows'
  BY <1>1, <1>3, StillTrue
<1>8. ForKey'
  BY <1>1, <1>3, SamePage DEF ForKey, Stale
<1>9. OwnWrites'
  <2>1. Reloading'
    BY <1>3 DEF Reloading
  <2>2. Refetches => SharedAnswer = None
    BY SharedAnswerIs DEF Refetches
  <2> QED
    BY <1>1, <1>3, <2>1, <2>2, SamePage DEF OwnWrites
<1> QED
  BY <1>4, <1>5, <1>6, <1>7, <1>8, <1>9 DEF PagesInv

\* Another key is chosen: it is loaded, or its slot is fresh. Nothing is mine there yet.
LEMMA ChooseKeeps ==
  ASSUME PagesInv, NEW k \in page.keys, Choose(k)
  PROVE  PagesInv'
<1>1. /\ k # key /\ key' = k /\ Event /\ mine' = {}
      /\ \/ Room(k) /\ Settle(Loading(k))
         \/ page.load = "query" /\ Settle(IF page.drops THEN {} ELSE gets)
      /\ erred' = IF page.load = "query" THEN FALSE ELSE erred
      /\ UNCHANGED <<page, db, cache, was>>
  BY DEF Choose
<1>2. RowsShape /\ LoadsShape /\ JobsShape /\ FlagsUp /\ OneAtATime /\ TrueRows /\ ForKey /\ OwnWrites
  BY DEF PagesInv
<1>3. Later
  BY <1>1, <1>2, EventIsLater
<1>4. /\ jobs' \subseteq jobs /\ JobsShape' /\ FlagsUp' /\ OneAtATime'
      /\ open' \in {open, None}
      /\ \/ Room(k) /\ gets' = Loading(k)
         \/ page.load = "query" /\ gets' = IF page.drops THEN {} ELSE gets
  <2>1. CASE Room(k) /\ Settle(Loading(k))
    BY <1>2, <1>3, <2>1, Settled
  <2>2. CASE page.load = "query" /\ Settle(IF page.drops THEN {} ELSE gets)
    BY <1>2, <1>3, <2>2, Settled
  <2> QED
    BY <1>1, <2>1, <2>2
<1>5. /\ LoadsShape' /\ \A g \in gets' : g \in gets \/ g.ans = SharedAnswer
  <2>1. CASE Room(k) /\ gets' = Loading(k)
    BY <1>1, <1>2, <2>1, LoadingIs, SamePage DEF LoadsShape
  <2>2. CASE gets' = {}
    BY <2>2, FS_EmptySet DEF LoadsShape
  <2>3. CASE gets' = gets
    BY <1>1, <1>2, <2>3, SamePage DEF LoadsShape
  <2> QED
    BY <1>4, <2>1, <2>2, <2>3
<1>6. RowsShape'
  <2>1. open' = None \/ open' \in [row : Rows, status : Statuses]
    BY <1>2, <1>4 DEF RowsShape
  <2> QED
    BY <1>1, <1>2, <1>3, <2>1, SamePage DEF RowsShape, Later
<1>7. TrueRows'
  BY <1>1, <1>2, <1>4, <1>5, StillTrue
<1>8. ForKey'
  <2>1. ASSUME page.load # "query", page.drops
        PROVE  gets' # {} /\ \A g \in gets' : g.of = k
    <3>1. gets' = Loading(k) /\ Superseded(k) = gets
      BY <1>4, <2>1 DEF Superseded
    <3>2. \A g \in gets : g.of # k
      BY <1>1, <1>2, <2>1 DEF ForKey
    <3>3. ~Joins(k)
      BY <3>2 DEF Joins
    <3> DEFINE new == [id |-> FreeId(gets \ gets), of |-> k, ans |-> SharedAnswer]
    <3>4. gets' = (gets \ gets) \cup {new}
      BY <3>1, <3>3 DEF Loading
    <3>5. new.of = k
      OBVIOUS
    <3> HIDE DEF new
    <3> QED
      BY <3>4, <3>5
  <2> QED
    BY <1>1, <1>2, <2>1, SamePage DEF ForKey, Stale
<1>9. OwnWrites'
  BY <1>1 DEF OwnWrites
<1> QED
  BY <1>4, <1>5, <1>6, <1>7, <1>8, <1>9 DEF PagesInv

\* Nothing but the modal changes, if that.
LEMMA ModalKeeps ==
  ASSUME PagesInv, open' = None \/ open' \in [row : Rows, status : Statuses],
         UNCHANGED <<page, db, key, cache, gets, erred, jobs, busy, mine, was, events>>
  PROVE  PagesInv'
<1>1. RowsShape /\ LoadsShape /\ JobsShape /\ FlagsUp /\ OneAtATime /\ TrueRows /\ ForKey /\ OwnWrites
  BY DEF PagesInv
<1>2. RowsShape' /\ LoadsShape'
  BY <1>1, SamePage DEF RowsShape, LoadsShape
<1>3. JobsShape' /\ FlagsUp' /\ OneAtATime'
  BY <1>1, EventIsLater, SameJobs
<1>4. TrueRows'
  BY <1>1, StillTrue
<1>5. ForKey' /\ OwnWrites'
  BY <1>1, SamePage DEF ForKey, Stale, OwnWrites, Reloading
<1> QED
  BY <1>2, <1>3, <1>4, <1>5 DEF PagesInv

LEMMA OpenRowKeeps ==
  ASSUME PagesInv, NEW r \in Rows, OpenRow(r)
  PROVE  PagesInv'
<1>1. /\ Shown # None /\ open' = [row |-> r, status |-> Shown.rows[r]]
      /\ UNCHANGED <<page, db, key, cache, gets, erred, jobs, busy, mine, was, events>>
  BY DEF OpenRow
<1>2. Shown \in Answer
  BY <1>1, SlotsOfKeys DEF PagesInv, RowsShape, Shown
<1>3. Shown.rows[r] \in Statuses
  BY <1>2 DEF Answer
<1> QED
  BY <1>1, <1>3, ModalKeeps

----------------------------------------------------------------------------
(* Pages: acts. *)

\* A target's status is one that the control is offered for.
LEMMA TargetsAreOffered ==
  ASSUME RowsShape, NEW a \in page.acts, NEW R \in Targets(a), R \subseteq Rows, NEW r \in R
  PROVE  a.to[Seen(a, r)] \in Statuses
<1>1. /\ a.to \in [DOMAIN a.to -> page.statuses] /\ a.on \in {"row", "modal", "many", "new"}
      /\ a.on = "new" => Absent \in DOMAIN a.to
  BY PagesConstants DEF RowsShape
<1>2. Seen(a, r) \in DOMAIN a.to
  <2>1. CASE a.on = "row"
    BY <2>1 DEF Targets, Seen
  <2>2. CASE a.on = "modal"
    BY <2>2 DEF Targets, Seen
  <2>3. CASE a.on = "many"
    BY <2>3 DEF Targets, Seen
  <2>4. CASE a.on = "new"
    BY <1>1, <2>4 DEF Targets, Seen
  <2> QED
    BY <1>1, <2>1, <2>2, <2>3, <2>4
<1> QED
  BY <1>1, <1>2 DEF Statuses

\* A control is pressed: its flag was down if it reads it, and goes up.
LEMMA ClickKeeps ==
  ASSUME PagesInv, NEW a \in page.acts, NEW R \in SUBSET Rows, Click(a, R)
  PROVE  PagesInv'
<1> DEFINE to  == [r \in Rows |-> IF r \in R THEN a.to[Seen(a, r)] ELSE Absent]
           new == [id |-> events', act |-> a, rows |-> R, todo |-> R, done |-> {},
                   to |-> to, st |-> "sent", of |-> key]
<1>1. /\ Event /\ R \in Targets(a) /\ a.reads \cap busy = {}
      /\ jobs' = jobs \cup {new} /\ busy' = busy \cup {a.sets}
      /\ UNCHANGED <<page, db, key, cache, gets, erred, open, mine, was>>
  BY DEF Click, Raised
<1>2. RowsShape /\ LoadsShape /\ JobsShape /\ FlagsUp /\ OneAtATime /\ TrueRows /\ ForKey /\ OwnWrites
  BY DEF PagesInv
<1>3. Later /\ events \in Nat /\ MaxEvents \in Nat /\ events' = events + 1
  <2>1. events' = events + 1
    BY <1>1 DEF Event
  <2> QED
    BY <1>1, <1>2, <2>1, EventIsLater, PagesConstants DEF RowsShape
<1>4. to \in [Rows -> Statuses]
  <2>1. \A r \in R : a.to[Seen(a, r)] \in Statuses
    BY <1>1, <1>2, TargetsAreOffered
  <2> QED
    BY <2>1 DEF Statuses
<1> HIDE DEF to
<1>5. new \in Job /\ new.id = events' /\ new.act = a /\ new.done = {}
  <2>1. events' \in 1 .. MaxEvents
    BY <1>3 DEF Later
  <2> QED
    BY <1>2, <1>4, <2>1 DEF Job, RowsShape
<1> HIDE DEF new
<1>6. JobsShape'
  <2>1. \A j \in jobs : j.id \in Nat /\ j.id <= events /\ j.id # events'
    BY <1>2, <1>3 DEF JobsShape, Job
  <2>2. \A j \in jobs' : j.id <= events'
    BY <1>1, <1>3, <1>5, <2>1
  <2>3. \A i, j \in jobs' : i.id = j.id => i = j
    BY <1>1, <1>2, <1>5, <2>1 DEF JobsShape
  <2>4. jobs' \subseteq Job /\ busy' \subseteq Flags \cup Spent
    BY <1>1, <1>2, <1>5 DEF JobsShape, Flags
  <2> QED
    BY <1>1, <2>2, <2>3, <2>4, SamePage DEF JobsShape
<1>7. FlagsUp'
  BY <1>1, <1>2, <1>5, SamePage DEF FlagsUp
<1>8. OneAtATime'
  <2>1. Honoured(a.sets) => a.sets \notin busy
    BY <1>1 DEF Honoured
  <2>2. \A j \in jobs : Honoured(a.sets) => j.act.sets # a.sets
    BY <1>2, <2>1 DEF FlagsUp
  <2> QED
    BY <1>1, <1>2, <1>5, <2>2, SamePage DEF OneAtATime
<1>9. RowsShape' /\ LoadsShape'
  BY <1>1, <1>2, <1>3, SamePage DEF RowsShape, LoadsShape, Later
<1>10. TrueRows'
  <2>1. Checked' = Checked /\ Slots' = Slots /\ \A r : Had(r)' = Had(r)
    BY <1>1, SamePage DEF Had
  <2>2. ASSUME Checked
        PROVE  CachedWereTrue' /\ LoadedWereTrue' /\ DoneWereTrue'
    BY <1>1, <1>2, <1>5, <2>1, <2>2 DEF TrueRows, CachedWereTrue, LoadedWereTrue, DoneWereTrue
  <2> QED
    BY <2>1, <2>2 DEF TrueRows
<1>11. ForKey' /\ OwnWrites'
  BY <1>1, <1>2, SamePage DEF ForKey, Stale, OwnWrites, Reloading
<1> QED
  BY <1>6, <1>7, <1>8, <1>9, <1>10, <1>11 DEF PagesInv

\* One job moves on under the number and the control it has.
LEMMA JobMoves ==
  ASSUME RowsShape, JobsShape, FlagsUp, OneAtATime, Later,
         NEW j \in jobs, NEW i \in Job, i.id = j.id, i.act = j.act,
         jobs' = (jobs \ {j}) \cup {i}, busy' = busy
  PROVE  JobsShape' /\ FlagsUp' /\ OneAtATime'
<1>0. page' = page
  BY DEF Later
<1>1. \A h \in jobs' : h.id <= events'
  <2>1. \A h \in jobs : h.id \in Nat /\ h.id <= events
    BY DEF JobsShape, Job
  <2>2. events \in Nat /\ events' \in Nat /\ events <= events'
    BY DEF RowsShape, Later
  <2>3. \A h \in jobs' : h.id \in Nat /\ h.id <= events
    BY <2>1
  <2> QED
    BY <2>2, <2>3
<1>2. \A g, h \in jobs' : g.id = h.id => g = h
  BY DEF JobsShape
<1>3. JobsShape'
  BY <1>0, <1>1, <1>2, SamePage DEF JobsShape
<1>4. FlagsUp'
  BY <1>0, SamePage DEF FlagsUp
<1>5. OneAtATime'
  BY <1>0, SamePage DEF OneAtATime
<1> QED
  BY <1>3, <1>4, <1>5

\* The backend changes a row, for me or for another: it has one status more, and is
\* no longer mine.
LEMMA RowChanges ==
  ASSUME RowsShape, ForKey, OwnWrites, Later, NEW r \in Rows, NEW s \in Statuses,
         db' = [db EXCEPT ![r] = s], was' = [was EXCEPT ![r] = @ \cup {s}], mine' = mine \ {r},
         UNCHANGED <<page, key, cache, gets, erred, open>>
  PROVE  /\ RowsShape' /\ ForKey' /\ OwnWrites'
         /\ \A q \in Rows : was[q] \subseteq was'[q]
         /\ s \in was'[r]
<1>1. db \in [Rows -> Statuses] /\ was \in [Rows -> SUBSET Statuses]
  BY DEF RowsShape
<1>2. db' \in [Rows -> Statuses] /\ was' \in [Rows -> SUBSET Statuses]
  BY <1>1
<1>3. /\ \A q \in Rows : was[q] \subseteq was'[q] /\ (q # r => db'[q] = db[q])
      /\ db'[r] = s /\ s \in was'[r]
  BY <1>1
<1>4. \A q \in Rows : db'[q] \in was'[q]
  BY <1>3 DEF RowsShape
<1>5. RowsShape'
  BY <1>2, <1>4, SamePage DEF RowsShape, Later
<1>6. ForKey'
  BY SamePage DEF ForKey, Stale
<1>7. OwnWrites'
  <2>1. \A q \in mine' : q \in mine /\ db'[q] = db[q]
    BY <1>3 DEF RowsShape
  <2> QED
    BY <2>1, SamePage DEF OwnWrites, Reloading
<1> QED
  BY <1>3, <1>5, <1>6, <1>7

LEMMA ServeKeeps ==
  ASSUME PagesInv, NEW j \in jobs, NEW r \in Rows, Serve(j, r)
  PROVE  PagesInv'
<1> DEFINE heard   == [j EXCEPT !.todo = @ \ {r}, !.done = @ \cup {r}]
           unheard == [j EXCEPT !.todo = @ \ {r}]
<1> DEFINE set == IF j.act.writes THEN j.to[r] ELSE db[r]
<1>0. db \in [Rows -> Statuses]
  BY DEF PagesInv, RowsShape
<1>1. /\ \/ /\ db' = [db EXCEPT ![r] = set]
            /\ was' = [was EXCEPT ![r] = @ \cup {set}] /\ mine' = mine \ {r}
            /\ \/ jobs' = (jobs \ {j}) \cup {heard} /\ UNCHANGED events
               \/ jobs' = (jobs \ {j}) \cup {unheard} /\ Event
         \/ /\ Event /\ jobs' = (jobs \ {j}) \cup {unheard}
            /\ UNCHANGED <<db, was, mine>>
      /\ UNCHANGED <<page, key, cache, gets, erred, busy, open>>
  BY <1>0 DEF Serve
<1>2. RowsShape /\ LoadsShape /\ JobsShape /\ FlagsUp /\ OneAtATime /\ TrueRows /\ ForKey /\ OwnWrites
  BY DEF PagesInv
<1>3. Later
  BY <1>1, <1>2, EventIsLater
<1>4. j \in Job /\ set \in Statuses /\ (j.act.writes => set = j.to[r])
  BY <1>0, <1>2 DEF JobsShape, Job
<1> HIDE DEF set
<1>5. /\ heard \in Job /\ heard.id = j.id /\ heard.act = j.act /\ heard.to = j.to
      /\ heard.done = j.done \cup {r}
  BY <1>4 DEF Job
<1>6. /\ unheard \in Job /\ unheard.id = j.id /\ unheard.act = j.act /\ unheard.to = j.to
      /\ unheard.done = j.done
  BY <1>4 DEF Job
<1> HIDE DEF heard, unheard
<1> DEFINE changed == /\ db' = [db EXCEPT ![r] = set]
                      /\ was' = [was EXCEPT ![r] = @ \cup {set}] /\ mine' = mine \ {r}
           same    == UNCHANGED <<db, was, mine>>
<1>7. /\ RowsShape' /\ ForKey' /\ OwnWrites' /\ \A q \in Rows : was[q] \subseteq was'[q]
      /\ changed => set \in was'[r]
  <2>1. CASE changed
    BY <1>1, <1>2, <1>3, <1>4, <2>1, RowChanges
  <2>2. CASE same
    <3>1. RowsShape' /\ ForKey' /\ OwnWrites'
      BY <1>1, <1>2, <1>3, <2>2, SamePage
      DEF RowsShape, ForKey, Stale, OwnWrites, Reloading, Later
    <3>2. ASSUME changed PROVE set \in was'[r]
      BY <1>1, <1>2, <1>3, <1>4, <3>2, RowChanges
    <3> QED
      BY <2>2, <3>1, <3>2
  <2> QED
    BY <1>1, <2>1, <2>2
<1>8. PICK i : /\ i \in Job /\ i.id = j.id /\ i.act = j.act /\ i.to = j.to
               /\ jobs' = (jobs \ {j}) \cup {i}
               /\ i.done = j.done \/ (i.done = j.done \cup {r} /\ changed)
  BY <1>1, <1>5, <1>6
<1> HIDE DEF changed
<1>9. JobsShape' /\ FlagsUp' /\ OneAtATime'
  BY <1>1, <1>2, <1>3, <1>8, JobMoves
<1>10. LoadsShape'
  BY <1>1, <1>2, SamePage DEF LoadsShape
<1>11. TrueRows'
  <2>1. Checked' = Checked /\ Slots' = Slots /\ \A q \in Rows : Had(q) \subseteq Had(q)'
    BY <1>1, <1>7, SamePage DEF Had
  <2>2. ASSUME Checked
        PROVE  CachedWereTrue' /\ LoadedWereTrue' /\ DoneWereTrue'
    <3>1. CachedWereTrue /\ LoadedWereTrue /\ DoneWereTrue
      BY <1>2, <2>2 DEF TrueRows
    <3>2. CachedWereTrue' /\ LoadedWereTrue'
      BY <1>1, <1>7, <2>1, <3>1 DEF CachedWereTrue, LoadedWereTrue
    <3>3. \A h \in jobs : h.done \subseteq Rows
      BY <1>2 DEF JobsShape, Job
    <3>4. ASSUME NEW h \in jobs', h.act.writes, NEW q \in h.done PROVE h.to[q] \in was'[q]
      <4>1. CASE h \in jobs
        BY <1>7, <3>1, <3>3, <3>4, <4>1 DEF DoneWereTrue
      <4>2. CASE h = i /\ q \in j.done
        BY <1>7, <1>8, <3>1, <3>3, <3>4, <4>2 DEF DoneWereTrue
      <4>3. CASE h = i /\ q = r /\ changed
        BY <1>4, <1>7, <1>8, <3>4, <4>3
      <4> QED
        BY <1>8, <4>1, <4>2, <4>3
    <3>5. DoneWereTrue'
      BY <3>4 DEF DoneWereTrue
    <3> QED
      BY <3>2, <3>5
  <2> QED
    BY <2>1, <2>2 DEF TrueRows
<1> QED
  BY <1>7, <1>9, <1>10, <1>11 DEF PagesInv

\* Somebody else changes a row.
LEMMA OtherKeeps ==
  ASSUME PagesInv, NEW r \in Rows, NEW s \in page.statuses, Other(r, s)
  PROVE  PagesInv'
<1>1. /\ Event /\ db' = [db EXCEPT ![r] = s] /\ was' = [was EXCEPT ![r] = @ \cup {s}]
      /\ mine' = mine \ {r}
      /\ UNCHANGED <<page, key, cache, gets, erred, jobs, busy, open>>
  BY DEF Other
<1>2. RowsShape /\ LoadsShape /\ JobsShape /\ FlagsUp /\ OneAtATime /\ TrueRows /\ ForKey /\ OwnWrites
  BY DEF PagesInv
<1>3. Later /\ s \in Statuses
  BY <1>1, <1>2, EventIsLater DEF Statuses
<1>4. RowsShape' /\ ForKey' /\ OwnWrites' /\ \A q \in Rows : was[q] \subseteq was'[q]
  BY <1>1, <1>2, <1>3, RowChanges
<1>5. JobsShape' /\ FlagsUp' /\ OneAtATime' /\ LoadsShape'
  BY <1>1, <1>2, <1>3, SameJobs, SamePage DEF LoadsShape
<1>6. TrueRows'
  <2>1. Checked' = Checked /\ Slots' = Slots /\ \A q \in Rows : Had(q) \subseteq Had(q)'
    BY <1>1, <1>4, SamePage DEF Had
  <2>2. ASSUME Checked
        PROVE  CachedWereTrue' /\ LoadedWereTrue' /\ DoneWereTrue'
    <3>1. CachedWereTrue /\ LoadedWereTrue /\ DoneWereTrue
      BY <1>2, <2>2 DEF TrueRows
    <3>2. CachedWereTrue' /\ LoadedWereTrue'
      BY <1>1, <1>4, <2>1, <3>1 DEF CachedWereTrue, LoadedWereTrue
    <3>3. \A h \in jobs : h.done \subseteq Rows
      BY <1>2 DEF JobsShape, Job
    <3>4. DoneWereTrue'
      BY <1>1, <1>4, <3>1, <3>3 DEF DoneWereTrue
    <3> QED
      BY <3>2, <3>4
  <2> QED
    BY <2>1, <2>2 DEF TrueRows
<1> QED
  BY <1>4, <1>5, <1>6 DEF PagesInv

\* A patch changes nothing but the job's rows in the slot shown.
LEMMA PatchedIs ==
  ASSUME RowsShape, NEW j \in Job
  PROVE  /\ DOMAIN Patched(j) = Slots
         /\ \A s \in Slots :
              \/ Patched(j)[s] = cache[s]
              \/ /\ cache[s] # None /\ Patched(j)[s] \in Answer /\ Patched(j)[s].of = cache[s].of
                 /\ \A r \in Rows : Patched(j)[s].rows[r] = IF r \in j.rows THEN j.to[r]
                                                                          ELSE cache[s].rows[r]
<1>1. DOMAIN cache = Slots /\ \A s \in Slots : cache[s] \in Answer \cup {None}
  BY DEF RowsShape
<1>2. CASE Shown = None
  BY <1>1, <1>2 DEF Patched
<1>3. CASE Shown # None
  <2> DEFINE k    == Slot(key)
             rows == [r \in Rows |-> IF r \in j.rows THEN j.to[r] ELSE Shown.rows[r]]
  <2>1. Patched(j) = [cache EXCEPT ![k].rows = rows]
    BY <1>3 DEF Patched
  <2>2. k \in Slots
    BY SlotsOfKeys DEF RowsShape
  <2>3. cache[k] \in Answer /\ Shown = cache[k]
    BY <1>1, <1>3, <2>2 DEF Shown
  <2>4. rows \in [Rows -> Statuses]
    BY <2>3 DEF Answer, Job
  <2>5. /\ DOMAIN Patched(j) = Slots /\ \A s \in Slots : s # k => Patched(j)[s] = cache[s]
        /\ Patched(j)[k] = [cache[k] EXCEPT !.rows = rows]
    BY <1>1, <2>1, <2>2
  <2>6. /\ [cache[k] EXCEPT !.rows = rows] \in Answer
        /\ [cache[k] EXCEPT !.rows = rows].of = cache[k].of
        /\ [cache[k] EXCEPT !.rows = rows].rows = rows
    BY <2>3, <2>4 DEF Answer
  <2>7. /\ Patched(j)[k] \in Answer /\ Patched(j)[k].of = cache[k].of
        /\ Patched(j)[k].rows = rows
    BY <2>5, <2>6
  <2>8. \A r \in Rows : rows[r] = IF r \in j.rows THEN j.to[r] ELSE cache[k].rows[r]
    BY <2>3
  <2>9. cache[k] # None
    BY <1>3, <2>3
  <2> HIDE DEF k, rows
  <2> QED
    BY <2>5, <2>7, <2>8, <2>9
<1> QED
  BY <1>2, <1>3

\* Invalidating marks the answers and changes nothing in them.
LEMMA OutdatedIs ==
  ASSUME RowsShape
  PROVE  /\ DOMAIN Outdated = Slots
         /\ \A s \in Slots :
              \/ Outdated[s] = None /\ cache[s] = None
              \/ /\ cache[s] # None /\ Outdated[s] \in Answer
                 /\ Outdated[s].of = cache[s].of /\ Outdated[s].rows = cache[s].rows
<1> SUFFICES ASSUME NEW s \in Slots, cache[s] # None
             PROVE  /\ Outdated[s] \in Answer
                    /\ Outdated[s].of = cache[s].of /\ Outdated[s].rows = cache[s].rows
  BY DEF Outdated
<1>1. cache[s] \in Answer
  BY DEF RowsShape
<1>2. Outdated[s] = [cache[s] EXCEPT !.valid = FALSE]
  BY DEF Outdated
<1> QED
  BY <1>1, <1>2 DEF Answer

\* A load for the chosen key of a page that shows rows, unless it merges identical
\* requests, joins none: every load for that key is a new one.
LEMMA LoadingIsNew ==
  ASSUME RowsShape, page.load = "query", ~page.merges, cache[key] # None,
         NEW g \in Loading(key), g.of = key
  PROVE  g.ans = None
<1>1. Slot(key) = key
  BY DEF Slot
<1>2. ~Joins(key)
  BY <1>1 DEF Joins
<1> DEFINE kept == gets \ Superseded(key)
           new  == [id |-> FreeId(kept), of |-> key, ans |-> SharedAnswer]
<1>3. Loading(key) = kept \cup {new}
  BY <1>2 DEF Loading
<1>4. \A h \in kept : h.of # key
  BY DEF Superseded
<1>5. new.ans = None
  BY SharedAnswerIs
<1> HIDE DEF kept, new
<1> QED
  BY <1>3, <1>4, <1>5

\* A handler has its answers: it reloads, patches, leaves or does nothing.
LEMMA FinishKeeps ==
  ASSUME PagesInv, NEW j \in jobs, Finish(j)
  PROVE  PagesInv'
<1> DEFINE what   == Followup(j)
           reload == what \in {"invalidate", "reload", "patchReload"}
           waits  == [j EXCEPT !.st = "awaiting", !.of = key]
<1>1. /\ reload => Room(key)
      /\ gets'  = IF reload THEN Loading(key) ELSE IF what = "leave" THEN {} ELSE gets
      /\ cache' = CASE what = "leave" -> [s \in Slots |-> None]
                    [] what = "invalidate" -> Outdated
                    [] what \in {"patch", "patchReload"} -> Patched(j)
                    [] OTHER -> cache
      /\ mine' = IF Shown # None /\ what = "invalidate" THEN mine \cup j.done ELSE mine
      /\ \/ jobs' = (jobs \ {j}) \cup {waits} /\ UNCHANGED busy
         \/ jobs' = jobs \ {j} /\ busy' = Lowered(j)
      /\ open' \in {open, None}
      /\ UNCHANGED <<page, db, key, erred, was, events>>
  BY DEF Finish, Closed
<1>2. RowsShape /\ LoadsShape /\ JobsShape /\ FlagsUp /\ OneAtATime /\ TrueRows /\ ForKey /\ OwnWrites
  BY DEF PagesInv
<1>3. Later
  BY <1>1, <1>2, EventIsLater
<1>4. j \in Job /\ j.act \in page.acts /\ j.done \subseteq Rows /\ key \in page.keys
  BY <1>2 DEF JobsShape, Job, RowsShape
<1>5. waits \in Job /\ waits.id = j.id /\ waits.act = j.act /\ waits.done = j.done /\ waits.to = j.to
  BY <1>4 DEF Job
<1>6. \/ what = j.act.ok /\ j.done = j.rows
      \/ what = j.act.bad
  BY DEF Followup
<1> HIDE DEF what, waits
<1>7. JobsShape' /\ FlagsUp' /\ OneAtATime'
  <2>1. CASE jobs' = (jobs \ {j}) \cup {waits} /\ UNCHANGED busy
    BY <1>2, <1>3, <1>5, <2>1, JobMoves
  <2>2. CASE jobs' = jobs \ {j} /\ busy' = Lowered(j)
    <3>1. busy' \subseteq Flags \cup Spent
      BY <1>2, <1>4, <2>2 DEF Lowered, Spent, JobsShape
    <3>2. \A i \in jobs' : Honoured(i.act.sets) => i.act.sets \in busy /\ i.act.sets # j.act.sets
      BY <1>2, <2>2 DEF FlagsUp, OneAtATime
    <3>3. \A i \in jobs' : Honoured(i.act.sets) => i.act.sets \in busy'
      BY <2>2, <3>2 DEF Lowered
    <3> QED
      BY <1>2, <1>3, <2>2, <3>1, <3>3, FewerJobs
  <2> QED
    BY <1>1, <2>1, <2>2
<1>8. /\ gets' \subseteq Load /\ IsFiniteSet(gets')
      /\ \A g, h \in gets' : g.id = h.id => g = h
      /\ \A g \in gets' : g \in gets \/ (g.of = key /\ g.ans = SharedAnswer)
      /\ reload => \E g \in gets' : g.of = key
  <2>1. CASE reload
    BY <1>1, <1>2, <1>4, <2>1, LoadingIs
  <2>2. CASE ~reload
    BY <1>1, <1>2, <2>2, FS_EmptySet DEF LoadsShape
  <2> QED
    BY <2>1, <2>2
<1>9. LoadsShape'
  BY <1>1, <1>8, SamePage DEF LoadsShape
<1>10. /\ DOMAIN cache' = Slots
       /\ \A s \in Slots :
            \/ cache'[s] = None \/ cache'[s] = cache[s]
            \/ /\ cache[s] # None /\ cache'[s] \in Answer /\ cache'[s].of = cache[s].of
               /\ \/ cache'[s].rows = cache[s].rows
                  \/ /\ what \in {"patch", "patchReload"}
                     /\ \A r \in Rows : cache'[s].rows[r] = IF r \in j.rows THEN j.to[r]
                                                                           ELSE cache[s].rows[r]
       /\ what = "leave" => \A s \in Slots : cache'[s] = None
       /\ what \notin {"leave", "invalidate", "patch", "patchReload"} => cache' = cache
  <2>1. CASE what = "leave"
    BY <1>1, <2>1
  <2>2. CASE what = "invalidate"
    <3>1. cache' = Outdated
      BY <1>1, <2>2
    <3> QED
      BY <1>2, <2>2, <3>1, OutdatedIs
  <2>3. CASE what \in {"patch", "patchReload"}
    <3>1. cache' = Patched(j)
      BY <1>1, <2>3
    <3> QED
      BY <1>2, <1>4, <2>3, <3>1, PatchedIs
  <2>4. CASE what \notin {"leave", "invalidate", "patch", "patchReload"}
    BY <1>1, <1>2, <2>4 DEF RowsShape
  <2> QED
    BY <2>1, <2>2, <2>3, <2>4
<1>11. RowsShape'
  <2>1. \A s \in Slots : cache'[s] \in Answer \cup {None}
    BY <1>2, <1>10 DEF RowsShape
  <2>2. mine' \subseteq Rows
    BY <1>1, <1>2, <1>4 DEF RowsShape
  <2>3. open' = None \/ open' \in [row : Rows, status : Statuses]
    BY <1>1, <1>2 DEF RowsShape
  <2> QED
    BY <1>1, <1>2, <1>10, <2>1, <2>2, <2>3, SamePage DEF RowsShape
<1>12. TrueRows'
  <2>1. Checked' = Checked /\ Slots' = Slots /\ \A r : Had(r)' = Had(r)
    BY <1>1, SamePage DEF Had
  <2>2. ASSUME Checked
        PROVE  CachedWereTrue' /\ LoadedWereTrue' /\ DoneWereTrue'
    <3>1. CachedWereTrue /\ LoadedWereTrue /\ DoneWereTrue
      BY <1>2, <2>2 DEF TrueRows
    <3>2. what \in {"patch", "patchReload"} => \A r \in j.rows : j.to[r] \in Had(r)
      <4>1. what \in {"patch", "patchReload"} => j.act.writes
        BY <1>2, <1>4, <1>6, PagesConstants DEF RowsShape
      <4> QED
        BY <1>4, <1>6, <2>2, <3>1, <4>1 DEF Checked, DoneWereTrue, Had
    <3>3. CachedWereTrue'
      BY <1>10, <2>1, <3>1, <3>2 DEF CachedWereTrue
    <3>4. LoadedWereTrue'
      BY <1>1, <1>8, <3>1, SharedAnswerIs DEF LoadedWereTrue
    <3>5. DoneWereTrue'
      BY <1>1, <1>5, <3>1 DEF DoneWereTrue
    <3> QED
      BY <3>3, <3>4, <3>5
  <2> QED
    BY <2>1, <2>2 DEF TrueRows
<1>13. ForKey'
  <2>1. ASSUME page.load = "query", NEW s \in Slots, cache'[s] # None PROVE cache'[s].of = s
    <3>1. cache[s] # None /\ cache'[s].of = cache[s].of
      BY <1>10, <2>1
    <3> QED
      BY <1>2, <2>1, <3>1 DEF ForKey
  <2>2. ASSUME page.load # "query", page.drops
        PROVE  (\A h \in gets' : h.of = key) /\ (Stale' => gets' # {} \/ erred)
    <3>1. (\A h \in gets : h.of = key) /\ (Stale => gets # {} \/ erred)
      BY <1>2, <2>2 DEF ForKey
    <3>2. "view" \in Slots
      BY <2>2 DEF Slots
    <3>3. Stale' => Stale /\ what # "leave"
      BY <1>1, <1>10, <3>2 DEF Stale
    <3>4. what # "leave" => gets' # {} \/ gets' = gets
      BY <1>1, <1>8
    <3> QED
      BY <1>8, <3>1, <3>3, <3>4
  <2> QED
    BY <1>1, <2>1, <2>2, SamePage DEF ForKey
<1>14. OwnWrites'
  <2> SUFFICES ASSUME Refetches, NEW r \in mine'
               PROVE  /\ \A g \in gets' : g.of = key /\ g.ans # None => g.ans[r] = db[r]
                      /\ cache'[key] # None => cache'[key].rows[r] = db[r] \/ erred \/ Reloading'
    BY <1>1, SamePage DEF OwnWrites
  <2>1. /\ page.load = "query" /\ ~page.merges /\ Slot(key) = key /\ key \in Slots
        /\ Shown = cache[key]
    BY <1>4, SlotsOfKeys DEF Refetches, Shown
  <2>2. what # "patch"
    BY <1>2, <1>4, <1>6, <2>1, QueriesAreNotPatched DEF RowsShape
  <2>3. ASSUME r \in mine
        PROVE  /\ \A g \in gets : g.of = key /\ g.ans # None => g.ans[r] = db[r]
               /\ cache[key] # None => cache[key].rows[r] = db[r] \/ erred \/ Reloading
    BY <1>2, <2>3 DEF OwnWrites
  <2>4. CASE reload
    <3>1. Reloading'
      BY <1>1, <1>8, <2>4 DEF Reloading
    <3>2. ASSUME NEW g \in gets', g.of = key, g.ans # None PROVE g.ans[r] = db[r]
      <4>1. g \in Loading(key)
        BY <1>1, <2>4, <3>2
      <4>2. cache[key] = None
        BY <1>2, <2>1, <3>2, <4>1, LoadingIsNew
      <4>3. r \in mine /\ g \in gets
        BY <1>1, <1>8, <2>1, <3>2, <4>2, SharedAnswerIs
      <4> QED
        BY <2>3, <3>2, <4>3
    <3> QED
      BY <3>1, <3>2
  <2>5. CASE what = "leave"
    BY <1>1, <1>10, <2>1, <2>5
  <2>6. CASE ~reload /\ what # "leave"
    <3>1. gets' = gets /\ cache' = cache /\ r \in mine
      BY <1>1, <1>10, <2>2, <2>6
    <3>2. Reloading' = Reloading
      BY <1>1, <3>1 DEF Reloading
    <3> QED
      BY <2>3, <3>1, <3>2
  <2> QED
    BY <2>4, <2>5, <2>6
<1> QED
  BY <1>7, <1>9, <1>11, <1>12, <1>13, <1>14 DEF PagesInv

----------------------------------------------------------------------------
(* Pages: the theorems. *)

LEMMA PagesStart == Init => PagesInv
<1> SUFFICES ASSUME Init PROVE PagesInv
  OBVIOUS
<1> DEFINE first == [id |-> 1, of |-> key, ans |-> None]
<1>1. /\ page \in Pages /\ db \in [Rows -> Statuses] /\ key \in page.keys
      /\ cache = [s \in Slots |-> None] /\ gets = {first} /\ erred = FALSE
      /\ jobs = {} /\ busy = {} /\ open = None /\ mine = {}
      /\ was = [r \in Rows |-> {db[r]}] /\ events = 0
  BY DEF Init
<1>2. first \in Load /\ first.of = key /\ first.ans = None
  BY <1>1, PagesConstants DEF Load
<1> HIDE DEF first
<1>3. RowsShape
  <2>1. 0 \in 0 .. MaxEvents
    BY PagesConstants
  <2>2. was \in [Rows -> SUBSET Statuses]
    BY <1>1
  <2> QED
    BY <1>1, <2>1, <2>2 DEF RowsShape
<1>4. LoadsShape /\ JobsShape
  BY <1>1, <1>2, FS_Singleton DEF LoadsShape, JobsShape
<1>5. FlagsUp /\ OneAtATime
  BY <1>1 DEF FlagsUp, OneAtATime
<1>6. TrueRows
  BY <1>1, <1>2 DEF TrueRows, CachedWereTrue, LoadedWereTrue, DoneWereTrue
<1>7. ForKey /\ OwnWrites
  BY <1>1, <1>2 DEF ForKey, OwnWrites
<1> QED
  BY <1>3, <1>4, <1>5, <1>6, <1>7 DEF PagesInv

LEMMA PagesStep == PagesInv /\ [Next]_vars => PagesInv'
<1> SUFFICES ASSUME PagesInv, [Next]_vars PROVE PagesInv'
  OBVIOUS
<1>0. RowsShape
  BY DEF PagesInv
<1>1. ASSUME NEW g \in gets, Read(g) \/ Land(g) \/ LoadFails(g) PROVE PagesInv'
  BY <1>1, ReadKeeps, LandKeeps, LoadFailsKeeps
<1>2. CASE Poll \/ Refocus \/ Reload
  <2>1. /\ Room(key) /\ gets' = Loading(key)
        /\ Event \/ events' = events
        /\ UNCHANGED <<page, db, key, cache, erred, jobs, busy, open, mine, was>>
    BY <1>2 DEF Poll, Refocus, Reload
  <2> QED
    BY <1>0, <2>1, EventIsLater, AskingKeeps
<1>3. ASSUME NEW k \in page.keys, Choose(k) PROVE PagesInv'
  BY <1>3, ChooseKeeps
<1>4. ASSUME NEW r \in Rows, OpenRow(r) PROVE PagesInv'
  BY <1>4, OpenRowKeeps
<1>5. CASE CloseRow
  BY <1>5, ModalKeeps DEF CloseRow
<1>6. ASSUME NEW a \in page.acts, NEW R \in SUBSET Rows, Click(a, R) PROVE PagesInv'
  BY <1>6, ClickKeeps
<1>7. ASSUME NEW j \in jobs, NEW r \in Rows, Serve(j, r) PROVE PagesInv'
  BY <1>7, ServeKeeps
<1>8. ASSUME NEW j \in jobs, Finish(j) PROVE PagesInv'
  BY <1>8, FinishKeeps
<1>9. ASSUME NEW r \in Rows, NEW s \in page.statuses, Other(r, s) PROVE PagesInv'
  BY <1>9, OtherKeeps
<1>10. CASE UNCHANGED vars
  <2>1. open' = None \/ open' \in [row : Rows, status : Statuses]
    BY <1>0, <1>10 DEF vars, RowsShape
  <2> QED
    BY <1>10, <2>1, ModalKeeps DEF vars
<1> QED
  BY <1>1, <1>2, <1>3, <1>4, <1>5, <1>6, <1>7, <1>8, <1>9, <1>10 DEF Next

LEMMA PagesInvariant == Spec => []PagesInv
BY PagesStart, PagesStep, PTL DEF Spec

LEMMA PagesInvGives == PagesInv => TypeOK /\ OneAtATime /\ RowsAreTrue /\ OwnWriteShows
<1>1. PagesInv => TypeOK /\ OneAtATime
  BY DEF PagesInv, RowsShape, LoadsShape, JobsShape, TypeOK
<1>2. PagesInv => ShownWasTrue
  BY DEF PagesInv, TrueRows, Checked, CachedWereTrue, Had, ShownWasTrue
<1>3. PagesInv => ShownIsForKey
  <2> SUFFICES ASSUME PagesInv, page.load = "query" \/ page.drops, gets = {}, ~erred, Shown # None
               PROVE  Shown.of = key
    BY DEF ShownIsForKey
  <2>1. ForKey /\ Slot(key) \in Slots
    BY SlotsOfKeys DEF PagesInv, RowsShape
  <2>2. CASE page.load = "query"
    BY <2>1, <2>2, SlotsOfKeys DEF ForKey, Shown, Slot
  <2>3. CASE page.load # "query"
    BY <2>1, <2>3 DEF ForKey, Stale, Shown, Slot
  <2> QED
    BY <2>2, <2>3
<1>4. PagesInv => OwnWriteShows
  <2> SUFFICES ASSUME PagesInv, Refetches, gets = {}, ~erred, Shown # None, NEW r \in mine
               PROVE  Shown.rows[r] = db[r]
    BY DEF OwnWriteShows, Refetches
  <2>1. OwnWrites /\ Shown = cache[key]
    BY DEF PagesInv, Shown, Slot, Refetches
  <2> QED
    BY <2>1 DEF OwnWrites, Reloading
<1> QED
  BY <1>1, <1>2, <1>3, <1>4 DEF RowsAreTrue

\* Every page keeps to its types, whatever its records.
THEOREM PagesTypes == Spec => []TypeOK
BY PagesInvGives, PagesInvariant, PTL

\* A busy flag that every control raising it reads lets one request out at a time:
\* the flag is up for as long as the request, or the reload it waits for, lasts.
THEOREM PagesSendOne == Spec => []OneAtATime
BY PagesInvGives, PagesInvariant, PTL

\* Rows on a page were true of the backend once, and are those of the chosen filter
\* when its loads are over: whichever load ends last, whatever fails.
THEOREM PagesShowTruth == Spec => []RowsAreTrue
BY PagesInvGives, PagesInvariant, PTL

\* Once its requests are over, a page that invalidates its list shows the user's own
\* acknowledged changes, also if an older load was under way when they were made.
THEOREM PagesShowOwnWrites == Spec => []OwnWriteShows
BY PagesInvGives, PagesInvariant, PTL

----------------------------------------------------------------------------
(* Forms: the inductive invariant. *)

FieldsShape ==
  /\ form \in FormRows
  /\ record \in Filling /\ typed \in Filling /\ copy \in Filling /\ wrote \in Filling
  /\ edited \subseteq Fields
  /\ came \in {"due", "ok", "failed"} /\ hint \in {"none", "asked", "shown"}
  /\ stage \in {"open", "leaving", "closed"} /\ step \in Fields
  /\ missed \in BOOLEAN
  /\ stamp \in Value /\ (Loaded => stamp # 0)

AsksShape ==
  /\ asks \subseteq Ask /\ \A a, b \in asks : a.id = b.id => a = b
  /\ ~Loaded => asks = {}

\* A form with a button has one save under way at most, and the flag is up meanwhile.
SavesShape ==
  /\ saves \subseteq Save /\ saving \in BOOLEAN /\ sent \in 0 .. MaxSaves
  /\ ~form.gate.instant => (saves # {} => saving) /\ \A s, t \in saves : s = t

\* Nobody types in a form that is hidden until its load has ended.
HiddenFirst ==
  form.load.when = "hidden" /\ came = "due" => edited = {} /\ saves = {} /\ wrote = Nothing

\* The forms that EditsSurvive is about.
Spares == form.load.spares # "none" \/ (form.load.when # "beside" /\ form.load.again = {})

\* What is typed and not saved is known to be edited, is part of the save under way, and
\* no load is to come that would not spare it.
Kept == \A f \in Fields : wrote[f] # 0 => f \in edited /\ typed[f] = wrote[f]
InSaves == ~form.gate.instant => \A s \in saves : \A f \in Fields : wrote[f] # 0 => f \in s.of
LoadsOnce ==
  form.load.spares = "none" /\ asks # {} =>
    form.load.when = "hidden" /\ came = "due" /\ \A a, b \in asks : a = b
Edits == Spares => Kept /\ InSaves /\ LoadsOnce

Full(v) == \A f \in Fields : v[f] # 0

\* The forms that NoBlanksSaved is about.
Gated == form.gate.checks \/ Wizard \/ (form.load.when = "hidden" /\ ~missed)

\* Their saves send no blank, so the record and what is read of it have none; a hidden
\* form is filled once its load has come, a wizard's first step once it is at the second.
SavesAreFull ==
  \A s \in saves : /\ s.st = "sent" => \A f \in s.of : s.vals[f] # 0
                   /\ s.st = "accepted" => Full(s.vals)
                   /\ ~Loaded => s.of = Fields
RecordIsFull == (Loaded \/ made > 0 => Full(record)) /\ made \in Nat
AsksAreFull  == \A a \in asks : a.st = "answered" => Full(a.vals)
ScreenIsFull ==
  /\ form.load.when = "hidden" => came # "failed" \/ missed
  /\ form.load.when = "hidden" /\ ~missed /\ came = "ok" => Full(typed) /\ Full(copy)
  /\ Wizard /\ step = 2 => typed[1] # 0
NoBlanks == Gated => SavesAreFull /\ RecordIsFull /\ AsksAreFull /\ ScreenIsFull

\* A form that is gone after a success has made no more than it has been told of, and
\* one thing more if that is being told, or has been.
Told == stage # "open" \/ \E s \in saves : s.st = "accepted"
MakesOnce ==
  /\ made \in Nat /\ unsaid \in Nat
  /\ form.save.makes /\ form.save.ok = "close" =>
       /\ stage # "open" => saves = {}
       /\ made <= unsaid + 1 /\ (~Told => made <= unsaid)

FormsInv ==
  FieldsShape /\ AsksShape /\ SavesShape /\ HiddenFirst /\ Edits /\ NoBlanks /\ MakesOnce

----------------------------------------------------------------------------
(* Forms: lemmas, loads. *)

\* What is said of a form by its record alone does not change.
LEMMA SameForm ==
  ASSUME form' = form
  PROVE  Loaded' = Loaded /\ Wizard' = Wizard /\ Spares' = Spares
BY DEF Loaded, Wizard, Spares

LEMMA FormParts ==
  ASSUME FormsInv
  PROVE  /\ FieldsShape /\ AsksShape /\ SavesShape /\ HiddenFirst /\ Edits /\ NoBlanks /\ MakesOnce
         /\ form \in FormRows
BY DEF FormsInv, FieldsShape

\* The count of things made is not touched by what touches neither it nor the saves.
LEMMA MadeStays ==
  ASSUME MakesOnce, UNCHANGED <<form, saves, stage, made, unsaid>>
  PROVE  MakesOnce'
BY DEF MakesOnce, Told

LEMMA SavesStay ==
  ASSUME SavesShape, UNCHANGED <<form, saves, saving, sent>>
  PROVE  SavesShape'
BY DEF SavesShape

\* A request reads the record.
LEMMA LoadReadKeeps == ASSUME FormsInv, LoadRead PROVE FormsInv'
<1>1. PICK a \in asks :
        /\ a.st = "asked" /\ asks' = (asks \ {a}) \cup {[a EXCEPT !.st = "answered", !.vals = record]}
        /\ UNCHANGED <<form, record, typed, copy, edited, came, saving, saves, sent, made, stage, step, hint,
                       stamp, upsets, wrote, missed, unsaid>>
  BY DEF LoadRead
<1> DEFINE read == [a EXCEPT !.st = "answered", !.vals = record]
<1>2. FieldsShape /\ AsksShape /\ SavesShape /\ HiddenFirst /\ Edits /\ NoBlanks /\ MakesOnce
  BY FormParts
<1>3. read \in Ask /\ read.id = a.id /\ read.vals = record
  BY <1>2 DEF AsksShape, FieldsShape, Ask
<1>4. asks' = (asks \ {a}) \cup {read}
  BY <1>1
<1> HIDE DEF read
<1>5. FieldsShape' /\ SavesShape' /\ HiddenFirst' /\ MakesOnce'
  BY <1>1, <1>2, SameForm, SavesStay, MadeStays DEF FieldsShape, HiddenFirst
<1>6. AsksShape'
  BY <1>1, <1>2, <1>3, <1>4, SameForm DEF AsksShape
<1>7. Edits'
  <2>1. Spares => Kept' /\ InSaves'
    BY <1>1, <1>2 DEF Edits, Kept, InSaves
  <2>2. Spares => LoadsOnce'
    BY <1>1, <1>2, <1>4 DEF Edits, LoadsOnce
  <2> QED
    BY <1>1, <2>1, <2>2, SameForm DEF Edits
<1>8. NoBlanks'
  <2> SUFFICES ASSUME Gated PROVE SavesAreFull' /\ RecordIsFull' /\ AsksAreFull' /\ ScreenIsFull'
    BY <1>1, SameForm DEF NoBlanks, Gated
  <2>1. SavesAreFull /\ RecordIsFull /\ AsksAreFull /\ ScreenIsFull
    BY <1>2 DEF NoBlanks
  <2>2. SavesAreFull' /\ RecordIsFull' /\ ScreenIsFull'
    BY <1>1, <2>1, SameForm DEF SavesAreFull, RecordIsFull, ScreenIsFull
  <2>3. Full(read.vals)
    BY <1>1, <1>2, <1>3, <2>1 DEF RecordIsFull, AsksShape
  <2>4. AsksAreFull'
    BY <1>4, <2>1, <2>3 DEF AsksAreFull
  <2> QED
    BY <2>2, <2>4
<1> QED
  BY <1>5, <1>6, <1>7, <1>8 DEF FormsInv

\* An answer is shown: it spares what is edited, or nothing can have been edited.
LEMMA LoadShownKeeps == ASSUME FormsInv, LoadShown PROVE FormsInv'
<1>1. PICK a \in asks :
        /\ a.st = "answered" /\ asks' = asks \ {a}
        /\ came' = "ok" /\ copy' = a.vals
        /\ IF form.load.query /\ came = "ok" /\ a.vals = copy
           THEN UNCHANGED <<typed, edited>>
           ELSE typed' = Refilled(a.vals) /\ edited' = StillEdited
        /\ UNCHANGED <<form, record, saving, saves, sent, made, stage, step, hint, stamp, upsets, wrote,
                       missed, unsaid>>
  BY DEF LoadShown
<1>2. FieldsShape /\ AsksShape /\ SavesShape /\ HiddenFirst /\ Edits /\ NoBlanks /\ MakesOnce
  BY FormParts
<1>3. a \in Ask /\ a.vals \in Filling
  BY <1>2 DEF AsksShape, Ask
<1>4. /\ typed' \in Filling /\ edited' \subseteq edited
      /\ \A f \in Fields : typed'[f] \in {typed[f], a.vals[f]} /\ (Spared(f) => typed'[f] = typed[f])
      /\ form.load.spares # "none" => edited' = edited
  BY <1>1, <1>2, <1>3 DEF FieldsShape, Filling, Refilled, StillEdited
<1>5. FieldsShape'
  BY <1>1, <1>2, <1>3, <1>4, SameForm DEF FieldsShape
<1>6. AsksShape' /\ SavesShape' /\ HiddenFirst' /\ MakesOnce'
  BY <1>1, <1>2, SameForm, SavesStay, MadeStays DEF AsksShape, HiddenFirst
<1>7. Edits'
  <2> SUFFICES ASSUME Spares PROVE Kept' /\ InSaves' /\ LoadsOnce'
    BY <1>1, SameForm DEF Edits
  <2>1. Kept /\ InSaves /\ LoadsOnce
    BY <1>2 DEF Edits
  <2>2. CASE form.load.spares # "none"
    <3>1. form.load.spares \in {"whole", "field"}
      BY <1>2, <2>2, FormShapes DEF FieldsShape
    <3>2. \A f \in Fields : wrote[f] # 0 => Spared(f)
      BY <2>1, <3>1 DEF Kept, Spared
    <3> QED
      BY <1>1, <1>4, <2>1, <2>2, <3>2 DEF Kept, InSaves, LoadsOnce
  <2>3. CASE form.load.spares = "none"
    <3>1. wrote = Nothing /\ asks' = {}
      BY <1>1, <1>2, <2>1, <2>3 DEF LoadsOnce, HiddenFirst
    <3> QED
      BY <1>1, <3>1 DEF Kept, InSaves, LoadsOnce, Nothing
  <2> QED
    BY <2>2, <2>3
<1>8. NoBlanks'
  <2> SUFFICES ASSUME Gated PROVE SavesAreFull' /\ RecordIsFull' /\ AsksAreFull' /\ ScreenIsFull'
    BY <1>1, SameForm DEF NoBlanks, Gated
  <2>1. SavesAreFull /\ RecordIsFull /\ AsksAreFull /\ ScreenIsFull
    BY <1>2 DEF NoBlanks
  <2>2. SavesAreFull' /\ RecordIsFull' /\ AsksAreFull'
    BY <1>1, <2>1, SameForm DEF SavesAreFull, RecordIsFull, AsksAreFull
  <2>3. Full(a.vals) /\ Loaded
    BY <1>1, <1>2, <2>1 DEF AsksAreFull, AsksShape
  <2>4. ~Wizard
    BY <1>2, <2>3, FormShapes DEF FieldsShape, Wizard, Loaded
  <2>5. ASSUME form.load.when = "hidden", ~missed PROVE Full(typed')
    <3>1. CASE came = "due"
      <4>1. edited = {}
        BY <1>2, <2>5, <3>1 DEF HiddenFirst
      <4>2. \A f \in Fields : ~Spared(f)
        BY <4>1 DEF Spared
      <4>3. \A f \in Fields : typed'[f] = a.vals[f]
        BY <1>1, <3>1, <4>2 DEF Refilled
      <4> QED
        BY <2>3, <4>3 DEF Full
    <3>2. CASE came # "due"
      <4>1. Full(typed)
        BY <1>2, <2>1, <2>5, <3>2 DEF ScreenIsFull, FieldsShape
      <4> QED
        BY <1>4, <2>3, <4>1 DEF Full
    <3> QED
      BY <3>1, <3>2
  <2>6. ScreenIsFull'
    BY <1>1, <2>3, <2>4, <2>5, SameForm DEF ScreenIsFull
  <2> QED
    BY <2>2, <2>6
<1> QED
  BY <1>5, <1>6, <1>7, <1>8 DEF FormsInv

LEMMA LoadLostKeeps == ASSUME FormsInv, LoadLost PROVE FormsInv'
<1>1. PICK a \in asks :
        /\ asks' = asks \ {a}
        /\ came' = IF came = "ok" THEN "ok" ELSE "failed"
        /\ missed' = (missed \/ came = "due")
        /\ UNCHANGED <<form, record, typed, copy, edited, saving, saves, sent, made, stage, step, hint,
                       stamp, wrote, unsaid>>
  BY DEF LoadLost
<1>2. FieldsShape /\ AsksShape /\ SavesShape /\ HiddenFirst /\ Edits /\ NoBlanks /\ MakesOnce
  BY FormParts
<1>3. came' \in {"ok", "failed"} /\ missed' \in BOOLEAN /\ (~missed' => ~missed /\ came # "due")
  BY <1>1, <1>2 DEF FieldsShape
<1>4. FieldsShape'
  BY <1>1, <1>2, <1>3, SameForm DEF FieldsShape
<1>5. AsksShape' /\ SavesShape' /\ HiddenFirst' /\ MakesOnce'
  BY <1>1, <1>2, <1>3, SameForm, SavesStay, MadeStays DEF AsksShape, HiddenFirst
<1>6. Edits'
  <2>1. Spares => Kept' /\ InSaves'
    BY <1>1, <1>2 DEF Edits, Kept, InSaves
  <2>2. Spares => LoadsOnce'
    BY <1>1, <1>2 DEF Edits, LoadsOnce
  <2> QED
    BY <1>1, <2>1, <2>2, SameForm DEF Edits
<1>7. NoBlanks'
  <2> SUFFICES ASSUME Gated' PROVE SavesAreFull' /\ RecordIsFull' /\ AsksAreFull' /\ ScreenIsFull'
    BY DEF NoBlanks
  <2>1. Gated
    BY <1>1, <1>3, SameForm DEF Gated
  <2>2. SavesAreFull /\ RecordIsFull /\ AsksAreFull /\ ScreenIsFull
    BY <1>2, <2>1 DEF NoBlanks
  <2>3. SavesAreFull' /\ RecordIsFull' /\ AsksAreFull'
    BY <1>1, <2>2, SameForm DEF SavesAreFull, RecordIsFull, AsksAreFull
  <2>4. form.load.when = "hidden" /\ came' = "failed" => missed'
    BY <1>1, <1>2, <2>2 DEF ScreenIsFull, FieldsShape
  <2>5. ScreenIsFull'
    BY <1>1, <1>3, <2>2, <2>4, SameForm DEF ScreenIsFull
  <2> QED
    BY <2>3, <2>5
<1> QED
  BY <1>4, <1>5, <1>6, <1>7 DEF FormsInv

\* One load more: it is numbered apart from those under way, and has read nothing.
LEMMA AskingIs ==
  ASSUME asks \subseteq Ask, \A a, b \in asks : a.id = b.id => a = b
  PROVE  /\ Asking \subseteq Ask /\ \A a, b \in Asking : a.id = b.id => a = b
         /\ \A a \in Asking : a \in asks \/ a.st = "asked"
<1>1. CASE asks # {} /\ (form.load.query \/ Cardinality(asks) = 2)
  BY <1>1 DEF Asking
<1>2. CASE ~(asks # {} /\ (form.load.query \/ Cardinality(asks) = 2))
  <2> DEFINE free == CHOOSE i \in 1 .. 2 : \A a \in asks : a.id # i
             new  == [id |-> free, st |-> "asked", vals |-> Nothing]
  <2>1. Asking = asks \cup {new}
    BY <1>2 DEF Asking
  <2>2. \E i \in 1 .. 2 : \A a \in asks : a.id # i
    <3> SUFFICES ASSUME NEW a \in asks, NEW b \in asks, a.id = 1, b.id = 2 PROVE FALSE
      BY DEF Ask
    <3>1. asks = {a, b} /\ a # b
      BY DEF Ask
    <3>2. Cardinality({a, b}) = 2
      <4>1. {a, b} = {a} \cup {b} /\ b \notin {a}
        BY <3>1
      <4>2. IsFiniteSet({a}) /\ Cardinality({a}) = 1
        BY FS_Singleton
      <4>3. Cardinality({a} \cup {b}) = Cardinality({a}) + 1
        BY <4>1, <4>2, FS_AddElement
      <4> QED
        BY <4>1, <4>2, <4>3
    <3> QED
      BY <1>2, <3>1, <3>2
  <2>3. free \in 1 .. 2 /\ \A a \in asks : a.id # free
    BY <2>2
  <2> HIDE DEF free
  <2>4. new \in Ask /\ new.id = free /\ new.st = "asked"
    BY <2>3, FormConstants DEF Ask, Nothing, Filling, Value
  <2> HIDE DEF new
  <2> QED
    BY <2>1, <2>3, <2>4
<1> QED
  BY <1>1, <1>2

LEMMA LoadAgainKeeps == ASSUME FormsInv, LoadAgain PROVE FormsInv'
<1>1. /\ form.load.again \cap {"focus", "token"} # {} /\ asks' = Asking
      /\ UNCHANGED <<form, record, typed, copy, edited, came, saving, saves, sent, made, stage, step, hint,
                     stamp, wrote, missed, unsaid>>
  BY DEF LoadAgain
<1>2. FieldsShape /\ AsksShape /\ SavesShape /\ HiddenFirst /\ Edits /\ NoBlanks /\ MakesOnce
  BY FormParts
<1>3. /\ asks' \subseteq Ask /\ \A a, b \in asks' : a.id = b.id => a = b
      /\ \A a \in asks' : a \in asks \/ a.st = "asked"
  BY <1>1, <1>2, AskingIs DEF AsksShape
<1>4. Loaded
  BY <1>1, <1>2, FormShapes DEF Loaded, FieldsShape
<1>5. FieldsShape' /\ SavesShape' /\ HiddenFirst' /\ MakesOnce' /\ AsksShape'
  BY <1>1, <1>2, <1>3, <1>4, SameForm, SavesStay, MadeStays DEF FieldsShape, HiddenFirst, AsksShape
<1>6. Edits'
  <2>1. Spares => form.load.spares # "none"
    BY <1>1 DEF Spares
  <2> QED
    BY <1>1, <1>2, <2>1, SameForm DEF Edits, Kept, InSaves, LoadsOnce
<1>7. NoBlanks'
  <2> SUFFICES ASSUME Gated PROVE SavesAreFull' /\ RecordIsFull' /\ AsksAreFull' /\ ScreenIsFull'
    BY <1>1, SameForm DEF NoBlanks, Gated
  <2>1. SavesAreFull /\ RecordIsFull /\ AsksAreFull /\ ScreenIsFull
    BY <1>2 DEF NoBlanks
  <2>2. SavesAreFull' /\ RecordIsFull' /\ ScreenIsFull'
    BY <1>1, <2>1, SameForm DEF SavesAreFull, RecordIsFull, ScreenIsFull
  <2>3. AsksAreFull'
    BY <1>3, <2>1 DEF AsksAreFull
  <2> QED
    BY <2>2, <2>3
<1> QED
  BY <1>5, <1>6, <1>7 DEF FormsInv

----------------------------------------------------------------------------
(* Forms: the user. *)

\* A field gets a value, and may be saved at once. A form that is loaded is never made
\* blank this way; a wizard's first step is changed at the first step only.
LEMMA NewKeeps ==
  ASSUME FormsInv, NEW f \in Fields, NEW v \in Value, New(f, v), OnScreen,
         Wizard => f = step, v = 0 => ~Loaded,
         UNCHANGED <<form, record, copy, came, asks, saving, made, stage, step, missed, unsaid>>,
         hint' \in {"none", "asked", "shown"}, stamp' \in Value, Loaded => stamp' # 0,
         \/ UNCHANGED <<saves, sent>>
         \/ /\ form.gate.instant /\ v # 0 /\ sent' \in 1 .. MaxSaves
            /\ saves' = saves \cup {[id |-> sent', st |-> "sent", vals |-> typed', of |-> {f}]}
  PROVE  FormsInv'
<1> DEFINE new == [id |-> sent', st |-> "sent", vals |-> typed', of |-> {f}]
<1>1. FieldsShape /\ AsksShape /\ SavesShape /\ HiddenFirst /\ Edits /\ NoBlanks /\ MakesOnce
  BY FormParts
<1>2. typed \in Filling /\ wrote \in Filling /\ 0 \in Value
  BY <1>1, FormConstants DEF FieldsShape, Value
<1>3. /\ typed' \in Filling /\ wrote' \in Filling /\ edited' = edited \cup {f}
      /\ \A g \in Fields : typed'[g] = IF g = f THEN v ELSE typed[g]
      /\ \A g \in Fields : wrote'[g] = IF g = f THEN IF saves = {} THEN v ELSE 0 ELSE wrote[g]
  BY <1>2 DEF New, Filling
<1>4. \/ UNCHANGED <<saves, sent>>
      \/ /\ form.gate.instant /\ v # 0 /\ sent' \in 1 .. MaxSaves
         /\ saves' = saves \cup {new} /\ new \in Save
         /\ new.st = "sent" /\ new.vals = typed' /\ new.of = {f}
  BY <1>3 DEF Save
<1> HIDE DEF new
<1>5. FieldsShape'
  BY <1>1, <1>3, SameForm DEF FieldsShape
<1>6. AsksShape'
  BY <1>1, SameForm DEF AsksShape
<1>7. SavesShape'
  <2>1. CASE UNCHANGED <<saves, sent>>
    BY <1>1, <2>1, SavesStay
  <2>2. CASE form.gate.instant /\ sent' \in 1 .. MaxSaves /\ saves' = saves \cup {new} /\ new \in Save
    <3>1. sent' \in 0 .. MaxSaves
      BY <2>2, FormConstants
    <3> QED
      BY <1>1, <2>2, <3>1 DEF SavesShape
  <2> QED
    BY <1>4, <2>1, <2>2
<1>8. HiddenFirst'
  BY DEF HiddenFirst, OnScreen
<1>9. Edits'
  <2> SUFFICES ASSUME Spares PROVE Kept' /\ InSaves' /\ LoadsOnce'
    BY SameForm DEF Edits
  <2>1. Kept /\ InSaves /\ LoadsOnce
    BY <1>1 DEF Edits
  <2>2. Kept'
    BY <1>3, <2>1 DEF Kept
  <2>3. InSaves'
    <3>1. CASE form.gate.instant
      BY <3>1 DEF InSaves
    <3>2. CASE ~form.gate.instant
      BY <1>3, <1>4, <2>1, <3>2 DEF InSaves
    <3> QED
      BY <3>1, <3>2
  <2>4. LoadsOnce'
    BY <2>1 DEF LoadsOnce
  <2> QED
    BY <2>2, <2>3, <2>4
<1>10. NoBlanks'
  <2> SUFFICES ASSUME Gated PROVE SavesAreFull' /\ RecordIsFull' /\ AsksAreFull' /\ ScreenIsFull'
    BY SameForm DEF NoBlanks, Gated
  <2>1. SavesAreFull /\ RecordIsFull /\ AsksAreFull /\ ScreenIsFull
    BY <1>1 DEF NoBlanks
  <2>2. RecordIsFull' /\ AsksAreFull'
    BY <2>1, SameForm DEF RecordIsFull, AsksAreFull
  <2>3. SavesAreFull'
    <3>1. form.gate.instant => Loaded
      BY <1>1, FormShapes DEF FieldsShape, Loaded
    <3> QED
      BY <1>3, <1>4, <2>1, <3>1, SameForm DEF SavesAreFull
  <2>4. form.load.when = "hidden" /\ ~missed /\ came = "ok" => Full(typed') /\ Full(copy)
    BY <1>3, <2>1 DEF ScreenIsFull, Full, Loaded
  <2>5. Wizard /\ step = 2 => typed'[1] # 0
    BY <1>3, <2>1 DEF ScreenIsFull, Fields
  <2>6. ScreenIsFull'
    BY <2>1, <2>4, <2>5, SameForm DEF ScreenIsFull
  <2> QED
    BY <2>2, <2>3, <2>6
<1>11. MakesOnce'
  <2>1. CASE UNCHANGED <<saves, sent>>
    BY <1>1, <2>1, MadeStays
  <2>2. CASE form.gate.instant
    <3>1. ~form.save.makes
      BY <1>1, <2>2, FormShapes DEF FieldsShape
    <3> QED
      BY <1>1, <3>1 DEF MakesOnce
  <2> QED
    BY <1>4, <2>1, <2>2
<1> QED
  BY <1>5, <1>6, <1>7, <1>8, <1>9, <1>10, <1>11 DEF FormsInv

LEMMA NextStamp ==
  ASSUME stamp \in Value, stamp < MaxStamp
  PROVE  stamp + 1 \in Value /\ stamp + 1 # 0
BY FormConstants DEF Value

LEMMA TypeKeeps == ASSUME FormsInv, NEW f \in Fields, Type(f) PROVE FormsInv'
<1>1. /\ OnScreen /\ (Wizard => f = step) /\ stamp < MaxStamp /\ stamp' = stamp + 1
      /\ New(f, stamp')
      /\ IF form.gate.instant
         THEN /\ sent < MaxSaves /\ sent' = sent + 1
              /\ saves' = saves \cup {[id |-> sent', st |-> "sent", vals |-> typed', of |-> {f}]}
         ELSE UNCHANGED <<sent, saves>>
      /\ UNCHANGED <<form, record, copy, came, asks, saving, made, stage, step, hint, upsets, missed, unsaid>>
  BY DEF Type
<1>2. FieldsShape /\ SavesShape
  BY FormParts
<1>3. stamp' \in Value /\ stamp' # 0 /\ hint' \in {"none", "asked", "shown"}
  BY <1>1, <1>2, NextStamp DEF FieldsShape
<1>4. sent < MaxSaves => sent + 1 \in 1 .. MaxSaves
  BY <1>2, FormConstants DEF SavesShape
<1> QED
  BY <1>1, <1>3, <1>4, NewKeeps

LEMMA BlankedKeeps == ASSUME FormsInv, NEW f \in Fields, Blanked(f) PROVE FormsInv'
<1>1. /\ OnScreen /\ ~Loaded /\ (Wizard => f = step) /\ New(f, 0)
      /\ UNCHANGED <<form, record, copy, came, asks, saving, saves, sent, made, stage, step, hint, stamp,
                     upsets, missed, unsaid>>
  BY DEF Blanked
<1>2. 0 \in Value /\ stamp' \in Value /\ hint' \in {"none", "asked", "shown"}
  BY <1>1, FormParts, FormConstants DEF FieldsShape, Value
<1> QED
  BY <1>1, <1>2, NewKeeps

\* What changes neither the fields, nor the loads, nor the saves, nor the stage.
LEMMA AsideKeeps ==
  ASSUME FormsInv, step' \in Fields, Wizard /\ step' = 2 => typed[1] # 0,
         hint' \in {"none", "asked", "shown"},
         UNCHANGED <<form, record, typed, copy, edited, came, asks, saving, saves, sent, made, stage, stamp,
                     wrote, missed, unsaid>>
  PROVE  FormsInv'
<1>1. FieldsShape /\ AsksShape /\ SavesShape /\ HiddenFirst /\ Edits /\ NoBlanks /\ MakesOnce
  BY FormParts
<1>2. FieldsShape' /\ AsksShape' /\ SavesShape' /\ HiddenFirst' /\ MakesOnce'
  BY <1>1, SameForm, SavesStay, MadeStays DEF FieldsShape, AsksShape, HiddenFirst
<1>3. Edits'
  BY <1>1, SameForm DEF Edits, Kept, InSaves, LoadsOnce
<1>4. NoBlanks'
  BY <1>1, SameForm DEF NoBlanks, Gated, SavesAreFull, RecordIsFull, AsksAreFull, ScreenIsFull
<1> QED
  BY <1>2, <1>3, <1>4 DEF FormsInv

LEMMA StepKeeps == ASSUME FormsInv, NextStep \/ PrevStep PROVE FormsInv'
<1>1. FieldsShape
  BY FormParts
<1>2. /\ Wizard /\ step' \in Fields /\ (step' = 2 => typed[1] # 0)
      /\ UNCHANGED <<form, record, typed, copy, edited, came, asks, saving, saves, sent, made, stage, hint,
                     stamp, upsets, wrote, missed, unsaid>>
  <2>1. CASE NextStep
    BY <1>1, <2>1 DEF NextStep, MayGoOn, GoTo, FieldsShape, Fields
  <2>2. CASE PrevStep
    BY <1>1, <2>2 DEF PrevStep, GoTo, FieldsShape, Fields
  <2> QED
    BY <2>1, <2>2
<1> QED
  BY <1>1, <1>2, AsideKeeps DEF FieldsShape

LEMMA HintKeeps == ASSUME FormsInv, Hint PROVE FormsInv'
<1>1. /\ OnScreen /\ step = 1
      /\ UNCHANGED <<form, record, copy, came, asks, saving, saves, sent, made, stage, step, upsets,
                     missed, unsaid>>
      /\ \/ hint' \in {"none", "asked", "shown"} /\ UNCHANGED <<typed, edited, wrote, stamp>>
         \/ hint' = "none" /\ stamp < MaxStamp /\ stamp' = stamp + 1 /\ New(1, stamp')
  BY DEF Hint
<1>2. FieldsShape
  BY FormParts
<1>3. CASE hint' \in {"none", "asked", "shown"} /\ UNCHANGED <<typed, edited, wrote, stamp>>
  <2>1. step' \in Fields /\ step' # 2
    BY <1>1, <1>2 DEF FieldsShape
  <2> QED
    BY <1>1, <1>3, <2>1, AsideKeeps
<1>4. CASE hint' = "none" /\ stamp < MaxStamp /\ stamp' = stamp + 1 /\ New(1, stamp')
  <2>1. stamp' \in Value /\ stamp' # 0
    BY <1>2, <1>4, NextStamp DEF FieldsShape
  <2>2. 1 \in Fields
    BY DEF Fields
  <2> QED
    BY <1>1, <1>4, <2>1, <2>2, NewKeeps
<1> QED
  BY <1>1, <1>3, <1>4

\* The reset button: nothing is typed any more.
LEMMA ResetFormKeeps == ASSUME FormsInv, ResetForm PROVE FormsInv'
<1>1. /\ OnScreen /\ form.gate.resets /\ typed' = copy /\ edited' = {} /\ wrote' = Nothing
      /\ UNCHANGED <<form, record, copy, came, asks, saving, saves, sent, made, stage, step, hint, stamp,
                     upsets, missed, unsaid>>
  BY DEF ResetForm
<1>2. FieldsShape /\ AsksShape /\ SavesShape /\ HiddenFirst /\ Edits /\ NoBlanks /\ MakesOnce
  BY FormParts
<1>3. Nothing \in Filling /\ \A f \in Fields : Nothing[f] = 0
  BY FormConstants DEF Nothing, Filling, Value
<1>4. FieldsShape' /\ AsksShape' /\ SavesShape' /\ MakesOnce'
  BY <1>1, <1>2, <1>3, SameForm, SavesStay, MadeStays DEF FieldsShape, AsksShape
<1>5. HiddenFirst'
  BY <1>1 DEF HiddenFirst, OnScreen
<1>6. Edits'
  BY <1>1, <1>2, <1>3, SameForm DEF Edits, Kept, InSaves, LoadsOnce
<1>7. NoBlanks'
  <2>1. ~Wizard
    BY <1>1, <1>2, FormShapes DEF FieldsShape, Wizard
  <2> QED
    BY <1>1, <1>2, <2>1, SameForm
    DEF NoBlanks, Gated, SavesAreFull, RecordIsFull, AsksAreFull, ScreenIsFull
<1> QED
  BY <1>4, <1>5, <1>6, <1>7 DEF FormsInv

----------------------------------------------------------------------------
(* Forms: saves. *)

\* A gated form's button sends no blank, and all that is typed and not saved.
LEMMA SubmitKeeps == ASSUME FormsInv, Submit PROVE FormsInv'
<1> DEFINE of  == IF form.save.sends = "edited" THEN edited ELSE Fields
           new == [id |-> sent', st |-> "sent", vals |-> typed, of |-> of]
<1>1. /\ Ready /\ ~saving /\ sent < MaxSaves /\ sent' = sent + 1 /\ saving' = TRUE
      /\ saves' = saves \cup {new}
      /\ UNCHANGED <<form, record, typed, copy, edited, came, asks, made, stage, step, hint, stamp, upsets,
                     wrote, missed, unsaid>>
  BY DEF Submit, MaySubmit
<1>2. FieldsShape /\ AsksShape /\ SavesShape /\ HiddenFirst /\ Edits /\ NoBlanks /\ MakesOnce
  BY FormParts
<1>3. ~form.gate.instant /\ OnScreen /\ stage = "open" /\ saves = {}
  BY <1>1, <1>2 DEF Ready, OnScreen, SavesShape
<1>4. sent' \in 1 .. MaxSaves /\ sent' \in 0 .. MaxSaves
  BY <1>1, <1>2, FormConstants DEF SavesShape
<1>5. of \subseteq Fields /\ (~Loaded => of = Fields)
  BY <1>2, FormShapes DEF FieldsShape, Loaded
<1>6. new \in Save /\ new.st = "sent" /\ new.vals = typed /\ new.of = of
  BY <1>2, <1>4, <1>5 DEF Save, FieldsShape
<1> HIDE DEF new
<1>7. saves' = {new}
  BY <1>1, <1>3
<1>8. FieldsShape' /\ AsksShape'
  BY <1>1, <1>2, SameForm DEF FieldsShape, AsksShape
<1>9. SavesShape'
  BY <1>1, <1>4, <1>6, <1>7 DEF SavesShape
<1>10. HiddenFirst'
  BY <1>1, <1>3 DEF HiddenFirst, OnScreen
<1>11. Edits'
  <2> SUFFICES ASSUME Spares PROVE Kept' /\ InSaves' /\ LoadsOnce'
    BY <1>1, SameForm DEF Edits
  <2>1. Kept /\ LoadsOnce
    BY <1>2 DEF Edits
  <2>2. Kept' /\ LoadsOnce'
    BY <1>1, <2>1 DEF Kept, LoadsOnce
  <2>3. InSaves'
    BY <1>1, <1>6, <1>7, <2>1 DEF InSaves, Kept
  <2> QED
    BY <2>2, <2>3
<1>12. NoBlanks'
  <2> SUFFICES ASSUME Gated PROVE SavesAreFull' /\ RecordIsFull' /\ AsksAreFull' /\ ScreenIsFull'
    BY <1>1, SameForm DEF NoBlanks, Gated
  <2>1. SavesAreFull /\ RecordIsFull /\ AsksAreFull /\ ScreenIsFull
    BY <1>2 DEF NoBlanks
  <2>2. RecordIsFull' /\ AsksAreFull' /\ ScreenIsFull'
    BY <1>1, <2>1, SameForm DEF RecordIsFull, AsksAreFull, ScreenIsFull
  <2>3. Full(typed)
    <3>1. CASE form.gate.checks
      BY <1>1, <3>1 DEF Ready, Full
    <3>2. CASE Wizard
      BY <1>1, <2>1, <3>2 DEF Ready, ScreenIsFull, Full, Fields
    <3>3. CASE form.load.when = "hidden" /\ ~missed
      <4>1. came = "ok"
        BY <1>2, <1>3, <2>1, <3>3 DEF OnScreen, ScreenIsFull, FieldsShape
      <4> QED
        BY <2>1, <3>3, <4>1 DEF ScreenIsFull
    <3> QED
      BY <3>1, <3>2, <3>3 DEF Gated
  <2>4. SavesAreFull'
    BY <1>1, <1>5, <1>6, <1>7, <2>3, SameForm DEF SavesAreFull, Full
  <2> QED
    BY <2>2, <2>4
<1>13. MakesOnce'
  BY <1>1, <1>2, <1>3, <1>6, <1>7 DEF MakesOnce, Told
<1> QED
  BY <1>8, <1>9, <1>10, <1>11, <1>12, <1>13 DEF FormsInv

\* One save is carried out, or turned down: it stays under way, its fields stay its fields.
LEMMA SaveMoves ==
  ASSUME FormsInv, NEW s \in saves, NEW i \in Save, i.of = s.of,
         saves' = (saves \ {s}) \cup {i},
         UNCHANGED <<form, typed, copy, edited, came, asks, saving, sent, stage, step, hint, stamp,
                     wrote, missed>>
  PROVE  AsksShape' /\ SavesShape' /\ HiddenFirst' /\ Edits'
<1>1. AsksShape /\ SavesShape /\ HiddenFirst /\ Edits
  BY FormParts
<1>2. AsksShape' /\ HiddenFirst'
  BY <1>1, SameForm DEF AsksShape, HiddenFirst
<1>3. SavesShape'
  BY <1>1 DEF SavesShape
<1>4. Edits'
  BY <1>1, SameForm DEF Edits, Kept, InSaves, LoadsOnce
<1> QED
  BY <1>2, <1>3, <1>4

LEMMA OneMore == ASSUME NEW a \in Nat, NEW b \in Nat, a <= b PROVE a <= b + 1
OBVIOUS

\* The backend carries a save out: what it writes is no blank, and the thing it makes is
\* told of, or counted as untold.
LEMMA SaveServedKeeps == ASSUME FormsInv, SaveServed PROVE FormsInv'
<1>1. PICK s \in saves :
        /\ s.st = "sent"
        /\ record' = [f \in Fields |-> IF f \in s.of THEN s.vals[f] ELSE record[f]]
        /\ made' = made + 1
        /\ \/ /\ saves' = (saves \ {s}) \cup {[s EXCEPT !.st = "accepted", !.vals = record']}
              /\ UNCHANGED <<upsets, unsaid>>
           \/ /\ unsaid' = unsaid + 1
              /\ saves' = (saves \ {s}) \cup {[s EXCEPT !.st = "failed"]}
        /\ UNCHANGED <<form, typed, copy, edited, came, asks, saving, sent, stage, step, hint, stamp, wrote, missed>>
  BY DEF SaveServed
<1>2. FieldsShape /\ AsksShape /\ SavesShape /\ HiddenFirst /\ Edits /\ NoBlanks /\ MakesOnce
  BY FormParts
<1>3. s \in Save
  BY <1>2 DEF SavesShape
<1>0. /\ made' = made + 1 /\ s.st = "sent"
      /\ UNCHANGED <<form, typed, copy, edited, came, asks, saving, sent, stage, step, hint, stamp, wrote, missed>>
  BY <1>1
<1>4. record' \in Filling
  BY <1>1, <1>2, <1>3 DEF FieldsShape, Save, Filling
<1>5. PICK i \in Save :
        /\ i.of = s.of /\ saves' = (saves \ {s}) \cup {i}
        /\ \/ i.st = "accepted" /\ i.vals = record' /\ unsaid' = unsaid
           \/ i.st = "failed" /\ unsaid' = unsaid + 1
  <2> DEFINE accepted == [s EXCEPT !.st = "accepted", !.vals = record']
             failed   == [s EXCEPT !.st = "failed"]
  <2>1. accepted \in Save /\ accepted.of = s.of /\ accepted.st = "accepted" /\ accepted.vals = record'
    BY <1>3, <1>4 DEF Save
  <2>2. failed \in Save /\ failed.of = s.of /\ failed.st = "failed"
    BY <1>3 DEF Save
  <2>3. \/ saves' = (saves \ {s}) \cup {accepted} /\ unsaid' = unsaid
        \/ saves' = (saves \ {s}) \cup {failed} /\ unsaid' = unsaid + 1
    BY <1>1
  <2> HIDE DEF accepted, failed
  <2> QED
    BY <2>1, <2>2, <2>3
<1>6. AsksShape' /\ SavesShape' /\ HiddenFirst' /\ Edits'
  BY <1>0, <1>5, SaveMoves
<1>7. FieldsShape'
  BY <1>0, <1>2, <1>4, SameForm DEF FieldsShape
<1>8. NoBlanks'
  <2> SUFFICES ASSUME Gated PROVE SavesAreFull' /\ RecordIsFull' /\ AsksAreFull' /\ ScreenIsFull'
    BY <1>0, SameForm DEF NoBlanks, Gated
  <2>1. SavesAreFull /\ RecordIsFull /\ AsksAreFull /\ ScreenIsFull
    BY <1>2 DEF NoBlanks
  <2>2. Full(record')
    BY <1>1, <2>1 DEF SavesAreFull, RecordIsFull, Full
  <2>3. RecordIsFull'
    BY <1>0, <2>1, <2>2 DEF RecordIsFull
  <2>4. SavesAreFull'
    BY <1>0, <1>5, <2>1, <2>2, SameForm DEF SavesAreFull
  <2>5. AsksAreFull' /\ ScreenIsFull'
    BY <1>0, <2>1, SameForm DEF AsksAreFull, ScreenIsFull
  <2> QED
    BY <2>3, <2>4, <2>5
<1>9. MakesOnce'
  <2>1. made \in Nat /\ unsaid \in Nat /\ made' \in Nat /\ unsaid' \in Nat
    BY <1>0, <1>2, <1>5 DEF MakesOnce
  <2>2. ASSUME form.save.makes, form.save.ok = "close"
        PROVE  /\ stage = "open" /\ made' <= unsaid' + 1 /\ (~Told' => made' <= unsaid')
    <3>1. saves = {s} /\ stage = "open"
      BY <1>2, <2>2, FormShapes DEF FieldsShape, SavesShape, MakesOnce
    <3>2. ~Told
      BY <1>0, <3>1 DEF Told
    <3>3. made <= unsaid
      BY <1>2, <2>2, <3>2 DEF MakesOnce
    <3>4. CASE i.st = "accepted" /\ unsaid' = unsaid
      <4>1. Told'
        BY <1>5, <3>4 DEF Told
      <4>2. made' <= unsaid' + 1
        BY <1>0, <2>1, <3>3, <3>4
      <4> QED
        BY <3>1, <4>1, <4>2
    <3>5. CASE unsaid' = unsaid + 1
      <4>1. made' <= unsaid'
        BY <1>0, <2>1, <3>3, <3>5
      <4>2. made' <= unsaid' + 1
        BY <2>1, <4>1, OneMore
      <4> QED
        BY <3>1, <4>1, <4>2
    <3> QED
      BY <1>5, <3>4, <3>5
  <2> QED
    BY <1>0, <2>1, <2>2 DEF MakesOnce
<1> QED
  BY <1>6, <1>7, <1>8, <1>9 DEF FormsInv

LEMMA SaveRefusedKeeps == ASSUME FormsInv, SaveRefused PROVE FormsInv'
<1>1. PICK s \in saves :
        /\ s.st = "sent" /\ saves' = (saves \ {s}) \cup {[s EXCEPT !.st = "failed"]}
        /\ UNCHANGED <<form, record, typed, copy, edited, came, asks, saving, sent, made, stage, step, hint,
                       stamp, wrote, missed, unsaid>>
  BY DEF SaveRefused
<1> DEFINE failed == [s EXCEPT !.st = "failed"]
<1>2. FieldsShape /\ AsksShape /\ SavesShape /\ HiddenFirst /\ Edits /\ NoBlanks /\ MakesOnce
  BY FormParts
<1>3. failed \in Save /\ failed.of = s.of /\ failed.st = "failed" /\ saves' = (saves \ {s}) \cup {failed}
  BY <1>1, <1>2 DEF SavesShape, Save
<1> HIDE DEF failed
<1>4. AsksShape' /\ SavesShape' /\ HiddenFirst' /\ Edits'
  BY <1>1, <1>3, SaveMoves
<1>5. FieldsShape'
  BY <1>1, <1>2, SameForm DEF FieldsShape
<1>6. NoBlanks'
  <2> SUFFICES ASSUME Gated PROVE SavesAreFull' /\ RecordIsFull' /\ AsksAreFull' /\ ScreenIsFull'
    BY <1>1, SameForm DEF NoBlanks, Gated
  <2>1. SavesAreFull /\ RecordIsFull /\ AsksAreFull /\ ScreenIsFull
    BY <1>2 DEF NoBlanks
  <2>2. SavesAreFull'
    BY <1>1, <1>3, <2>1, SameForm DEF SavesAreFull
  <2>3. RecordIsFull' /\ AsksAreFull' /\ ScreenIsFull'
    BY <1>1, <2>1, SameForm DEF RecordIsFull, AsksAreFull, ScreenIsFull
  <2> QED
    BY <2>2, <2>3
<1>7. MakesOnce'
  <2>1. Told => Told'
    BY <1>1, <1>3 DEF Told
  <2> QED
    BY <1>1, <1>2, <2>1 DEF MakesOnce
<1> QED
  BY <1>4, <1>5, <1>6, <1>7 DEF FormsInv

\* What is on the screen after a success.
LEMMA AfterIs ==
  ASSUME FieldsShape, NEW s \in Save
  PROVE  /\ After(s) \in Filling
         /\ form.save.ok = "answer" => After(s) = Refilled(s.vals)
         /\ form.save.ok = "clear" => After(s) = Nothing
         /\ form.save.ok \notin {"answer", "clear"} => After(s) = IF form.save.reverts THEN copy ELSE typed
<1>1. /\ form.save.ok = "answer" => After(s) = Refilled(s.vals)
      /\ form.save.ok = "clear" => After(s) = Nothing
      /\ form.save.ok \notin {"answer", "clear"} => After(s) = IF form.save.reverts THEN copy ELSE typed
  BY FormShapes DEF After, FieldsShape
<1>2. Refilled(s.vals) \in Filling
  BY DEF Refilled, FieldsShape, Filling, Save
<1>3. Nothing \in Filling
  BY FormConstants DEF Nothing, Filling, Value
<1> QED
  BY <1>1, <1>2, <1>3 DEF FieldsShape

\* A success: what was saved is no longer the user's own; where fields are saved one by
\* one the others stay, spared by the answer. A hidden form stays full, and a form that
\* is gone has no save left.
LEMMA SaveDoneKeeps == ASSUME FormsInv, SaveDone PROVE FormsInv'
<1>1. PICK s \in saves :
        /\ s.st = "accepted" /\ saves' = saves \ {s} /\ saving' = FALSE
        /\ typed' = After(s)
        /\ edited' = IF form.save.cleans \/ form.save.ok = "clear" THEN {} ELSE edited
        /\ wrote' = [f \in Fields |-> IF f \in s.of THEN 0 ELSE wrote[f]]
        /\ asks' = IF "saved" \in form.load.again THEN Asking ELSE asks
        /\ stage' = CASE form.save.ok = "close" -> "closed" [] form.save.ok = "leave" -> "leaving" [] OTHER -> stage
        /\ UNCHANGED <<form, record, copy, came, sent, made, step, hint, stamp, upsets, missed, unsaid>>
  BY DEF SaveDone
<1>2. FieldsShape /\ AsksShape /\ SavesShape /\ HiddenFirst /\ Edits /\ NoBlanks /\ MakesOnce
  BY FormParts
<1>3. s \in Save
  BY <1>2 DEF SavesShape
<1>4. saves' \subseteq saves /\ (~form.gate.instant => saves' = {})
  BY <1>1, <1>2 DEF SavesShape
<1>5. /\ stage' \in {"open", "leaving", "closed"}
      /\ form.save.ok = "close" => stage' = "closed"
  BY <1>1, <1>2 DEF FieldsShape
<1>6. /\ wrote' \in Filling
      /\ \A f \in Fields : wrote'[f] # 0 => wrote'[f] = wrote[f] /\ f \notin s.of
  BY <1>1, <1>2, FormConstants DEF FieldsShape, Filling, Value
<1>7. /\ UNCHANGED <<form, record, copy, came, sent, made, step, hint, stamp, upsets, missed, unsaid>>
      /\ typed' = After(s) /\ saving' = FALSE
      /\ edited' = IF form.save.cleans \/ form.save.ok = "clear" THEN {} ELSE edited
      /\ asks' = IF "saved" \in form.load.again THEN Asking ELSE asks
  BY <1>1
<1>8. FieldsShape'
  <2>1. typed' \in Filling
    BY <1>2, <1>3, <1>7, AfterIs
  <2>2. edited' \subseteq Fields
    BY <1>2, <1>7 DEF FieldsShape
  <2> QED
    BY <1>2, <1>5, <1>6, <1>7, <2>1, <2>2, SameForm DEF FieldsShape
<1>9. /\ AsksShape' /\ \A a \in asks' : a \in asks \/ a.st = "asked"
  <2>1. CASE "saved" \in form.load.again
    <3>1. Loaded
      BY <1>2, <2>1, FormShapes DEF FieldsShape, Loaded
    <3> QED
      BY <1>2, <1>7, <2>1, <3>1, AskingIs, SameForm DEF AsksShape
  <2>2. CASE "saved" \notin form.load.again
    BY <1>2, <1>7, <2>2, SameForm DEF AsksShape
  <2> QED
    BY <2>1, <2>2
<1>10. SavesShape'
  BY <1>2, <1>4, <1>7 DEF SavesShape
<1>11. HiddenFirst'
  BY <1>1, <1>2 DEF HiddenFirst
<1>12. Edits'
  <2> SUFFICES ASSUME Spares PROVE Kept' /\ InSaves' /\ LoadsOnce'
    BY <1>7, SameForm DEF Edits
  <2>1. Kept /\ InSaves /\ LoadsOnce
    BY <1>2 DEF Edits
  <2>2. Kept'
    <3> SUFFICES ASSUME NEW f \in Fields, wrote'[f] # 0 PROVE f \in edited' /\ typed'[f] = wrote'[f]
      BY DEF Kept
    <3>1. wrote'[f] = wrote[f] /\ f \notin s.of /\ f \in edited /\ typed[f] = wrote[f]
      BY <1>6, <2>1 DEF Kept
    <3>2. form.gate.instant
      BY <2>1, <3>1 DEF InSaves
    <3>3. /\ form.load.spares \in {"whole", "field"}
          /\ ~form.save.cleans /\ ~form.save.reverts /\ form.save.ok # "clear"
      BY <1>2, <3>2, FormShapes DEF FieldsShape
    <3>4. Spared(f)
      BY <3>1, <3>3 DEF Spared
    <3>5. typed'[f] = typed[f]
      <4>1. CASE form.save.ok = "answer"
        BY <1>2, <1>3, <1>7, <3>4, <4>1, AfterIs DEF Refilled
      <4>2. CASE form.save.ok # "answer"
        BY <1>2, <1>3, <1>7, <3>3, <4>2, AfterIs
      <4> QED
        BY <4>1, <4>2
    <3> QED
      BY <1>7, <3>1, <3>3, <3>5
  <2>3. InSaves'
    BY <1>4, <1>7 DEF InSaves
  <2>4. LoadsOnce'
    BY <1>7, <2>1 DEF LoadsOnce, Spares
  <2> QED
    BY <2>2, <2>3, <2>4
<1>13. NoBlanks'
  <2> SUFFICES ASSUME Gated PROVE SavesAreFull' /\ RecordIsFull' /\ AsksAreFull' /\ ScreenIsFull'
    BY <1>7, SameForm DEF NoBlanks, Gated
  <2>1. SavesAreFull /\ RecordIsFull /\ AsksAreFull /\ ScreenIsFull
    BY <1>2 DEF NoBlanks
  <2>2. SavesAreFull'
    BY <1>4, <1>7, <2>1, SameForm DEF SavesAreFull
  <2>3. RecordIsFull' /\ AsksAreFull'
    BY <1>7, <1>9, <2>1 DEF RecordIsFull, AsksAreFull, Loaded
  <2>4. ASSUME form.load.when = "hidden", ~missed, came = "ok" PROVE Full(typed')
    <3>1. Full(typed) /\ Full(copy) /\ Full(s.vals) /\ form.save.ok # "clear"
      BY <1>1, <1>2, <2>1, <2>4, FormShapes DEF SavesAreFull, ScreenIsFull, FieldsShape
    <3>2. CASE form.save.ok = "answer"
      BY <1>2, <1>3, <1>7, <3>1, <3>2, AfterIs DEF Refilled, Full
    <3>3. CASE form.save.ok # "answer"
      BY <1>2, <1>3, <1>7, <3>1, <3>3, AfterIs
    <3> QED
      BY <3>2, <3>3
  <2>5. Wizard => typed' = typed
    BY <1>2, <1>3, <1>7, AfterIs, FormShapes DEF FieldsShape, Wizard
  <2>6. ScreenIsFull'
    BY <1>7, <2>1, <2>4, <2>5, SameForm DEF ScreenIsFull
  <2> QED
    BY <2>2, <2>3, <2>6
<1>14. MakesOnce'
  <2>1. ASSUME form.save.makes, form.save.ok = "close"
        PROVE  saves' = {} /\ Told'
    BY <1>2, <1>4, <1>5, <2>1, FormShapes DEF FieldsShape, Told
  <2> QED
    BY <1>2, <1>7, <2>1 DEF MakesOnce
<1> QED
  BY <1>8, <1>9, <1>10, <1>11, <1>12, <1>13, <1>14 DEF FormsInv

LEMMA SaveFailedKeeps == ASSUME FormsInv, SaveFailed PROVE FormsInv'
<1>1. PICK s \in saves :
        /\ s.st = "failed" /\ saves' = saves \ {s} /\ saving' = FALSE
        /\ stage' = IF form.save.bad = "close" THEN "closed" ELSE stage
        /\ UNCHANGED <<form, record, typed, copy, edited, came, asks, sent, made, step, hint, stamp, upsets,
                       wrote, missed, unsaid>>
  BY DEF SaveFailed, FlagAfterFailure
<1>2. FieldsShape /\ AsksShape /\ SavesShape /\ HiddenFirst /\ Edits /\ NoBlanks /\ MakesOnce
  BY FormParts
<1>3. saves' \subseteq saves /\ (~form.gate.instant => saves' = {})
  BY <1>1, <1>2 DEF SavesShape
<1>4. FieldsShape' /\ AsksShape' /\ HiddenFirst'
  BY <1>1, <1>2, SameForm DEF FieldsShape, AsksShape, HiddenFirst
<1>5. SavesShape'
  BY <1>1, <1>2, <1>3 DEF SavesShape
<1>6. Edits'
  BY <1>1, <1>2, <1>3, SameForm DEF Edits, Kept, InSaves, LoadsOnce
<1>7. NoBlanks'
  BY <1>1, <1>2, <1>3, SameForm
  DEF NoBlanks, Gated, SavesAreFull, RecordIsFull, AsksAreFull, ScreenIsFull
<1>8. MakesOnce'
  <2>1. Told => Told'
    BY <1>1 DEF Told
  <2>2. form.save.makes => saves' = {}
    BY <1>2, <1>3, FormShapes DEF FieldsShape
  <2> QED
    BY <1>1, <1>2, <2>1, <2>2 DEF MakesOnce
<1> QED
  BY <1>4, <1>5, <1>6, <1>7, <1>8 DEF FormsInv

LEMMA LeaveKeeps == ASSUME FormsInv, Leave PROVE FormsInv'
<1>1. /\ stage = "leaving" /\ stage' = "closed"
      /\ UNCHANGED <<form, record, typed, copy, edited, came, asks, saving, saves, sent, made, step, hint,
                     stamp, upsets, wrote, missed, unsaid>>
  BY DEF Leave
<1>2. FieldsShape /\ AsksShape /\ SavesShape /\ HiddenFirst /\ Edits /\ NoBlanks /\ MakesOnce
  BY FormParts
<1>3. FieldsShape' /\ AsksShape' /\ SavesShape' /\ HiddenFirst'
  BY <1>1, <1>2, SameForm, SavesStay DEF FieldsShape, AsksShape, HiddenFirst
<1>4. Edits'
  BY <1>1, <1>2, SameForm DEF Edits, Kept, InSaves, LoadsOnce
<1>5. NoBlanks'
  BY <1>1, <1>2, SameForm DEF NoBlanks, Gated, SavesAreFull, RecordIsFull, AsksAreFull, ScreenIsFull
<1>6. MakesOnce'
  BY <1>1, <1>2 DEF MakesOnce, Told
<1> QED
  BY <1>3, <1>4, <1>5, <1>6 DEF FormsInv

\* Somebody else saves the record, and nothing blank either.
LEMMA OtherSavesKeeps == ASSUME FormsInv, NEW f \in Fields, OtherSaves(f) PROVE FormsInv'
<1>1. /\ Loaded /\ stamp < MaxStamp /\ stamp' = stamp + 1
      /\ record' = [record EXCEPT ![f] = stamp']
      /\ UNCHANGED <<form, typed, copy, edited, came, asks, saving, saves, sent, made, stage, step, hint,
                     upsets, wrote, missed, unsaid>>
  BY DEF OtherSaves
<1>2. FieldsShape /\ AsksShape /\ SavesShape /\ HiddenFirst /\ Edits /\ NoBlanks /\ MakesOnce
  BY FormParts
<1>3. stamp' \in Value /\ stamp' # 0
  BY <1>1, <1>2, NextStamp DEF FieldsShape
<1>4. /\ record' \in Filling
      /\ \A g \in Fields : record'[g] = IF g = f THEN stamp' ELSE record[g]
  BY <1>1, <1>2, <1>3 DEF FieldsShape, Filling
<1>5. UNCHANGED <<form, typed, copy, edited, came, asks, saving, saves, sent, made, stage, step, hint,
                  upsets, wrote, missed, unsaid>>
  BY <1>1
<1>6. FieldsShape'
  BY <1>2, <1>3, <1>4, <1>5, SameForm DEF FieldsShape
<1>7. AsksShape' /\ SavesShape' /\ HiddenFirst' /\ MakesOnce'
  BY <1>2, <1>5, SameForm, SavesStay, MadeStays DEF AsksShape, HiddenFirst
<1>8. Edits'
  BY <1>2, <1>5, SameForm DEF Edits, Kept, InSaves, LoadsOnce
<1>9. NoBlanks'
  <2> SUFFICES ASSUME Gated PROVE SavesAreFull' /\ RecordIsFull' /\ AsksAreFull' /\ ScreenIsFull'
    BY <1>5, SameForm DEF NoBlanks, Gated
  <2>1. SavesAreFull /\ RecordIsFull /\ AsksAreFull /\ ScreenIsFull
    BY <1>2 DEF NoBlanks
  <2>2. SavesAreFull' /\ AsksAreFull' /\ ScreenIsFull'
    BY <1>5, <2>1, SameForm DEF SavesAreFull, AsksAreFull, ScreenIsFull
  <2>3. Full(record')
    BY <1>1, <1>3, <1>4, <2>1 DEF RecordIsFull, Full
  <2>4. RecordIsFull'
    BY <1>5, <2>1, <2>3 DEF RecordIsFull
  <2> QED
    BY <2>2, <2>4
<1> QED
  BY <1>6, <1>7, <1>8, <1>9 DEF FormsInv

----------------------------------------------------------------------------
(* Forms: the theorems. *)

LEMMA FormsStart == FormsInit => FormsInv
<1> SUFFICES ASSUME FormsInit PROVE FormsInv
  OBVIOUS
<1> DEFINE first == [id |-> 1, st |-> "asked", vals |-> Nothing]
<1>1. /\ form \in FormRows /\ stamp = IF Loaded THEN 1 ELSE 0
      /\ record = [f \in Fields |-> stamp]
      /\ typed = Nothing /\ copy = Nothing /\ edited = {} /\ wrote = Nothing
      /\ came = "due" /\ saving = FALSE
      /\ asks = IF Loaded THEN {first} ELSE {}
      /\ saves = {} /\ sent = 0 /\ made = 0 /\ unsaid = 0 /\ missed = FALSE
      /\ stage = "open" /\ step = 1 /\ hint = "none"
  BY DEF FormsInit
<1>2. Nothing \in Filling /\ 0 \in Value /\ 1 \in Value /\ 1 \in Fields /\ 0 \in 0 .. MaxSaves
  BY FormConstants DEF Nothing, Filling, Value, Fields
<1>3. first \in Ask /\ first.st = "asked"
  BY <1>2 DEF Ask
<1> HIDE DEF first
<1>4. FieldsShape
  <2>1. stamp \in Value /\ (Loaded => stamp # 0)
    BY <1>1, <1>2
  <2>2. record \in Filling
    BY <1>1, <2>1 DEF Filling
  <2> QED
    BY <1>1, <1>2, <2>1, <2>2 DEF FieldsShape
<1>5. AsksShape /\ SavesShape /\ HiddenFirst
  BY <1>1, <1>2, <1>3 DEF AsksShape, SavesShape, HiddenFirst
<1>6. Edits
  <2>1. Kept /\ InSaves
    BY <1>1 DEF Kept, InSaves, Nothing
  <2>2. Spares => LoadsOnce
    BY <1>1, FormShapes DEF Spares, LoadsOnce, Loaded
  <2> QED
    BY <2>1, <2>2 DEF Edits
<1>7. NoBlanks
  <2>1. SavesAreFull /\ AsksAreFull /\ ScreenIsFull
    BY <1>1, <1>3 DEF SavesAreFull, AsksAreFull, ScreenIsFull
  <2>2. RecordIsFull
    BY <1>1, <1>4 DEF RecordIsFull, Full, FieldsShape
  <2> QED
    BY <2>1, <2>2 DEF NoBlanks
<1>8. MakesOnce
  BY <1>1 DEF MakesOnce
<1> QED
  BY <1>4, <1>5, <1>6, <1>7, <1>8 DEF FormsInv

LEMMA FormsStep == FormsInv /\ [FormsNext]_formVars => FormsInv'
<1> SUFFICES ASSUME FormsInv, [FormsNext]_formVars PROVE FormsInv'
  OBVIOUS
<1>1. CASE LoadRead \/ LoadShown \/ LoadLost \/ LoadAgain
  BY <1>1, LoadReadKeeps, LoadShownKeeps, LoadLostKeeps, LoadAgainKeeps
<1>2. ASSUME NEW f \in Fields, Type(f) \/ Blanked(f) \/ OtherSaves(f) PROVE FormsInv'
  BY <1>2, TypeKeeps, BlankedKeeps, OtherSavesKeeps
<1>3. CASE ResetForm \/ NextStep \/ PrevStep \/ Hint
  BY <1>3, ResetFormKeeps, StepKeeps, HintKeeps
<1>4. CASE Submit \/ SaveServed \/ SaveRefused \/ SaveDone \/ SaveFailed \/ Leave
  BY <1>4, SubmitKeeps, SaveServedKeeps, SaveRefusedKeeps, SaveDoneKeeps, SaveFailedKeeps, LeaveKeeps
<1>5. CASE UNCHANGED formVars
  <2>1. /\ step' \in Fields /\ hint' \in {"none", "asked", "shown"}
        /\ Wizard /\ step' = 2 => typed[1] # 0
    BY <1>5, FormParts DEF formVars, FieldsShape, NoBlanks, Gated, ScreenIsFull
  <2> QED
    BY <1>5, <2>1, AsideKeeps DEF formVars
<1> QED
  BY <1>1, <1>2, <1>3, <1>4, <1>5 DEF FormsNext

LEMMA FormsInvariant == FormsSpec => []FormsInv
BY FormsStart, FormsStep, PTL DEF FormsSpec

LEMMA FormsInvGives == FormsInv => FormsTypeOK /\ FormsKeepRecords /\ MadeOnce
<1>1. FormsInv => FormsTypeOK
  BY DEF FormsInv, FieldsShape, AsksShape, SavesShape, FormsTypeOK
<1>2. FormsInv => EditsSurvive
  BY DEF FormsInv, Edits, Spares, Kept, EditsSurvive
<1>3. FormsInv => NoBlanksSaved
  <2> SUFFICES ASSUME FormsInv, Gated, made > 0, NEW f \in Fields PROVE record[f] # 0
    BY DEF NoBlanksSaved, Gated
  <2> QED
    BY DEF FormsInv, NoBlanks, RecordIsFull, Full
<1>4. FormsInv => MadeOnce
  <2> SUFFICES ASSUME FormsInv, form.save.makes, form.save.ok = "close" PROVE made <= 1 + unsaid
    BY DEF MadeOnce
  <2>1. made \in Nat /\ unsaid \in Nat /\ made <= unsaid + 1
    BY DEF FormsInv, MakesOnce
  <2> QED
    BY ONLY <2>1
<1> QED
  BY <1>1, <1>2, <1>3, <1>4 DEF FormsKeepRecords

\* Every form keeps to its types, whatever its records.
THEOREM FormsTypes == FormsSpec => []FormsTypeOK
BY FormsInvGives, FormsInvariant, PTL

\* What the user typed survives every answer until it is saved, and no save of a gated
\* form puts a blank or a default where something was.
THEOREM FormsKeepTheirRecords == FormsSpec => []FormsKeepRecords
BY FormsInvGives, FormsInvariant, PTL

\* A form that is gone after a success makes one thing, and one more for each answer lost.
THEOREM FormsMakeOne == FormsSpec => []MadeOnce
BY FormsInvGives, FormsInvariant, PTL

----------------------------------------------------------------------------
(* Pages and forms together, as the runs check them. *)

LEMMA NoPageInv == NoPage => PagesInv
<1> SUFFICES ASSUME NoPage PROVE PagesInv
  OBVIOUS
<1>1. /\ page \in Pages /\ key \in page.keys /\ page.failed = {"keep"}
      /\ db = [r \in Rows |-> Absent] /\ was = [r \in Rows |-> {Absent}]
      /\ cache = [s \in Slots |-> None] /\ gets = {} /\ erred = FALSE
      /\ jobs = {} /\ busy = {} /\ open = None /\ mine = {} /\ events = 0
  BY ScreensConstants DEF NoPage, BuildingPage, WebQuery, List
<1>2. RowsShape
  <2>1. 0 \in 0 .. MaxEvents
    BY PagesConstants
  <2>2. db \in [Rows -> Statuses] /\ was \in [Rows -> SUBSET Statuses] /\ \A r \in Rows : db[r] \in was[r]
    BY <1>1 DEF Statuses
  <2> QED
    BY <1>1, <2>1, <2>2 DEF RowsShape
<1>3. LoadsShape /\ JobsShape
  BY <1>1, FS_EmptySet DEF LoadsShape, JobsShape
<1>4. FlagsUp /\ OneAtATime
  BY <1>1 DEF FlagsUp, OneAtATime
<1>5. TrueRows
  BY <1>1 DEF TrueRows, CachedWereTrue, LoadedWereTrue, DoneWereTrue
<1>6. OwnWrites
  BY <1>1 DEF OwnWrites
<1>7. ForKey
  <2>1. \A s \in Slots : cache[s] = None
    BY <1>1
  <2>2. page.load = "query"
    BY DEF NoPage, BuildingPage, WebQuery, List
  <2> QED
    BY <2>1, <2>2 DEF ForKey
<1> QED
  BY <1>7, <1>2, <1>3, <1>4, <1>5, <1>6 DEF PagesInv

LEMMA ScreensStart == ScreensInit => PagesInv /\ FormsInv
BY PagesStart, FormsStart, NoPageInv DEF ScreensInit, NoForm

LEMMA ScreensStep ==
  PagesInv /\ FormsInv /\ [ScreensNext]_screenVars => PagesInv' /\ FormsInv'
<1>1. ScreensNext => [Next]_vars /\ [FormsNext]_formVars
  BY DEF ScreensNext
<1>2. UNCHANGED screenVars => UNCHANGED vars /\ UNCHANGED formVars
  BY DEF screenVars
<1> QED
  BY <1>1, <1>2, PagesStep, FormsStep

LEMMA ScreensInvariant == ScreensSpec => [](PagesInv /\ FormsInv)
BY ScreensStart, ScreensStep, PTL DEF ScreensSpec

\* Pages and forms keep their types also where one of them is on the screen and the
\* other waits, as in the runs.
THEOREM ScreensTypes == ScreensSpec => []ScreensTypeOK
<1>1. PagesInv /\ FormsInv => ScreensTypeOK
  BY PagesInvGives, FormsInvGives DEF ScreensTypeOK
<1> QED
  BY <1>1, ScreensInvariant, PTL

\* So do the properties of either: a waiting screen breaks none of them.
THEOREM ScreensKeepTheirWord ==
  ScreensSpec => [](OneAtATime /\ RowsAreTrue /\ OwnWriteShows /\ FormsKeepRecords /\ MadeOnce)
BY PagesInvGives, FormsInvGives, ScreensInvariant, PTL

============================================================================
