-------------------------------- MODULE Panel --------------------------------
(***************************************************************************)
(* NotificationPanel: the list and the unread badge in the web app's       *)
(* header. Its operations change the screen first and the backend second,  *)
(* and put back the whole list they started from when a request fails,     *)
(* whatever has happened to it since.                                      *)
(***************************************************************************)
EXTENDS Integers, FiniteSets

CONSTANTS
  Notes,      \* notifications
  MaxChanges  \* bound on operations, refreshes, polls, arrivals, and answers that are lost or refused

ASSUME PanelConstants == IsFiniteSet(Notes) /\ MaxChanges \in Nat

VARIABLES
  notes,     \* backend: each notification's state
  rows,      \* the list on the screen
  badge,     \* unreadCount
  listing,   \* the refresh under way
  counting,  \* the poll of the unread count under way
  ops,       \* the operations under way
  clean,     \* history: the screen has been loaded and nothing has overlapped since
  changes    \* how many of those so far

panelVars == <<notes, rows, badge, listing, counting, ops, clean, changes>>

States  == {"none", "unread", "read"}
View    == [Notes -> States]
NoView  == [n \in Notes |-> "none"]
Counts  == 0 .. Cardinality(Notes)
Badges  == 0 .. (Cardinality(Notes) + MaxChanges)   \* a rollback can count a row twice
Unread(v) == Cardinality({n \in Notes : v[n] = "unread"})

\* A request's answer is there once it has been read.
NoList  == [on |-> FALSE, view |-> NoView, listed |-> FALSE, count |-> 0, counted |-> FALSE, alone |-> TRUE]
NoCount == [on |-> FALSE, count |-> 0, counted |-> FALSE]

PanelTypeOK ==
  /\ notes \in View /\ rows \in View /\ badge \in Badges
  /\ listing \in [on : BOOLEAN, view : View, listed : BOOLEAN, count : Counts, counted : BOOLEAN, alone : BOOLEAN]
  /\ counting \in [on : BOOLEAN, count : Counts, counted : BOOLEAN]
  /\ ops \subseteq [id : 1 .. MaxChanges, on : SUBSET Notes, all : BOOLEAN, to : {"read", "none"},
                    rows : View, badge : Badges, unread : BOOLEAN, st : {"sent", "ok", "failed"}]
  /\ clean \in BOOLEAN /\ changes \in 0 .. MaxChanges

PanelInit ==
  /\ notes \in View
  /\ rows = NoView /\ badge = 0
  /\ listing = NoList /\ counting = NoCount /\ ops = {}
  /\ clean = FALSE /\ changes = 0

----------------------------------------------------------------------------
Change == changes < MaxChanges /\ changes' = changes + 1

Still == ops = {} /\ ~listing.on /\ ~counting.on

\* refresh(): when the panel is mounted, opened, or told to retry. The list and the
\* count are asked for together; a refresh under way is shared.
Refresh ==
  /\ Change /\ ~listing.on
  /\ listing' = [NoList EXCEPT !.on = TRUE, !.alone = Still]
  /\ UNCHANGED <<notes, rows, badge, counting, ops, clean>>

ListRead ==
  /\ listing.on
  /\ \/ ~listing.listed /\ listing' = [listing EXCEPT !.listed = TRUE, !.view = notes]
     \/ ~listing.counted /\ listing' = [listing EXCEPT !.counted = TRUE, !.count = Unread(notes)]
  /\ UNCHANGED <<notes, rows, badge, counting, ops, clean, changes>>

ListShown ==
  /\ listing.on /\ listing.listed /\ listing.counted
  /\ rows' = listing.view /\ badge' = listing.count
  /\ clean' = listing.alone
  /\ listing' = NoList
  /\ UNCHANGED <<notes, counting, ops, changes>>

ListFails ==
  /\ Change /\ listing.on
  /\ listing' = NoList
  /\ UNCHANGED <<notes, rows, badge, counting, ops, clean>>

\* Every minute, the count alone.
PollCount ==
  /\ Change /\ ~counting.on
  /\ counting' = [NoCount EXCEPT !.on = TRUE]
  /\ clean' = (clean /\ Still)
  /\ listing' = [listing EXCEPT !.alone = FALSE]
  /\ UNCHANGED <<notes, rows, badge, ops>>

CountRead ==
  /\ counting.on /\ ~counting.counted
  /\ counting' = [counting EXCEPT !.counted = TRUE, !.count = Unread(notes)]
  /\ UNCHANGED <<notes, rows, badge, listing, ops, clean, changes>>

CountShown ==
  /\ counting.on /\ counting.counted
  /\ counting' = NoCount /\ badge' = counting.count
  /\ UNCHANGED <<notes, rows, listing, ops, clean, changes>>

----------------------------------------------------------------------------
(* Operations: mark read or delete, one row or all of them. *)

\* The state an operation gives the rows it is about.
Applied(view, on, to) == [n \in Notes |-> IF n \in on /\ view[n] # "none" THEN to ELSE view[n]]

\* The badge at the click: one less if the row was unread, zero for all.
BadgeAfter(on, all, unread) ==
  IF all THEN 0 ELSE IF unread /\ badge > 0 THEN badge - 1 ELSE badge

Press(on, all, to) ==
  LET unread == \E n \in on : rows[n] = "unread"
  IN /\ Change
     /\ ops' = ops \cup {[id |-> changes', on |-> on, all |-> all, to |-> to, rows |-> rows,
                          badge |-> badge, unread |-> unread, st |-> "sent"]}
     /\ rows' = Applied(rows, on, to)
     /\ badge' = BadgeAfter(on, all, unread)
     /\ clean' = (clean /\ Still)
     /\ listing' = [listing EXCEPT !.alone = FALSE]
     /\ UNCHANGED <<notes, counting>>

MarkOne(n)   == rows[n] = "unread" /\ Press({n}, FALSE, "read")
DeleteOne(n) == rows[n] # "none" /\ Press({n}, FALSE, "none")
MarkAll      == rows # NoView /\ Press(Notes, TRUE, "read")
ClearAll     == rows # NoView /\ Press(Notes, TRUE, "none")

\* The backend applies it to what it has by then; the answer may be lost on the way.
OpServed(o) ==
  /\ o.st = "sent"
  /\ notes' = Applied(notes, o.on, o.to)
  /\ \/ /\ ops' = (ops \ {o}) \cup {[o EXCEPT !.st = "ok"]} /\ UNCHANGED <<clean, changes>>
     \/ /\ Change
        /\ ops' = (ops \ {o}) \cup {[o EXCEPT !.st = "failed"]} /\ clean' = FALSE
  /\ UNCHANGED <<rows, badge, listing, counting>>

OpRefused(o) ==
  /\ o.st = "sent" /\ Change
  /\ ops' = (ops \ {o}) \cup {[o EXCEPT !.st = "failed"]}
  /\ UNCHANGED <<notes, rows, badge, listing, counting, clean>>

OpDone(o) ==
  /\ o.st = "ok"
  /\ ops' = ops \ {o}
  /\ UNCHANGED <<notes, rows, badge, listing, counting, clean, changes>>

\* Mutant of PutBack: the rows stay as they are.
PutBackNothing(o) == rows

\* The list the operation started from.
PutBack(o) == o.rows

\* catch: the list is put back; the badge too, or raised by one for mark-as-read.
OpFailed(o) ==
  /\ o.st = "failed"
  /\ rows' = PutBack(o)
  /\ badge' = IF o.to = "read" /\ ~o.all
              THEN IF o.unread THEN badge + 1 ELSE badge
              ELSE o.badge
  /\ ops' = ops \ {o}
  /\ UNCHANGED <<notes, listing, counting, clean, changes>>

\* A notification arrives.
Arrives(n) ==
  /\ Change /\ notes[n] = "none"
  /\ \A o \in ops : o.rows[n] = "none"
  /\ notes' = [notes EXCEPT ![n] = "unread"]
  /\ clean' = FALSE /\ listing' = [listing EXCEPT !.alone = FALSE]
  /\ UNCHANGED <<rows, badge, counting, ops>>

PanelNext ==
  \/ Refresh \/ ListRead \/ ListShown \/ ListFails
  \/ PollCount \/ CountRead \/ CountShown
  \/ MarkAll \/ ClearAll
  \/ \E n \in Notes : MarkOne(n) \/ DeleteOne(n) \/ Arrives(n)
  \/ \E o \in ops : OpServed(o) \/ OpRefused(o) \/ OpDone(o) \/ OpFailed(o)

PanelSpec == PanelInit /\ [][PanelNext]_panelVars

----------------------------------------------------------------------------
(* Properties. *)

\* When operations, refreshes and arrivals have not overlapped since the list
\* was loaded, and no answer was lost, the list is the backend's once nothing
\* is under way: what failed has been put back, what succeeded has not.
ListIsBackends == clean /\ Still => rows = notes

\* And the badge counts the unread rows.
BadgeIsUnread == clean /\ Still => badge = Unread(rows)

\* Once nothing is under way the panel shows the backend's notifications, and its
\* badge their unread ones, if its operations did not overlap (NotificationPanel).
PanelShowsBackend == ListIsBackends /\ BadgeIsUnread

============================================================================
