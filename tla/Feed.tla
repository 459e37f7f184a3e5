-------------------------------- MODULE Feed --------------------------------
(***************************************************************************)
(* The mobile app's notifications screen: a list loaded page by page from  *)
(* an offset, pulled down to start over, with rows deleted and marked as   *)
(* read in between; and the toasts of the web app's notification store,    *)
(* each with its timer.                                                    *)
(***************************************************************************)
EXTENDS Naturals, Sequences, FiniteSets, SequencesExt

CONSTANTS
  PageSize,    \* PAGE_SIZE
  Longest,     \* bound on the notifications there are
  MaxPulls,    \* half the bound on refreshes, deletions and marks
  MaxToasts,   \* the most the store keeps (50)
  ToastBound   \* bound on the toasts shown

ASSUME FeedConstants ==
  /\ PageSize \in Nat \ {0} /\ Longest \in Nat /\ MaxPulls \in Nat
  /\ MaxToasts \in Nat \ {0} /\ ToastBound \in Nat

VARIABLES
  feed,      \* backend: the notifications, newest first
  items,     \* the rows on the screen
  offset,    \* offsetRef
  total,     \* the number the last load gave, less the deletions since
  fetches,   \* the loads under way: a refresh, a next page
  deleting,  \* the deletions under way
  shifted,   \* history: since the last refresh that stood alone, a load has overlapped
             \* another, or the notifications have changed
  born,      \* the newest notification's number
  pulls,     \* refreshes, deletions and marks so far
  readIds,   \* backend: the notifications marked as read
  readRows,  \* the rows with isRead
  flags,     \* isRead of the rows that the last first page, and the last further one, brought
  marks,     \* the marks under way: of a row, or of all of them (0)
  joined,    \* history: a notification has come between a mark of all and its answer
  toasts,    \* the toasts shown, newest first
  ticking,   \* the toasts whose timer runs
  toasted    \* toasts so far

feedVars == <<feed, items, offset, total, fetches, deleting, shifted, born, pulls,
              readIds, readRows, flags, marks, joined, toasts, ticking, toasted>>

Ids == 1 .. Longest
NoRows == <<>>

ReadTypeOK ==
  /\ readIds \subseteq Ids /\ readRows \subseteq Ids
  /\ flags \in [BOOLEAN -> SUBSET Ids]
  /\ marks \subseteq [of : 0 .. Longest, st : {"sent", "ok"}]
  /\ joined \in BOOLEAN

FeedTypeOK ==
  /\ ReadTypeOK
  /\ feed \in Seq(Ids) /\ items \in Seq(Ids)
  /\ offset \in 0 .. Longest /\ total \in 0 .. Longest
  /\ fetches \subseteq [reset : BOOLEAN, at : 0 .. Longest, st : {"sent", "read"}, rows : Seq(Ids), of : 0 .. Longest]
  /\ deleting \subseteq [id : Ids, st : {"sent", "ok"}]
  /\ shifted \in BOOLEAN /\ born \in 0 .. Longest
  /\ pulls \in 0 .. (2 * MaxPulls)
  /\ toasts \in Seq(1 .. ToastBound) /\ Len(toasts) <= MaxToasts
  /\ ticking \subseteq 1 .. ToastBound /\ toasted \in 0 .. ToastBound

First == [reset |-> TRUE, at |-> 0, st |-> "sent", rows |-> NoRows, of |-> 0]

FeedInit ==
  /\ born \in 0 .. Longest - 1 /\ feed = [i \in 1 .. born |-> born + 1 - i]
  /\ items = <<>> /\ offset = 0 /\ total = 0
  /\ fetches = {First} /\ deleting = {}
  /\ shifted = FALSE /\ pulls = 0
  /\ readIds \in SUBSET (1 .. born) /\ readRows = {} /\ flags = [b \in BOOLEAN |-> {}]
  /\ marks = {} /\ joined = FALSE
  /\ toasts = <<>> /\ ticking = {} /\ toasted = 0

----------------------------------------------------------------------------
(* The list. *)

toastVars == <<toasts, ticking, toasted>>
readVars  == <<readIds, readRows, flags, marks, joined>>

\* onRefresh: from the top.
Pull ==
  /\ pulls < 2 * MaxPulls /\ \A l \in fetches : ~l.reset
  /\ pulls' = pulls + 1
  /\ fetches' = fetches \cup {First}
  /\ shifted' = (shifted \/ fetches # {} \/ deleting # {})
  /\ UNCHANGED <<feed, items, offset, total, deleting, born>> /\ UNCHANGED <<readVars, toastVars>>

\* onEndReached: the next page, one at a time, while there is more.
MorePages ==
  /\ \A l \in fetches : l.reset
  /\ items # <<>> /\ Len(items) < total
  /\ fetches' = fetches \cup {[First EXCEPT !.reset = FALSE, !.at = offset]}
  /\ shifted' = (shifted \/ fetches # {} \/ deleting # {})
  /\ UNCHANGED <<feed, items, offset, total, deleting, born, pulls>> /\ UNCHANGED <<readVars, toastVars>>

Smaller(a, b) == IF a < b THEN a ELSE b

PageRead(l) ==
  /\ l.st = "sent"
  /\ fetches' = (fetches \ {l}) \cup
       {[l EXCEPT !.st = "read", !.of = Len(feed), !.rows =
          SubSeq(feed, l.at + 1, Smaller(l.at + PageSize, Len(feed)))]}
  /\ flags' = [flags EXCEPT ![l.reset] = readIds]
  /\ UNCHANGED <<feed, items, offset, total, deleting, shifted, born, pulls>>
  /\ UNCHANGED <<readIds, readRows, marks, joined>> /\ UNCHANGED toastVars

\* Mutant of Advanced: the next offset is counted from the last one.
AdvancedFromLast(l) == offset + Len(l.rows)

\* The offset after a page: what has been asked for, and what came.
Advanced(l) == IF l.reset THEN Len(l.rows) ELSE l.at + Len(l.rows)

PageShown(l) ==
  /\ l.st = "read"
  /\ items' = IF l.reset THEN l.rows ELSE items \o l.rows
  /\ offset' = Advanced(l)
  /\ total' = l.of
  /\ fetches' = fetches \ {l}
  /\ shifted' = (shifted /\ ~(l.reset /\ fetches = {l} /\ deleting = {} /\ IsPrefix(l.rows, feed)))
  /\ readRows' = (flags[l.reset] \cap ToSet(l.rows)) \cup (IF l.reset THEN {} ELSE readRows)
  /\ UNCHANGED <<feed, deleting, born, pulls>>
  /\ UNCHANGED <<readIds, flags, marks, joined>> /\ UNCHANGED toastVars

PageFails(l) ==
  /\ fetches' = fetches \ {l}
  /\ UNCHANGED <<feed, items, offset, total, deleting, shifted, born, pulls>> /\ UNCHANGED <<readVars, toastVars>>

\* handleDelete: only the row pressed last is disabled.
Delete(n) ==
  /\ pulls < 2 * MaxPulls /\ pulls' = pulls + 1
  /\ n \in ToSet(items) /\ \A d \in deleting : d.id # n
  /\ deleting' = deleting \cup {[id |-> n, st |-> "sent"]}
  /\ shifted' = TRUE
  /\ UNCHANGED <<feed, items, offset, total, fetches, born>> /\ UNCHANGED <<readVars, toastVars>>

DeleteServed(d) ==
  /\ d.st = "sent"
  /\ feed' = RemoveFirst(feed, d.id)   \* it is there once at most
  /\ deleting' = (deleting \ {d}) \cup {[d EXCEPT !.st = "ok"]}
  /\ UNCHANGED <<items, offset, total, fetches, shifted, born, pulls>> /\ UNCHANGED <<readVars, toastVars>>

\* The rows but n, in their order: prev.filter(r => r.id !== n).
Without(s, n) ==
  LET kept[i \in 0 .. Len(s)] ==
        IF i = 0 THEN NoRows
        ELSE IF s[i] = n THEN kept[i - 1] ELSE Append(kept[i - 1], s[i])
  IN  kept[Len(s)]

\* The row goes and the total with it; the offset stays, so the next page skips a row.
DeleteDone(d) ==
  /\ d.st = "ok"
  /\ deleting' = deleting \ {d}
  /\ items' = Without(items, d.id)
  /\ total' = IF total > 0 THEN total - 1 ELSE 0
  /\ UNCHANGED <<feed, offset, fetches, shifted, born, pulls>> /\ UNCHANGED <<readVars, toastVars>>

\* The row stays, and the error is shown.
DeleteFails(d) ==
  /\ deleting' = deleting \ {d}
  /\ UNCHANGED <<feed, items, offset, total, fetches, shifted, born, pulls>> /\ UNCHANGED <<readVars, toastVars>>

\* External: a notification is written for the user while the screen is open.
Arrival ==
  /\ born < Longest /\ born' = born + 1 /\ feed' = <<born'>> \o feed
  /\ shifted' = TRUE
  /\ joined' = (joined \/ [of |-> 0, st |-> "ok"] \in marks)
  /\ UNCHANGED <<items, offset, total, fetches, deleting, pulls>>
  /\ UNCHANGED <<readIds, readRows, flags, marks>> /\ UNCHANGED toastVars

----------------------------------------------------------------------------
(* Marking rows as read. *)

rowVars == <<feed, items, offset, total, fetches, deleting, shifted, born>>

\* Mutant of Mark: the row turns read before the answer, and stays so when it fails.
MarkAtOnce(n) ==
  /\ pulls < 2 * MaxPulls /\ pulls' = pulls + 1
  /\ n \in ToSet(items) \ readRows
  /\ marks' = marks \cup {[of |-> n, st |-> "sent"]} /\ readRows' = readRows \cup {n}
  /\ UNCHANGED <<readIds, flags, joined>> /\ UNCHANGED <<rowVars, toastVars>>

\* handleMarkRead, of a row that is not read; handleMarkAll (0), while there is such a row.
Mark(n) ==
  /\ pulls < 2 * MaxPulls /\ pulls' = pulls + 1
  /\ n \in ToSet(items) \ readRows \/ (n = 0 /\ ~(ToSet(items) \subseteq readRows))
  /\ marks' = marks \cup {[of |-> n, st |-> "sent"]}
  /\ UNCHANGED <<readIds, readRows, flags, joined>> /\ UNCHANGED <<rowVars, toastVars>>

\* Of a row that is gone it fails.
MarkServed(m) ==
  /\ m.st = "sent" /\ m.of \in ToSet(feed) \cup {0}
  /\ readIds' = readIds \cup (IF m.of = 0 THEN ToSet(feed) ELSE {m.of})
  /\ marks' = (marks \ {m}) \cup {[m EXCEPT !.st = "ok"]}
  /\ UNCHANGED <<readRows, flags, joined, pulls>> /\ UNCHANGED <<rowVars, toastVars>>

\* The row, or every row that is on the screen by now, turns read.
MarkDone(m) ==
  /\ m.st = "ok" /\ marks' = marks \ {m}
  /\ readRows' = readRows \cup {n \in ToSet(items) : m.of \in {0, n}}
  /\ UNCHANGED <<readIds, flags, joined, pulls>> /\ UNCHANGED <<rowVars, toastVars>>

MarkFails(m) ==
  /\ marks' = marks \ {m}
  /\ UNCHANGED <<readIds, readRows, flags, joined, pulls>> /\ UNCHANGED <<rowVars, toastVars>>

----------------------------------------------------------------------------
(* Toasts. *)

listVars == <<feed, items, offset, total, fetches, deleting, shifted, born, pulls, readVars>>

Kept(s) == SubSeq(s, 1, Smaller(Len(s), MaxToasts))

\* addNotification: in front, the oldest beyond the limit dropped, a timer set.
AddToast ==
  /\ toasted < ToastBound /\ toasted' = toasted + 1
  /\ toasts' = Kept(<<toasted'>> \o toasts)
  /\ ticking' = ticking \cup {toasted'}
  /\ UNCHANGED listVars

\* Each toast has a number of its own.
Removed(n) == RemoveFirst(toasts, n)

\* The user dismisses a toast, and its timer runs on.
Dismiss(n) ==
  /\ n \in ToSet(toasts) /\ toasts' = Removed(n)
  /\ UNCHANGED <<ticking, toasted>> /\ UNCHANGED listVars

ToastExpires(n) ==
  /\ n \in ticking /\ ticking' = ticking \ {n}
  /\ toasts' = IF n \in ToSet(toasts) THEN Removed(n) ELSE toasts
  /\ UNCHANGED toasted /\ UNCHANGED listVars

ClearToasts ==
  /\ toasts # <<>> /\ toasts' = <<>>
  /\ UNCHANGED <<ticking, toasted>> /\ UNCHANGED listVars

ListNext ==
  \/ Pull \/ MorePages \/ Arrival
  \/ \E l \in fetches : PageRead(l) \/ PageShown(l) \/ PageFails(l)
  \/ \E n \in Ids : Delete(n)
  \/ \E d \in deleting : DeleteServed(d) \/ DeleteDone(d) \/ DeleteFails(d)
  \/ \E n \in Ids \cup {0} : Mark(n)
  \/ \E m \in marks : MarkServed(m) \/ MarkDone(m) \/ MarkFails(m)

ToastNext ==
  \/ AddToast \/ ClearToasts
  \/ \E n \in 1 .. ToastBound : Dismiss(n) \/ ToastExpires(n)

FeedNext == ListNext \/ ToastNext

FeedSpec == FeedInit /\ [][FeedNext]_feedVars

----------------------------------------------------------------------------
(* Properties. *)

\* Unless a load overlaps another one or the notifications change, the rows are
\* the newest ones, each once and none left out, however many pages have been loaded.
RowsAreNewest == ~shifted => IsPrefix(items, feed)

\* A row that is shown as read is read at the backend, however marks overlap loads,
\* deletions and failures, unless a notification came while a mark of all was on its way back.
ReadRowsAreRead == ~joined => readRows \cap ToSet(feed) \subseteq readIds

\* A toast on the screen has a timer that will take it down, whatever was
\* dismissed, cleared or pushed out before.
ToastsGo == ToSet(toasts) \subseteq ticking

\* The notifications screen shows the newest rows it has pulled, as read only what is read,
\* and no toast outlives its time or takes another's (load, handleMarkAll, ToastContainer).
FeedInOrder == RowsAreNewest /\ ReadRowsAreRead /\ ToastsGo

============================================================================
