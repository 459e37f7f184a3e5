---------------------------- MODULE PageRecords ----------------------------
(***************************************************************************)
(* How the front ends' pages are described to Pages: a page is a record    *)
(* that says how its list is loaded and which controls act on its rows.    *)
(*                                                                         *)
(* page.load    "query": react-query, one cached answer per key;           *)
(*              "effect": useState filled by whatever load ends last        *)
(* page.keys    the filters, tabs or pages the user can switch between     *)
(* page.drops   choosing another key forgets the loads under way           *)
(* page.merges  the client shares one promise among identical GETs         *)
(* page.oneGet  the GET is the same for every key                          *)
(* page.poll    "interval", "focus" or "never": what reloads it unasked    *)
(* page.reload  it has a reload button                                     *)
(* page.skips   an answer without rows is not shown                        *)
(* page.failed  what failed loads may leave: the rows ("keep"), an empty   *)
(*              list ("empty"), or nothing ("gone")                        *)
(*                                                                         *)
(* act.on       "row", "modal" (a copy taken when it opened), "many" (a    *)
(*              selection) or "new" (a form that creates a row)            *)
(* act.to       for each status it is offered for, the status it sets      *)
(* act.sets     the busy flag it raises;  act.reads: those that disable it *)
(* act.once     flags that stay up after a success                         *)
(* act.writes   the backend sets the status, not only something beside it  *)
(* act.closes   closes the modal when it is over: "no", "done" (if all     *)
(*              went well) or "always"                                     *)
(* act.ok/.bad  what follows the answer: "invalidate" or "reload" the      *)
(*              list, "patch" the row in it, "patchReload", "leave" the    *)
(*              page, or "nothing"                                         *)
(* act.awaits   the flag is held until the reload has ended                *)
(***************************************************************************)

Absent == "absent"     \* the status of a row that does not exist

List(name, statuses, acts) ==
  [name |-> name, load |-> "query", keys |-> {"all"}, drops |-> FALSE, merges |-> FALSE, oneGet |-> FALSE,
   poll |-> "never", reload |-> FALSE, skips |-> FALSE, failed |-> {"keep"}, statuses |-> statuses, acts |-> acts]

Act(name, when, to) ==
  [name |-> name, on |-> "row", to |-> [s \in when |-> to], sets |-> name, reads |-> {}, once |-> {},
   writes |-> TRUE, ok |-> "invalidate", bad |-> "nothing", awaits |-> FALSE, closes |-> "no"]

\* A control that leaves the row's status as it is.
Beside(name, when) ==
  [Act(name, when, Absent) EXCEPT !.to = [s \in when |-> s], !.writes = FALSE]

\* A form that creates a row.
Create(name, to) == [Act(name, {Absent}, to) EXCEPT !.on = "new"]

\* A control that is disabled while its own flag is up.
Guarded(a) == [a EXCEPT !.reads = {a.sets}]

\* The same control under a flag it shares with others.
Sharing(flag, a) == [a EXCEPT !.sets = flag, !.reads = {flag}]

============================================================================
