----------------------------- MODULE AdminPages -----------------------------
(* The pages of the admin app, as records of PageRecords. Its React Query     *)
(* client refetches stale queries when the window gets the focus.             *)
EXTENDS Naturals, FiniteSets, PageRecords

AdminQuery(name, statuses, acts) == [List(name, statuses, acts) EXCEPT !.poll = "focus"]
Polled(p) == [p EXCEPT !.poll = "interval"]
Merging(p) == [p EXCEPT !.merges = TRUE]
Filtered(p) == [p EXCEPT !.keys = {"all", "filtered"}]
Awaited(a) == [a EXCEPT !.awaits = TRUE]
InModal(a) == [Guarded(a) EXCEPT !.on = "modal"]

----------------------------------------------------------------------------
(* Contractors. *)

ContractorStatuses == {"pending", "verified", "suspended"}

\* The buttons of the detail modal, which go by the copy taken when it opened; those
\* that change the status close it after the reload.
ContractorModalActs ==
  LET modal(a) == [Awaited(Sharing("actionLoading", a)) EXCEPT !.on = "modal"]
      closing(a) == [modal(a) EXCEPT !.closes = "done"]
  IN {closing(Act("approve", {"pending", "suspended"}, "verified")),
      closing(Act("suspend", {"verified"}, "suspended")),
      modal(Beside("requestDocuments", ContractorStatuses))}

\* The bar above the table: approve and suspend raise the flag without reading
\* it, and what fails for one of the selected is dropped (allSettled).
ContractorBulkActs ==
  LET bulk(a, reads) ==
        [Awaited(a) EXCEPT
           !.on = "many", !.sets = "actionLoading", !.reads = reads, !.bad = "invalidate"]
  IN {bulk(Act("bulkApprove", ContractorStatuses, "verified"), {}),
      bulk(Act("bulkSuspend", ContractorStatuses, "suspended"), {}),
      bulk(Beside("bulkRequestDocs", ContractorStatuses), {"actionLoading"})}

ContractorsPage ==
  [Merging(AdminQuery("contractors", ContractorStatuses, ContractorModalActs \cup ContractorBulkActs))
     EXCEPT !.reload = TRUE]

\* The registry record of one contractor; an HTTP error with a body counts as done.
ProvenanceSection ==
  AdminQuery("contractors/provenance", {"unknown", "active", "inactive"},
    {[Awaited(Sharing("refreshing", Act("refresh", {"unknown", "active", "inactive"}, "active")))
        EXCEPT !.bad = "invalidate"]})

----------------------------------------------------------------------------
(* Users. *)

\* The status button sends the opposite of the status that is on the screen.
ToggleStatus ==
  [Sharing("update", Act("toggleStatus", {"active"}, "suspended")) EXCEPT
     !.to = [s \in {"active", "suspended"} |-> IF s = "active" THEN "suspended" ELSE "active"]]

\* The role menu is not disabled while an update is under way.
ChangeRole == [Beside("changeRole", {"active", "suspended"}) EXCEPT !.sets = "update"]

CreateAdmin == Guarded(Create("create", "active"))

UsersPage == Polled(AdminQuery("users", {"active", "suspended"}, {ToggleStatus, ChangeRole, CreateAdmin}))

----------------------------------------------------------------------------
(* Offers: isMutating is whether any of the three mutations is under way, and *)
(* each of them lasts until its reload has ended.                             *)

OfferActs ==
  LET act(name, when, to) == Awaited(Sharing("isMutating", Act(name, when, to)))
  IN {act("approve", {"flagged"}, "active"),
      act("cancel", {"active", "flagged"}, "cancelled"),
      act("flag", {"active", "cancelled", "completed"}, "flagged")}

OffersPage == Polled(AdminQuery("offers", {"active", "flagged", "cancelled", "completed"}, OfferActs))

----------------------------------------------------------------------------
(* Payments: no query cache, a load fills the tables, a failed request is null. *)

EscrowStatuses == {"collecting", "held", "released", "disputed"}
Overrides      == {"pending", "completed", "failed", "refunded", "on_hold"}
PayoutStatuses == {"approved", "processing"} \cup Overrides

\* The buttons of the two tables.
Releasable == {"held"}
Approvable == {"pending"}

\* AdminActionModal: confirm is disabled while its handler runs, closing is not, and
\* whatever fetchApi answered the modal closes, also one opened for another row since.
PaymentModal(a) == InModal([a EXCEPT !.ok = "patch", !.closes = "always"])

\* The row is set to its new status whatever the answer; a failure also reloads.
ReleaseEscrow  == [PaymentModal(Act("release", Releasable, "released")) EXCEPT !.bad = "patchReload"]
ApprovePayout  == [PaymentModal(Act("approve", Approvable, "approved")) EXCEPT !.bad = "patchReload"]
OverrideStatus ==
  {[PaymentModal(Act("override", PayoutStatuses, to)) EXCEPT !.bad = "reload"] : to \in Overrides}

\* loadData: nothing cancels an earlier load, the first that ends enables the button
\* again, and an empty answer is not shown.
PaymentTable(name, statuses, acts) ==
  [List(name, statuses, acts) EXCEPT !.load = "effect", !.reload = TRUE, !.skips = TRUE]

EscrowTable  == PaymentTable("payments/escrow", EscrowStatuses, {ReleaseEscrow})
PayoutsTable == PaymentTable("payments/payouts", PayoutStatuses, {ApprovePayout} \cup OverrideStatus)

----------------------------------------------------------------------------
(* Escalations: none of the buttons is ever disabled. *)

EscalationStatuses == {"pending", "in_progress", "resolved"}
Unresolved == {"pending", "in_progress"}     \* where the table shows the buttons

ResolveEscalation == Act("resolve", Unresolved, "resolved")
Reassign          == Act("reassign", Unresolved, "in_progress")

\* The filters are in the query's key and not in its GET.
EscalationsPage ==
  [Filtered(Merging(Polled(AdminQuery("escalations", EscalationStatuses, {ResolveEscalation, Reassign}))))
     EXCEPT !.oneGet = TRUE]

\* The next priority is that of the copy on the screen.
Escalate ==
  [Act("escalate", {"normal"}, "high") EXCEPT
     !.to = [s \in {"low", "normal", "high"} |->
              CASE s = "low" -> "normal" [] s = "normal" -> "high" [] OTHER -> "urgent"]]

EscalationPriorities ==
  Merging(Polled(AdminQuery("escalations/priority", {"low", "normal", "high", "urgent"}, {Escalate})))

----------------------------------------------------------------------------
(* Agents, buildings, settings and the lists that are only read. *)

\* A refused load of the queue is an empty queue; one that gets no answer keeps the rows.
DecisionActs ==
  LET act(name, to) == Sharing("acting", Act(name, {"pending"}, to))
  IN {act("approve", "approved"), act("reject", "rejected")}

DecisionQueue ==
  [Polled(AdminQuery("agents/decisions", {"pending", "approved", "rejected"}, DecisionActs))
     EXCEPT !.failed = {"keep", "empty"}]

\* The card's reload button invalidates the status of the agents.
AgentCards == Merging(Polled(AdminQuery("agents/status", {"active", "degraded"},
                {Act("reload", {"active", "degraded"}, "active")})))

RotateInvite   == Guarded(Act("rotate", {"code1", "code2"}, "code2"))
CreateBuilding == Guarded(Create("create", "code1"))
BuildingsPage  == AdminQuery("buildings", {"code1", "code2"}, {RotateInvite, CreateBuilding})

AuditLogs == Filtered(AdminQuery("settings/audit-logs", {"logged"}, {}))

\* The dashboard's and the analytics page's figures; a failed load reads as zero.
DashboardFigures == [Polled(AdminQuery("dashboard", {"some"}, {})) EXCEPT !.failed = {"empty"}]
SystemStatus     == Merging(Polled(AdminQuery("dashboard/status", {"some"}, {})))

AdminApp == {ContractorsPage, ProvenanceSection, UsersPage, OffersPage, EscrowTable, PayoutsTable,
             EscalationsPage, EscalationPriorities, DecisionQueue, AgentCards, BuildingsPage,
             AuditLogs, DashboardFigures, SystemStatus}

============================================================================
