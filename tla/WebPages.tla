------------------------------ MODULE WebPages ------------------------------
(* The pages of the web app, as records of PageRecords. They load through    *)
(* one client that merges identical GETs, and do not refetch on focus.       *)
EXTENDS Naturals, FiniteSets, PageRecords

WebQuery(name, statuses, acts) == [List(name, statuses, acts) EXCEPT !.merges = TRUE]

\* A useState page whose effect loads again for every filter and cancels nothing.
WebEffect(name, statuses, acts) == [WebQuery(name, statuses, acts) EXCEPT !.load = "effect"]

Keyed(p)       == [p EXCEPT !.keys = {"all", "filtered"}]
Every30s(p)    == [p EXCEPT !.poll = "interval"]
Reloadable(p)  == [p EXCEPT !.reload = TRUE]

----------------------------------------------------------------------------
(* Residents. *)

\* The list: keyed by category and status, 404 of the building is an empty list.
OffersList == Keyed(WebQuery("offers", {"active", "full"}, {}))

\* An offer as one resident sees it: open to them, joined, or closed.
JoinOffer ==
  [Sharing("join", Beside("join", {"active"})) EXCEPT
     !.once = {"joined"}, !.reads = {"join", "joined"}]

OfferPage == Every30s(WebQuery("offers/offer", {"active", "closed"}, {JoinOffer}))

\* useApiData with one key; the tabs filter what was loaded.
OrdersPage   == Reloadable(WebQuery("orders", {"held", "released"}, {}))
PaymentsPage == Reloadable(WebQuery("payments", {"pending", "succeeded", "refunded"}, {}))

\* Work can be approved while the money is held.
ApproveWork == Guarded(Act("approveWork", {"held"}, "released"))
OrderPage   == WebQuery("orders/order", {"held", "released", "refunded"}, {ApproveWork})

BuildingPage     == WebQuery("building", {"some"}, {})
ResidentHome     == WebQuery("dashboard", {"some"}, {})
ContractorsList  == Keyed(WebQuery("contractors", {"listed"}, {}))

----------------------------------------------------------------------------
(* Contractors. *)

\* The buttons are disabled while either request runs; cancelling leaves the page.
PublishOffer == [Sharing("actionLoading", Act("publish", {"draft"}, "pending")) EXCEPT !.ok = "patch"]
CancelOffer  ==
  [Sharing("actionLoading", Act("cancel", {"draft", "pending"}, "cancelled")) EXCEPT !.ok = "leave"]

ProjectPage ==
  [WebEffect("contractor/project", {"draft", "pending", "cancelled"}, {PublishOffer, CancelOffer})
     EXCEPT !.failed = {"gone"}]

\* reviewingOfferId is the offer pressed last: another offer's press enables the first again.
RequestReview == [Beside("requestReview", {"completed"}) EXCEPT !.ok = "nothing"]

ProjectsList   == Keyed(WebEffect("contractor/projects", {"active", "completed"}, {RequestReview}))
ActiveOffers   == Keyed(WebEffect("contractor/offers/active", {"active", "full"}, {}))
ContractorHome == WebEffect("contractor/dashboard", {"some"}, {})
EarningsPage   == WebEffect("contractor/earnings", {"some"}, {})

----------------------------------------------------------------------------
(* Buildings managers. *)

\* Disabled only while the row pressed last is being resolved.
ResolveAsManager == Act("resolve", {"open"}, "resolved")
ManagerEscalations ==
  Keyed(WebQuery("buildings-manager/escalations", {"open", "resolved"}, {ResolveAsManager}))

RotateCode      == Guarded(Act("rotate", {"code1", "code2"}, "code2"))
CreateAsManager == Guarded(Create("create", "code1"))
ManagerBuildings ==
  WebQuery("buildings-manager/buildings", {"code1", "code2"}, {RotateCode, CreateAsManager})
ManagerHome == WebQuery("buildings-manager/dashboard", {"some"}, {})

WebApp == {OffersList, OfferPage, OrdersPage, PaymentsPage, OrderPage, BuildingPage, ResidentHome,
           ContractorsList, ProjectPage, ProjectsList, ActiveOffers, ContractorHome, EarningsPage,
           ManagerEscalations, ManagerBuildings, ManagerHome}

============================================================================
