----------------------------- MODULE MobilePages -----------------------------
(* The screens of the mobile app, as records of PageRecords. Its queries pass *)
(* their signal on, so a screen that goes to another key drops its loads, and *)
(* nothing refetches by itself: lists are pulled down to be loaded again.     *)
EXTENDS Naturals, FiniteSets, PageRecords

MobileQuery(name, statuses, acts)  == [List(name, statuses, acts) EXCEPT !.drops = TRUE]
MobileEffect(name, statuses, acts) == [List(name, statuses, acts) EXCEPT !.load = "effect"]
Pulled(p)  == [p EXCEPT !.reload = TRUE]
Switched(p) == [p EXCEPT !.keys = {"all", "filtered"}]

----------------------------------------------------------------------------
(* Offers: joining invalidates the lists and the offer whether or not it      *)
(* succeeded. The list's cards do not wait for a join under way.              *)

JoinFromCard   == [Beside("join", {"active"}) EXCEPT !.bad = "invalidate"]
JoinFromDetail == Guarded(JoinFromCard)

OffersTab   == Pulled(Switched(MobileQuery("mobile/offers", {"active", "closed"}, {JoinFromCard})))
OfferScreen == MobileQuery("mobile/offer", {"active", "closed"}, {JoinFromDetail})

----------------------------------------------------------------------------
(* The lists that are only read. *)

\* The home tab loads its offers, activity and news, or its stats, offers and projects, together.
HomeTab       == Pulled(MobileQuery("mobile/home", {"some"}, {}))
OrdersTab     == Pulled(MobileQuery("mobile/orders", {"held", "released"}, {}))
OrderScreen   == MobileQuery("mobile/order", {"held", "released"}, {})
PaymentsScreen == Pulled(MobileQuery("mobile/payments", {"pending", "completed"}, {}))
BuildingScreen == MobileQuery("mobile/building", {"some"}, {})
ContractorOffersScreen   == Pulled(Switched(MobileQuery("mobile/contractor-offers", {"active", "full"}, {})))
ContractorProjectsScreen == Pulled(Switched(MobileQuery("mobile/contractor-projects", {"active", "full"}, {})))

\* Two screens without a query: their cancelled flag guards the spinner, not the rows.
ContractorsScreen == Pulled(MobileEffect("mobile/contractors", {"listed"}, {}))
EarningsScreen    == Pulled(MobileEffect("mobile/earnings", {"some"}, {}))

\* A contractor's profile: the cancelled flag drops the answer for an earlier id.
ContractorScreen ==
  [Switched(MobileEffect("mobile/contractor", {"listed"}, {})) EXCEPT !.drops = TRUE]

MobileApp == {OffersTab, OfferScreen, HomeTab, OrdersTab, OrderScreen, PaymentsScreen, BuildingScreen,
              ContractorOffersScreen, ContractorProjectsScreen, ContractorsScreen, EarningsScreen,
              ContractorScreen}

============================================================================
