------------------------------- MODULE Calls -------------------------------
(***************************************************************************)
(* What the front ends ask the backend for: the method and the path of     *)
(* every request a client makes, Param standing for the id it puts into the  *)
(* path, and the journey of such a request through the backend's routes.   *)
(* The base URL with its /api/v1 and the query are left out.               *)
(***************************************************************************)
EXTENDS Routing, Functions

Asks(method, paths) == {[method |-> method, path |-> p] : p \in paths}

----------------------------------------------------------------------------
(* The web client. *)

WebOfferCalls ==
  Asks("POST", {<<"message">>, <<"offers">>, <<"offers", Param, "publish">>, <<"offers", Param, "join">>})
  \cup Asks("GET", {<<"offers">>, <<"offers", Param>>})
  \cup Asks("DELETE", {<<"offers", Param>>})

WebContractorCalls ==
  Asks("GET", {<<"contractors">>, <<"contractors", Param>>, <<"contractors", "me", "membership">>})
  \cup Asks("POST", {<<"contractors", "me", "membership", "checkout-session">>})

WebOwnCalls ==
  Asks("GET", {<<"buildings", Param>>, <<"buildings", "me">>, <<"activity", "recent">>, <<"auth", "me">>})
  \cup Asks("POST", {<<"uploads", "avatar">>})
  \cup Asks("DELETE", {<<"auth", "me">>})

WebAccountCalls ==
  Asks("POST", {<<"auth", "login", "json">>, <<"uploads", "architecture">>, <<"auth", "signup">>,
                <<"auth", "verify-email", Param>>, <<"auth", "resend-verification-by-email">>,
                <<"auth", "resend-verification">>, <<"auth", "password", "reset">>,
                <<"auth", "password", "reset", "confirm">>, <<"auth", "password", "change">>})
  \cup Asks("GET", {<<"uploads", Param>>, <<"uploads", "">>})
  \cup Asks("PUT", {<<"auth", "me">>})

WebPaymentCalls ==
  Asks("GET", {<<"payments", "my">>, <<"payments", "contractor", "earnings">>, <<"payments", Param>>,
               <<"payments", "invoices", Param>>, <<"payments", "invoices", "my">>,
               <<"payments", "invoices", Param, "pdf">>})
  \cup Asks("POST", {<<"payments", "initiate">>, <<"payments", Param, "approve-work">>,
                     <<"escalations", "contractor", "request-review">>})

WebStaffCalls ==
  Asks("GET", {<<"buildings">>, <<"escalations">>, <<"contractors", "me", "doc-requests">>,
               <<"contractors", Param, "stats">>})
  \cup Asks("POST", {<<"contractors", Param, "reviews">>, <<"escalations", Param, "resolve">>,
                     <<"uploads", "contractor-docs">>})
  \cup Asks("PUT", {<<"contractors", Param>>})

WebBuildingCalls ==
  Asks("POST", {<<"buildings", "join">>, <<"buildings", "">>, <<"buildings", Param, "regenerate-invite">>,
                <<"enrichment", "normalize-address">>, <<"onboarding">>})

WebListCalls ==
  Asks("GET", {<<"contractors", Param, "reviews">>, <<"offers", Param, "participants">>,
               <<"notifications">>, <<"notifications", "unread-count">>})
  \cup Asks("POST", {<<"notifications", Param, "read">>, <<"notifications", "read-all">>})

WebStoreCalls ==
  Asks("GET", {<<"offers">>, <<"offers", Param>>})
  \cup Asks("POST", {<<"offers">>, <<"offers", Param, "join">>, <<"offers", Param, "leave">>})

WebSessionCalls ==
  Asks("POST", {<<"auth", "login", "json">>, <<"auth", "logout">>, <<"auth", "refresh">>,
                <<"auth", "register">>})
  \cup Asks("GET", {<<"auth", "me">>})

WebPanelCalls == Asks("DELETE", {<<"notifications", Param>>, <<"notifications", "">>})

WebChatCalls == Asks("GET", {<<"conversations", Param, "messages">>})

WebCalls ==
  WebOfferCalls \cup WebContractorCalls \cup WebOwnCalls \cup WebAccountCalls \cup WebPaymentCalls
  \cup WebStaffCalls \cup WebBuildingCalls \cup WebListCalls \cup WebStoreCalls \cup WebSessionCalls
  \cup WebPanelCalls \cup WebChatCalls

----------------------------------------------------------------------------
(* The shared package. *)

PackageOfferCalls ==
  Asks("POST", {<<"message">>, <<"offers", Param, "join">>})
  \cup Asks("GET", {<<"health">>, <<"offers">>, <<"contractors">>, <<"admin", "contractors">>,
                    <<"contractors", Param>>, <<"buildings", Param>>})

PackageAdminCalls ==
  Asks("GET", {<<"admin", "metrics">>, <<"escalations">>, <<"admin", "status">>, <<"admin", "analytics">>})
  \cup Asks("PUT", {<<"escalations", Param>>})
  \cup Asks("POST", {<<"escalations", Param, "assign">>, <<"escalations", Param, "resolve">>})

PackagePaymentCalls ==
  Asks("GET", {<<"payments", "my">>, <<"payments", "contractor", "earnings">>, <<"payments", Param>>,
               <<"payments", "invoices", Param>>, <<"admin", "payments", "summary">>,
               <<"admin", "payments", "escrow">>, <<"admin", "payments", "payouts">>})
  \cup Asks("POST", {<<"payments", "initiate">>, <<"admin", "payments", "payouts", Param, "approve">>,
                     <<"admin", "payments", "escrow", Param, "release">>, <<"payments", Param, "refund">>})

PackageDecisionCalls ==
  Asks("GET", {<<"admin", "agents", "pending-decisions">>, <<"admin", "credit-awards">>, <<"uploads", Param>>})
  \cup Asks("POST", {<<"auth", "push-token">>, <<"uploads", "architecture">>,
                     <<"admin", "agents", "pending-decisions", Param, "approve">>,
                     <<"admin", "agents", "pending-decisions", Param, "reject">>})
  \cup Asks("DELETE", {<<"auth", "push-token">>})

PackageCalls ==
  PackageOfferCalls \cup PackageAdminCalls \cup PackagePaymentCalls \cup PackageDecisionCalls

----------------------------------------------------------------------------
(* The admin's own requests. *)

AdminOfferCalls ==
  Asks("GET", {<<"admin", "offers">>})
  \cup Asks("POST", {<<"admin", "offers", Param, a>> : a \in {"approve", "cancel", "flag"}})

AdminExportCalls == Asks("GET", {<<"admin", "export", e>> : e \in {"offers", "participants"}})

AdminUserCalls ==
  Asks("GET", {<<"admin", "users">>}) \cup Asks("POST", {<<"admin", "users">>})
  \cup Asks("PUT", {<<"admin", "users", Param>>})

AdminContractorCalls ==
  Asks("POST", {<<"contractors", Param, "verify">>, <<"admin", "contractors", Param, "request-docs">>})
  \cup Asks("PUT", {<<"contractors", Param>>})

AdminVettingCalls ==
  Asks("GET", {<<"admin", "contractors", Param, "verification-metadata">>})
  \cup Asks("POST", {<<"admin", "contractors", Param, "refresh-verification">>})

AdminPaymentCalls ==
  Asks("GET", {<<"admin", "payments", p>> : p \in {"summary", "escrow", "payouts"}})
  \cup Asks("POST", {<<"admin", "payments", "escrow", Param, "release">>,
                     <<"admin", "payments", "payouts", Param, "approve">>})
  \cup Asks("PATCH", {<<"admin", "payments", Param, "status">>})

AdminHookCalls ==
  Asks("GET", {<<"admin", "agents", "pending-decisions">>, <<"admin", "agents", "autonomy">>})
  \cup Asks("POST", {<<"admin", "agents", "pending-decisions", Param, d>> : d \in {"approve", "reject"}})
  \cup Asks("PUT", {<<"admin", "settings">>})

AdminReportCalls == Asks("GET", {<<"admin", "analytics">>, <<"admin", "audit-logs">>})

AdminShellCalls ==
  Asks("GET", {<<"auth", "me">>, <<"admin", "vetting", "status">>})

AdminSettingCalls == Asks("GET", {<<"admin", "settings">>}) \cup Asks("PUT", {<<"admin", "settings">>})

AdminCalls ==
  AdminOfferCalls \cup AdminExportCalls \cup AdminUserCalls \cup AdminContractorCalls
  \cup AdminVettingCalls \cup AdminPaymentCalls \cup AdminHookCalls \cup AdminReportCalls
  \cup AdminShellCalls \cup AdminSettingCalls

----------------------------------------------------------------------------
(* The mobile client. *)

MobileOfferCalls ==
  Asks("GET", {<<"offers">>, <<"offers", Param>>, <<"contractors">>, <<"contractors", "matches">>,
               <<"auth", "me">>})
  \cup Asks("POST", {<<"offers">>, <<"offers", Param, "join">>})
  \cup Asks("PUT", {<<"auth", "me">>})

MobileMessageCalls == Asks("POST", {<<"auth", "me", "avatar">>, <<"message">>, <<"message", "stream">>})

MobileAccountCalls ==
  Asks("GET", {<<"activity">>})
  \cup Asks("POST", {<<"auth", "register">>, <<"auth", "resend-verification">>})

MobileOrderCalls ==
  Asks("GET", {<<"orders">>, <<"orders", Param>>, <<"buildings", Param>>, <<"payments">>,
               <<"buildings", Param, "news">>})
  \cup Asks("POST", {<<"checkout">>})

MobileContractorCalls ==
  Asks("GET", {<<"contractors", "me", s>> : s \in {"stats", "offers", "projects"}})
  \cup Asks("POST", {<<"auth", "password", "reset">>, <<"auth", "password", "reset", "confirm">>,
                     <<"address", "normalize">>, <<"auth", "onboarding">>})

MobileUploadCalls ==
  Asks("GET", {<<"uploads", Param>>, <<"contractors", Param>>, <<"contractors", Param, "reviews">>})
  \cup Asks("POST", {<<"uploads", "architecture">>, <<"contractors", "me", "documents">>})
  \cup Asks("PUT", {<<"contractors", Param>>})

MobileNotificationCalls ==
  Asks("GET", {<<"contractors", "me", "earnings">>, <<"notifications">>})
  \cup Asks("POST", {<<"buildings", "join">>, <<"notifications", Param, "read">>,
                     <<"notifications", "read-all">>, <<"payments", "initiate">>})
  \cup Asks("DELETE", {<<"notifications", Param>>})

MobilePushCalls == Asks("POST", {<<"users", "push-token">>})

MobileSignInCalls == Asks("POST", {<<"auth", "login", "json">>})

MobileCalls ==
  MobileOfferCalls \cup MobileMessageCalls \cup MobileAccountCalls \cup MobileOrderCalls
  \cup MobileContractorCalls \cup MobileUploadCalls \cup MobileNotificationCalls
  \cup MobilePushCalls \cup MobileSignInCalls

AllCalls == WebCalls \cup PackageCalls \cup AdminCalls \cup MobileCalls

----------------------------------------------------------------------------
(* A request on its way. *)

VARIABLES
  wanted,   \* the request: a client's, or a probe of a route at its own path
  sentTo,   \* the path it is sent to, which a redirect changes
  status,   \* "sent", "served", "404" or "405"
  served    \* the index of the route that serves it, or 0

callVars == <<wanted, sentTo, status, served>>

\* Every route is asked for under its own path.
Probes == {[method |-> r.method, path |-> r.path] : r \in Range(Routes)}

Requests == AllCalls \cup Probes

CallsTypeOK ==
  /\ wanted \in Requests
  /\ sentTo \in {wanted.path, Toggled(wanted.path)}
  /\ status \in {"sent", "served", "404", "405"}
  /\ served \in {0} \cup DOMAIN Routes

CallsInit ==
  /\ wanted \in Requests
  /\ sentTo = wanted.path
  /\ status = "sent" /\ served = 0

\* The first route that fits path and method.
Serve ==
  /\ status = "sent"
  /\ \E i \in Serving(wanted.method, sentTo) :
       /\ \A j \in Serving(wanted.method, sentTo) : i <= j
       /\ served' = i
  /\ status' = "served"
  /\ UNCHANGED <<wanted, sentTo>>

\* Routes fit the path, none the method.
RefuseMethod ==
  /\ status = "sent" /\ Serving(wanted.method, sentTo) = {} /\ OnPath(sentTo) # {}
  /\ status' = "405"
  /\ UNCHANGED <<wanted, sentTo, served>>

\* No route fits the path, one fits it with the slash added or taken away: the client
\* is sent there, with the same method and body.
Redirect ==
  /\ status = "sent" /\ OnPath(sentTo) = {} /\ OnPath(Toggled(sentTo)) # {}
  /\ sentTo' = Toggled(sentTo)
  /\ UNCHANGED <<wanted, status, served>>

NotFound ==
  /\ status = "sent" /\ OnPath(sentTo) = {} /\ OnPath(Toggled(sentTo)) = {}
  /\ status' = "404"
  /\ UNCHANGED <<wanted, sentTo, served>>

CallsNext == Serve \/ RefuseMethod \/ Redirect \/ NotFound

CallsSpec == CallsInit /\ [][CallsNext]_callVars

----------------------------------------------------------------------------
(* Properties. *)

\* The mobile client's requests, and one unused method of the package, for which the
\* backend has no route.
Homeless ==
  MobilePushCalls
  \cup Asks("POST", {<<"auth", "me", "avatar">>, <<"message", "stream">>, <<"checkout">>,
                     <<"address", "normalize">>, <<"auth", "onboarding">>,
                     <<"contractors", "me", "documents">>})
  \cup Asks("GET", {<<"activity">>, <<"orders">>, <<"orders", Param>>, <<"payments">>,
                    <<"buildings", Param, "news">>, <<"contractors", "me", "offers">>,
                    <<"contractors", "me", "projects">>, <<"contractors", "me", "earnings">>,
                    <<"admin", "contractors">>})

\* Those that a parameter of another route takes: "matches" and "me" for a contractor's
\* id, "methods" for a payment's.
Captured ==
  Asks("GET", {<<"contractors", "matches">>, <<"contractors", "me", "stats">>, <<"payments", "methods">>})

\* Whatever a front end asks for is served by the route written for it, its ids taken as
\* that route's parameters and no word of the path taken for an id, and each route can be
\* reached, whichever routes are registered before it; no request but the known ones is
\* refused (the routers' order and slashes, the clients' paths).
CallsArrive ==
  /\ status = "served" =>
       /\ Routes[served].path \in {wanted.path, Toggled(wanted.path)} <=> wanted \notin Captured
       /\ wanted \notin Homeless
  /\ status \in {"404", "405"} => wanted \in Homeless

============================================================================
