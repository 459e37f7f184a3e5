------------------------------ MODULE Routing ------------------------------
(***************************************************************************)
(* The backend's HTTP routes in the order in which they are registered,    *)
(* and how a request finds its handler among them: the first route that    *)
(* fits path and method serves it.                                         *)
(*                                                                         *)
(* A path is the sequence of its segments; a trailing slash is a last      *)
(* segment that is empty. In a route Param is a path parameter, in a         *)
(* request it is an id, a value that is no route's literal segment.        *)
(***************************************************************************)
EXTENDS Naturals, Sequences

Param == "*"

Endpoint(method, path, handler) == [method |-> method, path |-> path, handler |-> handler]

Get(path, handler)    == Endpoint("GET", path, handler)
Post(path, handler)   == Endpoint("POST", path, handler)
PutTo(path, handler)  == Endpoint("PUT", path, handler)
Patch(path, handler)  == Endpoint("PATCH", path, handler)
Del(path, handler)    == Endpoint("DELETE", path, handler)

\* include_router: a router's routes behind its prefix.
Under(prefix, routes) ==
  [i \in DOMAIN routes |-> [routes[i] EXCEPT !.path = prefix \o @]]

----------------------------------------------------------------------------
(* The routers. *)

AuthRoutes == Under(<<"auth">>, <<
  Post(<<"signup">>, "signup"), Post(<<"register">>, "register"), Post(<<"login">>, "login"),
  Post(<<"login", "json">>, "login_json"), Post(<<"refresh">>, "refresh_token"),
  Post(<<"logout">>, "logout"), Get(<<"me">>, "get_current_user_info"),
  PutTo(<<"me">>, "update_current_user"), Post(<<"password", "change">>, "change_password"),
  Post(<<"password", "reset">>, "request_password_reset"),
  Post(<<"password", "reset", "confirm">>, "confirm_password_reset"),
  Post(<<"verify-email", Param>>, "verify_email"),
  Post(<<"resend-verification-by-email">>, "resend_verification_by_email"),
  Post(<<"resend-verification">>, "resend_verification"), Del(<<"me">>, "delete_account"),
  Post(<<"push-token">>, "register_push_token"), Del(<<"push-token">>, "unregister_push_token")>>)

EnrichmentRoutes == Under(<<"enrichment">>, <<
  Post(<<"normalize-address">>, "normalize_address")>>)

OfferRoutes == Under(<<"offers">>, <<
  Post(<<"">>, "create_offer"), Get(<<"">>, "list_offers"), Get(<<Param>>, "get_offer"),
  PutTo(<<Param>>, "update_offer"), Del(<<Param>>, "delete_offer"), Post(<<Param, "join">>, "join_offer"),
  Post(<<Param, "leave">>, "leave_offer"), Post(<<Param, "publish">>, "publish_offer"),
  Post(<<Param, "start-matching">>, "start_matching"), Post(<<Param, "match">>, "match_contractor"),
  Get(<<Param, "participants">>, "get_participants"),
  Post(<<Param, "resolve-undersubscription">>, "resolve_undersubscription")>>)

ContractorRoutes == Under(<<"contractors">>, <<
  Post(<<"">>, "create_contractor"), Get(<<"">>, "list_contractors"),
  Post(<<"search">>, "search_contractors"), Get(<<"me", "doc-requests">>, "get_my_doc_requests"),
  Post(<<"me", "membership", "checkout-session">>, "create_contractor_membership_checkout_session"),
  Get(<<"me", "membership">>, "get_my_contractor_membership"), Get(<<Param>>, "get_contractor"),
  PutTo(<<Param>>, "update_contractor"), Get(<<Param, "reviews">>, "get_contractor_reviews"),
  Post(<<Param, "reviews">>, "add_review"), Get(<<Param, "stats">>, "get_contractor_stats"),
  Post(<<Param, "verify">>, "verify_contractor"),
  Post(<<Param, "recalculate-trust-score">>, "recalculate_trust_score")>>)

\* Mutant of BuildingRoutes: the building's own route is registered before "me".
BuildingIdFirst == Under(<<"buildings">>, <<
  Get(<<Param>>, "get_building"), Get(<<"me">>, "get_my_building"), Post(<<"join">>, "join_building"),
  Post(<<"">>, "create_building"), Get(<<"">>, "list_buildings"), PutTo(<<Param>>, "update_building"),
  Del(<<Param>>, "delete_building"), Post(<<Param, "regenerate-invite">>, "regenerate_invite_code"),
  Get(<<Param, "residents">>, "get_building_residents"), Post(<<Param, "residents">>, "add_resident"),
  Del(<<Param, "residents", Param>>, "remove_resident"), Get(<<Param, "stats">>, "get_building_stats"),
  Get(<<Param, "offers">>, "get_building_offers"), Post(<<Param, "invite">>, "invite_residents")>>)

BuildingRoutes == Under(<<"buildings">>, <<
  Get(<<"me">>, "get_my_building"), Post(<<"join">>, "join_building"), Post(<<"">>, "create_building"),
  Get(<<"">>, "list_buildings"), Get(<<Param>>, "get_building"), PutTo(<<Param>>, "update_building"),
  Del(<<Param>>, "delete_building"), Post(<<Param, "regenerate-invite">>, "regenerate_invite_code"),
  Get(<<Param, "residents">>, "get_building_residents"), Post(<<Param, "residents">>, "add_resident"),
  Del(<<Param, "residents", Param>>, "remove_resident"), Get(<<Param, "stats">>, "get_building_stats"),
  Get(<<Param, "offers">>, "get_building_offers"), Post(<<Param, "invite">>, "invite_residents")>>)

EscalationRoutes == Under(<<"escalations">>, <<
  Post(<<"contractor", "request-review">>, "contractor_request_review"),
  Post(<<"">>, "create_escalation"), Get(<<"">>, "list_escalations"),
  Post(<<"filter">>, "filter_escalations"), Get(<<"stats">>, "get_escalation_stats"),
  Get(<<"my">>, "get_my_escalations"), Get(<<Param>>, "get_escalation"),
  PutTo(<<Param>>, "update_escalation"), Post(<<Param, "assign">>, "assign_escalation"),
  Post(<<Param, "reply">>, "reply_to_escalation"), Post(<<Param, "resolve">>, "resolve_escalation"),
  Post(<<Param, "reopen">>, "reopen_escalation"), Get(<<Param, "messages">>, "get_escalation_messages")>>)

AgentRoutes == Under(<<"agents">>, <<
  Post(<<"invoke">>, "invoke_agent"), Get(<<"">>, "list_agents"),
  Get(<<Param, "metrics">>, "get_agent_metrics")>>)

AdminRoutes == Under(<<"admin">>, <<
  Get(<<"status">>, "system_status"), Post(<<"agents", Param, "reload">>, "reload_agent"),
  Get(<<"metrics">>, "get_metrics"), Get(<<"collections">>, "list_collections"),
  Get(<<"analytics">>, "get_analytics"), Get(<<"users">>, "list_users"),
  Get(<<"users", Param>>, "get_user"), PutTo(<<"users", Param>>, "update_user"),
  Post(<<"users">>, "create_admin_user"), Get(<<"offers">>, "list_offers_admin"),
  Post(<<"offers", Param, "flag">>, "flag_offer"), Post(<<"offers", Param, "approve">>, "approve_offer"),
  Post(<<"offers", Param, "cancel">>, "cancel_offer"), Get(<<"settings">>, "get_settings"),
  PutTo(<<"settings">>, "update_settings"), Get(<<"audit-logs">>, "list_audit_logs"),
  Get(<<"export", "offers">>, "export_offers_csv"),
  Get(<<"export", "participants">>, "export_participants_csv"),
  Get(<<"export", "payments">>, "export_payments_csv"),
  Get(<<"vetting", "status">>, "vetting_pipeline_status"),
  Post(<<"offers", Param, "force-cancel">>, "force_cancel_offer"),
  Patch(<<"payments", Param, "status">>, "override_payment_status"),
  Get(<<"outreach", "queue">>, "list_outreach_queue"),
  Post(<<"outreach", Param, "approve">>, "approve_outreach"),
  Post(<<"outreach", Param, "reject">>, "reject_outreach"),
  Post(<<"users", Param, "suspend">>, "suspend_user"),
  Post(<<"users", Param, "activate">>, "activate_user"), Get(<<"agents", "audit">>, "list_agent_audit"),
  Get(<<"agents", "autonomy">>, "get_agent_autonomy_modes"),
  Get(<<"agents", "pending-decisions">>, "list_pending_decisions"),
  Post(<<"agents", "pending-decisions", Param, "approve">>, "approve_pending_decision"),
  Post(<<"agents", "pending-decisions", Param, "reject">>, "reject_pending_decision"),
  Get(<<"agents", "audit", Param>>, "get_agent_audit_entry"),
  Get(<<"contractors", Param, "verification-metadata">>, "get_contractor_verification_metadata"),
  Post(<<"contractors", Param, "refresh-verification">>, "refresh_contractor_verification"),
  Post(<<"contractors", Param, "request-docs">>, "request_contractor_docs"),
  Patch(<<"contractors", Param, "membership">>, "admin_patch_contractor_membership"),
  Get(<<"credit-awards">>, "list_credit_awards"),
  Post(<<"credit-awards", Param, "approve">>, "approve_credit_award"),
  Post(<<"credit-awards", Param, "reject">>, "reject_credit_award")>>)

PaymentRoutes == Under(<<"payments">>, <<
  Get(<<"my">>, "get_my_payments"), Get(<<"contractor", "earnings">>, "get_contractor_earnings"),
  Post(<<"initiate">>, "initiate_payment"), Post(<<"webhook", "stripe">>, "stripe_webhook"),
  Post(<<Param, "approve-work">>, "resident_approve_work"), Get(<<Param>>, "get_payment"),
  Post(<<"webhook">>, "payment_webhook"), Post(<<Param, "refund">>, "request_refund"),
  Get(<<"invoices", "my">>, "get_my_invoices"), Get(<<"methods">>, "get_payment_methods"),
  Get(<<"invoices", Param>>, "get_invoice"), Get(<<"invoices", Param, "pdf">>, "download_invoice_pdf")>>)

PaymentAdminRoutes == Under(<<"admin", "payments">>, <<
  Get(<<"summary">>, "get_payment_summary"), Get(<<"escrow">>, "get_escrow_accounts"),
  Get(<<"payouts">>, "get_contractor_payouts"),
  Post(<<"payouts", Param, "approve">>, "approve_contractor_payout"),
  Post(<<"escrow", Param, "release">>, "release_escrow")>>)

UploadRoutes == Under(<<"uploads">>, <<
  Post(<<"architecture">>, "upload_architecture_plan"),
  Post(<<"contractor-docs">>, "upload_contractor_doc"), Post(<<"avatar">>, "upload_avatar"),
  Get(<<Param>>, "get_file"), Del(<<Param>>, "delete_file"), Get(<<"">>, "list_uploads")>>)

WebhookRoutes == Under(<<"webhooks">>, <<
  Post(<<"whatsapp">>, "whatsapp_webhook"), Get(<<"whatsapp">>, "whatsapp_verify"),
  Post(<<"contractor-update">>, "contractor_update_webhook")>>)

ActivityRoutes == Under(<<"activity">>, <<
  Get(<<"recent">>, "get_recent_activity")>>)

NotificationRoutes == Under(<<"notifications">>, <<
  Get(<<"">>, "list_notifications"), Get(<<"unread-count">>, "unread_notification_count"),
  Post(<<"read-all">>, "mark_all_notifications_read"),
  Post(<<Param, "read">>, "mark_notification_read_route"), Del(<<Param>>, "delete_notification"),
  Del(<<"">>, "clear_notifications")>>)

OnboardingRoutes == Under(<<"onboarding">>, <<
  Post(<<>>, "complete_onboarding")>>)

ConversationRoutes == Under(<<"conversations">>, <<
  Get(<<Param, "messages">>, "get_conversation_messages")>>)

GraphRoutes == Under(<<"graph">>, <<
  Get(<<"offers", Param, "invite-chain">>, "get_invite_chain"),
  Post(<<"offers", Param, "record-invite">>, "record_invite"),
  Get(<<"buildings", Param, "similar">>, "get_similar_buildings"),
  Get(<<"residents", Param, "influence-score">>, "get_influence_score"),
  Get(<<"cities", Param, "top-influencers">>, "get_top_influencers")>>)

\* What main.py registers itself, after the routers.
AppRoutes == <<
  Get(<<>>, "api_root"), Post(<<"message">>, "send_message"),
  Get(<<"health", "live">>, "health_live"), Get(<<"health">>, "health_check"),
  Get(<<"health", "db">>, "db_pool_health")>>

Routes ==
  AuthRoutes \o EnrichmentRoutes \o OfferRoutes \o ContractorRoutes \o BuildingRoutes
  \o EscalationRoutes \o AgentRoutes \o AdminRoutes \o PaymentRoutes \o PaymentAdminRoutes
  \o UploadRoutes \o WebhookRoutes \o ActivityRoutes \o NotificationRoutes
  \o OnboardingRoutes \o ConversationRoutes \o GraphRoutes \o AppRoutes

----------------------------------------------------------------------------
(* Finding the handler. *)

\* A parameter takes any segment but the empty one.
Fits(pattern, path) ==
  /\ Len(pattern) = Len(path)
  /\ \A i \in DOMAIN path : pattern[i] = path[i] \/ (pattern[i] = Param /\ path[i] # "")

OnPath(path) == {i \in DOMAIN Routes : Fits(Routes[i].path, path)}

Serving(method, path) == {i \in OnPath(path) : Routes[i].method = method}

\* The path with a trailing slash, or without the one it has.
Toggled(path) ==
  IF path # <<>> /\ path[Len(path)] = ""
  THEN SubSeq(path, 1, Len(path) - 1)
  ELSE Append(path, "")

============================================================================
