------------------------------ MODULE Payments ------------------------------
(***************************************************************************)
(* Payments for one offer: src/src/api/routes/payments.py over the tables  *)
(* payments and invoices, with the payment provider of                     *)
(* src/src/services/payment.py and Stripe behind it.                       *)
(*                                                                         *)
(* Every request handler is a coroutine that yields at each database or    *)
(* provider call, so each such call is an action of its own and handlers   *)
(* interleave between them.  The database is the deployed one: the         *)
(* Supabase client, whose transaction() is a no-op, so that the two        *)
(* inserts of initiate_payment commit one by one.                          *)
(*                                                                         *)
(* A request r of initiate_payment makes one payment, and at most one      *)
(* invoice and one PaymentIntent: the three are all named r.               *)
(***************************************************************************)
EXTENDS Integers, FiniteSets

CONSTANTS
  Users,        \* who may take part in the offer
  Requests,     \* calls of POST /payments/initiate
  UserOf,       \* the user who makes a request
  KeyOf,        \* the idempotency_key a request carries, or NoKey
  NoKey,
  NoInvoice,    \* get_invoice_for_offer returned None
  Refunds,      \* calls of POST /payments/{id}/refund
  Admins,       \* calls of the two admin release endpoints
  Provider,     \* settings.PAYMENT_PROVIDER: "stripe" or "mock"
  PaymentType,  \* determine_payment_type for this offer: "escrow" or "direct"
  Amount,       \* the amount of a payment, in units of the smallest refund
  MaxEvents,    \* bound on the events of PaymentIntents
  MaxFaults     \* bound on crashed handlers and failed calls

ASSUME UsersAssumption == UserOf \in [Requests -> Users]
ASSUME NoInvoiceAssumption == NoInvoice \notin Requests
ASSUME ProviderAssumption == Provider \in {"stripe", "mock"}
ASSUME PaymentTypeAssumption == PaymentType \in {"escrow", "direct"}
ASSUME FiniteAssumption == IsFiniteSet(Users) /\ IsFiniteSet(Requests)
ASSUME AmountAssumption == Amount \in Nat \ {0}
ASSUME EventsAssumption == MaxEvents \in Nat
ASSUME FaultsAssumption == MaxFaults \in Nat

\* Stripe event types, and the payment status stripe_webhook maps each to.
\* The object of a PaymentIntent event is the intent; the object of a charge
\* event is the charge, whose id no payment records ("charge.refunded" stands
\* for the dispute events too).
IntentEvents == {"processing", "succeeded", "payment_failed", "canceled"}
EventTypes == IntentEvents \cup {"charge.refunded"}
Event == Requests \X EventTypes

\* Mutants of StatusMap: Stripe's word is stored as it is; "processing" is taken
\* for settled.
StatusMapRaw == [t \in EventTypes |-> t]
StatusMapEager == [t \in EventTypes |->
  CASE t \in {"processing", "succeeded"}    -> "succeeded"
    [] t \in {"payment_failed", "canceled"} -> "failed"
    [] t = "charge.refunded"                -> "refunded"]

StatusMap == [t \in EventTypes |->
  CASE t = "processing"      -> "processing"
    [] t = "succeeded"       -> "succeeded"
    [] t = "payment_failed"  -> "failed"
    [] t = "canceled"        -> "failed"
    [] t = "charge.refunded" -> "refunded"]

VARIABLES
  invoice,      \* invoices.status, "none" when there is no such row
  payment,      \* payments.status, "none" when there is no such row
  invoiceOf,    \* payments.invoice_id
  hasTxn,       \* payments.transaction_id has been recorded
  offer,        \* offers.status
  pc,           \* where each initiate_payment is
  held,         \* its existing_invoice: a stored row, or NoInvoice for a new one
  outcome,      \* its payment_data["status"] after the charge
  counted,      \* its participant_count, NoCount before it is read
  intent,       \* the provider's PaymentIntent, or the mock charge
  refunded,     \* how much of the money the provider has given back
  sent,         \* events Stripe has generated
  acked,        \* events answered 2xx, which Stripe stops delivering
  claimed,      \* stripe_webhook_events
  hook,         \* where the handler of each event is
  refund,       \* the refund handlers
  admin,        \* the release handlers
  faults

tables    == <<invoice, payment, invoiceOf, hasTxn, offer>>
initiates == <<pc, held, outcome, counted>>
stripe    == <<intent, refunded, sent>>
hooks     == <<acked, claimed, hook>>
vars      == <<tables, initiates, stripe, hooks, refund, admin, faults>>

InvoiceStatus == {"none", "pending", "paid", "released", "refunded"}
PaymentStatus ==
  {"none", "pending", "requires_payment_method", "processing", "succeeded",
   "failed", "refunded", "cancelled", "work_approved"}
Outcomes == {"none", "requires_payment_method", "succeeded", "failed"}
IntentStatus ==
  {"none", "requires_payment_method", "processing", "succeeded", "canceled"}
OfferStatus == {"matched", "in_progress", "completed", "cancelled"}
InitiatePC ==
  {"idle", "checked", "insert", "invoiced", "written", "charged", "count",
   "counted", "mark_paid", "done", "error"}
NoCount == -1
RefundPC == {"idle", "read", "called", "half", "done"}
AdminPC ==
  {"idle", "release_read", "payout_read", "release_ok", "payout_ok",
   "release_half", "done"}

\* A refund handler: the payment it is about, the status it read, and the one it
\* will write.  A release handler: the invoice it is about.
RefundRecord == [pc : RefundPC, of : Requests \cup {NoInvoice},
                 seen : PaymentStatus, result : PaymentStatus]
AdminRecord == [pc : AdminPC, of : Requests \cup {NoInvoice}]

TypeOK ==
  /\ invoice \in [Requests -> InvoiceStatus]
  /\ payment \in [Requests -> PaymentStatus]
  /\ invoiceOf \in [Requests -> Requests \cup {NoInvoice}]
  /\ hasTxn \in [Requests -> BOOLEAN]
  /\ offer \in OfferStatus
  /\ pc \in [Requests -> InitiatePC]
  /\ held \in [Requests -> Requests \cup {NoInvoice}]
  /\ outcome \in [Requests -> Outcomes]
  /\ counted \in [Requests -> {NoCount} \cup 0 .. Cardinality(Users)]
  /\ intent \in [Requests -> IntentStatus]
  /\ refunded \in [Requests -> Nat]
  /\ sent \subseteq Event /\ acked \subseteq Event /\ claimed \subseteq Event
  /\ hook \in [Event -> {"idle", "claimed", "half"}]
  /\ refund \in [Refunds -> RefundRecord]
  /\ \A f \in Refunds : refund[f].pc # "idle" => refund[f].of \in Requests
  /\ admin \in [Admins -> AdminRecord]
  /\ faults \in 0..MaxFaults

Init ==
  /\ invoice = [i \in Requests |-> "none"]
  /\ payment = [p \in Requests |-> "none"]
  /\ invoiceOf = [p \in Requests |-> NoInvoice]
  /\ hasTxn = [p \in Requests |-> FALSE]
  /\ offer = "matched"
  /\ pc = [r \in Requests |-> "idle"]
  /\ held = [r \in Requests |-> NoInvoice]
  /\ outcome = [r \in Requests |-> "none"]
  /\ counted = [r \in Requests |-> NoCount]
  /\ intent = [r \in Requests |-> "none"]
  /\ refunded = [r \in Requests |-> 0]
  /\ sent = {} /\ acked = {} /\ claimed = {}
  /\ hook = [e \in Event |-> "idle"]
  /\ refund = [f \in Refunds |-> [pc |-> "idle", of |-> NoInvoice,
                                  seen |-> "none", result |-> "none"]]
  /\ admin = [a \in Admins |-> [pc |-> "idle", of |-> NoInvoice]]
  /\ faults = 0

Fault == faults < MaxFaults /\ faults' = faults + 1

\* Stripe generates an event.
Emit(r, t) ==
  /\ Cardinality(sent \cap (Requests \X IntentEvents)) < MaxEvents
  /\ sent' = sent \cup {<<r, t>>}

----------------------------------------------------------------------------
(* initiate_payment *)

Invoices == {i \in Requests : invoice[i] # "none"}

\* get_invoice_for_offer takes an arbitrary invoice of the offer (limit 1) and
\* returns it when the user has a payment on it.  No code writes the
\* payment_splits rows that would show an invoice to a user who has not paid.
ShownTo(u, i) ==
  \E p \in Requests : payment[p] # "none" /\ invoiceOf[p] = i /\ UserOf[p] = u

InvoiceLookup(u) ==
  {i \in Invoices : ShownTo(u, i)}
    \cup (IF Invoices = {} \/ \E i \in Invoices : ~ShownTo(u, i)
            THEN {NoInvoice} ELSE {})

\* create_payment has no idempotency_key among the columns it writes.
StoredKey(p) == NoKey

KeyKnown(r) ==
  /\ KeyOf[r] # NoKey
  /\ \E p \in Requests : /\ payment[p] # "none" /\ UserOf[p] = UserOf[r]
                         /\ StoredKey(p) = KeyOf[r]

\* The reads that precede the first write.
InitiateCheck(r) ==
  /\ pc[r] = "idle"
  /\ ~KeyKnown(r)
  /\ \E i \in InvoiceLookup(UserOf[r]) : held' = [held EXCEPT ![r] = i]
  /\ pc' = [pc EXCEPT ![r] = "checked"]
  /\ UNCHANGED <<tables, outcome, counted, stripe, hooks, refund, admin, faults>>

\* The lookup repeated inside "async with db.transaction()".
InitiateRecheck(r) ==
  /\ pc[r] = "checked"
  /\ \E i \in InvoiceLookup(UserOf[r]) :
       pc' = [pc EXCEPT ![r] = IF i = NoInvoice THEN "insert" ELSE "invoiced"]
  /\ UNCHANGED <<tables, held, outcome, counted, stripe, hooks, refund, admin, faults>>

\* create_invoice; inserting a row that was found before breaks the primary key.
InsertInvoice(r) ==
  /\ pc[r] = "insert"
  /\ IF held[r] = NoInvoice
       THEN /\ invoice' = [invoice EXCEPT ![r] = "pending"]
            /\ held' = [held EXCEPT ![r] = r]
            /\ pc' = [pc EXCEPT ![r] = "invoiced"]
       ELSE /\ pc' = [pc EXCEPT ![r] = "error"]
            /\ UNCHANGED <<invoice, held>>
  /\ UNCHANGED <<payment, invoiceOf, hasTxn, offer, outcome, counted, stripe,
                 hooks, refund, admin, faults>>

\* create_payment; an in-memory invoice that was never inserted breaks the
\* foreign key.
InsertPayment(r) ==
  /\ pc[r] = "invoiced"
  /\ IF held[r] = NoInvoice
       THEN /\ pc' = [pc EXCEPT ![r] = "error"]
            /\ UNCHANGED <<payment, invoiceOf>>
       ELSE /\ pc' = [pc EXCEPT ![r] = "written"]
            /\ payment' = [payment EXCEPT ![r] = "pending"]
            /\ invoiceOf' = [invoiceOf EXCEPT ![r] = held[r]]
  /\ UNCHANGED <<invoice, hasTxn, offer, held, outcome, counted, stripe,
                 hooks, refund, admin, faults>>

\* Mutant of Charge: the provider is called before the payment row is written.
ChargeEarly(r) ==
  /\ pc[r] \in {"invoiced", "written"}
  /\ intent' = [intent EXCEPT ![r] = "requires_payment_method"]
  /\ outcome' = [outcome EXCEPT ![r] = "requires_payment_method"]
  /\ pc' = [pc EXCEPT ![r] = "charged"]
  /\ UNCHANGED <<tables, held, counted, refunded, sent, hooks, refund, admin, faults>>

\* provider.create_charge: Stripe opens a PaymentIntent that the client must
\* confirm, the mock provider takes the money at once.
Charge(r) ==
  /\ pc[r] = "written"
  /\ LET s == IF Provider = "mock" THEN "succeeded"
                                   ELSE "requires_payment_method"
     IN  /\ intent' = [intent EXCEPT ![r] = s]
         /\ outcome' = [outcome EXCEPT ![r] = s]
  /\ pc' = [pc EXCEPT ![r] = "charged"]
  /\ UNCHANGED <<tables, held, counted, refunded, sent, hooks, refund, admin, faults>>

\* create_charge raises; the intent may have been opened all the same.
ChargeFails(r) ==
  /\ pc[r] = "written"
  /\ Provider = "stripe"
  /\ Fault
  /\ \E s \in {"none", "requires_payment_method"} :
       intent' = [intent EXCEPT ![r] = s]
  /\ outcome' = [outcome EXCEPT ![r] = "failed"]
  /\ pc' = [pc EXCEPT ![r] = "charged"]
  /\ UNCHANGED <<tables, held, counted, refunded, sent, hooks, refund, admin>>

\* Mutant of RecordCharge: only the status is written back.
RecordStatusOnly(r) ==
  /\ pc[r] = "charged"
  /\ payment' = [payment EXCEPT ![r] = outcome[r]]
  /\ pc' = [pc EXCEPT ![r] = "done"]
  /\ UNCHANGED <<invoice, invoiceOf, hasTxn, offer, held, outcome, counted, stripe,
                 hooks, refund, admin, faults>>

\* update_payment with the provider's result.  A charge that is already
\* "succeeded" (mock) goes on to settle the invoice.
RecordCharge(r) ==
  /\ pc[r] = "charged"
  /\ payment' = [payment EXCEPT ![r] = outcome[r]]
  /\ hasTxn' = [hasTxn EXCEPT ![r] = outcome[r] # "failed"]
  /\ pc' = [pc EXCEPT ![r] =
              CASE outcome[r] # "succeeded" -> "done"
                [] outcome[r] = "succeeded" /\ PaymentType = "direct" -> "mark_paid"
                [] OTHER -> "count"]
  /\ UNCHANGED <<invoice, invoiceOf, offer, held, outcome, counted, stripe,
                 hooks, refund, admin, faults>>

\* Mutant of SucceededOn: payments of any status are counted.
PaymentsOn(i) == {p \in Requests : invoiceOf[p] = i}

SucceededOn(i) == {p \in Requests : invoiceOf[p] = i /\ payment[p] = "succeeded"}

\* Escrow: get_offer_participants.  The handler reads them whatever the offer's status
\* is, and users join and leave while payments run: it may find any number, or nobody.
CountParticipants(r) ==
  /\ pc[r] = "count"
  /\ \E n \in 0 .. Cardinality(Users) : counted' = [counted EXCEPT ![r] = n]
  /\ pc' = [pc EXCEPT ![r] = "counted"]
  /\ UNCHANGED <<tables, held, outcome, stripe, hooks, refund, admin, faults>>

\* count_succeeded_payments_for_invoice against that number.
CountSucceeded(r) ==
  /\ pc[r] = "counted"
  /\ pc' = [pc EXCEPT ![r] =
              IF counted[r] = 0 \/ Cardinality(SucceededOn(held[r])) >= counted[r]
                THEN "mark_paid" ELSE "done"]
  /\ UNCHANGED <<tables, held, outcome, counted, stripe, hooks, refund, admin,
                 faults>>

MarkPaid(r) ==
  /\ pc[r] = "mark_paid"
  /\ invoice' = [invoice EXCEPT ![held[r]] = "paid"]
  /\ pc' = [pc EXCEPT ![r] = "done"]
  /\ UNCHANGED <<payment, invoiceOf, hasTxn, offer, held, outcome, counted, stripe,
                 hooks, refund, admin, faults>>

\* The process dies, or a database call raises, between two steps.
InitiateDies(r) ==
  /\ pc[r] \notin {"idle", "done", "error"}
  /\ Fault
  /\ pc' = [pc EXCEPT ![r] = "error"]
  /\ UNCHANGED <<tables, held, outcome, counted, stripe, hooks, refund, admin>>

----------------------------------------------------------------------------
(* Stripe *)

\* The client confirms with the client_secret of the handler's response.
Confirm(r) ==
  /\ Provider = "stripe"
  /\ pc[r] = "done" /\ outcome[r] # "failed"
  /\ intent[r] = "requires_payment_method"
  /\ intent' = [intent EXCEPT ![r] = "processing"]
  /\ Emit(r, "processing")
  /\ UNCHANGED <<tables, initiates, refunded, hooks, refund, admin, faults>>

Capture(r) ==
  /\ intent[r] = "processing"
  /\ intent' = [intent EXCEPT ![r] = "succeeded"]
  /\ Emit(r, "succeeded")
  /\ UNCHANGED <<tables, initiates, refunded, hooks, refund, admin, faults>>

\* A declined intent can be confirmed again (once here: event ids repeat no type).
Decline(r) ==
  /\ intent[r] = "processing"
  /\ <<r, "payment_failed">> \notin sent
  /\ intent' = [intent EXCEPT ![r] = "requires_payment_method"]
  /\ Emit(r, "payment_failed")
  /\ UNCHANGED <<tables, initiates, refunded, hooks, refund, admin, faults>>

\* Stripe or an operator cancels an unconfirmed intent.
CancelIntent(r) ==
  /\ intent[r] = "requires_payment_method"
  /\ intent' = [intent EXCEPT ![r] = "canceled"]
  /\ Emit(r, "canceled")
  /\ UNCHANGED <<tables, initiates, refunded, hooks, refund, admin, faults>>

----------------------------------------------------------------------------
(* stripe_webhook: Stripe delivers an event, in any order and again and      *)
(* again, until it is answered 2xx.                                          *)

\* try_claim_stripe_webhook_event inserts the event id ...
Claim(e) ==
  /\ e \in sent \ (acked \cup claimed)
  /\ claimed' = claimed \cup {e}
  /\ hook' = [hook EXCEPT ![e] = "claimed"]
  /\ UNCHANGED <<tables, initiates, stripe, acked, refund, admin, faults>>

\* ... or finds it there, and the delivery is answered {"status": "duplicate"}.
Duplicate(e) ==
  /\ e \in (sent \cap claimed) \ acked
  /\ acked' = acked \cup {e}
  /\ UNCHANGED <<tables, initiates, stripe, claimed, hook, refund, admin, faults>>

\* Any error of the INSERT is taken for a duplicate.
ClaimFails(e) ==
  /\ e \in sent \ (acked \cup claimed)
  /\ Fault
  /\ acked' = acked \cup {e}
  /\ UNCHANGED <<tables, initiates, stripe, claimed, hook, refund, admin>>

\* Mutant of Finds: only payments that are known to be processing are looked for.
FindsProcessing(e) ==
  hasTxn[e[1]] /\ e[2] \in IntentEvents /\ payment[e[1]] = "processing"

\* get_payment_by_transaction looks for the id of the event's object.
Finds(e) == hasTxn[e[1]] /\ e[2] \in IntentEvents

\* "ignored": unknown transaction.
HookIgnore(e) ==
  /\ hook[e] = "claimed"
  /\ ~Finds(e)
  /\ hook' = [hook EXCEPT ![e] = "idle"]
  /\ acked' = acked \cup {e}
  /\ UNCHANGED <<tables, initiates, stripe, claimed, refund, admin, faults>>

\* The first UPDATE of update_payment_and_invoice_for_webhook.  The row read
\* just before only contributes its id and invoice_id, which never change.
HookPayment(e) ==
  /\ hook[e] = "claimed"
  /\ Finds(e)
  /\ payment' = [payment EXCEPT ![e[1]] = StatusMap[e[2]]]
  /\ hook' = [hook EXCEPT ![e] = "half"]
  /\ UNCHANGED <<invoice, invoiceOf, hasTxn, offer, initiates, stripe, acked,
                 claimed, refund, admin, faults>>

\* The second UPDATE, for the statuses that concern the invoice.
HookInvoice(e) ==
  /\ hook[e] = "half"
  /\ invoice' = CASE StatusMap[e[2]] = "succeeded" ->
                       [invoice EXCEPT ![invoiceOf[e[1]]] = "paid"]
                  [] StatusMap[e[2]] = "refunded" ->
                       [invoice EXCEPT ![invoiceOf[e[1]]] = "refunded"]
                  [] OTHER -> invoice
  /\ hook' = [hook EXCEPT ![e] = "idle"]
  /\ acked' = acked \cup {e}
  /\ UNCHANGED <<payment, invoiceOf, hasTxn, offer, initiates, stripe, claimed,
                 refund, admin, faults>>

HookDies(e) ==
  /\ hook[e] # "idle"
  /\ Fault
  /\ hook' = [hook EXCEPT ![e] = "idle"]
  /\ UNCHANGED <<tables, initiates, stripe, acked, claimed, refund, admin>>

----------------------------------------------------------------------------
(* resident_approve_work and request_refund *)

\* Whatever the payment's status.
ApproveWork(p) ==
  /\ payment[p] # "none"
  /\ payment' = [payment EXCEPT ![p] = "work_approved"]
  /\ UNCHANGED <<invoice, invoiceOf, hasTxn, offer, initiates, stripe, hooks,
                 refund, admin, faults>>

RefundRead(f, p) ==
  /\ refund[f].pc = "idle"
  /\ payment[p] \notin {"none", "refunded", "failed"}
  /\ refund' = [refund EXCEPT ![f] =
       [pc |-> "read", of |-> p, seen |-> payment[p], result |-> "none"]]
  /\ UNCHANGED <<tables, initiates, stripe, hooks, admin, faults>>

\* Mutant of RefundCall: the status is not looked at.
RefundAnyStatus(f, amount) ==
  LET p == refund[f].of
  IN  /\ refund[f].pc = "read"
      /\ refund' = [refund EXCEPT ![f].pc = "called", ![f].result = "refunded"]
      /\ refunded' = [refunded EXCEPT ![p] = @ + amount]
      /\ UNCHANGED <<tables, initiates, intent, sent, hooks, admin, faults>>

\* provider.refund for a payment seen "succeeded", of all or part of its amount.
\* The payment row will get the status of the result: the mock's own word, or
\* Stripe's refund.status.  Stripe never gives back more than the amount.
RefundCall(f, amount) ==
  LET p == refund[f].of
      Statuses == IF Provider = "mock" THEN {"refunded"}
                                       ELSE {"succeeded", "pending", "failed"}
  IN
  /\ refund[f].pc = "read"
  /\ refund[f].seen = "succeeded"
  /\ Provider = "stripe" => refunded[p] + amount <= Amount
  /\ \E s \in Statuses :
       /\ refund' = [refund EXCEPT ![f].pc = "called", ![f].result = s]
       /\ IF s = "failed"
            THEN UNCHANGED <<refunded, sent>>
            ELSE /\ refunded' = [refunded EXCEPT ![p] = @ + amount]
                 /\ sent' = IF Provider = "stripe"
                              THEN sent \cup {<<p, "charge.refunded">>} ELSE sent
  /\ UNCHANGED <<tables, initiates, intent, hooks, admin, faults>>

\* The provider refuses, or the call raises: HTTP 502 and nothing is written.
\* (A refund that was made although its answer is lost: RefundCall, RefundDies.)
RefundRefused(f) ==
  /\ refund[f].pc = "read"
  /\ refund[f].seen = "succeeded"
  /\ Provider = "stripe"
  /\ \/ refunded[refund[f].of] > 0 /\ UNCHANGED faults
     \/ Fault
  /\ refund' = [refund EXCEPT ![f].pc = "done"]
  /\ UNCHANGED <<tables, initiates, stripe, hooks, admin>>

\* Any other status is "not yet captured": the provider is not called.
RefundCancel(f) ==
  /\ refund[f].pc = "read"
  /\ refund[f].seen # "succeeded"
  /\ refund' = [refund EXCEPT ![f].pc = "called", ![f].result = "cancelled"]
  /\ UNCHANGED <<tables, initiates, stripe, hooks, admin, faults>>

RefundPayment(f) ==
  /\ refund[f].pc = "called"
  /\ payment' = [payment EXCEPT ![refund[f].of] = refund[f].result]
  /\ refund' = [refund EXCEPT ![f].pc = "half"]
  /\ UNCHANGED <<invoice, invoiceOf, hasTxn, offer, initiates, stripe, hooks,
                 admin, faults>>

RefundInvoice(f) ==
  /\ refund[f].pc = "half"
  /\ invoice' = [invoice EXCEPT ![invoiceOf[refund[f].of]] = "refunded"]
  /\ refund' = [refund EXCEPT ![f].pc = "done"]
  /\ UNCHANGED <<payment, invoiceOf, hasTxn, offer, initiates, stripe, hooks,
                 admin, faults>>

RefundDies(f) ==
  /\ refund[f].pc \notin {"idle", "done"}
  /\ Fault
  /\ refund' = [refund EXCEPT ![f].pc = "done"]
  /\ UNCHANGED <<tables, initiates, stripe, hooks, admin>>

----------------------------------------------------------------------------
(* release_escrow and approve_contractor_payout *)

\* Mutant of AdminRead: the invoice's status is not looked at.
AdminReadAny(a) ==
  /\ admin[a].pc = "idle"
  /\ \E i \in Invoices, next \in {"release_read", "payout_read"} :
       admin' = [admin EXCEPT ![a] = [pc |-> next, of |-> i]]
  /\ UNCHANGED <<tables, initiates, stripe, hooks, refund, faults>>

\* release_escrow reads get_invoice_by_offer, an arbitrary invoice of the
\* offer; approve_contractor_payout reads the invoice it is given.
AdminRead(a) ==
  /\ admin[a].pc = "idle"
  /\ \E i \in Invoices, next \in {"release_read", "payout_read"} :
       /\ invoice[i] = "paid"
       /\ admin' = [admin EXCEPT ![a] = [pc |-> next, of |-> i]]
  /\ UNCHANGED <<tables, initiates, stripe, hooks, refund, faults>>

AdminCheckOffer(a) ==
  /\ \/ /\ admin[a].pc = "release_read"
        /\ admin' = [admin EXCEPT ![a].pc =
             IF offer \in {"in_progress", "completed"} THEN "release_ok" ELSE "done"]
     \/ /\ admin[a].pc = "payout_read"
        /\ admin' = [admin EXCEPT ![a].pc =
             IF offer = "completed" THEN "payout_ok" ELSE "done"]
  /\ UNCHANGED <<tables, initiates, stripe, hooks, refund, faults>>

AdminRelease(a) ==
  /\ admin[a].pc \in {"release_ok", "payout_ok"}
  /\ invoice' = [invoice EXCEPT ![admin[a].of] = "released"]
  /\ admin' = [admin EXCEPT ![a].pc =
       IF admin[a].pc = "release_ok" THEN "release_half" ELSE "done"]
  /\ UNCHANGED <<payment, invoiceOf, hasTxn, offer, initiates, stripe, hooks,
                 refund, faults>>

AdminCompleteOffer(a) ==
  /\ admin[a].pc = "release_half"
  /\ offer' = "completed"
  /\ admin' = [admin EXCEPT ![a].pc = "done"]
  /\ UNCHANGED <<invoice, payment, invoiceOf, hasTxn, initiates, stripe, hooks,
                 refund, faults>>

AdminDies(a) ==
  /\ admin[a].pc \notin {"idle", "done"}
  /\ Fault
  /\ admin' = [admin EXCEPT ![a].pc = "done"]
  /\ UNCHANGED <<tables, initiates, stripe, hooks, refund>>

\* The handlers of offers.py and the scheduler move the offer from any status to
\* any other.  Only the two endpoints above read it: it moves before they do.
OfferMoves ==
  /\ \E a \in Admins : admin[a].pc \in {"release_read", "payout_read"}
  /\ offer' \in OfferStatus \ {offer}
  /\ UNCHANGED <<invoice, payment, invoiceOf, hasTxn, initiates, stripe, hooks,
                 refund, admin, faults>>

----------------------------------------------------------------------------

InitiateStep(r) ==
  \/ InitiateCheck(r) \/ InitiateRecheck(r) \/ InsertInvoice(r)
  \/ InsertPayment(r) \/ Charge(r) \/ ChargeFails(r) \/ RecordCharge(r)
  \/ CountParticipants(r) \/ CountSucceeded(r) \/ MarkPaid(r)

HookStep(e) == HookIgnore(e) \/ HookPayment(e) \/ HookInvoice(e)

RefundStep(f) ==
  \/ (\E amount \in 1..Amount : RefundCall(f, amount))
  \/ RefundRefused(f) \/ RefundCancel(f)
  \/ RefundPayment(f) \/ RefundInvoice(f)

AdminStep(a) ==
  AdminCheckOffer(a) \/ AdminRelease(a) \/ AdminCompleteOffer(a)

Next ==
  \/ \E r \in Requests :
       \/ InitiateStep(r) \/ InitiateDies(r)
       \/ Confirm(r) \/ Capture(r) \/ Decline(r) \/ CancelIntent(r)
       \/ ApproveWork(r)
  \/ \E e \in Event :
       Claim(e) \/ Duplicate(e) \/ ClaimFails(e) \/ HookStep(e) \/ HookDies(e)
  \/ \E f \in Refunds :
       (\E p \in Requests : RefundRead(f, p)) \/ RefundStep(f) \/ RefundDies(f)
  \/ \E a \in Admins : AdminRead(a) \/ AdminStep(a) \/ AdminDies(a)
  \/ OfferMoves

Spec == Init /\ [][Next]_vars

\* A handler that has started goes on to its next await, and Stripe delivers an
\* event until it is answered 2xx.
Fairness ==
  /\ \A r \in Requests : WF_vars(InitiateStep(r) /\ pc[r] # "idle")
  /\ \A e \in Event : WF_vars(Claim(e) \/ Duplicate(e)) /\ WF_vars(HookStep(e))
  /\ \A f \in Refunds : WF_vars(RefundStep(f))
  /\ \A a \in Admins : WF_vars(AdminStep(a))

FairSpec == Spec /\ Fairness

----------------------------------------------------------------------------
(* Properties *)

Captured(p) == intent[p] = "succeeded"

\* An invoice is funded when the provider has taken the money of one of the
\* payments on it.
Funded(i) == \E p \in Requests : invoiceOf[p] = i /\ Captured(p)

\* "This ensures money is never charged without a corresponding DB record"
\* (initiate_payment): a PaymentIntent always has a payment row, and that row's
\* invoice exists, wherever the handler died.
ChargeHasRecord ==
  \A r \in Requests :
    intent[r] # "none" =>
      payment[r] # "none" /\ \E i \in Invoices : invoiceOf[r] = i

\* An intent that a customer has confirmed can be found by the webhook: its id
\* was recorded before the client got the secret to confirm it with.  So the
\* events about money moving are never "ignored: unknown_transaction".
ConfirmedIsFindable ==
  \A r \in Requests :
    Provider = "stripe" /\ intent[r] \in {"processing", "succeeded"} => hasTxn[r]

\* A payment is only ever recorded as succeeded when the provider has taken the
\* money, whatever the order and number of webhooks and refund results.
SucceededIsCaptured ==
  \A p \in Requests : payment[p] = "succeeded" => Captured(p)

\* An invoice is paid, and released to the contractor, only if the money of at
\* least one payment on it was taken.
PaidIsFunded ==
  \A i \in Requests : invoice[i] \in {"paid", "released"} => Funded(i)

\* The payments on an invoice whose money was taken, and whether they are as many
\* as the participants were when the handler of one of them read them.
CapturedOn(i) == {p \in Requests : invoiceOf[p] = i /\ Captured(p)}
PaidUp(i) ==
  \E r \in CapturedOn(i) :
    counted[r] # NoCount /\ Cardinality(CapturedOn(i)) >= counted[r]
FullInvoices == {i \in Requests : PaidUp(i)}

\* The mock provider has no webhook, and an escrow invoice becomes paid by
\* counting: no interleaving of handlers that count and handlers that pay or
\* refund makes it paid with fewer captured payments than the participants that
\* one of its payers has found.
PaidInFull ==
  Provider = "mock" /\ PaymentType = "escrow" =>
    \A i \in Requests : invoice[i] \in {"paid", "released"} => i \in FullInvoices

\* Money is given back only for payments whose money was taken, however many
\* refunds of a payment run at once and whatever they saw.
RefundsCovered == \A p \in Requests : refunded[p] > 0 => Captured(p)

\* The two of them: what the rows say of money taken and given back, the provider's
\* records back, in any order of the webhooks, the refunds and their deaths.
RecordsAreBacked == SucceededIsCaptured /\ RefundsCovered

\* The money a customer pays is eventually credited to the invoice, as long as
\* no handler dies and no call fails.
CapturedIsCredited ==
  \A p \in Requests :
    Captured(p) ~> (faults > 0 \/ \E i \in Invoices : invoiceOf[p] = i /\ invoice[i] # "pending")

\* An intent that waits for the customer, or for Stripe, has been asked for.
Money == [p \in Requests |->
  CASE intent[p] = "none"      -> "none"
    [] intent[p] = "succeeded" -> "taken"
    [] intent[p] = "canceled"  -> "void"
    [] OTHER                   -> "asked"]

\* All the handlers, the webhooks and the faults together implement the abstract
\* Escrow: whatever they read and however late they write, every write of theirs to
\* payments and invoices, and every call of the provider, is a step that it allows.
Ledger == INSTANCE Escrow
            WITH Charges <- Requests, NoBill <- NoInvoice, Price <- Amount,
                 Exact <- Provider = "stripe",
                 bill <- invoice, on <- invoiceOf, money <- Money, back <- refunded
KeepsLedger == Ledger!Spec

----------------------------------------------------------------------------
(* The inductive invariant behind the safety properties above *)

\* The rows and the handler that writes them.
RowOK(r) ==
  /\ pc[r] \in {"idle", "checked", "insert", "invoiced"} => payment[r] = "none"
  /\ pc[r] \in {"written", "charged", "count", "counted", "mark_paid", "done"}
       => payment[r] # "none"
  /\ pc[r] \in {"idle", "checked", "insert", "invoiced", "written", "charged"}
       => ~hasTxn[r]
  /\ pc[r] \in {"written", "charged", "count", "counted", "mark_paid"}
       => held[r] \in Requests /\ invoiceOf[r] = held[r]
  /\ held[r] # NoInvoice => held[r] \in Invoices
  /\ payment[r] = "none" => intent[r] = "none" /\ ~hasTxn[r]
  /\ payment[r] # "none" => invoiceOf[r] \in Invoices
  /\ pc[r] = "written" => intent[r] = "none"

\* The handler and the provider: a Stripe intent moves on only after its id and
\* the answer of the provider have been recorded.
ChargeOK(r) ==
  /\ pc[r] = "charged" => outcome[r] # "none"
  /\ outcome[r] = "succeeded" => Captured(r) /\ Provider = "mock"
  /\ pc[r] \in {"count", "counted", "mark_paid"} => hasTxn[r] /\ outcome[r] = "succeeded"
  /\ pc[r] = "done" /\ outcome[r] # "failed" => hasTxn[r]
  /\ Provider = "stripe" /\ intent[r] \in {"processing", "succeeded"}
       => pc[r] = "done" /\ hasTxn[r]
  /\ <<r, "succeeded">> \in sent => Captured(r)

\* A handler of an event is at work on an event that Stripe sent.
HookOK(e) ==
  /\ hook[e] # "idle" => e \in sent
  /\ hook[e] = "half" => hasTxn[e[1]]

\* A refund handler that saw a payment succeeded holds a payment whose money is
\* taken, and so does one whose refund succeeded.
RefundOK(f) ==
  /\ refund[f].pc = "idle" => refund[f].seen = "none" /\ refund[f].result = "none"
  /\ refund[f].pc # "idle" => payment[refund[f].of] # "none"
  /\ refund[f].pc = "called" => refund[f].result # "none"
  /\ refund[f].seen = "succeeded" \/ refund[f].result = "succeeded"
       => Captured(refund[f].of)

\* An admin handler past its check holds a funded invoice.
AdminOK(a) ==
  admin[a].pc # "idle" => admin[a].of \in Invoices /\ Funded(admin[a].of)

SettlementInv ==
  /\ \A r \in Requests : RowOK(r) /\ ChargeOK(r)
  /\ \A e \in Event : HookOK(e)
  /\ \A f \in Refunds : RefundOK(f)
  /\ \A a \in Admins : AdminOK(a)
  /\ SucceededIsCaptured /\ PaidIsFunded /\ RefundsCovered

\* Behind PaidInFull: with the mock provider no event reports a success, so an
\* invoice is paid by a handler that has counted, and released by one that has
\* read it paid; what either saw is still so when it writes.
CountInv ==
  /\ \A r \in Requests :
       /\ pc[r] \in {"idle", "checked", "insert", "invoiced", "written", "charged", "count"}
            => counted[r] = NoCount
       /\ pc[r] = "counted" => counted[r] # NoCount
  /\ \A r \in Requests : pc[r] = "mark_paid" => held[r] \in FullInvoices
  /\ \A a \in Admins : admin[a].pc # "idle" => admin[a].of \in FullInvoices
  /\ \A i \in Requests : invoice[i] \in {"paid", "released"} => i \in FullInvoices
  /\ \A r \in Requests : intent[r] # "processing" /\ <<r, "succeeded">> \notin sent

\* Behind KeepsLedger: a handler inserts rows that are not there yet.
FreshRows ==
  \A r \in Requests :
    /\ pc[r] \in {"idle", "checked", "insert"} => invoice[r] = "none"
    /\ payment[r] = "none" => invoiceOf[r] = NoInvoice

----------------------------------------------------------------------------
(* What the repository says of this program and the program does not do *)

\* try_claim_stripe_webhook_event "returns False if the event was already
\* processed": once no handler is at work on a money event that was answered
\* 2xx, its invoice is settled.
AckedIsProcessed ==
  \A p \in Requests :
    LET e == <<p, "succeeded">>
    IN  e \in acked /\ hook[e] = "idle" => invoice[invoiceOf[p]] # "pending"

\* "Payment not yet captured - mark as cancelled" (request_refund): when a refund is
\* answered by cancelling, no money has been taken that it should have given back.
CancelledIsUncaptured ==
  [][\A f \in Refunds :
       refund[f].pc = "read" /\ refund'[f].result = "cancelled" => ~Captured(refund[f].of)]_vars

============================================================================
