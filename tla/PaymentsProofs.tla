--------------------------- MODULE PaymentsProofs ---------------------------
(***************************************************************************)
(* Proofs about Payments, for any number of participants, requests,        *)
(* refunds and admins, either provider and either payment type: type       *)
(* correctness, that money moves only where the records say it does, and   *)
(* that all handlers together implement the ledger of Escrow.              *)
(***************************************************************************)
EXTENDS Payments, FiniteSetTheorems, TLAPS

\* The records of the refund and release handlers keep their types.
LEMMA RecordStep ==
  TypeOK /\ [Next]_vars =>
    refund' \in [Refunds -> RefundRecord] /\ admin' \in [Admins -> AdminRecord]
<1> SUFFICES ASSUME TypeOK, [Next]_vars
             PROVE  /\ refund' \in [Refunds -> RefundRecord]
                    /\ admin' \in [Admins -> AdminRecord]
  OBVIOUS
<1>1. /\ refund \in [Refunds -> RefundRecord] /\ admin \in [Admins -> AdminRecord]
      /\ payment \in [Requests -> PaymentStatus]
  BY DEF TypeOK
<1>2. ASSUME NEW f \in Refunds, NEW p \in Requests, RefundRead(f, p)
      PROVE  refund' \in [Refunds -> RefundRecord] /\ UNCHANGED admin
  <2>1. [pc |-> "read", of |-> p, seen |-> payment[p], result |-> "none"]
          \in RefundRecord
    BY <1>1 DEF RefundRecord, RefundPC, PaymentStatus
  <2> QED
    BY <1>1, <1>2, <2>1 DEF RefundRead
<1>3. ASSUME NEW f \in Refunds, NEW amount \in 1..Amount, RefundCall(f, amount)
      PROVE  refund' \in [Refunds -> RefundRecord] /\ UNCHANGED admin
  <2>1. PICK s \in PaymentStatus :
          refund' = [refund EXCEPT ![f].pc = "called", ![f].result = s]
    BY <1>3 DEF RefundCall, PaymentStatus
  <2>2. refund' \in [Refunds -> RefundRecord]
    BY <1>1, <2>1 DEF RefundRecord, RefundPC
  <2> QED
    BY <1>3, <2>2 DEF RefundCall
<1>4. ASSUME NEW f \in Refunds, RefundRefused(f)
      PROVE  refund' \in [Refunds -> RefundRecord] /\ UNCHANGED admin
  BY <1>1, <1>4 DEF RefundRefused, RefundRecord, RefundPC, Fault
<1>5. ASSUME NEW f \in Refunds, RefundCancel(f)
      PROVE  refund' \in [Refunds -> RefundRecord] /\ UNCHANGED admin
  <2>1. "cancelled" \in PaymentStatus
    BY DEF PaymentStatus
  <2> QED
    BY <1>1, <1>5, <2>1 DEF RefundCancel, RefundRecord, RefundPC
<1>6. ASSUME NEW f \in Refunds, RefundPayment(f)
      PROVE  refund' \in [Refunds -> RefundRecord] /\ UNCHANGED admin
  BY <1>1, <1>6 DEF RefundPayment, RefundRecord, RefundPC
<1>7. ASSUME NEW f \in Refunds, RefundInvoice(f)
      PROVE  refund' \in [Refunds -> RefundRecord] /\ UNCHANGED admin
  BY <1>1, <1>7 DEF RefundInvoice, RefundRecord, RefundPC
<1>8. ASSUME NEW f \in Refunds, RefundDies(f)
      PROVE  refund' \in [Refunds -> RefundRecord] /\ UNCHANGED admin
  BY <1>1, <1>8 DEF RefundDies, RefundRecord, RefundPC, Fault
<1>9. ASSUME NEW a \in Admins, AdminRead(a)
      PROVE  admin' \in [Admins -> AdminRecord] /\ UNCHANGED refund
  BY <1>1, <1>9 DEF AdminRead, AdminRecord, AdminPC, Invoices
<1>10. ASSUME NEW a \in Admins, AdminCheckOffer(a)
      PROVE  admin' \in [Admins -> AdminRecord] /\ UNCHANGED refund
  BY <1>1, <1>10 DEF AdminCheckOffer, AdminRecord, AdminPC
<1>11. ASSUME NEW a \in Admins, AdminRelease(a)
      PROVE  admin' \in [Admins -> AdminRecord] /\ UNCHANGED refund
  BY <1>1, <1>11 DEF AdminRelease, AdminRecord, AdminPC
<1>12. ASSUME NEW a \in Admins, AdminCompleteOffer(a)
      PROVE  admin' \in [Admins -> AdminRecord] /\ UNCHANGED refund
  BY <1>1, <1>12 DEF AdminCompleteOffer, AdminRecord, AdminPC
<1>13. ASSUME NEW a \in Admins, AdminDies(a)
      PROVE  admin' \in [Admins -> AdminRecord] /\ UNCHANGED refund
  BY <1>1, <1>13 DEF AdminDies, AdminRecord, AdminPC, Fault
<1>14. CASE UNCHANGED <<refund, admin>>
  BY <1>1, <1>14
<1> QED
  BY <1>1, <1>2, <1>3, <1>4, <1>5, <1>6, <1>7, <1>8, <1>9, <1>10, <1>11,
     <1>12, <1>13, <1>14
    DEF Next, InitiateStep, HookStep, RefundStep, AdminStep, vars,
        InitiateCheck, InitiateRecheck, InsertInvoice, InsertPayment,
        Charge, ChargeFails, RecordCharge, CountParticipants, CountSucceeded, MarkPaid,
        InitiateDies, Confirm, Capture, Decline, CancelIntent,
        ApproveWork, Claim, Duplicate, ClaimFails, HookIgnore,
        HookPayment, HookInvoice, HookDies, OfferMoves

\* One step of a handler, of Stripe or of a customer keeps the types.
LEMMA TypeStep == TypeOK /\ [Next]_vars => TypeOK'
<1> SUFFICES ASSUME TypeOK, [Next]_vars PROVE TypeOK'
  OBVIOUS
<1>0. refund' \in [Refunds -> RefundRecord] /\ admin' \in [Admins -> AdminRecord]
  BY RecordStep
<1> USE <1>0, UsersAssumption, AmountAssumption, FaultsAssumption
    DEF TypeOK, InvoiceStatus, PaymentStatus, Outcomes, IntentStatus,
        OfferStatus, InitiatePC, Event, EventTypes, IntentEvents,
        tables, initiates, stripe, hooks
<1>1. ASSUME NEW r \in Requests, InitiateCheck(r) PROVE TypeOK'
  BY <1>1 DEF InitiateCheck, InvoiceLookup, Invoices
<1>2. ASSUME NEW r \in Requests, InitiateRecheck(r) PROVE TypeOK'
  BY <1>2 DEF InitiateRecheck
<1>3. ASSUME NEW r \in Requests, InsertInvoice(r) PROVE TypeOK'
  <2> HIDE DEF InvoiceStatus, InitiatePC
  <2>1. /\ invoice \in [Requests -> InvoiceStatus]
        /\ held \in [Requests -> Requests \cup {NoInvoice}]
        /\ pc \in [Requests -> InitiatePC]
    OBVIOUS
  <2>2. "pending" \in InvoiceStatus /\ {"invoiced", "error"} \subseteq InitiatePC
    BY DEF InvoiceStatus, InitiatePC
  <2>3. /\ invoice' \in [Requests -> InvoiceStatus]
        /\ held' \in [Requests -> Requests \cup {NoInvoice}]
        /\ pc' \in [Requests -> InitiatePC]
    <3> HIDE DEF TypeOK
    <3> QED
      BY <1>3, <2>1, <2>2 DEF InsertInvoice
  <2> QED
    BY <1>3, <2>3 DEF InsertInvoice
<1>4. ASSUME NEW r \in Requests, InsertPayment(r) PROVE TypeOK'
  <2> HIDE DEF PaymentStatus, InitiatePC
  <2>1. /\ payment \in [Requests -> PaymentStatus]
        /\ invoiceOf \in [Requests -> Requests \cup {NoInvoice}]
        /\ held[r] \in Requests \cup {NoInvoice}
        /\ pc \in [Requests -> InitiatePC]
    OBVIOUS
  <2>2. "pending" \in PaymentStatus /\ {"written", "error"} \subseteq InitiatePC
    BY DEF PaymentStatus, InitiatePC
  <2>3. /\ payment' \in [Requests -> PaymentStatus]
        /\ invoiceOf' \in [Requests -> Requests \cup {NoInvoice}]
        /\ pc' \in [Requests -> InitiatePC]
    <3> HIDE DEF TypeOK
    <3> QED
      BY <1>4, <2>1, <2>2 DEF InsertPayment
  <2> QED
    BY <1>4, <2>3 DEF InsertPayment
<1>5. ASSUME NEW r \in Requests, Charge(r) PROVE TypeOK'
  BY <1>5 DEF Charge
<1>6. ASSUME NEW r \in Requests, ChargeFails(r) PROVE TypeOK'
  BY <1>6 DEF ChargeFails, Fault
<1>7. ASSUME NEW r \in Requests, RecordCharge(r) PROVE TypeOK'
  BY <1>7 DEF RecordCharge
<1>8. ASSUME NEW r \in Requests, CountSucceeded(r) PROVE TypeOK'
  BY <1>8 DEF CountSucceeded
<1>8a. ASSUME NEW r \in Requests, CountParticipants(r) PROVE TypeOK'
  BY <1>8a DEF CountParticipants
<1>9. ASSUME NEW r \in Requests, MarkPaid(r) PROVE TypeOK'
  BY <1>9 DEF MarkPaid
<1>10. ASSUME NEW r \in Requests, InitiateDies(r) PROVE TypeOK'
  BY <1>10 DEF InitiateDies, Fault
<1>11. ASSUME NEW r \in Requests, Confirm(r) PROVE TypeOK'
  BY <1>11 DEF Confirm, Emit
<1>12. ASSUME NEW r \in Requests, Capture(r) PROVE TypeOK'
  BY <1>12 DEF Capture, Emit
<1>13. ASSUME NEW r \in Requests, Decline(r) PROVE TypeOK'
  BY <1>13 DEF Decline, Emit
<1>14. ASSUME NEW r \in Requests, CancelIntent(r) PROVE TypeOK'
  BY <1>14 DEF CancelIntent, Emit
<1>15. ASSUME NEW r \in Requests, ApproveWork(r) PROVE TypeOK'
  BY <1>15 DEF ApproveWork
<1>16. ASSUME NEW e \in Event, Claim(e) PROVE TypeOK'
  BY <1>16 DEF Claim
<1>17. ASSUME NEW e \in Event, Duplicate(e) PROVE TypeOK'
  BY <1>17 DEF Duplicate
<1>18. ASSUME NEW e \in Event, ClaimFails(e) PROVE TypeOK'
  BY <1>18 DEF ClaimFails, Fault
<1>19. ASSUME NEW e \in Event, HookIgnore(e) PROVE TypeOK'
  BY <1>19 DEF HookIgnore
<1>20. ASSUME NEW e \in Event, HookPayment(e) PROVE TypeOK'
  BY <1>20 DEF HookPayment, StatusMap
<1>21. ASSUME NEW e \in Event, HookInvoice(e) PROVE TypeOK'
  <2> HIDE DEF Event, InvoiceStatus
  <2>1. /\ invoice \in [Requests -> InvoiceStatus] /\ acked \subseteq Event
        /\ hook \in [Event -> {"idle", "claimed", "half"}]
    OBVIOUS
  <2>2. "paid" \in InvoiceStatus /\ "refunded" \in InvoiceStatus
    BY DEF InvoiceStatus
  <2>3. invoice' \in [Requests -> InvoiceStatus]
    <3> HIDE DEF TypeOK
    <3> QED
      BY <1>21, <2>1, <2>2 DEF HookInvoice
  <2>4. /\ acked' \subseteq Event
        /\ hook' \in [Event -> {"idle", "claimed", "half"}]
    <3> HIDE DEF TypeOK
    <3> QED
      BY <1>21, <2>1 DEF HookInvoice
  <2> QED
    BY <1>21, <2>3, <2>4 DEF HookInvoice
<1>22. ASSUME NEW e \in Event, HookDies(e) PROVE TypeOK'
  BY <1>22 DEF HookDies, Fault
<1>23. ASSUME NEW f \in Refunds, NEW p \in Requests, RefundRead(f, p)
      PROVE  TypeOK'
  <2>1. \A g \in Refunds : refund'[g].pc # "idle" => refund'[g].of \in Requests
    BY <1>23 DEF RefundRead, RefundRecord
  <2> QED
    BY <1>23, <2>1 DEF RefundRead
<1>24. ASSUME NEW f \in Refunds, NEW amount \in 1..Amount, RefundCall(f, amount)
      PROVE  TypeOK'
  <2>1. \A g \in Refunds : refund'[g].pc # "idle" => refund'[g].of \in Requests
    BY <1>24 DEF RefundCall, RefundRecord
  <2>2. refund[f].of \in Requests
    BY <1>24 DEF RefundCall
  <2>3. refunded' \in [Requests -> Nat]
    BY <1>24, <2>2 DEF RefundCall
  <2>4. sent' \subseteq Event
    BY <1>24, <2>2 DEF RefundCall
  <2> QED
    BY <1>24, <2>1, <2>3, <2>4 DEF RefundCall
<1>25. ASSUME NEW f \in Refunds, RefundRefused(f)
      PROVE  TypeOK'
  <2>1. \A g \in Refunds : refund'[g].pc # "idle" => refund'[g].of \in Requests
    BY <1>25 DEF RefundRefused, Fault, RefundRecord
  <2> QED
    BY <1>25, <2>1 DEF RefundRefused, Fault
<1>26. ASSUME NEW f \in Refunds, RefundCancel(f)
      PROVE  TypeOK'
  <2>1. \A g \in Refunds : refund'[g].pc # "idle" => refund'[g].of \in Requests
    BY <1>26 DEF RefundCancel, RefundRecord
  <2> QED
    BY <1>26, <2>1 DEF RefundCancel
<1>27. ASSUME NEW f \in Refunds, RefundPayment(f)
      PROVE  TypeOK'
  <2>1. \A g \in Refunds : refund'[g].pc # "idle" => refund'[g].of \in Requests
    BY <1>27 DEF RefundPayment, RefundRecord
  <2> QED
    BY <1>27, <2>1 DEF RefundPayment, RefundRecord
<1>28. ASSUME NEW f \in Refunds, RefundInvoice(f)
      PROVE  TypeOK'
  <2>1. \A g \in Refunds : refund'[g].pc # "idle" => refund'[g].of \in Requests
    BY <1>28 DEF RefundInvoice, RefundRecord
  <2> QED
    BY <1>28, <2>1 DEF RefundInvoice
<1>29. ASSUME NEW f \in Refunds, RefundDies(f)
      PROVE  TypeOK'
  <2>1. \A g \in Refunds : refund'[g].pc # "idle" => refund'[g].of \in Requests
    BY <1>29 DEF RefundDies, Fault, RefundRecord
  <2> QED
    BY <1>29, <2>1 DEF RefundDies, Fault
<1>30. ASSUME NEW a \in Admins, AdminRead(a) PROVE TypeOK'
  BY <1>30 DEF AdminRead, Invoices
<1>31. ASSUME NEW a \in Admins, AdminCheckOffer(a) PROVE TypeOK'
  BY <1>31 DEF AdminCheckOffer
<1>32. ASSUME NEW a \in Admins, AdminRelease(a) PROVE TypeOK'
  BY <1>32 DEF AdminRelease
<1>33. ASSUME NEW a \in Admins, AdminCompleteOffer(a) PROVE TypeOK'
  BY <1>33 DEF AdminCompleteOffer
<1>34. ASSUME NEW a \in Admins, AdminDies(a) PROVE TypeOK'
  BY <1>34 DEF AdminDies, Fault
<1>35. ASSUME OfferMoves PROVE TypeOK'
  BY <1>35 DEF OfferMoves
<1>36. CASE UNCHANGED vars
  BY <1>36 DEF vars
<1> QED
  BY <1>1, <1>2, <1>3, <1>4, <1>5, <1>6, <1>7, <1>8, <1>8a, <1>9, <1>10, <1>11,
     <1>12, <1>13, <1>14, <1>15, <1>16, <1>17, <1>18, <1>19, <1>20, <1>21,
     <1>22, <1>23, <1>24, <1>25, <1>26, <1>27, <1>28, <1>29, <1>30, <1>31,
     <1>32, <1>33, <1>34, <1>35, <1>36
    DEF Next, InitiateStep, HookStep, RefundStep, AdminStep

\* Every variable of the payment flow keeps its type, whatever the handlers do,
\* in whatever order Stripe delivers and wherever a handler dies: in particular a
\* payment's status is always one the handlers know (StatusMap, RefundCall).
THEOREM TypeCorrect == Spec => []TypeOK
<1>1. Init => TypeOK
  <2> SUFFICES ASSUME Init PROVE TypeOK
    OBVIOUS
  <2>1. refund \in [Refunds -> RefundRecord] /\ admin \in [Admins -> AdminRecord]
    BY DEF Init, RefundRecord, AdminRecord, RefundPC, AdminPC, PaymentStatus
  <2>2. /\ acked \subseteq Event /\ claimed \subseteq Event /\ sent \subseteq Event
        /\ hook \in [Event -> {"idle", "claimed", "half"}]
    BY DEF Init
  <2> QED
    BY <2>1, <2>2, FaultsAssumption
    DEF Init, TypeOK, InvoiceStatus, PaymentStatus, Outcomes, IntentStatus,
        OfferStatus, InitiatePC
<1> QED
  BY <1>1, TypeStep, PTL DEF Spec

\* Money that has been taken stays taken: Charge opens a PaymentIntent only
\* where there was none, and nothing moves on one that succeeded.
LEMMA CapturedStays ==
  ASSUME TypeOK, SettlementInv, [Next]_vars, NEW p \in Requests, Captured(p)
  PROVE  Captured(p)'
<1>0. /\ intent \in [Requests -> IntentStatus]
      /\ \A r \in Requests : pc[r] = "written" => intent[r] = "none"
  BY DEF TypeOK, SettlementInv, RowOK
<1> USE <1>0
    DEF tables, initiates, stripe, hooks, Captured
<1>1. ASSUME NEW r \in Requests, Charge(r) PROVE Captured(p)'
  BY <1>1 DEF Charge
<1>2. ASSUME NEW r \in Requests, ChargeFails(r) PROVE Captured(p)'
  BY <1>2 DEF ChargeFails, Fault
<1>3. ASSUME NEW r \in Requests, Confirm(r) PROVE Captured(p)'
  BY <1>3 DEF Confirm, Emit
<1>4. ASSUME NEW r \in Requests, Capture(r) PROVE Captured(p)'
  BY <1>4 DEF Capture, Emit
<1>5. ASSUME NEW r \in Requests, Decline(r) PROVE Captured(p)'
  BY <1>5 DEF Decline, Emit
<1>6. ASSUME NEW r \in Requests, CancelIntent(r) PROVE Captured(p)'
  BY <1>6 DEF CancelIntent, Emit
<1>7. CASE UNCHANGED intent
  BY <1>7
<1> QED
  BY <1>1, <1>2, <1>3, <1>4, <1>5, <1>6, <1>7
    DEF Next, InitiateStep, HookStep, RefundStep, AdminStep, vars,
        InitiateCheck, InitiateRecheck, InsertInvoice, InsertPayment,
        RecordCharge, CountParticipants, CountSucceeded, MarkPaid, InitiateDies, ApproveWork,
        Claim, Duplicate, ClaimFails, HookIgnore, HookPayment,
        HookInvoice, HookDies, RefundRead, RefundCall, RefundRefused,
        RefundCancel, RefundPayment, RefundInvoice, RefundDies, AdminRead,
        AdminCheckOffer, AdminRelease, AdminCompleteOffer, AdminDies,
        OfferMoves, Fault

\* No row of the invoices goes away.
LEMMA InvoicesStay ==
  ASSUME TypeOK, SettlementInv, [Next]_vars, NEW i \in Invoices
  PROVE  (i \in Invoices)'
<1>0. /\ invoice \in [Requests -> InvoiceStatus]
  BY DEF TypeOK, SettlementInv
<1> USE <1>0
    DEF tables, initiates, stripe, hooks, Invoices
<1>1. ASSUME NEW r \in Requests, InsertInvoice(r) PROVE (i \in Invoices)'
  BY <1>1 DEF InsertInvoice
<1>2. ASSUME NEW r \in Requests, MarkPaid(r) PROVE (i \in Invoices)'
  BY <1>2 DEF MarkPaid
<1>3. ASSUME NEW e \in Event, HookInvoice(e) PROVE (i \in Invoices)'
  BY <1>3 DEF HookInvoice
<1>4. ASSUME NEW f \in Refunds, RefundInvoice(f) PROVE (i \in Invoices)'
  BY <1>4 DEF RefundInvoice
<1>5. ASSUME NEW a \in Admins, AdminRelease(a) PROVE (i \in Invoices)'
  BY <1>5 DEF AdminRelease
<1>6. CASE UNCHANGED invoice
  BY <1>6
<1> QED
  BY <1>1, <1>2, <1>3, <1>4, <1>5, <1>6
    DEF Next, InitiateStep, HookStep, RefundStep, AdminStep, vars,
        InitiateCheck, InitiateRecheck, InsertPayment, Charge,
        ChargeFails, RecordCharge, CountParticipants, CountSucceeded, InitiateDies, Confirm,
        Capture, Decline, CancelIntent, ApproveWork, Claim, Duplicate,
        ClaimFails, HookIgnore, HookPayment, HookDies, RefundRead,
        RefundCall, RefundRefused, RefundCancel, RefundPayment,
        RefundDies, AdminRead, AdminCheckOffer, AdminCompleteOffer,
        AdminDies, OfferMoves, Fault, Emit

\* A payment whose money has been taken stays on its invoice: invoice_id is
\* written when the row is inserted, which precedes the charge.
LEMMA InvoiceOfStays ==
  ASSUME TypeOK, SettlementInv, [Next]_vars, NEW p \in Requests, Captured(p)
  PROVE  invoiceOf'[p] = invoiceOf[p]
<1>1. pc[p] # "invoiced"
  BY DEF SettlementInv, RowOK, Captured
<1>2. invoiceOf' = invoiceOf \/ \E r \in Requests : InsertPayment(r)
  BY DEF Next, InitiateStep, HookStep, RefundStep, AdminStep, vars, tables,
        initiates, stripe, hooks, Fault, Emit, InitiateCheck,
        InitiateRecheck, InsertInvoice, Charge, ChargeFails, RecordCharge,
        CountParticipants, CountSucceeded, MarkPaid, InitiateDies, Confirm, Capture, Decline,
        CancelIntent, ApproveWork, Claim, Duplicate, ClaimFails,
        HookIgnore, HookPayment, HookInvoice, HookDies, RefundRead,
        RefundCall, RefundRefused, RefundCancel, RefundPayment,
        RefundInvoice, RefundDies, AdminRead, AdminCheckOffer,
        AdminRelease, AdminCompleteOffer, AdminDies, OfferMoves
<1> QED
  BY <1>1, <1>2 DEF InsertPayment, TypeOK

\* An invoice once funded stays funded.
LEMMA FundedStays ==
  ASSUME TypeOK, SettlementInv, [Next]_vars, NEW i \in Requests, Funded(i)
  PROVE  Funded(i)'
<1>1. PICK p \in Requests : invoiceOf[p] = i /\ Captured(p)
  BY DEF Funded
<1>2. Captured(p)' /\ invoiceOf'[p] = i
  BY <1>1, CapturedStays, InvoiceOfStays
<1> QED
  BY <1>2 DEF Funded

\* The rows of a request exist in the order in which its handler writes them.
LEMMA RowPreserved ==
  ASSUME TypeOK, SettlementInv, [Next]_vars, NEW q \in Requests
  PROVE  RowOK(q)'
<1>0. /\ payment \in [Requests -> PaymentStatus]
      /\ invoiceOf \in [Requests -> Requests \cup {NoInvoice}]
      /\ hasTxn \in [Requests -> BOOLEAN]
      /\ pc \in [Requests -> InitiatePC]
      /\ held \in [Requests -> Requests \cup {NoInvoice}]
      /\ intent \in [Requests -> IntentStatus]
      /\ RowOK(q)
  BY DEF TypeOK, SettlementInv
<1>1. \A i \in Invoices : (i \in Invoices)'
  BY InvoicesStay
<1> USE <1>0, <1>1, NoInvoiceAssumption
    DEF tables, initiates, stripe, hooks, RowOK
<1>2. ASSUME NEW r \in Requests, InitiateCheck(r) PROVE RowOK(q)'
  BY <1>2 DEF InitiateCheck, InvoiceLookup, Invoices
<1>3. ASSUME NEW r \in Requests, InitiateRecheck(r) PROVE RowOK(q)'
  BY <1>3 DEF InitiateRecheck
<1>4. ASSUME NEW r \in Requests, InsertInvoice(r) PROVE RowOK(q)'
  BY <1>4 DEF InsertInvoice, Invoices, InvoiceStatus, TypeOK
<1>5. ASSUME NEW r \in Requests, InsertPayment(r) PROVE RowOK(q)'
  BY <1>5 DEF InsertPayment
<1>6. ASSUME NEW r \in Requests, Charge(r) PROVE RowOK(q)'
  BY <1>6 DEF Charge
<1>7. ASSUME NEW r \in Requests, ChargeFails(r) PROVE RowOK(q)'
  BY <1>7 DEF ChargeFails, Fault
<1>8. ASSUME NEW r \in Requests, RecordCharge(r) PROVE RowOK(q)'
  <2>1. outcome[r] # "none"
    BY <1>8 DEF RecordCharge, SettlementInv, ChargeOK
  <2> QED
    BY <1>8, <2>1 DEF RecordCharge
<1>9. ASSUME NEW r \in Requests, CountSucceeded(r) PROVE RowOK(q)'
  BY <1>9 DEF CountSucceeded
<1>9a. ASSUME NEW r \in Requests, CountParticipants(r) PROVE RowOK(q)'
  BY <1>9a DEF CountParticipants
<1>10. ASSUME NEW r \in Requests, MarkPaid(r) PROVE RowOK(q)'
  BY <1>10 DEF MarkPaid
<1>11. ASSUME NEW r \in Requests, InitiateDies(r) PROVE RowOK(q)'
  BY <1>11 DEF InitiateDies, Fault
<1>12. ASSUME NEW r \in Requests, Confirm(r) PROVE RowOK(q)'
  BY <1>12 DEF Confirm, Emit
<1>13. ASSUME NEW r \in Requests, Capture(r) PROVE RowOK(q)'
  BY <1>13 DEF Capture, Emit
<1>14. ASSUME NEW r \in Requests, Decline(r) PROVE RowOK(q)'
  BY <1>14 DEF Decline, Emit
<1>15. ASSUME NEW r \in Requests, CancelIntent(r) PROVE RowOK(q)'
  BY <1>15 DEF CancelIntent, Emit
<1>16. ASSUME NEW r \in Requests, ApproveWork(r) PROVE RowOK(q)'
  BY <1>16 DEF ApproveWork
<1>17. ASSUME NEW e \in Event, HookPayment(e) PROVE RowOK(q)'
  <2>1. payment[e[1]] # "none" /\ StatusMap[e[2]] # "none"
    BY <1>17 DEF HookPayment, SettlementInv, RowOK, Finds, StatusMap, EventTypes,
             IntentEvents, Event
  <2> QED
    BY <1>17, <2>1 DEF HookPayment
<1>18. ASSUME NEW f \in Refunds, RefundPayment(f) PROVE RowOK(q)'
  <2>1. /\ payment[refund[f].of] # "none" /\ refund[f].result # "none"
        /\ refund[f].of \in Requests
    BY <1>18 DEF RefundPayment, SettlementInv, RefundOK, TypeOK
  <2> QED
    BY <1>18, <2>1 DEF RefundPayment
<1>19. CASE UNCHANGED <<payment, invoiceOf, hasTxn, pc, held, intent>>
  BY <1>19
<1> QED
  BY <1>2, <1>3, <1>4, <1>5, <1>6, <1>7, <1>8, <1>9, <1>9a, <1>10, <1>11, <1>12,
     <1>13, <1>14, <1>15, <1>16, <1>17, <1>18, <1>19
    DEF Next, InitiateStep, HookStep, RefundStep, AdminStep, vars, Claim,
        Duplicate, ClaimFails, HookIgnore, HookInvoice, HookDies,
        RefundRead, RefundCall, RefundRefused, RefundCancel,
        RefundInvoice, RefundDies, AdminRead, AdminCheckOffer,
        AdminRelease, AdminCompleteOffer, AdminDies, OfferMoves, Fault

\* What a handler knows of its charge is what the provider has done, and a
\* Stripe intent moves on only after the handler has recorded it.
LEMMA ChargePreserved ==
  ASSUME TypeOK, SettlementInv, [Next]_vars, NEW q \in Requests
  PROVE  ChargeOK(q)'
<1>0. /\ hasTxn \in [Requests -> BOOLEAN]
      /\ pc \in [Requests -> InitiatePC]
      /\ outcome \in [Requests -> Outcomes]
      /\ intent \in [Requests -> IntentStatus]
      /\ RowOK(q) /\ ChargeOK(q)
  BY DEF TypeOK, SettlementInv
<1>1. \A p \in Requests : Captured(p) => Captured(p)'
  BY CapturedStays
<1> USE <1>0, <1>1, ProviderAssumption
    DEF tables, initiates, stripe, hooks, RowOK, ChargeOK
<1>2. ASSUME NEW r \in Requests, InitiateCheck(r) PROVE ChargeOK(q)'
  BY <1>2 DEF InitiateCheck
<1>3. ASSUME NEW r \in Requests, InitiateRecheck(r) PROVE ChargeOK(q)'
  BY <1>3 DEF InitiateRecheck
<1>4. ASSUME NEW r \in Requests, InsertInvoice(r) PROVE ChargeOK(q)'
  BY <1>4 DEF InsertInvoice
<1>5. ASSUME NEW r \in Requests, InsertPayment(r) PROVE ChargeOK(q)'
  BY <1>5 DEF InsertPayment
<1>6. ASSUME NEW r \in Requests, Charge(r) PROVE ChargeOK(q)'
  BY <1>6 DEF Charge, Captured
<1>7. ASSUME NEW r \in Requests, ChargeFails(r) PROVE ChargeOK(q)'
  BY <1>7 DEF ChargeFails, Fault, Captured
<1>8. ASSUME NEW r \in Requests, RecordCharge(r) PROVE ChargeOK(q)'
  BY <1>8 DEF RecordCharge, Captured
<1>9. ASSUME NEW r \in Requests, CountSucceeded(r) PROVE ChargeOK(q)'
  BY <1>9 DEF CountSucceeded
<1>9a. ASSUME NEW r \in Requests, CountParticipants(r) PROVE ChargeOK(q)'
  BY <1>9a DEF CountParticipants
<1>10. ASSUME NEW r \in Requests, MarkPaid(r) PROVE ChargeOK(q)'
  BY <1>10 DEF MarkPaid
<1>11. ASSUME NEW r \in Requests, InitiateDies(r) PROVE ChargeOK(q)'
  BY <1>11 DEF InitiateDies, Fault
<1>12. ASSUME NEW r \in Requests, Confirm(r) PROVE ChargeOK(q)'
  BY <1>12 DEF Confirm, Emit, Captured
<1>13. ASSUME NEW r \in Requests, Capture(r) PROVE ChargeOK(q)'
  BY <1>13 DEF Capture, Emit, Captured
<1>14. ASSUME NEW r \in Requests, Decline(r) PROVE ChargeOK(q)'
  BY <1>14 DEF Decline, Emit, Captured
<1>15. ASSUME NEW r \in Requests, CancelIntent(r) PROVE ChargeOK(q)'
  BY <1>15 DEF CancelIntent, Emit, Captured
<1>16. ASSUME NEW f \in Refunds, NEW amount \in 1..Amount, RefundCall(f, amount)
      PROVE  ChargeOK(q)'
  BY <1>16 DEF RefundCall
<1>17. CASE UNCHANGED <<hasTxn, pc, outcome, intent, sent>>
  BY <1>17
<1> QED
  BY <1>2, <1>3, <1>4, <1>5, <1>6, <1>7, <1>8, <1>9, <1>9a, <1>10, <1>11, <1>12,
     <1>13, <1>14, <1>15, <1>16, <1>17
    DEF Next, InitiateStep, HookStep, RefundStep, AdminStep, vars,
        ApproveWork, Claim, Duplicate, ClaimFails, HookIgnore,
        HookPayment, HookInvoice, HookDies, RefundRead, RefundRefused,
        RefundCancel, RefundPayment, RefundInvoice, RefundDies, AdminRead,
        AdminCheckOffer, AdminRelease, AdminCompleteOffer, AdminDies,
        OfferMoves, Fault

\* A handler works on an event that was sent, about a payment it has found.
LEMMA HookPreserved ==
  ASSUME TypeOK, SettlementInv, [Next]_vars, NEW d \in Event
  PROVE  HookOK(d)'
<1>0. /\ hook \in [Event -> {"idle", "claimed", "half"}]
      /\ hasTxn \in [Requests -> BOOLEAN]
      /\ HookOK(d) /\ d[1] \in Requests
  BY DEF TypeOK, SettlementInv, Event
<1>1. \A r \in Requests : pc[r] = "charged" => ~hasTxn[r]
  BY DEF SettlementInv, RowOK
<1> USE <1>0, <1>1
    DEF tables, initiates, stripe, hooks, HookOK
<1>2. ASSUME NEW r \in Requests, RecordCharge(r) PROVE HookOK(d)'
  BY <1>2 DEF RecordCharge
<1>3. ASSUME NEW r \in Requests, Confirm(r) PROVE HookOK(d)'
  BY <1>3 DEF Confirm, Emit
<1>4. ASSUME NEW r \in Requests, Capture(r) PROVE HookOK(d)'
  BY <1>4 DEF Capture, Emit
<1>5. ASSUME NEW r \in Requests, Decline(r) PROVE HookOK(d)'
  BY <1>5 DEF Decline, Emit
<1>6. ASSUME NEW r \in Requests, CancelIntent(r) PROVE HookOK(d)'
  BY <1>6 DEF CancelIntent, Emit
<1>7. ASSUME NEW e \in Event, Claim(e) PROVE HookOK(d)'
  BY <1>7 DEF Claim
<1>8. ASSUME NEW e \in Event, HookIgnore(e) PROVE HookOK(d)'
  BY <1>8 DEF HookIgnore
<1>9. ASSUME NEW e \in Event, HookPayment(e) PROVE HookOK(d)'
  BY <1>9 DEF HookPayment, Finds
<1>10. ASSUME NEW e \in Event, HookInvoice(e) PROVE HookOK(d)'
  BY <1>10 DEF HookInvoice
<1>11. ASSUME NEW e \in Event, HookDies(e) PROVE HookOK(d)'
  BY <1>11 DEF HookDies, Fault
<1>12. ASSUME NEW f \in Refunds, NEW amount \in 1..Amount, RefundCall(f, amount)
      PROVE  HookOK(d)'
  BY <1>12 DEF RefundCall
<1>13. CASE UNCHANGED <<hasTxn, sent, hook>>
  BY <1>13
<1> QED
  BY <1>2, <1>3, <1>4, <1>5, <1>6, <1>7, <1>8, <1>9, <1>10, <1>11, <1>12,
     <1>13
    DEF Next, InitiateStep, HookStep, RefundStep, AdminStep, vars,
        InitiateCheck, InitiateRecheck, InsertInvoice, InsertPayment,
        Charge, ChargeFails, CountParticipants, CountSucceeded, MarkPaid, InitiateDies,
        ApproveWork, Duplicate, ClaimFails, RefundRead, RefundRefused,
        RefundCancel, RefundPayment, RefundInvoice, RefundDies, AdminRead,
        AdminCheckOffer, AdminRelease, AdminCompleteOffer, AdminDies,
        OfferMoves, Fault

\* A refund handler that saw success holds a captured payment.
LEMMA RefundPreserved ==
  ASSUME TypeOK, SettlementInv, [Next]_vars, NEW g \in Refunds
  PROVE  RefundOK(g)'
<1>0. /\ payment \in [Requests -> PaymentStatus]
      /\ refund \in [Refunds -> RefundRecord]
      /\ RefundOK(g) /\ (refund[g].pc # "idle" => refund[g].of \in Requests)
  BY DEF TypeOK, SettlementInv
<1>1. \A p \in Requests : Captured(p) => Captured(p)'
  BY CapturedStays
<1> USE <1>0, <1>1
    DEF tables, initiates, stripe, hooks, RefundOK, RefundRecord
<1>2. ASSUME NEW r \in Requests, InsertPayment(r) PROVE RefundOK(g)'
  BY <1>2 DEF InsertPayment
<1>3. ASSUME NEW r \in Requests, RecordCharge(r) PROVE RefundOK(g)'
  <2>1. outcome[r] # "none"
    BY <1>3 DEF RecordCharge, SettlementInv, ChargeOK
  <2> QED
    BY <1>3, <2>1 DEF RecordCharge
<1>4. ASSUME NEW r \in Requests, ApproveWork(r) PROVE RefundOK(g)'
  BY <1>4 DEF ApproveWork
<1>5. ASSUME NEW e \in Event, HookPayment(e) PROVE RefundOK(g)'
  <2>1. StatusMap[e[2]] # "none"
    BY <1>5 DEF HookPayment, Finds, StatusMap, EventTypes, IntentEvents
  <2> QED
    BY <1>5, <2>1 DEF HookPayment
<1>6. ASSUME NEW f \in Refunds, NEW p \in Requests, RefundRead(f, p)
      PROVE  RefundOK(g)'
  BY <1>6 DEF RefundRead, SettlementInv, SucceededIsCaptured
<1>7. ASSUME NEW f \in Refunds, NEW amount \in 1..Amount, RefundCall(f, amount)
      PROVE  RefundOK(g)'
  BY <1>7 DEF RefundCall
<1>8. ASSUME NEW f \in Refunds, RefundRefused(f) PROVE RefundOK(g)'
  BY <1>8 DEF RefundRefused, Fault
<1>9. ASSUME NEW f \in Refunds, RefundCancel(f) PROVE RefundOK(g)'
  BY <1>9 DEF RefundCancel
<1>10. ASSUME NEW f \in Refunds, RefundPayment(f) PROVE RefundOK(g)'
  <2>1. refund[f].result # "none"
    BY <1>10 DEF RefundPayment, SettlementInv
  <2>2. payment'[refund[g].of] # "none" \/ refund[g].pc = "idle"
    BY <1>10, <2>1 DEF RefundPayment
  <2> QED
    BY <1>10, <2>2 DEF RefundPayment
<1>11. ASSUME NEW f \in Refunds, RefundInvoice(f) PROVE RefundOK(g)'
  BY <1>11 DEF RefundInvoice
<1>12. ASSUME NEW f \in Refunds, RefundDies(f) PROVE RefundOK(g)'
  BY <1>12 DEF RefundDies, Fault
<1>13. CASE UNCHANGED <<payment, refund>>
  BY <1>13
<1> QED
  BY <1>2, <1>3, <1>4, <1>5, <1>6, <1>7, <1>8, <1>9, <1>10, <1>11, <1>12,
     <1>13
    DEF Next, InitiateStep, HookStep, RefundStep, AdminStep, vars,
        InitiateCheck, InitiateRecheck, InsertInvoice, Charge,
        ChargeFails, CountParticipants, CountSucceeded, MarkPaid, InitiateDies, Confirm,
        Capture, Decline, CancelIntent, Claim, Duplicate, ClaimFails,
        HookIgnore, HookInvoice, HookDies, AdminRead, AdminCheckOffer,
        AdminRelease, AdminCompleteOffer, AdminDies, OfferMoves, Fault,
        Emit

\* A release handler past its check holds a funded invoice.
LEMMA AdminPreserved ==
  ASSUME TypeOK, SettlementInv, [Next]_vars, NEW b \in Admins
  PROVE  AdminOK(b)'
<1>0. /\ admin \in [Admins -> AdminRecord]
      /\ AdminOK(b)
  BY DEF TypeOK, SettlementInv
<1>1. \A i \in Requests : Funded(i) => Funded(i)'
  BY FundedStays
<1>2. \A i \in Invoices : (i \in Invoices)'
  BY InvoicesStay
<1>3. Invoices \subseteq Requests
  BY DEF Invoices
<1> USE <1>0, <1>1, <1>2, <1>3
    DEF tables, initiates, stripe, hooks, AdminOK, AdminRecord
<1>4. ASSUME NEW a \in Admins, AdminRead(a) PROVE AdminOK(b)'
  BY <1>4 DEF AdminRead, SettlementInv, PaidIsFunded
<1>5. ASSUME NEW a \in Admins, AdminCheckOffer(a) PROVE AdminOK(b)'
  BY <1>5 DEF AdminCheckOffer
<1>6. ASSUME NEW a \in Admins, AdminRelease(a) PROVE AdminOK(b)'
  BY <1>6 DEF AdminRelease
<1>7. ASSUME NEW a \in Admins, AdminCompleteOffer(a) PROVE AdminOK(b)'
  BY <1>7 DEF AdminCompleteOffer
<1>8. ASSUME NEW a \in Admins, AdminDies(a) PROVE AdminOK(b)'
  BY <1>8 DEF AdminDies, Fault
<1>9. CASE UNCHANGED admin
  BY <1>9
<1> QED
  BY <1>4, <1>5, <1>6, <1>7, <1>8, <1>9
    DEF Next, InitiateStep, HookStep, RefundStep, AdminStep, vars,
        InitiateCheck, InitiateRecheck, InsertInvoice, InsertPayment,
        Charge, ChargeFails, RecordCharge, CountParticipants, CountSucceeded, MarkPaid,
        InitiateDies, Confirm, Capture, Decline, CancelIntent,
        ApproveWork, Claim, Duplicate, ClaimFails, HookIgnore,
        HookPayment, HookInvoice, HookDies, RefundRead, RefundCall,
        RefundRefused, RefundCancel, RefundPayment, RefundInvoice,
        RefundDies, OfferMoves, Fault, Emit

\* A payment is recorded as succeeded only when its money was taken.
LEMMA SucceededPreserved ==
  ASSUME TypeOK, SettlementInv, [Next]_vars, NEW q \in Requests
  PROVE  payment'[q] = "succeeded" => Captured(q)'
<1>0. /\ payment \in [Requests -> PaymentStatus]
      /\ payment[q] = "succeeded" => Captured(q)
  BY DEF TypeOK, SettlementInv, SucceededIsCaptured
<1>1. \A p \in Requests : Captured(p) => Captured(p)'
  BY CapturedStays
<1> USE <1>0, <1>1
    DEF tables, initiates, stripe, hooks
<1>2. ASSUME NEW r \in Requests, InsertPayment(r)
      PROVE  payment'[q] = "succeeded" => Captured(q)'
  BY <1>2 DEF InsertPayment
<1>3. ASSUME NEW r \in Requests, RecordCharge(r)
      PROVE  payment'[q] = "succeeded" => Captured(q)'
  BY <1>3 DEF RecordCharge, SettlementInv, ChargeOK
<1>4. ASSUME NEW r \in Requests, ApproveWork(r)
      PROVE  payment'[q] = "succeeded" => Captured(q)'
  BY <1>4 DEF ApproveWork
<1>5. ASSUME NEW e \in Event, HookPayment(e)
      PROVE  payment'[q] = "succeeded" => Captured(q)'
  <2>1. StatusMap[e[2]] = "succeeded" => e = <<e[1], "succeeded">>
    BY DEF StatusMap, EventTypes, IntentEvents, Event
  <2>2. e \in sent /\ e[1] \in Requests
    BY <1>5 DEF HookPayment, SettlementInv, HookOK, Event
  <2>3. StatusMap[e[2]] = "succeeded" => Captured(e[1])
    BY <2>1, <2>2 DEF SettlementInv, ChargeOK
  <2> QED
    BY <1>5, <2>2, <2>3 DEF HookPayment
<1>6. ASSUME NEW f \in Refunds, RefundPayment(f)
      PROVE  payment'[q] = "succeeded" => Captured(q)'
  BY <1>6 DEF RefundPayment, SettlementInv, RefundOK
<1>7. CASE UNCHANGED payment
  BY <1>7
<1> QED
  BY <1>2, <1>3, <1>4, <1>5, <1>6, <1>7
    DEF Next, InitiateStep, HookStep, RefundStep, AdminStep, vars,
        InitiateCheck, InitiateRecheck, InsertInvoice, Charge,
        ChargeFails, CountParticipants, CountSucceeded, MarkPaid, InitiateDies, Confirm,
        Capture, Decline, CancelIntent, Claim, Duplicate, ClaimFails,
        HookIgnore, HookInvoice, HookDies, RefundRead, RefundCall,
        RefundRefused, RefundCancel, RefundInvoice, RefundDies, AdminRead,
        AdminCheckOffer, AdminRelease, AdminCompleteOffer, AdminDies,
        OfferMoves, Fault, Emit

\* An invoice becomes paid or released only when it is funded.
LEMMA PaidPreserved ==
  ASSUME TypeOK, SettlementInv, [Next]_vars, NEW i \in Requests
  PROVE  invoice'[i] \in {"paid", "released"} => Funded(i)'
<1>0. /\ invoice \in [Requests -> InvoiceStatus]
      /\ invoice[i] \in {"paid", "released"} => Funded(i)
  BY DEF TypeOK, SettlementInv, PaidIsFunded
<1>1. \A j \in Requests : Funded(j) => Funded(j)'
  BY FundedStays
<1> USE <1>0, <1>1
    DEF tables, initiates, stripe, hooks
<1>2. ASSUME NEW r \in Requests, InsertInvoice(r)
      PROVE  invoice'[i] \in {"paid", "released"} => Funded(i)'
  BY <1>2 DEF InsertInvoice
<1>3. ASSUME NEW r \in Requests, MarkPaid(r)
      PROVE  invoice'[i] \in {"paid", "released"} => Funded(i)'
  <2>1. Funded(held[r])
    BY <1>3 DEF MarkPaid, SettlementInv, RowOK, ChargeOK, Funded
  <2> QED
    BY <1>3, <2>1 DEF MarkPaid
<1>4. ASSUME NEW e \in Event, HookInvoice(e)
      PROVE  invoice'[i] \in {"paid", "released"} => Funded(i)'
  <2>1. StatusMap[e[2]] = "succeeded" => e = <<e[1], "succeeded">>
    BY DEF StatusMap, EventTypes, IntentEvents, Event
  <2>2. e \in sent /\ e[1] \in Requests
    BY <1>4 DEF HookInvoice, SettlementInv, HookOK, Event
  <2>3. StatusMap[e[2]] = "succeeded" => Funded(invoiceOf[e[1]])
    BY <2>1, <2>2 DEF SettlementInv, ChargeOK, Funded
  <2> QED
    BY <1>4, <2>3 DEF HookInvoice
<1>5. ASSUME NEW f \in Refunds, RefundInvoice(f)
      PROVE  invoice'[i] \in {"paid", "released"} => Funded(i)'
  BY <1>5 DEF RefundInvoice
<1>6. ASSUME NEW a \in Admins, AdminRelease(a)
      PROVE  invoice'[i] \in {"paid", "released"} => Funded(i)'
  BY <1>6 DEF AdminRelease, SettlementInv, AdminOK
<1>7. CASE UNCHANGED invoice
  BY <1>7
<1> QED
  BY <1>2, <1>3, <1>4, <1>5, <1>6, <1>7
    DEF Next, InitiateStep, HookStep, RefundStep, AdminStep, vars,
        InitiateCheck, InitiateRecheck, InsertPayment, Charge,
        ChargeFails, RecordCharge, CountParticipants, CountSucceeded, InitiateDies, Confirm,
        Capture, Decline, CancelIntent, ApproveWork, Claim, Duplicate,
        ClaimFails, HookIgnore, HookPayment, HookDies, RefundRead,
        RefundCall, RefundRefused, RefundCancel, RefundPayment,
        RefundDies, AdminRead, AdminCheckOffer, AdminCompleteOffer,
        AdminDies, OfferMoves, Fault, Emit

\* Money is given back only where it was taken.
LEMMA RefundsPreserved ==
  ASSUME TypeOK, SettlementInv, [Next]_vars, NEW q \in Requests
  PROVE  refunded'[q] > 0 => Captured(q)'
<1>0. /\ refunded \in [Requests -> Nat]
      /\ refunded[q] > 0 => Captured(q)
  BY DEF TypeOK, SettlementInv, RefundsCovered
<1>1. \A p \in Requests : Captured(p) => Captured(p)'
  BY CapturedStays
<1> USE <1>0, <1>1
    DEF tables, initiates, stripe, hooks
<1>2. ASSUME NEW f \in Refunds, NEW amount \in 1..Amount, RefundCall(f, amount)
      PROVE  refunded'[q] > 0 => Captured(q)'
  BY <1>2 DEF RefundCall, SettlementInv, RefundOK
<1>3. CASE UNCHANGED refunded
  BY <1>3
<1> QED
  BY <1>2, <1>3
    DEF Next, InitiateStep, HookStep, RefundStep, AdminStep, vars,
        InitiateCheck, InitiateRecheck, InsertInvoice, InsertPayment,
        Charge, ChargeFails, RecordCharge, CountParticipants, CountSucceeded, MarkPaid,
        InitiateDies, Confirm, Capture, Decline, CancelIntent,
        ApproveWork, Claim, Duplicate, ClaimFails, HookIgnore,
        HookPayment, HookInvoice, HookDies, RefundRead, RefundRefused,
        RefundCancel, RefundPayment, RefundInvoice, RefundDies, AdminRead,
        AdminCheckOffer, AdminRelease, AdminCompleteOffer, AdminDies,
        OfferMoves, Fault, Emit

\* Every step of Payments preserves the settlement invariant.
LEMMA SettlementStep ==
  ASSUME TypeOK, SettlementInv, [Next]_vars
  PROVE  SettlementInv'
<1>1. \A r \in Requests : RowOK(r)' /\ ChargeOK(r)'
  BY RowPreserved, ChargePreserved
<1>2. \A e \in Event : HookOK(e)'
  BY HookPreserved
<1>3. \A f \in Refunds : RefundOK(f)'
  BY RefundPreserved
<1>4. \A a \in Admins : AdminOK(a)'
  BY AdminPreserved
<1>5. SucceededIsCaptured'
  BY SucceededPreserved DEF SucceededIsCaptured
<1>6. PaidIsFunded'
  BY PaidPreserved DEF PaidIsFunded
<1>7. RefundsCovered'
  BY RefundsPreserved DEF RefundsCovered
<1>8. Event' = Event
  BY DEF Event
<1> QED
  BY <1>1, <1>2, <1>3, <1>4, <1>5, <1>6, <1>7, <1>8 DEF SettlementInv

\* The settlement invariant holds of every reachable state of the payment flow.
LEMMA Settlement == Spec => []SettlementInv
<1>1. Init => SettlementInv
  BY NoInvoiceAssumption
  DEF Init, SettlementInv, RowOK, ChargeOK, HookOK, RefundOK, AdminOK,
      SucceededIsCaptured, PaidIsFunded, RefundsCovered, Captured
<1>2. TypeOK /\ SettlementInv /\ [Next]_vars => SettlementInv'
  BY SettlementStep
<1> QED
  BY <1>1, <1>2, TypeCorrect, PTL DEF Spec

\* No money is charged without a payment row and the invoice it is on, wherever
\* the handler of initiate_payment dies (its two inserts precede create_charge).
THEOREM ChargeIsRecorded == Spec => []ChargeHasRecord
<1>1. TypeOK /\ SettlementInv => ChargeHasRecord
  BY DEF SettlementInv, RowOK, ChargeHasRecord
<1> QED
  BY <1>1, TypeCorrect, Settlement, PTL

\* The events of an intent that a customer has confirmed always find their
\* payment (get_payment_by_transaction), so none about money is ignored.
THEOREM ConfirmedAreFindable == Spec => []ConfirmedIsFindable
<1>1. SettlementInv => ConfirmedIsFindable
  BY DEF SettlementInv, ChargeOK, ConfirmedIsFindable
<1> QED
  BY <1>1, Settlement, PTL

\* A payment is recorded as succeeded only when its money was taken, in whatever
\* order webhooks and refunds write its status.
THEOREM SucceededMeansCaptured == Spec => []SucceededIsCaptured
<1>1. SettlementInv => SucceededIsCaptured
  BY DEF SettlementInv
<1> QED
  BY <1>1, Settlement, PTL

\* An invoice is paid, or released to the contractor, only when the money of one
\* of its payments was taken (stripe_webhook, release_escrow,
\* approve_contractor_payout), however the handlers interleave.
THEOREM PaidMeansFunded == Spec => []PaidIsFunded
<1>1. SettlementInv => PaidIsFunded
  BY DEF SettlementInv
<1> QED
  BY <1>1, Settlement, PTL

\* Money is given back only where it was taken (request_refund).
THEOREM RefundsAreCovered == Spec => []RefundsCovered
<1>1. SettlementInv => RefundsCovered
  BY DEF SettlementInv
<1> QED
  BY <1>1, Settlement, PTL

\* The rows never say more of money taken or given back than the provider's records
\* (stripe_webhook, request_refund).
THEOREM RecordsBacked == Spec => []RecordsAreBacked
BY SucceededMeansCaptured, RefundsAreCovered, PTL DEF RecordsAreBacked

\* A handler that has read the participants does not read them again, and one that
\* has got as far as counting has read them.
LEMMA CountedOnce ==
  ASSUME TypeOK, CountInv, [Next]_vars, NEW q \in Requests
  PROVE  /\ counted[q] # NoCount => counted'[q] = counted[q]
         /\ pc'[q] \in {"idle", "checked", "insert", "invoiced", "written", "charged", "count"}
              => counted'[q] = NoCount
         /\ pc'[q] = "counted" => counted'[q] # NoCount
<1> DEFINE Before == {"idle", "checked", "insert", "invoiced", "written", "charged", "count"}
<1> DEFINE Once == /\ counted[q] # NoCount => counted'[q] = counted[q]
                   /\ pc'[q] \in Before => counted'[q] = NoCount
                   /\ pc'[q] = "counted" => counted'[q] # NoCount
<1>0. /\ pc \in [Requests -> InitiatePC]
      /\ counted \in [Requests -> {NoCount} \cup 0 .. Cardinality(Users)]
      /\ pc[q] \in Before => counted[q] = NoCount
      /\ pc[q] = "counted" => counted[q] # NoCount
  BY DEF TypeOK, CountInv
<1> SUFFICES Once
  OBVIOUS
<1>1. ASSUME NEW r \in Requests, CountParticipants(r) PROVE Once
  <2>1. PICK n \in 0 .. Cardinality(Users) : counted' = [counted EXCEPT ![r] = n]
    BY <1>1 DEF CountParticipants
  <2>2. n # NoCount
    BY DEF NoCount
  <2>3. pc[r] = "count" /\ pc' = [pc EXCEPT ![r] = "counted"]
    BY <1>1 DEF CountParticipants
  <2> QED
    BY <1>0, <2>1, <2>2, <2>3
<1>2. ASSUME UNCHANGED counted, NEW r \in Requests,
             pc' = pc \/ \E s \in InitiatePC \ {"counted"} :
                          /\ pc' = [pc EXCEPT ![r] = s]
                          /\ pc[r] \in Before \/ s \notin Before
      PROVE  Once
  BY <1>0, <1>2
<1>3. ASSUME NEW r \in Requests, InitiateStep(r) \/ InitiateDies(r), ~CountParticipants(r)
      PROVE  Once
  BY <1>2, <1>3
    DEF InitiatePC, InitiateStep, InitiateCheck, InitiateRecheck, InsertInvoice, InsertPayment,
        Charge, ChargeFails, RecordCharge, CountSucceeded, MarkPaid, InitiateDies
<1>4. ASSUME UNCHANGED <<pc, counted>> PROVE Once
  BY <1>0, <1>4
<1> QED
  BY <1>1, <1>3, <1>4
    DEF Next, InitiateStep, HookStep, RefundStep, AdminStep, vars, initiates,
        Confirm, Capture, Decline, CancelIntent, ApproveWork, Claim,
        Duplicate, ClaimFails, HookIgnore, HookPayment, HookInvoice,
        HookDies, RefundRead, RefundCall, RefundRefused, RefundCancel,
        RefundPayment, RefundInvoice, RefundDies, AdminRead,
        AdminCheckOffer, AdminRelease, AdminCompleteOffer, AdminDies,
        OfferMoves

\* The captured payments on an invoice only grow, and what a payer has read of the
\* participants stays.
LEMMA PaidUpStays ==
  ASSUME TypeOK, SettlementInv, CountInv, [Next]_vars, NEW i, PaidUp(i)
  PROVE  PaidUp(i)'
<1>1. CapturedOn(i) \subseteq CapturedOn(i)'
  <2> SUFFICES ASSUME NEW p \in Requests, invoiceOf[p] = i, Captured(p)
               PROVE  invoiceOf'[p] = i /\ Captured(p)'
    BY DEF CapturedOn
  <2> QED
    BY CapturedStays, InvoiceOfStays
<1>2. CapturedOn(i)' \subseteq Requests /\ CapturedOn(i) \subseteq Requests
  BY DEF CapturedOn
<1>3. IsFiniteSet(CapturedOn(i)')
  BY <1>2, FiniteAssumption, FS_Subset
<1>4. /\ Cardinality(CapturedOn(i)) <= Cardinality(CapturedOn(i)')
      /\ IsFiniteSet(CapturedOn(i))
  BY <1>1, <1>3, FS_Subset
<1>5. Cardinality(CapturedOn(i)) \in Nat /\ Cardinality(CapturedOn(i)') \in Nat
  BY <1>3, <1>4, FS_CardinalityType
<1>6. PICK r \in CapturedOn(i) :
        counted[r] # NoCount /\ Cardinality(CapturedOn(i)) >= counted[r]
  BY DEF PaidUp
<1>7. r \in CapturedOn(i)' /\ counted'[r] = counted[r]
  BY <1>1, <1>2, <1>6, CountedOnce
<1>8. Cardinality(CapturedOn(i)') >= counted[r]
  <2>1. counted[r] \in Int
    BY <1>2, <1>6 DEF TypeOK, NoCount
  <2> QED
    BY <1>4, <1>5, <1>6, <2>1
<1> QED
  BY <1>6, <1>7, <1>8 DEF PaidUp

\* An invoice that is paid up stays so.
LEMMA FullStay ==
  ASSUME TypeOK, SettlementInv, CountInv, [Next]_vars
  PROVE  FullInvoices \subseteq FullInvoices'
<1> SUFFICES ASSUME NEW i \in Requests, PaidUp(i) PROVE PaidUp(i)'
  BY DEF FullInvoices
<1> QED
  BY PaidUpStays

\* What count_succeeded_payments_for_invoice counts are captured payments, and the
\* payment of the handler that counts is one, though nobody be left in the offer.
LEMMA CountIsPaidUp ==
  ASSUME TypeOK, SettlementInv, CountInv, NEW r \in Requests, pc[r] = "counted",
         counted[r] = 0 \/ Cardinality(SucceededOn(held[r])) >= counted[r]
  PROVE  held[r] \in FullInvoices
<1> DEFINE i == held[r]
<1>1. SucceededOn(i) \subseteq CapturedOn(i)
  BY DEF SucceededOn, CapturedOn, SettlementInv, SucceededIsCaptured
<1>2. CapturedOn(i) \subseteq Requests
  BY DEF CapturedOn
<1>3. IsFiniteSet(CapturedOn(i))
  BY <1>2, FiniteAssumption, FS_Subset
<1>4. /\ Cardinality(SucceededOn(i)) <= Cardinality(CapturedOn(i))
      /\ IsFiniteSet(SucceededOn(i))
  BY <1>1, <1>3, FS_Subset
<1>5. Cardinality(SucceededOn(i)) \in Nat /\ Cardinality(CapturedOn(i)) \in Nat
  BY <1>3, <1>4, FS_CardinalityType
<1>6. Cardinality(CapturedOn(i)) >= counted[r]
  <2>1. counted[r] \in Int
    BY DEF TypeOK, NoCount
  <2> QED
    BY <1>4, <1>5, <2>1
<1>7. i \in Requests /\ invoiceOf[r] = i /\ Captured(r)
  BY DEF SettlementInv, RowOK, ChargeOK
<1>8. r \in CapturedOn(i) /\ counted[r] # NoCount
  BY <1>7 DEF CapturedOn, CountInv
<1> QED
  BY <1>6, <1>7, <1>8 DEF PaidUp, FullInvoices

\* With the mock provider no intent is ever processing and no event reports a
\* success: nothing but the handler settles an invoice.
LEMMA NoSuccessEvent ==
  ASSUME TypeOK, SettlementInv, CountInv, [Next]_vars, Provider = "mock",
         NEW q \in Requests
  PROVE  intent'[q] # "processing" /\ <<q, "succeeded">> \notin sent'
<1>0. /\ intent \in [Requests -> IntentStatus]
      /\ \A r \in Requests : intent[r] # "processing"
      /\ <<q, "succeeded">> \notin sent
  BY DEF TypeOK, CountInv
<1> USE <1>0
    DEF tables, initiates, stripe, hooks
<1>1. ASSUME NEW r \in Requests, Charge(r)
      PROVE  intent'[q] # "processing" /\ <<q, "succeeded">> \notin sent'
  BY <1>1 DEF Charge
<1>2. ASSUME NEW r \in Requests, CancelIntent(r)
      PROVE  intent'[q] # "processing" /\ <<q, "succeeded">> \notin sent'
  BY <1>2 DEF CancelIntent, Emit
<1>3. ASSUME NEW f \in Refunds, NEW amount \in 1..Amount, RefundCall(f, amount)
      PROVE  intent'[q] # "processing" /\ <<q, "succeeded">> \notin sent'
  BY <1>3 DEF RefundCall
<1>4. CASE UNCHANGED <<intent, sent>>
  BY <1>4
<1> QED
  BY <1>1, <1>2, <1>3, <1>4
    DEF Next, InitiateStep, HookStep, RefundStep, AdminStep, vars,
        InitiateCheck, InitiateRecheck, InsertInvoice, InsertPayment,
        ChargeFails, RecordCharge, CountParticipants, CountSucceeded, MarkPaid, InitiateDies,
        Confirm, Capture, Decline, ApproveWork, Claim, Duplicate,
        ClaimFails, HookIgnore, HookPayment, HookInvoice, HookDies,
        RefundRead, RefundRefused, RefundCancel, RefundPayment,
        RefundInvoice, RefundDies, AdminRead, AdminCheckOffer,
        AdminRelease, AdminCompleteOffer, AdminDies, OfferMoves, Fault

\* A handler about to mark an invoice paid has counted (escrow), and its count
\* cannot go stale.
LEMMA CountPreserved ==
  ASSUME TypeOK, SettlementInv, CountInv, [Next]_vars,
         PaymentType = "escrow", NEW q \in Requests
  PROVE  pc'[q] = "mark_paid" => held'[q] \in FullInvoices'
<1>0. /\ pc \in [Requests -> InitiatePC]
      /\ held \in [Requests -> Requests \cup {NoInvoice}]
      /\ pc[q] = "mark_paid" => held[q] \in FullInvoices
  BY DEF TypeOK, CountInv
<1>1. FullInvoices \subseteq FullInvoices'
  BY FullStay
<1> USE <1>0, <1>1
    DEF tables, initiates, stripe, hooks
<1>2. ASSUME NEW r \in Requests, InitiateCheck(r)
      PROVE  pc'[q] = "mark_paid" => held'[q] \in FullInvoices'
  BY <1>2 DEF InitiateCheck
<1>3. ASSUME NEW r \in Requests, InitiateRecheck(r)
      PROVE  pc'[q] = "mark_paid" => held'[q] \in FullInvoices'
  BY <1>3 DEF InitiateRecheck
<1>4. ASSUME NEW r \in Requests, InsertInvoice(r)
      PROVE  pc'[q] = "mark_paid" => held'[q] \in FullInvoices'
  BY <1>4 DEF InsertInvoice
<1>5. ASSUME NEW r \in Requests, InsertPayment(r)
      PROVE  pc'[q] = "mark_paid" => held'[q] \in FullInvoices'
  BY <1>5 DEF InsertPayment
<1>6. ASSUME NEW r \in Requests, Charge(r)
      PROVE  pc'[q] = "mark_paid" => held'[q] \in FullInvoices'
  BY <1>6 DEF Charge
<1>7. ASSUME NEW r \in Requests, ChargeFails(r)
      PROVE  pc'[q] = "mark_paid" => held'[q] \in FullInvoices'
  BY <1>7 DEF ChargeFails
<1>8. ASSUME NEW r \in Requests, RecordCharge(r)
      PROVE  pc'[q] = "mark_paid" => held'[q] \in FullInvoices'
  BY <1>8 DEF RecordCharge
<1>9. ASSUME NEW r \in Requests, CountSucceeded(r)
      PROVE  pc'[q] = "mark_paid" => held'[q] \in FullInvoices'
  <2>1. counted[r] = 0 \/ Cardinality(SucceededOn(held[r])) >= counted[r]
          => held[r] \in FullInvoices
    BY <1>9, CountIsPaidUp DEF CountSucceeded
  <2> QED
    BY <1>9, <2>1 DEF CountSucceeded
<1>9a. ASSUME NEW r \in Requests, CountParticipants(r)
       PROVE  pc'[q] = "mark_paid" => held'[q] \in FullInvoices'
  BY <1>9a DEF CountParticipants
<1>10. ASSUME NEW r \in Requests, MarkPaid(r)
       PROVE  pc'[q] = "mark_paid" => held'[q] \in FullInvoices'
  BY <1>10 DEF MarkPaid
<1>11. ASSUME NEW r \in Requests, InitiateDies(r)
       PROVE  pc'[q] = "mark_paid" => held'[q] \in FullInvoices'
  BY <1>11 DEF InitiateDies
<1>12. CASE UNCHANGED <<pc, held>>
  BY <1>12
<1> QED
  BY <1>2, <1>3, <1>4, <1>5, <1>6, <1>7, <1>8, <1>9, <1>9a, <1>10, <1>11, <1>12
    DEF Next, InitiateStep, HookStep, RefundStep, AdminStep, vars,
        Confirm, Capture, Decline, CancelIntent, ApproveWork, Claim,
        Duplicate, ClaimFails, HookIgnore, HookPayment, HookInvoice,
        HookDies, RefundRead, RefundCall, RefundRefused, RefundCancel,
        RefundPayment, RefundInvoice, RefundDies, AdminRead,
        AdminCheckOffer, AdminRelease, AdminCompleteOffer, AdminDies,
        OfferMoves, Fault, Emit

\* A release handler past its check holds an invoice that was paid in full.
LEMMA ReleasePreserved ==
  ASSUME TypeOK, SettlementInv, CountInv, [Next]_vars, NEW b \in Admins
  PROVE  admin'[b].pc # "idle" => admin'[b].of \in FullInvoices'
<1>0. /\ admin \in [Admins -> AdminRecord]
      /\ admin[b].pc # "idle" => admin[b].of \in FullInvoices
      /\ \A i \in Invoices : invoice[i] = "paid" => i \in FullInvoices
  BY DEF TypeOK, CountInv, Invoices
<1>1. FullInvoices \subseteq FullInvoices'
  BY FullStay
<1>2. Invoices \subseteq Requests
  BY DEF Invoices
<1> USE <1>0, <1>1, <1>2
    DEF tables, initiates, stripe, hooks, AdminRecord
<1>3. ASSUME NEW a \in Admins, AdminRead(a)
      PROVE  admin'[b].pc # "idle" => admin'[b].of \in FullInvoices'
  BY <1>3 DEF AdminRead
<1>4. ASSUME NEW a \in Admins, AdminCheckOffer(a)
      PROVE  admin'[b].pc # "idle" => admin'[b].of \in FullInvoices'
  BY <1>4 DEF AdminCheckOffer
<1>5. ASSUME NEW a \in Admins, AdminRelease(a)
      PROVE  admin'[b].pc # "idle" => admin'[b].of \in FullInvoices'
  BY <1>5 DEF AdminRelease
<1>6. ASSUME NEW a \in Admins, AdminCompleteOffer(a)
      PROVE  admin'[b].pc # "idle" => admin'[b].of \in FullInvoices'
  BY <1>6 DEF AdminCompleteOffer
<1>7. ASSUME NEW a \in Admins, AdminDies(a)
      PROVE  admin'[b].pc # "idle" => admin'[b].of \in FullInvoices'
  BY <1>7 DEF AdminDies
<1>8. CASE UNCHANGED admin
  BY <1>8
<1> QED
  BY <1>3, <1>4, <1>5, <1>6, <1>7, <1>8
    DEF Next, InitiateStep, HookStep, RefundStep, AdminStep, vars,
        InitiateCheck, InitiateRecheck, InsertInvoice, InsertPayment,
        Charge, ChargeFails, RecordCharge, CountParticipants, CountSucceeded, MarkPaid,
        InitiateDies, Confirm, Capture, Decline, CancelIntent,
        ApproveWork, Claim, Duplicate, ClaimFails, HookIgnore,
        HookPayment, HookInvoice, HookDies, RefundRead, RefundCall,
        RefundRefused, RefundCancel, RefundPayment, RefundInvoice,
        RefundDies, OfferMoves, Fault, Emit

\* Whoever makes an invoice paid or released knows that it is paid up.
LEMMA FullPreserved ==
  ASSUME TypeOK, SettlementInv, CountInv, [Next]_vars, NEW i \in Requests
  PROVE  invoice'[i] \in {"paid", "released"} => i \in FullInvoices'
<1>0. /\ invoice \in [Requests -> InvoiceStatus]
      /\ invoice[i] \in {"paid", "released"} => i \in FullInvoices
  BY DEF TypeOK, CountInv
<1>1. FullInvoices \subseteq FullInvoices'
  BY FullStay
<1> USE <1>0, <1>1
    DEF tables, initiates, stripe, hooks
<1>2. ASSUME NEW r \in Requests, InsertInvoice(r)
      PROVE  invoice'[i] \in {"paid", "released"} => i \in FullInvoices'
  BY <1>2 DEF InsertInvoice
<1>3. ASSUME NEW r \in Requests, MarkPaid(r)
      PROVE  invoice'[i] \in {"paid", "released"} => i \in FullInvoices'
  BY <1>3 DEF MarkPaid, CountInv
<1>4. ASSUME NEW e \in Event, HookInvoice(e)
      PROVE  invoice'[i] \in {"paid", "released"} => i \in FullInvoices'
  <2>1. StatusMap[e[2]] = "succeeded" => e = <<e[1], "succeeded">>
    BY DEF StatusMap, EventTypes, IntentEvents, Event
  <2>2. e \in sent /\ e[1] \in Requests
    BY <1>4 DEF HookInvoice, SettlementInv, HookOK, Event
  <2>3. StatusMap[e[2]] # "succeeded"
    BY <2>1, <2>2 DEF CountInv
  <2> QED
    BY <1>4, <2>3 DEF HookInvoice
<1>5. ASSUME NEW f \in Refunds, RefundInvoice(f)
      PROVE  invoice'[i] \in {"paid", "released"} => i \in FullInvoices'
  BY <1>5 DEF RefundInvoice
<1>6. ASSUME NEW a \in Admins, AdminRelease(a)
      PROVE  invoice'[i] \in {"paid", "released"} => i \in FullInvoices'
  BY <1>6 DEF AdminRelease, CountInv
<1>7. CASE UNCHANGED invoice
  BY <1>7
<1> QED
  BY <1>2, <1>3, <1>4, <1>5, <1>6, <1>7
    DEF Next, InitiateStep, HookStep, RefundStep, AdminStep, vars,
        InitiateCheck, InitiateRecheck, InsertPayment, Charge,
        ChargeFails, RecordCharge, CountParticipants, CountSucceeded, InitiateDies, Confirm,
        Capture, Decline, CancelIntent, ApproveWork, Claim, Duplicate,
        ClaimFails, HookIgnore, HookPayment, HookDies, RefundRead,
        RefundCall, RefundRefused, RefundCancel, RefundPayment,
        RefundDies, AdminRead, AdminCheckOffer, AdminCompleteOffer,
        AdminDies, OfferMoves, Fault, Emit

\* With the mock provider and escrow, initiate_payment never makes an invoice
\* paid, and no admin releases one, with fewer captured payments on it than the
\* participants one of its payers has found, however users join and leave, and
\* counting, refunding, approving and releasing handlers interleave.
THEOREM PaidOnlyInFull == Spec => []PaidInFull
<1>1. CASE Provider = "mock" /\ PaymentType = "escrow"
  <2>1. Init => CountInv
    BY DEF Init, CountInv
  <2>2. TypeOK /\ SettlementInv /\ CountInv /\ [Next]_vars => CountInv'
    <3> SUFFICES ASSUME TypeOK, SettlementInv, CountInv, [Next]_vars PROVE CountInv'
      OBVIOUS
    <3>1. \A r \in Requests : pc'[r] = "mark_paid" => held'[r] \in FullInvoices'
      BY <1>1, CountPreserved
    <3>2. \A a \in Admins : admin'[a].pc # "idle" => admin'[a].of \in FullInvoices'
      BY ReleasePreserved
    <3>3. \A i \in Requests : invoice'[i] \in {"paid", "released"} => i \in FullInvoices'
      BY FullPreserved
    <3>4. \A r \in Requests :
            intent'[r] # "processing" /\ <<r, "succeeded">> \notin sent'
      BY <1>1, NoSuccessEvent
    <3>5. \A r \in Requests :
            /\ pc'[r] \in {"idle", "checked", "insert", "invoiced", "written", "charged", "count"}
                 => counted'[r] = NoCount
            /\ pc'[r] = "counted" => counted'[r] # NoCount
      BY CountedOnce
    <3> QED
      BY <3>1, <3>2, <3>3, <3>4, <3>5 DEF CountInv
  <2>3. CountInv => PaidInFull
    BY DEF CountInv, PaidInFull
  <2> QED
    BY <2>1, <2>2, <2>3, TypeCorrect, Settlement, PTL DEF Spec
<1>2. CASE ~(Provider = "mock" /\ PaymentType = "escrow")
  <2>1. PaidInFull
    BY <1>2 DEF PaidInFull
  <2> QED
    BY <2>1, PTL
<1> QED
  BY <1>1, <1>2

----------------------------------------------------------------------------
(* Payments implements Escrow. *)

\* Nothing but create_invoice makes a row of invoices: the other writers update one
\* that their payment, or their check, has led them to.
LEMMA RowsAppear ==
  ASSUME TypeOK, SettlementInv, [Next]_vars, NEW i \in Requests, invoice[i] = "none"
  PROVE  invoice'[i] = "none" \/ InsertInvoice(i)
<1>0. /\ invoice \in [Requests -> InvoiceStatus]
      /\ i \notin Invoices
  BY DEF TypeOK, Invoices
<1> USE <1>0 DEF tables
<1>1. ASSUME NEW r \in Requests, InsertInvoice(r), r # i PROVE invoice'[i] = "none"
  BY <1>1 DEF InsertInvoice
<1>2. ASSUME NEW r \in Requests, MarkPaid(r) PROVE invoice'[i] = "none"
  <2>1. held[r] \in Invoices
    BY <1>2, NoInvoiceAssumption DEF MarkPaid, SettlementInv, RowOK
  <2> QED
    BY <1>2, <2>1 DEF MarkPaid
<1>3. ASSUME NEW e \in Event, HookInvoice(e) PROVE invoice'[i] = "none"
  <2>1. invoiceOf[e[1]] \in Invoices
    BY <1>3 DEF HookInvoice, SettlementInv, HookOK, RowOK, Event
  <2> QED
    BY <1>3, <2>1 DEF HookInvoice
<1>4. ASSUME NEW f \in Refunds, RefundInvoice(f) PROVE invoice'[i] = "none"
  <2>1. invoiceOf[refund[f].of] \in Invoices
    BY <1>4 DEF RefundInvoice, SettlementInv, RefundOK, RowOK, TypeOK
  <2> QED
    BY <1>4, <2>1 DEF RefundInvoice
<1>5. ASSUME NEW a \in Admins, AdminRelease(a) PROVE invoice'[i] = "none"
  <2>1. admin[a].of \in Invoices
    BY <1>5 DEF AdminRelease, SettlementInv, AdminOK
  <2> QED
    BY <1>5, <2>1 DEF AdminRelease
<1>6. CASE UNCHANGED invoice
  BY <1>6
<1> QED
  BY <1>1, <1>2, <1>3, <1>4, <1>5, <1>6
    DEF Next, InitiateStep, HookStep, RefundStep, AdminStep, vars,
        initiates, stripe, hooks,
        InitiateCheck, InitiateRecheck, InsertPayment, Charge,
        ChargeFails, RecordCharge, CountParticipants, CountSucceeded, InitiateDies, Confirm,
        Capture, Decline, CancelIntent, ApproveWork, Claim, Duplicate,
        ClaimFails, HookIgnore, HookPayment, HookDies, RefundRead,
        RefundCall, RefundRefused, RefundCancel, RefundPayment,
        RefundDies, AdminRead, AdminCheckOffer, AdminCompleteOffer,
        AdminDies, OfferMoves, Fault, Emit

\* A handler of initiate_payment that has not inserted its rows has none.
LEMMA FreshStep ==
  ASSUME TypeOK, SettlementInv, FreshRows, [Next]_vars
  PROVE  FreshRows'
<1> SUFFICES ASSUME NEW q \in Requests
             PROVE  /\ pc'[q] \in {"idle", "checked", "insert"} => invoice'[q] = "none"
                    /\ payment'[q] = "none" => invoiceOf'[q] = NoInvoice
  BY DEF FreshRows
<1>0. /\ pc \in [Requests -> InitiatePC]
      /\ payment \in [Requests -> PaymentStatus]
      /\ invoiceOf \in [Requests -> Requests \cup {NoInvoice}]
      /\ pc[q] \in {"idle", "checked", "insert"} => invoice[q] = "none"
      /\ payment[q] = "none" => invoiceOf[q] = NoInvoice
  BY DEF TypeOK, FreshRows
<1>1. pc'[q] \in {"idle", "checked", "insert"} => pc[q] \in {"idle", "checked", "insert"}
  <2>1. ASSUME NEW r \in Requests,
               InitiateCheck(r) \/ InitiateRecheck(r) \/ InsertInvoice(r) \/ InsertPayment(r)
               \/ Charge(r) \/ ChargeFails(r) \/ CountParticipants(r)
               \/ CountSucceeded(r) \/ MarkPaid(r) \/ InitiateDies(r)
        PROVE  pc'[q] = pc[q] \/ pc'[q] \notin {"idle", "checked", "insert"} \/ pc[q] \in {"idle", "checked"}
    BY <1>0, <2>1
      DEF InitiateCheck, InitiateRecheck, InsertInvoice, InsertPayment, Charge,
          ChargeFails, CountParticipants, CountSucceeded, MarkPaid, InitiateDies
  <2>2. ASSUME NEW r \in Requests, RecordCharge(r)
        PROVE  pc'[q] = pc[q] \/ pc'[q] \in {"done", "mark_paid", "count"}
    BY <1>0, <2>2 DEF RecordCharge
  <2>3. UNCHANGED pc \/ \E r \in Requests : InitiateStep(r) \/ InitiateDies(r)
    BY DEF Next, HookStep, RefundStep, AdminStep, vars,
        initiates, Confirm,
        Capture, Decline, CancelIntent, ApproveWork, Claim, Duplicate,
        ClaimFails, HookIgnore, HookPayment, HookInvoice, HookDies, RefundRead,
        RefundCall, RefundRefused, RefundCancel, RefundPayment, RefundInvoice,
        RefundDies, AdminRead, AdminCheckOffer, AdminRelease, AdminCompleteOffer,
        AdminDies, OfferMoves
  <2> QED
    BY <2>1, <2>2, <2>3 DEF InitiateStep
<1>2. InsertInvoice(q) => pc'[q] \notin {"idle", "checked", "insert"}
  BY <1>0 DEF InsertInvoice
<1>3. invoiceOf'[q] = invoiceOf[q] \/ payment'[q] = "pending"
  <2>1. ASSUME NEW r \in Requests, InsertPayment(r)
        PROVE  invoiceOf'[q] = invoiceOf[q] \/ payment'[q] = "pending"
    BY <1>0, <2>1 DEF InsertPayment
  <2>2. CASE UNCHANGED invoiceOf
    BY <2>2
  <2> QED
    BY <2>1, <2>2
      DEF Next, InitiateStep, HookStep, RefundStep, AdminStep, vars, tables,
        InitiateCheck, InitiateRecheck, InsertInvoice, Charge,
        ChargeFails, RecordCharge, CountParticipants, CountSucceeded, MarkPaid, InitiateDies, Confirm,
        Capture, Decline, CancelIntent, ApproveWork, Claim, Duplicate,
        ClaimFails, HookIgnore, HookPayment, HookInvoice, HookDies, RefundRead,
        RefundCall, RefundRefused, RefundCancel, RefundPayment, RefundInvoice,
        RefundDies, AdminRead, AdminCheckOffer, AdminRelease, AdminCompleteOffer,
        AdminDies, OfferMoves
<1>4. payment'[q] = "none" => payment[q] = "none"
  <2>2. ASSUME NEW r \in Requests, RecordCharge(r) PROVE payment'[q] = "none" => payment[q] = "none"
    BY <1>0, <2>2 DEF RecordCharge, SettlementInv, ChargeOK
  <2>3. ASSUME NEW e \in Event, HookPayment(e) PROVE payment'[q] = "none" => payment[q] = "none"
    <3>1. StatusMap[e[2]] # "none"
      BY DEF Event, EventTypes, IntentEvents, StatusMap
    <3> QED BY <1>0, <2>3, <3>1 DEF HookPayment
  <2>4. ASSUME NEW f \in Refunds, RefundPayment(f) PROVE payment'[q] = "none" => payment[q] = "none"
    BY <1>0, <2>4 DEF RefundPayment, SettlementInv, RefundOK
  <2>5. ASSUME NEW p \in Requests, ApproveWork(p) \/ InsertPayment(p)
        PROVE  payment'[q] = "none" => payment[q] = "none"
    BY <1>0, <2>5 DEF ApproveWork, InsertPayment
  <2>6. CASE UNCHANGED payment
    BY <2>6
  <2> QED
    BY <2>2, <2>3, <2>4, <2>5, <2>6
      DEF Next, InitiateStep, HookStep, RefundStep, AdminStep, vars, tables,
        initiates, stripe, hooks,
        InitiateCheck, InitiateRecheck, InsertInvoice, Charge,
        ChargeFails, CountParticipants, CountSucceeded, MarkPaid, InitiateDies, Confirm,
        Capture, Decline, CancelIntent, Claim, Duplicate,
        ClaimFails, HookIgnore, HookInvoice, HookDies, RefundRead,
        RefundCall, RefundRefused, RefundCancel, RefundInvoice,
        RefundDies, AdminRead, AdminCheckOffer, AdminRelease, AdminCompleteOffer,
        AdminDies, OfferMoves, Fault, Emit
<1> QED
  BY <1>0, <1>1, <1>2, <1>3, <1>4, RowsAppear

\* How a charge looks to Escrow, before and after a step.
LEMMA MoneyIs ==
  /\ \A p \in Requests : Money[p] =
       CASE intent[p] = "none"      -> "none"
         [] intent[p] = "succeeded" -> "taken"
         [] intent[p] = "canceled"  -> "void"
         [] OTHER                   -> "asked"
  /\ intent' = intent => Money' = Money
  BY DEF Money

\* A charge that moves, and the others that do not.
LEMMA MoneyMoves ==
  ASSUME TypeOK, NEW r \in Requests, NEW s \in IntentStatus, intent' = [intent EXCEPT ![r] = s]
  PROVE  Money' = [Money EXCEPT ![r] =
                     CASE s = "none"      -> "none"
                       [] s = "succeeded" -> "taken"
                       [] s = "canceled"  -> "void"
                       [] OTHER           -> "asked"]
  BY DEF Money, TypeOK

\* Every step of the handlers, of Stripe, of customers and of faults is a step of
\* Escrow, or leaves what Escrow sees as it is.
LEMMA LedgerStep ==
  ASSUME TypeOK, SettlementInv, FreshRows, [Next]_vars
  PROVE  [Ledger!Next]_<<invoice, invoiceOf, Money, refunded>>
<1> DEFINE Seen == <<invoice, invoiceOf, Money, refunded>>
<1>0. /\ invoice \in [Requests -> InvoiceStatus]
      /\ invoiceOf \in [Requests -> Requests \cup {NoInvoice}]
      /\ intent \in [Requests -> IntentStatus]
      /\ pc \in [Requests -> InitiatePC]
      /\ held \in [Requests -> Requests \cup {NoInvoice}]
  BY DEF TypeOK
\* The rows, as Escrow needs them.
<1>1. ASSUME NEW p \in Requests, payment[p] # "none"
      PROVE  /\ invoiceOf[p] \in Requests /\ invoiceOf[p] # NoInvoice
             /\ \E c \in Requests : invoiceOf[c] = invoiceOf[p]
  BY <1>1, NoInvoiceAssumption DEF SettlementInv, RowOK, Invoices
<1>2. ASSUME NEW i \in Requests, Funded(i)
      PROVE  \E c \in Requests : invoiceOf[c] = i /\ Money[c] = "taken"
  BY <1>2, MoneyIs DEF Funded, Captured
\* initiate_payment.
<1>3. ASSUME NEW r \in Requests, InsertInvoice(r)
      PROVE  Ledger!Bill(r) \/ UNCHANGED Seen
  <2>1. CASE held[r] = NoInvoice
    <3>1. invoice[r] = "none" /\ invoice' = [invoice EXCEPT ![r] = "pending"]
      BY <1>3, <2>1 DEF InsertInvoice, FreshRows
    <3>2. UNCHANGED <<invoiceOf, intent, refunded>>
      BY <1>3 DEF InsertInvoice, stripe
    <3> QED BY <3>1, <3>2, MoneyIs DEF Ledger!Bill
  <2>2. CASE held[r] # NoInvoice
    BY <1>3, <2>2, MoneyIs DEF InsertInvoice, stripe
  <2> QED BY <2>1, <2>2
<1>4. ASSUME NEW r \in Requests, InsertPayment(r)
      PROVE  (held[r] \in Requests /\ Ledger!Book(r, held[r])) \/ UNCHANGED Seen
  <2>1. CASE held[r] # NoInvoice
    <3>1. invoiceOf[r] = NoInvoice /\ invoice[held[r]] # "none"
      BY <1>4, <2>1 DEF InsertPayment, SettlementInv, RowOK, FreshRows, Invoices
    <3>2. /\ invoiceOf' = [invoiceOf EXCEPT ![r] = held[r]]
          /\ UNCHANGED <<invoice, intent, refunded>>
      BY <1>4, <2>1 DEF InsertPayment, stripe
    <3> QED BY <1>0, <2>1, <3>1, <3>2, MoneyIs DEF Ledger!Book
  <2>2. CASE held[r] = NoInvoice
    BY <1>4, <2>2, MoneyIs DEF InsertPayment, stripe
  <2> QED BY <2>1, <2>2
<1>5. ASSUME NEW r \in Requests, Charge(r) PROVE Ledger!Ask(r) \/ Ledger!Take(r)
  <2>1. /\ invoiceOf[r] # NoInvoice /\ intent[r] = "none"
        /\ UNCHANGED <<invoice, invoiceOf, refunded>>
    BY <1>1, <1>5 DEF Charge, SettlementInv, RowOK, tables
  <2>2. Money[r] = "none"
    BY <2>1, MoneyIs
  <2>3. CASE Provider = "mock"
    <3>1. intent' = [intent EXCEPT ![r] = "succeeded"]
      BY <1>5, <2>3 DEF Charge
    <3>2. Money' = [Money EXCEPT ![r] = "taken"]
      BY <3>1, MoneyMoves DEF IntentStatus
    <3> QED BY <2>1, <2>2, <3>2 DEF Ledger!Take
  <2>4. CASE Provider # "mock"
    <3>1. intent' = [intent EXCEPT ![r] = "requires_payment_method"]
      BY <1>5, <2>4 DEF Charge
    <3>2. Money' = [Money EXCEPT ![r] = "asked"]
      BY <3>1, MoneyMoves DEF IntentStatus
    <3> QED BY <2>1, <2>2, <3>2 DEF Ledger!Ask
  <2> QED BY <2>3, <2>4
<1>6. ASSUME NEW r \in Requests, ChargeFails(r) PROVE Ledger!Ask(r) \/ UNCHANGED Seen
  <2>1. /\ invoiceOf[r] # NoInvoice /\ intent[r] = "none"
        /\ UNCHANGED <<invoice, invoiceOf, refunded>>
    BY <1>1, <1>6 DEF ChargeFails, SettlementInv, RowOK, tables
  <2>2. Money[r] = "none"
    BY <2>1, MoneyIs
  <2>3. CASE intent' = [intent EXCEPT ![r] = "requires_payment_method"]
    <3>1. Money' = [Money EXCEPT ![r] = "asked"]
      BY <2>3, MoneyMoves DEF IntentStatus
    <3> QED BY <2>1, <2>2, <3>1 DEF Ledger!Ask
  <2>4. CASE intent' = [intent EXCEPT ![r] = "none"]
    <3>1. intent' = intent
      BY <1>0, <2>1, <2>4
    <3> QED BY <2>1, <3>1, MoneyIs
  <2> QED BY <1>6, <2>3, <2>4 DEF ChargeFails
<1>7. ASSUME NEW r \in Requests, MarkPaid(r) PROVE held[r] \in Requests /\ Ledger!Settle(held[r])
  <2>1. held[r] \in Requests /\ invoiceOf[r] = held[r] /\ Captured(r)
    BY <1>7 DEF MarkPaid, SettlementInv, RowOK, ChargeOK
  <2>2. \E c \in Requests : invoiceOf[c] = held[r] /\ Money[c] = "taken"
    BY <1>2, <2>1 DEF Funded
  <2>3. invoice' = [invoice EXCEPT ![held[r]] = "paid"] /\ UNCHANGED <<invoiceOf, intent, refunded>>
    BY <1>7 DEF MarkPaid, stripe
  <2> QED BY <2>1, <2>2, <2>3, MoneyIs DEF Ledger!Settle
\* Stripe and the customer.
<1>8. ASSUME NEW r \in Requests, Confirm(r) \/ Decline(r) PROVE UNCHANGED Seen
  <2>1. /\ intent[r] \in {"requires_payment_method", "processing"}
        /\ \E s \in {"requires_payment_method", "processing"} : intent' = [intent EXCEPT ![r] = s]
        /\ UNCHANGED <<invoice, invoiceOf, refunded>>
    BY <1>8 DEF Confirm, Decline, tables
  <2>2. Money' = [Money EXCEPT ![r] = "asked"] /\ Money[r] = "asked"
    BY <2>1, MoneyIs, MoneyMoves DEF IntentStatus
  <2>3. Money' = Money
    BY <2>2 DEF Money
  <2> QED BY <2>1, <2>3
<1>9. ASSUME NEW r \in Requests, Capture(r) PROVE Ledger!Take(r)
  <2>1. /\ intent[r] = "processing" /\ intent' = [intent EXCEPT ![r] = "succeeded"]
        /\ UNCHANGED <<invoice, invoiceOf, refunded>>
    BY <1>9 DEF Capture, tables
  <2>2. invoiceOf[r] # NoInvoice
    BY <1>1, <2>1 DEF SettlementInv, RowOK
  <2>3. Money[r] = "asked" /\ Money' = [Money EXCEPT ![r] = "taken"]
    BY <2>1, MoneyIs, MoneyMoves DEF IntentStatus
  <2> QED BY <2>1, <2>2, <2>3 DEF Ledger!Take
<1>10. ASSUME NEW r \in Requests, CancelIntent(r) PROVE Ledger!Void(r)
  <2>1. /\ intent[r] = "requires_payment_method" /\ intent' = [intent EXCEPT ![r] = "canceled"]
        /\ UNCHANGED <<invoice, invoiceOf, refunded>>
    BY <1>10 DEF CancelIntent, tables
  <2>2. Money[r] = "asked" /\ Money' = [Money EXCEPT ![r] = "void"]
    BY <2>1, MoneyIs, MoneyMoves DEF IntentStatus
  <2> QED BY <2>1, <2>2 DEF Ledger!Void
\* The webhook: an event that reports a success was sent when the money was taken.
<1>11. ASSUME NEW e \in Event, HookInvoice(e)
       PROVE  \/ UNCHANGED Seen
              \/ invoiceOf[e[1]] \in Requests
                 /\ (Ledger!Settle(invoiceOf[e[1]]) \/ Ledger!Reverse(invoiceOf[e[1]]))
  <2>1. e \in sent /\ e[1] \in Requests /\ e[2] \in EventTypes /\ payment[e[1]] # "none"
    BY <1>11 DEF HookInvoice, SettlementInv, HookOK, RowOK, Event
  <2>2. UNCHANGED <<invoiceOf, intent, refunded>>
    BY <1>11 DEF HookInvoice, stripe
  <2>3. CASE StatusMap[e[2]] = "succeeded"
    <3>1. e = <<e[1], "succeeded">>
      BY <2>1, <2>3 DEF Event, EventTypes, IntentEvents, StatusMap
    <3>2. Funded(invoiceOf[e[1]])
      BY <2>1, <3>1 DEF SettlementInv, ChargeOK, Funded
    <3>3. invoice' = [invoice EXCEPT ![invoiceOf[e[1]]] = "paid"]
      BY <1>11, <2>3 DEF HookInvoice
    <3> QED BY <1>1, <1>2, <2>1, <2>2, <3>2, <3>3, MoneyIs DEF Ledger!Settle
  <2>4. CASE StatusMap[e[2]] = "refunded"
    <3>1. invoice' = [invoice EXCEPT ![invoiceOf[e[1]]] = "refunded"]
      BY <1>11, <2>4 DEF HookInvoice
    <3> QED BY <1>1, <2>1, <2>2, <3>1, MoneyIs DEF Ledger!Reverse
  <2>5. CASE StatusMap[e[2]] \notin {"succeeded", "refunded"}
    <3>1. UNCHANGED invoice
      BY <1>11, <2>5 DEF HookInvoice
    <3> QED BY <2>2, <3>1, MoneyIs
  <2> QED BY <2>3, <2>4, <2>5
\* Refunds and releases.
<1>12. ASSUME NEW f \in Refunds, NEW amount \in 1 .. Amount, RefundCall(f, amount)
       PROVE  UNCHANGED Seen \/ (refund[f].of \in Requests /\ Ledger!GiveBack(refund[f].of, amount))
  <2> DEFINE p == refund[f].of
  <2>1. p \in Requests /\ Captured(p)
    BY <1>12 DEF RefundCall, SettlementInv, RefundOK, TypeOK
  <2>2. Money[p] = "taken"
    BY <2>1, MoneyIs DEF Captured
  <2>3. UNCHANGED <<invoice, invoiceOf, intent>>
    BY <1>12 DEF RefundCall, tables
  <2>4. CASE UNCHANGED refunded
    <3>1. UNCHANGED Money
      BY <2>3, MoneyIs
    <3> QED BY <2>3, <2>4, <3>1
  <2>5. CASE refunded' = [refunded EXCEPT ![p] = @ + amount]
    <3>1. Provider = "stripe" => refunded[p] + amount <= Amount
      BY <1>12 DEF RefundCall
    <3> QED BY <2>1, <2>2, <2>3, <2>5, <3>1, MoneyIs DEF Ledger!GiveBack
  <2> QED BY <1>12, <2>4, <2>5 DEF RefundCall
<1>13. ASSUME NEW f \in Refunds, RefundInvoice(f)
       PROVE  invoiceOf[refund[f].of] \in Requests /\ Ledger!Reverse(invoiceOf[refund[f].of])
  <2>1. refund[f].of \in Requests /\ payment[refund[f].of] # "none"
    BY <1>13 DEF RefundInvoice, SettlementInv, RefundOK, TypeOK
  <2>2. /\ invoice' = [invoice EXCEPT ![invoiceOf[refund[f].of]] = "refunded"]
        /\ UNCHANGED <<invoiceOf, intent, refunded>>
    BY <1>13 DEF RefundInvoice, stripe
  <2> QED BY <1>1, <2>1, <2>2, MoneyIs DEF Ledger!Reverse
<1>14. ASSUME NEW a \in Admins, AdminRelease(a)
       PROVE  admin[a].of \in Requests /\ Ledger!Settle(admin[a].of)
  <2>1. admin[a].of \in Requests /\ Funded(admin[a].of)
    BY <1>14 DEF AdminRelease, SettlementInv, AdminOK, Invoices
  <2>2. invoice' = [invoice EXCEPT ![admin[a].of] = "released"] /\ UNCHANGED <<invoiceOf, intent, refunded>>
    BY <1>14 DEF AdminRelease, stripe
  <2> QED BY <1>2, <2>1, <2>2, MoneyIs DEF Ledger!Settle
<1>15. ASSUME UNCHANGED <<invoice, invoiceOf, intent, refunded>> PROVE UNCHANGED Seen
  BY <1>15, MoneyIs
\* Every action is one of these.
<1>16. \/ UNCHANGED <<invoice, invoiceOf, intent, refunded>>
       \/ \E r \in Requests :
            \/ InsertInvoice(r) \/ InsertPayment(r) \/ Charge(r) \/ ChargeFails(r) \/ MarkPaid(r)
            \/ Confirm(r) \/ Decline(r) \/ Capture(r) \/ CancelIntent(r)
       \/ \E e \in Event : HookInvoice(e)
       \/ \E f \in Refunds : RefundInvoice(f) \/ \E amount \in 1 .. Amount : RefundCall(f, amount)
       \/ \E a \in Admins : AdminRelease(a)
  BY DEF Next, InitiateStep, HookStep, RefundStep, AdminStep, vars, tables, stripe,
        InitiateCheck, InitiateRecheck, RecordCharge, CountParticipants, CountSucceeded, InitiateDies,
        ApproveWork, Claim, Duplicate, ClaimFails, HookIgnore, HookPayment, HookDies,
        RefundRead, RefundRefused, RefundCancel, RefundPayment, RefundDies,
        AdminRead, AdminCheckOffer, AdminCompleteOffer, AdminDies, OfferMoves
<1> HIDE DEF Seen
<1>17. Ledger!Next \/ UNCHANGED Seen
  <2>1. ASSUME NEW r \in Requests,
               \/ InsertInvoice(r) \/ InsertPayment(r) \/ Charge(r) \/ ChargeFails(r) \/ MarkPaid(r)
               \/ Confirm(r) \/ Decline(r) \/ Capture(r) \/ CancelIntent(r)
        PROVE  Ledger!Next \/ UNCHANGED Seen
    <3> QED BY <2>1, <1>3, <1>4, <1>5, <1>6, <1>7, <1>8, <1>9, <1>10 DEF Ledger!Next
  <2> QED BY <1>11, <1>12, <1>13, <1>14, <1>15, <1>16, <2>1 DEF Ledger!Next
<1> QED BY <1>17 DEF Seen

\* The payment handlers, webhooks, refunds and releases implement Escrow, whatever
\* their number, their order and the faults: money is asked for only once it is on an
\* invoice, what is taken stays taken and stays there, invoices are settled only with
\* money behind them, and only such money is given back, on Stripe never more of it.
THEOREM ImplementsEscrow == Spec => KeepsLedger
<1>1. Init => Ledger!Init /\ FreshRows
  BY DEF Init, Ledger!Init, Money, FreshRows
<1>2. TypeOK /\ SettlementInv /\ FreshRows /\ [Next]_vars
        => FreshRows' /\ [Ledger!Next]_<<invoice, invoiceOf, Money, refunded>>
  BY FreshStep, LedgerStep
<1> QED
  BY <1>1, <1>2, TypeCorrect, Settlement, PTL DEF Spec, KeepsLedger, Ledger!Spec

============================================================================
