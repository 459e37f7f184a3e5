------------------------------ MODULE Checkout ------------------------------
(***************************************************************************)
(* The web checkout: a payment initiated when the page opens and again at  *)
(* every retry, the card form of the intent it gave, and the provider that *)
(* charges. Initiating carries no idempotency key: each call is a payment. *)
(***************************************************************************)
EXTENDS Naturals, FiniteSets

CONSTANTS
  Providers,     \* of "mock" and "stripe"
  MaxPayments,   \* bound on the payments initiated
  MaxMishaps     \* bound on lost answers, and on reloads of the page

ASSUME CheckoutConstants ==
  /\ Providers \subseteq {"mock", "stripe"} /\ Providers # {}
  /\ MaxPayments \in Nat \ {0} /\ MaxMishaps \in Nat

VARIABLES
  provider,   \* PAYMENT_PROVIDER
  phase,      \* phase
  intent,     \* payment: the one on the screen, 0 before any
  paying,     \* isSubmitting
  initiate,   \* the call of initiate under way
  confirm,    \* the call of confirmPayment under way
  intents,    \* backend and provider: what became of each payment
  payments,     \* payments initiated so far
  unheard,    \* history: charges whose answer was lost
  reopened    \* history: reloads of the page

checkoutVars == <<provider, phase, intent, paying, initiate, confirm, intents, payments, unheard, reopened>>

NoCall     == [st |-> "none"]
Payment    == 1 .. MaxPayments
Outcomes   == {"none", "pending", "failed", "charged"}
Charged    == {p \in Payment : intents[p] = "charged"}

CheckoutTypeOK ==
  /\ provider \in Providers
  /\ phase \in {"loading", "stripe", "success", "error", "away"}
  /\ intent \in 0 .. MaxPayments /\ payments \in 0 .. MaxPayments
  /\ intents \in [Payment -> Outcomes] /\ \A p \in Payment : intents[p] # "none" => p <= payments
  /\ initiate \in {NoCall} \cup [st : {"sent", "answered", "failed"}, of : 0 .. MaxPayments]
  /\ confirm \in {NoCall} \cup [st : {"sent", "accepted", "declined", "failed"}, of : Payment]
  /\ unheard \in 0 .. MaxMishaps /\ reopened \in 0 .. MaxMishaps
  \* one call at a time, each under the phase that made it
  /\ initiate # NoCall => phase = "loading"
  /\ confirm # NoCall => phase = "stripe" /\ paying /\ confirm.of = intent

CheckoutInit ==
  /\ provider \in Providers
  /\ phase = "loading" /\ intent = 0 /\ paying = FALSE
  /\ initiate = [st |-> "sent", of |-> 0] /\ confirm = NoCall
  /\ intents = [p \in Payment |-> "none"] /\ payments = 0
  /\ unheard = 0 /\ reopened = 0

----------------------------------------------------------------------------
(* initiatePayment. *)

\* What initiating leads to: the mock provider charges and never fails; Stripe opens an
\* intent, or cannot, which is an answer too, with the status "failed" and no secret.
Initiated == IF provider = "mock" THEN {"charged"} ELSE {"pending", "failed"}

\* The backend writes the payment and calls the provider. The answer may be lost.
InitiateServed ==
  /\ initiate.st = "sent" /\ payments < MaxPayments
  /\ payments' = payments + 1
  /\ \E outcome \in Initiated :
       /\ intents' = [intents EXCEPT ![payments'] = outcome]
       /\ \/ initiate' = [st |-> "answered", of |-> payments'] /\ UNCHANGED unheard
          \/ /\ unheard + reopened < MaxMishaps
             /\ initiate' = [st |-> "failed", of |-> 0]
             /\ unheard' = unheard + 1
  /\ UNCHANGED <<provider, phase, intent, paying, confirm, reopened>>

\* A refusal (not a participant, no such offer, the rate limit), or nothing gets through.
InitiateRefused ==
  /\ initiate.st = "sent" /\ initiate' = [initiate EXCEPT !.st = "failed"]
  /\ UNCHANGED <<provider, phase, intent, paying, confirm, intents, payments, unheard, reopened>>

\* Mutant of PhaseFor: an answer without a secret is an error.
PhaseForSecret(p) == IF intents[p] = "pending" THEN "stripe" ELSE "error"

\* A payment that succeeded, one whose secret asks for a card, or anything else.
PhaseFor(p) == IF intents[p] = "pending" THEN "stripe" ELSE "success"

InitiateShown ==
  /\ initiate.st = "answered"
  /\ intent' = initiate.of /\ phase' = PhaseFor(initiate.of)
  /\ initiate' = NoCall /\ paying' = FALSE
  /\ UNCHANGED <<provider, confirm, intents, payments, unheard, reopened>>

\* An error, or a session that is over: to the login page.
InitiateFails ==
  /\ initiate.st = "failed" /\ initiate' = NoCall
  /\ phase' \in {"error", "away"}
  /\ UNCHANGED <<provider, intent, paying, confirm, intents, payments, unheard, reopened>>

\* The error page has a retry button.
Retriable == phase = "error"

Retry ==
  /\ Retriable /\ phase' = "loading"
  /\ initiate' = [st |-> "sent", of |-> 0]
  /\ UNCHANGED <<provider, intent, paying, confirm, intents, payments, unheard, reopened>>

\* The page is loaded again: what was under way is answered to nobody.
Reopen ==
  /\ unheard + reopened < MaxMishaps /\ reopened' = reopened + 1
  /\ phase' = "loading" /\ intent' = 0 /\ paying' = FALSE
  /\ initiate' = [st |-> "sent", of |-> 0] /\ confirm' = NoCall
  /\ UNCHANGED <<provider, intents, payments, unheard>>

----------------------------------------------------------------------------
(* The card form. *)

\* handleSubmit: the button is disabled while a confirmation is under way.
PayByCard ==
  /\ phase = "stripe" /\ ~paying
  /\ paying' = TRUE /\ confirm' = [st |-> "sent", of |-> intent]
  /\ UNCHANGED <<provider, phase, intent, initiate, intents, payments, unheard, reopened>>

\* Stripe charges the card or declines it; an intent is charged once. Its answer may be lost.
CardServed ==
  /\ confirm.st = "sent"
  /\ \/ /\ intents' = [intents EXCEPT ![confirm.of] = "charged"]
        /\ confirm' = [confirm EXCEPT !.st = "accepted"]
        /\ UNCHANGED unheard
     \/ /\ unheard + reopened < MaxMishaps /\ unheard' = unheard + 1
        /\ intents' = [intents EXCEPT ![confirm.of] = "charged"]
        /\ confirm' = [confirm EXCEPT !.st = "failed"]
     \/ /\ confirm' \in {[confirm EXCEPT !.st = s] : s \in {"declined", "failed"}}
        /\ UNCHANGED <<intents, unheard>>
  /\ UNCHANGED <<provider, phase, intent, paying, initiate, payments, reopened>>

\* A declined card can be tried again under the same intent; any other error leaves the form.
\* After a success the button stays disabled.
CardDone ==
  /\ confirm.st \notin {"none", "sent"}
  /\ phase' = CASE confirm.st = "accepted" -> "success"
                [] confirm.st = "declined" -> phase
                [] OTHER -> "error"
  /\ paying' = (confirm.st = "accepted")
  /\ confirm' = NoCall
  /\ UNCHANGED <<provider, intent, initiate, intents, payments, unheard, reopened>>

CheckoutNext ==
  \/ InitiateServed \/ InitiateRefused \/ InitiateShown \/ InitiateFails \/ Retry \/ Reopen
  \/ PayByCard \/ CardServed \/ CardDone

CheckoutSpec == CheckoutInit /\ [][CheckoutNext]_checkoutVars

----------------------------------------------------------------------------
(* Properties. *)

\* However often the user retries, declined cards and refused calls included, the
\* offer is charged once, unless the answer of a charge was lost or the page reloaded.
ChargedOnce == Cardinality(Charged) <= 1 + unheard + reopened

\* The success page is shown for a payment that was charged: what
\* checkout/page.tsx:290 takes for granted of an answer it does not know.
SuccessIsCharged == phase = "success" => intents[intent] = "charged"

============================================================================
