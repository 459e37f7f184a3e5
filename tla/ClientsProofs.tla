---------------------------- MODULE ClientsProofs ----------------------------
(***************************************************************************)
(* Proofs about the stateful parts of the clients: what the checkout       *)
(* charges, the one socket of the offers' hook, the notification panel     *)
(* and screen, the order of a chat, how an analysis ends, the way of a     *)
(* request; and that each keeps it where the others run.                   *)
(***************************************************************************)
EXTENDS MCClients, SessionProofs, FiniteSetTheorems, SequenceTheorems, WellFoundedInduction, TLAPS

----------------------------------------------------------------------------
(* Checkout. *)

\* What the page calls or shows is a payment that was made.
OnPayments ==
  /\ intent <= payments /\ (phase = "stripe" => intent # 0)
  /\ initiate.st = "answered" => initiate.of \in 1 .. payments

\* The page knows of a charge: it says so, or the answer that says so is on its way.
KnowsCharge ==
  \/ phase = "success"
  \/ initiate.st = "answered" /\ intents[initiate.of] = "charged"
  \/ confirm.st = "accepted"

\* Every charge but the one the page knows of was lost with an answer or with the page.
ChargesAccounted ==
  Cardinality(Charged) <= unheard + reopened + (IF KnowsCharge THEN 1 ELSE 0)

CheckoutInv == CheckoutTypeOK /\ OnPayments /\ ChargesAccounted

LEMMA ChargedFinite == IsFiniteSet(Charged) /\ Cardinality(Charged) \in Nat
<1>1. IsFiniteSet(Payment)
  BY CheckoutConstants, FS_Interval DEF Payment
<1>2. Charged \in SUBSET Payment
  BY DEF Charged
<1> QED
  BY <1>1, <1>2, FS_Subset, FS_CardinalityType

\* One payment's outcome decides at most one charge.
LEMMA ChargedGrows ==
  ASSUME CheckoutTypeOK, NEW p \in Payment, NEW o \in Outcomes,
         intents' = [intents EXCEPT ![p] = o], intents[p] # "charged" \/ o = "charged"
  PROVE  /\ Cardinality(Charged') \in Nat
         /\ Cardinality(Charged') <= Cardinality(Charged) + 1
         /\ o # "charged" => Cardinality(Charged') = Cardinality(Charged)
<1>1. Charged' = IF o = "charged" THEN Charged \cup {p} ELSE Charged
  BY DEF CheckoutTypeOK, Charged
<1>2. IsFiniteSet(Charged) /\ Cardinality(Charged) \in Nat
  BY ChargedFinite
<1>3. Cardinality(Charged \cup {p}) = IF p \in Charged THEN Cardinality(Charged) ELSE Cardinality(Charged) + 1
  BY <1>2, FS_AddElement
<1>4. CASE o = "charged"
  BY <1>1, <1>2, <1>3, <1>4
<1>5. CASE o # "charged"
  BY <1>1, <1>2, <1>5
<1> QED
  BY <1>4, <1>5

LEMMA ChargedSame == ASSUME UNCHANGED intents PROVE Charged' = Charged
BY DEF Charged

LEMMA CheckoutInitInv == CheckoutInit => CheckoutInv
<1> SUFFICES ASSUME CheckoutInit PROVE CheckoutInv
  OBVIOUS
<1>1. Charged = {}
  BY DEF CheckoutInit, Charged
<1>2. CheckoutTypeOK /\ OnPayments
  BY CheckoutConstants DEF CheckoutInit, CheckoutTypeOK, OnPayments, NoCall, Payment, Outcomes
<1>3. ChargesAccounted
  BY <1>1, FS_EmptySet DEF CheckoutInit, ChargesAccounted, KnowsCharge, NoCall
<1> QED
  BY <1>2, <1>3 DEF CheckoutInv

LEMMA CheckoutTypeStep ==
  ASSUME CheckoutTypeOK, OnPayments, CheckoutNext PROVE CheckoutTypeOK' /\ OnPayments'
<1> USE CheckoutConstants DEF CheckoutTypeOK, OnPayments, NoCall, Payment, Outcomes
<1>1. CASE InitiateServed
  BY <1>1 DEF InitiateServed, Initiated
<1>2. CASE InitiateRefused
  BY <1>2 DEF InitiateRefused
<1>3. CASE InitiateShown
  BY <1>3 DEF InitiateShown, PhaseFor
<1>4. CASE InitiateFails
  BY <1>4 DEF InitiateFails
<1>5. CASE Retry
  BY <1>5 DEF Retry, Retriable
<1>6. CASE Reopen
  BY <1>6 DEF Reopen
<1>7. CASE PayByCard
  BY <1>7 DEF PayByCard
<1>8. CASE CardServed
  <2>1. /\ confirm.of = intent /\ intent \in Payment /\ initiate = NoCall /\ phase = "stripe" /\ paying
        /\ confirm \in [st : {"sent", "accepted", "declined", "failed"}, of : Payment]
    BY <1>8 DEF CardServed
  <2>2. PICK s \in {"accepted", "declined", "failed"} : confirm' = [confirm EXCEPT !.st = s]
    BY <1>8 DEF CardServed
  <2>3. /\ confirm' \in [st : {"sent", "accepted", "declined", "failed"}, of : Payment]
        /\ confirm'.of = intent
    BY <2>1, <2>2
  <2>4. intents' = intents \/ intents' = [intents EXCEPT ![intent] = "charged"]
    BY <1>8, <2>1 DEF CardServed
  <2>5. intents' \in [Payment -> Outcomes] /\ \A p \in Payment : intents'[p] # "none" => p <= payments
    BY <2>1, <2>4
  <2>6. unheard' \in 0 .. MaxMishaps
    BY <1>8 DEF CardServed
  <2> QED
    BY <1>8, <2>1, <2>3, <2>5, <2>6 DEF CardServed
<1>9. CASE CardDone
  BY <1>9 DEF CardDone
<1> QED
  BY <1>1, <1>2, <1>3, <1>4, <1>5, <1>6, <1>7, <1>8, <1>9 DEF CheckoutNext

LEMMA ChargesStep ==
  ASSUME CheckoutInv, CheckoutNext PROVE ChargesAccounted'
<1> USE DEF CheckoutInv
<1>n. Cardinality(Charged) \in Nat
  BY ChargedFinite
<1>u. unheard \in Nat /\ reopened \in Nat
  BY CheckoutConstants DEF CheckoutTypeOK
<1>0. ASSUME UNCHANGED intents, KnowsCharge => KnowsCharge' \/ reopened' = reopened + 1,
             unheard' \in {unheard, unheard + 1}, reopened' \in {reopened, reopened + 1}
      PROVE  ChargesAccounted'
  BY <1>0, <1>n, <1>u, ChargedSame DEF ChargesAccounted
<1>1. CASE InitiateServed
  <2> DEFINE p == payments + 1
  <2>1. PICK o \in Initiated :
          /\ intents' = [intents EXCEPT ![p] = o]
          /\ \/ initiate' = [st |-> "answered", of |-> p] /\ UNCHANGED unheard
             \/ initiate' = [st |-> "failed", of |-> 0] /\ unheard' = unheard + 1
    BY <1>1 DEF InitiateServed, Initiated
  <2>2. /\ p \in Payment /\ o \in Outcomes /\ intents[p] # "charged"
        /\ ~KnowsCharge /\ reopened' = reopened
    BY <1>1, CheckoutConstants DEF InitiateServed, Initiated, CheckoutTypeOK, Payment, Outcomes, KnowsCharge, NoCall
  <2>3. /\ Cardinality(Charged') \in Nat
        /\ Cardinality(Charged') <= Cardinality(Charged) + 1
        /\ o # "charged" => Cardinality(Charged') = Cardinality(Charged)
    BY <2>1, <2>2, ChargedGrows
  <2>4. intents'[p] = o
    BY <2>1, <2>2 DEF CheckoutTypeOK
  <2>5. o = "charged" => KnowsCharge' \/ unheard' = unheard + 1
    BY <2>1, <2>4 DEF KnowsCharge
  <2>6. unheard' \in {unheard, unheard + 1}
    BY <2>1
  <2> QED
    BY <2>2, <2>3, <2>5, <2>6, <1>n, <1>u DEF ChargesAccounted
<1>2. CASE InitiateRefused
  BY <1>2, <1>0 DEF InitiateRefused, KnowsCharge, CheckoutTypeOK, NoCall
<1>3. CASE InitiateShown
  BY <1>3, <1>0 DEF InitiateShown, PhaseFor, KnowsCharge, CheckoutTypeOK, NoCall
<1>4. CASE InitiateFails
  BY <1>4, <1>0 DEF InitiateFails, KnowsCharge, CheckoutTypeOK, NoCall
<1>5. CASE Retry
  BY <1>5, <1>0 DEF Retry, Retriable, KnowsCharge, CheckoutTypeOK, NoCall
<1>6. CASE Reopen
  BY <1>6, <1>0 DEF Reopen, KnowsCharge
<1>7. CASE PayByCard
  BY <1>7, <1>0 DEF PayByCard, KnowsCharge, CheckoutTypeOK, NoCall
<1>8. CASE CardServed
  <2> DEFINE p == confirm.of
  <2>1. p \in Payment /\ ~KnowsCharge /\ reopened' = reopened
    BY <1>8 DEF CardServed, CheckoutTypeOK, KnowsCharge, NoCall
  <2>2. CASE /\ intents' = [intents EXCEPT ![p] = "charged"]
             /\ \/ confirm' = [confirm EXCEPT !.st = "accepted"] /\ UNCHANGED unheard
                \/ confirm' = [confirm EXCEPT !.st = "failed"] /\ unheard' = unheard + 1
    <3>1. Cardinality(Charged') \in Nat /\ Cardinality(Charged') <= Cardinality(Charged) + 1
      BY <2>1, <2>2, ChargedGrows DEF Outcomes
    <3>2. KnowsCharge' \/ unheard' = unheard + 1
      BY <2>2, <1>8 DEF CardServed, CheckoutTypeOK, NoCall, KnowsCharge
    <3>3. unheard' \in {unheard, unheard + 1}
      BY <2>2
    <3> QED
      BY <2>1, <3>1, <3>2, <3>3, <1>n, <1>u DEF ChargesAccounted
  <2>3. CASE UNCHANGED <<intents, unheard>>
    BY <2>1, <2>3, <1>0
  <2> QED
    BY <1>8, <2>2, <2>3 DEF CardServed
<1>9. CASE CardDone
  BY <1>9, <1>0 DEF CardDone, KnowsCharge, CheckoutTypeOK, NoCall
<1> QED
  BY <1>1, <1>2, <1>3, <1>4, <1>5, <1>6, <1>7, <1>8, <1>9 DEF CheckoutNext

LEMMA CheckoutStep == CheckoutInv /\ [CheckoutNext]_checkoutVars => CheckoutInv'
<1> SUFFICES ASSUME CheckoutInv, [CheckoutNext]_checkoutVars PROVE CheckoutInv'
  OBVIOUS
<1>1. CASE CheckoutNext
  BY <1>1, CheckoutTypeStep, ChargesStep DEF CheckoutInv
<1>2. CASE UNCHANGED checkoutVars
  <2>1. CheckoutTypeOK' /\ OnPayments'
    BY <1>2 DEF CheckoutInv, checkoutVars, CheckoutTypeOK, OnPayments
  <2>2. ChargesAccounted'
    BY <1>2, ChargedSame DEF CheckoutInv, checkoutVars, ChargesAccounted, KnowsCharge
  <2> QED
    BY <2>1, <2>2 DEF CheckoutInv
<1> QED
  BY <1>1, <1>2

LEMMA CheckoutInvGives == CheckoutInv => CheckoutTypeOK /\ ChargedOnce
BY ChargedFinite DEF CheckoutInv, CheckoutTypeOK, ChargesAccounted, ChargedOnce

\* However often the user retries, the offer is charged once but for the charges whose
\* answer, or whose page, was lost (handleSubmit, initiatePayment).
THEOREM CheckoutChargesOnce == CheckoutSpec => []ChargedOnce
BY CheckoutInitInv, CheckoutStep, CheckoutInvGives, PTL DEF CheckoutSpec

\* The payments on the page are those that were made, one call at a time.
THEOREM CheckoutTypes == CheckoutSpec => []CheckoutTypeOK
BY CheckoutInitInv, CheckoutStep, CheckoutInvGives, PTL DEF CheckoutSpec

----------------------------------------------------------------------------
(* The offers' socket. *)

\* Sockets are numbered as they are opened, and the hook knows one of them or none.
Numbered == wsRef <= opened /\ \A s \in socks : s.id <= opened

\* Every connect is for the building of the last effect.
ForLatest ==
  /\ building # "none" => latest = building
  /\ \A s \in socks : s.id = wsRef => s.for = latest

\* While only the network has acted: the effect is about to start, or there is one
\* socket, or one timer.
OneWay ==
  moves = 0 =>
    /\ starting => socks = {} /\ timers = {}
    /\ socks = {} \/ timers = {}
    /\ \A s, t \in socks : s = t
    /\ \A i, j \in timers : i = j

SocketInv == SocketTypeOK /\ Numbered /\ ForLatest /\ OneWay

LEMMA SocketInitInv == SocketInit => SocketInv
BY SocketConstants DEF SocketInit, SocketInv, SocketTypeOK, Numbered, ForLatest, OneWay

\* Closing a socket changes neither its number nor what it is for.
LEMMA ClosedSock ==
  ASSUME NEW s \in Sock, NEW st \in {"connecting", "open", "closing"}
  PROVE  /\ [s EXCEPT !.st = st] \in Sock
         /\ [s EXCEPT !.st = st].id = s.id /\ [s EXCEPT !.st = st].for = s.for
BY DEF Sock

LEMMA ReplacedSocks ==
  ASSUME SocketTypeOK
  PROVE  /\ Replaced \subseteq Sock
         /\ \A t \in Replaced : \E s \in socks : t.id = s.id /\ t.for = s.for
         /\ \A s, t \in Replaced : s.id = t.id => s = t
         /\ socks = {} => Replaced = {}
<1> DEFINE closed(s) == IF s.id = wsRef THEN [s EXCEPT !.st = "closing"] ELSE s
<1>1. Replaced = {closed(s) : s \in socks}
  BY DEF Replaced, WithClosed
<1>2. \A s \in socks : closed(s) \in Sock /\ closed(s).id = s.id /\ closed(s).for = s.for
  BY ClosedSock DEF SocketTypeOK
<1>3. \A s, t \in socks : s.id = t.id => s = t
  BY DEF SocketTypeOK
<1> HIDE DEF closed
<1> QED
  BY <1>1, <1>2, <1>3

\* What connect() does to the invariant's parts about sockets.
LEMMA ConnectKeeps ==
  ASSUME SocketTypeOK, Numbered, NEW b \in Buildings, Connect(b)
  PROVE  /\ socks' \subseteq Sock /\ \A s, t \in socks' : s.id = t.id => s = t
         /\ wsRef' = opened' /\ opened' \in 0 .. MaxSockets
         /\ \A s \in socks' : s.id <= opened' /\ (s.id = wsRef' => s.for = b)
         /\ socks = {} => \A s, t \in socks' : s = t
<1> DEFINE new == [id |-> opened + 1, for |-> b, st |-> "connecting"]
<1>1. opened \in Nat /\ opened + 1 \in 1 .. MaxSockets
  BY SocketConstants DEF SocketTypeOK, Connect
<1>2. /\ opened' = opened + 1 /\ wsRef' = opened + 1
      /\ socks' = Replaced \cup {new}
  BY DEF Connect
<1>3. new \in Sock /\ new.id = opened + 1 /\ new.for = b
  BY <1>1 DEF Sock
<1> HIDE DEF new
<1>4. \A s \in Replaced : s \in Sock /\ s.id \in Nat /\ s.id <= opened
  BY ReplacedSocks, SocketConstants DEF Numbered, SocketTypeOK, Sock
<1>5. \A s, t \in Replaced : s.id = t.id => s = t
  BY ReplacedSocks
<1>6. \A s \in Replaced : s.id # new.id
  BY <1>1, <1>3, <1>4
<1>7. \A s, t \in socks' : s.id = t.id => s = t
  BY <1>2, <1>5, <1>6
<1>8. \A s \in socks' : s.id <= opened + 1 /\ (s.id = opened + 1 => s.for = b)
  BY <1>1, <1>2, <1>3, <1>4
<1>9. socks = {} => socks' = {new}
  BY <1>2, ReplacedSocks
<1> QED
  BY <1>1, <1>2, <1>3, <1>4, <1>7, <1>8, <1>9

LEMMA SocketStep == SocketInv /\ [SocketNext]_socketVars => SocketInv'
<1> SUFFICES ASSUME SocketInv, [SocketNext]_socketVars PROVE SocketInv'
  OBVIOUS
<1>t. /\ SocketTypeOK /\ Numbered /\ ForLatest /\ OneWay
      /\ wsRef \in Nat /\ opened \in Nat /\ moves \in Nat /\ latest \in Buildings
      /\ 0 \in 0 .. MaxAttempts /\ 0 \in 0 .. MaxSockets
      /\ \A s \in socks : s \in Sock /\ s.id \in 1 .. MaxSockets
  BY SocketConstants DEF SocketInv, SocketTypeOK, Sock
<1>1. CASE EffectStarts
  <2>1. Connect(latest) /\ UNCHANGED <<building, latest, timers, timerRef, attempts, moves>> /\ starting' = FALSE
        /\ starting
    BY <1>1 DEF EffectStarts
  <2>2. SocketTypeOK'
    BY <2>1, <1>t, ConnectKeeps DEF SocketTypeOK
  <2>3. Numbered' /\ ForLatest'
    BY <2>1, <1>t, ConnectKeeps DEF SocketTypeOK, Numbered, ForLatest
  <2>4. OneWay'
    BY <2>1, <1>t, ConnectKeeps DEF OneWay
  <2> QED
    BY <2>2, <2>3, <2>4 DEF SocketInv
<1>2. CASE Reconnect
  <2>1. /\ Connect(building) /\ building # "none" /\ moves' = moves + 1 /\ moves' <= MaxMoves /\ attempts' = 0
        /\ UNCHANGED <<building, latest, starting, timers, timerRef>>
    BY <1>2, <1>t, SocketConstants DEF Reconnect, Move
  <2>2. building = latest
    BY <2>1, <1>t DEF ForLatest
  <2>3. SocketTypeOK'
    BY <2>1, <2>2, <1>t, ConnectKeeps, SocketConstants DEF SocketTypeOK
  <2>4. Numbered' /\ ForLatest'
    BY <2>1, <2>2, <1>t, ConnectKeeps DEF SocketTypeOK, Numbered, ForLatest
  <2>5. OneWay'
    BY <2>1, <1>t DEF OneWay
  <2> QED
    BY <2>3, <2>4, <2>5 DEF SocketInv
<1>3. ASSUME NEW i \in timers, TimerFires(i) PROVE SocketInv'
  <2>1. /\ Connect(latest) /\ timers' = timers \ {i}
        /\ UNCHANGED <<building, latest, starting, timerRef, attempts, moves>>
    BY <1>3 DEF TimerFires
  <2>2. SocketTypeOK'
    BY <2>1, <1>t, ConnectKeeps DEF SocketTypeOK
  <2>3. Numbered' /\ ForLatest'
    BY <2>1, <1>t, ConnectKeeps DEF SocketTypeOK, Numbered, ForLatest
  <2>4. OneWay'
    BY <2>1, <1>t, ConnectKeeps DEF OneWay
  <2> QED
    BY <2>2, <2>3, <2>4 DEF SocketInv
<1>4. ASSUME NEW s \in socks, Opens(s) PROVE SocketInv'
  <2> DEFINE t == [s EXCEPT !.st = "open"]
  <2>1. t \in Sock /\ t.id = s.id /\ t.for = s.for
    BY ClosedSock, <1>t
  <2> HIDE DEF t
  <2>2. /\ socks' = (socks \ {s}) \cup {t} /\ attempts' = 0
        /\ UNCHANGED <<building, latest, starting, wsRef, timers, timerRef, opened, moves>>
    BY <1>4 DEF Opens, t
  <2>3. SocketTypeOK'
    BY <2>1, <2>2, <1>t DEF SocketTypeOK
  <2>4. Numbered' /\ ForLatest'
    BY <2>1, <2>2, <1>t, <1>4 DEF Numbered, ForLatest
  <2>5. OneWay'
    BY <2>1, <2>2, <1>t, <1>4 DEF OneWay
  <2> QED
    BY <2>3, <2>4, <2>5 DEF SocketInv
<1>5. ASSUME NEW s \in socks, Closes(s) PROVE SocketInv'
  <2>1. /\ socks' = socks \ {s} /\ wsRef' = 0
        /\ timers' \subseteq timers \cup {s.id} /\ timerRef' \in {timerRef, s.id}
        /\ attempts' \in 0 .. MaxAttempts
        /\ UNCHANGED <<building, latest, starting, opened, moves>>
    BY <1>5, <1>t, SocketConstants DEF Closes, Delayed, SocketTypeOK
  <2>2. SocketTypeOK'
    BY <2>1, <1>t DEF SocketTypeOK
  <2>3. Numbered' /\ ForLatest'
    BY <2>1, <1>t DEF Numbered, ForLatest
  <2>4. OneWay'
    BY <2>1, <1>t, <1>5 DEF OneWay
  <2> QED
    BY <2>2, <2>3, <2>4 DEF SocketInv
<1>6. ASSUME Cleanup, Move, building' \in Buildings \cup {"none"}, latest' \in Buildings,
             building' # "none" => latest' = building', starting' \in BOOLEAN,
             UNCHANGED <<timerRef, attempts, opened>>
      PROVE  SocketInv'
  <2>1. /\ moves' = moves + 1 /\ moves' \in 0 .. MaxMoves
        /\ socks' = Replaced /\ wsRef' = 0 /\ timers' \subseteq timers
    BY <1>6, <1>t, SocketConstants DEF Cleanup, Move, SocketTypeOK
  <2>2. \A s \in socks' : s \in Sock /\ s.id \in 1 .. MaxSockets /\ s.id <= opened
    BY <2>1, <1>t, ReplacedSocks DEF Numbered, Sock
  <2>3. SocketTypeOK'
    BY <2>1, <2>2, <1>6, <1>t, ReplacedSocks DEF SocketTypeOK
  <2>4. Numbered' /\ ForLatest'
    BY <2>1, <2>2, <1>6, <1>t DEF Numbered, ForLatest
  <2>5. OneWay'
    BY <2>1, <1>t DEF OneWay
  <2> QED
    BY <2>3, <2>4, <2>5 DEF SocketInv
<1>7. CASE Unmount
  BY <1>7, <1>6, <1>t DEF Unmount
<1>8. ASSUME NEW b \in Buildings, ChangeBuilding(b) PROVE SocketInv'
  BY <1>8, <1>6 DEF ChangeBuilding, ConnectRef
<1>9. CASE UNCHANGED socketVars
  BY <1>9 DEF socketVars, SocketInv, SocketTypeOK, Numbered, ForLatest, OneWay
<1> QED
  BY <1>1, <1>2, <1>3, <1>4, <1>5, <1>7, <1>8, <1>9 DEF SocketNext

\* A set whose elements are all the same has at most one.
LEMMA AtMostOne ==
  ASSUME NEW S, \A s, t \in S : s = t
  PROVE  Cardinality(S) \in {0, 1} /\ (S = {} => Cardinality(S) = 0)
<1>1. S = {} \/ \E x : S = {x}
  <2>1. ASSUME NEW x \in S PROVE S = {x}
    BY <2>1
  <2> QED
    BY <2>1
<1> QED
  BY <1>1, FS_EmptySet, FS_Singleton

LEMMA SocketInvGives == SocketInv => SocketInOrder
<1>1. SocketInv => SocketIsForBuilding
  BY DEF SocketInv, ForLatest, SocketIsForBuilding
<1>2. SocketInv => OneSocketUndisturbed
  <2> SUFFICES ASSUME SocketInv, moves = 0
      PROVE  Cardinality(socks) + Cardinality(timers) + (IF starting THEN 1 ELSE 0) <= 1
    BY DEF OneSocketUndisturbed
  <2>1. /\ Cardinality(socks) \in {0, 1} /\ (socks = {} => Cardinality(socks) = 0)
        /\ Cardinality(timers) \in {0, 1} /\ (timers = {} => Cardinality(timers) = 0)
    BY AtMostOne DEF SocketInv, OneWay
  <2> QED
    BY <2>1 DEF SocketInv, OneWay
<1> QED
  BY <1>1, <1>2 DEF SocketInOrder

\* The hook's socket is for the building on the screen, and the network alone never makes
\* it two (connect, the effect's cleanup, onclose).
THEOREM SocketKeepsOrder == SocketSpec => []SocketInOrder
BY SocketInitInv, SocketStep, SocketInvGives, PTL DEF SocketSpec

\* What the hook holds: numbered sockets, timers of sockets that closed, its counters.
THEOREM SocketTypes == SocketSpec => []SocketTypeOK
BY SocketInitInv, SocketStep, PTL DEF SocketSpec, SocketInv

----------------------------------------------------------------------------
(* The notification panel. *)

\* The shape of an operation under way.
Operation ==
  [id : Nat, on : SUBSET Notes, all : BOOLEAN, to : {"read", "none"}, rows : View, badge : Nat,
   unread : BOOLEAN, st : {"sent", "ok", "failed"}]

\* And of a refresh.
Loading ==
  [on : BOOLEAN, view : View, listed : BOOLEAN, count : Nat, counted : BOOLEAN, alone : BOOLEAN]

PanelShape ==
  /\ notes \in View /\ rows \in View /\ badge \in Nat /\ changes \in Nat
  /\ listing \in Loading
  /\ counting \in [on : BOOLEAN, count : Nat, counted : BOOLEAN]
  /\ ops \subseteq Operation

\* A refresh that is still alone holds what the backend has.
AloneIsFresh ==
  listing.on /\ listing.alone =>
    /\ ops = {} /\ ~counting.on
    /\ listing.listed => listing.view = notes
    /\ listing.counted => listing.count = Unread(notes)

\* An operation that failed, or is not served yet, can be undone: the backend has the list it
\* started from, and the badge of that list can be had back.
Undoable(o) ==
  /\ notes = o.rows /\ rows = Applied(o.rows, o.on, o.to)
  /\ o.badge = Unread(o.rows)
  /\ o.to = "read" /\ ~o.all => o.badge = IF o.unread THEN badge + 1 ELSE badge

\* While nothing has overlapped, the badge counts the rows, and the rows are the backend's
\* but for the one operation under way.
CleanIsTrue ==
  clean =>
    /\ badge = Unread(rows)
    /\ ops = {} => rows = notes
    /\ \A o, p \in ops : o = p
    /\ \A o \in ops : IF o.st = "ok" THEN rows = notes ELSE Undoable(o)
    /\ counting.on => ops = {} /\ (counting.counted => counting.count = Unread(notes))

PanelInv == PanelShape /\ AloneIsFresh /\ CleanIsTrue

UnreadOf(v) == {n \in Notes : v[n] = "unread"}

LEMMA UnreadCounts ==
  ASSUME NEW v PROVE IsFiniteSet(UnreadOf(v)) /\ Unread(v) = Cardinality(UnreadOf(v)) /\ Unread(v) \in Nat
<1>1. IsFiniteSet(UnreadOf(v))
  BY PanelConstants, FS_Subset, UnreadOf(v) \in SUBSET Notes DEF UnreadOf
<1> QED
  BY <1>1, FS_CardinalityType DEF Unread, UnreadOf

LEMMA AppliedIsView ==
  ASSUME NEW v \in View, NEW on, NEW to \in {"read", "none"} PROVE Applied(v, on, to) \in View
BY DEF Applied, View, States

\* One row marked or deleted: one less unread, if it was.
LEMMA UnreadAfterOne ==
  ASSUME NEW v \in View, NEW n \in Notes, NEW to \in {"read", "none"}, v[n] # "none"
  PROVE  Unread(v) = IF v[n] = "unread" THEN Unread(Applied(v, {n}, to)) + 1
                                        ELSE Unread(Applied(v, {n}, to))
<1> DEFINE w == Applied(v, {n}, to)
<1>1. UnreadOf(w) = UnreadOf(v) \ {n}
  BY DEF Applied, View, UnreadOf
<1> HIDE DEF w
<1>2. Cardinality(UnreadOf(w)) = IF n \in UnreadOf(v) THEN Cardinality(UnreadOf(v)) - 1
                                                      ELSE Cardinality(UnreadOf(v))
  <2>1. IsFiniteSet(UnreadOf(v))
    BY UnreadCounts
  <2> QED
    BY ONLY <1>1, <2>1, FS_RemoveElement
<1>3. n \in UnreadOf(v) <=> v[n] = "unread"
  BY DEF UnreadOf
<1>4. Unread(v) = IF v[n] = "unread" THEN Unread(w) + 1 ELSE Unread(w)
  BY <1>2, <1>3, UnreadCounts
<1> QED
  BY <1>4 DEF w

\* All of them: none unread.
LEMMA UnreadAfterAll ==
  ASSUME NEW v \in View, NEW to \in {"read", "none"}
  PROVE  Unread(Applied(v, Notes, to)) = 0
<1>1. UnreadOf(Applied(v, Notes, to)) = {}
  BY DEF Applied, View, UnreadOf
<1> QED
  BY <1>1, UnreadCounts, FS_EmptySet

LEMMA NewLoading ==
  ASSUME NEW alone \in BOOLEAN
  PROVE  NoList \in Loading /\ [NoList EXCEPT !.on = TRUE, !.alone = alone] \in Loading
BY DEF NoList, Loading, NoView, View, States

LEMMA NotAlone ==
  ASSUME NEW l \in Loading
  PROVE  [l EXCEPT !.alone = FALSE] \in Loading /\ [l EXCEPT !.alone = FALSE].alone = FALSE
BY DEF Loading

LEMMA PanelInitInv == PanelInit => PanelInv
BY DEF PanelInit, PanelInv, PanelShape, Loading, AloneIsFresh, CleanIsTrue, View, States, NoView, NoList, NoCount

\* The click: the screen first. One row, or all of them.
LEMMA PressKeeps ==
  ASSUME PanelInv, NEW on \in SUBSET Notes, NEW all \in BOOLEAN, NEW to \in {"read", "none"},
         all => on = Notes, ~all => \E n \in Notes : on = {n} /\ rows[n] # "none",
         Press(on, all, to)
  PROVE  PanelInv'
<1> DEFINE unread == \E n \in on : rows[n] = "unread"
           o == [id |-> changes + 1, on |-> on, all |-> all, to |-> to, rows |-> rows,
                 badge |-> badge, unread |-> unread, st |-> "sent"]
<1>1. /\ ops' = ops \cup {o} /\ rows' = Applied(rows, on, to)
      /\ badge' = BadgeAfter(on, all, unread) /\ changes' = changes + 1
      /\ clean' = (clean /\ Still) /\ listing' = [listing EXCEPT !.alone = FALSE]
      /\ notes' = notes /\ counting' = counting
  BY DEF Press, Change
<1>2. PanelShape
  BY DEF PanelInv
<1>3. unread \in BOOLEAN
  OBVIOUS
<1>4. o \in Operation
  BY <1>1, <1>2, <1>3 DEF PanelShape, Operation
<1>5. badge' \in Nat
  BY <1>1, <1>2 DEF PanelShape, BadgeAfter
<1>6. rows' \in View
  BY <1>1, <1>2, AppliedIsView DEF PanelShape
<1>7. listing' \in Loading /\ ~listing'.alone
  BY <1>1, <1>2, NotAlone DEF PanelShape
<1> HIDE DEF o, unread
<1>8. PanelShape'
  BY <1>1, <1>2, <1>4, <1>5, <1>6, <1>7 DEF PanelShape
<1>9. AloneIsFresh'
  BY <1>7 DEF AloneIsFresh
<1>10. ASSUME clean'
       PROVE  /\ rows = notes /\ badge = Unread(rows) /\ ops = {} /\ ~counting.on
  BY <1>1, <1>10 DEF PanelInv, CleanIsTrue, Still
<1>11. ASSUME clean'
       PROVE  /\ badge' = Unread(rows')
              /\ ~all => badge = IF unread THEN badge' + 1 ELSE badge'
  <2>1. CASE all
    BY <2>1, <1>1, <1>2, UnreadAfterAll DEF BadgeAfter, PanelShape
  <2>2. CASE ~all
    <3>1. PICK n \in Notes : on = {n} /\ rows[n] # "none"
      BY <2>2
    <3>2. unread <=> rows[n] = "unread"
      BY <3>1 DEF unread
    <3>3. badge = IF unread THEN Unread(rows') + 1 ELSE Unread(rows')
      BY <1>1, <1>2, <1>10, <1>11, <3>1, <3>2, UnreadAfterOne DEF PanelShape
    <3>4. Unread(rows') \in Nat
      BY UnreadCounts
    <3> HIDE DEF unread
    <3>5. badge' = IF unread THEN badge - 1 ELSE badge
      BY <1>1, <2>2, <3>3, <3>4 DEF BadgeAfter
    <3> QED
      BY <3>3, <3>4, <3>5
  <2> QED
    BY <2>1, <2>2
<1>12. ASSUME clean', NEW p \in ops'
       PROVE  /\ p.st = "sent" /\ notes' = p.rows /\ rows' = Applied(p.rows, p.on, p.to)
              /\ p.badge = Unread(p.rows)
              /\ p.to = "read" /\ ~p.all => p.badge = IF p.unread THEN badge' + 1 ELSE badge'
  <2>1. p = o
    BY <1>1, <1>10, <1>12
  <2> USE DEF o
  <2>2. /\ o.st = "sent" /\ o.rows = rows /\ o.on = on /\ o.to = to /\ o.badge = badge
        /\ o.all = all /\ o.unread = unread
    OBVIOUS
  <2> HIDE DEF o, unread
  <2> QED
    BY <2>1, <2>2, <1>1, <1>10, <1>11, <1>12
<1>13. CleanIsTrue'
  <2> SUFFICES ASSUME clean' PROVE CleanIsTrue'
    BY DEF CleanIsTrue
  <2>1. ops' = {o} /\ ~counting'.on
    BY <1>1, <1>10
  <2> HIDE DEF o
  <2> QED
    BY <1>11, <1>12, <2>1 DEF CleanIsTrue, Undoable
<1> QED
  BY <1>8, <1>9, <1>13 DEF PanelInv

LEMMA OpServedKeeps ==
  ASSUME PanelInv, NEW o \in ops, OpServed(o) PROVE PanelInv'
<1>1. PanelShape /\ o \in Operation
  BY DEF PanelInv, PanelShape
<1>2. PICK s \in {"ok", "failed"} :
        /\ ops' = (ops \ {o}) \cup {[o EXCEPT !.st = s]}
        /\ IF s = "ok" THEN clean' = clean ELSE clean' = FALSE
        /\ changes' \in {changes, changes + 1}
  BY DEF OpServed, Change
<1> DEFINE p == [o EXCEPT !.st = s]
<1>3. /\ p \in Operation /\ p.st = s
  BY <1>1 DEF Operation
<1> HIDE DEF p
<1>4. /\ o.st = "sent" /\ notes' = Applied(notes, o.on, o.to) /\ ops' = (ops \ {o}) \cup {p}
      /\ UNCHANGED <<rows, badge, listing, counting>>
  BY <1>2 DEF OpServed, p
<1>5. notes' \in View
  BY <1>1, <1>4, AppliedIsView DEF PanelShape, Operation
<1>6. PanelShape'
  BY <1>1, <1>2, <1>3, <1>4, <1>5 DEF PanelShape
<1>7. AloneIsFresh'
  BY <1>4 DEF PanelInv, AloneIsFresh
<1>8. ASSUME clean' PROVE s = "ok" /\ clean /\ ops' = {p} /\ notes' = rows /\ ~counting.on
  BY <1>2, <1>4, <1>8 DEF PanelInv, CleanIsTrue, Undoable
<1>9. CleanIsTrue'
  BY <1>3, <1>4, <1>8 DEF PanelInv, CleanIsTrue
<1> QED
  BY <1>6, <1>7, <1>9 DEF PanelInv

LEMMA OpRefusedKeeps ==
  ASSUME PanelInv, NEW o \in ops, OpRefused(o) PROVE PanelInv'
<1> DEFINE p == [o EXCEPT !.st = "failed"]
<1>1. PanelShape /\ o \in Operation
  BY DEF PanelInv, PanelShape
<1>2. /\ p \in Operation /\ p.st = "failed" /\ p.rows = o.rows /\ p.on = o.on /\ p.to = o.to
      /\ p.badge = o.badge /\ p.all = o.all /\ p.unread = o.unread
  BY <1>1 DEF Operation
<1>3. /\ o.st = "sent" /\ ops' = (ops \ {o}) \cup {p} /\ changes' = changes + 1
      /\ UNCHANGED <<notes, rows, badge, listing, counting, clean>>
  BY DEF OpRefused, Change
<1> HIDE DEF p
<1>4. PanelShape'
  BY <1>1, <1>2, <1>3 DEF PanelShape
<1>5. AloneIsFresh'
  BY <1>3 DEF PanelInv, AloneIsFresh
<1>6. ASSUME clean PROVE ops' = {p} /\ ~counting.on /\ badge = Unread(rows) /\ Undoable(o)
  BY <1>3, <1>6 DEF PanelInv, CleanIsTrue
<1>7. CleanIsTrue'
  BY <1>2, <1>3, <1>6 DEF CleanIsTrue, Undoable
<1> QED
  BY <1>4, <1>5, <1>7 DEF PanelInv

LEMMA OpFailedKeeps ==
  ASSUME PanelInv, NEW o \in ops, OpFailed(o) PROVE PanelInv'
<1>1. PanelShape /\ o \in Operation
  BY DEF PanelInv, PanelShape
<1>2. /\ o.st = "failed" /\ ops' = ops \ {o} /\ rows' = o.rows
      /\ badge' = IF o.to = "read" /\ ~o.all THEN IF o.unread THEN badge + 1 ELSE badge
                                             ELSE o.badge
      /\ UNCHANGED <<notes, listing, counting, clean, changes>>
  BY DEF OpFailed, PutBack
<1>3. PanelShape'
  BY <1>1, <1>2 DEF PanelShape, Operation
<1>4. AloneIsFresh'
  BY <1>2 DEF PanelInv, AloneIsFresh
<1>5. ASSUME clean PROVE ops' = {} /\ ~counting.on /\ Undoable(o)
  BY <1>2, <1>5 DEF PanelInv, CleanIsTrue
<1>6. ASSUME clean PROVE badge' = o.badge
  BY <1>2, <1>5, <1>6 DEF Undoable
<1>7. CleanIsTrue'
  BY <1>2, <1>5, <1>6 DEF CleanIsTrue, Undoable
<1> QED
  BY <1>3, <1>4, <1>7 DEF PanelInv

\* What the list's loading, the polls and the arrivals do.
LEMMA LoadsKeep ==
  ASSUME PanelInv,
         \/ Refresh \/ ListRead \/ ListShown \/ ListFails \/ PollCount \/ CountRead \/ CountShown
         \/ \E n \in Notes : Arrives(n)
         \/ \E o \in ops : OpDone(o)
  PROVE  PanelInv'
<1>0. Unread(notes) \in Nat
  BY UnreadCounts
<1> USE DEF PanelInv
<1>1. CASE Refresh
  <2>1. PanelShape'
    <3>1. Still \in BOOLEAN
      BY DEF Still
    <3>2. listing' \in Loading
      BY <1>1, <3>1, NewLoading DEF Refresh
    <3> QED
      BY <1>1, <3>2 DEF Refresh, Change, PanelShape
  <2>2. AloneIsFresh' /\ CleanIsTrue'
    BY <1>1 DEF Refresh, AloneIsFresh, CleanIsTrue, Undoable, NoList, Still
  <2> QED
    BY <2>1, <2>2
<1>2. CASE ListRead
  <2>1. PanelShape'
    BY <1>0, <1>2 DEF ListRead, PanelShape, Loading
  <2>2. AloneIsFresh' /\ CleanIsTrue'
    BY <1>2 DEF ListRead, AloneIsFresh, CleanIsTrue, Undoable, PanelShape, Loading
  <2> QED
    BY <2>1, <2>2
<1>3. CASE ListShown
  <2>1. PanelShape'
    BY <1>3, NewLoading DEF ListShown, PanelShape, Loading
  <2>2. AloneIsFresh' /\ CleanIsTrue'
    BY <1>3 DEF ListShown, AloneIsFresh, CleanIsTrue, NoList
  <2> QED
    BY <2>1, <2>2
<1>4. CASE ListFails
  <2>1. PanelShape'
    <3>1. listing' \in Loading
      BY <1>4, NewLoading DEF ListFails
    <3> QED
      BY <1>4, <3>1 DEF ListFails, Change, PanelShape
  <2>2. AloneIsFresh' /\ CleanIsTrue'
    BY <1>4 DEF ListFails, AloneIsFresh, CleanIsTrue, Undoable, NoList
  <2> QED
    BY <2>1, <2>2
<1>5. CASE PollCount
  <2>1. PanelShape'
    <3>1. listing' \in Loading
      BY <1>5, NotAlone DEF PollCount, PanelShape
    <3>2. counting' \in [on : BOOLEAN, count : Nat, counted : BOOLEAN]
      BY <1>5 DEF PollCount, NoCount
    <3> QED
      BY <1>5, <3>1, <3>2 DEF PollCount, Change, PanelShape
  <2>2. AloneIsFresh' /\ CleanIsTrue'
    BY <1>5 DEF PollCount, AloneIsFresh, CleanIsTrue, Undoable, PanelShape, Loading, NoCount, Still
  <2> QED
    BY <2>1, <2>2
<1>6. CASE CountRead
  <2>1. PanelShape'
    BY <1>0, <1>6 DEF CountRead, PanelShape
  <2>2. AloneIsFresh' /\ CleanIsTrue'
    BY <1>6 DEF CountRead, AloneIsFresh, CleanIsTrue, Undoable, PanelShape, Loading
  <2> QED
    BY <2>1, <2>2
<1>7. CASE CountShown
  <2>1. PanelShape'
    BY <1>7 DEF CountShown, PanelShape, NoCount
  <2>2. AloneIsFresh' /\ CleanIsTrue'
    BY <1>7 DEF CountShown, AloneIsFresh, CleanIsTrue, Undoable, NoCount
  <2> QED
    BY <2>1, <2>2
<1>8. ASSUME NEW n \in Notes, Arrives(n) PROVE PanelInv'
  <2>1. PanelShape'
    <3>1. notes' \in View
      BY <1>8 DEF Arrives, PanelShape, View, States
    <3> QED
      BY <1>8, <3>1, NotAlone DEF Arrives, Change, PanelShape
  <2>2. AloneIsFresh' /\ CleanIsTrue'
    BY <1>8 DEF Arrives, AloneIsFresh, CleanIsTrue, PanelShape, Loading
  <2> QED
    BY <2>1, <2>2
<1>9. ASSUME NEW o \in ops, OpDone(o) PROVE PanelInv'
  <2>1. PanelShape'
    BY <1>9 DEF OpDone, PanelShape
  <2>2. AloneIsFresh' /\ CleanIsTrue'
    BY <1>9 DEF OpDone, AloneIsFresh, CleanIsTrue, Undoable
  <2> QED
    BY <2>1, <2>2
<1> QED
  BY <1>1, <1>2, <1>3, <1>4, <1>5, <1>6, <1>7, <1>8, <1>9

LEMMA PanelStep == PanelInv /\ [PanelNext]_panelVars => PanelInv'
<1> SUFFICES ASSUME PanelInv, [PanelNext]_panelVars PROVE PanelInv'
  OBVIOUS
<1>1. ASSUME NEW n \in Notes, MarkOne(n) PROVE PanelInv'
  BY <1>1, PressKeeps, {n} \in SUBSET Notes DEF MarkOne
<1>2. ASSUME NEW n \in Notes, DeleteOne(n) PROVE PanelInv'
  BY <1>2, PressKeeps, {n} \in SUBSET Notes DEF DeleteOne
<1>3. CASE MarkAll \/ ClearAll
  BY <1>3, PressKeeps, Notes \in SUBSET Notes DEF MarkAll, ClearAll
<1>4. CASE UNCHANGED panelVars
  BY <1>4 DEF panelVars, PanelInv, PanelShape, AloneIsFresh, CleanIsTrue, Undoable
<1> QED
  BY <1>1, <1>2, <1>3, <1>4, LoadsKeep, OpServedKeeps, OpRefusedKeeps, OpFailedKeeps DEF PanelNext

LEMMA PanelInvGives == PanelInv => PanelShowsBackend
BY DEF PanelInv, CleanIsTrue, PanelShowsBackend, ListIsBackends, BadgeIsUnread, Still

\* Once nothing is under way and nothing has overlapped, the panel shows the backend's
\* notifications, the badge their unread ones: a request that fails is undone as a whole
\* (NotificationPanel's catch blocks).
THEOREM PanelIsTrue == PanelSpec => []PanelShowsBackend
BY PanelInitInv, PanelStep, PanelInvGives, PTL DEF PanelSpec

\* The badge can exceed the rows: putting back raises it once for each operation that is
\* undone. There are no more of these than there were changes.
PanelSizes ==
  /\ IsFiniteSet(ops) /\ Cardinality(ops) <= changes
  /\ badge + Cardinality(ops) <= Cardinality(Notes) + changes
  /\ \A o \in ops : o.badge + Cardinality(ops) <= Cardinality(Notes) + changes

PanelSizeInv == PanelTypeOK /\ PanelSizes

PanelOp ==
  [id : 1 .. MaxChanges, on : SUBSET Notes, all : BOOLEAN, to : {"read", "none"}, rows : View,
   badge : Badges, unread : BOOLEAN, st : {"sent", "ok", "failed"}]

Listing ==
  [on : BOOLEAN, view : View, listed : BOOLEAN, count : Counts, counted : BOOLEAN, alone : BOOLEAN]
Counting == [on : BOOLEAN, count : Counts, counted : BOOLEAN]

LEMMA UnreadIsCount ==
  /\ Cardinality(Notes) \in Nat /\ MaxChanges \in Nat
  /\ \A v : Unread(v) \in Counts /\ Unread(v) <= Cardinality(Notes)
<1>1. Cardinality(Notes) \in Nat /\ MaxChanges \in Nat
  BY PanelConstants, FS_CardinalityType
<1>2. ASSUME NEW v PROVE Unread(v) \in Nat /\ Unread(v) <= Cardinality(Notes)
  <2>1. UnreadOf(v) \in SUBSET Notes
    BY DEF UnreadOf
  <2>2. Cardinality(UnreadOf(v)) <= Cardinality(Notes)
    BY <2>1, PanelConstants, FS_Subset
  <2> QED
    BY <2>2, UnreadCounts
<1> QED
  BY <1>1, <1>2 DEF Counts

LEMMA PanelStartSizes == PanelInit => PanelSizeInv
<1> SUFFICES ASSUME PanelInit PROVE PanelSizeInv
  OBVIOUS
<1>1. NoView \in View
  BY DEF NoView, View, States
<1>2. 0 \in Counts /\ 0 \in Badges /\ 0 \in 0 .. MaxChanges
  BY UnreadIsCount DEF Counts, Badges
<1>3. PanelTypeOK
  BY <1>1, <1>2 DEF PanelInit, PanelTypeOK, NoList, NoCount
<1>4. PanelSizes
  BY FS_EmptySet, UnreadIsCount DEF PanelInit, PanelSizes
<1> QED
  BY <1>3, <1>4 DEF PanelSizeInv

\* The numbers alone: n operations where there were m, changes grown by d.
LEMMA RoomLeft ==
  ASSUME NEW N \in Nat, NEW m \in Nat, NEW n \in Nat, NEW c \in Nat, NEW d \in Nat, NEW b \in Nat,
         n <= m + d, b + m <= N + c
  PROVE  b + n <= N + (c + d)
OBVIOUS

LEMMA PressSizes ==
  ASSUME PanelSizeInv, NEW on \in SUBSET Notes, NEW all \in BOOLEAN, NEW to \in {"read", "none"},
         Press(on, all, to)
  PROVE  PanelSizeInv'
<1> DEFINE unread == \E n \in on : rows[n] = "unread"
           o == [id |-> changes + 1, on |-> on, all |-> all, to |-> to, rows |-> rows,
                 badge |-> badge, unread |-> unread, st |-> "sent"]
<1>1. /\ ops' = ops \cup {o} /\ rows' = Applied(rows, on, to)
      /\ badge' = BadgeAfter(on, all, unread) /\ changes' = changes + 1 /\ changes < MaxChanges
      /\ clean' = (clean /\ Still) /\ listing' = [listing EXCEPT !.alone = FALSE]
      /\ notes' = notes /\ counting' = counting
  BY DEF Press, Change
<1>2. PanelTypeOK /\ PanelSizes
  BY DEF PanelSizeInv
<1>3. changes \in Nat /\ badge \in Nat /\ badge \in Badges /\ Cardinality(ops) \in Nat
  BY <1>2, FS_CardinalityType DEF PanelTypeOK, PanelSizes, Badges
<1>4. changes + 1 \in 1 .. MaxChanges /\ changes + 1 \in 0 .. MaxChanges
  BY <1>1, <1>3, UnreadIsCount
<1>5. unread \in BOOLEAN
  OBVIOUS
<1>6. o \in PanelOp /\ o.badge = badge
  BY <1>2, <1>3, <1>4, <1>5 DEF PanelTypeOK, PanelOp
<1>7. badge' \in Nat /\ badge' <= badge
  BY <1>1, <1>3 DEF BadgeAfter
<1>8. badge' \in Badges
  BY <1>3, <1>7, UnreadIsCount DEF Badges
<1>9. rows' \in View
  BY <1>1, <1>2, AppliedIsView DEF PanelTypeOK
<1> HIDE DEF o, unread
<1>10. PanelTypeOK'
  BY <1>1, <1>2, <1>4, <1>6, <1>8, <1>9 DEF PanelTypeOK, PanelOp, Still
<1>11. /\ IsFiniteSet(ops') /\ Cardinality(ops') \in Nat /\ Cardinality(ops') <= Cardinality(ops) + 1
  <2>1. IsFiniteSet(ops) /\ Cardinality(ops) \in Nat /\ ops' = ops \cup {o}
    BY <1>1, <1>2, <1>3 DEF PanelSizes
  <2>2. /\ IsFiniteSet(ops \cup {o})
        /\ Cardinality(ops \cup {o}) = IF o \in ops THEN Cardinality(ops) ELSE Cardinality(ops) + 1
    BY <2>1, FS_AddElement
  <2> QED
    BY ONLY <2>1, <2>2
<1>12. PanelSizes'
  <2>1. Cardinality(ops') <= changes'
    BY <1>1, <1>2, <1>3, <1>11 DEF PanelSizes
  <2>2. badge' + Cardinality(ops') <= Cardinality(Notes) + changes'
    BY <1>1, <1>2, <1>3, <1>7, <1>11, UnreadIsCount DEF PanelSizes
  <2>3. ASSUME NEW p \in ops' PROVE p.badge + Cardinality(ops') <= Cardinality(Notes) + changes'
    <3>1. p.badge \in Nat /\ p.badge + Cardinality(ops) <= Cardinality(Notes) + changes
      BY <1>1, <1>2, <1>3, <1>6 DEF PanelSizes, PanelTypeOK, Badges
    <3> QED
      BY ONLY <1>1, <1>3, <1>11, <3>1, UnreadIsCount, RoomLeft
  <2> QED
    BY <1>11, <2>1, <2>2, <2>3 DEF PanelSizes
<1> QED
  BY <1>10, <1>12 DEF PanelSizeInv

\* An operation that is answered, or served: as many are under way as were.
LEMMA AnsweredSizes ==
  ASSUME PanelSizeInv, NEW o \in ops, NEW st \in {"ok", "failed"},
         ops' = (ops \ {o}) \cup {[o EXCEPT !.st = st]},
         changes' = changes \/ Change, clean' \in BOOLEAN, notes' \in View,
         UNCHANGED <<rows, badge, listing, counting>>
  PROVE  PanelSizeInv'
<1> DEFINE p == [o EXCEPT !.st = st]
<1>1. PanelTypeOK /\ PanelSizes
  BY DEF PanelSizeInv
<1>2. /\ changes \in Nat /\ badge \in Nat /\ Cardinality(ops) \in Nat
      /\ changes' \in Nat /\ changes <= changes' /\ changes' \in 0 .. MaxChanges
  BY <1>1, FS_CardinalityType, UnreadIsCount DEF PanelTypeOK, PanelSizes, Badges, Change
<1>3. o \in PanelOp
  BY <1>1 DEF PanelTypeOK, PanelOp
<1>4. p \in PanelOp /\ p.badge = o.badge
  BY <1>3 DEF PanelOp
<1> HIDE DEF p
<1>5. ops' = (ops \ {o}) \cup {p}
  BY DEF p
<1>6. IsFiniteSet(ops') /\ Cardinality(ops') \in Nat /\ Cardinality(ops') <= Cardinality(ops)
  <2>1. IsFiniteSet(ops \ {o}) /\ Cardinality(ops \ {o}) = Cardinality(ops) - 1
    BY <1>1, FS_RemoveElement DEF PanelSizes
  <2>2. Cardinality(ops \ {o}) \in Nat
    BY <2>1, FS_CardinalityType
  <2> QED
    BY ONLY <1>2, <1>5, <2>1, <2>2, FS_AddElement
<1>7. PanelTypeOK'
  BY <1>1, <1>2, <1>4, <1>5 DEF PanelTypeOK, PanelOp
<1>8. PanelSizes'
  <2>1. ASSUME NEW q \in ops' PROVE q.badge + Cardinality(ops') <= Cardinality(Notes) + changes'
    <3>1. q.badge \in Nat /\ q.badge + Cardinality(ops) <= Cardinality(Notes) + changes
      BY <1>1, <1>4, <1>5 DEF PanelSizes, PanelTypeOK, Badges
    <3> QED
      BY ONLY <1>2, <1>6, <3>1, UnreadIsCount
  <2>2. Cardinality(ops') <= changes' /\ badge' + Cardinality(ops') <= Cardinality(Notes) + changes'
    BY <1>1, <1>2, <1>6, UnreadIsCount DEF PanelSizes
  <2> QED
    BY <1>6, <2>1, <2>2 DEF PanelSizes
<1> QED
  BY <1>7, <1>8 DEF PanelSizeInv

\* And one that ends: one less, which leaves room for the one that the badge is raised by.
LEMMA EndedSizes ==
  ASSUME PanelSizeInv, NEW o \in ops, ops' = ops \ {o}, rows' \in View,
         badge' \in {badge, badge + 1, o.badge},
         UNCHANGED <<notes, listing, counting, clean, changes>>
  PROVE  PanelSizeInv'
<1>1. PanelTypeOK /\ PanelSizes
  BY DEF PanelSizeInv
<1>2. /\ changes \in Nat /\ badge \in Nat /\ Cardinality(ops) \in Nat /\ o.badge \in Nat
      /\ changes <= MaxChanges
  BY <1>1, FS_CardinalityType, UnreadIsCount DEF PanelTypeOK, PanelSizes, Badges
<1>3. IsFiniteSet(ops') /\ Cardinality(ops') = Cardinality(ops) - 1 /\ Cardinality(ops') \in Nat
  <2>1. IsFiniteSet(ops') /\ Cardinality(ops') = Cardinality(ops) - 1
    BY <1>1, FS_RemoveElement DEF PanelSizes
  <2> QED
    BY <2>1, FS_CardinalityType
<1>4. badge' \in Nat /\ badge' + Cardinality(ops') <= Cardinality(Notes) + changes
  <2>1. badge + Cardinality(ops) <= Cardinality(Notes) + changes
    BY <1>1 DEF PanelSizes
  <2>2. o.badge + Cardinality(ops) <= Cardinality(Notes) + changes
    BY <1>1 DEF PanelSizes
  <2> QED
    BY <1>2, <1>3, <2>1, <2>2, UnreadIsCount
<1>5. badge' \in Badges
  BY <1>2, <1>3, <1>4, UnreadIsCount DEF Badges
<1>6. PanelTypeOK'
  BY <1>1, <1>5 DEF PanelTypeOK
<1>7. PanelSizes'
  <2>1. ASSUME NEW q \in ops' PROVE q.badge + Cardinality(ops') <= Cardinality(Notes) + changes'
    <3>1. q.badge \in Nat /\ q.badge + Cardinality(ops) <= Cardinality(Notes) + changes
      BY <1>1 DEF PanelSizes, PanelTypeOK, Badges
    <3> QED
      BY <1>2, <1>3, <3>1, UnreadIsCount
  <2>2. Cardinality(ops') <= changes'
    BY <1>1, <1>2, <1>3 DEF PanelSizes
  <2> QED
    BY <1>3, <1>4, <2>1, <2>2 DEF PanelSizes
<1> QED
  BY <1>6, <1>7 DEF PanelSizeInv

\* Loads and polls leave the operations alone.
LEMMA LoadedSizes ==
  ASSUME PanelSizeInv, ops' = ops, changes' = changes \/ Change,
         notes' \in View, rows' \in View, badge' = badge \/ badge' \in Counts,
         listing' \in Listing, counting' \in Counting, clean' \in BOOLEAN
  PROVE  PanelSizeInv'
<1>1. PanelTypeOK /\ PanelSizes
  BY DEF PanelSizeInv
<1>2. /\ changes \in Nat /\ badge \in Nat /\ Cardinality(ops) \in Nat
      /\ changes' \in Nat /\ changes <= changes' /\ changes' \in 0 .. MaxChanges
  BY <1>1, FS_CardinalityType, UnreadIsCount DEF PanelTypeOK, PanelSizes, Badges, Change
<1>3. badge' \in Nat /\ (badge' <= badge \/ badge' <= Cardinality(Notes))
  BY <1>2, UnreadIsCount DEF Counts
<1>4. badge' \in Badges
  BY <1>1, <1>2, <1>3, UnreadIsCount DEF PanelTypeOK, Badges
<1>5. PanelTypeOK'
  BY <1>1, <1>2, <1>4 DEF PanelTypeOK, Listing, Counting
<1>6. PanelSizes'
  <2>1. ASSUME NEW q \in ops' PROVE q.badge + Cardinality(ops') <= Cardinality(Notes) + changes'
    <3>1. q.badge \in Nat /\ q.badge + Cardinality(ops) <= Cardinality(Notes) + changes
      BY <1>1 DEF PanelSizes, PanelTypeOK, Badges
    <3> QED
      BY <1>2, <3>1, UnreadIsCount
  <2>2. IsFiniteSet(ops') /\ Cardinality(ops') <= changes'
    BY <1>1, <1>2 DEF PanelSizes
  <2>3. badge' + Cardinality(ops') <= Cardinality(Notes) + changes'
    <3>1. badge + Cardinality(ops) <= Cardinality(Notes) + changes /\ Cardinality(ops) <= changes
      BY <1>1 DEF PanelSizes
    <3> QED
      BY <1>2, <1>3, <3>1, UnreadIsCount
  <2> QED
    BY <2>1, <2>2, <2>3 DEF PanelSizes
<1> QED
  BY <1>5, <1>6 DEF PanelSizeInv

LEMMA PanelSizeStep == PanelSizeInv /\ [PanelNext]_panelVars => PanelSizeInv'
<1> SUFFICES ASSUME PanelSizeInv, [PanelNext]_panelVars PROVE PanelSizeInv'
  OBVIOUS
<1>t. PanelTypeOK
  BY DEF PanelSizeInv
<1>0. /\ Unread(notes) \in Counts /\ 0 \in Counts /\ NoView \in View
      /\ listing.view \in View /\ listing.count \in Counts /\ counting.count \in Counts
  BY <1>t, UnreadIsCount DEF PanelTypeOK, Counts, NoView, View, States
<1>1. CASE Refresh \/ ListRead \/ ListShown \/ ListFails
  <2>1. listing' \in Listing
    <3>1. NoList \in Listing /\ listing \in Listing
      BY <1>0, <1>t DEF Listing, NoList, PanelTypeOK
    <3>2. ASSUME Refresh PROVE listing' \in Listing
      <4>1. Still \in BOOLEAN /\ listing' = [NoList EXCEPT !.on = TRUE, !.alone = Still]
        BY <3>2 DEF Refresh, Still
      <4> QED
        BY <3>1, <4>1 DEF Listing
    <3>3. ASSUME ListRead PROVE listing' \in Listing
      <4>1. \/ listing' = [listing EXCEPT !.listed = TRUE, !.view = notes]
            \/ listing' = [listing EXCEPT !.counted = TRUE, !.count = Unread(notes)]
        BY <3>3 DEF ListRead
      <4>2. notes \in View
        BY <1>t DEF PanelTypeOK
      <4> QED
        BY <1>0, <3>1, <4>1, <4>2 DEF Listing
    <3>4. ASSUME ListShown \/ ListFails PROVE listing' \in Listing
      BY <3>1, <3>4 DEF ListShown, ListFails
    <3> QED
      BY <1>1, <3>2, <3>3, <3>4
  <2>2. /\ ops' = ops /\ (changes' = changes \/ Change) /\ notes' = notes /\ counting' = counting
        /\ (rows' = rows \/ rows' = listing.view) /\ (badge' = badge \/ badge' = listing.count)
        /\ (clean' = clean \/ clean' = listing.alone)
    BY <1>1 DEF Refresh, ListRead, ListShown, ListFails
  <2>3. rows' \in View /\ clean' \in BOOLEAN /\ (badge' = badge \/ badge' \in Counts)
    BY <1>0, <1>t, <2>2 DEF PanelTypeOK
  <2> QED
    BY <1>t, <2>1, <2>2, <2>3, LoadedSizes DEF PanelTypeOK, Counting
<1>2. CASE PollCount \/ CountRead \/ CountShown
  <2>1. counting' \in Counting /\ listing' \in Listing
    <3>1. NoCount \in Counting /\ counting \in Counting /\ listing \in Listing
      BY <1>0, <1>t DEF Counting, Listing, NoCount, PanelTypeOK
    <3>2. \/ counting' = [NoCount EXCEPT !.on = TRUE]
          \/ counting' = [counting EXCEPT !.counted = TRUE, !.count = Unread(notes)]
          \/ counting' = NoCount
      BY <1>2 DEF PollCount, CountRead, CountShown
    <3>3. listing' = [listing EXCEPT !.alone = FALSE] \/ listing' = listing
      BY <1>2 DEF PollCount, CountRead, CountShown
    <3>4. counting' \in Counting
      BY <1>0, <3>1, <3>2 DEF Counting
    <3>5. listing' \in Listing
      BY <3>1, <3>3 DEF Listing
    <3> QED
      BY <3>4, <3>5
  <2>2. /\ ops' = ops /\ (changes' = changes \/ Change) /\ notes' = notes /\ rows' = rows
        /\ (badge' = badge \/ badge' = counting.count) /\ clean' \in {clean, clean /\ Still}
    BY <1>2 DEF PollCount, CountRead, CountShown
  <2>3. clean' \in BOOLEAN
    BY <1>t, <2>2 DEF PanelTypeOK, Still
  <2> QED
    BY <1>0, <1>t, <2>1, <2>2, <2>3, LoadedSizes DEF PanelTypeOK, Listing, Counting
<1>3. CASE MarkAll \/ ClearAll
  BY <1>3, PressSizes DEF MarkAll, ClearAll
<1>4. ASSUME NEW n \in Notes, MarkOne(n) \/ DeleteOne(n) PROVE PanelSizeInv'
  BY <1>4, PressSizes, {n} \in SUBSET Notes DEF MarkOne, DeleteOne
<1>5. ASSUME NEW n \in Notes, Arrives(n) PROVE PanelSizeInv'
  <2>1. notes' \in View /\ clean' \in BOOLEAN
    BY <1>5, <1>t DEF Arrives, PanelTypeOK, View, States
  <2>2. listing' \in Listing
    BY <1>5, <1>t DEF Arrives, PanelTypeOK, Listing
  <2> QED
    BY <1>5, <1>t, <2>1, <2>2, LoadedSizes DEF Arrives, PanelTypeOK, Counting
<1>6. ASSUME NEW o \in ops, OpServed(o) PROVE PanelSizeInv'
  <2>1. notes' \in View
    BY <1>6, <1>t, AppliedIsView DEF OpServed, PanelTypeOK
  <2>2. /\ \E st \in {"ok", "failed"} : ops' = (ops \ {o}) \cup {[o EXCEPT !.st = st]}
        /\ (changes' = changes \/ Change) /\ clean' \in {clean, FALSE}
        /\ UNCHANGED <<rows, badge, listing, counting>>
    BY <1>6 DEF OpServed
  <2> QED
    BY <1>t, <2>1, <2>2, AnsweredSizes DEF PanelTypeOK
<1>7. ASSUME NEW o \in ops, OpRefused(o) PROVE PanelSizeInv'
  BY <1>7, <1>t, AnsweredSizes DEF OpRefused, PanelTypeOK
<1>8. ASSUME NEW o \in ops, OpDone(o) PROVE PanelSizeInv'
  BY <1>8, <1>t, EndedSizes DEF OpDone, PanelTypeOK
<1>9. ASSUME NEW o \in ops, OpFailed(o) PROVE PanelSizeInv'
  <2>1. o.rows \in View
    BY <1>t DEF PanelTypeOK
  <2>2. badge' \in {badge, badge + 1, o.badge} /\ rows' = o.rows /\ ops' = ops \ {o}
    BY <1>9 DEF OpFailed, PutBack
  <2> QED
    BY <1>9, <2>1, <2>2, EndedSizes DEF OpFailed
<1>10. CASE UNCHANGED panelVars
  BY <1>10, <1>t, LoadedSizes DEF panelVars, PanelTypeOK, Listing, Counting
<1> QED
  BY <1>1, <1>2, <1>3, <1>4, <1>5, <1>6, <1>7, <1>8, <1>9, <1>10 DEF PanelNext

\* What the panel holds, the badge within one for each row and each change included.
THEOREM PanelTypes == PanelSpec => []PanelTypeOK
BY PanelStartSizes, PanelSizeStep, PTL DEF PanelSpec, PanelSizeInv

----------------------------------------------------------------------------
(* Chats. *)

Message == [by : {"user", "assistant", "history"}, of : Nat, text : Nat]
ChatCall == [of : Nat, st : {"sent", "answered", "single", "aborted"}, got : Nat]
Page == [rows : Seq(Nat), next : {0, 1}]

ChatShape ==
  /\ client \in ChatClients
  /\ bubbles \in Seq(Message) /\ calls \subseteq ChatCall
  /\ sending \in BOOLEAN /\ asked \in Nat /\ fresh \in Nat
  /\ logged \in Nat /\ unlogged \in Nat
  /\ query \in [st : {"asked", "read", "done"}, page : Page]
  /\ older \in [st : {"no", "asked", "read"}, page : Page]

\* A client with placeholders has one request at most, under way while it is sending, and
\* every placeholder that spins is that request's.
OneRequest ==
  Placeholds =>
    /\ \A c, d \in calls : c = d
    /\ \A c \in calls : c.st # "single" /\ (~sending => c.st = "aborted")
    /\ \A i \in DOMAIN bubbles : bubbles[i].by = "assistant" /\ bubbles[i].text = 0 =>
         \E c \in calls : c.of = bubbles[i].of /\ c.st # "aborted"

\* Whatever can still be answered was asked in this conversation.
OfThisConversation ==
  /\ fresh <= asked + 1
  /\ \A c \in calls : c.st # "aborted" => fresh <= c.of
  /\ \A i \in DOMAIN bubbles :
       bubbles[i].by # "history" /\ bubbles[i].of # 0 => fresh <= bubbles[i].of

\* The history is one page, numbered from the log's start: what comes before a full page
\* is nothing, since the cursor is the page's first row.
HistoryIsOnePage ==
  /\ \E k \in Nat : query.page.rows = [i \in 1 .. k |-> i]
  /\ cursor \in {0, 1}
  /\ query.st # "done" =>
       cursor = 0 /\ older.st = "no" /\ \A i \in DOMAIN bubbles : bubbles[i].by # "history"
  /\ older.st = "asked" => cursor = 1
  /\ older.st = "read" => older.page.rows = <<>> /\ older.page.next = 0
  /\ HistoryInOrder

ChatInv == ChatShape /\ OneRequest /\ OfThisConversation /\ HistoryIsOnePage

LEMMA WelcomeMessage ==
  /\ Welcome \in Message /\ Welcome.by = "assistant" /\ Welcome.of = 0 /\ Welcome.text # 0
  /\ <<Welcome>> \in Seq(Message) /\ Len(<<Welcome>>) = 1 /\ <<Welcome>>[1] = Welcome
  /\ DOMAIN <<Welcome>> = {1}
BY ChatConstants DEF Welcome, Bubble, Whole, Message

LEMMA ChatInitInv == ChatInit => ChatInv
<1> SUFFICES ASSUME ChatInit PROVE ChatInv
  OBVIOUS
<1>1. ChatShape
  <2>1. bubbles \in Seq(Message)
    BY WelcomeMessage DEF ChatInit
  <2>2. logged \in Nat /\ unlogged \in Nat /\ asked \in Nat /\ fresh \in Nat
    BY ChatConstants DEF ChatInit
  <2>3. NoPage \in Page
    BY DEF NoPage, Page
  <2>4. /\ query \in [st : {"asked", "read", "done"}, page : Page]
        /\ older \in [st : {"no", "asked", "read"}, page : Page]
    BY <2>3 DEF ChatInit
  <2> QED
    BY <2>1, <2>2, <2>4 DEF ChatInit, ChatShape
<1>2. OneRequest
  BY WelcomeMessage DEF ChatInit, OneRequest
<1>3. OfThisConversation
  BY WelcomeMessage DEF ChatInit, OfThisConversation
<1>4. HistoryInOrder
  BY WelcomeMessage DEF ChatInit, HistoryInOrder
<1>5. NoPage.rows = [i \in 1 .. 0 |-> i] /\ NoPage.next = 0
  BY DEF NoPage
<1>6. HistoryIsOnePage
  BY <1>4, <1>5, WelcomeMessage DEF ChatInit, HistoryIsOnePage
<1> QED
  BY <1>1, <1>2, <1>3, <1>6 DEF ChatInv

\* The list bs is the one on the screen, texts aside, with bubbles of message n after it.
Grown(bs, n) ==
  /\ bs \in Seq(Message) /\ Len(bubbles) <= Len(bs)
  /\ \A i \in 1 .. Len(bs) :
       IF i <= Len(bubbles) THEN bs[i].by = bubbles[i].by /\ bs[i].of = bubbles[i].of
                            ELSE bs[i].by # "history" /\ bs[i].of = n

LEMMA BubblesGrown == ASSUME ChatShape, NEW n PROVE Grown(bubbles, n)
BY DEF ChatShape, Grown

LEMMA AppendGrown ==
  ASSUME ChatShape, NEW n \in Nat, NEW text \in Nat, NEW by \in {"user", "assistant"}
  PROVE  Grown(Append(bubbles, Bubble(by, n, text)), n)
<1> DEFINE b == Bubble(by, n, text)
<1>1. b \in Message /\ b.by # "history" /\ b.of = n
  BY DEF Bubble, Message
<1> HIDE DEF b
<1>2. Append(bubbles, b) \in Seq(Message) /\ Len(Append(bubbles, b)) = Len(bubbles) + 1
  BY <1>1 DEF ChatShape
<1>3. \A i \in 1 .. Len(bubbles) + 1 :
        Append(bubbles, b)[i] = IF i <= Len(bubbles) THEN bubbles[i] ELSE b
  BY DEF ChatShape
<1>4. Len(bubbles) \in Nat
  BY DEF ChatShape
<1>5. Grown(Append(bubbles, b), n)
  BY <1>1, <1>2, <1>3, <1>4 DEF Grown
<1> QED
  BY <1>5 DEF b

LEMMA FinalGrown ==
  ASSUME ChatShape, NEW n \in Nat, NEW text \in Nat PROVE Grown(Final(n, text), n)
BY BubblesGrown, AppendGrown DEF Final

LEMMA FilledGrown ==
  ASSUME ChatShape, NEW n, NEW m, NEW text \in Nat PROVE Grown(Filled(m, text), n)
<1> DEFINE bs == Filled(m, text)
<1>1. bubbles \in Seq(Message) /\ Len(bubbles) \in Nat /\ DOMAIN bubbles = 1 .. Len(bubbles)
  BY DEF ChatShape
<1>2. \A i \in 1 .. Len(bubbles) :
        bs[i] \in Message /\ bs[i].by = bubbles[i].by /\ bs[i].of = bubbles[i].of
  <2>1. ASSUME NEW b \in Message
        PROVE  /\ [b EXCEPT !.text = text] \in Message
               /\ [b EXCEPT !.text = text].by = b.by /\ [b EXCEPT !.text = text].of = b.of
    BY DEF Message
  <2>2. \A i \in 1 .. Len(bubbles) :
          bubbles[i] \in Message /\ bs[i] \in {bubbles[i], [bubbles[i] EXCEPT !.text = text]}
    BY <1>1 DEF Filled
  <2> QED
    BY <2>1, <2>2
<1>3. bs = [i \in 1 .. Len(bubbles) |-> bs[i]]
  BY <1>1 DEF Filled
<1> HIDE DEF bs
<1>4. bs \in Seq(Message) /\ Len(bs) = Len(bubbles)
  BY <1>1, <1>2, <1>3
<1> QED
  BY <1>1, <1>2, <1>4 DEF Grown, bs

LEMMA GrownHistory ==
  ASSUME ChatShape, HistoryIsOnePage, NEW n, Grown(bubbles', n), UNCHANGED <<query, older, cursor>>
  PROVE  HistoryIsOnePage'
<1>1. /\ DOMAIN bubbles = 1 .. Len(bubbles) /\ DOMAIN bubbles' = 1 .. Len(bubbles')
      /\ Len(bubbles) \in Nat /\ Len(bubbles') \in Nat
  BY DEF ChatShape, Grown
<1>2. HistoryInOrder'
  <2> SUFFICES ASSUME NEW i \in 1 .. Len(bubbles'), NEW j \in 1 .. Len(bubbles'), i < j,
                      bubbles'[i].by = "history", bubbles'[j].by = "history"
               PROVE  bubbles'[i].of < bubbles'[j].of
    BY <1>1 DEF HistoryInOrder
  <2>1. i \in 1 .. Len(bubbles) /\ j \in 1 .. Len(bubbles)
    BY <1>1 DEF Grown
  <2> QED
    BY <1>1, <2>1 DEF Grown, HistoryIsOnePage, HistoryInOrder
<1>3. (\A i \in DOMAIN bubbles : bubbles[i].by # "history") =>
        \A i \in DOMAIN bubbles' : bubbles'[i].by # "history"
  BY <1>1 DEF Grown
<1> QED
  BY <1>2, <1>3 DEF HistoryIsOnePage

LEMMA StillNext ==
  ASSUME NEW a \in Nat, NEW b \in Nat, NEW f \in Nat, f <= a + 1, a <= b PROVE f <= b + 1
OBVIOUS

LEMMA GrownConversation ==
  ASSUME ChatShape, OfThisConversation, NEW n \in Nat, fresh <= n, Grown(bubbles', n),
         fresh' = fresh, asked' \in Nat, asked <= asked',
         \A c \in calls' : c.st # "aborted" => fresh <= c.of
  PROVE  OfThisConversation'
<1>1. /\ DOMAIN bubbles = 1 .. Len(bubbles) /\ DOMAIN bubbles' = 1 .. Len(bubbles')
      /\ Len(bubbles) \in Nat /\ Len(bubbles') \in Nat
  BY DEF ChatShape, Grown
<1>2. \A i \in DOMAIN bubbles' :
        bubbles'[i].by # "history" /\ bubbles'[i].of # 0 => fresh <= bubbles'[i].of
  BY <1>1 DEF Grown, OfThisConversation
<1>3. fresh' <= asked' + 1
  <2>1. fresh \in Nat /\ asked \in Nat /\ fresh <= asked + 1
    BY DEF ChatShape, OfThisConversation
  <2> QED
    BY <2>1, StillNext
<1> QED
  BY <1>2, <1>3 DEF OfThisConversation

\* A request that ends leaves nothing that spins.
LEMMA EndsKeeps ==
  ASSUME ChatInv, NEW c \in calls, NEW shown, NEW n \in Nat, fresh <= n, Grown(shown, n),
         Placeholds => \A i \in DOMAIN shown : shown[i].by = "assistant" => shown[i].text # 0,
         Ends(c, shown)
  PROVE  ChatInv'
<1>1. /\ bubbles' = shown /\ calls' = calls \ {c} /\ sending' = FALSE
      /\ UNCHANGED <<client, asked, logged, unlogged, query, older, cursor, recent, fresh, resets>>
  BY DEF Ends
<1>2. ChatShape'
  BY <1>1 DEF ChatInv, ChatShape, Grown
<1>3. OneRequest'
  BY <1>1 DEF ChatInv, OneRequest, Placeholds
<1>4. OfThisConversation'
  BY <1>1, GrownConversation DEF ChatInv, ChatShape, OfThisConversation
<1>5. HistoryIsOnePage'
  BY <1>1, GrownHistory DEF ChatInv
<1> QED
  BY <1>2, <1>3, <1>4, <1>5 DEF ChatInv

LEMMA FilledSpins ==
  ASSUME ChatInv, Placeholds, NEW c \in calls, NEW text \in Nat \ {0}
  PROVE  \A i \in DOMAIN Filled(c.of, text) :
           Filled(c.of, text)[i].by = "assistant" => Filled(c.of, text)[i].text # 0
<1> SUFFICES ASSUME NEW i \in DOMAIN bubbles, Filled(c.of, text)[i].by = "assistant"
             PROVE  Filled(c.of, text)[i].text # 0
  BY DEF Filled
<1>1. bubbles[i] \in Message
  BY DEF ChatInv, ChatShape
<1>2. CASE bubbles[i].by = "assistant" /\ bubbles[i].of = c.of
  BY <1>1, <1>2 DEF Filled, Message
<1>3. CASE ~(bubbles[i].by = "assistant" /\ bubbles[i].of = c.of)
  <2>1. Filled(c.of, text)[i] = bubbles[i]
    BY <1>3 DEF Filled
  <2> QED
    BY <1>3, <2>1 DEF ChatInv, OneRequest
<1> QED
  BY <1>2, <1>3

\* Requests that go on in another state: the same list, or one bubble more of a stream.
LEMMA GoesOnKeeps ==
  ASSUME ChatInv, NEW c \in calls, NEW d \in ChatCall, d.of = c.of, c.st # "aborted", d.st # "aborted",
         Placeholds => d.st # "single" /\ bubbles' = bubbles,
         Grown(bubbles', c.of), calls' = (calls \ {c}) \cup {d},
         unlogged' \in Nat, UNCHANGED <<client, sending, asked, logged, query, older, cursor, fresh>>
  PROVE  ChatInv'
<1>1. c.of \in Nat /\ fresh <= c.of
  BY DEF ChatInv, ChatShape, ChatCall, OfThisConversation
<1>2. ChatShape'
  BY DEF ChatInv, ChatShape, Grown
<1>3. OneRequest'
  BY DEF ChatInv, OneRequest, Placeholds
<1>4. OfThisConversation'
  BY <1>1, GrownConversation DEF ChatInv, ChatShape, OfThisConversation
<1>5. HistoryIsOnePage'
  BY GrownHistory DEF ChatInv
<1> QED
  BY <1>2, <1>3, <1>4, <1>5 DEF ChatInv

LEMMA CallStepKeeps ==
  ASSUME ChatInv, NEW c \in calls, CallStep(c) PROVE ChatInv'
<1>1. ChatShape /\ c \in ChatCall /\ c.of \in Nat /\ c.got \in Nat /\ fresh \in Nat
  BY DEF ChatInv, ChatShape, ChatCall
<1>2. c.st # "aborted" => fresh <= c.of
  BY DEF ChatInv, OfThisConversation
<1>3. /\ Whole \in Nat \ {0} /\ Apology \in Nat \ {0}
      /\ "answered" \in {"sent", "answered", "single", "aborted"}
  BY ChatConstants DEF Whole, Apology
<1>4. CASE HandleMessage(c)
  <2> DEFINE d == [c EXCEPT !.st = "answered"]
  <2>1. d \in ChatCall /\ d.of = c.of /\ d.st = "answered"
    BY <1>1 DEF ChatCall
  <2>2. /\ c.st = "sent" /\ calls' = (calls \ {c}) \cup {d} /\ unlogged' = unlogged + 1
        /\ UNCHANGED <<client, bubbles, sending, asked, logged, query, older, cursor, recent, fresh, resets>>
    BY <1>4 DEF HandleMessage
  <2> HIDE DEF d
  <2>3. unlogged' \in Nat
    BY <1>1, <2>2 DEF ChatShape
  <2>4. Grown(bubbles', c.of)
    BY <1>1, <2>2, BubblesGrown
  <2> QED
    BY <2>1, <2>2, <2>3, <2>4, GoesOnKeeps
<1>5. CASE AnswerShown(c)
  <2>1. Grown(Filled(c.of, Whole), c.of)
    BY <1>1, <1>3, FilledGrown
  <2> QED
    BY <1>1, <1>2, <1>3, <1>5, <2>1, EndsKeeps, FilledSpins DEF AnswerShown
<1>6. CASE AnswerFails(c)
  <2>1. Grown(Filled(c.of, Apology), c.of)
    BY <1>1, <1>3, FilledGrown
  <2> QED
    BY <1>1, <1>2, <1>3, <1>6, <2>1, EndsKeeps, FilledSpins DEF AnswerFails
<1>7. CASE AbortSeen(c)
  <2>1. Grown(bubbles, fresh)
    BY <1>1, BubblesGrown
  <2>2. Placeholds => \A i \in DOMAIN bubbles : bubbles[i].by = "assistant" => bubbles[i].text # 0
    BY <1>7 DEF AbortSeen, ChatInv, OneRequest
  <2>3. Ends(c, bubbles)
    BY <1>7 DEF AbortSeen
  <2>4. fresh <= fresh
    BY <1>1
  <2> QED
    BY <1>1, <2>1, <2>2, <2>3, <2>4, EndsKeeps
<1>8. CASE StreamToken(c)
  <2> DEFINE d == [c EXCEPT !.got = c.got + 1]
  <2>1. d \in ChatCall /\ d.of = c.of /\ d.st = c.st
    BY <1>1 DEF ChatCall
  <2>2. /\ c.st = "sent" /\ ~Placeholds /\ calls' = (calls \ {c}) \cup {d}
        /\ bubbles' = Append(bubbles, Bubble("assistant", c.of, c.got + 1))
        /\ UNCHANGED <<client, sending, asked, logged, unlogged, query, older, cursor, recent, fresh, resets>>
    BY <1>8 DEF StreamToken, Streaming, Placeholds
  <2> HIDE DEF d
  <2>3. Grown(bubbles', c.of)
    BY <1>1, <2>2, AppendGrown
  <2>4. unlogged' \in Nat
    BY <1>1, <2>2 DEF ChatShape
  <2> QED
    BY <2>1, <2>2, <2>3, <2>4, GoesOnKeeps
<1>9. CASE StreamDone(c)
  <2>1. c.st = "sent" /\ ~Placeholds /\ Ends(c, IF c.got = 0 THEN bubbles ELSE Final(c.of, c.got))
    BY <1>9 DEF StreamDone, Streaming, Placeholds
  <2>2. Grown(IF c.got = 0 THEN bubbles ELSE Final(c.of, c.got), c.of)
    BY <1>1, BubblesGrown, FinalGrown
  <2> QED
    BY <1>1, <1>2, <2>1, <2>2, EndsKeeps
<1>10. CASE StreamBreaks(c)
  <2>1. c.st = "sent" /\ ~Placeholds
    BY <1>10 DEF StreamBreaks, Streaming, Placeholds
  <2>2. CASE c.got > 0
    <3>1. Grown(Append(bubbles, Bubble("assistant", c.of, Apology)), c.of)
      BY <1>1, <1>3, AppendGrown
    <3>2. Ends(c, Append(bubbles, Bubble("assistant", c.of, Apology)))
      BY <1>10, <2>2 DEF StreamBreaks
    <3> QED
      BY <1>1, <1>2, <2>1, <3>1, <3>2, EndsKeeps
  <2>3. CASE ~(c.got > 0)
    <3> DEFINE d == [c EXCEPT !.st = "single"]
    <3>1. d \in ChatCall /\ d.of = c.of /\ d.st = "single"
      BY <1>1 DEF ChatCall
    <3>2. /\ calls' = (calls \ {c}) \cup {d}
          /\ UNCHANGED <<client, bubbles, sending, asked, logged, unlogged, query, older, cursor,
                         recent, fresh, resets>>
      BY <1>10, <2>3 DEF StreamBreaks
    <3> HIDE DEF d
    <3>3. Grown(bubbles', c.of)
      BY <1>1, <3>2, BubblesGrown
    <3>4. unlogged' \in Nat
      BY <1>1, <3>2 DEF ChatShape
    <3> QED
      BY <2>1, <3>1, <3>2, <3>3, <3>4, GoesOnKeeps
  <2> QED
    BY <2>2, <2>3
<1>11. CASE SingleEnds(c)
  <2>1. c.st = "single" /\ ~Placeholds
    BY <1>11 DEF SingleEnds, ChatInv, OneRequest
  <2>2. PICK shown \in {Final(c.of, Whole), Append(bubbles, Bubble("assistant", c.of, Apology))} :
          Ends(c, shown)
    BY <1>11, <1>3 DEF SingleEnds
  <2>3. Grown(shown, c.of)
    BY <1>1, <1>3, <2>2, AppendGrown, FinalGrown
  <2> QED
    BY <1>1, <1>2, <2>1, <2>2, <2>3, EndsKeeps
<1> QED
  BY <1>4, <1>5, <1>6, <1>7, <1>8, <1>9, <1>10, <1>11 DEF CallStep

LEMMA AbortedCalls ==
  ASSUME ChatShape
  PROVE  /\ Aborted \subseteq ChatCall /\ \A c \in Aborted : c.st = "aborted"
         /\ calls = {} => Aborted = {}
         /\ (\A c, d \in calls : c = d) => \A c, d \in Aborted : c = d
<1>1. \A c \in calls : [c EXCEPT !.st = "aborted"] \in ChatCall /\ [c EXCEPT !.st = "aborted"].st = "aborted"
  BY DEF ChatShape, ChatCall
<1> QED
  BY <1>1 DEF Aborted

LEMMA SendKeeps == ASSUME ChatInv, Send PROVE ChatInv'
<1> DEFINE n == asked + 1
           u == Bubble("user", n, Whole)
           a == Bubble("assistant", n, 0)
           d == [of |-> n, st |-> "sent", got |-> 0]
<1>1. /\ ChatShape /\ n \in Nat /\ fresh \in Nat /\ fresh <= n
      /\ Len(bubbles) \in Nat /\ DOMAIN bubbles = 1 .. Len(bubbles)
  BY DEF ChatInv, ChatShape, OfThisConversation
<1>2. /\ u \in Message /\ a \in Message /\ d \in ChatCall /\ d.st = "sent" /\ d.of = n
      /\ u.by = "user" /\ u.of = n /\ a.by = "assistant" /\ a.of = n
  BY <1>1, ChatConstants DEF Message, ChatCall, Bubble, Whole
<1>3. /\ asked' = n /\ sending' = TRUE
      /\ bubbles' = bubbles \o <<u>> \o IF Placeholds THEN <<a>> ELSE <<>>
      /\ calls' = (IF client = "AIChat" THEN calls ELSE Aborted) \cup {d}
      /\ UNCHANGED <<client, logged, unlogged, query, older, cursor, recent, fresh, resets>>
  BY DEF Send
<1>4. AtRest /\ ~sending
  BY DEF Send, MaySend
<1>5. Placeholds => calls = {}
  BY <1>4 DEF ChatInv, OneRequest, AtRest
<1> HIDE DEF n, u, a, d
<1>6. /\ bubbles' \in Seq(Message)
      /\ Len(bubbles') = Len(bubbles) + IF Placeholds THEN 2 ELSE 1
      /\ \A i \in 1 .. Len(bubbles') :
           bubbles'[i] = IF i <= Len(bubbles) THEN bubbles[i] ELSE IF i = Len(bubbles) + 1 THEN u ELSE a
  <2> DEFINE mid == bubbles \o <<u>>
  <2>0. /\ mid \in Seq(Message) /\ Len(mid) = Len(bubbles) + 1
        /\ \A i \in 1 .. Len(bubbles) + 1 : mid[i] = IF i <= Len(bubbles) THEN bubbles[i] ELSE u
    BY <1>1, <1>2 DEF ChatShape
  <2> HIDE DEF mid
  <2>1. CASE Placeholds
    <3>1. bubbles' = mid \o <<a>>
      BY <1>3, <2>1 DEF mid
    <3>2. /\ bubbles' \in Seq(Message) /\ Len(bubbles') = Len(mid) + 1
          /\ \A i \in 1 .. Len(mid) + 1 : bubbles'[i] = IF i <= Len(mid) THEN mid[i] ELSE a
      BY <1>2, <2>0, <3>1
    <3> QED
      BY <1>1, <2>0, <2>1, <3>2
  <2>2. CASE ~Placeholds
    <3>1. bubbles' = mid \o <<>>
      BY <1>3, <2>2 DEF mid
    <3>2. bubbles' = mid
      BY <2>0, <3>1
    <3> QED
      BY <1>1, <2>0, <2>2, <3>2
  <2> QED
    BY <2>1, <2>2
<1>7. Len(bubbles) <= Len(bubbles') /\ DOMAIN bubbles' = 1 .. Len(bubbles') /\ Len(bubbles') \in Nat
  BY <1>1, <1>6
<1>8. Grown(bubbles', n)
  BY <1>1, <1>2, <1>6, <1>7 DEF Grown
<1>9. calls' \subseteq ChatCall /\ \A c \in calls' : c = d \/ c.st = "aborted" \/ c \in calls
  BY <1>1, <1>2, <1>3, AbortedCalls DEF ChatShape
<1>10. ChatShape'
  BY <1>1, <1>3, <1>6, <1>9 DEF ChatShape
<1>11. OneRequest'
  <2> SUFFICES ASSUME Placeholds PROVE OneRequest'
    BY <1>3 DEF OneRequest, Placeholds
  <2>1. calls' = {d}
    BY <1>1, <1>3, <1>5, AbortedCalls
  <2>2. \A i \in DOMAIN bubbles' : bubbles'[i].by = "assistant" /\ bubbles'[i].text = 0 => bubbles'[i].of = n
    BY <1>1, <1>2, <1>5, <1>6, <1>7 DEF ChatInv, OneRequest
  <2> QED
    BY <1>2, <1>3, <2>1, <2>2 DEF OneRequest
<1>12. OfThisConversation'
  <2>1. \A c \in calls' : c.st # "aborted" => fresh <= c.of
    BY <1>1, <1>2, <1>9 DEF ChatInv, OfThisConversation
  <2>2. asked <= n
    BY DEF n, ChatInv, ChatShape
  <2> QED
    BY <1>1, <1>3, <1>8, <2>1, <2>2, GrownConversation DEF ChatInv
<1>13. HistoryIsOnePage'
  BY <1>3, <1>8, GrownHistory DEF ChatInv
<1> QED
  BY <1>10, <1>11, <1>12, <1>13 DEF ChatInv

LEMMA AbandonKeeps ==
  ASSUME ChatInv, Reset \/ Remount PROVE ChatInv'
<1>1. ChatShape /\ fresh' = asked + 1 /\ bubbles' = <<Welcome>> /\ asked' = asked /\ client' = client
  BY DEF Reset, Remount, ChatInv
<1>2. \A c \in calls' : c \in ChatCall /\ c.st = "aborted"
  BY <1>1, AbortedCalls DEF Reset, Remount, ClearedCalls
<1>3. unlogged' \in Nat /\ sending' \in BOOLEAN
  <2>1. CASE Reset
    BY <1>1, <2>1 DEF Reset, ChatShape
  <2>2. CASE Remount
    <3>1. \A c, d \in calls : c = d
      BY <2>2 DEF Remount, ChatInv, OneRequest, Placeholds
    <3> DEFINE sent == {c \in calls : c.st = "sent"}
    <3>2. Cardinality(sent) \in Nat
      BY <3>1, AtMostOne
    <3>3. unlogged' = unlogged + Cardinality(sent) /\ sending' = FALSE
      BY <2>2 DEF Remount
    <3> HIDE DEF sent
    <3>4. unlogged \in Nat
      BY <1>1 DEF ChatShape
    <3>5. unlogged' \in Nat
      BY <3>2, <3>3, <3>4
    <3> QED
      BY <3>3, <3>5
  <2> QED
    BY <2>1, <2>2
<1>4. logged' = logged
  BY DEF Reset, Remount
<1>p. /\ query' \in [st : {"asked", "read", "done"}, page : Page]
      /\ older' \in [st : {"no", "asked", "read"}, page : Page]
  <2>1. NoPage \in Page
    BY DEF NoPage, Page
  <2>2. \A st \in {"asked", "read"} : [query EXCEPT !.st = st] \in [st : {"asked", "read", "done"}, page : Page]
    BY <1>1 DEF ChatShape
  <2>3. CASE Reset
    BY <1>1, <2>3 DEF Reset, ChatShape
  <2>4. CASE Remount
    <3>1. /\ older' = [st |-> "no", page |-> NoPage]
          /\ query' \in {query, [query EXCEPT !.st = "read"], [query EXCEPT !.st = "asked"]}
      BY <1>1, <2>4 DEF Remount, ChatShape
    <3> QED
      BY <1>1, <2>1, <2>2, <3>1 DEF ChatShape
  <2> QED
    BY <2>3, <2>4
<1>5. ChatShape'
  BY <1>1, <1>2, <1>3, <1>4, <1>p, WelcomeMessage DEF ChatShape
<1>6. OneRequest'
  <2>1. Placeholds => \A c, d \in calls' : c = d
    BY <1>1, AbortedCalls DEF Reset, Remount, ClearedCalls, ChatInv, OneRequest
  <2> QED
    BY <1>1, <1>2, <2>1, WelcomeMessage DEF OneRequest, Placeholds
<1>7. OfThisConversation'
  BY <1>1, <1>2, WelcomeMessage DEF OfThisConversation, ChatShape
<1>8. HistoryInOrder'
  BY <1>1, WelcomeMessage DEF HistoryInOrder
<1>9. \A i \in DOMAIN bubbles' : bubbles'[i].by # "history"
  BY <1>1, WelcomeMessage
<1>10. HistoryIsOnePage'
  <2>1. CASE Reset
    <3>1. UNCHANGED <<query, older, cursor>>
      BY <2>1 DEF Reset
    <3> QED
      BY <1>8, <1>9, <3>1 DEF ChatInv, HistoryIsOnePage
  <2>2. CASE Remount
    <3>1. /\ older' = [st |-> "no", page |-> NoPage] /\ cursor' = 0
          /\ \E st : query' = [query EXCEPT !.st = st]
      BY <2>2 DEF Remount
    <3>2. query'.page = query.page
      BY <1>1, <3>1 DEF ChatShape
    <3> QED
      BY <1>8, <1>9, <3>1, <3>2 DEF ChatInv, HistoryIsOnePage
  <2> QED
    BY <2>1, <2>2
<1> QED
  BY <1>5, <1>6, <1>7, <1>10 DEF ChatInv

\* A page is numbered from the log's start, and before the first exchange there is none.
LEMMA Pages ==
  ASSUME ChatShape
  PROVE  /\ \E k \in Nat : PageBefore(0).rows = [i \in 1 .. k |-> i]
         /\ PageBefore(0) \in Page /\ PageBefore(1) \in Page
         /\ PageBefore(1).rows = <<>> /\ PageBefore(1).next = 0
<1>1. logged \in Nat /\ PageLimit \in Nat \ {0}
  BY ChatConstants DEF ChatShape
<1>2. PageBefore(0).rows = [i \in 1 .. IF logged >= PageLimit THEN PageLimit ELSE logged |-> i]
  BY DEF PageBefore, Before
<1>3. (IF logged >= PageLimit THEN PageLimit ELSE logged) \in Nat
  BY <1>1
<1>4. Before(1) = 0 /\ ~(Before(1) >= PageLimit)
  BY <1>1 DEF Before
<1>5. PageBefore(1).rows = [i \in 1 .. 0 |-> i] /\ PageBefore(1).next = 0
  BY <1>4 DEF PageBefore
<1>6. [i \in 1 .. 0 |-> i] = <<>>
  OBVIOUS
<1>7. \A k \in Nat : [i \in 1 .. k |-> i] \in Seq(Nat)
  OBVIOUS
<1>8. PageBefore(0).next \in {0, 1} /\ \A k : PageBefore(k) = [rows |-> PageBefore(k).rows, next |-> PageBefore(k).next]
  BY DEF PageBefore
<1>9. PageBefore(0) \in Page /\ PageBefore(1) \in Page
  <2>1. PageBefore(0).rows \in Seq(Nat) /\ PageBefore(1).rows \in Seq(Nat)
    BY <1>2, <1>3, <1>5, <1>7
  <2> QED
    BY <1>5, <1>8, <2>1 DEF Page
<1> QED
  BY <1>2, <1>3, <1>5, <1>6, <1>9

\* The page as it is shown.
LEMMA ShownRows ==
  ASSUME NEW k \in Nat, NEW h, h = [i \in 1 .. k |-> i]
  PROVE  /\ Shown(h) \in Seq(Message) /\ Len(Shown(h)) = k
         /\ \A i \in 1 .. k : Shown(h)[i].by = "history" /\ Shown(h)[i].of = i
<1> DEFINE shown == [i \in 1 .. k |-> Bubble("history", i, Whole)]
<1>1. Shown(h) = shown
  BY DEF Shown
<1>2. \A i \in 1 .. k : Bubble("history", i, Whole) \in Message
  BY ChatConstants DEF Bubble, Message, Whole
<1>3. \A i \in 1 .. k : shown[i].by = "history" /\ shown[i].of = i
  BY DEF Bubble
<1>4. shown \in Seq(Message) /\ Len(shown) = k
  BY <1>2
<1> QED
  BY <1>1, <1>3, <1>4

LEMMA HistoryShownKeeps == ASSUME ChatInv, HistoryShown PROVE ChatInv'
<1> DEFINE front == Shown(query.page.rows)
<1>1. /\ query.st = "read" /\ query' = [query EXCEPT !.st = "done"]
      /\ bubbles' = front \o bubbles /\ cursor' = query.page.next
      /\ UNCHANGED <<client, sending, calls, asked, logged, unlogged, older, recent, fresh, resets>>
  BY DEF HistoryShown
<1>2. PICK k \in Nat : query.page.rows = [i \in 1 .. k |-> i]
  BY DEF ChatInv, HistoryIsOnePage
<1>3. /\ front \in Seq(Message) /\ Len(front) = k
      /\ \A i \in 1 .. k : front[i].by = "history" /\ front[i].of = i
  BY <1>2, ShownRows
<1>4. bubbles \in Seq(Message) /\ Len(bubbles) \in Nat /\ DOMAIN bubbles = 1 .. Len(bubbles)
  BY DEF ChatInv, ChatShape
<1> HIDE DEF front
<1>5. /\ bubbles' \in Seq(Message) /\ DOMAIN bubbles' = 1 .. k + Len(bubbles)
      /\ \A i \in 1 .. k + Len(bubbles) :
           bubbles'[i] = IF i <= k THEN front[i] ELSE bubbles[i - k]
  BY <1>1, <1>3, <1>4
<1>6. \A i \in 1 .. k + Len(bubbles) :
        i <= k \/ (i - k \in 1 .. Len(bubbles) /\ bubbles'[i] = bubbles[i - k])
  BY <1>4, <1>5
<1>7. \A i \in 1 .. k : bubbles'[i].by = "history" /\ bubbles'[i].of = i
  BY <1>3, <1>4, <1>5
<1>8. \A i \in DOMAIN bubbles : bubbles[i].by # "history"
  BY <1>1 DEF ChatInv, HistoryIsOnePage
<1>9. ChatShape'
  BY <1>1, <1>5 DEF ChatInv, ChatShape
<1>10. \A i \in DOMAIN bubbles' :
         bubbles'[i].by = "history" \/ \E j \in DOMAIN bubbles : bubbles'[i] = bubbles[j]
  <2> SUFFICES ASSUME NEW i \in 1 .. k + Len(bubbles), bubbles'[i].by # "history"
               PROVE  \E j \in DOMAIN bubbles : bubbles'[i] = bubbles[j]
    BY <1>5
  <2>1. ~(i <= k)
    BY <1>2, <1>7
  <2> QED
    BY <1>4, <1>6, <2>1
<1>11. OneRequest'
  <2> SUFFICES ASSUME Placeholds PROVE OneRequest'
    BY <1>1 DEF OneRequest, Placeholds
  <2>1. /\ \A b, c \in calls : b = c
        /\ \A c \in calls : c.st # "single" /\ (~sending => c.st = "aborted")
        /\ \A i \in DOMAIN bubbles : bubbles[i].by = "assistant" /\ bubbles[i].text = 0 =>
             \E c \in calls : c.of = bubbles[i].of /\ c.st # "aborted"
    BY DEF ChatInv, OneRequest
  <2>2. \A i \in DOMAIN bubbles' : bubbles'[i].by = "assistant" /\ bubbles'[i].text = 0 =>
          \E c \in calls : c.of = bubbles'[i].of /\ c.st # "aborted"
    <3> SUFFICES ASSUME NEW i \in DOMAIN bubbles', bubbles'[i].by = "assistant", bubbles'[i].text = 0
                 PROVE  \E c \in calls : c.of = bubbles'[i].of /\ c.st # "aborted"
      OBVIOUS
    <3>1. PICK j \in DOMAIN bubbles : bubbles'[i] = bubbles[j]
      BY <1>10
    <3> QED
      BY <2>1, <3>1
  <2> QED
    BY <1>1, <2>1, <2>2 DEF OneRequest
<1>12. OfThisConversation'
  BY <1>1, <1>10 DEF ChatInv, OfThisConversation
<1>13. HistoryInOrder'
  <2> SUFFICES ASSUME NEW i \in DOMAIN bubbles', NEW j \in DOMAIN bubbles', i < j,
                      bubbles'[i].by = "history", bubbles'[j].by = "history"
               PROVE  bubbles'[i].of < bubbles'[j].of
    BY DEF HistoryInOrder
  <2>1. \A n \in DOMAIN bubbles' : bubbles'[n].by = "history" => n \in 1 .. k
    <3> SUFFICES ASSUME NEW n \in 1 .. k + Len(bubbles), bubbles'[n].by = "history"
                 PROVE  n <= k
      BY <1>4, <1>5
    <3> QED
      BY <1>4, <1>6, <1>8
  <2>2. i \in 1 .. k /\ j \in 1 .. k
    BY <2>1
  <2> QED
    BY <1>7, <2>2
<1>14. /\ query'.page = query.page /\ query'.st = "done"
       /\ cursor' \in {0, 1} /\ older.st = "no"
  <2>1. query \in [st : {"asked", "read", "done"}, page : Page]
    BY DEF ChatInv, ChatShape
  <2> QED
    BY <1>1, <2>1 DEF ChatInv, HistoryIsOnePage, Page
<1>15. HistoryIsOnePage'
  BY <1>1, <1>13, <1>14 DEF ChatInv, HistoryIsOnePage
<1> QED
  BY <1>9, <1>11, <1>12, <1>15 DEF ChatInv

LEMMA OlderShownKeeps == ASSUME ChatInv, OlderShown PROVE ChatInv'
<1>1. /\ older' = [st |-> "no", page |-> NoPage] /\ bubbles' = Shown(<<>>) \o bubbles /\ cursor' = 0
      /\ UNCHANGED <<client, sending, calls, asked, logged, unlogged, query, recent, fresh, resets>>
  BY DEF OlderShown, ChatInv, HistoryIsOnePage
<1>2. bubbles' = bubbles
  <2>1. Shown(<<>>) = <<>>
    BY DEF Shown
  <2> QED
    BY <1>1, <2>1 DEF ChatInv, ChatShape
<1>3. ChatShape'
  <2>1. NoPage \in Page
    BY DEF NoPage, Page
  <2> QED
    BY <1>1, <1>2, <2>1 DEF ChatInv, ChatShape
<1>4. OneRequest' /\ OfThisConversation'
  BY <1>1, <1>2 DEF ChatInv, OneRequest, OfThisConversation, Placeholds
<1>5. HistoryInOrder' <=> HistoryInOrder
  BY <1>2 DEF HistoryInOrder
<1>6. HistoryIsOnePage'
  BY <1>1, <1>2, <1>5 DEF ChatInv, HistoryIsOnePage
<1> QED
  BY <1>3, <1>4, <1>6 DEF ChatInv

\* The steps of the log and of its pages on their way.
LEMMA LogKeeps ==
  ASSUME ChatInv, LogExchange \/ HistoryRead \/ LoadOlder \/ OlderRead \/ OlderFails \/ UNCHANGED chatVars
  PROVE  ChatInv'
<1>1. UNCHANGED <<client, bubbles, sending, calls, asked, cursor, fresh>>
  BY DEF LogExchange, HistoryRead, LoadOlder, OlderRead, OlderFails, chatVars
<1>2. logged' \in Nat /\ unlogged' \in Nat
  BY DEF LogExchange, HistoryRead, LoadOlder, OlderRead, OlderFails, chatVars, ChatInv, ChatShape
<1>t. cursor \in {0, 1} /\ (older.st = "asked" => cursor = 1)
  BY DEF ChatInv, HistoryIsOnePage
<1>p. /\ query' \in [st : {"asked", "read", "done"}, page : Page]
      /\ older' \in [st : {"no", "asked", "read"}, page : Page]
  <2>1. PageBefore(0) \in Page /\ PageBefore(1) \in Page
    BY Pages DEF ChatInv
  <2>2. CASE LogExchange \/ UNCHANGED chatVars
    BY <2>2 DEF LogExchange, chatVars, ChatInv, ChatShape
  <2>3. CASE HistoryRead
    BY <2>1, <2>3 DEF HistoryRead, ChatInv, ChatShape
  <2>4. CASE LoadOlder
    BY <2>4 DEF LoadOlder, ChatInv, ChatShape
  <2>5. CASE OlderRead
    BY <2>1, <2>5, <1>t DEF OlderRead, ChatInv, ChatShape
  <2>6. CASE OlderFails
    BY <2>6 DEF OlderFails, ChatInv, ChatShape
  <2> QED
    BY <2>2, <2>3, <2>4, <2>5, <2>6
<1>3. ChatShape'
  BY <1>1, <1>2, <1>p DEF ChatInv, ChatShape
<1>4. OneRequest' /\ OfThisConversation'
  BY <1>1 DEF ChatInv, OneRequest, OfThisConversation, Placeholds
<1>5. HistoryInOrder' <=> HistoryInOrder
  BY <1>1 DEF HistoryInOrder
<1>6. HistoryIsOnePage'
  <2>1. CASE LogExchange \/ UNCHANGED chatVars
    <3>1. UNCHANGED <<query, older>>
      BY <2>1 DEF LogExchange, chatVars
    <3> QED
      BY <1>1, <1>5, <3>1 DEF ChatInv, HistoryIsOnePage
  <2>2. CASE HistoryRead
    <3>1. query.st = "asked" /\ query' = [st |-> "read", page |-> PageBefore(0)] /\ older' = older
      BY <2>2 DEF HistoryRead
    <3>2. query'.page = PageBefore(0) /\ query'.st = "read"
      BY <3>1
    <3> QED
      BY <1>1, <1>5, <3>1, <3>2, Pages DEF ChatInv, HistoryIsOnePage
  <2>3. CASE LoadOlder
    <3>1. /\ cursor # 0 /\ older.st = "no" /\ older' = [older EXCEPT !.st = "asked"] /\ query' = query
      BY <2>3 DEF LoadOlder
    <3>2. older'.st = "asked"
      BY <3>1 DEF ChatInv, ChatShape
    <3> QED
      BY <1>1, <1>5, <3>1, <3>2 DEF ChatInv, HistoryIsOnePage
  <2>4. CASE OlderRead
    <3>1. older.st = "asked" /\ older' = [st |-> "read", page |-> PageBefore(cursor)] /\ query' = query
      BY <2>4 DEF OlderRead
    <3>2. cursor = 1 /\ query.st = "done"
      BY <3>1 DEF ChatInv, HistoryIsOnePage
    <3>3. older'.page = PageBefore(1) /\ older'.st = "read"
      BY <3>1, <3>2
    <3> QED
      BY <1>1, <1>5, <3>1, <3>2, <3>3, Pages DEF ChatInv, HistoryIsOnePage
  <2>5. CASE OlderFails
    <3>1. older' = [older EXCEPT !.st = "no"] /\ query' = query
      BY <2>5 DEF OlderFails
    <3>2. older'.st = "no"
      BY <3>1 DEF ChatInv, ChatShape
    <3> QED
      BY <1>1, <1>5, <3>1, <3>2 DEF ChatInv, HistoryIsOnePage
  <2> QED
    BY <2>1, <2>2, <2>3, <2>4, <2>5
<1> QED
  BY <1>3, <1>4, <1>6 DEF ChatInv

LEMMA ChatStep == ChatInv /\ [ChatNext]_chatVars => ChatInv'
BY SendKeeps, AbandonKeeps, CallStepKeeps, LogKeeps, HistoryShownKeeps, OlderShownKeeps DEF ChatNext

LEMMA ChatInvGives == ChatInv => ChatInOrder
<1>1. ChatInv => SpinnerIsAnswered
  <2>1. ASSUME ChatShape, NEW b \in ToSet(bubbles) PROVE \E i \in DOMAIN bubbles : b = bubbles[i]
    BY <2>1 DEF ToSet
  <2> QED
    BY <2>1 DEF ChatInv, OneRequest, SpinnerIsAnswered
<1>2. ChatInv => ClearedStaysCleared
  <2>1. ASSUME NEW b \in ToSet(bubbles) PROVE \E i \in DOMAIN bubbles : b = bubbles[i]
    BY <2>1 DEF ToSet
  <2>2. ChatInv => fresh \in Nat
    BY DEF ChatInv, ChatShape
  <2> QED
    BY <2>1, <2>2 DEF ChatInv, OfThisConversation, ClearedStaysCleared
<1> QED
  BY <1>1, <1>2 DEF ChatInv, HistoryIsOnePage, ChatInOrder

\* A chat answers what was asked, shows nothing of a conversation that was cleared, and
\* keeps its history in the log's order (AIChat, useChat, the mobile hook).
THEOREM ChatKeepsOrder == ChatSpec => []ChatInOrder
BY ChatInitInv, ChatStep, ChatInvGives, PTL DEF ChatSpec

Says == [by : {"user", "assistant", "history"}, of : Numbers, text : 0 .. Apology]
Asking == [of : Numbers, st : {"sent", "answered", "single", "aborted"}, got : 0 .. MaxTokens]

\* Whether a request is still to be answered by the backend, as a number.
Underway == IF Placeholds /\ \E c \in calls : c.st = "sent" THEN 1 ELSE 0

\* An exchange is in the log, or on its way there, once for each message, beyond those
\* that were there when the page opened.
LoggedOnce == logged + unlogged + Underway <= OldExchanges + asked

ChatSizeInv ==
  /\ ChatTypeOK /\ LoggedOnce /\ asked <= MaxSends
  /\ query.page.next \in Numbers /\ older.page.next \in Numbers

LEMMA ChatSets ==
  /\ Numbers \subseteq Nat /\ \A n : n \in Numbers <=> n \in Nat /\ n <= OldExchanges + MaxSends
  /\ 0 \in Numbers /\ Whole \in 0 .. Apology /\ Apology \in 0 .. Apology /\ 0 \in 0 .. Apology
  /\ \A t \in 0 .. MaxTokens : t \in 0 .. Apology
  /\ \A n \in Numbers : \A t \in 0 .. Apology : \A by \in {"user", "assistant", "history"} :
       Bubble(by, n, t) \in Says
BY ChatConstants DEF Numbers, Whole, Apology, Bubble, Says

LEMMA FewerWaiting ==
  ASSUME NEW l \in Nat, NEW u \in Nat, NEW v \in Nat, NEW w \in Nat, NEW all \in Nat,
         v <= w, l + u + w <= all
  PROVE  l + u + v <= all
OBVIOUS

LEMMA OneMoreWaiting ==
  ASSUME NEW l \in Nat, NEW u \in Nat, NEW v \in Nat, NEW w \in Nat, NEW o \in Nat, NEW a \in Nat,
         v <= 1, l + u + w <= o + a
  PROVE  l + u + v <= o + (a + 1)
OBVIOUS

LEMMA UnloggedFits ==
  ASSUME NEW l \in Nat, NEW u \in Nat, NEW w \in Nat, NEW o \in Nat, NEW a \in Nat, NEW m \in Nat,
         a <= m, l + u + w <= o + a
  PROVE  u <= o + m
OBVIOUS

LEMMA WaitingIsNumber == Underway \in Nat /\ Underway <= 1 /\ Underway' \in Nat /\ Underway' <= 1
<1>1. Underway \in {0, 1}
  BY DEF Underway
<1>2. Underway' \in {0, 1}
  BY DEF Underway
<1> QED
  BY <1>1, <1>2

LEMMA SaysMore ==
  ASSUME bubbles \in Seq(Says), NEW n \in Numbers, NEW t \in 0 .. Apology
  PROVE  /\ \A by \in {"user", "assistant"} : Append(bubbles, Bubble(by, n, t)) \in Seq(Says)
         /\ Final(n, t) \in Seq(Says) /\ Filled(n, t) \in Seq(Says)
<1>1. \A by \in {"user", "assistant"} : Bubble(by, n, t) \in Says
  BY ChatSets
<1>2. \A by \in {"user", "assistant"} : Append(bubbles, Bubble(by, n, t)) \in Seq(Says)
  BY <1>1
<1>3. Final(n, t) \in Seq(Says)
  BY <1>2 DEF Final
<1>4. Filled(n, t) \in Seq(Says)
  <2>1. \A i \in 1 .. Len(bubbles) : bubbles[i] \in Says /\ [bubbles[i] EXCEPT !.text = t] \in Says
    <3>1. \A b \in Says : [b EXCEPT !.text = t] \in Says
      BY DEF Says
    <3>2. \A i \in 1 .. Len(bubbles) : bubbles[i] \in Says
      OBVIOUS
    <3> QED
      BY <3>1, <3>2
  <2>2. DOMAIN bubbles = 1 .. Len(bubbles) /\ Len(bubbles) \in Nat
    OBVIOUS
  <2>3. Filled(n, t) \in [1 .. Len(bubbles) -> Says]
    BY <2>1, <2>2 DEF Filled
  <2> QED
    BY <2>2, <2>3, SeqDef
<1> QED
  BY <1>2, <1>3, <1>4

LEMMA ChatStartSizes == ChatInit => ChatSizeInv
<1> SUFFICES ASSUME ChatInit PROVE ChatSizeInv
  OBVIOUS
<1>1. <<Welcome>> \in Seq(Says) /\ <<>> \in Seq(Numbers)
  <2>1. Welcome \in Says
    BY ChatSets DEF Welcome
  <2> QED
    BY <2>1
<1>2. logged \in Numbers /\ logged <= OldExchanges /\ logged \in Nat
  BY ChatConstants, ChatSets DEF ChatInit
<1>3. ChatTypeOK
  <2>1. 0 \in 0 .. MaxResets
    BY ChatConstants
  <2> QED
    BY <1>1, <1>2, <2>1, ChatSets DEF ChatInit, ChatTypeOK, NoPage, Says
<1>4. LoggedOnce /\ asked <= MaxSends
  BY <1>2, ChatConstants DEF ChatInit, LoggedOnce, Underway
<1> QED
  BY <1>3, <1>4, ChatSets DEF ChatInit, ChatSizeInv, NoPage

\* The log and its pages as they were, a request changed or gone.
LEMMA CallSizes ==
  ASSUME ChatSizeInv, ChatInv', calls' \subseteq Asking, bubbles' \in Seq(Says), LoggedOnce',
         UNCHANGED <<client, asked, logged, query, older, cursor, resets>>
  PROVE  ChatSizeInv'
<1>1. ChatTypeOK
  BY DEF ChatSizeInv
<1>2. /\ logged \in Nat /\ unlogged' \in Nat /\ asked \in Nat /\ asked <= MaxSends
      /\ sending' \in BOOLEAN
  BY <1>1, ChatSets DEF ChatSizeInv, ChatTypeOK, ChatInv, ChatShape
<1>3. unlogged' \in Numbers
  <2>1. OldExchanges \in Nat /\ MaxSends \in Nat
    BY ChatConstants
  <2>2. logged + unlogged' + Underway' <= OldExchanges + asked
    BY DEF LoggedOnce
  <2>3. unlogged' <= OldExchanges + MaxSends
    BY <1>2, <2>1, <2>2, WaitingIsNumber, UnloggedFits
  <2> QED
    BY <1>2, <2>3, ChatSets
<1>4. ChatTypeOK'
  BY <1>1, <1>2, <1>3 DEF ChatTypeOK, Says, Asking
<1> QED
  BY <1>4 DEF ChatSizeInv

LEMMA EndsSizes ==
  ASSUME ChatSizeInv, ChatInv', NEW c \in calls, NEW shown \in Seq(Says), Ends(c, shown)
  PROVE  ChatSizeInv'
<1>1. /\ bubbles' = shown /\ calls' = calls \ {c}
      /\ UNCHANGED <<client, asked, logged, unlogged, query, older, cursor, resets>>
  BY DEF Ends
<1>2. calls' \subseteq Asking
  BY <1>1 DEF ChatSizeInv, ChatTypeOK, Asking
<1>3. LoggedOnce'
  <2>1. Underway' <= Underway
    BY <1>1 DEF Underway, Placeholds
  <2>2. logged \in Nat /\ unlogged \in Nat /\ OldExchanges + asked \in Nat
    BY ChatSets, ChatConstants DEF ChatSizeInv, ChatTypeOK
  <2>3. logged + unlogged + Underway <= OldExchanges + asked
    BY DEF ChatSizeInv, LoggedOnce
  <2>4. logged + unlogged + Underway' <= OldExchanges + asked
    BY <2>1, <2>2, <2>3, WaitingIsNumber, FewerWaiting
  <2> QED
    BY <1>1, <2>4 DEF LoggedOnce
<1> QED
  BY <1>1, <1>2, <1>3, CallSizes

\* A request that goes on, neither begun nor answered by it.
LEMMA GoesOnSizes ==
  ASSUME ChatSizeInv, ChatInv', NEW c \in calls, NEW d \in Asking, calls' = (calls \ {c}) \cup {d},
         ~Placeholds, bubbles' \in Seq(Says),
         UNCHANGED <<client, asked, logged, unlogged, query, older, cursor, resets>>
  PROVE  ChatSizeInv'
<1>1. calls' \subseteq Asking
  BY DEF ChatSizeInv, ChatTypeOK, Asking
<1>2. Underway' = Underway
  BY DEF Underway, Placeholds
<1>3. LoggedOnce'
  BY <1>2 DEF ChatSizeInv, LoggedOnce
<1> QED
  BY <1>1, <1>3, CallSizes

LEMMA HandledSizes ==
  ASSUME ChatSizeInv, ChatInv, ChatInv', NEW c \in calls, HandleMessage(c)
  PROVE  ChatSizeInv'
<1> DEFINE d == [c EXCEPT !.st = "answered"]
<1>1. /\ c.st = "sent" /\ Placeholds /\ calls' = (calls \ {c}) \cup {d} /\ unlogged' = unlogged + 1
      /\ UNCHANGED <<client, bubbles, sending, asked, logged, query, older, cursor, resets>>
  BY DEF HandleMessage
<1>2. d \in Asking /\ d.st = "answered"
  BY DEF ChatSizeInv, ChatTypeOK, Asking
<1> HIDE DEF d
<1>3. calls' \subseteq Asking
  BY <1>1, <1>2 DEF ChatSizeInv, ChatTypeOK, Asking
<1>4. Underway = 1 /\ Underway' = 0
  <2>1. \A e \in calls : e = c
    BY <1>1 DEF ChatInv, OneRequest
  <2>2. \A e \in calls' : e.st # "sent"
    BY <1>1, <1>2, <2>1
  <2> QED
    BY <1>1, <2>2 DEF Underway
<1>5. LoggedOnce'
  <2>1. logged \in Nat /\ unlogged \in Nat /\ asked \in Nat /\ OldExchanges \in Nat
    BY ChatSets, ChatConstants DEF ChatSizeInv, ChatTypeOK
  <2>2. logged + unlogged + 1 <= OldExchanges + asked
    BY <1>4 DEF ChatSizeInv, LoggedOnce
  <2>3. logged + (unlogged + 1) + 0 <= OldExchanges + asked
    BY ONLY <2>1, <2>2
  <2> QED
    BY <1>1, <1>4, <2>3 DEF LoggedOnce
<1>6. bubbles' \in Seq(Says)
  BY <1>1 DEF ChatSizeInv, ChatTypeOK, Says
<1> QED
  BY <1>1, <1>3, <1>5, <1>6, CallSizes

LEMMA CallStepSizes ==
  ASSUME ChatSizeInv, ChatInv, ChatInv', NEW c \in calls, CallStep(c)
  PROVE  ChatSizeInv'
<1>1. /\ c \in Asking /\ c.of \in Numbers /\ c.got \in 0 .. MaxTokens /\ c.got \in Nat
      /\ bubbles \in Seq(Says)
  BY ChatConstants DEF ChatSizeInv, ChatTypeOK, Says, Asking
<1>2. Whole \in 0 .. Apology /\ Apology \in 0 .. Apology /\ c.got \in 0 .. Apology
  BY <1>1, ChatSets
<1>3. CASE HandleMessage(c)
  BY <1>3, HandledSizes
<1>4. CASE AnswerShown(c)
  BY <1>1, <1>2, <1>4, SaysMore, EndsSizes DEF AnswerShown
<1>5. CASE AnswerFails(c)
  BY <1>1, <1>2, <1>5, SaysMore, EndsSizes DEF AnswerFails
<1>6. CASE AbortSeen(c)
  BY <1>1, <1>6, EndsSizes DEF AbortSeen
<1>7. CASE StreamToken(c)
  <2> DEFINE d == [c EXCEPT !.got = c.got + 1]
  <2>1. /\ ~Placeholds /\ calls' = (calls \ {c}) \cup {d} /\ c.got < MaxTokens
        /\ bubbles' = Append(bubbles, Bubble("assistant", c.of, c.got + 1))
        /\ UNCHANGED <<client, asked, logged, unlogged, query, older, cursor, resets>>
    BY <1>7 DEF StreamToken, Streaming, Placeholds
  <2>2. c.got + 1 \in 0 .. MaxTokens /\ c.got + 1 \in 0 .. Apology
    <3>1. c.got \in Nat /\ c.got < MaxTokens /\ MaxTokens \in Nat
      BY <1>1, <2>1, ChatConstants
    <3>2. c.got + 1 \in 0 .. MaxTokens
      BY ONLY <3>1
    <3> QED
      BY <3>2, ChatSets
  <2>3. d \in Asking
    BY <1>1, <2>2 DEF Asking
  <2>4. bubbles' \in Seq(Says)
    BY <1>1, <2>1, <2>2, SaysMore
  <2> HIDE DEF d
  <2> QED
    BY <2>1, <2>3, <2>4, GoesOnSizes
<1>8. CASE StreamDone(c)
  <2>1. Ends(c, IF c.got = 0 THEN bubbles ELSE Final(c.of, c.got))
    BY <1>8 DEF StreamDone
  <2>2. (IF c.got = 0 THEN bubbles ELSE Final(c.of, c.got)) \in Seq(Says)
    BY <1>1, <1>2, SaysMore
  <2> QED
    BY <2>1, <2>2, EndsSizes
<1>9. CASE StreamBreaks(c)
  <2>1. CASE c.got > 0
    BY <1>1, <1>2, <1>9, <2>1, SaysMore, EndsSizes DEF StreamBreaks
  <2>2. CASE ~(c.got > 0)
    <3> DEFINE d == [c EXCEPT !.st = "single"]
    <3>1. /\ ~Placeholds /\ calls' = (calls \ {c}) \cup {d} /\ bubbles' = bubbles
          /\ UNCHANGED <<client, asked, logged, unlogged, query, older, cursor, resets>>
      BY <1>9, <2>2 DEF StreamBreaks, Streaming, Placeholds
    <3>2. d \in Asking
      BY <1>1 DEF Asking
    <3> HIDE DEF d
    <3> QED
      BY <1>1, <3>1, <3>2, GoesOnSizes
  <2> QED
    BY <2>1, <2>2
<1>10. CASE SingleEnds(c)
  <2>1. PICK shown \in {Final(c.of, Whole), Append(bubbles, Bubble("assistant", c.of, Apology))} :
          Ends(c, shown)
    BY <1>10 DEF SingleEnds, Whole, Apology
  <2>2. shown \in Seq(Says)
    BY <1>1, <1>2, <2>1, SaysMore
  <2> QED
    BY <2>1, <2>2, EndsSizes
<1> QED
  BY <1>3, <1>4, <1>5, <1>6, <1>7, <1>8, <1>9, <1>10 DEF CallStep

LEMMA SendSizes == ASSUME ChatSizeInv, ChatInv', Send PROVE ChatSizeInv'
<1> DEFINE n == asked + 1
           c == [of |-> n, st |-> "sent", got |-> 0]
           more == IF Placeholds THEN <<Bubble("assistant", n, 0)>> ELSE <<>>
<1>1. /\ asked < MaxSends /\ asked' = n
      /\ bubbles' = (bubbles \o <<Bubble("user", n, Whole)>>) \o more
      /\ calls' = (IF client = "AIChat" THEN calls ELSE Aborted) \cup {c}
      /\ sending' = TRUE
      /\ UNCHANGED <<client, logged, unlogged, query, older, cursor, resets>>
  BY DEF Send
<1>2. ChatTypeOK /\ asked \in Nat /\ logged \in Nat /\ unlogged \in Nat
  BY ChatSets DEF ChatSizeInv, ChatTypeOK
<1>3. n \in Nat /\ n <= MaxSends /\ n \in Numbers
  <2>1. n \in Nat /\ n <= MaxSends /\ n <= OldExchanges + MaxSends
    BY <1>1, <1>2, ChatConstants
  <2> QED
    BY <2>1, ChatSets
<1>4. calls' \subseteq Asking
  <2>1. c \in Asking
    BY <1>3, ChatConstants DEF Asking
  <2>2. calls \subseteq Asking /\ Aborted \subseteq Asking
    BY <1>2 DEF ChatTypeOK, Asking, Aborted
  <2> QED
    BY <1>1, <2>1, <2>2
<1>5. bubbles' \in Seq(Says)
  <2>1. Bubble("user", n, Whole) \in Says /\ Bubble("assistant", n, 0) \in Says
    BY <1>3, ChatSets
  <2>2. <<Bubble("user", n, Whole)>> \in Seq(Says) /\ more \in Seq(Says)
    BY <2>1
  <2>3. bubbles \in Seq(Says)
    BY <1>2 DEF ChatTypeOK, Says
  <2> HIDE DEF more
  <2> QED
    BY <1>1, <2>2, <2>3
<1>6. LoggedOnce'
  <2>1. OldExchanges \in Nat
    BY ChatConstants
  <2>2. logged + unlogged + Underway <= OldExchanges + asked
    BY DEF ChatSizeInv, LoggedOnce
  <2>3. logged + unlogged + Underway' <= OldExchanges + (asked + 1)
    BY <1>2, <2>1, <2>2, WaitingIsNumber, OneMoreWaiting
  <2> QED
    BY <1>1, <2>3 DEF LoggedOnce
<1>7. ChatTypeOK'
  BY <1>1, <1>2, <1>3, <1>4, <1>5 DEF ChatTypeOK, Says, Asking
<1> QED
  BY <1>1, <1>3, <1>6, <1>7 DEF ChatSizeInv

\* Cleared, or left and opened again: what was asked is as good as logged.
LEMMA AbandonSizes ==
  ASSUME ChatSizeInv, ChatInv, ChatInv', Reset \/ Remount PROVE ChatSizeInv'
<1>1. /\ ChatTypeOK /\ asked \in Nat /\ logged \in Nat /\ unlogged \in Nat /\ resets \in Nat
      /\ asked <= MaxSends /\ OldExchanges \in Nat /\ MaxSends \in Nat
  BY ChatSets, ChatConstants DEF ChatSizeInv, ChatTypeOK
<1>2. /\ UNCHANGED <<client, asked, logged>> /\ resets' = resets + 1 /\ resets < MaxResets
      /\ bubbles' = <<Welcome>>
  BY DEF Reset, Remount
<1>3. resets' \in 0 .. MaxResets /\ bubbles' \in Seq(Says) /\ sending' \in BOOLEAN
  <2>1. Welcome \in Says
    BY ChatSets DEF Welcome
  <2> QED
    BY <1>1, <1>2, <2>1, ChatConstants DEF ChatInv, ChatShape
<1>4. calls' \subseteq Asking /\ Underway' = 0
  <2>1. Aborted \subseteq Asking /\ \A c \in Aborted : c.st = "aborted"
    BY <1>1 DEF ChatTypeOK, Asking, Aborted
  <2>2. calls' = Aborted \/ calls' = {}
    BY DEF Reset, Remount, ClearedCalls
  <2> QED
    BY <2>1, <2>2 DEF Underway
<1>5. unlogged' \in Nat /\ unlogged' <= unlogged + Underway
  <2>1. CASE Reset
    BY <1>1, <2>1 DEF Reset, Underway
  <2>2. CASE Remount
    <3> DEFINE sent == {c \in calls : c.st = "sent"}
    <3>1. Placeholds /\ \A c, d \in calls : c = d
      BY <2>2 DEF Remount, Placeholds, ChatInv, OneRequest
    <3>2. unlogged' = unlogged + Cardinality(sent)
      BY <2>2 DEF Remount
    <3>3. sent = {} \/ \E c \in calls : sent = {c} /\ c.st = "sent"
      BY <3>1
    <3>4. Underway = 1 \/ sent = {}
      BY <3>1, <3>3 DEF Underway
    <3>5. Cardinality(sent) \in {0, 1} /\ (sent = {} => Cardinality(sent) = 0)
      BY <3>3, FS_EmptySet, FS_Singleton
    <3>6. Underway \in {0, 1}
      BY DEF Underway
    <3> HIDE DEF sent
    <3> QED
      BY <1>1, <3>2, <3>4, <3>5, <3>6
  <2> QED
    BY <2>1, <2>2
<1>7. logged + unlogged + Underway <= OldExchanges + asked
  BY DEF ChatSizeInv, LoggedOnce
<1>8. logged + unlogged' <= OldExchanges + asked /\ unlogged' <= OldExchanges + MaxSends
  <2>1. Underway \in Nat
    BY WaitingIsNumber
  <2>2. \A v \in Nat : v <= unlogged + Underway =>
          logged + v <= OldExchanges + asked /\ v <= OldExchanges + MaxSends
    BY ONLY <1>1, <1>7, <2>1
  <2> QED
    BY ONLY <1>5, <2>2
<1>9. LoggedOnce' /\ unlogged' \in Numbers
  <2>1. logged + unlogged' + 0 = logged + unlogged'
    BY <1>1, <1>5
  <2> QED
    BY <1>2, <1>4, <1>5, <1>8, <2>1, ChatSets DEF LoggedOnce
<1>10. /\ query'.st \in {"asked", "read", "done"} /\ query'.page = query.page
       /\ older'.st \in {"no", "asked", "read"} /\ (older'.page = older.page \/ older'.page = NoPage)
       /\ cursor' \in {cursor, 0}
  <2>1. query \in [st : {"asked", "read", "done"}, page : Page]
    BY DEF ChatInv, ChatShape
  <2>2. query' = query \/ \E st \in {"read", "asked"} : query' = [query EXCEPT !.st = st]
    BY <2>1 DEF Reset, Remount
  <2>3. (older' = older \/ older' = [st |-> "no", page |-> NoPage]) /\ cursor' \in {cursor, 0}
    BY DEF Reset, Remount
  <2>4. older.st \in {"no", "asked", "read"}
    BY <1>1 DEF ChatTypeOK
  <2>5. query'.st \in {"asked", "read", "done"} /\ query'.page = query.page
    BY <2>1, <2>2
  <2>6. older'.st \in {"no", "asked", "read"} /\ (older'.page = older.page \/ older'.page = NoPage)
    BY <2>3, <2>4
  <2> QED
    BY <2>3, <2>5, <2>6
<1>11. older'.page.rows \in Seq(Numbers) /\ older'.page.next \in Numbers /\ cursor' \in Numbers
  <2>1. older.page.rows \in Seq(Numbers) /\ older.page.next \in Numbers /\ cursor \in Numbers
    BY <1>1 DEF ChatSizeInv, ChatTypeOK
  <2>2. CASE older'.page = older.page
    BY <1>10, <2>1, <2>2, ChatSets
  <2>3. CASE older'.page = NoPage
    <3>1. older'.page.rows = <<>> /\ older'.page.next = 0
      BY <2>3 DEF NoPage
    <3> QED
      BY <1>10, <2>1, <3>1, ChatSets
  <2> QED
    BY <1>10, <2>2, <2>3
<1>12. ChatTypeOK'
  BY <1>1, <1>2, <1>3, <1>4, <1>9, <1>10, <1>11 DEF ChatTypeOK, Says, Asking
<1> QED
  BY <1>1, <1>2, <1>9, <1>10, <1>11, <1>12 DEF ChatSizeInv

LEMMA LogSizes == ASSUME ChatSizeInv, LogExchange PROVE ChatSizeInv'
<1>1. /\ unlogged > 0 /\ unlogged' = unlogged - 1 /\ logged' = logged + 1
      /\ UNCHANGED <<client, bubbles, sending, calls, asked, query, older, cursor, resets>>
  BY DEF LogExchange
<1>2. /\ ChatTypeOK /\ asked \in Nat /\ logged \in Nat /\ unlogged \in Nat /\ asked <= MaxSends
      /\ OldExchanges \in Nat /\ MaxSends \in Nat
  BY ChatSets, ChatConstants DEF ChatSizeInv, ChatTypeOK
<1>3. Underway' = Underway /\ Underway \in {0, 1}
  BY <1>1 DEF Underway, Placeholds
<1>4. logged + unlogged + Underway <= OldExchanges + asked
  BY DEF ChatSizeInv, LoggedOnce
<1>5. /\ unlogged - 1 \in Nat /\ (logged + 1) + (unlogged - 1) + Underway <= OldExchanges + asked
      /\ logged + 1 <= OldExchanges + MaxSends /\ unlogged - 1 <= OldExchanges + MaxSends
  BY ONLY <1>1, <1>2, <1>3, <1>4
<1>6. LoggedOnce' /\ logged' \in Numbers /\ unlogged' \in Numbers
  BY <1>1, <1>2, <1>3, <1>5, ChatSets DEF LoggedOnce
<1>7. ChatTypeOK'
  BY <1>1, <1>2, <1>6 DEF ChatTypeOK
<1> QED
  BY <1>1, <1>2, <1>6, <1>7 DEF ChatSizeInv

\* The history changes nothing but the bubbles, the query and the cursor.
LEMMA HistorySizes ==
  ASSUME ChatSizeInv, UNCHANGED <<client, sending, calls, asked, logged, unlogged, resets>>,
         bubbles' \in Seq(Says), query'.st \in {"asked", "read", "done"}, older'.st \in {"no", "asked", "read"},
         query'.page.rows \in Seq(Numbers), older'.page.rows \in Seq(Numbers),
         query'.page.next \in Numbers, older'.page.next \in Numbers, cursor' \in Numbers
  PROVE  ChatSizeInv'
<1>1. Underway' = Underway
  BY DEF Underway, Placeholds
<1>2. LoggedOnce'
  BY <1>1 DEF ChatSizeInv, LoggedOnce
<1>3. ChatTypeOK'
  BY DEF ChatSizeInv, ChatTypeOK, Says
<1> QED
  BY <1>2, <1>3 DEF ChatSizeInv

LEMMA ShownSays ==
  ASSUME ChatSizeInv, NEW h \in Seq(Numbers) PROVE Shown(h) \o bubbles \in Seq(Says)
<1>1. DOMAIN h = 1 .. Len(h) /\ Len(h) \in Nat /\ \A i \in 1 .. Len(h) : h[i] \in Numbers
  OBVIOUS
<1>2. \A i \in 1 .. Len(h) : Bubble("history", h[i], Whole) \in Says
  BY <1>1, ChatSets
<1>3. Shown(h) \in [1 .. Len(h) -> Says]
  BY <1>1, <1>2 DEF Shown
<1>4. Shown(h) \in Seq(Says)
  BY <1>1, <1>3, SeqDef
<1>5. bubbles \in Seq(Says)
  BY DEF ChatSizeInv, ChatTypeOK, Says
<1> QED
  BY <1>4, <1>5

LEMMA FirstPage ==
  ASSUME ChatSizeInv
  PROVE  PageBefore(0).rows \in Seq(Numbers) /\ PageBefore(0).next \in Numbers
<1>1. logged \in Nat /\ logged <= OldExchanges + MaxSends /\ PageLimit \in Nat \ {0}
  BY ChatSets, ChatConstants DEF ChatSizeInv, ChatTypeOK
<1> DEFINE k == IF logged >= PageLimit THEN PageLimit ELSE logged
<1>2. k \in Nat /\ k <= logged
  BY <1>1
<1>3. PageBefore(0).rows = [i \in 1 .. k |-> i] /\ PageBefore(0).next = IF logged >= PageLimit THEN 1 ELSE 0
  BY DEF PageBefore, Before
<1> HIDE DEF k
<1>4. \A i \in 1 .. k : i \in Numbers
  BY <1>1, <1>2, ChatSets, ChatConstants
<1>5. PageBefore(0).rows \in [1 .. k -> Numbers]
  BY <1>3, <1>4
<1>6. PageBefore(0).rows \in Seq(Numbers)
  BY <1>2, <1>5, SeqDef
<1>7. PageBefore(0).next \in Numbers
  BY <1>1, <1>3, ChatSets, ChatConstants
<1> QED
  BY <1>6, <1>7

LEMMA ChatSizeStep ==
  ChatInv /\ ChatSizeInv /\ [ChatNext]_chatVars => ChatSizeInv'
<1> SUFFICES ASSUME ChatInv, ChatSizeInv, [ChatNext]_chatVars PROVE ChatSizeInv'
  OBVIOUS
<1>1. ChatInv'
  BY ChatStep
<1>2. /\ query \in [st : {"asked", "read", "done"}, page : Page]
      /\ older \in [st : {"no", "asked", "read"}, page : Page]
      /\ bubbles \in Seq(Says) /\ ChatTypeOK
      /\ query.page.next \in Numbers /\ older.page.next \in Numbers
  BY DEF ChatInv, ChatShape, ChatSizeInv, ChatTypeOK, Says
<1>3. CASE Send \/ Reset \/ Remount
  BY <1>1, <1>3, SendSizes, AbandonSizes
<1>4. ASSUME NEW c \in calls, CallStep(c) PROVE ChatSizeInv'
  BY <1>1, <1>4, CallStepSizes
<1>5. CASE LogExchange
  BY <1>5, LogSizes
<1>6. CASE HistoryRead
  <2>1. query' = [st |-> "read", page |-> PageBefore(0)]
    BY <1>6 DEF HistoryRead
  <2>2. /\ query'.st = "read" /\ query'.page = PageBefore(0)
        /\ UNCHANGED <<client, bubbles, sending, calls, asked, logged, unlogged, older, cursor, resets>>
    BY <1>6, <2>1 DEF HistoryRead
  <2> QED
    BY <1>2, <2>2, FirstPage, HistorySizes DEF ChatTypeOK
<1>7. CASE HistoryShown
  <2>1. /\ query' = [query EXCEPT !.st = "done"] /\ bubbles' = Shown(query.page.rows) \o bubbles
        /\ cursor' = query.page.next
        /\ UNCHANGED <<client, sending, calls, asked, logged, unlogged, older, resets>>
    BY <1>7 DEF HistoryShown
  <2>2. query'.st = "done" /\ query'.page = query.page
    BY <1>2, <2>1
  <2>3. bubbles' \in Seq(Says)
    BY <1>2, <2>1, ShownSays DEF ChatTypeOK
  <2> QED
    BY <1>2, <2>1, <2>2, <2>3, HistorySizes DEF ChatTypeOK
<1>8. CASE LoadOlder
  <2>1. older' = [older EXCEPT !.st = "asked"]
    BY <1>8 DEF LoadOlder
  <2>2. /\ older'.st = "asked" /\ older'.page = older.page
        /\ UNCHANGED <<client, bubbles, sending, calls, asked, logged, unlogged, query, cursor, resets>>
    BY <1>2, <1>8, <2>1 DEF LoadOlder
  <2> QED
    BY <1>2, <2>2, HistorySizes DEF ChatTypeOK
<1>9. CASE OlderRead
  <2>1. cursor = 1 /\ ChatShape
    BY <1>9 DEF OlderRead, ChatInv, HistoryIsOnePage
  <2>2. older' = [st |-> "read", page |-> PageBefore(1)]
    BY <1>9, <2>1 DEF OlderRead
  <2>3. older'.st = "read" /\ older'.page = PageBefore(1)
    BY <2>2
  <2>4. older'.page.rows \in Seq(Numbers) /\ older'.page.next \in Numbers
    <3>1. older'.page.rows = <<>> /\ older'.page.next = 0
      BY <2>1, <2>3, Pages
    <3> QED
      BY <3>1, ChatSets
  <2>5. UNCHANGED <<client, bubbles, sending, calls, asked, logged, unlogged, query, cursor, resets>>
    BY <1>9 DEF OlderRead
  <2> QED
    BY <1>2, <2>3, <2>4, <2>5, HistorySizes DEF ChatTypeOK
<1>10. CASE OlderShown
  <2>1. /\ older' = [st |-> "no", page |-> NoPage] /\ bubbles' = Shown(older.page.rows) \o bubbles
        /\ cursor' = older.page.next
        /\ UNCHANGED <<client, sending, calls, asked, logged, unlogged, query, resets>>
    BY <1>10 DEF OlderShown
  <2>2. older'.st = "no" /\ older'.page.rows = <<>> /\ older'.page.next = 0
    BY <2>1 DEF NoPage
  <2>3. bubbles' \in Seq(Says)
    BY <1>2, <2>1, ShownSays DEF ChatTypeOK
  <2>4. older'.page.rows \in Seq(Numbers) /\ older'.page.next \in Numbers
    BY <2>2, ChatSets
  <2> QED
    BY <1>2, <2>1, <2>2, <2>3, <2>4, HistorySizes DEF ChatTypeOK
<1>11. CASE UNCHANGED chatVars
  BY <1>2, <1>11, HistorySizes DEF chatVars, ChatTypeOK
<1>12. CASE OlderFails
  <2>1. older' = [older EXCEPT !.st = "no"]
    BY <1>12 DEF OlderFails
  <2>2. /\ older'.st = "no" /\ older'.page = older.page
        /\ UNCHANGED <<client, bubbles, sending, calls, asked, logged, unlogged, query, cursor, resets>>
    BY <1>2, <1>12, <2>1 DEF OlderFails
  <2> QED
    BY <1>2, <2>2, HistorySizes DEF ChatTypeOK
<1> QED
  BY <1>3, <1>4, <1>5, <1>6, <1>7, <1>8, <1>9, <1>10, <1>11, <1>12 DEF ChatNext

\* What a chat holds; each exchange is logged once (Send, the backend's background task,
\* the remount of AIChat).
THEOREM ChatTypes == ChatSpec => []ChatTypeOK
<1>1. ChatSizeInv => ChatTypeOK
  BY DEF ChatSizeInv
<1> QED
  BY ChatInitInv, ChatStartSizes, ChatStep, ChatSizeStep, <1>1, PTL DEF ChatSpec

----------------------------------------------------------------------------
(* The notifications screen and the toasts. *)

Decreasing(s) == \A i, j \in DOMAIN s : i < j => s[j] < s[i]

\* Notifications and toasts are numbered as they come, the newest in front.
NewestFirst ==
  /\ born \in Nat /\ feed \in Seq(Ids) /\ Decreasing(feed)
  /\ \A i \in DOMAIN feed : feed[i] <= born

\* Each toast that is shown has its timer.
ToastsTick ==
  /\ toasted \in Nat /\ toasts \in Seq(Nat) /\ Decreasing(toasts)
  /\ \A i \in DOMAIN toasts : toasts[i] <= toasted /\ toasts[i] \in ticking

FeedLoad == [reset : BOOLEAN, at : Nat, st : {"sent", "read"}, rows : Seq(Ids), of : Nat]

\* The rows of the page of feed that starts at k.
PageAt(k) == SubSeq(feed, k + 1, Smaller(k + PageSize, Len(feed)))

\* While no load has overlapped and nothing has changed: one load at most, of the page
\* where the rows on the screen end, or of the first.
LoadsFollow ==
  /\ offset \in Nat
  /\ fetches \subseteq FeedLoad
  /\ ~shifted =>
       /\ deleting = {} /\ items \in Seq(Ids) /\ IsPrefix(items, feed) /\ offset = Len(items)
       /\ \A l, m \in fetches : l = m
       /\ \A l \in fetches :
            /\ l.at = IF l.reset THEN 0 ELSE offset
            /\ l.st = "read" => l.rows = PageAt(l.at)

FeedInv == NewestFirst /\ ToastsTick /\ LoadsFollow

LEMMA EmptyDecreases == <<>> \in Seq(Nat) /\ Len(<<>>) = 0 /\ Decreasing(<<>>)
BY DEF Decreasing

LEMMA RestOfList ==
  ASSUME NEW n \in Nat, NEW k \in 1 .. n
  PROVE  (IF k + 1 <= n THEN n - (k + 1) + 1 ELSE 0) = n - k
OBVIOUS

LEMMA RestPlace ==
  ASSUME NEW n \in Nat, NEW k \in 1 .. n, NEW i \in 1 .. n - k
  PROVE  k + 1 + i - 1 = k + i /\ i \in 1 .. n - (k + 1) + 1
<1>1. n - (k + 1) + 1 = n - k /\ k + 1 + i - 1 = k + i
  OBVIOUS
<1> QED
  BY <1>1

\* Taking out of a list of falling numbers one of them, or none.
LEMMA RemovalDecreases ==
  ASSUME NEW S \in SUBSET Nat, NEW s \in Seq(S), Decreasing(s), NEW x
  PROVE  /\ RemoveFirst(s, x) \in Seq(S) /\ Decreasing(RemoveFirst(s, x))
         /\ Len(RemoveFirst(s, x)) <= Len(s)
         /\ \A i \in DOMAIN RemoveFirst(s, x) :
              RemoveFirst(s, x)[i] # x /\ \E j \in DOMAIN s : i <= j /\ RemoveFirst(s, x)[i] = s[j]
<1>1. /\ Len(s) \in Nat /\ DOMAIN s = 1 .. Len(s) /\ \A i \in 1 .. Len(s) : s[i] \in S /\ s[i] \in Nat
  BY LenProperties, ElementOfSeq
<1>2. CASE ~ \E i \in 1 .. Len(s) : s[i] = x
  BY <1>1, <1>2 DEF RemoveFirst
<1>3. CASE \E i \in 1 .. Len(s) : s[i] = x
  <2>1. PICK k \in 1 .. Len(s) : s[k] = x
    BY <1>3
  <2>2. \A i \in 1 .. Len(s) : s[i] = x => i = k
    BY <1>1, <2>1 DEF Decreasing
  <2>3. {i \in 1 .. Len(s) : s[i] = x} = {k}
    BY <2>1, <2>2
  <2>4. Min({k}) = k
    BY <1>1 DEF Min
  <2>5. SelectInSeq(s, LAMBDA v : v = x) = k
    BY <2>3, <2>4 DEF SelectInSeq
  <2> DEFINE front == SubSeq(s, 1, k - 1)
             back  == SubSeq(s, k + 1, Len(s))
             r     == front \o back
  <2>6. RemoveFirst(s, x) = r
    BY <1>3, <2>5 DEF RemoveFirst, RemoveAt
  <2>7. /\ front \in Seq(S) /\ Len(front) = k - 1
        /\ \A i \in 1 .. k - 1 : front[i] = s[i]
    BY <1>1, SubSeqProperties
  <2>8. /\ back \in Seq(S) /\ Len(back) = Len(s) - k
        /\ \A i \in 1 .. Len(s) - k : back[i] = s[k + i]
    <3>1. back \in Seq(S) /\ \A i \in 1 .. Len(s) - (k + 1) + 1 : back[i] = s[k + 1 + i - 1]
      BY <1>1, SubSeqProperties
    <3>0. Len(back) = IF k + 1 <= Len(s) THEN Len(s) - (k + 1) + 1 ELSE 0
      BY <1>1, SubSeqProperties
    <3> HIDE DEF back
    <3>2. ASSUME NEW i \in 1 .. Len(s) - k PROVE back[i] = s[k + i]
      <4>1. k + 1 + i - 1 = k + i /\ i \in 1 .. Len(s) - (k + 1) + 1
        BY <1>1, RestPlace
      <4> QED
        BY <3>1, <4>1
    <3>3. Len(back) = Len(s) - k
      BY <1>1, <3>0, RestOfList
    <3> QED
      BY <3>1, <3>2, <3>3
  <2> HIDE DEF front, back
  <2>9. /\ r \in Seq(S) /\ Len(r) = Len(s) - 1 /\ DOMAIN r = 1 .. Len(s) - 1
        /\ \A i \in 1 .. Len(s) - 1 : r[i] = IF i < k THEN s[i] ELSE s[i + 1]
    <3>1. /\ r \in Seq(S) /\ Len(r) = Len(front) + Len(back)
          /\ \A i \in 1 .. Len(front) + Len(back) :
               r[i] = IF i <= Len(front) THEN front[i] ELSE back[i - Len(front)]
      BY <2>7, <2>8, ConcatProperties
    <3>2. DOMAIN r = 1 .. Len(r)
      BY <3>1, LenProperties
    <3> HIDE DEF r
    <3>3. Len(r) = Len(s) - 1 /\ Len(front) + Len(back) = Len(s) - 1
      BY <1>1, <2>7, <2>8, <3>1
    <3>4. ASSUME NEW i \in 1 .. Len(s) - 1 PROVE r[i] = IF i < k THEN s[i] ELSE s[i + 1]
      <4>1. r[i] = IF i <= k - 1 THEN front[i] ELSE back[i - (k - 1)]
        BY <2>7, <3>1, <3>3
      <4>2. CASE i < k
        BY <1>1, <2>7, <4>1, <4>2
      <4>3. CASE ~(i < k)
        <5>1. i - (k - 1) \in 1 .. Len(s) - k /\ k + (i - (k - 1)) = i + 1 /\ ~(i <= k - 1)
          BY <1>1, <4>3
        <5> QED
          BY <2>8, <4>1, <4>3, <5>1
      <4> QED
        BY <4>2, <4>3
    <3> QED
      BY <3>1, <3>2, <3>3, <3>4
  <2> HIDE DEF r
  <2> DEFINE from(i) == IF i < k THEN i ELSE i + 1
  <2>a. \A i \in DOMAIN r : from(i) \in 1 .. Len(s) /\ i <= from(i) /\ from(i) # k /\ r[i] = s[from(i)]
    BY <1>1, <2>9
  <2>b. \A i, j \in DOMAIN r : i < j => from(i) < from(j)
    BY <1>1, <2>9
  <2> HIDE DEF from
  <2>10. Decreasing(r)
    BY <1>1, <2>a, <2>b DEF Decreasing
  <2>11. \A i \in DOMAIN r : r[i] # x /\ \E j \in DOMAIN s : i <= j /\ r[i] = s[j]
    BY <1>1, <2>1, <2>2, <2>a
  <2>12. Len(r) <= Len(s)
    BY <1>1, <2>9
  <2> QED
    BY <2>6, <2>9, <2>10, <2>11, <2>12
<1> QED
  BY <1>2, <1>3

\* A newer one in front.
LEMMA FrontDecreases ==
  ASSUME NEW S \in SUBSET Nat, NEW s \in Seq(S), Decreasing(s), NEW x \in S, \A i \in DOMAIN s : s[i] < x
  PROVE  /\ <<x>> \o s \in Seq(S) /\ Len(<<x>> \o s) = Len(s) + 1 /\ Decreasing(<<x>> \o s)
         /\ \A i \in DOMAIN (<<x>> \o s) : (<<x>> \o s)[i] = x \/ \E j \in DOMAIN s : (<<x>> \o s)[i] = s[j]
<1>1. Len(s) \in Nat /\ DOMAIN s = 1 .. Len(s) /\ \A i \in 1 .. Len(s) : s[i] \in Nat
  BY LenProperties, ElementOfSeq
<1> DEFINE r == <<x>> \o s
<1>2. /\ r \in Seq(S) /\ Len(r) = Len(s) + 1 /\ DOMAIN r = 1 .. Len(s) + 1
      /\ \A i \in 1 .. Len(s) + 1 : r[i] = IF i = 1 THEN x ELSE s[i - 1]
  BY <1>1
<1> HIDE DEF r
<1>3. ASSUME NEW i \in DOMAIN r, i # 1 PROVE i - 1 \in 1 .. Len(s) /\ r[i] = s[i - 1]
  BY <1>1, <1>2, <1>3
<1>4. Decreasing(r)
  <2> SUFFICES ASSUME NEW i \in DOMAIN r, NEW j \in DOMAIN r, i < j PROVE r[j] < r[i]
    BY DEF Decreasing
  <2>1. j # 1 /\ j - 1 \in 1 .. Len(s) /\ r[j] = s[j - 1] /\ r[j] < x
    BY <1>1, <1>2, <1>3
  <2>2. CASE i = 1
    BY <1>2, <2>1, <2>2
  <2>3. CASE i # 1
    <3>1. i - 1 \in 1 .. Len(s) /\ r[i] = s[i - 1] /\ i - 1 < j - 1
      BY <1>1, <1>2, <1>3, <2>3
    <3> QED
      BY <1>1, <2>1, <3>1 DEF Decreasing
  <2> QED
    BY <2>2, <2>3
<1>5. \A i \in DOMAIN r : r[i] = x \/ \E j \in DOMAIN s : r[i] = s[j]
  BY <1>1, <1>2, <1>3
<1> QED
  BY <1>2, <1>4, <1>5 DEF r

LEMMA EmptyPrefix ==
  ASSUME NEW S, NEW s \in Seq(S) PROVE IsPrefix(<<>>, s)
<1>1. Len(<<>>) = 0 /\ Len(s) \in Nat
  BY LenProperties
<1>2. SubSeq(<<>>, 1, 0) = <<>> /\ SubSeq(s, 1, 0) = <<>>
  BY SubSeqEmpty
<1> QED
  BY <1>1, <1>2 DEF IsPrefix

\* The rows of two pages that follow each other are the rows up to the end of the second.
LEMMA PagesFollow ==
  ASSUME NEW s \in Seq(Ids), NEW m \in 0 .. Len(s), NEW n \in m .. Len(s)
  PROVE  /\ SubSeq(s, 1, m) \o SubSeq(s, m + 1, n) = SubSeq(s, 1, n)
         /\ SubSeq(s, 1, n) \in Seq(Ids) /\ Len(SubSeq(s, 1, n)) = n /\ IsPrefix(SubSeq(s, 1, n), s)
         /\ Len(SubSeq(s, m + 1, n)) = n - m
<1>1. Len(s) \in Nat /\ \A i \in 1 .. Len(s) : s[i] \in Ids
  BY LenProperties, ElementOfSeq
<1>2. SubSeq(s, 1, m) \o SubSeq(s, m + 1, n) = SubSeq(s, 1, n)
  <2>1. 1 \in 1 .. Len(s) + 1 /\ m \in 1 - 1 .. Len(s)
    BY <1>1
  <2> QED
    BY <2>1, ConcatAdjacentSubSeq
<1>3. n \in Int /\ \A i \in 1 .. n : s[i] \in Ids
  BY <1>1
<1>4. SubSeq(s, 1, n) \in Seq(Ids) /\ Len(SubSeq(s, 1, n)) = IF 1 <= n THEN n - 1 + 1 ELSE 0
  BY <1>3, SubSeqProperties
<1>5. Len(SubSeq(s, 1, n)) = n
  <2>1. (IF 1 <= n THEN n - 1 + 1 ELSE 0) = n
    BY <1>1
  <2> QED
    BY <1>4, <2>1
<1>6. IsPrefix(SubSeq(s, 1, n), s)
  <2>1. SubSeq(SubSeq(s, 1, n), 1, n) = SubSeq(s, 1, n)
    BY <1>4, <1>5, SubSeqFull
  <2>2. n <= Len(s)
    BY <1>1
  <2> QED
    BY <1>5, <2>1, <2>2 DEF IsPrefix
<1>7. Len(SubSeq(s, m + 1, n)) = n - m
  <2>1. m + 1 \in Int /\ \A i \in m + 1 .. n : s[i] \in Ids
    BY <1>1
  <2>2. Len(SubSeq(s, m + 1, n)) = IF m + 1 <= n THEN n - (m + 1) + 1 ELSE 0
    BY <1>3, <2>1, SubSeqProperties
  <2>3. (IF m + 1 <= n THEN n - (m + 1) + 1 ELSE 0) = n - m
    BY <1>1
  <2> QED
    BY <2>2, <2>3
<1> QED
  BY <1>2, <1>4, <1>5, <1>6, <1>7

LEMMA PageAtRows ==
  ASSUME NEW k \in Nat, feed \in Seq(Ids) PROVE PageAt(k) \in Seq(Ids)
<1>1. Len(feed) \in Nat /\ \A i \in 1 .. Len(feed) : feed[i] \in Ids
  BY LenProperties, ElementOfSeq
<1>2. /\ k + 1 \in Int /\ Smaller(k + PageSize, Len(feed)) \in Int
      /\ \A i \in k + 1 .. Smaller(k + PageSize, Len(feed)) : i \in 1 .. Len(feed)
  BY <1>1, FeedConstants DEF Smaller
<1> QED
  BY <1>1, <1>2, SubSeqProperties DEF PageAt

LEMMA FirstLoad ==
  /\ First \in FeedLoad /\ First.reset = TRUE /\ First.at = 0 /\ First.st = "sent"
  /\ \A k \in Nat : LET l == [First EXCEPT !.reset = FALSE, !.at = k]
                    IN l \in FeedLoad /\ l.reset = FALSE /\ l.at = k /\ l.st = "sent"
<1>1. NoRows \in Seq(Ids)
  BY EmptySeq DEF NoRows
<1> QED
  BY <1>1 DEF First, FeedLoad

LEMMA FeedInitInv == FeedInit => FeedInv
<1> SUFFICES ASSUME FeedInit PROVE FeedInv
  OBVIOUS
<1>1. /\ born \in Nat /\ born <= Longest /\ feed = [i \in 1 .. born |-> born + 1 - i]
      /\ items = <<>> /\ offset = 0 /\ fetches = {First} /\ deleting = {} /\ shifted = FALSE
      /\ toasts = <<>> /\ toasted = 0
  BY FeedConstants DEF FeedInit
<1>2. \A i \in 1 .. born : born + 1 - i \in Ids /\ feed[i] = born + 1 - i /\ feed[i] <= born
  BY <1>1, FeedConstants DEF Ids
<1>3. feed \in Seq(Ids) /\ Len(feed) = born /\ DOMAIN feed = 1 .. born
  BY <1>1, <1>2
<1>4. NewestFirst
  BY <1>1, <1>2, <1>3 DEF NewestFirst, Decreasing
<1>5. ToastsTick
  <2>1. DOMAIN toasts = {}
    BY <1>1
  <2> QED
    BY <1>1, <2>1, EmptyDecreases DEF ToastsTick
<1>6. LoadsFollow
  <2>1. items \in Seq(Ids) /\ IsPrefix(items, feed) /\ Len(items) = 0
    BY <1>1, <1>3, EmptyPrefix, EmptySeq
  <2> QED
    BY <1>1, <2>1, FirstLoad DEF LoadsFollow
<1> QED
  BY <1>4, <1>5, <1>6 DEF FeedInv

\* The list's steps other than those of a page that is answered.
LEMMA ListKeeps ==
  ASSUME NewestFirst, LoadsFollow,
         \/ Pull \/ MorePages \/ Arrival
         \/ \E n \in Ids : Delete(n)
         \/ \E l \in fetches : PageFails(l)
         \/ \E d \in deleting : DeleteServed(d) \/ DeleteDone(d) \/ DeleteFails(d)
         \/ \E n \in Ids \cup {0} : Mark(n)
         \/ \E m \in marks : MarkServed(m) \/ MarkDone(m) \/ MarkFails(m)
  PROVE  NewestFirst' /\ LoadsFollow'
<1>1. CASE Pull
  <2>1. /\ fetches' = fetches \cup {First} /\ shifted' = (shifted \/ fetches # {} \/ deleting # {})
        /\ UNCHANGED <<feed, items, offset, total, deleting, born>>
    BY <1>1 DEF Pull
  <2>2. NewestFirst'
    BY <2>1 DEF NewestFirst
  <2>3. fetches' \subseteq FeedLoad
    BY <2>1, FirstLoad DEF LoadsFollow
  <2>4. ~shifted' => ~shifted /\ fetches' = {First}
    BY <2>1
  <2>5. LoadsFollow'
    BY <2>1, <2>3, <2>4, FirstLoad DEF LoadsFollow
  <2> QED
    BY <2>2, <2>5
<1>2. CASE MorePages
  <2> DEFINE l == [First EXCEPT !.reset = FALSE, !.at = offset]
  <2>1. /\ fetches' = fetches \cup {l} /\ shifted' = (shifted \/ fetches # {} \/ deleting # {})
        /\ UNCHANGED <<feed, items, offset, total, deleting, born>>
    BY <1>2 DEF MorePages
  <2>2. l \in FeedLoad /\ l.reset = FALSE /\ l.at = offset /\ l.st = "sent"
    BY FirstLoad DEF LoadsFollow
  <2> HIDE DEF l
  <2>3. NewestFirst'
    BY <2>1 DEF NewestFirst
  <2>4. fetches' \subseteq FeedLoad
    BY <2>1, <2>2 DEF LoadsFollow
  <2>5. ~shifted' => ~shifted /\ fetches' = {l}
    BY <2>1
  <2>6. LoadsFollow'
    BY <2>1, <2>2, <2>4, <2>5 DEF LoadsFollow
  <2> QED
    BY <2>3, <2>6
<1>3. CASE Arrival
  <2>1. /\ born < Longest /\ born' = born + 1 /\ feed' = <<born + 1>> \o feed /\ shifted' = TRUE
        /\ UNCHANGED <<offset, fetches>>
    BY <1>3 DEF Arrival
  <2>2. /\ born \in Nat /\ feed \in Seq(Ids) /\ Decreasing(feed)
        /\ DOMAIN feed = 1 .. Len(feed) /\ \A i \in DOMAIN feed : feed[i] \in Ids /\ feed[i] <= born
    BY LenProperties, ElementOfSeq DEF NewestFirst
  <2>3. Ids \in SUBSET Nat /\ born + 1 \in Ids /\ \A i \in DOMAIN feed : feed[i] < born + 1
    BY <2>1, <2>2, FeedConstants DEF Ids
  <2>4. /\ feed' \in Seq(Ids) /\ Decreasing(feed')
        /\ \A i \in DOMAIN feed' : feed'[i] = born + 1 \/ \E j \in DOMAIN feed : feed'[i] = feed[j]
    BY <2>1, <2>2, <2>3, FrontDecreases
  <2>5. \A i \in DOMAIN feed' : feed'[i] <= born + 1
    <3> SUFFICES ASSUME NEW i \in DOMAIN feed' PROVE feed'[i] <= born + 1
      OBVIOUS
    <3>1. \A j \in DOMAIN feed : feed[j] \in Nat
      BY <2>2, <2>3
    <3> QED
      BY <2>2, <2>3, <2>4, <3>1
  <2>6. NewestFirst'
    BY <2>1, <2>2, <2>4, <2>5 DEF NewestFirst
  <2>7. LoadsFollow'
    BY <2>1 DEF LoadsFollow
  <2> QED
    BY <2>6, <2>7
<1>4. ASSUME NEW n \in Ids, Delete(n) PROVE NewestFirst' /\ LoadsFollow'
  BY <1>4 DEF Delete, NewestFirst, LoadsFollow
<1>5. ASSUME NEW l \in fetches, PageFails(l) PROVE NewestFirst' /\ LoadsFollow'
  <2>1. fetches' = fetches \ {l} /\ UNCHANGED <<feed, items, offset, deleting, shifted, born>>
    BY <1>5 DEF PageFails
  <2> QED
    BY <2>1 DEF NewestFirst, LoadsFollow, PageAt
<1>6. ASSUME NEW d \in deleting, DeleteServed(d) PROVE NewestFirst' /\ LoadsFollow'
  <2>1. /\ feed' = RemoveFirst(feed, d.id) /\ UNCHANGED <<items, offset, fetches, shifted, born>>
    BY <1>6 DEF DeleteServed
  <2>2. shifted
    BY DEF LoadsFollow
  <2>3. Ids \in SUBSET Nat
    BY DEF Ids
  <2>4. /\ feed' \in Seq(Ids) /\ Decreasing(feed')
        /\ \A i \in DOMAIN feed' : \E j \in DOMAIN feed : feed'[i] = feed[j]
    BY <2>1, <2>3, RemovalDecreases DEF NewestFirst
  <2>5. NewestFirst'
    BY <2>1, <2>4 DEF NewestFirst
  <2>6. LoadsFollow'
    BY <2>1, <2>2 DEF LoadsFollow
  <2> QED
    BY <2>5, <2>6
<1>7. ASSUME NEW d \in deleting, DeleteDone(d) PROVE NewestFirst' /\ LoadsFollow'
  <2>1. UNCHANGED <<feed, offset, fetches, shifted, born>>
    BY <1>7 DEF DeleteDone
  <2>2. shifted
    BY DEF LoadsFollow
  <2> QED
    BY <2>1, <2>2 DEF NewestFirst, LoadsFollow
<1>8. ASSUME NEW d \in deleting, DeleteFails(d) PROVE NewestFirst' /\ LoadsFollow'
  <2>1. UNCHANGED <<feed, offset, fetches, shifted, born>> /\ shifted
    BY <1>8 DEF DeleteFails, LoadsFollow
  <2> QED
    BY <2>1 DEF NewestFirst, LoadsFollow
<1>9. CASE (\E n \in Ids \cup {0} : Mark(n)) \/ \E m \in marks : MarkServed(m) \/ MarkDone(m) \/ MarkFails(m)
  <2>1. UNCHANGED <<feed, items, offset, deleting, fetches, shifted, born>>
    BY <1>9 DEF Mark, MarkServed, MarkDone, MarkFails, rowVars
  <2> QED
    BY <2>1 DEF NewestFirst, LoadsFollow, PageAt
<1> QED
  BY <1>1, <1>2, <1>3, <1>4, <1>5, <1>6, <1>7, <1>8, <1>9

LEMMA PageReadKeeps ==
  ASSUME NewestFirst, LoadsFollow, NEW l \in fetches, PageRead(l) PROVE NewestFirst' /\ LoadsFollow'
<1> DEFINE m == [l EXCEPT !.st = "read", !.of = Len(feed), !.rows = PageAt(l.at)]
<1>1. /\ l \in FeedLoad /\ l.at \in Nat /\ feed \in Seq(Ids) /\ Len(feed) \in Nat
  BY LenProperties DEF LoadsFollow, NewestFirst, FeedLoad
<1>2. PageAt(l.at) \in Seq(Ids)
  BY <1>1, PageAtRows
<1>3. m \in FeedLoad /\ m.reset = l.reset /\ m.at = l.at /\ m.st = "read" /\ m.rows = PageAt(l.at)
  BY <1>1, <1>2 DEF FeedLoad
<1>4. /\ fetches' = (fetches \ {l}) \cup {m}
      /\ UNCHANGED <<feed, items, offset, total, deleting, shifted, born>>
  BY DEF PageRead, PageAt
<1> HIDE DEF m
<1>5. NewestFirst'
  BY <1>4 DEF NewestFirst
<1>6. fetches' \subseteq FeedLoad
  BY <1>3, <1>4 DEF LoadsFollow
<1>7. \A k : PageAt(k)' = PageAt(k)
  BY <1>4 DEF PageAt
<1>8. ~shifted => fetches' = {m}
  BY <1>4 DEF LoadsFollow
<1>9. LoadsFollow'
  BY <1>3, <1>4, <1>6, <1>7, <1>8 DEF LoadsFollow
<1> QED
  BY <1>5, <1>9

LEMMA PageShownKeeps ==
  ASSUME NewestFirst, LoadsFollow, NEW l \in fetches, PageShown(l) PROVE NewestFirst' /\ LoadsFollow'
<1>1. /\ l \in FeedLoad /\ l.reset \in BOOLEAN /\ l.at \in Nat /\ l.rows \in Seq(Ids) /\ Len(l.rows) \in Nat
      /\ feed \in Seq(Ids) /\ Len(feed) \in Nat /\ offset \in Nat
  BY LenProperties DEF LoadsFollow, NewestFirst, FeedLoad
<1>2. /\ l.st = "read" /\ items' = (IF l.reset THEN l.rows ELSE items \o l.rows)
      /\ offset' = IF l.reset THEN Len(l.rows) ELSE l.at + Len(l.rows)
      /\ fetches' = fetches \ {l} /\ UNCHANGED <<feed, deleting, born>>
      /\ ~shifted' => ~shifted \/ (l.reset /\ fetches = {l} /\ deleting = {} /\ IsPrefix(l.rows, feed))
  BY DEF PageShown, Advanced
<1>3. NewestFirst'
  BY <1>2 DEF NewestFirst
<1>4. offset' \in Nat /\ fetches' \subseteq FeedLoad
  BY <1>1, <1>2 DEF LoadsFollow
<1>5. ASSUME ~shifted'
      PROVE  /\ deleting' = {} /\ fetches' = {} /\ items' \in Seq(Ids)
             /\ IsPrefix(items', feed) /\ offset' = Len(items')
  <2>1. CASE shifted
    BY <1>1, <1>2, <1>5, <2>1
  <2>2. CASE ~shifted
    <3>1. /\ deleting = {} /\ items \in Seq(Ids) /\ IsPrefix(items, feed) /\ offset = Len(items)
          /\ fetches = {l} /\ l.at = (IF l.reset THEN 0 ELSE offset) /\ l.rows = PageAt(l.at)
      BY <1>2, <2>2 DEF LoadsFollow
    <3>2. /\ Len(items) \in 0 .. Len(feed) /\ items = SubSeq(feed, 1, Len(items))
      BY <1>1, <3>1, LenProperties, SubSeqFull DEF IsPrefix
    <3> DEFINE m == l.at
               n == Smaller(m + PageSize, Len(feed))
    <3>3. m \in 0 .. Len(feed)
      BY <1>1, <3>1, <3>2
    <3>4. n \in m .. Len(feed)
      BY <1>1, <3>3, FeedConstants DEF Smaller
    <3>5. l.rows = SubSeq(feed, m + 1, n)
      BY <3>1 DEF PageAt
    <3> HIDE DEF n, m
    <3>6. /\ SubSeq(feed, 1, m) \o l.rows = SubSeq(feed, 1, n) /\ SubSeq(feed, 1, n) \in Seq(Ids)
          /\ Len(SubSeq(feed, 1, n)) = n /\ IsPrefix(SubSeq(feed, 1, n), feed) /\ Len(l.rows) = n - m
      BY <1>1, <3>3, <3>4, <3>5, PagesFollow
    <3>7. items' = SubSeq(feed, 1, n)
      <4>1. CASE l.reset
        BY <1>2, <3>1, <3>5, <4>1 DEF m
      <4>2. CASE ~l.reset
        BY <1>2, <3>1, <3>2, <3>6, <4>2 DEF m
      <4> QED
        BY <4>1, <4>2
    <3>8. offset' = n
      <4>1. m \in Nat /\ n \in Nat /\ m + (n - m) = n
        BY <1>1, <3>3, <3>4
      <4>2. CASE l.reset
        BY <1>2, <3>1, <3>6, <4>1, <4>2 DEF m
      <4>3. CASE ~l.reset
        BY <1>2, <3>1, <3>6, <4>1, <4>3 DEF m
      <4> QED
        BY <4>2, <4>3
    <3> QED
      BY <1>2, <3>1, <3>6, <3>7, <3>8
  <2> QED
    BY <2>1, <2>2
<1>6. LoadsFollow'
  BY <1>2, <1>4, <1>5 DEF LoadsFollow
<1> QED
  BY <1>3, <1>6

LEMMA ToastsKeep ==
  ASSUME ToastsTick,
         \/ AddToast \/ ClearToasts
         \/ \E n \in 1 .. ToastBound : Dismiss(n) \/ ToastExpires(n)
  PROVE  ToastsTick'
<1>1. /\ toasted \in Nat /\ toasts \in Seq(Nat) /\ Decreasing(toasts)
      /\ DOMAIN toasts = 1 .. Len(toasts) /\ Len(toasts) \in Nat
      /\ \A i \in DOMAIN toasts : toasts[i] \in Nat /\ toasts[i] <= toasted /\ toasts[i] \in ticking
  BY LenProperties, ElementOfSeq DEF ToastsTick
<1>2. CASE AddToast
  <2> DEFINE t == <<toasted + 1>> \o toasts
             k == Smaller(Len(t), MaxToasts)
  <2>1. /\ toasted' = toasted + 1 /\ toasts' = SubSeq(t, 1, k) /\ ticking' = ticking \cup {toasted + 1}
    BY <1>2 DEF AddToast, Kept
  <2>2. /\ t \in Seq(Nat) /\ Decreasing(t) /\ Len(t) = Len(toasts) + 1
        /\ \A i \in DOMAIN t : t[i] = toasted + 1 \/ \E j \in DOMAIN toasts : t[i] = toasts[j]
    <3>1. toasted + 1 \in Nat /\ \A i \in DOMAIN toasts : toasts[i] < toasted + 1
      BY <1>1
    <3> QED
      BY <1>1, <3>1, FrontDecreases, Nat \in SUBSET Nat
  <2>3. Len(t) \in Nat /\ DOMAIN t = 1 .. Len(t) /\ \A i \in 1 .. Len(t) : t[i] \in Nat
    BY <2>2, LenProperties, ElementOfSeq
  <2> HIDE DEF t
  <2>4. k \in 1 .. Len(t)
    BY <1>1, <2>2, <2>3, FeedConstants DEF Smaller
  <2> HIDE DEF k
  <2>5. /\ toasts' \in Seq(Nat) /\ DOMAIN toasts' = 1 .. k
        /\ \A i \in 1 .. k : toasts'[i] = t[i]
    <3>1. \A i \in 1 .. k : t[i] \in Nat
      BY <2>3, <2>4
    <3>2. /\ toasts' \in Seq(Nat) /\ Len(toasts') = IF 1 <= k THEN k - 1 + 1 ELSE 0
          /\ \A i \in 1 .. k - 1 + 1 : toasts'[i] = t[1 + i - 1]
      BY <2>1, <2>4, <3>1, SubSeqProperties
    <3>3. Len(toasts') = k
      BY <2>4, <3>2
    <3>4. \A i \in 1 .. k : i \in 1 .. k - 1 + 1 /\ 1 + i - 1 = i
      BY <2>4
    <3> QED
      BY <3>2, <3>3, <3>4, LenProperties
  <2>6. \A i \in 1 .. k : i \in DOMAIN t
    BY <2>3, <2>4
  <2>7. Decreasing(toasts')
    BY <2>2, <2>5, <2>6 DEF Decreasing
  <2>8. \A i \in DOMAIN toasts' : toasts'[i] <= toasted + 1 /\ toasts'[i] \in ticking'
    <3> SUFFICES ASSUME NEW i \in 1 .. k PROVE t[i] <= toasted + 1 /\ t[i] \in ticking'
      BY <2>5
    <3>1. t[i] = toasted + 1 \/ \E j \in DOMAIN toasts : t[i] = toasts[j]
      BY <2>2, <2>6
    <3> QED
      BY <1>1, <2>1, <3>1
  <2>9. toasted' \in Nat
    BY <1>1, <2>1
  <2> QED
    BY <2>1, <2>5, <2>7, <2>8, <2>9 DEF ToastsTick
<1>3. CASE ClearToasts
  <2>1. toasts' = <<>> /\ toasted' = toasted /\ DOMAIN toasts' = {}
    BY <1>3 DEF ClearToasts
  <2> QED
    BY <1>1, <2>1, EmptyDecreases DEF ToastsTick
<1>4. ASSUME NEW n, toasts' = RemoveFirst(toasts, n), toasted' = toasted,
             ticking \ {n} \subseteq ticking'
      PROVE  ToastsTick'
  <2> DEFINE r == RemoveFirst(toasts, n)
  <2>0. /\ r \in Seq(Nat) /\ Decreasing(r)
        /\ \A i \in DOMAIN r : r[i] # n /\ \E j \in DOMAIN toasts : r[i] = toasts[j]
    <3>1. Nat \in SUBSET Nat
      OBVIOUS
    <3>2. toasts \in Seq(Nat) /\ Decreasing(toasts)
      BY <1>1
    <3> QED
      BY ONLY <3>1, <3>2, RemovalDecreases
  <2> HIDE DEF r
  <2>1. /\ toasts' \in Seq(Nat) /\ Decreasing(toasts')
        /\ \A i \in DOMAIN toasts' :
             toasts'[i] # n /\ \E j \in DOMAIN toasts : toasts'[i] = toasts[j]
    BY <1>4, <2>0 DEF r
  <2> QED
    BY <1>1, <1>4, <2>1 DEF ToastsTick
<1>5. ASSUME NEW n \in 1 .. ToastBound, Dismiss(n) PROVE ToastsTick'
  BY <1>4, <1>5 DEF Dismiss, Removed
<1>6. ASSUME NEW n \in 1 .. ToastBound, ToastExpires(n) PROVE ToastsTick'
  <2>1. /\ ticking' = ticking \ {n} /\ toasted' = toasted
        /\ toasts' = IF n \in ToSet(toasts) THEN RemoveFirst(toasts, n) ELSE toasts
    BY <1>6 DEF ToastExpires, Removed
  <2>2. CASE n \in ToSet(toasts)
    BY <1>4, <2>1, <2>2
  <2>3. CASE n \notin ToSet(toasts)
    <3>1. toasts' = toasts /\ \A i \in DOMAIN toasts : toasts[i] # n
      BY <2>1, <2>3 DEF ToSet
    <3> QED
      BY <2>1, <3>1 DEF ToastsTick
  <2> QED
    BY <2>2, <2>3
<1> QED
  BY <1>2, <1>3, <1>5, <1>6

LEMMA FeedStep == FeedInv /\ [FeedNext]_feedVars => FeedInv'
<1> SUFFICES ASSUME FeedInv, [FeedNext]_feedVars PROVE FeedInv'
  OBVIOUS
<1>1. NewestFirst /\ ToastsTick /\ LoadsFollow
  BY DEF FeedInv
<1>2. UNCHANGED toastVars => ToastsTick'
  BY <1>1 DEF toastVars, ToastsTick
<1>3. UNCHANGED listVars => NewestFirst' /\ LoadsFollow'
  BY <1>1 DEF listVars, NewestFirst, LoadsFollow, PageAt
<1>4. CASE \/ Pull \/ MorePages \/ Arrival
           \/ \E n \in Ids : Delete(n)
           \/ \E l \in fetches : PageFails(l)
           \/ \E d \in deleting : DeleteServed(d) \/ DeleteDone(d) \/ DeleteFails(d)
           \/ \E n \in Ids \cup {0} : Mark(n)
           \/ \E m \in marks : MarkServed(m) \/ MarkDone(m) \/ MarkFails(m)
  <2>1. UNCHANGED toastVars
    BY <1>4 DEF Pull, MorePages, Arrival, Delete, PageFails, DeleteServed, DeleteDone, DeleteFails,
              Mark, MarkServed, MarkDone, MarkFails
  <2> QED
    BY <1>1, <1>2, <1>4, <2>1, ListKeeps DEF FeedInv
<1>5. ASSUME NEW l \in fetches, PageRead(l) \/ PageShown(l) PROVE FeedInv'
  <2>1. UNCHANGED toastVars
    BY <1>5 DEF PageRead, PageShown
  <2> QED
    BY <1>1, <1>2, <1>5, <2>1, PageReadKeeps, PageShownKeeps DEF FeedInv
<1>6. CASE AddToast \/ ClearToasts \/ \E n \in 1 .. ToastBound : Dismiss(n) \/ ToastExpires(n)
  <2>1. UNCHANGED listVars
    BY <1>6 DEF AddToast, ClearToasts, Dismiss, ToastExpires
  <2> QED
    BY <1>1, <1>3, <1>6, <2>1, ToastsKeep DEF FeedInv
<1>7. CASE UNCHANGED feedVars
  BY <1>2, <1>3, <1>7 DEF feedVars, toastVars, listVars, readVars, FeedInv
<1> QED
  BY <1>4, <1>5, <1>6, <1>7 DEF FeedNext, ListNext, ToastNext

\* A non-empty set of numbers has a smallest one.
LEMMA SmallestOf ==
  ASSUME NEW T \in SUBSET Nat, T # {} PROVE \E n \in T : \A m \in T : n <= m
<1> DEFINE R == OpToRel(<, Nat)
<1>1. IsWellFoundedOn(R, Nat)
  BY NatLessThanWellFounded DEF R
<1>2. \A m, n \in Nat : <<m, n>> \in R <=> m < n
  BY DEF OpToRel
<1> HIDE DEF R
<1>3. \E n \in T : \A m \in T : ~(<<m, n>> \in R)
  BY <1>1, WFMin
<1>4. PICK n \in T : \A m \in T : ~(<<m, n>> \in R)
  BY <1>3
<1>5. \A m \in T : ~(m < n)
  BY <1>2, <1>4
<1>6. \A m \in T : n <= m
  BY <1>5
<1> QED
  BY <1>6

\* f is what Without computes of s up to its m-th element.
KeepsTo(f, s, n, m) ==
  f = [i \in 0 .. m |-> IF i = 0 THEN NoRows
                        ELSE IF s[i] = n THEN f[i - 1] ELSE Append(f[i - 1], s[i])]

LEMMA WithoutExists ==
  ASSUME NEW s, NEW n, NEW m \in Nat PROVE \E f : KeepsTo(f, s, n, m)
<1> DEFINE T == {k \in Nat : ~ \E f : KeepsTo(f, s, n, k)}
<1> SUFFICES ASSUME T # {} PROVE FALSE
  OBVIOUS
<1>1. PICK k \in T : \A l \in T : k <= l
  <2>1. T \in SUBSET Nat
    OBVIOUS
  <2> HIDE DEF T
  <2> QED
    BY <2>1, SmallestOf
<1>2. k # 0
  <2> DEFINE f == [i \in 0 .. 0 |-> NoRows]
  <2>1. KeepsTo(f, s, n, 0)
    BY DEF KeepsTo
  <2> QED
    BY <1>1, <2>1
<1>3. k \in Nat /\ k - 1 \in Nat /\ k - 1 < k
  BY <1>1, <1>2
<1>4. PICK f : KeepsTo(f, s, n, k - 1)
  BY <1>1, <1>3
<1> DEFINE g == [i \in 0 .. k |-> IF i < k THEN f[i]
                                  ELSE IF s[k] = n THEN f[k - 1] ELSE Append(f[k - 1], s[k])]
<1>5. KeepsTo(g, s, n, k)
  <2>1. \A i \in 0 .. k : g[i] = IF i = 0 THEN NoRows
                                 ELSE IF s[i] = n THEN g[i - 1] ELSE Append(g[i - 1], s[i])
    <3> SUFFICES ASSUME NEW i \in 0 .. k
                 PROVE  g[i] = IF i = 0 THEN NoRows
                               ELSE IF s[i] = n THEN g[i - 1] ELSE Append(g[i - 1], s[i])
      OBVIOUS
    <3>1. i # 0 => i - 1 \in 0 .. k /\ g[i - 1] = f[i - 1]
      BY <1>3
    <3>2. CASE i = k
      BY <1>2, <1>3, <3>1, <3>2
    <3>3. CASE i # k
      <4>1. i \in 0 .. k - 1 /\ g[i] = f[i]
        BY <1>3, <3>3
      <4>2. f[i] = IF i = 0 THEN NoRows
                   ELSE IF s[i] = n THEN f[i - 1] ELSE Append(f[i - 1], s[i])
        BY <1>4, <4>1 DEF KeepsTo
      <4> QED
        BY <3>1, <4>1, <4>2
    <3> QED
      BY <3>2, <3>3
  <2> QED
    BY <2>1 DEF KeepsTo
<1> QED
  BY <1>1, <1>5

\* Without leaves a sequence of the same set, no longer than it was.
LEMMA WithoutType ==
  ASSUME NEW S, NEW s \in Seq(S), NEW n PROVE Without(s, n) \in Seq(S) /\ Len(Without(s, n)) <= Len(s)
<1> DEFINE f == CHOOSE f : KeepsTo(f, s, n, Len(s))
<1>1. Len(s) \in Nat /\ \A i \in 1 .. Len(s) : s[i] \in S
  BY LenProperties, ElementOfSeq
<1>2. KeepsTo(f, s, n, Len(s)) /\ Without(s, n) = f[Len(s)]
  <2>1. Without(s, n) = f[Len(s)]
    BY DEF Without, KeepsTo
  <2> QED
    BY <1>1, <2>1, WithoutExists
<1> HIDE DEF f
<1> DEFINE T == {k \in 0 .. Len(s) : ~(f[k] \in Seq(S) /\ Len(f[k]) <= k)}
<1>3. T = {}
  <2> SUFFICES ASSUME T # {} PROVE FALSE
    OBVIOUS
  <2>1. PICK k \in T : \A l \in T : k <= l
    <3>1. T \in SUBSET Nat
      BY <1>1
    <3> HIDE DEF T
    <3> QED
      BY <3>1, SmallestOf
  <2>2. f[k] = IF k = 0 THEN NoRows ELSE IF s[k] = n THEN f[k - 1] ELSE Append(f[k - 1], s[k])
    BY <1>2, <2>1 DEF KeepsTo
  <2>3. k # 0
    <3>1. NoRows \in Seq(S) /\ Len(NoRows) = 0
      BY EmptySeq DEF NoRows
    <3> QED
      BY <2>1, <2>2, <3>1
  <2>4. k \in 1 .. Len(s) /\ k - 1 \in 0 .. Len(s) /\ k - 1 < k
    BY <1>1, <2>1, <2>3
  <2>5. f[k - 1] \in Seq(S) /\ Len(f[k - 1]) <= k - 1 /\ Len(f[k - 1]) \in Nat
    <3>1. f[k - 1] \in Seq(S) /\ Len(f[k - 1]) <= k - 1
      BY <2>1, <2>4
    <3> QED
      BY <3>1, LenProperties
  <2>6. f[k] \in Seq(S) /\ Len(f[k]) <= k
    BY <1>1, <2>2, <2>3, <2>4, <2>5, AppendProperties
  <2> QED
    BY <2>1, <2>6
<1>4. Len(s) \in 0 .. Len(s)
  BY <1>1
<1> QED
  BY <1>2, <1>3, <1>4

\* The numbers fall by one at least from a notification to the next, so no list is longer
\* than the numbers given, and no load reaches beyond it.
FeedFits ==
  /\ born <= Longest /\ \A i \in DOMAIN feed : feed[i] + i <= born + 1
  /\ \A l \in fetches : l.at + Len(l.rows) <= Longest

FeedLoadType == [reset : BOOLEAN, at : 0 .. Longest, st : {"sent", "read"}, rows : Seq(Ids), of : 0 .. Longest]

Deletion == [id : Ids, st : {"sent", "ok"}]

\* FeedTypeOK, with names for its sets of records.
FeedTypes ==
  /\ feed \in Seq(Ids) /\ items \in Seq(Ids)
  /\ offset \in 0 .. Longest /\ total \in 0 .. Longest
  /\ fetches \subseteq FeedLoadType /\ deleting \subseteq Deletion
  /\ shifted \in BOOLEAN /\ born \in 0 .. Longest /\ pulls \in 0 .. (2 * MaxPulls)
  /\ toasts \in Seq(1 .. ToastBound) /\ Len(toasts) <= MaxToasts
  /\ ticking \subseteq 1 .. ToastBound /\ toasted \in 0 .. ToastBound

FeedSizeInv == FeedTypes /\ FeedFits

LEMMA FeedTypesAre == FeedTypeOK <=> FeedTypes /\ ReadTypeOK
BY DEF FeedTypeOK, FeedTypes, FeedLoadType, Deletion

LEMMA FeedIsShort ==
  ASSUME FeedSizeInv PROVE Len(feed) \in Nat /\ Len(feed) <= Longest
<1>1. /\ Len(feed) \in Nat /\ DOMAIN feed = 1 .. Len(feed)
      /\ \A i \in 1 .. Len(feed) : feed[i] \in Ids /\ feed[i] + i <= born + 1
      /\ born \in Nat /\ born <= Longest
  BY LenProperties, ElementOfSeq, FeedConstants DEF FeedSizeInv, FeedTypes, FeedFits
<1>2. Len(feed) # 0 => Len(feed) \in 1 .. Len(feed) /\ feed[Len(feed)] \in Nat /\ feed[Len(feed)] >= 1
  BY <1>1, FeedConstants DEF Ids
<1> QED
  BY <1>1, <1>2, FeedConstants

LEMMA FirstFits ==
  /\ First \in FeedLoadType /\ First.at = 0 /\ Len(First.rows) = 0
  /\ \A k \in 0 .. Longest : LET l == [First EXCEPT !.reset = FALSE, !.at = k]
                             IN l \in FeedLoadType /\ l.at = k /\ Len(l.rows) = 0
<1>1. NoRows \in Seq(Ids) /\ Len(NoRows) = 0
  BY EmptySeq DEF NoRows
<1>2. 0 \in 0 .. Longest
  BY FeedConstants
<1> QED
  BY <1>1, <1>2 DEF First, FeedLoadType

LEMMA FeedStartSizes == FeedInit => FeedSizeInv
<1> SUFFICES ASSUME FeedInit PROVE FeedSizeInv
  OBVIOUS
<1>1. /\ born \in 0 .. Longest - 1 /\ feed = [i \in 1 .. born |-> born + 1 - i]
      /\ items = <<>> /\ offset = 0 /\ total = 0 /\ fetches = {First} /\ deleting = {} /\ shifted = FALSE
      /\ pulls = 0 /\ toasts = <<>> /\ ticking = {} /\ toasted = 0
  BY DEF FeedInit
<1>2. born \in Nat /\ born <= Longest /\ born \in 0 .. Longest
  BY <1>1, FeedConstants
<1>3. \A i \in 1 .. born : feed[i] \in Ids /\ feed[i] + i <= born + 1
  BY <1>1, <1>2, FeedConstants DEF Ids
<1>4. feed \in Seq(Ids) /\ DOMAIN feed = 1 .. born
  BY <1>1, <1>2, <1>3
<1>5. items \in Seq(Ids) /\ toasts \in Seq(1 .. ToastBound) /\ Len(toasts) = 0
  BY <1>1, EmptySeq
<1>f. First \in FeedLoadType /\ First.at = 0 /\ Len(First.rows) = 0
  BY FirstFits
<1>6. FeedFits
  <2>1. \A l \in fetches : l = First
    BY <1>1
  <2>2. \A l \in fetches : l.at + Len(l.rows) <= Longest
    BY <1>f, <2>1, FeedConstants
  <2> QED
    BY <1>2, <1>3, <1>4, <2>2 DEF FeedFits
<1>7. FeedTypes
  <2>1. fetches \subseteq FeedLoadType /\ deleting \subseteq Deletion /\ ticking \subseteq 1 .. ToastBound
    BY <1>1, <1>f
  <2>2. /\ 0 \in 0 .. Longest /\ 0 \in 0 .. (2 * MaxPulls) /\ 0 \in 0 .. ToastBound /\ 0 <= MaxToasts
    BY FeedConstants
  <2> QED
    BY <1>1, <1>2, <1>4, <1>5, <2>1, <2>2 DEF FeedTypes
<1> QED
  BY <1>6, <1>7 DEF FeedSizeInv

\* The list's steps.
LEMMA ListSizes ==
  ASSUME FeedInv, FeedSizeInv, UNCHANGED toastVars,
         \/ Pull \/ MorePages \/ Arrival
         \/ \E n \in Ids : Delete(n)
         \/ \E l \in fetches : PageRead(l) \/ PageShown(l) \/ PageFails(l)
         \/ \E d \in deleting : DeleteServed(d) \/ DeleteDone(d) \/ DeleteFails(d)
         \/ \E n \in Ids \cup {0} : Mark(n)
         \/ \E m \in marks : MarkServed(m) \/ MarkDone(m) \/ MarkFails(m)
  PROVE  FeedSizeInv'
<1>1. FeedTypes /\ FeedFits /\ UNCHANGED <<toasts, ticking, toasted>>
  BY DEF FeedSizeInv, toastVars
<1>2. Len(feed) \in Nat /\ Len(feed) <= Longest
  BY FeedIsShort
<1>3. CASE Pull
  <2>1. /\ pulls < 2 * MaxPulls /\ pulls' = pulls + 1 /\ fetches' = fetches \cup {First}
        /\ shifted' \in BOOLEAN /\ UNCHANGED <<feed, items, offset, total, deleting, born>>
    BY <1>3 DEF Pull
  <2>2. pulls' \in 0 .. (2 * MaxPulls)
    BY <1>1, <2>1, FeedConstants DEF FeedTypes
  <2>3. First \in FeedLoadType /\ First.at + Len(First.rows) <= Longest
    <3>1. First \in FeedLoadType /\ First.at = 0 /\ Len(First.rows) = 0
      BY FirstFits
    <3> QED
      BY <3>1, FeedConstants
  <2> QED
    BY <1>1, <2>1, <2>2, <2>3 DEF FeedSizeInv, FeedTypes, FeedFits
<1>4. CASE MorePages
  <2> DEFINE l == [First EXCEPT !.reset = FALSE, !.at = offset]
  <2>1. /\ fetches' = fetches \cup {l} /\ shifted' \in BOOLEAN
        /\ UNCHANGED <<feed, items, offset, total, deleting, born, pulls>>
    BY <1>4 DEF MorePages
  <2>2. offset \in 0 .. Longest /\ l \in FeedLoadType /\ l.at = offset /\ Len(l.rows) = 0
    BY <1>1, FirstFits DEF FeedTypes
  <2> HIDE DEF l
  <2> QED
    BY <1>1, <2>1, <2>2, FeedConstants DEF FeedSizeInv, FeedTypes, FeedFits
<1>5. CASE Arrival
  <2>1. /\ born < Longest /\ born' = born + 1 /\ feed' = <<born + 1>> \o feed /\ shifted' = TRUE
        /\ UNCHANGED <<items, offset, total, fetches, deleting, pulls>>
    BY <1>5 DEF Arrival
  <2>2. /\ born \in Nat /\ feed \in Seq(Ids) /\ DOMAIN feed = 1 .. Len(feed)
        /\ \A i \in 1 .. Len(feed) : feed[i] \in Nat /\ feed[i] + i <= born + 1
    BY <1>1, LenProperties, ElementOfSeq, FeedConstants DEF FeedTypes, FeedFits, Ids
  <2>3. born + 1 \in Ids /\ born' \in 0 .. Longest /\ born' <= Longest
    BY <2>1, <2>2, FeedConstants DEF Ids
  <2>4. /\ feed' \in Seq(Ids) /\ DOMAIN feed' = 1 .. Len(feed) + 1
        /\ \A i \in 1 .. Len(feed) + 1 : feed'[i] = IF i = 1 THEN born + 1 ELSE feed[i - 1]
    BY <2>1, <2>2, <2>3
  <2>5. \A i \in DOMAIN feed' : feed'[i] + i <= born' + 1
    <3> SUFFICES ASSUME NEW i \in 1 .. Len(feed) + 1 PROVE feed'[i] + i <= born + 2
      BY <2>1, <2>2, <2>4
    <3>1. CASE i = 1
      BY <2>2, <2>4, <3>1
    <3>2. CASE i # 1
      <4>1. i - 1 \in 1 .. Len(feed) /\ i \in Nat
        BY <1>2, <3>2
      <4> QED
        BY <2>2, <2>4, <3>2, <4>1
    <3> QED
      BY <3>1, <3>2
  <2> QED
    BY <1>1, <2>1, <2>3, <2>4, <2>5 DEF FeedSizeInv, FeedTypes, FeedFits
<1>6. ASSUME NEW n \in Ids, Delete(n) PROVE FeedSizeInv'
  <2>1. /\ pulls < 2 * MaxPulls /\ pulls' = pulls + 1
        /\ deleting' = deleting \cup {[id |-> n, st |-> "sent"]} /\ shifted' = TRUE
        /\ UNCHANGED <<feed, items, offset, total, fetches, born>>
    BY <1>6 DEF Delete
  <2>2. pulls' \in 0 .. (2 * MaxPulls) /\ deleting' \subseteq Deletion
    BY <1>1, <2>1, FeedConstants DEF FeedTypes, Deletion
  <2> QED
    BY <1>1, <2>1, <2>2 DEF FeedSizeInv, FeedTypes, FeedFits
<1>7. ASSUME NEW l \in fetches, PageRead(l) PROVE FeedSizeInv'
  <2> DEFINE m == [l EXCEPT !.st = "read", !.of = Len(feed), !.rows = PageAt(l.at)]
  <2>1. /\ fetches' = (fetches \ {l}) \cup {m}
        /\ UNCHANGED <<feed, items, offset, total, deleting, shifted, born, pulls>>
    BY <1>7 DEF PageRead, PageAt
  <2>2. l \in FeedLoadType /\ l.at \in Nat /\ l.at <= Longest
    BY <1>1, FeedConstants DEF FeedTypes, FeedLoadType
  <2>3. PageAt(l.at) \in Seq(Ids)
    BY <1>1, <2>2, PageAtRows DEF FeedTypes
  <2>4. m \in FeedLoadType /\ m.at = l.at /\ m.rows = PageAt(l.at)
    <3>1. Len(feed) \in 0 .. Longest
      BY <1>2, FeedConstants
    <3> HIDE DEF PageAt
    <3> QED
      BY <2>2, <2>3, <3>1 DEF FeedLoadType
  <2>5. l.at + Len(PageAt(l.at)) <= Longest
    <3> DEFINE e == Smaller(l.at + PageSize, Len(feed))
    <3>1. e \in Nat /\ e <= Longest
      BY <1>2, <2>2, FeedConstants DEF Smaller
    <3>2. \A i \in l.at + 1 .. e : feed[i] \in Ids
      BY <1>1, <1>2, <2>2, FeedConstants, ElementOfSeq DEF FeedTypes, Smaller
    <3>3. Len(PageAt(l.at)) = IF l.at + 1 <= e THEN e - (l.at + 1) + 1 ELSE 0
      BY <2>2, <3>1, <3>2, SubSeqProperties DEF PageAt
    <3> HIDE DEF e
    <3> QED
      BY <2>2, <3>1, <3>3, FeedConstants
  <2> HIDE DEF m
  <2> QED
    BY <1>1, <2>1, <2>4, <2>5 DEF FeedSizeInv, FeedTypes, FeedFits
<1>8. ASSUME NEW l \in fetches, PageShown(l) PROVE FeedSizeInv'
  <2>1. /\ items' = (IF l.reset THEN l.rows ELSE items \o l.rows)
        /\ offset' = (IF l.reset THEN Len(l.rows) ELSE l.at + Len(l.rows))
        /\ total' = l.of /\ fetches' = fetches \ {l} /\ shifted' \in BOOLEAN
        /\ UNCHANGED <<feed, deleting, born, pulls>>
    BY <1>1, <1>8 DEF PageShown, Advanced, FeedTypes
  <2>2. /\ l.reset \in BOOLEAN /\ l.at \in Nat /\ l.of \in 0 .. Longest
        /\ l.rows \in Seq(Ids) /\ Len(l.rows) \in Nat /\ l.at + Len(l.rows) <= Longest
    BY <1>1, LenProperties, FeedConstants DEF FeedTypes, FeedFits, FeedLoadType
  <2>3. items' \in Seq(Ids)
    BY <1>1, <2>1, <2>2, ConcatProperties DEF FeedTypes
  <2>4. offset' \in 0 .. Longest /\ total' \in 0 .. Longest
    BY <2>1, <2>2, FeedConstants
  <2> QED
    BY <1>1, <2>1, <2>3, <2>4 DEF FeedSizeInv, FeedTypes, FeedFits
<1>9. ASSUME NEW l \in fetches, PageFails(l) PROVE FeedSizeInv'
  BY <1>1, <1>9 DEF PageFails, FeedSizeInv, FeedTypes, FeedFits
<1>10. ASSUME NEW d \in deleting, DeleteServed(d) PROVE FeedSizeInv'
  <2>1. /\ feed' = RemoveFirst(feed, d.id)
        /\ deleting' = (deleting \ {d}) \cup {[d EXCEPT !.st = "ok"]}
        /\ UNCHANGED <<items, offset, total, fetches, shifted, born, pulls>>
    BY <1>10 DEF DeleteServed
  <2>2. deleting' \subseteq Deletion
    BY <1>1, <2>1 DEF FeedTypes, Deletion
  <2>3. feed \in Seq(Ids) /\ Decreasing(feed) /\ Ids \in SUBSET Nat
    BY <1>1, FeedConstants DEF FeedTypes, FeedInv, NewestFirst, Ids
  <2>4. /\ feed' \in Seq(Ids)
        /\ \A i \in DOMAIN feed' : \E j \in DOMAIN feed : i <= j /\ feed'[i] = feed[j]
    BY <2>1, <2>3, RemovalDecreases
  <2>5. /\ born \in Nat /\ DOMAIN feed' \subseteq Nat
        /\ \A j \in DOMAIN feed : feed[j] \in Nat /\ j \in Nat /\ feed[j] + j <= born + 1
    <3>1. born \in Nat /\ \A j \in DOMAIN feed : feed[j] + j <= born + 1
      BY <1>1, FeedConstants DEF FeedTypes, FeedFits
    <3>2. DOMAIN feed = 1 .. Len(feed) /\ DOMAIN feed' = 1 .. Len(feed') /\ Len(feed') \in Nat
      BY <2>3, <2>4, LenProperties
    <3>3. \A j \in 1 .. Len(feed) : feed[j] \in Nat
      BY <2>3, ElementOfSeq
    <3>4. DOMAIN feed \subseteq Nat /\ DOMAIN feed' \subseteq Nat
      BY <1>2, <3>2
    <3> QED
      BY <3>1, <3>2, <3>3, <3>4
  <2>6. \A i \in DOMAIN feed' : feed'[i] + i <= born + 1
    BY <2>4, <2>5
  <2> QED
    BY <1>1, <2>1, <2>2, <2>4, <2>6 DEF FeedSizeInv, FeedTypes, FeedFits
<1>11. ASSUME NEW d \in deleting, DeleteDone(d) PROVE FeedSizeInv'
  <2>1. /\ deleting' = deleting \ {d} /\ items' = Without(items, d.id)
        /\ total' = (IF total > 0 THEN total - 1 ELSE 0)
        /\ UNCHANGED <<feed, offset, fetches, shifted, born, pulls>>
    BY <1>11 DEF DeleteDone
  <2>2. items' \in Seq(Ids)
    BY <1>1, <2>1, WithoutType DEF FeedTypes
  <2>3. total' \in 0 .. Longest
    BY <1>1, <2>1, FeedConstants DEF FeedTypes
  <2> QED
    BY <1>1, <2>1, <2>2, <2>3 DEF FeedSizeInv, FeedTypes, FeedFits
<1>12. ASSUME NEW d \in deleting, DeleteFails(d) PROVE FeedSizeInv'
  BY <1>1, <1>12 DEF DeleteFails, FeedSizeInv, FeedTypes, FeedFits
<1>13. CASE (\E n \in Ids \cup {0} : Mark(n)) \/ \E m \in marks : MarkServed(m) \/ MarkDone(m) \/ MarkFails(m)
  <2>1. /\ UNCHANGED <<feed, items, offset, total, fetches, deleting, shifted, born>>
        /\ pulls' = pulls \/ (pulls < 2 * MaxPulls /\ pulls' = pulls + 1)
    BY <1>13 DEF Mark, MarkServed, MarkDone, MarkFails, rowVars
  <2>2. pulls' \in 0 .. (2 * MaxPulls)
    BY <1>1, <2>1, FeedConstants DEF FeedTypes
  <2> QED
    BY <1>1, <2>1, <2>2 DEF FeedSizeInv, FeedTypes, FeedFits
<1> QED
  BY <1>3, <1>4, <1>5, <1>6, <1>7, <1>8, <1>9, <1>10, <1>11, <1>12, <1>13

\* The toasts' steps.
LEMMA ToastSizes ==
  ASSUME FeedInv, FeedSizeInv, UNCHANGED listVars,
         \/ AddToast \/ ClearToasts
         \/ \E n \in 1 .. ToastBound : Dismiss(n) \/ ToastExpires(n)
  PROVE  FeedSizeInv'
<1>1. FeedTypes /\ FeedFits /\ UNCHANGED <<feed, items, offset, total, fetches, deleting, shifted, born, pulls>>
  BY DEF FeedSizeInv, listVars
<1>2. SUFFICES /\ toasts' \in Seq(1 .. ToastBound) /\ Len(toasts') <= MaxToasts
               /\ ticking' \subseteq 1 .. ToastBound /\ toasted' \in 0 .. ToastBound
  BY <1>1 DEF FeedSizeInv, FeedTypes, FeedFits
<1>3. /\ toasts \in Seq(1 .. ToastBound) /\ Len(toasts) \in Nat /\ Len(toasts) <= MaxToasts
      /\ ticking \subseteq 1 .. ToastBound /\ toasted \in 0 .. ToastBound
  BY <1>1, LenProperties DEF FeedTypes
<1>4. CASE AddToast
  <2> DEFINE t == <<toasted + 1>> \o toasts
             k == Smaller(Len(t), MaxToasts)
  <2>1. /\ toasted < ToastBound /\ toasted' = toasted + 1 /\ toasts' = SubSeq(t, 1, k)
        /\ ticking' = ticking \cup {toasted + 1}
    BY <1>4 DEF AddToast, Kept
  <2>2. toasted + 1 \in 1 .. ToastBound /\ toasted' \in 0 .. ToastBound
    BY <1>3, <2>1, FeedConstants
  <2>3. t \in Seq(1 .. ToastBound) /\ Len(t) \in Nat /\ \A i \in 1 .. Len(t) : t[i] \in 1 .. ToastBound
    <3>1. t \in Seq(1 .. ToastBound)
      BY <1>3, <2>2
    <3> QED
      BY <3>1, LenProperties, ElementOfSeq
  <2> HIDE DEF t
  <2>4. k \in Nat /\ k <= Len(t) /\ k <= MaxToasts
    BY <2>3, FeedConstants DEF Smaller
  <2> HIDE DEF k
  <2>5. toasts' \in Seq(1 .. ToastBound) /\ Len(toasts') = IF 1 <= k THEN k - 1 + 1 ELSE 0
    <3>1. k \in Int /\ \A i \in 1 .. k : t[i] \in 1 .. ToastBound
      BY <2>3, <2>4
    <3> QED
      BY <2>1, <3>1, SubSeqProperties
  <2>6. Len(toasts') <= MaxToasts
    BY <2>4, <2>5, FeedConstants
  <2> QED
    BY <1>3, <2>1, <2>2, <2>5, <2>6
<1>5. CASE ClearToasts
  <2>1. toasts' = <<>> /\ ticking' = ticking /\ toasted' = toasted
    BY <1>5 DEF ClearToasts
  <2>2. toasts' \in Seq(1 .. ToastBound) /\ Len(toasts') = 0
    BY <2>1, EmptySeq
  <2> QED
    BY <1>3, <2>1, <2>2, FeedConstants
<1>6. ASSUME NEW n PROVE Removed(n) \in Seq(1 .. ToastBound) /\ Len(Removed(n)) <= MaxToasts
  <2>1. Decreasing(toasts) /\ 1 .. ToastBound \in SUBSET Nat
    BY FeedConstants DEF FeedInv, ToastsTick
  <2>2. Removed(n) \in Seq(1 .. ToastBound) /\ Len(Removed(n)) <= Len(toasts)
    BY <1>3, <2>1, RemovalDecreases DEF Removed
  <2>3. Len(Removed(n)) \in Nat
    BY <2>2, LenProperties
  <2> QED
    BY <1>3, <2>2, <2>3, FeedConstants
<1>7. ASSUME NEW n \in 1 .. ToastBound, Dismiss(n) \/ ToastExpires(n)
      PROVE  /\ toasts' \in Seq(1 .. ToastBound) /\ Len(toasts') <= MaxToasts
             /\ ticking' \subseteq 1 .. ToastBound /\ toasted' \in 0 .. ToastBound
  <2>1. toasts' \in {toasts, Removed(n)} /\ ticking' \subseteq ticking /\ toasted' = toasted
    BY <1>7 DEF Dismiss, ToastExpires
  <2> QED
    BY <1>3, <1>6, <2>1
<1> QED
  BY <1>4, <1>5, <1>7

LEMMA FeedSizeStep == FeedInv /\ FeedSizeInv /\ [FeedNext]_feedVars => FeedSizeInv'
<1> SUFFICES ASSUME FeedInv, FeedSizeInv, [FeedNext]_feedVars PROVE FeedSizeInv'
  OBVIOUS
<1>1. CASE \/ Pull \/ MorePages \/ Arrival
           \/ \E n \in Ids : Delete(n)
           \/ \E l \in fetches : PageRead(l) \/ PageShown(l) \/ PageFails(l)
           \/ \E d \in deleting : DeleteServed(d) \/ DeleteDone(d) \/ DeleteFails(d)
           \/ \E n \in Ids \cup {0} : Mark(n)
           \/ \E m \in marks : MarkServed(m) \/ MarkDone(m) \/ MarkFails(m)
  <2>1. UNCHANGED toastVars
    BY <1>1 DEF Pull, MorePages, Arrival, Delete, PageRead, PageShown, PageFails, DeleteServed, DeleteDone,
              DeleteFails, Mark, MarkServed, MarkDone, MarkFails
  <2> QED
    BY <1>1, <2>1, ListSizes
<1>2. CASE AddToast \/ ClearToasts \/ \E n \in 1 .. ToastBound : Dismiss(n) \/ ToastExpires(n)
  <2>1. UNCHANGED listVars
    BY <1>2 DEF AddToast, ClearToasts, Dismiss, ToastExpires
  <2> QED
    BY <1>2, <2>1, ToastSizes
<1>3. CASE UNCHANGED feedVars
  BY <1>3 DEF feedVars, FeedSizeInv, FeedTypes, FeedFits
<1> QED
  BY <1>1, <1>2, <1>3 DEF FeedNext, ListNext, ToastNext

\* The marks: what is shown or brought is numbered, the flags a load brings are of read
\* notifications, and a mark that was served is made.
Shows == 1 .. born

FeedMark == [of : {0} \cup Shows, st : {"sent", "ok"}]

MarksMade ==
  \A m \in marks : m.st = "ok" =>
    IF m.of = 0 THEN joined \/ \A i \in DOMAIN feed : feed[i] \in readIds ELSE m.of \in readIds

RowsNumbered ==
  /\ items \in Seq(Shows) /\ \A l \in fetches : l.rows \in Seq(Shows)
  /\ readIds \subseteq Shows /\ readRows \subseteq Shows
  /\ \A b \in BOOLEAN : flags[b] \subseteq readIds
  /\ flags \in [BOOLEAN -> SUBSET Shows] /\ joined \in BOOLEAN
  /\ marks \subseteq FeedMark

ReadRows == ~joined => \A i \in DOMAIN feed : feed[i] \in readRows => feed[i] \in readIds

ReadInv == RowsNumbered /\ MarksMade /\ ReadRows

LEMMA ReadStart == FeedInit => ReadInv
<1> SUFFICES ASSUME FeedInit PROVE ReadInv
  OBVIOUS
<1>1. /\ items = <<>> /\ fetches = {First} /\ readIds \subseteq Shows /\ readRows = {} /\ marks = {}
      /\ flags = [b \in BOOLEAN |-> {}] /\ joined = FALSE
  BY DEF FeedInit, Shows
<1>2. First.rows = <<>> /\ <<>> \in Seq(Shows)
  BY DEF First, NoRows
<1>3. joined \in BOOLEAN /\ flags \in [BOOLEAN -> SUBSET Shows] /\ \A b \in BOOLEAN : flags[b] = {}
  BY <1>1
<1> QED
  BY <1>1, <1>2, <1>3 DEF ReadInv, RowsNumbered, MarksMade, ReadRows

\* A step that leaves the rows and the marks alone.
LEMMA ReadSame ==
  ASSUME ReadInv, UNCHANGED <<feed, items, born, readIds, readRows, flags, marks, joined>>,
         \A l \in fetches' : l \in fetches \/ l.rows = <<>>
  PROVE  ReadInv'
<1>1. <<>> \in Seq(Shows)
  OBVIOUS
<1>2. RowsNumbered'
  BY <1>1 DEF ReadInv, RowsNumbered, Shows, FeedMark
<1> QED
  BY <1>2 DEF ReadInv, MarksMade, ReadRows

LEMMA ReadSameSteps ==
  ASSUME ReadInv,
         \/ Pull \/ MorePages \/ \E n \in Ids : Delete(n)
         \/ \E l \in fetches : PageFails(l)
         \/ \E d \in deleting : DeleteFails(d)
         \/ AddToast \/ ClearToasts \/ \E n \in 1 .. ToastBound : Dismiss(n) \/ ToastExpires(n)
         \/ UNCHANGED feedVars
  PROVE  ReadInv'
<1>1. UNCHANGED <<feed, items, born, readIds, readRows, flags, marks, joined>>
  BY DEF Pull, MorePages, Delete, PageFails, DeleteFails, AddToast, ClearToasts, Dismiss, ToastExpires,
         listVars, readVars, feedVars
<1>2. First.rows = <<>> /\ [First EXCEPT !.reset = FALSE, !.at = offset].rows = <<>>
  BY DEF First, NoRows
<1>3. \A l \in fetches' : l \in fetches \/ l.rows = <<>>
  <2>1. CASE Pull \/ MorePages
    BY <1>2, <2>1 DEF Pull, MorePages
  <2>2. CASE ~(Pull \/ MorePages)
    BY <2>2 DEF Delete, PageFails, DeleteFails, AddToast, ClearToasts, Dismiss, ToastExpires,
       listVars, feedVars
  <2> QED
    BY <2>1, <2>2
<1> QED
  BY <1>1, <1>3, ReadSame

\* What is in the feed has its number.
LEMMA FeedNumbered ==
  ASSUME FeedInv
  PROVE  /\ born \in Nat /\ feed \in Seq(Shows) /\ DOMAIN feed = 1 .. Len(feed) /\ Len(feed) \in Nat
         /\ \A i \in DOMAIN feed : feed[i] \in Shows
<1>1. born \in Nat /\ feed \in Seq(Ids) /\ \A i \in DOMAIN feed : feed[i] <= born
  BY DEF FeedInv, NewestFirst
<1>2. DOMAIN feed = 1 .. Len(feed) /\ Len(feed) \in Nat
  BY <1>1, LenProperties
<1>3. \A i \in DOMAIN feed : feed[i] \in Shows
  BY <1>1, <1>2, ElementOfSeq, FeedConstants DEF Ids, Shows
<1>4. feed \in Seq(Shows)
  BY <1>2, <1>3, <1>1
<1> QED
  BY <1>1, <1>2, <1>3, <1>4

LEMMA PageAtNumbered ==
  ASSUME FeedInv, NEW k \in Nat PROVE PageAt(k) \in Seq(Shows)
<1>1. Len(feed) \in Nat /\ feed \in Seq(Shows) /\ \A i \in 1 .. Len(feed) : feed[i] \in Shows
  BY FeedNumbered
<1>2. /\ k + 1 \in Int /\ Smaller(k + PageSize, Len(feed)) \in Int
      /\ \A i \in k + 1 .. Smaller(k + PageSize, Len(feed)) : i \in 1 .. Len(feed)
  BY <1>1, FeedConstants DEF Smaller
<1> QED
  BY <1>1, <1>2, SubSeqProperties DEF PageAt

LEMMA PageReadMarks ==
  ASSUME FeedInv, ReadInv, NEW l \in fetches, PageRead(l) PROVE ReadInv'
<1> DEFINE m == [l EXCEPT !.st = "read", !.of = Len(feed), !.rows = PageAt(l.at)]
<1>1. l \in FeedLoad /\ l.at \in Nat /\ l.reset \in BOOLEAN
  BY DEF FeedInv, LoadsFollow, FeedLoad
<1>2. m.rows = PageAt(l.at)
  BY <1>1 DEF FeedLoad
<1>3. /\ fetches' = (fetches \ {l}) \cup {m} /\ flags' = [flags EXCEPT ![l.reset] = readIds]
      /\ UNCHANGED <<feed, items, born, readIds, readRows, marks, joined>>
  BY DEF PageRead, PageAt
<1> HIDE DEF m
<1>4. \A k \in fetches' : k.rows \in Seq(Shows)
  BY <1>1, <1>2, <1>3, PageAtNumbered DEF ReadInv, RowsNumbered
<1>5. flags' \in [BOOLEAN -> SUBSET Shows] /\ \A b \in BOOLEAN : flags'[b] \subseteq readIds
  BY <1>1, <1>3 DEF ReadInv, RowsNumbered
<1>6. RowsNumbered'
  BY <1>3, <1>4, <1>5 DEF ReadInv, RowsNumbered, Shows, FeedMark
<1> QED
  BY <1>3, <1>6 DEF ReadInv, MarksMade, ReadRows

LEMMA PageShownMarks ==
  ASSUME FeedInv, ReadInv, NEW l \in fetches, PageShown(l) PROVE ReadInv'
<1>1. l.reset \in BOOLEAN /\ l.rows \in Seq(Shows) /\ items \in Seq(Shows)
  BY DEF FeedInv, LoadsFollow, FeedLoad, ReadInv, RowsNumbered
<1>2. /\ items' \in {l.rows, items \o l.rows} /\ fetches' = fetches \ {l}
      /\ readRows' = (flags[l.reset] \cap ToSet(l.rows)) \cup (IF l.reset THEN {} ELSE readRows)
      /\ UNCHANGED <<feed, born, readIds, flags, marks, joined>>
  BY DEF PageShown
<1>3. items' \in Seq(Shows)
  BY <1>1, <1>2, ConcatProperties
<1>4. readRows' \subseteq readIds \cup readRows
  BY <1>1, <1>2 DEF ReadInv, RowsNumbered
<1>5. RowsNumbered'
  BY <1>2, <1>3, <1>4 DEF ReadInv, RowsNumbered, Shows, FeedMark
<1> QED
  BY <1>2, <1>4, <1>5 DEF ReadInv, MarksMade, ReadRows

LEMMA DeletedMarks ==
  ASSUME FeedInv, ReadInv, NEW d \in deleting, DeleteServed(d) \/ DeleteDone(d) PROVE ReadInv'
<1>1. UNCHANGED <<fetches, born, readIds, readRows, flags, marks, joined>>
  BY DEF DeleteServed, DeleteDone, readVars
<1>2. items' \in Seq(Shows)
  <2>1. items' = items \/ items' = Without(items, d.id)
    BY DEF DeleteServed, DeleteDone
  <2> QED
    BY <2>1, WithoutType DEF ReadInv, RowsNumbered
<1>3. \A i \in DOMAIN feed' : \E j \in DOMAIN feed : feed'[i] = feed[j]
  <2>1. CASE DeleteServed(d)
    <3>1. feed' = RemoveFirst(feed, d.id)
      BY <2>1 DEF DeleteServed
    <3>2. Shows \in SUBSET Nat /\ feed \in Seq(Shows) /\ Decreasing(feed)
      BY FeedNumbered DEF Shows, FeedInv, NewestFirst
    <3> QED
      BY <3>1, <3>2, RemovalDecreases
  <2>2. CASE DeleteDone(d)
    BY <2>2 DEF DeleteDone
  <2> QED
    BY <2>1, <2>2
<1>4. RowsNumbered'
  BY <1>1, <1>2 DEF ReadInv, RowsNumbered, Shows, FeedMark
<1> QED
  BY <1>1, <1>3, <1>4 DEF ReadInv, MarksMade, ReadRows

LEMMA ArrivalMarks == ASSUME FeedInv, ReadInv, Arrival PROVE ReadInv'
<1>1. /\ born' = born + 1 /\ feed' = <<born + 1>> \o feed
      /\ joined' = (joined \/ [of |-> 0, st |-> "ok"] \in marks)
      /\ UNCHANGED <<items, fetches, readIds, readRows, flags, marks>>
  BY DEF Arrival
<1>2. born \in Nat /\ feed \in Seq(Shows) /\ DOMAIN feed = 1 .. Len(feed) /\ Len(feed) \in Nat
  BY FeedNumbered
<1>3. Shows \subseteq Shows' /\ born + 1 \notin Shows
  BY <1>1, <1>2 DEF Shows
<1>4. \A i \in DOMAIN feed' : feed'[i] = born + 1 \/ \E j \in DOMAIN feed : feed'[i] = feed[j]
  <2>1. /\ DOMAIN feed' = 1 .. Len(feed) + 1
        /\ \A i \in 1 .. Len(feed) + 1 : feed'[i] = IF i = 1 THEN born + 1 ELSE feed[i - 1]
    <3>1. born + 1 \in Nat /\ feed \in Seq(Nat)
      BY <1>2 DEF Shows
    <3> QED
      BY <1>1, <1>2, <3>1
  <2>2. \A i \in 1 .. Len(feed) + 1 : i # 1 => i - 1 \in 1 .. Len(feed)
    BY <1>2
  <2> QED
    BY <1>2, <2>1, <2>2
<1>5. \A s : s \in Seq(Shows) => s \in Seq(Shows')
  BY <1>3
<1>6. RowsNumbered'
  <2>1. items' \in Seq(Shows') /\ \A l \in fetches' : l.rows \in Seq(Shows')
    BY <1>1, <1>5 DEF ReadInv, RowsNumbered
  <2>2. joined' \in BOOLEAN
    BY <1>1 DEF ReadInv, RowsNumbered
  <2>3. marks' \subseteq FeedMark'
    BY <1>1, <1>3 DEF ReadInv, RowsNumbered, FeedMark
  <2>4. /\ readIds' \subseteq Shows' /\ readRows' \subseteq Shows'
        /\ flags' \in [BOOLEAN -> SUBSET Shows'] /\ \A b \in BOOLEAN : flags'[b] \subseteq readIds'
    BY <1>1, <1>3 DEF ReadInv, RowsNumbered
  <2> QED
    BY <2>1, <2>2, <2>3, <2>4 DEF RowsNumbered
<1>7. MarksMade'
  <2> SUFFICES ASSUME NEW m \in marks, m.st = "ok", m.of = 0 PROVE joined'
    BY <1>1 DEF ReadInv, MarksMade
  <2>1. m \in FeedMark
    BY DEF ReadInv, RowsNumbered
  <2>2. m = [of |-> 0, st |-> "ok"]
    BY <2>1 DEF FeedMark
  <2> QED
    BY <1>1, <2>2
<1>8. ReadRows'
  <2>1. born + 1 \notin readRows
    BY <1>3 DEF ReadInv, RowsNumbered
  <2> QED
    BY <1>1, <1>4, <2>1 DEF ReadInv, ReadRows
<1> QED
  BY <1>6, <1>7, <1>8 DEF ReadInv

LEMMA MarkMarks ==
  ASSUME FeedInv, ReadInv, NEW n \in Ids \cup {0}, Mark(n) PROVE ReadInv'
<1>1. /\ marks' = marks \cup {[of |-> n, st |-> "sent"]} /\ (n = 0 \/ n \in ToSet(items))
      /\ UNCHANGED <<feed, items, fetches, born, readIds, readRows, flags, joined>>
  BY DEF Mark, rowVars
<1>2. n \in {0} \cup Shows
  <2>1. ASSUME n \in ToSet(items) PROVE n \in Shows
    BY <2>1, ElementOfSeq, LenProperties DEF ReadInv, RowsNumbered, ToSet
  <2> QED
    BY <1>1, <2>1
<1>3. [of |-> n, st |-> "sent"] \in FeedMark /\ [of |-> n, st |-> "sent"].st # "ok"
  BY <1>2 DEF FeedMark
<1>4. RowsNumbered'
  BY <1>1, <1>3 DEF ReadInv, RowsNumbered, Shows, FeedMark
<1>5. MarksMade'
  BY <1>1, <1>3 DEF ReadInv, MarksMade
<1> QED
  BY <1>1, <1>4, <1>5 DEF ReadInv, ReadRows

LEMMA MarkServedMarks ==
  ASSUME FeedInv, ReadInv, NEW m \in marks, MarkServed(m) PROVE ReadInv'
<1> DEFINE d == [m EXCEPT !.st = "ok"]
           more == IF m.of = 0 THEN ToSet(feed) ELSE {m.of}
<1>1. /\ marks' = (marks \ {m}) \cup {d} /\ readIds' = readIds \cup more
      /\ UNCHANGED <<feed, items, fetches, born, readRows, flags, joined>>
  BY DEF MarkServed, rowVars
<1>2. m \in FeedMark /\ d \in FeedMark /\ d.of = m.of
  BY DEF ReadInv, RowsNumbered, FeedMark
<1>3. ToSet(feed) \subseteq Shows /\ \A i \in DOMAIN feed : feed[i] \in ToSet(feed)
  BY FeedNumbered DEF ToSet
<1>4. more \subseteq Shows
  BY <1>2, <1>3 DEF FeedMark
<1>5. RowsNumbered'
  <2>1. marks' \subseteq FeedMark /\ readIds' \subseteq Shows
    BY <1>1, <1>2, <1>4 DEF ReadInv, RowsNumbered
  <2> QED
    BY <1>1, <2>1 DEF ReadInv, RowsNumbered, Shows, FeedMark
<1>6. m.of = 0 => \A i \in DOMAIN feed : feed[i] \in readIds'
  BY <1>1, <1>3
<1>7. m.of # 0 => m.of \in readIds'
  BY <1>1
<1> HIDE DEF d, more
<1>8. MarksMade'
  BY <1>1, <1>2, <1>6, <1>7 DEF ReadInv, MarksMade
<1> QED
  BY <1>1, <1>5, <1>8 DEF ReadInv, ReadRows

LEMMA MarkEndsMarks ==
  ASSUME FeedInv, ReadInv, NEW m \in marks, MarkDone(m) \/ MarkFails(m) PROVE ReadInv'
<1>1. marks' = marks \ {m} /\ UNCHANGED <<feed, items, fetches, born, readIds, flags, joined>>
  BY DEF MarkDone, MarkFails, rowVars
<1>2. readRows' = readRows \/ (m.st = "ok" /\ readRows' = readRows \cup {n \in ToSet(items) : m.of \in {0, n}})
  BY DEF MarkDone, MarkFails
<1>3. readRows' \subseteq Shows
  <2>1. ToSet(items) \subseteq Shows
    BY ElementOfSeq, LenProperties DEF ReadInv, RowsNumbered, ToSet
  <2> QED
    BY <1>2, <2>1 DEF ReadInv, RowsNumbered
<1>4. RowsNumbered'
  BY <1>1, <1>3 DEF ReadInv, RowsNumbered, Shows, FeedMark
<1>5. ReadRows'
  <2> SUFFICES ASSUME ~joined, NEW i \in DOMAIN feed, feed[i] \in readRows', feed[i] \notin readRows
               PROVE  feed[i] \in readIds
    BY <1>1 DEF ReadInv, ReadRows
  <2>1. m.st = "ok" /\ (m.of = 0 \/ m.of = feed[i])
    BY <1>2
  <2> QED
    BY <2>1 DEF ReadInv, MarksMade
<1> QED
  BY <1>1, <1>4, <1>5 DEF ReadInv, MarksMade

LEMMA ReadStep == FeedInv /\ ReadInv /\ [FeedNext]_feedVars => ReadInv'
BY ReadSameSteps, PageReadMarks, PageShownMarks, DeletedMarks, ArrivalMarks, MarkMarks, MarkServedMarks,
   MarkEndsMarks DEF FeedNext, ListNext, ToastNext

LEMMA FeedInvGives == FeedInv /\ ReadInv => FeedInOrder
<1>1. FeedInv => RowsAreNewest
  BY DEF FeedInv, LoadsFollow, RowsAreNewest
<1>2. FeedInv => ToastsGo
  BY DEF FeedInv, ToastsTick, ToastsGo, ToSet
<1>3. ReadInv => ReadRowsAreRead
  BY DEF ReadInv, ReadRows, ReadRowsAreRead, ToSet
<1> QED
  BY <1>1, <1>2, <1>3 DEF FeedInOrder

LEMMA FeedTypesGiven == FeedSizeInv /\ ReadInv => FeedTypeOK
<1> SUFFICES ASSUME FeedSizeInv, ReadInv PROVE FeedTypeOK
  OBVIOUS
<1>1. Shows \subseteq Ids /\ {0} \cup Shows \subseteq 0 .. Longest
  BY FeedConstants DEF Shows, Ids, FeedSizeInv, FeedTypes
<1>2. ReadTypeOK
  <2>1. marks \subseteq [of : 0 .. Longest, st : {"sent", "ok"}]
    BY <1>1 DEF ReadInv, RowsNumbered, FeedMark
  <2>2. flags \in [BOOLEAN -> SUBSET Ids] /\ joined \in BOOLEAN
    BY <1>1 DEF ReadInv, RowsNumbered
  <2> QED
    BY <1>1, <2>1, <2>2 DEF ReadInv, RowsNumbered, ReadTypeOK
<1> QED
  BY <1>2, FeedTypesAre DEF FeedSizeInv

\* The screen shows the newest rows, each once and none left out, however many pages were
\* loaded, as read only what is read, and every toast has the timer that takes it down
\* (load, handleMarkAll, ToastContainer).
THEOREM FeedKeepsOrder == FeedSpec => []FeedInOrder
BY FeedInitInv, FeedStep, ReadStart, ReadStep, FeedInvGives, PTL DEF FeedSpec

\* What the screen and the toasts hold: however loads overlap and rows go, no offset leads
\* beyond the notifications there ever were, no count falls below zero, and no more toasts
\* are kept than the store's limit (load, handleDelete, addNotification).
THEOREM FeedKeepsTypes == FeedSpec => []FeedTypeOK
BY FeedInitInv, FeedStep, FeedStartSizes, FeedSizeStep, ReadStart, ReadStep, FeedTypesGiven, PTL DEF FeedSpec

----------------------------------------------------------------------------
(* The plan analysis. *)

\* Polls stop in time, and what is polled has been stored.
Polling ==
  \A h \in handlers : h.polls < MaxPolls /\ (h.st # "upload" => plans[h.plan] # "none")

\* On the web page whatever is shown of a plan is how its analysis ended.
WebIsFinal == app = "web" /\ shownPlan # 0 => shownAs \in Over

AnalysisInv == AnalysisTypeOK /\ Polling /\ WebIsFinal

LEMMA AnalysisInitInv == AnalysisInit => AnalysisInv
<1> SUFFICES ASSUME AnalysisInit PROVE AnalysisInv
  OBVIOUS
<1>2. errorShown \in BOOLEAN
  BY DEF AnalysisInit
<1>1. AnalysisTypeOK
  BY <1>2, AnalysisConstants DEF AnalysisInit, AnalysisTypeOK
<1> QED
  BY <1>1 DEF AnalysisInit, AnalysisInv, Polling, WebIsFinal

\* A handler that goes on with another poll, or ends; the plans as they were.
LEMMA HandlerKeeps ==
  ASSUME AnalysisInv, NEW h \in handlers, h.st # "upload", NEW d \in Handler,
         handlers \ {h} \subseteq handlers', handlers' \subseteq (handlers \ {h}) \cup {d},
         d.plan = h.plan, d.polls < MaxPolls, UNCHANGED <<plans, uploading>>
  PROVE  /\ handlers' \subseteq Handler /\ Polling'
         /\ uploading' => \E g \in handlers' : g.st = "upload"
<1>1. handlers' \subseteq Handler
  BY DEF AnalysisInv, AnalysisTypeOK
<1>2. Polling'
  BY DEF AnalysisInv, Polling
<1>3. uploading' => \E g \in handlers' : g.st = "upload"
  BY DEF AnalysisInv, AnalysisTypeOK
<1> QED
  BY <1>1, <1>2, <1>3

LEMMA AfterPollKeeps ==
  ASSUME AnalysisInv, NEW h \in handlers, h.st = "poll", AfterPoll(h), UNCHANGED <<plans, uploading>>
  PROVE  /\ handlers' \subseteq Handler /\ Polling'
         /\ uploading' => \E g \in handlers' : g.st = "upload"
<1>1. h \in Handler /\ h.polls \in Nat /\ h.polls < MaxPolls
  BY AnalysisConstants DEF AnalysisInv, AnalysisTypeOK, Polling, Handler
<1>2. CASE TimeUp(h)
  BY <1>1, <1>2, HandlerKeeps DEF AfterPoll
<1>3. CASE ~TimeUp(h)
  <2> DEFINE d == [h EXCEPT !.st = "wait", !.polls = h.polls + 1]
  <2>1. h.polls + 1 \in 0 .. MaxPolls /\ h.polls + 1 < MaxPolls
    BY <1>1, <1>3, AnalysisConstants DEF TimeUp
  <2>2. d \in Handler /\ d.plan = h.plan /\ d.polls < MaxPolls
    BY <1>1, <2>1 DEF Handler
  <2>3. handlers' = (handlers \ {h}) \cup {d}
    BY <1>3 DEF AfterPoll
  <2> HIDE DEF d
  <2> QED
    BY <2>2, <2>3, HandlerKeeps
<1> QED
  BY <1>2, <1>3

LEMMA PollAnsweredKeeps ==
  ASSUME AnalysisInv, NEW h \in handlers, PollAnswered(h) PROVE AnalysisInv'
<1> DEFINE s == plans[h.plan]
<1>1. /\ h \in Handler /\ h.plan \in Plans /\ h.polls < MaxPolls /\ s \in AnalysisStates
      /\ h.st = "poll" /\ UNCHANGED <<app, plans, uploading, missedPolls>>
  BY DEF PollAnswered, AnalysisInv, AnalysisTypeOK, Polling, Handler
<1>2. /\ handlers' \subseteq Handler /\ Polling'
      /\ uploading' => \E g \in handlers' : g.st = "upload"
  <2>1. CASE StopsPolling(s)
    <3>1. handlers' = handlers \ {h}
      BY <2>1 DEF PollAnswered
    <3> QED
      BY <1>1, <3>1, HandlerKeeps
  <2>2. CASE ~StopsPolling(s)
    <3>1. AfterPoll(h)
      BY <2>2 DEF PollAnswered
    <3> QED
      BY <1>1, <3>1, AfterPollKeeps
  <2> QED
    BY <2>1, <2>2
<1>3. \/ shownPlan' = h.plan /\ shownAs' = s /\ (app = "web" => StopsPolling(s))
      \/ UNCHANGED <<shownPlan, shownAs>>
  BY DEF PollAnswered, StopsPolling, Over
<1>6. errorShown' \in BOOLEAN
  BY DEF PollAnswered, AfterPoll, AnalysisInv, AnalysisTypeOK
<1>4. shownPlan' \in 0 .. MaxPlans /\ shownAs' \in {"nothing"} \cup AnalysisStates
  BY <1>1, <1>3, AnalysisConstants DEF AnalysisInv, AnalysisTypeOK, Plans
<1>5. WebIsFinal'
  BY <1>1, <1>3 DEF AnalysisInv, WebIsFinal, StopsPolling
<1> QED
  BY <1>1, <1>2, <1>4, <1>5, <1>6 DEF AnalysisInv, AnalysisTypeOK

LEMMA PollFailsKeeps ==
  ASSUME AnalysisInv, NEW h \in handlers, PollFails(h) PROVE AnalysisInv'
<1>1. /\ h \in Handler /\ h.polls < MaxPolls /\ h.st = "poll" /\ UNCHANGED <<app, plans, shownPlan, shownAs>>
      /\ missedPolls < MaxErrors /\ missedPolls' = missedPolls + 1
  BY DEF PollFails, AnalysisInv, AnalysisTypeOK, Polling
<1>2. missedPolls' \in 0 .. MaxErrors
  BY <1>1, AnalysisConstants DEF AnalysisInv, AnalysisTypeOK
<1>3. CASE app = "mobile"
  <2>1. AfterPoll(h) /\ UNCHANGED uploading
    BY <1>3 DEF PollFails
  <2>3. errorShown' \in BOOLEAN
    BY <2>1 DEF AfterPoll, AnalysisInv, AnalysisTypeOK
  <2>2. /\ handlers' \subseteq Handler /\ Polling'
        /\ uploading' => \E g \in handlers' : g.st = "upload"
    BY <1>1, <2>1, AfterPollKeeps
  <2> QED
    BY <1>1, <1>2, <2>2, <2>3 DEF AnalysisInv, AnalysisTypeOK, WebIsFinal
<1>4. CASE app # "mobile"
  <2>1. handlers' = handlers \ {h}
    BY <1>4 DEF PollFails
  <2>2. \/ uploading' = FALSE /\ errorShown' = TRUE
        \/ UNCHANGED <<uploading, errorShown>>
    BY <1>4 DEF PollFails
  <2>3. handlers' \subseteq Handler /\ Polling'
    BY <1>1, <2>1 DEF AnalysisInv, AnalysisTypeOK, Polling
  <2>4. uploading' => \E g \in handlers' : g.st = "upload"
    BY <1>1, <2>1, <2>2 DEF AnalysisInv, AnalysisTypeOK
  <2>5. errorShown' \in BOOLEAN
    BY <2>2 DEF AnalysisInv, AnalysisTypeOK
  <2> QED
    BY <1>1, <1>2, <2>2, <2>3, <2>4, <2>5 DEF AnalysisInv, AnalysisTypeOK, WebIsFinal
<1> QED
  BY <1>3, <1>4

LEMMA AnalysisStep == AnalysisInv /\ [AnalysisNext]_analysisVars => AnalysisInv'
<1> SUFFICES ASSUME AnalysisInv, [AnalysisNext]_analysisVars PROVE AnalysisInv'
  OBVIOUS
<1> USE AnalysisConstants
<1>1. ASSUME NEW p \in Plans, Upload(p) PROVE AnalysisInv'
  <2> DEFINE g == [plan |-> p, st |-> "upload", polls |-> 0]
  <2>1. /\ handlers' = handlers \cup {g} /\ uploading' = TRUE /\ errorShown' = FALSE
        /\ (shownPlan' = 0 /\ shownAs' = "nothing") \/ UNCHANGED <<shownPlan, shownAs>>
        /\ UNCHANGED <<app, plans, missedPolls>>
    BY <1>1 DEF Upload
  <2>2. g \in Handler /\ g.st = "upload" /\ g.polls < MaxPolls
    BY DEF Handler
  <2> HIDE DEF g
  <2>3. errorShown' \in BOOLEAN
    BY <2>1
  <2>4. shownPlan' \in 0 .. MaxPlans /\ shownAs' \in {"nothing"} \cup AnalysisStates /\ WebIsFinal'
    BY <2>1 DEF AnalysisInv, AnalysisTypeOK, WebIsFinal
  <2> QED
    BY <2>1, <2>2, <2>3, <2>4 DEF AnalysisInv, AnalysisTypeOK, Polling
<1>2. ASSUME NEW p \in Plans, Analyze(p) PROVE AnalysisInv'
  <2>1. PICK s \in AnalysisStates : plans' = [plans EXCEPT ![p] = s]
    BY <1>2 DEF Analyze, AnalysisStates, Over
  <2>2. UNCHANGED <<app, handlers, uploading, analyzing, shownPlan, shownAs, errorShown, missedPolls>>
    BY <1>2 DEF Analyze
  <2>3. plans \in [Plans -> AnalysisStates \cup {"none"}] /\ s # "none"
    BY <2>1 DEF AnalysisInv, AnalysisTypeOK, AnalysisStates, Over
  <2>4. /\ plans' \in [Plans -> AnalysisStates \cup {"none"}]
        /\ \A q \in Plans : plans[q] # "none" => plans'[q] # "none"
    BY <2>1, <2>3
  <2>5. \A h \in handlers : h.plan \in Plans
    BY DEF AnalysisInv, AnalysisTypeOK, Handler
  <2>6. Polling'
    BY <2>2, <2>4, <2>5 DEF AnalysisInv, Polling
  <2> QED
    BY <2>2, <2>4, <2>6 DEF AnalysisInv, AnalysisTypeOK, WebIsFinal
<1>3. ASSUME NEW h \in handlers, Uploaded(h) PROVE AnalysisInv'
  <2> DEFINE d == [h EXCEPT !.st = IF app = "web" THEN "poll" ELSE "wait"]
  <2>1. /\ handlers' = (handlers \ {h}) \cup {d} /\ uploading' = FALSE
        /\ plans' = [plans EXCEPT ![h.plan] = "pending"]
        /\ UNCHANGED <<app, errorShown, missedPolls>>
        /\ \/ UNCHANGED <<shownPlan, shownAs>>
           \/ app # "web" /\ shownPlan' = h.plan /\ shownAs' = "pending"
    BY <1>3 DEF Uploaded
  <2>2. h \in Handler /\ h.plan \in Plans /\ h.polls < MaxPolls
    BY DEF AnalysisInv, AnalysisTypeOK, Polling, Handler
  <2>3. d \in Handler /\ d.plan = h.plan /\ d.polls < MaxPolls
    BY <2>2 DEF Handler
  <2> HIDE DEF d
  <2>4. /\ plans' \in [Plans -> AnalysisStates \cup {"none"}] /\ plans'[h.plan] = "pending"
        /\ \A q \in Plans : plans[q] # "none" => plans'[q] # "none"
    BY <2>1, <2>2 DEF AnalysisInv, AnalysisTypeOK, AnalysisStates
  <2>5. \A g \in handlers : g.plan \in Plans
    BY DEF AnalysisInv, AnalysisTypeOK, Handler
  <2>6. Polling'
    BY <2>1, <2>3, <2>4, <2>5 DEF AnalysisInv, Polling
  <2>7. /\ shownPlan' \in 0 .. MaxPlans /\ shownAs' \in {"nothing"} \cup AnalysisStates
        /\ WebIsFinal'
    BY <2>1, <2>2 DEF AnalysisInv, AnalysisTypeOK, WebIsFinal, AnalysisStates, Plans
  <2> QED
    BY <2>1, <2>3, <2>4, <2>6, <2>7 DEF AnalysisInv, AnalysisTypeOK, WebIsFinal
<1>4. ASSUME NEW h \in handlers, UploadFails(h) PROVE AnalysisInv'
  BY <1>4 DEF UploadFails, AnalysisInv, AnalysisTypeOK, Polling, WebIsFinal
<1>5. ASSUME NEW h \in handlers, NextPoll(h) PROVE AnalysisInv'
  <2> DEFINE d == [h EXCEPT !.st = "poll"]
  <2>1. /\ handlers' = (handlers \ {h}) \cup {d} /\ h.st = "wait"
        /\ UNCHANGED <<app, plans, uploading, shownPlan, shownAs, errorShown, missedPolls>>
    BY <1>5 DEF NextPoll
  <2>2. d \in Handler /\ d.plan = h.plan /\ d.polls < MaxPolls
    BY DEF AnalysisInv, AnalysisTypeOK, Polling, Handler
  <2> HIDE DEF d
  <2>3. /\ handlers' \subseteq Handler /\ Polling'
        /\ uploading' => \E g \in handlers' : g.st = "upload"
    BY <2>1, <2>2, HandlerKeeps
  <2> QED
    BY <2>1, <2>3 DEF AnalysisInv, AnalysisTypeOK, WebIsFinal
<1>6. ASSUME NEW h \in handlers, PollAnswered(h) PROVE AnalysisInv'
  BY <1>6, PollAnsweredKeeps
<1>7. ASSUME NEW h \in handlers, PollFails(h) PROVE AnalysisInv'
  BY <1>7, PollFailsKeeps
<1>8. CASE PickNothing \/ Another
  <2>1. errorShown' \in BOOLEAN
    BY <1>8 DEF PickNothing, Another
  <2>2. /\ (shownPlan' = 0 /\ shownAs' = "nothing") \/ UNCHANGED <<shownPlan, shownAs>>
        /\ UNCHANGED <<app, plans, handlers, uploading, missedPolls>>
    BY <1>8 DEF PickNothing, Another
  <2>3. shownPlan' \in 0 .. MaxPlans /\ shownAs' \in {"nothing"} \cup AnalysisStates /\ WebIsFinal'
    BY <2>2 DEF AnalysisInv, AnalysisTypeOK, WebIsFinal
  <2> QED
    BY <2>1, <2>2, <2>3 DEF AnalysisInv, AnalysisTypeOK, Polling
<1>9. CASE UNCHANGED analysisVars
  BY <1>9 DEF analysisVars, AnalysisInv, AnalysisTypeOK, Polling, WebIsFinal
<1> QED
  BY <1>1, <1>2, <1>3, <1>4, <1>5, <1>6, <1>7, <1>8, <1>9 DEF AnalysisNext

\* What an analysis holds; the spinner of an upload has an upload under way, also where
\* the web page lets the user start a second one (handleUpload, pollFor).
THEOREM AnalysisTypes == AnalysisSpec => []AnalysisTypeOK
<1>1. AnalysisInv => AnalysisTypeOK
  BY DEF AnalysisInv
<1> QED
  BY AnalysisInitInv, AnalysisStep, <1>1, PTL DEF AnalysisSpec

\* What the mobile app does not keep, the web page does: it shows of a plan only a result
\* that will not change, however uploads and polls overlap.
THEOREM WebResultIsFinal == AnalysisSpec => [](app = "web" => ResultIsFinal)
<1>1. AnalysisInv => (app = "web" => ResultIsFinal)
  BY DEF AnalysisInv, WebIsFinal, ResultIsFinal
<1> QED
  BY AnalysisInitInv, AnalysisStep, <1>1, PTL DEF AnalysisSpec

----------------------------------------------------------------------------
(* The way of a request. *)

\* A request that was redirected fits a route where it was sent to.
RedirectedOnce == sentTo = wanted.path \/ (sentTo = Toggled(wanted.path) /\ OnPath(sentTo) # {})

CallsInv == CallsTypeOK /\ RedirectedOnce

LEMMA CallsInitInv == CallsInit => CallsInv
BY DEF CallsInit, CallsInv, CallsTypeOK, RedirectedOnce

LEMMA CallsStep == CallsInv /\ [CallsNext]_callVars => CallsInv'
<1> SUFFICES ASSUME CallsInv, [CallsNext]_callVars PROVE CallsInv'
  OBVIOUS
<1>1. CASE Serve
  BY <1>1 DEF Serve, Serving, OnPath, CallsInv, CallsTypeOK, RedirectedOnce
<1>2. CASE RefuseMethod \/ NotFound
  BY <1>2 DEF RefuseMethod, NotFound, CallsInv, CallsTypeOK, RedirectedOnce
<1>3. CASE Redirect
  BY <1>3 DEF Redirect, CallsInv, CallsTypeOK, RedirectedOnce
<1>4. CASE UNCHANGED callVars
  BY <1>4 DEF callVars, CallsInv, CallsTypeOK, RedirectedOnce
<1> QED
  BY <1>1, <1>2, <1>3, <1>4 DEF CallsNext

\* No request is redirected twice, whatever the routes are (Starlette's redirect_slashes).
THEOREM CallsTypes == CallsSpec => []CallsTypeOK
<1>1. CallsInv => CallsTypeOK
  BY DEF CallsInv
<1> QED
  BY CallsInitInv, CallsStep, <1>1, PTL DEF CallsSpec

----------------------------------------------------------------------------
(* The clients together, as the runs check them. *)

LEMMA ClientsStart ==
  ClientsInit =>
    /\ CheckoutInv /\ SocketInv /\ PanelInv /\ ChatInv /\ FeedInv
    /\ PanelSizeInv /\ ChatSizeInv /\ ReadInv /\ AnalysisInv /\ CallsInv
    /\ TypeOK /\ Named /\ LogoutInv /\ RotationInv
<1>1. ClientsInit => CheckoutInv /\ SocketInv /\ PanelInv /\ ChatInv /\ FeedInv
  BY CheckoutInitInv, SocketInitInv, PanelInitInv, ChatInitInv, FeedInitInv DEF ClientsInit
<1>2. ClientsInit => PanelSizeInv /\ ChatSizeInv /\ ReadInv /\ AnalysisInv /\ CallsInv
  BY PanelStartSizes, ChatStartSizes, ReadStart, AnalysisInitInv, CallsInitInv DEF ClientsInit
<1>3. Init => Named /\ LogoutInv
  BY DEF Init, Named, LogoutInv
<1>4. ClientsInit => TypeOK /\ RotationInv /\ Named /\ LogoutInv
  BY TypeInit, RotationInit, <1>3 DEF ClientsInit
<1> QED
  BY <1>1, <1>2, <1>4

\* One part moves at a time, and a step of it leaves the others as they are.
LEMMA PartsStep ==
  [ClientsNext]_clientVars =>
    /\ [CheckoutNext]_checkoutVars /\ [SocketNext]_socketVars /\ [PanelNext]_panelVars
    /\ [ChatNext]_chatVars /\ [FeedNext]_feedVars
    /\ [Next]_vars /\ [AnalysisNext]_analysisVars /\ [CallsNext]_callVars
<1>1. ASSUME UNCHANGED clientVars
      PROVE  UNCHANGED <<checkoutVars, socketVars, panelVars, chatVars, feedVars, vars, analysisVars, callVars>>
  BY <1>1 DEF clientVars
<1>2. ASSUME ClientsNext
      PROVE  /\ [CheckoutNext]_checkoutVars /\ [SocketNext]_socketVars /\ [PanelNext]_panelVars
             /\ [ChatNext]_chatVars /\ [FeedNext]_feedVars
             /\ [Next]_vars /\ [AnalysisNext]_analysisVars /\ [CallsNext]_callVars
  BY <1>2 DEF ClientsNext, Others, FeedNext
<1> QED
  BY <1>1, <1>2

\* The parts keep what each promises also where another of them runs and they wait, as
\* in the runs.
THEOREM ClientsKeepTheirWord ==
  ClientsSpec =>
    [](ChargedOnce /\ SocketInOrder /\ PanelShowsBackend /\ ChatInOrder /\ FeedInOrder)
BY ClientsStart, PartsStep, CheckoutStep, SocketStep, PanelStep, ChatStep, FeedStep, ReadStep, CheckoutInvGives,
   SocketInvGives, PanelInvGives, ChatInvGives, FeedInvGives, PTL DEF ClientsSpec

\* Their types, as the run checks them.
THEOREM ClientsTypes == ClientsSpec => []ClientsTypeOK
<1>1. TypeOK /\ Named /\ [Next]_vars => TypeOK' /\ Named'
  BY NamedStep, TypeStep
<1>2. /\ TypeOK /\ ChatSizeInv /\ SocketInv /\ PanelSizeInv /\ FeedSizeInv
      /\ ReadInv /\ CheckoutInv /\ AnalysisInv /\ CallsInv
      => ClientsTypeOK
  BY FeedTypesGiven DEF ClientsTypeOK, ChatSizeInv, SocketInv, PanelSizeInv, FeedSizeInv, CheckoutInv,
     AnalysisInv, CallsInv
<1>3. ClientsInit => FeedSizeInv
  BY FeedStartSizes DEF ClientsInit
<1> QED
  BY ClientsStart, PartsStep, <1>1, <1>2, <1>3, CheckoutStep, SocketStep, PanelSizeStep, ChatStep, ChatSizeStep,
     FeedStep, FeedSizeStep, ReadStep, AnalysisStep, CallsStep, PTL DEF ClientsSpec

\* The session, too: with one tab its rotation does not race itself and a confirmed logout
\* holds in the specification that the run checks.
THEOREM ClientsStaySignedOut ==
  ASSUME OneTab PROVE ClientsSpec => [](NoReplay /\ LogoutHolds)
<1>1. TypeOK /\ Named /\ [Next]_vars => TypeOK' /\ Named'
  BY NamedStep, TypeStep
<1>2. TypeOK /\ LogoutInv /\ [Next]_vars => LogoutInv'
  BY LogoutStep
<1>3. TypeOK /\ Named /\ RotationInv /\ [Next]_vars => RotationInv'
  BY RotationStep
<1>4. TypeOK /\ RotationInv /\ LogoutInv => NoReplay /\ LogoutHolds
  BY RotationGives DEF LogoutInv, SignedOut, LogoutHolds
<1> QED
  BY ClientsStart, PartsStep, <1>1, <1>2, <1>3, <1>4, PTL DEF ClientsSpec

=============================================================================
