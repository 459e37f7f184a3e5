------------------------------- MODULE Socket -------------------------------
(***************************************************************************)
(* useRealtimeOffers: the websocket of a building's offers, its reconnect  *)
(* timers, and what a component that changes building, reconnects or goes  *)
(* away does to them. A closed socket says so later, and its handler does  *)
(* not ask whether it is still the socket of the hook.                     *)
(***************************************************************************)
EXTENDS Naturals, FiniteSets

CONSTANTS
  Buildings,
  MaxAttempts,  \* MAX_RECONNECT_ATTEMPTS
  MaxSockets,   \* bound on the sockets opened
  MaxMoves      \* bound on changes of building, manual reconnects and unmounts

ASSUME SocketConstants == MaxAttempts \in Nat /\ MaxSockets \in Nat /\ MaxMoves \in Nat

VARIABLES
  building,   \* the building of the component, "none" once it is unmounted
  latest,     \* connectRef: the building the last effect's connect is for
  starting,   \* the effect's setTimeout(0) has not fired
  socks,      \* the sockets the browser holds
  wsRef,      \* the number of the hook's socket, 0 if none
  timers,     \* reconnect timers, numbered by the socket whose close set them
  timerRef,   \* the one the hook can still clear, 0 if none
  attempts,   \* reconnectAttempts
  opened,     \* how many sockets so far
  moves       \* how many of those so far

socketVars == <<building, latest, starting, socks, wsRef, timers, timerRef, attempts, opened, moves>>

Sock == [id : 1 .. MaxSockets, for : Buildings, st : {"connecting", "open", "closing"}]

SocketTypeOK ==
  /\ building \in Buildings \cup {"none"} /\ latest \in Buildings
  /\ starting \in BOOLEAN
  /\ socks \subseteq Sock /\ \A s, t \in socks : s.id = t.id => s = t
  /\ wsRef \in 0 .. MaxSockets
  /\ timers \subseteq 1 .. MaxSockets /\ timerRef \in 0 .. MaxSockets
  /\ attempts \in 0 .. MaxAttempts
  /\ opened \in 0 .. MaxSockets /\ moves \in 0 .. MaxMoves

SocketInit ==
  /\ building \in Buildings /\ latest = building
  /\ starting = TRUE
  /\ socks = {} /\ wsRef = 0 /\ timers = {} /\ timerRef = 0
  /\ attempts = 0 /\ opened = 0 /\ moves = 0

----------------------------------------------------------------------------
\* ws.close(): the socket is closing, its close event comes later.
WithClosed(ss, i) == {IF s.id = i THEN [s EXCEPT !.st = "closing"] ELSE s : s \in ss}

\* connect() closes the socket the hook knows of.
Replaced == WithClosed(socks, wsRef)

\* connect(), for the building of its closure.
Connect(b) ==
  /\ opened < MaxSockets
  /\ opened' = opened + 1
  /\ socks' = Replaced \cup {[id |-> opened + 1, for |-> b, st |-> "connecting"]}
  /\ wsRef' = opened + 1

EffectStarts ==
  /\ starting /\ starting' = FALSE
  /\ Connect(latest)
  /\ UNCHANGED <<building, latest, timers, timerRef, attempts, moves>>

Opens(s) ==
  /\ s.st = "connecting"
  /\ socks' = (socks \ {s}) \cup {[s EXCEPT !.st = "open"]}
  /\ attempts' = 0
  /\ UNCHANGED <<building, latest, starting, wsRef, timers, timerRef, opened, moves>>

\* A reconnect is scheduled, with a growing delay, while there are attempts left.
Delayed(i) ==
  IF attempts < MaxAttempts
  THEN attempts' = attempts + 1 /\ timers' = timers \cup {i} /\ timerRef' = i
  ELSE UNCHANGED <<attempts, timers, timerRef>>

\* onclose, of a socket the hook closed or one the network dropped.
Closes(s) ==
  /\ socks' = socks \ {s}
  /\ wsRef' = 0
  /\ Delayed(s.id)
  /\ UNCHANGED <<building, latest, starting, opened, moves>>

TimerFires(i) ==
  /\ timers' = timers \ {i}
  /\ Connect(latest)
  /\ UNCHANGED <<building, latest, starting, timerRef, attempts, moves>>

\* The effect's cleanup: the last timer is cleared and the known socket closed.
Cleanup ==
  /\ timers' = timers \ {timerRef}
  /\ socks' = Replaced /\ wsRef' = 0

Move == building # "none" /\ moves < MaxMoves /\ moves' = moves + 1

\* Mutant of ConnectRef: set once.
ConnectRefOnce(b) == latest

\* What connectRef holds after an effect for b.
ConnectRef(b) == b

\* Another building: the cleanup, then the effect again.
ChangeBuilding(b) ==
  /\ Move /\ b # building /\ building' = b /\ latest' = ConnectRef(b)
  /\ Cleanup /\ starting' = TRUE
  /\ UNCHANGED <<timerRef, attempts, opened>>

Unmount ==
  /\ Move /\ building' = "none"
  /\ Cleanup /\ starting' = FALSE
  /\ UNCHANGED <<latest, timerRef, attempts, opened>>

\* reconnect()
Reconnect ==
  /\ Move /\ attempts' = 0
  /\ Connect(building)
  /\ UNCHANGED <<building, latest, starting, timers, timerRef>>

SocketNext ==
  \/ EffectStarts \/ Unmount \/ Reconnect
  \/ \E s \in socks : Opens(s) \/ Closes(s)
  \/ \E i \in timers : TimerFires(i)
  \/ \E b \in Buildings : ChangeBuilding(b)

SocketSpec == SocketInit /\ [][SocketNext]_socketVars

----------------------------------------------------------------------------
(* Properties. *)

\* The socket the hook knows of is for the building on the screen, whichever
\* timer opened it and however late.
SocketIsForBuilding ==
  \A s \in socks : s.id = wsRef /\ building # "none" => s.for = building

\* As long as only the network closes sockets there is one socket or one way
\* to the next, never two. (A change of building, an unmount or a manual
\* reconnect can leave a second one: the closed socket's handler reconnects.)
OneSocketUndisturbed ==
  moves = 0 => Cardinality(socks) + Cardinality(timers) + (IF starting THEN 1 ELSE 0) <= 1

\* The hook's one socket is for the building on the screen, and the network alone
\* never makes it two (useRealtimeOffers).
SocketInOrder == SocketIsForBuilding /\ OneSocketUndisturbed

============================================================================
