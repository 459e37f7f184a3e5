------------------------------- MODULE Offers -------------------------------
(***************************************************************************)
(* Participation in one group offer: src/src/api/routes/offers.py over the *)
(* tables offers and offer_participants of src/src/databases/postgres.py.  *)
(*                                                                         *)
(* offers.current_participants is a counter kept beside the participant    *)
(* rows it counts.  A handler reads the offer, checks it, reads more, and  *)
(* then calls the store, which on asyncpg works in a transaction and on    *)
(* the Supabase client in separate requests; any other handler may run     *)
(* between two of these steps.  A request that fails a check changes       *)
(* nothing, so only those that pass are followed.                          *)
(***************************************************************************)
EXTENDS Integers, FiniteSets

CONSTANTS
  Users,
  Calls,            \* join and leave requests that may be in flight at once
  UserOf,           \* the signed-in user of each
  Editors,          \* requests that edit the offer, in flight at once
  Backends,         \* the stores the system may be deployed on
  MaxUnits,         \* bound on unit_count
  MaxParticipants,  \* bound on min_participants and max_participants
  HandlersDie       \* TRUE: a process may die between two steps

ASSUME UsersAssumption == IsFiniteSet(Users) /\ UserOf \in [Calls -> Users]
ASSUME BackendsAssumption == Backends \subseteq {"asyncpg", "supabase"}
ASSUME UnitsAssumption == MaxUnits \in Nat \ {0}
ASSUME ParticipantsAssumption == MaxParticipants \in Nat \ {0}
ASSUME HandlersDieAssumption == HandlersDie \in BOOLEAN

VARIABLES
  backend,    \* _use_supabase_client(): which store this deployment has
  status,     \* offers.status
  minimum,    \* offers.min_participants
  maximum,    \* offers.max_participants
  count,      \* offers.current_participants
  units,      \* offer_participants.unit_count of each user, 0 without a row
  call,       \* where each join or leave is, and what it has read
  edit        \* the edit each editor has checked and will write

offers == <<status, minimum, maximum>>
vars == <<backend, offers, count, units, call, edit>>

Status ==
  {"draft", "pending", "active", "matching", "matched", "in_progress",
   "completed", "cancelled", "flagged"}
Open == {"pending", "matching"}
Terminal == {"completed", "cancelled"}

\* The columns take NULL, and a PUT with an explicit null writes it: a status that
\* no test finds, and a limit (0 here, which no request may set) that no count meets.
Null == "null"
Stored == Status \cup {Null}
NullLimit == 0
Limits == {NullLimit} \cup 1 .. MaxParticipants

\* The status an edit must find when it reads the offer, and the one it writes.
From ==
  [publish      |-> {"draft"},
   start        |-> {"pending"},
   match        |-> Stored,
   put          |-> Stored \ Terminal,
   delete       |-> {"draft", "pending"},
   resolve      |-> Stored,
   expire       |-> {"draft", "pending", "matching"},
   flag         |-> Stored,
   approve      |-> Stored,
   admin_cancel |-> Stored,
   force_cancel |-> Stored \ Terminal,
   release      |-> {"in_progress", "completed"}]

To ==
  [publish      |-> {"pending"},
   start        |-> {"matching"},
   match        |-> {"matched"},
   put          |-> Stored,
   delete       |-> {"cancelled"},
   resolve      |-> {"cancelled"},
   expire       |-> {"cancelled"},
   flag         |-> {"flagged"},
   approve      |-> {"active"},
   admin_cancel |-> {"cancelled"},
   force_cancel |-> {"cancelled"},
   release      |-> {"completed"}]

Edits == DOMAIN From

CallPC ==
  {"idle", "join_check", "join", "leave_check", "leave", "leave_delete",
   "leave_read", "leave_write"}

\* n: the units to add or to subtract; seen: the count that leave_offer read.
CallRecord == [pc : CallPC, n : 0..MaxUnits, seen : Nat]

Idle == [pc |-> "idle", n |-> 0, seen |-> 0]

TypeOK ==
  /\ backend \in Backends
  /\ status \in Stored
  /\ minimum \in Limits /\ maximum \in Limits
  /\ count \in Nat
  /\ units \in [Users -> 0..MaxUnits]
  /\ call \in [Calls -> CallRecord]
  /\ edit \in [Editors -> Edits \cup {"none"}]

\* A new offer is a draft without participants.
Init ==
  /\ backend \in Backends
  /\ status = "draft"
  /\ minimum \in 1..MaxParticipants
  /\ maximum \in 1..MaxParticipants
  /\ count = 0
  /\ units = [u \in Users |-> 0]
  /\ call = [c \in Calls |-> Idle]
  /\ edit = [e \in Editors |-> "none"]

----------------------------------------------------------------------------
(* Joining *)

\* get_offer, the status check and the capacity check (a later line of the
\* handler, about the offer read here); it fails on a limit that is NULL.
JoinRead(c, n) ==
  /\ call[c].pc = "idle"
  /\ status \in Open
  /\ maximum # NullLimit /\ count < maximum
  /\ call' = [call EXCEPT ![c] = [pc |-> "join_check", n |-> n, seen |-> 0]]
  /\ UNCHANGED <<backend, offers, count, units, edit>>

\* has_user_joined_offer.
JoinCheck(c) ==
  /\ call[c].pc = "join_check"
  /\ call' = [call EXCEPT ![c] =
       IF units[UserOf[c]] = 0 THEN [@ EXCEPT !.pc = "join"] ELSE Idle]
  /\ UNCHANGED <<backend, offers, count, units, edit>>

\* Mutant of StillJoinable: the handler's own checks are trusted.
JoinableAsRead == TRUE

\* The status test is in the UPDATE on both stores, the capacity test only in
\* that of asyncpg.
StillJoinable ==
  status \in Open /\ (backend = "asyncpg" => maximum # NullLimit /\ count < maximum)

\* Insert the row and add to the counter, both or neither: a transaction on
\* asyncpg, the function join_offer_atomic on Supabase.  A second row of a user
\* is refused by the unique key.
Join(c) ==
  LET u == UserOf[c] IN
  /\ call[c].pc = "join"
  /\ IF units[u] = 0 /\ StillJoinable
       THEN /\ units' = [units EXCEPT ![u] = call[c].n]
            /\ count' = count + call[c].n
       ELSE UNCHANGED <<units, count>>
  /\ call' = [call EXCEPT ![c] = Idle]
  /\ UNCHANGED <<backend, offers, edit>>

----------------------------------------------------------------------------
(* Leaving *)

LeaveRead(c) ==
  /\ call[c].pc = "idle"
  /\ status \in Open
  /\ call' = [call EXCEPT ![c].pc = "leave_check"]
  /\ UNCHANGED <<backend, offers, count, units, edit>>

\* has_user_joined_offer.
LeaveCheck(c) ==
  /\ call[c].pc = "leave_check"
  /\ call' = [call EXCEPT ![c].pc = IF units[UserOf[c]] # 0 THEN "leave" ELSE "idle"]
  /\ UNCHANGED <<backend, offers, count, units, edit>>

\* Mutants: every participant is one unit; the subtraction is not cut off at 0.
OneUnit(u) == 1
Subtract(a, b) == a - b

\* unit_count of the row, 1 when there is none.
UnitsToFree(u) == IF units[u] = 0 THEN 1 ELSE units[u]

\* GREATEST(0, a - b)
Minus(a, b) == IF a >= b THEN a - b ELSE 0

\* asyncpg: the row is locked, read and deleted and the counter lowered in one
\* transaction.
Leave(c) ==
  LET u == UserOf[c] IN
  /\ backend = "asyncpg"
  /\ call[c].pc = "leave"
  /\ units' = [units EXCEPT ![u] = 0]
  /\ count' = Minus(count, UnitsToFree(u))
  /\ call' = [call EXCEPT ![c] = Idle]
  /\ UNCHANGED <<backend, offers, edit>>

\* Supabase: four requests.
LeaveSelect(c) ==
  /\ backend = "supabase"
  /\ call[c].pc = "leave"
  /\ call' = [call EXCEPT ![c].pc = "leave_delete", ![c].n = UnitsToFree(UserOf[c])]
  /\ UNCHANGED <<backend, offers, count, units, edit>>

LeaveDelete(c) ==
  /\ call[c].pc = "leave_delete"
  /\ units' = [units EXCEPT ![UserOf[c]] = 0]
  /\ call' = [call EXCEPT ![c].pc = "leave_read"]
  /\ UNCHANGED <<backend, offers, count, edit>>

LeaveReadCount(c) ==
  /\ call[c].pc = "leave_read"
  /\ call' = [call EXCEPT ![c].pc = "leave_write", ![c].seen = count]
  /\ UNCHANGED <<backend, offers, count, units, edit>>

LeaveWriteCount(c) ==
  /\ call[c].pc = "leave_write"
  /\ count' = Minus(call[c].seen, call[c].n)
  /\ call' = [call EXCEPT ![c] = Idle]
  /\ UNCHANGED <<backend, offers, units, edit>>

CallDies(c) ==
  /\ HandlersDie
  /\ call[c].pc # "idle"
  /\ call' = [call EXCEPT ![c] = Idle]
  /\ UNCHANGED <<backend, offers, count, units, edit>>

----------------------------------------------------------------------------
(* Editing *)

\* get_offer and the handler's checks.
EditRead(e, k) ==
  /\ edit[e] = "none"
  /\ status \in From[k]
  /\ k = "start" => minimum # NullLimit /\ count >= minimum
  /\ edit' = [edit EXCEPT ![e] = k]
  /\ UNCHANGED <<backend, offers, count, units, call>>

\* update_offer, which repeats no check.  A PUT may also set the limits, or any of
\* the three to NULL.
EditWrite(e) ==
  /\ edit[e] # "none"
  /\ status' \in To[edit[e]]
  /\ IF edit[e] = "put"
       THEN minimum' \in Limits /\ maximum' \in Limits
       ELSE UNCHANGED <<minimum, maximum>>
  /\ edit' = [edit EXCEPT ![e] = "none"]
  /\ UNCHANGED <<backend, count, units, call>>

EditDies(e) ==
  /\ HandlersDie
  /\ edit[e] # "none"
  /\ edit' = [edit EXCEPT ![e] = "none"]
  /\ UNCHANGED <<backend, offers, count, units, call>>

\* resolve_undersubscription, lower_minimum: whatever the status.
LowerMinimum ==
  /\ minimum' \in 1..MaxParticipants
  /\ UNCHANGED <<backend, status, maximum, count, units, call, edit>>

----------------------------------------------------------------------------

JoinStep(c) == (\E n \in 1..MaxUnits : JoinRead(c, n)) \/ JoinCheck(c) \/ Join(c)

LeaveStep(c) ==
  \/ LeaveRead(c) \/ LeaveCheck(c) \/ Leave(c)
  \/ LeaveSelect(c) \/ LeaveDelete(c) \/ LeaveReadCount(c) \/ LeaveWriteCount(c)

EditStep(e) == (\E k \in Edits : EditRead(e, k)) \/ EditWrite(e) \/ EditDies(e)

Next ==
  \/ \E c \in Calls : JoinStep(c) \/ LeaveStep(c) \/ CallDies(c)
  \/ \E e \in Editors : EditStep(e)
  \/ LowerMinimum

Spec == Init /\ [][Next]_vars

----------------------------------------------------------------------------
(* Properties *)

\* The units of all participants, one element for each.
Seats == {s \in Users \X (1..MaxUnits) : s[2] <= units[s[1]]}

\* On asyncpg the counter is the sum of the units of the rows, whatever joins,
\* leaves, edits and crashes come together, as long as no two requests in flight
\* are of one user.
CountIsSum == backend = "asyncpg" => count = Cardinality(Seats)

\* Nobody gets into an offer that has been closed, nor on asyncpg into one that
\* has been filled, between the handler's checks and its write.
JoinsOpenOffer ==
  [][\A u \in Users :
       units[u] = 0 /\ units'[u] # 0 =>
         status \in Open /\ (backend = "asyncpg" => maximum # NullLimit /\ count < maximum)]_vars

\* The inductive strengthening of CountIsSum: a handler past its check of a
\* participant's row will find that row.
SeatsInv ==
  /\ TypeOK
  /\ \A c \in Calls :
       /\ call[c].pc \in {"join_check", "join"} => call[c].n > 0
       /\ backend = "asyncpg" =>
            /\ call[c].pc \notin {"leave_delete", "leave_read", "leave_write"}
            /\ call[c].pc = "leave" => units[UserOf[c]] # 0
  /\ CountIsSum

============================================================================
