---------------------------- MODULE OffersProofs ----------------------------
(***************************************************************************)
(* Proofs about Offers, for any number of users, requests and editors and  *)
(* any limits: type correctness, that nobody joins a closed or (on         *)
(* asyncpg) a full offer, and that on asyncpg the participant counter is   *)
(* the sum of the participants' units.                                     *)
(***************************************************************************)
EXTENDS Offers, FiniteSetTheorems, TLAPS

\* What an edit writes is one of OfferStatus or NULL (update_offer).
LEMMA EditTargets == \A k \in Edits : To[k] \subseteq Stored
  BY DEF Edits, From, To, Stored, Status, Terminal

\* One step of any handler keeps the types (join_offer, leave_offer and the
\* handlers that edit the offer).
LEMMA TypeStep == ASSUME TypeOK, [Next]_vars PROVE TypeOK'
<1> USE UnitsAssumption, ParticipantsAssumption, UsersAssumption
<1> USE DEF TypeOK, CallRecord, CallPC, offers, Limits
<1>1. ASSUME NEW c \in Calls, NEW n \in 1..MaxUnits, JoinRead(c, n) PROVE TypeOK'
  BY <1>1 DEF JoinRead
<1>2. ASSUME NEW c \in Calls, JoinCheck(c) PROVE TypeOK'
  BY <1>2 DEF JoinCheck, Idle
<1>3. ASSUME NEW c \in Calls, Join(c) PROVE TypeOK'
  BY <1>3 DEF Join, Idle
<1>4. ASSUME NEW c \in Calls, LeaveRead(c) PROVE TypeOK'
  BY <1>4 DEF LeaveRead
<1>5. ASSUME NEW c \in Calls, LeaveCheck(c) PROVE TypeOK'
  BY <1>5 DEF LeaveCheck
<1>6. ASSUME NEW c \in Calls, Leave(c) PROVE TypeOK'
  BY <1>6 DEF Leave, Idle, Minus, UnitsToFree
<1>7. ASSUME NEW c \in Calls, LeaveSelect(c) PROVE TypeOK'
  <2>1. UnitsToFree(UserOf[c]) \in 0..MaxUnits
    BY DEF UnitsToFree
  <2>2. call \in [Calls -> CallRecord] /\ call[c] \in CallRecord
    OBVIOUS
  <2>3. [call[c] EXCEPT !.pc = "leave_delete", !.n = UnitsToFree(UserOf[c])] \in CallRecord
    BY <2>1, <2>2
  <2>4. call' = [call EXCEPT ![c] = [call[c] EXCEPT !.pc = "leave_delete", !.n = UnitsToFree(UserOf[c])]]
    BY <1>7 DEF LeaveSelect
  <2>5. call' \in [Calls -> CallRecord]
    <3> HIDE DEF TypeOK, CallRecord
    <3> QED
      BY <2>2, <2>3, <2>4
  <2> QED
    BY <1>7, <2>5 DEF LeaveSelect
<1>8. ASSUME NEW c \in Calls, LeaveDelete(c) PROVE TypeOK'
  BY <1>8 DEF LeaveDelete
<1>9. ASSUME NEW c \in Calls, LeaveReadCount(c) PROVE TypeOK'
  <2>1. call \in [Calls -> CallRecord] /\ call[c] \in CallRecord
    OBVIOUS
  <2>2. [call[c] EXCEPT !.pc = "leave_write", !.seen = count] \in CallRecord
    BY <2>1
  <2>3. call' = [call EXCEPT ![c] = [call[c] EXCEPT !.pc = "leave_write", !.seen = count]]
    BY <1>9 DEF LeaveReadCount
  <2>4. call' \in [Calls -> CallRecord]
    <3> HIDE DEF TypeOK, CallRecord
    <3> QED
      BY <2>1, <2>2, <2>3
  <2> QED
    BY <1>9, <2>4 DEF LeaveReadCount
<1>10. ASSUME NEW c \in Calls, LeaveWriteCount(c) PROVE TypeOK'
  BY <1>10 DEF LeaveWriteCount, Idle, Minus
<1>11. ASSUME NEW c \in Calls, CallDies(c) PROVE TypeOK'
  BY <1>11 DEF CallDies, Idle
<1>12. ASSUME NEW e \in Editors, NEW k \in Edits, EditRead(e, k) PROVE TypeOK'
  BY <1>12 DEF EditRead
<1>13. ASSUME NEW e \in Editors, EditWrite(e) PROVE TypeOK'
  <2>1. status' \in Stored
    BY <1>13, EditTargets DEF EditWrite
  <2> QED
    BY <1>13, <2>1 DEF EditWrite
<1>14. ASSUME NEW e \in Editors, EditDies(e) PROVE TypeOK'
  BY <1>14 DEF EditDies
<1>15. CASE LowerMinimum
  BY <1>15 DEF LowerMinimum
<1>16. CASE UNCHANGED vars
  BY <1>16 DEF vars
<1> QED
  BY <1>1, <1>2, <1>3, <1>4, <1>5, <1>6, <1>7, <1>8, <1>9, <1>10, <1>11, <1>12,
     <1>13, <1>14, <1>15, <1>16 DEF Next, JoinStep, LeaveStep, EditStep

\* Every variable keeps its type; in particular current_participants is never
\* negative, on either store.
THEOREM TypeCorrect == Spec => []TypeOK
<1>1. Init => TypeOK
  BY UnitsAssumption, UsersAssumption
  DEF Init, TypeOK, Stored, Status, Limits, CallRecord, CallPC, Idle
<1> QED
  BY <1>1, TypeStep, PTL DEF Spec

----------------------------------------------------------------------------
(* The seats of a table of units *)

SeatsOf(f) == {s \in Users \X (1..MaxUnits) : s[2] <= f[s[1]]}

Column(u, n) == {u} \X (1..n)

\* A user's units are that many seats.
LEMMA ColumnSize ==
  ASSUME NEW u, NEW n \in Nat
  PROVE  IsFiniteSet(Column(u, n)) /\ Cardinality(Column(u, n)) = n
<1>1. IsFiniteSet({u}) /\ Cardinality({u}) = 1
  BY FS_Singleton
<1>2. IsFiniteSet(1..n) /\ Cardinality(1..n) = n
  BY FS_Interval
<1>3. IsFiniteSet({u} \X (1..n))
      /\ Cardinality({u} \X (1..n)) = Cardinality({u}) * Cardinality(1..n)
  BY <1>1, <1>2, FS_Product
<1> QED
  BY <1>1, <1>2, <1>3 DEF Column

\* There are finitely many seats.
LEMMA SeatsFinite ==
  ASSUME NEW f \in [Users -> 0..MaxUnits] PROVE IsFiniteSet(SeatsOf(f))
<1>1. IsFiniteSet(1..MaxUnits)
  BY UnitsAssumption, FS_Interval
<1>2. IsFiniteSet(Users \X (1..MaxUnits))
  BY <1>1, UsersAssumption, FS_Product
<1> QED
  BY <1>2, FS_Subset DEF SeatsOf

\* The library's fact on unions, for disjoint sets.
LEMMA DisjointUnion ==
  ASSUME NEW S, NEW T, IsFiniteSet(S), IsFiniteSet(T), S \cap T = {}
  PROVE  Cardinality(S \cup T) = Cardinality(S) + Cardinality(T)
<1>1. Cardinality(S) \in Nat /\ Cardinality(T) \in Nat
  BY FS_CardinalityType
<1>2. Cardinality(S \cap T) = 0
  BY FS_EmptySet
<1>3. Cardinality(S \cup T) = Cardinality(S) + Cardinality(T) - Cardinality(S \cap T)
  BY FS_Union
<1> QED
  BY <1>1, <1>2, <1>3

\* A user without units who gets n of them adds n seats.
LEMMA AddSeats ==
  ASSUME NEW f \in [Users -> 0..MaxUnits], NEW u \in Users, NEW n \in 0..MaxUnits,
         f[u] = 0
  PROVE  Cardinality(SeatsOf([f EXCEPT ![u] = n])) = Cardinality(SeatsOf(f)) + n
<1> DEFINE g == [f EXCEPT ![u] = n]
<1>1. SeatsOf(g) = SeatsOf(f) \cup Column(u, n)
  BY UnitsAssumption DEF SeatsOf, Column
<1>2. SeatsOf(f) \cap Column(u, n) = {}
  BY UnitsAssumption DEF SeatsOf, Column
<1>3. IsFiniteSet(SeatsOf(f)) /\ IsFiniteSet(Column(u, n))
      /\ Cardinality(Column(u, n)) = n
  BY SeatsFinite, ColumnSize, UnitsAssumption
<1>4. Cardinality(SeatsOf(f) \cup Column(u, n))
        = Cardinality(SeatsOf(f)) + Cardinality(Column(u, n))
  BY <1>2, <1>3, DisjointUnion
<1> QED
  <2> HIDE DEF g
  <2>1. Cardinality(SeatsOf(g)) = Cardinality(SeatsOf(f)) + n
    BY <1>1, <1>3, <1>4
  <2> QED
    BY <2>1 DEF g

\* A user who gives up all of them frees as many.
LEMMA FreeSeats ==
  ASSUME NEW f \in [Users -> 0..MaxUnits], NEW u \in Users
  PROVE  /\ Cardinality(SeatsOf([f EXCEPT ![u] = 0])) \in Nat
         /\ Cardinality(SeatsOf(f)) = Cardinality(SeatsOf([f EXCEPT ![u] = 0])) + f[u]
<1> DEFINE g == [f EXCEPT ![u] = 0]
<1>1. g \in [Users -> 0..MaxUnits] /\ g[u] = 0
  BY UnitsAssumption
<1>2. f = [g EXCEPT ![u] = f[u]]
  <2>1. \A x \in Users : [g EXCEPT ![u] = f[u]][x] = f[x]
    BY <1>1
  <2> QED
    BY <1>1, <2>1
<1>3. Cardinality(SeatsOf([g EXCEPT ![u] = f[u]])) = Cardinality(SeatsOf(g)) + f[u]
  <2> HIDE DEF g
  <2> QED
    BY <1>1, AddSeats
<1>4. Cardinality(SeatsOf(g)) \in Nat
  <2> HIDE DEF g
  <2> QED
    BY <1>1, SeatsFinite, FS_CardinalityType
<1> QED
  BY <1>2, <1>3, <1>4

----------------------------------------------------------------------------
(* The counter *)

\* At most one request in flight for each user.
OneRequestEach == \A c, d \in Calls : UserOf[c] = UserOf[d] => c = d

\* One step of any handler keeps the counter equal to the seats on asyncpg
\* (PostgresClient.join_offer, leave_offer).
LEMMA SeatsStep ==
  ASSUME OneRequestEach, SeatsInv, [Next]_vars PROVE SeatsInv'
<1>0. TypeOK /\ TypeOK'
  BY TypeStep DEF SeatsInv
<1> USE <1>0, UnitsAssumption, UsersAssumption
<1> USE DEF offers
<1>a. Seats = SeatsOf(units) /\ Seats' = SeatsOf(units')
  BY DEF Seats, SeatsOf
<1>b. ASSUME UNCHANGED <<backend, count, units>>, CountIsSum PROVE CountIsSum'
  BY <1>b, <1>a DEF CountIsSum
<1>1. ASSUME NEW c \in Calls, NEW n \in 1..MaxUnits, JoinRead(c, n) PROVE SeatsInv'
  BY <1>1, <1>b DEF JoinRead, SeatsInv, TypeOK, CallRecord
<1>2. ASSUME NEW c \in Calls, JoinCheck(c) PROVE SeatsInv'
  BY <1>2, <1>b DEF JoinCheck, SeatsInv, TypeOK, CallRecord, Idle
<1>3. ASSUME NEW c \in Calls, Join(c) PROVE SeatsInv'
  <2> DEFINE u == UserOf[c]
  <2>1. u \in Users /\ call[c].n \in 0..MaxUnits
    BY DEF TypeOK, CallRecord
  <2>2. CountIsSum'
    <3>1. CASE units[u] = 0 /\ StillJoinable
      <4>1. units' = [units EXCEPT ![u] = call[c].n] /\ count' = count + call[c].n
            /\ backend' = backend
        BY <1>3, <3>1 DEF Join
      <4>2. Cardinality(SeatsOf(units')) = Cardinality(SeatsOf(units)) + call[c].n
        BY <2>1, <3>1, <4>1, AddSeats DEF TypeOK
      <4> QED
        BY <4>1, <4>2, <1>a DEF CountIsSum, SeatsInv
    <3>2. CASE ~(units[u] = 0 /\ StillJoinable)
      BY <1>3, <3>2, <1>b DEF Join, SeatsInv
    <3> QED
      BY <3>1, <3>2
  <2>3. ASSUME NEW d \in Calls, backend = "asyncpg", call'[d].pc = "leave"
        PROVE  units'[UserOf[d]] # 0
    <3>1. d # c /\ call[d].pc = "leave"
      BY <1>3, <2>3 DEF Join, Idle, TypeOK
    <3>2. UserOf[d] # u /\ units[UserOf[d]] # 0 /\ UserOf[d] \in Users
      BY <3>1, <2>3 DEF OneRequestEach, SeatsInv
    <3> QED
      BY <1>3, <3>2 DEF Join, TypeOK
  <2> QED
    BY <1>3, <2>2, <2>3 DEF Join, SeatsInv, TypeOK, CallRecord, Idle
<1>4. ASSUME NEW c \in Calls, LeaveRead(c) PROVE SeatsInv'
  BY <1>4, <1>b DEF LeaveRead, SeatsInv, TypeOK, CallRecord
<1>5. ASSUME NEW c \in Calls, LeaveCheck(c) PROVE SeatsInv'
  BY <1>5, <1>b DEF LeaveCheck, SeatsInv, TypeOK, CallRecord
<1>6. ASSUME NEW c \in Calls, Leave(c) PROVE SeatsInv'
  <2> DEFINE u == UserOf[c]
  <2>1. u \in Users /\ units[u] \in 0..MaxUnits /\ units[u] # 0
    BY <1>6 DEF Leave, SeatsInv, TypeOK
  <2>2. units' = [units EXCEPT ![u] = 0] /\ count' = Minus(count, units[u])
        /\ backend' = backend
    BY <1>6, <2>1 DEF Leave, UnitsToFree
  <2>3. Cardinality(SeatsOf(units')) \in Nat
        /\ Cardinality(SeatsOf(units)) = Cardinality(SeatsOf(units')) + units[u]
    BY <2>1, <2>2, FreeSeats DEF TypeOK
  <2>4. CountIsSum'
    BY <1>a, <2>1, <2>2, <2>3 DEF CountIsSum, SeatsInv, Minus
  <2>5. ASSUME NEW d \in Calls, call'[d].pc = "leave"
        PROVE  units'[UserOf[d]] # 0
    <3>1. d # c /\ call[d].pc = "leave" /\ backend = "asyncpg"
      BY <1>6, <2>5 DEF Leave, Idle, TypeOK
    <3>2. UserOf[d] # u /\ units[UserOf[d]] # 0 /\ UserOf[d] \in Users
      BY <3>1 DEF OneRequestEach, SeatsInv
    <3> QED
      BY <2>2, <3>2 DEF TypeOK
  <2> QED
    BY <1>6, <2>4, <2>5 DEF Leave, SeatsInv, TypeOK, CallRecord, Idle
<1>7. ASSUME NEW c \in Calls, LeaveSelect(c) PROVE SeatsInv'
  BY <1>7 DEF LeaveSelect, SeatsInv, TypeOK, CallRecord, CountIsSum
<1>8. ASSUME NEW c \in Calls, LeaveDelete(c) PROVE SeatsInv'
  BY <1>8 DEF LeaveDelete, SeatsInv, TypeOK, CallRecord, CountIsSum
<1>9. ASSUME NEW c \in Calls, LeaveReadCount(c) PROVE SeatsInv'
  BY <1>9 DEF LeaveReadCount, SeatsInv, TypeOK, CallRecord, CountIsSum
<1>10. ASSUME NEW c \in Calls, LeaveWriteCount(c) PROVE SeatsInv'
  BY <1>10 DEF LeaveWriteCount, SeatsInv, TypeOK, CallRecord, CountIsSum, Idle
<1>11. ASSUME NEW c \in Calls, CallDies(c) PROVE SeatsInv'
  BY <1>11, <1>b DEF CallDies, SeatsInv, TypeOK, CallRecord, Idle
<1>12. ASSUME NEW e \in Editors, NEW k \in Edits, EditRead(e, k) PROVE SeatsInv'
  BY <1>12, <1>b DEF EditRead, SeatsInv
<1>13. ASSUME NEW e \in Editors, EditWrite(e) PROVE SeatsInv'
  BY <1>13, <1>b DEF EditWrite, SeatsInv
<1>14. ASSUME NEW e \in Editors, EditDies(e) PROVE SeatsInv'
  BY <1>14, <1>b DEF EditDies, SeatsInv
<1>15. CASE LowerMinimum
  BY <1>15, <1>b DEF LowerMinimum, SeatsInv
<1>16. CASE UNCHANGED vars
  BY <1>16, <1>b DEF vars, SeatsInv
<1> QED
  BY <1>1, <1>2, <1>3, <1>4, <1>5, <1>6, <1>7, <1>8, <1>9, <1>10, <1>11, <1>12,
     <1>13, <1>14, <1>15, <1>16 DEF Next, JoinStep, LeaveStep, EditStep

\* On asyncpg current_participants is always the sum of the participants'
\* unit_count, provided no user has two requests in flight.
THEOREM CounterIsExact == ASSUME OneRequestEach PROVE Spec => []CountIsSum
<1>1. Init => SeatsInv
  <2> SUFFICES ASSUME Init PROVE SeatsInv
    OBVIOUS
  <2>1. TypeOK
    BY UnitsAssumption, UsersAssumption
    DEF Init, TypeOK, Stored, Status, Limits, CallRecord, CallPC, Idle
  <2>2. Seats = {}
    BY UnitsAssumption DEF Init, Seats
  <2>3. Cardinality(Seats) = 0
    BY <2>2, FS_EmptySet
  <2> QED
    BY <2>1, <2>3 DEF Init, SeatsInv, CountIsSum, Idle
<1>2. SeatsInv /\ [Next]_vars => SeatsInv'
  BY SeatsStep
<1>3. SeatsInv => CountIsSum
  BY DEF SeatsInv
<1> QED
  BY <1>1, <1>2, <1>3, PTL DEF Spec

\* Whatever the handler read before, a participant row appears only in an offer
\* that is open at that instant and, on asyncpg, not full (join_offer).
THEOREM OnlyOpenOffersAreJoined == Spec => JoinsOpenOffer
<1> DEFINE Joins ==
      \A u \in Users :
        units[u] = 0 /\ units'[u] # 0 =>
          status \in Open /\ (backend = "asyncpg" => maximum # NullLimit /\ count < maximum)
<1>1. TypeOK /\ [Next]_vars => [Joins]_vars
  <2> SUFFICES ASSUME TypeOK, Next PROVE Joins
    OBVIOUS
  <2> USE UsersAssumption DEF offers
  <2>1. ASSUME NEW c \in Calls, Join(c) PROVE Joins
    BY <2>1 DEF Join, StillJoinable, TypeOK
  <2>2. ASSUME NEW c \in Calls, Leave(c) PROVE Joins
    BY <2>2 DEF Leave, TypeOK
  <2>3. ASSUME NEW c \in Calls, LeaveDelete(c) PROVE Joins
    BY <2>3 DEF LeaveDelete, TypeOK
  <2>4. ASSUME UNCHANGED units PROVE Joins
    BY <2>4
  <2>5. ASSUME NEW c \in Calls, JoinStep(c), ~Join(c) PROVE Joins
    BY <2>5, <2>4 DEF JoinStep, JoinRead, JoinCheck
  <2>6. ASSUME NEW c \in Calls, LeaveStep(c), ~Leave(c), ~LeaveDelete(c) PROVE Joins
    BY <2>6, <2>4
    DEF LeaveStep, LeaveRead, LeaveCheck, LeaveSelect, LeaveReadCount, LeaveWriteCount
  <2>7. ASSUME NEW c \in Calls, CallDies(c) PROVE Joins
    BY <2>7, <2>4 DEF CallDies
  <2>8. ASSUME NEW e \in Editors, EditStep(e) PROVE Joins
    BY <2>8, <2>4 DEF EditStep, EditRead, EditWrite, EditDies
  <2>9. CASE LowerMinimum
    BY <2>9, <2>4 DEF LowerMinimum
  <2> QED
    BY <2>1, <2>2, <2>3, <2>5, <2>6, <2>7, <2>8, <2>9 DEF Next
<1> QED
  BY <1>1, TypeCorrect, PTL DEF Spec, JoinsOpenOffer

============================================================================
