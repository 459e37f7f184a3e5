--------------------------- MODULE SessionProofs ---------------------------
(* Proofs about Session: types; and, for one tab, that rotation never races *)
(* itself and that a confirmed logout holds.                                *)
EXTENDS Session, TLAPS

Memory      == [tok : MayBe(Token), user : MayBe(Users), auth : BOOLEAN]
RefreshCall == [st : {"idle", "sent", "answered", "profile"},
                sent : MayBe(Token), ans : MayBe(Token), nav : BOOLEAN]
Logout      == [st : {"idle", "sent", "answered"}, tok : MayBe(Token), ok : BOOLEAN]
Login       == [st : {"idle", "sent", "answered", "profile"}, user : MayBe(Users), ans : MayBe(Token)]

\* TypeOK, with names for its sets of records.
Types ==
  /\ sameSite \in Deployments
  /\ issued \in 0 .. MaxIssue /\ stored \in [Users -> 0 .. MaxIssue]
  /\ live \subseteq Token /\ redeemed \subseteq Token
  /\ jar \in MayBe(Token) /\ ux \in BOOLEAN /\ disk \in [user : MayBe(Users), auth : BOOLEAN]
  /\ mem \in [Tabs -> Memory] /\ page \in [Tabs -> {"login", "app"}]
  /\ due \in [Tabs -> BOOLEAN] /\ goto \in [Tabs -> BOOLEAN]
  /\ refresh \in [Tabs -> RefreshCall] /\ logout \in [Tabs -> Logout] /\ login \in [Tabs -> Login]
  /\ out \in [Tabs -> {"no", "clean", "dirty"}]
  /\ faults \in 0 .. MaxFaults /\ loads \in 0 .. MaxLoads

LEMMA TypesAre == TypeOK <=> Types
BY DEF TypeOK, Types, Memory, RefreshCall, Logout, Login

\* What the helpers put in is of the right type.
LEMMA PutType ==
  ASSUME TypeOK, NEW t \in Tabs, NEW m \in Memory, Put(t, m)
  PROVE  /\ mem' \in [Tabs -> Memory]
         /\ disk' \in [user : MayBe(Users), auth : BOOLEAN]
         /\ due' \in [Tabs -> BOOLEAN]
<1>1. mem' \in [Tabs -> Memory]
  BY DEF Put, TypeOK, Memory
<1>2. disk' \in [user : MayBe(Users), auth : BOOLEAN]
  BY DEF Put, Persisted, Memory
<1>3. due' \in [Tabs -> BOOLEAN]
  BY Zenon DEF Put, TypeOK
<1> QED BY <1>1, <1>2, <1>3

LEMMA EmptyMemory == NoMem \in Memory
BY DEF NoMem, Memory, MayBe

LEMMA AskedType == ASSUME TypeOK, NEW nav \in BOOLEAN PROVE Asked(nav) \in RefreshCall
BY DEF Asked, TypeOK, RefreshCall, MayBe

LEMMA JoinType ==
  ASSUME TypeOK, NEW t \in Tabs, NEW nav \in BOOLEAN, JoinRefresh(t, nav)
  PROVE  refresh' \in [Tabs -> RefreshCall]
<1> DEFINE q == IF refresh[t].st = "idle" THEN Asked(nav) ELSE [refresh[t] EXCEPT !.nav = @ \/ nav]
<1>1. refresh \in [Tabs -> RefreshCall]
  BY DEF TypeOK, RefreshCall
<1>2. q \in RefreshCall
  <2>1. ASSUME NEW b \in BOOLEAN PROVE [refresh[t] EXCEPT !.nav = b] \in RefreshCall
    BY <1>1 DEF RefreshCall
  <2>2. [refresh[t] EXCEPT !.nav = @ \/ nav] \in RefreshCall
    BY <2>1, Zenon
  <2> QED BY <2>2, AskedType
<1>3. refresh' = [refresh EXCEPT ![t] = q]
  BY Zenon DEF JoinRefresh
<1> HIDE DEF q
<1> QED BY <1>1, <1>2, <1>3

\* An answer's record.
LEMMA AnswerType ==
  /\ \A q \in RefreshCall : \A a \in MayBe(Token) : [q EXCEPT !.st = "answered", !.ans = a] \in RefreshCall
  /\ \A q \in Logout : \A b \in BOOLEAN : [q EXCEPT !.st = "answered", !.ok = b] \in Logout
  /\ \A q \in Login : \A a \in MayBe(Token) : [q EXCEPT !.st = "answered", !.ans = a] \in Login
BY DEF RefreshCall, Logout, Login

\* A token issued is a token, and newer than all before it.
LEMMA NewTokenType ==
  ASSUME TypeOK, NEW u \in Users, Issue(u)
  PROVE  /\ issued' \in 0 .. MaxIssue /\ stored' \in [Users -> 0 .. MaxIssue]
         /\ NewToken(u) \in Token /\ NewToken(u) # None
<1>1. issued \in 0 .. MaxIssue /\ stored \in [Users -> 0 .. MaxIssue]
  BY DEF TypeOK
<1>2. issued + 1 \in 1 .. MaxIssue /\ issued + 1 \in 0 .. MaxIssue
  BY <1>1, SessionConstants DEF Issue
<1> QED BY <1>1, <1>2, SessionConstants DEF Issue, NewToken, Token

LEMMA TypeInit == Init => TypeOK
<1> SUFFICES ASSUME Init PROVE TypeOK  OBVIOUS
<1>1. 0 \in 0 .. MaxIssue /\ 0 \in 0 .. MaxFaults /\ 0 \in 0 .. MaxLoads
  BY SessionConstants
<1>2. mem \in [Tabs -> Memory]
  BY EmptyMemory DEF Init
<1>3. refresh \in [Tabs -> RefreshCall]
  BY DEF Init, Idle, RefreshCall, MayBe
<1>4. logout \in [Tabs -> Logout] /\ login \in [Tabs -> Login]
  BY DEF Init, Logout, Login, MayBe
<1>5. jar \in MayBe(Token) /\ disk \in [user : MayBe(Users), auth : BOOLEAN]
  BY DEF Init, MayBe
<1> QED
  BY <1>1, <1>2, <1>3, <1>4, <1>5, SessionConstants DEF Init, TypeOK, Memory, RefreshCall, Logout, Login

\* A login sent is someone's.
Named == \A t \in Tabs : login[t].st = "sent" => login[t].user \in Users

LEMMA NamedStep == ASSUME TypeOK, Named, [Next]_vars PROVE Named'
<1> login \in [Tabs -> Login]  BY DEF TypeOK, Login
<1>1. ASSUME NEW t \in Tabs, NEW u \in Users, SubmitLogin(t, u) PROVE Named'
  BY <1>1 DEF SubmitLogin, Named
<1>2. ASSUME NEW t \in Tabs, NEW q, q.st # "sent", login' = [login EXCEPT ![t] = q] PROVE Named'
  BY <1>2 DEF Named
<1>3. CASE UNCHANGED login
  BY <1>3 DEF Named
<1>4. ASSUME NEW t \in Tabs, ServeLogin(t) PROVE Named'
  <2>1. [login[t] EXCEPT !.st = "answered", !.ans = NewToken(login[t].user)].st # "sent"
    BY DEF Login
  <2> QED BY <1>2, <1>4, <2>1 DEF ServeLogin
<1>5. ASSUME NEW t \in Tabs, LoginDone(t) PROVE Named'
  <2>1. [login[t] EXCEPT !.st = "profile"].st # "sent"  BY DEF Login
  <2> QED BY <1>2, <1>5, <2>1 DEF LoginDone
<1>6. ASSUME NEW t \in Tabs,
             LoginFails(t) \/ LoginProfile(t) \/ \E p \in {"login", "app"} : Load(t, p)
      PROVE  Named'
  BY <1>2, <1>6 DEF LoginFails, LoginProfile, Load
<1>7. ASSUME NEW t \in Tabs, TabStep(t) PROVE Named'
  BY <1>1, <1>3, <1>4, <1>5, <1>6, <1>7 DEF TabStep, LayoutEffect, CallRefused, ServeRefresh,
     LoseRefresh, RefreshDone, RefreshProfile, StartLogout, ServeLogout, LoseLogout, LogoutDone,
     LoginRedirect, Navigate
<1> QED BY <1>3, <1>7 DEF Next, OtherDevice, Expire, vars

LEMMA TypeStep == ASSUME TypeOK, Named, [Next]_vars PROVE TypeOK'
<1>0. Types  BY TypesAre
<1> SUFFICES Types'  BY DEF TypeOK, Types, Memory, RefreshCall, Logout, Login
<1>1. ASSUME NEW t \in Tabs, LayoutEffect(t) PROVE Types'
  <2>1. refresh' \in [Tabs -> RefreshCall]
    BY <1>0, <1>1, JoinType DEF LayoutEffect, Types
  <2> QED BY <1>0, <1>1, <2>1 DEF LayoutEffect, Types
<1>2. ASSUME NEW t \in Tabs, CallRefused(t) PROVE Types'
  <2>1. refresh' \in [Tabs -> RefreshCall]
    BY <1>2, JoinType DEF CallRefused
  <2> QED BY <1>0, <1>2, <2>1 DEF CallRefused, Types
<1>3. ASSUME NEW t \in Tabs, ServeRefresh(t) PROVE Types'
  <2> DEFINE c == refresh[t].sent
  <2>1. ASSUME Accepted(c), Issue(c.user), live' = live \cup {NewToken(c.user)},
               redeemed' = redeemed \cup {c},
               refresh' = [refresh EXCEPT ![t] = [@ EXCEPT !.st = "answered", !.ans = NewToken(c.user)]]
        PROVE  Types'
    <3>1. c \in Token /\ c.user \in Users
      BY <1>0, <2>1 DEF Types, Accepted, RefreshCall, MayBe, Token
    <3>2. /\ issued' \in 0 .. MaxIssue /\ stored' \in [Users -> 0 .. MaxIssue]
          /\ NewToken(c.user) \in Token
      BY <3>1, <2>1, NewTokenType
    <3>3. refresh' \in [Tabs -> RefreshCall]
      <4> HIDE DEF c
      <4>1. NewToken(c.user) \in MayBe(Token)  BY <3>2 DEF MayBe
      <4> QED BY <1>0, <2>1, <4>1, AnswerType DEF Types
    <3> HIDE DEF c
    <3> QED BY <1>0, <1>3, <2>1, <3>1, <3>2, <3>3 DEF ServeRefresh, Types
  <2>2. ASSUME refresh' = [refresh EXCEPT ![t].st = "answered"],
               UNCHANGED <<issued, stored, live, redeemed>>
        PROVE  Types'
    <3>1. refresh' \in [Tabs -> RefreshCall]
      BY <1>0, <2>2 DEF Types, RefreshCall
    <3> QED BY <1>0, <1>3, <2>2, <3>1 DEF ServeRefresh, Types
  <2> QED BY <1>3, <2>1, <2>2 DEF ServeRefresh
<1>4. ASSUME NEW t \in Tabs, LoseRefresh(t) PROVE Types'
  <2>1. refresh' \in [Tabs -> RefreshCall]
    <3>1. None \in MayBe(Token)  BY DEF MayBe
    <3> QED BY <1>0, <1>4, <3>1, AnswerType DEF LoseRefresh, Types
  <2>2. faults' \in 0 .. MaxFaults
    BY <1>0, <1>4, SessionConstants DEF LoseRefresh, Types
  <2> QED BY <1>0, <1>4, <2>1, <2>2 DEF LoseRefresh, Types
<1>5. ASSUME NEW t \in Tabs, RefreshDone(t) PROVE Types'
  <2>1. refresh[t] \in RefreshCall /\ mem[t] \in Memory  BY <1>0 DEF Types
  <2>2. CASE refresh[t].ans # None
    <3>1. refresh[t].ans \in Token /\ jar' \in MayBe(Token)
      BY <1>5, <2>1, <2>2 DEF RefreshDone, RefreshCall, MayBe
    <3>2. [mem[t] EXCEPT !.tok = refresh[t].ans, !.auth = TRUE] \in Memory
      BY <2>1, <3>1 DEF Memory, MayBe
    <3>3. refresh' \in [Tabs -> RefreshCall]
      <4>1. Idle \in RefreshCall  BY DEF Idle, RefreshCall, MayBe
      <4>2. [refresh[t] EXCEPT !.st = "profile"] \in RefreshCall  BY <2>1 DEF RefreshCall
      <4> QED BY <1>0, <1>5, <2>2, <4>1, <4>2 DEF RefreshDone, Types
    <3>4. Put(t, [mem[t] EXCEPT !.tok = refresh[t].ans, !.auth = TRUE])
      BY <1>5, <2>2 DEF RefreshDone
    <3> QED BY <1>0, <1>5, <2>2, <3>1, <3>2, <3>3, <3>4, PutType DEF RefreshDone, Types
  <2>3. CASE refresh[t].ans = None
    <3>1. Put(t, NoMem) /\ ux' = FALSE
      BY <1>5, <2>3 DEF RefreshDone, ClearAuth
    <3>2. goto' \in [Tabs -> BOOLEAN]
      BY <1>0, <1>5, <2>3, Zenon DEF RefreshDone, Types
    <3>3. refresh' \in [Tabs -> RefreshCall]
      <4>1. Idle \in RefreshCall  BY DEF Idle, RefreshCall, MayBe
      <4> QED BY <1>0, <1>5, <2>3, <4>1 DEF RefreshDone, Types
    <3> QED BY <1>0, <1>5, <2>3, <3>1, <3>2, <3>3, PutType, EmptyMemory DEF RefreshDone, Types
  <2> QED BY <2>2, <2>3
<1>6. ASSUME NEW t \in Tabs, RefreshProfile(t) PROVE Types'
  <2>1. refresh[t] \in RefreshCall /\ mem[t] \in Memory  BY <1>0 DEF Types
  <2>2. refresh' \in [Tabs -> RefreshCall]
    <3>1. Idle \in RefreshCall  BY DEF Idle, RefreshCall, MayBe
    <3> QED BY <1>0, <1>6, <3>1 DEF RefreshProfile, Types
  <2>3. ASSUME refresh[t].ans \in live, Put(t, [mem[t] EXCEPT !.user = refresh[t].ans.user])
        PROVE  Types'
    <3>1. refresh[t].ans.user \in Users  BY <1>0, <2>3 DEF Types, Token
    <3>2. [mem[t] EXCEPT !.user = refresh[t].ans.user] \in Memory
      BY <2>1, <3>1 DEF Memory, MayBe
    <3> QED BY <1>0, <1>6, <2>2, <2>3, <3>2, PutType DEF RefreshProfile, Types
  <2>4. ASSUME UNCHANGED <<mem, disk, due>> PROVE Types'
    BY <1>0, <1>6, <2>2, <2>4 DEF RefreshProfile, Types
  <2> QED BY <1>6, <2>3, <2>4 DEF RefreshProfile
<1>7. ASSUME NEW t \in Tabs, StartLogout(t) PROVE Types'
  <2>1. mem[t].tok \in MayBe(Token)  BY <1>0 DEF Types, Memory
  <2>2. logout' \in [Tabs -> Logout]
    BY <1>0, <1>7, <2>1 DEF StartLogout, Types, Logout
  <2> QED BY <1>0, <1>7, <2>2 DEF StartLogout, Types
<1>8. ASSUME NEW t \in Tabs, ServeLogout(t) PROVE Types'
  <2>1. logout' \in [Tabs -> Logout]
    <3>1. [logout[t] EXCEPT !.st = "answered"] \in Logout  BY <1>0 DEF Types, Logout
    <3>2. [logout[t] EXCEPT !.st = "answered", !.ok = TRUE] \in Logout
      BY <1>0, AnswerType DEF Types
    <3>3. CASE logout[t].tok \in live
      BY <1>0, <1>8, <3>2, <3>3 DEF ServeLogout, Types
    <3>4. CASE logout[t].tok \notin live
      BY <1>0, <1>8, <3>1, <3>4 DEF ServeLogout, Types
    <3> QED BY <3>3, <3>4
  <2>2. stored' \in [Users -> 0 .. MaxIssue]
    BY <1>0, <1>8, SessionConstants DEF ServeLogout, Types
  <2> QED BY <1>0, <1>8, <2>1, <2>2 DEF ServeLogout, Types
<1>9. ASSUME NEW t \in Tabs, LoseLogout(t) PROVE Types'
  <2>1. logout' \in [Tabs -> Logout]
    BY <1>0, <1>9, AnswerType DEF LoseLogout, Types
  <2>2. faults' \in 0 .. MaxFaults
    BY <1>0, <1>9, SessionConstants DEF LoseLogout, Types
  <2> QED BY <1>0, <1>9, <2>1, <2>2 DEF LoseLogout, Types
<1>10. ASSUME NEW t \in Tabs, LogoutDone(t) PROVE Types'
  <2>1. Put(t, NoMem) /\ ux' = FALSE  BY <1>10 DEF LogoutDone, ClearAuth
  <2>2. jar' \in MayBe(Token)  BY <1>0, <1>10 DEF LogoutDone, Types, MayBe
  <2>3. logout' \in [Tabs -> Logout]
    BY <1>0, <1>10 DEF LogoutDone, Types, Logout, MayBe
  <2>4. out' \in [Tabs -> {"no", "clean", "dirty"}] /\ goto' \in [Tabs -> BOOLEAN]
    BY <1>0, <1>10 DEF LogoutDone, Types
  <2> QED BY <1>0, <1>10, <2>1, <2>2, <2>3, <2>4, PutType, EmptyMemory DEF LogoutDone, Types
<1>11. ASSUME NEW t \in Tabs, NEW u \in Users, SubmitLogin(t, u) PROVE Types'
  <2>1. login' \in [Tabs -> Login]
    BY <1>0, <1>11 DEF SubmitLogin, Types, Login, MayBe
  <2> QED BY <1>0, <1>11, <2>1 DEF SubmitLogin, Types
<1>12. ASSUME NEW t \in Tabs, ServeLogin(t) PROVE Types'
  <2> DEFINE u == login[t].user
  <2>1. login[t] \in Login /\ u \in Users
    BY <1>0, <1>12 DEF ServeLogin, Types, Named
  <2>2. /\ issued' \in 0 .. MaxIssue /\ stored' \in [Users -> 0 .. MaxIssue]
        /\ NewToken(u) \in Token
    BY <1>12, <2>1, NewTokenType DEF ServeLogin
  <2>3. login' \in [Tabs -> Login]
    <3>1. login' = [login EXCEPT ![t] = [@ EXCEPT !.st = "answered", !.ans = NewToken(u)]]
      BY <1>12 DEF ServeLogin
    <3> HIDE DEF u
    <3> QED BY <1>0, <2>1, <2>2, <3>1 DEF Types, Login, MayBe
  <2>4. live' = live \cup {NewToken(u)}
    BY <1>12 DEF ServeLogin
  <2> HIDE DEF u
  <2> QED BY <1>0, <1>12, <2>2, <2>3, <2>4 DEF ServeLogin, Types
<1>13. ASSUME NEW t \in Tabs, LoginFails(t) PROVE Types'
  <2>1. login' \in [Tabs -> Login]
    BY <1>0, <1>13 DEF LoginFails, Types, Login, MayBe
  <2>2. faults' \in 0 .. MaxFaults
    BY <1>0, <1>13, SessionConstants DEF LoginFails, Types
  <2> QED BY <1>0, <1>13, <2>1, <2>2 DEF LoginFails, Types
<1>14. ASSUME NEW t \in Tabs, LoginDone(t) PROVE Types'
  <2>1. login[t] \in Login /\ mem[t] \in Memory  BY <1>0 DEF Types
  <2>2. [mem[t] EXCEPT !.tok = login[t].ans, !.auth = TRUE] \in Memory
    BY <2>1 DEF Memory, Login
  <2>3. login' \in [Tabs -> Login]
    BY <1>0, <1>14 DEF LoginDone, Types, Login
  <2>4. Put(t, [mem[t] EXCEPT !.tok = login[t].ans, !.auth = TRUE]) /\ jar' \in MayBe(Token)
    BY <1>14, <2>1 DEF LoginDone, Login
  <2>5. out' \in [Tabs -> {"no", "clean", "dirty"}]
    BY <1>0, <1>14 DEF LoginDone, Types
  <2> QED BY <1>0, <1>14, <2>2, <2>3, <2>4, <2>5, PutType DEF LoginDone, Types
<1>15. ASSUME NEW t \in Tabs, LoginProfile(t) PROVE Types'
  <2>1. login[t] \in Login /\ mem[t] \in Memory  BY <1>0 DEF Types
  <2>2. PICK m \in {mem[t]} \cup
          (IF login[t].ans \in live
           THEN {[mem[t] EXCEPT !.user = login[t].ans.user, !.auth = TRUE]} ELSE {}) :
               mem' = [mem EXCEPT ![t] = m] /\ disk' = Persisted(m)
    BY <1>15 DEF LoginProfile
  <2>3. m \in Memory
    <3>1. CASE login[t].ans \in live
      <4>1. login[t].ans.user \in Users  BY <1>0, <3>1 DEF Types, Token
      <4> QED BY <2>1, <2>2, <4>1 DEF Memory, MayBe
    <3>2. CASE login[t].ans \notin live
      BY <2>1, <2>2, <3>2
    <3> QED BY <3>1, <3>2
  <2>4. mem' \in [Tabs -> Memory] /\ disk' \in [user : MayBe(Users), auth : BOOLEAN]
    <3>1. Persisted(m) \in [user : MayBe(Users), auth : BOOLEAN]
      BY <2>3 DEF Persisted, Memory
    <3> QED BY <1>0, <2>2, <2>3, <3>1 DEF Types
  <2>5. login' \in [Tabs -> Login]
    BY <1>0, <1>15 DEF LoginProfile, Types, Login, MayBe
  <2>6. page' \in [Tabs -> {"login", "app"}] /\ due' \in [Tabs -> BOOLEAN] /\ goto' \in [Tabs -> BOOLEAN]
    BY <1>0, <1>15 DEF LoginProfile, Types, Route
  <2> QED BY <1>0, <1>15, <2>4, <2>5, <2>6 DEF LoginProfile, Types
<1>16. ASSUME NEW t \in Tabs, LoginRedirect(t) PROVE Types'
  BY <1>0, <1>16 DEF LoginRedirect, Types
<1>17. ASSUME NEW t \in Tabs, Navigate(t) PROVE Types'
  <2>1. page' \in [Tabs -> {"login", "app"}] /\ goto' \in [Tabs -> BOOLEAN]
    BY <1>0, <1>17 DEF Navigate, Types, Route
  <2>2. due' \in [Tabs -> BOOLEAN]
    BY <1>0, <1>17, Zenon DEF Navigate, Types
  <2> QED BY <1>0, <1>17, <2>1, <2>2 DEF Navigate, Types
<1>18. ASSUME NEW t \in Tabs, NEW p \in {"login", "app"}, Load(t, p) PROVE Types'
  <2>1. [tok |-> None, user |-> disk.user, auth |-> disk.auth] \in Memory
    BY <1>0 DEF Types, Memory, MayBe
  <2>2. mem' \in [Tabs -> Memory]
    BY <1>0, <1>18, <2>1 DEF Load, Types
  <2>3. page' \in [Tabs -> {"login", "app"}] /\ goto' \in [Tabs -> BOOLEAN]
    BY <1>0, <1>18 DEF Load, Types, Route
  <2>4. due' \in [Tabs -> BOOLEAN]
    BY <1>0, <1>18, Zenon DEF Load, Types
  <2>5. refresh' \in [Tabs -> RefreshCall]
    <3>1. Idle \in RefreshCall  BY DEF Idle, RefreshCall, MayBe
    <3> QED BY <1>0, <1>18, <3>1, AskedType DEF Load, Types
  <2>6. logout' \in [Tabs -> Logout] /\ login' \in [Tabs -> Login]
    BY <1>0, <1>18 DEF Load, Types, Logout, Login, MayBe
  <2>7. faults' \in 0 .. MaxFaults /\ loads' \in 0 .. MaxLoads
    BY <1>0, <1>18, SessionConstants DEF Load, Types
  <2> QED BY <1>0, <1>18, <2>2, <2>3, <2>4, <2>5, <2>6, <2>7 DEF Load, Types
<1>19. ASSUME NEW u \in Users, OtherDevice(u) PROVE Types'
  BY <1>0, <1>19, NewTokenType DEF OtherDevice, Types
<1>20. ASSUME NEW k \in live, Expire(k) PROVE Types'
  BY <1>0, <1>20 DEF Expire, Types
<1>21. CASE UNCHANGED vars
  BY <1>0, <1>21 DEF vars, Types
<1> QED
  BY <1>1, <1>2, <1>3, <1>4, <1>5, <1>6, <1>7, <1>8, <1>9, <1>10, <1>11, <1>12, <1>13, <1>14,
     <1>15, <1>16, <1>17, <1>18, <1>19, <1>20, <1>21 DEF Next, TabStep

LEMMA TypedAndNamed == Spec => [](TypeOK /\ Named)
<1>1. Init => Named  BY DEF Init, Named
<1> QED BY <1>1, TypeInit, NamedStep, TypeStep, PTL DEF Spec

\* Everything in the browser and at the backend keeps its type (the store, the cookies).
THEOREM TypeCorrect == Spec => []TypeOK
BY TypedAndNamed, PTL

----------------------------------------------------------------------------
(* One tab. Two tabs of a browser share the cookie, and each has a refresh of its own. *)

OneTab == \A s, t \in Tabs : s = t

\* After a confirmed logout nothing is left that could sign the tab in: no token, no
\* cookie, no refresh that carries or has brought one.
SignedOut(t) ==
  /\ mem[t].tok = None /\ jar = None
  /\ \/ refresh[t].st = "idle"
     \/ refresh[t].st = "sent" /\ refresh[t].sent = None /\ refresh[t].ans = None
     \/ refresh[t].st = "answered" /\ refresh[t].ans = None

LogoutInv == \A t \in Tabs : out[t] = "clean" => SignedOut(t)


LEMMA LogoutStep == ASSUME OneTab, TypeOK, LogoutInv, [Next]_vars PROVE LogoutInv'
<1>0. Types  BY TypesAre
<1> SUFFICES ASSUME NEW t \in Tabs, out'[t] = "clean" PROVE SignedOut(t)'
  BY DEF LogoutInv
<1>a. out[t] = "clean" => SignedOut(t)  BY DEF LogoutInv
<1>b. \A s \in Tabs : s = t  BY DEF OneTab
<1>1. ASSUME LayoutEffect(t) PROVE SignedOut(t)'
  BY <1>0, <1>1, <1>a DEF LayoutEffect, JoinRefresh, Asked, SignedOut, Types, RefreshCall
<1>2. ASSUME CallRefused(t) PROVE SignedOut(t)'
  BY <1>2, <1>a DEF CallRefused, SignedOut
<1>3. ASSUME ServeRefresh(t) PROVE SignedOut(t)'
  BY <1>0, <1>3, <1>a DEF ServeRefresh, Accepted, SignedOut, Types, RefreshCall
<1>4. ASSUME LoseRefresh(t) PROVE SignedOut(t)'
  BY <1>0, <1>4, <1>a DEF LoseRefresh, SignedOut, Types, RefreshCall
<1>5. ASSUME RefreshDone(t) PROVE SignedOut(t)'
  BY <1>0, <1>5, <1>a DEF RefreshDone, ClearAuth, Put, NoMem, Idle, SignedOut, Types
<1>6. ASSUME RefreshProfile(t) PROVE SignedOut(t)'
  BY <1>6, <1>a DEF RefreshProfile, SignedOut
<1>7. ASSUME LogoutDone(t) PROVE SignedOut(t)'
  BY <1>0, <1>7, <1>a DEF LogoutDone, ClearAuth, Put, NoMem, SignedOut, Types
<1>8. ASSUME LoginDone(t) PROVE SignedOut(t)'
  BY <1>0, <1>8 DEF LoginDone, Types
<1>9. ASSUME LoginProfile(t) PROVE SignedOut(t)'
  <2> DEFINE named == [mem[t] EXCEPT !.user = login[t].ans.user, !.auth = TRUE]
  <2>1. mem' = [mem EXCEPT ![t] = mem[t]] \/ mem' = [mem EXCEPT ![t] = named]
    BY <1>9 DEF LoginProfile
  <2>2. named.tok = mem[t].tok  BY <1>0 DEF Types, Memory
  <2> HIDE DEF named
  <2>3. mem'[t].tok = mem[t].tok  BY <1>0, <2>1, <2>2 DEF Types
  <2> QED BY <1>9, <1>a, <2>3 DEF LoginProfile, SignedOut
<1>10. ASSUME NEW p \in {"login", "app"}, Load(t, p) PROVE SignedOut(t)'
  BY <1>0, <1>10, <1>a DEF Load, Asked, Idle, SignedOut, Types
<1>11. CASE UNCHANGED <<mem, jar, refresh, out>>
  BY <1>11, <1>a DEF SignedOut
<1>12. ASSUME TabStep(t) PROVE SignedOut(t)'
  BY <1>1, <1>2, <1>3, <1>4, <1>5, <1>6, <1>7, <1>8, <1>9, <1>10, <1>11, <1>12 DEF TabStep,
     StartLogout, ServeLogout, LoseLogout, SubmitLogin, ServeLogin, LoginFails, LoginRedirect, Navigate
<1> QED
  BY <1>b, <1>11, <1>12 DEF Next, OtherDevice, Expire, vars

\* A tab whose logout the backend confirmed stays signed out until someone signs in,
\* whatever effects, reloads and answers follow (clearAuth, the logout of authStore).
THEOREM LogoutStays == ASSUME OneTab PROVE Spec => []LogoutHolds
<1>1. Init => LogoutInv  BY DEF Init, LogoutInv
<1>2. LogoutInv => LogoutHolds  BY DEF LogoutInv, SignedOut, LogoutHolds
<1>3. TypeOK /\ LogoutInv /\ [Next]_vars => LogoutInv'  BY LogoutStep
<1> QED BY <1>1, <1>2, <1>3, TypeCorrect, PTL DEF Spec

\* A token the backend has issued by now.
Known(k) == k # None => k.id \in 1 .. issued

\* The browser's cookie is exchanged only while the answer that replaces it is on its way;
\* what is sent, and what an answer will put into the cookie, is not.
Rotation(t) ==
  /\ jar \in redeemed => refresh[t].st = "answered" /\ refresh[t].ans # None
  /\ refresh[t].st = "sent" => refresh[t].ans = None /\ refresh[t].sent \notin redeemed
  /\ refresh[t].st = "answered" => refresh[t].ans \notin redeemed
  /\ login[t].st = "answered" =>
       /\ login[t].ans # None /\ login[t].ans \notin redeemed
       /\ login[t].ans # jar /\ login[t].ans # refresh[t].sent /\ login[t].ans # refresh[t].ans
  /\ Known(jar) /\ Known(refresh[t].sent) /\ Known(refresh[t].ans) /\ Known(login[t].ans)
  /\ \A k \in redeemed : Known(k)

RotationInv == faults = 0 => \A t \in Tabs : Rotation(t)

LEMMA RotationInit == Init => RotationInv
<1> SUFFICES ASSUME Init, NEW t \in Tabs PROVE Rotation(t)
  BY DEF RotationInv
<1>1. refresh[t].st = "idle" /\ refresh[t].sent = None /\ refresh[t].ans = None
  BY DEF Init, Idle
<1>2. login[t].st = "idle" /\ login[t].ans = None /\ jar = None /\ redeemed = {}
  BY DEF Init
<1> QED BY <1>1, <1>2 DEF Rotation, Known

LEMMA RotationStep == ASSUME OneTab, TypeOK, Named, RotationInv, [Next]_vars PROVE RotationInv'
<1>0. Types  BY TypesAre
<1> SUFFICES ASSUME faults' = 0, NEW t \in Tabs PROVE Rotation(t)'
  BY DEF RotationInv
<1>a. faults \in Nat /\ issued \in Nat
  BY <1>0, SessionConstants DEF Types
<1>b. \A s \in Tabs : s = t  BY DEF OneTab
<1>c. faults = 0 => Rotation(t)  BY DEF RotationInv
<1>f. None \notin redeemed
  BY <1>0, SessionConstants DEF Types, Token
<1> DEFINE Kept  == /\ refresh'[t].st = refresh[t].st /\ refresh'[t].sent = refresh[t].sent
                    /\ refresh'[t].ans = refresh[t].ans
           Asks  == refresh'[t].st = "sent" /\ refresh'[t].sent = jar /\ refresh'[t].ans = None
           LoginKept == login'[t].st = login[t].st /\ login'[t].ans = login[t].ans
<1>d. ASSUME NEW nav \in BOOLEAN, JoinRefresh(t, nav)
      PROVE  Kept \/ (Asks /\ refresh[t].st = "idle")
  BY <1>0, <1>d DEF JoinRefresh, Asked, Types, RefreshCall
<1>e. ASSUME Kept \/ (Asks /\ refresh[t].st = "idle"), LoginKept,
             UNCHANGED <<issued, jar, redeemed, faults>>
      PROVE  Rotation(t)'
  BY <1>c, <1>e DEF Rotation, Known
<1>1. ASSUME LayoutEffect(t) PROVE Rotation(t)'
  BY <1>1, <1>d, <1>e DEF LayoutEffect
<1>2. ASSUME CallRefused(t) PROVE Rotation(t)'
  BY <1>2, <1>d, <1>e DEF CallRefused
<1>3. ASSUME ServeRefresh(t) PROVE Rotation(t)'
  <2> DEFINE c == refresh[t].sent
  <2>0. faults = 0 /\ refresh[t].st = "sent" /\ UNCHANGED <<jar, login>>
    BY <1>3 DEF ServeRefresh
  <2>1. ASSUME Accepted(c), Issue(c.user), redeemed' = redeemed \cup {c},
               refresh' = [refresh EXCEPT ![t] = [@ EXCEPT !.st = "answered", !.ans = NewToken(c.user)]]
        PROVE  Rotation(t)'
    <3>1. refresh'[t] = [refresh[t] EXCEPT !.st = "answered", !.ans = NewToken(c.user)]
      BY <1>0, <2>1 DEF Types
    <3>2. /\ refresh'[t].st = "answered" /\ refresh'[t].ans = NewToken(c.user)
          /\ refresh'[t].sent = refresh[t].sent
      BY <1>0, <3>1 DEF Types, RefreshCall
    <3>3. c \in Token /\ c.user \in Users
      BY <1>0, <2>1 DEF Types, Accepted, RefreshCall, MayBe, Token
    <3>4. NewToken(c.user).id = issued + 1 /\ NewToken(c.user) # None /\ issued' = issued + 1
      BY <2>1, <3>3, NewTokenType DEF NewToken, Issue
    <3>5. \A k : Known(k) => k # NewToken(c.user)
      BY <1>a, <3>4 DEF Known
    <3> HIDE DEF c
    <3>6. c = refresh[t].sent  BY DEF c
    <3> QED BY <1>a, <1>c, <2>0, <2>1, <3>2, <3>4, <3>5, <3>6 DEF Rotation, Known
  <2>2. ASSUME refresh' = [refresh EXCEPT ![t].st = "answered"], UNCHANGED <<issued, redeemed>>
        PROVE  Rotation(t)'
    <3>1. /\ refresh'[t].st = "answered" /\ refresh'[t].ans = refresh[t].ans
          /\ refresh'[t].sent = refresh[t].sent
      BY <1>0, <2>2 DEF Types, RefreshCall
    <3> QED BY <1>c, <1>f, <2>0, <2>2, <3>1 DEF Rotation, Known
  <2> QED BY <1>3, <2>1, <2>2 DEF ServeRefresh
<1>4. ASSUME LoseRefresh(t) \/ LoseLogout(t) \/ LoginFails(t) PROVE Rotation(t)'
  BY <1>4, <1>a DEF LoseRefresh, LoseLogout, LoginFails
<1>5. ASSUME RefreshDone(t) PROVE Rotation(t)'
  <2>0. faults = 0 /\ refresh[t].st = "answered" /\ UNCHANGED <<issued, login, redeemed>>
    BY <1>5 DEF RefreshDone
  <2>1. jar' = IF refresh[t].ans # None THEN refresh[t].ans ELSE jar
    BY <1>5 DEF RefreshDone
  <2>2. \/ /\ refresh'[t].st = "profile" /\ refresh'[t].sent = refresh[t].sent
           /\ refresh'[t].ans = refresh[t].ans
        \/ refresh'[t].st = "idle" /\ refresh'[t].sent = None /\ refresh'[t].ans = None
    BY <1>0, <1>5 DEF RefreshDone, Idle, Types, RefreshCall
  <2> QED BY <1>c, <2>0, <2>1, <2>2 DEF Rotation, Known
<1>6. ASSUME RefreshProfile(t) PROVE Rotation(t)'
  <2>1. refresh'[t].st = "idle" /\ refresh'[t].sent = None /\ refresh'[t].ans = None
    BY <1>0, <1>6 DEF RefreshProfile, Idle, Types
  <2> QED BY <1>6, <1>c, <2>1 DEF RefreshProfile, Rotation, Known
<1>7. ASSUME LogoutDone(t) PROVE Rotation(t)'
  BY <1>7, <1>c, <1>f DEF LogoutDone, Rotation, Known
<1>8. ASSUME NEW u \in Users, SubmitLogin(t, u) PROVE Rotation(t)'
  <2>1. login'[t].st = "sent" /\ login'[t].ans = None
    BY <1>0, <1>8 DEF SubmitLogin, Types
  <2> QED BY <1>8, <1>c, <2>1 DEF SubmitLogin, Rotation, Known
<1>9. ASSUME ServeLogin(t) PROVE Rotation(t)'
  <2> DEFINE u == login[t].user
  <2>1. login[t].st = "sent" /\ Issue(u) /\ UNCHANGED <<jar, refresh, redeemed, faults>>
    BY <1>9 DEF ServeLogin
  <2>2. login'[t].st = "answered" /\ login'[t].ans = NewToken(u)
    BY <1>0, <1>9 DEF ServeLogin, Types, Login
  <2>3. NewToken(u).id = issued + 1 /\ issued' = issued + 1
    BY <2>1 DEF NewToken, Issue
  <2>4. NewToken(u) # None
    BY <2>1, NewTokenType DEF Named
  <2> HIDE DEF u
  <2>5. \A k : Known(k) => k # NewToken(u)
    BY <1>a, <2>3, <2>4 DEF Known
  <2> QED BY <1>a, <1>c, <2>1, <2>2, <2>3, <2>5 DEF Rotation, Known
<1>10. ASSUME LoginDone(t) PROVE Rotation(t)'
  <2>1. login'[t].st = "profile" /\ login'[t].ans = login[t].ans
    BY <1>0, <1>10 DEF LoginDone, Types, Login
  <2> QED BY <1>10, <1>c, <2>1 DEF LoginDone, Rotation, Known
<1>11. ASSUME LoginProfile(t) PROVE Rotation(t)'
  <2>1. login'[t].st = "idle" /\ login'[t].ans = None
    BY <1>0, <1>11 DEF LoginProfile, Types
  <2> QED BY <1>11, <1>c, <2>1 DEF LoginProfile, Rotation, Known
<1>12. ASSUME NEW p \in {"login", "app"}, Load(t, p) PROVE Rotation(t)'
  <2>1. login'[t].st = "idle" /\ login'[t].ans = None
    BY <1>0, <1>12 DEF Load, Types
  <2>2. Asks \/ (refresh'[t].st = "idle" /\ refresh'[t].sent = None /\ refresh'[t].ans = None)
    BY <1>0, <1>12 DEF Load, Asked, Idle, Types
  <2>3. faults = 0 /\ ~(refresh[t].st = "answered" /\ refresh[t].ans # None)
    BY <1>12, <1>a DEF Load
  <2>4. UNCHANGED <<issued, jar, redeemed>>  BY <1>12 DEF Load
  <2> QED BY <1>c, <1>f, <2>1, <2>2, <2>3, <2>4 DEF Rotation, Known
<1>13. ASSUME NEW u \in Users, OtherDevice(u) PROVE Rotation(t)'
  BY <1>0, <1>a, <1>c, <1>13 DEF OtherDevice, Issue, Rotation, Known, Types, RefreshCall, Login, MayBe, Token
<1>14. CASE UNCHANGED <<issued, jar, refresh, login, redeemed, faults>>
  BY <1>14, <1>c DEF Rotation, Known
<1>15. ASSUME TabStep(t) PROVE Rotation(t)'
  BY <1>1, <1>2, <1>3, <1>4, <1>5, <1>6, <1>7, <1>8, <1>9, <1>10, <1>11, <1>12, <1>14, <1>15
     DEF TabStep, StartLogout, ServeLogout, LoginRedirect, Navigate
<1> QED BY <1>b, <1>13, <1>14, <1>15 DEF Next, Expire, vars

LEMMA RotationGives == TypeOK /\ RotationInv => NoReplay
<1> SUFFICES ASSUME TypeOK, RotationInv, faults = 0 PROVE NoReplay
  BY SessionConstants DEF TypeOK, NoReplay
<1> QED
  BY DEF RotationInv, Rotation, NoReplay

\* A tab presents no refresh token it has exchanged before, unless an answer was lost: the
\* shared promise of refreshAccessToken keeps its callers from racing one another.
THEOREM RotationIsOrderly == ASSUME OneTab PROVE Spec => []NoReplay
<1>1. TypeOK /\ Named /\ RotationInv /\ [Next]_vars => RotationInv'
  BY RotationStep
<1> QED
  BY <1>1, RotationGives, RotationInit, TypedAndNamed, PTL DEF Spec

============================================================================
