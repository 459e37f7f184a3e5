------------------------------ MODULE Session ------------------------------
(***************************************************************************)
(* The sign-in state of the web application: the in-memory auth store of   *)
(* each tab, what all tabs of the browser share (the two cookies and       *)
(* localStorage), the route middleware, the layouts that guard the signed- *)
(* in pages, and the backend's session records as the clients use them.    *)
(*                                                                         *)
(* A request is sent, served and answered in separate steps; between two   *)
(* of them anything else may happen, and an answer may be lost.            *)
(***************************************************************************)
EXTENDS Naturals

CONSTANTS
  Tabs,         \* the tabs of one browser
  Users,
  None,
  Deployments,  \* subset of BOOLEAN: TRUE, the backend's cookies reach the middleware
  MaxIssue,     \* bound on the sessions the backend issues
  MaxFaults,    \* bound on lost answers
  MaxLoads      \* bound on full page loads

ASSUME SessionConstants ==
  /\ Deployments \subseteq BOOLEAN
  /\ MaxIssue \in Nat
  /\ MaxFaults \in Nat
  /\ MaxLoads \in Nat
  /\ None \notin [user : Users, id : 1 .. MaxIssue]

VARIABLES
  sameSite,  \* the refresh cookie is sent to the web server too
  issued,    \* sessions issued so far; a session's number names both its tokens
  stored,    \* backend: the one refresh token it accepts for each user, 0 if none
  live,      \* access tokens neither expired nor denied
  jar,       \* the refresh_token cookie
  ux,        \* the groupio-auth cookie is there (it says isAuthenticated)
  disk,      \* what the store persists in localStorage
  mem,       \* the auth store of each tab
  page,      \* "login", or "app": a page under a guarding layout
  due,       \* the layout's token effect is scheduled
  goto,      \* a client navigation to /login is under way
  refresh, logout, login,  \* the requests of each tab
  out,       \* history: how the tab's last logout ended
  redeemed,  \* history: refresh tokens the backend has exchanged
  faults,    \* history: answers lost so far
  loads      \* history: page loads so far

vars == <<sameSite, issued, stored, live, jar, ux, disk, mem, page, due, goto,
          refresh, logout, login, out, redeemed, faults, loads>>

Token   == [user : Users, id : 1 .. MaxIssue]
MayBe(S) == S \cup {None}

NoMem   == [tok |-> None, user |-> None, auth |-> FALSE]
Idle    == [st |-> "idle", sent |-> None, ans |-> None, nav |-> FALSE]

TypeOK ==
  /\ sameSite \in Deployments
  /\ issued \in 0 .. MaxIssue
  /\ stored \in [Users -> 0 .. MaxIssue]
  /\ live \subseteq Token
  /\ jar \in MayBe(Token)
  /\ ux \in BOOLEAN
  /\ disk \in [user : MayBe(Users), auth : BOOLEAN]
  /\ mem \in [Tabs -> [tok : MayBe(Token), user : MayBe(Users), auth : BOOLEAN]]
  /\ page \in [Tabs -> {"login", "app"}]
  /\ due \in [Tabs -> BOOLEAN]
  /\ goto \in [Tabs -> BOOLEAN]
  /\ refresh \in [Tabs -> [st : {"idle", "sent", "answered", "profile"},
                           sent : MayBe(Token), ans : MayBe(Token), nav : BOOLEAN]]
  /\ logout \in [Tabs -> [st : {"idle", "sent", "answered"}, tok : MayBe(Token), ok : BOOLEAN]]
  /\ login \in [Tabs -> [st : {"idle", "sent", "answered", "profile"},
                         user : MayBe(Users), ans : MayBe(Token)]]
  /\ out \in [Tabs -> {"no", "clean", "dirty"}]
  /\ redeemed \subseteq Token
  /\ faults \in 0 .. MaxFaults
  /\ loads \in 0 .. MaxLoads

Init ==
  /\ sameSite \in Deployments
  /\ issued = 0 /\ stored = [u \in Users |-> 0] /\ live = {}
  /\ jar = None /\ ux = FALSE
  /\ disk = [user |-> None, auth |-> FALSE]
  /\ mem = [t \in Tabs |-> NoMem]
  /\ page = [t \in Tabs |-> "login"]
  /\ due = [t \in Tabs |-> FALSE]
  /\ goto = [t \in Tabs |-> FALSE]
  /\ refresh = [t \in Tabs |-> Idle]
  /\ logout = [t \in Tabs |-> [st |-> "idle", tok |-> None, ok |-> FALSE]]
  /\ login = [t \in Tabs |-> [st |-> "idle", user |-> None, ans |-> None]]
  /\ out = [t \in Tabs |-> "no"]
  /\ redeemed = {} /\ faults = 0 /\ loads = 0

----------------------------------------------------------------------------
(* Helpers. *)

\* The middleware's isAuthenticated.
Authed(j, c) == (sameSite /\ j # None) \/ c

\* Where a navigation to p ends, given both cookies.
Route(p, j, c) ==
  IF p = "app" THEN IF Authed(j, c) THEN "app" ELSE "login"
               ELSE IF Authed(j, c) THEN "app" ELSE "login"

\* Every set() of a store writes its user and flag to localStorage.
Persisted(m) == [user |-> m.user, auth |-> m.auth]

\* set() of a tab's store; a guarding layout reacts to a changed token.
Put(t, m) ==
  /\ mem' = [mem EXCEPT ![t] = m]
  /\ disk' = Persisted(m)
  /\ due' = [due EXCEPT ![t] = @ \/ (page[t] = "app" /\ m.tok # mem[t].tok)]

\* Mutants of ClearAuth: the token is left; the groupio-auth cookie is left.
ClearAuthKeepsToken(t)  == Put(t, [mem[t] EXCEPT !.user = None, !.auth = FALSE]) /\ ux' = FALSE
ClearAuthKeepsCookie(t) == Put(t, NoMem) /\ UNCHANGED ux

\* clearAuth: the store is emptied and the groupio-auth cookie removed.
ClearAuth(t) == Put(t, NoMem) /\ ux' = FALSE

\* The backend accepts a refresh token iff it is the last one it stored.
Accepted(c) == c # None /\ stored[c.user] = c.id

\* A new session of user u: new access token, the stored refresh token replaced.
Issue(u) ==
  /\ issued < MaxIssue
  /\ issued' = issued + 1
  /\ stored' = [stored EXCEPT ![u] = issued + 1]

NewToken(u) == [user |-> u, id |-> issued + 1]

----------------------------------------------------------------------------
(* refreshAccessToken: one request in flight per tab. *)

\* A request just sent, with the cookie there is; nav: a layout waits for it.
Asked(nav) == [st |-> "sent", sent |-> jar, ans |-> None, nav |-> nav]

\* Mutant of JoinRefresh: each caller sends its own.
JoinRefreshUnshared(t, nav) ==
  refresh' = [refresh EXCEPT ![t] = Asked(nav)]

\* The promise in flight is shared, so a second caller only adds its callback.
JoinRefresh(t, nav) ==
  refresh' = [refresh EXCEPT ![t] =
    IF @.st = "idle" THEN Asked(nav) ELSE [@ EXCEPT !.nav = refresh[t].nav \/ nav]]

\* A layout's effect: without a token, refresh, and go to /login if that fails.
LayoutEffect(t) ==
  /\ due[t] /\ page[t] = "app"
  /\ due' = [due EXCEPT ![t] = FALSE]
  /\ IF mem[t].tok = None THEN JoinRefresh(t, TRUE) ELSE UNCHANGED refresh
  /\ UNCHANGED <<sameSite, issued, stored, live, jar, ux, disk, mem, page, goto, logout,
                 login, out, redeemed, faults, loads>>

\* An API call of a page is answered 401 and the client refreshes.
CallRefused(t) ==
  /\ page[t] = "app" /\ mem[t].tok # None /\ mem[t].tok \notin live
  /\ refresh[t].st = "idle"
  /\ JoinRefresh(t, FALSE)
  /\ UNCHANGED <<sameSite, issued, stored, live, jar, ux, disk, mem, page, due, goto, logout,
                 login, out, redeemed, faults, loads>>

\* POST /auth/refresh at the backend.
ServeRefresh(t) ==
  /\ refresh[t].st = "sent"
  /\ LET c == refresh[t].sent IN
     \/ /\ Accepted(c)
        /\ Issue(c.user)
        /\ live' = live \cup {NewToken(c.user)}
        /\ redeemed' = redeemed \cup {c}
        /\ refresh' = [refresh EXCEPT ![t] = [@ EXCEPT !.st = "answered", !.ans = NewToken(c.user)]]
     \/ /\ ~Accepted(c)
        /\ refresh' = [refresh EXCEPT ![t].st = "answered"]
        /\ UNCHANGED <<issued, stored, live, redeemed>>
  /\ UNCHANGED <<sameSite, jar, ux, disk, mem, page, due, goto, logout, login, out, faults, loads>>

\* The connection fails before or after the backend has served the request.
LoseRefresh(t) ==
  /\ faults < MaxFaults
  /\ refresh[t].st = "sent" \/ (refresh[t].st = "answered" /\ refresh[t].ans # None)
  /\ refresh' = [refresh EXCEPT ![t] = [@ EXCEPT !.st = "answered", !.ans = None]]
  /\ faults' = faults + 1
  /\ UNCHANGED <<sameSite, issued, stored, live, jar, ux, disk, mem, page, due, goto, logout,
                 login, out, redeemed, loads>>

\* The answer: new tokens, or clearAuth; a layout that waits goes to /login.
RefreshDone(t) ==
  /\ refresh[t].st = "answered"
  /\ IF refresh[t].ans # None
     THEN /\ jar' = refresh[t].ans
          /\ Put(t, [mem[t] EXCEPT !.tok = refresh[t].ans, !.auth = TRUE])
          /\ refresh' = [refresh EXCEPT ![t] =
               IF mem[t].user = None THEN [@ EXCEPT !.st = "profile"] ELSE Idle]
          /\ UNCHANGED <<ux, goto>>
     ELSE /\ ClearAuth(t)
          /\ goto' = [goto EXCEPT ![t] = @ \/ refresh[t].nav]
          /\ refresh' = [refresh EXCEPT ![t] = Idle]
          /\ UNCHANGED jar
  /\ UNCHANGED <<sameSite, issued, stored, live, page, logout, login, out, redeemed, faults, loads>>

\* The profile that follows a refresh of a store without a user; it may fail.
RefreshProfile(t) ==
  /\ refresh[t].st = "profile"
  /\ \/ /\ refresh[t].ans \in live
        /\ Put(t, [mem[t] EXCEPT !.user = refresh[t].ans.user])
     \/ UNCHANGED <<mem, disk, due>>
  /\ refresh' = [refresh EXCEPT ![t] = Idle]
  /\ UNCHANGED <<sameSite, issued, stored, live, jar, ux, page, goto, logout, login, out,
                 redeemed, faults, loads>>

----------------------------------------------------------------------------
(* logout. *)

StartLogout(t) ==
  /\ page[t] = "app" /\ mem[t].tok # None /\ logout[t].st = "idle"
  /\ logout' = [logout EXCEPT ![t] = [st |-> "sent", tok |-> mem[t].tok, ok |-> FALSE]]
  /\ UNCHANGED <<sameSite, issued, stored, live, jar, ux, disk, mem, page, due, goto, refresh,
                 login, out, redeemed, faults, loads>>

\* POST /auth/logout: an access token that has expired is refused.
ServeLogout(t) ==
  /\ logout[t].st = "sent"
  /\ LET k == logout[t].tok IN
     IF k \in live
     THEN /\ stored' = [stored EXCEPT ![k.user] = 0]
          /\ live' = live \ {k}
          /\ logout' = [logout EXCEPT ![t] = [@ EXCEPT !.st = "answered", !.ok = TRUE]]
     ELSE /\ logout' = [logout EXCEPT ![t].st = "answered"]
          /\ UNCHANGED <<stored, live>>
  /\ UNCHANGED <<sameSite, issued, jar, ux, disk, mem, page, due, goto, refresh, login, out,
                 redeemed, faults, loads>>

LoseLogout(t) ==
  /\ faults < MaxFaults
  /\ logout[t].st = "sent" \/ (logout[t].st = "answered" /\ logout[t].ok)
  /\ logout' = [logout EXCEPT ![t] = [@ EXCEPT !.st = "answered", !.ok = FALSE]]
  /\ faults' = faults + 1
  /\ UNCHANGED <<sameSite, issued, stored, live, jar, ux, disk, mem, page, due, goto, refresh,
                 login, out, redeemed, loads>>

\* Whatever the answer, the store is cleared and the page goes to /login.
LogoutDone(t) ==
  /\ logout[t].st = "answered"
  /\ jar' = IF logout[t].ok THEN None ELSE jar
  /\ ClearAuth(t)
  /\ goto' = [goto EXCEPT ![t] = TRUE]
  /\ out' = [out EXCEPT ![t] =
       IF logout[t].ok /\ refresh[t].st = "idle" THEN "clean" ELSE "dirty"]
  /\ logout' = [logout EXCEPT ![t] = [st |-> "idle", tok |-> None, ok |-> FALSE]]
  /\ UNCHANGED <<sameSite, issued, stored, live, page, refresh, login, redeemed, faults, loads>>

----------------------------------------------------------------------------
(* The login page. *)

SubmitLogin(t, u) ==
  /\ page[t] = "login" /\ login[t].st = "idle"
  /\ login' = [login EXCEPT ![t] = [st |-> "sent", user |-> u, ans |-> None]]
  /\ UNCHANGED <<sameSite, issued, stored, live, jar, ux, disk, mem, page, due, goto, refresh,
                 logout, out, redeemed, faults, loads>>

\* POST /auth/login/json with the right password.
ServeLogin(t) ==
  /\ login[t].st = "sent"
  /\ Issue(login[t].user)
  /\ live' = live \cup {NewToken(login[t].user)}
  /\ login' = [login EXCEPT ![t] = [@ EXCEPT !.st = "answered", !.ans = NewToken(login[t].user)]]
  /\ UNCHANGED <<sameSite, jar, ux, disk, mem, page, due, goto, refresh, logout, out,
                 redeemed, faults, loads>>

\* The login is refused or the connection fails: the page shows an error.
LoginFails(t) ==
  /\ faults < MaxFaults
  /\ login[t].st \in {"sent", "answered"}
  /\ login' = [login EXCEPT ![t] = [st |-> "idle", user |-> None, ans |-> None]]
  /\ faults' = faults + 1
  /\ UNCHANGED <<sameSite, issued, stored, live, jar, ux, disk, mem, page, due, goto, refresh,
                 logout, out, redeemed, loads>>

LoginDone(t) ==
  /\ login[t].st = "answered"
  /\ jar' = login[t].ans
  /\ Put(t, [mem[t] EXCEPT !.tok = login[t].ans, !.auth = TRUE])
  /\ login' = [login EXCEPT ![t].st = "profile"]
  /\ out' = [out EXCEPT ![t] = "no"]
  /\ UNCHANGED <<sameSite, issued, stored, live, ux, page, goto, refresh, logout, redeemed,
                 faults, loads>>

\* GET /auth/me fills in the user, or fails; then the cookie and the dashboard.
LoginProfile(t) ==
  /\ login[t].st = "profile"
  /\ \E m \in {mem[t]} \cup
          (IF login[t].ans \in live
           THEN {[mem[t] EXCEPT !.user = login[t].ans.user, !.auth = TRUE]} ELSE {}) :
       /\ mem' = [mem EXCEPT ![t] = m]
       /\ disk' = Persisted(m)
  /\ ux' = TRUE
  /\ page' = [page EXCEPT ![t] = Route("app", jar, TRUE)]
  /\ due' = [due EXCEPT ![t] = TRUE]
  /\ goto' = [goto EXCEPT ![t] = FALSE]
  /\ login' = [login EXCEPT ![t] = [st |-> "idle", user |-> None, ans |-> None]]
  /\ UNCHANGED <<sameSite, issued, stored, live, jar, refresh, logout, out, redeemed, faults, loads>>

\* A signed-in store on the login page is sent to its dashboard.
LoginRedirect(t) ==
  /\ page[t] = "login" /\ mem[t].auth /\ mem[t].user # None
  /\ Route("app", jar, ux) = "app"
  /\ page' = [page EXCEPT ![t] = "app"]
  /\ due' = [due EXCEPT ![t] = TRUE]
  /\ UNCHANGED <<sameSite, issued, stored, live, jar, ux, disk, mem, goto, refresh, logout,
                 login, out, redeemed, faults, loads>>

----------------------------------------------------------------------------
(* Navigation, reload, and the rest of the world. *)

\* The navigation to /login arrives at the middleware. Sent back to the page it
\* came from, the layout stays mounted and its effect does not run again.
Navigate(t) ==
  /\ goto[t]
  /\ goto' = [goto EXCEPT ![t] = FALSE]
  /\ page' = [page EXCEPT ![t] = Route("login", jar, ux)]
  /\ due' = [due EXCEPT ![t] = (page[t] = "app" /\ @) \/ (page[t] = "login" /\ page'[t] = "app")]
  /\ UNCHANGED <<sameSite, issued, stored, live, jar, ux, disk, mem, refresh, logout, login,
                 out, redeemed, faults, loads>>

\* A full load of p: memory and requests are gone, the store is rehydrated, and
\* Providers refreshes when it says a user is signed in.
Load(t, p) ==
  /\ loads < MaxLoads
  /\ loads' = loads + 1
  /\ mem' = [mem EXCEPT ![t] = [tok |-> None, user |-> disk.user, auth |-> disk.auth]]
  /\ page' = [page EXCEPT ![t] = Route(p, jar, ux)]
  /\ due' = [due EXCEPT ![t] = (page'[t] = "app")]
  /\ goto' = [goto EXCEPT ![t] = FALSE]
  /\ refresh' = [refresh EXCEPT ![t] =
       IF disk.auth THEN Asked(FALSE) ELSE Idle]
  /\ LET lost == refresh[t].st = "answered" /\ refresh[t].ans # None IN
       /\ lost => faults < MaxFaults
       /\ faults' = IF lost THEN faults + 1 ELSE faults
  /\ logout' = [logout EXCEPT ![t] = [st |-> "idle", tok |-> None, ok |-> FALSE]]
  /\ login' = [login EXCEPT ![t] = [st |-> "idle", user |-> None, ans |-> None]]
  /\ UNCHANGED <<sameSite, issued, stored, live, jar, ux, disk, out, redeemed>>

\* The user signs in on another device: the backend keeps one refresh token.
OtherDevice(u) ==
  /\ Issue(u)
  /\ UNCHANGED <<sameSite, live, jar, ux, disk, mem, page, due, goto, refresh, logout, login,
                 out, redeemed, faults, loads>>

Expire(k) ==
  /\ k \in live
  /\ live' = live \ {k}
  /\ UNCHANGED <<sameSite, issued, stored, jar, ux, disk, mem, page, due, goto, refresh,
                 logout, login, out, redeemed, faults, loads>>

----------------------------------------------------------------------------

TabStep(t) ==
  \/ LayoutEffect(t) \/ CallRefused(t)
  \/ ServeRefresh(t) \/ LoseRefresh(t) \/ RefreshDone(t) \/ RefreshProfile(t)
  \/ StartLogout(t) \/ ServeLogout(t) \/ LoseLogout(t) \/ LogoutDone(t)
  \/ \E u \in Users : SubmitLogin(t, u)
  \/ ServeLogin(t) \/ LoginFails(t) \/ LoginDone(t) \/ LoginProfile(t) \/ LoginRedirect(t)
  \/ Navigate(t) \/ \E p \in {"login", "app"} : Load(t, p)

Next ==
  \/ \E t \in Tabs : TabStep(t)
  \/ \E u \in Users : OtherDevice(u)
  \/ \E k \in live : Expire(k)

Spec == Init /\ [][Next]_vars

\* The browser runs scheduled effects, callbacks and navigations, and a request
\* is served and answered (or fails); users do what they like.
Fairness ==
  \A t \in Tabs : WF_vars(LayoutEffect(t)) /\ WF_vars(RefreshDone(t)) /\ WF_vars(Navigate(t))
                  /\ WF_vars(ServeRefresh(t) \/ LoseRefresh(t))

----------------------------------------------------------------------------
(* Properties. *)

\* A tab never presents a refresh token it has already exchanged, unless the
\* answer to the exchange was lost: the shared promise keeps the callers (the
\* layouts, Providers, the API client) from racing one another's rotation.
NoReplay ==
  \A t \in Tabs : refresh[t].st = "sent" /\ refresh[t].sent \in redeemed => faults > 0

\* After a logout the backend confirmed, with no refresh in flight, the tab has
\* no token until someone signs in again, whatever effects and reloads follow.
LogoutHolds == \A t \in Tabs : out[t] = "clean" => mem[t].tok = None

\* A tab whose refresh failed while a layout waits for it.
Stranded(t) == refresh[t].st = "answered" /\ refresh[t].ans = None /\ refresh[t].nav

\* A tab whose refresh was rejected under a layout ends on the login page, where the
\* backend's cookie is not visible to the middleware, unless someone signs in meanwhile.
RejectedReachesLoginCrossSite ==
  \A t \in Tabs : (Stranded(t) /\ ~sameSite) ~>
                   (page[t] = "login" \/ mem[t].tok # None \/ issued = MaxIssue)

============================================================================
