------------------------------ MODULE Session ------------------------------
(***************************************************************************)
(* Who uses a tab of the dashboard and which page it shows: AuthProvider   *)
(* with the token it keeps in localStorage, the routes of App and the      *)
(* links of the Sidebar.                                                   *)
(*                                                                         *)
(* loadUser and login set the state when their request is answered,        *)
(* whatever has happened in between.  An account is known by its role.     *)
(***************************************************************************)
EXTENDS EventBroker

CONSTANTS
  Accounts,   \* the roles of those who log in
  None        \* nobody, no token, no request, no data

Role == {"admin", "ops_manager", "crew_supervisor", "ground_crew", "viewer"}

Token == [of : Accounts, expired : BOOLEAN]

ASSUME SessionAssumption ==
  /\ Accounts \subseteq Role
  /\ None \notin Role \cup Token

VARIABLES
  token,       \* skyturn_token in localStorage
  user,        \* what AuthContext holds
  restoring,   \* the account whose token loadUser has sent
  submitted,   \* the account that the login form has sent
  path,        \* the location of the router
  overtaken    \* history: another tab, or an answer that came late, has meddled

session == <<token, user, restoring, submitted, path, overtaken>>

Good(t) == t # None /\ ~t.expired

\* Paths with a page of their own, and one of all others.
Paths == {"/login", "/", "/flights", "/turnarounds", "/stand-plan", "/equipment", "/crew",
          "/events", "/settings", "/other"}

SessionTypeOK ==
  /\ token \in Token \cup {None}
  /\ {user, restoring, submitted} \subseteq Accounts \cup {None}
  /\ path \in Paths
  /\ overtaken \in BOOLEAN

SessionInit ==
  /\ token = None
  /\ user = None
  /\ restoring = None
  /\ submitted = None
  /\ path = "/login"
  /\ overtaken = FALSE

----------------------------------------------------------------------------

Staff == {"admin", "ops_manager", "crew_supervisor", "viewer"}

\* allowedRoles of the routes inside the layout.
AllowedRoles ==
  [p \in Paths \ {"/login", "/other"} |->
     CASE p \in {"/crew", "/events"} -> Staff
       [] p = "/settings" -> {"admin"}
       [] OTHER -> Role]

\* Where the route of p leads account u: to p itself, or on to another path.
ProtectedRoute(u, p) ==
  CASE u = None -> "/login"
    [] u # None /\ u \notin AllowedRoles[p] -> "/"
    [] OTHER -> p

AppRoutes(u, p) ==
  CASE p = "/login" -> IF u = None THEN p ELSE "/"
    [] p \in DOMAIN AllowedRoles -> ProtectedRoute(u, p)
    [] OTHER -> "/"

\* The roles that navItems shows an item to.
navItems ==
  [p \in Paths \ {"/login", "/other"} |->
     IF p = "/settings" THEN {"admin"} ELSE IF p \in {"/crew", "/events"} THEN Staff ELSE Role]

UnfilteredItems(u) == DOMAIN navItems

filteredItems(u) == {p \in DOMAIN navItems : u \in navItems[p]}

\* The router has come to rest on a page.
Settled == AppRoutes(user, path) = path

Redirect ==
  /\ ~Settled
  /\ path' = AppRoutes(user, path)
  /\ UNCHANGED <<token, user, restoring, submitted, overtaken>>

FollowLink ==
  /\ user # None /\ Settled /\ Spend("click")
  /\ path' \in filteredItems(user)
  /\ UNCHANGED <<token, user, restoring, submitted, overtaken>>

----------------------------------------------------------------------------

\* loadUser, up to its request: a token that has expired is cleared.
Restore ==
  /\ token' = IF Good(token) THEN token ELSE None
  /\ restoring' = IF Good(token) THEN token.of ELSE None

\* The tab is loaded anew at any path.
LoadSession ==
  /\ Restore
  /\ user' = None
  /\ submitted' = None
  /\ path' \in Paths
  /\ overtaken' = FALSE

\* The token is not the one that loadUser has sent any more.
Superseded == token = None \/ token.of # restoring

Restored ==
  /\ restoring # None
  /\ user' = restoring
  /\ restoring' = None
  /\ overtaken' = (overtaken \/ Superseded)
  /\ UNCHANGED <<token, submitted, path>>

\* GET /auth/me fails, which may as well be for the network.
RestoreFails ==
  /\ restoring # None
  /\ token' = None
  /\ restoring' = None
  /\ overtaken' = (overtaken \/ user # None)
  /\ UNCHANGED <<user, submitted, path>>

\* handleSubmit of LoginPage
SubmitLogin(a) ==
  /\ path = "/login" /\ Settled /\ submitted = None /\ Spend("login")
  /\ submitted' = a
  /\ UNCHANGED <<token, user, restoring, path, overtaken>>

LoginSucceeds ==
  /\ submitted # None
  /\ token' = [of |-> submitted, expired |-> FALSE]
  /\ user' = submitted
  /\ submitted' = None
  /\ path' = "/"
  /\ overtaken' = FALSE
  /\ UNCHANGED restoring

LoginFails ==
  /\ submitted # None
  /\ submitted' = None
  /\ UNCHANGED <<token, user, restoring, path, overtaken>>

LogoutKeepingToken ==
  /\ user # None
  /\ user' = None
  /\ overtaken' = FALSE
  /\ UNCHANGED <<token, restoring, submitted, path>>

\* The button of the top bar.
Logout ==
  /\ user # None
  /\ token' = None
  /\ user' = None
  /\ overtaken' = FALSE
  /\ UNCHANGED <<restoring, submitted, path>>

TokenExpires ==
  /\ Good(token)
  /\ token' = [token EXCEPT !.expired = TRUE]
  /\ UNCHANGED <<user, restoring, submitted, path, overtaken>>

\* A login or logout in another tab of the browser.
OtherTab ==
  /\ Spend("login")
  /\ token' \in {None} \cup [of : Accounts, expired : {FALSE}]
  /\ overtaken' = TRUE
  /\ UNCHANGED <<user, restoring, submitted, path>>

\* The steps of this tab alone that spend nothing.
SessionStep ==
  \/ Redirect
  \/ Restored
  \/ RestoreFails
  \/ LoginSucceeds
  \/ LoginFails
  \/ Logout
  \/ TokenExpires

SessionInput ==
  \/ FollowLink
  \/ \E a \in Accounts : SubmitLogin(a)
  \/ OtherTab

----------------------------------------------------------------------------

\* The account the tab shows is the one that its requests are made for, and a tab
\* that shows the login form keeps no token of an account, unless another tab or a
\* late answer of loadUser has meddled since the last login, logout or reload.
SessionIsOwn ==
  \/ overtaken
  \/ IF user = None THEN token = None \/ restoring # None
                    ELSE token # None /\ token.of = user

\* Whoever is logged in, any path ends at a page after two redirects at most, and each
\* link of the sidebar opens the page it names: the roles of the links, which Sidebar
\* keeps for itself, are those of the routes.
RoutesAgree ==
  /\ \A p \in Paths :
       LET last == AppRoutes(user, AppRoutes(user, p)) IN AppRoutes(user, last) = last
  /\ user # None => \A p \in filteredItems(user) : AppRoutes(user, p) = p
=============================================================================
