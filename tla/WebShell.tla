------------------------------ MODULE WebShell ------------------------------
(***************************************************************************)
(* The web shell (apps/web): a session kept in memory, two guarded pages,  *)
(* and a login page that sends the visitor on to where a guard turned him  *)
(* away from.                                                              *)
(*                                                                         *)
(* A URL is a path and its query parameter sRedirectTo, "none" when absent *)
(* or empty.  The router's recognition and guards settle in microtasks, so *)
(* the visitor acts only when no navigation is under way.                  *)
(***************************************************************************)

\* TRole, and nobody.
Roles == {"producer", "admin", "platform_admin"}

\* "root" is the empty path, "other" any path without a route.
Paths == {"root", "login", "live", "admin", "other"}
Url == [path: Paths, wish: Paths \cup {"none"}]
NoUrl == [path |-> "none", wish |-> "none"]
Plain(path) == [path |-> path, wish |-> "none"]
LoginFor(path) == [path |-> "login", wish |-> path]

VARIABLES
    role,      \* sRole of the in-memory session, "none" when signed out
    url,       \* the address shown
    pending,   \* the navigation under way, or NoUrl
    visited,   \* the browser's history
    signedOut, \* history: signed out since the page was shown
    asked,     \* history: the page the visitor last asked for, till he signs in
    due        \* history: the page the latest sign-in is to end at, or "none"

vars == <<role, url, pending, visited, signedOut, asked, due>>
history == <<signedOut, asked, due>>

\* The component in the outlet.
page == url.path

TypeOK ==
    /\ role \in Roles \cup {"none"}
    /\ url \in Url \cup {NoUrl}
    /\ page \in {"none", "login", "live", "admin"}
    /\ pending \in Url \cup {NoUrl}
    /\ visited \subseteq Url
    /\ signedOut \in BOOLEAN
    /\ asked \in Paths \cup {"none"}
    /\ due \in {"none", "login", "live", "admin"}

Init ==
    /\ role = "none"
    /\ url = NoUrl /\ pending = NoUrl
    /\ visited = {}
    /\ signedOut = FALSE /\ asked = "none" /\ due = "none"

-----------------------------------------------------------------------------
\* fnCanAccessAdmin.
CanAccessAdmin == role \in {"admin", "platform_admin"}

\* A plausible bug: whoever is signed in may pass.
Passes_AnyRole(path) == path = "login" \/ (path \in {"live", "admin"} /\ role # "none")

\* The routes with a component whose guard, if any, returns true.
Passes(path) ==
    \/ path = "login"
    \/ (path = "live" /\ role # "none")
    \/ (path = "admin" /\ CanAccessAdmin)

\* A plausible bug: the guard of the live desk forgets where the visitor came
\* from.
SentTo_Forgets(target) ==
    IF target.path = "live" THEN Plain("login")
    ELSE IF target.path # "admin" THEN [target EXCEPT !.path = "login"]
    ELSE IF role = "none" THEN LoginFor("admin")
    ELSE Plain("live")

\* A plausible bug: what has no route is sent to the root, and the root has no
\* route.
SentTo_Root(target) ==
    IF target.path = "live" THEN LoginFor("live")
    ELSE IF target.path # "admin" THEN [target EXCEPT !.path = "root"]
    ELSE IF role = "none" THEN LoginFor("admin")
    ELSE Plain("live")

\* Where fnAuthGuard, fnAdminGuard and the redirects send who does not pass; a
\* relative redirect keeps the query.
SentTo(target) ==
    IF target.path = "live" THEN LoginFor("live")
    ELSE IF target.path # "admin" THEN [target EXCEPT !.path = "login"]
    ELSE IF role = "none" THEN LoginFor("admin")
    ELSE Plain("live")

Redirected ==
    /\ pending # NoUrl
    /\ ~Passes(pending.path)
    /\ pending' = SentTo(pending)
    /\ UNCHANGED <<role, url, visited, history>>

Shown ==
    /\ pending # NoUrl
    /\ Passes(pending.path)
    /\ url' = pending
    /\ pending' = NoUrl
    /\ visited' = visited \cup {pending}
    /\ signedOut' = FALSE
    /\ UNCHANGED <<role, asked, due>>

-----------------------------------------------------------------------------
\* The visitor.

Asks(target) ==
    /\ pending = NoUrl
    /\ pending' = target
    /\ asked' = IF target.path \in {"live", "admin"} THEN target.path ELSE target.wish
    /\ due' = "none"

\* An address is typed or the page reloaded: the application starts anew and
\* its in-memory session is lost.  Nothing gives a guarded page a query.
Visit ==
    /\ \E target \in Url :
          /\ target.path \in {"live", "admin"} => target.wish = "none"
          /\ Asks(target)
    /\ role' = "none"
    /\ url' = NoUrl
    /\ signedOut' = FALSE
    /\ UNCHANGED visited

\* The links of the header, there for who is signed in; a link to the address
\* shown is ignored.
Follow ==
    /\ role # "none"
    /\ \E path \in {"live", "admin"} :
          /\ url # Plain(path)
          /\ Asks(Plain(path))
    /\ UNCHANGED <<role, url, visited, signedOut>>

\* The browser's back and forward buttons.
Back ==
    /\ \E target \in visited \ {url} : Asks(target)
    /\ UNCHANGED <<role, url, visited, signedOut>>

Fallback(newRole) == IF newRole = "producer" THEN "live" ELSE "admin"

\* Where a visitor of that role gets who asks for the page.
Landing(path, newRole) ==
    IF path = "admin" THEN Fallback(newRole)
    ELSE IF path = "live" THEN "live"
    ELSE "login"

\* A button of the login page (fnSignIn), also for who is signed in already.
SignIn ==
    /\ pending = NoUrl
    /\ page = "login"
    /\ \E newRole \in Roles :
          /\ role' = newRole
          /\ pending' = Plain(IF url.wish # "none" THEN url.wish ELSE Fallback(newRole))
          /\ due' = Landing(IF asked # "none" THEN asked ELSE Fallback(newRole), newRole)
    /\ asked' = "none"
    /\ UNCHANGED <<url, visited, signedOut>>

\* A button of the header (fnSignOut); the page stays as it is.
SignOut ==
    /\ pending = NoUrl
    /\ role # "none"
    /\ role' = "none"
    /\ signedOut' = TRUE
    /\ due' = "none"
    /\ UNCHANGED <<url, pending, visited, asked>>

Next == Redirected \/ Shown \/ Visit \/ Follow \/ Back \/ SignIn \/ SignOut

Spec == Init /\ [][Next]_vars

\* The router finishes what it has begun.
FairSpec == Spec /\ WF_vars(Redirected \/ Shown)

-----------------------------------------------------------------------------
\* However a visitor changes roles and moves about, the admin page is never in
\* front of a producer, and a guarded page is in front of nobody but who signed
\* out on it (auth.guards.ts:20: "Admin route requires admin or platform_admin
\* and redirects all others safely").
GuardsHold ==
    /\ page = "admin" => role # "producer"
    /\ page \in {"live", "admin"} => role # "none" \/ signedOut

\* Who was turned away and signs in ends at the page he had asked for, when his
\* role may see it, and at the live desk otherwise; whatever detour over the
\* browser's history or the login page (login-page.component.ts:151).
LandsWhereAsked == pending = NoUrl /\ due # "none" => page = due

\* No chain of redirects and guards goes round in circles: every navigation
\* ends with a page.
NavigationSettles == pending # NoUrl ~> pending = NoUrl
=============================================================================
