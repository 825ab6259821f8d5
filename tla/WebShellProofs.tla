--------------------------- MODULE WebShellProofs ---------------------------
(***************************************************************************)
(* Proofs about the web shell.                                             *)
(***************************************************************************)
EXTENDS WebShell, TLAPS

\* What the guards and redirects lead to are URLs again.
LEMMA SentToTypes ==
    ASSUME NEW target \in Url, ~Passes(target.path)
    PROVE  SentTo(target) \in Url
  BY DEF SentTo, Passes, Url, Paths, LoginFor, Plain

\* Shapes.
THEOREM TypeCorrect == Spec => []TypeOK
<1>1. Init => TypeOK
  <2>1. NoUrl.path = "none"
    BY DEF NoUrl
  <2> QED
    BY <2>1 DEF Init, TypeOK, page
<1>2. TypeOK /\ [Next]_vars => TypeOK'
  <2> SUFFICES ASSUME TypeOK, [Next]_vars
               PROVE  TypeOK'
    OBVIOUS
  <2> USE DEF TypeOK, history, page
  <2>1. CASE Redirected
    <3>1. pending' \in Url
      BY <2>1, SentToTypes DEF Redirected
    <3> QED
      BY <2>1, <3>1 DEF Redirected
  <2>2. CASE Shown
    <3>1. pending \in Url /\ pending.path \in {"login", "live", "admin"}
      BY <2>2 DEF Shown, Passes
    <3> QED
      BY <2>2, <3>1 DEF Shown
  <2>3. CASE Visit
    BY <2>3 DEF Visit, Asks, Url, NoUrl
  <2>4. CASE Follow
    BY <2>4 DEF Follow, Asks, Url, Plain, Paths
  <2>5. CASE Back
    BY <2>5 DEF Back, Asks, Url
  <2>6. CASE SignIn
    <3>1. url \in Url
      BY <2>6 DEF SignIn, NoUrl
    <3> QED
      BY <2>6, <3>1 DEF SignIn, Url, Plain, Paths, Landing, Fallback
  <2>7. CASE SignOut
    BY <2>7 DEF SignOut
  <2>8. CASE UNCHANGED vars
    BY <2>8 DEF vars
  <2> QED
    BY <2>1, <2>2, <2>3, <2>4, <2>5, <2>6, <2>7, <2>8 DEF Next
<1> QED
  BY <1>1, <1>2, PTL DEF Spec

-----------------------------------------------------------------------------
\* Where a guard or a redirect sends the visitor, the guard there lets him in: no
\* navigation is sent on twice, so none goes round in circles.  It is what
\* NavigationSettles rests on besides fairness.
RedirectedOnce ==
    [][Redirected => pending' # NoUrl /\ Passes(pending'.path)]_vars

\* For any visitor: who is turned away from the admin page with a role sees the
\* live desk, everybody else the login page, which has no guard.
THEOREM OneRedirect == Spec => RedirectedOnce
<1>1. TypeOK /\ [Next]_vars
      => [Redirected => pending' # NoUrl /\ Passes(pending'.path)]_vars
  <2> SUFFICES ASSUME TypeOK, Redirected
               PROVE  pending' # NoUrl /\ Passes(pending'.path)
    OBVIOUS
  <2>1. /\ pending \in Url /\ pending' = SentTo(pending)
        /\ ~Passes(pending.path)
    BY DEF Redirected, TypeOK
  <2>2. SentTo(pending) \in Url
    BY <2>1, SentToTypes
  <2>3. pending'.path = "login" \/ (pending'.path = "live" /\ role # "none")
    BY <2>1 DEF SentTo, LoginFor, Plain, Url
  <2> QED
    BY <2>1, <2>2, <2>3 DEF Passes, NoUrl, Url, Paths
<1> QED
  BY <1>1, TypeCorrect, PTL DEF Spec, RedirectedOnce

-----------------------------------------------------------------------------
\* The guards hold whatever the visitor does: a role changes on the login page,
\* by a reload or by signing out, never in front of another guarded page.
THEOREM GuardsCorrect == Spec => []GuardsHold
<1>1. Init => GuardsHold
  BY DEF Init, GuardsHold, NoUrl, page
<1>2. TypeOK /\ GuardsHold /\ [Next]_vars => GuardsHold'
  <2> SUFFICES ASSUME TypeOK, GuardsHold, [Next]_vars
               PROVE  GuardsHold'
    OBVIOUS
  <2> USE DEF TypeOK, GuardsHold, history, page
  <2>1. CASE Redirected
    BY <2>1 DEF Redirected
  <2>2. CASE Shown
    <3>1. pending.path = "admin" => role \in {"admin", "platform_admin"}
      BY <2>2 DEF Shown, Passes, CanAccessAdmin
    <3>2. pending.path = "live" => role # "none"
      BY <2>2 DEF Shown, Passes
    <3> QED
      BY <2>2, <3>1, <3>2 DEF Shown
  <2>3. CASE Visit
    BY <2>3 DEF Visit, NoUrl
  <2>4. CASE Follow
    BY <2>4 DEF Follow
  <2>5. CASE Back
    BY <2>5 DEF Back
  <2>6. CASE SignIn
    BY <2>6 DEF SignIn
  <2>7. CASE SignOut
    BY <2>7 DEF SignOut
  <2>8. CASE UNCHANGED vars
    BY <2>8 DEF vars
  <2> QED
    BY <2>1, <2>2, <2>3, <2>4, <2>5, <2>6, <2>7, <2>8 DEF Next
<1> QED
  BY <1>1, <1>2, TypeCorrect, PTL DEF Spec

-----------------------------------------------------------------------------
\* That a visitor lands where he asked to does not follow from itself: the
\* request must survive in the URL until he signs in, and what is under way
\* afterwards must lead to the page that is due.

Guarded == {"live", "admin"}

\* On the login page the query says what the visitor asked for last.
WishKept == pending = NoUrl /\ page = "login" => asked = url.wish

\* So does a navigation that no sign-in began, except where the admin guard
\* has sent a signed-in visitor to the live desk.
WishCarried ==
    pending # NoUrl /\ due = "none" =>
        /\ pending.path \notin Guarded => asked = pending.wish
        /\ pending.path \in Guarded =>
              asked = pending.path \/ (pending.path = "live" /\ role # "none")

\* A navigation that a sign-in began leads to the page that is due.
DueAhead ==
    pending # NoUrl /\ due # "none" =>
        /\ role # "none"
        /\ asked = "none"
        /\ Landing(pending.path, role) = due
        /\ pending.path \notin Guarded => pending.wish = "none"

LandingInv == WishKept /\ WishCarried /\ DueAhead /\ LandsWhereAsked

LEMMA LandingRedirected ==
    ASSUME TypeOK, LandingInv, Redirected
    PROVE  LandingInv'
<1> USE DEF history
<1>1. pending \in Url /\ pending' \in Url /\ pending' # NoUrl
  BY SentToTypes DEF Redirected, TypeOK, NoUrl, Url, Paths
<1>2. CASE pending.path = "live"
  BY <1>1, <1>2 DEF Redirected, LandingInv, WishKept, WishCarried, DueAhead,
     LandsWhereAsked, SentTo, LoginFor, Passes, Guarded, page
<1>3. CASE pending.path = "admin"
  <2>1. CASE role = "none"
    BY <1>1, <1>3, <2>1 DEF Redirected, LandingInv, WishKept, WishCarried,
       DueAhead, LandsWhereAsked, SentTo, LoginFor, Passes, Guarded, page
  <2>2. CASE role # "none"
    <3>1. role = "producer"
      BY <1>3, <2>2 DEF Redirected, Passes, CanAccessAdmin, TypeOK, Roles
    <3> QED
      BY <1>1, <1>3, <3>1 DEF Redirected, LandingInv, WishKept, WishCarried,
         DueAhead, LandsWhereAsked, SentTo, Plain, Passes, Guarded, Landing,
         Fallback, page
  <2> QED
    BY <2>1, <2>2
<1>4. CASE pending.path \in {"root", "other"}
  <2>1. pending' = [pending EXCEPT !.path = "login"]
    BY <1>4 DEF Redirected, SentTo
  <2>2. pending'.path = "login" /\ pending'.wish = pending.wish
    BY <1>1, <2>1 DEF Url
  <2> QED
    BY <1>1, <1>4, <2>2 DEF Redirected, LandingInv, WishKept, WishCarried,
       DueAhead, LandsWhereAsked, Guarded, Landing, page
<1>5. pending.path # "login"
  BY DEF Redirected, Passes
<1> QED
  BY <1>1, <1>2, <1>3, <1>4, <1>5 DEF Url, Paths

LEMMA LandingShown ==
    ASSUME TypeOK, LandingInv, Shown
    PROVE  LandingInv'
<1>1. pending.path \in {"login", "live", "admin"}
  BY DEF Shown, Passes
<1>2. pending.path = "admin" => role \in {"admin", "platform_admin"}
  BY DEF Shown, Passes, CanAccessAdmin
<1>3. due # "none" => due = pending.path
  BY <1>1, <1>2 DEF Shown, LandingInv, DueAhead, Landing, Fallback
<1>4. pending.path = "login" => asked = pending.wish
  BY DEF Shown, LandingInv, WishCarried, DueAhead, Guarded
<1> QED
  BY <1>1, <1>3, <1>4 DEF Shown, LandingInv, WishKept, WishCarried, DueAhead,
     LandsWhereAsked, page

LEMMA LandingSignIn ==
    ASSUME TypeOK, LandingInv, SignIn
    PROVE  LandingInv'
<1>1. PICK newRole \in Roles :
         /\ role' = newRole
         /\ pending' = Plain(IF url.wish # "none" THEN url.wish
                                                  ELSE Fallback(newRole))
         /\ due' = Landing(IF asked # "none" THEN asked ELSE Fallback(newRole),
                           newRole)
  BY DEF SignIn
<1>2. asked = url.wish
  BY DEF SignIn, LandingInv, WishKept
<1>3. /\ pending'.path = IF asked # "none" THEN asked ELSE Fallback(newRole)
      /\ pending'.wish = "none"
  BY <1>1, <1>2 DEF Plain
<1>4. pending'.path \in Paths /\ pending' # NoUrl
  BY <1>1, <1>3 DEF TypeOK, Fallback, Paths, NoUrl, Plain
<1>5. due' \in {"login", "live", "admin"}
  BY <1>1, <1>3, <1>4 DEF Landing, Fallback, Paths
<1>6. role' # "none" /\ asked' = "none"
  BY <1>1 DEF SignIn, Roles
<1> QED
  BY <1>1, <1>3, <1>4, <1>5, <1>6 DEF LandingInv, WishKept, WishCarried, DueAhead,
     LandsWhereAsked

LEMMA LandingAsks ==
    ASSUME TypeOK, LandingInv, NEW target \in Url, Asks(target), UNCHANGED url
           \/ url' = NoUrl
    PROVE  LandingInv'
<1>1. pending' = target /\ target # NoUrl /\ due' = "none"
  BY DEF Asks, Url, NoUrl, Paths
<1>2. asked' = IF target.path \in {"live", "admin"} THEN target.path
                                                    ELSE target.wish
  BY DEF Asks
<1> QED
  BY <1>1, <1>2 DEF LandingInv, WishKept, WishCarried, DueAhead, LandsWhereAsked,
     Guarded

\* Who was turned away and signs in ends at the page he had asked for, or at
\* the live desk when his role may not see it.
THEOREM LandingCorrect == Spec => []LandsWhereAsked
<1>1. Init => LandingInv
  BY DEF Init, LandingInv, WishKept, WishCarried, DueAhead, LandsWhereAsked,
     NoUrl, page
<1>2. TypeOK /\ LandingInv /\ [Next]_vars => LandingInv'
  <2> SUFFICES ASSUME TypeOK, LandingInv, [Next]_vars
               PROVE  LandingInv'
    OBVIOUS
  <2>1. CASE Visit
    BY <2>1, LandingAsks DEF Visit
  <2>2. CASE Follow
    <3>1. PICK path \in {"live", "admin"} : Asks(Plain(path))
      BY <2>2 DEF Follow
    <3>2. Plain(path) \in Url
      BY DEF Plain, Url, Paths
    <3> QED
      BY <2>2, <3>1, <3>2, LandingAsks DEF Follow
  <2>3. CASE Back
    BY <2>3, LandingAsks DEF Back, TypeOK
  <2>4. CASE SignOut
    BY <2>4 DEF SignOut, LandingInv, WishKept, WishCarried, DueAhead,
       LandsWhereAsked, page
  <2>5. CASE UNCHANGED vars
    BY <2>5 DEF vars, LandingInv, WishKept, WishCarried, DueAhead,
       LandsWhereAsked, Landing, Fallback, page
  <2> QED
    BY <2>1, <2>2, <2>3, <2>4, <2>5, LandingRedirected, LandingShown,
       LandingSignIn DEF Next
<1>3. LandingInv => LandsWhereAsked
  BY DEF LandingInv
<1> QED
  BY <1>1, <1>2, <1>3, TypeCorrect, PTL DEF Spec
=============================================================================
