---------------------------- MODULE AuthController ----------------------------
(***************************************************************************)
(* The requests that reach the sessions of one user: AuthController and    *)
(* SessionsController behind JwtAuthGuard and RolesGuard, and the browsers *)
(* that keep the refresh token of a session in a cookie.  What a request   *)
(* does to the sessions is the action of Sessions.tla of the same call;    *)
(* here it gets a cookie to work on, and a reply that changes the cookie   *)
(* when it arrives.                                                        *)
(*                                                                         *)
(* A browser may have several requests under way (tabs), and presents the  *)
(* access token of any session.  Replies that leave the cookie as it is    *)
(* are left out, and so are refused requests.                              *)
(***************************************************************************)
EXTENDS Sessions

CONSTANT Browsers

ASSUME NoneIsNoBrowser == None \notin Browsers

VARIABLES cookie,  \* the session whose refresh token the browser holds
          reply,   \* what the caller of a call will be told
          role,    \* User.role in the table
          claim    \* the role in the access token of a session

authVars == <<vars, cookie, reply, role, claim>>

RolePriorities == [Admin |-> 3, Moderator |-> 2, User |-> 1]

Roles == DOMAIN RolePriorities

Replies ==
  [to     : Browsers \cup {None},
   role   : Roles,             \* the role the call has read
   cookie : Ids \cup {None}]   \* what the cookie becomes: the session issued

NoReply == [to |-> None, role |-> "User", cookie |-> None]

AuthTypeOK ==
  /\ TypeOK
  /\ cookie \in [Browsers -> Ids \cup {None}]
  /\ reply \in [Calls -> Replies]
  /\ role \in Roles
  /\ claim \in [Ids -> Roles]

AuthInit ==
  /\ Init
  /\ cookie = [b \in Browsers |-> None]
  /\ reply = [c \in Calls |-> NoReply]
  /\ role = IF "demotion" \in hazards THEN "Admin" ELSE "User"
  /\ claim = [s \in Ids |-> "User"]

-----------------------------------------------------------------------------

Awaited == {c \in Calls : reply[c].to # None}

\* Without overlap a request begins when the last one has been answered.
MayRequest(c) ==
  /\ c \notin Awaited
  /\ "overlap" \in hazards \/ Awaited = {}

Await(c, b, record) ==
  /\ MayRequest(c)
  /\ reply' = [reply EXCEPT ![c] = [record EXCEPT !.to = b]]
  /\ UNCHANGED <<cookie, role, claim>>

\* The page offers to sign in when there is no cookie or its session has been
\* refused; another client may do so at any time.
SignedOut(b) == cookie[b] \notin Active

\* A mistake: the request passes with a lower role.
RolesGuardReversed(s, minimumRole) == RolePriorities[minimumRole] >= RolePriorities[claim[s]]

\* RolesGuard.canActivate looks at the role in the access token.
RolesGuard(s, minimumRole) == RolePriorities[minimumRole] <= RolePriorities[claim[s]]

-----------------------------------------------------------------------------
\* The handlers

\* signIn and signUp issue with the role of the row, googleCallback with `User'.
SignInRequest(c, b) ==
  /\ SignedOut(b) \/ "again" \in hazards
  /\ SignIn(c)
  /\ \E as \in {role, "User"} : Await(c, b, [NoReply EXCEPT !.role = as])

\* A mistake: the session of the access token is ended, not that of the cookie.
LogOutBearer(c, b, by) ==
  /\ cookie[b] # None
  /\ LogOut(c, by, by)
  /\ Await(c, b, NoReply)

LogOutRequest(c, b, by) ==
  /\ cookie[b] # None
  /\ LogOut(c, by, cookie[b])
  /\ Await(c, b, NoReply)

\* A mistake: the new access token has the role of the old one.
RefreshClaim(c, b) ==
  /\ cookie[b] # None
  /\ Refresh(c, cookie[b])
  /\ Await(c, b, [NoReply EXCEPT !.role = claim[cookie[b]]])

RefreshRequest(c, b) ==
  /\ cookie[b] # None
  /\ Refresh(c, cookie[b])
  /\ Await(c, b, [NoReply EXCEPT !.role = role])

\* The cookie is demanded, but not looked at.
ChangePasswordRequest(c, b, by) ==
  /\ cookie[b] # None
  /\ ChangePassword(c, by)
  /\ Await(c, b, [NoReply EXCEPT !.role = role])

\* What changes no cookie needs no reply.
Unanswered(c) ==
  /\ MayRequest(c)
  /\ UNCHANGED <<cookie, reply, role, claim>>

RevokeRequest(c, by, s) == RevokeSession(c, by, s) /\ Unanswered(c)

\* The access token's jti is excepted when there is a cookie.
RevokeAllRequest(c, b, by) ==
  RevokeAll(c, by, IF cookie[b] # None THEN by ELSE None) /\ Unanswered(c)

\* Bound: the only administrator is the user itself.
RevokeAllAdminRequest(c, by) ==
  /\ RolesGuard(by, "Admin")
  /\ RevokeAll(c, by, None)
  /\ Unanswered(c)

-----------------------------------------------------------------------------
\* The steps of a call in Sessions, and its end

Issue(c) ==
  /\ IssueTokens(c)
  /\ \E s \in Unused :
       /\ token'[s].status = "active"
       /\ claim' = [claim EXCEPT ![s] = reply[c].role]
       /\ reply' = [reply EXCEPT ![c].cookie = s]
  /\ UNCHANGED <<cookie, role>>

Proceed(c) ==
  /\ RevokeUpdate(c) \/ RevokeBlacklist(c) \/ AllFind(c) \/ AllUpdate(c)
       \/ AllBlacklist(c) \/ PasswordUpdate(c)
  /\ UNCHANGED <<cookie, reply, role, claim>>

\* The caller gets an error, which leaves its cookie alone.
Error(c) ==
  /\ Fail(c)
  /\ reply' = [reply EXCEPT ![c] = NoReply]
  /\ UNCHANGED <<cookie, role, claim>>

Answered(c) == c \in Awaited /\ call[c].at = "idle"

\* A mistake: the cookie is set only where there was none.
SetIfNone(c) ==
  [cookie EXCEPT ![reply[c].to] = IF @ = None \/ reply[c].cookie = None
                                    THEN reply[c].cookie ELSE @]

\* setRefreshTokenCookie or clearCookie
SetCookie(c) == [cookie EXCEPT ![reply[c].to] = reply[c].cookie]

Reply(c) ==
  /\ Answered(c)
  /\ cookie' = SetCookie(c)
  /\ reply' = [reply EXCEPT ![c] = NoReply]
  /\ UNCHANGED <<vars, role, claim>>

\* The connection breaks before the reply arrives, or the process dies.
LoseReply(c) ==
  /\ "loss" \in hazards
  /\ Answered(c)
  /\ reply' = [reply EXCEPT ![c] = NoReply]
  /\ UNCHANGED <<vars, cookie, role, claim>>

\* Nothing under src/ changes a role: somebody edits the table.
Demote ==
  /\ role = "Admin"
  /\ "overlap" \in hazards \/ (InFlight = {} /\ Awaited = {})
  /\ role' = "Moderator"
  /\ UNCHANGED <<vars, cookie, reply, claim>>

\* Bound: a run ends when no id is left and nobody can do anything.
NobodyLeft == IdsUsedUp /\ Awaited = {} /\ UNCHANGED authVars

Request(c) ==
  \/ \E b \in Browsers : SignInRequest(c, b) \/ RefreshRequest(c, b)
  \/ \E b \in Browsers, by \in Ids :
       LogOutRequest(c, b, by) \/ ChangePasswordRequest(c, b, by) \/ RevokeAllRequest(c, b, by)
  \/ \E by, s \in Ids : RevokeRequest(c, by, s)
  \/ \E by \in Ids : RevokeAllAdminRequest(c, by)

AuthNext ==
  \/ \E c \in Calls :
       Request(c) \/ Issue(c) \/ Proceed(c) \/ Error(c) \/ Reply(c) \/ LoseReply(c)
  \/ Demote
  \/ NobodyLeft

AuthSpec == AuthInit /\ [][AuthNext]_authVars

-----------------------------------------------------------------------------

\* A browser never holds a refresh token that has been exchanged, which would
\* lock it out (`Token already revoked'), unless the new one is on its way or
\* was lost on the way; whatever else overlaps and fails: tabs that refresh at
\* once, late replies, changed passwords (auth.controller.ts:133-139).
CookieIsUnspent ==
  "loss" \notin hazards =>
    \A b \in Browsers, s \in Ids :
      cookie[b] # None /\ token[s].parent = cookie[b] =>
        \E c \in Awaited : reply[c].cookie = s

\* Between requests, no session works that no browser holds: signing out,
\* refreshing and signing in again leave nothing open that the user believes
\* to be closed (auth.controller.ts:92).  It takes a client that signs in only
\* when it is signed out, no overlap, no error and no lost reply.
ActiveIsHeld ==
  hazards = {} /\ InFlight = {} /\ Awaited = {} =>
    \A s \in Active : \E b \in Browsers : cookie[b] = s

\* Who has lost the rights of an administrator never gets another access token
\* with them: a refresh reads the role of the row, not of the old token, and so
\* does every other way to a new one (roles.guard.ts:48).  A demotion that
\* overlaps a request can come too late for it.
AdminNow == {s \in Ids : CanActivate(s) /\ RolesGuard(s, "Admin")}

DemotionSticks ==
  [][role # "Admin" /\ "overlap" \notin hazards => AdminNow' \subseteq AdminNow]_authVars
=============================================================================
