------------------------------ MODULE Sessions ------------------------------
(***************************************************************************)
(* The sessions of one user: AuthService, SessionsController and           *)
(* JwtAuthGuard.  A session is a RefreshToken row, its refresh token and   *)
(* its access token; the blacklist in Redis holds the access tokens that   *)
(* are refused.  Sessions of different users share no row and no key.      *)
(*                                                                         *)
(* A call advances one query or Redis command at a time.  Time is left to  *)
(* Blacklist.tla: here no token expires.                                   *)
(***************************************************************************)
EXTENDS Naturals, FiniteSets, TLC

CONSTANTS Ids,          \* ids of RefreshToken rows
          Calls,        \* slots for the calls in flight
          None,
          MaxChanges,   \* bound: the password is changed this often
          Environments  \* sets of hazards

ASSUME IdsFinite == IsFiniteSet(Ids) /\ None \notin Ids
ASSUME MaxChangesNatural == MaxChanges \in Nat
ASSUME EnvironmentsKnown ==
  Environments \subseteq SUBSET {"overlap", "failure", "loss", "again", "demotion"}

VARIABLES hazards,    \* what may happen in this behaviour: calls that overlap or
                      \* fail; the others are for AuthController
          token,      \* the RefreshToken rows
          blacklist,  \* the sessions whose access token is blacklisted
          password,   \* how often the password has been changed
          call

vars == <<hazards, token, blacklist, password, call>>

\* `password' and `parent' are not columns: they record which password opened
\* the session (or the one it was refreshed from), and that predecessor.
Rows == [status : {"none", "active", "revoked"}, password : 0..MaxChanges,
         parent : Ids \cup {None}]

Steps == {"idle", "issue", "revoke.update", "revoke.blacklist", "all.find",
          "all.update", "all.blacklist", "password.update"}

CallRecords ==
  [at       : Steps,
   found    : SUBSET Ids,          \* the sessions read, to be revoked
   except   : Ids \cup {None},     \* the session whose access jti is `exceptJti'
   issues   : BOOLEAN,             \* whether tokens are issued in the end
   password : 0..MaxChanges,       \* what the user authenticated with
   parent   : Ids \cup {None}]     \* the session being refreshed

Idle == [at |-> "idle", found |-> {}, except |-> None, issues |-> FALSE,
         password |-> 0, parent |-> None]

TypeOK ==
  /\ hazards \in Environments
  /\ token \in [Ids -> Rows]
  /\ blacklist \in SUBSET Ids
  /\ password \in 0..MaxChanges
  /\ call \in [Calls -> CallRecords]

Init ==
  /\ hazards \in Environments
  /\ token = [s \in Ids |-> [status |-> "none", password |-> 0, parent |-> None]]
  /\ blacklist = {}
  /\ password = 0
  /\ call = [c \in Calls |-> Idle]

-----------------------------------------------------------------------------

Active == {s \in Ids : token[s].status = "active"}
Unused == {s \in Ids : token[s].status = "none"}
InFlight == {c \in Calls : call[c].at # "idle"}

\* Bound: no call begins that would find no id left for its tokens, or change
\* the password too often.
IdsLeft == Cardinality(Unused) > Cardinality({c \in Calls : call[c].issues})

ChangesLeft ==
  password + Cardinality({c \in Calls : call[c].at = "password.update"}) < MaxChanges

Begin(c, record) ==
  /\ call[c].at = "idle"
  /\ "overlap" \in hazards \/ InFlight = {}
  /\ record.issues => IdsLeft
  /\ call' = [call EXCEPT ![c] = record]
  /\ UNCHANGED <<hazards, token, blacklist, password>>

Advance(c, record) == call' = [call EXCEPT ![c] = record]

\* The end of a call, or its issueTokens.
AfterRevoking(record) == IF record.issues THEN [record EXCEPT !.at = "issue"] ELSE Idle

\* JwtAuthGuard.canActivate: the access token of s is let through.  The guard is
\* taken together with the first read of the handler: what that read sees does
\* not depend on the access token, and every write comes in a later step.
CanActivate(s) == token[s].status # "none" /\ s \notin blacklist

-----------------------------------------------------------------------------
\* signIn, signUp and the Google callback end in issueTokens.

SignIn(c) ==
  Begin(c, [Idle EXCEPT !.at = "issue", !.issues = TRUE, !.password = password])

IssueTokens(c) ==
  /\ call[c].at = "issue"
  /\ \E s \in Unused :
       token' = [token EXCEPT ![s] = [status |-> "active", password |-> call[c].password,
                                      parent |-> call[c].parent]]
  /\ Advance(c, Idle)
  /\ UNCHANGED <<hazards, blacklist, password>>

-----------------------------------------------------------------------------
\* logOut, refresh and revokeSession: read the row, deactivate, blacklist.

\* A mistake: a revoked session is not refused.
IsStored(s) == token[s].status # "none"

IsUsable(s) == token[s].status = "active"

LogOut(c, by, s) ==
  /\ CanActivate(by)
  /\ IsUsable(s)
  /\ Begin(c, [Idle EXCEPT !.at = "revoke.update", !.found = {s}])

Refresh(c, s) ==
  /\ IsUsable(s)
  /\ Begin(c, [Idle EXCEPT !.at = "revoke.update", !.found = {s}, !.issues = TRUE,
                           !.password = token[s].password, !.parent = s])

RevokeSession(c, by, s) ==
  /\ CanActivate(by)
  /\ token[s].status # "none"
  /\ Begin(c, [Idle EXCEPT !.at = "revoke.update", !.found = {s}])

Deactivated(found) ==
  [s \in Ids |-> IF s \in found THEN [token[s] EXCEPT !.status = "revoked"] ELSE token[s]]

\* A mistake: the access token is blacklisted before the row is updated.
BlacklistFirst(c) ==
  /\ call[c].at = "revoke.update"
  /\ blacklist' = blacklist \cup call[c].found
  /\ Advance(c, [call[c] EXCEPT !.at = "all.update"])
  /\ UNCHANGED <<hazards, token, password>>

RevokeUpdate(c) ==
  /\ call[c].at = "revoke.update"
  /\ token' = Deactivated(call[c].found)
  /\ Advance(c, [call[c] EXCEPT !.at = "revoke.blacklist"])
  /\ UNCHANGED <<hazards, blacklist, password>>

\* A mistake: the old access token stays good after a refresh.
BlacklistUnlessRefreshed(c) ==
  /\ call[c].at = "revoke.blacklist"
  /\ blacklist' = IF call[c].issues THEN blacklist ELSE blacklist \cup call[c].found
  /\ Advance(c, AfterRevoking(call[c]))
  /\ UNCHANGED <<hazards, token, password>>

RevokeBlacklist(c) ==
  /\ call[c].at = "revoke.blacklist"
  /\ blacklist' = blacklist \cup call[c].found
  /\ Advance(c, AfterRevoking(call[c]))
  /\ UNCHANGED <<hazards, token, password>>

-----------------------------------------------------------------------------
\* revokeAllSessions(userId, exceptJti) and changePassword(dto)

\* The two tokens of a session have ids of their own.
RefreshId(s) == <<"refresh", s>>
AccessJti(s) == <<"access", s>>

\* The rows that `id: { not: exceptJti }' leaves out, where exceptJti is the
\* jti of an access token (sessions.controller.ts:40-42).
Excepted(except) == {s \in Ids : except # None /\ RefreshId(s) = AccessJti(except)}

RevokeAll(c, by, except) ==
  /\ CanActivate(by)
  /\ Begin(c, [Idle EXCEPT !.at = "all.find", !.except = except])

AllFind(c) ==
  /\ call[c].at = "all.find"
  /\ Advance(c, [call[c] EXCEPT !.at = "all.update",
                                !.found = Active \ Excepted(call[c].except)])
  /\ UNCHANGED <<hazards, token, blacklist, password>>

AllUpdate(c) ==
  /\ call[c].at = "all.update"
  /\ token' = Deactivated(call[c].found)
  /\ Advance(c, IF call[c].found = {} THEN AfterRevoking(call[c])
                ELSE [call[c] EXCEPT !.at = "all.blacklist"])
  /\ UNCHANGED <<hazards, blacklist, password>>

\* The pipeline's commands are sent together, but are no transaction; none of
\* their readers looks at two sessions, so that they run in one step.
AllBlacklist(c) ==
  /\ call[c].at = "all.blacklist"
  /\ blacklist' = blacklist \cup call[c].found
  /\ Advance(c, AfterRevoking(call[c]))
  /\ UNCHANGED <<hazards, token, password>>

\* changePassword has checked the old password.
ChangePassword(c, by) ==
  /\ CanActivate(by)
  /\ ChangesLeft
  /\ Begin(c, [Idle EXCEPT !.at = "password.update", !.issues = TRUE])

\* A mistake: changePassword does not revoke the other sessions.
PasswordUpdateOnly(c) ==
  /\ call[c].at = "password.update"
  /\ password' = password + 1
  /\ Advance(c, [call[c] EXCEPT !.at = "issue", !.password = password + 1])
  /\ UNCHANGED <<hazards, token, blacklist>>

PasswordUpdate(c) ==
  /\ call[c].at = "password.update"
  /\ password' = password + 1
  /\ Advance(c, [call[c] EXCEPT !.at = "all.find", !.password = password + 1])
  /\ UNCHANGED <<hazards, token, blacklist>>

-----------------------------------------------------------------------------

\* A query or command fails or the process dies: the call is over.
Fail(c) ==
  /\ "failure" \in hazards
  /\ call[c].at # "idle"
  /\ Advance(c, Idle)
  /\ UNCHANGED <<hazards, token, blacklist, password>>

\* Bound: a run ends when no id is left and nobody can do anything.
IdsUsedUp ==
  /\ Unused = {} /\ InFlight = {}
  /\ UNCHANGED vars

StartCall(c) ==
  \/ SignIn(c)
  \/ \E s \in Ids : Refresh(c, s)
  \/ \E by, s \in Ids : LogOut(c, by, s) \/ RevokeSession(c, by, s)
  \/ \E by \in Ids, except \in Ids \cup {None} : RevokeAll(c, by, except)
  \/ \E by \in Ids : ChangePassword(c, by)

Continue(c) ==
  \/ IssueTokens(c)
  \/ RevokeUpdate(c) \/ RevokeBlacklist(c)
  \/ AllFind(c) \/ AllUpdate(c) \/ AllBlacklist(c)
  \/ PasswordUpdate(c)

Next ==
  \/ \E c \in Calls : StartCall(c) \/ Continue(c) \/ Fail(c)
  \/ IdsUsedUp

Spec == Init /\ [][Next]_vars

-----------------------------------------------------------------------------
\* What holds whatever the environment does.

\* An access token is refused only when its session has been revoked, so no
\* client is locked out of a session that still shows as active: the row is
\* updated before the blacklist in every call, also when one fails in between.
OnlyRevokedBlacklisted == \A s \in blacklist : token[s].status = "revoked"

-----------------------------------------------------------------------------
\* What holds when no command fails.

\* The access token of every revoked session is refused once the calls have
\* ended: whoever deactivates the row goes on to the blacklist, whatever else
\* overlaps (auth.service.ts:148, 188, 223, 249).
RevokedGetsBlacklisted ==
  "failure" \notin hazards /\ InFlight = {} =>
    \A s \in Ids : token[s].status = "revoked" => s \in blacklist

-----------------------------------------------------------------------------
\* What holds for one call at a time.

\* A refresh token can be used once (auth.service.spec.ts:351), also when the
\* call that used it failed half way.
RefreshedOnce ==
  "overlap" \notin hazards =>
    \A s, t \in Ids : token[s].parent # None /\ token[s].parent = token[t].parent => s = t

\* Between calls, every session that works was opened with the password of
\* today: changing it revokes all sessions (auth.controller.ts:144).
OldPasswordsOut ==
  hazards = {} /\ InFlight = {} =>
    \A s \in Active : token[s].password = password
=============================================================================
