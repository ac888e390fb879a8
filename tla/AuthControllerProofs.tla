------------------------- MODULE AuthControllerProofs -------------------------
(***************************************************************************)
(* What Sessions and AuthController keep for every set of sessions and     *)
(* browsers and however many calls overlap.  First Sessions: whichever     *)
(* calls fail, the blacklist refuses revoked sessions only; if none fails, *)
(* it comes to refuse them all.  One call at a time, a refresh token is    *)
(* exchanged once, and a changed password ends older sessions.  Then       *)
(* AuthController: it implements Sessions, a browser never holds a refresh *)
(* token that has been exchanged, every active session is held by someone  *)
(* if nothing is lost, and a demotion sticks.  Last Blacklist, which has   *)
(* its own variables: for every TTL, the key outlasts its token but for    *)
(* less than a second.                                                     *)
(***************************************************************************)
EXTENDS AuthController, Blacklist, TLAPS

-----------------------------------------------------------------------------
\* Sessions

\* The part of the types that the argument needs; it leaves out the bound on
\* password changes.
WeakRows == [status : {"none", "active", "revoked"}, password : Nat,
             parent : Ids \cup {None}]

WeakCalls == [at : Steps, found : SUBSET Ids, except : Ids \cup {None},
              issues : BOOLEAN, password : Nat, parent : Ids \cup {None}]

WeakTypes ==
  /\ token \in [Ids -> WeakRows]
  /\ blacklist \in SUBSET Ids
  /\ password \in Nat
  /\ call \in [Calls -> WeakCalls]

Blacklisting == {"revoke.blacklist", "all.blacklist"}

\* Whoever is about to write the blacklist has deactivated the rows it found.
FoundRevoked(c) ==
  call[c].at \in Blacklisting => \A s \in call[c].found : token[s].status = "revoked"

\* OnlyRevokedBlacklisted alone is not inductive: the two steps that write the
\* blacklist rely on what the step before them did, and on no row ever becoming
\* active again in between.
IInv ==
  /\ WeakTypes
  /\ OnlyRevokedBlacklisted
  /\ \A c \in Calls : FoundRevoked(c)

RevokedStay == \A s \in Ids : token[s].status = "revoked" => token'[s].status = "revoked"

-----------------------------------------------------------------------------

LEMMA IdleTyped == Idle \in WeakCalls /\ Idle.at = "idle"
BY DEF Idle, WeakCalls, Steps

LEMMA InitOK == Init => IInv
<1> SUFFICES ASSUME Init PROVE IInv
  OBVIOUS
<1>1. WeakTypes
  BY IdleTyped DEF Init, WeakTypes, WeakRows
<1>2. \A c \in Calls : FoundRevoked(c)
  BY IdleTyped DEF Init, FoundRevoked, Blacklisting
<1> QED
  BY <1>1, <1>2 DEF Init, IInv, OnlyRevokedBlacklisted

\* A step that moves one call on, never reactivates a row and writes nothing
\* into the blacklist keeps the invariant, if the call may be where it goes.
LEMMA OneCallMoves ==
  ASSUME IInv, NEW c \in Calls, NEW record \in WeakCalls,
         call' = [call EXCEPT ![c] = record],
         token' \in [Ids -> WeakRows], RevokedStay,
         blacklist' = blacklist, password' \in Nat,
         record.at \in Blacklisting =>
           \A s \in record.found : token'[s].status = "revoked"
  PROVE  IInv'
<1>1. WeakTypes'
  BY DEF IInv, WeakTypes
<1>2. OnlyRevokedBlacklisted'
  BY DEF IInv, WeakTypes, OnlyRevokedBlacklisted, RevokedStay
<1>3. ASSUME NEW d \in Calls PROVE FoundRevoked(d)'
  <2>1. CASE d = c
    BY <2>1 DEF IInv, WeakTypes, FoundRevoked
  <2>2. CASE d # c
    BY <2>2 DEF IInv, WeakTypes, WeakCalls, FoundRevoked, RevokedStay
  <2> QED
    BY <2>1, <2>2
<1> QED
  BY <1>1, <1>2, <1>3 DEF IInv

\* A call that begins or reads.
LEMMA ReadOK ==
  ASSUME IInv, NEW c \in Calls, NEW record \in WeakCalls,
         call' = [call EXCEPT ![c] = record],
         UNCHANGED <<token, blacklist, password>>,
         record.at \notin Blacklisting
  PROVE  IInv'
<1>1. RevokedStay /\ token' \in [Ids -> WeakRows] /\ password' \in Nat
  BY DEF IInv, WeakTypes, RevokedStay
<1> QED
  BY <1>1, OneCallMoves

LEMMA BeginOK ==
  ASSUME IInv, NEW c \in Calls, NEW record \in WeakCalls, Begin(c, record),
         record.at \notin Blacklisting
  PROVE  IInv'
BY ReadOK DEF Begin

LEMMA StartOK ==
  ASSUME IInv, NEW c \in Calls, StartCall(c)
  PROVE  IInv'
<1> USE DEF Blacklisting
<1>0. /\ token \in [Ids -> WeakRows] /\ password \in Nat
      /\ Idle \in WeakCalls
  BY IdleTyped DEF IInv, WeakTypes
<1>1. CASE SignIn(c)
  <2> DEFINE r == [Idle EXCEPT !.at = "issue", !.issues = TRUE, !.password = password]
  <2>1. r \in WeakCalls /\ r.at = "issue"
    BY <1>0 DEF Idle, WeakCalls, Steps
  <2>2. Begin(c, r)
    BY <1>1 DEF SignIn
  <2> QED
    BY <2>1, <2>2, BeginOK
<1>2. ASSUME NEW s \in Ids, Refresh(c, s) PROVE IInv'
  <2> DEFINE r == [Idle EXCEPT !.at = "revoke.update", !.found = {s}, !.issues = TRUE,
                               !.password = token[s].password, !.parent = s]
  <2>1. r \in WeakCalls /\ r.at = "revoke.update"
    BY <1>0 DEF Idle, WeakCalls, WeakRows, Steps
  <2>2. Begin(c, r)
    BY <1>2 DEF Refresh
  <2> QED
    BY <2>1, <2>2, BeginOK
<1>3. ASSUME NEW by \in Ids, NEW s \in Ids, LogOut(c, by, s) \/ RevokeSession(c, by, s)
      PROVE  IInv'
  <2> DEFINE r == [Idle EXCEPT !.at = "revoke.update", !.found = {s}]
  <2>1. r \in WeakCalls /\ r.at = "revoke.update"
    BY <1>0 DEF Idle, WeakCalls, Steps
  <2>2. Begin(c, r)
    BY <1>3 DEF LogOut, RevokeSession
  <2> QED
    BY <2>1, <2>2, BeginOK
<1>4. ASSUME NEW by \in Ids, NEW except \in Ids \cup {None}, RevokeAll(c, by, except)
      PROVE  IInv'
  <2> DEFINE r == [Idle EXCEPT !.at = "all.find", !.except = except]
  <2>1. r \in WeakCalls /\ r.at = "all.find"
    BY <1>0 DEF Idle, WeakCalls, Steps
  <2>2. Begin(c, r)
    BY <1>4 DEF RevokeAll
  <2> QED
    BY <2>1, <2>2, BeginOK
<1>5. ASSUME NEW by \in Ids, ChangePassword(c, by) PROVE IInv'
  <2> DEFINE r == [Idle EXCEPT !.at = "password.update", !.issues = TRUE]
  <2>1. r \in WeakCalls /\ r.at = "password.update"
    BY <1>0 DEF Idle, WeakCalls, Steps
  <2>2. Begin(c, r)
    BY <1>5 DEF ChangePassword
  <2> QED
    BY <2>1, <2>2, BeginOK
<1> QED
  BY <1>1, <1>2, <1>3, <1>4, <1>5 DEF StartCall

-----------------------------------------------------------------------------

\* A row that is issued was not there before.
LEMMA IssueOK ==
  ASSUME IInv, NEW c \in Calls, IssueTokens(c)
  PROVE  IInv'
<1>1. PICK s \in Unused :
        token' = [token EXCEPT ![s] = [status |-> "active", password |-> call[c].password,
                                       parent |-> call[c].parent]]
  BY DEF IssueTokens
<1>2. /\ token \in [Ids -> WeakRows] /\ call[c] \in WeakCalls
      /\ s \in Ids /\ token[s].status = "none"
  BY DEF IInv, WeakTypes, Unused
<1>3. [status |-> "active", password |-> call[c].password, parent |-> call[c].parent] \in WeakRows
  BY <1>2 DEF WeakRows, WeakCalls
<1>4. token' \in [Ids -> WeakRows] /\ RevokedStay
  BY <1>1, <1>2, <1>3 DEF RevokedStay
<1>5. /\ call' = [call EXCEPT ![c] = Idle]
      /\ blacklist' = blacklist /\ password' \in Nat
  BY DEF IssueTokens, Advance, IInv, WeakTypes
<1> QED
  BY <1>4, <1>5, IdleTyped, OneCallMoves DEF Blacklisting

LEMMA DeactivatedRows ==
  ASSUME token \in [Ids -> WeakRows], NEW found \in SUBSET Ids, token' = Deactivated(found)
  PROVE  /\ token' \in [Ids -> WeakRows]
         /\ RevokedStay
         /\ \A s \in found : token'[s].status = "revoked"
<1>1. ASSUME NEW s \in Ids
      PROVE  /\ s \in found => token'[s] = [token[s] EXCEPT !.status = "revoked"]
             /\ s \notin found => token'[s] = token[s]
             /\ token[s] \in WeakRows
  BY DEF Deactivated
<1>2. ASSUME NEW s \in Ids
      PROVE  /\ [token[s] EXCEPT !.status = "revoked"] \in WeakRows
             /\ [token[s] EXCEPT !.status = "revoked"].status = "revoked"
  BY <1>1 DEF WeakRows
<1>3. token' = [s \in Ids |-> token'[s]]
  BY DEF Deactivated
<1>4. \A s \in Ids : token'[s] \in WeakRows
  BY <1>1, <1>2
<1>5. RevokedStay /\ \A s \in found : token'[s].status = "revoked"
  BY <1>1, <1>2 DEF RevokedStay
<1> QED
  BY <1>3, <1>4, <1>5

LEMMA AfterRevokingTyped ==
  ASSUME NEW record \in WeakCalls
  PROVE  /\ AfterRevoking(record) \in WeakCalls
         /\ AfterRevoking(record).at \notin Blacklisting
BY IdleTyped DEF AfterRevoking, WeakCalls, Steps, Blacklisting

\* RevokeUpdate and AllUpdate: the rows found are revoked when the call goes on
\* to the blacklist.
LEMMA UpdateOK ==
  ASSUME IInv, NEW c \in Calls, RevokeUpdate(c) \/ AllUpdate(c)
  PROVE  IInv'
<1> DEFINE found == call[c].found
<1>1. /\ token \in [Ids -> WeakRows] /\ call[c] \in WeakCalls /\ found \in SUBSET Ids
      /\ password \in Nat
  BY DEF IInv, WeakTypes, WeakCalls
<1>2. token' = Deactivated(found) /\ UNCHANGED <<blacklist, password>>
  BY DEF RevokeUpdate, AllUpdate
<1>3. /\ token' \in [Ids -> WeakRows] /\ RevokedStay
      /\ \A s \in found : token'[s].status = "revoked"
  BY <1>1, <1>2, DeactivatedRows
<1>4. PICK record \in WeakCalls :
        /\ call' = [call EXCEPT ![c] = record]
        /\ record.found = found \/ record.at \notin Blacklisting
  <2>1. CASE RevokeUpdate(c)
    <3> DEFINE r == [call[c] EXCEPT !.at = "revoke.blacklist"]
    <3>1. r \in WeakCalls /\ r.found = found
      BY <1>1 DEF WeakCalls, Steps
    <3> QED
      BY <2>1, <3>1 DEF RevokeUpdate, Advance
  <2>2. CASE AllUpdate(c) /\ found = {}
    BY <1>1, <2>2, AfterRevokingTyped DEF AllUpdate, Advance
  <2>3. CASE AllUpdate(c) /\ found # {}
    <3> DEFINE r == [call[c] EXCEPT !.at = "all.blacklist"]
    <3>1. r \in WeakCalls /\ r.found = found
      BY <1>1 DEF WeakCalls, Steps
    <3> QED
      BY <2>3, <3>1 DEF AllUpdate, Advance
  <2> QED
    BY <2>1, <2>2, <2>3
<1> QED
  BY <1>1, <1>2, <1>3, <1>4, OneCallMoves

\* RevokeBlacklist and AllBlacklist write what FoundRevoked speaks of.
LEMMA BlacklistOK ==
  ASSUME IInv, NEW c \in Calls, RevokeBlacklist(c) \/ AllBlacklist(c)
  PROVE  IInv'
<1>1. /\ call[c] \in WeakCalls
      /\ blacklist' = blacklist \cup call[c].found
      /\ UNCHANGED <<token, password>>
      /\ call' = [call EXCEPT ![c] = AfterRevoking(call[c])]
      /\ call[c].at \in Blacklisting
  BY DEF IInv, WeakTypes, RevokeBlacklist, AllBlacklist, Advance, Blacklisting
<1>2. \A s \in call[c].found : token[s].status = "revoked"
  BY <1>1 DEF IInv, FoundRevoked
<1>3. WeakTypes'
  <2>1. call[c].found \subseteq Ids
    BY <1>1 DEF WeakCalls
  <2> QED
    BY <1>1, <2>1, AfterRevokingTyped DEF IInv, WeakTypes
<1>4. OnlyRevokedBlacklisted'
  BY <1>1, <1>2 DEF IInv, OnlyRevokedBlacklisted
<1>5. ASSUME NEW d \in Calls PROVE FoundRevoked(d)'
  BY <1>1, AfterRevokingTyped DEF IInv, WeakTypes, FoundRevoked
<1> QED
  BY <1>3, <1>4, <1>5 DEF IInv

LEMMA AllFindOK ==
  ASSUME IInv, NEW c \in Calls, AllFind(c)
  PROVE  IInv'
<1> DEFINE r == [call[c] EXCEPT !.at = "all.update", !.found = Active \ Excepted(call[c].except)]
<1>1. call[c] \in WeakCalls /\ Active \subseteq Ids
  BY DEF IInv, WeakTypes, Active
<1>2. r \in WeakCalls /\ r.at = "all.update"
  BY <1>1 DEF WeakCalls, Steps
<1>3. call' = [call EXCEPT ![c] = r] /\ UNCHANGED <<token, blacklist, password>>
  BY DEF AllFind, Advance
<1> QED
  BY <1>2, <1>3, ReadOK DEF Blacklisting

LEMMA PasswordUpdateOK ==
  ASSUME IInv, NEW c \in Calls, PasswordUpdate(c)
  PROVE  IInv'
<1> DEFINE r == [call[c] EXCEPT !.at = "all.find", !.password = password + 1]
<1>1. /\ call[c] \in WeakCalls /\ password \in Nat /\ token \in [Ids -> WeakRows]
  BY DEF IInv, WeakTypes
<1>2. r \in WeakCalls /\ r.at = "all.find"
  <2>1. ASSUME NEW p \in Nat, NEW k \in WeakCalls
        PROVE  [k EXCEPT !.at = "all.find", !.password = p] \in WeakCalls
    BY DEF WeakCalls, Steps
  <2>2. password + 1 \in Nat
    BY <1>1
  <2>3. r \in WeakCalls
    BY <1>1, <2>1, <2>2
  <2> QED
    BY <1>1, <2>3 DEF WeakCalls
<1>3. /\ call' = [call EXCEPT ![c] = r] /\ UNCHANGED <<token, blacklist>>
      /\ password' = password + 1
  BY DEF PasswordUpdate, Advance
<1>4. RevokedStay /\ token' \in [Ids -> WeakRows] /\ password' \in Nat
  BY <1>1, <1>3 DEF RevokedStay
<1> QED
  BY <1>2, <1>3, <1>4, OneCallMoves DEF Blacklisting

LEMMA FailOK ==
  ASSUME IInv, NEW c \in Calls, Fail(c)
  PROVE  IInv'
<1>1. call' = [call EXCEPT ![c] = Idle] /\ UNCHANGED <<token, blacklist, password>>
  BY DEF Fail, Advance
<1> QED
  BY <1>1, IdleTyped, ReadOK DEF Blacklisting

LEMMA NextOK == IInv /\ [Next]_vars => IInv'
<1> SUFFICES ASSUME IInv, [Next]_vars PROVE IInv'
  OBVIOUS
<1>1. ASSUME NEW c \in Calls, StartCall(c) \/ Continue(c) \/ Fail(c) PROVE IInv'
  BY <1>1, StartOK, IssueOK, UpdateOK, BlacklistOK, AllFindOK, PasswordUpdateOK, FailOK
     DEF Continue
<1>2. CASE UNCHANGED vars
  BY <1>2 DEF vars, IInv, WeakTypes, OnlyRevokedBlacklisted, FoundRevoked
<1> QED
  BY <1>1, <1>2 DEF Next, IdsUsedUp

-----------------------------------------------------------------------------

\* However calls overlap and fail, no client is refused while its session still
\* shows as active (auth.service.ts:143-149).
THEOREM OnlyRevokedRefused == Spec => []OnlyRevokedBlacklisted
<1>1. Spec => []IInv
  BY InitOK, NextOK, PTL DEF Spec
<1>2. IInv => OnlyRevokedBlacklisted
  BY DEF IInv
<1> QED
  BY <1>1, <1>2, PTL

-----------------------------------------------------------------------------
\* What a step of a call does, with its record afterwards

Fields(r, k) ==
  /\ r.found = k.found /\ r.except = k.except /\ r.issues = k.issues
  /\ r.password = k.password /\ r.parent = k.parent

\* The calls that may begin.
Begun(r) ==
  \/ r.at = "issue" /\ r.issues /\ r.parent = None /\ r.password = password
  \/ \E s \in Ids : /\ r.at = "revoke.update" /\ r.found = {s}
                    /\ \/ ~r.issues /\ r.parent = None
                       \/ /\ r.issues /\ r.parent = s /\ token[s].status = "active"
                          /\ r.password = token[s].password
  \/ r.at = "all.find" /\ ~r.issues /\ r.parent = None
  \/ r.at = "password.update" /\ r.issues /\ r.parent = None /\ r.except = None

LEMMA StartEffects ==
  ASSUME IInv, NEW c \in Calls, StartCall(c)
  PROVE  /\ \E r \in WeakCalls : call' = [call EXCEPT ![c] = r] /\ Begun(r)
         /\ call[c].at = "idle" /\ ("overlap" \in hazards \/ InFlight = {})
         /\ UNCHANGED <<hazards, token, blacklist, password>>
<1>0. /\ token \in [Ids -> WeakRows] /\ password \in Nat
      /\ Idle \in WeakCalls
  BY IdleTyped DEF IInv, WeakTypes
<1>1. ASSUME NEW r, Begin(c, r)
      PROVE  /\ call' = [call EXCEPT ![c] = r] /\ call[c].at = "idle"
             /\ "overlap" \in hazards \/ InFlight = {}
             /\ UNCHANGED <<hazards, token, blacklist, password>>
  BY <1>1 DEF Begin
<1>2. CASE SignIn(c)
  <2>1. PICK r : r = [Idle EXCEPT !.at = "issue", !.issues = TRUE, !.password = password]
    OBVIOUS
  <2>2. r \in WeakCalls /\ Begun(r)
    BY <1>0, <2>1 DEF Idle, WeakCalls, Steps, Begun
  <2>3. Begin(c, r)
    BY <1>2, <2>1 DEF SignIn
  <2> QED
    BY <1>1, <2>2, <2>3
<1>3. ASSUME NEW s \in Ids, Refresh(c, s)
      PROVE  \E r \in WeakCalls : Begin(c, r) /\ Begun(r)
  <2>1. PICK r : r = [Idle EXCEPT !.at = "revoke.update", !.found = {s}, !.issues = TRUE,
                                  !.password = token[s].password, !.parent = s]
    OBVIOUS
  <2>2. token[s].status = "active" /\ token[s].password \in Nat /\ Begin(c, r)
    BY <1>0, <1>3, <2>1 DEF Refresh, IsUsable, WeakRows
  <2>3. /\ r.at = "revoke.update" /\ r.found = {s} /\ r.issues = TRUE
        /\ r.password = token[s].password /\ r.parent = s /\ r \in WeakCalls
    BY <1>0, <2>1, <2>2 DEF Idle, WeakCalls, Steps
  <2> QED
    BY <2>2, <2>3 DEF Begun
<1>4. ASSUME NEW by \in Ids, NEW s \in Ids, LogOut(c, by, s) \/ RevokeSession(c, by, s)
      PROVE  \E r \in WeakCalls : Begin(c, r) /\ Begun(r)
  <2>1. PICK r : r = [Idle EXCEPT !.at = "revoke.update", !.found = {s}]
    OBVIOUS
  <2>2. Begin(c, r)
    BY <1>4, <2>1 DEF LogOut, RevokeSession
  <2>3. /\ r.at = "revoke.update" /\ r.found = {s} /\ r.issues = FALSE
        /\ r.parent = None /\ r \in WeakCalls
    BY <1>0, <2>1 DEF Idle, WeakCalls, Steps
  <2> QED
    BY <2>2, <2>3 DEF Begun
<1>5. ASSUME NEW by \in Ids, NEW except \in Ids \cup {None}, RevokeAll(c, by, except)
      PROVE  \E r \in WeakCalls : Begin(c, r) /\ Begun(r)
  <2>1. PICK r : r = [Idle EXCEPT !.at = "all.find", !.except = except]
    OBVIOUS
  <2>2. Begin(c, r)
    BY <1>5, <2>1 DEF RevokeAll
  <2>3. r.at = "all.find" /\ r.issues = FALSE /\ r.parent = None /\ r \in WeakCalls
    BY <1>0, <2>1 DEF Idle, WeakCalls, Steps
  <2> QED
    BY <2>2, <2>3 DEF Begun
<1>6. ASSUME NEW by \in Ids, ChangePassword(c, by)
      PROVE  \E r \in WeakCalls : Begin(c, r) /\ Begun(r)
  <2>1. PICK r : r = [Idle EXCEPT !.at = "password.update", !.issues = TRUE]
    OBVIOUS
  <2>2. Begin(c, r)
    BY <1>6, <2>1 DEF ChangePassword
  <2>3. /\ r.at = "password.update" /\ r.issues = TRUE /\ r.parent = None /\ r.except = None
        /\ r \in WeakCalls
    BY <1>0, <2>1 DEF Idle, WeakCalls, Steps
  <2> QED
    BY <2>2, <2>3 DEF Begun
<1> QED
  BY <1>1, <1>2, <1>3, <1>4, <1>5, <1>6 DEF StartCall

\* A call that deactivates what it found.
LEMMA UpdateEffects ==
  ASSUME IInv, NEW c \in Calls, RevokeUpdate(c) \/ AllUpdate(c)
  PROVE  /\ \E r \in WeakCalls :
              /\ call' = [call EXCEPT ![c] = r]
              /\ \/ r.at \in Blacklisting /\ Fields(r, call[c])
                      /\ (r.at = "revoke.blacklist" <=> call[c].at = "revoke.update")
                 \/ call[c].at = "all.update" /\ call[c].found = {} /\ r = AfterRevoking(call[c])
         /\ token' = Deactivated(call[c].found)
         /\ UNCHANGED <<hazards, blacklist, password>>
         /\ call[c].at \in {"revoke.update", "all.update"}
<1>1. call[c] \in WeakCalls
  BY DEF IInv, WeakTypes
<1>2. /\ token' = Deactivated(call[c].found) /\ UNCHANGED <<hazards, blacklist, password>>
      /\ call[c].at \in {"revoke.update", "all.update"}
  BY DEF RevokeUpdate, AllUpdate
<1>3. CASE call' = [call EXCEPT ![c] = AfterRevoking(call[c])]
             /\ call[c].at = "all.update" /\ call[c].found = {}
  BY <1>1, <1>2, <1>3, AfterRevokingTyped
<1>4. ASSUME NEW step \in Blacklisting, call' = [call EXCEPT ![c] = [call[c] EXCEPT !.at = step]],
             step = "revoke.blacklist" <=> call[c].at = "revoke.update"
      PROVE  \E r \in WeakCalls :
               /\ call' = [call EXCEPT ![c] = r] /\ r.at \in Blacklisting /\ Fields(r, call[c])
               /\ (r.at = "revoke.blacklist" <=> call[c].at = "revoke.update")
  <2>1. PICK r : r = [call[c] EXCEPT !.at = step]
    OBVIOUS
  <2>2. r \in WeakCalls /\ r.at = step /\ Fields(r, call[c])
    BY <1>1, <2>1 DEF WeakCalls, Steps, Blacklisting, Fields
  <2> QED
    BY <1>4, <2>1, <2>2
<1>5. \/ call' = [call EXCEPT ![c] = AfterRevoking(call[c])]
           /\ call[c].at = "all.update" /\ call[c].found = {}
      \/ call[c].at = "revoke.update"
           /\ call' = [call EXCEPT ![c] = [call[c] EXCEPT !.at = "revoke.blacklist"]]
      \/ call[c].at = "all.update"
           /\ call' = [call EXCEPT ![c] = [call[c] EXCEPT !.at = "all.blacklist"]]
  BY DEF RevokeUpdate, AllUpdate, Advance
<1>6. "revoke.blacklist" \in Blacklisting /\ "all.blacklist" \in Blacklisting
  BY DEF Blacklisting
<1> QED
  BY <1>2, <1>3, <1>4, <1>5, <1>6

-----------------------------------------------------------------------------
\* When no command fails: every revoked session is refused in the end

Covered ==
  \A s \in Ids :
    token[s].status = "revoked" =>
      s \in blacklist \/ \E c \in Calls : call[c].at \in Blacklisting /\ s \in call[c].found

\* A call that goes on leaves nothing behind that it should have refused.
LEMMA StaysCovered ==
  ASSUME IInv, Covered, NEW c \in Calls, NEW r \in WeakCalls, call' = [call EXCEPT ![c] = r],
         blacklist \subseteq blacklist',
         call[c].at \in Blacklisting => call[c].found \subseteq blacklist',
         \A s \in Ids : token'[s].status = "revoked" =>
                          \/ token[s].status = "revoked"
                          \/ r.at \in Blacklisting /\ s \in r.found
  PROVE  Covered'
<1>1. \A e \in Calls : call'[e] = IF e = c THEN r ELSE call[e]
  BY DEF IInv, WeakTypes
<1> SUFFICES ASSUME NEW s \in Ids, token'[s].status = "revoked"
             PROVE  s \in blacklist' \/ \E e \in Calls : call'[e].at \in Blacklisting
                                                         /\ s \in call'[e].found
  BY DEF Covered
<1>2. CASE token[s].status = "revoked"
  BY <1>1, <1>2 DEF Covered
<1>3. CASE r.at \in Blacklisting /\ s \in r.found
  BY <1>1, <1>3
<1> QED
  BY <1>2, <1>3

LEMMA CoveredNext ==
  ASSUME IInv, Covered, [Next]_vars, "failure" \notin hazards
  PROVE  Covered'
<1>1. ASSUME NEW c \in Calls, StartCall(c) PROVE Covered'
  <2>1. PICK r \in WeakCalls : call' = [call EXCEPT ![c] = r]
    BY <1>1, StartEffects
  <2>2. call[c].at \notin Blacklisting /\ UNCHANGED <<token, blacklist>>
    BY <1>1, StartEffects DEF Blacklisting
  <2> QED
    BY <2>1, <2>2, StaysCovered
<1>2. ASSUME NEW c \in Calls, IssueTokens(c) PROVE Covered'
  <2>1. /\ call' = [call EXCEPT ![c] = Idle] /\ Idle \in WeakCalls
        /\ UNCHANGED blacklist /\ call[c].at \notin Blacklisting
    BY <1>2, IdleTyped DEF IssueTokens, Advance, Blacklisting
  <2>2. \A s \in Ids : token'[s].status = "revoked" => token[s].status = "revoked"
    <3> DEFINE row == [status |-> "active", password |-> call[c].password,
                       parent |-> call[c].parent]
    <3>1. PICK n \in Unused : token' = [token EXCEPT ![n] = row]
      BY <1>2 DEF IssueTokens
    <3>2. row.status = "active"
      OBVIOUS
    <3>3. \A s \in Ids : token'[s] = IF s = n THEN row ELSE token[s]
      <4> HIDE DEF row
      <4> QED
        BY <3>1 DEF IInv, WeakTypes, Unused
    <3> QED
      BY <3>2, <3>3
  <2> QED
    BY <2>1, <2>2, StaysCovered
<1>3. ASSUME NEW c \in Calls, RevokeUpdate(c) \/ AllUpdate(c) PROVE Covered'
  <2>1. /\ token' = Deactivated(call[c].found) /\ UNCHANGED blacklist
        /\ call[c].at \notin Blacklisting
    BY <1>3, UpdateEffects DEF Blacklisting
  <2>2. \A s \in Ids : token'[s].status = "revoked" =>
                         token[s].status = "revoked" \/ s \in call[c].found
    BY <2>1 DEF Deactivated
  <2>3. PICK r \in WeakCalls :
          /\ call' = [call EXCEPT ![c] = r]
          /\ (r.at \in Blacklisting /\ r.found = call[c].found) \/ call[c].found = {}
    BY <1>3, UpdateEffects DEF Fields
  <2> QED
    BY <2>1, <2>2, <2>3, StaysCovered
<1>4. ASSUME NEW c \in Calls, RevokeBlacklist(c) \/ AllBlacklist(c) PROVE Covered'
  <2>1. /\ call' = [call EXCEPT ![c] = AfterRevoking(call[c])] /\ UNCHANGED token
        /\ blacklist' = blacklist \cup call[c].found
        /\ AfterRevoking(call[c]) \in WeakCalls
    BY <1>4, AfterRevokingTyped DEF RevokeBlacklist, AllBlacklist, Advance, IInv, WeakTypes
  <2> QED
    BY <2>1, StaysCovered
<1>5. ASSUME NEW c \in Calls, AllFind(c) \/ PasswordUpdate(c) PROVE Covered'
  <2>1. UNCHANGED <<token, blacklist>> /\ call[c].at \notin Blacklisting
    BY <1>5 DEF AllFind, PasswordUpdate, Blacklisting
  <2>2. \A e \in Calls : e # c => call'[e] = call[e]
    BY <1>5 DEF AllFind, PasswordUpdate, Advance, IInv, WeakTypes
  <2> QED
    BY <2>1, <2>2 DEF Covered
<1>6. CASE UNCHANGED vars
  BY <1>6 DEF vars, Covered
<1>7. \A c \in Calls : ~Fail(c)
  BY DEF Fail
<1> QED
  BY <1>1, <1>2, <1>3, <1>4, <1>5, <1>6, <1>7 DEF Next, Continue, IdsUsedUp

LEMMA HazardsStay == [Next]_vars => hazards' = hazards
<1>1. ASSUME NEW c \in Calls, StartCall(c) PROVE hazards' = hazards
  BY <1>1 DEF StartCall, SignIn, Refresh, LogOut, RevokeSession, RevokeAll, ChangePassword, Begin
<1>2. ASSUME NEW c \in Calls, Continue(c) \/ Fail(c) PROVE hazards' = hazards
  BY <1>2 DEF Continue, IssueTokens, RevokeUpdate, RevokeBlacklist, AllFind, AllUpdate,
              AllBlacklist, PasswordUpdate, Fail
<1> QED
  BY <1>1, <1>2 DEF Next, IdsUsedUp, vars

\* Unless a command fails, the access token of every revoked session is refused
\* once the calls have ended, however many of them overlap
\* (auth.service.ts:148, 188, 223, 249).
THEOREM RevokedAlwaysBlacklisted == Spec => []RevokedGetsBlacklisted
<1> DEFINE CoverInv == IInv /\ ("failure" \notin hazards => Covered)
<1>1. Init => CoverInv
  BY InitOK DEF Init, Covered
<1>2. CoverInv /\ [Next]_vars => CoverInv'
  BY NextOK, CoveredNext, HazardsStay
<1>3. CoverInv => RevokedGetsBlacklisted
  BY DEF RevokedGetsBlacklisted, Covered, InFlight, Blacklisting
<1>4. Spec => []CoverInv
  <2> HIDE DEF CoverInv
  <2> QED
    BY <1>1, <1>2, PTL DEF Spec
<1> QED
  BY <1>3, <1>4, PTL
-----------------------------------------------------------------------------
\* One call at a time: a refresh token is exchanged once

OneAtATime == \A c, d \in InFlight : c = d

DistinctParents ==
  \A s, t \in Ids : token[s].parent # None /\ token[s].parent = token[t].parent => s = t

ParentsRevoked ==
  \A s \in Ids : token[s].parent # None => token[token[s].parent].status = "revoked"

\* A refresh under way will be the first of its session, which is revoked by
\* the time the new tokens are issued.
FirstRefresh(c) ==
  call[c].at # "idle" /\ call[c].parent # None =>
    /\ \A t \in Ids : token[t].parent # call[c].parent
    /\ \/ call[c].at = "revoke.update" /\ call[c].parent \in call[c].found
       \/ /\ call[c].at \in {"revoke.blacklist", "issue"}
          /\ token[call[c].parent].status = "revoked"

SoloInv ==
  /\ IInv
  /\ OneAtATime
  /\ DistinctParents
  /\ ParentsRevoked
  /\ \A c \in Calls : FirstRefresh(c)

\* A step of the only call that leaves the predecessors alone.
LEMMA SoloMoves ==
  ASSUME SoloInv, IInv', NEW c \in Calls, NEW r \in WeakCalls, call' = [call EXCEPT ![c] = r],
         InFlight \subseteq {c},
         \A s \in Ids : token'[s].parent = token[s].parent, RevokedStay,
         r.at # "idle" /\ r.parent # None =>
           /\ \A t \in Ids : token[t].parent # r.parent
           /\ \/ r.at = "revoke.update" /\ r.parent \in r.found
              \/ r.at \in {"revoke.blacklist", "issue"} /\ token'[r.parent].status = "revoked"
  PROVE  SoloInv'
<1>1. \A e \in Calls : call'[e] = IF e = c THEN r ELSE call[e]
  BY DEF SoloInv, IInv, WeakTypes
<1>2. \A e \in Calls : e # c => call'[e].at = "idle"
  BY <1>1 DEF InFlight
<1>3. OneAtATime'
  BY <1>2 DEF OneAtATime, InFlight
<1>4. DistinctParents'
  BY DEF SoloInv, DistinctParents
<1>5. ParentsRevoked'
  <2>1. \A s \in Ids : token[s].parent # None => token[s].parent \in Ids
    BY DEF SoloInv, IInv, WeakTypes, WeakRows
  <2> QED
    BY <2>1 DEF SoloInv, ParentsRevoked, RevokedStay
<1>6. ASSUME NEW e \in Calls PROVE FirstRefresh(e)'
  <2>1. CASE e = c
    BY <1>1, <2>1 DEF FirstRefresh
  <2>2. CASE e # c
    BY <1>2, <2>2 DEF FirstRefresh
  <2> QED
    BY <2>1, <2>2
<1> QED
  BY <1>3, <1>4, <1>5, <1>6 DEF SoloInv

LEMMA SoloIssue ==
  ASSUME SoloInv, IInv', NEW c \in Calls, IssueTokens(c), InFlight \subseteq {c}
  PROVE  SoloInv'
<1>1. PICK n \in Unused :
        token' = [token EXCEPT ![n] = [status |-> "active", password |-> call[c].password,
                                       parent |-> call[c].parent]]
  BY DEF IssueTokens
<1>2. n \in Ids /\ token[n].status = "none" /\ token \in [Ids -> WeakRows]
  BY DEF Unused, SoloInv, IInv, WeakTypes
<1>3. \A s \in Ids : /\ token'[s].parent = IF s = n THEN call[c].parent ELSE token[s].parent
                     /\ s # n => token'[s] = token[s]
  BY <1>1, <1>2
<1>4. call' = [call EXCEPT ![c] = Idle] /\ call \in [Calls -> WeakCalls]
  BY DEF IssueTokens, Advance, SoloInv, IInv, WeakTypes
<1>5. \A e \in Calls : call'[e].at = "idle"
  BY <1>4, IdleTyped DEF InFlight
<1>6. call[c].parent # None =>
        /\ \A t \in Ids : token[t].parent # call[c].parent
        /\ call[c].parent \in Ids /\ token[call[c].parent].status = "revoked"
  BY <1>4 DEF SoloInv, FirstRefresh, IssueTokens, WeakCalls
<1>7. OneAtATime' /\ \A e \in Calls : FirstRefresh(e)'
  BY <1>5 DEF OneAtATime, InFlight, FirstRefresh
<1>8. DistinctParents'
  BY <1>3, <1>6 DEF SoloInv, DistinctParents
<1>9. ParentsRevoked'
  <2>1. \A s \in Ids : token[s].parent # None => token[s].parent \in Ids
    BY <1>2 DEF WeakRows
  <2> QED
    BY <1>2, <1>3, <1>6, <2>1 DEF SoloInv, ParentsRevoked
<1> QED
  BY <1>7, <1>8, <1>9 DEF SoloInv

LEMMA AfterRevokingKeeps ==
  ASSUME NEW k \in WeakCalls
  PROVE  /\ AfterRevoking(k).at # "password.update"
         /\ AfterRevoking(k).at # "idle" =>
              /\ AfterRevoking(k).at = "issue" /\ k.issues
              /\ AfterRevoking(k).issues = k.issues
              /\ AfterRevoking(k).password = k.password
              /\ AfterRevoking(k).parent = k.parent
<1>1. CASE k.issues
  <2>1. PICK r : r = [k EXCEPT !.at = "issue"]
    OBVIOUS
  <2>2. /\ r.at = "issue" /\ r.issues = k.issues
        /\ r.password = k.password /\ r.parent = k.parent
    BY <2>1 DEF WeakCalls
  <2> QED
    BY <1>1, <2>1, <2>2 DEF AfterRevoking
<1>2. CASE ~k.issues
  BY <1>2, IdleTyped DEF AfterRevoking
<1> QED
  BY <1>1, <1>2

LEMMA OnlyCall ==
  ASSUME OneAtATime, NEW c \in Calls, call[c].at # "idle"
  PROVE  InFlight \subseteq {c}
BY DEF OneAtATime, InFlight

LEMMA ReadingKeeps ==
  ASSUME IInv, NEW c \in Calls, AllFind(c) \/ PasswordUpdate(c)
  PROVE  \E r \in WeakCalls :
           /\ call' = [call EXCEPT ![c] = r]
           /\ r.parent = call[c].parent /\ r.issues = call[c].issues
           /\ AllFind(c) => /\ r.at = "all.update" /\ r.password = call[c].password
                            /\ r.found = Active \ Excepted(call[c].except)
           /\ PasswordUpdate(c) => /\ r.at = "all.find" /\ r.password = password + 1
                                   /\ r.except = call[c].except
<1>1. call[c] \in WeakCalls /\ password \in Nat /\ Active \subseteq Ids
  BY DEF IInv, WeakTypes, Active
<1>2. ~(AllFind(c) /\ PasswordUpdate(c))
  BY DEF AllFind, PasswordUpdate
<1>3. CASE AllFind(c)
  <2>1. PICK r : r = [call[c] EXCEPT !.at = "all.update",
                                     !.found = Active \ Excepted(call[c].except)]
    OBVIOUS
  <2>2. /\ r \in WeakCalls /\ r.at = "all.update" /\ r.password = call[c].password
        /\ r.parent = call[c].parent /\ r.issues = call[c].issues
        /\ r.found = Active \ Excepted(call[c].except)
    BY <1>1, <2>1 DEF WeakCalls, Steps
  <2>3. call' = [call EXCEPT ![c] = r]
    BY <1>3, <2>1 DEF AllFind, Advance
  <2> QED
    BY <1>2, <1>3, <2>2, <2>3
<1>4. CASE PasswordUpdate(c)
  <2>1. PICK p : p = password + 1
    OBVIOUS
  <2>2. PICK r : r = [call[c] EXCEPT !.at = "all.find", !.password = p]
    OBVIOUS
  <2>3. p \in Nat
    BY <1>1, <2>1
  <2>4. /\ r \in WeakCalls /\ r.at = "all.find" /\ r.password = p /\ r.except = call[c].except
        /\ r.parent = call[c].parent /\ r.issues = call[c].issues
    BY <1>1, <2>2, <2>3 DEF WeakCalls, Steps
  <2>5. call' = [call EXCEPT ![c] = r]
    BY <1>4, <2>1, <2>2 DEF PasswordUpdate, Advance
  <2> QED
    BY <1>2, <1>4, <2>1, <2>4, <2>5
<1> QED
  BY <1>3, <1>4

LEMMA SoloNext ==
  ASSUME SoloInv, [Next]_vars, "overlap" \notin hazards
  PROVE  SoloInv'
<1>0. IInv' /\ IInv
  BY NextOK DEF SoloInv
<1>1. ASSUME UNCHANGED token
      PROVE  RevokedStay /\ \A s \in Ids : token'[s].parent = token[s].parent
  BY <1>1 DEF RevokedStay
<1>2. ASSUME NEW c \in Calls, StartCall(c) PROVE SoloInv'
  <2>1. PICK r \in WeakCalls : call' = [call EXCEPT ![c] = r] /\ Begun(r)
    BY <1>0, <1>2, StartEffects
  <2>2. InFlight = {} /\ UNCHANGED token
    BY <1>0, <1>2, StartEffects
  <2>3. r.parent # None =>
          /\ r.at = "revoke.update" /\ r.parent \in r.found /\ r.parent \in Ids
          /\ token[r.parent].status = "active"
    BY <2>1 DEF Begun
  <2>4. r.parent # None => \A t \in Ids : token[t].parent # r.parent
    BY <2>3 DEF SoloInv, ParentsRevoked
  <2> QED
    BY <1>0, <1>1, <2>1, <2>2, <2>3, <2>4, SoloMoves
<1>3. ASSUME NEW c \in Calls, IssueTokens(c) PROVE SoloInv'
  <2>1. InFlight \subseteq {c}
    BY <1>3, OnlyCall DEF IssueTokens, SoloInv
  <2> QED
    BY <1>0, <1>3, <2>1, SoloIssue
<1>4. ASSUME NEW c \in Calls, RevokeUpdate(c) \/ AllUpdate(c) PROVE SoloInv'
  <2>1. /\ token' = Deactivated(call[c].found)
        /\ call[c].at \in {"revoke.update", "all.update"}
    BY <1>0, <1>4, UpdateEffects
  <2>2. PICK r \in WeakCalls :
          /\ call' = [call EXCEPT ![c] = r]
          /\ \/ r.at \in Blacklisting /\ Fields(r, call[c])
                  /\ (r.at = "revoke.blacklist" <=> call[c].at = "revoke.update")
             \/ call[c].at = "all.update" /\ r = AfterRevoking(call[c])
    BY <1>0, <1>4, UpdateEffects
  <2>3. InFlight \subseteq {c}
    BY <2>1, OnlyCall DEF SoloInv
  <2>4. call[c] \in WeakCalls /\ token \in [Ids -> WeakRows]
    BY <1>0 DEF IInv, WeakTypes
  <2>5. RevokedStay /\ \A s \in call[c].found : token'[s].status = "revoked"
    BY <2>1, <2>4, DeactivatedRows DEF WeakCalls
  <2>6. \A s \in Ids : token'[s].parent = token[s].parent
    BY <2>1, <2>4 DEF Deactivated, WeakRows
  <2>7. call[c].at = "all.update" => call[c].parent = None
    BY DEF SoloInv, FirstRefresh
  <2>8. call[c].parent # None =>
          /\ \A t \in Ids : token[t].parent # call[c].parent
          /\ call[c].at = "revoke.update" /\ call[c].parent \in call[c].found
    BY <2>1 DEF SoloInv, FirstRefresh
  <2>9. r.at # "idle" /\ r.parent # None =>
          r.parent = call[c].parent /\ r.at = "revoke.blacklist"
    <3>1. CASE r.at \in Blacklisting /\ Fields(r, call[c])
                 /\ (r.at = "revoke.blacklist" <=> call[c].at = "revoke.update")
      BY <2>8, <3>1 DEF Fields, Blacklisting
    <3>2. CASE call[c].at = "all.update" /\ r = AfterRevoking(call[c])
      BY <2>4, <2>7, <3>2, AfterRevokingKeeps
    <3> QED
      BY <2>2, <3>1, <3>2
  <2>10. r.at # "idle" /\ r.parent # None =>
           /\ \A t \in Ids : token[t].parent # r.parent
           /\ r.at = "revoke.blacklist" /\ token'[r.parent].status = "revoked"
    BY <2>5, <2>8, <2>9
  <2> QED
    BY <1>0, <2>2, <2>3, <2>5, <2>6, <2>10, SoloMoves
<1>5. ASSUME NEW c \in Calls, RevokeBlacklist(c) \/ AllBlacklist(c) PROVE SoloInv'
  <2>1. PICK r : r = AfterRevoking(call[c])
    OBVIOUS
  <2>2. call' = [call EXCEPT ![c] = r] /\ r \in WeakCalls /\ UNCHANGED token
    BY <1>0, <1>5, <2>1, AfterRevokingTyped
       DEF RevokeBlacklist, AllBlacklist, Advance, IInv, WeakTypes
  <2>3. InFlight \subseteq {c}
    BY <1>5, OnlyCall DEF RevokeBlacklist, AllBlacklist, SoloInv
  <2>4. r.at # "idle" => r.at = "issue" /\ r.parent = call[c].parent
    BY <1>0, <2>1, AfterRevokingKeeps DEF IInv, WeakTypes
  <2>5. call[c].parent # None =>
          /\ \A t \in Ids : token[t].parent # call[c].parent
          /\ token[call[c].parent].status = "revoked"
    BY <1>5 DEF RevokeBlacklist, AllBlacklist, SoloInv, FirstRefresh
  <2>6. r.at # "idle" /\ r.parent # None =>
          /\ \A t \in Ids : token[t].parent # r.parent
          /\ r.at = "issue" /\ token'[r.parent].status = "revoked"
    BY <2>2, <2>4, <2>5
  <2> QED
    BY <1>0, <1>1, <2>2, <2>3, <2>6, SoloMoves
<1>6. ASSUME NEW c \in Calls, AllFind(c) \/ PasswordUpdate(c) PROVE SoloInv'
  <2>1. PICK r \in WeakCalls : /\ call' = [call EXCEPT ![c] = r]
                               /\ r.parent = call[c].parent
    BY <1>0, <1>6, ReadingKeeps
  <2>2. call[c].parent = None /\ UNCHANGED token
    BY <1>6 DEF AllFind, PasswordUpdate, SoloInv, FirstRefresh
  <2>3. InFlight \subseteq {c}
    BY <1>6, OnlyCall DEF AllFind, PasswordUpdate, SoloInv
  <2> QED
    BY <1>0, <1>1, <2>1, <2>2, <2>3, SoloMoves
<1>7. ASSUME NEW c \in Calls, Fail(c) PROVE SoloInv'
  <2>1. call' = [call EXCEPT ![c] = Idle] /\ UNCHANGED token /\ InFlight \subseteq {c}
    BY <1>7, OnlyCall DEF Fail, Advance, SoloInv
  <2> QED
    BY <1>0, <1>1, <2>1, IdleTyped, SoloMoves
<1>8. CASE UNCHANGED vars
  BY <1>0, <1>8 DEF vars, SoloInv, OneAtATime, InFlight, DistinctParents, ParentsRevoked,
                    FirstRefresh
<1> QED
  BY <1>2, <1>3, <1>4, <1>5, <1>6, <1>7, <1>8 DEF Next, Continue, IdsUsedUp

LEMMA SoloInit == Init => SoloInv
<1> SUFFICES ASSUME Init PROVE SoloInv
  OBVIOUS
<1>1. \A c \in Calls : call[c].at = "idle"
  BY IdleTyped DEF Init
<1>2. \A s \in Ids : token[s].parent = None
  BY DEF Init
<1> QED
  BY <1>1, <1>2, InitOK DEF SoloInv, OneAtATime, InFlight, DistinctParents, ParentsRevoked,
                            FirstRefresh

\* While calls follow one another, a refresh token is exchanged at most once,
\* also when the exchange fails half way (auth.service.ts:131-155).
THEOREM RefreshedAtMostOnce == Spec => []RefreshedOnce
<1> DEFINE Solo == "overlap" \notin hazards => SoloInv
<1>1. Init => Solo
  BY SoloInit
<1>2. Solo /\ [Next]_vars => Solo'
  BY SoloNext, HazardsStay
<1>3. Solo => RefreshedOnce
  BY DEF RefreshedOnce, SoloInv, DistinctParents
<1>4. Spec => []Solo
  <2> HIDE DEF Solo
  <2> QED
    BY <1>1, <1>2, PTL DEF Spec
<1> QED
  BY <1>3, <1>4, PTL

-----------------------------------------------------------------------------
\* No hazard at all: a change of the password ends every older session

AllCurrent == \A s \in Active : token[s].password = password

\* A change of the password that has yet to deactivate the other sessions.
Changing(c) ==
  /\ call[c].issues
  /\ \/ call[c].at = "all.find" /\ call[c].except = None
     \/ call[c].at = "all.update" /\ Active \subseteq call[c].found

KnowsPassword(c) ==
  /\ call[c].at = "password.update" => call[c].issues /\ call[c].except = None
  /\ call[c].at = "issue" => call[c].issues
  /\ call[c].at \notin {"idle", "password.update"} /\ call[c].issues =>
       call[c].password = password

CalmInv ==
  /\ IInv
  /\ OneAtATime
  /\ AllCurrent \/ \E c \in Calls : Changing(c)
  /\ \A c \in Calls : KnowsPassword(c)

\* What is left to show of a step of the only call.
LEMMA CalmMoves ==
  ASSUME CalmInv, IInv', NEW c \in Calls, NEW r \in WeakCalls, call' = [call EXCEPT ![c] = r],
         InFlight \subseteq {c},
         \/ AllCurrent'
         \/ /\ r.issues
            /\ \/ r.at = "all.find" /\ r.except = None
               \/ r.at = "all.update" /\ Active' \subseteq r.found,
         r.at = "password.update" => r.issues /\ r.except = None,
         r.at = "issue" => r.issues,
         r.at \notin {"idle", "password.update"} /\ r.issues => r.password = password'
  PROVE  CalmInv'
<1>1. \A e \in Calls : call'[e] = IF e = c THEN r ELSE call[e]
  BY DEF CalmInv, IInv, WeakTypes
<1>2. \A e \in Calls : e # c => call'[e].at = "idle"
  BY <1>1 DEF InFlight
<1>3. OneAtATime'
  BY <1>2 DEF OneAtATime, InFlight
<1>4. AllCurrent' \/ \E e \in Calls : Changing(e)'
  BY <1>1 DEF Changing
<1>5. ASSUME NEW e \in Calls PROVE KnowsPassword(e)'
  <2>1. CASE e = c
    BY <1>1, <2>1 DEF KnowsPassword
  <2>2. CASE e # c
    BY <1>2, <2>2 DEF KnowsPassword
  <2> QED
    BY <2>1, <2>2
<1> QED
  BY <1>3, <1>4, <1>5 DEF CalmInv

\* Only the call in flight can be changing the password.
LEMMA CurrentUnless ==
  ASSUME CalmInv, NEW c \in Calls, InFlight \subseteq {c}, ~Changing(c)
  PROVE  AllCurrent
BY DEF CalmInv, Changing, InFlight

LEMMA CalmIssue ==
  ASSUME CalmInv, IInv', NEW c \in Calls, IssueTokens(c), InFlight \subseteq {c}
  PROVE  CalmInv'
<1>1. PICK n \in Unused :
        token' = [token EXCEPT ![n] = [status |-> "active", password |-> call[c].password,
                                       parent |-> call[c].parent]]
  BY DEF IssueTokens
<1>2. n \in Ids /\ token \in [Ids -> WeakRows]
  BY DEF Unused, CalmInv, IInv, WeakTypes
<1>3. \A s \in Ids : /\ s # n => token'[s] = token[s]
                     /\ token'[n].password = call[c].password
  BY <1>1, <1>2
<1>4. call[c].password = password /\ UNCHANGED password /\ AllCurrent
  BY CurrentUnless DEF IssueTokens, CalmInv, KnowsPassword, Changing
<1>5. AllCurrent'
  BY <1>3, <1>4 DEF AllCurrent, Active
<1>6. call' = [call EXCEPT ![c] = Idle]
  BY DEF IssueTokens, Advance
<1> QED
  BY <1>5, <1>6, IdleTyped, CalmMoves

LEMMA CalmNext ==
  ASSUME CalmInv, [Next]_vars, hazards = {}
  PROVE  CalmInv'
<1>0. IInv' /\ IInv
  BY NextOK DEF CalmInv
<1>1. ASSUME UNCHANGED <<token, password>> PROVE Active' = Active /\ (AllCurrent => AllCurrent')
  BY <1>1 DEF Active, AllCurrent
<1>2. ASSUME NEW c \in Calls, StartCall(c) PROVE CalmInv'
  <2>1. PICK r \in WeakCalls : call' = [call EXCEPT ![c] = r] /\ Begun(r)
    BY <1>0, <1>2, StartEffects
  <2>2. InFlight = {} /\ UNCHANGED <<token, password>>
    BY <1>0, <1>2, StartEffects
  <2>3. AllCurrent /\ AllCurrent'
    BY <1>1, <2>2 DEF CalmInv, Changing, InFlight
  <2>4. r.at \notin {"idle", "password.update"} /\ r.issues => r.password = password'
    BY <2>1, <2>2, <2>3 DEF Begun, AllCurrent, Active
  <2>5. /\ r.at = "password.update" => r.issues /\ r.except = None
        /\ r.at = "issue" => r.issues
    BY <2>1 DEF Begun
  <2> QED
    BY <1>0, <2>1, <2>2, <2>3, <2>4, <2>5, CalmMoves
<1>3. ASSUME NEW c \in Calls, IssueTokens(c) PROVE CalmInv'
  <2>1. InFlight \subseteq {c}
    BY <1>3, OnlyCall DEF IssueTokens, CalmInv
  <2> QED
    BY <1>0, <1>3, <2>1, CalmIssue
<1>4. ASSUME NEW c \in Calls, RevokeUpdate(c) \/ AllUpdate(c) PROVE CalmInv'
  <2>1. /\ token' = Deactivated(call[c].found) /\ UNCHANGED password
        /\ call[c].at \in {"revoke.update", "all.update"}
    BY <1>0, <1>4, UpdateEffects
  <2>2. PICK r \in WeakCalls :
          /\ call' = [call EXCEPT ![c] = r]
          /\ \/ r.at \in Blacklisting /\ Fields(r, call[c])
             \/ call[c].at = "all.update" /\ r = AfterRevoking(call[c])
    BY <1>0, <1>4, UpdateEffects
  <2>3. InFlight \subseteq {c} /\ KnowsPassword(c) /\ call[c] \in WeakCalls
    BY <1>0, <2>1, OnlyCall DEF CalmInv, IInv, WeakTypes
  <2>4. \A s \in Ids : token'[s].status = "active" =>
          s \notin call[c].found /\ s \in Active /\ token'[s].password = token[s].password
    BY <1>0, <2>1 DEF Deactivated, Active, IInv, WeakTypes, WeakRows
  <2>5. AllCurrent'
    <3>1. CASE Changing(c)
      BY <2>1, <2>4, <3>1 DEF Changing, AllCurrent, Active
    <3>2. CASE ~Changing(c)
      BY <2>1, <2>3, <2>4, <3>2, CurrentUnless DEF AllCurrent, Active
    <3> QED
      BY <3>1, <3>2
  <2>6. /\ r.at # "password.update"
        /\ r.at = "issue" => r.issues
        /\ r.at # "idle" /\ r.issues => call[c].issues /\ r.password = call[c].password
    <3>1. CASE r.at \in Blacklisting /\ Fields(r, call[c])
      BY <3>1 DEF Fields, Blacklisting
    <3>2. CASE r = AfterRevoking(call[c])
      BY <2>3, <3>2, AfterRevokingKeeps
    <3> QED
      BY <2>2, <3>1, <3>2
  <2>7. r.at # "idle" /\ r.issues => r.password = password'
    BY <2>1, <2>3, <2>6 DEF KnowsPassword
  <2> QED
    BY <1>0, <2>2, <2>3, <2>5, <2>6, <2>7, CalmMoves
<1>5. ASSUME NEW c \in Calls, RevokeBlacklist(c) \/ AllBlacklist(c) PROVE CalmInv'
  <2>1. PICK r : r = AfterRevoking(call[c])
    OBVIOUS
  <2>2. /\ call' = [call EXCEPT ![c] = r] /\ r \in WeakCalls /\ UNCHANGED <<token, password>>
        /\ call[c].at \in Blacklisting
    BY <1>0, <1>5, <2>1, AfterRevokingTyped
       DEF RevokeBlacklist, AllBlacklist, Advance, IInv, WeakTypes, Blacklisting
  <2>3. InFlight \subseteq {c} /\ KnowsPassword(c) /\ ~Changing(c)
    BY <2>2, OnlyCall DEF CalmInv, Changing, Blacklisting
  <2>4. AllCurrent'
    BY <1>1, <2>2, <2>3, CurrentUnless
  <2>5. r.at # "idle" => r.at = "issue" /\ r.issues /\ call[c].issues
                           /\ r.password = call[c].password
    BY <1>0, <2>1, AfterRevokingKeeps DEF IInv, WeakTypes
  <2>6. r.at # "idle" => r.password = password'
    BY <2>2, <2>3, <2>5 DEF KnowsPassword, Blacklisting
  <2> QED
    BY <1>0, <2>2, <2>3, <2>4, <2>5, <2>6, CalmMoves
<1>6. ASSUME NEW c \in Calls, AllFind(c) PROVE CalmInv'
  <2>1. PICK r \in WeakCalls :
          /\ call' = [call EXCEPT ![c] = r] /\ r.issues = call[c].issues
          /\ r.at = "all.update" /\ r.password = call[c].password
          /\ r.found = Active \ Excepted(call[c].except)
    BY <1>0, <1>6, ReadingKeeps
  <2>2. UNCHANGED <<token, password>> /\ call[c].at = "all.find"
    BY <1>6 DEF AllFind
  <2>3. InFlight \subseteq {c} /\ KnowsPassword(c)
    BY <2>2, OnlyCall DEF CalmInv
  <2>4. AllCurrent' \/ (r.issues /\ Active' \subseteq r.found)
    <3>1. CASE Changing(c)
      BY <1>1, <2>1, <2>2, <3>1 DEF Changing, Excepted
    <3>2. CASE ~Changing(c)
      BY <1>1, <2>2, <2>3, <3>2, CurrentUnless
    <3> QED
      BY <3>1, <3>2
  <2>5. r.issues => r.password = password'
    BY <2>1, <2>2, <2>3 DEF KnowsPassword
  <2> QED
    BY <1>0, <2>1, <2>3, <2>4, <2>5, CalmMoves
<1>7. ASSUME NEW c \in Calls, PasswordUpdate(c) PROVE CalmInv'
  <2>1. PICK r \in WeakCalls :
          /\ call' = [call EXCEPT ![c] = r] /\ r.issues = call[c].issues
          /\ r.at = "all.find" /\ r.password = password + 1 /\ r.except = call[c].except
    BY <1>0, <1>7, ReadingKeeps
  <2>2. password' = password + 1 /\ call[c].at = "password.update"
    BY <1>7 DEF PasswordUpdate
  <2>3. InFlight \subseteq {c} /\ call[c].issues /\ call[c].except = None
    BY <2>2, OnlyCall DEF CalmInv, KnowsPassword
  <2> QED
    BY <1>0, <2>1, <2>2, <2>3, CalmMoves
<1>8. CASE UNCHANGED vars
  BY <1>0, <1>8 DEF vars, CalmInv, OneAtATime, InFlight, AllCurrent, Active, Changing,
                    KnowsPassword
<1>9. \A c \in Calls : ~Fail(c)
  BY DEF Fail
<1> QED
  BY <1>2, <1>3, <1>4, <1>5, <1>6, <1>7, <1>8, <1>9 DEF Next, Continue, IdsUsedUp

LEMMA CalmInit == Init => CalmInv
<1> SUFFICES ASSUME Init PROVE CalmInv
  OBVIOUS
<1>1. \A c \in Calls : call[c].at = "idle"
  BY IdleTyped DEF Init
<1>2. AllCurrent
  BY DEF Init, AllCurrent, Active
<1> QED
  BY <1>1, <1>2, InitOK DEF CalmInv, OneAtATime, InFlight, KnowsPassword

\* While calls follow one another and none fails, every session that works was
\* opened with the password of today (auth.service.ts:223-249,
\* auth.controller.ts:144).
THEOREM OldPasswordsAlwaysOut == Spec => []OldPasswordsOut
<1> DEFINE Calm == hazards = {} => CalmInv
<1>1. Init => Calm
  BY CalmInit
<1>2. Calm /\ [Next]_vars => Calm'
  BY CalmNext, HazardsStay
<1>3. Calm => OldPasswordsOut
  BY DEF OldPasswordsOut, CalmInv, AllCurrent, Changing, InFlight
<1>4. Spec => []Calm
  <2> HIDE DEF Calm
  <2> QED
    BY <1>1, <1>2, PTL DEF Spec
<1> QED
  BY <1>3, <1>4, PTL

-----------------------------------------------------------------------------
\* AuthController

AuthTypes ==
  /\ cookie \in [Browsers -> Ids \cup {None}]
  /\ reply \in [Calls -> Replies]

\* Whoever gets tokens awaits them, and they are in the reply in the end only.
Owed ==
  \A c \in Calls :
    /\ call[c].issues => reply[c].to # None
    /\ call[c].at = "idle" => ~call[c].issues /\ call[c].parent = None
    /\ call[c].at = "issue" => call[c].issues
    /\ reply[c].cookie # None => call[c].at = "idle" /\ reply[c].to # None

Issued(s) == s # None => token[s].status # "none"

\* Sessions that are held, on their way or refreshed have been issued.
AllIssued ==
  /\ \A b \in Browsers : Issued(cookie[b])
  /\ \A c \in Calls : Issued(reply[c].cookie) /\ Issued(call[c].parent)
  /\ \A s \in Ids : Issued(token[s].parent)

\* A session is in one place at most: in one cookie or in one reply.
OnePlace ==
  /\ \A b, d \in Browsers : cookie[b] # None /\ cookie[b] = cookie[d] => b = d
  /\ \A b \in Browsers, c \in Calls : reply[c].cookie # None => cookie[b] # reply[c].cookie
  /\ \A c, e \in Calls :
       reply[c].cookie # None /\ reply[c].cookie = reply[e].cookie => c = e

\* A session that is being refreshed, or has been, has left its reply for good.
Delivered(s) == s # None => \A c \in Calls : reply[c].cookie # s

ParentsDelivered ==
  /\ \A c \in Calls : Delivered(call[c].parent)
  /\ \A s \in Ids : Delivered(token[s].parent)

\* While the new session is made and on its way, nobody but the browser it goes
\* to holds the old one.
ToHolder ==
  \A b \in Browsers, c \in Calls :
    /\ call[c].parent # None /\ cookie[b] = call[c].parent => reply[c].to = b
    /\ \A s \in Ids :
         reply[c].cookie = s /\ token[s].parent # None /\ cookie[b] = token[s].parent =>
           reply[c].to = b

\* CookieIsUnspent is kept by a reply only if the replaced cookie was held by
\* that browser alone, and if what it gets is new.
AInv ==
  /\ AuthTypes
  /\ Owed
  /\ AllIssued
  /\ OnePlace
  /\ ParentsDelivered
  /\ ToHolder
  /\ CookieIsUnspent

-----------------------------------------------------------------------------

LEMMA NoReplyTyped == NoReply \in Replies /\ NoReply.to = None /\ NoReply.cookie = None
BY DEF NoReply, Replies, Roles, RolePriorities

LEMMA AuthInitOK == AuthInit => AInv
<1> SUFFICES ASSUME AuthInit PROVE AInv
  OBVIOUS
<1>1. AuthTypes
  BY NoReplyTyped DEF AuthInit, AuthTypes
<1>2. \A c \in Calls : call[c] = Idle /\ reply[c] = NoReply
  BY DEF AuthInit, Init
<1>3. Owed
  BY <1>2, NoReplyTyped DEF Owed, Idle
<1>4. /\ \A b \in Browsers : cookie[b] = None
      /\ \A s \in Ids : token[s].parent = None
  BY DEF AuthInit, Init
<1>5. AllIssued
  BY <1>2, <1>4, NoReplyTyped DEF AllIssued, Issued, Idle
<1>6. OnePlace
  BY <1>2, <1>4, NoReplyTyped DEF OnePlace
<1>7. ParentsDelivered /\ ToHolder /\ CookieIsUnspent
  BY <1>2, <1>4, NoReplyTyped DEF ParentsDelivered, Delivered, ToHolder, CookieIsUnspent, Idle
<1> QED
  BY <1>1, <1>3, <1>5, <1>6, <1>7 DEF AInv

\* A step that moves one call on, issues nothing and changes no cookie keeps the
\* invariant: the call may begin to refresh a session that its browser holds.
LEMMA CallMoves ==
  ASSUME AInv, WeakTypes,
         NEW c \in Calls, NEW k \in WeakCalls, NEW r \in Replies,
         call' = [call EXCEPT ![c] = k],
         reply' = [reply EXCEPT ![c] = r],
         cookie' = cookie, hazards' = hazards,
         \A s \in Ids : /\ token'[s].parent = token[s].parent
                        /\ token[s].status # "none" => token'[s].status # "none",
         reply[c].cookie = None, r.cookie = None,
         k.issues => r.to # None, k.at = "issue" => k.issues,
         k.at = "idle" => ~k.issues /\ k.parent = None,
         Issued(k.parent), Delivered(k.parent),
         k.parent # None => \A b \in Browsers : cookie[b] = k.parent => r.to = b
  PROVE  AInv'
<1> USE DEF AInv, WeakTypes, AuthTypes
<1>1. \A e \in Calls : /\ call'[e] = IF e = c THEN k ELSE call[e]
                       /\ reply'[e] = IF e = c THEN r ELSE reply[e]
                       /\ reply'[e].cookie = reply[e].cookie
  OBVIOUS
<1>2. /\ \A e \in Calls : reply[e].cookie \in Ids \cup {None} /\ call[e].parent \in Ids \cup {None}
      /\ \A s \in Ids : token[s].parent \in Ids \cup {None}
      /\ k.parent \in Ids \cup {None}
      /\ \A b \in Browsers : cookie[b] \in Ids \cup {None}
  BY DEF Replies, WeakCalls, WeakRows
<1>3. AuthTypes'
  OBVIOUS
<1>4. Owed'
  BY <1>1 DEF Owed
<1>5. AllIssued'
  <2>1. \A s \in Ids \cup {None} : Issued(s) => (Issued(s))'
    BY DEF Issued
  <2> QED
    BY <1>1, <1>2, <2>1 DEF AllIssued, Issued
<1>6. OnePlace'
  BY <1>1 DEF OnePlace
<1>7. ParentsDelivered'
  BY <1>1 DEF ParentsDelivered, Delivered
<1>8. ToHolder'
  BY <1>1, IdsFinite DEF ToHolder
<1>9. CookieIsUnspent'
  <2> SUFFICES ASSUME "loss" \notin hazards, NEW b \in Browsers, NEW s \in Ids,
                      cookie[b] # None, token[s].parent = cookie[b]
               PROVE  \E e \in Awaited' : reply'[e].cookie = s
    BY DEF CookieIsUnspent
  <2>1. PICK e \in Awaited : reply[e].cookie = s
    BY DEF CookieIsUnspent
  <2>2. e \in Calls /\ e # c
    BY <2>1, IdsFinite DEF Awaited
  <2> QED
    BY <1>1, <2>1, <2>2 DEF Awaited
<1> QED
  BY <1>3, <1>4, <1>5, <1>6, <1>7, <1>8, <1>9

-----------------------------------------------------------------------------
\* Requests

LEMMA Unawaited ==
  ASSUME AInv, NEW c \in Calls, MayRequest(c)
  PROVE  reply[c].to = None /\ reply[c].cookie = None
BY DEF AInv, Owed, MayRequest, Awaited

LEMMA AwaitedRequestOK ==
  ASSUME AInv, WeakTypes, NEW c \in Calls, NEW b \in Browsers,
         NEW k \in WeakCalls, NEW as \in Roles,
         Begin(c, k), Await(c, b, [NoReply EXCEPT !.role = as]),
         k.at = "issue" => k.issues, k.at # "idle",
         k.parent # None => k.parent = cookie[b]
  PROVE  AInv'
<1> DEFINE r == [[NoReply EXCEPT !.role = as] EXCEPT !.to = b]
<1>1. r \in Replies /\ r.to = b /\ r.cookie = None
  BY NoReplyTyped DEF Replies, NoReply
<1>2. /\ call' = [call EXCEPT ![c] = k] /\ reply' = [reply EXCEPT ![c] = r]
      /\ UNCHANGED <<token, cookie, hazards>>
  BY DEF Begin, Await
<1>3. reply[c].cookie = None
  BY Unawaited DEF Await
<1>4. Issued(k.parent) /\ Delivered(k.parent)
  BY DEF AInv, AllIssued, Issued, OnePlace, Delivered
<1>5. k.parent # None => \A d \in Browsers : cookie[d] = k.parent => r.to = d
  BY <1>1 DEF AInv, OnePlace
<1>6. r.to # None
  BY <1>1, NoneIsNoBrowser
<1> QED
  BY <1>1, <1>2, <1>3, <1>4, <1>5, <1>6, CallMoves

LEMMA UnansweredRequestOK ==
  ASSUME AInv, WeakTypes, NEW c \in Calls, NEW k \in WeakCalls,
         Begin(c, k), Unanswered(c),
         ~k.issues, k.at \notin {"issue", "idle"}, k.parent = None
  PROVE  AInv'
<1>1. reply[c] \in Replies /\ reply[c].cookie = None
  BY Unawaited DEF Unanswered, AInv, AuthTypes
<1>2. /\ call' = [call EXCEPT ![c] = k] /\ reply' = [reply EXCEPT ![c] = reply[c]]
      /\ UNCHANGED <<token, cookie, hazards>>
  BY DEF Begin, Unanswered, AInv, AuthTypes
<1>3. Issued(k.parent) /\ Delivered(k.parent)
  BY DEF Issued, Delivered
<1> QED
  BY <1>1, <1>2, <1>3, CallMoves

LEMMA RequestOK ==
  ASSUME AInv, WeakTypes, role \in Roles, NEW c \in Calls, Request(c)
  PROVE  AInv' /\ StartCall(c)
<1>1. /\ token \in [Ids -> WeakRows] /\ password \in Nat
      /\ cookie \in [Browsers -> Ids \cup {None}]
      /\ Idle \in WeakCalls /\ ~Idle.issues /\ Idle.parent = None
  BY IdleTyped DEF AInv, AuthTypes, WeakTypes, Idle
<1>2. "User" \in Roles /\ NoReply = [NoReply EXCEPT !.role = "User"]
  BY DEF Roles, RolePriorities, NoReply
<1>3. ASSUME NEW b \in Browsers, SignInRequest(c, b) PROVE AInv' /\ StartCall(c)
  <2> DEFINE k == [Idle EXCEPT !.at = "issue", !.issues = TRUE, !.password = password]
  <2>1. k \in WeakCalls /\ k.at = "issue" /\ k.issues /\ k.parent = None
    BY <1>1 DEF Idle, WeakCalls, Steps
  <2>2. Begin(c, k)
    BY <1>3 DEF SignInRequest, SignIn
  <2>3. PICK as \in {role, "User"} : Await(c, b, [NoReply EXCEPT !.role = as])
    BY <1>3 DEF SignInRequest
  <2>4. AInv'
    BY <1>2, <2>1, <2>2, <2>3, AwaitedRequestOK
  <2> QED
    BY <1>3, <2>4 DEF SignInRequest, StartCall
<1>4. ASSUME NEW b \in Browsers, RefreshRequest(c, b) PROVE AInv' /\ StartCall(c)
  <2> DEFINE s == cookie[b]
             k == [Idle EXCEPT !.at = "revoke.update", !.found = {s}, !.issues = TRUE,
                               !.password = token[s].password, !.parent = s]
  <2>1. s \in Ids /\ Refresh(c, s) /\ Await(c, b, [NoReply EXCEPT !.role = role])
    BY <1>1, <1>4 DEF RefreshRequest
  <2>2. k \in WeakCalls /\ k.at = "revoke.update" /\ k.parent = s
    BY <1>1, <2>1 DEF Idle, WeakCalls, WeakRows, Steps
  <2>3. Begin(c, k)
    BY <2>1 DEF Refresh
  <2>4. AInv'
    BY <2>1, <2>2, <2>3, AwaitedRequestOK
  <2> QED
    BY <2>1, <2>4 DEF StartCall
<1>5. ASSUME NEW b \in Browsers, NEW by \in Ids, LogOutRequest(c, b, by)
      PROVE  AInv' /\ StartCall(c)
  <2> DEFINE s == cookie[b]
             k == [Idle EXCEPT !.at = "revoke.update", !.found = {s}]
  <2>1. s \in Ids /\ LogOut(c, by, s) /\ Await(c, b, [NoReply EXCEPT !.role = "User"])
    BY <1>1, <1>2, <1>5 DEF LogOutRequest
  <2>2. k \in WeakCalls /\ k.at = "revoke.update" /\ k.parent = None
    BY <1>1, <2>1 DEF Idle, WeakCalls, Steps
  <2>3. Begin(c, k)
    BY <2>1 DEF LogOut
  <2>4. AInv'
    BY <1>2, <2>1, <2>2, <2>3, AwaitedRequestOK
  <2> QED
    BY <2>1, <2>4 DEF StartCall
<1>6. ASSUME NEW b \in Browsers, NEW by \in Ids, ChangePasswordRequest(c, b, by)
      PROVE  AInv' /\ StartCall(c)
  <2> DEFINE k == [Idle EXCEPT !.at = "password.update", !.issues = TRUE]
  <2>1. ChangePassword(c, by) /\ Await(c, b, [NoReply EXCEPT !.role = role])
    BY <1>6 DEF ChangePasswordRequest
  <2>2. k \in WeakCalls /\ k.at = "password.update" /\ k.parent = None
    BY <1>1 DEF Idle, WeakCalls, Steps
  <2>3. Begin(c, k)
    BY <2>1 DEF ChangePassword
  <2>4. AInv'
    BY <2>1, <2>2, <2>3, AwaitedRequestOK
  <2> QED
    BY <2>1, <2>4 DEF StartCall
<1>7. ASSUME NEW by \in Ids, NEW s \in Ids, RevokeRequest(c, by, s)
      PROVE  AInv' /\ StartCall(c)
  <2> DEFINE k == [Idle EXCEPT !.at = "revoke.update", !.found = {s}]
  <2>1. RevokeSession(c, by, s) /\ Unanswered(c)
    BY <1>7 DEF RevokeRequest
  <2>2. k \in WeakCalls /\ k.at = "revoke.update" /\ ~k.issues /\ k.parent = None
    BY <1>1 DEF Idle, WeakCalls, Steps
  <2>3. Begin(c, k)
    BY <2>1 DEF RevokeSession
  <2>4. AInv'
    BY <2>1, <2>2, <2>3, UnansweredRequestOK
  <2> QED
    BY <2>1, <2>4 DEF StartCall
<1>8. ASSUME NEW by \in Ids, NEW except \in Ids \cup {None},
             RevokeAll(c, by, except), Unanswered(c)
      PROVE  AInv' /\ StartCall(c)
  <2> DEFINE k == [Idle EXCEPT !.at = "all.find", !.except = except]
  <2>1. k \in WeakCalls /\ k.at = "all.find" /\ ~k.issues /\ k.parent = None
    BY <1>1 DEF Idle, WeakCalls, Steps
  <2>2. Begin(c, k)
    BY <1>8 DEF RevokeAll
  <2>3. AInv'
    BY <1>8, <2>1, <2>2, UnansweredRequestOK
  <2> QED
    BY <1>8, <2>3 DEF StartCall
<1>9. ASSUME NEW b \in Browsers, NEW by \in Ids, RevokeAllRequest(c, b, by)
      PROVE  AInv' /\ StartCall(c)
  BY <1>8, <1>9 DEF RevokeAllRequest
<1>10. ASSUME NEW by \in Ids, RevokeAllAdminRequest(c, by) PROVE AInv' /\ StartCall(c)
  BY <1>8, <1>10 DEF RevokeAllAdminRequest
<1> QED
  BY <1>3, <1>4, <1>5, <1>6, <1>7, <1>9, <1>10 DEF Request

-----------------------------------------------------------------------------
\* Steps of a call

\* Revoking changes neither who is whose parent nor that a row is there.
LEMMA DeactivatedKeeps ==
  ASSUME WeakTypes, NEW found, token' = Deactivated(found) \/ token' = token
  PROVE  \A s \in Ids : /\ token'[s].parent = token[s].parent
                        /\ token[s].status # "none" => token'[s].status # "none"
BY DEF WeakTypes, WeakRows, Deactivated

LEMMA ProceedOK ==
  ASSUME AInv, WeakTypes, NEW c \in Calls, Proceed(c)
  PROVE  AInv' /\ Continue(c)
<1>1. call[c] \in WeakCalls /\ reply[c] \in Replies /\ call[c].at # "issue"
  BY DEF AInv, WeakTypes, AuthTypes, Proceed, RevokeUpdate, RevokeBlacklist, AllFind,
         AllUpdate, AllBlacklist, PasswordUpdate
<1>2. PICK k \in WeakCalls :
        /\ call' = [call EXCEPT ![c] = k]
        /\ k.issues => call[c].issues
        /\ k.at = "issue" => k.issues
        /\ k.at = "idle" => ~k.issues /\ k.parent = None
        /\ k.parent # None => k.parent = call[c].parent
  <2> DEFINE Going(k) == /\ k \in WeakCalls
                         /\ k.issues => call[c].issues
                         /\ k.at = "issue" => k.issues
                         /\ k.at = "idle" => ~k.issues /\ k.parent = None
                         /\ k.parent # None => k.parent = call[c].parent
  <2>1. ASSUME NEW to \in Steps \ {"issue", "idle"} PROVE Going([call[c] EXCEPT !.at = to])
    BY <1>1 DEF WeakCalls
  <2>2. ASSUME NEW found \in SUBSET Ids
        PROVE  Going([call[c] EXCEPT !.at = "all.update", !.found = found])
    BY <1>1 DEF WeakCalls, Steps
  <2>3. Going([call[c] EXCEPT !.at = "all.find", !.password = password + 1])
    <3>1. password + 1 \in Nat
      BY DEF WeakTypes
    <3>2. ASSUME NEW p \in Nat PROVE Going([call[c] EXCEPT !.at = "all.find", !.password = p])
      BY <1>1 DEF WeakCalls, Steps
    <3> QED
      BY <3>1, <3>2
  <2>4. Going(AfterRevoking(call[c]))
    <3>1. CASE call[c].issues
      BY <1>1, <3>1 DEF AfterRevoking, WeakCalls, Steps
    <3>2. CASE ~call[c].issues
      BY <3>2, IdleTyped DEF AfterRevoking, Idle
    <3> QED
      BY <3>1, <3>2
  <2>5. Active \ Excepted(call[c].except) \in SUBSET Ids
    BY DEF Active
  <2>6. \E k : Going(k) /\ call' = [call EXCEPT ![c] = k]
    BY <2>1, <2>2, <2>3, <2>4, <2>5 DEF Proceed, Advance, Steps, RevokeUpdate,
       RevokeBlacklist, AllFind, AllUpdate, AllBlacklist, PasswordUpdate
  <2> QED
    BY <2>6
<1>3. /\ reply' = [reply EXCEPT ![c] = reply[c]]
      /\ cookie' = cookie /\ hazards' = hazards
  BY DEF AInv, AuthTypes, Proceed, RevokeUpdate, RevokeBlacklist, AllFind, AllUpdate,
         AllBlacklist, PasswordUpdate
<1>4. \A s \in Ids : /\ token'[s].parent = token[s].parent
                     /\ token[s].status # "none" => token'[s].status # "none"
  BY DeactivatedKeeps DEF Proceed, RevokeUpdate, RevokeBlacklist, AllFind, AllUpdate,
     AllBlacklist, PasswordUpdate
<1>5. reply[c].cookie = None
  BY DEF AInv, Owed, Proceed, RevokeUpdate, RevokeBlacklist, AllFind, AllUpdate,
         AllBlacklist, PasswordUpdate
<1>6. k.issues => reply[c].to # None
  BY <1>2 DEF AInv, Owed
<1>7. /\ Issued(k.parent) /\ Delivered(k.parent)
      /\ k.parent # None => \A b \in Browsers : cookie[b] = k.parent => reply[c].to = b
  BY <1>2 DEF AInv, AllIssued, Issued, ParentsDelivered, Delivered, ToHolder
<1>8. AInv'
  BY <1>1, <1>2, <1>3, <1>4, <1>5, <1>6, <1>7, CallMoves
<1> QED
  BY <1>8 DEF Proceed, Continue

LEMMA ErrorOK ==
  ASSUME AInv, WeakTypes, NEW c \in Calls, Error(c)
  PROVE  AInv'
<1>1. /\ call' = [call EXCEPT ![c] = Idle] /\ reply' = [reply EXCEPT ![c] = NoReply]
      /\ UNCHANGED <<token, cookie, hazards>>
      /\ call[c].at # "idle"
  BY DEF Error, Fail, Advance
<1>2. reply[c].cookie = None
  BY <1>1 DEF AInv, Owed
<1>3. ~Idle.issues /\ Idle.parent = None /\ Idle.at = "idle"
  BY DEF Idle
<1>4. Issued(Idle.parent) /\ Delivered(Idle.parent)
  BY <1>3 DEF Issued, Delivered
<1> QED
  BY <1>1, <1>2, <1>3, <1>4, IdleTyped, NoReplyTyped, CallMoves

\* The session issued was in no place before, and is in one reply then.
LEMMA IssueReplyOK ==
  ASSUME AInv, WeakTypes, NEW c \in Calls, Issue(c)
  PROVE  AInv'
<1>1. PICK n \in Unused :
        token' = [token EXCEPT ![n] = [status |-> "active", password |-> call[c].password,
                                       parent |-> call[c].parent]]
  BY DEF Issue, IssueTokens
<1>2. PICK s \in Unused :
        /\ token'[s].status = "active"
        /\ reply' = [reply EXCEPT ![c].cookie = s]
  BY DEF Issue
<1>3. /\ n \in Ids /\ token[n].status = "none" /\ token[s].status = "none"
      /\ token \in [Ids -> WeakRows] /\ call \in [Calls -> WeakCalls]
      /\ cookie \in [Browsers -> Ids \cup {None}] /\ reply \in [Calls -> Replies]
  BY DEF Unused, AInv, AuthTypes, WeakTypes
<1>4. s = n
  BY <1>1, <1>2, <1>3 DEF Unused
<1>5. /\ call' = [call EXCEPT ![c] = Idle] /\ cookie' = cookie
      /\ call[c].at = "issue" /\ hazards' = hazards
  BY DEF Issue, IssueTokens, Advance
<1>6. /\ \A b \in Browsers : cookie[b] # n
      /\ \A e \in Calls : reply[e].cookie # n /\ call[e].parent # n
      /\ \A t \in Ids : token[t].parent # n
  BY <1>3, IdsFinite DEF AInv, AllIssued, Issued
<1>7. /\ \A e \in Calls : /\ reply'[e].cookie = IF e = c THEN n ELSE reply[e].cookie
                          /\ reply'[e].to = reply[e].to
                          /\ call'[e] = IF e = c THEN Idle ELSE call[e]
      /\ \A t \in Ids : token'[t].parent = IF t = n THEN call[c].parent ELSE token[t].parent
      /\ \A t \in Ids : token[t].status # "none" => token'[t].status # "none"
      /\ token'[n].status # "none"
  BY <1>1, <1>2, <1>3, <1>4, <1>5 DEF Replies
<1>8. /\ reply[c].to # None /\ reply[c].cookie = None
      /\ Issued(call[c].parent) /\ Delivered(call[c].parent)
      /\ \A b \in Browsers :
           call[c].parent # None /\ cookie[b] = call[c].parent => reply[c].to = b
  BY <1>5 DEF AInv, Owed, AllIssued, ParentsDelivered, ToHolder
<1>9. ~Idle.issues /\ Idle.parent = None /\ Idle.at = "idle"
  BY DEF Idle
<1>10. /\ \A e \in Calls : reply[e].cookie \in Ids \cup {None} /\ call[e].parent \in Ids \cup {None}
       /\ \A t \in Ids : token[t].parent \in Ids \cup {None}
       /\ \A b \in Browsers : cookie[b] \in Ids \cup {None}
  BY <1>3 DEF Replies, WeakCalls, WeakRows
<1>11. AuthTypes'
  BY <1>2, <1>3, <1>4, <1>5 DEF AuthTypes, Replies
<1>12. Owed'
  BY <1>7, <1>8, <1>9 DEF AInv, Owed
<1>13. AllIssued'
  <2>1. \A t \in Ids \cup {None} : Issued(t) => (Issued(t))'
    BY <1>7, IdsFinite DEF Issued
  <2>2. (Issued(n))' /\ (Issued(None))'
    BY <1>7 DEF Issued
  <2> QED
    BY <1>5, <1>7, <1>8, <1>9, <1>10, <2>1, <2>2 DEF AInv, AllIssued, Issued
<1>14. OnePlace'
  BY <1>5, <1>6, <1>7 DEF AInv, OnePlace
<1>15. ParentsDelivered'
  BY <1>6, <1>7, <1>8, <1>9 DEF AInv, ParentsDelivered, Delivered
<1>16. ToHolder'
  <2>1. ASSUME NEW b \in Browsers, NEW e \in Calls,
               call'[e].parent # None, cookie'[b] = call'[e].parent
        PROVE  reply'[e].to = b
    BY <1>5, <1>7, <1>9, <2>1 DEF AInv, ToHolder
  <2>2. ASSUME NEW b \in Browsers, NEW e \in Calls, NEW t \in Ids,
               reply'[e].cookie = t, token'[t].parent # None, cookie'[b] = token'[t].parent
        PROVE  reply'[e].to = b
    <3>1. CASE t = n
      BY <1>5, <1>6, <1>7, <1>8, <2>2, <3>1
    <3>2. CASE t # n
      BY <1>5, <1>7, <2>2, <3>2 DEF AInv, ToHolder
    <3> QED
      BY <3>1, <3>2
  <2> QED
    BY <2>1, <2>2 DEF ToHolder
<1>17. CookieIsUnspent'
  <2> SUFFICES ASSUME "loss" \notin hazards, NEW b \in Browsers, NEW t \in Ids,
                      cookie[b] # None, token'[t].parent = cookie[b]
               PROVE  \E e \in Awaited' : reply'[e].cookie = t
    BY <1>5 DEF CookieIsUnspent
  <2>1. CASE t = n
    BY <1>7, <1>8, <2>1 DEF Awaited
  <2>2. CASE t # n
    <3>1. PICK e \in Awaited : reply[e].cookie = t
      BY <1>7, <2>2 DEF AInv, CookieIsUnspent
    <3>2. e \in Calls /\ e # c
      BY <1>8, <3>1, IdsFinite DEF Awaited
    <3> QED
      BY <1>7, <3>1, <3>2 DEF Awaited
  <2> QED
    BY <2>1, <2>2
<1> QED
  BY <1>11, <1>12, <1>13, <1>14, <1>15, <1>16, <1>17 DEF AInv

-----------------------------------------------------------------------------
\* Replies

LEMMA ReplyOK ==
  ASSUME AInv, WeakTypes, NEW c \in Calls, Reply(c)
  PROVE  AInv'
<1> DEFINE b == reply[c].to
           n == reply[c].cookie
<1>1. /\ cookie' = [cookie EXCEPT ![b] = n] /\ reply' = [reply EXCEPT ![c] = NoReply]
      /\ UNCHANGED <<call, token, hazards>>
  BY DEF Reply, SetCookie, vars
<1>2. /\ call[c].at = "idle" /\ b # None
  BY DEF Reply, Answered, Awaited
<1>3. /\ cookie \in [Browsers -> Ids \cup {None}] /\ reply \in [Calls -> Replies]
      /\ call \in [Calls -> WeakCalls] /\ token \in [Ids -> WeakRows]
  BY DEF AInv, AuthTypes, WeakTypes
<1>4. b \in Browsers /\ n \in Ids \cup {None}
  BY <1>2, <1>3 DEF Replies
<1>5. /\ \A d \in Browsers : cookie'[d] = IF d = b THEN n ELSE cookie[d]
      /\ \A e \in Calls : reply'[e] = IF e = c THEN NoReply ELSE reply[e]
  BY <1>1, <1>3, <1>4
<1>6. /\ \A t \in Ids : token[t].parent \in Ids \cup {None}
      /\ \A d \in Browsers : cookie[d] \in Ids \cup {None}
  BY <1>3 DEF WeakRows
<1>7. ~call[c].issues /\ call[c].parent = None
  BY <1>2 DEF AInv, Owed
<1>11. AuthTypes'
  BY <1>1, <1>3, <1>4, NoReplyTyped DEF AuthTypes
<1>12. Owed'
  BY <1>1, <1>5, <1>7, NoReplyTyped DEF AInv, Owed
<1>13. AllIssued'
  BY <1>1, <1>5, NoReplyTyped DEF AInv, AllIssued, Issued
<1>14. OnePlace'
  BY <1>4, <1>5, NoReplyTyped DEF AInv, OnePlace
<1>15. ParentsDelivered'
  BY <1>1, <1>5, NoReplyTyped DEF AInv, ParentsDelivered, Delivered
<1>16. ToHolder'
  BY <1>1, <1>5, <1>7, NoReplyTyped, IdsFinite DEF AInv, ToHolder, ParentsDelivered, Delivered
<1>17. CookieIsUnspent'
  <2> SUFFICES ASSUME "loss" \notin hazards, NEW d \in Browsers, NEW s \in Ids,
                      cookie'[d] # None, token[s].parent = cookie'[d]
               PROVE  \E e \in Awaited' : reply'[e].cookie = s
    BY <1>1 DEF CookieIsUnspent
  <2>1. d # b
    BY <1>5 DEF AInv, ParentsDelivered, Delivered
  <2>2. PICK e \in Awaited : reply[e].cookie = s
    BY <1>5, <2>1 DEF AInv, CookieIsUnspent
  <2>3. e \in Calls /\ e # c
    BY <1>5, <2>1, <2>2 DEF AInv, ToHolder, Awaited
  <2> QED
    BY <1>5, <2>2, <2>3 DEF Awaited
<1> QED
  BY <1>11, <1>12, <1>13, <1>14, <1>15, <1>16, <1>17 DEF AInv

\* Only here is something lost that CookieIsUnspent speaks of.
LEMMA LoseReplyOK ==
  ASSUME AInv, WeakTypes, NEW c \in Calls, LoseReply(c)
  PROVE  AInv'
<1>1. /\ reply' = [reply EXCEPT ![c] = NoReply] /\ "loss" \in hazards
      /\ UNCHANGED <<call, token, hazards, cookie>>
      /\ call[c].at = "idle"
  BY DEF LoseReply, Answered, vars
<1>2. \A e \in Calls : reply'[e] = IF e = c THEN NoReply ELSE reply[e]
  BY <1>1 DEF AInv, AuthTypes
<1>3. ~call[c].issues /\ call[c].parent = None
  BY <1>1 DEF AInv, Owed
<1>4. AuthTypes' /\ Owed' /\ AllIssued'
  BY <1>1, <1>2, <1>3, NoReplyTyped DEF AInv, AuthTypes, Owed, AllIssued, Issued
<1>5. OnePlace' /\ ParentsDelivered'
  BY <1>1, <1>2, NoReplyTyped DEF AInv, OnePlace, ParentsDelivered, Delivered
<1>6. ToHolder'
  BY <1>1, <1>2, <1>3, NoReplyTyped, IdsFinite DEF AInv, ToHolder
<1>7. CookieIsUnspent'
  BY <1>1 DEF CookieIsUnspent
<1> QED
  BY <1>4, <1>5, <1>6, <1>7 DEF AInv

-----------------------------------------------------------------------------

\* The invariant, together with that of Sessions.
AuthIInv == IInv /\ AInv /\ role \in Roles

LEMMA AuthStep == AuthIInv /\ [AuthNext]_authVars => [Next]_vars /\ AuthIInv'
<1> SUFFICES ASSUME AuthIInv, [AuthNext]_authVars PROVE [Next]_vars /\ AuthIInv'
  OBVIOUS
<1>0. WeakTypes /\ AInv /\ role \in Roles
  BY DEF AuthIInv, IInv
<1>1. ASSUME NEW c \in Calls, Request(c) PROVE Next /\ AInv'
  BY <1>0, <1>1, RequestOK DEF Next
<1>2. ASSUME NEW c \in Calls, Issue(c) PROVE Next /\ AInv'
  BY <1>0, <1>2, IssueReplyOK DEF Issue, Continue, Next
<1>3. ASSUME NEW c \in Calls, Proceed(c) PROVE Next /\ AInv'
  BY <1>0, <1>3, ProceedOK DEF Next
<1>4. ASSUME NEW c \in Calls, Error(c) PROVE Next /\ AInv'
  BY <1>0, <1>4, ErrorOK DEF Error, Next
<1>5. ASSUME NEW c \in Calls, Reply(c) \/ LoseReply(c) PROVE UNCHANGED vars /\ AInv'
  BY <1>0, <1>5, ReplyOK, LoseReplyOK DEF Reply, LoseReply
<1>6. ASSUME Demote \/ NobodyLeft \/ UNCHANGED authVars PROVE UNCHANGED vars /\ AInv'
  <2>1. UNCHANGED <<vars, cookie, reply>>
    BY <1>6 DEF Demote, NobodyLeft, authVars
  <2> QED
    BY <1>0, <2>1 DEF vars, AInv, AuthTypes, Owed, AllIssued, Issued, OnePlace,
       ParentsDelivered, Delivered, ToHolder, CookieIsUnspent, Awaited
<1>7. [Next]_vars /\ AInv'
  BY <1>1, <1>2, <1>3, <1>4, <1>5, <1>6 DEF AuthNext
<1>8. role' \in Roles
  <2>1. "Moderator" \in Roles
    BY DEF Roles, RolePriorities
  <2> QED
    BY <1>0, <2>1 DEF AuthNext, authVars, Request, SignInRequest, LogOutRequest,
       RefreshRequest, ChangePasswordRequest, RevokeRequest, RevokeAllRequest,
       RevokeAllAdminRequest, Await, Unanswered, Issue, Proceed, Error, Reply,
       LoseReply, Demote, NobodyLeft
<1>9. IInv'
  BY <1>7, NextOK DEF AuthIInv
<1> QED
  BY <1>7, <1>8, <1>9 DEF AuthIInv

LEMMA AuthInvariant == AuthSpec => [](AuthIInv) /\ Spec
<1>1. AuthInit => AuthIInv /\ Init
  BY AuthInitOK, InitOK DEF AuthInit, AuthIInv, Roles, RolePriorities
<1> QED
  BY <1>1, AuthStep, PTL DEF AuthSpec, Spec

\* What browsers do through the controllers is what Sessions allows its callers,
\* so what Sessions promises holds here: whatever overlaps, fails and is lost, no
\* client is refused while its session still shows as active.
THEOREM ControllersKeepSessions == AuthSpec => Spec /\ []OnlyRevokedBlacklisted
BY AuthInvariant, OnlyRevokedRefused, PTL

\* However requests overlap and fail, a browser never holds a refresh token that
\* has been exchanged while no reply is lost (auth.controller.ts:133-139).
THEOREM CookiesUnspent == AuthSpec => []CookieIsUnspent
<1>1. AuthIInv => CookieIsUnspent
  BY DEF AuthIInv, AInv
<1> QED
  BY <1>1, AuthInvariant, PTL

-----------------------------------------------------------------------------
\* Roles

\* Without overlap, a call that has read `Admin' ends before the row says less,
\* and the token of no session to come has a role that matters.
RolesInv ==
  /\ \A c \in Calls :
       reply[c].role = "Admin" =>
         reply[c].to # None /\ ("overlap" \notin hazards => role = "Admin")
  /\ claim \in [Ids -> Roles]
  /\ \A s \in Ids : token[s].status = "none" => claim[s] # "Admin"

LEMMA OnlyAdminPasses == \A r \in Roles : RolePriorities["Admin"] <= RolePriorities[r] <=> r = "Admin"
BY DEF Roles, RolePriorities

LEMMA RowsStay ==
  ASSUME WeakTypes, [Next]_vars
  PROVE  /\ blacklist \subseteq blacklist' /\ hazards' = hazards
         /\ \A s \in Ids : token'[s].status = "none" => token[s].status = "none"
<1> USE DEF WeakTypes, WeakRows
<1>1. ASSUME NEW c \in Calls, StartCall(c) \/ Fail(c)
      PROVE  UNCHANGED <<blacklist, hazards, token>>
  BY <1>1 DEF StartCall, SignIn, Refresh, LogOut, RevokeSession, RevokeAll, ChangePassword,
     Begin, Fail
<1>2. ASSUME NEW c \in Calls, IssueTokens(c) \/ AllFind(c) \/ PasswordUpdate(c)
      PROVE  /\ UNCHANGED <<blacklist, hazards>>
             /\ \A s \in Ids : token'[s].status = "none" => token[s].status = "none"
  BY <1>2 DEF IssueTokens, AllFind, PasswordUpdate, Unused
<1>3. ASSUME NEW c \in Calls, RevokeUpdate(c) \/ AllUpdate(c)
      PROVE  /\ UNCHANGED <<blacklist, hazards>>
             /\ \A s \in Ids : token'[s].status = "none" => token[s].status = "none"
  BY <1>3 DEF RevokeUpdate, AllUpdate, Deactivated
<1>4. ASSUME NEW c \in Calls, RevokeBlacklist(c) \/ AllBlacklist(c)
      PROVE  UNCHANGED <<token, hazards>> /\ blacklist \subseteq blacklist'
  BY <1>4 DEF RevokeBlacklist, AllBlacklist
<1>5. CASE UNCHANGED vars
  BY <1>5 DEF vars
<1> QED
  BY <1>1, <1>2, <1>3, <1>4, <1>5 DEF Next, Continue, IdsUsedUp

\* The role that the tokens to come will have.
LEMMA RepliesStep ==
  ASSUME AuthIInv, RolesInv, [AuthNext]_authVars, NEW c \in Calls,
         reply'[c].role = "Admin"
  PROVE  reply'[c].to # None /\ ("overlap" \notin hazards => role' = "Admin")
<1>1. reply \in [Calls -> Replies] /\ role \in Roles
  BY DEF AuthIInv, AInv, AuthTypes
<1>2. /\ NoReply.role = "User" /\ NoReply \in Replies
      /\ reply[c].role = "Admin" =>
           reply[c].to # None /\ ("overlap" \notin hazards => role = "Admin")
  BY NoReplyTyped DEF NoReply, RolesInv
<1>3. ASSUME NEW e \in Calls, NEW b \in Browsers, NEW as \in {role, "User"},
             Await(e, b, [NoReply EXCEPT !.role = as])
      PROVE  reply'[c].to # None /\ ("overlap" \notin hazards => role' = "Admin")
  <2>1. /\ reply' = [reply EXCEPT ![e] = [NoReply EXCEPT !.role = as, !.to = b]]
        /\ role' = role
    BY <1>3 DEF Await
  <2>2. CASE e = c
    <3>1. reply'[c] = [NoReply EXCEPT !.role = as, !.to = b]
      BY <1>1, <2>1, <2>2
    <3>2. reply'[c].role = as /\ reply'[c].to = b
      BY <1>2, <3>1 DEF Replies
    <3> QED
      BY <2>1, <3>2, NoneIsNoBrowser
  <2>3. CASE e # c
    BY <1>1, <1>2, <2>1, <2>3
  <2> QED
    BY <2>2, <2>3
<1>4. ASSUME NEW e \in Calls, Request(e)
      PROVE  reply'[c].to # None /\ ("overlap" \notin hazards => role' = "Admin")
  <2>1. NoReply = [NoReply EXCEPT !.role = "User"]
    BY DEF NoReply
  <2> QED
    BY <1>2, <1>3, <1>4, <2>1 DEF Request, SignInRequest, RefreshRequest, LogOutRequest,
       ChangePasswordRequest, RevokeRequest, RevokeAllRequest, RevokeAllAdminRequest, Unanswered
<1>5. ASSUME NEW e \in Calls, Issue(e) \/ Proceed(e) \/ Error(e) \/ Reply(e) \/ LoseReply(e)
      PROVE  reply'[c].to # None /\ ("overlap" \notin hazards => role' = "Admin")
  <2>1. /\ role' = role
        /\ \/ reply' = [reply EXCEPT ![e] = NoReply]
           \/ \E s \in Ids : reply' = [reply EXCEPT ![e].cookie = s]
           \/ reply' = reply
    BY <1>5 DEF Issue, Unused, Proceed, Error, Reply, LoseReply
  <2>2. reply'[c] = NoReply \/ (reply'[c].role = reply[c].role /\ reply'[c].to = reply[c].to)
    BY <1>1, <2>1 DEF Replies
  <2> QED
    BY <1>2, <2>1, <2>2
<1>6. CASE Demote
  BY <1>2, <1>6 DEF Demote, Awaited
<1>7. CASE NobodyLeft \/ UNCHANGED authVars
  BY <1>2, <1>7 DEF NobodyLeft, authVars
<1> QED
  BY <1>4, <1>5, <1>6, <1>7 DEF AuthNext

\* A role gets into an access token in one way, and then into that of a new one.
LEMMA ClaimsStep ==
  ASSUME AuthIInv, RolesInv, [AuthNext]_authVars
  PROVE  \/ claim' = claim
         \/ \E c \in Calls, s \in Ids :
              /\ claim' = [claim EXCEPT ![s] = reply[c].role]
              /\ token'[s].status = "active"
              /\ role' = role
BY DEF AuthNext, authVars, Request, SignInRequest, RefreshRequest, LogOutRequest,
   ChangePasswordRequest, RevokeRequest, RevokeAllRequest, RevokeAllAdminRequest, Await,
   Unanswered, Issue, Unused, Proceed, Error, Reply, LoseReply, Demote, NobodyLeft

LEMMA RolesStep ==
  ASSUME AuthIInv, RolesInv, [AuthNext]_authVars
  PROVE  /\ RolesInv'
         /\ role # "Admin" /\ "overlap" \notin hazards => AdminNow' \subseteq AdminNow
<1>1. /\ blacklist \subseteq blacklist' /\ hazards' = hazards
      /\ \A s \in Ids : token'[s].status = "none" => token[s].status = "none"
  BY AuthStep, RowsStay DEF AuthIInv, IInv
<1>2. /\ reply \in [Calls -> Replies] /\ claim \in [Ids -> Roles]
      /\ \A c \in Calls : reply[c].role \in Roles
  BY DEF AuthIInv, AInv, AuthTypes, RolesInv, Replies
<1>3. /\ claim' \in [Ids -> Roles]
      /\ \A s \in Ids : token'[s].status = "none" => claim'[s] # "Admin"
  BY <1>1, <1>2, ClaimsStep DEF RolesInv
<1>4. RolesInv'
  BY <1>1, <1>3, RepliesStep DEF RolesInv
<1>5. ASSUME role # "Admin", "overlap" \notin hazards, NEW s \in Ids, claim'[s] = "Admin"
      PROVE  claim[s] = "Admin"
  BY <1>2, <1>5, ClaimsStep DEF RolesInv
<1>6. ASSUME role # "Admin", "overlap" \notin hazards, NEW s \in AdminNow'
      PROVE  s \in AdminNow
  <2>1. s \in Ids /\ token'[s].status # "none" /\ s \notin blacklist' /\ claim'[s] = "Admin"
    BY <1>3, OnlyAdminPasses DEF AdminNow, CanActivate, RolesGuard
  <2>2. claim[s] = "Admin" /\ s \notin blacklist
    BY <1>1, <1>5, <1>6, <2>1
  <2>3. token[s].status # "none"
    BY <2>1, <2>2 DEF RolesInv
  <2> QED
    BY <1>2, <2>1, <2>2, <2>3, OnlyAdminPasses DEF AdminNow, CanActivate, RolesGuard
<1> QED
  BY <1>4, <1>6

\* Who is no administrator any more gets no access token of one, for every set of
\* sessions, browsers and calls (roles.guard.ts:48).
THEOREM DemotionsStick == AuthSpec => DemotionSticks
<1>1. AuthInit => RolesInv
  BY DEF AuthInit, RolesInv, NoReply, Roles, RolePriorities
<1>2. AuthIInv /\ RolesInv /\ [AuthNext]_authVars => RolesInv'
  BY RolesStep
<1>3. AuthIInv /\ RolesInv /\ [AuthNext]_authVars =>
        [role # "Admin" /\ "overlap" \notin hazards => AdminNow' \subseteq AdminNow]_authVars
  BY RolesStep
<1> QED
  BY <1>1, <1>2, <1>3, AuthInvariant, PTL DEF AuthSpec, DemotionSticks

-----------------------------------------------------------------------------
\* Nothing is left open: one request at a time, no failure and no lost reply.

Busy(c) == call[c].at # "idle" \/ reply[c].to # None

OneRequest == \A c, d \in Calls : Busy(c) /\ Busy(d) => c = d

HeldOrComing ==
  \A s \in Active :
    \/ \E b \in Browsers : cookie[b] = s
    \/ \E c \in Calls : reply[c].to # None /\ reply[c].cookie = s

\* A call that is yet to revoke session s.
Ends(record, s) ==
  \/ record.at \in {"password.update", "all.find"}
  \/ record.at \in {"revoke.update", "all.update"} /\ s \in record.found

\* The session whose cookie a reply is to replace ends before that reply.
Replaced ==
  \A c \in Calls, b \in Browsers :
    reply[c].to = b /\ cookie[b] \in Active => Ends(call[c], cookie[b])

HeldInv == OneRequest /\ HeldOrComing /\ Replaced

LEMMA OneMoves ==
  ASSUME WeakTypes, AuthTypes, HeldInv,
         NEW c \in Calls, NEW k \in WeakCalls, NEW r \in Replies,
         \A d \in Calls : d # c => ~Busy(d),
         call' = [call EXCEPT ![c] = k],
         reply' = [reply EXCEPT ![c] = r], cookie' = cookie,
         reply[c].cookie = None, r.cookie = None,
         \A s \in Ids : token'[s].status = "active" => token[s].status = "active",
         \A b \in Browsers : r.to = b /\ cookie[b] \in Active' => Ends(k, cookie[b])
  PROVE  HeldInv'
<1>1. \A e \in Calls : /\ call'[e] = IF e = c THEN k ELSE call[e]
                       /\ reply'[e] = IF e = c THEN r ELSE reply[e]
  BY DEF WeakTypes, AuthTypes
<1>2. \A d \in Calls : d # c => call[d].at = "idle" /\ reply[d].to = None
  BY DEF Busy
<1>3. OneRequest'
  BY <1>1, <1>2 DEF OneRequest, Busy
<1>4. HeldOrComing'
  <2> SUFFICES ASSUME NEW s \in Active' PROVE \E b \in Browsers : cookie[b] = s
    BY DEF HeldOrComing
  <2>1. s \in Ids /\ s \in Active
    BY DEF Active
  <2>2. \A e \in Calls : reply[e].to = None \/ reply[e].cookie # s
    BY <1>2, <2>1, IdsFinite
  <2> QED
    BY <2>1, <2>2 DEF HeldInv, HeldOrComing
<1>5. Replaced'
  BY <1>1, <1>2, NoneIsNoBrowser DEF Replaced
<1> QED
  BY <1>3, <1>4, <1>5 DEF HeldInv

\* A request is alone, and its reply will replace the cookie of a session that works
\* only if the request ends that session.
LEMMA RequestHolds ==
  ASSUME AuthIInv, HeldInv, hazards = {}, NEW c \in Calls, Request(c)
  PROVE  HeldInv'
<1>0. /\ WeakTypes /\ AuthTypes /\ AInv /\ Idle \in WeakCalls
      /\ token \in [Ids -> WeakRows] /\ password \in Nat
      /\ cookie \in [Browsers -> Ids \cup {None}] /\ reply \in [Calls -> Replies]
  BY IdleTyped DEF AuthIInv, IInv, AInv, WeakTypes, AuthTypes
<1>1. ASSUME NEW k, Begin(c, k), MayRequest(c)
      PROVE  \A d \in Calls : ~Busy(d)
  BY <1>1 DEF Begin, InFlight, MayRequest, Awaited, Busy
<1>2. ASSUME NEW k \in WeakCalls, NEW b \in Browsers, NEW as \in Roles,
             Begin(c, k), Await(c, b, [NoReply EXCEPT !.role = as]),
             cookie[b] \in Active => Ends(k, cookie[b])
      PROVE  HeldInv'
  <2> DEFINE r == [[NoReply EXCEPT !.role = as] EXCEPT !.to = b]
  <2>1. r \in Replies /\ r.to = b /\ r.cookie = None
    BY NoReplyTyped DEF Replies, NoReply
  <2>2. /\ call' = [call EXCEPT ![c] = k] /\ reply' = [reply EXCEPT ![c] = r]
        /\ UNCHANGED <<token, cookie>> /\ MayRequest(c)
    BY <1>2 DEF Begin, Await
  <2>3. reply[c].cookie = None
    BY <1>0, <2>2, Unawaited
  <2>4. \A d \in Calls : d # c => ~Busy(d)
    BY <1>1, <1>2, <2>2
  <2>5. \A d \in Browsers : r.to = d /\ cookie[d] \in Active' => Ends(k, cookie[d])
    BY <1>2, <2>1, <2>2 DEF Active
  <2> QED
    BY <1>0, <2>1, <2>2, <2>3, <2>4, <2>5, OneMoves
<1>3. ASSUME NEW k \in WeakCalls, Begin(c, k), Unanswered(c) PROVE HeldInv'
  <2>1. /\ call' = [call EXCEPT ![c] = k] /\ reply' = [reply EXCEPT ![c] = reply[c]]
        /\ UNCHANGED <<token, cookie>> /\ MayRequest(c) /\ reply[c] \in Replies
    BY <1>0, <1>3 DEF Begin, Unanswered
  <2>2. reply[c].cookie = None /\ reply[c].to = None
    BY <1>0, <2>1, Unawaited
  <2>3. \A d \in Calls : d # c => ~Busy(d)
    BY <1>1, <1>3, <2>1
  <2>4. \A b \in Browsers : reply[c].to # b
    BY <2>2, NoneIsNoBrowser
  <2> QED
    BY <1>0, <2>1, <2>2, <2>3, <2>4, OneMoves
<1>4. /\ "User" \in Roles /\ role \in Roles
      /\ NoReply = [NoReply EXCEPT !.role = "User"]
  BY DEF AuthIInv, Roles, RolePriorities, NoReply
<1>5. ASSUME NEW b \in Browsers, SignInRequest(c, b) PROVE HeldInv'
  <2>1. [Idle EXCEPT !.at = "issue", !.issues = TRUE, !.password = password] \in WeakCalls
    BY <1>0 DEF Idle, WeakCalls, Steps
  <2>2. cookie[b] \notin Active
    BY <1>5 DEF SignInRequest, SignedOut
  <2> QED
    BY <1>2, <1>4, <1>5, <2>1, <2>2 DEF SignInRequest, SignIn
<1>6. ASSUME NEW b \in Browsers, RefreshRequest(c, b) PROVE HeldInv'
  <2> DEFINE s == cookie[b]
             k == [Idle EXCEPT !.at = "revoke.update", !.found = {s}, !.issues = TRUE,
                               !.password = token[s].password, !.parent = s]
  <2>1. s \in Ids /\ Begin(c, k) /\ Await(c, b, [NoReply EXCEPT !.role = role])
    BY <1>0, <1>6 DEF RefreshRequest, Refresh
  <2>2. k \in WeakCalls
    BY <1>0, <2>1 DEF Idle, WeakCalls, WeakRows, Steps
  <2>3. Ends(k, s)
    BY DEF Ends, Idle
  <2> QED
    BY <1>2, <1>4, <2>1, <2>2, <2>3
<1>7. ASSUME NEW b \in Browsers, NEW by \in Ids, LogOutRequest(c, b, by) PROVE HeldInv'
  <2> DEFINE s == cookie[b]
             k == [Idle EXCEPT !.at = "revoke.update", !.found = {s}]
  <2>1. s \in Ids /\ Begin(c, k) /\ Await(c, b, [NoReply EXCEPT !.role = "User"])
    BY <1>0, <1>4, <1>7 DEF LogOutRequest, LogOut
  <2>2. k \in WeakCalls
    BY <1>0, <2>1 DEF Idle, WeakCalls, Steps
  <2>3. Ends(k, s)
    BY DEF Ends, Idle
  <2> QED
    BY <1>2, <1>4, <2>1, <2>2, <2>3
<1>8. ASSUME NEW b \in Browsers, NEW by \in Ids, ChangePasswordRequest(c, b, by) PROVE HeldInv'
  <2> DEFINE k == [Idle EXCEPT !.at = "password.update", !.issues = TRUE]
  <2>1. k \in WeakCalls /\ Ends(k, cookie[b])
    BY <1>0 DEF Idle, WeakCalls, Steps, Ends
  <2> QED
    BY <1>2, <1>4, <1>8, <2>1 DEF ChangePasswordRequest, ChangePassword
<1>9. ASSUME NEW by \in Ids, NEW s \in Ids, RevokeRequest(c, by, s) PROVE HeldInv'
  <2>1. [Idle EXCEPT !.at = "revoke.update", !.found = {s}] \in WeakCalls
    BY <1>0 DEF Idle, WeakCalls, Steps
  <2> QED
    BY <1>3, <1>9, <2>1 DEF RevokeRequest, RevokeSession
<1>10. ASSUME NEW by \in Ids, NEW except \in Ids \cup {None},
              RevokeAll(c, by, except), Unanswered(c)
       PROVE  HeldInv'
  <2>1. [Idle EXCEPT !.at = "all.find", !.except = except] \in WeakCalls
    BY <1>0 DEF Idle, WeakCalls, Steps
  <2> QED
    BY <1>3, <1>10, <2>1 DEF RevokeAll
<1>11. ASSUME NEW by \in Ids, RevokeAllAdminRequest(c, by) PROVE HeldInv'
  BY <1>10, <1>11 DEF RevokeAllAdminRequest
<1>12. ASSUME NEW b \in Browsers, NEW by \in Ids, RevokeAllRequest(c, b, by) PROVE HeldInv'
  BY <1>10, <1>12 DEF RevokeAllRequest
<1> QED
  BY <1>5, <1>6, <1>7, <1>8, <1>9, <1>11, <1>12 DEF Request

\* A call loses sight of a session that it is to end only by ending it, and no jti
\* of an access token is the id of a row: revokeAllSessions spares none.
LEMMA ProceedHolds ==
  ASSUME AuthIInv, HeldInv, NEW c \in Calls, Proceed(c)
  PROVE  HeldInv'
<1>0. /\ WeakTypes /\ AuthTypes /\ AInv
      /\ token \in [Ids -> WeakRows] /\ password \in Nat
      /\ call[c] \in WeakCalls /\ reply[c] \in Replies
      /\ cookie \in [Browsers -> Ids \cup {None}]
  BY DEF AuthIInv, IInv, AInv, WeakTypes, AuthTypes
<1>1. call[c].at # "idle" /\ UNCHANGED <<cookie, reply>>
  BY DEF Proceed, RevokeUpdate, RevokeBlacklist, AllFind, AllUpdate, AllBlacklist,
         PasswordUpdate
<1>2. /\ reply[c].cookie = None /\ reply' = [reply EXCEPT ![c] = reply[c]]
      /\ \A d \in Calls : d # c => ~Busy(d)
  BY <1>0, <1>1 DEF AInv, Owed, AuthTypes, HeldInv, OneRequest, Busy
<1>3. ASSUME NEW k \in WeakCalls, call' = [call EXCEPT ![c] = k],
             \A s \in Ids : token'[s].status = "active" => token[s].status = "active",
             \A s \in Ids : s \in Active' /\ Ends(call[c], s) => Ends(k, s)
      PROVE  HeldInv'
  <2>1. \A b \in Browsers : reply[c].to = b /\ cookie[b] \in Active' => Ends(k, cookie[b])
    BY <1>0, <1>3 DEF HeldInv, Replaced, Active
  <2> QED
    BY <1>0, <1>1, <1>2, <1>3, <2>1, OneMoves
<1>4. CASE RevokeUpdate(c) \/ AllUpdate(c)
  <2>1. PICK k \in WeakCalls : call' = [call EXCEPT ![c] = k]
    <3>1. AfterRevoking(call[c]) \in WeakCalls
      BY <1>0, AfterRevokingTyped
    <3>2. \A to \in Steps : [call[c] EXCEPT !.at = to] \in WeakCalls
      BY <1>0 DEF WeakCalls
    <3> QED
      BY <1>4, <3>1, <3>2 DEF RevokeUpdate, AllUpdate, Advance, Steps
  <2>2. \A s \in Ids :
          token'[s].status = "active" => token[s].status = "active" /\ s \notin call[c].found
    BY <1>0, <1>4 DEF RevokeUpdate, AllUpdate, Deactivated, WeakRows
  <2>3. \A s \in Ids : s \in Active' => ~Ends(call[c], s)
    BY <1>4, <2>2 DEF RevokeUpdate, AllUpdate, Ends, Active
  <2> QED
    BY <1>3, <2>1, <2>2, <2>3
<1>5. CASE RevokeBlacklist(c) \/ AllBlacklist(c)
  <2>1. /\ call' = [call EXCEPT ![c] = AfterRevoking(call[c])] /\ token' = token
        /\ \A s \in Ids : ~Ends(call[c], s)
    BY <1>5 DEF RevokeBlacklist, AllBlacklist, Advance, Ends
  <2> QED
    BY <1>0, <1>3, <2>1, AfterRevokingTyped
<1>6. CASE AllFind(c)
  <2> DEFINE k == [call[c] EXCEPT !.at = "all.update",
                                  !.found = Active \ Excepted(call[c].except)]
  <2>1. Excepted(call[c].except) = {}
    BY DEF Excepted, RefreshId, AccessJti
  <2>2. k \in WeakCalls /\ k.at = "all.update" /\ k.found = Active
    BY <1>0, <2>1 DEF Active, WeakCalls, Steps
  <2>3. call' = [call EXCEPT ![c] = k] /\ token' = token
    BY <1>6 DEF AllFind, Advance
  <2>4. \A s \in Ids : s \in Active' => Ends(k, s)
    BY <2>2, <2>3 DEF Ends, Active
  <2> QED
    BY <1>3, <2>2, <2>3, <2>4
<1>7. CASE PasswordUpdate(c)
  <2>1. PICK p \in Nat : p = password + 1
    BY <1>0
  <2> DEFINE k == [call[c] EXCEPT !.at = "all.find", !.password = p]
  <2>2. k \in WeakCalls /\ k.at = "all.find"
    BY <1>0 DEF WeakCalls, Steps
  <2>3. call' = [call EXCEPT ![c] = k] /\ token' = token
    BY <1>7, <2>1 DEF PasswordUpdate, Advance
  <2> QED
    BY <1>3, <2>2, <2>3 DEF Ends
<1> QED
  BY <1>4, <1>5, <1>6, <1>7 DEF Proceed

\* The session issued is in the reply of the only request there is.
LEMMA IssueHolds ==
  ASSUME AuthIInv, HeldInv, NEW c \in Calls, Issue(c)
  PROVE  HeldInv'
<1>1. PICK n \in Unused :
        token' = [token EXCEPT ![n] = [status |-> "active", password |-> call[c].password,
                                       parent |-> call[c].parent]]
  BY DEF Issue, IssueTokens
<1>2. PICK s \in Unused :
        /\ token'[s].status = "active"
        /\ reply' = [reply EXCEPT ![c].cookie = s]
  BY DEF Issue
<1>3. /\ n \in Ids /\ token[n].status = "none" /\ token[s].status = "none"
      /\ token \in [Ids -> WeakRows] /\ call \in [Calls -> WeakCalls]
      /\ cookie \in [Browsers -> Ids \cup {None}] /\ reply \in [Calls -> Replies] /\ AInv
  BY DEF Unused, AuthIInv, IInv, AInv, AuthTypes, WeakTypes
<1>4. s = n
  BY <1>1, <1>2, <1>3 DEF Unused
<1>5. /\ call' = [call EXCEPT ![c] = Idle] /\ cookie' = cookie /\ call[c].at = "issue"
  BY DEF Issue, IssueTokens, Advance
<1>6. reply[c].to # None /\ reply[c].cookie = None
  BY <1>5 DEF AuthIInv, AInv, Owed
<1>7. \A b \in Browsers : cookie[b] # n
  BY <1>3, IdsFinite DEF AInv, AllIssued, Issued
<1>8. \A e \in Calls : /\ reply'[e].cookie = IF e = c THEN n ELSE reply[e].cookie
                       /\ reply'[e].to = reply[e].to
                       /\ call'[e] = IF e = c THEN Idle ELSE call[e]
  BY <1>2, <1>3, <1>4, <1>5 DEF Replies
<1>9. \A t \in Ids : t \in Active' <=> t = n \/ t \in Active
  BY <1>1, <1>3 DEF Active
<1>10. OneRequest'
  BY <1>5, <1>8 DEF HeldInv, OneRequest, Busy, Idle
<1>11. HeldOrComing'
  <2> SUFFICES ASSUME NEW t \in Active'
               PROVE  \/ \E b \in Browsers : cookie[b] = t
                      \/ \E e \in Calls : reply'[e].to # None /\ reply'[e].cookie = t
    BY <1>5 DEF HeldOrComing
  <2>1. CASE t = n
    BY <1>6, <1>8, <2>1
  <2>2. CASE t # n
    <3>1. t \in Ids /\ t \in Active
      BY <1>9, <2>2 DEF Active
    <3> QED
      BY <1>6, <1>8, <3>1, IdsFinite DEF HeldInv, HeldOrComing
  <2> QED
    BY <2>1, <2>2
<1>12. Replaced'
  <2> SUFFICES ASSUME NEW e \in Calls, NEW b \in Browsers,
                      reply[e].to = b, cookie[b] \in Active'
               PROVE  Ends(call'[e], cookie[b])
    BY <1>5, <1>8 DEF Replaced
  <2>1. cookie[b] \in Active
    BY <1>7, <1>9 DEF Active
  <2>2. e = c
    BY <1>5, NoneIsNoBrowser DEF HeldInv, OneRequest, Busy
  <2> QED
    BY <1>5, <2>1, <2>2 DEF HeldInv, Replaced, Ends
<1> QED
  BY <1>10, <1>11, <1>12 DEF HeldInv

\* The cookie replaced belongs to a session that has ended.
LEMMA ReplyHolds ==
  ASSUME AuthIInv, HeldInv, NEW c \in Calls, Reply(c)
  PROVE  HeldInv'
<1> DEFINE b == reply[c].to
           n == reply[c].cookie
<1>1. /\ cookie' = [cookie EXCEPT ![b] = n] /\ reply' = [reply EXCEPT ![c] = NoReply]
      /\ UNCHANGED <<call, token>>
  BY DEF Reply, SetCookie, vars
<1>2. /\ call[c].at = "idle" /\ b # None
      /\ cookie \in [Browsers -> Ids \cup {None}] /\ reply \in [Calls -> Replies]
  BY DEF Reply, Answered, Awaited, AuthIInv, AInv, AuthTypes
<1>3. b \in Browsers
  BY <1>2 DEF Replies
<1>4. /\ \A d \in Browsers : cookie'[d] = IF d = b THEN n ELSE cookie[d]
      /\ \A e \in Calls : reply'[e] = IF e = c THEN NoReply ELSE reply[e]
  BY <1>1, <1>2, <1>3
<1>5. \A d \in Calls : d # c => ~Busy(d)
  BY <1>2 DEF HeldInv, OneRequest, Busy
<1>6. cookie[b] \notin Active
  BY <1>2, <1>3 DEF HeldInv, Replaced, Ends
<1>7. OneRequest' /\ Replaced'
  BY <1>1, <1>4, <1>5, NoReplyTyped, NoneIsNoBrowser DEF HeldInv, OneRequest, Replaced, Busy
<1>8. HeldOrComing'
  <2> SUFFICES ASSUME NEW s \in Active PROVE \E d \in Browsers : cookie'[d] = s
    BY <1>1 DEF HeldOrComing, Active
  <2>1. CASE \E d \in Browsers : cookie[d] = s
    BY <1>4, <1>6, <2>1
  <2>2. CASE \E e \in Calls : reply[e].to # None /\ reply[e].cookie = s
    BY <1>3, <1>4, <1>5, <2>2 DEF Busy
  <2> QED
    BY <2>1, <2>2 DEF HeldInv, HeldOrComing
<1> QED
  BY <1>7, <1>8 DEF HeldInv

LEMMA HeldStep == AuthIInv /\ hazards = {} /\ HeldInv /\ [AuthNext]_authVars => HeldInv'
<1> SUFFICES ASSUME AuthIInv, hazards = {}, HeldInv, [AuthNext]_authVars PROVE HeldInv'
  OBVIOUS
<1>1. ASSUME NEW c \in Calls PROVE ~Error(c) /\ ~LoseReply(c)
  BY DEF Error, Fail, LoseReply
<1>2. ASSUME Demote \/ NobodyLeft \/ UNCHANGED authVars PROVE HeldInv'
  <2>1. UNCHANGED <<token, call, cookie, reply>>
    BY <1>2 DEF Demote, NobodyLeft, authVars, vars
  <2> QED
    BY <2>1 DEF HeldInv, OneRequest, HeldOrComing, Replaced, Busy, Ends, Active
<1> QED
  BY <1>1, <1>2, RequestHolds, IssueHolds, ProceedHolds, ReplyHolds DEF AuthNext

\* For every set of sessions, browsers and calls: signing out, refreshing, signing
\* in again and changing the password leave nothing open that no browser holds
\* (auth.controller.ts:92).
THEOREM NothingLeftOpen == AuthSpec => []ActiveIsHeld
<1> DEFINE Inv == hazards = {} => HeldInv
<1>1. AuthInit => Inv
  BY NoReplyTyped DEF AuthInit, Init, HeldInv, OneRequest, HeldOrComing, Replaced, Busy,
     Idle, Active
<1>2. AuthIInv /\ [AuthNext]_authVars => hazards' = hazards
  BY AuthStep, RowsStay DEF AuthIInv, IInv
<1>3. AuthIInv /\ Inv /\ [AuthNext]_authVars => Inv'
  BY <1>2, HeldStep
<1>4. Inv => ActiveIsHeld
  BY DEF ActiveIsHeld, HeldInv, HeldOrComing, Awaited
<1> HIDE DEF Inv
<1> QED
  BY <1>1, <1>3, <1>4, AuthInvariant, PTL DEF AuthSpec

-----------------------------------------------------------------------------
\* Blacklist: the times of one access token, whose clock is not that of the calls above.

LEMMA WholeSeconds ==
  ASSUME NEW x \in Int, NEW s \in Nat \ {0}
  PROVE  x \div s \in Int /\ (x \div s) * s <= x /\ x < (x \div s) * s + s
OBVIOUS

LEMMA NoLessThanZero ==
  ASSUME NEW q \in Int
  PROVE  Max({0, q}) = IF q > 0 THEN q ELSE 0
<1>1. CASE q > 0
  BY <1>1 DEF Max
<1>2. CASE ~(q > 0)
  BY <1>2 DEF Max
<1> QED
  BY <1>1, <1>2

\* What is left of the lifetime counted from the row, when a second before its end is
\* counted as the end.
NearEnd(time) == time > createdAt + ACCESS_TOKEN_TTL * SECOND - SECOND

\* The key, once it is set, lasts until the last second of the token, and where there is
\* none to set, that second has come.  The row is younger than the token.
TimesInv ==
  /\ now \in Nat /\ signedAt \in Nat /\ createdAt \in Nat /\ ttl \in Nat /\ until \in Nat
  /\ signedAt <= now /\ createdAt <= now
  /\ at \in {"new", "signed", "active", "revoked", "set", "blacklisted"}
  /\ at \notin {"new", "signed"} => signedAt <= createdAt
  /\ at = "set" => NearEnd(now + ttl * SECOND)
  /\ at = "blacklisted" => NearEnd(now) \/ NearEnd(until)

\* Times are compared with products only through these.
LEMMA Products ==
  ASSUME ttl \in Nat
  PROVE  ACCESS_TOKEN_TTL * SECOND \in Nat /\ ttl * SECOND \in Nat
BY SecondPositive, TtlPositive

\* The TTL covers what is left of the lifetime but for less than a second.
LEMMA TtlReaches ==
  ASSUME TimesInv
  PROVE  /\ AccessTokenRemainingTtl \in Nat
         /\ AccessTokenRemainingTtl > 0
              => NearEnd(now + AccessTokenRemainingTtl * SECOND)
         /\ AccessTokenRemainingTtl = 0 => NearEnd(now)
<1> DEFINE life == ACCESS_TOKEN_TTL * SECOND
<1>1. PICK x \in Int : x = createdAt + life - now
  BY Products DEF TimesInv
<1>2. PICK q \in Int : q = x \div SECOND /\ x < q * SECOND + SECOND
  BY WholeSeconds, SecondPositive
<1>3. AccessTokenRemainingTtl = IF q > 0 THEN q ELSE 0
  BY <1>1, <1>2, NoLessThanZero DEF AccessTokenRemainingTtl
<1>4. PICK whole \in Int : whole = q * SECOND
  BY SecondPositive, TtlPositive
<1>5. ~(q > 0) => whole <= 0
  BY <1>4, SecondPositive, TtlPositive
<1>6. PICK lifetime \in Nat : lifetime = life
  BY Products DEF TimesInv
<1>7. q > 0 => now + whole > createdAt + lifetime - SECOND
  BY <1>1, <1>2, <1>4, <1>6, SecondPositive, TtlPositive DEF TimesInv
<1>8. ~(q > 0) => now > createdAt + lifetime - SECOND
  BY <1>1, <1>2, <1>4, <1>5, <1>6, SecondPositive, TtlPositive DEF TimesInv
<1> QED
  BY <1>3, <1>4, <1>6, <1>7, <1>8 DEF NearEnd

LEMMA TimesInitOK == TimesInit => TimesInv
BY DEF TimesInit, TimesInv

LEMMA TimesNextOK == TimesInv /\ [TimesNext]_times => TimesInv'
<1> SUFFICES ASSUME TimesInv, [TimesNext]_times PROVE TimesInv'
  OBVIOUS
<1>1. PICK lifetime \in Nat : lifetime = ACCESS_TOKEN_TTL * SECOND
  BY Products DEF TimesInv
<1>2. CASE Sign
  BY <1>2 DEF Sign, TimesInv
<1>3. CASE CreateRow
  BY <1>3 DEF CreateRow, TimesInv
<1>4. CASE Deactivate
  BY <1>4 DEF Deactivate, TimesInv
<1>5. CASE ComputeTtl
  <2>1. /\ ttl' = AccessTokenRemainingTtl /\ at = "revoked"
        /\ at' = IF ttl' > 0 THEN "set" ELSE "blacklisted"
        /\ UNCHANGED <<now, signedAt, createdAt, until>>
    BY <1>5 DEF ComputeTtl
  <2>2. /\ ttl' \in Nat
        /\ ttl' > 0 => (NearEnd(now + ttl * SECOND))'
        /\ ttl' = 0 => NearEnd(now)'
    BY <2>1, TtlReaches DEF NearEnd
  <2> QED
    BY <2>1, <2>2 DEF TimesInv
<1>6. CASE SetKey
  <2>1. PICK gap \in Nat : gap = ttl * SECOND
    BY Products DEF TimesInv
  <2> QED
    BY <1>6, <2>1 DEF SetKey, TimesInv, NearEnd
<1>7. CASE Tick
  <2>1. now' = now + 1 /\ UNCHANGED <<at, signedAt, createdAt, ttl, until>>
    BY <1>7 DEF Tick
  <2>2. at = "set" => (NearEnd(now + ttl * SECOND))'
    <3>1. PICK gap \in Nat : gap = ttl * SECOND
      BY Products DEF TimesInv
    <3> QED
      BY <1>1, <2>1, <3>1, SecondPositive, TtlPositive DEF TimesInv, NearEnd
  <2>3. at = "blacklisted" => NearEnd(now)' \/ NearEnd(until)'
    BY <1>1, <2>1, SecondPositive, TtlPositive DEF TimesInv, NearEnd
  <2> QED
    BY <2>1, <2>2, <2>3 DEF TimesInv
<1>8. CASE Stop \/ UNCHANGED times
  BY <1>8 DEF Stop, times, TimesInv, NearEnd
<1> QED
  BY <1>2, <1>3, <1>4, <1>5, <1>6, <1>7, <1>8 DEF TimesNext

\* For every length of a second in ticks and every TTL, a token whose revocation is complete
\* is let through for less than a second at most, the last of its life, however long the
\* steps of the revocation take (auth.service.ts:87).
THEOREM RefusedToTheLastSecond == TimesSpec => []RefusedButForLastSecond
<1>1. TimesInv => RefusedButForLastSecond
  <2> SUFFICES ASSUME TimesInv, at = "blacklisted", GuardAccepts
               PROVE  Exp * SECOND - now < SECOND
    BY DEF RefusedButForLastSecond
  <2>1. PICK lifetime \in Nat : lifetime = ACCESS_TOKEN_TTL * SECOND
    BY Products DEF TimesInv
  <2>2. PICK q \in Int : q = signedAt \div SECOND /\ q * SECOND <= signedAt
    BY WholeSeconds, SecondPositive DEF TimesInv
  <2>3. PICK whole \in Int : whole = q * SECOND
    BY SecondPositive, TtlPositive
  <2>4. Exp * SECOND = whole + lifetime
    BY <2>1, <2>2, <2>3, SecondPositive, TtlPositive DEF Exp
  <2>5. now >= until
    BY DEF GuardAccepts, IsBlacklisted, TimesInv
  <2>6. now > createdAt + lifetime - SECOND
    BY <2>1, <2>5, SecondPositive, TtlPositive DEF TimesInv, NearEnd
  <2> QED
    BY <2>2, <2>3, <2>4, <2>6, SecondPositive, TtlPositive DEF TimesInv
<1> QED
  BY <1>1, TimesInitOK, TimesNextOK, PTL DEF TimesSpec
=============================================================================
