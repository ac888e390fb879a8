--------------------------- MODULE AccountsProofs ---------------------------
(***************************************************************************)
(* What Accounts keeps for every number of persons, names, calls and       *)
(* attempts: a filter whose rebuilds overlap no call reports every         *)
(* nickname that is taken, however the calls overlap each other.           *)
(***************************************************************************)
EXTENDS Accounts, TLAPS

IsCall(r) == r = [at |-> r.at, person |-> r.person, name |-> r.name,
                  attempt |-> r.attempt, hasRow |-> r.hasRow]

Shaped ==
  /\ nickname = [p \in Persons |-> nickname[p]]
  /\ call = [c \in Calls |-> call[c]]
  /\ \A c \in Calls : IsCall(call[c])

\* The name is in the filter, or on its way there.
Known(name) ==
  name \in filter \/ \E c \in Calls : call[c].at = "emit" /\ call[c].name = name

\* TakenIsReported alone is not inductive: a rebuild replaces the filter by the names it
\* has read, and no call takes another one meanwhile.
Reported ==
  /\ \A name \in Taken : Known(name)
  /\ rebuild.running => InFlight = {} /\ Taken \subseteq rebuild.names

\* The environments TakenIsReported speaks of.
Apart == "rebuild overlaps calls" \notin hazards

IInv == Shaped /\ (Apart => Reported)

-----------------------------------------------------------------------------

LEMMA IdleIsCall == IsCall(Idle) /\ Idle.at = "idle"
BY DEF IsCall, Idle

LEMMA InitOK == Init => IInv
<1> SUFFICES ASSUME Init PROVE IInv
  OBVIOUS
<1>1. InFlight = {} /\ Taken = {} /\ Shaped
  BY IdleIsCall DEF Init, InFlight, Taken, Shaped
<1> QED
  BY <1>1 DEF Init, IInv, Reported, NoRebuild

\* Call c goes on with the record r, or is over.  It takes no name but the one it is
\* about to report.
LEMMA CallStep ==
  ASSUME IInv, NEW c \in Calls, NEW r, IsCall(r), call' = [call EXCEPT ![c] = r],
         UNCHANGED <<hazards, rebuild>>, Apart => ~rebuild.running,
         filter \subseteq filter', call[c].at = "emit" => call[c].name \in filter',
         nickname' = [p \in Persons |-> nickname'[p]],
         \A p \in Persons :
           nickname'[p] = nickname[p] \/ (r.at = "emit" /\ r.name = nickname'[p])
  PROVE  IInv'
<1>1. \A e \in Calls : call'[e] = IF e = c THEN r ELSE call[e]
  BY DEF IInv, Shaped
<1>2. Shaped'
  <2>1. call' = [e \in Calls |-> call'[e]]
    BY DEF IInv, Shaped
  <2> QED
    BY <1>1, <2>1 DEF IInv, Shaped
<1>3. ASSUME Apart PROVE Reported'
  <2>1. \A name \in Taken : Known(name)
    BY <1>3 DEF IInv, Reported
  <2>2. ASSUME NEW name, Known(name) PROVE Known(name)'
    <3>1. CASE name \in filter
      BY <3>1 DEF Known
    <3>2. CASE \E e \in Calls : call[e].at = "emit" /\ call[e].name = name
      BY <1>1, <3>2 DEF Known
    <3> QED
      BY <2>2, <3>1, <3>2 DEF Known
  <2>3. ASSUME NEW name \in Taken' PROVE Known(name)'
    <3>1. PICK p \in Persons : name = nickname'[p] /\ name # None
      BY <2>3 DEF Taken
    <3>2. CASE nickname'[p] = nickname[p]
      BY <2>1, <2>2, <3>1, <3>2 DEF Taken
    <3>3. CASE r.at = "emit" /\ r.name = nickname'[p]
      BY <1>1, <3>1, <3>3 DEF Known
    <3> QED
      BY <3>2, <3>3
  <2> QED
    BY <1>3, <2>3 DEF Reported
<1> QED
  BY <1>2, <1>3 DEF IInv, Apart

-----------------------------------------------------------------------------
\* The actions

\* Where TakenIsReported applies, no rebuild runs while a call does.
LEMMA Starting ==
  ASSUME NEW c \in Calls, NEW r, Start(c, r)
  PROVE  /\ call[c].at = "idle" /\ call' = [call EXCEPT ![c] = r]
         /\ Apart => ~rebuild.running
BY DEF Start, MayStart, Apart

LEMMA Continuing ==
  ASSUME IInv, NEW c \in Calls, call[c].at # "idle"
  PROVE  IsCall(call[c]) /\ (Apart => ~rebuild.running)
BY DEF IInv, Shaped, Reported, InFlight

\* Create and Update.
LEMMA WriteOK ==
  ASSUME IInv, NEW c \in Calls, NEW p \in Persons, NEW name \in Names,
         Create(c, p, name) \/ Update(c, p, name)
  PROVE  IInv'
<1>1. PICK r : r = [Idle EXCEPT !.at = "emit", !.name = name]
  OBVIOUS
<1>2. IsCall(r) /\ r.at = "emit" /\ r.name = name
  BY <1>1 DEF IsCall, Idle
<1>3. /\ Start(c, r) /\ nickname' = [nickname EXCEPT ![p] = name]
      /\ UNCHANGED <<hazards, filter, rebuild>>
  BY <1>1 DEF Create, Update
<1>4. /\ nickname' = [q \in Persons |-> nickname'[q]]
      /\ \A q \in Persons : nickname'[q] = nickname[q] \/ nickname'[q] = name
  BY <1>3 DEF IInv, Shaped
<1> QED
  BY <1>2, <1>3, <1>4, Starting, CallStep, ZenonT(40)

LEMMA EmitOK ==
  ASSUME IInv, NEW c \in Calls, Emit(c)
  PROVE  IInv'
<1>1. /\ call[c].at = "emit" /\ call' = [call EXCEPT ![c] = Idle]
      /\ UNCHANGED <<hazards, nickname, rebuild>>
  BY DEF Emit, Advance
<1>2. filter \subseteq filter' /\ call[c].name \in filter'
  BY DEF Emit, Reports
<1>3. nickname' = [q \in Persons |-> nickname'[q]]
  BY <1>1 DEF IInv, Shaped
<1>4. PICK over : over = Idle
  OBVIOUS
<1> QED
  BY <1>1, <1>2, <1>3, <1>4, IdleIsCall, Continuing, CallStep

LEMMA GoogleFindByIdOK ==
  ASSUME IInv, NEW c \in Calls, NEW p \in Persons, GoogleFindById(c, p)
  PROVE  IInv'
<1>1. PICK r : r = [Idle EXCEPT !.at = "google.findByEmail", !.person = p,
                                !.name = CreateNickname]
  OBVIOUS
<1>2. IsCall(r)
  BY <1>1 DEF IsCall, Idle
<1>3. Start(c, r) /\ UNCHANGED <<hazards, nickname, filter, rebuild>>
  BY <1>1 DEF GoogleFindById
<1>4. nickname' = [q \in Persons |-> nickname'[q]]
  BY <1>3 DEF IInv, Shaped
<1> QED
  BY <1>2, <1>3, <1>4, Starting, CallStep

LEMMA GoogleFindByEmailOK ==
  ASSUME IInv, NEW c \in Calls, GoogleFindByEmail(c)
  PROVE  IInv'
<1>1. PICK self, r :
        /\ self = call[c]
        /\ r = IF nickname[self.person] # None
                 THEN [self EXCEPT !.at = "google.link", !.hasRow = TRUE]
                 ELSE [self EXCEPT !.at = "google.create"]
  OBVIOUS
<1>2. /\ self.at = "google.findByEmail" /\ call' = [call EXCEPT ![c] = r]
      /\ UNCHANGED <<hazards, nickname, filter, rebuild>>
  BY <1>1 DEF GoogleFindByEmail, Advance
<1>3. IsCall(self) /\ (Apart => ~rebuild.running)
  BY <1>1, <1>2, Continuing
<1>4. nickname' = [q \in Persons |-> nickname'[q]]
  BY <1>2 DEF IInv, Shaped
<1>5. IsCall(r)
  BY <1>1, <1>3 DEF IsCall
<1> QED
  BY <1>1, <1>2, <1>3, <1>4, <1>5, CallStep

LEMMA GoogleLinkOK ==
  ASSUME IInv, NEW c \in Calls, GoogleLink(c)
  PROVE  IInv'
<1>1. /\ call[c].at = "google.link" /\ call' = [call EXCEPT ![c] = Idle]
      /\ UNCHANGED <<hazards, nickname, filter, rebuild>>
  BY DEF GoogleLink, Advance
<1>2. nickname' = [q \in Persons |-> nickname'[q]]
  BY <1>1 DEF IInv, Shaped
<1>3. PICK over : over = Idle
  OBVIOUS
<1> QED
  BY <1>1, <1>2, <1>3, IdleIsCall, Continuing, CallStep

\* An insert, a conflict on the nickname and one on the address or the Google id.
LEMMA GoogleCreateOK ==
  ASSUME IInv, NEW c \in Calls, GoogleCreate(c)
  PROVE  IInv'
<1> DEFINE candidate == Suffixed(call[c].name, call[c].attempt)
<1>1. PICK self : self = call[c]
  OBVIOUS
<1>2. self.at = "google.create" /\ UNCHANGED <<hazards, filter, rebuild>>
  BY <1>1 DEF GoogleCreate
<1>3. IsCall(self) /\ (Apart => ~rebuild.running)
  BY <1>1, <1>2, Continuing
<1>4. ASSUME nickname' = [nickname EXCEPT ![self.person] = candidate],
             call' = [call EXCEPT ![c] = [Idle EXCEPT !.at = "emit", !.name = candidate]]
      PROVE  IInv'
  <2>1. PICK r : r = [Idle EXCEPT !.at = "emit", !.name = candidate]
    OBVIOUS
  <2>2. IsCall(r) /\ r.at = "emit" /\ r.name = candidate
    BY <2>1 DEF IsCall, Idle
  <2>3. /\ nickname' = [q \in Persons |-> nickname'[q]]
        /\ \A q \in Persons : nickname'[q] = nickname[q] \/ nickname'[q] = candidate
    BY <1>4 DEF IInv, Shaped
  <2>4. call' = [call EXCEPT ![c] = r]
    BY <1>4, <2>1
  <2> QED
    BY <1>1, <1>2, <1>3, <2>2, <2>3, <2>4, CallStep
<1>5. ASSUME NEW r, IsCall(r), call' = [call EXCEPT ![c] = r], UNCHANGED nickname
      PROVE  IInv'
  <2>1. nickname' = [q \in Persons |-> nickname'[q]]
    BY <1>5 DEF IInv, Shaped
  <2> QED
    BY <1>1, <1>2, <1>3, <1>5, <2>1, CallStep
<1>6. PICK over, again, next :
        over = Idle /\ again = [self EXCEPT !.attempt = @ + 1] /\ next = AfterConflict(self)
  OBVIOUS
<1>7. IsCall(over) /\ IsCall(again)
  BY <1>3, <1>6, IdleIsCall DEF IsCall
<1>8. IsCall(next)
  <2>1. next = again \/ next = over
    BY <1>6 DEF AfterConflict, NextAttempt
  <2> QED
    BY <1>7, <2>1
<1>9. \/ /\ nickname' = [nickname EXCEPT ![self.person] = candidate]
         /\ call' = [call EXCEPT ![c] = [Idle EXCEPT !.at = "emit", !.name = candidate]]
      \/ UNCHANGED nickname /\ call' = [call EXCEPT ![c] = next]
      \/ UNCHANGED nickname /\ call' = [call EXCEPT ![c] = over]
  BY <1>1, <1>6 DEF GoogleCreate, Advance
<1> QED
  BY <1>4, <1>5, <1>7, <1>8, <1>9

\* The names that are left, and what calls know of them, stay true when a row goes.
LEMMA DeleteOK ==
  ASSUME IInv, NEW p \in Persons, Delete(p)
  PROVE  IInv'
<1>1. /\ nickname' = [nickname EXCEPT ![p] = None]
      /\ call' = [c \in Calls |-> IF call[c].person = p THEN [call[c] EXCEPT !.hasRow = FALSE]
                                  ELSE call[c]]
      /\ UNCHANGED <<hazards, filter, rebuild>>
  BY DEF Delete
<1>2. ASSUME NEW q \in Persons
      PROVE  nickname'[q] = nickname[q] \/ nickname'[q] = None
  BY <1>1 DEF IInv, Shaped
<1>3. ASSUME NEW c \in Calls
      PROVE  IsCall(call'[c]) /\ call'[c].at = call[c].at /\ call'[c].name = call[c].name
  <2>1. PICK r : r = call[c] /\ IsCall(r)
    BY DEF IInv, Shaped
  <2>2. PICK s : s = [r EXCEPT !.hasRow = FALSE]
    OBVIOUS
  <2>3. IsCall(s) /\ s.at = r.at /\ s.name = r.name
    BY <2>1, <2>2 DEF IsCall
  <2>4. call'[c] = r \/ call'[c] = s
    BY <1>1, <2>1, <2>2
  <2> QED
    BY <2>1, <2>3, <2>4
<1>4. Shaped'
  <2>1. nickname' = [q \in Persons |-> nickname'[q]] /\ call' = [c \in Calls |-> call'[c]]
    BY <1>1 DEF IInv, Shaped
  <2> QED
    BY <1>3, <2>1 DEF Shaped
<1>5. InFlight' = InFlight
  BY <1>3 DEF InFlight
<1>6. ASSUME Apart PROVE Reported'
  <2>1. Taken' \subseteq Taken
    BY <1>2 DEF Taken
  <2>2. \A name \in Taken : Known(name)'
    BY <1>1, <1>3, <1>6 DEF IInv, Reported, Known
  <2>3. rebuild.running => InFlight = {} /\ Taken \subseteq rebuild.names
    BY <1>6 DEF IInv, Reported
  <2> QED
    BY <1>1, <1>5, <2>1, <2>2, <2>3 DEF Reported
<1> QED
  BY <1>1, <1>4, <1>6 DEF IInv, Apart

\* Steps that leave rows and calls alone.
LEMMA FilterStep ==
  ASSUME IInv, UNCHANGED <<hazards, nickname, call>>, Apart /\ Reported => Reported'
  PROVE  IInv'
BY DEF IInv, Shaped, Apart

LEMMA RebuildOK ==
  ASSUME IInv, RebuildRead \/ RebuildSwap \/ RebuildFails
  PROVE  IInv'
<1>1. UNCHANGED <<hazards, nickname, call>>
  BY DEF RebuildRead, RebuildSwap, RebuildFails
<1>2. Taken' = Taken /\ InFlight' = InFlight
  BY <1>1 DEF Taken, InFlight
<1>3. CASE RebuildRead
  BY <1>1, <1>2, <1>3, FilterStep DEF RebuildRead, MayRebuild, Apart, Reported, Known
<1>4. CASE RebuildSwap
  BY <1>1, <1>2, <1>4, FilterStep DEF RebuildSwap, Reports, NoRebuild, Reported, Known
<1>5. CASE RebuildFails
  BY <1>1, <1>2, <1>5, FilterStep DEF RebuildFails, NoRebuild, Reported, Known
<1> QED
  BY <1>3, <1>4, <1>5

LEMMA RestartOK ==
  ASSUME IInv, Restart
  PROVE  IInv'
<1>1. /\ \A c \in Calls : call'[c] = Idle
      /\ call' = [c \in Calls |-> call'[c]]
      /\ rebuild' = NoRebuild /\ Taken \subseteq filter'
      /\ UNCHANGED <<hazards, nickname>>
  BY DEF Restart, Reports
<1>2. InFlight' = {} /\ Taken' = Taken
  BY <1>1, IdleIsCall DEF InFlight, Taken
<1>3. Shaped'
  BY <1>1, IdleIsCall DEF IInv, Shaped
<1>4. Reported'
  BY <1>1, <1>2 DEF Reported, Known, NoRebuild
<1> QED
  BY <1>1, <1>3, <1>4 DEF IInv, Apart

LEMMA NextOK == IInv /\ [Next]_vars => IInv'
<1> SUFFICES ASSUME IInv, [Next]_vars PROVE IInv'
  OBVIOUS
<1>1. ASSUME NEW c \in Calls, StartCall(c) \/ Continue(c) PROVE IInv'
  BY <1>1, WriteOK, EmitOK, GoogleFindByIdOK, GoogleFindByEmailOK, GoogleLinkOK,
     GoogleCreateOK DEF StartCall, Continue
<1>2. CASE UNCHANGED vars
  BY <1>2, FilterStep DEF vars, Reported, Known, Taken, InFlight
<1> QED
  BY <1>1, <1>2, DeleteOK, RebuildOK, RestartOK DEF Next

LEMMA Invariance == Spec => []IInv
BY InitOK, NextOK, PTL DEF Spec

-----------------------------------------------------------------------------

\* Where no call overlaps a rebuild, a nickname that is taken is reported as taken, but
\* between the insert and its event, for any number of persons, names and calls and any
\* false positives of the filter (availability.controller.ts:20).
THEOREM TakenIsAlwaysReported == Spec => []TakenIsReported
<1>1. IInv => TakenIsReported
  BY DEF IInv, Apart, Reported, Known, TakenIsReported
<1> QED
  BY <1>1, Invariance, PTL
=============================================================================
