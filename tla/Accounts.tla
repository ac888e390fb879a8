------------------------------ MODULE Accounts ------------------------------
(***************************************************************************)
(* Accounts and the filter of their nicknames: UsersService on the User    *)
(* table, and AvailabilityService, which learns of new nicknames by events *)
(* and is rebuilt from the table by a worker thread.  The filter of the    *)
(* e-mail addresses is treated like that of the nicknames everywhere.      *)
(*                                                                         *)
(* A person has one e-mail address and one Google id.  A nickname is the   *)
(* sequence of the suffixes appended to a basis: <<>> is `john', <<1>>     *)
(* `john1', <<1, 2>> `john12'.                                             *)
(***************************************************************************)
EXTENDS Naturals, Sequences, FiniteSets, TLC

CONSTANTS Persons, Names, None,
          Calls,           \* slots for the calls in flight
          MaxAttempts,     \* MAX_CREATING_GOOGLE_USER_ATTEMPTS
          FalsePositives,  \* bound: the names the filter may report by accident
          Environments     \* what may hold of the surroundings

ASSUME PersonsFinite == IsFiniteSet(Persons)
ASSUME NamesFinite == IsFiniteSet(Names)   \* a bound as well
ASSUME NamesAreSuffixes == <<>> \in Names /\ Names \subseteq Seq(Nat)
ASSUME NoneIsNoName == None \notin Names
ASSUME MaxAttemptsPositive == MaxAttempts \in Nat \ {0}
ASSUME FalsePositivesAreNames == FalsePositives \subseteq Names
ASSUME EnvironmentsKnown ==
  Environments \subseteq SUBSET {"rebuild overlaps calls", "conflicts name their target"}

VARIABLES hazards,   \* what holds in this behaviour.  Conflicts name their target only in the
                     \* unit tests: PrismaPg, the adapter of prisma.service.ts:25, reports no
                     \* meta.target (exception.filter.ts:120)
          nickname,  \* User.nickname of each person, None: no row
          linked,    \* the persons whose row has a googleId
          filter,    \* the names BloomFilter.has answers true for
          rebuild,   \* the rebuild in progress and the names it has read
          call,
          refused    \* the persons Google sign-in has failed for because of a nickname

vars == <<hazards, nickname, linked, filter, rebuild, call, refused>>

Steps == {"idle", "emit", "google.findByEmail", "google.link", "google.create"}

CallRecords ==
  [at : Steps, person : Persons \cup {None}, name : Names \cup {None},
   attempt : 0..(MaxAttempts - 1),
   hasRow : BOOLEAN]   \* whether the row found by e-mail is still there

Idle == [at |-> "idle", person |-> None, name |-> None, attempt |-> 0,
         hasRow |-> FALSE]

NoRebuild == [running |-> FALSE, names |-> {}]

TypeOK ==
  /\ hazards \in Environments
  /\ nickname \in [Persons -> Names \cup {None}]
  /\ linked \in SUBSET Persons
  /\ filter \in SUBSET Names
  /\ rebuild \in [running : BOOLEAN, names : SUBSET Names]
  /\ call \in [Calls -> CallRecords]
  /\ refused \in SUBSET Persons

Taken == {nickname[p] : p \in Persons} \ {None}

\* The first rebuild has run (onModuleInit) before the server listens.
Init ==
  /\ hazards \in Environments
  /\ nickname = [p \in Persons |-> None]
  /\ linked = {}
  /\ filter = {}
  /\ rebuild = NoRebuild
  /\ call = [c \in Calls |-> Idle]
  /\ refused = {}

-----------------------------------------------------------------------------

InFlight == {c \in Calls : call[c].at # "idle"}

\* The environment: calls that overlap each other but no rebuild; or (bound) one
\* call at a time, which a rebuild may overlap.
MayStart ==
  IF "rebuild overlaps calls" \in hazards THEN InFlight = {} ELSE ~rebuild.running

MayRebuild == "rebuild overlaps calls" \in hazards \/ InFlight = {}

Start(c, record) ==
  /\ call[c].at = "idle"
  /\ MayStart
  /\ call' = [call EXCEPT ![c] = record]

Advance(c, record) == call' = [call EXCEPT ![c] = record]

\* A Bloom filter that holds names reports them, and others by accident.
Reports(names) == {names \cup extra : extra \in SUBSET FalsePositives}

-----------------------------------------------------------------------------
\* UsersService.create and update: write the row, then emit

Create(c, p, name) ==
  /\ nickname[p] = None
  /\ name \notin Taken
  /\ Start(c, [Idle EXCEPT !.at = "emit", !.name = name])
  /\ nickname' = [nickname EXCEPT ![p] = name]
  /\ UNCHANGED <<hazards, linked, filter, rebuild, refused>>

Update(c, p, name) ==
  /\ nickname[p] # None
  /\ name \notin Taken \ {nickname[p]}
  /\ Start(c, [Idle EXCEPT !.at = "emit", !.name = name])
  /\ nickname' = [nickname EXCEPT ![p] = name]
  /\ UNCHANGED <<hazards, linked, filter, rebuild, refused>>

\* onUserCreated and onUserUpdated run within emit.
Emit(c) ==
  /\ call[c].at = "emit"
  /\ filter' \in Reports(filter \cup {call[c].name})
  /\ Advance(c, Idle)
  /\ UNCHANGED <<hazards, nickname, linked, rebuild, refused>>

Delete(p) ==
  /\ nickname[p] # None
  /\ nickname' = [nickname EXCEPT ![p] = None]
  /\ linked' = linked \ {p}
  /\ call' = [c \in Calls |-> IF call[c].person = p THEN [call[c] EXCEPT !.hasRow = FALSE]
                             ELSE call[c]]
  /\ UNCHANGED <<hazards, filter, rebuild, refused>>

-----------------------------------------------------------------------------
\* GoogleStrategy.validate and UsersService.findOrCreateGoogleUser

Suffixed(name, k) == IF k = 0 THEN name ELSE Append(name, k)

\* createNickname: the basis, or the basis with the least counter, that the
\* filter does not report.  Bound: a call begins only when Names has one.
IsFree(k) == Suffixed(<<>>, k) \in Names \ filter

Counters == 0..Cardinality(Names)

CreateNickname ==
  Suffixed(<<>>, CHOOSE k \in Counters : IsFree(k) /\ \A j \in 0..(k - 1) : ~IsFree(j))

GoogleFindById(c, p) ==
  /\ p \notin linked
  /\ \E k \in Counters : IsFree(k)
  /\ Start(c, [Idle EXCEPT !.at = "google.findByEmail", !.person = p,
                           !.name = CreateNickname])
  /\ UNCHANGED <<hazards, nickname, linked, filter, rebuild, refused>>

GoogleFindByEmail(c) ==
  /\ call[c].at = "google.findByEmail"
  /\ Advance(c, IF nickname[call[c].person] # None
                  THEN [call[c] EXCEPT !.at = "google.link", !.hasRow = TRUE]
                  ELSE [call[c] EXCEPT !.at = "google.create"])
  /\ UNCHANGED <<hazards, nickname, linked, filter, rebuild, refused>>

\* The update rejects when the row it names by id is gone (P2025), even if the
\* person has another one by now.
GoogleLink(c) ==
  /\ call[c].at = "google.link"
  /\ linked' = IF call[c].hasRow THEN linked \cup {call[c].person}
               ELSE linked
  /\ Advance(c, Idle)
  /\ UNCHANGED <<hazards, nickname, filter, rebuild, refused>>

\* A mistake: the attempts are not counted.
NoAttempt(record) == record

\* After MaxAttempts the call throws.
NextAttempt(record) ==
  IF record.attempt + 1 < MaxAttempts THEN [record EXCEPT !.attempt = @ + 1] ELSE Idle

\* A P2002 on the nickname is followed by another attempt if meta.target names it, as
\* it never does for the program as it is configured: the first conflict is thrown.
IsNicknameConflict == "conflicts name their target" \in hazards

AfterConflict(record) == IF IsNicknameConflict THEN NextAttempt(record) ELSE Idle

GoogleCreate(c) ==
  LET self == call[c]
      candidate == Suffixed(self.name, self.attempt)
  IN  /\ self.at = "google.create"
      /\ \/ /\ nickname[self.person] = None /\ candidate \notin Taken
            /\ nickname' = [nickname EXCEPT ![self.person] = candidate]
            /\ linked' = linked \cup {self.person}
            /\ Advance(c, [Idle EXCEPT !.at = "emit", !.name = candidate])
            /\ UNCHANGED refused
         \/ \* P2002 on the nickname
            /\ candidate \in Taken
            /\ Advance(c, AfterConflict(self))
            /\ refused' = IF call'[c] = Idle THEN refused \cup {self.person} ELSE refused
            /\ UNCHANGED <<nickname, linked>>
         \/ \* P2002 on the e-mail address or the Google id: thrown
            /\ nickname[self.person] # None
            /\ Advance(c, Idle)
            /\ UNCHANGED <<nickname, linked, refused>>
      /\ UNCHANGED <<hazards, filter, rebuild>>

-----------------------------------------------------------------------------
\* AvailabilityService.rebuild: read the table, let the worker build, replace

RebuildRead ==
  /\ ~rebuild.running
  /\ MayRebuild
  /\ rebuild' = [running |-> TRUE, names |-> Taken]
  /\ UNCHANGED <<hazards, nickname, linked, filter, call, refused>>

\* A mistake: the new filter starts out empty.
SwapEmpty ==
  /\ rebuild.running
  /\ filter' \in Reports({})
  /\ rebuild' = NoRebuild
  /\ UNCHANGED <<hazards, nickname, linked, call, refused>>

RebuildSwap ==
  /\ rebuild.running
  /\ filter' \in Reports(rebuild.names)
  /\ rebuild' = NoRebuild
  /\ UNCHANGED <<hazards, nickname, linked, call, refused>>

\* The worker emits an error: the old filter stays.
RebuildFails ==
  /\ rebuild.running
  /\ rebuild' = NoRebuild
  /\ UNCHANGED <<hazards, nickname, linked, filter, call, refused>>

\* The process dies and starts again with a filter built from the table.
Restart ==
  /\ call' = [c \in Calls |-> Idle]
  /\ rebuild' = NoRebuild
  /\ filter' \in Reports(Taken)
  /\ UNCHANGED <<hazards, nickname, linked, refused>>

StartCall(c) ==
  \E p \in Persons :
    \/ \E name \in Names : Create(c, p, name) \/ Update(c, p, name)
    \/ GoogleFindById(c, p)

Continue(c) ==
  Emit(c) \/ GoogleFindByEmail(c) \/ GoogleLink(c) \/ GoogleCreate(c)

Next ==
  \/ \E c \in Calls : StartCall(c) \/ Continue(c)
  \/ \E p \in Persons : Delete(p)
  \/ RebuildRead \/ RebuildSwap \/ RebuildFails
  \/ Restart

Spec == Init /\ [][Next]_vars

\* Postgres answers every query of a call in flight.
FairSpec == Spec /\ \A c \in Calls : WF_vars(Continue(c))

-----------------------------------------------------------------------------

\* findOrCreateGoogleUser gives up after so many attempts, however many names
\* others take meanwhile, so every call ends (users.service.ts:94).  The attempts
\* after the first need a driver whose conflicts name their target.
CallsEnd == \A c \in Calls : call[c].at # "idle" ~> call[c].at = "idle"

\* `should retry with an incremented nickname on P2002 conflict and succeed'
\* (users.service.spec.ts:253): with no more persons than attempts a candidate is free,
\* and Google sign-in does not fail because of a nickname.  The conflict of the test names
\* meta.target.  Those of PrismaPg do not, so that the first one is thrown
\* (users.service.ts:115-127), even if calls follow one another.
RetryHelps == Cardinality(Persons) <= MaxAttempts => refused = {}

\* `Check if a nickname is available' (availability.controller.ts:20): a
\* nickname that is taken is reported as taken, but for the moment between the
\* insert and the event of a call in flight.  Calls may overlap each other but no
\* rebuild, whose worker does not learn of the names taken meanwhile.
TakenIsReported ==
  "rebuild overlaps calls" \notin hazards =>
    \A name \in Taken :
      name \in filter \/ \E c \in Calls : call[c].at = "emit" /\ call[c].name = name
=============================================================================
