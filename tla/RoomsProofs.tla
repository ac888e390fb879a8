----------------------------- MODULE RoomsProofs -----------------------------
(***************************************************************************)
(* What Rooms keeps for every set of users and of room ids and every       *)
(* number of seats of at least two, and how rooms change owners.  First    *)
(* what each write of RoomTables does to the rows, which the proofs of     *)
(* RoomsService and RoomsGateway need too: the types it keeps, whom it     *)
(* seats or unseats, and the seats and owners it keeps in order when what  *)
(* the call has read is not stale.                                         *)
(***************************************************************************)
EXTENDS Rooms, FiniteSetTheorems, TLAPS

LEMMA PlayersFinite ==
  ASSUME NEW t \in Databases, NEW r
  PROVE  /\ IsFiniteSet(PlayersOf(t, r))
         /\ PlayersOf(t, r) \subseteq Users
         /\ Cardinality(PlayersOf(t, r)) \in Nat
<1>1. PlayersOf(t, r) \subseteq Users
  BY DEF PlayersOf
<1>2. IsFiniteSet(PlayersOf(t, r))
  BY <1>1, UsersFinite, FS_Subset
<1> QED
  BY <1>1, <1>2, FS_CardinalityType

-----------------------------------------------------------------------------

LEMMA InsertKeepsType ==
  ASSUME NEW t \in Databases, NEW u \in Users, NEW r \in RoomIds
  PROVE  InsertRoom(t, u, r) \in Databases
BY DEF InsertRoom, Databases, Statuses

LEMMA DeleteKeepsType ==
  ASSUME NEW t \in Databases, NEW r \in RoomIds
  PROVE  DeleteRoom(t, r) \in Databases
BY DEF DeleteRoom, UnseatAll, Databases, Statuses

LEMMA RemoveKeepsType ==
  ASSUME NEW t \in Databases, NEW u \in Users, NEW r \in RoomIds,
         NEW o \in Users \cup {None}
  PROVE  RemovePlayer(t, u, r, o) \in Databases
BY DEF RemovePlayer, Databases, Statuses

LEMMA AddKeepsType ==
  ASSUME NEW t \in Databases, NEW u \in Users, NEW r \in RoomIds, NEW seen
  PROVE  AddPlayer(t, u, r, seen) \in Databases
<1>1. StatusAfterJoin(t.status[r], seen) \in Statuses
  BY DEF StatusAfterJoin, Statuses, Databases
<1> QED
  BY <1>1 DEF AddPlayer, Databases

LEMMA RenameKeepsType ==
  ASSUME NEW t \in Databases, NEW r \in RoomIds
  PROVE  Rename(t, r) \in Databases
BY DEF Rename, Databases

LEMMA LeaveKeepsType ==
  ASSUME NEW t \in Databases, NEW u \in Users, NEW r \in RoomIds, NEW seen,
         seen.players \subseteq Users,
         NEW after \in LeaveRoom(t, u, r, seen)
  PROVE  after \in Databases
<1>1. CASE Empties(u, seen)
  <2>1. after = DeleteRoom(t, r)
    BY <1>1 DEF LeaveRoom
  <2> QED
    BY <2>1, DeleteKeepsType
<1>2. CASE ~Empties(u, seen)
  <2>1. PICK o \in NextOwners(u, seen, t.owner[r]) : after = RemovePlayer(t, u, r, o)
    BY <1>2 DEF LeaveRoom
  <2>2. o \in Users \cup {None}
    BY <2>1 DEF NextOwners, Databases
  <2> QED
    BY <2>1, <2>2, RemoveKeepsType
<1> QED
  BY <1>1, <1>2

-----------------------------------------------------------------------------

\* A new room seats its owner and nobody else.
LEMMA InsertEffect ==
  ASSUME NEW t \in Databases, NEW u \in Users, NEW r \in RoomIds
  PROVE  /\ InsertRoom(t, u, r) \in Databases
         /\ InsertRoom(t, u, r).live = t.live \cup {r}
         /\ InsertRoom(t, u, r).member = [t.member EXCEPT ![u] = r]
<1>1. t.owner \in [RoomIds -> Users \cup {None}] /\ t.member \in [Users -> RoomIds \cup {None}]
  BY DEF Databases
<1>2. /\ InsertRoom(t, u, r).live = t.live \cup {r}
      /\ InsertRoom(t, u, r).member = [t.member EXCEPT ![u] = r]
  <2> DEFINE status == [t.status EXCEPT ![r] = "Waiting"]
             owner  == [t.owner EXCEPT ![r] = u]
             name   == [t.name EXCEPT ![r] = "given"]
             member == [t.member EXCEPT ![u] = r]
  <2>1. InsertRoom(t, u, r) = [t EXCEPT !.live = t.live \cup {r}, !.status = status,
                                        !.owner = owner, !.name = name, !.member = member]
    BY DEF InsertRoom, Databases
  <2> HIDE DEF status, owner, name, member
  <2>2. /\ InsertRoom(t, u, r).live = t.live \cup {r}
        /\ InsertRoom(t, u, r).member = member
    BY <2>1 DEF Databases
  <2> QED
    BY <2>2 DEF member
<1> QED
  BY <1>2, InsertKeepsType

\* Who joins a room leaves its seat in another one, and moves nobody.
LEMMA AddEffect ==
  ASSUME NEW t \in Databases, NEW u \in Users, NEW r \in RoomIds, NEW seen
  PROVE  /\ AddPlayer(t, u, r, seen) \in Databases
         /\ AddPlayer(t, u, r, seen).live = t.live
         /\ AddPlayer(t, u, r, seen).member = [t.member EXCEPT ![u] = r]
<1>1. /\ AddPlayer(t, u, r, seen).live = t.live
      /\ AddPlayer(t, u, r, seen).member = [t.member EXCEPT ![u] = r]
  BY DEF AddPlayer, Databases
<1> QED
  BY <1>1, AddKeepsType

\* leaveRoom with any snapshot, stale ones included: the only room it touches is
\* the one it leaves, and it seats nobody anywhere.
LEMMA LeaveEffect ==
  ASSUME NEW t \in Databases, NEW u \in Users, NEW r \in t.live, NEW seen,
         seen.players \subseteq Users, seen.owner \in Users \cup {None},
         NEW after \in LeaveRoom(t, u, r, seen)
  PROVE  /\ after \in Databases
         /\ \/ after.live = t.live /\ after.dead = t.dead
            \/ after.live = t.live \ {r} /\ after.dead = t.dead \cup {r}
         /\ Empties(u, seen) => r \in after.dead
         /\ after.status = [t.status EXCEPT ![r] = "Waiting"]
         /\ after.member[u] \in {t.member[u], None}
         /\ after.member[u] # r
         /\ \A v \in Users \ {u} :
              \/ after.member[v] = t.member[v]
              \/ after.member[v] = None /\ t.member[v] = r /\ r \notin after.live
         /\ r \notin after.live => \A v \in Users : after.member[v] # r
<1>1. /\ t.member \in [Users -> RoomIds \cup {None}] /\ t.live \subseteq RoomIds
      /\ r \in RoomIds /\ r # None
      /\ t.owner \in [RoomIds -> Users \cup {None}]
  BY NoneIsNoRoom DEF Databases
<1>2. CASE Empties(u, seen)
  <2> DEFINE new == DeleteRoom(t, r)
  <2>1. after = new
    BY <1>2 DEF LeaveRoom
  <2>2. new \in Databases
    BY <1>1, DeleteKeepsType
  <2>3. /\ new.live = t.live \ {r}
        /\ new.dead = t.dead \cup {r}
        /\ new.status = [t.status EXCEPT ![r] = "Waiting"]
        /\ new.member = [v \in Users |-> IF t.member[v] = r THEN None ELSE t.member[v]]
    BY <1>1 DEF DeleteRoom, UnseatAll, Databases
  <2> HIDE DEF new
  <2> QED
    BY <1>1, <1>2, <2>1, <2>2, <2>3
<1>3. CASE ~Empties(u, seen)
  <2>1. PICK o \in NextOwners(u, seen, t.owner[r]) : after = RemovePlayer(t, u, r, o)
    BY <1>3 DEF LeaveRoom
  <2> DEFINE new == RemovePlayer(t, u, r, o)
  <2>2. o \in Users \cup {None}
    BY <1>1, <2>1 DEF NextOwners
  <2>3. new \in Databases
    BY <1>1, <2>2, RemoveKeepsType
  <2>4. /\ new.live = t.live
        /\ new.dead = t.dead
        /\ new.status = [t.status EXCEPT ![r] = "Waiting"]
        /\ new.member = [t.member EXCEPT ![u] = IF t.member[u] = r THEN None
                                                ELSE t.member[u]]
    BY <1>1, <2>2 DEF RemovePlayer, Databases
  <2>5. after = new
    BY <2>1
  <2> HIDE DEF new
  <2> QED
    BY <1>1, <1>3, <2>5, <2>3, <2>4
<1> QED
  BY <1>2, <1>3

-----------------------------------------------------------------------------
\* What rooms are like when no read is stale: each write, made after a read of the rows as
\* they are, keeps it.

IdsUsedOnce(tables) == tables.live \cap tables.dead = {}

RoomsOK(tables) ==
  /\ SeatsOK(tables)
  /\ OwnerOK(tables)
  /\ ForeignKeyOK(tables)
  /\ IdsUsedOnce(tables)

\* Creating a room for a user who is in none keeps the invariant.
LEMMA InsertKeepsRooms ==
  ASSUME NEW t \in Databases, RoomsOK(t),
         NEW u \in Users, t.member[u] = None, NEW r \in FreshIds(t)
  PROVE  RoomsOK(InsertRoom(t, u, r))
<1> DEFINE new == InsertRoom(t, u, r)
<1>1. r \in RoomIds /\ r \notin t.live /\ r \notin t.dead /\ r # None
  BY NoneIsNoRoom DEF FreshIds
<1>2. /\ new.live = t.live \cup {r}
      /\ new.dead = t.dead
      /\ new.status = [t.status EXCEPT ![r] = "Waiting"]
      /\ new.owner = [t.owner EXCEPT ![r] = u]
      /\ new.member = [t.member EXCEPT ![u] = r]
  BY <1>1 DEF InsertRoom, Databases
<1> HIDE DEF new
<1>3. /\ t.status \in [RoomIds -> Statuses] /\ t.owner \in [RoomIds -> Users \cup {None}]
      /\ t.member \in [Users -> RoomIds \cup {None}] /\ t.live \subseteq RoomIds
  BY DEF Databases
<1>4. PlayersOf(new, r) = {u}
  BY <1>1, <1>2, <1>3 DEF PlayersOf, RoomsOK, ForeignKeyOK
<1>5. \A s \in t.live : PlayersOf(new, s) = PlayersOf(t, s)
  BY <1>1, <1>2, <1>3, NoneIsNoRoom DEF PlayersOf
<1>6. SeatsOK(new)
  <2> SUFFICES ASSUME NEW s \in new.live
      PROVE /\ Cardinality(PlayersOf(new, s)) <= MAX_PLAYERS
            /\ new.status[s] = "Playing" <=> Cardinality(PlayersOf(new, s)) = MAX_PLAYERS
    BY DEF SeatsOK
  <2>1. CASE s = r
    <3>1. Cardinality(PlayersOf(new, s)) = 1
      BY <2>1, <1>4, FS_Singleton
    <3> QED
      BY <3>1, <2>1, <1>1, <1>2, <1>3, RoomForTwo
  <2>2. CASE s # r
    BY <2>2, <1>2, <1>3, <1>5 DEF RoomsOK, SeatsOK
  <2> QED
    BY <2>1, <2>2
<1>7. OwnerOK(new)
  <2> SUFFICES ASSUME NEW s \in new.live PROVE new.owner[s] \in PlayersOf(new, s)
    BY DEF OwnerOK
  <2>1. CASE s = r
    BY <2>1, <1>1, <1>2, <1>3, <1>4
  <2>2. CASE s # r
    BY <2>2, <1>2, <1>3, <1>5 DEF RoomsOK, OwnerOK
  <2> QED
    BY <2>1, <2>2
<1>8. ForeignKeyOK(new)
  BY <1>1, <1>2, <1>3 DEF RoomsOK, ForeignKeyOK
<1>9. IdsUsedOnce(new)
  BY <1>1, <1>2 DEF RoomsOK, IdsUsedOnce
<1> QED
  BY <1>6, <1>7, <1>8, <1>9 DEF RoomsOK, new

\* Deleting a room leaves every other room as it was.
LEMMA DeleteKeepsRooms ==
  ASSUME NEW t \in Databases, RoomsOK(t), NEW r \in t.live
  PROVE  LET new == DeleteRoom(t, r)
         IN  /\ RoomsOK(new)
             /\ \A s \in RoomIds \ {r} : PlayersOf(new, s) = PlayersOf(t, s)
<1> DEFINE new == DeleteRoom(t, r)
<1>1. /\ t.status \in [RoomIds -> Statuses] /\ t.owner \in [RoomIds -> Users \cup {None}]
      /\ t.member \in [Users -> RoomIds \cup {None}] /\ t.live \subseteq RoomIds
      /\ r \in RoomIds
  BY DEF Databases
<1>2. /\ new.live = t.live \ {r}
      /\ new.dead = t.dead \cup {r}
      /\ new.status = [t.status EXCEPT ![r] = "Waiting"]
      /\ new.owner = [t.owner EXCEPT ![r] = None]
      /\ new.member = [v \in Users |-> IF t.member[v] = r THEN None ELSE t.member[v]]
  BY <1>1 DEF DeleteRoom, UnseatAll, Databases
<1> HIDE DEF new
<1>3. \A s \in RoomIds \ {r} : PlayersOf(new, s) = PlayersOf(t, s)
  BY <1>1, <1>2, NoneIsNoRoom DEF PlayersOf
<1>4. SeatsOK(new)
  BY <1>1, <1>2, <1>3 DEF RoomsOK, SeatsOK
<1>5. OwnerOK(new)
  BY <1>1, <1>2, <1>3 DEF RoomsOK, OwnerOK
<1>6. ForeignKeyOK(new)
  BY <1>1, <1>2 DEF RoomsOK, ForeignKeyOK
<1>7. IdsUsedOnce(new)
  BY <1>1, <1>2 DEF RoomsOK, IdsUsedOnce
<1> QED
  BY <1>3, <1>4, <1>5, <1>6, <1>7 DEF RoomsOK, new

\* A player leaves a room that others stay in: seats, owner and status follow.
LEMMA RemoveKeepsRooms ==
  ASSUME NEW t \in Databases, RoomsOK(t), NEW r \in t.live,
         NEW u \in PlayersOf(t, r), ~Empties(u, RoomSnapshot(t, r)),
         NEW o \in NextOwners(u, RoomSnapshot(t, r), t.owner[r])
  PROVE  LET new == RemovePlayer(t, u, r, o)
         IN  /\ RoomsOK(new)
             /\ \A s \in RoomIds \ {r} : PlayersOf(new, s) = PlayersOf(t, s)
             /\ PlayersOf(new, r) = PlayersOf(t, r) \ {u}
             /\ new.live = t.live
             /\ new.status = [t.status EXCEPT ![r] = "Waiting"]
             /\ new.member[u] = None
<1> DEFINE new == RemovePlayer(t, u, r, o)
<1>1. /\ t.status \in [RoomIds -> Statuses] /\ t.owner \in [RoomIds -> Users \cup {None}]
      /\ t.member \in [Users -> RoomIds \cup {None}] /\ t.live \subseteq RoomIds
      /\ r \in RoomIds /\ u \in Users /\ t.member[u] = r
  BY DEF Databases, PlayersOf
<1>2. o \in PlayersOf(t, r) \ {u}
  BY DEF NextOwners, RoomSnapshot, RoomsOK, OwnerOK
<1>3. o \in Users
  BY <1>2 DEF PlayersOf
<1>4. /\ new.live = t.live
      /\ new.dead = t.dead
      /\ new.status = [t.status EXCEPT ![r] = "Waiting"]
      /\ new.owner = [t.owner EXCEPT ![r] = o]
      /\ new.member = [t.member EXCEPT ![u] = None]
  BY <1>1, <1>3 DEF RemovePlayer, Databases
<1> HIDE DEF new
<1>5. \A s \in RoomIds \ {r} : PlayersOf(new, s) = PlayersOf(t, s)
  BY <1>1, <1>4, NoneIsNoRoom DEF PlayersOf
<1>6. PlayersOf(new, r) = PlayersOf(t, r) \ {u}
  BY <1>1, <1>4, NoneIsNoRoom DEF PlayersOf
<1>7. SeatsOK(new)
  <2>1. Cardinality(PlayersOf(new, r)) = Cardinality(PlayersOf(t, r)) - 1
    BY <1>6, PlayersFinite, FS_RemoveElement
  <2>2. Cardinality(PlayersOf(new, r)) < MAX_PLAYERS
    BY <2>1, PlayersFinite, RoomForTwo DEF RoomsOK, SeatsOK
  <2>3. Cardinality(PlayersOf(new, r)) \in Nat
    BY <2>1, <1>6, PlayersFinite, FS_RemoveElement, FS_CardinalityType
  <2>4. ASSUME NEW s \in new.live
        PROVE /\ Cardinality(PlayersOf(new, s)) <= MAX_PLAYERS
              /\ new.status[s] = "Playing" <=> Cardinality(PlayersOf(new, s)) = MAX_PLAYERS
    <3>1. CASE s = r
      BY <3>1, <2>2, <2>3, <1>1, <1>4, RoomForTwo
    <3>2. CASE s # r
      BY <3>2, <1>1, <1>4, <1>5 DEF RoomsOK, SeatsOK
    <3> QED
      BY <3>1, <3>2
  <2> QED
    BY <2>4 DEF SeatsOK
<1>8. OwnerOK(new)
  BY <1>1, <1>2, <1>4, <1>5, <1>6 DEF RoomsOK, OwnerOK
<1>9. ForeignKeyOK(new) /\ IdsUsedOnce(new)
  BY <1>1, <1>4 DEF RoomsOK, ForeignKeyOK, IdsUsedOnce
<1> QED
  BY <1>1, <1>4, <1>5, <1>6, <1>7, <1>8, <1>9 DEF RoomsOK, new

\* leaveRoom, read and write in one step.
LEMMA LeaveKeepsRooms ==
  ASSUME NEW t \in Databases, RoomsOK(t), NEW r \in t.live, NEW u \in PlayersOf(t, r),
         NEW new \in LeaveRoom(t, u, r, RoomSnapshot(t, r))
  PROVE  /\ RoomsOK(new)
         /\ \A s \in RoomIds \ {r} :
              /\ s \in t.live => s \in new.live
              /\ PlayersOf(new, s) = PlayersOf(t, s)
              /\ new.status[s] = t.status[s]
         /\ new.member[u] = None
<1>1. t.live \subseteq RoomIds /\ r \in RoomIds /\ u \in Users /\ t.member[u] = r
  BY DEF Databases, PlayersOf
<1>2. /\ t.status \in [RoomIds -> Statuses] /\ t.owner \in [RoomIds -> Users \cup {None}]
      /\ t.member \in [Users -> RoomIds \cup {None}]
  BY DEF Databases
<1>3. CASE Empties(u, RoomSnapshot(t, r))
  <2>1. new = DeleteRoom(t, r)
    BY <1>3 DEF LeaveRoom
  <2>2. /\ RoomsOK(new)
        /\ \A s \in RoomIds \ {r} : PlayersOf(new, s) = PlayersOf(t, s)
    BY <2>1, DeleteKeepsRooms
  <2>3. /\ new.live = t.live \ {r}
        /\ new.status = [t.status EXCEPT ![r] = "Waiting"]
        /\ new.member = [v \in Users |-> IF t.member[v] = r THEN None ELSE t.member[v]]
    BY <2>1, <1>1 DEF DeleteRoom, UnseatAll, Databases
  <2> QED
    BY <2>2, <2>3, <1>1, <1>2
<1>4. CASE ~Empties(u, RoomSnapshot(t, r))
  <2>1. PICK o \in NextOwners(u, RoomSnapshot(t, r), t.owner[r]) :
             new = RemovePlayer(t, u, r, o)
    BY <1>4 DEF LeaveRoom
  <2>2. /\ RoomsOK(new)
        /\ \A s \in RoomIds \ {r} : PlayersOf(new, s) = PlayersOf(t, s)
        /\ new.live = t.live
        /\ new.status = [t.status EXCEPT ![r] = "Waiting"]
        /\ new.member[u] = None
    BY <2>1, <1>4, RemoveKeepsRooms
  <2> QED
    BY <2>2, <1>1, <1>2
<1> QED
  BY <1>3, <1>4

\* A user in no room joins one that shows Waiting.
LEMMA AddKeepsRooms ==
  ASSUME NEW t \in Databases, RoomsOK(t), NEW u \in Users, t.member[u] = None,
         NEW r \in t.live, t.status[r] # "Playing"
  PROVE  RoomsOK(AddPlayer(t, u, r, PlayersOf(t, r)))
<1> DEFINE new == AddPlayer(t, u, r, PlayersOf(t, r))
<1>1. /\ t.status \in [RoomIds -> Statuses] /\ t.owner \in [RoomIds -> Users \cup {None}]
      /\ t.member \in [Users -> RoomIds \cup {None}] /\ t.live \subseteq RoomIds
      /\ r \in RoomIds
  BY DEF Databases
<1>2. /\ new.live = t.live
      /\ new.dead = t.dead
      /\ new.status = [t.status EXCEPT ![r] = StatusAfterJoin(t.status[r], PlayersOf(t, r))]
      /\ new.owner = t.owner
      /\ new.member = [t.member EXCEPT ![u] = r]
  BY <1>1 DEF AddPlayer, Databases
<1> HIDE DEF new
<1>3. \A s \in RoomIds \ {r} : PlayersOf(new, s) = PlayersOf(t, s)
  BY <1>1, <1>2, NoneIsNoRoom DEF PlayersOf
<1>4. PlayersOf(new, r) = PlayersOf(t, r) \cup {u} /\ u \notin PlayersOf(t, r)
  BY <1>1, <1>2, NoneIsNoRoom DEF PlayersOf
<1>5. SeatsOK(new)
  <2> DEFINE before == Cardinality(PlayersOf(t, r))
             after == Cardinality(PlayersOf(new, r))
  <2>1. before \in Nat /\ after = before + 1
    BY <1>4, PlayersFinite, FS_AddElement
  <2>2. before < MAX_PLAYERS
    BY <2>1, RoomForTwo DEF RoomsOK, SeatsOK
  <2>3. new.status[r] = "Playing" <=> before + 1 >= MAX_PLAYERS
    BY <1>1, <1>2 DEF StatusAfterJoin
  <2>4. after <= MAX_PLAYERS /\ (new.status[r] = "Playing" <=> after = MAX_PLAYERS)
    BY <2>1, <2>2, <2>3, RoomForTwo
  <2> HIDE DEF before, after
  <2>5. \A s \in t.live \ {r} : new.status[s] = t.status[s]
    BY <1>1, <1>2
  <2> QED
    BY <2>4, <2>5, <1>1, <1>2, <1>3 DEF RoomsOK, SeatsOK, after
<1>6. OwnerOK(new)
  BY <1>1, <1>2, <1>3, <1>4 DEF RoomsOK, OwnerOK
<1>7. ForeignKeyOK(new) /\ IdsUsedOnce(new)
  BY <1>1, <1>2 DEF RoomsOK, ForeignKeyOK, IdsUsedOnce
<1> QED
  BY <1>5, <1>6, <1>7 DEF RoomsOK, new

LEMMA RenameKeepsRooms ==
  ASSUME NEW t \in Databases, RoomsOK(t), NEW r \in RoomIds
  PROVE  RoomsOK(Rename(t, r))
BY DEF Rename, Databases, RoomsOK, SeatsOK, OwnerOK, ForeignKeyOK, IdsUsedOnce, PlayersOf

\* Whoever owns a room after a leave that did not own it before plays in it, and
\* the leaver, whose room it was, is out.
LEMMA LeaveInherits ==
  ASSUME NEW t \in Databases, NEW r \in t.live, NEW u \in PlayersOf(t, r),
         NEW new \in LeaveRoom(t, u, r, RoomSnapshot(t, r)),
         NEW s \in t.live \cap new.live, new.owner[s] # t.owner[s]
  PROVE  s = r /\ t.owner[s] = u /\ t.member[new.owner[s]] = s
<1>1. u \in Users /\ r \in RoomIds /\ s \in RoomIds /\ t.owner \in [RoomIds -> Users \cup {None}]
  BY DEF Databases, PlayersOf
<1>2. CASE Empties(u, RoomSnapshot(t, r))
  <2>1. new.live = t.live \ {r} /\ new.owner = [t.owner EXCEPT ![r] = None]
    BY <1>2 DEF LeaveRoom, DeleteRoom, Databases
  <2> QED
    BY <1>1, <2>1
<1>3. CASE ~Empties(u, RoomSnapshot(t, r))
  <2>1. PICK o \in NextOwners(u, RoomSnapshot(t, r), t.owner[r]) : new = RemovePlayer(t, u, r, o)
    BY <1>3 DEF LeaveRoom
  <2>2. new.owner = [t.owner EXCEPT ![r] = o]
    BY <1>1, <2>1 DEF RemovePlayer, Databases
  <2>3. s = r /\ o # t.owner[r] /\ new.owner[s] = o
    BY <1>1, <2>2
  <2>4. t.owner[r] = u /\ o \in PlayersOf(t, r)
    BY <2>1, <2>3 DEF NextOwners, RoomSnapshot
  <2> QED
    BY <2>3, <2>4 DEF PlayersOf
<1> QED
  BY <1>2, <1>3

-----------------------------------------------------------------------------
\* The steps of Rooms

\* Seats and ownership lean on each other: leaveRoom hands the room to a player
\* of its snapshot, and the room it keeps has such a player because the owner,
\* who is seated, is not the only one.
AtomicInv == db \in Databases /\ RoomsOK(db)

LEMMA AtomicInitOK == AtomicInit => AtomicInv
<1> SUFFICES ASSUME AtomicInit PROVE AtomicInv
  OBVIOUS
<1>1. EmptyDatabase \in Databases
  BY DEF EmptyDatabase, Databases, Statuses
<1>2. RoomsOK(EmptyDatabase)
  BY DEF EmptyDatabase, RoomsOK, SeatsOK, OwnerOK, ForeignKeyOK, IdsUsedOnce
<1> QED
  BY <1>1, <1>2 DEF AtomicInit, AtomicInv

\* What a user leaves behind, whether or not there was a room to leave.
LEMMA LeftBehind ==
  ASSUME AtomicInv, NEW u \in Users, NEW left \in Departures(u)
  PROVE  /\ left \in Databases
         /\ RoomsOK(left)
         /\ left.member[u] = None
         /\ \A s \in db.live : db.member[u] # s =>
              /\ s \in left.live
              /\ PlayersOf(left, s) = PlayersOf(db, s)
              /\ left.status[s] = db.status[s]
<1> DEFINE old == db.member[u]
<1>1. db \in Databases /\ RoomsOK(db) /\ old \in db.live \cup {None} /\ db.live \subseteq RoomIds
  BY DEF AtomicInv, RoomsOK, ForeignKeyOK, Databases
<1>2. CASE old = None
  BY <1>1, <1>2 DEF Departures
<1>3. CASE old # None
  <2>1. left \in LeaveRoom(db, u, old, RoomSnapshot(db, old))
    BY <1>3 DEF Departures
  <2>2. old \in db.live /\ u \in PlayersOf(db, old) /\ old \in RoomIds
    BY <1>1, <1>3 DEF PlayersOf
  <2>3. left \in Databases
    <3>1. RoomSnapshot(db, old).players \subseteq Users
      BY DEF RoomSnapshot, PlayersOf
    <3> QED
      BY <3>1, <2>1, <2>2, <1>1, LeaveKeepsType
  <2>4. /\ RoomsOK(left)
        /\ \A s \in RoomIds \ {old} :
             /\ s \in db.live => s \in left.live
             /\ PlayersOf(left, s) = PlayersOf(db, s)
             /\ left.status[s] = db.status[s]
        /\ left.member[u] = None
    BY <2>1, <2>2, <1>1, LeaveKeepsRooms
  <2> QED
    BY <2>3, <2>4, <1>1
<1> QED
  BY <1>2, <1>3

LEMMA AtomicJoin ==
  ASSUME NEW u \in Users, NEW r, Join(u, r)
  PROVE  /\ r \in db.live /\ db.member[u] # r /\ db.status[r] # "Playing"
         /\ \E left \in Departures(u) :
              db' = AddPlayer(left, u, r, PlayersOf(db, r))
<1>1. r \in db.live /\ u \notin PlayersOf(db, r) /\ db.status[r] # "Playing"
  BY DEF Join, JoinAllowed
<1>2. \E left \in Departures(u) : db' = AddPlayer(left, u, r, PlayersOf(db, r))
  BY DEF Join
<1> QED
  BY <1>1, <1>2 DEF PlayersOf

\* One step per operation; Join is what Leave does, then AddPlayer.
LEMMA AtomicNextOK == AtomicInv /\ [AtomicNext]_db => AtomicInv'
<1> SUFFICES ASSUME AtomicInv, [AtomicNext]_db PROVE AtomicInv'
  OBVIOUS
<1>1. db \in Databases /\ RoomsOK(db)
  BY DEF AtomicInv
<1>2. SUFFICES db' \in Databases /\ RoomsOK(db')
  BY DEF AtomicInv, RoomsOK, SeatsOK, OwnerOK, ForeignKeyOK, IdsUsedOnce, PlayersOf
<1>3. CASE UNCHANGED db
  BY <1>1, <1>3
<1>4. ASSUME NEW u \in Users, NEW r \in RoomIds, Create(u, r)
      PROVE  db' \in Databases /\ RoomsOK(db')
  <2>1. db.member[u] = None /\ r \in FreshIds(db) /\ db' = InsertRoom(db, u, r)
    BY <1>4 DEF Create
  <2> QED
    BY <1>1, <2>1, InsertKeepsType, InsertKeepsRooms
<1>5. ASSUME NEW u \in Users, NEW r \in RoomIds, Join(u, r)
      PROVE  db' \in Databases /\ RoomsOK(db')
  <2>1. r \in db.live /\ db.member[u] # r /\ db.status[r] # "Playing"
    BY <1>5, AtomicJoin
  <2>2. PICK left \in Departures(u) : db' = AddPlayer(left, u, r, PlayersOf(db, r))
    BY <1>5, AtomicJoin
  <2>3. /\ left \in Databases /\ RoomsOK(left) /\ left.member[u] = None
        /\ r \in left.live /\ PlayersOf(left, r) = PlayersOf(db, r)
        /\ left.status[r] = db.status[r]
    BY <2>1, LeftBehind
  <2>4. db' = AddPlayer(left, u, r, PlayersOf(left, r))
    BY <2>2, <2>3
  <2> QED
    BY <2>1, <2>3, <2>4, AddKeepsType, AddKeepsRooms
<1>6. ASSUME NEW u \in Users, Leave(u)
      PROVE  db' \in Databases /\ RoomsOK(db')
  BY <1>6, LeftBehind DEF Leave
<1>7. ASSUME NEW u \in Users, NEW r \in RoomIds, Update(u, r)
      PROVE  db' \in Databases /\ RoomsOK(db')
  <2>1. db' = Rename(db, r)
    BY <1>7 DEF Update
  <2> QED
    BY <1>1, <2>1, RenameKeepsType, RenameKeepsRooms
<1>8. CASE NoIdsLeft
  BY <1>1, <1>8 DEF NoIdsLeft
<1> QED
  BY <1>3, <1>4, <1>5, <1>6, <1>7, <1>8 DEF AtomicNext

LEMMA AtomicInvariance == AtomicSpec => []AtomicInv
BY AtomicInitOK, AtomicNextOK, PTL DEF AtomicSpec

Inherited ==
  \A r \in db.live \cap db'.live :
    db'.owner[r] # db.owner[r] =>
      /\ db'.member[db.owner[r]] # r
      /\ db.member[db'.owner[r]] = r

LEMMA LeavingInherits ==
  ASSUME AtomicInv, NEW u \in Users, NEW left \in Departures(u),
         NEW s \in db.live \cap left.live, left.owner[s] # db.owner[s]
  PROVE  db.owner[s] = u /\ db.member[u] = s /\ db.member[left.owner[s]] = s
<1> DEFINE old == db.member[u]
<1>1. db \in Databases /\ old \in db.live \cup {None}
  BY DEF AtomicInv, RoomsOK, ForeignKeyOK
<1>2. old # None /\ left \in LeaveRoom(db, u, old, RoomSnapshot(db, old))
  BY DEF Departures
<1>3. old \in db.live /\ u \in PlayersOf(db, old)
  BY <1>1, <1>2 DEF PlayersOf
<1>4. s = old /\ db.owner[s] = u /\ db.member[left.owner[s]] = s
  BY <1>1, <1>2, <1>3, LeaveInherits
<1> QED
  BY <1>4

LEMMA NextInherits ==
  ASSUME AtomicInv, AtomicNext
  PROVE  Inherited
<1>1. /\ db \in Databases /\ db.live \subseteq RoomIds
      /\ db.owner \in [RoomIds -> Users \cup {None}] /\ db.member \in [Users -> RoomIds \cup {None}]
  BY DEF AtomicInv, Databases
<1>2. ASSUME NEW u \in Users, NEW r \in RoomIds, Create(u, r) PROVE Inherited
  <2>1. r \in FreshIds(db) /\ db' = InsertRoom(db, u, r)
    BY <1>2 DEF Create
  <2>2. r \notin db.live /\ db'.owner = [db.owner EXCEPT ![r] = u]
    BY <1>1, <2>1 DEF FreshIds, InsertRoom, Databases
  <2> QED
    BY <1>1, <2>2 DEF Inherited
<1>3. ASSUME NEW u \in Users, NEW r \in RoomIds, Join(u, r) PROVE Inherited
  <2>1. PICK left \in Departures(u) : db' = AddPlayer(left, u, r, PlayersOf(db, r))
    BY <1>3, AtomicJoin
  <2>2. db.member[u] # r /\ left \in Databases
    BY <1>3, <2>1, AtomicJoin, LeftBehind
  <2>3. db'.live = left.live /\ db'.owner = left.owner /\ db'.member[u] = r
    BY <2>1, <2>2 DEF AddPlayer, Databases
  <2>4. ASSUME NEW s \in db.live \cap db'.live, db'.owner[s] # db.owner[s]
        PROVE  db'.member[db.owner[s]] # s /\ db.member[db'.owner[s]] = s
    <3>1. db.owner[s] = u /\ db.member[u] = s /\ db.member[left.owner[s]] = s
      BY <2>1, <2>3, <2>4, LeavingInherits
    <3> QED
      BY <2>2, <2>3, <3>1
  <2> QED
    BY <2>4 DEF Inherited
<1>4. ASSUME NEW u \in Users, Leave(u) PROVE Inherited
  <2>1. db' \in Departures(u) /\ db.member[u] # None
    BY <1>4 DEF Leave
  <2>2. db'.member[u] = None
    BY <2>1, LeftBehind
  <2>3. ASSUME NEW s \in db.live \cap db'.live, db'.owner[s] # db.owner[s]
        PROVE  db'.member[db.owner[s]] # s /\ db.member[db'.owner[s]] = s
    <3>1. db.owner[s] = u /\ db.member[u] = s /\ db.member[db'.owner[s]] = s
      BY <2>1, <2>3, LeavingInherits
    <3> QED
      BY <2>1, <2>2, <3>1
  <2> QED
    BY <2>3 DEF Inherited
<1>5. ASSUME NEW u \in Users, NEW r \in RoomIds, Update(u, r) PROVE Inherited
  <2>1. db' = Rename(db, r)
    BY <1>5 DEF Update
  <2> QED
    BY <1>1, <2>1 DEF Rename, Databases, Inherited
<1>6. CASE NoIdsLeft
  BY <1>6 DEF NoIdsLeft, Inherited
<1> QED
  BY <1>2, <1>3, <1>4, <1>5, <1>6 DEF AtomicNext

\* With calls that take one step each, the rows keep their types.
THEOREM AtomicTypesKept == AtomicSpec => []AtomicTypeOK
<1>1. AtomicInv => AtomicTypeOK
  BY DEF AtomicInv, AtomicTypeOK
<1> QED
  BY <1>1, AtomicInvariance, PTL

\* With calls that take one step each, for any users and rooms: as many players
\* as seats at most, and Playing exactly when full (rooms.service.ts:71, 88, 193).
THEOREM SeatsAlwaysCorrect == AtomicSpec => []SeatsCorrect
<1>1. AtomicInv => SeatsCorrect
  BY DEF AtomicInv, RoomsOK, SeatsCorrect
<1> QED
  BY <1>1, AtomicInvariance, PTL

\* Then the owner of a room always plays in it, so no room is ever empty
\* (rooms.service.ts:184, 194).
THEOREM OwnerAlwaysPlays == AtomicSpec => []OwnerPlays
<1>1. AtomicInv => OwnerPlays
  BY DEF AtomicInv, RoomsOK, OwnerPlays
<1> QED
  BY <1>1, AtomicInvariance, PTL

\* And as long as a room exists it passes to another owner only when its owner has
\* left it, and then to a player who was there already (rooms.service.ts:194).
THEOREM OwnershipOnlyInherited == AtomicSpec => OwnershipInherited
<1>1. AtomicInv /\ [AtomicNext]_db => [Inherited]_db
  BY NextInherits
<1> QED
  BY <1>1, AtomicInvariance, PTL DEF AtomicSpec, OwnershipInherited, Inherited
=============================================================================
