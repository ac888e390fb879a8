------------------------------- MODULE Rooms --------------------------------
(***************************************************************************)
(* What RoomsService (src/modules/rooms/rooms.service.ts) promises when    *)
(* every call takes effect in one step.  RoomsService.tla is the detailed  *)
(* specification with the awaits between the steps of a call, and          *)
(* RoomsGateway.tla puts sockets and timers in front of it; both work on   *)
(* the same rows.                                                          *)
(***************************************************************************)
EXTENDS RoomTables

VARIABLE db

AtomicTypeOK == db \in Databases

AtomicInit == db = EmptyDatabase

Create(u, r) ==
  /\ db.member[u] = None
  /\ r \in FreshIds(db)
  /\ db' = InsertRoom(db, u, r)

\* The databases in which u has left whatever room it was in.
Departures(u) ==
  LET old == db.member[u]
  IN  IF old = None THEN {db} ELSE LeaveRoom(db, u, old, RoomSnapshot(db, old))

JoinAllowed(u, r) ==
  /\ r \in db.live
  /\ u \notin PlayersOf(db, r)
  /\ db.status[r] # "Playing"

Join(u, r) ==
  /\ JoinAllowed(u, r)
  /\ \E left \in Departures(u) : db' = AddPlayer(left, u, r, PlayersOf(db, r))

Leave(u) ==
  /\ db.member[u] # None
  /\ db' \in Departures(u)

Update(u, r) ==
  /\ r \in db.live
  /\ db.owner[r] = u
  /\ db' = Rename(db, r)

\* Bound: a run ends when every id of RoomIds has been used.
NoIdsLeft == FreshIds(db) = {} /\ db.live = {} /\ UNCHANGED db

AtomicNext ==
  \/ \E u \in Users :
       \/ Leave(u)
       \/ \E r \in RoomIds : Create(u, r) \/ Join(u, r) \/ Update(u, r)
  \/ NoIdsLeft

AtomicSpec == AtomicInit /\ [][AtomicNext]_db

-----------------------------------------------------------------------------

\* Every room has a seat for each of its players, and shows Playing exactly
\* when all seats are taken (join and leaveRoom maintain status).
SeatsCorrect == SeatsOK(db)

\* The owner of every room plays in it; in particular no room is empty
\* (leaveRoom deletes a room with its last player and passes the ownership on).
OwnerPlays == OwnerOK(db)

\* A user is only ever in a room that exists (leaveRoom's delete unseats).
MembersSeated == ForeignKeyOK(db)

\* While a room exists its ownership changes hands only when the owner has
\* left it, and then to a player who was already there: joining never takes a
\* room over (rooms.service.ts:194).
OwnershipInherited ==
  [][\A r \in db.live \cap db'.live :
       db'.owner[r] # db.owner[r] =>
         /\ db'.member[db.owner[r]] # r
         /\ db.member[db'.owner[r]] = r]_db
=============================================================================
