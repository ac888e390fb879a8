----------------------------- MODULE RoomTables -----------------------------
(***************************************************************************)
(* The Room and User rows of prisma/schema.prisma as RoomsService writes   *)
(* them, and the writes it makes, each as a function from the committed    *)
(* rows to the rows after it.  `db' is a record of columns:                *)
(*   live    ids of the rows of table Room                                 *)
(*   dead    ids of deleted rows (uuids: no id is issued twice)            *)
(*   status, owner     columns of Room                                     *)
(*   name    column Room.name, abstracted to whether it is still the name  *)
(*           the room was created with                                     *)
(*   member  column User.roomId                                            *)
(* A room that has no row keeps the default columns.                       *)
(***************************************************************************)
EXTENDS Naturals, FiniteSets

CONSTANTS Users,        \* ids of table User; users.service.ts never removes one
                        \* on behalf of a room handler
          RoomIds,      \* the uuids `create' may draw
          None,         \* SQL NULL
          MAX_PLAYERS   \* rooms.service.ts:22

ASSUME UsersFinite    == IsFiniteSet(Users)
ASSUME NoneIsNoUser   == None \notin Users
ASSUME NoneIsNoRoom   == None \notin RoomIds
ASSUME RoomForTwo     == MAX_PLAYERS \in Nat /\ MAX_PLAYERS >= 2

Statuses == {"Waiting", "Playing"}

Databases ==
  [live   : SUBSET RoomIds,
   dead   : SUBSET RoomIds,
   status : [RoomIds -> Statuses],
   owner  : [RoomIds -> Users \cup {None}],
   name   : [RoomIds -> {"given", "changed"}],
   member : [Users -> RoomIds \cup {None}]]

EmptyDatabase ==
  [live   |-> {},
   dead   |-> {},
   status |-> [r \in RoomIds |-> "Waiting"],
   owner  |-> [r \in RoomIds |-> None],
   name   |-> [r \in RoomIds |-> "given"],
   member |-> [u \in Users |-> None]]

FreshIds(db) == RoomIds \ (db.live \cup db.dead)

PlayersOf(db, r) == {u \in Users : db.member[u] = r}

-----------------------------------------------------------------------------

\* roomRepository.create: a row owned by u, and u.roomId overwritten.
InsertRoom(db, u, r) ==
  [db EXCEPT !.live = @ \cup {r},
             !.status[r] = "Waiting",
             !.owner[r] = u,
             !.name[r] = "given",
             !.member[u] = r]

\* A room with no row; the foreign key of the schema (ON DELETE SET NULL,
\* migration 20260501145801_add_rooms) clears roomId of whoever points at it.
\* A mistake: the constraint does nothing on delete.
UnseatNobody(member, r) == member

UnseatAll(member, r) == [u \in Users |-> IF member[u] = r THEN None ELSE member[u]]

DeleteRoom(db, r) ==
  [db EXCEPT !.live = @ \ {r},
             !.dead = @ \cup {r},
             !.status[r] = "Waiting",
             !.owner[r] = None,
             !.name[r] = "given",
             !.member = UnseatAll(@, r)]

\* `disconnect' only touches the player while its roomId is still this room.
RemovePlayer(db, u, r, newOwner) ==
  [db EXCEPT !.status[r] = "Waiting",
             !.owner[r] = newOwner,
             !.member[u] = IF @ = r THEN None ELSE @]

\* `connect' overwrites roomId; `seen' are the players join read earlier.
\* A mistake: the joining player is not counted.
StatusIgnoringJoiner(status, seen) ==
  IF Cardinality(seen) >= MAX_PLAYERS THEN "Playing" ELSE status

StatusAfterJoin(status, seen) ==
  IF Cardinality(seen) + 1 >= MAX_PLAYERS THEN "Playing" ELSE status

\* A mistake: whoever joins owns the room.
AddOwner(db, u, r, seen) ==
  [db EXCEPT !.status[r] = StatusAfterJoin(@, seen),
             !.owner[r] = u,
             !.member[u] = r]

AddPlayer(db, u, r, seen) ==
  [db EXCEPT !.status[r] = StatusAfterJoin(@, seen),
             !.member[u] = r]

Rename(db, r) == [db EXCEPT !.name[r] = "changed"]

-----------------------------------------------------------------------------

\* What leaveRoom reads before it writes.
RoomSnapshot(db, r) == [players |-> PlayersOf(db, r), owner |-> db.owner[r]]

\* remaining[0] of an unordered findUnique include: any remaining player.
\* A mistake: the owner who leaves stays owner.
SameOwner(u, snapshot, current) == {current}

NextOwners(u, snapshot, current) ==
  IF snapshot.owner = u THEN snapshot.players \ {u} ELSE {current}

Empties(u, snapshot) == snapshot.players \ {u} = {}

\* The databases leaveRoom may leave, from what it read in its transaction.
LeaveRoom(db, u, r, snapshot) ==
  IF Empties(u, snapshot)
    THEN {DeleteRoom(db, r)}
    ELSE {RemovePlayer(db, u, r, o) : o \in NextOwners(u, snapshot, db.owner[r])}

-----------------------------------------------------------------------------
\* What the operations promise of the rows.

\* No room has more players than seats, and a room is Playing exactly when it
\* is full (rooms.service.ts:71, 88).
SeatsOK(db) ==
  \A r \in db.live :
    /\ Cardinality(PlayersOf(db, r)) <= MAX_PLAYERS
    /\ db.status[r] = "Playing" <=> Cardinality(PlayersOf(db, r)) = MAX_PLAYERS

\* The owner of a room is one of its players, so no room is empty: the last
\* player to leave deletes it (rooms.service.ts:184), and an owner who leaves
\* hands the room to a player who stays (rooms.service.ts:194).
OwnerOK(db) == \A r \in db.live : db.owner[r] \in PlayersOf(db, r)

\* Users sit in rooms that exist.
ForeignKeyOK(db) == \A u \in Users : db.member[u] \in db.live \cup {None}
=============================================================================
