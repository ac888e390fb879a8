---------------------------- MODULE RoomsService ----------------------------
(***************************************************************************)
(* RoomsService (src/modules/rooms/rooms.service.ts) with its awaits.      *)
(*                                                                         *)
(* A call is a record that advances one database round trip at a time; the *)
(* steps of different calls interleave in any order, since node runs other *)
(* handlers while one of them awaits Postgres.  What a call read earlier   *)
(* (`players', `left') is kept in the record and may be stale when used.   *)
(*                                                                         *)
(* The writes of a transaction take effect in its commit step: under READ  *)
(* COMMITTED nobody sees them before, and the row locks they take make a   *)
(* second writer of the same rows wait for that commit.  The READS of the  *)
(* transaction take no lock, so they stay steps of their own.              *)
(***************************************************************************)
EXTENDS Rooms

CONSTANTS Calls,     \* slots for the calls in flight
          Overlap,   \* which calls may be in flight together, see MayStart
          MayCrash   \* whether the process dies in the behaviours considered

ASSUME OverlapKnown == Overlap \in {"any", "one join per room", "disjoint"}
ASSUME MayCrashKnown == MayCrash \in BOOLEAN

\* `db' of Rooms holds the committed rows.
VARIABLES call,       \* [Calls -> CallRecords]
          announced   \* rooms AppEvents.ROOM_DELETED has been emitted for

vars == <<db, call, announced>>

Steps == {"idle", "create.insert", "join.findUser", "join.readOld",
          "join.commit", "leave.readRoom", "leave.commit", "leave.emit",
          "update.commit"}

CommitSteps == {"create.insert", "join.commit", "leave.commit", "update.commit"}

NoSnapshot == [players |-> {}, owner |-> None]

Snapshots == [players : SUBSET Users, owner : Users \cup {None}]

CallRecords ==
  [at      : Steps,
   user    : Users \cup {None},
   room    : RoomIds \cup {None},   \* parameter roomId of join and update
   players : SUBSET Users,          \* room.players as join read them
   old     : RoomIds \cup {None},   \* user.roomId as join or leave read it
   left    : Snapshots]             \* the room leaveRoom read

Idle == [at |-> "idle", user |-> None, room |-> None, players |-> {},
         old |-> None, left |-> NoSnapshot]

TypeOK ==
  /\ db \in Databases
  /\ call \in [Calls -> CallRecords]
  /\ announced \in SUBSET RoomIds

Init ==
  /\ db = EmptyDatabase
  /\ call = [c \in Calls |-> Idle]
  /\ announced = {}

-----------------------------------------------------------------------------

InFlight == {c \in Calls : call[c].at # "idle"}

Joining(c) == call[c].at \in {"join.findUser", "join.readOld", "join.commit"}

\* The rooms a call in flight reads or writes.
Concerns(c) == {call[c].room, call[c].old, db.member[call[c].user]} \ {None}

\* The environment.  The code puts no limit on overlapping calls ("any").  The
\* other two values describe clients that keep out of each other's way: one
\* call of a user and one join of a room at a time; or no two calls that share
\* a user or a room.
MayStart(u, rooms, join) ==
  CASE Overlap = "any" -> TRUE
    [] Overlap = "one join per room" ->
         \A d \in InFlight :
           call[d].user # u /\ ~(join /\ Joining(d) /\ call[d].room \in rooms)
    [] Overlap = "disjoint" ->
         \A d \in InFlight :
           call[d].user # u /\ Concerns(d) \cap (rooms \cup {db.member[u]}) = {}

Start(c, record) ==
  /\ call[c].at = "idle"
  /\ call' = [call EXCEPT ![c] = record]
  /\ UNCHANGED <<db, announced>>

Advance(c, record) ==
  /\ call' = [call EXCEPT ![c] = record]
  /\ UNCHANGED <<db, announced>>

Commit(c, newDb, record) ==
  /\ db' = newDb
  /\ call' = [call EXCEPT ![c] = record]
  /\ UNCHANGED announced

-----------------------------------------------------------------------------
\* create(userId, dto)

CreateFindUser(c, u) ==
  /\ db.member[u] = None
  /\ MayStart(u, {}, FALSE)
  /\ Start(c, [Idle EXCEPT !.at = "create.insert", !.user = u])

CreateInsert(c) ==
  /\ call[c].at = "create.insert"
  /\ \E r \in FreshIds(db) : Commit(c, InsertRoom(db, call[c].user, r), Idle)

-----------------------------------------------------------------------------
\* join(userId, roomId)

\* A mistake: the check for a full room is left out.
JoinFindAnyRoom(c, u, r) ==
  /\ r \in db.live /\ u \notin PlayersOf(db, r)
  /\ MayStart(u, {r}, TRUE)
  /\ Start(c, [Idle EXCEPT !.at = "join.findUser", !.user = u, !.room = r,
                           !.players = PlayersOf(db, r)])

JoinFindRoom(c, u, r) ==
  /\ JoinAllowed(u, r)
  /\ MayStart(u, {r}, TRUE)
  /\ Start(c, [Idle EXCEPT !.at = "join.findUser", !.user = u, !.room = r,
                           !.players = PlayersOf(db, r)])

JoinFindUser(c) ==
  /\ call[c].at = "join.findUser"
  /\ LET old == db.member[call[c].user]
     IN  Advance(c, [call[c] EXCEPT
                       !.at = IF old = None THEN "join.commit" ELSE "join.readOld",
                       !.old = old])

\* leaveRoom inside join's transaction: a room that is gone is left alone.
JoinReadOld(c) ==
  /\ call[c].at = "join.readOld"
  /\ LET old == call[c].old
     IN  Advance(c, IF old \in db.live
                      THEN [call[c] EXCEPT !.at = "join.commit",
                                           !.left = RoomSnapshot(db, old)]
                      ELSE [call[c] EXCEPT !.at = "join.commit", !.old = None])

\* The databases in which leaveRoom's part of the transaction has been done;
\* none when the row it deletes or updates is gone (P2025).
AfterLeaving(c) ==
  LET self == call[c]
  IN  IF self.old = None THEN {db}
      ELSE IF self.old \in db.live THEN LeaveRoom(db, self.user, self.old, self.left)
      ELSE {}

JoinCommit(c) ==
  /\ call[c].at = "join.commit"
  /\ \E left \in AfterLeaving(c) :
       /\ call[c].room \in left.live
       /\ Commit(c, AddPlayer(left, call[c].user, call[c].room, call[c].players), Idle)

-----------------------------------------------------------------------------
\* leave(userId)

LeaveFindUser(c, u) ==
  /\ db.member[u] # None
  /\ MayStart(u, {}, FALSE)
  /\ Start(c, [Idle EXCEPT !.at = "leave.readRoom", !.user = u, !.old = db.member[u]])

\* leaveRoom returns null for a room that is gone, and leave then emits.
LeaveReadRoom(c) ==
  /\ call[c].at = "leave.readRoom"
  /\ LET old == call[c].old
     IN  Advance(c, IF old \in db.live
                      THEN [call[c] EXCEPT !.at = "leave.commit",
                                           !.left = RoomSnapshot(db, old)]
                      ELSE [call[c] EXCEPT !.at = "leave.emit"])

\* A mistake: ROOM_DELETED is emitted whoever leaves.
EmitAnyway(record) == [record EXCEPT !.at = "leave.emit"]

AfterLeave(record) ==
  IF Empties(record.user, record.left)
    THEN [record EXCEPT !.at = "leave.emit"]
    ELSE Idle

LeaveCommit(c) ==
  /\ call[c].at = "leave.commit"
  /\ \E left \in AfterLeaving(c) : Commit(c, left, AfterLeave(call[c]))

LeaveEmit(c) ==
  /\ call[c].at = "leave.emit"
  /\ announced' = announced \cup {call[c].old}
  /\ call' = [call EXCEPT ![c] = Idle]
  /\ UNCHANGED db

-----------------------------------------------------------------------------
\* update(userId, roomId, dto)

UpdateFindRoom(c, u, r) ==
  /\ r \in db.live
  /\ db.owner[r] = u
  /\ MayStart(u, {r}, FALSE)
  /\ Start(c, [Idle EXCEPT !.at = "update.commit", !.user = u, !.room = r])

UpdateCommit(c) ==
  /\ call[c].at = "update.commit"
  /\ call[c].room \in db.live
  /\ Commit(c, Rename(db, call[c].room), Idle)

-----------------------------------------------------------------------------

\* A write fails: its row is gone (P2025), Postgres picks it as a deadlock
\* victim, or Prisma's interactive transaction times out.  It is rolled back
\* and the call rejects.
Abort(c) ==
  /\ call[c].at \in CommitSteps
  /\ Advance(c, Idle)

\* The node process dies: the calls in flight are gone, the committed rows stay.
Crash ==
  /\ MayCrash
  /\ InFlight # {}
  /\ call' = [c \in Calls |-> Idle]
  /\ UNCHANGED <<db, announced>>

\* Bound: a run ends when every id of RoomIds has been used.
IdsUsedUp ==
  /\ FreshIds(db) = {} /\ db.live = {} /\ InFlight = {}
  /\ UNCHANGED vars

StartCall(c) ==
  \E u \in Users :
    \/ CreateFindUser(c, u)
    \/ LeaveFindUser(c, u)
    \/ \E r \in RoomIds : JoinFindRoom(c, u, r) \/ UpdateFindRoom(c, u, r)

Continue(c) ==
  \/ CreateInsert(c)
  \/ JoinFindUser(c) \/ JoinReadOld(c) \/ JoinCommit(c)
  \/ LeaveReadRoom(c) \/ LeaveCommit(c) \/ LeaveEmit(c)
  \/ UpdateCommit(c)
  \/ Abort(c)

Next ==
  \/ \E c \in Calls : StartCall(c) \/ Continue(c)
  \/ Crash
  \/ IdsUsedUp

Spec == Init /\ [][Next]_vars

-----------------------------------------------------------------------------
\* What holds however the calls overlap.

\* MembersSeated of Rooms: a join that read a room before it was deleted does
\* not seat its user in the deleted room.

\* ROOM_DELETED is only ever emitted for a room that is gone for good, so the
\* listeners wipe the chat and the game of no room somebody may still be in
\* (rooms.service.ts:144-147): neither a stale snapshot nor a second leave that
\* finds no row may announce a living room.
AnnouncedRoomsAreGone ==
  /\ announced \subseteq db.dead
  /\ db.dead \cap db.live = {}

-----------------------------------------------------------------------------
\* What holds when no two calls share a user or a room.

\* Calls that concern different users and rooms interleave without being
\* noticed: each behaves as the one step Rooms.tla makes of it (or none).
ActsAtomically == AtomicSpec

-----------------------------------------------------------------------------
\* What holds when a room is joined by one call at a time.

\* A seat is never sold twice (rooms.service.ts:22, 71): leaves may interleave
\* with the join in any way, since what the join counted can only shrink.
SeatsNotOversold ==
  \A r \in db.live : Cardinality(PlayersOf(db, r)) <= MAX_PLAYERS

\* A room that shows Waiting has a free seat: a leave with a stale snapshot
\* does not reopen a room that filled up in the meantime.
WaitingHasSeat ==
  \A r \in db.live :
    db.status[r] = "Waiting" => Cardinality(PlayersOf(db, r)) < MAX_PLAYERS
=============================================================================
