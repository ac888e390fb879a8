------------------------- MODULE RoomsServiceProofs -------------------------
(***************************************************************************)
(* What RoomsService keeps for every set of users, rooms and concurrent    *)
(* calls, however the calls overlap and wherever the process dies; what it *)
(* keeps when a room is joined by one call at a time; that it implements   *)
(* Rooms when no two calls share a user or a room, and so keeps what Rooms *)
(* keeps.                                                                  *)
(***************************************************************************)
EXTENDS RoomsService, RoomsProofs

Leaving == {"leave.readRoom", "leave.commit", "leave.emit"}
JoinSteps == {"join.findUser", "join.readOld", "join.commit"}

\* Rooms are named by calls that found them, so they are or were rows.
Known == db.live \cup db.dead

\* What a call in flight holds at each of its steps.
CallOK(c) ==
  LET k == call[c]
  IN  /\ k.at # "idle" => k.user \in Users
      /\ k.at \in JoinSteps \cup {"update.commit"} => k.room \in Known
      /\ k.at \in Leaving \cup {"join.readOld"} => k.old \in Known
      /\ k.at = "leave.emit" => k.old \in db.dead

\* AnnouncedRoomsAreGone alone is not inductive: LeaveEmit announces what the
\* call remembers, which CallOK ties to the deleted rooms.
IInv ==
  /\ TypeOK
  /\ MembersSeated
  /\ AnnouncedRoomsAreGone
  /\ \A c \in Calls : CallOK(c)

-----------------------------------------------------------------------------

\* A step of some user's call on the rows: ids are never reused, nobody else is
\* given a seat, and who loses one loses it with the room.
RowsStep(old, new, u) ==
  /\ new \in Databases
  /\ ForeignKeyOK(new)
  /\ new.dead \cap new.live = {}
  /\ old.dead \subseteq new.dead
  /\ old.live \cup old.dead \subseteq new.live \cup new.dead
  /\ \A v \in Users \ {u} :
       \/ new.member[v] = old.member[v]
       \/ new.member[v] = None /\ old.member[v] \notin new.live

RowsOK(t) == t \in Databases /\ ForeignKeyOK(t) /\ t.dead \cap t.live = {}

LEMMA InsertStep ==
  ASSUME NEW t \in Databases, RowsOK(t), NEW u \in Users, NEW r \in FreshIds(t)
  PROVE  RowsStep(t, InsertRoom(t, u, r), u)
<1>1. /\ t \in Databases /\ r \in RoomIds /\ r \notin t.live /\ r \notin t.dead
      /\ t.member \in [Users -> RoomIds \cup {None}]
  BY DEF RowsOK, FreshIds, Databases
<1> DEFINE new == InsertRoom(t, u, r)
<1>2. new \in Databases
  BY <1>1, InsertKeepsType
<1>3. /\ new.live = t.live \cup {r} /\ new.dead = t.dead
      /\ new.member = [t.member EXCEPT ![u] = r]
  BY <1>1 DEF InsertRoom, Databases
<1> HIDE DEF new
<1>4. RowsStep(t, new, u)
  <2>1. ForeignKeyOK(new)
    BY <1>1, <1>3 DEF RowsOK, ForeignKeyOK
  <2>2. \A v \in Users \ {u} : new.member[v] = t.member[v]
    BY <1>1, <1>3
  <2> QED
    BY <1>1, <1>2, <1>3, <2>1, <2>2 DEF RowsStep, RowsOK
<1> QED
  BY <1>4 DEF new

LEMMA LeaveStep ==
  ASSUME NEW t \in Databases, RowsOK(t), NEW u \in Users, NEW r \in t.live, NEW seen \in Snapshots,
         NEW new \in LeaveRoom(t, u, r, seen)
  PROVE  RowsStep(t, new, u) /\ (Empties(u, seen) => r \in new.dead)
<1>1. t \in Databases /\ t.live \subseteq RoomIds /\ r # None
      /\ seen.players \subseteq Users /\ seen.owner \in Users \cup {None}
  BY NoneIsNoRoom DEF RowsOK, Databases, Snapshots
<1>2. /\ new \in Databases
      /\ \/ new.live = t.live /\ new.dead = t.dead
         \/ new.live = t.live \ {r} /\ new.dead = t.dead \cup {r}
      /\ Empties(u, seen) => r \in new.dead
      /\ new.status = [t.status EXCEPT ![r] = "Waiting"]
      /\ new.member[u] \in {t.member[u], None}
      /\ new.member[u] # r
      /\ \A v \in Users \ {u} :
           \/ new.member[v] = t.member[v]
           \/ new.member[v] = None /\ t.member[v] = r /\ r \notin new.live
      /\ r \notin new.live => \A v \in Users : new.member[v] # r
  BY <1>1, LeaveEffect
<1>3. ForeignKeyOK(new)
  BY <1>1, <1>2 DEF RowsOK, ForeignKeyOK
<1> QED
  BY <1>1, <1>2, <1>3 DEF RowsStep, RowsOK

LEMMA AddStep ==
  ASSUME NEW t \in Databases, RowsOK(t), NEW u \in Users, NEW r \in t.live, NEW seen
  PROVE  RowsStep(t, AddPlayer(t, u, r, seen), u)
<1>1. /\ t \in Databases /\ r \in RoomIds
      /\ t.member \in [Users -> RoomIds \cup {None}]
  BY DEF RowsOK, Databases
<1> DEFINE new == AddPlayer(t, u, r, seen)
<1>2. new \in Databases
  BY <1>1, AddKeepsType
<1>3. /\ new.live = t.live /\ new.dead = t.dead
      /\ new.member = [t.member EXCEPT ![u] = r]
  BY <1>1 DEF AddPlayer, Databases
<1> HIDE DEF new
<1>4. RowsStep(t, new, u)
  <2>1. ForeignKeyOK(new)
    BY <1>1, <1>3 DEF RowsOK, ForeignKeyOK
  <2>2. \A v \in Users \ {u} : new.member[v] = t.member[v]
    BY <1>1, <1>3
  <2> QED
    BY <1>1, <1>2, <1>3, <2>1, <2>2 DEF RowsStep, RowsOK
<1> QED
  BY <1>4 DEF new

LEMMA RenameStep ==
  ASSUME NEW t \in Databases, RowsOK(t), NEW u, NEW r \in RoomIds
  PROVE  RowsStep(t, Rename(t, r), u)
<1>1. Rename(t, r) \in Databases
  BY RenameKeepsType DEF RowsOK
<1> QED
  BY <1>1 DEF Rename, Databases, RowsStep, RowsOK, ForeignKeyOK

LEMMA StepsCompose ==
  ASSUME NEW t \in Databases, RowsOK(t), NEW s, NEW w, NEW u, RowsStep(t, s, u), RowsStep(s, w, u)
  PROVE  RowsStep(t, w, u)
<1>1. ASSUME NEW v \in Users \ {u}
      PROVE  \/ w.member[v] = t.member[v]
             \/ w.member[v] = None /\ t.member[v] \notin w.live
  <2>1. t.member[v] \in t.live \cup {None}
    BY DEF RowsOK, ForeignKeyOK
  <2>2. CASE t.member[v] = None
    BY <2>2 DEF RowsStep
  <2>3. CASE t.member[v] # None /\ s.member[v] = t.member[v]
    BY <2>3 DEF RowsStep
  <2>4. CASE t.member[v] # None /\ s.member[v] # t.member[v]
    <3>1. s.member[v] = None /\ t.member[v] \in s.dead
      BY <2>1, <2>4 DEF RowsStep
    <3> QED
      BY <3>1 DEF RowsStep
  <2> QED
    BY <2>2, <2>3, <2>4
<1> QED
  BY <1>1 DEF RowsStep

-----------------------------------------------------------------------------

\* One call moves, on rows that stay in order: the other calls keep what they
\* hold, because rooms only ever go from live to dead.
LEMMA OneCallMoves ==
  ASSUME IInv, NEW c \in Calls, NEW record \in CallRecords, NEW u,
         call' = [call EXCEPT ![c] = record],
         RowsStep(db, db', u),
         CallOK(c)',
         announced' \in SUBSET RoomIds, announced' \subseteq db'.dead
  PROVE  IInv'
<1>1. TypeOK'
  BY DEF IInv, TypeOK, RowsStep
<1>2. MembersSeated' /\ AnnouncedRoomsAreGone'
  BY DEF MembersSeated, AnnouncedRoomsAreGone, RowsStep
<1>3. ASSUME NEW d \in Calls, d # c
      PROVE  CallOK(d)'
  <2>1. call'[d] = call[d]
    BY <1>3 DEF IInv, TypeOK
  <2>2. Known \subseteq Known' /\ db.dead \subseteq db'.dead
    BY DEF Known, RowsStep
  <2> QED
    BY <2>1, <2>2 DEF IInv, CallOK
<1> QED
  BY <1>1, <1>2, <1>3 DEF IInv

LEMMA RowsUnchanged ==
  ASSUME IInv, UNCHANGED db, NEW u
  PROVE  RowsStep(db, db', u)
BY DEF IInv, TypeOK, MembersSeated, AnnouncedRoomsAreGone, RowsStep

\* What a call in flight may rely on.
LEMMA CallFacts ==
  ASSUME IInv, NEW c \in Calls
  PROVE  /\ db \in Databases /\ RowsOK(db)
         /\ call[c] \in CallRecords
         /\ CallOK(c)
         /\ announced \in SUBSET RoomIds /\ announced \subseteq db.dead
         /\ Known \subseteq RoomIds /\ None \notin Known
BY NoneIsNoRoom
   DEF IInv, TypeOK, MembersSeated, AnnouncedRoomsAreGone, RowsOK, Known, Databases

\* A call that only reads.
LEMMA OneCallReads ==
  ASSUME IInv, NEW c \in Calls, NEW record \in CallRecords,
         call' = [call EXCEPT ![c] = record], UNCHANGED <<db, announced>>,
         CallOK(c)'
  PROVE  IInv'
<1>1. RowsStep(db, db', None)
  BY RowsUnchanged
<1>2. announced' \in SUBSET RoomIds /\ announced' \subseteq db'.dead
  BY CallFacts
<1> QED
  BY <1>1, <1>2, OneCallMoves

\* A call that writes and ends.
LEMMA IdleOK ==
  ASSUME IInv, NEW c \in Calls, call' = [call EXCEPT ![c] = Idle]
  PROVE  Idle \in CallRecords /\ CallOK(c)'
<1>1. call'[c] = Idle
  BY DEF IInv, TypeOK
<1>2. Idle \in CallRecords
  BY DEF Idle, CallRecords, Steps, Snapshots, NoSnapshot
<1> QED
  BY <1>1, <1>2 DEF CallOK, Idle, JoinSteps, Leaving

LEMMA InitOK == Init => IInv
<1> SUFFICES ASSUME Init PROVE IInv
  OBVIOUS
<1>1. EmptyDatabase \in Databases /\ ForeignKeyOK(EmptyDatabase)
  BY DEF EmptyDatabase, Databases, Statuses, ForeignKeyOK
<1>2. Idle \in CallRecords
  BY DEF Idle, CallRecords, Steps, Snapshots, NoSnapshot
<1>3. TypeOK
  BY <1>1, <1>2 DEF Init, TypeOK
<1>4. MembersSeated /\ AnnouncedRoomsAreGone
  BY <1>1 DEF Init, MembersSeated, AnnouncedRoomsAreGone, EmptyDatabase
<1>5. \A c \in Calls : CallOK(c)
  BY DEF Init, CallOK, Idle, JoinSteps, Leaving
<1> QED
  BY <1>3, <1>4, <1>5 DEF IInv

-----------------------------------------------------------------------------
\* One lemma per kind of call.

LEMMA CreateOK ==
  ASSUME IInv, NEW c \in Calls,
         (\E u \in Users : CreateFindUser(c, u)) \/ CreateInsert(c)
  PROVE  IInv'
<1>1. ASSUME NEW u \in Users, CreateFindUser(c, u) PROVE IInv'
  <2> DEFINE record == [Idle EXCEPT !.at = "create.insert", !.user = u]
  <2>1. record \in CallRecords
    BY DEF Idle, CallRecords, Steps, Snapshots, NoSnapshot
  <2>2. call' = [call EXCEPT ![c] = record] /\ UNCHANGED <<db, announced>>
    BY <1>1 DEF CreateFindUser, Start
  <2>3. CallOK(c)'
    BY <2>2 DEF CallOK, Idle, JoinSteps, Leaving, IInv, TypeOK
  <2> QED
    BY <2>1, <2>2, <2>3, OneCallReads
<1>2. CASE CreateInsert(c)
  <2>1. PICK r \in FreshIds(db) : Commit(c, InsertRoom(db, call[c].user, r), Idle)
    BY <1>2 DEF CreateInsert
  <2>2. call[c].user \in Users
    BY <1>2, CallFacts DEF CreateInsert, CallOK
  <2>3. RowsStep(db, db', call[c].user)
    BY <2>1, <2>2, CallFacts, InsertStep DEF Commit
  <2>4. call' = [call EXCEPT ![c] = Idle] /\ announced' = announced
    BY <2>1 DEF Commit
  <2>5. announced' \in SUBSET RoomIds /\ announced' \subseteq db'.dead
    BY <2>3, <2>4, CallFacts DEF RowsStep
  <2> QED
    BY <2>3, <2>4, <2>5, IdleOK, OneCallMoves
<1> QED
  BY <1>1, <1>2

\* The transaction's leave, for join and leave alike: a room that is gone has
\* no continuation, and one that is emptied is dead afterwards.
LEMMA AfterLeavingStep ==
  ASSUME IInv, NEW c \in Calls, call[c].user \in Users, NEW left \in AfterLeaving(c)
  PROVE  /\ RowsStep(db, left, call[c].user)
         /\ call[c].old # None /\ Empties(call[c].user, call[c].left)
              => call[c].old \in left.dead
<1> DEFINE u == call[c].user
           old == call[c].old
           seen == call[c].left
<1>1. db \in Databases /\ RowsOK(db) /\ seen \in Snapshots
  BY CallFacts DEF CallRecords
<1>2. CASE old = None
  BY <1>1, <1>2 DEF AfterLeaving, RowsOK, RowsStep
<1>3. CASE old # None
  <2>1. old \in db.live /\ left \in LeaveRoom(db, u, old, seen)
    BY <1>3 DEF AfterLeaving
  <2> QED
    BY <1>1, <2>1, LeaveStep
<1> QED
  BY <1>2, <1>3

LEMMA JoinOK ==
  ASSUME IInv, NEW c \in Calls,
         \/ \E u \in Users, r \in RoomIds : JoinFindRoom(c, u, r)
         \/ JoinFindUser(c) \/ JoinReadOld(c) \/ JoinCommit(c)
  PROVE  IInv'
<1>1. ASSUME NEW u \in Users, NEW r \in RoomIds, JoinFindRoom(c, u, r) PROVE IInv'
  <2> DEFINE record == [Idle EXCEPT !.at = "join.findUser", !.user = u, !.room = r,
                                    !.players = PlayersOf(db, r)]
  <2>1. record \in CallRecords
    BY DEF Idle, CallRecords, Steps, Snapshots, NoSnapshot, PlayersOf
  <2>2. call' = [call EXCEPT ![c] = record] /\ UNCHANGED <<db, announced>> /\ r \in db.live
    BY <1>1 DEF JoinFindRoom, JoinAllowed, Start
  <2>3. call'[c] = record
    BY <2>2 DEF IInv, TypeOK
  <2>4. /\ call'[c].at = "join.findUser" /\ call'[c].user = u /\ call'[c].room = r
        /\ r \in Known'
    <3>1. record.at = "join.findUser" /\ record.user = u /\ record.room = r
      BY DEF Idle
    <3>2. r \in Known'
      BY <2>2 DEF Known
    <3> QED
      BY <3>1, <3>2, <2>3
  <2>5. CallOK(c)'
    BY <2>4 DEF CallOK, JoinSteps, Leaving
  <2> QED
    BY <2>1, <2>2, <2>5, OneCallReads
<1>2. CASE JoinFindUser(c)
  <2> DEFINE old == db.member[call[c].user]
             record == [call[c] EXCEPT
                          !.at = IF old = None THEN "join.commit" ELSE "join.readOld",
                          !.old = old]
  <2>1. call[c].at = "join.findUser" /\ call' = [call EXCEPT ![c] = record]
        /\ UNCHANGED <<db, announced>>
    BY <1>2 DEF JoinFindUser, Advance
  <2>2. call[c] \in CallRecords /\ call[c].user \in Users /\ call[c].room \in Known
    BY <2>1, CallFacts DEF CallOK, JoinSteps
  <2>3. old \in db.live \cup {None} /\ old \in RoomIds \cup {None}
    BY <2>2, CallFacts DEF RowsOK, ForeignKeyOK, Databases
  <2> HIDE DEF old
  <2>4. record \in CallRecords
    BY <2>2, <2>3 DEF CallRecords, Steps
  <2>5. call'[c] = record
    BY <2>1 DEF IInv, TypeOK
  <2>6. /\ call'[c].user = call[c].user /\ call'[c].room = call[c].room
        /\ call'[c].old = old
        /\ call'[c].at = IF old = None THEN "join.commit" ELSE "join.readOld"
    BY <2>2, <2>5 DEF CallRecords
  <2>7. Known' = Known
    BY <2>1 DEF Known
  <2>8. CallOK(c)'
    BY <2>2, <2>3, <2>6, <2>7 DEF CallOK, JoinSteps, Leaving, Known
  <2> QED
    BY <2>1, <2>4, <2>8, OneCallReads
<1>3. CASE JoinReadOld(c)
  <2> DEFINE old == call[c].old
             record == IF old \in db.live
                         THEN [call[c] EXCEPT !.at = "join.commit",
                                              !.left = RoomSnapshot(db, old)]
                         ELSE [call[c] EXCEPT !.at = "join.commit", !.old = None]
  <2>1. call[c].at = "join.readOld" /\ call' = [call EXCEPT ![c] = record]
        /\ UNCHANGED <<db, announced>>
    BY <1>3 DEF JoinReadOld, Advance
  <2>2. call[c] \in CallRecords /\ call[c].user \in Users /\ call[c].room \in Known
        /\ old \in Known
    BY <2>1, CallFacts DEF CallOK, JoinSteps
  <2>3. old \in RoomIds
    BY <2>2, CallFacts
  <2>4. RoomSnapshot(db, old) \in Snapshots
    BY <2>3, CallFacts DEF RoomSnapshot, Snapshots, PlayersOf, Databases
  <2>5. record \in CallRecords
    BY <2>2, <2>4 DEF CallRecords, Steps
  <2>6. call'[c] = record
    BY <2>1 DEF IInv, TypeOK
  <2>7. /\ call'[c].user = call[c].user /\ call'[c].room = call[c].room
        /\ call'[c].at = "join.commit"
    BY <2>2, <2>6 DEF CallRecords
  <2>8. Known' = Known
    BY <2>1 DEF Known
  <2>9. CallOK(c)'
    BY <2>2, <2>7, <2>8 DEF CallOK, JoinSteps, Leaving
  <2> QED
    BY <2>1, <2>5, <2>9, OneCallReads
<1>4. CASE JoinCommit(c)
  <2> DEFINE u == call[c].user
             r == call[c].room
  <2>1. PICK left \in AfterLeaving(c) :
          /\ r \in left.live
          /\ Commit(c, AddPlayer(left, u, r, call[c].players), Idle)
    BY <1>4 DEF JoinCommit
  <2>2. u \in Users
    BY <1>4, CallFacts DEF JoinCommit, CallOK
  <2>3. RowsStep(db, left, u)
    BY <2>1, <2>2, AfterLeavingStep
  <2>4. left \in Databases /\ RowsOK(left)
    BY <2>3 DEF RowsStep, RowsOK
  <2>5. RowsStep(left, AddPlayer(left, u, r, call[c].players), u)
    BY <2>1, <2>2, <2>4, AddStep
  <2>6. db' = AddPlayer(left, u, r, call[c].players)
        /\ call' = [call EXCEPT ![c] = Idle] /\ announced' = announced
    BY <2>1 DEF Commit
  <2>7. RowsStep(db, db', u)
    <3>1. db \in Databases /\ RowsOK(db)
      BY CallFacts
    <3>2. RowsStep(left, db', u)
      BY <2>5, <2>6
    <3> QED
      BY <3>1, <3>2, <2>3, StepsCompose
  <2>8. announced' \in SUBSET RoomIds /\ announced' \subseteq db'.dead
    BY <2>6, <2>7, CallFacts DEF RowsStep
  <2> QED
    BY <2>6, <2>7, <2>8, IdleOK, OneCallMoves
<1> QED
  BY <1>1, <1>2, <1>3, <1>4

LEMMA LeaveOK ==
  ASSUME IInv, NEW c \in Calls,
         \/ \E u \in Users : LeaveFindUser(c, u)
         \/ LeaveReadRoom(c) \/ LeaveCommit(c) \/ LeaveEmit(c)
  PROVE  IInv'
<1>1. ASSUME NEW u \in Users, LeaveFindUser(c, u) PROVE IInv'
  <2> DEFINE record == [Idle EXCEPT !.at = "leave.readRoom", !.user = u,
                                    !.old = db.member[u]]
  <2>1. db.member[u] \in db.live /\ db.member[u] \in RoomIds
    BY <1>1, CallFacts DEF LeaveFindUser, RowsOK, ForeignKeyOK, Databases
  <2>2. record \in CallRecords
    BY <2>1 DEF Idle, CallRecords, Steps, Snapshots, NoSnapshot
  <2>3. call' = [call EXCEPT ![c] = record] /\ UNCHANGED <<db, announced>>
    BY <1>1 DEF LeaveFindUser, Start
  <2>4. call'[c] = record
    BY <2>3 DEF IInv, TypeOK
  <2>5. /\ call'[c].at = "leave.readRoom" /\ call'[c].user = u
        /\ call'[c].old = db.member[u] /\ call'[c].old \in Known'
    <3>1. record.at = "leave.readRoom" /\ record.user = u /\ record.old = db.member[u]
      BY DEF Idle
    <3>2. db.member[u] \in Known'
      BY <2>1, <2>3 DEF Known
    <3> QED
      BY <3>1, <3>2, <2>4
  <2>6. CallOK(c)'
    BY <2>5 DEF CallOK, JoinSteps, Leaving
  <2> QED
    BY <2>2, <2>3, <2>6, OneCallReads
<1>2. CASE LeaveReadRoom(c)
  <2> DEFINE old == call[c].old
             record == IF old \in db.live
                         THEN [call[c] EXCEPT !.at = "leave.commit",
                                              !.left = RoomSnapshot(db, old)]
                         ELSE [call[c] EXCEPT !.at = "leave.emit"]
  <2>1. call[c].at = "leave.readRoom" /\ call' = [call EXCEPT ![c] = record]
        /\ UNCHANGED <<db, announced>>
    BY <1>2 DEF LeaveReadRoom, Advance
  <2>2. call[c] \in CallRecords /\ call[c].user \in Users /\ old \in Known
    BY <2>1, CallFacts DEF CallOK, Leaving
  <2>3. old \in RoomIds
    BY <2>2, CallFacts
  <2>4. RoomSnapshot(db, old) \in Snapshots
    BY <2>3, CallFacts DEF RoomSnapshot, Snapshots, PlayersOf, Databases
  <2>5. record \in CallRecords
    BY <2>2, <2>4 DEF CallRecords, Steps
  <2>6. call'[c] = record
    BY <2>1 DEF IInv, TypeOK
  <2>7. /\ call'[c].user = call[c].user /\ call'[c].old = old
        /\ call'[c].at = IF old \in db.live THEN "leave.commit" ELSE "leave.emit"
    BY <2>2, <2>6 DEF CallRecords
  <2>8. Known' = Known /\ db'.dead = db.dead /\ (old \notin db.live => old \in db.dead)
    BY <2>1, <2>2 DEF Known
  <2>9. CallOK(c)'
    BY <2>2, <2>7, <2>8 DEF CallOK, JoinSteps, Leaving
  <2> QED
    BY <2>1, <2>5, <2>9, OneCallReads
<1>3. CASE LeaveCommit(c)
  <2> DEFINE u == call[c].user
             record == AfterLeave(call[c])
  <2>1. PICK left \in AfterLeaving(c) : Commit(c, left, record)
    BY <1>3 DEF LeaveCommit
  <2>2. call[c].at = "leave.commit" /\ call[c] \in CallRecords /\ u \in Users
        /\ call[c].old \in Known /\ call[c].old # None
    BY <1>3, CallFacts DEF LeaveCommit, CallOK, Leaving
  <2>3. db' = left /\ call' = [call EXCEPT ![c] = record] /\ announced' = announced
    BY <2>1 DEF Commit
  <2>4. RowsStep(db, db', u) /\ (Empties(u, call[c].left) => call[c].old \in db'.dead)
    BY <2>1, <2>2, <2>3, AfterLeavingStep
  <2>5. announced' \in SUBSET RoomIds /\ announced' \subseteq db'.dead
    BY <2>3, <2>4, CallFacts DEF RowsStep
  <2>6. CASE Empties(u, call[c].left)
    <3>1. record = [call[c] EXCEPT !.at = "leave.emit"]
      BY <2>6 DEF AfterLeave
    <3>2. record \in CallRecords
      BY <2>2, <3>1 DEF CallRecords, Steps
    <3>3. call'[c] = record
      BY <2>3 DEF IInv, TypeOK
    <3>4. call'[c].user = u /\ call'[c].old = call[c].old /\ call'[c].at = "leave.emit"
      BY <2>2, <3>1, <3>3 DEF CallRecords
    <3>5. call[c].old \in Known'
      BY <2>4, <2>6 DEF Known
    <3>6. CallOK(c)'
      BY <2>2, <2>4, <2>6, <3>4, <3>5 DEF CallOK, JoinSteps, Leaving
    <3> QED
      BY <2>3, <2>4, <2>5, <3>2, <3>6, OneCallMoves
  <2>7. CASE ~Empties(u, call[c].left)
    <3>1. call' = [call EXCEPT ![c] = Idle]
      BY <2>3, <2>7 DEF AfterLeave
    <3> QED
      BY <2>4, <2>5, <3>1, IdleOK, OneCallMoves
  <2> QED
    BY <2>6, <2>7
<1>4. CASE LeaveEmit(c)
  <2>1. call[c].old \in db.dead /\ call[c].old \in RoomIds
    BY <1>4, CallFacts DEF LeaveEmit, CallOK, Leaving
  <2>2. call' = [call EXCEPT ![c] = Idle] /\ UNCHANGED db
        /\ announced' = announced \cup {call[c].old}
    BY <1>4 DEF LeaveEmit
  <2>3. RowsStep(db, db', None)
    BY <2>2, RowsUnchanged
  <2>4. announced' \in SUBSET RoomIds /\ announced' \subseteq db'.dead
    BY <2>1, <2>2, CallFacts
  <2> QED
    BY <2>2, <2>3, <2>4, IdleOK, OneCallMoves
<1> QED
  BY <1>1, <1>2, <1>3, <1>4

LEMMA UpdateOK ==
  ASSUME IInv, NEW c \in Calls,
         (\E u \in Users, r \in RoomIds : UpdateFindRoom(c, u, r)) \/ UpdateCommit(c)
  PROVE  IInv'
<1>1. ASSUME NEW u \in Users, NEW r \in RoomIds, UpdateFindRoom(c, u, r) PROVE IInv'
  <2> DEFINE record == [Idle EXCEPT !.at = "update.commit", !.user = u, !.room = r]
  <2>1. record \in CallRecords
    BY DEF Idle, CallRecords, Steps, Snapshots, NoSnapshot
  <2>2. call' = [call EXCEPT ![c] = record] /\ UNCHANGED <<db, announced>> /\ r \in db.live
    BY <1>1 DEF UpdateFindRoom, Start
  <2>3. call'[c] = record
    BY <2>2 DEF IInv, TypeOK
  <2>4. /\ call'[c].at = "update.commit" /\ call'[c].user = u /\ call'[c].room = r
        /\ r \in Known'
    <3>1. record.at = "update.commit" /\ record.user = u /\ record.room = r
      BY DEF Idle
    <3>2. r \in Known'
      BY <2>2 DEF Known
    <3> QED
      BY <2>3, <3>1, <3>2
  <2>5. CallOK(c)'
    BY <2>4 DEF CallOK, JoinSteps, Leaving
  <2> QED
    BY <2>1, <2>2, <2>5, OneCallReads
<1>2. CASE UpdateCommit(c)
  <2>1. call[c].room \in RoomIds
    BY <1>2, CallFacts DEF UpdateCommit, Databases
  <2>2. db' = Rename(db, call[c].room) /\ call' = [call EXCEPT ![c] = Idle]
        /\ announced' = announced
    BY <1>2 DEF UpdateCommit, Commit
  <2>3. RowsStep(db, db', None)
    BY <2>1, <2>2, CallFacts, RenameStep
  <2>4. announced' \in SUBSET RoomIds /\ announced' \subseteq db'.dead
    BY <2>2, <2>3, CallFacts DEF RowsStep
  <2> QED
    BY <2>2, <2>3, <2>4, IdleOK, OneCallMoves
<1> QED
  BY <1>1, <1>2

LEMMA CrashOK ==
  ASSUME IInv, Crash
  PROVE  IInv'
<1>1. call' = [c \in Calls |-> Idle] /\ UNCHANGED <<db, announced>>
  BY DEF Crash
<1>2. Idle \in CallRecords
  BY DEF Idle, CallRecords, Steps, Snapshots, NoSnapshot
<1>3. TypeOK' /\ MembersSeated' /\ AnnouncedRoomsAreGone'
  BY <1>1, <1>2 DEF IInv, TypeOK, MembersSeated, AnnouncedRoomsAreGone
<1>4. \A c \in Calls : CallOK(c)'
  BY <1>1 DEF CallOK, Idle, JoinSteps, Leaving
<1> QED
  BY <1>3, <1>4 DEF IInv

LEMMA NextOK == IInv /\ [Next]_vars => IInv'
<1> SUFFICES ASSUME IInv, [Next]_vars PROVE IInv'
  OBVIOUS
<1>1. ASSUME NEW c \in Calls, StartCall(c) PROVE IInv'
  BY <1>1, CreateOK, JoinOK, LeaveOK, UpdateOK DEF StartCall
<1>2. ASSUME NEW c \in Calls, Continue(c) PROVE IInv'
  <2>1. CASE Abort(c)
    <3>1. call' = [call EXCEPT ![c] = Idle] /\ UNCHANGED <<db, announced>>
      BY <2>1 DEF Abort, Advance
    <3> QED
      BY <3>1, IdleOK, OneCallReads
  <2> QED
    BY <1>2, <2>1, CreateOK, JoinOK, LeaveOK, UpdateOK DEF Continue
<1>3. CASE UNCHANGED vars
  BY <1>3 DEF vars, IInv, TypeOK, MembersSeated, AnnouncedRoomsAreGone, CallOK, Known
<1>4. CASE IdsUsedUp
  BY <1>3, <1>4 DEF IdsUsedUp
<1> QED
  BY <1>1, <1>2, <1>3, <1>4, CrashOK DEF Next

LEMMA Invariance == Spec => []IInv
BY InitOK, NextOK, PTL DEF Spec

-----------------------------------------------------------------------------

\* The rows, the calls and the announcements keep their types.
THEOREM TypesKept == Spec => []TypeOK
<1>1. IInv => TypeOK
  BY DEF IInv
<1> QED
  BY <1>1, Invariance, PTL

\* However the calls overlap, no user ends up in a room that is gone.
THEOREM MembersAlwaysSeated == Spec => []MembersSeated
<1>1. IInv => MembersSeated
  BY DEF IInv
<1> QED
  BY <1>1, Invariance, PTL

\* However the calls overlap, and wherever the process dies, ROOM_DELETED is
\* only emitted for rooms that are gone for good (rooms.service.ts:144-147).
THEOREM OnlyGoneRoomsAnnounced == Spec => []AnnouncedRoomsAreGone
<1>1. IInv => AnnouncedRoomsAreGone
  BY DEF IInv
<1> QED
  BY <1>1, Invariance, PTL

-----------------------------------------------------------------------------
\* No seat of a room is sold twice when a room is joined by one call at a time
\* and a user makes one call at a time.  Leaves, creates and updates of the room
\* may interleave with the join in any way.

SeatsFine(t) ==
  \A r \in t.live :
    /\ Cardinality(PlayersOf(t, r)) <= MAX_PLAYERS
    /\ t.status[r] = "Waiting" => Cardinality(PlayersOf(t, r)) < MAX_PLAYERS

\* The call will make its user leave a room.
WillLeave(k) ==
  \/ k.at \in {"leave.readRoom", "leave.commit", "join.readOld"}
  \/ k.at = "join.commit" /\ k.old # None

SeatOK(c) ==
  LET k == call[c]
  IN  /\ k.at \in JoinSteps =>
           PlayersOf(db, k.room) \subseteq k.players /\ Cardinality(k.players) < MAX_PLAYERS
      /\ WillLeave(k) => k.old \in Known
      /\ WillLeave(k) /\ k.old \in db.live => db.member[k.user] = k.old

Alone(c) ==
  \A d \in Calls \ {c} :
    /\ call[c].at # "idle" /\ call[d].at # "idle" => call[c].user # call[d].user
    /\ Joining(c) /\ Joining(d) => call[c].room # call[d].room

\* What a join counted can only shrink until it commits: nobody else adds a
\* player to its room.  What a leave is about to vacate is still its user's.
SeatInv ==
  /\ SeatsFine(db)
  /\ \A c \in Calls : SeatOK(c) /\ Alone(c)

-----------------------------------------------------------------------------
\* The writes, seen from the seats.

Shrinks(t, w) ==
  /\ w.live \subseteq t.live
  /\ \A s \in RoomIds : PlayersOf(w, s) \subseteq PlayersOf(t, s)
  /\ \A s \in w.live :
       w.status[s] = t.status[s] \/ Cardinality(PlayersOf(w, s)) < MAX_PLAYERS

LEMMA SmallerSet ==
  ASSUME NEW t \in Databases, NEW r, NEW S \in SUBSET PlayersOf(t, r)
  PROVE  /\ IsFiniteSet(S) /\ Cardinality(S) \in Nat
         /\ Cardinality(S) <= Cardinality(PlayersOf(t, r))
BY PlayersFinite, FS_Subset, FS_CardinalityType

LEMMA ShrinkSeats ==
  ASSUME NEW t \in Databases, NEW w, SeatsFine(t), Shrinks(t, w)
  PROVE  SeatsFine(w)
<1> SUFFICES ASSUME NEW s \in w.live
    PROVE /\ Cardinality(PlayersOf(w, s)) <= MAX_PLAYERS
          /\ w.status[s] = "Waiting" => Cardinality(PlayersOf(w, s)) < MAX_PLAYERS
  BY DEF SeatsFine
<1>1. /\ Cardinality(PlayersOf(w, s)) \in Nat
      /\ Cardinality(PlayersOf(w, s)) <= Cardinality(PlayersOf(t, s))
      /\ Cardinality(PlayersOf(t, s)) \in Nat
  BY SmallerSet, PlayersFinite DEF Shrinks, Databases
<1> QED
  BY <1>1, RoomForTwo DEF Shrinks, SeatsFine

\* leaveRoom frees a seat when its user still has one.
LEMMA LeaveShrinks ==
  ASSUME NEW t \in Databases, SeatsFine(t), NEW u \in Users, NEW r \in t.live,
         t.member[u] = r, NEW seen \in Snapshots, NEW w \in LeaveRoom(t, u, r, seen)
  PROVE  Shrinks(t, w)
<1>1. seen.players \subseteq Users /\ seen.owner \in Users \cup {None} /\ t.live \subseteq RoomIds
  BY DEF Snapshots, Databases
<1>2. /\ w \in Databases
      /\ \/ w.live = t.live /\ w.dead = t.dead
         \/ w.live = t.live \ {r} /\ w.dead = t.dead \cup {r}
      /\ Empties(u, seen) => r \in w.dead
      /\ w.status = [t.status EXCEPT ![r] = "Waiting"]
      /\ w.member[u] \in {t.member[u], None}
      /\ w.member[u] # r
      /\ \A v \in Users \ {u} :
           \/ w.member[v] = t.member[v]
           \/ w.member[v] = None /\ t.member[v] = r /\ r \notin w.live
      /\ r \notin w.live => \A v \in Users : w.member[v] # r
  BY <1>1, LeaveEffect
<1>3. w.live \subseteq t.live
  BY <1>2
<1>4. ASSUME NEW s \in RoomIds
      PROVE PlayersOf(w, s) \subseteq PlayersOf(t, s) /\ (s = r => u \notin PlayersOf(w, s))
  BY <1>1, <1>2, NoneIsNoRoom DEF PlayersOf
<1>5. ASSUME NEW s \in w.live
      PROVE  w.status[s] = t.status[s] \/ Cardinality(PlayersOf(w, s)) < MAX_PLAYERS
  <2>1. CASE s # r
    BY <2>1, <1>1, <1>2 DEF Databases
  <2>2. CASE s = r
    <3>1. u \in PlayersOf(t, r)
      BY DEF PlayersOf
    <3>2. PlayersOf(w, s) \subseteq PlayersOf(t, r) \ {u}
      BY <2>2, <1>1, <1>4
    <3>3. /\ IsFiniteSet(PlayersOf(t, r) \ {u})
          /\ Cardinality(PlayersOf(t, r) \ {u}) = Cardinality(PlayersOf(t, r)) - 1
      <4>1. IsFiniteSet(PlayersOf(t, r))
        BY PlayersFinite
      <4> QED
        BY <3>1, <4>1, FS_RemoveElement
    <3>4. Cardinality(PlayersOf(w, s)) <= Cardinality(PlayersOf(t, r)) - 1
      BY <3>2, <3>3, FS_Subset
    <3>5. Cardinality(PlayersOf(w, s)) \in Nat /\ Cardinality(PlayersOf(t, r)) \in Nat
      BY <1>2, PlayersFinite
    <3>6. Cardinality(PlayersOf(t, r)) <= MAX_PLAYERS
      BY DEF SeatsFine
    <3> QED
      BY <3>4, <3>5, <3>6, RoomForTwo
  <2> QED
    BY <2>1, <2>2
<1> QED
  BY <1>3, <1>4, <1>5 DEF Shrinks

\* create's room has one player; its user's old room, if any, loses one.
LEMMA InsertSeats ==
  ASSUME NEW t \in Databases, RowsOK(t), SeatsFine(t), NEW u \in Users, NEW r \in FreshIds(t)
  PROVE  LET w == InsertRoom(t, u, r)
         IN  /\ SeatsFine(w)
             /\ \A s \in RoomIds \ {r} : PlayersOf(w, s) \subseteq PlayersOf(t, s)
<1> DEFINE w == InsertRoom(t, u, r)
<1>1. /\ r \in RoomIds /\ r \notin t.live /\ t.live \subseteq RoomIds
      /\ t.member \in [Users -> RoomIds \cup {None}]
      /\ t.status \in [RoomIds -> Statuses]
  BY DEF FreshIds, Databases
<1>2. /\ w.live = t.live \cup {r}
      /\ w.member = [t.member EXCEPT ![u] = r]
      /\ w.status = [t.status EXCEPT ![r] = "Waiting"]
  BY <1>1 DEF InsertRoom, Databases
<1> HIDE DEF w
<1>3. \A s \in RoomIds \ {r} : PlayersOf(w, s) \subseteq PlayersOf(t, s)
  BY <1>1, <1>2 DEF PlayersOf
<1>4. PlayersOf(w, r) = {u}
  BY <1>1, <1>2, NoneIsNoRoom DEF PlayersOf, RowsOK, ForeignKeyOK
<1>5. SeatsFine(w)
  <2> SUFFICES ASSUME NEW s \in w.live
      PROVE /\ Cardinality(PlayersOf(w, s)) <= MAX_PLAYERS
            /\ w.status[s] = "Waiting" => Cardinality(PlayersOf(w, s)) < MAX_PLAYERS
    BY DEF SeatsFine
  <2>1. CASE s = r
    <3>1. Cardinality(PlayersOf(w, s)) = 1
      BY <2>1, <1>4, FS_Singleton
    <3> QED
      BY <3>1, RoomForTwo
  <2>2. CASE s # r
    <3>1. s \in t.live /\ w.status[s] = t.status[s]
      BY <2>2, <1>1, <1>2
    <3>2. /\ Cardinality(PlayersOf(w, s)) \in Nat
          /\ Cardinality(PlayersOf(w, s)) <= Cardinality(PlayersOf(t, s))
          /\ Cardinality(PlayersOf(t, s)) \in Nat
      BY <2>2, <3>1, <1>1, <1>3, SmallerSet, PlayersFinite
    <3> QED
      BY <3>1, <3>2, RoomForTwo DEF SeatsFine
  <2> QED
    BY <2>1, <2>2
<1> QED
  BY <1>3, <1>5 DEF w

\* join's update, with a count that may be too high but not too low.
LEMMA AddSeats ==
  ASSUME NEW t \in Databases, SeatsFine(t), NEW u \in Users, NEW r \in t.live,
         NEW seen \in SUBSET Users, PlayersOf(t, r) \subseteq seen,
         Cardinality(seen) < MAX_PLAYERS
  PROVE  LET w == AddPlayer(t, u, r, seen)
         IN  /\ SeatsFine(w)
             /\ \A s \in RoomIds \ {r} : PlayersOf(w, s) \subseteq PlayersOf(t, s)
<1> DEFINE w == AddPlayer(t, u, r, seen)
<1>1. /\ r \in RoomIds /\ t.live \subseteq RoomIds
      /\ t.member \in [Users -> RoomIds \cup {None}]
      /\ t.status \in [RoomIds -> Statuses]
  BY DEF Databases
<1>2. /\ w.live = t.live
      /\ w.member = [t.member EXCEPT ![u] = r]
      /\ w.status = [t.status EXCEPT ![r] = StatusAfterJoin(t.status[r], seen)]
  BY <1>1 DEF AddPlayer, Databases
<1> HIDE DEF w
<1>3. \A s \in RoomIds \ {r} : PlayersOf(w, s) \subseteq PlayersOf(t, s)
  BY <1>1, <1>2 DEF PlayersOf
<1>4. PlayersOf(w, r) \subseteq seen \cup {u}
  BY <1>1, <1>2 DEF PlayersOf
<1>5. /\ IsFiniteSet(seen) /\ Cardinality(seen) \in Nat
      /\ IsFiniteSet(seen \cup {u}) /\ Cardinality(seen \cup {u}) <= Cardinality(seen) + 1
  <2>1. IsFiniteSet(seen)
    BY UsersFinite, FS_Subset
  <2>2. Cardinality(seen) \in Nat
    BY <2>1, FS_CardinalityType
  <2>3. /\ IsFiniteSet(seen \cup {u})
        /\ Cardinality(seen \cup {u}) =
             IF u \in seen THEN Cardinality(seen) ELSE Cardinality(seen) + 1
    BY <2>1, FS_AddElement
  <2> QED
    BY <2>1, <2>2, <2>3
<1>6. /\ Cardinality(PlayersOf(w, r)) <= Cardinality(seen) + 1
      /\ Cardinality(PlayersOf(w, r)) \in Nat
  <2>1. /\ IsFiniteSet(PlayersOf(w, r))
        /\ Cardinality(PlayersOf(w, r)) <= Cardinality(seen \cup {u})
    BY <1>4, <1>5, FS_Subset
  <2> QED
    BY <2>1, <1>5, FS_CardinalityType
<1>7. SeatsFine(w)
  <2> SUFFICES ASSUME NEW s \in w.live
      PROVE /\ Cardinality(PlayersOf(w, s)) <= MAX_PLAYERS
            /\ w.status[s] = "Waiting" => Cardinality(PlayersOf(w, s)) < MAX_PLAYERS
    BY DEF SeatsFine
  <2>1. CASE s = r
    <3>1. w.status[s] = "Waiting" => ~(Cardinality(seen) + 1 >= MAX_PLAYERS)
      BY <2>1, <1>1, <1>2 DEF StatusAfterJoin
    <3>2. Cardinality(PlayersOf(w, s)) <= Cardinality(seen) + 1
          /\ Cardinality(PlayersOf(w, s)) \in Nat
      BY <2>1, <1>6
    <3> QED
      BY <3>1, <3>2, <1>5, RoomForTwo
  <2>2. CASE s # r
    <3>1. s \in t.live /\ w.status[s] = t.status[s]
      BY <2>2, <1>1, <1>2
    <3>2. /\ Cardinality(PlayersOf(w, s)) \in Nat
          /\ Cardinality(PlayersOf(w, s)) <= Cardinality(PlayersOf(t, s))
          /\ Cardinality(PlayersOf(t, s)) \in Nat
      BY <2>2, <3>1, <1>1, <1>3, SmallerSet, PlayersFinite
    <3> QED
      BY <3>1, <3>2, RoomForTwo DEF SeatsFine
  <2> QED
    BY <2>1, <2>2
<1> QED
  BY <1>3, <1>7 DEF w

-----------------------------------------------------------------------------
\* The calls, step by step.

LEMMA SeatInit == Init => SeatInv
<1> SUFFICES ASSUME Init PROVE SeatInv
  OBVIOUS
<1>1. SeatsFine(db)
  BY DEF Init, EmptyDatabase, SeatsFine
<1>2. \A c \in Calls : SeatOK(c) /\ Alone(c)
  BY DEF Init, Idle, SeatOK, WillLeave, JoinSteps, Alone, Joining
<1> QED
  BY <1>1, <1>2 DEF SeatInv

\* The rows move for the user of call c, and no other call's room is joined.
LEMMA OthersKeepSeats ==
  ASSUME IInv, SeatInv, NEW c \in Calls, NEW record,
         call' = [call EXCEPT ![c] = record],
         NEW u, RowsStep(db, db', u),
         (u = call[c].user /\ call[c].at # "idle") \/ UNCHANGED db,
         \A d \in Calls \ {c} : call[d].at \in JoinSteps =>
           PlayersOf(db', call[d].room) \subseteq PlayersOf(db, call[d].room)
  PROVE  \A d \in Calls \ {c} : SeatOK(d)'
<1> SUFFICES ASSUME NEW d \in Calls, d # c PROVE SeatOK(d)'
  OBVIOUS
<1>1. call'[d] = call[d]
  BY DEF IInv, TypeOK
<1>2. SeatOK(d) /\ Alone(c) /\ CallOK(d)
  BY DEF SeatInv, IInv
<1>3. call[d].at \in JoinSteps =>
        PlayersOf(db', call[d].room) \subseteq call[d].players
  BY <1>2 DEF SeatOK
<1>4. WillLeave(call[d]) => call[d].old \in Known'
  BY <1>2 DEF SeatOK, RowsStep, Known
<1>5. ASSUME WillLeave(call[d]), call[d].old \in db'.live
      PROVE  db'.member[call[d].user] = call[d].old
  <2>1. call[d].old \in db.live
    BY <1>2, <1>5 DEF SeatOK, RowsStep, Known
  <2>2. db.member[call[d].user] = call[d].old
    BY <2>1, <1>2, <1>5 DEF SeatOK
  <2>3. call[d].at # "idle" /\ call[d].user \in Users
    BY <1>2, <1>5 DEF WillLeave, CallOK
  <2>4. CASE UNCHANGED db
    BY <2>2, <2>4
  <2>5. CASE u = call[c].user /\ call[c].at # "idle"
    <3>1. call[d].user # u
      BY <2>3, <2>5, <1>2 DEF Alone
    <3> QED
      BY <3>1, <2>2, <2>3, <1>5 DEF RowsStep
  <2> QED
    BY <2>4, <2>5
<1> QED
  BY <1>1, <1>2, <1>3, <1>4, <1>5 DEF SeatOK

\* A call that goes on, or ends, keeps its user and its room to itself.
LEMMA StayAlone ==
  ASSUME IInv, SeatInv, NEW c \in Calls, NEW record,
         call' = [call EXCEPT ![c] = record],
         record = Idle \/ (record.user = call[c].user /\ call[c].at # "idle"),
         Joining(c)' => Joining(c) /\ record.room = call[c].room
  PROVE  \A d \in Calls : Alone(d)'
<1>1. \A d \in Calls : call'[d] = IF d = c THEN record ELSE call[d]
  BY DEF IInv, TypeOK
<1>2. \A d \in Calls : Alone(d)
  BY DEF SeatInv
<1>3. \A d \in Calls \ {c} : Joining(d)' <=> Joining(d)
  BY <1>1 DEF Joining
<1> QED
  BY <1>1, <1>2, <1>3 DEF Alone, Idle

\* A call that starts finds nobody else of its user, or joining its room.
LEMMA StartAlone ==
  ASSUME IInv, SeatInv, NEW c \in Calls, NEW record,
         call' = [call EXCEPT ![c] = record], call[c].at = "idle",
         \A d \in InFlight : /\ call[d].user # record.user
                             /\ ~(Joining(c)' /\ Joining(d) /\ call[d].room = record.room)
  PROVE  \A d \in Calls : Alone(d)'
<1>1. \A d \in Calls : call'[d] = IF d = c THEN record ELSE call[d]
  BY DEF IInv, TypeOK
<1>2. \A d \in Calls : Alone(d)
  BY DEF SeatInv
<1>3. \A d \in InFlight : /\ call[d].user # record.user
                          /\ ~(Joining(c)' /\ Joining(d) /\ call[d].room = record.room)
  OBVIOUS
<1>4. \A d \in Calls \ {c} : (Joining(d)' <=> Joining(d)) /\ (Joining(d) => d \in InFlight)
  BY <1>1 DEF Joining, InFlight
<1>5. \A d \in Calls \ {c} : call[d].at # "idle" => d \in InFlight
  BY DEF InFlight
<1> SUFFICES ASSUME NEW d \in Calls, NEW e \in Calls \ {d}
    PROVE /\ call'[d].at # "idle" /\ call'[e].at # "idle" =>
               call'[d].user # call'[e].user
          /\ Joining(d)' /\ Joining(e)' => call'[d].room # call'[e].room
  BY DEF Alone
<1>6. CASE d = c
  BY <1>1, <1>3, <1>4, <1>5, <1>6
<1>7. CASE e = c
  BY <1>1, <1>3, <1>4, <1>5, <1>7
<1>8. CASE d # c /\ e # c
  <2>1. call'[d] = call[d] /\ call'[e] = call[e]
    BY <1>1, <1>8
  <2>2. (Joining(d)' => Joining(d)) /\ (Joining(e)' => Joining(e))
    BY <1>4, <1>8
  <2>3. /\ call[d].at # "idle" /\ call[e].at # "idle" => call[d].user # call[e].user
        /\ Joining(d) /\ Joining(e) => call[d].room # call[e].room
    BY <1>2 DEF Alone
  <2> QED
    BY <2>1, <2>2, <2>3
<1> QED
  BY <1>6, <1>7, <1>8

LEMMA SeatsAfterCall ==
  ASSUME IInv, SeatInv, NEW c \in Calls, NEW record,
         call' = [call EXCEPT ![c] = record],
         NEW u, RowsStep(db, db', u),
         (u = call[c].user /\ call[c].at # "idle") \/ UNCHANGED db,
         \A d \in Calls \ {c} : call[d].at \in JoinSteps =>
           PlayersOf(db', call[d].room) \subseteq PlayersOf(db, call[d].room),
         SeatsFine(db'), SeatOK(c)', \A d \in Calls : Alone(d)'
  PROVE  SeatInv'
<1>1. \A d \in Calls \ {c} : SeatOK(d)'
  BY OthersKeepSeats
<1>2. SeatsFine(db)'
  BY DEF SeatsFine, PlayersOf
<1> QED
  BY <1>1, <1>2 DEF SeatInv

\* A call that reads and goes on.
LEMMA SeatsAfterRead ==
  ASSUME IInv, SeatInv, NEW c \in Calls, NEW record,
         call' = [call EXCEPT ![c] = record], UNCHANGED db,
         SeatOK(c)', \A d \in Calls : Alone(d)'
  PROVE  SeatInv'
<1>1. RowsStep(db, db', None)
  BY RowsUnchanged
<1>2. SeatsFine(db')
  BY DEF SeatInv, SeatsFine, PlayersOf
<1>3. \A d \in Calls \ {c} : call[d].at \in JoinSteps =>
        PlayersOf(db', call[d].room) \subseteq PlayersOf(db, call[d].room)
  BY DEF PlayersOf
<1> QED
  BY <1>1, <1>2, <1>3, SeatsAfterCall

\* A call that ends.
LEMMA EndedCall ==
  ASSUME IInv, SeatInv, NEW c \in Calls, call' = [call EXCEPT ![c] = Idle]
  PROVE  SeatOK(c)' /\ \A d \in Calls : Alone(d)'
<1>1. call'[c] = Idle
  BY DEF IInv, TypeOK
<1>2. ~Joining(c)'
  BY <1>1 DEF Joining, Idle
<1>3. SeatOK(c)'
  BY <1>1 DEF SeatOK, WillLeave, JoinSteps, Idle
<1> QED
  BY <1>2, <1>3, StayAlone

\* A join's room and a leave's room, when the rows only lose players.
LEMMA SeatsAfterShrink ==
  ASSUME IInv, SeatInv, NEW c \in Calls, NEW record,
         call' = [call EXCEPT ![c] = record], call[c].at # "idle",
         RowsStep(db, db', call[c].user), Shrinks(db, db'),
         SeatOK(c)', \A d \in Calls : Alone(d)'
  PROVE  SeatInv'
<1>1. SeatsFine(db')
  BY CallFacts, ShrinkSeats DEF SeatInv
<1>2. ASSUME NEW d \in Calls \ {c}, call[d].at \in JoinSteps
      PROVE  PlayersOf(db', call[d].room) \subseteq PlayersOf(db, call[d].room)
  <2>1. call[d].room \in RoomIds
    BY <1>2, CallFacts DEF CallOK
  <2> QED
    BY <2>1 DEF Shrinks
<1> QED
  BY <1>1, <1>2, SeatsAfterCall

\* leaveRoom for a call whose user still has the seat it is giving up.
LEMMA LeavingShrinks ==
  ASSUME IInv, SeatInv, NEW c \in Calls, call[c].at \in {"join.commit", "leave.commit"},
         NEW left \in AfterLeaving(c)
  PROVE  Shrinks(db, left) /\ RowsStep(db, left, call[c].user)
<1>1. call[c].user \in Users /\ call[c].left \in Snapshots /\ db \in Databases
  BY CallFacts DEF CallOK, CallRecords
<1>2. RowsStep(db, left, call[c].user)
  BY <1>1, AfterLeavingStep
<1>3. CASE call[c].old = None
  <2>1. left = db
    BY <1>3 DEF AfterLeaving
  <2>2. Shrinks(db, db)
    BY DEF Shrinks
  <2> QED
    BY <1>2, <2>1, <2>2
<1>4. CASE call[c].old # None
  <2>1. call[c].old \in db.live
        /\ left \in LeaveRoom(db, call[c].user, call[c].old, call[c].left)
    BY <1>4 DEF AfterLeaving
  <2>2. db.member[call[c].user] = call[c].old
    BY <1>4, <2>1 DEF SeatInv, SeatOK, WillLeave
  <2>3. SeatsFine(db)
    BY DEF SeatInv
  <2> QED
    BY <1>1, <1>2, <2>1, <2>2, <2>3, LeaveShrinks
<1> QED
  BY <1>2, <1>3, <1>4

-----------------------------------------------------------------------------

LEMMA SeatCreate ==
  ASSUME IInv, SeatInv, Overlap = "one join per room", NEW c \in Calls,
         (\E u \in Users : CreateFindUser(c, u)) \/ CreateInsert(c)
  PROVE  SeatInv'
<1>1. ASSUME NEW u \in Users, CreateFindUser(c, u) PROVE SeatInv'
  <2> DEFINE record == [Idle EXCEPT !.at = "create.insert", !.user = u]
  <2>1. call[c].at = "idle" /\ call' = [call EXCEPT ![c] = record] /\ UNCHANGED db
    BY <1>1 DEF CreateFindUser, Start
  <2>2. call'[c] = record
    BY <2>1 DEF IInv, TypeOK
  <2>3. record.at = "create.insert" /\ record.user = u
    BY DEF Idle
  <2>4. SeatOK(c)' /\ ~Joining(c)'
    BY <2>2, <2>3 DEF SeatOK, WillLeave, JoinSteps, Joining
  <2>5. \A d \in InFlight : call[d].user # u
    BY <1>1 DEF CreateFindUser, MayStart
  <2> HIDE DEF record
  <2>6. \A d \in Calls : Alone(d)'
    BY <2>1, <2>3, <2>4, <2>5, StartAlone
  <2> QED
    BY <2>1, <2>4, <2>6, SeatsAfterRead
<1>2. CASE CreateInsert(c)
  <2>1. PICK r \in FreshIds(db) : Commit(c, InsertRoom(db, call[c].user, r), Idle)
    BY <1>2 DEF CreateInsert
  <2>2. /\ call[c].user \in Users /\ call[c].at # "idle"
        /\ db \in Databases /\ RowsOK(db)
    BY <1>2, CallFacts DEF CreateInsert, CallOK
  <2>3. RowsStep(db, db', call[c].user)
    BY <2>1, <2>2, InsertStep DEF Commit
  <2>4. SeatsFine(db') /\ \A s \in RoomIds \ {r} : PlayersOf(db', s) \subseteq PlayersOf(db, s)
    <3>1. SeatsFine(db) /\ db' = InsertRoom(db, call[c].user, r)
      BY <2>1 DEF Commit, SeatInv
    <3> QED
      BY <2>2, <3>1, InsertSeats
  <2>5. ASSUME NEW d \in Calls \ {c}, call[d].at \in JoinSteps
        PROVE  PlayersOf(db', call[d].room) \subseteq PlayersOf(db, call[d].room)
    <3>1. call[d].room \in Known /\ call[d].room \in RoomIds
      BY <2>5, CallFacts DEF CallOK
    <3>2. call[d].room # r
      BY <3>1, <2>1 DEF FreshIds, Known
    <3> QED
      BY <2>4, <3>1, <3>2
  <2>6. call' = [call EXCEPT ![c] = Idle]
    BY <2>1 DEF Commit
  <2> QED
    BY <2>2, <2>3, <2>4, <2>5, <2>6, EndedCall, SeatsAfterCall
<1> QED
  BY <1>1, <1>2

LEMMA SeatJoin ==
  ASSUME IInv, SeatInv, Overlap = "one join per room", NEW c \in Calls,
         \/ \E u \in Users, r \in RoomIds : JoinFindRoom(c, u, r)
         \/ JoinFindUser(c) \/ JoinReadOld(c) \/ JoinCommit(c)
  PROVE  SeatInv'
<1>1. ASSUME NEW u \in Users, NEW r \in RoomIds, JoinFindRoom(c, u, r) PROVE SeatInv'
  <2> DEFINE record == [Idle EXCEPT !.at = "join.findUser", !.user = u, !.room = r,
                                    !.players = PlayersOf(db, r)]
  <2>1. call[c].at = "idle" /\ call' = [call EXCEPT ![c] = record] /\ UNCHANGED db
    BY <1>1 DEF JoinFindRoom, Start
  <2>2. call'[c] = record
    BY <2>1 DEF IInv, TypeOK
  <2>3. /\ record.at = "join.findUser" /\ record.user = u /\ record.room = r
        /\ record.players = PlayersOf(db, r)
    BY DEF Idle
  <2>4. Cardinality(PlayersOf(db, r)) < MAX_PLAYERS
    BY <1>1, CallFacts
       DEF JoinFindRoom, JoinAllowed, Databases, Statuses, SeatInv, SeatsFine
  <2>5. PlayersOf(db', r) = PlayersOf(db, r)
    BY <2>1 DEF PlayersOf
  <2>6. SeatOK(c)'
    BY <2>2, <2>3, <2>4, <2>5 DEF SeatOK, WillLeave
  <2>7. \A d \in InFlight : call[d].user # u /\ ~(Joining(d) /\ call[d].room = r)
    BY <1>1 DEF JoinFindRoom, MayStart
  <2> HIDE DEF record
  <2>8. \A d \in Calls : Alone(d)'
    BY <2>1, <2>3, <2>7, StartAlone
  <2> QED
    BY <2>1, <2>6, <2>8, SeatsAfterRead
<1>2. CASE JoinFindUser(c)
  <2> DEFINE old == db.member[call[c].user]
             record == [call[c] EXCEPT
                          !.at = IF old = None THEN "join.commit" ELSE "join.readOld",
                          !.old = old]
  <2>1. /\ call[c].at = "join.findUser" /\ call' = [call EXCEPT ![c] = record]
        /\ UNCHANGED db
    BY <1>2 DEF JoinFindUser, Advance
  <2>2. call[c] \in CallRecords /\ call[c].user \in Users
    BY <2>1, CallFacts DEF CallOK
  <2>3. old \in db.live \cup {None}
    BY <2>2, CallFacts DEF RowsOK, ForeignKeyOK
  <2>4. call'[c] = record
    BY <2>1 DEF IInv, TypeOK
  <2>5. /\ record.at = IF old = None THEN "join.commit" ELSE "join.readOld"
        /\ record.old = old /\ record.user = call[c].user
        /\ record.room = call[c].room /\ record.players = call[c].players
    BY <2>2 DEF CallRecords
  <2>6. PlayersOf(db', call[c].room) = PlayersOf(db, call[c].room) /\ Known' = Known
    BY <2>1 DEF PlayersOf, Known
  <2>7. SeatOK(c)
    BY DEF SeatInv
  <2>8. SeatOK(c)'
    <3>1. /\ PlayersOf(db, call[c].room) \subseteq call[c].players
          /\ Cardinality(call[c].players) < MAX_PLAYERS
      BY <2>1, <2>7 DEF SeatOK, JoinSteps
    <3>2. old # None => old \in Known
      BY <2>3 DEF Known
    <3> HIDE DEF record
    <3>3. /\ call'[c].at = IF old = None THEN "join.commit" ELSE "join.readOld"
          /\ call'[c].old = old /\ call'[c].user = call[c].user
          /\ call'[c].room = call[c].room /\ call'[c].players = call[c].players
      BY <2>4, <2>5
    <3>4. /\ PlayersOf(db', call'[c].room) \subseteq call'[c].players
          /\ Cardinality(call'[c].players) < MAX_PLAYERS
      BY <2>6, <3>1, <3>3
    <3>5. WillLeave(call'[c]) => call'[c].old \in Known'
      BY <2>6, <3>2, <3>3 DEF WillLeave
    <3>6. db'.member[call'[c].user] = call'[c].old
      BY <2>1, <3>3
    <3> QED
      BY <3>4, <3>5, <3>6 DEF SeatOK
  <2> HIDE DEF record
  <2>9. \A d \in Calls : Alone(d)'
    BY <2>1, <2>5, StayAlone DEF Joining
  <2> QED
    BY <2>1, <2>8, <2>9, SeatsAfterRead
<1>3. CASE JoinReadOld(c)
  <2> DEFINE old == call[c].old
             record == IF old \in db.live
                         THEN [call[c] EXCEPT !.at = "join.commit",
                                              !.left = RoomSnapshot(db, old)]
                         ELSE [call[c] EXCEPT !.at = "join.commit", !.old = None]
  <2>1. /\ call[c].at = "join.readOld" /\ call' = [call EXCEPT ![c] = record]
        /\ UNCHANGED db
    BY <1>3 DEF JoinReadOld, Advance
  <2>2. call[c] \in CallRecords
    BY CallFacts
  <2>3. call'[c] = record
    BY <2>1 DEF IInv, TypeOK
  <2>4. /\ record.at = "join.commit" /\ record.old \in {old, None}
        /\ record.user = call[c].user
        /\ record.room = call[c].room /\ record.players = call[c].players
    BY <2>2 DEF CallRecords
  <2>5. PlayersOf(db', call[c].room) = PlayersOf(db, call[c].room) /\ Known' = Known
    BY <2>1 DEF PlayersOf, Known
  <2>6. SeatOK(c)
    BY DEF SeatInv
  <2> HIDE DEF record
  <2>7. SeatOK(c)'
    <3>1. /\ PlayersOf(db, call[c].room) \subseteq call[c].players
          /\ Cardinality(call[c].players) < MAX_PLAYERS
          /\ old \in Known
          /\ old \in db.live => db.member[call[c].user] = old
      BY <2>1, <2>6 DEF SeatOK, JoinSteps, WillLeave
    <3>2. /\ call'[c].at = "join.commit" /\ call'[c].old \in {old, None}
          /\ call'[c].user = call[c].user
          /\ call'[c].room = call[c].room /\ call'[c].players = call[c].players
      BY <2>3, <2>4
    <3>3. /\ PlayersOf(db', call'[c].room) \subseteq call'[c].players
          /\ Cardinality(call'[c].players) < MAX_PLAYERS
      BY <2>5, <3>1, <3>2
    <3>4. WillLeave(call'[c]) => call'[c].old = old
      BY <3>2 DEF WillLeave
    <3>5. WillLeave(call'[c]) => call'[c].old \in Known'
      BY <2>5, <3>1, <3>4
    <3>6. WillLeave(call'[c]) /\ call'[c].old \in db'.live =>
            db'.member[call'[c].user] = call'[c].old
      BY <2>1, <3>1, <3>2, <3>4
    <3> QED
      BY <3>3, <3>5, <3>6 DEF SeatOK
  <2>8. \A d \in Calls : Alone(d)'
    BY <2>1, <2>4, StayAlone DEF Joining
  <2> QED
    BY <2>1, <2>7, <2>8, SeatsAfterRead
<1>4. CASE JoinCommit(c)
  <2> DEFINE u == call[c].user
             r == call[c].room
             seen == call[c].players
  <2>1. PICK left \in AfterLeaving(c) :
          r \in left.live /\ Commit(c, AddPlayer(left, u, r, seen), Idle)
    BY <1>4 DEF JoinCommit
  <2>2. /\ call[c].at = "join.commit" /\ u \in Users /\ r \in RoomIds
        /\ seen \in SUBSET Users /\ db \in Databases /\ RowsOK(db)
    BY <1>4, CallFacts DEF JoinCommit, CallOK, CallRecords, JoinSteps
  <2>3. Shrinks(db, left) /\ RowsStep(db, left, u)
    BY <2>1, <2>2, LeavingShrinks
  <2>4. left \in Databases /\ RowsOK(left)
    BY <2>3 DEF RowsStep, RowsOK
  <2>5. SeatsFine(left)
    BY <2>2, <2>3, ShrinkSeats DEF SeatInv
  <2>6. PlayersOf(left, r) \subseteq seen /\ Cardinality(seen) < MAX_PLAYERS
    <3>1. PlayersOf(db, r) \subseteq seen /\ Cardinality(seen) < MAX_PLAYERS
      BY <2>2 DEF SeatInv, SeatOK, JoinSteps
    <3> QED
      BY <2>2, <2>3, <3>1 DEF Shrinks
  <2>7. db' = AddPlayer(left, u, r, seen) /\ call' = [call EXCEPT ![c] = Idle]
    BY <2>1 DEF Commit
  <2>8. SeatsFine(db') /\ \A s \in RoomIds \ {r} : PlayersOf(db', s) \subseteq PlayersOf(left, s)
    BY <2>1, <2>2, <2>4, <2>5, <2>6, <2>7, AddSeats
  <2>9. RowsStep(db, db', u)
    <3>1. RowsStep(left, db', u)
      BY <2>1, <2>2, <2>4, <2>7, AddStep
    <3> QED
      BY <2>2, <2>3, <3>1, StepsCompose
  <2>10. ASSUME NEW d \in Calls \ {c}, call[d].at \in JoinSteps
         PROVE  PlayersOf(db', call[d].room) \subseteq PlayersOf(db, call[d].room)
    <3>1. call[d].room \in RoomIds
      BY <2>10, CallFacts DEF CallOK
    <3>2. Joining(c) /\ Joining(d) /\ Alone(c)
      BY <2>2, <2>10 DEF Joining, JoinSteps, SeatInv
    <3>3. call[d].room # r
      BY <3>2 DEF Alone
    <3> QED
      BY <2>3, <2>8, <3>1, <3>3 DEF Shrinks
  <2> QED
    BY <2>2, <2>7, <2>8, <2>9, <2>10, EndedCall, SeatsAfterCall
<1> QED
  BY <1>1, <1>2, <1>3, <1>4

LEMMA SeatLeave ==
  ASSUME IInv, SeatInv, Overlap = "one join per room", NEW c \in Calls,
         \/ \E u \in Users : LeaveFindUser(c, u)
         \/ LeaveReadRoom(c) \/ LeaveCommit(c) \/ LeaveEmit(c)
  PROVE  SeatInv'
<1>1. ASSUME NEW u \in Users, LeaveFindUser(c, u) PROVE SeatInv'
  <2> DEFINE record == [Idle EXCEPT !.at = "leave.readRoom", !.user = u,
                                    !.old = db.member[u]]
  <2>1. /\ call[c].at = "idle" /\ call' = [call EXCEPT ![c] = record] /\ UNCHANGED db
    BY <1>1 DEF LeaveFindUser, Start
  <2>2. call'[c] = record
    BY <2>1 DEF IInv, TypeOK
  <2>3. record.at = "leave.readRoom" /\ record.user = u /\ record.old = db.member[u]
    BY DEF Idle
  <2>4. db.member[u] \in Known /\ Known' = Known
    BY <1>1, <2>1, CallFacts DEF LeaveFindUser, RowsOK, ForeignKeyOK, Known
  <2>5. SeatOK(c)' /\ ~Joining(c)'
    <3> HIDE DEF record
    <3>1. call'[c].at \notin JoinSteps /\ ~Joining(c)'
      BY <2>2, <2>3 DEF JoinSteps, Joining
    <3>2. call'[c].old \in Known'
      BY <2>2, <2>3, <2>4
    <3>3. db'.member[call'[c].user] = call'[c].old
      BY <2>1, <2>2, <2>3
    <3> QED
      BY <3>1, <3>2, <3>3 DEF SeatOK
  <2>6. \A d \in InFlight : call[d].user # u
    BY <1>1 DEF LeaveFindUser, MayStart
  <2> HIDE DEF record
  <2>7. \A d \in Calls : Alone(d)'
    BY <2>1, <2>3, <2>5, <2>6, StartAlone
  <2> QED
    BY <2>1, <2>5, <2>7, SeatsAfterRead
<1>2. CASE LeaveReadRoom(c)
  <2> DEFINE old == call[c].old
             record == IF old \in db.live
                         THEN [call[c] EXCEPT !.at = "leave.commit",
                                              !.left = RoomSnapshot(db, old)]
                         ELSE [call[c] EXCEPT !.at = "leave.emit"]
  <2>1. /\ call[c].at = "leave.readRoom" /\ call' = [call EXCEPT ![c] = record]
        /\ UNCHANGED db
    BY <1>2 DEF LeaveReadRoom, Advance
  <2>2. call[c] \in CallRecords
    BY CallFacts
  <2>3. call'[c] = record
    BY <2>1 DEF IInv, TypeOK
  <2>4. record.at \in {"leave.commit", "leave.emit"} /\ record.old = old
        /\ record.user = call[c].user
    BY <2>2 DEF CallRecords
  <2> HIDE DEF record
  <2>5. old \in Known /\ (old \in db.live => db.member[call[c].user] = old)
    BY <2>1 DEF SeatInv, SeatOK, WillLeave
  <2>6. /\ call'[c].at \in {"leave.commit", "leave.emit"} /\ call'[c].old = old
        /\ call'[c].user = call[c].user /\ Known' = Known
    BY <2>1, <2>3, <2>4 DEF Known
  <2>7. SeatOK(c)' /\ ~Joining(c)'
    <3>1. call'[c].at \notin JoinSteps /\ ~Joining(c)'
      BY <2>6 DEF JoinSteps, Joining
    <3>2. call'[c].old \in Known'
      BY <2>5, <2>6
    <3>3. call'[c].old \in db'.live => db'.member[call'[c].user] = call'[c].old
      BY <2>1, <2>5, <2>6
    <3> QED
      BY <3>1, <3>2, <3>3 DEF SeatOK
  <2>8. \A d \in Calls : Alone(d)'
    BY <2>1, <2>4, <2>7, StayAlone
  <2> QED
    BY <2>1, <2>7, <2>8, SeatsAfterRead
<1>3. CASE LeaveCommit(c)
  <2> DEFINE record == AfterLeave(call[c])
  <2>1. PICK left \in AfterLeaving(c) : Commit(c, left, record)
    BY <1>3 DEF LeaveCommit
  <2>2. call[c].at = "leave.commit" /\ call[c] \in CallRecords
    BY <1>3, CallFacts DEF LeaveCommit
  <2>3. call' = [call EXCEPT ![c] = record] /\ db' = left
    BY <2>1 DEF Commit
  <2>4. Shrinks(db, db') /\ RowsStep(db, db', call[c].user)
    BY <2>1, <2>2, <2>3, LeavingShrinks
  <2>5. \/ record = Idle
        \/ record.at = "leave.emit" /\ record.user = call[c].user
    BY <2>2 DEF AfterLeave, CallRecords
  <2>6. call'[c] = record
    BY <2>3 DEF IInv, TypeOK
  <2> HIDE DEF record
  <2>7. call'[c].at \in {"idle", "leave.emit"}
    <3>1. Idle.at = "idle"
      BY DEF Idle
    <3> QED
      BY <3>1, <2>5, <2>6
  <2>8. SeatOK(c)' /\ ~Joining(c)'
    BY <2>7 DEF SeatOK, WillLeave, JoinSteps, Joining
  <2>9. \A d \in Calls : Alone(d)'
    BY <2>2, <2>3, <2>5, <2>8, StayAlone
  <2> QED
    BY <2>2, <2>3, <2>4, <2>8, <2>9, SeatsAfterShrink
<1>4. CASE LeaveEmit(c)
  <2>1. call' = [call EXCEPT ![c] = Idle] /\ UNCHANGED db
    BY <1>4 DEF LeaveEmit
  <2> QED
    BY <2>1, EndedCall, SeatsAfterRead
<1> QED
  BY <1>1, <1>2, <1>3, <1>4

LEMMA SeatUpdate ==
  ASSUME IInv, SeatInv, Overlap = "one join per room", NEW c \in Calls,
         (\E u \in Users, r \in RoomIds : UpdateFindRoom(c, u, r)) \/ UpdateCommit(c)
  PROVE  SeatInv'
<1>1. ASSUME NEW u \in Users, NEW r \in RoomIds, UpdateFindRoom(c, u, r) PROVE SeatInv'
  <2> DEFINE record == [Idle EXCEPT !.at = "update.commit", !.user = u, !.room = r]
  <2>1. call[c].at = "idle" /\ call' = [call EXCEPT ![c] = record] /\ UNCHANGED db
    BY <1>1 DEF UpdateFindRoom, Start
  <2>2. call'[c] = record
    BY <2>1 DEF IInv, TypeOK
  <2>3. record.at = "update.commit" /\ record.user = u
    BY DEF Idle
  <2>4. SeatOK(c)' /\ ~Joining(c)'
    BY <2>2, <2>3 DEF SeatOK, WillLeave, JoinSteps, Joining
  <2>5. \A d \in InFlight : call[d].user # u
    BY <1>1 DEF UpdateFindRoom, MayStart
  <2> HIDE DEF record
  <2>6. \A d \in Calls : Alone(d)'
    BY <2>1, <2>3, <2>4, <2>5, StartAlone
  <2> QED
    BY <2>1, <2>4, <2>6, SeatsAfterRead
<1>2. CASE UpdateCommit(c)
  <2>1. /\ call[c].at = "update.commit" /\ call[c].room \in RoomIds /\ db \in Databases
        /\ RowsOK(db)
    BY <1>2, CallFacts DEF UpdateCommit, Databases
  <2>2. db' = Rename(db, call[c].room) /\ call' = [call EXCEPT ![c] = Idle]
    BY <1>2 DEF UpdateCommit, Commit
  <2>3. RowsStep(db, db', call[c].user)
    BY <2>1, <2>2, RenameStep
  <2>4. Shrinks(db, db')
    BY <2>1, <2>2 DEF Rename, Databases, Shrinks, PlayersOf
  <2> QED
    BY <2>1, <2>2, <2>3, <2>4, EndedCall, SeatsAfterShrink
<1> QED
  BY <1>1, <1>2

LEMMA SeatNext ==
  ASSUME IInv, SeatInv, Overlap = "one join per room", [Next]_vars
  PROVE  SeatInv'
<1>1. ASSUME NEW c \in Calls, StartCall(c) PROVE SeatInv'
  BY <1>1, SeatCreate, SeatJoin, SeatLeave, SeatUpdate DEF StartCall
<1>2. ASSUME NEW c \in Calls, Continue(c) PROVE SeatInv'
  <2>1. CASE Abort(c)
    <3>1. call' = [call EXCEPT ![c] = Idle] /\ UNCHANGED db
      BY <2>1 DEF Abort, Advance
    <3> QED
      BY <3>1, EndedCall, SeatsAfterRead
  <2> QED
    BY <1>2, <2>1, SeatCreate, SeatJoin, SeatLeave, SeatUpdate DEF Continue
<1>3. CASE Crash
  <2>1. call' = [c \in Calls |-> Idle] /\ UNCHANGED db
    BY <1>3 DEF Crash
  <2>2. SeatsFine(db)'
    BY <2>1 DEF SeatInv, SeatsFine, PlayersOf
  <2>3. \A c \in Calls : SeatOK(c)' /\ Alone(c)'
    BY <2>1 DEF SeatOK, WillLeave, JoinSteps, Alone, Joining, Idle
  <2> QED
    BY <2>2, <2>3 DEF SeatInv
<1>4. CASE UNCHANGED vars
  <2>1. SeatsFine(db)'
    BY <1>4 DEF vars, SeatInv, SeatsFine, PlayersOf
  <2>2. \A c \in Calls : SeatOK(c)' /\ Alone(c)'
    BY <1>4 DEF vars, SeatInv, SeatOK, Alone, Joining, PlayersOf, Known
  <2> QED
    BY <2>1, <2>2 DEF SeatInv
<1>5. CASE IdsUsedUp
  BY <1>4, <1>5 DEF IdsUsedUp
<1> QED
  BY <1>1, <1>2, <1>3, <1>4, <1>5 DEF Next

-----------------------------------------------------------------------------

\* When a room is joined by one call at a time and a user makes one call at a
\* time, a room never has more players than seats, whatever leaves, creates,
\* updates, rollbacks and crashes come between the join's reads and its commit.
THEOREM SeatsNeverOversold ==
  Overlap = "one join per room" => (Spec => []SeatsNotOversold)
<1> SUFFICES ASSUME Overlap = "one join per room" PROVE Spec => []SeatsNotOversold
  OBVIOUS
<1>1. Init => IInv /\ SeatInv
  BY InitOK, SeatInit
<1>2. IInv /\ SeatInv /\ [Next]_vars => (IInv /\ SeatInv)'
  BY NextOK, SeatNext
<1>3. SeatInv => SeatsNotOversold
  BY DEF SeatInv, SeatsFine, SeatsNotOversold
<1> QED
  BY <1>1, <1>2, <1>3, PTL DEF Spec

\* Under the same discipline a room that shows Waiting has a free seat, so the
\* status check of join is enough to keep a third player out.
THEOREM WaitingAlwaysHasSeat ==
  Overlap = "one join per room" => (Spec => []WaitingHasSeat)
<1> SUFFICES ASSUME Overlap = "one join per room" PROVE Spec => []WaitingHasSeat
  OBVIOUS
<1>1. Init => IInv /\ SeatInv
  BY InitOK, SeatInit
<1>2. IInv /\ SeatInv /\ [Next]_vars => (IInv /\ SeatInv)'
  BY NextOK, SeatNext
<1>3. SeatInv => WaitingHasSeat
  BY DEF SeatInv, SeatsFine, WaitingHasSeat
<1> QED
  BY <1>1, <1>2, <1>3, PTL DEF Spec

-----------------------------------------------------------------------------
\* Calls that share neither a user nor a room: what a call has read stays true.

ConcernsOf(k) == {k.room, k.old, db.member[k.user]} \ {None}

Apart ==
  \A c, d \in InFlight :
    c # d => /\ call[c].user # call[d].user
             /\ ConcernsOf(call[c]) \cap ConcernsOf(call[d]) = {}

Named(k) == k.room \in Known \cup {None} /\ k.old \in Known \cup {None}

\* What each call has read is what it would read now.
UpToDate(k) ==
  /\ k.at = "create.insert" => db.member[k.user] = None
  /\ k.at \in JoinSteps => JoinAllowed(k.user, k.room) /\ k.players = PlayersOf(db, k.room)
  /\ k.at \in {"join.readOld", "join.commit", "leave.readRoom", "leave.commit"} =>
       k.old = db.member[k.user]
  /\ k.at \in {"join.readOld", "leave.readRoom", "leave.commit"} => k.old # None
  /\ k.at \in {"join.commit", "leave.commit"} /\ k.old # None => k.left = RoomSnapshot(db, k.old)
  /\ k.at = "update.commit" => k.room \in db.live /\ db.owner[k.room] = k.user

DInv ==
  /\ IInv
  /\ Apart
  /\ \A c \in InFlight : UpToDate(call[c]) /\ Named(call[c])

\* The write of a call of user u touches no room but those of T, and only moves users in
\* or out of these; u may have been nowhere.
Touches(s, t, u, T) ==
  /\ s.live \cup s.dead \subseteq t.live \cup t.dead
  /\ \A x \in RoomIds \ T :
       /\ x \in t.live <=> x \in s.live
       /\ t.owner[x] = s.owner[x] /\ t.status[x] = s.status[x]
  /\ \A v \in Users :
       \/ t.member[v] = s.member[v]
       \/ /\ s.member[v] \in T \cup {None} /\ t.member[v] \in T \cup {None}
          /\ v # u => t.member[v] = None

LEMMA InsertTouches ==
  ASSUME NEW t \in Databases, NEW u \in Users, NEW r \in FreshIds(t), t.member[u] = None
  PROVE  Touches(t, InsertRoom(t, u, r), u, {r})
<1>1. r \in RoomIds
  BY DEF FreshIds
<1> DEFINE status == [t.status EXCEPT ![r] = "Waiting"]
           owner  == [t.owner EXCEPT ![r] = u]
           name   == [t.name EXCEPT ![r] = "given"]
           member == [t.member EXCEPT ![u] = r]
           new == InsertRoom(t, u, r)
<1>2. new = [t EXCEPT !.live = t.live \cup {r}, !.status = status,
                      !.owner = owner, !.name = name, !.member = member]
  BY DEF InsertRoom, Databases
<1>3. /\ \A x \in RoomIds \ {r} : owner[x] = t.owner[x] /\ status[x] = t.status[x]
      /\ \A v \in Users : member[v] = IF v = u THEN r ELSE t.member[v]
  BY <1>1 DEF Databases
<1> HIDE DEF status, owner, name, member, new
<1>4. /\ new.live = t.live \cup {r} /\ new.dead = t.dead
      /\ new.status = status /\ new.owner = owner /\ new.member = member
  BY <1>2 DEF Databases
<1>5. Touches(t, new, u, {r})
  BY <1>3, <1>4 DEF Touches
<1> QED
  BY <1>5 DEF new

LEMMA AddTouches ==
  ASSUME NEW t \in Databases, NEW u \in Users, NEW r \in RoomIds, t.member[u] = None, NEW seen
  PROVE  Touches(t, AddPlayer(t, u, r, seen), u, {r})
<1> DEFINE status == [t.status EXCEPT ![r] = StatusAfterJoin(t.status[r], seen)]
           member == [t.member EXCEPT ![u] = r]
           new == AddPlayer(t, u, r, seen)
<1>1. new = [t EXCEPT !.status = status, !.member = member]
  BY DEF AddPlayer, Databases
<1>2. /\ \A x \in RoomIds \ {r} : status[x] = t.status[x]
      /\ \A v \in Users : member[v] = IF v = u THEN r ELSE t.member[v]
  BY DEF Databases
<1> HIDE DEF status, member, new
<1>3. /\ new.live = t.live /\ new.dead = t.dead /\ new.owner = t.owner
      /\ new.status = status /\ new.member = member
  BY <1>1 DEF Databases
<1>4. Touches(t, new, u, {r})
  BY <1>2, <1>3 DEF Touches
<1> QED
  BY <1>4 DEF new

LEMMA LeaveTouches ==
  ASSUME NEW t \in Databases, NEW u \in Users, NEW r \in t.live, NEW seen,
         NEW after \in LeaveRoom(t, u, r, seen), t.member[u] \in {r, None}
  PROVE  Touches(t, after, u, {r})
<1>1. /\ r \in RoomIds /\ t.member \in [Users -> RoomIds \cup {None}]
      /\ t.owner = [x \in RoomIds |-> t.owner[x]] /\ t.status = [x \in RoomIds |-> t.status[x]]
  BY DEF Databases
<1> DEFINE status == [t.status EXCEPT ![r] = "Waiting"]
<1>2. \A x \in RoomIds \ {r} : status[x] = t.status[x]
  BY <1>1
<1>3. CASE Empties(u, seen)
  <2> DEFINE owner  == [t.owner EXCEPT ![r] = None]
             name   == [t.name EXCEPT ![r] = "given"]
             member == UnseatAll(t.member, r)
  <2>1. after = [t EXCEPT !.live = t.live \ {r}, !.dead = t.dead \cup {r}, !.status = status,
                          !.owner = owner, !.name = name, !.member = member]
    BY <1>3 DEF LeaveRoom, DeleteRoom, Databases
  <2>2. /\ \A x \in RoomIds \ {r} : owner[x] = t.owner[x]
        /\ \A v \in Users : member[v] = IF t.member[v] = r THEN None ELSE t.member[v]
    BY <1>1 DEF UnseatAll
  <2> HIDE DEF status, owner, name, member
  <2>3. /\ after.live = t.live \ {r} /\ after.dead = t.dead \cup {r}
        /\ after.status = status /\ after.owner = owner /\ after.member = member
    BY <2>1 DEF Databases
  <2> QED
    BY <1>2, <2>2, <2>3 DEF Touches
<1>4. CASE ~Empties(u, seen)
  <2>1. PICK o : after = RemovePlayer(t, u, r, o)
    BY <1>4 DEF LeaveRoom
  <2> DEFINE owner  == [t.owner EXCEPT ![r] = o]
             member == [t.member EXCEPT ![u] = IF t.member[u] = r THEN None ELSE t.member[u]]
  <2>2. after = [t EXCEPT !.status = status, !.owner = owner, !.member = member]
    BY <2>1 DEF RemovePlayer, Databases
  <2>3. /\ \A x \in RoomIds \ {r} : owner[x] = t.owner[x]
        /\ \A v \in Users : member[v] = IF v = u /\ t.member[v] = r THEN None ELSE t.member[v]
    BY <1>1
  <2> HIDE DEF status, owner, member
  <2>4. /\ after.live = t.live /\ after.dead = t.dead
        /\ after.status = status /\ after.owner = owner /\ after.member = member
    BY <2>2 DEF Databases
  <2> QED
    BY <1>2, <2>3, <2>4 DEF Touches
<1> QED
  BY <1>3, <1>4

LEMMA RenameTouches ==
  ASSUME NEW t \in Databases, NEW u, NEW r
  PROVE  Touches(t, Rename(t, r), u, {})
BY DEF Rename, Databases, Touches

LEMMA TouchesCompose ==
  ASSUME NEW s, NEW t, NEW w, NEW u, NEW T, Touches(s, t, u, T), Touches(t, w, u, T)
  PROVE  Touches(s, w, u, T)
BY DEF Touches

LEMMA TouchesMore ==
  ASSUME NEW s, NEW t, NEW u, NEW S, NEW T, S \subseteq T, Touches(s, t, u, S)
  PROVE  Touches(s, t, u, T)
BY DEF Touches

\* What a call has read of its own rooms is still there after the write of a call of
\* another user on other rooms.
LEMMA Undisturbed ==
  ASSUME NEW u, NEW T, db \in Databases, db' \in Databases, ForeignKeyOK(db),
         Touches(db, db', u, T), NEW k \in CallRecords, k.user \in Users, k.user # u,
         ConcernsOf(k) \cap T = {}, UpToDate(k), Named(k)
  PROVE  (UpToDate(k))' /\ (Named(k))' /\ (ConcernsOf(k))' = ConcernsOf(k)
<1>1. db'.member[k.user] = db.member[k.user]
  BY DEF Touches, ConcernsOf
<1>2. ASSUME NEW x \in RoomIds, x \notin T
      PROVE  /\ x \in db'.live <=> x \in db.live
             /\ db'.owner[x] = db.owner[x] /\ db'.status[x] = db.status[x]
             /\ PlayersOf(db', x) = PlayersOf(db, x)
             /\ RoomSnapshot(db', x) = RoomSnapshot(db, x)
  <2>1. \A v \in Users : db'.member[v] = x <=> db.member[v] = x
    BY <1>2, NoneIsNoRoom DEF Touches
  <2>2. PlayersOf(db', x) = PlayersOf(db, x)
    BY <2>1 DEF PlayersOf
  <2> QED
    BY <1>2, <2>2 DEF Touches, RoomSnapshot
<1>3. /\ k.room # None => k.room \in RoomIds /\ k.room \notin T
      /\ k.old # None => k.old \in RoomIds /\ k.old \notin T
  BY DEF ConcernsOf, CallRecords
<1>4. (ConcernsOf(k))' = ConcernsOf(k)
  BY <1>1 DEF ConcernsOf
<1>5. (Named(k))'
  BY DEF Named, Known, Touches
<1>6. k.at \in JoinSteps \cup {"update.commit"} => k.room # None
  BY NoneIsNoRoom DEF UpToDate, JoinAllowed, Databases
<1>7. /\ k.room # None => (JoinAllowed(k.user, k.room) => JoinAllowed(k.user, k.room)')
      /\ k.room # None => PlayersOf(db', k.room) = PlayersOf(db, k.room)
      /\ k.room # None => (k.room \in db'.live <=> k.room \in db.live)
      /\ k.room # None => db'.owner[k.room] = db.owner[k.room]
      /\ k.old # None => RoomSnapshot(db', k.old) = RoomSnapshot(db, k.old)
  BY <1>2, <1>3 DEF JoinAllowed
<1> QED
  BY <1>1, <1>4, <1>5, <1>6, <1>7 DEF UpToDate

\* Call c moves to k, having written no rooms but its own and new ones: the others notice
\* nothing.
LEMMA StepOf ==
  ASSUME DInv, IInv', NEW c \in Calls, call[c].at # "idle", NEW k \in CallRecords, NEW T,
         call' = [call EXCEPT ![c] = k],
         T \subseteq ConcernsOf(call[c]) \cup FreshIds(db),
         Touches(db, db', call[c].user, T),
         \/ k.at = "idle"
         \/ /\ k.user = call[c].user
            /\ (ConcernsOf(k))' \subseteq ConcernsOf(call[c])
            /\ (UpToDate(k))' /\ (Named(k))'
  PROVE  DInv'
<1>1. /\ db \in Databases /\ db' \in Databases /\ ForeignKeyOK(db)
      /\ call \in [Calls -> CallRecords] /\ call' \in [Calls -> CallRecords]
  BY DEF DInv, IInv, TypeOK, MembersSeated
<1>2. call'[c] = k /\ \A d \in Calls \ {c} : call'[d] = call[d]
  BY <1>1
<1>3. ASSUME NEW d \in InFlight, d # c, NEW m \in CallRecords, m = call[d]
      PROVE  (UpToDate(m))' /\ (Named(m))' /\ (ConcernsOf(m))' = ConcernsOf(m)
  <2>1. c \in InFlight /\ d \in Calls
    BY DEF InFlight
  <2>2. m.user # call[c].user /\ ConcernsOf(m) \cap ConcernsOf(call[c]) = {}
    BY <1>3, <2>1 DEF DInv, Apart
  <2>3. UpToDate(m) /\ Named(m) /\ m.user \in Users
    BY <1>3 DEF DInv, IInv, CallOK, InFlight
  <2>4. ConcernsOf(m) \subseteq Known
    BY <2>3, NoneIsNoRoom DEF ConcernsOf, Named, DInv, IInv, MembersSeated, ForeignKeyOK, Known
  <2>5. ConcernsOf(m) \cap T = {}
    BY <2>2, <2>4 DEF FreshIds, Known
  <2> QED
    BY <1>1, <2>2, <2>3, <2>5, Undisturbed
<1>4. ASSUME NEW d \in Calls, NEW m \in CallRecords, m = call'[d], m.at # "idle"
      PROVE  /\ (UpToDate(m))' /\ (Named(m))'
             /\ d # c => d \in InFlight /\ m = call[d] /\ (ConcernsOf(m))' = ConcernsOf(call[d])
             /\ d = c => m.user = call[c].user /\ (ConcernsOf(m))' \subseteq ConcernsOf(call[c])
  <2>1. CASE d = c
    BY <1>2, <1>4, <2>1
  <2>2. CASE d # c
    <3>1. m = call[d] /\ d \in InFlight
      BY <1>2, <1>4, <2>2 DEF InFlight
    <3>2. (UpToDate(m))' /\ (Named(m))' /\ (ConcernsOf(m))' = ConcernsOf(m)
      BY <1>3, <2>2, <3>1
    <3> QED
      BY <2>2, <3>1, <3>2
  <2> QED
    BY <2>1, <2>2
<1>5. ASSUME NEW d \in InFlight'
      PROVE  (UpToDate(call[d]) /\ Named(call[d]))'
  <2>1. d \in Calls /\ call'[d].at # "idle"
    BY DEF InFlight
  <2>2. PICK m \in CallRecords : m = call'[d]
    BY <1>1, <2>1
  <2>3. (UpToDate(m))' /\ (Named(m))'
    BY <1>4, <2>1, <2>2
  <2> QED
    BY <2>2, <2>3
<1>6. ASSUME NEW d \in InFlight', NEW e \in InFlight', d # e
      PROVE  (call[d].user # call[e].user /\ ConcernsOf(call[d]) \cap ConcernsOf(call[e]) = {})'
  <2>1. d \in Calls /\ e \in Calls /\ call'[d].at # "idle" /\ call'[e].at # "idle"
    BY DEF InFlight
  <2>2. PICK m \in CallRecords : m = call'[d]
    BY <1>1, <2>1
  <2>3. PICK n \in CallRecords : n = call'[e]
    BY <1>1, <2>1
  <2>4. /\ d \in InFlight /\ e \in InFlight
        /\ m.user = call[d].user /\ n.user = call[e].user
        /\ (ConcernsOf(m))' \subseteq ConcernsOf(call[d])
        /\ (ConcernsOf(n))' \subseteq ConcernsOf(call[e])
    <3>1. c \in InFlight
      BY DEF InFlight
    <3> QED
      BY <1>4, <2>1, <2>2, <2>3, <3>1
  <2>5. call[d].user # call[e].user /\ ConcernsOf(call[d]) \cap ConcernsOf(call[e]) = {}
    BY <1>6, <2>4 DEF DInv, Apart
  <2>6. m.user # n.user /\ (ConcernsOf(m))' \cap (ConcernsOf(n))' = {}
    BY <2>4, <2>5
  <2> QED
    BY <2>2, <2>3, <2>6
<1>7. Apart'
  BY <1>6 DEF Apart
<1> QED
  BY <1>5, <1>7 DEF DInv

LEMMA ReadsTheSame ==
  ASSUME UNCHANGED db, NEW k
  PROVE  /\ (UpToDate(k))' <=> UpToDate(k)
         /\ (Named(k))' <=> Named(k)
         /\ (ConcernsOf(k))' = ConcernsOf(k)
BY DEF UpToDate, JoinAllowed, RoomSnapshot, PlayersOf, Named, Known, ConcernsOf

LEMMA TouchesNothing ==
  ASSUME UNCHANGED db, NEW u
  PROVE  Touches(db, db', u, {})
BY DEF Touches

\* Call c moves to k, having only read.
LEMMA ReadOf ==
  ASSUME DInv, IInv', NEW c \in Calls, call[c].at # "idle", NEW k \in CallRecords,
         call' = [call EXCEPT ![c] = k], UNCHANGED db,
         \/ k.at = "idle"
         \/ /\ k.user = call[c].user
            /\ ConcernsOf(k) \subseteq ConcernsOf(call[c])
            /\ UpToDate(k) /\ Named(k)
  PROVE  DInv'
<1> DEFINE T == {}
<1>1. Touches(db, db', call[c].user, T) /\ T \subseteq ConcernsOf(call[c]) \cup FreshIds(db)
  BY TouchesNothing
<1>2. \/ k.at = "idle"
      \/ /\ k.user = call[c].user
         /\ (ConcernsOf(k))' \subseteq ConcernsOf(call[c])
         /\ (UpToDate(k))' /\ (Named(k))'
  BY ReadsTheSame
<1> HIDE DEF T
<1> QED
  BY <1>1, <1>2, StepOf

\* A call starts when no call in flight shares its user or its rooms.
LEMMA StartOf ==
  ASSUME DInv, IInv', Overlap = "disjoint", NEW c \in Calls, call[c].at = "idle",
         NEW k \in CallRecords, call' = [call EXCEPT ![c] = k], UNCHANGED db,
         NEW rooms, NEW join, MayStart(k.user, rooms, join),
         k.room \in rooms \cup {None}, k.old \in {None, db.member[k.user]},
         UpToDate(k), Named(k)
  PROVE  DInv'
<1>1. call \in [Calls -> CallRecords] /\ call' \in [Calls -> CallRecords]
  BY DEF DInv, IInv, TypeOK
<1>2. call'[c] = k /\ \A d \in Calls \ {c} : call'[d] = call[d]
  BY <1>1
<1>3. \A d \in InFlight' : d \in Calls /\ (d # c => d \in InFlight /\ call'[d] = call[d])
  BY <1>2 DEF InFlight
<1>4. ASSUME NEW d \in InFlight
      PROVE  call[d].user # k.user /\ ConcernsOf(call[d]) \cap ConcernsOf(k) = {}
  <2>1. call[d].user # k.user /\ Concerns(d) \cap (rooms \cup {db.member[k.user]}) = {}
    BY DEF MayStart
  <2>2. ConcernsOf(k) \subseteq rooms \cup {db.member[k.user]}
    BY DEF ConcernsOf
  <2> QED
    BY <2>1, <2>2 DEF Concerns, ConcernsOf
<1>5. ASSUME NEW d \in InFlight', NEW m \in CallRecords, m = call'[d]
      PROVE  (UpToDate(m))' /\ (Named(m))' /\ (ConcernsOf(m))' = ConcernsOf(m)
  <2>1. UpToDate(m) /\ Named(m)
    BY <1>2, <1>3, <1>5 DEF DInv
  <2> QED
    BY <2>1, ReadsTheSame
<1>6. ASSUME NEW d \in InFlight'
      PROVE  (UpToDate(call[d]) /\ Named(call[d]))'
  <2>1. PICK m \in CallRecords : m = call'[d]
    BY <1>1, <1>3
  <2>2. (UpToDate(m))' /\ (Named(m))'
    BY <1>5, <2>1
  <2> QED
    BY <2>1, <2>2
<1>7. ASSUME NEW d \in InFlight', NEW e \in InFlight', d # e
      PROVE  (call[d].user # call[e].user /\ ConcernsOf(call[d]) \cap ConcernsOf(call[e]) = {})'
  <2>1. PICK m \in CallRecords : m = call'[d]
    BY <1>1, <1>3
  <2>2. PICK n \in CallRecords : n = call'[e]
    BY <1>1, <1>3
  <2>3. (ConcernsOf(m))' = ConcernsOf(m) /\ (ConcernsOf(n))' = ConcernsOf(n)
    BY <1>5, <2>1, <2>2
  <2>4. m.user # n.user /\ ConcernsOf(m) \cap ConcernsOf(n) = {}
    <3>1. CASE d = c
      BY <1>2, <1>3, <1>4, <1>7, <2>1, <2>2, <3>1
    <3>2. CASE e = c
      BY <1>2, <1>3, <1>4, <1>7, <2>1, <2>2, <3>2
    <3>3. CASE d # c /\ e # c
      BY <1>3, <1>7, <2>1, <2>2, <3>3 DEF DInv, Apart
    <3> QED
      BY <3>1, <3>2, <3>3
  <2> QED
    BY <2>1, <2>2, <2>3, <2>4
<1>8. Apart'
  BY <1>7 DEF Apart
<1> QED
  BY <1>6, <1>8 DEF DInv

LEMMA DInit == Init => DInv
<1>1. Init => InFlight = {}
  BY DEF Init, InFlight, Idle
<1> QED
  BY <1>1, InitOK DEF DInv, Apart

\* What a call in flight knows when the calls keep apart.
LEMMA ApartFacts ==
  ASSUME DInv, NEW c \in Calls, call[c].at # "idle"
  PROVE  /\ db \in Databases /\ RowsOK(db) /\ call \in [Calls -> CallRecords]
         /\ call[c] \in CallRecords /\ call[c].user \in Users
         /\ UpToDate(call[c]) /\ Named(call[c])
         /\ db.member[call[c].user] \in db.live \cup {None}
<1>1. c \in InFlight
  BY DEF InFlight
<1> QED
  BY <1>1, CallFacts DEF DInv, IInv, TypeOK, CallOK, RowsOK, ForeignKeyOK

\* A call ends without a write.
LEMMA EndOf ==
  ASSUME DInv, IInv', NEW c \in Calls, call[c].at # "idle",
         call' = [call EXCEPT ![c] = Idle], UNCHANGED db
  PROVE  DInv'
<1>1. Idle.at = "idle" /\ Idle \in CallRecords
  BY IdleOK DEF Idle, DInv
<1> QED
  BY <1>1, ReadOf

\* A call ends with a write.
LEMMA EndWith ==
  ASSUME DInv, IInv', NEW c \in Calls, call[c].at # "idle",
         call' = [call EXCEPT ![c] = Idle], NEW T,
         T \subseteq ConcernsOf(call[c]) \cup FreshIds(db),
         Touches(db, db', call[c].user, T)
  PROVE  DInv'
<1>1. Idle.at = "idle" /\ Idle \in CallRecords
  BY IdleOK DEF Idle, DInv
<1> QED
  BY <1>1, StepOf

LEMMA DCreate ==
  ASSUME DInv, IInv', Overlap = "disjoint", NEW c \in Calls,
         (\E u \in Users : CreateFindUser(c, u)) \/ CreateInsert(c)
  PROVE  DInv'
<1>1. ASSUME NEW u \in Users, CreateFindUser(c, u) PROVE DInv'
  <2>1. PICK k : k = [Idle EXCEPT !.at = "create.insert", !.user = u]
    OBVIOUS
  <2>2. k.at = "create.insert" /\ k.user = u /\ k.room = None /\ k.old = None
    BY <2>1 DEF Idle
  <2>3. k \in CallRecords
    BY <2>1 DEF Idle, CallRecords, Steps, Snapshots, NoSnapshot
  <2>4. /\ call[c].at = "idle" /\ call' = [call EXCEPT ![c] = k] /\ UNCHANGED db
        /\ MayStart(u, {}, FALSE) /\ db.member[u] = None
    BY <1>1, <2>1 DEF CreateFindUser, Start
  <2>5. UpToDate(k) /\ Named(k)
    BY <2>2, <2>4 DEF UpToDate, Named, JoinSteps
  <2> QED
    BY <2>2, <2>3, <2>4, <2>5, StartOf
<1>2. CASE CreateInsert(c)
  <2>1. call[c].at = "create.insert"
    BY <1>2 DEF CreateInsert
  <2>2. PICK r \in FreshIds(db) : Commit(c, InsertRoom(db, call[c].user, r), Idle)
    BY <1>2 DEF CreateInsert
  <2>3. db.member[call[c].user] = None /\ db \in Databases /\ call[c].user \in Users
    BY <2>1, ApartFacts DEF UpToDate
  <2>4. Touches(db, db', call[c].user, {r}) /\ call' = [call EXCEPT ![c] = Idle]
    BY <2>2, <2>3, InsertTouches DEF Commit
  <2>5. {r} \subseteq ConcernsOf(call[c]) \cup FreshIds(db)
    OBVIOUS
  <2> QED
    BY <2>1, <2>4, <2>5, EndWith
<1> QED
  BY <1>1, <1>2

LEMMA LeaveUnseats ==
  ASSUME NEW t \in Databases, NEW u \in Users, NEW r \in t.live, NEW seen \in Snapshots,
         NEW after \in LeaveRoom(t, u, r, seen)
  PROVE  after \in Databases /\ after.member[u] \in {t.member[u], None} /\ after.member[u] # r
<1>1. r # None /\ seen.players \subseteq Users /\ seen.owner \in Users \cup {None}
  BY NoneIsNoRoom DEF Databases, Snapshots
<1>2. /\ after \in Databases
      /\ \/ after.live = t.live /\ after.dead = t.dead
         \/ after.live = t.live \ {r} /\ after.dead = t.dead \cup {r}
      /\ Empties(u, seen) => r \in after.dead
      /\ after.status = [t.status EXCEPT ![r] = "Waiting"]
      /\ after.member[u] \in {t.member[u], None}
      /\ after.member[u] # r
      /\ \A v \in Users \ {u} :
           \/ after.member[v] = t.member[v]
           \/ after.member[v] = None /\ t.member[v] = r /\ r \notin after.live
      /\ r \notin after.live => \A v \in Users : after.member[v] # r
  BY <1>1, LeaveEffect
<1> QED
  BY <1>2

\* The transaction's leave: it takes its user out of the room it names and touches no other.
LEMMA AfterLeavingTouches ==
  ASSUME DInv, NEW c \in Calls, call[c].at \in {"join.commit", "leave.commit"},
         NEW after \in AfterLeaving(c)
  PROVE  /\ Touches(db, after, call[c].user, {call[c].old} \ {None})
         /\ after \in Databases /\ after.member[call[c].user] = None
<1> DEFINE u == call[c].user
           old == call[c].old
           seen == call[c].left
<1>1. /\ db \in Databases /\ u \in Users /\ seen \in Snapshots
      /\ old = db.member[u]
  BY ApartFacts DEF UpToDate, CallRecords
<1>2. CASE old = None
  <2>1. after = db
    BY <1>2 DEF AfterLeaving
  <2> QED
    BY <1>1, <1>2, <2>1 DEF Touches
<1>3. CASE old # None
  <2>1. old \in db.live /\ after \in LeaveRoom(db, u, old, seen)
    BY <1>3 DEF AfterLeaving
  <2>2. Touches(db, after, u, {old})
    BY <1>1, <2>1, LeaveTouches
  <2>3. after \in Databases /\ after.member[u] \in {db.member[u], None} /\ after.member[u] # old
    BY <1>1, <2>1, LeaveUnseats
  <2> QED
    BY <1>1, <1>3, <2>2, <2>3
<1> QED
  BY <1>2, <1>3

LEMMA DJoin ==
  ASSUME DInv, IInv', Overlap = "disjoint", NEW c \in Calls,
         \/ \E u \in Users, r \in RoomIds : JoinFindRoom(c, u, r)
         \/ JoinFindUser(c) \/ JoinReadOld(c) \/ JoinCommit(c)
  PROVE  DInv'
<1>1. ASSUME NEW u \in Users, NEW r \in RoomIds, JoinFindRoom(c, u, r) PROVE DInv'
  <2>1. PICK k : k = [Idle EXCEPT !.at = "join.findUser", !.user = u, !.room = r,
                                  !.players = PlayersOf(db, r)]
    OBVIOUS
  <2>2. /\ k.at = "join.findUser" /\ k.user = u /\ k.room = r /\ k.old = None
        /\ k.players = PlayersOf(db, r)
    BY <2>1 DEF Idle
  <2>3. k \in CallRecords
    BY <2>1 DEF Idle, CallRecords, Steps, Snapshots, NoSnapshot, PlayersOf
  <2>4. /\ call[c].at = "idle" /\ call' = [call EXCEPT ![c] = k] /\ UNCHANGED db
        /\ MayStart(u, {r}, TRUE) /\ JoinAllowed(u, r)
    BY <1>1, <2>1 DEF JoinFindRoom, Start
  <2>5. UpToDate(k)
    BY <2>2, <2>4 DEF UpToDate, JoinSteps
  <2>6. Named(k)
    BY <2>2, <2>4 DEF Named, Known, JoinAllowed
  <2> QED
    BY <2>2, <2>3, <2>4, <2>5, <2>6, StartOf
<1>2. CASE JoinFindUser(c)
  <2> DEFINE u == call[c].user
             old == db.member[u]
  <2>1. PICK k : k = [call[c] EXCEPT
                        !.at = IF old = None THEN "join.commit" ELSE "join.readOld",
                        !.old = old]
    OBVIOUS
  <2>2. call[c].at = "join.findUser" /\ call' = [call EXCEPT ![c] = k] /\ UNCHANGED db
    BY <1>2, <2>1 DEF JoinFindUser, Advance
  <2>3. /\ call[c] \in CallRecords /\ u \in Users /\ UpToDate(call[c]) /\ Named(call[c])
        /\ old \in db.live \cup {None} /\ db \in Databases
    BY <2>2, ApartFacts
  <2>4. /\ k.at = IF old = None THEN "join.commit" ELSE "join.readOld"
        /\ k.user = u /\ k.room = call[c].room /\ k.old = old /\ k.players = call[c].players
        /\ k \in CallRecords
    BY <2>1, <2>3 DEF CallRecords, Steps, Databases
  <2>5. UpToDate(k)
    BY <2>2, <2>3, <2>4 DEF UpToDate, JoinSteps
  <2>6. Named(k) /\ ConcernsOf(k) \subseteq ConcernsOf(call[c])
    BY <2>3, <2>4 DEF Named, Known, ConcernsOf
  <2> QED
    BY <2>2, <2>4, <2>5, <2>6, ReadOf
<1>3. CASE JoinReadOld(c)
  <2> DEFINE u == call[c].user
             old == call[c].old
  <2>1. call[c].at = "join.readOld"
    BY <1>3 DEF JoinReadOld
  <2>2. /\ call[c] \in CallRecords /\ u \in Users /\ UpToDate(call[c]) /\ Named(call[c])
        /\ old = db.member[u] /\ old \in db.live /\ db \in Databases
    BY <2>1, ApartFacts DEF UpToDate
  <2>3. PICK snapshot : snapshot = RoomSnapshot(db, old)
    OBVIOUS
  <2>4. snapshot \in Snapshots
    BY <2>2, <2>3 DEF RoomSnapshot, Snapshots, PlayersOf, Databases
  <2>5. PICK k : k = [call[c] EXCEPT !.at = "join.commit", !.left = snapshot]
    OBVIOUS
  <2>6. call' = [call EXCEPT ![c] = k] /\ UNCHANGED db
    BY <1>3, <2>2, <2>3, <2>5 DEF JoinReadOld, Advance
  <2>7. /\ k.at = "join.commit" /\ k.user = u /\ k.room = call[c].room /\ k.old = old
        /\ k.players = call[c].players /\ k.left = snapshot /\ k \in CallRecords
    BY <2>2, <2>4, <2>5 DEF CallRecords, Steps
  <2>8. UpToDate(k)
    BY <2>1, <2>2, <2>3, <2>7 DEF UpToDate, JoinSteps
  <2>9. Named(k) /\ ConcernsOf(k) \subseteq ConcernsOf(call[c])
    BY <2>2, <2>7 DEF Named, ConcernsOf
  <2> QED
    BY <2>1, <2>6, <2>7, <2>8, <2>9, ReadOf
<1>4. CASE JoinCommit(c)
  <2> DEFINE u == call[c].user
             r == call[c].room
             T == ({call[c].old} \ {None}) \cup {r}
  <2>1. call[c].at = "join.commit"
    BY <1>4 DEF JoinCommit
  <2>2. PICK left \in AfterLeaving(c) :
          /\ r \in left.live
          /\ Commit(c, AddPlayer(left, u, r, call[c].players), Idle)
    BY <1>4 DEF JoinCommit
  <2>3. /\ Touches(db, left, u, {call[c].old} \ {None})
        /\ left \in Databases /\ left.member[u] = None
    BY <2>1, AfterLeavingTouches
  <2>4. u \in Users /\ r \in RoomIds /\ r # None
    BY <2>1, <2>2, <2>3, ApartFacts, NoneIsNoRoom DEF Databases
  <2>5. Touches(left, db', u, {r}) /\ call' = [call EXCEPT ![c] = Idle]
    BY <2>2, <2>3, <2>4, AddTouches DEF Commit
  <2>6. Touches(db, left, u, T)
    BY <2>3, TouchesMore
  <2>7. Touches(left, db', u, T)
    BY <2>5, TouchesMore
  <2>8. T \subseteq ConcernsOf(call[c]) \cup FreshIds(db)
    BY <2>4 DEF ConcernsOf
  <2> HIDE DEF T
  <2>9. Touches(db, db', u, T)
    BY <2>6, <2>7, TouchesCompose
  <2> QED
    BY <2>1, <2>5, <2>8, <2>9, EndWith
<1> QED
  BY <1>1, <1>2, <1>3, <1>4

LEMMA DLeave ==
  ASSUME DInv, IInv', Overlap = "disjoint", NEW c \in Calls,
         \/ \E u \in Users : LeaveFindUser(c, u)
         \/ LeaveReadRoom(c) \/ LeaveCommit(c) \/ LeaveEmit(c)
  PROVE  DInv'
<1>1. ASSUME NEW u \in Users, LeaveFindUser(c, u) PROVE DInv'
  <2> DEFINE old == db.member[u]
  <2>1. PICK k : k = [Idle EXCEPT !.at = "leave.readRoom", !.user = u, !.old = old]
    OBVIOUS
  <2>2. k.at = "leave.readRoom" /\ k.user = u /\ k.room = None /\ k.old = old
    BY <2>1 DEF Idle
  <2>3. /\ call[c].at = "idle" /\ call' = [call EXCEPT ![c] = k] /\ UNCHANGED db
        /\ MayStart(u, {}, FALSE) /\ old # None
    BY <1>1, <2>1 DEF LeaveFindUser, Start
  <2>4. db \in Databases /\ RowsOK(db)
    BY CallFacts DEF DInv
  <2>5. old \in RoomIds /\ old \in Known
    BY <2>3, <2>4 DEF RowsOK, ForeignKeyOK, Databases, Known
  <2>6. k \in CallRecords
    BY <2>1, <2>5 DEF Idle, CallRecords, Steps, Snapshots, NoSnapshot
  <2>7. UpToDate(k) /\ Named(k)
    BY <2>2, <2>3, <2>5 DEF UpToDate, Named, JoinSteps
  <2> QED
    BY <2>2, <2>3, <2>6, <2>7, StartOf
<1>2. CASE LeaveReadRoom(c)
  <2> DEFINE u == call[c].user
             old == call[c].old
  <2>1. call[c].at = "leave.readRoom"
    BY <1>2 DEF LeaveReadRoom
  <2>2. /\ call[c] \in CallRecords /\ u \in Users /\ UpToDate(call[c]) /\ Named(call[c])
        /\ old = db.member[u] /\ old # None /\ old \in db.live /\ db \in Databases
    BY <2>1, ApartFacts DEF UpToDate
  <2>3. PICK snapshot : snapshot = RoomSnapshot(db, old)
    OBVIOUS
  <2>4. snapshot \in Snapshots
    BY <2>2, <2>3 DEF RoomSnapshot, Snapshots, PlayersOf, Databases
  <2>5. PICK k : k = [call[c] EXCEPT !.at = "leave.commit", !.left = snapshot]
    OBVIOUS
  <2>6. call' = [call EXCEPT ![c] = k] /\ UNCHANGED db
    BY <1>2, <2>2, <2>3, <2>5 DEF LeaveReadRoom, Advance
  <2>7. /\ k.at = "leave.commit" /\ k.user = u /\ k.room = call[c].room /\ k.old = old
        /\ k.left = snapshot /\ k \in CallRecords
    BY <2>2, <2>4, <2>5 DEF CallRecords, Steps
  <2>8. UpToDate(k)
    BY <2>2, <2>3, <2>7 DEF UpToDate, JoinSteps
  <2>9. Named(k) /\ ConcernsOf(k) \subseteq ConcernsOf(call[c])
    BY <2>2, <2>7 DEF Named, ConcernsOf
  <2> QED
    BY <2>1, <2>6, <2>7, <2>8, <2>9, ReadOf
<1>3. CASE LeaveCommit(c)
  <2> DEFINE u == call[c].user
             T == {call[c].old} \ {None}
  <2>1. call[c].at = "leave.commit"
    BY <1>3 DEF LeaveCommit
  <2>2. PICK left \in AfterLeaving(c) : Commit(c, left, AfterLeave(call[c]))
    BY <1>3 DEF LeaveCommit
  <2>3. PICK k : k = AfterLeave(call[c])
    OBVIOUS
  <2>4. db' = left /\ call' = [call EXCEPT ![c] = k]
    BY <2>2, <2>3 DEF Commit
  <2>5. Touches(db, db', u, T) /\ db'.member[u] = None
    BY <2>1, <2>4, AfterLeavingTouches
  <2>6. T \subseteq ConcernsOf(call[c]) \cup FreshIds(db)
    BY DEF ConcernsOf
  <2>7. call[c] \in CallRecords /\ Named(call[c])
    BY <2>1, ApartFacts
  <2>8. k \in CallRecords
    BY <2>3, <2>7 DEF AfterLeave, Idle, CallRecords, Steps, Snapshots, NoSnapshot
  <2>9. \/ k.at = "idle"
        \/ k.at = "leave.emit" /\ k.user = u /\ k.room = call[c].room /\ k.old = call[c].old
    BY <2>3, <2>7 DEF AfterLeave, Idle, CallRecords
  <2>10. ASSUME k.at # "idle"
         PROVE  /\ k.user = u /\ (ConcernsOf(k))' \subseteq ConcernsOf(call[c])
                /\ (UpToDate(k))' /\ (Named(k))'
    <3>1. (UpToDate(k))'
      BY <2>9, <2>10 DEF UpToDate, JoinSteps
    <3>2. (Named(k))'
      BY <2>5, <2>7, <2>9, <2>10 DEF Named, Known, Touches
    <3>3. (ConcernsOf(k))' \subseteq ConcernsOf(call[c])
      BY <2>5, <2>9, <2>10 DEF ConcernsOf
    <3> QED
      BY <2>9, <2>10, <3>1, <3>2, <3>3
  <2> HIDE DEF T
  <2> QED
    BY <2>1, <2>4, <2>5, <2>6, <2>8, <2>10, StepOf
<1>4. CASE LeaveEmit(c)
  BY <1>4, EndOf DEF LeaveEmit
<1> QED
  BY <1>1, <1>2, <1>3, <1>4

LEMMA DUpdate ==
  ASSUME DInv, IInv', Overlap = "disjoint", NEW c \in Calls,
         (\E u \in Users, r \in RoomIds : UpdateFindRoom(c, u, r)) \/ UpdateCommit(c)
  PROVE  DInv'
<1>1. ASSUME NEW u \in Users, NEW r \in RoomIds, UpdateFindRoom(c, u, r) PROVE DInv'
  <2>1. PICK k : k = [Idle EXCEPT !.at = "update.commit", !.user = u, !.room = r]
    OBVIOUS
  <2>2. k.at = "update.commit" /\ k.user = u /\ k.room = r /\ k.old = None
    BY <2>1 DEF Idle
  <2>3. k \in CallRecords
    BY <2>1 DEF Idle, CallRecords, Steps, Snapshots, NoSnapshot
  <2>4. /\ call[c].at = "idle" /\ call' = [call EXCEPT ![c] = k] /\ UNCHANGED db
        /\ MayStart(u, {r}, FALSE) /\ r \in db.live /\ db.owner[r] = u
    BY <1>1, <2>1 DEF UpdateFindRoom, Start
  <2>5. UpToDate(k) /\ Named(k)
    BY <2>2, <2>4 DEF UpToDate, JoinSteps, Named, Known
  <2> QED
    BY <2>2, <2>3, <2>4, <2>5, StartOf
<1>2. CASE UpdateCommit(c)
  <2> DEFINE T == {}
  <2>1. /\ call[c].at = "update.commit" /\ call' = [call EXCEPT ![c] = Idle]
        /\ db' = Rename(db, call[c].room)
    BY <1>2 DEF UpdateCommit, Commit
  <2>2. Touches(db, db', call[c].user, T) /\ T \subseteq ConcernsOf(call[c]) \cup FreshIds(db)
    BY <2>1, ApartFacts, RenameTouches
  <2> HIDE DEF T
  <2> QED
    BY <2>1, <2>2, EndWith
<1> QED
  BY <1>1, <1>2

LEMMA DNext ==
  ASSUME DInv, Overlap = "disjoint", [Next]_vars
  PROVE  DInv'
<1>1. IInv'
  BY NextOK DEF DInv
<1>2. ASSUME NEW c \in Calls, StartCall(c) PROVE DInv'
  BY <1>1, <1>2, DCreate, DJoin, DLeave, DUpdate DEF StartCall
<1>3. ASSUME NEW c \in Calls, Continue(c) PROVE DInv'
  <2>1. CASE Abort(c)
    <3>1. call[c].at # "idle" /\ call' = [call EXCEPT ![c] = Idle] /\ UNCHANGED db
      BY <2>1 DEF Abort, Advance, CommitSteps
    <3> QED
      BY <1>1, <3>1, EndOf
  <2> QED
    BY <1>1, <1>3, <2>1, DCreate, DJoin, DLeave, DUpdate DEF Continue
<1>4. CASE Crash
  <2>1. InFlight' = {}
    BY <1>4 DEF Crash, InFlight, Idle
  <2> QED
    BY <1>1, <2>1 DEF DInv, Apart
<1>5. CASE UNCHANGED vars
  <2>1. call' = call /\ UNCHANGED db
    BY <1>5 DEF vars
  <2>2. InFlight' = InFlight
    BY <2>1 DEF InFlight
  <2>3. \A k : /\ (UpToDate(k))' <=> UpToDate(k)
               /\ (Named(k))' <=> Named(k)
               /\ (ConcernsOf(k))' = ConcernsOf(k)
    BY <2>1, ReadsTheSame
  <2>4. Apart'
    BY <2>1, <2>2 DEF DInv, Apart, ConcernsOf
  <2>5. \A c \in InFlight : (UpToDate(call[c]) /\ Named(call[c]))'
    BY <2>1, <2>3 DEF DInv
  <2> QED
    BY <1>1, <2>2, <2>4, <2>5 DEF DInv
<1>6. CASE IdsUsedUp
  BY <1>5, <1>6 DEF IdsUsedUp
<1> QED
  BY <1>2, <1>3, <1>4, <1>5, <1>6 DEF Next

-----------------------------------------------------------------------------
\* Each commit is one step of Rooms.tla, and no other step is seen there.

\* What a transaction that read its room in time leaves is what the one step leaves.
LEMMA SameAfterLeaving ==
  ASSUME DInv, NEW c \in Calls, call[c].at \in {"join.commit", "leave.commit"}
  PROVE  AfterLeaving(c) \subseteq Departures(call[c].user)
<1> DEFINE u == call[c].user
           old == call[c].old
<1>1. old = db.member[u] /\ (old # None => call[c].left = RoomSnapshot(db, old))
  BY ApartFacts DEF UpToDate
<1>2. CASE old = None
  BY <1>1, <1>2 DEF AfterLeaving, Departures
<1>3. CASE old # None
  <2>1. Departures(u) = LeaveRoom(db, u, old, RoomSnapshot(db, old))
    BY <1>1, <1>3 DEF Departures
  <2> QED
    BY <1>1, <1>3, <2>1 DEF AfterLeaving
<1> QED
  BY <1>2, <1>3

LEMMA InitIsAtomic == Init => AtomicInit
BY DEF Init, AtomicInit

LEMMA CommitIsAtomic ==
  ASSUME DInv, NEW c \in Calls,
         CreateInsert(c) \/ JoinCommit(c) \/ LeaveCommit(c) \/ UpdateCommit(c)
  PROVE  AtomicNext
<1> DEFINE u == call[c].user
           r == call[c].room
<1>1. CASE CreateInsert(c)
  <2>1. call[c].at = "create.insert"
    BY <1>1 DEF CreateInsert
  <2>2. PICK x \in FreshIds(db) : Commit(c, InsertRoom(db, u, x), Idle)
    BY <1>1 DEF CreateInsert
  <2>3. u \in Users /\ db.member[u] = None /\ x \in RoomIds
    BY <2>1, <2>2, ApartFacts DEF UpToDate, FreshIds
  <2>4. Create(u, x)
    BY <2>2, <2>3 DEF Commit, Create
  <2> QED
    BY <2>3, <2>4 DEF AtomicNext
<1>2. CASE JoinCommit(c)
  <2>1. call[c].at = "join.commit"
    BY <1>2 DEF JoinCommit
  <2>2. PICK left \in AfterLeaving(c) : Commit(c, AddPlayer(left, u, r, call[c].players), Idle)
    BY <1>2 DEF JoinCommit
  <2>3. /\ u \in Users /\ JoinAllowed(u, r) /\ call[c].players = PlayersOf(db, r)
        /\ db \in Databases
    BY <2>1, ApartFacts DEF UpToDate, JoinSteps
  <2>4. r \in RoomIds
    BY <2>3 DEF JoinAllowed, Databases
  <2>5. left \in Departures(u)
    BY <2>1, SameAfterLeaving
  <2>6. db' = AddPlayer(left, u, r, PlayersOf(db, r))
    BY <2>2, <2>3 DEF Commit
  <2>7. Join(u, r)
    BY <2>3, <2>5, <2>6 DEF Join
  <2> QED
    BY <2>3, <2>4, <2>7 DEF AtomicNext
<1>3. CASE LeaveCommit(c)
  <2>1. call[c].at = "leave.commit"
    BY <1>3 DEF LeaveCommit
  <2>2. PICK left \in AfterLeaving(c) : db' = left
    BY <1>3 DEF LeaveCommit, Commit
  <2>3. u \in Users /\ db.member[u] # None
    BY <2>1, ApartFacts DEF UpToDate
  <2>4. Leave(u)
    BY <2>1, <2>2, <2>3, SameAfterLeaving DEF Leave
  <2> QED
    BY <2>3, <2>4 DEF AtomicNext
<1>4. CASE UpdateCommit(c)
  <2>1. call[c].at = "update.commit" /\ db' = Rename(db, r)
    BY <1>4 DEF UpdateCommit, Commit
  <2>2. u \in Users /\ r \in db.live /\ db.owner[r] = u /\ db \in Databases
    BY <2>1, ApartFacts DEF UpToDate
  <2>3. Update(u, r) /\ r \in RoomIds
    BY <2>1, <2>2 DEF Update, Databases
  <2> QED
    BY <2>2, <2>3 DEF AtomicNext
<1> QED
  BY <1>1, <1>2, <1>3, <1>4

LEMMA StepIsAtomic ==
  ASSUME DInv, [Next]_vars
  PROVE  [AtomicNext]_db
<1>1. ASSUME NEW c \in Calls, StartCall(c) PROVE UNCHANGED db
  BY <1>1
     DEF StartCall, CreateFindUser, LeaveFindUser, JoinFindRoom, UpdateFindRoom, Start
<1>2. ASSUME NEW c \in Calls, Continue(c) PROVE AtomicNext \/ UNCHANGED db
  <2>1. CASE JoinFindUser(c) \/ JoinReadOld(c) \/ LeaveReadRoom(c) \/ LeaveEmit(c) \/ Abort(c)
    BY <2>1 DEF JoinFindUser, JoinReadOld, LeaveReadRoom, LeaveEmit, Abort, Advance
  <2> QED
    BY <1>2, <2>1, CommitIsAtomic DEF Continue
<1>3. CASE Crash \/ IdsUsedUp \/ UNCHANGED vars
  BY <1>3 DEF Crash, IdsUsedUp, vars
<1> QED
  BY <1>1, <1>2, <1>3 DEF Next

\* Calls that share neither a user nor a room behave, however their database
\* round trips interleave and wherever the process dies, as if each were the
\* one step of Rooms.tla, or had never been made: RoomsService implements Rooms.
THEOREM DisjointCallsAreAtomic ==
  Overlap = "disjoint" => (Spec => ActsAtomically)
<1> SUFFICES ASSUME Overlap = "disjoint" PROVE Spec => ActsAtomically
  OBVIOUS
<1>1. Init => DInv /\ AtomicInit
  BY DInit, InitIsAtomic
<1>2. DInv /\ [Next]_vars => DInv' /\ [AtomicNext]_db
  BY DNext, StepIsAtomic
<1> QED
  BY <1>1, <1>2, PTL DEF Spec, ActsAtomically, AtomicSpec

\* So calls that share neither a user nor a room keep seats and owners in order too, however
\* their round trips interleave, fail or are cut off.
THEOREM DisjointCallsKeepRooms ==
  Overlap = "disjoint" =>
    (Spec => /\ [](SeatsCorrect /\ OwnerPlays)
             /\ OwnershipInherited)
<1> SUFFICES ASSUME Overlap = "disjoint"
             PROVE  Spec => /\ [](SeatsCorrect /\ OwnerPlays)
                            /\ OwnershipInherited
  OBVIOUS
<1>1. Spec => AtomicSpec
  BY DisjointCallsAreAtomic DEF ActsAtomically
<1> QED
  BY <1>1, SeatsAlwaysCorrect, OwnerAlwaysPlays, OwnershipOnlyInherited, PTL
=============================================================================
