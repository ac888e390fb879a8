---------------------------- MODULE RoomsGateway ----------------------------
(***************************************************************************)
(* RoomsGateway (src/modules/rooms/rooms.gateway.ts) behind WsAuthGuard:   *)
(* sockets, the Socket.IO channels they are in, and the timers that make a *)
(* user whose socket is gone leave its room.                               *)
(*                                                                         *)
(* An event is handled in three steps, since other handlers run while it   *)
(* awaits: the guard asks Redis, the service asks Postgres, and then the   *)
(* gateway enters and leaves channels and emits `room:updated'.  Channels  *)
(* are kept in memory, so that the last step waits for nobody.  The        *)
(* service takes one step here, as in Rooms.tla; RoomsService.tla opens it *)
(* up.                                                                     *)
(***************************************************************************)
EXTENDS Rooms, SequencesExt

CONSTANTS Sockets,       \* slots for connections
          Calls,         \* slots for the events under way
          Timers,        \* slots for setTimeout
          Events,        \* the events the clients of a run send
          Environments   \* sets of hazards

ASSUME NoneIsNoTimer == None \notin Timers
ASSUME EventsKnown ==
  Events \subseteq {"create", "join", "rejoin", "leave", "update", "chat"}

AllHazards ==
  {"restart",             \* the process dies and comes back
   "failing leave",       \* of a timer
   "two sockets",         \* of one user at a time
   "drop in a call",      \* a disconnect while a handler runs
   "call during leave",   \* an event while the timer's leave runs
   "overlapping events",  \* of one socket: the second arrives while the first is handled
   "chat",                \* an event of ChatGateway
   "join from own room"}  \* as the only player of another room

ASSUME EnvironmentsKnown == Environments \subseteq SUBSET AllHazards

\* `db' of Rooms holds the rows.
VARIABLES hazards,  \* what may happen in this behaviour
          socket,   \* [Sockets -> SocketRecords]
          call,     \* [Calls -> CallRecords]
          timer,    \* [Timers -> TimerRecords]
          pending,  \* the map pendingLeaves
          sent      \* the `room:updated' emitted in the last step

vars == <<hazards, db, socket, call, timer, pending, sent>>

\* What an emission shows, and the channel it goes to.
Updates == [about : RoomIds, to : RoomIds]

SocketRecords ==
  [bearer : Users \cup {None},      \* whose token the handshake carries
   open   : BOOLEAN,
   user   : Users \cup {None},      \* client.data.user
   roomId : RoomIds \cup {None},    \* client.data.roomId
   rooms  : {s \in UNION {TupleOf(RoomIds, n) : n \in 0..Cardinality(RoomIds)} :
               IsInjective(s)}]     \* client.rooms but its own, as inserted

\* The handler of one event.
CallRecords ==
  [at     : {"idle", "guard", "service", "reply"},
   socket : Sockets \cup {None},    \* client
   event  : Events \cup {None},
   arg    : RoomIds \cup {None},    \* the room of the request, then of the answer
   left   : RoomIds \cup {None}]    \* leftRoom of join, currentRoomId of leave

TimerRecords ==
  [at     : {"off", "armed", "leaving", "reply"},
   user   : Users \cup {None},
   roomId : RoomIds \cup {None},
   result : RoomIds \cup {None}]

NoSocket == [bearer |-> None, open |-> FALSE, user |-> None, roomId |-> None,
             rooms |-> <<>>]

Idle == [at |-> "idle", socket |-> None, event |-> None, arg |-> None, left |-> None]

Off == [at |-> "off", user |-> None, roomId |-> None, result |-> None]

TypeOK ==
  /\ hazards \in Environments
  /\ db \in Databases
  /\ socket \in [Sockets -> SocketRecords]
  /\ call \in [Calls -> CallRecords]
  /\ timer \in [Timers -> TimerRecords]
  /\ pending \in [Users -> Timers \cup {None}]
  /\ sent \in SUBSET Updates

Init ==
  /\ hazards \in Environments
  /\ db = EmptyDatabase
  /\ socket = [s \in Sockets |-> NoSocket]
  /\ call = [c \in Calls |-> Idle]
  /\ timer = [t \in Timers |-> Off]
  /\ pending = [u \in Users |-> None]
  /\ sent = {}

-----------------------------------------------------------------------------
\* Channels

Enter(rooms, r) == IF r \in ToSet(rooms) THEN rooms ELSE Append(rooms, r)

Exit(rooms, r) == RemoveFirst(rooms, r)

\* The first room of client.rooms that is not the socket's own.
CurrentRoom(s) == IF socket[s].rooms = <<>> THEN None ELSE Head(socket[s].rooms)

-----------------------------------------------------------------------------
\* Connections

Handles(c, s) == call[c].at # "idle" /\ call[c].socket = s

Busy(s) == \E c \in Calls : Handles(c, s)

Present(u) == \E s \in Sockets : socket[s].open /\ socket[s].bearer = u

Connect(s, u) ==
  /\ ~socket[s].open /\ ~Busy(s)
  /\ "two sockets" \in hazards \/ ~Present(u)
  /\ socket' = [socket EXCEPT ![s] = [NoSocket EXCEPT !.bearer = u, !.open = TRUE]]
  /\ sent' = {}
  /\ UNCHANGED <<hazards, db, call, timer, pending>>

\* A mistake: only users who are known to be in a room are waited for.
WaitedForInRoom(self) == self.user # None /\ self.roomId # None

WaitedFor(self) == self.user # None

\* What the handlers that still run see of a socket that is gone.
Gone(s) == IF Busy(s) THEN [socket[s] EXCEPT !.open = FALSE, !.rooms = <<>>] ELSE NoSocket

\* handleDisconnect.  The socket has left its channels by then; a handler that
\* still runs for it finds client.join without effect.  Bound: a free timer.
Disconnect(s) ==
  LET self == socket[s]
  IN  /\ self.open
      /\ "drop in a call" \in hazards \/ ~Busy(s)
      /\ socket' = [socket EXCEPT ![s] = Gone(s)]
      /\ IF WaitedFor(self)
           THEN \E t \in Timers :
                  /\ timer[t].at = "off"
                  /\ timer' = [timer EXCEPT ![t] =
                       [Off EXCEPT !.at = "armed", !.user = self.user,
                                   !.roomId = self.roomId]]
                  /\ pending' = [pending EXCEPT ![self.user] = t]
           ELSE UNCHANGED <<timer, pending>>
      /\ sent' = {}
      /\ UNCHANGED <<hazards, db, call>>

-----------------------------------------------------------------------------
\* The guard and the handlers

\* Nothing keeps a client from sending an event while another of its events is handled;
\* without the hazard it waits for the acknowledgement.
Receive(c, s, e, r) ==
  /\ call[c].at = "idle" /\ socket[s].open
  /\ "overlapping events" \in hazards \/ ~Busy(s)
  /\ "chat" \in hazards \/ e # "chat"
  /\ r = None <=> e \in {"create", "leave", "chat"}
  /\ call' = [call EXCEPT ![c] =
                [Idle EXCEPT !.at = "guard", !.socket = s, !.event = e, !.arg = r]]
  /\ sent' = {}
  /\ UNCHANGED <<hazards, db, socket, timer, pending>>

\* The handler is over, and its socket is what it has made of it.  One that is gone is
\* forgotten with its last handler.
End(c, self) ==
  LET s == call[c].socket
  IN  /\ call' = [call EXCEPT ![c] = Idle]
      /\ socket' = [socket EXCEPT ![s] =
                      IF self.open \/ \E d \in Calls \ {c} : Handles(d, s) THEN self
                      ELSE NoSocket]

\* WsAuthGuard: the token is invalid, expired or revoked; or the service, or
\* Postgres, answers with an error.
Reject(c) ==
  /\ call[c].at \in {"guard", "service"}
  /\ End(c, socket[call[c].socket])
  /\ sent' = {}
  /\ UNCHANGED <<hazards, db, timer, pending>>

\* A mistake: the entry is removed and the timer left running.
ForgetPendingLeave(u) ==
  /\ pending' = [pending EXCEPT ![u] = None]
  /\ UNCHANGED timer

CancelPendingLeave(u) ==
  /\ pending' = [pending EXCEPT ![u] = None]
  /\ timer' = IF pending[u] = None THEN timer
              ELSE [timer EXCEPT ![pending[u]] = Off]

Leaving(u) == \E t \in Timers : timer[t].at = "leaving" /\ timer[t].user = u

\* The guard sets data.user, also of a socket that is gone by now; the handler
\* cancels the user's timer, looks up the channel and calls the service.
\* ChatGateway's does none of it.
Guarded(self) == [self EXCEPT !.user = self.bearer]

GuardPasses(c) ==
  LET s == call[c].socket
      u == socket[s].bearer
  IN  /\ call[c].at = "guard"
      /\ "call during leave" \in hazards \/ ~Leaving(u)
      /\ IF call[c].event = "chat"
           THEN End(c, Guarded(socket[s])) /\ UNCHANGED <<timer, pending>>
           ELSE /\ socket' = [socket EXCEPT ![s] = Guarded(@)]
                /\ call' = [call EXCEPT ![c].at = "service",
                             ![c].left = IF call[c].event = "leave" THEN CurrentRoom(s) ELSE None]
                /\ CancelPendingLeave(u)
      /\ sent' = {}
      /\ UNCHANGED <<hazards, db>>

\* What the service answers: a room, and for join the room left.
Answer(c, room, left) ==
  call' = [call EXCEPT ![c].at = "reply", ![c].arg = room, ![c].left = left]

\* leaveRoom in one step: the rows after it, and what it returns.
LeaveOutcomes(u) ==
  LET r == db.member[u]
  IN  {[rows |-> rows, room |-> IF r \in rows.live THEN r ELSE None] :
         rows \in LeaveRoom(db, u, r, RoomSnapshot(db, r))}

Staying(u) == [rows |-> db, room |-> None]

JoinOutcomes(u) == IF db.member[u] = None THEN {Staying(u)} ELSE LeaveOutcomes(u)

MayJoin(u, r) ==
  /\ JoinAllowed(u, r)
  /\ \/ "join from own room" \in hazards
     \/ db.member[u] = None
     \/ PlayersOf(db, db.member[u]) # {u}

Service(c) ==
  LET self == call[c]
      u == socket[self.socket].bearer
      r == self.arg
  IN  /\ self.at = "service"
      /\ \/ /\ self.event = "create"
            /\ db.member[u] = None
            /\ \E new \in FreshIds(db) :
                 db' = InsertRoom(db, u, new) /\ Answer(c, new, None)
         \/ /\ self.event = "join"
            /\ MayJoin(u, r)
            /\ \E o \in JoinOutcomes(u) :
                 db' = AddPlayer(o.rows, u, r, PlayersOf(db, r)) /\ Answer(c, r, o.room)
         \/ /\ self.event = "rejoin"
            /\ r \in db.live /\ db.member[u] = r
            /\ Answer(c, r, None)
            /\ UNCHANGED db
         \/ /\ self.event = "leave"
            /\ db.member[u] # None
            /\ \E o \in LeaveOutcomes(u) :
                 db' = o.rows /\ Answer(c, o.room, self.left)
         \/ /\ self.event = "update"
            /\ r \in db.live /\ db.owner[r] = u
            /\ Answer(c, r, None)
            /\ db' = Rename(db, r)
      /\ sent' = {}
      /\ UNCHANGED <<hazards, socket, timer, pending>>

\* The handler after the service: channels first, then the emissions.  A socket
\* that is gone enters no channel.
EnterIfOpen(self, r) ==
  [self EXCEPT !.rooms = IF self.open THEN Enter(@, r) ELSE @, !.roomId = r]

Shown(room, channel) ==
  IF room = None \/ channel = None THEN {} ELSE {[about |-> room, to |-> channel]}

\* A mistake: the socket stays in the channel of the room it left.
JoinWithoutExit(self, e) == EnterIfOpen(self, e.arg)

JoinReply(self, e) == EnterIfOpen([self EXCEPT !.rooms = Exit(@, e.left)], e.arg)

LeaveReply(self, e) ==
  IF e.left = None THEN self
  ELSE [self EXCEPT !.rooms = Exit(@, e.left), !.roomId = None]

\* What the handler e makes of its socket.
Replied(self, e) ==
  CASE e.event \in {"create", "rejoin"} -> EnterIfOpen(self, e.arg)
    [] e.event = "join"   -> JoinReply(self, e)
    [] e.event = "leave"  -> LeaveReply(self, e)
    [] e.event = "update" -> self

\* A mistake: both rooms of a join are shown to the new one.
EmittedToNewRoom(e) ==
  CASE e.event = "join" -> Shown(e.left, e.arg) \cup Shown(e.arg, e.arg)
    [] e.event = "leave" -> Shown(e.arg, e.left)
    [] e.event \in {"rejoin", "update"} -> Shown(e.arg, e.arg)
    [] e.event = "create" -> {}

Emitted(e) ==
  CASE e.event = "join" -> Shown(e.left, e.left) \cup Shown(e.arg, e.arg)
    [] e.event = "leave" -> Shown(e.arg, e.left)
    [] e.event \in {"rejoin", "update"} -> Shown(e.arg, e.arg)
    [] e.event = "create" -> {}

Reply(c) ==
  /\ call[c].at = "reply"
  /\ End(c, Replied(socket[call[c].socket], call[c]))
  /\ sent' = Emitted(call[c])
  /\ UNCHANGED <<hazards, db, timer, pending>>

-----------------------------------------------------------------------------
\* The callback of setTimeout

\* Sixty seconds are longer than the guard and the service take: what a socket
\* that is gone had started has ended.
CallsEnded(u) == \A s \in Sockets : socket[s].bearer = u /\ Busy(s) => socket[s].open

\* A mistake: the map keeps the entry of a timer that has fired.
FireOnly(t) ==
  /\ timer[t].at = "armed"
  /\ CallsEnded(timer[t].user)
  /\ timer' = [timer EXCEPT ![t].at = "leaving"]
  /\ sent' = {}
  /\ UNCHANGED <<hazards, db, socket, call, pending>>

Fire(t) ==
  /\ timer[t].at = "armed"
  /\ CallsEnded(timer[t].user)
  /\ timer' = [timer EXCEPT ![t].at = "leaving"]
  /\ pending' = [pending EXCEPT ![timer[t].user] = None]
  /\ sent' = {}
  /\ UNCHANGED <<hazards, db, socket, call>>

TimerLeave(t) ==
  LET u == timer[t].user
  IN  /\ timer[t].at = "leaving"
      /\ IF db.member[u] = None
           THEN timer' = [timer EXCEPT ![t] = Off] /\ UNCHANGED db
           ELSE \E o \in LeaveOutcomes(u) :
                  /\ db' = o.rows
                  /\ timer' = [timer EXCEPT ![t].at = "reply", ![t].result = o.room]
      /\ sent' = {}
      /\ UNCHANGED <<hazards, socket, call, pending>>

\* Postgres answers with an error, and the empty catch swallows it.
TimerLeaveFails(t) ==
  /\ "failing leave" \in hazards
  /\ timer[t].at = "leaving"
  /\ timer' = [timer EXCEPT ![t] = Off]
  /\ sent' = {}
  /\ UNCHANGED <<hazards, db, socket, call, pending>>

TimerReply(t) ==
  /\ timer[t].at = "reply"
  /\ timer' = [timer EXCEPT ![t] = Off]
  /\ sent' = Shown(timer[t].result, timer[t].roomId)
  /\ UNCHANGED <<hazards, db, socket, call, pending>>

\* The process dies and comes back without sockets and timers.
Restart ==
  /\ "restart" \in hazards
  /\ socket' = [s \in Sockets |-> NoSocket]
  /\ call' = [c \in Calls |-> Idle]
  /\ timer' = [t \in Timers |-> Off]
  /\ pending' = [u \in Users |-> None]
  /\ sent' = {}
  /\ UNCHANGED <<hazards, db>>

-----------------------------------------------------------------------------

Handle(c) == GuardPasses(c) \/ Service(c) \/ Reply(c)

RunTimer(t) == Fire(t) \/ TimerLeave(t) \/ TimerReply(t)

Next ==
  \/ \E s \in Sockets :
       \/ \E u \in Users : Connect(s, u)
       \/ Disconnect(s)
       \/ \E c \in Calls, e \in Events, r \in RoomIds \cup {None} : Receive(c, s, e, r)
  \/ \E c \in Calls : Handle(c) \/ Reject(c)
  \/ \E t \in Timers : RunTimer(t) \/ TimerLeaveFails(t)
  \/ Restart

Spec == Init /\ [][Next]_vars

\* A call is answered in the end, and node runs the timers that are due.
FairSpec ==
  /\ Spec
  /\ \A c \in Calls : WF_vars(Handle(c) \/ Reject(c))
  /\ \A t \in Timers : WF_vars(RunTimer(t))

-----------------------------------------------------------------------------

\* An entry of pendingLeaves is a timer of that user that can still be
\* cancelled, never one that has fired or was cleared (rooms.gateway.ts:42, 64).
EntriesAreArmed ==
  \A u \in Users : pending[u] # None =>
    timer[pending[u]].at = "armed" /\ timer[pending[u]].user = u

-----------------------------------------------------------------------------
\* What holds for a client that waits for the acknowledgement of an event before it
\* sends the next one, as long as none of the other hazards occurs either: each of those
\* left out breaks what follows, see the README.

\* A restart, or a timer whose leave fails, costs a seat its timer and nothing else.
Orderly == hazards \subseteq {"restart", "failing leave"}

\* A user who sits in a room is there with a socket, or a timer runs that will
\* make it leave (handleDisconnect), whatever events it sent in between.
SeatedIsWatched ==
  hazards = {} =>
    \A u \in Users :
      db.member[u] # None /\ ~Present(u) => \E t \in Timers : timer[t].user = u

\* A user who goes away for good loses its seat in the end.
AwayLeaves ==
  hazards = {} =>
    \A u \in Users : <>[]~Present(u) => <>[](db.member[u] = None)

\* A user whose open socket was acknowledged in the room it sits in (join or
\* rejoin after a disconnect) is not taken out of it by a timer.
Acknowledged(u) ==
  \E s \in Sockets : socket[s].open /\ socket[s].bearer = u
                       /\ db.member[u] \in ToSet(socket[s].rooms)

ReturnedIsKept ==
  [][\A t \in Timers :
       Orderly /\ timer[t].at = "leaving" /\ db' # db /\ timer'[t] # timer[t]
         => ~Acknowledged(timer[t].user)]_vars

\* Who listens to the channel of a room that exists plays in it, while no call
\* of the socket is running.  Were a LEAVE to overlap a JOIN of the same socket, it would
\* leave the old channel a second time and never the new one (rooms.gateway.ts:167).
ListenersPlay ==
  Orderly =>
    \A s \in Sockets : socket[s].open /\ ~Busy(s) =>
      ToSet(socket[s].rooms) \cap db.live \subseteq {db.member[socket[s].bearer]}

\* `Notify other users' (rooms.gateway.ts:71): the new state of a room is sent
\* to that room's channel and to no other.  Were a LEAVE to overlap a JOIN of the same
\* socket, the state of the new room would go to the channel of the old one (:177).
UpdatesReachTheirRoom == Orderly => \A e \in sent : e.to = e.about
=============================================================================
