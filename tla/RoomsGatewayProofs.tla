------------------------- MODULE RoomsGatewayProofs -------------------------
(***************************************************************************)
(* What RoomsGateway keeps for any number of users, rooms, sockets, events *)
(* under way and timers.  In every environment, the map of pending leaves  *)
(* only refers to timers that can still be cancelled.  In an orderly one,  *)
(* sockets listen to the room their users play in, updates go there, and   *)
(* no timer touches a user who is back, whatever restarts and leaves that  *)
(* fail; in the calm one, a user who is away is watched by a timer.        *)
(***************************************************************************)
EXTENDS RoomsGateway, RoomsProofs

\* The fields of a socket, a call and a timer.  What is in most of them depends on
\* the rows and does not matter here.
SocketFields == {"bearer", "open", "user", "roomId", "rooms"}

CallFields == {"at", "socket", "event", "arg", "left"}

TimerFields == {"at", "user", "roomId", "result"}

IsSocket(self) == self = [field \in SocketFields |-> self[field]]

IsCall(e) == e = [field \in CallFields |-> e[field]]

IsTimer(self) == self = [field \in TimerFields |-> self[field]]

Answered == {"create", "join", "rejoin", "leave", "update"}

CallOK(e) ==
  /\ IsCall(e)
  /\ e.at # "idle" => e.socket \in Sockets
  /\ e.at = "reply" => e.event \in Answered

SocketsOK ==
  /\ socket = [s \in Sockets |-> socket[s]]
  /\ \A s \in Sockets : IsSocket(socket[s])
  /\ \A s \in Sockets : socket[s].open \/ Busy(s) => socket[s].bearer \in Users

CallsOK ==
  /\ call = [c \in Calls |-> call[c]]
  /\ \A c \in Calls : CallOK(call[c])

TimersOK ==
  /\ timer = [t \in Timers |-> timer[t]]
  /\ \A t \in Timers : IsTimer(timer[t])

\* EntriesAreArmed needs that a socket in a call has a bearer: cancelling the
\* leave of nobody could clear any timer.
IInv ==
  /\ SocketsOK
  /\ CallsOK
  /\ TimersOK
  /\ pending \in [Users -> Timers \cup {None}]
  /\ EntriesAreArmed

-----------------------------------------------------------------------------
\* Sockets and calls

LEMMA NoSocketOK == IsSocket(NoSocket) /\ ~NoSocket.open /\ NoSocket.user = None
BY DEF IsSocket, NoSocket, SocketFields

LEMMA IdleOK == CallOK(Idle) /\ Idle.at = "idle"
BY DEF CallOK, IsCall, Idle, CallFields

LEMMA InACall ==
  ASSUME IInv, NEW c \in Calls, call[c].at # "idle"
  PROVE  /\ call[c].socket \in Sockets /\ Busy(call[c].socket) /\ IsCall(call[c])
         /\ IsSocket(socket[call[c].socket])
         /\ socket[call[c].socket].bearer \in Users
         /\ call[c].at = "reply" => call[c].event \in Answered
<1>1. CallOK(call[c])
  BY DEF IInv, CallsOK
<1>2. call[c].socket \in Sockets /\ Busy(call[c].socket)
  BY <1>1 DEF CallOK, Busy, Handles
<1> QED
  BY <1>1, <1>2 DEF IInv, SocketsOK, CallOK

\* A socket and one of its calls go on.
LEMMA CallMoves ==
  ASSUME IInv, NEW c \in Calls, NEW s \in Sockets,
         NEW e, CallOK(e), e.at # "idle" => e.socket = s,
         call[c].at # "idle" => call[c].socket = s,
         NEW self, IsSocket(self), self.bearer \in Users,
         call' = [call EXCEPT ![c] = e], socket' = [socket EXCEPT ![s] = self]
  PROVE  SocketsOK' /\ CallsOK'
<1>1. /\ \A x \in Sockets : socket'[x] = IF x = s THEN self ELSE socket[x]
      /\ \A d \in Calls : call'[d] = IF d = c THEN e ELSE call[d]
  BY DEF IInv, SocketsOK, CallsOK
<1>2. CallsOK'
  <2>1. call' = [d \in Calls |-> call'[d]]
    BY DEF IInv, CallsOK
  <2> QED
    BY <1>1, <2>1 DEF IInv, CallsOK, CallOK, IsCall
<1>3. \A x \in Sockets : x # s /\ Busy(x)' => Busy(x)
  BY <1>1 DEF Busy, Handles
<1>4. SocketsOK'
  <2>1. socket' = [x \in Sockets |-> socket'[x]]
    BY DEF IInv, SocketsOK
  <2>2. \A x \in Sockets : IsSocket(socket'[x])
    BY <1>1 DEF IInv, SocketsOK
  <2>3. \A x \in Sockets : socket'[x].open \/ Busy(x)' => socket'[x].bearer \in Users
    BY <1>1, <1>3 DEF IInv, SocketsOK
  <2> QED
    BY <2>1, <2>2, <2>3 DEF SocketsOK, IsSocket
<1> QED
  BY <1>2, <1>4

\* A call ends, and with it maybe its socket.
LEMMA EndOK ==
  ASSUME IInv, NEW c \in Calls, call[c].at # "idle",
         NEW self, IsSocket(self), self.bearer \in Users, End(c, self)
  PROVE  SocketsOK' /\ CallsOK'
<1>1. PICK s, over : s = call[c].socket /\ over = Idle
  OBVIOUS
<1>2. s \in Sockets /\ CallOK(over) /\ over.at = "idle"
  BY <1>1, InACall, IdleOK
<1>3. CASE socket' = [socket EXCEPT ![s] = self]
  BY <1>1, <1>2, <1>3, CallMoves DEF End
<1>4. CASE socket' # [socket EXCEPT ![s] = self]
  <2>1. /\ socket' = [socket EXCEPT ![s] = NoSocket] /\ call' = [call EXCEPT ![c] = over]
        /\ \A d \in Calls \ {c} : ~Handles(d, s)
    BY <1>1, <1>4 DEF End
  <2>2. /\ \A x \in Sockets : socket'[x] = IF x = s THEN NoSocket ELSE socket[x]
        /\ \A d \in Calls : call'[d] = IF d = c THEN over ELSE call[d]
    BY <2>1 DEF IInv, SocketsOK, CallsOK
  <2>3. CallsOK'
    <3>1. call' = [d \in Calls |-> call'[d]]
      BY <2>1 DEF IInv, CallsOK
    <3> QED
      BY <1>2, <2>2, <3>1 DEF IInv, CallsOK, CallOK, IsCall
  <2>4. \A x \in Sockets : Busy(x)' => x # s /\ Busy(x)
    BY <1>2, <2>1, <2>2 DEF Busy, Handles
  <2>5. SocketsOK'
    <3>1. socket' = [x \in Sockets |-> socket'[x]]
      BY <2>1 DEF IInv, SocketsOK
    <3>2. \A x \in Sockets : IsSocket(socket'[x])
      BY <2>2, NoSocketOK DEF IInv, SocketsOK
    <3>3. \A x \in Sockets : socket'[x].open \/ Busy(x)' => socket'[x].bearer \in Users
      BY <2>2, <2>4, NoSocketOK DEF IInv, SocketsOK
    <3> QED
      BY <3>1, <3>2, <3>3 DEF SocketsOK, IsSocket
  <2> QED
    BY <2>3, <2>5
<1> QED
  BY <1>3, <1>4

LEMMA SocketsUntouched ==
  ASSUME IInv, UNCHANGED <<socket, call>>
  PROVE  SocketsOK' /\ CallsOK'
BY DEF IInv, SocketsOK, CallsOK, CallOK, IsSocket, IsCall, Busy, Handles

LEMMA GuardedOK ==
  ASSUME NEW self, IsSocket(self)
  PROVE  /\ IsSocket(Guarded(self)) /\ Guarded(self).open = self.open
         /\ Guarded(self).bearer = self.bearer /\ Guarded(self).user = self.bearer
         /\ Guarded(self).rooms = self.rooms /\ Guarded(self).roomId = self.roomId
BY DEF Guarded, IsSocket, SocketFields

LEMMA EnterIfOpenOK ==
  ASSUME NEW self, IsSocket(self), NEW r
  PROVE  IsSocket(EnterIfOpen(self, r)) /\ EnterIfOpen(self, r).bearer = self.bearer
<1> DEFINE channels == IF self.open THEN Enter(self.rooms, r) ELSE self.rooms
           new      == [self EXCEPT !.rooms = channels, !.roomId = r]
<1>1. EnterIfOpen(self, r) = new
  BY DEF EnterIfOpen
<1> HIDE DEF channels
<1> QED
  BY <1>1 DEF IsSocket, SocketFields

LEMMA RepliedOK ==
  ASSUME NEW self, IsSocket(self), NEW e, e.event \in Answered
  PROVE  IsSocket(Replied(self, e)) /\ Replied(self, e).bearer = self.bearer
<1>1. CASE e.event \in {"create", "rejoin"}
  BY <1>1, EnterIfOpenOK DEF Replied
<1>2. CASE e.event = "join"
  <2> DEFINE out == [self EXCEPT !.rooms = Exit(@, e.left)]
  <2>1. IsSocket(out) /\ out.bearer = self.bearer
    BY DEF IsSocket, SocketFields
  <2>2. Replied(self, e) = EnterIfOpen(out, e.arg)
    BY <1>2 DEF Replied, JoinReply
  <2> HIDE DEF out
  <2> QED
    BY <2>1, <2>2, EnterIfOpenOK
<1>3. CASE e.event = "leave"
  <2>1. Replied(self, e) = LeaveReply(self, e)
    BY <1>3 DEF Replied
  <2> QED
    BY <2>1 DEF LeaveReply, IsSocket, SocketFields
<1>4. CASE e.event = "update"
  BY <1>4 DEF Replied
<1> QED
  BY <1>1, <1>2, <1>3, <1>4 DEF Answered

-----------------------------------------------------------------------------
\* Timers and their map

\* A step that leaves the timers and their map alone.
LEMMA TimersUntouched ==
  ASSUME IInv, UNCHANGED <<timer, pending>>
  PROVE  TimersOK' /\ pending' \in [Users -> Timers \cup {None}] /\ EntriesAreArmed'
BY DEF IInv, TimersOK, IsTimer, EntriesAreArmed

\* Changing a timer to which no entry refers afterwards.
LEMMA TimerMoves ==
  ASSUME IInv, NEW t \in Timers, NEW self, IsTimer(self),
         timer' = [timer EXCEPT ![t] = self],
         pending' \in [Users -> Timers \cup {None}],
         \A u \in Users : pending'[u] # None =>
           \/ pending'[u] = pending[u] /\ pending[u] # t
           \/ pending'[u] = t /\ self.at = "armed" /\ self.user = u
  PROVE  TimersOK' /\ EntriesAreArmed'
<1>1. ASSUME NEW x \in Timers
      PROVE  timer'[x] = IF x = t THEN self ELSE timer[x]
  BY DEF IInv, TimersOK
<1>2. TimersOK'
  <2>1. \A x \in Timers : IsTimer(timer'[x])
    BY <1>1 DEF IInv, TimersOK
  <2>2. timer' = [x \in Timers |-> timer'[x]]
    BY DEF IInv, TimersOK
  <2> QED
    BY <2>1, <2>2 DEF TimersOK, IsTimer
<1>3. ASSUME NEW u \in Users, pending'[u] # None
      PROVE  timer'[pending'[u]].at = "armed" /\ timer'[pending'[u]].user = u
  <2>1. pending'[u] \in Timers /\ pending[u] \in Timers \cup {None}
    BY <1>3 DEF IInv
  <2>2. CASE pending'[u] = pending[u] /\ pending[u] # t
    BY <1>1, <1>3, <2>1, <2>2 DEF IInv, EntriesAreArmed
  <2>3. CASE pending'[u] = t /\ self.at = "armed" /\ self.user = u
    BY <1>1, <2>3
  <2> QED
    BY <1>3, <2>2, <2>3
<1> QED
  BY <1>2, <1>3 DEF EntriesAreArmed

\* An entry that is cancelled was the only one to refer to its timer, since a
\* timer has one user.
LEMMA CancelOK ==
  ASSUME IInv, NEW u \in Users, CancelPendingLeave(u)
  PROVE  TimersOK' /\ pending' \in [Users -> Timers \cup {None}] /\ EntriesAreArmed'
<1>1. /\ pending' = [pending EXCEPT ![u] = None]
      /\ pending' \in [Users -> Timers \cup {None}]
  BY DEF CancelPendingLeave, IInv
<1>2. CASE pending[u] = None
  <2>1. timer' = timer /\ pending' = pending
    BY <1>1, <1>2 DEF CancelPendingLeave, IInv
  <2> QED
    BY <2>1, TimersUntouched
<1>3. CASE pending[u] # None
  <2>1. pending[u] \in Timers /\ timer' = [timer EXCEPT ![pending[u]] = Off]
    BY <1>3 DEF CancelPendingLeave, IInv
  <2>2. IsTimer(Off)
    BY DEF IsTimer, Off, TimerFields
  <2>3. ASSUME NEW v \in Users, pending'[v] # None
        PROVE  pending'[v] = pending[v] /\ pending[v] # pending[u]
    <3>1. v # u /\ pending'[v] = pending[v]
      BY <1>1, <2>3 DEF IInv
    <3> QED
      BY <1>3, <2>3, <3>1 DEF IInv, EntriesAreArmed
  <2> QED
    BY <1>1, <2>1, <2>2, <2>3, TimerMoves
<1> QED
  BY <1>2, <1>3

\* A timer that has fired is in no entry, so it may go on as it likes.
LEMMA FiredMoves ==
  ASSUME IInv, NEW t \in Timers, timer[t].at # "armed", NEW self, IsTimer(self),
         timer' = [timer EXCEPT ![t] = self], pending' = pending
  PROVE  TimersOK' /\ pending' \in [Users -> Timers \cup {None}] /\ EntriesAreArmed'
<1>1. \A u \in Users : pending[u] # None => pending[u] # t
  BY DEF IInv, EntriesAreArmed
<1>2. pending' \in [Users -> Timers \cup {None}]
  BY DEF IInv
<1> QED
  BY <1>1, <1>2, TimerMoves

-----------------------------------------------------------------------------
\* The steps

LEMMA InitOK == Init => IInv
<1> SUFFICES ASSUME Init PROVE IInv
  OBVIOUS
<1>1. SocketsOK /\ CallsOK
  BY NoSocketOK, IdleOK DEF Init, SocketsOK, CallsOK, Busy, Handles
<1>2. TimersOK
  BY DEF Init, TimersOK, IsTimer, Off, TimerFields
<1>3. pending \in [Users -> Timers \cup {None}] /\ EntriesAreArmed
  BY DEF Init, EntriesAreArmed
<1> QED
  BY <1>1, <1>2, <1>3 DEF IInv

LEMMA ConnectOK ==
  ASSUME IInv, NEW s \in Sockets, NEW u \in Users, Connect(s, u)
  PROVE  IInv'
<1> DEFINE new == [NoSocket EXCEPT !.bearer = u, !.open = TRUE]
<1>1. IsSocket(new) /\ new.bearer = u
  BY DEF IsSocket, NoSocket, SocketFields
<1>2. socket' = [socket EXCEPT ![s] = new] /\ UNCHANGED <<call, timer, pending>>
  BY DEF Connect
<1> HIDE DEF new
<1>3. \A x \in Sockets : socket'[x] = IF x = s THEN new ELSE socket[x]
  BY <1>2 DEF IInv, SocketsOK
<1>4. SocketsOK'
  <2>1. socket' = [x \in Sockets |-> socket'[x]]
    BY <1>2 DEF IInv, SocketsOK
  <2> QED
    BY <1>1, <1>2, <1>3, <2>1 DEF IInv, SocketsOK, IsSocket, Busy, Handles
<1>5. CallsOK'
  BY <1>2 DEF IInv, CallsOK, CallOK, IsCall
<1> QED
  BY <1>2, <1>4, <1>5, TimersUntouched DEF IInv

\* The entry of an earlier disconnect is overwritten by that of a timer that
\* was free, hence in no entry.
LEMMA DisconnectOK ==
  ASSUME IInv, NEW s \in Sockets, Disconnect(s)
  PROVE  IInv'
<1> DEFINE self == socket[s]
<1>1. SocketsOK' /\ CallsOK'
  <2>1. PICK gone : gone = Gone(s)
    OBVIOUS
  <2>2. socket' = [socket EXCEPT ![s] = gone] /\ UNCHANGED call
    BY <2>1 DEF Disconnect
  <2>3. /\ IsSocket(gone) /\ ~gone.open
        /\ Busy(s) => gone.bearer = self.bearer /\ self.bearer \in Users
    <3>1. CASE Busy(s)
      <4>1. IsSocket(self) /\ self.bearer \in Users
        BY <3>1 DEF IInv, SocketsOK
      <4> QED
        BY <2>1, <3>1, <4>1 DEF Gone, IsSocket, SocketFields
    <3>2. CASE ~Busy(s)
      BY <2>1, <3>2, NoSocketOK DEF Gone
    <3> QED
      BY <3>1, <3>2
  <2>4. \A x \in Sockets : socket'[x] = IF x = s THEN gone ELSE socket[x]
    BY <2>2 DEF IInv, SocketsOK
  <2>5. \A x \in Sockets : Busy(x)' <=> Busy(x)
    BY <2>2 DEF Busy, Handles
  <2>6. socket' = [x \in Sockets |-> socket'[x]] /\ \A x \in Sockets : IsSocket(socket'[x])
    BY <2>2, <2>3, <2>4 DEF IInv, SocketsOK
  <2>7. \A x \in Sockets : socket'[x].open \/ Busy(x)' => socket'[x].bearer \in Users
    BY <2>3, <2>4, <2>5 DEF IInv, SocketsOK
  <2>8. CallsOK'
    BY <2>2 DEF IInv, CallsOK, CallOK, IsCall
  <2> QED
    BY <2>6, <2>7, <2>8 DEF SocketsOK, IsSocket
<1>2. CASE UNCHANGED <<timer, pending>>
  BY <1>1, <1>2, TimersUntouched DEF IInv
<1>3. CASE ~UNCHANGED <<timer, pending>>
  <2>1. PICK t \in Timers :
          /\ timer[t].at = "off"
          /\ timer' = [timer EXCEPT ![t] = [Off EXCEPT !.at = "armed", !.user = self.user,
                                                       !.roomId = self.roomId]]
          /\ pending' = [pending EXCEPT ![self.user] = t]
    BY <1>3 DEF Disconnect
  <2> DEFINE armed == [Off EXCEPT !.at = "armed", !.user = self.user, !.roomId = self.roomId]
  <2>2. IsTimer(armed)
    BY DEF IsTimer, Off, TimerFields
  <2>3. armed.at = "armed" /\ armed.user = self.user
    BY DEF Off
  <2>4. timer' = [timer EXCEPT ![t] = armed]
    BY <2>1
  <2> HIDE DEF armed
  <2>5. pending' \in [Users -> Timers \cup {None}]
    BY <2>1 DEF IInv
  <2>6. ASSUME NEW u \in Users, pending'[u] # None
        PROVE  \/ pending'[u] = pending[u] /\ pending[u] # t
               \/ pending'[u] = t /\ armed.at = "armed" /\ armed.user = u
    <3>1. CASE u = self.user
      BY <2>1, <2>3, <3>1 DEF IInv
    <3>2. CASE u # self.user
      <4>1. pending'[u] = pending[u]
        BY <2>1, <3>2 DEF IInv
      <4> QED
        BY <2>1, <2>6, <4>1 DEF IInv, EntriesAreArmed
    <3> QED
      BY <3>1, <3>2
  <2>7. TimersOK' /\ EntriesAreArmed'
    BY <2>2, <2>4, <2>5, <2>6, TimerMoves
  <2> QED
    BY <1>1, <2>5, <2>7 DEF IInv
<1> QED
  BY <1>2, <1>3

LEMMA ReceiveOK ==
  ASSUME IInv, NEW c \in Calls, NEW s \in Sockets, NEW e \in Events, NEW r,
         Receive(c, s, e, r)
  PROVE  IInv'
<1> DEFINE new == [Idle EXCEPT !.at = "guard", !.socket = s, !.event = e, !.arg = r]
<1>1. IsSocket(socket[s]) /\ socket[s].bearer \in Users
  BY DEF IInv, SocketsOK, Receive
<1>2. CallOK(new) /\ new.socket = s
  BY DEF CallOK, IsCall, Idle, CallFields
<1>3. /\ call' = [call EXCEPT ![c] = new] /\ UNCHANGED <<socket, timer, pending>>
      /\ call[c].at = "idle"
  BY DEF Receive
<1> HIDE DEF new
<1>4. socket' = [socket EXCEPT ![s] = socket[s]]
  BY <1>3 DEF IInv, SocketsOK
<1>5. SocketsOK' /\ CallsOK'
  BY <1>1, <1>2, <1>3, <1>4, CallMoves
<1> QED
  BY <1>3, <1>5, TimersUntouched DEF IInv

LEMMA RejectOK ==
  ASSUME IInv, NEW c \in Calls, Reject(c)
  PROVE  IInv'
<1>1. call[c].at # "idle" /\ UNCHANGED <<timer, pending>>
  BY DEF Reject
<1>2. SocketsOK' /\ CallsOK'
  BY <1>1, InACall, EndOK DEF Reject
<1> QED
  BY <1>1, <1>2, TimersUntouched DEF IInv

LEMMA GuardPassesOK ==
  ASSUME IInv, NEW c \in Calls, GuardPasses(c)
  PROVE  IInv'
<1>1. PICK s, self, e : s = call[c].socket /\ self = Guarded(socket[s]) /\ e = call[c]
  OBVIOUS
<1>2. /\ e.at = "guard" /\ IsCall(e) /\ s \in Sockets /\ IsSocket(self)
      /\ self.bearer = socket[s].bearer /\ self.bearer \in Users
  BY <1>1, InACall, GuardedOK DEF GuardPasses
<1>3. CASE e.event = "chat"
  <2>1. End(c, self) /\ UNCHANGED <<timer, pending>>
    BY <1>1, <1>3 DEF GuardPasses
  <2>2. SocketsOK' /\ CallsOK'
    BY <1>1, <1>2, <2>1, EndOK
  <2> QED
    BY <2>1, <2>2, TimersUntouched DEF IInv
<1>4. CASE e.event # "chat"
  <2>1. PICK left : /\ call' = [call EXCEPT ![c].at = "service", ![c].left = left]
                    /\ socket' = [socket EXCEPT ![s] = self]
                    /\ CancelPendingLeave(socket[s].bearer)
    BY <1>1, <1>4 DEF GuardPasses
  <2>2. PICK new : new = [e EXCEPT !.at = "service", !.left = left]
    OBVIOUS
  <2>3. CallOK(new) /\ new.socket = s
    BY <1>1, <1>2, <2>2 DEF CallOK, IsCall, CallFields
  <2>4. call' = [call EXCEPT ![c] = new]
    BY <1>1, <2>1, <2>2 DEF IInv, CallsOK
  <2>5. SocketsOK' /\ CallsOK'
    BY <1>1, <1>2, <2>1, <2>3, <2>4, CallMoves
  <2>6. TimersOK' /\ pending' \in [Users -> Timers \cup {None}] /\ EntriesAreArmed'
    BY <1>2, <2>1, CancelOK
  <2> QED
    BY <2>5, <2>6 DEF IInv
<1> QED
  BY <1>3, <1>4

LEMMA ServiceOK ==
  ASSUME IInv, NEW c \in Calls, Service(c)
  PROVE  IInv'
<1>1. PICK s, e : s = call[c].socket /\ e = call[c]
  OBVIOUS
<1>2. /\ e.at = "service" /\ e.event \in Answered /\ UNCHANGED <<socket, timer, pending>>
  BY <1>1 DEF Service, Answered
<1>3. IsCall(e) /\ s \in Sockets /\ IsSocket(socket[s]) /\ socket[s].bearer \in Users
  BY <1>1, <1>2, InACall
<1>4. PICK room, left : Answer(c, room, left)
  BY DEF Service
<1>5. PICK new : new = [e EXCEPT !.at = "reply", !.arg = room, !.left = left]
  OBVIOUS
<1>6. CallOK(new) /\ new.socket = s
  BY <1>1, <1>2, <1>3, <1>5 DEF CallOK, IsCall, CallFields
<1>7. call' = [call EXCEPT ![c] = new] /\ socket' = [socket EXCEPT ![s] = socket[s]]
  BY <1>1, <1>2, <1>4, <1>5 DEF Answer, IInv, CallsOK, SocketsOK
<1>8. SocketsOK' /\ CallsOK'
  BY <1>1, <1>3, <1>6, <1>7, CallMoves
<1> QED
  BY <1>2, <1>8, TimersUntouched DEF IInv

LEMMA ReplyOK ==
  ASSUME IInv, NEW c \in Calls, Reply(c)
  PROVE  IInv'
<1>1. PICK s, self : s = call[c].socket /\ self = Replied(socket[s], call[c])
  OBVIOUS
<1>2. call[c].at = "reply" /\ End(c, self) /\ UNCHANGED <<timer, pending>>
  BY <1>1 DEF Reply
<1>3. IsSocket(self) /\ self.bearer \in Users
  BY <1>1, <1>2, InACall, RepliedOK
<1>4. SocketsOK' /\ CallsOK'
  BY <1>2, <1>3, EndOK
<1> QED
  BY <1>2, <1>4, TimersUntouched DEF IInv

\* The entry of a timer that fires is its user's, and it is removed.
LEMMA FireOK ==
  ASSUME IInv, NEW t \in Timers, Fire(t)
  PROVE  IInv'
<1> DEFINE new == [timer[t] EXCEPT !.at = "leaving"]
<1>1. timer' = [timer EXCEPT ![t] = new]
  BY DEF Fire, IInv, TimersOK
<1>2. IsTimer(new)
  BY DEF IInv, TimersOK, IsTimer, TimerFields
<1> HIDE DEF new
<1>3. /\ pending' = [pending EXCEPT ![timer[t].user] = None]
      /\ pending' \in [Users -> Timers \cup {None}]
  BY DEF Fire, IInv
<1>4. ASSUME NEW u \in Users, pending'[u] # None
      PROVE  pending'[u] = pending[u] /\ pending[u] # t
  <2>1. u # timer[t].user /\ pending'[u] = pending[u]
    BY <1>3, <1>4 DEF IInv
  <2> QED
    BY <1>4, <2>1 DEF IInv, EntriesAreArmed
<1>5. TimersOK' /\ EntriesAreArmed'
  BY <1>1, <1>2, <1>3, <1>4, TimerMoves
<1>6. SocketsOK' /\ CallsOK'
  BY SocketsUntouched DEF Fire
<1> QED
  BY <1>3, <1>5, <1>6 DEF IInv

LEMMA LeaveOK ==
  ASSUME IInv, NEW t \in Timers, TimerLeave(t) \/ TimerLeaveFails(t) \/ TimerReply(t)
  PROVE  IInv'
<1>1. timer[t].at # "armed" /\ pending' = pending /\ UNCHANGED <<socket, call>>
  BY DEF TimerLeave, TimerLeaveFails, TimerReply
<1>2. SocketsOK' /\ CallsOK'
  BY <1>1, SocketsUntouched
<1>3. CASE timer' = [timer EXCEPT ![t] = Off]
  <2>1. IsTimer(Off)
    BY DEF IsTimer, Off, TimerFields
  <2> QED
    BY <1>1, <1>2, <1>3, <2>1, FiredMoves DEF IInv
<1>4. CASE timer' # [timer EXCEPT ![t] = Off]
  <2>1. PICK o : timer' = [timer EXCEPT ![t].at = "reply", ![t].result = o]
    BY <1>4 DEF TimerLeave, TimerLeaveFails, TimerReply
  <2> DEFINE new == [timer[t] EXCEPT !.at = "reply", !.result = o]
  <2>2. timer' = [timer EXCEPT ![t] = new]
    BY <2>1 DEF IInv, TimersOK
  <2>3. IsTimer(new)
    BY DEF IInv, TimersOK, IsTimer, TimerFields
  <2> HIDE DEF new
  <2> QED
    BY <1>1, <1>2, <2>2, <2>3, FiredMoves DEF IInv
<1> QED
  BY <1>3, <1>4

LEMMA RestartOK ==
  ASSUME IInv, Restart
  PROVE  IInv'
<1>1. SocketsOK' /\ CallsOK'
  <2>1. /\ \A s \in Sockets : socket'[s] = NoSocket
        /\ \A c \in Calls : call'[c] = Idle
        /\ socket' = [s \in Sockets |-> socket'[s]] /\ call' = [c \in Calls |-> call'[c]]
    BY DEF Restart
  <2>2. \A s \in Sockets : ~Busy(s)'
    BY <2>1, IdleOK DEF Busy, Handles
  <2> QED
    BY <2>1, <2>2, NoSocketOK, IdleOK DEF SocketsOK, CallsOK, IsSocket, CallOK, IsCall
<1>2. TimersOK'
  BY DEF Restart, TimersOK, IsTimer, Off, TimerFields
<1>3. pending' \in [Users -> Timers \cup {None}] /\ EntriesAreArmed'
  BY DEF Restart, EntriesAreArmed
<1> QED
  BY <1>1, <1>2, <1>3 DEF IInv

LEMMA NextOK == IInv /\ [Next]_vars => IInv'
<1> SUFFICES ASSUME IInv, [Next]_vars PROVE IInv'
  OBVIOUS
<1>1. CASE UNCHANGED vars
  <2>1. SocketsOK' /\ CallsOK'
    BY <1>1, SocketsUntouched DEF vars
  <2> QED
    BY <1>1, <2>1, TimersUntouched DEF vars, IInv
<1>2. CASE Next
  BY <1>2, ConnectOK, DisconnectOK, ReceiveOK, RejectOK, GuardPassesOK, ServiceOK, ReplyOK,
     FireOK, LeaveOK, RestartOK DEF Next, Handle, RunTimer
<1> QED
  BY <1>1, <1>2

-----------------------------------------------------------------------------

\* However connections, events, timers, failures and restarts interleave, an
\* entry of pendingLeaves is a timer of its user that has neither fired nor been
\* cleared (rooms.gateway.ts:42, 64, 85).
THEOREM EntriesAlwaysArmed == Spec => []EntriesAreArmed
<1>1. IInv => EntriesAreArmed
  BY DEF IInv
<1> QED
  BY <1>1, InitOK, NextOK, PTL DEF Spec

-----------------------------------------------------------------------------
\* Orderly environments: one socket for each user, one timer at most, and an event at
\* a time.

RowsOK == db \in Databases /\ ForeignKeyOK(db)

Waits(record) == record.at \in {"armed", "leaving"}

Agree(r, x) == r # None /\ x # None => r = x

\* What a client holds and is answered, whose user sits in `room'.
InPlace(e, self, room) ==
  /\ e.at # "reply" \/ e.event \in {"create", "rejoin", "update"} =>
       self.roomId \in {None, room}
  /\ e.at \in {"service", "reply"} /\ e.event = "leave" => e.left = self.roomId
  /\ e.at = "reply" =>
       /\ e.event \in {"create", "join", "rejoin"} => e.arg = room /\ room # None
       /\ e.event = "join" => self.roomId \in {None, e.left}
       /\ e.event = "leave" => room = None /\ Agree(e.arg, self.roomId)

\* The socket is in the channel of data.roomId and in no other.
CalmSocket(self) ==
  /\ self.rooms = IF self.roomId = None THEN <<>> ELSE <<self.roomId>>
  /\ self.user # self.bearer => self.user = None /\ self.roomId = None

\* The user of a socket is known as soon as a handler has run.
CalmCall(e, self, room) ==
  /\ e.at \in {"guard", "service", "reply"}
  /\ e.at = "guard" => e.event # "chat"
  /\ e.at # "guard" => self.user = self.bearer
  /\ InPlace(e, self, room)

Room(self) == db.member[self.bearer]

SocketsCalm ==
  \A s \in Sockets :
    IF socket[s].open
      THEN /\ CalmSocket(socket[s])
           /\ ~Busy(s) => socket[s].roomId \in {None, Room(socket[s])}
      ELSE socket[s] = NoSocket

CallsCalm ==
  \A c \in Calls :
    call[c].at # "idle" =>
      /\ socket[call[c].socket].open
      /\ CalmCall(call[c], socket[call[c].socket], Room(socket[call[c].socket]))

\* A client waits for the acknowledgement.
OneCall ==
  \A c, d \in Calls :
    call[c].at # "idle" /\ call[d].at # "idle" /\ call[c].socket = call[d].socket => c = d

TimersCalm ==
  \A t \in Timers :
    /\ Waits(timer[t]) =>
         /\ timer[t].user \in Users
         /\ timer[t].roomId \in {None, db.member[timer[t].user]}
    /\ timer[t].at = "reply" => Agree(timer[t].result, timer[t].roomId)

\* Nobody is waited for twice, or while it is back and has been recognised.
OneEach ==
  /\ \A s, x \in Sockets :
       socket[s].open /\ socket[x].open /\ socket[s].bearer = socket[x].bearer => s = x
  /\ \A t, x \in Timers :
       Waits(timer[t]) /\ Waits(timer[x]) /\ timer[t].user = timer[x].user => t = x
  /\ \A t \in Timers, s \in Sockets : Waits(timer[t]) => timer[t].user # socket[s].user

Cancellable == \A t \in Timers : timer[t].at = "armed" => pending[timer[t].user] = t

\* Restarts and leaves that fail break this one.
Watched ==
  \A u \in Users :
    db.member[u] # None =>
      \/ \E s \in Sockets : socket[s].user = u
      \/ \E t \in Timers : Waits(timer[t]) /\ timer[t].user = u

CalmInv ==
  /\ RowsOK
  /\ SocketsCalm
  /\ CallsCalm
  /\ OneCall
  /\ TimersCalm
  /\ OneEach
  /\ Cancellable

\* What a step keeps.
Keeps == CalmInv' /\ (Watched => Watched')

\* A user who leaves takes nobody else out of a room: the room is deleted only
\* when it was alone there.
LEMMA LeavesAlone ==
  ASSUME RowsOK, NEW u \in Users, db.member[u] # None, NEW o \in LeaveOutcomes(u)
  PROVE  /\ o.rows \in Databases /\ ForeignKeyOK(o.rows)
         /\ o.rows.member[u] = None
         /\ \A v \in Users \ {u} : o.rows.member[v] = db.member[v]
         /\ o.room \in {None, db.member[u]}
         /\ PlayersOf(db, db.member[u]) # {u} => o.room = db.member[u]
         /\ db.live \ {db.member[u]} \subseteq o.rows.live
<1> DEFINE r == db.member[u]
           seen == RoomSnapshot(db, r)
<1>1. PICK after \in LeaveRoom(db, u, r, seen) :
        o.rows = after /\ o.room = IF r \in after.live THEN r ELSE None
  BY DEF LeaveOutcomes
<1>2. /\ db \in Databases /\ r \in db.live /\ r \in RoomIds
      /\ \A v \in Users : db.member[v] \in db.live \cup {None}
      /\ None \notin db.live
  BY NoneIsNoRoom DEF RowsOK, ForeignKeyOK, Databases
<1>3. /\ seen.players = {v \in Users : db.member[v] = r}
      /\ seen.players \subseteq Users /\ seen.owner \in Users \cup {None}
  BY <1>2 DEF RoomSnapshot, PlayersOf, Databases
<1> HIDE DEF seen
<1>4. /\ after \in Databases
      /\ \/ after.live = db.live /\ after.dead = db.dead
         \/ after.live = db.live \ {r} /\ after.dead = db.dead \cup {r}
      /\ Empties(u, seen) => r \in after.dead
      /\ after.status = [db.status EXCEPT ![r] = "Waiting"]
      /\ after.member[u] \in {db.member[u], None}
      /\ after.member[u] # r
      /\ \A v \in Users \ {u} :
           \/ after.member[v] = db.member[v]
           \/ after.member[v] = None /\ db.member[v] = r /\ r \notin after.live
      /\ r \notin after.live => \A v \in Users : after.member[v] # r
  BY <1>1, <1>2, <1>3, LeaveEffect
<1>5. r \notin after.live => \A v \in Users \ {u} : db.member[v] # r
  <2>1. CASE Empties(u, seen)
    BY <1>3, <2>1 DEF Empties
  <2>2. CASE ~Empties(u, seen)
    <3>1. PICK x \in NextOwners(u, seen, db.owner[r]) : after = RemovePlayer(db, u, r, x)
      BY <1>1, <2>2 DEF LeaveRoom
    <3>2. after.live = db.live
      BY <1>2, <3>1 DEF RemovePlayer, Databases
    <3> QED
      BY <1>2, <3>2
  <2> QED
    BY <2>1, <2>2
<1>6. PlayersOf(db, r) # {u} => r \in after.live
  BY <1>5 DEF PlayersOf
<1>7. \A v \in Users : after.member[v] \in after.live \cup {None}
  BY <1>2, <1>4, <1>5
<1> QED
  BY <1>1, <1>2, <1>4, <1>5, <1>6, <1>7 DEF ForeignKeyOK

LEMMA CallIsCalm ==
  ASSUME IInv, CalmInv, NEW c \in Calls, call[c].at # "idle", NEW s, s = call[c].socket
  PROVE  /\ s \in Sockets /\ IsCall(call[c]) /\ IsSocket(socket[s]) /\ socket[s].open
         /\ socket[s].bearer \in Users
         /\ CalmSocket(socket[s]) /\ CalmCall(call[c], socket[s], Room(socket[s]))
         /\ \A d \in Calls \ {c} : ~Handles(d, s)
         /\ call[c].at = "reply" => call[c].event \in Answered
<1>1. s \in Sockets /\ socket[s].open
  BY InACall DEF CalmInv, CallsCalm
<1>2. CalmSocket(socket[s])
  BY <1>1 DEF CalmInv, SocketsCalm
<1>3. \A d \in Calls \ {c} : ~Handles(d, s)
  BY DEF CalmInv, OneCall, Handles
<1> QED
  BY <1>1, <1>2, <1>3, InACall DEF CalmInv, CallsCalm

\* A step of one client that keeps who it is, and seats or unseats nobody but its
\* user, whom no timer waits for.
LEMMA ClientMoves ==
  ASSUME IInv, CalmInv, RowsOK', UNCHANGED <<timer, pending>>,
         NEW c \in Calls, NEW s \in Sockets, NEW e, NEW self,
         call' = [call EXCEPT ![c] = e], socket' = [socket EXCEPT ![s] = self],
         e.at # "idle" => e.socket = s, call[c].at # "idle" => call[c].socket = s,
         \A d \in Calls \ {c} : ~Handles(d, s),
         socket[s].open, self.open,
         self.bearer = socket[s].bearer, self.user = socket[s].user,
         db' = db \/ self.user = self.bearer,
         \A v \in Users : v # self.bearer => db'.member[v] = db.member[v],
         CalmSocket(self),
         IF e.at = "idle" THEN self.roomId \in {None, db'.member[self.bearer]}
         ELSE CalmCall(e, self, db'.member[self.bearer])
  PROVE  Keeps
<1>1. /\ \A x \in Sockets : socket'[x] = IF x = s THEN self ELSE socket[x]
      /\ \A d \in Calls : call'[d] = IF d = c THEN e ELSE call[d]
  BY DEF IInv, SocketsOK, CallsOK
<1>2. \A x \in Sockets : socket[x].open => socket[x].bearer \in Users
  BY DEF IInv, SocketsOK
<1>3. \A x \in Sockets : x # s /\ socket[x].open => Room(socket[x])' = Room(socket[x])
  <2> SUFFICES ASSUME NEW x \in Sockets, x # s, socket[x].open
               PROVE  Room(socket[x])' = Room(socket[x])
    OBVIOUS
  <2>1. socket[x].bearer \in Users /\ socket[x].bearer # self.bearer /\ socket'[x] = socket[x]
    BY <1>1, <1>2 DEF CalmInv, OneEach
  <2> QED
    BY <2>1 DEF Room
<1>4. SocketsCalm'
  <2> SUFFICES ASSUME NEW x \in Sockets
               PROVE  IF socket'[x].open
                        THEN /\ CalmSocket(socket'[x])
                             /\ ~Busy(x)' => socket'[x].roomId \in {None, Room(socket[x])'}
                        ELSE socket'[x] = NoSocket
    BY DEF SocketsCalm, CalmSocket, Room
  <2>1. CASE x = s
    <3>1. ~Busy(x)' => e.at = "idle"
      BY <1>1, <2>1 DEF Busy, Handles
    <3> QED
      BY <1>1, <2>1, <3>1 DEF Room
  <2>2. CASE x # s /\ ~socket[x].open
    BY <1>1, <2>2 DEF CalmInv, SocketsCalm
  <2>3. CASE x # s /\ socket[x].open
    <3>1. ~Busy(x)' => ~Busy(x)
      BY <1>1, <2>3 DEF Busy, Handles
    <3> QED
      BY <1>1, <1>3, <2>3, <3>1 DEF CalmInv, SocketsCalm
  <2> QED
    BY <2>1, <2>2, <2>3
<1>5. CallsCalm'
  <2> SUFFICES ASSUME NEW d \in Calls, call'[d].at # "idle"
               PROVE  /\ socket'[call'[d].socket].open
                      /\ CalmCall(call'[d], socket'[call'[d].socket],
                                  db'.member[socket'[call'[d].socket].bearer])
    BY DEF CallsCalm, CalmCall, InPlace, Agree, Room
  <2>1. CASE d = c
    BY <1>1, <2>1
  <2>2. CASE d # c
    <3>1. PICK x : x = call[d].socket
      OBVIOUS
    <3>2. /\ call'[d] = call[d] /\ x # s /\ x \in Sockets /\ socket[x].open
          /\ CalmCall(call[d], socket[x], Room(socket[x]))
      BY <1>1, <2>2, <3>1, CallIsCalm DEF Handles
    <3> QED
      BY <1>1, <1>3, <3>1, <3>2 DEF Room
  <2> QED
    BY <2>1, <2>2
<1>6. OneCall'
  BY <1>1 DEF CalmInv, OneCall, Handles
<1>7. TimersCalm'
  <2>1. \A t \in Timers : Waits(timer[t]) => db'.member[timer[t].user] = db.member[timer[t].user]
    BY DEF CalmInv, TimersCalm, OneEach
  <2> QED
    BY <2>1 DEF CalmInv, TimersCalm, Waits
<1>8. OneEach' /\ Cancellable'
  BY <1>1 DEF CalmInv, OneEach, Cancellable, Waits
<1>9. Watched => Watched'
  <2> SUFFICES ASSUME Watched, NEW u \in Users, db'.member[u] # None
               PROVE  \/ \E x \in Sockets : socket[x].user = u
                      \/ \E t \in Timers : Waits(timer[t]) /\ timer[t].user = u
    BY <1>1 DEF Watched, Waits
  <2>1. CASE db'.member[u] = db.member[u]
    BY <2>1 DEF Watched
  <2>2. CASE db'.member[u] # db.member[u]
    BY <2>2
  <2> QED
    BY <2>1, <2>2
<1> QED
  BY <1>4, <1>5, <1>6, <1>7, <1>8, <1>9 DEF CalmInv, Keeps

LEMMA CalmInit == Init => CalmInv /\ Watched
<1> SUFFICES ASSUME Init PROVE CalmInv /\ Watched
  OBVIOUS
<1>1. RowsOK
  BY DEF Init, RowsOK, EmptyDatabase, Databases, Statuses, ForeignKeyOK
<1>2. /\ \A s \in Sockets : socket[s] = NoSocket /\ ~socket[s].open /\ socket[s].user = None
      /\ \A t \in Timers : timer[t].at = "off"
      /\ \A u \in Users : db.member[u] = None
  BY DEF Init, NoSocket, Off, EmptyDatabase
<1>3. SocketsCalm /\ CallsCalm /\ OneCall
  BY <1>2, IdleOK DEF Init, SocketsCalm, CallsCalm, OneCall
<1>4. TimersCalm /\ OneEach /\ Cancellable
  BY <1>2 DEF TimersCalm, OneEach, Cancellable, Waits
<1>5. Watched
  BY <1>2 DEF Watched
<1> QED
  BY <1>1, <1>3, <1>4, <1>5 DEF CalmInv

LEMMA ConnectCalm ==
  ASSUME IInv, CalmInv, Orderly, NEW s \in Sockets, NEW u \in Users, Connect(s, u)
  PROVE  Keeps
<1> DEFINE new == [NoSocket EXCEPT !.bearer = u, !.open = TRUE]
<1>1. /\ socket' = [socket EXCEPT ![s] = new] /\ UNCHANGED <<db, call, timer, pending>>
      /\ ~socket[s].open /\ ~Busy(s) /\ ~Present(u)
  BY DEF Connect, Orderly
<1>2. /\ new.bearer = u /\ new.open /\ new.user = None /\ new.roomId = None
      /\ new.rooms = <<>>
  BY DEF NoSocket
<1> HIDE DEF new
<1>3. \A x \in Sockets : socket'[x] = IF x = s THEN new ELSE socket[x]
  BY <1>1 DEF IInv, SocketsOK
<1>4. CalmSocket(new)
  BY <1>2 DEF CalmSocket
<1>5. SocketsCalm'
  <2> SUFFICES ASSUME NEW x \in Sockets
               PROVE  IF socket'[x].open
                        THEN /\ CalmSocket(socket'[x])
                             /\ ~Busy(x) => socket'[x].roomId \in
                                               {None, db.member[socket'[x].bearer]}
                        ELSE socket'[x] = NoSocket
    BY <1>1 DEF SocketsCalm, CalmSocket, Busy, Handles, Room
  <2> QED
    BY <1>2, <1>3, <1>4 DEF CalmInv, SocketsCalm, Room
<1>6. CallsCalm' /\ OneCall'
  <2>1. \A c \in Calls : call[c].at # "idle" => socket'[call[c].socket] = socket[call[c].socket]
    BY <1>1, <1>3, InACall DEF Busy, Handles
  <2> QED
    BY <1>1, <2>1 DEF CalmInv, CallsCalm, OneCall, CalmCall, InPlace, Agree, Room
<1>7. TimersCalm' /\ Cancellable'
  BY <1>1 DEF CalmInv, TimersCalm, Cancellable, Waits
<1>8. OneEach'
  <2>1. \A x \in Sockets : socket[x].open => socket[x].bearer # u
    BY <1>1 DEF Present
  <2>2. \A t \in Timers : Waits(timer[t]) => timer[t].user # None
    BY NoneIsNoUser DEF CalmInv, TimersCalm
  <2> QED
    BY <1>1, <1>2, <1>3, <2>1, <2>2 DEF CalmInv, OneEach, Waits
<1>9. Watched => Watched'
  <2>1. socket[s].user = None
    BY <1>1, NoSocketOK DEF CalmInv, SocketsCalm
  <2>2. \A v \in Users, x \in Sockets : socket[x].user = v => socket'[x].user = v
    BY <1>3, <2>1, NoneIsNoUser
  <2> QED
    BY <1>1, <2>2 DEF Watched, Waits
<1>10. RowsOK'
  BY <1>1 DEF CalmInv, RowsOK
<1> QED
  BY <1>5, <1>6, <1>7, <1>8, <1>9, <1>10 DEF CalmInv, Keeps

\* A client that has been recognised is waited for, with the room it was in.
LEMMA DisconnectCalm ==
  ASSUME IInv, CalmInv, Orderly, NEW s \in Sockets, Disconnect(s)
  PROVE  Keeps
<1> DEFINE u == socket[s].user
<1>1. /\ socket[s].open /\ ~Busy(s) /\ UNCHANGED <<db, call>>
      /\ CalmSocket(socket[s]) /\ socket[s].roomId \in {None, Room(socket[s])}
      /\ socket[s].bearer \in Users
  BY DEF Disconnect, Orderly, CalmInv, SocketsCalm, IInv, SocketsOK
<1>2. socket' = [socket EXCEPT ![s] = NoSocket]
  BY <1>1 DEF Disconnect, Gone
<1>3. \A x \in Sockets : socket'[x] = IF x = s THEN NoSocket ELSE socket[x]
  BY <1>2 DEF IInv, SocketsOK
<1>4. NoSocket.user = None /\ ~NoSocket.open
  BY NoSocketOK
<1>5. SocketsCalm' /\ CallsCalm' /\ OneCall' /\ RowsOK'
  <2>1. \A x \in Sockets : Busy(x)' <=> Busy(x)
    BY <1>1 DEF Busy, Handles
  <2>2. SocketsCalm'
    BY <1>1, <1>3, <1>4, <2>1 DEF CalmInv, SocketsCalm, CalmSocket, Room
  <2>3. \A c \in Calls : call[c].at # "idle" => socket'[call[c].socket] = socket[call[c].socket]
    BY <1>1, <1>3, InACall
  <2> QED
    BY <1>1, <2>2, <2>3 DEF CalmInv, CallsCalm, OneCall, CalmCall, InPlace, Agree, Room, RowsOK
<1>6. CASE u = None
  <2>1. UNCHANGED <<timer, pending>>
    BY <1>6 DEF Disconnect, WaitedFor
  <2>2. TimersCalm' /\ Cancellable'
    BY <1>1, <2>1 DEF CalmInv, TimersCalm, Cancellable, Waits
  <2>3. OneEach'
    BY <1>3, <1>4, <1>6, <2>1 DEF CalmInv, OneEach, Waits
  <2>4. Watched => Watched'
    BY <1>1, <1>3, <1>6, <2>1, NoneIsNoUser DEF Watched, Waits
  <2> QED
    BY <1>5, <2>2, <2>3, <2>4 DEF CalmInv, Keeps
<1>7. CASE u # None
  <2> DEFINE armed == [Off EXCEPT !.at = "armed", !.user = u, !.roomId = socket[s].roomId]
  <2>1. PICK t \in Timers : /\ timer[t].at = "off"
                            /\ timer' = [timer EXCEPT ![t] = armed]
                            /\ pending' = [pending EXCEPT ![u] = t]
    BY <1>7 DEF Disconnect, WaitedFor
  <2>2. armed.at = "armed" /\ armed.user = u /\ armed.roomId = socket[s].roomId
    BY DEF Off
  <2> HIDE DEF armed
  <2>3. /\ \A x \in Timers : timer'[x] = IF x = t THEN armed ELSE timer[x]
        /\ ~Waits(timer[t])
    BY <2>1 DEF IInv, TimersOK, Waits
  <2>4. u \in Users /\ u = socket[s].bearer /\ armed.roomId \in {None, db.member[u]}
    BY <1>1, <1>7, <2>2 DEF CalmSocket, Room
  <2>5. pending'[u] = t /\ \A v \in Users : v # u => pending'[v] = pending[v]
    BY <2>1, <2>4 DEF IInv
  <2>6. \A x \in Timers : Waits(timer[x]) => timer[x].user \in Users /\ timer[x].user # u
    BY DEF CalmInv, OneEach, TimersCalm
  <2>7. TimersCalm'
    BY <1>1, <2>2, <2>3, <2>4 DEF CalmInv, TimersCalm, Waits
  <2>8. Cancellable'
    BY <2>2, <2>3, <2>5, <2>6 DEF CalmInv, Cancellable, Waits
  <2>9. \A x \in Sockets : x # s => socket[x].user # u
    <3> SUFFICES ASSUME NEW x \in Sockets, x # s, socket[x].user = u PROVE FALSE
      OBVIOUS
    <3>1. socket[x].open /\ CalmSocket(socket[x])
      BY <1>7, NoSocketOK DEF CalmInv, SocketsCalm
    <3>2. socket[x].bearer = u
      BY <1>7, <3>1 DEF CalmSocket
    <3> QED
      BY <1>1, <2>4, <3>1, <3>2 DEF CalmInv, OneEach
  <2>10. OneEach'
    BY <1>3, <1>4, <1>7, <2>2, <2>3, <2>6, <2>9, NoneIsNoUser DEF CalmInv, OneEach, Waits
  <2>11. Watched => Watched'
    <3> SUFFICES ASSUME Watched, NEW v \in Users, db.member[v] # None
                 PROVE  \/ \E x \in Sockets : socket'[x].user = v
                        \/ \E x \in Timers : Waits(timer'[x]) /\ timer'[x].user = v
      BY <1>1 DEF Watched, Waits
    <3>1. CASE v = u
      BY <2>2, <2>3, <3>1 DEF Waits
    <3>2. CASE v # u
      BY <1>3, <2>3, <3>2 DEF Watched
    <3> QED
      BY <3>1, <3>2
  <2> QED
    BY <1>5, <2>7, <2>8, <2>10, <2>11 DEF CalmInv, Keeps
<1> QED
  BY <1>6, <1>7

LEMMA Channels ==
  ASSUME NEW r
  PROVE  /\ Enter(<<>>, r) = <<r>> /\ Enter(<<r>>, r) = <<r>>
         /\ Exit(<<>>, r) = <<>> /\ Exit(<<r>>, r) = <<>>
<1>1. Enter(<<>>, r) = <<r>> /\ Enter(<<r>>, r) = <<r>>
  BY DEF Enter, ToSet
<1>2. Exit(<<>>, r) = <<>>
  BY DEF Exit, RemoveFirst
<1>3. SelectInSeq(<<r>>, LAMBDA v : v = r) = 1
  <2>1. {i \in 1..Len(<<r>>) : <<r>>[i] = r} = {1}
    OBVIOUS
  <2> QED
    BY <2>1 DEF SelectInSeq, Min
<1>4. RemoveAt(<<r>>, 1) = <<>>
  BY DEF RemoveAt
<1> QED
  BY <1>1, <1>2, <1>3, <1>4 DEF Exit, RemoveFirst

LEMMA ReceiveCalm ==
  ASSUME IInv, CalmInv, Orderly, NEW c \in Calls, NEW s \in Sockets, NEW e \in Events, NEW r,
         Receive(c, s, e, r)
  PROVE  Keeps
<1>1. PICK new : new = [Idle EXCEPT !.at = "guard", !.socket = s, !.event = e, !.arg = r]
  OBVIOUS
<1>2. new.at = "guard" /\ new.socket = s /\ new.event = e
  BY <1>1 DEF Idle
<1>3. /\ call' = [call EXCEPT ![c] = new] /\ UNCHANGED <<db, socket, timer, pending>>
      /\ call[c].at = "idle" /\ socket[s].open /\ ~Busy(s) /\ e # "chat"
  BY <1>1 DEF Receive, Orderly
<1>4. /\ CalmSocket(socket[s]) /\ socket[s].roomId \in {None, Room(socket[s])}
      /\ socket' = [socket EXCEPT ![s] = socket[s]]
  BY <1>3 DEF CalmInv, SocketsCalm, IInv, SocketsOK
<1>5. CalmCall(new, socket[s], db'.member[socket[s].bearer])
  BY <1>2, <1>3, <1>4 DEF CalmCall, InPlace, Room
<1>6. RowsOK'
  BY <1>3 DEF CalmInv, RowsOK
<1>7. \A d \in Calls \ {c} : ~Handles(d, s)
  BY <1>3 DEF Busy
<1> QED
  BY <1>2, <1>3, <1>4, <1>5, <1>6, <1>7, ClientMoves

\* The end of a handler: the client keeps what the handler made of it.
LEMMA EndCalm ==
  ASSUME IInv, CalmInv, UNCHANGED <<db, timer, pending>>,
         NEW c \in Calls, call[c].at # "idle", NEW s, s = call[c].socket,
         NEW self, self.open, End(c, self),
         self.bearer = socket[s].bearer, self.user = socket[s].user,
         CalmSocket(self), self.roomId \in {None, Room(socket[s])}
  PROVE  Keeps
<1>1. PICK over : over = Idle
  OBVIOUS
<1>2. /\ call' = [call EXCEPT ![c] = over] /\ socket' = [socket EXCEPT ![s] = self]
      /\ over.at = "idle"
  BY <1>1, IdleOK DEF End
<1>3. RowsOK'
  BY DEF CalmInv, RowsOK
<1>4. /\ s \in Sockets /\ socket[s].open
      /\ \A d \in Calls \ {c} : ~Handles(d, s)
  BY CallIsCalm
<1>5. self.roomId \in {None, db'.member[self.bearer]}
  BY DEF Room
<1> QED
  BY <1>2, <1>3, <1>4, <1>5, ClientMoves

LEMMA RejectCalm ==
  ASSUME IInv, CalmInv, NEW c \in Calls, Reject(c)
  PROVE  Keeps
<1>1. PICK s : s = call[c].socket
  OBVIOUS
<1>2. /\ call[c].at \in {"guard", "service"} /\ End(c, socket[s])
      /\ UNCHANGED <<db, timer, pending>>
  BY <1>1 DEF Reject
<1>3. /\ socket[s].open /\ CalmSocket(socket[s])
      /\ CalmCall(call[c], socket[s], Room(socket[s]))
  BY <1>1, <1>2, CallIsCalm
<1>4. socket[s].roomId \in {None, Room(socket[s])}
  BY <1>2, <1>3 DEF CalmCall, InPlace
<1> QED
  BY <1>1, <1>2, <1>3, <1>4, EndCalm

\* The channels and data.roomId follow the answer of the service.
LEMMA RepliedCalm ==
  ASSUME NEW self, IsSocket(self), self.open, NEW e, e.at = "reply", e.event \in Answered,
         NEW room, CalmSocket(self), CalmCall(e, self, room)
  PROVE  /\ Replied(self, e).open
         /\ Replied(self, e).bearer = self.bearer /\ Replied(self, e).user = self.user
         /\ CalmSocket(Replied(self, e)) /\ Replied(self, e).roomId \in {None, room}
<1> DEFINE new == Replied(self, e)
           Goal == /\ new.open /\ new.bearer = self.bearer /\ new.user = self.user
                   /\ CalmSocket(new) /\ new.roomId \in {None, room}
<1> SUFFICES Goal
  OBVIOUS
<1>1. /\ self.rooms = IF self.roomId = None THEN <<>> ELSE <<self.roomId>>
      /\ self.user = self.bearer
  BY DEF CalmSocket, CalmCall
<1>2. ASSUME room # None, new = [self EXCEPT !.rooms = <<room>>, !.roomId = room]
      PROVE  Goal
  <2> HIDE DEF new
  <2>1. /\ new.open /\ new.bearer = self.bearer /\ new.user = self.user
        /\ new.rooms = <<room>> /\ new.roomId = room
    BY <1>2 DEF IsSocket, SocketFields
  <2> QED
    BY <1>1, <1>2, <2>1 DEF CalmSocket
<1>3. ASSUME new = [self EXCEPT !.rooms = <<>>, !.roomId = None] PROVE Goal
  <2> HIDE DEF new
  <2>1. /\ new.open /\ new.bearer = self.bearer /\ new.user = self.user
        /\ new.rooms = <<>> /\ new.roomId = None
    BY <1>3 DEF IsSocket, SocketFields
  <2> QED
    BY <1>1, <2>1 DEF CalmSocket
<1>4. CASE e.event \in {"create", "rejoin"}
  <2>1. e.arg = room /\ room # None /\ self.roomId \in {None, room}
    BY <1>4 DEF CalmCall, InPlace
  <2>2. Enter(self.rooms, room) = <<room>>
    BY <1>1, <2>1, Channels
  <2>3. new = [self EXCEPT !.rooms = <<room>>, !.roomId = room]
    BY <1>4, <2>1, <2>2 DEF Replied, EnterIfOpen
  <2> HIDE DEF new, Goal
  <2> QED
    BY <1>2, <2>1, <2>3
<1>5. CASE e.event = "join"
  <2> DEFINE out == [self EXCEPT !.rooms = Exit(@, e.left)]
  <2>1. e.arg = room /\ room # None /\ self.roomId \in {None, e.left}
    BY <1>5 DEF CalmCall, InPlace
  <2>2. Exit(self.rooms, e.left) = <<>>
    BY <1>1, <2>1, Channels
  <2>3. out = [self EXCEPT !.rooms = <<>>] /\ out.open /\ out.rooms = <<>>
    BY <2>2 DEF IsSocket, SocketFields
  <2>4. Replied(self, e) = EnterIfOpen(out, room)
    BY <1>5, <2>1 DEF Replied, JoinReply
  <2>5. Replied(self, e) = [out EXCEPT !.rooms = <<room>>, !.roomId = room]
    BY <2>3, <2>4, Channels DEF EnterIfOpen
  <2>6. [out EXCEPT !.rooms = <<room>>, !.roomId = room]
          = [self EXCEPT !.rooms = <<room>>, !.roomId = room]
    BY <2>3 DEF IsSocket, SocketFields
  <2>7. new = [self EXCEPT !.rooms = <<room>>, !.roomId = room]
    BY <2>5, <2>6
  <2> HIDE DEF new, Goal
  <2> QED
    BY <1>2, <2>1, <2>7
<1>6. CASE e.event = "leave"
  <2>1. e.left = self.roomId /\ Replied(self, e) = LeaveReply(self, e)
    BY <1>6 DEF CalmCall, InPlace, Replied
  <2>2. CASE e.left = None
    BY <1>1, <2>1, <2>2 DEF LeaveReply
  <2>3. CASE e.left # None
    <3>1. Exit(self.rooms, e.left) = <<>>
      BY <1>1, <2>1, <2>3, Channels
    <3>2. new = [self EXCEPT !.rooms = <<>>, !.roomId = None]
      BY <2>1, <2>3, <3>1 DEF LeaveReply
    <3> HIDE DEF new, Goal
    <3> QED
      BY <1>3, <3>2
  <2> QED
    BY <2>2, <2>3
<1>7. CASE e.event = "update"
  BY <1>1, <1>7 DEF Replied, CalmCall, InPlace
<1> QED
  BY <1>4, <1>5, <1>6, <1>7 DEF Answered

LEMMA ReplyCalm ==
  ASSUME IInv, CalmInv, NEW c \in Calls, Reply(c)
  PROVE  Keeps /\ UpdatesReachTheirRoom'
<1>1. PICK s, self, e, new :
        s = call[c].socket /\ self = socket[s] /\ e = call[c] /\ new = Replied(self, e)
  OBVIOUS
<1>2. /\ e.at = "reply" /\ End(c, new) /\ UNCHANGED <<db, timer, pending>>
      /\ sent' = Emitted(e)
  BY <1>1 DEF Reply
<1>3. /\ IsSocket(self) /\ self.open /\ e.event \in Answered
      /\ CalmSocket(self) /\ CalmCall(e, self, Room(self))
  BY <1>1, <1>2, CallIsCalm
<1>4. /\ new.open /\ new.bearer = self.bearer /\ new.user = self.user
      /\ CalmSocket(new) /\ new.roomId \in {None, Room(self)}
  BY <1>1, <1>2, <1>3, RepliedCalm
<1>5. Keeps
  BY <1>1, <1>2, <1>4, EndCalm
<1>6. UpdatesReachTheirRoom'
  <2>1. e.event = "leave" => Agree(e.arg, e.left)
    BY <1>2, <1>3 DEF CalmCall, InPlace
  <2>2. \A x \in Emitted(e) : x.to = x.about
    BY <1>3, <2>1 DEF Emitted, Shown, Agree, Answered
  <2> QED
    BY <1>2, <2>2 DEF UpdatesReachTheirRoom
<1> QED
  BY <1>5, <1>6

\* A user who is recognised is not waited for any more: its timer, if there is one,
\* is in the map and is cleared, or it has fired, and then the call has waited.
LEMMA GuardPassesCalm ==
  ASSUME IInv, CalmInv, Orderly, NEW c \in Calls, GuardPasses(c)
  PROVE  Keeps
<1>1. PICK s, self, u, e, known :
        /\ s = call[c].socket /\ self = socket[s] /\ u = self.bearer /\ e = call[c]
        /\ known = Guarded(self)
  OBVIOUS
<1>2. /\ s \in Sockets /\ IsCall(e) /\ e.at = "guard" /\ e.socket = s /\ e.event # "chat"
      /\ IsSocket(self) /\ self.open /\ u \in Users /\ CalmSocket(self)
      /\ self.roomId \in {None, db.member[u]} /\ \A d \in Calls \ {c} : ~Handles(d, s)
  BY <1>1, CallIsCalm DEF GuardPasses, CalmCall, InPlace, Room
<1>3. CancelPendingLeave(u) /\ db' = db /\ ~Leaving(u)
  BY <1>1, <1>2 DEF GuardPasses, Orderly
<1>4. PICK left :
        /\ left = IF e.event = "leave" THEN CurrentRoom(s) ELSE None
        /\ socket' = [socket EXCEPT ![s] = known]
        /\ call' = [call EXCEPT ![c].at = "service", ![c].left = left]
  BY <1>1, <1>2 DEF GuardPasses
<1>5. /\ known.open /\ known.bearer = u /\ known.user = u
      /\ known.rooms = self.rooms /\ known.roomId = self.roomId
  BY <1>1, <1>2, GuardedOK
<1>6. PICK new : new = [e EXCEPT !.at = "service", !.left = left]
  OBVIOUS
<1>7. /\ new.at = "service" /\ new.socket = s /\ new.event = e.event /\ new.left = left
      /\ \A d \in Calls : call'[d] = IF d = c THEN new ELSE call[d]
      /\ \A x \in Sockets : socket'[x] = IF x = s THEN known ELSE socket[x]
  BY <1>1, <1>2, <1>4, <1>6 DEF IsCall, CallFields, IInv, CallsOK, SocketsOK
<1>8. /\ \A t \in Timers : timer'[t] = timer[t] \/ timer'[t].at = "off"
      /\ \A t \in Timers : timer'[t] = timer[t] => ~(Waits(timer[t]) /\ timer[t].user = u)
      /\ \A t \in Timers : Waits(timer[t]) /\ timer[t].user # u => timer'[t] = timer[t]
      /\ \A v \in Users : v # u => pending'[v] = pending[v]
  <2>1. \A t \in Timers : Waits(timer[t]) /\ timer[t].user = u => t = pending[u]
    BY <1>3 DEF Leaving, Waits, CalmInv, Cancellable
  <2>2. \A v \in Users : v # u => pending'[v] = pending[v]
    BY <1>3 DEF CancelPendingLeave, IInv
  <2>3. CASE pending[u] = None
    <3>1. \A t \in Timers : timer'[t] = timer[t] /\ t # pending[u]
      BY <1>3, <2>3, NoneIsNoTimer DEF CancelPendingLeave
    <3> QED
      BY <2>1, <2>2, <3>1
  <2>4. CASE pending[u] # None
    <3>1. /\ pending[u] \in Timers /\ timer[pending[u]].at = "armed"
          /\ timer[pending[u]].user = u
      BY <1>2, <2>4 DEF IInv, EntriesAreArmed
    <3>2. \A t \in Timers : timer'[t] = IF t = pending[u] THEN Off ELSE timer[t]
      BY <1>3, <2>4, <3>1 DEF CancelPendingLeave, IInv, TimersOK
    <3>3. Off.at = "off"
      BY DEF Off
    <3>4. \A t \in Timers : timer'[t] = timer[t] => t # pending[u]
      BY <3>1, <3>2, <3>3
    <3> QED
      BY <2>1, <2>2, <3>1, <3>2, <3>3, <3>4
  <2> QED
    BY <2>3, <2>4
<1>9. CalmSocket(known) /\ CalmCall(new, known, db.member[u])
  <2>1. e.event = "leave" => left = self.roomId
    BY <1>1, <1>2, <1>4 DEF CalmSocket, CurrentRoom
  <2> QED
    BY <1>2, <1>5, <1>7, <2>1 DEF CalmSocket, CalmCall, InPlace
<1>10. SocketsCalm'
  <2> SUFFICES ASSUME NEW x \in Sockets
               PROVE  IF socket'[x].open
                        THEN /\ CalmSocket(socket'[x])
                             /\ ~Busy(x)' => socket'[x].roomId \in
                                                {None, db.member[socket'[x].bearer]}
                        ELSE socket'[x] = NoSocket
    BY <1>3 DEF SocketsCalm, CalmSocket, Room
  <2>1. ~Busy(x)' => x # s /\ ~Busy(x)
    BY <1>1, <1>2, <1>7 DEF Busy, Handles
  <2> QED
    BY <1>5, <1>7, <1>9, <2>1 DEF CalmInv, SocketsCalm, Room
<1>11. CallsCalm'
  <2> SUFFICES ASSUME NEW d \in Calls, call'[d].at # "idle"
               PROVE  /\ socket'[call'[d].socket].open
                      /\ CalmCall(call'[d], socket'[call'[d].socket],
                                  db.member[socket'[call'[d].socket].bearer])
    BY <1>3 DEF CallsCalm, CalmCall, InPlace, Agree, Room
  <2>1. CASE d = c
    BY <1>2, <1>5, <1>7, <1>9, <2>1
  <2>2. CASE d # c
    <3>1. PICK x : x = call[d].socket
      OBVIOUS
    <3>2. call'[d] = call[d] /\ call[d].at # "idle"
      BY <1>7, <2>2
    <3>3. /\ x # s /\ x \in Sockets /\ socket[x].open
          /\ CalmCall(call[d], socket[x], Room(socket[x]))
      BY <1>2, <2>2, <3>1, <3>2, CallIsCalm DEF Handles
    <3>4. socket'[x] = socket[x]
      BY <1>7, <3>3
    <3> QED
      BY <3>1, <3>2, <3>3, <3>4 DEF Room
  <2> QED
    BY <2>1, <2>2
<1>17. OneCall'
  <2>1. \A d \in Calls : /\ call'[d].at # "idle" <=> call[d].at # "idle"
                         /\ call'[d].socket = call[d].socket
    BY <1>1, <1>2, <1>7
  <2> QED
    BY <2>1 DEF CalmInv, OneCall
<1>12. TimersCalm'
  <2>1. \A t \in Timers : timer'[t].at = "reply" => timer'[t] = timer[t]
    BY <1>8
  <2> QED
    BY <1>3, <1>8, <2>1 DEF CalmInv, TimersCalm, Waits
<1>13. OneEach'
  <2>1. \A x \in Sockets : /\ socket'[x].open => socket[x].open
                           /\ socket'[x].bearer = socket[x].bearer
                           /\ socket'[x].user \in {socket[x].user, u}
    <3>1. /\ socket[s].open /\ socket'[s].bearer = socket[s].bearer
          /\ socket'[s].user = u
      BY <1>1, <1>2, <1>5, <1>7
    <3>2. \A x \in Sockets : x # s => socket'[x] = socket[x]
      BY <1>7
    <3> QED
      BY <3>1, <3>2
  <2>2. \A t \in Timers : Waits(timer'[t]) =>
          timer'[t] = timer[t] /\ Waits(timer[t]) /\ timer[t].user # u
    BY <1>8 DEF Waits
  <2> QED
    BY <2>1, <2>2 DEF CalmInv, OneEach, Waits
<1>14. Cancellable'
  BY <1>8 DEF CalmInv, Cancellable, TimersCalm, Waits
<1>15. Watched => Watched'
  <2> SUFFICES ASSUME Watched, NEW v \in Users, v # u, db.member[v] # None
               PROVE  \/ \E x \in Sockets : socket'[x].user = v
                      \/ \E t \in Timers : Waits(timer'[t]) /\ timer'[t].user = v
    BY <1>2, <1>3, <1>5, <1>7 DEF Watched, Waits
  <2>1. self.user # v
    BY <1>1, <1>2, NoneIsNoUser DEF CalmSocket
  <2>2. CASE \E x \in Sockets : socket[x].user = v
    BY <1>1, <1>7, <2>1, <2>2
  <2>3. CASE \E t \in Timers : Waits(timer[t]) /\ timer[t].user = v
    BY <1>8, <2>3
  <2> QED
    BY <2>2, <2>3 DEF Watched
<1>16. RowsOK'
  BY <1>3 DEF CalmInv, RowsOK
<1> QED
  BY <1>10, <1>11, <1>12, <1>13, <1>14, <1>15, <1>16, <1>17 DEF CalmInv, Keeps

\* The service answers with where it has put the user.
LEMMA ServiceCalm ==
  ASSUME IInv, CalmInv, Orderly, NEW c \in Calls, Service(c)
  PROVE  Keeps
<1>1. PICK s, self, e, u :
        s = call[c].socket /\ self = socket[s] /\ e = call[c] /\ u = self.bearer
  OBVIOUS
<1>2. /\ s \in Sockets /\ IsCall(e) /\ e.at = "service" /\ e.socket = s /\ u \in Users
      /\ self.open /\ CalmSocket(self) /\ self.user = u
      /\ self.roomId \in {None, db.member[u]} /\ \A d \in Calls \ {c} : ~Handles(d, s)
      /\ e.event = "leave" => e.left = self.roomId
      /\ UNCHANGED <<socket, timer, pending>>
  BY <1>1, CallIsCalm DEF Service, CalmCall, InPlace, Room
<1>3. /\ db \in Databases /\ ForeignKeyOK(db)
      /\ db.member \in [Users -> RoomIds \cup {None}] /\ None \notin db.live
      /\ db.live \subseteq RoomIds
  BY NoneIsNoRoom DEF CalmInv, RowsOK, Databases
<1>4. ASSUME NEW room, NEW left, Answer(c, room, left), RowsOK',
             \A v \in Users : v # u => db'.member[v] = db.member[v],
             e.event \in {"create", "rejoin", "update"} => self.roomId \in {None, db'.member[u]},
             e.event \in {"create", "join", "rejoin"} => room = db'.member[u] /\ room # None,
             e.event = "join" => self.roomId \in {None, left},
             e.event = "leave" =>
               db'.member[u] = None /\ left = self.roomId /\ Agree(room, self.roomId)
      PROVE  Keeps
  <2>1. PICK new : new = [e EXCEPT !.at = "reply", !.arg = room, !.left = left]
    OBVIOUS
  <2>2. /\ call' = [call EXCEPT ![c] = new] /\ socket' = [socket EXCEPT ![s] = self]
        /\ new.at = "reply" /\ new.socket = s /\ new.event = e.event
        /\ new.arg = room /\ new.left = left
    BY <1>1, <1>2, <1>4, <2>1 DEF Answer, IInv, CallsOK, SocketsOK, IsCall, CallFields
  <2>3. CalmCall(new, self, db'.member[u])
    BY <1>1, <1>2, <1>4, <2>2 DEF CalmCall, InPlace
  <2> QED
    BY <1>1, <1>2, <1>4, <2>2, <2>3, ClientMoves
<1>5. ASSUME e.event = "create", db.member[u] = None, NEW r \in FreshIds(db),
             db' = InsertRoom(db, u, r), Answer(c, r, None)
      PROVE  Keeps
  <2>1. r \in RoomIds /\ r # None
    BY <1>5, NoneIsNoRoom DEF FreshIds
  <2>2. /\ db' \in Databases /\ db'.live = db.live \cup {r}
        /\ db'.member = [db.member EXCEPT ![u] = r]
        /\ \A v \in Users : db'.member[v] = IF v = u THEN r ELSE db.member[v]
    BY <1>1, <1>2, <1>3, <1>5, <2>1, InsertEffect
  <2>3. RowsOK'
    BY <1>3, <2>2 DEF RowsOK, ForeignKeyOK
  <2> QED
    BY <1>1, <1>2, <1>4, <1>5, <2>1, <2>2, <2>3
<1>6. ASSUME e.event = "join", NEW r, MayJoin(u, r), NEW o \in JoinOutcomes(u),
             db' = AddPlayer(o.rows, u, r, PlayersOf(db, r)), Answer(c, r, o.room)
      PROVE  Keeps
  <2>1. /\ r \in db.live /\ r \in RoomIds /\ r # None /\ db.member[u] # r
        /\ db.member[u] = None \/ PlayersOf(db, db.member[u]) # {u}
    <3>1. r \in db.live /\ u \notin PlayersOf(db, r)
      BY <1>6 DEF MayJoin, JoinAllowed
    <3>2. db.member[u] = None \/ PlayersOf(db, db.member[u]) # {u}
      BY <1>6 DEF MayJoin, Orderly
    <3>3. db.member[u] # r
      BY <1>2, <3>1 DEF PlayersOf
    <3> QED
      BY <1>3, <3>1, <3>2, <3>3
  <2>2. /\ o.rows \in Databases /\ ForeignKeyOK(o.rows) /\ r \in o.rows.live
        /\ \A v \in Users \ {u} : o.rows.member[v] = db.member[v]
        /\ self.roomId \in {None, o.room}
    <3>1. CASE db.member[u] = None
      BY <1>2, <1>3, <1>6, <2>1, <3>1 DEF JoinOutcomes, Staying
    <3>2. CASE db.member[u] # None
      BY <1>1, <1>2, <1>6, <2>1, <3>2, LeavesAlone DEF JoinOutcomes, CalmInv
    <3> QED
      BY <3>1, <3>2
  <2>3. PICK rows \in Databases : rows = o.rows
    BY <2>2
  <2>4. /\ db' \in Databases /\ db'.live = rows.live
        /\ db'.member = [rows.member EXCEPT ![u] = r]
    BY <1>1, <1>2, <1>6, <2>1, <2>3, AddEffect
  <2>7. \A v \in Users : db'.member[v] = IF v = u THEN r ELSE rows.member[v]
    BY <2>4 DEF Databases
  <2>5. RowsOK'
    BY <2>2, <2>3, <2>4, <2>7 DEF RowsOK, ForeignKeyOK
  <2>6. \A v \in Users : v # u => db'.member[v] = db.member[v]
    BY <2>2, <2>3, <2>7
  <2> QED
    BY <1>1, <1>2, <1>4, <1>6, <2>1, <2>2, <2>5, <2>6, <2>7
<1>7. ASSUME e.event = "rejoin", NEW r, r \in db.live, db.member[u] = r, Answer(c, r, None),
             db' = db
      PROVE  Keeps
  <2>1. RowsOK'
    BY <1>7 DEF CalmInv, RowsOK
  <2> QED
    BY <1>2, <1>3, <1>4, <1>7, <2>1
<1>8. ASSUME e.event = "leave", db.member[u] # None, NEW o \in LeaveOutcomes(u),
             db' = o.rows, Answer(c, o.room, e.left)
      PROVE  Keeps
  <2>1. /\ o.rows \in Databases /\ ForeignKeyOK(o.rows) /\ o.rows.member[u] = None
        /\ \A v \in Users \ {u} : o.rows.member[v] = db.member[v]
        /\ o.room \in {None, db.member[u]}
    BY <1>1, <1>2, <1>8, LeavesAlone DEF CalmInv
  <2>2. RowsOK'
    BY <1>8, <2>1 DEF RowsOK
  <2>3. Agree(o.room, self.roomId)
    BY <1>2, <2>1 DEF Agree
  <2> QED
    BY <1>2, <1>4, <1>8, <2>1, <2>2, <2>3
<1>9. ASSUME e.event = "update", NEW r, r \in db.live, Answer(c, r, None),
             db' = Rename(db, r)
      PROVE  Keeps
  <2>1. db' \in Databases /\ db'.live = db.live /\ db'.member = db.member
    BY <1>3, <1>9, RenameKeepsType DEF Rename, Databases
  <2>2. RowsOK'
    BY <1>3, <2>1 DEF RowsOK, ForeignKeyOK
  <2> QED
    BY <1>2, <1>4, <1>9, <2>1, <2>2
<1> QED
  BY <1>1, <1>2, <1>5, <1>6, <1>7, <1>8, <1>9 DEF Service

\* A step of a timer that leaves the rows of every open socket alone.
LEMMA ClientsUntouched ==
  ASSUME IInv, CalmInv, UNCHANGED <<socket, call>>,
         \A x \in Sockets : socket[x].open => Room(socket[x])' = Room(socket[x])
  PROVE  SocketsCalm' /\ CallsCalm' /\ OneCall'
<1>1. SocketsCalm'
  <2> SUFFICES ASSUME NEW x \in Sockets
               PROVE  IF socket[x].open
                        THEN /\ CalmSocket(socket[x])
                             /\ ~Busy(x) => socket[x].roomId \in {None, Room(socket[x])'}
                        ELSE socket[x] = NoSocket
    BY DEF SocketsCalm, CalmSocket, Room, Busy, Handles
  <2> QED
    BY DEF CalmInv, SocketsCalm
<1>2. CallsCalm'
  <2> SUFFICES ASSUME NEW c \in Calls, call[c].at # "idle", NEW x, x = call[c].socket
               PROVE  socket[x].open /\ CalmCall(call[c], socket[x], Room(socket[x])')
    BY DEF CallsCalm, CalmCall, InPlace, Agree, Room
  <2>1. /\ x \in Sockets /\ socket[x].open
        /\ CalmCall(call[c], socket[x], Room(socket[x]))
    BY CallIsCalm
  <2> QED
    BY <2>1
<1>3. OneCall'
  BY DEF CalmInv, OneCall
<1> QED
  BY <1>1, <1>2, <1>3

\* A timer that is due leaves the map, and still waits until its user has left.
LEMMA FireCalm ==
  ASSUME IInv, CalmInv, NEW t \in Timers, Fire(t)
  PROVE  Keeps
<1> DEFINE fired == [timer[t] EXCEPT !.at = "leaving"]
<1>1. /\ timer[t].at = "armed" /\ IsTimer(timer[t]) /\ UNCHANGED <<db, socket, call>>
      /\ timer' = [timer EXCEPT ![t] = fired]
      /\ pending' = [pending EXCEPT ![timer[t].user] = None]
  BY DEF Fire, IInv, TimersOK
<1>2. fired.at = "leaving" /\ fired.user = timer[t].user /\ fired.roomId = timer[t].roomId
  BY <1>1 DEF IsTimer, TimerFields
<1> HIDE DEF fired
<1>3. /\ \A x \in Timers : timer'[x] = IF x = t THEN fired ELSE timer[x]
      /\ \A v \in Users : v # timer[t].user => pending'[v] = pending[v]
  BY <1>1 DEF IInv, TimersOK
<1>4. \A x \in Timers : /\ Waits(timer'[x]) <=> Waits(timer[x])
                        /\ timer'[x].user = timer[x].user
                        /\ timer'[x].roomId = timer[x].roomId
                        /\ timer'[x].at = "reply" => timer'[x] = timer[x]
  BY <1>1, <1>2, <1>3 DEF Waits
<1>5. RowsOK' /\ SocketsCalm' /\ CallsCalm' /\ OneCall'
  BY <1>1, ClientsUntouched DEF CalmInv, RowsOK, Room
<1>9. TimersCalm'
  BY <1>1, <1>4 DEF CalmInv, TimersCalm, Waits
<1>6. OneEach'
  BY <1>1, <1>4 DEF CalmInv, OneEach, Waits
<1>7. Cancellable'
  <2> SUFFICES ASSUME NEW x \in Timers, timer'[x].at = "armed"
               PROVE  pending'[timer'[x].user] = x
    BY DEF Cancellable
  <2>1. x # t /\ timer'[x] = timer[x]
    BY <1>2, <1>3
  <2>2. timer[x].user \in Users /\ timer[x].user # timer[t].user
    BY <1>1, <2>1 DEF CalmInv, TimersCalm, OneEach, Waits
  <2> QED
    BY <1>3, <2>1, <2>2 DEF CalmInv, Cancellable
<1>8. Watched => Watched'
  BY <1>1, <1>4 DEF Watched, Waits
<1> QED
  BY <1>5, <1>6, <1>7, <1>8, <1>9 DEF CalmInv, Keeps

\* A timer that is off, or has made its user leave, waits for nobody.
LEMMA TimerEnds ==
  ASSUME IInv, CalmInv, RowsOK', SocketsCalm', CallsCalm', OneCall', UNCHANGED <<socket, pending>>,
         NEW t \in Timers, NEW ended, timer' = [timer EXCEPT ![t] = ended],
         ended.at \in {"off", "reply"}, ended.at = "reply" => Agree(ended.result, ended.roomId),
         \A v \in Users : ~(Waits(timer[t]) /\ timer[t].user = v) => db'.member[v] = db.member[v]
  PROVE  CalmInv' /\ (Watched /\ (Waits(timer[t]) => db'.member[timer[t].user] = None) => Watched')
<1>1. \A x \in Timers : timer'[x] = IF x = t THEN ended ELSE timer[x]
  BY DEF IInv, TimersOK
<1>2. \A x \in Timers : Waits(timer'[x]) => timer'[x] = timer[x] /\ Waits(timer[x]) /\ x # t
  BY <1>1 DEF Waits
<1>3. TimersCalm'
  <2> SUFFICES ASSUME NEW x \in Timers
               PROVE  /\ Waits(timer'[x]) =>
                           /\ timer'[x].user \in Users
                           /\ timer'[x].roomId \in {None, db'.member[timer'[x].user]}
                      /\ timer'[x].at = "reply" => Agree(timer'[x].result, timer'[x].roomId)
    BY DEF TimersCalm, Waits
  <2>1. CASE x = t
    BY <1>1, <1>2, <2>1
  <2>2. CASE x # t /\ Waits(timer[x])
    <3>1. timer[x].user \in Users /\ ~(Waits(timer[t]) /\ timer[t].user = timer[x].user)
      BY <2>2 DEF CalmInv, TimersCalm, OneEach
    <3> QED
      BY <1>1, <2>2, <3>1 DEF CalmInv, TimersCalm
  <2>3. CASE x # t /\ ~Waits(timer[x])
    BY <1>1, <2>3 DEF CalmInv, TimersCalm
  <2> QED
    BY <2>1, <2>2, <2>3
<1>4. OneEach'
  BY <1>2 DEF CalmInv, OneEach, Waits
<1>5. Cancellable'
  BY <1>1, <1>2 DEF CalmInv, Cancellable, Waits
<1>6. ASSUME Watched, Waits(timer[t]) => db'.member[timer[t].user] = None PROVE Watched'
  <2> SUFFICES ASSUME NEW v \in Users, db'.member[v] # None
               PROVE  \/ \E x \in Sockets : socket[x].user = v
                      \/ \E x \in Timers : Waits(timer'[x]) /\ timer'[x].user = v
    BY DEF Watched, Waits
  <2>1. ~(Waits(timer[t]) /\ timer[t].user = v) /\ db.member[v] # None
    BY <1>6
  <2> QED
    BY <1>1, <1>6, <2>1 DEF Watched
<1> QED
  BY <1>3, <1>4, <1>5, <1>6 DEF CalmInv

\* A leaving timer's user may be back, but no handler has recognised it yet, so
\* its client is in no channel.
LEMMA TimerLeaveCalm ==
  ASSUME IInv, CalmInv, NEW t \in Timers, TimerLeave(t)
  PROVE  Keeps
<1> DEFINE u == timer[t].user
<1>1. /\ timer[t].at = "leaving" /\ IsTimer(timer[t]) /\ UNCHANGED <<socket, call, pending>>
      /\ Waits(timer[t]) /\ u \in Users /\ timer[t].roomId \in {None, db.member[u]}
  BY DEF TimerLeave, IInv, TimersOK, CalmInv, TimersCalm, Waits
<1>2. CASE db.member[u] = None
  <2>1. timer' = [timer EXCEPT ![t] = Off] /\ db' = db
    BY <1>2 DEF TimerLeave
  <2>2. Off.at = "off"
    BY DEF Off
  <2>3. RowsOK' /\ SocketsCalm' /\ CallsCalm' /\ OneCall'
    BY <1>1, <2>1, ClientsUntouched DEF CalmInv, RowsOK, Room
  <2> QED
    BY <1>1, <1>2, <2>1, <2>2, <2>3, TimerEnds DEF Keeps
<1>3. ASSUME db.member[u] # None, NEW o \in LeaveOutcomes(u), db' = o.rows,
             timer' = [timer EXCEPT ![t].at = "reply", ![t].result = o.room]
      PROVE  Keeps
  <2> DEFINE ended == [timer[t] EXCEPT !.at = "reply", !.result = o.room]
  <2>1. timer' = [timer EXCEPT ![t] = ended]
    BY <1>3 DEF IInv, TimersOK
  <2>2. ended.at = "reply" /\ ended.result = o.room /\ ended.roomId = timer[t].roomId
    BY <1>1 DEF IsTimer, TimerFields
  <2> HIDE DEF ended
  <2>3. /\ db' \in Databases /\ ForeignKeyOK(db') /\ db'.member[u] = None
        /\ \A v \in Users \ {u} : db'.member[v] = db.member[v]
        /\ o.room \in {None, db.member[u]}
    BY <1>1, <1>3, LeavesAlone DEF CalmInv
  <2>4. Agree(ended.result, ended.roomId)
    BY <1>1, <2>2, <2>3 DEF Agree
  <2>5. SocketsCalm' /\ CallsCalm' /\ OneCall'
    <3> DEFINE back == {x \in Sockets : socket[x].open /\ socket[x].bearer = u}
    <3>1. ASSUME NEW x \in Sockets, socket[x].open, x \notin back
          PROVE  Room(socket[x])' = Room(socket[x])
      <4>1. socket[x].bearer \in Users /\ socket[x].bearer # u
        BY <3>1 DEF IInv, SocketsOK
      <4> QED
        BY <1>1, <2>3, <4>1 DEF Room
    <3>2. ASSUME NEW x \in back
          PROVE  socket[x].user # socket[x].bearer /\ socket[x].user = None /\ socket[x].roomId = None
      <4>1. CalmSocket(socket[x]) /\ socket[x].user # socket[x].bearer
        BY <1>1, <3>2 DEF CalmInv, OneEach, SocketsCalm
      <4> QED
        BY <4>1 DEF CalmSocket
    <3>3. SocketsCalm'
      <4> SUFFICES ASSUME NEW x \in Sockets, socket[x].open
                   PROVE  /\ CalmSocket(socket[x])
                          /\ ~Busy(x) => socket[x].roomId \in {None, Room(socket[x])'}
        BY <1>1 DEF CalmInv, SocketsCalm, CalmSocket, Room, Busy, Handles
      <4>1. CASE x \in back
        BY <3>2, <4>1 DEF CalmInv, SocketsCalm
      <4>2. CASE x \notin back
        BY <3>1, <4>2 DEF CalmInv, SocketsCalm
      <4> QED
        BY <4>1, <4>2
    <3>4. CallsCalm' /\ OneCall'
      <4> SUFFICES ASSUME NEW c \in Calls, call[c].at # "idle", NEW x, x = call[c].socket
                   PROVE  socket[x].open /\ CalmCall(call[c], socket[x], Room(socket[x])')
        BY <1>1 DEF CalmInv, CallsCalm, OneCall, CalmCall, InPlace, Agree, Room
      <4>1. /\ x \in Sockets /\ socket[x].open
            /\ CalmCall(call[c], socket[x], Room(socket[x]))
        BY CallIsCalm
      <4>2. CASE x \in back
        <5>1. call[c].at = "guard"
          BY <3>2, <4>1, <4>2 DEF CalmCall
        <5> QED
          BY <3>2, <4>1, <4>2, <5>1 DEF CalmCall, InPlace
      <4>3. CASE x \notin back
        BY <3>1, <4>1, <4>3
      <4> QED
        BY <4>1, <4>2, <4>3
    <3> QED
      BY <3>3, <3>4
  <2>6. RowsOK'
    BY <2>3 DEF RowsOK
  <2>7. \A v \in Users : ~(Waits(timer[t]) /\ timer[t].user = v) => db'.member[v] = db.member[v]
    BY <1>1, <2>3
  <2> QED
    <3>1. CalmInv' /\ (Watched /\ (Waits(timer[t]) => db'.member[timer[t].user] = None) => Watched')
      BY <1>1, <2>1, <2>2, <2>4, <2>5, <2>6, <2>7, TimerEnds
    <3> QED
      BY <2>3, <3>1 DEF Keeps
<1> QED
  BY <1>2, <1>3 DEF TimerLeave

LEMMA TimerReplyCalm ==
  ASSUME IInv, CalmInv, NEW t \in Timers, TimerReply(t)
  PROVE  Keeps /\ UpdatesReachTheirRoom'
<1>1. /\ timer[t].at = "reply" /\ timer' = [timer EXCEPT ![t] = Off]
      /\ UNCHANGED <<db, socket, call, pending>>
      /\ sent' = Shown(timer[t].result, timer[t].roomId)
      /\ Agree(timer[t].result, timer[t].roomId)
  BY DEF TimerReply, CalmInv, TimersCalm
<1>2. Off.at = "off" /\ ~Waits(timer[t])
  BY <1>1 DEF Off, Waits
<1>3. RowsOK' /\ SocketsCalm' /\ CallsCalm' /\ OneCall'
  BY <1>1, ClientsUntouched DEF CalmInv, RowsOK, Room
<1>4. Keeps
  BY <1>1, <1>2, <1>3, TimerEnds DEF Keeps
<1>5. UpdatesReachTheirRoom'
  BY <1>1 DEF UpdatesReachTheirRoom, Shown, Agree
<1> QED
  BY <1>4, <1>5

\* The user keeps its seat, and nobody waits for it any more.
LEMMA TimerLeaveFailsCalm ==
  ASSUME IInv, CalmInv, NEW t \in Timers, TimerLeaveFails(t)
  PROVE  CalmInv'
<1>1. timer' = [timer EXCEPT ![t] = Off] /\ UNCHANGED <<db, socket, call, pending>>
  BY DEF TimerLeaveFails
<1>2. Off.at = "off"
  BY DEF Off
<1>3. RowsOK' /\ SocketsCalm' /\ CallsCalm' /\ OneCall'
  BY <1>1, ClientsUntouched DEF CalmInv, RowsOK, Room
<1> QED
  BY <1>1, <1>2, <1>3, TimerEnds

LEMMA RestartCalm ==
  ASSUME IInv, CalmInv, Restart
  PROVE  CalmInv'
<1>1. /\ \A s \in Sockets : socket'[s] = NoSocket
      /\ \A c \in Calls : call'[c].at = "idle"
      /\ \A t \in Timers : timer'[t].at = "off"
      /\ db' = db
  BY IdleOK DEF Restart, Off
<1>2. RowsOK'
  BY <1>1 DEF CalmInv, RowsOK
<1>3. SocketsCalm' /\ CallsCalm' /\ OneCall'
  BY <1>1, NoSocketOK DEF SocketsCalm, CallsCalm, OneCall
<1>4. TimersCalm' /\ OneEach' /\ Cancellable'
  BY <1>1, NoSocketOK DEF TimersCalm, OneEach, Cancellable, Waits
<1> QED
  BY <1>2, <1>3, <1>4 DEF CalmInv

-----------------------------------------------------------------------------

LEMMA HazardsStay == Next => hazards' = hazards
<1>1. \A s \in Sockets : (\E u \in Users : Connect(s, u)) \/ Disconnect(s) => hazards' = hazards
  BY DEF Connect, Disconnect
<1>2. \A c \in Calls, s \in Sockets, e \in Events, r \in RoomIds \cup {None} :
        Receive(c, s, e, r) => hazards' = hazards
  BY DEF Receive
<1>3. \A c \in Calls : Handle(c) \/ Reject(c) => hazards' = hazards
  BY DEF Handle, GuardPasses, Service, Reply, Reject
<1>4. \A t \in Timers : RunTimer(t) \/ TimerLeaveFails(t) => hazards' = hazards
  BY DEF RunTimer, Fire, TimerLeave, TimerReply, TimerLeaveFails
<1>5. Restart => hazards' = hazards
  BY DEF Restart
<1> QED
  BY <1>1, <1>2, <1>3, <1>4, <1>5 DEF Next

\* In an orderly behaviour the rows, the sockets, the timers and the map fit together
\* (CalmInv), and what is emitted goes to the room it shows; in a calm one somebody
\* watches every seat.
Calm == (Orderly => CalmInv /\ UpdatesReachTheirRoom) /\ (hazards = {} => Watched)

LEMMA NextIsCalm ==
  ASSUME IInv, CalmInv, Orderly, Next
  PROVE  CalmInv' /\ UpdatesReachTheirRoom' /\ (hazards = {} /\ Watched => Watched')
<1> DEFINE G == CalmInv' /\ UpdatesReachTheirRoom' /\ (hazards = {} /\ Watched => Watched')
<1>1. ASSUME sent' = {}, Keeps PROVE G
  BY <1>1 DEF UpdatesReachTheirRoom, Keeps
<1>2. ASSUME NEW s \in Sockets, NEW u \in Users, Connect(s, u) PROVE G
  BY <1>1, <1>2, ConnectCalm DEF Connect
<1>3. ASSUME NEW s \in Sockets, Disconnect(s) PROVE G
  BY <1>1, <1>3, DisconnectCalm DEF Disconnect
<1>4. ASSUME NEW c \in Calls, NEW s \in Sockets, NEW e \in Events, NEW r \in RoomIds \cup {None},
             Receive(c, s, e, r)
      PROVE  G
  BY <1>1, <1>4, ReceiveCalm DEF Receive
<1>5. ASSUME NEW c \in Calls, Handle(c) \/ Reject(c) PROVE G
  <2>1. CASE Reject(c)
    BY <1>1, <2>1, RejectCalm DEF Reject
  <2>2. CASE GuardPasses(c)
    BY <1>1, <2>2, GuardPassesCalm DEF GuardPasses
  <2>3. CASE Service(c)
    BY <1>1, <2>3, ServiceCalm DEF Service
  <2>4. CASE Reply(c)
    BY <2>4, ReplyCalm DEF Keeps
  <2> QED
    BY <1>5, <2>1, <2>2, <2>3, <2>4 DEF Handle
<1>6. ASSUME NEW t \in Timers, RunTimer(t) PROVE G
  <2>1. CASE Fire(t)
    BY <1>1, <2>1, FireCalm DEF Fire
  <2>2. CASE TimerLeave(t)
    BY <1>1, <2>2, TimerLeaveCalm DEF TimerLeave
  <2>3. CASE TimerReply(t)
    BY <2>3, TimerReplyCalm DEF Keeps
  <2> QED
    BY <1>6, <2>1, <2>2, <2>3 DEF RunTimer
<1>7. ASSUME NEW t \in Timers, TimerLeaveFails(t) PROVE G
  <2>1. hazards # {} /\ sent' = {}
    BY <1>7 DEF TimerLeaveFails
  <2> QED
    BY <1>7, <2>1, TimerLeaveFailsCalm DEF UpdatesReachTheirRoom
<1>8. CASE Restart
  <2>1. hazards # {} /\ sent' = {}
    BY <1>8 DEF Restart
  <2> QED
    BY <1>8, <2>1, RestartCalm DEF UpdatesReachTheirRoom
<1> QED
  BY <1>2, <1>3, <1>4, <1>5, <1>6, <1>7, <1>8 DEF Next

LEMMA CalmNext == IInv /\ Calm /\ [Next]_vars => Calm'
<1> SUFFICES ASSUME IInv, Calm, [Next]_vars PROVE Calm'
  OBVIOUS
<1>1. CASE Next
  <2>1. hazards' = hazards
    BY <1>1, HazardsStay
  <2>2. hazards = {} => Orderly
    BY DEF Orderly
  <2> QED
    BY <1>1, <2>1, <2>2, NextIsCalm DEF Calm, Orderly
<1>2. CASE UNCHANGED vars
  <2>1. UNCHANGED <<hazards, db, socket, call, timer, pending, sent>>
    BY <1>2 DEF vars
  <2>2. CalmInv => RowsOK' /\ TimersCalm' /\ OneEach' /\ Cancellable'
    BY <2>1 DEF CalmInv, RowsOK, TimersCalm, OneEach, Cancellable, Waits
  <2>3. CalmInv => SocketsCalm' /\ CallsCalm' /\ OneCall'
    BY <2>1, ClientsUntouched DEF Room
  <2>4. (UpdatesReachTheirRoom => UpdatesReachTheirRoom') /\ (Watched => Watched')
    BY <2>1 DEF UpdatesReachTheirRoom, Orderly, Watched, Waits
  <2> QED
    BY <2>1, <2>2, <2>3, <2>4 DEF Calm, CalmInv, Orderly
<1> QED
  BY <1>1, <1>2

LEMMA AlwaysCalm == Spec => [](IInv /\ Calm)
<1>1. Init => IInv /\ Calm
  BY InitOK, CalmInit DEF Calm, Init, UpdatesReachTheirRoom
<1> QED
  BY <1>1, NextOK, CalmNext, PTL DEF Spec

\* The new state of a room is sent to that room's channel and to no other, by a
\* handler as well as by a timer, for any number of rooms, users, sockets and events under
\* way, restarts and failing leaves included; provided that a client waits for the
\* acknowledgement of each event and that no other hazard occurs.
THEOREM UpdatesFindTheirRoom == Spec => []UpdatesReachTheirRoom
<1>1. Calm => UpdatesReachTheirRoom
  BY DEF Calm, UpdatesReachTheirRoom
<1> QED
  BY <1>1, AlwaysCalm, PTL

\* A user who sits in a room is there with a socket, or a timer runs that will make
\* it leave.
THEOREM NobodyIsForgotten == Spec => []SeatedIsWatched
<1>1. IInv /\ Calm => SeatedIsWatched
  <2> SUFFICES ASSUME IInv, CalmInv, Watched, NEW u \in Users, db.member[u] # None, ~Present(u)
               PROVE  \E t \in Timers : timer[t].user = u
    BY DEF Calm, SeatedIsWatched, Orderly
  <2>1. ASSUME NEW s \in Sockets, socket[s].user = u PROVE FALSE
    <3>1. socket[s].open /\ CalmSocket(socket[s])
      BY <2>1, NoneIsNoUser, NoSocketOK DEF CalmInv, SocketsCalm
    <3>2. socket[s].bearer = u
      BY <2>1, <3>1, NoneIsNoUser DEF CalmSocket
    <3> QED
      BY <3>1, <3>2 DEF Present
  <2> QED
    BY <2>1 DEF Watched
<1> QED
  BY <1>1, AlwaysCalm, PTL

\* Who listens to the channel of a room that exists plays in it, between two calls of a
\* client that makes one after the other; restarts and failing leaves included.
THEOREM OnlyPlayersListen == Spec => []ListenersPlay
<1>1. Calm => ListenersPlay
  <2> SUFFICES ASSUME CalmInv, NEW s \in Sockets, socket[s].open, ~Busy(s)
               PROVE  ToSet(socket[s].rooms) \cap db.live
                        \subseteq {db.member[socket[s].bearer]}
    BY DEF Calm, ListenersPlay
  <2>1. CalmSocket(socket[s]) /\ socket[s].roomId \in {None, db.member[socket[s].bearer]}
    BY DEF CalmInv, SocketsCalm, Room
  <2>2. socket[s].rooms = IF socket[s].roomId = None THEN <<>> ELSE <<socket[s].roomId>>
    BY <2>1 DEF CalmSocket
  <2>3. ToSet(socket[s].rooms) \subseteq {socket[s].roomId} \ {None}
    BY <2>2 DEF ToSet
  <2> QED
    BY <2>1, <2>3
<1> QED
  BY <1>1, AlwaysCalm, PTL

\* No timer takes a user out of the room whose channel its open socket has joined:
\* the handler that joined it had cleared the timer, or had waited for it; restarts and
\* failing leaves included.
THEOREM ReturnedStay == Spec => ReturnedIsKept
<1>1. Calm => \A t \in Timers :
                Orderly /\ timer[t].at = "leaving" => ~Acknowledged(timer[t].user)
  <2> SUFFICES ASSUME CalmInv, NEW t \in Timers, timer[t].at = "leaving",
                      NEW s \in Sockets, socket[s].open, socket[s].bearer = timer[t].user,
                      db.member[timer[t].user] \in ToSet(socket[s].rooms)
               PROVE  FALSE
    BY DEF Calm, Acknowledged
  <2>1. CalmSocket(socket[s])
    BY DEF CalmInv, SocketsCalm
  <2>2. socket[s].rooms # <<>>
    BY DEF ToSet
  <2>3. socket[s].user = socket[s].bearer
    BY <2>1, <2>2 DEF CalmSocket
  <2> QED
    BY <2>3 DEF CalmInv, OneEach, Waits
<1>2. Calm /\ [Next]_vars =>
        [\A t \in Timers :
           Orderly /\ timer[t].at = "leaving" /\ db' # db /\ timer'[t] # timer[t]
             => ~Acknowledged(timer[t].user)]_vars
  BY <1>1
<1> QED
  BY <1>2, AlwaysCalm, PTL DEF Spec, ReturnedIsKept
=============================================================================
