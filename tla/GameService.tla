----------------------------- MODULE GameService -----------------------------
(***************************************************************************)
(* GameService (src/modules/game/game.service.ts) on GameRepository and    *)
(* Redis.  The games of different rooms share no row and no key, so there  *)
(* is one room.  A call advances one Redis command or one Postgres         *)
(* transaction at a time and keeps what it read in its record; only        *)
(* getState on a living game and refused calls, which change nothing, are  *)
(* left out.                                                               *)
(*                                                                         *)
(* Time is counted in ticks: SET ... EX and EXPIRE give a key TTL ticks to *)
(* live.  The moves key has no expiry, as in the code.  A key may expire   *)
(* between any two steps of a call, in every environment.                  *)
(***************************************************************************)
EXTENDS TicTacToe

CONSTANTS GameIds,       \* the ids Postgres hands out
          PlayedGames,   \* bound: the games whose players move
          Calls,         \* slots for the calls in flight
          TTL,           \* engine.dataTTL
          MaxMoves,      \* bound: no move is begun on a longer list of moves
          Environments,  \* sets of hazards, see MayStart
          NotStarted, Lost

ASSUME TtlPositive == TTL \in Nat \ {0}
ASSUME PlayedGamesAreGames == PlayedGames \subseteq GameIds
ASSUME MaxMovesNatural == MaxMoves \in Nat
ASSUME EnvironmentsKnown == Environments \subseteq SUBSET {"overlap", "failure", "room"}
ASSUME NoneIsNoGame == None \notin GameIds
ASSUME OneIsPlayed == PlayedGames # {}
ASSUME NoPositions == NotStarted \notin States /\ Lost \notin States /\ NotStarted # Lost

VARIABLES hazards,    \* what may happen in this behaviour
          games,      \* the rows of Game and of its Moves
          room,       \* the row of the room: is it there, and its currentGameId
          redis,      \* the values of the state and moves keys
          ttl,        \* ticks the state and meta keys have to live, 0: no key
          call        \* [Calls -> CallRecords]

vars == <<hazards, games, room, redis, ttl, call>>

Moves == [userId : Players, cellId : Cells]

Rows == [status : {"none", "Active", "Finished", "Abandoned"},
         result : Results, moves : Seq(Moves)]

Steps == {"idle", "start.setState", "start.setMeta",
          "move.getMeta", "move.setState", "move.expire", "move.push",
          "end.range", "end.finish", "abandon.update", "del"}

CallRecords ==
  [at     : Steps,
   game   : GameIds \cup {None},
   userId : Players \cup {None},
   cellId : Cells \cup {None},
   state  : States \cup {None},   \* the state makeMove read, then nextState
   moves  : Seq(Moves)]           \* the moves endGame read

Idle == [at |-> "idle", game |-> None, userId |-> None, cellId |-> None,
         state |-> None, moves |-> <<>>]

TypeOK ==
  /\ hazards \in Environments
  /\ games \in [GameIds -> Rows]
  /\ room \in [live : BOOLEAN, currentGameId : GameIds \cup {None}]
  /\ redis \in [GameIds -> [state : States \cup {None}, moves : Seq(Moves)]]
  /\ ttl \in [GameIds -> [state : 0..TTL, meta : 0..TTL]]
  /\ \A g \in GameIds : redis[g].state = None <=> ttl[g].state = 0
  /\ call \in [Calls -> CallRecords]

Init ==
  /\ hazards \in Environments
  /\ games = [g \in GameIds |-> [status |-> "none", result |-> None, moves |-> <<>>]]
  /\ room = [live |-> TRUE, currentGameId |-> None]
  /\ redis = [g \in GameIds |-> [state |-> None, moves |-> <<>>]]
  /\ ttl = [g \in GameIds |-> [state |-> 0, meta |-> 0]]
  /\ call = [c \in Calls |-> Idle]

-----------------------------------------------------------------------------

InFlight == {c \in Calls : call[c].at # "idle"}

InPlay(g) == ttl[g].state > 0

\* The environment.  Nothing in the code rules out that calls overlap, that a
\* command fails or the process dies, or that the room is deleted or given
\* another game while one is in play.  `hazards' says which of the three may
\* happen; without any of them the environment is calm.
MayStart == "overlap" \in hazards \/ InFlight = {}

RoomIsFree ==
  "room" \in hazards \/ (InFlight = {} /\ \A g \in GameIds : ~InPlay(g))

Advance(c, record) == call' = [call EXCEPT ![c] = record]

Set(g, state) ==
  /\ redis' = [redis EXCEPT ![g].state = state]
  /\ ttl' = [ttl EXCEPT ![g].state = TTL]

-----------------------------------------------------------------------------
\* startGame(roomId, type, playerIds)

StartGame(c, g) ==
  /\ call[c].at = "idle"
  /\ MayStart /\ RoomIsFree
  /\ games[g].status = "none"
  /\ room.live
  /\ games' = [games EXCEPT ![g].status = "Active"]
  /\ room' = [room EXCEPT !.currentGameId = g]
  /\ Advance(c, [Idle EXCEPT !.at = "start.setState", !.game = g])
  /\ UNCHANGED <<hazards, redis, ttl>>

StartSetState(c) ==
  /\ call[c].at = "start.setState"
  /\ Set(call[c].game, InitialState)
  /\ Advance(c, [call[c] EXCEPT !.at = "start.setMeta"])
  /\ UNCHANGED <<hazards, games, room>>

StartSetMeta(c) ==
  /\ call[c].at = "start.setMeta"
  /\ ttl' = [ttl EXCEPT ![call[c].game].meta = TTL]
  /\ Advance(c, Idle)
  /\ UNCHANGED <<hazards, games, room, redis>>

-----------------------------------------------------------------------------
\* makeMove(gameId, userId, action)

MoveGetState(c, g, userId, cellId) ==
  /\ call[c].at = "idle"
  /\ MayStart
  /\ InPlay(g) /\ g \in PlayedGames
  /\ Len(redis[g].moves) < MaxMoves
  /\ Advance(c, [Idle EXCEPT !.at = "move.getMeta", !.game = g, !.userId = userId,
                             !.cellId = cellId, !.state = redis[g].state])
  /\ UNCHANGED <<hazards, games, room, redis, ttl>>

\* Without the meta key, or when the move is invalid, the call throws.
MoveGetMeta(c) ==
  LET self == call[c]
  IN  /\ self.at = "move.getMeta"
      /\ Advance(c, IF /\ ttl[self.game].meta > 0
                       /\ IsValidMove(self.state, self.userId, self.cellId)
                      THEN [self EXCEPT !.at = "move.setState",
                                        !.state = ApplyMove(self.state, self.userId, self.cellId)]
                      ELSE Idle)
      /\ UNCHANGED <<hazards, games, room, redis, ttl>>

MoveSetState(c) ==
  /\ call[c].at = "move.setState"
  /\ Set(call[c].game, call[c].state)
  /\ Advance(c, [call[c] EXCEPT !.at = "move.expire"])
  /\ UNCHANGED <<hazards, games, room>>

\* A mistake: the meta key is left to expire.
MoveSkipExpire(c) ==
  /\ call[c].at = "move.expire"
  /\ Advance(c, [call[c] EXCEPT !.at = "move.push"])
  /\ UNCHANGED <<hazards, games, room, redis, ttl>>

\* EXPIRE does nothing when the key is gone.
MoveExpireMeta(c) ==
  /\ call[c].at = "move.expire"
  /\ ttl' = [ttl EXCEPT ![call[c].game].meta = IF @ > 0 THEN TTL ELSE 0]
  /\ Advance(c, [call[c] EXCEPT !.at = "move.push"])
  /\ UNCHANGED <<hazards, games, room, redis>>

\* A mistake: LPUSH instead of RPUSH.
PushFront(moves, move) == <<move>> \o moves

\* A mistake: a full list loses its oldest move.
PushBounded(moves, move) == IF Len(moves) = 2 THEN <<moves[2], move>> ELSE Append(moves, move)

Push(moves, move) == Append(moves, move)

\* A mistake: a draw does not end the game.
IsWon(state) == FindWinner(state.board) # None

EndsGame(state) == ResultOf(state.board) # None

MovePush(c) ==
  LET self == call[c]
  IN  /\ self.at = "move.push"
      /\ redis' = [redis EXCEPT ![self.game].moves =
                     Push(@, [userId |-> self.userId, cellId |-> self.cellId])]
      /\ Advance(c, IF EndsGame(self.state) THEN [self EXCEPT !.at = "end.range"] ELSE Idle)
      /\ UNCHANGED <<hazards, games, room, ttl>>

-----------------------------------------------------------------------------
\* endGame(gameId, result)

EndRange(c) ==
  /\ call[c].at = "end.range"
  /\ Advance(c, [call[c] EXCEPT !.at = "end.finish", !.moves = redis[call[c].game].moves])
  /\ UNCHANGED <<hazards, games, room, redis, ttl>>

\* A mistake: the room is not part of the transaction's conditions.
FinishAnyGame(g) == TRUE

\* GameRepository.finish updates the room WHERE currentGameId = gameId; without
\* such a room (P2025) the whole transaction is rolled back and the call throws.
FinishAllowed(g) == room.live /\ room.currentGameId = g

\* A mistake: the room keeps pointing at the finished game.
KeepCurrent(g) == room

ClearCurrent(g) == [room EXCEPT !.currentGameId = None]

EndFinish(c) ==
  LET self == call[c]
  IN  /\ self.at = "end.finish"
      /\ IF FinishAllowed(self.game)
           THEN /\ games' = [games EXCEPT ![self.game] =
                               [status |-> "Finished", result |-> ResultOf(self.state.board),
                                moves |-> @.moves \o self.moves]]
                /\ room' = ClearCurrent(self.game)
                /\ Advance(c, [Idle EXCEPT !.at = "del", !.game = self.game])
           ELSE Advance(c, Idle) /\ UNCHANGED <<games, room>>
      /\ UNCHANGED <<hazards, redis, ttl>>

\* A mistake: the moves key is forgotten.
DelState(c) ==
  /\ call[c].at = "del"
  /\ redis' = [redis EXCEPT ![call[c].game].state = None]
  /\ ttl' = [ttl EXCEPT ![call[c].game] = [state |-> 0, meta |-> 0]]
  /\ Advance(c, Idle)
  /\ UNCHANGED <<hazards, games, room>>

Del(c) ==
  /\ call[c].at = "del"
  /\ redis' = [redis EXCEPT ![call[c].game] = [state |-> None, moves |-> <<>>]]
  /\ ttl' = [ttl EXCEPT ![call[c].game] = [state |-> 0, meta |-> 0]]
  /\ Advance(c, Idle)
  /\ UNCHANGED <<hazards, games, room>>

-----------------------------------------------------------------------------
\* getState(gameId) of a game whose state key is not there: abandonGame

GetStateMiss(c, g) ==
  /\ call[c].at = "idle"
  /\ MayStart
  /\ games[g].status # "none"
  /\ ~InPlay(g)
  /\ Advance(c, [Idle EXCEPT !.at = "abandon.update", !.game = g])
  /\ UNCHANGED <<hazards, games, room, redis, ttl>>

AbandonUpdate(c) ==
  /\ call[c].at = "abandon.update"
  /\ games' = [games EXCEPT ![call[c].game].status = "Abandoned"]
  /\ Advance(c, [call[c] EXCEPT !.at = "del"])
  /\ UNCHANGED <<hazards, room, redis, ttl>>

\* The room's row is deleted and ROOM_DELETED emitted with the payload
\* {roomId, currentGameId}.  onRoomDeleted reads payload.room.currentGameId,
\* which throws before anything is done; the emitter's wrapper logs it.
OnRoomDeleted ==
  /\ room.live
  /\ RoomIsFree
  /\ room' = [live |-> FALSE, currentGameId |-> None]
  /\ UNCHANGED <<hazards, games, redis, ttl, call>>

-----------------------------------------------------------------------------
\* Time and failures

Less(n) == IF n = 0 THEN 0 ELSE n - 1

\* Time passes and keys expire at any moment, in the middle of a call as well.
Tick ==
  /\ \E g \in GameIds : ttl[g].state > 0 \/ ttl[g].meta > 0
  /\ ttl' = [g \in GameIds |-> [state |-> Less(ttl[g].state), meta |-> Less(ttl[g].meta)]]
  /\ redis' = [g \in GameIds |->
                 IF ttl'[g].state = 0 THEN [redis[g] EXCEPT !.state = None] ELSE redis[g]]
  /\ UNCHANGED <<hazards, games, room, call>>

\* A command or transaction fails or the process dies: the call is over.
Fail(c) ==
  /\ "failure" \in hazards
  /\ call[c].at # "idle"
  /\ Advance(c, Idle)
  /\ UNCHANGED <<hazards, games, room, redis, ttl>>

\* Bound: a run ends when every game has been played or the room is gone.
NothingLeft ==
  /\ InFlight = {} /\ \A g \in GameIds : ~InPlay(g)
  /\ UNCHANGED vars

StartCall(c) ==
  \E g \in GameIds :
    \/ StartGame(c, g)
    \/ \E userId \in Players, cellId \in Cells : MoveGetState(c, g, userId, cellId)
    \/ GetStateMiss(c, g)

Continue(c) ==
  \/ StartSetState(c) \/ StartSetMeta(c)
  \/ MoveGetMeta(c) \/ MoveSetState(c) \/ MoveExpireMeta(c) \/ MovePush(c)
  \/ EndRange(c) \/ EndFinish(c) \/ Del(c)
  \/ AbandonUpdate(c)

Next ==
  \/ \E c \in Calls : StartCall(c) \/ Continue(c) \/ Fail(c)
  \/ OnRoomDeleted
  \/ Tick
  \/ NothingLeft

Spec == Init /\ [][Next]_vars

-----------------------------------------------------------------------------
\* What holds whatever the environment does.

\* A result is written once: however many moves that end the game race each
\* other, the first transaction takes the room's currentGameId away from the
\* others (game.repository.ts:40-43), so neither result nor moves change again.
ResultWrittenOnce ==
  [][\A g \in GameIds :
       games[g].result # None =>
         games'[g].result = games[g].result /\ games'[g].moves = games[g].moves]_vars

\* The room never points at a game that has a result, so the next game of the
\* room finds no leftover of the last one.
CurrentHasNoResult ==
  room.currentGameId # None => games[room.currentGameId].result = None

-----------------------------------------------------------------------------
\* What holds for one call at a time, when none fails.

OneByOne == hazards \subseteq {"room"}

\* Between calls the cached position is the one the stored moves lead to, so
\* getState shows a state and moves that agree (game.service.ts:132).
StateIsReplay ==
  OneByOne /\ InFlight = {} =>
    \A g \in GameIds : InPlay(g) => redis[g].state = Replay(redis[g].moves)

\* Between calls the metadata that are there live as long as the state: a game does
\* not lose them while nobody touches it (game.service.ts:86-92).  A call may lose them:
\* EXPIRE does nothing for a key that has expired since GET, while SET renews the state.
MetaOutlivesState ==
  OneByOne /\ InFlight = {} =>
    \A g \in GameIds : InPlay(g) /\ ttl[g].meta > 0 => ttl[g].meta >= ttl[g].state

\* Between calls, a game that Postgres calls finished or abandoned has left Redis
\* altogether: nobody plays it on, and the moves key, which has no TTL, is not left
\* behind (game.service.ts:93, 110, 115).  Other games may leave their moves.
EndedLeavesRedis ==
  OneByOne /\ InFlight = {} =>
    \A g \in GameIds :
      games[g].status \in {"Finished", "Abandoned"} =>
        ~InPlay(g) /\ ttl[g].meta = 0 /\ redis[g].moves = <<>>

-----------------------------------------------------------------------------
\* What holds in a calm environment.

\* Replayed in order, each move is valid, and only the last one ends the game.
IsLegal(moves) ==
  \A i \in DOMAIN moves :
    LET before == Replay(SubSeq(moves, 1, i - 1))
    IN  /\ ResultOf(before.board) = None
        /\ IsValidMove(before, moves[i].userId, moves[i].cellId)

\* The moves in Postgres are the game that was played: they are legal, and give the
\* stored result.
RecordIsTheGame ==
  hazards = {} =>
    \A g \in GameIds :
      games[g].status = "Finished" =>
        /\ IsLegal(games[g].moves)
        /\ games[g].result = ResultOf(Replay(games[g].moves).board)

\* A game that has a result does not stay in play (isValidMove would go on
\* accepting moves): between calls, all that is in Redis is undecided.
DecidedGamesLeave ==
  hazards = {} /\ InFlight = {} =>
    \A g \in GameIds : InPlay(g) => ResultOf(redis[g].state.board) = None

\* Each call is one move of the game of TicTacToeGame, or none.  While a call moves,
\* the position is the one it has in hand: the state key may expire under it and
\* come back with SET, so a game is lost only when no call is about to write it.
\* Otherwise a position that is in Postgres or Redis is the abstract one; a game that
\* is in neither has not begun or is lost.  Nothing is said of other than calm
\* environments: they are mapped to a game that never begins.
TheGame == CHOOSE g \in PlayedGames : TRUE

Moving == {"move.getMeta", "move.setState", "move.expire", "move.push"}

Ending == {"end.range", "end.finish"}

MovesIt(c) == call[c].at \in Moving \cup Ending /\ call[c].game = TheGame

Mover == CHOOSE c \in Calls : MovesIt(c)

Starting == \E c \in Calls : call[c].at = "start.setState" /\ call[c].game = TheGame

Position ==
  IF hazards # {} THEN NotStarted
  ELSE IF games[TheGame].result # None THEN Replay(games[TheGame].moves)
  ELSE IF \E c \in Calls : MovesIt(c) THEN call[Mover].state
  ELSE IF InPlay(TheGame) THEN redis[TheGame].state
  ELSE IF Starting \/ games[TheGame].status = "none" THEN NotStarted
  ELSE Lost

Outcome ==
  IF Position \in {NotStarted, Lost} THEN None ELSE ResultOf(Position.board)

Abstract == INSTANCE TicTacToeGame WITH state <- Position, result <- Outcome

PlaysTheGame == Abstract!Spec
=============================================================================
