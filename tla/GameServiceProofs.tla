------------------------- MODULE GameServiceProofs --------------------------
(***************************************************************************)
(* What GameService keeps for every board, every engine, every number of   *)
(* games and of overlapping calls, and in every environment: the result of *)
(* a game is written once.  And what it keeps one call at a time: the keys *)
(* of a game in Redis belong together, and leave it together in the end;   *)
(* the position is the one the stored moves lead to; what is recorded is a *)
(* legal game with its result.  So GameService implements TicTacToeGame.   *)
(***************************************************************************)
EXTENDS GameService, WellFoundedInduction, SequenceTheorems, TLAPS

\* The shape of the rows.  Nothing is said of what their columns hold, since
\* that depends on the engine and the argument does not.
GamesShaped ==
  /\ games = [g \in GameIds |-> games[g]]
  /\ \A g \in GameIds :
       games[g] = [status |-> games[g].status, result |-> games[g].result,
                   moves |-> games[g].moves]

RoomShaped == room \in [live : BOOLEAN, currentGameId : GameIds \cup {None}]

\* A game that has not been created has no result.
NewHasNoResult == \A g \in GameIds : games[g].status = "none" => games[g].result = None

\* CurrentHasNoResult is inductive only with NewHasNoResult: StartGame makes a
\* new game the current one.
IInv == GamesShaped /\ RoomShaped /\ NewHasNoResult /\ CurrentHasNoResult

WrittenOnce ==
  \A g \in GameIds :
    games[g].result # None =>
      games'[g].result = games[g].result /\ games'[g].moves = games[g].moves

-----------------------------------------------------------------------------

LEMMA InitOK == Init => IInv
<1> SUFFICES ASSUME Init PROVE IInv
  OBVIOUS
<1>1. GamesShaped /\ NewHasNoResult
  BY DEF Init, GamesShaped, NewHasNoResult
<1>2. RoomShaped /\ CurrentHasNoResult
  BY DEF Init, RoomShaped, CurrentHasNoResult
<1> QED
  BY <1>1, <1>2 DEF IInv

\* A step that leaves the rows alone.
LEMMA RowsUntouched ==
  ASSUME IInv, UNCHANGED <<games, room>>
  PROVE  IInv' /\ WrittenOnce
BY DEF IInv, GamesShaped, RoomShaped, NewHasNoResult, CurrentHasNoResult, WrittenOnce

\* The new game has no result and becomes the current one.
LEMMA StartGameOK ==
  ASSUME IInv, NEW c \in Calls, NEW g \in GameIds, StartGame(c, g)
  PROVE  IInv' /\ WrittenOnce
<1>1. /\ games' = [games EXCEPT ![g].status = "Active"]
      /\ room' = [room EXCEPT !.currentGameId = g]
      /\ games[g].result = None
  BY DEF StartGame, IInv, NewHasNoResult
<1>2. ASSUME NEW h \in GameIds
      PROVE  /\ games'[h].result = games[h].result
             /\ games'[h].moves = games[h].moves
             /\ games'[h].status = IF h = g THEN "Active" ELSE games[h].status
             /\ games'[h] = [status |-> games'[h].status, result |-> games'[h].result,
                             moves |-> games'[h].moves]
  BY <1>1 DEF IInv, GamesShaped
<1>3. games' = [h \in GameIds |-> games'[h]]
  BY <1>1 DEF IInv, GamesShaped
<1>4. room' \in [live : BOOLEAN, currentGameId : GameIds \cup {None}] /\ room'.currentGameId = g
  BY <1>1 DEF IInv, RoomShaped
<1>5. CurrentHasNoResult'
  BY <1>1, <1>2, <1>4 DEF CurrentHasNoResult
<1>6. GamesShaped' /\ NewHasNoResult' /\ WrittenOnce
  BY <1>2, <1>3 DEF GamesShaped, NewHasNoResult, WrittenOnce, IInv
<1> QED
  BY <1>4, <1>5, <1>6 DEF IInv, RoomShaped

\* A game that is finished was the current one, so it had no result before, and
\* is not the current one afterwards.
LEMMA EndFinishOK ==
  ASSUME IInv, NEW c \in Calls, EndFinish(c)
  PROVE  IInv' /\ WrittenOnce
<1> DEFINE f == call[c].game
           row == [status |-> "Finished", result |-> ResultOf(call[c].state.board),
                   moves |-> games[f].moves \o call[c].moves]
<1>1. CASE ~FinishAllowed(f)
  BY <1>1, RowsUntouched DEF EndFinish
<1>2. CASE FinishAllowed(f)
  <2>1. games' = [games EXCEPT ![f] = row] /\ room' = [room EXCEPT !.currentGameId = None]
    BY <1>2 DEF EndFinish, ClearCurrent
  <2>2. f \in GameIds \cup {None} /\ (f \in GameIds => games[f].result = None)
    BY <1>2, NoneIsNoGame DEF FinishAllowed, IInv, RoomShaped, CurrentHasNoResult
  <2>3. room' \in [live : BOOLEAN, currentGameId : GameIds \cup {None}] /\ room'.currentGameId = None
    BY <2>1 DEF IInv, RoomShaped
  <2>4. ASSUME NEW h \in GameIds
        PROVE  games'[h] = IF h = f THEN row ELSE games[h]
    BY <2>1 DEF IInv, GamesShaped
  <2>5. games' = [h \in GameIds |-> games'[h]]
    BY <2>1 DEF IInv, GamesShaped
  <2>6. row.status = "Finished" /\ row = [status |-> row.status, result |-> row.result, moves |-> row.moves]
    OBVIOUS
  <2> HIDE DEF row
  <2>7. GamesShaped'
    BY <2>4, <2>5, <2>6 DEF IInv, GamesShaped
  <2>8. NewHasNoResult' /\ WrittenOnce
    BY <2>2, <2>4, <2>6 DEF IInv, NewHasNoResult, WrittenOnce
  <2> QED
    BY <2>3, <2>7, <2>8 DEF IInv, RoomShaped, CurrentHasNoResult
<1> QED
  BY <1>1, <1>2

\* Abandoning a game changes its status and nothing else of it.
LEMMA AbandonOK ==
  ASSUME IInv, NEW c \in Calls, AbandonUpdate(c)
  PROVE  IInv' /\ WrittenOnce
<1> DEFINE f == call[c].game
<1>1. games' = [games EXCEPT ![f].status = "Abandoned"] /\ room' = room
  BY DEF AbandonUpdate
<1> HIDE DEF f
<1>2. ASSUME NEW h \in GameIds
      PROVE  /\ games'[h].result = games[h].result
             /\ games'[h].moves = games[h].moves
             /\ games'[h].status \in {games[h].status, "Abandoned"}
             /\ games'[h] = [status |-> games'[h].status, result |-> games'[h].result,
                             moves |-> games'[h].moves]
  <2>1. games[h] = [status |-> games[h].status, result |-> games[h].result,
                    moves |-> games[h].moves]
    BY DEF IInv, GamesShaped
  <2>2. games'[h] = IF h = f THEN [games[h] EXCEPT !.status = "Abandoned"] ELSE games[h]
    BY <1>1 DEF IInv, GamesShaped
  <2>3. CASE h = f
    <3>1. games'[h] = [status |-> "Abandoned", result |-> games[h].result,
                       moves |-> games[h].moves]
      BY <2>1, <2>2, <2>3
    <3> QED
      BY <3>1
  <2>4. CASE h # f
    BY <2>1, <2>2, <2>4
  <2> QED
    BY <2>3, <2>4
<1>3. games' = [h \in GameIds |-> games'[h]]
  BY <1>1 DEF IInv, GamesShaped
<1>4. GamesShaped' /\ NewHasNoResult' /\ WrittenOnce
  BY <1>2, <1>3 DEF GamesShaped, NewHasNoResult, WrittenOnce, IInv
<1>5. RoomShaped' /\ CurrentHasNoResult'
  BY <1>1, <1>2 DEF IInv, RoomShaped, CurrentHasNoResult
<1> QED
  BY <1>4, <1>5 DEF IInv

LEMMA RoomDeletedOK ==
  ASSUME IInv, OnRoomDeleted
  PROVE  IInv' /\ WrittenOnce
<1>1. games' = games /\ room' = [live |-> FALSE, currentGameId |-> None]
  BY DEF OnRoomDeleted
<1> QED
  BY <1>1 DEF IInv, GamesShaped, RoomShaped, NewHasNoResult, CurrentHasNoResult, WrittenOnce

LEMMA NextOK == IInv /\ [Next]_vars => IInv' /\ WrittenOnce
<1> SUFFICES ASSUME IInv, [Next]_vars PROVE IInv' /\ WrittenOnce
  OBVIOUS
<1>1. ASSUME NEW c \in Calls, StartCall(c) PROVE IInv' /\ WrittenOnce
  <2>1. ASSUME NEW g \in GameIds, NEW userId, NEW cellId,
               MoveGetState(c, g, userId, cellId) \/ GetStateMiss(c, g)
        PROVE  UNCHANGED <<games, room>>
    BY <2>1 DEF MoveGetState, GetStateMiss
  <2> QED
    BY <1>1, <2>1, StartGameOK, RowsUntouched DEF StartCall
<1>2. ASSUME NEW c \in Calls, Continue(c) \/ Fail(c) PROVE IInv' /\ WrittenOnce
  <2>1. CASE EndFinish(c)
    BY <2>1, EndFinishOK
  <2>2. CASE AbandonUpdate(c)
    BY <2>2, AbandonOK
  <2>3. CASE ~EndFinish(c) /\ ~AbandonUpdate(c)
    <3>1. UNCHANGED <<games, room>>
      BY <1>2, <2>3 DEF Continue, StartSetState, StartSetMeta, MoveGetMeta, MoveSetState,
                        MoveExpireMeta, MovePush, EndRange, Del, Fail
    <3> QED
      BY <3>1, RowsUntouched
  <2> QED
    BY <2>1, <2>2, <2>3
<1>3. CASE Tick \/ NothingLeft \/ UNCHANGED vars
  BY <1>3, RowsUntouched DEF Tick, NothingLeft, vars
<1> QED
  BY <1>1, <1>2, <1>3, RoomDeletedOK DEF Next

LEMMA Invariance == Spec => []IInv
BY InitOK, NextOK, PTL DEF Spec

-----------------------------------------------------------------------------

\* The game a room points at has no result, whatever the environment does
\* (game.repository.ts:40-43).
THEOREM CurrentNeverHasResult == Spec => []CurrentHasNoResult
<1>1. IInv => CurrentHasNoResult
  BY DEF IInv
<1> QED
  BY <1>1, Invariance, PTL

\* However many calls race to end a game, its result and its moves are written
\* to Postgres once.
THEOREM ResultIsWrittenOnce == Spec => ResultWrittenOnce
<1>1. IInv /\ [Next]_vars => [WrittenOnce]_vars
  BY NextOK
<1>2. Spec => [][WrittenOnce]_vars
  BY <1>1, Invariance, PTL DEF Spec
<1> QED
  BY <1>2 DEF ResultWrittenOnce, WrittenOnce

-----------------------------------------------------------------------------
\* One call at a time: the keys of a game between calls

RecordShaped(r) == {"at", "game"} \subseteq DOMAIN r

CallsShaped ==
  /\ call = [c \in Calls |-> call[c]]
  /\ \A c \in Calls :
       RecordShaped(call[c]) /\ (call[c].at # "idle" => call[c].game \in GameIds)

KeysShaped ==
  /\ ttl \in [GameIds -> [state : 0..TTL, meta : 0..TTL]]
  /\ DOMAIN redis = GameIds
  /\ \A g \in GameIds : {"state", "moves"} \subseteq DOMAIN redis[g]

Ended(g) == games[g].status \in {"Finished", "Abandoned"}

Gone(g) == ttl[g].state = 0 /\ ttl[g].meta = 0 /\ redis[g].moves = <<>>

BeforeEnd == {"start.setState", "start.setMeta", "move.getMeta", "move.setState",
              "move.expire", "move.push", "end.range", "end.finish"}

\* What the keys and rows are like when r is the only call: a meta key is behind
\* only while r is about to renew it, and an ended game is in Redis only while r is
\* about to delete it; nobody else touches the keys of an ended game.
Safe(r) ==
  /\ \A g \in GameIds :
       ttl[g].meta > 0 /\ ttl[g].state > ttl[g].meta =>
         r.game = g /\ r.at \in {"start.setMeta", "move.expire"}
  /\ \A g \in GameIds : Ended(g) => Gone(g) \/ (r.game = g /\ r.at = "del")
  /\ r.at \in BeforeEnd => ~Ended(r.game)

InTurn ==
  /\ \A c, e \in InFlight : c = e
  /\ InFlight = {} => Safe(Idle)
  /\ \A c \in InFlight : Safe(call[c])

KInv == IInv /\ (OneByOne => CallsShaped /\ KeysShaped /\ InTurn)

LEMMA IdleShaped == RecordShaped(Idle) /\ Idle.at = "idle" /\ Idle.game = None
BY DEF RecordShaped, Idle

LEMMA KInitOK == Init => KInv
<1> SUFFICES ASSUME Init PROVE CallsShaped /\ KeysShaped /\ InTurn
  BY InitOK DEF KInv
<1>1. /\ call = [c \in Calls |-> Idle] /\ InFlight = {}
      /\ \A g \in GameIds : /\ ttl[g] = [state |-> 0, meta |-> 0]
                            /\ redis[g] = [state |-> None, moves |-> <<>>]
  BY IdleShaped DEF Init, InFlight
<1>2. CallsShaped
  BY <1>1, IdleShaped DEF CallsShaped
<1>3. KeysShaped
  BY TtlPositive DEF Init, KeysShaped
<1>4. Safe(Idle)
  BY <1>1, IdleShaped DEF Safe, Gone, BeforeEnd
<1> QED
  BY <1>1, <1>2, <1>3, <1>4 DEF InTurn

\* The only call goes on with the record r, or is over.
LEMMA StepTo ==
  ASSUME CallsShaped, NEW c \in Calls, InFlight \subseteq {c},
         NEW r, RecordShaped(r), r = Idle \/ (r.at # "idle" /\ r.game \in GameIds),
         call' = [call EXCEPT ![c] = r], (Safe(r))'
  PROVE  CallsShaped' /\ InTurn'
<1>1. \A e \in Calls : call'[e] = IF e = c THEN r ELSE call[e]
  BY DEF CallsShaped
<1>2. CallsShaped'
  <2>1. call' = [e \in Calls |-> call'[e]]
    BY DEF CallsShaped
  <2> QED
    BY <1>1, <2>1, IdleShaped DEF CallsShaped
<1>3. \A e \in Calls : e # c => call[e].at = "idle"
  BY DEF InFlight
<1>4. InFlight' = IF r.at = "idle" THEN {} ELSE {c}
  BY <1>1, <1>3 DEF InFlight
<1>5. call'[c] = r
  BY <1>1
<1>6. CASE r = Idle
  <2>1. (Safe(Idle))' /\ InFlight' = {}
    BY <1>4, <1>6, IdleShaped DEF Safe, Idle
  <2> QED
    BY <1>2, <2>1 DEF InTurn
<1>7. CASE r.at # "idle" /\ r.game \in GameIds
  <2>1. InFlight' = {c} /\ (Safe(call[c]))'
    BY <1>4, <1>5, <1>7 DEF Safe
  <2> QED
    BY <1>2, <2>1 DEF InTurn
<1> QED
  BY <1>6, <1>7

\* Steps that leave the keys and rows alone.
LEMMA StepWithoutKeys ==
  ASSUME CallsShaped, KeysShaped, NEW c \in Calls, InFlight \subseteq {c},
         NEW r, RecordShaped(r), r = Idle \/ (r.at # "idle" /\ r.game \in GameIds),
         call' = [call EXCEPT ![c] = r], Safe(r), UNCHANGED <<games, redis, ttl>>
  PROVE  CallsShaped' /\ KeysShaped' /\ InTurn'
<1>1. (Safe(r))' /\ KeysShaped'
  BY DEF Safe, Ended, Gone, KeysShaped
<1> QED
  BY <1>1, StepTo

LEMMA AloneInFlight ==
  ASSUME InTurn, NEW c \in Calls, call[c].at # "idle"
  PROVE  InFlight \subseteq {c} /\ Safe(call[c])
BY DEF InTurn, InFlight

LEMMA StartCallSafe ==
  ASSUME KInv, OneByOne, NEW c \in Calls, StartCall(c)
  PROVE  CallsShaped' /\ KeysShaped' /\ InTurn'
<1>1. CallsShaped /\ KeysShaped /\ InTurn /\ IInv
  BY DEF KInv
<1>2. InFlight = {} /\ Safe(Idle)
  BY <1>1 DEF StartCall, StartGame, MoveGetState, GetStateMiss, MayStart, OneByOne, InTurn
<1>3. ASSUME NEW g \in GameIds, StartGame(c, g) PROVE CallsShaped' /\ KeysShaped' /\ InTurn'
  <2>1. PICK r : r = [Idle EXCEPT !.at = "start.setState", !.game = g]
    OBVIOUS
  <2>2. RecordShaped(r) /\ r.at = "start.setState" /\ r.game = g
    BY <2>1 DEF RecordShaped, Idle
  <2>3. /\ call' = [call EXCEPT ![c] = r] /\ UNCHANGED <<ttl, redis>>
        /\ games' = [games EXCEPT ![g].status = "Active"]
    BY <1>3, <2>1 DEF StartGame, Advance
  <2>4. \A h \in GameIds : games'[h].status = IF h = g THEN "Active" ELSE games[h].status
    BY <1>1, <2>3 DEF IInv, GamesShaped
  <2>5. (Safe(r))'
    BY <1>2, <2>2, <2>3, <2>4, NoneIsNoGame, IdleShaped DEF Safe, Ended, Gone
  <2> QED
    BY <1>1, <1>2, <2>2, <2>3, <2>5, StepTo DEF KeysShaped
<1>4. ASSUME NEW g \in GameIds, NEW userId, NEW cellId, MoveGetState(c, g, userId, cellId)
      PROVE  CallsShaped' /\ KeysShaped' /\ InTurn'
  <2>1. PICK r : r = [Idle EXCEPT !.at = "move.getMeta", !.game = g, !.userId = userId,
                                  !.cellId = cellId, !.state = redis[g].state]
    OBVIOUS
  <2>2. RecordShaped(r) /\ r.at = "move.getMeta" /\ r.game = g
    BY <2>1 DEF RecordShaped, Idle
  <2>3. call' = [call EXCEPT ![c] = r] /\ UNCHANGED <<games, ttl, redis>> /\ InPlay(g)
    BY <1>4, <2>1 DEF MoveGetState, Advance
  <2>4. ~Ended(g)
    BY <1>1, <1>2, <2>3, IdleShaped DEF Safe, Gone, InPlay, KeysShaped
  <2>5. Safe(r)
    BY <1>2, <2>2, <2>4, NoneIsNoGame, IdleShaped DEF Safe
  <2> QED
    BY <1>1, <1>2, <2>2, <2>3, <2>5, StepWithoutKeys
<1>5. ASSUME NEW g \in GameIds, GetStateMiss(c, g) PROVE CallsShaped' /\ KeysShaped' /\ InTurn'
  <2>1. PICK r : r = [Idle EXCEPT !.at = "abandon.update", !.game = g]
    OBVIOUS
  <2>2. RecordShaped(r) /\ r.at = "abandon.update" /\ r.game = g
    BY <2>1 DEF RecordShaped, Idle
  <2>3. call' = [call EXCEPT ![c] = r] /\ UNCHANGED <<games, ttl, redis>>
    BY <1>5, <2>1 DEF GetStateMiss, Advance
  <2>4. Safe(r)
    BY <1>2, <2>2, NoneIsNoGame, IdleShaped DEF Safe, BeforeEnd
  <2> QED
    BY <1>1, <1>2, <2>2, <2>3, <2>4, StepWithoutKeys
<1> QED
  BY <1>3, <1>4, <1>5 DEF StartCall

\* Steps of a call that write no key.
LEMMA RowStepSafe ==
  ASSUME KInv, OneByOne, NEW c \in Calls,
         MoveGetMeta(c) \/ EndRange(c) \/ EndFinish(c) \/ AbandonUpdate(c)
  PROVE  CallsShaped' /\ KeysShaped' /\ InTurn'
<1>1. CallsShaped /\ KeysShaped /\ InTurn /\ IInv
  BY DEF KInv
<1>2. /\ call[c].at \in {"move.getMeta", "end.range", "end.finish", "abandon.update"}
      /\ InFlight \subseteq {c} /\ Safe(call[c])
      /\ RecordShaped(call[c]) /\ call[c].game \in GameIds
  <2>1. call[c].at \in {"move.getMeta", "end.range", "end.finish", "abandon.update"}
    BY DEF MoveGetMeta, EndRange, EndFinish, AbandonUpdate
  <2> QED
    BY <1>1, <2>1, AloneInFlight DEF CallsShaped
<1>3. Safe(Idle)
  BY <1>2, IdleShaped DEF Safe, BeforeEnd
<1>4. CASE call' = [call EXCEPT ![c] = Idle] /\ UNCHANGED <<games, redis, ttl>>
  BY <1>1, <1>2, <1>3, <1>4, IdleShaped, StepWithoutKeys
<1>5. CASE MoveGetMeta(c)
  <2>1. PICK r : r = [call[c] EXCEPT !.at = "move.setState",
                        !.state = ApplyMove(call[c].state, call[c].userId, call[c].cellId)]
    OBVIOUS
  <2>2. RecordShaped(r) /\ r.at = "move.setState" /\ r.game = call[c].game
    BY <1>2, <2>1 DEF RecordShaped
  <2>3. /\ call' = [call EXCEPT ![c] = Idle]
             \/ call' = [call EXCEPT ![c] = r]
        /\ UNCHANGED <<games, redis, ttl>> /\ call[c].at = "move.getMeta"
    BY <1>5, <2>1 DEF MoveGetMeta, Advance
  <2>4. Safe(r)
    BY <1>2, <2>2, <2>3 DEF Safe, BeforeEnd
  <2> QED
    BY <1>1, <1>2, <1>4, <2>2, <2>3, <2>4, StepWithoutKeys
<1>6. CASE EndRange(c)
  <2>1. PICK r : r = [call[c] EXCEPT !.at = "end.finish", !.moves = redis[call[c].game].moves]
    OBVIOUS
  <2>2. RecordShaped(r) /\ r.at = "end.finish" /\ r.game = call[c].game
    BY <1>2, <2>1 DEF RecordShaped
  <2>3. /\ call' = [call EXCEPT ![c] = r]
        /\ UNCHANGED <<games, redis, ttl>> /\ call[c].at = "end.range"
    BY <1>6, <2>1 DEF EndRange, Advance
  <2>4. Safe(r)
    BY <1>2, <2>2, <2>3 DEF Safe, BeforeEnd
  <2> QED
    BY <1>1, <1>2, <2>2, <2>3, <2>4, StepWithoutKeys
<1>7. ASSUME NEW r, RecordShaped(r), r.at = "del", r.game = call[c].game,
             call' = [call EXCEPT ![c] = r], UNCHANGED <<redis, ttl>>,
             \A h \in GameIds : h # r.game => games'[h] = games[h]
      PROVE  CallsShaped' /\ KeysShaped' /\ InTurn'
  <2>1. (Safe(r))'
    BY <1>2, <1>7 DEF Safe, Ended, Gone, BeforeEnd
  <2> QED
    BY <1>1, <1>2, <1>7, <2>1, StepTo DEF KeysShaped
<1>8. CASE EndFinish(c)
  <2>1. PICK r : r = [Idle EXCEPT !.at = "del", !.game = call[c].game]
    OBVIOUS
  <2>2. RecordShaped(r) /\ r.at = "del" /\ r.game = call[c].game
    BY <2>1 DEF RecordShaped, Idle
  <2>3. CASE FinishAllowed(call[c].game)
    <3>1. /\ call' = [call EXCEPT ![c] = r] /\ UNCHANGED <<redis, ttl>>
          /\ \A h \in GameIds : h # call[c].game => games'[h] = games[h]
      BY <1>1, <1>8, <2>1, <2>3 DEF EndFinish, Advance, IInv, GamesShaped
    <3> QED
      BY <1>7, <2>2, <3>1
  <2>4. CASE ~FinishAllowed(call[c].game)
    BY <1>4, <1>8, <2>4 DEF EndFinish, Advance
  <2> QED
    BY <2>3, <2>4
<1>9. CASE AbandonUpdate(c)
  <2>1. PICK r : r = [call[c] EXCEPT !.at = "del"]
    OBVIOUS
  <2>2. RecordShaped(r) /\ r.at = "del" /\ r.game = call[c].game
    BY <1>2, <2>1 DEF RecordShaped
  <2>3. /\ call' = [call EXCEPT ![c] = r] /\ UNCHANGED <<redis, ttl>>
        /\ \A h \in GameIds : h # call[c].game => games'[h] = games[h]
    BY <1>1, <1>9, <2>1 DEF AbandonUpdate, Advance, IInv, GamesShaped
  <2> QED
    BY <1>7, <2>2, <2>3
<1> QED
  BY <1>5, <1>6, <1>8, <1>9

\* Steps of a call that write keys of its game and no row.
LEMMA KeyStepTo ==
  ASSUME KInv, OneByOne, NEW c \in Calls, call[c].at # "idle", UNCHANGED games,
         KeysShaped',
         \A h \in GameIds : h # call[c].game => ttl'[h] = ttl[h] /\ redis'[h] = redis[h],
         NEW r, RecordShaped(r), r = Idle \/ (r.at # "idle" /\ r.game = call[c].game),
         call' = [call EXCEPT ![c] = r],
         LET g == call[c].game
         IN  /\ \/ r.at \in {"start.setMeta", "move.expire"}
                \/ ttl'[g].meta = 0 \/ ttl'[g].state <= ttl'[g].meta
             /\ Ended(g) => r.at = "idle"
                            /\ ttl'[g].state = 0 /\ ttl'[g].meta = 0 /\ redis'[g].moves = <<>>
  PROVE  CallsShaped' /\ KeysShaped' /\ InTurn'
<1>1. CallsShaped /\ KeysShaped /\ InTurn
  BY DEF KInv
<1>2. /\ InFlight \subseteq {c} /\ Safe(call[c]) /\ call[c].game \in GameIds
  BY <1>1, AloneInFlight DEF CallsShaped
<1>3. r = Idle => r.at = "idle" /\ r.game = None
  BY IdleShaped
<1>4. ASSUME NEW h \in GameIds PROVE /\ ttl'[h].state \in Nat /\ ttl'[h].meta \in Nat
                                     /\ (Ended(h))' <=> Ended(h)
  BY TtlPositive DEF KeysShaped, Ended
<1>5. \A h \in GameIds :
        ttl'[h].meta > 0 /\ ttl'[h].state > ttl'[h].meta =>
          r.game = h /\ r.at \in {"start.setMeta", "move.expire"}
  <2> SUFFICES ASSUME NEW h \in GameIds, ttl'[h].meta > 0, ttl'[h].state > ttl'[h].meta
               PROVE  r.game = h /\ r.at \in {"start.setMeta", "move.expire"}
    OBVIOUS
  <2>1. CASE h # call[c].game
    BY <1>2, <2>1 DEF Safe
  <2>2. CASE h = call[c].game
    BY <1>3, <1>4, <2>2
  <2> QED
    BY <2>1, <2>2
<1>6. \A h \in GameIds : (Ended(h))' => (Gone(h))' \/ (r.game = h /\ r.at = "del")
  <2> SUFFICES ASSUME NEW h \in GameIds, Ended(h) PROVE (Gone(h))'
    BY <1>4
  <2>1. CASE h # call[c].game
    BY <1>2, <2>1 DEF Safe, Gone
  <2>2. CASE h = call[c].game
    BY <2>2 DEF Gone
  <2> QED
    BY <2>1, <2>2
<1>7. r.at \in BeforeEnd => ~(Ended(r.game))'
  BY <1>2, <1>3, <1>4 DEF BeforeEnd
<1>8. (Safe(r))'
  BY <1>5, <1>6, <1>7 DEF Safe
<1> QED
  BY <1>1, <1>2, <1>8, StepTo

LEMMA KeyStepSafe ==
  ASSUME KInv, OneByOne, NEW c \in Calls,
         \/ StartSetState(c) \/ StartSetMeta(c) \/ MoveSetState(c) \/ MoveExpireMeta(c)
         \/ MovePush(c) \/ Del(c)
  PROVE  CallsShaped' /\ KeysShaped' /\ InTurn'
<1> DEFINE g == call[c].game
<1>1. CallsShaped /\ KeysShaped /\ InTurn
  BY DEF KInv
<1>2. call[c].at \in {"start.setState", "start.setMeta", "move.setState", "move.expire",
                      "move.push", "del"}
  BY DEF StartSetState, StartSetMeta, MoveSetState, MoveExpireMeta, MovePush, Del
<1>3. /\ Safe(call[c]) /\ RecordShaped(call[c]) /\ g \in GameIds
  BY <1>1, <1>2, AloneInFlight DEF CallsShaped
<1>4. call[c].at # "del" => ~Ended(g)
  BY <1>2, <1>3 DEF Safe, BeforeEnd
<1>5. TTL \in Nat /\ TTL > 0
  BY TtlPositive
<1>6. /\ ttl[g].state \in 0..TTL /\ ttl[g].meta \in 0..TTL
      /\ ttl \in [GameIds -> [state : 0..TTL, meta : 0..TTL]]
  BY <1>1, <1>3 DEF KeysShaped
<1>7. CASE StartSetState(c) \/ MoveSetState(c)
  <2>1. PICK step \in {"start.setMeta", "move.expire"} :
          /\ call' = [call EXCEPT ![c] = [call[c] EXCEPT !.at = step]]
          /\ \E value : redis' = [redis EXCEPT ![g].state = value]
          /\ ttl' = [ttl EXCEPT ![g].state = TTL] /\ UNCHANGED games
          /\ call[c].at # "del"
    BY <1>7 DEF StartSetState, MoveSetState, Set, Advance
  <2>2. PICK r : r = [call[c] EXCEPT !.at = step]
    OBVIOUS
  <2>3. RecordShaped(r) /\ r.at = step /\ r.game = g
    BY <1>3, <2>2 DEF RecordShaped
  <2>4. /\ KeysShaped'
        /\ \A h \in GameIds : h # g => ttl'[h] = ttl[h] /\ redis'[h] = redis[h]
    BY <1>1, <1>3, <1>5, <1>6, <2>1 DEF KeysShaped
  <2> QED
    BY <1>2, <1>4, <2>1, <2>2, <2>3, <2>4, KeyStepTo
<1>8. CASE StartSetMeta(c)
  <2>1. /\ call' = [call EXCEPT ![c] = Idle] /\ UNCHANGED <<games, redis>>
        /\ ttl' = [ttl EXCEPT ![g].meta = TTL] /\ call[c].at # "del"
    BY <1>8 DEF StartSetMeta, Advance
  <2>2. /\ KeysShaped'
        /\ \A h \in GameIds : h # g => ttl'[h] = ttl[h] /\ redis'[h] = redis[h]
        /\ ttl'[g].state = ttl[g].state /\ ttl'[g].meta = TTL
    BY <1>1, <1>3, <1>5, <1>6, <2>1 DEF KeysShaped
  <2>3. ttl'[g].state <= ttl'[g].meta /\ ~Ended(g)
    BY <1>4, <1>5, <1>6, <2>1, <2>2
  <2>4. RecordShaped(Idle) /\ Idle.at \notin {"start.setMeta", "move.expire"}
    BY IdleShaped
  <2> QED
    BY <1>2, <2>1, <2>2, <2>3, <2>4, KeyStepTo
<1>9. CASE MoveExpireMeta(c)
  <2>1. PICK r : r = [call[c] EXCEPT !.at = "move.push"]
    OBVIOUS
  <2>2. RecordShaped(r) /\ r.at = "move.push" /\ r.game = g
    BY <1>3, <2>1 DEF RecordShaped
  <2>3. /\ call' = [call EXCEPT ![c] = r] /\ UNCHANGED <<games, redis>>
        /\ ttl' = [ttl EXCEPT ![g].meta = IF @ > 0 THEN TTL ELSE 0] /\ call[c].at = "move.expire"
    BY <1>9, <2>1 DEF MoveExpireMeta, Advance
  <2>4. /\ KeysShaped'
        /\ \A h \in GameIds : h # g => ttl'[h] = ttl[h] /\ redis'[h] = redis[h]
        /\ ttl'[g].state = ttl[g].state /\ ttl'[g].meta \in {0, TTL}
    BY <1>1, <1>3, <1>5, <1>6, <2>3 DEF KeysShaped
  <2>5. (ttl'[g].meta = 0 \/ ttl'[g].state <= ttl'[g].meta) /\ ~Ended(g)
    BY <1>4, <1>5, <1>6, <2>3, <2>4
  <2> QED
    BY <1>2, <2>2, <2>3, <2>4, <2>5, KeyStepTo
<1>10. CASE MovePush(c)
  <2>1. PICK r : r = IF EndsGame(call[c].state) THEN [call[c] EXCEPT !.at = "end.range"] ELSE Idle
    OBVIOUS
  <2>2. RecordShaped(r) /\ (r = Idle \/ (r.at = "end.range" /\ r.game = g))
    BY <1>3, <2>1, IdleShaped DEF RecordShaped
  <2>3. /\ call' = [call EXCEPT ![c] = r] /\ UNCHANGED <<games, ttl>> /\ call[c].at = "move.push"
        /\ \E v : redis' = [redis EXCEPT ![g].moves = v]
    BY <1>10, <2>1 DEF MovePush, Advance
  <2>4. /\ KeysShaped'
        /\ \A h \in GameIds : h # g => ttl'[h] = ttl[h] /\ redis'[h] = redis[h]
    BY <1>1, <1>3, <2>3 DEF KeysShaped
  <2>5. ttl'[g].meta = 0 \/ ttl'[g].state <= ttl'[g].meta
    BY <1>3, <1>6, <2>3 DEF Safe
  <2> QED
    BY <1>2, <1>4, <2>2, <2>3, <2>4, <2>5, IdleShaped, KeyStepTo
<1>11. CASE Del(c)
  <2>1. /\ call' = [call EXCEPT ![c] = Idle] /\ UNCHANGED games
        /\ redis' = [redis EXCEPT ![g] = [state |-> None, moves |-> <<>>]]
        /\ ttl' = [ttl EXCEPT ![g] = [state |-> 0, meta |-> 0]]
    BY <1>11 DEF Del, Advance
  <2>2. /\ KeysShaped'
        /\ \A h \in GameIds : h # g => ttl'[h] = ttl[h] /\ redis'[h] = redis[h]
        /\ ttl'[g].state = 0 /\ ttl'[g].meta = 0 /\ redis'[g].moves = <<>>
    BY <1>1, <1>3, <1>5, <2>1 DEF KeysShaped
  <2>3. /\ RecordShaped(Idle) /\ Idle.at = "idle" /\ ttl'[g].state <= ttl'[g].meta
        /\ Idle.at \notin {"start.setMeta", "move.expire"}
    BY <2>2, IdleShaped
  <2> QED
    BY <1>2, <2>1, <2>2, <2>3, KeyStepTo
<1> QED
  BY <1>7, <1>8, <1>9, <1>10, <1>11

\* Keys expire, between the steps of the call as well, a meta key no earlier than the state.
LEMMA TickSafe ==
  ASSUME KInv, OneByOne, Tick
  PROVE  CallsShaped' /\ KeysShaped' /\ InTurn'
<1>1. CallsShaped /\ KeysShaped /\ InTurn
  BY DEF KInv
<1>2. /\ UNCHANGED <<games, call>>
      /\ ttl' = [g \in GameIds |-> [state |-> Less(ttl[g].state), meta |-> Less(ttl[g].meta)]]
      /\ redis' = [g \in GameIds |->
                     IF ttl'[g].state = 0 THEN [redis[g] EXCEPT !.state = None] ELSE redis[g]]
  BY DEF Tick
<1>3. ASSUME NEW g \in GameIds
      PROVE  /\ ttl[g].state \in 0..TTL /\ ttl[g].meta \in 0..TTL
             /\ ttl'[g].state = Less(ttl[g].state) /\ ttl'[g].meta = Less(ttl[g].meta)
             /\ ttl'[g] \in [state : 0..TTL, meta : 0..TTL]
             /\ redis'[g].moves = redis[g].moves
             /\ {"state", "moves"} \subseteq DOMAIN redis'[g]
  <2>1. ttl[g].state \in 0..TTL /\ ttl[g].meta \in 0..TTL /\ TTL \in Nat
    BY <1>1, TtlPositive DEF KeysShaped
  <2>2. Less(ttl[g].state) \in 0..TTL /\ Less(ttl[g].meta) \in 0..TTL
    BY <2>1 DEF Less
  <2>3. ttl'[g] = [state |-> Less(ttl[g].state), meta |-> Less(ttl[g].meta)]
    BY <1>2
  <2>4. redis'[g] = redis[g] \/ redis'[g] = [redis[g] EXCEPT !.state = None]
    BY <1>2
  <2>5. {"state", "moves"} \subseteq DOMAIN redis[g]
    BY <1>1 DEF KeysShaped
  <2>6. redis'[g].moves = redis[g].moves /\ {"state", "moves"} \subseteq DOMAIN redis'[g]
    BY <2>4, <2>5
  <2> QED
    BY <2>1, <2>2, <2>3, <2>6
<1>4. KeysShaped'
  <2>1. DOMAIN redis' = GameIds /\ ttl' \in [GameIds -> [state : 0..TTL, meta : 0..TTL]]
    BY <1>2, <1>3
  <2> QED
    BY <1>3, <2>1 DEF KeysShaped
<1>5. ASSUME NEW r, Safe(r)
      PROVE  /\ \A g \in GameIds : ttl'[g].meta > 0 /\ ttl'[g].state > ttl'[g].meta =>
                  r.game = g /\ r.at \in {"start.setMeta", "move.expire"}
             /\ \A g \in GameIds : (Ended(g))' => (Gone(g))' \/ (r.game = g /\ r.at = "del")
             /\ r.at \in BeforeEnd => ~(Ended(r.game))'
  <2>1. ASSUME NEW g \in GameIds, ttl'[g].meta > 0, ttl'[g].state > ttl'[g].meta
        PROVE  r.game = g /\ r.at \in {"start.setMeta", "move.expire"}
    <3>1. ttl[g].meta > 0 /\ ttl[g].state > ttl[g].meta
      BY <1>3, <2>1, TtlPositive DEF Less
    <3> QED
      BY <1>5, <3>1 DEF Safe
  <2>2. ASSUME NEW g \in GameIds, (Ended(g))' PROVE (Gone(g))' \/ (r.game = g /\ r.at = "del")
    BY <1>2, <1>3, <1>5, <2>2 DEF Safe, Gone, Ended, Less
  <2>3. r.at \in BeforeEnd => ~(Ended(r.game))'
    BY <1>2, <1>5 DEF Safe, Ended
  <2> QED
    BY <2>1, <2>2, <2>3
<1>6. ASSUME Safe(Idle) PROVE (Safe(Idle))'
  BY <1>5, <1>6, IdleShaped DEF Safe, Idle
<1>7. ASSUME NEW c \in InFlight PROVE (Safe(call[c]))'
  <2>1. Safe(call[c]) /\ call[c].at # "idle" /\ call[c].game \in GameIds /\ call' = call
    BY <1>1, <1>2, <1>7 DEF InTurn, CallsShaped, InFlight
  <2>2. PICK r : r = call[c]
    OBVIOUS
  <2> QED
    BY <1>5, <2>1, <2>2 DEF Safe
<1>8. CallsShaped' /\ InFlight' = InFlight
  BY <1>1, <1>2 DEF CallsShaped, InFlight
<1> QED
  BY <1>1, <1>4, <1>6, <1>7, <1>8 DEF InTurn

LEMMA HazardsStay == [Next]_vars => UNCHANGED hazards
<1> SUFFICES ASSUME [Next]_vars PROVE hazards' = hazards
  OBVIOUS
<1>1. ASSUME NEW c \in Calls, StartCall(c) \/ Continue(c) \/ Fail(c) PROVE hazards' = hazards
  BY <1>1 DEF StartCall, StartGame, MoveGetState, GetStateMiss, Continue, StartSetState,
              StartSetMeta, MoveGetMeta, MoveSetState, MoveExpireMeta, MovePush, EndRange,
              EndFinish, Del, AbandonUpdate, Fail
<1>2. OnRoomDeleted \/ Tick \/ NothingLeft \/ UNCHANGED vars => hazards' = hazards
  BY DEF OnRoomDeleted, Tick, NothingLeft, vars
<1> QED
  BY <1>1, <1>2 DEF Next

LEMMA KNextOK == KInv /\ [Next]_vars => KInv'
<1> SUFFICES ASSUME KInv, [Next]_vars PROVE KInv'
  OBVIOUS
<1>1. IInv'
  BY NextOK DEF KInv
<1>2. hazards' = hazards
  BY HazardsStay
<1>3. ASSUME OneByOne PROVE CallsShaped' /\ KeysShaped' /\ InTurn'
  <2>1. ASSUME NEW c \in Calls, StartCall(c) \/ Continue(c) \/ Fail(c)
        PROVE  CallsShaped' /\ KeysShaped' /\ InTurn'
    <3>1. ~Fail(c)
      BY <1>3 DEF Fail, OneByOne
    <3> QED
      BY <1>3, <2>1, <3>1, StartCallSafe, RowStepSafe, KeyStepSafe DEF Continue
  <2>2. CASE OnRoomDeleted \/ NothingLeft \/ UNCHANGED vars
    <3>1. UNCHANGED <<games, redis, ttl, call>>
      BY <2>2 DEF OnRoomDeleted, NothingLeft, vars
    <3> QED
      BY <1>3, <3>1 DEF KInv, CallsShaped, KeysShaped, InTurn, InFlight, Safe, Ended, Gone
  <2>3. CASE Tick
    BY <1>3, <2>3, TickSafe
  <2> QED
    BY <2>1, <2>2, <2>3 DEF Next
<1>4. OneByOne' => OneByOne
  BY <1>2 DEF OneByOne
<1> QED
  BY <1>1, <1>3, <1>4 DEF KInv

LEMMA KInvariance == Spec => []KInv
BY KInitOK, KNextOK, PTL DEF Spec

\* With one call at a time and none failing, whenever keys expire, the metadata that are there
\* between calls live as long as the state: no game loses them between two calls, for every TTL
\* and any number of games (game.service.ts:86-92).
THEOREM MetaNeverExpiresFirst == Spec => []MetaOutlivesState
<1>1. KInv => MetaOutlivesState
  <2> SUFFICES ASSUME KInv, OneByOne, InFlight = {}, NEW g \in GameIds, ttl[g].meta > 0
               PROVE  ttl[g].meta >= ttl[g].state
    BY DEF MetaOutlivesState
  <2>1. Safe(Idle) /\ ttl[g].state \in 0..TTL /\ ttl[g].meta \in 0..TTL
    BY DEF KInv, InTurn, KeysShaped
  <2> QED
    BY <2>1, IdleShaped, TtlPositive DEF Safe
<1> QED
  BY <1>1, KInvariance, PTL

\* With one call at a time and none failing, a finished or abandoned game leaves no key behind, its
\* moves included, also when the room has been deleted or given another game
\* (game.service.ts:93, 110, 115).
THEOREM EndedAlwaysLeave == Spec => []EndedLeavesRedis
<1>1. KInv => EndedLeavesRedis
  <2> SUFFICES ASSUME KInv, OneByOne, InFlight = {}, NEW g \in GameIds, Ended(g)
               PROVE  ~InPlay(g) /\ ttl[g].meta = 0 /\ redis[g].moves = <<>>
    BY DEF EndedLeavesRedis, Ended
  <2>1. Safe(Idle)
    BY DEF KInv, InTurn
  <2> QED
    BY <2>1, IdleShaped DEF Safe, Gone, InPlay
<1> QED
  BY <1>1, KInvariance, PTL

-----------------------------------------------------------------------------
\* Replay, by induction on the number of moves: a least counterexample is refuted.

LEMMA LessIsWellFounded ==
  \E R : IsWellFoundedOn(R, Nat) /\ R = {pair \in Nat \X Nat : pair[1] < pair[2]}
<1>1. OpToRel(<, Nat) = {pair \in Nat \X Nat : pair[1] < pair[2]}
  BY Zenon DEF OpToRel
<1> QED
  BY <1>1, NatLessThanWellFounded, Zenon

LEMMA Least ==
  ASSUME NEW T, T \subseteq Nat, T # {}
  PROVE  \E n \in T : \A m \in T : n <= m
<1>1. PICK R : IsWellFoundedOn(R, Nat) /\ R = {pair \in Nat \X Nat : pair[1] < pair[2]}
  BY LessIsWellFounded
<1>2. PICK n \in T : \A m \in T : ~(<<m, n>> \in R)
  BY <1>1, WFMin
<1>3. ASSUME NEW m \in T PROVE n <= m
  <2>1. n \in Nat /\ m \in Nat /\ ~(<<m, n>> \in R)
    BY <1>2
  <2>2. m < n => <<m, n>> \in R
    BY <1>1, <2>1
  <2> QED
    BY <2>1, <2>2
<1> QED
  BY <1>3

After(state, move) == ApplyMove(state, move.userId, move.cellId)

\* p lists the positions before and after each of the first n moves.
Positions(p, moves, n) ==
  p = [i \in 0..n |-> IF i = 0 THEN InitialState ELSE After(p[i - 1], moves[i])]

LEMMA ReplayIsLast ==
  ASSUME NEW moves
  PROVE  Replay(moves) = (CHOOSE p : Positions(p, moves, Len(moves)))[Len(moves)]
BY DEF Replay, Positions, After

LEMMA PositionsExist ==
  ASSUME NEW n \in Nat, NEW moves
  PROVE  \E p : Positions(p, moves, n)
<1> DEFINE T == {i \in Nat : ~\E p : Positions(p, moves, i)}
<1> SUFFICES ASSUME T # {} PROVE FALSE
  OBVIOUS
<1>1. PICK i \in T : \A j \in T : i <= j
  <2>1. T \subseteq Nat
    OBVIOUS
  <2> HIDE DEF T
  <2> QED
    BY <2>1, Least
<1>2. CASE i = 0
  <2>1. Positions([j \in 0..0 |-> InitialState], moves, 0)
    BY DEF Positions
  <2> QED
    BY <1>2, <2>1
<1>3. CASE i # 0
  <2>1. i - 1 \in Nat /\ i - 1 \notin T
    BY <1>1, <1>3
  <2>2. PICK p : Positions(p, moves, i - 1)
    BY <2>1
  <2> DEFINE q == [j \in 0..i |-> IF j = i THEN After(p[i - 1], moves[i]) ELSE p[j]]
  <2>3. ASSUME NEW j \in 0..i
        PROVE  q[j] = IF j = 0 THEN InitialState ELSE After(q[j - 1], moves[j])
    <3>1. CASE j = i
      BY <1>3, <2>1, <3>1
    <3>2. CASE j # i
      <4>1. p[j] = IF j = 0 THEN InitialState ELSE After(p[j - 1], moves[j])
        BY <2>2, <3>2 DEF Positions
      <4> QED
        BY <3>2, <4>1
    <3> QED
      BY <3>1, <3>2
  <2>4. q = [j \in 0..i |-> IF j = 0 THEN InitialState ELSE After(q[j - 1], moves[j])]
    <3>1. q = [j \in 0..i |-> q[j]]
      OBVIOUS
    <3> HIDE DEF q
    <3> QED
      BY <2>3, <3>1
  <2> HIDE DEF q
  <2>5. Positions(q, moves, i)
    BY <2>4 DEF Positions
  <2> QED
    BY <2>5
<1> QED
  BY <1>2, <1>3

\* Lists that agree on the first k moves lead to the same position after them.
LEMMA PositionsAgree ==
  ASSUME NEW n \in Nat, NEW k \in 0..n, NEW a, NEW b, NEW p, NEW q,
         \A i \in 1..k : a[i] = b[i], Positions(p, a, n), Positions(q, b, k)
  PROVE  p[k] = q[k]
<1> DEFINE T == {i \in 0..k : p[i] # q[i]}
<1> SUFFICES ASSUME T # {} PROVE FALSE
  OBVIOUS
<1>1. PICK i \in T : \A j \in T : i <= j
  <2>1. T \subseteq Nat
    OBVIOUS
  <2> HIDE DEF T
  <2> QED
    BY <2>1, Least
<1>2. p[i] = IF i = 0 THEN InitialState ELSE After(p[i - 1], a[i])
  BY DEF Positions
<1>3. q[i] = IF i = 0 THEN InitialState ELSE After(q[i - 1], b[i])
  BY DEF Positions
<1>4. i # 0 => i - 1 \in 0..k /\ i - 1 \notin T
  BY <1>1
<1> QED
  BY <1>2, <1>3, <1>4

LEMMA ReplayNothing == Replay(<<>>) = InitialState
<1>1. PICK p : Positions(p, <<>>, 0) /\ Replay(<<>>) = p[0]
  BY PositionsExist, ReplayIsLast
<1> QED
  BY <1>1 DEF Positions

LEMMA ReplayAppend ==
  ASSUME NEW moves \in Seq(Moves), NEW move \in Moves
  PROVE  Replay(Append(moves, move)) = After(Replay(moves), move)
<1> DEFINE n == Len(moves)
           more == Append(moves, move)
<1>1. /\ n \in Nat /\ Len(more) = n + 1 /\ more[n + 1] = move
      /\ \A i \in 1..n : more[i] = moves[i]
  OBVIOUS
<1>2. PICK p : Positions(p, moves, n) /\ Replay(moves) = p[n]
  BY <1>1, PositionsExist, ReplayIsLast
<1>3. PICK q : Positions(q, more, n + 1) /\ Replay(more) = q[n + 1]
  <2>1. \E q : Positions(q, more, Len(more))
    BY <1>1, PositionsExist
  <2> HIDE DEF more, n
  <2> QED
    BY <1>1, <2>1, ReplayIsLast
<1> HIDE DEF more, n
<1>4. q[n] = p[n]
  BY <1>1, <1>2, <1>3, PositionsAgree
<1>5. q[n + 1] = After(q[n], more[n + 1])
  BY <1>1, <1>3 DEF Positions
<1> QED
  BY <1>1, <1>2, <1>3, <1>4, <1>5 DEF more

-----------------------------------------------------------------------------
\* One call at a time: the position and the moves

LEMMA NothingIsLegal == IsLegal(<<>>)
BY DEF IsLegal

\* A valid move on an undecided position keeps the list legal.
LEMMA LegalAppend ==
  ASSUME NEW moves \in Seq(Moves), NEW move \in Moves, IsLegal(moves),
         ResultOf(Replay(moves).board) = None,
         IsValidMove(Replay(moves), move.userId, move.cellId)
  PROVE  IsLegal(Append(moves, move))
<1> DEFINE more == Append(moves, move)
<1>1. /\ DOMAIN more = 1..Len(moves) + 1 /\ DOMAIN moves = 1..Len(moves) /\ Len(moves) \in Nat
      /\ more[Len(moves) + 1] = move
      /\ \A i \in 1..Len(moves) : more[i] = moves[i]
  OBVIOUS
<1>2. \A i \in 1..Len(moves) + 1 : SubSeq(more, 1, i - 1) = SubSeq(moves, 1, i - 1)
  OBVIOUS
<1>3. SubSeq(moves, 1, Len(moves) + 1 - 1) = moves
  OBVIOUS
<1> HIDE DEF more
<1> SUFFICES ASSUME NEW i \in DOMAIN more
             PROVE  /\ ResultOf(Replay(SubSeq(more, 1, i - 1)).board) = None
                    /\ IsValidMove(Replay(SubSeq(more, 1, i - 1)), more[i].userId, more[i].cellId)
  BY DEF IsLegal, more
<1>4. CASE i = Len(moves) + 1
  <2>1. SubSeq(more, 1, i - 1) = moves /\ more[i] = move
    BY <1>1, <1>2, <1>3, <1>4
  <2> QED
    BY <2>1
<1>5. CASE i # Len(moves) + 1
  <2>1. i \in 1..Len(moves) /\ i \in DOMAIN moves
    BY <1>1, <1>5
  <2>2. /\ ResultOf(Replay(SubSeq(moves, 1, i - 1)).board) = None
        /\ IsValidMove(Replay(SubSeq(moves, 1, i - 1)), moves[i].userId, moves[i].cellId)
    BY <2>1 DEF IsLegal
  <2>3. SubSeq(more, 1, i - 1) = SubSeq(moves, 1, i - 1) /\ more[i] = moves[i]
    BY <1>1, <1>2, <2>1
  <2> QED
    BY <2>2, <2>3
<1> QED
  BY <1>4, <1>5

LEMMA NothingIsUndecided == ResultOf(InitialState.board) = None
<1>1. \A c \in Cells : InitialState.board[c] = None
  BY DEF InitialState
<1>2. Owned(InitialState.board) = {}
  BY <1>1, PlayersDiffer, LinesOnBoard DEF Owned, OwnedBy, Players
<1>3. ~IsFull(InitialState.board)
  BY <1>1, CellsFinite DEF IsFull
<1> QED
  BY <1>2, <1>3 DEF ResultOf, FindWinner

IsCall(r) == r = [at |-> r.at, game |-> r.game, userId |-> r.userId, cellId |-> r.cellId,
                  state |-> r.state, moves |-> r.moves]

CallsTyped == \A c \in Calls : IsCall(call[c])

RedisTyped ==
  /\ redis = [g \in GameIds |-> redis[g]]
  /\ \A g \in GameIds :
       /\ redis[g] = [state |-> redis[g].state, moves |-> redis[g].moves]
       /\ redis[g].moves \in Seq(Moves)

Calm == hazards = {}

Undecided(moves) == ResultOf(Replay(moves).board) = None

IsRecord(row) == IsLegal(row.moves) /\ row.result = ResultOf(Replay(row.moves).board)

\* The moves come to Postgres with the result.
RowsFit ==
  \A g \in GameIds :
    /\ games[g].moves \in Seq(Moves)
    /\ games[g].result = None => games[g].moves = <<>>
    /\ Calm /\ games[g].status = "Finished" => IsRecord(games[g])

\* A game no call is busy with: its state key, if there is one, shows where its moves
\* lead to.  In a calm environment its moves are legal, and if it is in play, it is
\* undecided and the room's current game.
AtRest(g) ==
  /\ games[g].status = "none" => ~InPlay(g) /\ redis[g].moves = <<>>
  /\ InPlay(g) => redis[g].state = Replay(redis[g].moves)
  /\ Calm =>
       /\ IsLegal(redis[g].moves)
       /\ InPlay(g) => Undecided(redis[g].moves) /\ FinishAllowed(g)

\* The steps at which a state key, if there is one, is still, or again, the position the
\* stored moves lead to.
Agreeing == {"start.setMeta", "move.getMeta", "move.setState"} \cup Ending

\* What the only call knows of its game.
InHand(r) ==
  LET g     == r.game
      moves == redis[g].moves
  IN  /\ r.at \in Steps
      /\ games[g].status # "none"
      /\ r.at = "start.setState" => ~InPlay(g) /\ moves = <<>>
      /\ r.at = "abandon.update" => ~InPlay(g)
      /\ InPlay(g) =>
           /\ r.at \in Agreeing => redis[g].state = Replay(moves)
           /\ r.at \in {"move.expire", "move.push"} => redis[g].state = r.state
      /\ r.at \in Moving => r.userId \in Players /\ r.cellId \in Cells
      /\ r.at \in Moving \ {"move.getMeta"} =>
           /\ IsValidMove(Replay(moves), r.userId, r.cellId)
           /\ r.state = ApplyMove(Replay(moves), r.userId, r.cellId)
      /\ r.at \in {"move.getMeta"} \cup Ending => r.state = Replay(moves)
      /\ r.at \in Ending => EndsGame(r.state)
      /\ r.at = "end.finish" => r.moves = moves
      /\ r.at = "del" => games[g].result # None \/ ~InPlay(g)
      /\ Calm =>
           /\ IsLegal(moves)
           /\ r.at \notin {"abandon.update", "del"} => FinishAllowed(g)
           /\ r.at \in Moving \cup {"start.setMeta"} => Undecided(moves)

Fits(r) ==
  /\ \A g \in GameIds : g # r.game => AtRest(g)
  /\ r.at # "idle" => InHand(r)

OnlyCallFits ==
  /\ InFlight = {} => Fits(Idle)
  /\ \A c \in InFlight : Fits(call[c])

PositionsFit == CallsTyped /\ RedisTyped /\ RowsFit /\ OnlyCallFits

FInv == KInv /\ (OneByOne => PositionsFit)

LEMMA IdleIsCall == IsCall(Idle) /\ Idle.at = "idle" /\ Idle.game = None
BY DEF IsCall, Idle

LEMMA FInitOK == Init => FInv
<1> SUFFICES ASSUME Init PROVE PositionsFit
  BY KInitOK DEF FInv
<1>1. /\ \A c \in Calls : call[c] = Idle
      /\ \A g \in GameIds : /\ ttl[g].state = 0
                            /\ redis[g] = [state |-> None, moves |-> <<>>]
                            /\ games[g] = [status |-> "none", result |-> None, moves |-> <<>>]
  BY DEF Init
<1>2. CallsTyped /\ InFlight = {}
  BY <1>1, IdleIsCall DEF CallsTyped, InFlight
<1>3. RedisTyped
  <2>1. redis = [g \in GameIds |-> redis[g]]
    BY DEF Init
  <2>2. ASSUME NEW g \in GameIds
        PROVE  /\ redis[g] = [state |-> redis[g].state, moves |-> redis[g].moves]
               /\ redis[g].moves \in Seq(Moves)
    <3>1. redis[g].state = None /\ redis[g].moves = <<>>
      BY <1>1
    <3> QED
      BY <1>1, <3>1
  <2> QED
    BY <2>1, <2>2 DEF RedisTyped
<1>4. RowsFit
  <2>1. \A g \in GameIds : games[g].status = "none" /\ games[g].moves = <<>>
    BY <1>1
  <2>2. <<>> \in Seq(Moves)
    OBVIOUS
  <2> QED
    BY <2>1, <2>2 DEF RowsFit
<1>5. \A g \in GameIds : AtRest(g)
  BY <1>1, NothingIsLegal DEF AtRest, InPlay
<1>6. OnlyCallFits
  BY <1>2, <1>5, IdleIsCall DEF OnlyCallFits, Fits
<1> QED
  BY <1>2, <1>3, <1>4, <1>6 DEF PositionsFit

LEMMA AtRestStays ==
  ASSUME NEW g \in GameIds, AtRest(g), UNCHANGED hazards,
         games'[g] = games[g], redis'[g] = redis[g], ttl'[g].state = ttl[g].state,
         Calm => room' = room \/ ~InPlay(g)
  PROVE  AtRest(g)'
BY DEF AtRest, InPlay, Calm, FinishAllowed

\* The only call, which is about game g, goes on with the record r, or is over; the
\* rest of what it does is about g.
LEMMA FitTo ==
  ASSUME FInv, OneByOne, NEW c \in Calls, NEW g \in GameIds, InFlight \subseteq {c},
         \A h \in GameIds : h # g => AtRest(h), UNCHANGED hazards,
         \A h \in GameIds : h # g =>
           /\ games'[h] = games[h] /\ redis'[h] = redis[h] /\ ttl'[h].state = ttl[h].state
           /\ Calm => room' = room \/ ~InPlay(h),
         NEW r, IsCall(r), call' = [call EXCEPT ![c] = r],
         \/ r = Idle /\ AtRest(g)'
         \/ r.at # "idle" /\ r.game = g /\ (InHand(r))',
         RedisTyped', RowsFit'
  PROVE  PositionsFit'
<1>1. /\ CallsShaped /\ CallsTyped
      /\ \A e \in Calls : call'[e] = IF e = c THEN r ELSE call[e]
  BY DEF FInv, KInv, CallsShaped, PositionsFit
<1>2. CallsTyped'
  BY <1>1 DEF CallsTyped
<1>3. \A e \in Calls : e # c => call[e].at = "idle"
  BY DEF InFlight
<1>4. InFlight' = IF r.at = "idle" THEN {} ELSE {c}
  BY <1>1, <1>3 DEF InFlight
<1>5. \A h \in GameIds : h # g => AtRest(h)'
  BY AtRestStays
<1>6. (Fits(r))'
  <2>1. CASE r = Idle /\ AtRest(g)'
    BY <1>5, <2>1, IdleIsCall DEF Fits
  <2>2. CASE r.at # "idle" /\ r.game = g /\ (InHand(r))'
    BY <1>5, <2>2 DEF Fits
  <2> QED
    BY <2>1, <2>2
<1>7. OnlyCallFits'
  <2>1. CASE r = Idle
    <3>1. InFlight' = {} /\ (Fits(Idle))'
      BY <1>4, <1>6, <2>1, IdleIsCall DEF Fits, Idle
    <3> QED
      BY <3>1 DEF OnlyCallFits
  <2>2. CASE r.at # "idle"
    <3>1. InFlight' = {c} /\ call'[c] = r
      BY <1>1, <1>4, <2>2
    <3>2. (Fits(call[c]))'
      BY <1>6, <3>1 DEF Fits, InHand
    <3> QED
      BY <3>1, <3>2 DEF OnlyCallFits
  <2> QED
    BY <2>1, <2>2
<1> QED
  BY <1>2, <1>7 DEF PositionsFit

\* A step that leaves the rows, the keys and the room alone, but for the time the meta
\* key has to live.
LEMMA QuietFit ==
  ASSUME FInv, OneByOne, NEW c \in Calls, NEW g \in GameIds, InFlight \subseteq {c},
         \A h \in GameIds : h # g => AtRest(h), UNCHANGED <<hazards, games, room, redis>>,
         \A h \in GameIds : ttl'[h].state = ttl[h].state,
         NEW r, IsCall(r), call' = [call EXCEPT ![c] = r],
         \/ r = Idle /\ AtRest(g)
         \/ r.at # "idle" /\ r.game = g /\ InHand(r)
  PROVE  PositionsFit'
<1>1. RedisTyped' /\ RowsFit'
  BY DEF FInv, PositionsFit, RedisTyped, RowsFit, IsRecord, Calm
<1>2. \/ r = Idle /\ AtRest(g)'
      \/ r.at # "idle" /\ r.game = g /\ (InHand(r))'
  <2>1. CASE r = Idle /\ AtRest(g)
    BY <2>1, AtRestStays
  <2>2. CASE r.at # "idle" /\ r.game = g /\ InHand(r)
    BY <2>2 DEF InHand, InPlay, Calm, FinishAllowed
  <2> QED
    BY <2>1, <2>2
<1> QED
  BY <1>1, <1>2, FitTo

LEMMA StartCallFits ==
  ASSUME FInv, OneByOne, NEW c \in Calls, StartCall(c)
  PROVE  PositionsFit'
<1>1. /\ InFlight = {} /\ UNCHANGED <<hazards, redis, ttl>>
      /\ RedisTyped /\ RowsFit /\ IInv
  BY DEF StartCall, StartGame, MoveGetState, GetStateMiss, MayStart, OneByOne, FInv, KInv,
         PositionsFit
<1>2. \A h \in GameIds : AtRest(h)
  BY <1>1, IdleIsCall, NoneIsNoGame DEF FInv, PositionsFit, OnlyCallFits, Fits
<1>3. ASSUME NEW g \in GameIds, StartGame(c, g) PROVE PositionsFit'
  <2>1. PICK r : r = [Idle EXCEPT !.at = "start.setState", !.game = g]
    OBVIOUS
  <2>2. IsCall(r) /\ r.at = "start.setState" /\ r.game = g
    BY <2>1 DEF IsCall, Idle
  <2>3. /\ call' = [call EXCEPT ![c] = r] /\ games[g].status = "none"
        /\ games' = [games EXCEPT ![g].status = "Active"] /\ room.live
        /\ room' = [room EXCEPT !.currentGameId = g]
        /\ Calm => \A h \in GameIds : ~InPlay(h)
    BY <1>3, <2>1 DEF StartGame, Advance, RoomIsFree, Calm
  <2>4. FinishAllowed(g)'
    BY <1>1, <2>3 DEF FinishAllowed, IInv, RoomShaped
  <2>5. \A h \in GameIds :
          /\ games'[h].status = IF h = g THEN "Active" ELSE games[h].status
          /\ games'[h].result = games[h].result
          /\ games'[h].moves = games[h].moves
          /\ h # g => games'[h] = games[h]
    BY <1>1, <2>3 DEF IInv, GamesShaped
  <2>6. RowsFit'
    <3>1. \A h \in GameIds : games'[h].status = "Finished" => games'[h] = games[h]
      BY <2>5
    <3> QED
      BY <1>1, <2>5, <3>1 DEF RowsFit, Calm
  <2>7. (InHand(r))'
    BY <1>1, <1>2, <2>2, <2>3, <2>4, <2>5
       DEF AtRest, InHand, InPlay, Agreeing, Moving, Ending, Steps, Calm
  <2>8. RedisTyped'
    BY <1>1 DEF RedisTyped
  <2> QED
    BY <1>1, <1>2, <2>2, <2>3, <2>5, <2>6, <2>7, <2>8, FitTo
<1>4. ASSUME NEW g \in GameIds, NEW userId \in Players, NEW cellId \in Cells,
             MoveGetState(c, g, userId, cellId)
      PROVE  PositionsFit'
  <2>1. PICK r : r = [Idle EXCEPT !.at = "move.getMeta", !.game = g, !.userId = userId,
                                  !.cellId = cellId, !.state = redis[g].state]
    OBVIOUS
  <2>2. /\ IsCall(r) /\ r.at = "move.getMeta" /\ r.game = g
        /\ r.userId = userId /\ r.cellId = cellId /\ r.state = redis[g].state
    BY <2>1 DEF IsCall, Idle
  <2>3. call' = [call EXCEPT ![c] = r] /\ UNCHANGED <<games, room>> /\ InPlay(g)
    BY <1>4, <2>1 DEF MoveGetState, Advance
  <2>4. InHand(r)
    BY <1>2, <2>2, <2>3 DEF AtRest, InHand, Agreeing, Moving, Ending, Steps
  <2> QED
    BY <1>1, <1>2, <2>2, <2>3, <2>4, QuietFit
<1>5. ASSUME NEW g \in GameIds, GetStateMiss(c, g) PROVE PositionsFit'
  <2>1. PICK r : r = [Idle EXCEPT !.at = "abandon.update", !.game = g]
    OBVIOUS
  <2>2. IsCall(r) /\ r.at = "abandon.update" /\ r.game = g
    BY <2>1 DEF IsCall, Idle
  <2>3. /\ call' = [call EXCEPT ![c] = r] /\ UNCHANGED <<games, room>>
        /\ ~InPlay(g) /\ games[g].status # "none"
    BY <1>5, <2>1 DEF GetStateMiss, Advance
  <2>4. InHand(r)
    BY <1>2, <2>2, <2>3 DEF AtRest, InHand, Agreeing, Moving, Ending, Steps
  <2> QED
    BY <1>1, <1>2, <2>2, <2>3, <2>4, QuietFit
<1> QED
  BY <1>3, <1>4, <1>5 DEF StartCall

LEMMA OnlyCall ==
  ASSUME FInv, OneByOne, NEW c \in Calls, call[c].at # "idle"
  PROVE  /\ InFlight \subseteq {c} /\ IsCall(call[c]) /\ call[c].game \in GameIds
         /\ InHand(call[c])
         /\ \A h \in GameIds : h # call[c].game => AtRest(h)
BY DEF FInv, KInv, InTurn, CallsShaped, PositionsFit, CallsTyped, OnlyCallFits, Fits, InFlight

\* Steps of a call that write neither the rows nor the position.
LEMMA QuietStepFits ==
  ASSUME FInv, OneByOne, NEW c \in Calls,
         StartSetMeta(c) \/ MoveGetMeta(c) \/ MoveExpireMeta(c) \/ EndRange(c)
  PROVE  PositionsFit'
<1> DEFINE self == call[c]
           g == call[c].game
<1>1. /\ self.at \in {"start.setMeta", "move.getMeta", "move.expire", "end.range"}
      /\ UNCHANGED <<hazards, games, room, redis>>
  BY DEF StartSetMeta, MoveGetMeta, MoveExpireMeta, EndRange
<1>2. /\ InFlight \subseteq {c} /\ IsCall(self) /\ g \in GameIds
      /\ InHand(self)
      /\ \A h \in GameIds : h # g => AtRest(h)
  BY <1>1, OnlyCall
<1>3. \A h \in GameIds : ttl'[h].state = ttl[h].state
  BY <1>2 DEF StartSetMeta, MoveGetMeta, MoveExpireMeta, EndRange, FInv, KInv, KeysShaped
<1>4. CASE StartSetMeta(c)
  <2>1. call' = [call EXCEPT ![c] = Idle] /\ self.at = "start.setMeta"
    BY <1>4 DEF StartSetMeta, Advance
  <2>2. AtRest(g)
    BY <1>2, <2>1 DEF AtRest, InHand, Agreeing, Moving, Ending, Steps
  <2>3. PICK over : over = Idle
    OBVIOUS
  <2> QED
    BY <1>1, <1>2, <1>3, <2>1, <2>2, <2>3, IdleIsCall, QuietFit
<1>5. CASE MoveGetMeta(c)
  <2>1. PICK r : r = [self EXCEPT !.at = "move.setState",
                                  !.state = ApplyMove(self.state, self.userId, self.cellId)]
    OBVIOUS
  <2>2. /\ IsCall(r) /\ r.at = "move.setState" /\ r.game = g
        /\ r.userId = self.userId /\ r.cellId = self.cellId
        /\ r.state = ApplyMove(self.state, self.userId, self.cellId)
    BY <1>2, <2>1 DEF IsCall
  <2>3. /\ self.at = "move.getMeta"
        /\ \/ call' = [call EXCEPT ![c] = Idle]
           \/ /\ call' = [call EXCEPT ![c] = r]
              /\ IsValidMove(self.state, self.userId, self.cellId)
    BY <1>5, <2>1 DEF MoveGetMeta, Advance
  <2>4. CASE call' = [call EXCEPT ![c] = Idle]
    <3>1. AtRest(g)
      BY <1>2, <2>3 DEF AtRest, InHand, Agreeing, Moving, Ending, Steps
    <3>2. PICK over : over = Idle
      OBVIOUS
    <3> QED
      BY <1>1, <1>2, <1>3, <2>4, <3>1, <3>2, IdleIsCall, QuietFit
  <2>5. CASE /\ call' = [call EXCEPT ![c] = r]
             /\ IsValidMove(self.state, self.userId, self.cellId)
    <3>1. InHand(r)
      BY <1>2, <2>2, <2>3, <2>5 DEF InHand, Agreeing, Moving, Ending, Steps
    <3> QED
      BY <1>1, <1>2, <1>3, <2>2, <2>5, <3>1, QuietFit
  <2> QED
    BY <2>3, <2>4, <2>5
<1>6. CASE MoveExpireMeta(c)
  <2>1. PICK r : r = [self EXCEPT !.at = "move.push"]
    OBVIOUS
  <2>2. /\ IsCall(r) /\ r.at = "move.push" /\ r.game = g
        /\ r.userId = self.userId /\ r.cellId = self.cellId /\ r.state = self.state
    BY <1>2, <2>1 DEF IsCall
  <2>3. call' = [call EXCEPT ![c] = r] /\ self.at = "move.expire"
    BY <1>6, <2>1 DEF MoveExpireMeta, Advance
  <2>4. InHand(r)
    BY <1>2, <2>2, <2>3 DEF InHand, Agreeing, Moving, Ending, Steps
  <2> QED
    BY <1>1, <1>2, <1>3, <2>2, <2>3, <2>4, QuietFit
<1>7. CASE EndRange(c)
  <2>1. PICK r : r = [self EXCEPT !.at = "end.finish", !.moves = redis[g].moves]
    OBVIOUS
  <2>2. /\ IsCall(r) /\ r.at = "end.finish" /\ r.game = g
        /\ r.state = self.state /\ r.moves = redis[g].moves
    BY <1>2, <2>1 DEF IsCall
  <2>3. call' = [call EXCEPT ![c] = r] /\ self.at = "end.range"
    BY <1>7, <2>1 DEF EndRange, Advance
  <2>4. InHand(r)
    BY <1>2, <2>2, <2>3 DEF InHand, Agreeing, Moving, Ending, Steps
  <2> QED
    BY <1>1, <1>2, <1>3, <2>2, <2>3, <2>4, QuietFit
<1> QED
  BY <1>4, <1>5, <1>6, <1>7

\* Steps of a call that write the keys of its game and no row.
LEMMA KeyFit ==
  ASSUME FInv, OneByOne, NEW c \in Calls, NEW g \in GameIds, InFlight \subseteq {c},
         \A h \in GameIds : h # g => AtRest(h), UNCHANGED <<hazards, games, room>>,
         NEW keys, keys = [state |-> keys.state, moves |-> keys.moves], keys.moves \in Seq(Moves),
         redis' = [redis EXCEPT ![g] = keys],
         \A h \in GameIds : h # g => ttl'[h] = ttl[h],
         NEW r, IsCall(r), call' = [call EXCEPT ![c] = r],
         \/ r = Idle /\ AtRest(g)'
         \/ r.at # "idle" /\ r.game = g /\ (InHand(r))'
  PROVE  PositionsFit'
<1>1. RedisTyped /\ RowsFit
  BY DEF FInv, PositionsFit
<1>2. \A h \in GameIds : redis'[h] = IF h = g THEN keys ELSE redis[h]
  BY <1>1 DEF RedisTyped
<1>3. RedisTyped'
  BY <1>1, <1>2 DEF RedisTyped
<1>4. RowsFit'
  BY <1>1 DEF RowsFit, IsRecord, Calm
<1>5. \A h \in GameIds : h # g =>
        /\ games'[h] = games[h] /\ redis'[h] = redis[h] /\ ttl'[h].state = ttl[h].state
        /\ Calm => room' = room \/ ~InPlay(h)
  BY <1>2
<1> QED
  BY <1>3, <1>4, <1>5, FitTo

LEMMA KeyWrites ==
  ASSUME RedisTyped, NEW g \in GameIds, NEW state, NEW moves
  PROVE  /\ [redis EXCEPT ![g].state = state]
              = [redis EXCEPT ![g] = [state |-> state, moves |-> redis[g].moves]]
         /\ [redis EXCEPT ![g].moves = moves]
              = [redis EXCEPT ![g] = [state |-> redis[g].state, moves |-> moves]]
<1>1. PICK key : key = redis[g]
  OBVIOUS
<1>2. PICK s, m : key = [state |-> s, moves |-> m]
  BY <1>1 DEF RedisTyped
<1>3. key.state = s /\ key.moves = m
  BY <1>2
<1>4. /\ [key EXCEPT !.state = state] = [state |-> state, moves |-> m]
      /\ [key EXCEPT !.moves = moves] = [state |-> s, moves |-> moves]
  BY <1>2
<1> QED
  BY <1>1, <1>3, <1>4

LEMMA StartSetStateFits ==
  ASSUME FInv, OneByOne, NEW c \in Calls, StartSetState(c)
  PROVE  PositionsFit'
<1> DEFINE self == call[c]
<1>0. PICK g : g = call[c].game
  OBVIOUS
<1>1. /\ self.at = "start.setState" /\ UNCHANGED <<hazards, games, room>>
      /\ redis' = [redis EXCEPT ![g].state = InitialState]
      /\ ttl' = [ttl EXCEPT ![g].state = TTL]
  BY <1>0 DEF StartSetState, Set
<1>2. /\ InFlight \subseteq {c} /\ IsCall(self) /\ g \in GameIds
      /\ InHand(self)
      /\ \A h \in GameIds : h # g => AtRest(h)
  BY <1>0, <1>1, OnlyCall
<1>3. /\ RedisTyped /\ redis[g].moves = <<>> /\ KeysShaped
  BY <1>0, <1>1, <1>2 DEF FInv, KInv, PositionsFit, InHand
<1>4. PICK keys : keys = [state |-> InitialState, moves |-> redis[g].moves]
  OBVIOUS
<1>5. /\ keys.state = InitialState /\ keys.moves = <<>> /\ keys.moves \in Seq(Moves)
      /\ keys = [state |-> keys.state, moves |-> keys.moves]
  BY <1>3, <1>4
<1>6. redis' = [redis EXCEPT ![g] = keys] /\ redis'[g] = keys
  <2>1. redis' = [redis EXCEPT ![g] = keys]
    BY <1>1, <1>2, <1>3, <1>4, KeyWrites
  <2> QED
    BY <1>2, <1>3, <2>1 DEF RedisTyped
<1>7. /\ \A h \in GameIds : h # g => ttl'[h] = ttl[h]
      /\ ttl'[g].state = TTL /\ TTL > 0
  BY <1>1, <1>2, <1>3, TtlPositive DEF KeysShaped
<1>8. PICK r : r = [self EXCEPT !.at = "start.setMeta"]
  OBVIOUS
<1>9. /\ IsCall(r) /\ r.at = "start.setMeta" /\ r.game = g
      /\ call' = [call EXCEPT ![c] = r]
  BY <1>0, <1>2, <1>8 DEF IsCall, StartSetState, Advance
<1>10. Replay(<<>>) = InitialState /\ Undecided(<<>>)
  BY ReplayNothing, NothingIsUndecided DEF Undecided
<1>11. (InHand(r))'
  BY <1>0, <1>1, <1>2, <1>3, <1>5, <1>6, <1>7, <1>9, <1>10
     DEF InHand, InPlay, Agreeing, Moving, Ending, Steps, Calm, FinishAllowed
<1> QED
  BY <1>1, <1>2, <1>5, <1>6, <1>7, <1>9, <1>11, KeyFit

LEMMA MoveSetStateFits ==
  ASSUME FInv, OneByOne, NEW c \in Calls, MoveSetState(c)
  PROVE  PositionsFit'
<1> DEFINE self == call[c]
<1>0. PICK g : g = call[c].game
  OBVIOUS
<1>1. /\ self.at = "move.setState" /\ UNCHANGED <<hazards, games, room>>
      /\ redis' = [redis EXCEPT ![g].state = self.state]
      /\ ttl' = [ttl EXCEPT ![g].state = TTL]
  BY <1>0 DEF MoveSetState, Set
<1>2. /\ InFlight \subseteq {c} /\ IsCall(self) /\ g \in GameIds
      /\ InHand(self)
      /\ \A h \in GameIds : h # g => AtRest(h)
  BY <1>0, <1>1, OnlyCall
<1>3. RedisTyped /\ KeysShaped
  BY DEF FInv, KInv, PositionsFit
<1>4. PICK keys : keys = [state |-> self.state, moves |-> redis[g].moves]
  OBVIOUS
<1>5. /\ keys.state = self.state /\ keys.moves = redis[g].moves /\ keys.moves \in Seq(Moves)
      /\ keys = [state |-> keys.state, moves |-> keys.moves]
  BY <1>2, <1>3, <1>4 DEF RedisTyped
<1>6. redis' = [redis EXCEPT ![g] = keys] /\ redis'[g] = keys
  <2>1. redis' = [redis EXCEPT ![g] = keys]
    BY <1>1, <1>2, <1>3, <1>4, KeyWrites
  <2> QED
    BY <1>2, <1>3, <2>1 DEF RedisTyped
<1>7. /\ \A h \in GameIds : h # g => ttl'[h] = ttl[h]
      /\ ttl'[g].state = TTL /\ TTL > 0
  BY <1>1, <1>2, <1>3, TtlPositive DEF KeysShaped
<1>8. PICK r : r = [self EXCEPT !.at = "move.expire"]
  OBVIOUS
<1>9. /\ IsCall(r) /\ r.at = "move.expire" /\ r.game = g
      /\ r.userId = self.userId /\ r.cellId = self.cellId /\ r.state = self.state
      /\ call' = [call EXCEPT ![c] = r]
  BY <1>0, <1>2, <1>8 DEF IsCall, MoveSetState, Advance
<1>10. (InHand(r))'
  BY <1>0, <1>1, <1>2, <1>5, <1>6, <1>7, <1>9
     DEF InHand, InPlay, Agreeing, Moving, Ending, Steps, Calm, FinishAllowed
<1> QED
  BY <1>1, <1>2, <1>5, <1>6, <1>7, <1>9, <1>10, KeyFit

\* With the move on the list the position is again the one the list leads to.
LEMMA MovePushFits ==
  ASSUME FInv, OneByOne, NEW c \in Calls, MovePush(c)
  PROVE  PositionsFit'
<1> DEFINE self == call[c]
<1>0. PICK g : g = call[c].game
  OBVIOUS
<1>1. /\ self.at = "move.push" /\ UNCHANGED <<hazards, games, room, ttl>>
  BY DEF MovePush
<1>2. /\ InFlight \subseteq {c} /\ IsCall(self) /\ g \in GameIds
      /\ InHand(self)
      /\ \A h \in GameIds : h # g => AtRest(h)
  BY <1>0, <1>1, OnlyCall
<1>3. RedisTyped
  BY DEF FInv, PositionsFit
<1>4. PICK move : move = [userId |-> self.userId, cellId |-> self.cellId]
  OBVIOUS
<1>5. PICK moves : moves = redis[g].moves
  OBVIOUS
<1>6. /\ move \in Moves /\ move.userId = self.userId /\ move.cellId = self.cellId
      /\ moves \in Seq(Moves)
  BY <1>0, <1>1, <1>2, <1>3, <1>4, <1>5 DEF InHand, Moving, Moves, RedisTyped
<1>7. PICK more : more = Append(moves, move)
  OBVIOUS
<1>8. more \in Seq(Moves)
  BY <1>6, <1>7
<1>9. /\ InPlay(g) => redis[g].state = self.state
      /\ games[g].status # "none"
      /\ self.state = ApplyMove(Replay(moves), move.userId, move.cellId)
      /\ IsValidMove(Replay(moves), move.userId, move.cellId)
      /\ Calm => IsLegal(moves) /\ Undecided(moves) /\ FinishAllowed(g)
  BY <1>0, <1>1, <1>2, <1>5, <1>6 DEF InHand, Agreeing, Moving, Ending, Steps
<1>10. Replay(more) = self.state
  BY <1>6, <1>7, <1>9, ReplayAppend DEF After
<1>11. Calm => IsLegal(more)
  BY <1>6, <1>7, <1>9, LegalAppend DEF Undecided
<1>12. PICK keys : keys = [state |-> redis[g].state, moves |-> more]
  OBVIOUS
<1>13. /\ InPlay(g) => keys.state = self.state
       /\ keys.moves = more
       /\ keys = [state |-> keys.state, moves |-> keys.moves]
  BY <1>9, <1>12
<1>14. redis' = [redis EXCEPT ![g] = keys] /\ redis'[g] = keys
  <2>1. redis' = [redis EXCEPT ![g].moves = more]
    BY <1>0, <1>4, <1>5, <1>7 DEF MovePush, Push
  <2>2. redis' = [redis EXCEPT ![g] = keys]
    BY <1>2, <1>3, <1>12, <2>1, KeyWrites
  <2> QED
    BY <1>2, <1>3, <2>2 DEF RedisTyped
<1>15. CASE EndsGame(self.state)
  <2>1. PICK r : r = [self EXCEPT !.at = "end.range"]
    OBVIOUS
  <2>2. /\ IsCall(r) /\ r.at = "end.range" /\ r.game = g /\ r.state = self.state
        /\ call' = [call EXCEPT ![c] = r]
    BY <1>0, <1>2, <1>15, <2>1 DEF IsCall, MovePush, Advance
  <2>3. (InHand(r))'
    BY <1>0, <1>1, <1>9, <1>10, <1>11, <1>13, <1>14, <1>15, <2>2
       DEF InHand, InPlay, Agreeing, Moving, Ending, Steps, Calm, FinishAllowed
  <2> QED
    BY <1>1, <1>2, <1>8, <1>13, <1>14, <2>2, <2>3, KeyFit
<1>16. CASE ~EndsGame(self.state)
  <2>1. PICK r : r = Idle
    OBVIOUS
  <2>2. call' = [call EXCEPT ![c] = r] /\ IsCall(r)
    BY <1>16, <2>1, IdleIsCall DEF MovePush, Advance
  <2>3. Undecided(more)
    BY <1>10, <1>16 DEF EndsGame, Undecided
  <2>4. AtRest(g)'
    BY <1>1, <1>9, <1>10, <1>11, <1>13, <1>14, <2>3 DEF AtRest, InPlay, Calm, FinishAllowed
  <2> QED
    BY <1>1, <1>2, <1>8, <1>13, <1>14, <2>1, <2>2, <2>4, KeyFit
<1> QED
  BY <1>15, <1>16

LEMMA DelFits ==
  ASSUME FInv, OneByOne, NEW c \in Calls, Del(c)
  PROVE  PositionsFit'
<1> DEFINE self == call[c]
<1>0. PICK g : g = call[c].game
  OBVIOUS
<1>1. /\ self.at = "del" /\ UNCHANGED <<hazards, games, room>>
      /\ call' = [call EXCEPT ![c] = Idle]
      /\ ttl' = [ttl EXCEPT ![g] = [state |-> 0, meta |-> 0]]
  BY <1>0 DEF Del, Advance
<1>2. /\ InFlight \subseteq {c} /\ g \in GameIds /\ games[g].status # "none"
      /\ \A h \in GameIds : h # g => AtRest(h)
  BY <1>0, <1>1, OnlyCall DEF InHand
<1>3. RedisTyped /\ KeysShaped
  BY DEF FInv, KInv, PositionsFit
<1>4. PICK keys : keys = [state |-> None, moves |-> <<>>]
  OBVIOUS
<1>5. /\ keys = [state |-> keys.state, moves |-> keys.moves]
      /\ keys.moves = <<>> /\ keys.moves \in Seq(Moves)
  BY <1>4
<1>6. redis' = [redis EXCEPT ![g] = keys] /\ redis'[g] = keys
  BY <1>0, <1>2, <1>3, <1>4 DEF Del, RedisTyped
<1>7. (\A h \in GameIds : h # g => ttl'[h] = ttl[h]) /\ ttl'[g].state = 0
  BY <1>1, <1>2, <1>3 DEF KeysShaped
<1>8. AtRest(g)'
  BY <1>1, <1>2, <1>5, <1>6, <1>7, NothingIsLegal DEF AtRest, InPlay
<1>9. PICK r : r = Idle
  OBVIOUS
<1> QED
  BY <1>1, <1>2, <1>5, <1>6, <1>7, <1>8, <1>9, IdleIsCall, KeyFit

-----------------------------------------------------------------------------
\* Steps of a call that write a row.

LEMMA RowFit ==
  ASSUME FInv, OneByOne, NEW c \in Calls, NEW g \in GameIds, InFlight \subseteq {c},
         \A h \in GameIds : h # g => AtRest(h), UNCHANGED <<hazards, redis, ttl>>,
         NEW row, games' = [games EXCEPT ![g] = row], row.status # "none",
         Calm => room' = room \/ \A h \in GameIds : h # g => ~InPlay(h),
         row.moves \in Seq(Moves), row.result = None => row.moves = <<>>,
         Calm /\ row.status = "Finished" => IsRecord(row), row.result # None \/ ~InPlay(g),
         NEW r, IsCall(r), r.at = "del", r.game = g, call' = [call EXCEPT ![c] = r],
         Calm => IsLegal(redis[g].moves)
  PROVE  PositionsFit'
<1>1. RedisTyped /\ RowsFit /\ GamesShaped
  BY DEF FInv, KInv, IInv, PositionsFit
<1>2. \A h \in GameIds : games'[h] = IF h = g THEN row ELSE games[h]
  BY <1>1 DEF GamesShaped
<1>3. RedisTyped'
  BY <1>1 DEF RedisTyped
<1>4. RowsFit'
  <2>1. ASSUME NEW h \in GameIds
        PROVE  /\ games'[h].moves \in Seq(Moves)
               /\ games'[h].result = None => games'[h].moves = <<>>
               /\ Calm' /\ games'[h].status = "Finished" => IsRecord(games'[h])
    <3>1. Calm' <=> Calm
      BY DEF Calm
    <3>2. CASE h = g
      <4>1. games'[h] = row
        BY <1>2, <3>2
      <4> QED
        BY <3>1, <4>1
    <3>3. CASE h # g
      <4>1. games'[h] = games[h]
        BY <1>2, <3>3
      <4> QED
        BY <1>1, <3>1, <4>1 DEF RowsFit
    <3> QED
      BY <3>2, <3>3
  <2>2. \A h \in GameIds : (IsRecord(games[h]))' <=> IsRecord(games'[h])
    BY DEF IsRecord
  <2> QED
    BY <2>1, <2>2 DEF RowsFit
<1>5. (InHand(r))'
  BY <1>2 DEF InHand, InPlay, Agreeing, Moving, Ending, Steps, Calm
<1> QED
  BY <1>2, <1>3, <1>4, <1>5, FitTo

LEMMA AbandonFits ==
  ASSUME FInv, OneByOne, NEW c \in Calls, AbandonUpdate(c)
  PROVE  PositionsFit'
<1> DEFINE self == call[c]
<1>0. PICK g : g = call[c].game
  OBVIOUS
<1>1. /\ self.at = "abandon.update" /\ UNCHANGED <<hazards, room, redis, ttl>>
      /\ games' = [games EXCEPT ![g].status = "Abandoned"]
  BY <1>0 DEF AbandonUpdate
<1>2. /\ InFlight \subseteq {c} /\ IsCall(self) /\ g \in GameIds
      /\ InHand(self)
      /\ \A h \in GameIds : h # g => AtRest(h)
  BY <1>0, <1>1, OnlyCall
<1>3. GamesShaped /\ RowsFit
  BY DEF FInv, KInv, IInv, PositionsFit
<1>4. PICK old : old = games[g]
  OBVIOUS
<1>5. old = [status |-> old.status, result |-> old.result, moves |-> old.moves]
  BY <1>2, <1>3, <1>4 DEF GamesShaped
<1>6. PICK row : row = [status |-> "Abandoned", result |-> old.result, moves |-> old.moves]
  OBVIOUS
<1>7. row.status = "Abandoned" /\ row.result = old.result /\ row.moves = old.moves
  BY <1>6
<1>8. games' = [games EXCEPT ![g] = row]
  <2>1. [old EXCEPT !.status = "Abandoned"] = row
    BY <1>5, <1>6
  <2> QED
    BY <1>1, <1>4, <2>1
<1>9. old.moves \in Seq(Moves) /\ (old.result = None => old.moves = <<>>)
  BY <1>2, <1>3, <1>4 DEF RowsFit
<1>10. PICK r : r = [self EXCEPT !.at = "del"]
  OBVIOUS
<1>11. /\ IsCall(r) /\ r.at = "del" /\ r.game = g
       /\ call' = [call EXCEPT ![c] = r]
  BY <1>0, <1>2, <1>10 DEF IsCall, AbandonUpdate, Advance
<1>12. ~InPlay(g) /\ (Calm => IsLegal(redis[g].moves))
  BY <1>0, <1>1, <1>2 DEF InHand
<1> QED
  BY <1>1, <1>2, <1>7, <1>8, <1>9, <1>11, <1>12, RowFit

\* The row gets the moves that lead to the position that ended the game.  In a calm
\* environment no other game is in play: it would be the current one.
LEMMA EndFinishFits ==
  ASSUME FInv, OneByOne, NEW c \in Calls, EndFinish(c)
  PROVE  PositionsFit'
<1> DEFINE self == call[c]
<1>0. PICK g : g = call[c].game
  OBVIOUS
<1>1. self.at = "end.finish" /\ UNCHANGED <<hazards, redis, ttl>>
  BY DEF EndFinish
<1>2. /\ InFlight \subseteq {c} /\ IsCall(self) /\ g \in GameIds
      /\ InHand(self)
      /\ \A h \in GameIds : h # g => AtRest(h)
  BY <1>0, <1>1, OnlyCall
<1>3. /\ IInv /\ RowsFit /\ RedisTyped
  BY DEF FInv, KInv, PositionsFit
<1>4. PICK moves : moves = redis[g].moves
  OBVIOUS
<1>5. /\ games[g].status # "none" /\ (InPlay(g) => redis[g].state = Replay(moves))
      /\ self.state = Replay(moves) /\ EndsGame(self.state) /\ self.moves = moves
      /\ Calm => IsLegal(moves)
  BY <1>0, <1>1, <1>2, <1>4 DEF InHand, Agreeing, Moving, Ending, Steps
<1>6. CASE ~FinishAllowed(g)
  <2>1. call' = [call EXCEPT ![c] = Idle] /\ UNCHANGED <<games, room>>
    BY <1>0, <1>6 DEF EndFinish, Advance
  <2>2. AtRest(g)
    BY <1>0, <1>1, <1>2, <1>4, <1>5, <1>6 DEF AtRest, InHand, Ending
  <2>3. PICK over : over = Idle
    OBVIOUS
  <2> QED
    BY <1>1, <1>2, <2>1, <2>2, <2>3, IdleIsCall, QuietFit
<1>7. CASE FinishAllowed(g)
  <2>1. PICK result : result = ResultOf(self.state.board)
    OBVIOUS
  <2>2. result # None /\ result = ResultOf(Replay(moves).board)
    BY <1>5, <2>1 DEF EndsGame
  <2>3. PICK row : row = [status |-> "Finished", result |-> result, moves |-> moves]
    OBVIOUS
  <2>4. row.status = "Finished" /\ row.result = result /\ row.moves = moves
    BY <2>3
  <2>5. moves \in Seq(Moves) /\ <<>> \o moves = moves
    <3>1. moves \in Seq(Moves)
      BY <1>2, <1>3, <1>4 DEF RedisTyped
    <3> QED
      BY <3>1
  <2>6. games[g].moves = <<>>
    <3>1. games[g].result = None
      BY <1>2, <1>3, <1>7, NoneIsNoGame DEF FinishAllowed, IInv, CurrentHasNoResult
    <3> QED
      BY <1>2, <1>3, <3>1 DEF RowsFit
  <2>7. games' = [games EXCEPT ![g] = row] /\ room' = ClearCurrent(g)
    <3>1. games' = [games EXCEPT ![g] = [status |-> "Finished", result |-> result,
                                         moves |-> games[g].moves \o moves]]
      BY <1>0, <1>2, <1>3, <1>5, <1>7, <2>1 DEF EndFinish
    <3> QED
      BY <1>0, <1>7, <2>3, <2>5, <2>6, <3>1 DEF EndFinish
  <2>8. PICK r : r = [Idle EXCEPT !.at = "del", !.game = g]
    OBVIOUS
  <2>9. IsCall(r) /\ r.at = "del" /\ r.game = g /\ call' = [call EXCEPT ![c] = r]
    <3>1. IsCall(r) /\ r.at = "del" /\ r.game = g
      BY <2>8 DEF IsCall, Idle
    <3> QED
      BY <1>0, <1>7, <2>8, <3>1 DEF EndFinish, Advance
  <2>10. Calm => IsRecord(row)
    BY <1>5, <2>2, <2>4 DEF IsRecord
  <2>11. Calm => \A h \in GameIds : h # g => ~InPlay(h)
    BY <1>2, <1>7 DEF AtRest, FinishAllowed
  <2>12. Calm => IsLegal(redis[g].moves)
    BY <1>4, <1>5
  <2> QED
    BY <1>1, <1>2, <2>2, <2>4, <2>5, <2>7, <2>9, <2>10, <2>11, <2>12, RowFit
<1> QED
  BY <1>6, <1>7

LEMMA TickFits ==
  ASSUME FInv, OneByOne, Tick
  PROVE  PositionsFit'
<1>1. /\ UNCHANGED <<hazards, games, room, call>>
      /\ ttl' = [g \in GameIds |-> [state |-> Less(ttl[g].state), meta |-> Less(ttl[g].meta)]]
      /\ redis' = [g \in GameIds |->
                     IF ttl'[g].state = 0 THEN [redis[g] EXCEPT !.state = None] ELSE redis[g]]
  BY DEF Tick
<1>2. /\ CallsTyped /\ RedisTyped /\ RowsFit /\ OnlyCallFits /\ KeysShaped
  BY DEF FInv, KInv, PositionsFit
<1>3. ASSUME NEW g \in GameIds
      PROVE  /\ redis'[g] = [state |-> redis'[g].state, moves |-> redis'[g].moves]
             /\ redis'[g].moves = redis[g].moves
             /\ InPlay(g)' => InPlay(g) /\ redis'[g] = redis[g]
  <2>1. PICK key : key = redis[g]
    OBVIOUS
  <2>2. key = [state |-> key.state, moves |-> key.moves]
    BY <1>2, <2>1 DEF RedisTyped
  <2>3. PICK dead : dead = [state |-> None, moves |-> key.moves]
    OBVIOUS
  <2>4. dead = [state |-> dead.state, moves |-> dead.moves] /\ dead.moves = key.moves
    BY <2>3
  <2>5. redis'[g] = IF ttl'[g].state = 0 THEN dead ELSE key
    <3>1. [key EXCEPT !.state = None] = dead
      BY <2>2, <2>3
    <3> QED
      BY <1>1, <2>1, <3>1
  <2>6. ttl[g].state \in 0..TTL /\ ttl'[g].state = Less(ttl[g].state) /\ TTL \in Nat
    BY <1>1, <1>2, TtlPositive DEF KeysShaped
  <2>7. InPlay(g)' => InPlay(g) /\ ttl'[g].state # 0
    BY <2>6 DEF InPlay, Less
  <2> QED
    BY <2>1, <2>2, <2>4, <2>5, <2>7
<1>4. RedisTyped'
  <2>1. redis' = [g \in GameIds |-> redis'[g]]
    BY <1>1
  <2> QED
    BY <1>2, <1>3, <2>1 DEF RedisTyped
<1>5. ASSUME NEW g \in GameIds, AtRest(g) PROVE AtRest(g)'
  <2>1. /\ redis'[g].moves = redis[g].moves
        /\ InPlay(g)' => InPlay(g) /\ redis'[g].state = redis[g].state
    BY <1>3
  <2>2. AtRest(g) /\ (FinishAllowed(g))' = FinishAllowed(g) /\ Calm' = Calm
    BY <1>1, <1>5 DEF FinishAllowed, Calm
  <2>3. /\ games'[g].status = "none" => ~InPlay(g)' /\ redis'[g].moves = <<>>
        /\ InPlay(g)' => redis'[g].state = Replay(redis'[g].moves)
    BY <1>1, <2>1, <2>2 DEF AtRest
  <2>4. Calm' => /\ IsLegal(redis'[g].moves)
                 /\ InPlay(g)' => Undecided(redis'[g].moves) /\ (FinishAllowed(g))'
    BY <2>1, <2>2 DEF AtRest
  <2> QED
    BY <2>3, <2>4 DEF AtRest, IsLegal, Undecided
<1>6. ASSUME NEW r, r.game \in GameIds, InHand(r) PROVE (InHand(r))'
  <2>1. PICK g : g = r.game /\ g \in GameIds
    BY <1>6
  <2>2. /\ redis'[g].moves = redis[g].moves
        /\ InPlay(g)' => InPlay(g) /\ redis'[g].state = redis[g].state
    BY <1>3, <2>1
  <2>3. (FinishAllowed(g))' = FinishAllowed(g) /\ Calm' = Calm
    BY <1>1 DEF FinishAllowed, Calm
  <2> QED
    BY <1>1, <1>6, <2>1, <2>2, <2>3, ZenonT(40) DEF InHand, IsLegal, Undecided
<1>7. OnlyCallFits'
  <2>1. InFlight' = InFlight
    BY <1>1 DEF InFlight
  <2>2. ASSUME InFlight = {} PROVE (Fits(Idle))'
    <3>1. \A g \in GameIds : AtRest(g)
      BY <1>2, <2>2, IdleIsCall, NoneIsNoGame DEF OnlyCallFits, Fits
    <3> QED
      BY <1>5, <3>1, IdleIsCall DEF Fits, Idle
  <2>3. ASSUME NEW c \in InFlight PROVE (Fits(call[c]))'
    <3>1. PICK r : r = call[c]
      OBVIOUS
    <3>2. /\ r.at # "idle" /\ r.game \in GameIds /\ InHand(r) /\ call'[c] = r
          /\ \A h \in GameIds : h # r.game => AtRest(h)
      BY <1>1, <3>1, OnlyCall DEF InFlight
    <3>3. (InHand(r))' /\ \A h \in GameIds : h # r.game => AtRest(h)'
      BY <1>5, <1>6, <3>2
    <3> QED
      BY <3>2, <3>3 DEF Fits, InHand
  <2> QED
    BY <2>1, <2>2, <2>3 DEF OnlyCallFits
<1>8. CallsTyped' /\ RowsFit'
  BY <1>1, <1>2 DEF CallsTyped, RowsFit, IsRecord, Calm
<1> QED
  BY <1>4, <1>7, <1>8 DEF PositionsFit

\* A step that at most deletes the room, in a calm environment while nothing is in play.
LEMMA RoomStepFits ==
  ASSUME FInv, OneByOne, UNCHANGED <<hazards, games, redis, ttl, call>>,
         Calm => room' = room \/ (InFlight = {} /\ \A g \in GameIds : ~InPlay(g))
  PROVE  PositionsFit'
<1>1. CallsTyped /\ RedisTyped /\ RowsFit /\ OnlyCallFits
  BY DEF FInv, PositionsFit
<1>2. CallsTyped' /\ RedisTyped' /\ RowsFit'
  BY <1>1 DEF CallsTyped, RedisTyped, RowsFit, IsRecord, Calm
<1>3. InFlight' = InFlight
  BY DEF InFlight
<1>4. ASSUME InFlight = {} PROVE (Fits(Idle))'
  <2>1. \A g \in GameIds : AtRest(g)
    BY <1>1, <1>4, IdleIsCall, NoneIsNoGame DEF OnlyCallFits, Fits
  <2>2. \A g \in GameIds : AtRest(g)'
    BY <2>1, AtRestStays
  <2> QED
    BY <2>2, IdleIsCall DEF Fits, Idle
<1>5. ASSUME NEW c \in InFlight PROVE (Fits(call[c]))'
  <2>1. Fits(call[c]) /\ (Calm => room' = room)
    BY <1>1, <1>5 DEF OnlyCallFits
  <2>2. PICK r : r = call[c]
    OBVIOUS
  <2>3. \A g \in GameIds : g # r.game => AtRest(g)'
    BY <2>1, <2>2, AtRestStays DEF Fits
  <2>4. r.at # "idle" => (InHand(r))'
    BY <2>1, <2>2 DEF Fits, InHand, InPlay, Calm, FinishAllowed
  <2> QED
    BY <2>2, <2>3, <2>4 DEF Fits, InHand
<1> QED
  BY <1>2, <1>3, <1>4, <1>5 DEF PositionsFit, OnlyCallFits

LEMMA FNextOK == FInv /\ [Next]_vars => FInv'
<1> SUFFICES ASSUME FInv, [Next]_vars PROVE FInv'
  OBVIOUS
<1>1. KInv'
  BY KNextOK DEF FInv
<1>2. OneByOne' => OneByOne
  BY HazardsStay DEF OneByOne
<1>3. ASSUME OneByOne PROVE PositionsFit'
  <2>1. ASSUME NEW c \in Calls, StartCall(c) \/ Continue(c) \/ Fail(c)
        PROVE  PositionsFit'
    <3>1. ~Fail(c)
      BY <1>3 DEF Fail, OneByOne
    <3> QED
      BY <1>3, <2>1, <3>1, StartCallFits, QuietStepFits, StartSetStateFits, MoveSetStateFits,
         MovePushFits, EndFinishFits, AbandonFits, DelFits DEF Continue
  <2>2. CASE OnRoomDeleted
    BY <1>3, <2>2, RoomStepFits DEF OnRoomDeleted, RoomIsFree, Calm
  <2>3. CASE NothingLeft \/ UNCHANGED vars
    BY <1>3, <2>3, RoomStepFits DEF NothingLeft, vars
  <2>4. CASE Tick
    BY <1>3, <2>4, TickFits
  <2> QED
    BY <2>1, <2>2, <2>3, <2>4 DEF Next
<1> QED
  BY <1>1, <1>2, <1>3 DEF FInv

LEMMA FInvariance == Spec => []FInv
BY FInitOK, FNextOK, PTL DEF Spec

LEMMA BetweenCalls ==
  ASSUME FInv, OneByOne, InFlight = {}
  PROVE  \A g \in GameIds : AtRest(g)
BY IdleIsCall, NoneIsNoGame DEF FInv, PositionsFit, OnlyCallFits, Fits

\* With one call at a time and none failing, the position in Redis is the one the moves in
\* Redis lead to, for every board, every number of games and every length of a game
\* (game.service.ts:132).
THEOREM StateAlwaysReplays == Spec => []StateIsReplay
<1>1. FInv => StateIsReplay
  BY BetweenCalls DEF StateIsReplay, AtRest
<1> QED
  BY <1>1, FInvariance, PTL

\* In a calm environment the moves of a finished game are a legal game that ends with the
\* stored result, for every board and every length of a game (game.service.ts:102-117).
THEOREM RecordIsAlwaysTheGame == Spec => []RecordIsTheGame
<1>1. FInv => RecordIsTheGame
  BY DEF FInv, PositionsFit, RowsFit, IsRecord, RecordIsTheGame, OneByOne, Calm
<1> QED
  BY <1>1, FInvariance, PTL

\* In a calm environment a decided game is not left in play, whatever decided it
\* (game.service.ts:94-98).
THEOREM DecidedAlwaysLeave == Spec => []DecidedGamesLeave
<1>1. FInv => DecidedGamesLeave
  <2> SUFFICES ASSUME FInv, Calm, InFlight = {}, NEW g \in GameIds, InPlay(g)
               PROVE  ResultOf(redis[g].state.board) = None
    BY DEF DecidedGamesLeave, Calm
  <2>1. AtRest(g)
    BY BetweenCalls DEF OneByOne, Calm
  <2> QED
    BY <2>1 DEF AtRest, Undecided
<1> QED
  BY <1>1, FInvariance, PTL

-----------------------------------------------------------------------------
\* PlaysTheGame: what each step does to the abstract game

LEMMA NextPlayerPlays ==
  ASSUME NEW userId \in Players
  PROVE  NextPlayer(userId) \in Players
<1>1. \E p \in Players : p # userId
  BY PlayersDiffer DEF Players
<1> QED
  BY <1>1 DEF NextPlayer

LEMMA ApplyMoveTyped ==
  ASSUME NEW position \in States, NEW userId \in Players, NEW cellId \in Cells
  PROVE  ApplyMove(position, userId, cellId) \in States
BY NextPlayerPlays DEF ApplyMove, States, Boards

LEMMA ReplayTyped ==
  ASSUME NEW moves \in Seq(Moves)
  PROVE  Replay(moves) \in States
<1>1. PICK n : n = Len(moves) /\ n \in Nat /\ \A i \in 1..n : moves[i] \in Moves
  OBVIOUS
<1>2. PICK p : Positions(p, moves, n) /\ Replay(moves) = p[n]
  BY <1>1, PositionsExist, ReplayIsLast
<1> DEFINE T == {i \in 0..n : p[i] \notin States}
<1> SUFFICES ASSUME T # {} PROVE FALSE
  BY <1>1, <1>2
<1>3. PICK i \in T : \A j \in T : i <= j
  <2>1. T \subseteq Nat
    OBVIOUS
  <2> HIDE DEF T
  <2> QED
    BY <2>1, Least
<1>4. p[i] = IF i = 0 THEN InitialState ELSE After(p[i - 1], moves[i])
  BY <1>1, <1>2 DEF Positions
<1>5. CASE i = 0
  BY <1>4, <1>5 DEF InitialState, States, Boards, Players
<1>6. CASE i # 0
  <2>1. i - 1 \in 0..n /\ i - 1 \notin T /\ i \in 1..n
    BY <1>1, <1>3, <1>6
  <2>2. p[i - 1] \in States /\ moves[i].userId \in Players /\ moves[i].cellId \in Cells
    BY <1>1, <2>1 DEF Moves
  <2> QED
    BY <1>4, <1>6, <2>2, ApplyMoveTyped DEF After
<1> QED
  BY <1>5, <1>6

LEMMA TheGameIsOne == TheGame \in GameIds
BY OneIsPlayed, PlayedGamesAreGames DEF TheGame

InStates(position) == position \notin {NotStarted, Lost}

LEMMA StatesArePositions ==
  ASSUME NEW position \in States
  PROVE  InStates(position)
BY NoPositions DEF InStates

\* What Position is in a calm environment, by cases.
Decided == games[TheGame].result # None

NotYet == Starting \/ games[TheGame].status = "none"

Moved == \E c \in Calls : MovesIt(c)

LEMMA CalmPosition ==
  ASSUME Calm
  PROVE  /\ Decided => Position = Replay(games[TheGame].moves)
         /\ ~Decided /\ Moved => Position = call[Mover].state
         /\ ~Decided /\ ~Moved /\ InPlay(TheGame) => Position = redis[TheGame].state
         /\ ~Decided /\ ~Moved /\ ~InPlay(TheGame) /\ NotYet => Position = NotStarted
         /\ ~Decided /\ ~Moved /\ ~InPlay(TheGame) /\ ~NotYet => Position = Lost
BY DEF Calm, Position, Decided, Moved, NotYet

LEMMA CalmPositionNext ==
  ASSUME Calm'
  PROVE  /\ Decided' => Position' = Replay(games'[TheGame].moves)
         /\ ~Decided' /\ Moved' => Position' = call'[Mover'].state
         /\ ~Decided' /\ ~Moved' /\ InPlay(TheGame)' => Position' = redis'[TheGame].state
         /\ ~Decided' /\ ~Moved' /\ ~InPlay(TheGame)' /\ NotYet' => Position' = NotStarted
         /\ ~Decided' /\ ~Moved' /\ ~InPlay(TheGame)' /\ ~NotYet' => Position' = Lost
BY DEF Calm, Position, Decided, Moved, NotYet, Replay

\* The engine of the abstract game is the engine of the service.
LEMMA SameEngine ==
  /\ Abstract!InitialState = InitialState
  /\ \A position, userId, cellId :
       /\ Abstract!IsValidMove(position, userId, cellId) <=> IsValidMove(position, userId, cellId)
       /\ Abstract!ApplyMove(position, userId, cellId) = ApplyMove(position, userId, cellId)
  /\ \A board : Abstract!ResultOf(board) = ResultOf(board)
  /\ Abstract!Players = Players
<1>1. Abstract!Players = Players /\ Abstract!InitialState = InitialState
  BY DEF Abstract!Players, Players, Abstract!InitialState, InitialState
<1>2. \A userId : Abstract!NextPlayer(userId) = NextPlayer(userId)
  BY <1>1 DEF Abstract!NextPlayer, NextPlayer
<1>3. \A position, userId, cellId :
        /\ Abstract!IsValidMove(position, userId, cellId) <=> IsValidMove(position, userId, cellId)
        /\ Abstract!ApplyMove(position, userId, cellId) = ApplyMove(position, userId, cellId)
  BY <1>2 DEF Abstract!IsValidMove, IsValidMove, Abstract!ApplyMove, ApplyMove
<1>4. \A board : Abstract!FindWinner(board) = FindWinner(board)
  BY DEF Abstract!FindWinner, FindWinner, Abstract!Owned, Owned, Abstract!OwnedBy, OwnedBy,
         Abstract!Players, Players, Abstract!Min, Min
<1>5. \A board : Abstract!ResultOf(board) = ResultOf(board)
  BY <1>4 DEF Abstract!ResultOf, ResultOf, Abstract!IsFull, IsFull
<1> QED
  BY <1>1, <1>3, <1>5

\* Steps that leave what Position looks at alone.
LEMMA Unmoved ==
  ASSUME Calm, Calm',
         games'[TheGame].result = games[TheGame].result,
         games'[TheGame].moves = games[TheGame].moves,
         \/ Decided
         \/ Moved /\ Moved' /\ call'[Mover'].state = call[Mover].state
         \/ /\ ~Moved /\ ~Moved' /\ (InPlay(TheGame)' <=> InPlay(TheGame))
            /\ InPlay(TheGame) => redis'[TheGame].state = redis[TheGame].state
            /\ InPlay(TheGame) \/ (NotYet' <=> NotYet)
  PROVE  UNCHANGED <<Position, Outcome>>
<1>1. Decided' <=> Decided
  BY DEF Decided
<1>2. Position' = Position
  <2>1. CASE Decided
    BY <2>1 DEF Calm, Position, Decided
  <2>2. CASE ~Decided
    BY <1>1, <2>2, CalmPosition, CalmPositionNext
  <2> QED
    BY <2>1, <2>2
<1> QED
  BY <1>2 DEF Outcome

AbstractStep == Abstract!Next \/ UNCHANGED <<Position, Outcome>>

\* Lose: the position of an undecided game goes with its key, unless it is there again or
\* still.
LEMMA KeptOrLost ==
  ASSUME Calm', ~Decided', ~Moved', ~NotYet',
         Position \in States, ResultOf(Position.board) = None,
         InPlay(TheGame)' => redis'[TheGame].state = Position
  PROVE  AbstractStep
<1>1. InStates(Position) /\ Outcome = None
  BY StatesArePositions DEF Outcome, InStates
<1>2. CASE InPlay(TheGame)'
  <2>1. Position' = Position
    BY <1>2, CalmPositionNext
  <2> QED
    BY <2>1 DEF Outcome, AbstractStep
<1>3. CASE ~InPlay(TheGame)'
  <2>1. Position' = Lost
    BY <1>3, CalmPositionNext
  <2>2. Outcome' = None
    BY <2>1 DEF Outcome
  <2> QED
    BY <1>1, <2>1, <2>2 DEF AbstractStep, Abstract!Next, Abstract!Lose, InStates
<1> QED
  BY <1>2, <1>3

\* Whether the game is being started or moved, and by whom, when there is only one call.
Starts(r) == r.at = "start.setState" /\ r.game = TheGame

IsMoving(r) == r.at \in Moving \cup Ending /\ r.game = TheGame

LEMMA WhoActs ==
  ASSUME FInv, OneByOne, NEW c \in Calls, InFlight \subseteq {c},
         NEW r, call' = [call EXCEPT ![c] = r]
  PROVE  /\ Starting <=> Starts(call[c])
         /\ Starting' <=> Starts(r)
         /\ Moved <=> IsMoving(call[c])
         /\ Moved' <=> IsMoving(r)
         /\ Moved => call[Mover] = call[c]
         /\ Moved' => call'[Mover'] = r
<1>1. \A e \in Calls : call'[e] = IF e = c THEN r ELSE call[e]
  BY DEF FInv, KInv, CallsShaped
<1>2. \A e \in Calls : e # c => call[e].at = "idle"
  BY DEF InFlight
<1>3. (Starting <=> Starts(call[c])) /\ (Starting' <=> Starts(r))
  BY <1>1, <1>2 DEF Starting, Starts
<1>4. /\ \A e \in Calls : MovesIt(e) <=> e = c /\ IsMoving(call[c])
      /\ \A e \in Calls : MovesIt(e)' <=> e = c /\ IsMoving(r)
  BY <1>1, <1>2 DEF MovesIt, IsMoving, Moving, Ending
<1>5. (Moved <=> IsMoving(call[c])) /\ (Moved' <=> IsMoving(r))
  BY <1>4 DEF Moved
<1>6. Moved => Mover = c
  BY <1>4 DEF Moved, Mover
<1>7. Moved' => Mover' = c
  BY <1>4 DEF Moved, Mover
<1> QED
  BY <1>1, <1>3, <1>5, <1>6, <1>7

\* A call begins.
LEMMA StartCallPlays ==
  ASSUME FInv, Calm, Calm', NEW c \in Calls, StartCall(c)
  PROVE  UNCHANGED <<Position, Outcome>>
<1>1. /\ InFlight = {} /\ UNCHANGED <<redis, ttl>> /\ OneByOne
      /\ GamesShaped /\ NewHasNoResult
  BY DEF StartCall, StartGame, MoveGetState, GetStateMiss, MayStart, OneByOne, Calm, FInv,
         KInv, IInv
<1>2. call[c].at = "idle" /\ TheGame \in GameIds
  BY <1>1, TheGameIsOne DEF InFlight
<1>3. ~Starts(call[c]) /\ ~IsMoving(call[c])
  BY <1>2 DEF Starts, IsMoving, Moving, Ending
<1>4. ASSUME NEW g \in GameIds, StartGame(c, g) PROVE UNCHANGED <<Position, Outcome>>
  <2>1. PICK r : r = [Idle EXCEPT !.at = "start.setState", !.game = g]
    OBVIOUS
  <2>2. r.at = "start.setState" /\ r.game = g /\ call' = [call EXCEPT ![c] = r]
    BY <1>4, <2>1 DEF Idle, StartGame, Advance
  <2>3. games' = [games EXCEPT ![g].status = "Active"] /\ games[g].status = "none"
    BY <1>4 DEF StartGame
  <2>4. /\ games'[TheGame].result = games[TheGame].result
        /\ games'[TheGame].moves = games[TheGame].moves
        /\ g # TheGame => games'[TheGame].status = games[TheGame].status
    BY <1>1, <1>2, <2>3 DEF GamesShaped
  <2>5. ~Moved /\ ~Moved' /\ ~Starting /\ (Starting' <=> g = TheGame)
    BY <1>1, <1>3, <2>2, WhoActs DEF IsMoving, Moving, Ending, Starts
  <2>6. NotYet' <=> NotYet
    BY <2>3, <2>4, <2>5 DEF NotYet
  <2> QED
    BY <1>1, <2>4, <2>5, <2>6, Unmoved DEF InPlay
<1>5. ASSUME NEW r, call' = [call EXCEPT ![c] = r], ~Starts(r), ~IsMoving(r), games' = games
      PROVE  UNCHANGED <<Position, Outcome>>
  <2>1. ~Moved /\ ~Moved' /\ (NotYet' <=> NotYet)
    BY <1>1, <1>3, <1>5, WhoActs DEF NotYet
  <2> QED
    BY <1>1, <1>5, <2>1, Unmoved DEF InPlay
<1>6. ASSUME NEW g \in GameIds, NEW userId \in Players, NEW cellId \in Cells,
             MoveGetState(c, g, userId, cellId)
      PROVE  UNCHANGED <<Position, Outcome>>
  <2>1. PICK r : r = [Idle EXCEPT !.at = "move.getMeta", !.game = g, !.userId = userId,
                                  !.cellId = cellId, !.state = redis[g].state]
    OBVIOUS
  <2>2. r.at = "move.getMeta" /\ r.game = g /\ r.state = redis[g].state
    BY <2>1 DEF Idle
  <2>3. call' = [call EXCEPT ![c] = r] /\ games' = games /\ InPlay(g)
    BY <1>6, <2>1 DEF MoveGetState, Advance
  <2>4. CASE g # TheGame
    BY <1>5, <2>2, <2>3, <2>4 DEF Starts, IsMoving
  <2>5. CASE g = TheGame /\ Decided
    BY <2>3, <2>5, Unmoved
  <2>6. CASE g = TheGame /\ ~Decided
    <3>1. ~Moved /\ Moved' /\ call'[Mover'] = r
      BY <1>1, <1>3, <2>2, <2>3, <2>6, WhoActs DEF IsMoving, Moving
    <3>2. Position = redis[TheGame].state /\ Position' = r.state
      BY <2>3, <2>6, <3>1, CalmPosition, CalmPositionNext DEF Decided
    <3> QED
      BY <2>2, <2>6, <3>2 DEF Outcome
  <2> QED
    BY <2>4, <2>5, <2>6
<1>7. ASSUME NEW g \in GameIds, GetStateMiss(c, g) PROVE UNCHANGED <<Position, Outcome>>
  <2>1. PICK r : r = [Idle EXCEPT !.at = "abandon.update", !.game = g]
    OBVIOUS
  <2>2. ~Starts(r) /\ ~IsMoving(r)
    BY <2>1 DEF Idle, Starts, IsMoving, Moving, Ending
  <2> QED
    BY <1>5, <1>7, <2>1, <2>2 DEF GetStateMiss, Advance
<1> QED
  BY <1>4, <1>6, <1>7 DEF StartCall

\* A step that leaves the rows and the position of TheGame alone, by a call that goes on as
\* it was: it starts or moves TheGame no more and no less, with the same position in hand.
LEMMA GoesOn ==
  ASSUME FInv, Calm, Calm', NEW c \in Calls, InFlight \subseteq {c},
         NEW r, call' = [call EXCEPT ![c] = r],
         games'[TheGame].result = games[TheGame].result,
         games'[TheGame].moves = games[TheGame].moves,
         games'[TheGame].status = "none" <=> games[TheGame].status = "none",
         IsMoving(r) <=> IsMoving(call[c]),
         IsMoving(r) => r.state = call[c].state,
         \/ IsMoving(r)
         \/ /\ Starts(r) <=> Starts(call[c])
            /\ InPlay(TheGame)' <=> InPlay(TheGame)
            /\ InPlay(TheGame) => redis'[TheGame].state = redis[TheGame].state
  PROVE  UNCHANGED <<Position, Outcome>>
<1>1. OneByOne
  BY DEF Calm, OneByOne
<1>2. /\ Moved <=> IsMoving(call[c])
      /\ Moved' <=> IsMoving(r)
      /\ Moved => call[Mover] = call[c]
      /\ Moved' => call'[Mover'] = r
      /\ (Starting <=> Starts(call[c])) /\ (Starting' <=> Starts(r))
  BY <1>1, WhoActs
<1>3. CASE IsMoving(r)
  BY <1>2, <1>3, Unmoved
<1>4. CASE ~IsMoving(r)
  <2>1. NotYet' <=> NotYet
    BY <1>2, <1>4 DEF NotYet
  <2> QED
    BY <1>2, <1>4, <2>1, Unmoved
<1> QED
  BY <1>3, <1>4

LEMMA StartSetMetaPlays ==
  ASSUME FInv, Calm, Calm', NEW c \in Calls, StartSetMeta(c)
  PROVE  UNCHANGED <<Position, Outcome>>
<1>1. /\ call[c].at = "start.setMeta" /\ UNCHANGED <<games, redis>> /\ OneByOne /\ KeysShaped
      /\ ttl' = [ttl EXCEPT ![call[c].game].meta = TTL]
  BY DEF StartSetMeta, OneByOne, Calm, FInv, KInv
<1>2. InFlight \subseteq {c} /\ call[c].game \in GameIds /\ TheGame \in GameIds
  BY <1>1, OnlyCall, TheGameIsOne
<1>3. ttl'[TheGame].state = ttl[TheGame].state
  BY <1>1, <1>2 DEF KeysShaped
<1>4. PICK r : r = Idle
  OBVIOUS
<1>5. call' = [call EXCEPT ![c] = r] /\ r.at = "idle"
  BY <1>4, IdleIsCall DEF StartSetMeta, Advance
<1>6. /\ ~IsMoving(r) /\ ~IsMoving(call[c]) /\ ~Starts(r) /\ ~Starts(call[c])
  BY <1>1, <1>5 DEF IsMoving, Starts, Moving, Ending
<1> QED
  BY <1>1, <1>2, <1>3, <1>5, <1>6, GoesOn DEF InPlay

\* Begin: the position is there for the first time.
LEMMA StartSetStatePlays ==
  ASSUME FInv, Calm, Calm', NEW c \in Calls, StartSetState(c)
  PROVE  AbstractStep
<1>0. PICK g : g = call[c].game
  OBVIOUS
<1>1. /\ call[c].at = "start.setState" /\ games' = games /\ OneByOne
      /\ redis' = [redis EXCEPT ![g].state = InitialState]
      /\ ttl' = [ttl EXCEPT ![g].state = TTL]
  BY <1>0 DEF StartSetState, Set, OneByOne, Calm
<1>2. /\ InFlight \subseteq {c} /\ IsCall(call[c]) /\ g \in GameIds /\ InHand(call[c])
  BY <1>0, <1>1, OnlyCall
<1>3. /\ KeysShaped /\ RedisTyped /\ IInv
  BY <1>1 DEF FInv, KInv, PositionsFit
<1>4. PICK r : r = [call[c] EXCEPT !.at = "start.setMeta"]
  OBVIOUS
<1>5. call' = [call EXCEPT ![c] = r] /\ r.at = "start.setMeta"
  BY <1>2, <1>4 DEF StartSetState, Advance, IsCall
<1>6. ~IsMoving(r) /\ ~IsMoving(call[c]) /\ ~Starts(r)
  BY <1>1, <1>5 DEF IsMoving, Starts, Moving, Ending
<1>7. PICK keys : keys = [state |-> InitialState, moves |-> redis[g].moves]
  OBVIOUS
<1>8. redis' = [redis EXCEPT ![g] = keys] /\ keys.state = InitialState
  BY <1>1, <1>2, <1>3, <1>7, KeyWrites
<1>9. \A h \in GameIds :
        /\ redis'[h].state = IF h = g THEN InitialState ELSE redis[h].state
        /\ ttl'[h].state = IF h = g THEN TTL ELSE ttl[h].state
  BY <1>1, <1>2, <1>3, <1>8 DEF RedisTyped, KeysShaped
<1>10. CASE g = TheGame
  <2>1. ~Decided /\ ~Decided' /\ ~InPlay(TheGame)
    BY <1>0, <1>1, <1>2, <1>3, <1>10, NoneIsNoGame
       DEF Decided, InHand, FinishAllowed, IInv, CurrentHasNoResult, Calm
  <2>2. InPlay(TheGame)' /\ redis'[TheGame].state = InitialState
    BY <1>2, <1>9, <1>10, TtlPositive DEF InPlay
  <2>3. NotYet /\ ~Moved /\ ~Moved'
    BY <1>0, <1>1, <1>2, <1>5, <1>6, <1>10, WhoActs DEF NotYet, Starting
  <2>4. Position = NotStarted /\ Position' = InitialState
    BY <2>1, <2>2, <2>3, CalmPosition, CalmPositionNext
  <2>5. InitialState \in States
    BY DEF InitialState, States, Boards, Players
  <2>6. Outcome = None /\ Outcome' = None
    BY <2>4, <2>5, StatesArePositions, NothingIsUndecided DEF Outcome, InStates
  <2> QED
    BY <2>4, <2>6, SameEngine DEF AbstractStep, Abstract!Next, Abstract!Begin
<1>11. CASE g # TheGame
  <2>1. ~Starts(call[c])
    BY <1>0, <1>11 DEF Starts
  <2>2. UNCHANGED <<Position, Outcome>>
    BY <1>1, <1>2, <1>5, <1>6, <1>9, <1>11, <2>1, TheGameIsOne, GoesOn DEF InPlay
  <2> QED
    BY <2>2 DEF AbstractStep
<1> QED
  BY <1>10, <1>11

\* A game that is being moved is undecided in Postgres, and the move in hand is one of the
\* abstract game.
LEMMA MovesUndecided ==
  ASSUME FInv, Calm, NEW c \in Calls, IsMoving(call[c])
  PROVE  /\ ~Decided /\ Moved /\ Position = call[c].state /\ games[TheGame].status # "none"
         /\ InFlight \subseteq {c} /\ IsCall(call[c]) /\ InHand(call[c])
         /\ redis[TheGame].moves \in Seq(Moves) /\ FinishAllowed(TheGame)
<1>1. /\ call[c].at \in Moving \cup Ending /\ call[c].game = TheGame /\ call[c].at # "idle"
      /\ OneByOne
  BY DEF IsMoving, Moving, Ending, OneByOne, Calm
<1>2. /\ InFlight \subseteq {c} /\ IsCall(call[c]) /\ InHand(call[c])
      /\ TheGame \in GameIds
  BY <1>1, OnlyCall
<1>3. RedisTyped /\ IInv
  BY <1>1 DEF FInv, KInv, PositionsFit
<1>4. games[TheGame].status # "none" /\ FinishAllowed(TheGame)
  BY <1>1, <1>2 DEF InHand, Moving, Ending
<1>5. ~Decided
  BY <1>2, <1>3, <1>4, NoneIsNoGame DEF Decided, FinishAllowed, IInv, CurrentHasNoResult
<1>6. Moved /\ Mover = c
  <2>1. \A e \in Calls : MovesIt(e) <=> e = c
    BY <1>1, <1>2 DEF MovesIt, InFlight, Moving, Ending
  <2> QED
    BY <2>1 DEF Moved, Mover
<1> QED
  BY <1>2, <1>3, <1>4, <1>5, <1>6, CalmPosition DEF RedisTyped

\* Move: the move is valid on the position the call read, which is the abstract one while the
\* call goes on, whether its key is still there or not.  A refused call drops the position it
\* had in hand.
LEMMA MoveGetMetaPlays ==
  ASSUME FInv, Calm, Calm', NEW c \in Calls, MoveGetMeta(c)
  PROVE  AbstractStep
<1>0. PICK g, self : g = call[c].game /\ self = call[c]
  OBVIOUS
<1>1. self.at = "move.getMeta" /\ UNCHANGED <<games, redis, ttl>> /\ OneByOne
  BY <1>0 DEF MoveGetMeta, OneByOne, Calm
<1>2. /\ InFlight \subseteq {c} /\ IsCall(self) /\ self.game = g
  BY <1>0, <1>1, OnlyCall
<1>3. PICK r : r = [self EXCEPT !.at = "move.setState",
                                !.state = ApplyMove(self.state, self.userId, self.cellId)]
  OBVIOUS
<1>4. /\ r.at = "move.setState" /\ r.game = g
      /\ r.state = ApplyMove(self.state, self.userId, self.cellId)
  BY <1>2, <1>3 DEF IsCall
<1>5. \/ call' = [call EXCEPT ![c] = Idle]
      \/ call' = [call EXCEPT ![c] = r] /\ IsValidMove(self.state, self.userId, self.cellId)
  BY <1>0, <1>3 DEF MoveGetMeta, Advance
<1>6. CASE g # TheGame
  <2>1. ~IsMoving(self) /\ ~Starts(self) /\ ~IsMoving(r) /\ ~Starts(r)
    BY <1>2, <1>4, <1>6 DEF IsMoving, Starts
  <2>2. ~IsMoving(Idle) /\ ~Starts(Idle)
    BY IdleIsCall DEF IsMoving, Starts, Moving, Ending
  <2>3. PICK more : more \in {Idle, r} /\ call' = [call EXCEPT ![c] = more]
    BY <1>5
  <2>4. ~IsMoving(more) /\ ~Starts(more)
    BY <2>1, <2>2, <2>3
  <2>5. UNCHANGED <<Position, Outcome>>
    BY <1>0, <1>1, <1>2, <2>1, <2>3, <2>4, GoesOn DEF InPlay
  <2> QED
    BY <2>5 DEF AbstractStep
<1>7. CASE g = TheGame
  <2>1. IsMoving(self)
    BY <1>1, <1>2, <1>7 DEF IsMoving, Moving
  <2>2. PICK moves : moves = redis[TheGame].moves
    OBVIOUS
  <2>3. /\ ~Decided /\ Moved /\ Position = self.state /\ games[TheGame].status # "none"
        /\ InHand(self) /\ moves \in Seq(Moves)
    BY <1>0, <2>1, <2>2, MovesUndecided
  <2>4. /\ self.userId \in Players /\ self.cellId \in Cells
        /\ self.state = Replay(moves) /\ ResultOf(self.state.board) = None
        /\ InPlay(TheGame) => redis[TheGame].state = self.state
    BY <1>1, <1>2, <1>7, <2>2, <2>3 DEF InHand, Agreeing, Moving, Undecided
  <2>5. self.state \in States
    BY <2>3, <2>4, ReplayTyped
  <2>6. ~Decided'
    BY <1>1, <2>3 DEF Decided
  <2>7. CASE call' = [call EXCEPT ![c] = r] /\ IsValidMove(self.state, self.userId, self.cellId)
    <3>1. Moved' /\ call'[Mover'] = r
      BY <1>1, <1>2, <1>4, <1>7, <2>7, WhoActs DEF IsMoving, Moving
    <3>2. Position' = r.state /\ Position' \in States
      BY <1>4, <2>4, <2>5, <2>6, <3>1, CalmPositionNext, ApplyMoveTyped
    <3>3. /\ InStates(Position) /\ InStates(Position')
          /\ Outcome = None /\ Outcome' = ResultOf(Position'.board)
      BY <2>3, <2>4, <2>5, <3>2, StatesArePositions DEF Outcome, InStates
    <3>4. Abstract!Move(self.userId, self.cellId)
      BY <1>4, <2>3, <2>7, <3>2, <3>3, SameEngine DEF Abstract!Move, InStates
    <3>5. self.cellId \in Abstract!CellIds
      BY <2>4 DEF Abstract!CellIds
    <3> QED
      BY <2>4, <3>4, <3>5, SameEngine DEF AbstractStep, Abstract!Next
  <2>8. CASE call' = [call EXCEPT ![c] = Idle]
    <3>1. PICK over : over = Idle
      OBVIOUS
    <3>2. call' = [call EXCEPT ![c] = over] /\ ~IsMoving(over) /\ ~Starts(over)
      BY <2>8, <3>1, IdleIsCall DEF IsMoving, Starts, Moving, Ending
    <3>3. ~Moved' /\ ~NotYet'
      BY <1>1, <1>2, <2>3, <3>2, WhoActs DEF NotYet
    <3> QED
      BY <1>1, <2>3, <2>4, <2>5, <2>6, <3>3, KeptOrLost DEF InPlay
  <2> QED
    BY <1>5, <2>7, <2>8
<1> QED
  BY <1>6, <1>7

\* What comes after the move changes nothing: the position is in hand.
LEMMA MovingPlays ==
  ASSUME FInv, Calm, Calm', NEW c \in Calls,
         MoveSetState(c) \/ MoveExpireMeta(c) \/ EndRange(c)
  PROVE  UNCHANGED <<Position, Outcome>>
<1>0. PICK g, self : g = call[c].game /\ self = call[c]
  OBVIOUS
<1>1. /\ self.at \in {"move.setState", "move.expire", "end.range"} /\ games' = games
      /\ OneByOne
  BY <1>0 DEF MoveSetState, MoveExpireMeta, EndRange, OneByOne, Calm
<1>2. /\ InFlight \subseteq {c} /\ IsCall(self) /\ g \in GameIds /\ self.game = g
  BY <1>0, <1>1, OnlyCall
<1>3. RedisTyped /\ KeysShaped
  BY <1>1 DEF FInv, KInv, PositionsFit
<1>4. PICK r : /\ call' = [call EXCEPT ![c] = r] /\ r.game = g /\ r.state = self.state
               /\ r.at \in {"move.expire", "move.push", "end.finish"}
  <2>1. CASE MoveSetState(c)
    <3>1. PICK r : r = [self EXCEPT !.at = "move.expire"]
      OBVIOUS
    <3>2. r.at = "move.expire" /\ r.game = g /\ r.state = self.state
      BY <1>2, <3>1 DEF IsCall
    <3> QED
      BY <1>0, <2>1, <3>1, <3>2 DEF MoveSetState, Advance
  <2>2. CASE MoveExpireMeta(c)
    <3>1. PICK r : r = [self EXCEPT !.at = "move.push"]
      OBVIOUS
    <3>2. r.at = "move.push" /\ r.game = g /\ r.state = self.state
      BY <1>2, <3>1 DEF IsCall
    <3> QED
      BY <1>0, <2>2, <3>1, <3>2 DEF MoveExpireMeta, Advance
  <2>3. CASE EndRange(c)
    <3>1. PICK r : r = [self EXCEPT !.at = "end.finish", !.moves = redis[g].moves]
      OBVIOUS
    <3>2. r.at = "end.finish" /\ r.game = g /\ r.state = self.state
      BY <1>2, <3>1 DEF IsCall
    <3> QED
      BY <1>0, <2>3, <3>1, <3>2 DEF EndRange, Advance
  <2> QED
    BY <2>1, <2>2, <2>3
<1>5. \A h \in GameIds : h # g => ttl'[h] = ttl[h] /\ redis'[h] = redis[h]
  BY <1>0, <1>2, <1>3 DEF MoveSetState, Set, MoveExpireMeta, EndRange, RedisTyped, KeysShaped
<1>6. /\ ~Starts(r) /\ ~Starts(self)
      /\ (IsMoving(r) <=> g = TheGame) /\ (IsMoving(self) <=> g = TheGame)
  BY <1>1, <1>2, <1>4 DEF Starts, IsMoving, Moving, Ending
<1> QED
  BY <1>0, <1>1, <1>2, <1>4, <1>5, <1>6, TheGameIsOne, GoesOn DEF InPlay

\* The move is over when it is on the list, unless it ended the game.
LEMMA MovePushPlays ==
  ASSUME FInv, Calm, Calm', NEW c \in Calls, MovePush(c)
  PROVE  AbstractStep
<1>0. PICK g, self : g = call[c].game /\ self = call[c]
  OBVIOUS
<1>1. self.at = "move.push" /\ UNCHANGED <<games, ttl>> /\ OneByOne
  BY <1>0 DEF MovePush, OneByOne, Calm
<1>2. /\ InFlight \subseteq {c} /\ IsCall(self) /\ g \in GameIds /\ self.game = g
  BY <1>0, <1>1, OnlyCall
<1>3. RedisTyped
  BY <1>1 DEF FInv, PositionsFit
<1>4. \A h \in GameIds : redis'[h].state = redis[h].state
  <2>1. PICK moves : redis' = [redis EXCEPT ![g].moves = moves]
    BY <1>0 DEF MovePush
  <2>2. PICK keys : keys = [state |-> redis[g].state, moves |-> moves]
    OBVIOUS
  <2>3. redis' = [redis EXCEPT ![g] = keys]
    BY <1>2, <1>3, <2>1, <2>2, KeyWrites
  <2> QED
    BY <1>2, <1>3, <2>2, <2>3 DEF RedisTyped
<1>5. PICK last, over : last = [self EXCEPT !.at = "end.range"] /\ over = Idle
  OBVIOUS
<1>6. /\ last.at = "end.range" /\ last.game = g /\ last.state = self.state
      /\ ~IsMoving(over) /\ ~Starts(over) /\ ~Starts(last) /\ ~Starts(self)
      /\ (IsMoving(last) <=> g = TheGame) /\ (IsMoving(self) <=> g = TheGame)
  <2>1. last.at = "end.range" /\ last.game = g /\ last.state = self.state /\ over.at = "idle"
    BY <1>2, <1>5, IdleIsCall DEF IsCall
  <2> QED
    BY <1>1, <1>2, <2>1 DEF Starts, IsMoving, Moving, Ending
<1>7. CASE EndsGame(self.state)
  <2>1. call' = [call EXCEPT ![c] = last]
    BY <1>0, <1>5, <1>7 DEF MovePush, Advance
  <2>2. UNCHANGED <<Position, Outcome>>
    BY <1>0, <1>1, <1>2, <1>4, <1>6, <2>1, TheGameIsOne, GoesOn DEF InPlay
  <2> QED
    BY <2>2 DEF AbstractStep
<1>8. CASE ~EndsGame(self.state)
  <2>1. call' = [call EXCEPT ![c] = over]
    BY <1>0, <1>5, <1>8 DEF MovePush, Advance
  <2>2. CASE g # TheGame
    <3>1. UNCHANGED <<Position, Outcome>>
      BY <1>0, <1>1, <1>2, <1>4, <1>6, <2>1, <2>2, TheGameIsOne, GoesOn DEF InPlay
    <3> QED
      BY <3>1 DEF AbstractStep
  <2>3. CASE g = TheGame
    <3>1. PICK moves : moves = redis[TheGame].moves
      OBVIOUS
    <3>2. /\ ~Decided /\ Moved /\ Position = self.state /\ games[TheGame].status # "none"
          /\ InHand(self) /\ moves \in Seq(Moves)
      BY <1>0, <1>6, <2>3, <3>1, MovesUndecided
    <3>3. /\ self.userId \in Players /\ self.cellId \in Cells
          /\ self.state = ApplyMove(Replay(moves), self.userId, self.cellId)
          /\ InPlay(TheGame) => redis[TheGame].state = self.state
      BY <1>1, <1>2, <2>3, <3>1, <3>2 DEF InHand, Moving
    <3>4. self.state \in States /\ ResultOf(self.state.board) = None
      BY <1>8, <3>2, <3>3, ReplayTyped, ApplyMoveTyped DEF EndsGame
    <3>5. ~Moved' /\ ~NotYet' /\ ~Decided'
      BY <1>1, <1>2, <1>6, <2>1, <3>2, WhoActs DEF NotYet, Decided
    <3> QED
      BY <1>1, <1>4, <3>2, <3>3, <3>4, <3>5, KeptOrLost, TheGameIsOne DEF InPlay
  <2> QED
    BY <2>2, <2>3
<1> QED
  BY <1>7, <1>8

\* A decided game is over, whatever happens to its keys and to its row.
LEMMA DecidedPlays ==
  ASSUME FInv, Calm, Calm', WrittenOnce, Decided
  PROVE  UNCHANGED <<Position, Outcome>>
<1>1. /\ games'[TheGame].result = games[TheGame].result
      /\ games'[TheGame].moves = games[TheGame].moves
  BY TheGameIsOne DEF Decided, WrittenOnce
<1> QED
  BY <1>1, Unmoved

\* The record is the position it replaces.
LEMMA EndFinishPlays ==
  ASSUME FInv, Calm, Calm', NEW c \in Calls, EndFinish(c)
  PROVE  UNCHANGED <<Position, Outcome>>
<1>0. PICK g, self : g = call[c].game /\ self = call[c]
  OBVIOUS
<1>1. self.at = "end.finish" /\ UNCHANGED <<redis, ttl>> /\ OneByOne
  BY <1>0 DEF EndFinish, OneByOne, Calm
<1>2. /\ InFlight \subseteq {c} /\ IsCall(self) /\ g \in GameIds /\ InHand(self)
      /\ self.game = g
  BY <1>0, <1>1, OnlyCall
<1>3. RedisTyped /\ RowsFit /\ IInv
  BY <1>1 DEF FInv, KInv, PositionsFit
<1>4. PICK moves : moves = redis[g].moves
  OBVIOUS
<1>5. /\ self.state = Replay(moves)
      /\ EndsGame(self.state) /\ self.moves = moves /\ FinishAllowed(g)
  BY <1>1, <1>2, <1>4 DEF InHand, Agreeing, Moving, Ending
<1>6. games[g].result = None /\ games[g].moves = <<>>
  BY <1>2, <1>3, <1>5, NoneIsNoGame DEF FinishAllowed, IInv, CurrentHasNoResult, RowsFit
<1>7. moves \in Seq(Moves) /\ <<>> \o moves = moves
  <2>1. moves \in Seq(Moves)
    BY <1>2, <1>3, <1>4 DEF RedisTyped
  <2> QED
    BY <2>1
<1>8. PICK row : row = [status |-> "Finished", result |-> ResultOf(self.state.board),
                        moves |-> moves]
  OBVIOUS
<1>9. row.result # None /\ row.moves = moves /\ row.status = "Finished"
  BY <1>5, <1>8 DEF EndsGame
<1>10. games' = [games EXCEPT ![g] = row]
  BY <1>0, <1>5, <1>6, <1>7, <1>8 DEF EndFinish
<1>11. \A h \in GameIds : games'[h] = IF h = g THEN row ELSE games[h]
  BY <1>3, <1>10 DEF IInv, GamesShaped
<1>12. CASE g = TheGame
  <2>1. IsMoving(self)
    BY <1>1, <1>2, <1>12 DEF IsMoving, Ending
  <2>2. Position = Replay(moves)
    BY <1>0, <1>5, <2>1, MovesUndecided
  <2>3. Decided' /\ games'[TheGame].moves = moves
    BY <1>2, <1>9, <1>11, <1>12 DEF Decided
  <2>4. Position' = Replay(moves)
    BY <2>3, CalmPositionNext
  <2> QED
    BY <2>2, <2>4 DEF Outcome
<1>13. CASE g # TheGame
  <2>1. games'[TheGame] = games[TheGame]
    BY <1>11, <1>13, TheGameIsOne
  <2>2. PICK r : r = [Idle EXCEPT !.at = "del", !.game = g]
    OBVIOUS
  <2>3. r.at = "del" /\ r.game = g /\ call' = [call EXCEPT ![c] = r]
    BY <1>0, <1>5, <2>2 DEF EndFinish, Advance, Idle
  <2>4. ~IsMoving(r) /\ ~IsMoving(self) /\ ~Starts(r) /\ ~Starts(self)
    BY <1>2, <1>13, <2>3 DEF IsMoving, Starts
  <2> QED
    BY <1>0, <1>1, <1>2, <2>1, <2>3, <2>4, GoesOn DEF InPlay
<1> QED
  BY <1>12, <1>13

\* A game is abandoned, or its keys are deleted, only when it is decided or not in play.
LEMMA LeavingPlays ==
  ASSUME FInv, Calm, Calm', WrittenOnce, NEW c \in Calls, AbandonUpdate(c) \/ Del(c)
  PROVE  UNCHANGED <<Position, Outcome>>
<1>0. PICK g, self : g = call[c].game /\ self = call[c]
  OBVIOUS
<1>1. /\ self.at \in {"abandon.update", "del"} /\ OneByOne
      /\ \A h \in GameIds : h # g => ttl'[h] = ttl[h] /\ redis'[h] = redis[h]
      /\ AbandonUpdate(c) => UNCHANGED <<redis, ttl>>
      /\ Del(c) => games' = games /\ ttl' = [ttl EXCEPT ![g] = [state |-> 0, meta |-> 0]]
  <2>1. CASE AbandonUpdate(c)
    BY <1>0, <2>1 DEF AbandonUpdate, Del, OneByOne, Calm
  <2>2. CASE Del(c)
    <3>1. /\ self.at = "del" /\ games' = games /\ OneByOne /\ ~AbandonUpdate(c)
          /\ redis' = [redis EXCEPT ![g] = [state |-> None, moves |-> <<>>]]
          /\ ttl' = [ttl EXCEPT ![g] = [state |-> 0, meta |-> 0]]
      BY <1>0, <2>2 DEF AbandonUpdate, Del, OneByOne, Calm
    <3>2. RedisTyped /\ KeysShaped
      BY <3>1 DEF FInv, KInv, PositionsFit
    <3>3. \A h \in GameIds : h # g => ttl'[h] = ttl[h] /\ redis'[h] = redis[h]
      BY <3>1, <3>2 DEF RedisTyped, KeysShaped
    <3> QED
      BY <3>1, <3>3
  <2> QED
    BY <2>1, <2>2
<1>2. /\ InFlight \subseteq {c} /\ IsCall(self) /\ g \in GameIds /\ InHand(self)
      /\ self.game = g
  BY <1>0, <1>1, OnlyCall
<1>3. /\ GamesShaped /\ KeysShaped
  BY <1>1 DEF FInv, KInv, IInv, PositionsFit
<1>4. PICK r : call' = [call EXCEPT ![c] = r] /\ r.at \in {"idle", "del"}
  <2>1. [self EXCEPT !.at = "del"].at = "del"
    BY <1>2 DEF IsCall
  <2>2. CASE AbandonUpdate(c)
    BY <1>0, <2>1, <2>2 DEF AbandonUpdate, Advance
  <2>3. CASE Del(c)
    BY <2>3, IdleIsCall DEF Del, Advance
  <2> QED
    BY <2>2, <2>3
<1>5. /\ games'[TheGame].result = games[TheGame].result
      /\ games'[TheGame].moves = games[TheGame].moves
      /\ games'[TheGame].status = "none" <=> games[TheGame].status = "none"
  <2>1. CASE AbandonUpdate(c)
    <3>1. games' = [games EXCEPT ![g].status = "Abandoned"]
      BY <1>0, <2>1 DEF AbandonUpdate
    <3>2. games[g].status # "none"
      BY <1>2 DEF InHand
    <3>3. PICK row : row = games[g] /\ row = [status |-> row.status, result |-> row.result,
                                              moves |-> row.moves]
      BY <1>2, <1>3 DEF GamesShaped
    <3>4. PICK new : new = [row EXCEPT !.status = "Abandoned"]
      OBVIOUS
    <3>5. new.status = "Abandoned" /\ new.result = row.result /\ new.moves = row.moves
      BY <3>3, <3>4
    <3>6. games'[TheGame] = IF TheGame = g THEN new ELSE games[TheGame]
      BY <1>3, <3>1, <3>3, <3>4, TheGameIsOne DEF GamesShaped
    <3> QED
      BY <3>2, <3>3, <3>5, <3>6
  <2>2. CASE Del(c)
    BY <1>1, <2>2
  <2> QED
    BY <2>1, <2>2
<1>6. ~IsMoving(r) /\ ~IsMoving(self) /\ ~Starts(r) /\ ~Starts(self)
  BY <1>1, <1>4 DEF IsMoving, Starts, Moving, Ending
<1>7. CASE Decided
  BY <1>7, DecidedPlays
<1>8. CASE ~Decided /\ g = TheGame
  <2>1. ~InPlay(TheGame)
    BY <1>1, <1>2, <1>8 DEF InHand, Decided
  <2>2. ~InPlay(TheGame)'
    BY <1>1, <1>2, <1>3, <1>8, <2>1 DEF InPlay, KeysShaped
  <2> QED
    BY <1>0, <1>2, <1>4, <1>5, <1>6, <2>1, <2>2, GoesOn
<1>9. CASE ~Decided /\ g # TheGame
  BY <1>0, <1>1, <1>2, <1>4, <1>5, <1>6, <1>9, TheGameIsOne, GoesOn DEF InPlay
<1> QED
  BY <1>7, <1>8, <1>9

\* Time takes no position from a call that moves; an undecided game nobody moves is lost when
\* its key expires.
LEMMA TickPlays ==
  ASSUME FInv, Calm, Calm', WrittenOnce, Tick
  PROVE  AbstractStep
<1>1. /\ UNCHANGED <<games, room, call>> /\ OneByOne
      /\ ttl' = [g \in GameIds |-> [state |-> Less(ttl[g].state), meta |-> Less(ttl[g].meta)]]
      /\ redis' = [g \in GameIds |->
                     IF ttl'[g].state = 0 THEN [redis[g] EXCEPT !.state = None] ELSE redis[g]]
  BY DEF Tick, OneByOne, Calm
<1>2. KeysShaped /\ RedisTyped /\ RowsFit /\ PositionsFit /\ TheGame \in GameIds
  BY <1>1, TheGameIsOne DEF FInv, KInv, PositionsFit
<1>3. InPlay(TheGame)' => InPlay(TheGame) /\ redis'[TheGame] = redis[TheGame]
  <2>1. /\ ttl[TheGame].state \in 0..TTL /\ TTL \in Nat
        /\ ttl'[TheGame].state = Less(ttl[TheGame].state)
    BY <1>1, <1>2, TtlPositive DEF KeysShaped
  <2> QED
    BY <1>1, <1>2, <2>1 DEF InPlay, Less
<1>4. /\ NotYet' <=> NotYet
      /\ Decided' <=> Decided
      /\ Moved' <=> Moved
      /\ Mover' = Mover
  BY <1>1 DEF NotYet, Starting, Decided, Moved, Mover, MovesIt
<1>5. CASE Decided
  BY <1>5, DecidedPlays DEF AbstractStep
<1>6. CASE ~Decided /\ Moved
  BY <1>1, <1>4, <1>6, Unmoved DEF AbstractStep
<1>7. CASE ~Decided /\ ~Moved /\ ~InPlay(TheGame)
  BY <1>1, <1>3, <1>4, <1>7, Unmoved DEF AbstractStep
<1>8. CASE ~Decided /\ ~Moved /\ InPlay(TheGame)
  <2>1. PICK moves : moves = redis[TheGame].moves
    OBVIOUS
  <2>2. /\ moves \in Seq(Moves) /\ ~NotYet
        /\ redis[TheGame].state = Replay(moves)
        /\ ResultOf(Replay(moves).board) = None
    <3>1. moves \in Seq(Moves)
      BY <1>2, <2>1 DEF RedisTyped
    <3>2. CASE InFlight = {}
      <4>1. AtRest(TheGame) /\ ~Starting
        BY <1>1, <1>2, <3>2, BetweenCalls DEF Starting, InFlight
      <4> QED
        BY <1>8, <2>1, <3>1, <4>1 DEF AtRest, Undecided, NotYet
    <3>3. ASSUME NEW c \in InFlight PROVE ~NotYet /\ redis[TheGame].state = Replay(moves)
                                          /\ ResultOf(Replay(moves).board) = None
      <4>1. PICK r : r = call[c]
        OBVIOUS
      <4>2. /\ InFlight \subseteq {c} /\ InHand(r) /\ r.at # "idle"
            /\ \A h \in GameIds : h # r.game => AtRest(h)
        BY <1>1, <3>3, <4>1, OnlyCall DEF InFlight
      <4>3. Starting => Starts(r)
        BY <4>1, <4>2 DEF Starting, Starts, InFlight
      <4>4. CASE r.game # TheGame
        <5>1. AtRest(TheGame) /\ ~Starting
          BY <1>2, <4>2, <4>3, <4>4 DEF Starts
        <5> QED
          BY <1>8, <2>1, <5>1 DEF AtRest, Undecided, NotYet
      <4>5. CASE r.game = TheGame
        <5>1. r.at \notin Moving \cup Ending
          BY <1>8, <3>3, <4>1, <4>5 DEF Moved, MovesIt, InFlight
        <5>2. r.at = "start.setMeta"
          BY <1>8, <4>2, <4>5, <5>1 DEF InHand, Decided, Moving, Ending, Steps
        <5> QED
          BY <1>8, <2>1, <4>2, <4>3, <4>5, <5>2 DEF InHand, Agreeing, Undecided, NotYet, Starts
      <4> QED
        BY <4>4, <4>5
    <3> QED
      BY <3>1, <3>2, <3>3
  <2>3. Position = redis[TheGame].state
    BY <1>8, CalmPosition
  <2>4. Position \in States /\ ResultOf(Position.board) = None
    BY <2>2, <2>3, ReplayTyped
  <2> QED
    BY <1>3, <1>4, <1>8, <2>2, <2>3, <2>4, KeptOrLost
<1> QED
  BY <1>5, <1>6, <1>7, <1>8

LEMMA NextPlays ==
  ASSUME FInv, [Next]_vars
  PROVE  AbstractStep
<1>1. CASE ~Calm
  <2>1. ~Calm'
    BY <1>1, HazardsStay DEF Calm
  <2>2. Position = NotStarted /\ Position' = NotStarted
    BY <1>1, <2>1 DEF Calm, Position
  <2> QED
    BY <2>2 DEF AbstractStep, Outcome
<1>2. CASE Calm
  <2>1. Calm' /\ WrittenOnce /\ FInv' /\ OneByOne /\ OneByOne'
    BY <1>2, HazardsStay, NextOK, FNextOK DEF Calm, FInv, KInv, OneByOne
  <2>2. ASSUME NEW c \in Calls, StartCall(c) \/ Continue(c) \/ Fail(c)
        PROVE  AbstractStep
    <3>1. ~Fail(c)
      BY <1>2 DEF Fail, Calm
    <3> QED
      BY <1>2, <2>1, <2>2, <3>1, StartCallPlays, StartSetStatePlays, StartSetMetaPlays,
         MoveGetMetaPlays, MovingPlays, MovePushPlays, EndFinishPlays, LeavingPlays
         DEF Continue, AbstractStep
  <2>3. CASE OnRoomDeleted \/ NothingLeft \/ UNCHANGED vars
    <3>1. UNCHANGED <<games, redis, ttl, call>>
      BY <2>3 DEF OnRoomDeleted, NothingLeft, vars
    <3>2. (NotYet' <=> NotYet) /\ (Moved' <=> Moved) /\ Mover' = Mover
      BY <3>1 DEF NotYet, Starting, Moved, Mover, MovesIt
    <3> QED
      BY <1>2, <2>1, <3>1, <3>2, Unmoved DEF InPlay, AbstractStep
  <2>4. CASE Tick
    BY <1>2, <2>1, <2>4, TickPlays
  <2> QED
    BY <2>2, <2>3, <2>4 DEF Next
<1> QED
  BY <1>1, <1>2

LEMMA InitPlays == Init => Abstract!Init
<1> SUFFICES ASSUME Init PROVE Abstract!Init
  OBVIOUS
<1>1. ~Decided /\ ~InPlay(TheGame) /\ NotYet
  BY TheGameIsOne DEF Init, Decided, InPlay, NotYet
<1>2. ~Moved
  BY IdleIsCall DEF Init, Moved, MovesIt, Moving, Ending
<1>3. Position = NotStarted
  BY <1>1, <1>2, CalmPosition DEF Position, Calm
<1> QED
  BY <1>3 DEF Abstract!Init, Outcome

\* In a calm environment GameService plays the game of TicTacToeGame: every call is one
\* begin, one move, one loss or nothing, for every board, every number of games and of
\* slots, and whenever keys expire, also under a move (game.service.ts:24-120).
THEOREM GameIsPlayed == Spec => PlaysTheGame
<1>1. FInv /\ [Next]_vars => [Abstract!Next]_(Abstract!vars)
  BY NextPlays DEF AbstractStep, Abstract!vars
<1> QED
  BY <1>1, InitPlays, FInvariance, PTL DEF Spec, PlaysTheGame, Abstract!Spec
=============================================================================
