---------------------------- MODULE TicTacToeGame ----------------------------
(***************************************************************************)
(* One game of tic-tac-toe as the players see it: valid moves, one at a    *)
(* time, until there is a result.  It drives the engine over every         *)
(* position the real board can reach, and is the abstract specification    *)
(* GameService.tla implements: there a game begins some time after its     *)
(* players sat down, and is lost when Redis drops it.                      *)
(***************************************************************************)
EXTENDS TicTacToe, FiniteSets

CONSTANTS NotStarted, Lost   \* what `state' is before and after a lost game

ASSUME NoPositions == NotStarted \notin States /\ Lost \notin States /\ NotStarted # Lost

VARIABLES state,    \* the position
          result    \* the result of the last move, null while the game goes on

vars == <<state, result>>

Init ==
  /\ state \in {NotStarted, InitialState}
  /\ result = None

Begin ==
  /\ state = NotStarted
  /\ state' = InitialState
  /\ UNCHANGED result

Move(userId, cellId) ==
  /\ state \notin {NotStarted, Lost}
  /\ result = None
  /\ IsValidMove(state, userId, cellId)
  /\ state' = ApplyMove(state, userId, cellId)
  /\ result' = ResultOf(state'.board)

\* The position is dropped: the key of a game nobody plays expires.
Lose ==
  /\ state \notin {NotStarted, Lost}
  /\ result = None
  /\ state' = Lost
  /\ UNCHANGED result

Over ==
  /\ result # None \/ state = Lost
  /\ UNCHANGED vars

\* cellId comes from the client, so it need not be a cell of the board.
CellIds == Cells \cup {-1, Cardinality(Cells)}

Next ==
  \/ Begin
  \/ \E userId \in Players, cellId \in CellIds : Move(userId, cellId)
  \/ Lose
  \/ Over

Spec == Init /\ [][Next]_vars

-----------------------------------------------------------------------------

Playing == state \notin {NotStarted, Lost}

Marks(p) == Cardinality({c \in Cells : state.board[c] = p})

HasLine(p) == \E i \in DOMAIN WIN_LINES : OwnedBy(state.board, WIN_LINES[i], p)

\* The players take turns: X is never behind and at most one mark ahead, and
\* currentPlayerId is the player who is behind (ttt.engine.ts:52, 69).
TurnsAlternate ==
  Playing =>
    /\ Marks(PlayerX) - Marks(PlayerO) \in {0, 1}
    /\ state.currentPlayerId = PlayerX <=> Marks(PlayerX) = Marks(PlayerO)

\* The result is right, by a definition that knows no order of the lines: the
\* player with a line wins, no two players have one, a draw is a full board
\* without one, and the game goes on exactly while a cell is free and there is
\* no line (a line completed by the ninth mark is a win, no draw).
ResultIsRight ==
  Playing =>
    /\ ~(HasLine(PlayerX) /\ HasLine(PlayerO))
    /\ \A p \in Players :
         HasLine(p) <=> result = [winner |-> p, isDraw |-> FALSE]
    /\ result = None <=>
         ~IsFull(state.board) /\ \A p \in Players : ~HasLine(p)
=============================================================================
