------------------------------ MODULE TicTacToe ------------------------------
(***************************************************************************)
(* The tic-tac-toe engine (src/modules/ttt/ttt.engine.ts): pure functions  *)
(* from a position and a move to the next position and the result.  The    *)
(* board and its lines are parameters, so that the service can be checked  *)
(* on a board of four cells and the engine on the real one.                *)
(***************************************************************************)
EXTENDS Integers, SequencesExt

CONSTANTS PlayerX, PlayerO,   \* the two entries of playerIds, X moves first
          Cells,              \* 0..8 in the code
          WIN_LINES,          \* a sequence of sets of cells
          None                \* null

ASSUME PlayersDiffer == PlayerX # PlayerO /\ None \notin {PlayerX, PlayerO}
ASSUME CellsAreNumbers == Cells \subseteq Int
ASSUME CellsFinite     == IsFiniteSet(Cells) /\ Cells # {}
ASSUME LinesOnBoard ==
  WIN_LINES \in Seq(SUBSET Cells) /\ \A i \in DOMAIN WIN_LINES : WIN_LINES[i] # {}

Players == {PlayerX, PlayerO}

Boards == [Cells -> Players \cup {None}]

States == [board : Boards, currentPlayerId : Players]

\* types.ts: the result of an ongoing game is null.
Results == {None} \cup [winner : Players \cup {None}, isDraw : BOOLEAN]

ASSUME NoneIsNoObject ==
  None \notin States /\ None \notin [winner : Players \cup {None}, isDraw : BOOLEAN]

InitialState == [board |-> [c \in Cells |-> None], currentPlayerId |-> PlayerX]

IsValidMove(state, userId, cellId) ==
  /\ state.currentPlayerId = userId
  /\ cellId \in Cells
  /\ state.board[cellId] = None

OwnedBy(board, line, p) == \A c \in line : board[c] = p

Owned(board) ==
  {i \in DOMAIN WIN_LINES : \E p \in Players : OwnedBy(board, WIN_LINES[i], p)}

\* The owner of the first line of WIN_LINES that has one.
FindWinner(board) ==
  IF Owned(board) = {} THEN None
  ELSE CHOOSE p \in Players : OwnedBy(board, WIN_LINES[Min(Owned(board))], p)

IsFull(board) == \A c \in Cells : board[c] # None

\* A mistake: a full board is a draw, whatever is on it.
DrawWhenFull(board) ==
  IF IsFull(board) THEN [winner |-> None, isDraw |-> TRUE]
  ELSE IF FindWinner(board) # None THEN [winner |-> FindWinner(board), isDraw |-> FALSE]
  ELSE None

ResultOf(board) ==
  IF FindWinner(board) # None THEN [winner |-> FindWinner(board), isDraw |-> FALSE]
  ELSE IF IsFull(board) THEN [winner |-> None, isDraw |-> TRUE]
  ELSE None

NextPlayer(userId) == CHOOSE p \in Players : p # userId

\* A mistake: the turn is not passed on.
MoveAgain(state, userId, cellId) == [state EXCEPT !.board[cellId] = userId]

\* applyMove(state, userId, action).state
ApplyMove(state, userId, cellId) ==
  [board           |-> [state.board EXCEPT ![cellId] = userId],
   currentPlayerId |-> NextPlayer(userId)]

\* The position reached by a list of stored moves (StoredMove[]).
Replay(moves) ==
  LET position[i \in 0..Len(moves)] ==
        IF i = 0 THEN InitialState
        ELSE ApplyMove(position[i - 1], moves[i].userId, moves[i].cellId)
  IN  position[Len(moves)]
=============================================================================
