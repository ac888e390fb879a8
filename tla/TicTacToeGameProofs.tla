------------------------ MODULE TicTacToeGameProofs -------------------------
(***************************************************************************)
(* The engine is right on every finite board with any lines: players take  *)
(* turns, and the result is that of a definition which knows no order of   *)
(* the lines.                                                              *)
(***************************************************************************)
EXTENDS TicTacToeGame, FiniteSetTheorems, WellFoundedInduction, TLAPS

-----------------------------------------------------------------------------
\* The first line that has an owner

LEMMA LessIsWellFounded ==
  \E R : IsWellFoundedOn(R, Nat) /\ R = {pair \in Nat \X Nat : pair[1] < pair[2]}
<1>1. OpToRel(<, Nat) = {pair \in Nat \X Nat : pair[1] < pair[2]}
  BY Zenon DEF OpToRel
<1> QED
  BY <1>1, NatLessThanWellFounded, Zenon

LEMMA MinOfNaturals ==
  ASSUME NEW T, T \subseteq Nat, T # {}
  PROVE  Min(T) \in T
<1>1. PICK R : IsWellFoundedOn(R, Nat) /\ R = {pair \in Nat \X Nat : pair[1] < pair[2]}
  BY LessIsWellFounded
<1>2. PICK n \in T : \A m \in T : ~(<<m, n>> \in R)
  BY <1>1, WFMin
<1>3. ASSUME NEW m \in T PROVE n <= m
  <2>1. n \in Nat /\ m \in Nat /\ ~(<<m, n>> \in R)
    BY <1>2
  <2>2. m < n => <<m, n>> \in R
    BY <1>1, <2>1
  <2> QED
    BY <2>1, <2>2
<1> QED
  BY <1>3 DEF Min

LineOf(board, p) == \E i \in DOMAIN WIN_LINES : OwnedBy(board, WIN_LINES[i], p)

OneWinner(board) == ~(LineOf(board, PlayerX) /\ LineOf(board, PlayerO))

\* Where one player at most has a line, the first line found is as good as any.
LEMMA WinnerHasLine ==
  ASSUME NEW board, OneWinner(board)
  PROVE  /\ \A p \in Players : LineOf(board, p) => FindWinner(board) = p
         /\ (\A p \in Players : ~LineOf(board, p)) => FindWinner(board) = None
<1>1. CASE Owned(board) = {}
  BY <1>1 DEF Owned, LineOf, FindWinner
<1>2. CASE Owned(board) # {}
  <2>1. Owned(board) \subseteq Nat
    BY LinesOnBoard DEF Owned
  <2>2. PICK i \in Owned(board) : i = Min(Owned(board))
    BY <1>2, <2>1, MinOfNaturals
  <2>3. PICK q \in Players : OwnedBy(board, WIN_LINES[i], q)
    BY DEF Owned
  <2>4. FindWinner(board) \in Players /\ OwnedBy(board, WIN_LINES[i], FindWinner(board))
    BY <1>2, <2>2, <2>3 DEF FindWinner
  <2>5. LineOf(board, FindWinner(board))
    BY <2>4 DEF LineOf, Owned
  <2> QED
    BY <2>4, <2>5 DEF OneWinner, Players
<1> QED
  BY <1>1, <1>2

LEMMA ResultsAreObjects ==
  /\ \A p \in Players : [winner |-> p, isDraw |-> FALSE] # None
  /\ [winner |-> None, isDraw |-> TRUE] # None
<1>1. FALSE \in BOOLEAN /\ TRUE \in BOOLEAN
  OBVIOUS
<1>2. \A p \in Players :
        [winner |-> p, isDraw |-> FALSE] \in [winner : Players \cup {None}, isDraw : BOOLEAN]
  BY <1>1
<1>3. [winner |-> None, isDraw |-> TRUE] \in [winner : Players \cup {None}, isDraw : BOOLEAN]
  BY <1>1
<1> QED
  BY <1>2, <1>3, NoneIsNoObject

LEMMA ResultOfIsRight ==
  ASSUME NEW board, OneWinner(board)
  PROVE  /\ \A p \in Players : LineOf(board, p) <=> ResultOf(board) = [winner |-> p, isDraw |-> FALSE]
         /\ ResultOf(board) = None <=> ~IsFull(board) /\ \A p \in Players : ~LineOf(board, p)
<1>1. ASSUME NEW p \in Players, LineOf(board, p)
      PROVE  ResultOf(board) = [winner |-> p, isDraw |-> FALSE]
  BY <1>1, WinnerHasLine, PlayersDiffer DEF ResultOf, Players
<1>2. CASE \A p \in Players : ~LineOf(board, p)
  <2>1. ResultOf(board) = IF IsFull(board) THEN [winner |-> None, isDraw |-> TRUE] ELSE None
    BY <1>2, WinnerHasLine DEF ResultOf
  <2>2. \A p \in Players : [winner |-> p, isDraw |-> FALSE] # None
    BY ResultsAreObjects
  <2>3. [winner |-> None, isDraw |-> TRUE] # None
    BY ResultsAreObjects
  <2>4. \A p : [winner |-> p, isDraw |-> FALSE] # [winner |-> None, isDraw |-> TRUE]
    <3> SUFFICES ASSUME NEW p PROVE [winner |-> p, isDraw |-> FALSE].isDraw # [winner |-> None, isDraw |-> TRUE].isDraw
      OBVIOUS
    <3> QED
      OBVIOUS
  <2> QED
    BY <1>2, <2>1, <2>2, <2>3, <2>4
<1>3. CASE \E p \in Players : LineOf(board, p)
  <2>1. PICK p \in Players : LineOf(board, p)
    BY <1>3
  <2>2. ResultOf(board) = [winner |-> p, isDraw |-> FALSE]
    BY <1>1, <2>1
  <2>3. [winner |-> p, isDraw |-> FALSE] # None
    BY ResultsAreObjects
  <2>4. \A q \in Players : [winner |-> q, isDraw |-> FALSE] = [winner |-> p, isDraw |-> FALSE] => q = p
    OBVIOUS
  <2> QED
    BY <1>1, <2>1, <2>2, <2>3, <2>4
<1> QED
  BY <1>2, <1>3

-----------------------------------------------------------------------------
\* One move

MarksOn(board, p) == Cardinality({c \in Cells : board[c] = p})

\* A mark only makes lines for the player who makes it.
LEMMA MarkMakesLines ==
  ASSUME NEW board \in Boards, NEW u \in Players, NEW c \in Cells,
         NEW p \in Players, p # u, LineOf([board EXCEPT ![c] = u], p)
  PROVE  LineOf(board, p)
<1>1. PICK i \in DOMAIN WIN_LINES : OwnedBy([board EXCEPT ![c] = u], WIN_LINES[i], p)
  BY DEF LineOf
<1>2. WIN_LINES[i] \subseteq Cells
  BY LinesOnBoard
<1>3. \A d \in WIN_LINES[i] : board[d] = p
  BY <1>1, <1>2 DEF OwnedBy, Boards
<1> QED
  BY <1>3 DEF LineOf, OwnedBy

LEMMA MarksCounted ==
  ASSUME NEW board \in Boards, NEW u \in Players, NEW c \in Cells, board[c] = None,
         NEW p \in Players
  PROVE  /\ MarksOn(board, p) \in Nat
         /\ MarksOn([board EXCEPT ![c] = u], p) = MarksOn(board, p) + (IF p = u THEN 1 ELSE 0)
<1> DEFINE before == {d \in Cells : board[d] = p}
           after == {d \in Cells : [board EXCEPT ![c] = u][d] = p}
<1>1. IsFiniteSet(before)
  <2>1. before \subseteq Cells
    OBVIOUS
  <2> HIDE DEF before
  <2> QED
    BY <2>1, CellsFinite, FS_Subset
<1>2. after = IF p = u THEN before \cup {c} ELSE before
  BY PlayersDiffer DEF Boards, Players
<1>3. c \notin before
  BY PlayersDiffer DEF Players
<1> HIDE DEF before, after
<1>4. Cardinality(before) \in Nat
  BY <1>1, FS_CardinalityType
<1>5. Cardinality(before \cup {c}) = Cardinality(before) + 1
  BY <1>1, <1>3, FS_AddElement
<1>6. Cardinality(after) = Cardinality(before) + (IF p = u THEN 1 ELSE 0)
  BY <1>2, <1>4, <1>5
<1> QED
  BY <1>4, <1>6 DEF MarksOn, before, after

InTurn(s) ==
  /\ MarksOn(s.board, PlayerX) - MarksOn(s.board, PlayerO) \in {0, 1}
  /\ s.currentPlayerId = PlayerX <=> MarksOn(s.board, PlayerX) = MarksOn(s.board, PlayerO)

\* A position of a game that goes as it should.
Good(s) == s \in States /\ OneWinner(s.board) /\ InTurn(s)

LEMMA InitialIsGood == Good(InitialState) /\ ResultOf(InitialState.board) = None
<1> DEFINE board == InitialState.board
<1>1. /\ InitialState \in States /\ InitialState.currentPlayerId = PlayerX
      /\ \A c \in Cells : board[c] = None
  BY DEF InitialState, States, Boards, Players
<1>2. \A p \in Players : ~LineOf(board, p)
  BY <1>1, LinesOnBoard, PlayersDiffer DEF LineOf, OwnedBy, Players
<1>3. OneWinner(board) /\ ~IsFull(board)
  BY <1>1, <1>2, CellsFinite DEF OneWinner, IsFull, Players
<1>4. \A p \in Players : MarksOn(board, p) = 0
  <2> SUFFICES ASSUME NEW p \in Players PROVE MarksOn(board, p) = 0
    OBVIOUS
  <2>1. {c \in Cells : board[c] = p} = {}
    BY <1>1, PlayersDiffer DEF Players
  <2>2. Cardinality({}) = 0
    BY FS_EmptySet
  <2> QED
    BY <2>1, <2>2 DEF MarksOn
<1>5. InTurn(InitialState)
  BY <1>1, <1>4 DEF InTurn, Players
<1>6. ResultOf(board) = None
  BY <1>2, <1>3, ResultOfIsRight
<1> QED
  BY <1>1, <1>3, <1>5, <1>6 DEF Good

LEMMA MoveIsGood ==
  ASSUME NEW s, Good(s), ResultOf(s.board) = None, NEW u, NEW c, IsValidMove(s, u, c)
  PROVE  Good(ApplyMove(s, u, c))
<1> DEFINE board == [s.board EXCEPT ![c] = u]
           next == ApplyMove(s, u, c)
<1>1. /\ s.board \in Boards /\ u \in Players /\ c \in Cells /\ s.board[c] = None
      /\ s.currentPlayerId = u
  BY DEF Good, States, IsValidMove
<1>2. next.board = board /\ next.currentPlayerId = NextPlayer(u)
  BY DEF ApplyMove
<1>3. NextPlayer(u) \in Players /\ NextPlayer(u) # u
  BY <1>1, PlayersDiffer DEF NextPlayer, Players
<1>4. board \in Boards
  BY <1>1 DEF Boards
<1>5. next \in States
  BY <1>3, <1>4 DEF ApplyMove, States
<1>6. \A p \in Players : ~LineOf(s.board, p)
  BY ResultOfIsRight DEF Good
<1>7. OneWinner(board)
  <2>1. \A p \in Players : LineOf(board, p) => p = u
    BY <1>1, <1>6, MarkMakesLines
  <2> QED
    BY <2>1, PlayersDiffer DEF OneWinner, Players
<1>8. InTurn(next)
  <2>1. PICK x \in Nat, o \in Nat : x = MarksOn(s.board, PlayerX) /\ o = MarksOn(s.board, PlayerO)
    BY <1>1, MarksCounted DEF Players
  <2>2. /\ MarksOn(board, PlayerX) = x + (IF PlayerX = u THEN 1 ELSE 0)
        /\ MarksOn(board, PlayerO) = o + (IF PlayerO = u THEN 1 ELSE 0)
    BY <1>1, <2>1, MarksCounted DEF Players
  <2>3. x - o \in {0, 1} /\ (u = PlayerX <=> x = o)
    BY <1>1, <2>1 DEF Good, InTurn
  <2>4. u = PlayerX \/ u = PlayerO
    BY <1>1 DEF Players
  <2>5. NextPlayer(u) = IF u = PlayerX THEN PlayerO ELSE PlayerX
    BY <1>3, <2>4 DEF Players
  <2> HIDE DEF next, board
  <2>6. CASE u = PlayerX
    BY <1>2, <2>1, <2>2, <2>3, <2>5, <2>6, PlayersDiffer DEF InTurn
  <2>7. CASE u = PlayerO
    BY <1>2, <2>1, <2>2, <2>3, <2>5, <2>7, PlayersDiffer DEF InTurn
  <2> QED
    BY <2>4, <2>6, <2>7
<1> HIDE DEF next, board
<1>9. Good(next)
  BY <1>2, <1>5, <1>7, <1>8 DEF Good
<1> QED
  BY <1>9 DEF next

-----------------------------------------------------------------------------

\* TurnsAlternate and ResultIsRight hold of good positions whose result is that of their
\* board.
GInv ==
  IF Playing THEN Good(state) /\ result = ResultOf(state.board) ELSE result = None

LEMMA GInitOK == Init => GInv
BY InitialIsGood, NoPositions DEF Init, GInv, Good, Playing

LEMMA GNextOK == GInv /\ [Next]_vars => GInv'
<1> SUFFICES ASSUME GInv, [Next]_vars PROVE GInv'
  OBVIOUS
<1>1. CASE Begin
  BY <1>1, InitialIsGood, NoPositions DEF Begin, GInv, Playing
<1>2. ASSUME NEW u \in Players, NEW c \in CellIds, Move(u, c) PROVE GInv'
  <2>1. Good(state) /\ ResultOf(state.board) = None /\ IsValidMove(state, u, c)
    BY <1>2 DEF Move, GInv, Playing
  <2>2. Good(state') /\ result' = ResultOf(state'.board)
    BY <1>2, <2>1, MoveIsGood DEF Move
  <2> QED
    BY <2>2, NoPositions DEF GInv, Playing, Good
<1>3. CASE Lose
  BY <1>3, NoPositions DEF Lose, GInv, Playing
<1>4. CASE Over \/ UNCHANGED vars
  BY <1>4 DEF Over, vars, GInv, Playing
<1> QED
  BY <1>1, <1>2, <1>3, <1>4 DEF Next

LEMMA GameInvariant == Spec => []GInv
BY GInitOK, GNextOK, PTL DEF Spec

\* On every board the players take turns: X begins, and who is behind moves
\* (ttt.engine.ts:52, 69).
THEOREM TurnsAlwaysAlternate == Spec => []TurnsAlternate
<1>1. GInv => TurnsAlternate
  BY DEF GInv, Good, InTurn, TurnsAlternate, Marks, MarksOn
<1> QED
  BY <1>1, GameInvariant, PTL

\* For every board and any lines, overlapping ones included, the result is
\* right: one player at most has a line, and it is the winner; a full board
\* without a line is a draw, and otherwise the game goes on
\* (ttt.engine.ts:67-82).
THEOREM ResultAlwaysRight == Spec => []ResultIsRight
<1>1. GInv => ResultIsRight
  <2> SUFFICES ASSUME GInv, Playing
               PROVE  /\ ~(HasLine(PlayerX) /\ HasLine(PlayerO))
                      /\ \A p \in Players : HasLine(p) <=> result = [winner |-> p, isDraw |-> FALSE]
                      /\ result = None <=>
                           ~IsFull(state.board) /\ \A p \in Players : ~HasLine(p)
    BY DEF ResultIsRight
  <2>1. \A p : HasLine(p) <=> LineOf(state.board, p)
    BY DEF HasLine, LineOf
  <2>2. OneWinner(state.board) /\ result = ResultOf(state.board)
    BY DEF GInv, Good
  <2>3. /\ \A p \in Players : LineOf(state.board, p) <=> result = [winner |-> p, isDraw |-> FALSE]
        /\ result = None <=> ~IsFull(state.board) /\ \A p \in Players : ~LineOf(state.board, p)
    BY <2>2, ResultOfIsRight
  <2> QED
    BY <2>1, <2>2, <2>3 DEF OneWinner
<1> QED
  BY <1>1, GameInvariant, PTL
=============================================================================
