----------------------------- MODULE MCTicTacToe -----------------------------
\* The board of ttt.engine.ts:18-27.
EXTENDS TicTacToeGame

RealCells == 0..8

RealLines ==
  << {0, 1, 2}, {3, 4, 5}, {6, 7, 8},
     {0, 3, 6}, {1, 4, 7}, {2, 5, 8},
     {0, 4, 8}, {2, 4, 6} >>
=============================================================================
