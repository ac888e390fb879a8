---------------------------- MODULE MCGameService ----------------------------
\* Three cells and one line: a game ends with a win or a draw by the third move,
\* and overlapping calls on two games of one room stay within reach.
EXTENDS GameService

SmallCells == 0..2

SmallLines == << {0, 1} >>

FourEnvironments == {{}, {"room"}, {"failure", "room"}, {"overlap"}}

Symmetry == Permutations(Calls)
=============================================================================
