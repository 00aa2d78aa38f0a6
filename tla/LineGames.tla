----------------------------- MODULE LineGames -----------------------------
(* pgx/board_games.h, TicTacToeEnv and ConnectFourEnv: the lines of the one are a table, *)
(* the board of the other is Rows by Cols.                                              *)
EXTENDS BoardGames

CONSTANTS
  Tried,                 \* the actions of TicTacToe that are tried even when they are illegal
  Rows, Cols, Length     \* 6, 7 and the 4 of HasWon

VARIABLES board, mask, color, currentPlayer, winner, reward, illegal, done
vars == <<board, mask, color, currentPlayer, winner, reward, illegal, done>>

\* The rewards by color are swapped unless the numbers of player and color agree.
PlayerRewardsOf(won, player, me) == IF player = me THEN WinnerRewards(won) ELSE WinnerRewards(1 - won)

\* The end of a step of either game: all are the actions, legal those that are left.
StepEnd(all, legal) ==
  /\ done' = (illegal' \/ winner' >= 0 \/ legal = {})
  /\ mask' = IF done' THEN all ELSE legal
  /\ reward' = IF illegal' THEN IllegalRewards(currentPlayer)
               ELSE IF winner' < 0 THEN Zero ELSE PlayerRewardsOf(winner', currentPlayer', color')

ColorOf(p) == IF p = currentPlayer THEN color ELSE 1 - color

\* The player who is paid is the one who plays the color me.
Paid(me) == \E p \in Players : ColorOf(p) = me /\ reward[p] = 1

----------------------------------------------------------------------------
(* TicTacToeEnv *)

Squares == 0..8

\* Mutation: a column is written twice.
TicTacToeLinesOneMissing ==
  {{0, 1, 2}, {3, 4, 5}, {6, 7, 8}, {0, 3, 6}, {1, 4, 7}, {0, 4, 8}, {2, 4, 6}}

TicTacToeLines ==
  {{0, 1, 2}, {3, 4, 5}, {6, 7, 8}, {0, 3, 6}, {1, 4, 7}, {2, 5, 8}, {0, 4, 8}, {2, 4, 6}}

TicTacToeInit ==
  /\ board = [c \in Squares |-> -1] /\ color = 0 /\ currentPlayer \in Coins /\ winner = -1
  /\ mask = Squares /\ reward = Zero /\ illegal = FALSE /\ done = FALSE

TicTacToeReset ==
  /\ board' = [c \in Squares |-> -1] /\ color' = 0 /\ currentPlayer' \in Coins /\ winner' = -1
  /\ mask' = Squares /\ reward' = Zero /\ illegal' = FALSE /\ done' = FALSE

\* An illegal action on the board still takes the cell over.
TicTacToeStep(a) ==
  /\ ~done
  /\ illegal' = (a \notin mask)
  /\ IF a \in Squares
     THEN /\ board' = [board EXCEPT ![a] = color]
          /\ winner' = IF \E line \in TicTacToeLines : \A c \in line : board'[c] = color THEN color ELSE -1
          /\ color' = 1 - color /\ currentPlayer' = 1 - currentPlayer
     ELSE UNCHANGED <<board, winner, color, currentPlayer>>
  /\ StepEnd(Squares, {c \in Squares : board'[c] < 0})

TicTacToeNext == TicTacToeReset \/ \E a \in mask \cup Tried : TicTacToeStep(a)

\* Three cells whose rows, or whose columns, are the same, or, on the diagonals, both
\* in step.
InLine(line) ==
  LET rows == {c \div 3 : c \in line}  cols == {c % 3 : c \in line}
      down == {(c \div 3) - (c % 3) : c \in line}  up == {(c \div 3) + (c % 3) : c \in line}
  IN  Cardinality(rows) = 1 \/ Cardinality(cols) = 1 \/ down = {0} \/ up = {2}

\* A color has three in line exactly when the episode ended with it, and the player
\* who is paid is the one who plays that color.
TicTacToeLineWins ==
  ~illegal => \A me \in Players :
    (\E line \in SUBSET {c \in Squares : board[c] = me} : Cardinality(line) = 3 /\ InLine(line))
      <=> done /\ Paid(me)

----------------------------------------------------------------------------
(* ConnectFourEnv *)

Columns == 0..(Cols - 1)
Cells == (0..(Rows - 1)) \X Columns
Filled(b, col) == {c \in Cells : c[2] = col /\ b[c] >= 0}

\* Mutation: one of the diagonals is not looked at.
HasWonOneDiagonal(b, me) ==
  \E c \in Cells, d \in {<<1, 0>>, <<0, 1>>, <<1, 1>>} :
    \A k \in 0..(Length - 1) : LET at == <<c[1] + d[1] * k, c[2] + d[2] * k>> IN at \in Cells /\ b[at] = me

HasWon(b, me) ==
  \E c \in Cells, d \in {<<1, 0>>, <<0, 1>>, <<1, 1>>, <<1, -1>>} :
    \A k \in 0..(Length - 1) : LET at == <<c[1] + d[1] * k, c[2] + d[2] * k>> IN at \in Cells /\ b[at] = me

\* The disc falls on the others of its column; in a full one nothing happens.
Dropped(b, col, me) ==
  LET row == Rows - 1 - Cardinality(Filled(b, col))
  IN  IF row >= 0 THEN [b EXCEPT ![<<row, col>>] = me] ELSE b

LegalColumns(b) == {col \in Columns : Cardinality(Filled(b, col)) < Rows}

ConnectFourInit ==
  /\ board = [c \in Cells |-> -1] /\ color = 0 /\ currentPlayer \in Coins /\ winner = -1
  /\ mask = Columns /\ reward = Zero /\ illegal = FALSE /\ done = FALSE

ConnectFourReset ==
  /\ board' = [c \in Cells |-> -1] /\ color' = 0 /\ currentPlayer' \in Coins /\ winner' = -1
  /\ mask' = Columns /\ reward' = Zero /\ illegal' = FALSE /\ done' = FALSE

ConnectFourStep(a) ==
  /\ ~done
  /\ illegal' = (a \notin mask)
  /\ IF a \in Columns
     THEN /\ board' = Dropped(board, a, color)
          /\ winner' = IF HasWon(board', color) THEN color ELSE -1
          /\ color' = 1 - color /\ currentPlayer' = 1 - currentPlayer
     ELSE UNCHANGED <<board, winner, color, currentPlayer>>
  /\ StepEnd(Columns, LegalColumns(board'))

ConnectFourNext == ConnectFourReset \/ \E a \in -1..(Cols - 1) : ConnectFourStep(a)

\* Length cells in one of the eight directions from c.
Lines == {{<<c[1] + d[1] * k, c[2] + d[2] * k>> : k \in 0..(Length - 1)} :
            c \in Cells, d \in ((-1..1) \X (-1..1)) \ {<<0, 0>>}}

\* The same for the lines of ConnectFour.
ConnectFourLineWins ==
  ~illegal => \A me \in Players :
    (\E line \in Lines : line \subseteq Cells /\ \A c \in line : board[c] = me) <=> done /\ Paid(me)
=============================================================================
