---------------------------- MODULE Minesweeper ----------------------------
(* jumanji/minesweeper_env.h: revealing a cell opens its whole region.  Replayed
   boards are left out. *)
EXTENDS Integers, FiniteSets, Sequences

CONSTANTS Rows, Cols, NumMines    \* kRows, kCols, num_mines_

VARIABLES board, mines, reward, done
vars == <<board, mines, reward, done>>

Cells == (0..(Rows - 1)) \X (0..(Cols - 1))

Unexplored == -1
Around(c) == {d \in Cells : d # c /\ d[1] - c[1] \in -1..1 /\ d[2] - c[2] \in -1..1}
CountAdjacentMines(c) == Cardinality(Around(c) \cap mines)

Layouts == {m \in SUBSET Cells : Cardinality(m) = NumMines}

Init ==
  /\ board = [c \in Cells |-> Unexplored] /\ mines \in Layouts
  /\ reward = 0 /\ done = FALSE

Reset ==
  /\ board' = [c \in Cells |-> Unexplored] /\ mines' \in Layouts
  /\ reward' = 0 /\ done' = FALSE

\* Mutation: a cell next to a mine opens its neighbours as well.
IsOpenGroundUnlessMine(c) == c \notin mines
\* Mutation: only the clicked cell is opened.
IsOpenGroundNever(c) == FALSE

IsOpenGround(c) == c \notin mines /\ CountAdjacentMines(c) = 0

\* The cells the frontier reaches from s: open ground puts its unexplored
\* neighbours on the queue.
Reached[s \in SUBSET Cells] ==
  LET more == {d \in Cells \ s : board[d] = Unexplored
                                 /\ \E c \in s : d \in Around(c) /\ IsOpenGround(c)}
  IN  IF more = {} THEN s ELSE Reached[s \cup more]

Reveal(c) ==
  LET opened == Reached[{c}]
  IN  [d \in Cells |-> IF d \in opened THEN CountAdjacentMines(d) ELSE board[d]]

\* Mutation: the mines are not subtracted.
IsSolvedAllCells(b) == \A c \in Cells : b[c] # Unexplored
IsSolved(b) == Cardinality({c \in Cells : b[c] # Unexplored}) = Cardinality(Cells) - NumMines

Step(c) ==
  LET valid == board[c] = Unexplored
      hitMine == c \in mines
  IN  /\ ~done
      /\ board' = IF valid THEN Reveal(c) ELSE board
      /\ reward' = IF valid /\ ~hitMine THEN 1 ELSE 0
      /\ done' = (~valid \/ hitMine \/ IsSolved(board'))
      /\ UNCHANGED mines

Next == Reset \/ \E c \in Cells : Step(c)

----------------------------------------------------------------------------
\* A region is opened as a whole and no further: each cell shown has its own
\* count, has only cells shown around it when the count is 0, and otherwise was
\* clicked or borders such a cell; so no mine is shown before the end.
RegionsAreOpen ==
  LET shown == {c \in Cells : board[c] # Unexplored}
  IN  /\ \A c \in shown : board[c] = CountAdjacentMines(c)
      /\ \A c \in shown \ mines : board[c] = 0 => Around(c) \subseteq shown
      /\ ~done => shown \cap mines = {}

\* Cells are only opened, and those a step opens besides the clicked one each
\* border opened ground.
OnlyRegionsOpen ==
  LET opened == {c \in Cells : board[c] = Unexplored /\ board'[c] # Unexplored}
      edge == {c \in opened : \A d \in Around(c) \cap opened : board'[d] # 0 \/ d \in mines'}
  IN  mines' = mines => Cardinality(edge) <= 1

\* The count of shown cells, which does not look at the mines, finds the end: an
\* episode goes on exactly as long as a safe cell is hidden and no mine was hit,
\* unless a shown cell was clicked, which earns nothing.
EndsWhenSafeCellsShown ==
  LET shown == {c \in Cells : board[c] # Unexplored}
  IN  /\ ~done => ~(Cells \ mines \subseteq shown)
      /\ done /\ reward = 1 => shown = Cells \ mines
============================================================================
