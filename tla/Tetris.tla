------------------------------- MODULE Tetris -------------------------------
(* jumanji/tetris_env.h: 2 x 2 squares are put into the lowest gap that holds them
   and full rows are cleared.  Replayed and configured episodes are left out. *)
EXTENDS Integers, FiniteSets, Sequences, SequencesExt

CONSTANTS Rows, Cols, TimeLimit     \* kRows, kCols, kTimeLimit

VARIABLES grid, stepCount, reward, done     \* grid[r] = the columns filled in row r
vars == <<grid, stepCount, reward, done>>

Empty == [r \in 1..Rows |-> {}]
Columns == 0..(Cols - 1)

\* The highest row with no collision, counted from the bottom: the lowest gap.
DropRow(g, col) ==
  LET fits == {r \in 1..(Rows - 1) : \A q \in {r, r + 1} : g[q] \cap {col, col + 1} = {}}
  IN  IF col + 1 < Cols /\ fits # {} THEN CHOOSE r \in fits : \A q \in fits : q <= r ELSE 0
CanPlace(g, col) == DropRow(g, col) > 0
HasValidPlacement(g) == \E col \in Columns : CanPlace(g, col)

Place(g, col) ==
  LET r == DropRow(g, col)
  IN  [q \in 1..Rows |-> IF q \in {r, r + 1} THEN g[q] \cup {col, col + 1} ELSE g[q]]

Pulled(g, r) == <<{}>> \o RemoveAt(g, r)    \* the rows above come down, and row 0 is emptied

\* Mutation: after a row was cleared the one pulled into its place is not looked at.
ScanSkipping(s) ==
  IF s.row = 0 THEN s
  ELSE IF s.grid[s.row] # Columns THEN [s EXCEPT !.row = @ - 1]
  ELSE [grid |-> Pulled(s.grid, s.row), cleared |-> s.cleared + 1, row |-> s.row - 1]

\* Mutation: however many rows are cleared, one is counted.
ScanCountOne(s) ==
  IF s.row = 0 THEN s
  ELSE IF s.grid[s.row] # Columns THEN [s EXCEPT !.row = @ - 1]
  ELSE [s EXCEPT !.grid = Pulled(@, s.row), !.cleared = 1]

\* One turn of the loop of ClearFullRows; row 0 is the end.
Scan(s) ==
  IF s.row = 0 THEN s
  ELSE IF s.grid[s.row] # Columns THEN [s EXCEPT !.row = @ - 1]
  ELSE [s EXCEPT !.grid = Pulled(@, s.row), !.cleared = @ + 1]

\* A row is left after at most as many turns as there are rows, and one for each it clears.
ClearFullRows(g) ==
  FoldLeft(LAMBDA s, turn : Scan(s), [grid |-> g, cleared |-> 0, row |-> Rows], [turn \in 1..(2 * Rows) |-> turn])

Init == grid = Empty /\ stepCount = 0 /\ reward = 0 /\ done = FALSE

Reset == grid' = Empty /\ stepCount' = 0 /\ reward' = 0 /\ done' = FALSE

Step(col) ==
  LET valid == CanPlace(grid, col)
      after == ClearFullRows(Place(grid, col))
  IN  /\ ~done
      /\ grid' = IF valid THEN after.grid ELSE grid
      /\ reward' = IF valid THEN after.cleared ELSE -1
      /\ stepCount' = stepCount + 1
      /\ done' = (~valid \/ ~HasValidPlacement(grid') \/ stepCount' >= TimeLimit)

Next == Reset \/ \E col \in Columns : Step(col)

----------------------------------------------------------------------------
\* No full row is left by the scan, which pulls the rows down under its own index.
NoFullRow == \A r \in 1..Rows : grid[r] # Columns

\* A valid step adds a square, and takes away one row for each point it pays.
Filled(g) == Cardinality({c \in (1..Rows) \X Columns : c[2] \in g[c[1]]})
RowsPaid ==
  stepCount' = stepCount + 1 /\ reward' # -1 =>
    Filled(grid') = Filled(grid) + 4 - Cols * reward'
============================================================================
