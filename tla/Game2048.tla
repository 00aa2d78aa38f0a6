------------------------------ MODULE Game2048 ------------------------------
(***************************************************************************)
(* jumanji/game2048_env.h: the board of exponents, the move of a line, the *)
(* random cell, and when the game is over.  Replayed boards are left out.  *)
(***************************************************************************)
EXTENDS Integers, FiniteSets, Sequences, FiniteSetsExt, SequencesExt

CONSTANTS
  BoardSize,       \* kBoardSize
  InitialBoards,   \* values of game2048_initial_board; <<>> is the empty string
  RandomCell       \* values of game2048_add_random_cell

VARIABLES initialBoard, addRandomCell, board, reward, done
vars == <<initialBoard, addRandomCell, board, reward, done>>

Index == 0..(BoardSize - 1)
Cells == Index \X Index
Actions == 0..3

Tile(v, made) == [tile |-> v, made |-> made]

\* Mutation: a tile that was just made merges again.
MergeAgain(in) ==
  FoldLeft(LAMBDA out, v : IF out # <<>> /\ Last(out).tile = v
                           THEN Append(Front(out), Tile(v + 1, TRUE)) ELSE Append(out, Tile(v, FALSE)),
           <<>>, in)

\* From the left, a tile merges with an equal neighbour that was not just made.
Merge(in) ==
  FoldLeft(LAMBDA out, v : IF out # <<>> /\ Last(out).tile = v /\ ~Last(out).made
                           THEN Append(Front(out), Tile(v + 1, TRUE)) ELSE Append(out, Tile(v, FALSE)),
           <<>>, in)

MoveLineLeft(line) == Merge(SelectSeq(line, LAMBDA v : v # 0))

\* Where a cell is in a move: its line, and its place from the edge the tiles go
\* to (up, right, down, left).  CellAt is the inverse.
LineOf(action, c) == IF action \in {0, 2} THEN c[2] ELSE c[1]
PlaceOf(action, c) ==
  LET k == IF action \in {0, 2} THEN c[1] ELSE c[2]
  IN  IF action \in {0, 3} THEN k + 1 ELSE BoardSize - k
CellAt(action, i, k) ==
  LET j == IF action \in {0, 3} THEN k - 1 ELSE BoardSize - k
  IN  IF action \in {0, 2} THEN <<j, i>> ELSE <<i, j>>

Moved(b, action) ==
  [i \in Index |-> MoveLineLeft([k \in 1..BoardSize |-> b[CellAt(action, i, k)]])]
Move(b, action) ==
  LET lines == Moved(b, action)
  IN  [c \in Cells |-> LET line == lines[LineOf(action, c)]
                           k == PlaceOf(action, c)
                       IN  IF k <= Len(line) THEN line[k].tile ELSE 0]
\* Mutation: a merge is paid as one of the tiles that were merged.
RewardOfOneTile(b, action) ==
  LET lines == Moved(b, action)
  IN  MapThenSumSet(LAMBDA p : 2 ^ (lines[p[1]][p[2]].tile - 1),
        {p \in Index \X (1..BoardSize) : p[2] <= Len(lines[p[1]]) /\ lines[p[1]][p[2]].made})

Reward(b, action) ==
  LET lines == Moved(b, action)
  IN  MapThenSumSet(LAMBDA p : 2 ^ lines[p[1]][p[2]].tile,
        {p \in Index \X (1..BoardSize) : p[2] <= Len(lines[p[1]]) /\ lines[p[1]][p[2]].made})

CanMove(b, action) == Move(b, action) # b

\* Mutation: a full board is stuck.
NoEmptyCell(b) == \E c \in Cells : b[c] = 0
AnyActionAvailable(b) == \E action \in Actions : CanMove(b, action)

\* A 1 or a 2 in some empty cell, if there is one.
AddRandomCell(b) ==
  LET empty == {c \in Cells : b[c] = 0}
  IN  IF empty = {} THEN {b} ELSE {[b EXCEPT ![c] = v] : c \in empty, v \in {1, 2}}

Starts ==
  IF initialBoard # <<>> THEN {initialBoard} ELSE AddRandomCell([c \in Cells |-> 0])

Init ==
  /\ initialBoard \in InitialBoards /\ addRandomCell \in RandomCell
  /\ board \in Starts
  /\ reward = 0 /\ done = ~AnyActionAvailable(board)

Reset ==
  /\ board' \in Starts
  /\ reward' = 0 /\ done' = ~AnyActionAvailable(board')
  /\ UNCHANGED <<initialBoard, addRandomCell>>

Step(action) ==
  /\ ~done
  /\ IF CanMove(board, action)
     THEN LET moved == Move(board, action)
          IN  /\ reward' = Reward(board, action)
              /\ board' \in IF addRandomCell THEN AddRandomCell(moved) ELSE {moved}
     ELSE reward' = 0 /\ UNCHANGED board
  /\ done' = ~AnyActionAvailable(board')
  /\ UNCHANGED <<initialBoard, addRandomCell>>

Next == Reset \/ \E action \in Actions : Step(action)

----------------------------------------------------------------------------
\* Any step but those that look like a reset.
Stepped == ~(reward' = 0 /\ board' \in Starts)

Count(b, v) == Cardinality({c \in Cells : b[c] = v})
Total(b) == MapThenSumSet(LAMBDA c : 2 ^ b[c], {c \in Cells : b[c] > 0})
Score(b) == MapThenSumSet(LAMBDA c : (b[c] - 1) * 2 ^ b[c], {c \in Cells : b[c] > 0})

\* The rewards are the score of the board: merging keeps the sum of the tiles and
\* pays what the tiles that were made are worth, and nothing is paid for the
\* random cell.
RewardIsScore ==
  LET added == Total(board') - Total(board)
  IN  Stepped =>
        /\ added \in {0, 2, 4}
        /\ reward' = Score(board') - Score(board) - (IF added = 4 THEN 4 ELSE 0)

\* A tile that a move made is not merged again in that move: of each value, no
\* more than the tiles that were there before are merged.
TilesMergeOnce ==
  LET new(v) == IF Total(board') - Total(board) = 2 ^ v THEN 1 ELSE 0
      Merged[v \in Nat] ==    \* pairs of tiles v that were merged
        IF v = 0 THEN 0
        ELSE (Count(board, v) + Merged[v - 1] + (IF v \in {1, 2} THEN new(v) ELSE 0) - Count(board', v)) \div 2
  IN  Stepped =>
        \A c \in Cells : board[c] > 0 => 2 * Merged[board[c]] <= Count(board, board[c])

\* The episode ends exactly when the board is full and no two neighbours are equal.
DoneIsStuck ==
  done <=> /\ \A c \in Cells : board[c] # 0
           /\ \A c, d \in Cells : d \in {<<c[1], c[2] + 1>>, <<c[1] + 1, c[2]>>} => board[c] # board[d]
=============================================================================
