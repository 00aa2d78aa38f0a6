---------------------------- MODULE SlidingTile ----------------------------
(* jumanji/sliding_tile_puzzle_env.h: the puzzle is made by a random walk from the
   solved one. *)
EXTENDS Integers, FiniteSets, Sequences

CONSTANTS
  Rows, Cols,    \* kGridSize
  WalkLength,    \* the moves of RandomWalk in Reset
  TimeLimit      \* kTimeLimit

VARIABLES puzzle, empty, stepCount, reward, done
vars == <<puzzle, empty, stepCount, reward, done>>

Cells == (0..(Rows - 1)) \X (0..(Cols - 1))
InGrid(c) == c \in Cells
Actions == 0..3
Moves == <<<<-1, 0>>, <<0, 1>>, <<1, 0>>, <<0, -1>>>>
Beside(c, a) == <<c[1] + Moves[a + 1][1], c[2] + Moves[a + 1][2]>>

Offset(c) == c[1] * Cols + c[2]
Corner == <<Rows - 1, Cols - 1>>
SolvedPuzzle == [c \in Cells |-> IF c = Corner THEN 0 ELSE Offset(c) + 1]

\* Mutation: a move off the grid comes back on the other side.
ApplyMoveWrapping(s, a) ==
  LET to == <<Beside(s.empty, a)[1] % Rows, Beside(s.empty, a)[2] % Cols>>
  IN  [puzzle |-> [s.puzzle EXCEPT ![s.empty] = s.puzzle[to], ![to] = 0], empty |-> to]

ApplyMove(s, a) ==
  LET to == Beside(s.empty, a)
  IN  IF ~InGrid(to) THEN s
      ELSE [puzzle |-> [s.puzzle EXCEPT ![s.empty] = s.puzzle[to], ![to] = s.puzzle[s.empty]],
            empty |-> to]

\* Where RandomWalk can be after n moves: each one is drawn from the valid ones.
Walk[n \in Nat] ==
  IF n = 0 THEN {[puzzle |-> SolvedPuzzle, empty |-> Corner]}
  ELSE UNION {{ApplyMove(s, a) : a \in {b \in Actions : InGrid(Beside(s.empty, b))}} : s \in Walk[n - 1]}

Init ==
  /\ \E s \in Walk[WalkLength] : puzzle = s.puzzle /\ empty = s.empty
  /\ stepCount = 0 /\ reward = 0 /\ done = (puzzle = SolvedPuzzle)

Reset ==
  /\ \E s \in Walk[WalkLength] : puzzle' = s.puzzle /\ empty' = s.empty
  /\ stepCount' = 0 /\ reward' = 0 /\ done' = (puzzle' = SolvedPuzzle)

DenseReward(before, after) ==
  Cardinality({c \in Cells : after[c] = SolvedPuzzle[c] /\ before[c] # SolvedPuzzle[c]})
  - Cardinality({c \in Cells : after[c] # SolvedPuzzle[c] /\ before[c] = SolvedPuzzle[c]})

Step(a) ==
  LET s == ApplyMove([puzzle |-> puzzle, empty |-> empty], a)
  IN  /\ ~done
      /\ puzzle' = s.puzzle /\ empty' = s.empty
      /\ stepCount' = stepCount + 1
      /\ reward' = DenseReward(puzzle, puzzle')
      /\ done' = (puzzle' = SolvedPuzzle \/ stepCount' >= TimeLimit)

Next == Reset \/ \E a \in Actions : Step(a)

----------------------------------------------------------------------------
\* Every puzzle met can be solved, which is a fact about the parity of the
\* permutation and the distance of the empty cell, and the cell kept in
\* empty_row_ and empty_col_ is the one that is empty.
Solvable ==
  LET inversions == {p \in Cells \X Cells : /\ Offset(p[1]) < Offset(p[2])
                                            /\ puzzle[p[1]] > puzzle[p[2]]}
      distance == (Rows - 1 - empty[1]) + (Cols - 1 - empty[2])
      solvedInversions == Cardinality(Cells) - 1
  IN  /\ {c \in Cells : puzzle[c] = 0} = {empty}
      /\ (Cardinality(inversions) + distance) % 2 = solvedInversions % 2
============================================================================
