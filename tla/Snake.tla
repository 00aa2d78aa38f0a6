------------------------------- MODULE Snake -------------------------------
(* jumanji/snake_env.h: the body as a number per cell, 1 at the tail. *)
EXTENDS Integers, FiniteSets, Sequences

CONSTANTS Rows, Cols, TimeLimit   \* kRows, kCols, kTimeLimit

VARIABLES bodyState, head, tail, fruit, length, stepCount, done
vars == <<bodyState, head, tail, fruit, length, stepCount, done>>

Cells == (0..(Rows - 1)) \X (0..(Cols - 1))
InGrid(c) == c \in Cells
Actions == 0..3
Moves == <<<<-1, 0>>, <<0, 1>>, <<1, 0>>, <<0, -1>>>>
Beside(c, a) == <<c[1] + Moves[a + 1][1], c[2] + Moves[a + 1][2]>>

IsActionValid(body, h, a) == InGrid(Beside(h, a)) /\ body[Beside(h, a)] <= 1
AnyActionAvailable(body, h) == \E a \in Actions : IsActionValid(body, h, a)

Single(h) == [c \in Cells |-> IF c = h THEN 1 ELSE 0]

\* Without a configured position the fruit is drawn until it is off the head.
Init ==
  /\ head \in Cells /\ fruit \in Cells \ {head}
  /\ bodyState = Single(head) /\ tail = head
  /\ length = 1 /\ stepCount = 0
  /\ done = ~AnyActionAvailable(bodyState, head)

Reset ==
  /\ head' \in Cells /\ fruit' \in Cells \ {head'}
  /\ bodyState' = Single(head') /\ tail' = head'
  /\ length' = 1 /\ stepCount' = 0
  /\ done' = ~AnyActionAvailable(bodyState', head')

\* Mutation: the tail moves on although the snake eats.
ShrinkAlways(eaten) == [c \in Cells |-> IF bodyState[c] > 0 THEN bodyState[c] - 1 ELSE 0]

\* What is left of the body before the new head is written.
Shrink(eaten) ==
  IF eaten THEN bodyState ELSE [c \in Cells |-> IF bodyState[c] > 0 THEN bodyState[c] - 1 ELSE 0]

\* Mutation: the fruit may be placed on the snake.
PlaceFruitAnywhere(body) == Cells

PlaceFruit(body) ==
  LET empty == {c \in Cells : body[c] = 0} IN IF empty = {} THEN {fruit} ELSE empty

IsComplete(body) == \A c \in Cells : body[c] > 0

Step(a) ==
  LET valid == IsActionValid(bodyState, head, a)
      next == Beside(head, a)
      eaten == next = fruit
  IN  /\ ~done
      /\ IF valid
         THEN /\ length' = IF eaten THEN length + 1 ELSE length
              /\ bodyState' = [Shrink(eaten) EXCEPT ![next] = length']
              /\ head' = next
              /\ fruit' \in IF eaten THEN PlaceFruit(bodyState') ELSE {fruit}
              /\ tail' = IF \E c \in Cells : bodyState'[c] = 1
                         THEN CHOOSE c \in Cells : bodyState'[c] = 1 ELSE tail
         ELSE UNCHANGED <<bodyState, head, tail, fruit, length>>
      /\ stepCount' = stepCount + 1
      /\ done' = \/ ~valid \/ IsComplete(bodyState') \/ stepCount' >= TimeLimit
                 \/ ~AnyActionAvailable(bodyState', head')

Next == Reset \/ \E a \in Actions : Step(a)

----------------------------------------------------------------------------
\* The numbers on the grid are a snake: each of 1..length once, successive ones on
\* neighbouring cells, the largest at the head and 1 at the tail, although a step
\* only decrements cells and writes one, and the head may enter the tail's cell.
BodyIsPath ==
  /\ {bodyState[c] : c \in Cells} \ {0} = 1..length
  /\ Cardinality({c \in Cells : bodyState[c] > 0}) = length
  /\ bodyState[head] = length /\ bodyState[tail] = 1
  /\ \A c \in Cells : bodyState[c] > 1 =>
       \E a \in Actions : InGrid(Beside(c, a)) /\ bodyState[Beside(c, a)] = bodyState[c] - 1

\* The fruit can be eaten: it is off the snake unless the grid is full, and then
\* the episode is over.
FruitIsFree == bodyState[fruit] > 0 => IsComplete(bodyState) /\ done
=============================================================================
