----------------------------- MODULE RubiksCube -----------------------------
(* jumanji/rubiks_cube_env.h: the stickers a turn moves are listed in a table for
   the ring around a face and computed for the face itself.  Faces are up, front,
   right, back, left, down. *)
EXTENDS Integers, FiniteSets, Sequences, SequencesExt

CONSTANTS
  NumScrambles,   \* rubiks_cube_num_scrambles
  TimeLimit       \* the template parameter

VARIABLES cube, stepCount, reward, done
vars == <<cube, stepCount, reward, done>>

Faces == 0..5
Stickers == Faces \X (0..2) \X (0..2)      \* face, row, column
Amounts == 0..2
SolvedCube == [s \in Stickers |-> s[1]]
IsSolved(c) == \A s \in Stickers : c[s] = c[<<s[1], 0, 0>>]

Row(f, r) == [i \in 1..3 |-> <<f, r, i - 1>>]
Col(f, c) == [i \in 1..3 |-> <<f, i - 1, c>>]

\* AdjacentIndices: the twelve stickers around a face, in the order of a turn.
Ring == [f \in Faces |->
  CASE f = 0 -> Row(1, 0) \o Row(4, 0) \o Row(3, 0) \o Row(2, 0)
    [] f = 1 -> Row(0, 2) \o Col(2, 0) \o Reverse(Row(5, 0)) \o Reverse(Col(4, 2))
    [] f = 2 -> Reverse(Col(0, 2)) \o Col(3, 0) \o Reverse(Col(5, 2)) \o Reverse(Col(1, 2))
    [] f = 3 -> Reverse(Row(0, 0)) \o Col(4, 0) \o Row(5, 2) \o Reverse(Col(2, 2))
    [] f = 4 -> Col(0, 0) \o Col(1, 0) \o Col(5, 0) \o Reverse(Col(3, 2))
    [] f = 5 -> Row(1, 2) \o Row(2, 2) \o Row(3, 2) \o Row(4, 2)]

\* AmountTurns modulo 4, clockwise quarter turns.
AmountTurns(amount) == CASE amount = 0 -> 1 [] amount = 1 -> 3 [] amount = 2 -> 2

\* Where the sticker now at s was before one clockwise turn of face f, and where
\* the sticker at place i of the ring was.
ClockwiseFrom(s) == <<s[1], 2 - s[3], s[2]>>
FaceFrom == [turns \in 1..3 |-> [s \in Stickers |->
  CASE turns = 1 -> ClockwiseFrom(s)
    [] turns = 2 -> ClockwiseFrom(ClockwiseFrom(s))
    [] turns = 3 -> ClockwiseFrom(ClockwiseFrom(ClockwiseFrom(s)))]]

\* Mutation: the ring goes the other way round.
RingPlaceBackwards(i, turns) == ((i - 1 + 3 * turns) % 12) + 1
RingPlace(i, turns) == ((i - 1 + 12 - 3 * turns) % 12) + 1

Rotate(c, f, amount) ==
  LET turns == AmountTurns(amount)
      ring == Ring[f]
      place(s) == CHOOSE i \in 1..12 : ring[i] = s
  IN  [s \in Stickers |-> IF s[1] = f THEN c[FaceFrom[turns][s]]
                          ELSE IF \E i \in 1..12 : ring[i] = s THEN c[ring[RingPlace(place(s), turns)]]
                          ELSE c[s]]

\* The cubes n random turns make.
Scrambled[n \in Nat] ==
  IF n = 0 THEN {SolvedCube}
  ELSE {Rotate(m[1], m[2], m[3]) : m \in Scrambled[n - 1] \X Faces \X Amounts}

Init == cube \in Scrambled[NumScrambles] /\ stepCount = 0 /\ reward = 0 /\ done = FALSE

Reset == cube' \in Scrambled[NumScrambles] /\ stepCount' = 0 /\ reward' = 0 /\ done' = FALSE

Step(face, amount) ==
  /\ ~done
  /\ cube' = Rotate(cube, face, amount)
  /\ stepCount' = stepCount + 1
  /\ reward' = IF IsSolved(cube') THEN 1 ELSE 0
  /\ done' = (IsSolved(cube') \/ stepCount' >= TimeLimit)

Next == Reset \/ \E face \in Faces, amount \in Amounts : Step(face, amount)

----------------------------------------------------------------------------
\* The cubie a sticker belongs to: its place in space, right, up and forward.
CubieOf(s) ==
  LET f == s[1]  r == s[2] - 1  c == s[3] - 1
  IN  CASE f = 0 -> <<c, 1, r>> [] f = 1 -> <<c, -r, 1>> [] f = 2 -> <<1, -r, -c>>
        [] f = 3 -> <<-c, -r, -1>> [] f = 4 -> <<-1, -r, c>> [] f = 5 -> <<c, -1, -r>>
Cubies == {CubieOf(s) : s \in Stickers}
Pieces(c) == {{c[s] : s \in {t \in Stickers : CubieOf(t) = p}} : p \in Cubies}

\* The table of the rings and the turn of the face agree: the stickers of a corner
\* or an edge stay together, so the cube is always made of the pieces of a solved
\* one, and the centres never move.
PiecesStayWhole == Pieces(cube) = Pieces(SolvedCube) /\ \A f \in Faces : cube[<<f, 1, 1>>] = f
=============================================================================
