---------------------------- MODULE AnimalShogi ----------------------------
(* pgx/animal_shogi.h: shogi of four animals on 3 x 4, seen by the player to move,
   whose pieces are 0 to 4 and whose opponent's are 5 to 9.  A square is 4 x + y with
   the far row at y = 0; an action is the label of a move or of a drop. *)
EXTENDS BoardGames

CONSTANTS
  MaxSteps,   \* kMaxSteps
  Offered,    \* the labels an instance looks at in each step of an episode
  Tried       \* the labels it tries even when they are illegal, and outside numbers

VARIABLES board, hand, boardHistory, handHistory, repHistory, stepCount, turn, currentPlayer,
          mask, reward, illegal, done
vars == <<board, hand, boardHistory, handHistory, repHistory, stepCount, turn, currentPlayer,
          mask, reward, illegal, done>>

None == -1
Pawn == 0  Bishop == 1  Rook == 2  King == 3  Gold == 4
Squares == 0..11
InHand == 0..2
Labels == 0..131
Abs(v) == IF v < 0 THEN -v ELSE v

InitBoard == [sq \in Squares |-> <<6, -1, -1, 2, 8, 5, 0, 3, 7, -1, -1, 1>>[sq + 1]]

\* The square in a direction, from the table of directions, or -1.
To(from, dir) ==
  LET x == (from \div 4) + <<-1, -1, -1, 0, 0, 1, 1, 1>>[dir + 1]
      y == (from % 4) + <<-1, 0, 1, -1, 1, -1, 0, 1>>[dir + 1]
  IN  IF x \in 0..2 /\ y \in 0..3 THEN 4 * x + y ELSE None
Decode(label) ==
  LET x == label \div 12  sq == label % 12
  IN  IF x >= 8 THEN [isDrop |-> TRUE, to |-> sq, piece |-> x - 8]
      ELSE [isDrop |-> FALSE, from |-> sq, to |-> To(sq, x)]

\* Mutation: the gold general is a king.
CanMoveGoldAsKing(piece, from, to) ==
  LET dx == (to \div 4) - (from \div 4)  dy == (to % 4) - (from % 4)
      near == <<dx, dy>> # <<0, 0>> /\ Abs(dx) <= 1 /\ Abs(dy) <= 1
  IN  CASE piece = Pawn -> dx = 0 /\ dy = -1
        [] piece = Bishop -> near /\ (dx = dy \/ dx = -dy)
        [] piece = Rook -> near /\ (dx = 0 \/ dy = 0)
        [] OTHER -> near
CanMove(piece, from, to) ==
  LET dx == (to \div 4) - (from \div 4)  dy == (to % 4) - (from % 4)
      near == <<dx, dy>> # <<0, 0>> /\ Abs(dx) <= 1 /\ Abs(dy) <= 1
  IN  CASE piece = Pawn -> dx = 0 /\ dy = -1
        [] piece = Bishop -> near /\ (dx = dy \/ dx = -dy)
        [] piece = Rook -> near /\ (dx = 0 \/ dy = 0)
        [] piece = King -> near
        [] OTHER -> near /\ (dx = 0 \/ dy # 1)

Turned(piece) == IF piece = None THEN None ELSE (piece + 5) % 10
FlippedRow(row) == [sq \in DOMAIN row |-> Turned(row[11 - sq])]

\* Mutation: a captured gold stays one, and is lost.
HandIndexKeepsGold(captured) == captured % 5
HandIndexForCapture(captured) == (captured % 5) % 4

\* The board and the hands after an action of the player to move.
ApplyMove(b, h, a) ==
  LET captured == b[a.to]
      index == HandIndexForCapture(captured)
      piece == IF a.from % 4 = 1 /\ b[a.from] = Pawn THEN Gold ELSE b[a.from]
  IN  [board |-> [b EXCEPT ![a.from] = None, ![a.to] = piece],
       hand |-> IF captured # None /\ index \in InHand THEN [h EXCEPT ![0][index] = @ + 1] ELSE h]
ApplyDrop(b, h, a) ==
  [board |-> [b EXCEPT ![a.to] = a.piece], hand |-> [h EXCEPT ![0][a.piece] = @ - 1]]
Applied(b, h, a) == IF a.isDrop THEN ApplyDrop(b, h, a) ELSE ApplyMove(b, h, a)

\* The square taken for the king's is the first whose piece is nearest to a king.
KingPos(b) ==
  LET dist(sq) == Abs(b[sq] - King)
  IN  CHOOSE sq \in Squares : \A z \in Squares : dist(sq) < dist(z) \/ (dist(sq) = dist(z) /\ sq <= z)
IsChecked(b) == \E from \in Squares : b[from] >= 5 /\ CanMove(b[from] % 5, KingPos(b), from)

IsLegalMove(b, h, a) ==
  /\ a.to # None
  /\ b[a.from] \in Pawn..Gold
  /\ b[a.to] = None \/ b[a.to] > Gold
  /\ CanMove(b[a.from], a.from, a.to)
  /\ ~IsChecked(ApplyMove(b, h, a).board)
IsLegalDrop(b, h, a) ==
  /\ b[a.to] = None
  /\ h[0][a.piece] > 0
  /\ ~IsChecked(ApplyDrop(b, h, a).board)
LegalActions(b, h) ==
  {label \in Labels : LET a == Decode(label) IN IF a.isDrop THEN IsLegalDrop(b, h, a) ELSE IsLegalMove(b, h, a)}

\* Eight rows of the board, and of the hands, are kept one after the other; both are
\* moved by eight places, whatever the length of a row, before row 0 is written.
FlatRoll(values, shift) ==
  LET n == Cardinality(DOMAIN values) IN [i \in DOMAIN values |-> values[(i - shift) % n]]
Recorded(history, row) == [i \in DOMAIN history |-> IF i \in DOMAIN row THEN row[i] ELSE FlatRoll(history, 8)[i]]
HandRow(h) == [i \in 0..5 |-> h[i \div 3][i % 3]]
FlippedBoards(history) == [i \in DOMAIN history |-> Turned(history[(i \div 12) * 12 + 11 - (i % 12)])]
FlippedHands(history) == [i \in DOMAIN history |-> history[(i \div 6) * 6 + ((i + 3) % 6)]]

RepetitionCount(boards, hands, b, h) ==
  Cardinality({row \in 0..7 : /\ \A sq \in Squares : boards[row * 12 + sq] = b[sq]
                              /\ \A i \in 0..5 : hands[row * 6 + i] = HandRow(h)[i]})

\* Mutation: a king in any of the last rows has got there.
IsTryAnyKing(b) == \E sq \in {0, 4, 8} : b[sq] % 5 = King
\* The king of the player who moved is in the last row.
IsTry(b) == \E sq \in {0, 4, 8} : b[sq] = King

NoHand == [p \in Players |-> [i \in InHand |-> 0]]
Init ==
  /\ currentPlayer \in Coins /\ turn = 0 /\ stepCount = 0
  /\ board = InitBoard /\ hand = NoHand
  /\ boardHistory = [i \in 0..95 |-> IF i \in Squares THEN InitBoard[i] ELSE None]
  /\ handHistory = [i \in 0..47 |-> 0] /\ repHistory = [i \in 0..7 |-> 0]
  /\ mask = LegalActions(InitBoard, NoHand)
  /\ reward = Zero /\ illegal = FALSE /\ done = FALSE

Reset ==
  /\ currentPlayer' \in Coins /\ turn' = 0 /\ stepCount' = 0
  /\ board' = InitBoard /\ hand' = NoHand
  /\ boardHistory' = [i \in 0..95 |-> IF i \in Squares THEN InitBoard[i] ELSE None]
  /\ handHistory' = [i \in 0..47 |-> 0] /\ repHistory' = [i \in 0..7 |-> 0]
  /\ mask' = LegalActions(InitBoard, NoHand)
  /\ reward' = Zero /\ illegal' = FALSE /\ done' = FALSE

\* StepGame with an action that is on the board, legal or not.
StepGame(a) ==
  LET next == Applied(board, hand, a)
      h == [p \in Players |-> next.hand[1 - p]]
      rep == RepetitionCount(boardHistory', handHistory', board', h) - 1
      legal == LegalActions(board', h)
      over == legal = {} \/ IsTry(next.board) \/ rep >= 2 \/ stepCount' >= MaxSteps
      won == over /\ rep < 2 /\ stepCount' < MaxSteps
  IN  /\ stepCount' = stepCount + 1
      /\ board' = FlippedRow(next.board) /\ hand' = h
      /\ boardHistory' = FlippedBoards(Recorded(boardHistory, next.board))
      /\ handHistory' = FlippedHands(Recorded(handHistory, HandRow(next.hand)))
      /\ repHistory' = [i \in 0..7 |-> IF i = 0 THEN rep ELSE repHistory[i - 1]]
      /\ currentPlayer' = 1 - currentPlayer /\ turn' = 1 - turn
      /\ done' = (illegal' \/ over)
      /\ mask' = IF done' THEN Labels ELSE legal
      /\ reward' = IF illegal' THEN IllegalRewards(currentPlayer)
                   ELSE IF won THEN WinnerRewards(currentPlayer) ELSE Zero

Step(label) ==
  /\ ~done /\ label \in Labels
  /\ Decode(label).to # None     \* a move off the board writes before its first square
  /\ illegal' = (label \notin mask)
  /\ StepGame(Decode(label))
StepOutside(label) ==
  /\ ~done /\ label \notin Labels
  /\ illegal' = TRUE /\ done' = TRUE /\ mask' = Labels /\ reward' = IllegalRewards(currentPlayer)
  /\ UNCHANGED <<board, hand, boardHistory, handHistory, repHistory, stepCount, turn, currentPlayer>>

Next ==
  \/ Reset
  \/ \E label \in (mask \cap Offered[stepCount]) \cup Tried : Step(label) \/ StepOutside(label)

----------------------------------------------------------------------------
Pieces(piece) == Cardinality({sq \in Squares : board[sq] % 5 = piece /\ board[sq] # None})
Held(piece) == hand[0][piece] + hand[1][piece]
\* The squares the pieces of a player reach, as shogi has it for the one who plays up.
Reach(piece) ==
  CASE piece = Pawn -> {<<0, -1>>}
    [] piece = Bishop -> {<<1, 1>>, <<1, -1>>, <<-1, 1>>, <<-1, -1>>}
    [] piece = Rook -> {<<1, 0>>, <<-1, 0>>, <<0, 1>>, <<0, -1>>}
    [] piece = Gold -> {<<1, 0>>, <<-1, 0>>, <<0, 1>>, <<0, -1>>, <<1, -1>>, <<-1, -1>>}
    [] piece = King -> ((-1..1) \X (-1..1)) \ {<<0, 0>>}
Near(sq, piece) ==
  {4 * ((sq \div 4) + d[1]) + (sq % 4) + d[2] :
     d \in {d \in Reach(piece) : (sq \div 4) + d[1] \in 0..2 /\ (sq % 4) + d[2] \in 0..3}}
Attacked(b) == UNION {Near(sq, b[sq]) : sq \in {sq \in Squares : b[sq] \in 0..4}}

\* A position in which the player who is to move can take the opponent's king.
TakesKing(b) == \E sq \in Attacked(b) : b[sq] = King + 5
\* The moves as pairs of squares, and the drops, after which the king is not taken.
Moves(b) == {m \in Squares \X Squares : /\ b[m[1]] \in 0..4 /\ m[2] \in Near(m[1], b[m[1]]) /\ b[m[2]] \notin 0..4
                                        /\ ~TakesKing(FlippedRow([b EXCEPT ![m[1]] = None, ![m[2]] = b[m[1]]]))}
Drops(b, h) == {m \in InHand \X Squares : /\ b[m[2]] = None /\ h[m[1]] > 0
                                          /\ ~TakesKing(FlippedRow([b EXCEPT ![m[2]] = m[1]]))}

\* Both kings stay on the board and the two of each other kind are on it or in a hand: what
\* is captured, promoted or dropped is neither lost nor doubled.
PiecesConserved ==
  ~illegal => /\ Pieces(King) = 2
              /\ Pieces(Pawn) + Pieces(Gold) + Held(Pawn) = 2
              /\ \A piece \in {Bishop, Rook} : Pieces(piece) + Held(piece) = 2

\* The mask is the moves and drops of the rules, which leave no king to be taken.
MaskIsLegal ==
  ~done => /\ {<<Decode(l).from, Decode(l).to>> : l \in {l \in mask : ~Decode(l).isDrop}} = Moves(board)
           /\ {<<Decode(l).piece, Decode(l).to>> : l \in {l \in mask : Decode(l).isDrop}} = Drops(board, hand[0])

\* An episode ends when the player who moved has the king in the last row or leaves no
\* answer, and pays that player unless it is the last step.
EndsWhenWon ==
  ~illegal =>
    LET tried == \E sq \in {3, 7, 11} : board[sq] = King + 5
        stuck == Moves(board) = {} /\ Drops(board, hand[0]) = {}
    IN  /\ done <=> tried \/ stuck \/ stepCount >= MaxSteps
        /\ reward = IF (tried \/ stuck) /\ stepCount < MaxSteps THEN IllegalRewards(currentPlayer) ELSE Zero
=============================================================================
