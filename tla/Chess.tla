------------------------------- MODULE Chess -------------------------------
(* pgx/chess_games.h, ChessEnv: the board is seen by the player to move, whose pieces are
   positive.  A square is 8 col + row.  The planes of MakeTables give each action one
   label, so an action is <<from, to, underpromotion>>, the last -1 or the number of a
   rook, a bishop or a knight. *)
EXTENDS BoardGames

CONSTANTS
  MaxSteps,        \* kMaxTerminationSteps
  QuietLimit,      \* 100 plies without a capture or a move of a pawn
  Lines,           \* the episodes an instance looks at: the sets of actions of their plies
  Tried            \* the actions it tries even when they are illegal, and <<>>, outside numbers

VARIABLES
  board, castlingRights, enPassant, color, playerOrder, mask, reward, illegal, done,
  counts,          \* halfmove_count_, fullmove_count_ and step_count_
  seenKeys,        \* the positions of the episode, the last one first
  played           \* history: its actions
vars == <<board, castlingRights, enPassant, color, playerOrder, mask, reward, illegal, done, counts, seenKeys, played>>

Pawn == 1  Knight == 2  Bishop == 3  Rook == 4  Queen == 5  King == 6
Squares == 0..63
Row(pos) == pos % 8
Col(pos) == pos \div 8
Pos(row, col) == 8 * col + row
FlipPos(pos) == IF pos < 0 THEN pos ELSE Pos(7 - Row(pos), Col(pos))
Abs(v) == IF v < 0 THEN -v ELSE v
Larger(v, w) == IF v < w THEN w ELSE v

InitBoard ==
  [pos \in Squares |->
     LET piece == <<Rook, Knight, Bishop, Queen, King, Bishop, Knight, Rook>>[Col(pos) + 1]
     IN  CASE Row(pos) = 0 -> piece [] Row(pos) = 1 -> Pawn [] Row(pos) = 6 -> -Pawn [] Row(pos) = 7 -> -piece
           [] OTHER -> 0]
FlipBoard(b) == [pos \in Squares |-> -b[FlipPos(pos)]]

CanMove(piece, from, to) ==
  LET dr == Row(to) - Row(from)  dc == Abs(Col(to) - Col(from))
  IN  /\ from # to
      /\ CASE piece = Pawn -> (dr = 1 /\ dc <= 1) \/ (Row(from) = 1 /\ dr = 2 /\ dc = 0)
           [] piece = Knight -> {Abs(dr), dc} = {1, 2}
           [] piece = Bishop -> Abs(dr) = dc
           [] piece = Rook -> dr = 0 \/ dc = 0
           [] piece = Queen -> dr = 0 \/ dc = 0 \/ Abs(dr) = dc
           [] piece = King -> Abs(dr) <= 1 /\ dc <= 1
\* The squares between two on a row, a column or a diagonal.
Between(from, to) ==
  LET dr == Row(to) - Row(from)  dc == Col(to) - Col(from)
  IN  IF dr = 0 \/ dc = 0 \/ Abs(dr) = Abs(dc)
      THEN {Pos(Row(from) + k * Sign(dr), Col(from) + k * Sign(dc)) : k \in 1..(Larger(Abs(dr), Abs(dc)) - 1)}
      ELSE {}
IsSlidingPiece(piece) == piece \in {Bishop, Rook, Queen}
Clear(b, from, to) == \A pos \in Between(from, to) : b[pos] = 0
PathClear(b, from, to) == (IsSlidingPiece(b[from]) \/ b[from] = Pawn) => Clear(b, from, to)

IsPseudoLegal(b, from, to) ==
  /\ b[from] > 0 /\ b[to] <= 0
  /\ CanMove(b[from], from, to)
  /\ PathClear(b, from, to)
  /\ b[from] = Pawn => IF Col(to) = Col(from) THEN b[to] = 0 ELSE b[to] < 0

\* Mutation: a pawn attacks what it can move to.
IsAttackedInFront(b, pos) ==
  \E to \in Squares : /\ b[to] < 0 /\ CanMove(-b[to], pos, to)
                      /\ IsSlidingPiece(-b[to]) => Clear(b, pos, to)
IsAttacked(b, pos) ==
  \E to \in Squares : /\ b[to] < 0 /\ CanMove(-b[to], pos, to)
                      /\ IsSlidingPiece(-b[to]) => Clear(b, pos, to)
                      /\ b[to] = -Pawn => Col(to) # Col(pos)
IsChecked(b) == \E pos \in Squares : b[pos] = King /\ IsAttacked(b, pos)

\* ApplyMove, in its parts: the board, the square of en passant, the castling rights and
\* the plies since the last capture or move of a pawn.
Promoted(piece, a) ==
  IF a[3] >= 0 THEN <<Rook, Bishop, Knight>>[a[3] + 1]
  ELSE IF piece = Pawn /\ Row(a[1]) = 6 THEN Queen ELSE piece
\* Mutation: the pawn taken en passant stays.
BoardAfterKeepsPawn(b, ep, a) ==
  LET isKing == b[32] = King /\ a[1] = 32
  IN  [pos \in Squares |->
         CASE pos = a[2] -> Promoted(b[a[1]], a)
           [] pos = a[1] -> 0
           [] isKing /\ a[2] = 16 /\ pos \in {0, 24} -> IF pos = 0 THEN 0 ELSE Rook
           [] isKing /\ a[2] = 48 /\ pos \in {56, 40} -> IF pos = 56 THEN 0 ELSE Rook
           [] OTHER -> b[pos]]
BoardAfter(b, ep, a) ==
  LET isKing == b[32] = King /\ a[1] = 32
      takesEnPassant == ep >= 0 /\ b[a[1]] = Pawn /\ a[2] = ep
  IN  [pos \in Squares |->
         CASE pos = a[2] -> Promoted(b[a[1]], a)
           [] pos = a[1] -> 0
           [] takesEnPassant /\ pos = a[2] - 1 -> 0
           [] isKing /\ a[2] = 16 /\ pos \in {0, 24} -> IF pos = 0 THEN 0 ELSE Rook
           [] isKing /\ a[2] = 48 /\ pos \in {56, 40} -> IF pos = 56 THEN 0 ELSE Rook
           [] OTHER -> b[pos]]
DoublePawnMove(b, a) == b[a[1]] = Pawn /\ Abs(a[2] - a[1]) = 2
EnPassantAfter(b, a) == IF DoublePawnMove(b, a) THEN (a[1] + a[2]) \div 2 ELSE -1
\* Mutation: a rook that is taken leaves the right to castle.
RightsAfterOwnMoves(rights, a) ==
  [side \in {0, 1} |-> [wing \in {0, 1} |->
     rights[side][wing] /\ (side = 0 => a[1] \notin {32, IF wing = 0 THEN 0 ELSE 56})]]
RightsAfter(rights, a) ==
  [side \in {0, 1} |-> [wing \in {0, 1} |->
     /\ rights[side][wing]
     /\ IF side = 0 THEN a[1] \notin {32, IF wing = 0 THEN 0 ELSE 56} ELSE a[2] # IF wing = 0 THEN 7 ELSE 63]]
HalfmoveAfter(b, a, halfmove) == IF b[a[2]] < 0 \/ b[a[1]] = Pawn THEN 0 ELSE halfmove + 1

LeavesNoCheck(b, ep, from, to) == ~IsChecked(BoardAfter(b, ep, <<from, to, -1>>))
NormalMoves(b, ep) ==
  {m \in {from \in Squares : b[from] > 0} \X Squares : IsPseudoLegal(b, m[1], m[2]) /\ LeavesNoCheck(b, ep, m[1], m[2])}
EnPassantMoves(b, ep) ==
  {m \in {ep - 9, ep + 7} \X {ep} : /\ ep >= 0 /\ m[1] \in Squares
                                    /\ b[m[1]] = Pawn /\ b[ep - 1] = -Pawn
                                    /\ LeavesNoCheck(b, ep, m[1], ep)}

\* Mutation: the king may pass an attacked square.
CastleMovesOutOfCheck(b, rights) ==
  {<<32, to>> : to \in {to \in {16, 48} :
     LET rook == IF to = 16 THEN 0 ELSE 56
     IN  /\ rights[0][IF to = 16 THEN 0 ELSE 1] /\ b[32] = King /\ b[rook] = Rook
         /\ \A pos \in IF to = 16 THEN {8, 16, 24} ELSE {40, 48} : b[pos] = 0
         /\ \A pos \in {32, to} : ~IsAttacked(b, pos)}}
CastleMoves(b, rights) ==
  {<<32, to>> : to \in {to \in {16, 48} :
     LET rook == IF to = 16 THEN 0 ELSE 56
     IN  /\ rights[0][IF to = 16 THEN 0 ELSE 1] /\ b[32] = King /\ b[rook] = Rook
         /\ \A pos \in IF to = 16 THEN {8, 16, 24} ELSE {40, 48} : b[pos] = 0
         /\ \A pos \in IF to = 16 THEN {16, 24, 32} ELSE {32, 40, 48} : ~IsAttacked(b, pos)}}

\* A pawn that is promoted may become any of the four.
LegalActions(b, rights, ep) ==
  LET moves == NormalMoves(b, ep) \cup EnPassantMoves(b, ep) \cup CastleMoves(b, rights)
  IN  {<<m[1], m[2], -1>> : m \in moves}
      \cup {<<m[1], m[2], u>> : m \in {m \in moves : b[m[1]] = Pawn /\ Row(m[1]) = 6}, u \in 0..2}
AllActions == Squares \X Squares \X (-1..2)
AllMarked == {<<>>}    \* the mask filled with true

\* Mutation: bishops of both colors of squares are too little.
HasInsufficientPiecesAnyBishops(b) ==
  LET pieces == {pos \in Squares : b[pos] # 0}
      bishops == {pos \in pieces : Abs(b[pos]) = Bishop}
      major == {pos \in pieces : Abs(b[pos]) \in {Pawn, Rook, Queen}}
  IN  \/ Cardinality(pieces) <= 2
      \/ Cardinality(pieces) = 3 /\ major = {}
      \/ Cardinality(pieces) = Cardinality(bishops) + 2
HasInsufficientPieces(b) ==
  LET pieces == {pos \in Squares : b[pos] # 0}
      bishops == {pos \in pieces : Abs(b[pos]) = Bishop}
      major == {pos \in pieces : Abs(b[pos]) \in {Pawn, Rook, Queen}}
      dark == {pos \in bishops : Row(pos) % 2 = Col(pos) % 2}
  IN  \/ Cardinality(pieces) <= 2
      \/ Cardinality(pieces) = 3 /\ major = {}
      \/ Cardinality(pieces) = Cardinality(bishops) + 2 /\ dark \in {bishops, {}}
RepetitionCount(keys) == Cardinality({k \in DOMAIN keys : keys[k] = keys[1]}) - 1
Key(b, c, rights, ep) == <<b, c, rights, ep>>

BothRights == [side \in {0, 1} |-> [wing \in {0, 1} |-> TRUE]]
StartMask == LegalActions(InitBoard, BothRights, -1)
Start ==
  [board |-> InitBoard, castlingRights |-> BothRights, seenKeys |-> <<Key(InitBoard, 0, BothRights, -1)>>,
   counts |-> [half |-> 0, full |-> 1, step |-> 0]]
Init ==
  /\ board = Start.board /\ castlingRights = Start.castlingRights /\ enPassant = -1
  /\ color = 0 /\ playerOrder \in {Order(coin) : coin \in Coins}
  /\ counts = Start.counts /\ seenKeys = Start.seenKeys /\ played = <<>>
  /\ mask = StartMask /\ reward = Zero /\ illegal = FALSE /\ done = FALSE

Reset ==
  /\ board' = Start.board /\ castlingRights' = Start.castlingRights /\ enPassant' = -1
  /\ color' = 0 /\ playerOrder' \in {Order(coin) : coin \in Coins}
  /\ counts' = Start.counts /\ seenKeys' = Start.seenKeys /\ played' = <<>>
  /\ mask' = StartMask /\ reward' = Zero /\ illegal' = FALSE /\ done' = FALSE

CurrentPlayer == playerOrder[color]

\* Mutation: a player without a move has lost, in check or not.
IsCheckmateStuck(b, moves) == moves = {}
IsCheckmate(b, moves) == moves = {} /\ IsChecked(b)
IsOver(b, moves, n, keys) ==
  \/ moves = {} \/ n.half >= QuietLimit \/ HasInsufficientPieces(b)
  \/ RepetitionCount(keys) >= 2 \/ n.step >= MaxSteps

Step(a) ==
  LET next == FlipBoard(BoardAfter(board, enPassant, a))
      after == RightsAfter(castlingRights, a)
      rights == [side \in {0, 1} |-> after[1 - side]]
      ep == FlipPos(EnPassantAfter(board, a))
      moves == LegalActions(next, rights, ep)
      isLegal == a \in mask
  IN  /\ ~done /\ a \in AllActions
      /\ board' = next /\ castlingRights' = rights /\ enPassant' = ep /\ color' = 1 - color
      /\ counts' = [half |-> HalfmoveAfter(board, a, counts.half), full |-> counts.full + color, step |-> counts.step + 1]
      /\ seenKeys' = <<Key(next, 1 - color, rights, ep)>> \o seenKeys
      /\ illegal' = ~isLegal /\ played' = Append(played, a)
      /\ done' = (~isLegal \/ IsOver(next, moves, counts', seenKeys'))
      /\ mask' = IF done' THEN AllMarked ELSE moves
      /\ reward' = IF ~isLegal THEN IllegalRewards(CurrentPlayer)
                   ELSE IF IsCheckmate(next, moves) THEN WinnerRewards(CurrentPlayer) ELSE Zero
      /\ UNCHANGED playerOrder
StepOutside ==
  /\ ~done
  /\ illegal' = TRUE /\ done' = TRUE /\ mask' = AllMarked /\ reward' = IllegalRewards(CurrentPlayer)
  /\ UNCHANGED <<board, castlingRights, enPassant, color, playerOrder, counts, seenKeys, played>>

\* The action is the next of one of the lines that the episode has kept to.
IsOffered(a) ==
  \E line \in Lines :
    /\ Len(played) < Len(line) /\ a \in line[Len(played) + 1]
    /\ \A k \in 1..Len(played) : played[k] \in line[k]
Next ==
  \/ Reset
  \/ \E a \in {a \in mask : IsOffered(a)} \cup Tried : Step(a)
  \/ <<>> \in Tried /\ StepOutside

----------------------------------------------------------------------------
\* The rules, by rays: the squares that the piece on a square attacks.
OnBoard(row, col) == row \in 0..7 /\ col \in 0..7
Leaps(sq, steps) ==
  {Pos(Row(sq) + d[1], Col(sq) + d[2]) : d \in {d \in steps : OnBoard(Row(sq) + d[1], Col(sq) + d[2])}}
Ray(b, sq, d) ==
  LET at(k) == Pos(Row(sq) + k * d[1], Col(sq) + k * d[2])
  IN  {at(k) : k \in {k \in 1..7 : /\ OnBoard(Row(sq) + k * d[1], Col(sq) + k * d[2])
                                   /\ \A j \in 1..(k - 1) : b[at(j)] = 0}}
Straight == {<<0, 1>>, <<0, -1>>, <<1, 0>>, <<-1, 0>>}
Diagonal == {<<1, 1>>, <<1, -1>>, <<-1, 1>>, <<-1, -1>>}
Attacks(b, sq) ==
  CASE b[sq] = Pawn -> Leaps(sq, {<<1, 1>>, <<1, -1>>})
    [] b[sq] = Knight -> Leaps(sq, {d \in {-2, -1, 1, 2} \X {-2, -1, 1, 2} : Abs(d[1]) # Abs(d[2])})
    [] b[sq] = King -> Leaps(sq, Straight \cup Diagonal)
    [] b[sq] = Bishop -> UNION {Ray(b, sq, d) : d \in Diagonal}
    [] b[sq] = Rook -> UNION {Ray(b, sq, d) : d \in Straight}
    [] b[sq] = Queen -> UNION {Ray(b, sq, d) : d \in Straight \cup Diagonal}
Own(b) == {sq \in Squares : b[sq] > 0}
AttacksAny(b, squares) == \E sq \in Own(b) : Attacks(b, sq) \cap squares # {}
InCheck(b) == AttacksAny(FlipBoard(b), {FlipPos(sq) : sq \in {sq \in Squares : b[sq] = King}})

\* The action before this one, if it was a double step of a pawn, is answered behind it.
Behind ==
  LET last == played[Len(played)]
  IN  IF played # <<>> /\ Row(last[1]) = 1 /\ Row(last[2]) = 3 /\ board[FlipPos(last[2])] = -Pawn
      THEN {FlipPos(last[2]) + 1} ELSE {}
\* No action has moved from or to a square, seen by the player to move or by the other.
Untouched(squares) ==
  \A k \in DOMAIN played :
    LET view(sq) == IF (Len(played) - k) % 2 = 1 THEN sq ELSE FlipPos(sq)
    IN  view(played[k][1]) \notin squares /\ view(played[k][2]) \notin squares
MayCastle(wing) ==
  LET rook == IF wing = 0 THEN 0 ELSE 56
      king == IF wing = 0 THEN {16, 24, 32} ELSE {32, 40, 48}
  IN  /\ Untouched({32, rook}) /\ Clear(board, 32, rook)
      /\ ~AttacksAny(FlipBoard(board), {FlipPos(sq) : sq \in king})

Targets(sq) ==
  IF board[sq] = Pawn
  THEN {to \in Attacks(board, sq) : board[to] < 0 \/ to \in Behind}
       \cup {to \in {sq + 1} : board[to] = 0}
       \cup {to \in {sq + 2} : Row(sq) = 1 /\ board[sq + 1] = 0 /\ board[to] = 0}
  ELSE {to \in Attacks(board, sq) : board[to] <= 0}
Moved(from, to) ==
  [sq \in Squares |-> IF sq = to THEN board[from]
                      ELSE IF sq = from \/ (board[from] = Pawn /\ to \in Behind /\ sq = to - 1) THEN 0 ELSE board[sq]]
RuleMoves ==
  {m \in UNION {{sq} \X Targets(sq) : sq \in Own(board)} : ~InCheck(Moved(m[1], m[2]))}
  \cup {<<32, IF wing = 0 THEN 16 ELSE 48>> : wing \in {wing \in {0, 1} : MayCastle(wing)}}

\* The mask is the moves of the rules, with the four pieces a pawn becomes; castling and
\* en passant are found from the actions played.
MaskIsLegal ==
  ~done => mask = {<<m[1], m[2], -1>> : m \in RuleMoves}
                  \cup {<<m[1], m[2], u>> : m \in {m \in RuleMoves : board[m[1]] = Pawn /\ Row(m[1]) = 6}, u \in 0..2}

\* A right to castle is there until the king or the rook is moved or taken.
RightsFollowMoves ==
  ~illegal => \A side, wing \in {0, 1} :
    LET home == {32, IF wing = 0 THEN 0 ELSE 56}
    IN  castlingRights[side][wing] <=> Untouched(IF side = 0 THEN home ELSE {FlipPos(sq) : sq \in home})

\* What a capture or a move of a pawn changes for good, seen by white.
Standing(key) ==
  LET b == IF key[2] = 0 THEN key[1] ELSE FlipBoard(key[1])
  IN  <<Cardinality({sq \in Squares : b[sq] # 0}), {<<sq, b[sq]>> : sq \in {sq \in Squares : Abs(b[sq]) = Pawn}}>>

\* Neither side is left with enough to mate: a knight at most, or bishops that all
\* stand on squares of one color.
NeitherCanMate(b) ==
  LET others == {sq \in Squares : Abs(b[sq]) \notin {0, King}}
  IN  \/ \E sq \in others : others = {sq} /\ Abs(b[sq]) = Knight
      \/ \A x, y \in others : Abs(b[x]) = Bishop /\ (Row(x) + Col(x) - Row(y) - Col(y)) % 2 = 0
\* The two kings and up to three other pieces, on squares of both colors.
FewPieces ==
  {[sq \in Squares |-> CASE sq = 32 -> King [] sq = 39 -> -King [] sq \in DOMAIN f -> f[sq] [] OTHER -> 0] :
     f \in [{0, 1, 9} -> (-Queen)..Queen]}

\* An episode ends with a mate, which alone is paid for, a stalemate, a third time in one
\* position, too long without a capture or a move of a pawn, with too little material for
\* a mate, or at its last step.
EndsFollowRules ==
  /\ played = <<>> => \A b \in FewPieces : HasInsufficientPieces(b) <=> NeitherCanMate(b)
  /\ ~illegal =>
       LET stuck == (done \/ mask = {}) /\ RuleMoves = {}
           quiet == {n \in 1..(Len(seenKeys) - 1) : \A k \in 1..n : Standing(seenKeys[k + 1]) = Standing(seenKeys[1])}
           thrice == \E k \in DOMAIN seenKeys : Cardinality({j \in DOMAIN seenKeys : seenKeys[j] = seenKeys[k]}) >= 3
       IN  /\ counts.half = Cardinality(quiet)
           /\ counts.step = Len(played) /\ counts.full = 1 + Len(played) \div 2
           /\ done <=> \/ stuck \/ thrice \/ Cardinality(quiet) >= QuietLimit
                       \/ NeitherCanMate(board) \/ Len(played) >= MaxSteps
           /\ reward = IF stuck /\ InCheck(board) THEN IllegalRewards(CurrentPlayer) ELSE Zero

\* A legal action moves one piece, and the rook that is castled with, and takes nothing but
\* what is on its target or the pawn that has just passed it; the mover keeps all pieces.
MovesChangeTheirSquares ==
  played' # <<>> /\ played' # played /\ ~illegal' =>
    LET a == played'[Len(played')]
        after == FlipBoard(board')
        enPassantTaken == IF board[a[1]] = Pawn /\ a[2] \in Behind THEN {a[2] - 1} ELSE {}
        castled == IF board[a[1]] # King \/ Abs(Col(a[2]) - Col(a[1])) < 2 THEN {}
                   ELSE {IF a[2] < a[1] THEN 0 ELSE 56, (a[1] + a[2]) \div 2}
    IN  /\ {sq \in Squares : board[sq] # after[sq]} = {a[1], a[2]} \cup enPassantTaken \cup castled
        /\ Cardinality(Own(after)) = Cardinality(Own(board))
        /\ \A sq \in Own(after) : after[sq] # board[sq] => sq = a[2] \/ (sq \in castled /\ after[sq] = Rook)
=============================================================================
