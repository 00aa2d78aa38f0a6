----------------------------- MODULE StoneGames -----------------------------
(* pgx/board_games.h, HexEnv and OthelloEnv. *)
EXTENDS BoardGames, FiniteSetsExt

CONSTANTS
  Size,     \* 11 for hex, 8 for othello
  First,    \* the legal actions that an instance begins an episode with
  Tried     \* the actions that an instance tries even when they are illegal

VARIABLES board, mask, playerOrder, stepCount, currentPlayer, passed, reward, illegal, done
vars == <<board, mask, playerOrder, stepCount, currentPlayer, passed, reward, illegal, done>>

\* What each game has no use for.
HexUnused == <<currentPlayer, passed>>
OthelloUnused == <<playerOrder, stepCount>>

Row(xy) == xy \div Size
Col(xy) == xy % Size

----------------------------------------------------------------------------
(* HexEnv: stones carry the number of their chain, positive for the color to move; the
   second move may take over the first. *)

Cells == 0..(Size * Size - 1)
SwapAction == Size * Size
Color(n) == n % 2

Neighbours == [xy \in Cells |->
  {z \in Cells : <<Row(z) - Row(xy), Col(z) - Col(xy)>> \in
                   {<<0, -1>>, <<1, -1>>, <<-1, 0>>, <<1, 0>>, <<-1, 1>>, <<0, 1>>}}]
Neighbour(xy) == Neighbours[xy]
Negated(b) == [z \in Cells |-> -b[z]]

\* Mutation: the new stone takes the number of one chain it touches.
PlaceJoiningOne(b, a) ==
  LET touched == {b[z] : z \in {y \in Neighbour(a) : b[y] > 0}}
  IN  Negated([b EXCEPT ![a] = IF touched = {} THEN a + 1 ELSE Min(touched)])

Place(b, a) ==
  LET touched == {b[z] : z \in {y \in Neighbour(a) : b[y] > 0}}
  IN  Negated([z \in Cells |-> IF z = a \/ b[z] \in touched THEN a + 1 ELSE b[z]])

\* The first stone goes to the mirrored place and changes color.
Swap(b) ==
  LET stones == {z \in Cells : b[z] # 0}
      ix == Min(stones)
      mirrored == Col(ix) * Size + Row(ix)
  IN  Negated(IF stones = {} THEN b ELSE [[b EXCEPT ![ix] = 0] EXCEPT ![mirrored] = mirrored + 1])

\* Mutation: the color to move is taken for the one that moved.
IsTerminalWrongSides(b, a, color) ==
  LET side(z) == IF color = 0 THEN Row(z) ELSE Col(z)
  IN  \A k \in {0, Size - 1} : \E z \in Cells : side(z) = k /\ b[z] = b[a]

\* color is to move: its opponent's stone at a joins that color's two sides.
IsTerminal(b, a, color) ==
  LET side(z) == IF color = 0 THEN Col(z) ELSE Row(z)
  IN  \A k \in {0, Size - 1} : \E z \in Cells : side(z) = k /\ b[z] = b[a]

LegalActions(b, n) == {z \in Cells : b[z] = 0} \cup (IF n = 1 THEN {SwapAction} ELSE {})
HexAllActions == 0..SwapAction

HexInit ==
  /\ board = [z \in Cells |-> 0] /\ currentPlayer = 0 /\ passed = FALSE
  /\ stepCount = 0 /\ (\E coin \in Coins : playerOrder = Order(coin))
  /\ mask = Cells /\ reward = Zero /\ illegal = FALSE /\ done = FALSE

HexReset ==
  /\ board' = [z \in Cells |-> 0] /\ UNCHANGED HexUnused
  /\ stepCount' = 0 /\ (\E coin \in Coins : playerOrder' = Order(coin))
  /\ mask' = Cells /\ reward' = Zero /\ illegal' = FALSE /\ done' = FALSE

HexStep(a) ==
  LET isLegal == a \in mask
      moved == IF a \notin HexAllActions THEN board ELSE IF a = SwapAction THEN Swap(board) ELSE Place(board, a)
      n == IF a \in HexAllActions THEN stepCount + 1 ELSE stepCount
      won == a \in Cells /\ IsTerminal(moved, a, Color(n))
  IN  /\ ~done
      /\ board' = moved /\ stepCount' = n
      /\ illegal' = ~isLegal
      /\ done' = (won \/ ~isLegal)
      /\ mask' = IF done' THEN HexAllActions ELSE LegalActions(moved, n)
      /\ reward' = IF ~isLegal THEN IllegalRewards(playerOrder[Color(stepCount)])
                   ELSE IF won THEN PlayerRewards(WinnerRewards(1 - Color(n)), playerOrder) ELSE Zero
      /\ UNCHANGED <<playerOrder, HexUnused>>

HexNext == HexReset \/ \E a \in (IF stepCount = 0 THEN mask \cap First ELSE mask) \cup Tried : HexStep(a)

\* The stones of the sign of z that z is connected with.
Connected[s \in SUBSET Cells] ==
  LET more == {z \in UNION {Neighbour(y) : y \in s} \ s : \E y \in Neighbour(z) \cap s : Sign(board[z]) = Sign(board[y])}
  IN  IF more = {} THEN s ELSE Connected[s \cup more]

\* Two stones have the same number exactly when a path of stones connects them,
\* whatever was joined, and swapped, before.
ChainsAreConnected ==
  ~illegal => \A z \in Cells : board[z] # 0 => {y \in Cells : board[y] = board[z]} = Connected[{z}]

\* Whether color has joined its sides: the first rows, the second columns.
HasJoined(color) ==
  LET sign == IF color = Color(stepCount) THEN 1 ELSE -1
      side(z) == IF color = 0 THEN Row(z) ELSE Col(z)
  IN  \E z \in Cells : side(z) = 0 /\ board[z] * sign > 0 /\ \E y \in Connected[{z}] : side(y) = Size - 1

\* The episode ends exactly when a color has joined its sides, that color's player
\* is paid, and a full board always has such a color: there is no draw to handle.
SomebodyJoins ==
  ~illegal =>
    /\ \A color \in Players : HasJoined(color) <=> done /\ reward[playerOrder[color]] = 1
    /\ (\A z \in Cells : board[z] # 0) => done

----------------------------------------------------------------------------
(* OthelloEnv: discs are 1 for the player to move and -1 for the other.  Lines are walked
   by adding a shift to the number of a square. *)

Squares == 0..(Size * Size - 1)
Pass == Size * Size
Shifts == {1, -1, Size, -Size, Size - 1, 1 - Size, Size + 1, -1 - Size}

\* Mutation: only the board bounds a line.
EdgeOkByNumber(from, to, shift) == to \in Squares
\* A step to the right or the left does not wrap to the next row.
EdgeOk(from, to, shift) ==
  /\ to \in Squares
  /\ shift \in {1, 1 - Size, Size + 1} => Col(to) = Col(from) + 1
  /\ shift \in {-1, Size - 1, -1 - Size} => Col(to) = Col(from) - 1

\* How many discs of the other a line from pos takes.
Captured(b, pos, shift) ==
  LET at(k) == pos + k * shift
      inside(k) == EdgeOk(at(k - 1), at(k), shift)
      ends == {k \in 1..(Size - 1) : /\ \A i \in 1..(k - 1) : inside(i) /\ b[at(i)] < 0
                                     /\ inside(k) /\ b[at(k)] > 0}
  IN  IF ends = {} THEN 0 ELSE (CHOOSE k \in ends : TRUE) - 1
Captures(b, pos) == UNION {{pos + k * shift : k \in 1..Captured(b, pos, shift)} : shift \in Shifts}

Discs(b, sign) == {z \in Squares : b[z] = sign}

\* The squares of the mover and of the other after the action.  A disc on a disc of the
\* other, which is not legal, leaves the square to both.
Placed(b, a) ==
  LET taken == IF a = Pass THEN {} ELSE Captures(b, a)
  IN  [my |-> Discs(b, 1) \cup taken \cup ({a} \ {Pass}), opp |-> Discs(b, -1) \ taken]
OpponentBoard(p) == [z \in Squares |-> IF z \in p.opp THEN 1 ELSE IF z \in p.my THEN -1 ELSE 0]

Legal(b) ==
  LET moves == {z \in Squares : b[z] = 0 /\ Captures(b, z) # {}}
  IN  IF moves = {} THEN {Pass} ELSE moves
OthelloAllActions == 0..Pass

\* Mutation: the next player is paid for the mover.
GetRewardNext(p, player) ==
  LET mine == Cardinality(p.my)  other == Cardinality(p.opp)
  IN  IF mine = other THEN Zero ELSE WinnerRewards(IF mine > other THEN 1 - player ELSE player)
GetReward(p, player) ==
  LET mine == Cardinality(p.my)  other == Cardinality(p.opp)
  IN  IF mine = other THEN Zero ELSE WinnerRewards(IF mine > other THEN player ELSE 1 - player)

Start ==
  LET h == Size \div 2
      at(r, c) == r * Size + c
  IN  [board |-> [z \in Squares |-> IF z \in {at(h - 1, h), at(h, h - 1)} THEN 1
                                    ELSE IF z \in {at(h - 1, h - 1), at(h, h)} THEN -1 ELSE 0],
       mask |-> {at(h - 2, h - 1), at(h - 1, h - 2), at(h, h + 1), at(h + 1, h)}]

OthelloInit ==
  /\ board = Start.board /\ playerOrder = Zero /\ stepCount = 0 /\ mask = Start.mask /\ currentPlayer \in Coins
  /\ passed = FALSE /\ reward = Zero /\ illegal = FALSE /\ done = FALSE

OthelloReset ==
  /\ board' = Start.board /\ UNCHANGED OthelloUnused /\ mask' = Start.mask /\ currentPlayer' \in Coins
  /\ passed' = FALSE /\ reward' = Zero /\ illegal' = FALSE /\ done' = FALSE

IsOver(p, a) == Squares = p.my \cup p.opp \/ p.opp = {} \/ (passed /\ a = Pass)

OthelloStep(a) ==
  LET p == Placed(board, a)
      isLegal == a \in mask
  IN  /\ ~done
      /\ illegal' = ~isLegal /\ UNCHANGED OthelloUnused
      /\ IF a \in OthelloAllActions
         THEN /\ board' = OpponentBoard(p)
              /\ currentPlayer' = 1 - currentPlayer /\ passed' = (a = Pass)
         ELSE UNCHANGED <<board, currentPlayer, passed>>
      /\ done' = (~isLegal \/ IsOver(p, a))
      /\ mask' = IF done' THEN OthelloAllActions ELSE Legal(OpponentBoard(p))
      /\ reward' = IF ~isLegal THEN IllegalRewards(currentPlayer)
                   ELSE IF IsOver(p, a) THEN GetReward(p, currentPlayer) ELSE Zero

OthelloNext == OthelloReset \/ \E a \in (IF board = Start.board THEN mask \cap First ELSE mask) \cup Tried : OthelloStep(a)

\* Playing at z takes discs: in some direction there are discs of the other up to
\* one of the own.
At(r, c) == r * Size + c
CanPlay(b, z) ==
  /\ b[z] = 0
  /\ \E d \in ((-1..1) \X (-1..1)) \ {<<0, 0>>}, k \in 2..(Size - 1) :
       LET r(i) == Row(z) + i * d[1]  c(i) == Col(z) + i * d[2]
       IN  /\ r(k) \in 0..(Size - 1) /\ c(k) \in 0..(Size - 1)
           /\ b[At(r(k), c(k))] > 0
           /\ \A i \in 1..(k - 1) : b[At(r(i), c(i))] < 0

\* The mask, which the mover's step computes for the other, and which Reset lists,
\* is what the rules allow the player to move on rows, columns and diagonals.
MaskIsLegal ==
  ~done => mask = LET moves == {z \in Squares : CanPlay(board, z)} IN IF moves = {} THEN {Pass} ELSE moves

\* A game ends when nobody can play, and pays the player who has more discs.
EndsWhenNobodyPlays ==
  done /\ ~illegal =>
    /\ \A z \in Squares : ~CanPlay(board, z) /\ ~CanPlay([y \in Squares |-> -board[y]], z)
    /\ \A p \in Players :
         LET own == IF p = currentPlayer THEN 1 ELSE -1
         IN  reward[p] = Sign(Cardinality(Discs(board, own)) - Cardinality(Discs(board, -own)))
=============================================================================
