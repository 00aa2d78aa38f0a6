--------------------------------- MODULE Go ---------------------------------
(* pgx/go.h: chains carry the number of their first point, positive for black, and
   atari is read off three sums over pseudo-liberties.  The hash of a position is
   the position, and the observation's history of boards is the last of positions. *)
EXTENDS BoardGames, FiniteSetsExt

CONSTANTS
  Size,               \* board_size
  RuleSets,           \* values of rules: "pgx", "chinese"
  Points,             \* the points an instance plays on
  Tried,              \* the actions it tries even when they are illegal
  TwiceKomi,          \* 2 * komi
  MaxTerminalSteps    \* max_terminal_steps

VARIABLES rules, board, positions, passes, ko, isPsk, stepCount, mask, playerOrder, reward, illegal, done
vars == <<rules, board, positions, passes, ko, isPsk, stepCount, mask, playerOrder, reward, illegal, done>>

Area == Size * Size
Cells == 0..(Area - 1)
Pass == Area
Color(n) == n % 2
MySign(n) == IF Color(n) = 0 THEN 1 ELSE -1
Abs(v) == IF v < 0 THEN -v ELSE v
Signs(b) == [z \in Cells |-> Sign(b[z])]

AdjacentTo == [xy \in Cells |->
  {z \in Cells : \/ z \div Size = xy \div Size /\ Abs(z - xy) = 1
                 \/ z % Size = xy % Size /\ Abs(z - xy) = Size}]
Adjacent(xy) == AdjacentTo[xy]

\* CountLiberties: a stone's empty neighbours, each counted for each stone.
PseudoLiberties(b, id) ==
  UNION {{<<z, y>> : y \in {x \in Adjacent(z) : b[x] = 0}} : z \in {w \in Cells : Abs(b[w]) = id}}
IdxSum(pairs) == MapThenSumSet(LAMBDA p : p[2] + 1, pairs)
IdxSquaredSum(pairs) == MapThenSumSet(LAMBDA p : (p[2] + 1) * (p[2] + 1), pairs)

\* Mutation: a chain is in atari when one of its stones has a liberty.
InAtariOnePair(b, id) == Cardinality(PseudoLiberties(b, id)) <= 1
\* Pseudo-liberties are all the same point when the sums meet this bound.
InAtari(b, id) ==
  LET pairs == PseudoLiberties(b, id)
  IN  IdxSum(pairs) * IdxSum(pairs) = IdxSquaredSum(pairs) * Cardinality(pairs)
SingleLiberty(b, id) ==
  LET pairs == PseudoLiberties(b, id)
  IN  IF IdxSum(pairs) = 0 THEN -1 ELSE (IdxSquaredSum(pairs) \div IdxSum(pairs)) - 1

\* Mutation: a chain that is joined keeps its number.
MergedOnlyNew(b, a, sign) ==
  LET ids == {b[z] : z \in {y \in Adjacent(a) : b[y] * sign > 0}} \cup {b[a]}
  IN  [b EXCEPT ![a] = Min({Abs(id) : id \in ids}) * sign]
MergeAdjacentChains(b, a, sign) ==
  LET ids == {b[z] : z \in {y \in Adjacent(a) : b[y] * sign > 0}} \cup {b[a]}
      smallest == Min({Abs(id) : id \in ids}) * sign
  IN  [z \in Cells |-> IF b[z] \in ids THEN smallest ELSE b[z]]

\* Mutation: of a chain only the stones next to the move are taken.
SurroundedNextTo(b, a, sign) ==
  {z \in Adjacent(a) : b[z] * sign < 0 /\ InAtari(b, Abs(b[z])) /\ SingleLiberty(b, Abs(b[z])) = a}
\* The stones a move of sign takes from b.
Surrounded(b, a, sign) ==
  LET killed == {b[y] : y \in {z \in Adjacent(a) :
                   b[z] * sign < 0 /\ InAtari(b, Abs(b[z])) /\ SingleLiberty(b, Abs(b[z])) = a}}
  IN  {z \in Cells : b[z] \in killed}

ApplyActionToBoard(b, a, sign) ==
  LET taken == Surrounded(b, a, sign)
  IN  MergeAdjacentChains([z \in Cells |-> IF z \in taken THEN 0 ELSE IF z = a THEN (a + 1) * sign ELSE b[z]],
                          a, sign)

\* Mutation: there is no ko.
KoNever(b, a, sign) == -1
KoAfter(b, a, sign) ==
  LET taken == Surrounded(b, a, sign)
  IN  IF Cardinality(taken) = 1 /\ \A z \in Adjacent(a) : b[z] * sign < 0
      THEN CHOOSE z \in taken : TRUE ELSE -1

\* What n's color may do on b.
LegalActions(b, n, koPoint, seen) ==
  LET sign == MySign(n)
      helps(y) == \/ b[y] = 0
                  \/ b[y] * sign < 0 /\ InAtari(b, Abs(b[y]))
                  \/ b[y] * sign > 0 /\ ~InAtari(b, Abs(b[y]))
      free == {z \in Cells \ {koPoint} : b[z] = 0 /\ \E y \in Adjacent(z) : helps(y)}
      repeats(z) == LET next == Signs(ApplyActionToBoard(b, z, sign))
                    IN  (\A y \in Cells : next[y] = 0) \/ \E i \in DOMAIN seen : seen[i] = next
  IN  {z \in free : rules = "chinese" => ~repeats(z)} \cup {Pass}

\* The points that color does not reach through points without stones are the
\* other's territory: CountTerritory and CountStones, under the pgx rules.
Spread[s \in SUBSET Cells, b \in [Cells -> -1..1]] ==
  LET more == {z \in Cells \ s : b[z] = 0 /\ \E y \in s : y \in Adjacent(z)}
  IN  IF more = {} THEN s ELSE Spread[s \cup more, b]
\* Mutation: the territory is next to the stones.
TerritoryNearby(b, sign) ==
  Cardinality({z \in Cells : b[z] = sign \/ (b[z] = 0 /\ \A y \in Adjacent(z) : b[y] # -sign)})
AreaOf(b, sign) == Area - Cardinality(Spread[{z \in Cells : b[z] = -sign}, b])

\* ChineseAreaScores: an empty region counts for the only color that it touches.
ChineseAreaOf(b, sign) ==
  LET borders(z) == LET region == {y \in Spread[{z}, b] : b[y] = 0}
                    IN  {b[y] : y \in UNION {Adjacent(w) : w \in region}} \ {0}
  IN  Cardinality({z \in Cells : b[z] = sign \/ (b[z] = 0 /\ borders(z) = {sign})})

AreaScore(b, sign) == IF rules = "chinese" THEN ChineseAreaOf(b, sign) ELSE AreaOf(b, sign)

\* Mutation: only the move before counts as seen.
IsPskLastOnly(seen) == Len(seen) >= 2 /\ seen[Len(seen)] = seen[Len(seen) - 1]
IsPsk(seen) == \E i \in 1..(Len(seen) - 1) : seen[i] = seen[Len(seen)]

Init ==
  /\ rules \in RuleSets /\ board = [z \in Cells |-> 0] /\ positions = <<>> /\ passes = 0 /\ ko = -1
  /\ isPsk = FALSE /\ stepCount = 0 /\ mask = 0..Pass /\ (\E coin \in Coins : playerOrder = Order(coin))
  /\ reward = Zero /\ illegal = FALSE /\ done = FALSE

Reset ==
  /\ board' = [z \in Cells |-> 0] /\ positions' = <<>> /\ passes' = 0 /\ ko' = -1
  /\ isPsk' = FALSE /\ stepCount' = 0 /\ mask' = 0..Pass /\ (\E coin \in Coins : playerOrder' = Order(coin))
  /\ reward' = Zero /\ illegal' = FALSE /\ done' = FALSE /\ UNCHANGED rules

StepGame(a) ==
  LET sign == MySign(stepCount)
  IN  /\ board' = IF a = Pass THEN board ELSE ApplyActionToBoard(board, a, sign)
      /\ ko' = IF a = Pass THEN -1 ELSE KoAfter(board, a, sign)
      /\ passes' = IF a = Pass THEN passes + 1 ELSE 0
      /\ positions' = Append(positions, Signs(board'))
      /\ isPsk' = (rules # "chinese" /\ passes' = 0 /\ IsPsk(positions'))
      /\ stepCount' = stepCount + 1

IsTerminal(n, passCount, psk) == passCount >= 2 \/ psk \/ n >= MaxTerminalSteps

\* The color that has won on b with n to move next.
Winner(b, n, psk) ==
  IF psk THEN Color(n)
  ELSE IF 2 * AreaScore(Signs(b), 1) - TwiceKomi > 2 * AreaScore(Signs(b), -1) THEN 0 ELSE 1

Step(a) ==
  /\ ~done
  /\ StepGame(a)
  /\ illegal' = (a \notin mask)
  /\ done' = (illegal' \/ IsTerminal(stepCount', passes', isPsk'))
  /\ mask' = IF done' THEN 0..Pass ELSE LegalActions(board', stepCount', ko', positions')
  /\ reward' = IF illegal' THEN IllegalRewards(playerOrder[Color(stepCount)])
               ELSE IF done' THEN PlayerRewards(WinnerRewards(Winner(board', stepCount', isPsk')), playerOrder)
               ELSE Zero
  /\ UNCHANGED <<rules, playerOrder>>

\* An action that is no number of a point leaves the board alone and loses.
StepOutside ==
  /\ ~done
  /\ illegal' = TRUE /\ done' = TRUE /\ mask' = 0..Pass
  /\ reward' = IllegalRewards(playerOrder[Color(stepCount)])
  /\ UNCHANGED <<rules, board, positions, passes, ko, isPsk, stepCount, playerOrder>>

Next == Reset \/ (\E a \in (mask \cap (Points \cup {Pass})) \cup Tried : Step(a)) \/ StepOutside

----------------------------------------------------------------------------
\* The stones connected with those of s, on a board of signs.
Component[s \in SUBSET Cells, b \in [Cells -> -1..1]] ==
  LET more == {z \in Cells \ s : \E y \in s : y \in Adjacent(z) /\ b[y] = b[z]}
  IN  IF more = {} THEN s ELSE Component[s \cup more, b]
HasLiberty(s, b) == \E z \in s : \E y \in Adjacent(z) : b[y] = 0

\* The rules: a move takes the other's chains that it leaves without a liberty.
Played(b, a, sign) ==
  LET with == [b EXCEPT ![a] = sign]
      dead == {z \in Cells : with[z] = -sign /\ ~HasLiberty(Component[{z}, with], with)}
  IN  [z \in Cells |-> IF z \in dead THEN 0 ELSE with[z]]

\* Two stones have one number exactly when they are connected, and every chain has
\* a liberty, after any number of merges and captures.
ChainsAreConnected ==
  ~illegal =>
    LET b == Signs(board)
    IN  \A z \in Cells : board[z] # 0 =>
          /\ {y \in Cells : board[y] = board[z]} = Component[{z}, b]
          /\ HasLiberty(Component[{z}, b], b)

\* The mask, computed from sums of pseudo-liberties, allows the moves that leave
\* the own chain a liberty, but for the ko and the positions the rules forbid.
MovesLeaveLiberty ==
  ~done =>
    LET b == Signs(board)
        allowed(z) == /\ b[z] = 0 /\ z # ko
                      /\ LET next == Played(b, z, MySign(stepCount))
                         IN  /\ HasLiberty(Component[{z}, next], next)
                             /\ rules = "chinese" => \A i \in DOMAIN positions : positions[i] # next
    IN  mask = {z \in Cells : allowed(z)} \cup {Pass}

\* A legal move takes what the rules say.
CapturesFollowRules ==
  stepCount' = stepCount + 1 /\ ~illegal' =>
    \/ board' = board
    \/ \E a \in Points : board[a] = 0 /\ Signs(board)' = Played(Signs(board), a, MySign(stepCount))

\* No two moves undo each other, with the stones that were taken put back: the ko
\* is found among all the ways to take a single stone.
NobodyRetakes ==
  ~illegal => \A i \in 1..(Len(positions) - 2) :
    positions[i] = positions[i + 2] => positions[i] = positions[i + 1]

\* A position comes back only by passing, or as the one that ends the episode.
NoPositionRepeats ==
  ~illegal /\ ~isPsk => \A i, j \in DOMAIN positions :
    i < j /\ positions[i] = positions[j] => \A k \in i..j : positions[k] = positions[i]

\* Both ways to count the area agree as soon as there is a stone.
AreasAgree ==
  LET b == Signs(board)
  IN  (\E z \in Cells : b[z] # 0) => \A sign \in {1, -1} : AreaOf(b, sign) = ChineseAreaOf(b, sign)
=============================================================================
