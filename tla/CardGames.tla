----------------------------- MODULE CardGames -----------------------------
(* pgx/card_games.h, KuhnPokerEnv and LeducHoldemEnv.  What a player has put in is in
   chips, without the ante in the first game (pot_), with it in the second (chips_). *)
EXTENDS BoardGames

VARIABLES cards, firstPlayer, currentPlayer, lastAction, chips, round, raiseCount, mask, reward, illegal, done
vars == <<cards, firstPlayer, currentPlayer, lastAction, chips, round, raiseCount, mask, reward, illegal, done>>

----------------------------------------------------------------------------
(* KuhnPokerEnv *)

\* What it has no use for.
Unused == <<firstPlayer, round, raiseCount, mask>>

KuhnDeals == {d \in [Players -> 0..2] : d[0] # d[1]}

KuhnInit ==
  /\ currentPlayer \in Coins /\ cards \in KuhnDeals /\ lastAction = -1 /\ chips = Zero
  /\ firstPlayer = 0 /\ round = 0 /\ raiseCount = 0 /\ mask = {}
  /\ reward = Zero /\ illegal = FALSE /\ done = FALSE

KuhnReset ==
  /\ currentPlayer' \in Coins /\ cards' \in KuhnDeals /\ lastAction' = -1 /\ chips' = Zero
  /\ UNCHANGED Unused
  /\ reward' = Zero /\ illegal' = FALSE /\ done' = FALSE

Scaled(scale, r) == [p \in Players |-> scale * r[p]]
\* Mutation: the card of the player who bet first decides.
KuhnUnitRewardFirst(scale, player) == Scaled(scale, WinnerRewards(IF cards[0] > 0 THEN 0 ELSE 1))
KuhnUnitReward(scale, player) ==
  Scaled(scale, WinnerRewards(IF cards[player] > cards[1 - player] THEN player ELSE 1 - player))

\* Action 0 bets or calls, 1 checks or folds; both are legal until the episode ends.
KuhnStep(a) ==
  /\ ~done
  /\ LET history == <<lastAction, a>>
         ends == history \in {<<0, 1>>, <<0, 0>>, <<1, 1>>}
     IN  /\ chips' = IF a = 0 THEN [chips EXCEPT ![currentPlayer] = @ + 1] ELSE chips
         /\ reward' = CASE history = <<0, 1>> -> WinnerRewards(1 - currentPlayer)
                        [] history = <<0, 0>> -> KuhnUnitReward(2, currentPlayer)
                        [] history = <<1, 1>> -> KuhnUnitReward(1, currentPlayer)
                        [] OTHER -> Zero
         /\ currentPlayer' = 1 - currentPlayer /\ lastAction' = a
         /\ done' = ends
  /\ illegal' = FALSE /\ UNCHANGED <<cards, Unused>>

KuhnStepOutside ==
  /\ ~done
  /\ reward' = IllegalRewards(currentPlayer) /\ illegal' = TRUE /\ done' = TRUE
  /\ UNCHANGED <<cards, currentPlayer, lastAction, chips, Unused>>

KuhnNext == KuhnReset \/ (\E a \in 0..1 : KuhnStep(a)) \/ KuhnStepOutside

\* The one who loses pays the ante and what that player bet, and is the one who
\* bet less, or has the lower card when both bet the same.
KuhnLoserPays ==
  done /\ ~illegal => \E p \in Players :
    /\ reward[p] = -(1 + chips[p]) /\ reward[1 - p] = 1 + chips[p]
    /\ chips[p] < chips[1 - p] \/ (chips[p] = chips[1 - p] /\ cards[p] < cards[1 - p])

----------------------------------------------------------------------------
(* LeducHoldemEnv: two rounds of betting, each of at most two raises, with a public card
   after the first.  Action 0 calls or checks, 1 raises, 2 folds. *)

Deck == 0..5                 \* the deck holds each card twice
LeducDeals == {[i \in 0..2 |-> d[i] \div 2] : d \in {e \in [0..2 -> Deck] : Cardinality({e[i] : i \in 0..2}) = 3}}
AllActions == 0..2
Ante == [p \in Players |-> 1]

LeducInit ==
  /\ currentPlayer \in Coins /\ firstPlayer = currentPlayer /\ cards \in LeducDeals
  /\ lastAction = -1 /\ chips = Ante /\ round = 0 /\ raiseCount = 0
  /\ mask = {0, 1} /\ reward = Zero /\ illegal = FALSE /\ done = FALSE

LeducReset ==
  /\ currentPlayer' \in Coins /\ firstPlayer' = currentPlayer' /\ cards' \in LeducDeals
  /\ lastAction' = -1 /\ chips' = Ante /\ round' = 0 /\ raiseCount' = 0
  /\ mask' = {0, 1} /\ reward' = Zero /\ illegal' = FALSE /\ done' = FALSE

RaiseChips == (round + 1) * 2

\* Mutation: a raise is paid on top of the own chips.
ChipsOnTop(a, me) ==
  CASE a = 0 -> [chips EXCEPT ![me] = chips[1 - me]]
    [] a = 1 -> [chips EXCEPT ![me] = @ + RaiseChips]
    [] OTHER -> chips
ChipsAfter(a, me) ==
  CASE a = 0 -> [chips EXCEPT ![me] = chips[1 - me]]
    [] a = 1 -> [chips EXCEPT ![me] = RaiseChips + IF chips[0] > chips[1] THEN chips[0] ELSE chips[1]]
    [] OTHER -> chips

RaisesAfter(a, roundOver) == IF roundOver THEN 0 ELSE raiseCount + (IF a = 1 THEN 1 ELSE 0)

\* Mutation: raises are not counted.
LegalActionsUncapped(a, raises) == (CASE a = 0 -> {0} [] a = 1 -> {0, 2} [] a = 2 -> {}) \cup {1}
\* Folding is for answering a raise, and the third raise of a round is refused.
LegalActions(a, raises) ==
  (CASE a = 0 -> {0} [] a = 1 -> {0, 2} [] a = 2 -> {}) \cup (IF raises < 2 THEN {1} ELSE {})

LeducUnitReward(me) ==
  LET other == 1 - me
      win == cards[me] = cards[2] \/ (cards[other] # cards[2] /\ cards[me] > cards[other])
  IN  IF cards[me] = cards[other] THEN Zero ELSE WinnerRewards(IF win THEN me ELSE other)

StepGame(a) ==
  LET fold == a = 2
      call == lastAction # -1 /\ a = 0
      roundOver == fold \/ call
      terminated == fold \/ (call /\ round # 0)
      paid == ChipsAfter(a, currentPlayer)
      least == IF paid[0] < paid[1] THEN paid[0] ELSE paid[1]
      unit == IF fold THEN WinnerRewards(1 - currentPlayer)
              ELSE IF terminated THEN LeducUnitReward(currentPlayer) ELSE Zero
  IN  /\ chips' = paid
      /\ currentPlayer' = IF roundOver THEN firstPlayer ELSE 1 - currentPlayer
      /\ lastAction' = IF roundOver THEN -1 ELSE a
      /\ raiseCount' = RaisesAfter(a, roundOver)
      /\ round' = IF roundOver THEN round + 1 ELSE round
      /\ done' = (terminated \/ a \notin mask)
      /\ mask' = IF done' THEN AllActions ELSE LegalActions(a, raiseCount')
      /\ reward' = IF a \notin mask THEN IllegalRewards(currentPlayer)
                   ELSE [p \in Players |-> least * unit[p]]

LeducStep(a) ==
  /\ ~done
  /\ StepGame(a)
  /\ illegal' = (a \notin mask)
  /\ UNCHANGED <<cards, firstPlayer>>

LeducStepOutside ==
  /\ ~done
  /\ illegal' = TRUE /\ done' = TRUE /\ mask' = AllActions /\ reward' = IllegalRewards(currentPlayer)
  /\ UNCHANGED <<cards, firstPlayer, currentPlayer, lastAction, chips, round, raiseCount>>

LeducNext == LeducReset \/ (\E a \in AllActions : LeducStep(a)) \/ LeducStepOutside

\* A player may fold exactly when there is a raise to answer, and is then the one
\* who is behind; a round begins with equal chips and has room for two raises.
FoldAnswersRaise ==
  ~done =>
    /\ 2 \in mask <=> chips[0] # chips[1]
    /\ chips[currentPlayer] <= chips[1 - currentPlayer]
    /\ lastAction = -1 => chips[0] = chips[1] /\ {0, 1} \subseteq mask

\* The chips of the rounds are bounded, and what changes hands is what the loser
\* has put in: a fold costs no more than was called, and a showdown is even.
LeducLoserPays ==
  /\ \A p \in Players : chips[p] <= 1 + 2 * 2 + 2 * 4 \/ illegal
  /\ done /\ ~illegal =>
       /\ reward[0] = -reward[1]
       /\ chips[0] = chips[1] => \A p \in Players : reward[p] \in {0, chips[0], -chips[0]}
       /\ \A p \in Players : chips[p] < chips[1 - p] => reward[p] = -chips[p]
=============================================================================
