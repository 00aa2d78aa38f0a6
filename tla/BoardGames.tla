----------------------------- MODULE BoardGames -----------------------------
(* pgx/board_games.h, namespace board_games: what its games have in common.  A
   mask is the set of the legal actions; illegal is the local variable of Step,
   kept because an illegal action ends the episode as well. *)
EXTENDS Integers, FiniteSets, Sequences

CONSTANT Coins    \* the coins that Reset may throw for who begins, of {0, 1}

Players == 0..1
Zero == [p \in Players |-> 0]

\* The player who makes an illegal move loses.
IllegalRewards(loser) == [p \in Players |-> IF p = loser THEN -1 ELSE 1]

\* The rewards of a winner, a color or a player.
WinnerRewards(winner) == [p \in Players |-> IF p = winner THEN 1 ELSE -1]

\* Rewards by color as rewards by player, order[color] being the player.
PlayerRewards(colorRewards, order) ==
  [p \in Players |-> colorRewards[CHOOSE color \in Players : order[color] = p]]

Sign(v) == IF v > 0 THEN 1 ELSE IF v < 0 THEN -1 ELSE 0
Order(coin) == [color \in Players |-> IF color = 0 THEN coin ELSE 1 - coin]
=============================================================================
