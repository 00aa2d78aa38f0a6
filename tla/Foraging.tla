------------------------------ MODULE Foraging ------------------------------
(* jumanji/level_based_foraging_env.h: two agents pick up food that may need both. *)
EXTENDS Integers, FiniteSets, Sequences, FiniteSetsExt

CONSTANTS
  Rows, Cols,    \* kGridSize
  Setups,        \* lbf_agents and lbf_food: records [at, level, food, foodLevel]
  TimeLimit      \* kTimeLimit

VARIABLES setup, at, eaten, stepCount, reward, done
vars == <<setup, at, eaten, stepCount, reward, done>>

Cells == (0..(Rows - 1)) \X (0..(Cols - 1))
InGrid(c) == c \in Cells
AgentActions == 0..4
Moves == <<<<0, 0>>, <<-1, 0>>, <<1, 0>>, <<0, -1>>, <<0, 1>>>>
After(c, a) == <<c[1] + Moves[a + 1][1], c[2] + Moves[a + 1][2]>>

Agents == 1..2
Foods == 1..2
Load == 5
Adjacent(c, d) == \E a \in AgentActions \ {0} : After(c, a) = d

Init == setup \in Setups /\ at = setup.at /\ eaten = {} /\ stepCount = 0 /\ reward = 0 /\ done = FALSE

Reset ==
  /\ at' = setup.at /\ eaten' = {} /\ stepCount' = 0 /\ reward' = 0 /\ done' = FALSE
  /\ UNCHANGED setup

IsFree(i, c) ==
  /\ InGrid(c)
  /\ \A f \in Foods \ eaten : setup.food[f] # c
  /\ \A j \in Agents \ {i} : at[j] # c

\* Mutation: the first agent goes on into the cell both have chosen.
MovedFirst(to) == to

\* When both have chosen the same cell neither moves.
Moved(to) == IF to[1] = to[2] THEN at ELSE to

\* Mutation: food is counted again each time it is loaded.
LoadedAgain(loading, where) ==
  {f \in Foods : MapThenSumSet(LAMBDA i : setup.level[i], {i \in loading : Adjacent(where[i], setup.food[f])})
                   >= setup.foodLevel[f]}

\* The food whose neighbours that load are strong enough together.
Loaded(loading, where) ==
  {f \in Foods \ eaten :
     MapThenSumSet(LAMBDA i : setup.level[i], {i \in loading : Adjacent(where[i], setup.food[f])})
       >= setup.foodLevel[f]}

\* The reward in units of the total food level.
Step(action) ==
  LET loading == {i \in Agents : action[i] = Load}
      to == [i \in Agents |->
               IF i \notin loading /\ IsFree(i, After(at[i], action[i])) THEN After(at[i], action[i]) ELSE at[i]]
      where == Moved(to)
      loaded == Loaded(loading, where)
  IN  /\ ~done
      /\ at' = where
      /\ eaten' = eaten \cup loaded
      /\ reward' = MapThenSumSet(LAMBDA f : setup.foodLevel[f], loaded)
      /\ stepCount' = stepCount + 1
      /\ done' = (eaten' = Foods \/ stepCount' >= TimeLimit)
      /\ UNCHANGED setup

Next == Reset \/ \E action \in [Agents -> AgentActions \cup {Load}] : Step(action)

----------------------------------------------------------------------------
\* The agents and the food that is left are all in different cells, although the
\* moves are judged by where the agents were before the step.
EntitiesApart ==
  /\ at[1] # at[2]
  /\ \A i \in Agents, f \in Foods \ eaten : at[i] # setup.food[f]

\* Each piece of food is paid once, in the step it disappears, so that the rewards
\* of an episode never exceed the whole.
FoodPaidOnce ==
  stepCount' = stepCount + 1 =>
    reward' = MapThenSumSet(LAMBDA f : setup.foodLevel[f], eaten' \ eaten)

\* The inductive invariant.
IInv == setup \in Setups /\ at \in [Agents -> Cells] /\ eaten \subseteq Foods /\ EntitiesApart
=============================================================================
