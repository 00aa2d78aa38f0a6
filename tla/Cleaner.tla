------------------------------ MODULE Cleaner ------------------------------
(* jumanji/cleaner_env.h: agents that move at the same time clean the cells they
   come to. *)
EXTENDS Integers, FiniteSets, Sequences, FiniteSetsExt

CONSTANTS
  Rows, Cols,    \* kRows, kCols
  NumAgents,     \* kNumAgents
  WallSets,      \* the walls of cleaner_grid, or those the Bernoulli draws may give
  StartSets,     \* the cells of cleaner_agent_locations; {} when it is empty
  TimeLimit      \* kTimeLimit

VARIABLES starts, grid, at, stepCount, cleaned, done
vars == <<starts, grid, at, stepCount, cleaned, done>>

Cells == (0..(Rows - 1)) \X (0..(Cols - 1))
InGrid(c) == c \in Cells
Actions == 0..3
Moves == <<<<-1, 0>>, <<0, 1>>, <<1, 0>>, <<0, -1>>>>
Beside(c, a) == <<c[1] + Moves[a + 1][1], c[2] + Moves[a + 1][2]>>

Agents == 1..NumAgents
Dirty(g) == {c \in Cells : g[c] = "dirty"}
NoDirtyTiles(g) == Dirty(g) = {}

StartAt == IF starts = <<>> THEN [i \in Agents |-> <<0, 0>>] ELSE starts

\* Mutation: the cells the agents start on are left as they are.
GridUncleaned(walls) == [c \in Cells |-> IF c \in walls THEN "wall" ELSE "dirty"]

\* The cells the agents start on are clean, even where a wall was drawn.
GridOf(walls) ==
  [c \in Cells |-> IF \E i \in Agents : StartAt[i] = c THEN "clean"
                   ELSE IF c \in walls THEN "wall" ELSE "dirty"]

Init ==
  /\ starts \in StartSets
  /\ \E walls \in WallSets : grid = GridOf(walls)
  /\ at = StartAt
  /\ stepCount = 0 /\ cleaned = 0 /\ done = NoDirtyTiles(grid)

Reset ==
  /\ \E walls \in WallSets : grid' = GridOf(walls)
  /\ at' = StartAt
  /\ stepCount' = 0 /\ cleaned' = 0 /\ done' = NoDirtyTiles(grid')
  /\ UNCHANGED starts

IsActionValid(agent, a) == InGrid(Beside(at[agent], a)) /\ grid[Beside(at[agent], a)] # "wall"

\* Mutation: every agent counts the dirty cell it came to.
CleanedByEach(to) == Cardinality({i \in Agents : grid[to[i]] = "dirty"})

\* The agents clean one after the other, so that a cell counts once.
Cleaned(to) == Cardinality({to[i] : i \in Agents} \cap Dirty(grid))

\* The reward is the number of cells cleaned less the penalty of the step.
Step(action) ==
  LET valid == {i \in Agents : IsActionValid(i, action[i])}
      to == [i \in Agents |-> IF i \in valid THEN Beside(at[i], action[i]) ELSE at[i]]
  IN  /\ ~done
      /\ at' = to
      /\ cleaned' = Cleaned(to)
      /\ grid' = [c \in Cells |-> IF grid[c] = "dirty" /\ \E i \in Agents : to[i] = c THEN "clean" ELSE grid[c]]
      /\ stepCount' = stepCount + 1
      /\ done' = (valid # Agents \/ NoDirtyTiles(grid') \/ stepCount' >= TimeLimit)
      /\ UNCHANGED starts

Next == Reset \/ \E action \in [Agents -> Actions] : Step(action)

----------------------------------------------------------------------------
\* An agent always stands on a clean cell, from its first observation on and
\* wherever the walls were drawn.
AgentsOnClean == \A i \in Agents : grid[at[i]] = "clean"

\* The cells cleaned in an episode are paid once each, however many agents come to
\* one of them at the same time.
CleanedOnce ==
  stepCount' = stepCount + 1 => cleaned' = Cardinality(Dirty(grid)) - Cardinality(Dirty(grid'))

\* The inductive invariant: AgentsOnClean with the types it needs.
IInv ==
  /\ starts \in StartSets
  /\ grid \in [Cells -> {"clean", "dirty", "wall"}]
  /\ at \in [Agents -> Cells]
  /\ AgentsOnClean
============================================================================
