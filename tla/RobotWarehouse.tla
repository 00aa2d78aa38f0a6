--------------------------- MODULE RobotWarehouse ---------------------------
(* jumanji/robot_warehouse_env.h: robots that move at the same time.  A configured
   view, which freezes the robots, is left out. *)
EXTENDS Integers, FiniteSets, Sequences

CONSTANTS Rows, Cols, NumAgents, TimeLimit     \* kGridSize, kNumAgents, kTimeLimit

VARIABLES at, stepCount, reward, done
vars == <<at, stepCount, reward, done>>

Cells == (0..(Rows - 1)) \X (0..(Cols - 1))
InGrid(c) == c \in Cells
AgentActions == 0..4
Moves == <<<<0, 0>>, <<-1, 0>>, <<0, 1>>, <<1, 0>>, <<0, -1>>>>
After(c, a) == <<c[1] + Moves[a + 1][1], c[2] + Moves[a + 1][2]>>

Agents == 1..NumAgents

Init == at = [i \in Agents |-> <<i - 1, 0>>] /\ stepCount = 0 /\ reward = 0 /\ done = FALSE

Reset == at' = [i \in Agents |-> <<i - 1, 0>>] /\ stepCount' = 0 /\ reward' = 0 /\ done' = FALSE

\* Mutation: a cell a robot is leaving counts as free.
IsFreeWhenLeft(i, c) == InGrid(c)

IsFree(i, c) == InGrid(c) /\ \A j \in Agents \ {i} : at[j] # c

\* Mutation: only neighbours in the loop are compared.
ConflictNextOnly(to) == \E i \in 1..(NumAgents - 1) : to[i] = to[i + 1]
Conflict(to) == \E i, j \in Agents : i < j /\ to[i] = to[j]

\* One bad move spoils the step for all the robots.
Step(action) ==
  LET free == {i \in Agents : IsFree(i, After(at[i], action[i]))}
      to == [i \in Agents |-> IF i \in free THEN After(at[i], action[i]) ELSE at[i]]
      valid == free = Agents /\ ~Conflict(to)
  IN  /\ ~done
      /\ at' = IF valid THEN to ELSE at
      /\ stepCount' = stepCount + 1
      /\ reward' = IF valid THEN 0 ELSE -1
      /\ done' = (~valid \/ stepCount' >= TimeLimit)

Next == Reset \/ \E action \in [Agents -> AgentActions] : Step(action)

----------------------------------------------------------------------------
\* Two robots are never in the same cell, although each move is judged by where
\* the others were before the step.
RobotsApart == \A i, j \in Agents : i # j => at[i] # at[j]

\* No robot enters a cell that another one is leaving: robots neither swap nor
\* follow each other through the same cell in one step.
NoSwap ==
  stepCount' = stepCount + 1 => \A i, j \in Agents : i # j => at'[i] # at[j]

\* The inductive invariant.
IInv == at \in [Agents -> Cells] /\ RobotsApart
=============================================================================
