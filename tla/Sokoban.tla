------------------------------ MODULE Sokoban ------------------------------
(* jumanji/sokoban_env.h: one agent pushes boxes onto targets. *)
EXTENDS Integers, FiniteSets, Sequences

CONSTANTS
  Rows, Cols,        \* kGridSize
  Levels,            \* the dataset: records [wall, target, box, agent] of cells
  NumBoxes,          \* kNumBoxes
  MaxEpisodeSteps

VARIABLES level, variable, agent, elapsed, reward, done
vars == <<level, variable, agent, elapsed, reward, done>>

Cells == (0..(Rows - 1)) \X (0..(Cols - 1))
Actions == 0..3
Moves == <<<<-1, 0>>, <<0, 1>>, <<1, 0>>, <<0, -1>>>>
Beside(c, a) == <<c[1] + Moves[a + 1][1], c[2] + Moves[a + 1][2]>>

Boxes(v) == {c \in Cells : v[c] = "box"}
CountTargets(v) == Cardinality(Boxes(v) \cap level.target)
VariableOf(l) ==
  [c \in Cells |-> IF c = l.agent THEN "agent" ELSE IF c \in l.box THEN "box" ELSE "empty"]

Init ==
  /\ level \in Levels
  /\ variable = VariableOf(level) /\ agent = level.agent
  /\ elapsed = 0 /\ reward = 0 /\ done = FALSE

Reset ==
  /\ level' \in Levels
  /\ variable' = VariableOf(level') /\ agent' = level'.agent
  /\ elapsed' = 0 /\ reward' = 0 /\ done' = FALSE

\* Mutation: a box is pushed onto another one.
IsNoopOntoBox(a) ==
  LET next == Beside(agent, a)
      behind == Beside(next, a)
  IN  \/ next \notin Cells \/ next \in level.wall
      \/ variable[next] = "box" /\ (behind \notin Cells \/ behind \in level.wall)

IsNoop(a) ==    \* DetectNoop
  LET next == Beside(agent, a)
      behind == Beside(next, a)
  IN  \/ next \notin Cells \/ next \in level.wall
      \/ /\ variable[next] = "box"
         /\ behind \notin Cells \/ behind \in level.wall \/ variable[behind] = "box"

\* Mutation: the box follows the agent.
MoveAgentPulling(a) ==
  LET next == Beside(agent, a)
  IN  /\ variable' = [c \in Cells |->
           CASE c = next -> "agent"
             [] c = agent -> IF variable[next] = "box" THEN "box" ELSE "empty"
             [] OTHER -> variable[c]]
      /\ agent' = next

MoveAgent(a) ==
  LET next == Beside(agent, a)
      pushesBox == variable[next] = "box"
  IN  /\ variable' = [c \in Cells |->
           CASE c = next -> "agent"
             [] c = agent -> "empty"
             [] c = Beside(next, a) /\ pushesBox -> "box"
             [] OTHER -> variable[c]]
      /\ agent' = next

\* The reward in tenths: +1 and -1 for a box on and off a target, 10 when solved.
Step(a) ==
  /\ ~done
  /\ IF IsNoop(a) THEN UNCHANGED <<variable, agent>> ELSE MoveAgent(a)
  /\ elapsed' = elapsed + 1
  /\ LET solved == CountTargets(variable') = NumBoxes
     IN  /\ done' = (solved \/ elapsed' >= MaxEpisodeSteps)
         /\ reward' = 10 * (CountTargets(variable') - CountTargets(variable))
                      + (IF solved THEN 100 ELSE 0) - 1
  /\ UNCHANGED level

Next == Reset \/ \E a \in Actions : Step(a)

----------------------------------------------------------------------------
\* Pushing neither makes nor destroys a box, puts none into a wall, and the grid
\* shows the agent exactly where agent_row_ and agent_col_ say it is.
BoxesConserved ==
  /\ Cardinality(Boxes(variable)) = Cardinality(level.box)
  /\ Boxes(variable) \cap level.wall = {}
  /\ {c \in Cells : variable[c] = "agent"} = {agent} /\ agent \notin level.wall

\* A box moves only by being pushed: it is the one the agent walks into, and it
\* goes one cell further in the same direction.
BoxesArePushed ==
  elapsed' = elapsed + 1 /\ Boxes(variable') # Boxes(variable) =>
    \E a \in Actions :
      /\ agent' = Beside(agent, a)
      /\ Boxes(variable) \ Boxes(variable') = {agent'}
      /\ Boxes(variable') \ Boxes(variable) = {Beside(agent', a)}
=============================================================================
