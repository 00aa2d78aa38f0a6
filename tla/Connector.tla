----------------------------- MODULE Connector -----------------------------
(* jumanji/connector_env.h: each agent draws a wire to its target, the agents of a
   step one after the other. *)
EXTENDS Integers, FiniteSets, Sequences, FiniteSetsExt

CONSTANTS
  Rows, Cols,   \* kGridSize
  NumAgents,    \* kNumAgents
  Layouts,      \* connector_grid: records [at, target]; the default one when empty
  TimeLimit     \* kTimeLimit

VARIABLES layout, grid, at, connected, stepCount, reward, done
vars == <<layout, grid, at, connected, stepCount, reward, done>>

Cells == (0..(Rows - 1)) \X (0..(Cols - 1))
InGrid(c) == c \in Cells
AgentActions == 0..4
Moves == <<<<0, 0>>, <<-1, 0>>, <<0, 1>>, <<1, 0>>, <<0, -1>>>>
After(c, a) == <<c[1] + Moves[a + 1][1], c[2] + Moves[a + 1][2]>>

Agents == 1..NumAgents
EmptyCell == <<"empty", 0>>

GridOf(l) ==
  [c \in Cells |-> IF \E i \in Agents : l.at[i] = c THEN <<"position", CHOOSE i \in Agents : l.at[i] = c>>
                   ELSE IF \E i \in Agents : l.target[i] = c THEN <<"target", CHOOSE i \in Agents : l.target[i] = c>>
                   ELSE EmptyCell]

Init ==
  /\ layout \in Layouts
  /\ grid = GridOf(layout) /\ at = layout.at
  /\ connected = [i \in Agents |-> layout.at[i] = layout.target[i]]
  /\ stepCount = 0 /\ reward = 0 /\ done = FALSE

Reset ==
  /\ grid' = GridOf(layout) /\ at' = layout.at
  /\ connected' = [i \in Agents |-> layout.at[i] = layout.target[i]]
  /\ stepCount' = 0 /\ reward' = 0 /\ done' = FALSE
  /\ UNCHANGED layout

\* Mutation: the grid of the beginning of the step is asked.
IsValidPositionBefore(s, i, c) ==
  InGrid(c) /\ ~s.connected[i] /\ grid[c] \in {EmptyCell, <<"target", i>>}

\* Mutation: an agent walks over the targets of the others.
IsValidPositionAnyTarget(s, i, c) ==
  InGrid(c) /\ ~s.connected[i] /\ s.grid[c][1] \in {"empty", "target"}

IsValidPosition(s, i, c) ==
  InGrid(c) /\ ~s.connected[i] /\ s.grid[c] \in {EmptyCell, <<"target", i>>}

IsBlocked(s, i) == \A a \in 1..4 : ~IsValidPosition(s, i, After(s.at[i], a))

\* One agent's part of the loop in Step.
Turn(s, i, a) ==
  LET c == After(s.at[i], a)
  IN  IF a = 0 \/ ~IsValidPosition(s, i, c) THEN s
      ELSE [grid |-> [s.grid EXCEPT ![s.at[i]] = <<"path", i>>, ![c] = <<"position", i>>],
            at |-> [s.at EXCEPT ![i] = c],
            connected |-> [s.connected EXCEPT ![i] = c = layout.target[i]]]

\* The reward, in hundredths, is the last unconnected agent's alone.
Step(action) ==
  LET after[i \in 0..NumAgents] ==
        IF i = 0 THEN [grid |-> grid, at |-> at, connected |-> connected]
        ELSE Turn(after[i - 1], i, action[i])
      s == after[NumAgents]
      open == {i \in Agents : ~connected[i]}
  IN  /\ ~done
      /\ grid' = s.grid /\ at' = s.at /\ connected' = s.connected
      /\ stepCount' = stepCount + 1
      /\ reward' = IF open = {} THEN 0 ELSE IF s.connected[Max(open)] THEN 100 ELSE -3
      /\ done' = (stepCount' >= TimeLimit \/ \A i \in Agents : IsBlocked(s, i))
      /\ UNCHANGED layout

Next == Reset \/ \E action \in [Agents -> AgentActions] : Step(action)

----------------------------------------------------------------------------
\* The grid and the arrays agree: every agent is shown once, where row_ and col_
\* have it, even when two agents of a step make for the same cell; and an agent is
\* connected exactly when it has taken the place of its target, which no other
\* agent ever covers.
GridShowsAgents ==
  \A i \in Agents :
    /\ {c \in Cells : grid[c] = <<"position", i>>} = {at[i]}
    /\ IF connected[i] THEN at[i] = layout.target[i]
       ELSE grid[layout.target[i]] = <<"target", i>>

\* The inductive invariant.
IInv ==
  /\ layout \in Layouts
  /\ grid \in [Cells -> {EmptyCell} \cup ({"path", "position", "target"} \X Agents)]
  /\ at \in [Agents -> Cells] /\ connected \in [Agents -> BOOLEAN]
  /\ GridShowsAgents

\* A wire is never taken away or drawn over while the episode lasts.
WiresStay ==
  stepCount' = stepCount + 1 =>
    \A c \in Cells : grid[c][1] \in {"path", "position"} =>
      grid'[c][2] = grid[c][2] /\ grid'[c][1] \in {"path", "position"}
============================================================================
