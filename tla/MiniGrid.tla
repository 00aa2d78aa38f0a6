------------------------------ MODULE MiniGrid ------------------------------
(* The tasks of minigrid/ as they are played: MiniGridTask::Step with the BeforeStep and
   AfterStep of each task (minigrid_core.cc, minigrid_tasks.cc, minigrid_room_tasks.cc).
   A success is paid 1 (SuccessReward lowers it with the steps taken), and instead of
   counting steps any step of a task in CutShort may be the last that max_steps_ allows. *)
EXTENDS MiniGridLevels

CONSTANTS
  Levels,   \* what GenGrid of a task returns, as a function of the task
  View,     \* agent_view_size_
  CutShort  \* the tasks whose episodes may end without an outcome: max_steps_, a forced reset

VARIABLES level, world, obstacles, reward, done
vars == <<level, world, obstacles, reward, done>>

\* obstacle_pos_ of DynamicObstacles: the balls in the order of their numbers.
BallCells(grid) ==
  LET balls == {c \in DOMAIN grid : grid[c].type = "ball"}
  IN  [i \in 1 .. Cardinality(balls) |-> CHOOSE c \in balls : grid[c].uid = i]

Started(l) ==
  /\ level = l /\ world = l.first
  /\ obstacles = IF l.task = "dynamic_obstacles" THEN BallCells(l.first.grid) ELSE <<>>
  /\ reward = 0 /\ done = FALSE

Init == \E task \in DOMAIN Levels : \E l \in Levels[task] : Started(l)

\* Fetch, GoToObject and PutNear place their things before the agent, and off the cell
\* where the last episode left it, agent_pos_ not having been reset.
Reset ==
  \E l \in Levels[level.task] :
    /\ done
    /\ l.task \in {"fetch", "goto_object", "put_near"} => l.first.grid[world.agent] = Empty
    /\ level' = l /\ world' = l.first
    /\ obstacles' = IF l.task = "dynamic_obstacles" THEN BallCells(l.first.grid) ELSE <<>>
    /\ reward' = 0 /\ done' = FALSE

----------------------------------------------------------------------------
\* Mutation: a ball rolls over what is next to it.
CanRollAnywhere(state, c) == state.grid[c].type # "wall" /\ c # world.agent

CanRoll(state, c) == state.grid[c] = Empty /\ c # world.agent

\* Mutation: the list keeps the old position of the ball.
RolledUnlisted(state, i, c) ==
  [state EXCEPT !.grid = Put([state.grid EXCEPT ![state.at[i]] = Empty], c :> state.grid[state.at[i]])]

\* Ball i is put at cell c and taken from where it was.
Rolled(state, i, c) ==
  [grid |-> Put([state.grid EXCEPT ![state.at[i]] = Empty], c :> state.grid[state.at[i]]),
   at |-> [state.at EXCEPT ![i] = c]]

\* BeforeStep of DynamicObstacles: one after the other each ball moves to a free cell
\* around it, or stays if none was drawn in a hundred attempts.
Drifts ==
  FoldLeft(LAMBDA states, i :
             states \cup UNION {{Rolled(s, i, c) : c \in {d \in Beside8(s.at[i]) \cap DOMAIN s.grid : CanRoll(s, d)}} : s \in states},
           {[grid |-> world.grid, at |-> obstacles]},
           [i \in 1 .. Len(obstacles) |-> i])

MapAction(act) == IF level.task = "memory" /\ act = "pickup" THEN "toggle" ELSE act
ActionsOf(task) == IF task = "dynamic_obstacles" THEN {"left", "right", "forward"} ELSE Acts

----------------------------------------------------------------------------
Pays(won) == [reward |-> IF won THEN 1 ELSE 0, over |-> TRUE]
SameKind(o, p) == o.type = p.type /\ o.color = p.color

\* What walking onto a goal or lava does, before AfterStep.
Walked(w, act) ==
  LET front == w.grid[FrontPos(w)].type
  IN  CASE act = "forward" /\ front = "goal" -> Pays(TRUE)
        [] act = "forward" /\ front = "lava" -> Pays(FALSE)
        [] OTHER -> [reward |-> 0, over |-> FALSE]

\* Mutation: the blue door alone counts.
RedWasOpenUnchecked(before) == TRUE
\* red_open_before_
RedWasOpen(before) == before.grid[level.other].door = "open"

\* Mutation: dropping the thing anywhere will do.
NearTargetUnchecked(c) == TRUE
NearTarget(c) == c[1] - level.target[1] \in -1..1 /\ c[2] - level.target[2] \in -1..1

\* Mutation: picking up another thing does not end the episode.
PutNearIgnoresOthers(act, before, after) ==
  LET front == after.grid[FrontPos(after)]
  IN  CASE act = "drop" /\ before.carrying # Empty ->
             Pays(SameKind(front, before.carrying) /\ NearTarget(FrontPos(after)))
        [] OTHER -> [reward |-> 0, over |-> FALSE]

\* AfterStep of PutNear, which goes by where its target was placed.
PutNear(act, before, after) ==
  LET front == after.grid[FrontPos(after)]
  IN  CASE act = "pickup" /\ after.carrying # Empty /\ ~SameKind(after.carrying, level.wanted) -> Pays(FALSE)
        [] act = "drop" /\ before.carrying # Empty ->
             Pays(SameKind(front, before.carrying) /\ NearTarget(FrontPos(after)))
        [] OTHER -> [reward |-> 0, over |-> FALSE]

\* AfterStep; seen is the thing that was in front before BeforeStep.
Judged(act, seen, before, after) ==
  CASE level.task = "fetch" /\ after.carrying # Empty -> Pays(SameKind(after.carrying, level.wanted))
    [] level.task \in {"goto_door", "goto_object"} /\ act = "toggle" -> Pays(FALSE)
    [] level.task \in {"goto_door", "goto_object"} /\ act = "done" -> Pays(level.target \in Beside4(after.agent))
    [] level.task = "put_near" -> PutNear(act, before, after)
    [] level.task = "red_blue_door" /\ after.grid[level.target].door = "open" -> Pays(RedWasOpen(before))
    [] level.task = "red_blue_door" /\ after.grid[level.other].door = "open" /\ before.grid[level.target].door = "open" ->
         Pays(FALSE)
    [] level.task = "memory" /\ after.agent \in {level.target, level.other} -> Pays(after.agent = level.target)
    [] level.task = "unlock" /\ act = "toggle" /\ after.grid[level.target].door = "open" -> Pays(TRUE)
    [] level.task \in {"unlock_pickup", "key_corridor", "obstructed_maze"} /\ act = "pickup" /\ SameKind(after.carrying, level.wanted) -> Pays(TRUE)
    [] level.task = "dynamic_obstacles" /\ act = "forward" /\ seen.type \notin {"goal", "empty"} ->
         [reward |-> -1, over |-> TRUE]
    [] OTHER -> Walked(before, act)

Step(action) ==
  \E drift \in Drifts :
    LET act == MapAction(action)
        before == [world EXCEPT !.grid = drift.grid]
        after == Acted(before, act)
        verdict == Judged(act, world.grid[FrontPos(world)], before, after)
    IN  /\ ~done
        /\ world' = after /\ obstacles' = drift.at
        /\ reward' = verdict.reward
        /\ done' \in {verdict.over, verdict.over \/ level.task \in CutShort}
        /\ UNCHANGED level

Next == Reset \/ \E action \in ActionsOf(level.task) : Step(action)

----------------------------------------------------------------------------
\* Nothing of a level is lost or doubled by carrying, dropping and opening, the agent
\* stands where it can, never at the edge (where Step would look outside the grid), and
\* locked rooms are only entered with their keys.
WorldStaysWhole ==
  /\ AllInPlace(level.first, world)
  /\ CanOverlap(world.grid[world.agent])
  /\ ~done => Beside4(world.agent) \subseteq DOMAIN world.grid
  /\ LocksHold(level.first, level.home, world)

\* The list of obstacles is where the balls are, each in a cell of its own.
ObstaclesListed ==
  level.task = "dynamic_obstacles" =>
    /\ IsInjective(obstacles)
    /\ Range(obstacles) = {c \in DOMAIN world.grid : world.grid[c].type = "ball"}

\* Every level that is generated can be won.
LevelCanBeWon == CanBeWon(level)

\* The tasks that do not see through walls: the picture shows nothing of a closed room.
NothingSeenThroughWalls ==
  level.task \in {"doorkey", "red_blue_door", "memory", "unlock", "unlock_pickup", "key_corridor",
                 "obstructed_maze", "crossing"} =>
    SeesTheOpen(world, View)

\* While the episode goes on what AfterStep takes for granted still holds: the thing to be
\* put down is the only one that was picked up, and the blue door has not been opened.
NotYetDecided ==
  ~done =>
    /\ level.task = "put_near" => world.carrying = Empty \/ SameKind(world.carrying, level.wanted)
    /\ level.task = "red_blue_door" => world.grid[level.target].door = "closed"

\* What is paid for has been done, told from the grid and not from the positions that
\* the task noted: the things are near each other unless the target was a box and has
\* been opened, the agent is beside the thing it saw first, both doors are open, no door
\* is locked any more.
PaidIsDone ==
  (~done /\ reward' = 1) =>
    /\ level.task = "put_near" =>
         /\ SameKind(world'.grid[FrontPos(world')], level.wanted)
         /\ \/ level.first.grid[level.target].type = "box"
            \/ \E c \in Beside8(FrontPos(world')) \cap DOMAIN world'.grid :
                 SameKind(world'.grid[c], level.first.grid[level.target])
    /\ level.task = "memory" =>
         \E c \in Beside4(world'.agent) : SameKind(world'.grid[c], level.wanted)
    /\ level.task = "red_blue_door" =>
         world'.grid[level.target].door = "open" /\ world'.grid[level.other].door = "open"
    /\ level.task \in {"unlock", "unlock_pickup", "key_corridor", "obstructed_maze"} => LockedDoors(world'.grid) = {}
=============================================================================
