------------------------------ MODULE MarlGrid ------------------------------
(* marlgrid/marlgrid.h: several agents on one grid, who act in an order that is drawn
   anew in each step.  A payment is 1, 0 or -1, as its decay with time keeps its sign;
   prestige and pixels are left out.  GenGrid makes no lava. *)
EXTENDS Integers, FiniteSets, FiniteSetsExt, Sequences, SequencesExt

CONSTANT Configs  \* the options of a pool, and the spots and turns that random numbers fall on

VARIABLES config, grid, agents, here, stepCount, rewards, done, laps
vars == <<config, grid, agents, here, stepCount, rewards, done, laps>>

M == INSTANCE MiniGridLevels WITH Colors <- {}
----------------------------------------------------------------------------
\* GenGrid: a thing is [type, id], and goalcycle has bonus tiles instead of the goal.
Thing(type, id) == [type |-> type, id |-> id]
Empty == Thing("empty", 0)
RandomThings(o) ==
  (CASE o.name = "goalcycle" -> [i \in 1 .. o.bonusTiles |-> Thing("bonus", i - 1)]
     [] o.name # "goalcycle" /\ o.randomizeGoal -> <<Thing("goal", 0)>>
     [] OTHER -> <<>>)
  \o [i \in 1 .. o.clutter |-> Thing("wall", 0)]

Cleared(o) ==
  [c \in M!Cells(o.size, o.size) |->
     IF c[1] \in {0, o.size - 1} \/ c[2] \in {0, o.size - 1} THEN Thing("wall", 0)
     ELSE IF o.name # "goalcycle" /\ ~o.randomizeGoal /\ c = <<o.size - 2, o.size - 2>> THEN Thing("goal", 0)
     ELSE Empty]

GenGrid(o) ==
  LET things == RandomThings(o)
      spots == {c \in o.spots : Cleared(o)[c] = Empty}
      Placed(at) == [c \in DOMAIN Cleared(o) |->
                       IF \E i \in DOMAIN at : at[i] = c THEN things[CHOOSE i \in DOMAIN at : at[i] = c] ELSE Cleared(o)[c]]
  IN  {Placed(at) : at \in {f \in [DOMAIN things -> spots] : IsInjective(f)}}

----------------------------------------------------------------------------
\* What a step works on: the agents, who is in each cell in the order they came, and what
\* each agent is paid.
Place(as, cells, pay) == [here |-> cells, agents |-> as, pay |-> pay]
Ids(o) == 0 .. o.agents - 1

With(f, x, y) == [z \in DOMAIN f |-> IF z = x THEN y ELSE f[z]]

\* Whoever is in a cell is there once.
Without(s, a) ==
  LET k == CHOOSE i \in DOMAIN s : s[i] = a
  IN  IF \E i \in DOMAIN s : s[i] = a
      THEN [i \in 1 .. Len(s) - 1 |-> IF i < k THEN s[i] ELSE s[i + 1]]
      ELSE s

\* RemoveAgentFromCell.
Left(p, a) ==
  LET at == p.agents[a].at
  IN  IF at \in DOMAIN p.here THEN [p EXCEPT !.here = With(p.here, at, Without(p.here[at], a))] ELSE p

\* Mutation: an agent is also kept in the cell it leaves.
MovedLeavingTrace(p, a, c) ==
  Place([p.agents EXCEPT ![a].at = c], With(p.here, c, Append(p.here[c], a)), p.pay)

\* MoveAgentTo.
Moved(p, a, c) ==
  LET left == Left(p, a)
  IN  Place([left.agents EXCEPT ![a].at = c], With(left.here, c, Append(left.here[c], a)), left.pay)

\* An agent is put down in c, facing d.
Arrived(p, a, c, d) ==
  Place([p.agents EXCEPT ![a] = [@ EXCEPT !.at = c, !.dir = d, !.active = TRUE]],
        With(p.here, c, Append(p.here[c], a)), p.pay)

\* PlaceAgent: every result it can have.
Put(o, g, p, a) ==
  LET cells == {c \in o.spots : g[c] = Empty /\ (o.ghost \/ p.here[c] = <<>>)}
  IN  {Arrived(p, a, c, d) : c \in cells, d \in o.turns}

\* PlaceAgent for each agent of a set in turn, in each of some states.
PutAll(o, g, p, some) ==
  LET after[k \in 0 .. o.agents] ==
        IF k = 0 THEN {p}
        ELSE IF k - 1 \in some THEN UNION {Put(o, g, q, k - 1) : q \in after[k - 1]}
        ELSE after[k - 1]
  IN  after[o.agents]

----------------------------------------------------------------------------
Before(o, id) == (id + o.bonusTiles - 1) % o.bonusTiles
Since(o, state, id) == IF state < 0 THEN Before(o, id) ELSE state
IsNext(o, state, id) ==
  LET previous == Since(o, state, id)
  IN  previous # id /\ (previous + 1) % o.bonusTiles = id

\* Mutation: what counts is the tile that was visited last, with and without reset_on_mistake.
BonusStateAlways(o, state, id) == id

\* BonusReward: the state it leaves and what it pays.
BonusState(o, state, id) ==
  IF IsNext(o, state, id) \/ o.resetOnMistake THEN id ELSE Since(o, state, id)

BonusReward(o, state, id) ==
  IF state < 0 /\ ~o.initialReward THEN 0 ELSE IF IsNext(o, state, id) THEN 1 ELSE -1

\* Mutation: an agent moves without looking who is in front of it.
CanMoveOnto(o, g, p, c) == g[c].type # "wall"

CanMove(o, g, p, c) == g[c].type # "wall" /\ (o.ghost \/ p.here[c] = <<>>)

\* DoAgentStep.
DoAgentStep(o, g, p, a, act) ==
  LET agent == p.agents[a]
      front == <<agent.at[1] + M!DirVec(agent.dir)[1], agent.at[2] + M!DirVec(agent.dir)[2]>>
      moved == Moved(p, a, front)
      id == g[front].id
  IN  CASE ~agent.active -> p
        [] agent.active /\ act = "left" -> [p EXCEPT !.agents[a].dir = (agent.dir + 3) % 4]
        [] agent.active /\ act = "right" -> [p EXCEPT !.agents[a].dir = (agent.dir + 1) % 4]
        [] agent.active /\ act = "forward" /\ CanMove(o, g, p, front) ->
             (CASE g[front].type = "goal" ->
                     Place([moved.agents EXCEPT ![a].done = TRUE], moved.here, With(moved.pay, a, 1))
                [] g[front].type = "bonus" ->
                     Place([moved.agents EXCEPT ![a].bonus = BonusState(o, agent.bonus, id)], moved.here,
                           With(moved.pay, a, BonusReward(o, agent.bonus, id)))
                [] OTHER -> moved)
        [] OTHER -> p

\* The end of Step: an agent that is done is put back on the grid or no longer active.
Retired(o, g, p, a) ==
  CASE ~p.agents[a].done -> {p}
    [] p.agents[a].done /\ o.respawn -> Put(o, g, [Left(p, a) EXCEPT !.agents[a].done = FALSE], a)
    [] OTHER -> {[p EXCEPT !.agents[a].active = FALSE]}
RetiredAll(o, g, p) ==
  LET after[k \in 0 .. o.agents] ==
        IF k = 0 THEN {p} ELSE UNION {Retired(o, g, q, k - 1) : q \in after[k - 1]}
  IN  after[o.agents]

----------------------------------------------------------------------------
Nowhere == [done |-> FALSE, at |-> <<-1, -1>>, dir |-> 0, active |-> FALSE, bonus |-> -1]
NoLap == [first |-> -1, paid |-> 0, last |-> -1]
NoPay(o) == [a \in Ids(o) |-> 0]
AsLeft(o) == Place([a \in Ids(o) |-> Nowhere], [c \in M!Cells(o.size, o.size) |-> <<>>], NoPay(o))

Init ==
  \E o \in Configs : \E g \in GenGrid(o) : \E p \in PutAll(o, g, AsLeft(o), Ids(o)) :
    /\ config = o /\ grid = g /\ agents = p.agents /\ here = p.here
    /\ stepCount = 0 /\ rewards = NoPay(o) /\ done = FALSE
    /\ laps = [a \in Ids(o) |-> NoLap]

\* The direction of an agent is the only thing of the last episode that is not cleared,
\* and it is drawn when the agent is placed: in mid-episode, when the user asks for it, it
\* leads to the same states.
Reset ==
  \E g \in GenGrid(config) : \E p \in PutAll(config, g, AsLeft(config), Ids(config)) :
    /\ done
    /\ grid' = g /\ agents' = p.agents /\ here' = p.here
    /\ stepCount' = 0 /\ rewards' = NoPay(config) /\ done' = FALSE
    /\ laps' = [a \in Ids(config) |-> NoLap]
    /\ UNCHANGED config

\* The bonus tiles an agent has come to: history.
LapAfter(a, p) ==
  LET tile == grid[p.agents[a].at]
      lap == laps[a]
  IN  IF tile.type = "bonus" /\ p.agents[a].at # agents[a].at
      THEN [first |-> IF lap.first < 0 THEN tile.id ELSE lap.first,
            paid |-> lap.paid + (IF p.pay[a] = 1 THEN 1 ELSE 0), last |-> tile.id]
      ELSE lap

\* DoAgentStep for each agent in the order that was drawn.
Acted(o, g, p, act, order) ==
  LET after[k \in 0 .. o.agents] ==
        IF k = 0 THEN p ELSE DoAgentStep(o, g, after[k - 1], order[k], act[order[k]])
  IN  after[o.agents]

Step(act, order) ==
  \E p \in PutAll(config, grid, Place(agents, here, NoPay(config)),
                  {a \in Ids(config) : ~agents[a].active /\ ~agents[a].done}) :
    \E q \in RetiredAll(config, grid, Acted(config, grid, p, act, order)) :
      /\ ~done
      /\ agents' = q.agents /\ here' = q.here /\ rewards' = q.pay
      /\ stepCount' = stepCount + 1
      /\ done' = (stepCount' >= config.maxEpisodeSteps \/ \A a \in Ids(config) : q.agents[a].done)
      /\ laps' = [a \in Ids(config) |-> LapAfter(a, q)]
      /\ UNCHANGED <<config, grid>>

\* "done" stands for the four actions that do nothing.
Acts == {"left", "right", "forward", "done"}
\* What the shuffle may give.
Orders(o) == {f \in [1 .. o.agents -> Ids(o)] : IsInjective(f)}
Next ==
  \/ Reset
  \/ \E act \in [Ids(config) -> Acts], order \in Orders(config) : Step(act, order)

----------------------------------------------------------------------------
\* The picture of an agent: cells <<x, y>> with the agent's own at the middle of a row
\* near the last.
ViewCells(o) == M!Cells(o.viewSize, o.viewSize)
OwnCell(o) == <<o.viewSize \div 2, o.viewSize - 1 - o.viewOffset>>

RotateCoord(x, y, size, k) ==
  CASE k = 1 -> <<size - 1 - y, x>>
    [] k = 2 -> <<size - 1 - x, size - 1 - y>>
    [] k = 3 -> <<y, size - 1 - x>>
    [] OTHER -> <<x, y>>

ViewTopLeft(o, agent) ==
  LET x == agent.at[1]
      y == agent.at[2]
      half == o.viewSize \div 2
      far == o.viewSize - 1 - o.viewOffset
  IN  CASE agent.dir = 0 -> <<x - o.viewOffset, y - half>>
        [] agent.dir = 1 -> <<x - half, y - o.viewOffset>>
        [] agent.dir = 2 -> <<x - far, y - half>>
        [] agent.dir = 3 -> <<x - half, y - far>>

\* AgentViewCells: the cell of the grid that is at v.
ViewCell(o, agent, v) ==
  LET s == RotateCoord(v[1], v[2], o.viewSize, (agent.dir + 1) % 4)
      top == ViewTopLeft(o, agent)
  IN  <<top[1] + s[1], top[2] + s[2]>>

CanSeeBehind(o, agent, v) ==
  LET c == ViewCell(o, agent, v) IN c \in DOMAIN grid => grid[c].type # "wall"

\* The order in which VisibilityMask is spread, with the directions it is spread to:
\* rows upwards, then rows downwards from the agent's, each to the right and to the left.
Row(o, y, up) ==
  LET ax == OwnCell(o)[1]
  IN  [i \in 1 .. o.viewSize - ax |-> <<ax + i - 1, y, 1, up>>] \o
      [i \in 1 .. ax + 1 |-> <<ax + 2 - i, y, -1, up>>]
Sweep(o) ==
  LET ay == OwnCell(o)[2]
      lowest == Min({ay + 1, o.viewSize - 1})
  IN  FlattenSeq([i \in 1 .. lowest |-> Row(o, lowest + 1 - i, -1)]) \o
      FlattenSeq([i \in 1 .. o.viewSize - ay |-> Row(o, ay + i - 1, 1)])

\* Mutation: walls are seen through.
SpreadOverWalls(o, agent, mask, s) ==
  IF <<s[1], s[2]>> \in mask
  THEN mask \cup ({<<s[1] + s[3], s[2]>>, <<s[1], s[2] + s[4]>>, <<s[1] + s[3], s[2] + s[4]>>} \cap ViewCells(o))
  ELSE mask

Spread(o, agent, mask, s) ==
  IF <<s[1], s[2]>> \in mask /\ CanSeeBehind(o, agent, <<s[1], s[2]>>)
  THEN mask \cup ({<<s[1] + s[3], s[2]>>, <<s[1], s[2] + s[4]>>, <<s[1] + s[3], s[2] + s[4]>>} \cap ViewCells(o))
  ELSE mask

VisibilityMask(o, agent) == FoldLeft(LAMBDA mask, s : Spread(o, agent, mask, s), {OwnCell(o)}, Sweep(o))

\* TopAgentForCell: who is shown in a cell that somebody is in; nobody is -1.
TopAgentForCell(c, a) ==
  LET active == IF c \in DOMAIN here THEN SelectSeq(here[c], LAMBDA b : agents[b].active) ELSE <<>>
  IN  CASE active = <<>> -> -1
        [] active # <<>> /\ a \in ToSet(active) -> a
        [] OTHER -> Head(active)

\* Mutation: directions are turned the wrong way round.
ShownDirBackwards(agent, other) == (other.dir + 3 + agent.dir) % 4

\* WriteMatrixAgentTile: the direction that an agent sees another one face.
ShownDir(agent, other) == (other.dir + 3 - agent.dir) % 4

----------------------------------------------------------------------------
\* An agent that has been placed is in one cell, once, and the cell is no wall; without
\* ghost mode it is there alone, also after it is done.
AgentsInPlace ==
  \A a \in Ids(config) :
    LET at == agents[a].at
    IN  /\ {c \in DOMAIN here : Contains(here[c], a)} = {at}
        /\ grid[at].type # "wall"
        /\ IsInjective(here[at])
        /\ config.ghost \/ here[at] = <<a>>

\* What an agent sees is on the grid and in the open or bounds it, itself at its own
\* cell; who is shown there faces, in the picture, the cell that it faces on the grid.
PictureIsTrue ==
  \A a \in {b \in Ids(config) : agents[b].active} :
    LET agent == agents[a]
        seen == VisibilityMask(config, agent)
        Cell(v) == ViewCell(config, agent, v)
        open == {c \in DOMAIN grid : grid[c].type # "wall"}
    IN  /\ {Cell(v) : v \in seen} \subseteq
             M!Reach([c \in DOMAIN grid |-> M!Beside8(c) \cap DOMAIN grid], open, {agent.at})
        /\ Cell(OwnCell(config)) = agent.at
        /\ \A v \in seen :
             LET b == TopAgentForCell(Cell(v), a)
                 d == M!DirVec(ShownDir(agent, agents[b]))
                 e == M!DirVec(agents[b].dir)
             IN  /\ v = OwnCell(config) => b = a
                 /\ b >= 0 => Cell(<<v[1] + d[1], v[2] + d[2]>>) = <<Cell(v)[1] + e[1], Cell(v)[2] + e[2]>>

\* Bonus tiles pay in their cycle: how far an agent has come is told by the tile it began
\* with and how often it was paid, or, when mistakes reset it, by its last tile.
BonusesFollowCycle ==
  \A a \in Ids(config) :
    laps[a].first >= 0 =>
      agents[a].bonus =
        (IF config.resetOnMistake THEN laps[a].last
         ELSE (laps[a].first + laps[a].paid - (IF config.initialReward THEN 1 ELSE 0)) % config.bonusTiles)

\* The inductive invariant behind AgentsInPlace: whoever is not active is done.
IInv ==
  /\ config \in Configs
  /\ DOMAIN grid = M!Cells(config.size, config.size)
  /\ \A c \in DOMAIN grid :
       /\ c[1] \in {0, config.size - 1} \/ c[2] \in {0, config.size - 1} => grid[c].type = "wall"
       /\ grid[c].type = "bonus" => grid[c].id \in 0 .. config.bonusTiles - 1
  /\ here \in [DOMAIN grid -> Seq(Ids(config))]
  /\ agents \in [Ids(config) -> [done : BOOLEAN, at : DOMAIN grid, dir : 0..3, active : BOOLEAN, bonus : Int]]
  /\ \A a \in Ids(config) : agents[a].active \/ agents[a].done
  /\ AgentsInPlace
============================================================================
