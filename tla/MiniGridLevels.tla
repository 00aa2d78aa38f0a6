--------------------------- MODULE MiniGridLevels ---------------------------
(* What every task of minigrid/ is made of, and the levels its tasks start from.

   The first part is the world: things on a grid, an agent that turns, walks, carries one
   thing and toggles doors and boxes, and the picture it sees (minigrid_core.cc, utils.h,
   minigrid_render.cc).  A world is a record [grid, agent, dir, carrying]; a cell is
   <<x, y>> with y downwards.

   The second part is what GenGrid of the tasks of minigrid/ can return (minigrid_tasks.cc,
   minigrid_room_tasks.cc), as functions of the size of the grid.  A level is a record
   [task, first, home, target, other, wanted]: first is the world at the start, home what
   can be walked to from there, target the cell the mission is about (goal_pos_,
   target_pos_ or success_pos_), other the second one of some tasks, wanted the thing.
   Colors and types that are drawn are Colors and the two of Types.

   The third part is what GenMission of BabyAI tasks can return (babyai_open_tasks.cc,
   babyai_unlock_tasks.cc, babyai_core.cc), in one row of rooms.  A level is then a record
   [first, room, mission, home]: room has the cells of the room the agent starts in. *)
EXTENDS Integers, FiniteSets, Sequences, SequencesExt, TLC

CONSTANT Colors

\* WorldObj: door is "open", "closed" or "locked" for doors, inside holds what a box contains.
Thing(type, color, uid) == [type |-> type, color |-> color, uid |-> uid, door |-> "none", inside |-> <<>>]
Door(color, lock, uid) == [Thing("door", color, uid) EXCEPT !.door = lock]
Box(color, uid, things) == [Thing("box", color, uid) EXCEPT !.inside = things]
Empty == Thing("empty", "red", -1)
Wall == Thing("wall", "grey", -1)

\* Mutation: a closed door lets the agent through.
OverlapAnyDoor(o) == o.type \notin {"wall", "key", "ball", "box"}

CanOverlap(o) ==
  IF o.type = "door" THEN o.door = "open" ELSE o.type \notin {"wall", "key", "ball", "box"}

\* Mutation: doors are looked through like boxes.
SeeBehindDoors(o) == o.type # "wall"

CanSeeBehind(o) == IF o.type = "door" THEN o.door = "open" ELSE o.type # "wall"
CanPickup(o) == o.type \in {"key", "ball", "box"}

\* The cells of a grid, and one that is all empty inside its outer walls.
Cells(width, height) == (0 .. width - 1) \X (0 .. height - 1)
Walled(width, height) ==
  [c \in Cells(width, height) |->
     IF c[1] \in {0, width - 1} \/ c[2] \in {0, height - 1} THEN Wall ELSE Empty]

\* With these things put at these cells, and the cells that are left empty.
Put(grid, things) == things @@ grid
Free(grid) == {c \in DOMAIN grid : grid[c] = Empty}

----------------------------------------------------------------------------
Dirs == 0..3
DirVec(dir) == <<<<1, 0>>, <<0, 1>>, <<-1, 0>>, <<0, -1>>>>[dir + 1]
RightVec(dir) == <<-DirVec(dir)[2], DirVec(dir)[1]>>
FrontPos(w) == <<w.agent[1] + DirVec(w.dir)[1], w.agent[2] + DirVec(w.dir)[2]>>
Acts == {"left", "right", "forward", "pickup", "drop", "toggle", "done"}

\* Mutation: a box that is opened is lost with what it holds.
ToggledToEmpty(o, carrying) ==
  CASE o.type = "door" /\ o.door = "locked" ->
         IF carrying.type = "key" /\ carrying.color = o.color THEN [o EXCEPT !.door = "open"] ELSE o
    [] o.type = "door" -> [o EXCEPT !.door = IF o.door = "open" THEN "closed" ELSE "open"]
    [] o.type = "box" -> Empty
    [] OTHER -> o

\* A toggled door or box; a box leaves what it contained in its place.
Toggled(o, carrying) ==
  CASE o.type = "door" /\ o.door = "locked" ->
         IF carrying.type = "key" /\ carrying.color = o.color THEN [o EXCEPT !.door = "open"] ELSE o
    [] o.type = "door" -> [o EXCEPT !.door = IF o.door = "open" THEN "closed" ELSE "open"]
    [] o.type = "box" -> IF o.inside = <<>> THEN Empty ELSE o.inside[1]
    [] OTHER -> o

\* Mutation: what is dropped replaces the thing in front.
DropAnywhere(w, act) ==
  LET at == FrontPos(w)
      front == w.grid[at]
  IN  CASE act = "left" -> [w EXCEPT !.dir = (w.dir + 3) % 4]
        [] act = "right" -> [w EXCEPT !.dir = (w.dir + 1) % 4]
        [] act = "forward" /\ CanOverlap(front) -> [w EXCEPT !.agent = at]
        [] act = "pickup" /\ w.carrying = Empty /\ CanPickup(front) ->
             [w EXCEPT !.carrying = front, !.grid[at] = Empty]
        [] act = "drop" /\ w.carrying # Empty /\ front.type # "wall" ->
             [w EXCEPT !.carrying = Empty, !.grid[at] = w.carrying]
        [] act = "toggle" -> [w EXCEPT !.grid[at] = Toggled(front, w.carrying)]
        [] OTHER -> w

\* What an action does to the world, between BeforeStep and AfterStep.
Acted(w, act) ==
  LET at == FrontPos(w)
      front == w.grid[at]
  IN  CASE act = "left" -> [w EXCEPT !.dir = (w.dir + 3) % 4]
        [] act = "right" -> [w EXCEPT !.dir = (w.dir + 1) % 4]
        [] act = "forward" /\ CanOverlap(front) -> [w EXCEPT !.agent = at]
        [] act = "pickup" /\ w.carrying = Empty /\ CanPickup(front) ->
             [w EXCEPT !.carrying = front, !.grid[at] = Empty]
        [] act = "drop" /\ w.carrying # Empty /\ front = Empty ->
             [w EXCEPT !.carrying = Empty, !.grid[at] = w.carrying]
        [] act = "toggle" -> [w EXCEPT !.grid[at] = Toggled(front, w.carrying)]
        [] OTHER -> w

----------------------------------------------------------------------------
\* The picture (GenImage) has the agent at the middle of its last row, y = view - 1,
\* looking up.  ViewCell is the cell of the grid that is at <<x, y>> after the rotations.
ViewCell(w, view, x, y) ==
  LET ahead == view - 1 - y
      aside == x - view \div 2
  IN  <<w.agent[1] + ahead * DirVec(w.dir)[1] + aside * RightVec(w.dir)[1],
        w.agent[2] + ahead * DirVec(w.dir)[2] + aside * RightVec(w.dir)[2]>>

ViewThing(w, view, x, y) ==
  LET c == ViewCell(w, view, x, y) IN IF c \in DOMAIN w.grid THEN w.grid[c] ELSE Wall

\* The order in which the mask is spread: the rows from the agent's upwards, each first
\* to the right and then to the left; an element is <<x, y, side>>.
Sweep(view) ==
  FlattenSeq([row \in 1 .. view |->
    [i \in 1 .. view - 1 |-> <<i - 1, view - row, 1>>] \o
    [i \in 1 .. view - 1 |-> <<view - i, view - row, -1>>]])

\* Mutation: the mask spreads over walls too.
SpreadOverWalls(w, view, mask, at) ==
  IF <<at[1], at[2]>> \in mask
  THEN mask \cup {<<at[1] + at[3], at[2]>>}
         \cup (IF at[2] > 0 THEN {<<at[1] + at[3], at[2] - 1>>, <<at[1], at[2] - 1>>} ELSE {})
  ELSE mask

Spread(w, view, mask, at) ==
  IF <<at[1], at[2]>> \in mask /\ CanSeeBehind(ViewThing(w, view, at[1], at[2]))
  THEN mask \cup {<<at[1] + at[3], at[2]>>}
         \cup (IF at[2] > 0 THEN {<<at[1] + at[3], at[2] - 1>>, <<at[1], at[2] - 1>>} ELSE {})
  ELSE mask

VisMask(w, view) ==
  FoldLeft(LAMBDA mask, at : Spread(w, view, mask, at), {<<view \div 2, view - 1>>}, Sweep(view))

\* The cells of the grid that the picture shows.
Seen(w, view) == {ViewCell(w, view, at[1], at[2]) : at \in VisMask(w, view)} \cap DOMAIN w.grid

----------------------------------------------------------------------------
Beside4(c) == {<<c[1] + 1, c[2]>>, <<c[1], c[2] + 1>>, <<c[1] - 1, c[2]>>, <<c[1], c[2] - 1>>}
Beside8(c) == {<<c[1] + i, c[2] + j>> : i \in -1..1, j \in -1..1} \ {c}

\* The cells one comes to from a set of cells when only those of through let one go on, to the
\* neighbours that near has for them.
Reach(near, through, from) ==
  LET grown[reached \in SUBSET DOMAIN near] ==
        LET more == UNION {near[c] : c \in reached \cap through} \ reached
        IN  IF more = {} THEN reached ELSE grown[reached \cup more]
  IN  grown[from]

\* What can be walked to: shut is the set of doors that count as locked.
Walk(grid, shut, from) ==
  Reach([c \in DOMAIN grid |-> Beside4(c) \cap DOMAIN grid],
        {c \in DOMAIN grid : grid[c].type \notin {"wall", "lava"}} \ shut, from)

LockedDoors(grid) == {c \in DOMAIN grid : grid[c].door = "locked"}

\* A thing and what it contains.
Contents(o) == {o} \cup ToSet(o.inside)
KeysFor(grid, door) ==
  {c \in DOMAIN grid : \E o \in Contents(grid[c]) : o.type = "key" /\ o.color = grid[door].color}

\* The things of a world, wherever they are, and how often each is found.
Held(w) == [c \in DOMAIN w.grid |-> w.grid[c]] @@ (<<"carried">> :> w.carrying)
PlacesIn(held, uid) == {c \in DOMAIN held : \E o \in Contents(held[c]) : o.uid = uid}
Places(w, uid) == LET held == Held(w) IN PlacesIn(held, uid)

\* What a level has is in one place, in the hand or inside a box, for as long as it is
\* not a box that was opened.
AllInPlace(first, w) ==
  LET held == Held(w)
  IN  \A c \in DOMAIN first.grid : \A o \in Contents(first.grid[c]) :
        o.uid > 0 => Cardinality(PlacesIn(held, o.uid)) \in (IF o.type = "box" THEN {0, 1} ELSE {1})

\* The agent, which began where home is, is not behind a door that is still locked, and
\* a key of each door that no longer is could be had without going through that door.
LocksHold(first, home, w) ==
  LET shut == LockedDoors(w.grid)
  IN  /\ w.agent \in Walk(first.grid, shut, home) \ shut
      /\ \A d \in LockedDoors(first.grid) \ shut :
           KeysFor(first.grid, d) \cap Walk(first.grid, shut \cup {d}, home) # {}

\* All that is seen is in the open or bounds it: there is a way for the eye from the
\* agent to it that no wall or closed door blocks.
SeesTheOpen(w, view) ==
  Seen(w, view) \subseteq
    Reach([c \in DOMAIN w.grid |-> Beside8(c) \cap DOMAIN w.grid],
          {c \in DOMAIN w.grid : w.grid[c].type # "wall" /\ w.grid[c].door \in {"none", "open"}},
          {w.agent})

----------------------------------------------------------------------------
(* The levels of minigrid *)

World(grid, agent, dir) == [grid |-> grid, agent |-> agent, dir |-> dir, carrying |-> Empty]
Level(task, w, target, other, wanted) ==
  [task |-> task, first |-> w, target |-> target, other |-> other, wanted |-> wanted,
   home |-> Walk(w.grid, LockedDoors(w.grid), {w.agent})]
Goal == Thing("goal", "green", -1)
Lava == Thing("lava", "red", -1)

\* EmptyTask, with a random start.
EmptyLevels(size) ==
  LET goal == <<size - 2, size - 2>>
      grid == Put(Walled(size, size), goal :> Goal)
  IN  {Level("empty", World(grid, at, dir), goal, goal, Goal) : at \in Free(grid), dir \in Dirs}

DoorKeyGrid(size, split, y) ==
  [c \in Cells(size, size) |->
     IF c = <<split, y>> THEN Door("yellow", "locked", 1)
     ELSE IF c = <<size - 2, size - 2>> THEN Goal
     ELSE IF c[1] = split THEN Wall ELSE Walled(size, size)[c]]

\* Mutation: the key may be on either side of the door.
KeyCellsAnywhere(grid, split) == Free(grid)

\* Where PlaceObj is told to put the key: on the agent's side of the door.
KeyCells(grid, split) == {c \in Free(grid) : c[1] < split}

DoorKeyLevels(size) ==
  LET goal == <<size - 2, size - 2>>
      Starts(grid, split) == {p \in Free(grid) \X KeyCells(grid, split) : p[1][1] < split /\ p[1] # p[2]}
  IN  UNION {LET grid == DoorKeyGrid(size, split, y) IN
             {Level("doorkey", World(Put(grid, p[2] :> Thing("key", "yellow", 2)), p[1], dir), goal, goal, Goal) :
                p \in Starts(grid, split), dir \in Dirs}
             : split \in 2 .. size - 3, y \in 1 .. size - 3}

\* A wall or a river of lava with one gap.
LavaGapLevels(size, obstacle) ==
  LET goal == <<size - 2, size - 2>>
      Grid(gap) ==
        [c \in Cells(size, size) |->
           IF c[1] = gap[1] /\ c # gap /\ c[2] \in 1 .. size - 2 THEN obstacle
           ELSE IF c = goal THEN Goal ELSE Walled(size, size)[c]]
  IN  {Level("lavagap", World(Grid(gap), <<1, 1>>, 0), goal, goal, Goal) :
         gap \in (2 .. size - 3) \X (1 .. size - 2)}

DistShiftLevels(width, height, strip2) ==
  LET goal == <<width - 2, 1>>
      grid == [c \in Cells(width, height) |->
                 IF c[1] \in 3 .. width - 4 /\ c[2] \in {1, strip2} THEN Lava
                 ELSE IF c = goal THEN Goal ELSE Walled(width, height)[c]]
  IN  {Level("distshift", World(grid, <<1, 1>>, 0), goal, goal, Goal)}

\* Mutation: each gap is anywhere along its river.
GapsAnywhere(size, i, rooms, limits) == 1 .. size - 2

\* Where the gap of the river crossed by step i of a path can be: within the room the
\* path is in by then, as far as the rivers of the other direction bound it.
Gaps(size, i, rooms, limits) ==
  (IF rooms = 0 THEN 1 ELSE limits[rooms] + 1) .. (IF rooms = Len(limits) THEN size - 2 ELSE limits[rooms + 1] - 1)

\* Rivers at even coordinates; a path crosses the vertical and the horizontal ones in
\* some order (TRUE is a step to the right) and every river has its gap there.
CrossingLevels(size, num, obstacle) ==
  LET goal == <<size - 2, size - 2>>
      rivers == {r \in BOOLEAN \X (2 .. size - 3) : r[2] % 2 = 0}
      Places2(rs, horizontal) == SetToSortSeq({r[2] : r \in {q \in rs : q[1] = horizontal}}, <)
      Crossed(path, i, horizontal) == Cardinality({j \in 1 .. i - 1 : path[j] = horizontal})
      GapSets(rs, path) ==
        LET v == Places2(rs, TRUE)
            h == Places2(rs, FALSE)
            At(i) == IF path[i] THEN {<<v[Crossed(path, i, TRUE) + 1], y>> : y \in Gaps(size, i, Crossed(path, i, FALSE), h)}
                                ELSE {<<x, h[Crossed(path, i, FALSE) + 1]>> : x \in Gaps(size, i, Crossed(path, i, TRUE), v)}
        IN  {g \in [1 .. num -> UNION {At(i) : i \in 1 .. num}] : \A i \in 1 .. num : g[i] \in At(i)}
      Paths(rs) == {p \in [1 .. num -> BOOLEAN] :
                      Cardinality({i \in 1 .. num : p[i]}) = Cardinality({r \in rs : r[1]})}
      Grid(rs, gaps) ==
        [c \in Cells(size, size) |->
           IF Walled(size, size)[c] = Wall THEN Wall
           ELSE IF c \in gaps THEN Empty
           ELSE IF <<TRUE, c[1]>> \in rs \/ <<FALSE, c[2]>> \in rs THEN obstacle
           ELSE IF c = goal THEN Goal ELSE Empty]
  IN  UNION {UNION {{Level("crossing", World(Grid(rs, Range(g)), <<1, 1>>, 0), goal, goal, Goal) : g \in GapSets(rs, path)}
                    : path \in Paths(rs)} : rs \in kSubset(num, rivers)}

----------------------------------------------------------------------------
\* DynamicObstaclesTask with a given start: the balls are the things numbered from 1.
DynamicLevels(size, num) ==
  LET goal == <<size - 2, size - 2>>
      grid == Put(Walled(size, size), goal :> Goal)
      Balls(at) == [c \in Range(at) |-> Thing("ball", "blue", CHOOSE i \in 1 .. num : at[i] = c)]
  IN  {Level("dynamic_obstacles", World(Put(grid, Balls(at)), <<1, 1>>, 0), goal, goal, Goal) :
         at \in {p \in [1 .. num -> Free(grid) \ {<<1, 1>>}] : IsInjective(p)}}

NearExisting(c, d) == d[1] - c[1] \in -1..1 /\ d[2] - c[2] \in -1..1

\* What PlaceObj can do with two things drawn from kinds, unlike each other or not near
\* each other where the task says so; then PlaceAgent.
TwoThings(task, size, kinds, distinct, apart) ==
  UNION {LET room == Walled(size, size)
             grid == Put(room, (p[1] :> Thing(k[1][1], k[1][2], 1)) @@ (p[2] :> Thing(k[2][1], k[2][2], 2)))
         IN  {[task |-> task, w |-> World(grid, at, dir), at |-> p] : at \in Free(grid), dir \in Dirs}
        : p \in {q \in Free(Walled(size, size)) \X Free(Walled(size, size)) : q[1] # q[2] /\ (apart => ~NearExisting(q[1], q[2]))},
          k \in {q \in kinds \X kinds : distinct => q[1] # q[2]}}

FetchLevels(size) ==
  {Level("fetch", l.w, l.at[1], l.at[2], l.w.grid[l.at[1]]) :
     l \in TwoThings("fetch", size, {"key", "ball"} \X Colors, FALSE, FALSE)}

GoToObjectLevels(size) ==
  {Level("goto_object", l.w, l.at[1], l.at[2], l.w.grid[l.at[1]]) :
     l \in TwoThings("goto_object", size, {"ball", "box"} \X Colors, TRUE, FALSE)}

PutNearLevels(size) ==
  {Level("put_near", l.w, l.at[2], l.at[1], l.w.grid[l.at[1]]) :
     l \in TwoThings("put_near", size, {"ball", "box"} \X Colors, TRUE, TRUE)}

\* The four doors of a room that fills the grid, of different colors.
GoToDoorLevels(size, colors) ==
  LET Doors(d) == (<<d[1], 0>> :> Door(colors[1], "closed", 1)) @@ (<<d[2], size - 1>> :> Door(colors[2], "closed", 2))
                  @@ (<<0, d[3]>> :> Door(colors[3], "closed", 3)) @@ (<<size - 1, d[4]>> :> Door(colors[4], "closed", 4))
  IN  UNION {{Level("goto_door", World(Put(Walled(size, size), Doors(d)), at, 0), target, target, Doors(d)[target]) :
                at \in Free(Walled(size, size)), target \in DOMAIN Doors(d)}
             : d \in [1 .. 4 -> 2 .. size - 3]}

\* A room in the middle of a grid twice as wide, with a door to each side.
RedBlueLevels(size) ==
  LET left == size \div 2
      right == left + size - 1
      room == [c \in Cells(2 * size, size) |-> IF c[1] \in {left, right} THEN Wall ELSE Walled(2 * size, size)[c]]
  IN  UNION {LET grid == Put(room, (<<left, y[1]>> :> Door("red", "closed", 1)) @@ (<<right, y[2]>> :> Door("blue", "closed", 2))) IN
             {Level("red_blue_door", World(grid, at, dir), <<right, y[2]>>, <<left, y[1]>>, grid[<<right, y[2]>>]) :
                at \in {c \in Free(grid) : c[1] \in left .. right}, dir \in Dirs}
             : y \in (1 .. size - 2) \X (1 .. size - 2)}

\* Mutation: the things at the end of the hallway are swapped after the cells were noted.
MatchesFirstSwapped(first, start) == first # start
MatchesFirst(first, start) == first = start

\* One thing in the room on the left, it and the other kind at the ends of the hallway.
MemoryLevels(size, lengths) ==
  LET mid == size \div 2
      Other(type) == IF type = "key" THEN "ball" ELSE "key"
      IsWall(c, end) ==
        \/ c[1] \in 1 .. 4 /\ c[2] \in {mid - 2, mid + 2}
        \/ c[1] \in 4 .. end - 1 /\ c[2] \in {mid - 1, mid + 1}
        \/ c[1] = 4 /\ c[2] \in {mid - 1, mid + 1}
        \/ c[1] = end /\ c[2] # mid
        \/ c[1] = end + 2
      Grid(end, start, first) ==
        Put([c \in Cells(size, size) |-> IF IsWall(c, end) THEN Wall ELSE Walled(size, size)[c]],
            (<<1, mid - 1>> :> Thing(start, "green", 1)) @@ (<<end + 1, mid - 2>> :> Thing(first, "green", 2))
            @@ (<<end + 1, mid + 2>> :> Thing(Other(first), "green", 3)))
      Ends(end, matches) == IF matches THEN <<<<end + 1, mid - 1>>, <<end + 1, mid + 1>>>>
                                       ELSE <<<<end + 1, mid + 1>>, <<end + 1, mid - 1>>>>
  IN  UNION {{LET to == Ends(end, MatchesFirst(kinds[2], kinds[1]))
              IN  Level("memory", World(Grid(end, kinds[1], kinds[2]), <<x, mid>>, 0), to[1], to[2], Thing(kinds[1], "green", 1)) :
                x \in 1 .. end, kinds \in {"key", "ball"} \X {"key", "ball"}} : end \in lengths}

----------------------------------------------------------------------------
\* RoomGridTask: a row of rooms, each size cells wide, that share their walls, and the
\* cell its GenGrid leaves agent_pos_ at, which AddObject keeps away from.
RoomWalls(size, cols) ==
  [c \in Cells((size - 1) * cols + 1, size) |->
     IF c[1] % (size - 1) = 0 \/ c[2] % (size - 1) = 0 THEN Wall ELSE Empty]
Middle(size, cols) == <<(cols \div 2) * (size - 1) + size \div 2, size \div 2>>
Room(size, i) == (i * (size - 1) .. (i + 1) * (size - 1)) \X (0 .. size - 1)
DoorCells(size, i) == {<<(i + 1) * (size - 1), y>> : y \in 1 .. size - 2}   \* from room i to the next

Distance(c, d) == (IF c[1] > d[1] THEN c[1] - d[1] ELSE d[1] - c[1]) + (IF c[2] > d[2] THEN c[2] - d[2] ELSE d[2] - c[2])
ObjectCells(grid, size, cols, i) == {c \in Room(size, i) \cap Free(grid) : Distance(Middle(size, cols), c) >= 2}

\* PlaceAgentInRoom: a free cell of the room from where it looks at nothing or at a wall.
AgentPlaces(grid, size, i) ==
  {w \in {World(grid, at, dir) : at \in Room(size, i) \cap Free(grid), dir \in Dirs} :
     grid[FrontPos(w)].type \in {"empty", "wall"}}

UnlockLevels(size) ==
  UNION {LET grid == Put(RoomWalls(size, 2), d :> Door(color, "locked", 1)) IN
         UNION {{Level("unlock", w, d, d, grid[d]) : w \in AgentPlaces(Put(grid, k :> Thing("key", color, 2)), size, 0)}
                : k \in ObjectCells(grid, size, 2, 0)}
         : d \in DoorCells(size, 0), color \in Colors}

\* The box to be picked up, the door and the key.
UnlockPickupLevels(size) ==
  LET room == RoomWalls(size, 2)
      Grid(b, d, color) == Put(room, (b :> Box("grey", 3, <<>>)) @@ (d :> Door(color, "locked", 1)))
  IN  UNION {LET grid == Grid(b, d, color) IN
             UNION {{Level("unlock_pickup", w, b, d, grid[b]) :
                       w \in AgentPlaces(Put(grid, k :> Thing("key", color, 2)), size, 0)}
                    : k \in ObjectCells(grid, size, 2, 0)}
             : b \in ObjectCells(room, size, 2, 1), d \in DoorCells(size, 0), color \in Colors}

\* ObstructedMaze with one door and its key in a box; the agent's first position is in a
\* row below, too far away to matter.
ObstructedMazeLevels(size) ==
  LET room == RoomWalls(size, 3)
      Inside(i) == Room(size, i) \cap Free(room)
      KeyBox(color) == Box("blue", 2, <<Thing("key", color, 4)>>)
      Grid(b, k, d, color) ==
        Put(room, (b :> Thing("ball", "blue", 3)) @@ (k :> KeyBox(color)) @@ (d :> Door(color, "locked", 1)))
  IN  UNION {LET grid == Grid(b, k, d, color)
             IN  {Level("obstructed_maze", w, b, d, grid[b]) : w \in AgentPlaces(grid, size, 0)}
             : b \in Inside(1), k \in Inside(0), d \in DoorCells(size, 0), color \in Colors}

\* One row: the ball is behind a locked door on the right, the key on the left behind the
\* door that ConnectAll adds when the agent has been placed.
KeyCorridorLevels(size) ==
  LET Grid(d, lock) == Put(RoomWalls(size, 3), d :> Door(lock, "locked", 1))
      Things(b, k, lock) == (b :> Thing("ball", "grey", 3)) @@ (k :> Thing("key", lock, 2))
      Connect(w, e, color) == [w EXCEPT !.grid[e] = Door(color, "closed", 4)]
  IN  UNION {LET grid == Grid(d, lock) IN
             UNION {{Level("key_corridor", Connect(w, e, color), b, d, Thing("ball", "grey", 3)) :
                       w \in AgentPlaces(Put(grid, Things(b, k, lock)), size, 1),
                       e \in DoorCells(size, 0), color \in Colors}
                    : b \in ObjectCells(grid, size, 3, 2), k \in ObjectCells(grid, size, 3, 0)}
             : d \in DoorCells(size, 1), lock \in Colors}

----------------------------------------------------------------------------
\* The doors of a level that stay locked when those with a key one can walk to are unlocked
\* one after the other.
StillLocked(level) ==
  LET grid == level.first.grid
      after[shut \in SUBSET LockedDoors(grid)] ==
        LET reached == Walk(grid, shut, level.home)
            next == {d \in shut : KeysFor(grid, d) \cap reached # {}}
        IN  IF next = {} THEN shut ELSE after[shut \ next]
  IN  after[LockedDoors(grid)]

\* The mission of a level can be done: what it is about can be walked to.
CanBeWon(level) ==
  level.target \in Walk(level.first.grid, StillLocked(level), level.home)

----------------------------------------------------------------------------
(* The levels of BabyAI *)

\* BabyAIObjDesc, with "any" for what is not given.
Desc(type, color, loc) == [type |-> type, color |-> color, loc |-> loc]
Action(kind, what, where, strict) == [kind |-> kind, what |-> what, where |-> where, strict |-> strict]
GoTo(what) == Action("goto", what, what, FALSE)
Pickup(what, strict) == Action("pickup", what, what, strict)
Open(what, strict) == Action("open", what, what, strict)
PutNext(what, where) == Action("putnext", what, where, FALSE)

BabyLevel(w, size, i, mission) ==
  [first |-> w, room |-> Room(size, i), mission |-> mission,
   home |-> Walk(w.grid, LockedDoors(w.grid), {w.agent})]
----------------------------------------------------------------------------
IsLike(desc, o) ==
  o # Empty /\ desc.type \in {"any", o.type} /\ desc.color \in {"any", o.color}

\* Where a cell is as seen from the agent, in its room.
IsAt(loc, l, c) ==
  LET ahead == (c[1] - l.first.agent[1]) * DirVec(l.first.dir)[1] + (c[2] - l.first.agent[2]) * DirVec(l.first.dir)[2]
      aside == (c[1] - l.first.agent[1]) * RightVec(l.first.dir)[1] + (c[2] - l.first.agent[2]) * RightVec(l.first.dir)[2]
  IN  \/ loc = "any"
      \/ c \in l.room /\ CASE loc = "left" -> aside < 0 [] loc = "right" -> aside > 0
                           [] loc = "front" -> ahead > 0 [] loc = "behind" -> ahead < 0

\* FindMatchingObjs with use_location, as at the reset, and without, as after a drop: the
\* things that were meant at the reset, where they are now.
Meant(l, desc) == {l.first.grid[c].uid : c \in {d \in DOMAIN l.first.grid : IsLike(desc, l.first.grid[d]) /\ IsAt(desc.loc, l, d)}}
Found(grid, desc, uids) == {<<c, grid[c].uid>> : c \in {d \in DOMAIN grid : IsLike(desc, grid[d]) /\ grid[d].uid \in uids}}

\* Surface and Validate: every description means something, and what is to be put next
\* to something is not that thing nor next to it already.
IsValid(l) ==
  \A g \in DOMAIN l.mission : \A i \in DOMAIN l.mission[g] :
    LET a == l.mission[g][i]
        uids == Meant(l, a.what)
        to == Meant(l, a.where)
    IN  /\ uids # {} /\ to # {}
        /\ a.kind = "putnext" =>
             /\ uids \cap to = {}
             /\ \A p \in Found(l.first.grid, a.what, uids), q \in Found(l.first.grid, a.where, to) : q[1] \notin Beside4(p[1])

\* What GenGrid tries again for is left out.
Accepted(levels) == {l \in levels : IsValid(l)}

----------------------------------------------------------------------------
OpenTheDoor == <<<<Open(Desc("door", "any", "any"), FALSE)>>>>

\* UnlockLocal: the key of the door is in the agent's room, and a key of another color.
UnlockLocalLevels(size, color, other) ==
  UNION {LET door == Put(RoomWalls(size, 2), d :> Door(color, "locked", 1))
             Keys(k, m) == Put(door, (k :> Thing("key", color, 2)) @@ (m :> Thing("key", other, 3)))
             spots == Room(size, 0) \cap Free(door)
         IN  UNION {{BabyLevel(w, size, 0, OpenTheDoor) : w \in AgentPlaces(Keys(p[1], p[2]), size, 0)}
                    : p \in {q \in spots \X spots : q[1] # q[2]}}
         : d \in DoorCells(size, 0)}

KeyInBoxLevels(size, color) ==
  UNION {LET grid == Put(RoomWalls(size, 2), (d :> Door(color, "locked", 1))
                                              @@ (k :> Box("grey", 2, <<Thing("key", color, 3)>>)))
         IN  {BabyLevel(w, size, 0, OpenTheDoor) : w \in AgentPlaces(grid, size, 0)}
         : d \in DoorCells(size, 0), k \in Room(size, 0) \cap Free(RoomWalls(size, 2))}

\* OpenDoorsOrder: one door or both, in either order, of a room with two doors.
OpenDoorsOrderLevels(size, color, other, debug) ==
  LET One(c) == <<Open(Desc("door", c, "any"), debug)>>
  IN  UNION {LET grid == Put(RoomWalls(size, 3), (d :> Door(color, "closed", 1)) @@ (e :> Door(other, "closed", 2)))
             IN  {BabyLevel(w, size, 1, mission) : w \in AgentPlaces(grid, size, 1),
                                                   mission \in {<<One(color)>>, <<One(color), One(other)>>, <<One(other), One(color)>>}}
             : d \in DoorCells(size, 0), e \in DoorCells(size, 1)}

\* LevelGen in one room with two things and these missions.
LevelGenLevels(size, one, two, missions) ==
  LET room == RoomWalls(size, 1)
      spots == ObjectCells(room, size, 1, 0)
  IN  UNION {LET grid == Put(room, (p[1] :> one) @@ (p[2] :> two))
             IN  {BabyLevel(w, size, 0, mission) : w \in AgentPlaces(grid, size, 0), mission \in missions}
             : p \in {q \in spots \X spots : q[1] # q[2]}}
=============================================================================
