---------------------------- MODULE Environments ----------------------------
(* The environments whose state is discrete: the teams of module Teams, the other games of
   jumanji/, those of pgx/, the tasks of minigrid/ and BabyAI, and the Atari wrapper, each
   as a small instance.  A behaviour plays one of them. *)
EXTENDS Teams, SequencesExt

Grid22 == (0..1) \X (0..1)
Grid23 == (0..1) \X (0..2)
Grid33 == (0..2) \X (0..2)

\* 3 x 3 boards whose first two rows are the same, and the empty 2 x 2 one.
Boards33 ==
  {[c \in Grid33 |-> IF c[1] = 2 THEN 0 ELSE row[c[2] + 1]] : row \in [1..3 -> 0..2] \ {<<0, 0, 0>>}}

Game2048 == INSTANCE Game2048 WITH BoardSize <- 2, InitialBoards <- {<<>>}, RandomCell <- {TRUE},
  initialBoard <- s1, addRandomCell <- s2, board <- s3, reward <- s4, done <- s5
Big2048 == INSTANCE Game2048 WITH BoardSize <- 3, InitialBoards <- Boards33, RandomCell <- {FALSE},
  initialBoard <- s1, addRandomCell <- s2, board <- s3, reward <- s4, done <- s5

\* Two boxes in a 3 x 4 room with a wall, and in one without.
Warehouses ==
  {[wall |-> {<<0, 3>>}, target |-> {<<0, 1>>, <<2, 2>>}, box |-> {<<1, 1>>, <<1, 2>>}, agent |-> <<1, 0>>],
   [wall |-> {}, target |-> {<<1, 2>>, <<2, 3>>}, box |-> {<<1, 1>>, <<2, 1>>}, agent |-> <<2, 0>>]}
Sokoban == INSTANCE Sokoban WITH Rows <- 3, Cols <- 4, Levels <- Warehouses, NumBoxes <- 2, MaxEpisodeSteps <- 8,
  level <- s1, variable <- s2, agent <- s3, elapsed <- s4, reward <- s5, done <- s6

Snake == INSTANCE Snake WITH Rows <- 2, Cols <- 3, TimeLimit <- 12,
  bodyState <- s1, head <- s2, tail <- s3, fruit <- s4, length <- s5, stepCount <- s6, done <- s7

Minesweeper == INSTANCE Minesweeper WITH Rows <- 3, Cols <- 3, NumMines <- 2,
  board <- s1, mines <- s2, reward <- s3, done <- s4

SlidingTile == INSTANCE SlidingTile WITH Rows <- 2, Cols <- 3, WalkLength <- 4, TimeLimit <- 5,
  puzzle <- s1, empty <- s2, stepCount <- s3, reward <- s4, done <- s5

Tetris == INSTANCE Tetris WITH Rows <- 5, Cols <- 4, TimeLimit <- 9,
  grid <- s1, stepCount <- s2, reward <- s3, done <- s4

RubiksCube == INSTANCE RubiksCube WITH NumScrambles <- 1, TimeLimit <- 2,
  cube <- s1, stepCount <- s2, reward <- s3, done <- s4

GraphColoring == INSTANCE GraphColoring WITH NumNodes <- 4,
  adj <- s1, colors <- s2, currentNode <- s3, actionMask <- s4, reward <- s5, done <- s6

\* A third of a load as a float, in units of 2^-28, and unequal demands.
Demands ==
  {[n \in 0..3 |-> IF n = 0 THEN 0 ELSE 89478488],
   [n \in 0..3 |-> CASE n = 0 -> 0 [] n = 1 -> 187904819 [] n = 2 -> 80530637 [] n = 3 -> 26843546]}
Routing == INSTANCE Routing WITH DemandSets <- Demands, TrajectoryLength <- 6, TimeLimit <- 6,
  demands <- s1, unvisited <- s2, position <- s3, trajectory <- s4, capacity <- s5, stepCount <- s6, done <- s7

\* Levels of the smallest grids that hold each task.  The first direction and some of the
\* cells are fixed where an episode comes to the others anyway.
G == INSTANCE MiniGridLevels WITH Colors <- {"blue"}
East(levels) == {l \in levels : l.first.dir = 0}
MiniLevels ==
  [task \in {"empty", "doorkey", "lavagap", "distshift", "crossing", "dynamic_obstacles", "fetch", "goto_object",
           "put_near", "goto_door", "red_blue_door", "memory", "unlock", "unlock_pickup", "key_corridor",
           "obstructed_maze"} |->
   CASE task = "empty" -> G!EmptyLevels(4)
     [] task = "doorkey" -> {l \in East(G!DoorKeyLevels(5)) : l.first.grid[<<2, 1>>].door = "locked"}
     [] task = "lavagap" -> G!LavaGapLevels(5, G!Lava)
     [] task = "distshift" -> G!DistShiftLevels(9, 7, 2)
     [] task = "crossing" -> {l \in G!CrossingLevels(7, 2, G!Wall) : l.first.grid[<<2, 1>>] = G!Wall}
     [] task = "dynamic_obstacles" ->
          {l \in G!DynamicLevels(5, 2) : l.first.grid[<<2, 2>>].uid = 1 /\ l.first.grid[<<3, 2>>].uid = 2}
     [] task = "fetch" -> East(G!FetchLevels(4))
     [] task = "goto_object" ->
          {l \in East(G!GoToObjectLevels(4)) : l.target # l.first.agent /\ l.target[1] = l.first.agent[1]}
     [] task = "put_near" ->
          {l \in East(G!PutNearLevels(5)) :
             /\ <<l.target, l.other>> \in {<<<<1, 1>>, <<3, 2>>>>, <<<<3, 3>>, <<2, 1>>>>}
             /\ l.first.agent = <<2, 2>>}
     [] task = "goto_door" ->
          {l \in G!GoToDoorLevels(5, <<"red", "green", "blue", "yellow">>) : l.first.agent = <<2, 2>>}
     [] task = "red_blue_door" -> {l \in East(G!RedBlueLevels(4)) : l.target[2] = 1}
     [] task = "memory" -> G!MemoryLevels(7, {4})
     [] task = "unlock" -> East(G!UnlockLevels(4))
     [] task = "unlock_pickup" ->
          {l \in East(G!UnlockPickupLevels(4)) : l.target = <<4, 1>> /\ l.other[2] = 1}
     [] task = "obstructed_maze" ->
          {l \in East(G!ObstructedMazeLevels(4)) : l.target = <<4, 1>> /\ l.other[2] = 1}
     [] task = "key_corridor" -> G!KeyCorridorLevels(3)]
MiniGrid == INSTANCE MiniGrid WITH Levels <- MiniLevels, View <- 3, Colors <- {"blue"},
  CutShort <- DOMAIN MiniLevels \ {"unlock_pickup", "obstructed_maze", "key_corridor", "memory"},
  level <- s1, world <- s2, obstacles <- s3, reward <- s4, done <- s5

\* The ball and the box of one room: one put beside the other, twice, in turn and as a pair.
Ball == G!Desc("ball", "any", "any")
Chest == G!Desc("box", "any", "any")
Behind == G!Desc("any", "blue", "behind")
Turns ==
  {<<<<G!PutNext(Ball, Chest)>>, <<G!PutNext(Ball, Chest)>>>>,
   <<<<G!Pickup(Behind, TRUE)>>, <<G!GoTo(Chest)>>>>,
   <<<<G!Pickup(Behind, FALSE), G!GoTo(Chest)>>>>}
Doors(debug) == {l \in G!OpenDoorsOrderLevels(4, "red", "blue", debug) :
                   l.first = G!World(l.first.grid, <<4, 1>>, 1) /\ l.first.grid[<<3, 1>>] # G!Wall}
BabyMissions == {G!Accepted(levels) : levels \in {
  {l \in G!LevelGenLevels(5, G!Thing("ball", "blue", 1), G!Box("blue", 2, <<>>), Turns) :
     l.first = G!World(l.first.grid, <<2, 1>>, 0) /\ l.first.grid[<<1, 1>>].type = "ball" /\ l.first.grid[<<3, 3>>].type = "box"},
  {l \in G!UnlockLocalLevels(4, "red", "blue") : l.first = G!World(l.first.grid, <<2, 1>>, 1) /\ l.first.grid[<<3, 2>>] = G!Wall},
  {l \in G!KeyInBoxLevels(4, "red") : l.first.agent = <<2, 1>> /\ l.first.grid[<<3, 2>>] = G!Wall},
  Doors(TRUE)}}
BabyAI == INSTANCE BabyAI WITH Missions <- BabyMissions, DoneActions <- FALSE, Timeouts <- {FALSE}, Colors <- {"blue"},
  level <- s1, world <- s2, verifier <- s3, happened <- s4, reward <- s5, done <- s6
DoneMissions == {G!Accepted(Doors(FALSE))}
BabyAIDone == INSTANCE BabyAI WITH Missions <- DoneMissions, DoneActions <- TRUE, Timeouts <- BOOLEAN, Colors <- {"blue"},
  level <- s1, world <- s2, verifier <- s3, happened <- s4, reward <- s5, done <- s6

\* Games of two lives and of none, actions repeated three times, up to three no-ops.
Atari == INSTANCE Atari WITH FrameSkip <- 3, StackNum <- 3, NoopMax <- 3, MaxEpisodeSteps <- 4,
  Options <- [episodicLife : BOOLEAN, fireReset : BOOLEAN, lives : {0, 2}],
  options <- s1, env <- s2, maxpool <- s3, stack <- s4, elapsed <- s5, lives <- s6, done <- s7, played <- s8

\* The games of pgx.
LineGames == INSTANCE LineGames WITH Coins <- {0, 1}, Tried <- {4}, Rows <- 3, Cols <- 3, Length <- 3,
  board <- s1, mask <- s2, color <- s3, currentPlayer <- s4, winner <- s5, reward <- s6, illegal <- s7, done <- s8

Hex == INSTANCE StoneGames WITH Coins <- {1}, Size <- 3, First <- {0, 1, 4}, Tried <- {4},
  board <- s1, mask <- s2, playerOrder <- s3, stepCount <- s4, currentPlayer <- s5, passed <- s6, reward <- s7,
  illegal <- s8, done <- s9
Othello == INSTANCE StoneGames WITH Coins <- {1}, Size <- 4, First <- {1}, Tried <- {2},
  board <- s1, mask <- s2, playerOrder <- s3, stepCount <- s4, currentPlayer <- s5, passed <- s6, reward <- s7,
  illegal <- s8, done <- s9

\* Whole games on 2 x 2, where positions come back, and on 3 x 3 a corner where a
\* stone can be taken and retaken.
Go2 == INSTANCE Go WITH Coins <- {0, 1}, Size <- 2, RuleSets <- {"pgx", "chinese"}, Points <- 0..3, Tried <- {1},
  TwiceKomi <- 1, MaxTerminalSteps <- 8,
  rules <- s1, board <- s2, positions <- s3, passes <- s4, ko <- s5, isPsk <- s6, stepCount <- s7, mask <- s8,
  playerOrder <- s9, reward <- s10, illegal <- s11, done <- s12
Go3 == INSTANCE Go WITH Coins <- {1}, Size <- 3, RuleSets <- {"pgx"}, Points <- 0..4, Tried <- {1},
  TwiceKomi <- 1, MaxTerminalSteps <- 6,
  rules <- s1, board <- s2, positions <- s3, passes <- s4, ko <- s5, isPsk <- s6, stepCount <- s7, mask <- s8,
  playerOrder <- s9, reward <- s10, illegal <- s11, done <- s12

\* Episodes of chess, the moves of each ply: a mate in four, both castle on the king's
\* side, or may no longer, rooks that come back, a rook is taken at home, both castle on
\* the queen's side, en passant, at once or not at all, four promotions, a position three
\* times, nine quiet plies, a castle through an attacked square, a stalemate.
M(from, targets) == {<<from, to, -1>> : to \in targets}
ChessLines == {
  <<M(41, {42}) \cup M(33, {35}), M(33, {35, 34}), M(49, {51}), M(24, {60})>>,
  <<M(48, {42}), M(48, {42}) \cup M(49, {50}), M(49, {50}), M(49, {50}) \cup M(40, {49}) \cup M(48, {42}),
    M(40, {49}), M(40, {49}) \cup M(9, {10}), M(32, {48}) \cup M(56, {48}),
    M(32, {48}) \cup M(56, {48}) \cup M(32, {40})>>,
  <<M(57, {59}), M(57, {59}), M(56, {58}), M(56, {58}), M(58, {56}), M(58, {56})>>,
  <<M(9, {10}), M(49, {50}) \cup M(8, {18}), M(16, {9}), M(8, {18}) \cup M(49, {50}), M(9, {63}),
    M(1, {2}) \cup M(32, {48})>>,
  <<M(25, {27}), M(25, {27}), M(8, {18}), M(8, {18}), M(16, {43}), M(16, {43}), M(24, {26}), M(24, {26}),
    M(32, {16}) \cup M(0, {8}), M(32, {16, 24})>>,
  <<M(33, {35}), M(1, {2}) \cup M(8, {2}), M(35, {36}), M(25, {27}) \cup M(41, {43}) \cup M(57, {59}),
    M(36, {29}) \cup M(36, {45}) \cup M(48, {42}),
    M(17, {26}) \cup M(24, {26}) \cup M(33, {42}) \cup M(9, {10}) \cup M(56, {58})>>,
  <<M(57, {59}), M(49, {51}), M(59, {52}), M(57, {58}) \cup M(41, {43}), M(52, {61, 45}), M(1, {2}),
    M(61, {62}) \cup M(45, {38}), M(2, {3}),
    M(62, {55}) \cup {<<62, 55, 0>>} \cup {<<62, 55, 2>>} \cup M(38, {31}) \cup {<<38, 47, 1>>}>>,
  <<M(48, {42}), M(48, {42}), M(42, {48}), M(42, {48}), M(48, {42}), M(48, {42}), M(42, {48}), M(42, {48})>>,
  <<M(48, {42}) \cup M(8, {18}), M(48, {42}), M(42, {52}) \cup M(18, {35}), M(42, {52, 27}), M(52, {35}),
    M(52, {35}), M(35, {18}), M(35, {18}), M(18, {28})>>,
  <<M(49, {50}), M(9, {10}), M(40, {49}), M(16, {2}), M(33, {35}), M(2, {47}) \cup M(2, {38}) \cup M(49, {50}),
    M(48, {58}), M(49, {50}) \cup M(57, {58})>>,
  <<M(33, {34}), M(1, {3}), M(24, {60}), M(0, {2}), M(60, {4}), M(57, {59}), M(57, {59}), M(2, {58}),
    M(4, {22}), M(41, {42}), M(22, {30}), M(32, {41}), M(30, {14}), M(24, {29}), M(14, {15}), M(29, {57}),
    M(15, {23}), M(41, {50}), M(23, {37, 44})>>}
Chess == INSTANCE Chess WITH Coins <- {1}, MaxSteps <- 19, QuietLimit <- 9, Lines <- ChessLines, Tried <- {<<>>, <<8, 11, -1>>},
  board <- s1, castlingRights <- s2, enPassant <- s3, color <- s4, playerOrder <- s5, mask <- s6, reward <- s7,
  illegal <- s8, done <- s9, counts <- s10, seenKeys <- s11, played <- s12

\* Openings of animal shogi that capture, promote and drop, and then anything.
Opening == <<{7, 39, 42, 67}, {7, 11, 42, 67}, {38, 39, 41, 97, 98, 102}, {6, 11, 39, 42, 46, 75}, {37, 39, 42, 67, 76}>>
AnimalShogi == INSTANCE AnimalShogi WITH Coins <- {1}, MaxSteps <- 7, Tried <- {-1, 1, 99},
  Offered <- [k \in 0..7 |-> IF k < Len(Opening) THEN Opening[k + 1] ELSE 0..131],
  board <- s1, hand <- s2, boardHistory <- s3, handHistory <- s4, repHistory <- s5, stepCount <- s6, turn <- s7,
  currentPlayer <- s8, mask <- s9, reward <- s10, illegal <- s11, done <- s12

CardGames == INSTANCE CardGames WITH Coins <- {0, 1},
  cards <- s1, firstPlayer <- s2, currentPlayer <- s3, lastAction <- s4, chips <- s5, round <- s6, raiseCount <- s7,
  mask <- s8, reward <- s9, illegal <- s10, done <- s11

----------------------------------------------------------------------------
Init ==
  \/ TeamInit
  \/ /\ game \in Games
     /\ \/ game = "Game2048" /\ Game2048!Init /\ No6
        \/ game = "Big2048" /\ Big2048!Init /\ No6
        \/ game = "Sokoban" /\ Sokoban!Init /\ No7
        \/ game = "Snake" /\ Snake!Init /\ No8
        \/ game = "Minesweeper" /\ Minesweeper!Init /\ No5
        \/ game = "SlidingTile" /\ SlidingTile!Init /\ No6
        \/ game = "Tetris" /\ Tetris!Init /\ No5
        \/ game = "RubiksCube" /\ RubiksCube!Init /\ No5
        \/ game = "GraphColoring" /\ GraphColoring!Init /\ No7
        \/ game = "Routing" /\ Routing!Init /\ No8
        \/ game = "MiniGrid" /\ MiniGrid!Init /\ No6
        \/ game = "BabyAI" /\ BabyAI!Init /\ No7
        \/ game = "BabyAIDone" /\ BabyAIDone!Init /\ No7
        \/ game = "Atari" /\ Atari!Init /\ No9
        \/ game = "TicTacToe" /\ LineGames!TicTacToeInit /\ No9
        \/ game = "ConnectFour" /\ LineGames!ConnectFourInit /\ No9
        \/ game = "Hex" /\ Hex!HexInit /\ No10
        \/ game = "Othello" /\ Othello!OthelloInit /\ No10
        \/ game = "Go2" /\ Go2!Init
        \/ game = "Go3" /\ Go3!Init
        \/ game = "Chess" /\ Chess!Init
        \/ game = "AnimalShogi" /\ AnimalShogi!Init
        \/ game = "KuhnPoker" /\ CardGames!KuhnInit /\ No12
        \/ game = "LeducHoldem" /\ CardGames!LeducInit /\ No12

Next ==
  \/ TeamNext
  \/ game = "Game2048" /\ Game2048!Next /\ UNCHANGED <<game, s6, s7, s8, rest>>
  \/ game = "Big2048" /\ Big2048!Next /\ UNCHANGED <<game, s6, s7, s8, rest>>
  \/ game = "Sokoban" /\ Sokoban!Next /\ UNCHANGED <<game, s7, s8, rest>>
  \/ game = "Snake" /\ Snake!Next /\ UNCHANGED <<game, s8, rest>>
  \/ game = "Minesweeper" /\ Minesweeper!Next /\ UNCHANGED <<game, s5, s6, s7, s8, rest>>
  \/ game = "SlidingTile" /\ SlidingTile!Next /\ UNCHANGED <<game, s6, s7, s8, rest>>
  \/ game = "Tetris" /\ Tetris!Next /\ UNCHANGED <<game, s5, s6, s7, s8, rest>>
  \/ game = "RubiksCube" /\ RubiksCube!Next /\ UNCHANGED <<game, s5, s6, s7, s8, rest>>
  \/ game = "GraphColoring" /\ GraphColoring!Next /\ UNCHANGED <<game, s7, s8, rest>>
  \/ game = "Routing" /\ Routing!Next /\ UNCHANGED <<game, s8, rest>>
  \/ game = "MiniGrid" /\ MiniGrid!Next /\ UNCHANGED <<game, s6, s7, s8, rest>>
  \/ game = "BabyAI" /\ BabyAI!Next /\ UNCHANGED <<game, s7, s8, rest>>
  \/ game = "BabyAIDone" /\ BabyAIDone!Next /\ UNCHANGED <<game, s7, s8, rest>>
  \/ game = "Atari" /\ Atari!Next /\ UNCHANGED <<game, rest>>
  \/ game = "TicTacToe" /\ LineGames!TicTacToeNext /\ UNCHANGED <<game, rest>>
  \/ game = "ConnectFour" /\ LineGames!ConnectFourNext /\ UNCHANGED <<game, rest>>
  \/ game = "Hex" /\ Hex!HexNext /\ UNCHANGED <<game, s10, s11, s12>>
  \/ game = "Othello" /\ Othello!OthelloNext /\ UNCHANGED <<game, s10, s11, s12>>
  \/ game = "Go2" /\ Go2!Next /\ UNCHANGED game
  \/ game = "Go3" /\ Go3!Next /\ UNCHANGED game
  \/ game = "Chess" /\ Chess!Next /\ UNCHANGED game
  \/ game = "AnimalShogi" /\ AnimalShogi!Next /\ UNCHANGED game
  \/ game = "KuhnPoker" /\ CardGames!KuhnNext /\ UNCHANGED <<game, s12>>
  \/ game = "LeducHoldem" /\ CardGames!LeducNext /\ UNCHANGED <<game, s12>>

Spec == Init /\ [][Next]_vars

----------------------------------------------------------------------------
\* In every state of a game played alone the board is one the rules can reach: boxes
\* keep their number and stay off the walls (sokoban_env.h, DetectNoop), the numbers on
\* the grid are one snake and the fruit is off it (snake_env.h, Step), what is shown is
\* counted right, closed under open ground and ends the game when complete
\* (minesweeper_env.h, Reveal), the puzzle can be solved (sliding_tile_puzzle_env.h,
\* ApplyMove), no row is full (tetris_env.h, ClearFullRows), the pieces of the cube are
\* whole (rubiks_cube_env.h, AdjacentIndices), the colouring is proper
\* (graph_coloring_env.h), the capacity is the tour's up to the rounding of floats and
\* some node is left to go to (cvrp_env.h, Step), and 2048 ends exactly on a full board
\* without equal neighbours (game2048_env.h, AnyActionAvailable).  In a minigrid every
\* level can be won, its things are in one place each and locked rooms stay closed
\* (minigrid_core.cc, Step), moving obstacles are where they are listed and nothing is
\* seen through walls (minigrid_render.cc, GenImage); the verifier of a BabyAI mission
\* knows where its things are and has seen what was done (babyai_core.cc, AfterStep).  An
\* agent of marlgrid sees the others where they are, facing as they do and through no wall
\* (marlgrid.h, AgentViewCells), and bonus tiles pay in their cycle (BonusReward).  An
\* Atari observation is of one game, which is not played for longer than it may last
\* (atari_env.h, Reset).
BoardsStayWhole ==
  /\ game = "Game2048" => Game2048!DoneIsStuck
  /\ game = "Sokoban" => Sokoban!BoxesConserved
  /\ game = "Snake" => Snake!BodyIsPath /\ Snake!FruitIsFree
  /\ game = "Minesweeper" => Minesweeper!RegionsAreOpen /\ Minesweeper!EndsWhenSafeCellsShown
  /\ game = "SlidingTile" => SlidingTile!Solvable
  /\ game = "Tetris" => Tetris!NoFullRow
  /\ game = "RubiksCube" => RubiksCube!PiecesStayWhole
  /\ game = "GraphColoring" => GraphColoring!ColoringIsProper
  /\ game = "Routing" => Routing!CapacityOfTour /\ Routing!NeverStuck
  /\ game = "MiniGrid" =>
       /\ MiniGrid!WorldStaysWhole
       /\ MiniGrid!ObstaclesListed
       /\ MiniGrid!LevelCanBeWon
       /\ MiniGrid!NothingSeenThroughWalls
       /\ MiniGrid!NotYetDecided
  /\ game = "BabyAI" => BabyAI!WorldStaysWhole /\ BabyAI!PositionsKnown /\ BabyAI!SuccessIsSeen
  /\ game = "BabyAIDone" => BabyAIDone!WorldStaysWhole /\ BabyAIDone!PositionsKnown
  /\ game = "MarlGrid" => MarlGrid!PictureIsTrue /\ MarlGrid!BonusesFollowCycle
  /\ game = "Atari" => Atari!FramesOfOneGame /\ Atari!GameIsCut

\* A step changes and pays what the rules say: rewards of 2048 add up to the score of
\* the board and no tile merges twice (game2048_env.h, MoveLineLeft), boxes move when
\* pushed, one cell (sokoban_env.h, MoveAgent), a click opens one region
\* (minesweeper_env.h, Reveal), rows are paid for (tetris_env.h, ClearFullRows), and a
\* color is refused only if it clashes, also in the first step after a reset
\* (graph_coloring_env.h, Step).  What several agents claim in one step is given once: a
\* cleaned cell, a cell of the grid to a wire or a robot, a food and a customer.  The
\* success of a minigrid task is paid for only when it shows on the grid
\* (minigrid_tasks.cc, minigrid_room_tasks.cc, AfterStep), and of a BabyAI mission when
\* its parts were done in their order (babyai_instr.cc, Verify).  An Atari step ends the
\* episode for a reason the emulator shows (atari_env.h, Step).
StepsFollowRules ==
  [][/\ game = "Game2048" => Game2048!RewardIsScore
     /\ game = "Big2048" => Big2048!RewardIsScore /\ Big2048!TilesMergeOnce
     /\ game = "Sokoban" => Sokoban!BoxesArePushed
     /\ game = "Minesweeper" => Minesweeper!OnlyRegionsOpen
     /\ game = "Tetris" => Tetris!RowsPaid
     /\ game = "GraphColoring" => GraphColoring!RefusedOnlyIfImproper
     /\ game = "Cleaner" => Cleaner!CleanedOnce
     /\ game = "Connector" => Connector!WiresStay
     /\ game = "RobotWarehouse" => RobotWarehouse!NoSwap
     /\ game = "Foraging" => Foraging!FoodPaidOnce
     /\ game = "Fleet" => Fleet!ServedByOne
     /\ game = "MiniGrid" => MiniGrid!PaidIsDone
     /\ game = "BabyAI" => BabyAI!PaidInOrder
     /\ game = "BabyAIDone" => BabyAIDone!PaidInOrder
     /\ game = "Atari" => Atari!EndsWithLife]_vars

----------------------------------------------------------------------------
InGo2 == game = "Go2"
InGo3 == game = "Go3"

\* Every mask offers what the rules allow, computed another way: the lines othello walks
\* by square numbers (board_games.h, EdgeOk), the sums of pseudo-liberties of go (go.h,
\* InAtari), the moves and drops of chess and animal shogi that leave no king to be taken
\* (chess_games.h and animal_shogi.h, UpdateLegalActionMask), and the raises of Leduc
\* hold'em, where one folds only to a raise and a round starts even (card_games.h, StepGame).
MasksFollowRules ==
  /\ game = "Othello" => Othello!MaskIsLegal
  /\ InGo2 => Go2!MovesLeaveLiberty
  /\ InGo3 => Go3!MovesLeaveLiberty
  /\ game = "Chess" => Chess!MaskIsLegal
  /\ game = "AnimalShogi" => AnimalShogi!MaskIsLegal
  /\ game = "LeducHoldem" => CardGames!FoldAnswersRaise

\* The numbers on the stones are the chains of the board, after any merges, captures,
\* negations and swaps (Place and Swap of HexEnv; MergeAdjacentChains and
\* ApplyActionToBoard of GoEnv), and the two floods of go find the same area
\* (CountTerritory, ChineseAreaScores).  A right to castle is there until king or rook is moved
\* or taken (chess_games.h, ApplyMove and FlipState), and no piece of animal shogi is lost on
\* its way from the board to a hand and back (animal_shogi.h, ApplyMove and ApplyDrop).
PositionsStaySound ==
  /\ game = "Hex" => Hex!ChainsAreConnected
  /\ InGo2 => Go2!ChainsAreConnected /\ Go2!AreasAgree
  /\ InGo3 => Go3!ChainsAreConnected /\ Go3!AreasAgree
  /\ game = "Chess" => Chess!RightsFollowMoves
  /\ game = "AnimalShogi" => AnimalShogi!PiecesConserved

\* A game ends when its rules say so and pays whom they say, whichever player has which
\* color: lines (TicTacToeLines, HasWon), joined sides and no draw in hex (IsTerminal),
\* no move for either in othello (GetReward), of all ends of chess a mate (StepGame of
\* ChessEnv), a king in the last row or without an answer in animal shogi (StepGame of
\* AnimalShogiEnv), and in poker the loser pays what that player put in (UnitReward of KuhnPokerEnv and LeducHoldemEnv).
OutcomesFollowRules ==
  /\ game = "TicTacToe" => LineGames!TicTacToeLineWins
  /\ game = "ConnectFour" => LineGames!ConnectFourLineWins
  /\ game = "Hex" => Hex!SomebodyJoins
  /\ game = "Othello" => Othello!EndsWhenNobodyPlays
  /\ game = "Chess" => Chess!EndsFollowRules
  /\ game = "AnimalShogi" => AnimalShogi!EndsWhenWon
  /\ game = "KuhnPoker" => CardGames!KuhnLoserPays
  /\ game = "LeducHoldem" => CardGames!LeducLoserPays

\* A move of go takes the stones the rules say and no others, no two moves undo each
\* other (the ko of ApplyActionToBoard), and no position comes back while the episode
\* goes on (IsPsk, MaskRepeatedPositions).  A move of chess changes its squares, those of the
\* rook it castles with and the one of a pawn taken in passing (ApplyMove of ChessEnv).
MovesFollowRules ==
  [][/\ InGo2 => Go2!CapturesFollowRules /\ Go2!NobodyRetakes /\ Go2!NoPositionRepeats
     /\ InGo3 => Go3!CapturesFollowRules /\ Go3!NobodyRetakes /\ Go3!NoPositionRepeats
     /\ game = "Chess" => Chess!MovesChangeTheirSquares]_vars

----------------------------------------------------------------------------
(* The sizes of Environments.cfg and EnvironmentsPgx.cfg. *)
SmallCleaner ==
  [rows |-> 3, cols |-> 3, agents |-> 2, walls |-> {w \in SUBSET Grid33 : Cardinality(w) <= 1},
   starts |-> {<<>>, <<<<0, 0>>, <<1, 1>>>>}, limit |-> 4]

\* The default layout, and one where the wires have to cross.
SmallConnector ==
  [rows |-> 3, cols |-> 3, agents |-> 2, limit |-> 6,
   layouts |-> {[at |-> <<<<0, 0>>, <<1, 0>>>>, target |-> <<<<0, 2>>, <<1, 2>>>>],
                [at |-> <<<<0, 0>>, <<2, 2>>>>, target |-> <<<<2, 0>>, <<0, 1>>>>]}]

SmallWarehouse == [rows |-> 3, cols |-> 3, agents |-> 3, limit |-> 6]

\* One food needs both agents, the other the stronger one.
SmallForaging ==
  [rows |-> 3, cols |-> 3, limit |-> 8,
   setups |-> {[at |-> <<<<0, 0>>, <<0, 1>>>>, level |-> <<1, 2>>,
                food |-> <<<<1, 1>>, <<2, 2>>>>, foodLevel |-> <<3, 2>>]}]

\* Idle machines and every operation to be started, as by default, or configured: the second
\* job masked out, masked out and at work, or an inactive job at work, on two machines or with
\* no time left; operations without a machine or a duration are configured ones as well.
JobShopStart(ops, mask, jobs, left) ==
  [ops |-> ops, mask |-> mask, machineJob |-> [m \in 0..1 |-> jobs[m + 1]], remaining |-> [m \in 0..1 |-> left[m + 1]]]
CrossedOps(durations) == [j \in 1..2 |-> [machine |-> 2 - j, duration |-> durations[j]]]
SmallJobStarts ==
  {JobShopStart(o, 1..2, <<9, 9>>, <<0, 0>>) : o \in [1..2 -> [machine : 0..1, duration : 1..3]]}
  \cup {JobShopStart(CrossedOps(<<2, -1>>), {1}, jobs, <<2, 3>>) : jobs \in {<<9, 9>>, <<2, 9>>, <<2, 3>>, <<3, 3>>}}
  \cup {JobShopStart(CrossedOps(<<0, 1>>), 1..2, <<3, 9>>, left) : left \in {<<1, 0>>, <<0, 0>>}}
SmallJobShop ==
  [machines |-> 2, active |-> 1..2, others |-> {3}, noJob |-> 9, limit |-> 6, starts |-> SmallJobStarts]

\* Demands with full vehicles, as by default, or configured: vehicles that start with less
\* than a load or with more, and demands that are no demand.
FleetStart(d, loads) == [demands |-> [n \in 0..3 |-> IF n = 0 THEN 0 ELSE d[n]], capacities |-> loads]
SmallFleetStarts ==
  {FleetStart(d, <<4, 4>>) : d \in [1..3 -> {2, 3}]}
  \cup {FleetStart(<<2, 3, 2>>, <<6, 0>>), FleetStart(<<-1, 2, 0>>, <<3, -2>>)}
SmallFleet == [vehicles |-> 2, capacity |-> 4, limit |-> 5, starts |-> SmallFleetStarts]

\* Two agents who race for a goal or come back from it, one who cycles through bonus
\* tiles, and two who look past a wall.
Race(size, spots) ==
  [name |-> "empty", agents |-> 2, size |-> size, spots |-> spots, turns |-> {0, 1}, viewSize |-> 3, viewOffset |-> 0,
   clutter |-> 0, randomizeGoal |-> FALSE, bonusTiles |-> 0, initialReward |-> FALSE, resetOnMistake |-> FALSE,
   respawn |-> FALSE, ghost |-> FALSE, maxEpisodeSteps |-> 4]
Cycle(tiles, initial, mistake) ==
  [Race(4, {1, 2} \X {1, 2}) EXCEPT !.name = "goalcycle", !.agents = 1, !.bonusTiles = tiles, !.viewOffset = 1,
   !.initialReward = initial, !.resetOnMistake = mistake, !.turns = {1}, !.maxEpisodeSteps = 7]
Clutter(offset) ==
  [Race(5, {<<1, 1>>, <<2, 2>>, <<3, 1>>}) EXCEPT !.name = "cluttered", !.clutter = 1, !.viewSize = 3 + 2 * offset,
   !.viewOffset = offset, !.turns = {0, 2}, !.ghost = TRUE, !.maxEpisodeSteps = 1]
SmallMarlConfigs ==
  {Race(4, {<<1, 1>>, <<1, 2>>}), [Race(4, {<<1, 2>>, <<2, 1>>}) EXCEPT !.respawn = TRUE, !.maxEpisodeSteps = 3]}
  \cup {Cycle(1, TRUE, FALSE), Cycle(2, FALSE, FALSE), Cycle(3, TRUE, FALSE), Cycle(3, FALSE, TRUE)}
  \cup {Clutter(0), Clutter(1)}
=============================================================================
