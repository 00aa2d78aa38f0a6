-------------------------------- MODULE Teams --------------------------------
(* The environments in which several agents act in one step: the games of jumanji/ with a
   team, and marlgrid/.  A behaviour plays one of them, game, whose variables are in the
   slots s1 to s12.  Their sizes are any that the constructors accept; a .cfg file gives
   them a small value. *)
EXTENDS Integers, FiniteSets, Sequences

CONSTANTS
  Games,            \* the games of a run, or of the behaviours of a theorem
  CleanerSize,      \* [rows, cols, agents, walls, starts, limit]
  ConnectorSize,    \* [rows, cols, agents, layouts, limit]
  WarehouseSize,    \* [rows, cols, agents, limit]
  ForagingSize,     \* [rows, cols, setups, limit]
  JobShopSize,      \* [machines, active, others, noJob, starts, limit]
  FleetSize,        \* [vehicles, capacity, starts, limit]
  MarlConfigs       \* the configurations of marlgrid

VARIABLES game, s1, s2, s3, s4, s5, s6, s7, s8, s9, s10, s11, s12
vars == <<game, s1, s2, s3, s4, s5, s6, s7, s8, s9, s10, s11, s12>>

Cleaner == INSTANCE Cleaner WITH Rows <- CleanerSize.rows, Cols <- CleanerSize.cols,
  NumAgents <- CleanerSize.agents, WallSets <- CleanerSize.walls, StartSets <- CleanerSize.starts,
  TimeLimit <- CleanerSize.limit,
  starts <- s1, grid <- s2, at <- s3, stepCount <- s4, cleaned <- s5, done <- s6

Connector == INSTANCE Connector WITH Rows <- ConnectorSize.rows, Cols <- ConnectorSize.cols,
  NumAgents <- ConnectorSize.agents, Layouts <- ConnectorSize.layouts, TimeLimit <- ConnectorSize.limit,
  layout <- s1, grid <- s2, at <- s3, connected <- s4, stepCount <- s5, reward <- s6, done <- s7

RobotWarehouse == INSTANCE RobotWarehouse WITH Rows <- WarehouseSize.rows, Cols <- WarehouseSize.cols,
  NumAgents <- WarehouseSize.agents, TimeLimit <- WarehouseSize.limit,
  at <- s1, stepCount <- s2, reward <- s3, done <- s4

Foraging == INSTANCE Foraging WITH Rows <- ForagingSize.rows, Cols <- ForagingSize.cols,
  Setups <- ForagingSize.setups, TimeLimit <- ForagingSize.limit,
  setup <- s1, at <- s2, eaten <- s3, stepCount <- s4, reward <- s5, done <- s6

JobShop == INSTANCE JobShop WITH NumMachines <- JobShopSize.machines, ActiveJobs <- JobShopSize.active,
  OtherJobs <- JobShopSize.others, NoJob <- JobShopSize.noJob, Starts <- JobShopSize.starts,
  TimeLimit <- JobShopSize.limit,
  start <- s1, opMask <- s2, machineJob <- s3, remaining <- s4, completed <- s5, stepCount <- s6, reward <- s7, done <- s8

Fleet == INSTANCE Fleet WITH NumVehicles <- FleetSize.vehicles, VehicleCapacity <- FleetSize.capacity,
  Starts <- FleetSize.starts, TimeLimit <- FleetSize.limit,
  start <- s1, demands <- s2, capacities <- s3, at <- s4, stepCount <- s5, done <- s6

MarlGrid == INSTANCE MarlGrid WITH Configs <- MarlConfigs,
  config <- s1, grid <- s2, agents <- s3, here <- s4, stepCount <- s5, rewards <- s6, done <- s7, laps <- s8

\* How the sizes fit together.  The code fixes them (kRows, kCols, kNumAgents, kGridSize),
\* clamps the configured cells of cleaners, foragers and food to the grid, and draws the
\* spots of marlgrid from it; robots start in the first column, one below the other.  That
\* configured wires, foragers and food start apart, and that no operation can be started of a
\* job that a configured machine is at work on, is up to the caller; all else that jobs and
\* vehicles are configured with is any number.
ASSUME SizesAssumption ==
  /\ CleanerSize.rows \in Nat \ {0} /\ CleanerSize.cols \in Nat \ {0} /\ CleanerSize.agents \in Nat
  /\ CleanerSize.starts \subseteq {<<>>} \cup [Cleaner!Agents -> Cleaner!Cells]
  /\ ConnectorSize.agents \in Nat
  /\ \A l \in ConnectorSize.layouts :
       /\ l.at \in [Connector!Agents -> Connector!Cells] /\ l.target \in [Connector!Agents -> Connector!Cells]
       /\ \A i, j \in Connector!Agents :
            i # j => l.at[i] # l.at[j] /\ l.target[i] # l.target[j] /\ l.at[i] # l.target[j]
  /\ WarehouseSize.rows \in Nat /\ WarehouseSize.cols \in Nat \ {0}
  /\ WarehouseSize.agents \in 0..WarehouseSize.rows
  /\ \A s \in ForagingSize.setups :
       /\ s.at \in [Foraging!Agents -> Foraging!Cells] /\ s.at[1] # s.at[2]
       /\ \A i \in Foraging!Agents, f \in Foraging!Foods : s.at[i] # s.food[f]
  /\ JobShopSize.machines \in Nat /\ JobShopSize.noJob \notin JobShop!Jobs
  /\ \A b \in JobShopSize.starts :
       /\ b.ops \in [JobShopSize.active -> [machine : Int, duration : Int]]
       /\ b.mask \subseteq JobShopSize.active
       /\ b.machineJob \in [JobShop!Machines -> JobShop!Jobs \cup {JobShopSize.noJob}]
       /\ b.remaining \in [JobShop!Machines -> Int]
       /\ \A m \in JobShop!Machines : b.machineJob[m] \notin b.mask
  /\ FleetSize.vehicles \in Nat /\ FleetSize.capacity \in Nat
  /\ \A b \in FleetSize.starts :
       /\ 0 \in DOMAIN b.demands /\ b.demands \in [DOMAIN b.demands -> Int]
       /\ b.capacities \in [Fleet!Vehicles -> Int]
  /\ \A o \in MarlConfigs :
       /\ o.agents \in Nat /\ o.size \in Nat /\ o.bonusTiles \in Nat /\ o.clutter \in Nat
       /\ o.spots \subseteq (0 .. o.size - 1) \X (0 .. o.size - 1) /\ o.turns \subseteq 0..3

----------------------------------------------------------------------------
\* The slots a game does not use.
No12 == s12 = 0
No10 == s10 = 0 /\ s11 = 0 /\ No12
No9 == s9 = 0 /\ No10
No8 == s8 = 0 /\ No9
No7 == s7 = 0 /\ No8
No6 == s6 = 0 /\ No7
No5 == s5 = 0 /\ No6
rest == <<s9, s10, s11, s12>>

TeamInit ==
  /\ game \in Games
  /\ \/ game = "Cleaner" /\ Cleaner!Init /\ No7
     \/ game = "Connector" /\ Connector!Init /\ No8
     \/ game = "RobotWarehouse" /\ RobotWarehouse!Init /\ No5
     \/ game = "Foraging" /\ Foraging!Init /\ No7
     \/ game = "JobShop" /\ JobShop!Init /\ No9
     \/ game = "Fleet" /\ Fleet!Init /\ No7
     \/ game = "MarlGrid" /\ MarlGrid!Init /\ No9

TeamNext ==
  \/ game = "Cleaner" /\ Cleaner!Next /\ UNCHANGED <<game, s7, s8, rest>>
  \/ game = "Connector" /\ Connector!Next /\ UNCHANGED <<game, s8, rest>>
  \/ game = "RobotWarehouse" /\ RobotWarehouse!Next /\ UNCHANGED <<game, s5, s6, s7, s8, rest>>
  \/ game = "Foraging" /\ Foraging!Next /\ UNCHANGED <<game, s7, s8, rest>>
  \/ game = "JobShop" /\ JobShop!Next /\ UNCHANGED <<game, rest>>
  \/ game = "Fleet" /\ Fleet!Next /\ UNCHANGED <<game, s7, s8, rest>>
  \/ game = "MarlGrid" /\ MarlGrid!Next /\ UNCHANGED <<game, rest>>

TeamSpec == TeamInit /\ [][TeamNext]_vars

----------------------------------------------------------------------------
\* Agents that move in one step, in order or at once, never come to share what only
\* one of them may have: cleaners stand on clean cells (cleaner_env.h, Step), wires
\* that make for one cell do not collide (connector_env.h, Step), robots
\* (robot_warehouse_env.h, Step) and foragers and food (level_based_foraging_env.h,
\* Step) are in different cells, a job waits, runs on one machine or is completed
\* (job_shop_env.h, Step), no vehicle takes more than it has left (multi_cvrp_env.h, Step), and an
\* agent of marlgrid is in one cell, off the walls and alone but for ghosts (marlgrid.h,
\* MoveAgentTo).
AgentsKeepApart ==
  /\ game = "Cleaner" => Cleaner!AgentsOnClean
  /\ game = "Connector" => Connector!GridShowsAgents
  /\ game = "RobotWarehouse" => RobotWarehouse!RobotsApart
  /\ game = "Foraging" => Foraging!EntitiesApart
  /\ game = "JobShop" => JobShop!JobsAccountedFor
  /\ game = "Fleet" => Fleet!LoadsFit
  /\ game = "MarlGrid" => MarlGrid!AgentsInPlace

\* The inductive invariant behind it: each part of AgentsKeepApart, the types it needs, that
\* positions are in the grid, and for marlgrid that the grid is walled all around and that
\* whoever is not active is done.
IInv ==
  /\ game = "Cleaner" => Cleaner!IInv
  /\ game = "Connector" => Connector!IInv
  /\ game = "RobotWarehouse" => RobotWarehouse!IInv
  /\ game = "Foraging" => Foraging!IInv
  /\ game = "JobShop" => JobShop!IInv
  /\ game = "Fleet" => Fleet!IInv
  /\ game = "MarlGrid" => MarlGrid!IInv
=============================================================================
