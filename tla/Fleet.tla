-------------------------------- MODULE Fleet --------------------------------
(* jumanji/multi_cvrp_env.h: vehicles that are moved one after the other in a step
   share the customers.  Distances, times and time windows are left out. *)
EXTENDS Integers

CONSTANTS
  NumVehicles, VehicleCapacity,   \* kNumVehicles, kVehicleCapacity
  Starts,                         \* [demands, capacities]: the default ones, or those of
                                  \* multi_cvrp_node_demands and multi_cvrp_vehicle_capacities
  TimeLimit                       \* kTimeLimit

VARIABLES start, demands, capacities, at, stepCount, done
vars == <<start, demands, capacities, at, stepCount, done>>

Vehicles == 1..NumVehicles
Nodes == DOMAIN start.demands

Init ==
  /\ start \in Starts /\ demands = start.demands /\ capacities = start.capacities
  /\ at = [v \in Vehicles |-> 0]
  /\ stepCount = 0 /\ done = FALSE

Reset ==
  /\ demands' = start.demands /\ capacities' = start.capacities
  /\ at' = [v \in Vehicles |-> 0]
  /\ stepCount' = 0 /\ done' = FALSE
  /\ UNCHANGED start

\* Mutation: the demands of the beginning of the step are asked.
IsActionValidBefore(s, v, node) ==
  node = 0 \/ (demands[node] > 0 /\ demands[node] <= s.capacities[v])
\* Mutation: the capacity is not asked.
IsActionValidOverloaded(s, v, node) == node = 0 \/ s.demands[node] > 0

IsActionValid(s, v, node) ==
  node = 0 \/ (s.demands[node] > 0 /\ s.demands[node] <= s.capacities[v])

\* One vehicle's part of the loop in Step.
Turn(s, v, node) ==
  IF ~IsActionValid(s, v, node) THEN [s EXCEPT !.valid = FALSE]
  ELSE [s EXCEPT !.at[v] = node,
                 !.capacities[v] = IF node = 0 THEN VehicleCapacity ELSE @ - s.demands[node],
                 !.demands[node] = IF node = 0 THEN @ ELSE 0]

AllServed(d) == \A n \in Nodes \ {0} : d[n] = 0

Step(action) ==
  LET after[v \in 0..NumVehicles] ==
        IF v = 0 THEN [demands |-> demands, capacities |-> capacities, at |-> at, valid |-> TRUE]
        ELSE Turn(after[v - 1], v, action[v])
      s == after[NumVehicles]
  IN  /\ ~done
      /\ demands' = s.demands /\ capacities' = s.capacities /\ at' = s.at
      /\ stepCount' = stepCount + 1
      /\ done' = (~s.valid \/ AllServed(s.demands) \/ stepCount' >= TimeLimit)
      /\ UNCHANGED start

Next == Reset \/ \E action \in [Vehicles -> Nodes] : Step(action)

----------------------------------------------------------------------------
\* Vehicles never serve a customer together, even when a step sends them to the
\* same one: its whole demand goes into one vehicle that is there.
ServedByOne ==
  stepCount' = stepCount + 1 =>
    \A n \in Nodes : demands'[n] # demands[n] =>
      /\ demands'[n] = 0
      /\ \E v \in Vehicles : /\ at'[v] = n /\ capacities'[v] = capacities[v] - demands[n]
                             /\ \A w \in Vehicles \ {v} : at'[w] # n

\* No vehicle takes more than it has left, and none has more than a full vehicle or what it
\* started with: a vehicle at the depot has the one or the other.
LoadsFit ==
  \A v \in Vehicles :
    /\ capacities[v] >= 0 \/ capacities[v] = start.capacities[v]
    /\ capacities[v] <= VehicleCapacity \/ capacities[v] <= start.capacities[v]
    /\ at[v] = 0 => capacities[v] \in {VehicleCapacity, start.capacities[v]}

\* The inductive invariant.
IInv ==
  /\ start \in Starts /\ demands \in [Nodes -> Int]
  /\ capacities \in [Vehicles -> Int] /\ at \in [Vehicles -> Nodes]
  /\ LoadsFit
============================================================================
