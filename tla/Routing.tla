------------------------------ MODULE Routing ------------------------------
(* jumanji/cvrp_env.h: one vehicle serves customers and refills at node 0.  The
   capacity is a float, in units of 2^-28 here, and loses low bits with every
   customer.  Replayed episodes and the coordinates are left out. *)
EXTENDS Integers, FiniteSets, Sequences, SequencesExt, FiniteSetsExt

CONSTANTS
  DemandSets,          \* cvrp_demands, or the default: functions of the nodes
  TrajectoryLength,    \* kTrajectoryLength
  TimeLimit            \* kTimeLimit

VARIABLES demands, unvisited, position, trajectory, capacity, stepCount, done
vars == <<demands, unvisited, position, trajectory, capacity, stepCount, done>>

One == 2 ^ 28
Customers == DOMAIN demands \ {0}

\* A float has 24 significant bits; the difference is rounded half to even.
Rounded(x) ==
  LET k == CHOOSE e \in 0..5 : x < 2 ^ (24 + e) /\ (e = 0 \/ x >= 2 ^ (23 + e))
      q == x \div 2 ^ k
      r == 2 * (x % 2 ^ k)
  IN  IF k > 0 /\ (r > 2 ^ k \/ (r = 2 ^ k /\ q % 2 = 1)) THEN (q + 1) * 2 ^ k ELSE q * 2 ^ k

Init ==
  /\ demands \in DemandSets
  /\ unvisited = Customers /\ position = 0 /\ trajectory = <<0>>
  /\ capacity = One /\ stepCount = 0 /\ done = FALSE

Reset ==
  /\ unvisited' = Customers /\ position' = 0 /\ trajectory' = <<0>>
  /\ capacity' = One /\ stepCount' = 0 /\ done' = FALSE
  /\ UNCHANGED demands

IsActionValid(node) ==
  IF node = 0 THEN position # 0 ELSE node \in unvisited /\ demands[node] <= capacity

\* Mutation: the vehicle is not refilled.
CapacityNotRefilled(node) == IF node = 0 THEN capacity ELSE Rounded(capacity - demands[node])
CapacityAfter(node) == IF node = 0 THEN One ELSE Rounded(capacity - demands[node])

\* Mutation: the first move overwrites the depot.
RecordedFromStart(node) == IF stepCount = 0 THEN <<node>> ELSE Append(trajectory, node)
Recorded(node) == IF Len(trajectory) < TrajectoryLength THEN Append(trajectory, node) ELSE trajectory

Step(node) ==
  LET valid == IsActionValid(node)
  IN  /\ ~done
      /\ IF valid
         THEN /\ position' = node
              /\ capacity' = CapacityAfter(node)
              /\ unvisited' = unvisited \ {node}
              /\ trajectory' = Recorded(node)
         ELSE UNCHANGED <<position, capacity, unvisited, trajectory>>
      /\ stepCount' = stepCount + 1
      /\ done' = (~valid \/ unvisited' = {} \/ stepCount' >= TimeLimit)
      /\ UNCHANGED demands

Next == Reset \/ \E node \in DOMAIN demands : Step(node)

----------------------------------------------------------------------------
\* The trajectory explains the capacity: it is what is left of a full load after
\* the customers since the last visit to the depot, give or take a rounding of
\* half a unit in the last place for each of them.  A customer whose demand is
\* exactly what is left may therefore be refused.
CapacityOfTour ==
  LET depots == {i \in DOMAIN trajectory : trajectory[i] = 0}
      tour == {i \in DOMAIN trajectory : i > Max(depots)}
      load == MapThenSumSet(LAMBDA i : demands[trajectory[i]], tour)
      error == capacity - (One - load)
  IN  Len(trajectory) < TrajectoryLength =>
        /\ depots # {} /\ Last(trajectory) = position
        /\ error <= 8 * Cardinality(tour) /\ -error <= 8 * Cardinality(tour)

\* The mask of an episode that goes on is never empty: the depot can be reached
\* from every customer, and from the depot every customer that is left.
NeverStuck == ~done => \E node \in DOMAIN demands : IsActionValid(node)
============================================================================
