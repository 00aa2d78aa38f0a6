----------------------------- MODULE TeamsProof -----------------------------
(***************************************************************************)
(* What the environments of several agents promise, for any size of theirs *)
(* and any number of agents.                                               *)
(***************************************************************************)
EXTENDS Teams, FiniteSetTheorems, SequenceTheorems, WellFoundedInduction, TLAPS

----------------------------------------------------------------------------
(* Robots *)

LEMMA RobotNumbers ==
  /\ RobotWarehouse!Agents \subseteq Nat
  /\ \A i \in RobotWarehouse!Agents : <<i - 1, 0>> \in RobotWarehouse!Cells
<1>1. PICK rows \in Nat, cols \in Nat \ {0}, n \in Nat :
        /\ n <= rows
        /\ WarehouseSize.rows = rows /\ WarehouseSize.cols = cols /\ WarehouseSize.agents = n
  BY SizesAssumption
<1>2. RobotWarehouse!Agents = 1..n /\ RobotWarehouse!Cells = (0..(rows - 1)) \X (0..(cols - 1))
  BY <1>1 DEF RobotWarehouse!Agents, RobotWarehouse!Cells
<1>3. \A i \in 1..n : i - 1 \in 0..(rows - 1) /\ 0 \in 0..(cols - 1) BY <1>1
<1> QED BY <1>2, <1>3

LEMMA WarehouseInitInv ==
  ASSUME RobotWarehouse!Init
  PROVE  RobotWarehouse!IInv
BY RobotNumbers DEF RobotWarehouse!Init, RobotWarehouse!IInv, RobotWarehouse!RobotsApart

LEMMA WarehouseResetInv ==
  ASSUME RobotWarehouse!Reset
  PROVE  RobotWarehouse!IInv'
BY RobotNumbers DEF RobotWarehouse!Reset, RobotWarehouse!IInv, RobotWarehouse!RobotsApart

LEMMA WarehouseStepInv ==
  ASSUME RobotWarehouse!IInv, NEW action \in [RobotWarehouse!Agents -> RobotWarehouse!AgentActions],
         RobotWarehouse!Step(action)
  PROVE  RobotWarehouse!IInv'
<1> DEFINE A == RobotWarehouse!Agents
           free == {i \in A : RobotWarehouse!IsFree(i, RobotWarehouse!After(s1[i], action[i]))}
           to == [i \in A |-> IF i \in free THEN RobotWarehouse!After(s1[i], action[i]) ELSE s1[i]]
           valid == free = A /\ ~RobotWarehouse!Conflict(to)
<1>1. s1' = IF valid THEN to ELSE s1 BY DEF RobotWarehouse!Step
<1>2. CASE valid
  <2>1. \A i \in A : to[i] \in RobotWarehouse!Cells
    BY <1>2 DEF RobotWarehouse!IsFree, RobotWarehouse!InGrid
  <2>2. \A i, j \in A : i # j => to[i] # to[j]
    <3> HIDE DEF to, free
    <3>1. ~RobotWarehouse!Conflict(to) BY <1>2
    <3>2. \A i, j \in A : i < j => to[i] # to[j] BY <3>1 DEF RobotWarehouse!Conflict
    <3>3. \A i, j \in A : i \in Nat /\ j \in Nat BY RobotNumbers
    <3> HIDE DEF A
    <3> QED BY <3>2, <3>3
  <2>3. to \in [A -> RobotWarehouse!Cells] BY <2>1
  <2> HIDE DEF to, A, valid
  <2> QED BY <1>1, <1>2, <2>2, <2>3 DEF RobotWarehouse!IInv, RobotWarehouse!RobotsApart, A
<1>3. CASE ~valid
  <2> HIDE DEF to, valid
  <2>1. s1' = s1 BY <1>1, <1>3
  <2> QED BY <2>1 DEF RobotWarehouse!IInv, RobotWarehouse!RobotsApart
<1> QED BY <1>2, <1>3

----------------------------------------------------------------------------
(* Cleaners *)

LEMMA CleanerInit ==
  ASSUME s1 \in CleanerSize.starts
  PROVE  /\ Cleaner!StartAt \in [Cleaner!Agents -> Cleaner!Cells]
         /\ \A walls : /\ Cleaner!GridOf(walls) \in [Cleaner!Cells -> {"clean", "dirty", "wall"}]
                       /\ \A i \in Cleaner!Agents : Cleaner!GridOf(walls)[Cleaner!StartAt[i]] = "clean"
<1>1. <<0, 0>> \in Cleaner!Cells
  <2>1. CleanerSize.rows \in Nat \ {0} /\ CleanerSize.cols \in Nat \ {0} BY SizesAssumption
  <2>2. 0 \in 0..(CleanerSize.rows - 1) /\ 0 \in 0..(CleanerSize.cols - 1) BY <2>1
  <2> QED BY <2>2 DEF Cleaner!Cells
<1>2. Cleaner!StartAt \in [Cleaner!Agents -> Cleaner!Cells]
  BY <1>1, SizesAssumption DEF Cleaner!StartAt
<1> QED BY <1>2 DEF Cleaner!GridOf

LEMMA CleanerInitInv ==
  ASSUME Cleaner!Init
  PROVE  Cleaner!IInv
<1>1. s1 \in CleanerSize.starts BY DEF Cleaner!Init
<1> QED BY <1>1, CleanerInit DEF Cleaner!Init, Cleaner!IInv, Cleaner!AgentsOnClean

LEMMA CleanerResetInv ==
  ASSUME Cleaner!IInv, Cleaner!Reset
  PROVE  Cleaner!IInv'
<1>1. s1 \in CleanerSize.starts BY DEF Cleaner!IInv
<1> QED BY <1>1, CleanerInit DEF Cleaner!Reset, Cleaner!IInv, Cleaner!AgentsOnClean

LEMMA CleanerStepInv ==
  ASSUME Cleaner!IInv, NEW action \in [Cleaner!Agents -> Cleaner!Actions], Cleaner!Step(action)
  PROVE  Cleaner!IInv'
<1> DEFINE A == Cleaner!Agents
           valid == {i \in A : Cleaner!IsActionValid(i, action[i])}
           to == [i \in A |-> IF i \in valid THEN Cleaner!Beside(s3[i], action[i]) ELSE s3[i]]
<1>1. /\ s3' = to /\ s1' = s1
      /\ s2' = [c \in Cleaner!Cells |-> IF s2[c] = "dirty" /\ \E i \in A : to[i] = c THEN "clean" ELSE s2[c]]
  BY DEF Cleaner!Step
<1>2. \A i \in A : to[i] \in Cleaner!Cells /\ s2[to[i]] # "wall"
  BY DEF Cleaner!IsActionValid, Cleaner!InGrid, Cleaner!IInv, Cleaner!AgentsOnClean
<1>3. to \in [A -> Cleaner!Cells] BY <1>2
<1> HIDE DEF to, valid
<1>4. s2' \in [Cleaner!Cells -> {"clean", "dirty", "wall"}] BY <1>1 DEF Cleaner!IInv
<1>5. \A i \in A : s2'[to[i]] = "clean" BY <1>1, <1>2 DEF Cleaner!IInv
<1> QED BY <1>1, <1>3, <1>4, <1>5 DEF Cleaner!IInv, Cleaner!AgentsOnClean

----------------------------------------------------------------------------
(* Foragers *)

LEMMA ForagingStartInv ==
  ASSUME NEW s \in ForagingSize.setups
  PROVE  /\ s.at \in [Foraging!Agents -> Foraging!Cells]
         /\ s.at[1] # s.at[2]
         /\ \A i \in Foraging!Agents, f \in Foraging!Foods : s.at[i] # s.food[f]
BY SizesAssumption

LEMMA ForagingInitInv ==
  ASSUME Foraging!Init
  PROVE  Foraging!IInv
<1>1. s1 \in ForagingSize.setups /\ s2 = s1.at /\ s3 = {} BY DEF Foraging!Init
<1> QED BY <1>1, ForagingStartInv DEF Foraging!IInv, Foraging!EntitiesApart

LEMMA ForagingResetInv ==
  ASSUME Foraging!IInv, Foraging!Reset
  PROVE  Foraging!IInv'
<1>1. s1' \in ForagingSize.setups /\ s2' = s1'.at /\ s3' = {} BY DEF Foraging!Reset, Foraging!IInv
<1> QED BY <1>1, ForagingStartInv DEF Foraging!IInv, Foraging!EntitiesApart

LEMMA ForagingStepInv ==
  ASSUME Foraging!IInv, NEW action, Foraging!Step(action)
  PROVE  Foraging!IInv'
<1> DEFINE A == Foraging!Agents
           moves == {i \in A : /\ i \notin {j \in A : action[j] = Foraging!Load}
                               /\ Foraging!IsFree(i, Foraging!After(s2[i], action[i]))}
           to == [i \in A |-> IF i \in moves THEN Foraging!After(s2[i], action[i]) ELSE s2[i]]
<1>1. s1' = s1 /\ s2' = (IF to[1] = to[2] THEN s2 ELSE to) /\ s3 \subseteq s3' /\ s3' \subseteq Foraging!Foods
  <2>1. s1' = s1 /\ s3 \subseteq s3' /\ s3' \subseteq Foraging!Foods
    BY DEF Foraging!Step, Foraging!Loaded, Foraging!IInv
  <2>2. s2' = Foraging!Moved(to) BY DEF Foraging!Step
  <2> QED BY <2>1, <2>2 DEF Foraging!Moved
<1>2. \A i \in A : to[i] \in Foraging!Cells /\ \A f \in Foraging!Foods \ s3 : to[i] # s1.food[f]
  BY DEF Foraging!IsFree, Foraging!InGrid, Foraging!IInv, Foraging!EntitiesApart
<1>3. to \in [A -> Foraging!Cells] BY <1>2
<1> HIDE DEF to
<1> QED BY <1>1, <1>2, <1>3 DEF Foraging!IInv, Foraging!EntitiesApart

----------------------------------------------------------------------------
(* One turn after the other *)

LEMMA LeastElement ==
  ASSUME NEW T \in SUBSET Nat, T # {}
  PROVE  \E n \in T : \A m \in T : n <= m
<1>1. PICK R : R = OpToRel(<, Nat) OBVIOUS
<1>2. IsWellFoundedOn(R, Nat) BY <1>1, NatLessThanWellFounded
<1>3. PICK x \in T : \A y \in T : ~ (<<y, x>> \in R) BY <1>2, WFMin
<1>4. \A x1, y1 \in Nat : <<y1, x1>> \in R <=> y1 < x1 BY <1>1 DEF OpToRel
<1>5. \A y \in T : ~ (y < x) BY <1>3, <1>4
<1> QED BY <1>5

\* A set that has 0, and n + 1 with n, has every number.
LEMMA SetInduction ==
  ASSUME NEW S, 0 \in S, \A n \in Nat : n \in S => n + 1 \in S
  PROVE  \A n \in Nat : n \in S
<1>1. SUFFICES ASSUME NEW n \in Nat, n \notin S PROVE FALSE OBVIOUS
<1> DEFINE T == {m \in Nat : m \notin S}
<1>2. PICK k \in T : \A m \in T : k <= m BY LeastElement, <1>1
<1>3. k # 0 BY <1>2
<1>4. k - 1 \in Nat /\ k - 1 \in S BY <1>2, <1>3
<1> QED BY <1>4, <1>2

\* f tells how base becomes, in turns of 1 to n, what T makes of it.
Unfolds(f, n, base, T) ==
  f = [i \in 0..n |-> IF i = 0 THEN base ELSE T[<<f[i - 1], i>>]]

\* There are such functions, and they stay in a set that no turn leaves.
LEMMA TurnsStay ==
  ASSUME NEW N \in Nat, NEW S, NEW base \in S, NEW T \in [S \X (1..N) -> S]
  PROVE  \E f \in [0..N -> S] : Unfolds(f, N, base, T)
<1> DEFINE Good == {n \in Nat : n <= N => \E f \in [0..n -> S] : Unfolds(f, n, base, T)}
<1>1. 0 \in Good
  <2> DEFINE f == [i \in 0..0 |-> base]
  <2>1. f \in [0..0 -> S] OBVIOUS
  <2>2. \A i \in 0..0 : i = 0 OBVIOUS
  <2>3. Unfolds(f, 0, base, T) BY <2>2 DEF Unfolds
  <2> QED BY <2>1, <2>3
<1>2. ASSUME NEW n \in Nat, n \in Good PROVE n + 1 \in Good
  <2>1. SUFFICES ASSUME n + 1 <= N PROVE \E f \in [0..(n + 1) -> S] : Unfolds(f, n + 1, base, T)
    BY DEF Good
  <2>2. PICK f \in [0..n -> S] : Unfolds(f, n, base, T) BY <1>2, <2>1
  <2> DEFINE g == [i \in 0..(n + 1) |-> IF i = n + 1 THEN T[<<f[n], n + 1>>] ELSE f[i]]
  <2>3. n + 1 \in 1..N /\ n \in 0..n BY <2>1
  <2>4. T[<<f[n], n + 1>>] \in S BY <2>3
  <2>5. g \in [0..(n + 1) -> S]
    <3>1. \A i \in 0..(n + 1) : i # n + 1 => i \in 0..n OBVIOUS
    <3> QED BY <2>4, <3>1
  <2>6. \A i \in 0..(n + 1) : g[i] = IF i = 0 THEN base ELSE T[<<g[i - 1], i>>]
    <3> SUFFICES ASSUME NEW i \in 0..(n + 1) PROVE g[i] = IF i = 0 THEN base ELSE T[<<g[i - 1], i>>]
      OBVIOUS
    <3>1. CASE i = n + 1
      <4>1. g[i] = T[<<f[n], n + 1>>] /\ i # 0 /\ i - 1 = n BY <3>1
      <4>2. g[n] = f[n] BY <2>3
      <4> QED BY <4>1, <4>2, <3>1
    <3>2. CASE i # n + 1
      <4>1. i \in 0..n BY <3>2
      <4>2. g[i] = f[i] BY <3>2
      <4>3. i # 0 => i - 1 \in 0..(n + 1) /\ i - 1 # n + 1 BY <4>1
      <4>4. i # 0 => g[i - 1] = f[i - 1] BY <4>3
      <4>5. f[i] = IF i = 0 THEN base ELSE T[<<f[i - 1], i>>] BY <4>1, <2>2 DEF Unfolds
      <4> QED BY <4>2, <4>4, <4>5
    <3> QED BY <3>1, <3>2
  <2> HIDE DEF g
  <2>7. Unfolds(g, n + 1, base, T) BY <2>5, <2>6 DEF Unfolds
  <2> QED BY <2>5, <2>7
<1> HIDE DEF Good
<1>3. N \in Good BY <1>1, <1>2, SetInduction
<1> QED BY <1>3 DEF Good

\* Who is in S at first and after each turn if before is in S at last.
LEMMA TurnsKeep ==
  ASSUME NEW N \in Nat, NEW S, NEW g, g[0] \in S,
         \A i \in Nat : i + 1 <= N /\ g[i] \in S => g[i + 1] \in S
  PROVE  g[N] \in S
<1> DEFINE Q == {i \in Nat : i <= N => g[i] \in S}
<1>1. 0 \in Q OBVIOUS
<1>2. \A i \in Nat : i \in Q => i + 1 \in Q OBVIOUS
<1> HIDE DEF Q
<1>3. N \in Q BY <1>1, <1>2, SetInduction
<1> QED BY <1>3 DEF Q

----------------------------------------------------------------------------
(* Vehicles *)

\* A load that LoadsFit allows a vehicle at a node: c0 is what it started with, n a full one.
Fits(c, node, c0, n) == /\ c >= 0 \/ c = c0
                        /\ c <= n \/ c <= c0
                        /\ node = 0 => c \in {n, c0}

States ==
  {s \in [demands : [Fleet!Nodes -> Int], capacities : [Fleet!Vehicles -> Int],
          at : [Fleet!Vehicles -> Fleet!Nodes], valid : BOOLEAN] :
     \A v \in Fleet!Vehicles : Fits(s.capacities[v], s.at[v], s1.capacities[v], FleetSize.capacity)}

LEMMA FleetNumbers ==
  /\ FleetSize.vehicles \in Nat /\ FleetSize.capacity \in Nat
  /\ \A b \in FleetSize.starts :
       /\ 0 \in DOMAIN b.demands /\ b.demands \in [DOMAIN b.demands -> Int]
       /\ b.capacities \in [Fleet!Vehicles -> Int]
BY SizesAssumption

LEMMA LoadsFitIsFits ==
  Fleet!LoadsFit <=> \A v \in Fleet!Vehicles : Fits(s3[v], s4[v], s1.capacities[v], FleetSize.capacity)
BY DEF Fleet!LoadsFit, Fits

LEMMA FleetInitInv ==
  ASSUME Fleet!Init
  PROVE  Fleet!IInv
<1>1. s1 \in FleetSize.starts BY DEF Fleet!Init
<1> QED BY <1>1, FleetNumbers DEF Fleet!Init, Fleet!IInv, Fleet!LoadsFit, Fleet!Nodes

LEMMA FleetResetInv ==
  ASSUME Fleet!IInv, Fleet!Reset
  PROVE  Fleet!IInv'
<1>1. s1' \in FleetSize.starts /\ s1' = s1 BY DEF Fleet!IInv, Fleet!Reset
<1> QED BY <1>1, FleetNumbers DEF Fleet!Reset, Fleet!IInv, Fleet!LoadsFit, Fleet!Nodes

\* A vehicle's turn leaves the loads right, whoever went before.
LEMMA FleetTurn ==
  ASSUME s1 \in FleetSize.starts,
         NEW s \in States, NEW v \in Fleet!Vehicles, NEW node \in Fleet!Nodes
  PROVE  Fleet!Turn(s, v, node) \in States
<1>1. PICK n \in Nat : n = FleetSize.capacity BY FleetNumbers
<1>2. /\ s.demands \in [Fleet!Nodes -> Int] /\ s.capacities \in [Fleet!Vehicles -> Int]
      /\ s.at \in [Fleet!Vehicles -> Fleet!Nodes] /\ s.valid \in BOOLEAN
      /\ s = [demands |-> s.demands, capacities |-> s.capacities, at |-> s.at, valid |-> s.valid]
  BY DEF States
<1> DEFINE t == Fleet!Turn(s, v, node)
<1> SUFFICES t \in States OBVIOUS
<1>3. CASE ~Fleet!IsActionValid(s, v, node)
  <2>1. t = [demands |-> s.demands, capacities |-> s.capacities, at |-> s.at, valid |-> FALSE]
    BY <1>2, <1>3 DEF Fleet!Turn
  <2> HIDE DEF t
  <2>2. t \in [demands : [Fleet!Nodes -> Int], capacities : [Fleet!Vehicles -> Int],
                at : [Fleet!Vehicles -> Fleet!Nodes], valid : BOOLEAN]
    BY <1>2, <2>1
  <2>3. t.capacities = s.capacities /\ t.at = s.at BY <2>1
  <2> QED BY <2>2, <2>3 DEF States
<1>4. CASE Fleet!IsActionValid(s, v, node)
  <2> DEFINE load == IF node = 0 THEN n ELSE s.capacities[v] - s.demands[node]
             left == IF node = 0 THEN s.demands[node] ELSE 0
  <2>1. t = [demands |-> [s.demands EXCEPT ![node] = left], capacities |-> [s.capacities EXCEPT ![v] = load],
             at |-> [s.at EXCEPT ![v] = node], valid |-> s.valid]
    BY <1>1, <1>2, <1>4 DEF Fleet!Turn
  <2>2. PICK d \in Int, c \in Int : d = s.demands[node] /\ c = s.capacities[v] BY <1>2
  <2>3. PICK c0 \in Int : c0 = s1.capacities[v] BY FleetNumbers
  <2>4. node # 0 => d > 0 /\ d <= c BY <1>4, <2>2 DEF Fleet!IsActionValid
  <2>5. c <= n \/ c <= c0 BY <1>1, <2>2, <2>3 DEF States, Fits
  <2>6. left \in Int /\ load \in Int /\ Fits(load, node, c0, n)
    <3>1. CASE node = 0 BY <1>1, <2>2, <3>1 DEF Fits
    <3>2. CASE node # 0
      <4>1. load = c - d /\ left = 0 BY <2>2, <3>2
      <4> HIDE DEF load, left
      <4> QED BY <2>2, <2>4, <2>5, <3>2, <4>1 DEF Fits
    <3> QED BY <3>1, <3>2
  <2> HIDE DEF t, load, left
  <2>7. t \in [demands : [Fleet!Nodes -> Int], capacities : [Fleet!Vehicles -> Int],
                at : [Fleet!Vehicles -> Fleet!Nodes], valid : BOOLEAN]
    BY <1>2, <2>1, <2>6
  <2>8. t.capacities = [s.capacities EXCEPT ![v] = load] /\ t.at = [s.at EXCEPT ![v] = node] BY <2>1
  <2>9. ASSUME NEW w \in Fleet!Vehicles PROVE Fits(t.capacities[w], t.at[w], s1.capacities[w], n)
    <3>1. CASE w = v BY <1>2, <2>3, <2>6, <2>8, <3>1
    <3>2. CASE w # v
      <4>1. t.capacities[w] = s.capacities[w] /\ t.at[w] = s.at[w] BY <1>2, <2>8, <3>2
      <4> QED BY <1>1, <4>1 DEF States
    <3> QED BY <3>1, <3>2
  <2> QED BY <1>1, <2>7, <2>9 DEF States
<1> QED BY <1>3, <1>4

LEMMA FleetStepInv ==
  ASSUME Fleet!IInv, NEW action \in [Fleet!Vehicles -> Fleet!Nodes], Fleet!Step(action)
  PROVE  Fleet!IInv'
<1> DEFINE base == [demands |-> s2, capacities |-> s3, at |-> s4, valid |-> TRUE]
           Play(f) == f = [v \in 0..FleetSize.vehicles |->
                             IF v = 0 THEN base ELSE Fleet!Turn(f[v - 1], v, action[v])]
           after == CHOOSE f : Play(f)
           T == [p \in States \X Fleet!Vehicles |-> Fleet!Turn(p[1], p[2], action[p[2]])]
<1>1. PICK n \in Nat : n = FleetSize.vehicles BY FleetNumbers
<1>2. Fleet!Vehicles = 1..n BY <1>1 DEF Fleet!Vehicles
<1>0. s1 \in FleetSize.starts BY DEF Fleet!IInv
<1>3. base \in States BY LoadsFitIsFits DEF Fleet!IInv, States
<1>4. T \in [States \X (1..n) -> States] BY <1>0, <1>2, FleetTurn
<1>5. PICK f \in [0..n -> States] : Unfolds(f, n, base, T)
  <2> HIDE DEF base, T
  <2> QED BY <1>1, <1>3, <1>4, TurnsStay
<1>6. Play(f)
  <2>1. \A v \in 1..n : T[<<f[v - 1], v>>] = Fleet!Turn(f[v - 1], v, action[v])
    <3>1. SUFFICES ASSUME NEW v \in 1..n PROVE <<f[v - 1], v>> \in States \X Fleet!Vehicles OBVIOUS
    <3>2. v - 1 \in 0..n OBVIOUS
    <3> QED BY <1>2, <3>2
  <2> HIDE DEF base, T
  <2>2. \A v \in 0..n : f[v] = IF v = 0 THEN base ELSE T[<<f[v - 1], v>>] BY <1>5 DEF Unfolds
  <2>3. \A v \in 0..n : f[v] = IF v = 0 THEN base ELSE Fleet!Turn(f[v - 1], v, action[v])
    <3>1. \A v \in 0..n : v # 0 => v \in 1..n OBVIOUS
    <3> QED BY <2>1, <2>2, <3>1, Zenon
  <2>4. f = [v \in 0..n |-> f[v]] OBVIOUS
  <2>5. f = [v \in 0..n |-> IF v = 0 THEN base ELSE Fleet!Turn(f[v - 1], v, action[v])] BY <2>3, <2>4
  <2> QED BY <1>1, <2>5
<1>7. Play(after) BY <1>6
<1>8. after[n] \in States
  <2>1. after[0] = base
    <3> HIDE DEF base, after
    <3> QED BY <1>1, <1>7
  <2>2. ASSUME NEW i \in Nat, i + 1 <= n, after[i] \in States PROVE after[i + 1] \in States
    <3>1. i + 1 \in 1..n /\ i + 1 # 0 /\ (i + 1) - 1 = i BY <2>2
    <3> HIDE DEF base, after
    <3>2. after[i + 1] = Fleet!Turn(after[i], i + 1, action[i + 1]) BY <1>1, <1>7, <3>1
    <3>3. action[i + 1] \in Fleet!Nodes BY <1>2, <3>1
    <3> QED BY <1>0, <1>2, <2>2, <3>1, <3>2, <3>3, FleetTurn
  <2> HIDE DEF base, after
  <2> QED BY <1>1, <1>3, <2>1, <2>2, TurnsKeep
<1>9. s2' = after[n].demands /\ s3' = after[n].capacities /\ s4' = after[n].at /\ s1' = s1
  BY <1>1 DEF Fleet!Step
<1> HIDE DEF after
<1> QED BY <1>0, <1>8, <1>9 DEF States, Fits, Fleet!IInv, Fleet!LoadsFit, Fleet!Nodes

----------------------------------------------------------------------------
(* Wires *)

Contents == {Connector!EmptyCell} \cup ({"path", "position", "target"} \X Connector!Agents)
Grids == [Connector!Cells -> Contents]

\* Every agent of s is shown once, and those that are not connected have their target.
Shows(l, s, i) ==
  /\ \A c \in Connector!Cells : s.grid[c] = <<"position", i>> <=> c = s.at[i]
  /\ IF s.connected[i] THEN s.at[i] = l.target[i] ELSE s.grid[l.target[i]] = <<"target", i>>

Wirings(l) ==
  {s \in [grid : Grids, at : [Connector!Agents -> Connector!Cells], connected : [Connector!Agents -> BOOLEAN]] :
     \A i \in Connector!Agents : Shows(l, s, i)}

Wiring(g, a, c) == [grid |-> g, at |-> a, connected |-> c]

LEMMA Layouts ==
  /\ ConnectorSize.agents \in Nat
  /\ \A l \in ConnectorSize.layouts :
       /\ l.at \in [Connector!Agents -> Connector!Cells] /\ l.target \in [Connector!Agents -> Connector!Cells]
       /\ \A i, j \in Connector!Agents :
            i # j => l.at[i] # l.at[j] /\ l.target[i] # l.target[j] /\ l.at[i] # l.target[j]
BY SizesAssumption

LEMMA ConnectorIsWiring ==
  s1 \in ConnectorSize.layouts => (Connector!IInv <=> Wiring(s2, s3, s4) \in Wirings(s1))
<1> SUFFICES ASSUME s1 \in ConnectorSize.layouts PROVE Connector!IInv <=> Wiring(s2, s3, s4) \in Wirings(s1)
  OBVIOUS
<1>1. s1.target \in [Connector!Agents -> Connector!Cells] BY Layouts
<1> DEFINE s == Wiring(s2, s3, s4)
<1>2. s.grid = s2 /\ s.at = s3 /\ s.connected = s4 BY DEF Wiring
<1>3. s \in [grid : Grids, at : [Connector!Agents -> Connector!Cells], connected : [Connector!Agents -> BOOLEAN]]
        <=> /\ s2 \in Grids /\ s3 \in [Connector!Agents -> Connector!Cells]
            /\ s4 \in [Connector!Agents -> BOOLEAN]
  BY DEF Wiring
<1>4. ASSUME s3 \in [Connector!Agents -> Connector!Cells], NEW i \in Connector!Agents
      PROVE  (/\ {c \in Connector!Cells : s2[c] = <<"position", i>>} = {s3[i]}
              /\ IF s4[i] THEN s3[i] = s1.target[i] ELSE s2[s1.target[i]] = <<"target", i>>) <=> Shows(s1, s, i)
  <2>1. s3[i] \in Connector!Cells BY <1>4
  <2> DEFINE X == {c \in Connector!Cells : s2[c] = <<"position", i>>}
  <2>2. X = {s3[i]} <=> \A c \in Connector!Cells : s2[c] = <<"position", i>> <=> c = s3[i] BY <2>1
  <2> HIDE DEF X, s
  <2>3. Shows(s1, s, i) <=> /\ \A c \in Connector!Cells : s2[c] = <<"position", i>> <=> c = s3[i]
                        /\ IF s4[i] THEN s3[i] = s1.target[i] ELSE s2[s1.target[i]] = <<"target", i>>
    BY <1>2, Zenon DEF Shows
  <2>4. (X = {s3[i]} /\ IF s4[i] THEN s3[i] = s1.target[i] ELSE s2[s1.target[i]] = <<"target", i>>) <=> Shows(s1, s, i)
    BY <2>2, <2>3, Zenon
  <2> QED BY <2>4 DEF X
<1>5. Connector!IInv <=>
        /\ s2 \in Grids /\ s3 \in [Connector!Agents -> Connector!Cells] /\ s4 \in [Connector!Agents -> BOOLEAN]
        /\ \A i \in Connector!Agents :
             /\ {c \in Connector!Cells : s2[c] = <<"position", i>>} = {s3[i]}
             /\ IF s4[i] THEN s3[i] = s1.target[i] ELSE s2[s1.target[i]] = <<"target", i>>
  BY Zenon DEF Connector!IInv, Connector!GridShowsAgents, Grids, Contents
<1> HIDE DEF s
<1>6. s \in Wirings(s1) <=>
        /\ s2 \in Grids /\ s3 \in [Connector!Agents -> Connector!Cells] /\ s4 \in [Connector!Agents -> BOOLEAN]
        /\ \A i \in Connector!Agents : Shows(s1, s, i)
  BY <1>3, Zenon DEF Wirings
<1>7. Connector!IInv <=> s \in Wirings(s1) BY <1>4, <1>5, <1>6, Zenon
<1> QED BY <1>7 DEF s

LEMMA ConnectorIsWiringNext ==
  ASSUME s1' \in ConnectorSize.layouts
  PROVE  Connector!IInv' <=> Wiring(s2', s3', s4') \in Wirings(s1')
<1>1. (s1 \in ConnectorSize.layouts)' => (Connector!IInv <=> Wiring(s2, s3, s4) \in Wirings(s1))'
  BY ConnectorIsWiring, PTL
<1> QED BY <1>1

LEMMA LayoutShown ==
  ASSUME s1 \in ConnectorSize.layouts
  PROVE  Wiring(Connector!GridOf(s1), s1.at, [i \in Connector!Agents |-> s1.at[i] = s1.target[i]]) \in Wirings(s1)
<1> DEFINE A == Connector!Agents
           g == Connector!GridOf(s1)
           a == s1.at
           t == s1.target
           k == [i \in A |-> a[i] = t[i]]
<1>1. /\ a \in [A -> Connector!Cells] /\ t \in [A -> Connector!Cells]
      /\ \A i, j \in A : i # j => a[i] # a[j] /\ t[i] # t[j] /\ a[i] # t[j]
  BY Layouts
<1>2. \A c \in Connector!Cells :
        /\ (\E i \in A : a[i] = c) => \E i \in A : a[i] = c /\ g[c] = <<"position", i>>
        /\ (~\E i \in A : a[i] = c) =>
             /\ (\E i \in A : t[i] = c) => \E i \in A : t[i] = c /\ g[c] = <<"target", i>>
             /\ (~\E i \in A : t[i] = c) => g[c] = Connector!EmptyCell
  BY DEF Connector!GridOf
<1>3. g = [c \in Connector!Cells |-> g[c]] BY DEF Connector!GridOf
<1> HIDE DEF g, a, t
<1>4. g \in Grids
  <2>1. \A c \in Connector!Cells : g[c] \in Contents BY <1>2 DEF Contents
  <2> QED BY <2>1, <1>3 DEF Grids
<1>5. \A i \in A, c \in Connector!Cells : g[c] = <<"position", i>> <=> c = a[i]
  BY <1>1, <1>2 DEF Connector!EmptyCell
<1>6. \A i \in A : a[i] # t[i] => g[t[i]] = <<"target", i>>
  <2>1. SUFFICES ASSUME NEW i \in A, a[i] # t[i] PROVE g[t[i]] = <<"target", i>> OBVIOUS
  <2>2. ~\E j \in A : a[j] = t[i] BY <1>1, <2>1
  <2>3. t[i] \in Connector!Cells BY <1>1
  <2>4. PICK j \in A : t[j] = t[i] /\ g[t[i]] = <<"target", j>> BY <1>2, <2>2, <2>3
  <2>5. j = i BY <1>1, <2>4
  <2> QED BY <2>4, <2>5
<1>7. k \in [A -> BOOLEAN] OBVIOUS
<1>8. \A i \in A : k[i] <=> a[i] = t[i] OBVIOUS
<1> DEFINE s == Wiring(g, a, k)
<1>9. s.grid = g /\ s.at = a /\ s.connected = k BY DEF Wiring
<1>10. s \in [grid : Grids, at : [A -> Connector!Cells], connected : [A -> BOOLEAN]]
  <2> HIDE DEF k, A
  <2> QED BY <1>1, <1>4, <1>7 DEF Wiring
<1>11. \A i \in A : Shows(s1, s, i)
  <2> HIDE DEF k, s
  <2> QED BY <1>5, <1>6, <1>8, <1>9 DEF Shows, t
<1>12. s \in Wirings(s1)
  <2> HIDE DEF s
  <2> QED BY <1>10, <1>11 DEF Wirings
<1> QED BY <1>12 DEF g, a, t
LEMMA ConnectorInitInv ==
  ASSUME Connector!Init
  PROVE  Connector!IInv
<1>1. s1 \in ConnectorSize.layouts /\ s2 = Connector!GridOf(s1) /\ s3 = s1.at
      /\ s4 = [i \in Connector!Agents |-> s1.at[i] = s1.target[i]]
  BY DEF Connector!Init
<1> QED BY <1>1, LayoutShown, ConnectorIsWiring

\* An agent's turn leaves the grid right, whoever went before.
LEMMA ConnectorTurn ==
  ASSUME s1 \in ConnectorSize.layouts, NEW s \in Wirings(s1), NEW i \in Connector!Agents, NEW a
  PROVE  Connector!Turn(s, i, a) \in Wirings(s1)
<1> DEFINE A == Connector!Agents
           c == Connector!After(s.at[i], a)
<1>1. /\ s1.target \in [A -> Connector!Cells]
      /\ \A j, k \in A : j # k => s1.target[j] # s1.target[k]
  BY Layouts
<1>2. /\ s.grid \in Grids /\ s.at \in [A -> Connector!Cells] /\ s.connected \in [A -> BOOLEAN]
      /\ \A j \in A : Shows(s1, s, j)
  BY DEF Wirings
<1> HIDE DEF c
<1>3. CASE a = 0 \/ ~Connector!IsValidPosition(s, i, c)
  <2>1. Connector!Turn(s, i, a) = s BY <1>3 DEF Connector!Turn, c
  <2> QED BY <2>1
<1>4. CASE a # 0 /\ Connector!IsValidPosition(s, i, c)
  <2> DEFINE old == s.at[i]
             g == [s.grid EXCEPT ![old] = <<"path", i>>, ![c] = <<"position", i>>]
             at == [s.at EXCEPT ![i] = c]
             k == [s.connected EXCEPT ![i] = c = s1.target[i]]
             t == Wiring(g, at, k)
  <2>1. Connector!Turn(s, i, a) = t BY <1>4 DEF Connector!Turn, c, Wiring
  <2>2. c \in Connector!Cells /\ ~s.connected[i] /\ s.grid[c] \in {Connector!EmptyCell, <<"target", i>>}
    BY <1>4 DEF Connector!IsValidPosition, Connector!InGrid
  <2>3. old \in Connector!Cells /\ s.grid[old] = <<"position", i>> BY <1>2 DEF Shows
  <2>4. c # old BY <2>2, <2>3 DEF Connector!EmptyCell
  <2>5. s.grid[s1.target[i]] = <<"target", i>> BY <1>2, <2>2 DEF Shows
  <2>6. /\ g \in Grids /\ g[c] = <<"position", i>> /\ g[old] = <<"path", i>>
        /\ \A d \in Connector!Cells : d # c /\ d # old => g[d] = s.grid[d]
    BY <1>2, <2>2, <2>3, <2>4 DEF Grids, Contents
  <2>7. /\ at \in [A -> Connector!Cells] /\ at[i] = c /\ \A j \in A : j # i => at[j] = s.at[j]
    BY <1>2, <2>2
  <2>8. /\ k \in [A -> BOOLEAN] /\ (k[i] <=> c = s1.target[i])
        /\ \A j \in A : j # i => k[j] = s.connected[j]
    BY <1>2
  <2>9. t.grid = g /\ t.at = at /\ t.connected = k BY DEF Wiring
  <2>10. t \in [grid : Grids, at : [A -> Connector!Cells], connected : [A -> BOOLEAN]]
    <3> HIDE DEF g, at, k, A
    <3> QED BY <2>6, <2>7, <2>8 DEF Wiring
  <2> HIDE DEF g, at, k, old, t
  <2>11. ASSUME NEW j \in A PROVE Shows(s1, t, j)
    <3>1. CASE j = i
      <4>1. \A d \in Connector!Cells : g[d] = <<"position", i>> <=> d = c
        BY <1>2, <2>3, <2>4, <2>6 DEF Shows, old
      <4>2. CASE k[i] BY <2>7, <2>8, <2>9, <3>1, <4>1, <4>2 DEF Shows
      <4>3. CASE ~k[i]
        <5>1. s1.target[i] \in Connector!Cells /\ s1.target[i] # c BY <1>1, <2>8, <4>3
        <5>2. s1.target[i] # old BY <2>3, <2>5
        <5>3. g[s1.target[i]] = <<"target", i>> BY <2>5, <2>6, <5>1, <5>2
        <5> QED BY <2>7, <2>9, <3>1, <4>1, <4>3, <5>3 DEF Shows
      <4> QED BY <4>2, <4>3
    <3>2. CASE j # i
      <4>1. \A d \in Connector!Cells : g[d] = <<"position", j>> <=> d = s.at[j]
        <5>1. \A d \in Connector!Cells : s.grid[d] = <<"position", j>> <=> d = s.at[j] BY <1>2 DEF Shows
        <5>2. s.grid[c] # <<"position", j>> /\ s.grid[old] # <<"position", j>>
          BY <2>2, <2>3, <3>2 DEF Connector!EmptyCell
        <5>3. g[c] # <<"position", j>> /\ g[old] # <<"position", j>> BY <2>6, <3>2
        <5> QED BY <2>2, <2>3, <2>6, <5>1, <5>2, <5>3
      <4>2. at[j] = s.at[j] /\ k[j] = s.connected[j] BY <2>7, <2>8, <3>2
      <4>3. CASE s.connected[j]
        <5>1. s.at[j] = s1.target[j] BY <1>2, <4>3 DEF Shows
        <5> QED BY <2>9, <4>1, <4>2, <4>3, <5>1 DEF Shows
      <4>4. CASE ~s.connected[j]
        <5>1. s.grid[s1.target[j]] = <<"target", j>> BY <1>2, <4>4 DEF Shows
        <5>2. s1.target[j] # c /\ s1.target[j] # old
          BY <2>2, <2>3, <3>2, <5>1 DEF Connector!EmptyCell
        <5>3. g[s1.target[j]] = <<"target", j>> BY <1>1, <2>6, <5>1, <5>2
        <5> QED BY <2>9, <4>1, <4>2, <4>4, <5>3 DEF Shows
      <4> QED BY <4>3, <4>4
    <3> QED BY <3>1, <3>2
  <2>12. t \in Wirings(s1) BY <2>10, <2>11 DEF Wirings
  <2> QED BY <2>1, <2>12
<1> QED BY <1>3, <1>4

LEMMA ConnectorResetInv ==
  ASSUME Connector!IInv, Connector!Reset
  PROVE  Connector!IInv'
<1>1. s1 \in ConnectorSize.layouts /\ s1' = s1 BY DEF Connector!IInv, Connector!Reset
<1>2. s2' = Connector!GridOf(s1) /\ s3' = s1.at /\ s4' = [i \in Connector!Agents |-> s1.at[i] = s1.target[i]]
  BY DEF Connector!Reset
<1>3. Wiring(s2', s3', s4') \in Wirings(s1) BY <1>1, <1>2, LayoutShown
<1> QED BY <1>1, <1>3, ConnectorIsWiringNext

LEMMA ConnectorStepInv ==
  ASSUME Connector!IInv, NEW action, Connector!Step(action)
  PROVE  Connector!IInv'
<1> DEFINE base == [grid |-> s2, at |-> s3, connected |-> s4]
           Play(f) == f = [i \in 0..ConnectorSize.agents |->
                             IF i = 0 THEN base ELSE Connector!Turn(f[i - 1], i, action[i])]
           after == CHOOSE f : Play(f)
           T == [p \in Wirings(s1) \X Connector!Agents |-> Connector!Turn(p[1], p[2], action[p[2]])]
<1>1. PICK n \in Nat : n = ConnectorSize.agents BY Layouts
<1>2. Connector!Agents = 1..n /\ s1 \in ConnectorSize.layouts
  BY <1>1 DEF Connector!Agents, Connector!IInv
<1>3. base \in Wirings(s1) BY <1>2, ConnectorIsWiring DEF Wiring
<1>4. T \in [Wirings(s1) \X (1..n) -> Wirings(s1)] BY <1>2, ConnectorTurn
<1>5. PICK f \in [0..n -> Wirings(s1)] : Unfolds(f, n, base, T)
  <2> HIDE DEF base, T
  <2> QED BY <1>1, <1>3, <1>4, TurnsStay
<1>6. Play(f)
  <2>1. \A i \in 1..n : T[<<f[i - 1], i>>] = Connector!Turn(f[i - 1], i, action[i])
    <3>1. SUFFICES ASSUME NEW i \in 1..n PROVE <<f[i - 1], i>> \in Wirings(s1) \X Connector!Agents OBVIOUS
    <3>2. i - 1 \in 0..n OBVIOUS
    <3> QED BY <1>2, <3>2
  <2> HIDE DEF base, T
  <2>2. \A i \in 0..n : f[i] = IF i = 0 THEN base ELSE T[<<f[i - 1], i>>] BY <1>5 DEF Unfolds
  <2>3. \A i \in 0..n : f[i] = IF i = 0 THEN base ELSE Connector!Turn(f[i - 1], i, action[i])
    <3>1. \A i \in 0..n : i # 0 => i \in 1..n OBVIOUS
    <3> QED BY <2>1, <2>2, <3>1, Zenon
  <2>4. f = [i \in 0..n |-> f[i]] OBVIOUS
  <2>5. f = [i \in 0..n |-> IF i = 0 THEN base ELSE Connector!Turn(f[i - 1], i, action[i])] BY <2>3, <2>4
  <2> QED BY <1>1, <2>5
<1>7. Play(after) BY <1>6
<1>8. after[n] \in Wirings(s1)
  <2>1. after[0] = base
    <3> HIDE DEF base, after
    <3> QED BY <1>1, <1>7
  <2>2. ASSUME NEW i \in Nat, i + 1 <= n, after[i] \in Wirings(s1) PROVE after[i + 1] \in Wirings(s1)
    <3>1. i + 1 \in 1..n /\ i + 1 # 0 /\ (i + 1) - 1 = i BY <2>2
    <3> HIDE DEF base, after
    <3>2. after[i + 1] = Connector!Turn(after[i], i + 1, action[i + 1]) BY <1>1, <1>7, <3>1
    <3> QED BY <1>2, <2>2, <3>1, <3>2, ConnectorTurn
  <2> HIDE DEF base, after
  <2> QED BY <1>1, <1>3, <2>1, <2>2, TurnsKeep
<1>9. s2' = after[n].grid /\ s3' = after[n].at /\ s4' = after[n].connected /\ s1' = s1
  BY <1>1 DEF Connector!Step
<1> HIDE DEF after
<1>10. Wiring(s2', s3', s4') = after[n]
  BY <1>8, <1>9 DEF Wirings, Wiring
<1> QED BY <1>2, <1>8, <1>9, <1>10, ConnectorIsWiringNext

----------------------------------------------------------------------------
(* Jobs *)

Machines == JobShop!Machines

\* The time that machine m had for the job of the start is over after n steps.
Over(m, n) == s1.remaining[m] \in 1..n

\* The work of a machine: an operation that was started, or what it has had since the start.
Started(j, m, left, opMask, completed) ==
  /\ j \in s1.mask \ (opMask \cup completed) /\ s1.ops[j].machine = m
  /\ left < s1.ops[j].duration /\ (s1.ops[j].duration > 0 => left > 0)
Had(j, m, left, n) ==
  j \notin s1.mask /\ s1.machineJob[m] = j /\ ~Over(m, n) /\ left = s1.remaining[m] - n

\* The jobs in their places, place by place, after n steps.
JobsPlaced(opMask, machineJob, remaining, completed, n) ==
  /\ opMask \cap completed = {}
  /\ \A m \in Machines : machineJob[m] # JobShopSize.noJob =>
       \/ Started(machineJob[m], m, remaining[m], opMask, completed)
       \/ Had(machineJob[m], m, remaining[m], n)
  /\ \A j \in s1.mask \ (opMask \cup completed) : \E m \in Machines : machineJob[m] = j
  /\ \A m \in Machines : s1.machineJob[m] # JobShopSize.noJob /\ ~Over(m, n) => machineJob[m] = s1.machineJob[m]
  /\ \A j \in JobShop!Jobs \ s1.mask :
       j \in completed <=> \E m \in Machines : s1.machineJob[m] = j /\ Over(m, n)

JobTypes(opMask, machineJob, remaining, completed, n) ==
  /\ s1 \in JobShopSize.starts /\ opMask \subseteq s1.mask /\ completed \subseteq JobShop!Jobs
  /\ machineJob \in [Machines -> JobShop!Jobs \cup {JobShopSize.noJob}] /\ remaining \in [Machines -> Int]
  /\ n \in Nat

LEMMA JobNumbers ==
  /\ JobShopSize.noJob \notin JobShop!Jobs
  /\ \A b \in JobShopSize.starts :
       /\ b.mask \subseteq JobShop!Jobs
       /\ \A j \in b.mask : b.ops[j].duration \in Int
       /\ b.machineJob \in [Machines -> JobShop!Jobs \cup {JobShopSize.noJob}]
       /\ b.remaining \in [Machines -> Int]
       /\ \A m \in Machines : b.machineJob[m] \notin b.mask
BY SizesAssumption DEF Machines, JobShop!Jobs

LEMMA JobsPlacedIsAccounted ==
  ASSUME JobTypes(s2, s3, s4, s5, s6)
  PROVE  JobShop!JobsAccountedFor <=> JobsPlaced(s2, s3, s4, s5, s6)
<1> DEFINE R(j) == JobShop!Running(j)
           J == JobShop!Jobs
           NoJob == JobShopSize.noJob
           Before(j) == {m \in Machines : s1.machineJob[m] = j}
           Fit(j, m) == /\ s1.ops[j].machine = m /\ s4[m] < s1.ops[j].duration
                        /\ (s1.ops[j].duration > 0 => s4[m] > 0)
<1>1. JobShop!JobsAccountedFor <=>
        /\ \A j \in s1.mask :
             /\ IF j \in s2 \cup s5 THEN R(j) = {} ELSE \E m \in Machines : R(j) = {m}
             /\ ~(j \in s2 /\ j \in s5)
             /\ \A m \in R(j) : Fit(j, m)
        /\ \A j \in J \ s1.mask :
             /\ R(j) = {m \in Before(j) : ~Over(m, s6)}
             /\ \A m \in R(j) : s4[m] = s1.remaining[m] - s6
             /\ j \in s5 <=> \E m \in Before(j) : Over(m, s6)
  BY DEF JobShop!JobsAccountedFor, JobShop!WorkIsOver, Machines, Over
<1>2. \A m \in Machines : s3[m] \in J \/ s3[m] = NoJob BY DEF JobTypes
<1>3. \A j, m : m \in R(j) <=> m \in Machines /\ s3[m] = j BY DEF Machines, JobShop!Running
<1>4. /\ s2 \subseteq s1.mask /\ s1.mask \subseteq J /\ NoJob \notin J
      /\ \A m \in Machines : s1.machineJob[m] \in J \cup {NoJob} /\ s1.machineJob[m] \notin s1.mask
  BY JobNumbers DEF JobTypes
<1> HIDE DEF R, J, NoJob
<1>5. \A j, m : Started(j, m, s4[m], s2, s5) <=> j \in s1.mask \ (s2 \cup s5) /\ Fit(j, m) BY DEF Started
<1>6. \A j, m : Had(j, m, s4[m], s6) <=>
                 j \notin s1.mask /\ s1.machineJob[m] = j /\ ~Over(m, s6) /\ s4[m] = s1.remaining[m] - s6
  BY DEF Had
<1>7. JobsPlaced(s2, s3, s4, s5, s6) <=>
        /\ s2 \cap s5 = {}
        /\ \A m \in Machines : s3[m] # NoJob =>
             Started(s3[m], m, s4[m], s2, s5) \/ Had(s3[m], m, s4[m], s6)
        /\ \A j \in s1.mask \ (s2 \cup s5) : \E m \in Machines : s3[m] = j
        /\ \A m \in Machines : s1.machineJob[m] # NoJob /\ ~Over(m, s6) => s3[m] = s1.machineJob[m]
        /\ \A j \in J \ s1.mask : j \in s5 <=> \E m \in Machines : s1.machineJob[m] = j /\ Over(m, s6)
  BY DEF JobsPlaced, NoJob, J
<1> HIDE DEF Fit
<1>8. ASSUME JobShop!JobsAccountedFor PROVE JobsPlaced(s2, s3, s4, s5, s6)
  <2>1. \A j \in s1.mask : /\ j \in s2 \cup s5 => R(j) = {}
                           /\ j \notin s2 \cup s5 => \E m : R(j) = {m}
    BY <1>1, <1>8
  <2>2. s2 \cap s5 = {} BY <1>1, <1>4, <1>8
  <2>3. ASSUME NEW m \in Machines, s3[m] # NoJob
        PROVE  Started(s3[m], m, s4[m], s2, s5) \/ Had(s3[m], m, s4[m], s6)
    <3>1. s3[m] \in J /\ m \in R(s3[m]) BY <1>2, <1>3, <2>3
    <3>2. CASE s3[m] \in s1.mask
      <4>1. s3[m] \notin s2 \cup s5 BY <2>1, <3>1, <3>2
      <4>2. Fit(s3[m], m) BY <1>1, <1>8, <3>1, <3>2
      <4> QED BY <1>5, <3>2, <4>1, <4>2
    <3>3. CASE s3[m] \notin s1.mask
      <4>1. m \in Before(s3[m]) /\ ~Over(m, s6) /\ s4[m] = s1.remaining[m] - s6 BY <1>1, <1>8, <3>1, <3>3
      <4> QED BY <1>6, <3>3, <4>1
    <3> QED BY <3>2, <3>3
  <2>4. \A j \in s1.mask \ (s2 \cup s5) : \E m \in Machines : s3[m] = j BY <1>3, <2>1
  <2>5. ASSUME NEW m \in Machines, s1.machineJob[m] # NoJob, ~Over(m, s6) PROVE s3[m] = s1.machineJob[m]
    <3>1. s1.machineJob[m] \in J \ s1.mask BY <1>4, <2>5
    <3>2. m \in R(s1.machineJob[m]) BY <1>1, <1>8, <2>5, <3>1
    <3> QED BY <1>3, <3>2
  <2>6. \A j \in J \ s1.mask : j \in s5 <=> \E m \in Machines : s1.machineJob[m] = j /\ Over(m, s6)
    BY <1>1, <1>8
  <2> QED BY <1>7, <2>2, <2>3, <2>4, <2>5, <2>6
<1>9. ASSUME JobsPlaced(s2, s3, s4, s5, s6) PROVE JobShop!JobsAccountedFor
  <2>1. \A j \in J : \A m \in R(j) :
          /\ m \in Machines /\ s3[m] = j
          /\ Started(j, m, s4[m], s2, s5) \/ Had(j, m, s4[m], s6)
    <3>1. SUFFICES ASSUME NEW j \in J, NEW m \in R(j)
                   PROVE  /\ m \in Machines /\ s3[m] = j
                          /\ Started(j, m, s4[m], s2, s5) \/ Had(j, m, s4[m], s6)
      OBVIOUS
    <3>2. m \in Machines /\ s3[m] = j /\ j # NoJob BY <1>3, <1>4
    <3> QED BY <1>7, <1>9, <3>2
  <2>2. ASSUME NEW j \in s1.mask
        PROVE  /\ IF j \in s2 \cup s5 THEN R(j) = {} ELSE \E m \in Machines : R(j) = {m}
               /\ ~(j \in s2 /\ j \in s5)
               /\ \A m \in R(j) : Fit(j, m)
    <3>1. \A m \in R(j) : m \in Machines /\ s3[m] = j /\ j \notin s2 \cup s5 /\ Fit(j, m)
      BY <1>4, <1>5, <1>6, <2>1
    <3>2. ~(j \in s2 /\ j \in s5) BY <1>7, <1>9
    <3>3. CASE j \in s2 \cup s5
      <4>1. R(j) = {} BY <3>1, <3>3
      <4> QED BY <3>2, <3>3, <4>1
    <3>4. CASE j \notin s2 \cup s5
      <4>1. PICK m \in Machines : s3[m] = j BY <1>7, <1>9, <3>4
      <4>2. m \in R(j) BY <1>3, <4>1
      <4>3. \A k \in R(j) : s1.ops[j].machine = k BY <3>1 DEF Fit
      <4>4. R(j) = {m} BY <4>2, <4>3
      <4> QED BY <3>1, <3>2, <3>4, <4>4
    <3> QED BY <3>3, <3>4
  <2>3. ASSUME NEW j \in J \ s1.mask
        PROVE  /\ R(j) = {m \in Before(j) : ~Over(m, s6)}
               /\ \A m \in R(j) : s4[m] = s1.remaining[m] - s6
               /\ j \in s5 <=> \E m \in Before(j) : Over(m, s6)
    <3>1. \A m \in R(j) : m \in Before(j) /\ ~Over(m, s6) /\ s4[m] = s1.remaining[m] - s6
      BY <1>5, <1>6, <2>1, <2>3
    <3>2. ASSUME NEW m \in Before(j), ~Over(m, s6) PROVE m \in R(j)
      <4>1. m \in Machines /\ s1.machineJob[m] = j /\ j # NoJob BY <1>4
      <4>2. s3[m] = j BY <1>7, <1>9, <3>2, <4>1
      <4> QED BY <1>3, <4>1, <4>2
    <3>3. j \in s5 <=> \E m \in Before(j) : Over(m, s6) BY <1>7, <1>9, <2>3
    <3> QED BY <3>1, <3>2, <3>3
  <2> QED BY <1>1, <2>2, <2>3
<1> QED BY <1>8, <1>9

LEMMA JobShopInv ==
  JobShop!IInv <=> JobTypes(s2, s3, s4, s5, s6) /\ JobsPlaced(s2, s3, s4, s5, s6)
<1>1. JobShop!IInv <=> JobTypes(s2, s3, s4, s5, s6) /\ JobShop!JobsAccountedFor
  BY DEF JobShop!IInv, JobTypes, Machines
<1> QED BY <1>1, JobsPlacedIsAccounted

LEMMA JobsPlacedAtStart ==
  ASSUME s1 \in JobShopSize.starts
  PROVE  /\ JobTypes(s1.mask, s1.machineJob, s1.remaining, {}, 0)
         /\ JobsPlaced(s1.mask, s1.machineJob, s1.remaining, {}, 0)
<1>1. JobTypes(s1.mask, s1.machineJob, s1.remaining, {}, 0) BY JobNumbers DEF JobTypes
<1>2. \A m : ~Over(m, 0) BY DEF Over
<1>3. ASSUME NEW m \in Machines, s1.machineJob[m] # JobShopSize.noJob
      PROVE  Had(s1.machineJob[m], m, s1.remaining[m], 0)
  <2>1. PICK r \in Int : r = s1.remaining[m] BY JobNumbers
  <2> QED BY <1>2, <2>1, JobNumbers DEF Had
<1> QED BY <1>1, <1>2, <1>3 DEF JobsPlaced

LEMMA JobShopInitInv ==
  ASSUME JobShop!Init
  PROVE  JobShop!IInv
BY JobShopInv, JobsPlacedAtStart DEF JobShop!Init, Machines

LEMMA JobShopInvNext ==
  JobShop!IInv' <=> (JobTypes(s2, s3, s4, s5, s6) /\ JobsPlaced(s2, s3, s4, s5, s6))'
BY JobShopInv, PTL

LEMMA JobShopSame ==
  ASSUME s1' = s1
  PROVE  JobShop!IInv' <=> JobTypes(s2', s3', s4', s5', s6') /\ JobsPlaced(s2', s3', s4', s5', s6')
BY JobShopInvNext DEF JobTypes, JobsPlaced, Started, Had, Over

LEMMA JobShopResetInv ==
  ASSUME JobShop!IInv, JobShop!Reset
  PROVE  JobShop!IInv'
<1>1. /\ s1' = s1 /\ s2' = s1.mask /\ s5' = {} /\ s6' = 0
      /\ s3' = s1.machineJob /\ s4' = s1.remaining
  BY DEF JobShop!Reset
<1>2. s1 \in JobShopSize.starts BY JobShopInv DEF JobTypes
<1> QED BY <1>1, <1>2, JobsPlacedAtStart, JobShopSame

LEMMA JobShopStepInv ==
  ASSUME JobShop!IInv, NEW action, JobShop!Step(action)
  PROVE  JobShop!IInv'
<1> DEFINE J == JobShop!Jobs
           NoJob == JobShopSize.noJob
           started == {m \in Machines : action[m] # NoJob /\ JobShop!CanStart(m, action[m])}
           job == [m \in Machines |-> IF m \in started THEN action[m] ELSE s3[m]]
           left == [m \in Machines |-> (IF m \in started THEN s1.ops[action[m]].duration ELSE s4[m])
                                        - (IF job[m] = NoJob THEN 0 ELSE 1)]
           finished == {m \in Machines : job[m] # NoJob /\ left[m] = 0}
           op(j) == s1.ops[j]
<1>1. /\ JobTypes(s2, s3, s4, s5, s6) /\ JobsPlaced(s2, s3, s4, s5, s6) /\ s6 \in Nat
      /\ s1.mask \subseteq J /\ NoJob \notin J /\ \A j \in s1.mask : op(j).duration \in Int
      /\ \A m \in Machines : /\ s1.machineJob[m] \in J \cup {NoJob} /\ s1.machineJob[m] \notin s1.mask
                             /\ s1.remaining[m] \in Int
      /\ s2 \subseteq s1.mask /\ s5 \subseteq J
      /\ \A m \in Machines : s3[m] \in J \cup {NoJob} /\ s4[m] \in Int
  BY JobShopInv, JobNumbers DEF JobTypes
<1>2. /\ s2' = s2 \ {action[m] : m \in started} /\ s4' = left
      /\ s3' = [m \in Machines |-> IF m \in finished THEN NoJob ELSE job[m]]
      /\ s5' = s5 \cup {job[m] : m \in finished} /\ s1' = s1 /\ s6' = s6 + 1
  BY Zenon DEF JobShop!Step, Machines
<1>3. \A m \in started : /\ m \in Machines /\ s3[m] = NoJob /\ action[m] \notin s5
                         /\ action[m] \in s2 /\ op(action[m]).machine = m
  BY DEF JobShop!CanStart
<1>4. \A m \in started : job[m] = action[m] BY <1>3
<1>5. \A m \in Machines \ started : job[m] = s3[m] OBVIOUS
<1> HIDE DEF started
\* What a machine does in the step: an operation with the time it has left after it, or what
\* it has had since the start.
<1>6. \A m \in Machines : job[m] # NoJob =>
        \/ /\ job[m] \in s1.mask \ s5 /\ op(job[m]).machine = m /\ job[m] \notin s2'
           /\ left[m] < op(job[m]).duration /\ (op(job[m]).duration > 0 => left[m] >= 0)
           /\ left[m] \in Int
        \/ /\ job[m] \notin s1.mask /\ s1.machineJob[m] = job[m] /\ ~Over(m, s6)
           /\ left[m] = s1.remaining[m] - s6'
  <2>1. SUFFICES ASSUME NEW m \in Machines, job[m] # NoJob
        PROVE  \/ /\ job[m] \in s1.mask \ s5 /\ op(job[m]).machine = m /\ job[m] \notin s2'
                  /\ left[m] < op(job[m]).duration /\ (op(job[m]).duration > 0 => left[m] >= 0)
                  /\ left[m] \in Int
               \/ /\ job[m] \notin s1.mask /\ s1.machineJob[m] = job[m] /\ ~Over(m, s6)
                  /\ left[m] = s1.remaining[m] - s6'
    OBVIOUS
  <2>2. CASE m \in started
    <3>1. PICK d \in Int : d = op(action[m]).duration BY <1>1, <1>3, <2>2
    <3>2. left[m] = d - 1 /\ job[m] = action[m] BY <1>4, <2>1, <2>2, <3>1
    <3> HIDE DEF left, job
    <3>3. job[m] \notin s2' BY <1>2, <2>2, <3>2
    <3> QED BY <1>1, <1>3, <2>2, <3>1, <3>2, <3>3
  <2>3. CASE m \notin started
    <3>1. job[m] = s3[m] BY <1>5, <2>3
    <3>2. left[m] = s4[m] - 1 /\ s4[m] \in Int BY <1>1, <2>1, <2>3
    <3>3. Started(s3[m], m, s4[m], s2, s5) \/ Had(s3[m], m, s4[m], s6)
      BY <1>1, <2>1, <3>1 DEF JobsPlaced
    <3> HIDE DEF left, job
    <3>4. CASE Started(s3[m], m, s4[m], s2, s5)
      <4>1. PICK d \in Int : d = op(s3[m]).duration BY <1>1, <3>4 DEF Started
      <4> QED BY <1>2, <3>1, <3>2, <3>4, <4>1 DEF Started
    <3>5. CASE Had(s3[m], m, s4[m], s6)
      <4>1. PICK r \in Int : r = s1.remaining[m] BY <1>1
      <4>2. left[m] = r - s6' BY <1>1, <1>2, <3>2, <3>5, <4>1 DEF Had
      <4> QED BY <3>1, <3>5, <4>1, <4>2 DEF Had
    <3> QED BY <3>3, <3>4, <3>5
  <2> QED BY <2>2, <2>3
<1>7. \A m \in Machines : left[m] \in Int
  <2>1. SUFFICES ASSUME NEW m \in Machines PROVE left[m] \in Int OBVIOUS
  <2>2. PICK d \in Int : d = IF m \in started THEN op(action[m]).duration ELSE s4[m] BY <1>1, <1>3
  <2>3. left[m] = d - (IF job[m] = NoJob THEN 0 ELSE 1) BY <2>2
  <2> HIDE DEF left, job
  <2> QED BY <2>3
<1>8. /\ \A m \in finished : m \in Machines /\ job[m] # NoJob /\ left[m] = 0
      /\ \A m \in Machines \ finished : job[m] # NoJob => left[m] # 0
  OBVIOUS
<1>9. left = [m \in Machines |-> left[m]] OBVIOUS
<1>10. \A m \in Machines : job[m] \in J \cup {NoJob}
  <2>1. SUFFICES ASSUME NEW m \in Machines PROVE job[m] \in J \cup {NoJob} OBVIOUS
  <2> QED BY <1>1, <1>3, <1>4, <1>5
<1> HIDE DEF job, left, finished
<1>11. JobTypes(s2', s3', s4', s5', s6')
  <2>1. s4' \in [Machines -> Int] BY <1>2, <1>7, <1>9
  <2>2. s3' \in [Machines -> J \cup {NoJob}] BY <1>2, <1>10
  <2>3. s2' \subseteq s1.mask /\ s5' \subseteq J BY <1>1, <1>2, <1>8, <1>10
  <2>4. s6' \in Nat /\ s1 \in JobShopSize.starts BY <1>1, <1>2 DEF JobTypes
  <2> QED BY <2>1, <2>2, <2>3, <2>4 DEF JobTypes
\* The time of the start runs out on exactly the machines that finish what they had.
<1>12. ASSUME NEW m \in Machines PROVE Over(m, s6') <=> Over(m, s6) \/ s1.remaining[m] = s6'
  <2>1. PICK r \in Int : r = s1.remaining[m] BY <1>1
  <2> QED BY <1>1, <1>2, <2>1 DEF Over
<1>13. ASSUME NEW m \in Machines, s1.machineJob[m] # NoJob, ~Over(m, s6)
       PROVE  /\ job[m] = s1.machineJob[m] /\ job[m] \notin s1.mask
              /\ m \in finished <=> Over(m, s6')
  <2>1. s3[m] = s1.machineJob[m] BY <1>1, <1>13 DEF JobsPlaced
  <2>2. job[m] = s1.machineJob[m] BY <1>3, <1>5, <1>13, <2>1
  <2>3. job[m] \notin s1.mask BY <1>1, <2>2
  <2>4. PICK r \in Int : r = s1.remaining[m] BY <1>1
  <2>5. left[m] = r - s6' BY <1>6, <1>13, <2>2, <2>3, <2>4
  <2>6. m \in finished <=> left[m] = 0 BY <1>8, <1>13, <2>2
  <2> QED BY <1>1, <1>2, <1>12, <1>13, <2>2, <2>3, <2>4, <2>5, <2>6
<1>14. s2' \cap s5' = {}
  <2>1. SUFFICES ASSUME NEW j \in s2', j \in s5' PROVE FALSE OBVIOUS
  <2>2. j \in s2 /\ j \in s1.mask BY <1>1, <1>2, <2>1
  <2>3. j \notin s5 BY <1>1, <2>2 DEF JobsPlaced
  <2>4. PICK m \in finished : j = job[m] BY <1>2, <2>1, <2>3
  <2> QED BY <1>6, <1>8, <2>1, <2>2, <2>4
<1>15. ASSUME NEW m \in Machines, s3'[m] # NoJob
       PROVE  Started(s3'[m], m, s4'[m], s2', s5') \/ Had(s3'[m], m, s4'[m], s6')
  <2>1. m \notin finished /\ s3'[m] = job[m] /\ job[m] # NoJob /\ s4'[m] = left[m] BY <1>2, <1>15
  <2>2. left[m] # 0 /\ left[m] \in Int BY <1>7, <1>8, <2>1
  <2>3. CASE job[m] \in s1.mask
    <3>1. /\ job[m] \notin s5 \cup s2' /\ op(job[m]).machine = m
          /\ left[m] < op(job[m]).duration /\ (op(job[m]).duration > 0 => left[m] >= 0)
      BY <1>6, <2>1, <2>3
    <3>2. \A k \in finished : job[k] # job[m]
      <4>1. SUFFICES ASSUME NEW k \in finished, job[k] = job[m] PROVE FALSE OBVIOUS
      <4>2. op(job[k]).machine = k BY <1>6, <1>8, <2>3, <4>1
      <4> QED BY <2>1, <3>1, <4>1, <4>2
    <3>3. job[m] \notin s5' BY <1>2, <3>1, <3>2
    <3>4. op(job[m]).duration > 0 => left[m] > 0 BY <2>2, <3>1
    <3> QED BY <2>1, <2>3, <3>1, <3>3, <3>4 DEF Started
  <2>4. CASE job[m] \notin s1.mask
    <3>1. s1.machineJob[m] = job[m] /\ ~Over(m, s6) /\ left[m] = s1.remaining[m] - s6' BY <1>6, <2>1, <2>4
    <3>2. ~Over(m, s6') BY <1>13, <2>1, <3>1
    <3> QED BY <2>1, <2>4, <3>1, <3>2 DEF Had
  <2> QED BY <2>3, <2>4
<1>16. ASSUME NEW j \in s1.mask \ (s2' \cup s5') PROVE \E m \in Machines : s3'[m] = j
  <2>1. \E m \in Machines : job[m] = j
    <3>1. CASE j \in s2
      <4>1. PICK m \in started : j = action[m] BY <1>2, <1>16, <3>1
      <4> QED BY <1>3, <1>4, <4>1
    <3>2. CASE j \notin s2
      <4>1. j \notin s5 /\ j # NoJob BY <1>1, <1>2, <1>16
      <4>2. PICK m \in Machines : s3[m] = j BY <1>1, <1>16, <3>2, <4>1 DEF JobsPlaced
      <4>3. m \notin started BY <1>3, <4>1, <4>2
      <4> QED BY <1>5, <4>2, <4>3
    <3> QED BY <3>1, <3>2
  <2>2. PICK m \in Machines : job[m] = j BY <2>1
  <2>3. m \notin finished BY <1>2, <1>16, <2>2
  <2> QED BY <1>2, <2>2, <2>3
<1>17. ASSUME NEW m \in Machines, s1.machineJob[m] # NoJob, ~Over(m, s6') PROVE s3'[m] = s1.machineJob[m]
  <2>1. ~Over(m, s6) BY <1>12, <1>17
  <2>2. m \notin finished /\ job[m] = s1.machineJob[m] BY <1>13, <1>17, <2>1
  <2> QED BY <1>2, <2>2
<1>18. ASSUME NEW j \in J \ s1.mask
       PROVE  j \in s5' <=> \E m \in Machines : s1.machineJob[m] = j /\ Over(m, s6')
  <2>1. j \in s5 <=> \E m \in Machines : s1.machineJob[m] = j /\ Over(m, s6) BY <1>1 DEF JobsPlaced
  <2>2. ASSUME j \in s5' PROVE \E m \in Machines : s1.machineJob[m] = j /\ Over(m, s6')
    <3>1. CASE j \in s5 BY <1>12, <2>1, <3>1
    <3>2. CASE j \notin s5
      <4>1. PICK m \in finished : j = job[m] BY <1>2, <2>2, <3>2
      <4>2. m \in Machines /\ s1.machineJob[m] = j /\ ~Over(m, s6) /\ j # NoJob BY <1>6, <1>8, <4>1
      <4> QED BY <1>13, <4>1, <4>2
    <3> QED BY <3>1, <3>2
  <2>3. ASSUME NEW m \in Machines, s1.machineJob[m] = j, Over(m, s6') PROVE j \in s5'
    <3>1. CASE Over(m, s6) BY <1>2, <2>1, <2>3, <3>1
    <3>2. CASE ~Over(m, s6)
      <4>1. m \in finished /\ job[m] = j BY <1>1, <1>13, <2>3, <3>2
      <4> QED BY <1>2, <4>1
    <3> QED BY <3>1, <3>2
  <2> QED BY <2>2, <2>3
<1>19. JobsPlaced(s2', s3', s4', s5', s6')
  BY <1>14, <1>15, <1>16, <1>17, <1>18 DEF JobsPlaced
<1> QED BY <1>2, <1>11, <1>19, JobShopSame

----------------------------------------------------------------------------
(* Agents of marlgrid *)

MarlCells(o) == (0..(o.size - 1)) \X (0..(o.size - 1))
MarlIds(o) == 0..(o.agents - 1)

Member(s, a) == \E i \in 1..Len(s) : s[i] = a
Once(s, a) == \A i, j \in 1..Len(s) : s[i] = a /\ s[j] = a => i = j

LEMMA MarlNumbers ==
  ASSUME NEW o \in MarlConfigs
  PROVE  /\ o.agents \in Nat /\ o.size \in Nat /\ o.bonusTiles \in Nat /\ o.clutter \in Nat
         /\ o.spots \subseteq MarlCells(o) /\ o.turns \subseteq 0..3
         /\ MarlGrid!Ids(o) = MarlIds(o) /\ MarlGrid!M!Cells(o.size, o.size) = MarlCells(o)
BY SizesAssumption DEF MarlCells, MarlIds, MarlGrid!Ids, MarlGrid!M!Cells

LEMMA MarlDirections ==
  ASSUME NEW d \in 0..3
  PROVE  MarlGrid!M!DirVec(d)[1] \in -1..1 /\ MarlGrid!M!DirVec(d)[2] \in -1..1
<1>1. d = 0 \/ d = 1 \/ d = 2 \/ d = 3 OBVIOUS
<1> QED BY <1>1 DEF MarlGrid!M!DirVec

\* What is left when somebody who is there once has left.
LEMMA Removed ==
  ASSUME NEW S, NEW s \in Seq(S), NEW a, Once(s, a)
  PROVE  /\ MarlGrid!Without(s, a) \in Seq(S) /\ ~Member(MarlGrid!Without(s, a), a)
         /\ \A b : b # a =>
              /\ Member(MarlGrid!Without(s, a), b) <=> Member(s, b)
              /\ Once(s, b) => Once(MarlGrid!Without(s, a), b)
<1> DEFINE w == MarlGrid!Without(s, a)
           k == CHOOSE i \in DOMAIN s : s[i] = a
<1>1. PICK n \in Nat : n = Len(s) OBVIOUS
<1>2. s \in [1..n -> S] /\ DOMAIN s = 1..n BY <1>1
<1>3. CASE \E i \in DOMAIN s : s[i] = a
  <2>1. k \in 1..n /\ s[k] = a BY <1>2, <1>3
  <2>2. w = [i \in 1..(n - 1) |-> IF i < k THEN s[i] ELSE s[i + 1]] BY <1>1, <1>3 DEF MarlGrid!Without
  <2>3. n \in Nat \ {0} /\ n - 1 \in Nat BY <2>1
  <2> HIDE DEF w, k
  <2>4. \A i \in 1..(n - 1) : /\ i < k => i \in 1..n /\ w[i] = s[i]
                              /\ ~(i < k) => i + 1 \in 1..n /\ w[i] = s[i + 1]
    BY <2>2, <2>3
  <2>5. \A i \in 1..n : /\ i < k => i \in 1..(n - 1) /\ w[i] = s[i]
                        /\ i > k => i - 1 \in 1..(n - 1) /\ w[i - 1] = s[i]
    <3>1. SUFFICES ASSUME NEW i \in 1..n
          PROVE  /\ i < k => i \in 1..(n - 1) /\ w[i] = s[i]
                 /\ i > k => i - 1 \in 1..(n - 1) /\ w[i - 1] = s[i]
      OBVIOUS
    <3>2. i < k => i \in 1..(n - 1) BY <2>1
    <3>3. i > k => i - 1 \in 1..(n - 1) /\ ~(i - 1 < k) /\ (i - 1) + 1 = i BY <2>1
    <3> QED BY <2>4, <3>2, <3>3
  <2>6. w \in Seq(S) /\ Len(w) = n - 1
    <3>1. \A i \in 1..(n - 1) : w[i] \in S BY <1>2, <2>4
    <3>2. w \in [1..(n - 1) -> S] BY <2>2, <3>1
    <3> QED BY <2>3, <3>2
  <2>7. \A i \in 1..n : i # k => s[i] # a BY <1>1, <2>1 DEF Once
  <2>8. \A i \in 1..(n - 1) : w[i] # a
    <3>1. \A i \in 1..(n - 1) : ~(i < k) => i + 1 # k BY <2>1
    <3>2. \A i \in 1..(n - 1) : i < k => i # k BY <2>1
    <3> QED BY <2>4, <2>7, <3>1, <3>2
  <2>9. ASSUME NEW b, b # a PROVE Member(w, b) <=> Member(s, b)
    <3>1. \A i \in 1..n : s[i] = b => i < k \/ i > k BY <2>1, <2>9
    <3>2. DOMAIN s = 1..n /\ DOMAIN w = 1..(n - 1) BY <1>2, <2>6
    <3>3. ASSUME NEW i \in 1..(n - 1), w[i] = b PROVE \E j \in 1..n : s[j] = b
      <4>1. CASE i < k
        <5>1. i \in 1..n /\ s[i] = b BY <2>4, <3>3, <4>1
        <5> QED BY <5>1
      <4>2. CASE ~(i < k)
        <5>1. i + 1 \in 1..n /\ s[i + 1] = b BY <2>4, <3>3, <4>2
        <5> QED BY <5>1
      <4> QED BY <4>1, <4>2
    <3>4. ASSUME NEW i \in 1..n, s[i] = b PROVE \E j \in 1..(n - 1) : w[j] = b
      BY <2>5, <3>1, <3>4
    <3> QED BY <3>2, <3>3, <3>4 DEF Member
  <2>10. ASSUME NEW b, b # a, Once(s, b) PROVE Once(w, b)
    <3>1. SUFFICES ASSUME NEW i \in 1..(n - 1), NEW j \in 1..(n - 1), w[i] = b, w[j] = b PROVE i = j
      BY <2>6 DEF Once
    <3>2. \A x, y \in 1..n : s[x] = b /\ s[y] = b => x = y BY <1>1, <2>10 DEF Once
    <3> DEFINE source(x) == IF x < k THEN x ELSE x + 1
    <3>3. \A x \in 1..(n - 1) : source(x) \in 1..n /\ w[x] = s[source(x)] BY <2>4
    <3>4. \A x, y \in 1..(n - 1) : source(x) = source(y) => x = y BY <2>1
    <3> HIDE DEF source, w
    <3>5. source(i) = source(j) BY <3>1, <3>2, <3>3
    <3> QED BY <3>4, <3>5
  <2> QED BY <2>6, <2>8, <2>9, <2>10 DEF Member, w
<1>4. CASE ~\E i \in DOMAIN s : s[i] = a
  <2>1. w = s BY <1>4 DEF MarlGrid!Without
  <2> QED BY <1>1, <1>2, <1>4, <2>1 DEF Member
<1> QED BY <1>3, <1>4

LEMMA Added ==
  ASSUME NEW S, NEW s \in Seq(S), NEW a \in S
  PROVE  /\ Append(s, a) \in Seq(S) /\ Member(Append(s, a), a)
         /\ ~Member(s, a) => Once(Append(s, a), a)
         /\ \A b : b # a => /\ Member(Append(s, a), b) <=> Member(s, b)
                            /\ Once(s, b) => Once(Append(s, a), b)
<1> DEFINE t == Append(s, a)
<1>1. PICK n \in Nat : n = Len(s) OBVIOUS
<1>2. /\ t \in Seq(S) /\ Len(t) = n + 1 /\ t[n + 1] = a
      /\ \A i \in 1..n : t[i] = s[i]
  BY <1>1
<1>3. \A i \in 1..(n + 1) : i \in 1..n \/ i = n + 1 BY <1>1
<1>4. n + 1 \in 1..(n + 1) /\ \A i \in 1..n : i \in 1..(n + 1) BY <1>1
<1> HIDE DEF t
<1>5. Member(t, a) BY <1>2, <1>4 DEF Member
<1>6. ~Member(s, a) => Once(t, a) BY <1>1, <1>2, <1>3 DEF Member, Once
<1>7. \A b : b # a => (Member(t, b) <=> Member(s, b)) BY <1>1, <1>2, <1>3, <1>4 DEF Member
<1>8. \A b : b # a => (Once(s, b) => Once(t, b)) BY <1>1, <1>2, <1>3 DEF Once
<1> QED BY <1>2, <1>5, <1>6, <1>7, <1>8 DEF t

\* Walls all around, and numbered tiles.
GoodGrid(o, g) ==
  /\ DOMAIN g = MarlCells(o)
  /\ \A c \in MarlCells(o) :
       /\ c[1] \in {0, o.size - 1} \/ c[2] \in {0, o.size - 1} => g[c].type = "wall"
       /\ g[c].type = "bonus" => g[c].id \in 0 .. o.bonusTiles - 1

LEMMA ThingsNumbered ==
  ASSUME NEW o \in MarlConfigs
  PROVE  \A i \in DOMAIN MarlGrid!RandomThings(o) :
           MarlGrid!RandomThings(o)[i].type = "bonus" => MarlGrid!RandomThings(o)[i].id \in 0 .. o.bonusTiles - 1
<1> DEFINE T == {t \in [type : {"bonus", "goal", "wall"}, id : Int] : t.type = "bonus" => t.id \in 0 .. o.bonusTiles - 1}
           tiles == [i \in 1 .. o.bonusTiles |-> MarlGrid!Thing("bonus", i - 1)]
           walls == [i \in 1 .. o.clutter |-> MarlGrid!Thing("wall", 0)]
           goal == MarlGrid!Thing("goal", 0)
<1>1. PICK n \in Nat, k \in Nat : o.bonusTiles = n /\ o.clutter = k BY MarlNumbers
<1>2. walls \in Seq(T)
  <2>1. MarlGrid!Thing("wall", 0) \in T BY DEF MarlGrid!Thing
  <2>2. walls \in [1..k -> T] BY <1>1, <2>1
  <2> HIDE DEF T, walls
  <2> QED BY <2>2
<1>3. tiles \in Seq(T)
  <2>1. \A i \in 1..n : MarlGrid!Thing("bonus", i - 1) \in T BY <1>1 DEF MarlGrid!Thing
  <2>2. tiles \in [1..n -> T] BY <1>1, <2>1
  <2> HIDE DEF T, tiles
  <2> QED BY <2>2
<1>4. <<goal>> \in Seq(T) /\ <<>> \in Seq(T)
  <2>1. goal \in T BY DEF MarlGrid!Thing
  <2> HIDE DEF T, goal
  <2> QED BY <2>1
<1>5. MarlGrid!RandomThings(o) \in Seq(T)
  <2> HIDE DEF T, tiles, walls, goal
  <2>1. tiles \o walls \in Seq(T) /\ <<goal>> \o walls \in Seq(T) /\ <<>> \o walls \in Seq(T)
    BY <1>2, <1>3, <1>4
  <2>2. \/ MarlGrid!RandomThings(o) = tiles \o walls
        \/ MarlGrid!RandomThings(o) = <<goal>> \o walls
        \/ MarlGrid!RandomThings(o) = <<>> \o walls
    BY DEF MarlGrid!RandomThings, tiles, walls, goal
  <2> QED BY <2>1, <2>2
<1> DEFINE s == MarlGrid!RandomThings(o)
<1>6. \A i \in DOMAIN s : s[i] \in T
  <2> HIDE DEF T, s
  <2>1. s \in Seq(T) BY <1>5 DEF s
  <2> QED BY <2>1
<1> QED BY <1>6

LEMMA GenGridIsGood ==
  ASSUME NEW o \in MarlConfigs, NEW g \in MarlGrid!GenGrid(o)
  PROVE  GoodGrid(o, g)
<1> DEFINE clear == MarlGrid!Cleared(o)
           things == MarlGrid!RandomThings(o)
           spots == {c \in o.spots : clear[c] = MarlGrid!Empty}
           Placed(at) == [c \in DOMAIN clear |->
             IF \E i \in DOMAIN at : at[i] = c THEN things[CHOOSE i \in DOMAIN at : at[i] = c] ELSE clear[c]]
<1>1. PICK at \in [DOMAIN things -> spots] : g = Placed(at) BY DEF MarlGrid!GenGrid
<1>2. /\ DOMAIN clear = MarlCells(o)
      /\ \A c \in MarlCells(o) :
           /\ c[1] \in {0, o.size - 1} \/ c[2] \in {0, o.size - 1} => clear[c].type = "wall"
           /\ clear[c].type # "bonus"
  BY MarlNumbers DEF MarlGrid!Cleared, MarlGrid!Thing, MarlGrid!Empty
<1>3. \A i \in DOMAIN things : at[i] \in spots BY <1>1
<1>4. \A c \in spots : clear[c].type # "wall" BY DEF MarlGrid!Empty, MarlGrid!Thing
<1>5. \A i \in DOMAIN things : things[i].type = "bonus" => things[i].id \in 0 .. o.bonusTiles - 1
  BY ThingsNumbered
<1>6. DOMAIN at = DOMAIN things BY <1>1
<1> HIDE DEF clear, things, spots
<1>7. \A c \in MarlCells(o) :
        \/ \E i \in DOMAIN things : at[i] = c /\ g[c] = things[i]
        \/ g[c] = clear[c]
  <2>1. SUFFICES ASSUME NEW c \in MarlCells(o)
        PROVE  (\E i \in DOMAIN things : at[i] = c /\ g[c] = things[i]) \/ g[c] = clear[c]
    OBVIOUS
  <2>2. g[c] = IF \E i \in DOMAIN at : at[i] = c THEN things[CHOOSE i \in DOMAIN at : at[i] = c] ELSE clear[c]
    BY <1>1, <1>2
  <2>3. CASE \E i \in DOMAIN at : at[i] = c
    <3> DEFINE k == CHOOSE i \in DOMAIN at : at[i] = c
    <3>1. k \in DOMAIN at /\ at[k] = c BY <2>3
    <3>2. g[c] = things[k] BY <2>2, <2>3
    <3> HIDE DEF k
    <3> QED BY <1>6, <3>1, <3>2
  <2>4. CASE ~\E i \in DOMAIN at : at[i] = c BY <2>2, <2>4
  <2> QED BY <2>3, <2>4
<1>8. DOMAIN g = MarlCells(o) BY <1>1, <1>2
<1>9. ASSUME NEW c \in MarlCells(o), c[1] \in {0, o.size - 1} \/ c[2] \in {0, o.size - 1}
      PROVE  g[c].type = "wall"
  BY <1>2, <1>3, <1>4, <1>7, <1>9
<1>10. ASSUME NEW c \in MarlCells(o), g[c].type = "bonus" PROVE g[c].id \in 0 .. o.bonusTiles - 1
  BY <1>2, <1>5, <1>7, <1>10
<1> QED BY <1>8, <1>9, <1>10 DEF GoodGrid

MarlAgent(o) ==
  [done : BOOLEAN, at : MarlCells(o) \cup {<<-1, -1>>}, dir : 0..3, active : BOOLEAN, bonus : Int]
Placings(o) ==
  [here : [MarlCells(o) -> Seq(MarlIds(o))], agents : [MarlIds(o) -> MarlAgent(o)], pay : [MarlIds(o) -> Int]]

InPlace(o, g, p, a) ==
  /\ p.agents[a].at \in MarlCells(o) /\ g[p.agents[a].at].type # "wall"
  /\ \A c \in MarlCells(o) : /\ Member(p.here[c], a) <=> c = p.agents[a].at
                             /\ Once(p.here[c], a)
  /\ o.ghost \/ p.here[p.agents[a].at] = <<a>>
Absent(o, p, a) == \A c \in MarlCells(o) : ~Member(p.here[c], a)

\* An agent that leaves its cell leaves nothing behind, and the others as they are.
LEMMA AgentLeaves ==
  ASSUME NEW o \in MarlConfigs, NEW g, NEW p \in Placings(o), NEW a \in MarlIds(o), InPlace(o, g, p, a)
  PROVE  /\ MarlGrid!Left(p, a) \in Placings(o)
         /\ MarlGrid!Left(p, a).agents = p.agents /\ MarlGrid!Left(p, a).pay = p.pay
         /\ \A c \in MarlCells(o) : c # p.agents[a].at => MarlGrid!Left(p, a).here[c] = p.here[c]
         /\ Absent(o, MarlGrid!Left(p, a), a)
         /\ \A b \in MarlIds(o) : b # a /\ InPlace(o, g, p, b) => InPlace(o, g, MarlGrid!Left(p, a), b)
<1> DEFINE at == p.agents[a].at
           w == MarlGrid!Without(p.here[at], a)
           q == MarlGrid!Left(p, a)
<1>1. /\ p.here \in [MarlCells(o) -> Seq(MarlIds(o))] /\ p.agents \in [MarlIds(o) -> MarlAgent(o)]
      /\ p.pay \in [MarlIds(o) -> Int]
      /\ p = [here |-> p.here, agents |-> p.agents, pay |-> p.pay]
  BY DEF Placings
<1>2. at \in MarlCells(o) /\ Once(p.here[at], a) BY DEF InPlace
<1>3. q = [here |-> [z \in MarlCells(o) |-> IF z = at THEN w ELSE p.here[z]], agents |-> p.agents, pay |-> p.pay]
  BY <1>1, <1>2 DEF MarlGrid!Left, MarlGrid!With
<1>4. p.here[at] \in Seq(MarlIds(o)) BY <1>1, <1>2
<1>5. /\ w \in Seq(MarlIds(o)) /\ ~Member(w, a)
      /\ \A b : b # a => /\ Member(w, b) <=> Member(p.here[at], b)
                         /\ Once(p.here[at], b) => Once(w, b)
  BY <1>2, <1>4, Removed
<1> HIDE DEF w, q, at
<1>6. /\ q.agents = p.agents /\ q.pay = p.pay /\ q.here[at] = w
      /\ \A c \in MarlCells(o) : c # at => q.here[c] = p.here[c]
  BY <1>2, <1>3
<1>7. q \in Placings(o)
  <2>1. [z \in MarlCells(o) |-> IF z = at THEN w ELSE p.here[z]] \in [MarlCells(o) -> Seq(MarlIds(o))]
    BY <1>1, <1>5
  <2> QED BY <1>1, <1>3, <2>1 DEF Placings
<1>8. Absent(o, q, a)
  <2>1. \A c \in MarlCells(o) : c # at => ~Member(p.here[c], a) BY DEF InPlace, at
  <2> QED BY <1>5, <1>6, <2>1 DEF Absent
<1>9. ASSUME NEW b \in MarlIds(o), b # a, InPlace(o, g, p, b) PROVE InPlace(o, g, q, b)
  <2>1. \A c \in MarlCells(o) : /\ Member(q.here[c], b) <=> c = p.agents[b].at
                                /\ Once(q.here[c], b)
    <3>1. SUFFICES ASSUME NEW c \in MarlCells(o)
          PROVE (Member(q.here[c], b) <=> c = p.agents[b].at) /\ Once(q.here[c], b)
      OBVIOUS
    <3>2. (Member(p.here[c], b) <=> c = p.agents[b].at) /\ Once(p.here[c], b) BY <1>9 DEF InPlace
    <3>3. CASE c = at BY <1>5, <1>6, <1>9, <3>2, <3>3
    <3>4. CASE c # at BY <1>6, <3>2, <3>4
    <3> QED BY <3>3, <3>4
  <2>2. o.ghost \/ q.here[p.agents[b].at] = <<b>>
    <3>1. CASE o.ghost BY <3>1
    <3>2. CASE ~o.ghost
      <4>1. p.here[p.agents[b].at] = <<b>> /\ p.here[at] = <<a>> BY <1>9, <3>2 DEF InPlace, at
      <4>2. <<a>> # <<b>> BY <1>9
      <4>3. p.agents[b].at # at /\ p.agents[b].at \in MarlCells(o) BY <1>9, <4>1, <4>2 DEF InPlace
      <4> QED BY <1>6, <4>1, <4>3
    <3> QED BY <3>1, <3>2
  <2>3. p.agents[b].at \in MarlCells(o) /\ g[p.agents[b].at].type # "wall" BY <1>9 DEF InPlace
  <2> QED BY <1>6, <2>1, <2>2, <2>3 DEF InPlace
<1> QED BY <1>6, <1>7, <1>8, <1>9 DEF q, at

\* An agent that comes to a cell is in place there, and the others stay as they are.
LEMMA AgentComes ==
  ASSUME NEW o \in MarlConfigs, NEW g, NEW p \in Placings(o), NEW r \in Placings(o), NEW a \in MarlIds(o),
         NEW c \in MarlCells(o), Absent(o, p, a), g[c].type # "wall", o.ghost \/ p.here[c] = <<>>,
         r.here = MarlGrid!With(p.here, c, Append(p.here[c], a)), r.agents[a].at = c,
         \A b \in MarlIds(o) : b # a => r.agents[b].at = p.agents[b].at
  PROVE  /\ InPlace(o, g, r, a)
         /\ \A b \in MarlIds(o) : b # a =>
              /\ InPlace(o, g, p, b) => InPlace(o, g, r, b)
              /\ Absent(o, p, b) => Absent(o, r, b)
<1> DEFINE s == p.here[c]
           t == Append(s, a)
<1>1. p.here \in [MarlCells(o) -> Seq(MarlIds(o))] BY DEF Placings
<1>2. s \in Seq(MarlIds(o)) BY <1>1
<1>3. r.here[c] = t /\ \A d \in MarlCells(o) : d # c => r.here[d] = p.here[d]
  BY <1>1 DEF MarlGrid!With
<1>4. ~Member(s, a) BY DEF Absent
<1>5. o.ghost \/ t = <<a>>
  <2>1. s = <<>> => t = <<a>> BY <1>2
  <2> QED BY <2>1
<1> HIDE DEF s
<1>6. /\ Member(t, a) /\ Once(t, a)
      /\ \A b : b # a => (Member(t, b) <=> Member(s, b)) /\ (Once(s, b) => Once(t, b))
  BY <1>2, <1>4, Added
<1> HIDE DEF t
<1>7. InPlace(o, g, r, a)
  <2>1. \A d \in MarlCells(o) : d # c => ~Member(r.here[d], a) /\ Once(r.here[d], a)
    <3>1. \A d \in MarlCells(o) : ~Member(p.here[d], a) BY DEF Absent
    <3>2. \A d \in MarlCells(o) : Once(p.here[d], a) BY <3>1 DEF Member, Once
    <3> QED BY <1>3, <3>1, <3>2
  <2> QED BY <1>3, <1>5, <1>6, <2>1 DEF InPlace
<1>8. ASSUME NEW b \in MarlIds(o), b # a, InPlace(o, g, p, b) PROVE InPlace(o, g, r, b)
  <2>1. \A d \in MarlCells(o) : (Member(p.here[d], b) <=> d = p.agents[b].at) /\ Once(p.here[d], b)
    BY <1>8 DEF InPlace
  <2>2. \A d \in MarlCells(o) : (Member(r.here[d], b) <=> d = p.agents[b].at) /\ Once(r.here[d], b)
    <3>1. SUFFICES ASSUME NEW d \in MarlCells(o)
          PROVE (Member(r.here[d], b) <=> d = p.agents[b].at) /\ Once(r.here[d], b)
      OBVIOUS
    <3>2. CASE d = c BY <1>3, <1>6, <1>8, <2>1, <3>2 DEF s
    <3>3. CASE d # c BY <1>3, <2>1, <3>3
    <3> QED BY <3>2, <3>3
  <2>3. o.ghost \/ r.here[p.agents[b].at] = <<b>>
    <3>1. CASE o.ghost BY <3>1
    <3>2. CASE ~o.ghost
      <4>1. p.here[p.agents[b].at] = <<b>> /\ p.here[c] = <<>> /\ p.agents[b].at \in MarlCells(o)
        BY <1>8, <3>2 DEF InPlace
      <4>2. <<b>> # <<>> OBVIOUS
      <4>3. p.agents[b].at # c BY <4>1, <4>2
      <4> QED BY <1>3, <4>1, <4>3
    <3> QED BY <3>1, <3>2
  <2>4. p.agents[b].at \in MarlCells(o) /\ g[p.agents[b].at].type # "wall" BY <1>8 DEF InPlace
  <2>5. r.agents[b].at = p.agents[b].at BY <1>8
  <2> QED BY <2>2, <2>3, <2>4, <2>5 DEF InPlace
<1>9. ASSUME NEW b \in MarlIds(o), b # a, Absent(o, p, b) PROVE Absent(o, r, b)
  <2>1. \A d \in MarlCells(o) : ~Member(p.here[d], b) BY <1>9 DEF Absent
  <2>2. SUFFICES ASSUME NEW d \in MarlCells(o) PROVE ~Member(r.here[d], b) BY DEF Absent
  <2>3. CASE d = c BY <1>3, <1>6, <1>9, <2>1, <2>3 DEF s
  <2>4. CASE d # c BY <1>3, <2>1, <2>4
  <2> QED BY <2>3, <2>4
<1> QED BY <1>7, <1>8, <1>9

\* Everybody is in place, and active or done.
AllPlaced(o, g, p) ==
  /\ p \in Placings(o)
  /\ \A a \in MarlIds(o) : InPlace(o, g, p, a) /\ (p.agents[a].active \/ p.agents[a].done)

LEMMA PlacingFields ==
  ASSUME NEW o, NEW p \in Placings(o)
  PROVE  /\ p.here \in [MarlCells(o) -> Seq(MarlIds(o))] /\ p.agents \in [MarlIds(o) -> MarlAgent(o)]
         /\ p.pay \in [MarlIds(o) -> Int]
         /\ p = [here |-> p.here, agents |-> p.agents, pay |-> p.pay]
BY DEF Placings

Come(x, c, d) == [x EXCEPT !.at = c, !.dir = d, !.active = TRUE]
LEMMA AgentArrives ==
  ASSUME NEW o, NEW x \in MarlAgent(o), NEW c \in MarlCells(o), NEW d \in 0..3
  PROVE  Come(x, c, d) \in MarlAgent(o) /\ Come(x, c, d).at = c /\ Come(x, c, d).active
BY DEF MarlAgent, Come

LEMMA AgentWalks ==
  ASSUME NEW o, NEW x \in MarlAgent(o), NEW c \in MarlCells(o)
  PROVE  /\ [x EXCEPT !.at = c] \in MarlAgent(o)
         /\ [x EXCEPT !.at = c].at = c
         /\ [x EXCEPT !.at = c].active = x.active
         /\ [x EXCEPT !.at = c].done = x.done
BY DEF MarlAgent

LEMMA SamePlaces ==
  ASSUME NEW o, NEW g, NEW p, NEW r, NEW a, r.here = p.here, r.agents[a].at = p.agents[a].at
  PROVE  /\ InPlace(o, g, p, a) => InPlace(o, g, r, a)
         /\ Absent(o, p, a) => Absent(o, r, a)
BY DEF InPlace, Absent

LEMMA AgentIsPut ==
  ASSUME NEW o \in MarlConfigs, NEW g, NEW p \in Placings(o), NEW a \in MarlIds(o), Absent(o, p, a),
         NEW q \in MarlGrid!Put(o, g, p, a)
  PROVE  /\ q \in Placings(o) /\ InPlace(o, g, q, a) /\ q.agents[a].active
         /\ \A b \in MarlIds(o) : b # a =>
              /\ q.agents[b] = p.agents[b]
              /\ InPlace(o, g, p, b) => InPlace(o, g, q, b)
              /\ Absent(o, p, b) => Absent(o, q, b)
<1>1. PICK c \in {x \in o.spots : g[x] = MarlGrid!Empty /\ (o.ghost \/ p.here[x] = <<>>)}, d \in o.turns :
        q = MarlGrid!Arrived(p, a, c, d)
  BY DEF MarlGrid!Put
<1>2. c \in MarlCells(o) /\ d \in 0..3 BY <1>1, MarlNumbers
<1>3. g[c].type # "wall" BY <1>1 DEF MarlGrid!Empty, MarlGrid!Thing
<1> DEFINE s == p.here[c]
           y == Come(p.agents[a], c, d)
           h == MarlGrid!With(p.here, c, Append(s, a))
<1>4. s \in Seq(MarlIds(o)) BY <1>2, PlacingFields
<1>5. Append(s, a) \in Seq(MarlIds(o)) BY <1>4
<1>6. h \in [MarlCells(o) -> Seq(MarlIds(o))]
  <2>1. p.here \in [MarlCells(o) -> Seq(MarlIds(o))] BY PlacingFields
  <2> HIDE DEF s
  <2> QED BY <1>5, <2>1 DEF MarlGrid!With
<1>7. y \in MarlAgent(o) /\ y.at = c /\ y.active
  <2>1. p.agents[a] \in MarlAgent(o) BY PlacingFields
  <2> QED BY <1>2, <2>1, AgentArrives
<1>9. q = [here |-> h, agents |-> [p.agents EXCEPT ![a] = y], pay |-> p.pay]
  BY <1>1 DEF MarlGrid!Arrived, MarlGrid!Place, Come
<1> HIDE DEF y
<1> HIDE DEF h
<1>10. q.here = h /\ q.agents = [p.agents EXCEPT ![a] = y] BY <1>9
<1>11. q.agents[a] = y /\ \A b \in MarlIds(o) : b # a => q.agents[b] = p.agents[b]
  BY <1>10, PlacingFields
<1>12. q \in Placings(o)
  <2>1. [p.agents EXCEPT ![a] = y] \in [MarlIds(o) -> MarlAgent(o)]
    BY <1>7, PlacingFields
  <2> QED BY <1>6, <1>9, <2>1, PlacingFields DEF Placings
<1>13. q.agents[a].at = c /\ q.agents[a].active BY <1>7, <1>11
<1>14. \A b \in MarlIds(o) : b # a => q.agents[b].at = p.agents[b].at BY <1>11
<1>15. o.ghost \/ p.here[c] = <<>> BY <1>1
<1>16. q.here = MarlGrid!With(p.here, c, Append(p.here[c], a)) BY <1>10 DEF h
<1>17. /\ InPlace(o, g, q, a)
       /\ \A b \in MarlIds(o) : b # a =>
              /\ InPlace(o, g, p, b) => InPlace(o, g, q, b)
              /\ Absent(o, p, b) => Absent(o, q, b)
  BY <1>2, <1>3, <1>12, <1>13, <1>14, <1>15, <1>16, AgentComes
<1> QED BY <1>11, <1>12, <1>13, <1>17

\* An agent that walks on is in place again, with the others.
LEMMA AgentMoves ==
  ASSUME NEW o \in MarlConfigs, NEW g, NEW p, AllPlaced(o, g, p), NEW a \in MarlIds(o),
         NEW c \in MarlCells(o), MarlGrid!CanMove(o, g, p, c)
  PROVE  /\ AllPlaced(o, g, MarlGrid!Moved(p, a, c))
         /\ MarlGrid!Moved(p, a, c).agents = [p.agents EXCEPT ![a].at = c]
<1> DEFINE left == MarlGrid!Left(p, a)
           r == MarlGrid!Moved(p, a, c)
           y == [p.agents[a] EXCEPT !.at = c]
           h == MarlGrid!With(left.here, c, Append(left.here[c], a))
<1>1. p \in Placings(o) /\ \A b \in MarlIds(o) : InPlace(o, g, p, b) /\ (p.agents[b].active \/ p.agents[b].done)
  BY DEF AllPlaced
<1>2. /\ left \in Placings(o) /\ left.agents = p.agents /\ left.pay = p.pay
      /\ \A d \in MarlCells(o) : d # p.agents[a].at => left.here[d] = p.here[d]
      /\ Absent(o, left, a)
      /\ \A b \in MarlIds(o) : b # a => InPlace(o, g, left, b)
  BY <1>1, AgentLeaves
<1>3. g[c].type # "wall" /\ (o.ghost \/ p.here[c] = <<>>) BY DEF MarlGrid!CanMove
<1>4. o.ghost \/ left.here[c] = <<>>
  <2>1. CASE o.ghost BY <2>1
  <2>2. CASE ~o.ghost
    <3>1. p.here[p.agents[a].at] = <<a>> BY <1>1, <2>2 DEF InPlace
    <3>2. <<a>> # <<>> OBVIOUS
    <3>3. c # p.agents[a].at BY <1>3, <2>2, <3>1, <3>2
    <3> HIDE DEF left
    <3> QED BY <1>2, <1>3, <2>2, <3>3
  <2> QED BY <2>1, <2>2
<1>5. r = [here |-> h, agents |-> [left.agents EXCEPT ![a].at = c], pay |-> left.pay]
  BY DEF MarlGrid!Moved, MarlGrid!Place
<1> HIDE DEF left, r
<1>6. h \in [MarlCells(o) -> Seq(MarlIds(o))]
  <2>1. left.here \in [MarlCells(o) -> Seq(MarlIds(o))] BY <1>2, PlacingFields
  <2>2. left.here[c] \in Seq(MarlIds(o)) BY <2>1
  <2>3. Append(left.here[c], a) \in Seq(MarlIds(o)) BY <2>2
  <2> QED BY <2>1, <2>3 DEF MarlGrid!With
<1>7. y \in MarlAgent(o) /\ y.at = c /\ y.active = p.agents[a].active /\ y.done = p.agents[a].done
  <2>1. p.agents[a] \in MarlAgent(o) BY <1>1, PlacingFields
  <2> QED BY <2>1, AgentWalks
<1>9. r = [here |-> h, agents |-> [p.agents EXCEPT ![a] = y], pay |-> p.pay]
  <2> HIDE DEF h
  <2> QED BY <1>2, <1>5
<1>10. [p.agents EXCEPT ![a].at = c] = [p.agents EXCEPT ![a] = y] OBVIOUS
<1> HIDE DEF y
<1> HIDE DEF h
<1>11. r.here = h /\ r.agents = [p.agents EXCEPT ![a] = y] BY <1>9
<1>12. r.agents[a] = y /\ \A b \in MarlIds(o) : b # a => r.agents[b] = p.agents[b]
  BY <1>1, <1>11, PlacingFields
<1>13. r \in Placings(o)
  <2>1. [p.agents EXCEPT ![a] = y] \in [MarlIds(o) -> MarlAgent(o)]
    BY <1>1, <1>7, PlacingFields
  <2> QED BY <1>1, <1>6, <1>9, <2>1, PlacingFields DEF Placings
<1>14. r.agents[a].at = c BY <1>7, <1>12
<1>15. \A b \in MarlIds(o) : b # a => r.agents[b].at = left.agents[b].at BY <1>2, <1>12
<1>16. r.here = MarlGrid!With(left.here, c, Append(left.here[c], a)) BY <1>11 DEF h
<1>17. InPlace(o, g, r, a) /\ \A b \in MarlIds(o) : b # a => InPlace(o, g, r, b)
  BY <1>2, <1>3, <1>4, <1>13, <1>14, <1>15, <1>16, AgentComes
<1>18. \A b \in MarlIds(o) : r.agents[b].active \/ r.agents[b].done
  BY <1>1, <1>7, <1>12
<1>19. AllPlaced(o, g, r) BY <1>13, <1>17, <1>18 DEF AllPlaced
<1> QED BY <1>10, <1>11, <1>19 DEF r

\* The other ways in which an agent changes.
Turned(x, d) == [x EXCEPT !.dir = d]
Counted(x, n) == [x EXCEPT !.bonus = n]
Finished(x) == [x EXCEPT !.done = TRUE]
Restarted(x) == [x EXCEPT !.done = FALSE]
Retiring(x) == [x EXCEPT !.active = FALSE]

LEMMA AgentTurned ==
  ASSUME NEW o, NEW x \in MarlAgent(o), NEW d \in 0..3
  PROVE  Turned(x, d) \in MarlAgent(o) /\ Turned(x, d).at = x.at /\ Turned(x, d).active = x.active /\ Turned(x, d).done = x.done
BY DEF MarlAgent, Turned
LEMMA AgentCounted ==
  ASSUME NEW o, NEW x \in MarlAgent(o), NEW n \in Int
  PROVE  Counted(x, n) \in MarlAgent(o) /\ Counted(x, n).at = x.at /\ Counted(x, n).active = x.active /\ Counted(x, n).done = x.done
BY DEF MarlAgent, Counted
LEMMA AgentFinished ==
  ASSUME NEW o, NEW x \in MarlAgent(o)
  PROVE  Finished(x) \in MarlAgent(o) /\ Finished(x).at = x.at /\ Finished(x).done
BY DEF MarlAgent, Finished
LEMMA AgentRestarted ==
  ASSUME NEW o, NEW x \in MarlAgent(o)
  PROVE  Restarted(x) \in MarlAgent(o) /\ Restarted(x).at = x.at
BY DEF MarlAgent, Restarted
LEMMA AgentRetiring ==
  ASSUME NEW o, NEW x \in MarlAgent(o)
  PROVE  Retiring(x) \in MarlAgent(o) /\ Retiring(x).at = x.at /\ Retiring(x).done = x.done
BY DEF MarlAgent, Retiring

\* A change of one agent that leaves it where it is.
LEMMA AgentChanges ==
  ASSUME NEW o, NEW g, NEW p, AllPlaced(o, g, p), NEW a \in MarlIds(o), NEW y \in MarlAgent(o),
         y.at = p.agents[a].at, y.active \/ y.done, NEW pay \in [MarlIds(o) -> Int],
         NEW r, r = [here |-> p.here, agents |-> [p.agents EXCEPT ![a] = y], pay |-> pay]
  PROVE  AllPlaced(o, g, r)
<1>1. p \in Placings(o) /\ \A b \in MarlIds(o) : InPlace(o, g, p, b) /\ (p.agents[b].active \/ p.agents[b].done)
  BY DEF AllPlaced
<1>2. r.here = p.here /\ r.agents = [p.agents EXCEPT ![a] = y] OBVIOUS
<1>3. r.agents[a] = y /\ \A b \in MarlIds(o) : b # a => r.agents[b] = p.agents[b]
  BY <1>1, <1>2, PlacingFields
<1>4. r \in Placings(o)
  <2>1. p.here \in [MarlCells(o) -> Seq(MarlIds(o))] BY <1>1, PlacingFields
  <2>2. [p.agents EXCEPT ![a] = y] \in [MarlIds(o) -> MarlAgent(o)] BY <1>1, PlacingFields
  <2> QED BY <2>1, <2>2 DEF Placings
<1>5. ASSUME NEW b \in MarlIds(o) PROVE InPlace(o, g, r, b)
  <2>1. r.agents[b].at = p.agents[b].at BY <1>3
  <2> QED BY <1>1, <1>2, <2>1, SamePlaces
<1>6. ASSUME NEW b \in MarlIds(o) PROVE r.agents[b].active \/ r.agents[b].done
  <2>1. CASE b = a BY <1>3, <2>1
  <2>2. CASE b # a BY <1>1, <1>3, <2>2
  <2> QED BY <2>1, <2>2
<1> QED BY <1>4, <1>5, <1>6 DEF AllPlaced

LEMMA Tiles ==
  ASSUME NEW o \in MarlConfigs, NEW b \in Int, NEW id \in 0 .. o.bonusTiles - 1
  PROVE  MarlGrid!BonusState(o, b, id) \in Int /\ MarlGrid!BonusReward(o, b, id) \in Int
<1>1. PICK n \in Nat : o.bonusTiles = n BY MarlNumbers
<1>2. n > 0 /\ id \in Int BY <1>1
<1>3. MarlGrid!Before(o, id) \in Int BY <1>1, <1>2 DEF MarlGrid!Before
<1>4. MarlGrid!Since(o, b, id) \in Int BY <1>3 DEF MarlGrid!Since
<1>5. MarlGrid!BonusState(o, b, id) \in Int BY <1>2, <1>4 DEF MarlGrid!BonusState
<1>6. MarlGrid!BonusReward(o, b, id) \in Int
  <2>1. MarlGrid!BonusReward(o, b, id) \in {0, 1, -1} BY DEF MarlGrid!BonusReward
  <2> QED BY <2>1
<1> QED BY <1>5, <1>6

\* An agent inside the walls faces a cell of the grid: DoAgentStep's CHECK holds.
LEMMA FrontInBounds ==
  ASSUME NEW o \in MarlConfigs, NEW g, GoodGrid(o, g), NEW at \in MarlCells(o), g[at].type # "wall", NEW d \in 0..3
  PROVE  <<at[1] + MarlGrid!M!DirVec(d)[1], at[2] + MarlGrid!M!DirVec(d)[2]>> \in MarlCells(o)
<1>1. PICK n \in Nat : o.size = n BY MarlNumbers
<1>2. PICK x \in 0..(n - 1), y \in 0..(n - 1) : at = <<x, y>> BY <1>1 DEF MarlCells
<1>3. x # 0 /\ x # n - 1 /\ y # 0 /\ y # n - 1 BY <1>1, <1>2 DEF GoodGrid
<1>4. PICK u \in -1..1, v \in -1..1 : u = MarlGrid!M!DirVec(d)[1] /\ v = MarlGrid!M!DirVec(d)[2]
  BY MarlDirections
<1>5. x + u \in 0..(n - 1) /\ y + v \in 0..(n - 1) BY <1>2, <1>3, <1>4
<1> QED BY <1>1, <1>2, <1>4, <1>5 DEF MarlCells

LEMMA AgentSteps ==
  ASSUME NEW o \in MarlConfigs, NEW g, GoodGrid(o, g), NEW p, AllPlaced(o, g, p), NEW a \in MarlIds(o), NEW act
  PROVE  AllPlaced(o, g, MarlGrid!DoAgentStep(o, g, p, a, act))
<1> DEFINE agent == p.agents[a]
           front == <<agent.at[1] + MarlGrid!M!DirVec(agent.dir)[1], agent.at[2] + MarlGrid!M!DirVec(agent.dir)[2]>>
           moved == MarlGrid!Moved(p, a, front)
           id == g[front].id
           Goal == MarlGrid!Place([moved.agents EXCEPT ![a].done = TRUE], moved.here, MarlGrid!With(moved.pay, a, 1))
           Bonus == MarlGrid!Place([moved.agents EXCEPT ![a].bonus = MarlGrid!BonusState(o, agent.bonus, id)], moved.here,
                                   MarlGrid!With(moved.pay, a, MarlGrid!BonusReward(o, agent.bonus, id)))
           r == MarlGrid!DoAgentStep(o, g, p, a, act)
<1>1. /\ p \in Placings(o)
      /\ \A b \in MarlIds(o) : InPlace(o, g, p, b) /\ (p.agents[b].active \/ p.agents[b].done)
  BY DEF AllPlaced
<1>2. p.agents \in [MarlIds(o) -> MarlAgent(o)] /\ p.pay \in [MarlIds(o) -> Int] /\ agent \in MarlAgent(o)
      /\ p = [here |-> p.here, agents |-> p.agents, pay |-> p.pay]
  BY <1>1, PlacingFields
<1>3. agent.dir \in 0..3 /\ agent.bonus \in Int BY <1>2 DEF MarlAgent
<1>4. agent.at \in MarlCells(o) /\ g[agent.at].type # "wall" BY <1>1 DEF InPlace
<1>5. front \in MarlCells(o) BY <1>3, <1>4, FrontInBounds
<1>6. agent.active \/ agent.done BY <1>1
<1> HIDE DEF agent
<1>7. ASSUME NEW d \in 0..3 PROVE AllPlaced(o, g, [p EXCEPT !.agents[a].dir = d])
  <2>1. [p EXCEPT !.agents[a].dir = d] = [here |-> p.here, agents |-> [p.agents EXCEPT ![a] = Turned(agent, d)], pay |-> p.pay]
    <3>1. [p.agents EXCEPT ![a].dir = d] = [p.agents EXCEPT ![a] = Turned(agent, d)] BY DEF agent, Turned
    <3>2. [p EXCEPT !.agents = [p.agents EXCEPT ![a].dir = d]] = [here |-> p.here, agents |-> [p.agents EXCEPT ![a].dir = d], pay |-> p.pay]
      BY <1>2
    <3>3. [p EXCEPT !.agents[a].dir = d] = [p EXCEPT !.agents = [p.agents EXCEPT ![a].dir = d]] OBVIOUS
    <3> QED BY <3>1, <3>2, <3>3
  <2>2. /\ Turned(agent, d) \in MarlAgent(o) /\ Turned(agent, d).at = agent.at
        /\ Turned(agent, d).active \/ Turned(agent, d).done
    BY <1>2, <1>6, AgentTurned
  <2> QED BY <1>2, <2>1, <2>2, AgentChanges DEF agent
<1>8. ASSUME MarlGrid!CanMove(o, g, p, front)
      PROVE  /\ AllPlaced(o, g, moved)
             /\ AllPlaced(o, g, Goal)
             /\ g[front].type = "bonus" => AllPlaced(o, g, Bonus)
  <2>1. AllPlaced(o, g, moved) BY <1>5, <1>8, AgentMoves
  <2> HIDE DEF moved
  <2>2. PICK x : x = moved.agents[a] OBVIOUS
  <2>3. /\ moved \in Placings(o) /\ x \in MarlAgent(o) /\ (x.active \/ x.done)
        /\ moved.agents \in [MarlIds(o) -> MarlAgent(o)] /\ moved.pay \in [MarlIds(o) -> Int]
        /\ moved = [here |-> moved.here, agents |-> moved.agents, pay |-> moved.pay]
    BY <2>1, <2>2, PlacingFields DEF AllPlaced
  <2>4. AllPlaced(o, g, Goal)
    <3>1. [moved.agents EXCEPT ![a].done = TRUE] = [moved.agents EXCEPT ![a] = Finished(x)] BY <2>2 DEF Finished
    <3>2. Finished(x) \in MarlAgent(o) /\ Finished(x).at = x.at /\ Finished(x).done
      BY <2>3, AgentFinished
    <3>3. MarlGrid!With(moved.pay, a, 1) \in [MarlIds(o) -> Int] BY <2>3 DEF MarlGrid!With
    <3> QED BY <2>1, <2>2, <3>1, <3>2, <3>3, AgentChanges DEF MarlGrid!Place
  <2>5. ASSUME g[front].type = "bonus" PROVE AllPlaced(o, g, Bonus)
    <3> DEFINE n == MarlGrid!BonusReward(o, agent.bonus, id)
               m == MarlGrid!BonusState(o, agent.bonus, id)
    <3>1. n \in Int /\ m \in Int
      <4>1. id \in 0 .. o.bonusTiles - 1 BY <1>5, <2>5 DEF GoodGrid
      <4> QED BY <1>3, <4>1, Tiles
    <3> HIDE DEF n, m
    <3>2. [moved.agents EXCEPT ![a].bonus = m] = [moved.agents EXCEPT ![a] = Counted(x, m)] BY <2>2 DEF Counted
    <3>3. /\ Counted(x, m) \in MarlAgent(o) /\ Counted(x, m).at = x.at
          /\ Counted(x, m).active = x.active /\ Counted(x, m).done = x.done
      BY <2>3, <3>1, AgentCounted
    <3>4. Counted(x, m).active \/ Counted(x, m).done BY <2>3, <3>3
    <3>5. MarlGrid!With(moved.pay, a, n) \in [MarlIds(o) -> Int] BY <2>3, <3>1 DEF MarlGrid!With
    <3>6. AllPlaced(o, g, MarlGrid!Place([moved.agents EXCEPT ![a].bonus = m], moved.here, MarlGrid!With(moved.pay, a, n)))
      BY <2>1, <2>2, <3>2, <3>3, <3>4, <3>5, AgentChanges DEF MarlGrid!Place
    <3> QED BY <3>6 DEF n, m
  <2> QED BY <2>1, <2>4, <2>5
<1>9. (agent.dir + 3) % 4 \in 0..3 /\ (agent.dir + 1) % 4 \in 0..3 BY <1>3
<1>10. CASE ~agent.active
  <2>1. r = p BY <1>10 DEF MarlGrid!DoAgentStep, agent
  <2> QED BY <2>1
<1>11. CASE agent.active
  <2>1. \/ r = p
        \/ r = [p EXCEPT !.agents[a].dir = (agent.dir + 3) % 4]
        \/ r = [p EXCEPT !.agents[a].dir = (agent.dir + 1) % 4]
        \/ /\ MarlGrid!CanMove(o, g, p, front)
           /\ r = moved \/ r = Goal \/ (g[front].type = "bonus" /\ r = Bonus)
    BY <1>11, Zenon DEF MarlGrid!DoAgentStep, agent
  <2> DEFINE k == (agent.dir + 3) % 4
             l == (agent.dir + 1) % 4
  <2>2. r = [p EXCEPT !.agents[a].dir = k] => AllPlaced(o, g, r) BY <1>7, <1>9
  <2>3. r = [p EXCEPT !.agents[a].dir = l] => AllPlaced(o, g, r) BY <1>7, <1>9
  <2> SUFFICES AllPlaced(o, g, r) OBVIOUS
  <2> HIDE DEF r, moved, id, Goal, Bonus
  <2> QED BY <1>8, <2>1, <2>2, <2>3, Zenon
<1> QED BY <1>10, <1>11

LEMMA AgentsReplaced ==
  ASSUME NEW p, p = [here |-> p.here, agents |-> p.agents, pay |-> p.pay], NEW A
  PROVE  [p EXCEPT !.agents = A] = [here |-> p.here, agents |-> A, pay |-> p.pay]
OBVIOUS

LEMMA AgentRetires ==
  ASSUME NEW o \in MarlConfigs, NEW g, NEW p, AllPlaced(o, g, p), NEW a \in MarlIds(o), NEW q \in MarlGrid!Retired(o, g, p, a)
  PROVE  AllPlaced(o, g, q)
<1> DEFINE left == MarlGrid!Left(p, a)
           m == [left EXCEPT !.agents[a].done = FALSE]
           n == [p EXCEPT !.agents[a].active = FALSE]
<1>1. p \in Placings(o) /\ \A b \in MarlIds(o) : InPlace(o, g, p, b) /\ (p.agents[b].active \/ p.agents[b].done)
  BY DEF AllPlaced
<1>2. /\ p.agents \in [MarlIds(o) -> MarlAgent(o)] /\ p.pay \in [MarlIds(o) -> Int]
      /\ p = [here |-> p.here, agents |-> p.agents, pay |-> p.pay]
  BY <1>1, PlacingFields
<1>3. CASE ~p.agents[a].done
  <2>1. q = p BY <1>3 DEF MarlGrid!Retired
  <2> QED BY <2>1
<1>4. CASE p.agents[a].done /\ o.respawn
  <2>1. q \in MarlGrid!Put(o, g, m, a) BY <1>4, Zenon DEF MarlGrid!Retired
  <2>2. /\ left \in Placings(o) /\ left.agents = p.agents /\ Absent(o, left, a)
        /\ \A b \in MarlIds(o) : b # a => InPlace(o, g, left, b)
    BY <1>1, AgentLeaves
  <2> HIDE DEF left
  <2> DEFINE y == Restarted(p.agents[a])
  <2>3. y \in MarlAgent(o) /\ y.at = p.agents[a].at BY <1>2, AgentRestarted
  <2>4. m = [here |-> left.here, agents |-> [p.agents EXCEPT ![a] = y], pay |-> left.pay]
    <3>1. [left.agents EXCEPT ![a].done = FALSE] = [p.agents EXCEPT ![a] = y] BY <2>2 DEF Restarted
    <3>2. left = [here |-> left.here, agents |-> left.agents, pay |-> left.pay] BY <2>2, PlacingFields
    <3>3. m = [left EXCEPT !.agents = [left.agents EXCEPT ![a].done = FALSE]] OBVIOUS
    <3>4. [left EXCEPT !.agents = [left.agents EXCEPT ![a].done = FALSE]] =
            [here |-> left.here, agents |-> [left.agents EXCEPT ![a].done = FALSE], pay |-> left.pay]
      BY <3>2, AgentsReplaced
    <3> QED BY <3>1, <3>3, <3>4
  <2> HIDE DEF y, m
  <2>5. m.here = left.here /\ m.agents = [p.agents EXCEPT ![a] = y] BY <2>4
  <2>6. m.agents[a] = y /\ \A b \in MarlIds(o) : b # a => m.agents[b] = p.agents[b] BY <1>2, <2>5
  <2>7. m \in Placings(o)
    <3>1. left.here \in [MarlCells(o) -> Seq(MarlIds(o))] /\ left.pay \in [MarlIds(o) -> Int] BY <2>2, PlacingFields
    <3>2. [p.agents EXCEPT ![a] = y] \in [MarlIds(o) -> MarlAgent(o)] BY <1>2, <2>3
    <3> QED BY <2>4, <3>1, <3>2 DEF Placings
  <2>8. Absent(o, m, a) BY <2>2, <2>5 DEF Absent
  <2>9. ASSUME NEW b \in MarlIds(o), b # a PROVE InPlace(o, g, m, b)
    <3>1. m.agents[b].at = left.agents[b].at BY <2>2, <2>6, <2>9
    <3> QED BY <2>2, <2>5, <2>9, <3>1, SamePlaces
  <2>10. /\ q \in Placings(o) /\ InPlace(o, g, q, a) /\ q.agents[a].active
         /\ \A b \in MarlIds(o) : b # a => q.agents[b] = m.agents[b] /\ InPlace(o, g, q, b)
    BY <2>1, <2>7, <2>8, <2>9, AgentIsPut
  <2>11. \A b \in MarlIds(o) : q.agents[b].active \/ q.agents[b].done
    <3>1. SUFFICES ASSUME NEW b \in MarlIds(o) PROVE q.agents[b].active \/ q.agents[b].done OBVIOUS
    <3>2. CASE b = a BY <2>10, <3>2
    <3>3. CASE b # a
      <4>1. q.agents[b] = p.agents[b] BY <2>6, <2>10, <3>3
      <4> QED BY <1>1, <4>1
    <3> QED BY <3>2, <3>3
  <2> QED BY <2>10, <2>11 DEF AllPlaced
<1>5. CASE p.agents[a].done /\ ~o.respawn
  <2>1. q = n BY <1>5, Zenon DEF MarlGrid!Retired
  <2> DEFINE y == Retiring(p.agents[a])
  <2>2. y \in MarlAgent(o) /\ y.at = p.agents[a].at /\ y.done BY <1>2, <1>5, AgentRetiring
  <2>3. n = [here |-> p.here, agents |-> [p.agents EXCEPT ![a] = y], pay |-> p.pay]
    <3>1. [p.agents EXCEPT ![a].active = FALSE] = [p.agents EXCEPT ![a] = y] BY DEF Retiring
    <3>2. n = [p EXCEPT !.agents = [p.agents EXCEPT ![a].active = FALSE]] OBVIOUS
    <3>3. [p EXCEPT !.agents = [p.agents EXCEPT ![a].active = FALSE]] =
            [here |-> p.here, agents |-> [p.agents EXCEPT ![a].active = FALSE], pay |-> p.pay]
      BY <1>2, AgentsReplaced
    <3> QED BY <3>1, <3>2, <3>3
  <2> HIDE DEF y, n
  <2> QED BY <1>2, <2>1, <2>2, <2>3, AgentChanges
<1> QED BY <1>3, <1>4, <1>5

LEMMA PutIsPlacing ==
  ASSUME NEW o \in MarlConfigs, NEW g, NEW p \in Placings(o), NEW a \in MarlIds(o)
  PROVE  MarlGrid!Put(o, g, p, a) \subseteq Placings(o)
<1>1. SUFFICES ASSUME NEW q \in MarlGrid!Put(o, g, p, a) PROVE q \in Placings(o) OBVIOUS
<1>2. PICK c \in o.spots, d \in o.turns : q = MarlGrid!Arrived(p, a, c, d) BY DEF MarlGrid!Put
<1>3. c \in MarlCells(o) /\ d \in 0..3 BY <1>2, MarlNumbers
<1> DEFINE y == Come(p.agents[a], c, d)
           h == MarlGrid!With(p.here, c, Append(p.here[c], a))
<1>4. h \in [MarlCells(o) -> Seq(MarlIds(o))]
  <2>1. p.here \in [MarlCells(o) -> Seq(MarlIds(o))] BY PlacingFields
  <2>2. PICK s \in Seq(MarlIds(o)) : s = p.here[c] BY <1>3, <2>1
  <2>3. Append(s, a) \in Seq(MarlIds(o)) BY <2>2
  <2> QED BY <2>1, <2>2, <2>3 DEF MarlGrid!With
<1>5. y \in MarlAgent(o) BY <1>3, PlacingFields, AgentArrives
<1>6. q = [here |-> h, agents |-> [p.agents EXCEPT ![a] = y], pay |-> p.pay]
  BY <1>2 DEF MarlGrid!Arrived, MarlGrid!Place, Come
<1> HIDE DEF y, h
<1>7. [p.agents EXCEPT ![a] = y] \in [MarlIds(o) -> MarlAgent(o)] BY <1>5, PlacingFields
<1> QED BY <1>4, <1>6, <1>7, PlacingFields DEF Placings

\* PutAll, one agent after the other.
PutTurns(o, g, p, some, f) ==
  /\ f[0] = {p}
  /\ \A k \in Nat : k + 1 <= o.agents =>
       f[k + 1] = IF k \in some THEN UNION {MarlGrid!Put(o, g, q, k) : q \in f[k]} ELSE f[k]

LEMMA PutAllTurns ==
  ASSUME NEW o \in MarlConfigs, NEW g, NEW p \in Placings(o), NEW some
  PROVE  \E f : MarlGrid!PutAll(o, g, p, some) = f[o.agents] /\ PutTurns(o, g, p, some, f)
<1>1. PICK n \in Nat : n = o.agents BY MarlNumbers
<1> DEFINE S == SUBSET Placings(o)
           Next1(s, k) == IF k - 1 \in some THEN UNION {MarlGrid!Put(o, g, q, k - 1) : q \in s} ELSE s
           Play(f) == f = [k \in 0..o.agents |->
                             IF k = 0 THEN {p}
                             ELSE IF k - 1 \in some THEN UNION {MarlGrid!Put(o, g, q, k - 1) : q \in f[k - 1]}
                             ELSE f[k - 1]]
           after == CHOOSE f : Play(f)
           T == [t \in S \X (1..n) |-> Next1(t[1], t[2])]
<1>2. T \in [S \X (1..n) -> S]
  <2>1. SUFFICES ASSUME NEW s \in S, NEW k \in 1..n PROVE Next1(s, k) \in S
    OBVIOUS
  <2>2. k - 1 \in MarlIds(o) BY <1>1 DEF MarlIds
  <2>3. \A q \in s : MarlGrid!Put(o, g, q, k - 1) \subseteq Placings(o) BY <2>2, PutIsPlacing
  <2> QED BY <2>3
<1>3. {p} \in S OBVIOUS
<1>4. PICK f \in [0..n -> S] : Unfolds(f, n, {p}, T)
  <2> HIDE DEF S, T
  <2> QED BY <1>2, <1>3, TurnsStay
<1>5. Play(f)
  <2>1. \A k \in 1..n : T[<<f[k - 1], k>>] = Next1(f[k - 1], k)
    <3>1. SUFFICES ASSUME NEW k \in 1..n PROVE <<f[k - 1], k>> \in S \X (1..n) OBVIOUS
    <3>2. k - 1 \in 0..n OBVIOUS
    <3> HIDE DEF S
    <3> QED BY <3>2
  <2> HIDE DEF T, Next1
  <2>2. \A k \in 0..n : f[k] = IF k = 0 THEN {p} ELSE T[<<f[k - 1], k>>] BY <1>4 DEF Unfolds
  <2>3. \A k \in 0..n : f[k] = IF k = 0 THEN {p} ELSE Next1(f[k - 1], k)
    <3>1. \A k \in 0..n : k # 0 => k \in 1..n OBVIOUS
    <3> QED BY <2>1, <2>2, <3>1, Zenon
  <2>4. f = [k \in 0..n |-> f[k]] BY DEF S
  <2>5. f = [k \in 0..n |-> IF k = 0 THEN {p} ELSE Next1(f[k - 1], k)] BY <2>3, <2>4
  <2> QED BY <1>1, <2>5 DEF Next1
<1>6. Play(after) BY <1>5
<1>7. MarlGrid!PutAll(o, g, p, some) = after[o.agents] BY DEF MarlGrid!PutAll
<1>8. after[0] = {p}
  <2> HIDE DEF after
  <2> QED BY <1>1, <1>6
<1>9. ASSUME NEW k \in Nat, k + 1 <= o.agents
      PROVE  after[k + 1] = IF k \in some THEN UNION {MarlGrid!Put(o, g, q, k) : q \in after[k]} ELSE after[k]
  <2>1. k + 1 \in 0..n /\ k + 1 # 0 /\ (k + 1) - 1 = k BY <1>1, <1>9
  <2> HIDE DEF after
  <2>2. after[k + 1] = IF (k + 1) - 1 \in some THEN UNION {MarlGrid!Put(o, g, q, (k + 1) - 1) : q \in after[(k + 1) - 1]}
                       ELSE after[(k + 1) - 1]
    BY <1>1, <1>6, <2>1
  <2> QED BY <2>1, <2>2
<1>10. PutTurns(o, g, p, some, after)
  <2> HIDE DEF after
  <2> QED BY <1>8, <1>9 DEF PutTurns
<1> QED BY <1>7, <1>10

\* Those put so far are in place and the others not yet anywhere.
LEMMA AllArePut ==
  ASSUME NEW o \in MarlConfigs, NEW g, NEW p \in Placings(o), \A a \in MarlIds(o) : Absent(o, p, a),
         NEW q \in MarlGrid!PutAll(o, g, p, MarlIds(o))
  PROVE  AllPlaced(o, g, q)
<1>1. PICK n \in Nat : n = o.agents BY MarlNumbers
<1>2. PICK f : MarlGrid!PutAll(o, g, p, MarlIds(o)) = f[n] /\ PutTurns(o, g, p, MarlIds(o), f)
  BY <1>1, PutAllTurns
<1> DEFINE Put(k, r) == /\ r \in Placings(o)
                        /\ \A a \in MarlIds(o) :
                             /\ a < k => InPlace(o, g, r, a) /\ r.agents[a].active
                             /\ ~(a < k) => Absent(o, r, a)
           Good == {k \in Nat : k <= n => \A r \in f[k] : Put(k, r)}
<1>3. 0 \in Good
  <2>1. \A a \in MarlIds(o) : ~(a < 0) BY <1>1 DEF MarlIds
  <2>2. \A r \in f[0] : r = p BY <1>2 DEF PutTurns
  <2> QED BY <2>1, <2>2
<1>4. ASSUME NEW k \in Nat, k \in Good PROVE k + 1 \in Good
  <2>1. SUFFICES ASSUME k + 1 <= n, NEW r \in f[k + 1] PROVE Put(k + 1, r) OBVIOUS
  <2>2. k \in MarlIds(o) BY <1>1, <2>1 DEF MarlIds
  <2>3. PICK s \in f[k] : r \in MarlGrid!Put(o, g, s, k)
    <3>1. f[k + 1] = UNION {MarlGrid!Put(o, g, s, k) : s \in f[k]} BY <1>1, <1>2, <2>1, <2>2 DEF PutTurns
    <3> QED BY <2>1, <3>1
  <2>4. Put(k, s) BY <1>4, <2>1
  <2>5. s \in Placings(o) /\ Absent(o, s, k) BY <2>2, <2>4
  <2>6. /\ r \in Placings(o) /\ InPlace(o, g, r, k) /\ r.agents[k].active
        /\ \A b \in MarlIds(o) : b # k =>
              /\ r.agents[b] = s.agents[b]
              /\ InPlace(o, g, s, b) => InPlace(o, g, r, b)
              /\ Absent(o, s, b) => Absent(o, r, b)
    BY <2>2, <2>3, <2>5, AgentIsPut
  <2>7. ASSUME NEW a \in MarlIds(o)
        PROVE  /\ a < k + 1 => InPlace(o, g, r, a) /\ r.agents[a].active
               /\ ~(a < k + 1) => Absent(o, r, a)
    <3>1. a = k \/ (a # k /\ a < k) \/ (a # k /\ ~(a < k) /\ ~(a < k + 1)) BY <1>1, <2>7 DEF MarlIds
    <3>2. CASE a = k
      <4>1. a < k + 1 BY <3>2
      <4> QED BY <2>6, <3>2, <4>1
    <3>3. CASE a # k /\ a < k
      <4>1. a < k + 1 BY <1>1, <3>3 DEF MarlIds
      <4>2. InPlace(o, g, s, a) /\ s.agents[a].active BY <2>4, <3>3
      <4>3. r.agents[a] = s.agents[a] BY <2>6, <3>3
      <4> QED BY <2>6, <3>3, <4>1, <4>2, <4>3
    <3>4. CASE a # k /\ ~(a < k) /\ ~(a < k + 1) BY <2>4, <2>6, <3>4
    <3> QED BY <3>1, <3>2, <3>3, <3>4
  <2> QED BY <2>6, <2>7
<1> HIDE DEF Good
<1>5. n \in Good BY <1>3, <1>4, SetInduction
<1>6. Put(n, q) BY <1>2, <1>5 DEF Good
<1>7. \A a \in MarlIds(o) : a < n BY <1>1 DEF MarlIds
<1> QED BY <1>6, <1>7 DEF AllPlaced

LEMMA NobodyIsPut ==
  ASSUME NEW o \in MarlConfigs, NEW g, NEW p \in Placings(o)
  PROVE  MarlGrid!PutAll(o, g, p, {}) = {p}
<1>1. PICK n \in Nat : n = o.agents BY MarlNumbers
<1>2. PICK f : MarlGrid!PutAll(o, g, p, {}) = f[n] /\ PutTurns(o, g, p, {}, f)
  BY <1>1, PutAllTurns
<1> DEFINE S == {{p}}
<1>3. f[0] \in S BY <1>2 DEF PutTurns
<1>4. \A k \in Nat : k + 1 <= n /\ f[k] \in S => f[k + 1] \in S BY <1>1, <1>2 DEF PutTurns
<1> HIDE DEF S
<1>5. f[n] \in S BY <1>3, <1>4, TurnsKeep
<1> QED BY <1>2, <1>5 DEF S

LEMMA AllHaveActed ==
  ASSUME NEW o \in MarlConfigs, NEW g, GoodGrid(o, g), NEW p, AllPlaced(o, g, p), NEW act,
         NEW order \in [1 .. o.agents -> MarlIds(o)]
  PROVE  AllPlaced(o, g, MarlGrid!Acted(o, g, p, act, order))
<1>1. PICK n \in Nat : n = o.agents BY MarlNumbers
<1> DEFINE S == {q \in Placings(o) : AllPlaced(o, g, q)}
           Move(q, k) == MarlGrid!DoAgentStep(o, g, q, order[k], act[order[k]])
           Play(f) == f = [k \in 0..o.agents |->
                             IF k = 0 THEN p ELSE MarlGrid!DoAgentStep(o, g, f[k - 1], order[k], act[order[k]])]
           after == CHOOSE f : Play(f)
           T == [t \in S \X (1..n) |-> Move(t[1], t[2])]
<1>2. \A q \in S, k \in 1..n : Move(q, k) \in S
  <2>1. SUFFICES ASSUME NEW q \in S, NEW k \in 1..n PROVE Move(q, k) \in S OBVIOUS
  <2>2. order[k] \in MarlIds(o) BY <1>1
  <2>3. AllPlaced(o, g, Move(q, k)) BY <2>2, AgentSteps
  <2> HIDE DEF Move
  <2> QED BY <2>3 DEF AllPlaced
<1>3. T \in [S \X (1..n) -> S]
  <2> HIDE DEF S, Move
  <2> QED BY <1>2
<1>4. p \in S BY DEF AllPlaced
<1>5. PICK f \in [0..n -> S] : Unfolds(f, n, p, T)
  <2> HIDE DEF S, T
  <2> QED BY <1>3, <1>4, TurnsStay
<1>6. Play(f)
  <2>1. \A k \in 1..n : T[<<f[k - 1], k>>] = Move(f[k - 1], k)
    <3>1. SUFFICES ASSUME NEW k \in 1..n PROVE <<f[k - 1], k>> \in S \X (1..n)
      <4> HIDE DEF Move
      <4> QED OBVIOUS
    <3>2. k - 1 \in 0..n OBVIOUS
    <3> HIDE DEF S
    <3> QED BY <3>2
  <2> HIDE DEF T, Move
  <2>2. \A k \in 0..n : f[k] = IF k = 0 THEN p ELSE T[<<f[k - 1], k>>] BY <1>5 DEF Unfolds
  <2>3. \A k \in 0..n : f[k] = IF k = 0 THEN p ELSE Move(f[k - 1], k)
    <3>1. \A k \in 0..n : k # 0 => k \in 1..n OBVIOUS
    <3> QED BY <2>1, <2>2, <3>1, Zenon
  <2>4. f = [k \in 0..n |-> f[k]]
    <3> HIDE DEF S
    <3> QED OBVIOUS
  <2>5. f = [k \in 0..n |-> IF k = 0 THEN p ELSE Move(f[k - 1], k)] BY <2>3, <2>4
  <2> QED BY <1>1, <2>5 DEF Move
<1>7. Play(after) BY <1>6
<1>8. after[n] \in S
  <2>1. after[0] = p
    <3> HIDE DEF after
    <3> QED BY <1>1, <1>7
  <2>2. ASSUME NEW k \in Nat, k + 1 <= n, after[k] \in S PROVE after[k + 1] \in S
    <3>1. k + 1 \in 1..n /\ k + 1 # 0 /\ (k + 1) - 1 = k BY <2>2
    <3> HIDE DEF after
    <3>2. after[k + 1] = Move(after[k], k + 1) BY <1>1, <1>7, <3>1
    <3> HIDE DEF S, Move
    <3> QED BY <1>2, <2>2, <3>1, <3>2
  <2> HIDE DEF S, after
  <2> QED BY <1>4, <2>1, <2>2, TurnsKeep
<1>9. MarlGrid!Acted(o, g, p, act, order) = after[o.agents] BY DEF MarlGrid!Acted
<1> HIDE DEF after
<1> QED BY <1>1, <1>8, <1>9

LEMMA AllHaveRetired ==
  ASSUME NEW o \in MarlConfigs, NEW g, NEW p, AllPlaced(o, g, p), NEW q \in MarlGrid!RetiredAll(o, g, p)
  PROVE  AllPlaced(o, g, q)
<1>1. PICK n \in Nat : n = o.agents BY MarlNumbers
<1> DEFINE Q == {r \in Placings(o) : AllPlaced(o, g, r)}
           S == SUBSET Q
           All(s, k) == UNION {MarlGrid!Retired(o, g, r, k - 1) : r \in s}
           Play(f) == f = [k \in 0..o.agents |->
                             IF k = 0 THEN {p} ELSE All(f[k - 1], k)]
           after == CHOOSE f : Play(f)
           T == [t \in S \X (1..n) |-> All(t[1], t[2])]
<1>2. \A s \in S, k \in 1..n : All(s, k) \in S
  <2>1. SUFFICES ASSUME NEW s \in S, NEW k \in 1..n PROVE All(s, k) \in S OBVIOUS
  <2>2. k - 1 \in MarlIds(o) BY <1>1 DEF MarlIds
  <2>3. ASSUME NEW r \in s PROVE MarlGrid!Retired(o, g, r, k - 1) \subseteq Q
    <3>1. AllPlaced(o, g, r) OBVIOUS
    <3>2. SUFFICES ASSUME NEW x \in MarlGrid!Retired(o, g, r, k - 1) PROVE x \in Q OBVIOUS
    <3>3. AllPlaced(o, g, x) BY <2>2, <3>1, AgentRetires
    <3> QED BY <3>3 DEF AllPlaced
  <2> HIDE DEF Q
  <2> QED BY <2>3
<1>3. T \in [S \X (1..n) -> S]
  <2> HIDE DEF S, All
  <2> QED BY <1>2
<1>4. {p} \in S BY DEF AllPlaced
<1>5. PICK f \in [0..n -> S] : Unfolds(f, n, {p}, T)
  <2> HIDE DEF S, T
  <2> QED BY <1>3, <1>4, TurnsStay
<1>6. Play(f)
  <2>1. \A k \in 1..n : T[<<f[k - 1], k>>] = All(f[k - 1], k)
    <3>1. SUFFICES ASSUME NEW k \in 1..n PROVE <<f[k - 1], k>> \in S \X (1..n)
      <4> HIDE DEF All
      <4> QED OBVIOUS
    <3>2. k - 1 \in 0..n OBVIOUS
    <3> HIDE DEF S
    <3> QED BY <3>2
  <2> HIDE DEF T, All
  <2>2. \A k \in 0..n : f[k] = IF k = 0 THEN {p} ELSE T[<<f[k - 1], k>>] BY <1>5 DEF Unfolds
  <2>3. \A k \in 0..n : f[k] = IF k = 0 THEN {p} ELSE All(f[k - 1], k)
    <3>1. \A k \in 0..n : k # 0 => k \in 1..n OBVIOUS
    <3> QED BY <2>1, <2>2, <3>1, Zenon
  <2>4. f = [k \in 0..n |-> f[k]]
    <3> HIDE DEF S
    <3> QED OBVIOUS
  <2>5. f = [k \in 0..n |-> IF k = 0 THEN {p} ELSE All(f[k - 1], k)] BY <2>3, <2>4
  <2> QED BY <1>1, <2>5 DEF All
<1>7. Play(after) BY <1>6
<1>8. after[n] \in S
  <2>1. after[0] = {p}
    <3> HIDE DEF after
    <3> QED BY <1>1, <1>7
  <2>2. ASSUME NEW k \in Nat, k + 1 <= n, after[k] \in S PROVE after[k + 1] \in S
    <3>1. k + 1 \in 1..n /\ k + 1 # 0 /\ (k + 1) - 1 = k BY <2>2
    <3> HIDE DEF after, All
    <3>2. after[k + 1] = All(after[k], k + 1)
      <4>1. PICK m : m = k + 1 OBVIOUS
      <4>2. m \in 0..o.agents /\ m # 0 /\ m - 1 = k BY <1>1, <3>1, <4>1
      <4>3. after[m] = All(after[m - 1], m) BY <1>7, <4>2
      <4> QED BY <4>1, <4>2, <4>3, Zenon
    <3> HIDE DEF S
    <3> QED BY <1>2, <2>2, <3>1, <3>2
  <2> HIDE DEF S, after
  <2>3. after[0] \in S BY <1>4, <2>1
  <2> QED BY <2>2, <2>3, TurnsKeep
<1>9. q \in after[n] BY <1>1 DEF MarlGrid!RetiredAll
<1> HIDE DEF after
<1> QED BY <1>8, <1>9

\* The inductive invariant in the terms of these lemmas.
AllSound(o, g, as, cells) == o \in MarlConfigs /\ GoodGrid(o, g) /\ AllPlaced(o, g, MarlGrid!Place(as, cells, MarlGrid!NoPay(o)))

LEMMA SoundIsIInv ==
  ASSUME AllSound(s1, s2, s3, s4)
  PROVE  MarlGrid!IInv
<1> DEFINE p == MarlGrid!Place(s3, s4, MarlGrid!NoPay(s1))
<1>1. /\ s1 \in MarlConfigs /\ GoodGrid(s1, s2) /\ p \in Placings(s1)
      /\ \A a \in MarlIds(s1) : InPlace(s1, s2, p, a) /\ (p.agents[a].active \/ p.agents[a].done)
  BY DEF AllSound, AllPlaced
<1>2. p.here = s4 /\ p.agents = s3 BY DEF MarlGrid!Place
<1> HIDE DEF p
<1>3. /\ DOMAIN s2 = MarlCells(s1) /\ MarlGrid!Ids(s1) = MarlIds(s1) /\ MarlGrid!M!Cells(s1.size, s1.size) = MarlCells(s1)
      /\ \A c \in DOMAIN s2 :
           /\ c[1] \in {0, s1.size - 1} \/ c[2] \in {0, s1.size - 1} => s2[c].type = "wall"
           /\ s2[c].type = "bonus" => s2[c].id \in 0 .. s1.bonusTiles - 1
  BY <1>1, MarlNumbers DEF GoodGrid
<1>4. s4 \in [MarlCells(s1) -> Seq(MarlIds(s1))] /\ s3 \in [MarlIds(s1) -> MarlAgent(s1)]
  BY <1>1, <1>2, PlacingFields
<1>5. ASSUME NEW a \in MarlIds(s1)
      PROVE  /\ s3[a].at \in MarlCells(s1) /\ s2[s3[a].at].type # "wall"
             /\ \A c \in MarlCells(s1) : (Member(s4[c], a) <=> c = s3[a].at) /\ Once(s4[c], a)
             /\ s1.ghost \/ s4[s3[a].at] = <<a>>
             /\ s3[a].active \/ s3[a].done
  BY <1>1, <1>2 DEF InPlace
<1>6. s3 \in [MarlIds(s1) -> [done : BOOLEAN, at : MarlCells(s1), dir : 0..3, active : BOOLEAN, bonus : Int]]
  <2>1. SUFFICES ASSUME NEW a \in MarlIds(s1)
        PROVE  s3[a] \in [done : BOOLEAN, at : MarlCells(s1), dir : 0..3, active : BOOLEAN, bonus : Int]
    BY <1>4
  <2>2. s3[a] \in MarlAgent(s1) /\ s3[a].at \in MarlCells(s1) BY <1>4, <1>5
  <2> QED BY <2>2 DEF MarlAgent
<1>7. MarlGrid!AgentsInPlace
  <2>1. SUFFICES ASSUME NEW a \in MarlIds(s1)
        PROVE  /\ {c \in MarlCells(s1) : MarlGrid!Contains(s4[c], a)} = {s3[a].at}
               /\ s2[s3[a].at].type # "wall"
               /\ MarlGrid!IsInjective(s4[s3[a].at])
               /\ s1.ghost \/ s4[s3[a].at] = <<a>>
    BY <1>3, <1>4 DEF MarlGrid!AgentsInPlace
  <2>2. \A c \in MarlCells(s1) : MarlGrid!Contains(s4[c], a) <=> c = s3[a].at
    BY <1>5 DEF MarlGrid!Contains, Member
  <2>3. MarlGrid!IsInjective(s4[s3[a].at])
    <3>1. PICK s \in Seq(MarlIds(s1)) : s = s4[s3[a].at] BY <1>4, <1>5
    <3>2. \A b \in MarlIds(s1) : Once(s, b) BY <1>5, <3>1
    <3>3. SUFFICES ASSUME NEW i \in 1..Len(s), NEW j \in 1..Len(s), s[i] = s[j] PROVE i = j
      BY <3>1 DEF MarlGrid!IsInjective
    <3>4. s[i] \in MarlIds(s1) OBVIOUS
    <3> QED BY <3>2, <3>3, <3>4 DEF Once
  <2> QED BY <1>5, <2>2, <2>3
<1>8. \A a \in MarlIds(s1) : s3[a].active \/ s3[a].done BY <1>5
<1> QED BY <1>1, <1>3, <1>4, <1>6, <1>7, <1>8 DEF MarlGrid!IInv

LEMMA IInvIsSound ==
  ASSUME MarlGrid!IInv
  PROVE  AllSound(s1, s2, s3, s4)
<1> DEFINE p == MarlGrid!Place(s3, s4, MarlGrid!NoPay(s1))
           A == [done : BOOLEAN, at : DOMAIN s2, dir : 0..3, active : BOOLEAN, bonus : Int]
<1>1. /\ s1 \in MarlConfigs /\ DOMAIN s2 = MarlGrid!M!Cells(s1.size, s1.size)
      /\ \A c \in DOMAIN s2 :
           /\ c[1] \in {0, s1.size - 1} \/ c[2] \in {0, s1.size - 1} => s2[c].type = "wall"
           /\ s2[c].type = "bonus" => s2[c].id \in 0 .. s1.bonusTiles - 1
      /\ s4 \in [DOMAIN s2 -> Seq(MarlGrid!Ids(s1))] /\ s3 \in [MarlGrid!Ids(s1) -> A]
      /\ \A a \in MarlGrid!Ids(s1) : s3[a].active \/ s3[a].done
      /\ MarlGrid!AgentsInPlace
  BY DEF MarlGrid!IInv
<1>2. /\ MarlGrid!Ids(s1) = MarlIds(s1) /\ DOMAIN s2 = MarlCells(s1)
  BY <1>1, MarlNumbers
<1>3. GoodGrid(s1, s2) BY <1>1, <1>2 DEF GoodGrid
<1>4. p.here = s4 /\ p.agents = s3 BY DEF MarlGrid!Place
<1>5. p \in Placings(s1)
  <2>1. A \subseteq MarlAgent(s1) BY <1>2 DEF MarlAgent
  <2> HIDE DEF A
  <2>2. s3 \in [MarlIds(s1) -> MarlAgent(s1)] BY <1>1, <1>2, <2>1
  <2>3. MarlGrid!NoPay(s1) \in [MarlIds(s1) -> Int] BY <1>2 DEF MarlGrid!NoPay
  <2>4. s4 \in [MarlCells(s1) -> Seq(MarlIds(s1))] BY <1>1, <1>2
  <2> QED BY <2>2, <2>3, <2>4 DEF Placings, MarlGrid!Place
<1>6. ASSUME NEW a \in MarlIds(s1) PROVE InPlace(s1, s2, p, a)
  <2> DEFINE at == s3[a].at
  <2>1. at \in MarlCells(s1) BY <1>1, <1>2
  <2>2. /\ {c \in DOMAIN s4 : MarlGrid!Contains(s4[c], a)} = {at}
        /\ s2[at].type # "wall" /\ MarlGrid!IsInjective(s4[at])
        /\ s1.ghost \/ s4[at] = <<a>>
    BY <1>1, <1>2 DEF MarlGrid!AgentsInPlace
  <2> HIDE DEF at
  <2>3. DOMAIN s4 = MarlCells(s1) BY <1>1, <1>2
  <2>4. \A c \in MarlCells(s1) : Member(s4[c], a) <=> c = at BY <2>2, <2>3 DEF Member, MarlGrid!Contains
  <2>5. \A c \in MarlCells(s1) : Once(s4[c], a)
    <3>1. SUFFICES ASSUME NEW c \in MarlCells(s1) PROVE Once(s4[c], a) OBVIOUS
    <3>2. CASE c = at
      <4>1. s4[c] \in Seq(MarlIds(s1)) BY <1>1, <1>2
      <4>2. DOMAIN s4[c] = 1..Len(s4[c]) BY <4>1
      <4> QED BY <2>2, <3>2, <4>2 DEF MarlGrid!IsInjective, Once
    <3>3. CASE c # at BY <2>4, <3>3 DEF Member, Once
    <3> QED BY <3>2, <3>3
  <2> QED BY <1>4, <2>1, <2>2, <2>4, <2>5 DEF InPlace, at
<1>7. \A a \in MarlIds(s1) : p.agents[a].active \/ p.agents[a].done BY <1>1, <1>2, <1>4
<1>8. AllPlaced(s1, s2, p) BY <1>5, <1>6, <1>7 DEF AllPlaced
<1> QED BY <1>1, <1>3, <1>8 DEF AllSound

LEMMA PlacedIsSound ==
  ASSUME NEW o \in MarlConfigs, NEW g, GoodGrid(o, g), NEW p, AllPlaced(o, g, p)
  PROVE  AllSound(o, g, p.agents, p.here)
<1> DEFINE q == MarlGrid!Place(p.agents, p.here, MarlGrid!NoPay(o))
<1>1. q.here = p.here /\ q.agents = p.agents BY DEF MarlGrid!Place
<1>2. q \in Placings(o)
  <2>1. MarlGrid!NoPay(o) \in [MarlIds(o) -> Int] BY MarlNumbers DEF MarlGrid!NoPay
  <2>2. /\ p.here \in [MarlCells(o) -> Seq(MarlIds(o))] /\ p.agents \in [MarlIds(o) -> MarlAgent(o)]
    BY PlacingFields DEF AllPlaced
  <2> QED BY <2>1, <2>2 DEF Placings, MarlGrid!Place
<1>3. \A a \in MarlIds(o) : InPlace(o, g, q, a) /\ (q.agents[a].active \/ q.agents[a].done)
  BY <1>1 DEF AllPlaced, InPlace
<1> QED BY <1>2, <1>3 DEF AllPlaced, AllSound

\* A new episode puts everybody in place.
LEMMA EpisodeIsSound ==
  ASSUME NEW o \in MarlConfigs, NEW g \in MarlGrid!GenGrid(o),
         NEW p \in MarlGrid!PutAll(o, g, MarlGrid!AsLeft(o), MarlGrid!Ids(o))
  PROVE  AllSound(o, g, p.agents, p.here)
<1> DEFINE left == MarlGrid!AsLeft(o)
<1>1. /\ MarlGrid!Ids(o) = MarlIds(o) /\ MarlGrid!M!Cells(o.size, o.size) = MarlCells(o) BY MarlNumbers
<1>2. left \in Placings(o) /\ \A a \in MarlIds(o) : Absent(o, left, a)
  <2> DEFINE as == [a \in MarlIds(o) |-> MarlGrid!Nowhere]
             cells == [c \in MarlCells(o) |-> <<>>]
  <2>1. left = [here |-> cells, agents |-> as, pay |-> MarlGrid!NoPay(o)]
    BY <1>1 DEF MarlGrid!AsLeft, MarlGrid!Place
  <2>2. MarlGrid!Nowhere \in MarlAgent(o) BY DEF MarlGrid!Nowhere, MarlAgent
  <2>3. as \in [MarlIds(o) -> MarlAgent(o)] BY <2>2
  <2>4. <<>> \in Seq(MarlIds(o)) OBVIOUS
  <2>5. cells \in [MarlCells(o) -> Seq(MarlIds(o))] BY <2>4
  <2>6. MarlGrid!NoPay(o) \in [MarlIds(o) -> Int] BY <1>1 DEF MarlGrid!NoPay
  <2> HIDE DEF as
  <2>7. left \in Placings(o)
    <3> HIDE DEF cells, left
    <3> QED BY <2>1, <2>3, <2>5, <2>6 DEF Placings
  <2>8. left.here = cells BY <2>1
  <2> HIDE DEF left
  <2>9. \A c \in MarlCells(o) : left.here[c] = <<>> BY <2>8
  <2> QED BY <2>7, <2>9 DEF Absent, Member
<1>3. AllPlaced(o, g, p) BY <1>1, <1>2, AllArePut
<1>4. GoodGrid(o, g) BY GenGridIsGood
<1> QED BY <1>3, <1>4, PlacedIsSound

LEMMA MarlGridInitInv ==
  ASSUME MarlGrid!Init
  PROVE  MarlGrid!IInv
<1>1. PICK o \in MarlConfigs : \E g \in MarlGrid!GenGrid(o) :
        \E p \in MarlGrid!PutAll(o, g, MarlGrid!AsLeft(o), MarlGrid!Ids(o)) :
          s1 = o /\ s2 = g /\ s3 = p.agents /\ s4 = p.here
  BY DEF MarlGrid!Init
<1>2. AllSound(s1, s2, s3, s4) BY <1>1, EpisodeIsSound
<1> QED BY <1>2, SoundIsIInv

LEMMA SoundIsIInvNext ==
  ASSUME AllSound(s1, s2, s3, s4)'
  PROVE  MarlGrid!IInv'
<1>1. AllSound(s1, s2, s3, s4)' => MarlGrid!IInv' BY SoundIsIInv, PTL
<1> QED BY <1>1

LEMMA MarlGridResetInv ==
  ASSUME MarlGrid!IInv, MarlGrid!Reset
  PROVE  MarlGrid!IInv'
<1>1. s1 \in MarlConfigs BY DEF MarlGrid!IInv
<1>2. PICK g \in MarlGrid!GenGrid(s1) : \E p \in MarlGrid!PutAll(s1, g, MarlGrid!AsLeft(s1), MarlGrid!Ids(s1)) :
        s1' = s1 /\ s2' = g /\ s3' = p.agents /\ s4' = p.here
  BY DEF MarlGrid!Reset
<1>3. AllSound(s1', s2', s3', s4') BY <1>1, <1>2, EpisodeIsSound
<1> QED BY <1>3, SoundIsIInvNext

\* Nobody is put back at the beginning of a step; those who are done are at its end.
LEMMA MarlGridStepInv ==
  ASSUME MarlGrid!IInv, NEW act, NEW order \in MarlGrid!Orders(s1), MarlGrid!Step(act, order)
  PROVE  MarlGrid!IInv'
<1> DEFINE now == MarlGrid!Place(s3, s4, MarlGrid!NoPay(s1))
<1>1. s1 \in MarlConfigs /\ GoodGrid(s1, s2) /\ AllPlaced(s1, s2, now) BY IInvIsSound DEF AllSound
<1>2. {a \in MarlGrid!Ids(s1) : ~s3[a].active /\ ~s3[a].done} = {} BY DEF MarlGrid!IInv
<1>3. now \in Placings(s1) BY <1>1 DEF AllPlaced
<1> HIDE DEF now
<1>4. MarlGrid!PutAll(s1, s2, now, {}) = {now} BY <1>1, <1>3, NobodyIsPut
<1>5. order \in [1 .. s1.agents -> MarlIds(s1)] BY <1>1, MarlNumbers DEF MarlGrid!Orders
<1>6. PICK q \in MarlGrid!RetiredAll(s1, s2, MarlGrid!Acted(s1, s2, now, act, order)) :
        s3' = q.agents /\ s4' = q.here /\ s1' = s1 /\ s2' = s2
  BY <1>2, <1>4 DEF MarlGrid!Step, now
<1>7. AllPlaced(s1, s2, MarlGrid!Acted(s1, s2, now, act, order)) BY <1>1, <1>5, AllHaveActed
<1>8. AllPlaced(s1, s2, q) BY <1>1, <1>6, <1>7, AllHaveRetired
<1>9. AllSound(s1', s2', s3', s4') BY <1>1, <1>6, <1>8, PlacedIsSound
<1> QED BY <1>9, SoundIsIInvNext

----------------------------------------------------------------------------
(* Whichever game is played *)

LEMMA InitInv ==
  ASSUME TeamInit
  PROVE  IInv
<1>1. ASSUME game = "Cleaner" PROVE Cleaner!IInv
  <2>1. Cleaner!Init BY <1>1, Zenon DEF TeamInit
  <2> QED BY <2>1, CleanerInitInv
<1>2. ASSUME game = "Connector" PROVE Connector!IInv
  <2>1. Connector!Init BY <1>2, Zenon DEF TeamInit
  <2> QED BY <2>1, ConnectorInitInv
<1>3. ASSUME game = "RobotWarehouse" PROVE RobotWarehouse!IInv
  <2>1. RobotWarehouse!Init BY <1>3, Zenon DEF TeamInit
  <2> QED BY <2>1, WarehouseInitInv
<1>4. ASSUME game = "Foraging" PROVE Foraging!IInv
  <2>1. Foraging!Init BY <1>4, Zenon DEF TeamInit
  <2> QED BY <2>1, ForagingInitInv
<1>5. ASSUME game = "JobShop" PROVE JobShop!IInv
  <2>1. JobShop!Init BY <1>5, Zenon DEF TeamInit
  <2> QED BY <2>1, JobShopInitInv
<1>6. ASSUME game = "Fleet" PROVE Fleet!IInv
  <2>1. Fleet!Init BY <1>6, Zenon DEF TeamInit
  <2> QED BY <2>1, FleetInitInv
<1>7. ASSUME game = "MarlGrid" PROVE MarlGrid!IInv
  <2>1. MarlGrid!Init BY <1>7, Zenon DEF TeamInit
  <2> QED BY <2>1, MarlGridInitInv
<1> QED BY <1>1, <1>2, <1>3, <1>4, <1>5, <1>6, <1>7, Zenon DEF IInv

\* A step of a game, if it is played, and a step that changes nothing.
LEMMA NextInv ==
  ASSUME IInv, TeamNext
  PROVE  IInv'
<1>0. game' = game BY DEF TeamNext
<1>1. ASSUME game = "Cleaner" PROVE Cleaner!IInv'
  <2>1. Cleaner!IInv BY <1>1 DEF IInv
  <2>2. Cleaner!Next BY <1>1, Zenon DEF TeamNext
  <2>3. CASE Cleaner!Reset BY <2>1, <2>3, CleanerResetInv
  <2>4. CASE \E action \in [Cleaner!Agents -> Cleaner!Actions] : Cleaner!Step(action) BY <2>1, <2>4, CleanerStepInv
  <2> QED BY <2>2, <2>3, <2>4 DEF Cleaner!Next
<1>2. ASSUME game = "Connector" PROVE Connector!IInv'
  <2>1. Connector!IInv BY <1>2 DEF IInv
  <2>2. Connector!Next BY <1>2, Zenon DEF TeamNext
  <2>3. CASE Connector!Reset BY <2>1, <2>3, ConnectorResetInv
  <2>4. CASE \E action : Connector!Step(action) BY <2>1, <2>4, ConnectorStepInv
  <2> QED BY <2>2, <2>3, <2>4 DEF Connector!Next
<1>3. ASSUME game = "RobotWarehouse" PROVE RobotWarehouse!IInv'
  <2>1. RobotWarehouse!IInv BY <1>3 DEF IInv
  <2>2. RobotWarehouse!Next BY <1>3, Zenon DEF TeamNext
  <2>3. CASE RobotWarehouse!Reset BY <2>1, <2>3, WarehouseResetInv
  <2>4. CASE \E action \in [RobotWarehouse!Agents -> RobotWarehouse!AgentActions] : RobotWarehouse!Step(action) BY <2>1, <2>4, WarehouseStepInv
  <2> QED BY <2>2, <2>3, <2>4 DEF RobotWarehouse!Next
<1>4. ASSUME game = "Foraging" PROVE Foraging!IInv'
  <2>1. Foraging!IInv BY <1>4 DEF IInv
  <2>2. Foraging!Next BY <1>4, Zenon DEF TeamNext
  <2>3. CASE Foraging!Reset BY <2>1, <2>3, ForagingResetInv
  <2>4. CASE \E action : Foraging!Step(action) BY <2>1, <2>4, ForagingStepInv
  <2> QED BY <2>2, <2>3, <2>4 DEF Foraging!Next
<1>5. ASSUME game = "JobShop" PROVE JobShop!IInv'
  <2>1. JobShop!IInv BY <1>5 DEF IInv
  <2>2. JobShop!Next BY <1>5, Zenon DEF TeamNext
  <2>3. CASE JobShop!Reset BY <2>1, <2>3, JobShopResetInv
  <2>4. CASE \E action : JobShop!Step(action) BY <2>1, <2>4, JobShopStepInv
  <2> QED BY <2>2, <2>3, <2>4 DEF JobShop!Next
<1>6. ASSUME game = "Fleet" PROVE Fleet!IInv'
  <2>1. Fleet!IInv BY <1>6 DEF IInv
  <2>2. Fleet!Next BY <1>6, Zenon DEF TeamNext
  <2>3. CASE Fleet!Reset BY <2>1, <2>3, FleetResetInv
  <2>4. CASE \E action \in [Fleet!Vehicles -> Fleet!Nodes] : Fleet!Step(action) BY <2>1, <2>4, FleetStepInv
  <2> QED BY <2>2, <2>3, <2>4 DEF Fleet!Next
<1>7. ASSUME game = "MarlGrid" PROVE MarlGrid!IInv'
  <2>1. MarlGrid!IInv BY <1>7 DEF IInv
  <2>2. MarlGrid!Next BY <1>7, Zenon DEF TeamNext
  <2>3. CASE MarlGrid!Reset BY <2>1, <2>3, MarlGridResetInv
  <2>4. CASE \E act : \E order \in MarlGrid!Orders(s1) : MarlGrid!Step(act, order)
    BY <2>1, <2>4, MarlGridStepInv
  <2> QED BY <2>2, <2>3, <2>4 DEF MarlGrid!Next
<1> QED BY <1>0, <1>1, <1>2, <1>3, <1>4, <1>5, <1>6, <1>7, Zenon DEF IInv

LEMMA StutterInv ==
  ASSUME IInv, UNCHANGED vars
  PROVE  IInv'
<1>0. /\ game' = game /\ s1' = s1 /\ s2' = s2 /\ s3' = s3 /\ s4' = s4 /\ s5' = s5 /\ s6' = s6
  BY DEF vars
<1>1. ASSUME Cleaner!IInv PROVE Cleaner!IInv' BY <1>0, <1>1 DEF Cleaner!IInv, Cleaner!AgentsOnClean
<1>2. ASSUME Connector!IInv PROVE Connector!IInv'
  <2>1. s1 \in ConnectorSize.layouts BY <1>2 DEF Connector!IInv
  <2> QED BY <1>0, <1>2, <2>1, ConnectorIsWiring, ConnectorIsWiringNext
<1>3. ASSUME RobotWarehouse!IInv PROVE RobotWarehouse!IInv'
  BY <1>0, <1>3 DEF RobotWarehouse!IInv, RobotWarehouse!RobotsApart
<1>4. ASSUME Foraging!IInv PROVE Foraging!IInv' BY <1>0, <1>4 DEF Foraging!IInv, Foraging!EntitiesApart
<1>5. ASSUME JobShop!IInv PROVE JobShop!IInv'
  BY <1>0, <1>5, JobShopInv, JobShopSame
<1>6. ASSUME Fleet!IInv PROVE Fleet!IInv' BY <1>0, <1>6 DEF Fleet!IInv, Fleet!LoadsFit, Fleet!Nodes
<1>7. ASSUME MarlGrid!IInv PROVE MarlGrid!IInv'
  <2>1. AllSound(s1', s2', s3', s4') BY <1>0, <1>7, IInvIsSound
  <2> QED BY <2>1, SoundIsIInvNext
<1> QED BY <1>0, <1>1, <1>2, <1>3, <1>4, <1>5, <1>6, <1>7, Zenon DEF IInv

\* Whichever game is played, Reset and Step (of cleaner_env.h, connector_env.h,
\* robot_warehouse_env.h, level_based_foraging_env.h, job_shop_env.h, multi_cvrp_env.h and
\* marlgrid.h) keep its invariant, for any sizes, numbers of agents, orders of turns and starts,
\* the configured ones too, of which SizesAssumption names what their caller has to see to.
THEOREM TeamsInductive == TeamSpec => []IInv
<1>1. TeamInit => IInv BY InitInv
<1>2. IInv /\ [TeamNext]_vars => IInv'
  <2>1. IInv /\ TeamNext => IInv' BY NextInv
  <2>2. IInv /\ UNCHANGED vars => IInv' BY StutterInv
  <2> QED BY <2>1, <2>2
<1> QED BY <1>1, <1>2, PTL DEF TeamSpec

\* So agents that move in one step never come to share what only one may have: a wall, a
\* cell, food or a job, and no vehicle takes more than it has left.  A behaviour of Environments that plays one
\* of these games is a behaviour of TeamSpec.
THEOREM AgentsStayApart == TeamSpec => []AgentsKeepApart
<1>1. IInv => AgentsKeepApart
  BY DEF IInv, AgentsKeepApart, Cleaner!IInv, Connector!IInv, RobotWarehouse!IInv, Foraging!IInv,
         JobShop!IInv, Fleet!IInv, MarlGrid!IInv
<1> QED BY <1>1, TeamsInductive, PTL
=============================================================================
