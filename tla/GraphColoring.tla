--------------------------- MODULE GraphColoring ---------------------------
(* jumanji/graph_coloring_env.h: the nodes are coloured in order; the mask of the
   next one is computed ahead and judges the next action. *)
EXTENDS Integers, FiniteSets

CONSTANT NumNodes     \* kNumNodes

VARIABLES adj, colors, currentNode, actionMask, reward, done
vars == <<adj, colors, currentNode, actionMask, reward, done>>

Nodes == 0..(NumNodes - 1)
Uncolored == [n \in Nodes |-> -1]
Graphs == SUBSET {e \in SUBSET Nodes : Cardinality(e) = 2}

ValidActions(g, c, node) == Nodes \ {c[other] : other \in {n \in Nodes : {node, n} \in g /\ n # node}}

\* Mutation: the mask is computed for the node just coloured.
NextMaskSameNode(c) == ValidActions(adj, c, currentNode)
NextMask(c) == ValidActions(adj, c, (currentNode + 1) % NumNodes)

Init ==
  /\ adj \in Graphs /\ colors = Uncolored /\ currentNode = 0
  /\ actionMask = ValidActions(adj, colors, 0)
  /\ reward = 0 /\ done = FALSE

\* Mutation: a reset keeps the mask of the last episode.
MaskAtResetOld(g) == actionMask
MaskAtReset(g) == ValidActions(g, Uncolored, 0)

Reset ==
  /\ adj' \in Graphs /\ colors' = Uncolored /\ currentNode' = 0
  /\ actionMask' = MaskAtReset(adj')
  /\ reward' = 0 /\ done' = FALSE

Step(color) ==
  LET invalid == color \notin actionMask
      allColored == \A n \in Nodes : colors'[n] >= 0
  IN  /\ ~done
      /\ colors' = [colors EXCEPT ![currentNode] = color]
      /\ reward' = IF invalid THEN -NumNodes
                   ELSE IF allColored THEN -Cardinality({colors'[n] : n \in Nodes}) ELSE 0
      /\ done' = (invalid \/ allColored)
      /\ currentNode' = (currentNode + 1) % NumNodes
      /\ actionMask' = NextMask(colors')
      /\ UNCHANGED adj

Next == Reset \/ \E color \in Nodes : Step(color)

----------------------------------------------------------------------------
\* The mask that was computed a step ahead keeps the colouring proper: only an
\* episode that was ended as invalid has two neighbours of a colour, and one that
\* goes on always has a colour to take.
ColoringIsProper ==
  LET proper == \A e \in adj : \A n, m \in e : n # m /\ colors[n] >= 0 => colors[n] # colors[m]
  IN  /\ ~done => proper /\ actionMask # {}
      /\ done /\ reward > -NumNodes => proper

\* An action is refused exactly when it gives two neighbours the same colour, also
\* in the first step of an episode, whose mask the reset computed.
RefusedOnlyIfImproper ==
  done' /\ ~done /\ (\E left \in Nodes : colors'[left] = -1) =>
    \E e \in adj : \E n, m \in e : n # m /\ colors'[n] = colors'[m] /\ colors'[n] >= 0
============================================================================
