------------------------------- MODULE BabyAI -------------------------------
(* The missions of BabyAI: what the verifier of an instruction remembers between steps
   and when it says that a mission is done (babyai_core.cc, babyai_instr.cc).  A mission
   is a sequence of one or two groups, in the order in which they have to be done
   (Before; After is Before with its parts swapped), and a group has one action or two
   (And). *)
EXTENDS MiniGridLevels

CONSTANTS
  Missions,     \* for each task the set of what GenGrid accepts of what GenMission returns
  DoneActions,  \* kUseDoneActions: the agent itself has to say that it is done
  Timeouts      \* whether a step may be the last that max_steps_ allows: BOOLEAN or {FALSE}

VARIABLES level, world, verifier, happened, reward, done
vars == <<level, world, verifier, happened, reward, done>>

----------------------------------------------------------------------------
\* ResetVerifier of one action.
Verifier(l, a) ==
  LET uids == Meant(l, a.what)
      to == Meant(l, a.where)
  IN  [action |-> a, uids |-> uids, poss |-> Found(l.first.grid, a.what, uids),
       to |-> to, toPoss |-> Found(l.first.grid, a.where, to),
       held |-> Empty, matched |-> FALSE, status |-> "continue"]
Verifiers(l) == [g \in DOMAIN l.mission |-> [i \in DOMAIN l.mission[g] |-> Verifier(l, l.mission[g][i])]]

----------------------------------------------------------------------------
\* Mutation: a thing is looked for where it was at the reset.
FoundAtReset(v, w, act) == v

\* UpdateObjPoss, after a drop.
Updated(v, w, act) ==
  IF act = "drop"
  THEN [v EXCEPT !.poss = Found(w.grid, v.action.what, v.uids), !.toPoss = Found(w.grid, v.action.where, v.to)]
  ELSE v

\* Mutation: PutNext goes by what was carried, like Pickup.
MetByHand(v, act, carried, w) ==
  LET front == w.grid[FrontPos(w)]
  IN  CASE v.action.kind = "goto" -> \E p \in v.poss : p[1] = FrontPos(w)
        [] v.action.kind = "pickup" ->
             act = "pickup" /\ carried = Empty /\ w.carrying # Empty /\ w.carrying.uid \in v.uids
        [] v.action.kind = "open" -> act = "toggle" /\ front.door = "open" /\ front.uid \in v.uids
        [] v.action.kind = "putnext" ->
             /\ act = "drop" /\ carried # Empty /\ carried.uid \in v.uids
             /\ \E p \in v.poss, q \in v.toPoss : p[2] = carried.uid /\ q[1] \in Beside4(p[1])

\* VerifyAction says success; carried is what the agent carried before the step, held
\* what PutNext saw it carry the last time it was asked.
Met(v, act, carried, w) ==
  LET front == w.grid[FrontPos(w)]
  IN  CASE v.action.kind = "goto" -> \E p \in v.poss : p[1] = FrontPos(w)
        [] v.action.kind = "pickup" ->
             act = "pickup" /\ carried = Empty /\ w.carrying # Empty /\ w.carrying.uid \in v.uids
        [] v.action.kind = "open" -> act = "toggle" /\ front.door = "open" /\ front.uid \in v.uids
        [] v.action.kind = "putnext" ->
             /\ act = "drop" /\ v.held # Empty /\ v.held.uid \in v.uids
             /\ \E p \in v.poss, q \in v.toPoss : p[2] = v.held.uid /\ q[1] \in Beside4(p[1])

\* VerifyAction says failure.  Only an action can be strict: every task leaves the pairs
\* Before and After unstrict, and their failures are not modelled.
Missed(v, act, w) ==
  /\ v.action.strict
  /\ CASE v.action.kind = "open" -> act = "toggle" /\ w.grid[FrontPos(w)].type = "door"
       [] v.action.kind \in {"pickup", "putnext"} -> act = "pickup" /\ w.carrying # Empty
       [] OTHER -> FALSE

Judgement(v, act, carried, w) ==
  IF Met(v, act, carried, w) THEN "success" ELSE IF Missed(v, act, w) THEN "failure" ELSE "continue"

\* Verify of BabyAIActionInstr.
VerifiedAction(v, act, carried, w) ==
  LET judgement == Judgement(v, act, carried, w)
      holding == IF v.action.kind = "putnext" THEN w.carrying ELSE Empty
  IN  IF DoneActions /\ act = "done" THEN [v EXCEPT !.status = IF v.matched THEN "success" ELSE "failure"]
      ELSE IF DoneActions THEN [v EXCEPT !.held = holding, !.matched = (judgement = "success"), !.status = "continue"]
      ELSE [v EXCEPT !.held = holding, !.status = judgement]

\* Mutation: an action of a pair is asked again after it was done.
VerifiedForgetting(group, act, carried, w) ==
  [i \in DOMAIN group |-> VerifiedAction(group[i], act, carried, w)]

\* Verify of one action or of BabyAIAndInstr: what was done stays done.
Verified(group, act, carried, w) ==
  [i \in DOMAIN group |->
     IF group[i].status = "success" THEN group[i] ELSE VerifiedAction(group[i], act, carried, w)]

IsDone(group) == \A i \in DOMAIN group : group[i].status = "success"
HasFailed(group, act) ==
  /\ \A i \in DOMAIN group : group[i].status = "failure"
  /\ Len(group) = 1 \/ (DoneActions /\ act = "done")

\* Mutation: the second group is asked from the start.
AskedAtOnce(groups, act, carried, w) == [g \in DOMAIN groups |-> Verified(groups[g], act, carried, w)]

\* Verify of the mission: the second group is asked once the first is done, in the step
\* that does it and in every later one.
Asked(groups, act, carried, w) ==
  LET first == IF IsDone(groups[1]) THEN groups[1] ELSE Verified(groups[1], act, carried, w)
  IN  [g \in DOMAIN groups |->
         IF g = 1 THEN first ELSE IF IsDone(first) THEN Verified(groups[g], act, carried, w) ELSE groups[g]]

----------------------------------------------------------------------------
\* What an action asks for happens in a step, told from the grid and the hand.  To face
\* the place that a thing was taken from is to have gone to it.
Happens(v, act, before, after) ==
  LET front == after.grid[FrontPos(after)]
  IN  CASE v.action.kind = "goto" ->
             \/ front.uid \in v.uids
             \/ \E p \in v.poss : p[1] = FrontPos(after) /\ Places(after, p[2]) \in {{}, {<<"carried">>}}
        [] v.action.kind = "pickup" -> before.carrying = Empty /\ after.carrying.uid \in v.uids \ {-1}
        [] v.action.kind = "open" -> act = "toggle" /\ front.door = "open" /\ front.uid \in v.uids
        [] v.action.kind = "putnext" ->
             /\ before.carrying # Empty /\ after.carrying = Empty /\ before.carrying.uid \in v.uids
             /\ \E c \in Beside4(FrontPos(after)) : after.grid[c].uid \in v.to

\* The actions of the mission that have happened when their turn had come: history.  The
\* drop that ends the first group is not one that the second group asks for, as PutNext
\* has not yet seen what was carried.
Ids(groups, g) == {<<g, i>> : i \in DOMAIN groups[g]}
AllIds(groups) == UNION {Ids(groups, g) : g \in DOMAIN groups}
Later(groups, act, before, after) ==
  LET of(g) == {x \in Ids(groups, g) : Happens(groups[g][x[2]], act, before, after)}
      first == happened \cup of(1)
      Waiting(x) == groups[2][x[2]].action.kind = "putnext" /\ ~Ids(groups, 1) \subseteq happened
  IN  IF Len(groups) = 2 /\ Ids(groups, 1) \subseteq first THEN first \cup {x \in of(2) : ~Waiting(x)} ELSE first

Started(l) ==
  /\ level = l /\ world = l.first /\ verifier = Verifiers(l)
  /\ happened = {} /\ reward = 0 /\ done = FALSE

Init == \E task \in Missions : \E l \in task : Started(l)

Reset ==
  \E l \in UNION {task \in Missions : level \in task} :
    /\ done
    /\ level' = l /\ world' = l.first /\ verifier' = Verifiers(l)
    /\ happened' = {} /\ reward' = 0 /\ done' = FALSE

\* Step with the AfterStep of BabyAILevelTask.
Step(act) ==
  LET after == Acted(world, act)
      current == [g \in DOMAIN verifier |-> [i \in DOMAIN verifier[g] |-> Updated(verifier[g][i], after, act)]]
      asked == Asked(current, act, world.carrying, after)
      won == \A g \in DOMAIN asked : IsDone(asked[g])
      lost == \E g \in DOMAIN asked : HasFailed(asked[g], act) /\ (g = 1 \/ IsDone(asked[1]))
  IN  /\ ~done
      /\ world' = after /\ verifier' = asked
      /\ happened' = Later(current, act, world, after)
      /\ reward' = IF won THEN 1 ELSE 0
      /\ \E timeout \in Timeouts : done' = (won \/ lost \/ timeout)
      /\ UNCHANGED level

Next == Reset \/ \E act \in Acts : Step(act)

----------------------------------------------------------------------------
\* Nothing is lost or doubled, and locked rooms are only entered with their keys.
WorldStaysWhole ==
  /\ AllInPlace(level.first, world)
  /\ LocksHold(level.first, level.home, world)

\* Although positions are only looked up again after a drop, the verifier knows where
\* every thing it means is, and a position it has wrong is of a thing in the hand or of a
\* box that was opened.
PositionsKnown ==
  \A g \in DOMAIN verifier : \A i \in DOMAIN verifier[g] :
    LET v == verifier[g][i]
        Known(desc, uids, poss) ==
          /\ Found(world.grid, desc, uids) \subseteq poss
          /\ \A p \in poss \ Found(world.grid, desc, uids) :
               world.carrying.uid = p[2] \/ Places(world, p[2]) = {}
    IN  Known(v.action.what, v.uids, v.poss) /\ Known(v.action.where, v.to, v.toPoss)

\* A mission that has been done in its order is found to be done.
SuccessIsSeen ==
  (~done /\ ~DoneActions) => happened # AllIds(verifier)

\* What is paid for has been done, each group after the one before it.
PaidInOrder == (~done /\ reward' = 1) => happened' = AllIds(verifier')
=============================================================================
