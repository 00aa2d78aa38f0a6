------------------------------- MODULE Players -------------------------------
(***************************************************************************)
(* Whose action is whose, in a pool whose envs have several players: from  *)
(* the arrays of a recv, over the Python layer, which fills in             *)
(* players.env_id when the caller leaves it out (python/envpool.py), to    *)
(* Env::ParseAction, which picks the rows of one env out of the batch      *)
(* (core/env.h).                                                           *)
(*                                                                         *)
(* A row of an action is the pair <<env, player>> it was meant for; the    *)
(* code never sees that pair, it only sees the mapping.  The threads of    *)
(* the pool are module AsyncEnvPool: here a send, one env's step and a     *)
(* recv are one action each.                                               *)
(***************************************************************************)
EXTENDS Integers, FiniteSets, Sequences, SequencesExt

CONSTANTS
  Envs,
  MaxNumPlayers,     \* max_num_players
  Batches,           \* the values of batch_size
  Nothing            \* no array

ASSUME ConstantsAssumption ==
  /\ IsFiniteSet(Envs)
  /\ MaxNumPlayers \in Nat \ {0}
  /\ Batches \subseteq Nat \ {0}
  /\ Nothing \notin Seq(Envs)

VARIABLES
  batch,               \* batch_size
  players,             \* each env: how many players its last state has
  stage,               \* each env: with the driver, asked, or reported
  lastPlayersEnvId,    \* _last_players_env_id
  lastEnvId,           \* the info:env_id of the same recv
  actionBatch,         \* Env: the action SetAction left
  parsed,              \* what the last ParseAction gave to Step, and what was due
  refused              \* the last send raised, and could have been inferred

vars == <<batch, players, stage, lastPlayersEnvId, lastEnvId, actionBatch, parsed, refused>>

\* An env reports no players when all are dead.
Counts == 0..MaxNumPlayers
Lists == UNION {{l \in [1..n -> Envs] : \A j, k \in 1..n : l[j] = l[k] => j = k}
                  : n \in 1..Cardinality(Envs)}

Init ==
  /\ batch \in Batches
  /\ players = [e \in Envs |-> 0]
  /\ stage = [e \in Envs |-> "asked"]           \* by async_reset
  /\ lastPlayersEnvId = Nothing /\ lastEnvId = <<>>
  /\ actionBatch = [e \in Envs |-> Nothing]
  /\ parsed = [e \in Envs |-> Nothing]
  /\ refused = FALSE

----------------------------------------------------------------------------
(* The caller and the Python layer *)

\* The actions of the players of the envs l, env by env or player by player.
RowsByEnv(l) == FlattenSeq([j \in DOMAIN l |-> [k \in 1..players[l[j]] |-> <<l[j], k>>]])
RowsByPlayer(l) ==
  FlattenSeq([k \in 1..MaxNumPlayers |->
    FlattenSeq([j \in DOMAIN l |-> IF k <= players[l[j]] THEN <<<<l[j], k>>>> ELSE <<>>])])
EnvOf(rows) == [k \in DOMAIN rows |-> rows[k][1]]

\* The positions of e in a mapping.
RowsOf(e, mapping) == {k \in DOMAIN mapping : mapping[k] = e}

\* Mutation: the mapping of the last recv for whatever envs.
CachedPlayersEnvIdWhole(l, count) ==
  IF lastPlayersEnvId # Nothing /\ Len(lastPlayersEnvId) = count THEN lastPlayersEnvId ELSE Nothing

\* The rows of each env in the last recv (cached[cached == eid]); Nothing if there are
\* none of one.
CachedPlayersEnvId(l, count) ==
  LET segments == [j \in DOMAIN l |-> [k \in 1..Cardinality(RowsOf(l[j], lastPlayersEnvId)) |-> l[j]]]
      all == FlattenSeq(segments)
  IN  IF lastPlayersEnvId # Nothing /\ (\A j \in DOMAIN l : segments[j] # <<>>) /\ Len(all) = count
      THEN all ELSE Nothing

\* Mutation: every env has the same number of players.
InferPlayersEnvIdEqual(l, count) ==
  IF count % Len(l) = 0
  THEN FlattenSeq([j \in DOMAIN l |-> [k \in 1..(count \div Len(l)) |-> l[j]]]) ELSE Nothing

\* Nothing stands for the RuntimeError.
InferPlayersEnvId(l, count) ==
  LET cached == CachedPlayersEnvId(l, count)
      each == count \div Len(l)
  IN  CASE MaxNumPlayers = 1 \/ count = Len(l) -> l
        [] OTHER ->
             IF cached # Nothing THEN cached
             ELSE IF count % Len(l) # 0 \/ each > MaxNumPlayers THEN Nothing
             ELSE FlattenSeq([j \in DOMAIN l |-> [k \in 1..each |-> l[j]]])

\* The envs came with the last recv.  One that has not been stepped since keeps its players.
FromLastRecv(l) == \A j \in DOMAIN l : \E k \in DOMAIN lastEnvId : lastEnvId[k] = l[j]

\* What the caller can count on without players.env_id: each env has a player to act for, and
\* they came with the last recv or, whatever they came with, have as many each.
CanInfer(l) ==
  /\ \A j \in DOMAIN l : players[l[j]] > 0
  /\ FromLastRecv(l) \/ \A i, j \in DOMAIN l : players[l[i]] = players[l[j]]

SetActions(l, rows, mapping, due, fromLast) ==
  /\ stage' = [e \in Envs |-> IF \E j \in DOMAIN l : l[j] = e THEN "asked" ELSE stage[e]]
  /\ actionBatch' = [e \in Envs |->
       IF \E j \in DOMAIN l : l[j] = e
       THEN [rows |-> rows, playersEnvId |-> mapping, due |-> due, fromLast |-> fromLast] ELSE actionBatch[e]]
  /\ refused' = FALSE
  /\ UNCHANGED <<batch, players, lastPlayersEnvId, lastEnvId, parsed>>

\* send with a dict that has players.env_id: rows in any order.
SendExplicit(l) ==
  /\ \A j \in DOMAIN l : stage[l[j]] = "idle"
  /\ \E rows \in {RowsByEnv(l), RowsByPlayer(l)} : SetActions(l, rows, EnvOf(rows), TRUE, FALSE)

\* send without it: rows in the order of env_id.
SendSimple(l) ==
  LET rows == RowsByEnv(l)
      mapping == InferPlayersEnvId(l, Len(rows))
  IN  /\ \A j \in DOMAIN l : stage[l[j]] = "idle"
      /\ IF mapping # Nothing THEN SetActions(l, rows, mapping, CanInfer(l), FromLastRecv(l))
         ELSE /\ refused' = CanInfer(l)
              /\ UNCHANGED <<batch, players, stage, lastPlayersEnvId, lastEnvId, actionBatch, parsed>>

\* recv: the mapping of the batch is kept for the next send.
Recv(l) ==
  /\ Len(l) = batch
  /\ \A j \in DOMAIN l : stage[l[j]] = "reported"
  /\ stage' = [e \in Envs |-> IF \E j \in DOMAIN l : l[j] = e THEN "idle" ELSE stage[e]]
  /\ lastEnvId' = l
  /\ lastPlayersEnvId' = EnvOf(RowsByEnv(l))
  /\ parsed' = [e \in Envs |-> IF \E j \in DOMAIN l : l[j] = e THEN Nothing ELSE parsed[e]]
  /\ UNCHANGED <<batch, players, actionBatch, refused>>

----------------------------------------------------------------------------
(* Env *)

Least(S) == CHOOSE x \in S : \A y \in S : x <= y
Greatest(S) == CHOOSE x \in S : \A y \in S : y <= x

\* Mutation: the rows from the first to the last, whatever is between them.
ParseActionSlice(e, a) ==
  LET index == RowsOf(e, a.playersEnvId)
  IN  IF index = {} THEN <<>> ELSE SubSeq(a.rows, Least(index), Greatest(index))

\* One slice of the batch if the rows of e are contiguous, else a copy of each.
ParseAction(e, a) ==
  LET index == RowsOf(e, a.playersEnvId)
      continuous == index # {} /\ Cardinality(index) = Greatest(index) + 1 - Least(index)
  IN  IF continuous THEN SubSeq(a.rows, Least(index), Greatest(index))
      ELSE [j \in 1..Cardinality(index) |->
              a.rows[CHOOSE k \in index : Cardinality({m \in index : m < k}) = j - 1]]

\* Allocate(player_num): the state goes to the queue with the players it has now.
Report(e) ==
  /\ stage' = [stage EXCEPT ![e] = "reported"]
  /\ players' \in {[players EXCEPT ![e] = n] : n \in Counts}
  /\ actionBatch' = [actionBatch EXCEPT ![e] = Nothing]
  /\ UNCHANGED <<batch, lastPlayersEnvId, lastEnvId, refused>>

\* An env is stepped, or reset whatever it was asked.
Step(e) ==
  /\ stage[e] = "asked" /\ actionBatch[e] # Nothing
  /\ parsed' = [parsed EXCEPT ![e] =
       [raw |-> ParseAction(e, actionBatch[e]), own |-> players[e],
        due |-> actionBatch[e].due, fromLast |-> actionBatch[e].fromLast]]
  /\ Report(e)

Reset(e) ==
  /\ stage[e] = "asked"
  /\ parsed' = parsed
  /\ Report(e)

Next ==
  \/ \E l \in Lists : SendExplicit(l) \/ SendSimple(l) \/ Recv(l)
  \/ \E e \in Envs : Step(e) \/ Reset(e)

Spec == Init /\ [][Next]_vars

----------------------------------------------------------------------------
Own(p, e) == p.raw = [k \in 1..p.own |-> <<e, k>>]

\* A step is handed exactly the actions of the env's own players, none if it has none, in
\* their order: whatever the order of the rows when the caller gives players.env_id, and when
\* it does not, for envs that came with the last recv, in any order and not all of them, and
\* for envs of other batches that have as many players each (Env::ParseAction,
\* _infer_players_env_id).
OwnPlayersAct == \A e \in Envs : parsed[e] # Nothing /\ parsed[e].due => Own(parsed[e], e)

\* The simplified form is not refused for such envs (_infer_players_env_id).
InferenceSuffices == ~refused

\* What is said of envs that came with the last recv: its mapping is used again when player
\* counts vary (_cached_players_env_id), and a count may be 0 (new_env.rst).
InferredPlayersAct == \A e \in Envs : parsed[e] # Nothing /\ parsed[e].fromLast => Own(parsed[e], e)

----------------------------------------------------------------------------
(* The inductive invariant behind OwnPlayersAct and InferenceSuffices *)

Stages == {"idle", "asked", "reported"}
Row == Envs \X Nat
Action == [rows : Seq(Row), playersEnvId : Seq(Envs), due : BOOLEAN, fromLast : BOOLEAN]

TypeOK ==
  /\ batch \in Batches
  /\ players \in [Envs -> Nat] /\ stage \in [Envs -> Stages]
  /\ lastPlayersEnvId \in Seq(Envs) \cup {Nothing} /\ lastEnvId \in Seq(Envs)
  /\ actionBatch \in [Envs -> Action \cup {Nothing}]
  /\ parsed = [e \in Envs |-> parsed[e]]
  /\ refused \in BOOLEAN

\* The env has no players before its first state.
PlayersInv == \A e \in Envs : stage[e] # "asked" => players[e] \in Counts

\* The last mapping has a row for each player of the envs it came with, as long as
\* they are not asked again, and for no other env.
LastInv ==
  /\ \A k \in DOMAIN lastEnvId :
       /\ lastPlayersEnvId # Nothing
       /\ stage[lastEnvId[k]] = "idle" =>
            Cardinality(RowsOf(lastEnvId[k], lastPlayersEnvId)) = players[lastEnvId[k]]
  /\ lastPlayersEnvId # Nothing =>
       \A i \in DOMAIN lastPlayersEnvId : \E k \in DOMAIN lastEnvId : lastEnvId[k] = lastPlayersEnvId[i]

\* The rows of e are those of its n players, in their order.
InOrder(e, n, rows) ==
  \E p \in [1..n -> DOMAIN rows] :
    /\ \A i, j \in 1..n : i < j => p[i] < p[j]
    /\ \A i \in 1..n : rows[p[i]] = <<e, i>>
    /\ \A k \in DOMAIN rows : rows[k][1] = e => \E i \in 1..n : p[i] = k

\* What is due to an env is in the batch it was sent, under a mapping that is right.
BatchInv ==
  \A e \in Envs : actionBatch[e] # Nothing =>
    /\ stage[e] = "asked"
    /\ actionBatch[e].due =>
         /\ actionBatch[e].playersEnvId = EnvOf(actionBatch[e].rows)
         /\ InOrder(e, players[e], actionBatch[e].rows)

IInv == TypeOK /\ PlayersInv /\ LastInv /\ BatchInv /\ OwnPlayersAct /\ InferenceSuffices
=============================================================================
