---------------------------- MODULE AsyncEnvPool ----------------------------
(***************************************************************************)
(* core/async_envpool.h with core/env.h: the threads of a pool and what    *)
(* they share.  The driver's thread(s) call Send, Reset, Recv and at last  *)
(* the destructor; the workers take action slices, step or reset the env   *)
(* and write its state into a row of the batch that is being filled.       *)
(*                                                                         *)
(* The two queues are taken at the grain their own modules justify: the    *)
(* action queue is the FIFO of module ActionFifo, and a row is allocated   *)
(* in one step of module StateBufferQueue's three.  Blocks of rows are     *)
(* numbered from the one the next Recv waits for, so nothing grows.        *)
(*                                                                         *)
(* The driver keeps to the protocol of docs/content/python_interface.rst:  *)
(* it asks no env again before it has received that env's state, and in    *)
(* synchronous mode calls one Recv after each Send or Reset.  In           *)
(* asynchronous mode Send and Recv may overlap (two threads).              *)
(***************************************************************************)
EXTENDS Integers, FiniteSets, Sequences

CONSTANTS
  Envs,              \* envs_
  Workers,           \* workers_
  Actions,           \* the actions a Send may carry
  Configs,           \* the configurations, see ConfigType
  MaxEpisodeSteps,   \* the largest episode of an env
  Nothing

NumEnvs == Cardinality(Envs)

\* What of EnvSpec the pool reads: batch_, and whether max_num_players_ = 1.
ConfigType == [batch : 1..NumEnvs, singlePlayer : BOOLEAN]

VARIABLES
  config,                          \* what the constructor was given
  stop,                            \* stop_
  steppingEnvNum,                  \* stepping_env_num_
  fifo,                            \* action_buffer_queue_
  allocCount, blocks,              \* state_buffer_queue_, see FreshBlock
  actionBatch,                     \* Env: the action SetAction left
  done, elapsed,                   \* Env: IsDone(), current_step_
  spc, list, what, i,              \* Send / Reset / destructor: pc, argument, locals
  rpc, additional, rows,           \* Recv: pc, locals
  wpc, slice, result, place,   \* worker: pc, locals of its loop and of the env
  asked, lastList, received        \* the driver's view: asked and not yet received

Batch == config.batch
SinglePlayer == config.singlePlayer

\* is_sync_
IsSync == Batch = NumEnvs /\ SinglePlayer

ASSUME SizesAssumption ==
  /\ IsFiniteSet(Envs) /\ IsFiniteSet(Workers) /\ Workers # {}
  /\ Configs \subseteq ConfigType
  /\ MaxEpisodeSteps \in Nat
  /\ "reset" \notin Actions /\ Nothing \notin Actions \cup Envs \cup {"reset"}

envVars == <<actionBatch, done, elapsed>>
queueVars == <<fifo, allocCount, blocks>>
sendVars == <<spc, list, what, i>>
recvVars == <<rpc, additional, rows>>
workerVars == <<wpc, slice, result, place>>
driverVars == <<asked, lastList, received>>
vars == <<config, stop, steppingEnvNum, queueVars, envVars, sendVars, recvVars,
          workerVars, driverVars>>

Lists == UNION {{l \in [1..n -> Envs] : \A j, k \in 1..n : l[j] = l[k] => j = k}
                  : n \in 1..NumEnvs}
EnvsOf(l) == {l[k] : k \in DOMAIN l}
Outstanding == {e \in Envs : asked[e] # Nothing}

\* The slice the destructor fills the queue with: ActionSlice{}.
EmptySlice == [env |-> Nothing, order |-> 0, forceReset |-> FALSE]

FreshBlock == [allocCount |-> 0, doneCount |-> 0, rows |-> [k \in 0..(Batch - 1) |-> Nothing]]
NumBlocks == (NumEnvs \div Batch + 2) * 2

Init ==
  /\ config \in Configs
  /\ stop = FALSE /\ steppingEnvNum = 0
  /\ fifo = <<>> /\ allocCount = 0
  /\ blocks = [k \in 0..(NumBlocks - 1) |-> FreshBlock]
  /\ actionBatch = [e \in Envs |-> Nothing]
  /\ done \in [Envs -> BOOLEAN]
  /\ elapsed = [e \in Envs |-> -1]
  /\ spc = "idle" /\ list = <<>> /\ what = Nothing /\ i = 0
  /\ rpc = "idle" /\ additional = 0 /\ rows = <<>>
  /\ wpc = [w \in Workers |-> "dequeue"]
  /\ slice = [w \in Workers |-> EmptySlice]
  /\ result = [w \in Workers |-> Nothing]
  /\ place = [w \in Workers |-> <<0, 0>>]
  /\ asked = [e \in Envs |-> Nothing]
  /\ lastList = <<>> /\ received = <<>>

SendStep(from, to) == spc = from /\ spc' = to
RecvStep(from, to) == rpc = from /\ rpc' = to
WorkerStep(w, from, to) == wpc[w] = from /\ wpc' = [wpc EXCEPT ![w] = to]

----------------------------------------------------------------------------
(* Send and Reset *)

\* The driver's side of the protocol.
MayAsk(l) ==
  /\ ~stop
  /\ EnvsOf(l) \cap Outstanding = {}
  /\ IsSync => rpc = "idle" /\ Outstanding = {}

Ask(l, w) ==
  /\ MayAsk(l)
  /\ list' = l /\ what' = w /\ i' = 1
  /\ asked' = [e \in Envs |-> IF e \in EnvsOf(l) THEN w ELSE asked[e]]
  /\ lastList' = IF IsSync THEN l ELSE <<>>
  /\ received' = <<>>
  /\ UNCHANGED <<config, stop, steppingEnvNum, queueVars, envVars, recvVars, workerVars>>

Send == SendStep("idle", "set") /\ \E l \in Lists, a \in Actions : Ask(l, a)

Reset == SendStep("idle", "count") /\ \E l \in Lists : Ask(l, "reset")

\* The loop of SendImpl hands every env its action before anything is enqueued.
SetAction ==
  /\ spc = "set"
  /\ actionBatch' = [actionBatch EXCEPT ![list[i]] = what]
  /\ i' = i + 1
  /\ spc' = IF i = Len(list) THEN "count" ELSE "set"
  /\ UNCHANGED <<config, stop, steppingEnvNum, queueVars, done, elapsed, list, what,
                 recvVars, workerVars, driverVars>>

CountStepping ==
  /\ SendStep("count", "enqueue")
  /\ steppingEnvNum' = IF IsSync THEN steppingEnvNum + Len(list) ELSE steppingEnvNum
  /\ UNCHANGED <<config, stop, queueVars, envVars, list, what, i, recvVars, workerVars, driverVars>>

Slices ==
  [k \in DOMAIN list |-> [env |-> list[k], order |-> IF IsSync THEN k - 1 ELSE -1,
                          forceReset |-> what = "reset"]]

EnqueueBulk ==
  /\ SendStep("enqueue", "idle")
  /\ fifo' = fifo \o Slices
  /\ list' = <<>> /\ what' = Nothing /\ i' = 0
  /\ UNCHANGED <<config, stop, steppingEnvNum, allocCount, blocks, envVars, recvVars,
                 workerVars, driverVars>>

----------------------------------------------------------------------------
(* The destructor *)

SetStop ==
  /\ SendStep("idle", "poison")
  /\ rpc = "idle" /\ ~stop
  /\ stop' = TRUE
  /\ UNCHANGED <<config, steppingEnvNum, queueVars, envVars, list, what, i, recvVars,
                 workerVars, driverVars>>

\* Mutation: one slice wakes one worker.
EnqueuePoisonOnce ==
  /\ SendStep("poison", "join")
  /\ fifo' = Append(fifo, EmptySlice)
  /\ UNCHANGED <<config, stop, steppingEnvNum, allocCount, blocks, envVars, list, what, i,
                 recvVars, workerVars, driverVars>>

EnqueuePoison ==
  /\ SendStep("poison", "join")
  /\ fifo' = fifo \o [k \in 1..Cardinality(Workers) |-> EmptySlice]
  /\ UNCHANGED <<config, stop, steppingEnvNum, allocCount, blocks, envVars, list, what, i,
                 recvVars, workerVars, driverVars>>

Join ==
  /\ SendStep("join", "joined")
  /\ \A w \in Workers : wpc[w] = "exit"
  /\ UNCHANGED <<config, stop, steppingEnvNum, queueVars, envVars, list, what, i, recvVars,
                 workerVars, driverVars>>

----------------------------------------------------------------------------
(* A worker *)

\* Mutation: the slice stays in the queue.
DequeuePeek(w) ==
  /\ WorkerStep(w, "dequeue", "check")
  /\ fifo # <<>>
  /\ slice' = [slice EXCEPT ![w] = Head(fifo)]
  /\ UNCHANGED <<config, stop, steppingEnvNum, queueVars, envVars, sendVars, recvVars,
                 result, place, driverVars>>

Dequeue(w) ==
  /\ WorkerStep(w, "dequeue", "check")
  /\ fifo # <<>>
  /\ slice' = [slice EXCEPT ![w] = Head(fifo)]
  /\ fifo' = Tail(fifo)
  /\ UNCHANGED <<config, stop, steppingEnvNum, allocCount, blocks, envVars, sendVars, recvVars,
                 result, place, driverVars>>

CheckStop(w) ==
  /\ WorkerStep(w, "check", IF stop THEN "exit" ELSE "run")
  /\ UNCHANGED <<config, stop, steppingEnvNum, queueVars, envVars, sendVars, recvVars,
                 slice, result, place, driverVars>>

\* What an env may report after n steps: its episode ends at the latest after
\* MaxEpisodeSteps.
Outcomes(n) == {d \in BOOLEAN : n >= MaxEpisodeSteps => d}

\* EnvStep on the env of w: PreProcess, then Reset(), or ParseAction and
\* Step(action), up to the Allocate they make.
Run(w, r) ==
  LET e == slice[w].env
      steps == IF r THEN 0 ELSE elapsed[e] + 1
  IN  /\ WorkerStep(w, "run", "allocate")
      /\ elapsed' = [elapsed EXCEPT ![e] = steps]
      /\ \E d \in Outcomes(steps) :
           /\ done' = [done EXCEPT ![e] = d]
           /\ result' = [result EXCEPT ![w] =
                [did |-> IF r THEN "reset" ELSE actionBatch[e],
                 elapsed |-> steps,
                 done |-> d,
                 trunc |-> d /\ steps >= MaxEpisodeSteps]]
      /\ UNCHANGED <<config, stop, steppingEnvNum, queueVars, actionBatch, sendVars,
                     recvVars, slice, place, driverVars>>

\* Mutation: an env that is done is stepped on.
RunEnvNoAutoReset(w) == Run(w, slice[w].forceReset)

\* The worker resets an env that is done, whatever it was asked.
RunEnv(w) == Run(w, slice[w].forceReset \/ done[slice[w].env])

\* Mutation: the position is not taken.
AllocateSharingPosition(w) ==
  LET k == allocCount \div Batch
      row == IF slice[w].order # -1 /\ SinglePlayer
             THEN slice[w].order ELSE blocks[k].allocCount
  IN  /\ WorkerStep(w, "allocate", "write")
      /\ blocks' = [blocks EXCEPT ![k].allocCount = @ + 1]
      /\ place' = [place EXCEPT ![w] = <<k, row>>]
      /\ UNCHANGED <<config, stop, steppingEnvNum, fifo, allocCount, envVars, sendVars, recvVars,
                     slice, result, driverVars>>

\* Env::Allocate: a position, its block, and the row in it.
Allocate(w) ==
  LET k == allocCount \div Batch
      row == IF slice[w].order # -1 /\ SinglePlayer
             THEN slice[w].order ELSE blocks[k].allocCount
  IN  /\ WorkerStep(w, "allocate", "write")
      /\ allocCount' = allocCount + 1
      /\ blocks' = [blocks EXCEPT ![k].allocCount = @ + 1]
      /\ place' = [place EXCEPT ![w] = <<k, row>>]
      /\ UNCHANGED <<config, stop, steppingEnvNum, fifo, envVars, sendVars, recvVars,
                     slice, result, driverVars>>

WriteState(w) ==
  /\ WorkerStep(w, "write", "done")
  /\ blocks' = [blocks EXCEPT ![place[w][1]].rows[place[w][2]] =
                  <<slice[w].env, result[w]>>]
  /\ UNCHANGED <<config, stop, steppingEnvNum, fifo, allocCount, envVars, sendVars, recvVars,
                 slice, result, place, driverVars>>

\* Env::PostProcess: StateBuffer::Done.
PostProcess(w) ==
  /\ WorkerStep(w, "done", "dequeue")
  /\ blocks' = [blocks EXCEPT ![place[w][1]].doneCount = @ + 1]
  /\ slice' = [slice EXCEPT ![w] = EmptySlice]
  /\ result' = [result EXCEPT ![w] = Nothing]
  /\ place' = [place EXCEPT ![w] = <<0, 0>>]
  /\ UNCHANGED <<config, stop, steppingEnvNum, fifo, allocCount, envVars, sendVars, recvVars,
                 driverVars>>

----------------------------------------------------------------------------
(* Recv *)

\* Mutation: the envs that do not step are not counted.
RecvFullBatch ==
  /\ RecvStep("idle", "wait")
  /\ ~stop
  /\ IsSync => spc = "idle" /\ Outstanding # {}
  /\ UNCHANGED <<config, stop, steppingEnvNum, queueVars, envVars, sendVars, workerVars,
                 additional, rows, driverVars>>

Recv ==
  LET missing == IF IsSync /\ steppingEnvNum < Batch THEN Batch - steppingEnvNum ELSE 0
  IN  /\ RecvStep("idle", IF missing > 0 THEN "done" ELSE "wait")
      /\ ~stop
      /\ IsSync => spc = "idle" /\ Outstanding # {}
      /\ additional' = missing
      /\ UNCHANGED <<config, stop, steppingEnvNum, queueVars, envVars, sendVars, workerVars,
                     rows, driverVars>>

WaitDone ==
  /\ RecvStep("done", "wait")
  /\ blocks' = [blocks EXCEPT ![0].doneCount = @ + additional]
  /\ UNCHANGED <<config, stop, steppingEnvNum, fifo, allocCount, envVars, sendVars, workerVars,
                 additional, rows, driverVars>>

\* The buffer at the head is complete: its semaphore was signalled when the
\* count reached Batch.  It is truncated to the rows that were handed out.
WaitHead ==
  /\ RecvStep("wait", "replace")
  /\ blocks[0].doneCount = Batch
  /\ rows' = [k \in 1..blocks[0].allocCount |-> blocks[0].rows[k - 1]]
  /\ UNCHANGED <<config, stop, steppingEnvNum, queueVars, envVars, sendVars, workerVars,
                 additional, driverVars>>

\* The positions nobody took are skipped and the head moves to the next block.
ReplaceHead ==
  /\ RecvStep("replace", "subtract")
  /\ allocCount' = allocCount + additional - Batch
  /\ blocks' = [k \in DOMAIN blocks |->
                  IF k + 1 \in DOMAIN blocks THEN blocks[k + 1] ELSE FreshBlock]
  /\ place' = [w \in Workers |-> IF wpc[w] \in {"write", "done"}
                                 THEN <<place[w][1] - 1, place[w][2]>> ELSE place[w]]
  /\ UNCHANGED <<config, stop, steppingEnvNum, fifo, envVars, sendVars, wpc, slice,
                 result, additional, rows, driverVars>>

\* Mutation: a whole batch is subtracted.
SubtractBatch ==
  /\ RecvStep("subtract", "return")
  /\ steppingEnvNum' = IF IsSync THEN steppingEnvNum - Batch ELSE steppingEnvNum
  /\ UNCHANGED <<config, stop, queueVars, envVars, sendVars, workerVars, additional, rows, driverVars>>

SubtractStepping ==
  /\ RecvStep("subtract", "return")
  /\ steppingEnvNum' = IF IsSync THEN steppingEnvNum - Len(rows) ELSE steppingEnvNum
  /\ UNCHANGED <<config, stop, queueVars, envVars, sendVars, workerVars, additional, rows, driverVars>>

Return ==
  /\ RecvStep("return", "idle")
  /\ received' = rows
  /\ asked' = [e \in Envs |-> IF \E k \in DOMAIN rows : rows[k][1] = e
                              THEN Nothing ELSE asked[e]]
  /\ additional' = 0 /\ rows' = <<>>
  /\ UNCHANGED <<config, stop, steppingEnvNum, queueVars, envVars, sendVars, workerVars, lastList>>

----------------------------------------------------------------------------
Sender == SetAction \/ CountStepping \/ EnqueueBulk \/ EnqueuePoison \/ Join

Worker(w) ==
  \/ Dequeue(w) \/ CheckStop(w) \/ RunEnv(w)
  \/ Allocate(w) \/ WriteState(w) \/ PostProcess(w)

Receiver == WaitDone \/ WaitHead \/ ReplaceHead \/ SubtractStepping \/ Return

Next ==
  \/ Send \/ Reset \/ SetStop \/ Sender
  \/ Recv \/ Receiver
  \/ \E w \in Workers : Worker(w)

\* Calls that have begun and workers go on; the driver is not obliged to call.
Fairness ==
  /\ WF_vars(Sender) /\ WF_vars(Receiver)
  /\ \A w \in Workers : WF_vars(Worker(w))

Spec == Init /\ [][Next]_vars
FairSpec == Spec /\ Fairness

----------------------------------------------------------------------------
ResultType ==
  [did : Actions \cup {"reset"}, elapsed : 0..MaxEpisodeSteps, done : BOOLEAN, trunc : BOOLEAN]
RowType == (Envs \X ResultType) \cup {Nothing}
ASSUME NothingAssumption == Nothing \notin ResultType /\ Nothing \notin Envs \X ResultType

BlockIds == 0..(NumBlocks - 1)
RowIds == 0..(Batch - 1)
SliceType == [env : Envs \cup {Nothing}, order : -1..(Batch - 1), forceReset : BOOLEAN]
BlockType ==
  [allocCount : 0..Batch, doneCount : 0..Batch, rows : [RowIds -> RowType]]

\* The variables range over what the code declares; no more positions are taken
\* than there are envs, and no block has more than its rows.
TypeOK ==
  /\ config \in Configs
  /\ stop \in BOOLEAN /\ steppingEnvNum \in 0..NumEnvs
  /\ fifo \in Seq(SliceType)
  /\ allocCount \in 0..NumEnvs /\ blocks \in [BlockIds -> BlockType]
  /\ actionBatch \in [Envs -> Actions \cup {Nothing}]
  /\ done \in [Envs -> BOOLEAN] /\ elapsed \in [Envs -> -1..MaxEpisodeSteps]
  /\ spc \in {"idle", "set", "count", "enqueue", "poison", "join", "joined"}
  /\ list \in Lists \cup {<<>>} /\ what \in Actions \cup {"reset", Nothing}
  /\ i \in 0..(NumEnvs + 1)
  /\ rpc \in {"idle", "done", "wait", "replace", "subtract", "return"}
  /\ additional \in 0..Batch /\ rows \in Seq(RowType)
  /\ wpc \in [Workers -> {"dequeue", "check", "run", "allocate", "write", "done", "exit"}]
  /\ slice \in [Workers -> SliceType]
  /\ result \in [Workers -> ResultType \cup {Nothing}]
  /\ place \in [Workers -> BlockIds \X RowIds]
  /\ asked \in [Envs -> Actions \cup {"reset", Nothing}]
  /\ lastList \in Lists \cup {<<>>} /\ received \in Seq(RowType)

\* The env a worker is about to use or is using.
InUse(w) == IF wpc[w] \in {"check", "run", "allocate", "write", "done"}
            THEN {slice[w].env} ELSE {}

\* An env is plain memory: no two workers are ever in the same env, and SetAction,
\* which runs on the thread of Send, never touches an env a worker is in.
NoEnvRace ==
  ~stop =>
    /\ \A v, w \in Workers : v # w => InUse(v) \cap InUse(w) = {}
    /\ spc = "set" => \A w \in Workers : list[i] \notin InUse(w)

\* In synchronous mode stepping_env_num_ is, when no call is in progress, the
\* number of envs that the next Recv will return.
SteppingNumIsOutstanding ==
  IsSync /\ spc = "idle" /\ rpc = "idle" => steppingEnvNum = Cardinality(Outstanding)

\* The answer of e, wherever it is: with a worker, in its row, with Recv.
AnswersOf(e) ==
  {result[w] : w \in {v \in Workers :
                  wpc[v] \in {"allocate", "write", "done"} /\ slice[v].env = e}}
  \cup {row[2] : row \in {x \in {blocks[k].rows[j] : k \in DOMAIN blocks, j \in 0..(Batch - 1)}
                          : x # Nothing /\ x[1] = e}}
  \cup {row[2] : row \in {rows[k] : k \in {j \in DOMAIN rows : rows[j] # Nothing /\ rows[j][1] = e}}}

\* The pool implements the abstract vector of envs: each request is answered
\* once, by the env it was sent to, with the action it carried or a reset where
\* one is due; batches are exact, and in synchronous mode in the order asked.
Envs_ ==
  INSTANCE VectorEnv WITH
    answer <- [e \in Envs |-> IF AnswersOf(e) = {} THEN Nothing
                              ELSE CHOOSE a \in AnswersOf(e) : TRUE],
    list <- lastList,
    batch <- Batch,
    isSync <- IsSync
ImplementsVectorEnv == Envs_!Spec

\* A Recv that has been called returns: in synchronous mode always, in
\* asynchronous mode when a batch of envs was asked.
RecvReturns ==
  (rpc # "idle" /\ (IsSync \/ Cardinality(Outstanding) >= Batch)) ~> rpc = "idle"

\* EnvPoolMixin.is_async, what the Python layer takes for the mode.
IsAsync == Batch # NumEnvs

\* EnvPoolMixin.reset(env_id) is Reset and then Recv, "not defined in async mode"
\* (python/envpool.py); so in the other mode, as is_async tells it, the Recv that
\* follows a Reset of any envs returns.
ResetReturns ==
  /\ rpc # "idle" /\ ~IsAsync
  /\ Outstanding # {} /\ \A e \in Outstanding : asked[e] = "reset"
  ~> rpc = "idle"

\* The destructor ends: every worker leaves its loop, whatever was still queued.
DestructorJoins == stop ~> spc = "joined"

----------------------------------------------------------------------------
(***************************************************************************)
(* The inductive invariant behind NoEnvRace, SteppingNumIsOutstanding and  *)
(* ImplementsVectorEnv, in named parts.  An env that is asked is on its    *)
(* way: in the list of a Send, in the queue, held by a worker, reported in *)
(* a row, or in the batch a Recv is about to return.                       *)
(***************************************************************************)
Row(k, j) == blocks[k].rows[j]

Holders == {w \in Workers : wpc[w] \in {"check", "run", "allocate", "write"}}
Writers == {w \in Workers : wpc[w] = "write"}
Active(k) == {w \in Workers : wpc[w] \in {"write", "done"} /\ place[w][1] = k}

Listed == {e \in Envs : \E k \in DOMAIN list : list[k] = e}
Queued == {e \in Envs : \E k \in DOMAIN fifo : fifo[k].env = e}
Held == {e \in Envs : \E w \in Holders : slice[w].env = e}
Reported == {e \in Envs : \E k \in BlockIds, j \in RowIds : Row(k, j) # Nothing /\ Row(k, j)[1] = e}
Returned ==
  {e \in Envs : rpc \in {"subtract", "return"} /\ \E k \in DOMAIN rows : rows[k][1] = e}

\* The envs that have a position.
Placed == Reported \cup {e \in Envs : \E w \in Writers : slice[w].env = e}

\* No env is in two of those places.
PlaceInv ==
  /\ Listed \cup Queued \cup Held \cup Reported \cup Returned \subseteq Outstanding
  /\ Listed \cap (Queued \cup Held \cup Reported \cup Returned) = {}
  /\ Queued \cap (Held \cup Reported \cup Returned) = {}
  /\ Held \cap (Reported \cup Returned) = {}
  /\ Reported \cap Returned = {}

\* Nor in one of them twice.
OnceInv ==
  /\ \A j, k \in DOMAIN fifo : fifo[j].env \in Envs /\ fifo[j].env = fifo[k].env => j = k
  /\ \A v, w \in Holders : slice[v].env \in Envs /\ slice[v].env = slice[w].env => v = w
  /\ \A k, m \in BlockIds, j, n \in RowIds :
       Row(k, j) # Nothing /\ Row(m, n) # Nothing /\ Row(k, j)[1] = Row(m, n)[1] => k = m /\ j = n

\* A slice without an env is the destructor's, and no worker gets past its check.
StopInv ==
  /\ stop <=> spc \in {"poison", "join", "joined"}
  /\ stop => rpc = "idle"
  /\ \A k \in DOMAIN fifo : fifo[k].env = Nothing => stop
  /\ \A w \in Workers : slice[w].env = Nothing =>
       wpc[w] \in {"dequeue", "exit"} \/ (wpc[w] = "check" /\ stop)

\* What is asked of an env is what it will be told to do.
Carries(s) ==
  s.env \in Envs =>
    /\ s.forceReset <=> asked[s.env] = "reset"
    /\ ~s.forceReset => actionBatch[s.env] = asked[s.env]
RequestInv ==
  /\ spc \in {"set", "count", "enqueue"} <=> list # <<>>
  /\ spc = "set" => i \in 1..Len(list) /\ what \in Actions
  /\ \A k \in DOMAIN list :
       /\ asked[list[k]] = what
       /\ what # "reset" /\ (spc = "set" => k < i) => actionBatch[list[k]] = what
  /\ \A k \in DOMAIN fifo : Carries(fifo[k])
  /\ \A w \in Workers : wpc[w] \in {"check", "run"} => Carries(slice[w])
  /\ \A e \in Envs : elapsed[e] >= MaxEpisodeSteps => done[e]
  /\ \A w \in Workers : wpc[w] \in {"allocate", "write", "done"} => result[w] # Nothing

\* Blocks are filled one after the other, and count their users.
Added(k) == IF k = 0 /\ rpc \in {"wait", "replace"} THEN additional ELSE 0
CountInv ==
  /\ allocCount = Cardinality(Placed)
  /\ \A k \in BlockIds :
       /\ blocks[k].allocCount = IF k < allocCount \div Batch THEN Batch
                                 ELSE IF k = allocCount \div Batch THEN allocCount % Batch ELSE 0
       /\ blocks[k].doneCount + Cardinality(Active(k)) = blocks[k].allocCount + Added(k)

\* Every user of a block has a row of its own, which it writes once.
RowInv ==
  /\ \A k \in BlockIds : \A v, w \in Active(k) : place[v][2] = place[w][2] => v = w
  /\ \A k \in BlockIds : \A w \in Active(k) :
       /\ wpc[w] = "write" => Row(k, place[w][2]) = Nothing
       /\ wpc[w] = "done" => Row(k, place[w][2]) = <<slice[w].env, result[w]>>
  /\ ~IsSync => \A k \in BlockIds :
       /\ \A w \in Active(k) : place[w][2] < blocks[k].allocCount
       /\ \A j \in RowIds :
            /\ Row(k, j) # Nothing => j < blocks[k].allocCount
            /\ j < blocks[k].allocCount =>
                 Row(k, j) # Nothing \/ \E w \in Active(k) : wpc[w] = "write" /\ place[w][2] = j

\* What Recv has found out.
RecvInv ==
  /\ rpc = "idle" => additional = 0
  /\ rpc \in {"idle", "done", "wait"} => rows = <<>>
  /\ rpc \in {"replace", "subtract", "return"} =>
       /\ Len(rows) = Batch - additional
       /\ \A k \in DOMAIN rows : rows[k] # Nothing
       /\ \A j, k \in DOMAIN rows : rows[j][1] = rows[k][1] => j = k
  /\ rpc = "replace" =>
       /\ blocks[0].doneCount = Batch
       /\ \A k \in DOMAIN rows : rows[k] = Row(0, k - 1)
  /\ ~IsSync => additional = 0 /\ steppingEnvNum = 0

\* In synchronous mode a Send or Reset and the Recv that follows it are about the
\* same list; its envs are asked until Recv returns, and use one block.
Ordered(s) ==
  s.env \in Envs =>
    IF IsSync THEN s.order + 1 \in DOMAIN lastList /\ lastList[s.order + 1] = s.env
    ELSE s.order = -1
OrderInv ==
  /\ \A k \in DOMAIN fifo : Ordered(fifo[k])
  /\ \A w \in Holders : Ordered(slice[w])
SyncInv ==
  IsSync =>
    /\ Outstanding = {} \/ (Outstanding = EnvsOf(lastList) /\ lastList # <<>>)
    /\ list # <<>> => list = lastList /\ rpc = "idle" /\ Outstanding # {}
    /\ rpc # "idle" => Outstanding # {} /\ spc = "idle" /\ additional = Batch - Len(lastList)
    /\ steppingEnvNum = IF spc \in {"set", "count"} \/ rpc = "return" \/ Outstanding = {}
                         THEN 0 ELSE Len(lastList)
SyncRowInv ==
  IsSync =>
    /\ \A w \in Workers : wpc[w] \in {"write", "done"} => place[w][1] = 0
    /\ \A w \in Writers : place[w][2] = slice[w].order
    /\ \A k \in BlockIds, j \in RowIds : Row(k, j) # Nothing =>
         k = 0 /\ j + 1 \in DOMAIN lastList /\ Row(k, j)[1] = lastList[j + 1]
    /\ \A k \in DOMAIN rows : k \in DOMAIN lastList /\ rows[k][1] = lastList[k]

\* What every step of the pool preserves; proved in module AsyncEnvPoolProof.
IInv ==
  /\ TypeOK /\ PlaceInv /\ OnceInv /\ StopInv /\ RequestInv
  /\ CountInv /\ RowInv /\ RecvInv
  /\ OrderInv /\ SyncInv /\ SyncRowInv

----------------------------------------------------------------------------
(* Nobody waits for what nobody will do *)

\* A thread of a call, the Recv, a worker is not blocked: the state predicates of
\* ENABLED Sender, ENABLED Receiver and ENABLED Worker(w).
SenderGoesOn ==
  \/ spc \in {"set", "count", "enqueue", "poison"}
  \/ spc = "join" /\ \A w \in Workers : wpc[w] = "exit"
ReceiverGoesOn ==
  \/ rpc \in {"done", "replace", "subtract", "return"}
  \/ rpc = "wait" /\ blocks[0].doneCount = Batch
WorkerGoesOn(w) ==
  \/ wpc[w] \in {"check", "run", "allocate", "write", "done"}
  \/ wpc[w] = "dequeue" /\ fifo # <<>>

\* The pool never stops half way: while a Recv that has a batch coming, or the
\* destructor, is under way, some thread of the pool is not blocked, and as long as
\* slices are queued a worker is at work.
NeverStuck ==
  /\ rpc # "idle" /\ (IsSync \/ Cardinality(Outstanding) >= Batch) =>
       ReceiverGoesOn \/ SenderGoesOn \/ \E w \in Workers : WorkerGoesOn(w)
  /\ stop /\ spc # "joined" => SenderGoesOn \/ \E w \in Workers : WorkerGoesOn(w)
  /\ ~stop /\ fifo # <<>> => \E w \in Workers : WorkerGoesOn(w)

\* The workers that come back to the queue.
Coming == {w \in Workers : wpc[w] \in {"dequeue", "run", "allocate", "write", "done"}}

OnItsWay == Listed \cup Queued \cup Held \cup Reported \cup Returned

\* An env that is asked is on its way until the pool stops, workers leave only then,
\* and the destructor has left a slice for each worker that comes back.
NoneLost ==
  /\ ~stop => Outstanding \subseteq OnItsWay
  /\ \A w \in Workers : wpc[w] = "exit" => stop
  /\ spc = "join" => Cardinality(Coming) <= Len(fifo)

----------------------------------------------------------------------------
(* The instances of AsyncEnvPool.cfg and AsyncEnvPoolReset.cfg. *)
Config(b, single) == [batch |-> b, singlePlayer |-> single]

\* Several players per env.
MultiPlayer == {Config(NumEnvs, FALSE)}

\* The pool that runs one env at a time, the synchronous one, and one that is
\* asynchronous although its batch holds all envs.
AnyMode == {Config(1, TRUE), Config(NumEnvs, TRUE), Config(NumEnvs, FALSE)}
=============================================================================
