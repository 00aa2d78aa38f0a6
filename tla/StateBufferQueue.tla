-------------------------- MODULE StateBufferQueue --------------------------
(***************************************************************************)
(* core/state_buffer_queue.h: the ring of state buffers between the        *)
(* workers, which allocate rows and report them written, and the receiver, *)
(* which waits for the buffer at the head and replaces it by a fresh one.  *)
(*                                                                         *)
(* A request is one Allocate/Done pair.  It is outstanding from the moment *)
(* a worker begins it until Wait has returned its row, and is not begun    *)
(* again before that; that protocol, and not the ring, is what keeps the   *)
(* workers from running into buffers that are still in use.  The stock of  *)
(* fresh buffers is module StockBuffer: here Wait gets a fresh one anyway. *)
(***************************************************************************)
EXTENDS Integers, FiniteSets, Sequences, TLC

CONSTANTS
  Envs,           \* the requests of synchronous mode: one per env
  Requests,       \* of asynchronous mode: at most a step and a forced reset per env
  Configs,        \* the configurations, see ConfigType
  Null,           \* what an unwritten row holds
  MaxPositions    \* bound: once this many positions were taken, no request begins
                  \* and no Wait is called for nothing

NumEnvs == Cardinality(Envs)

\* batch_env, and whether the pool passes orders and additional counts.
ConfigType == {c \in [batch : 1..NumEnvs, isSync : BOOLEAN] : c.isSync => c.batch = NumEnvs}

ASSUME SizesAssumption ==
  /\ IsFiniteSet(Requests) /\ Envs \subseteq Requests /\ Envs # {}
  /\ Cardinality(Requests) <= 2 * NumEnvs
  /\ Null \notin Requests
ASSUME ConfigsAssumption == Configs \subseteq ConfigType
ASSUME PositionsAssumption == MaxPositions \in Nat

VARIABLES
  config,                 \* what the constructor was given
  allocCount, donePtr,    \* alloc_count_, done_ptr_
  queue,                  \* queue_: the buffer of each block, see Fresh
  outstanding,            \* the callers' view: begun and not yet returned
  pc, order, pos,         \* each request: pc, Allocate's order, its position
  pointer, row,           \* ... the buffer it works on, the row it was given
  rpc, block, additional, arr   \* Wait: pc, its locals and its argument

Batch == config.batch
IsSync == config.isSync

\* Mutation: just the blocks that a batch of every env fills.
QueueSizeTight == NumEnvs \div Batch

QueueSize == (NumEnvs \div Batch + 2) * 2

counters == <<allocCount, donePtr>>
requestVars == <<pc, order, pos, pointer, row>>
receiverVars == <<rpc, block, additional, arr>>
vars == <<config, counters, queue, outstanding, requestVars, receiverVars>>

\* A StateBuffer as its constructor leaves it.  id tells apart the buffers that
\* succeed one another at one place of the ring.
Fresh(id) ==
  [id |-> id, allocCount |-> 0, doneCount |-> 0, sem |-> 0,
   rows |-> [k \in 0..(Batch - 1) |-> Null]]

Offset(b) == b % QueueSize
BlockOf(r) == pos[r] \div Batch
Place(r) == Offset(BlockOf(r))

Init ==
  /\ config \in Configs
  /\ allocCount = 0 /\ donePtr = 0
  /\ queue = [k \in 0..(QueueSize - 1) |-> Fresh(0)]
  /\ outstanding = {}
  /\ pc = [r \in Requests |-> "idle"]
  /\ order = [r \in Requests |-> -1]
  /\ pos = [r \in Requests |-> 0]
  /\ pointer = [r \in Requests |-> 0]
  /\ row = [r \in Requests |-> 0]
  /\ rpc = "idle" /\ block = 0 /\ additional = 0 /\ arr = <<>>

Step(r, from, to) == pc[r] = from /\ pc' = [pc EXCEPT ![r] = to]
ReceiverStep(from, to) == rpc = from /\ rpc' = to

----------------------------------------------------------------------------
(* The callers *)

\* Asynchronous: a worker begins a request whenever it likes.
Begin(r) ==
  /\ ~IsSync
  /\ allocCount < MaxPositions
  /\ r \notin outstanding
  /\ Step(r, "idle", "position")
  /\ outstanding' = outstanding \cup {r}
  /\ UNCHANGED <<config, counters, queue, order, pos, pointer, row, receiverVars>>

\* Synchronous: one Send for a list of envs, between two Recvs.  The i-th env
\* gets order i.
BeginRound ==
  /\ IsSync
  /\ allocCount < MaxPositions
  /\ rpc = "idle" /\ outstanding = {}
  /\ \E n \in 1..NumEnvs :
       \E list \in [0..(n - 1) -> Envs] :
         LET envs == {list[k] : k \in 0..(n - 1)}
         IN  /\ Cardinality(envs) = n
             /\ outstanding' = envs
             /\ pc' = [r \in Requests |-> IF r \in envs THEN "position" ELSE "idle"]
             /\ order' = [r \in Requests |->
                            IF r \in envs THEN CHOOSE k \in 0..(n - 1) : list[k] = r
                                          ELSE -1]
  /\ UNCHANGED <<config, counters, queue, pos, pointer, row, receiverVars>>

----------------------------------------------------------------------------
(* Allocate, and the Done of the buffer it hands out *)

TakePosition(r) ==
  /\ Step(r, "position", "pointer")
  /\ pos' = [pos EXCEPT ![r] = allocCount]
  /\ allocCount' = allocCount + 1
  /\ UNCHANGED <<config, donePtr, queue, outstanding, order, pointer, row, receiverVars>>

ReadPointer(r) ==
  /\ Step(r, "pointer", "allocate")
  /\ pointer' = [pointer EXCEPT ![r] = queue[Place(r)].id]
  /\ UNCHANGED <<config, counters, queue, outstanding, order, pos, row, receiverVars>>

\* Mutation: the row is taken from the wrong counter.
AllocateRowByDone(r) ==
  LET b == queue[Place(r)]
  IN  /\ Step(r, "allocate", IF b.allocCount < Batch THEN "write" ELSE "thrown")
      /\ queue' = [queue EXCEPT ![Place(r)].allocCount = @ + 1]
      /\ row' = [row EXCEPT ![r] = IF order[r] # -1 THEN order[r] ELSE b.doneCount]
      /\ UNCHANGED <<config, counters, outstanding, order, pos, pointer, receiverVars>>

\* Mutation: rows are handed out in the order of arrival.
AllocateRowUnordered(r) ==
  LET b == queue[Place(r)]
  IN  /\ Step(r, "allocate", IF b.allocCount < Batch THEN "write" ELSE "thrown")
      /\ queue' = [queue EXCEPT ![Place(r)].allocCount = @ + 1]
      /\ row' = [row EXCEPT ![r] = b.allocCount]
      /\ UNCHANGED <<config, counters, outstanding, order, pos, pointer, receiverVars>>

\* StateBuffer::Allocate, whose two fetch_adds module StateBuffer takes apart.
AllocateRow(r) ==
  LET b == queue[Place(r)]
  IN  /\ Step(r, "allocate", IF b.allocCount < Batch THEN "write" ELSE "thrown")
      /\ queue' = [queue EXCEPT ![Place(r)].allocCount = @ + 1]
      /\ row' = [row EXCEPT ![r] = IF order[r] # -1 THEN order[r] ELSE b.allocCount]
      /\ UNCHANGED <<config, counters, outstanding, order, pos, pointer, receiverVars>>

WriteRow(r) ==
  /\ Step(r, "write", "done")
  /\ queue' = [queue EXCEPT ![Place(r)].rows[row[r]] = r]
  /\ UNCHANGED <<config, counters, outstanding, order, pos, pointer, row, receiverVars>>

Completes(b, num) == b.doneCount + num = Batch

Done(r) ==
  /\ Step(r, "done", IF Completes(queue[Place(r)], 1) THEN "signal" ELSE "ready")
  /\ queue' = [queue EXCEPT ![Place(r)].doneCount = @ + 1]
  /\ UNCHANGED <<config, counters, outstanding, order, pos, pointer, row, receiverVars>>

Signal(r) ==
  /\ Step(r, "signal", "ready")
  /\ queue' = [queue EXCEPT ![Place(r)].sem = @ + 1]
  /\ UNCHANGED <<config, counters, outstanding, order, pos, pointer, row, receiverVars>>

----------------------------------------------------------------------------
(* Wait *)

\* The pool asks for the rows that are not stepping to be counted as done.
WaitCall ==
  /\ ReceiverStep("idle", "head")
  /\ outstanding = {} => allocCount < MaxPositions
  /\ additional' = IF IsSync THEN Batch - Cardinality(outstanding) ELSE 0
  /\ UNCHANGED <<config, counters, queue, outstanding, requestVars, block, arr>>

\* Mutation: the head is read off the allocation counter.
TakeHeadNewest ==
  /\ ReceiverStep("head", IF additional > 0 THEN "done" ELSE "wait")
  /\ block' = allocCount \div Batch
  /\ donePtr' = donePtr + 1
  /\ UNCHANGED <<config, allocCount, queue, outstanding, requestVars, additional, arr>>

TakeHead ==
  /\ ReceiverStep("head", IF additional > 0 THEN "done" ELSE "wait")
  /\ block' = donePtr
  /\ donePtr' = donePtr + 1
  /\ UNCHANGED <<config, allocCount, queue, outstanding, requestVars, additional, arr>>

Head_ == queue[Offset(block)]

WaitDone ==
  /\ ReceiverStep("done", IF Completes(Head_, additional) THEN "signal" ELSE "wait")
  /\ queue' = [queue EXCEPT ![Offset(block)].doneCount = @ + additional]
  /\ UNCHANGED <<config, counters, outstanding, requestVars, block, additional, arr>>

WaitSignal ==
  /\ ReceiverStep("signal", "wait")
  /\ queue' = [queue EXCEPT ![Offset(block)].sem = @ + 1]
  /\ UNCHANGED <<config, counters, outstanding, requestVars, block, additional, arr>>

\* Mutations: the receiver does not block.
WaitSemUnchecked ==
  /\ ReceiverStep("wait", "truncate")
  /\ queue' = [queue EXCEPT ![Offset(block)].sem = @ - 1]
  /\ UNCHANGED <<config, counters, outstanding, requestVars, block, additional, arr>>

WaitSemSkipped ==
  /\ ReceiverStep("wait", "truncate")
  /\ UNCHANGED <<config, counters, queue, outstanding, requestVars, block, additional, arr>>

WaitSem ==
  /\ ReceiverStep("wait", "truncate")
  /\ Head_.sem > 0
  /\ queue' = [queue EXCEPT ![Offset(block)].sem = @ - 1]
  /\ UNCHANGED <<config, counters, outstanding, requestVars, block, additional, arr>>

Lesser(m, n) == IF m < n THEN m ELSE n

\* The rows up to shared_offset, the number of rows handed out.
TruncateRows ==
  /\ ReceiverStep("truncate", IF additional > 0 THEN "skip" ELSE "swap")
  /\ arr' = [k \in 1..Lesser(Head_.allocCount, Batch) |-> Head_.rows[k - 1]]
  /\ UNCHANGED <<config, counters, queue, outstanding, requestVars, block, additional>>

\* Mutation: the positions nobody took are not skipped.
SkipPositionsForgotten ==
  /\ ReceiverStep("skip", "swap")
  /\ UNCHANGED <<config, counters, queue, outstanding, requestVars, block, additional, arr>>

SkipPositions ==
  /\ ReceiverStep("skip", "swap")
  /\ allocCount' = allocCount + additional
  /\ UNCHANGED <<config, donePtr, queue, outstanding, requestVars, block, additional, arr>>

\* std::swap of the two unique_ptrs moves the old one out before the new one in;
\* in between queue_ holds a null pointer.
SwapOut ==
  /\ ReceiverStep("swap", "swapping")
  /\ UNCHANGED <<config, counters, queue, outstanding, requestVars, block, additional, arr>>

SwapIn ==
  /\ ReceiverStep("swapping", "return")
  /\ queue' = [queue EXCEPT ![Offset(block)] = Fresh(@.id + 1)]
  /\ UNCHANGED <<config, counters, outstanding, requestVars, block, additional, arr>>

RowsOf(a) == {a[k] : k \in DOMAIN a}

\* The old buffer is destroyed and the caller may use what it received.
Return ==
  /\ ReceiverStep("return", "idle")
  /\ outstanding' = outstanding \ RowsOf(arr)
  /\ pc' = [r \in Requests |-> IF r \in RowsOf(arr) THEN "idle" ELSE pc[r]]
  /\ order' = [r \in Requests |-> IF r \in RowsOf(arr) THEN -1 ELSE order[r]]
  /\ pos' = [r \in Requests |-> IF r \in RowsOf(arr) THEN 0 ELSE pos[r]]
  /\ pointer' = [r \in Requests |-> IF r \in RowsOf(arr) THEN 0 ELSE pointer[r]]
  /\ row' = [r \in Requests |-> IF r \in RowsOf(arr) THEN 0 ELSE row[r]]
  /\ arr' = <<>> /\ block' = 0 /\ additional' = 0
  /\ UNCHANGED <<config, counters, queue>>

----------------------------------------------------------------------------
Allocate(r) == TakePosition(r) \/ ReadPointer(r) \/ AllocateRow(r)

Request(r) == Allocate(r) \/ WriteRow(r) \/ Done(r) \/ Signal(r)

Wait ==
  \/ TakeHead \/ WaitDone \/ WaitSignal \/ WaitSem
  \/ TruncateRows \/ SkipPositions \/ SwapOut \/ SwapIn \/ Return

Next ==
  \/ BeginRound \/ WaitCall \/ Wait
  \/ \E r \in Requests : Begin(r) \/ Request(r)

Spec == Init /\ [][Next]_vars

----------------------------------------------------------------------------
BufferType ==
  [id : Nat, allocCount : Nat, doneCount : 0..Batch, sem : 0..1,
   rows : [0..(Batch - 1) -> Requests \cup {Null}]]

\* The variables range over what the code declares; no buffer is reported done
\* more often than its quota or signalled twice.
TypeOK ==
  /\ config \in Configs
  /\ allocCount \in Nat /\ donePtr \in Nat
  /\ DOMAIN queue = 0..(QueueSize - 1)
  /\ \A k \in DOMAIN queue : queue[k] \in BufferType
  /\ outstanding \subseteq Requests
  /\ pc \in [Requests -> {"idle", "position", "pointer", "allocate", "thrown",
                          "write", "done", "signal", "ready"}]
  /\ order \in [Requests -> -1..(Batch - 1)]
  /\ pos \in [Requests -> Nat] /\ pointer \in [Requests -> Nat]
  /\ row \in [Requests -> 0..Batch]
  /\ rpc \in {"idle", "head", "done", "signal", "wait", "truncate", "skip",
              "swap", "swapping", "return"}
  /\ block \in Nat /\ additional \in 0..Batch
  /\ arr \in Seq(Requests \cup {Null})

\* The ring has room for every request that can be outstanding: no Allocate
\* throws out_of_range, which no worker would catch.
NoOverflow == \A r \in Requests : pc[r] # "thrown"

\* No worker uses a buffer that Wait has replaced, and none looks up its buffer
\* while Wait is replacing the one at its place of the ring.
NoStaleBuffer ==
  \A r \in Requests :
    /\ pc[r] \in {"allocate", "write", "done", "signal"} =>
         pointer[r] = queue[Place(r)].id
    /\ pc[r] \in {"pointer", "allocate", "write", "done", "signal"} =>
         ~(rpc \in {"truncate", "skip", "swap", "swapping"} /\ Place(r) = Offset(block))

\* What Wait returns is a full batch of different requests, all of which have
\* finished writing: none is lost, none is delivered twice, no row is blank.
BatchIsComplete ==
  rpc = "return" =>
    /\ Len(arr) = Batch - additional
    /\ \A j, k \in DOMAIN arr : arr[j] = arr[k] => j = k
    /\ \A k \in DOMAIN arr : arr[k] \in outstanding /\ pc[arr[k]] = "ready"

\* Batches leave in the order in which their positions were taken: whatever is
\* still outstanding was allocated behind the batch that is returned.
OldestFirst ==
  rpc = "return" =>
    \A r \in outstanding \ RowsOf(arr) :
      pc[r] # "position" => \A k \in DOMAIN arr : pos[arr[k]] < pos[r]

\* In synchronous mode row i is the answer of the i-th env of the Send, and the
\* Send is answered by one Wait.
SyncOrder ==
  IsSync /\ rpc = "return" =>
    /\ RowsOf(arr) = outstanding
    /\ \A k \in DOMAIN arr : order[arr[k]] = k - 1

\* Between rounds the allocation counter stands at the start of the block that
\* the next Wait will take, however few envs the rounds stepped.
AlignedBetweenRounds ==
  IsSync /\ rpc = "idle" /\ outstanding = {} => allocCount = donePtr * Batch


----------------------------------------------------------------------------
(***************************************************************************)
(* The inductive invariant behind the properties above, in named parts.    *)
(***************************************************************************)
Bit(condition) == IF condition THEN 1 ELSE 0

\* The requests that have a position, and the block the next Return takes away.
Placed == {r \in Requests : pc[r] \notin {"idle", "position"}}
HeadBlock == IF rpc \in {"idle", "head"} THEN donePtr ELSE block

\* What Wait has skipped of the positions of its block.
Skipped == IF rpc \in {"swap", "swapping", "return"} THEN additional ELSE 0

\* The callers' protocol.
ProtocolInv ==
  /\ \A r \in Requests : r \in outstanding <=> pc[r] # "idle"
  /\ rpc \notin {"idle", "head"} => donePtr = block + 1
  /\ rpc \in {"done", "signal", "skip"} => additional > 0
  /\ rpc = "idle" => additional = 0
  /\ ~IsSync => additional = 0 /\ \A r \in Requests : order[r] = -1
  /\ IsSync =>
       /\ rpc # "idle" => additional = Batch - Cardinality(outstanding)
       /\ outstanding \subseteq Envs
       /\ \A r \in outstanding : order[r] \in 0..(Cardinality(outstanding) - 1)
       /\ \A q, r \in outstanding : order[q] = order[r] => q = r
       /\ \A k \in 0..(Cardinality(outstanding) - 1) : \E r \in outstanding : order[r] = k

\* The positions in use fill a window that starts with the head's block.
WindowInv ==
  /\ \A r \in Placed : HeadBlock * Batch <= pos[r] /\ pos[r] < allocCount - Skipped
  /\ \A q, r \in Placed : pos[q] = pos[r] => q = r
  /\ HeadBlock * Batch + Cardinality(Placed) + Skipped = allocCount

\* The requests whose buffer is at place k, unless Wait has just replaced it, and
\* how far they are.
Collected(r) == rpc = "return" /\ BlockOf(r) = block
Users(k) == {r \in Placed : Place(r) = k /\ ~Collected(r)}
Allocated(k) == {r \in Users(k) : pc[r] \in {"write", "done", "signal", "ready"}}
Reported(k) == {r \in Users(k) : pc[r] \in {"signal", "ready"}}
Signalling(k) == {r \in Users(k) : pc[r] = "signal"}

IsHead(k, stages) == rpc \in stages /\ k = Offset(block)
Added(k) ==
  IF IsHead(k, {"signal", "wait", "truncate", "skip", "swap", "swapping"})
  THEN additional ELSE 0

\* A buffer counts its users, and has one signal once its quota is complete.
CountAt(k) ==
  LET b == queue[k]
  IN  /\ b.allocCount = Cardinality(Allocated(k))
      /\ b.doneCount = Cardinality(Reported(k)) + Added(k)
      /\ b.sem + Cardinality(Signalling(k)) + Bit(IsHead(k, {"signal"}))
           + Bit(IsHead(k, {"truncate", "skip", "swap", "swapping"}))
         = Bit(b.doneCount = Batch)

\* The users of a buffer have rows of their own, and without an order these are
\* the rows handed out so far; what they wrote is still there.
RowAt(k) ==
  /\ \A r \in Allocated(k) :
       IF IsSync THEN row[r] = order[r] ELSE row[r] < queue[k].allocCount
  /\ \A q, r \in Allocated(k) : row[q] = row[r] => q = r
  /\ ~IsSync => \A n \in 0..(queue[k].allocCount - 1) : \E r \in Allocated(k) : row[r] = n
  /\ \A r \in Allocated(k) : pc[r] # "write" => queue[k].rows[row[r]] = r

CountInv == \A k \in DOMAIN queue : CountAt(k)
RowInv == \A k \in DOMAIN queue : RowAt(k)

\* A worker looks at the buffer that is in its place.
PointerInv ==
  \A r \in Requests :
    pc[r] \in {"allocate", "write", "done", "signal"} => pointer[r] = queue[Place(r)].id

\* From the truncation on, arr lists the requests of the head's block.
BatchInv ==
  rpc \in {"skip", "swap", "swapping", "return"} =>
    /\ Len(arr) = Batch - additional
    /\ \A k \in DOMAIN arr :
         arr[k] \in Placed /\ pc[arr[k]] = "ready" /\ BlockOf(arr[k]) = block
           /\ row[arr[k]] = k - 1
    /\ \A r \in Placed : BlockOf(r) = block => r \in RowsOf(arr)
    /\ IsSync => RowsOf(arr) = outstanding /\ \A k \in DOMAIN arr : order[arr[k]] = k - 1

\* The positions in use are a window that starts with the head's block and fits into the
\* ring, and each buffer counts, holds and signals what its users have done.
IInv ==
  /\ TypeOK /\ ProtocolInv /\ WindowInv /\ CountInv /\ RowInv
  /\ PointerInv /\ BatchInv /\ NoOverflow

----------------------------------------------------------------------------
(* The instance of StateBufferQueue.cfg. *)
Symmetry == Permutations(Envs)

\* Batches of two of three envs, and all three in the order asked.
BothModes == {[batch |-> 2, isSync |-> FALSE], [batch |-> NumEnvs, isSync |-> TRUE]}
=============================================================================
