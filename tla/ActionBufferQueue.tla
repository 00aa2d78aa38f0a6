------------------------- MODULE ActionBufferQueue -------------------------
(***************************************************************************)
(* core/action_buffer_queue.h: the ring through which Send, Reset and the  *)
(* destructor hand action slices to the workers.  Each action below is one *)
(* atomic step of EnqueueBulk or Dequeue: a semaphore operation, a         *)
(* fetch_add, or the access to one slot.                                   *)
(*                                                                         *)
(* The queue never checks that a slot is free before it writes it.  What   *)
(* keeps it from overwriting is the protocol of its callers: a slice (an   *)
(* env together with what is asked of it) is not enqueued again while it   *)
(* is outstanding, and there are at most 2 * NumEnvs different slices.     *)
(***************************************************************************)
EXTENDS Integers, Sequences, FiniteSets

CONSTANTS
  Senders,      \* threads that call EnqueueBulk
  Workers,      \* threads that call Dequeue
  Slices,       \* the action slices
  NoSlice,      \* what a fresh slot or local variable holds
  NumEnvs,      \* the constructor's argument
  MaxBulk,      \* bound: the longest bulk
  MaxEnqueued   \* bound: no call starts once this many slices were enqueued

ASSUME ThreadsAssumption == IsFiniteSet(Senders) /\ IsFiniteSet(Workers)
ASSUME NumEnvsAssumption == NumEnvs \in Nat \ {0}
ASSUME BoundsAssumption == MaxBulk \in Nat /\ MaxEnqueued \in Nat
ASSUME SlicesAssumption ==
  /\ IsFiniteSet(Slices)
  /\ Cardinality(Slices) <= 2 * NumEnvs
  /\ NoSlice \notin Slices

\* Mutation: one slot per env.
QueueSizeOnePerEnv == NumEnvs

QueueSize == NumEnvs * 2

VARIABLES
  allocPtr, donePtr,        \* alloc_ptr_, done_ptr_
  queue,                    \* queue_
  sem, semEnqueue, semDequeue,
  spc, batch, pos, i,       \* EnqueueBulk: pc, argument and locals, by sender
  wpc, ptr, ret,            \* Dequeue: pc and locals, by worker
  outstanding,              \* the callers' view: passed in and not yet returned
  sent                      \* history: every slice in the order of its position

queueVars == <<allocPtr, donePtr, queue, sem, semEnqueue, semDequeue>>
senderVars == <<spc, batch, pos, i>>
workerVars == <<wpc, ptr, ret>>
vars == <<queueVars, senderVars, workerVars, outstanding, sent>>

\* The bulks a caller passes: no slice twice.  (An empty bulk only passes through
\* sem_enqueue_; it is left out.)
Bulks ==
  UNION {{b \in [1..n -> Slices] : \A j, k \in 1..n : b[j] = b[k] => j = k}
          : n \in 1..MaxBulk}

SlicesOf(b) == {b[k] : k \in DOMAIN b}

Init ==
  /\ allocPtr = 0 /\ donePtr = 0
  /\ queue = [k \in 0..(QueueSize - 1) |-> NoSlice]
  /\ sem = 0 /\ semEnqueue = 1 /\ semDequeue = 1
  /\ spc = [s \in Senders |-> "idle"]
  /\ batch = [s \in Senders |-> <<>>]
  /\ pos = [s \in Senders |-> 0]
  /\ i = [s \in Senders |-> 0]
  /\ wpc = [w \in Workers |-> "wait"]
  /\ ptr = [w \in Workers |-> 0]
  /\ ret = [w \in Workers |-> NoSlice]
  /\ outstanding = {}
  /\ sent = <<>>

SenderStep(s, from, to) == spc[s] = from /\ spc' = [spc EXCEPT ![s] = to]
WorkerStep(w, from, to) == wpc[w] = from /\ wpc' = [wpc EXCEPT ![w] = to]

----------------------------------------------------------------------------
(* EnqueueBulk *)

Call(s) ==
  /\ SenderStep(s, "idle", "lock")
  /\ Len(sent) < MaxEnqueued
  /\ \E b \in Bulks :
       /\ SlicesOf(b) \cap outstanding = {}
       /\ batch' = [batch EXCEPT ![s] = b]
       /\ outstanding' = outstanding \cup SlicesOf(b)
  /\ UNCHANGED <<queueVars, pos, i, workerVars, sent>>

\* Mutation: the result of sem_enqueue_.wait() is ignored.
LockEnqueueUnchecked(s) ==
  /\ SenderStep(s, "lock", "alloc")
  /\ UNCHANGED <<queueVars, batch, pos, i, workerVars, outstanding, sent>>

LockEnqueue(s) ==
  /\ SenderStep(s, "lock", "alloc")
  /\ semEnqueue > 0
  /\ semEnqueue' = semEnqueue - 1
  /\ UNCHANGED <<allocPtr, donePtr, queue, sem, semDequeue,
                 batch, pos, i, workerVars, outstanding, sent>>

AllocPositions(s) ==
  /\ SenderStep(s, "alloc", "write")
  /\ pos' = [pos EXCEPT ![s] = allocPtr]
  /\ i' = [i EXCEPT ![s] = 0]
  /\ allocPtr' = allocPtr + Len(batch[s])
  /\ sent' = sent \o batch[s]
  /\ UNCHANGED <<donePtr, queue, sem, semEnqueue, semDequeue,
                 batch, workerVars, outstanding>>

WriteSlot(s) ==
  /\ spc[s] = "write"
  /\ i[s] < Len(batch[s])
  /\ queue' = [queue EXCEPT ![(pos[s] + i[s]) % QueueSize] = batch[s][i[s] + 1]]
  /\ i' = [i EXCEPT ![s] = @ + 1]
  /\ UNCHANGED <<allocPtr, donePtr, sem, semEnqueue, semDequeue,
                 spc, batch, pos, workerVars, outstanding, sent>>

\* Mutation: the slots are announced before the last one is written.
PublishEarly(s) ==
  /\ SenderStep(s, "write", "unlock")
  /\ i[s] + 1 >= Len(batch[s])
  /\ sem' = sem + Len(batch[s])
  /\ UNCHANGED <<allocPtr, donePtr, queue, semEnqueue, semDequeue,
                 batch, pos, i, workerVars, outstanding, sent>>

Publish(s) ==
  /\ SenderStep(s, "write", "unlock")
  /\ i[s] = Len(batch[s])
  /\ sem' = sem + Len(batch[s])
  /\ UNCHANGED <<allocPtr, donePtr, queue, semEnqueue, semDequeue,
                 batch, pos, i, workerVars, outstanding, sent>>

\* Mutation: sem_enqueue_ is not given back.
UnlockEnqueueForgotten(s) ==
  /\ SenderStep(s, "unlock", "idle")
  /\ UNCHANGED <<queueVars, batch, pos, i, workerVars, outstanding, sent>>

UnlockEnqueue(s) ==
  /\ SenderStep(s, "unlock", "idle")
  /\ semEnqueue' = semEnqueue + 1
  /\ UNCHANGED <<allocPtr, donePtr, queue, sem, semDequeue,
                 batch, pos, i, workerVars, outstanding, sent>>

----------------------------------------------------------------------------
(* Dequeue *)

\* Mutation: the result of sem_.wait() is ignored.
WaitItemUnchecked(w) ==
  /\ WorkerStep(w, "wait", "lock")
  /\ UNCHANGED <<queueVars, senderVars, ptr, ret, outstanding, sent>>

WaitItem(w) ==
  /\ WorkerStep(w, "wait", "lock")
  /\ sem > 0
  /\ sem' = sem - 1
  /\ UNCHANGED <<allocPtr, donePtr, queue, semEnqueue, semDequeue,
                 senderVars, ptr, ret, outstanding, sent>>

LockDequeue(w) ==
  /\ WorkerStep(w, "lock", "claim")
  /\ semDequeue > 0
  /\ semDequeue' = semDequeue - 1
  /\ UNCHANGED <<allocPtr, donePtr, queue, sem, semEnqueue,
                 senderVars, ptr, ret, outstanding, sent>>

ClaimSlot(w) ==
  /\ WorkerStep(w, "claim", "read")
  /\ ptr' = [ptr EXCEPT ![w] = donePtr]
  /\ donePtr' = donePtr + 1
  /\ UNCHANGED <<allocPtr, queue, sem, semEnqueue, semDequeue,
                 senderVars, ret, outstanding, sent>>

ReadSlot(w) ==
  /\ WorkerStep(w, "read", "unlock")
  /\ ret' = [ret EXCEPT ![w] = queue[ptr[w] % QueueSize]]
  /\ UNCHANGED <<queueVars, senderVars, ptr, outstanding, sent>>

\* The caller learns what it was handed, and may enqueue it again at once.
UnlockDequeue(w) ==
  /\ WorkerStep(w, "unlock", "wait")
  /\ semDequeue' = semDequeue + 1
  /\ outstanding' = outstanding \ {ret[w]}
  /\ UNCHANGED <<allocPtr, donePtr, queue, sem, semEnqueue,
                 senderVars, ptr, ret, sent>>

SizeApprox == allocPtr - donePtr

----------------------------------------------------------------------------
Enqueue(s) ==
  LockEnqueue(s) \/ AllocPositions(s) \/ WriteSlot(s) \/ Publish(s) \/ UnlockEnqueue(s)

Dequeue(w) ==
  WaitItem(w) \/ LockDequeue(w) \/ ClaimSlot(w) \/ ReadSlot(w) \/ UnlockDequeue(w)

Next ==
  \/ \E s \in Senders : Call(s) \/ Enqueue(s)
  \/ \E w \in Workers : Dequeue(w)

\* The scheduler runs every thread; nobody is obliged to call EnqueueBulk.
Fairness ==
  /\ \A s \in Senders : WF_vars(Enqueue(s))
  /\ \A w \in Workers : WF_vars(Dequeue(w))

Spec == Init /\ [][Next]_vars
FairSpec == Spec /\ Fairness

----------------------------------------------------------------------------
\* The variables range over what the code declares; the two inner semaphores
\* stay binary and the workers never run ahead of the positions handed out.
TypeOK ==
  /\ allocPtr \in Nat /\ donePtr \in 0..allocPtr
  /\ queue \in [0..(QueueSize - 1) -> Slices \cup {NoSlice}]
  /\ sem \in Nat /\ semEnqueue \in 0..1 /\ semDequeue \in 0..1
  /\ spc \in [Senders -> {"idle", "lock", "alloc", "write", "unlock"}]
  /\ batch \in [Senders -> Seq(Slices)]
  /\ pos \in [Senders -> Nat]
  /\ i \in [Senders -> Nat]
  /\ wpc \in [Workers -> {"wait", "lock", "claim", "read", "unlock"}]
  /\ ptr \in [Workers -> Nat]
  /\ ret \in [Workers -> Slices \cup {NoSlice}]
  /\ outstanding \subseteq Slices
  /\ sent \in Seq(Slices)

\* The workers that have consumed a token of sem_ and not yet a position.
Holding == {w \in Workers : wpc[w] \in {"lock", "claim"}}

\* A Dequeue returns the slice that was enqueued at its position: not an older
\* one left in the slot, not a newer one written over it, never a blank slot.
DequeueReturnsSent ==
  \A w \in Workers : wpc[w] = "unlock" => ret[w] = sent[ptr[w] + 1]

\* No sender writes a slot while a worker copies it: queue_ is plain memory, so
\* such a pair of accesses would be a data race.
NoSlotRace ==
  \A s \in Senders, w \in Workers :
    /\ spc[s] = "write" /\ i[s] < Len(batch[s])
    /\ wpc[w] = "read"
    => (pos[s] + i[s]) % QueueSize # ptr[w] % QueueSize

\* EnqueueBulk/Dequeue implement the abstract FIFO: the tokens of sem_, those
\* held by workers included, are exactly the slices that are available, and the
\* slots they stand for hold them in order.
Fifo ==
  INSTANCE ActionFifo WITH
    request <- [s \in Senders |->
                  IF spc[s] \in {"lock", "alloc", "write"} THEN batch[s] ELSE <<>>],
    fifo <- [k \in 1..(sem + Cardinality(Holding)) |->
               queue[(donePtr + k - 1) % QueueSize]],
    got <- [w \in Workers |->
              CASE wpc[w] = "read" -> queue[ptr[w] % QueueSize]
                [] wpc[w] = "unlock" -> ret[w]
                [] OTHER -> NoSlice]
ImplementsFifo == Fifo!Spec

\* Every slice that was passed to EnqueueBulk is handed to a worker.
EverySliceDelivered ==
  \A a \in Slices : a \in outstanding ~> a \notin outstanding
----------------------------------------------------------------------------
(***************************************************************************)
(* The inductive invariant behind DequeueReturnsSent and NoSlotRace, in    *)
(* named parts.                                                            *)
(***************************************************************************)
InEnqueue == {s \in Senders : spc[s] \in {"alloc", "write", "unlock"}}
InDequeue == {w \in Workers : wpc[w] \in {"claim", "read", "unlock"}}
Reading == {w \in Workers : wpc[w] \in {"read", "unlock"}}

\* The senders whose bulk has no positions yet.
Pending == {s \in Senders : spc[s] \in {"lock", "alloc"}}

\* The positions whose slice has not been returned to a caller.
Window == (donePtr..(allocPtr - 1)) \cup {ptr[w] : w \in Reading}

\* Position k has been written: no sender still has to do it.
Filled(k) == \A s \in Senders : spc[s] = "write" => k < pos[s] + i[s]

\* sem_enqueue_ and sem_dequeue_ are locks.
MutexInv ==
  /\ semEnqueue = 1 => InEnqueue = {}
  /\ \A s, t \in InEnqueue : s = t
  /\ semDequeue = 1 => InDequeue = {}
  /\ \A v, w \in InDequeue : v = w

\* The tokens of sem_, with those that workers hold, count the positions from
\* donePtr on that are filled; a bulk being written has the last positions.
PositionInv ==
  /\ allocPtr = Len(sent)
  /\ \A s \in Senders : spc[s] = "write" =>
       /\ pos[s] + Len(batch[s]) = allocPtr /\ i[s] <= Len(batch[s])
       /\ donePtr + sem + Cardinality(Holding) = pos[s]
       /\ \A j \in 1..Len(batch[s]) : sent[pos[s] + j] = batch[s][j]
  /\ (\A s \in Senders : spc[s] # "write") =>
       donePtr + sem + Cardinality(Holding) = allocPtr
  /\ \A w \in Reading : ptr[w] = donePtr - 1

\* The slices in the window and in the pending bulks are outstanding and all
\* different; this is what the callers' protocol comes to, and bounds the window.
OutstandingInv ==
  /\ \A k \in Window : sent[k + 1] \in outstanding
  /\ \A j, k \in Window : sent[j + 1] = sent[k + 1] => j = k
  /\ \A s \in Pending : \A j \in 1..Len(batch[s]) :
       /\ batch[s][j] \in outstanding
       /\ \A k \in 1..Len(batch[s]) : batch[s][j] = batch[s][k] => j = k
       /\ \A k \in Window : sent[k + 1] # batch[s][j]
  /\ \A s, t \in Pending : s # t =>
       \A j \in 1..Len(batch[s]), k \in 1..Len(batch[t]) : batch[s][j] # batch[t][k]

\* Every filled slot of the window holds the slice that was sent.
ContentInv ==
  /\ \A k \in Window : Filled(k) => queue[k % QueueSize] = sent[k + 1]
  /\ DequeueReturnsSent

\* What every step of EnqueueBulk and Dequeue preserves; proved in module
\* ActionBufferQueueProof.
IInv == TypeOK /\ MutexInv /\ PositionInv /\ OutstandingInv /\ ContentInv
=============================================================================
