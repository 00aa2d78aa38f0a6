----------------------------- MODULE ActionFifo -----------------------------
(***************************************************************************)
(* What ActionBufferQueue promises its callers: a bulk of action slices    *)
(* becomes available as a whole and in order, behind every bulk that       *)
(* became available earlier, and each slice is handed to one worker.       *)
(***************************************************************************)
EXTENDS Sequences

CONSTANTS
  Senders,   \* threads that call EnqueueBulk
  Workers,   \* threads that call Dequeue
  Bulks,     \* the bulks a sender may pass
  NoSlice    \* "this worker has been handed nothing"

VARIABLES
  request,   \* request[s]: the bulk s has passed and that is not yet available
  fifo,      \* the slices available, oldest first
  got        \* got[w]: the slice w has taken and not yet returned

vars == <<request, fifo, got>>

Init ==
  /\ request = [s \in Senders |-> <<>>]
  /\ fifo = <<>>
  /\ got = [w \in Workers |-> NoSlice]

Call(s) ==
  /\ request[s] = <<>>
  /\ \E b \in Bulks : request' = [request EXCEPT ![s] = b]
  /\ UNCHANGED <<fifo, got>>

Put(s) ==
  /\ fifo' = fifo \o request[s]
  /\ request' = [request EXCEPT ![s] = <<>>]
  /\ UNCHANGED got

Take(w) ==
  /\ got[w] = NoSlice
  /\ fifo # <<>>
  /\ got' = [got EXCEPT ![w] = Head(fifo)]
  /\ fifo' = Tail(fifo)
  /\ UNCHANGED request

Return(w) ==
  /\ got' = [got EXCEPT ![w] = NoSlice]
  /\ UNCHANGED <<request, fifo>>

Next ==
  \/ \E s \in Senders : Call(s) \/ Put(s)
  \/ \E w \in Workers : Take(w) \/ Return(w)

Spec == Init /\ [][Next]_vars
=============================================================================
