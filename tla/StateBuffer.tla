---------------------------- MODULE StateBuffer ----------------------------
(***************************************************************************)
(* core/state_buffer.h: one block of the state buffer queue.  Workers      *)
(* allocate rows in it without a lock, write them, and report them done;   *)
(* the receiver waits until the quota of Batch rows is accounted for.      *)
(*                                                                         *)
(* A request is one Allocate/Done pair: a worker that runs one env.  Each  *)
(* action is one atomic step of the code: a fetch_add, the semaphore, or   *)
(* the access to the memory that was allocated.                            *)
(***************************************************************************)
EXTENDS Integers, FiniteSets

CONSTANTS
  Requests,        \* the Allocate calls this buffer may get
  Batch,           \* batch_
  MostPlayers,     \* bound on max_num_players_
  Half,            \* 2^32: offsets_ packs two counters of this range
  Nobody           \* what an unwritten row holds

ASSUME RequestsAssumption == IsFiniteSet(Requests) /\ Nobody \notin Requests
ASSUME SizeAssumption ==
  /\ Batch \in Nat \ {0} /\ MostPlayers \in Nat \ {0}
  /\ Half \in Nat /\ Batch * MostPlayers < Half

VARIABLES
  maxNumPlayers,            \* max_num_players_, set by the constructor
  allocCount, offsets, doneCount, sem,
  playerRows, sharedRows,   \* arrays_: who wrote each row
  numPlayers, order,        \* the arguments of each request
  pc, playerOffset, sharedOffset,
  additional,               \* Wait's argument
  rpc, result               \* the receiver and the two sizes it returns

counters == <<allocCount, offsets, doneCount, sem>>
rows == <<playerRows, sharedRows>>
arguments == <<maxNumPlayers, numPlayers, order, additional>>
vars == <<counters, rows, arguments, pc, playerOffset, sharedOffset, rpc, result>>

\* The requests that are made at all.
Made == {r \in Requests : pc[r] # "absent"}

\* The calls the pool makes.  With additional rows, or with an order (the slot
\* of the env in the last Send), the requests are exactly what is left of the
\* quota and their orders are 0, 1, ...; otherwise there may be more of them
\* than the buffer has room for.
CallsAllowed ==
  LET n == Cardinality(Made)
      unordered == order = [r \in Requests |-> -1]
      ordered == {order[r] : r \in Made} = 0..(n - 1)
  IN  /\ \A r \in Requests \ Made : order[r] = -1 /\ numPlayers[r] = 1
      /\ additional > 0 => n = Batch - additional
      /\ unordered \/ (ordered /\ n = Batch - additional /\ maxNumPlayers = 1)

Init ==
  /\ maxNumPlayers \in 1..MostPlayers
  /\ allocCount = 0 /\ offsets = 0 /\ doneCount = 0 /\ sem = 0
  /\ playerRows = [k \in 0..(Batch * maxNumPlayers - 1) |-> Nobody]
  /\ sharedRows = [k \in 0..(Batch - 1) |-> Nobody]
  /\ pc \in [Requests -> {"count", "absent"}]
  /\ numPlayers \in [Requests -> 1..maxNumPlayers]
  /\ order \in [Requests -> -1..(Batch - 1)]
  /\ additional \in 0..Batch
  /\ CallsAllowed
  /\ playerOffset = [r \in Requests |-> 0]
  /\ sharedOffset = [r \in Requests |-> 0]
  /\ rpc = "call"
  /\ result = <<0, 0>>

Step(r, from, to) == pc[r] = from /\ pc' = [pc EXCEPT ![r] = to]
ReceiverStep(from, to) == rpc = from /\ rpc' = to

\* The two halves of the packed word, as Allocate, Offsets and Wait take it apart.
PlayerHalf(word) == word \div Half
SharedHalf(word) == word % Half

----------------------------------------------------------------------------
(* Allocate *)

\* Mutation: the quota is not checked.
CountAllocationUnlimited(r) ==
  /\ Step(r, "count", "offset")
  /\ allocCount' = allocCount + 1
  /\ UNCHANGED <<offsets, doneCount, sem, rows, arguments,
                 playerOffset, sharedOffset, rpc, result>>

CountAllocation(r) ==
  /\ Step(r, "count", IF allocCount < Batch THEN "offset" ELSE "thrown")
  /\ allocCount' = allocCount + 1
  /\ UNCHANGED <<offsets, doneCount, sem, rows, arguments,
                 playerOffset, sharedOffset, rpc, result>>

Increment(n) == n * Half + 1

\* Mutation: the order of the request is ignored.
TakeOffsetsUnordered(r) ==
  /\ Step(r, "offset", "write")
  /\ offsets' = (offsets + Increment(numPlayers[r])) % (Half * Half)
  /\ playerOffset' = [playerOffset EXCEPT ![r] = PlayerHalf(offsets)]
  /\ sharedOffset' = [sharedOffset EXCEPT ![r] = SharedHalf(offsets)]
  /\ UNCHANGED <<allocCount, doneCount, sem, rows, arguments, rpc, result>>

\* Mutation: offsets_ counts rows and not players.
TakeOffsetsPerRow(r) ==
  /\ Step(r, "offset", "write")
  /\ offsets' = (offsets + Increment(1)) % (Half * Half)
  /\ playerOffset' = [playerOffset EXCEPT ![r] = PlayerHalf(offsets)]
  /\ sharedOffset' = [sharedOffset EXCEPT ![r] = SharedHalf(offsets)]
  /\ UNCHANGED <<allocCount, doneCount, sem, rows, arguments, rpc, result>>

TakeOffsets(r) ==
  LET isOrdered == order[r] # -1 /\ maxNumPlayers = 1
  IN  /\ Step(r, "offset", "write")
      /\ offsets' = (offsets + Increment(numPlayers[r])) % (Half * Half)
      /\ playerOffset' = [playerOffset EXCEPT ![r] =
                            IF isOrdered THEN order[r] ELSE PlayerHalf(offsets)]
      /\ sharedOffset' = [sharedOffset EXCEPT ![r] =
                            IF isOrdered THEN order[r] ELSE SharedHalf(offsets)]
      /\ UNCHANGED <<allocCount, doneCount, sem, rows, arguments, rpc, result>>

\* The rows of playerRows that Allocate sliced for r.
PlayerRange(r) == playerOffset[r]..(playerOffset[r] + numPlayers[r] - 1)

\* The env fills the slice it was given.
Write(r) ==
  /\ Step(r, "write", "done")
  /\ playerRows' = [k \in DOMAIN playerRows |->
                      IF k \in PlayerRange(r) THEN r ELSE playerRows[k]]
  /\ sharedRows' = [sharedRows EXCEPT ![sharedOffset[r]] = r]
  /\ UNCHANGED <<counters, arguments, playerOffset, sharedOffset, rpc, result>>

----------------------------------------------------------------------------
(* Done: the fetch_add, then the signal if the quota is complete *)

\* Mutation: the quota is compared with the old count.
DoneOldCount(r) ==
  /\ Step(r, "done", IF doneCount = Batch THEN "signal" ELSE "finished")
  /\ doneCount' = doneCount + 1
  /\ UNCHANGED <<allocCount, offsets, sem, rows, arguments,
                 playerOffset, sharedOffset, rpc, result>>

\* Mutation: the quota is compared with the rows handed out.
DoneWhenAllocated(r) ==
  /\ Step(r, "done", IF allocCount = Batch THEN "signal" ELSE "finished")
  /\ doneCount' = doneCount + 1
  /\ UNCHANGED <<allocCount, offsets, sem, rows, arguments,
                 playerOffset, sharedOffset, rpc, result>>

Done(r) ==
  /\ Step(r, "done", IF doneCount + 1 = Batch THEN "signal" ELSE "finished")
  /\ doneCount' = doneCount + 1
  /\ UNCHANGED <<allocCount, offsets, sem, rows, arguments,
                 playerOffset, sharedOffset, rpc, result>>

Signal(r) ==
  /\ Step(r, "signal", "finished")
  /\ sem' = sem + 1
  /\ UNCHANGED <<allocCount, offsets, doneCount, rows, arguments,
                 playerOffset, sharedOffset, rpc, result>>

----------------------------------------------------------------------------
(* Wait *)

WaitCall ==
  /\ ReceiverStep("call", IF additional > 0 THEN "done" ELSE "wait")
  /\ UNCHANGED <<counters, rows, arguments, pc, playerOffset, sharedOffset, result>>

WaitDone ==
  /\ ReceiverStep("done", IF doneCount + additional = Batch THEN "signal" ELSE "wait")
  /\ doneCount' = doneCount + additional
  /\ UNCHANGED <<allocCount, offsets, sem, rows, arguments,
                 pc, playerOffset, sharedOffset, result>>

WaitSignal ==
  /\ ReceiverStep("signal", "wait")
  /\ sem' = sem + 1
  /\ UNCHANGED <<allocCount, offsets, doneCount, rows, arguments,
                 pc, playerOffset, sharedOffset, result>>

WaitSem ==
  /\ ReceiverStep("wait", "truncate")
  /\ sem > 0
  /\ sem' = sem - 1
  /\ UNCHANGED <<allocCount, offsets, doneCount, rows, arguments,
                 pc, playerOffset, sharedOffset, result>>

\* Mutation: the halves are swapped.
TruncateSwapped ==
  /\ ReceiverStep("truncate", "returned")
  /\ result' = <<SharedHalf(offsets), PlayerHalf(offsets)>>
  /\ UNCHANGED <<counters, rows, arguments, pc, playerOffset, sharedOffset>>

Truncate ==
  /\ ReceiverStep("truncate", "returned")
  /\ result' = <<PlayerHalf(offsets), SharedHalf(offsets)>>
  /\ UNCHANGED <<counters, rows, arguments, pc, playerOffset, sharedOffset>>

----------------------------------------------------------------------------
Allocate(r) == CountAllocation(r) \/ TakeOffsets(r)

Request(r) == Allocate(r) \/ Write(r) \/ Done(r) \/ Signal(r)

Wait == WaitCall \/ WaitDone \/ WaitSignal \/ WaitSem \/ Truncate

Next == Wait \/ \E r \in Requests : Request(r)

Spec == Init /\ [][Next]_vars
FairSpec == Spec /\ WF_vars(Wait) /\ \A r \in Requests : WF_vars(Request(r))

----------------------------------------------------------------------------
\* The requests that were given rows.
Granted == {r \in Requests : pc[r] \in {"write", "done", "signal", "finished"}}

\* The variables range over what the code declares; the quota is not exceeded and
\* the semaphore is signalled at most once.
TypeOK ==
  /\ maxNumPlayers \in 1..MostPlayers
  /\ allocCount \in 0..Cardinality(Requests)
  /\ offsets \in 0..(Half * Half - 1)
  /\ doneCount \in 0..Batch
  /\ sem \in 0..1
  /\ playerRows \in [0..(Batch * maxNumPlayers - 1) -> Requests \cup {Nobody}]
  /\ sharedRows \in [0..(Batch - 1) -> Requests \cup {Nobody}]
  /\ numPlayers \in [Requests -> 1..maxNumPlayers]
  /\ order \in [Requests -> -1..(Batch - 1)]
  /\ additional \in 0..Batch
  /\ pc \in [Requests ->
               {"absent", "count", "offset", "thrown", "write", "done", "signal",
                "finished"}]
  /\ playerOffset \in [Requests -> 0..(Batch * maxNumPlayers - 1)]
  /\ sharedOffset \in [Requests -> 0..(Batch - 1)]
  /\ rpc \in {"call", "done", "signal", "wait", "truncate", "returned"}
  /\ result \in (0..(Batch * maxNumPlayers)) \X (0..Batch)

\* Concurrent Allocate calls never share memory: neither the row of shared
\* fields nor any row of player fields, however they interleave.
SlicesDisjoint ==
  \A r, q \in Granted : r # q =>
    /\ sharedOffset[r] # sharedOffset[q]
    /\ PlayerRange(r) \cap PlayerRange(q) = {}

\* What Wait returns is complete and compact: as many shared rows as requests
\* were granted, each written by one of them, and all their player rows with no
\* unwritten row in between.
WaitReturnsWrittenRows ==
  rpc = "returned" =>
    /\ result[2] = Batch - additional
    /\ \A k \in 0..(result[2] - 1) : sharedRows[k] \in Granted
    /\ \A k \in 0..(result[1] - 1) : playerRows[k] \in Granted
    /\ \A r \in Granted : PlayerRange(r) \subseteq 0..(result[1] - 1)

\* With an order, row k is the state of the k-th env of the last Send.
RowsFollowOrder ==
  rpc = "returned" =>
    \A r \in Granted : order[r] # -1 => sharedRows[order[r]] = r

\* Once Wait has returned, no request still has to write its row or touch the
\* counters: the caller destroys the buffer.
QuietOnReturn ==
  rpc = "returned" =>
    \A r \in Requests : pc[r] \notin {"offset", "write", "done", "signal"}

----------------------------------------------------------------------------
(***************************************************************************)
(* The inductive invariant behind the properties above, in named parts.    *)
(***************************************************************************)
Bit(condition) == IF condition THEN 1 ELSE 0
Lesser(m, n) == IF m < n THEN m ELSE n

In(stages) == {r \in Requests : pc[r] \in stages}
Counted == In({"thrown", "offset", "write", "done", "signal", "finished"})
Admitted == In({"offset", "write", "done", "signal", "finished"})
Reported == In({"signal", "finished"})

\* What Wait has added to done_count_.
Added == IF rpc \in {"call", "done"} THEN 0 ELSE additional

\* alloc_count_ admits no more than the quota, done_count_ counts the reported
\* rows, and there is one signal from the moment the quota is complete, be it
\* about to be given, in the semaphore, or taken.
CountInv ==
  /\ allocCount = Cardinality(Counted)
  /\ Cardinality(Admitted) = Lesser(allocCount, Batch)
  /\ doneCount = Cardinality(Reported) + Added
  /\ sem + Cardinality(In({"signal"})) + Bit(rpc = "signal")
       + Bit(rpc \in {"truncate", "returned"}) = Bit(doneCount = Batch)
  /\ rpc = "done" => additional > 0

Unordered == order = [r \in Requests |-> -1]

\* The two halves of the packed word count the rows that were handed out, and
\* without an order the slices fill both arrays from the start without a gap.
PlaceInv ==
  /\ SharedHalf(offsets) = Cardinality(Granted)
  /\ PlayerHalf(offsets) <= Cardinality(Granted) * maxNumPlayers
  /\ ~Unordered =>
       /\ PlayerHalf(offsets) = Cardinality(Granted)
       /\ \A r \in Granted : playerOffset[r] = order[r] /\ sharedOffset[r] = order[r]
  /\ Unordered =>
       /\ \A r \in Granted :
            /\ sharedOffset[r] < SharedHalf(offsets)
            /\ playerOffset[r] + numPlayers[r] <= PlayerHalf(offsets)
       /\ \A k \in 0..(SharedHalf(offsets) - 1) : \E r \in Granted : sharedOffset[r] = k
       /\ \A k \in 0..(PlayerHalf(offsets) - 1) : \E r \in Granted : k \in PlayerRange(r)

\* What was written stays.
ContentInv ==
  \A r \in Granted : pc[r] # "write" =>
    /\ sharedRows[sharedOffset[r]] = r
    /\ \A k \in PlayerRange(r) : playerRows[k] = r

\* Wait truncates to what was handed out.
ResultInv == rpc = "returned" => result = <<PlayerHalf(offsets), SharedHalf(offsets)>>

\* The counters, the packed word and the rows agree with how far the requests and Wait
\* are, and the quota is signalled once.
IInv ==
  /\ TypeOK /\ CallsAllowed /\ CountInv /\ PlaceInv /\ SlicesDisjoint
  /\ ContentInv /\ ResultInv

----------------------------------------------------------------------------
\* Wait returns when enough requests arrive, whichever of them is last.
WaitReturns ==
  Cardinality(Made) + additional >= Batch ~> rpc = "returned"
=============================================================================
