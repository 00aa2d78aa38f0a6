---------------------------- MODULE StockBuffer ----------------------------
(***************************************************************************)
(* The stock of fresh state buffers inside core/state_buffer_queue.h, a    *)
(* core/circular_buffer.h: the creator threads make buffers ahead of time  *)
(* and Put them under stock_buffer_put_mu_, Wait TryGets one, and the      *)
(* destructor sets quit_ and Gets one per creator so that a creator which  *)
(* waits for room can go on and see quit_.                                 *)
(*                                                                         *)
(* The owner is the thread that calls Wait and later destroys the queue.   *)
(***************************************************************************)
EXTENDS Integers, FiniteSets

CONSTANTS
  Creators,      \* create_buffer_thread_
  Buffer,        \* a fresh state buffer: which one it is does not matter
  Null,          \* a unique_ptr that was moved from, or never set
  NumEnvs, Batch,
  MaxTakes       \* bound: how many Waits take a buffer before the destructor runs

StockSize == (NumEnvs \div Batch + 2) * 2

ASSUME SizesAssumption ==
  /\ NumEnvs \in Nat \ {0} /\ Batch \in 1..NumEnvs /\ MaxTakes \in Nat
ASSUME ThreadsAssumption == IsFiniteSet(Creators) /\ Creators # {}
ASSUME BufferAssumption == Buffer # Null /\ Null \notin Creators

VARIABLES
  semGet, semPut, buffer, head, tail,   \* stock_buffer_
  mutex,                                \* stock_buffer_put_mu_: its holder or Null
  quit,                                 \* quit_
  cpc, made, offset,                    \* creators: pc, local buffer, Put's offset
  opc, out, slot, gets                  \* owner: pc, what it got, offset, Gets to do

stock == <<semGet, semPut, buffer, head, tail>>
creatorVars == <<cpc, made, offset>>
ownerVars == <<opc, out, slot, gets>>
vars == <<stock, mutex, quit, creatorVars, ownerVars>>

Init ==
  /\ semGet = 0 /\ semPut = StockSize
  /\ buffer = [k \in 0..(StockSize - 1) |-> Null]
  /\ head = 0 /\ tail = 0
  /\ mutex = Null /\ quit = FALSE
  /\ cpc = [c \in Creators |-> "make"]
  /\ made = [c \in Creators |-> Null]
  /\ offset = [c \in Creators |-> 0]
  /\ opc = "idle" /\ out = Null /\ slot = 0 /\ gets = 0

CreatorStep(c, from, to) == cpc[c] = from /\ cpc' = [cpc EXCEPT ![c] = to]
OwnerStep(from, to) == opc = from /\ opc' = to

----------------------------------------------------------------------------
(* The loop of a creator thread *)

MakeBuffer(c) ==
  /\ CreatorStep(c, "make", "lock")
  /\ made' = [made EXCEPT ![c] = Buffer]
  /\ UNCHANGED <<stock, mutex, quit, offset, ownerVars>>

LockPut(c) ==
  /\ CreatorStep(c, "lock", "put")
  /\ mutex = Null
  /\ mutex' = c
  /\ UNCHANGED <<stock, quit, made, offset, ownerVars>>

\* Mutation: Put does not wait for room.
PutWaitUnchecked(c) ==
  /\ CreatorStep(c, "put", "tail")
  /\ UNCHANGED <<stock, mutex, quit, made, offset, ownerVars>>

PutWait(c) ==
  /\ CreatorStep(c, "put", "tail")
  /\ semPut > 0
  /\ semPut' = semPut - 1
  /\ UNCHANGED <<semGet, buffer, head, tail, mutex, quit, made, offset, ownerVars>>

\* Mutation: the offset wraps one slot early.
PutTailShort(c) ==
  /\ CreatorStep(c, "tail", "store")
  /\ offset' = [offset EXCEPT ![c] = tail % (StockSize - 1)]
  /\ tail' = tail + 1
  /\ UNCHANGED <<semGet, semPut, buffer, head, mutex, quit, made, ownerVars>>

PutTail(c) ==
  /\ CreatorStep(c, "tail", "store")
  /\ offset' = [offset EXCEPT ![c] = tail % StockSize]
  /\ tail' = tail + 1
  /\ UNCHANGED <<semGet, semPut, buffer, head, mutex, quit, made, ownerVars>>

PutStore(c) ==
  /\ CreatorStep(c, "store", "signal")
  /\ buffer' = [buffer EXCEPT ![offset[c]] = made[c]]
  /\ made' = [made EXCEPT ![c] = Null]
  /\ UNCHANGED <<semGet, semPut, head, tail, mutex, quit, offset, ownerVars>>

PutSignal(c) ==
  /\ CreatorStep(c, "signal", "unlock")
  /\ semGet' = semGet + 1
  /\ UNCHANGED <<semPut, buffer, head, tail, mutex, quit, made, offset, ownerVars>>

UnlockPut(c) ==
  /\ CreatorStep(c, "unlock", "check")
  /\ mutex' = Null
  /\ UNCHANGED <<stock, quit, made, offset, ownerVars>>

CheckQuit(c) ==
  /\ CreatorStep(c, "check", IF quit THEN "exit" ELSE "make")
  /\ UNCHANGED <<stock, mutex, quit, made, offset, ownerVars>>

----------------------------------------------------------------------------
(* TryGet, as Wait calls it *)

\* When the stock is empty Wait makes a buffer itself; nothing here changes.
TryGet ==
  /\ OwnerStep("idle", "head")
  /\ head < MaxTakes
  /\ semGet > 0
  /\ semGet' = semGet - 1
  /\ UNCHANGED <<semPut, buffer, head, tail, mutex, quit, creatorVars,
                 out, slot, gets>>

(* The destructor *)

\* Mutation: the Gets are left out.
SetQuitOnly ==
  /\ OwnerStep("quit", "get")
  /\ quit' = TRUE
  /\ gets' = 0
  /\ UNCHANGED <<stock, mutex, creatorVars, out, slot>>

Destroy ==
  /\ OwnerStep("idle", "quit")
  /\ UNCHANGED <<stock, mutex, quit, creatorVars, out, slot, gets>>

SetQuit ==
  /\ OwnerStep("quit", "get")
  /\ quit' = TRUE
  /\ gets' = Cardinality(Creators)
  /\ UNCHANGED <<stock, mutex, creatorVars, out, slot>>

\* Mutation: the result of sem_get_.wait() is ignored.
GetUnchecked ==
  /\ OwnerStep("get", "head")
  /\ gets > 0
  /\ gets' = gets - 1
  /\ UNCHANGED <<stock, mutex, quit, creatorVars, out, slot>>

Get ==
  /\ OwnerStep("get", "head")
  /\ gets > 0
  /\ semGet > 0
  /\ semGet' = semGet - 1
  /\ gets' = gets - 1
  /\ UNCHANGED <<semPut, buffer, head, tail, mutex, quit, creatorVars, out, slot>>

Join ==
  /\ OwnerStep("get", "joined")
  /\ gets = 0
  /\ \A c \in Creators : cpc[c] = "exit"
  /\ UNCHANGED <<stock, mutex, quit, creatorVars, out, slot, gets>>

(* What TryGet and Get have in common *)

GetHead ==
  /\ OwnerStep("head", "move")
  /\ slot' = head % StockSize
  /\ head' = head + 1
  /\ UNCHANGED <<semGet, semPut, buffer, tail, mutex, quit, creatorVars, out, gets>>

GetMove ==
  /\ OwnerStep("move", "release")
  /\ out' = buffer[slot]
  /\ buffer' = [buffer EXCEPT ![slot] = Null]
  /\ UNCHANGED <<semGet, semPut, head, tail, mutex, quit, creatorVars, slot, gets>>

\* The buffer goes into the ring (Wait) or is destroyed; either way it is no
\* longer the stock's.
GetRelease ==
  /\ OwnerStep("release", IF quit THEN "get" ELSE "idle")
  /\ semPut' = semPut + 1
  /\ out' = Null
  /\ UNCHANGED <<semGet, buffer, head, tail, mutex, quit, creatorVars, slot, gets>>

----------------------------------------------------------------------------
Put(c) == PutWait(c) \/ PutTail(c) \/ PutStore(c) \/ PutSignal(c)

Create(c) == MakeBuffer(c) \/ LockPut(c) \/ Put(c) \/ UnlockPut(c) \/ CheckQuit(c)

Finish == SetQuit \/ Get \/ Join \/ GetHead \/ GetMove \/ GetRelease

Next == TryGet \/ Destroy \/ Finish \/ \E c \in Creators : Create(c)

\* Every thread runs; nobody is obliged to receive or to destroy the pool.  A
\* creator that waits for the mutex gets it when it is free often enough.
Fairness ==
  /\ WF_vars(Finish)
  /\ \A c \in Creators : WF_vars(Create(c)) /\ SF_vars(LockPut(c))

Spec == Init /\ [][Next]_vars
FairSpec == Spec /\ Fairness

----------------------------------------------------------------------------
\* The variables range over what the code declares; both semaphores stay within
\* the size of the stock.
TypeOK ==
  /\ semGet \in 0..StockSize /\ semPut \in 0..StockSize
  /\ buffer \in [0..(StockSize - 1) -> {Buffer, Null}]
  /\ head \in Nat /\ tail \in Nat
  /\ mutex \in Creators \cup {Null} /\ quit \in BOOLEAN
  /\ cpc \in [Creators -> {"make", "lock", "put", "tail", "store", "signal",
                           "unlock", "check", "exit"}]
  /\ made \in [Creators -> {Buffer, Null}]
  /\ offset \in [Creators -> 0..(StockSize - 1)]
  /\ opc \in {"idle", "head", "move", "release", "quit", "get", "joined"}
  /\ out \in {Buffer, Null}
  /\ slot \in 0..(StockSize - 1)
  /\ gets \in 0..Cardinality(Creators)

\* Whoever takes a buffer out of the stock gets one: the null check in Wait
\* never has anything to do.
NeverNull == opc = "release" => out # Null

\* A buffer is stored into an empty slot only: none that is still in stock is
\* overwritten, and with it destroyed.
NoOverwrite == \A c \in Creators : cpc[c] = "store" => buffer[offset[c]] = Null

----------------------------------------------------------------------------
(***************************************************************************)
(* The inductive invariant behind NeverNull and NoOverwrite, in named      *)
(* parts.                                                                  *)
(***************************************************************************)
Bit(condition) == IF condition THEN 1 ELSE 0
CreatorIn(stages) == \E c \in Creators : cpc[c] \in stages

\* stock_buffer_put_mu_ is held by the one creator that is inside Put.
MutexInv ==
  \A c \in Creators :
    cpc[c] \in {"put", "tail", "store", "signal", "unlock"} <=> mutex = c

\* sem_get_ counts the positions between head_ and tail_, and both semaphores
\* together the slots, but for what those hold that are in the middle of a call.
SemInv ==
  /\ semGet + Bit(CreatorIn({"store", "signal"})) + Bit(opc = "head") = tail - head
  /\ semPut + semGet + Bit(CreatorIn({"tail", "store", "signal"}))
       + Bit(opc \in {"head", "move", "release"}) = StockSize

\* The positions whose buffers are in the stock: a Put still has to store at
\* the last position, a Get to take from the one before head_.
Stocked ==
  (head - Bit(opc = "move"))..(tail - 1 - Bit(CreatorIn({"store"})))

\* A slot holds a buffer if and only if it is that of such a position.
ContentInv ==
  /\ \A p \in Stocked : buffer[p % StockSize] = Buffer
  /\ \A k \in DOMAIN buffer : (\A p \in Stocked : p % StockSize # k) => buffer[k] = Null

\* What the locals of the threads stand for.
LocalInv ==
  /\ \A c \in Creators :
       /\ cpc[c] \in {"lock", "put", "tail", "store"} => made[c] = Buffer
       /\ cpc[c] = "store" => tail > 0 /\ offset[c] = (tail - 1) % StockSize
  /\ opc = "move" => head > 0 /\ slot = (head - 1) % StockSize
  /\ opc = "release" => out = Buffer

\* One creator at a time is in Put, the semaphores count what is stocked and what is free,
\* and exactly the slots of the stocked positions hold a buffer.
IInv == TypeOK /\ MutexInv /\ SemInv /\ ContentInv /\ LocalInv

----------------------------------------------------------------------------
\* The destructor stops the creators when the stock holds a buffer for each of
\* its Gets, or when no buffer was ever taken from it.
DestructorStopsStocked ==
  (opc = "quit" /\ (semGet >= Cardinality(Creators) \/ head = 0)) ~> opc = "joined"

\* What the comment in the destructor says: it stops the threads.
DestructorStopsThreads == opc = "quit" ~> opc = "joined"
=============================================================================
