----------------------- MODULE StateBufferQueueProof -----------------------
(***************************************************************************)
(* Proofs about StateBufferQueue for every number of envs, every batch     *)
(* size and any number of rounds: IInv is inductive, so the ring never     *)
(* overflows, no worker meets a replaced buffer, and what Wait returns is  *)
(* the oldest batch, complete and in order.                                *)
(***************************************************************************)
EXTENDS StateBufferQueue, FiniteSetTheorems, TLAPS

----------------------------------------------------------------------------
(* Blocks of positions, and places of the ring *)

LEMMA DivMod ==
  ASSUME NEW Q \in Nat \ {0}, NEW k \in Nat
  PROVE  /\ k = Q * (k \div Q) + (k % Q)
         /\ k \div Q \in Nat
         /\ k % Q \in 0..(Q - 1)
  OBVIOUS

LEMMA Monotone ==
  ASSUME NEW a \in Nat, NEW b \in Nat, NEW c \in Nat, a <= b
  PROVE  a * c <= b * c /\ a * c \in Nat /\ b * c \in Nat
  OBVIOUS

LEMMA Distribute ==
  ASSUME NEW a \in Nat, NEW b \in Nat, NEW c \in Nat
  PROVE  (a + b) * c = a * c + b * c /\ (a + 1) * c = a * c + c
  OBVIOUS

\* Position p is in block b if it lies between the block's bounds, and only then.
LEMMA InBlock ==
  ASSUME NEW B \in Nat \ {0}, NEW p \in Nat, NEW b \in Nat
  PROVE  /\ (p \div B) * B <= p /\ p < (p \div B) * B + B
         /\ p \div B \in Nat /\ (p \div B) * B \in Nat /\ b * B \in Nat
         /\ b * B <= p <=> b <= p \div B
         /\ p \div B = b <=> b * B <= p /\ p < b * B + B
<1> DEFINE a == p \div B
<1>1. a \in Nat /\ a * B <= p /\ p < a * B + B /\ a * B \in Nat
  <2>1. a \in Nat /\ p = B * a + (p % B) /\ p % B \in 0..(B - 1)
    BY DivMod
  <2>2. B * a = a * B /\ a * B \in Nat
    BY <2>1
  <2> HIDE DEF a
  <2> QED
    BY <2>1, <2>2
<1> HIDE DEF a
<1>2. b * B \in Nat
  BY Monotone
<1>3. b <= a => b * B <= a * B
  BY <1>1, Monotone
<1>4. a + 1 <= b => a * B + B <= b * B
  BY <1>1, Monotone, Distribute
<1>5. b + 1 <= a => b * B + B <= a * B
  BY <1>1, Monotone, Distribute
<1>6. b <= a \/ a + 1 <= b
  BY <1>1
<1>7. a = b \/ a + 1 <= b \/ b + 1 <= a
  BY <1>1
<1>8. b * B <= p <=> b <= a
  BY <1>1, <1>2, <1>3, <1>4, <1>6
<1>9. a = b <=> b * B <= p /\ p < b * B + B
  BY <1>1, <1>2, <1>4, <1>5, <1>7
<1> QED
  BY <1>1, <1>2, <1>8, <1>9 DEF a

LEMMA SameRemainder ==
  ASSUME NEW Q \in Nat \ {0}, NEW a \in Nat, NEW b \in Nat, a % Q = b % Q, a < b
  PROVE  a + Q <= b
<1> DEFINE m == a \div Q
           n == b \div Q
<1>1. /\ m \in Nat /\ a = Q * m + (a % Q) /\ a % Q \in 0..(Q - 1)
      /\ n \in Nat /\ b = Q * n + (b % Q)
  BY DivMod
<1> HIDE DEF m, n
<1>2. m + 1 <= n => Q * m + Q <= Q * n
  BY <1>1
<1>3. n <= m => Q * n <= Q * m
  BY <1>1
<1>4. Q * m \in Nat /\ Q * n \in Nat
  BY <1>1
<1>5. Q * m < Q * n
  BY <1>1, <1>4
<1>6. m + 1 <= n
  BY <1>1, <1>3, <1>4, <1>5
<1> QED
  BY <1>1, <1>2, <1>4, <1>6

\* The ring holds the positions of every request and two blocks to spare.
LEMMA RingSize ==
  ASSUME NEW n \in Nat \ {0}, NEW B \in 1..n
  PROVE  /\ (n \div B + 2) * 2 \in Nat \ {0}
         /\ ((n \div B + 2) * 2) * B \in Nat
         /\ ((n \div B + 2) * 2) * B >= 2 * n + 2 * B
<1> DEFINE a == n \div B
<1>1. a \in Nat /\ n < a * B + B /\ a * B \in Nat
  BY InBlock
<1> HIDE DEF a
<1>2. ((a + 2) * 2) * B = 2 * (a * B) + 4 * B
  BY <1>1
<1> QED
  BY <1>1, <1>2 DEF a

LEMMA Sizes ==
  ASSUME TypeOK
  PROVE  /\ NumEnvs \in Nat \ {0} /\ Batch \in 1..NumEnvs /\ Batch \in Nat \ {0}
         /\ IsSync \in BOOLEAN /\ (IsSync => Batch = NumEnvs)
         /\ QueueSize \in Nat \ {0}
         /\ QueueSize * Batch \in Nat /\ QueueSize * Batch >= 2 * NumEnvs + 2 * Batch
         /\ DOMAIN queue = 0..(QueueSize - 1)
         /\ \A b \in Nat : Offset(b) \in DOMAIN queue
         /\ \A r \in Requests : BlockOf(r) \in Nat /\ Place(r) \in DOMAIN queue
<1>1. NumEnvs \in Nat \ {0}
  <2>1. IsFiniteSet(Envs) /\ Envs # {}
    BY SizesAssumption, FS_Subset
  <2> QED
    BY <2>1, FS_CardinalityType, FS_EmptySet DEF NumEnvs
<1>2. Batch \in 1..NumEnvs /\ IsSync \in BOOLEAN /\ (IsSync => Batch = NumEnvs)
  BY ConfigsAssumption DEF TypeOK, ConfigType, Batch, IsSync
<1>3. Batch \in Nat \ {0}
  BY <1>1, <1>2
<1>4. /\ QueueSize \in Nat \ {0}
      /\ QueueSize * Batch \in Nat /\ QueueSize * Batch >= 2 * NumEnvs + 2 * Batch
  BY <1>1, <1>2, RingSize DEF QueueSize
<1>5. DOMAIN queue = 0..(QueueSize - 1)
  BY DEF TypeOK
<1>6. \A b \in Nat : Offset(b) \in DOMAIN queue
  BY <1>4, <1>5, DivMod DEF Offset
<1>7. \A r \in Requests : BlockOf(r) \in Nat
  <2>1. \A r \in Requests : pos[r] \in Nat
    BY DEF TypeOK
  <2> QED
    BY <2>1, <1>3, InBlock DEF BlockOf
<1> QED
  BY <1>1, <1>2, <1>3, <1>4, <1>5, <1>6, <1>7 DEF Place

LEMMA Fields ==
  ASSUME TypeOK, NEW k \in DOMAIN queue
  PROVE  /\ queue[k] \in BufferType
         /\ queue[k] = [id |-> queue[k].id, allocCount |-> queue[k].allocCount,
                        doneCount |-> queue[k].doneCount, sem |-> queue[k].sem,
                        rows |-> queue[k].rows]
         /\ queue[k].id \in Nat /\ queue[k].allocCount \in Nat
         /\ queue[k].doneCount \in 0..Batch /\ queue[k].sem \in 0..1
         /\ queue[k].rows \in [0..(Batch - 1) -> Requests \cup {Null}]
<1>1. queue[k] \in BufferType
  BY DEF TypeOK
<1> QED
  BY <1>1 DEF BufferType

----------------------------------------------------------------------------
(* Counting requests *)

LEMMA InFinite ==
  ASSUME NEW S \in SUBSET Requests
  PROVE  IsFiniteSet(S) /\ Cardinality(S) \in Nat
  BY SizesAssumption, FS_Subset, FS_CardinalityType

LEMMA Enter ==
  ASSUME NEW S \in SUBSET Requests, NEW r \in Requests, r \notin S
  PROVE  Cardinality(S \cup {r}) = Cardinality(S) + 1
  BY InFinite, FS_AddElement

LEMMA Leave ==
  ASSUME NEW S \in SUBSET Requests, NEW r \in S
  PROVE  Cardinality(S \ {r}) = Cardinality(S) - 1 /\ Cardinality(S) >= 1
<1>1. Cardinality(S \ {r}) = Cardinality(S) - 1
  BY InFinite, FS_RemoveElement
<1>2. Cardinality(S \ {r}) \in Nat /\ Cardinality(S) \in Nat
  BY InFinite
<1> QED
  BY <1>1, <1>2

LEMMA Within ==
  ASSUME NEW T \in SUBSET Requests, NEW S \in SUBSET T
  PROVE  /\ Cardinality(S) <= Cardinality(T)
         /\ Cardinality(S) = Cardinality(T) => S = T
  BY InFinite, FS_Subset

----------------------------------------------------------------------------
(* The window of positions in use *)

LEMMA HeadBlockType ==
  ASSUME TypeOK
  PROVE  HeadBlock \in Nat /\ Skipped \in Nat /\ additional \in Nat /\ additional <= Batch
<1>1. donePtr \in Nat /\ block \in Nat
  BY DEF TypeOK
<1>2. additional \in 0..Batch
  BY DEF TypeOK
<1>3. additional \in Nat /\ additional <= Batch
  BY <1>2, Sizes
<1> QED
  BY <1>1, <1>3 DEF HeadBlock, Skipped

\* Positions less than the window apart whose blocks share a place share the block.
LEMMA SamePlaceSameBlock ==
  ASSUME TypeOK, NEW h \in Nat, NEW a \in Nat, NEW b \in Nat,
         h <= a, a * Batch < h * Batch + 2 * NumEnvs,
         h <= b, b * Batch < h * Batch + 2 * NumEnvs,
         Offset(a) = Offset(b)
  PROVE  a = b
<1>1. /\ Batch \in Nat \ {0} /\ QueueSize \in Nat \ {0} /\ NumEnvs \in Nat
      /\ QueueSize * Batch \in Nat /\ QueueSize * Batch >= 2 * NumEnvs + 2 * Batch
  BY Sizes
<1>2. ASSUME NEW c \in Nat, NEW d \in Nat, h <= c, d * Batch < h * Batch + 2 * NumEnvs,
             c + QueueSize <= d
      PROVE  FALSE
  <2>1. h * Batch <= c * Batch /\ h * Batch \in Nat /\ c * Batch \in Nat
    BY <1>1, <1>2, Monotone
  <2>2. (c + QueueSize) * Batch = c * Batch + QueueSize * Batch
    BY <1>1, Distribute
  <2>3. c + QueueSize \in Nat
    BY <1>1
  <2>4. (c + QueueSize) * Batch <= d * Batch /\ d * Batch \in Nat
    BY <1>1, <1>2, <2>3, Monotone
  <2> QED
    BY <1>1, <1>2, <2>1, <2>2, <2>4
<1>3. ~(a < b)
  BY <1>1, <1>2, SameRemainder DEF Offset
<1>4. ~(b < a)
  BY <1>1, <1>2, SameRemainder DEF Offset
<1> QED
  BY <1>3, <1>4

\* Every placed request lies in the window, and the window is no longer than the
\* number of requests.
LEMMA Window ==
  ASSUME TypeOK, WindowInv, NEW r \in Placed
  PROVE  /\ BlockOf(r) \in Nat /\ HeadBlock <= BlockOf(r)
         /\ BlockOf(r) * Batch <= pos[r]
         /\ BlockOf(r) * Batch < HeadBlock * Batch + 2 * NumEnvs
<1>1. /\ Batch \in Nat \ {0} /\ NumEnvs \in Nat \ {0}
      /\ HeadBlock \in Nat /\ Skipped \in Nat
  BY Sizes, HeadBlockType
<1>2. r \in Requests /\ pos[r] \in Nat
  BY DEF Placed, TypeOK
<1>3. /\ BlockOf(r) \in Nat /\ BlockOf(r) * Batch <= pos[r] /\ BlockOf(r) * Batch \in Nat
      /\ HeadBlock * Batch <= pos[r] <=> HeadBlock <= BlockOf(r)
      /\ HeadBlock * Batch \in Nat
  BY <1>1, <1>2, InBlock DEF BlockOf
<1>4. Cardinality(Placed) \in Nat /\ Cardinality(Placed) <= 2 * NumEnvs
  <2>1. Placed \in SUBSET Requests /\ Requests \in SUBSET Requests
    BY DEF Placed
  <2>2. Cardinality(Placed) <= Cardinality(Requests) /\ Cardinality(Placed) \in Nat
        /\ Cardinality(Requests) \in Nat
    BY <2>1, Within, InFinite
  <2> QED
    BY <2>2, <1>1, SizesAssumption
<1>5. /\ HeadBlock * Batch <= pos[r] /\ pos[r] < allocCount - Skipped
      /\ HeadBlock * Batch + Cardinality(Placed) + Skipped = allocCount
  BY DEF WindowInv
<1>6. pos[r] < HeadBlock * Batch + 2 * NumEnvs
  BY <1>1, <1>2, <1>3, <1>4, <1>5
<1> QED
  BY <1>1, <1>2, <1>3, <1>5, <1>6

LEMMA SamePlace ==
  ASSUME TypeOK, WindowInv, NEW r \in Placed
  PROVE  /\ \A q \in Placed : Place(q) = Place(r) => BlockOf(q) = BlockOf(r)
         /\ Place(r) = Offset(HeadBlock) <=> BlockOf(r) = HeadBlock
<1>1. HeadBlock \in Nat /\ HeadBlock * Batch \in Nat /\ NumEnvs \in Nat \ {0}
  <2>1. HeadBlock \in Nat /\ Batch \in Nat /\ NumEnvs \in Nat \ {0}
    BY HeadBlockType, Sizes
  <2> QED
    BY <2>1, Monotone
<1>2. HeadBlock * Batch < HeadBlock * Batch + 2 * NumEnvs /\ HeadBlock <= HeadBlock
  BY <1>1
<1>3. ASSUME NEW q \in Placed, Place(q) = Place(r) PROVE BlockOf(q) = BlockOf(r)
  BY <1>1, <1>3, Window, SamePlaceSameBlock DEF Place
<1>4. Place(r) = Offset(HeadBlock) => BlockOf(r) = HeadBlock
  BY <1>1, <1>2, Window, SamePlaceSameBlock DEF Place
<1> QED
  BY <1>3, <1>4 DEF Place

----------------------------------------------------------------------------
(* The quota of a buffer *)

LEMMA Parts ==
  ASSUME NEW k
  PROVE  /\ Placed \in SUBSET Requests /\ Users(k) \in SUBSET Placed
         /\ Allocated(k) \in SUBSET Users(k) /\ Reported(k) \in SUBSET Allocated(k)
         /\ Signalling(k) \in SUBSET Reported(k)
         /\ Users(k) \in SUBSET Requests /\ Allocated(k) \in SUBSET Requests
         /\ Reported(k) \in SUBSET Requests /\ Signalling(k) \in SUBSET Requests
  BY DEF Placed, Users, Allocated, Reported, Signalling

LEMMA PartSizes ==
  ASSUME NEW k
  PROVE  /\ Cardinality(Users(k)) \in Nat /\ Cardinality(Allocated(k)) \in Nat
         /\ Cardinality(Reported(k)) \in Nat /\ Cardinality(Signalling(k)) \in Nat
         /\ Cardinality(Signalling(k)) <= Cardinality(Reported(k))
         /\ Cardinality(Reported(k)) <= Cardinality(Allocated(k))
         /\ Cardinality(Allocated(k)) <= Cardinality(Users(k))
<1>1. /\ Users(k) \in SUBSET Requests /\ Allocated(k) \in SUBSET Requests
      /\ Reported(k) \in SUBSET Requests /\ Signalling(k) \in SUBSET Requests
  BY Parts
<1>2. /\ Allocated(k) \in SUBSET Users(k) /\ Reported(k) \in SUBSET Allocated(k)
      /\ Signalling(k) \in SUBSET Reported(k)
  BY Parts
<1>3. /\ Cardinality(Users(k)) \in Nat /\ Cardinality(Allocated(k)) \in Nat
      /\ Cardinality(Reported(k)) \in Nat /\ Cardinality(Signalling(k)) \in Nat
  BY <1>1, InFinite
<1>4. Cardinality(Signalling(k)) <= Cardinality(Reported(k))
  BY <1>1, <1>2, Within
<1>5. Cardinality(Reported(k)) <= Cardinality(Allocated(k))
  BY <1>1, <1>2, Within
<1>6. Cardinality(Allocated(k)) <= Cardinality(Users(k))
  BY <1>1, <1>2, Within
<1> QED
  BY <1>3, <1>4, <1>5, <1>6

\* A block has Batch positions, and the rows Wait accounts for are not requested.
LEMMA Quota ==
  ASSUME TypeOK, ProtocolInv, WindowInv, NEW k
  PROVE  Cardinality(Users(k)) + additional <= Batch
<1>1. /\ Batch \in Nat \ {0} /\ NumEnvs \in Nat \ {0}
      /\ IsSync \in BOOLEAN /\ (IsSync => Batch = NumEnvs)
  BY Sizes
<1>2. /\ Users(k) \in SUBSET Requests /\ Users(k) \in SUBSET Placed
      /\ Cardinality(Users(k)) \in Nat /\ additional \in Nat
  BY Parts, PartSizes, HeadBlockType
<1>3. CASE ~IsSync
  <2>1. additional = 0
    BY <1>3 DEF ProtocolInv
  <2>2. CASE Users(k) = {}
    BY <1>1, <2>1, <2>2, FS_EmptySet
  <2>3. CASE Users(k) # {}
    <3>1. PICK q \in Users(k) : TRUE
      BY <2>3
    <3> DEFINE b == BlockOf(q)
               f == [r \in Users(k) |-> pos[r] - b * Batch]
    <3>2. b \in Nat /\ b * Batch \in Nat
      BY <1>1, <1>2, <3>1, Window, Monotone
    <3>3. ASSUME NEW r \in Users(k)
          PROVE  pos[r] \in Nat /\ b * Batch <= pos[r] /\ pos[r] < b * Batch + Batch
      <4>1. BlockOf(r) = b
        <5>1. Place(r) = Place(q)
          BY <3>1 DEF Users
        <5> QED
          BY <5>1, <1>2, <3>1, SamePlace
      <4>2. pos[r] \in Nat
        BY <1>2 DEF TypeOK
      <4> QED
        BY <4>1, <4>2, <3>2, <1>1, InBlock DEF BlockOf
    <3> HIDE DEF b
    <3>4. f \in [Users(k) -> 0..(Batch - 1)]
      BY <1>1, <3>2, <3>3
    <3>5. ASSUME NEW r \in Users(k), NEW s \in Users(k), f[r] = f[s] PROVE r = s
      <4>1. pos[r] = pos[s]
        BY <3>2, <3>3, <3>5
      <4> QED
        BY <4>1, <1>2 DEF WindowInv
    <3>6. f \in Injection(Users(k), 0..(Batch - 1))
      BY <3>4, <3>5 DEF Injection, IsInjective
    <3>7. IsFiniteSet(0..(Batch - 1)) /\ Cardinality(0..(Batch - 1)) = Batch
      BY <1>1, FS_Interval
    <3>8. Cardinality(Users(k)) <= Cardinality(0..(Batch - 1))
      BY <3>6, <3>7, FS_Injection
    <3> QED
      BY <3>7, <3>8, <2>1, <1>1, <1>2
  <2> QED
    BY <2>2, <2>3
<1>4. CASE IsSync
  <2>1. Users(k) \in SUBSET outstanding /\ outstanding \in SUBSET Requests
    BY <1>2 DEF ProtocolInv, Placed, TypeOK
  <2>2. /\ Cardinality(Users(k)) <= Cardinality(outstanding)
        /\ Cardinality(outstanding) \in Nat
    BY <2>1, Within, InFinite
  <2>3. CASE rpc # "idle"
    <3>1. additional = Batch - Cardinality(outstanding)
      BY <1>4, <2>3 DEF ProtocolInv
    <3> QED
      BY <3>1, <2>2, <1>1, <1>2
  <2>4. CASE rpc = "idle"
    <3>1. additional = 0 /\ outstanding \in SUBSET Envs /\ Envs \in SUBSET Requests
      BY <1>4, <2>4, SizesAssumption DEF ProtocolInv
    <3>2. Cardinality(outstanding) <= NumEnvs
      BY <3>1, Within DEF NumEnvs
    <3> QED
      BY <3>1, <3>2, <2>2, <1>1, <1>2, <1>4
  <2> QED
    BY <2>3, <2>4
<1> QED
  BY <1>3, <1>4

\* Past the semaphore all users of the head's buffer have reported, and they make
\* up the quota; in synchronous mode they are all there is.
LEMMA Quiet ==
  ASSUME IInv, rpc \in {"truncate", "skip", "swap", "swapping"}, NEW h, h = Offset(block)
  PROVE  /\ Allocated(h) = Users(h) /\ Reported(h) = Users(h) /\ Signalling(h) = {}
         /\ Cardinality(Users(h)) = Batch - additional
         /\ queue[h].allocCount = Batch - additional
         /\ Users(h) = {r \in Placed : BlockOf(r) = block}
         /\ IsSync => Users(h) = outstanding
<1> USE DEF IInv
<1>1. /\ Batch \in Nat \ {0} /\ additional \in Nat /\ h \in DOMAIN queue
      /\ additional <= Batch
  <2>1. block \in Nat
    BY DEF TypeOK
  <2> QED
    BY <2>1, Sizes, HeadBlockType
<1>2. /\ Cardinality(Users(h)) \in Nat /\ Cardinality(Allocated(h)) \in Nat
      /\ Cardinality(Reported(h)) \in Nat /\ Cardinality(Signalling(h)) \in Nat
      /\ Cardinality(Reported(h)) <= Cardinality(Allocated(h))
      /\ Cardinality(Allocated(h)) <= Cardinality(Users(h))
      /\ Cardinality(Users(h)) + additional <= Batch
  BY PartSizes, Quota
<1>3. /\ queue[h].allocCount = Cardinality(Allocated(h))
      /\ queue[h].doneCount = Cardinality(Reported(h)) + additional
      /\ queue[h].sem + Cardinality(Signalling(h)) + 0 + 1 = Bit(queue[h].doneCount = Batch)
  BY <1>1 DEF CountInv, CountAt, Added, IsHead, Bit
<1>4. queue[h].sem \in Nat
  <2>1. queue[h].sem \in 0..1
    BY <1>1, Fields
  <2> QED
    BY <2>1
<1>5. queue[h].doneCount = Batch /\ Cardinality(Signalling(h)) = 0
  BY <1>2, <1>3, <1>4 DEF Bit
<1>6. /\ Cardinality(Reported(h)) = Cardinality(Users(h))
      /\ Cardinality(Allocated(h)) = Cardinality(Users(h))
      /\ Cardinality(Users(h)) = Batch - additional
  BY <1>1, <1>2, <1>3, <1>5
<1>7. /\ Users(h) \in SUBSET Requests /\ Allocated(h) \in SUBSET Users(h)
      /\ Reported(h) \in SUBSET Users(h) /\ Signalling(h) \in SUBSET Requests
      /\ Users(h) \in SUBSET Placed /\ Placed \in SUBSET Requests
  BY Parts
<1>8. Allocated(h) = Users(h) /\ Reported(h) = Users(h)
  BY <1>6, <1>7, Within
<1>9. Signalling(h) = {}
  BY <1>5, <1>7, InFinite, FS_EmptySet
<1>10. Users(h) = {r \in Placed : BlockOf(r) = block}
  <2>1. HeadBlock = block
    BY DEF HeadBlock
  <2>2. \A r \in Placed : Place(r) = h <=> BlockOf(r) = block
    BY <2>1, SamePlace
  <2> QED
    BY <2>2 DEF Users, Collected
<1>11. ASSUME IsSync PROVE Users(h) = outstanding
  <2>1. additional = Batch - Cardinality(outstanding)
    BY <1>11 DEF ProtocolInv
  <2>2. Users(h) \in SUBSET outstanding /\ outstanding \in SUBSET Requests
    BY <1>7 DEF ProtocolInv, Placed, TypeOK
  <2>3. Cardinality(outstanding) \in Nat
    BY <2>2, InFinite
  <2> QED
    BY <1>1, <1>6, <2>1, <2>2, <2>3, Within
<1> QED
  BY <1>3, <1>6, <1>8, <1>9, <1>10, <1>11

----------------------------------------------------------------------------
(* What the steps of a request that has a position leave as it is *)

LEMMA ConfigFrame ==
  ASSUME UNCHANGED config
  PROVE  /\ Batch' = Batch /\ IsSync' = IsSync /\ QueueSize' = QueueSize
         /\ \A b : Offset(b)' = Offset(b)
  BY DEF Batch, IsSync, QueueSize, Offset

\* A working request is a user of its buffer.
LEMMA Working ==
  ASSUME IInv, NEW r \in Requests, pc[r] \notin {"idle", "position", "ready"}
  PROVE  r \in Users(Place(r)) /\ r \in Placed /\ ~Collected(r)
<1>1. r \in Placed
  BY DEF Placed
<1>2. ASSUME Collected(r) PROVE FALSE
  <2>1. rpc = "return" /\ BlockOf(r) = block
    BY <1>2 DEF Collected
  <2>2. r \in RowsOf(arr) /\ \A k \in DOMAIN arr : pc[arr[k]] = "ready"
    BY <1>1, <2>1 DEF IInv, BatchInv
  <2> QED
    BY <2>2 DEF RowsOf
<1> QED
  BY <1>1, <1>2 DEF Users

\* Request r, which has a position, goes on to its next step.
Advances(r, to) ==
  /\ pc[r] \in {"pointer", "allocate", "write", "done", "signal"}
  /\ to \in {"allocate", "write", "done", "signal", "ready"}
  /\ pc' = [pc EXCEPT ![r] = to]
  /\ \A q \in Requests \ {r} : row'[q] = row[q]
  /\ UNCHANGED <<config, counters, outstanding, order, pos, receiverVars>>

LEMMA StepFrame ==
  ASSUME IInv, NEW r \in Requests, NEW to,
         Advances(r, to)
  PROVE  /\ \A q \in Requests : pc'[q] = IF q = r THEN to ELSE pc[q]
         /\ pc' \in [Requests -> {"idle", "position", "pointer", "allocate", "thrown",
                                  "write", "done", "signal", "ready"}]
         /\ Placed' = Placed
         /\ \A k : Users(k)' = Users(k) /\ Added(k)' = Added(k)
         /\ \A q : Place(q)' = Place(q)
         /\ ProtocolInv' /\ WindowInv' /\ BatchInv' /\ NoOverflow'
<1> USE DEF Advances, counters, receiverVars
<1>1. /\ \A q \in Requests : pc'[q] = IF q = r THEN to ELSE pc[q]
      /\ pc' \in [Requests -> {"idle", "position", "pointer", "allocate", "thrown",
                               "write", "done", "signal", "ready"}]
  BY DEF IInv, TypeOK
<1>2. Placed' = Placed /\ r \in Placed
  BY <1>1 DEF Placed
<1>3. /\ Batch' = Batch /\ IsSync' = IsSync /\ QueueSize' = QueueSize
      /\ \A b : Offset(b)' = Offset(b)
  BY ConfigFrame
<1>4. \A q : BlockOf(q)' = BlockOf(q)
  BY <1>3 DEF BlockOf
<1>5. \A q : Place(q)' = Place(q)
  BY <1>3, <1>4 DEF Place, Offset
<1>6. \A k : Users(k)' = Users(k)
  BY <1>2, <1>4, <1>5 DEF Users, Collected
<1>7. \A k : Added(k)' = Added(k)
  BY <1>3 DEF Added, IsHead
<1>8. ProtocolInv'
  BY <1>1, <1>3 DEF IInv, ProtocolInv
<1>9. WindowInv'
  BY <1>2, <1>3 DEF IInv, WindowInv, HeadBlock, Skipped
<1>10. BatchInv'
  <2> SUFFICES ASSUME rpc \in {"skip", "swap", "swapping", "return"}
               PROVE  BatchInv'
    BY DEF BatchInv
  <2>1. RowsOf(arr)' = RowsOf(arr)
    BY DEF RowsOf
  <2>2. /\ Len(arr) = Batch - additional
        /\ \A k \in DOMAIN arr :
             arr[k] \in Placed /\ pc[arr[k]] = "ready" /\ BlockOf(arr[k]) = block
               /\ row[arr[k]] = k - 1
        /\ \A q \in Placed : BlockOf(q) = block => q \in RowsOf(arr)
        /\ IsSync => /\ RowsOf(arr) = outstanding
                     /\ \A k \in DOMAIN arr : order[arr[k]] = k - 1
    BY DEF IInv, BatchInv
  <2>3. \A k \in DOMAIN arr : arr[k] \in Requests \ {r}
    BY <2>2 DEF Placed
  <2>4. \A k \in DOMAIN arr : pc'[arr[k]] = "ready" /\ row'[arr[k]] = k - 1
    BY <1>1, <2>2, <2>3
  <2>5. /\ arr' = arr /\ block' = block /\ additional' = additional
        /\ order' = order /\ outstanding' = outstanding
    OBVIOUS
  <2>6. (Len(arr) = Batch - additional)'
    BY <1>3, <2>2, <2>5
  <2>7. (\A k \in DOMAIN arr :
           arr[k] \in Placed /\ pc[arr[k]] = "ready" /\ BlockOf(arr[k]) = block
             /\ row[arr[k]] = k - 1)'
    BY <1>2, <1>4, <2>2, <2>4, <2>5
  <2>8. (\A q \in Placed : BlockOf(q) = block => q \in RowsOf(arr))'
    BY <1>2, <1>4, <2>1, <2>2, <2>5
  <2>9. (IsSync => /\ RowsOf(arr) = outstanding
                   /\ \A k \in DOMAIN arr : order[arr[k]] = k - 1)'
    BY <1>3, <2>1, <2>2, <2>5
  <2> QED
    BY <2>6, <2>7, <2>8, <2>9 DEF BatchInv
<1>11. NoOverflow'
  BY <1>1 DEF IInv, NoOverflow
<1> QED
  BY <1>1, <1>2, <1>5, <1>6, <1>7, <1>8, <1>9, <1>10, <1>11

\* The buffers at the other places, and the pointers, are not concerned.
LEMMA OtherPlaces ==
  ASSUME IInv, NEW r \in Requests, NEW to,
         Advances(r, to),
         NEW k \in DOMAIN queue, k # Place(r), queue'[k] = queue[k]
  PROVE  CountAt(k)' /\ RowAt(k)'
<1>1. /\ \A q \in Requests : pc'[q] = IF q = r THEN to ELSE pc[q]
      /\ Users(k)' = Users(k) /\ Added(k)' = Added(k)
      /\ Users(k) \in SUBSET Requests /\ r \notin Users(k)
  <2>1. Users(k) \in SUBSET Requests /\ r \notin Users(k)
    BY Parts DEF Users
  <2> QED
    BY <2>1, StepFrame
<1>2. \A q \in Users(k) : pc'[q] = pc[q] /\ row'[q] = row[q] /\ q \in Requests
  BY <1>1 DEF Advances
<1>3. /\ Allocated(k)' = Allocated(k) /\ Reported(k)' = Reported(k)
      /\ Signalling(k)' = Signalling(k)
  BY <1>1, <1>2 DEF Allocated, Reported, Signalling
<1>4. /\ Batch' = Batch /\ IsSync' = IsSync /\ \A b : Offset(b)' = Offset(b)
      /\ rpc' = rpc /\ block' = block /\ order' = order
  BY ConfigFrame DEF Advances, receiverVars
<1>5. CountAt(k)'
  <2>1. CountAt(k)
    BY DEF IInv, CountInv
  <2> QED
    BY <1>1, <1>3, <1>4, <2>1 DEF CountAt, IsHead
<1>6. RowAt(k)'
  <2>1. RowAt(k)
    BY DEF IInv, RowInv
  <2>2. Allocated(k) \subseteq Users(k)
    BY DEF Allocated
  <2> QED
    BY <1>2, <1>3, <1>4, <2>1, <2>2 DEF RowAt
<1> QED
  BY <1>5, <1>6

\* What the steps on the buffer itself leave as it is.
LEMMA BufferFrame ==
  ASSUME IInv, NEW r \in Requests, NEW to, NEW b \in BufferType,
         NEW p, p = Place(r),
         Advances(r, to), pc[r] # "pointer",
         queue' = [queue EXCEPT ![p] = b], b.id = queue[p].id,
         row' \in [Requests -> 0..Batch],
         UNCHANGED pointer,
         CountAt(p)', RowAt(p)'
  PROVE  IInv'
<1>1. /\ p \in DOMAIN queue /\ DOMAIN queue' = DOMAIN queue
      /\ queue'[p] = b /\ \A k \in DOMAIN queue \ {p} : queue'[k] = queue[k]
  BY Sizes DEF IInv
<1>2. /\ \A q \in Requests : pc'[q] = IF q = r THEN to ELSE pc[q]
      /\ pc' \in [Requests -> {"idle", "position", "pointer", "allocate", "thrown",
                               "write", "done", "signal", "ready"}]
      /\ \A q : Place(q)' = Place(q)
      /\ ProtocolInv' /\ WindowInv' /\ BatchInv' /\ NoOverflow'
  BY StepFrame
<1>3. \A k \in DOMAIN queue : CountAt(k)' /\ RowAt(k)'
  <2> SUFFICES ASSUME NEW k \in DOMAIN queue PROVE CountAt(k)' /\ RowAt(k)'
    OBVIOUS
  <2>1. CASE k = p
    BY <2>1
  <2>2. CASE k # p
    <3>1. queue'[k] = queue[k] /\ k # Place(r)
      BY <1>1, <2>2
    <3> QED
      BY <3>1, OtherPlaces
  <2> QED
    BY <2>1, <2>2
<1>4. CountInv' /\ RowInv'
  BY <1>1, <1>3 DEF CountInv, RowInv
<1>5. PointerInv'
  <2>1. \A q \in Requests : Place(q) \in DOMAIN queue
    BY Sizes DEF IInv
  <2> QED
    BY <1>1, <1>2, <2>1 DEF Advances, IInv, PointerInv
<1>6. TypeOK'
  <2>1. Batch' = Batch /\ QueueSize' = QueueSize /\ BufferType' = BufferType
    BY ConfigFrame DEF Advances, BufferType
  <2>2. \A k \in DOMAIN queue' : queue'[k] \in BufferType'
    <3>1. \A k \in DOMAIN queue : queue[k] \in BufferType
      BY Fields DEF IInv
    <3> QED
      BY <1>1, <2>1, <3>1
  <2>3. DOMAIN queue' = 0..(QueueSize' - 1)
    BY <1>1, <2>1 DEF IInv, TypeOK
  <2> QED
    BY <1>2, <2>1, <2>2, <2>3 DEF Advances, IInv, TypeOK, counters, receiverVars
<1> QED
  BY <1>2, <1>4, <1>5, <1>6 DEF IInv

----------------------------------------------------------------------------
(* The steps of a request *)

LEMMA ReadPointerInductive ==
  ASSUME IInv, NEW r \in Requests, ReadPointer(r) PROVE IInv'
<1> USE DEF ReadPointer, Step
<1>1. Advances(r, "allocate") /\ row' = row /\ queue' = queue
  BY DEF Advances, receiverVars, counters
<1>2. /\ \A q \in Requests : pc'[q] = IF q = r THEN "allocate" ELSE pc[q]
      /\ pc' \in [Requests -> {"idle", "position", "pointer", "allocate", "thrown",
                               "write", "done", "signal", "ready"}]
      /\ \A q : Place(q)' = Place(q)
      /\ \A k : Users(k)' = Users(k) /\ Added(k)' = Added(k)
      /\ ProtocolInv' /\ WindowInv' /\ BatchInv' /\ NoOverflow'
  BY <1>1, StepFrame
<1>3. ASSUME NEW k \in DOMAIN queue PROVE CountAt(k)' /\ RowAt(k)'
  <2>1. /\ Allocated(k)' = Allocated(k) /\ Reported(k)' = Reported(k)
        /\ Signalling(k)' = Signalling(k) /\ Allocated(k) \subseteq Requests
    <3>1. Users(k) \subseteq Requests
      BY Parts
    <3> QED
      BY <1>2, <3>1 DEF Allocated, Reported, Signalling
  <2>2. /\ Batch' = Batch /\ IsSync' = IsSync /\ \A b : Offset(b)' = Offset(b)
        /\ rpc' = rpc /\ block' = block /\ order' = order
    BY ConfigFrame DEF receiverVars
  <2>3. CountAt(k)'
    <3>1. CountAt(k)
      BY DEF IInv, CountInv
    <3> QED
      BY <1>1, <1>2, <2>1, <2>2, <3>1 DEF CountAt, IsHead
  <2>4. RowAt(k)'
    <3>1. RowAt(k)
      BY DEF IInv, RowInv
    <3>2. \A q \in Allocated(k) : pc'[q] # "write" => pc[q] # "write"
      BY <1>2, <2>1
    <3> QED
      BY <1>1, <2>1, <2>2, <3>1, <3>2 DEF RowAt
  <2> QED
    BY <2>3, <2>4
<1>4. CountInv' /\ RowInv'
  BY <1>1, <1>3 DEF CountInv, RowInv
<1>5. r \in Requests /\ Place(r) \in DOMAIN queue /\ queue[Place(r)].id \in Nat
  BY Sizes, Fields DEF IInv
<1>6. PointerInv'
  <2>1. pointer \in [Requests -> Nat]
    BY DEF IInv, TypeOK
  <2> QED
    BY <1>1, <1>2, <2>1 DEF IInv, PointerInv
<1>7. TypeOK'
  <2>1. Batch' = Batch /\ QueueSize' = QueueSize /\ BufferType' = BufferType
    BY ConfigFrame DEF BufferType
  <2>2. pointer' \in [Requests -> Nat]
    BY <1>5 DEF IInv, TypeOK
  <2> QED
    BY <1>1, <1>2, <2>1, <2>2 DEF IInv, TypeOK, counters, receiverVars
<1> QED
  BY <1>2, <1>4, <1>6, <1>7 DEF IInv

\* The three parts of a place as the steps of its user r change them.
LEMMA MyPlace ==
  ASSUME IInv, NEW r \in Requests, NEW to, NEW p, p = Place(r), Advances(r, to)
  PROVE  /\ p \in DOMAIN queue /\ r \in Users(p) /\ CountAt(p) /\ RowAt(p)
         /\ Allocated(p)' = {q \in Users(p) : q # r /\ q \in Allocated(p)}
              \cup {q \in {r} : to \in {"write", "done", "signal", "ready"}}
         /\ Reported(p)' = {q \in Users(p) : q # r /\ q \in Reported(p)}
              \cup {q \in {r} : to \in {"signal", "ready"}}
         /\ Signalling(p)' = {q \in Users(p) : q # r /\ q \in Signalling(p)}
              \cup {q \in {r} : to = "signal"}
         /\ Added(p)' = Added(p) /\ \A stages : IsHead(p, stages)' = IsHead(p, stages)
         /\ Batch' = Batch /\ IsSync' = IsSync /\ order' = order
<1>1. p \in DOMAIN queue /\ r \in Users(p)
  <2>1. pc[r] \notin {"idle", "position", "ready"}
    BY DEF Advances
  <2> QED
    BY <2>1, Working, Sizes DEF IInv
<1>2. CountAt(p) /\ RowAt(p)
  BY <1>1 DEF IInv, CountInv, RowInv
<1>3. /\ \A q \in Requests : pc'[q] = IF q = r THEN to ELSE pc[q]
      /\ \A k : Users(k)' = Users(k) /\ Added(k)' = Added(k)
  BY StepFrame
<1>4. Users(p) \subseteq Requests /\ Users(p)' = Users(p)
  BY <1>3, Parts
<1>5. Allocated(p)' = {q \in Users(p) : q # r /\ q \in Allocated(p)}
              \cup {q \in {r} : to \in {"write", "done", "signal", "ready"}}
  BY <1>1, <1>3, <1>4 DEF Allocated
<1>6. Reported(p)' = {q \in Users(p) : q # r /\ q \in Reported(p)}
              \cup {q \in {r} : to \in {"signal", "ready"}}
  BY <1>1, <1>3, <1>4 DEF Reported
<1>7. Signalling(p)' = {q \in Users(p) : q # r /\ q \in Signalling(p)}
              \cup {q \in {r} : to = "signal"}
  BY <1>1, <1>3, <1>4 DEF Signalling
<1>8. /\ Batch' = Batch /\ IsSync' = IsSync /\ order' = order
      /\ \A stages : IsHead(p, stages)' = IsHead(p, stages)
  BY ConfigFrame DEF Advances, receiverVars, IsHead
<1> QED
  BY <1>1, <1>2, <1>3, <1>5, <1>6, <1>7, <1>8

\* In synchronous mode an order is a row of the buffer, otherwise there is none.
LEMMA OrderRange ==
  ASSUME TypeOK, ProtocolInv, NEW r \in outstanding
  PROVE  IF IsSync THEN order[r] \in 0..(Batch - 1) ELSE order[r] = -1
<1>1. r \in Requests /\ order[r] \in -1..(Batch - 1)
  BY DEF TypeOK
<1>2. IsSync => order[r] \in 0..(Cardinality(outstanding) - 1)
  BY DEF ProtocolInv
<1>3. Cardinality(outstanding) \in Nat /\ Batch \in Nat
  BY Sizes, InFinite DEF TypeOK
<1> QED
  BY <1>1, <1>2, <1>3 DEF ProtocolInv

LEMMA RowRange ==
  ASSUME IInv, NEW p \in DOMAIN queue, NEW r \in Allocated(p)
  PROVE  row[r] \in 0..(Batch - 1)
<1>1. r \in Requests /\ r \in outstanding
  BY Parts DEF Allocated, Users, Placed, IInv, ProtocolInv
<1>2. row[r] \in 0..Batch
  BY <1>1 DEF IInv, TypeOK
<1>3. IF IsSync THEN row[r] = order[r] ELSE row[r] < queue[p].allocCount
  BY DEF IInv, RowInv, RowAt
<1>4. queue[p].allocCount <= Batch /\ Batch \in Nat \ {0} /\ queue[p].allocCount \in Nat
  <2>1. queue[p].allocCount = Cardinality(Allocated(p))
    BY DEF IInv, CountInv, CountAt
  <2>2. /\ Cardinality(Allocated(p)) <= Cardinality(Users(p))
        /\ Cardinality(Allocated(p)) \in Nat /\ Cardinality(Users(p)) \in Nat
    BY PartSizes
  <2>3. Cardinality(Users(p)) + additional <= Batch
    BY Quota DEF IInv
  <2>4. additional \in Nat /\ Batch \in Nat \ {0}
    BY Sizes, HeadBlockType DEF IInv
  <2> QED
    BY <2>1, <2>2, <2>3, <2>4
<1>5. IF IsSync THEN order[r] \in 0..(Batch - 1) ELSE order[r] = -1
  BY <1>1, OrderRange DEF IInv
<1> QED
  BY <1>2, <1>3, <1>4, <1>5

LEMMA AllocateRowInductive ==
  ASSUME IInv, NEW r \in Requests, AllocateRow(r) PROVE IInv'
<1> PICK p : p = Place(r)
  OBVIOUS
<1> PICK b : b = [queue[p] EXCEPT !.allocCount = @ + 1]
  OBVIOUS
<1> USE DEF AllocateRow, Step
<1>1. /\ pc[r] = "allocate" /\ r \in Users(p) /\ p \in DOMAIN queue
      /\ r \in outstanding /\ r \notin Allocated(p)
  BY Working, Sizes DEF IInv, ProtocolInv, Allocated
<1>2. /\ queue[p].allocCount = Cardinality(Allocated(p))
      /\ Cardinality(Allocated(p) \cup {r}) = Cardinality(Allocated(p)) + 1
      /\ queue[p].allocCount \in Nat /\ queue[p].allocCount < Batch /\ Batch \in Nat \ {0}
  <2>1. queue[p].allocCount = Cardinality(Allocated(p))
    BY <1>1 DEF IInv, CountInv, CountAt
  <2>2. Allocated(p) \cup {r} \in SUBSET Users(p) /\ Users(p) \in SUBSET Requests
    BY <1>1, Parts
  <2>3. Cardinality(Allocated(p) \cup {r}) <= Cardinality(Users(p))
    BY <2>2, Within
  <2>4. Cardinality(Allocated(p) \cup {r}) = Cardinality(Allocated(p)) + 1
    BY <1>1, <2>2, Enter
  <2>5. Cardinality(Users(p)) + additional <= Batch
    BY Quota DEF IInv
  <2>6. Cardinality(Allocated(p)) \in Nat /\ Cardinality(Users(p)) \in Nat
    BY PartSizes
  <2>7. additional \in Nat /\ Batch \in Nat \ {0}
    BY Sizes, HeadBlockType DEF IInv
  <2> QED
    BY <2>1, <2>3, <2>4, <2>5, <2>6, <2>7
<1>3. row' = [row EXCEPT ![r] = IF order[r] # -1 THEN order[r] ELSE queue[p].allocCount]
  OBVIOUS
<1>4. IF IsSync THEN order[r] \in 0..(Batch - 1) ELSE order[r] = -1
  BY <1>1, OrderRange DEF IInv
<1>5. row' \in [Requests -> 0..Batch] /\ row'[r] = IF IsSync THEN order[r] ELSE queue[p].allocCount
  <2>1. row \in [Requests -> 0..Batch]
    BY DEF IInv, TypeOK
  <2>2. (IF order[r] # -1 THEN order[r] ELSE queue[p].allocCount)
          = (IF IsSync THEN order[r] ELSE queue[p].allocCount)
    BY <1>2, <1>4
  <2>3. (IF IsSync THEN order[r] ELSE queue[p].allocCount) \in 0..Batch
    BY <1>2, <1>4
  <2> QED
    BY ONLY <1>3, <2>1, <2>2, <2>3, r \in Requests
<1>6. Advances(r, "write")
  BY <1>1, <1>2, <1>3 DEF Advances, receiverVars, counters
<1>7. /\ b \in BufferType /\ b.id = queue[p].id /\ b.allocCount = queue[p].allocCount + 1
      /\ b.doneCount = queue[p].doneCount /\ b.sem = queue[p].sem /\ b.rows = queue[p].rows
      /\ queue' = [queue EXCEPT ![p] = b] /\ queue'[p] = b
  <2>1. /\ queue[p] = [id |-> queue[p].id, allocCount |-> queue[p].allocCount,
                       doneCount |-> queue[p].doneCount, sem |-> queue[p].sem,
                       rows |-> queue[p].rows]
        /\ queue[p].id \in Nat /\ queue[p].allocCount \in Nat
        /\ queue[p].doneCount \in 0..Batch /\ queue[p].sem \in 0..1
        /\ queue[p].rows \in [0..(Batch - 1) -> Requests \cup {Null}]
    BY <1>1, Fields DEF IInv
  <2>2. b = [id |-> queue[p].id, allocCount |-> queue[p].allocCount + 1,
             doneCount |-> queue[p].doneCount, sem |-> queue[p].sem,
             rows |-> queue[p].rows]
    BY <2>1
  <2>3. queue' = [queue EXCEPT ![p] = b]
    OBVIOUS
  <2> QED
    BY <1>1, <2>1, <2>2, <2>3 DEF BufferType
<1>8. /\ CountAt(p) /\ RowAt(p)
      /\ Allocated(p)' = Allocated(p) \cup {r}
      /\ Reported(p)' = Reported(p) /\ Signalling(p)' = Signalling(p)
      /\ Added(p)' = Added(p) /\ \A stages : IsHead(p, stages)' = IsHead(p, stages)
      /\ Batch' = Batch /\ IsSync' = IsSync /\ order' = order
  <2>1. r \notin Reported(p) /\ r \notin Signalling(p)
    BY <1>1 DEF Reported, Signalling
  <2>2. /\ Allocated(p) \subseteq Users(p) /\ Reported(p) \subseteq Users(p)
        /\ Signalling(p) \subseteq Users(p)
    BY DEF Allocated, Reported, Signalling
  <2>3. /\ CountAt(p) /\ RowAt(p)
        /\ Added(p)' = Added(p) /\ \A stages : IsHead(p, stages)' = IsHead(p, stages)
        /\ Batch' = Batch /\ IsSync' = IsSync /\ order' = order
    BY <1>6, MyPlace
  <2>4. Allocated(p)' = {q \in Users(p) : q # r /\ q \in Allocated(p)} \cup {r}
    <3>1. Allocated(p)' = {q \in Users(p) : q # r /\ q \in Allocated(p)}
              \cup {q \in {r} : "write" \in {"write", "done", "signal", "ready"}}
      BY <1>6, MyPlace
    <3> QED
      BY <3>1
  <2>5. Reported(p)' = {q \in Users(p) : q # r /\ q \in Reported(p)}
    <3>1. Reported(p)' = {q \in Users(p) : q # r /\ q \in Reported(p)}
              \cup {q \in {r} : "write" \in {"signal", "ready"}}
      BY <1>6, MyPlace
    <3> QED
      BY <3>1
  <2>6. Signalling(p)' = {q \in Users(p) : q # r /\ q \in Signalling(p)}
    <3>1. Signalling(p)' = {q \in Users(p) : q # r /\ q \in Signalling(p)}
              \cup {q \in {r} : "write" = "signal"}
      BY <1>6, MyPlace
    <3> QED
      BY <3>1
  <2> QED
    BY <1>1, <2>1, <2>2, <2>3, <2>4, <2>5, <2>6
<1>9. CountAt(p)'
  BY <1>2, <1>7, <1>8 DEF CountAt
<1>10. RowAt(p)'
  <2>1. \A q \in Allocated(p) : q \in Requests /\ row'[q] = row[q] /\ pc'[q] = pc[q] /\ q # r
    BY <1>1, <1>6, Parts DEF Advances
  <2>2. \A q \in Allocated(p) : IF IsSync THEN row'[q] = order[q] ELSE row'[q] < queue[p].allocCount
    BY <1>8, <2>1 DEF RowAt
  <2>3. \A q \in Allocated(p) : row'[q] # row'[r]
    <3>1. \A q \in Allocated(p) : q \in outstanding /\ row'[q] \in Int
      <4>1. \A q \in Allocated(p) : row[q] \in 0..Batch
        BY <2>1 DEF IInv, TypeOK
      <4>2. \A q \in Allocated(p) : q \in outstanding
        BY Parts DEF IInv, ProtocolInv, Allocated, Users, Placed
      <4> QED
        BY <1>2, <2>1, <4>1, <4>2
    <3>2. CASE IsSync
      BY <1>1, <1>5, <2>1, <2>2, <3>1, <3>2 DEF IInv, ProtocolInv
    <3>3. CASE ~IsSync
      BY <1>2, <1>5, <2>2, <3>1, <3>3
    <3> QED
      BY <3>2, <3>3
  <2>4. \A q, s \in Allocated(p) : row'[q] = row'[s] => q = s
    BY <1>8, <2>1 DEF RowAt
  <2>5. ~IsSync => \A n \in 0..queue[p].allocCount : \E q \in Allocated(p) \cup {r} : row'[q] = n
    <3>1. ~IsSync => \A n \in 0..(queue[p].allocCount - 1) : \E q \in Allocated(p) : row'[q] = n
      BY <1>8, <2>1 DEF RowAt
    <3> QED
      BY <1>2, <1>5, <3>1
  <2>6. \A q \in Allocated(p) : pc'[q] # "write" => queue'[p].rows[row'[q]] = q
    BY <1>7, <1>8, <2>1 DEF RowAt
  <2>7. pc'[r] = "write" /\ (IF IsSync THEN row'[r] = order[r] ELSE row'[r] < queue[p].allocCount + 1)
    BY <1>2, <1>5, <1>6 DEF Advances, IInv, TypeOK
  <2>8. \A q \in Allocated(p)' :
          IF IsSync' THEN row'[q] = order'[q] ELSE row'[q] < queue'[p].allocCount
    <3>1. \A q \in Allocated(p) : row'[q] \in Int
      <4>1. \A q \in Allocated(p) : row[q] \in 0..Batch
        BY <2>1 DEF IInv, TypeOK
      <4> QED
        BY <1>2, <2>1, <4>1
    <3>2. queue'[p].allocCount = queue[p].allocCount + 1
      BY <1>7
    <3>3. ASSUME NEW q \in Allocated(p)
          PROVE  IF IsSync THEN row'[q] = order[q] ELSE row'[q] < queue[p].allocCount + 1
      BY <1>2, <2>2, <3>1
    <3> QED
      BY <1>8, <2>7, <3>2, <3>3
  <2>9. (0..(queue'[p].allocCount - 1)) = 0..queue[p].allocCount
    <3>1. queue'[p].allocCount = queue[p].allocCount + 1 /\ queue[p].allocCount \in Nat
      BY <1>2, <1>7
    <3> QED
      BY ONLY <3>1
  <2>10. \A q, s \in Allocated(p)' : row'[q] = row'[s] => q = s
    BY <1>8, <2>3, <2>4
  <2>11. \A q \in Allocated(p)' : pc'[q] # "write" => queue'[p].rows[row'[q]] = q
    BY <1>8, <2>6, <2>7
  <2> QED
    BY <1>8, <2>5, <2>8, <2>9, <2>10, <2>11 DEF RowAt
<1>11. p = Place(r) /\ pc[r] # "pointer" /\ pointer' = pointer
  BY <1>1
<1> QED
  BY <1>5, <1>6, <1>7, <1>9, <1>10, <1>11, BufferFrame

\* The steps after the allocation, where r already has its row.
LEMMA MyRow ==
  ASSUME IInv, NEW r \in Requests, NEW to, NEW p, p = Place(r), Advances(r, to),
         pc[r] \in {"write", "done", "signal"}, to \in {"done", "signal", "ready"}
  PROVE  /\ p \in DOMAIN queue /\ r \in Allocated(p) /\ CountAt(p) /\ RowAt(p)
         /\ Allocated(p)' = Allocated(p)
         /\ Reported(p)' = IF to = "done" THEN Reported(p) \ {r} ELSE Reported(p) \cup {r}
         /\ Signalling(p)' = IF to = "signal" THEN Signalling(p) \cup {r}
                                             ELSE Signalling(p) \ {r}
         /\ Added(p)' = Added(p) /\ \A stages : IsHead(p, stages)' = IsHead(p, stages)
         /\ Batch' = Batch /\ IsSync' = IsSync /\ order' = order
<1>1. /\ p \in DOMAIN queue /\ r \in Users(p) /\ CountAt(p) /\ RowAt(p)
      /\ Added(p)' = Added(p) /\ \A stages : IsHead(p, stages)' = IsHead(p, stages)
      /\ Batch' = Batch /\ IsSync' = IsSync /\ order' = order
  BY MyPlace
<1>2. r \in Allocated(p)
  BY <1>1 DEF Allocated
<1>3. /\ Allocated(p) \subseteq Users(p) /\ Reported(p) \subseteq Users(p)
      /\ Signalling(p) \subseteq Users(p)
  BY DEF Allocated, Reported, Signalling
<1>4. Allocated(p)' = Allocated(p)
  <2>1. Allocated(p)' = {q \in Users(p) : q # r /\ q \in Allocated(p)}
              \cup {q \in {r} : to \in {"write", "done", "signal", "ready"}}
    BY MyPlace
  <2> QED
    BY <1>2, <1>3, <2>1
<1>5. Reported(p)' = IF to = "done" THEN Reported(p) \ {r} ELSE Reported(p) \cup {r}
  <2>1. Reported(p)' = {q \in Users(p) : q # r /\ q \in Reported(p)}
              \cup {q \in {r} : to \in {"signal", "ready"}}
    BY MyPlace
  <2> QED
    BY <1>3, <2>1
<1>6. Signalling(p)' = IF to = "signal" THEN Signalling(p) \cup {r}
                                      ELSE Signalling(p) \ {r}
  <2>1. Signalling(p)' = {q \in Users(p) : q # r /\ q \in Signalling(p)}
              \cup {q \in {r} : to = "signal"}
    BY MyPlace
  <2> QED
    BY <1>3, <2>1
<1> QED
  BY <1>1, <1>2, <1>4, <1>5, <1>6

LEMMA RowKept ==
  ASSUME NEW p, RowAt(p), Allocated(p)' = Allocated(p), row' = row, order' = order,
         IsSync' = IsSync, queue'[p].allocCount = queue[p].allocCount,
         \A q \in Allocated(p) : pc'[q] # "write" => queue'[p].rows[row[q]] = q
  PROVE  RowAt(p)'
  BY DEF RowAt

LEMMA WriteRowInductive ==
  ASSUME IInv, NEW r \in Requests, WriteRow(r) PROVE IInv'
<1> PICK p : p = Place(r)
  OBVIOUS
<1> PICK b : b = [queue[p] EXCEPT !.rows[row[r]] = r]
  OBVIOUS
<1> USE DEF WriteRow, Step
<1>1. Advances(r, "done") /\ row' = row /\ pc[r] = "write" /\ pc'[r] = "done"
  BY DEF Advances, receiverVars, counters, IInv, TypeOK
<1>2. /\ p \in DOMAIN queue /\ r \in Allocated(p) /\ CountAt(p) /\ RowAt(p)
      /\ Allocated(p)' = Allocated(p) /\ Reported(p)' = Reported(p)
      /\ Signalling(p)' = Signalling(p)
      /\ Added(p)' = Added(p) /\ \A stages : IsHead(p, stages)' = IsHead(p, stages)
      /\ Batch' = Batch /\ IsSync' = IsSync /\ order' = order
  <2>1. /\ p \in DOMAIN queue /\ r \in Allocated(p) /\ CountAt(p) /\ RowAt(p)
        /\ Allocated(p)' = Allocated(p)
        /\ Reported(p)' = IF "done" = "done" THEN Reported(p) \ {r} ELSE Reported(p) \cup {r}
        /\ Signalling(p)' = IF "done" = "signal" THEN Signalling(p) \cup {r}
                                                ELSE Signalling(p) \ {r}
        /\ Added(p)' = Added(p) /\ \A stages : IsHead(p, stages)' = IsHead(p, stages)
        /\ Batch' = Batch /\ IsSync' = IsSync /\ order' = order
    BY <1>1, MyRow
  <2>2. r \notin Signalling(p) /\ r \notin Reported(p)
    BY <1>1 DEF Signalling, Reported
  <2> QED
    BY <2>1, <2>2
<1>3. row[r] \in 0..(Batch - 1)
  BY <1>2, RowRange
<1>4. /\ b \in BufferType /\ b.id = queue[p].id /\ b.allocCount = queue[p].allocCount
      /\ b.doneCount = queue[p].doneCount /\ b.sem = queue[p].sem
      /\ b.rows = [queue[p].rows EXCEPT ![row[r]] = r]
      /\ queue' = [queue EXCEPT ![p] = b] /\ queue'[p] = b
  <2>1. /\ queue[p] = [id |-> queue[p].id, allocCount |-> queue[p].allocCount,
                       doneCount |-> queue[p].doneCount, sem |-> queue[p].sem,
                       rows |-> queue[p].rows]
        /\ queue[p].id \in Nat /\ queue[p].allocCount \in Nat
        /\ queue[p].doneCount \in 0..Batch /\ queue[p].sem \in 0..1
        /\ queue[p].rows \in [0..(Batch - 1) -> Requests \cup {Null}]
    BY <1>2, Fields DEF IInv
  <2>2. b = [id |-> queue[p].id, allocCount |-> queue[p].allocCount,
             doneCount |-> queue[p].doneCount, sem |-> queue[p].sem,
             rows |-> [queue[p].rows EXCEPT ![row[r]] = r]]
    BY <2>1
  <2>3. [queue[p].rows EXCEPT ![row[r]] = r] \in [0..(Batch - 1) -> Requests \cup {Null}]
    BY <1>3, <2>1
  <2>4. queue' = [queue EXCEPT ![p] = b]
    OBVIOUS
  <2> QED
    BY <1>2, <2>1, <2>2, <2>3, <2>4 DEF BufferType
<1>5. CountAt(p)'
  BY <1>2, <1>4 DEF CountAt
<1>6. RowAt(p)'
  <2>1. \A q \in Allocated(p) : q \in Requests /\ (q # r => pc'[q] = pc[q])
    <3>1. \A q \in Allocated(p) : q \in Requests
      BY Parts
    <3> QED
      BY <3>1 DEF IInv, TypeOK
  <2>2. ASSUME NEW q \in Allocated(p), pc'[q] # "write" PROVE b.rows[row[q]] = q
    <3>1. row[q] \in 0..(Batch - 1) /\ queue[p].rows \in [0..(Batch - 1) -> Requests \cup {Null}]
      BY <1>2, RowRange, Fields DEF IInv
    <3>2. CASE q = r
      BY <1>3, <1>4, <3>1, <3>2
    <3>3. CASE q # r
      <4>1. row[q] # row[r] /\ queue[p].rows[row[q]] = q
        BY <1>2, <2>1, <2>2, <3>3 DEF RowAt
      <4> QED
        BY <1>3, <1>4, <3>1, <4>1
    <3> QED
      BY <3>2, <3>3
  <2>3. \A q \in Allocated(p) : pc'[q] # "write" => queue'[p].rows[row[q]] = q
    BY <1>4, <2>2
  <2>4. queue'[p].allocCount = queue[p].allocCount
    BY <1>4
  <2> QED
    BY <1>1, <1>2, <2>3, <2>4, RowKept
<1>7. pointer' = pointer /\ row' \in [Requests -> 0..Batch] /\ pc[r] # "pointer"
  BY <1>1 DEF IInv, TypeOK
<1> QED
  BY <1>1, <1>4, <1>5, <1>6, <1>7, BufferFrame

LEMMA DoneInductive ==
  ASSUME IInv, NEW r \in Requests, Done(r) PROVE IInv'
<1> PICK p : p = Place(r)
  OBVIOUS
<1> PICK b : b = [queue[p] EXCEPT !.doneCount = @ + 1]
  OBVIOUS
<1> PICK to : to = IF Completes(queue[p], 1) THEN "signal" ELSE "ready"
  OBVIOUS
<1> USE DEF Done, Step
<1>1. Advances(r, to) /\ row' = row /\ pc[r] = "done" /\ pc'[r] = to /\ to \in {"signal", "ready"}
  BY DEF Advances, receiverVars, counters, IInv, TypeOK
<1>2. /\ p \in DOMAIN queue /\ r \in Allocated(p) /\ CountAt(p) /\ RowAt(p)
      /\ Allocated(p)' = Allocated(p) /\ Reported(p)' = Reported(p) \cup {r}
      /\ Signalling(p)' = IF to = "signal" THEN Signalling(p) \cup {r} ELSE Signalling(p)
      /\ Added(p)' = Added(p) /\ \A stages : IsHead(p, stages)' = IsHead(p, stages)
      /\ Batch' = Batch /\ IsSync' = IsSync /\ order' = order
  <2>1. /\ p \in DOMAIN queue /\ r \in Allocated(p) /\ CountAt(p) /\ RowAt(p)
        /\ Allocated(p)' = Allocated(p)
        /\ Reported(p)' = IF to = "done" THEN Reported(p) \ {r} ELSE Reported(p) \cup {r}
        /\ Signalling(p)' = IF to = "signal" THEN Signalling(p) \cup {r}
                                            ELSE Signalling(p) \ {r}
        /\ Added(p)' = Added(p) /\ \A stages : IsHead(p, stages)' = IsHead(p, stages)
        /\ Batch' = Batch /\ IsSync' = IsSync /\ order' = order
    BY <1>1, MyRow
  <2>2. r \notin Signalling(p)
    BY <1>1 DEF Signalling
  <2> QED
    BY <1>1, <2>1, <2>2
<1>3. r \notin Reported(p) /\ r \notin Signalling(p)
  BY <1>1 DEF Reported, Signalling
<1>4. /\ Cardinality(Reported(p) \cup {r}) = Cardinality(Reported(p)) + 1
      /\ Cardinality(Signalling(p) \cup {r}) = Cardinality(Signalling(p)) + 1
      /\ Cardinality(Reported(p)) \in Nat /\ Cardinality(Signalling(p)) \in Nat
  BY <1>3, Parts, PartSizes, Enter
<1>5. /\ queue[p].doneCount = Cardinality(Reported(p)) + Added(p) /\ Added(p) \in Nat
      /\ queue[p].doneCount \in Nat
      /\ queue[p].doneCount + 1 <= Batch /\ Batch \in Nat \ {0}
  <2>1. queue[p].doneCount = Cardinality(Reported(p)) + Added(p)
    BY <1>2 DEF CountAt
  <2>2. Reported(p) \cup {r} \in SUBSET Users(p) /\ Users(p) \in SUBSET Requests
    BY <1>2, Parts
  <2>3. Cardinality(Reported(p) \cup {r}) <= Cardinality(Users(p))
    BY <2>2, Within
  <2>4. Cardinality(Users(p)) + additional <= Batch
    BY Quota DEF IInv
  <2>5. Cardinality(Users(p)) \in Nat
    BY PartSizes
  <2>6. additional \in Nat /\ Batch \in Nat \ {0}
    BY Sizes, HeadBlockType DEF IInv
  <2>7. Added(p) \in Nat /\ Added(p) <= additional
    BY <2>6 DEF Added
  <2> QED
    BY <1>4, <2>1, <2>3, <2>4, <2>5, <2>6, <2>7
<1>6. /\ b \in BufferType /\ b.id = queue[p].id /\ b.allocCount = queue[p].allocCount
      /\ b.doneCount = queue[p].doneCount + 1 /\ b.sem = queue[p].sem
      /\ b.rows = queue[p].rows
      /\ queue' = [queue EXCEPT ![p] = b] /\ queue'[p] = b
  <2>1. /\ queue[p] = [id |-> queue[p].id, allocCount |-> queue[p].allocCount,
                       doneCount |-> queue[p].doneCount, sem |-> queue[p].sem,
                       rows |-> queue[p].rows]
        /\ queue[p].id \in Nat /\ queue[p].allocCount \in Nat
        /\ queue[p].doneCount \in 0..Batch /\ queue[p].sem \in 0..1
        /\ queue[p].rows \in [0..(Batch - 1) -> Requests \cup {Null}]
    BY <1>2, Fields DEF IInv
  <2>2. b = [id |-> queue[p].id, allocCount |-> queue[p].allocCount,
             doneCount |-> queue[p].doneCount + 1, sem |-> queue[p].sem,
             rows |-> queue[p].rows]
    BY <2>1
  <2>3. queue[p].doneCount + 1 \in 0..Batch
    BY <1>5
  <2>4. queue' = [queue EXCEPT ![p] = b]
    OBVIOUS
  <2> QED
    BY <1>2, <2>1, <2>2, <2>3, <2>4 DEF BufferType
<1>7. CountAt(p)'
  <2>1. queue[p].sem + Cardinality(Signalling(p)) + Bit(IsHead(p, {"signal"}))
           + Bit(IsHead(p, {"truncate", "skip", "swap", "swapping"})) = 0
    <3>1. queue[p].doneCount # Batch
      BY <1>5
    <3> QED
      BY <1>2, <3>1 DEF CountAt, Bit
  <2>2. queue[p].sem \in Nat
    <3>1. queue[p].sem \in 0..1
      BY <1>2, Fields DEF IInv
    <3> QED
      BY <3>1
  <2>3. to = "signal" <=> queue[p].doneCount + 1 = Batch
    BY DEF Completes
  <2>4. /\ Bit(IsHead(p, {"signal"})) \in Nat
        /\ Bit(IsHead(p, {"truncate", "skip", "swap", "swapping"})) \in Nat
    BY DEF Bit
  <2>5. queue[p].sem + Cardinality(Signalling(p)') + Bit(IsHead(p, {"signal"}))
           + Bit(IsHead(p, {"truncate", "skip", "swap", "swapping"}))
         = Bit(queue[p].doneCount + 1 = Batch)
    <3>1. CASE to = "signal"
      <4>1. Bit(queue[p].doneCount + 1 = Batch) = 1
        BY <2>3, <3>1 DEF Bit
      <4>2. Cardinality(Signalling(p)') = Cardinality(Signalling(p)) + 1
        BY <1>2, <1>4, <3>1
      <4> QED
        BY ONLY <1>4, <2>1, <2>2, <2>4, <4>1, <4>2
    <3>2. CASE to # "signal"
      <4>1. Bit(queue[p].doneCount + 1 = Batch) = 0
        BY <2>3, <3>2 DEF Bit
      <4>2. Cardinality(Signalling(p)') = Cardinality(Signalling(p))
        BY <1>2, <3>2
      <4> QED
        BY <2>1, <4>1, <4>2
    <3> QED
      BY <3>1, <3>2
  <2>6. queue[p].doneCount + 1 = Cardinality(Reported(p)') + Added(p)
    BY <1>2, <1>4, <1>5
  <2>7. queue'[p].allocCount = Cardinality(Allocated(p)')
    BY <1>2, <1>6 DEF CountAt
  <2>8. queue'[p].doneCount = Cardinality(Reported(p)') + Added(p)'
    BY <1>2, <1>6, <2>6
  <2>9. /\ IsHead(p, {"signal"})' = IsHead(p, {"signal"})
        /\ IsHead(p, {"truncate", "skip", "swap", "swapping"})'
             = IsHead(p, {"truncate", "skip", "swap", "swapping"})
    BY <1>2
  <2>10. queue'[p].sem + Cardinality(Signalling(p)') + Bit(IsHead(p, {"signal"})')
           + Bit(IsHead(p, {"truncate", "skip", "swap", "swapping"})')
         = Bit(queue'[p].doneCount = Batch')
    BY ONLY <1>2, <1>6, <2>5, <2>9
  <2> QED
    BY ONLY <2>7, <2>8, <2>10 DEF CountAt, Bit
<1>8. RowAt(p)'
  <2>1. \A q \in Allocated(p) : q \in Requests
    BY Parts
  <2>2. \A q \in Allocated(p) : pc'[q] # "write" => pc[q] # "write"
    BY <1>1, <2>1 DEF IInv, TypeOK
  <2>3. \A q \in Allocated(p) : pc'[q] # "write" => queue'[p].rows[row[q]] = q
    <3>1. \A q \in Allocated(p) : pc[q] # "write" => queue[p].rows[row[q]] = q
      BY <1>2 DEF RowAt
    <3>2. queue'[p].rows = queue[p].rows
      BY <1>6
    <3> QED
      BY ONLY <2>2, <3>1, <3>2
  <2>4. queue'[p].allocCount = queue[p].allocCount
    BY <1>6
  <2> QED
    BY <1>1, <1>2, <2>3, <2>4, RowKept
<1>9. pointer' = pointer /\ row' \in [Requests -> 0..Batch] /\ pc[r] # "pointer"
  BY <1>1 DEF IInv, TypeOK
<1> QED
  BY <1>1, <1>6, <1>7, <1>8, <1>9, BufferFrame

LEMMA SignalInductive ==
  ASSUME IInv, NEW r \in Requests, Signal(r) PROVE IInv'
<1> PICK p : p = Place(r)
  OBVIOUS
<1> PICK b : b = [queue[p] EXCEPT !.sem = @ + 1]
  OBVIOUS
<1> USE DEF Signal, Step
<1>1. Advances(r, "ready") /\ row' = row /\ pc[r] = "signal" /\ pc'[r] = "ready"
  BY DEF Advances, receiverVars, counters, IInv, TypeOK
<1>2. /\ p \in DOMAIN queue /\ r \in Allocated(p) /\ CountAt(p) /\ RowAt(p)
      /\ Allocated(p)' = Allocated(p) /\ Reported(p)' = Reported(p)
      /\ Signalling(p)' = Signalling(p) \ {r} /\ r \in Signalling(p)
      /\ Added(p)' = Added(p) /\ \A stages : IsHead(p, stages)' = IsHead(p, stages)
      /\ Batch' = Batch /\ IsSync' = IsSync /\ order' = order
  <2>1. /\ p \in DOMAIN queue /\ r \in Allocated(p) /\ CountAt(p) /\ RowAt(p)
        /\ Allocated(p)' = Allocated(p)
        /\ Reported(p)' = IF "ready" = "done" THEN Reported(p) \ {r} ELSE Reported(p) \cup {r}
        /\ Signalling(p)' = IF "ready" = "signal" THEN Signalling(p) \cup {r}
                                                 ELSE Signalling(p) \ {r}
        /\ Added(p)' = Added(p) /\ \A stages : IsHead(p, stages)' = IsHead(p, stages)
        /\ Batch' = Batch /\ IsSync' = IsSync /\ order' = order
    BY <1>1, MyRow
  <2>2. r \in Signalling(p) /\ r \in Reported(p)
    BY <1>1, <2>1 DEF Signalling, Reported, Allocated
  <2> QED
    BY <2>1, <2>2
<1>3. /\ Cardinality(Signalling(p) \ {r}) = Cardinality(Signalling(p)) - 1
      /\ Cardinality(Signalling(p)) \in Nat /\ Cardinality(Signalling(p)) >= 1
  BY <1>2, Parts, PartSizes, Leave
<1>4. queue[p].sem = 0
  <2>1. queue[p].sem + Cardinality(Signalling(p)) + Bit(IsHead(p, {"signal"}))
           + Bit(IsHead(p, {"truncate", "skip", "swap", "swapping"}))
         = Bit(queue[p].doneCount = Batch)
    BY <1>2 DEF CountAt
  <2>2. queue[p].sem \in 0..1
    BY <1>2, Fields DEF IInv
  <2>3. /\ Bit(IsHead(p, {"signal"})) \in 0..1 /\ Bit(queue[p].doneCount = Batch) \in 0..1
        /\ Bit(IsHead(p, {"truncate", "skip", "swap", "swapping"})) \in 0..1
    BY DEF Bit
  <2> QED
    BY ONLY <1>3, <2>1, <2>2, <2>3
<1>5. /\ b \in BufferType /\ b.id = queue[p].id /\ b.allocCount = queue[p].allocCount
      /\ b.doneCount = queue[p].doneCount /\ b.sem = queue[p].sem + 1
      /\ b.rows = queue[p].rows
      /\ queue' = [queue EXCEPT ![p] = b] /\ queue'[p] = b
  <2>1. /\ queue[p] = [id |-> queue[p].id, allocCount |-> queue[p].allocCount,
                       doneCount |-> queue[p].doneCount, sem |-> queue[p].sem,
                       rows |-> queue[p].rows]
        /\ queue[p].id \in Nat /\ queue[p].allocCount \in Nat
        /\ queue[p].doneCount \in 0..Batch /\ queue[p].sem \in 0..1
        /\ queue[p].rows \in [0..(Batch - 1) -> Requests \cup {Null}]
    BY <1>2, Fields DEF IInv
  <2>2. b = [id |-> queue[p].id, allocCount |-> queue[p].allocCount,
             doneCount |-> queue[p].doneCount, sem |-> queue[p].sem + 1,
             rows |-> queue[p].rows]
    BY <2>1
  <2>3. queue[p].sem + 1 \in 0..1
    BY <1>4
  <2>4. queue' = [queue EXCEPT ![p] = b]
    OBVIOUS
  <2> QED
    BY <1>2, <2>1, <2>2, <2>3, <2>4 DEF BufferType
<1>6. CountAt(p)'
  <2>1. queue[p].sem + Cardinality(Signalling(p)) + Bit(IsHead(p, {"signal"}))
           + Bit(IsHead(p, {"truncate", "skip", "swap", "swapping"}))
         = Bit(queue[p].doneCount = Batch)
    BY <1>2 DEF CountAt
  <2>2. queue'[p].sem + Cardinality(Signalling(p)') = queue[p].sem + Cardinality(Signalling(p))
    <3>1. queue'[p].sem = b.sem /\ b.sem = queue[p].sem + 1
      BY <1>5
    <3>2. Cardinality(Signalling(p)') = Cardinality(Signalling(p)) - 1
      BY ONLY <1>2, <1>3
    <3> QED
      BY ONLY <1>3, <1>4, <3>1, <3>2
  <2> QED
    BY <1>2, <1>5, <2>1, <2>2 DEF CountAt
<1>7. RowAt(p)'
  <2>1. \A q \in Allocated(p) : q \in Requests
    BY Parts
  <2>2. \A q \in Allocated(p) : pc'[q] # "write" => pc[q] # "write"
    BY <1>1, <2>1 DEF IInv, TypeOK
  <2>3. \A q \in Allocated(p) : pc'[q] # "write" => queue'[p].rows[row[q]] = q
    <3>1. \A q \in Allocated(p) : pc[q] # "write" => queue[p].rows[row[q]] = q
      BY <1>2 DEF RowAt
    <3>2. queue'[p].rows = queue[p].rows
      BY <1>5
    <3> QED
      BY ONLY <2>2, <3>1, <3>2
  <2>4. queue'[p].allocCount = queue[p].allocCount
    BY <1>5
  <2> QED
    BY <1>1, <1>2, <2>3, <2>4, RowKept
<1>8. pointer' = pointer /\ row' \in [Requests -> 0..Batch] /\ pc[r] # "pointer"
  BY <1>1 DEF IInv, TypeOK
<1> QED
  BY <1>1, <1>5, <1>6, <1>7, <1>8, BufferFrame

----------------------------------------------------------------------------
(* The steps before a request has a position *)

\* No buffer is concerned when neither its users nor what they do changes.
LEMMA BuffersFrame ==
  ASSUME IInv, config' = config, queue' = queue, NEW k \in DOMAIN queue,
         Allocated(k)' = Allocated(k), Reported(k)' = Reported(k),
         Signalling(k)' = Signalling(k), Added(k)' = Added(k),
         IsHead(k, {"signal"})' <=> IsHead(k, {"signal"}),
         IsHead(k, {"truncate", "skip", "swap", "swapping"})'
           <=> IsHead(k, {"truncate", "skip", "swap", "swapping"}),
         \A q \in Allocated(k) : row'[q] = row[q] /\ order'[q] = order[q] /\ pc'[q] = pc[q]
  PROVE  CountAt(k)' /\ RowAt(k)'
<1>1. Batch' = Batch /\ IsSync' = IsSync
  BY ConfigFrame
<1>2. CountAt(k) /\ RowAt(k)
  BY DEF IInv, CountInv, RowInv
<1>3. CountAt(k)'
  BY <1>1, <1>2 DEF CountAt, Bit
<1>4. RowAt(k)'
  BY <1>1, <1>2 DEF RowAt
<1> QED
  BY <1>3, <1>4

LEMMA BeginFrame ==
  ASSUME IInv, UNCHANGED <<config, counters, queue, pos, pointer, row, receiverVars>>,
         pc' \in [Requests -> {"idle", "position", "pointer", "allocate", "thrown",
                              "write", "done", "signal", "ready"}],
         \A q \in Placed : pc'[q] = pc[q] /\ order'[q] = order[q],
         \A q \in Requests \ Placed : pc'[q] \in {"idle", "position"},
         outstanding' \subseteq Requests, order' \in [Requests -> -1..(Batch - 1)],
         IsSync => rpc = "idle", ProtocolInv'
  PROVE  IInv'
<1> USE DEF counters, receiverVars
<1>1. /\ Batch' = Batch /\ IsSync' = IsSync /\ QueueSize' = QueueSize
      /\ BufferType' = BufferType /\ \A b : Offset(b)' = Offset(b)
  BY ConfigFrame DEF BufferType
<1>2. /\ Placed' = Placed /\ \A q : BlockOf(q)' = BlockOf(q) /\ Place(q)' = Place(q)
  <2>1. Placed' = Placed
    BY DEF Placed
  <2>2. \A q : BlockOf(q)' = BlockOf(q)
    BY <1>1 DEF BlockOf
  <2> QED
    BY <1>1, <2>1, <2>2 DEF Place, Offset
<1>3. TypeOK'
  BY <1>1 DEF IInv, TypeOK
<1>4. WindowInv'
  BY <1>1, <1>2 DEF IInv, WindowInv, HeadBlock, Skipped
<1>5. CountInv' /\ RowInv'
  <2>1. ASSUME NEW k \in DOMAIN queue PROVE CountAt(k)' /\ RowAt(k)'
    <3>1. Users(k)' = Users(k) /\ Users(k) \subseteq Placed
      BY <1>2 DEF Users, Collected
    <3>2. /\ Allocated(k)' = Allocated(k) /\ Reported(k)' = Reported(k)
          /\ Signalling(k)' = Signalling(k) /\ Allocated(k) \subseteq Placed
      BY <3>1 DEF Allocated, Reported, Signalling
    <3>3. /\ Added(k)' = Added(k)
          /\ IsHead(k, {"signal"})' <=> IsHead(k, {"signal"})
          /\ IsHead(k, {"truncate", "skip", "swap", "swapping"})'
               <=> IsHead(k, {"truncate", "skip", "swap", "swapping"})
      BY <1>1 DEF Added, IsHead
    <3>4. \A q \in Allocated(k) : row'[q] = row[q] /\ order'[q] = order[q] /\ pc'[q] = pc[q]
      BY <3>2
    <3> QED
      BY <3>2, <3>3, <3>4, BuffersFrame
  <2> QED
    BY <2>1 DEF CountInv, RowInv
<1>6. PointerInv'
  BY <1>2 DEF IInv, PointerInv, Placed
<1>7. BatchInv'
  <2> SUFFICES ASSUME rpc \in {"skip", "swap", "swapping", "return"} PROVE BatchInv'
    BY DEF BatchInv
  <2>1. RowsOf(arr)' = RowsOf(arr)
    BY DEF RowsOf
  <2>2. /\ ~IsSync
        /\ Len(arr) = Batch - additional
        /\ \A k \in DOMAIN arr :
             arr[k] \in Placed /\ pc[arr[k]] = "ready" /\ BlockOf(arr[k]) = block
               /\ row[arr[k]] = k - 1
        /\ \A q \in Placed : BlockOf(q) = block => q \in RowsOf(arr)
    BY DEF IInv, BatchInv
  <2>3. \A k \in DOMAIN arr : pc'[arr[k]] = "ready"
    BY <2>2
  <2> QED
    BY <1>1, <1>2, <2>1, <2>2, <2>3 DEF BatchInv
<1>8. NoOverflow'
  BY DEF IInv, NoOverflow, Placed
<1> QED
  BY <1>3, <1>4, <1>5, <1>6, <1>7, <1>8 DEF IInv

LEMMA BeginInductive ==
  ASSUME IInv, NEW r \in Requests, Begin(r) PROVE IInv'
<1> USE DEF Begin, Step
<1>1. /\ pc' \in [Requests -> {"idle", "position", "pointer", "allocate", "thrown",
                              "write", "done", "signal", "ready"}]
      /\ \A q \in Requests : pc'[q] = IF q = r THEN "position" ELSE pc[q]
      /\ pc[r] = "idle" /\ outstanding' \subseteq Requests
      /\ order' \in [Requests -> -1..(Batch - 1)] /\ order' = order
  BY DEF IInv, TypeOK
<1>2. /\ \A q \in Placed : pc'[q] = pc[q] /\ order'[q] = order[q]
      /\ \A q \in Requests \ Placed : pc'[q] \in {"idle", "position"}
  BY <1>1 DEF Placed
<1>3. ProtocolInv'
  <2>1. IsSync' = IsSync /\ Batch' = Batch
    BY ConfigFrame
  <2> QED
    BY <1>1, <2>1 DEF IInv, ProtocolInv, receiverVars, counters
<1> QED
  BY <1>1, <1>2, <1>3, BeginFrame

\* The orders of a Send are 0, 1, ... for the envs it lists.
LEMMA Listed ==
  ASSUME NEW n \in Nat, NEW list \in [0..(n - 1) -> Envs],
         NEW S, S = {list[k] : k \in 0..(n - 1)}, Cardinality(S) = n
  PROVE  /\ \A r \in S : /\ (CHOOSE k \in 0..(n - 1) : list[k] = r) \in 0..(n - 1)
                         /\ list[CHOOSE k \in 0..(n - 1) : list[k] = r] = r
         /\ \A k \in 0..(n - 1) : (CHOOSE j \in 0..(n - 1) : list[j] = list[k]) = k
<1>1. \A r \in S : /\ (CHOOSE k \in 0..(n - 1) : list[k] = r) \in 0..(n - 1)
                  /\ list[CHOOSE k \in 0..(n - 1) : list[k] = r] = r
  <2> SUFFICES ASSUME NEW r \in S
               PROVE  /\ (CHOOSE k \in 0..(n - 1) : list[k] = r) \in 0..(n - 1)
                      /\ list[CHOOSE k \in 0..(n - 1) : list[k] = r] = r
    OBVIOUS
  <2>1. \E k \in 0..(n - 1) : list[k] = r
    OBVIOUS
  <2> QED
    BY <2>1
<1>2. list \in Surjection(0..(n - 1), S)
  BY DEF Surjection
<1>3. IsFiniteSet(0..(n - 1)) /\ Cardinality(0..(n - 1)) = n
  BY FS_Interval
<1>4. list \in Injection(0..(n - 1), S)
  BY <1>2, <1>3, FS_Surjection
<1>5. ASSUME NEW k \in 0..(n - 1) PROVE (CHOOSE j \in 0..(n - 1) : list[j] = list[k]) = k
  <2>1. list[k] \in S
    OBVIOUS
  <2> DEFINE c == CHOOSE j \in 0..(n - 1) : list[j] = list[k]
  <2>2. c \in 0..(n - 1) /\ list[c] = list[k]
    BY <1>1, <2>1
  <2> HIDE DEF c
  <2>3. c = k
    BY <1>4, <2>2 DEF Injection, IsInjective
  <2> QED
    BY <2>3 DEF c
<1> QED
  BY <1>1, <1>5

LEMMA BeginRoundInductive == IInv /\ BeginRound => IInv'
<1> SUFFICES ASSUME IInv, BeginRound PROVE IInv'
  OBVIOUS
<1>0. PICK n \in 1..NumEnvs :
        \E list \in [0..(n - 1) -> Envs] :
          LET envs == {list[k] : k \in 0..(n - 1)}
          IN  /\ Cardinality(envs) = n
              /\ outstanding' = envs
              /\ pc' = [r \in Requests |-> IF r \in envs THEN "position" ELSE "idle"]
              /\ order' = [r \in Requests |->
                             IF r \in envs THEN CHOOSE k \in 0..(n - 1) : list[k] = r
                                           ELSE -1]
  BY DEF BeginRound
<1>1. PICK list \in [0..(n - 1) -> Envs] :
        LET envs == {list[k] : k \in 0..(n - 1)}
        IN  /\ Cardinality(envs) = n
            /\ outstanding' = envs
            /\ pc' = [r \in Requests |-> IF r \in envs THEN "position" ELSE "idle"]
            /\ order' = [r \in Requests |->
                           IF r \in envs THEN CHOOSE k \in 0..(n - 1) : list[k] = r
                                         ELSE -1]
  BY <1>0
<1>2. /\ IsSync /\ rpc = "idle" /\ outstanding = {}
      /\ UNCHANGED <<config, counters, queue, pos, pointer, row, receiverVars>>
  BY DEF BeginRound
<1> PICK S : S = {list[k] : k \in 0..(n - 1)}
  OBVIOUS
<1>3. /\ Cardinality(S) = n /\ outstanding' = S
      /\ pc' = [r \in Requests |-> IF r \in S THEN "position" ELSE "idle"]
      /\ order' = [r \in Requests |->
                      IF r \in S THEN CHOOSE k \in 0..(n - 1) : list[k] = r ELSE -1]
  BY <1>1
<1>4. n \in Nat /\ n <= Batch /\ Batch \in Nat /\ S \subseteq Envs /\ S \subseteq Requests
  BY <1>2, Sizes, SizesAssumption DEF IInv
<1>5. /\ \A r \in S : order'[r] \in 0..(n - 1) /\ list[order'[r]] = r
      /\ \A k \in 0..(n - 1) : list[k] \in S /\ order'[list[k]] = k
  BY <1>3, <1>4, Listed
<1>6. \A r \in Requests \ S : order'[r] = -1
  BY <1>3
<1>7. order' \in [Requests -> -1..(Batch - 1)]
  <2>1. \A r \in Requests : order'[r] \in -1..(Batch - 1)
    BY <1>4, <1>5, <1>6
  <2> QED
    BY <1>3, <2>1
<1>8. Placed = {}
  BY <1>2 DEF Placed, IInv, ProtocolInv
<1>9. ProtocolInv'
  <2>1. IsSync' = IsSync /\ Batch' = Batch
    BY <1>2, ConfigFrame
  <2>2. \A q, r \in S : order'[q] = order'[r] => q = r
    BY <1>5
  <2>3. \A k \in 0..(n - 1) : \E r \in S : order'[r] = k
    BY <1>5
  <2>4. \A r \in Requests : r \in outstanding' <=> pc'[r] # "idle"
    BY <1>3
  <2>5. rpc' = rpc /\ additional' = additional
    BY <1>2 DEF receiverVars
  <2>6. additional = 0
    BY <1>2 DEF IInv, ProtocolInv
  <2> QED
    BY <1>2, <1>3, <1>4, <1>5, <2>1, <2>2, <2>3, <2>4, <2>5, <2>6 DEF ProtocolInv
<1>10. /\ pc' \in [Requests -> {"idle", "position", "pointer", "allocate", "thrown",
                              "write", "done", "signal", "ready"}]
       /\ \A q \in Requests \ Placed : pc'[q] \in {"idle", "position"}
       /\ outstanding' \subseteq Requests
  BY <1>3, <1>4
<1> QED
  BY <1>2, <1>7, <1>8, <1>9, <1>10, BeginFrame

\* What arr lists while Wait returns it.
LEMMA ArrCount ==
  ASSUME IInv, rpc \in {"skip", "swap", "swapping", "return"}
  PROVE  /\ RowsOf(arr) = {r \in Placed : BlockOf(r) = block}
         /\ RowsOf(arr) \in SUBSET Placed /\ RowsOf(arr) \in SUBSET Requests
         /\ Cardinality(RowsOf(arr)) = Batch - additional
         /\ \A r \in RowsOf(arr) : pc[r] = "ready"
<1>1. /\ Len(arr) = Batch - additional
      /\ \A k \in DOMAIN arr :
           arr[k] \in Placed /\ pc[arr[k]] = "ready" /\ BlockOf(arr[k]) = block
             /\ row[arr[k]] = k - 1
      /\ \A r \in Placed : BlockOf(r) = block => r \in RowsOf(arr)
  BY DEF IInv, BatchInv
<1>2. RowsOf(arr) = {r \in Placed : BlockOf(r) = block}
  BY <1>1 DEF RowsOf
<1>3. \A r \in RowsOf(arr) : pc[r] = "ready"
  BY <1>1 DEF RowsOf
<1>4. Cardinality(RowsOf(arr)) = Batch - additional
  <2> DEFINE n == Len(arr)
  <2>1. arr \in Seq(Requests \cup {Null})
    BY DEF IInv, TypeOK
  <2>2. n \in Nat /\ DOMAIN arr = 1..n
    BY <2>1
  <2>3. arr \in [1..n -> RowsOf(arr)]
    BY <2>1, <2>2 DEF RowsOf
  <2> HIDE DEF n
  <2>4. arr \in Surjection(1..n, RowsOf(arr))
    BY <2>2, <2>3 DEF Surjection, RowsOf
  <2>5. \A j, k \in 1..n : arr[j] = arr[k] => j = k
    BY <1>1, <2>2
  <2>6. arr \in Injection(1..n, RowsOf(arr))
    BY <2>2, <2>3, <2>5 DEF Injection, IsInjective
  <2>7. IsFiniteSet(1..n) /\ Cardinality(1..n) = n
    BY <2>2, FS_Interval
  <2>8. Cardinality(RowsOf(arr)) = n
    BY <2>4, <2>6, <2>7, FS_Surjection
  <2> QED
    BY <1>1, <2>8 DEF n
<1> QED
  BY <1>2, <1>3, <1>4 DEF Placed

\* No request takes a position of the block that Wait is about to give back.
LEMMA TakePositionInductive ==
  ASSUME IInv, NEW r \in Requests, TakePosition(r) PROVE IInv'
<1> USE DEF TakePosition, Step, receiverVars
<1>1. /\ pc' \in [Requests -> {"idle", "position", "pointer", "allocate", "thrown",
                              "write", "done", "signal", "ready"}]
      /\ \A q \in Requests : /\ pc'[q] = IF q = r THEN "pointer" ELSE pc[q]
                            /\ pos'[q] = IF q = r THEN allocCount ELSE pos[q]
      /\ pc[r] = "position" /\ allocCount \in Nat /\ pos' \in [Requests -> Nat]
      /\ \A q \in Requests : pos[q] \in Nat
  BY DEF IInv, TypeOK
<1>2. Placed' = Placed \cup {r} /\ r \notin Placed /\ Placed \in SUBSET Requests
  BY <1>1 DEF Placed
<1>3. /\ Batch' = Batch /\ IsSync' = IsSync /\ QueueSize' = QueueSize
      /\ BufferType' = BufferType /\ \A b : Offset(b)' = Offset(b)
  BY ConfigFrame DEF BufferType
<1>4. \A q \in Requests \ {r} : BlockOf(q)' = BlockOf(q) /\ Place(q)' = Place(q)
  <2>1. \A q \in Requests \ {r} : BlockOf(q)' = BlockOf(q)
    BY <1>1, <1>3 DEF BlockOf
  <2> QED
    BY <1>3, <2>1 DEF Place, Offset
<1>5. /\ Batch \in Nat \ {0} /\ HeadBlock \in Nat /\ HeadBlock * Batch \in Nat
      /\ Cardinality(Placed) \in Nat /\ Cardinality(Placed \cup {r}) = Cardinality(Placed) + 1
  <2>1. Batch \in Nat \ {0} /\ HeadBlock \in Nat
    BY Sizes, HeadBlockType DEF IInv
  <2>2. HeadBlock * Batch \in Nat
    BY <2>1, Monotone
  <2>3. Cardinality(Placed) \in Nat /\ Cardinality(Placed \cup {r}) = Cardinality(Placed) + 1
    BY <1>2, InFinite, Enter
  <2> QED
    BY <2>1, <2>2, <2>3
<1>6. rpc \in {"skip", "swap", "swapping", "return"} => ~IsSync /\ additional = 0
  <2> SUFFICES ASSUME rpc \in {"skip", "swap", "swapping", "return"}
               PROVE  ~IsSync /\ additional = 0
    OBVIOUS
  <2>1. r \in outstanding
    BY <1>1 DEF IInv, ProtocolInv
  <2>2. r \notin RowsOf(arr)
    BY <1>1, ArrCount
  <2>3. ~IsSync
    BY <2>1, <2>2 DEF IInv, BatchInv
  <2> QED
    BY <2>3 DEF IInv, ProtocolInv
<1>7. Skipped = 0 /\ Skipped' = 0 /\ HeadBlock' = HeadBlock
  <2>1. additional' = additional /\ rpc' = rpc
    OBVIOUS
  <2> QED
    BY <1>6, <2>1 DEF Skipped, HeadBlock
<1>8. /\ \A q \in Placed : HeadBlock * Batch <= pos[q] /\ pos[q] < allocCount
      /\ \A q, s \in Placed : pos[q] = pos[s] => q = s
      /\ HeadBlock * Batch + Cardinality(Placed) = allocCount
  <2>1. /\ \A q \in Placed : HeadBlock * Batch <= pos[q] /\ pos[q] < allocCount - 0
        /\ \A q, s \in Placed : pos[q] = pos[s] => q = s
        /\ HeadBlock * Batch + Cardinality(Placed) + 0 = allocCount
    BY <1>7 DEF IInv, WindowInv
  <2> QED
    BY <1>1, <1>5, <2>1
<1>9. WindowInv'
  <2>1. allocCount' = allocCount + 1 /\ HeadBlock' * Batch' = HeadBlock * Batch
    BY <1>3, <1>7
  <2>2. \A q \in Placed' : HeadBlock * Batch <= pos'[q] /\ pos'[q] < allocCount + 1
    BY <1>1, <1>2, <1>5, <1>8
  <2>3. \A q, s \in Placed' : pos'[q] = pos'[s] => q = s
    BY <1>1, <1>2, <1>8
  <2>4. HeadBlock * Batch + Cardinality(Placed') = allocCount + 1
    BY <1>2, <1>5, <1>8
  <2>5. \A q \in Placed' : pos'[q] \in Nat
    BY <1>1, <1>2
  <2>6. \A q \in Placed' : HeadBlock' * Batch' <= pos'[q] /\ pos'[q] < allocCount' - Skipped'
    BY <1>1, <1>7, <2>1, <2>2, <2>5
  <2>7. HeadBlock' * Batch' + Cardinality(Placed') + Skipped' = allocCount'
    BY <1>1, <1>7, <2>1, <2>4
  <2> QED
    BY <2>3, <2>6, <2>7 DEF WindowInv
<1>10. CountInv' /\ RowInv'
  <2>1. ASSUME NEW k \in DOMAIN queue PROVE CountAt(k)' /\ RowAt(k)'
    <3>1. \A q \in Placed : q \in Users(k)' <=> q \in Users(k)
      BY <1>2, <1>4 DEF Users, Collected
    <3>2. Users(k)' \subseteq Placed \cup {r} /\ Users(k) \subseteq Placed
      BY <1>2 DEF Users
    <3>3. /\ Allocated(k)' = Allocated(k) /\ Reported(k)' = Reported(k)
          /\ Signalling(k)' = Signalling(k) /\ Allocated(k) \subseteq Placed
      BY <1>1, <1>2, <3>1, <3>2 DEF Allocated, Reported, Signalling
    <3>4. /\ Added(k)' = Added(k)
          /\ IsHead(k, {"signal"})' <=> IsHead(k, {"signal"})
          /\ IsHead(k, {"truncate", "skip", "swap", "swapping"})'
               <=> IsHead(k, {"truncate", "skip", "swap", "swapping"})
      BY <1>3 DEF Added, IsHead
    <3>5. \A q \in Allocated(k) : row'[q] = row[q] /\ order'[q] = order[q] /\ pc'[q] = pc[q]
      BY <1>1, <1>2, <3>3
    <3> QED
      BY <3>3, <3>4, <3>5, BuffersFrame
  <2> QED
    BY <2>1 DEF CountInv, RowInv
<1>11. PointerInv'
  <2>1. \A q \in Requests : pc'[q] \in {"allocate", "write", "done", "signal"}
                             => q # r /\ pc[q] = pc'[q]
    BY <1>1
  <2> QED
    BY <1>4, <2>1 DEF IInv, PointerInv
<1>12. BatchInv'
  <2> SUFFICES ASSUME rpc \in {"skip", "swap", "swapping", "return"} PROVE BatchInv'
    BY DEF BatchInv
  <2>1. RowsOf(arr)' = RowsOf(arr)
    BY DEF RowsOf
  <2>2. /\ Len(arr) = Batch - additional
        /\ \A k \in DOMAIN arr :
             arr[k] \in Placed /\ pc[arr[k]] = "ready" /\ BlockOf(arr[k]) = block
               /\ row[arr[k]] = k - 1
        /\ \A q \in Placed : BlockOf(q) = block => q \in RowsOf(arr)
    BY DEF IInv, BatchInv
  <2>3. \A k \in DOMAIN arr : arr[k] \in Requests \ {r}
    BY <1>2, <2>2
  <2>4. BlockOf(r)' # block
    <3>1. Cardinality(RowsOf(arr)) <= Cardinality(Placed) /\ Cardinality(RowsOf(arr)) = Batch
      <4>1. Cardinality(RowsOf(arr)) = Batch - 0
        BY <1>6, ArrCount
      <4>2. RowsOf(arr) \in SUBSET Placed
        BY ArrCount
      <4>3. Cardinality(RowsOf(arr)) <= Cardinality(Placed)
        BY <1>2, <4>2, Within
      <4> QED
        BY <1>5, <4>1, <4>3
    <3>2. HeadBlock = block
      BY DEF HeadBlock
    <3>3. allocCount >= block * Batch + Batch
      BY <1>5, <1>8, <3>1, <3>2
    <3>4. BlockOf(r)' = allocCount \div Batch
      BY <1>1, <1>3 DEF BlockOf
    <3>5. allocCount \div Batch = block <=>
            block * Batch <= allocCount /\ allocCount < block * Batch + Batch
      BY <1>1, <1>5, <3>2, InBlock
    <3> QED
      BY <1>1, <1>5, <3>2, <3>3, <3>4, <3>5
  <2>5. \A k \in DOMAIN arr : pc'[arr[k]] = "ready" /\ BlockOf(arr[k])' = block
    BY <1>1, <1>4, <2>2, <2>3
  <2>6. \A q \in Placed' : BlockOf(q)' = block => q \in RowsOf(arr)
    BY <1>2, <1>4, <2>2, <2>4
  <2>7. \A k \in DOMAIN arr : arr[k] \in Placed'
    BY <1>2, <2>2
  <2> QED
    BY <1>3, <1>6, <2>1, <2>2, <2>5, <2>6, <2>7 DEF BatchInv
<1>13. ProtocolInv'
  <2>1. \A q \in Requests : q \in outstanding <=> pc'[q] # "idle"
    BY <1>1 DEF IInv, ProtocolInv
  <2> QED
    BY <1>3, <2>1 DEF IInv, ProtocolInv
<1>14. TypeOK'
  BY <1>1, <1>3 DEF IInv, TypeOK
<1>15. NoOverflow'
  BY <1>1 DEF IInv, NoOverflow
<1> QED
  BY <1>9, <1>10, <1>11, <1>12, <1>13, <1>14, <1>15 DEF IInv

----------------------------------------------------------------------------
(* The steps of Wait up to the semaphore *)

LEMMA OutstandingSize ==
  ASSUME IInv
  PROVE  /\ Cardinality(outstanding) \in Nat
         /\ IsSync => Cardinality(outstanding) <= Batch
<1>1. outstanding \in SUBSET Requests
  BY DEF IInv, TypeOK
<1>2. ASSUME IsSync PROVE Cardinality(outstanding) <= Batch
  <2>1. outstanding \in SUBSET Envs /\ Envs \in SUBSET Requests
    BY <1>2, SizesAssumption DEF IInv, ProtocolInv
  <2> QED
    BY <1>2, <2>1, Within, Sizes DEF IInv, NumEnvs
<1> QED
  BY <1>1, <1>2, InFinite

\* The parts of the invariant that do not depend on how far Wait is.
LEMMA ReceiverFrame ==
  ASSUME IInv, UNCHANGED <<config, requestVars>>, rpc # "return", rpc' # "return"
  PROVE  /\ Batch' = Batch /\ IsSync' = IsSync /\ QueueSize' = QueueSize
         /\ BufferType' = BufferType /\ \A b : Offset(b)' = Offset(b)
         /\ Placed' = Placed /\ NoOverflow'
         /\ \A q : BlockOf(q)' = BlockOf(q) /\ Place(q)' = Place(q)
         /\ \A k : /\ Users(k)' = Users(k) /\ Allocated(k)' = Allocated(k)
                   /\ Reported(k)' = Reported(k) /\ Signalling(k)' = Signalling(k)
<1> USE DEF requestVars
<1>1. /\ Batch' = Batch /\ IsSync' = IsSync /\ QueueSize' = QueueSize
      /\ BufferType' = BufferType /\ \A b : Offset(b)' = Offset(b)
  BY ConfigFrame DEF BufferType
<1>2. Placed' = Placed
  BY DEF Placed
<1>3. \A q : BlockOf(q)' = BlockOf(q)
  BY <1>1 DEF BlockOf
<1>4. \A q : Place(q)' = Place(q)
  BY <1>1, <1>3 DEF Place, Offset
<1>5. \A k : Users(k)' = Users(k)
  BY <1>2, <1>4 DEF Users, Collected
<1>6. \A k : /\ Allocated(k)' = Allocated(k)
            /\ Reported(k)' = Reported(k) /\ Signalling(k)' = Signalling(k)
  BY <1>5 DEF Allocated, Reported, Signalling
<1>7. NoOverflow'
  BY DEF IInv, NoOverflow
<1> QED
  BY <1>1, <1>2, <1>3, <1>4, <1>5, <1>6, <1>7

LEMMA WaitCallInductive == IInv /\ WaitCall => IInv'
<1> SUFFICES ASSUME IInv, WaitCall PROVE IInv'
  OBVIOUS
<1> USE DEF WaitCall, ReceiverStep, counters
<1>1. /\ Batch' = Batch /\ IsSync' = IsSync /\ QueueSize' = QueueSize
      /\ BufferType' = BufferType /\ \A b : Offset(b)' = Offset(b)
      /\ Placed' = Placed /\ NoOverflow'
      /\ \A q : BlockOf(q)' = BlockOf(q) /\ Place(q)' = Place(q)
      /\ \A k : /\ Users(k)' = Users(k) /\ Allocated(k)' = Allocated(k)
                /\ Reported(k)' = Reported(k) /\ Signalling(k)' = Signalling(k)
  BY ReceiverFrame
<1>2. additional' \in 0..Batch
  <2>1. additional' = IF IsSync THEN Batch - Cardinality(outstanding) ELSE 0
    OBVIOUS
  <2>2. Batch \in Nat
    BY Sizes DEF IInv
  <2>3. /\ Cardinality(outstanding) \in Nat
        /\ IsSync => Cardinality(outstanding) <= Batch
    BY OutstandingSize
  <2> QED
    BY ONLY <2>1, <2>2, <2>3
<1>3. TypeOK'
  BY <1>1, <1>2 DEF IInv, TypeOK, requestVars
<1>4. ProtocolInv'
  BY <1>1 DEF IInv, ProtocolInv, requestVars
<1>5. WindowInv'
  BY <1>1 DEF IInv, WindowInv, HeadBlock, Skipped, requestVars
<1>6. CountInv' /\ RowInv'
  <2>1. ASSUME NEW k \in DOMAIN queue PROVE CountAt(k)' /\ RowAt(k)'
    <3>1. /\ Added(k)' = Added(k)
          /\ IsHead(k, {"signal"})' <=> IsHead(k, {"signal"})
          /\ IsHead(k, {"truncate", "skip", "swap", "swapping"})'
               <=> IsHead(k, {"truncate", "skip", "swap", "swapping"})
      BY DEF Added, IsHead
    <3>2. config' = config /\ queue' = queue
      OBVIOUS
    <3>3. \A q \in Allocated(k) : row'[q] = row[q] /\ order'[q] = order[q] /\ pc'[q] = pc[q]
      BY DEF requestVars
    <3> QED
      BY <1>1, <3>1, <3>2, <3>3, BuffersFrame
  <2> QED
    BY <2>1 DEF CountInv, RowInv
<1>7. PointerInv'
  BY <1>1 DEF IInv, PointerInv, requestVars
<1>8. BatchInv'
  BY DEF BatchInv
<1> QED
  BY <1>1, <1>3, <1>4, <1>5, <1>6, <1>7, <1>8 DEF IInv

LEMMA TakeHeadInductive == IInv /\ TakeHead => IInv'
<1> SUFFICES ASSUME IInv, TakeHead PROVE IInv'
  OBVIOUS
<1> USE DEF TakeHead, ReceiverStep
<1>1. /\ Batch' = Batch /\ IsSync' = IsSync /\ QueueSize' = QueueSize
      /\ BufferType' = BufferType /\ \A b : Offset(b)' = Offset(b)
      /\ Placed' = Placed /\ NoOverflow'
      /\ \A q : BlockOf(q)' = BlockOf(q) /\ Place(q)' = Place(q)
      /\ \A k : /\ Users(k)' = Users(k) /\ Allocated(k)' = Allocated(k)
                /\ Reported(k)' = Reported(k) /\ Signalling(k)' = Signalling(k)
  BY ReceiverFrame
<1>2. /\ rpc = "head" /\ rpc' \in {"done", "wait"} /\ block' = donePtr /\ donePtr' = donePtr + 1
      /\ rpc' = "wait" => additional = 0
      /\ rpc' = "done" => additional > 0
      /\ donePtr \in Nat
  BY DEF IInv, TypeOK
<1>3. TypeOK'
  BY <1>1, <1>2 DEF IInv, TypeOK, requestVars
<1>4. ProtocolInv'
  BY <1>1, <1>2 DEF IInv, ProtocolInv, requestVars
<1>5. WindowInv'
  BY <1>1, <1>2 DEF IInv, WindowInv, HeadBlock, Skipped, requestVars
<1>6. CountInv' /\ RowInv'
  <2>1. ASSUME NEW k \in DOMAIN queue PROVE CountAt(k)' /\ RowAt(k)'
    <3>1. /\ Added(k)' = Added(k)
          /\ IsHead(k, {"signal"})' <=> IsHead(k, {"signal"})
          /\ IsHead(k, {"truncate", "skip", "swap", "swapping"})'
               <=> IsHead(k, {"truncate", "skip", "swap", "swapping"})
      BY <1>2 DEF Added, IsHead
    <3>2. config' = config /\ queue' = queue
      OBVIOUS
    <3>3. \A q \in Allocated(k) : row'[q] = row[q] /\ order'[q] = order[q] /\ pc'[q] = pc[q]
      BY DEF requestVars
    <3> QED
      BY <1>1, <3>1, <3>2, <3>3, BuffersFrame
  <2> QED
    BY <2>1 DEF CountInv, RowInv
<1>7. PointerInv'
  BY <1>1 DEF IInv, PointerInv, requestVars
<1>8. BatchInv'
  BY <1>2 DEF BatchInv
<1> QED
  BY <1>1, <1>3, <1>4, <1>5, <1>6, <1>7, <1>8 DEF IInv

\* The steps of Wait on the counter and the semaphore of the head's buffer.
LEMMA HeadFrame ==
  ASSUME IInv, NEW h, h = Offset(block), NEW b \in BufferType,
         rpc \in {"done", "signal", "wait"}, rpc' \in {"signal", "wait", "truncate"},
         rpc' = "signal" => rpc = "done",
         UNCHANGED <<config, counters, outstanding, requestVars, block, additional, arr>>,
         queue' = [queue EXCEPT ![h] = b], b.id = queue[h].id, b.rows = queue[h].rows,
         b.allocCount = queue[h].allocCount, CountAt(h)'
  PROVE  IInv'
<1> USE DEF counters
<1>1. /\ Batch' = Batch /\ IsSync' = IsSync /\ QueueSize' = QueueSize
      /\ BufferType' = BufferType /\ \A c : Offset(c)' = Offset(c)
      /\ Placed' = Placed /\ NoOverflow'
      /\ \A q : BlockOf(q)' = BlockOf(q) /\ Place(q)' = Place(q)
      /\ \A k : /\ Users(k)' = Users(k) /\ Allocated(k)' = Allocated(k)
                /\ Reported(k)' = Reported(k) /\ Signalling(k)' = Signalling(k)
  <2>1. UNCHANGED <<config, requestVars>> /\ rpc # "return" /\ rpc' # "return"
    OBVIOUS
  <2> QED
    BY <2>1, ReceiverFrame
<1>2. /\ h \in DOMAIN queue /\ DOMAIN queue' = DOMAIN queue /\ queue'[h] = b
      /\ \A k \in DOMAIN queue \ {h} : queue'[k] = queue[k]
  <2>1. block \in Nat
    BY DEF IInv, TypeOK
  <2> QED
    BY <2>1, Sizes DEF IInv
<1>3. TypeOK'
  <2>1. \A k \in DOMAIN queue' : queue'[k] \in BufferType'
    <3>1. \A k \in DOMAIN queue : queue[k] \in BufferType
      BY Fields DEF IInv
    <3> QED
      BY <1>1, <1>2, <3>1
  <2>2. DOMAIN queue' = 0..(QueueSize' - 1)
    BY <1>1, <1>2 DEF IInv, TypeOK
  <2> QED
    BY <1>1, <2>1, <2>2 DEF IInv, TypeOK, requestVars
<1>4. ProtocolInv'
  BY <1>1 DEF IInv, ProtocolInv, requestVars
<1>5. WindowInv'
  BY <1>1 DEF IInv, WindowInv, HeadBlock, Skipped, requestVars
<1>6. CountInv'
  <2>1. ASSUME NEW k \in DOMAIN queue PROVE CountAt(k)'
    <3>1. CASE k = h
      BY <3>1
    <3>2. CASE k # h
      <4>1. CountAt(k)
        BY DEF IInv, CountInv
      <4>2. /\ Added(k)' = Added(k)
            /\ IsHead(k, {"signal"})' <=> IsHead(k, {"signal"})
            /\ IsHead(k, {"truncate", "skip", "swap", "swapping"})'
                 <=> IsHead(k, {"truncate", "skip", "swap", "swapping"})
        BY <1>1, <3>2 DEF Added, IsHead
      <4>3. queue'[k] = queue[k]
        BY <1>2, <3>2
      <4> QED
        BY <1>1, <4>1, <4>2, <4>3 DEF CountAt, Bit
    <3> QED
      BY <3>1, <3>2
  <2> QED
    BY <1>2, <2>1 DEF CountInv
<1>7. RowInv'
  <2>1. ASSUME NEW k \in DOMAIN queue PROVE RowAt(k)'
    <3>1. RowAt(k)
      BY DEF IInv, RowInv
    <3>2. queue'[k].allocCount = queue[k].allocCount /\ queue'[k].rows = queue[k].rows
      BY <1>2
    <3>3. \A q \in Allocated(k) : pc'[q] # "write" => queue'[k].rows[row[q]] = q
      BY <3>1, <3>2 DEF RowAt, requestVars
    <3> QED
      BY <1>1, <3>1, <3>2, <3>3, RowKept DEF requestVars
  <2> QED
    BY <1>2, <2>1 DEF RowInv
<1>8. PointerInv'
  <2>1. \A k \in DOMAIN queue : queue'[k].id = queue[k].id
    BY <1>2
  <2>2. \A q \in Requests : Place(q) \in DOMAIN queue
    BY Sizes DEF IInv
  <2> QED
    BY <1>1, <2>1, <2>2 DEF IInv, PointerInv, requestVars
<1>9. BatchInv'
  BY DEF BatchInv
<1> QED
  BY <1>1, <1>3, <1>4, <1>5, <1>6, <1>7, <1>8, <1>9 DEF IInv

\* What a step on the head's buffer starts from.
LEMMA HeadFacts ==
  ASSUME IInv, NEW h, h = Offset(block), rpc \in {"done", "signal", "wait"}
  PROVE  /\ h \in DOMAIN queue /\ CountAt(h)
         /\ queue[h] = [id |-> queue[h].id, allocCount |-> queue[h].allocCount,
                        doneCount |-> queue[h].doneCount, sem |-> queue[h].sem,
                        rows |-> queue[h].rows]
         /\ queue[h].id \in Nat /\ queue[h].allocCount \in Nat
         /\ queue[h].doneCount \in Nat /\ queue[h].sem \in 0..1
         /\ queue[h].doneCount \in 0..Batch
         /\ queue[h].rows \in [0..(Batch - 1) -> Requests \cup {Null}]
         /\ Cardinality(Reported(h)) \in Nat /\ Cardinality(Signalling(h)) \in Nat
         /\ Cardinality(Reported(h)) + additional <= Batch
         /\ additional \in Nat /\ Batch \in Nat \ {0}
<1>1. h \in DOMAIN queue
  <2>1. block \in Nat
    BY DEF IInv, TypeOK
  <2> QED
    BY <2>1, Sizes DEF IInv
<1>2. CountAt(h)
  BY <1>1 DEF IInv, CountInv
<1>3. /\ queue[h] = [id |-> queue[h].id, allocCount |-> queue[h].allocCount,
                     doneCount |-> queue[h].doneCount, sem |-> queue[h].sem,
                     rows |-> queue[h].rows]
      /\ queue[h].id \in Nat /\ queue[h].allocCount \in Nat
      /\ queue[h].doneCount \in 0..Batch /\ queue[h].sem \in 0..1
      /\ queue[h].rows \in [0..(Batch - 1) -> Requests \cup {Null}]
  BY <1>1, Fields DEF IInv
<1>4. additional \in Nat /\ Batch \in Nat \ {0}
  BY Sizes, HeadBlockType DEF IInv
<1>5. /\ Cardinality(Reported(h)) \in Nat /\ Cardinality(Signalling(h)) \in Nat
      /\ Cardinality(Users(h)) \in Nat /\ Cardinality(Allocated(h)) \in Nat
      /\ Cardinality(Reported(h)) <= Cardinality(Allocated(h))
      /\ Cardinality(Allocated(h)) <= Cardinality(Users(h))
  BY PartSizes
<1>6. Cardinality(Users(h)) + additional <= Batch
  BY Quota DEF IInv
<1>7. Cardinality(Reported(h)) + additional <= Batch
  BY ONLY <1>4, <1>5, <1>6
<1>8. queue[h].doneCount \in Nat
  BY <1>3
<1> QED
  BY <1>1, <1>2, <1>3, <1>4, <1>5, <1>7, <1>8

LEMMA WaitDoneInductive == IInv /\ WaitDone => IInv'
<1> SUFFICES ASSUME IInv, WaitDone PROVE IInv'
  OBVIOUS
<1> PICK h : h = Offset(block)
  OBVIOUS
<1> PICK b : b = [queue[h] EXCEPT !.doneCount = @ + additional]
  OBVIOUS
<1>1. /\ rpc = "done" /\ rpc' \in {"signal", "wait"} /\ additional > 0
      /\ rpc' = "signal" <=> queue[h].doneCount + additional = Batch
      /\ queue' = [queue EXCEPT ![h] = b]
      /\ UNCHANGED <<config, counters, outstanding, requestVars, block, additional, arr>>
  BY DEF WaitDone, ReceiverStep, Completes, Head_, IInv, ProtocolInv
<1>2. /\ h \in DOMAIN queue /\ CountAt(h)
      /\ queue[h] = [id |-> queue[h].id, allocCount |-> queue[h].allocCount,
                     doneCount |-> queue[h].doneCount, sem |-> queue[h].sem,
                     rows |-> queue[h].rows]
      /\ queue[h].id \in Nat /\ queue[h].allocCount \in Nat
      /\ queue[h].doneCount \in Nat /\ queue[h].sem \in 0..1
      /\ queue[h].doneCount \in 0..Batch
      /\ queue[h].rows \in [0..(Batch - 1) -> Requests \cup {Null}]
      /\ Cardinality(Reported(h)) \in Nat /\ Cardinality(Signalling(h)) \in Nat
      /\ Cardinality(Reported(h)) + additional <= Batch
      /\ additional \in Nat /\ Batch \in Nat \ {0}
  BY <1>1, HeadFacts
<1>3. queue[h].doneCount = Cardinality(Reported(h))
  <2>1. queue[h].doneCount = Cardinality(Reported(h)) + 0
    BY <1>1, <1>2 DEF CountAt, Added, IsHead
  <2> QED
    BY <1>2, <2>1
<1>4. /\ b = [id |-> queue[h].id, allocCount |-> queue[h].allocCount,
              doneCount |-> queue[h].doneCount + additional, sem |-> queue[h].sem,
              rows |-> queue[h].rows]
      /\ b.doneCount = queue[h].doneCount + additional /\ b.sem = queue[h].sem
      /\ b.id = queue[h].id /\ b.rows = queue[h].rows /\ b.allocCount = queue[h].allocCount
      /\ queue'[h] = b
  BY <1>1, <1>2
<1>5. b \in BufferType
  <2>1. queue[h].doneCount + additional \in 0..Batch
    BY <1>2, <1>3
  <2> QED
    BY <1>2, <1>4, <2>1 DEF BufferType
<1>6. /\ Batch' = Batch /\ \A c : Offset(c)' = Offset(c)
      /\ Allocated(h)' = Allocated(h) /\ Reported(h)' = Reported(h)
      /\ Signalling(h)' = Signalling(h)
  BY <1>1, ReceiverFrame
<1>7. CountAt(h)'
  <2>1. queue[h].sem + Cardinality(Signalling(h)) = 0
    <3>1. queue[h].doneCount # Batch
      BY <1>1, <1>2, <1>3
    <3>2. queue[h].sem + Cardinality(Signalling(h)) + 0 + 0 = 0
      BY <1>1, <1>2, <3>1 DEF CountAt, IsHead, Bit
    <3> QED
      BY <1>2, <3>2
  <2>2. /\ Added(h)' = additional
        /\ IsHead(h, {"signal"})' <=> rpc' = "signal"
        /\ ~IsHead(h, {"truncate", "skip", "swap", "swapping"})'
    BY <1>1, <1>6 DEF Added, IsHead
  <2>3. 0 + Bit(IsHead(h, {"signal"})') + Bit(IsHead(h, {"truncate", "skip", "swap", "swapping"})')
          = Bit(queue[h].doneCount + additional = Batch)
    BY <1>1, <2>2 DEF Bit
  <2>4. /\ Bit(IsHead(h, {"signal"})') \in 0..1
        /\ Bit(IsHead(h, {"truncate", "skip", "swap", "swapping"})') \in 0..1
    BY DEF Bit
  <2>5. queue[h].sem + Cardinality(Signalling(h)) + Bit(IsHead(h, {"signal"})')
          + Bit(IsHead(h, {"truncate", "skip", "swap", "swapping"})')
        = Bit(queue[h].doneCount + additional = Batch)
    BY ONLY <1>2, <2>1, <2>3, <2>4
  <2>6. queue'[h].doneCount = Cardinality(Reported(h)) + additional
    BY <1>3, <1>4
  <2>7. queue'[h].allocCount = Cardinality(Allocated(h))
    BY <1>2, <1>4 DEF CountAt
  <2>8. Bit(queue'[h].doneCount = Batch) = Bit(queue[h].doneCount + additional = Batch)
        /\ queue'[h].sem = queue[h].sem
    BY <1>4
  <2> QED
    BY <1>6, <2>2, <2>5, <2>6, <2>7, <2>8 DEF CountAt, Bit
<1> QED
  BY <1>1, <1>4, <1>5, <1>7, HeadFrame

LEMMA WaitSignalInductive == IInv /\ WaitSignal => IInv'
<1> SUFFICES ASSUME IInv, WaitSignal PROVE IInv'
  OBVIOUS
<1> PICK h : h = Offset(block)
  OBVIOUS
<1> PICK b : b = [queue[h] EXCEPT !.sem = @ + 1]
  OBVIOUS
<1>1. /\ rpc = "signal" /\ rpc' = "wait"
      /\ queue' = [queue EXCEPT ![h] = b]
      /\ UNCHANGED <<config, counters, outstanding, requestVars, block, additional, arr>>
  BY DEF WaitSignal, ReceiverStep
<1>2. /\ h \in DOMAIN queue /\ CountAt(h)
      /\ queue[h] = [id |-> queue[h].id, allocCount |-> queue[h].allocCount,
                     doneCount |-> queue[h].doneCount, sem |-> queue[h].sem,
                     rows |-> queue[h].rows]
      /\ queue[h].id \in Nat /\ queue[h].allocCount \in Nat
      /\ queue[h].doneCount \in Nat /\ queue[h].sem \in 0..1
      /\ queue[h].doneCount \in 0..Batch
      /\ queue[h].rows \in [0..(Batch - 1) -> Requests \cup {Null}]
      /\ Cardinality(Reported(h)) \in Nat /\ Cardinality(Signalling(h)) \in Nat
      /\ Cardinality(Reported(h)) + additional <= Batch
      /\ additional \in Nat /\ Batch \in Nat \ {0}
  BY <1>1, HeadFacts
<1>3. /\ queue[h].sem = 0 /\ Cardinality(Signalling(h)) = 0 /\ Bit(queue[h].doneCount = Batch) = 1
  <2>1. queue[h].sem + Cardinality(Signalling(h)) + 1 + 0 = Bit(queue[h].doneCount = Batch)
    BY <1>1, <1>2 DEF CountAt, IsHead, Bit
  <2>2. Bit(queue[h].doneCount = Batch) \in 0..1
    BY DEF Bit
  <2> QED
    BY ONLY <1>2, <2>1, <2>2
<1>4. /\ b = [id |-> queue[h].id, allocCount |-> queue[h].allocCount,
              doneCount |-> queue[h].doneCount, sem |-> 1,
              rows |-> queue[h].rows]
      /\ b.doneCount = queue[h].doneCount /\ b.sem = 1
      /\ b.id = queue[h].id /\ b.rows = queue[h].rows /\ b.allocCount = queue[h].allocCount
      /\ queue'[h] = b
  BY <1>1, <1>2, <1>3
<1>5. b \in BufferType
  <2>1. 1 \in 0..1
    OBVIOUS
  <2> QED
    BY ONLY <1>2, <1>4, <2>1 DEF BufferType
<1>6. /\ Batch' = Batch /\ \A c : Offset(c)' = Offset(c)
      /\ Allocated(h)' = Allocated(h) /\ Reported(h)' = Reported(h)
      /\ Signalling(h)' = Signalling(h)
  BY <1>1, ReceiverFrame
<1>7. CountAt(h)'
  <2>1. /\ Added(h)' = Added(h) /\ ~IsHead(h, {"signal"})'
        /\ ~IsHead(h, {"truncate", "skip", "swap", "swapping"})'
    BY <1>1, <1>6 DEF Added, IsHead
  <2>2. 1 + 0 + Bit(IsHead(h, {"signal"})') + Bit(IsHead(h, {"truncate", "skip", "swap", "swapping"})')
          = Bit(queue[h].doneCount = Batch)
    BY <1>3, <2>1 DEF Bit
  <2> QED
    BY <1>2, <1>3, <1>4, <1>6, <2>1, <2>2 DEF CountAt, Bit
<1> QED
  BY <1>1, <1>4, <1>5, <1>7, HeadFrame

LEMMA WaitSemInductive == IInv /\ WaitSem => IInv'
<1> SUFFICES ASSUME IInv, WaitSem PROVE IInv'
  OBVIOUS
<1> PICK h : h = Offset(block)
  OBVIOUS
<1> PICK b : b = [queue[h] EXCEPT !.sem = @ - 1]
  OBVIOUS
<1>1. /\ rpc = "wait" /\ rpc' = "truncate" /\ queue[h].sem > 0
      /\ queue' = [queue EXCEPT ![h] = b]
      /\ UNCHANGED <<config, counters, outstanding, requestVars, block, additional, arr>>
  BY DEF WaitSem, ReceiverStep, Head_
<1>2. /\ h \in DOMAIN queue /\ CountAt(h)
      /\ queue[h] = [id |-> queue[h].id, allocCount |-> queue[h].allocCount,
                     doneCount |-> queue[h].doneCount, sem |-> queue[h].sem,
                     rows |-> queue[h].rows]
      /\ queue[h].id \in Nat /\ queue[h].allocCount \in Nat
      /\ queue[h].doneCount \in Nat /\ queue[h].sem \in 0..1
      /\ queue[h].doneCount \in 0..Batch
      /\ queue[h].rows \in [0..(Batch - 1) -> Requests \cup {Null}]
      /\ Cardinality(Reported(h)) \in Nat /\ Cardinality(Signalling(h)) \in Nat
      /\ Cardinality(Reported(h)) + additional <= Batch
      /\ additional \in Nat /\ Batch \in Nat \ {0}
  BY <1>1, HeadFacts
<1>3. /\ queue[h].sem = 1 /\ Cardinality(Signalling(h)) = 0 /\ Bit(queue[h].doneCount = Batch) = 1
  <2>1. queue[h].sem + Cardinality(Signalling(h)) + 0 + 0 = Bit(queue[h].doneCount = Batch)
    BY <1>1, <1>2 DEF CountAt, IsHead, Bit
  <2>2. Bit(queue[h].doneCount = Batch) \in 0..1
    BY DEF Bit
  <2>3. queue[h].sem = 1
    BY ONLY <1>1, <1>2
  <2> QED
    BY ONLY <1>2, <2>1, <2>2, <2>3
<1>4. /\ b = [id |-> queue[h].id, allocCount |-> queue[h].allocCount,
              doneCount |-> queue[h].doneCount, sem |-> 0,
              rows |-> queue[h].rows]
      /\ b.doneCount = queue[h].doneCount /\ b.sem = 0
      /\ b.id = queue[h].id /\ b.rows = queue[h].rows /\ b.allocCount = queue[h].allocCount
      /\ queue'[h] = b
  BY <1>1, <1>2, <1>3
<1>5. b \in BufferType
  <2>1. 1 \in 0..1
    OBVIOUS
  <2> QED
    BY ONLY <1>2, <1>4, <2>1 DEF BufferType
<1>6. /\ Batch' = Batch /\ \A c : Offset(c)' = Offset(c)
      /\ Allocated(h)' = Allocated(h) /\ Reported(h)' = Reported(h)
      /\ Signalling(h)' = Signalling(h)
  BY <1>1, ReceiverFrame
<1>7. CountAt(h)'
  <2>1. /\ Added(h)' = Added(h) /\ ~IsHead(h, {"signal"})'
        /\ IsHead(h, {"truncate", "skip", "swap", "swapping"})'
    BY <1>1, <1>6 DEF Added, IsHead
  <2>2. 0 + 0 + Bit(IsHead(h, {"signal"})') + Bit(IsHead(h, {"truncate", "skip", "swap", "swapping"})')
          = Bit(queue[h].doneCount = Batch)
    BY <1>3, <2>1 DEF Bit
  <2> QED
    BY <1>2, <1>3, <1>4, <1>6, <2>1, <2>2 DEF CountAt, Bit
<1> QED
  BY <1>1, <1>4, <1>5, <1>7, HeadFrame

----------------------------------------------------------------------------
(* The steps of Wait past the semaphore *)

LEMMA DeliverFrame ==
  ASSUME IInv, rpc \in {"truncate", "skip", "swap"}, rpc' \in {"skip", "swap", "swapping"},
         UNCHANGED <<config, donePtr, queue, outstanding, requestVars, block, additional>>,
         rpc' = "skip" => additional > 0,
         allocCount' \in Nat, allocCount' - Skipped' = allocCount - Skipped,
         arr' \in Seq(Requests \cup {Null}), BatchInv'
  PROVE  IInv'
<1>1. /\ Batch' = Batch /\ IsSync' = IsSync /\ QueueSize' = QueueSize
      /\ BufferType' = BufferType /\ \A c : Offset(c)' = Offset(c)
      /\ Placed' = Placed /\ NoOverflow'
      /\ \A q : BlockOf(q)' = BlockOf(q) /\ Place(q)' = Place(q)
      /\ \A k : /\ Users(k)' = Users(k) /\ Allocated(k)' = Allocated(k)
                /\ Reported(k)' = Reported(k) /\ Signalling(k)' = Signalling(k)
  <2>1. UNCHANGED <<config, requestVars>> /\ rpc # "return" /\ rpc' # "return"
    OBVIOUS
  <2> QED
    BY <2>1, ReceiverFrame
<1>2. TypeOK'
  BY <1>1 DEF IInv, TypeOK, requestVars
<1>3. ProtocolInv'
  BY <1>1 DEF IInv, ProtocolInv, requestVars
<1>4. WindowInv'
  <2>1. /\ \A r \in Placed : HeadBlock * Batch <= pos[r] /\ pos[r] < allocCount - Skipped
        /\ \A q, r \in Placed : pos[q] = pos[r] => q = r
        /\ HeadBlock * Batch + Cardinality(Placed) + Skipped = allocCount
    BY DEF IInv, WindowInv
  <2>2. HeadBlock' = HeadBlock /\ pos' = pos
    BY DEF HeadBlock, requestVars
  <2>3. HeadBlock * Batch \in Nat /\ Cardinality(Placed) \in Nat /\ Skipped \in Nat
    <3>1. HeadBlock \in Nat /\ Batch \in Nat /\ Skipped \in Nat
      BY Sizes, HeadBlockType DEF IInv
    <3>2. Placed \in SUBSET Requests
      BY DEF Placed
    <3> QED
      BY <3>1, <3>2, Monotone, InFinite
  <2>4. Skipped' \in Nat /\ allocCount \in Nat
    BY HeadBlockType, <1>2 DEF IInv, TypeOK, Skipped
  <2>5. HeadBlock * Batch + Cardinality(Placed) + Skipped' = allocCount'
    <3>1. allocCount' \in Nat /\ allocCount' - Skipped' = allocCount - Skipped
      OBVIOUS
    <3>2. HeadBlock * Batch + Cardinality(Placed) + Skipped = allocCount
      BY <2>1
    <3> PICK w : w = HeadBlock * Batch
      OBVIOUS
    <3> PICK c : c = Cardinality(Placed)
      OBVIOUS
    <3> PICK m : m = Skipped
      OBVIOUS
    <3> PICK n : n = Skipped'
      OBVIOUS
    <3> PICK x : x = allocCount
      OBVIOUS
    <3> PICK y : y = allocCount'
      OBVIOUS
    <3>3. /\ w \in Nat /\ c \in Nat /\ m \in Nat /\ n \in Nat /\ x \in Nat /\ y \in Nat
          /\ w + c + m = x /\ y - n = x - m
      BY ONLY <2>3, <2>4, <3>1, <3>2, w = HeadBlock * Batch, c = Cardinality(Placed),
         m = Skipped, n = Skipped', x = allocCount, y = allocCount'
    <3>4. w + c + n = y
      BY ONLY <3>3
    <3> QED
      BY ONLY <3>4, w = HeadBlock * Batch, c = Cardinality(Placed), n = Skipped',
         y = allocCount'
  <2> QED
    BY <1>1, <2>1, <2>2, <2>5 DEF WindowInv
<1>5. CountInv' /\ RowInv'
  <2>1. ASSUME NEW k \in DOMAIN queue PROVE CountAt(k)' /\ RowAt(k)'
    <3>1. /\ Added(k)' = Added(k)
          /\ IsHead(k, {"signal"})' <=> IsHead(k, {"signal"})
          /\ IsHead(k, {"truncate", "skip", "swap", "swapping"})'
               <=> IsHead(k, {"truncate", "skip", "swap", "swapping"})
      BY <1>1 DEF Added, IsHead
    <3>2. config' = config /\ queue' = queue
      OBVIOUS
    <3>3. \A q \in Allocated(k) : row'[q] = row[q] /\ order'[q] = order[q] /\ pc'[q] = pc[q]
      BY DEF requestVars
    <3> QED
      BY <1>1, <3>1, <3>2, <3>3, BuffersFrame
  <2> QED
    BY <2>1 DEF CountInv, RowInv
<1>6. PointerInv'
  BY <1>1 DEF IInv, PointerInv, requestVars
<1> QED
  BY <1>1, <1>2, <1>3, <1>4, <1>5, <1>6 DEF IInv

\* The rows up to the number handed out are those of the head's users, each one
\* once.
LEMMA TruncateRowsInductive == IInv /\ TruncateRows => IInv'
<1> SUFFICES ASSUME IInv, TruncateRows PROVE IInv'
  OBVIOUS
<1> PICK h : h = Offset(block)
  OBVIOUS
<1> PICK n : n = Batch - additional
  OBVIOUS
<1>1. /\ rpc = "truncate" /\ rpc' = IF additional > 0 THEN "skip" ELSE "swap"
      /\ arr' = [k \in 1..Lesser(queue[h].allocCount, Batch) |-> queue[h].rows[k - 1]]
      /\ UNCHANGED <<config, counters, queue, outstanding, requestVars, block, additional>>
  BY DEF TruncateRows, ReceiverStep, Head_
<1>2. /\ Allocated(h) = Users(h) /\ Reported(h) = Users(h) /\ Signalling(h) = {}
      /\ Cardinality(Users(h)) = n
      /\ queue[h].allocCount = n
      /\ Users(h) = {r \in Placed : BlockOf(r) = block}
      /\ IsSync => Users(h) = outstanding
  BY <1>1, Quiet
<1>3. n \in Nat /\ n <= Batch /\ Batch \in Nat /\ additional \in Nat
  <2>1. Batch \in Nat
    BY Sizes DEF IInv
  <2>2. additional \in Nat /\ additional <= Batch
    BY HeadBlockType DEF IInv
  <2> QED
    BY <2>1, <2>2
<1>4. Lesser(queue[h].allocCount, Batch) = n
  BY <1>2, <1>3 DEF Lesser
<1>5. h \in DOMAIN queue /\ queue[h].rows \in [0..(Batch - 1) -> Requests \cup {Null}]
  <2>1. h \in DOMAIN queue
    BY Sizes DEF IInv, TypeOK
  <2> QED
    BY <2>1, Fields DEF IInv
<1> PICK a : a = arr'
  OBVIOUS
<1>6. a = arr' /\ a = [k \in 1..n |-> queue[h].rows[k - 1]]
  BY <1>1, <1>4
<1>7. a \in Seq(Requests \cup {Null}) /\ Len(a) = n /\ DOMAIN a = 1..n
  <2>1. \A k \in 1..n : queue[h].rows[k - 1] \in Requests \cup {Null}
    <3>1. \A k \in 1..n : k - 1 \in 0..(Batch - 1)
      BY <1>3
    <3> QED
      BY <1>5, <3>1
  <2> QED
    BY <1>3, <1>6, <2>1
<1>8. \A r \in Users(h) : r \in Placed /\ pc[r] = "ready" /\ BlockOf(r) = block
  BY <1>2 DEF Reported, Signalling
<1>9. \A r \in Users(h) : queue[h].rows[row[r]] = r /\ row[r] \in 0..(n - 1)
  <2>1. RowAt(h)
    BY <1>5 DEF IInv, RowInv
  <2>2. \A r \in Users(h) : queue[h].rows[row[r]] = r
    BY <1>2, <1>8, <2>1 DEF RowAt
  <2>3. \A r \in Users(h) : row[r] \in 0..(Batch - 1)
    BY <1>2, <1>5, RowRange
  <2>4. CASE IsSync
    <3>1. \A r \in Users(h) : row[r] = order[r] /\ order[r] \in 0..(n - 1)
      <4>1. \A r \in outstanding : order[r] \in 0..(Cardinality(outstanding) - 1)
        BY <2>4 DEF IInv, ProtocolInv
      <4>2. \A r \in Allocated(h) : row[r] = order[r]
        BY <2>1, <2>4 DEF RowAt
      <4> QED
        BY <1>2, <2>4, <4>1, <4>2
    <3> QED
      BY <2>2, <3>1
  <2>5. CASE ~IsSync
    <3>1. \A r \in Users(h) : row[r] < n
      BY <1>2, <2>1, <2>5 DEF RowAt
    <3> QED
      BY <1>3, <2>2, <2>3, <3>1
  <2> QED
    BY <2>4, <2>5
<1>10. \A k \in 0..(n - 1) : \E r \in Users(h) : row[r] = k
  <2>1. RowAt(h)
    BY <1>5 DEF IInv, RowInv
  <2>2. CASE IsSync
    <3>1. \A k \in 0..(Cardinality(outstanding) - 1) : \E r \in outstanding : order[r] = k
      BY <2>2 DEF IInv, ProtocolInv
    <3>2. \A r \in Allocated(h) : row[r] = order[r]
      BY <2>1, <2>2 DEF RowAt
    <3> QED
      BY <1>2, <2>2, <3>1, <3>2
  <2>3. CASE ~IsSync
    BY <1>2, <2>1, <2>3 DEF RowAt
  <2> QED
    BY <2>2, <2>3
<1>11. ASSUME NEW k \in 1..n
       PROVE  a[k] \in Users(h) /\ row[a[k]] = k - 1
  <2>1. k - 1 \in 0..(n - 1)
    BY <1>3
  <2>2. PICK r \in Users(h) : row[r] = k - 1
    BY <1>10, <2>1
  <2>3. a[k] = queue[h].rows[k - 1]
    BY <1>6
  <2> QED
    BY <1>9, <2>2, <2>3
<1>12. ASSUME NEW r \in Users(h) PROVE r \in RowsOf(a)
  <2>1. row[r] + 1 \in 1..n /\ (row[r] + 1) - 1 = row[r]
    BY <1>3, <1>9
  <2>2. a[row[r] + 1] = queue[h].rows[row[r]]
    BY <1>6, <2>1
  <2> QED
    BY <1>7, <1>9, <2>1, <2>2 DEF RowsOf
<1>13. RowsOf(a) = Users(h)
  BY <1>7, <1>11, <1>12 DEF RowsOf
<1>14. BatchInv'
  <2>1. Batch' = Batch /\ IsSync' = IsSync /\ RowsOf(arr)' = RowsOf(a)
    BY <1>1, <1>6, ConfigFrame DEF RowsOf
  <2>2. /\ Placed' = Placed /\ \A q : BlockOf(q)' = BlockOf(q)
    <3>1. UNCHANGED <<config, requestVars>> /\ rpc # "return" /\ rpc' # "return"
      BY <1>1
    <3> QED
      BY <3>1, ReceiverFrame
  <2>3. pc' = pc /\ row' = row /\ block' = block /\ outstanding' = outstanding /\ additional' = additional
    BY <1>1 DEF requestVars
  <2>4. Len(a) = Batch' - additional'
    BY <1>7, <2>1, <2>3
  <2>5. ASSUME NEW k \in DOMAIN a
        PROVE  a[k] \in Placed' /\ pc'[a[k]] = "ready" /\ BlockOf(a[k])' = block'
                 /\ row'[a[k]] = k - 1
    <3>1. a[k] \in Users(h) /\ row[a[k]] = k - 1
      BY <1>7, <1>11
    <3> QED
      BY <1>8, <2>1, <2>2, <2>3, <3>1
  <2>6. \A r \in Placed' : BlockOf(r)' = block' => r \in RowsOf(arr)'
    BY <1>2, <1>13, <2>1, <2>2, <2>3
  <2>7. IsSync' => RowsOf(arr)' = outstanding' /\ \A k \in DOMAIN a : order'[a[k]] = k - 1
    <3>1. IsSync => \A r \in Allocated(h) : row[r] = order[r]
      BY <1>5 DEF IInv, RowInv, RowAt
    <3>2. order' = order
      BY <1>1 DEF requestVars
    <3>3. \A k \in DOMAIN a : a[k] \in Allocated(h) /\ row[a[k]] = k - 1
      BY <1>2, <1>7, <1>11
    <3> QED
      BY <1>2, <1>13, <2>1, <2>3, <3>1, <3>2, <3>3
  <2> QED
    BY <1>6, <2>4, <2>5, <2>6, <2>7 DEF BatchInv, BlockOf
<1>15. /\ rpc' \in {"skip", "swap", "swapping"}
       /\ rpc' = "skip" => additional > 0
       /\ UNCHANGED <<config, donePtr, queue, outstanding, requestVars, block, additional>>
  BY <1>1 DEF counters
<1>16. allocCount' \in Nat /\ allocCount' - Skipped' = allocCount - Skipped
  <2>1. Skipped' = 0 /\ Skipped = 0
    BY <1>1, <1>3 DEF Skipped
  <2> QED
    BY <1>1, <2>1 DEF counters, IInv, TypeOK
<1> QED
  BY <1>1, <1>6, <1>7, <1>14, <1>15, <1>16, DeliverFrame

LEMMA SkipPositionsInductive == IInv /\ SkipPositions => IInv'
<1> SUFFICES ASSUME IInv, SkipPositions PROVE IInv'
  OBVIOUS
<1>1. /\ rpc = "skip" /\ rpc' = "swap" /\ allocCount' = allocCount + additional
      /\ UNCHANGED <<config, donePtr, queue, outstanding, requestVars, block, additional, arr>>
  BY DEF SkipPositions, ReceiverStep
<1>2. /\ allocCount \in Nat /\ additional \in Nat /\ arr' \in Seq(Requests \cup {Null})
  BY <1>1, HeadBlockType DEF IInv, TypeOK
<1>3. Skipped = 0 /\ Skipped' = additional
  BY <1>1 DEF Skipped
<1>4. allocCount' \in Nat /\ allocCount' - Skipped' = allocCount - Skipped
  BY <1>1, <1>2, <1>3
<1>5. BatchInv'
  <2>1. /\ Batch' = Batch /\ IsSync' = IsSync /\ Placed' = Placed
        /\ \A q : BlockOf(q)' = BlockOf(q)
    BY <1>1, ReceiverFrame
  <2> QED
    BY <1>1, <2>1 DEF IInv, BatchInv, RowsOf, requestVars
<1> QED
  BY <1>1, <1>2, <1>4, <1>5, DeliverFrame

LEMMA SwapOutInductive == IInv /\ SwapOut => IInv'
<1> SUFFICES ASSUME IInv, SwapOut PROVE IInv'
  OBVIOUS
<1>1. /\ rpc = "swap" /\ rpc' = "swapping"
      /\ allocCount' = allocCount
      /\ UNCHANGED <<config, donePtr, queue, outstanding, requestVars, block, additional, arr>>
  BY DEF SwapOut, ReceiverStep, counters
<1>2. /\ allocCount \in Nat /\ additional \in Nat /\ arr' \in Seq(Requests \cup {Null})
  BY <1>1, HeadBlockType DEF IInv, TypeOK
<1>3. Skipped' = Skipped
  BY <1>1 DEF Skipped
<1>4. allocCount' \in Nat /\ allocCount' - Skipped' = allocCount - Skipped
  BY <1>1, <1>2, <1>3
<1>5. BatchInv'
  <2>1. /\ Batch' = Batch /\ IsSync' = IsSync /\ Placed' = Placed
        /\ \A q : BlockOf(q)' = BlockOf(q)
    BY <1>1, ReceiverFrame
  <2> QED
    BY <1>1, <2>1 DEF IInv, BatchInv, RowsOf, requestVars
<1> QED
  BY <1>1, <1>2, <1>4, <1>5, DeliverFrame

\* The fresh buffer has no user: those of the old one are collected.
LEMMA SwapInInductive == IInv /\ SwapIn => IInv'
<1> SUFFICES ASSUME IInv, SwapIn PROVE IInv'
  OBVIOUS
<1> PICK h : h = Offset(block)
  OBVIOUS
<1> PICK b : b = Fresh(queue[h].id + 1)
  OBVIOUS
<1>1. /\ rpc = "swapping" /\ rpc' = "return" /\ queue' = [queue EXCEPT ![h] = b]
      /\ UNCHANGED <<config, counters, outstanding, requestVars, block, additional, arr>>
  BY DEF SwapIn, ReceiverStep
<1>2. /\ Batch' = Batch /\ IsSync' = IsSync /\ QueueSize' = QueueSize
      /\ BufferType' = BufferType /\ \A c : Offset(c)' = Offset(c)
  BY <1>1, ConfigFrame DEF BufferType
<1>3. Placed' = Placed /\ \A q : BlockOf(q)' = BlockOf(q)
  BY <1>1, <1>2 DEF Placed, BlockOf, requestVars
<1>4. \A q : Place(q)' = Place(q)
  BY <1>2, <1>3 DEF Place, Offset
<1>5. \A q \in Placed : Place(q) = h <=> BlockOf(q) = block
  <2>1. HeadBlock = block
    BY <1>1 DEF HeadBlock
  <2> QED
    BY <2>1, SamePlace DEF IInv
<1>6. /\ h \in DOMAIN queue /\ DOMAIN queue' = DOMAIN queue /\ queue'[h] = b
      /\ \A k \in DOMAIN queue \ {h} : queue'[k] = queue[k]
  <2>1. block \in Nat
    BY DEF IInv, TypeOK
  <2> QED
    BY <1>1, <2>1, Sizes DEF IInv
<1>7. /\ b \in BufferType /\ b.allocCount = 0 /\ b.doneCount = 0 /\ b.sem = 0
      /\ Batch \in Nat \ {0}
  <2>1. queue[h].id \in Nat /\ Batch \in Nat \ {0}
    BY <1>6, Fields, Sizes DEF IInv
  <2>2. queue[h].id + 1 \in Nat /\ 0 \in 0..Batch
    BY <2>1
  <2> QED
    BY <2>1, <2>2 DEF Fresh, BufferType
<1>8. /\ Users(h)' = {}
      /\ \A k \in DOMAIN queue \ {h} : Users(k)' = Users(k)
  <2>1. \A q \in Placed : Collected(q)' <=> BlockOf(q) = block
    BY <1>1, <1>3 DEF Collected
  <2>2. \A q : ~Collected(q)
    BY <1>1 DEF Collected
  <2> QED
    BY <1>3, <1>4, <1>5, <2>1, <2>2 DEF Users
<1>9. CountInv' /\ RowInv'
  <2>1. CountAt(h)' /\ RowAt(h)'
    <3>1. Allocated(h)' = {} /\ Reported(h)' = {} /\ Signalling(h)' = {}
      BY <1>8 DEF Allocated, Reported, Signalling
    <3>2. /\ Added(h)' = 0 /\ ~IsHead(h, {"signal"})'
          /\ ~IsHead(h, {"truncate", "skip", "swap", "swapping"})'
      BY <1>1 DEF Added, IsHead
    <3>3. Cardinality({}) = 0
      BY FS_EmptySet
    <3>4. CountAt(h)'
      BY <1>2, <1>6, <1>7, <3>1, <3>2, <3>3 DEF CountAt, Bit
    <3>5. queue'[h].allocCount = 0 /\ 0..(0 - 1) = {}
      BY <1>6, <1>7
    <3>6. RowAt(h)'
      BY <3>1, <3>5 DEF RowAt
    <3> QED
      BY <3>4, <3>6
  <2>2. ASSUME NEW k \in DOMAIN queue, k # h PROVE CountAt(k)' /\ RowAt(k)'
    <3>1. /\ Allocated(k)' = Allocated(k) /\ Reported(k)' = Reported(k)
          /\ Signalling(k)' = Signalling(k)
      BY <1>1, <1>8, <2>2 DEF Allocated, Reported, Signalling, requestVars
    <3>2. /\ Added(k)' = Added(k)
          /\ IsHead(k, {"signal"})' <=> IsHead(k, {"signal"})
          /\ IsHead(k, {"truncate", "skip", "swap", "swapping"})'
               <=> IsHead(k, {"truncate", "skip", "swap", "swapping"})
      BY <1>1, <1>2, <2>2 DEF Added, IsHead
    <3>3. queue'[k] = queue[k] /\ CountAt(k) /\ RowAt(k)
      BY <1>6, <2>2 DEF IInv, CountInv, RowInv
    <3>4. CountAt(k)'
      BY <1>2, <3>1, <3>2, <3>3 DEF CountAt, Bit
    <3>5. RowAt(k)'
      BY <1>1, <1>2, <3>1, <3>3 DEF RowAt, requestVars
    <3> QED
      BY <3>4, <3>5
  <2> QED
    BY <1>6, <2>1, <2>2 DEF CountInv, RowInv
<1>10. PointerInv'
  <2> SUFFICES ASSUME NEW r \in Requests, pc[r] \in {"allocate", "write", "done", "signal"}
               PROVE  pointer[r] = queue'[Place(r)].id
    BY <1>1, <1>4 DEF PointerInv, requestVars
  <2>1. r \in Placed
    BY DEF Placed
  <2>2. Place(r) # h
    <3> SUFFICES ASSUME Place(r) = h PROVE FALSE
      OBVIOUS
    <3>1. r \in RowsOf(arr)
      BY <1>1, <1>5, <2>1, ArrCount
    <3> QED
      BY <1>1, <3>1, ArrCount
  <2>3. Place(r) \in DOMAIN queue
    BY Sizes DEF IInv
  <2>4. pointer[r] = queue[Place(r)].id
    BY DEF IInv, PointerInv
  <2> QED
    BY <1>6, <2>2, <2>3, <2>4
<1>11. BatchInv'
  BY <1>1, <1>2, <1>3 DEF IInv, BatchInv, RowsOf, requestVars
<1>12. WindowInv'
  BY <1>1, <1>2, <1>3 DEF IInv, WindowInv, HeadBlock, Skipped, requestVars, counters
<1>13. ProtocolInv'
  BY <1>1, <1>2 DEF IInv, ProtocolInv, requestVars, counters
<1>14. TypeOK'
  <2>1. \A k \in DOMAIN queue' : queue'[k] \in BufferType'
    <3>1. \A k \in DOMAIN queue : queue[k] \in BufferType
      BY Fields DEF IInv
    <3> QED
      BY <1>2, <1>6, <1>7, <3>1
  <2>2. DOMAIN queue' = 0..(QueueSize' - 1)
    BY <1>2, <1>6 DEF IInv, TypeOK
  <2> QED
    BY <1>1, <1>2, <2>1, <2>2 DEF IInv, TypeOK, requestVars, counters
<1>15. NoOverflow'
  BY <1>1 DEF IInv, NoOverflow, requestVars
<1> QED
  BY <1>9, <1>10, <1>11, <1>12, <1>13, <1>14, <1>15 DEF IInv

\* What is left begins in the block behind the one that was given back.
LEMMA ReturnInductive == IInv /\ Return => IInv'
<1> SUFFICES ASSUME IInv, Return PROVE IInv'
  OBVIOUS
<1> PICK A : A = RowsOf(arr)
  OBVIOUS
<1>1. /\ rpc = "return" /\ rpc' = "idle" /\ outstanding' = outstanding \ A
      /\ arr' = <<>> /\ block' = 0 /\ additional' = 0
      /\ config' = config /\ queue' = queue /\ allocCount' = allocCount /\ donePtr' = donePtr
  BY DEF Return, ReceiverStep, counters
<1>2. /\ pc' = [r \in Requests |-> IF r \in A THEN "idle" ELSE pc[r]]
      /\ order' = [r \in Requests |-> IF r \in A THEN -1 ELSE order[r]]
      /\ pos' = [r \in Requests |-> IF r \in A THEN 0 ELSE pos[r]]
      /\ pointer' = [r \in Requests |-> IF r \in A THEN 0 ELSE pointer[r]]
      /\ row' = [r \in Requests |-> IF r \in A THEN 0 ELSE row[r]]
  BY DEF Return
<1>3. /\ A = {r \in Placed : BlockOf(r) = block}
      /\ A \in SUBSET Placed /\ A \in SUBSET Requests
      /\ Cardinality(A) = Batch - additional
  BY <1>1, ArrCount
<1>4. /\ Batch' = Batch /\ IsSync' = IsSync /\ QueueSize' = QueueSize
      /\ BufferType' = BufferType /\ \A c : Offset(c)' = Offset(c)
  BY <1>1, ConfigFrame DEF BufferType
<1>5. Placed' = Placed \ A /\ Placed \in SUBSET Requests
  BY <1>2 DEF Placed
<1>6. \A r \in Requests \ A : BlockOf(r)' = BlockOf(r) /\ Place(r)' = Place(r)
  <2>1. \A r \in Requests \ A : BlockOf(r)' = BlockOf(r)
    BY <1>2, <1>4 DEF BlockOf
  <2> QED
    BY <1>4, <2>1 DEF Place, Offset
<1>7. /\ Batch \in Nat \ {0} /\ 0 \in 0..Batch /\ -1 \in -1..(Batch - 1)
      /\ additional \in Nat /\ block \in Nat /\ allocCount \in Nat
  <2>1. Batch \in Nat \ {0} /\ additional \in Nat
    BY Sizes, HeadBlockType DEF IInv
  <2>2. block \in Nat /\ allocCount \in Nat
    BY DEF IInv, TypeOK
  <2> QED
    BY <2>1, <2>2
<1>8. TypeOK'
  <2>1. pc' \in [Requests -> {"idle", "position", "pointer", "allocate", "thrown",
                              "write", "done", "signal", "ready"}]
    BY <1>2 DEF IInv, TypeOK
  <2>2. order' \in [Requests -> -1..(Batch - 1)]
    BY <1>2, <1>7 DEF IInv, TypeOK
  <2>3. pos' \in [Requests -> Nat] /\ pointer' \in [Requests -> Nat]
    BY <1>2 DEF IInv, TypeOK
  <2>4. row' \in [Requests -> 0..Batch]
    BY <1>2, <1>7 DEF IInv, TypeOK
  <2> QED
    BY <1>1, <1>4, <1>7, <2>1, <2>2, <2>3, <2>4 DEF IInv, TypeOK
<1>9. ProtocolInv'
  <2>1. \A r \in Requests : r \in outstanding' <=> pc'[r] # "idle"
    BY <1>1, <1>2 DEF IInv, ProtocolInv
  <2>2. IsSync => outstanding' = {}
    BY <1>1 DEF IInv, BatchInv
  <2>3. Cardinality({}) = 0 /\ 0..(0 - 1) = {}
    BY FS_EmptySet
  <2>4. ~IsSync => \A r \in Requests : order'[r] = -1
    BY <1>2 DEF IInv, ProtocolInv
  <2> QED
    BY <1>1, <1>4, <2>1, <2>2, <2>3, <2>4 DEF ProtocolInv
<1>10. /\ donePtr = block + 1 /\ HeadBlock = block /\ HeadBlock' = block + 1
       /\ Skipped = additional /\ Skipped' = 0
  BY <1>1 DEF IInv, ProtocolInv, HeadBlock, Skipped
<1>11. (block + 1) * Batch = block * Batch + Batch /\ block * Batch \in Nat /\ block + 1 \in Nat
  BY <1>7, Monotone, Distribute
<1>12. WindowInv'
  <2>1. /\ \A r \in Placed : block * Batch <= pos[r] /\ pos[r] < allocCount - additional
        /\ \A q, r \in Placed : pos[q] = pos[r] => q = r
        /\ block * Batch + Cardinality(Placed) + additional = allocCount
    BY <1>10 DEF IInv, WindowInv
  <2>2. Cardinality(Placed \ A) = Cardinality(Placed) - Cardinality(A) /\ Cardinality(Placed) \in Nat
    <3>1. IsFiniteSet(Placed) /\ Cardinality(Placed) \in Nat /\ Placed \cap A = A
      BY <1>3, <1>5, InFinite
    <3> QED
      BY <3>1, FS_Difference
  <2>3. (block + 1) * Batch + Cardinality(Placed \ A) + 0 = allocCount
    BY <1>3, <1>7, <1>11, <2>1, <2>2
  <2>4. ASSUME NEW r \in Placed \ A
        PROVE  (block + 1) * Batch <= pos[r] /\ pos[r] < allocCount - 0
    <3>1. /\ BlockOf(r) \in Nat /\ block <= BlockOf(r) /\ BlockOf(r) # block
          /\ BlockOf(r) * Batch <= pos[r]
      BY <1>3, <1>10, Window DEF IInv
    <3>2. block + 1 <= BlockOf(r)
      BY <1>7, <3>1
    <3>3. (block + 1) * Batch <= BlockOf(r) * Batch /\ BlockOf(r) * Batch \in Nat
      BY <1>7, <1>11, <3>1, <3>2, Monotone
    <3>4. pos[r] \in Nat /\ pos[r] < allocCount - additional
      BY <1>5, <2>1 DEF IInv, TypeOK
    <3> QED
      BY <1>7, <1>11, <3>1, <3>3, <3>4
  <2>5. \A r \in Placed \ A : pos'[r] = pos[r]
    BY <1>2, <1>5
  <2> QED
    BY <1>1, <1>4, <1>5, <1>10, <2>1, <2>3, <2>4, <2>5 DEF WindowInv
<1>13. CountInv' /\ RowInv'
  <2>1. ASSUME NEW k \in DOMAIN queue PROVE CountAt(k)' /\ RowAt(k)'
    <3>1. Users(k)' = Users(k)
      <4>1. \A r \in Placed : Collected(r) <=> r \in A
        BY <1>1, <1>3 DEF Collected
      <4>2. \A r : ~Collected(r)'
        BY <1>1 DEF Collected
      <4> QED
        BY <1>5, <1>6, <4>1, <4>2 DEF Users
    <3>2. Users(k) \subseteq Requests \ A
      BY <1>1, <1>3, <1>5 DEF Users, Collected
    <3>3. /\ Allocated(k)' = Allocated(k) /\ Reported(k)' = Reported(k)
          /\ Signalling(k)' = Signalling(k) /\ Allocated(k) \subseteq Requests \ A
      BY <1>2, <3>1, <3>2 DEF Allocated, Reported, Signalling
    <3>4. /\ Added(k)' = Added(k)
          /\ IsHead(k, {"signal"})' <=> IsHead(k, {"signal"})
          /\ IsHead(k, {"truncate", "skip", "swap", "swapping"})'
               <=> IsHead(k, {"truncate", "skip", "swap", "swapping"})
      BY <1>1 DEF Added, IsHead
    <3>5. \A q \in Allocated(k) : row'[q] = row[q] /\ order'[q] = order[q] /\ pc'[q] = pc[q]
      BY <1>2, <3>3
    <3> QED
      BY <1>1, <3>3, <3>4, <3>5, BuffersFrame
  <2> QED
    BY <1>1, <2>1 DEF CountInv, RowInv
<1>14. PointerInv'
  <2>1. \A r \in Requests : pc'[r] \in {"allocate", "write", "done", "signal"}
                             => r \notin A /\ pc'[r] = pc[r] /\ pointer'[r] = pointer[r]
    BY <1>2
  <2> QED
    BY <1>1, <1>6, <2>1 DEF IInv, PointerInv
<1>15. BatchInv' /\ NoOverflow'
  BY <1>1, <1>2 DEF BatchInv, IInv, NoOverflow
<1> QED
  BY <1>8, <1>9, <1>12, <1>13, <1>14, <1>15 DEF IInv

----------------------------------------------------------------------------
(* The theorems *)

LEMMA InitIInv == Init => IInv
<1> SUFFICES ASSUME Init PROVE IInv
  OBVIOUS
<1>1. /\ config \in Configs /\ allocCount = 0 /\ donePtr = 0
      /\ queue = [k \in 0..(QueueSize - 1) |-> Fresh(0)]
      /\ outstanding = {} /\ rpc = "idle" /\ block = 0 /\ additional = 0 /\ arr = <<>>
  BY DEF Init
<1>2. /\ pc = [r \in Requests |-> "idle"] /\ order = [r \in Requests |-> -1]
      /\ pos = [r \in Requests |-> 0] /\ pointer = [r \in Requests |-> 0]
      /\ row = [r \in Requests |-> 0]
  BY DEF Init
<1>3. Batch \in Nat \ {0}
  <2>1. IsFiniteSet(Envs)
    BY SizesAssumption, FS_Subset
  <2>2. NumEnvs \in Nat
    BY <2>1, FS_CardinalityType DEF NumEnvs
  <2>3. Batch \in 1..NumEnvs
    BY <1>1, ConfigsAssumption DEF ConfigType, Batch
  <2> QED
    BY <2>2, <2>3
<1>4. /\ 0 \in 0..Batch /\ -1 \in -1..(Batch - 1) /\ 0..(0 - 1) = {} /\ 0 # Batch
  BY <1>3
<1>5. Fresh(0) \in BufferType
  BY <1>3, <1>4 DEF Fresh, BufferType
<1>6. /\ DOMAIN queue = 0..(QueueSize - 1)
      /\ \A k \in DOMAIN queue : queue[k] = Fresh(0)
  BY <1>1
<1>7. TypeOK
  <2>1. /\ pc \in [Requests -> {"idle", "position", "pointer", "allocate", "thrown",
                              "write", "done", "signal", "ready"}]
        /\ order \in [Requests -> -1..(Batch - 1)]
        /\ pos \in [Requests -> Nat] /\ pointer \in [Requests -> Nat]
        /\ row \in [Requests -> 0..Batch]
    BY <1>2, <1>4
  <2>2. arr \in Seq(Requests \cup {Null})
    BY <1>1
  <2> QED
    BY <1>1, <1>4, <1>5, <1>6, <2>1, <2>2 DEF TypeOK
<1>8. Placed = {} /\ \A k : Users(k) = {}
  BY <1>2 DEF Placed, Users
<1>9. \A k : Allocated(k) = {} /\ Reported(k) = {} /\ Signalling(k) = {}
  BY <1>8 DEF Allocated, Reported, Signalling
<1>10. Cardinality({}) = 0
  BY FS_EmptySet
<1>11. ProtocolInv
  BY <1>1, <1>2, <1>4, <1>10 DEF ProtocolInv
<1>12. WindowInv
  <2>1. HeadBlock = 0 /\ Skipped = 0 /\ 0 * Batch = 0
    BY <1>1, <1>3 DEF HeadBlock, Skipped
  <2> QED
    BY <1>1, <1>8, <1>10, <2>1 DEF WindowInv
<1>13. CountInv /\ RowInv
  <2> SUFFICES ASSUME NEW k \in DOMAIN queue PROVE CountAt(k) /\ RowAt(k)
    BY DEF CountInv, RowInv
  <2>1. queue[k].allocCount = 0 /\ queue[k].doneCount = 0 /\ queue[k].sem = 0
    BY <1>6 DEF Fresh
  <2>2. /\ Added(k) = 0 /\ ~IsHead(k, {"signal"})
        /\ ~IsHead(k, {"truncate", "skip", "swap", "swapping"})
    BY <1>1 DEF Added, IsHead
  <2>3. CountAt(k)
    BY <1>4, <1>9, <1>10, <2>1, <2>2 DEF CountAt, Bit
  <2>4. RowAt(k)
    BY <1>4, <1>9, <2>1 DEF RowAt
  <2> QED
    BY <2>3, <2>4
<1>14. PointerInv /\ BatchInv /\ NoOverflow
  BY <1>1, <1>2 DEF PointerInv, BatchInv, NoOverflow
<1> QED
  BY <1>7, <1>11, <1>12, <1>13, <1>14 DEF IInv

LEMMA NextIInv == IInv /\ [Next]_vars => IInv'
<1> SUFFICES ASSUME IInv, [Next]_vars PROVE IInv'
  OBVIOUS
<1>1. CASE BeginRound
  BY <1>1, BeginRoundInductive
<1>2. CASE WaitCall
  BY <1>2, WaitCallInductive
<1>3. ASSUME Wait PROVE IInv'
  BY <1>3, TakeHeadInductive, WaitDoneInductive, WaitSignalInductive, WaitSemInductive,
     TruncateRowsInductive, SkipPositionsInductive, SwapOutInductive, SwapInInductive,
     ReturnInductive DEF Wait
<1>4. ASSUME NEW r \in Requests, Begin(r) PROVE IInv'
  BY <1>4, BeginInductive
<1>5. ASSUME NEW r \in Requests, Request(r) PROVE IInv'
  BY <1>5, TakePositionInductive, ReadPointerInductive, AllocateRowInductive,
     WriteRowInductive, DoneInductive, SignalInductive DEF Request, Allocate
<1>6. ASSUME UNCHANGED vars PROVE IInv'
  <2>1. /\ UNCHANGED <<config, allocCount, donePtr, queue, outstanding>>
        /\ UNCHANGED <<pc, order, pos, pointer, row>>
        /\ UNCHANGED <<rpc, block, additional, arr>>
    BY <1>6 DEF vars, counters, requestVars, receiverVars
  <2>2. /\ Batch' = Batch /\ IsSync' = IsSync /\ QueueSize' = QueueSize
        /\ BufferType' = BufferType /\ \A c : Offset(c)' = Offset(c)
    BY <2>1, ConfigFrame DEF BufferType
  <2>3. Placed' = Placed /\ \A q : BlockOf(q)' = BlockOf(q)
    BY <2>1, <2>2 DEF Placed, BlockOf
  <2>4. \A q : Place(q)' = Place(q)
    BY <2>2, <2>3 DEF Place, Offset
  <2>5. \A k : Users(k)' = Users(k)
    BY <2>1, <2>3, <2>4 DEF Users, Collected
  <2>6. \A k : /\ Allocated(k)' = Allocated(k) /\ Reported(k)' = Reported(k)
              /\ Signalling(k)' = Signalling(k) /\ Added(k)' = Added(k)
    BY <2>1, <2>2, <2>5 DEF Allocated, Reported, Signalling, Added, IsHead
  <2>7. CountInv' /\ RowInv'
    <3>1. ASSUME NEW k \in DOMAIN queue PROVE CountAt(k)' /\ RowAt(k)'
      <4>1. /\ IsHead(k, {"signal"})' <=> IsHead(k, {"signal"})
            /\ IsHead(k, {"truncate", "skip", "swap", "swapping"})'
                 <=> IsHead(k, {"truncate", "skip", "swap", "swapping"})
        BY <2>1, <2>2 DEF IsHead
      <4> QED
        BY <2>1, <2>6, <4>1, BuffersFrame
    <3> QED
      BY <2>1, <3>1 DEF CountInv, RowInv
  <2>8. TypeOK'
    BY <2>1, <2>2 DEF IInv, TypeOK
  <2>9. ProtocolInv'
    BY <2>1, <2>2 DEF IInv, ProtocolInv
  <2>10. WindowInv'
    BY <2>1, <2>2, <2>3 DEF IInv, WindowInv, HeadBlock, Skipped
  <2>11. PointerInv' /\ NoOverflow'
    BY <2>1, <2>4 DEF IInv, PointerInv, NoOverflow
  <2>12. BatchInv'
    BY <2>1, <2>2, <2>3 DEF IInv, BatchInv, RowsOf
  <2> QED
    BY <2>7, <2>8, <2>9, <2>10, <2>11, <2>12 DEF IInv
<1> QED
  BY <1>1, <1>2, <1>3, <1>4, <1>5, <1>6 DEF Next

\* No worker is at a buffer that Wait is taking out of the ring.
LEMMA IInvStale == IInv => NoStaleBuffer
<1> SUFFICES ASSUME IInv, NEW r \in Requests,
                    pc[r] \in {"pointer", "allocate", "write", "done", "signal"},
                    rpc \in {"truncate", "skip", "swap", "swapping"},
                    Place(r) = Offset(block)
             PROVE  FALSE
  BY DEF IInv, PointerInv, NoStaleBuffer
<1>1. r \in Users(Offset(block))
  BY DEF Users, Placed, Collected
<1>2. /\ Reported(Offset(block)) = Users(Offset(block))
      /\ Signalling(Offset(block)) = {}
  BY Quiet
<1>3. pc[r] \in {"signal", "ready"} /\ pc[r] # "signal"
  BY <1>1, <1>2 DEF Reported, Signalling
<1> QED
  BY <1>3

LEMMA IInvComplete == IInv => BatchIsComplete
<1> SUFFICES ASSUME IInv, rpc = "return"
             PROVE  /\ Len(arr) = Batch - additional
                    /\ \A j, k \in DOMAIN arr : arr[j] = arr[k] => j = k
                    /\ \A k \in DOMAIN arr : arr[k] \in outstanding /\ pc[arr[k]] = "ready"
  BY DEF BatchIsComplete
<1>1. /\ Len(arr) = Batch - additional
      /\ \A k \in DOMAIN arr :
           arr[k] \in Placed /\ pc[arr[k]] = "ready" /\ row[arr[k]] = k - 1
  BY DEF IInv, BatchInv
<1>2. \A k \in DOMAIN arr : k \in Nat
  <2>1. arr \in Seq(Requests \cup {Null})
    BY DEF IInv, TypeOK
  <2> QED
    BY <2>1
<1>3. \A r \in Placed : r \in outstanding
  BY DEF IInv, ProtocolInv, Placed
<1> QED
  BY <1>1, <1>2, <1>3

LEMMA IInvOldest == IInv => OldestFirst
<1> SUFFICES ASSUME IInv, rpc = "return", NEW r \in outstanding \ RowsOf(arr),
                    pc[r] # "position", NEW k \in DOMAIN arr
             PROVE  pos[arr[k]] < pos[r]
  BY DEF OldestFirst
<1>1. r \in Placed /\ arr[k] \in Placed /\ BlockOf(arr[k]) = block /\ HeadBlock = block
  BY DEF IInv, TypeOK, ProtocolInv, BatchInv, Placed, HeadBlock
<1>2. /\ BlockOf(r) \in Nat /\ block <= BlockOf(r) /\ BlockOf(r) # block
      /\ BlockOf(r) * Batch <= pos[r]
  <2>1. BlockOf(r) # block
    BY <1>1 DEF IInv, BatchInv
  <2> QED
    BY <1>1, <2>1, Window DEF IInv
<1>3. Batch \in Nat \ {0} /\ block \in Nat /\ pos[arr[k]] \in Nat /\ pos[r] \in Nat
  <2>1. Batch \in Nat \ {0}
    BY Sizes DEF IInv
  <2>2. block \in Nat /\ pos[arr[k]] \in Nat /\ pos[r] \in Nat
    BY <1>1 DEF IInv, TypeOK, Placed
  <2> QED
    BY <2>1, <2>2
<1>4. pos[arr[k]] < block * Batch + Batch /\ block * Batch \in Nat
  BY <1>1, <1>3, InBlock DEF BlockOf
<1>5. (block + 1) * Batch <= BlockOf(r) * Batch /\ BlockOf(r) * Batch \in Nat
  <2>1. block + 1 <= BlockOf(r) /\ block + 1 \in Nat
    BY <1>2, <1>3
  <2> QED
    BY <1>2, <1>3, <2>1, Monotone
<1>6. (block + 1) * Batch = block * Batch + Batch
  BY <1>3, Distribute
<1> QED
  BY <1>2, <1>3, <1>4, <1>5, <1>6

LEMMA IInvSync == IInv => SyncOrder /\ AlignedBetweenRounds
<1> SUFFICES ASSUME IInv PROVE SyncOrder /\ AlignedBetweenRounds
  OBVIOUS
<1>1. SyncOrder
  BY DEF IInv, BatchInv, SyncOrder
<1>2. ASSUME rpc = "idle", outstanding = {} PROVE allocCount = donePtr * Batch
  <2>1. Placed = {}
    BY <1>2 DEF Placed, IInv, ProtocolInv
  <2>2. HeadBlock = donePtr /\ Skipped = 0
    BY <1>2 DEF HeadBlock, Skipped
  <2>3. donePtr * Batch + 0 + 0 = allocCount
    BY <2>1, <2>2, FS_EmptySet DEF IInv, WindowInv
  <2>4. donePtr * Batch \in Nat
    <3>1. donePtr \in Nat /\ Batch \in Nat
      BY Sizes DEF IInv, TypeOK
    <3> QED
      BY <3>1, Monotone
  <2> QED
    BY <2>3, <2>4
<1> QED
  BY <1>1, <1>2 DEF AlignedBetweenRounds

\* What the ring, its buffers, the requests and Wait hold always fits together:
\* IInv holds of every state (TypeOK is its first conjunct).
THEOREM RingInductive == Spec => []IInv
<1>1. Init => IInv
  BY InitIInv
<1>2. IInv /\ [Next]_vars => IInv'
  BY NextIInv
<1> QED
  BY <1>1, <1>2, PTL DEF Spec

\* The ring has room for all requests that are outstanding, whatever the batch
\* size: StateBuffer::Allocate never throws out_of_range.
THEOREM RingNeverOverflows == Spec => []NoOverflow
<1>1. IInv => NoOverflow
  BY DEF IInv
<1> QED
  BY <1>1, RingInductive, PTL

\* No worker uses a buffer that Wait has replaced or is replacing.
THEOREM BuffersStayAlive == Spec => []NoStaleBuffer
<1> QED
  BY IInvStale, RingInductive, PTL

\* Wait returns a full batch of different requests that have all been written.
THEOREM BatchesComplete == Spec => []BatchIsComplete
<1> QED
  BY IInvComplete, RingInductive, PTL

\* Wait returns the requests that took the oldest positions.
THEOREM BatchesInOrder == Spec => []OldestFirst
<1> QED
  BY IInvOldest, RingInductive, PTL

\* In synchronous mode row i answers the i-th env of the Send.
THEOREM RowsInOrder == Spec => []SyncOrder
<1>1. IInv => SyncOrder
  BY IInvSync
<1> QED
  BY <1>1, RingInductive, PTL

\* In synchronous mode the counters of the workers and of Wait meet between two rounds.
THEOREM RoundsAligned == Spec => []AlignedBetweenRounds
<1>1. IInv => AlignedBetweenRounds
  BY IInvSync
<1> QED
  BY <1>1, RingInductive, PTL
=============================================================================
