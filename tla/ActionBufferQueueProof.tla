---------------------- MODULE ActionBufferQueueProof ----------------------
(***************************************************************************)
(* Proofs about ActionBufferQueue for every number of threads, envs and    *)
(* slices: IInv is inductive, and it implies that a Dequeue returns what   *)
(* was enqueued at its position and that no slot is written while it is    *)
(* read.  The callers' protocol enters through SlicesAssumption alone.     *)
(* The last part shows that the ring implements ActionFifo.                *)
(***************************************************************************)
EXTENDS ActionBufferQueue, FiniteSetTheorems, SequenceTheorems, TLAPS

----------------------------------------------------------------------------
(* Arithmetic of the ring *)

LEMMA QueueSizeType == QueueSize \in Nat \ {0}
  BY NumEnvsAssumption DEF QueueSize

\* A position is a multiple of the ring size plus its slot.
LEMMA DivMod ==
  ASSUME NEW Q \in Nat \ {0}, NEW k \in Nat
  PROVE  /\ k = Q * (k \div Q) + (k % Q)
         /\ k \div Q \in Nat
         /\ k % Q \in 0..(Q - 1)
  OBVIOUS

\* Positions less than a ring apart have different slots.
LEMMA ModDistinct ==
  ASSUME NEW Q \in Nat \ {0}, NEW j \in Nat, NEW k \in Nat, j < k, k - j < Q
  PROVE  j % Q # k % Q
<1> SUFFICES ASSUME j % Q = k % Q PROVE FALSE
  OBVIOUS
<1>1. PICK a \in Nat : j = Q * a + (j % Q)
  BY DivMod
<1>2. PICK b \in Nat : k = Q * b + (k % Q)
  BY DivMod
<1>3. j % Q \in Nat
  BY DivMod
<1>4. k - j = Q * (b - a)
  BY <1>1, <1>2, <1>3
<1>5. CASE b - a <= 0
  <2>1. Q * (b - a) <= 0
    BY <1>5
  <2> QED
    BY <2>1, <1>4
<1>6. CASE b - a >= 1
  <2>1. Q * (b - a) >= Q
    BY <1>6
  <2> QED
    BY <2>1, <1>4
<1> QED
  BY <1>5, <1>6

----------------------------------------------------------------------------
(* The window of positions *)

LEMMA HoldingFinite ==
  IsFiniteSet(Holding) /\ Cardinality(Holding) \in Nat
<1>1. Holding \subseteq Workers
  BY DEF Holding
<1> QED
  BY <1>1, ThreadsAssumption, FS_Subset, FS_CardinalityType

LEMMA HoldingPositive ==
  ASSUME NEW w \in Holding
  PROVE  Cardinality(Holding) >= 1
<1>1. IsFiniteSet(Holding \ {w}) /\ Cardinality(Holding \ {w}) = Cardinality(Holding) - 1
  BY HoldingFinite, FS_RemoveElement
<1> QED
  BY <1>1, HoldingFinite, FS_CardinalityType

LEMMA WindowBounds ==
  ASSUME TypeOK, PositionInv, NEW k \in Window
  PROVE  k \in Nat /\ donePtr - 1 <= k /\ k < allocPtr
<1>1. CASE k \in donePtr..(allocPtr - 1)
  BY <1>1 DEF TypeOK
<1>2. CASE k \in {ptr[w] : w \in Reading}
  <2>1. PICK w \in Reading : k = ptr[w]
    BY <1>2
  <2>2. w \in Workers /\ ptr[w] = donePtr - 1 /\ ptr[w] \in Nat
    BY <2>1 DEF TypeOK, PositionInv, Reading
  <2> QED
    BY <2>1, <2>2 DEF TypeOK
<1> QED
  BY <1>1, <1>2 DEF Window

LEMMA WindowConvex ==
  ASSUME TypeOK, PositionInv, NEW j \in Window, NEW k \in Window, NEW m \in j..k
  PROVE  m \in Window
<1>1. j \in Nat /\ donePtr - 1 <= j /\ k \in Nat /\ k < allocPtr
  BY WindowBounds
<1>2. CASE m = j
  BY <1>2
<1>3. CASE m # j
  <2>1. m \in donePtr..(allocPtr - 1)
    BY <1>1, <1>3 DEF TypeOK
  <2> QED
    BY <2>1 DEF Window
<1> QED
  BY <1>2, <1>3

\* The window holds different slices, so it is not longer than there are
\* slices, and these are at most as many as the ring has slots.
LEMMA WindowFits ==
  ASSUME TypeOK, PositionInv, OutstandingInv,
         NEW j \in Window, NEW k \in Window, j < k
  PROVE  k - j < QueueSize
<1> DEFINE f == [m \in j..k |-> sent[m + 1]]
<1>1. j \in Nat /\ k \in Nat
  BY WindowBounds
<1>2. ASSUME NEW m \in j..k
      PROVE  m \in Window /\ sent[m + 1] \in Slices
  <2>1. m \in Window
    BY <1>2, WindowConvex
  <2> QED
    BY <2>1 DEF OutstandingInv, TypeOK
<1>3. f \in Injection(j..k, Slices)
  <2>1. f \in [j..k -> Slices]
    BY <1>2
  <2>2. \A m, n \in j..k : f[m] = f[n] => m = n
    BY <1>2 DEF OutstandingInv
  <2> QED
    BY <2>1, <2>2 DEF Injection, IsInjective
<1>4. Cardinality(j..k) <= Cardinality(Slices)
  BY <1>3, SlicesAssumption, FS_Injection
<1>5. Cardinality(j..k) = k - j + 1
  BY <1>1, FS_Interval
<1>6. Cardinality(Slices) \in Nat
  BY SlicesAssumption, FS_CardinalityType
<1> QED
  BY <1>1, <1>4, <1>5, <1>6, SlicesAssumption, NumEnvsAssumption DEF QueueSize

LEMMA WindowSlots ==
  ASSUME TypeOK, PositionInv, OutstandingInv,
         NEW j \in Window, NEW k \in Window, j # k
  PROVE  j % QueueSize # k % QueueSize
<1>1. j \in Nat /\ k \in Nat
  BY WindowBounds
<1>2. CASE j < k
  BY <1>1, <1>2, WindowFits, QueueSizeType, ModDistinct
<1>3. CASE k < j
  BY <1>1, <1>3, WindowFits, QueueSizeType, ModDistinct
<1> QED
  BY <1>1, <1>2, <1>3

\* The slot a sender is about to write belongs to the window, and every slot
\* that a worker may read lies before it.
LEMMA WritePosition ==
  ASSUME TypeOK, PositionInv,
         NEW s \in Senders, spc[s] = "write", i[s] < Len(batch[s])
  PROVE  /\ pos[s] + i[s] \in Window
         /\ pos[s] >= donePtr
         /\ batch[s][i[s] + 1] \in Slices
<1>1. pos[s] \in Nat /\ i[s] \in Nat /\ Len(batch[s]) \in Nat /\ donePtr \in Nat /\ sem \in Nat
  BY DEF TypeOK
<1>2. pos[s] + Len(batch[s]) = allocPtr /\ donePtr + sem + Cardinality(Holding) = pos[s]
  BY DEF PositionInv
<1>3. pos[s] >= donePtr
  BY <1>1, <1>2, HoldingFinite
<1>4. pos[s] + i[s] \in donePtr..(allocPtr - 1)
  BY <1>1, <1>2, <1>3
<1>5. batch[s][i[s] + 1] \in Slices
  BY <1>1 DEF TypeOK
<1> QED
  BY <1>3, <1>4, <1>5 DEF Window

LEMMA PendingDisjoint ==
  ASSUME OutstandingInv, NEW s \in Pending, NEW t \in Pending, s # t
  PROVE  \A j \in 1..Len(batch[s]), k \in 1..Len(batch[t]) : batch[s][j] # batch[t][k]
  BY DEF OutstandingInv

----------------------------------------------------------------------------
(* What steps that leave the window alone preserve *)

LEMMA OutstandingFrame ==
  ASSUME OutstandingInv, Window' \subseteq Window, Pending' \subseteq Pending,
         UNCHANGED <<batch, sent, outstanding>>
  PROVE  OutstandingInv'
<1>1. \A k \in Window' : sent'[k + 1] \in outstanding'
  BY DEF OutstandingInv
<1>2. \A j, k \in Window' : sent'[j + 1] = sent'[k + 1] => j = k
  BY DEF OutstandingInv
<1>3. ASSUME NEW s \in Pending', NEW j \in 1..Len(batch'[s])
      PROVE  /\ batch'[s][j] \in outstanding'
             /\ \A k \in 1..Len(batch'[s]) : batch'[s][j] = batch'[s][k] => j = k
             /\ \A k \in Window' : sent'[k + 1] # batch'[s][j]
  BY <1>3 DEF OutstandingInv
<1>4. ASSUME NEW s \in Pending', NEW t \in Pending', s # t
      PROVE  \A j \in 1..Len(batch'[s]), k \in 1..Len(batch'[t]) : batch'[s][j] # batch'[t][k]
  BY <1>4, PendingDisjoint
<1> QED
  BY <1>1, <1>2, <1>3, <1>4 DEF OutstandingInv

LEMMA ContentFrame ==
  ASSUME ContentInv, Window' \subseteq Window,
         \A k \in Window' : Filled(k)' => Filled(k),
         UNCHANGED <<queue, sent>>, DequeueReturnsSent'
  PROVE  ContentInv'
<1> SUFFICES ASSUME NEW k \in Window', Filled(k)'
             PROVE  queue'[k % QueueSize] = sent'[k + 1]
  BY DEF ContentInv, QueueSize
<1> QED
  BY DEF ContentInv

----------------------------------------------------------------------------
(* The steps of EnqueueBulk *)

LEMMA BulkType ==
  ASSUME NEW b \in Bulks
  PROVE  b \in Seq(Slices) /\ \A j, k \in 1..Len(b) : b[j] = b[k] => j = k
<1>1. PICK n \in 1..MaxBulk : b \in [1..n -> Slices] /\ \A j, k \in 1..n : b[j] = b[k] => j = k
  BY DEF Bulks
<1>2. n \in Nat
  BY BoundsAssumption
<1> QED
  BY <1>1, <1>2

LEMMA CallInductive ==
  ASSUME IInv, NEW s \in Senders, Call(s)
  PROVE  IInv'
<1> USE DEF IInv, Call, SenderStep, queueVars, workerVars
<1>1. PICK b \in Bulks : /\ SlicesOf(b) \cap outstanding = {}
                         /\ batch' = [batch EXCEPT ![s] = b]
                         /\ outstanding' = outstanding \cup SlicesOf(b)
  OBVIOUS
<1>2. /\ b \in Seq(Slices) /\ Len(b) \in Nat
      /\ \A j, k \in 1..Len(b) : b[j] = b[k] => j = k
      /\ \A j \in 1..Len(b) : b[j] \in SlicesOf(b)
      /\ SlicesOf(b) \subseteq Slices
  <2>1. b \in Seq(Slices) /\ \A j, k \in 1..Len(b) : b[j] = b[k] => j = k
    BY BulkType
  <2>2. DOMAIN b = 1..Len(b) /\ \A j \in 1..Len(b) : b[j] \in Slices
    BY <2>1
  <2> QED
    BY <2>1, <2>2 DEF SlicesOf
<1>3. batch'[s] = b /\ \A t \in Senders : t # s => batch'[t] = batch[t]
  BY <1>1 DEF TypeOK
<1>4. spc'[s] = "lock" /\ \A t \in Senders : t # s => spc'[t] = spc[t]
  BY DEF TypeOK
<1>5. Holding' = Holding /\ Reading' = Reading /\ Window' = Window
  BY DEF Holding, Reading, Window
<1>6. TypeOK'
  BY <1>1, <1>2 DEF TypeOK
<1>7. MutexInv'
  BY <1>4 DEF MutexInv, InEnqueue, InDequeue
<1>8. PositionInv'
  BY <1>3, <1>4, <1>5 DEF PositionInv
<1>9. OutstandingInv'
  <2>1. Pending' \subseteq Pending \cup {s} /\ s \notin Pending
    BY <1>4 DEF Pending
  <2>2. \A t \in Pending : batch'[t] = batch[t]
    BY <1>3, <2>1 DEF Pending
  <2>3. \A k \in Window' : sent'[k + 1] \in outstanding'
    BY <1>1, <1>5 DEF OutstandingInv
  <2>4. \A j, k \in Window' : sent'[j + 1] = sent'[k + 1] => j = k
    BY <1>5 DEF OutstandingInv
  <2>5. \A k \in Window : sent[k + 1] \in outstanding
    BY DEF OutstandingInv
  <2>6. ASSUME NEW t \in Pending', NEW j \in 1..Len(batch'[t])
        PROVE  /\ batch'[t][j] \in outstanding'
               /\ \A k \in 1..Len(batch'[t]) : batch'[t][j] = batch'[t][k] => j = k
               /\ \A k \in Window' : sent'[k + 1] # batch'[t][j]
    <3>1. CASE t = s
      BY <1>1, <1>2, <1>3, <1>5, <2>5, <2>6, <3>1
    <3>2. CASE t # s
      BY <1>1, <1>5, <2>1, <2>2, <2>6, <3>2 DEF OutstandingInv
    <3> QED
      BY <3>1, <3>2
  <2>7. ASSUME NEW t \in Pending', NEW u \in Pending', t # u,
               NEW j \in 1..Len(batch'[t]), NEW k \in 1..Len(batch'[u])
        PROVE  batch'[t][j] # batch'[u][k]
    <3>1. CASE t = s
      BY <1>1, <1>2, <1>3, <2>1, <2>2, <2>7, <3>1 DEF OutstandingInv
    <3>2. CASE u = s
      BY <1>1, <1>2, <1>3, <2>1, <2>2, <2>7, <3>2 DEF OutstandingInv
    <3>3. CASE t # s /\ u # s
      BY <2>1, <2>2, <2>7, <3>3 DEF OutstandingInv
    <3> QED
      BY <3>1, <3>2, <3>3
  <2> QED
    BY <2>3, <2>4, <2>6, <2>7 DEF OutstandingInv
<1>10. ContentInv'
  <2>1. \A k \in Window' : Filled(k)' => Filled(k)
    BY <1>4 DEF Filled
  <2>2. DequeueReturnsSent'
    BY DEF ContentInv, DequeueReturnsSent
  <2> QED
    BY <1>5, <2>1, <2>2, ContentFrame
<1> QED
  BY <1>6, <1>7, <1>8, <1>9, <1>10

LEMMA LockEnqueueInductive ==
  ASSUME IInv, NEW s \in Senders, LockEnqueue(s)
  PROVE  IInv'
<1> USE DEF IInv, LockEnqueue, SenderStep, workerVars
<1>1. spc'[s] = "alloc" /\ \A t \in Senders : t # s => spc'[t] = spc[t]
  BY DEF TypeOK
<1>2. Holding' = Holding /\ Reading' = Reading /\ Window' = Window
  BY DEF Holding, Reading, Window
<1>3. TypeOK'
  BY DEF TypeOK
<1>4. MutexInv'
  BY <1>1 DEF TypeOK, MutexInv, InEnqueue, InDequeue
<1>5. PositionInv'
  BY <1>1, <1>2 DEF PositionInv
<1>6. OutstandingInv'
  <2>1. Pending' = Pending
    BY <1>1 DEF Pending
  <2> QED
    BY <1>2, <2>1, OutstandingFrame
<1>7. ContentInv'
  <2>1. \A k \in Window' : Filled(k)' => Filled(k)
    BY <1>1 DEF Filled
  <2>2. DequeueReturnsSent'
    BY DEF ContentInv, DequeueReturnsSent
  <2> QED
    BY <1>2, <2>1, <2>2, ContentFrame
<1> QED
  BY <1>3, <1>4, <1>5, <1>6, <1>7

LEMMA AllocPositionsInductive ==
  ASSUME IInv, NEW s \in Senders, AllocPositions(s)
  PROVE  IInv'
<1> USE DEF IInv, AllocPositions, SenderStep, workerVars
<1> DEFINE b == batch[s]
             new == allocPtr..(allocPtr' - 1)
<1>1. b \in Seq(Slices) /\ Len(b) \in Nat /\ sent \in Seq(Slices) /\ allocPtr = Len(sent)
  BY DEF TypeOK, PositionInv
<1>2. /\ spc'[s] = "write" /\ pos'[s] = allocPtr /\ i'[s] = 0
      /\ \A t \in Senders : t # s =>
           spc'[t] = spc[t] /\ pos'[t] = pos[t] /\ i'[t] = i[t]
  BY DEF TypeOK
<1>3. \A t \in Senders : t # s => spc[t] # "write"
  BY DEF MutexInv, InEnqueue
<1>4. Holding' = Holding /\ Reading' = Reading
  BY DEF Holding, Reading
<1>5. /\ sent' \in Seq(Slices) /\ Len(sent') = allocPtr'
      /\ \A k \in 0..(allocPtr - 1) : sent'[k + 1] = sent[k + 1]
      /\ \A k \in new : sent'[k + 1] = b[k - allocPtr + 1]
  BY <1>1 DEF TypeOK
<1>6. \A k \in Window' : k \in Window \/ k \in new
  BY <1>1, <1>4 DEF TypeOK, Window
<1>7. ASSUME NEW k \in Window
      PROVE  k \in Nat /\ k < allocPtr /\ sent'[k + 1] = sent[k + 1]
  <2>1. k \in Nat /\ k < allocPtr
    BY WindowBounds
  <2> QED
    BY <1>1, <1>5, <2>1
<1>8. ASSUME NEW k \in new
      PROVE  \E n \in 1..Len(b) : k = allocPtr + n - 1 /\ sent'[k + 1] = b[n]
  <2>1. k - allocPtr + 1 \in 1..Len(b) /\ k = allocPtr + (k - allocPtr + 1) - 1
    BY <1>1
  <2> QED
    BY <1>5, <2>1
<1>9. TypeOK'
  <2>1. allocPtr' \in Nat /\ donePtr' \in 0..allocPtr'
    BY <1>1 DEF TypeOK
  <2>2. pos' \in [Senders -> Nat] /\ i' \in [Senders -> Nat]
    BY <1>1 DEF TypeOK
  <2>3. spc' \in [Senders -> {"idle", "lock", "alloc", "write", "unlock"}]
    BY DEF TypeOK
  <2> QED
    BY <1>5, <2>1, <2>2, <2>3 DEF TypeOK
<1>10. MutexInv'
  BY <1>2 DEF MutexInv, InEnqueue, InDequeue
<1>11. PositionInv'
  <2>1. \A t \in Senders : spc[t] # "write"
    BY <1>3
  <2>2. donePtr + sem + Cardinality(Holding) = allocPtr
    BY <2>1 DEF PositionInv
  <2> QED
    <3>1. pos'[s] + Len(batch'[s]) = allocPtr' /\ i'[s] <= Len(batch'[s])
      BY <1>1, <1>2 DEF TypeOK
    <3>2. donePtr' + sem' + Cardinality(Holding') = pos'[s]
      BY <1>2, <1>4, <2>2
    <3>3. \A w \in Reading' : ptr'[w] = donePtr' - 1
      BY <1>4 DEF PositionInv
    <3>4. ASSUME NEW j \in 1..Len(batch'[s])
          PROVE  sent'[pos'[s] + j] = batch'[s][j]
      <4>1. sent'[Len(sent) + j] = batch[s][j]
        <5>1. j \in 1..Len(b) /\ sent' = sent \o b /\ Len(sent) \in Nat
          BY <1>1
        <5> QED
          BY ONLY <1>1, <5>1, ConcatProperties
      <4> QED
        BY <1>1, <1>2, <4>1
    <3> QED
      <4>1. \A t \in Senders : spc'[t] = "write" <=> t = s
        BY <1>2, <1>3
      <4> HIDE DEF AllocPositions, IInv, b
      <4> QED
        BY <1>5, <3>1, <3>2, <3>3, <3>4, <4>1 DEF PositionInv
<1>12. OutstandingInv'
  <2>1. s \in Pending /\ Pending' \subseteq Pending \ {s}
    BY <1>2 DEF Pending
  <2>2. /\ \A k \in Window : sent[k + 1] \in outstanding
        /\ \A j, k \in Window : sent[j + 1] = sent[k + 1] => j = k
        /\ \A j \in 1..Len(b) :
             /\ b[j] \in outstanding
             /\ \A k \in 1..Len(b) : b[j] = b[k] => j = k
             /\ \A k \in Window : sent[k + 1] # b[j]
    BY <2>1 DEF OutstandingInv
  <2> HIDE DEF b, new
  <2>3. \A k \in Window' : sent'[k + 1] \in outstanding'
    BY <1>6, <1>7, <1>8, <2>2
  <2>4. ASSUME NEW j \in Window', NEW k \in Window', sent'[j + 1] = sent'[k + 1]
        PROVE  j = k
    <3>1. CASE j \in Window /\ k \in Window
      BY <1>7, <2>2, <2>4, <3>1
    <3>2. CASE j \in Window /\ k \in new
      <4>1. PICK n \in 1..Len(b) : sent'[k + 1] = b[n]
        BY <1>8, <3>2
      <4>2. sent[j + 1] # b[n]
        BY <2>2, <3>2
      <4> QED
        BY <1>7, <2>4, <4>1, <4>2, <3>2
    <3>3. CASE k \in Window /\ j \in new
      <4>1. PICK n \in 1..Len(b) : sent'[j + 1] = b[n]
        BY <1>8, <3>3
      <4>2. sent[k + 1] # b[n]
        BY <2>2, <3>3
      <4> QED
        BY <1>7, <2>4, <4>1, <4>2, <3>3
    <3>4. CASE j \in new /\ k \in new
      <4>1. PICK m \in 1..Len(b) : j = allocPtr + m - 1 /\ sent'[j + 1] = b[m]
        BY <1>8, <3>4
      <4>2. PICK n \in 1..Len(b) : k = allocPtr + n - 1 /\ sent'[k + 1] = b[n]
        BY <1>8, <3>4
      <4> QED
        BY <2>2, <2>4, <4>1, <4>2
    <3> QED
      BY <1>6, <3>1, <3>2, <3>3, <3>4
  <2>5. ASSUME NEW t \in Pending', NEW j \in 1..Len(batch'[t])
        PROVE  /\ t # s /\ t \in Pending /\ batch' = batch
               /\ j \in 1..Len(batch[t]) /\ batch[t][j] \in outstanding'
               /\ \A k \in 1..Len(batch[t]) : batch[t][j] = batch[t][k] => j = k
               /\ \A k \in Window : sent[k + 1] # batch[t][j]
               /\ \A n \in 1..Len(batch[s]) : batch[s][n] # batch[t][j]
    BY <2>1 DEF OutstandingInv
  <2>6. ASSUME NEW t \in Pending', NEW j \in 1..Len(batch'[t]), NEW k \in Window'
        PROVE  sent'[k + 1] # batch'[t][j]
    <3>1. CASE k \in Window
      <4>1. batch' = batch /\ sent[k + 1] # batch[t][j]
        BY <2>5, <3>1
      <4> QED
        BY <1>7, <3>1, <4>1
    <3>2. CASE k \in new
      <4>1. PICK n \in 1..Len(b) : sent'[k + 1] = b[n]
        BY <1>8, <3>2
      <4> QED
        BY <2>5, <4>1 DEF b
    <3> QED
      BY <1>6, <3>1, <3>2
  <2>7. ASSUME NEW t \in Pending', NEW u \in Pending', t # u,
               NEW j \in 1..Len(batch'[t]), NEW k \in 1..Len(batch'[u])
        PROVE  batch'[t][j] # batch'[u][k]
    <3>1. t \in Pending /\ u \in Pending /\ batch' = batch
      BY <2>1
    <3>2. \A m \in 1..Len(batch[t]), n \in 1..Len(batch[u]) : batch[t][m] # batch[u][n]
      BY <2>7, <3>1, PendingDisjoint
    <3> HIDE DEF AllocPositions, IInv
    <3> QED
      BY <3>1, <3>2
  <2> QED
    BY <2>3, <2>4, <2>5, <2>6, <2>7 DEF OutstandingInv
<1>13. ContentInv'
  <2>1. ASSUME NEW k \in Window', Filled(k)'
        PROVE  queue'[k % QueueSize] = sent'[k + 1]
    <3>1. k \in Int /\ k < allocPtr
      BY <1>1, <1>2, <1>6, <1>7, <2>1 DEF Filled, TypeOK
    <3>2. k \in Window
      BY <1>1, <1>6, <3>1 DEF TypeOK
    <3>3. Filled(k)
      BY <1>3 DEF Filled
    <3> QED
      BY <1>7, <3>2, <3>3 DEF ContentInv
  <2>2. DequeueReturnsSent'
    <3> SUFFICES ASSUME NEW w \in Workers, wpc[w] = "unlock"
                 PROVE  ret[w] = sent'[ptr[w] + 1]
      BY DEF DequeueReturnsSent
    <3>1. ptr[w] \in Window
      BY DEF Window, Reading
    <3> QED
      BY <1>7, <3>1 DEF ContentInv, DequeueReturnsSent
  <2> QED
    BY <2>1, <2>2 DEF ContentInv, QueueSize
<1> QED
  BY <1>9, <1>10, <1>11, <1>12, <1>13

LEMMA WriteSlotInductive ==
  ASSUME IInv, NEW s \in Senders, WriteSlot(s)
  PROVE  IInv'
<1> USE DEF IInv, WriteSlot, workerVars
<1> DEFINE p == pos[s] + i[s]
<1>1. p \in Window /\ pos[s] >= donePtr /\ batch[s][i[s] + 1] \in Slices
  BY WritePosition
<1>2. p \in Nat /\ p % QueueSize \in 0..(QueueSize - 1) /\ pos[s] \in Nat /\ i[s] \in Nat
  BY <1>1, WindowBounds, QueueSizeType, DivMod DEF TypeOK
<1>3. i'[s] = i[s] + 1 /\ \A t \in Senders : t # s => i'[t] = i[t]
  BY DEF TypeOK
<1>4. \A t \in Senders : t # s => spc[t] # "write"
  BY DEF MutexInv, InEnqueue
<1>5. Holding' = Holding /\ Reading' = Reading /\ Window' = Window /\ Pending' = Pending
  BY DEF Holding, Reading, Window, Pending
<1>6. TypeOK'
  BY <1>1, <1>2 DEF TypeOK
<1>7. MutexInv'
  BY DEF MutexInv, InEnqueue, InDequeue
<1>8. PositionInv'
  <2>1. i'[s] <= Len(batch'[s])
    BY <1>2, <1>3 DEF TypeOK
  <2> QED
    BY <1>3, <1>4, <1>5, <2>1 DEF PositionInv
<1>9. OutstandingInv'
  BY <1>5, OutstandingFrame
<1>10. ContentInv'
  <2>1. queue'[p % QueueSize] = batch[s][i[s] + 1]
    BY <1>2 DEF TypeOK
  <2>2. sent[p + 1] = batch[s][i[s] + 1]
    <3>1. i[s] + 1 \in 1..Len(batch[s])
      BY <1>2 DEF TypeOK
    <3>2. sent[pos[s] + (i[s] + 1)] = batch[s][i[s] + 1]
      BY <3>1 DEF PositionInv
    <3> QED
      BY <1>2, <3>2
  <2>3. ASSUME NEW k \in Window', Filled(k)'
        PROVE  queue'[k % QueueSize] = sent'[k + 1]
    <3>1. k \in Nat /\ k \in Window
      BY <1>5, WindowBounds
    <3>2. CASE k = p
      BY <2>1, <2>2, <3>2
    <3>3. CASE k # p
      <4>1. k % QueueSize # p % QueueSize
        BY <1>1, <3>1, <3>3, WindowSlots
      <4>2. k % QueueSize \in 0..(QueueSize - 1)
        BY <3>1, QueueSizeType, DivMod
      <4>3. queue'[k % QueueSize] = queue[k % QueueSize]
        BY <1>2, <4>1, <4>2 DEF TypeOK
      <4>4. k < pos'[s] + i'[s]
        BY <2>3 DEF Filled
      <4>5. Filled(k)
        BY <1>2, <1>3, <1>4, <3>1, <3>3, <4>4 DEF Filled
      <4> QED
        BY <3>1, <4>3, <4>5 DEF ContentInv
    <3> QED
      BY <3>2, <3>3
  <2>4. DequeueReturnsSent'
    BY DEF ContentInv, DequeueReturnsSent
  <2> QED
    BY <2>3, <2>4 DEF ContentInv, QueueSize
<1> QED
  BY <1>6, <1>7, <1>8, <1>9, <1>10

LEMMA PublishInductive ==
  ASSUME IInv, NEW s \in Senders, Publish(s)
  PROVE  IInv'
<1> USE DEF IInv, Publish, SenderStep, workerVars
<1>1. spc'[s] = "unlock" /\ \A t \in Senders : t # s => spc'[t] = spc[t]
  BY DEF TypeOK
<1>2. \A t \in Senders : spc'[t] # "write"
  BY <1>1 DEF MutexInv, InEnqueue
<1>3. Holding' = Holding /\ Reading' = Reading /\ Window' = Window
  BY DEF Holding, Reading, Window
<1>4. TypeOK'
  BY DEF TypeOK
<1>5. MutexInv'
  BY <1>1 DEF MutexInv, InEnqueue, InDequeue
<1>6. PositionInv'
  <2>1. /\ pos[s] + Len(batch[s]) = allocPtr
        /\ donePtr + sem + Cardinality(Holding) = pos[s]
    BY DEF PositionInv
  <2>2. donePtr' + sem' + Cardinality(Holding') = allocPtr'
    BY <1>3, <2>1, HoldingFinite DEF TypeOK
  <2> QED
    BY <1>2, <1>3, <2>2 DEF PositionInv
<1>7. OutstandingInv'
  <2>1. Pending' = Pending
    BY <1>1 DEF Pending
  <2> QED
    BY <1>3, <2>1, OutstandingFrame
<1>8. ContentInv'
  <2>1. ASSUME NEW k \in Window PROVE Filled(k)
    <3>1. pos[s] + i[s] = allocPtr
      BY DEF PositionInv
    <3>2. k < allocPtr
      BY WindowBounds
    <3> QED
      BY <3>1, <3>2 DEF Filled, MutexInv, InEnqueue
  <2>2. DequeueReturnsSent'
    BY DEF ContentInv, DequeueReturnsSent
  <2> QED
    BY <1>3, <2>1, <2>2, ContentFrame
<1> QED
  BY <1>4, <1>5, <1>6, <1>7, <1>8

LEMMA UnlockEnqueueInductive ==
  ASSUME IInv, NEW s \in Senders, UnlockEnqueue(s)
  PROVE  IInv'
<1> USE DEF IInv, UnlockEnqueue, SenderStep, workerVars
<1>1. spc'[s] = "idle" /\ \A t \in Senders : t # s => spc'[t] = spc[t]
  BY DEF TypeOK
<1>2. semEnqueue = 0 /\ InEnqueue = {s}
  BY DEF TypeOK, MutexInv, InEnqueue
<1>3. Holding' = Holding /\ Reading' = Reading /\ Window' = Window
  BY DEF Holding, Reading, Window
<1>4. TypeOK'
  BY <1>2 DEF TypeOK
<1>5. MutexInv'
  BY <1>1, <1>2 DEF MutexInv, InEnqueue, InDequeue
<1>6. PositionInv'
  BY <1>1, <1>3 DEF PositionInv
<1>7. OutstandingInv'
  <2>1. Pending' = Pending
    BY <1>1 DEF Pending
  <2> QED
    BY <1>3, <2>1, OutstandingFrame
<1>8. ContentInv'
  <2>1. \A k \in Window' : Filled(k)' => Filled(k)
    BY <1>1 DEF Filled
  <2>2. DequeueReturnsSent'
    BY DEF ContentInv, DequeueReturnsSent
  <2> QED
    BY <1>3, <2>1, <2>2, ContentFrame
<1> QED
  BY <1>4, <1>5, <1>6, <1>7, <1>8

----------------------------------------------------------------------------
(* The steps of Dequeue *)

LEMMA WaitItemInductive ==
  ASSUME IInv, NEW w \in Workers, WaitItem(w)
  PROVE  IInv'
<1> USE DEF IInv, WaitItem, WorkerStep, senderVars
<1>1. wpc'[w] = "lock" /\ \A v \in Workers : v # w => wpc'[v] = wpc[v]
  BY DEF TypeOK
<1>2. Cardinality(Holding') = Cardinality(Holding) + 1
  <2>1. Holding' = Holding \cup {w} /\ w \notin Holding
    BY <1>1 DEF Holding
  <2> QED
    BY <2>1, HoldingFinite, FS_AddElement
<1>3. Reading' = Reading
  BY <1>1 DEF Reading
<1>4. Window' = Window /\ Pending' = Pending
  BY <1>3 DEF Window, Pending
<1>5. TypeOK'
  BY DEF TypeOK
<1>6. MutexInv'
  BY <1>1 DEF MutexInv, InEnqueue, InDequeue
<1>7. PositionInv'
  <2>1. donePtr' + sem' + Cardinality(Holding') = donePtr + sem + Cardinality(Holding)
    BY <1>2, HoldingFinite DEF TypeOK
  <2> QED
    BY <1>3, <2>1 DEF PositionInv
<1>8. OutstandingInv'
  BY <1>4, OutstandingFrame
<1>9. ContentInv'
  <2>1. \A k \in Window' : Filled(k)' => Filled(k)
    BY DEF Filled
  <2>2. DequeueReturnsSent'
    BY <1>1 DEF ContentInv, DequeueReturnsSent
  <2> QED
    BY <1>4, <2>1, <2>2, ContentFrame
<1> QED
  BY <1>5, <1>6, <1>7, <1>8, <1>9

LEMMA LockDequeueInductive ==
  ASSUME IInv, NEW w \in Workers, LockDequeue(w)
  PROVE  IInv'
<1> USE DEF IInv, LockDequeue, WorkerStep, senderVars
<1>1. wpc'[w] = "claim" /\ \A v \in Workers : v # w => wpc'[v] = wpc[v]
  BY DEF TypeOK
<1>2. Holding' = Holding /\ Reading' = Reading
  BY <1>1 DEF Holding, Reading
<1>3. Window' = Window /\ Pending' = Pending
  BY <1>2 DEF Window, Pending
<1>4. TypeOK'
  BY DEF TypeOK
<1>5. MutexInv'
  BY <1>1 DEF TypeOK, MutexInv, InEnqueue, InDequeue
<1>6. PositionInv'
  BY <1>2 DEF PositionInv
<1>7. OutstandingInv'
  BY <1>3, OutstandingFrame
<1>8. ContentInv'
  <2>1. \A k \in Window' : Filled(k)' => Filled(k)
    BY DEF Filled
  <2>2. DequeueReturnsSent'
    BY <1>1 DEF ContentInv, DequeueReturnsSent
  <2> QED
    BY <1>3, <2>1, <2>2, ContentFrame
<1> QED
  BY <1>4, <1>5, <1>6, <1>7, <1>8

\* The claiming worker holds a token, so the position it takes is filled; and no
\* other worker is reading, so it is the only one behind donePtr.
LEMMA ClaimSlotInductive ==
  ASSUME IInv, NEW w \in Workers, ClaimSlot(w)
  PROVE  IInv'
<1> USE DEF IInv, ClaimSlot, WorkerStep, senderVars
<1>1. /\ wpc'[w] = "read" /\ ptr'[w] = donePtr
      /\ \A v \in Workers : v # w => wpc'[v] = wpc[v] /\ ptr'[v] = ptr[v]
  BY DEF TypeOK
<1>2. w \in Holding /\ Reading = {} /\ Reading' = {w}
  BY <1>1 DEF Holding, Reading, MutexInv, InDequeue
<1>3. Cardinality(Holding') = Cardinality(Holding) - 1 /\ Cardinality(Holding) >= 1
  <2>1. Holding' = Holding \ {w}
    BY <1>1 DEF Holding
  <2> QED
    BY <1>2, <2>1, HoldingFinite, HoldingPositive, FS_RemoveElement
<1>4. donePtr + sem + Cardinality(Holding) <= allocPtr
  <2>1. CASE \E s \in Senders : spc[s] = "write"
    BY <2>1 DEF TypeOK, PositionInv
  <2>2. CASE \A s \in Senders : spc[s] # "write"
    BY <2>2, HoldingFinite DEF TypeOK, PositionInv
  <2> QED
    BY <2>1, <2>2
<1>5. donePtr < allocPtr
  BY <1>3, <1>4, HoldingFinite DEF TypeOK
<1>6. Window' = Window /\ Pending' = Pending
  <2>1. Window = donePtr..(allocPtr - 1)
    BY <1>2 DEF Window
  <2>2. Window' = ((donePtr + 1)..(allocPtr - 1)) \cup {donePtr}
    BY <1>1, <1>2 DEF Window
  <2>3. donePtr \in Nat /\ allocPtr \in Nat
    BY DEF TypeOK
  <2> QED
    BY <1>5, <2>1, <2>2, <2>3 DEF Pending
<1>7. TypeOK'
  BY <1>5 DEF TypeOK
<1>8. MutexInv'
  BY <1>1 DEF MutexInv, InEnqueue, InDequeue
<1>9. PositionInv'
  <2>1. donePtr' + sem' + Cardinality(Holding') = donePtr + sem + Cardinality(Holding)
    BY <1>3, HoldingFinite DEF TypeOK
  <2>2. \A v \in Reading' : ptr'[v] = donePtr' - 1
    BY <1>1, <1>2 DEF TypeOK
  <2> QED
    BY <2>1, <2>2 DEF PositionInv
<1>10. OutstandingInv'
  BY <1>6, OutstandingFrame
<1>11. ContentInv'
  <2>1. \A k \in Window' : Filled(k)' => Filled(k)
    BY DEF Filled
  <2>2. DequeueReturnsSent'
    BY <1>1 DEF ContentInv, DequeueReturnsSent
  <2> QED
    BY <1>6, <2>1, <2>2, ContentFrame
<1> QED
  BY <1>7, <1>8, <1>9, <1>10, <1>11

LEMMA ReadSlotInductive ==
  ASSUME IInv, NEW w \in Workers, ReadSlot(w)
  PROVE  IInv'
<1> USE DEF IInv, ReadSlot, WorkerStep, queueVars, senderVars
<1>1. /\ wpc'[w] = "unlock" /\ ret'[w] = queue[ptr[w] % QueueSize]
      /\ \A v \in Workers : v # w => wpc'[v] = wpc[v] /\ ret'[v] = ret[v]
  BY DEF TypeOK
<1>2. Holding' = Holding /\ Reading' = Reading
  BY <1>1 DEF Holding, Reading
<1>3. Window' = Window /\ Pending' = Pending
  BY <1>2 DEF Window, Pending
<1>4. ptr[w] \in Nat /\ ptr[w] \in Window /\ ptr[w] = donePtr - 1
  BY DEF TypeOK, Window, Reading, PositionInv
<1>5. ret'[w] \in Slices \cup {NoSlice}
  <2>1. ptr[w] % QueueSize \in 0..(QueueSize - 1)
    BY <1>4, QueueSizeType, DivMod
  <2> QED
    BY <1>1, <2>1 DEF TypeOK
<1>6. TypeOK'
  BY <1>5 DEF TypeOK
<1>7. MutexInv'
  BY <1>1 DEF MutexInv, InEnqueue, InDequeue
<1>8. PositionInv'
  BY <1>2 DEF PositionInv
<1>9. OutstandingInv'
  BY <1>3, OutstandingFrame
<1>10. ContentInv'
  <2>1. \A k \in Window' : Filled(k)' => Filled(k)
    BY DEF Filled
  <2>2. Filled(ptr[w])
    <3> SUFFICES ASSUME NEW s \in Senders, spc[s] = "write"
                 PROVE  ptr[w] < pos[s] + i[s]
      BY DEF Filled
    <3>1. donePtr + sem + Cardinality(Holding) = pos[s]
      BY DEF PositionInv
    <3> QED
      BY <1>4, <3>1, HoldingFinite DEF TypeOK
  <2>3. ret'[w] = sent'[ptr'[w] + 1]
    BY <1>1, <1>4, <2>2 DEF ContentInv
  <2>4. DequeueReturnsSent'
    BY <1>1, <2>3 DEF ContentInv, DequeueReturnsSent
  <2> QED
    BY <1>3, <2>1, <2>4, ContentFrame
<1> QED
  BY <1>6, <1>7, <1>8, <1>9, <1>10

\* What is returned is the oldest slice of the window: the others stay outstanding.
LEMMA UnlockDequeueInductive ==
  ASSUME IInv, NEW w \in Workers, UnlockDequeue(w)
  PROVE  IInv'
<1> USE DEF IInv, UnlockDequeue, WorkerStep, senderVars
<1>1. wpc'[w] = "wait" /\ \A v \in Workers : v # w => wpc'[v] = wpc[v]
  BY DEF TypeOK
<1>2. semDequeue = 0 /\ InDequeue = {w}
  BY DEF TypeOK, MutexInv, InDequeue
<1>3. Holding' = Holding /\ Reading = {w} /\ Reading' = {}
  BY <1>1, <1>2 DEF Holding, Reading, InDequeue
<1>4. ptr[w] = donePtr - 1 /\ ret[w] = sent[ptr[w] + 1] /\ ptr[w] \in Window
  BY <1>3 DEF PositionInv, ContentInv, DequeueReturnsSent, Window, Reading
<1>5. Window' \subseteq Window /\ ptr[w] \notin Window' /\ Pending' = Pending
  <2>1. Window' = donePtr..(allocPtr - 1)
    BY <1>3 DEF Window
  <2> QED
    <3>1. ptr[w] \notin Window'
      BY <1>4, <2>1 DEF TypeOK
    <3> QED
      BY <2>1, <3>1 DEF Window, Pending
<1>6. TypeOK'
  BY <1>2 DEF TypeOK
<1>7. MutexInv'
  BY <1>1, <1>2 DEF MutexInv, InEnqueue, InDequeue
<1>8. PositionInv'
  BY <1>3 DEF PositionInv
<1>9. OutstandingInv'
  <2>1. \A k \in Window' : sent'[k + 1] \in outstanding'
    BY <1>4, <1>5 DEF OutstandingInv
  <2>2. \A t \in Pending : \A j \in 1..Len(batch[t]) : batch[t][j] \in outstanding'
    BY <1>4 DEF OutstandingInv
  <2> QED
    BY <1>5, <2>1, <2>2 DEF OutstandingInv
<1>10. ContentInv'
  <2>1. \A k \in Window' : Filled(k)' => Filled(k)
    BY DEF Filled
  <2>2. DequeueReturnsSent'
    BY <1>1 DEF ContentInv, DequeueReturnsSent
  <2> QED
    BY <1>5, <2>1, <2>2, ContentFrame
<1> QED
  BY <1>6, <1>7, <1>8, <1>9, <1>10

----------------------------------------------------------------------------
(* The theorems *)

LEMMA InitIInv == Init => IInv
<1> SUFFICES ASSUME Init PROVE IInv
  OBVIOUS
<1> USE DEF Init
<1>1. TypeOK
  BY QueueSizeType DEF TypeOK
<1>2. MutexInv
  BY DEF MutexInv, InEnqueue, InDequeue
<1>3. Holding = {} /\ Window = {} /\ Pending = {} /\ Reading = {}
  BY DEF Holding, Window, Pending, Reading
<1>4. PositionInv
  BY <1>3, FS_EmptySet DEF PositionInv
<1>5. OutstandingInv
  BY <1>3 DEF OutstandingInv
<1>6. ContentInv
  BY <1>3 DEF ContentInv, DequeueReturnsSent
<1> QED
  BY <1>1, <1>2, <1>4, <1>5, <1>6 DEF IInv

LEMMA NextIInv == IInv /\ [Next]_vars => IInv'
<1> SUFFICES ASSUME IInv, [Next]_vars PROVE IInv'
  OBVIOUS
<1>1. ASSUME NEW s \in Senders, Call(s) \/ Enqueue(s) PROVE IInv'
  BY <1>1, CallInductive, LockEnqueueInductive, AllocPositionsInductive,
     WriteSlotInductive, PublishInductive, UnlockEnqueueInductive DEF Enqueue
<1>2. ASSUME NEW w \in Workers, Dequeue(w) PROVE IInv'
  BY <1>2, WaitItemInductive, LockDequeueInductive, ClaimSlotInductive,
     ReadSlotInductive, UnlockDequeueInductive DEF Dequeue
<1>3. CASE UNCHANGED vars
  <2> USE <1>3 DEF vars, queueVars, senderVars, workerVars
  <2>1. TypeOK' /\ MutexInv'
    BY DEF IInv, TypeOK, MutexInv, InEnqueue, InDequeue
  <2>2. Holding' = Holding /\ Reading' = Reading /\ Window' = Window /\ Pending' = Pending
    BY DEF Holding, Reading, Window, Pending
  <2>3. PositionInv'
    BY <2>2 DEF IInv, PositionInv
  <2>4. OutstandingInv'
    BY <2>2, OutstandingFrame DEF IInv
  <2>5. \A k \in Window' : Filled(k)' => Filled(k)
    BY DEF Filled
  <2>6. DequeueReturnsSent'
    BY DEF IInv, ContentInv, DequeueReturnsSent
  <2>7. ContentInv'
    BY <2>2, <2>5, <2>6, ContentFrame DEF IInv
  <2> QED
    BY <2>1, <2>3, <2>4, <2>7 DEF IInv
<1> QED
  BY <1>1, <1>2, <1>3 DEF Next

\* The slot a sender writes differs from the one a worker copies: the position
\* of the first is in the window from donePtr on, that of the second just
\* before donePtr, and the window is no longer than the ring.
LEMMA IInvNoSlotRace == IInv => NoSlotRace
<1> SUFFICES ASSUME IInv,
                    NEW s \in Senders, NEW w \in Workers,
                    spc[s] = "write", i[s] < Len(batch[s]), wpc[w] = "read"
             PROVE  (pos[s] + i[s]) % QueueSize # ptr[w] % QueueSize
  BY DEF NoSlotRace
<1> USE DEF IInv
<1>1. pos[s] + i[s] \in Window /\ pos[s] >= donePtr
  BY WritePosition
<1>2. ptr[w] \in Window /\ ptr[w] = donePtr - 1
  BY DEF Window, Reading, PositionInv
<1>3. pos[s] + i[s] # ptr[w]
  BY <1>1, <1>2 DEF TypeOK
<1> QED
  BY <1>1, <1>2, <1>3, WindowSlots

\* EnqueueBulk and Dequeue keep the inductive invariant: the locks exclude, the
\* tokens of sem_ count the filled positions, the slices of the window differ,
\* and every filled slot of the window holds what was sent.
THEOREM Inductive == Spec => []IInv
  BY InitIInv, NextIInv, PTL DEF Spec

\* The variables stay in their declared ranges, and done_ptr_ never passes
\* alloc_ptr_.
THEOREM TypeCorrect == Spec => []TypeOK
<1>1. IInv => TypeOK
  BY DEF IInv
<1> QED
  BY <1>1, Inductive, PTL

\* For every number of senders, workers and envs, Dequeue returns the slice
\* that was enqueued at its position, although a writer never checks that the
\* slot is free.
THEOREM DequeueCorrect == Spec => []DequeueReturnsSent
<1>1. IInv => DequeueReturnsSent
  BY DEF IInv, ContentInv
<1> QED
  BY <1>1, Inductive, PTL

\* For every number of senders, workers and envs, queue_'s plain slots are never
\* written and copied at the same time.
THEOREM SlotsRaceFree == Spec => []NoSlotRace
  BY IInvNoSlotRace, Inductive, PTL

----------------------------------------------------------------------------
(* The ring implements the abstract FIFO *)

Available == sem + Cardinality(Holding)
AvailableSlices == [k \in 1..Available |-> queue[(donePtr + k - 1) % QueueSize]]
Requested == [s \in Senders |-> IF spc[s] \in {"lock", "alloc", "write"} THEN batch[s] ELSE <<>>]
Taken == [w \in Workers |-> CASE wpc[w] = "read" -> queue[ptr[w] % QueueSize]
                              [] wpc[w] = "unlock" -> ret[w]
                              [] OTHER -> NoSlice]

LEMMA AvailableType == ASSUME TypeOK PROVE Available \in Nat
  BY HoldingFinite DEF TypeOK, Available

\* What is available is in the window and has been written.
LEMMA AvailableFilled ==
  ASSUME IInv, NEW k \in 1..Available
  PROVE  donePtr + k - 1 \in Window /\ Filled(donePtr + k - 1)
<1> DEFINE m == donePtr + k - 1
<1>1. /\ donePtr \in Nat /\ k \in Nat /\ k >= 1 /\ Available \in Nat /\ allocPtr \in Nat
      /\ k <= Available /\ sem \in Nat /\ Cardinality(Holding) \in Nat
  BY AvailableType, HoldingFinite DEF IInv, TypeOK
<1>2. CASE \E s \in Senders : spc[s] = "write"
  <2>1. PICK s \in Senders : spc[s] = "write"
    BY <1>2
  <2>2. /\ pos[s] + Len(batch[s]) = allocPtr
        /\ donePtr + Available = pos[s]
        /\ pos[s] \in Nat /\ i[s] \in Nat /\ Len(batch[s]) \in Nat
    <3>1. pos[s] \in Nat /\ i[s] \in Nat /\ batch[s] \in Seq(Slices)
      BY DEF IInv, TypeOK
    <3>2. /\ pos[s] + Len(batch[s]) = allocPtr
          /\ donePtr + sem + Cardinality(Holding) = pos[s]
      BY <2>1 DEF IInv, PositionInv
    <3>3. donePtr + Available = pos[s]
      BY <1>1, <3>2 DEF Available
    <3>4. Len(batch[s]) \in Nat
      BY <3>1, LenProperties
    <3> QED
      BY <3>1, <3>2, <3>3, <3>4
  <2>3. m \in donePtr..(allocPtr - 1) /\ m < pos[s] + i[s]
    BY ONLY <1>1, <2>2
  <2>4. \A t \in Senders : spc[t] = "write" => t = s
    BY <2>1 DEF IInv, MutexInv, InEnqueue
  <2> QED
    BY <2>3, <2>4 DEF Window, Filled
<1>3. CASE \A s \in Senders : spc[s] # "write"
  <2>1. donePtr + Available = allocPtr
    <3>1. donePtr + sem + Cardinality(Holding) = allocPtr
      BY <1>3 DEF IInv, PositionInv
    <3> QED
      BY <1>1, <3>1 DEF Available
  <2>2. m \in donePtr..(allocPtr - 1)
    BY <1>1, <2>1
  <2> QED
    BY <1>3, <2>2 DEF Window, Filled
<1> QED
  BY <1>2, <1>3

\* A step that keeps the FIFO, what was requested and what was taken.
LEMMA Stutter ==
  ASSUME Requested' = Requested, AvailableSlices' = AvailableSlices, Taken' = Taken
  PROVE  UNCHANGED Fifo!vars
  BY DEF Fifo!vars, Requested, AvailableSlices, Taken, Available

LEMMA InitFifo == Init => Fifo!Init
<1> SUFFICES ASSUME Init PROVE Fifo!Init
  OBVIOUS
<1>1. Holding = {} /\ Cardinality(Holding) = 0
  BY FS_EmptySet DEF Init, Holding
<1>2. sem + Cardinality(Holding) = 0
  BY <1>1 DEF Init
<1>3. Requested = [s \in Senders |-> <<>>]
  BY DEF Init, Requested
<1>4. Taken = [w \in Workers |-> NoSlice]
  BY DEF Init, Taken
<1>5. AvailableSlices = <<>>
  BY <1>2 DEF AvailableSlices, Available
<1> QED
  BY <1>3, <1>4, <1>5 DEF Fifo!Init, Requested, Taken, AvailableSlices, Available

\* The steps of EnqueueBulk that change neither the FIFO nor the pcs that matter to it.
LEMMA SenderStutters ==
  ASSUME IInv, NEW s \in Senders, LockEnqueue(s) \/ AllocPositions(s) \/ UnlockEnqueue(s)
  PROVE  UNCHANGED Fifo!vars
<1> USE DEF LockEnqueue, AllocPositions, UnlockEnqueue, SenderStep, workerVars
<1>1. Holding' = Holding
  BY DEF Holding
<1>2. Requested' = Requested
  <2>1. ASSUME NEW t \in Senders
        PROVE  spc'[t] \in {"lock", "alloc", "write"} <=> spc[t] \in {"lock", "alloc", "write"}
    BY <2>1 DEF IInv, TypeOK
  <2>2. batch' = batch
    OBVIOUS
  <2> QED
    BY <2>1, <2>2 DEF Requested
<1>3. AvailableSlices' = AvailableSlices
  BY <1>1 DEF AvailableSlices, Available, QueueSize
<1>4. Taken' = Taken
  BY DEF Taken, QueueSize
<1> QED
  BY <1>2, <1>3, <1>4, Stutter

\* A slot is written that is neither available nor being read.
LEMMA WriteSlotStutters ==
  ASSUME IInv, NEW s \in Senders, WriteSlot(s)
  PROVE  UNCHANGED Fifo!vars
<1> USE DEF WriteSlot, workerVars
<1>1. Holding' = Holding /\ QueueSize' = QueueSize
  BY DEF Holding, QueueSize
<1> DEFINE p == pos[s] + i[s]
<1>2. p \in Window /\ ~Filled(p) /\ p >= donePtr
  <2>1. p \in Window /\ p >= donePtr
    <3>1. pos[s] \in Nat /\ i[s] \in Nat /\ donePtr \in Nat
      BY DEF IInv, TypeOK
    <3>2. p \in Window /\ pos[s] >= donePtr
      BY WritePosition DEF IInv
    <3> QED
      BY <3>1, <3>2
  <2>2. ~ (p < pos[s] + i[s])
    BY DEF IInv, TypeOK
  <2> QED
    BY <2>1, <2>2 DEF Filled
<1>3. ASSUME NEW k \in Window, k # p
      PROVE  queue'[k % QueueSize] = queue[k % QueueSize]
  <2>1. k % QueueSize # p % QueueSize
    BY <1>2, <1>3, WindowSlots DEF IInv
  <2>2. k % QueueSize \in 0..(QueueSize - 1)
    BY <1>3, WindowBounds, QueueSizeType, DivMod DEF IInv
  <2> QED
    BY <2>1, <2>2 DEF IInv, TypeOK
<1>4. Requested' = Requested
  BY DEF Requested
<1>5. AvailableSlices' = AvailableSlices
  <2>1. ASSUME NEW k \in 1..Available
        PROVE  queue'[(donePtr + k - 1) % QueueSize] = queue[(donePtr + k - 1) % QueueSize]
    BY <1>2, <1>3, AvailableFilled
  <2> QED
    BY <1>1, <2>1 DEF AvailableSlices, Available
<1>6. Taken' = Taken
  <2>1. ASSUME NEW w \in Workers, wpc[w] = "read"
        PROVE  queue'[ptr[w] % QueueSize] = queue[ptr[w] % QueueSize]
    <3>1. ptr[w] \in Window /\ ptr[w] = donePtr - 1 /\ donePtr \in Nat
      BY <2>1 DEF IInv, TypeOK, PositionInv, Window, Reading
    <3> QED
      BY <1>2, <1>3, <3>1
  <2> QED
    BY <1>1, <2>1 DEF Taken
<1> QED
  BY <1>4, <1>5, <1>6, Stutter

\* Every position from donePtr on has a slot.
LEMMA SlotType ==
  ASSUME IInv, NEW k \in Nat, k >= 1
  PROVE  queue[(donePtr + k - 1) % QueueSize] \in Slices \cup {NoSlice}
<1>1. donePtr + k - 1 \in Nat
  BY DEF IInv, TypeOK
<1>2. (donePtr + k - 1) % QueueSize \in 0..(QueueSize - 1)
  BY <1>1, QueueSizeType, DivMod
<1> QED
  BY <1>2 DEF IInv, TypeOK

LEMMA AvailableSeq ==
  ASSUME IInv
  PROVE  AvailableSlices \in Seq(Slices \cup {NoSlice}) /\ Len(AvailableSlices) = Available
<1>1. Available \in Nat
  BY AvailableType DEF IInv
<1>2. AvailableSlices \in [1..Available -> Slices \cup {NoSlice}]
  BY <1>1, SlotType DEF AvailableSlices
<1> QED
  BY <1>1, <1>2

\* Publish makes the bulk available, behind what was.
LEMMA PublishPuts ==
  ASSUME IInv, NEW s \in Senders, Publish(s)
  PROVE  Fifo!Put(s)
<1> USE DEF Publish, SenderStep, workerVars
<1> DEFINE b == batch[s]
           n == Len(b)
<1>1. b \in Seq(Slices) /\ n \in Nat /\ donePtr \in Nat /\ pos[s] \in Nat /\ sem \in Nat
  BY DEF IInv, TypeOK
<1>2. Available \in Nat /\ i[s] = n /\ spc[s] = "write"
  BY AvailableType DEF IInv
<1>3. Holding' = Holding /\ QueueSize' = QueueSize
  BY DEF Holding, QueueSize
<1>4. Available' = Available + n
  BY <1>1, <1>3, HoldingFinite DEF Available
<1>5. /\ pos[s] + n = allocPtr
      /\ donePtr + sem + Cardinality(Holding) = pos[s]
      /\ \A j \in 1..n : sent[pos[s] + j] = b[j]
  BY <1>2 DEF IInv, PositionInv
<1>6. donePtr + Available = pos[s]
  BY <1>1, <1>5, HoldingFinite DEF Available
<1>7. ASSUME NEW j \in 1..n
      PROVE  queue[(donePtr + (Available + j) - 1) % QueueSize] = b[j]
  <2> DEFINE k == pos[s] + j - 1
  <2>1. k = donePtr + (Available + j) - 1 /\ k + 1 = pos[s] + j
    BY ONLY <1>1, <1>2, <1>6, <1>7
  <2>2. k \in donePtr..(allocPtr - 1) /\ k < pos[s] + i[s]
    <3>1. donePtr <= k
      BY ONLY <1>1, <1>2, <1>7, <2>1
    <3>2. k < pos[s] + n /\ k \in Int
      BY ONLY <1>1, <1>2, <1>7
    <3> QED
      BY ONLY <1>1, <1>2, <1>5, <3>1, <3>2
  <2>3. \A t \in Senders : spc[t] = "write" => t = s
    BY <1>2 DEF IInv, MutexInv, InEnqueue
  <2>4. k \in Window /\ Filled(k)
    BY <2>2, <2>3 DEF Window, Filled
  <2>5. queue[k % QueueSize] = sent[k + 1]
    BY <2>4 DEF IInv, ContentInv
  <2>6. sent[k + 1] = b[j]
    BY <1>5, <2>1
  <2> QED
    BY <2>1, <2>5, <2>6
<1>8. AvailableSlices' = AvailableSlices \o b
  <2> DEFINE S == Slices \cup {NoSlice}
             f == AvailableSlices
  <2>1. f \in Seq(S) /\ Len(f) = Available /\ b \in Seq(S)
    BY <1>1, AvailableSeq, SeqMonotonic
  <2>2. /\ f \o b \in Seq(S) /\ Len(f \o b) = Available + n
        /\ \A k \in 1..(Available + n) :
             (f \o b)[k] = IF k <= Available THEN f[k] ELSE b[k - Available]
    BY <2>1, ConcatProperties
  <2>3. f' = [k \in 1..(Available + n) |-> queue[(donePtr + k - 1) % QueueSize]]
    BY <1>3, <1>4 DEF AvailableSlices
  <2>4. f' \in Seq(S) /\ Len(f') = Available + n
    <3>1. ASSUME NEW k \in 1..(Available + n)
          PROVE  queue[(donePtr + k - 1) % QueueSize] \in S
      BY SlotType
    <3>2. f' \in [1..(Available + n) -> S]
      BY <2>3, <3>1
    <3>3. Available + n \in Nat
      BY <1>1, <1>2
    <3>4. f' \in Seq(S) /\ DOMAIN f' = 1..(Available + n)
      BY ONLY <3>2, <3>3
    <3>5. Len(f') \in Nat /\ DOMAIN f' = 1..Len(f')
      BY ONLY <3>4, LenProperties
    <3> QED
      BY ONLY <3>3, <3>4, <3>5
  <2>5. ASSUME NEW k \in 1..(Available + n) PROVE f'[k] = (f \o b)[k]
    <3>1. f'[k] = queue[(donePtr + k - 1) % QueueSize]
      BY <2>3
    <3>2. CASE k <= Available
      <4>1. k \in 1..Available
        BY ONLY <1>1, <1>2, <3>2, k \in 1..(Available + n)
      <4>2. f[k] = queue[(donePtr + k - 1) % QueueSize]
        BY <4>1 DEF AvailableSlices
      <4> QED
        BY <2>2, <3>1, <3>2, <4>2
    <3>3. CASE ~ (k <= Available)
      <4>1. k - Available \in 1..n /\ Available + (k - Available) = k
        BY ONLY <1>1, <1>2, <3>3, k \in 1..(Available + n)
      <4>2. queue[(donePtr + k - 1) % QueueSize] = b[k - Available]
        BY <1>7, <4>1
      <4> QED
        BY <2>2, <3>1, <3>3, <4>2
    <3> QED
      BY <3>2, <3>3
  <2> HIDE DEF f, S
  <2> QED
    <3>1. f' = f \o b
      BY ONLY <2>2, <2>4, <2>5, SeqEqual
    <3> QED
      BY <3>1 DEF f
<1>9. Requested[s] = b
  BY <1>2 DEF Requested
<1>10. Requested' = [Requested EXCEPT ![s] = <<>>]
  <2>1. \A t \in Senders : spc'[t] = IF t = s THEN "unlock" ELSE spc[t]
    BY DEF IInv, TypeOK
  <2>2. batch' = batch
    OBVIOUS
  <2>3. \A t \in Senders : Requested'[t] = IF t = s THEN <<>> ELSE Requested[t]
    BY <2>1, <2>2 DEF Requested
  <2>4. Requested = [t \in Senders |-> Requested[t]] /\ Requested' = [t \in Senders |-> Requested'[t]]
    BY DEF Requested
  <2> HIDE DEF b
  <2> QED
    BY <2>3, <2>4
<1>11. Taken' = Taken
  BY <1>3 DEF Taken
<1> QED
  BY <1>8, <1>9, <1>10, <1>11 DEF Fifo!Put, Requested, Taken, AvailableSlices, Available

LEMMA CallCalls ==
  ASSUME IInv, NEW s \in Senders, Call(s)
  PROVE  Fifo!Call(s)
<1> USE DEF Call, SenderStep, workerVars, queueVars
<1>1. PICK b \in Bulks : batch' = [batch EXCEPT ![s] = b]
  OBVIOUS
<1>2. Holding' = Holding /\ QueueSize' = QueueSize
  BY DEF Holding, QueueSize
<1>3. \A t \in Senders : /\ spc'[t] = IF t = s THEN "lock" ELSE spc[t]
                         /\ batch'[t] = IF t = s THEN b ELSE batch[t]
  BY <1>1 DEF IInv, TypeOK
<1>4. Requested[s] = <<>> /\ Requested' = [Requested EXCEPT ![s] = b]
  BY <1>3 DEF Requested
<1>5. AvailableSlices' = AvailableSlices
  BY <1>2 DEF AvailableSlices, Available
<1>6. Taken' = Taken
  BY <1>2 DEF Taken
<1> QED
  BY <1>4, <1>5, <1>6 DEF Fifo!Call, Requested, Taken, AvailableSlices, Available

\* A token passes from sem_ to the worker.
LEMMA WaitItemStutters ==
  ASSUME IInv, NEW w \in Workers, WaitItem(w)
  PROVE  UNCHANGED Fifo!vars
<1> USE DEF WaitItem, WorkerStep, senderVars
<1>1. \A v \in Workers : wpc'[v] = IF v = w THEN "lock" ELSE wpc[v]
  BY DEF IInv, TypeOK
<1>2. Holding' = Holding \cup {w} /\ w \notin Holding
  BY <1>1 DEF Holding
<1>3. Cardinality(Holding') = Cardinality(Holding) + 1
  BY <1>2, HoldingFinite, FS_AddElement
<1>4. Available' = Available
  <2>1. sem \in Nat /\ sem' = sem - 1
    BY DEF IInv, TypeOK
  <2>2. Available' = sem' + Cardinality(Holding')
    BY DEF Available
  <2> QED
    BY <1>3, <2>1, <2>2, HoldingFinite DEF Available
<1>5. Requested' = Requested
  BY DEF Requested
<1>6. AvailableSlices' = AvailableSlices
  BY <1>4 DEF AvailableSlices, QueueSize
<1>7. Taken' = Taken
  BY <1>1 DEF Taken, QueueSize
<1> QED
  BY <1>5, <1>6, <1>7, Stutter

LEMMA LockDequeueStutters ==
  ASSUME IInv, NEW w \in Workers, LockDequeue(w)
  PROVE  UNCHANGED Fifo!vars
<1> USE DEF LockDequeue, WorkerStep, senderVars
<1>1. \A v \in Workers : wpc'[v] = IF v = w THEN "claim" ELSE wpc[v]
  BY DEF IInv, TypeOK
<1>2. Holding' = Holding
  BY <1>1 DEF Holding
<1>3. Requested' = Requested
  BY DEF Requested
<1>4. AvailableSlices' = AvailableSlices
  BY <1>2 DEF AvailableSlices, Available, QueueSize
<1>5. Taken' = Taken
  BY <1>1 DEF Taken, QueueSize
<1> QED
  BY <1>3, <1>4, <1>5, Stutter

\* Copying the slot changes where the slice is found, not which one it is.
LEMMA ReadSlotStutters ==
  ASSUME IInv, NEW w \in Workers, ReadSlot(w)
  PROVE  UNCHANGED Fifo!vars
<1> USE DEF ReadSlot, WorkerStep, senderVars, queueVars
<1>1. \A v \in Workers : /\ wpc'[v] = IF v = w THEN "unlock" ELSE wpc[v]
                         /\ ret'[v] = IF v = w THEN queue[ptr[w] % QueueSize] ELSE ret[v]
  BY DEF IInv, TypeOK
<1>2. Holding' = Holding
  BY <1>1 DEF Holding
<1>3. Requested' = Requested
  BY DEF Requested
<1>4. AvailableSlices' = AvailableSlices
  BY <1>2 DEF AvailableSlices, Available, QueueSize
<1>5. Taken' = Taken
  BY <1>1 DEF Taken, QueueSize
<1> QED
  BY <1>3, <1>4, <1>5, Stutter

\* The position a worker claims is the oldest one available.
LEMMA ClaimSlotTakes ==
  ASSUME IInv, NEW w \in Workers, ClaimSlot(w)
  PROVE  Fifo!Take(w)
<1> USE DEF ClaimSlot, WorkerStep, senderVars
<1> DEFINE S == Slices \cup {NoSlice}
           f == AvailableSlices
<1>1. \A v \in Workers : /\ wpc'[v] = IF v = w THEN "read" ELSE wpc[v]
                         /\ ptr'[v] = IF v = w THEN donePtr ELSE ptr[v]
  BY DEF IInv, TypeOK
<1>2. donePtr \in Nat /\ donePtr' = donePtr + 1 /\ QueueSize' = QueueSize
      /\ sem \in Nat /\ sem' = sem /\ queue' = queue
  BY DEF IInv, TypeOK, QueueSize
<1>3. w \in Holding /\ Holding' = Holding \ {w}
  BY <1>1 DEF Holding
<1>4. Cardinality(Holding') = Cardinality(Holding) - 1
  BY <1>3, HoldingFinite, FS_RemoveElement
<1>5. Available \in Nat /\ Available >= 1 /\ Available' = Available - 1
  <2>1. Available' = sem' + Cardinality(Holding')
    BY DEF Available
  <2> QED
    BY <1>2, <1>3, <1>4, <2>1, HoldingFinite, HoldingPositive DEF Available
<1>6. f \in Seq(S) /\ Len(f) = Available /\ f # <<>>
  <2>1. f \in Seq(S) /\ Len(f) = Available
    BY AvailableSeq
  <2> QED
    BY <1>5, <2>1, EmptySeq
<1>7. \A k \in 1..Available : f[k] = queue[(donePtr + k - 1) % QueueSize]
  BY DEF AvailableSlices
<1>8. AvailableSlices' = Tail(AvailableSlices)
  <2>1. /\ Tail(f) \in Seq(S) /\ Len(Tail(f)) = Available - 1
        /\ \A k \in 1..(Available - 1) : Tail(f)[k] = f[k + 1]
    BY <1>6, HeadTailProperties
  <2>2. f' = [k \in 1..(Available - 1) |-> queue[((donePtr + 1) + k - 1) % QueueSize]]
    BY <1>2, <1>5 DEF AvailableSlices
  <2>3. ASSUME NEW k \in 1..(Available - 1) PROVE f'[k] = Tail(f)[k]
    <3>1. k + 1 \in 1..Available /\ (donePtr + 1) + k - 1 = donePtr + (k + 1) - 1
      BY ONLY <1>2, <1>5, k \in 1..(Available - 1)
    <3>2. f'[k] = queue[(donePtr + (k + 1) - 1) % QueueSize]
      BY <2>2, <3>1
    <3> QED
      BY <1>7, <2>1, <3>1, <3>2
  <2>4. f' \in Seq(S) /\ Len(f') = Available - 1
    <3>1. ASSUME NEW k \in 1..(Available - 1) PROVE f'[k] \in S
      <4>1. Tail(f)[k] \in S
        BY <2>1, <1>5, ElementOfSeq
      <4> QED
        BY <2>3, <4>1
    <3>2. f' \in [1..(Available - 1) -> S]
      BY <2>2, <3>1
    <3> QED
      BY <1>5, <3>2
  <2> HIDE DEF f, S
  <2>5. f' = Tail(f)
    BY ONLY <2>1, <2>3, <2>4, SeqEqual
  <2> QED
    BY <2>5 DEF f
<1>9. Head(AvailableSlices) = queue[donePtr % QueueSize]
  <2>1. Head(f) = f[1]
    BY <1>6
  <2>2. donePtr + 1 - 1 = donePtr /\ 1 \in 1..Available
    BY <1>2, <1>5
  <2> QED
    BY <1>7, <2>1, <2>2
<1>10. Taken[w] = NoSlice
  BY DEF Taken
<1>11. Taken' = [Taken EXCEPT ![w] = Head(AvailableSlices)]
  <2>1. \A v \in Workers : Taken'[v] = IF v = w THEN queue[donePtr % QueueSize] ELSE Taken[v]
    BY <1>1, <1>2 DEF Taken
  <2>2. Taken = [v \in Workers |-> Taken[v]] /\ Taken' = [v \in Workers |-> Taken'[v]]
    BY DEF Taken
  <2> QED
    BY <1>9, <2>1, <2>2
<1>12. Requested' = Requested
  BY DEF Requested
<1>13. AvailableSlices # <<>>
  BY <1>6
<1> HIDE DEF f, S
<1> QED
  BY <1>8, <1>10, <1>11, <1>12, <1>13
     DEF Fifo!Take, Requested, Taken, AvailableSlices, Available

LEMMA UnlockDequeueReturns ==
  ASSUME IInv, NEW w \in Workers, UnlockDequeue(w)
  PROVE  Fifo!Return(w)
<1> USE DEF UnlockDequeue, WorkerStep, senderVars
<1>1. \A v \in Workers : wpc'[v] = IF v = w THEN "wait" ELSE wpc[v]
  BY DEF IInv, TypeOK
<1>2. Holding' = Holding
  BY <1>1 DEF Holding
<1>3. Requested' = Requested
  BY DEF Requested
<1>4. AvailableSlices' = AvailableSlices
  BY <1>2 DEF AvailableSlices, Available, QueueSize
<1>5. Taken' = [Taken EXCEPT ![w] = NoSlice]
  <2>1. \A v \in Workers : Taken'[v] = IF v = w THEN NoSlice ELSE Taken[v]
    BY <1>1 DEF Taken, QueueSize
  <2>2. Taken = [v \in Workers |-> Taken[v]] /\ Taken' = [v \in Workers |-> Taken'[v]]
    BY DEF Taken
  <2> QED
    BY <2>1, <2>2
<1> QED
  BY <1>3, <1>4, <1>5 DEF Fifo!Return, Requested, Taken, AvailableSlices, Available

\* Every step of the ring is a step of the FIFO or leaves it as it is.
LEMMA NextFifo == IInv /\ [Next]_vars => [Fifo!Next]_(Fifo!vars)
<1> SUFFICES ASSUME IInv, [Next]_vars PROVE [Fifo!Next]_(Fifo!vars)
  OBVIOUS
<1>1. ASSUME NEW s \in Senders, Call(s) PROVE [Fifo!Next]_(Fifo!vars)
  BY <1>1, CallCalls DEF Fifo!Next
<1>2. ASSUME NEW s \in Senders, LockEnqueue(s) \/ AllocPositions(s) \/ UnlockEnqueue(s)
      PROVE  [Fifo!Next]_(Fifo!vars)
  BY <1>2, SenderStutters
<1>3. ASSUME NEW s \in Senders, WriteSlot(s) PROVE [Fifo!Next]_(Fifo!vars)
  BY <1>3, WriteSlotStutters
<1>4. ASSUME NEW s \in Senders, Publish(s) PROVE [Fifo!Next]_(Fifo!vars)
  BY <1>4, PublishPuts DEF Fifo!Next
<1>5. ASSUME NEW w \in Workers, WaitItem(w) PROVE [Fifo!Next]_(Fifo!vars)
  BY <1>5, WaitItemStutters
<1>6. ASSUME NEW w \in Workers, LockDequeue(w) PROVE [Fifo!Next]_(Fifo!vars)
  BY <1>6, LockDequeueStutters
<1>7. ASSUME NEW w \in Workers, ClaimSlot(w) PROVE [Fifo!Next]_(Fifo!vars)
  BY <1>7, ClaimSlotTakes DEF Fifo!Next
<1>8. ASSUME NEW w \in Workers, ReadSlot(w) PROVE [Fifo!Next]_(Fifo!vars)
  BY <1>8, ReadSlotStutters
<1>9. ASSUME NEW w \in Workers, UnlockDequeue(w) PROVE [Fifo!Next]_(Fifo!vars)
  BY <1>9, UnlockDequeueReturns DEF Fifo!Next
<1>10. CASE UNCHANGED vars
  <2>1. Holding' = Holding /\ QueueSize' = QueueSize
    BY <1>10 DEF vars, workerVars, Holding, QueueSize
  <2>2. Requested' = Requested
    BY <1>10 DEF vars, senderVars, Requested
  <2>3. AvailableSlices' = AvailableSlices
    BY <1>10, <2>1 DEF vars, queueVars, AvailableSlices, Available
  <2>4. Taken' = Taken
    BY <1>10, <2>1 DEF vars, queueVars, workerVars, Taken
  <2> QED
    BY <2>2, <2>3, <2>4, Stutter
<1> QED
  BY <1>1, <1>2, <1>3, <1>4, <1>5, <1>6, <1>7, <1>8, <1>9, <1>10 DEF Next, Enqueue, Dequeue

\* For every number of threads, envs and slices, EnqueueBulk and Dequeue
\* implement the abstract FIFO: a bulk becomes available whole and in order,
\* and every slice is handed to one worker, oldest first.
THEOREM FifoImplemented == Spec => ImplementsFifo
<1>1. Init => Fifo!Init
  BY InitFifo
<1>2. IInv /\ [Next]_vars => [Fifo!Next]_(Fifo!vars)
  BY NextFifo
<1> QED
  BY <1>1, <1>2, Inductive, PTL DEF Spec, ImplementsFifo, Fifo!Spec
=============================================================================
