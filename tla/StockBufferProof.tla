-------------------------- MODULE StockBufferProof --------------------------
(***************************************************************************)
(* Proofs about StockBuffer for every number of creators and every size of *)
(* the stock: IInv is inductive, so a Get always finds a buffer and a Put  *)
(* always an empty slot, although neither looks.                           *)
(***************************************************************************)
EXTENDS StockBuffer, FiniteSetTheorems, TLAPS

----------------------------------------------------------------------------
(* Arithmetic of the ring *)

LEMMA DivMod ==
  ASSUME NEW Q \in Nat \ {0}, NEW k \in Nat
  PROVE  /\ k = Q * (k \div Q) + (k % Q)
         /\ k \div Q \in Nat
         /\ k % Q \in 0..(Q - 1)
  OBVIOUS

LEMMA StockSizeType == StockSize \in Nat \ {0}
<1>1. Batch \in Nat \ {0} /\ NumEnvs \in Nat
  BY SizesAssumption
<1>2. NumEnvs \div Batch \in Nat
  BY <1>1, DivMod
<1> QED
  BY <1>2 DEF StockSize

\* Positions less than a ring apart have different slots.
LEMMA ModDistinct ==
  ASSUME NEW Q \in Nat \ {0}, NEW j \in Nat, NEW k \in Nat, j < k, k - j < Q
  PROVE  j % Q # k % Q
<1> SUFFICES ASSUME j % Q = k % Q PROVE FALSE
  OBVIOUS
<1> DEFINE a == j \div Q
           b == k \div Q
<1>1. a \in Nat /\ b \in Nat /\ j = Q * a + (j % Q) /\ k = Q * b + (j % Q)
  BY DivMod
<1>2. j % Q \in Nat
  BY DivMod
<1> HIDE DEF a, b
<1>3. k - j = Q * (b - a)
  BY <1>1, <1>2
<1>4. b - a <= 0 => Q * (b - a) <= 0
  BY <1>1
<1>5. b - a >= 1 => Q * (b - a) >= Q
  BY <1>1
<1> QED
  BY <1>1, <1>3, <1>4, <1>5

LEMMA CreatorsFinite == Cardinality(Creators) \in Nat
  BY ThreadsAssumption, FS_CardinalityType

----------------------------------------------------------------------------
(* The slots of the positions in use *)

\* Between the position a Get takes from and the one a Put stores at there are
\* no more positions than slots.
LEMMA PositionsFit ==
  ASSUME TypeOK, SemInv
  PROVE  tail - (head - Bit(opc = "move")) <= StockSize
<1>1. CreatorIn({"store", "signal"}) => CreatorIn({"tail", "store", "signal"})
  BY DEF CreatorIn
<1>2. StockSize \in Nat
  BY StockSizeType
<1>3. Bit(opc = "head") + Bit(opc = "move") <= Bit(opc \in {"head", "move", "release"})
  BY DEF Bit
<1>4. Bit(CreatorIn({"store", "signal"})) <= Bit(CreatorIn({"tail", "store", "signal"}))
  BY <1>1 DEF Bit
<1>5. \A b \in BOOLEAN : Bit(b) \in 0..1
  BY DEF Bit
<1> QED
  BY <1>2, <1>3, <1>4, <1>5 DEF TypeOK, SemInv, Bit

LEMMA SlotsDiffer ==
  ASSUME TypeOK, SemInv, LocalInv,
         NEW j \in (head - Bit(opc = "move"))..(tail - 1),
         NEW k \in (head - Bit(opc = "move"))..(tail - 1), j # k
  PROVE  j \in Nat /\ k \in Nat /\ j % StockSize # k % StockSize
<1>1. head - Bit(opc = "move") \in Nat
  BY DEF TypeOK, LocalInv, Bit
<1>2. j \in Nat /\ k \in Nat /\ j - k < StockSize /\ k - j < StockSize
  BY <1>1, PositionsFit, StockSizeType DEF TypeOK
<1>3. j < k \/ k < j
  BY <1>2
<1> QED
  BY <1>2, <1>3, ModDistinct, StockSizeType

\* The position of a Put that is about to store, and that of a Get about to move.
LEMMA StoreSlot ==
  ASSUME IInv, NEW c \in Creators, cpc[c] = "store"
  PROVE  /\ tail - 1 \in (head - Bit(opc = "move"))..(tail - 1)
         /\ \A p \in Stocked :
              p \in Nat /\ p \in (head - Bit(opc = "move"))..(tail - 2)
         /\ offset[c] = (tail - 1) % StockSize
         /\ buffer[offset[c]] = Null
<1> USE DEF IInv
<1>1. CreatorIn({"store"}) /\ CreatorIn({"store", "signal"})
  BY DEF CreatorIn
<1>2. tail - head >= 1
  BY <1>1 DEF TypeOK, SemInv, Bit
<1>3. tail - 1 \in (head - Bit(opc = "move"))..(tail - 1)
  BY <1>2 DEF TypeOK, Bit
<1>4. \A p \in Stocked : p \in Nat /\ p \in (head - Bit(opc = "move"))..(tail - 2)
  BY <1>1 DEF Stocked, Bit, TypeOK, LocalInv
<1>5. offset[c] = (tail - 1) % StockSize
  BY DEF LocalInv
<1>6. ASSUME NEW p \in Stocked
      PROVE  p % StockSize # offset[c]
  <2>1. p \in (head - Bit(opc = "move"))..(tail - 1) /\ p # tail - 1
    BY <1>4, <1>6 DEF TypeOK, Bit
  <2> QED
    BY <1>3, <1>5, <2>1, SlotsDiffer
<1>7. offset[c] \in DOMAIN buffer
  BY DEF TypeOK
<1>8. buffer[offset[c]] = Null
  BY <1>6, <1>7 DEF ContentInv
<1> QED
  BY <1>3, <1>4, <1>5, <1>8

LEMMA MoveSlot ==
  ASSUME IInv, opc = "move"
  PROVE  /\ head - 1 \in Stocked
         /\ slot = (head - 1) % StockSize
         /\ buffer[slot] = Buffer
<1> USE DEF IInv
<1>1. CreatorIn({"store"}) => CreatorIn({"store", "signal"})
  BY DEF CreatorIn
<1>2. head - 1 \in Stocked
  BY <1>1 DEF TypeOK, SemInv, Stocked, Bit
<1>3. slot = (head - 1) % StockSize
  BY DEF LocalInv
<1> QED
  BY <1>2, <1>3 DEF ContentInv

----------------------------------------------------------------------------
(* What steps that leave the stock alone preserve *)

LEMMA ContentFrame ==
  ASSUME ContentInv, buffer' = buffer, Stocked' = Stocked
  PROVE  ContentInv'
  BY DEF ContentInv, StockSize

LEMMA CreatorInFrame ==
  ASSUME NEW c \in Creators, cpc \in [Creators -> STRING], NEW to,
         cpc' = [cpc EXCEPT ![c] = to],
         NEW S, cpc[c] \in S <=> to \in S
  PROVE  CreatorIn(S)' <=> CreatorIn(S)
  BY DEF CreatorIn

----------------------------------------------------------------------------
(* The steps of a creator *)

LEMMA MakeBufferInductive ==
  ASSUME IInv, NEW c \in Creators, MakeBuffer(c)
  PROVE  IInv'
<1> USE DEF IInv, MakeBuffer, CreatorStep, stock, ownerVars
<1>1. /\ CreatorIn({"store"})' <=> CreatorIn({"store"})
      /\ CreatorIn({"store", "signal"})' <=> CreatorIn({"store", "signal"})
      /\ CreatorIn({"tail", "store", "signal"})' <=> CreatorIn({"tail", "store", "signal"})
  BY DEF CreatorIn, TypeOK
<1>2. Stocked' = Stocked
  BY <1>1 DEF Stocked, Bit
<1>3. TypeOK'
  BY BufferAssumption DEF TypeOK
<1>4. MutexInv'
  BY BufferAssumption DEF MutexInv, TypeOK
<1>5. SemInv'
  BY <1>1 DEF SemInv, Bit, StockSize
<1>6. ContentInv'
  BY <1>2, ContentFrame
<1>7. LocalInv'
  BY DEF LocalInv, TypeOK, StockSize
<1> QED
  BY <1>3, <1>4, <1>5, <1>6, <1>7

LEMMA LockPutInductive ==
  ASSUME IInv, NEW c \in Creators, LockPut(c)
  PROVE  IInv'
<1> USE DEF IInv, LockPut, CreatorStep, stock, ownerVars
<1>1. /\ CreatorIn({"store"})' <=> CreatorIn({"store"})
      /\ CreatorIn({"store", "signal"})' <=> CreatorIn({"store", "signal"})
      /\ CreatorIn({"tail", "store", "signal"})' <=> CreatorIn({"tail", "store", "signal"})
  BY DEF CreatorIn, TypeOK
<1>2. Stocked' = Stocked
  BY <1>1 DEF Stocked, Bit
<1>3. TypeOK'
  BY BufferAssumption DEF TypeOK
<1>4. MutexInv'
  BY BufferAssumption DEF MutexInv, TypeOK
<1>5. SemInv'
  BY <1>1 DEF SemInv, Bit, StockSize
<1>6. ContentInv'
  BY <1>2, ContentFrame
<1>7. LocalInv'
  BY DEF LocalInv, TypeOK, StockSize
<1> QED
  BY <1>3, <1>4, <1>5, <1>6, <1>7

LEMMA UnlockPutInductive ==
  ASSUME IInv, NEW c \in Creators, UnlockPut(c)
  PROVE  IInv'
<1> USE DEF IInv, UnlockPut, CreatorStep, stock, ownerVars
<1>1. /\ CreatorIn({"store"})' <=> CreatorIn({"store"})
      /\ CreatorIn({"store", "signal"})' <=> CreatorIn({"store", "signal"})
      /\ CreatorIn({"tail", "store", "signal"})' <=> CreatorIn({"tail", "store", "signal"})
  BY DEF CreatorIn, TypeOK
<1>2. Stocked' = Stocked
  BY <1>1 DEF Stocked, Bit
<1>3. TypeOK'
  BY BufferAssumption DEF TypeOK
<1>4. MutexInv'
  BY BufferAssumption DEF MutexInv, TypeOK
<1>5. SemInv'
  BY <1>1 DEF SemInv, Bit, StockSize
<1>6. ContentInv'
  BY <1>2, ContentFrame
<1>7. LocalInv'
  BY DEF LocalInv, TypeOK, StockSize
<1> QED
  BY <1>3, <1>4, <1>5, <1>6, <1>7

LEMMA CheckQuitInductive ==
  ASSUME IInv, NEW c \in Creators, CheckQuit(c)
  PROVE  IInv'
<1> USE DEF IInv, CheckQuit, CreatorStep, stock, ownerVars
<1>1. /\ CreatorIn({"store"})' <=> CreatorIn({"store"})
      /\ CreatorIn({"store", "signal"})' <=> CreatorIn({"store", "signal"})
      /\ CreatorIn({"tail", "store", "signal"})' <=> CreatorIn({"tail", "store", "signal"})
  BY DEF CreatorIn, TypeOK
<1>2. Stocked' = Stocked
  BY <1>1 DEF Stocked, Bit
<1>3. TypeOK'
  BY BufferAssumption DEF TypeOK
<1>4. MutexInv'
  BY BufferAssumption DEF MutexInv, TypeOK
<1>5. SemInv'
  BY <1>1 DEF SemInv, Bit, StockSize
<1>6. ContentInv'
  BY <1>2, ContentFrame
<1>7. LocalInv'
  BY DEF LocalInv, TypeOK, StockSize
<1> QED
  BY <1>3, <1>4, <1>5, <1>6, <1>7

LEMMA PutWaitInductive ==
  ASSUME IInv, NEW c \in Creators, PutWait(c)
  PROVE  IInv'
<1> USE DEF IInv, PutWait, CreatorStep, stock, ownerVars
<1>1. /\ cpc[c] \in {"put", "tail", "store", "signal"} /\ mutex = c
      /\ \A d \in Creators : d # c => cpc'[d] = cpc[d] /\ cpc[d] \notin {"tail", "store", "signal"}
  BY DEF MutexInv, TypeOK
<1>2. /\ ~CreatorIn({"store"})
      /\ ~CreatorIn({"store", "signal"})
      /\ ~CreatorIn({"tail", "store", "signal"})
      /\ ~CreatorIn({"store"})'
      /\ ~CreatorIn({"store", "signal"})'
      /\ CreatorIn({"tail", "store", "signal"})'
  BY <1>1 DEF CreatorIn, TypeOK
<1>3. Stocked' = Stocked
  BY <1>2 DEF Stocked, Bit, TypeOK
<1>4. SemInv'
  BY <1>2 DEF SemInv, Bit, StockSize, TypeOK
<1>5. TypeOK'
  BY StockSizeType DEF TypeOK
<1>6. MutexInv'
  BY <1>1 DEF MutexInv, TypeOK
<1>7. ContentInv'
  BY <1>3, ContentFrame
<1>8. LocalInv'
  BY <1>1, StockSizeType DEF LocalInv, TypeOK, StockSize
<1> QED
  BY <1>4, <1>5, <1>6, <1>7, <1>8

LEMMA PutTailInductive ==
  ASSUME IInv, NEW c \in Creators, PutTail(c)
  PROVE  IInv'
<1> USE DEF IInv, PutTail, CreatorStep, stock, ownerVars
<1>1. /\ cpc[c] \in {"put", "tail", "store", "signal"} /\ mutex = c
      /\ \A d \in Creators : d # c => cpc'[d] = cpc[d] /\ cpc[d] \notin {"tail", "store", "signal"}
  BY DEF MutexInv, TypeOK
<1>2. /\ ~CreatorIn({"store"})
      /\ ~CreatorIn({"store", "signal"})
      /\ CreatorIn({"tail", "store", "signal"})
      /\ CreatorIn({"store"})'
      /\ CreatorIn({"store", "signal"})'
      /\ CreatorIn({"tail", "store", "signal"})'
  BY <1>1 DEF CreatorIn, TypeOK
<1>3. Stocked' = Stocked
  BY <1>2 DEF Stocked, Bit, TypeOK
<1>4. SemInv'
  BY <1>2 DEF SemInv, Bit, StockSize, TypeOK
<1>5. TypeOK'
  <2>1. tail % StockSize \in 0..(StockSize - 1)
    BY StockSizeType, DivMod DEF TypeOK
  <2> QED
    BY <2>1 DEF TypeOK
<1>6. MutexInv'
  BY <1>1 DEF MutexInv, TypeOK
<1>7. ContentInv'
  BY <1>3, ContentFrame
<1>8. LocalInv'
  BY <1>1, StockSizeType DEF LocalInv, TypeOK, StockSize
<1> QED
  BY <1>4, <1>5, <1>6, <1>7, <1>8

LEMMA PutStoreInductive ==
  ASSUME IInv, NEW c \in Creators, PutStore(c)
  PROVE  IInv'
<1> USE DEF IInv, PutStore, CreatorStep, stock, ownerVars
<1>1. /\ cpc[c] \in {"put", "tail", "store", "signal"} /\ mutex = c
      /\ \A d \in Creators : d # c => cpc'[d] = cpc[d] /\ cpc[d] \notin {"tail", "store", "signal"}
  BY DEF MutexInv, TypeOK
<1>2. /\ CreatorIn({"store"})
      /\ CreatorIn({"store", "signal"})
      /\ CreatorIn({"tail", "store", "signal"})
      /\ ~CreatorIn({"store"})'
      /\ CreatorIn({"store", "signal"})'
      /\ CreatorIn({"tail", "store", "signal"})'
  BY <1>1 DEF CreatorIn, TypeOK
<1>3. Stocked' = Stocked \cup {tail - 1}
  <2>1. tail - 1 \in (head - Bit(opc = "move"))..(tail - 1)
    BY StoreSlot
  <2> QED
    BY <1>2, <2>1 DEF Stocked, Bit, TypeOK
<1>4. SemInv'
  BY <1>2 DEF SemInv, Bit, StockSize, TypeOK
<1>5. TypeOK'
  BY <1>2, StockSizeType, DivMod, BufferAssumption DEF TypeOK, SemInv, Bit
<1>6. MutexInv'
  BY <1>1 DEF MutexInv, TypeOK
<1>7. ContentInv'
  <2>1. /\ offset[c] = (tail - 1) % StockSize
        /\ offset[c] \in DOMAIN buffer
        /\ buffer' = [buffer EXCEPT ![offset[c]] = Buffer]
    BY StoreSlot DEF LocalInv, TypeOK
  <2>2. ASSUME NEW p \in Stocked
        PROVE  /\ p % StockSize \in DOMAIN buffer
               /\ p % StockSize # offset[c]
               /\ buffer[p % StockSize] = Buffer
    <3>1. p % StockSize \in DOMAIN buffer
      BY <2>2, StoreSlot, StockSizeType, DivMod DEF TypeOK
    <3>2. buffer[p % StockSize] = Buffer /\ buffer[offset[c]] = Null
      BY <2>2, StoreSlot DEF ContentInv
    <3> QED
      BY <3>1, <3>2, BufferAssumption
  <2>3. ASSUME NEW p \in Stocked' PROVE buffer'[p % StockSize] = Buffer
    BY <1>3, <2>1, <2>2, <2>3 DEF TypeOK
  <2>4. ASSUME NEW k \in DOMAIN buffer', \A p \in Stocked' : p % StockSize # k
        PROVE  buffer'[k] = Null
    BY <1>3, <2>1, <2>4 DEF ContentInv, TypeOK
  <2> QED
    BY <2>3, <2>4 DEF ContentInv, StockSize
<1>8. LocalInv'
  BY <1>1, StockSizeType DEF LocalInv, TypeOK, StockSize
<1> QED
  BY <1>4, <1>5, <1>6, <1>7, <1>8

LEMMA PutSignalInductive ==
  ASSUME IInv, NEW c \in Creators, PutSignal(c)
  PROVE  IInv'
<1> USE DEF IInv, PutSignal, CreatorStep, stock, ownerVars
<1>1. /\ cpc[c] \in {"put", "tail", "store", "signal"} /\ mutex = c
      /\ \A d \in Creators : d # c => cpc'[d] = cpc[d] /\ cpc[d] \notin {"tail", "store", "signal"}
  BY DEF MutexInv, TypeOK
<1>2. /\ ~CreatorIn({"store"})
      /\ CreatorIn({"store", "signal"})
      /\ CreatorIn({"tail", "store", "signal"})
      /\ ~CreatorIn({"store"})'
      /\ ~CreatorIn({"store", "signal"})'
      /\ ~CreatorIn({"tail", "store", "signal"})'
  BY <1>1 DEF CreatorIn, TypeOK
<1>3. Stocked' = Stocked
  BY <1>2 DEF Stocked, Bit, TypeOK
<1>4. SemInv'
  BY <1>2 DEF SemInv, Bit, StockSize, TypeOK
<1>5. TypeOK'
  <2>1. semGet' \in 0..StockSize
    BY <1>2, StockSizeType DEF TypeOK, SemInv, Bit
  <2> QED
    BY <2>1 DEF TypeOK
<1>6. MutexInv'
  BY <1>1 DEF MutexInv, TypeOK
<1>7. ContentInv'
  BY <1>3, ContentFrame
<1>8. LocalInv'
  BY <1>1, StockSizeType DEF LocalInv, TypeOK, StockSize
<1> QED
  BY <1>4, <1>5, <1>6, <1>7, <1>8

----------------------------------------------------------------------------
(* The steps of the owner *)

LEMMA OwnerFrame ==
  ASSUME cpc' = cpc
  PROVE  /\ CreatorIn({"store"})' <=> CreatorIn({"store"})
         /\ CreatorIn({"store", "signal"})' <=> CreatorIn({"store", "signal"})
         /\ CreatorIn({"tail", "store", "signal"})' <=> CreatorIn({"tail", "store", "signal"})
  BY DEF CreatorIn

LEMMA TryGetInductive ==
  ASSUME IInv, TryGet
  PROVE  IInv'
<1> USE DEF IInv, TryGet, OwnerStep, stock, creatorVars
<1>1. /\ CreatorIn({"store"})' <=> CreatorIn({"store"})
      /\ CreatorIn({"store", "signal"})' <=> CreatorIn({"store", "signal"})
      /\ CreatorIn({"tail", "store", "signal"})' <=> CreatorIn({"tail", "store", "signal"})
  BY OwnerFrame
<1>2. Stocked' = Stocked
  BY <1>1 DEF Stocked, Bit
<1>3. TypeOK'
  BY StockSizeType DEF TypeOK
<1>4. MutexInv'
  BY DEF MutexInv
<1>5. SemInv'
  BY <1>1 DEF SemInv, Bit, StockSize, TypeOK
<1>6. ContentInv'
  BY <1>2, ContentFrame
<1>7. LocalInv'
  BY StockSizeType DEF LocalInv, TypeOK, StockSize
<1> QED
  BY <1>3, <1>4, <1>5, <1>6, <1>7

LEMMA DestroyInductive ==
  ASSUME IInv, Destroy
  PROVE  IInv'
<1> USE DEF IInv, Destroy, OwnerStep, stock, creatorVars
<1>1. /\ CreatorIn({"store"})' <=> CreatorIn({"store"})
      /\ CreatorIn({"store", "signal"})' <=> CreatorIn({"store", "signal"})
      /\ CreatorIn({"tail", "store", "signal"})' <=> CreatorIn({"tail", "store", "signal"})
  BY OwnerFrame
<1>2. Stocked' = Stocked
  BY <1>1 DEF Stocked, Bit
<1>3. TypeOK'
  BY DEF TypeOK
<1>4. MutexInv'
  BY DEF MutexInv
<1>5. SemInv'
  BY <1>1 DEF SemInv, Bit, StockSize, TypeOK
<1>6. ContentInv'
  BY <1>2, ContentFrame
<1>7. LocalInv'
  BY StockSizeType DEF LocalInv, TypeOK, StockSize
<1> QED
  BY <1>3, <1>4, <1>5, <1>6, <1>7

LEMMA SetQuitInductive ==
  ASSUME IInv, SetQuit
  PROVE  IInv'
<1> USE DEF IInv, SetQuit, OwnerStep, stock, creatorVars
<1>1. /\ CreatorIn({"store"})' <=> CreatorIn({"store"})
      /\ CreatorIn({"store", "signal"})' <=> CreatorIn({"store", "signal"})
      /\ CreatorIn({"tail", "store", "signal"})' <=> CreatorIn({"tail", "store", "signal"})
  BY OwnerFrame
<1>2. Stocked' = Stocked
  BY <1>1 DEF Stocked, Bit
<1>3. TypeOK'
  BY CreatorsFinite DEF TypeOK
<1>4. MutexInv'
  BY DEF MutexInv
<1>5. SemInv'
  BY <1>1 DEF SemInv, Bit, StockSize, TypeOK
<1>6. ContentInv'
  BY <1>2, ContentFrame
<1>7. LocalInv'
  BY StockSizeType DEF LocalInv, TypeOK, StockSize
<1> QED
  BY <1>3, <1>4, <1>5, <1>6, <1>7

LEMMA GetInductive ==
  ASSUME IInv, Get
  PROVE  IInv'
<1> USE DEF IInv, Get, OwnerStep, stock, creatorVars
<1>1. /\ CreatorIn({"store"})' <=> CreatorIn({"store"})
      /\ CreatorIn({"store", "signal"})' <=> CreatorIn({"store", "signal"})
      /\ CreatorIn({"tail", "store", "signal"})' <=> CreatorIn({"tail", "store", "signal"})
  BY OwnerFrame
<1>2. Stocked' = Stocked
  BY <1>1 DEF Stocked, Bit
<1>3. TypeOK'
  BY StockSizeType, CreatorsFinite DEF TypeOK
<1>4. MutexInv'
  BY DEF MutexInv
<1>5. SemInv'
  BY <1>1 DEF SemInv, Bit, StockSize, TypeOK
<1>6. ContentInv'
  BY <1>2, ContentFrame
<1>7. LocalInv'
  BY StockSizeType DEF LocalInv, TypeOK, StockSize
<1> QED
  BY <1>3, <1>4, <1>5, <1>6, <1>7

LEMMA JoinInductive ==
  ASSUME IInv, Join
  PROVE  IInv'
<1> USE DEF IInv, Join, OwnerStep, stock, creatorVars
<1>1. /\ CreatorIn({"store"})' <=> CreatorIn({"store"})
      /\ CreatorIn({"store", "signal"})' <=> CreatorIn({"store", "signal"})
      /\ CreatorIn({"tail", "store", "signal"})' <=> CreatorIn({"tail", "store", "signal"})
  BY OwnerFrame
<1>2. Stocked' = Stocked
  BY <1>1 DEF Stocked, Bit
<1>3. TypeOK'
  BY DEF TypeOK
<1>4. MutexInv'
  BY DEF MutexInv
<1>5. SemInv'
  BY <1>1 DEF SemInv, Bit, StockSize, TypeOK
<1>6. ContentInv'
  BY <1>2, ContentFrame
<1>7. LocalInv'
  BY StockSizeType DEF LocalInv, TypeOK, StockSize
<1> QED
  BY <1>3, <1>4, <1>5, <1>6, <1>7

LEMMA GetHeadInductive ==
  ASSUME IInv, GetHead
  PROVE  IInv'
<1> USE DEF IInv, GetHead, OwnerStep, stock, creatorVars
<1>1. /\ CreatorIn({"store"})' <=> CreatorIn({"store"})
      /\ CreatorIn({"store", "signal"})' <=> CreatorIn({"store", "signal"})
      /\ CreatorIn({"tail", "store", "signal"})' <=> CreatorIn({"tail", "store", "signal"})
  BY OwnerFrame
<1>2. Stocked' = Stocked
  BY <1>1 DEF Stocked, Bit, TypeOK
<1>3. TypeOK'
  <2>1. head % StockSize \in 0..(StockSize - 1)
    BY StockSizeType, DivMod DEF TypeOK
  <2> QED
    BY <2>1 DEF TypeOK
<1>4. MutexInv'
  BY DEF MutexInv
<1>5. SemInv'
  BY <1>1 DEF SemInv, Bit, StockSize, TypeOK
<1>6. ContentInv'
  BY <1>2, ContentFrame
<1>7. LocalInv'
  BY StockSizeType DEF LocalInv, TypeOK, StockSize
<1> QED
  BY <1>3, <1>4, <1>5, <1>6, <1>7

LEMMA GetMoveInductive ==
  ASSUME IInv, GetMove
  PROVE  IInv'
<1> USE DEF IInv, GetMove, OwnerStep, stock, creatorVars
<1>1. /\ CreatorIn({"store"})' <=> CreatorIn({"store"})
      /\ CreatorIn({"store", "signal"})' <=> CreatorIn({"store", "signal"})
      /\ CreatorIn({"tail", "store", "signal"})' <=> CreatorIn({"tail", "store", "signal"})
  BY OwnerFrame
<1>2. Stocked = Stocked' \cup {head - 1} /\ head - 1 \notin Stocked'
  <2>1. head - 1 \in Stocked
    BY MoveSlot
  <2> QED
    BY <1>1, <2>1 DEF Stocked, Bit, TypeOK
<1>3. TypeOK'
  <2>1. buffer[slot] \in {Buffer, Null}
    BY DEF TypeOK
  <2> QED
    BY <2>1 DEF TypeOK
<1>4. MutexInv'
  BY DEF MutexInv
<1>5. SemInv'
  BY <1>1 DEF SemInv, Bit, StockSize, TypeOK
<1>6. ContentInv'
  <2>1. slot = (head - 1) % StockSize /\ slot \in DOMAIN buffer
    BY MoveSlot DEF TypeOK
  <2>2. ASSUME NEW p \in Stocked'
        PROVE  p % StockSize # slot /\ buffer'[p % StockSize] = Buffer
    <3>1. p \in Stocked /\ p # head - 1
      BY <1>2
    <3>2. /\ p \in (head - Bit(opc = "move"))..(tail - 1)
          /\ head - 1 \in (head - Bit(opc = "move"))..(tail - 1)
      BY <1>2, <3>1 DEF Stocked, Bit, TypeOK
    <3>3. p \in Nat /\ p % StockSize # slot
      BY <2>1, <3>1, <3>2, SlotsDiffer
    <3>4. p % StockSize \in DOMAIN buffer
      BY <3>3, StockSizeType, DivMod DEF TypeOK
    <3>5. buffer[p % StockSize] = Buffer
      BY <3>1 DEF ContentInv
    <3> QED
      BY <3>3, <3>4, <3>5 DEF TypeOK
  <2>3. ASSUME NEW k \in DOMAIN buffer', \A p \in Stocked' : p % StockSize # k
        PROVE  buffer'[k] = Null
    BY <1>2, <2>1, <2>3 DEF ContentInv, TypeOK
  <2> QED
    BY <2>2, <2>3 DEF ContentInv, StockSize
<1>7. LocalInv'
  <2>1. out' = Buffer
    BY MoveSlot
  <2> QED
    BY <2>1 DEF LocalInv, TypeOK, StockSize
<1> QED
  BY <1>3, <1>4, <1>5, <1>6, <1>7

LEMMA GetReleaseInductive ==
  ASSUME IInv, GetRelease
  PROVE  IInv'
<1> USE DEF IInv, GetRelease, OwnerStep, stock, creatorVars
<1>1. /\ CreatorIn({"store"})' <=> CreatorIn({"store"})
      /\ CreatorIn({"store", "signal"})' <=> CreatorIn({"store", "signal"})
      /\ CreatorIn({"tail", "store", "signal"})' <=> CreatorIn({"tail", "store", "signal"})
  BY OwnerFrame
<1>2. Stocked' = Stocked
  BY <1>1 DEF Stocked, Bit
<1>3. SemInv'
  <2>1. opc' \notin {"head", "move", "release"} /\ semPut' = semPut + 1
    OBVIOUS
  <2>2. UNCHANGED <<StockSize, semGet, head, tail>>
    BY DEF StockSize
  <2> QED
    BY <1>1, <2>1, <2>2 DEF SemInv, Bit, TypeOK
<1>4. TypeOK'
  <2>1. semPut + 1 <= StockSize
    BY StockSizeType DEF TypeOK, SemInv, Bit
  <2> QED
    BY <2>1, StockSizeType DEF TypeOK
<1>5. MutexInv'
  BY DEF MutexInv
<1>6. ContentInv'
  BY <1>2, ContentFrame
<1>7. LocalInv'
  BY DEF LocalInv, StockSize
<1> QED
  BY <1>3, <1>4, <1>5, <1>6, <1>7

----------------------------------------------------------------------------
(* The theorems *)

LEMMA InitIInv == Init => IInv
<1> SUFFICES ASSUME Init PROVE IInv
  OBVIOUS
<1> USE DEF Init
<1>1. TypeOK
  <2>1. StockSize \in 0..StockSize /\ 0 \in 0..(StockSize - 1) /\ 0 \in 0..StockSize
    BY StockSizeType
  <2>2. 0 \in 0..Cardinality(Creators)
    BY CreatorsFinite
  <2> QED
    BY <2>1, <2>2 DEF TypeOK
<1>2. MutexInv
  BY BufferAssumption DEF MutexInv
<1>3. \A S : CreatorIn(S) => "make" \in S
  BY DEF CreatorIn
<1>4. SemInv
  BY <1>3, StockSizeType DEF SemInv, Bit
<1>5. ContentInv
  BY <1>3 DEF ContentInv, Stocked, Bit
<1>6. LocalInv
  BY DEF LocalInv
<1> QED
  BY <1>1, <1>2, <1>4, <1>5, <1>6 DEF IInv

LEMMA NextIInv == IInv /\ [Next]_vars => IInv'
<1> SUFFICES ASSUME IInv, [Next]_vars PROVE IInv'
  OBVIOUS
<1>1. ASSUME NEW c \in Creators, Create(c) PROVE IInv'
  BY <1>1, MakeBufferInductive, LockPutInductive, PutWaitInductive, PutTailInductive,
     PutStoreInductive, PutSignalInductive, UnlockPutInductive, CheckQuitInductive
     DEF Create, Put
<1>2. CASE TryGet \/ Destroy \/ Finish
  BY <1>2, TryGetInductive, DestroyInductive, SetQuitInductive, GetInductive,
     JoinInductive, GetHeadInductive, GetMoveInductive, GetReleaseInductive DEF Finish
<1>3. CASE UNCHANGED vars
  <2> USE <1>3 DEF IInv, vars, stock, creatorVars, ownerVars
  <2>1. /\ CreatorIn({"store"})' <=> CreatorIn({"store"})
        /\ CreatorIn({"store", "signal"})' <=> CreatorIn({"store", "signal"})
        /\ CreatorIn({"tail", "store", "signal"})' <=> CreatorIn({"tail", "store", "signal"})
    BY OwnerFrame
  <2>2. Stocked' = Stocked
    BY <2>1 DEF Stocked, Bit
  <2>3. TypeOK' /\ MutexInv' /\ LocalInv'
    BY DEF TypeOK, MutexInv, LocalInv, StockSize
  <2>4. SemInv'
    BY <2>1 DEF SemInv, Bit, StockSize
  <2>5. ContentInv'
    BY <2>2, ContentFrame
  <2> QED
    BY <2>3, <2>4, <2>5
<1> QED
  BY <1>1, <1>2, <1>3 DEF Next

\* Put, TryGet, Get and the destructor keep the inductive invariant: one creator
\* at a time is inside Put, the semaphores count positions and slots, and the
\* slots of the stocked positions, and no others, hold a buffer.
THEOREM StockInductive == Spec => []IInv
  BY InitIInv, NextIInv, PTL DEF Spec

\* For every number of creators and every size of the stock, whoever takes a
\* buffer out of the stock, Wait or the destructor, gets one and not null.
THEOREM TakenNeverNull == Spec => []NeverNull
<1>1. IInv => NeverNull
  BY BufferAssumption DEF IInv, LocalInv, NeverNull
<1> QED
  BY <1>1, StockInductive, PTL

\* For every number of creators and every size of the stock, Put stores into an
\* empty slot: it never destroys a buffer that nobody took.
THEOREM StockedNotOverwritten == Spec => []NoOverwrite
<1>1. IInv => NoOverwrite
  BY StoreSlot DEF NoOverwrite
<1> QED
  BY <1>1, StockInductive, PTL
=============================================================================
