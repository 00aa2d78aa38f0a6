------------------------ MODULE ActionLifetimeProof ------------------------
(***************************************************************************)
(* Proofs about ActionLifetime for every number of envs, workers and sends.*)
(*                                                                         *)
(* IInv is inductive (one lemma per action).  An env is in one place at a  *)
(* time, so the worker that steps it and the Send that gives it its next   *)
(* action exclude each other; the array a step reads is therefore still    *)
(* the one its env holds, and no array that is held is given back.         *)
(***************************************************************************)
EXTENDS ActionLifetime, FiniteSetTheorems, SequenceTheorems, TLAPS

----------------------------------------------------------------------------
(* Sequences of slices *)

\* A set is listed without repetition.
LEMMA Listing ==
  ASSUME NEW S, IsFiniteSet(S)
  PROVE  /\ Cardinality(S) \in Nat
         /\ SetToSeq(S) \in [1..Cardinality(S) -> S]
         /\ \A j, k \in 1..Cardinality(S) : SetToSeq(S)[j] = SetToSeq(S)[k] => j = k
<1> DEFINE n == Cardinality(S)
<1>1. n \in Nat
  BY FS_CardinalityType
<1>2. PICK m \in Nat : ExistsBijection(1..m, S)
  BY FS_NatBijection
<1>3. m = n
  BY <1>2, FS_CountingElements
<1>4. \E f \in [1..n -> S] : IsInjective(f)
  BY <1>2, <1>3 DEF ExistsBijection, Bijection, Injection, IsInjective
<1>5. SetToSeq(S) \in [1..n -> S] /\ IsInjective(SetToSeq(S))
  BY <1>4 DEF SetToSeq
<1> QED
  BY <1>1, <1>5 DEF IsInjective

\* The slices a call enqueues for the envs S.
SlicesFor(S, b) == SetToSeq({[env |-> e, forceReset |-> b] : e \in S})

LEMMA SlicesForType ==
  ASSUME NEW S \in SUBSET Envs, NEW b \in BOOLEAN
  PROVE  /\ SlicesFor(S, b) \in Seq(SliceType)
         /\ \A k \in DOMAIN SlicesFor(S, b) : SlicesFor(S, b)[k].env \in S
         /\ \A j, k \in DOMAIN SlicesFor(S, b) :
              SlicesFor(S, b)[j].env = SlicesFor(S, b)[k].env => j = k
<1> DEFINE T == {[env |-> e, forceReset |-> b] : e \in S}
           n == Cardinality(T)
           q == SlicesFor(S, b)
<1>1. IsFiniteSet(S)
  BY ConstantsAssumption, FS_Subset
<1>2. IsFiniteSet(T)
  <2> DEFINE f == [e \in S |-> [env |-> e, forceReset |-> b]]
  <2>1. f \in Surjection(S, T)
    BY DEF Surjection
  <2> QED
    BY <1>1, <2>1, FS_Surjection DEF ExistsSurjection
<1>3. n \in Nat /\ q \in [1..n -> T] /\ \A j, k \in 1..n : q[j] = q[k] => j = k
  BY <1>2, Listing DEF SlicesFor
<1>4. T \subseteq SliceType
  BY DEF SliceType
<1>5. q \in [1..n -> SliceType]
  BY <1>3, <1>4
<1>6. \A t \in T : t.env \in S /\ t = [env |-> t.env, forceReset |-> b]
  OBVIOUS
<1> HIDE DEF T, n, q
<1>7. q \in Seq(SliceType) /\ DOMAIN q = 1..n
  BY <1>3, <1>5
<1> QED
  BY <1>3, <1>6, <1>7 DEF q

LEMMA Appended ==
  ASSUME NEW q \in Seq(SliceType), NEW r \in Seq(SliceType)
  PROVE  /\ q \o r \in Seq(SliceType)
         /\ \A k \in DOMAIN q : k \in DOMAIN (q \o r) /\ (q \o r)[k] = q[k]
         /\ \A k \in DOMAIN (q \o r) :
              \/ k \in DOMAIN q
              \/ k - Len(q) \in DOMAIN r /\ (q \o r)[k] = r[k - Len(q)] /\ k \in Int /\ Len(q) \in Int
<1>1. /\ q \o r \in Seq(SliceType) /\ Len(q \o r) = Len(q) + Len(r)
      /\ \A k \in 1..(Len(q) + Len(r)) : (q \o r)[k] = IF k <= Len(q) THEN q[k] ELSE r[k - Len(q)]
  BY ConcatProperties
<1>2. /\ Len(q) \in Nat /\ Len(r) \in Nat /\ DOMAIN q = 1..Len(q) /\ DOMAIN r = 1..Len(r)
      /\ DOMAIN (q \o r) = 1..(Len(q) + Len(r))
  BY <1>1, LenProperties
<1>3. ASSUME NEW k \in DOMAIN q PROVE k \in DOMAIN (q \o r) /\ (q \o r)[k] = q[k]
  <2>1. k \in 1..(Len(q) + Len(r)) /\ k <= Len(q)
    BY ONLY <1>2, <1>3
  <2> QED
    BY <1>1, <1>2, <2>1
<1>4. ASSUME NEW k \in DOMAIN (q \o r), k \notin DOMAIN q
      PROVE  k - Len(q) \in DOMAIN r /\ (q \o r)[k] = r[k - Len(q)] /\ k \in Int /\ Len(q) \in Int
  <2>1. k \in 1..(Len(q) + Len(r)) /\ ~(k <= Len(q)) /\ k - Len(q) \in 1..Len(r)
    BY ONLY <1>2, <1>4
  <2> QED
    BY <1>1, <1>2, <2>1
<1> QED
  BY <1>1, <1>3, <1>4

\* Enqueueing envs that are not in the queue.
LEMMA EnqueueSlices ==
  ASSUME TypeOK, PlaceInv, NEW S \in SUBSET Envs, NEW b \in BOOLEAN, S \cap Queued = {},
         queue' = queue \o SlicesFor(S, b)
  PROVE  /\ queue' \in Seq(SliceType)
         /\ Queued' \subseteq Queued \cup S
         /\ \A j, k \in DOMAIN queue' :
              queue'[j].env # Nothing /\ queue'[j].env = queue'[k].env => j = k
         /\ \A k \in DOMAIN queue' :
              queue'[k].env = Nothing => \E j \in DOMAIN queue : queue[j].env = Nothing
<1> DEFINE r == SlicesFor(S, b)
           n == Len(queue)
<1>1. /\ r \in Seq(SliceType)
      /\ \A k \in DOMAIN r : r[k].env \in S
      /\ \A j, k \in DOMAIN r : r[j].env = r[k].env => j = k
  BY SlicesForType
<1> HIDE DEF r
<1>2. queue \in Seq(SliceType) /\ queue' = queue \o r
  BY DEF TypeOK, r
<1>3. /\ queue' \in Seq(SliceType)
      /\ \A k \in DOMAIN queue' :
           \/ k \in DOMAIN queue /\ queue'[k] = queue[k]
           \/ k - n \in DOMAIN r /\ queue'[k] = r[k - n] /\ k \in Int /\ n \in Int
  BY <1>1, <1>2, Appended
<1>4. \A k \in DOMAIN queue : queue[k].env \notin S
  BY ConstantsAssumption DEF Queued
<1>5. \A k \in DOMAIN queue' : queue'[k].env \in S \/ (k \in DOMAIN queue /\ queue'[k] = queue[k])
  BY <1>1, <1>3
<1>6. Nothing \notin S
  BY ConstantsAssumption
<1>7. Queued' \subseteq Queued \cup S
  BY <1>5 DEF Queued
<1>8. ASSUME NEW j \in DOMAIN queue', NEW k \in DOMAIN queue', queue'[j].env # Nothing,
             queue'[j].env = queue'[k].env
      PROVE  j = k
  <2>1. CASE queue'[j].env \in S
    <3>1. /\ j - n \in DOMAIN r /\ queue'[j] = r[j - n] /\ j \in Int
          /\ k - n \in DOMAIN r /\ queue'[k] = r[k - n] /\ k \in Int /\ n \in Int
      BY <1>3, <1>4, <1>8, <2>1
    <3>2. j - n = k - n
      BY <1>1, <1>8, <3>1
    <3> QED
      BY ONLY <3>1, <3>2
  <2>2. CASE queue'[j].env \notin S
    BY <1>5, <1>8, <2>2 DEF PlaceInv
  <2> QED
    BY <2>1, <2>2
<1>9. \A k \in DOMAIN queue' :
        queue'[k].env = Nothing => \E j \in DOMAIN queue : queue[j].env = Nothing
  BY <1>5, <1>6
<1> QED
  BY <1>3, <1>7, <1>8, <1>9

----------------------------------------------------------------------------
(* Parts of the invariant that a step leaves alone *)

LEMMA WhereFrame ==
  ASSUME UNCHANGED <<queue, at, env>>
  PROVE  Queued' = Queued /\ Worked' = Worked /\ Busy' = Busy
BY DEF Queued, Worked, Busy

LEMMA WorkFrame ==
  ASSUME UNCHANGED <<at, env>>
  PROVE  Worked' = Worked /\ Busy' = Busy
BY DEF Worked, Busy

----------------------------------------------------------------------------
(* The thread that drives the pool *)

LEMMA InitIInv == Init => IInv
<1> SUFFICES ASSUME Init PROVE IInv
  OBVIOUS
<1> USE DEF Init
<1> DEFINE r == SlicesFor(Envs, TRUE)
<1>1. /\ r \in Seq(SliceType)
      /\ \A k \in DOMAIN r : r[k].env \in Envs
      /\ \A j, k \in DOMAIN r : r[j].env = r[k].env => j = k
  BY SlicesForType
<1>2. queue = r
  BY DEF SlicesFor
<1> HIDE DEF r
<1>3. TypeOK
  BY <1>1, <1>2 DEF TypeOK, Arrays
<1>4. Busy = {} /\ Worked = {}
  BY DEF Busy, Worked
<1>5. PlaceInv
  BY <1>1, <1>2, <1>4 DEF PlaceInv
<1>6. StopInv
  BY <1>1, <1>2, ConstantsAssumption DEF StopInv
<1>7. ArrayInv
  BY DEF ArrayInv
<1> QED
  BY <1>3, <1>5, <1>6, <1>7 DEF IInv

LEMMA SendBeginInductive ==
  ASSUME IInv, NEW S \in SUBSET Envs, SendBegin(S)
  PROVE  IInv'
<1> USE DEF SendBegin, workerVars
<1>1. TypeOK /\ PlaceInv /\ StopInv /\ ArrayInv
  BY DEF IInv
<1>2. Queued' = Queued /\ Worked' = Worked /\ Busy' = Busy
  BY WhereFrame
<1>3. sends \in Nat /\ sends' = sends + 1 /\ Arrays \subseteq Arrays' /\ 1..sends \subseteq 1..sends'
      /\ sends + 1 \in Arrays' /\ sends + 1 \notin 1..sends
  BY <1>1 DEF TypeOK, Arrays
<1>4. TypeOK'
  <2>1. actionBatch' \in [Envs -> Arrays'] /\ raw' \in [Workers -> Arrays']
    BY <1>1, <1>3 DEF TypeOK
  <2>2. asked' \in [Envs -> Arrays']
    BY <1>1, <1>3 DEF TypeOK
  <2>3. freed' \subseteq 1..sends' /\ sends' \in Nat /\ arr' \in Arrays'
    BY <1>1, <1>3 DEF TypeOK
  <2> QED
    BY <1>1, <2>1, <2>2, <2>3 DEF TypeOK, SliceType
<1>5. PlaceInv'
  BY <1>1, <1>2 DEF PlaceInv
<1>6. StopInv'
  BY <1>1 DEF StopInv
<1>7. ArrayInv'
  <2>1. \A a \in freed' : a # arr' /\ \A e \in Envs : actionBatch'[e] # a
    BY <1>1, <1>3 DEF ArrayInv, TypeOK
  <2>2. toSet = {}
    BY <1>1 DEF ArrayInv
  <2>3. /\ \A e \in toSet' : asked'[e] = arr'
        /\ \A e \in Envs \ toSet' : actionBatch'[e] = asked'[e]
    BY <1>1, <2>2 DEF ArrayInv
  <2>4. \A w \in Workers : raw'[w] # Nothing => at'[w] = "step" /\ raw'[w] = actionBatch'[env'[w]]
    BY <1>1 DEF ArrayInv
  <2> QED
    BY <2>1, <2>3, <2>4 DEF ArrayInv
<1> QED
  BY <1>4, <1>5, <1>6, <1>7 DEF IInv

LEMMA SetActionInductive ==
  ASSUME IInv, NEW e \in Envs, SetAction(e)
  PROVE  IInv'
<1> USE DEF SetAction, workerVars
<1>1. TypeOK /\ PlaceInv /\ StopInv /\ ArrayInv
  BY DEF IInv
<1>2. Queued' = Queued /\ Worked' = Worked /\ Busy' = Busy /\ Arrays' = Arrays
  BY WhereFrame DEF Arrays
<1>3. main' \in {"setAction", "drop"}
  OBVIOUS
<1>4. TypeOK'
  <2>1. actionBatch' \in [Envs -> Arrays]
    BY <1>1 DEF TypeOK
  <2> QED
    BY <1>1, <1>2, <1>3, <2>1 DEF TypeOK, SliceType
<1>5. PlaceInv'
  BY <1>1, <1>2 DEF PlaceInv
<1>6. StopInv'
  BY <1>1, <1>3 DEF StopInv
<1>7. ArrayInv'
  <2>1. /\ actionBatch'[e] = arr
        /\ \A f \in Envs \ {e} : actionBatch'[f] = actionBatch[f]
    BY <1>1 DEF TypeOK
  <2>2. \A a \in freed' : a # arr' /\ \A f \in Envs : actionBatch'[f] # a
    BY <1>1, <2>1 DEF ArrayInv
  <2>3. \A f \in toSet' : asked'[f] = arr'
    BY <1>1 DEF ArrayInv
  <2>4. \A f \in Envs \ toSet' : actionBatch'[f] = asked'[f]
    BY <1>1, <2>1 DEF ArrayInv
  <2>5. ASSUME NEW w \in Workers, raw[w] # Nothing
        PROVE  at[w] = "step" /\ raw[w] = actionBatch'[env[w]]
    <3>1. at[w] = "step" /\ raw[w] = actionBatch[env[w]] /\ w \in Busy /\ env[w] \in Worked
      BY <1>1, <2>5 DEF ArrayInv, Busy, Worked
    <3>2. env[w] \in Envs \ {e}
      BY <1>1, <3>1 DEF TypeOK, PlaceInv
    <3> QED
      BY <2>1, <3>1, <3>2
  <2> QED
    BY <1>3, <2>2, <2>3, <2>4, <2>5 DEF ArrayInv
<1> QED
  BY <1>4, <1>5, <1>6, <1>7 DEF IInv

\* What nobody holds is given back, and nothing else.
LEMMA DropFrees ==
  ASSUME freed \subseteq 1..sends, NEW ofSend, NEW ofEnvs, Drop(ofSend, ofEnvs),
         \A a \in freed : a # ofSend /\ \A e \in Envs : ofEnvs[e] # a
  PROVE  /\ freed' \subseteq 1..sends
         /\ \A a \in freed' : a # ofSend /\ \A e \in Envs : ofEnvs[e] # a
         /\ \A a \in 1..sends : a # ofSend /\ (\A e \in Envs : ofEnvs[e] # a) => a \in freed'
BY DEF Drop, Held

LEMMA SendDropInductive ==
  ASSUME IInv, SendDrop
  PROVE  IInv'
<1> USE DEF SendDrop, workerVars
<1>1. TypeOK /\ PlaceInv /\ StopInv /\ ArrayInv
  BY DEF IInv
<1>2. Queued' = Queued /\ Worked' = Worked /\ Busy' = Busy /\ Arrays' = Arrays
  BY WhereFrame DEF Arrays
<1>3. /\ freed' \subseteq 1..sends
      /\ \A a \in freed' : a # arr /\ \A e \in Envs : actionBatch[e] # a
  BY <1>1, DropFrees DEF TypeOK, ArrayInv
<1>4. TypeOK'
  BY <1>1, <1>2, <1>3 DEF TypeOK, SliceType
<1>5. PlaceInv'
  BY <1>1, <1>2 DEF PlaceInv
<1>6. StopInv'
  BY <1>1 DEF StopInv
<1>7. ArrayInv'
  BY <1>1, <1>3 DEF ArrayInv
<1> QED
  BY <1>4, <1>5, <1>6, <1>7 DEF IInv

LEMMA EnqueueInductive ==
  ASSUME IInv, Enqueue
  PROVE  IInv'
<1> USE DEF Enqueue, workerVars
<1>1. TypeOK /\ PlaceInv /\ StopInv /\ ArrayInv
  BY DEF IInv
<1>2. Worked' = Worked /\ Busy' = Busy /\ Arrays' = Arrays
  BY WorkFrame DEF Arrays
<1>3. queue' = queue \o SlicesFor(sending, FALSE)
  BY DEF SlicesFor
<1>4. sending \in SUBSET Envs /\ sending \cap Queued = {}
  BY <1>1 DEF TypeOK, PlaceInv
<1>5. /\ queue' \in Seq(SliceType)
      /\ Queued' \subseteq Queued \cup sending
      /\ \A j, k \in DOMAIN queue' :
           queue'[j].env # Nothing /\ queue'[j].env = queue'[k].env => j = k
      /\ \A k \in DOMAIN queue' :
           queue'[k].env = Nothing => \E j \in DOMAIN queue : queue[j].env = Nothing
  BY <1>1, <1>3, <1>4, EnqueueSlices
<1>6. TypeOK'
  BY <1>1, <1>2, <1>5 DEF TypeOK, SliceType
<1>7. PlaceInv'
  BY <1>1, <1>2, <1>5 DEF PlaceInv
<1>8. StopInv'
  BY <1>1, <1>5 DEF StopInv
<1>9. ArrayInv'
  BY <1>1 DEF ArrayInv
<1> QED
  BY <1>6, <1>7, <1>8, <1>9 DEF IInv

LEMMA SendEndInductive ==
  ASSUME IInv, SendEnd
  PROVE  IInv'
<1> USE DEF SendEnd, workerVars
<1>1. TypeOK /\ PlaceInv /\ StopInv /\ ArrayInv
  BY DEF IInv
<1>2. Queued' = Queued /\ Worked' = Worked /\ Busy' = Busy /\ Arrays' = Arrays
  BY WhereFrame DEF Arrays
<1>3. \A a \in freed : a # Nothing /\ \A e \in Envs : actionBatch[e] # a
  BY <1>1, ConstantsAssumption DEF TypeOK, ArrayInv
<1>4. /\ freed' \subseteq 1..sends
      /\ \A a \in freed' : a # Nothing /\ \A e \in Envs : actionBatch[e] # a
  BY <1>1, <1>3, DropFrees DEF TypeOK
<1>5. TypeOK'
  BY <1>1, <1>2, <1>4 DEF TypeOK, SliceType, Arrays
<1>6. PlaceInv'
  BY <1>1, <1>2 DEF PlaceInv
<1>7. StopInv'
  BY <1>1 DEF StopInv
<1>8. ArrayInv'
  BY <1>1, <1>4 DEF ArrayInv
<1> QED
  BY <1>5, <1>6, <1>7, <1>8 DEF IInv

LEMMA ResetInductive ==
  ASSUME IInv, NEW S \in SUBSET Envs, Reset(S)
  PROVE  IInv'
<1> USE DEF Reset, workerVars
<1>1. TypeOK /\ PlaceInv /\ StopInv /\ ArrayInv
  BY DEF IInv
<1>2. Worked' = Worked /\ Busy' = Busy /\ Arrays' = Arrays
  BY WorkFrame DEF Arrays
<1>3. queue' = queue \o SlicesFor(S, TRUE) /\ S \subseteq idle
  BY DEF SlicesFor
<1>4. S \cap Queued = {}
  BY <1>1, <1>3 DEF PlaceInv
<1>5. /\ queue' \in Seq(SliceType)
      /\ Queued' \subseteq Queued \cup S
      /\ \A j, k \in DOMAIN queue' :
           queue'[j].env # Nothing /\ queue'[j].env = queue'[k].env => j = k
      /\ \A k \in DOMAIN queue' :
           queue'[k].env = Nothing => \E j \in DOMAIN queue : queue[j].env = Nothing
  BY <1>1, <1>3, <1>4, EnqueueSlices
<1>6. TypeOK'
  BY <1>1, <1>2, <1>5 DEF TypeOK, SliceType
<1>7. PlaceInv'
  BY <1>1, <1>2, <1>3, <1>5 DEF PlaceInv
<1>8. StopInv'
  BY <1>1, <1>5 DEF StopInv
<1>9. ArrayInv'
  BY <1>1 DEF ArrayInv
<1> QED
  BY <1>6, <1>7, <1>8, <1>9 DEF IInv

LEMMA RecvBeginInductive ==
  ASSUME IInv, RecvBegin
  PROVE  IInv'
<1> USE DEF RecvBegin, workerVars
<1>1. TypeOK /\ PlaceInv /\ StopInv /\ ArrayInv
  BY DEF IInv
<1>2. Queued' = Queued /\ Worked' = Worked /\ Busy' = Busy /\ Arrays' = Arrays
  BY WhereFrame DEF Arrays
<1>3. TypeOK'
  BY <1>1, <1>2 DEF TypeOK, SliceType, Arrays
<1>4. PlaceInv'
  BY <1>1, <1>2 DEF PlaceInv
<1>5. StopInv' /\ ArrayInv'
  BY <1>1 DEF StopInv, ArrayInv
<1> QED
  BY <1>3, <1>4, <1>5 DEF IInv

LEMMA RecvEndInductive ==
  ASSUME IInv, RecvEnd
  PROVE  IInv'
<1> USE DEF RecvEnd
<1>1. TypeOK /\ PlaceInv /\ StopInv /\ ArrayInv
  BY DEF IInv
<1>2. Queued' = Queued /\ Worked' = Worked /\ Busy' = Busy /\ Arrays' = Arrays
  BY WhereFrame DEF Arrays
<1>3. PICK e \in reported : reported' = reported \ {e} /\ idle' = idle \cup {e}
  OBVIOUS
<1>4. TypeOK'
  BY <1>1, <1>2, <1>3 DEF TypeOK, SliceType, Arrays
<1>5. PlaceInv'
  BY <1>1, <1>2, <1>3 DEF PlaceInv
<1>6. StopInv' /\ ArrayInv'
  BY <1>1 DEF StopInv, ArrayInv
<1> QED
  BY <1>4, <1>5, <1>6 DEF IInv

LEMMA DestroyInductive ==
  ASSUME IInv, Destroy
  PROVE  IInv'
<1> USE DEF Destroy, workerVars
<1> DEFINE r == [w \in 1..Cardinality(Workers) |-> [env |-> Nothing, forceReset |-> FALSE]]
<1>1. TypeOK /\ PlaceInv /\ StopInv /\ ArrayInv
  BY DEF IInv
<1>2. Worked' = Worked /\ Busy' = Busy /\ Arrays' = Arrays
  BY WorkFrame DEF Arrays
<1>3. r \in Seq(SliceType) /\ \A k \in DOMAIN r : r[k].env = Nothing
  <2>1. Cardinality(Workers) \in Nat
    BY ConstantsAssumption, FS_CardinalityType
  <2>2. r \in [1..Cardinality(Workers) -> SliceType]
    BY ONLY DEF SliceType
  <2>3. \A k \in DOMAIN r : r[k].env = Nothing
    OBVIOUS
  <2> HIDE DEF r
  <2>4. r \in Seq(SliceType)
    BY ONLY <2>1, <2>2
  <2> QED
    BY <2>3, <2>4
<1>4. queue \in Seq(SliceType) /\ queue' = queue \o r
  BY <1>1 DEF TypeOK
<1> HIDE DEF r
<1>5. /\ queue' \in Seq(SliceType)
      /\ \A k \in DOMAIN queue' :
           queue'[k].env # Nothing => k \in DOMAIN queue /\ queue'[k] = queue[k]
  <2>1. /\ queue' \in Seq(SliceType)
        /\ \A k \in DOMAIN queue : k \in DOMAIN queue' /\ queue'[k] = queue[k]
        /\ \A k \in DOMAIN queue' : \/ k \in DOMAIN queue
                                    \/ k - Len(queue) \in DOMAIN r /\ queue'[k] = r[k - Len(queue)]
    BY ONLY <1>3, <1>4, Appended
  <2> QED
    BY ONLY <1>3, <2>1
<1>6. Queued' \subseteq Queued
  BY <1>5 DEF Queued
<1>7. TypeOK'
  BY <1>1, <1>2, <1>5 DEF TypeOK, SliceType
<1>8. PlaceInv'
  <2>1. \A j, k \in DOMAIN queue' : queue'[j].env # Nothing /\ queue'[j].env = queue'[k].env => j = k
    BY ONLY <1>1, <1>5 DEF PlaceInv
  <2> QED
    BY <1>1, <1>2, <1>6, <2>1 DEF PlaceInv
<1>9. StopInv'
  BY DEF StopInv
<1>10. ArrayInv'
  BY <1>1 DEF ArrayInv
<1> QED
  BY <1>7, <1>8, <1>9, <1>10 DEF IInv

LEMMA JoinedInductive ==
  ASSUME IInv, Joined
  PROVE  IInv'
<1> USE DEF Joined, workerVars
<1>1. TypeOK /\ PlaceInv /\ StopInv /\ ArrayInv
  BY DEF IInv
<1>2. Queued' = Queued /\ Worked' = Worked /\ Busy' = Busy /\ Arrays' = Arrays
  BY WhereFrame DEF Arrays
<1>3. \A a \in 1..sends : a # Nothing
  BY <1>1, ConstantsAssumption DEF TypeOK
<1>4. \A a \in 1..sends : a # Nothing /\ \A e \in Envs : actionBatch'[e] # a
  BY <1>3
<1>5. freed' = 1..sends
  <2>1. freed \subseteq 1..sends
    BY <1>1 DEF TypeOK
  <2>2. freed' = freed \cup {a \in 1..sends : ~Held(a, Nothing, actionBatch')}
    BY DEF Drop
  <2> QED
    BY ONLY <1>4, <2>1, <2>2 DEF Held
<1>6. TypeOK'
  BY <1>1, <1>2, <1>5 DEF TypeOK, SliceType, Arrays
<1>7. PlaceInv'
  BY <1>1, <1>2 DEF PlaceInv
<1>8. StopInv'
  BY <1>1 DEF StopInv
<1>9. ArrayInv'
  <2>1. \A w \in Workers : raw'[w] = Nothing
    BY <1>1 DEF ArrayInv
  <2>2. toSet = {}
    BY <1>1 DEF ArrayInv
  <2>3. arr' = Nothing
    BY <1>1 DEF ArrayInv
  <2> QED
    BY <1>4, <1>5, <2>1, <2>2, <2>3 DEF ArrayInv
<1> QED
  BY <1>6, <1>7, <1>8, <1>9 DEF IInv

LEMMA SwitchInductive ==
  ASSUME IInv, Switch
  PROVE  IInv'
<1> USE DEF Switch, OtherTakes, OtherLeaves, workerVars
<1>1. TypeOK /\ PlaceInv /\ StopInv /\ ArrayInv
  BY DEF IInv
<1>2. Queued' = Queued /\ Worked' = Worked /\ Busy' = Busy /\ Arrays' = Arrays
  BY WhereFrame DEF Arrays
<1>3. TypeOK'
  BY <1>1, <1>2 DEF TypeOK, SliceType, Arrays
<1>4. PlaceInv'
  BY <1>1, <1>2 DEF PlaceInv
<1>5. StopInv' /\ ArrayInv'
  BY <1>1 DEF StopInv, ArrayInv
<1> QED
  BY <1>3, <1>4, <1>5 DEF IInv

----------------------------------------------------------------------------
(* A worker *)

\* What the rest of the queue holds when its first slice is taken.
LEMMA TakeSlice ==
  ASSUME TypeOK, PlaceInv, queue # <<>>, queue' = Tail(queue)
  PROVE  /\ Head(queue) \in SliceType /\ queue' \in Seq(SliceType)
         /\ 1 \in DOMAIN queue /\ Head(queue) = queue[1]
         /\ \A k \in DOMAIN queue' : k + 1 \in DOMAIN queue /\ queue'[k] = queue[k + 1] /\ k \in Nat
         /\ Queued' \subseteq Queued \ {Head(queue).env}
         /\ \A j, k \in DOMAIN queue' :
              queue'[j].env # Nothing /\ queue'[j].env = queue'[k].env => j = k
<1>1. queue \in Seq(SliceType)
  BY DEF TypeOK
<1>2. /\ Head(queue) \in SliceType /\ queue' \in Seq(SliceType) /\ Len(queue') = Len(queue) - 1
      /\ \A k \in 1..Len(queue') : queue'[k] = queue[k + 1]
  BY <1>1, HeadTailProperties
<1>3. Len(queue) \in Nat /\ Len(queue) # 0 /\ DOMAIN queue = 1..Len(queue) /\ DOMAIN queue' = 1..Len(queue')
  BY <1>1, <1>2, LenProperties, EmptySeq
<1>4. 1 \in DOMAIN queue /\ Head(queue) = queue[1]
  BY <1>1, <1>3
<1>5. \A k \in DOMAIN queue' : k + 1 \in DOMAIN queue /\ queue'[k] = queue[k + 1] /\ k \in Nat /\ k + 1 # 1
  BY ONLY <1>2, <1>3
<1>6. \A j, k \in DOMAIN queue : queue[j].env # Nothing /\ queue[j].env = queue[k].env => j = k
  BY DEF PlaceInv
<1>7. Queued' \subseteq Queued \ {Head(queue).env}
  <2> SUFFICES ASSUME NEW e \in Queued' PROVE e \in Queued /\ e # Head(queue).env
    OBVIOUS
  <2>1. PICK k \in DOMAIN queue' : e = queue'[k].env /\ e # Nothing
    BY DEF Queued
  <2>2. k + 1 \in DOMAIN queue /\ e = queue[k + 1].env /\ k + 1 # 1
    BY <1>5, <2>1
  <2> QED
    BY <1>4, <1>6, <2>1, <2>2 DEF Queued
<1>8. ASSUME NEW j \in DOMAIN queue', NEW k \in DOMAIN queue',
             queue'[j].env # Nothing, queue'[j].env = queue'[k].env
      PROVE  j = k
  <2>1. j + 1 = k + 1
    BY <1>5, <1>6, <1>8
  <2> QED
    BY ONLY <1>5, <2>1
<1> QED
  BY <1>2, <1>4, <1>5, <1>7, <1>8

LEMMA DequeueInductive ==
  ASSUME IInv, NEW w \in Workers, Dequeue(w)
  PROVE  IInv'
<1> USE DEF Dequeue
<1>1. TypeOK /\ PlaceInv /\ StopInv /\ ArrayInv
  BY DEF IInv
<1>2. Arrays' = Arrays
  BY DEF Arrays
<1>3. /\ Head(queue) \in SliceType /\ queue' \in Seq(SliceType)
      /\ 1 \in DOMAIN queue /\ Head(queue) = queue[1]
      /\ \A k \in DOMAIN queue' : k + 1 \in DOMAIN queue /\ queue'[k] = queue[k + 1] /\ k \in Nat
      /\ Queued' \subseteq Queued \ {Head(queue).env}
      /\ \A j, k \in DOMAIN queue' :
           queue'[j].env # Nothing /\ queue'[j].env = queue'[k].env => j = k
  BY <1>1, TakeSlice
<1>4. w \notin Busy
  BY DEF Busy
<1>5. TypeOK'
  <2>1. at' \in [Workers -> {"dequeue", "begin", "step", "post", "left"}]
    BY <1>1 DEF TypeOK
  <2>2. env' \in [Workers -> Envs \cup {Nothing}] /\ force' \in [Workers -> BOOLEAN]
    BY <1>1, <1>3 DEF TypeOK, SliceType
  <2> QED
    BY <1>1, <1>2, <1>3, <2>1, <2>2 DEF TypeOK, SliceType
<1>6. \A k \in DOMAIN queue' : queue'[k].env = Nothing => stop
  BY <1>1, <1>3 DEF StopInv
<1>7. StopInv'
  <2>1. main = "gone" => \A v \in Workers : at[v] = "left"
    BY <1>1 DEF StopInv
  <2>2. main # "gone"
    BY <2>1
  <2> QED
    BY <1>1, <1>6, <2>2 DEF StopInv
<1>8. ArrayInv'
  <2>1. raw[w] = Nothing
    BY <1>1 DEF ArrayInv
  <2>2. \A v \in Workers : v # w => at'[v] = at[v] /\ env'[v] = env[v]
    BY <1>1 DEF TypeOK
  <2>3. \A v \in Workers : raw'[v] # Nothing => at'[v] = "step" /\ raw'[v] = actionBatch'[env'[v]]
    BY <1>1, <2>1, <2>2 DEF ArrayInv
  <2> QED
    BY <1>1, <2>3 DEF ArrayInv
<1>9. PlaceInv'
  <2>1. CASE stop
    <3>1. Busy' = Busy /\ Worked' = Worked
      BY <1>1, <2>1 DEF Busy, Worked, TypeOK
    <3> QED
      BY <1>1, <1>3, <2>1, <3>1 DEF PlaceInv
  <2>2. CASE ~stop
    <3> DEFINE e == Head(queue).env
    <3>1. e # Nothing /\ e \in Queued
      BY <1>1, <1>3, <2>2 DEF StopInv, Queued
    <3>2. Busy' = Busy \cup {w} /\ env'[w] = e /\ \A v \in Busy : env'[v] = env[v]
      BY <1>1, <1>4, <2>2 DEF Busy, TypeOK
    <3> HIDE DEF e
    <3>3. Worked' \subseteq Worked \cup {e}
      BY <3>2 DEF Worked
    <3>4. e \notin sending \cup Worked \cup reported \cup idle
      BY <1>1, <3>1 DEF PlaceInv
    <3>5. \A v \in Busy : env[v] \in Worked
      BY DEF Worked
    <3>6. /\ \A u, v \in Busy' : env'[u] = env'[v] => u = v
          /\ \A v \in Busy' : env'[v] # Nothing
      BY <1>1, <3>1, <3>2, <3>4, <3>5 DEF PlaceInv
    <3>7. Queued' \subseteq Queued \ {e}
      BY <1>3 DEF e
    <3> QED
      BY <1>1, <1>3, <3>3, <3>4, <3>6, <3>7 DEF PlaceInv
  <2> QED
    BY <2>1, <2>2
<1> QED
  BY <1>5, <1>7, <1>8, <1>9 DEF IInv

LEMMA BeginInductive ==
  ASSUME IInv, NEW w \in Workers, Begin(w)
  PROVE  IInv'
<1> USE DEF Begin, mainVars
<1>1. TypeOK /\ PlaceInv /\ StopInv /\ ArrayInv
  BY DEF IInv
<1>2. Busy' = Busy /\ w \in Busy
  BY <1>1 DEF Busy, TypeOK
<1>3. Queued' = Queued /\ Worked' = Worked /\ Arrays' = Arrays
  BY <1>2 DEF Queued, Worked, Arrays
<1>4. env[w] \in Envs
  BY <1>1, <1>2 DEF TypeOK, PlaceInv
<1>5. TypeOK'
  <2>1. at' \in [Workers -> {"dequeue", "begin", "step", "post", "left"}]
    BY <1>1 DEF TypeOK
  <2>2. raw' \in [Workers -> Arrays]
    BY <1>1, <1>4 DEF TypeOK
  <2> QED
    BY <1>1, <1>3, <2>1, <2>2 DEF TypeOK, SliceType
<1>6. PlaceInv'
  BY <1>1, <1>2, <1>3 DEF PlaceInv
<1>7. StopInv'
  BY <1>1, <1>2 DEF StopInv, Busy
<1>8. ArrayInv'
  <2>1. raw[w] = Nothing
    BY <1>1 DEF ArrayInv
  <2>2. \A v \in Workers : v # w => at'[v] = at[v] /\ raw'[v] = raw[v]
    BY <1>1 DEF TypeOK
  <2>3. at'[w] = "step" /\ (raw'[w] # Nothing => raw'[w] = actionBatch[env[w]])
    BY <1>1, <2>1 DEF TypeOK
  <2>4. \A v \in Workers : raw'[v] # Nothing => at'[v] = "step" /\ raw'[v] = actionBatch'[env'[v]]
    BY <1>1, <2>2, <2>3 DEF ArrayInv
  <2> QED
    BY <1>1, <2>4 DEF ArrayInv
<1> QED
  BY <1>5, <1>6, <1>7, <1>8 DEF IInv

LEMMA EndStepInductive ==
  ASSUME IInv, NEW w \in Workers, EndStep(w)
  PROVE  IInv'
<1> USE DEF EndStep, mainVars
<1>1. TypeOK /\ PlaceInv /\ StopInv /\ ArrayInv
  BY DEF IInv
<1>2. Busy' = Busy /\ w \in Busy
  BY <1>1 DEF Busy, TypeOK
<1>3. Queued' = Queued /\ Worked' = Worked /\ Arrays' = Arrays
  BY <1>2 DEF Queued, Worked, Arrays
<1>4. TypeOK'
  <2>1. at' \in [Workers -> {"dequeue", "begin", "step", "post", "left"}]
    BY <1>1 DEF TypeOK
  <2>2. raw' \in [Workers -> Arrays]
    BY <1>1 DEF TypeOK, Arrays
  <2> QED
    BY <1>1, <1>3, <2>1, <2>2 DEF TypeOK, SliceType
<1>5. PlaceInv'
  BY <1>1, <1>2, <1>3 DEF PlaceInv
<1>6. StopInv'
  BY <1>1, <1>2 DEF StopInv, Busy
<1>7. ArrayInv'
  <2>1. raw'[w] = Nothing /\ \A v \in Workers : v # w => at'[v] = at[v] /\ raw'[v] = raw[v]
    BY <1>1 DEF TypeOK
  <2>2. \A v \in Workers : raw'[v] # Nothing => at'[v] = "step" /\ raw'[v] = actionBatch'[env'[v]]
    BY <1>1, <2>1 DEF ArrayInv
  <2> QED
    BY <1>1, <2>2 DEF ArrayInv
<1> QED
  BY <1>4, <1>5, <1>6, <1>7 DEF IInv

LEMMA PostProcessInductive ==
  ASSUME IInv, NEW w \in Workers, PostProcess(w)
  PROVE  IInv'
<1> USE DEF PostProcess, KeepBatch, mainVars
<1>1. TypeOK /\ PlaceInv /\ StopInv /\ ArrayInv
  BY DEF IInv
<1>2. /\ Busy' = Busy \ {w} /\ w \in Busy
      /\ \A v \in Workers : v # w => at'[v] = at[v] /\ env'[v] = env[v]
  BY <1>1 DEF Busy, TypeOK
<1>3. Queued' = Queued /\ Arrays' = Arrays
  BY DEF Queued, Arrays
<1>4. env[w] \in Envs /\ env[w] \in Worked
  BY <1>1, <1>2 DEF TypeOK, PlaceInv, Worked
<1>5. Worked' \subseteq Worked \ {env[w]}
  <2> SUFFICES ASSUME NEW v \in Busy' PROVE env'[v] \in Worked /\ env'[v] # env[w]
    BY DEF Worked
  <2>1. v \in Busy /\ v # w /\ env'[v] = env[v]
    BY <1>2 DEF Busy
  <2> QED
    BY <1>1, <1>2, <2>1 DEF Worked, PlaceInv
<1>6. TypeOK'
  <2>1. at' \in [Workers -> {"dequeue", "begin", "step", "post", "left"}]
    BY <1>1 DEF TypeOK
  <2>2. env' \in [Workers -> Envs \cup {Nothing}] /\ reported' \subseteq Envs
    BY <1>1, <1>4 DEF TypeOK
  <2> QED
    BY <1>1, <1>3, <2>1, <2>2 DEF TypeOK, SliceType
<1>7. PlaceInv'
  <2>1. /\ \A u, v \in Busy' : env'[u] = env'[v] => u = v
        /\ \A v \in Busy' : env'[v] # Nothing
    BY <1>1, <1>2 DEF PlaceInv, Busy
  <2> QED
    BY <1>1, <1>3, <1>4, <1>5, <2>1 DEF PlaceInv
<1>8. StopInv'
  BY <1>1, <1>2 DEF StopInv, Busy
<1>9. ArrayInv'
  <2>1. raw[w] = Nothing
    BY <1>1 DEF ArrayInv
  <2>2. \A v \in Workers : raw'[v] # Nothing => at'[v] = "step" /\ raw'[v] = actionBatch'[env'[v]]
    BY <1>1, <1>2, <2>1 DEF ArrayInv
  <2> QED
    BY <1>1, <2>2 DEF ArrayInv
<1> QED
  BY <1>6, <1>7, <1>8, <1>9 DEF IInv

----------------------------------------------------------------------------
(* Theorems *)

LEMMA StutterInductive ==
  ASSUME IInv, UNCHANGED vars
  PROVE  IInv'
<1> USE DEF vars
<1>1. Queued' = Queued /\ Worked' = Worked /\ Busy' = Busy /\ Arrays' = Arrays
  BY WhereFrame DEF Arrays
<1>2. TypeOK'
  BY <1>1 DEF IInv, TypeOK, SliceType
<1>3. PlaceInv'
  BY <1>1 DEF IInv, PlaceInv
<1>4. StopInv' /\ ArrayInv'
  BY DEF IInv, StopInv, ArrayInv
<1> QED
  BY <1>2, <1>3, <1>4 DEF IInv

\* IInv holds in every state: the pool has every env in one place, and every array
\* that is still wanted is held (SendImpl, SetAction, the worker loop, ~AsyncEnvPool).
THEOREM LifetimeInductive == Spec => []IInv
<1>1. IInv /\ [Next]_vars => IInv'
  <2> SUFFICES ASSUME IInv, [Next]_vars PROVE IInv'
    OBVIOUS
  <2>1. ASSUME NEW S \in SUBSET Envs, SendBegin(S) \/ Reset(S) PROVE IInv'
    BY <2>1, SendBeginInductive, ResetInductive
  <2>2. CASE Send
    BY <2>2, SetActionInductive DEF Send
  <2>3. CASE SendDrop \/ Enqueue \/ SendEnd
    BY <2>3, SendDropInductive, EnqueueInductive, SendEndInductive
  <2>4. CASE RecvBegin \/ RecvEnd
    BY <2>4, RecvBeginInductive, RecvEndInductive
  <2>5. CASE Destroy \/ Joined \/ Switch
    BY <2>5, DestroyInductive, JoinedInductive, SwitchInductive
  <2>6. ASSUME NEW w \in Workers, Work(w) PROVE IInv'
    BY <2>6, DequeueInductive, BeginInductive, EndStepInductive, PostProcessInductive DEF Work
  <2>7. CASE UNCHANGED vars
    BY <2>7, StutterInductive
  <2> QED
    BY <2>1, <2>2, <2>3, <2>4, <2>5, <2>6, <2>7 DEF Next
<1> QED
  BY InitIInv, <1>1, PTL DEF Spec

\* For every number of envs, workers and sends, a step reads an array that has not
\* been given back and that is the one last sent for its env, and in the end all are
\* given back (NumpyToArrayIncRef, SetAction, ParseAction, PostProcess).
THEOREM StepsReadLiveArrays == Spec => []StepReadsLiveArray
<1>1. IInv => StepReadsLiveArray
  <2> SUFFICES ASSUME IInv PROVE StepReadsLiveArray
    OBVIOUS
  <2>1. TypeOK /\ PlaceInv /\ StopInv /\ ArrayInv
    BY DEF IInv
  <2>2. ASSUME NEW w \in Workers, raw[w] # Nothing
        PROVE  raw[w] \notin freed /\ raw[w] = asked[env[w]]
    <3>1. at[w] = "step" /\ raw[w] = actionBatch[env[w]] /\ w \in Busy /\ env[w] \in Worked
      BY <2>1, <2>2 DEF ArrayInv, Busy, Worked
    <3>2. env[w] \in Envs \ toSet
      BY <2>1, <3>1 DEF TypeOK, PlaceInv
    <3>3. main # "gone"
      BY <2>1, <3>1 DEF StopInv
    <3> QED
      BY <2>1, <3>1, <3>2, <3>3 DEF ArrayInv
  <2>3. main = "gone" => freed = 1..sends
    BY <2>1 DEF ArrayInv
  <2> QED
    BY <2>2, <2>3 DEF StepReadsLiveArray
<1> QED
  BY <1>1, LifetimeInductive, PTL
=============================================================================
