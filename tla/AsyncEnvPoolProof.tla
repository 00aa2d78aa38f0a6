------------------------- MODULE AsyncEnvPoolProof -------------------------
(***************************************************************************)
(* Proofs about AsyncEnvPool for every number of envs and workers, every   *)
(* set of actions, batch size, mode and length of an episode.              *)
(*                                                                         *)
(* IInv is inductive (one lemma per action, and frame lemmas for the parts *)
(* of it that an action leaves alone); it implies that no two threads are  *)
(* ever in one env and that stepping_env_num_ is right.  With it the steps *)
(* of the pool are steps of VectorEnv: asking is Ask, the run of an env is *)
(* Answer, the return of Recv is Deliver, and all others stutter, since    *)
(* they only carry an answer from one place to the next.  With NoneLost,   *)
(* its converse (whatever is asked is still on its way), a state in which  *)
(* nobody is at work is one in which nobody waits.                         *)
(***************************************************************************)
EXTENDS AsyncEnvPool, FiniteSetTheorems, SequenceTheorems, TLAPS

----------------------------------------------------------------------------
(* Blocks of positions *)

LEMMA DivMod ==
  ASSUME NEW Q \in Nat \ {0}, NEW k \in Nat
  PROVE  /\ k = Q * (k \div Q) + (k % Q)
         /\ k \div Q \in Nat
         /\ k % Q \in 0..(Q - 1)
  OBVIOUS

LEMMA Times ==
  ASSUME NEW Q \in Nat \ {0}, NEW a \in Nat, NEW b \in Nat
  PROVE  /\ Q * a \in Nat
         /\ a < b => Q * a + Q <= Q * b
<1>1. Q * a \in Nat
  OBVIOUS
<1>2. ASSUME a < b PROVE Q * a + Q <= Q * b
  <2>1. PICK d \in Nat : b = a + 1 + d
    <3>1. b - a - 1 \in Nat /\ b = a + 1 + (b - a - 1)
      BY <1>2
    <3> QED
      BY <3>1
  <2>2. Q * b = Q * a + Q + Q * d /\ Q * d \in Nat
    BY <2>1
  <2> QED
    BY <1>1, <2>2
<1> QED
  BY <1>1, <1>2

\* Quotient and remainder are determined by their equation.
LEMMA DivModUnique ==
  ASSUME NEW Q \in Nat \ {0}, NEW k \in Nat, NEW a \in Nat, NEW r \in 0..(Q - 1),
         k = Q * a + r
  PROVE  k \div Q = a /\ k % Q = r
<1> DEFINE b == k \div Q
           m == k % Q
<1>1. k = Q * b + m /\ b \in Nat /\ m \in 0..(Q - 1)
  BY DivMod
<1> HIDE DEF b, m
<1>2. Q * a \in Nat /\ Q * b \in Nat /\ (a < b => Q * a + Q <= Q * b) /\ (b < a => Q * b + Q <= Q * a)
  BY <1>1, Times
<1>3. a = b
  BY <1>1, <1>2
<1>4. m = r
  BY <1>1, <1>2, <1>3
<1> QED
  BY <1>3, <1>4 DEF b, m

LEMMA DivModNext ==
  ASSUME NEW Q \in Nat \ {0}, NEW k \in Nat
  PROVE  /\ (k % Q) + 1 < Q => (k + 1) \div Q = k \div Q /\ (k + 1) % Q = (k % Q) + 1
         /\ (k % Q) + 1 = Q => (k + 1) \div Q = k \div Q + 1 /\ (k + 1) % Q = 0
<1> DEFINE a == k \div Q
           r == k % Q
<1>1. k = Q * a + r /\ a \in Nat /\ r \in 0..(Q - 1) /\ Q * a \in Nat
  BY DivMod, Times
<1> HIDE DEF a, r
<1>2. ASSUME r + 1 < Q PROVE (k + 1) \div Q = a /\ (k + 1) % Q = r + 1
  <2>1. k + 1 = Q * a + (r + 1) /\ r + 1 \in 0..(Q - 1) /\ k + 1 \in Nat
    BY <1>1, <1>2
  <2> QED
    BY <1>1, <2>1, DivModUnique
<1>3. ASSUME r + 1 = Q PROVE (k + 1) \div Q = a + 1 /\ (k + 1) % Q = 0
  <2>1. Q * (a + 1) = Q * a + Q
    BY <1>1
  <2>2. k + 1 = Q * (a + 1) + 0 /\ 0 \in 0..(Q - 1) /\ k + 1 \in Nat /\ a + 1 \in Nat
    BY <1>1, <1>3, <2>1
  <2> QED
    BY <2>2, DivModUnique
<1> QED
  BY <1>2, <1>3 DEF a, r

LEMMA DivModBack ==
  ASSUME NEW Q \in Nat \ {0}, NEW k \in Nat, k >= Q
  PROVE  (k - Q) \div Q = k \div Q - 1 /\ (k - Q) % Q = k % Q /\ k \div Q >= 1
<1> DEFINE a == k \div Q
           r == k % Q
<1>1. k = Q * a + r /\ a \in Nat /\ r \in 0..(Q - 1) /\ Q * a \in Nat
  BY DivMod, Times
<1> HIDE DEF a, r
<1>2. a >= 1
  <2> SUFFICES ASSUME a = 0 PROVE FALSE
    BY <1>1
  <2>1. Q * a = 0
    OBVIOUS
  <2> QED
    BY <1>1, <2>1
<1>3. Q * a = Q * (a - 1) + Q /\ a - 1 \in Nat
  BY <1>1, <1>2
<1>4. k - Q = Q * (a - 1) + r /\ k - Q \in Nat
  BY <1>1, <1>3
<1>5. (k - Q) \div Q = a - 1 /\ (k - Q) % Q = r
  BY <1>1, <1>3, <1>4, DivModUnique
<1> QED
  BY <1>2, <1>5 DEF a, r

LEMMA DivMonotone ==
  ASSUME NEW Q \in Nat \ {0}, NEW k \in Nat, NEW n \in Nat, k <= n
  PROVE  k \div Q <= n \div Q
<1> DEFINE a == k \div Q
           b == n \div Q
<1>1. k = Q * a + (k % Q) /\ a \in Nat /\ k % Q \in 0..(Q - 1)
      /\ n = Q * b + (n % Q) /\ b \in Nat /\ n % Q \in 0..(Q - 1)
  BY DivMod
<1> HIDE DEF a, b
<1>2. Q * a \in Nat /\ Q * b \in Nat /\ (b < a => Q * b + Q <= Q * a)
  BY <1>1, Times
<1>3. ~ (b < a)
  BY <1>1, <1>2
<1> QED
  BY <1>1, <1>3 DEF a, b

LEMMA DivSmall ==
  ASSUME NEW Q \in Nat \ {0}, NEW k \in 0..(Q - 1)
  PROVE  k \div Q = 0 /\ k % Q = k
  BY DivModUnique

----------------------------------------------------------------------------
(* Sizes and types *)

LEMMA EnvsFinite == IsFiniteSet(Envs) /\ NumEnvs \in Nat
  BY SizesAssumption, FS_CardinalityType DEF NumEnvs

LEMMA Sizes ==
  ASSUME config \in Configs
  PROVE  /\ Batch \in 1..NumEnvs /\ Batch \in Nat \ {0} /\ NumEnvs \in Nat
         /\ IsSync \in BOOLEAN /\ SinglePlayer \in BOOLEAN /\ (IsSync => Batch = NumEnvs /\ SinglePlayer)
         /\ NumBlocks \in Nat \ {0} /\ 0 \in BlockIds /\ 0 \in RowIds
         /\ \A a \in 0..NumEnvs : a \div Batch \in BlockIds /\ a % Batch \in RowIds
<1>1. config \in ConfigType /\ NumEnvs \in Nat
  BY SizesAssumption, EnvsFinite
<1>2. Batch \in 1..NumEnvs /\ SinglePlayer \in BOOLEAN
  BY <1>1 DEF ConfigType, Batch, SinglePlayer
<1>3. Batch \in Nat \ {0} /\ IsSync \in BOOLEAN /\ (IsSync => Batch = NumEnvs /\ SinglePlayer)
  BY <1>1, <1>2 DEF IsSync
<1>4. NumEnvs \div Batch \in Nat
  BY <1>1, <1>3, DivMod
<1>5. NumBlocks \in Nat \ {0} /\ NumEnvs \div Batch <= NumBlocks - 1
  <2> DEFINE q == NumEnvs \div Batch
  <2> HIDE DEF q
  <2>1. q \in Nat /\ NumBlocks = (q + 2) * 2
    BY <1>4 DEF q, NumBlocks
  <2>2. NumBlocks \in Nat \ {0} /\ q <= NumBlocks - 1
    BY <2>1
  <2> QED
    BY <2>2 DEF q
<1>6. ASSUME NEW a \in 0..NumEnvs
      PROVE  a \div Batch \in BlockIds /\ a % Batch \in RowIds
  <2>1. a \in Nat /\ a <= NumEnvs
    BY <1>1
  <2>2. a \div Batch \in Nat /\ a % Batch \in 0..(Batch - 1) /\ a \div Batch <= NumEnvs \div Batch
    BY <1>1, <1>3, <2>1, DivMod, DivMonotone
  <2> QED
    BY <1>4, <1>5, <2>2 DEF BlockIds, RowIds
<1>7. 0 \in BlockIds /\ 0 \in RowIds
  BY <1>3, <1>5 DEF BlockIds, RowIds
<1> QED
  BY <1>1, <1>2, <1>3, <1>5, <1>6, <1>7

LEMMA ConfigFrame ==
  ASSUME config' = config
  PROVE  /\ Batch' = Batch /\ SinglePlayer' = SinglePlayer /\ IsSync' = IsSync
         /\ NumBlocks' = NumBlocks /\ BlockIds' = BlockIds /\ RowIds' = RowIds
         /\ SliceType' = SliceType /\ BlockType' = BlockType
         /\ EmptySlice' = EmptySlice /\ FreshBlock' = FreshBlock
  BY DEF Batch, SinglePlayer, IsSync, NumBlocks, BlockIds, RowIds, SliceType, BlockType,
         EmptySlice, FreshBlock

LEMMA ListType ==
  ASSUME NEW l \in Lists
  PROVE  /\ l \in Seq(Envs) /\ Len(l) \in 1..NumEnvs /\ DOMAIN l = 1..Len(l)
         /\ \A k \in DOMAIN l : l[k] \in Envs
         /\ \A j, k \in DOMAIN l : l[j] = l[k] => j = k
         /\ l # <<>> /\ 1 \in DOMAIN l /\ Len(l) \in Nat /\ Len(l) >= 1 /\ Len(l) <= NumEnvs
         /\ EnvsOf(l) = {e \in Envs : \E k \in DOMAIN l : l[k] = e} /\ EnvsOf(l) # {}
<1>1. PICK n \in 1..NumEnvs : l \in [1..n -> Envs] /\ \A j, k \in 1..n : l[j] = l[k] => j = k
  BY DEF Lists
<1>2. n \in Nat /\ n >= 1 /\ n <= NumEnvs
  BY EnvsFinite
<1>3. l \in Seq(Envs) /\ Len(l) = n /\ DOMAIN l = 1..n
  BY <1>1, <1>2
<1>4. 1 \in DOMAIN l /\ l # <<>>
  BY <1>2, <1>3
<1>5. \A k \in DOMAIN l : l[k] \in Envs
  BY <1>1, <1>3
<1>6. EnvsOf(l) = {e \in Envs : \E k \in DOMAIN l : l[k] = e} /\ l[1] \in EnvsOf(l)
  BY <1>4, <1>5 DEF EnvsOf
<1> QED
  BY <1>1, <1>2, <1>3, <1>4, <1>5, <1>6

\* As many envs as entries.
LEMMA ListSize ==
  ASSUME NEW l \in Lists
  PROVE  IsFiniteSet(EnvsOf(l)) /\ Cardinality(EnvsOf(l)) = Len(l)
<1>1. /\ Len(l) \in Nat /\ Len(l) >= 1 /\ DOMAIN l = 1..Len(l) /\ l \in [1..Len(l) -> Envs]
      /\ \A j, k \in DOMAIN l : l[j] = l[k] => j = k
  BY ListType, EnvsFinite
<1> DEFINE S == 1..Len(l)
           T == EnvsOf(l)
<1>2. IsFiniteSet(S) /\ Cardinality(S) = Len(l)
  BY <1>1, FS_Interval
<1>3. l \in Bijection(S, T)
  <2>1. l \in [S -> T]
    BY <1>1 DEF EnvsOf
  <2>2. \A t \in T : \E k \in S : l[k] = t
    BY <1>1 DEF EnvsOf
  <2> HIDE DEF T
  <2> QED
    BY <1>1, <2>1, <2>2 DEF Bijection, Injection, Surjection, IsInjective
<1> HIDE DEF S, T
<1>4. IsFiniteSet(T) /\ Cardinality(T) = Cardinality(S)
  BY <1>2, <1>3, FS_Bijection DEF ExistsBijection
<1> QED
  BY <1>2, <1>4 DEF T

----------------------------------------------------------------------------
(* What steps that leave variables alone preserve *)

LEMMA ListedFrame == ASSUME list' = list PROVE Listed' = Listed
  BY DEF Listed
LEMMA QueuedFrame == ASSUME fifo' = fifo PROVE Queued' = Queued
  BY DEF Queued
LEMMA HeldFrame ==
  ASSUME UNCHANGED <<wpc, slice>>
  PROVE  Holders' = Holders /\ Writers' = Writers /\ Held' = Held
<1>1. Holders' = Holders /\ Writers' = Writers
  BY DEF Holders, Writers
<1> QED
  BY <1>1 DEF Held
LEMMA ReportedFrame ==
  ASSUME config' = config, blocks' = blocks
  PROVE  Reported' = Reported /\ \A k \in BlockIds, j \in RowIds : Row(k, j)' = Row(k, j)
  BY ConfigFrame DEF Reported, Row
LEMMA ReturnedFrame == ASSUME UNCHANGED <<rpc, rows>> PROVE Returned' = Returned
  BY DEF Returned
LEMMA OutstandingFrame == ASSUME asked' = asked PROVE Outstanding' = Outstanding
  BY DEF Outstanding
LEMMA PlacedFrame ==
  ASSUME UNCHANGED <<config, blocks, wpc, slice>>
  PROVE  Placed' = Placed
  BY ReportedFrame, HeldFrame DEF Placed
LEMMA ActiveFrame ==
  ASSUME UNCHANGED <<wpc, place>>
  PROVE  \A k \in BlockIds : Active(k)' = Active(k)
  BY DEF Active

LEMMA PlaceFrame ==
  ASSUME PlaceInv, Listed' \subseteq Listed, Queued' \subseteq Queued, Held' \subseteq Held,
         Reported' \subseteq Reported, Returned' \subseteq Returned, Outstanding' = Outstanding
  PROVE  PlaceInv'
  BY DEF PlaceInv

LEMMA OnceFrame ==
  ASSUME OnceInv, UNCHANGED <<config, fifo, wpc, slice, blocks>>
  PROVE  OnceInv'
  BY ConfigFrame, HeldFrame, ReportedFrame DEF OnceInv

LEMMA StopFrame ==
  ASSUME StopInv, UNCHANGED <<stop, spc, rpc, fifo, wpc, slice>>
  PROVE  StopInv'
  BY DEF StopInv

LEMMA RequestFrame ==
  ASSUME RequestInv,
         UNCHANGED <<spc, list, what, i, asked, actionBatch, fifo, wpc, slice, elapsed, done, result>>
  PROVE  RequestInv'
  BY DEF RequestInv, Carries

LEMMA CountFrame ==
  ASSUME CountInv, UNCHANGED <<config, allocCount, blocks, wpc, slice, place, rpc, additional>>
  PROVE  CountInv'
<1>1. Placed' = Placed /\ Batch' = Batch /\ BlockIds' = BlockIds
  BY PlacedFrame, ConfigFrame
<1>2. \A k \in BlockIds : Active(k)' = Active(k) /\ Added(k)' = Added(k)
  BY ActiveFrame DEF Added
<1> QED
  BY <1>1, <1>2 DEF CountInv

LEMMA RowFrame ==
  ASSUME RowInv, UNCHANGED <<config, blocks, wpc, slice, result, place>>
  PROVE  RowInv'
<1>1. Batch' = Batch /\ BlockIds' = BlockIds /\ RowIds' = RowIds /\ IsSync' = IsSync
  BY ConfigFrame
<1>2. \A k \in BlockIds : Active(k)' = Active(k)
  BY ActiveFrame
<1>3. \A k \in BlockIds, j \in RowIds : Row(k, j)' = Row(k, j)
  BY ReportedFrame
<1>4. \A k \in BlockIds : \A w \in Active(k) : Row(k, place[w][2])' = Row(k, place[w][2])
  BY DEF Row
<1> QED
  BY <1>1, <1>2, <1>3, <1>4 DEF RowInv

LEMMA RecvFrame ==
  ASSUME RecvInv, UNCHANGED <<config, blocks, rpc, additional, rows, steppingEnvNum>>
  PROVE  RecvInv'
  BY ConfigFrame DEF RecvInv, Row

LEMMA OrderFrame ==
  ASSUME OrderInv, UNCHANGED <<config, fifo, wpc, slice, lastList>>
  PROVE  OrderInv'
  BY ConfigFrame, HeldFrame DEF OrderInv, Ordered

LEMMA SyncFrame ==
  ASSUME SyncInv,
         UNCHANGED <<config, asked, list, lastList, spc, rpc, additional, steppingEnvNum>>
  PROVE  SyncInv'
  BY ConfigFrame, OutstandingFrame DEF SyncInv

LEMMA SyncRowFrame ==
  ASSUME SyncRowInv, UNCHANGED <<config, wpc, slice, place, blocks, lastList, rows>>
  PROVE  SyncRowInv'
<1>1. Batch' = Batch /\ BlockIds' = BlockIds /\ RowIds' = RowIds /\ IsSync' = IsSync
  BY ConfigFrame
<1>2. Writers' = Writers
  BY HeldFrame
<1>3. \A k \in BlockIds, j \in RowIds : Row(k, j)' = Row(k, j)
  BY ReportedFrame
<1> QED
  BY <1>1, <1>2, <1>3 DEF SyncRowInv

----------------------------------------------------------------------------
(* Send, Reset and the destructor *)

\* A list that is asked holds envs that are nowhere else.
LEMMA AskInductive ==
  ASSUME IInv, NEW l \in Lists, NEW a \in Actions \cup {"reset"}, Ask(l, a),
         spc = "idle",
         (a \in Actions /\ spc' = "set") \/ (a = "reset" /\ spc' = "count")
  PROVE  IInv'
<1> USE DEF Ask, recvVars, workerVars, queueVars, envVars
<1>1. /\ TypeOK /\ PlaceInv /\ OnceInv /\ StopInv /\ RequestInv /\ CountInv /\ RowInv /\ RecvInv
      /\ OrderInv /\ SyncInv /\ SyncRowInv
  BY DEF IInv
<1>2. /\ ~stop /\ EnvsOf(l) \cap Outstanding = {} /\ (IsSync => rpc = "idle" /\ Outstanding = {})
      /\ lastList' = IF IsSync THEN l ELSE <<>>
  BY DEF MayAsk
<1>3. /\ Batch' = Batch /\ IsSync' = IsSync /\ BlockIds' = BlockIds /\ RowIds' = RowIds
      /\ SliceType' = SliceType /\ BlockType' = BlockType
  BY ConfigFrame
<1>4. a # Nothing /\ "reset" \notin Actions /\ Nothing \notin Envs
  BY SizesAssumption
<1>5. list = <<>> /\ Listed = {}
  BY <1>1 DEF RequestInv, Listed
<1>6. Listed' = EnvsOf(l) /\ EnvsOf(l) \subseteq Envs /\ EnvsOf(l) # {}
  BY ListType DEF Listed
<1>7. Outstanding' = Outstanding \cup EnvsOf(l)
      /\ \A e \in Envs : asked'[e] = IF e \in EnvsOf(l) THEN a ELSE asked[e]
  <2>1. \A e \in Envs : asked'[e] = IF e \in EnvsOf(l) THEN a ELSE asked[e]
    OBVIOUS
  <2> QED
    BY <1>4, <1>6, <2>1 DEF Outstanding
<1>8. Queued' = Queued /\ Held' = Held /\ Holders' = Holders /\ Reported' = Reported /\ Returned' = Returned
  BY QueuedFrame, HeldFrame, ReportedFrame, ReturnedFrame
<1>9. TypeOK'
  <2>1. asked' \in [Envs -> Actions \cup {"reset", Nothing}]
    BY <1>1 DEF TypeOK
  <2>2. received' \in Seq(RowType) /\ i' \in 0..(NumEnvs + 1)
    BY EnvsFinite
  <2>3. list' \in Lists \cup {<<>>} /\ lastList' \in Lists \cup {<<>>}
        /\ what' \in Actions \cup {"reset", Nothing} /\ spc' \in {"set", "count"}
    BY <1>2
  <2> QED
    BY <1>1, <1>3, <2>1, <2>2, <2>3 DEF TypeOK
<1>10. PlaceInv'
  BY <1>1, <1>2, <1>5, <1>6, <1>7, <1>8 DEF PlaceInv
<1>11. OnceInv'
  BY <1>1, OnceFrame
<1>12. StopInv'
  BY <1>1, <1>2 DEF StopInv
<1>13. RequestInv'
  <2>1. list' # <<>> /\ i' \in 1..Len(list') /\ DOMAIN l = 1..Len(l)
    BY ListType, EnvsFinite
  <2>2. \A k \in DOMAIN l : asked'[l[k]] = a
    BY <1>7, ListType DEF EnvsOf
  <2>3. ASSUME NEW e \in Queued \cup Held PROVE asked'[e] = asked[e]
    BY <1>1, <1>2, <1>7 DEF PlaceInv, Queued, Held
  <2>4. ASSUME NEW k \in DOMAIN fifo PROVE Carries(fifo[k])'
    BY <1>1, <2>3 DEF RequestInv, Carries, Queued
  <2>5. ASSUME NEW w \in Workers, wpc[w] \in {"check", "run"} PROVE Carries(slice[w])'
    BY <1>1, <2>3, <2>5 DEF RequestInv, Carries, Held, Holders
  <2>6. \A k \in DOMAIN l : ~ (a # "reset" /\ (spc' = "set" => k < i'))
    BY <2>1, <1>4
  <2> QED
    BY <1>1, <2>1, <2>2, <2>4, <2>5, <2>6 DEF RequestInv
<1>14. CountInv' /\ RowInv' /\ RecvInv'
  BY <1>1, CountFrame, RowFrame, RecvFrame
<1>15. OrderInv'
  <2>1. CASE IsSync
    <3>1. Queued = {} /\ Held = {}
      BY <1>1, <1>2, <2>1 DEF PlaceInv
    <3>2. \A k \in DOMAIN fifo : fifo[k].env \notin Envs
      BY <3>1 DEF Queued
    <3>3. \A w \in Holders : slice[w].env \notin Envs
      BY <3>1 DEF Held
    <3> QED
      BY <1>8, <3>2, <3>3 DEF OrderInv, Ordered
  <2>2. CASE ~IsSync
    BY <1>1, <1>3, <1>8, <2>2 DEF OrderInv, Ordered
  <2> QED
    BY <2>1, <2>2
<1>16. SyncInv'
  <2> SUFFICES ASSUME IsSync PROVE SyncInv'
    BY <1>3 DEF SyncInv
  <2>1. Outstanding' = EnvsOf(l) /\ Outstanding' # {} /\ lastList' = l /\ list' = l /\ l # <<>>
    BY <1>2, <1>6, <1>7, ListType
  <2>2. steppingEnvNum' = 0 /\ rpc' = "idle"
    BY <1>1, <1>2 DEF SyncInv
  <2> QED
    BY <1>3, <2>1, <2>2 DEF SyncInv
<1>17. SyncRowInv'
  <2> SUFFICES ASSUME IsSync PROVE SyncRowInv'
    BY <1>3 DEF SyncRowInv
  <2>1. Reported = {} /\ rows = <<>>
    BY <1>1, <1>2 DEF PlaceInv, RecvInv
  <2>2. \A k \in BlockIds, j \in RowIds : Row(k, j)' = Row(k, j) /\ Row(k, j) = Nothing
    <3>1. \A k \in BlockIds, j \in RowIds : Row(k, j)' = Row(k, j)
      BY ReportedFrame
    <3>2. ASSUME NEW k \in BlockIds, NEW j \in RowIds, Row(k, j) # Nothing PROVE FALSE
      <4>1. Row(k, j) \in Envs \X ResultType
        BY <1>1, <3>2 DEF TypeOK, BlockType, RowType, Row
      <4>2. Row(k, j)[1] \in Envs
        BY <4>1
      <4> QED
        BY <2>1, <3>2, <4>2 DEF Reported
    <3> QED
      BY <3>1, <3>2
  <2>3. Writers' = Writers
    BY HeldFrame
  <2> QED
    BY <1>1, <1>3, <2>1, <2>2, <2>3 DEF SyncRowInv
<1> QED
  BY <1>9, <1>10, <1>11, <1>12, <1>13, <1>14, <1>15, <1>16, <1>17 DEF IInv

\* The steps of Send that leave the list, the queue and the workers alone.
LEMMA SenderFrame ==
  ASSUME IInv, UNCHANGED <<config, queueVars, list, recvVars, workerVars, driverVars>>
  PROVE  /\ PlaceInv' /\ OnceInv' /\ CountInv' /\ RowInv' /\ OrderInv' /\ SyncRowInv'
         /\ (steppingEnvNum' = steppingEnvNum => RecvInv')
<1> USE DEF recvVars, workerVars, queueVars, driverVars
<1>1. PlaceInv'
  BY ListedFrame, QueuedFrame, HeldFrame, ReportedFrame, ReturnedFrame, OutstandingFrame, PlaceFrame
     DEF IInv
<1>2. OnceInv' /\ CountInv' /\ RowInv' /\ OrderInv' /\ SyncRowInv'
  BY OnceFrame, CountFrame, RowFrame, OrderFrame, SyncRowFrame DEF IInv
<1>3. steppingEnvNum' = steppingEnvNum => RecvInv'
  BY RecvFrame DEF IInv
<1> QED
  BY <1>1, <1>2, <1>3

LEMMA SetActionInductive == IInv /\ SetAction => IInv'
<1> SUFFICES ASSUME IInv, SetAction PROVE IInv'
  OBVIOUS
<1> USE DEF SetAction, recvVars, workerVars, queueVars, driverVars
<1>1. /\ TypeOK /\ PlaceInv /\ StopInv /\ RequestInv /\ RecvInv /\ SyncInv
  BY DEF IInv
<1>2. /\ list \in Lists /\ i \in 1..Len(list) /\ what \in Actions /\ DOMAIN list = 1..Len(list)
      /\ Len(list) \in Nat /\ Len(list) <= NumEnvs /\ NumEnvs \in Nat /\ list[i] \in Envs
      /\ \A j, k \in DOMAIN list : list[j] = list[k] => j = k
  <2>1. list \in Lists /\ i \in 1..Len(list) /\ what \in Actions
    BY <1>1 DEF TypeOK, RequestInv
  <2> QED
    BY <2>1, ListType, EnvsFinite
<1>9. /\ i' = i + 1 /\ i' \in 0..(NumEnvs + 1) /\ spc' \in {"set", "count"}
      /\ spc' = "set" => i' \in 1..Len(list)
      /\ \A k \in 1..Len(list) : k # i /\ (spc' = "set" => k < i') => k < i \/ spc' = "count"
      /\ spc' = "count" => i = Len(list)
  <2>1. i \in 1..Len(list) /\ Len(list) \in Nat /\ Len(list) <= NumEnvs /\ NumEnvs \in Nat
    BY <1>2
  <2>2. i' = i + 1 /\ spc' = IF i = Len(list) THEN "count" ELSE "set"
    OBVIOUS
  <2> QED
    BY ONLY <2>1, <2>2
<1>3. \A e \in Envs : actionBatch'[e] = IF e = list[i] THEN what ELSE actionBatch[e]
  BY <1>1, <1>2 DEF TypeOK
<1>4. TypeOK'
  <2>1. i' \in 0..(NumEnvs + 1) /\ spc' \in {"set", "count"}
    BY <1>9
  <2>2. actionBatch' \in [Envs -> Actions \cup {Nothing}]
    BY <1>1, <1>2 DEF TypeOK
  <2> QED
    BY <1>1, <2>1, <2>2, ConfigFrame DEF TypeOK
<1>5. PlaceInv' /\ OnceInv' /\ CountInv' /\ RowInv' /\ RecvInv' /\ OrderInv' /\ SyncRowInv'
  BY SenderFrame
<1>6. StopInv'
  BY <1>1 DEF StopInv
<1>7. RequestInv'
  <2>1. spc' = "set" => i' \in 1..Len(list)
    BY <1>9
  <2>2. ASSUME NEW k \in DOMAIN list, what # "reset", spc' = "set" => k < i'
        PROVE  actionBatch'[list[k]] = what
    <3>1. CASE k = i
      BY <1>2, <1>3, <3>1
    <3>2. CASE k # i
      <4>1. spc = "set" => k < i
        <5>1. k \in 1..Len(list) /\ i \in 1..Len(list) /\ Len(list) \in Nat
          BY <1>2
        <5>2. k < i \/ spc' = "count"
          BY <1>9, <2>2, <3>2, <5>1
        <5>3. spc' = "count" => i = Len(list)
          BY <1>9
        <5> QED
          BY ONLY <5>1, <5>2, <5>3, <3>2
      <4>2. actionBatch[list[k]] = what /\ list[k] \in Envs
        BY <1>1, <1>2, <2>2, <4>1, ListType DEF RequestInv
      <4> QED
        BY <1>3, <4>2
    <3> QED
      BY <3>1, <3>2
  <2>3. ASSUME NEW e \in Queued \cup Held PROVE actionBatch'[e] = actionBatch[e]
    <3>1. list[i] \in Listed /\ e \in Envs
      BY <1>2 DEF Listed, Queued, Held
    <3> QED
      BY <1>1, <1>3, <3>1 DEF PlaceInv
  <2>4. ASSUME NEW k \in DOMAIN fifo PROVE Carries(fifo[k])'
    BY <1>1, <2>3 DEF RequestInv, Carries, Queued
  <2>5. ASSUME NEW w \in Workers, wpc[w] \in {"check", "run"} PROVE Carries(slice[w])'
    BY <1>1, <2>3, <2>5 DEF RequestInv, Carries, Held, Holders
  <2> QED
    BY <1>1, <1>2, <2>1, <2>2, <2>4, <2>5 DEF RequestInv
<1>8. SyncInv'
  BY <1>1, ConfigFrame, OutstandingFrame DEF SyncInv
<1> QED
  BY <1>4, <1>5, <1>6, <1>7, <1>8 DEF IInv

LEMMA CountSteppingInductive == IInv /\ CountStepping => IInv'
<1> SUFFICES ASSUME IInv, CountStepping PROVE IInv'
  OBVIOUS
<1> USE DEF CountStepping, SendStep, recvVars, workerVars, queueVars, driverVars, envVars
<1>1. /\ TypeOK /\ PlaceInv /\ StopInv /\ RequestInv /\ RecvInv /\ SyncInv
  BY DEF IInv
<1>2. list \in Lists /\ Len(list) \in 1..NumEnvs /\ NumEnvs \in Nat /\ list # <<>>
  <2>1. list \in Lists /\ list # <<>>
    BY <1>1 DEF TypeOK, RequestInv
  <2> QED
    BY <2>1, ListType, EnvsFinite
<1>3. IsSync => /\ list = lastList /\ rpc = "idle" /\ Outstanding # {}
                /\ steppingEnvNum = 0 /\ steppingEnvNum' = Len(lastList)
  BY <1>1, <1>2 DEF SyncInv
<1>4. TypeOK'
  <2>1. steppingEnvNum' \in 0..NumEnvs
    BY <1>1, <1>2, <1>3 DEF TypeOK
  <2> QED
    BY <1>1, <2>1, ConfigFrame DEF TypeOK
<1>5. PlaceInv' /\ OnceInv' /\ CountInv' /\ RowInv' /\ OrderInv' /\ SyncRowInv'
  BY SenderFrame
<1>6. StopInv'
  BY <1>1 DEF StopInv
<1>7. RequestInv'
  BY <1>1, <1>2 DEF RequestInv, Carries
<1>8. RecvInv'
  BY <1>1, ConfigFrame DEF RecvInv, Row
<1>9. SyncInv'
  BY <1>1, <1>2, <1>3, ConfigFrame, OutstandingFrame DEF SyncInv
<1> QED
  BY <1>4, <1>5, <1>6, <1>7, <1>8, <1>9 DEF IInv

LEMMA EnqueueBulkInductive == IInv /\ EnqueueBulk => IInv'
<1> SUFFICES ASSUME IInv, EnqueueBulk PROVE IInv'
  OBVIOUS
<1> USE DEF EnqueueBulk, SendStep, recvVars, workerVars, driverVars, envVars
<1>1. /\ TypeOK /\ PlaceInv /\ OnceInv /\ StopInv /\ RequestInv /\ CountInv /\ RowInv /\ RecvInv
      /\ OrderInv /\ SyncInv /\ SyncRowInv
  BY DEF IInv
<1> DEFINE m == Len(fifo)
           n == Len(list)
<1>2. /\ list \in Lists /\ n \in Nat /\ n >= 1 /\ n <= NumEnvs /\ NumEnvs \in Nat /\ list # <<>> /\ DOMAIN list = 1..n
      /\ \A k \in DOMAIN list : list[k] \in Envs
      /\ \A j, k \in DOMAIN list : list[j] = list[k] => j = k
      /\ Listed = EnvsOf(list)
  <2>1. list \in Lists /\ list # <<>>
    BY <1>1 DEF TypeOK, RequestInv
  <2> QED
    BY <2>1, ListType, EnvsFinite DEF Listed
<1>3. /\ Batch \in Nat \ {0} /\ (IsSync => Batch = NumEnvs) /\ IsSync \in BOOLEAN
      /\ Batch' = Batch /\ IsSync' = IsSync /\ SliceType' = SliceType
  BY <1>1, Sizes, ConfigFrame DEF TypeOK
<1>4. Slices \in Seq(SliceType) /\ Len(Slices) = n /\ DOMAIN Slices = 1..n
  <2>1. ASSUME NEW k \in 1..n PROVE Slices[k] \in SliceType
    <3>1. (IF IsSync THEN k - 1 ELSE -1) \in -1..(Batch - 1)
      BY <1>2, <1>3
    <3>2. (what = "reset") \in BOOLEAN
      OBVIOUS
    <3> QED
      BY <1>2, <3>1, <3>2 DEF Slices, SliceType
  <2>2. Slices \in [1..n -> SliceType]
    BY <1>2, <2>1 DEF Slices
  <2>3. Slices \in Seq(SliceType) /\ DOMAIN Slices = 1..n
    BY ONLY <1>2, <2>2
  <2>4. Len(Slices) \in Nat /\ DOMAIN Slices = 1..Len(Slices)
    BY ONLY <2>3, LenProperties
  <2> QED
    BY ONLY <1>2, <2>3, <2>4
<1>5. /\ fifo' \in Seq(SliceType) /\ Len(fifo') = m + n /\ m \in Nat /\ n \in Nat /\ n >= 1
      /\ DOMAIN fifo' = 1..(m + n) /\ DOMAIN fifo = 1..m
      /\ \A k \in 1..(m + n) : fifo'[k] = IF k <= m THEN fifo[k] ELSE Slices[k - m]
      /\ \A k \in 1..m : k \in 1..(m + n) /\ fifo'[k] = fifo[k]
  <2>0. Slices \in Seq(SliceType)
    BY <1>4
  <2>1. fifo \in Seq(SliceType) /\ m \in Nat
    BY <1>1 DEF TypeOK
  <2>2. fifo' = fifo \o Slices
    OBVIOUS
  <2>3. fifo' \in Seq(SliceType) /\ Len(fifo') = m + Len(Slices)
        /\ \A k \in 1..(m + Len(Slices)) : fifo'[k] = IF k <= m THEN fifo[k] ELSE Slices[k - m]
    BY ONLY <2>0, <2>1, <2>2, ConcatProperties
  <2>4. DOMAIN fifo' = 1..(m + n) /\ DOMAIN fifo = 1..m
    BY ONLY <1>4, <2>1, <2>3, LenProperties
  <2>5. \A k \in 1..m : k \in 1..(m + n) /\ fifo'[k] = fifo[k]
    BY ONLY <1>2, <1>4, <2>1, <2>3
  <2> QED
    BY <1>2, <1>4, <2>1, <2>3, <2>4, <2>5
<1>6. ASSUME NEW k \in 1..(m + n)
      PROVE  \/ k \in 1..m /\ fifo'[k] = fifo[k]
             \/ /\ k - m \in 1..n /\ fifo'[k].env = list[k - m]
                /\ fifo'[k].order = IF IsSync THEN (k - m) - 1 ELSE -1
                /\ fifo'[k].forceReset = (what = "reset")
  <2>1. CASE k <= m
    BY <1>5, <2>1
  <2>2. CASE ~ (k <= m)
    <3>1. k - m \in 1..n /\ fifo'[k] = Slices[k - m]
      BY <1>5, <2>2
    <3> QED
      BY <1>2, <3>1 DEF Slices
  <2> QED
    BY <2>1, <2>2
<1>20. \A k \in 1..(m + n) : k \in DOMAIN fifo' /\ (k \in 1..m => k \in DOMAIN fifo)
  BY <1>5
<1> HIDE DEF m, n
<1>7. Queued' = Queued \cup Listed
  <2>1. ASSUME NEW e \in Queued' PROVE e \in Queued \cup Listed
    <3>1. PICK k \in 1..(m + n) : fifo'[k].env = e
      BY <1>5, <2>1 DEF Queued
    <3> QED
      BY <1>2, <1>6, <1>20, <2>1, <3>1 DEF Queued, Listed
  <2>2. ASSUME NEW e \in Queued PROVE e \in Queued'
    <3>1. PICK k \in 1..m : fifo[k].env = e
      BY <1>5, <2>2 DEF Queued
    <3>2. k \in 1..(m + n) /\ fifo'[k] = fifo[k]
      BY <1>5, <3>1
    <3> QED
      BY <1>5, <2>2, <3>1, <3>2 DEF Queued
  <2>3. ASSUME NEW e \in Listed PROVE e \in Queued'
    <3>1. PICK k \in 1..n : list[k] = e
      BY <1>2, <2>3 DEF Listed
    <3>2. m + k \in 1..(m + n) /\ (m + k) - m = k /\ ~ (m + k \in 1..m)
      BY <1>5, <3>1
    <3>3. fifo'[m + k].env = e
      BY <1>6, <3>1, <3>2
    <3> QED
      BY <1>5, <2>3, <3>2, <3>3 DEF Queued, Listed
  <2> QED
    BY <2>1, <2>2, <2>3
<1>8. Listed' = {} /\ Held' = Held /\ Holders' = Holders /\ Reported' = Reported
      /\ Returned' = Returned /\ Outstanding' = Outstanding
  BY HeldFrame, ReportedFrame, ReturnedFrame, OutstandingFrame DEF Listed
<1>9. TypeOK'
  <2>1. list' \in Lists \cup {<<>>} /\ i' \in 0..(NumEnvs + 1) /\ spc' = "idle"
    BY <1>2
  <2>2. blocks \in [BlockIds -> BlockType] /\ UNCHANGED <<BlockIds, RowIds, BlockType>>
    BY <1>1, ConfigFrame DEF TypeOK
  <2> QED
    BY <1>1, <1>3, <1>5, <2>1, <2>2 DEF TypeOK
<1>10. PlaceInv'
  BY <1>1, <1>7, <1>8 DEF PlaceInv
<1>11. OnceInv'
  <2>1. ASSUME NEW j \in 1..(m + n), NEW k \in 1..(m + n),
               fifo'[j].env \in Envs, fifo'[j].env = fifo'[k].env
        PROVE  j = k
    <3>1. CASE j \in 1..m /\ k \in 1..m
      <4>1. fifo'[j] = fifo[j] /\ fifo'[k] = fifo[k] /\ j \in DOMAIN fifo /\ k \in DOMAIN fifo
        BY <1>5, <3>1
      <4> QED
        BY <1>1, <2>1, <4>1 DEF OnceInv
    <3>2. CASE j \notin 1..m /\ k \notin 1..m
      <4>1. j - m \in DOMAIN list /\ k - m \in DOMAIN list /\ list[j - m] = list[k - m]
        BY <1>2, <1>6, <2>1, <3>2
      <4>2. j - m = k - m
        BY <1>2, <4>1
      <4> QED
        BY <1>5, <4>2
    <3>3. CASE j \in 1..m /\ k \notin 1..m
      <4>1. fifo'[j].env \in Queued
        <5>1. fifo'[j] = fifo[j] /\ j \in DOMAIN fifo
          BY <1>5, <3>3
        <5> QED
          BY <2>1, <5>1 DEF Queued
      <4>2. fifo'[k].env \in Listed
        BY <1>2, <1>6, <3>3 DEF Listed
      <4> QED
        BY <1>1, <2>1, <4>1, <4>2 DEF PlaceInv
    <3>4. CASE j \notin 1..m /\ k \in 1..m
      <4>1. fifo'[k].env \in Queued
        <5>1. fifo'[k] = fifo[k] /\ k \in DOMAIN fifo
          BY <1>5, <3>4
        <5> QED
          BY <2>1, <5>1 DEF Queued
      <4>2. fifo'[j].env \in Listed
        BY <1>2, <1>6, <3>4 DEF Listed
      <4> QED
        BY <1>1, <2>1, <4>1, <4>2 DEF PlaceInv
    <3> QED
      BY <3>1, <3>2, <3>3, <3>4
  <2>2. \A k \in BlockIds, j \in RowIds : Row(k, j)' = Row(k, j)
    BY ReportedFrame
  <2>3. \A j, k \in DOMAIN fifo' : fifo'[j].env \in Envs /\ fifo'[j].env = fifo'[k].env => j = k
    BY <1>5, <2>1
  <2>4. \A v, w \in Holders' : slice'[v].env \in Envs /\ slice'[v].env = slice'[w].env => v = w
    BY <1>1, <1>8 DEF OnceInv
  <2> QED
    BY <1>1, <2>2, <2>3, <2>4, ConfigFrame DEF OnceInv
<1>12. StopInv'
  <2>1. ~stop
    BY <1>1 DEF StopInv
  <2>2. ASSUME NEW k \in 1..(m + n) PROVE fifo'[k].env # Nothing
    <3>1. CASE k \in 1..m /\ fifo'[k] = fifo[k]
      BY <1>1, <1>20, <2>1, <3>1 DEF StopInv
    <3>2. CASE k - m \in 1..n /\ fifo'[k].env = list[k - m]
      BY <1>2, <3>2, SizesAssumption
    <3> QED
      BY <1>6, <3>1, <3>2
  <2> QED
    BY <1>1, <1>5, <2>1, <2>2 DEF StopInv
<1>13. RequestInv'
  <2>1. ASSUME NEW k \in 1..(m + n) PROVE Carries(fifo[k])'
    <3>1. CASE k \in 1..m /\ fifo'[k] = fifo[k]
      BY <1>1, <1>20, <3>1 DEF RequestInv, Carries
    <3>2. CASE /\ k - m \in 1..n /\ fifo'[k].env = list[k - m]
               /\ fifo'[k].forceReset = (what = "reset")
      <4>1. /\ asked[list[k - m]] = what
            /\ what # "reset" => actionBatch[list[k - m]] = what
        BY <1>1, <1>2, <3>2 DEF RequestInv
      <4> QED
        BY <3>2, <4>1 DEF Carries
    <3> QED
      BY <1>6, <3>1, <3>2
  <2> QED
    BY <1>1, <1>5, <2>1 DEF RequestInv, Carries
<1>14. CountInv' /\ RowInv' /\ RecvInv' /\ SyncRowInv'
  BY <1>1, CountFrame, RowFrame, RecvFrame, SyncRowFrame
<1>15. OrderInv'
  <2>1. ASSUME NEW k \in 1..(m + n) PROVE Ordered(fifo[k])'
    <3>1. CASE k \in 1..m /\ fifo'[k] = fifo[k]
      BY <1>1, <1>3, <1>5, <3>1 DEF OrderInv, Ordered
    <3>2. CASE /\ k - m \in 1..n /\ fifo'[k].env = list[k - m]
               /\ fifo'[k].order = IF IsSync THEN (k - m) - 1 ELSE -1
      <4>1. CASE IsSync
        <5>1. list = lastList
          BY <1>1, <1>2, <4>1 DEF SyncInv
        <5>2. fifo'[k].order + 1 = k - m
          BY <1>5, <3>2, <4>1
        <5> QED
          BY <1>2, <1>3, <3>2, <4>1, <5>1, <5>2 DEF Ordered
      <4>2. CASE ~IsSync
        BY <1>3, <3>2, <4>2 DEF Ordered
      <4> QED
        BY <4>1, <4>2
    <3> QED
      BY <1>6, <3>1, <3>2
  <2> QED
    BY <1>1, <1>3, <1>5, <1>8, <2>1 DEF OrderInv, Ordered
<1>16. SyncInv'
  BY <1>1, <1>2, <1>3, <1>8 DEF SyncInv
<1> QED
  BY <1>9, <1>10, <1>11, <1>12, <1>13, <1>14, <1>15, <1>16 DEF IInv

LEMMA SetStopInductive == IInv /\ SetStop => IInv'
<1> SUFFICES ASSUME IInv, SetStop PROVE IInv'
  OBVIOUS
<1> USE DEF SetStop, SendStep, recvVars, workerVars, queueVars, driverVars, envVars
<1>1. /\ TypeOK /\ StopInv /\ RequestInv /\ SyncInv
  BY DEF IInv
<1>2. TypeOK'
  BY <1>1, ConfigFrame DEF TypeOK
<1>3. PlaceInv' /\ OnceInv' /\ CountInv' /\ RowInv' /\ RecvInv' /\ OrderInv' /\ SyncRowInv'
  BY SenderFrame
<1>4. StopInv'
  BY <1>1 DEF StopInv
<1>5. RequestInv'
  BY <1>1 DEF RequestInv, Carries
<1>6. SyncInv'
  BY <1>1, ConfigFrame, OutstandingFrame DEF SyncInv
<1> QED
  BY <1>2, <1>3, <1>4, <1>5, <1>6 DEF IInv

LEMMA EnqueuePoisonInductive == IInv /\ EnqueuePoison => IInv'
<1> SUFFICES ASSUME IInv, EnqueuePoison PROVE IInv'
  OBVIOUS
<1> DEFINE m == Len(fifo)
           n == Cardinality(Workers)
           poison == [k \in 1..n |-> EmptySlice]
<1>a. /\ spc = "poison" /\ spc' = "join" /\ fifo' = fifo \o poison
      /\ UNCHANGED <<config, stop, steppingEnvNum, allocCount, blocks, list, what, i>>
      /\ UNCHANGED <<actionBatch, done, elapsed, rpc, additional, rows, wpc, slice, result, place>>
      /\ UNCHANGED <<asked, lastList, received>>
  BY DEF EnqueuePoison, SendStep, recvVars, workerVars, driverVars, envVars
<1> HIDE DEF poison
<1>1. /\ TypeOK /\ PlaceInv /\ OnceInv /\ StopInv /\ RequestInv /\ CountInv /\ RowInv /\ RecvInv
      /\ OrderInv /\ SyncInv /\ SyncRowInv
  BY DEF IInv
<1>2. /\ Batch \in Nat \ {0} /\ IsSync' = IsSync /\ SliceType' = SliceType /\ n \in Nat
      /\ UNCHANGED <<Batch, BlockIds, RowIds, BlockType>>
  BY <1>a, <1>1, Sizes, ConfigFrame, SizesAssumption, FS_CardinalityType DEF TypeOK
<1>3. EmptySlice \in SliceType /\ EmptySlice.env = Nothing /\ Nothing \notin Envs
  <2>1. 0 \in -1..(Batch - 1)
    BY <1>a, <1>2
  <2> QED
    BY <1>a, <2>1, SizesAssumption DEF EmptySlice, SliceType
<1>4. poison \in Seq(SliceType) /\ Len(poison) = n /\ \A k \in 1..n : poison[k] = EmptySlice
  <2>1. poison \in [1..n -> SliceType] /\ \A k \in 1..n : poison[k] = EmptySlice
    BY <1>a, <1>3 DEF poison
  <2> QED
    BY <1>a, <1>2, <2>1
<1>5. /\ fifo' \in Seq(SliceType) /\ DOMAIN fifo' = 1..(m + n) /\ m \in Nat /\ DOMAIN fifo = 1..m
      /\ \A k \in 1..(m + n) : (k \in 1..m /\ fifo'[k] = fifo[k]) \/ fifo'[k] = EmptySlice
      /\ \A k \in 1..m : k \in 1..(m + n) /\ fifo'[k] = fifo[k]
  <2>1. fifo \in Seq(SliceType) /\ m \in Nat
    BY <1>a, <1>1 DEF TypeOK
  <2>2. fifo' = fifo \o poison
    BY <1>a
  <2>3. fifo' \in Seq(SliceType) /\ Len(fifo') = m + n
        /\ \A k \in 1..(m + n) : fifo'[k] = IF k <= m THEN fifo[k] ELSE poison[k - m]
    BY ONLY <1>4, <2>1, <2>2, ConcatProperties
  <2>4. ASSUME NEW k \in 1..(m + n)
        PROVE  (k \in 1..m /\ fifo'[k] = fifo[k]) \/ fifo'[k] = EmptySlice
    <3>1. k <= m \/ k - m \in 1..n
      BY <1>a, <1>2, <2>1
    <3> QED
      BY <1>a, <1>2, <1>4, <2>1, <2>3, <3>1
  <2>5. DOMAIN fifo' = 1..(m + n) /\ DOMAIN fifo = 1..m
    BY ONLY <2>1, <2>3, LenProperties
  <2>6. ASSUME NEW k \in 1..m PROVE k \in 1..(m + n) /\ fifo'[k] = fifo[k]
    BY <1>a, <1>2, <2>1, <2>3
  <2> QED
    BY <1>a, <2>1, <2>3, <2>4, <2>5, <2>6
<1>6. Queued' = Queued
  BY <1>a, <1>3, <1>5 DEF Queued
<1>7. Listed' = Listed /\ Held' = Held /\ Holders' = Holders /\ Reported' = Reported
      /\ Returned' = Returned /\ Outstanding' = Outstanding
  BY <1>a, ListedFrame, HeldFrame, ReportedFrame, ReturnedFrame, OutstandingFrame
<1>8. TypeOK'
  <2>1. fifo' \in Seq(SliceType)
    BY <1>a, <1>5
  <2> QED
    BY <1>a, <1>1, <1>2, <2>1 DEF TypeOK
<1>9. PlaceInv'
  BY <1>a, <1>1, <1>6, <1>7, PlaceFrame
<1>10. OnceInv'
  <2>1. ASSUME NEW j \in 1..(m + n), NEW k \in 1..(m + n),
               fifo'[j].env \in Envs, fifo'[j].env = fifo'[k].env
        PROVE  j = k
    <3>1. /\ j \in 1..m /\ fifo'[j] = fifo[j]
          /\ k \in 1..m /\ fifo'[k] = fifo[k]
      BY <1>a, <1>3, <1>5, <2>1
    <3> QED
      BY <1>a, <1>1, <1>5, <2>1, <3>1 DEF OnceInv
  <2>2. \A k \in BlockIds, j \in RowIds : Row(k, j)' = Row(k, j)
    BY <1>a, ReportedFrame
  <2>3. \A j, k \in DOMAIN fifo' : fifo'[j].env \in Envs /\ fifo'[j].env = fifo'[k].env => j = k
    BY <1>a, <1>5, <2>1
  <2>4. \A v, w \in Holders' : slice'[v].env \in Envs /\ slice'[v].env = slice'[w].env => v = w
    BY <1>a, <1>1, <1>7 DEF OnceInv
  <2> QED
    BY <1>a, <1>1, <2>2, <2>3, <2>4, ConfigFrame DEF OnceInv
<1>11. StopInv'
  BY <1>a, <1>1, <1>5 DEF StopInv
<1>12. RequestInv'
  <2>1. ASSUME NEW k \in 1..(m + n) PROVE Carries(fifo[k])'
    <3>1. CASE k \in 1..m /\ fifo'[k] = fifo[k]
      <4>1. Carries(fifo[k])
        BY <1>a, <1>1, <1>5, <3>1 DEF RequestInv
      <4> QED
        BY <1>a, <3>1, <4>1 DEF Carries
    <3>2. CASE fifo'[k] = EmptySlice
      BY <1>a, <1>3, <3>2 DEF Carries
    <3> QED
      BY <1>a, <1>5, <3>1, <3>2
  <2>2. \A k \in DOMAIN fifo' : Carries(fifo[k])'
    BY <1>a, <1>5, <2>1
  <2> QED
    BY <1>a, <1>1, <2>2 DEF RequestInv, Carries
<1>13. CountInv' /\ RowInv' /\ RecvInv' /\ SyncRowInv'
  BY <1>a, <1>1, CountFrame, RowFrame, RecvFrame, SyncRowFrame
<1>14. OrderInv'
  BY <1>a, <1>1, <1>2, <1>3, <1>5, <1>7 DEF OrderInv, Ordered
<1>15. SyncInv'
  BY <1>a, <1>1, <1>2, <1>7, ConfigFrame DEF SyncInv
<1> QED
  BY <1>a, <1>8, <1>9, <1>10, <1>11, <1>12, <1>13, <1>14, <1>15 DEF IInv

LEMMA JoinInductive == IInv /\ Join => IInv'
<1> SUFFICES ASSUME IInv, Join PROVE IInv'
  OBVIOUS
<1> USE DEF Join, SendStep, recvVars, workerVars, queueVars, driverVars, envVars
<1>1. /\ TypeOK /\ StopInv /\ RequestInv /\ SyncInv
  BY DEF IInv
<1>2. TypeOK'
  BY <1>1, ConfigFrame DEF TypeOK
<1>3. PlaceInv' /\ OnceInv' /\ CountInv' /\ RowInv' /\ RecvInv' /\ OrderInv' /\ SyncRowInv'
  BY SenderFrame
<1>4. StopInv'
  BY <1>1 DEF StopInv
<1>5. RequestInv'
  BY <1>1 DEF RequestInv, Carries
<1>6. SyncInv'
  BY <1>1, ConfigFrame, OutstandingFrame DEF SyncInv
<1> QED
  BY <1>2, <1>3, <1>4, <1>5, <1>6 DEF IInv
----------------------------------------------------------------------------
(* A worker, up to the position of its row *)

LEMMA RowType_ ==
  ASSUME TypeOK, NEW k \in BlockIds, NEW j \in RowIds, Row(k, j) # Nothing
  PROVE  Row(k, j) \in Envs \X ResultType /\ Row(k, j)[1] \in Envs /\ Row(k, j)[1] \in Reported
<1>1. Row(k, j) \in Envs \X ResultType
  BY DEF TypeOK, BlockType, RowType, Row
<1>2. Row(k, j)[1] \in Envs
  BY <1>1
<1> QED
  BY <1>1, <1>2 DEF Reported

\* The steps of a worker that has no position yet leave blocks and rows alone.
LEMMA EarlyFrame ==
  ASSUME IInv, NEW w \in Workers,
         wpc[w] \in {"dequeue", "check", "run"}, wpc'[w] \in {"check", "run", "allocate", "exit"},
         \A v \in Workers \ {w} : wpc'[v] = wpc[v] /\ slice'[v] = slice[v] /\ result'[v] = result[v],
         UNCHANGED <<config, steppingEnvNum, allocCount, blocks, place, sendVars, recvVars, driverVars>>
  PROVE  /\ CountInv' /\ RowInv' /\ RecvInv' /\ SyncInv' /\ SyncRowInv'
         /\ Writers' = Writers /\ Reported' = Reported /\ Returned' = Returned
         /\ Listed' = Listed /\ Outstanding' = Outstanding
         /\ \A k \in BlockIds, j \in RowIds : Row(k, j)' = Row(k, j)
<1> USE DEF sendVars, recvVars, driverVars
<1>1. TypeOK /\ CountInv /\ RowInv /\ RecvInv /\ SyncInv /\ SyncRowInv
  BY DEF IInv
<1>2. /\ Batch' = Batch /\ IsSync' = IsSync /\ BlockIds' = BlockIds /\ RowIds' = RowIds
      /\ Reported' = Reported /\ Returned' = Returned /\ Listed' = Listed /\ Outstanding' = Outstanding
      /\ \A k \in BlockIds, j \in RowIds : Row(k, j)' = Row(k, j)
  BY ConfigFrame, ReportedFrame, ReturnedFrame, ListedFrame, OutstandingFrame
<1>3. /\ Writers' = Writers /\ w \notin Writers
      /\ \A k \in BlockIds : Active(k)' = Active(k) /\ w \notin Active(k)
  BY DEF Writers, Active
<1>4. \A v \in Writers : v # w /\ slice'[v] = slice[v]
  BY <1>3 DEF Writers
<1>5. \A k \in BlockIds : \A v \in Active(k) :
        v # w /\ wpc'[v] = wpc[v] /\ slice'[v] = slice[v] /\ result'[v] = result[v]
  BY <1>3 DEF Active
<1>6. Placed' = Placed
  BY <1>2, <1>3, <1>4 DEF Placed
<1>7. CountInv'
  <2>1. \A k \in BlockIds : Added(k)' = Added(k)
    BY DEF Added
  <2> QED
    BY <1>1, <1>2, <1>3, <1>6, <2>1 DEF CountInv
<1>8. RowInv'
  <2>1. \A k \in BlockIds : \A v \in Active(k) : Row(k, place[v][2])' = Row(k, place[v][2])
    BY DEF Row
  <2> QED
    BY <1>1, <1>2, <1>3, <1>5, <2>1 DEF RowInv
<1>9. RecvInv' /\ SyncInv'
  BY <1>1, RecvFrame, SyncFrame
<1>10. SyncRowInv'
  <2>1. \A v \in Workers : wpc'[v] \in {"write", "done"} => v # w /\ wpc[v] \in {"write", "done"}
    OBVIOUS
  <2> QED
    BY <1>1, <1>2, <1>3, <1>4, <2>1 DEF SyncRowInv
<1> QED
  BY <1>2, <1>3, <1>7, <1>8, <1>9, <1>10

LEMMA DequeueInductive ==
  ASSUME IInv, NEW w \in Workers, Dequeue(w)
  PROVE  IInv'
<1>1. /\ TypeOK /\ PlaceInv /\ OnceInv /\ StopInv /\ RequestInv /\ OrderInv
  BY DEF IInv
<1>2. /\ wpc[w] = "dequeue" /\ fifo # <<>> /\ fifo' = Tail(fifo)
      /\ wpc' = [wpc EXCEPT ![w] = "check"] /\ slice' = [slice EXCEPT ![w] = Head(fifo)]
      /\ UNCHANGED <<config, stop, steppingEnvNum, allocCount, blocks, actionBatch, done, elapsed>>
      /\ UNCHANGED <<spc, list, what, i, rpc, additional, rows, result, place>>
      /\ UNCHANGED <<asked, lastList, received>>
  BY DEF Dequeue, WorkerStep, envVars, sendVars, recvVars, driverVars
<1> DEFINE m == Len(fifo)
           h == fifo[1]
<1>3. /\ Batch' = Batch /\ IsSync' = IsSync /\ BlockIds' = BlockIds /\ RowIds' = RowIds
      /\ SliceType' = SliceType /\ BlockType' = BlockType
  BY <1>2, ConfigFrame
<1>4. /\ m \in Nat /\ 1 \in 1..m /\ h \in SliceType /\ DOMAIN fifo = 1..m
      /\ fifo' \in Seq(SliceType) /\ DOMAIN fifo' = 1..(m - 1)
      /\ \A k \in 1..(m - 1) : k + 1 \in 1..m /\ k + 1 # 1 /\ fifo'[k] = fifo[k + 1]
      /\ Head(fifo) = h
  <2>1. fifo \in Seq(SliceType)
    BY <1>1 DEF TypeOK
  <2>2. m \in Nat \ {0} /\ DOMAIN fifo = 1..m
    BY <1>2, <2>1, EmptySeq, LenProperties
  <2>3. /\ Tail(fifo) \in Seq(SliceType) /\ Len(Tail(fifo)) = m - 1 /\ Head(fifo) \in SliceType
        /\ \A k \in 1..(m - 1) : Tail(fifo)[k] = fifo[k + 1]
    BY <1>2, <2>1, HeadTailProperties
  <2>4. DOMAIN Tail(fifo) = 1..(m - 1)
    BY <2>3, LenProperties
  <2>5. \A k \in 1..(m - 1) : k + 1 \in 1..m /\ k + 1 # 1
    BY <2>2
  <2>6. Head(fifo) = h
    BY <2>1, <1>2
  <2> HIDE DEF m, h
  <2> QED
    BY <1>2, <2>2, <2>3, <2>4, <2>5, <2>6
<1> HIDE DEF m, h
<1>5. \A v \in Workers : /\ wpc'[v] = IF v = w THEN "check" ELSE wpc[v]
                         /\ slice'[v] = IF v = w THEN h ELSE slice[v]
  BY <1>1, <1>2, <1>4 DEF TypeOK
<1>6. /\ CountInv' /\ RowInv' /\ RecvInv' /\ SyncInv' /\ SyncRowInv'
      /\ Reported' = Reported /\ Returned' = Returned /\ Listed' = Listed /\ Outstanding' = Outstanding
      /\ \A k \in BlockIds, j \in RowIds : Row(k, j)' = Row(k, j)
  BY <1>2, <1>5, EarlyFrame DEF sendVars, recvVars, driverVars
<1>7. Holders' = Holders \cup {w} /\ w \notin Holders
  BY <1>2, <1>5 DEF Holders
<1>8. Held' = Held \cup ({h.env} \cap Envs)
  <2>1. \A v \in Holders : v \in Workers /\ v # w /\ slice'[v] = slice[v]
    BY <1>5, <1>7 DEF Holders
  <2>2. w \in Holders' /\ slice'[w] = h
    BY <1>5, <1>7
  <2>3. ASSUME NEW e \in Held' PROVE e \in Held \cup ({h.env} \cap Envs)
    <3>1. PICK v \in Holders' : slice'[v].env = e
      BY <2>3 DEF Held
    <3>2. e \in Envs
      BY <2>3 DEF Held
    <3> QED
      BY <1>7, <2>1, <2>2, <3>1, <3>2 DEF Held
  <2>4. ASSUME NEW e \in Held PROVE e \in Held'
    <3>1. PICK v \in Holders : slice[v].env = e
      BY <2>4 DEF Held
    <3>2. e \in Envs /\ v \in Holders' /\ slice'[v].env = e
      BY <1>7, <2>1, <2>4, <3>1 DEF Held
    <3> QED
      BY <3>2 DEF Held
  <2>5. h.env \in Envs => h.env \in Held'
    BY <2>2 DEF Held
  <2> QED
    BY <2>3, <2>4, <2>5
<1>9. Queued' \subseteq Queued /\ h.env \notin Queued' /\ (h.env \in Envs => h.env \in Queued)
  <2>1. ASSUME NEW e \in Queued' PROVE e \in Queued /\ e # h.env
    <3>1. PICK k \in 1..(m - 1) : fifo'[k].env = e /\ e \in Envs
      BY <1>4, <2>1 DEF Queued
    <3>2. k + 1 \in DOMAIN fifo /\ 1 \in DOMAIN fifo /\ k + 1 # 1 /\ fifo[k + 1].env = e
      BY <1>4, <3>1
    <3> QED
      BY <1>1, <3>1, <3>2 DEF Queued, OnceInv, h
  <2>2. h.env \in Envs => h.env \in Queued
    BY <1>4 DEF Queued, h
  <2> QED
    BY <2>1, <2>2
<1>10. TypeOK'
  <2>1. slice' \in [Workers -> SliceType]
        /\ wpc' \in [Workers -> {"dequeue", "check", "run", "allocate", "write", "done", "exit"}]
    BY <1>1, <1>2, <1>4 DEF TypeOK
  <2>2. fifo' \in Seq(SliceType)
    BY <1>4
  <2> QED
    BY <1>1, <1>2, <1>3, <2>1, <2>2 DEF TypeOK
<1>11. PlaceInv'
  BY <1>1, <1>6, <1>8, <1>9 DEF PlaceInv
<1>12. OnceInv'
  <2>1. ASSUME NEW j \in DOMAIN fifo', NEW k \in DOMAIN fifo',
               fifo'[j].env \in Envs, fifo'[j].env = fifo'[k].env
        PROVE  j = k
    <3>1. /\ j \in 1..(m - 1) /\ k \in 1..(m - 1)
          /\ j + 1 \in DOMAIN fifo /\ k + 1 \in DOMAIN fifo
          /\ fifo'[j] = fifo[j + 1] /\ fifo'[k] = fifo[k + 1]
      BY <1>4
    <3>2. j + 1 = k + 1
      BY <1>1, <2>1, <3>1 DEF OnceInv
    <3> QED
      BY <1>4, <3>1, <3>2
  <2>2. ASSUME NEW u \in Holders', NEW v \in Holders',
               slice'[u].env \in Envs, slice'[u].env = slice'[v].env
        PROVE  u = v
    <3>1. \A x \in Holders : x \in Workers /\ x # w /\ slice'[x] = slice[x]
                             /\ (slice[x].env \in Envs => slice[x].env \in Held)
      BY <1>5, <1>7 DEF Holders, Held
    <3>2. h.env \in Envs => h.env \notin Held
      BY <1>1, <1>9 DEF PlaceInv
    <3>3. slice'[w] = h
      BY <1>5
    <3> QED
      BY <1>1, <1>7, <2>2, <3>1, <3>2, <3>3 DEF OnceInv
  <2> QED
    BY <1>1, <1>3, <1>6, <2>1, <2>2 DEF OnceInv
<1>13. StopInv'
  <2>1. \A k \in DOMAIN fifo' : fifo'[k].env = Nothing => stop
    BY <1>1, <1>4 DEF StopInv
  <2>2. h.env = Nothing => stop
    BY <1>1, <1>4 DEF StopInv, h
  <2>3. ASSUME NEW v \in Workers, slice'[v].env = Nothing
        PROVE  wpc'[v] \in {"dequeue", "exit"} \/ (wpc'[v] = "check" /\ stop')
    BY <1>1, <1>2, <1>5, <2>2, <2>3 DEF StopInv
  <2> QED
    BY <1>1, <1>2, <2>1, <2>3 DEF StopInv
<1>14. RequestInv'
  <2>1. \A k \in DOMAIN fifo' : Carries(fifo'[k])
    BY <1>1, <1>4 DEF RequestInv
  <2>2. Carries(h)
    BY <1>1, <1>4 DEF RequestInv, h
  <2>3. ASSUME NEW v \in Workers, wpc'[v] \in {"check", "run"} PROVE Carries(slice'[v])
    BY <1>1, <1>5, <2>2, <2>3 DEF RequestInv
  <2>4. \A v \in Workers : wpc'[v] \in {"allocate", "write", "done"} => result'[v] # Nothing
    BY <1>1, <1>2, <1>5 DEF RequestInv
  <2>5. /\ \A k \in DOMAIN fifo' : Carries(fifo[k])'
        /\ \A v \in Workers : wpc'[v] \in {"check", "run"} => Carries(slice[v])'
    BY <1>2, <2>1, <2>3 DEF Carries
  <2> QED
    BY <1>1, <1>2, <2>4, <2>5 DEF RequestInv
<1>15. OrderInv'
  <2>1. \A k \in DOMAIN fifo' : Ordered(fifo'[k])
    BY <1>1, <1>4 DEF OrderInv
  <2>2. Ordered(h)
    BY <1>1, <1>4 DEF OrderInv, h
  <2>3. ASSUME NEW v \in Holders' PROVE Ordered(slice'[v])
    BY <1>1, <1>5, <1>7, <2>2, <2>3 DEF OrderInv, Holders
  <2>4. /\ \A k \in DOMAIN fifo' : Ordered(fifo[k])'
        /\ \A v \in Holders' : Ordered(slice[v])'
    BY <1>2, <1>3, <2>1, <2>3 DEF Ordered
  <2> QED
    BY <2>4 DEF OrderInv
<1> QED
  BY <1>6, <1>10, <1>11, <1>12, <1>13, <1>14, <1>15 DEF IInv

LEMMA CheckStopInductive ==
  ASSUME IInv, NEW w \in Workers, CheckStop(w)
  PROVE  IInv'
<1>1. /\ TypeOK /\ PlaceInv /\ OnceInv /\ StopInv /\ RequestInv /\ OrderInv
  BY DEF IInv
<1>2. /\ wpc[w] = "check" /\ wpc' = [wpc EXCEPT ![w] = IF stop THEN "exit" ELSE "run"]
      /\ UNCHANGED <<config, stop, steppingEnvNum, allocCount, blocks, actionBatch, done, elapsed>>
      /\ UNCHANGED <<fifo, spc, list, what, i, rpc, additional, rows, slice, result, place>>
      /\ UNCHANGED <<asked, lastList, received>>
  BY DEF CheckStop, WorkerStep, envVars, queueVars, sendVars, recvVars, driverVars
<1>3. /\ Batch' = Batch /\ IsSync' = IsSync /\ BlockIds' = BlockIds /\ RowIds' = RowIds
      /\ SliceType' = SliceType /\ BlockType' = BlockType
  BY <1>2, ConfigFrame
<1>4. \A v \in Workers : wpc'[v] = IF v = w THEN (IF stop THEN "exit" ELSE "run") ELSE wpc[v]
  BY <1>1, <1>2 DEF TypeOK
<1>5. /\ CountInv' /\ RowInv' /\ RecvInv' /\ SyncInv' /\ SyncRowInv'
      /\ Reported' = Reported /\ Returned' = Returned /\ Listed' = Listed /\ Outstanding' = Outstanding
      /\ \A k \in BlockIds, j \in RowIds : Row(k, j)' = Row(k, j)
  BY <1>2, <1>4, EarlyFrame DEF sendVars, recvVars, driverVars
<1>6. Holders' \subseteq Holders /\ Held' \subseteq Held /\ Queued' = Queued
  <2>1. Holders' \subseteq Holders
    BY <1>2, <1>4 DEF Holders
  <2> QED
    BY <1>2, <2>1, QueuedFrame DEF Held
<1>7. TypeOK'
  <2>1. wpc' \in [Workers -> {"dequeue", "check", "run", "allocate", "write", "done", "exit"}]
    BY <1>1, <1>2 DEF TypeOK
  <2> QED
    BY <1>1, <1>2, <1>3, <2>1 DEF TypeOK
<1>8. PlaceInv'
  BY <1>1, <1>5, <1>6, PlaceFrame
<1>9. OnceInv'
  <2>1. \A u, v \in Holders' : slice'[u].env \in Envs /\ slice'[u].env = slice'[v].env => u = v
    BY <1>1, <1>2, <1>6 DEF OnceInv
  <2> QED
    BY <1>1, <1>2, <1>3, <1>5, <2>1 DEF OnceInv
<1>10. StopInv'
  <2>1. ASSUME NEW v \in Workers, slice'[v].env = Nothing
        PROVE  wpc'[v] \in {"dequeue", "exit"} \/ (wpc'[v] = "check" /\ stop')
    BY <1>1, <1>2, <1>4, <2>1 DEF StopInv
  <2> QED
    BY <1>1, <1>2, <2>1 DEF StopInv
<1>11. RequestInv'
  <2>1. \A v \in Workers : wpc'[v] \in {"check", "run"} => Carries(slice[v])'
    <3>1. \A v \in Workers : wpc'[v] \in {"check", "run"} => Carries(slice[v])
      BY <1>1, <1>2, <1>4 DEF RequestInv
    <3> QED
      BY <1>2, <3>1 DEF Carries
  <2>2. \A k \in DOMAIN fifo : Carries(fifo[k])'
    BY <1>1, <1>2 DEF RequestInv, Carries
  <2>3. \A v \in Workers : wpc'[v] \in {"allocate", "write", "done"} => result'[v] # Nothing
    BY <1>1, <1>2, <1>4 DEF RequestInv
  <2> QED
    BY <1>1, <1>2, <2>1, <2>2, <2>3 DEF RequestInv
<1>12. OrderInv'
  BY <1>1, <1>2, <1>3, <1>6 DEF OrderInv, Ordered
<1> QED
  BY <1>5, <1>7, <1>8, <1>9, <1>10, <1>11, <1>12 DEF IInv

\* An env steps no further than the end of its episode.
LEMMA RunEnvInductive ==
  ASSUME IInv, NEW w \in Workers, RunEnv(w)
  PROVE  IInv'
<1>1. /\ TypeOK /\ PlaceInv /\ OnceInv /\ StopInv /\ RequestInv /\ OrderInv
  BY DEF IInv
<1> DEFINE e == slice[w].env
           r == slice[w].forceReset \/ done[e]
           steps == IF r THEN 0 ELSE elapsed[e] + 1
           answer(d) == [did |-> IF r THEN "reset" ELSE actionBatch[e],
                         elapsed |-> steps, done |-> d, trunc |-> d /\ steps >= MaxEpisodeSteps]
<1>2. /\ wpc[w] = "run" /\ wpc' = [wpc EXCEPT ![w] = "allocate"]
      /\ elapsed' = [elapsed EXCEPT ![e] = steps]
      /\ UNCHANGED <<config, stop, steppingEnvNum, allocCount, blocks, actionBatch>>
      /\ UNCHANGED <<fifo, spc, list, what, i, rpc, additional, rows, slice, place>>
      /\ UNCHANGED <<asked, lastList, received>>
  BY DEF RunEnv, Run, WorkerStep, queueVars, sendVars, recvVars, driverVars
<1>3. PICK d \in Outcomes(steps) : done' = [done EXCEPT ![e] = d]
                                   /\ result' = [result EXCEPT ![w] = answer(d)]
  BY DEF RunEnv, Run
<1>4. /\ Batch' = Batch /\ IsSync' = IsSync /\ BlockIds' = BlockIds /\ RowIds' = RowIds
      /\ SliceType' = SliceType /\ BlockType' = BlockType
  BY <1>2, ConfigFrame
<1>5. e \in Envs /\ w \in Holders /\ e \in Held /\ asked[e] # Nothing /\ slice[w] \in SliceType
  <2>1. slice[w] \in SliceType /\ e # Nothing
    BY <1>1, <1>2 DEF TypeOK, StopInv
  <2>2. e \in Envs /\ w \in Holders
    BY <1>2, <2>1 DEF SliceType, Holders
  <2> QED
    BY <1>1, <2>1, <2>2 DEF Held, PlaceInv, Outstanding
<1>6. /\ MaxEpisodeSteps \in Nat /\ d \in BOOLEAN /\ (steps >= MaxEpisodeSteps => d)
      /\ steps \in 0..MaxEpisodeSteps
  <2>1. MaxEpisodeSteps \in Nat /\ elapsed[e] \in -1..MaxEpisodeSteps
    BY <1>1, <1>5, SizesAssumption DEF TypeOK
  <2>2. elapsed[e] >= MaxEpisodeSteps => r
    BY <1>1, <1>5 DEF RequestInv
  <2>3. steps \in 0..MaxEpisodeSteps
    BY <2>1, <2>2
  <2> HIDE DEF steps
  <2> QED
    BY <2>1, <2>3 DEF Outcomes
<1> HIDE DEF steps
<1>7. answer(d) \in ResultType /\ answer(d) # Nothing
  <2>1. (IF r THEN "reset" ELSE actionBatch[e]) \in Actions \cup {"reset"}
    <3>1. ~r => actionBatch[e] = asked[e] /\ asked[e] \in Actions \cup {"reset", Nothing}
      BY <1>1, <1>2, <1>5 DEF RequestInv, Carries, TypeOK
    <3> QED
      BY <1>5, <3>1
  <2>2. (d /\ steps >= MaxEpisodeSteps) \in BOOLEAN
    BY <1>6
  <2>3. answer(d) \in ResultType
    BY <1>6, <2>1, <2>2 DEF ResultType
  <2> QED
    BY <2>3, NothingAssumption
<1> HIDE DEF answer
<1>8. /\ \A v \in Workers : /\ wpc'[v] = IF v = w THEN "allocate" ELSE wpc[v]
                            /\ result'[v] = IF v = w THEN answer(d) ELSE result[v]
      /\ \A x \in Envs : /\ elapsed'[x] = IF x = e THEN steps ELSE elapsed[x]
                         /\ done'[x] = IF x = e THEN d ELSE done[x]
  BY <1>1, <1>2, <1>3, <1>5 DEF TypeOK
<1>9. /\ CountInv' /\ RowInv' /\ RecvInv' /\ SyncInv' /\ SyncRowInv'
      /\ Reported' = Reported /\ Returned' = Returned /\ Listed' = Listed /\ Outstanding' = Outstanding
      /\ \A k \in BlockIds, j \in RowIds : Row(k, j)' = Row(k, j)
  BY <1>2, <1>8, EarlyFrame DEF sendVars, recvVars, driverVars
<1>10. Holders' = Holders /\ Held' = Held /\ Queued' = Queued
  <2>1. Holders' = Holders
    BY <1>2, <1>8 DEF Holders
  <2> QED
    BY <1>2, <2>1, QueuedFrame DEF Held
<1>11. TypeOK'
  <2>1. /\ wpc' \in [Workers -> {"dequeue", "check", "run", "allocate", "write", "done", "exit"}]
        /\ result' \in [Workers -> ResultType \cup {Nothing}]
    BY <1>1, <1>2, <1>3, <1>7 DEF TypeOK
  <2>2. done' \in [Envs -> BOOLEAN]
    BY <1>1, <1>3, <1>6 DEF TypeOK
  <2>3. elapsed' \in [Envs -> -1..MaxEpisodeSteps]
    <3>1. steps \in -1..MaxEpisodeSteps
      BY <1>6
    <3> QED
      BY <1>1, <1>2, <3>1 DEF TypeOK
  <2> QED
    BY <1>1, <1>2, <1>4, <2>1, <2>2, <2>3 DEF TypeOK
<1>12. PlaceInv'
  BY <1>1, <1>9, <1>10, PlaceFrame
<1>13. OnceInv'
  BY <1>1, <1>2, <1>4, <1>9, <1>10 DEF OnceInv
<1>14. StopInv'
  BY <1>1, <1>2, <1>5, <1>8, SizesAssumption DEF StopInv
<1>15. RequestInv'
  <2>1. \A v \in Workers : wpc'[v] \in {"check", "run"} => Carries(slice[v])'
    <3>1. \A v \in Workers : wpc'[v] \in {"check", "run"} => Carries(slice[v])
      BY <1>1, <1>8 DEF RequestInv
    <3> QED
      BY <1>2, <3>1 DEF Carries
  <2>2. \A k \in DOMAIN fifo : Carries(fifo[k])'
    BY <1>1, <1>2 DEF RequestInv, Carries
  <2>3. \A v \in Workers : wpc'[v] \in {"allocate", "write", "done"} => result'[v] # Nothing
    BY <1>1, <1>7, <1>8 DEF RequestInv
  <2>4. \A x \in Envs : elapsed'[x] >= MaxEpisodeSteps => done'[x]
    BY <1>1, <1>6, <1>8 DEF RequestInv
  <2> QED
    BY <1>1, <1>2, <2>1, <2>2, <2>3, <2>4 DEF RequestInv
<1>16. OrderInv'
  BY <1>1, <1>2, <1>4, <1>10 DEF OrderInv, Ordered
<1> QED
  BY <1>9, <1>11, <1>12, <1>13, <1>14, <1>15, <1>16 DEF IInv

----------------------------------------------------------------------------
(* The block at the head *)

\* The envs that have a position are asked, and counted.
LEMMA PlacedFacts ==
  ASSUME IInv
  PROVE  /\ Placed \subseteq Reported \cup Held /\ Reported \subseteq Placed
         /\ Placed \subseteq Outstanding /\ Placed \subseteq Envs /\ IsFiniteSet(Placed)
         /\ \A k \in BlockIds : IsFiniteSet(Active(k)) /\ Cardinality(Active(k)) \in Nat
<1>1. Placed \subseteq Reported \cup Held /\ Reported \subseteq Placed
  BY DEF Placed, Held, Writers, Holders
<1>2. Placed \subseteq Outstanding /\ Placed \subseteq Envs
  BY <1>1 DEF IInv, PlaceInv, Reported, Held
<1>3. IsFiniteSet(Placed)
  BY <1>2, EnvsFinite, FS_Subset
<1>4. \A k \in BlockIds : IsFiniteSet(Active(k)) /\ Cardinality(Active(k)) \in Nat
  BY SizesAssumption, FS_Subset, FS_CardinalityType DEF Active
<1> QED
  BY <1>1, <1>2, <1>3, <1>4

\* The head has the first positions.
LEMMA HeadAllocated ==
  ASSUME IInv
  PROVE  /\ allocCount \in Nat /\ allocCount <= NumEnvs
         /\ allocCount < Batch => blocks[0].allocCount = allocCount
         /\ allocCount >= Batch => blocks[0].allocCount = Batch
<1>1. TypeOK /\ CountInv
  BY DEF IInv
<1>2. Batch \in Nat \ {0} /\ NumEnvs \in Nat /\ 0 \in BlockIds /\ allocCount \in Nat /\ allocCount <= NumEnvs
  BY <1>1, Sizes DEF TypeOK
<1>3. blocks[0].allocCount = IF 0 < allocCount \div Batch THEN Batch
                             ELSE IF 0 = allocCount \div Batch THEN allocCount % Batch ELSE 0
  BY <1>1, <1>2 DEF CountInv
<1>4. ASSUME allocCount < Batch PROVE blocks[0].allocCount = allocCount
  <2>1. allocCount \in 0..(Batch - 1)
    BY <1>2, <1>4
  <2>2. allocCount \div Batch = 0 /\ allocCount % Batch = allocCount
    BY <1>2, <2>1, DivSmall
  <2> QED
    BY <1>3, <2>2
<1>5. ASSUME allocCount >= Batch PROVE blocks[0].allocCount = Batch
  <2>1. allocCount \div Batch >= 1 /\ allocCount \div Batch \in Nat
    BY <1>2, <1>5, DivModBack, DivMod
  <2> QED
    BY <1>3, <2>1
<1> QED
  BY <1>2, <1>4, <1>5

\* Recv adds for the envs that do not step no more than the rows they leave.
LEMMA HeadBound ==
  ASSUME IInv, rpc \in {"done", "wait", "replace"}
  PROVE  /\ blocks[0].allocCount + additional <= Batch
         /\ additional \in 0..Batch /\ blocks[0].allocCount \in 0..Batch /\ blocks[0].doneCount \in 0..Batch
         /\ Batch \in Nat \ {0}
<1>1. TypeOK /\ RecvInv /\ SyncInv /\ CountInv
  BY DEF IInv
<1>2. Batch \in Nat \ {0} /\ 0 \in BlockIds /\ NumEnvs \in Nat /\ additional \in 0..Batch
      /\ IsSync \in BOOLEAN /\ (IsSync => Batch = NumEnvs)
  BY <1>1, Sizes DEF TypeOK
<1>3. blocks[0].allocCount \in 0..Batch /\ blocks[0].doneCount \in 0..Batch
  BY <1>1, <1>2 DEF TypeOK, BlockType
<1>4. ASSUME ~IsSync PROVE blocks[0].allocCount + additional <= Batch
  <2>1. additional = 0
    BY <1>1, <1>4 DEF RecvInv
  <2> QED
    BY <1>2, <1>3, <2>1
<1>5. ASSUME IsSync PROVE blocks[0].allocCount + additional <= Batch
  <2>1. /\ additional = Batch - Len(lastList) /\ Outstanding = EnvsOf(lastList) /\ lastList # <<>>
    BY <1>1, <1>5 DEF SyncInv
  <2>2. lastList \in Lists
    BY <1>1, <2>1 DEF TypeOK
  <2>3. IsFiniteSet(Outstanding) /\ Cardinality(Outstanding) = Len(lastList)
        /\ Len(lastList) \in Nat /\ Len(lastList) <= NumEnvs
    BY <2>1, <2>2, ListSize, ListType
  <2>4. allocCount = Cardinality(Placed) /\ Cardinality(Placed) <= Cardinality(Outstanding)
    BY <1>1, <2>3, PlacedFacts, FS_Subset DEF CountInv
  <2>5. allocCount \in Nat /\ blocks[0].allocCount <= allocCount
    BY <1>2, <1>3, HeadAllocated
  <2> QED
    BY <1>2, <1>3, <2>1, <2>3, <2>4, <2>5
<1> QED
  BY <1>2, <1>3, <1>4, <1>5

\* When the head is complete, nobody uses it any more, and its rows are written
\* up to the envs that did not step.
LEMMA HeadComplete ==
  ASSUME IInv, rpc \in {"wait", "replace"}, blocks[0].doneCount = Batch
  PROVE  /\ Active(0) = {}
         /\ blocks[0].allocCount = Batch - additional
         /\ IF additional > 0 THEN allocCount = Batch - additional ELSE allocCount >= Batch
         /\ \A j \in RowIds : Row(0, j) # Nothing <=> j < Batch - additional
         /\ IsSync => Len(lastList) = Batch - additional
<1>1. TypeOK /\ RecvInv /\ SyncInv /\ SyncRowInv /\ CountInv /\ RowInv
  BY DEF IInv
<1>2. /\ Batch \in Nat \ {0} /\ 0 \in BlockIds /\ NumEnvs \in Nat /\ additional \in 0..Batch
      /\ IsSync \in BOOLEAN /\ (IsSync => Batch = NumEnvs)
  BY <1>1, Sizes DEF TypeOK
<1>3. blocks[0].allocCount + additional <= Batch /\ blocks[0].allocCount \in 0..Batch
  BY HeadBound
<1>4. /\ Batch + Cardinality(Active(0)) = blocks[0].allocCount + additional
      /\ IsFiniteSet(Active(0)) /\ Cardinality(Active(0)) \in Nat
  <2>1. Added(0) = additional
    BY DEF Added
  <2>2. blocks[0].doneCount + Cardinality(Active(0)) = blocks[0].allocCount + Added(0)
    BY <1>1, <1>2 DEF CountInv
  <2> QED
    BY <1>2, <2>1, <2>2, PlacedFacts
<1>5. Cardinality(Active(0)) = 0 /\ blocks[0].allocCount = Batch - additional
  BY <1>2, <1>3, <1>4
<1>6. Active(0) = {}
  BY <1>4, <1>5, FS_EmptySet
<1>7. IF additional > 0 THEN allocCount = Batch - additional ELSE allocCount >= Batch
  BY <1>2, <1>5, HeadAllocated
<1>8. CASE ~IsSync
  <2>1. additional = 0
    BY <1>1, <1>8 DEF RecvInv
  <2>2. ASSUME NEW j \in RowIds PROVE Row(0, j) # Nothing /\ j < Batch - additional
    <3>1. j < Batch - additional /\ j < blocks[0].allocCount
      BY <1>2, <1>5, <2>1 DEF RowIds
    <3> QED
      BY <1>1, <1>2, <1>6, <1>8, <3>1 DEF RowInv
  <2> QED
    BY <1>5, <1>6, <1>7, <1>8, <2>2
<1>9. CASE IsSync
  <2>1. /\ additional = Batch - Len(lastList) /\ Outstanding = EnvsOf(lastList) /\ lastList # <<>>
    BY <1>1, <1>9 DEF SyncInv
  <2>2. lastList \in Lists
    BY <1>1, <2>1 DEF TypeOK
  <2>3. /\ IsFiniteSet(Outstanding) /\ Cardinality(Outstanding) = Len(lastList)
        /\ Len(lastList) \in Nat /\ Len(lastList) <= NumEnvs /\ DOMAIN lastList = 1..Len(lastList)
        /\ \A j, k \in DOMAIN lastList : lastList[j] = lastList[k] => j = k
        /\ \A k \in DOMAIN lastList : lastList[k] \in EnvsOf(lastList) /\ lastList[k] \in Envs
    BY <2>1, <2>2, ListSize, ListType
  <2>4. Len(lastList) = Batch - additional
    BY <1>2, <2>1, <2>3
  <2>5. allocCount = Len(lastList)
    BY <1>2, <1>7, <1>9, <2>3, <2>4, HeadAllocated
  <2>6. Placed = Outstanding
    BY <1>1, <2>3, <2>5, PlacedFacts, FS_Subset DEF CountInv
  <2>7. Writers = {}
    BY <1>1, <1>6, <1>9 DEF SyncRowInv, Writers, Active
  <2>8. Reported = EnvsOf(lastList)
    BY <2>1, <2>6, <2>7 DEF Placed
  <2>9. ASSUME NEW j \in RowIds, j < Batch - additional PROVE Row(0, j) # Nothing
    <3>1. j + 1 \in DOMAIN lastList /\ j \in Nat
      BY <1>2, <2>3, <2>4, <2>9 DEF RowIds
    <3>2. PICK k \in BlockIds, n \in RowIds : Row(k, n) # Nothing /\ Row(k, n)[1] = lastList[j + 1]
      BY <2>3, <2>8, <3>1 DEF Reported
    <3>3. k = 0 /\ n + 1 \in DOMAIN lastList /\ Row(k, n)[1] = lastList[n + 1]
      BY <1>1, <1>9, <3>2 DEF SyncRowInv
    <3>4. n + 1 = j + 1
      BY <2>3, <3>1, <3>2, <3>3
    <3>5. n = j
      BY <3>1, <3>4 DEF RowIds
    <3> QED
      BY <3>2, <3>3, <3>5
  <2>10. ASSUME NEW j \in RowIds, Row(0, j) # Nothing PROVE j < Batch - additional
    <3>1. j + 1 \in 1..Len(lastList)
      BY <1>1, <1>2, <1>9, <2>3, <2>10 DEF SyncRowInv
    <3> QED
      BY <1>2, <2>3, <2>4, <3>1 DEF RowIds
  <2> QED
    BY <1>5, <1>6, <1>7, <2>4, <2>9, <2>10
<1> QED
  BY <1>2, <1>8, <1>9

----------------------------------------------------------------------------
(* A worker and its row *)

\* The env whose worker asks for a position has none yet, so there is one left,
\* and its row is free.
LEMMA FreeRow ==
  ASSUME IInv, NEW w \in Workers, wpc[w] = "allocate",
         NEW k, k = allocCount \div Batch,
         NEW row, row = IF slice[w].order # -1 /\ SinglePlayer
                        THEN slice[w].order ELSE blocks[k].allocCount
  PROVE  /\ slice[w].env \in Envs /\ slice[w].env \notin Placed
         /\ allocCount \in Nat /\ allocCount + 1 <= NumEnvs
         /\ k \in BlockIds /\ row \in RowIds /\ Row(k, row) = Nothing
         /\ blocks[k].allocCount = allocCount % Batch
         /\ \A v \in Active(k) : place[v][2] # row
         /\ IsSync => k = 0 /\ row = slice[w].order
         /\ ~IsSync => row = blocks[k].allocCount
<1> DEFINE e == slice[w].env
<1>1. /\ TypeOK /\ PlaceInv /\ OnceInv /\ StopInv /\ CountInv /\ RowInv /\ OrderInv /\ SyncInv /\ SyncRowInv
  BY DEF IInv
<1>2. /\ Batch \in Nat \ {0} /\ NumEnvs \in Nat /\ allocCount \in Nat /\ allocCount <= NumEnvs
      /\ IsSync \in BOOLEAN /\ (IsSync => Batch = NumEnvs /\ SinglePlayer)
      /\ k \in BlockIds /\ allocCount % Batch \in RowIds /\ 0 \in BlockIds
  BY <1>1, Sizes DEF TypeOK
<1>3. e \in Envs /\ w \in Holders /\ e \in Held /\ slice[w] \in SliceType
  <2>1. slice[w] \in SliceType /\ e # Nothing
    BY <1>1 DEF TypeOK, StopInv
  <2> QED
    BY <2>1 DEF SliceType, Holders, Held
<1>4. e \notin Reported /\ e \notin Placed
  <2>1. e \notin Reported
    BY <1>1, <1>3 DEF PlaceInv
  <2>2. ASSUME NEW v \in Writers, slice[v].env = e PROVE FALSE
    <3>1. v \in Holders /\ v # w
      BY <2>2 DEF Writers, Holders
    <3> QED
      BY <1>1, <1>3, <2>2, <3>1 DEF OnceInv
  <2> QED
    BY <2>1, <2>2 DEF Placed
<1>5. allocCount + 1 <= NumEnvs
  <2>1. IsFiniteSet(Placed) /\ Placed \cup {e} \subseteq Envs /\ allocCount = Cardinality(Placed)
    BY <1>1, <1>3, PlacedFacts DEF CountInv
  <2>2. Cardinality(Placed \cup {e}) = allocCount + 1
    BY <1>4, <2>1, FS_AddElement
  <2>3. Cardinality(Placed \cup {e}) <= Cardinality(Envs)
    BY <2>1, EnvsFinite, FS_Subset
  <2> QED
    BY <2>2, <2>3 DEF NumEnvs
<1>6. blocks[k].allocCount = allocCount % Batch
  <2>1. k \in Nat
    BY <1>2, DivMod
  <2> QED
    BY <1>1, <1>2, <2>1 DEF CountInv
<1>7. CASE ~IsSync
  <2>1. row = blocks[k].allocCount
    BY <1>1, <1>3, <1>7 DEF OrderInv, Ordered
  <2>2. row \in RowIds /\ row \in Int
    BY <1>2, <1>6, <2>1 DEF RowIds
  <2>3. Row(k, row) = Nothing
    BY <1>1, <1>2, <1>7, <2>1, <2>2 DEF RowInv
  <2>4. \A v \in Active(k) : place[v][2] # row
    BY <1>1, <1>2, <1>7, <2>1, <2>2 DEF RowInv
  <2> QED
    BY <1>2, <1>3, <1>4, <1>5, <1>6, <1>7, <2>1, <2>2, <2>3, <2>4
<1>8. CASE IsSync
  <2>1. slice[w].order + 1 \in DOMAIN lastList /\ lastList[slice[w].order + 1] = e
        /\ slice[w].order \in Int
    <3>1. slice[w].order + 1 \in DOMAIN lastList /\ lastList[slice[w].order + 1] = e
      BY <1>1, <1>3, <1>8 DEF OrderInv, Ordered
    <3>2. slice[w].order \in Int
      BY <1>2, <1>3 DEF SliceType
    <3> QED
      BY <3>1, <3>2
  <2>2. lastList \in Lists
    <3>1. lastList # <<>>
      BY <2>1
    <3> QED
      BY <1>1, <3>1 DEF TypeOK
  <2>3. DOMAIN lastList = 1..Len(lastList) /\ Len(lastList) \in Nat /\ Len(lastList) <= NumEnvs
    BY <2>2, ListType, EnvsFinite
  <2>4. slice[w].order \in 0..(Batch - 1) /\ slice[w].order # -1
    BY <1>2, <1>8, <2>1, <2>3
  <2>5. row = slice[w].order /\ row \in RowIds
    BY <1>2, <1>8, <2>4 DEF RowIds
  <2>6. k = 0
    <3>1. allocCount \in 0..(Batch - 1)
      BY <1>2, <1>5, <1>8
    <3> QED
      BY <1>2, <3>1, DivSmall
  <2>7. Row(k, row) = Nothing
    <3> SUFFICES ASSUME Row(k, row) # Nothing PROVE FALSE
      OBVIOUS
    <3>1. Row(k, row)[1] = lastList[row + 1] /\ Row(k, row)[1] \in Reported
      BY <1>1, <1>2, <1>8, <2>5, RowType_ DEF SyncRowInv
    <3> QED
      BY <1>4, <2>1, <2>5, <3>1
  <2>8. ASSUME NEW v \in Active(k), place[v][2] = row PROVE FALSE
    <3>1. CASE wpc[v] = "write"
      <4>1. v \in Writers /\ v \in Holders /\ v # w
        BY <3>1 DEF Writers, Holders, Active
      <4>2. slice[v].order = row /\ slice[v] \in SliceType
        BY <1>1, <1>8, <2>8, <4>1 DEF SyncRowInv, TypeOK, Writers
      <4>3. slice[v].env # Nothing
        BY <1>1, <3>1 DEF StopInv, Active
      <4>4. slice[v].env \in Envs
        BY <4>2, <4>3 DEF SliceType
      <4>5. slice[v].env = e
        BY <1>1, <1>8, <2>1, <2>5, <4>1, <4>2, <4>4 DEF OrderInv, Ordered
      <4> QED
        BY <1>1, <1>3, <4>1, <4>5 DEF OnceInv
    <3>2. CASE wpc[v] = "done"
      <4>1. v \in Workers /\ slice[v] \in SliceType /\ slice[v].env # Nothing /\ result[v] # Nothing
            /\ result[v] \in ResultType \cup {Nothing}
        BY <1>1, <3>2 DEF StopInv, RequestInv, IInv, TypeOK, Active
      <4>2. <<slice[v].env, result[v]>> \in Envs \X ResultType
        BY <4>1 DEF SliceType
      <4>3. Row(k, row) = <<slice[v].env, result[v]>>
        BY <1>1, <1>2, <2>8, <3>2 DEF RowInv
      <4> QED
        BY <2>7, <4>2, <4>3, NothingAssumption
    <3> QED
      BY <3>1, <3>2 DEF Active
  <2> QED
    BY <1>2, <1>3, <1>4, <1>5, <1>6, <1>8, <2>5, <2>6, <2>7, <2>8
<1> QED
  BY <1>2, <1>7, <1>8

LEMMA BlockUpdate ==
  ASSUME NEW b \in BlockType, NEW x
  PROVE  /\ [b EXCEPT !.allocCount = x].allocCount = x
         /\ [b EXCEPT !.allocCount = x].doneCount = b.doneCount
         /\ [b EXCEPT !.allocCount = x].rows = b.rows
         /\ [b EXCEPT !.doneCount = x].allocCount = b.allocCount
         /\ [b EXCEPT !.doneCount = x].doneCount = x
         /\ [b EXCEPT !.doneCount = x].rows = b.rows
         /\ [b EXCEPT !.rows = x].allocCount = b.allocCount
         /\ [b EXCEPT !.rows = x].doneCount = b.doneCount
         /\ [b EXCEPT !.rows = x].rows = x
  BY DEF BlockType

LEMMA AllocateInductive ==
  ASSUME IInv, NEW w \in Workers, Allocate(w)
  PROVE  IInv'
<1> DEFINE e == slice[w].env
<1>1. /\ TypeOK /\ PlaceInv /\ OnceInv /\ StopInv /\ RequestInv /\ CountInv /\ RowInv /\ RecvInv
      /\ OrderInv /\ SyncInv /\ SyncRowInv
  BY DEF IInv
<1>a. wpc[w] = "allocate"
  BY DEF Allocate, WorkerStep
<1>b. allocCount \in Nat /\ Batch \in Nat \ {0} /\ NumEnvs \in Nat /\ 0 \in BlockIds
      /\ allocCount \div Batch \in Nat /\ allocCount % Batch \in 0..(Batch - 1)
  <2>1. allocCount \in Nat /\ Batch \in Nat \ {0} /\ NumEnvs \in Nat /\ 0 \in BlockIds
    BY <1>1, Sizes DEF TypeOK
  <2> QED
    BY <2>1, DivMod
<1>0. PICK k \in BlockIds : k = allocCount \div Batch
  BY <1>a, FreeRow
<1>c. PICK row \in RowIds : row = IF slice[w].order # -1 /\ SinglePlayer
                                  THEN slice[w].order ELSE blocks[k].allocCount
  BY <1>a, <1>0, FreeRow
<1>d. PICK r \in 0..(Batch - 1) : r = allocCount % Batch
  BY <1>b
<1>2. /\ wpc[w] = "allocate" /\ wpc' = [wpc EXCEPT ![w] = "write"]
      /\ allocCount' = allocCount + 1
      /\ blocks' = [blocks EXCEPT ![k].allocCount = @ + 1]
      /\ place' = [place EXCEPT ![w] = <<k, row>>]
      /\ UNCHANGED <<config, stop, steppingEnvNum, actionBatch, done, elapsed, slice, result>>
      /\ UNCHANGED <<fifo, spc, list, what, i, rpc, additional, rows>>
      /\ UNCHANGED <<asked, lastList, received>>
  BY <1>0, <1>c DEF Allocate, WorkerStep, envVars, sendVars, recvVars, driverVars
<1>3. /\ e \in Envs /\ e \notin Placed
      /\ allocCount \in Nat /\ allocCount + 1 <= NumEnvs
      /\ k \in BlockIds /\ row \in RowIds /\ Row(k, row) = Nothing
      /\ blocks[k].allocCount = r
      /\ \A v \in Active(k) : place[v][2] # row
      /\ IsSync => k = 0 /\ row = slice[w].order
      /\ ~IsSync => row = blocks[k].allocCount
  BY <1>a, <1>0, <1>c, <1>d, FreeRow
<1>4. /\ Batch \in Nat \ {0} /\ NumEnvs \in Nat /\ 0 \in BlockIds
      /\ k \in Nat /\ r \in 0..(Batch - 1)
  BY <1>b, <1>0
<1>5. \/ r + 1 < Batch /\ (allocCount + 1) \div Batch = k /\ (allocCount + 1) % Batch = r + 1
      \/ r + 1 = Batch /\ (allocCount + 1) \div Batch = k + 1 /\ (allocCount + 1) % Batch = 0
  <2>1. /\ r + 1 < Batch => (allocCount + 1) \div Batch = k /\ (allocCount + 1) % Batch = r + 1
        /\ r + 1 = Batch => (allocCount + 1) \div Batch = k + 1 /\ (allocCount + 1) % Batch = 0
    BY <1>0, <1>b, <1>d, DivModNext
  <2>2. r + 1 < Batch \/ r + 1 = Batch
    BY <1>4
  <2> QED
    BY <2>1, <2>2
<1>6. /\ Batch' = Batch /\ IsSync' = IsSync /\ BlockIds' = BlockIds /\ RowIds' = RowIds
      /\ SliceType' = SliceType /\ BlockType' = BlockType /\ SinglePlayer' = SinglePlayer
  BY <1>2, ConfigFrame
<1>7. /\ \A v \in Workers : /\ wpc'[v] = IF v = w THEN "write" ELSE wpc[v]
                            /\ place'[v] = IF v = w THEN <<k, row>> ELSE place[v]
      /\ \A m \in BlockIds : /\ blocks'[m].allocCount = IF m = k THEN r + 1 ELSE blocks[m].allocCount
                             /\ blocks'[m].doneCount = blocks[m].doneCount
                             /\ blocks'[m].rows = blocks[m].rows
  <2>1. blocks \in [BlockIds -> BlockType] /\ place \in [Workers -> BlockIds \X RowIds]
        /\ wpc \in [Workers -> {"dequeue", "check", "run", "allocate", "write", "done", "exit"}]
    BY <1>1 DEF TypeOK
  <2>2. \A m \in BlockIds : blocks'[m] = IF m = k THEN [blocks[k] EXCEPT !.allocCount = r + 1] ELSE blocks[m]
    BY <1>2, <1>3, <2>1
  <2>3. \A m \in BlockIds : blocks[m] \in BlockType
    BY <2>1
  <2>4. ASSUME NEW m \in BlockIds
        PROVE  /\ blocks'[m].allocCount = IF m = k THEN r + 1 ELSE blocks[m].allocCount
               /\ blocks'[m].doneCount = blocks[m].doneCount
               /\ blocks'[m].rows = blocks[m].rows
    <3>1. blocks[k] \in BlockType /\ blocks'[k] = [blocks[k] EXCEPT !.allocCount = r + 1]
      BY <2>2, <2>3
    <3>2. blocks'[k].allocCount = r + 1 /\ blocks'[k].doneCount = blocks[k].doneCount
          /\ blocks'[k].rows = blocks[k].rows
      BY <3>1, BlockUpdate
    <3>3. m # k => blocks'[m] = blocks[m]
      BY <2>2
    <3>4. CASE m = k
      BY <3>2, <3>4
    <3>5. CASE m # k
      BY <3>3, <3>5
    <3> QED
      BY <3>4, <3>5
  <2> QED
    BY <1>2, <2>1, <2>4
<1>8. /\ \A m \in BlockIds, j \in RowIds : Row(m, j)' = Row(m, j)
      /\ Reported' = Reported /\ Returned' = Returned /\ Listed' = Listed /\ Queued' = Queued
      /\ Outstanding' = Outstanding
  <2>1. \A m \in BlockIds, j \in RowIds : Row(m, j)' = Row(m, j)
    BY <1>7 DEF Row
  <2> QED
    BY <1>2, <1>6, <2>1, ReturnedFrame, ListedFrame, QueuedFrame, OutstandingFrame DEF Reported
<1>9. /\ Holders' = Holders /\ Held' = Held /\ Writers' = Writers \cup {w}
      /\ Active(k)' = Active(k) \cup {w} /\ w \notin Active(k)
      /\ \A m \in BlockIds : m # k => Active(m)' = Active(m)
  <2>1. Holders' = Holders /\ Writers' = Writers \cup {w}
    BY <1>2, <1>7 DEF Holders, Writers
  <2>2. Active(k)' = Active(k) \cup {w} /\ w \notin Active(k)
    BY <1>2, <1>7 DEF Active
  <2>3. ASSUME NEW m \in BlockIds, m # k PROVE Active(m)' = Active(m)
    BY <1>2, <1>7, <2>3 DEF Active
  <2> QED
    BY <1>2, <2>1, <2>2, <2>3 DEF Held
<1>10. Placed' = Placed \cup {e}
  BY <1>2, <1>3, <1>8, <1>9 DEF Placed
<1>11. TypeOK'
  <2>1. blocks' \in [BlockIds -> BlockType]
    <3>1. r + 1 \in 0..Batch
      BY <1>4
    <3>2. blocks \in [BlockIds -> BlockType] /\ blocks[k] \in BlockType
      BY <1>1, <1>3 DEF TypeOK
    <3>3. [blocks[k] EXCEPT !.allocCount = r + 1] \in BlockType
      BY <3>1, <3>2 DEF BlockType
    <3> QED
      BY <1>2, <1>3, <3>2, <3>3
  <2>2. place' \in [Workers -> BlockIds \X RowIds]
        /\ wpc' \in [Workers -> {"dequeue", "check", "run", "allocate", "write", "done", "exit"}]
    BY <1>1, <1>2, <1>3 DEF TypeOK
  <2>3. allocCount' \in 0..NumEnvs
    BY <1>2, <1>3, <1>4
  <2> QED
    BY <1>1, <1>2, <1>6, <2>1, <2>2, <2>3 DEF TypeOK
<1>12. PlaceInv'
  BY <1>1, <1>8, <1>9, PlaceFrame
<1>13. OnceInv'
  BY <1>1, <1>2, <1>6, <1>8, <1>9 DEF OnceInv
<1>14. StopInv'
  <2>1. e # Nothing
    BY <1>3, SizesAssumption
  <2> QED
    BY <1>1, <1>2, <1>7, <2>1 DEF StopInv
<1>15. RequestInv'
  <2>1. \A v \in Workers : wpc'[v] \in {"check", "run"} => Carries(slice[v])'
    BY <1>1, <1>2, <1>7 DEF RequestInv, Carries
  <2>2. \A x \in DOMAIN fifo : Carries(fifo[x])'
    BY <1>1, <1>2 DEF RequestInv, Carries
  <2>3. \A v \in Workers : wpc'[v] \in {"allocate", "write", "done"} => result'[v] # Nothing
    BY <1>1, <1>2, <1>7 DEF RequestInv
  <2> QED
    BY <1>1, <1>2, <2>1, <2>2, <2>3 DEF RequestInv
<1>16. CountInv'
  <2>1. allocCount' = Cardinality(Placed')
    BY <1>1, <1>2, <1>3, <1>10, PlacedFacts, FS_AddElement DEF CountInv
  <2>2. ASSUME NEW m \in BlockIds
        PROVE  blocks'[m].allocCount =
                 IF m < allocCount' \div Batch THEN Batch
                 ELSE IF m = allocCount' \div Batch THEN allocCount' % Batch ELSE 0
    <3>1. blocks[m].allocCount = IF m < k THEN Batch ELSE IF m = k THEN r ELSE 0
      BY <1>0, <1>1, <1>d DEF CountInv
    <3>2. blocks'[m].allocCount = IF m = k THEN r + 1 ELSE blocks[m].allocCount
      BY <1>7
    <3>3. m \in Int
      BY DEF BlockIds
    <3> QED
      BY <1>2, <1>4, <1>5, <3>1, <3>2, <3>3
  <2>3. ASSUME NEW m \in BlockIds
        PROVE  blocks'[m].doneCount + Cardinality(Active(m)') = blocks'[m].allocCount + Added(m)'
    <3>1. blocks[m].doneCount + Cardinality(Active(m)) = blocks[m].allocCount + Added(m)
          /\ Added(m)' = Added(m)
      BY <1>1, <1>2 DEF CountInv, Added
    <3>2. CASE m # k
      BY <1>7, <1>9, <3>1, <3>2
    <3>3. CASE m = k
      <4>1. Cardinality(Active(k)') = Cardinality(Active(k)) + 1 /\ Cardinality(Active(k)) \in Nat
        BY <1>3, <1>9, PlacedFacts, FS_AddElement
      <4>2. /\ blocks'[k].doneCount = blocks[k].doneCount /\ blocks'[k].allocCount = blocks[k].allocCount + 1
            /\ blocks[k].doneCount \in Nat /\ blocks[k].allocCount \in Nat /\ Added(k) \in Nat
        BY <1>1, <1>3, <1>4, <1>7 DEF TypeOK, BlockType, Added
      <4> QED
        BY <3>1, <3>3, <4>1, <4>2
    <3> QED
      BY <3>2, <3>3
  <2> QED
    BY <1>6, <2>1, <2>2, <2>3 DEF CountInv
<1>17. RowInv'
  <2>1. ASSUME NEW m \in BlockIds, NEW u \in Active(m)', NEW v \in Active(m)', place'[u][2] = place'[v][2]
        PROVE  u = v
    <3>1. \A x \in Active(m) : x \in Workers /\ x # w /\ place'[x] = place[x]
      BY <1>2, <1>7 DEF Active
    <3>2. place'[w][2] = row
      BY <1>7
    <3> QED
      BY <1>1, <1>3, <1>9, <2>1, <3>1, <3>2 DEF RowInv
  <2>2. ASSUME NEW m \in BlockIds, NEW v \in Active(m)'
        PROVE  /\ wpc'[v] = "write" => Row(m, place[v][2])' = Nothing
               /\ wpc'[v] = "done" => Row(m, place[v][2])' = <<slice'[v].env, result'[v]>>
    <3>1. Row(m, place[v][2])' = blocks'[m].rows[place'[v][2]]
      BY DEF Row
    <3>2. CASE v = w
      <4>1. m = k /\ place'[v][2] = row /\ wpc'[v] = "write"
        BY <1>7, <1>9, <3>2 DEF Active
      <4> QED
        BY <1>3, <1>7, <3>1, <4>1 DEF Row
    <3>3. CASE v # w
      <4>1. v \in Active(m) /\ v \in Workers /\ place'[v] = place[v] /\ wpc'[v] = wpc[v]
        BY <1>7, <3>3 DEF Active
      <4>2. Row(m, place[v][2])' = Row(m, place[v][2])
        BY <1>7, <3>1, <4>1 DEF Row
      <4>3. slice'[v] = slice[v] /\ result'[v] = result[v]
        BY <1>2
      <4>4. /\ wpc[v] = "write" => Row(m, place[v][2]) = Nothing
            /\ wpc[v] = "done" => Row(m, place[v][2]) = <<slice[v].env, result[v]>>
        BY <1>1, <4>1 DEF RowInv
      <4> QED
        BY <4>1, <4>2, <4>3, <4>4
    <3> QED
      BY <3>2, <3>3
  <2>3. ASSUME ~IsSync, NEW m \in BlockIds
        PROVE  /\ \A v \in Active(m)' : place'[v][2] < blocks'[m].allocCount
               /\ \A j \in RowIds :
                    /\ Row(m, j)' # Nothing => j < blocks'[m].allocCount
                    /\ j < blocks'[m].allocCount =>
                         Row(m, j)' # Nothing
                         \/ \E v \in Active(m)' : wpc'[v] = "write" /\ place'[v][2] = j
    <3>1. \A x \in Active(m) : x \in Workers /\ x # w /\ place'[x] = place[x] /\ wpc'[x] = wpc[x]
                               /\ x \in Active(m)' /\ place[x][2] \in Int
      <4>1. \A x \in Active(m) : x \in Workers /\ x # w
        BY <1>2 DEF Active
      <4>2. \A x \in Active(m) : x \in Active(m)'
        BY <1>9
      <4> QED
        BY <1>1, <1>7, <4>1, <4>2 DEF TypeOK, RowIds
    <3>2. CASE m # k
      <4>1. blocks'[m].allocCount = blocks[m].allocCount /\ Active(m)' = Active(m)
        BY <1>7, <1>9, <3>2
      <4> QED
        BY <1>1, <1>8, <2>3, <3>1, <4>1 DEF RowInv
    <3>3. CASE m = k
      <4>1. blocks'[k].allocCount = r + 1 /\ blocks[k].allocCount = r /\ row = r /\ r \in Int
        BY <1>3, <1>4, <1>7, <2>3
      <4>2. w \in Active(k)' /\ wpc'[w] = "write" /\ place'[w][2] = r
        BY <1>7, <1>9, <4>1
      <4>3. ASSUME NEW v \in Active(k)' PROVE place'[v][2] < r + 1
        <5>1. CASE v = w
          BY <4>1, <4>2, <5>1
        <5>2. CASE v # w
          <6>1. v \in Active(k) /\ place[v][2] < r
            BY <1>1, <1>3, <1>9, <2>3, <4>1, <5>2 DEF RowInv
          <6> QED
            BY <3>1, <3>3, <4>1, <6>1
        <5> QED
          BY <5>1, <5>2
      <4>4. ASSUME NEW j \in RowIds
            PROVE  /\ Row(k, j)' # Nothing => j < r + 1
                   /\ j < r + 1 => Row(k, j)' # Nothing
                                   \/ \E v \in Active(k)' : wpc'[v] = "write" /\ place'[v][2] = j
        <5>1. j \in Int /\ Row(k, j)' = Row(k, j)
          BY <1>3, <1>8 DEF RowIds
        <5>2. /\ Row(k, j) # Nothing => j < r
              /\ j < r => Row(k, j) # Nothing \/ \E v \in Active(k) : wpc[v] = "write" /\ place[v][2] = j
          BY <1>1, <1>3, <2>3, <4>1 DEF RowInv
        <5>3. CASE j = r
          BY <4>1, <4>2, <5>1, <5>2, <5>3
        <5>4. CASE j # r
          <6>1. j < r + 1 => j < r
            BY <4>1, <5>1, <5>4
          <6>2. Row(k, j)' # Nothing => j < r + 1
            BY <4>1, <5>1, <5>2
          <6> QED
            BY <3>1, <3>3, <5>1, <5>2, <6>1, <6>2
        <5> QED
          BY <5>3, <5>4
      <4> QED
        BY <3>3, <4>1, <4>3, <4>4
    <3> QED
      BY <3>2, <3>3
  <2> QED
    BY <1>6, <2>1, <2>2, <2>3 DEF RowInv
<1>18. RecvInv'
  <2>1. blocks'[0].doneCount = blocks[0].doneCount /\ blocks'[0].rows = blocks[0].rows
    BY <1>4, <1>7
  <2> QED
    BY <1>1, <1>2, <1>6, <2>1 DEF RecvInv, Row
<1>19. OrderInv' /\ SyncInv'
  <2>1. OrderInv'
    BY <1>1, <1>2, <1>6, <1>9 DEF OrderInv, Ordered
  <2>2. SyncInv'
    BY <1>1, <1>2, SyncFrame
  <2> QED
    BY <2>1, <2>2
<1>20. SyncRowInv'
  <2> SUFFICES ASSUME IsSync PROVE SyncRowInv'
    BY <1>6 DEF SyncRowInv
  <2>1. ASSUME NEW v \in Workers, wpc'[v] \in {"write", "done"} PROVE place'[v][1] = 0
    BY <1>1, <1>3, <1>7, <2>1 DEF SyncRowInv
  <2>2. ASSUME NEW v \in Writers' PROVE place'[v][2] = slice'[v].order
    <3>1. v = w \/ (v # w /\ v \in Writers)
      BY <1>9
    <3>2. v \in Workers
      BY DEF Writers
    <3> QED
      BY <1>1, <1>2, <1>3, <1>7, <3>1, <3>2 DEF SyncRowInv
  <2> QED
    BY <1>1, <1>2, <1>6, <1>8, <2>1, <2>2 DEF SyncRowInv
<1> QED
  BY <1>11, <1>12, <1>13, <1>14, <1>15, <1>16, <1>17, <1>18, <1>19, <1>20 DEF IInv

\* A worker writes its env and its answer into a free row of its own.
LEMMA WriteRow ==
  ASSUME IInv, NEW w \in Workers, WriteState(w),
         NEW k \in BlockIds, NEW j \in RowIds, place[w] = <<k, j>>,
         NEW e, e = slice[w].env, NEW x, x = <<e, result[w]>>
  PROVE  /\ wpc[w] = "write" /\ w \in Holders /\ w \in Writers /\ w \in Active(k) /\ Row(k, j) = Nothing
         /\ e \in Envs /\ e \in Held /\ result[w] \in ResultType
         /\ x \in Envs \X ResultType /\ x # Nothing /\ x \in RowType /\ x[1] = e
         /\ \A m \in BlockIds : /\ blocks'[m].allocCount = blocks[m].allocCount
                                /\ blocks'[m].doneCount = blocks[m].doneCount
                                /\ blocks'[m] \in BlockType
                                /\ \A n \in RowIds : blocks'[m].rows[n] = IF m = k /\ n = j THEN x
                                                                          ELSE blocks[m].rows[n]
<1>1. TypeOK /\ StopInv /\ RequestInv /\ RowInv
  BY DEF IInv
<1>2. /\ wpc[w] = "write" /\ blocks \in [BlockIds -> BlockType]
      /\ blocks' = [blocks EXCEPT ![k].rows[j] = x]
  BY <1>1 DEF WriteState, WorkerStep, TypeOK
<1>3. /\ w \in Holders /\ w \in Writers /\ w \in Active(k)
      /\ Row(k, j) = Nothing
  <2>1. w \in Holders /\ w \in Writers /\ w \in Active(k) /\ place[w][2] = j
    BY <1>2 DEF Holders, Writers, Active
  <2> QED
    BY <1>1, <1>2, <2>1 DEF RowInv
<1>4. /\ e \in Envs /\ e \in Held /\ result[w] \in ResultType
      /\ x \in Envs \X ResultType /\ x # Nothing /\ x \in RowType /\ x[1] = e
  <2>1. slice[w] \in SliceType /\ e # Nothing
    BY <1>1, <1>2 DEF TypeOK, StopInv
  <2>2. result[w] \in ResultType
    BY <1>1, <1>2 DEF TypeOK, RequestInv
  <2>3. e \in Envs
    BY <2>1 DEF SliceType
  <2>4. x \in Envs \X ResultType /\ x[1] = e
    BY <2>2, <2>3
  <2> QED
    BY <1>3, <2>2, <2>3, <2>4, NothingAssumption DEF Held, RowType
<1>5. ASSUME NEW m \in BlockIds
      PROVE  /\ blocks'[m].allocCount = blocks[m].allocCount
             /\ blocks'[m].doneCount = blocks[m].doneCount
             /\ blocks'[m] \in BlockType
             /\ \A n \in RowIds : blocks'[m].rows[n] = IF m = k /\ n = j THEN x ELSE blocks[m].rows[n]
  <2>1. blocks[m] \in BlockType /\ blocks'[m] = IF m = k THEN [blocks[k] EXCEPT !.rows[j] = x] ELSE blocks[m]
    BY <1>2
  <2>2. CASE m # k
    BY <2>1, <2>2
  <2>3. CASE m = k
    <3>1. blocks[k] \in BlockType /\ blocks[k].rows \in [RowIds -> RowType]
      BY <2>1, <2>3 DEF BlockType
    <3>2. blocks'[k] = [blocks[k] EXCEPT !.rows = [blocks[k].rows EXCEPT ![j] = x]]
      BY <2>1, <2>3
    <3>3. /\ blocks'[k].allocCount = blocks[k].allocCount /\ blocks'[k].doneCount = blocks[k].doneCount
          /\ blocks'[k].rows = [blocks[k].rows EXCEPT ![j] = x]
      BY <3>1, <3>2, BlockUpdate
    <3>4. [blocks[k].rows EXCEPT ![j] = x] \in [RowIds -> RowType]
      BY <1>4, <3>1
    <3>5. blocks'[k] \in BlockType
      BY <3>1, <3>2, <3>4 DEF BlockType
    <3> QED
      BY <2>3, <3>1, <3>3, <3>5
  <2> QED
    BY <2>2, <2>3
<1> QED
  BY <1>2, <1>3, <1>4, <1>5

LEMMA WriteStateInductive ==
  ASSUME IInv, NEW w \in Workers, WriteState(w)
  PROVE  IInv'
<1>1. /\ TypeOK /\ PlaceInv /\ OnceInv /\ StopInv /\ RequestInv /\ CountInv /\ RowInv /\ RecvInv
      /\ OrderInv /\ SyncInv /\ SyncRowInv
  BY DEF IInv
<1>a. wpc[w] = "write" /\ place[w] \in BlockIds \X RowIds /\ blocks \in [BlockIds -> BlockType]
      /\ 0 \in BlockIds
  BY <1>1, Sizes DEF WriteState, WorkerStep, TypeOK
<1>0. PICK k \in BlockIds, j \in RowIds : place[w] = <<k, j>>
  BY <1>a
<1>b. PICK e, x : e = slice[w].env /\ x = <<e, result[w]>>
  OBVIOUS
<1>2. /\ wpc' = [wpc EXCEPT ![w] = "done"]
      /\ blocks' = [blocks EXCEPT ![k].rows[j] = x]
      /\ UNCHANGED <<config, stop, steppingEnvNum, allocCount, actionBatch, done, elapsed>>
      /\ UNCHANGED <<fifo, spc, list, what, i, rpc, additional, rows, slice, result, place>>
      /\ UNCHANGED <<asked, lastList, received>>
  BY <1>0, <1>b DEF WriteState, WorkerStep, envVars, sendVars, recvVars, driverVars
<1>3. w \in Holders /\ w \in Writers /\ w \in Active(k) /\ Row(k, j) = Nothing
  BY <1>0, <1>b, WriteRow
<1>4. e \in Envs /\ e \in Held /\ x \in Envs \X ResultType /\ x # Nothing /\ x \in RowType /\ x[1] = e
  BY <1>0, <1>b, WriteRow
<1>5. /\ Batch' = Batch /\ IsSync' = IsSync /\ BlockIds' = BlockIds /\ RowIds' = RowIds
      /\ SliceType' = SliceType /\ BlockType' = BlockType /\ SinglePlayer' = SinglePlayer
  BY <1>2, ConfigFrame
<1>6. \A v \in Workers : wpc'[v] = IF v = w THEN "done" ELSE wpc[v]
  BY <1>1, <1>2 DEF TypeOK
<1>7. ASSUME NEW m \in BlockIds
      PROVE  /\ blocks'[m].allocCount = blocks[m].allocCount
             /\ blocks'[m].doneCount = blocks[m].doneCount
             /\ blocks'[m] \in BlockType
             /\ \A n \in RowIds : blocks'[m].rows[n] = IF m = k /\ n = j THEN x ELSE blocks[m].rows[n]
  BY <1>0, <1>b, WriteRow
<1>8. /\ \A m \in BlockIds, n \in RowIds : Row(m, n)' = IF m = k /\ n = j THEN x ELSE Row(m, n)
      /\ Returned' = Returned /\ Listed' = Listed /\ Queued' = Queued /\ Outstanding' = Outstanding
  BY <1>2, <1>7, ReturnedFrame, ListedFrame, QueuedFrame, OutstandingFrame DEF Row
<1>9. Reported' = Reported \cup {e}
  <2>1. ASSUME NEW y \in Reported' PROVE y \in Reported \cup {e}
    <3>1. PICK m \in BlockIds, n \in RowIds : Row(m, n)' # Nothing /\ Row(m, n)'[1] = y
      BY <1>5, <2>1 DEF Reported
    <3>2. y \in Envs
      BY <2>1 DEF Reported
    <3> QED
      BY <1>4, <1>8, <3>1, <3>2 DEF Reported
  <2>2. ASSUME NEW y \in Reported PROVE y \in Reported'
    <3>1. PICK m \in BlockIds, n \in RowIds : Row(m, n) # Nothing /\ Row(m, n)[1] = y
      BY <2>2 DEF Reported
    <3>2. ~ (m = k /\ n = j) /\ Row(m, n)' = Row(m, n) /\ y \in Envs
      BY <1>3, <1>8, <2>2, <3>1 DEF Reported
    <3> QED
      BY <1>5, <3>1, <3>2 DEF Reported
  <2>3. e \in Reported'
    <3>1. Row(k, j)' = x
      BY <1>8
    <3> QED
      BY <1>4, <1>5, <3>1 DEF Reported
  <2> QED
    BY <2>1, <2>2, <2>3
<1>10. /\ Holders' = Holders \ {w} /\ Writers' = Writers \ {w}
       /\ \A m \in BlockIds : Active(m)' = Active(m)
  <2>1. Holders' = Holders \ {w} /\ Writers' = Writers \ {w}
    BY <1>6 DEF Holders, Writers
  <2>2. \A m \in BlockIds : Active(m)' = Active(m)
    BY <1>2, <1>a, <1>6 DEF Active
  <2> QED
    BY <2>1, <2>2
<1>11. Held' = Held \ {e}
  <2>1. ASSUME NEW v \in Holders, v # w PROVE slice[v].env # e
    BY <1>1, <1>b, <1>3, <1>4, <2>1 DEF OnceInv
  <2> QED
    BY <1>2, <1>b, <1>10, <2>1 DEF Held
<1>12. Placed' = Placed
  BY <1>2, <1>b, <1>3, <1>4, <1>9, <1>10 DEF Placed
<1>13. TypeOK'
  <2>1. blocks' \in [BlockIds -> BlockType]
    <3>1. blocks' = [m \in BlockIds |-> blocks'[m]]
      BY <1>2, <1>a
    <3>2. \A m \in BlockIds : blocks'[m] \in BlockType
      BY <1>7
    <3> QED
      BY ONLY <3>1, <3>2
  <2>2. wpc' \in [Workers -> {"dequeue", "check", "run", "allocate", "write", "done", "exit"}]
    BY <1>1, <1>2 DEF TypeOK
  <2> QED
    BY <1>1, <1>2, <1>5, <2>1, <2>2 DEF TypeOK
<1>14. PlaceInv'
  BY <1>1, <1>4, <1>8, <1>9, <1>11 DEF PlaceInv
<1>15. OnceInv'
  <2>1. ASSUME NEW m \in BlockIds, NEW n \in RowIds, Row(m, n) # Nothing PROVE Row(m, n)[1] # e
    <3>1. e \notin Reported
      BY <1>1, <1>4 DEF PlaceInv
    <3> QED
      BY <1>1, <1>4, <2>1, <3>1, RowType_
  <2>2. ASSUME NEW m \in BlockIds, NEW n \in RowIds, NEW p \in BlockIds, NEW q \in RowIds,
               Row(m, n)' # Nothing, Row(p, q)' # Nothing, Row(m, n)'[1] = Row(p, q)'[1]
        PROVE  m = p /\ n = q
    BY <1>1, <1>4, <1>8, <2>1, <2>2 DEF OnceInv
  <2>3. \A u, v \in Holders' : slice'[u].env \in Envs /\ slice'[u].env = slice'[v].env => u = v
    BY <1>1, <1>2, <1>10 DEF OnceInv
  <2>4. \A m, n \in DOMAIN fifo' : fifo'[m].env \in Envs /\ fifo'[m].env = fifo'[n].env => m = n
    BY <1>1, <1>2 DEF OnceInv
  <2> QED
    BY <1>5, <2>2, <2>3, <2>4 DEF OnceInv
<1>16. StopInv'
  <2>1. e # Nothing
    BY <1>4, SizesAssumption
  <2> QED
    BY <1>1, <1>2, <1>b, <1>6, <2>1 DEF StopInv
<1>17. RequestInv'
  <2>1. \A v \in Workers : wpc'[v] \in {"check", "run"} => Carries(slice[v])'
    BY <1>1, <1>2, <1>6 DEF RequestInv, Carries
  <2>2. \A y \in DOMAIN fifo : Carries(fifo[y])'
    BY <1>1, <1>2 DEF RequestInv, Carries
  <2>3. \A v \in Workers : wpc'[v] \in {"allocate", "write", "done"} => result'[v] # Nothing
    BY <1>1, <1>2, <1>a, <1>6 DEF RequestInv
  <2> QED
    BY <1>1, <1>2, <2>1, <2>2, <2>3 DEF RequestInv
<1>18. CountInv'
  <2>1. \A m \in BlockIds : Added(m)' = Added(m)
    BY <1>2 DEF Added
  <2> QED
    BY <1>1, <1>2, <1>5, <1>7, <1>10, <1>12, <2>1 DEF CountInv
<1>19. RowInv'
  <2>1. \A m \in BlockIds : \A u, v \in Active(m)' : place'[u][2] = place'[v][2] => u = v
    BY <1>1, <1>2, <1>10 DEF RowInv
  <2>2. ASSUME NEW m \in BlockIds, NEW v \in Active(m)
        PROVE  /\ wpc'[v] = "write" => Row(m, place[v][2])' = Nothing
               /\ wpc'[v] = "done" => Row(m, place[v][2])' = <<slice'[v].env, result'[v]>>
    <3>1. Row(m, place[v][2])' = IF m = k /\ place[v][2] = j THEN x ELSE Row(m, place[v][2])
      <4>1. Row(m, place[v][2])' = blocks'[m].rows[place[v][2]]
        BY <1>2 DEF Row
      <4>2. place[v][2] \in RowIds
        BY <1>1 DEF Active, TypeOK
      <4> QED
        BY <1>7, <4>1, <4>2 DEF Row
    <3>2. CASE v = w
      <4>1. m = k /\ place[v][2] = j /\ wpc'[v] = "done"
        BY <1>0, <1>6, <3>2 DEF Active
      <4> QED
        BY <1>2, <1>b, <3>1, <3>2, <4>1
    <3>3. CASE v # w
      <4>1. v \in Workers /\ wpc'[v] = wpc[v]
        BY <1>6, <3>3 DEF Active
      <4>2. ~ (m = k /\ place[v][2] = j)
        BY <1>0, <1>1, <1>3, <3>3 DEF RowInv
      <4>3. Row(m, place[v][2])' = Row(m, place[v][2])
        BY <3>1, <4>2
      <4>4. slice'[v] = slice[v] /\ result'[v] = result[v]
        BY <1>2
      <4>5. /\ wpc[v] = "write" => Row(m, place[v][2]) = Nothing
            /\ wpc[v] = "done" => Row(m, place[v][2]) = <<slice[v].env, result[v]>>
        BY <1>1 DEF RowInv
      <4> QED
        BY <4>1, <4>3, <4>4, <4>5
    <3> QED
      BY <3>2, <3>3
  <2>3. ASSUME ~IsSync, NEW m \in BlockIds
        PROVE  /\ \A v \in Active(m) : place[v][2] < blocks'[m].allocCount
               /\ \A n \in RowIds :
                    /\ Row(m, n)' # Nothing => n < blocks'[m].allocCount
                    /\ n < blocks'[m].allocCount =>
                         Row(m, n)' # Nothing
                         \/ \E v \in Active(m) : wpc'[v] = "write" /\ place[v][2] = n
    <3>1. /\ \A v \in Active(m) : place[v][2] < blocks[m].allocCount
          /\ \A n \in RowIds :
               /\ Row(m, n) # Nothing => n < blocks[m].allocCount
               /\ n < blocks[m].allocCount =>
                    Row(m, n) # Nothing
                    \/ \E v \in Active(m) : wpc[v] = "write" /\ place[v][2] = n
      BY <1>1, <2>3 DEF RowInv
    <3>2. blocks'[m].allocCount = blocks[m].allocCount
      BY <1>7
    <3>3. ASSUME NEW n \in RowIds
          PROVE  /\ Row(m, n)' # Nothing => n < blocks'[m].allocCount
                 /\ n < blocks'[m].allocCount =>
                      Row(m, n)' # Nothing
                      \/ \E v \in Active(m) : wpc'[v] = "write" /\ place[v][2] = n
      <4>1. CASE m = k /\ n = j
        <5>1. Row(m, n)' = x /\ place[w][2] = n
          BY <1>0, <1>8, <4>1
        <5> QED
          BY <1>3, <1>4, <3>1, <3>2, <4>1, <5>1
      <4>2. CASE ~ (m = k /\ n = j)
        <5>1. Row(m, n)' = Row(m, n)
          BY <1>8, <4>2
        <5>2. ASSUME NEW v \in Active(m), wpc[v] = "write", place[v][2] = n PROVE wpc'[v] = "write"
          <6>1. v # w
            BY <1>0, <4>2, <5>2 DEF Active
          <6> QED
            BY <1>6, <5>2, <6>1 DEF Active
        <5> QED
          BY <3>1, <3>2, <5>1, <5>2
      <4> QED
        BY <4>1, <4>2
    <3> QED
      BY <3>1, <3>2, <3>3
  <2> QED
    BY <1>2, <1>5, <1>10, <2>1, <2>2, <2>3 DEF RowInv
<1>20. RecvInv'
  <2>1. blocks'[0].doneCount = blocks[0].doneCount
    BY <1>a, <1>7
  <2>2. ASSUME rpc = "replace", NEW n \in DOMAIN rows PROVE Row(0, n - 1)' = Row(0, n - 1)
    <3>1. blocks[0].doneCount = Batch
      BY <1>1, <2>2 DEF RecvInv
    <3>2. k # 0
      BY <1>3, <2>2, <3>1, HeadComplete
    <3>3. blocks'[0] = blocks[0]
      BY <1>2, <1>a, <3>2
    <3> QED
      BY <3>3 DEF Row
  <2> QED
    BY <1>1, <1>2, <1>5, <2>1, <2>2 DEF RecvInv
<1>21. OrderInv' /\ SyncInv'
  <2>1. OrderInv'
    BY <1>1, <1>2, <1>5, <1>10 DEF OrderInv, Ordered
  <2>2. SyncInv'
    BY <1>1, <1>2, SyncFrame
  <2> QED
    BY <2>1, <2>2
<1>22. SyncRowInv'
  <2> SUFFICES ASSUME IsSync PROVE SyncRowInv'
    BY <1>5 DEF SyncRowInv
  <2>1. ASSUME NEW v \in Workers, wpc'[v] \in {"write", "done"} PROVE place'[v][1] = 0
    BY <1>1, <1>2, <1>a, <1>6, <2>1 DEF SyncRowInv
  <2>2. \A v \in Writers' : place'[v][2] = slice'[v].order
    BY <1>1, <1>2, <1>10 DEF SyncRowInv
  <2>3. k = 0 /\ j = slice[w].order
    BY <1>0, <1>1, <1>3 DEF SyncRowInv, Active
  <2>4. slice[w].order + 1 \in DOMAIN lastList /\ lastList[slice[w].order + 1] = e
    BY <1>1, <1>b, <1>3, <1>4 DEF OrderInv, Ordered
  <2>5. ASSUME NEW m \in BlockIds, NEW n \in RowIds, Row(m, n)' # Nothing
        PROVE  m = 0 /\ n + 1 \in DOMAIN lastList /\ Row(m, n)'[1] = lastList[n + 1]
    BY <1>1, <1>4, <1>8, <2>3, <2>4, <2>5 DEF SyncRowInv
  <2> QED
    BY <1>1, <1>2, <1>5, <2>1, <2>2, <2>5 DEF SyncRowInv
<1> QED
  BY <1>13, <1>14, <1>15, <1>16, <1>17, <1>18, <1>19, <1>20, <1>21, <1>22 DEF IInv

LEMMA PostProcessInductive ==
  ASSUME IInv, NEW w \in Workers, PostProcess(w)
  PROVE  IInv'
<1>1. /\ TypeOK /\ PlaceInv /\ OnceInv /\ StopInv /\ RequestInv /\ CountInv /\ RowInv /\ RecvInv
      /\ OrderInv /\ SyncInv /\ SyncRowInv
  BY DEF IInv
<1>a. /\ wpc[w] = "done" /\ place[w] \in BlockIds \X RowIds /\ blocks \in [BlockIds -> BlockType]
      /\ 0 \in BlockIds /\ 0 \in RowIds /\ Batch \in Nat \ {0}
  BY <1>1, Sizes DEF PostProcess, WorkerStep, TypeOK
<1>0. PICK k \in BlockIds : place[w][1] = k
  BY <1>a
<1>2. /\ wpc' = [wpc EXCEPT ![w] = "dequeue"]
      /\ blocks' = [blocks EXCEPT ![k].doneCount = @ + 1]
      /\ slice' = [slice EXCEPT ![w] = EmptySlice] /\ result' = [result EXCEPT ![w] = Nothing]
      /\ place' = [place EXCEPT ![w] = <<0, 0>>]
      /\ UNCHANGED <<config, stop, steppingEnvNum, allocCount, actionBatch, done, elapsed>>
      /\ UNCHANGED <<fifo, spc, list, what, i, rpc, additional, rows>>
      /\ UNCHANGED <<asked, lastList, received>>
  BY <1>0 DEF PostProcess, WorkerStep, envVars, sendVars, recvVars, driverVars
<1>3. w \in Active(k)
  BY <1>a, <1>0 DEF Active
<1>4. /\ Batch' = Batch /\ IsSync' = IsSync /\ BlockIds' = BlockIds /\ RowIds' = RowIds
      /\ SliceType' = SliceType /\ BlockType' = BlockType /\ SinglePlayer' = SinglePlayer
  BY <1>2, ConfigFrame
<1>5. /\ \A v \in Workers : wpc'[v] = IF v = w THEN "dequeue" ELSE wpc[v]
      /\ \A v \in Workers \ {w} : slice'[v] = slice[v] /\ result'[v] = result[v] /\ place'[v] = place[v]
  BY <1>1, <1>2 DEF TypeOK
<1>6. ASSUME NEW m \in BlockIds
      PROVE  /\ blocks'[m].allocCount = blocks[m].allocCount
             /\ blocks'[m].doneCount = IF m = k THEN blocks[m].doneCount + 1 ELSE blocks[m].doneCount
             /\ blocks'[m].rows = blocks[m].rows
  <2>1. blocks[m] \in BlockType
        /\ blocks'[m] = IF m = k THEN [blocks[k] EXCEPT !.doneCount = blocks[k].doneCount + 1] ELSE blocks[m]
    BY <1>2, <1>a
  <2>2. CASE m = k
    BY <2>1, <2>2, BlockUpdate
  <2>3. CASE m # k
    BY <2>1, <2>3
  <2> QED
    BY <2>2, <2>3
<1>7. /\ \A m \in BlockIds, n \in RowIds : Row(m, n)' = Row(m, n)
      /\ Reported' = Reported
      /\ Returned' = Returned /\ Listed' = Listed /\ Queued' = Queued /\ Outstanding' = Outstanding
  <2>1. \A m \in BlockIds, n \in RowIds : Row(m, n)' = Row(m, n)
    BY <1>6 DEF Row
  <2> QED
    BY <1>2, <1>4, <2>1, ReturnedFrame, ListedFrame, QueuedFrame, OutstandingFrame DEF Reported
<1>8. /\ Holders' = Holders /\ Writers' = Writers /\ w \notin Holders
      /\ \A m \in BlockIds : Active(m)' = Active(m) \ {w}
      /\ \A m \in BlockIds : m # k => w \notin Active(m)
  <2>1. Holders' = Holders /\ Writers' = Writers /\ w \notin Holders
    BY <1>a, <1>5 DEF Holders, Writers
  <2>2. ASSUME NEW m \in BlockIds PROVE Active(m)' = Active(m) \ {w}
    BY <1>5 DEF Active
  <2>3. \A m \in BlockIds : m # k => w \notin Active(m)
    BY <1>0 DEF Active
  <2> QED
    BY <2>1, <2>2, <2>3
<1>9. Held' = Held /\ Placed' = Placed
      /\ \A v \in Holders : v \in Workers \ {w} /\ slice'[v] = slice[v]
  <2>1. \A v \in Holders : v \in Workers \ {w} /\ slice'[v] = slice[v]
    BY <1>5, <1>8 DEF Holders
  <2>2. \A v \in Writers : slice'[v] = slice[v]
    BY <2>1 DEF Writers, Holders
  <2> QED
    BY <1>7, <1>8, <2>1, <2>2 DEF Held, Placed
<1>10. CountInv'
  <2>1. \A m \in BlockIds : Added(m)' = Added(m)
    BY <1>2 DEF Added
  <2>2. ASSUME NEW m \in BlockIds
        PROVE  blocks'[m].doneCount + Cardinality(Active(m)') = blocks'[m].allocCount + Added(m)'
    <3>1. blocks[m].doneCount + Cardinality(Active(m)) = blocks[m].allocCount + Added(m)
      BY <1>1 DEF CountInv
    <3>2. CASE m # k
      <4>1. Active(m)' = Active(m)
        BY <1>8, <3>2
      <4> QED
        BY <1>6, <2>1, <3>1, <3>2, <4>1
    <3>3. CASE m = k
      <4>1. Cardinality(Active(k) \ {w}) = Cardinality(Active(k)) - 1 /\ Cardinality(Active(k)) \in Nat
        BY <1>3, PlacedFacts, FS_RemoveElement
      <4>2. blocks[k].doneCount \in Nat
        BY <1>a DEF BlockType
      <4>3. /\ blocks'[m].doneCount = blocks[k].doneCount + 1 /\ Active(m)' = Active(k) \ {w}
            /\ blocks'[m].allocCount = blocks[m].allocCount /\ Added(m)' = Added(m)
        BY <1>6, <1>8, <2>1, <3>3
      <4>4. blocks'[m].doneCount + Cardinality(Active(m)')
              = blocks[k].doneCount + Cardinality(Active(k))
        BY <4>1, <4>2, <4>3
      <4> QED
        BY <3>1, <3>3, <4>3, <4>4
    <3> QED
      BY <3>2, <3>3
  <2> QED
    BY <1>1, <1>2, <1>4, <1>6, <1>9, <2>2 DEF CountInv
<1>11. blocks[k].doneCount + 1 \in 0..Batch
  <2>1. /\ blocks[k].doneCount + Cardinality(Active(k)) = blocks[k].allocCount + Added(k)
        /\ IsFiniteSet(Active(k)) /\ Cardinality(Active(k)) \in Nat
    BY <1>1, PlacedFacts DEF CountInv
  <2>2. Cardinality(Active(k)) # 0
    BY <1>3, <2>1, FS_EmptySet
  <2>3. blocks[k].doneCount \in 0..Batch /\ blocks[k].allocCount \in 0..Batch
    BY <1>a DEF BlockType
  <2>4. blocks[k].allocCount + Added(k) <= Batch /\ Added(k) \in Nat
    <3>1. CASE k = 0 /\ rpc \in {"wait", "replace"}
      BY <1>a, <3>1, HeadBound DEF Added
    <3>2. CASE ~ (k = 0 /\ rpc \in {"wait", "replace"})
      <4>1. Added(k) = 0
        BY <3>2 DEF Added
      <4> QED
        BY <1>a, <2>3, <4>1
    <3> QED
      BY <3>1, <3>2
  <2> QED
    BY <1>a, <2>1, <2>2, <2>3, <2>4
<1>12. TypeOK'
  <2>1. blocks' \in [BlockIds -> BlockType]
    <3>1. [blocks[k] EXCEPT !.doneCount = blocks[k].doneCount + 1] \in BlockType
      BY <1>a, <1>11 DEF BlockType
    <3> QED
      BY <1>2, <1>a, <3>1
  <2>2. wpc' \in [Workers -> {"dequeue", "check", "run", "allocate", "write", "done", "exit"}]
    BY <1>1, <1>2 DEF TypeOK
  <2>3. EmptySlice \in SliceType
    <3>1. 0 \in -1..(Batch - 1)
      BY <1>a
    <3> QED
      BY <3>1 DEF EmptySlice, SliceType
  <2>4. slice' \in [Workers -> SliceType] /\ result' \in [Workers -> ResultType \cup {Nothing}]
    BY <1>1, <1>2, <2>3 DEF TypeOK
  <2>5. place' \in [Workers -> BlockIds \X RowIds]
    BY <1>1, <1>2, <1>a DEF TypeOK
  <2> QED
    BY <1>1, <1>2, <1>4, <2>1, <2>2, <2>4, <2>5 DEF TypeOK
<1>13. PlaceInv'
  BY <1>1, <1>7, <1>9, PlaceFrame
<1>14. OnceInv'
  <2>1. \A u, v \in Holders' : slice'[u].env \in Envs /\ slice'[u].env = slice'[v].env => u = v
    BY <1>1, <1>8, <1>9 DEF OnceInv
  <2> QED
    BY <1>1, <1>2, <1>4, <1>7, <2>1 DEF OnceInv
<1>15. StopInv'
  BY <1>1, <1>2, <1>5 DEF StopInv
<1>16. RequestInv'
  <2>1. ASSUME NEW v \in Workers, wpc'[v] \in {"check", "run"} PROVE Carries(slice[v])'
    <3>1. v # w /\ Carries(slice[v]) /\ slice'[v] = slice[v]
      BY <1>1, <1>5, <2>1 DEF RequestInv
    <3> QED
      BY <1>2, <3>1 DEF Carries
  <2>2. \A y \in DOMAIN fifo : Carries(fifo[y])'
    BY <1>1, <1>2 DEF RequestInv, Carries
  <2>3. \A v \in Workers : wpc'[v] \in {"allocate", "write", "done"} => result'[v] # Nothing
    BY <1>1, <1>5 DEF RequestInv
  <2> QED
    BY <1>1, <1>2, <2>1, <2>2, <2>3 DEF RequestInv
<1>17. RowInv'
  <2>1. \A m \in BlockIds : \A v \in Active(m)' :
          v \in Active(m) /\ v \in Workers \ {w} /\ wpc'[v] = wpc[v] /\ slice'[v] = slice[v]
          /\ result'[v] = result[v] /\ place'[v] = place[v]
    BY <1>5, <1>8 DEF Active
  <2>2. \A m \in BlockIds : \A u, v \in Active(m)' : place'[u][2] = place'[v][2] => u = v
    BY <1>1, <2>1 DEF RowInv
  <2>3. ASSUME NEW m \in BlockIds, NEW v \in Active(m)'
        PROVE  /\ wpc'[v] = "write" => Row(m, place[v][2])' = Nothing
               /\ wpc'[v] = "done" => Row(m, place[v][2])' = <<slice'[v].env, result'[v]>>
    <3>1. v \in Active(m) /\ wpc'[v] = wpc[v] /\ slice'[v] = slice[v]
          /\ result'[v] = result[v] /\ place'[v] = place[v]
      BY <2>1
    <3>2. Row(m, place[v][2])' = Row(m, place[v][2])
      BY <1>6, <3>1 DEF Row
    <3>3. /\ wpc[v] = "write" => Row(m, place[v][2]) = Nothing
          /\ wpc[v] = "done" => Row(m, place[v][2]) = <<slice[v].env, result[v]>>
      BY <1>1, <3>1 DEF RowInv
    <3> QED
      BY <3>1, <3>2, <3>3
  <2>4. ASSUME ~IsSync, NEW m \in BlockIds
        PROVE  /\ \A v \in Active(m)' : place'[v][2] < blocks'[m].allocCount
               /\ \A n \in RowIds :
                    /\ Row(m, n)' # Nothing => n < blocks'[m].allocCount
                    /\ n < blocks'[m].allocCount =>
                         Row(m, n)' # Nothing
                         \/ \E v \in Active(m)' : wpc'[v] = "write" /\ place'[v][2] = n
    <3>1. /\ \A v \in Active(m) : place[v][2] < blocks[m].allocCount
          /\ \A n \in RowIds :
               /\ Row(m, n) # Nothing => n < blocks[m].allocCount
               /\ n < blocks[m].allocCount =>
                    Row(m, n) # Nothing
                    \/ \E v \in Active(m) : wpc[v] = "write" /\ place[v][2] = n
      BY <1>1, <2>4 DEF RowInv
    <3>2. blocks'[m].allocCount = blocks[m].allocCount
      BY <1>6
    <3>3. ASSUME NEW v \in Active(m), wpc[v] = "write"
          PROVE  v \in Active(m)' /\ wpc'[v] = "write" /\ place'[v] = place[v]
      <4>1. v \in Workers /\ v # w
        BY <1>a, <3>3 DEF Active
      <4> QED
        BY <1>5, <1>8, <3>3, <4>1
    <3>4. \A v \in Active(m)' : place'[v][2] < blocks'[m].allocCount
      BY <2>1, <3>1, <3>2
    <3>5. \A n \in RowIds : Row(m, n)' = Row(m, n)
      BY <1>7
    <3> QED
      BY <3>1, <3>2, <3>3, <3>4, <3>5
  <2> QED
    BY <1>4, <2>2, <2>3, <2>4 DEF RowInv
<1>18. RecvInv'
  <2>1. ASSUME rpc = "replace" PROVE k # 0
    <3>1. blocks[0].doneCount = Batch
      BY <1>1, <2>1 DEF RecvInv
    <3> QED
      BY <1>3, <2>1, <3>1, HeadComplete
  <2>2. rpc = "replace" => blocks'[0].doneCount = blocks[0].doneCount
    BY <1>a, <1>6, <2>1
  <2>3. blocks'[0].rows = blocks[0].rows
    BY <1>a, <1>6
  <2> QED
    BY <1>1, <1>2, <1>4, <2>2, <2>3 DEF RecvInv, Row
<1>19. OrderInv' /\ SyncInv'
  <2>1. OrderInv'
    BY <1>1, <1>2, <1>4, <1>8, <1>9 DEF OrderInv, Ordered
  <2>2. SyncInv'
    BY <1>1, <1>2, SyncFrame
  <2> QED
    BY <2>1, <2>2
<1>20. SyncRowInv'
  <2> SUFFICES ASSUME IsSync PROVE SyncRowInv'
    BY <1>4 DEF SyncRowInv
  <2>1. ASSUME NEW v \in Workers, wpc'[v] \in {"write", "done"} PROVE place'[v][1] = 0
    <3>1. v # w /\ wpc[v] \in {"write", "done"} /\ place'[v] = place[v]
      BY <1>5, <2>1
    <3> QED
      BY <1>1, <3>1 DEF SyncRowInv
  <2>2. ASSUME NEW v \in Writers PROVE place'[v][2] = slice'[v].order
    <3>1. v \in Workers \ {w}
      BY <1>a DEF Writers
    <3> QED
      BY <1>1, <1>5, <3>1 DEF SyncRowInv
  <2> QED
    BY <1>1, <1>2, <1>4, <1>7, <1>8, <2>1, <2>2 DEF SyncRowInv
<1> QED
  BY <1>10, <1>12, <1>13, <1>14, <1>15, <1>16, <1>17, <1>18, <1>19, <1>20 DEF IInv

----------------------------------------------------------------------------
(* Recv *)

\* The steps of Recv that leave blocks, queue, workers and the driver alone.
LEMMA ReceiverFrame ==
  ASSUME IInv, UNCHANGED <<config, stop, queueVars, envVars, sendVars, workerVars, driverVars>>,
         Returned' \subseteq Returned, ~stop \/ rpc' = "idle"
  PROVE  /\ PlaceInv' /\ OnceInv' /\ StopInv' /\ RequestInv' /\ RowInv' /\ OrderInv'
         /\ Batch' = Batch /\ IsSync' = IsSync /\ BlockIds' = BlockIds /\ RowIds' = RowIds
         /\ BlockType' = BlockType /\ SliceType' = SliceType
         /\ Outstanding' = Outstanding /\ Placed' = Placed
         /\ \A k \in BlockIds : Active(k)' = Active(k)
<1> USE DEF queueVars, envVars, sendVars, workerVars, driverVars
<1>1. PlaceInv'
  BY ListedFrame, QueuedFrame, HeldFrame, ReportedFrame, OutstandingFrame, PlaceFrame DEF IInv
<1>2. OnceInv' /\ RequestInv' /\ RowInv' /\ OrderInv'
  BY OnceFrame, RequestFrame, RowFrame, OrderFrame DEF IInv
<1>3. StopInv'
  BY DEF IInv, StopInv
<1> QED
  BY <1>1, <1>2, <1>3, ConfigFrame, OutstandingFrame, PlacedFrame, ActiveFrame

LEMMA RecvInductive == IInv /\ Recv => IInv'
<1> SUFFICES ASSUME IInv, Recv PROVE IInv'
  OBVIOUS
<1>1. TypeOK /\ StopInv /\ RequestInv /\ CountInv /\ RecvInv /\ SyncInv /\ SyncRowInv
  BY DEF IInv
<1> DEFINE missing == IF IsSync /\ steppingEnvNum < Batch THEN Batch - steppingEnvNum ELSE 0
<1>2. /\ rpc = "idle" /\ rpc' = IF missing > 0 THEN "done" ELSE "wait"
      /\ ~stop /\ (IsSync => spc = "idle" /\ Outstanding # {}) /\ additional' = missing
      /\ UNCHANGED <<config, stop, steppingEnvNum, queueVars, envVars, sendVars, workerVars, rows, driverVars>>
  BY DEF Recv, RecvStep
<1>3. /\ Batch \in Nat \ {0} /\ IsSync \in BOOLEAN /\ (IsSync => Batch = NumEnvs)
      /\ NumEnvs \in Nat /\ 0 \in BlockIds
  BY <1>1, Sizes DEF TypeOK
<1>4. IsSync => /\ lastList \in Lists /\ Len(lastList) \in Nat /\ Len(lastList) >= 1 /\ Len(lastList) <= NumEnvs
                /\ steppingEnvNum = Len(lastList)
  <2> SUFFICES ASSUME IsSync PROVE lastList \in Lists /\ steppingEnvNum = Len(lastList)
    BY ListType
  <2>1. lastList # <<>> /\ steppingEnvNum = Len(lastList)
    BY <1>1, <1>2 DEF SyncInv
  <2> QED
    BY <1>1, <2>1 DEF TypeOK
<1>5. /\ missing \in 0..Batch /\ (IsSync => missing = Batch - Len(lastList))
      /\ (~IsSync => missing = 0)
  BY <1>3, <1>4
<1> HIDE DEF missing
<1>6. rpc' \in {"done", "wait"} /\ (rpc' = "wait" => missing = 0)
  BY <1>2, <1>5, <1>3
<1>7. Returned' = {} /\ Returned = {}
  BY <1>2, <1>6 DEF Returned
<1>8. /\ PlaceInv' /\ OnceInv' /\ StopInv' /\ RequestInv' /\ RowInv' /\ OrderInv'
      /\ Batch' = Batch /\ IsSync' = IsSync /\ BlockIds' = BlockIds /\ RowIds' = RowIds
      /\ BlockType' = BlockType /\ SliceType' = SliceType
      /\ Outstanding' = Outstanding /\ Placed' = Placed
      /\ \A k \in BlockIds : Active(k)' = Active(k)
  BY <1>2, <1>7, ReceiverFrame
<1> USE DEF queueVars, envVars, sendVars, workerVars, driverVars
<1>9. TypeOK'
  BY <1>1, <1>2, <1>5, <1>6, <1>8 DEF TypeOK
<1>10. CountInv'
  <2>1. \A k \in BlockIds : Added(k)' = 0 /\ Added(k) = 0
    BY <1>2, <1>6 DEF Added
  <2> QED
    BY <1>1, <1>2, <1>8, <2>1 DEF CountInv
<1>11. RecvInv'
  BY <1>1, <1>2, <1>5, <1>6, <1>8 DEF RecvInv
<1>12. SyncInv'
  <2> SUFFICES ASSUME IsSync PROVE SyncInv'
    BY <1>8 DEF SyncInv
  <2>1. list = <<>>
    BY <1>1, <1>2 DEF RequestInv
  <2>2. rpc' # "return" /\ spc = "idle" /\ Outstanding # {}
    BY <1>2, <1>6
  <2> QED
    BY <1>1, <1>2, <1>4, <1>5, <1>8, <2>1, <2>2 DEF SyncInv
<1>13. SyncRowInv'
  BY <1>1, <1>2, SyncRowFrame
<1> QED
  BY <1>8, <1>9, <1>10, <1>11, <1>12, <1>13 DEF IInv

LEMMA WaitDoneInductive == IInv /\ WaitDone => IInv'
<1> SUFFICES ASSUME IInv, WaitDone PROVE IInv'
  OBVIOUS
<1>1. /\ TypeOK /\ PlaceInv /\ OnceInv /\ StopInv /\ RequestInv /\ CountInv /\ RowInv /\ RecvInv
      /\ OrderInv /\ SyncInv /\ SyncRowInv
  BY DEF IInv
<1>2. /\ rpc = "done" /\ rpc' = "wait"
      /\ blocks' = [blocks EXCEPT ![0].doneCount = @ + additional]
      /\ UNCHANGED <<config, stop, steppingEnvNum, allocCount, actionBatch, done, elapsed>>
      /\ UNCHANGED <<fifo, spc, list, what, i, additional, rows, wpc, slice, result, place>>
      /\ UNCHANGED <<asked, lastList, received>>
  BY DEF WaitDone, RecvStep, envVars, sendVars, workerVars, driverVars
<1>3. /\ Batch \in Nat \ {0} /\ 0 \in BlockIds /\ blocks \in [BlockIds -> BlockType]
  BY <1>1, Sizes DEF TypeOK
<1>4. /\ Batch' = Batch /\ IsSync' = IsSync /\ BlockIds' = BlockIds /\ RowIds' = RowIds
      /\ SliceType' = SliceType /\ BlockType' = BlockType /\ SinglePlayer' = SinglePlayer
  BY <1>2, ConfigFrame
<1>5. ASSUME NEW m \in BlockIds
      PROVE  /\ blocks'[m].allocCount = blocks[m].allocCount
             /\ blocks'[m].doneCount = IF m = 0 THEN blocks[m].doneCount + additional ELSE blocks[m].doneCount
             /\ blocks'[m].rows = blocks[m].rows
  <2>1. blocks[m] \in BlockType
        /\ blocks'[m] = IF m = 0 THEN [blocks[0] EXCEPT !.doneCount = blocks[0].doneCount + additional]
                        ELSE blocks[m]
    BY <1>2, <1>3
  <2>2. CASE m = 0
    BY <2>1, <2>2, BlockUpdate
  <2>3. CASE m # 0
    BY <2>1, <2>3
  <2> QED
    BY <2>2, <2>3
<1>6. /\ \A m \in BlockIds, n \in RowIds : Row(m, n)' = Row(m, n)
      /\ Reported' = Reported
  <2>1. \A m \in BlockIds, n \in RowIds : Row(m, n)' = Row(m, n)
    BY <1>5 DEF Row
  <2> QED
    BY <1>4, <2>1 DEF Reported
<1>7. /\ Returned' = Returned /\ Listed' = Listed /\ Queued' = Queued /\ Outstanding' = Outstanding
      /\ Holders' = Holders /\ Writers' = Writers /\ Held' = Held /\ Placed' = Placed
      /\ \A m \in BlockIds : Active(m)' = Active(m)
  <2>1. Returned' = {} /\ Returned = {}
    BY <1>2 DEF Returned
  <2>2. Holders' = Holders /\ Writers' = Writers /\ Held' = Held
    BY <1>2, HeldFrame
  <2>3. Placed' = Placed
    BY <1>2, <1>6, <2>2 DEF Placed
  <2> QED
    BY <1>2, <2>1, <2>2, <2>3, ListedFrame, QueuedFrame, OutstandingFrame, ActiveFrame
<1>8. /\ blocks[0].doneCount + Cardinality(Active(0)) = blocks[0].allocCount
      /\ Cardinality(Active(0)) \in Nat /\ blocks[0].doneCount \in 0..Batch /\ additional \in 0..Batch
      /\ blocks[0].allocCount + additional <= Batch /\ blocks[0].allocCount \in 0..Batch
  <2>1. Added(0) = 0
    BY <1>2 DEF Added
  <2>2. blocks[0].doneCount + Cardinality(Active(0)) = blocks[0].allocCount + Added(0)
    BY <1>1, <1>3 DEF CountInv
  <2>3. blocks[0].allocCount \in 0..Batch
    BY <1>3 DEF BlockType
  <2> QED
    BY <1>2, <1>3, <2>1, <2>2, <2>3, HeadBound, PlacedFacts
<1>9. TypeOK'
  <2>1. blocks[0].doneCount + additional \in 0..Batch
    BY <1>3, <1>8
  <2>2. [blocks[0] EXCEPT !.doneCount = blocks[0].doneCount + additional] \in BlockType
    BY <1>3, <2>1 DEF BlockType
  <2>3. blocks' \in [BlockIds -> BlockType]
    BY <1>2, <1>3, <2>2
  <2> QED
    BY <1>1, <1>2, <1>4, <2>3 DEF TypeOK
<1>10. PlaceInv'
  BY <1>1, <1>6, <1>7, PlaceFrame
<1>11. OnceInv'
  BY <1>1, <1>2, <1>4, <1>6, <1>7 DEF OnceInv
<1>12. StopInv' /\ RequestInv'
  BY <1>1, <1>2, RequestFrame DEF StopInv
<1>13. CountInv'
  <2>1. ASSUME NEW m \in BlockIds
        PROVE  blocks'[m].doneCount + Cardinality(Active(m)') = blocks'[m].allocCount + Added(m)'
    <3>1. CASE m = 0
      <4>1. Added(0)' = additional
        BY <1>2 DEF Added
      <4>2. /\ blocks'[0].doneCount = blocks[0].doneCount + additional
            /\ blocks'[0].allocCount = blocks[0].allocCount /\ Active(0)' = Active(0)
        BY <1>3, <1>5, <1>7
      <4>3. blocks'[0].doneCount + Cardinality(Active(0)') = blocks'[0].allocCount + additional
        BY <1>3, <1>8, <4>2
      <4> QED
        BY <3>1, <4>1, <4>3
    <3>2. CASE m # 0
      <4>1. Added(m)' = 0 /\ Added(m) = 0
        BY <3>2 DEF Added
      <4> QED
        BY <1>1, <1>5, <1>7, <3>2, <4>1 DEF CountInv
    <3> QED
      BY <3>1, <3>2
  <2> QED
    BY <1>1, <1>2, <1>4, <1>5, <1>7, <2>1 DEF CountInv
<1>14. RowInv'
  <2>1. \A m \in BlockIds : \A v \in Active(m) : Row(m, place[v][2])' = Row(m, place[v][2])
    BY <1>2, <1>5 DEF Row
  <2> QED
    BY <1>1, <1>2, <1>4, <1>5, <1>6, <1>7, <2>1 DEF RowInv
<1>15. RecvInv'
  BY <1>1, <1>2, <1>4 DEF RecvInv
<1>16. OrderInv' /\ SyncInv'
  BY <1>1, <1>2, <1>4, <1>7, OrderFrame DEF SyncInv
<1>17. SyncRowInv'
  BY <1>1, <1>2, <1>4, <1>6, <1>7 DEF SyncRowInv
<1> QED
  BY <1>9, <1>10, <1>11, <1>12, <1>13, <1>14, <1>15, <1>16, <1>17 DEF IInv

LEMMA WaitHeadInductive == IInv /\ WaitHead => IInv'
<1> SUFFICES ASSUME IInv, WaitHead PROVE IInv'
  OBVIOUS
<1>1. TypeOK /\ OnceInv /\ StopInv /\ RequestInv /\ CountInv /\ RecvInv /\ SyncInv /\ SyncRowInv
  BY DEF IInv
<1>2. /\ rpc = "wait" /\ rpc' = "replace" /\ blocks[0].doneCount = Batch
      /\ rows' = [k \in 1..blocks[0].allocCount |-> blocks[0].rows[k - 1]]
      /\ UNCHANGED <<config, stop, steppingEnvNum, queueVars, envVars, sendVars, workerVars, additional, driverVars>>
  BY DEF WaitHead, RecvStep
<1>3. /\ Batch \in Nat \ {0} /\ 0 \in BlockIds /\ blocks \in [BlockIds -> BlockType] /\ additional \in 0..Batch
  BY <1>1, Sizes DEF TypeOK
<1> DEFINE n == blocks[0].allocCount
<1>4. /\ n = Batch - additional /\ n \in Nat
      /\ \A j \in RowIds : Row(0, j) # Nothing <=> j < Batch - additional
      /\ IsSync => Len(lastList) = Batch - additional
  BY <1>2, <1>3, HeadComplete
<1> HIDE DEF n
<1>5. ASSUME NEW k \in 1..n
      PROVE  k - 1 \in RowIds /\ rows'[k] = Row(0, k - 1) /\ Row(0, k - 1) # Nothing
             /\ rows'[k] \in RowType
  <2>1. k - 1 \in RowIds /\ k - 1 < Batch - additional
    BY <1>3, <1>4 DEF RowIds
  <2>2. rows'[k] = Row(0, k - 1)
    BY <1>2 DEF n, Row
  <2>3. Row(0, k - 1) \in RowType
    BY <1>3, <2>1 DEF Row, BlockType
  <2> QED
    BY <1>4, <2>1, <2>2, <2>3
<1>6. rows' \in Seq(RowType) /\ Len(rows') = n /\ DOMAIN rows' = 1..n
  <2>1. rows' = [k \in 1..n |-> rows'[k]]
    BY <1>2 DEF n
  <2>2. rows' \in [1..n -> RowType]
    BY <1>5, <2>1
  <2> QED
    BY <1>4, <2>2
<1>7. Returned' = {}
  BY <1>2 DEF Returned
<1>8. ~stop
  BY <1>1, <1>2 DEF StopInv
<1>9. /\ PlaceInv' /\ OnceInv' /\ StopInv' /\ RequestInv' /\ RowInv' /\ OrderInv'
      /\ Batch' = Batch /\ IsSync' = IsSync /\ BlockIds' = BlockIds /\ RowIds' = RowIds
      /\ BlockType' = BlockType /\ SliceType' = SliceType
      /\ Outstanding' = Outstanding /\ Placed' = Placed
      /\ \A k \in BlockIds : Active(k)' = Active(k)
  BY <1>2, <1>7, <1>8, ReceiverFrame
<1> USE DEF queueVars, envVars, sendVars, workerVars, driverVars
<1>10. TypeOK'
  BY <1>1, <1>2, <1>6, <1>9 DEF TypeOK
<1>11. CountInv'
  <2>1. \A k \in BlockIds : Added(k)' = Added(k)
    BY <1>2 DEF Added
  <2> QED
    BY <1>1, <1>2, <1>9, <2>1 DEF CountInv
<1>12. RecvInv'
  <2>1. ASSUME NEW j \in DOMAIN rows', NEW k \in DOMAIN rows', rows'[j][1] = rows'[k][1]
        PROVE  j = k
    <3>1. j - 1 = k - 1
      BY <1>1, <1>3, <1>5, <1>6, <2>1 DEF OnceInv
    <3> QED
      BY <1>4, <1>6, <3>1
  <2>2. \A k \in DOMAIN rows' : rows'[k] = Row(0, k - 1)'
    BY <1>2, <1>5, <1>6 DEF Row
  <2>3. \A k \in DOMAIN rows' : rows'[k] # Nothing
    BY <1>5, <1>6
  <2>4. Len(rows') = Batch - additional
    BY <1>4, <1>6
  <2> QED
    BY <1>1, <1>2, <1>9, <2>1, <2>2, <2>3, <2>4 DEF RecvInv
<1>13. SyncInv'
  BY <1>1, <1>2, <1>9 DEF SyncInv
<1>14. SyncRowInv'
  <2> SUFFICES ASSUME IsSync PROVE SyncRowInv'
    BY <1>9 DEF SyncRowInv
  <2>1. ASSUME NEW k \in DOMAIN rows' PROVE k \in DOMAIN lastList /\ rows'[k][1] = lastList[k]
    <3>1. Row(0, k - 1) # Nothing /\ rows'[k] = Row(0, k - 1) /\ k - 1 \in RowIds /\ (k - 1) + 1 = k
      BY <1>4, <1>5, <1>6
    <3> QED
      BY <1>1, <1>3, <3>1 DEF SyncRowInv
  <2>2. Writers' = Writers /\ \A m \in BlockIds, j \in RowIds : Row(m, j)' = Row(m, j)
    BY <1>2, HeldFrame, ReportedFrame
  <2> QED
    BY <1>1, <1>2, <1>9, <2>1, <2>2 DEF SyncRowInv
<1> QED
  BY <1>9, <1>10, <1>11, <1>12, <1>13, <1>14 DEF IInv

LEMMA SubtractSteppingInductive == IInv /\ SubtractStepping => IInv'
<1> SUFFICES ASSUME IInv, SubtractStepping PROVE IInv'
  OBVIOUS
<1>1. TypeOK /\ StopInv /\ RequestInv /\ CountInv /\ RecvInv /\ SyncInv /\ SyncRowInv
  BY DEF IInv
<1>2. /\ rpc = "subtract" /\ rpc' = "return"
      /\ steppingEnvNum' = IF IsSync THEN steppingEnvNum - Len(rows) ELSE steppingEnvNum
      /\ UNCHANGED <<config, stop, queueVars, envVars, sendVars, workerVars, additional, rows, driverVars>>
  BY DEF SubtractStepping, RecvStep
<1>3. Returned' = Returned /\ ~stop
  BY <1>1, <1>2 DEF Returned, StopInv
<1>4. /\ PlaceInv' /\ OnceInv' /\ StopInv' /\ RequestInv' /\ RowInv' /\ OrderInv'
      /\ Batch' = Batch /\ IsSync' = IsSync /\ BlockIds' = BlockIds /\ RowIds' = RowIds
      /\ BlockType' = BlockType /\ SliceType' = SliceType
      /\ Outstanding' = Outstanding /\ Placed' = Placed
      /\ \A k \in BlockIds : Active(k)' = Active(k)
  BY <1>2, <1>3, ReceiverFrame
<1>5. IsSync => steppingEnvNum' = 0
  <2> SUFFICES ASSUME IsSync PROVE steppingEnvNum' = 0
    OBVIOUS
  <2>1. /\ Outstanding # {} /\ spc = "idle" /\ additional = Batch - Len(lastList) /\ lastList # <<>>
        /\ steppingEnvNum = Len(lastList)
    BY <1>1, <1>2 DEF SyncInv
  <2>2. Len(rows) = Batch - additional
    BY <1>1, <1>2 DEF RecvInv
  <2>3. Batch \in Nat /\ Len(lastList) \in Nat
    <3>1. lastList \in Lists
      BY <1>1, <2>1 DEF TypeOK
    <3> QED
      BY <1>1, <3>1, Sizes, ListType DEF TypeOK
  <2> QED
    BY <1>2, <2>1, <2>2, <2>3
<1> USE DEF queueVars, envVars, sendVars, workerVars, driverVars
<1>6. TypeOK'
  <2>1. steppingEnvNum' \in 0..NumEnvs
    BY <1>1, <1>2, <1>5, EnvsFinite DEF TypeOK
  <2> QED
    BY <1>1, <1>2, <1>4, <2>1 DEF TypeOK
<1>7. CountInv'
  <2>1. \A k \in BlockIds : Added(k)' = Added(k)
    BY <1>2 DEF Added
  <2> QED
    BY <1>1, <1>2, <1>4, <2>1 DEF CountInv
<1>8. RecvInv'
  BY <1>1, <1>2, <1>4 DEF RecvInv
<1>9. SyncInv' /\ SyncRowInv'
  BY <1>1, <1>2, <1>4, <1>5, SyncRowFrame DEF SyncInv
<1> QED
  BY <1>4, <1>6, <1>7, <1>8, <1>9 DEF IInv

\* The head leaves with the rows that Recv has taken: its envs lose their
\* positions, and every other block moves up.
LEMMA ReplaceHeadInductive == IInv /\ ReplaceHead => IInv'
<1> SUFFICES ASSUME IInv, ReplaceHead PROVE IInv'
  OBVIOUS
<1>1. /\ TypeOK /\ PlaceInv /\ OnceInv /\ StopInv /\ RequestInv /\ CountInv /\ RowInv /\ RecvInv
      /\ OrderInv /\ SyncInv /\ SyncRowInv
  BY DEF IInv
<1>2. /\ rpc = "replace" /\ rpc' = "subtract"
      /\ allocCount' = allocCount + additional - Batch
      /\ blocks' = [k \in DOMAIN blocks |->
                      IF k + 1 \in DOMAIN blocks THEN blocks[k + 1] ELSE FreshBlock]
      /\ place' = [w \in Workers |-> IF wpc[w] \in {"write", "done"}
                                     THEN <<place[w][1] - 1, place[w][2]>> ELSE place[w]]
      /\ UNCHANGED <<config, stop, steppingEnvNum, actionBatch, done, elapsed>>
      /\ UNCHANGED <<fifo, spc, list, what, i, additional, rows, wpc, slice, result>>
      /\ UNCHANGED <<asked, lastList, received>>
  BY DEF ReplaceHead, RecvStep, envVars, sendVars, driverVars
<1>3. /\ Batch \in Nat \ {0} /\ 0 \in BlockIds /\ blocks \in [BlockIds -> BlockType] /\ additional \in 0..Batch
      /\ NumBlocks \in Nat \ {0} /\ allocCount \in Nat /\ allocCount <= NumEnvs /\ NumEnvs \in Nat
      /\ allocCount \div Batch \in BlockIds
  BY <1>1, Sizes DEF TypeOK
<1>4. /\ Batch' = Batch /\ IsSync' = IsSync /\ BlockIds' = BlockIds /\ RowIds' = RowIds
      /\ SliceType' = SliceType /\ BlockType' = BlockType /\ SinglePlayer' = SinglePlayer
  BY <1>2, ConfigFrame
<1>a. PICK last \in BlockIds : last = NumBlocks - 1
  BY <1>3 DEF BlockIds
<1>b. PICK n \in Nat : n = Batch - additional
  BY <1>3
<1>5. /\ Active(0) = {}
      /\ IF additional > 0 THEN allocCount = n ELSE allocCount >= Batch
      /\ \A j \in RowIds : Row(0, j) # Nothing <=> j < n
      /\ n \in Nat
  <2>1. blocks[0].doneCount = Batch
    BY <1>1, <1>2 DEF RecvInv
  <2> QED
    BY <1>2, <1>3, <1>b, <2>1, HeadComplete
<1>6. \A k \in BlockIds : k = last \/ (k + 1 \in BlockIds /\ k # last /\ k + 1 # 0 /\ k + 1 \in Nat)
  BY <1>3, <1>a DEF BlockIds
<1>7. last \in BlockIds /\ last + 1 \notin BlockIds /\ last \in Int
  BY <1>3, <1>a DEF BlockIds
<1>8. /\ \A k \in BlockIds : k # last => blocks'[k] = blocks[k + 1]
      /\ blocks'[last] = FreshBlock
  <2>1. DOMAIN blocks = BlockIds
    BY <1>3
  <2> QED
    BY <1>2, <1>6, <1>7, <2>1
<1>9. FreshBlock \in BlockType /\ FreshBlock.allocCount = 0 /\ FreshBlock.doneCount = 0
      /\ \A j \in RowIds : FreshBlock.rows[j] = Nothing
  <2>1. 0 \in 0..Batch
    BY <1>3
  <2>2. \A j \in RowIds : FreshBlock.rows[j] = Nothing
    BY DEF FreshBlock, RowIds
  <2>3. [k \in 0..(Batch - 1) |-> Nothing] \in [RowIds -> RowType]
    BY DEF RowIds, RowType
  <2> QED
    BY <2>1, <2>2, <2>3 DEF FreshBlock, BlockType
<1>10. \A k \in BlockIds, j \in RowIds : Row(k, j)' = IF k = last THEN Nothing ELSE Row(k + 1, j)
  <2>1. ASSUME NEW k \in BlockIds, NEW j \in RowIds
        PROVE  Row(k, j)' = IF k = last THEN Nothing ELSE Row(k + 1, j)
    <3>1. Row(k, j)' = blocks'[k].rows[j]
      BY DEF Row
    <3>2. CASE k = last
      BY <1>8, <1>9, <3>1, <3>2
    <3>3. CASE k # last
      BY <1>8, <3>1, <3>3 DEF Row
    <3> QED
      BY <3>2, <3>3
  <2> QED
    BY <2>1
\* The workers that have a position are not in the head.
<1>11. ASSUME NEW w \in Workers, wpc[w] \in {"write", "done"}
       PROVE  /\ place[w][1] \in BlockIds /\ place[w][1] # 0 /\ place[w][2] \in RowIds
              /\ place'[w] = <<place[w][1] - 1, place[w][2]>>
              /\ place'[w][1] = place[w][1] - 1 /\ place'[w][2] = place[w][2]
              /\ place'[w][1] \in BlockIds /\ place'[w][1] # last /\ place'[w][1] + 1 = place[w][1]
  <2>1. place[w] \in BlockIds \X RowIds /\ place[w][1] # 0
    BY <1>1, <1>5, <1>11 DEF TypeOK, Active
  <2>2. place'[w] = <<place[w][1] - 1, place[w][2]>>
    BY <1>2, <1>11
  <2>3. PICK p \in BlockIds, q \in RowIds : place[w] = <<p, q>>
    BY <2>1
  <2>4. p # 0 /\ p - 1 \in BlockIds /\ p - 1 # last /\ (p - 1) + 1 = p
    BY <1>3, <1>a, <2>1, <2>3 DEF BlockIds
  <2> QED
    BY <2>1, <2>2, <2>3, <2>4
<1>12. /\ \A k \in BlockIds : k # last => Active(k)' = Active(k + 1)
       /\ Active(last)' = {}
  <2>1. ASSUME NEW k \in BlockIds, k # last PROVE Active(k)' = Active(k + 1)
    <3>1. ASSUME NEW w \in Workers, wpc[w] \in {"write", "done"}
          PROVE  place'[w][1] = k <=> place[w][1] = k + 1
      <4>1. place[w][1] \in Int /\ k \in Int /\ place'[w][1] = place[w][1] - 1
        BY <1>11, <3>1 DEF BlockIds
      <4> QED
        BY <4>1
    <3> QED
      BY <1>2, <3>1 DEF Active
  <2>2. Active(last)' = {}
    <3>1. ASSUME NEW w \in Workers, wpc[w] \in {"write", "done"} PROVE place'[w][1] # last
      BY <1>11, <3>1
    <3> QED
      BY <1>2, <3>1 DEF Active
  <2> QED
    BY <2>1, <2>2
<1>13. /\ Holders' = Holders /\ Writers' = Writers /\ Held' = Held
       /\ Listed' = Listed /\ Queued' = Queued /\ Outstanding' = Outstanding
  BY <1>2, HeldFrame, ListedFrame, QueuedFrame, OutstandingFrame
<1>c. PICK W : W = {e \in Envs : \E j \in RowIds : Row(0, j) # Nothing /\ Row(0, j)[1] = e}
  OBVIOUS
<1>14. /\ Len(rows) = n /\ DOMAIN rows = 1..n
       /\ \A k \in 1..n : k - 1 \in RowIds /\ k - 1 < n /\ rows[k] = Row(0, k - 1)
                          /\ rows[k] # Nothing /\ rows[k][1] \in Envs
       /\ \A j, k \in 1..n : rows[j][1] = rows[k][1] => j = k
  <2>1. /\ Len(rows) = n /\ \A k \in DOMAIN rows : rows[k] # Nothing /\ rows[k] = Row(0, k - 1)
        /\ \A j, k \in DOMAIN rows : rows[j][1] = rows[k][1] => j = k
    BY <1>1, <1>2, <1>b DEF RecvInv
  <2>2. DOMAIN rows = 1..n
    BY <1>1, <2>1, LenProperties DEF TypeOK
  <2>3. \A k \in 1..n : k - 1 \in RowIds /\ k - 1 < n
    BY <1>3, <1>b DEF RowIds
  <2>4. \A k \in 1..n : rows[k][1] \in Envs
    BY <1>1, <1>3, <2>1, <2>2, <2>3, RowType_
  <2> QED
    BY <2>1, <2>2, <2>3, <2>4
<1>15. Returned' = W
  <2>1. Returned' = {e \in Envs : \E k \in 1..n : rows[k][1] = e}
    BY <1>2, <1>14 DEF Returned
  <2>2. ASSUME NEW e \in Returned' PROVE e \in W
    BY <1>c, <1>14, <2>1, <2>2
  <2>3. ASSUME NEW e \in W PROVE e \in Returned'
    <3>1. PICK j \in RowIds : Row(0, j) # Nothing /\ Row(0, j)[1] = e
      BY <1>c, <2>3
    <3>2. j < n /\ j \in Nat
      BY <1>5, <3>1 DEF RowIds
    <3>3. j + 1 \in 1..n /\ (j + 1) - 1 = j
      BY <3>2
    <3>4. rows[j + 1] = Row(0, j)
      BY <1>14, <3>3
    <3> QED
      BY <1>c, <2>1, <2>3, <3>1, <3>3, <3>4
  <2> QED
    BY <2>2, <2>3
<1>16. IsFiniteSet(W) /\ Cardinality(W) = n
  <2> DEFINE S == 1..n
             f == [k \in S |-> rows[k][1]]
  <2>1. W = {e \in Envs : \E k \in S : rows[k][1] = e}
    BY <1>2, <1>14, <1>15 DEF Returned
  <2>2. IsFiniteSet(S) /\ Cardinality(S) = n
    BY FS_Interval
  <2>3. f \in [S -> W] /\ \A e \in W : \E k \in S : f[k] = e
    BY <1>14, <2>1
  <2>4. \A j, k \in S : f[j] = f[k] => j = k
    BY <1>14
  <2> HIDE DEF S, f
  <2>5. f \in Bijection(S, W)
    BY <2>3, <2>4 DEF Bijection, Injection, Surjection, IsInjective
  <2> QED
    BY <2>2, <2>5, FS_Bijection DEF ExistsBijection
<1>17. W \subseteq Reported
  BY <1>c, <1>3 DEF Reported
<1>18. Reported' = Reported \ W
  <2>1. ASSUME NEW e \in Reported' PROVE e \in Reported /\ e \notin W
    <3>1. PICK k \in BlockIds, j \in RowIds : Row(k, j)' # Nothing /\ Row(k, j)'[1] = e
      BY <1>4, <2>1 DEF Reported
    <3>2. e \in Envs
      BY <2>1 DEF Reported
    <3>3. k # last /\ Row(k, j)' = Row(k + 1, j) /\ k + 1 \in BlockIds /\ k + 1 # 0
      BY <1>6, <1>10, <3>1
    <3>4. e \in Reported
      BY <3>1, <3>2, <3>3 DEF Reported
    <3>5. ASSUME NEW q \in RowIds, Row(0, q) # Nothing, Row(0, q)[1] = e PROVE FALSE
      BY <1>1, <1>3, <3>1, <3>3, <3>5 DEF OnceInv
    <3> QED
      BY <1>c, <3>4, <3>5
  <2>2. ASSUME NEW e \in Reported, e \notin W PROVE e \in Reported'
    <3>1. PICK m \in BlockIds, j \in RowIds : Row(m, j) # Nothing /\ Row(m, j)[1] = e
      BY <2>2 DEF Reported
    <3>2. e \in Envs /\ m # 0
      BY <1>c, <2>2, <3>1 DEF Reported
    <3>3. PICK k \in BlockIds : k # last /\ m = k + 1
      <4>1. m - 1 \in BlockIds /\ m - 1 # last /\ m = (m - 1) + 1
        BY <1>3, <1>a, <3>2 DEF BlockIds
      <4> QED
        BY <4>1
    <3>4. Row(k, j)' = Row(m, j)
      BY <1>10, <3>3
    <3> QED
      BY <1>4, <3>1, <3>2, <3>4 DEF Reported
  <2> QED
    BY <2>1, <2>2
<1>19. /\ Placed' = Placed \ W /\ W \subseteq Placed
       /\ \A w \in Writers : slice[w].env \in Envs => slice[w].env \in Held
  <2>1. \A w \in Writers : slice[w].env \in Envs => slice[w].env \in Held
    BY DEF Writers, Held, Holders
  <2>2. Held \cap W = {}
    BY <1>1, <1>17 DEF PlaceInv
  <2>3. Placed' = Reported' \cup {e \in Envs : \E w \in Writers : slice[w].env = e}
    BY <1>2, <1>13 DEF Placed
  <2> QED
    BY <1>17, <1>18, <2>1, <2>2, <2>3 DEF Placed
<1>20. allocCount' = allocCount - n /\ allocCount' = Cardinality(Placed') /\ allocCount' \in 0..NumEnvs
  <2>1. allocCount' = allocCount - n
    BY <1>2, <1>3, <1>b
  <2>2. IsFiniteSet(Placed) /\ IsFiniteSet(Placed') /\ Placed = Placed' \cup W /\ Placed' \cap W = {}
    BY <1>19, PlacedFacts, FS_Subset
  <2>3. Cardinality(Placed) = Cardinality(Placed') + Cardinality(W) - Cardinality(Placed' \cap W)
    BY <1>16, <2>2, FS_Union
  <2>4. Cardinality(Placed' \cap W) = 0 /\ Cardinality(Placed') \in Nat
    BY <2>2, FS_EmptySet, FS_CardinalityType
  <2>5. allocCount = Cardinality(Placed)
    BY <1>1 DEF CountInv
  <2> QED
    BY <1>3, <1>16, <2>1, <2>3, <2>4, <2>5
<1>21. TypeOK'
  <2>1. blocks' \in [BlockIds -> BlockType]
    <3>1. blocks' = [k \in BlockIds |-> blocks'[k]]
      BY <1>2, <1>3
    <3>2. ASSUME NEW k \in BlockIds PROVE blocks'[k] \in BlockType
      BY <1>3, <1>6, <1>8, <1>9
    <3> QED
      BY <3>1, <3>2
  <2>2. place' \in [Workers -> BlockIds \X RowIds]
    <3>1. place' = [w \in Workers |-> place'[w]]
      BY <1>2
    <3>2. ASSUME NEW w \in Workers PROVE place'[w] \in BlockIds \X RowIds
      <4>1. CASE wpc[w] \in {"write", "done"}
        BY <1>11, <4>1
      <4>2. CASE wpc[w] \notin {"write", "done"}
        BY <1>1, <1>2, <4>2 DEF TypeOK
      <4> QED
        BY <4>1, <4>2
    <3> QED
      BY <3>1, <3>2
  <2> QED
    BY <1>1, <1>2, <1>4, <1>20, <2>1, <2>2 DEF TypeOK
<1>22. PlaceInv'
  BY <1>1, <1>13, <1>15, <1>17, <1>18 DEF PlaceInv
<1>23. OnceInv'
  <2>1. ASSUME NEW k \in BlockIds, NEW m \in BlockIds, NEW j \in RowIds, NEW q \in RowIds,
               Row(k, j)' # Nothing, Row(m, q)' # Nothing, Row(k, j)'[1] = Row(m, q)'[1]
        PROVE  k = m /\ j = q
    <3>1. /\ k # last /\ m # last /\ k + 1 \in BlockIds /\ m + 1 \in BlockIds
          /\ Row(k, j)' = Row(k + 1, j) /\ Row(m, q)' = Row(m + 1, q)
      BY <1>6, <1>10, <2>1
    <3>2. k + 1 = m + 1 /\ j = q
      BY <1>1, <2>1, <3>1 DEF OnceInv
    <3> QED
      BY <3>2 DEF BlockIds
  <2> QED
    BY <1>1, <1>2, <1>4, <1>13, <2>1 DEF OnceInv
<1>24. StopInv' /\ RequestInv' /\ OrderInv'
  BY <1>1, <1>2, RequestFrame, OrderFrame DEF StopInv
<1>25. CountInv'
  <2>1. ASSUME NEW k \in BlockIds
        PROVE  blocks'[k].doneCount + Cardinality(Active(k)') = blocks'[k].allocCount + Added(k)'
    <3>1. Added(k)' = 0
      BY <1>2 DEF Added
    <3>2. CASE k = last
      <4>1. Cardinality(Active(last)') = 0
        BY <1>12, FS_EmptySet
      <4> QED
        BY <1>8, <1>9, <3>1, <3>2, <4>1
    <3>3. CASE k # last
      <4>1. k + 1 \in BlockIds /\ Added(k + 1) = 0
        BY <1>6, <3>3 DEF Added
      <4> QED
        BY <1>1, <1>8, <1>12, <3>1, <3>3, <4>1 DEF CountInv
    <3> QED
      BY <3>2, <3>3
  <2>2. \A m \in BlockIds : blocks[m].allocCount =
          IF m < allocCount \div Batch THEN Batch
          ELSE IF m = allocCount \div Batch THEN allocCount % Batch ELSE 0
    BY <1>1 DEF CountInv
  <2>3. ASSUME NEW k \in BlockIds
        PROVE  blocks'[k].allocCount =
                 IF k < allocCount' \div Batch THEN Batch
                 ELSE IF k = allocCount' \div Batch THEN allocCount' % Batch ELSE 0
    <3>0. k \in Nat /\ 0 \in 0..(Batch - 1)
      BY <1>3 DEF BlockIds
    <3>1. CASE additional > 0
      <4>1. allocCount \in 0..(Batch - 1) /\ allocCount' = 0
        BY <1>3, <1>5, <1>20, <1>b, <3>1
      <4>2. allocCount \div Batch = 0 /\ 0 \div Batch = 0 /\ 0 % Batch = 0
        BY <1>3, <3>0, <4>1, DivSmall
      <4>3. blocks'[k].allocCount = 0
        <5>1. CASE k = last
          BY <1>8, <1>9, <5>1
        <5>2. CASE k # last
          <6>1. k + 1 \in BlockIds /\ ~ (k + 1 < 0) /\ k + 1 # 0
            BY <1>6, <3>0, <5>2
          <6> QED
            BY <1>8, <2>2, <4>2, <5>2, <6>1
        <5> QED
          BY <5>1, <5>2
      <4> QED
        BY <4>1, <4>2, <4>3, <3>0
    <3>2. CASE ~ (additional > 0)
      <4>1. allocCount >= Batch /\ n = Batch /\ allocCount' = allocCount - Batch
        BY <1>3, <1>5, <1>20, <1>b, <3>2
      <4>2. PICK d \in Nat : d = allocCount \div Batch
        BY <1>3, DivMod
      <4>3. allocCount' \div Batch = d - 1 /\ allocCount' % Batch = allocCount % Batch /\ d >= 1
        BY <1>3, <4>1, <4>2, DivModBack
      <4>4. CASE k = last
        <5>1. d \in BlockIds
          BY <1>3, <4>2
        <5>2. d - 1 < last
          BY <1>3, <1>a, <5>1 DEF BlockIds
        <5>3. ~ (last < d - 1) /\ last # d - 1
          BY <1>7, <4>2, <5>2
        <5> QED
          BY <1>8, <1>9, <4>3, <4>4, <5>3
      <4>5. CASE k # last
        <5>1. k + 1 \in BlockIds /\ (k + 1 < d <=> k < d - 1) /\ (k + 1 = d <=> k = d - 1)
          BY <1>6, <3>0, <4>2, <4>5
        <5>2. blocks'[k].allocCount = IF k + 1 < d THEN Batch ELSE IF k + 1 = d THEN allocCount % Batch ELSE 0
          BY <1>8, <2>2, <4>2, <4>5, <5>1
        <5> QED
          BY <4>3, <5>1, <5>2
      <4> QED
        BY <4>4, <4>5
    <3> QED
      BY <3>1, <3>2
  <2> QED
    BY <1>4, <1>20, <2>1, <2>3 DEF CountInv
<1>26. RowInv'
  <2>1. ASSUME NEW k \in BlockIds, NEW w \in Active(k)'
        PROVE  /\ w \in Workers /\ k # last /\ k + 1 \in BlockIds /\ w \in Active(k + 1)
               /\ place'[w][2] = place[w][2] /\ place[w][2] \in RowIds
    <3>1. k # last
      BY <1>12
    <3>2. w \in Active(k + 1)
      BY <1>12, <3>1
    <3>3. w \in Workers /\ wpc[w] \in {"write", "done"}
      BY <3>2 DEF Active
    <3> QED
      BY <1>6, <1>11, <3>1, <3>2, <3>3
  <2>2. \A k \in BlockIds : \A v, w \in Active(k)' : place'[v][2] = place'[w][2] => v = w
    BY <1>1, <2>1 DEF RowInv
  <2>3. ASSUME NEW k \in BlockIds, NEW w \in Active(k)'
        PROVE  /\ wpc'[w] = "write" => Row(k, place[w][2])' = Nothing
               /\ wpc'[w] = "done" => Row(k, place[w][2])' = <<slice'[w].env, result'[w]>>
    <3>1. /\ w \in Workers /\ k # last /\ k + 1 \in BlockIds /\ w \in Active(k + 1)
          /\ place'[w][2] = place[w][2] /\ place[w][2] \in RowIds
      BY <2>1
    <3>2. Row(k, place[w][2])' = Row(k + 1, place[w][2])
      <4>1. Row(k, place[w][2])' = blocks'[k].rows[place'[w][2]]
        BY DEF Row
      <4> QED
        BY <1>8, <3>1, <4>1 DEF Row
    <3>3. /\ wpc[w] = "write" => Row(k + 1, place[w][2]) = Nothing
          /\ wpc[w] = "done" => Row(k + 1, place[w][2]) = <<slice[w].env, result[w]>>
      BY <1>1, <3>1 DEF RowInv
    <3> QED
      BY <1>2, <3>2, <3>3
  <2>4. ASSUME ~IsSync, NEW k \in BlockIds
        PROVE  /\ \A w \in Active(k)' : place'[w][2] < blocks'[k].allocCount
               /\ \A j \in RowIds :
                    /\ Row(k, j)' # Nothing => j < blocks'[k].allocCount
                    /\ j < blocks'[k].allocCount =>
                         Row(k, j)' # Nothing
                         \/ \E w \in Active(k)' : wpc'[w] = "write" /\ place'[w][2] = j
    <3>1. CASE k = last
      <4>1. blocks'[k].allocCount = 0 /\ Active(k)' = {} /\ \A j \in RowIds : Row(k, j)' = Nothing
        BY <1>8, <1>9, <1>10, <1>12, <3>1
      <4>2. \A j \in RowIds : ~ (j < 0)
        BY DEF RowIds
      <4> QED
        BY <4>1, <4>2
    <3>2. CASE k # last
      <4>1. /\ k + 1 \in BlockIds /\ blocks'[k] = blocks[k + 1] /\ Active(k)' = Active(k + 1)
            /\ \A j \in RowIds : Row(k, j)' = Row(k + 1, j)
        BY <1>6, <1>8, <1>10, <1>12, <3>2
      <4>2. /\ \A w \in Active(k + 1) : place[w][2] < blocks[k + 1].allocCount
            /\ \A j \in RowIds :
                 /\ Row(k + 1, j) # Nothing => j < blocks[k + 1].allocCount
                 /\ j < blocks[k + 1].allocCount =>
                      Row(k + 1, j) # Nothing
                      \/ \E w \in Active(k + 1) : wpc[w] = "write" /\ place[w][2] = j
        BY <1>1, <2>4, <4>1 DEF RowInv
      <4>3. \A w \in Active(k + 1) : place'[w][2] = place[w][2] /\ wpc'[w] = wpc[w]
        BY <1>2, <2>1, <4>1
      <4> QED
        BY <4>1, <4>2, <4>3
    <3> QED
      BY <3>1, <3>2
  <2> QED
    BY <1>4, <2>2, <2>3, <2>4 DEF RowInv
<1>27. RecvInv'
  <2>1. /\ Len(rows) = Batch - additional /\ \A k \in DOMAIN rows : rows[k] # Nothing
        /\ \A j, k \in DOMAIN rows : rows[j][1] = rows[k][1] => j = k
    BY <1>1, <1>2 DEF RecvInv
  <2> QED
    BY <1>1, <1>2, <1>4, <2>1 DEF RecvInv
<1>28. SyncInv'
  BY <1>1, <1>2, <1>4, <1>13 DEF SyncInv
<1>29. SyncRowInv'
  <2> SUFFICES ASSUME IsSync PROVE SyncRowInv'
    BY <1>4 DEF SyncRowInv
  <2>1. ASSUME NEW w \in Workers, wpc'[w] \in {"write", "done"} PROVE FALSE
    <3>1. wpc[w] \in {"write", "done"} /\ place[w][1] = 0
      BY <1>1, <1>2, <2>1 DEF SyncRowInv
    <3> QED
      BY <1>11, <3>1
  <2>2. \A k \in BlockIds, j \in RowIds : Row(k, j)' = Nothing
    <3>1. ASSUME NEW k \in BlockIds, NEW j \in RowIds, k # last PROVE Row(k + 1, j) = Nothing
      <4>1. k + 1 \in BlockIds /\ k + 1 # 0
        BY <1>6, <3>1
      <4> QED
        BY <1>1, <4>1 DEF SyncRowInv
    <3> QED
      BY <1>10, <3>1
  <2>3. Writers' = {}
    BY <2>1 DEF Writers
  <2> QED
    BY <1>1, <1>2, <1>4, <2>1, <2>2, <2>3 DEF SyncRowInv
<1> QED
  BY <1>21, <1>22, <1>23, <1>24, <1>25, <1>26, <1>27, <1>28, <1>29 DEF IInv

\* What Recv returns is no longer asked.
LEMMA ReturnInductive == IInv /\ Return => IInv'
<1> SUFFICES ASSUME IInv, Return PROVE IInv'
  OBVIOUS
<1>1. /\ TypeOK /\ PlaceInv /\ OnceInv /\ StopInv /\ RequestInv /\ CountInv /\ RowInv /\ RecvInv
      /\ OrderInv /\ SyncInv /\ SyncRowInv
  BY DEF IInv
<1>2. /\ rpc = "return" /\ rpc' = "idle" /\ received' = rows
      /\ asked' = [e \in Envs |-> IF \E k \in DOMAIN rows : rows[k][1] = e THEN Nothing ELSE asked[e]]
      /\ additional' = 0 /\ rows' = <<>>
      /\ UNCHANGED <<config, stop, steppingEnvNum, allocCount, blocks, actionBatch, done, elapsed>>
      /\ UNCHANGED <<fifo, spc, list, what, i, wpc, slice, result, place, lastList>>
  BY DEF Return, RecvStep, queueVars, envVars, sendVars, workerVars
<1>3. /\ Batch \in Nat \ {0} /\ NumEnvs \in Nat
      /\ Batch' = Batch /\ IsSync' = IsSync /\ BlockIds' = BlockIds /\ RowIds' = RowIds
      /\ SliceType' = SliceType /\ BlockType' = BlockType /\ SinglePlayer' = SinglePlayer
  BY <1>1, <1>2, Sizes, ConfigFrame DEF TypeOK
<1>4. Returned = {e \in Envs : \E k \in DOMAIN rows : rows[k][1] = e} /\ Returned' = {}
  BY <1>2 DEF Returned
<1>5. /\ \A e \in Envs : asked'[e] = IF e \in Returned THEN Nothing ELSE asked[e]
      /\ Outstanding' = Outstanding \ Returned
  <2>1. \A e \in Envs : asked'[e] = IF e \in Returned THEN Nothing ELSE asked[e]
    BY <1>2, <1>4
  <2> QED
    BY <2>1 DEF Outstanding
<1>6. /\ Holders' = Holders /\ Held' = Held /\ Reported' = Reported /\ Placed' = Placed
      /\ Listed' = Listed /\ Queued' = Queued
      /\ \A k \in BlockIds : Active(k)' = Active(k)
  BY <1>2, HeldFrame, ReportedFrame, ListedFrame, QueuedFrame, PlacedFrame, ActiveFrame
<1>7. TypeOK'
  <2>1. asked' \in [Envs -> Actions \cup {"reset", Nothing}]
    BY <1>1, <1>2 DEF TypeOK
  <2>2. 0 \in 0..Batch /\ <<>> \in Seq(RowType)
    BY <1>3
  <2> QED
    BY <1>1, <1>2, <1>3, <2>1, <2>2 DEF TypeOK
<1>8. PlaceInv'
  BY <1>1, <1>4, <1>5, <1>6 DEF PlaceInv
<1>9. OnceInv' /\ RowInv'
  BY <1>1, <1>2, OnceFrame, RowFrame
<1>10. StopInv'
  BY <1>1, <1>2 DEF StopInv
<1>11. RequestInv'
  <2>1. ASSUME NEW e \in Listed \cup Queued \cup Held PROVE e \in Envs /\ asked'[e] = asked[e]
    BY <1>1, <1>5 DEF PlaceInv, Listed, Queued, Held
  <2>2. ASSUME NEW k \in DOMAIN list PROVE asked'[list[k]] = asked[list[k]]
    <3>1. list \in Lists
      BY <1>1 DEF TypeOK
    <3>2. list[k] \in Envs
      BY <3>1, ListType
    <3> QED
      BY <2>1, <3>2 DEF Listed
  <2>3. ASSUME NEW k \in DOMAIN fifo PROVE Carries(fifo[k])'
    <3>1. Carries(fifo[k]) /\ fifo'[k] = fifo[k] /\ actionBatch' = actionBatch
      BY <1>1, <1>2 DEF RequestInv
    <3>2. fifo[k].env \in Envs => asked'[fifo[k].env] = asked[fifo[k].env]
      BY <2>1 DEF Queued
    <3> QED
      BY ONLY <3>1, <3>2 DEF Carries
  <2>4. ASSUME NEW w \in Workers, wpc[w] \in {"check", "run"} PROVE Carries(slice[w])'
    <3>1. Carries(slice[w]) /\ slice'[w] = slice[w] /\ actionBatch' = actionBatch
      BY <1>1, <1>2, <2>4 DEF RequestInv
    <3>2. slice[w].env \in Envs => asked'[slice[w].env] = asked[slice[w].env]
      BY <2>1, <2>4 DEF Held, Holders
    <3> QED
      BY ONLY <3>1, <3>2 DEF Carries
  <2> QED
    BY <1>1, <1>2, <2>2, <2>3, <2>4 DEF RequestInv
<1>12. CountInv'
  <2>1. \A k \in BlockIds : Added(k)' = Added(k)
    BY <1>2 DEF Added
  <2> QED
    BY <1>1, <1>2, <1>3, <1>6, <2>1 DEF CountInv
<1>13. RecvInv'
  BY <1>1, <1>2, <1>3 DEF RecvInv
<1>14. OrderInv'
  BY <1>1, <1>2, OrderFrame
<1>15. SyncInv'
  <2> SUFFICES ASSUME IsSync PROVE SyncInv'
    BY <1>3 DEF SyncInv
  <2>1. /\ Outstanding # {} /\ Outstanding = EnvsOf(lastList) /\ lastList # <<>> /\ spc = "idle"
        /\ additional = Batch - Len(lastList) /\ steppingEnvNum = 0
    BY <1>1, <1>2 DEF SyncInv
  <2>2. lastList \in Lists
    BY <1>1, <2>1 DEF TypeOK
  <2>3. Len(lastList) \in Nat /\ DOMAIN lastList = 1..Len(lastList)
    BY <2>2, ListType
  <2>4. DOMAIN rows = 1..Len(lastList)
    <3>1. Len(rows) = Batch - additional
      BY <1>1, <1>2 DEF RecvInv
    <3>2. Len(rows) = Len(lastList)
      BY <1>3, <2>1, <2>3, <3>1
    <3> QED
      BY <1>1, <3>2, LenProperties DEF TypeOK
  <2>5. \A k \in DOMAIN lastList : k \in DOMAIN rows /\ rows[k][1] = lastList[k]
    BY <1>1, <2>3, <2>4 DEF SyncRowInv
  <2>6. Outstanding \subseteq Returned
    BY <1>4, <2>1, <2>5 DEF EnvsOf, Outstanding
  <2>7. Outstanding' = {} /\ list = <<>>
    BY <1>1, <1>5, <2>1, <2>6 DEF RequestInv
  <2> QED
    BY <1>2, <1>3, <2>1, <2>7 DEF SyncInv
<1>16. SyncRowInv'
  <2>1. Writers' = Writers /\ \A m \in BlockIds, j \in RowIds : Row(m, j)' = Row(m, j)
    BY <1>2, HeldFrame, ReportedFrame
  <2> QED
    BY <1>1, <1>2, <1>3, <2>1 DEF SyncRowInv
<1> QED
  BY <1>7, <1>8, <1>9, <1>10, <1>11, <1>12, <1>13, <1>14, <1>15, <1>16 DEF IInv

----------------------------------------------------------------------------
(* The theorems *)

LEMMA InitIInv == Init => IInv
<1> SUFFICES ASSUME Init PROVE IInv
  OBVIOUS
<1> USE DEF Init
<1>1. /\ config \in Configs /\ Batch \in Nat \ {0} /\ NumEnvs \in Nat /\ 0 \in BlockIds /\ 0 \in RowIds
  BY Sizes
<1>2. 0 \in 0..Batch /\ 0 \in 0..NumEnvs /\ 0 \in 0..(NumEnvs + 1) /\ 0 \in -1..(Batch - 1)
  BY <1>1
<1>3. FreshBlock \in BlockType /\ FreshBlock.allocCount = 0 /\ FreshBlock.doneCount = 0
      /\ \A j \in RowIds : FreshBlock.rows[j] = Nothing
  <2>1. \A j \in RowIds : FreshBlock.rows[j] = Nothing
    BY DEF FreshBlock, RowIds
  <2>2. [k \in 0..(Batch - 1) |-> Nothing] \in [RowIds -> RowType]
    BY DEF RowIds, RowType
  <2> QED
    BY <1>2, <2>1, <2>2 DEF FreshBlock, BlockType
<1>4. EmptySlice \in SliceType /\ EmptySlice.env = Nothing /\ Nothing \notin Envs
  BY <1>2, SizesAssumption DEF EmptySlice, SliceType
<1>5. \A k \in BlockIds : blocks[k] = FreshBlock
  BY DEF BlockIds
<1>6. TypeOK
  <2>1. blocks \in [BlockIds -> BlockType]
    BY <1>3 DEF BlockIds
  <2>2. /\ fifo \in Seq(SliceType) /\ rows \in Seq(RowType) /\ received \in Seq(RowType)
    OBVIOUS
  <2>3. slice \in [Workers -> SliceType] /\ place \in [Workers -> BlockIds \X RowIds]
    BY <1>1, <1>4
  <2>4. /\ elapsed \in [Envs -> -1..MaxEpisodeSteps]
    <3>1. -1 \in -1..MaxEpisodeSteps
      BY SizesAssumption
    <3> QED
      BY <3>1
  <2> QED
    BY <1>1, <1>2, <2>1, <2>2, <2>3, <2>4 DEF TypeOK
<1>7. /\ Listed = {} /\ Queued = {} /\ Held = {} /\ Holders = {} /\ Writers = {} /\ Returned = {}
      /\ Outstanding = {}
      /\ \A k \in BlockIds : Active(k) = {}
  BY DEF Listed, Queued, Held, Holders, Writers, Returned, Outstanding, Active
<1>8. \A k \in BlockIds, j \in RowIds : Row(k, j) = Nothing
  BY <1>3, <1>5 DEF Row
<1>9. Reported = {} /\ Placed = {}
  BY <1>7, <1>8 DEF Reported, Placed
<1>10. PlaceInv /\ OnceInv /\ StopInv /\ OrderInv
  BY <1>7, <1>8, <1>9 DEF PlaceInv, OnceInv, StopInv, OrderInv
<1>11. RequestInv
  BY SizesAssumption DEF RequestInv
<1>12. CountInv
  <2>1. 0 \div Batch = 0 /\ 0 % Batch = 0 /\ Cardinality({}) = 0
    <3>1. 0 \in 0..(Batch - 1)
      BY <1>1
    <3> QED
      BY <1>1, <3>1, DivSmall, FS_EmptySet
  <2>2. \A k \in BlockIds : ~ (k < 0) /\ Added(k) = 0
    BY DEF BlockIds, Added
  <2> QED
    BY <1>3, <1>5, <1>7, <1>9, <2>1, <2>2 DEF CountInv
<1>13. RowInv
  <2>1. \A j \in RowIds : ~ (j < 0)
    BY DEF RowIds
  <2> QED
    BY <1>3, <1>5, <1>7, <1>8, <2>1 DEF RowInv
<1>14. RecvInv
  BY DEF RecvInv
<1>15. SyncInv /\ SyncRowInv
  BY <1>7, <1>8 DEF SyncInv, SyncRowInv
<1> QED
  BY <1>6, <1>10, <1>11, <1>12, <1>13, <1>14, <1>15 DEF IInv

LEMMA StutterIInv == IInv /\ UNCHANGED vars => IInv'
<1> SUFFICES ASSUME IInv, UNCHANGED vars PROVE IInv'
  OBVIOUS
<1> USE DEF vars, queueVars, envVars, sendVars, recvVars, workerVars, driverVars
<1>1. TypeOK'
  BY ConfigFrame DEF IInv, TypeOK
<1>2. PlaceInv'
  BY ListedFrame, QueuedFrame, HeldFrame, ReportedFrame, ReturnedFrame, OutstandingFrame, PlaceFrame
     DEF IInv
<1>3. OnceInv' /\ StopInv' /\ RequestInv' /\ CountInv' /\ RowInv' /\ RecvInv'
  BY OnceFrame, StopFrame, RequestFrame, CountFrame, RowFrame, RecvFrame DEF IInv
<1>4. OrderInv' /\ SyncInv' /\ SyncRowInv'
  BY OrderFrame, SyncFrame, SyncRowFrame DEF IInv
<1> QED
  BY <1>1, <1>2, <1>3, <1>4 DEF IInv

LEMMA NextIInv == IInv /\ Next => IInv'
<1> SUFFICES ASSUME IInv, Next PROVE IInv'
  OBVIOUS
<1>1. CASE Send
  <2>1. PICK l \in Lists, a \in Actions : Ask(l, a)
    BY <1>1 DEF Send
  <2> QED
    BY <1>1, <2>1, AskInductive DEF Send, SendStep
<1>2. CASE Reset
  <2>1. PICK l \in Lists : Ask(l, "reset")
    BY <1>2 DEF Reset
  <2> QED
    BY <1>2, <2>1, AskInductive DEF Reset, SendStep
<1>3. CASE SetStop
  BY <1>3, SetStopInductive
<1>4. CASE Sender
  BY <1>4, SetActionInductive, CountSteppingInductive, EnqueueBulkInductive, EnqueuePoisonInductive,
     JoinInductive DEF Sender
<1>5. CASE Recv
  BY <1>5, RecvInductive
<1>6. CASE Receiver
  BY <1>6, WaitDoneInductive, WaitHeadInductive, ReplaceHeadInductive, SubtractSteppingInductive,
     ReturnInductive DEF Receiver
<1>7. ASSUME NEW w \in Workers, Worker(w) PROVE IInv'
  BY <1>7, DequeueInductive, CheckStopInductive, RunEnvInductive, AllocateInductive,
     WriteStateInductive, PostProcessInductive DEF Worker
<1> QED
  BY <1>1, <1>2, <1>3, <1>4, <1>5, <1>6, <1>7 DEF Next

\* The inductive invariant holds in every reachable state of every pool.
THEOREM PoolInductive == Spec => []IInv
<1>1. Init => IInv
  BY InitIInv
<1>2. IInv /\ [Next]_vars => IInv'
  BY NextIInv, StutterIInv
<1> QED
  BY <1>1, <1>2, PTL DEF Spec

\* The row that a worker has written is there until the worker leaves its block.
LEMMA DoneRow ==
  ASSUME IInv, NEW w \in Workers, wpc[w] = "done"
  PROVE  /\ place[w][1] \in BlockIds /\ place[w][2] \in RowIds /\ w \in Active(place[w][1])
         /\ Row(place[w][1], place[w][2]) # Nothing
         /\ Row(place[w][1], place[w][2])[1] = slice[w].env
         /\ Row(place[w][1], place[w][2])[2] = result[w]
         /\ slice[w].env \in Envs /\ slice[w].env \in Reported
<1>1. TypeOK /\ StopInv /\ RequestInv /\ RowInv
  BY DEF IInv
<1>2. place[w][1] \in BlockIds /\ place[w][2] \in RowIds /\ w \in Active(place[w][1])
  BY <1>1 DEF TypeOK, Active
<1>3. Row(place[w][1], place[w][2]) = <<slice[w].env, result[w]>>
  BY <1>1, <1>2 DEF RowInv
<1>4. slice[w].env \in Envs
  <2>1. slice[w] \in SliceType /\ slice[w].env # Nothing
    BY <1>1 DEF TypeOK, StopInv
  <2> QED
    BY <2>1 DEF SliceType
<1>5. <<slice[w].env, result[w]>> \in Envs \X ResultType
  BY <1>1, <1>4 DEF TypeOK, RequestInv
<1>6. Row(place[w][1], place[w][2]) # Nothing
  BY <1>3, <1>5, NothingAssumption
<1> QED
  BY <1>2, <1>3, <1>4, <1>6 DEF Reported

LEMMA UsersApart ==
  ASSUME IInv, ~stop, NEW v \in Workers, NEW w \in Workers, v # w
  PROVE  InUse(v) \cap InUse(w) = {}
<1>1. TypeOK /\ PlaceInv /\ OnceInv /\ StopInv /\ RequestInv /\ RowInv
  BY DEF IInv
<1> SUFFICES ASSUME NEW e, e \in InUse(v), e \in InUse(w) PROVE FALSE
  OBVIOUS
<1>2. \A u \in Workers : e \in InUse(u) =>
        /\ wpc[u] \in {"check", "run", "allocate", "write", "done"} /\ slice[u].env = e /\ e \in Envs
        /\ slice[u] \in SliceType
  <2> SUFFICES ASSUME NEW u \in Workers, e \in InUse(u)
               PROVE  /\ wpc[u] \in {"check", "run", "allocate", "write", "done"}
                      /\ slice[u].env = e /\ e \in Envs /\ slice[u] \in SliceType
    OBVIOUS
  <2>1. wpc[u] \in {"check", "run", "allocate", "write", "done"} /\ slice[u].env = e
    BY DEF InUse
  <2>2. slice[u] \in SliceType
    BY <1>1 DEF TypeOK
  <2>3. slice[u].env # Nothing
    BY <1>1, <2>1 DEF StopInv
  <2> QED
    BY <2>1, <2>2, <2>3 DEF SliceType
<1>3. ASSUME NEW u \in Workers, e \in InUse(u), wpc[u] # "done" PROVE u \in Holders /\ e \in Held
  BY <1>2, <1>3 DEF Holders, Held
<1>4. ASSUME NEW u \in Workers, e \in InUse(u), wpc[u] = "done"
      PROVE  /\ place[u][1] \in BlockIds /\ place[u][2] \in RowIds /\ u \in Active(place[u][1])
             /\ Row(place[u][1], place[u][2]) # Nothing /\ Row(place[u][1], place[u][2])[1] = e
             /\ e \in Reported
  BY <1>2, <1>4, DoneRow
<1>5. CASE wpc[v] # "done" /\ wpc[w] # "done"
  BY <1>1, <1>2, <1>3, <1>5 DEF OnceInv
<1>6. CASE wpc[v] = "done" /\ wpc[w] = "done"
  <2>1. place[v][1] = place[w][1] /\ place[v][2] = place[w][2]
    BY <1>1, <1>4, <1>6 DEF OnceInv
  <2> QED
    BY <1>1, <1>4, <1>6, <2>1 DEF RowInv
<1>7. CASE wpc[v] # "done" /\ wpc[w] = "done"
  BY <1>1, <1>3, <1>4, <1>7 DEF PlaceInv
<1>8. CASE wpc[v] = "done" /\ wpc[w] # "done"
  BY <1>1, <1>3, <1>4, <1>8 DEF PlaceInv
<1> QED
  BY <1>5, <1>6, <1>7, <1>8

\* No two workers are ever in one env, and SetAction touches none that a worker is in.
THEOREM EnvsDoNotRace == Spec => []NoEnvRace
<1>1. IInv => NoEnvRace
  <2> SUFFICES ASSUME IInv, ~stop PROVE NoEnvRace
    BY DEF NoEnvRace
  <2>1. ASSUME spc = "set", NEW w \in Workers, list[i] \in InUse(w) PROVE FALSE
    <3>1. TypeOK /\ PlaceInv /\ StopInv /\ RequestInv /\ RowInv
      BY DEF IInv
    <3>2. list \in Lists /\ i \in 1..Len(list)
      BY <2>1, <3>1 DEF TypeOK, RequestInv
    <3>3. list[i] \in Envs /\ list[i] \in Listed
      BY <3>2, ListType DEF Listed
    <3>4. wpc[w] \in {"check", "run", "allocate", "write", "done"} /\ slice[w].env = list[i]
      BY <2>1 DEF InUse
    <3>5. CASE wpc[w] # "done"
      BY <3>1, <3>3, <3>4, <3>5 DEF PlaceInv, Held, Holders
    <3>6. CASE wpc[w] = "done"
      <4>1. list[i] \in Reported
        BY <3>4, <3>6, DoneRow
      <4> QED
        BY <3>1, <3>3, <4>1 DEF PlaceInv
    <3> QED
      BY <3>5, <3>6
  <2> QED
    BY <2>1, UsersApart DEF NoEnvRace
<1> QED
  BY <1>1, PoolInductive, PTL

\* stepping_env_num_ is what the next Recv of a synchronous pool will return.
THEOREM SteppingNumIsRight == Spec => []SteppingNumIsOutstanding
<1>1. IInv => SteppingNumIsOutstanding
  <2> SUFFICES ASSUME IInv, IsSync, spc = "idle", rpc = "idle"
               PROVE  steppingEnvNum = Cardinality(Outstanding)
    BY DEF SteppingNumIsOutstanding
  <2>1. TypeOK /\ SyncInv
    BY DEF IInv
  <2>2. CASE Outstanding = {}
    BY <2>1, <2>2, FS_EmptySet DEF SyncInv
  <2>3. CASE Outstanding # {}
    <3>1. Outstanding = EnvsOf(lastList) /\ lastList # <<>> /\ steppingEnvNum = Len(lastList)
      BY <2>1, <2>3 DEF SyncInv
    <3>2. lastList \in Lists
      BY <2>1, <3>1 DEF TypeOK
    <3> QED
      BY <3>1, <3>2, ListSize
  <2> QED
    BY <2>2, <2>3
<1> QED
  BY <1>1, PoolInductive, PTL

----------------------------------------------------------------------------
(* The pool implements the vector of envs *)

Bearing(w) == wpc[w] \in {"allocate", "write", "done"}

\* Where the answer a of e is.
Tells(e, a) ==
  \/ \E w \in Workers : Bearing(w) /\ slice[w].env = e /\ result[w] = a
  \/ \E k \in BlockIds, j \in RowIds : Row(k, j) # Nothing /\ Row(k, j)[1] = e /\ Row(k, j)[2] = a
  \/ \E k \in DOMAIN rows : rows[k] # Nothing /\ rows[k][1] = e /\ rows[k][2] = a

AnswerOf(e) == IF AnswersOf(e) = {} THEN Nothing ELSE CHOOSE a \in AnswersOf(e) : TRUE
Answers == [e \in Envs |-> AnswerOf(e)]

LEMMA AnswersTold == IInv => \A e : \A a : a \in AnswersOf(e) <=> Tells(e, a)
<1> SUFFICES ASSUME IInv, NEW e, NEW a PROVE a \in AnswersOf(e) <=> Tells(e, a)
  OBVIOUS
<1>1. DOMAIN blocks = BlockIds /\ RowIds = 0..(Batch - 1)
  BY DEF IInv, TypeOK, RowIds
<1> DEFINE A == {result[w] : w \in {v \in Workers :
                  wpc[v] \in {"allocate", "write", "done"} /\ slice[v].env = e}}
           B == {row[2] : row \in {x \in {blocks[k].rows[j] : k \in DOMAIN blocks, j \in 0..(Batch - 1)}
                          : x # Nothing /\ x[1] = e}}
           C == {row[2] : row \in {rows[k] : k \in {j \in DOMAIN rows : rows[j] # Nothing /\ rows[j][1] = e}}}
<1>2. AnswersOf(e) = A \cup B \cup C
  BY DEF AnswersOf
<1>3. a \in A <=> \E w \in Workers : Bearing(w) /\ slice[w].env = e /\ result[w] = a
  BY DEF Bearing
<1>4. a \in B <=> \E k \in BlockIds, j \in RowIds : Row(k, j) # Nothing /\ Row(k, j)[1] = e /\ Row(k, j)[2] = a
  BY <1>1 DEF Row
<1>5. a \in C <=> \E k \in DOMAIN rows : rows[k] # Nothing /\ rows[k][1] = e /\ rows[k][2] = a
  OBVIOUS
<1> HIDE DEF A, B, C
<1> QED
  BY <1>2, <1>3, <1>4, <1>5 DEF Tells

LEMMA AnswersToldNext == IInv' => (\A e : \A a : a \in AnswersOf(e) <=> Tells(e, a))'
  BY AnswersTold, PTL

LEMMA AnswerFrame ==
  ASSUME IInv, IInv', NEW e, \A a : Tells(e, a)' <=> Tells(e, a)
  PROVE  AnswerOf(e)' = AnswerOf(e)
<1>1. \A a : a \in AnswersOf(e) <=> Tells(e, a)
  BY AnswersTold
<1>2. \A a : a \in AnswersOf(e)' <=> Tells(e, a)'
  BY AnswersToldNext
<1>3. AnswersOf(e)' = AnswersOf(e)
  BY <1>1, <1>2
<1> QED
  BY <1>3 DEF AnswerOf

LEMMA AnswersMap ==
  Answers = [e \in Envs |-> IF AnswersOf(e) = {} THEN Nothing
                            ELSE CHOOSE a \in AnswersOf(e) : TRUE]
  BY DEF Answers, AnswerOf

LEMMA SilentStep ==
  ASSUME IInv, IInv', UNCHANGED <<config, asked, elapsed, done, lastList, received>>,
         \A e \in Envs : \A a : Tells(e, a)' <=> Tells(e, a)
  PROVE  UNCHANGED Envs_!vars
<1>1. \A e \in Envs : AnswerOf(e)' = AnswerOf(e)
  BY AnswerFrame
<1>2. Answers' = Answers
  BY <1>1 DEF Answers
<1>3. Batch' = Batch /\ IsSync' = IsSync
  BY ConfigFrame
<1> QED
  BY <1>2, <1>3 DEF Envs_!vars, Answers, AnswerOf

\* Most steps leave every answer where it is.
LEMMA QuietStep ==
  ASSUME IInv, IInv', UNCHANGED <<config, asked, elapsed, done, lastList, received, rows>>,
         \A k \in BlockIds, j \in RowIds : Row(k, j)' = Row(k, j),
         \A w \in Workers : /\ Bearing(w)' <=> Bearing(w)
                            /\ Bearing(w) => slice'[w] = slice[w] /\ result'[w] = result[w]
  PROVE  UNCHANGED Envs_!vars
<1>1. ASSUME NEW e \in Envs, NEW a PROVE Tells(e, a)' <=> Tells(e, a)
  <2>1. BlockIds' = BlockIds /\ RowIds' = RowIds
    BY ConfigFrame
  <2> QED
    BY <2>1 DEF Tells
<1> QED
  BY <1>1, SilentStep

LEMMA SenderImplements ==
  ASSUME IInv, IInv', Sender \/ SetStop
  PROVE  UNCHANGED Envs_!vars
<1>1. /\ UNCHANGED <<config, asked, elapsed, done, lastList, received, rows, blocks>>
      /\ UNCHANGED <<wpc, slice, result>>
  BY DEF Sender, SetStop, SetAction, CountStepping, EnqueueBulk, EnqueuePoison, Join,
         queueVars, envVars, recvVars, workerVars, driverVars
<1>2. \A k \in BlockIds, j \in RowIds : Row(k, j)' = Row(k, j)
  BY <1>1 DEF Row
<1> QED
  BY <1>1, <1>2, QuietStep DEF Bearing

LEMMA RecvImplements ==
  ASSUME IInv, IInv', Recv \/ SubtractStepping \/ WaitDone
  PROVE  UNCHANGED Envs_!vars
<1>1. /\ UNCHANGED <<config, asked, elapsed, done, lastList, received, rows>>
      /\ UNCHANGED <<wpc, slice, result>>
  BY DEF Recv, SubtractStepping, WaitDone, queueVars, envVars, recvVars, workerVars, driverVars
<1>2. \A k \in BlockIds, j \in RowIds : Row(k, j)' = Row(k, j)
  <2>1. CASE Recv \/ SubtractStepping
    BY <2>1 DEF Recv, SubtractStepping, queueVars, Row
  <2>2. CASE WaitDone
    <3>1. blocks \in [BlockIds -> BlockType] /\ blocks' = [blocks EXCEPT ![0].doneCount = @ + additional]
      BY <2>2 DEF IInv, TypeOK, WaitDone
    <3>2. ASSUME NEW k \in BlockIds PROVE blocks'[k].rows = blocks[k].rows
      <4>1. blocks[k] \in BlockType
            /\ blocks'[k] = IF k = 0 THEN [blocks[0] EXCEPT !.doneCount = blocks[0].doneCount + additional]
                            ELSE blocks[k]
        BY <3>1
      <4>2. CASE k = 0
        BY <4>1, <4>2, BlockUpdate
      <4>3. CASE k # 0
        BY <4>1, <4>3
      <4> QED
        BY <4>2, <4>3
    <3> QED
      BY <3>2 DEF Row
  <2> QED
    BY <2>1, <2>2
<1> QED
  BY <1>1, <1>2, QuietStep DEF Bearing

LEMMA EarlyImplements ==
  ASSUME IInv, IInv', NEW w \in Workers, Dequeue(w) \/ CheckStop(w)
  PROVE  UNCHANGED Envs_!vars
<1>1. /\ UNCHANGED <<config, asked, elapsed, done, lastList, received, rows, blocks, result>>
      /\ wpc[w] \in {"dequeue", "check"} /\ wpc'[w] \in {"check", "exit", "run"}
      /\ \A v \in Workers : v # w => wpc'[v] = wpc[v] /\ slice'[v] = slice[v]
  BY DEF Dequeue, CheckStop, WorkerStep, IInv, TypeOK,
         queueVars, envVars, recvVars, driverVars
<1>2. \A k \in BlockIds, j \in RowIds : Row(k, j)' = Row(k, j)
  BY <1>1 DEF Row
<1>3. ASSUME NEW v \in Workers
      PROVE  /\ Bearing(v)' <=> Bearing(v)
             /\ Bearing(v) => slice'[v] = slice[v] /\ result'[v] = result[v]
  BY <1>1 DEF Bearing
<1> QED
  BY <1>1, <1>2, <1>3, QuietStep

LEMMA AllocateImplements ==
  ASSUME IInv, IInv', NEW w \in Workers, Allocate(w)
  PROVE  UNCHANGED Envs_!vars
<1>1. PICK k : blocks' = [blocks EXCEPT ![k].allocCount = @ + 1]
  BY DEF Allocate
<1>2. /\ UNCHANGED <<config, asked, elapsed, done, lastList, received, rows, slice, result>>
      /\ wpc[w] = "allocate" /\ wpc'[w] = "write"
      /\ \A v \in Workers : v # w => wpc'[v] = wpc[v]
  BY DEF Allocate, WorkerStep, IInv, TypeOK, envVars, recvVars, driverVars
<1>3. ASSUME NEW m \in BlockIds PROVE blocks'[m].rows = blocks[m].rows
  <2>1. blocks \in [BlockIds -> BlockType]
    BY DEF IInv, TypeOK
  <2>2. blocks[m] \in BlockType
        /\ blocks'[m] = IF m = k THEN [blocks[m] EXCEPT !.allocCount = blocks[m].allocCount + 1]
                        ELSE blocks[m]
    BY <1>1, <2>1
  <2>3. CASE m = k
    BY <2>2, <2>3, BlockUpdate
  <2>4. CASE m # k
    BY <2>2, <2>4
  <2> QED
    BY <2>3, <2>4
<1>4. \A m \in BlockIds, j \in RowIds : Row(m, j)' = Row(m, j)
  BY <1>3 DEF Row
<1>5. \A v \in Workers : Bearing(v)' <=> Bearing(v)
  BY <1>2 DEF Bearing
<1> QED
  BY <1>2, <1>4, <1>5, QuietStep

LEMMA WriteStateImplements ==
  ASSUME IInv, IInv', NEW w \in Workers, WriteState(w)
  PROVE  UNCHANGED Envs_!vars
<1>0. PICK k \in BlockIds, j \in RowIds : place[w] = <<k, j>>
  BY DEF IInv, TypeOK
<1>1. PICK e, x : e = slice[w].env /\ x = <<e, result[w]>>
  OBVIOUS
<1>2. /\ UNCHANGED <<config, asked, elapsed, done, lastList, received, rows, slice, result>>
      /\ wpc[w] = "write" /\ wpc'[w] = "done"
      /\ \A v \in Workers : v # w => wpc'[v] = wpc[v]
  BY DEF WriteState, WorkerStep, IInv, TypeOK, envVars, recvVars, driverVars
<1>3. /\ Row(k, j) = Nothing /\ x # Nothing /\ x[1] = e /\ x[2] = result[w]
      /\ \A m \in BlockIds : \A n \in RowIds :
           blocks'[m].rows[n] = IF m = k /\ n = j THEN x ELSE blocks[m].rows[n]
  BY <1>0, <1>1, WriteRow
<1>4. /\ \A m \in BlockIds, n \in RowIds : m # k \/ n # j => Row(m, n)' = Row(m, n)
      /\ Row(k, j)' = x
  BY <1>3 DEF Row
<1>5. \A v \in Workers : Bearing(v)' <=> Bearing(v)
  BY <1>2 DEF Bearing
<1>6. ASSUME NEW y \in Envs, NEW a PROVE Tells(y, a)' <=> Tells(y, a)
  <2>1. BlockIds' = BlockIds /\ RowIds' = RowIds
    BY <1>2, ConfigFrame
  <2>2. ASSUME NEW m \in BlockIds, NEW n \in RowIds, Row(m, n) # Nothing PROVE Row(m, n)' = Row(m, n)
    BY <1>3, <1>4, <2>2
  <2>3. ASSUME NEW m \in BlockIds, NEW n \in RowIds,
               Row(m, n)' # Nothing, Row(m, n)'[1] = y, Row(m, n)'[2] = a
        PROVE  Tells(y, a)
    <3>1. CASE m = k /\ n = j
      <4>1. Bearing(w) /\ slice[w].env = y /\ result[w] = a
        BY <1>1, <1>2, <1>3, <1>4, <2>3, <3>1 DEF Bearing
      <4> QED
        BY <4>1 DEF Tells
    <3>2. CASE ~ (m = k /\ n = j)
      <4>1. Row(m, n)' = Row(m, n)
        BY <1>4, <3>2
      <4> QED
        BY <2>3, <4>1 DEF Tells
    <3> QED
      BY <3>1, <3>2
  <2>4. Tells(y, a)' => Tells(y, a)
    BY <1>2, <1>5, <2>1, <2>3 DEF Tells
  <2>5. Tells(y, a) => Tells(y, a)'
    BY <1>2, <1>5, <2>1, <2>2 DEF Tells
  <2> QED
    BY <2>4, <2>5
<1> QED
  BY <1>2, <1>6, SilentStep

\* The worker's answer is in its row when the worker leaves it.
LEMMA PostProcessImplements ==
  ASSUME IInv, IInv', NEW w \in Workers, PostProcess(w)
  PROVE  UNCHANGED Envs_!vars
<1>1. /\ UNCHANGED <<config, asked, elapsed, done, lastList, received, rows>>
      /\ wpc[w] = "done" /\ wpc'[w] = "dequeue"
      /\ \A v \in Workers : v # w => wpc'[v] = wpc[v] /\ slice'[v] = slice[v] /\ result'[v] = result[v]
      /\ blocks' = [blocks EXCEPT ![place[w][1]].doneCount = @ + 1] /\ place[w][1] \in BlockIds
      /\ blocks \in [BlockIds -> BlockType]
  BY DEF PostProcess, WorkerStep, IInv, TypeOK, envVars, recvVars, driverVars
<1>0. PICK k \in BlockIds : k = place[w][1]
  BY <1>1
<1>2. ASSUME NEW m \in BlockIds PROVE blocks'[m].rows = blocks[m].rows
  <2>1. blocks[m] \in BlockType
        /\ blocks'[m] = IF m = k THEN [blocks[m] EXCEPT !.doneCount = blocks[m].doneCount + 1]
                        ELSE blocks[m]
    BY <1>0, <1>1
  <2>2. CASE m = k
    BY <2>1, <2>2, BlockUpdate
  <2>3. CASE m # k
    BY <2>1, <2>3
  <2> QED
    BY <2>2, <2>3
<1>3. \A m \in BlockIds, n \in RowIds : Row(m, n)' = Row(m, n)
  BY <1>2 DEF Row
<1>4. ~Bearing(w)' /\ \A v \in Workers : v # w => (Bearing(v)' <=> Bearing(v))
  BY <1>1 DEF Bearing
<1>5. ASSUME NEW e \in Envs, NEW a PROVE Tells(e, a)' <=> Tells(e, a)
  <2>1. BlockIds' = BlockIds /\ RowIds' = RowIds
    BY <1>1, ConfigFrame
  <2>2. Tells(e, a)' => Tells(e, a)
    BY <1>1, <1>3, <1>4, <2>1 DEF Tells
  <2>3. ASSUME slice[w].env = e, result[w] = a PROVE Tells(e, a)'
    <3>1. PICK m \in BlockIds, n \in RowIds :
            Row(m, n) # Nothing /\ Row(m, n)[1] = slice[w].env /\ Row(m, n)[2] = result[w]
      BY <1>1, DoneRow
    <3>2. Row(m, n)' # Nothing /\ Row(m, n)'[1] = e /\ Row(m, n)'[2] = a
      BY <1>3, <2>3, <3>1
    <3> QED
      BY <2>1, <3>2 DEF Tells
  <2>4. Tells(e, a) => Tells(e, a)'
    BY <1>1, <1>3, <1>4, <2>1, <2>3 DEF Tells
  <2> QED
    BY <2>2, <2>4
<1> QED
  BY <1>1, <1>5, SilentStep

\* Recv takes a copy of the rows of the head, and then drops the head.
LEMMA WaitHeadImplements ==
  ASSUME IInv, IInv', WaitHead
  PROVE  UNCHANGED Envs_!vars
<1>1. /\ UNCHANGED <<config, asked, elapsed, done, lastList, received, wpc, slice, result, blocks>>
      /\ rpc = "wait" /\ rpc' = "replace"
  BY DEF WaitHead, RecvStep, queueVars, envVars, workerVars, driverVars
<1>2. rows = <<>>
  BY <1>1 DEF IInv, RecvInv
<1>3. /\ BlockIds' = BlockIds /\ RowIds' = RowIds /\ Batch' = Batch
      /\ \A m \in BlockIds, n \in RowIds : Row(m, n)' = Row(m, n)
  BY <1>1, ConfigFrame, ReportedFrame
<1>4. ASSUME NEW k \in DOMAIN rows'
      PROVE  0 \in BlockIds /\ k - 1 \in RowIds /\ rows'[k] = Row(0, k - 1)
  <2>1. /\ Batch \in Nat \ {0} /\ 0 \in BlockIds /\ additional' \in 0..Batch
    BY <1>3, Sizes DEF IInv, TypeOK
  <2>2. Len(rows') = Batch - additional' /\ rows'[k] = Row(0, k - 1)'
    BY <1>1, <1>3 DEF IInv, RecvInv
  <2>3. DOMAIN rows' = 1..Len(rows')
    BY LenProperties DEF IInv, TypeOK
  <2>4. k - 1 \in RowIds
    BY <2>1, <2>2, <2>3 DEF RowIds
  <2> QED
    BY <1>1, <2>1, <2>2, <2>4 DEF Row
<1>5. ASSUME NEW e \in Envs, NEW a PROVE Tells(e, a)' <=> Tells(e, a)
  <2>1. \A v \in Workers : Bearing(v)' <=> Bearing(v)
    BY <1>1 DEF Bearing
  <2>2. Tells(e, a) => Tells(e, a)'
    BY <1>1, <1>2, <1>3, <2>1 DEF Tells
  <2>3. Tells(e, a)' => Tells(e, a)
    BY <1>1, <1>3, <1>4, <2>1 DEF Tells
  <2> QED
    BY <2>2, <2>3
<1> QED
  BY <1>1, <1>5, SilentStep

LEMMA ReplaceHeadImplements ==
  ASSUME IInv, IInv', ReplaceHead
  PROVE  UNCHANGED Envs_!vars
<1>1. /\ UNCHANGED <<config, asked, elapsed, done, lastList, received, wpc, slice, result, rows, additional>>
      /\ rpc = "replace" /\ blocks \in [BlockIds -> BlockType]
      /\ blocks' = [k \in DOMAIN blocks |->
                      IF k + 1 \in DOMAIN blocks THEN blocks[k + 1] ELSE FreshBlock]
  BY DEF ReplaceHead, RecvStep, envVars, driverVars, IInv, TypeOK
<1>2. /\ Batch \in Nat \ {0} /\ 0 \in BlockIds /\ NumBlocks \in Nat \ {0} /\ additional \in 0..Batch
      /\ BlockIds' = BlockIds /\ RowIds' = RowIds
  BY <1>1, Sizes, ConfigFrame DEF IInv, TypeOK
<1>3. \A m \in BlockIds, n \in RowIds :
        Row(m, n)' = IF m + 1 \in BlockIds THEN Row(m + 1, n) ELSE Nothing
  <2>1. \A n \in RowIds : FreshBlock.rows[n] = Nothing
    BY DEF FreshBlock, RowIds
  <2> QED
    BY <1>1, <2>1 DEF Row
<1>4. ASSUME NEW n \in RowIds, Row(0, n) # Nothing
      PROVE  n + 1 \in DOMAIN rows /\ rows[n + 1] = Row(0, n)
  <2>1. blocks[0].doneCount = Batch /\ Len(rows) = Batch - additional
        /\ \A k \in DOMAIN rows : rows[k] = Row(0, k - 1)
    BY <1>1 DEF IInv, RecvInv
  <2>2. n < Batch - additional /\ n \in Nat
    BY <1>1, <1>4, <2>1, HeadComplete DEF RowIds
  <2>3. DOMAIN rows = 1..Len(rows)
    BY LenProperties DEF IInv, TypeOK
  <2>4. n + 1 \in DOMAIN rows /\ (n + 1) - 1 = n
    BY <1>2, <2>1, <2>2, <2>3
  <2> QED
    BY <2>1, <2>4
<1>5. ASSUME NEW e \in Envs, NEW a PROVE Tells(e, a)' <=> Tells(e, a)
  <2>1. \A v \in Workers : Bearing(v)' <=> Bearing(v)
    BY <1>1 DEF Bearing
  <2>2. Tells(e, a)' => Tells(e, a)
    BY <1>1, <1>2, <1>3, <2>1 DEF Tells
  <2>3. ASSUME NEW m \in BlockIds, NEW n \in RowIds,
               Row(m, n) # Nothing, Row(m, n)[1] = e, Row(m, n)[2] = a
        PROVE  Tells(e, a)'
    <3>1. CASE m = 0
      <4>1. n + 1 \in DOMAIN rows' /\ rows'[n + 1] = Row(0, n)
        BY <1>1, <1>4, <2>3, <3>1
      <4> QED
        BY <2>3, <3>1, <4>1 DEF Tells
    <3>2. CASE m # 0
      <4>1. m - 1 \in BlockIds /\ (m - 1) + 1 = m
        BY <1>2, <3>2 DEF BlockIds
      <4>2. PICK p \in BlockIds : p + 1 = m
        BY <4>1
      <4>3. Row(p, n)' = Row(m, n)
        BY <1>3, <4>2
      <4> QED
        BY <1>2, <2>3, <4>3 DEF Tells
    <3> QED
      BY <3>1, <3>2
  <2>4. Tells(e, a) => Tells(e, a)'
    BY <1>1, <2>1, <2>3 DEF Tells
  <2> QED
    BY <2>2, <2>4
<1> QED
  BY <1>1, <1>5, SilentStep

\* Nobody tells anything of an env that a worker is about to run; and only Recv
\* does of one that it returns.
LEMMA Untold ==
  ASSUME IInv, NEW w \in Workers, wpc[w] = "run", NEW a
  PROVE  ~Tells(slice[w].env, a)
<1> DEFINE e == slice[w].env
<1>1. TypeOK /\ PlaceInv /\ OnceInv /\ StopInv /\ RecvInv
  BY DEF IInv
<1>2. e \in Envs /\ w \in Holders /\ e \in Held
  <2>1. slice[w] \in SliceType /\ e # Nothing
    BY <1>1 DEF TypeOK, StopInv
  <2> QED
    BY <2>1 DEF SliceType, Holders, Held
<1>3. e \notin Reported /\ e \notin Returned
  BY <1>1, <1>2 DEF PlaceInv
<1>4. ASSUME NEW v \in Workers, Bearing(v), slice[v].env = e PROVE FALSE
  <2>1. CASE wpc[v] = "done"
    BY <1>3, <1>4, <2>1, DoneRow
  <2>2. CASE wpc[v] # "done"
    <3>1. v \in Holders /\ v # w
      BY <1>4, <2>2 DEF Holders, Bearing
    <3> QED
      BY <1>1, <1>2, <1>4, <3>1 DEF OnceInv
  <2> QED
    BY <2>1, <2>2
<1>5. ASSUME NEW k \in BlockIds, NEW j \in RowIds, Row(k, j) # Nothing, Row(k, j)[1] = e PROVE FALSE
  BY <1>2, <1>3, <1>5 DEF Reported
<1>6. ASSUME NEW k \in DOMAIN rows, rows[k] # Nothing, rows[k][1] = e PROVE FALSE
  <2>1. rpc \in {"replace", "subtract", "return"}
    BY <1>1, <1>6 DEF RecvInv, TypeOK
  <2>2. CASE rpc = "replace"
    <3>1. rows[k] = Row(0, k - 1) /\ Len(rows) = Batch - additional
      BY <1>1, <2>2 DEF RecvInv
    <3>2. DOMAIN rows = 1..Len(rows) /\ Batch \in Nat /\ additional \in 0..Batch /\ 0 \in BlockIds
      BY <1>1, LenProperties, Sizes DEF TypeOK
    <3>3. k - 1 \in RowIds
      BY <3>1, <3>2 DEF RowIds
    <3> QED
      BY <1>5, <1>6, <3>1, <3>2, <3>3
  <2>3. CASE rpc # "replace"
    BY <1>2, <1>3, <1>6, <2>1, <2>3 DEF Returned
  <2> QED
    BY <2>2, <2>3
<1> QED
  BY <1>4, <1>5, <1>6 DEF Tells

\* The run of an env is its answer.
LEMMA RunEnvImplements ==
  ASSUME IInv, IInv', NEW w \in Workers, RunEnv(w)
  PROVE  \E e \in Envs : Envs_!Answer(e)
<1>1. TypeOK /\ PlaceInv /\ StopInv /\ RequestInv
  BY DEF IInv
<1>2. /\ wpc[w] = "run" /\ wpc' = [wpc EXCEPT ![w] = "allocate"]
      /\ UNCHANGED <<config, blocks, rows, slice, asked, lastList, received>>
  BY DEF RunEnv, Run, WorkerStep, queueVars, recvVars, driverVars
<1>0. PICK e \in Envs : e = slice[w].env
  <2>1. slice[w] \in SliceType /\ slice[w].env # Nothing
    BY <1>1, <1>2 DEF TypeOK, StopInv
  <2> QED
    BY <2>1 DEF SliceType
<1>3. PICK r \in BOOLEAN : r <=> (slice[w].forceReset \/ done[e])
  OBVIOUS
<1>4. PICK steps : steps = IF r THEN 0 ELSE elapsed[e] + 1
  OBVIOUS
<1>5. elapsed' = [elapsed EXCEPT ![e] = steps]
  BY <1>0, <1>3, <1>4 DEF RunEnv, Run
<1>6. PICK d \in BOOLEAN :
        /\ done' = [done EXCEPT ![e] = d]
        /\ result' = [result EXCEPT ![w] =
             [did |-> IF r THEN "reset" ELSE actionBatch[e], elapsed |-> steps,
              done |-> d, trunc |-> d /\ steps >= MaxEpisodeSteps]]
  BY <1>0, <1>3, <1>4 DEF RunEnv, Run, Outcomes
<1>7. /\ slice[w].forceReset <=> asked[e] = "reset"
      /\ ~slice[w].forceReset => actionBatch[e] = asked[e]
  BY <1>0, <1>1, <1>2 DEF RequestInv, Carries
<1>8. asked[e] # Nothing
  <2>1. e \in Held
    BY <1>0, <1>2 DEF Held, Holders
  <2> QED
    BY <1>1, <2>1 DEF PlaceInv, Outstanding
<1>9. PICK x : x = [did |-> IF r THEN "reset" ELSE asked[e], elapsed |-> steps,
                     done |-> d, trunc |-> d /\ steps >= MaxEpisodeSteps]
  OBVIOUS
<1>10. result' = [result EXCEPT ![w] = x]
  BY <1>3, <1>6, <1>7, <1>9
<1>11. /\ \A v \in Workers : v # w => wpc'[v] = wpc[v] /\ result'[v] = result[v]
       /\ wpc'[w] = "allocate" /\ result'[w] = x
       /\ BlockIds' = BlockIds /\ RowIds' = RowIds
       /\ \A k \in BlockIds, j \in RowIds : Row(k, j)' = Row(k, j)
  BY <1>1, <1>2, <1>10, ConfigFrame, ReportedFrame DEF TypeOK
<1>12. /\ Bearing(w)' /\ ~Bearing(w)
       /\ \A v \in Workers : v # w => (Bearing(v)' <=> Bearing(v))
  BY <1>2, <1>11 DEF Bearing
<1>13. ASSUME NEW y, y # e, NEW a PROVE Tells(y, a)' <=> Tells(y, a)
  BY <1>0, <1>2, <1>11, <1>12, <1>13 DEF Tells
<1>14. ASSUME NEW a PROVE Tells(e, a)' <=> a = x
  <2>1. ~Tells(e, a)
    BY <1>0, <1>2, Untold
  <2> QED
    BY <1>0, <1>2, <1>11, <1>12, <2>1 DEF Tells
<1>15. AnswersOf(e) = {} /\ AnswersOf(e)' = {x}
  <2>1. \A a : a \in AnswersOf(e) <=> Tells(e, a)
    BY AnswersTold
  <2>2. \A a : a \in AnswersOf(e)' <=> Tells(e, a)'
    BY AnswersToldNext
  <2>3. AnswersOf(e) = {}
    BY <1>0, <1>2, <2>1, Untold
  <2>4. AnswersOf(e)' = {x}
    BY <1>14, <2>2
  <2> QED
    BY <2>3, <2>4
<1>16. AnswerOf(e) = Nothing /\ AnswerOf(e)' = x
  BY <1>15 DEF AnswerOf
<1>17. \A y \in Envs : y # e => AnswerOf(y)' = AnswerOf(y)
  BY <1>13, AnswerFrame
<1>18. Answers' = [Answers EXCEPT ![e] = x] /\ Answers[e] = Nothing
  BY <1>16, <1>17 DEF Answers
<1>19. Batch' = Batch /\ IsSync' = IsSync
  BY <1>2, ConfigFrame
<1>20. (asked[e] = "reset" \/ done[e]) <=> r
  BY <1>3, <1>7
<1>21. Envs_!Answer(e)
  <2>1. e \in Envs_!Busy
    BY <1>8 DEF Envs_!Busy
  <2>2. steps = IF asked[e] = "reset" \/ done[e] THEN 0 ELSE elapsed[e] + 1
    BY <1>4, <1>20
  <2>3. x = [did |-> IF asked[e] = "reset" \/ done[e] THEN "reset" ELSE asked[e], elapsed |-> steps,
             done |-> d, trunc |-> d /\ steps >= MaxEpisodeSteps]
    BY <1>9, <1>20
  <2> QED
    BY <1>2, <1>5, <1>6, <1>18, <1>19, <2>1, <2>2, <2>3 DEF Envs_!Answer, Answers, AnswerOf
<1> QED
  BY <1>21

\* What Recv returns is the answer of each env of the batch, in its order.
LEMMA ReturnImplements ==
  ASSUME IInv, IInv', Return
  PROVE  \E l \in Lists : Envs_!Deliver(l)
<1>1. TypeOK /\ PlaceInv /\ OnceInv /\ RecvInv /\ SyncInv /\ SyncRowInv /\ StopInv
  BY DEF IInv
<1>2. /\ rpc = "return" /\ received' = rows /\ rows' = <<>>
      /\ asked' = [e \in Envs |-> IF \E k \in DOMAIN rows : rows[k][1] = e THEN Nothing ELSE asked[e]]
      /\ UNCHANGED <<config, elapsed, done, lastList, blocks, wpc, slice, result>>
  BY DEF Return, RecvStep, queueVars, envVars, workerVars
<1>3. /\ Batch \in Nat \ {0} /\ NumEnvs \in Nat /\ Batch <= NumEnvs /\ additional \in 0..Batch
      /\ IsSync \in BOOLEAN /\ (IsSync => Batch = NumEnvs)
      /\ Batch' = Batch /\ IsSync' = IsSync /\ BlockIds' = BlockIds /\ RowIds' = RowIds
  BY <1>1, <1>2, Sizes, ConfigFrame DEF TypeOK
<1>4. /\ Len(rows) = Batch - additional /\ DOMAIN rows = 1..Len(rows) /\ rows \in Seq(RowType)
      /\ \A k \in DOMAIN rows : rows[k] # Nothing
      /\ \A j, k \in DOMAIN rows : rows[j][1] = rows[k][1] => j = k
  BY <1>1, <1>2, LenProperties DEF RecvInv, TypeOK
<1>5. ASSUME NEW k \in DOMAIN rows
      PROVE  /\ rows[k] \in Envs \X ResultType /\ rows[k] = <<rows[k][1], rows[k][2]>>
             /\ rows[k][1] \in Envs /\ rows[k][1] \in Returned /\ rows[k][2] # Nothing
  <2>1. rows[k] \in Envs \X ResultType
    BY <1>4 DEF RowType
  <2> QED
    BY <1>2, <2>1, NothingAssumption DEF Returned
<1>6. Len(rows) \in 1..NumEnvs
      /\ (IsSync => /\ lastList \in Lists /\ DOMAIN rows = DOMAIN lastList
                    /\ Outstanding = EnvsOf(lastList) /\ \A k \in DOMAIN rows : rows[k][1] = lastList[k])
  <2>1. CASE ~IsSync
    BY <1>1, <1>3, <1>4, <2>1 DEF RecvInv
  <2>2. CASE IsSync
    <3>1. /\ Outstanding = EnvsOf(lastList) /\ lastList # <<>> /\ additional = Batch - Len(lastList)
      BY <1>1, <1>2, <2>2 DEF SyncInv
    <3>2. lastList \in Lists
      BY <1>1, <3>1 DEF TypeOK
    <3>3. DOMAIN lastList = 1..Len(lastList) /\ Len(lastList) \in 1..NumEnvs
      BY <3>2, ListType
    <3>4. Len(rows) = Len(lastList)
      BY <1>3, <1>4, <3>1, <3>3
    <3>5. \A k \in DOMAIN rows : rows[k][1] = lastList[k]
      BY <1>1, <2>2 DEF SyncRowInv
    <3> QED
      BY <1>4, <3>1, <3>2, <3>3, <3>4, <3>5
  <2> QED
    BY <2>1, <2>2
<1>7. PICK l : l = [k \in DOMAIN rows |-> rows[k][1]]
  OBVIOUS
<1>8. l \in Lists /\ DOMAIN l = DOMAIN rows /\ Len(l) = Len(rows)
  <2>1. l \in [1..Len(rows) -> Envs] /\ \A j, k \in 1..Len(rows) : l[j] = l[k] => j = k
    BY <1>4, <1>5, <1>7
  <2> QED
    BY <1>6, <2>1 DEF Lists
<1>9. EnvsOf(l) = {e \in Envs : \E k \in DOMAIN rows : rows[k][1] = e} /\ EnvsOf(l) = Returned
  BY <1>2, <1>5, <1>7 DEF EnvsOf, Returned
\* No worker and no row of the queue has an answer of an env that is returned.
<1>10. ASSUME NEW e \in Returned
       PROVE  /\ \A v \in Workers : ~(Bearing(v) /\ slice[v].env = e)
              /\ \A m \in BlockIds, n \in RowIds : ~(Row(m, n) # Nothing /\ Row(m, n)[1] = e)
  <2>1. e \in Envs /\ e \notin Held /\ e \notin Reported
    BY <1>1 DEF Returned, PlaceInv
  <2>2. ASSUME NEW v \in Workers, Bearing(v), slice[v].env = e PROVE FALSE
    BY <2>1, <2>2, DoneRow DEF Bearing, Held, Holders
  <2> QED
    BY <2>1, <2>2 DEF Reported
<1>11. /\ \A m \in BlockIds, n \in RowIds : Row(m, n)' = Row(m, n)
       /\ \A v \in Workers : Bearing(v)' <=> Bearing(v)
  BY <1>2, ReportedFrame DEF Bearing
<1>12. ASSUME NEW k \in DOMAIN rows
       PROVE  AnswerOf(rows[k][1]) = rows[k][2]
  <2>1. ASSUME NEW a PROVE Tells(rows[k][1], a) <=> a = rows[k][2]
    <3>1. Tells(rows[k][1], a) => \E j \in DOMAIN rows : rows[j][1] = rows[k][1] /\ rows[j][2] = a
      BY <1>5, <1>10 DEF Tells
    <3>2. Tells(rows[k][1], rows[k][2])
      BY <1>4 DEF Tells
    <3> QED
      BY <1>4, <3>1, <3>2
  <2>2. AnswersOf(rows[k][1]) = {rows[k][2]}
    BY <2>1, AnswersTold
  <2> QED
    BY <2>2 DEF AnswerOf
<1>13. ASSUME NEW e \in Returned PROVE AnswerOf(e)' = Nothing
  <2>1. ASSUME NEW a PROVE ~Tells(e, a)'
    BY <1>2, <1>3, <1>10, <1>11 DEF Tells
  <2>2. AnswersOf(e)' = {}
    BY <2>1, AnswersToldNext
  <2> QED
    BY <2>2 DEF AnswerOf
<1>14. ASSUME NEW e \in Envs, e \notin Returned PROVE AnswerOf(e)' = AnswerOf(e)
  <2>1. ASSUME NEW k \in DOMAIN rows PROVE rows[k][1] # e
    BY <1>5, <1>14
  <2>2. ASSUME NEW a PROVE Tells(e, a)' <=> Tells(e, a)
    BY <1>2, <1>3, <1>11, <2>1 DEF Tells
  <2> QED
    BY <2>2, AnswerFrame
<1>15. Answers' = [e \in Envs |-> IF e \in EnvsOf(l) THEN Nothing ELSE Answers[e]]
  BY <1>9, <1>13, <1>14 DEF Answers
<1>16. /\ \A e \in EnvsOf(l) : Answers[e] # Nothing
       /\ rows = [k \in DOMAIN l |-> <<l[k], Answers[l[k]]>>]
  <2>1. ASSUME NEW k \in DOMAIN rows
        PROVE  l[k] = rows[k][1] /\ Answers[l[k]] = rows[k][2] /\ rows[k] = <<l[k], Answers[l[k]]>>
               /\ Answers[l[k]] # Nothing
    BY <1>5, <1>7, <1>12 DEF Answers
  <2>2. rows = [k \in DOMAIN rows |-> rows[k]]
    BY <1>4
  <2>3. \A e \in EnvsOf(l) : Answers[e] # Nothing
    BY <1>8, <2>1 DEF EnvsOf
  <2> QED
    BY <1>8, <2>1, <2>2, <2>3
<1>17. IF IsSync THEN EnvsOf(l) = Outstanding /\ l = lastList ELSE Len(l) = Batch
  <2>1. CASE IsSync
    <3>1. lastList = [k \in DOMAIN lastList |-> lastList[k]]
      BY <1>6, <2>1 DEF Lists
    <3>2. l = lastList
      BY <1>6, <1>7, <2>1, <3>1
    <3> QED
      BY <1>6, <2>1, <3>2
  <2>2. CASE ~IsSync
    BY <1>1, <1>3, <1>4, <1>8, <2>2 DEF RecvInv
  <2> QED
    BY <2>1, <2>2
<1>18. asked' = [e \in Envs |-> IF e \in EnvsOf(l) THEN Nothing ELSE asked[e]]
  BY <1>2, <1>9
<1>19. Envs_!Deliver(l)
  BY <1>2, <1>3, <1>15, <1>16, <1>17, <1>18
     DEF Envs_!Deliver, Envs_!Busy, Outstanding, EnvsOf, Answers, AnswerOf
<1> QED
  BY <1>8, <1>19

LEMMA AskImplements ==
  ASSUME IInv, IInv', NEW l \in Lists, NEW a \in Actions \cup {"reset"}, Ask(l, a)
  PROVE  Envs_!Ask(l, a)
<1>1. /\ UNCHANGED <<config, elapsed, done, rows, blocks, wpc, slice, result>>
      /\ received' = <<>> /\ lastList' = IF IsSync THEN l ELSE <<>>
      /\ asked' = [e \in Envs |-> IF e \in EnvsOf(l) THEN a ELSE asked[e]]
      /\ EnvsOf(l) \cap Outstanding = {}
  BY DEF Ask, MayAsk, queueVars, envVars, recvVars, workerVars
<1>2. ASSUME NEW e \in Envs PROVE AnswerOf(e)' = AnswerOf(e)
  <2>1. /\ BlockIds' = BlockIds /\ RowIds' = RowIds
        /\ \A m \in BlockIds, n \in RowIds : Row(m, n)' = Row(m, n)
        /\ \A v \in Workers : Bearing(v)' <=> Bearing(v)
    BY <1>1, ConfigFrame, ReportedFrame DEF Bearing
  <2>2. ASSUME NEW b PROVE Tells(e, b)' <=> Tells(e, b)
    BY <1>1, <2>1 DEF Tells
  <2> QED
    BY <2>2, AnswerFrame
<1>3. Answers' = Answers /\ Batch' = Batch /\ IsSync' = IsSync
  BY <1>1, <1>2, ConfigFrame DEF Answers
<1> QED
  BY <1>1, <1>3 DEF Envs_!Ask, Envs_!Busy, Outstanding, EnvsOf, Answers, AnswerOf

\* VectorEnv has its own copy of FiniteSets.
LEMMA SameCardinality == \A S : Envs_!Cardinality(S) = Cardinality(S)
  BY DEF Cardinality, Envs_!Cardinality

LEMMA InitImplements == Init => Envs_!Init
<1> SUFFICES ASSUME Init PROVE Envs_!Init
  OBVIOUS
<1>1. IInv
  BY InitIInv
<1>2. /\ asked = [e \in Envs |-> Nothing] /\ elapsed = [e \in Envs |-> -1]
      /\ done \in [Envs -> BOOLEAN] /\ lastList = <<>> /\ received = <<>> /\ rows = <<>>
      /\ \A w \in Workers : ~Bearing(w)
  BY DEF Init, Bearing
<1>3. Batch \in 1..Cardinality(Envs) /\ IsSync \in BOOLEAN /\ (IsSync => Batch = Cardinality(Envs))
  <2>1. config \in ConfigType
    BY <1>1, SizesAssumption DEF IInv, TypeOK
  <2> QED
    BY <2>1 DEF ConfigType, Batch, SinglePlayer, IsSync, NumEnvs
<1>4. \A k \in BlockIds, j \in RowIds : Row(k, j) = Nothing
  BY DEF Init, BlockIds, RowIds, FreshBlock, Row
<1>5. \A e \in Envs : \A a : ~Tells(e, a)
  BY <1>2, <1>4 DEF Tells
<1>6. \A e \in Envs : AnswerOf(e) = Nothing
  BY <1>1, <1>5, AnswersTold DEF AnswerOf
<1>7. Answers = [e \in Envs |-> Nothing]
  BY <1>6 DEF Answers
<1>8. [e \in Envs |-> IF AnswersOf(e) = {} THEN Nothing ELSE CHOOSE a \in AnswersOf(e) : TRUE]
        = [e \in Envs |-> Nothing]
  BY <1>7, AnswersMap
<1> QED
  BY <1>2, <1>3, <1>8, SameCardinality DEF Envs_!Init

LEMMA StutterImplements ==
  ASSUME IInv, IInv', UNCHANGED vars
  PROVE  UNCHANGED Envs_!vars
<1>1. UNCHANGED <<config, asked, elapsed, done, lastList, received, rows, blocks, wpc, slice, result>>
  BY DEF vars, queueVars, envVars, sendVars, recvVars, workerVars, driverVars
<1>2. \A k \in BlockIds, j \in RowIds : Row(k, j)' = Row(k, j)
  BY <1>1 DEF Row
<1> QED
  BY <1>1, <1>2, QuietStep DEF Bearing

LEMMA NextImplements ==
  ASSUME IInv, IInv', [Next]_vars
  PROVE  Envs_!Next \/ UNCHANGED Envs_!vars
<1>0. Envs_!Lists = Lists
  <2>1. \A l : l \in Envs_!Lists <=> l \in Lists
    BY SameCardinality DEF Envs_!Lists, Lists, NumEnvs
  <2> QED
    BY <2>1
<1>1. CASE Send \/ Reset
  <2>1. PICK l \in Lists, a \in Actions \cup {"reset"} : Ask(l, a)
    BY <1>1 DEF Send, Reset
  <2>2. Envs_!Ask(l, a)
    BY <2>1, AskImplements
  <2> QED
    BY <1>0, <2>2 DEF Envs_!Next
<1>2. CASE Sender \/ SetStop
  BY <1>2, SenderImplements
<1>3. CASE Recv \/ SubtractStepping \/ WaitDone
  BY <1>3, RecvImplements
<1>4. CASE WaitHead \/ ReplaceHead
  BY <1>4, WaitHeadImplements, ReplaceHeadImplements
<1>5. CASE Return
  <2>1. PICK l \in Lists : Envs_!Deliver(l)
    BY <1>5, ReturnImplements
  <2> QED
    BY <1>0, <2>1 DEF Envs_!Next
<1>6. ASSUME NEW w \in Workers, Worker(w) PROVE Envs_!Next \/ UNCHANGED Envs_!vars
  <2>1. CASE RunEnv(w)
    <3>1. PICK e \in Envs : Envs_!Answer(e)
      BY <2>1, RunEnvImplements
    <3> QED
      BY <3>1 DEF Envs_!Next
  <2>2. CASE Dequeue(w) \/ CheckStop(w)
    BY <2>2, EarlyImplements
  <2>3. CASE Allocate(w)
    BY <2>3, AllocateImplements
  <2>4. CASE WriteState(w)
    BY <2>4, WriteStateImplements
  <2>5. CASE PostProcess(w)
    BY <2>5, PostProcessImplements
  <2> QED
    BY <1>6, <2>1, <2>2, <2>3, <2>4, <2>5 DEF Worker
<1>7. CASE UNCHANGED vars
  BY <1>7, StutterImplements
<1> QED
  BY <1>1, <1>2, <1>3, <1>4, <1>5, <1>6, <1>7 DEF Next, Receiver

\* Every pool implements the vector of envs: each request is answered once, by
\* the env it was sent to, and batches hold the answers that are due.
THEOREM PoolImplementsVectorEnv == Spec => ImplementsVectorEnv
<1>1. Init => Envs_!Init
  BY InitImplements
<1>2. IInv /\ IInv' /\ [Next]_vars => [Envs_!Next]_(Envs_!vars)
  BY NextImplements
<1> QED
  BY <1>1, <1>2, PoolInductive, PTL DEF Spec, ImplementsVectorEnv, Envs_!Spec

----------------------------------------------------------------------------
(* Nobody waits for what nobody will do *)

\* A step that leaves queue and workers alone leaves the slices of the destructor alone.
LEMMA ComingFrame ==
  ASSUME NoneLost, UNCHANGED <<fifo, wpc>>, stop => stop', spc' = "join" => spc = "join"
  PROVE  /\ \A w \in Workers : wpc'[w] = "exit" => stop'
         /\ spc' = "join" => Cardinality(Coming') <= Len(fifo')
<1>1. Coming' = Coming
  BY DEF Coming
<1> QED
  BY <1>1 DEF NoneLost

LEMMA AskLosesNone ==
  ASSUME IInv, NoneLost, NEW l \in Lists, NEW a \in Actions \cup {"reset"}, Ask(l, a),
         spc = "idle", spc' \in {"set", "count"}
  PROVE  NoneLost'
<1>1. TypeOK /\ RequestInv
  BY DEF IInv
<1>2. /\ ~stop /\ list' = l
      /\ asked' = [e \in Envs |-> IF e \in EnvsOf(l) THEN a ELSE asked[e]]
      /\ UNCHANGED <<config, stop, fifo, blocks, wpc, slice, rpc, rows>>
  BY DEF Ask, MayAsk, queueVars, recvVars, workerVars
<1>3. Listed = {} /\ Listed' = EnvsOf(l)
  <2>1. list = <<>>
    BY <1>1 DEF RequestInv
  <2> QED
    BY <1>2, <2>1, ListType DEF Listed
<1>4. Queued' = Queued /\ Held' = Held /\ Reported' = Reported /\ Returned' = Returned
  BY <1>2, QueuedFrame, HeldFrame, ReportedFrame, ReturnedFrame
<1>5. Outstanding' \subseteq Outstanding \cup EnvsOf(l)
  BY <1>2 DEF Outstanding
<1>6. ~stop' => Outstanding' \subseteq OnItsWay'
  BY <1>2, <1>3, <1>4, <1>5 DEF NoneLost, OnItsWay
<1> QED
  BY <1>2, <1>6, ComingFrame DEF NoneLost

LEMMA EnqueueBulkQueues ==
  ASSUME IInv, EnqueueBulk
  PROVE  Queued \cup Listed \subseteq Queued'
<1>1. fifo' = fifo \o Slices /\ fifo \in Seq(SliceType) /\ list \in Lists
  BY DEF EnqueueBulk, SendStep, IInv, TypeOK, RequestInv
<1>2. PICK m \in Nat, n \in Nat : m = Len(fifo) /\ n = Len(list) /\ DOMAIN fifo = 1..m /\ DOMAIN list = 1..n
  BY <1>1, LenProperties, ListType
<1>3. DOMAIN Slices = 1..n /\ \A k \in 1..n : Slices[k].env = list[k]
  BY <1>2 DEF Slices
<1> DEFINE T == SliceType \cup {Slices[k] : k \in 1..n}
<1>4. fifo \in Seq(T)
  BY <1>1, <1>2
<1>5. Slices \in Seq(T) /\ Len(Slices) = n
  <2>1. Slices \in [1..n -> T]
    BY <1>3 DEF Slices
  <2> HIDE DEF T
  <2> QED
    BY <1>2, <2>1
<1> HIDE DEF T
<1>6. /\ DOMAIN fifo' = 1..(m + n)
      /\ \A k \in 1..m : fifo'[k] = fifo[k]
      /\ \A k \in 1..n : fifo'[m + k] = Slices[k]
  <2>1. fifo' \in Seq(T) /\ Len(fifo') = m + n
        /\ \A k \in 1..(m + n) : fifo'[k] = IF k <= m THEN fifo[k] ELSE Slices[k - m]
    <3>1. fifo' = fifo \o Slices /\ Len(fifo) = m
      BY <1>1, <1>2
    <3>2. /\ fifo \o Slices \in Seq(T) /\ Len(fifo \o Slices) = Len(fifo) + Len(Slices)
          /\ \A k \in 1..(Len(fifo) + Len(Slices)) :
               (fifo \o Slices)[k] = IF k <= Len(fifo) THEN fifo[k] ELSE Slices[k - Len(fifo)]
      BY ONLY <1>4, <1>5, ConcatProperties
    <3> QED
      BY ONLY <1>5, <3>1, <3>2
  <2>2. DOMAIN fifo' = 1..(m + n)
    BY <2>1, LenProperties
  <2>3. \A k \in 1..m : k \in 1..(m + n) /\ k <= m
    OBVIOUS
  <2>4. \A k \in 1..n : m + k \in 1..(m + n) /\ ~ (m + k <= m) /\ (m + k) - m = k
    OBVIOUS
  <2> QED
    BY <2>1, <2>2, <2>3, <2>4
<1>7. ASSUME NEW e \in Queued PROVE e \in Queued'
  <2>1. PICK k \in 1..m : fifo[k].env = e /\ e \in Envs
    BY <1>2, <1>7 DEF Queued
  <2>2. k \in DOMAIN fifo' /\ fifo'[k].env = e
    BY <1>6, <2>1
  <2> QED
    BY <2>1, <2>2 DEF Queued
<1>8. ASSUME NEW e \in Listed PROVE e \in Queued'
  <2>1. PICK k \in 1..n : list[k] = e /\ e \in Envs
    BY <1>2, <1>8 DEF Listed
  <2>2. m + k \in DOMAIN fifo' /\ fifo'[m + k].env = e
    BY <1>3, <1>6, <2>1
  <2> QED
    BY <2>1, <2>2 DEF Queued
<1> QED
  BY <1>7, <1>8

LEMMA SenderLosesNone ==
  ASSUME IInv, NoneLost, SetAction \/ CountStepping \/ EnqueueBulk \/ SetStop \/ EnqueuePoison \/ Join
  PROVE  NoneLost'
<1>1. TypeOK /\ RequestInv /\ StopInv
  BY DEF IInv
<1>2. CASE SetAction \/ CountStepping
  <2>1. /\ UNCHANGED <<config, stop, fifo, blocks, list, wpc, slice, rpc, rows, asked>>
        /\ spc' # "join"
    BY <1>2 DEF SetAction, CountStepping, SendStep, queueVars, recvVars, workerVars, driverVars
  <2>2. OnItsWay' = OnItsWay /\ Outstanding' = Outstanding
    BY <2>1, ListedFrame, QueuedFrame, HeldFrame, ReportedFrame, ReturnedFrame, OutstandingFrame DEF OnItsWay
  <2> QED
    BY <2>1, <2>2, ComingFrame DEF NoneLost
<1>3. CASE EnqueueBulk
  <2>1. /\ UNCHANGED <<config, stop, blocks, wpc, slice, rpc, rows, asked>>
        /\ spc = "enqueue" /\ spc' = "idle" /\ fifo' = fifo \o Slices /\ list' = <<>>
    BY <1>3 DEF EnqueueBulk, SendStep, recvVars, workerVars, driverVars
  <2>2. Held' = Held /\ Reported' = Reported /\ Returned' = Returned /\ Outstanding' = Outstanding
    BY <2>1, HeldFrame, ReportedFrame, ReturnedFrame, OutstandingFrame
  <2>3. Queued \cup Listed \subseteq Queued'
    BY <1>3, EnqueueBulkQueues
  <2> QED
    BY <2>1, <2>2, <2>3 DEF NoneLost, OnItsWay
<1>4. CASE SetStop
  <2>1. stop' /\ spc' # "join"
    BY <1>4 DEF SetStop, SendStep
  <2> QED
    BY <2>1 DEF NoneLost
<1>5. CASE EnqueuePoison
  <2>1. /\ spc = "poison" /\ UNCHANGED <<stop, wpc>>
        /\ fifo' = fifo \o [k \in 1..Cardinality(Workers) |-> EmptySlice]
    BY <1>5 DEF EnqueuePoison, SendStep, workerVars
  <2>2. stop
    BY <1>1, <2>1 DEF StopInv
  <2>3. PICK n \in Nat : n = Cardinality(Workers)
    BY SizesAssumption, FS_CardinalityType
  <2>4. Len(fifo') = Len(fifo) + n /\ Len(fifo) \in Nat
    <3>1. fifo \in Seq(SliceType)
      BY <1>1 DEF TypeOK
    <3>2. EmptySlice \in SliceType
      BY <1>1, Sizes DEF EmptySlice, SliceType, TypeOK
    <3>3. [k \in 1..n |-> EmptySlice] \in Seq(SliceType) /\ Len([k \in 1..n |-> EmptySlice]) = n
      BY <3>2
    <3> QED
      BY <2>1, <2>3, <3>1, <3>3, ConcatProperties, LenProperties
  <2>5. Cardinality(Coming') <= n /\ Cardinality(Coming') \in Nat
    BY <2>3, SizesAssumption, FS_Subset, FS_CardinalityType DEF Coming
  <2> QED
    BY <2>1, <2>2, <2>3, <2>4, <2>5 DEF NoneLost
<1>6. CASE Join
  <2>1. spc = "join" /\ spc' = "joined" /\ stop /\ stop'
    BY <1>1, <1>6 DEF Join, SendStep, StopInv
  <2> QED
    BY <2>1 DEF NoneLost
<1> QED
  BY <1>2, <1>3, <1>4, <1>5, <1>6

LEMMA DequeueLosesNone ==
  ASSUME IInv, NoneLost, NEW w \in Workers, Dequeue(w)
  PROVE  NoneLost'
<1>1. TypeOK
  BY DEF IInv
<1>2. /\ wpc[w] = "dequeue" /\ fifo # <<>> /\ fifo' = Tail(fifo)
      /\ wpc' = [wpc EXCEPT ![w] = "check"] /\ slice' = [slice EXCEPT ![w] = Head(fifo)]
      /\ UNCHANGED <<config, stop, blocks, spc, list, rpc, rows, asked>>
  BY DEF Dequeue, WorkerStep, envVars, sendVars, recvVars, driverVars
<1>3. PICK m \in Nat : /\ m = Len(fifo) /\ m >= 1 /\ DOMAIN fifo = 1..m /\ DOMAIN fifo' = 1..(m - 1)
                       /\ Len(fifo') = m - 1 /\ Head(fifo) = fifo[1]
                       /\ \A k \in 1..(m - 1) : fifo'[k] = fifo[k + 1]
  <2>1. fifo \in Seq(SliceType)
    BY <1>1 DEF TypeOK
  <2>2. Len(fifo) \in Nat /\ Len(fifo) >= 1 /\ DOMAIN fifo = 1..Len(fifo)
    BY <1>2, <2>1, EmptySeq, LenProperties
  <2>3. /\ Tail(fifo) \in Seq(SliceType) /\ Len(Tail(fifo)) = Len(fifo) - 1
        /\ \A k \in 1..(Len(fifo) - 1) : Tail(fifo)[k] = fifo[k + 1]
    BY <1>2, <2>1, HeadTailProperties
  <2>4. DOMAIN Tail(fifo) = 1..(Len(fifo) - 1)
    BY <2>3, LenProperties
  <2>5. Head(fifo) = fifo[1]
    BY <1>2, <2>1
  <2> QED
    BY <1>2, <2>2, <2>3, <2>4, <2>5
<1>4. \A v \in Workers : /\ wpc'[v] = IF v = w THEN "check" ELSE wpc[v]
                         /\ slice'[v] = IF v = w THEN fifo[1] ELSE slice[v]
  BY <1>1, <1>2, <1>3 DEF TypeOK
<1>5. ASSUME NEW e \in Queued, e \notin Queued' PROVE e \in Held'
  <2>1. PICK k \in 1..m : fifo[k].env = e /\ e \in Envs
    BY <1>3 DEF Queued
  <2>2. CASE k = 1
    <3>1. w \in Holders' /\ slice'[w].env = e
      BY <1>4, <2>1, <2>2 DEF Holders
    <3> QED
      BY <2>1, <3>1 DEF Held
  <2>3. CASE k # 1
    <3>1. k - 1 \in 1..(m - 1) /\ (k - 1) + 1 = k
      BY <1>3, <2>3
    <3>2. fifo'[k - 1].env = e
      BY <1>3, <2>1, <3>1
    <3> QED
      BY <1>3, <1>5, <2>1, <3>1, <3>2 DEF Queued
  <2> QED
    BY <2>2, <2>3
<1>6. Held \subseteq Held'
  <2>1. \A v \in Holders : v \in Holders' /\ slice'[v] = slice[v]
    BY <1>2, <1>4 DEF Holders
  <2> QED
    BY <2>1 DEF Held
<1>7. Listed' = Listed /\ Reported' = Reported /\ Returned' = Returned /\ Outstanding' = Outstanding
  BY <1>2, ListedFrame, ReportedFrame, ReturnedFrame, OutstandingFrame
<1>8. ~stop' => Outstanding' \subseteq OnItsWay'
  BY <1>2, <1>5, <1>6, <1>7 DEF NoneLost, OnItsWay
<1>9. \A v \in Workers : wpc'[v] = "exit" => stop'
  BY <1>2, <1>4 DEF NoneLost
<1>10. ASSUME spc = "join" PROVE Cardinality(Coming') <= Len(fifo')
  <2>1. Coming' = Coming \ {w} /\ w \in Coming
    BY <1>2, <1>4 DEF Coming
  <2>2. IsFiniteSet(Coming) /\ Cardinality(Coming) \in Nat
    BY SizesAssumption, FS_Subset, FS_CardinalityType DEF Coming
  <2>3. Cardinality(Coming') = Cardinality(Coming) - 1
    BY <2>1, <2>2, FS_RemoveElement
  <2>4. Cardinality(Coming) <= m
    BY <1>3, <1>10 DEF NoneLost
  <2> QED
    BY <1>3, <2>2, <2>3, <2>4
<1> QED
  BY <1>2, <1>8, <1>9, <1>10 DEF NoneLost

LEMMA CheckStopLosesNone ==
  ASSUME IInv, NoneLost, NEW w \in Workers, CheckStop(w)
  PROVE  NoneLost'
<1>1. TypeOK /\ StopInv
  BY DEF IInv
<1>2. /\ wpc[w] = "check" /\ wpc' = [wpc EXCEPT ![w] = IF stop THEN "exit" ELSE "run"]
      /\ UNCHANGED <<config, stop, fifo, blocks, spc, list, rpc, rows, slice, asked>>
  BY DEF CheckStop, WorkerStep, queueVars, sendVars, recvVars, driverVars
<1>3. \A v \in Workers : wpc'[v] = IF v = w THEN (IF stop THEN "exit" ELSE "run") ELSE wpc[v]
  BY <1>1, <1>2 DEF TypeOK
<1>4. ~stop => Holders' = Holders
  BY <1>2, <1>3 DEF Holders
<1>5. ~stop => Held' = Held
  BY <1>2, <1>4 DEF Held
<1>6. /\ Listed' = Listed /\ Queued' = Queued /\ Reported' = Reported /\ Returned' = Returned
      /\ Outstanding' = Outstanding
  BY <1>2, ListedFrame, QueuedFrame, ReportedFrame, ReturnedFrame, OutstandingFrame
<1>7. ~stop' => Outstanding' \subseteq OnItsWay'
  BY <1>2, <1>5, <1>6 DEF NoneLost, OnItsWay
<1>8. \A v \in Workers : wpc'[v] = "exit" => stop'
  BY <1>2, <1>3 DEF NoneLost
<1>9. spc = "join" => Coming' = Coming
  <2>1. spc = "join" => stop
    BY <1>1 DEF StopInv
  <2> QED
    BY <1>2, <1>3, <2>1 DEF Coming
<1> QED
  BY <1>2, <1>7, <1>8, <1>9 DEF NoneLost

\* Blocks whose rows stay report the same envs.
LEMMA RowsFrame ==
  ASSUME config' = config, \A k \in BlockIds : blocks'[k].rows = blocks[k].rows
  PROVE  Reported' = Reported
<1>1. \A k \in BlockIds, j \in RowIds : Row(k, j)' = Row(k, j)
  BY DEF Row
<1> QED
  BY <1>1, ConfigFrame DEF Reported

\* A worker that steps an env, takes a position or leaves its block loses no env.
LEMMA WorkerLosesNone ==
  ASSUME IInv, NoneLost, NEW w \in Workers, RunEnv(w) \/ Allocate(w) \/ PostProcess(w)
  PROVE  NoneLost'
<1>1. TypeOK
  BY DEF IInv
<1>2. /\ \/ wpc[w] = "run" /\ wpc' = [wpc EXCEPT ![w] = "allocate"] /\ slice' = slice
         \/ wpc[w] = "allocate" /\ wpc' = [wpc EXCEPT ![w] = "write"] /\ slice' = slice
         \/ /\ wpc[w] = "done" /\ wpc' = [wpc EXCEPT ![w] = "dequeue"]
            /\ slice' = [slice EXCEPT ![w] = EmptySlice]
      /\ UNCHANGED <<config, stop, fifo, spc, list, rpc, rows, asked>>
  BY DEF RunEnv, Run, Allocate, PostProcess, WorkerStep, envVars, queueVars, sendVars, recvVars, driverVars
<1>3. /\ \A v \in Workers : v # w => wpc'[v] = wpc[v] /\ slice'[v] = slice[v]
      /\ \/ wpc[w] \in {"run", "allocate"} /\ wpc'[w] \in {"allocate", "write"} /\ slice'[w] = slice[w]
         \/ wpc[w] = "done" /\ wpc'[w] = "dequeue"
  BY <1>1, <1>2 DEF TypeOK
<1>4. Holders' = Holders /\ Coming' = Coming /\ \A v \in Holders : slice'[v] = slice[v]
  BY <1>3 DEF Holders, Coming
<1>5. Held' = Held
  BY <1>4 DEF Held
<1>6. Reported' = Reported
  <2>1. blocks \in [BlockIds -> BlockType] /\ \A k \in BlockIds : blocks[k] \in BlockType
    BY <1>1 DEF TypeOK
  <2>2. CASE RunEnv(w)
    BY <1>2, <2>2, ReportedFrame DEF RunEnv, Run, queueVars
  <2>3. CASE Allocate(w)
    <3>1. PICK k : blocks' = [blocks EXCEPT ![k].allocCount = @ + 1]
      BY <2>3 DEF Allocate
    <3>2. \A m \in BlockIds : blocks'[m].rows = blocks[m].rows
      BY <2>1, <3>1, BlockUpdate
    <3> QED
      BY <1>2, <3>2, RowsFrame
  <2>4. CASE PostProcess(w)
    <3>1. PICK k : blocks' = [blocks EXCEPT ![k].doneCount = @ + 1]
      BY <2>4 DEF PostProcess
    <3>2. \A m \in BlockIds : blocks'[m].rows = blocks[m].rows
      BY <2>1, <3>1, BlockUpdate
    <3> QED
      BY <1>2, <3>2, RowsFrame
  <2> QED
    BY <2>2, <2>3, <2>4
<1>7. Listed' = Listed /\ Queued' = Queued /\ Returned' = Returned /\ Outstanding' = Outstanding
  BY <1>2, ListedFrame, QueuedFrame, ReturnedFrame, OutstandingFrame
<1>8. ~stop' => Outstanding' \subseteq OnItsWay'
  BY <1>2, <1>5, <1>6, <1>7 DEF NoneLost, OnItsWay
<1>9. \A v \in Workers : wpc'[v] = "exit" => stop'
  BY <1>2, <1>3 DEF NoneLost
<1> QED
  BY <1>2, <1>4, <1>8, <1>9 DEF NoneLost

LEMMA WriteStateLosesNone ==
  ASSUME IInv, NoneLost, NEW w \in Workers, WriteState(w)
  PROVE  NoneLost'
<1>1. TypeOK
  BY DEF IInv
<1>2. /\ wpc[w] = "write" /\ wpc' = [wpc EXCEPT ![w] = "done"] /\ place[w] \in BlockIds \X RowIds
      /\ UNCHANGED <<config, stop, fifo, spc, list, rpc, rows, slice, asked>>
  BY <1>1 DEF WriteState, WorkerStep, envVars, sendVars, recvVars, driverVars, TypeOK
<1>3. PICK k \in BlockIds, j \in RowIds : place[w] = <<k, j>>
  BY <1>2
<1>4. PICK e, x : e = slice[w].env /\ x = <<e, result[w]>>
  OBVIOUS
<1>5. /\ e \in Envs /\ x # Nothing /\ x[1] = e /\ Row(k, j) = Nothing
      /\ \A m \in BlockIds, n \in RowIds : blocks'[m].rows[n] = IF m = k /\ n = j THEN x ELSE blocks[m].rows[n]
  BY <1>3, <1>4, WriteRow
<1>6. \A m \in BlockIds, n \in RowIds : Row(m, n)' = IF m = k /\ n = j THEN x ELSE Row(m, n)
  BY <1>5 DEF Row
<1>7. Reported \cup {e} \subseteq Reported'
  <2>1. BlockIds' = BlockIds /\ RowIds' = RowIds
    BY <1>2, ConfigFrame
  <2>2. ASSUME NEW y \in Reported PROVE y \in Reported'
    <3>1. PICK m \in BlockIds, n \in RowIds : Row(m, n) # Nothing /\ Row(m, n)[1] = y /\ y \in Envs
      BY <2>2 DEF Reported
    <3>2. Row(m, n)' # Nothing /\ Row(m, n)'[1] = y
      BY <1>5, <1>6, <3>1
    <3> QED
      BY <2>1, <3>1, <3>2 DEF Reported
  <2>3. e \in Reported'
    <3>1. Row(k, j)' # Nothing /\ Row(k, j)'[1] = e
      BY <1>5, <1>6
    <3> QED
      BY <1>5, <2>1, <3>1 DEF Reported
  <2> QED
    BY <2>2, <2>3
<1>8. \A v \in Workers : wpc'[v] = IF v = w THEN "done" ELSE wpc[v]
  BY <1>1, <1>2 DEF TypeOK
<1>9. Held \subseteq Held' \cup {e} /\ Coming' = Coming
  <2>1. \A v \in Holders : v # w => v \in Holders' /\ slice'[v] = slice[v]
    BY <1>2, <1>8 DEF Holders
  <2>2. Held \subseteq Held' \cup {e}
    BY <1>4, <2>1 DEF Held
  <2> QED
    BY <1>2, <1>8, <2>2 DEF Coming
<1>10. Listed' = Listed /\ Queued' = Queued /\ Returned' = Returned /\ Outstanding' = Outstanding
  BY <1>2, ListedFrame, QueuedFrame, ReturnedFrame, OutstandingFrame
<1>11. ~stop' => Outstanding' \subseteq OnItsWay'
  BY <1>2, <1>7, <1>9, <1>10 DEF NoneLost, OnItsWay
<1>12. \A v \in Workers : wpc'[v] = "exit" => stop'
  BY <1>2, <1>8 DEF NoneLost
<1> QED
  BY <1>2, <1>9, <1>11, <1>12 DEF NoneLost

LEMMA ReceiverLosesNone ==
  ASSUME IInv, NoneLost, Recv \/ WaitDone \/ WaitHead \/ SubtractStepping \/ Return
  PROVE  NoneLost'
<1>1. TypeOK
  BY DEF IInv
<1>2. /\ UNCHANGED <<config, stop, fifo, spc, list, wpc, slice>>
  BY DEF Recv, WaitDone, WaitHead, SubtractStepping, Return, envVars, queueVars, sendVars, workerVars
<1>3. Reported' = Reported
  <2>1. CASE WaitDone
    <3>1. blocks \in [BlockIds -> BlockType] /\ blocks' = [blocks EXCEPT ![0].doneCount = @ + additional]
      BY <1>1, <2>1 DEF TypeOK, WaitDone
    <3>2. \A m \in BlockIds : blocks'[m].rows = blocks[m].rows
      BY <3>1, BlockUpdate
    <3> QED
      BY <1>2, <3>2, RowsFrame
  <2>2. CASE ~WaitDone
    <3>1. blocks' = blocks
      BY <2>2 DEF Recv, WaitHead, SubtractStepping, Return, queueVars
    <3> QED
      BY <1>2, <3>1, ReportedFrame
  <2> QED
    BY <2>1, <2>2
<1>4. Held' = Held /\ Listed' = Listed /\ Queued' = Queued
  BY <1>2, HeldFrame, ListedFrame, QueuedFrame
<1>5. Outstanding' \ Returned' = Outstanding \ Returned
  <2>1. CASE Return
    <3>1. /\ rpc = "return" /\ rpc' = "idle"
          /\ asked' = [e \in Envs |-> IF \E k \in DOMAIN rows : rows[k][1] = e THEN Nothing ELSE asked[e]]
      BY <2>1 DEF Return, RecvStep
    <3> QED
      BY <3>1 DEF Outstanding, Returned
  <2>2. CASE Recv \/ WaitDone \/ WaitHead
    <3>1. rpc \in {"idle", "done", "wait"} /\ rpc' \in {"done", "wait", "replace"} /\ asked' = asked
      BY <2>2 DEF Recv, WaitDone, WaitHead, RecvStep, driverVars
    <3> QED
      BY <3>1, OutstandingFrame DEF Returned
  <2>3. CASE SubtractStepping
    <3>1. rpc = "subtract" /\ rpc' = "return" /\ asked' = asked /\ rows' = rows
      BY <2>3 DEF SubtractStepping, RecvStep, driverVars
    <3> QED
      BY <3>1, OutstandingFrame DEF Returned
  <2> QED
    BY <2>1, <2>2, <2>3
<1>6. ~stop' => Outstanding' \subseteq OnItsWay'
  BY <1>2, <1>3, <1>4, <1>5 DEF NoneLost, OnItsWay
<1> QED
  BY <1>2, <1>6, ComingFrame DEF NoneLost

\* The rows of the head that answer an env are those Recv returns.
LEMMA ReplaceHeadLosesNone ==
  ASSUME IInv, NoneLost, ReplaceHead
  PROVE  NoneLost'
<1>1. TypeOK /\ RecvInv
  BY DEF IInv
<1>2. /\ rpc = "replace" /\ rpc' = "subtract"
      /\ blocks' = [k \in DOMAIN blocks |->
                      IF k + 1 \in DOMAIN blocks THEN blocks[k + 1] ELSE FreshBlock]
      /\ UNCHANGED <<config, stop, fifo, spc, list, rows, wpc, slice, asked>>
  BY DEF ReplaceHead, RecvStep, envVars, sendVars, driverVars
<1>3. /\ 0 \in BlockIds /\ DOMAIN blocks = BlockIds /\ Batch \in Nat \ {0} /\ additional \in 0..Batch
      /\ BlockIds' = BlockIds /\ RowIds' = RowIds /\ NumBlocks \in Nat
  BY <1>1, <1>2, Sizes, ConfigFrame DEF TypeOK
<1>4. PICK n \in Nat : n = Batch - additional
  BY <1>3
<1>5. \A j \in RowIds : Row(0, j) # Nothing <=> j < n
  <2>1. blocks[0].doneCount = Batch
    BY <1>1, <1>2 DEF RecvInv
  <2> QED
    BY <1>2, <1>4, <2>1, HeadComplete
<1>6. DOMAIN rows = 1..n /\ \A k \in DOMAIN rows : rows[k] = Row(0, k - 1)
  <2>1. rows \in Seq(RowType) /\ Len(rows) = n
    BY <1>1, <1>2, <1>4 DEF TypeOK, RecvInv
  <2> QED
    BY <1>1, <1>2, <2>1, LenProperties DEF RecvInv
<1>7. ASSUME NEW e \in Reported PROVE e \in Reported' \cup Returned'
  <2>1. PICK k \in BlockIds, j \in RowIds : Row(k, j) # Nothing /\ Row(k, j)[1] = e /\ e \in Envs
    BY <1>7 DEF Reported
  <2>2. CASE k = 0
    <3>1. j + 1 \in 1..n /\ (j + 1) - 1 = j
      BY <1>3, <1>5, <2>1, <2>2 DEF RowIds
    <3>2. rows[j + 1][1] = e
      BY <1>6, <2>1, <2>2, <3>1
    <3>3. rpc' = "subtract" /\ rows' = rows /\ j + 1 \in DOMAIN rows'
      BY <1>2, <1>6, <3>1
    <3> QED
      BY <2>1, <3>2, <3>3 DEF Returned
  <2>3. CASE k # 0
    <3>1. k - 1 \in BlockIds /\ (k - 1) + 1 = k
      BY <1>3, <2>3 DEF BlockIds
    <3>2. blocks'[k - 1] = blocks[k]
      BY <1>2, <1>3, <3>1
    <3>3. Row(k - 1, j)' = Row(k, j)
      BY <3>2 DEF Row
    <3> QED
      BY <1>3, <2>1, <3>1, <3>3 DEF Reported
  <2> QED
    BY <2>2, <2>3
<1>8. Held' = Held /\ Listed' = Listed /\ Queued' = Queued /\ Outstanding' = Outstanding /\ Returned = {}
  BY <1>2, HeldFrame, ListedFrame, QueuedFrame, OutstandingFrame DEF Returned
<1>9. ~stop' => Outstanding' \subseteq OnItsWay'
  BY <1>2, <1>7, <1>8 DEF NoneLost, OnItsWay
<1> QED
  BY <1>2, <1>9, ComingFrame DEF NoneLost

LEMMA InitNoneLost == Init => NoneLost
<1> SUFFICES ASSUME Init PROVE NoneLost
  OBVIOUS
<1>1. Outstanding = {} /\ spc = "idle" /\ \A w \in Workers : wpc[w] = "dequeue"
  BY DEF Init, Outstanding
<1> QED
  BY <1>1 DEF NoneLost

LEMMA NextNoneLost == IInv /\ NoneLost /\ [Next]_vars => NoneLost'
<1> SUFFICES ASSUME IInv, NoneLost, [Next]_vars PROVE NoneLost'
  OBVIOUS
<1>1. CASE Send \/ Reset
  <2>1. PICK l \in Lists, a \in Actions \cup {"reset"} : Ask(l, a) /\ spc = "idle" /\ spc' \in {"set", "count"}
    BY <1>1 DEF Send, Reset, SendStep
  <2> QED
    BY <2>1, AskLosesNone
<1>2. CASE SetStop \/ Sender
  BY <1>2, SenderLosesNone DEF Sender
<1>3. CASE Recv \/ Receiver
  BY <1>3, ReceiverLosesNone, ReplaceHeadLosesNone DEF Receiver
<1>4. ASSUME NEW w \in Workers, Worker(w) PROVE NoneLost'
  BY <1>4, DequeueLosesNone, CheckStopLosesNone, WorkerLosesNone, WriteStateLosesNone DEF Worker
<1>5. CASE UNCHANGED vars
  <2>1. UNCHANGED <<config, stop, fifo, blocks, wpc, slice, rpc, rows, asked, list, spc>>
    BY <1>5 DEF vars, queueVars, sendVars, recvVars, workerVars, driverVars
  <2>2. OnItsWay' = OnItsWay /\ Outstanding' = Outstanding
    BY <2>1, ListedFrame, QueuedFrame, HeldFrame, ReportedFrame, ReturnedFrame, OutstandingFrame DEF OnItsWay
  <2> QED
    BY <2>1, <2>2, ComingFrame DEF NoneLost
<1> QED
  BY <1>1, <1>2, <1>3, <1>4, <1>5 DEF Next

\* When nobody is at work, every env that is asked is in a row of a block, and the
\* head is complete if a batch was asked.
LEMMA RestIsComplete ==
  ASSUME IInv, NoneLost, ~stop, rpc = "wait", spc = "idle", fifo = <<>>,
         \A w \in Workers : wpc[w] = "dequeue", IsSync \/ Cardinality(Outstanding) >= Batch
  PROVE  blocks[0].doneCount = Batch
<1>1. TypeOK /\ PlaceInv /\ RequestInv /\ CountInv /\ RecvInv /\ SyncInv
  BY DEF IInv
<1>2. Listed = {} /\ Queued = {} /\ Held = {} /\ Returned = {} /\ Writers = {} /\ Active(0) = {}
  <2>1. list = <<>>
    BY <1>1 DEF RequestInv
  <2>2. Holders = {} /\ Writers = {} /\ Active(0) = {}
    BY DEF Holders, Writers, Active
  <2> QED
    BY <2>1, <2>2 DEF Listed, Queued, Held, Returned
<1>3. Placed = Outstanding
  BY <1>1, <1>2 DEF NoneLost, OnItsWay, PlaceInv, Placed
<1>4. /\ Batch \in Nat \ {0} /\ 0 \in BlockIds /\ NumEnvs \in Nat /\ IsSync \in BOOLEAN
      /\ (IsSync => Batch = NumEnvs) /\ additional \in 0..Batch
      /\ blocks[0].doneCount \in 0..Batch /\ blocks[0].allocCount \in 0..Batch
  BY <1>1, Sizes DEF TypeOK, BlockType
<1>5. blocks[0].doneCount = blocks[0].allocCount + additional
  <2>1. blocks[0].doneCount + Cardinality(Active(0)) = blocks[0].allocCount + additional
    BY <1>1, <1>4 DEF CountInv, Added
  <2>2. Cardinality(Active(0)) = 0
    BY <1>2, FS_EmptySet
  <2> QED
    BY <1>4, <2>1, <2>2
<1>6. /\ allocCount = Cardinality(Outstanding) /\ allocCount \in Nat
      /\ allocCount < Batch => blocks[0].allocCount = allocCount
      /\ allocCount >= Batch => blocks[0].allocCount = Batch
  BY <1>1, <1>3, HeadAllocated DEF CountInv
<1>7. CASE IsSync
  <2>1. Outstanding = EnvsOf(lastList) /\ lastList # <<>> /\ additional = Batch - Len(lastList)
    BY <1>1, <1>7 DEF SyncInv
  <2>2. lastList \in Lists
    BY <1>1, <2>1 DEF TypeOK
  <2>3. Cardinality(Outstanding) = Len(lastList) /\ Len(lastList) \in Nat /\ Len(lastList) <= Batch
    BY <1>4, <1>7, <2>1, <2>2, ListSize, ListType
  <2> QED
    BY <1>4, <1>5, <1>6, <2>1, <2>3
<1>8. CASE ~IsSync
  <2>1. additional = 0
    BY <1>1, <1>8 DEF RecvInv
  <2> QED
    BY <1>4, <1>5, <1>6, <1>8, <2>1
<1> QED
  BY <1>4, <1>7, <1>8

LEMMA SomebodyGoesOn == IInv /\ NoneLost => NeverStuck
<1> SUFFICES ASSUME IInv, NoneLost PROVE NeverStuck
  OBVIOUS
<1>1. TypeOK /\ StopInv
  BY DEF IInv
<1>2. /\ \A w \in Workers : wpc[w] \in {"dequeue", "check", "run", "allocate", "write", "done", "exit"}
      /\ fifo \in Seq(SliceType) /\ Workers # {}
  BY <1>1, SizesAssumption DEF TypeOK
<1>3. ASSUME ~stop, \A w \in Workers : ~WorkerGoesOn(w)
      PROVE  fifo = <<>> /\ \A w \in Workers : wpc[w] = "dequeue"
  <2>1. \A w \in Workers : wpc[w] = "dequeue"
    BY <1>2, <1>3 DEF WorkerGoesOn, NoneLost
  <2> QED
    BY <1>2, <1>3, <2>1 DEF WorkerGoesOn
<1>4. ASSUME rpc # "idle", IsSync \/ Cardinality(Outstanding) >= Batch,
             ~ReceiverGoesOn, ~SenderGoesOn, \A w \in Workers : ~WorkerGoesOn(w)
      PROVE  FALSE
  <2>1. rpc = "wait" /\ blocks[0].doneCount # Batch
    BY <1>1, <1>4 DEF TypeOK, ReceiverGoesOn
  <2>2. ~stop /\ spc = "idle"
    BY <1>1, <1>4 DEF TypeOK, StopInv, SenderGoesOn
  <2> QED
    BY <1>3, <1>4, <2>1, <2>2, RestIsComplete
<1>5. ASSUME stop, spc # "joined", ~SenderGoesOn, \A w \in Workers : ~WorkerGoesOn(w)
      PROVE  FALSE
  <2>1. spc = "join"
    BY <1>1, <1>5 DEF StopInv, SenderGoesOn
  <2>2. PICK w \in Workers : wpc[w] # "exit"
    BY <1>5, <2>1 DEF SenderGoesOn
  <2>3. w \in Coming /\ fifo = <<>>
    BY <1>2, <1>5, <2>2 DEF WorkerGoesOn, Coming
  <2>4. IsFiniteSet(Coming) /\ Cardinality(Coming) \in Nat
    BY SizesAssumption, FS_Subset, FS_CardinalityType DEF Coming
  <2>5. Cardinality(Coming) # 0
    BY <2>3, <2>4, FS_EmptySet
  <2>6. Cardinality(Coming) <= 0
    BY <2>1, <2>3 DEF NoneLost
  <2> QED
    BY <2>4, <2>5, <2>6
<1>6. ASSUME ~stop, fifo # <<>> PROVE \E w \in Workers : WorkerGoesOn(w)
  BY <1>3, <1>6
<1> QED
  BY <1>4, <1>5, <1>6 DEF NeverStuck

\* A pool never stops half way: a Recv with a batch coming, the destructor and the
\* slices that are queued always find a thread that is not blocked.
THEOREM PoolNeverStuck == Spec => []NeverStuck
<1>1. Init => NoneLost
  BY InitNoneLost
<1>2. IInv /\ NoneLost /\ [Next]_vars => NoneLost'
  BY NextNoneLost
<1>3. IInv /\ NoneLost => NeverStuck
  BY SomebodyGoesOn
<1> QED
  BY <1>1, <1>2, <1>3, PoolInductive, PTL DEF Spec
=============================================================================
