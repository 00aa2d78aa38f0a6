-------------------------- MODULE StateBufferProof --------------------------
(***************************************************************************)
(* Proofs about StateBuffer for every quota, every number of players and   *)
(* of concurrent requests: IInv is inductive, so slices never overlap, and *)
(* what Wait returns is complete, compact and left alone by every worker.  *)
(***************************************************************************)
EXTENDS StateBuffer, FiniteSetTheorems, TLAPS

----------------------------------------------------------------------------
(* Arithmetic of the packed word *)

LEMMA DivMod ==
  ASSUME NEW Q \in Nat \ {0}, NEW k \in Nat
  PROVE  /\ k = Q * (k \div Q) + (k % Q)
         /\ k \div Q \in Nat
         /\ k % Q \in 0..(Q - 1)
  OBVIOUS

LEMMA Monotone ==
  ASSUME NEW a \in Nat, NEW b \in Nat, NEW c \in Nat, a <= b
  PROVE  a * c <= b * c /\ c * a <= c * b /\ a * c \in Nat
  OBVIOUS

LEMMA Packed ==
  ASSUME NEW Q \in Nat \ {0}, NEW p \in Nat, NEW s \in 0..(Q - 1)
  PROVE  (p * Q + s) \div Q = p /\ (p * Q + s) % Q = s
<1> DEFINE w == p * Q + s
           a == w \div Q
           r == w % Q
<1>1. w \in Nat
  BY Monotone
<1>2. a \in Nat /\ r \in 0..(Q - 1) /\ w = Q * a + r
  BY <1>1, DivMod
<1> HIDE DEF a, r
<1>3. Q * (a - p) = s - r
  BY <1>2
<1>4. a - p >= 1 => Q * (a - p) >= Q
  BY <1>2
<1>5. a - p <= -1 => Q * (a - p) <= -Q
  BY <1>2
<1>6. a = p
  BY <1>2, <1>3, <1>4, <1>5
<1> QED
  BY <1>3, <1>2, <1>6 DEF a, r

LEMMA HalfType ==
  /\ Half \in Nat \ {0} /\ Half * Half \in Nat \ {0}
  /\ Batch \in Nat \ {0} /\ MostPlayers \in Nat \ {0}
<1>1. Batch * MostPlayers \in Nat
  BY SizeAssumption, Monotone
<1>2. Half \in Nat \ {0}
  BY <1>1, SizeAssumption
<1>3. Half * Half >= Half
  BY <1>2
<1> QED
  BY <1>2, <1>3, SizeAssumption

\* Both counters of the word stay below Half, as Batch * MostPlayers does.
LEMMA Capacity ==
  ASSUME NEW n \in 0..Batch, NEW m \in 1..MostPlayers
  PROVE  /\ n * m \in Nat /\ n * m <= Batch * m /\ n * m < Half /\ n < Half
         /\ Batch * m \in Nat /\ Batch <= Batch * m
<1>1. n * m <= Batch * m /\ n * m \in Nat /\ Batch * m \in Nat
  BY Monotone, HalfType
<1>2. Batch * m <= Batch * MostPlayers
  BY Monotone, HalfType
<1>3. Batch <= Batch * m
  BY HalfType
<1>4. Batch * m < Half /\ n < Half
  BY <1>1, <1>2, <1>3, HalfType, SizeAssumption
<1> QED
  BY <1>1, <1>3, <1>4, HalfType

\* Adding to the word adds to its halves, as long as neither is full.
LEMMA AddPacked ==
  ASSUME NEW w \in 0..(Half * Half - 1), NEW n \in Nat,
         PlayerHalf(w) + n < Half, SharedHalf(w) + 1 < Half
  PROVE  /\ (w + Increment(n)) % (Half * Half) \in 0..(Half * Half - 1)
         /\ PlayerHalf((w + Increment(n)) % (Half * Half)) = PlayerHalf(w) + n
         /\ SharedHalf((w + Increment(n)) % (Half * Half)) = SharedHalf(w) + 1
<1> DEFINE p == PlayerHalf(w)
           s == SharedHalf(w)
           v == (p + n) * Half + (s + 1)
<1>1. w \in Nat /\ w = Half * p + s /\ p \in Nat /\ s \in Nat
  BY DivMod, HalfType DEF PlayerHalf, SharedHalf
<1>2. p + n <= Half - 1 /\ s + 1 <= Half - 1 /\ p + n \in Nat /\ s + 1 \in Nat
  BY <1>1, HalfType
<1> HIDE DEF p, s
<1>3. w + Increment(n) = v
  BY <1>1, HalfType DEF Increment
<1>4. (p + n) * Half <= (Half - 1) * Half /\ (p + n) * Half \in Nat
  BY <1>2, HalfType, Monotone
<1>5. (Half - 1) * Half = Half * Half - Half
  BY HalfType
<1>6. v \in 0..(Half * Half - 1)
  BY <1>2, <1>4, <1>5, HalfType
<1>7. v \div Half = p + n /\ v % Half = s + 1
  <2>1. s + 1 \in 0..(Half - 1)
    BY <1>2, HalfType
  <2> QED
    BY <1>2, <2>1, HalfType, Packed
<1> HIDE DEF v
<1>8. v % (Half * Half) = v
  <2>1. /\ (0 * (Half * Half) + v) % (Half * Half) = v
    BY <1>6, HalfType, Packed
  <2> QED
    BY <2>1, <1>6, HalfType
<1> QED
  BY <1>3, <1>6, <1>7, <1>8 DEF PlayerHalf, SharedHalf, p, s

----------------------------------------------------------------------------
(* Counting requests *)

LEMMA InFinite ==
  ASSUME NEW S \in SUBSET Requests
  PROVE  IsFiniteSet(S) /\ Cardinality(S) \in Nat
  BY RequestsAssumption, FS_Subset, FS_CardinalityType

LEMMA Enter ==
  ASSUME NEW S \in SUBSET Requests, NEW r \in Requests, r \notin S
  PROVE  Cardinality(S \cup {r}) = Cardinality(S) + 1
  BY InFinite, FS_AddElement

LEMMA Leave ==
  ASSUME NEW S \in SUBSET Requests, NEW r \in S
  PROVE  Cardinality(S \ {r}) = Cardinality(S) - 1 /\ Cardinality(S) >= 1
<1>1. Cardinality(S \ {r}) = Cardinality(S) - 1
  BY InFinite, FS_RemoveElement
<1>2. Cardinality(S \ {r}) \in Nat /\ Cardinality(S) \in Nat
  BY InFinite
<1> QED
  BY <1>1, <1>2

LEMMA Within ==
  ASSUME NEW T \in SUBSET Requests, NEW S \in SUBSET T
  PROVE  /\ Cardinality(S) <= Cardinality(T)
         /\ Cardinality(S) = Cardinality(T) => S = T
  BY InFinite, FS_Subset

\* With an order, the requests have the orders 0, 1, ..., each one once.
LEMMA OrdersDiffer ==
  ASSUME TypeOK, CallsAllowed, ~Unordered
  PROVE  /\ maxNumPlayers = 1
         /\ Cardinality(Made) = Batch - additional
         /\ \A r \in Made : order[r] \in 0..(Batch - additional - 1)
         /\ \A r, q \in Made : order[r] = order[q] => r = q
         /\ \A k \in 0..(Batch - additional - 1) : \E r \in Made : order[r] = k
<1> DEFINE n == Batch - additional
           f == [r \in Made |-> order[r]]
<1>1. /\ maxNumPlayers = 1 /\ Cardinality(Made) = n
      /\ {order[r] : r \in Made} = 0..(n - 1)
  BY DEF CallsAllowed, Unordered
<1>2. Made \in SUBSET Requests
  BY DEF Made
<1>3. n \in Nat /\ Cardinality(0..(n - 1)) = n
  <2>1. n \in Nat
    BY <1>1, <1>2, InFinite
  <2> QED
    BY <2>1, FS_Interval
<1>4. f \in Surjection(Made, 0..(n - 1))
  BY <1>1 DEF Surjection
<1>5. f \in Injection(Made, 0..(n - 1))
  BY <1>1, <1>2, <1>3, <1>4, InFinite, FS_Surjection
<1>6. \A r, q \in Made : order[r] = order[q] => r = q
  BY <1>5 DEF Injection, IsInjective
<1> QED
  BY <1>1, <1>6

\* The admitted requests and what Wait adds never exceed the quota.
LEMMA Quota ==
  ASSUME TypeOK, CallsAllowed, CountInv
  PROVE  /\ Cardinality(Admitted) + additional <= Batch
         /\ Cardinality(Admitted) <= Batch
         /\ Cardinality(Reported) <= Cardinality(Admitted)
         /\ Cardinality(Granted) <= Cardinality(Admitted)
         /\ Cardinality(Admitted) \in Nat /\ Cardinality(Granted) \in Nat
         /\ Cardinality(Reported) \in Nat /\ Cardinality(In({"signal"})) \in Nat
<1>1. /\ Admitted \in SUBSET Made /\ Made \in SUBSET Requests
      /\ Admitted \in SUBSET Requests /\ Granted \in SUBSET Admitted
      /\ Reported \in SUBSET Admitted /\ In({"signal"}) \in SUBSET Requests
  BY DEF Admitted, Made, Granted, Reported, In
<1>2. /\ Cardinality(Admitted) \in Nat /\ Cardinality(Granted) \in Nat
      /\ Cardinality(Reported) \in Nat /\ Cardinality(In({"signal"})) \in Nat
  BY <1>1, InFinite
<1>3. /\ Cardinality(Reported) <= Cardinality(Admitted)
      /\ Cardinality(Granted) <= Cardinality(Admitted)
      /\ Cardinality(Admitted) <= Cardinality(Made)
  BY <1>1, Within
<1>4. CASE additional > 0
  <2>1. Cardinality(Made) = Batch - additional
    BY <1>4 DEF CallsAllowed
  <2> QED
    BY <1>2, <1>3, <2>1, HalfType DEF TypeOK
<1>5. CASE additional = 0
  <2>1. Cardinality(Admitted) <= Batch
    BY HalfType DEF CountInv, Lesser, TypeOK
  <2> QED
    BY <1>2, <1>3, <1>5, <2>1, HalfType
<1> QED
  BY <1>2, <1>3, <1>4, <1>5 DEF TypeOK

\* When Wait is past the semaphore every admitted request has reported, and they
\* make up the quota.
LEMMA Quiet ==
  ASSUME TypeOK, CallsAllowed, CountInv, rpc \in {"truncate", "returned"}
  PROVE  /\ Admitted = Reported /\ Granted = Reported /\ In({"signal"}) = {}
         /\ Cardinality(Granted) = Batch - additional
         /\ doneCount = Batch
<1>1. /\ Cardinality(Admitted) + additional <= Batch
      /\ Cardinality(Admitted) \in Nat /\ Cardinality(In({"signal"})) \in Nat
      /\ Cardinality(Reported) \in Nat
      /\ Cardinality(Reported) <= Cardinality(Admitted)
  BY Quota
<1>2. doneCount = Batch /\ Cardinality(In({"signal"})) = 0
  <2>1. sem \in Nat
    BY DEF TypeOK
  <2>2. sem + Cardinality(In({"signal"})) + 0 + 1 = Bit(doneCount = Batch)
    BY DEF CountInv, Bit
  <2> QED
    BY <1>1, <2>1, <2>2 DEF Bit
<1>3. Cardinality(Reported) = Cardinality(Admitted) /\ Cardinality(Reported) = Batch - additional
  <2>1. additional \in Nat /\ Batch \in Nat
    BY HalfType DEF TypeOK
  <2>2. doneCount = Cardinality(Reported) + additional
    BY DEF CountInv, Added
  <2> QED
    BY ONLY <1>1, <1>2, <2>1, <2>2
<1>4. /\ Admitted \in SUBSET Requests /\ Reported \in SUBSET Admitted
      /\ Reported \subseteq Granted /\ Granted \subseteq Admitted
      /\ In({"signal"}) \in SUBSET Requests
  BY DEF Admitted, Reported, Granted, In
<1>5. Admitted = Reported
  BY <1>3, <1>4, Within
<1>6. In({"signal"}) = {}
  BY <1>2, <1>4, InFinite, FS_EmptySet
<1> QED
  BY <1>2, <1>3, <1>4, <1>5, <1>6

----------------------------------------------------------------------------
(* What steps that hand out no rows preserve *)

LEMMA CallsFrame ==
  ASSUME CallsAllowed, UNCHANGED arguments, Made' = Made
  PROVE  CallsAllowed'
  BY DEF CallsAllowed, arguments

LEMMA PlaceFrame ==
  ASSUME PlaceInv, SlicesDisjoint, Granted' = Granted,
         UNCHANGED <<offsets, arguments, playerOffset, sharedOffset>>
  PROVE  PlaceInv' /\ SlicesDisjoint'
<1>1. /\ PlayerHalf(offsets)' = PlayerHalf(offsets)
      /\ SharedHalf(offsets)' = SharedHalf(offsets)
      /\ Unordered' <=> Unordered
      /\ \A r : PlayerRange(r)' = PlayerRange(r)
  BY DEF PlayerHalf, SharedHalf, Unordered, PlayerRange, arguments
<1>2. SlicesDisjoint'
  BY <1>1 DEF SlicesDisjoint
<1>3. PlaceInv'
  BY <1>1 DEF PlaceInv, arguments
<1> QED
  BY <1>2, <1>3

LEMMA ContentFrame ==
  ASSUME ContentInv, Granted' = Granted,
         \A r \in Granted : pc'[r] # "write" => pc[r] # "write",
         UNCHANGED <<rows, arguments, playerOffset, sharedOffset>>
  PROVE  ContentInv'
<1>1. \A r : PlayerRange(r)' = PlayerRange(r)
  BY DEF PlayerRange, arguments
<1> QED
  BY <1>1 DEF ContentInv, rows

----------------------------------------------------------------------------
(* The steps of a request *)

LEMMA CountAllocationInductive ==
  ASSUME IInv, NEW r \in Requests, CountAllocation(r)
  PROVE  IInv'
<1> USE DEF IInv, CountAllocation, Step
<1>1. /\ pc[r] = "count" /\ pc'[r] = IF allocCount < Batch THEN "offset" ELSE "thrown"
      /\ \A q \in Requests \ {r} : pc'[q] = pc[q]
  BY DEF TypeOK
<1>2. /\ Counted' = Counted \cup {r} /\ r \notin Counted
      /\ Admitted' = IF allocCount < Batch THEN Admitted \cup {r} ELSE Admitted
      /\ r \notin Admitted
      /\ Reported' = Reported /\ In({"signal"})' = In({"signal"})
  BY <1>1 DEF Counted, Admitted, Reported, In
<1>3. Granted' = Granted /\ Made' = Made
  BY <1>1 DEF Granted, Made
<1>4. Counted \in SUBSET Requests /\ Counted' \in SUBSET Requests /\ Admitted \in SUBSET Requests
  BY DEF Counted, Admitted, In
<1>5. Cardinality(Counted') = allocCount + 1
  BY <1>2, <1>4, Enter DEF CountInv
<1>6. TypeOK'
  <2>1. allocCount' \in 0..Cardinality(Requests)
    <3>1. Cardinality(Counted') <= Cardinality(Requests)
      BY <1>4, Within
    <3> QED
      BY <1>5, <3>1, RequestsAssumption, FS_CardinalityType DEF TypeOK
  <2> QED
    BY <2>1 DEF TypeOK, counters, rows, arguments
<1>7. CallsAllowed'
  BY <1>3, CallsFrame
<1>8. CountInv'
  <2>1. Cardinality(Admitted') = Lesser(allocCount', Batch)
    <3>1. /\ Cardinality(Admitted) = Lesser(allocCount, Batch)
          /\ allocCount \in Nat /\ allocCount' = allocCount + 1
      BY DEF CountInv, TypeOK
    <3>2. CASE allocCount < Batch
      <4>1. Cardinality(Admitted') = Cardinality(Admitted) + 1
        BY <1>2, <1>4, <3>2, Enter
      <4> QED
        BY <3>1, <3>2, <4>1, HalfType DEF Lesser
    <3>3. CASE ~(allocCount < Batch)
      BY <1>2, <3>1, <3>3, HalfType DEF Lesser
    <3> QED
      BY <3>2, <3>3
  <2> QED
    BY <1>2, <1>5, <2>1 DEF CountInv, Added, arguments, Bit
<1>9. PlaceInv' /\ SlicesDisjoint'
  BY <1>3, PlaceFrame
<1>10. ContentInv'
  BY <1>1, <1>3, ContentFrame
<1>11. ResultInv'
  BY DEF ResultInv, PlayerHalf, SharedHalf
<1> QED
  BY <1>6, <1>7, <1>8, <1>9, <1>10, <1>11

\* The rows at the two counters are free, and the counters move past them.
LEMMA TakeOffsetsInductive ==
  ASSUME IInv, NEW r \in Requests, TakeOffsets(r)
  PROVE  IInv'
<1> USE DEF IInv, TakeOffsets, Step
<1> DEFINE p == PlayerHalf(offsets)
           s == SharedHalf(offsets)
           n == numPlayers[r]
<1>1. /\ pc[r] = "offset" /\ pc'[r] = "write"
      /\ \A q \in Requests \ {r} : pc'[q] = pc[q]
  BY DEF TypeOK
<1>2. /\ Counted' = Counted /\ Admitted' = Admitted /\ Reported' = Reported
      /\ In({"signal"})' = In({"signal"})
  BY <1>1 DEF Counted, Admitted, Reported, In
<1>3. Granted' = Granted \cup {r} /\ r \notin Granted /\ Made' = Made
  BY <1>1 DEF Granted, Made
<1>4. Granted \in SUBSET Requests /\ Cardinality(Granted') = Cardinality(Granted) + 1
  BY <1>3, Enter DEF Granted
<1>5. s = Cardinality(Granted) /\ s \in Nat /\ s + 1 \in 0..Batch /\ s <= Batch - 1
  <2>1. Granted' \in SUBSET Admitted /\ Admitted \in SUBSET Requests
    BY <1>1, <1>3 DEF Granted, Admitted, In
  <2>2. Cardinality(Granted') <= Cardinality(Admitted)
    BY <2>1, Within
  <2>3. s = Cardinality(Granted)
    BY DEF PlaceInv
  <2>4. /\ Cardinality(Admitted) <= Batch /\ Cardinality(Admitted) \in Nat
        /\ Cardinality(Granted) \in Nat
    <3>1. Cardinality(Granted) \in Nat
      BY Quota
    <3>2. Cardinality(Admitted) <= Batch /\ Cardinality(Admitted) \in Nat
      BY Quota
    <3> QED
      BY ONLY <3>1, <3>2
  <2> QED
    BY <1>4, <2>2, <2>3, <2>4, HalfType
<1>6. n \in Nat /\ n >= 1 /\ n <= maxNumPlayers /\ maxNumPlayers \in 1..MostPlayers
  BY DEF TypeOK
<1>7. p \in Nat /\ p <= s * maxNumPlayers
  <2>1. offsets \in Nat
    BY HalfType DEF TypeOK
  <2>2. p \in Nat
    BY <2>1, HalfType, DivMod DEF PlayerHalf
  <2> QED
    BY <1>5, <2>2 DEF PlaceInv
<1>8. /\ p + n <= (s + 1) * maxNumPlayers
      /\ (s + 1) * maxNumPlayers <= Batch * maxNumPlayers
      /\ (s + 1) * maxNumPlayers < Half /\ s + 1 < Half
      /\ Batch * maxNumPlayers \in Nat /\ Batch <= Batch * maxNumPlayers
  <2>1. (s + 1) * maxNumPlayers = s * maxNumPlayers + maxNumPlayers
    BY <1>5, <1>6
  <2>2. s * maxNumPlayers \in Nat
    BY <1>5, <1>6, Monotone
  <2>3. /\ (s + 1) * maxNumPlayers <= Batch * maxNumPlayers
        /\ (s + 1) * maxNumPlayers < Half /\ s + 1 < Half
        /\ Batch * maxNumPlayers \in Nat /\ Batch <= Batch * maxNumPlayers
    BY <1>5, <1>6, Capacity
  <2> QED
    BY <1>6, <1>7, <2>1, <2>2, <2>3
<1>9. p + n \in Nat /\ p + n < Half /\ p + n <= Batch * maxNumPlayers
  <2>1. (s + 1) * maxNumPlayers \in Nat
    BY <1>5, <1>6, Monotone
  <2> QED
    BY <1>6, <1>7, <1>8, <2>1, HalfType
<1> HIDE DEF p, s, n
<1>10. /\ offsets' \in 0..(Half * Half - 1)
       /\ PlayerHalf(offsets)' = p + n /\ SharedHalf(offsets)' = s + 1
  <2>1. offsets' = (offsets + Increment(n)) % (Half * Half)
    BY DEF n
  <2>2. /\ (offsets + Increment(n)) % (Half * Half) \in 0..(Half * Half - 1)
        /\ PlayerHalf((offsets + Increment(n)) % (Half * Half)) = p + n
        /\ SharedHalf((offsets + Increment(n)) % (Half * Half)) = s + 1
    BY <1>6, <1>8, <1>9, AddPacked DEF p, s, TypeOK
  <2> QED
    BY <2>1, <2>2 DEF PlayerHalf, SharedHalf
<1>11. Unordered' <=> Unordered
  BY DEF Unordered, arguments
<1>12. \A q \in Granted : playerOffset'[q] = playerOffset[q] /\ sharedOffset'[q] = sharedOffset[q]
  BY <1>3, <1>4 DEF TypeOK
<1>13. ASSUME Unordered PROVE TypeOK' /\ PlaceInv' /\ SlicesDisjoint'
  <2>1. playerOffset'[r] = p /\ sharedOffset'[r] = s
    BY <1>13 DEF Unordered, TypeOK, p, s
  <2>2. TypeOK'
    <3>1. p \in 0..(Batch * maxNumPlayers - 1) /\ s \in 0..(Batch - 1)
      BY <1>5, <1>6, <1>7, <1>8, <1>9, HalfType
    <3> QED
      BY <1>10, <1>13, <3>1 DEF TypeOK, counters, rows, arguments, Unordered, p, s
  <2>3. PlayerRange(r)' = p..(p + n - 1)
    BY <2>1 DEF PlayerRange, arguments, n
  <2>4. \A q \in Granted : PlayerRange(q)' = PlayerRange(q)
    BY <1>12 DEF PlayerRange, arguments
  <2>5. \A q \in Granted :
          /\ sharedOffset[q] < s /\ playerOffset[q] + numPlayers[q] <= p
          /\ sharedOffset[q] \in Nat /\ playerOffset[q] \in Nat /\ numPlayers[q] \in Nat
    <3>1. ASSUME NEW q \in Granted
          PROVE  sharedOffset[q] \in Nat /\ playerOffset[q] \in Nat /\ numPlayers[q] \in Nat
      <4>1. q \in Requests
        BY <1>4, <3>1
      <4>2. /\ sharedOffset[q] \in 0..(Batch - 1)
            /\ playerOffset[q] \in 0..(Batch * maxNumPlayers - 1)
            /\ numPlayers[q] \in 1..maxNumPlayers
        BY <4>1 DEF TypeOK
      <4> QED
        BY <4>2
    <3>2. \A q \in Granted : sharedOffset[q] < s /\ playerOffset[q] + numPlayers[q] <= p
      BY <1>13 DEF PlaceInv, p, s
    <3> QED
      BY <3>1, <3>2
  <2>6. SlicesDisjoint'
    <3>1. ASSUME NEW q \in Granted
          PROVE  sharedOffset'[q] # sharedOffset'[r] /\ PlayerRange(q)' \cap PlayerRange(r)' = {}
      <4>1. PlayerRange(q)' = playerOffset[q]..(playerOffset[q] + numPlayers[q] - 1)
        BY <2>4 DEF PlayerRange
      <4>2. /\ sharedOffset[q] < s /\ playerOffset[q] + numPlayers[q] <= p
            /\ sharedOffset[q] \in Nat /\ playerOffset[q] \in Nat /\ numPlayers[q] \in Nat
        BY <2>5
      <4>3. sharedOffset'[q] # sharedOffset'[r]
        BY <1>5, <1>12, <2>1, <4>2
      <4>4. PlayerRange(q)' \cap PlayerRange(r)' = {}
        BY <1>6, <1>7, <2>3, <4>1, <4>2
      <4> QED
        BY <4>3, <4>4
    <3> QED
      BY <1>3, <1>12, <2>4, <3>1 DEF SlicesDisjoint
  <2>7. PlaceInv'
    <3>1. \A q \in Granted' :
            sharedOffset'[q] < s + 1 /\ playerOffset'[q] + numPlayers[q] <= p + n
      BY <1>3, <1>5, <1>6, <1>7, <1>12, <2>1, <2>5 DEF n
    <3>2. ASSUME NEW k \in 0..((s + 1) - 1)
          PROVE  \E q \in Granted' : sharedOffset'[q] = k
      <4>1. CASE k = s
        BY <1>3, <2>1, <4>1
      <4>2. CASE k # s
        <5>1. k \in 0..(s - 1)
          BY <1>5, <4>2
        <5>2. PICK q \in Granted : sharedOffset[q] = k
          BY <1>13, <5>1 DEF PlaceInv, s
        <5> QED
          BY <1>3, <1>12, <5>2
      <4> QED
        BY <4>1, <4>2
    <3>3. ASSUME NEW k \in 0..((p + n) - 1)
          PROVE  \E q \in Granted' : k \in PlayerRange(q)'
      <4>1. CASE k >= p
        <5>1. k \in PlayerRange(r)'
          BY <1>6, <1>7, <2>3, <4>1
        <5> QED
          BY <1>3, <5>1
      <4>2. CASE k < p
        <5>1. k \in 0..(p - 1)
          BY <1>7, <4>2
        <5>2. PICK q \in Granted : k \in PlayerRange(q)
          BY <1>13, <5>1 DEF PlaceInv, p
        <5> QED
          BY <1>3, <2>4, <5>2
      <4> QED
        BY <1>6, <1>7, <4>1, <4>2
    <3>4. p + n <= Cardinality(Granted') * maxNumPlayers
      BY <1>4, <1>5, <1>8
    <3> QED
      BY <1>4, <1>5, <1>10, <1>11, <1>13, <3>1, <3>2, <3>3, <3>4 DEF PlaceInv, arguments
  <2> QED
    BY <2>2, <2>6, <2>7
<1>14. ASSUME ~Unordered PROVE TypeOK' /\ PlaceInv' /\ SlicesDisjoint'
  <2>1. /\ maxNumPlayers = 1 /\ r \in Made /\ Granted \subseteq Made
        /\ \A q \in Made : order[q] \in 0..(Batch - additional - 1)
        /\ \A q, t \in Made : order[q] = order[t] => q = t
    BY <1>1, <1>14, OrdersDiffer DEF Made, Granted
  <2>2. playerOffset'[r] = order[r] /\ sharedOffset'[r] = order[r]
    BY <2>1 DEF TypeOK
  <2>3. order[r] \in 0..(Batch - 1)
    BY <2>1, HalfType DEF TypeOK
  <2>4. TypeOK'
    <3>1. order[r] \in 0..(Batch * maxNumPlayers - 1)
      BY <2>1, <2>3, HalfType
    <3>2. order[r] # -1 /\ maxNumPlayers = 1
      BY ONLY <2>1, <2>3, -1 \notin 0..(Batch - 1)
    <3>3. playerOffset' \in [Requests -> 0..(Batch * maxNumPlayers - 1)]
      <4>1. playerOffset' = [playerOffset EXCEPT ![r] = order[r]]
        BY ONLY <3>2, TakeOffsets(r) DEF TakeOffsets
      <4> QED
        BY <3>1, <4>1 DEF TypeOK
    <3>4. sharedOffset' \in [Requests -> 0..(Batch - 1)]
      <4>1. sharedOffset' = [sharedOffset EXCEPT ![r] = order[r]]
        BY ONLY <3>2, TakeOffsets(r) DEF TakeOffsets
      <4> QED
        BY <2>3, <4>1 DEF TypeOK
    <3>5. pc' \in [Requests -> {"absent", "count", "offset", "thrown", "write", "done", "signal",
                                "finished"}]
      BY DEF TypeOK
    <3> QED
      BY <1>10, <3>3, <3>4, <3>5 DEF TypeOK, counters, rows, arguments
  <2>5. \A q \in Granted' : playerOffset'[q] = order[q] /\ sharedOffset'[q] = order[q]
    BY <1>3, <1>12, <1>14, <2>2 DEF PlaceInv
  <2>6. \A q \in Requests : numPlayers[q] = 1
    BY <2>1 DEF TypeOK
  <2>7. SlicesDisjoint'
    <3>1. Granted' \subseteq Made /\ Granted' \subseteq Requests
      BY <1>3, <1>4, <2>1
    <3>2. \A q \in Granted' : PlayerRange(q)' = {order[q]}
      BY <2>1, <2>5, <2>6, <3>1 DEF PlayerRange, arguments
    <3> QED
      BY <2>1, <2>5, <3>1, <3>2 DEF SlicesDisjoint
  <2>8. PlaceInv'
    <3>1. p = s /\ n = 1
      BY <1>5, <1>14, <2>6 DEF PlaceInv, p, n
    <3> QED
      BY <1>4, <1>5, <1>8, <1>10, <1>11, <1>14, <2>5, <3>1 DEF PlaceInv, arguments
  <2> QED
    BY <2>4, <2>7, <2>8
<1>15. CallsAllowed'
  BY <1>3, CallsFrame
<1>16. CountInv'
  BY <1>2 DEF CountInv, Added, arguments, Bit
<1>17. ContentInv'
  <2>1. pc'[r] = "write" /\ \A q \in Granted : pc'[q] = pc[q]
    BY <1>1, <1>3, <1>4
  <2>2. \A q \in Granted : PlayerRange(q)' = PlayerRange(q)
    BY <1>12 DEF PlayerRange, arguments
  <2> QED
    BY <1>3, <1>12, <2>1, <2>2 DEF ContentInv, rows
<1>18. ResultInv'
  <2>1. r \in Admitted /\ r \notin Reported
    BY <1>1 DEF Admitted, Reported, In
  <2>2. rpc # "returned"
    BY <2>1, Quiet
  <2> QED
    BY <2>2 DEF ResultInv
<1> QED
  BY <1>13, <1>14, <1>15, <1>16, <1>17, <1>18

\* Every slice lies in the arrays, so a write hits its own rows and no others.
LEMMA SliceInArrays ==
  ASSUME IInv, NEW r \in Granted
  PROVE  /\ sharedOffset[r] \in DOMAIN sharedRows
         /\ PlayerRange(r) \subseteq DOMAIN playerRows
<1> USE DEF IInv
<1>1. r \in Requests
  BY DEF Granted
<1>2. /\ sharedOffset[r] \in 0..(Batch - 1) /\ DOMAIN sharedRows = 0..(Batch - 1)
      /\ DOMAIN playerRows = 0..(Batch * maxNumPlayers - 1)
      /\ playerOffset[r] \in 0..(Batch * maxNumPlayers - 1)
      /\ numPlayers[r] \in 1..maxNumPlayers /\ maxNumPlayers \in 1..MostPlayers
  BY <1>1 DEF TypeOK
<1>3. Batch * maxNumPlayers \in Nat
  BY <1>2, HalfType, Monotone
<1>4. playerOffset[r] + numPlayers[r] <= Batch * maxNumPlayers
  <2>1. CASE Unordered
    <3>1. playerOffset[r] + numPlayers[r] <= PlayerHalf(offsets)
      BY <2>1 DEF PlaceInv
    <3>2. PlayerHalf(offsets) <= Cardinality(Granted) * maxNumPlayers
      BY DEF PlaceInv
    <3>3. Cardinality(Granted) \in 0..Batch
      BY Quota, HalfType
    <3>4. /\ Cardinality(Granted) * maxNumPlayers <= Batch * maxNumPlayers
          /\ Cardinality(Granted) * maxNumPlayers \in Nat
      BY <1>2, <3>3, Capacity
    <3>5. PlayerHalf(offsets) \in Nat
      <4>1. offsets \in Nat
        BY HalfType DEF TypeOK
      <4> QED
        BY <4>1, HalfType, DivMod DEF PlayerHalf
    <3> QED
      BY <1>2, <1>3, <3>1, <3>2, <3>4, <3>5
  <2>2. CASE ~Unordered
    BY <1>2, <1>3, <2>2, OrdersDiffer
  <2> QED
    BY <2>1, <2>2
<1> QED
  BY <1>2, <1>3, <1>4 DEF PlayerRange

LEMMA WriteInductive ==
  ASSUME IInv, NEW r \in Requests, Write(r)
  PROVE  IInv'
<1> USE DEF IInv, Write, Step, counters
<1>1. /\ pc[r] = "write" /\ pc'[r] = "done" /\ r \in Granted
      /\ \A q \in Requests \ {r} : pc'[q] = pc[q]
  BY DEF TypeOK, Granted
<1>2. /\ Counted' = Counted /\ Admitted' = Admitted /\ Reported' = Reported
      /\ In({"signal"})' = In({"signal"}) /\ Granted' = Granted /\ Made' = Made
  BY <1>1 DEF Counted, Admitted, Reported, In, Granted, Made
<1>3. sharedOffset[r] \in DOMAIN sharedRows /\ PlayerRange(r) \subseteq DOMAIN playerRows
  BY <1>1, SliceInArrays
<1>4. TypeOK'
  BY <1>1 DEF TypeOK, arguments
<1>5. CallsAllowed'
  BY <1>2, CallsFrame
<1>6. CountInv'
  BY <1>2 DEF CountInv, Added, arguments, Bit
<1>7. PlaceInv' /\ SlicesDisjoint'
  BY <1>2, PlaceFrame
<1>8. ContentInv'
  <2>1. \A q : PlayerRange(q)' = PlayerRange(q)
    BY DEF PlayerRange, arguments
  <2>2. sharedRows'[sharedOffset[r]] = r /\ \A k \in PlayerRange(r) : playerRows'[k] = r
    BY <1>3 DEF TypeOK
  <2>3. ASSUME NEW q \in Granted, q # r, pc'[q] # "write"
        PROVE  /\ sharedRows'[sharedOffset[q]] = q
               /\ \A k \in PlayerRange(q) : playerRows'[k] = q
    <3>1. /\ sharedRows[sharedOffset[q]] = q
          /\ \A k \in PlayerRange(q) : playerRows[k] = q
      BY <1>1, <2>3 DEF ContentInv, Granted
    <3>2. sharedOffset[q] # sharedOffset[r] /\ PlayerRange(q) \cap PlayerRange(r) = {}
      BY <1>1, <2>3 DEF SlicesDisjoint
    <3>3. sharedOffset[q] \in DOMAIN sharedRows /\ PlayerRange(q) \subseteq DOMAIN playerRows
      BY <2>3, SliceInArrays
    <3> QED
      BY <3>1, <3>2, <3>3
  <2> QED
    BY <1>2, <2>1, <2>2, <2>3 DEF ContentInv
<1>9. ResultInv'
  BY DEF ResultInv, PlayerHalf, SharedHalf
<1> QED
  BY <1>4, <1>5, <1>6, <1>7, <1>8, <1>9

LEMMA DoneInductive ==
  ASSUME IInv, NEW r \in Requests, Done(r)
  PROVE  IInv'
<1> USE DEF IInv, Done, Step
<1>1. /\ pc[r] = "done" /\ pc'[r] = IF doneCount + 1 = Batch THEN "signal" ELSE "finished"
      /\ \A q \in Requests \ {r} : pc'[q] = pc[q]
  BY DEF TypeOK
<1>2. /\ Counted' = Counted /\ Admitted' = Admitted /\ Granted' = Granted /\ Made' = Made
      /\ Reported' = Reported \cup {r} /\ r \notin Reported /\ r \in Admitted
      /\ In({"signal"})' = IF doneCount + 1 = Batch THEN In({"signal"}) \cup {r} ELSE In({"signal"})
      /\ r \notin In({"signal"})
  BY <1>1 DEF Counted, Admitted, Reported, In, Granted, Made
<1>3. /\ Admitted \in SUBSET Requests /\ Reported \in SUBSET Requests
      /\ Reported' \in SUBSET Admitted /\ In({"signal"}) \in SUBSET Requests
  BY <1>2 DEF Admitted, Reported, In
<1>4. /\ Cardinality(Reported') = Cardinality(Reported) + 1
      /\ Cardinality(Reported') <= Cardinality(Admitted)
  BY <1>2, <1>3, Enter, Within
<1>5. doneCount + 1 <= Batch /\ doneCount \in Nat
  <2>1. /\ Cardinality(Admitted) + additional <= Batch
        /\ Cardinality(Admitted) \in Nat /\ Cardinality(Reported) \in Nat
    BY Quota
  <2>2. doneCount = Cardinality(Reported) + Added /\ doneCount \in Nat /\ additional \in Nat
    BY HalfType DEF CountInv, TypeOK
  <2> QED
    BY <1>4, <2>1, <2>2, HalfType DEF Added
<1>6. TypeOK'
  <2>1. doneCount' \in 0..Batch
    BY <1>5, HalfType
  <2> QED
    BY <2>1 DEF TypeOK, rows, arguments
<1>7. CallsAllowed'
  BY <1>2, CallsFrame
<1>8. CountInv'
  <2>1. doneCount' = Cardinality(Reported') + Added'
    <3>1. doneCount = Cardinality(Reported) + Added /\ Added' = Added
      BY DEF CountInv, Added, arguments
    <3>2. Cardinality(Reported) \in Nat /\ Added \in Nat
      <4>1. Cardinality(Reported) \in Nat
        BY Quota
      <4>2. additional \in Nat
        BY HalfType DEF TypeOK
      <4> QED
        BY <4>1, <4>2 DEF Added
    <3> QED
      BY <1>4, <3>1, <3>2
  <2>2. sem' + Cardinality(In({"signal"})') + Bit(rpc' = "signal")
          + Bit(rpc' \in {"truncate", "returned"}) = Bit(doneCount' = Batch)
    <3>1. sem + Cardinality(In({"signal"})) + Bit(rpc = "signal")
            + Bit(rpc \in {"truncate", "returned"}) = 0
      BY <1>5, HalfType DEF CountInv, Bit
    <3>2. sem \in Nat /\ Cardinality(In({"signal"})) \in Nat
      <4>1. sem \in Nat
        BY DEF TypeOK
      <4>2. Cardinality(In({"signal"})) \in Nat
        BY Quota
      <4> QED
        BY ONLY <4>1, <4>2
    <3>3. CASE doneCount + 1 = Batch
      <4>1. Cardinality(In({"signal"})') = Cardinality(In({"signal"})) + 1
        BY <1>2, <1>3, <3>3, Enter
      <4> QED
        BY <3>1, <3>2, <3>3, <4>1 DEF Bit
    <3>4. CASE doneCount + 1 # Batch
      BY <1>2, <3>1, <3>2, <3>4 DEF Bit
    <3> QED
      BY <3>3, <3>4
  <2> QED
    BY <1>2, <2>1, <2>2 DEF CountInv, arguments
<1>9. PlaceInv' /\ SlicesDisjoint'
  BY <1>2, PlaceFrame
<1>10. ContentInv'
  BY <1>1, <1>2, ContentFrame DEF Granted
<1>11. ResultInv'
  BY DEF ResultInv, PlayerHalf, SharedHalf
<1> QED
  BY <1>6, <1>7, <1>8, <1>9, <1>10, <1>11

LEMMA SignalInductive ==
  ASSUME IInv, NEW r \in Requests, Signal(r)
  PROVE  IInv'
<1> USE DEF IInv, Signal, Step
<1>1. /\ pc[r] = "signal" /\ pc'[r] = "finished"
      /\ \A q \in Requests \ {r} : pc'[q] = pc[q]
  BY DEF TypeOK
<1>2. /\ Counted' = Counted /\ Admitted' = Admitted /\ Granted' = Granted /\ Made' = Made
      /\ Reported' = Reported
      /\ In({"signal"})' = In({"signal"}) \ {r} /\ r \in In({"signal"})
  BY <1>1 DEF Counted, Admitted, Reported, In, Granted, Made
<1>3. /\ Cardinality(In({"signal"})') = Cardinality(In({"signal"})) - 1
      /\ Cardinality(In({"signal"})) >= 1 /\ Cardinality(In({"signal"})) \in Nat
  <2>1. In({"signal"}) \in SUBSET Requests
    BY DEF In
  <2> QED
    BY <1>2, <2>1, Leave, InFinite
<1>4. sem = 0
  <2>1. sem \in Nat
    BY DEF TypeOK
  <2>2. /\ Bit(rpc = "signal") \in 0..1 /\ Bit(rpc \in {"truncate", "returned"}) \in 0..1
        /\ Bit(doneCount = Batch) \in 0..1
    BY DEF Bit
  <2>3. sem + Cardinality(In({"signal"})) + Bit(rpc = "signal")
          + Bit(rpc \in {"truncate", "returned"}) = Bit(doneCount = Batch)
    BY DEF CountInv
  <2> HIDE DEF arguments
  <2> QED
    BY <1>3, <2>1, <2>2, <2>3
<1>5. TypeOK'
  <2>1. sem' \in 0..1
    BY <1>4
  <2>2. pc' \in [Requests -> {"absent", "count", "offset", "thrown", "write", "done", "signal",
                              "finished"}]
    BY DEF TypeOK
  <2> QED
    BY <2>1, <2>2 DEF TypeOK, rows, arguments
<1>6. CallsAllowed'
  BY <1>2, CallsFrame
<1>7. CountInv'
  <2>1. sem' + Cardinality(In({"signal"})') = sem + Cardinality(In({"signal"}))
    BY <1>3, <1>4
  <2> QED
    BY <1>2, <2>1 DEF CountInv, Added, arguments, Bit
<1>8. PlaceInv' /\ SlicesDisjoint'
  BY <1>2, PlaceFrame
<1>9. ContentInv'
  BY <1>1, <1>2, ContentFrame DEF Granted
<1>10. ResultInv'
  BY DEF ResultInv, PlayerHalf, SharedHalf
<1> QED
  BY <1>5, <1>6, <1>7, <1>8, <1>9, <1>10

----------------------------------------------------------------------------
(* The steps of the receiver *)

LEMMA ReceiverFrame ==
  ASSUME IInv, UNCHANGED <<pc, offsets, rows, arguments, playerOffset, sharedOffset>>
  PROVE  /\ Counted' = Counted /\ Admitted' = Admitted /\ Reported' = Reported
         /\ In({"signal"})' = In({"signal"})
         /\ CallsAllowed' /\ PlaceInv' /\ SlicesDisjoint' /\ ContentInv'
         /\ PlayerHalf(offsets)' = PlayerHalf(offsets)
         /\ SharedHalf(offsets)' = SharedHalf(offsets)
<1> USE DEF IInv
<1>1. /\ Counted' = Counted /\ Admitted' = Admitted /\ Reported' = Reported
      /\ In({"signal"})' = In({"signal"})
      /\ Granted' = Granted /\ Made' = Made
  BY DEF Counted, Admitted, Reported, In, Granted, Made
<1>2. CallsAllowed' /\ PlaceInv' /\ SlicesDisjoint' /\ ContentInv'
  BY <1>1, CallsFrame, PlaceFrame, ContentFrame
<1> QED
  BY <1>1, <1>2 DEF PlayerHalf, SharedHalf

LEMMA WaitCallInductive == IInv /\ WaitCall => IInv'
<1> SUFFICES ASSUME IInv, WaitCall PROVE IInv'
  OBVIOUS
<1> USE DEF IInv, WaitCall, ReceiverStep, counters
<1>1. /\ Counted' = Counted /\ Admitted' = Admitted /\ Reported' = Reported
      /\ In({"signal"})' = In({"signal"})
      /\ CallsAllowed' /\ PlaceInv' /\ SlicesDisjoint' /\ ContentInv'
  BY ReceiverFrame
<1>2. TypeOK'
  BY DEF TypeOK, rows, arguments
<1>3. CountInv'
  <2>1. Added' = Added /\ Added = 0
    BY DEF Added, arguments, TypeOK
  <2> QED
    BY <1>1, <2>1 DEF CountInv, arguments, Bit
<1>4. ResultInv'
  BY DEF ResultInv
<1> QED
  BY <1>1, <1>2, <1>3, <1>4

LEMMA WaitDoneInductive == IInv /\ WaitDone => IInv'
<1> SUFFICES ASSUME IInv, WaitDone PROVE IInv'
  OBVIOUS
<1> USE DEF IInv, WaitDone, ReceiverStep
<1>1. /\ Counted' = Counted /\ Admitted' = Admitted /\ Reported' = Reported
      /\ In({"signal"})' = In({"signal"})
      /\ CallsAllowed' /\ PlaceInv' /\ SlicesDisjoint' /\ ContentInv'
  BY ReceiverFrame
<1>2. /\ doneCount = Cardinality(Reported) /\ doneCount \in Nat
      /\ additional \in Nat \ {0} /\ Added' = additional
      /\ doneCount + additional <= Batch
  <2>1. /\ Cardinality(Admitted) + additional <= Batch
        /\ Cardinality(Admitted) \in Nat /\ Cardinality(Reported) \in Nat
        /\ Cardinality(Reported) <= Cardinality(Admitted)
    BY Quota
  <2>2. additional \in Nat \ {0} /\ additional' = additional
    BY HalfType DEF TypeOK, CountInv, arguments
  <2>3. doneCount = Cardinality(Reported) /\ Added' = additional
    BY <2>1, <2>2 DEF CountInv, Added
  <2> QED
    BY <2>1, <2>2, <2>3, HalfType
<1>3. TypeOK'
  <2>1. doneCount' \in 0..Batch
    BY <1>2, HalfType
  <2> QED
    BY <2>1 DEF TypeOK, rows, arguments
<1>4. CountInv'
  <2>1. sem' + Cardinality(In({"signal"})') + Bit(rpc' = "signal")
          + Bit(rpc' \in {"truncate", "returned"}) = Bit(doneCount' = Batch)
    <3>1. sem + Cardinality(In({"signal"})) = 0
      <4>1. sem + Cardinality(In({"signal"})) + 0 + 0 = 0
        BY <1>2, HalfType DEF CountInv, Bit
      <4>2. sem \in Nat
        BY DEF TypeOK
      <4>3. Cardinality(In({"signal"})) \in Nat
        BY Quota
      <4> QED
        BY ONLY <4>1, <4>2, <4>3
    <3> QED
      BY <1>1, <3>1 DEF Bit
  <2> QED
    BY <1>1, <1>2, <2>1 DEF CountInv
<1>5. ResultInv'
  BY DEF ResultInv
<1> QED
  BY <1>1, <1>3, <1>4, <1>5

LEMMA WaitSignalInductive == IInv /\ WaitSignal => IInv'
<1> SUFFICES ASSUME IInv, WaitSignal PROVE IInv'
  OBVIOUS
<1> USE DEF IInv, WaitSignal, ReceiverStep
<1>1. /\ Counted' = Counted /\ Admitted' = Admitted /\ Reported' = Reported
      /\ In({"signal"})' = In({"signal"})
      /\ CallsAllowed' /\ PlaceInv' /\ SlicesDisjoint' /\ ContentInv'
  BY ReceiverFrame
<1>2. sem = 0 /\ Cardinality(In({"signal"})) \in Nat
  <2>1. sem + Cardinality(In({"signal"})) + 1 + 0 = Bit(doneCount = Batch)
    BY DEF CountInv, Bit
  <2>2. sem \in Nat
    BY DEF TypeOK
  <2>3. Cardinality(In({"signal"})) \in Nat
    BY Quota
  <2>4. Bit(doneCount = Batch) \in 0..1
    BY DEF Bit
  <2> QED
    BY ONLY <2>1, <2>2, <2>3, <2>4
<1>3. TypeOK'
  BY <1>2 DEF TypeOK, rows, arguments
<1>4. CountInv'
  BY <1>1, <1>2 DEF CountInv, Added, arguments, Bit
<1>5. ResultInv'
  BY DEF ResultInv
<1> QED
  BY <1>1, <1>3, <1>4, <1>5

LEMMA WaitSemInductive == IInv /\ WaitSem => IInv'
<1> SUFFICES ASSUME IInv, WaitSem PROVE IInv'
  OBVIOUS
<1> USE DEF IInv, WaitSem, ReceiverStep
<1>1. /\ Counted' = Counted /\ Admitted' = Admitted /\ Reported' = Reported
      /\ In({"signal"})' = In({"signal"})
      /\ CallsAllowed' /\ PlaceInv' /\ SlicesDisjoint' /\ ContentInv'
  BY ReceiverFrame
<1>2. sem = 1 /\ sem' = 0 /\ Cardinality(In({"signal"})) \in Nat
  <2>1. sem \in 0..1 /\ sem > 0 /\ sem' = sem - 1
    BY DEF TypeOK
  <2>2. Cardinality(In({"signal"})) \in Nat
    BY Quota
  <2> QED
    BY ONLY <2>1, <2>2
<1>3. TypeOK'
  BY <1>2 DEF TypeOK, rows, arguments
<1>4. CountInv'
  BY <1>1, <1>2 DEF CountInv, Added, arguments, Bit
<1>5. ResultInv'
  BY DEF ResultInv
<1> QED
  BY <1>1, <1>3, <1>4, <1>5

LEMMA TruncateInductive == IInv /\ Truncate => IInv'
<1> SUFFICES ASSUME IInv, Truncate PROVE IInv'
  OBVIOUS
<1> USE DEF IInv, Truncate, ReceiverStep, counters
<1>1. /\ Counted' = Counted /\ Admitted' = Admitted /\ Reported' = Reported
      /\ In({"signal"})' = In({"signal"})
      /\ CallsAllowed' /\ PlaceInv' /\ SlicesDisjoint' /\ ContentInv'
      /\ PlayerHalf(offsets)' = PlayerHalf(offsets)
      /\ SharedHalf(offsets)' = SharedHalf(offsets)
  BY ReceiverFrame
<1>2. TypeOK'
  <2>1. /\ PlayerHalf(offsets) <= Cardinality(Granted) * maxNumPlayers
        /\ SharedHalf(offsets) = Cardinality(Granted)
        /\ Cardinality(Granted) \in 0..Batch
        /\ maxNumPlayers \in 1..MostPlayers
    <3>1. Cardinality(Granted) \in Nat /\ Cardinality(Granted) <= Cardinality(Admitted)
      BY Quota
    <3>2. Cardinality(Admitted) <= Batch /\ Cardinality(Admitted) \in Nat
      BY Quota
    <3>3. Cardinality(Granted) \in 0..Batch
      BY <3>1, <3>2, HalfType
    <3>4. maxNumPlayers \in 1..MostPlayers
      BY DEF TypeOK
    <3> QED
      BY <3>3, <3>4 DEF PlaceInv
  <2>2. /\ Cardinality(Granted) * maxNumPlayers <= Batch * maxNumPlayers
        /\ Cardinality(Granted) * maxNumPlayers \in Nat /\ Batch * maxNumPlayers \in Nat
    BY <2>1, Capacity
  <2>3. PlayerHalf(offsets) \in Nat
    <3>1. offsets \in Nat
      BY HalfType DEF TypeOK
    <3> QED
      BY <3>1, HalfType, DivMod DEF PlayerHalf
  <2>4. PlayerHalf(offsets) \in 0..(Batch * maxNumPlayers)
    BY <2>1, <2>2, <2>3
  <2> QED
    BY <2>1, <2>4 DEF TypeOK, rows, arguments
<1>3. CountInv'
  BY <1>1 DEF CountInv, Added, arguments, Bit
<1>4. ResultInv'
  BY <1>1 DEF ResultInv
<1> QED
  BY <1>1, <1>2, <1>3, <1>4

----------------------------------------------------------------------------
(* The theorems *)

LEMMA InitIInv == Init => IInv
<1> SUFFICES ASSUME Init PROVE IInv
  OBVIOUS
<1> USE DEF Init
<1>1. /\ Counted = {} /\ Admitted = {} /\ Reported = {} /\ Granted = {}
      /\ In({"signal"}) = {}
  BY DEF Counted, Admitted, Reported, Granted, In
<1>2. Cardinality({}) = 0
  BY FS_EmptySet
<1>3. maxNumPlayers \in 1..MostPlayers /\ Batch * maxNumPlayers \in Nat \ {0}
  <2>1. Batch * maxNumPlayers \in Nat /\ Batch <= Batch * maxNumPlayers
    BY Capacity, HalfType
  <2> QED
    BY <2>1, HalfType
<1>4. TypeOK
  <2>1. 0 \in 0..Cardinality(Requests)
    BY RequestsAssumption, FS_CardinalityType
  <2>2. 0 \in 0..Batch /\ 0 \in 0..(Batch - 1)
    BY HalfType
  <2>4. 0 \in 0..(Half * Half - 1)
    <3>1. \A n \in Nat \ {0} : 0 \in 0..(n - 1)
      OBVIOUS
    <3>2. Half * Half \in Nat \ {0}
      BY HalfType
    <3> QED
      BY ONLY <3>1, <3>2
  <2>3. 0 \in 0..(Batch * maxNumPlayers - 1) /\ 0 \in 0..(Batch * maxNumPlayers)
    BY <1>3
  <2> QED
    BY <2>1, <2>2, <2>3, <2>4 DEF TypeOK
<1>5. CountInv
  <2>1. Counted = {} /\ Admitted = {} /\ Reported = {} /\ In({"signal"}) = {}
    BY <1>1
  <2>2. Added = 0 /\ rpc = "call" /\ allocCount = 0 /\ doneCount = 0 /\ sem = 0
    BY DEF Added
  <2> HIDE DEF Init
  <2>3. Lesser(allocCount, Batch) = 0
    BY <2>2, HalfType DEF Lesser
  <2>4. doneCount # Batch
    BY <2>2, HalfType
  <2> QED
    BY <2>1, <2>2, <2>3, <2>4, <1>2 DEF CountInv, Bit
<1>6. PlayerHalf(offsets) = 0 /\ SharedHalf(offsets) = 0
  BY HalfType, Packed DEF PlayerHalf, SharedHalf
<1>7. PlaceInv
  <2>1. 0 * maxNumPlayers = 0
    BY <1>3
  <2> QED
    BY <1>1, <1>2, <1>6, <2>1 DEF PlaceInv
<1>8. SlicesDisjoint /\ ContentInv /\ ResultInv
  BY <1>1 DEF SlicesDisjoint, ContentInv, ResultInv
<1> QED
  BY <1>4, <1>5, <1>7, <1>8 DEF IInv

LEMMA NextIInv == IInv /\ [Next]_vars => IInv'
<1> SUFFICES ASSUME IInv, [Next]_vars PROVE IInv'
  OBVIOUS
<1>1. ASSUME NEW r \in Requests, Request(r) PROVE IInv'
  BY <1>1, CountAllocationInductive, TakeOffsetsInductive, WriteInductive,
     DoneInductive, SignalInductive DEF Request, Allocate
<1>2. CASE Wait
  BY <1>2, WaitCallInductive, WaitDoneInductive, WaitSignalInductive,
     WaitSemInductive, TruncateInductive DEF Wait
<1>3. CASE UNCHANGED vars
  <2> USE <1>3 DEF IInv, vars, counters, rows
  <2>1. /\ Counted' = Counted /\ Admitted' = Admitted /\ Reported' = Reported
        /\ In({"signal"})' = In({"signal"})
        /\ CallsAllowed' /\ PlaceInv' /\ SlicesDisjoint' /\ ContentInv'
        /\ PlayerHalf(offsets)' = PlayerHalf(offsets)
        /\ SharedHalf(offsets)' = SharedHalf(offsets)
    BY ReceiverFrame
  <2>2. TypeOK' /\ ResultInv'
    BY <2>1 DEF TypeOK, ResultInv, arguments
  <2>3. CountInv'
    BY <2>1 DEF CountInv, Added, arguments, Bit
  <2> QED
    BY <2>1, <2>2, <2>3
<1> QED
  BY <1>1, <1>2, <1>3 DEF Next

LEMMA IInvQuiet == IInv => QuietOnReturn
<1> SUFFICES ASSUME IInv, rpc = "returned", NEW r \in Requests
             PROVE  pc[r] \notin {"offset", "write", "done", "signal"}
  BY DEF QuietOnReturn
<1>1. Admitted = Reported /\ In({"signal"}) = {}
  BY Quiet DEF IInv
<1> QED
  BY <1>1 DEF Admitted, Reported, In

LEMMA IInvWritten == IInv => WaitReturnsWrittenRows
<1> SUFFICES ASSUME IInv, rpc = "returned"
             PROVE  WaitReturnsWrittenRows
  BY DEF WaitReturnsWrittenRows
<1> USE DEF IInv
<1>1. /\ Granted = Reported /\ Cardinality(Granted) = Batch - additional
      /\ Granted \in SUBSET Requests
  BY Quiet DEF Granted
<1>2. /\ result[1] = PlayerHalf(offsets) /\ result[2] = SharedHalf(offsets)
      /\ result[2] = Batch - additional
  BY <1>1 DEF ResultInv, PlaceInv
<1>3. \A r \in Granted : /\ sharedRows[sharedOffset[r]] = r
                         /\ \A k \in PlayerRange(r) : playerRows[k] = r
  BY <1>1 DEF ContentInv, Reported, In
<1>4. CASE Unordered
  <2>1. ASSUME NEW r \in Granted
        PROVE  PlayerRange(r) \subseteq 0..(result[1] - 1)
    <3>1. /\ playerOffset[r] \in Nat /\ numPlayers[r] \in Nat
          /\ playerOffset[r] + numPlayers[r] <= result[1]
      <4>1. r \in Requests /\ maxNumPlayers \in 1..MostPlayers
        BY <1>1 DEF TypeOK
      <4>2. Batch * maxNumPlayers \in Nat
        BY <4>1, HalfType, Monotone
      <4>3. /\ playerOffset[r] \in 0..(Batch * maxNumPlayers - 1)
            /\ numPlayers[r] \in 1..maxNumPlayers
        BY <4>1 DEF TypeOK
      <4> QED
        BY <1>2, <1>4, <4>3 DEF PlaceInv
    <3>2. result[1] \in Int
      <4>1. offsets \in Nat
        BY HalfType DEF TypeOK
      <4> QED
        BY <1>2, <4>1, HalfType, DivMod DEF PlayerHalf
    <3> QED
      BY <3>1, <3>2 DEF PlayerRange
  <2> QED
    BY <1>2, <1>3, <1>4, <2>1 DEF WaitReturnsWrittenRows, PlaceInv
<1>5. CASE ~Unordered
  <2>1. /\ maxNumPlayers = 1 /\ Cardinality(Made) = Batch - additional
        /\ \A r \in Made : order[r] \in 0..(Batch - additional - 1)
        /\ \A k \in 0..(Batch - additional - 1) : \E r \in Made : order[r] = k
    BY <1>5, OrdersDiffer
  <2>2. Granted = Made
    <3>1. Made \in SUBSET Requests /\ Granted \in SUBSET Made
      BY DEF Made, Granted
    <3> QED
      BY <1>1, <2>1, <3>1, Within
  <2>3. result[1] = Batch - additional
    BY <1>1, <1>2, <1>5 DEF PlaceInv
  <2>4. \A r \in Granted : /\ playerOffset[r] = order[r] /\ sharedOffset[r] = order[r]
                           /\ PlayerRange(r) = {order[r]}
    <3>1. ASSUME NEW r \in Granted
          PROVE  /\ playerOffset[r] = order[r] /\ sharedOffset[r] = order[r]
                 /\ numPlayers[r] = 1 /\ order[r] \in Int
      BY <1>1, <1>5, <2>1, <2>2 DEF PlaceInv, TypeOK
    <3> QED
      BY <3>1 DEF PlayerRange
  <2>5. ASSUME NEW k \in 0..(Batch - additional - 1)
        PROVE  sharedRows[k] \in Granted /\ playerRows[k] \in Granted
    <3>1. PICK r \in Granted : order[r] = k
      BY <2>1, <2>2
    <3> QED
      BY <1>3, <2>4, <3>1
  <2> QED
    BY <1>2, <2>1, <2>2, <2>3, <2>4, <2>5 DEF WaitReturnsWrittenRows
<1> QED
  BY <1>4, <1>5

LEMMA IInvOrder == IInv => RowsFollowOrder
<1> SUFFICES ASSUME IInv, rpc = "returned", NEW r \in Granted, order[r] # -1
             PROVE  sharedRows[order[r]] = r
  BY DEF RowsFollowOrder
<1> USE DEF IInv
<1>1. ~Unordered
  BY DEF Unordered, Granted
<1>2. pc[r] # "write"
  BY Quiet DEF Reported, In
<1> QED
  BY <1>1, <1>2 DEF PlaceInv, ContentInv

\* Allocate, Done and Wait keep the inductive invariant: the counters count what
\* they are said to count, the word never overflows into its other half, and the
\* slices are disjoint and without a gap.
THEOREM BufferInductive == Spec => []IInv
  BY InitIInv, NextIInv, PTL DEF Spec

\* For every number of concurrent Allocate calls and players, no two requests
\* ever share a row, however their two fetch_adds interleave.
THEOREM AllocatedDisjoint == Spec => []SlicesDisjoint
<1>1. IInv => SlicesDisjoint
  BY DEF IInv
<1> QED
  BY <1>1, BufferInductive, PTL

\* When Wait has returned, no worker still has to write a row or touch a counter
\* of the buffer, whichever of them and of Wait completed the quota.
THEOREM ReturnsQuiet == Spec => []QuietOnReturn
  BY IInvQuiet, BufferInductive, PTL

\* What Wait returns has exactly the rows that were granted, every one written,
\* with no gap among the rows of the players.
THEOREM ReturnsWritten == Spec => []WaitReturnsWrittenRows
  BY IInvWritten, BufferInductive, PTL

\* With an order, the row of a request is the one its order names.
THEOREM ReturnsInOrder == Spec => []RowsFollowOrder
  BY IInvOrder, BufferInductive, PTL
=============================================================================
