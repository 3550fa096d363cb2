-------------------------- MODULE BufferPoolProofs --------------------------
(***************************************************************************)
(* For every size of the pool, and any holders as long as there are no     *)
(* more of them than buffers: the ring of free indices, the count and the  *)
(* mask agree, no two handles share a buffer, and every release is         *)
(* accepted.                                                               *)
(***************************************************************************)
EXTENDS BufferPool, FiniteSetTheorems, TLAPS

\* As many buffers as may be held at a time.
EnoughBuffers == Cardinality(Holder) <= BUFFER_COUNT

\* What the count counts.
CountIsFree == count = Cardinality(Index \ in_use_mask)

IInv == TypeOK /\ RingIsFreeList /\ HandlesExclusive /\ ReleaseSucceeds
            /\ CountIsFree

\* A place of the ring some steps on.
Place(a, k) == IF a + k < BUFFER_COUNT THEN a + k ELSE a + k - BUFFER_COUNT

-----------------------------------------------------------------------------

\* The modulus wraps a position once.
LEMMA Modulo ==
    ASSUME NEW a \in Index, NEW k \in 0..BUFFER_COUNT
    PROVE  (a + k) % BUFFER_COUNT = Place(a, k) /\ Place(a, k) \in Index
<1>1. CASE BUFFER_COUNT = 1
  BY <1>1 DEF Index, Place
<1>2. CASE BUFFER_COUNT = 2
  BY <1>2 DEF Index, Place
<1>3. CASE BUFFER_COUNT = 3
  BY <1>3 DEF Index, Place
<1>4. CASE BUFFER_COUNT = 4
  BY <1>4 DEF Index, Place
<1>5. CASE BUFFER_COUNT = 5
  BY <1>5 DEF Index, Place
<1>6. CASE BUFFER_COUNT = 6
  BY <1>6 DEF Index, Place
<1>7. CASE BUFFER_COUNT = 7
  BY <1>7 DEF Index, Place
<1>8. CASE BUFFER_COUNT = 8
  BY <1>8 DEF Index, Place
<1>9. QED
  BY <1>1, <1>2, <1>3, <1>4, <1>5, <1>6, <1>7, <1>8, PoolAssumption

LEMMA IndexFinite ==
    ASSUME NEW S \in SUBSET Index
    PROVE  /\ IsFiniteSet(S) /\ Cardinality(S) \in 0..BUFFER_COUNT
           /\ Cardinality(S) = BUFFER_COUNT => S = Index
<1>1. IsFiniteSet(Index) /\ Cardinality(Index) = BUFFER_COUNT
  BY FS_Interval, PoolAssumption DEF Index
<1>2. IsFiniteSet(S) /\ Cardinality(S) <= BUFFER_COUNT
      /\ (Cardinality(Index) = Cardinality(S) => Index = S)
  BY <1>1, FS_Subset
<1>3. Cardinality(S) \in Nat
  BY <1>2, FS_CardinalityType
<1>4. QED
  BY <1>1, <1>2, <1>3, PoolAssumption

\* Another holder without a buffer means a free buffer.
LEMMA RequestFindsOne ==
    ASSUME EnoughBuffers, TypeOK, HandlesExclusive, CountIsFree,
           NEW h \in Holder, handle[h] = None
    PROVE  count \in 1..BUFFER_COUNT
<1> DEFINE others == Holder \ {h}
           held == {handle[g] : g \in others}
<1>1. /\ IsFiniteSet(others) /\ Cardinality(others) = Cardinality(Holder) - 1
      /\ Cardinality(Holder) \in Nat
  BY FS_RemoveElement, FS_CardinalityType, PoolAssumption
<1>2. IsFiniteSet(held) /\ Cardinality(held) <= Cardinality(others)
  <2>1. [g \in others |-> handle[g]] \in Surjection(others, held)
    BY DEF Surjection
  <2>2. QED
    BY <1>1, <2>1, FS_Surjection
<1>3. in_use_mask \subseteq held
  BY DEF HandlesExclusive
<1>4. IsFiniteSet(in_use_mask) /\ Cardinality(in_use_mask) <= Cardinality(held)
  BY <1>2, <1>3, FS_Subset
<1>5. Cardinality(held) \in Nat /\ Cardinality(in_use_mask) \in Nat
  BY <1>2, <1>4, FS_CardinalityType
<1>6. Cardinality(in_use_mask) < BUFFER_COUNT
  <2> HIDE DEF held, others
  <2> QED
    BY <1>1, <1>2, <1>4, <1>5, PoolAssumption DEF EnoughBuffers
<1>7. Index \ in_use_mask # {}
  <2>1. CASE in_use_mask = Index
    <3>1. Cardinality(Index) = BUFFER_COUNT
      BY FS_Interval, PoolAssumption DEF Index
    <3>2. QED
      BY <1>6, <2>1, <3>1, PoolAssumption
  <2>2. QED
    BY <2>1 DEF TypeOK
<1>8. Index \ in_use_mask \in SUBSET Index
  OBVIOUS
<1>9. QED
  BY <1>7, <1>8, IndexFinite, FS_EmptySet DEF CountIsFree

\* A buffer in use can be given back.
LEMMA ReleaseFits ==
    ASSUME IInv, NEW index \in in_use_mask
    PROVE  count \in 0..(BUFFER_COUNT - 1) /\ ~Refused(index)
<1>1. index \in Index /\ Index \ in_use_mask \in SUBSET Index
  BY DEF IInv, TypeOK
<1>2. count \in 0..BUFFER_COUNT /\ (count = BUFFER_COUNT => Index \ in_use_mask = Index)
  BY <1>1, IndexFinite DEF IInv, CountIsFree
<1>3. count # BUFFER_COUNT
  BY <1>1, <1>2
<1>4. QED
  BY <1>1, <1>2, <1>3, PoolAssumption DEF Refused, Index

-----------------------------------------------------------------------------
(* The three fields of the ring and the mask.                              *)

\* The free indices, told without the modulus.
LEMMA RingFacts ==
    ASSUME IInv
    PROVE  /\ alloc_idx \in Index /\ count \in 0..BUFFER_COUNT
           /\ dealloc_idx = Place(alloc_idx, count)
           /\ \A k \in 0..count : Place(alloc_idx, k) \in Index
           /\ \A k \in 0..(count - 1) :
                 Free(k) = allocations[Place(alloc_idx, k)]
           /\ \A k \in 0..(count - 1) : Free(k) \in Index \ in_use_mask
           /\ \A x \in Index \ in_use_mask : \E k \in 0..(count - 1) : Free(k) = x
<1>1. alloc_idx \in Index /\ count \in 0..BUFFER_COUNT
  BY PoolAssumption DEF IInv, TypeOK, RingIsFreeList
<1>2. \A k \in 0..count : k \in 0..BUFFER_COUNT
  BY <1>1, PoolAssumption
<1>3. \A k \in 0..count : (alloc_idx + k) % BUFFER_COUNT = Place(alloc_idx, k)
                            /\ Place(alloc_idx, k) \in Index
  BY <1>1, <1>2, Modulo
<1>4. \A k \in 0..(count - 1) : k \in 0..count
  BY <1>1, PoolAssumption
<1>5. \A k \in 0..(count - 1) : Free(k) = allocations[Place(alloc_idx, k)]
  BY <1>3, <1>4 DEF Free
<1>6. dealloc_idx = Place(alloc_idx, count)
  <2>1. count \in 0..count
    BY <1>1, PoolAssumption
  <2>2. QED
    BY <1>3, <2>1 DEF IInv, RingIsFreeList
<1>7. {Free(k) : k \in 0..(count - 1)} = Index \ in_use_mask
  BY DEF IInv, RingIsFreeList
<1>8. QED
  BY <1>1, <1>3, <1>5, <1>6, <1>7

\* Taking the next index.
LEMMA AllocKeepsRing ==
    ASSUME IInv, count \in 1..BUFFER_COUNT, NEW index, try_alloc(index)
    PROVE  /\ RingIsFreeList' /\ CountIsFree'
           /\ index \in Index \ in_use_mask
           /\ alloc_idx' \in Index /\ count' \in 0..BUFFER_COUNT
           /\ in_use_mask' = in_use_mask \cup {index}
<1>1. /\ index = allocations[alloc_idx]
      /\ alloc_idx' = (alloc_idx + 1) % BUFFER_COUNT
      /\ count' = (count + 255) % 256
      /\ in_use_mask' = in_use_mask \cup {index}
      /\ UNCHANGED <<dealloc_idx, allocations>>
  BY DEF try_alloc
<1>2. /\ alloc_idx \in 0..(BUFFER_COUNT - 1)
      /\ dealloc_idx = Place(alloc_idx, count)
      /\ \A k \in 0..(count - 1) : Free(k) = allocations[Place(alloc_idx, k)]
      /\ \A k \in 0..(count - 1) : Free(k) \in Index \ in_use_mask
      /\ \A x \in Index \ in_use_mask : \E k \in 0..(count - 1) : Free(k) = x
  BY RingFacts DEF Index
<1>3. count' = count - 1
  <2>1. count \in 1..8
    BY PoolAssumption
  <2>2. QED
    BY <1>1, <2>1
<1>4. alloc_idx' = Place(alloc_idx, 1) /\ alloc_idx' \in Index
  <2>1. 1 \in 0..BUFFER_COUNT /\ alloc_idx \in Index
    BY <1>2, PoolAssumption DEF Index
  <2>2. QED
    BY <1>1, <2>1, Modulo
<1>5. ASSUME NEW k \in 0..(count - 1)
      PROVE  (alloc_idx' + k) % BUFFER_COUNT = Place(alloc_idx', k)
             /\ Place(alloc_idx', k) = Place(alloc_idx, k + 1)
  <2>1. k \in 0..BUFFER_COUNT
    BY PoolAssumption
  <2>2. (alloc_idx' + k) % BUFFER_COUNT = Place(alloc_idx', k)
    BY <1>4, <2>1, Modulo
  <2>3. Place(alloc_idx', k) = Place(alloc_idx, k + 1)
    BY <1>2, <1>4, PoolAssumption DEF Place
  <2>4. QED
    BY <2>2, <2>3
<1>6. \A k \in 0..(count' - 1) : /\ k \in 0..(count - 1)
                                 /\ k + 1 \in 0..(count - 1)
                                 /\ Free(k)' = Free(k + 1)
  <2> SUFFICES ASSUME NEW k \in 0..(count' - 1)
               PROVE  /\ k \in 0..(count - 1)
                      /\ k + 1 \in 0..(count - 1)
                      /\ Free(k)' = Free(k + 1)
    OBVIOUS
  <2>1. k \in 0..(count - 1) /\ k + 1 \in 0..(count - 1)
    BY <1>3, PoolAssumption
  <2>2. Free(k + 1) = allocations[Place(alloc_idx, k + 1)]
    BY <1>2, <2>1
  <2>3. Free(k)' = allocations[Place(alloc_idx', k)]
    BY <1>1, <1>5, <2>1 DEF Free
  <2>4. QED
    BY <1>5, <2>1, <2>2, <2>3
<1>7. 0 \in 0..(count - 1) /\ Free(0) = index
  <2>1. 0 \in 0..(count - 1)
    BY PoolAssumption
  <2>2. Place(alloc_idx, 0) = alloc_idx
    BY <1>2, PoolAssumption DEF Place
  <2>3. QED
    BY <1>1, <1>2, <2>1, <2>2
<1>8. \A i, j \in 0..(count - 1) : Free(i) = Free(j) => i = j
  BY DEF IInv, RingIsFreeList
<1>9. index \in Index \ in_use_mask
  BY <1>2, <1>7
<1>10. {Free(k)' : k \in 0..(count' - 1)} = Index \ in_use_mask'
  <2>1. ASSUME NEW k \in 0..(count' - 1)
        PROVE  Free(k)' \in Index \ in_use_mask'
    <3>1. k + 1 # 0
      BY <1>3, PoolAssumption
    <3>2. Free(k + 1) # Free(0)
      BY <1>6, <1>7, <1>8, <3>1
    <3>3. QED
      BY <1>1, <1>2, <1>6, <1>7, <3>2
  <2>2. ASSUME NEW x \in Index \ in_use_mask'
        PROVE  \E k \in 0..(count' - 1) : Free(k)' = x
    <3>1. PICK j \in 0..(count - 1) : Free(j) = x
      BY <1>1, <1>2
    <3>2. j # 0
      BY <1>1, <1>7, <3>1
    <3>3. j - 1 \in 0..(count' - 1) /\ (j - 1) + 1 = j
      BY <1>3, <3>2, PoolAssumption
    <3>4. QED
      BY <1>6, <3>1, <3>3
  <2>3. QED
    BY <2>1, <2>2
<1>11. dealloc_idx' = (alloc_idx' + count') % BUFFER_COUNT
  <2>1. count' \in 0..(count - 1) /\ count' + 1 = count
    BY <1>3, PoolAssumption
  <2>2. QED
    BY <1>1, <1>2, <1>5, <2>1
<1>12. \A i, j \in 0..(count' - 1) : Free(i)' = Free(j)' => i = j
  <2> SUFFICES ASSUME NEW i \in 0..(count' - 1), NEW j \in 0..(count' - 1),
                      Free(i)' = Free(j)'
               PROVE  i = j
    OBVIOUS
  <2>1. i + 1 = j + 1
    BY <1>6, <1>8
  <2>2. QED
    BY <1>3, <2>1, PoolAssumption
<1>13. RingIsFreeList'
  <2>1. count' <= BUFFER_COUNT
    BY <1>3, PoolAssumption
  <2>2. QED
    BY <1>10, <1>11, <1>12, <2>1 DEF RingIsFreeList
<1>14. CountIsFree'
  <2>1. Index \ in_use_mask' = (Index \ in_use_mask) \ {index}
    BY <1>1
  <2>2. IsFiniteSet(Index \ in_use_mask)
    BY IndexFinite
  <2>3. Cardinality(Index \ in_use_mask') = Cardinality(Index \ in_use_mask) - 1
    BY <1>9, <2>1, <2>2, FS_RemoveElement
  <2>4. QED
    BY <1>3, <2>3 DEF IInv, CountIsFree
<1>15. count' \in 0..BUFFER_COUNT
  BY <1>3, PoolAssumption
<1>16. QED
  BY <1>1, <1>4, <1>9, <1>13, <1>14, <1>15

\* Putting an index back behind the last free one.
LEMMA PutBackKeepsRing ==
    ASSUME IInv, NEW index \in in_use_mask, PutBack(index)
    PROVE  /\ RingIsFreeList' /\ CountIsFree'
           /\ dealloc_idx' \in Index /\ count' \in 0..BUFFER_COUNT
           /\ allocations' \in [Index -> Index]
           /\ in_use_mask' = in_use_mask \ {index}
<1>1. /\ allocations' = [allocations EXCEPT ![dealloc_idx] = index]
      /\ dealloc_idx' = (dealloc_idx + 1) % BUFFER_COUNT
      /\ count' = (count + 1) % 256
      /\ in_use_mask' = in_use_mask \ {index}
      /\ UNCHANGED alloc_idx
  BY DEF PutBack
<1>2. /\ alloc_idx \in 0..(BUFFER_COUNT - 1)
      /\ dealloc_idx = Place(alloc_idx, count)
      /\ \A k \in 0..(count - 1) : Free(k) = allocations[Place(alloc_idx, k)]
      /\ \A k \in 0..(count - 1) : Free(k) \in Index \ in_use_mask
      /\ \A x \in Index \ in_use_mask : \E k \in 0..(count - 1) : Free(k) = x
  BY RingFacts DEF Index
<1>3. /\ allocations \in [Index -> Index] /\ dealloc_idx \in Index
      /\ in_use_mask \subseteq Index /\ index \in Index /\ alloc_idx \in Index
  BY DEF IInv, TypeOK
<1>4. count \in 0..(BUFFER_COUNT - 1)
  BY ReleaseFits
<1>5. count' = count + 1
  <2>1. count \in 0..7
    BY <1>4, PoolAssumption
  <2>2. QED
    BY <1>1, <2>1
<1>6. ASSUME NEW k \in 0..(count' - 1)
      PROVE  /\ (alloc_idx' + k) % BUFFER_COUNT = Place(alloc_idx, k)
             /\ Place(alloc_idx, k) \in Index
             /\ k # count => k \in 0..(count - 1) /\ Place(alloc_idx, k) # dealloc_idx
  <2>1. k \in 0..BUFFER_COUNT
    BY <1>4, <1>5, PoolAssumption
  <2>2. /\ (alloc_idx' + k) % BUFFER_COUNT = Place(alloc_idx, k)
        /\ Place(alloc_idx, k) \in Index
    BY <1>1, <1>3, <2>1, Modulo
  <2>3. k # count => k \in 0..(count - 1) /\ Place(alloc_idx, k) # dealloc_idx
    BY <1>2, <1>4, <1>5, PoolAssumption DEF Place
  <2>4. QED
    BY <2>2, <2>3
<1>7. \A k \in 0..(count - 1) : /\ k \in 0..(count' - 1)
                                /\ Free(k)' = Free(k)
  <2> SUFFICES ASSUME NEW k \in 0..(count - 1)
               PROVE  k \in 0..(count' - 1) /\ Free(k)' = Free(k)
    OBVIOUS
  <2>1. k \in 0..(count' - 1) /\ k # count
    BY <1>4, <1>5, PoolAssumption
  <2>2. Free(k)' = allocations'[Place(alloc_idx, k)]
    BY <1>6, <2>1 DEF Free
  <2>3. allocations'[Place(alloc_idx, k)] = allocations[Place(alloc_idx, k)]
    BY <1>1, <1>3, <1>6, <2>1
  <2>4. QED
    BY <1>2, <2>1, <2>2, <2>3
<1>8. count \in 0..(count' - 1)
  BY <1>4, <1>5, PoolAssumption
<1>9. ASSUME NEW k \in 0..(count' - 1), k = count
      PROVE  Free(k)' = index
  <2>1. Free(k)' = allocations'[Place(alloc_idx, k)]
    BY <1>6 DEF Free
  <2>2. QED
    BY <1>1, <1>2, <1>3, <1>9, <2>1
<1>10. \A k \in 0..(count' - 1) : k # count => k \in 0..(count - 1)
  BY <1>6
<1>11. {Free(k)' : k \in 0..(count' - 1)} = Index \ in_use_mask'
  <2>1. ASSUME NEW k \in 0..(count' - 1)
        PROVE  Free(k)' \in Index \ in_use_mask'
    <3>1. CASE k = count
      BY <1>1, <1>3, <1>9, <3>1
    <3>2. CASE k # count
      BY <1>1, <1>2, <1>7, <1>10, <3>2
    <3>3. QED
      BY <3>1, <3>2
  <2>2. ASSUME NEW x \in Index \ in_use_mask'
        PROVE  \E k \in 0..(count' - 1) : Free(k)' = x
    <3>1. CASE x = index
      BY <1>8, <1>9, <3>1
    <3>2. CASE x # index
      <4>1. PICK j \in 0..(count - 1) : Free(j) = x
        BY <1>1, <1>2, <3>2
      <4>2. QED
        BY <1>7, <4>1
    <3>3. QED
      BY <3>1, <3>2
  <2>3. QED
    BY <2>1, <2>2
<1>12. \A i, j \in 0..(count - 1) : Free(i) = Free(j) => i = j
  BY DEF IInv, RingIsFreeList
<1>13. ASSUME NEW i \in 0..(count' - 1), NEW j \in 0..(count' - 1),
              Free(i)' = Free(j)'
       PROVE  i = j
  <2>1. CASE i # count /\ j # count
    BY <1>7, <1>10, <1>12, <1>13, <2>1
  <2>2. CASE i = count /\ j # count
    BY <1>2, <1>7, <1>9, <1>10, <1>13, <2>2
  <2>3. CASE i # count /\ j = count
    BY <1>2, <1>7, <1>9, <1>10, <1>13, <2>3
  <2>4. QED
    BY <2>1, <2>2, <2>3
<1>14. dealloc_idx' = (alloc_idx' + count') % BUFFER_COUNT /\ dealloc_idx' \in Index
  <2>1. 1 \in 0..BUFFER_COUNT /\ count' \in 0..BUFFER_COUNT
    BY <1>4, <1>5, PoolAssumption
  <2>2. dealloc_idx' = Place(dealloc_idx, 1) /\ dealloc_idx' \in Index
    BY <1>1, <1>3, <2>1, Modulo
  <2>3. (alloc_idx + count') % BUFFER_COUNT = Place(alloc_idx, count')
    BY <1>3, <2>1, Modulo
  <2>4. Place(dealloc_idx, 1) = Place(alloc_idx, count')
    BY <1>2, <1>4, <1>5, PoolAssumption DEF Place
  <2>5. QED
    BY <1>1, <2>2, <2>3, <2>4
<1>15. RingIsFreeList'
  <2>1. count' <= BUFFER_COUNT
    BY <1>4, <1>5, PoolAssumption
  <2>2. QED
    BY <1>11, <1>13, <1>14, <2>1 DEF RingIsFreeList
<1>16. CountIsFree'
  <2>1. Index \ in_use_mask' = (Index \ in_use_mask) \cup {index}
    BY <1>1, <1>3
  <2>2. IsFiniteSet(Index \ in_use_mask)
    BY IndexFinite
  <2>3. Cardinality(Index \ in_use_mask') = Cardinality(Index \ in_use_mask) + 1
    BY <2>1, <2>2, FS_AddElement
  <2>4. QED
    BY <1>5, <2>3 DEF IInv, CountIsFree
<1>17. count' \in 0..BUFFER_COUNT /\ allocations' \in [Index -> Index]
  BY <1>1, <1>3, <1>4, <1>5, PoolAssumption
<1>18. QED
  BY <1>1, <1>14, <1>15, <1>16, <1>17

-----------------------------------------------------------------------------
(* The steps.                                                              *)

LEMMA InitInv == Init => IInv
<1> SUFFICES ASSUME Init
             PROVE  IInv
  OBVIOUS
<1> USE DEF Init
<1>1. TypeOK
  <2>1. BUFFER_COUNT \in 1..8
    BY PoolAssumption
  <2>2. /\ alloc_idx \in Index /\ dealloc_idx \in Index /\ count \in 0..BUFFER_COUNT
        /\ requests \in 0..(BUFFER_COUNT + 1)
    BY <2>1 DEF Index
  <2>3. allocations \in [Index -> Index]
    OBVIOUS
  <2>4. handle \in [Holder -> Index \cup {None}] /\ refused \in BOOLEAN
    OBVIOUS
  <2>5. in_use_mask \subseteq Index /\ slices \subseteq Index
    OBVIOUS
  <2>6. QED
    BY <2>2, <2>3, <2>4, <2>5 DEF TypeOK
<1>2. \A k \in 0..(BUFFER_COUNT - 1) : Free(k) = k
  <2> SUFFICES ASSUME NEW k \in 0..(BUFFER_COUNT - 1)
               PROVE  Free(k) = k
    OBVIOUS
  <2>1. 0 \in Index /\ k \in 0..BUFFER_COUNT /\ k \in Index
    BY PoolAssumption DEF Index
  <2>2. (alloc_idx + k) % BUFFER_COUNT = Place(alloc_idx, k)
    BY <2>1, Modulo
  <2>3. Place(alloc_idx, k) = k
    BY PoolAssumption DEF Place
  <2>4. QED
    BY <2>1, <2>2, <2>3 DEF Free
<1>3. RingIsFreeList
  <2>1. {Free(k) : k \in 0..(count - 1)} = Index \ in_use_mask
    BY <1>2 DEF Index
  <2>2. (alloc_idx + count) % BUFFER_COUNT = 0
    <3>1. 0 \in Index /\ BUFFER_COUNT \in 0..BUFFER_COUNT
      BY PoolAssumption DEF Index
    <3>2. (0 + BUFFER_COUNT) % BUFFER_COUNT = Place(0, BUFFER_COUNT)
      BY <3>1, Modulo
    <3>3. QED
      BY <3>2, PoolAssumption DEF Place
  <2>3. QED
    BY <1>2, <2>1, <2>2, PoolAssumption DEF RingIsFreeList
<1>4. CountIsFree
  <2>1. Index \ in_use_mask = 0..(BUFFER_COUNT - 1)
    BY DEF Index
  <2>2. Cardinality(0..(BUFFER_COUNT - 1)) = BUFFER_COUNT
    BY FS_Interval, PoolAssumption
  <2>3. QED
    BY <2>1, <2>2 DEF CountIsFree
<1>5. HandlesExclusive /\ ReleaseSucceeds
  BY DEF HandlesExclusive, ReleaseSucceeds
<1>6. QED
  BY <1>1, <1>3, <1>4, <1>5 DEF IInv

\* A request: the buffer handed out is nobody's.
LEMMA PollKeeps ==
    ASSUME EnoughBuffers, IInv, NEW h \in Holder, poll(h)
    PROVE  IInv'
<1>1. PICK index \in Index : /\ try_alloc(index)
                             /\ handle' = [handle EXCEPT ![h] = index]
  BY DEF poll
<1>2. handle[h] = None /\ UNCHANGED <<slices, refused>>
      /\ requests' = IF requests <= BUFFER_COUNT THEN requests + 1 ELSE requests
  BY DEF poll
<1>3. count \in 1..BUFFER_COUNT
  BY <1>2, RequestFindsOne DEF IInv
<1>4. /\ RingIsFreeList' /\ CountIsFree'
      /\ index \in Index \ in_use_mask
      /\ alloc_idx' \in Index /\ count' \in 0..BUFFER_COUNT
      /\ in_use_mask' = in_use_mask \cup {index}
      /\ UNCHANGED <<dealloc_idx, allocations>>
  BY <1>1, <1>3, AllocKeepsRing DEF try_alloc
<1>5. requests' \in 0..(BUFFER_COUNT + 1)
  BY <1>2, PoolAssumption DEF IInv, TypeOK
<1>6. TypeOK'
  BY <1>1, <1>2, <1>4, <1>5 DEF IInv, TypeOK
<1>7. HandlesExclusive'
  <2>1. handle \in [Holder -> Index \cup {None}] /\ index # None
    BY NoneAssumption DEF IInv, TypeOK
  <2>2. ASSUME NEW g \in Holder
        PROVE  handle[g] # index
    BY <1>4, NoneAssumption DEF IInv, HandlesExclusive
  <2>3. {handle'[g] : g \in Holder} \ {None}
            = ({handle[g] : g \in Holder} \ {None}) \cup {index}
    BY <1>1, <1>2, <2>1
  <2>4. in_use_mask' = {handle'[g] : g \in Holder} \ {None}
    BY <1>4, <2>3 DEF IInv, HandlesExclusive
  <2>5. \A f, g \in Holder : handle'[f] # None /\ handle'[f] = handle'[g] => f = g
    BY <1>1, <2>1, <2>2 DEF IInv, HandlesExclusive
  <2>6. QED
    BY <2>4, <2>5 DEF HandlesExclusive
<1>8. ReleaseSucceeds'
  BY <1>2 DEF IInv, ReleaseSucceeds
<1>9. QED
  BY <1>4, <1>6, <1>7, <1>8 DEF IInv

\* A handle given up, by a drop or a conversion.
LEMMA ReleaseKeeps ==
    ASSUME IInv, NEW h \in Holder, handle[h] # None,
           release_buffer(handle[h]),
           handle' = [handle EXCEPT ![h] = None],
           slices' \subseteq Index, UNCHANGED requests
    PROVE  IInv'
<1> DEFINE index == handle[h]
<1>1. index \in in_use_mask
  BY DEF IInv, HandlesExclusive
<1>2. ~Refused(index)
  BY <1>1, ReleaseFits
<1>3. PutBack(index) /\ UNCHANGED refused
  BY <1>2 DEF release_buffer
<1>4. /\ RingIsFreeList' /\ CountIsFree'
      /\ dealloc_idx' \in Index /\ count' \in 0..BUFFER_COUNT
      /\ allocations' \in [Index -> Index]
      /\ in_use_mask' = in_use_mask \ {index}
      /\ UNCHANGED alloc_idx
  BY <1>1, <1>3, PutBackKeepsRing DEF PutBack
<1>5. TypeOK'
  BY <1>3, <1>4 DEF IInv, TypeOK
<1>6. HandlesExclusive'
  <2>1. handle \in [Holder -> Index \cup {None}]
    BY DEF IInv, TypeOK
  <2>2. \A g \in Holder \ {h} : handle'[g] = handle[g] /\ handle[g] # index
    BY <2>1 DEF IInv, HandlesExclusive
  <2>3. {handle'[g] : g \in Holder} \ {None}
            = ({handle[g] : g \in Holder} \ {None}) \ {index}
    BY <2>1, <2>2
  <2>4. in_use_mask' = {handle'[g] : g \in Holder} \ {None}
    BY <1>4, <2>3 DEF IInv, HandlesExclusive
  <2>5. \A f, g \in Holder : handle'[f] # None /\ handle'[f] = handle'[g] => f = g
    BY <2>1 DEF IInv, HandlesExclusive
  <2>6. QED
    BY <2>4, <2>5 DEF HandlesExclusive
<1>7. ReleaseSucceeds'
  BY <1>3 DEF IInv, ReleaseSucceeds
<1>8. QED
  BY <1>4, <1>5, <1>6, <1>7 DEF IInv

LEMMA StepKeeps ==
    ASSUME EnoughBuffers, IInv, [Next]_vars
    PROVE  IInv'
<1>1. ASSUME NEW h \in Holder, poll(h)
      PROVE  IInv'
  BY <1>1, PollKeeps
<1>2. ASSUME NEW h \in Holder, drop(h)
      PROVE  IInv'
  BY <1>2, ReleaseKeeps DEF drop, IInv, TypeOK
<1>3. ASSUME NEW h \in Holder, from(h)
      PROVE  IInv'
  <2>1. slices' \subseteq Index
    BY <1>3 DEF from, IInv, TypeOK
  <2>2. QED
    BY <1>3, <2>1, ReleaseKeeps DEF from
<1>4. CASE UNCHANGED vars
  <2>1. UNCHANGED <<allocator, handle, requests, refused, slices>>
    BY <1>4 DEF vars
  <2>2. TypeOK'
    BY <2>1 DEF IInv, TypeOK, allocator
  <2>3. RingIsFreeList' /\ CountIsFree'
    <3>1. UNCHANGED <<alloc_idx, dealloc_idx, allocations, count, in_use_mask>>
      BY <2>1 DEF allocator
    <3>2. RingIsFreeList /\ CountIsFree
      BY DEF IInv
    <3>3. RingIsFreeList'
      BY <3>1, <3>2 DEF RingIsFreeList, Free
    <3>4. CountIsFree'
      BY <3>1, <3>2 DEF CountIsFree
    <3>5. QED
      BY <3>3, <3>4
  <2>4. HandlesExclusive' /\ ReleaseSucceeds'
    BY <2>1 DEF IInv, HandlesExclusive, ReleaseSucceeds, allocator
  <2>5. QED
    BY <2>2, <2>3, <2>4 DEF IInv
<1>5. QED
  BY <1>1, <1>2, <1>3, <1>4 DEF Next

LEMMA Invariance ==
    ASSUME EnoughBuffers
    PROVE  Spec => []IInv
<1>1. Init => IInv
  BY InitInv
<1>2. IInv /\ [Next]_vars => IInv'
  BY StepKeeps
<1>3. QED
  BY <1>1, <1>2, PTL DEF Spec

\* Every variable of the pool keeps its type: neither position leaves the ring,
\* whose entries stay indices of buffers, and the count stays within the pool:
\* a request never takes one from a count of zero.
THEOREM PoolTyped ==
    ASSUME EnoughBuffers
    PROVE  Spec => []TypeOK
BY Invariance, PTL DEF IInv

\* Ring, positions, count and mask of the allocator tell the same story, for
\* every pool size and any order of requests and releases.
THEOREM PoolAgrees ==
    ASSUME EnoughBuffers
    PROVE  Spec => []RingIsFreeList
BY Invariance, PTL DEF IInv

\* Without the test for an empty pool a buffer still has one holder at a time,
\* because no more handles are asked for than there are buffers.
THEOREM OneHolder ==
    ASSUME EnoughBuffers
    PROVE  Spec => []HandlesExclusive
BY Invariance, PTL DEF IInv

\* None of try_dealloc's three errors ever happens, so that Drop may ignore the
\* result.
THEOREM DropNeverRefused ==
    ASSUME EnoughBuffers
    PROVE  Spec => []ReleaseSucceeds
BY Invariance, PTL DEF IInv

-----------------------------------------------------------------------------
(* The first round.                                                        *)

\* Until every buffer was handed out once, the ring hands them out by number,
\* and what was given back waits behind.
FirstRound ==
    requests <= BUFFER_COUNT =>
        /\ requests < BUFFER_COUNT => alloc_idx = requests
        /\ count + requests >= BUFFER_COUNT
        /\ \A i \in Index : i >= requests => allocations[i] = i
        /\ \A i \in slices : i < requests
        /\ \A h \in Holder : handle[h] # None => handle[h] < requests

LEMMA FirstPoll ==
    ASSUME EnoughBuffers, IInv, FirstRound, FirstRoundDistinct,
           NEW h \in Holder, poll(h)
    PROVE  FirstRound' /\ FirstRoundDistinct'
<1> SUFFICES ASSUME requests' <= BUFFER_COUNT
             PROVE  FirstRound' /\ FirstRoundDistinct'
  BY DEF FirstRound, FirstRoundDistinct
<1>1. PICK index \in Index : /\ try_alloc(index)
                             /\ handle' = [handle EXCEPT ![h] = index]
  BY DEF poll
<1>2. /\ handle[h] = None /\ slices' = slices
      /\ requests' = IF requests <= BUFFER_COUNT THEN requests + 1 ELSE requests
  BY DEF poll
<1>3. count \in 1..BUFFER_COUNT
  BY <1>2, RequestFindsOne DEF IInv
<1>4. /\ index = allocations[alloc_idx]
      /\ alloc_idx' = (alloc_idx + 1) % BUFFER_COUNT
      /\ count' = (count + 255) % 256
      /\ UNCHANGED allocations
  BY <1>1 DEF try_alloc
<1>5. /\ requests \in 0..(BUFFER_COUNT - 1) /\ requests' = requests + 1
      /\ requests \in Index
  BY <1>2, PoolAssumption DEF IInv, TypeOK, Index
<1>6. count' = count - 1
  <2>1. count \in 1..8
    BY <1>3, PoolAssumption
  <2>2. QED
    BY <1>4, <2>1
<1>7. /\ alloc_idx = requests /\ count + requests >= BUFFER_COUNT
      /\ \A i \in Index : i >= requests => allocations[i] = i
      /\ \A i \in slices : i < requests
      /\ \A g \in Holder : handle[g] # None => handle[g] < requests
  BY <1>5, PoolAssumption DEF FirstRound
<1>8. index = requests
  BY <1>4, <1>5, <1>7
<1>9. alloc_idx' = Place(requests, 1)
  <2>1. 1 \in 0..BUFFER_COUNT
    BY PoolAssumption
  <2>2. QED
    BY <1>4, <1>5, <1>7, <2>1, Modulo
<1>10. /\ handle \in [Holder -> Index \cup {None}] /\ slices \subseteq Index
       /\ index \notin slices
  BY <1>5, <1>7, <1>8 DEF IInv, TypeOK, Index
<1>11. FirstRound'
  <2>1. requests' < BUFFER_COUNT => alloc_idx' = requests'
    BY <1>5, <1>9, PoolAssumption DEF Place
  <2>2. count' + requests' >= BUFFER_COUNT
    BY <1>3, <1>5, <1>6, <1>7, PoolAssumption
  <2>3. \A i \in Index : i >= requests' => allocations'[i] = i
    BY <1>4, <1>5, <1>7 DEF Index
  <2>4. \A i \in slices' : i < requests'
    BY <1>2, <1>5, <1>7, <1>10 DEF Index
  <2>5. ASSUME NEW g \in Holder, handle'[g] # None
        PROVE  handle'[g] < requests'
    <3>1. CASE g = h
      BY <1>1, <1>5, <1>8, <1>10, <3>1
    <3>2. CASE g # h
      <4>1. handle'[g] = handle[g] /\ handle[g] \in Index
        BY <1>1, <1>10, <2>5, <3>2
      <4>2. handle[g] < requests
        BY <1>7, <2>5, <4>1
      <4>3. QED
        BY <1>5, <4>1, <4>2 DEF Index
    <3>3. QED
      BY <3>1, <3>2
  <2>6. QED
    BY <2>1, <2>2, <2>3, <2>4, <2>5 DEF FirstRound
<1>12. FirstRoundDistinct'
  <2>1. \A g \in Holder : handle[g] \notin slices
    BY <1>5, PoolAssumption DEF FirstRoundDistinct
  <2>2. \A g \in Holder : handle'[g] \notin slices'
    BY <1>1, <1>2, <1>10, <2>1
  <2>3. QED
    BY <2>2 DEF FirstRoundDistinct
<1>13. QED
  BY <1>11, <1>12

LEMMA FirstRelease ==
    ASSUME IInv, FirstRound, FirstRoundDistinct,
           NEW h \in Holder, handle[h] # None,
           release_buffer(handle[h]),
           handle' = [handle EXCEPT ![h] = None],
           slices' \subseteq slices \cup {handle[h]}, UNCHANGED requests
    PROVE  FirstRound' /\ FirstRoundDistinct'
<1> SUFFICES ASSUME requests' <= BUFFER_COUNT
             PROVE  FirstRound' /\ FirstRoundDistinct'
  BY DEF FirstRound, FirstRoundDistinct
<1> DEFINE index == handle[h]
<1>1. index \in in_use_mask
  BY DEF IInv, HandlesExclusive
<1>2. ~Refused(index) /\ count \in 0..(BUFFER_COUNT - 1)
  BY <1>1, ReleaseFits
<1>3. /\ allocations' = [allocations EXCEPT ![dealloc_idx] = index]
      /\ count' = (count + 1) % 256
      /\ UNCHANGED alloc_idx
  BY <1>2 DEF release_buffer, PutBack
<1>4. count' = count + 1
  <2>1. count \in 0..7
    BY <1>2, PoolAssumption
  <2>2. QED
    BY <1>3, <2>1
<1>5. /\ requests \in 0..BUFFER_COUNT
      /\ handle \in [Holder -> Index \cup {None}] /\ slices \subseteq Index
      /\ alloc_idx \in Index /\ allocations \in [Index -> Index]
  BY PoolAssumption DEF IInv, TypeOK
<1>6. /\ requests < BUFFER_COUNT => alloc_idx = requests
      /\ count + requests >= BUFFER_COUNT
      /\ \A i \in Index : i >= requests => allocations[i] = i
      /\ \A i \in slices : i < requests
      /\ \A g \in Holder : handle[g] # None => handle[g] < requests
  BY DEF FirstRound
<1>7. dealloc_idx = Place(alloc_idx, count)
  BY RingFacts
<1>8. \A i \in Index : i >= requests => i # dealloc_idx
  BY <1>2, <1>5, <1>6, <1>7, PoolAssumption DEF Place, Index
<1>9. FirstRound'
  <2>1. count' + requests' >= BUFFER_COUNT
    BY <1>2, <1>4, <1>5, <1>6, PoolAssumption
  <2>2. \A i \in Index : i >= requests' => allocations'[i] = i
    BY <1>3, <1>5, <1>6, <1>8
  <2>3. \A i \in slices' : i < requests'
    BY <1>6
  <2>4. \A g \in Holder : handle'[g] # None => handle'[g] < requests'
    BY <1>5, <1>6
  <2>5. requests' < BUFFER_COUNT => alloc_idx' = requests'
    BY <1>3, <1>6
  <2>6. QED
    BY <2>1, <2>2, <2>3, <2>4, <2>5 DEF FirstRound
<1>10. FirstRoundDistinct'
  <2>1. \A g \in Holder : handle[g] \notin slices
    BY DEF FirstRoundDistinct
  <2>2. ASSUME NEW g \in Holder
        PROVE  handle'[g] \notin slices'
    <3>1. CASE g = h
      BY <1>5, <3>1, NoneAssumption
    <3>2. CASE g # h
      <4>1. handle'[g] = handle[g] /\ handle[g] # index
        BY <1>5, <3>2 DEF IInv, HandlesExclusive
      <4>2. QED
        BY <2>1, <4>1
    <3>3. QED
      BY <3>1, <3>2
  <2>3. QED
    BY <2>2 DEF FirstRoundDistinct
<1>11. QED
  BY <1>9, <1>10

\* As many requests as there are buffers never meet a slice whose handle is
\* gone: nothing given back comes out again before every other buffer was.
THEOREM FirstRoundApart ==
    ASSUME EnoughBuffers
    PROVE  Spec => []FirstRoundDistinct
<1> DEFINE All == IInv /\ FirstRound /\ FirstRoundDistinct
<1>1. Init => All
  <2>1. Init => IInv
    BY InitInv
  <2>2. Init => FirstRound
    BY PoolAssumption DEF Init, FirstRound, Index
  <2>3. Init => FirstRoundDistinct
    BY DEF Init, FirstRoundDistinct
  <2>4. QED
    BY <2>1, <2>2, <2>3
<1>2. All /\ [Next]_vars => All'
  <2> SUFFICES ASSUME All, [Next]_vars
               PROVE  All'
    OBVIOUS
  <2>0. IInv'
    BY StepKeeps
  <2>1. ASSUME NEW h \in Holder, poll(h)
        PROVE  FirstRound' /\ FirstRoundDistinct'
    BY <2>1, FirstPoll
  <2>2. ASSUME NEW h \in Holder, drop(h)
        PROVE  FirstRound' /\ FirstRoundDistinct'
    BY <2>2, FirstRelease DEF drop
  <2>3. ASSUME NEW h \in Holder, from(h)
        PROVE  FirstRound' /\ FirstRoundDistinct'
    BY <2>3, FirstRelease DEF from
  <2>4. CASE UNCHANGED vars
    <3>1. UNCHANGED <<alloc_idx, count, allocations, handle, requests, slices>>
      BY <2>4 DEF vars, allocator
    <3>2. FirstRound'
      BY <3>1 DEF FirstRound
    <3>3. FirstRoundDistinct'
      <4>1. requests <= BUFFER_COUNT => \A h \in Holder : handle[h] \notin slices
        BY DEF FirstRoundDistinct
      <4>2. requests <= BUFFER_COUNT => \A h \in Holder : handle[h] \notin slices'
        BY <3>1, <4>1
      <4>3. requests' = requests /\ handle' = handle
        BY <3>1
      <4>4. QED
        BY <4>2, <4>3 DEF FirstRoundDistinct
    <3>4. QED
      BY <2>0, <3>2, <3>3
  <2>5. QED
    BY <2>0, <2>1, <2>2, <2>3, <2>4 DEF Next
<1>3. All => FirstRoundDistinct
  OBVIOUS
<1> HIDE DEF All
<1>4. QED
  BY <1>1, <1>2, <1>3, PTL DEF Spec
=============================================================================
