-------------------------- MODULE MemoryPoolProofs --------------------------
(***************************************************************************)
(* Proofs about the slot allocator, for every number of slots: the type    *)
(* invariant and the invariants of begin(), of the hint and of the counts, *)
(* that memory outside the pool is taken only when the pool is full, and   *)
(* that the allocator implements ObjectStore.                              *)
(***************************************************************************)
EXTENDS MemoryPool, FiniteSetTheorems, WellFoundedInduction, TLAPS

(* Every set of naturals that is not empty has a least element: the order  *)
(* of the naturals is well-founded.                                        *)
Below == OpToRel(<, Nat)

(* The order that operator < gives the naturals has no infinite descent.   *)
LEMMA BelowIsWellFounded == IsWellFoundedOn(Below, Nat)
  BY NatLessThanWellFounded, Zenon DEF Below

(* The relation Below is the order of the naturals.                        *)
LEMMA BelowIsLess == \A x, y \in Nat : <<y, x>> \in Below <=> y < x
  BY DEF Below, OpToRel

(* A set of naturals that is not empty has a least element.                *)
LEMMA LeastExists ==
  ASSUME NEW T \in SUBSET Nat, T # {}
  PROVE  \E x \in T : \A y \in T : x <= y
<1>1. \E x \in T : \A y \in T : ~ (<<y, x>> \in Below)
  BY BelowIsWellFounded, WFMin, Zenon
<1>2. PICK x \in T : \A y \in T : ~ (<<y, x>> \in Below)
  BY <1>1
<1>3. ASSUME NEW y \in T
      PROVE  x <= y
  <2>1. ~ (y < x)
    BY <1>2, BelowIsLess
  <2> QED BY <2>1
<1> QED BY <1>3, Zenon

(* The searches for an allocated and for a free slot find what they look   *)
(* for, or end at the end of the pool.                                     *)
LEMMA FirstAllocatedFinds ==
  ASSUME NEW alloc \in [Slot -> BOOLEAN], NEW s \in 0 .. NumSlots
  PROVE  /\ FirstAllocated(alloc, s) \in s .. NumSlots
         /\ FirstAllocated(alloc, s) = NumSlots \/ alloc[FirstAllocated(alloc, s)]
         /\ \A u \in s .. FirstAllocated(alloc, s) - 1 : ~ alloc[u]
<1> DEFINE T == {t \in s .. NumSlots : t = NumSlots \/ alloc[t]}
<1>1. T \in SUBSET Nat /\ NumSlots \in T
  BY PoolAssumption
<1>2. PICK x \in T : \A y \in T : x <= y
  BY <1>1, LeastExists, Zenon
<1>3. \A u \in s .. x - 1 : ~ alloc[u]
  BY <1>2, PoolAssumption DEF Slot
<1>4. \E t \in s .. NumSlots :
         /\ t = NumSlots \/ alloc[t]
         /\ \A u \in s .. t - 1 : ~ alloc[u]
  BY <1>2, <1>3
<1> QED
  BY <1>4 DEF FirstAllocated

LEMMA FirstFreeFinds ==
  ASSUME NEW alloc \in [Slot -> BOOLEAN], NEW s \in 0 .. NumSlots
  PROVE  /\ FirstFree(alloc, s) \in s .. NumSlots
         /\ FirstFree(alloc, s) = NumSlots \/ ~ alloc[FirstFree(alloc, s)]
         /\ \A u \in s .. FirstFree(alloc, s) - 1 : alloc[u]
<1> DEFINE T == {t \in s .. NumSlots : t = NumSlots \/ ~ alloc[t]}
<1>1. T \in SUBSET Nat /\ NumSlots \in T
  BY PoolAssumption
<1>2. PICK x \in T : \A y \in T : x <= y
  BY <1>1, LeastExists, Zenon
<1>3. \A u \in s .. x - 1 : alloc[u]
  BY <1>2, PoolAssumption DEF Slot
<1>4. \E t \in s .. NumSlots :
         /\ t = NumSlots \/ ~ alloc[t]
         /\ \A u \in s .. t - 1 : alloc[u]
  BY <1>2, <1>3
<1> QED
  BY <1>4 DEF FirstFree

-----------------------------------------------------------------------------

(* No address is in m_ExtraMemory twice. *)
ExtraIsInjective ==
  \A i, j \in 1 .. Len(extraMemory) : extraMemory[i] = extraMemory[j] => i = j

(* m_NumAllocatedSlots is the number of allocated slots. *)
SlotsAreCounted == numAllocatedSlots = Cardinality(AllocatedSlots)

(* Everything is counted: the part of CountsAreExact that a step can break.*)
ObjectsAreCounted ==
  /\ IsFiniteSet(Live)
  /\ Size = Cardinality(Live)

(* The inductive invariant. *)
Inv ==
  /\ TypeOK
  /\ BeginIsFirst
  /\ HintIsSound
  /\ ExtraIsInjective
  /\ SlotsAreCounted
  /\ ObjectsAreCounted

LEMMA SlotsAreFinite == IsFiniteSet(Slot) /\ Cardinality(Slot) = NumSlots
  BY FS_Interval, PoolAssumption DEF Slot

LEMMA InitInv == Init => Inv
<1> SUFFICES ASSUME Init PROVE Inv
  OBVIOUS
<1>1. AllocatedSlots = {} /\ Live = {}
  BY DEF Init, AllocatedSlots, Live, Extra
<1>2. TypeOK
  BY PoolAssumption DEF Init, TypeOK
<1>3. BeginIsFirst /\ HintIsSound
  BY <1>1, PoolAssumption DEF Init, BeginIsFirst, HintIsSound, Slot
<1>4. ExtraIsInjective
  BY DEF Init, ExtraIsInjective
<1>5. SlotsAreCounted /\ ObjectsAreCounted
  BY <1>1, FS_EmptySet DEF Init, SlotsAreCounted, ObjectsAreCounted, Size
<1> QED
  BY <1>2, <1>3, <1>4, <1>5 DEF Inv

(* What Allocate does to the objects in use, inside the pool ...           *)
LEMMA AllocateInPoolAdds ==
  ASSUME Inv, AllocateInPool
  PROVE  /\ AllocSlot \in Slot
         /\ ~ slotIsAllocated[AllocSlot]
         /\ AllocatedSlots' = AllocatedSlots \cup {AllocSlot}
         /\ Live' = Live \cup {AllocSlot}
         /\ AllocSlot \notin Live
         /\ \A u \in currentAllocSlot .. AllocSlot - 1 : slotIsAllocated[u]
<1> USE PoolAssumption
<1>1. /\ AllocSlot \in currentAllocSlot .. NumSlots
      /\ AllocSlot = NumSlots \/ ~ slotIsAllocated[AllocSlot]
      /\ \A u \in currentAllocSlot .. AllocSlot - 1 : slotIsAllocated[u]
  BY FirstFreeFinds DEF Inv, TypeOK, AllocateInPool, AllocSlot
<1>2. AllocSlot \in Slot /\ ~ slotIsAllocated[AllocSlot]
  BY <1>1 DEF Inv, TypeOK, AllocateInPool, Slot
<1> HIDE DEF AllocSlot
<1>3. AllocatedSlots' = AllocatedSlots \cup {AllocSlot}
  BY <1>2 DEF AllocateInPool, AllocatedSlots, Inv, TypeOK
<1>4. Extra' = Extra
  BY DEF AllocateInPool, Extra
<1>5. Extra \in SUBSET Outside
  BY DEF Extra, Inv, TypeOK
<1>6. AllocSlot \notin Live
  BY <1>2, <1>5 DEF Live, AllocatedSlots, Slot
<1> QED
  BY <1>1, <1>2, <1>3, <1>4, <1>6 DEF Live

(* ... and outside.                                                        *)
LEMMA AllocateOutsideAdds ==
  ASSUME Inv, NEW p \in Outside \ Extra, extraMemory' = Append(extraMemory, p),
         UNCHANGED slotIsAllocated
  PROVE  /\ AllocatedSlots' = AllocatedSlots
         /\ Live' = Live \cup {p}
         /\ p \notin Live
         /\ extraMemory' \in Seq(Outside)
         /\ Len(extraMemory') = Len(extraMemory) + 1
         /\ ExtraIsInjective'
<1> USE PoolAssumption
<1>1. extraMemory \in Seq(Outside)
  BY DEF Inv, TypeOK
<1>2. /\ extraMemory' \in Seq(Outside)
      /\ Len(extraMemory') = Len(extraMemory) + 1
      /\ \A i \in 1 .. Len(extraMemory) : extraMemory'[i] = extraMemory[i]
      /\ extraMemory'[Len(extraMemory) + 1] = p
  BY <1>1
<1>3. Extra' = Extra \cup {p}
  BY <1>1, <1>2 DEF Extra
<1>4. AllocatedSlots' = AllocatedSlots
  BY DEF AllocatedSlots
<1>5. p \notin AllocatedSlots
  BY DEF AllocatedSlots, Slot
<1>6. ExtraIsInjective'
  BY <1>1, <1>2 DEF ExtraIsInjective, Inv, Extra
<1> QED
  BY <1>2, <1>3, <1>4, <1>5, <1>6 DEF Live

(* What Free does to them, inside the pool ...                             *)
LEMMA FreeInPoolRemoves ==
  ASSUME Inv, NEW p, p \in Live, FreeInPool(p)
  PROVE  /\ p \in Slot
         /\ slotIsAllocated[p]
         /\ AllocatedSlots' = AllocatedSlots \ {p}
         /\ Live' = Live \ {p}
<1> USE PoolAssumption
<1>1. Extra \in SUBSET Outside
  BY DEF Extra, Inv, TypeOK
<1>2. p \in Slot /\ slotIsAllocated[p]
  <2>1. CASE extraMemory = <<>>
    BY <2>1 DEF Live, Extra, AllocatedSlots
  <2>2. CASE extraMemory # <<>>
    BY <2>2, <1>1 DEF Live, AllocatedSlots, FreeInPool, IsAllocatedInPool, Slot
  <2> QED BY <2>1, <2>2
<1>3. AllocatedSlots' = AllocatedSlots \ {p}
  BY <1>2 DEF FreeInPool, AllocatedSlots, Inv, TypeOK
<1>4. Extra' = Extra
  BY DEF FreeInPool, Extra
<1>5. p \notin Extra
  BY <1>1, <1>2 DEF Slot
<1> QED
  BY <1>2, <1>3, <1>4, <1>5 DEF Live

(* ... and outside.                                                        *)
LEMMA FreeOutsideRemoves ==
  ASSUME Inv, NEW i \in 1 .. Len(extraMemory), extraMemory' = Erased(i),
         UNCHANGED slotIsAllocated
  PROVE  /\ AllocatedSlots' = AllocatedSlots
         /\ Live' = Live \ {extraMemory[i]}
         /\ extraMemory' \in Seq(Outside)
         /\ Len(extraMemory') = Len(extraMemory) - 1
         /\ ExtraIsInjective'
<1> USE PoolAssumption
<1>1. extraMemory \in Seq(Outside) /\ Len(extraMemory) \in Nat
  BY DEF Inv, TypeOK
<1> DEFINE n == Len(extraMemory) - 1
<1>2. n \in Nat
  BY <1>1
<1>3. extraMemory' = [j \in 1 .. n |-> IF j < i THEN extraMemory[j]
                                                ELSE extraMemory[j + 1]]
  BY DEF Erased
<1>4. \A j \in 1 .. n : (IF j < i THEN extraMemory[j] ELSE extraMemory[j + 1]) \in Outside
  BY <1>1
<1>5. extraMemory' \in [1 .. n -> Outside]
  BY <1>3, <1>4
<1>6. extraMemory' \in Seq(Outside) /\ Len(extraMemory') = n
  <2> HIDE DEF n
  <2> QED BY <1>2, <1>5
<1>7. \A j \in 1 .. n : extraMemory'[j] = IF j < i THEN extraMemory[j]
                                                   ELSE extraMemory[j + 1]
  BY <1>3
<1>8. ExtraIsInjective'
  BY <1>1, <1>6, <1>7 DEF ExtraIsInjective, Inv
<1>9. Extra' = Extra \ {extraMemory[i]}
  <2>1. ASSUME NEW a \in Extra'
        PROVE  a \in Extra \ {extraMemory[i]}
    <3>1. PICK j \in 1 .. n : a = extraMemory'[j]
      BY <1>6 DEF Extra
    <3> QED BY <3>1, <1>1, <1>7 DEF Extra, Inv, ExtraIsInjective
  <2>2. ASSUME NEW a \in Extra \ {extraMemory[i]}
        PROVE  a \in Extra'
    <3>1. PICK j \in 1 .. Len(extraMemory) : a = extraMemory[j]
      BY DEF Extra
    <3>2. CASE j < i
      BY <3>1, <3>2, <1>1, <1>6, <1>7 DEF Extra
    <3>3. CASE j > i
      <4>1. j - 1 \in 1 .. n /\ extraMemory'[j - 1] = a
        BY <3>1, <3>3, <1>1, <1>7
      <4> QED BY <4>1, <1>6 DEF Extra
    <3>4. j # i
      BY <3>1
    <3> QED BY <3>2, <3>3, <3>4, <1>1
  <2> QED BY <2>1, <2>2
<1>10. AllocatedSlots' = AllocatedSlots
  BY DEF AllocatedSlots
<1>11. extraMemory[i] \notin AllocatedSlots
  BY <1>1 DEF AllocatedSlots, Slot
<1> QED
  BY <1>6, <1>8, <1>9, <1>10, <1>11 DEF Live

-----------------------------------------------------------------------------

(* The part of the invariant that mentions the counts follows from what a  *)
(* step does to the objects in use.                                        *)
LEMMA CountsAfterAdding ==
  ASSUME ObjectsAreCounted, NEW p, p \notin Live,
         Live' = Live \cup {p}, Size' = Size + 1
  PROVE  ObjectsAreCounted'
  BY FS_AddElement DEF ObjectsAreCounted

LEMMA CountsAfterRemoving ==
  ASSUME ObjectsAreCounted, NEW p, p \in Live,
         Live' = Live \ {p}, Size' = Size - 1
  PROVE  ObjectsAreCounted'
  BY FS_RemoveElement DEF ObjectsAreCounted

LEMMA AllocateInPoolPreserves ==
  ASSUME Inv, AllocateInPool
  PROVE  Inv'
<1> USE PoolAssumption
<1> DEFINE s == AllocSlot
<1>1. /\ s \in Slot
      /\ ~ slotIsAllocated[s]
      /\ AllocatedSlots' = AllocatedSlots \cup {s}
      /\ Live' = Live \cup {s}
      /\ s \notin Live
      /\ \A u \in currentAllocSlot .. s - 1 : slotIsAllocated[u]
  BY AllocateInPoolAdds, Zenon
<1>2. /\ lowestAllocatedSlot' = Smaller(lowestAllocatedSlot, s)
      /\ slotIsAllocated' = [slotIsAllocated EXCEPT ![s] = TRUE]
      /\ numAllocatedSlots' = numAllocatedSlots + 1
      /\ currentAllocSlot' = s + 1
      /\ UNCHANGED <<extraMemory, iterator>>
  BY DEF AllocateInPool
<1> HIDE DEF s
<1>3. SlotsAreCounted' /\ numAllocatedSlots' \in 0 .. NumSlots
  <2>1. IsFiniteSet(AllocatedSlots) /\ Cardinality(AllocatedSlots) \in Nat
    BY SlotsAreFinite, FS_Subset, FS_CardinalityType DEF AllocatedSlots
  <2>2. s \notin AllocatedSlots
    BY <1>1 DEF Live
  <2>3. Cardinality(AllocatedSlots') = Cardinality(AllocatedSlots) + 1
    BY <1>1, <2>1, <2>2, FS_AddElement
  <2>4. AllocatedSlots' \in SUBSET Slot
    BY <1>1 DEF AllocatedSlots
  <2>5. Cardinality(AllocatedSlots') <= NumSlots
    BY <2>4, SlotsAreFinite, FS_Subset
  <2> QED
    BY <1>2, <2>1, <2>3, <2>5 DEF SlotsAreCounted, Inv
<1>4. TypeOK'
  BY <1>1, <1>2, <1>3 DEF Inv, TypeOK, Smaller, Slot
<1>5. BeginIsFirst'
  BY <1>1, <1>2 DEF Inv, TypeOK, BeginIsFirst, Smaller, AllocatedSlots, Slot
<1>6. HintIsSound'
  BY <1>1, <1>2 DEF Inv, TypeOK, HintIsSound, Slot, AllocateInPool
<1>7. ExtraIsInjective'
  BY <1>2 DEF Inv, ExtraIsInjective
<1>8. ObjectsAreCounted'
  <2>1. Size' = Size + 1
    BY <1>2 DEF Size, Inv, TypeOK
  <2> QED
    BY <1>1, <2>1, CountsAfterAdding DEF Inv
<1> QED
  BY <1>3, <1>4, <1>5, <1>6, <1>7, <1>8 DEF Inv

LEMMA AllocateOutsidePreserves ==
  ASSUME Inv, AllocateOutside
  PROVE  Inv'
<1> USE PoolAssumption
<1>1. PICK p \in Outside \ Extra : extraMemory' = Append(extraMemory, p)
  BY DEF AllocateOutside
<1>2. UNCHANGED <<slotIsAllocated, lowestAllocatedSlot, numAllocatedSlots, iterator>>
  BY DEF AllocateOutside
<1>3. /\ AllocatedSlots' = AllocatedSlots
      /\ Live' = Live \cup {p}
      /\ p \notin Live
      /\ extraMemory' \in Seq(Outside)
      /\ Len(extraMemory') = Len(extraMemory) + 1
      /\ ExtraIsInjective'
  BY <1>1, <1>2, AllocateOutsideAdds
<1>4. /\ currentAllocSlot' \in 0 .. NumSlots
      /\ ~ DisableMemoryPool => \A u \in Slot : u < currentAllocSlot' => slotIsAllocated[u]
  <2>1. CASE DisableMemoryPool
    BY <2>1 DEF AllocateOutside, AllocSlot, Inv, TypeOK
  <2>2. CASE ~ DisableMemoryPool
    <3>1. /\ currentAllocSlot' = FirstFree(slotIsAllocated, currentAllocSlot)
          /\ currentAllocSlot' \in currentAllocSlot .. NumSlots
          /\ \A u \in currentAllocSlot .. currentAllocSlot' - 1 : slotIsAllocated[u]
      BY <2>2, FirstFreeFinds DEF AllocateOutside, AllocSlot, Inv, TypeOK
    <3> QED
      BY <2>2, <3>1 DEF Inv, TypeOK, HintIsSound, Slot
  <2> QED BY <2>1, <2>2
<1>5. TypeOK'
  BY <1>2, <1>3, <1>4 DEF Inv, TypeOK
<1>6. BeginIsFirst' /\ HintIsSound'
  BY <1>2, <1>3, <1>4 DEF Inv, BeginIsFirst, HintIsSound
<1>7. SlotsAreCounted'
  BY <1>2, <1>3 DEF Inv, SlotsAreCounted
<1>8. ObjectsAreCounted'
  <2>1. Size' = Size + 1
    BY <1>2, <1>3 DEF Size, Inv, TypeOK
  <2> QED
    BY <1>3, <2>1, CountsAfterAdding DEF Inv
<1> QED
  BY <1>3, <1>5, <1>6, <1>7, <1>8 DEF Inv

(* The histories of a loop keep their types. *)
LEMMA PerishIsTyped ==
  ASSUME iterator \in Iteration \cup {NoIterator}, NEW p, Perish(p)
  PROVE  iterator' \in Iteration \cup {NoIterator}
  BY DEF Perish, Iteration

LEMMA FreeInPoolPreserves ==
  ASSUME Inv, NEW p, p \in Live, FreeInPool(p)
  PROVE  Inv'
<1> USE PoolAssumption
<1>1. /\ p \in Slot
      /\ slotIsAllocated[p]
      /\ AllocatedSlots' = AllocatedSlots \ {p}
      /\ Live' = Live \ {p}
  BY FreeInPoolRemoves
<1>2. /\ numAllocatedSlots' = numAllocatedSlots - 1
      /\ slotIsAllocated' = [slotIsAllocated EXCEPT ![p] = FALSE]
      /\ currentAllocSlot' = Smaller(p, currentAllocSlot)
      /\ lowestAllocatedSlot' = FirstAllocated(slotIsAllocated', lowestAllocatedSlot)
      /\ Perish(p)
      /\ UNCHANGED extraMemory
  BY DEF FreeInPool
<1>3. slotIsAllocated' \in [Slot -> BOOLEAN]
  BY <1>1, <1>2 DEF Inv, TypeOK
<1>4. /\ lowestAllocatedSlot' \in lowestAllocatedSlot .. NumSlots
      /\ lowestAllocatedSlot' = NumSlots \/ slotIsAllocated'[lowestAllocatedSlot']
      /\ \A u \in lowestAllocatedSlot .. lowestAllocatedSlot' - 1 : ~ slotIsAllocated'[u]
  BY <1>2, <1>3, FirstAllocatedFinds DEF Inv, TypeOK
<1>5. SlotsAreCounted' /\ numAllocatedSlots' \in 0 .. NumSlots
  <2>1. IsFiniteSet(AllocatedSlots) /\ IsFiniteSet(AllocatedSlots')
    BY <1>1, SlotsAreFinite, FS_Subset, FS_RemoveElement DEF AllocatedSlots
  <2>2. Cardinality(AllocatedSlots') = Cardinality(AllocatedSlots) - 1
    BY <1>1, <2>1, FS_RemoveElement DEF AllocatedSlots
  <2>3. Cardinality(AllocatedSlots') \in Nat
    BY <2>1, FS_CardinalityType
  <2> QED
    BY <1>2, <2>2, <2>3 DEF SlotsAreCounted, Inv, TypeOK
<1>6. TypeOK'
  <2>1. iterator' \in Iteration \cup {NoIterator}
    BY <1>2, PerishIsTyped DEF Inv, TypeOK
  <2> QED
    BY <1>1, <1>2, <1>3, <1>4, <1>5, <2>1 DEF Inv, TypeOK, Smaller, Slot
<1>7. BeginIsFirst'
  <2>1. ASSUME NEW s \in AllocatedSlots'
        PROVE  lowestAllocatedSlot' <= s
    <3>1. s \in AllocatedSlots /\ s \in Slot /\ slotIsAllocated'[s]
      BY <1>1 DEF AllocatedSlots
    <3>2. lowestAllocatedSlot <= s
      BY <3>1 DEF Inv, BeginIsFirst
    <3>3. s < lowestAllocatedSlot' => s \in lowestAllocatedSlot .. lowestAllocatedSlot' - 1
      BY <3>1, <3>2, <1>4 DEF Inv, TypeOK, Slot
    <3>4. ~ (s < lowestAllocatedSlot')
      BY <3>1, <3>3, <1>4, Zenon
    <3> QED
      BY <3>1, <3>4, <1>4 DEF Inv, TypeOK, Slot
  <2> QED
    BY <2>1, <1>4 DEF BeginIsFirst, Inv, TypeOK
<1>8. HintIsSound'
  BY <1>1, <1>2 DEF Inv, TypeOK, HintIsSound, Smaller, Slot
<1>9. ExtraIsInjective'
  BY <1>2 DEF Inv, ExtraIsInjective
<1>10. ObjectsAreCounted'
  <2>1. Size' = Size - 1
    BY <1>2 DEF Size, Inv, TypeOK
  <2> QED
    BY <1>1, <2>1, CountsAfterRemoving DEF Inv
<1> QED
  BY <1>5, <1>6, <1>7, <1>8, <1>9, <1>10 DEF Inv

LEMMA FreeOutsidePreserves ==
  ASSUME Inv, NEW p, p \in Live, FreeOutside(p)
  PROVE  Inv'
<1> USE PoolAssumption
<1>1. PICK i \in 1 .. Len(extraMemory) : extraMemory[i] = p /\ extraMemory' = Erased(i)
  BY DEF FreeOutside
<1>2. /\ Perish(p)
      /\ UNCHANGED <<slotIsAllocated, currentAllocSlot, lowestAllocatedSlot,
                     numAllocatedSlots>>
  BY DEF FreeOutside
<1>3. /\ AllocatedSlots' = AllocatedSlots
      /\ Live' = Live \ {p}
      /\ extraMemory' \in Seq(Outside)
      /\ Len(extraMemory') = Len(extraMemory) - 1
      /\ ExtraIsInjective'
  BY <1>1, <1>2, FreeOutsideRemoves
<1>4. TypeOK'
  <2>1. iterator' \in Iteration \cup {NoIterator}
    BY <1>2, PerishIsTyped DEF Inv, TypeOK
  <2> QED
    BY <1>2, <1>3, <2>1 DEF Inv, TypeOK
<1>5. BeginIsFirst' /\ HintIsSound' /\ SlotsAreCounted'
  BY <1>2, <1>3 DEF Inv, BeginIsFirst, HintIsSound, SlotsAreCounted
<1>6. ObjectsAreCounted'
  <2>1. Size' = Size - 1
    BY <1>2, <1>3 DEF Size, Inv, TypeOK
  <2> QED
    BY <1>3, <2>1, CountsAfterRemoving DEF Inv
<1> QED
  BY <1>3, <1>4, <1>5, <1>6 DEF Inv

LEMMA IteratePreserves ==
  ASSUME Inv, Iterate
  PROVE  Inv'
<1> USE PoolAssumption
<1>1. UNCHANGED <<slotIsAllocated, extraMemory, currentAllocSlot,
                  lowestAllocatedSlot, numAllocatedSlots>>
  BY DEF Iterate, BeginIteration, Advance, EndIteration
<1>2. \A n \in Nat : Dereferenceable(n) => At(n) \in Address
  BY DEF Inv, TypeOK, Dereferenceable, At, End, Address, Slot
<1>3. ASSUME NEW it \in Iteration
      PROVE  Visit(it) \in Iteration
  BY <1>2 DEF Visit, Iteration
<1>4. iterator' \in Iteration \cup {NoIterator}
  <2>1. CASE BeginIteration
    <3>1. Live \in SUBSET Address
      BY DEF Live, Extra, AllocatedSlots, Inv, TypeOK, Address
    <3>2. [position  |-> lowestAllocatedSlot, last |-> End, visited |-> {},
           survivors |-> Live, intact |-> TRUE] \in Iteration
      BY <3>1 DEF Iteration, End, Inv, TypeOK
    <3> QED
      BY <2>1, <3>2, <1>3 DEF BeginIteration
  <2>2. CASE Advance
    <3>1. iterator \in Iteration
      BY <2>2 DEF Advance, Inv, TypeOK
    <3>2. \A n \in Nat : Successor(n) \in Nat
      <4> TAKE n \in Nat
      <4>1. CASE n + 1 < NumSlots
        BY <4>1, FirstAllocatedFinds DEF Successor, Inv, TypeOK
      <4>2. CASE ~ (n + 1 < NumSlots)
        BY <4>2 DEF Successor
      <4> QED BY <4>1, <4>2
    <3>3. [iterator EXCEPT !.position = Successor(@)] \in Iteration
      BY <3>1, <3>2 DEF Iteration
    <3> QED
      BY <2>2, <3>3, <1>3 DEF Advance
  <2>3. CASE EndIteration
    BY <2>3 DEF EndIteration
  <2> QED
    BY <2>1, <2>2, <2>3 DEF Iterate
<1>5. TypeOK'
  BY <1>1, <1>4 DEF Inv, TypeOK
<1>6. AllocatedSlots' = AllocatedSlots /\ Live' = Live /\ Size' = Size
  BY <1>1 DEF AllocatedSlots, Live, Extra, Size
<1> QED
  BY <1>1, <1>5, <1>6 DEF Inv, BeginIsFirst, HintIsSound, ExtraIsInjective,
                          SlotsAreCounted, ObjectsAreCounted

LEMMA NextPreserves ==
  ASSUME Inv, [Next]_vars
  PROVE  Inv'
<1>1. CASE Allocate
  BY <1>1, AllocateInPoolPreserves, AllocateOutsidePreserves DEF Allocate
<1>2. CASE \E p \in Address : Free(p)
  BY <1>2, FreeInPoolPreserves, FreeOutsidePreserves DEF Free
<1>3. CASE Iterate
  BY <1>3, IteratePreserves
<1>4. CASE UNCHANGED vars
  BY <1>4 DEF vars, Inv, TypeOK, BeginIsFirst, HintIsSound, ExtraIsInjective,
              SlotsAreCounted, ObjectsAreCounted, AllocatedSlots, Live, Extra, Size
<1> QED
  BY <1>1, <1>2, <1>3, <1>4 DEF Next

(* The inductive invariant holds in every state of every pool. *)
THEOREM Invariance == Spec => []Inv
<1>1. Init => Inv
  BY InitInv
<1>2. Inv /\ [Next]_vars => Inv'
  BY NextPreserves
<1> QED
  BY <1>1, <1>2, PTL DEF Spec

(* Every variable has its type, the number of slots in use among them:     *)
(* m_NumAllocatedSlots never passes either end of its range.               *)
THEOREM TypeCorrect == Spec => []TypeOK
<1>1. Inv => TypeOK
  BY DEF Inv
<1> QED
  BY <1>1, Invariance, PTL

(* begin() is the first allocated slot of the pool or the end of it.       *)
THEOREM BeginIsAlwaysFirst == Spec => []BeginIsFirst
<1>1. Inv => BeginIsFirst
  BY DEF Inv
<1> QED
  BY <1>1, Invariance, PTL

(* Allocate's hint has never passed a free slot.                           *)
THEOREM HintIsAlwaysSound == Spec => []HintIsSound
<1>1. Inv => HintIsSound
  BY DEF Inv
<1> QED
  BY <1>1, Invariance, PTL

(* size() and empty() agree with the objects in use.                       *)
THEOREM CountsAreAlwaysExact == Spec => []CountsAreExact
<1>1. Inv => CountsAreExact
  <2> SUFFICES ASSUME Inv PROVE CountsAreExact
    OBVIOUS
  <2>1. Extra = {} <=> extraMemory = <<>>
    <3>1. extraMemory \in Seq(Outside)
      BY DEF Inv, TypeOK
    <3>2. extraMemory # <<>> => 1 \in 1 .. Len(extraMemory)
      BY <3>1
    <3>3. extraMemory = <<>> => Len(extraMemory) = 0
      BY <3>1
    <3> QED
      BY <3>2, <3>3 DEF Extra
  <2>2. AllocatedSlots = {} <=> lowestAllocatedSlot = NumSlots
    BY PoolAssumption DEF AllocatedSlots, Slot, Inv, TypeOK, BeginIsFirst
  <2> QED
    BY <2>1, <2>2 DEF Inv, CountsAreExact, ObjectsAreCounted, Empty, Live
<1> QED
  BY <1>1, Invariance, PTL

(* Memory is taken outside only when no slot of the pool is free: the hint *)
(* is at the end of the pool and has passed no free slot.                  *)
THEOREM OutsideIsOnlyUsedWhenFull == Spec => OutsideOnlyWhenFull
<1>1. Inv /\ [Next]_vars =>
        [Len(extraMemory') > Len(extraMemory) =>
           DisableMemoryPool \/ AllocatedSlots = Slot]_vars
  <2> SUFFICES ASSUME Inv, Next, Len(extraMemory') > Len(extraMemory),
                      ~ DisableMemoryPool
               PROVE  AllocatedSlots = Slot
    BY DEF vars
  <2>1. Len(extraMemory) \in Nat
    BY DEF Inv, TypeOK
  <2>2. AllocateOutside
    <3>1. ASSUME NEW p \in Live, FreeOutside(p)
          PROVE  FALSE
      <4>1. PICK i \in 1 .. Len(extraMemory) : extraMemory' = Erased(i)
        BY <3>1 DEF FreeOutside
      <4>2. Len(extraMemory') = Len(extraMemory) - 1
        BY <4>1, <3>1, FreeOutsideRemoves DEF FreeOutside
      <4> QED
        BY <4>2, <2>1
    <3>2. extraMemory' # extraMemory
      BY <2>1
    <3> QED
      BY <3>1, <3>2 DEF Next, Allocate, AllocateInPool, Free, FreeInPool, Iterate,
                        BeginIteration, Advance, EndIteration
  <2>3. AllocateOutside /\ AllocSlot = NumSlots
    BY <2>2 DEF AllocateOutside
  <2>4. \A u \in currentAllocSlot .. NumSlots - 1 : slotIsAllocated[u]
    BY <2>3, FirstFreeFinds DEF AllocSlot, Inv, TypeOK
  <2> QED
    BY <2>4, PoolAssumption DEF Inv, TypeOK, HintIsSound, AllocatedSlots, Slot
<1> QED
  BY <1>1, Invariance, PTL DEF Spec, OutsideOnlyWhenFull

-----------------------------------------------------------------------------

(* A loop stands between begin() and the end() it was begun with.          *)
LoopIsInRange(it) ==
  /\ it.position <= it.last
  /\ NumSlots <= it.last

(* What a loop's objects in use are, and which of them it has passed: those*)
(* of the pool up to its position, ...                                     *)
PoolIsSeen(it) ==
  /\ it.survivors \subseteq Live
  /\ \A s \in it.survivors \cap Slot : s <= it.position => s \in it.visited

(* ... and, while m_ExtraMemory only grows, those outside, which lie before*)
(* the end() of the loop.                                                  *)
OutsideIsSeen(it) ==
  /\ it.last <= End
  /\ \A p \in it.survivors \ Slot :
       \E k \in 1 .. it.last - NumSlots : extraMemory[k] = p
  /\ \A k \in 1 .. it.last - NumSlots :
       NumSlots + k - 1 <= it.position => extraMemory[k] \in it.visited

(* The inductive invariant of a loop. *)
LoopInv ==
  iterator # NoIterator =>
    /\ LoopIsInRange(iterator)
    /\ PoolIsSeen(iterator)
    /\ iterator.intact => OutsideIsSeen(iterator)

(* At the end of a loop nothing it had to see is missing.                  *)
LEMMA LoopInvSuffices ==
  ASSUME Inv, LoopInv
  PROVE  LoopsAreComplete
<1> USE PoolAssumption
<1> SUFFICES ASSUME iterator # NoIterator, iterator.intact
             PROVE  /\ iterator.last <= End
                    /\ iterator.position = iterator.last =>
                         iterator.survivors \subseteq iterator.visited
  BY DEF LoopsAreComplete
<1>1. LoopIsInRange(iterator) /\ PoolIsSeen(iterator) /\ OutsideIsSeen(iterator)
  BY DEF LoopInv
<1>2. iterator \in Iteration
  BY DEF Inv, TypeOK
<1>3. ASSUME iterator.position = iterator.last, NEW p \in iterator.survivors
      PROVE  p \in iterator.visited
  <2>1. CASE p \in Slot
    BY <2>1, <1>1, <1>2, <1>3 DEF LoopIsInRange, PoolIsSeen, Slot, Iteration
  <2>2. CASE p \notin Slot
    <3>1. PICK k \in 1 .. iterator.last - NumSlots : extraMemory[k] = p
      BY <2>2, <1>1, <1>3 DEF OutsideIsSeen
    <3>2. NumSlots + k - 1 <= iterator.position
      BY <1>2, <1>3 DEF Iteration
    <3> QED BY <3>1, <3>2, <1>1 DEF OutsideIsSeen
  <2> QED BY <2>1, <2>2
<1> QED BY <1>1, <1>3 DEF OutsideIsSeen

(* A step that allocates adds to what is in use and to m_ExtraMemory, and  *)
(* leaves the loop alone.                                                  *)
LEMMA GrowthKeepsLoop ==
  ASSUME Inv, LoopInv, UNCHANGED iterator, Live \subseteq Live',
         Len(extraMemory') \in Nat, Len(extraMemory) <= Len(extraMemory'),
         \A k \in 1 .. Len(extraMemory) : extraMemory'[k] = extraMemory[k]
  PROVE  LoopInv'
<1> USE PoolAssumption
<1> SUFFICES ASSUME iterator # NoIterator
             PROVE  LoopIsInRange(iterator) /\ PoolIsSeen(iterator)'
                    /\ (iterator.intact => OutsideIsSeen(iterator)')
  BY DEF LoopInv, LoopIsInRange
<1>1. LoopIsInRange(iterator) /\ PoolIsSeen(iterator)
  BY DEF LoopInv
<1>2. iterator \in Iteration /\ Len(extraMemory) \in Nat
  BY DEF Inv, TypeOK
<1>3. PoolIsSeen(iterator)'
  BY <1>1 DEF PoolIsSeen
<1>4. ASSUME iterator.intact PROVE OutsideIsSeen(iterator)'
  <2>1. OutsideIsSeen(iterator)
    BY <1>4 DEF LoopInv
  <2>2. iterator.last <= NumSlots + Len(extraMemory) /\ iterator.last \in Nat
    BY <2>1, <1>2 DEF OutsideIsSeen, End, Iteration
  <2>3. \A k \in 1 .. iterator.last - NumSlots : extraMemory'[k] = extraMemory[k]
    BY <2>2, <1>2
  <2>4. iterator.last <= End'
    BY <2>2, <1>2 DEF End
  <2> QED BY <2>1, <2>3, <2>4 DEF OutsideIsSeen
<1> QED BY <1>1, <1>3, <1>4

(* What the loop's body frees is no survivor; a slot it frees changes      *)
(* nothing outside the pool.                                               *)
LEMMA PerishKeepsLoop ==
  ASSUME Inv, LoopInv, NEW p, Perish(p), Live' = Live \ {p},
         p \in Slot => UNCHANGED extraMemory
  PROVE  LoopInv'
<1> USE PoolAssumption
<1>1. CASE iterator = NoIterator
  BY <1>1 DEF Perish, LoopInv
<1>2. CASE iterator # NoIterator
  <2>1. iterator \in Iteration
    BY <1>2 DEF Inv, TypeOK
  <2>2. PICK it \in Iteration : it = iterator
    BY <2>1
  <2>3. iterator' = [it EXCEPT !.survivors = @ \ {p}, !.intact = @ /\ p \in Slot]
    BY <1>2, <2>2 DEF Perish
  <2>4. /\ iterator'.position = it.position /\ iterator'.last = it.last
        /\ iterator'.visited = it.visited
        /\ iterator'.survivors = it.survivors \ {p}
        /\ iterator'.intact => it.intact /\ p \in Slot
    BY <2>3 DEF Iteration
  <2>5. LoopIsInRange(it) /\ PoolIsSeen(it) /\ (it.intact => OutsideIsSeen(it))
    BY <1>2, <2>2 DEF LoopInv
  <2>6. LoopIsInRange(iterator)' /\ PoolIsSeen(iterator)'
    BY <2>4, <2>5 DEF LoopIsInRange, PoolIsSeen
  <2>7. ASSUME iterator'.intact PROVE OutsideIsSeen(iterator)'
    BY <2>4, <2>5, <2>7 DEF OutsideIsSeen, End
  <2> QED BY <2>6, <2>7 DEF LoopInv
<1> QED BY <1>1, <1>2

(* Running the body for the object at the loop's position makes good what  *)
(* moving there left open: what is at that position itself.                *)
LEMMA VisitSees ==
  ASSUME Inv, NEW it \in Iteration, LoopIsInRange(it),
         it.survivors \subseteq Live,
         \A s \in it.survivors \cap Slot : s < it.position => s \in it.visited,
         it.intact =>
           /\ it.last <= End
           /\ \A p \in it.survivors \ Slot :
                \E k \in 1 .. it.last - NumSlots : extraMemory[k] = p
           /\ \A k \in 1 .. it.last - NumSlots :
                NumSlots + k - 1 < it.position => extraMemory[k] \in it.visited
  PROVE  /\ LoopIsInRange(Visit(it)) /\ PoolIsSeen(Visit(it))
         /\ Visit(it).intact => OutsideIsSeen(Visit(it))
<1> USE PoolAssumption
<1> DEFINE v == Visit(it)
<1>1. /\ v.position = it.position /\ v.last = it.last /\ v.intact = it.intact
      /\ v.survivors = it.survivors /\ it.visited \subseteq v.visited
  BY DEF Visit, Iteration
<1>2. it.position < it.last /\ Dereferenceable(it.position) =>
        At(it.position) \in v.visited
  BY DEF Visit, Iteration
<1>3. /\ it.position \in Nat /\ it.last \in Nat /\ Len(extraMemory) \in Nat
      /\ extraMemory \in Seq(Outside)
  BY DEF Iteration, Inv, TypeOK
<1> HIDE DEF v
<1>4. ASSUME NEW s \in it.survivors \cap Slot, s <= it.position
      PROVE  s \in v.visited
  <2>1. CASE s < it.position
    BY <1>1, <2>1
  <2>2. CASE s = it.position
    <3>1. slotIsAllocated[s]
      BY DEF Live, AllocatedSlots, Extra, Slot, Inv, TypeOK
    <3>2. s < NumSlots /\ s < it.last
      BY <1>3 DEF LoopIsInRange, Slot
    <3> QED BY <1>2, <2>2, <3>1, <3>2 DEF Dereferenceable, At
  <2> QED BY <1>3, <1>4, <2>1, <2>2 DEF Slot
<1>5. ASSUME it.intact, NEW k \in 1 .. it.last - NumSlots,
             NumSlots + k - 1 <= it.position
      PROVE  extraMemory[k] \in v.visited
  <2>1. CASE NumSlots + k - 1 < it.position
    BY <1>1, <1>5, <2>1
  <2>2. CASE NumSlots + k - 1 = it.position
    <3>1. it.position < it.last /\ it.position < End /\ ~ (it.position < NumSlots)
          /\ it.position - NumSlots + 1 = k
      BY <1>3, <1>5, <2>2 DEF End
    <3> QED BY <1>2, <3>1 DEF Dereferenceable, At
  <2>3. NumSlots + k - 1 < it.position \/ NumSlots + k - 1 = it.position
    <3>1. k \in 1 .. it.last - NumSlots /\ NumSlots + k - 1 <= it.position
      BY <1>5
    <3>2. \A a, b, c \in Nat : \A j \in 1 .. b - a :
            a + j - 1 <= c => a + j - 1 < c \/ a + j - 1 = c
      OBVIOUS
    <3> QED BY <1>3, <3>1, <3>2, Zenon
  <2> QED BY <2>1, <2>2, <2>3
<1>6. LoopIsInRange(v) /\ PoolIsSeen(v)
  BY <1>1, <1>4 DEF LoopIsInRange, PoolIsSeen
<1>7. v.intact => OutsideIsSeen(v)
  BY <1>1, <1>5 DEF OutsideIsSeen
<1> QED BY <1>6, <1>7 DEF v

(* begin() misses nothing: no allocated slot lies below it.                *)
LEMMA BeginKeepsLoop ==
  ASSUME Inv, BeginIteration
  PROVE  LoopInv'
<1> USE PoolAssumption
<1> DEFINE it == [position  |-> lowestAllocatedSlot, last |-> End,
                  visited   |-> {}, survivors |-> Live, intact |-> TRUE]
<1>1. Len(extraMemory) \in Nat /\ extraMemory \in Seq(Outside)
      /\ lowestAllocatedSlot \in 0 .. NumSlots
  BY DEF Inv, TypeOK
<1>2. Live \in SUBSET Address
  BY DEF Live, Extra, AllocatedSlots, Inv, TypeOK, Address
<1>3. it \in Iteration
  BY <1>1, <1>2 DEF Iteration, End
<1>4. /\ it.position = lowestAllocatedSlot /\ it.last = End
      /\ it.survivors = Live
  OBVIOUS
<1>5. iterator' = Visit(it)
  BY DEF BeginIteration
<1> HIDE DEF it
<1>6. LoopIsInRange(it) /\ it.survivors \subseteq Live /\ it.last <= End
  BY <1>1, <1>4 DEF LoopIsInRange, End
<1>7. ASSUME NEW s \in Live \cap Slot PROVE lowestAllocatedSlot <= s
  <2>1. s \in AllocatedSlots
    BY DEF Live, Extra, Inv, TypeOK, Slot
  <2> QED BY <2>1 DEF Inv, BeginIsFirst
<1>8. \A s \in it.survivors \cap Slot : s < it.position => s \in it.visited
  BY <1>1, <1>4, <1>7 DEF Slot
<1>9. ASSUME NEW p \in it.survivors \ Slot
      PROVE  \E k \in 1 .. it.last - NumSlots : extraMemory[k] = p
  <2>1. p \in Extra
    BY <1>4 DEF Live, AllocatedSlots
  <2>2. it.last - NumSlots = Len(extraMemory)
    BY <1>1, <1>4 DEF End
  <2> QED BY <2>1, <2>2 DEF Extra
<1>10. \A k \in 1 .. it.last - NumSlots :
         NumSlots + k - 1 < it.position => extraMemory[k] \in it.visited
  BY <1>1, <1>4
<1>11. /\ LoopIsInRange(Visit(it)) /\ PoolIsSeen(Visit(it))
       /\ Visit(it).intact => OutsideIsSeen(Visit(it))
  BY <1>3, <1>6, <1>8, <1>9, <1>10, VisitSees
<1>12. UNCHANGED <<slotIsAllocated, extraMemory>>
  BY DEF BeginIteration
<1> QED
  BY <1>5, <1>11, <1>12 DEF LoopInv, LoopIsInRange, PoolIsSeen, OutsideIsSeen,
                            End, Live, AllocatedSlots, Extra

(* operator++ skips no object: the slots between are free.                 *)
LEMMA AdvanceKeepsLoop ==
  ASSUME Inv, LoopInv, Advance
  PROVE  LoopInv'
<1> USE PoolAssumption
<1>1. iterator \in Iteration /\ iterator.position # iterator.last
      /\ iterator # NoIterator
  BY DEF Advance, Inv, TypeOK
<1> DEFINE n == iterator.position
           m == Successor(n)
           it == [iterator EXCEPT !.position = m]
<1>2. /\ n \in Nat /\ iterator.last \in Nat /\ Len(extraMemory) \in Nat
      /\ extraMemory \in Seq(Outside) /\ n < iterator.last /\ NumSlots <= iterator.last
  BY <1>1 DEF Iteration, Inv, TypeOK, LoopInv, LoopIsInRange
<1>3. /\ m \in Nat /\ n < m /\ m <= iterator.last
      /\ m = n + 1 \/ m <= NumSlots
      /\ \A s \in Slot : n < s /\ s < m => ~ slotIsAllocated[s]
  <2>1. CASE n + 1 < NumSlots
    <3>1. /\ m \in n + 1 .. NumSlots
          /\ \A u \in n + 1 .. m - 1 : ~ slotIsAllocated[u]
      BY <2>1, <1>2, FirstAllocatedFinds DEF Successor, Inv, TypeOK
    <3> HIDE DEF n, m
    <3> QED BY <3>1, <1>2 DEF Slot
  <2>2. CASE ~ (n + 1 < NumSlots)
    <3>1. m = n + 1
      BY <2>2 DEF Successor
    <3> HIDE DEF n, m
    <3> QED BY <3>1, <1>2 DEF Slot
  <2> QED BY <2>1, <2>2
<1>4. /\ it \in Iteration
      /\ it.position = m /\ it.last = iterator.last /\ it.visited = iterator.visited
      /\ it.survivors = iterator.survivors /\ it.intact = iterator.intact
  <2>1. m \in Nat
    BY <1>3
  <2> HIDE DEF m
  <2> QED BY <1>1, <2>1 DEF Iteration
<1>5. iterator' = Visit(it)
  BY DEF Advance
<1>6. PoolIsSeen(iterator) /\ (iterator.intact => OutsideIsSeen(iterator))
  BY <1>1 DEF LoopInv
<1>7. ASSUME NEW s \in iterator.survivors \cap Slot, s < m
      PROVE  s \in iterator.visited
  <2>1. slotIsAllocated[s]
    BY <1>6 DEF PoolIsSeen, Live, AllocatedSlots, Extra, Slot, Inv, TypeOK
  <2>2. s <= n
    <3> HIDE DEF n, m
    <3> QED BY <2>1, <1>2, <1>3, <1>7 DEF Slot
  <2> QED BY <2>2, <1>6 DEF PoolIsSeen
<1>8. ASSUME iterator.intact, NEW k \in 1 .. iterator.last - NumSlots,
             NumSlots + k - 1 < m
      PROVE  extraMemory[k] \in iterator.visited
  <2>1. NumSlots + k - 1 <= n
    <3> HIDE DEF n, m
    <3> QED BY <1>2, <1>3, <1>8
  <2> QED BY <2>1, <1>6, <1>8 DEF OutsideIsSeen
<1>9. LoopIsInRange(it)
  <2> HIDE DEF n, m, it
  <2> QED BY <1>2, <1>3, <1>4 DEF LoopIsInRange
<1> HIDE DEF n, m, it
<1>10. /\ it.survivors \subseteq Live
       /\ \A s \in it.survivors \cap Slot : s < it.position => s \in it.visited
  BY <1>4, <1>6, <1>7 DEF PoolIsSeen
<1>11. it.intact =>
         /\ it.last <= End
         /\ \A p \in it.survivors \ Slot :
              \E k \in 1 .. it.last - NumSlots : extraMemory[k] = p
         /\ \A k \in 1 .. it.last - NumSlots :
              NumSlots + k - 1 < it.position => extraMemory[k] \in it.visited
  BY <1>4, <1>6, <1>8 DEF OutsideIsSeen
<1>12. /\ LoopIsInRange(Visit(it)) /\ PoolIsSeen(Visit(it))
       /\ Visit(it).intact => OutsideIsSeen(Visit(it))
  BY <1>4, <1>9, <1>10, <1>11, VisitSees
<1>13. UNCHANGED <<slotIsAllocated, extraMemory>>
  BY DEF Advance
<1> QED
  BY <1>5, <1>12, <1>13 DEF LoopInv, LoopIsInRange, PoolIsSeen, OutsideIsSeen,
                            End, Live, AllocatedSlots, Extra

LEMMA NextKeepsLoop ==
  ASSUME Inv, LoopInv, [Next]_vars
  PROVE  LoopInv'
<1>0. extraMemory \in Seq(Outside) /\ Len(extraMemory) \in Nat
  BY DEF Inv, TypeOK
<1>1. CASE AllocateInPool
  <2>1. Live \subseteq Live'
    BY <1>1, AllocateInPoolAdds
  <2>2. UNCHANGED <<extraMemory, iterator>>
    BY <1>1 DEF AllocateInPool
  <2> QED BY <2>1, <2>2, <1>0, GrowthKeepsLoop
<1>2. CASE AllocateOutside
  <2>1. PICK p \in Outside \ Extra : extraMemory' = Append(extraMemory, p)
    BY <1>2 DEF AllocateOutside
  <2>2. UNCHANGED <<slotIsAllocated, iterator>>
    BY <1>2 DEF AllocateOutside
  <2>3. Live \subseteq Live' /\ Len(extraMemory') = Len(extraMemory) + 1
    BY <2>1, <2>2, AllocateOutsideAdds
  <2>4. \A k \in 1 .. Len(extraMemory) : extraMemory'[k] = extraMemory[k]
    BY <2>1, <1>0
  <2>5. Len(extraMemory') \in Nat /\ Len(extraMemory) <= Len(extraMemory')
    BY <2>3, <1>0
  <2> QED BY <2>2, <2>3, <2>4, <2>5, GrowthKeepsLoop
<1>3. ASSUME NEW p \in Live, FreeInPool(p) PROVE LoopInv'
  <2>1. Perish(p) /\ UNCHANGED extraMemory
    BY <1>3 DEF FreeInPool
  <2> QED BY <1>3, <2>1, FreeInPoolRemoves, PerishKeepsLoop
<1>4. ASSUME NEW p \in Live, FreeOutside(p) PROVE LoopInv'
  <2>1. PICK i \in 1 .. Len(extraMemory) : extraMemory[i] = p /\ extraMemory' = Erased(i)
    BY <1>4 DEF FreeOutside
  <2>2. Perish(p) /\ UNCHANGED slotIsAllocated
    BY <1>4 DEF FreeOutside
  <2>3. Live' = Live \ {p}
    BY <2>1, <2>2, FreeOutsideRemoves
  <2>4. p \notin Slot
    BY <1>0, <2>1, PoolAssumption DEF Slot
  <2> QED BY <2>2, <2>3, <2>4, PerishKeepsLoop
<1>5. CASE BeginIteration
  BY <1>5, BeginKeepsLoop
<1>6. CASE Advance
  BY <1>6, AdvanceKeepsLoop
<1>7. CASE EndIteration
  BY <1>7 DEF EndIteration, LoopInv
<1>8. CASE UNCHANGED vars
  BY <1>8 DEF vars, LoopInv, LoopIsInRange, PoolIsSeen, OutsideIsSeen, End,
              Live, AllocatedSlots, Extra
<1> QED
  BY <1>1, <1>2, <1>3, <1>4, <1>5, <1>6, <1>7, <1>8
     DEF Next, Allocate, Free, Iterate

(* A loop over the pool misses no object that was in use from its begin()  *)
(* to its end, whatever its body allocates or frees in the pool, and it    *)
(* never passes the end() of m_ExtraMemory.                                *)
THEOREM LoopsAreAlwaysComplete == Spec => []LoopsAreComplete
<1>1. Init => LoopInv
  BY DEF Init, LoopInv
<1>2. Inv /\ LoopInv /\ [Next]_vars => LoopInv'
  BY NextKeepsLoop
<1>3. Inv /\ LoopInv => LoopsAreComplete
  BY LoopInvSuffices
<1> QED
  BY <1>1, <1>2, <1>3, Invariance, PTL DEF Spec

-----------------------------------------------------------------------------

(* The allocator implements ObjectStore: no address is handed out twice,   *)
(* and freeing returns just the one, whatever the number of slots.         *)
THEOREM Implementation == Spec => ImplementsStore
<1>1. Init => Store!Init
  BY DEF Init, Store!Init, Live, AllocatedSlots, Extra, Size
<1>2. Inv /\ [Next]_vars => [Store!Next]_Store!vars
  <2> SUFFICES ASSUME Inv, [Next]_vars
               PROVE  [Store!Next]_Store!vars
    OBVIOUS
  <2>1. CASE AllocateInPool
    <3>1. AllocSlot \in Address \ Live /\ Live' = Live \cup {AllocSlot}
      BY <2>1, AllocateInPoolAdds DEF Address
    <3>2. Size' = Size + 1
      BY <2>1 DEF AllocateInPool, Size, Inv, TypeOK
    <3> QED
      BY <3>1, <3>2 DEF Store!Next, Store!Allocate
  <2>2. CASE AllocateOutside
    <3>1. PICK p \in Outside \ Extra : extraMemory' = Append(extraMemory, p)
      BY <2>2 DEF AllocateOutside
    <3>2. p \in Address \ Live /\ Live' = Live \cup {p}
          /\ Len(extraMemory') = Len(extraMemory) + 1
      BY <2>2, <3>1, AllocateOutsideAdds DEF AllocateOutside, Address
    <3>3. Size' = Size + 1
      BY <2>2, <3>2 DEF AllocateOutside, Size, Inv, TypeOK
    <3> QED
      BY <3>2, <3>3 DEF Store!Next, Store!Allocate
  <2>3. ASSUME NEW p \in Live, FreeInPool(p)
        PROVE  Store!Free
    <3>1. Live' = Live \ {p}
      BY <2>3, FreeInPoolRemoves
    <3>2. Size' = Size - 1
      BY <2>3 DEF FreeInPool, Size, Inv, TypeOK
    <3> QED
      BY <3>1, <3>2 DEF Store!Free
  <2>4. ASSUME NEW p \in Live, FreeOutside(p)
        PROVE  Store!Free
    <3>1. PICK i \in 1 .. Len(extraMemory) :
            extraMemory[i] = p /\ extraMemory' = Erased(i)
      BY <2>4 DEF FreeOutside
    <3>2. Live' = Live \ {p} /\ Len(extraMemory') = Len(extraMemory) - 1
      BY <2>4, <3>1, FreeOutsideRemoves DEF FreeOutside
    <3>3. Size' = Size - 1
      BY <2>4, <3>2 DEF FreeOutside, Size, Inv, TypeOK
    <3> QED
      BY <3>2, <3>3 DEF Store!Free
  <2>5. CASE Iterate \/ UNCHANGED vars
    BY <2>5 DEF Iterate, BeginIteration, Advance, EndIteration, vars, Store!vars,
                Live, AllocatedSlots, Extra, Size
  <2> QED
    BY <2>1, <2>2, <2>3, <2>4, <2>5 DEF Next, Allocate, Free, Store!Next
<1> QED
  BY <1>1, <1>2, Invariance, PTL DEF Spec, ImplementsStore, Store!Spec

=============================================================================
