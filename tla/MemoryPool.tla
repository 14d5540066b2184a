----------------------------- MODULE MemoryPool -----------------------------
(***************************************************************************)
(* The slot allocator under every component pool                           *)
(* (include/Engine/Core/MemoryPool.h): a fixed number of slots, a hint to  *)
(* the next free one, the lowest allocated one where iteration begins, and *)
(* memory outside the pool once the slots are used up. Clients allocate    *)
(* and free while another loop iterates over the pool, as the systems do   *)
(* in SystemPipeline::Update (SystemPipeline.h:88).                        *)
(***************************************************************************)
EXTENDS Integers, Sequences, FiniteSets

CONSTANTS
  NumSlots,           (* m_NumSlots                                        *)
  Outside,            (* the addresses malloc may return                   *)
  DisableMemoryPool   (* DisableMemoryPool::Value, read from Config.ini    *)

Slot == 0 .. NumSlots - 1

ASSUME PoolAssumption ==
  /\ NumSlots \in Nat
  /\ Outside \cap Int = {}
  /\ DisableMemoryPool \in BOOLEAN

VARIABLES
  slotIsAllocated,      (* m_SlotIsAllocated                               *)
  extraMemory,          (* m_ExtraMemory                                   *)
  currentAllocSlot,     (* m_CurrentAllocSlot                              *)
  lowestAllocatedSlot,  (* m_LowestAllocatedSlot                           *)
  numAllocatedSlots,    (* m_NumAllocatedSlots                             *)
  iterator              (* the range-for over the pool that is under way   *)

vars == <<slotIsAllocated, extraMemory, currentAllocSlot, lowestAllocatedSlot,
          numAllocatedSlots, iterator>>

AllocatedSlots == {s \in Slot : slotIsAllocated[s]}
Extra == {extraMemory[i] : i \in 1 .. Len(extraMemory)}

(* The objects in use: the address of a slot's object is the slot. *)
Live == AllocatedSlots \cup Extra

(* No loop is iterating. *)
NoIterator == [position |-> -1]

Address == Slot \cup Outside

(* A loop: m_Pos, the end() it was begun with, and three histories: the    *)
(* objects its body was run for, those in use since it began, and whether  *)
(* m_ExtraMemory has lost no element since.                                *)
Iteration ==
  [position : Nat, last : Nat, visited : SUBSET Address,
   survivors : SUBSET Address, intact : BOOLEAN]

TypeOK ==
  /\ slotIsAllocated \in [Slot -> BOOLEAN]
  /\ extraMemory \in Seq(Outside)
  /\ currentAllocSlot \in 0 .. NumSlots
  /\ lowestAllocatedSlot \in 0 .. NumSlots
  /\ numAllocatedSlots \in 0 .. NumSlots
  /\ iterator \in Iteration \cup {NoIterator}

-----------------------------------------------------------------------------

(* The first allocated slot from s on, or the end of the pool. *)
FirstAllocated(alloc, s) ==
  CHOOSE t \in s .. NumSlots :
    /\ t = NumSlots \/ alloc[t]
    /\ \A u \in s .. t - 1 : ~ alloc[u]

(* The first free slot from s on, or the end of the pool. *)
FirstFree(alloc, s) ==
  CHOOSE t \in s .. NumSlots :
    /\ t = NumSlots \/ ~ alloc[t]
    /\ \A u \in s .. t - 1 : alloc[u]

Smaller(a, b) == IF a < b THEN a ELSE b

(* Mutant: Allocate trusts its hint without looking for a free slot. *)
AllocSlotTrusted == currentAllocSlot

(* The search of Allocate does not move the hint if the pool is disabled. *)
AllocSlot ==
  IF DisableMemoryPool THEN currentAllocSlot
                       ELSE FirstFree(slotIsAllocated, currentAllocSlot)

-----------------------------------------------------------------------------

(* Mutant: begin() is not moved down to a slot allocated below it. *)
AllocateInPoolLowestKept ==
  /\ ~ DisableMemoryPool
  /\ AllocSlot < NumSlots
  /\ lowestAllocatedSlot' = IF lowestAllocatedSlot = NumSlots
                              THEN AllocSlot ELSE lowestAllocatedSlot
  /\ slotIsAllocated' = [slotIsAllocated EXCEPT ![AllocSlot] = TRUE]
  /\ numAllocatedSlots' = numAllocatedSlots + 1
  /\ currentAllocSlot' = AllocSlot + 1
  /\ UNCHANGED <<extraMemory, iterator>>

AllocateInPool ==
  /\ ~ DisableMemoryPool
  /\ AllocSlot < NumSlots
  /\ lowestAllocatedSlot' = Smaller(lowestAllocatedSlot, AllocSlot)
  /\ slotIsAllocated' = [slotIsAllocated EXCEPT ![AllocSlot] = TRUE]
  /\ numAllocatedSlots' = numAllocatedSlots + 1
  /\ currentAllocSlot' = AllocSlot + 1
  /\ UNCHANGED <<extraMemory, iterator>>

(* malloc returns an address that is not in use. *)
AllocateOutside ==
  /\ DisableMemoryPool \/ AllocSlot = NumSlots
  /\ currentAllocSlot' = AllocSlot
  /\ \E p \in Outside \ Extra : extraMemory' = Append(extraMemory, p)
  /\ UNCHANGED <<slotIsAllocated, lowestAllocatedSlot, numAllocatedSlots,
                 iterator>>

Allocate == AllocateInPool \/ AllocateOutside

(* IsAllocatedInPool: the range check is made only if there is memory      *)
(* outside the pool.                                                       *)
IsAllocatedInPool(p) == extraMemory # <<>> => p \in Slot

(* The loop's body freed p: it is no survivor any more. *)
Perish(p) ==
  iterator' = IF iterator = NoIterator
                THEN NoIterator
                ELSE [iterator EXCEPT !.survivors = @ \ {p},
                                      !.intact = @ /\ p \in Slot]

(* Mutant: begin() is left at the freed slot. *)
FreeInPoolLowestKept(p) ==
  /\ ~ DisableMemoryPool
  /\ IsAllocatedInPool(p)
  /\ numAllocatedSlots' = numAllocatedSlots - 1
  /\ slotIsAllocated' = [slotIsAllocated EXCEPT ![p] = FALSE]
  /\ currentAllocSlot' = Smaller(p, currentAllocSlot)
  /\ Perish(p)
  /\ UNCHANGED <<extraMemory, lowestAllocatedSlot>>

FreeInPool(p) ==
  /\ ~ DisableMemoryPool
  /\ IsAllocatedInPool(p)
  /\ numAllocatedSlots' = numAllocatedSlots - 1
  /\ slotIsAllocated' = [slotIsAllocated EXCEPT ![p] = FALSE]
  /\ currentAllocSlot' = Smaller(p, currentAllocSlot)
  /\ lowestAllocatedSlot' = FirstAllocated(slotIsAllocated', lowestAllocatedSlot)
  /\ Perish(p)
  /\ UNCHANGED extraMemory

(* extraMemory without its i-th element. *)
Erased(i) ==
  [j \in 1 .. Len(extraMemory) - 1 |->
     IF j < i THEN extraMemory[j] ELSE extraMemory[j + 1]]

FreeOutside(p) ==
  /\ DisableMemoryPool \/ ~ IsAllocatedInPool(p)
  /\ \E i \in 1 .. Len(extraMemory) :
       /\ extraMemory[i] = p
       /\ extraMemory' = Erased(i)
  /\ Perish(p)
  /\ UNCHANGED <<slotIsAllocated, currentAllocSlot, lowestAllocatedSlot,
                 numAllocatedSlots>>

(* Clients free an object they own, once. *)
Free(p) ==
  /\ p \in Live
  /\ FreeInPool(p) \/ FreeOutside(p)

-----------------------------------------------------------------------------

End == NumSlots + Len(extraMemory)

(* The object at position n: m_ExtraMemory is indexed from 0. *)
At(n) == IF n < NumSlots THEN n ELSE extraMemory[n - NumSlots + 1]

(* Position n holds an object in use. *)
Dereferenceable(n) ==
  IF n < NumSlots THEN slotIsAllocated[n] ELSE n < End

(* The loop's body runs for the object at its position. *)
Visit(it) ==
  IF it.position < it.last /\ Dereferenceable(it.position)
    THEN [it EXCEPT !.visited = @ \cup {At(it.position)}]
    ELSE it

BeginIteration ==
  /\ iterator = NoIterator
  /\ iterator' = Visit([position  |-> lowestAllocatedSlot, last |-> End,
                        visited   |-> {}, survivors |-> Live,
                        intact    |-> TRUE])
  /\ UNCHANGED <<slotIsAllocated, extraMemory, currentAllocSlot,
                 lowestAllocatedSlot, numAllocatedSlots>>

(* operator++: to the next allocated slot, then outside the pool. *)
Successor(n) ==
  IF n + 1 < NumSlots THEN FirstAllocated(slotIsAllocated, n + 1) ELSE n + 1

Advance ==
  /\ iterator # NoIterator
  /\ iterator.position # iterator.last
  /\ iterator' = Visit([iterator EXCEPT !.position = Successor(@)])
  /\ UNCHANGED <<slotIsAllocated, extraMemory, currentAllocSlot,
                 lowestAllocatedSlot, numAllocatedSlots>>

EndIteration ==
  /\ iterator # NoIterator
  /\ iterator.position = iterator.last
  /\ iterator' = NoIterator
  /\ UNCHANGED <<slotIsAllocated, extraMemory, currentAllocSlot,
                 lowestAllocatedSlot, numAllocatedSlots>>

-----------------------------------------------------------------------------

(* size() and empty(). *)
Size == numAllocatedSlots + Len(extraMemory)
Empty == lowestAllocatedSlot = NumSlots /\ extraMemory = <<>>

-----------------------------------------------------------------------------

Init ==
  /\ slotIsAllocated = [s \in Slot |-> FALSE]
  /\ extraMemory = <<>>
  /\ currentAllocSlot = 0
  /\ lowestAllocatedSlot = NumSlots
  /\ numAllocatedSlots = 0
  /\ iterator = NoIterator

Iterate == BeginIteration \/ Advance \/ EndIteration

Next ==
  \/ Allocate
  \/ \E p \in Address : Free(p)
  \/ Iterate

Spec == Init /\ [][Next]_vars

-----------------------------------------------------------------------------

(* size() is the number of objects in use ("Returns the total number of    *)
(* allocated elements", MemoryPool.h:176) and empty() is true iff there is *)
(* none (MemoryPool.h:170), after any series of Allocate and Free.         *)
CountsAreExact ==
  /\ Size = Cardinality(Live)
  /\ Empty <=> Live = {}

(* begin() is the first object of the pool, so that no loop misses one     *)
(* (MemoryPool.h:141-144).                                                 *)
BeginIsFirst ==
  /\ \A s \in AllocatedSlots : lowestAllocatedSlot <= s
  /\ lowestAllocatedSlot < NumSlots => slotIsAllocated[lowestAllocatedSlot]

(* The hint of Allocate has passed no free slot.                           *)
HintIsSound ==
  DisableMemoryPool \/ \A s \in Slot : s < currentAllocSlot => slotIsAllocated[s]

(* Memory is taken outside the pool only when the pool is full or          *)
(* disabled ("because the memory ran out", MemoryPool.h:105).              *)
OutsideOnlyWhenFull ==
  [][Len(extraMemory') > Len(extraMemory) =>
       DisableMemoryPool \/ AllocatedSlots = Slot]_vars

(* Whatever is allocated or freed inside the pool by the body of a loop,   *)
(* when it ends it has seen every object in use throughout, provided that  *)
(* no memory outside the pool was freed meanwhile: end() is evaluated once *)
(* (SystemPipeline.h:88).                                                  *)
LoopsAreComplete ==
  iterator # NoIterator /\ iterator.intact =>
    /\ iterator.last <= End
    /\ iterator.position = iterator.last => iterator.survivors \subseteq iterator.visited

(* No address is handed out twice, and freeing returns just the one.       *)
Store == INSTANCE ObjectStore WITH live <- Live, size <- Size

ImplementsStore == Store!Spec

=============================================================================
