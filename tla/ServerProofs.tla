---------------------------- MODULE ServerProofs ----------------------------
(***************************************************************************)
(* Proofs about what a server keeps.                                       *)
(*                                                                         *)
(* The world, for any number of entities, components and types, and any    *)
(* entity file: the types, the tree that its two maps are, the             *)
(* announcement of every deletion, and the components that outlive their   *)
(* entities.                                                               *)
(*                                                                         *)
(* The sessions, for any number of them and of commands, and any intervals *)
(* that fit on the clock: the types, who is timed out and who must be, and *)
(* what it takes to stop the server.                                       *)
(***************************************************************************)
EXTENDS World, ServerSession, FiniteSetTheorems, WellFoundedInduction, TLAPS

(* The inductive invariant, in the part the tree has to do with and the    *)
(* part the pools have to do with.                                         *)
TreeInv == TreeTypeOK /\ TreeIsConsistent /\ DeletionsAreAnnouncedOnce
PoolInv == PoolTypeOK /\ StraysAreExplained

Inv == TreeInv /\ PoolInv

(* Who is not below himself has a set of entities, closed under children,  *)
(* that has his children in it and not himself: it is what the proofs that *)
(* no cycle is closed give for every entity after a step.                  *)
IsAbove(e, T) ==
  /\ T \in SUBSET Live
  /\ Children(e) \subseteq T
  /\ ClosedDown(T)
  /\ e \notin T

LEMMA NotBelowItself ==
  ASSUME NEW e \in Live, ~BelowItself(e)
  PROVE  \E T \in SUBSET Live : IsAbove(e, T)
  BY DEF BelowItself, Subtree, IsAbove

(* The other way round, for the state after a step.                        *)
LEMMA AboveIsNotBelow ==
  ASSUME MapsMirror', NEW e, NEW T \in SUBSET Live', e \notin T,
         \A x \in Live' : parents'[x] \in T \cup {e} => x \in T
  PROVE  ~BelowItself(e)'
<1>1. \A pair \in children' : \E x \in Live' : pair = <<parents'[x], x>>
  BY DEF MapsMirror
<1>2. ClosedDown(T)'
  BY <1>1 DEF ClosedDown
<1>3. Children(e)' \subseteq T
  BY <1>1 DEF Children
<1>4. SUFFICES ASSUME e \in Subtree(Children(e))' PROVE FALSE
  BY DEF BelowItself
<1>5. \A S \in SUBSET Live' : Children(e)' \subseteq S /\ ClosedDown(S)' => e \in S
  BY <1>4 DEF Subtree
<1> QED
  BY <1>2, <1>3, <1>5

(* What a deletion reaches is closed under children.                       *)
LEMMA SubtreeIsClosed ==
  ASSUME MapsMirror, NEW S \in SUBSET Live
  PROVE  /\ S \subseteq Subtree(S)
         /\ Subtree(S) \in SUBSET Live
         /\ ClosedDown(Subtree(S))
<1>1. \A pair \in children : pair[2] \in Live
  BY DEF MapsMirror
<1> QED
  BY <1>1 DEF Subtree, ClosedDown

-----------------------------------------------------------------------------
(* The pools. *)

LEMMA InitPool == Init => PoolInv
  BY DEF Init, PoolInv, PoolTypeOK, StraysAreExplained

(* No component comes or goes, and no entity goes.                         *)
LEMMA PoolStays ==
  ASSUME PoolInv, UNCHANGED <<pools, strays>>, Live \subseteq Live'
  PROVE  PoolInv'
<1>1. components' = components /\ latest' = latest /\ strays' = strays
  BY DEF pools
<1> QED
  BY <1>1 DEF PoolInv, PoolTypeOK, StraysAreExplained, ValidEntity

(* Components are attached, of whatever entities.                          *)
LEMMA AllocateKeeps ==
  ASSUME PoolInv, NEW K \in SUBSET Key, AllocateAll(K), Live \subseteq Live'
  PROVE  PoolInv'
<1> USE DEF PoolInv
<1>1. PoolTypeOK'
  BY DEF AllocateAll, PoolTypeOK, Key
<1>2. \A k \in DOMAIN latest' : <<k[1], k[2], latest'[k]>> \in components'
  BY DEF AllocateAll, PoolTypeOK, StraysAreExplained
<1>3. ASSUME NEW c \in components' \ strays'
      PROVE  /\ c[2] \in Live'
             /\ <<c[1], c[2]>> \in DOMAIN latest'
             /\ c[3] = latest'[<<c[1], c[2]>>]
  <2>1. CASE c \in components
    <3> DEFINE k == <<c[1], c[2]>>
    <3>1. c \notin strays /\ c = <<c[1], c[2], c[3]>> /\ k \in Key
      BY <1>3, <2>1 DEF AllocateAll, PoolTypeOK
    <3>2. c[2] \in Live /\ k \in DOMAIN latest /\ c[3] = latest[k]
      BY <3>1, <2>1 DEF StraysAreExplained, ValidEntity
    <3>3. k \notin K
      <4> SUFFICES ASSUME k \in K PROVE FALSE
        OBVIOUS
      <4>1. <<k[1], k[2], latest[k]>> \in strays'
        BY <3>2 DEF AllocateAll
      <4> QED
        BY <4>1, <3>1, <3>2, <1>3
    <3> QED
      BY <3>2, <3>3 DEF AllocateAll
  <2>2. CASE c \notin components
    <3>1. PICK k \in K : c = <<k[1], k[2], Fresh(k)>>
      BY <1>3, <2>2 DEF AllocateAll
    <3>2. k = <<k[1], k[2]>> /\ k = <<c[1], c[2]>>
      BY <3>1 DEF Key
    <3>3. latest'[k] = Fresh(k) /\ k \in DOMAIN latest'
      BY DEF AllocateAll
    <3>4. k[2] \in DOMAIN parents'
      BY <1>3, <3>1 DEF AllocateAll
    <3> QED
      BY <3>1, <3>2, <3>3, <3>4 DEF Live
  <2> QED
    BY <2>1, <2>2
<1> QED
  BY <1>1, <1>2, <1>3 DEF StraysAreExplained, ValidEntity

(* Components are freed, those of every entity that goes among them.       *)
LEMMA FreeKeeps ==
  ASSUME PoolInv, NEW K \in SUBSET DOMAIN latest, FreeAll(K),
         \A k \in DOMAIN latest : k[2] \in Live \ Live' => k \in K
  PROVE  PoolInv'
<1> USE DEF PoolInv
<1>1. /\ DOMAIN latest' = DOMAIN latest \ K
      /\ latest' = [k \in DOMAIN latest' |-> latest[k]]
  BY DEF FreeAll, Restrict
<1>2. PoolTypeOK'
  BY <1>1 DEF FreeAll, PoolTypeOK
<1>3. ASSUME NEW k \in DOMAIN latest'
      PROVE  <<k[1], k[2], latest'[k]>> \in components'
  <2>1. <<k[1], k[2], latest[k]>> \in components
    BY <1>1 DEF StraysAreExplained
  <2>2. ASSUME NEW j \in K, <<j[1], j[2], latest[j]>> = <<k[1], k[2], latest[k]>>
        PROVE  FALSE
    <3>1. j = <<j[1], j[2]>> /\ k = <<k[1], k[2]>>
      BY <1>1 DEF PoolTypeOK, Key
    <3> QED
      BY <3>1, <2>2, <1>1
  <2> QED
    BY <2>1, <2>2, <1>1 DEF FreeAll
<1>4. ASSUME NEW c \in components' \ strays'
      PROVE  /\ c[2] \in Live'
             /\ <<c[1], c[2]>> \in DOMAIN latest'
             /\ c[3] = latest'[<<c[1], c[2]>>]
  <2> DEFINE k == <<c[1], c[2]>>
  <2>1. c \in components \ strays
    BY <1>4 DEF FreeAll
  <2>2. c = <<c[1], c[2], c[3]>> /\ c[2] \in Live /\ k \in DOMAIN latest /\ c[3] = latest[k]
    BY <2>1 DEF StraysAreExplained, ValidEntity, PoolTypeOK
  <2>3. k \notin K
    <3> SUFFICES ASSUME k \in K PROVE FALSE
      OBVIOUS
    <3>1. <<k[1], k[2], latest[k]>> \notin components'
      BY DEF FreeAll
    <3> QED
      BY <3>1, <2>2, <1>4
  <2> QED
    BY <2>2, <2>3, <1>1
<1> QED
  BY <1>2, <1>3, <1>4 DEF StraysAreExplained, ValidEntity

-----------------------------------------------------------------------------
(* The tree. *)

LEMMA InitTree == Init => TreeInv
<1> SUFFICES ASSUME Init PROVE TreeInv
  OBVIOUS
<1> USE DEF Init
<1>1. Live = {} /\ Created = {} /\ nextID \in 0 .. MaxEntities
  BY WorldAssumption DEF Live, Created
<1>2. TreeTypeOK
  <2>1. parents \in [Live -> Created \cup {EntityID_Invalid}]
    BY <1>1, SMT DEF Live
  <2>2. announced \in [Entity -> Nat]
    OBVIOUS
  <2> QED
    BY <1>1, <2>1, <2>2 DEF TreeTypeOK
<1>3. TreeIsConsistent
  BY <1>1 DEF TreeIsConsistent, MapsMirror, NothingLoops, Range, Live
<1>4. DeletionsAreAnnouncedOnce
  BY <1>1 DEF DeletionsAreAnnouncedOnce
<1> QED
  BY <1>2, <1>3, <1>4 DEF TreeInv

LEMMA NewIDsCount ==
  ASSUME nextID \in Nat, NEW n \in Nat
  PROVE  Cardinality(NewIDs(n)) = n
  BY FS_Interval DEF NewIDs

(* New entities come, in a tree below the old ones or below none.          *)
LEMMA InsertKeeps ==
  ASSUME TreeInv, NEW n \in Nat, NEW parentOf,
         parentOf \in [NewIDs(n) -> Created \cup NewIDs(n) \cup {EntityID_Invalid}],
         \A e \in NewIDs(n) : \E T \in SUBSET NewIDs(n) :
           e \notin T /\ \A x \in NewIDs(n) : parentOf[x] \in T \cup {e} => x \in T,
         Insert(parentOf), UNCHANGED <<status, announced, looped>>
  PROVE  TreeInv' /\ Live \subseteq Live'
<1> DEFINE N == NewIDs(n)
<1> USE DEF TreeInv, TreeTypeOK
<1>1. nextID \in Nat /\ MaxEntities \in Nat
  BY WorldAssumption
<1>2. Cardinality(N) = n
  BY <1>1, NewIDsCount
<1>3. nextID' = nextID + n /\ nextID' <= MaxEntities
  BY <1>2 DEF Insert
<1>4. /\ N \cap Created = {} /\ EntityID_Invalid \notin N
      /\ Created' = Created \cup N
      /\ EntityID_Invalid \notin Created
  BY <1>1, <1>3 DEF NewIDs, Created, EntityID_Invalid
<1>5. /\ Live' = Live \cup N
      /\ \A e \in N : parents'[e] = parentOf[e]
      /\ \A e \in Live : parents'[e] = parents[e]
      /\ parents' = [e \in Live' |-> parents'[e]]
  BY <1>4 DEF Insert, Live
<1>6. TreeTypeOK'
  <2>1. nextID' \in 0 .. MaxEntities
    BY <1>1, <1>3
  <2>2. \A e \in Live' : parents'[e] \in Created' \cup {EntityID_Invalid}
    BY <1>4, <1>5
  <2> QED
    BY <1>4, <1>5, <2>1, <2>2
<1>7. MapsMirror'
  <2>1. children' = children \cup {<<parentOf[e], e>> : e \in N}
    BY DEF Insert
  <2>2. children = {<<parents[e], e>> : e \in Live}
    BY DEF TreeIsConsistent, MapsMirror
  <2> QED
    BY <2>1, <2>2, <1>4, <1>5 DEF MapsMirror
<1>8. ASSUME ~looped, NEW e \in Live'
      PROVE  ~BelowItself(e)'
  <2>1. CASE e \in Live
    <3>1. PICK T \in SUBSET Live : IsAbove(e, T)
      BY <2>1, <1>8, NotBelowItself DEF TreeIsConsistent, NothingLoops
    <3>2. T \cup N \in SUBSET Live' /\ e \notin T \cup N
      BY <3>1, <2>1, <1>4, <1>5 DEF IsAbove
    <3>3. ASSUME NEW x \in Live', parents'[x] \in T \cup N \cup {e}
          PROVE  x \in T \cup N
      <4>1. CASE x \in Live
        <5>1. parents[x] \in Created \cup {EntityID_Invalid} /\ <<parents[x], x>> \in children
          BY <4>1 DEF TreeIsConsistent, MapsMirror
        <5>2. parents[x] \in T \cup {e}
          BY <5>1, <3>3, <4>1, <1>4, <1>5
        <5> QED
          BY <5>1, <5>2, <3>1, <4>1 DEF IsAbove, ClosedDown, Children
      <4> QED
        BY <4>1, <1>5
    <3> QED
      BY <3>2, <3>3, <1>7, AboveIsNotBelow
  <2>2. CASE e \in N
    <3>1. PICK T \in SUBSET N : e \notin T /\ \A x \in N : parentOf[x] \in T \cup {e} => x \in T
      BY <2>2
    <3>2. ASSUME NEW x \in Live', parents'[x] \in T \cup {e}
          PROVE  x \in T
      <4>1. x \notin Live
        BY <3>2, <2>2, <1>4, <1>5
      <4> QED
        BY <4>1, <3>1, <3>2, <1>5
    <3> QED
      BY <3>1, <3>2, <1>5, <1>7, AboveIsNotBelow
  <2> QED
    BY <2>1, <2>2, <1>5
<1>9. TreeIsConsistent'
  BY <1>5, <1>6, <1>7, <1>8 DEF TreeIsConsistent, NothingLoops, Range
<1>10. DeletionsAreAnnouncedOnce'
  BY <1>4, <1>5 DEF DeletionsAreAnnouncedOnce
<1> QED
  BY <1>5, <1>6, <1>9, <1>10

(* The tree is left alone, by a step that does not loop for nothing.       *)
LEMMA TreeStays ==
  ASSUME TreeInv, UNCHANGED <<tree, announced, looped>>,
         status' \in {status, "thrown", "looping"},
         status' = "looping" => looped \/ status = "looping"
  PROVE  TreeInv'
<1>1. nextID' = nextID /\ parents' = parents /\ children' = children
  BY DEF tree
<1>2. Live' = Live /\ Created' = Created
  BY <1>1 DEF Live, Created
<1>3. \A e : BelowItself(e)' <=> BelowItself(e)
  BY <1>1, <1>2 DEF BelowItself, Subtree, Children, ClosedDown
<1>4. TreeTypeOK'
  BY <1>1, <1>2 DEF TreeInv, TreeTypeOK
<1>5. TreeIsConsistent'
  BY <1>1, <1>2, <1>3 DEF TreeInv, TreeIsConsistent, MapsMirror, NothingLoops
<1>6. DeletionsAreAnnouncedOnce'
  BY <1>1, <1>2 DEF TreeInv, DeletionsAreAnnouncedOnce
<1> QED
  BY <1>4, <1>5, <1>6 DEF TreeInv

(* An entity is put below another: below itself, or else what it takes     *)
(* along and what was below an entity before leave the rest free of        *)
(* cycles.                                                                 *)
LEMMA SetParentKeeps ==
  ASSUME TreeInv, NEW e \in Created, NEW parent \in Created \cup {EntityID_Invalid},
         SetParent(e, parent)
  PROVE  TreeInv' /\ Live' = Live
<1> USE DEF TreeInv
<1>1. CASE ~ValidEntity(e)
  <2>1. Throws
    BY <1>1 DEF SetParent
  <2> QED
    BY <2>1, TreeStays DEF Throws, tree, Live
<1>2. CASE ValidEntity(e)
  <2>1. /\ e \in Live
        /\ parents' = [parents EXCEPT ![e] = parent]
        /\ children' = (children \ {<<parents[e], e>>}) \cup {<<parent, e>>}
        /\ looped' = (looped \/ parent \in Subtree({e}))
        /\ UNCHANGED <<nextID, status, announced>>
    BY <1>2 DEF SetParent, ValidEntity
  <2>2. /\ Live' = Live /\ Created' = Created
        /\ parents'[e] = parent
        /\ \A x \in Live \ {e} : parents'[x] = parents[x]
    BY <2>1 DEF TreeTypeOK, Live, Created
  <2>3. TreeTypeOK'
    BY <2>1, <2>2 DEF TreeTypeOK
  <2>4. MapsMirror'
    BY <2>1, <2>2 DEF TreeIsConsistent, MapsMirror
  <2>5. ASSUME ~looped', NEW x \in Live
        PROVE  ~BelowItself(x)'
    <3> DEFINE S == Subtree({e})
    <3>1. ~looped /\ parent \notin S
      BY <2>1, <2>5
    <3>2. PICK T \in SUBSET Live : IsAbove(x, T)
      BY <3>1, NotBelowItself DEF TreeIsConsistent, NothingLoops
    <3>3. e \in S /\ S \in SUBSET Live /\ ClosedDown(S)
      BY <2>1, SubtreeIsClosed DEF TreeIsConsistent
    <3>4. \A y \in Live :
            /\ parents[y] \in S => y \in S
            /\ parents[y] \in T \cup {x} => y \in T
      <4> TAKE y \in Live
      <4>1. <<parents[y], y>> \in children
        BY DEF TreeIsConsistent, MapsMirror
      <4> QED
        BY <4>1, <3>2, <3>3 DEF IsAbove, ClosedDown, Children
    <3> HIDE DEF S
    <3>5. CASE x \in S
      <4>1. ASSUME NEW y \in Live, parents'[y] \in (T \cap S) \cup {x}
            PROVE  y \in T \cap S
        <5>1. y # e
          BY <4>1, <3>1, <3>5, <2>2, Zenon
        <5>2. parents'[y] = parents[y]
          BY <5>1, <2>2, Zenon
        <5>3. parents[y] \in (T \cap S) \cup {x}
          BY <4>1, <5>2
        <5> QED
          BY <5>3, <3>4, <3>5
      <4> QED
        BY <4>1, <3>2, <2>2, <2>4, AboveIsNotBelow DEF IsAbove
    <3>6. CASE x \notin S
      <4>1. ASSUME NEW y \in Live, parents'[y] \in (T \cup S) \cup {x}
            PROVE  y \in T \cup S
        <5>1. CASE y = e
          BY <5>1, <3>3, Zenon
        <5>2. CASE y # e
          <6>1. parents'[y] = parents[y]
            BY <5>2, <2>2, Zenon
          <6>2. parents[y] \in (T \cup S) \cup {x}
            BY <4>1, <6>1
          <6> QED
            BY <6>2, <3>4
        <5> QED
          BY <5>1, <5>2
      <4> QED
        BY <4>1, <3>2, <3>3, <3>6, <2>2, <2>4, AboveIsNotBelow DEF IsAbove
    <3> QED
      BY <3>5, <3>6
  <2>6. TreeIsConsistent'
    BY <2>1, <2>2, <2>3, <2>4, <2>5 DEF TreeIsConsistent, NothingLoops, TreeTypeOK, Range
  <2>7. DeletionsAreAnnouncedOnce'
    BY <2>1, <2>2 DEF DeletionsAreAnnouncedOnce
  <2> QED
    BY <2>2, <2>3, <2>6, <2>7
<1> QED
  BY <1>1, <1>2

(* A subtree goes, and the components of its entities with it.             *)
LEMMA DeleteKeeps ==
  ASSUME Inv, NEW S \in SUBSET Live, Delete(S)
  PROVE  Inv'
<1> DEFINE D == Subtree(S)
<1> USE DEF Inv, TreeInv
<1>1. CASE \E e \in D : BelowItself(e)
  <2>1. /\ status' = "looping"
        /\ UNCHANGED <<tree, pools, announced, looped, strays>>
    BY <1>1 DEF Delete
  <2>2. looped
    BY <1>1 DEF Subtree, TreeIsConsistent, NothingLoops
  <2>3. TreeInv'
    BY <2>1, <2>2, TreeStays
  <2> QED
    BY <2>1, <2>3, PoolStays DEF tree, Live
<1>2. CASE ~\E e \in D : BelowItself(e)
  <2>1. /\ parents' = Restrict(parents, Live \ D)
        /\ children' = {pair \in children : pair[2] \notin D}
        /\ announced' = [e \in Entity |-> announced[e] + (IF e \in D THEN 1 ELSE 0)]
        /\ FreeAll(KeysOf(D))
        /\ UNCHANGED <<nextID, status, looped>>
    BY <1>2 DEF Delete
  <2>2. D \in SUBSET Live /\ ClosedDown(D)
    BY SubtreeIsClosed DEF TreeIsConsistent
  <2>3. /\ Live' = Live \ D /\ Created' = Created
        /\ parents' = [x \in Live' |-> parents[x]]
        /\ \A x \in Live' : parents'[x] = parents[x]
    BY <2>1 DEF Restrict, Live, Created
  <2>4. TreeTypeOK'
    <3>1. \A x \in Live : parents[x] \in Created \cup {EntityID_Invalid}
      BY DEF TreeTypeOK
    <3>2. parents' \in [Live' -> Created' \cup {EntityID_Invalid}]
      BY <3>1, <2>3
    <3>3. announced' \in [Entity -> Nat]
      BY <2>1 DEF TreeTypeOK
    <3> QED
      BY <2>1, <2>3, <3>2, <3>3 DEF TreeTypeOK
  <2>5. MapsMirror'
    <3>1. children = {<<parents[x], x>> : x \in Live}
      BY DEF TreeIsConsistent, MapsMirror
    <3>2. children' = {<<parents[x], x>> : x \in Live'}
      BY <3>1, <2>1, <2>3
    <3> QED
      BY <3>2, <2>3 DEF MapsMirror
  <2>6. ASSUME ~looped, NEW x \in Live'
        PROVE  ~BelowItself(x)'
    <3>1. PICK T \in SUBSET Live : IsAbove(x, T)
      BY <2>3, <2>6, NotBelowItself DEF TreeIsConsistent, NothingLoops
    <3>2. ASSUME NEW y \in Live', parents'[y] \in (T \cap Live') \cup {x}
          PROVE  y \in T \cap Live'
      <4>1. <<parents[y], y>> \in children /\ parents[y] \in T \cup {x} /\ y \in Live
        BY <2>3, <3>2 DEF TreeIsConsistent, MapsMirror
      <4> QED
        BY <4>1, <3>1 DEF IsAbove, ClosedDown, Children
    <3> QED
      BY <3>1, <3>2, <2>5, AboveIsNotBelow DEF IsAbove
  <2>7. TreeIsConsistent'
    <3>1. NothingLoops'
      BY <2>1, <2>6 DEF TreeIsConsistent, NothingLoops
    <3>2. Live' \subseteq Created' /\ Range(parents)' \subseteq Created' \cup {EntityID_Invalid}
      BY <2>4 DEF TreeTypeOK, Range, Live
    <3> QED
      BY <3>1, <3>2, <2>5 DEF TreeIsConsistent
  <2>8. DeletionsAreAnnouncedOnce'
    BY <2>1, <2>2, <2>3 DEF DeletionsAreAnnouncedOnce, TreeTypeOK
  <2>9. PoolInv'
    BY <2>1, <2>3, FreeKeeps DEF KeysOf
  <2> QED
    BY <2>4, <2>7, <2>8, <2>9
<1> QED
  BY <1>1, <1>2

(* A new entity hangs below one whose id was given out, or below none.     *)
LEMMA CreateEntityKeeps ==
  ASSUME Inv, NEW parent \in 0 .. nextID \cup {EntityID_Invalid}, CreateEntity(parent)
  PROVE  Inv'
<1> DEFINE f == [e \in NewIDs(1) |-> IF parent = e THEN EntityID_Invalid ELSE parent]
<1> USE DEF Inv
<1>1. nextID \in Nat /\ EntityID_Invalid \notin Nat
  BY WorldAssumption DEF TreeInv, TreeTypeOK, EntityID_Invalid
<1>2. NewIDs(1) = {nextID} /\ 0 .. nextID = Created \cup {nextID}
  BY <1>1 DEF NewIDs, Created
<1>3. f \in [NewIDs(1) -> Created \cup NewIDs(1) \cup {EntityID_Invalid}]
  BY <1>2
<1>4. ASSUME NEW e \in NewIDs(1)
      PROVE  \E T \in SUBSET NewIDs(1) :
               e \notin T /\ \A x \in NewIDs(1) : f[x] \in T \cup {e} => x \in T
  <2>1. \A x \in NewIDs(1) : x = nextID /\ f[x] # nextID
    BY <1>1, <1>2
  <2>2. e = nextID
    BY <1>2
  <2> HIDE DEF f
  <2>3. \A x \in NewIDs(1) : f[x] \in {} \cup {e} => x \in {}
    BY <2>1, <2>2
  <2> QED
    BY <2>3
<1>5. Insert(f) /\ UNCHANGED <<status, announced, looped>> /\ UNCHANGED <<pools, strays>>
  BY DEF CreateEntity
<1> HIDE DEF f
<1>6. TreeInv' /\ Live \subseteq Live'
  BY <1>3, <1>4, <1>5, InsertKeeps
<1> QED
  BY <1>5, <1>6, PoolStays

(* The entities a subtree is made of: as many as Cardinality says, and the *)
(* parent of each but the first is one of them.                            *)
LEMMA SubtreeFacts ==
  ASSUME TreeInv, NEW e \in Live
  PROVE  /\ e \in Subtree({e}) /\ Subtree({e}) \in SUBSET Live
         /\ Cardinality(Subtree({e})) \in Nat
         /\ \A x \in Subtree({e}) \ {e} : parents[x] \in Subtree({e})
<1> USE DEF TreeInv
<1>1. /\ {e} \subseteq Subtree({e})
      /\ Subtree({e}) \in SUBSET Live
      /\ ClosedDown(Subtree({e}))
  BY SubtreeIsClosed DEF TreeIsConsistent
<1>2. IsFiniteSet(Created)
  BY FS_Interval DEF Created, TreeTypeOK
<1>3. Subtree({e}) \in SUBSET Created
  BY <1>1 DEF TreeTypeOK
<1>4. Cardinality(Subtree({e})) \in Nat
  BY <1>2, <1>3, FS_Subset, FS_CardinalityType
<1>5. ASSUME NEW x \in Subtree({e}) \ {e}, parents[x] \notin Subtree({e})
      PROVE  FALSE
  <2> DEFINE T == Subtree({e}) \ {x}
  <2>1. T \in SUBSET Live /\ {e} \subseteq T
    BY <1>1, <1>5
  <2>2. \A pair \in children : pair[2] = x => pair[1] = parents[x]
    BY <1>1 DEF TreeIsConsistent, MapsMirror
  <2>3. ClosedDown(T)
    BY <1>1, <1>5, <2>2 DEF ClosedDown
  <2>4. x \in T
    BY <1>1, <1>5, <2>1, <2>3 DEF Subtree
  <2> QED
    BY <2>4
<1> QED
  BY <1>1, <1>4, <1>5

(* A bijection's inverse, as Clone and Merge write it.                     *)
LEMMA InverseOf ==
  ASSUME NEW A, NEW B, NEW new \in Bijection(A, B)
  PROVE  /\ new \in [A -> B] /\ DOMAIN new = A /\ Range(new) = B
         /\ \A a, b \in A : new[a] = new[b] => a = b
         /\ \A m \in B : (CHOOSE y \in A : new[y] = m) \in A
                       /\ new[CHOOSE y \in A : new[y] = m] = m
<1>1. /\ new \in [A -> B] /\ DOMAIN new = A
      /\ \A a, b \in A : new[a] = new[b] => a = b
      /\ \A m \in B : \E y \in A : new[y] = m
  BY DEF Bijection, Injection, Surjection, IsInjective
<1>2. Range(new) = B
  BY <1>1 DEF Range
<1> QED
  BY <1>1, <1>2

(* A copy of a subtree: parents come before their children.                *)
LEMMA CloneKeeps ==
  ASSUME Inv, NEW e \in Live, NEW parent \in Created \cup {EntityID_Invalid}, Clone(e, parent)
  PROVE  Inv'
<1> DEFINE D == Subtree({e})
           n == Cardinality(D)
           N == NewIDs(n)
<1> USE DEF Inv
<1>1. PICK new \in Bijection(D, N) :
        /\ \A x \in D \ {e} : new[parents[x]] < new[x]
        /\ Insert([m \in Range(new) |->
                     LET x == CHOOSE y \in DOMAIN new : new[y] = m
                     IN IF x = e THEN parent ELSE new[parents[x]]])
        /\ AllocateAll({<<k[1], new[k[2]]>> : k \in KeysOf(D)})
  BY DEF Clone
<1>2. UNCHANGED <<status, announced, looped>>
  BY DEF Clone
<1>3. e \in D /\ D \in SUBSET Live /\ n \in Nat /\ \A x \in D \ {e} : parents[x] \in D
  BY SubtreeFacts
<1>4. /\ new \in [D -> N] /\ DOMAIN new = D /\ Range(new) = N
      /\ \A m \in N : (CHOOSE y \in D : new[y] = m) \in D
                    /\ new[CHOOSE y \in D : new[y] = m] = m
  <2> HIDE DEF D, N
  <2> QED
    BY InverseOf
<1>5. /\ nextID \in Nat /\ N \subseteq Nat /\ N \cap Live = {}
      /\ EntityID_Invalid \notin N /\ parent \notin N
      /\ Live \subseteq Created
  BY <1>3, WorldAssumption DEF TreeInv, TreeTypeOK, NewIDs, Created, EntityID_Invalid
<1> DEFINE f == [m \in N |-> LET x == CHOOSE y \in D : new[y] = m
                             IN IF x = e THEN parent ELSE new[parents[x]]]
<1>6. Insert(f)
  BY <1>1, <1>4
<1> HIDE DEF D, n
<1>7. \A m \in N : f[m] = parent \/ (f[m] \in N /\ f[m] < m)
  <2> TAKE m \in N
  <2> DEFINE x == CHOOSE y \in D : new[y] = m
  <2>1. x \in D /\ new[x] = m
    BY <1>4
  <2> HIDE DEF x
  <2>2. f[m] = IF x = e THEN parent ELSE new[parents[x]]
    BY DEF x
  <2>3. CASE x # e
    BY <2>1, <2>2, <2>3, <1>1, <1>3, <1>4
  <2> QED
    BY <2>2, <2>3
<1>8. f \in [N -> Created \cup N \cup {EntityID_Invalid}]
  BY <1>5, <1>7
<1> HIDE DEF f
<1>9. ASSUME NEW a \in N
      PROVE  \E T \in SUBSET N :
               a \notin T /\ \A x \in N : f[x] \in T \cup {a} => x \in T
  <2> DEFINE T == {x \in N : x > a}
  <2>1. a \notin T /\ T \in SUBSET N
    BY <1>5
  <2>2. ASSUME NEW x \in N, f[x] \in T \cup {a}
        PROVE  x \in T
    BY <2>2, <1>5, <1>7
  <2> QED
    BY <2>1, <2>2
<1>10. TreeInv' /\ Live \subseteq Live'
  BY <1>2, <1>3, <1>6, <1>8, <1>9, InsertKeeps
<1>11. {<<k[1], new[k[2]]>> : k \in KeysOf(D)} \in SUBSET Key
  <2>1. N \subseteq Entity
    <3>1. DOMAIN f = N
      BY <1>8
    <3>2. Cardinality(N) = n
      BY <1>3, <1>5, NewIDsCount
    <3> QED
      BY <3>1, <3>2, <1>3, <1>5, <1>6, WorldAssumption DEF Insert, NewIDs, Entity
  <2>2. \A k \in KeysOf(D) : k[1] \in ComponentType /\ k[2] \in D
    BY DEF KeysOf, PoolInv, PoolTypeOK, Key
  <2> QED
    BY <2>1, <2>2, <1>4 DEF Key
<1>12. PoolInv'
  BY <1>1, <1>10, <1>11, AllocateKeeps
<1> QED
  BY <1>10, <1>12

(* The world of a file: its map is in no order, but it is a tree.          *)
LEMMA MergeKeeps ==
  ASSUME Inv, Merge
  PROVE  Inv'
<1> DEFINE n == Cardinality(Template)
           N == NewIDs(n)
<1> USE DEF Inv
<1>1. PICK new \in Bijection(Template, N) :
        /\ Insert([m \in Range(new) |->
                     LET p == TemplateParent[CHOOSE x \in Template : new[x] = m]
                     IN IF p \in Template THEN new[p] ELSE EntityID_Invalid])
        /\ AllocateAll({<<k[1], new[k[2]]>> : k \in TemplateComponents})
  BY DEF Merge
<1>2. UNCHANGED <<status, announced, looped>>
  BY DEF Merge
<1>3. n \in Nat
  BY WorldAssumption, FS_CardinalityType
<1>4. /\ new \in [Template -> N] /\ Range(new) = N
      /\ \A a, b \in Template : new[a] = new[b] => a = b
      /\ \A m \in N : (CHOOSE y \in Template : new[y] = m) \in Template
                    /\ new[CHOOSE y \in Template : new[y] = m] = m
  BY InverseOf
<1>5. nextID \in Nat /\ N \subseteq Nat /\ EntityID_Invalid \notin N
  BY <1>3, WorldAssumption DEF TreeInv, TreeTypeOK, NewIDs, EntityID_Invalid
<1> DEFINE f == [m \in N |-> LET p == TemplateParent[CHOOSE x \in Template : new[x] = m]
                             IN IF p \in Template THEN new[p] ELSE EntityID_Invalid]
<1>6. Insert(f)
  BY <1>1, <1>4
<1> HIDE DEF n
<1>7. ASSUME NEW m \in N
      PROVE  \E z \in Template :
               /\ new[z] = m
               /\ f[m] = IF TemplateParent[z] \in Template THEN new[TemplateParent[z]]
                         ELSE EntityID_Invalid
  <2> DEFINE z == CHOOSE x \in Template : new[x] = m
  <2>1. z \in Template /\ new[z] = m
    BY <1>4
  <2>2. f[m] = IF TemplateParent[z] \in Template THEN new[TemplateParent[z]]
               ELSE EntityID_Invalid
    OBVIOUS
  <2> QED
    BY <2>1, <2>2
<1>8. f \in [N -> Created \cup N \cup {EntityID_Invalid}]
  <2>1. \A m \in N : f[m] \in N \cup {EntityID_Invalid}
    BY <1>4, <1>7
  <2> QED
    BY <2>1
<1> HIDE DEF f
<1>9. ASSUME NEW a \in N
      PROVE  \E T \in SUBSET N :
               a \notin T /\ \A x \in N : f[x] \in T \cup {a} => x \in T
  <2>1. PICK e \in Template : new[e] = a
    BY <1>7
  <2>2. PICK below \in SUBSET Template :
          /\ e \notin below
          /\ \A x \in Template : TemplateParent[x] \in below \cup {e} => x \in below
    BY WorldAssumption
  <2> DEFINE T == {new[x] : x \in below}
  <2>3. a \notin T /\ T \in SUBSET N
    BY <2>1, <2>2, <1>4
  <2>4. ASSUME NEW x \in N, f[x] \in T \cup {a}
        PROVE  x \in T
    <3>1. PICK z \in Template :
            /\ new[z] = x
            /\ f[x] = IF TemplateParent[z] \in Template THEN new[TemplateParent[z]]
                      ELSE EntityID_Invalid
      BY <1>7
    <3>2. f[x] \in N
      BY <2>3, <2>4
    <3>3. TemplateParent[z] \in Template /\ f[x] = new[TemplateParent[z]]
      BY <3>1, <3>2, <1>5
    <3>4. TemplateParent[z] \in below \cup {e}
      <4>1. PICK y \in below \cup {e} : f[x] = new[y]
        <5>1. CASE f[x] = a
          BY <5>1, <2>1
        <5>2. CASE f[x] \in T
          BY <5>2
        <5> QED
          BY <5>1, <5>2, <2>4
      <4>2. y = TemplateParent[z]
        <5>1. y \in Template /\ new[y] = new[TemplateParent[z]]
          BY <4>1, <3>3, <2>2
        <5> QED
          BY <5>1, <3>3, <1>4, Zenon
      <4> QED
        BY <4>2
    <3> QED
      BY <3>1, <3>4, <2>2
  <2> QED
    BY <2>3, <2>4
<1>10. TreeInv' /\ Live \subseteq Live'
  BY <1>2, <1>3, <1>6, <1>8, <1>9, InsertKeeps
<1>11. {<<k[1], new[k[2]]>> : k \in TemplateComponents} \in SUBSET Key
  <2>1. N \subseteq Entity
    <3>1. DOMAIN f = N /\ Cardinality(N) = n
      BY <1>3, <1>5, <1>8, NewIDsCount
    <3> QED
      BY <3>1, <1>3, <1>5, <1>6, WorldAssumption DEF Insert, NewIDs, Entity
  <2>2. \A k \in TemplateComponents : k[1] \in ComponentType /\ k[2] \in Template
    BY WorldAssumption
  <2> QED
    BY <2>1, <2>2, <1>4 DEF Key
<1>12. PoolInv'
  BY <1>1, <1>10, <1>11, AllocateKeeps
<1> QED
  BY <1>10, <1>12

-----------------------------------------------------------------------------
(* The theorems. *)

LEMMA StepKeeps ==
  ASSUME Inv, [Next]_vars
  PROVE  Inv'
<1> USE DEF Inv
<1>1. ASSUME NEW parent \in 0 .. nextID \cup {EntityID_Invalid}, CreateEntity(parent)
      PROVE  Inv'
  BY <1>1, CreateEntityKeeps
<1>2. ASSUME NEW e \in Created, NEW parent \in Created \cup {EntityID_Invalid},
             SetParent(e, parent)
      PROVE  Inv'
  <2>1. TreeInv' /\ Live' = Live
    BY <1>2, SetParentKeeps
  <2>2. UNCHANGED <<pools, strays>>
    BY <1>2 DEF SetParent, Throws
  <2> QED
    BY <2>1, <2>2, PoolStays
<1>3. ASSUME NEW e \in Created, DeleteEntity(e)
      PROVE  Inv'
  <2>1. Delete({e}) /\ {e} \in SUBSET Live
    BY <1>3 DEF DeleteEntity, ValidEntity
  <2> QED
    BY <2>1, DeleteKeeps
<1>4. ASSUME NEW e \in Created, DeleteChildren(e)
      PROVE  Inv'
  <2>1. Delete(Children(e)) /\ Children(e) \in SUBSET Live
    BY <1>4 DEF DeleteChildren, Children
  <2> QED
    BY <2>1, DeleteKeeps
<1>5. Created \subseteq Entity
  BY WorldAssumption DEF TreeInv, TreeTypeOK, Created, Entity
<1>6. ASSUME NEW k \in ComponentType \X Created, AttachComponent(k) \/ Fetch(k)
      PROVE  Inv'
  <2>1. UNCHANGED <<tree, status, announced, looped>> /\ AllocateAll({k})
    BY <1>6 DEF AttachComponent, Fetch
  <2>2. {k} \in SUBSET Key
    BY <1>5 DEF Key
  <2>3. Live \subseteq Live'
    BY <2>1 DEF tree, Live
  <2> QED
    BY <2>1, <2>2, <2>3, TreeStays, AllocateKeeps
<1>7. ASSUME NEW k \in ComponentType \X Created, DeleteComponent(k)
      PROVE  Inv'
  <2>1. CASE HasComponent(k)
    <3>1. FreeAll({k}) /\ UNCHANGED <<tree, status, announced, looped>>
      BY <1>7, <2>1 DEF DeleteComponent
    <3>2. {k} \in SUBSET DOMAIN latest /\ Live' = Live
      BY <2>1, <3>1 DEF HasComponent, tree, Live
    <3> QED
      BY <3>1, <3>2, TreeStays, FreeKeeps
  <2>2. CASE ~HasComponent(k)
    <3>1. Throws
      BY <1>7, <2>2 DEF DeleteComponent
    <3>2. Live' = Live
      BY <3>1 DEF Throws, tree, Live
    <3> QED
      BY <3>1, <3>2, TreeStays, PoolStays DEF Throws
  <2> QED
    BY <2>1, <2>2
<1>8. ASSUME NEW e \in Live, NEW parent \in Created \cup {EntityID_Invalid}, Clone(e, parent)
      PROVE  Inv'
  BY <1>8, CloneKeeps
<1>9. CASE Merge
  BY <1>9, MergeKeeps
<1>10. CASE UNCHANGED vars
  <2>1. Live' = Live
    BY <1>10 DEF vars, Live
  <2> QED
    BY <1>10, <2>1, TreeStays, PoolStays DEF vars, tree, pools
<1> QED
  BY <1>1, <1>2, <1>3, <1>4, <1>6, <1>7, <1>8, <1>9, <1>10 DEF Next

THEOREM Invariance == Spec => []Inv
<1>1. Init => Inv
  BY InitTree, InitPool DEF Inv
<1> QED
  BY <1>1, StepKeeps, PTL DEF Spec

(* Every reachable state is well-typed.                                    *)
THEOREM TypeCorrect == Spec => []TypeOK
<1>1. Inv => TypeOK
  BY DEF Inv, TreeInv, PoolInv, TypeOK
<1> QED
  BY <1>1, Invariance, PTL

(* The maps of World.cpp mirror each other, whatever dead parents entities *)
(* are given; and nothing but SetParent closes a cycle, so that without    *)
(* its doing so every DeleteEntity comes to an end.                        *)
THEOREM TreeIsAlwaysConsistent == Spec => []TreeIsConsistent
<1>1. Inv => TreeIsConsistent
  BY DEF Inv, TreeInv
<1> QED
  BY <1>1, Invariance, PTL

(* World::DeleteEntity publishes one EntityDeleted for every entity that   *)
(* goes, deep ones included, and no id is ever used again.                 *)
THEOREM DeletionsAreAlwaysAnnouncedOnce == Spec => []DeletionsAreAnnouncedOnce
<1>1. Inv => DeletionsAreAnnouncedOnce
  BY DEF Inv, TreeInv
<1> QED
  BY <1>1, Invariance, PTL

(* What ComponentPool holds for nobody was attached to the dead, or        *)
(* superseded by a second component of its type.                           *)
THEOREM StraysAreAlwaysExplained == Spec => []StraysAreExplained
<1>1. Inv => StraysAreExplained
  BY DEF Inv, PoolInv
<1> QED
  BY <1>1, Invariance, PTL


-----------------------------------------------------------------------------
(***************************************************************************)
(* The sessions. An update is a row of stages, from what is read to the    *)
(* events; the first half of the proofs says what each stage keeps, the    *)
(* second what a whole update does to the times and to the peace.          *)
(***************************************************************************)

(* What a server works on during an update: its members, the streams and   *)
(* datagrams, and whom it heard of.                                        *)
Clock == 0 .. 2 * Half - 1
Stamps == UNION {[K -> Clock] : K \in SUBSET Session}
Kinds == {"Connect", "Ping", "Disconnect", "OnInputCommand"}
Messages == [is : Kinds, command : Command \cup {"none"}]
Streams == Seq(Messages)
Reasons == {"no", "command", "udp", "disconnect", "kick"}

Servers ==
  [stop : Stamps, toDisconnect : Seq(Session), broadcast : Seq(Session), next : Nat,
   last : Nat, start : Clock, pinged : BOOLEAN, since : Nat,
   kicks : [written : Nat, read : Nat], stopped : Reasons]

Work ==
  [stop : Stamps, toDisconnect : Seq(Session), broadcast : Seq(Session), next : Nat,
   last : Nat, start : Clock, pinged : BOOLEAN, since : Nat,
   kicks : [written : Nat, read : Nat], stopped : Reasons,
   up : [Session -> Streams], udp : SUBSET Session, heard : SUBSET Session]

(* The types.                                                              *)
SessionTypeOK ==
  /\ server \in Servers
  /\ client \in [Session -> {"none", "open", "connected", "left", "vanished"}]
  /\ up \in [Session -> Streams]
  /\ udp \in SUBSET Session
  /\ now \in Clock
  /\ given \in Nat
  /\ ended \in [Session -> {"no", "early", "yes"}]
  /\ silent \in [Session -> 0 .. Patience + 1]

(* What was read since an update began only sets the time-outs of who was  *)
(* heard of.                                                               *)
Reading(t) ==
  /\ t.start = server.start /\ t.pinged = server.pinged /\ t.since = server.since
  /\ t.heard \subseteq Players(t)
  /\ \A k \in Players(t) :
       IF k \in t.heard THEN t.stop[k] = now
       ELSE k \in Players(server) /\ t.stop[k] = server.stop[k]

(* Messages that cannot stop the server.                                   *)
Peaceful(stream) == \A i \in DOMAIN stream : stream[i].is \in {"Connect", "Ping"}

(* No command and no disconnect is under way.                              *)
Idle(s) ==
  /\ s.stopped = "no" /\ s.toDisconnect = <<>> /\ s.broadcast = <<>>
  /\ s.kicks = [written |-> 0, read |-> 0]

(* Nothing that could stop the server is under way.                        *)
Calm(t) ==
  /\ Idle(t) /\ t.udp \subseteq Players(t)
  /\ \A k \in Session : Peaceful(t.up[k])

(* What every stage that reads keeps, in peace and without.                *)
Reads(t, peace) == t \in Work /\ Reading(t) /\ (peace => Calm(t))

-----------------------------------------------------------------------------
(* What the time-outs of the players are, ...                              *)
LEMMA StampsAre ==
  ASSUME NEW K \in SUBSET Session, NEW f, f = [k \in K |-> f[k]],
         \A k \in K : f[k] \in Clock
  PROVE  f \in Stamps /\ DOMAIN f = K
<1>1. f \in [K -> Clock]
  OBVIOUS
<1> QED BY <1>1 DEF Stamps

(* ... and what they are made of.                                          *)
LEMMA StampsOf ==
  ASSUME NEW f \in Stamps
  PROVE  /\ DOMAIN f \in SUBSET Session
         /\ f = [k \in DOMAIN f |-> f[k]]
         /\ \A k \in DOMAIN f : f[k] \in Clock
<1>1. PICK K \in SUBSET Session : f \in [K -> Clock]
  BY DEF Stamps
<1> QED BY <1>1

(* A connection is accepted.                                               *)
LEMMA AcceptReads ==
  ASSUME NEW t, NEW peace \in BOOLEAN, Reads(t, peace), now \in Clock, t.next \in Session
  PROVE  Reads(AcceptNewConnections(t), peace) 
<1> DEFINE r == AcceptNewConnections(t)
           f == [k \in Players(t) \cup {t.next} |-> IF k = t.next THEN now ELSE t.stop[k]]
<1>0. t \in Work
  BY DEF Reads
<1>1. /\ r.start = t.start /\ r.pinged = t.pinged /\ r.since = t.since
      /\ r.heard = t.heard \cup {t.next}
      /\ r.stop = f
      /\ r.toDisconnect = t.toDisconnect /\ r.broadcast = t.broadcast /\ r.kicks = t.kicks
      /\ r.stopped = t.stopped /\ r.up = t.up /\ r.udp = t.udp
  BY <1>0 DEF AcceptNewConnections, Work
<1>2. f \in Stamps
  <2>1. t.stop \in Stamps
    BY <1>0 DEF Work
  <2> QED BY <2>1, StampsOf, StampsAre DEF Players
<1>3. r \in Work
  <2>1. t.next + 1 \in Nat /\ t.heard \cup {t.next} \in SUBSET Session
    BY <1>0 DEF Work, Session
  <2> HIDE DEF f
  <2>2. r = [t EXCEPT !.stop = f, !.next = @ + 1, !.heard = @ \cup {t.next}]
    BY DEF AcceptNewConnections, f
  <2> HIDE DEF r
  <2> QED BY <1>0, <1>2, <2>1, <2>2 DEF Work
<1>4. Reading(r)
  BY <1>1 DEF Reads, Reading, Players
<1>5. peace => Calm(r)
  BY <1>1 DEF Reads, Calm, Idle, Players
<1> QED BY <1>3, <1>4, <1>5 DEF Reads

(* A player is heard of.                                                   *)
LEMMA HearReads ==
  ASSUME NEW t, NEW peace \in BOOLEAN, Reads(t, peace), now \in Clock, NEW k \in Players(t)
  PROVE  LET h == [t EXCEPT !.stop[k] = now, !.heard = @ \cup {k}] IN
         Reads(h, peace) /\ Players(h) = Players(t)
<1> DEFINE h == [t EXCEPT !.stop[k] = now, !.heard = @ \cup {k}]
           f == [t.stop EXCEPT ![k] = now]
<1>0. t \in Work
  BY DEF Reads
<1>1. /\ h.start = t.start /\ h.pinged = t.pinged /\ h.since = t.since
      /\ h.heard = t.heard \cup {k} /\ h.stop = f
      /\ h.toDisconnect = t.toDisconnect /\ h.broadcast = t.broadcast /\ h.kicks = t.kicks
      /\ h.stopped = t.stopped /\ h.up = t.up /\ h.udp = t.udp
  BY <1>0 DEF Work
<1>2. t.stop \in Stamps
  BY <1>0 DEF Work
<1>3. /\ f = [p \in Players(t) |-> f[p]]
      /\ \A p \in Players(t) : f[p] \in Clock
      /\ Players(t) \in SUBSET Session
      /\ \A p \in Players(t) : f[p] = IF p = k THEN now ELSE t.stop[p]
  BY <1>2, StampsOf DEF Players
<1>4. f \in Stamps /\ DOMAIN f = Players(t)
  BY <1>3, StampsAre
<1>5. h \in Work
  <2>1. t.heard \cup {k} \in SUBSET Session
    BY <1>0, <1>3 DEF Work
  <2>2. h = [t EXCEPT !.stop = f, !.heard = t.heard \cup {k}]
    BY <1>0 DEF Work
  <2> HIDE DEF f
  <2> HIDE DEF h
  <2> QED BY <1>0, <1>4, <2>1, <2>2 DEF Work
<1>6. Players(h) = Players(t)
  BY <1>1, <1>4 DEF Players
<1>7. Reading(h)
  BY <1>1, <1>3, <1>6 DEF Reads, Reading
<1>8. peace => Calm(h)
  BY <1>1, <1>6 DEF Reads, Calm, Idle
<1> QED BY <1>5, <1>6, <1>7, <1>8 DEF Reads

(* What else a message changes.                                            *)
LEMMA SameReads ==
  ASSUME NEW t, NEW peace \in BOOLEAN, Reads(t, peace), NEW r \in Work,
         r.stop = t.stop, r.heard = t.heard, r.start = t.start, r.pinged = t.pinged,
         r.since = t.since, peace => Calm(r)
  PROVE  Reads(r, peace) /\ Players(r) = Players(t)
  BY DEF Reads, Reading, Players

(* The socket that was read last.                                          *)
LEMMA LastReads ==
  ASSUME NEW t, NEW peace \in BOOLEAN, Reads(t, peace), NEW k \in Nat
  PROVE  LET r == [t EXCEPT !.last = k] IN Reads(r, peace) /\ Players(r) = Players(t)
<1> DEFINE r == [t EXCEPT !.last = k]
<1>1. t \in Work /\ r \in Work
  BY DEF Reads, Work
<1>2. /\ r.stop = t.stop /\ r.heard = t.heard /\ r.start = t.start /\ r.pinged = t.pinged
      /\ r.since = t.since /\ r.udp = t.udp /\ r.up = t.up
      /\ r.toDisconnect = t.toDisconnect /\ r.broadcast = t.broadcast /\ r.kicks = t.kicks
      /\ r.stopped = t.stopped
  BY <1>1 DEF Work
<1>3. peace => Calm(r)
  BY <1>2 DEF Reads, Calm, Idle, Players
<1> HIDE DEF r
<1>8. Reads(r, peace) /\ Players(r) = Players(t)
  BY <1>1, <1>2, <1>3, SameReads
<1> QED BY <1>8 DEF r

(* The commands are put into a packet.                                     *)
LEMMA CommandsReads ==
  ASSUME NEW t, NEW peace \in BOOLEAN, Reads(t, peace)
  PROVE  LET r == AddInputCommandsToPacket(t) IN
         Reads(r, peace) /\ Players(r) = Players(t) /\ r.up = t.up
<1> DEFINE r == AddInputCommandsToPacket(t)
<1>1. t \in Work
  BY DEF Reads
<1>2. \/ r = [t EXCEPT !.broadcast = <<>>]
      \/ r = [t EXCEPT !.stopped = "command"] /\ t.broadcast # <<>>
  BY DEF AddInputCommandsToPacket, Stops
<1>3. CASE r = [t EXCEPT !.broadcast = <<>>]
  <2>0. <<>> \in Seq(Session)
    OBVIOUS
  <2>1. r \in Work
    BY <1>1, <1>3, <2>0 DEF Work
  <2>2. /\ r.stop = t.stop /\ r.heard = t.heard /\ r.start = t.start /\ r.pinged = t.pinged
        /\ r.since = t.since /\ r.udp = t.udp /\ r.up = t.up
        /\ r.toDisconnect = t.toDisconnect /\ r.broadcast = <<>> /\ r.kicks = t.kicks
        /\ r.stopped = t.stopped
    BY <1>1, <1>3 DEF Work
  <2>3. peace => Calm(r)
    BY <2>2 DEF Reads, Calm, Idle, Players
  <2> HIDE DEF r
  <2>8. Reads(r, peace) /\ Players(r) = Players(t) /\ r.up = t.up
    BY <2>1, <2>2, <2>3, SameReads
  <2> QED BY <2>8 DEF r
<1>4. CASE r = [t EXCEPT !.stopped = "command"] /\ t.broadcast # <<>>
  <2>1. r \in Work
    BY <1>1, <1>4 DEF Work, Reasons
  <2>2. /\ r.stop = t.stop /\ r.heard = t.heard /\ r.start = t.start /\ r.pinged = t.pinged
        /\ r.since = t.since /\ r.up = t.up
    BY <1>1, <1>4 DEF Work
  <2>3. ~peace
    BY <1>4 DEF Reads, Calm, Idle
  <2> HIDE DEF r
  <2>8. Reads(r, peace) /\ Players(r) = Players(t) /\ r.up = t.up
    BY <2>1, <2>2, <2>3, SameReads
  <2> QED BY <2>8 DEF r
<1> QED BY <1>2, <1>3, <1>4

(* The client answers that it is connected.                                *)
LEMMA ConnectedReads ==
  ASSUME NEW t, NEW peace \in BOOLEAN, Reads(t, peace), NEW k \in Players(t)
  PROVE  LET r == Connected(t, k) IN Reads(r, peace) /\ Players(r) = Players(t)
<1> DEFINE r == Connected(t, k)
<1>1. t \in Work /\ k \in Session
  BY StampsOf DEF Reads, Work, Players
<1>2. CASE r = [t EXCEPT !.udp = @ \cup {k}]
  <2>1. r \in Work
    BY <1>1, <1>2 DEF Work
  <2>2. /\ r.stop = t.stop /\ r.heard = t.heard /\ r.start = t.start /\ r.pinged = t.pinged
        /\ r.since = t.since /\ r.udp = t.udp \cup {k} /\ r.up = t.up
        /\ r.toDisconnect = t.toDisconnect /\ r.broadcast = t.broadcast /\ r.kicks = t.kicks
        /\ r.stopped = t.stopped
    BY <1>1, <1>2 DEF Work
  <2>3. peace => Calm(r)
    BY <2>2 DEF Reads, Calm, Idle, Players
  <2> HIDE DEF r
  <2>8. Reads(r, peace) /\ Players(r) = Players(t)
    BY <2>1, <2>2, <2>3, SameReads
  <2> QED BY <2>8 DEF r
<1> QED BY <1>2 DEF Connected

(* A Disconnect, ...                                                       *)
LEMMA DisconnectReads ==
  ASSUME NEW t, Reads(t, FALSE), NEW k \in Session
  PROVE  LET r == ParseDisconnect(t, k) IN Reads(r, FALSE) /\ Players(r) = Players(t)
<1> DEFINE r == ParseDisconnect(t, k)
<1>1. t \in Work
  BY DEF Reads
<1>2. r \in Work
  <2>1. Append(t.toDisconnect, k) \in Seq(Session)
    BY <1>1 DEF Work
  <2> QED BY <1>1, <2>1 DEF Work, ParseDisconnect
<1>3. /\ r.stop = t.stop /\ r.heard = t.heard /\ r.start = t.start /\ r.pinged = t.pinged
      /\ r.since = t.since
  BY <1>1 DEF Work, ParseDisconnect
<1> HIDE DEF r
<1>8. Reads(r, FALSE) /\ Players(r) = Players(t)
  BY <1>2, <1>3, SameReads
<1> QED BY <1>8 DEF r

(* ... and a command, which only come when there is no peace.              *)
LEMMA InputReads ==
  ASSUME NEW t, Reads(t, FALSE), NEW k \in Session, NEW command
  PROVE  LET r == ParseOnInputCommand(t, k, command) IN
         Reads(r, FALSE) /\ Players(r) = Players(t)
<1> DEFINE r == ParseOnInputCommand(t, k, command)
<1>1. t \in Work
  BY DEF Reads
<1>2. CASE command = "PrimaryFire"
  <2>1. r = [t EXCEPT !.broadcast = Append(t.broadcast, k)]
    BY <1>1, <1>2 DEF ParseOnInputCommand, Work
  <2>2. Append(t.broadcast, k) \in Seq(Session)
    BY <1>1 DEF Work
  <2>3. r \in Work
    BY <1>1, <2>1, <2>2 DEF Work
  <2>4. /\ r.stop = t.stop /\ r.heard = t.heard /\ r.start = t.start /\ r.pinged = t.pinged
        /\ r.since = t.since
    BY <1>1, <2>1 DEF Work
  <2> HIDE DEF r
  <2>8. Reads(r, FALSE) /\ Players(r) = Players(t)
    BY <2>3, <2>4, SameReads
  <2> QED BY <2>8 DEF r
<1>3. CASE command # "PrimaryFire"
  <2>1. r = [t EXCEPT !.kicks.written = @ + 1]
    BY <1>3 DEF ParseOnInputCommand
  <2>2. [t.kicks EXCEPT !.written = @ + 1] \in [written : Nat, read : Nat]
    BY <1>1 DEF Work
  <2>3. r \in Work
    BY <1>1, <2>1, <2>2 DEF Work
  <2>4. /\ r.stop = t.stop /\ r.heard = t.heard /\ r.start = t.start /\ r.pinged = t.pinged
        /\ r.since = t.since
    BY <1>1, <2>1 DEF Work
  <2> HIDE DEF r
  <2>8. Reads(r, FALSE) /\ Players(r) = Players(t)
    BY <2>3, <2>4, SameReads
  <2> QED BY <2>8 DEF r
<1> QED BY <1>2, <1>3

(* A message, read from a player who is there.                             *)
LEMMA MessageReads ==
  ASSUME NEW t, NEW peace \in BOOLEAN, Reads(t, peace), now \in Clock,
         NEW k \in Players(t), NEW m \in Messages,
         peace => m.is \in {"Connect", "Ping"}
  PROVE  Reads(ParseMessage(t, k, m), peace) /\ Players(ParseMessage(t, k, m)) = Players(t)
<1> DEFINE r == [t EXCEPT !.last = k]
           h == [r EXCEPT !.stop[k] = now, !.heard = @ \cup {k}]
           to == CASE m.is = "Connect" -> ParseTCPConnect(r, k)
              [] m.is = "Ping" -> ParsePing(r, k)
              [] m.is = "Disconnect" -> ParseDisconnect(r, k)
              [] m.is = "OnInputCommand" -> ParseOnInputCommand(r, k, m.command)
<1>1. k \in Session /\ k \in Nat /\ t \in Work
  BY StampsOf DEF Reads, Work, Players, Session
<1>2. Reads(r, peace) /\ Players(r) = Players(t)
  BY <1>1, LastReads
<1>3. Reads(h, peace) /\ Players(h) = Players(t)
  <2> HIDE DEF r
  <2> QED BY <1>2, HearReads
<1>4. CASE m.is = "Connect"
  <2>1. to = AddInputCommandsToPacket(Connected(h, k))
    BY <1>4 DEF ParseTCPConnect
  <2> HIDE DEF h
  <2>2. Reads(Connected(h, k), peace) /\ Players(Connected(h, k)) = Players(t)
    BY <1>3, ConnectedReads
  <2>3. Reads(to, peace) /\ Players(to) = Players(t)
    BY <2>1, <2>2, CommandsReads
  <2> QED BY <2>3 DEF ParseMessage, Unless
<1>5. CASE m.is = "Ping"
  <2>1. to = h
    BY <1>5 DEF ParsePing
  <2>2. Reads(to, peace) /\ Players(to) = Players(t)
    BY <2>1, <1>3
  <2> QED BY <2>2 DEF ParseMessage, Unless
<1>6. CASE m.is = "Disconnect"
  <2>1. to = ParseDisconnect(r, k) /\ peace = FALSE
    BY <1>6
  <2> HIDE DEF r
  <2>2. Reads(to, peace) /\ Players(to) = Players(t)
    BY <2>1, <1>1, <1>2, DisconnectReads
  <2> QED BY <2>2 DEF ParseMessage, Unless, r
<1>7. CASE m.is = "OnInputCommand"
  <2>1. to = ParseOnInputCommand(r, k, m.command) /\ peace = FALSE
    BY <1>7
  <2> HIDE DEF r
  <2>2. Reads(to, peace) /\ Players(to) = Players(t)
    BY <2>1, <1>1, <1>2, InputReads
  <2> QED BY <2>2 DEF ParseMessage, Unless, r
<1> QED BY <1>4, <1>5, <1>6, <1>7 DEF Messages, Kinds

-----------------------------------------------------------------------------
(* The loops over what is read, as folds.                                  *)

(* The least of some numbers.                                              *)
LEMMA LeastExists ==
  ASSUME NEW T \in SUBSET Nat, T # {}
  PROVE  \E n \in T : \A m \in T : ~(m < n)
<1>1. PICK n \in T : \A m \in T : <<m, n>> \notin OpToRel(<, Nat)
  BY NatLessThanWellFounded, WFMin, Zenon
<1>2. \A m \in T : m < n => <<m, n>> \in OpToRel(<, Nat)
  BY DEF OpToRel
<1> QED BY <1>1, <1>2

(* What begins in a set and does not leave it in a step stays there.       *)
LEMMA StaysIn ==
  ASSUME NEW S, NEW n \in Nat, NEW f, f[0] \in S,
         \A i \in 1 .. n : f[i - 1] \in S => f[i] \in S
  PROVE  \A i \in 0 .. n : f[i] \in S
<1> DEFINE T == {i \in 0 .. n : f[i] \notin S}
<1>1. ASSUME T # {} PROVE FALSE
  <2>1. T \in SUBSET Nat
    OBVIOUS
  <2> HIDE DEF T
  <2>2. PICK m \in T : \A l \in T : ~(l < m)
    BY <1>1, <2>1, LeastExists
  <2> USE DEF T
  <2>3. m # 0 /\ m \in 1 .. n /\ m - 1 \in 0 .. n /\ m - 1 < m
    BY <2>2
  <2>4. f[m - 1] \in S
    BY <2>2, <2>3
  <2> QED BY <2>2, <2>3, <2>4
<1> QED BY <1>1

(* What n steps make of s, after each of them.                             *)
Folded(f, s, step, n) ==
  f = [i \in 0 .. n |-> IF i = 0 THEN s ELSE step[<<f[i - 1], i>>]]

(* A fold is there, however many steps it has.                             *)
LEMMA FoldExists ==
  ASSUME NEW s, NEW step, NEW n \in Nat
  PROVE  \E f : Folded(f, s, step, n)
<1> DEFINE T == {m \in Nat : ~ \E f : Folded(f, s, step, m)}
<1>1. ASSUME T # {} PROVE FALSE
  <2>1. \E m \in T : \A l \in T : ~(l < m)
    <3>1. T \in SUBSET Nat
      OBVIOUS
    <3> HIDE DEF T
    <3> QED BY <1>1, <3>1, LeastExists
  <2>2. PICK m \in T : \A l \in T : ~(l < m)
    BY <2>1
  <2>3. CASE m = 0
    <3> DEFINE f == [i \in 0 .. 0 |-> s]
    <3>1. Folded(f, s, step, 0)
      BY DEF Folded
    <3> QED BY <2>2, <2>3, <3>1
  <2>4. CASE m # 0
    <3>1. m \in Nat /\ m - 1 \in Nat /\ m - 1 < m
      BY <2>2, <2>4
    <3>2. m - 1 \notin T
      BY <2>2, <3>1
    <3>3. PICK f : Folded(f, s, step, m - 1)
      BY <3>1, <3>2
    <3> HIDE DEF T
    <3> DEFINE g == [i \in 0 .. m |-> IF i < m THEN f[i] ELSE step[<<f[m - 1], m>>]]
    <3>4. ASSUME NEW i \in 0 .. m
          PROVE  g[i] = IF i = 0 THEN s ELSE step[<<g[i - 1], i>>]
      <4>1. CASE i < m
        <5>1. i \in 0 .. m - 1 /\ g[i] = f[i]
          BY <4>1, <3>1
        <5>2. f[i] = IF i = 0 THEN s ELSE step[<<f[i - 1], i>>]
          BY <5>1, <3>3 DEF Folded
        <5>3. i # 0 => g[i - 1] = f[i - 1]
          BY <4>1, <3>1
        <5> HIDE DEF g
        <5> QED BY <5>1, <5>2, <5>3
      <4>2. CASE i = m
        <5>1. i # 0 /\ g[i - 1] = f[i - 1]
          BY <4>2, <3>1
        <5>2. g[i] = step[<<f[m - 1], m>>]
          BY <4>2, <3>1
        <5> HIDE DEF g
        <5> QED BY <4>2, <5>1, <5>2
      <4> QED BY <4>1, <4>2, <3>1
    <3>5. Folded(g, s, step, m)
      <4>1. g = [i \in 0 .. m |-> g[i]]
        OBVIOUS
      <4> HIDE DEF g
      <4> QED BY <3>4, <4>1 DEF Folded
    <3>6. m \notin T
      BY <3>5 DEF T
    <3> QED BY <2>2, <3>6
  <2> QED BY <2>3, <2>4
<1> QED BY <1>1

(* The messages of a stream.                                               *)
Parsed(f, s, k, messages) ==
  f = [i \in 0 .. Len(messages) |->
         IF i = 0 THEN s ELSE ParseMessage(f[i - 1], k, messages[i])]

(* Whatever a stream holds is read.                                        *)
LEMMA MessagesRead ==
  ASSUME NEW t, NEW peace \in BOOLEAN, Reads(t, peace), now \in Clock,
         NEW k \in Players(t), NEW messages \in Streams, peace => Peaceful(messages)
  PROVE  /\ Reads(ParseMessages(t, k, messages), peace)
         /\ Players(ParseMessages(t, k, messages)) = Players(t)
<1> DEFINE n == Len(messages)
           S == {w \in Work : Reads(w, peace) /\ Players(w) = Players(t)}
           step == [x \in S \X (1 .. n) |-> ParseMessage(x[1], k, messages[x[2]])]
<1>1. n \in Nat /\ DOMAIN messages = 1 .. n
  BY DEF Streams
<1>2. ASSUME NEW w \in S, NEW i \in 1 .. n
      PROVE  ParseMessage(w, k, messages[i]) \in S
  <2>1. messages[i] \in Messages
    BY <1>1 DEF Streams
  <2>2. peace => messages[i].is \in {"Connect", "Ping"}
    BY <1>1 DEF Peaceful
  <2>3. Reads(w, peace) /\ k \in Players(w) /\ Players(w) = Players(t)
    OBVIOUS
  <2>4. /\ Reads(ParseMessage(w, k, messages[i]), peace)
        /\ Players(ParseMessage(w, k, messages[i])) = Players(w)
    BY <2>1, <2>2, <2>3, MessageReads
  <2> QED BY <2>3, <2>4 DEF Reads
<1>3. t \in S
  BY DEF Reads
<1>4. \A w \in S : \A i \in 1 .. n : step[<<w, i>>] = ParseMessage(w, k, messages[i])
  OBVIOUS
<1>5. \E f : Parsed(f, t, k, messages)
  <2> HIDE DEF S, n, step
  <2>1. PICK f : Folded(f, t, step, n)
    BY <1>1, FoldExists
  <2>2. f[0] = t /\ \A i \in 1 .. n : f[i] = step[<<f[i - 1], i>>]
    BY <1>1, <2>1 DEF Folded
  <2>3. \A i \in 0 .. n : f[i] \in S
    <3>1. \A i \in 1 .. n : f[i - 1] \in S => f[i] \in S
      BY <1>2, <1>4, <2>2
    <3> QED BY <1>1, <1>3, <2>2, <3>1, StaysIn
  <2>4. \A i \in 1 .. n : f[i] = ParseMessage(f[i - 1], k, messages[i])
    <3>1. \A i \in 1 .. n : f[i - 1] \in S
      BY <1>1, <2>3
    <3> QED BY <1>4, <2>2, <3>1
  <2>5. f = [i \in 0 .. n |-> IF i = 0 THEN t ELSE ParseMessage(f[i - 1], k, messages[i])]
    <3>1. f = [i \in 0 .. n |-> f[i]]
      BY <2>1 DEF Folded
    <3>2. \A i \in 0 .. n : f[i] = IF i = 0 THEN t ELSE ParseMessage(f[i - 1], k, messages[i])
      BY <1>1, <2>2, <2>4
    <3> QED BY <3>1, <3>2, Zenon
  <2> QED BY <2>5 DEF Parsed, n
<1> DEFINE g == CHOOSE f : Parsed(f, t, k, messages)
<1>6. Parsed(g, t, k, messages)
  BY <1>5
<1>7. ParseMessages(t, k, messages) = g[n]
  BY DEF ParseMessages, Parsed
<1>8. \A i \in 0 .. n : g[i] \in S
  <2> HIDE DEF S, g
  <2>1. g[0] = t /\ \A i \in 1 .. n : g[i] = ParseMessage(g[i - 1], k, messages[i])
    BY <1>1, <1>6 DEF Parsed
  <2>2. \A i \in 1 .. n : g[i - 1] \in S => g[i] \in S
    BY <1>2, <2>1
  <2> QED BY <1>1, <1>3, <2>1, <2>2, StaysIn
<1>9. g[n] \in S
  BY <1>1, <1>8
<1> QED BY <1>7, <1>9

(* A stream, if it arrives.                                                *)
LEMMA StreamReads ==
  ASSUME NEW t, NEW peace \in BOOLEAN, Reads(t, peace), now \in Clock, NEW k \in Session,
         NEW arrived
  PROVE  /\ Reads(ReceiveFrom(t, k, arrived), peace)
         /\ Players(ReceiveFrom(t, k, arrived)) = Players(t)
<1> DEFINE r == [t EXCEPT !.up[k] = <<>>]
<1>1. t \in Work /\ t.up[k] \in Streams
  BY DEF Reads, Work
<1>2. r \in Work
  <2>1. <<>> \in Streams
    BY DEF Streams
  <2>2. [t.up EXCEPT ![k] = <<>>] \in [Session -> Streams]
    BY <1>1, <2>1 DEF Work
  <2> QED BY <1>1, <2>2 DEF Work
<1>3. /\ r.stop = t.stop /\ r.heard = t.heard /\ r.start = t.start /\ r.pinged = t.pinged
      /\ r.since = t.since /\ r.udp = t.udp /\ r.up = [t.up EXCEPT ![k] = <<>>]
      /\ r.toDisconnect = t.toDisconnect /\ r.broadcast = t.broadcast /\ r.kicks = t.kicks
      /\ r.stopped = t.stopped
  BY <1>1 DEF Work
<1>4. peace => Calm(r) /\ Peaceful(t.up[k])
  <2>1. Peaceful(<<>>)
    BY DEF Peaceful
  <2>2. \A p \in Session : r.up[p] = IF p = k THEN <<>> ELSE t.up[p]
    BY <1>1, <1>3 DEF Work
  <2> HIDE DEF r
  <2> QED BY <1>3, <2>1, <2>2 DEF Reads, Calm, Idle, Players
<1>5. Reads(r, peace) /\ Players(r) = Players(t)
  <2> HIDE DEF r
  <2> QED BY <1>2, <1>3, <1>4, SameReads
<1>6. CASE k \in Players(t) \cap arrived
  <2>1. ReceiveFrom(t, k, arrived) = ParseMessages(r, k, t.up[k])
    BY <1>6 DEF ReceiveFrom, ReadStream
  <2> HIDE DEF r
  <2>2. k \in Players(r)
    BY <1>5, <1>6
  <2>3. /\ Reads(ParseMessages(r, k, t.up[k]), peace)
        /\ Players(ParseMessages(r, k, t.up[k])) = Players(r)
    BY <1>1, <1>4, <1>5, <2>2, MessagesRead
  <2> QED BY <1>5, <2>1, <2>3
<1>7. CASE k \notin Players(t) \cap arrived
  BY <1>7 DEF ReceiveFrom
<1> QED BY <1>6, <1>7

(* The streams of all players.                                             *)
Receiving(f, s, arrived) ==
  f = [k \in 0 .. MaxSessions |-> IF k = 0 THEN s ELSE ReceiveFrom(f[k - 1], k, arrived)]

LEMMA StreamsRead ==
  ASSUME NEW t, NEW peace \in BOOLEAN, Reads(t, peace), now \in Clock, NEW arrived
  PROVE  Reads(ReceiveReliable(t, arrived), peace)
<1> DEFINE n == MaxSessions
           S == {w \in Work : Reads(w, peace)}
           step == [x \in S \X (1 .. n) |-> ReceiveFrom(x[1], x[2], arrived)]
<1>1. n \in Nat /\ Session = 1 .. n
  BY SessionAssumption DEF Session
<1>2. ASSUME NEW w \in S, NEW i \in 1 .. n
      PROVE  ReceiveFrom(w, i, arrived) \in S
  <2>1. Reads(w, peace) /\ i \in Session
    BY <1>1
  <2>2. Reads(ReceiveFrom(w, i, arrived), peace)
    BY <2>1, StreamReads
  <2> QED BY <2>2 DEF Reads
<1>3. t \in S
  BY DEF Reads
<1>4. \A w \in S : \A i \in 1 .. n : step[<<w, i>>] = ReceiveFrom(w, i, arrived)
  OBVIOUS
<1>5. \E f : Receiving(f, t, arrived)
  <2> HIDE DEF S, n, step
  <2>1. PICK f : Folded(f, t, step, n)
    BY <1>1, FoldExists
  <2>2. f[0] = t /\ \A i \in 1 .. n : f[i] = step[<<f[i - 1], i>>]
    BY <1>1, <2>1 DEF Folded
  <2>3. \A i \in 0 .. n : f[i] \in S
    <3>1. \A i \in 1 .. n : f[i - 1] \in S => f[i] \in S
      BY <1>2, <1>4, <2>2
    <3> QED BY <1>1, <1>3, <2>2, <3>1, StaysIn
  <2>4. \A i \in 1 .. n : f[i] = ReceiveFrom(f[i - 1], i, arrived)
    <3>1. \A i \in 1 .. n : f[i - 1] \in S
      BY <1>1, <2>3
    <3> QED BY <1>4, <2>2, <3>1
  <2>5. f = [i \in 0 .. n |-> IF i = 0 THEN t ELSE ReceiveFrom(f[i - 1], i, arrived)]
    <3>1. f = [i \in 0 .. n |-> f[i]]
      BY <2>1 DEF Folded
    <3>2. \A i \in 0 .. n : f[i] = IF i = 0 THEN t ELSE ReceiveFrom(f[i - 1], i, arrived)
      BY <1>1, <2>2, <2>4
    <3> QED BY <3>1, <3>2, Zenon
  <2> QED BY <2>5 DEF Receiving, n
<1> DEFINE g == CHOOSE f : Receiving(f, t, arrived)
<1>6. Receiving(g, t, arrived)
  BY <1>5
<1>7. ReceiveReliable(t, arrived) = g[n]
  BY DEF ReceiveReliable, Receiving
<1>8. \A i \in 0 .. n : g[i] \in S
  <2> HIDE DEF S, g
  <2>1. g[0] = t /\ \A i \in 1 .. n : g[i] = ReceiveFrom(g[i - 1], i, arrived)
    BY <1>1, <1>6 DEF Receiving
  <2>2. \A i \in 1 .. n : g[i - 1] \in S => g[i] \in S
    BY <1>2, <2>1
  <2> QED BY <1>1, <1>3, <2>1, <2>2, StaysIn
<1>9. g[n] \in S
  BY <1>1, <1>8
<1> QED BY <1>7, <1>9

(* Only those who are not there are looked up in vain.                     *)
LEMMA DatagramsRead ==
  ASSUME NEW t, NEW peace \in BOOLEAN, Reads(t, peace), NEW arrived, peace => arrived = {}
  PROVE  Reads(ReceiveUnreliable(t, arrived), peace)
<1> DEFINE r == [t EXCEPT !.stopped = "udp"]
<1>1. t \in Work
  BY DEF Reads
<1>2. CASE ReceiveUnreliable(t, arrived) = t
  BY <1>2
<1>3. CASE ReceiveUnreliable(t, arrived) = r /\ arrived # {}
  <2>1. r \in Work
    BY <1>1 DEF Work, Reasons
  <2>2. /\ r.stop = t.stop /\ r.heard = t.heard /\ r.start = t.start /\ r.pinged = t.pinged
        /\ r.since = t.since
    BY <1>1 DEF Work
  <2>3. ~peace
    BY <1>3
  <2> HIDE DEF r
  <2>4. Reads(r, peace)
    BY <2>1, <2>2, <2>3, SameReads
  <2> QED BY <1>3, <2>4
<1> QED BY <1>2, <1>3 DEF ReceiveUnreliable, Unless, Stops

(* The server between two updates, when nothing that could stop it is      *)
(* under way.                                                              *)
AtPeace ==
  /\ Idle(server) /\ udp \subseteq Players(server)
  /\ \A k \in Session : Peaceful(up[k])

(* All that is read in an update.                                          *)
LEMMA UpdateReads ==
  ASSUME SessionTypeOK, NEW peace \in BOOLEAN, peace => AtPeace,
         NEW accepted, accepted => server.next \in Session,
         NEW streams, NEW datagrams \in SUBSET (udp \ Players(server))
  PROVE  Reads(Received(accepted, streams, datagrams), peace)
<1>1. server \in Servers /\ up \in [Session -> Streams] /\ udp \in SUBSET Session
      /\ now \in Clock
  BY DEF SessionTypeOK
<1>2. Began \in Work
  BY <1>1 DEF Began, Work, Servers
<1>3. /\ Began.stop = server.stop /\ Began.heard = {} /\ Began.start = server.start
      /\ Began.pinged = server.pinged /\ Began.since = server.since
      /\ Began.udp = udp /\ Began.up = up /\ Began.next = server.next
      /\ Began.toDisconnect = server.toDisconnect /\ Began.broadcast = server.broadcast
      /\ Began.kicks = server.kicks /\ Began.stopped = server.stopped
  BY DEF Began
<1>4. Reads(Began, peace)
  BY <1>2, <1>3 DEF Reads, Reading, Calm, Idle, AtPeace, Players
<1>5. Reads(IF accepted THEN AcceptNewConnections(Began) ELSE Began, peace)
  <2>1. accepted => Reads(AcceptNewConnections(Began), peace)
    BY <1>1, <1>3, <1>4, AcceptReads
  <2> QED BY <1>4, <2>1
<1>6. Reads(ReceiveReliable(IF accepted THEN AcceptNewConnections(Began) ELSE Began, streams), peace)
  BY <1>1, <1>5, StreamsRead
<1>7. peace => datagrams = {}
  BY DEF AtPeace
<1> QED BY <1>6, <1>7, DatagramsRead DEF Received

-----------------------------------------------------------------------------
(* The stages after what was read: players leave, and nobody is heard of.  *)

(* r is what a later stage makes of t: nobody came, nobody was heard of.   *)
Follows(t, r) ==
  /\ r \in Work /\ r.heard = t.heard /\ Players(r) \subseteq Players(t)
  /\ \A k \in Players(r) : r.stop[k] = t.stop[k]
  /\ r.stopped = "no" => t.stopped = "no"

(* No ping was sent.                                                       *)
Untimed(t, r) == r.start = t.start /\ r.pinged = t.pinged /\ r.since = t.since

(* One stage after the other.                                              *)
LEMMA FollowsOn ==
  ASSUME NEW t, NEW r, NEW q, Follows(t, r), Follows(r, q)
  PROVE  Follows(t, q)
  BY DEF Follows

(* Players are taken out, ...                                              *)
LEMMA WithoutFollows ==
  ASSUME NEW t \in Work, NEW removed
  PROVE  /\ Follows(t, Without(t, removed)) /\ Untimed(t, Without(t, removed))
         /\ Players(Without(t, removed)) = Players(t) \ removed
         /\ Without(t, removed).stopped = t.stopped
         /\ Without(t, removed).toDisconnect = t.toDisconnect
         /\ Without(t, removed).broadcast = t.broadcast
         /\ Without(t, removed).kicks = t.kicks
         /\ Without(t, removed).udp = t.udp /\ Without(t, removed).up = t.up
<1> DEFINE f == [k \in Players(t) \ removed |-> t.stop[k]]
           r == Without(t, removed)
<1>1. t.stop \in Stamps
  BY DEF Work
<1>2. f \in Stamps /\ DOMAIN f = Players(t) \ removed
  <2>1. Players(t) \ removed \in SUBSET Session
    BY <1>1, StampsOf DEF Players
  <2> QED BY <1>1, <2>1, StampsOf, StampsAre DEF Players
<1>3. \A k \in DOMAIN f : f[k] = t.stop[k]
  OBVIOUS
<1> HIDE DEF f
<1>4. r = [t EXCEPT !.stop = f]
  BY DEF Without, f
<1>5. r \in Work
  BY <1>2, <1>4 DEF Work
<1>6. /\ r.stop = f /\ r.heard = t.heard /\ r.stopped = t.stopped /\ Untimed(t, r)
      /\ r.toDisconnect = t.toDisconnect /\ r.broadcast = t.broadcast /\ r.kicks = t.kicks
      /\ r.udp = t.udp /\ r.up = t.up
  BY <1>4 DEF Work, Untimed
<1> QED BY <1>2, <1>3, <1>5, <1>6 DEF Follows, Players

(* ... or the server stops.                                                *)
LEMMA StopsFollows ==
  ASSUME NEW t \in Work, NEW why \in Reasons \ {"no"}
  PROVE  /\ Follows(t, Stops(t, why)) /\ Untimed(t, Stops(t, why))
         /\ Stops(t, why).stopped # "no"
<1> DEFINE r == Stops(t, why)
<1>1. r \in Work
  BY DEF Work, Stops
<1>2. /\ r.stop = t.stop /\ r.heard = t.heard /\ r.stopped = why /\ Untimed(t, r)
  BY DEF Work, Stops, Untimed
<1> QED BY <1>1, <1>2 DEF Follows, Players

(* Those who said so are disconnected.                                     *)
LEMMA DisconnectFollows ==
  ASSUME NEW t \in Work
  PROVE  /\ Follows(t, DisconnectPlayers(t)) /\ Untimed(t, DisconnectPlayers(t))
         /\ Calm(t) => Calm(DisconnectPlayers(t))
<1> DEFINE leaving == {t.toDisconnect[i] : i \in DOMAIN t.toDisconnect}
           w == Without(t, leaving)
           r == [w EXCEPT !.toDisconnect = <<>>]
<1>1. CASE t.stopped # "no"
  BY <1>1 DEF DisconnectPlayers, Unless, Follows, Untimed
<1>2. CASE /\ t.stopped = "no"
           /\ leaving \subseteq Players(t) /\ Cardinality(leaving) = Len(t.toDisconnect)
  <2>1. DisconnectPlayers(t) = r
    BY <1>2 DEF DisconnectPlayers, Unless
  <2>2. Calm(t) => leaving = {}
    BY DEF Calm, Idle
  <2> HIDE DEF leaving
  <2>3. /\ Follows(t, w) /\ Untimed(t, w) /\ Players(w) = Players(t) \ leaving
        /\ w.stopped = t.stopped /\ w.broadcast = t.broadcast /\ w.kicks = t.kicks
        /\ w.udp = t.udp /\ w.up = t.up
    BY WithoutFollows
  <2> HIDE DEF w
  <2>4. w \in Work /\ r \in Work
    <3>1. w \in Work
      BY <2>3 DEF Follows
    <3>2. <<>> \in Seq(Session)
      OBVIOUS
    <3> QED BY <3>1, <3>2 DEF Work
  <2>5. /\ r.stop = w.stop /\ r.heard = w.heard /\ r.stopped = w.stopped /\ Untimed(w, r)
        /\ r.toDisconnect = <<>> /\ r.broadcast = w.broadcast /\ r.kicks = w.kicks
        /\ r.udp = w.udp /\ r.up = w.up
    BY <2>4 DEF Work, Untimed
  <2> HIDE DEF r
  <2>6. Follows(t, r) /\ Untimed(t, r) /\ Players(r) = Players(w)
    BY <2>3, <2>4, <2>5 DEF Follows, Untimed, Players
  <2>7. Calm(t) => Calm(r)
    BY <2>2, <2>3, <2>5, <2>6 DEF Calm, Idle
  <2> QED BY <2>1, <2>6, <2>7
<1>3. CASE /\ t.stopped = "no"
           /\ ~(leaving \subseteq Players(t) /\ Cardinality(leaving) = Len(t.toDisconnect))
  <2>1. DisconnectPlayers(t) = Stops(t, "disconnect")
    BY <1>3 DEF DisconnectPlayers, Unless
  <2>2. ~Calm(t)
    <3>1. ASSUME Calm(t) PROVE leaving = {} /\ t.toDisconnect = <<>>
      BY <3>1 DEF Calm, Idle
    <3>2. Len(<<>>) = 0
      OBVIOUS
    <3> QED BY <1>3, <3>1, <3>2, FS_EmptySet
  <2> QED BY <2>1, <2>2, StopsFollows DEF Reasons
<1> QED BY <1>1, <1>2, <1>3

(* A snapshot takes the commands along.                                    *)
LEMMA SnapshotFollows ==
  ASSUME NEW t \in Work
  PROVE  /\ Follows(t, SendSnapshot(t)) /\ Untimed(t, SendSnapshot(t))
         /\ Calm(t) => Calm(SendSnapshot(t))
<1> DEFINE r == [t EXCEPT !.broadcast = <<>>]
<1>1. CASE SendSnapshot(t) = t
  BY <1>1 DEF Follows, Untimed
<1>2. CASE SendSnapshot(t) = r /\ t.stopped = "no"
  <2>1. <<>> \in Seq(Session)
    OBVIOUS
  <2>2. r \in Work
    BY <2>1 DEF Work
  <2>3. /\ r.stop = t.stop /\ r.heard = t.heard /\ r.stopped = t.stopped /\ Untimed(t, r)
        /\ r.toDisconnect = t.toDisconnect /\ r.broadcast = <<>> /\ r.kicks = t.kicks
        /\ r.udp = t.udp /\ r.up = t.up
    BY DEF Work, Untimed
  <2> HIDE DEF r
  <2> QED BY <1>2, <2>2, <2>3 DEF Follows, Players, Calm, Idle
<1>3. CASE SendSnapshot(t) = Stops(t, "command") /\ ~Calm(t)
  BY <1>3, StopsFollows DEF Reasons
<1>4. \/ SendSnapshot(t) = t
      \/ SendSnapshot(t) = r /\ t.stopped = "no"
      \/ SendSnapshot(t) = Stops(t, "command") /\ ~Calm(t)
  BY DEF SendSnapshot, Unless, AddInputCommandsToPacket, Calm, Idle
<1> QED BY <1>1, <1>2, <1>3, <1>4

(* When the ping was sent, and how long ago.                               *)
Timed(t, r) ==
  \/ t.since + 1 >= PingPeriod /\ r.start = now /\ r.pinged = TRUE /\ r.since = 0
  \/ t.since + 1 < PingPeriod /\ r.start = t.start /\ r.pinged = t.pinged /\ r.since = t.since + 1

(* An answer to a ping is peaceful.                                        *)
LEMMA AnsweredPeacefully ==
  ASSUME NEW stream \in Streams
  PROVE  /\ Answered(stream) \in Streams
         /\ Peaceful(stream) => Peaceful(Answered(stream))
<1>1. Message("Ping") \in Messages /\ Message("Ping").is = "Ping"
  BY DEF Message, Messages, Kinds
<1>2. Append(stream, Message("Ping")) \in Streams
  BY <1>1 DEF Streams
<1>3. \A i \in DOMAIN Append(stream, Message("Ping")) :
        \/ i \in DOMAIN stream /\ Append(stream, Message("Ping"))[i] = stream[i]
        \/ Append(stream, Message("Ping"))[i] = Message("Ping")
  BY <1>1 DEF Streams
<1>4. Peaceful(stream) => Peaceful(Append(stream, Message("Ping")))
  BY <1>1, <1>3 DEF Peaceful
<1> QED BY <1>2, <1>4 DEF Answered

(* A ping, if it is time for one.                                          *)
LEMMA PingFollows ==
  ASSUME NEW t \in Work, now \in Clock
  PROVE  /\ Follows(t, PingIfDue(t))
         /\ PingIfDue(t).stopped = "no" => Timed(t, PingIfDue(t))
         /\ Calm(t) => Calm(PingIfDue(t))
<1> DEFINE r == [t EXCEPT !.since = @ + 1]
<1>1. r \in Work /\ t.since \in Nat
  BY DEF Work
<1>2. /\ r.stop = t.stop /\ r.heard = t.heard /\ r.stopped = t.stopped
      /\ r.start = t.start /\ r.pinged = t.pinged /\ r.since = t.since + 1
      /\ r.toDisconnect = t.toDisconnect /\ r.broadcast = t.broadcast /\ r.kicks = t.kicks
      /\ r.udp = t.udp /\ r.up = t.up
  BY DEF Work
<1>3. Players(r) = Players(t)
  BY <1>2 DEF Players
<1>4. PingIfDue(t) = IF t.since + 1 >= PingPeriod THEN SendPing(r) ELSE r
  BY DEF PingIfDue
<1> HIDE DEF r
<1>5. Follows(t, r) /\ (Calm(t) => Calm(r))
  BY <1>1, <1>2, <1>3 DEF Follows, Calm, Idle
<1>6. CASE t.since + 1 >= PingPeriod /\ t.stopped = "no"
  <2> DEFINE g == [k \in Session |-> IF k \in Players(r) /\ Listens(k)
                                     THEN Answered(r.up[k]) ELSE r.up[k]]
             p == [r EXCEPT !.start = now, !.pinged = TRUE, !.since = 0, !.up = g]
  <2>1. PingIfDue(t) = p
    BY <1>2, <1>4, <1>6 DEF SendPing, Unless
  <2>2. \A k \in Session : r.up[k] \in Streams
    BY <1>1 DEF Work
  <2>3. g \in [Session -> Streams]
    BY <2>2, AnsweredPeacefully
  <2>4. \A k \in Session : Peaceful(r.up[k]) => Peaceful(g[k])
    BY <2>2, AnsweredPeacefully
  <2> HIDE DEF g
  <2>5. p \in Work
    BY <1>1, <2>3 DEF Work
  <2>6. /\ p.stop = r.stop /\ p.heard = r.heard /\ p.stopped = r.stopped
        /\ p.start = now /\ p.pinged = TRUE /\ p.since = 0
        /\ p.toDisconnect = r.toDisconnect /\ p.broadcast = r.broadcast /\ p.kicks = r.kicks
        /\ p.udp = r.udp /\ p.up = g
    BY <1>1 DEF Work
  <2>7. Players(p) = Players(r)
    BY <2>6 DEF Players
  <2> HIDE DEF p
  <2>8. Follows(t, p)
    BY <1>2, <1>3, <2>5, <2>6, <2>7 DEF Follows
  <2>9. Calm(r) => Calm(p)
    BY <2>4, <2>6, <2>7 DEF Calm, Idle
  <2>10. Timed(t, p)
    BY <1>6, <2>6 DEF Timed
  <2> QED BY <1>5, <2>1, <2>8, <2>9, <2>10
<1>7. CASE t.since + 1 >= PingPeriod /\ t.stopped # "no"
  <2>1. PingIfDue(t) = r
    BY <1>2, <1>4, <1>7 DEF SendPing, Unless
  <2> QED BY <1>2, <1>5, <1>7, <2>1
<1>8. CASE t.since + 1 < PingPeriod
  <2>1. PingIfDue(t) = r
    BY <1>1, <1>4, <1>8, SessionAssumption
  <2> QED BY <1>2, <1>5, <1>8, <2>1 DEF Timed
<1> QED BY <1>1, <1>6, <1>7, <1>8, SessionAssumption

(* The server up to the check for time-outs.                               *)
LEMMA PingedFollows ==
  ASSUME NEW t \in Work, now \in Clock, NEW snapshot \in BOOLEAN
  PROVE  /\ Follows(t, Pinged(t, snapshot))
         /\ Pinged(t, snapshot).stopped = "no" => Timed(t, Pinged(t, snapshot))
         /\ Calm(t) => Calm(Pinged(t, snapshot))
<1> DEFINE d == DisconnectPlayers(t)
           r == IF snapshot THEN SendSnapshot(d) ELSE d
<1>1. Follows(t, d) /\ Untimed(t, d) /\ (Calm(t) => Calm(d))
  BY DisconnectFollows
<1> HIDE DEF d
<1>2. d \in Work
  BY <1>1 DEF Follows
<1>3. Follows(t, r) /\ Untimed(t, r) /\ (Calm(t) => Calm(r))
  <2>1. /\ Follows(d, SendSnapshot(d)) /\ Untimed(d, SendSnapshot(d))
        /\ Calm(d) => Calm(SendSnapshot(d))
    BY <1>2, SnapshotFollows
  <2>2. Follows(t, SendSnapshot(d))
    BY <1>1, <2>1, FollowsOn
  <2> QED BY <1>1, <2>1, <2>2 DEF Untimed
<1>4. Pinged(t, snapshot) = PingIfDue(r)
  BY DEF Pinged, d
<1> HIDE DEF r
<1>5. r \in Work
  BY <1>3 DEF Follows
<1>6. /\ Follows(r, PingIfDue(r))
      /\ PingIfDue(r).stopped = "no" => Timed(r, PingIfDue(r))
      /\ Calm(r) => Calm(PingIfDue(r))
  BY <1>5, PingFollows
<1>7. Follows(t, PingIfDue(r))
  BY <1>3, <1>6, FollowsOn
<1>8. Timed(r, PingIfDue(r)) => Timed(t, PingIfDue(r))
  BY <1>3 DEF Timed, Untimed
<1> QED BY <1>3, <1>4, <1>6, <1>7, <1>8

(* The check for time-outs takes out who is timed out, and nothing else.   *)
LEMMA CheckFollows ==
  ASSUME NEW t \in Work
  PROVE  LET c == CheckForTimeOuts(t) IN
         /\ Follows(t, c) /\ Untimed(t, c) /\ c.stopped = t.stopped
         /\ c.toDisconnect = t.toDisconnect /\ c.broadcast = t.broadcast /\ c.kicks = t.kicks
         /\ c.udp = t.udp /\ c.up = t.up
         /\ Players(c) = IF t.stopped = "no" THEN Players(t) \ TimedOut(t) ELSE Players(t)
<1>1. CASE t.stopped = "no"
  BY <1>1, WithoutFollows DEF CheckForTimeOuts, Unless
<1>2. CASE t.stopped # "no"
  BY <1>2 DEF CheckForTimeOuts, Unless, Follows, Untimed
<1> QED BY <1>1, <1>2

(* A kick, whether it works or stops the server.                           *)
LEMMA KickFollows ==
  ASSUME NEW t \in Work
  PROVE  Follows(t, Kick(t)) /\ Untimed(t, Kick(t))
<1>1. \/ Kick(t) = t
      \/ Kick(t) = Stops(t, "disconnect")
      \/ Kick(t) = Stops(t, "kick")
      \/ Kick(t) = Without(t, {1})
  BY DEF Kick, Unless
<1>2. Follows(t, t) /\ Untimed(t, t)
  BY DEF Follows, Untimed
<1>3. "disconnect" \in Reasons \ {"no"} /\ "kick" \in Reasons \ {"no"}
  BY DEF Reasons
<1> QED BY <1>1, <1>2, <1>3, WithoutFollows, StopsFollows

(* The events of the last update; there are none in peace.                 *)
LEMMA EventsFollow ==
  ASSUME NEW t \in Work
  PROVE  /\ Follows(t, ProcessEvents(t)) /\ Untimed(t, ProcessEvents(t))
         /\ Idle(t) => /\ Idle(ProcessEvents(t)) /\ ProcessEvents(t).stop = t.stop
                       /\ ProcessEvents(t).udp = t.udp /\ ProcessEvents(t).up = t.up
<1> DEFINE r == CASE t.kicks.read = 0 -> t
                  [] t.kicks.read = 1 -> Kick(t)
                  [] OTHER -> Kick(Kick(t))
           z == [written |-> 0, read |-> t.kicks.written]
           l == IF t.kicks.written = 0 THEN 0 ELSE r.last
           q == [r EXCEPT !.kicks = z, !.last = l]
<1>1. Follows(t, r) /\ Untimed(t, r)
  <2>1. Follows(t, t) /\ Untimed(t, t)
    BY DEF Follows, Untimed
  <2>2. Follows(t, Kick(t)) /\ Untimed(t, Kick(t)) /\ Kick(t) \in Work
    BY KickFollows DEF Follows
  <2>3. Follows(Kick(t), Kick(Kick(t))) /\ Untimed(Kick(t), Kick(Kick(t)))
    BY <2>2, KickFollows
  <2>4. Follows(t, Kick(Kick(t))) /\ Untimed(t, Kick(Kick(t)))
    BY <2>2, <2>3, FollowsOn DEF Untimed
  <2> QED BY <2>1, <2>2, <2>4
<1>2. Idle(t) => r = t /\ t.kicks.written = 0
  BY DEF Idle
<1>3. ProcessEvents(t) = IF r.stopped # "no" THEN r ELSE q
  <2>1. r \in Work
    BY <1>1 DEF Follows
  <2>2. [r EXCEPT !.kicks = z, !.last = IF t.kicks.written = 0 THEN 0 ELSE @] = q
    BY <2>1 DEF Work
  <2> QED BY <2>2 DEF ProcessEvents, Unless
<1>4. z \in [written : Nat, read : Nat] /\ (t.kicks.written = 0 => z = [written |-> 0, read |-> 0])
  BY DEF Work
<1> HIDE DEF r
<1>5. r \in Work /\ l \in Nat
  BY <1>1 DEF Follows, Work
<1> HIDE DEF z, l
<1>6. q \in Work
  BY <1>4, <1>5 DEF Work
<1>7. /\ q.stop = r.stop /\ q.heard = r.heard /\ q.stopped = r.stopped /\ Untimed(r, q)
      /\ q.toDisconnect = r.toDisconnect /\ q.broadcast = r.broadcast /\ q.kicks = z
      /\ q.udp = r.udp /\ q.up = r.up
  BY <1>5 DEF Work, Untimed
<1> HIDE DEF q
<1>8. Follows(t, q) /\ Untimed(t, q)
  BY <1>1, <1>6, <1>7 DEF Follows, Untimed, Players
<1>9. ASSUME Idle(t)
      PROVE  /\ ProcessEvents(t) = q /\ Idle(q) /\ q.stop = t.stop
             /\ q.udp = t.udp /\ q.up = t.up
  BY <1>2, <1>3, <1>4, <1>7, <1>9 DEF Idle
<1> QED BY <1>1, <1>3, <1>8, <1>9

-----------------------------------------------------------------------------
(* The stages of an update.                                                *)

Stages(received, pinged, checked, s, peace) ==
  /\ Reads(received, peace)
  /\ Follows(received, pinged)
  /\ pinged.stopped = "no" => Timed(received, pinged)
  /\ Follows(pinged, checked) /\ Untimed(pinged, checked)
  /\ Players(checked) = IF pinged.stopped = "no" THEN Players(pinged) \ TimedOut(pinged)
                        ELSE Players(pinged)
  /\ Follows(checked, s) /\ Untimed(checked, s)
  /\ peace => /\ Calm(pinged) /\ Idle(s)
              /\ s.stop = checked.stop /\ s.udp = pinged.udp /\ s.up = pinged.up

(* Every update has these stages.                                          *)
LEMMA TickStages ==
  ASSUME SessionTypeOK, Tick, NEW peace \in BOOLEAN, peace => AtPeace
  PROVE  \E received, pinged, checked, s :
           Leave(received, pinged, checked, s) /\ Stages(received, pinged, checked, s, peace)
<1>1. now \in Clock
  BY DEF SessionTypeOK
<1>2. PICK streams \in SUBSET {k \in Session : up[k] # <<>>},
           datagrams \in SUBSET (udp \ Players(server)) :
        Update(server.next \in Opened, streams, datagrams)
  BY DEF Tick
<1> DEFINE received == Received(server.next \in Opened, streams, datagrams)
<1>3. PICK snapshot \in BOOLEAN :
        LET pinged == Pinged(received, snapshot)
            checked == CheckForTimeOuts(pinged)
        IN Leave(received, pinged, checked, ProcessEvents(checked))
  BY <1>2 DEF Update
<1> DEFINE pinged == Pinged(received, snapshot)
           checked == CheckForTimeOuts(pinged)
           s == ProcessEvents(checked)
<1>4. Reads(received, peace)
  <2>1. server.next \in Opened => server.next \in Session
    BY DEF Opened
  <2> QED BY <2>1, UpdateReads
<1>5. Leave(received, pinged, checked, s)
  BY <1>3
<1> HIDE DEF received
<1>6. received \in Work /\ (peace => Calm(received))
  BY <1>4 DEF Reads
<1>7. /\ Follows(received, pinged)
      /\ pinged.stopped = "no" => Timed(received, pinged)
      /\ Calm(received) => Calm(pinged)
  BY <1>1, <1>6, PingedFollows
<1> HIDE DEF pinged
<1>8. pinged \in Work
  BY <1>7 DEF Follows
<1>9. /\ Follows(pinged, checked) /\ Untimed(pinged, checked) /\ checked.stopped = pinged.stopped
      /\ checked.toDisconnect = pinged.toDisconnect /\ checked.broadcast = pinged.broadcast
      /\ checked.kicks = pinged.kicks /\ checked.udp = pinged.udp /\ checked.up = pinged.up
      /\ Players(checked) = IF pinged.stopped = "no" THEN Players(pinged) \ TimedOut(pinged)
                            ELSE Players(pinged)
  BY <1>8, CheckFollows
<1> HIDE DEF checked
<1>10. checked \in Work
  BY <1>9 DEF Follows
<1>11. /\ Follows(checked, s) /\ Untimed(checked, s)
       /\ Idle(checked) => /\ Idle(s) /\ s.stop = checked.stop
                           /\ s.udp = checked.udp /\ s.up = checked.up
  BY <1>10, EventsFollow
<1>12. peace => Calm(pinged) /\ Idle(checked)
  BY <1>6, <1>7, <1>9 DEF Calm, Idle
<1> HIDE DEF s
<1>13. Stages(received, pinged, checked, s, peace)
  BY <1>4, <1>7, <1>9, <1>11, <1>12 DEF Stages
<1> QED BY <1>5, <1>13

-----------------------------------------------------------------------------
(* The clock. At the end of an update, t was n updates ago.                *)
Ago(t, n) == t + n + 1 \in {now, now + 2 * Half}

(* A time-out is only found when the clock overflowed.                     *)
LEMMA NotEarly ==
  ASSUME now \in Clock, NEW start \in Clock, NEW stop \in Clock,
         NEW since \in Nat, since < PingPeriod, start + since \in {now, now + 2 * Half},
         NEW a \in Nat, a = 0 \/ a < Timeout, stop + a \in {now, now + 2 * Half},
         Ms(start) > Ms(stop) + Timeout
  PROVE  Ms(start) - Ms(stop) > start - stop
  BY SessionAssumption DEF Clock, Ms

(* Who was not heard of for as long as that would have been timed out.     *)
LEMMA NotLate ==
  ASSUME now \in Clock, NEW start \in Clock, NEW stop \in Clock,
         NEW since \in Nat, since < PingPeriod, Ago(start, since), Ago(stop, Patience),
         ~(Ms(start) > Ms(stop) + Timeout)
  PROVE  Ms(stop) + Timeout + PingPeriod >= Half
  BY SessionAssumption DEF Clock, Ms, Patience, Ago

(* What was n updates ago is one more ago after the next.                  *)
LEMMA AgoNext ==
  ASSUME now \in Clock, now' = IF now + 1 = 2 * Half THEN 0 ELSE now + 1,
         NEW t \in Clock, NEW n \in Nat, n <= Patience, t + n \in {now, now + 2 * Half}
  PROVE  t + n + 1 \in {now', now' + 2 * Half}
  BY SessionAssumption DEF Clock, Patience

(* The last ping and the last answers lie as far back as the server and    *)
(* the history count, and nobody is due.                                   *)
ClocksAgree ==
  server.stopped = "no" =>
    /\ server.since < PingPeriod
    /\ server.pinged => Ago(server.start, server.since)
    /\ \A k \in Players(server) :
         /\ silent[k] <= Patience => Ago(server.stop[k], silent[k])
         /\ ~server.pinged => silent[k] <= server.since
         /\ ~(Ms(server.start) > Ms(server.stop[k]) + Timeout)

(* Nobody left, was removed or gave a command.                             *)
Quiet ==
  /\ given = 0
  /\ \A k \in Session : client[k] \in {"none", "open", "connected"} /\ ended[k] = "no"

(* The inductive invariant.                                                *)
SessionInv ==
  /\ SessionTypeOK
  /\ ClocksAgree
  /\ \A k \in Session \ Players(server) : silent[k] = 0
  /\ TimeOutsAreEarned
  /\ TheSilentAreRemoved
  /\ Quiet => AtPeace

(* It holds when the server starts, ...                                    *)
LEMMA InitSession == SessionInit => SessionInv
<1> SUFFICES ASSUME SessionInit PROVE SessionInv
  OBVIOUS
<1> USE DEF SessionInit
<1>1. PICK garbage \in Garbage :
        server = [stop |-> <<>>, toDisconnect |-> <<>>, broadcast |-> <<>>,
                  next |-> 1, last |-> 0, start |-> garbage, pinged |-> FALSE,
                  since |-> 0, kicks |-> [written |-> 0, read |-> 0], stopped |-> "no"]
  OBVIOUS
<1>2. garbage \in Clock
  BY SessionAssumption DEF Clock
<1>3. <<>> \in Stamps /\ DOMAIN <<>> = {} /\ <<>> \in Seq(Session) /\ <<>> \in Streams
  <2>1. <<>> = [k \in {} |-> <<>>[k]] /\ {} \in SUBSET Session
    OBVIOUS
  <2>2. <<>> \in Stamps
    BY <2>1, StampsAre
  <2> QED BY <2>2 DEF Streams
<1>4. Players(server) = {}
  BY <1>1, <1>3 DEF Players
<1>5. SessionTypeOK
  <2>1. server \in Servers
    BY <1>1, <1>2, <1>3 DEF Servers, Reasons
  <2>2. now \in Clock /\ 0 \in 0 .. Patience + 1
    BY SessionAssumption DEF Clock, Patience
  <2> QED BY <1>3, <2>1, <2>2 DEF SessionTypeOK
<1>6. ClocksAgree
  <2>1. server.since = 0 /\ server.pinged = FALSE
    BY <1>1
  <2>2. server.since < PingPeriod
    BY <2>1, SessionAssumption
  <2>3. ~server.pinged /\ \A k \in Players(server) : FALSE
    BY <1>4, <2>1
  <2> QED BY <2>2, <2>3, Zenon DEF ClocksAgree
<1>7. TimeOutsAreEarned /\ TheSilentAreRemoved
  BY SessionAssumption DEF TimeOutsAreEarned, TheSilentAreRemoved, Patience
<1>8. AtPeace
  BY <1>1, <1>3 DEF AtPeace, Idle, Peaceful
<1> QED BY <1>5, <1>6, <1>7, <1>8 DEF SessionInv

(* What is left of an update.                                              *)
LEMMA TickTypes ==
  ASSUME SessionInv, Tick, NEW received, NEW pinged, NEW checked, NEW s, NEW peace,
         Leave(received, pinged, checked, s), Stages(received, pinged, checked, s, peace)
  PROVE  SessionTypeOK'
<1>1. s \in Work
  BY DEF Stages, Follows
<1>2. server' \in Servers
  BY <1>1 DEF Leave, Work, Servers
<1>3. udp' \in SUBSET Session
  BY <1>1 DEF Leave, Work
<1>4. up' \in [Session -> Streams]
  <2>1. \A k \in Session : s.up[k] \in Streams
    BY <1>1 DEF Work
  <2>2. <<>> \in Streams
    BY DEF Streams
  <2> QED BY <2>1, <2>2 DEF Leave
<1>5. now' \in Clock /\ given' \in Nat
  BY SessionAssumption DEF SessionInv, SessionTypeOK, Tick, Clock
<1>6. client' \in [Session -> {"none", "open", "connected", "left", "vanished"}]
  BY DEF Leave, SessionInv, SessionTypeOK
<1>7. ended' \in [Session -> {"no", "early", "yes"}]
  BY DEF Leave, SessionInv, SessionTypeOK
<1>8. silent' \in [Session -> 0 .. Patience + 1]
  <2>1. \A k \in Session : 0 \in 0 .. Patience + 1
                           /\ AtMost(silent[k] + 1, Patience + 1) \in 0 .. Patience + 1
    BY SessionAssumption DEF SessionInv, SessionTypeOK, AtMost, Patience
  <2> QED BY <2>1 DEF Leave
<1> QED BY <1>2, <1>3, <1>4, <1>5, <1>6, <1>7, <1>8 DEF SessionTypeOK

(* What an update leaves of a player: who was heard of and when.           *)
LEMMA TickPlayers ==
  ASSUME SessionInv, Tick, NEW received, NEW pinged, NEW checked, NEW s, NEW peace,
         Leave(received, pinged, checked, s), Stages(received, pinged, checked, s, peace)
  PROVE  /\ server.stopped = "no"
         /\ Players(server)' = Players(s) /\ server'.stopped = s.stopped
         /\ server'.stop = s.stop /\ Untimed(pinged, server')
         /\ s.stopped = "no" => /\ checked.stopped = "no" /\ pinged.stopped = "no"
                                /\ Timed(received, pinged)
         /\ Timed(received, pinged) => Timed(server, pinged)
         /\ Players(s) \subseteq Players(checked) /\ Players(checked) \subseteq Players(pinged)
         /\ Players(pinged) \subseteq Players(received) /\ Players(received) \subseteq Session
         /\ \A k \in Players(s) : s.stop[k] = pinged.stop[k]
         /\ \A k \in Players(pinged) : /\ pinged.stop[k] \in Clock
                                       /\ pinged.stop[k] = received.stop[k]
         /\ \A k \in Players(received) :
              IF k \in received.heard THEN received.stop[k] = now
              ELSE k \in Players(server) /\ received.stop[k] = server.stop[k]
<1>1. s \in Work /\ pinged \in Work /\ received \in Work
  BY DEF Stages, Reads, Follows
<1>2. server.stopped = "no"
  BY DEF Tick
<1>3. /\ server'.stop = s.stop /\ server'.stopped = s.stopped
      /\ server'.start = s.start /\ server'.pinged = s.pinged /\ server'.since = s.since
  BY DEF Leave
<1>4. Players(server)' = Players(s)
  BY <1>3 DEF Players
<1>5. Untimed(pinged, server')
  BY <1>3 DEF Stages, Untimed
<1>6. Players(received) \subseteq Session
  BY <1>1, StampsOf DEF Work, Players
<1>7. \A k \in Players(pinged) : pinged.stop[k] \in Clock
  BY <1>1, StampsOf DEF Work, Players
<1> QED BY <1>2, <1>3, <1>4, <1>5, <1>6, <1>7 DEF Stages, Follows, Reads, Reading, Timed

(* Whoever is timed out was not heard of.                                  *)
LEMMA TickEarns ==
  ASSUME SessionInv, Tick, NEW received, NEW pinged, NEW checked, NEW s, NEW peace,
         Leave(received, pinged, checked, s), Stages(received, pinged, checked, s, peace),
         NEW k \in Session
  PROVE  ~Early(received, pinged, checked, k)
<1> SUFFICES ASSUME Early(received, pinged, checked, k) PROVE FALSE
  OBVIOUS
<1>1. /\ k \in Players(pinged) \ Players(checked) /\ pinged.pinged /\ ~Wrapped(pinged, k)
      /\ k \in received.heard \/ silent[k] + 1 < Timeout
  BY DEF Early
<1>2. pinged.stopped = "no" /\ k \in TimedOut(pinged)
  BY <1>1 DEF Stages
<1>3. Timed(server, pinged)
  BY <1>2, TickPlayers DEF Stages
<1>4. now \in Clock /\ silent[k] \in Nat /\ server.since \in Nat
  BY DEF SessionInv, SessionTypeOK, Servers
<1>5. pinged.start \in Clock /\ pinged.since \in Nat
  BY DEF Stages, Follows, Work
<1>6. pinged.since < PingPeriod /\ pinged.start + pinged.since \in {now, now + 2 * Half}
  <2>1. CASE pinged.start = now /\ pinged.since = 0
    BY <2>1, <1>4, SessionAssumption DEF Clock
  <2>2. CASE /\ server.since + 1 < PingPeriod /\ pinged.start = server.start
             /\ pinged.pinged = server.pinged /\ pinged.since = server.since + 1
    <3>1. Ago(server.start, server.since)
      BY <1>1, <2>2, TickPlayers DEF SessionInv, ClocksAgree
    <3>2. server.start \in Clock
      BY <1>5, <2>2
    <3> QED BY <1>4, <2>2, <3>1, <3>2, SessionAssumption DEF Ago, Clock
  <2> QED BY <1>3, <2>1, <2>2 DEF Timed
<1>7. /\ pinged.stop[k] \in Clock
      /\ IF k \in received.heard THEN pinged.stop[k] = now
         ELSE k \in Players(server) /\ pinged.stop[k] = server.stop[k]
  <2>1. k \in Players(pinged) /\ k \in Players(received)
    BY <1>1, TickPlayers
  <2> QED BY <2>1, TickPlayers
<1>8. \E a \in Nat : (a = 0 \/ a < Timeout) /\ pinged.stop[k] + a \in {now, now + 2 * Half}
  <2>1. CASE k \in received.heard
    <3>1. pinged.stop[k] + 0 = now
      BY <1>4, <1>7, <2>1 DEF Clock
    <3> QED BY <3>1
  <2>2. CASE k \notin received.heard
    <3>1. silent[k] + 1 < Timeout /\ silent[k] <= Patience
      BY <1>1, <1>4, <2>2, SessionAssumption DEF Patience
    <3>2. Ago(pinged.stop[k], silent[k])
      BY <1>7, <2>2, <3>1, TickPlayers DEF SessionInv, ClocksAgree
    <3>3. pinged.stop[k] + (silent[k] + 1) \in {now, now + 2 * Half} /\ silent[k] + 1 \in Nat
      BY <1>4, <1>7, <3>2, SessionAssumption DEF Ago, Clock
    <3> QED BY <3>1, <3>3
  <2> QED BY <2>1, <2>2
<1>9. Ms(pinged.start) > Ms(pinged.stop[k]) + Timeout
  BY <1>2 DEF TimedOut
<1>10. Ms(pinged.start) - Ms(pinged.stop[k]) > pinged.start - pinged.stop[k]
  BY <1>4, <1>5, <1>6, <1>7, <1>8, <1>9, NotEarly
<1> QED BY <1>1, <1>10 DEF Wrapped

(* The times go on.                                                        *)
LEMMA TickClocks ==
  ASSUME SessionInv, Tick, NEW received, NEW pinged, NEW checked, NEW s, NEW peace,
         Leave(received, pinged, checked, s), Stages(received, pinged, checked, s, peace)
  PROVE  /\ ClocksAgree' /\ TheSilentAreRemoved'
         /\ (\A k \in Session \ Players(server) : silent[k] = 0)'
<1>1. /\ now \in Clock /\ server.since \in Nat /\ server.start \in Clock
      /\ \A k \in Session : silent[k] \in 0 .. Patience + 1
      /\ Patience \in Nat /\ Timeout \in Nat /\ PingPeriod \in Nat \ {0}
  BY SessionAssumption DEF SessionInv, SessionTypeOK, Servers, Patience
<1>2. now' = IF now + 1 = 2 * Half THEN 0 ELSE now + 1
  BY DEF Tick
<1>3. \A k \in Session : silent'[k] =
        IF k \notin Players(s) \/ k \in received.heard THEN 0
        ELSE AtMost(silent[k] + 1, Patience + 1)
  BY DEF Leave
<1>4. \A k \in Session \ Players(server)' : silent'[k] = 0
  BY <1>3, TickPlayers
<1>5. pinged.start \in Clock /\ pinged.since \in Nat
  BY DEF Stages, Follows, Work
<1>6. SUFFICES ASSUME server'.stopped = "no"
               PROVE  ClocksAgree' /\ TheSilentAreRemoved'
  BY <1>4 DEF ClocksAgree, TheSilentAreRemoved
<1>7. /\ server.stopped = "no" /\ pinged.stopped = "no" /\ Timed(server, pinged)
      /\ server'.start = pinged.start /\ server'.pinged = pinged.pinged
      /\ server'.since = pinged.since /\ server'.stop = s.stop
      /\ Players(server)' = Players(s)
  BY <1>6, TickPlayers DEF Untimed
<1>8. server'.since < PingPeriod
  BY <1>1, <1>7 DEF Timed
<1>9. ASSUME server'.pinged
      PROVE  server'.start + server'.since + 1 \in {now', now' + 2 * Half}
  <2>1. CASE pinged.start = now /\ pinged.since = 0
    <3>1. now + 0 + 1 \in {now', now' + 2 * Half}
      BY <1>1, <1>2, SessionAssumption DEF Clock
    <3> QED BY <1>7, <2>1, <3>1
  <2>2. CASE /\ server.since + 1 < PingPeriod /\ pinged.start = server.start
             /\ pinged.pinged = server.pinged /\ pinged.since = server.since + 1
    <3>1. server.start + server.since + 1 \in {now, now + 2 * Half}
      BY <1>7, <1>9, <2>2 DEF SessionInv, ClocksAgree, Ago
    <3>2. server.start + (server.since + 1) \in {now, now + 2 * Half}
          /\ server.since + 1 \in Nat /\ server.since + 1 <= Patience
      BY <1>1, <2>2, <3>1, SessionAssumption DEF Clock, Patience
    <3>3. server.start + (server.since + 1) + 1 \in {now', now' + 2 * Half}
      BY <1>1, <1>2, <3>2, AgoNext
    <3> QED BY <1>7, <2>2, <3>3
  <2> QED BY <1>7, <2>1, <2>2 DEF Timed
<1>10. ASSUME NEW k \in Players(s)
       PROVE  /\ k \in Session /\ server'.stop[k] \in Clock
              /\ ~(Ms(server'.start) > Ms(server'.stop[k]) + Timeout)
              /\ IF k \in received.heard THEN server'.stop[k] = now /\ silent'[k] = 0
                 ELSE /\ k \in Players(server) /\ server'.stop[k] = server.stop[k]
                      /\ silent'[k] = IF silent[k] > Patience THEN Patience + 1 ELSE silent[k] + 1
  <2>1. k \in Players(checked) /\ k \in Players(pinged) /\ k \in Players(received) /\ k \in Session
    BY TickPlayers
  <2>2. k \notin TimedOut(pinged)
    BY <1>7, <2>1 DEF Stages
  <2>3. server'.stop[k] = pinged.stop[k] /\ pinged.stop[k] \in Clock
    BY <1>7, <2>1, TickPlayers
  <2>4. ~(Ms(server'.start) > Ms(server'.stop[k]) + Timeout)
    BY <1>7, <2>1, <2>2, <2>3 DEF TimedOut
  <2>5. pinged.stop[k] = received.stop[k]
    BY <2>1, TickPlayers
  <2>6. IF k \in received.heard THEN received.stop[k] = now
        ELSE k \in Players(server) /\ received.stop[k] = server.stop[k]
    BY <2>1, TickPlayers
  <2>7. k \notin received.heard =>
          silent'[k] = IF silent[k] > Patience THEN Patience + 1 ELSE silent[k] + 1
    BY <1>1, <1>3, <2>1 DEF AtMost
  <2> QED BY <1>3, <2>1, <2>3, <2>4, <2>5, <2>6, <2>7
<1>11. ASSUME NEW k \in Players(s), silent'[k] <= Patience
       PROVE  server'.stop[k] + silent'[k] + 1 \in {now', now' + 2 * Half}
  <2>1. CASE k \in received.heard
    <3>1. now + 0 + 1 \in {now', now' + 2 * Half}
      BY <1>1, <1>2, SessionAssumption DEF Clock
    <3> QED BY <1>10, <2>1, <3>1
  <2>2. CASE k \notin received.heard
    <3>1. silent'[k] = silent[k] + 1 /\ silent[k] + 1 <= Patience /\ silent[k] + 1 \in Nat
          /\ k \in Players(server) /\ server'.stop[k] = server.stop[k] /\ server.stop[k] \in Clock
      BY <1>1, <1>10, <1>11, <2>2
    <3>2. server.stop[k] + silent[k] + 1 \in {now, now + 2 * Half}
      BY <1>1, <1>7, <1>10, <3>1 DEF SessionInv, ClocksAgree, Ago
    <3>3. server.stop[k] + (silent[k] + 1) \in {now, now + 2 * Half}
      BY <1>1, <1>10, <3>1, <3>2 DEF Clock
    <3>4. server.stop[k] + (silent[k] + 1) + 1 \in {now', now' + 2 * Half}
      BY <1>1, <1>2, <3>1, <3>3, AgoNext
    <3> QED BY <3>1, <3>4
  <2> QED BY <2>1, <2>2
<1>12. ASSUME NEW k \in Players(s), ~server'.pinged
       PROVE  silent'[k] <= server'.since
  <2>1. ~server.pinged /\ server'.since = server.since + 1
    BY <1>7, <1>12 DEF Timed
  <2>2. CASE k \in received.heard
    BY <1>1, <1>10, <2>1, <2>2
  <2>3. CASE k \notin received.heard
    <3>1. silent[k] <= server.since
      BY <1>7, <1>10, <2>1, <2>3 DEF SessionInv, ClocksAgree
    <3> QED BY <1>1, <1>10, <2>1, <2>3, <3>1, SessionAssumption DEF Patience
  <2> QED BY <2>2, <2>3
<1>13. ClocksAgree'
  BY <1>7, <1>8, <1>9, <1>10, <1>11, <1>12 DEF ClocksAgree, Ago
<1>14. ASSUME NEW k \in Session, silent'[k] > Patience
       PROVE  Ms(server'.stop[k]) + Timeout + PingPeriod >= Half
  <2>1. k \in Players(s) /\ k \notin received.heard
    BY <1>1, <1>3, <1>14
  <2>2. k \in Players(server) /\ server'.stop[k] = server.stop[k] /\ server.stop[k] \in Clock
    BY <1>10, <2>1
  <2>3. CASE silent[k] > Patience
    BY <1>7, <2>2, <2>3 DEF SessionInv, TheSilentAreRemoved
  <2>4. CASE ~(silent[k] > Patience)
    <3>1. silent[k] = Patience
      BY <1>1, <1>10, <1>14, <2>1, <2>4
    <3>2. server.pinged
      <4>1. silent[k] > server.since
        BY <1>1, <1>7, <3>1 DEF SessionInv, ClocksAgree, Patience
      <4> QED BY <1>1, <1>7, <2>2, <4>1 DEF SessionInv, ClocksAgree
    <3>3. /\ server.since < PingPeriod /\ Ago(server.start, server.since)
          /\ Ago(server.stop[k], Patience)
          /\ ~(Ms(server.start) > Ms(server.stop[k]) + Timeout)
      BY <1>1, <1>7, <2>2, <3>1, <3>2 DEF SessionInv, ClocksAgree
    <3> QED BY <1>1, <2>2, <3>3, NotLate
  <2> QED BY <2>3, <2>4
<1> QED BY <1>13, <1>14 DEF TheSilentAreRemoved

(* While nobody left, was removed or gave a command, nothing that could    *)
(* stop the server comes under way.                                        *)
LEMMA TickIsPeaceful ==
  ASSUME SessionInv, Tick, NEW received, NEW pinged, NEW checked, NEW s, NEW peace,
         Leave(received, pinged, checked, s), Stages(received, pinged, checked, s, peace),
         Quiet => peace, Quiet'
  PROVE  AtPeace'
<1>1. ASSUME NEW k \in Session
      PROVE  /\ ended[k] = "no" /\ client[k] \in {"none", "open", "connected"}
             /\ k \in Players(received) => k \in Players(s)
  <2>1. ended'[k] = "no" /\ client'[k] \in {"none", "open", "connected"}
    BY DEF Quiet
  <2>2. ~(k \in Players(received) /\ k \notin Players(s))
    BY <2>1 DEF Leave
  <2>3. ended'[k] = ended[k]
    BY <2>2 DEF Leave
  <2>4. client'[k] = client[k] \/ Listens(k)
    BY <2>2 DEF Leave
  <2> QED BY <2>1, <2>2, <2>3, <2>4 DEF Listens
<1>2. Quiet
  BY <1>1 DEF Quiet, Tick
<1>3. Calm(pinged) /\ Idle(s) /\ s.udp = pinged.udp /\ s.up = pinged.up
  BY <1>2 DEF Stages
<1>4. /\ Players(server)' = Players(s) /\ Players(pinged) \subseteq Players(received)
      /\ Players(received) \subseteq Session
  BY TickPlayers
<1>5. Idle(server')
  BY <1>3 DEF Leave, Idle
<1>6. udp' \subseteq Players(server)'
  BY <1>1, <1>3, <1>4 DEF Leave, Calm
<1>7. \A k \in Session : Peaceful(up'[k])
  <2>1. \A k \in Session : up'[k] = s.up[k]
    BY <1>1 DEF Leave
  <2> QED BY <1>3, <2>1 DEF Calm
<1> QED BY <1>5, <1>6, <1>7 DEF AtPeace

(* ... an update keeps it, ...                                             *)
LEMMA TickKeepsSession == SessionInv /\ Tick => SessionInv'
<1> SUFFICES ASSUME SessionInv, Tick PROVE SessionInv'
  OBVIOUS
<1> DEFINE peace == IF Quiet THEN TRUE ELSE FALSE
<1>1. PICK received, pinged, checked, s :
        Leave(received, pinged, checked, s) /\ Stages(received, pinged, checked, s, peace)
  <2>1. SessionTypeOK /\ (peace => AtPeace) /\ peace \in BOOLEAN
    BY DEF SessionInv
  <2> HIDE DEF peace
  <2> QED BY <2>1, TickStages
<1>2. SessionTypeOK'
  BY <1>1, TickTypes
<1>3. /\ ClocksAgree' /\ TheSilentAreRemoved'
      /\ (\A k \in Session \ Players(server) : silent[k] = 0)'
  BY <1>1, TickClocks
<1>4. TimeOutsAreEarned'
  <2>1. \A k \in Session : ~Early(received, pinged, checked, k)
    BY <1>1, TickEarns
  <2>2. \A k \in Session : ended'[k] \in {ended[k], "yes"}
    BY <1>1, <2>1 DEF Leave
  <2> QED BY <2>2 DEF SessionInv, TimeOutsAreEarned
<1>5. Quiet' => AtPeace'
  BY <1>1, TickIsPeaceful
<1> QED BY <1>2, <1>3, <1>4, <1>5 DEF SessionInv

(* A client sends a message, ...                                           *)
LEMMA SendKeepsTypes ==
  ASSUME SessionInv, NEW k \in Session, NEW m \in Messages, Sends(k, m)
  PROVE  /\ up' \in [Session -> Streams]
         /\ AtPeace /\ m.is \in {"Connect", "Ping"} => \A p \in Session : Peaceful(up'[p])
<1>1. up \in [Session -> Streams]
  BY DEF SessionInv, SessionTypeOK
<1>2. Append(up[k], m) \in Streams
  BY <1>1 DEF Streams
<1>3. \A p \in Session : up'[p] = IF p = k THEN Append(up[k], m) ELSE up[p]
  BY <1>1 DEF Sends
<1>4. ASSUME Peaceful(up[k]), m.is \in {"Connect", "Ping"} PROVE Peaceful(Append(up[k], m))
  <2>1. \A i \in DOMAIN Append(up[k], m) :
          Append(up[k], m)[i] = m \/ (i \in DOMAIN up[k] /\ Append(up[k], m)[i] = up[k][i])
    BY <1>1 DEF Streams
  <2> QED BY <1>4, <2>1 DEF Peaceful
<1> QED BY <1>1, <1>2, <1>3, <1>4 DEF AtPeace, Sends

(* ... or does something else, and the server and its times stay.          *)
LEMMA StayingKeeps ==
  ASSUME SessionInv, UNCHANGED <<server, udp, now, sessionHistory>>,
         up' \in [Session -> Streams], given' \in Nat,
         client' \in [Session -> {"none", "open", "connected", "left", "vanished"}],
         Quiet' => Quiet /\ \A p \in Session : Peaceful(up'[p])
  PROVE  SessionInv'
<1>1. UNCHANGED <<server, udp, now, ended, silent>>
  BY DEF sessionHistory
<1>2. SessionTypeOK'
  BY <1>1 DEF SessionInv, SessionTypeOK
<1>3. ClocksAgree' /\ TimeOutsAreEarned' /\ TheSilentAreRemoved'
      /\ (\A k \in Session \ Players(server) : silent[k] = 0)'
  BY <1>1 DEF SessionInv, ClocksAgree, Ago, TimeOutsAreEarned, TheSilentAreRemoved, Players
<1>4. Quiet' => AtPeace'
  BY <1>1 DEF SessionInv, AtPeace, Players
<1> QED BY <1>2, <1>3, <1>4 DEF SessionInv

(* ... so does whatever a client does, ...                                 *)
LEMMA ClientStepKeepsSession ==
  ASSUME SessionInv, NEW k \in Session, ClientStep(k)
  PROVE  SessionInv'
<1>1. /\ client \in [Session -> {"none", "open", "connected", "left", "vanished"}]
      /\ up \in [Session -> Streams] /\ given \in Nat
  BY DEF SessionInv, SessionTypeOK
<1>2. CASE Connect(k)
  <2>1. Message("Connect") \in Messages /\ Message("Connect").is = "Connect"
    BY DEF Message, Messages, Kinds
  <2>2. /\ up' \in [Session -> Streams]
        /\ AtPeace => \A p \in Session : Peaceful(up'[p])
    BY <1>2, <2>1, SendKeepsTypes DEF Connect
  <2>3. Quiet' => Quiet
    <3>1. client[k] = "none" /\ \A p \in Session : p # k => client'[p] = client[p]
      BY <1>1, <1>2 DEF Connect
    <3>2. given' = given /\ ended' = ended
      BY <1>2 DEF Connect, sessionHistory
    <3> QED BY <3>1, <3>2 DEF Quiet
  <2>4. Quiet' => Quiet /\ \A p \in Session : Peaceful(up'[p])
    BY <2>2, <2>3 DEF SessionInv
  <2>5. /\ UNCHANGED <<server, udp, now, sessionHistory>> /\ given' \in Nat
        /\ client' \in [Session -> {"none", "open", "connected", "left", "vanished"}]
    BY <1>1, <1>2 DEF Connect
  <2> QED BY <2>2, <2>4, <2>5, StayingKeeps
<1>3. CASE Disconnect(k)
  <2>1. Message("Disconnect") \in Messages
    BY DEF Message, Messages, Kinds
  <2>2. up' \in [Session -> Streams]
    BY <1>3, <2>1, SendKeepsTypes DEF Disconnect
  <2>3. ~Quiet'
    <3>1. client'[k] = "left"
      BY <1>1, <1>3 DEF Disconnect
    <3> QED BY <3>1 DEF Quiet
  <2>4. /\ UNCHANGED <<server, udp, now, sessionHistory>> /\ given' \in Nat
        /\ client' \in [Session -> {"none", "open", "connected", "left", "vanished"}]
    BY <1>1, <1>3 DEF Disconnect
  <2> QED BY <2>2, <2>3, <2>4, StayingKeeps
<1>4. CASE Vanish(k)
  <2>1. ~Quiet'
    <3>1. client'[k] = "vanished"
      BY <1>1, <1>4 DEF Vanish
    <3> QED BY <3>1 DEF Quiet
  <2>2. /\ UNCHANGED <<server, udp, now, sessionHistory>> /\ given' \in Nat /\ up' = up
        /\ client' \in [Session -> {"none", "open", "connected", "left", "vanished"}]
    BY <1>1, <1>4 DEF Vanish
  <2> QED BY <1>1, <2>1, <2>2, StayingKeeps
<1>5. ASSUME NEW command \in Command, OnInputCommand(k, command) PROVE SessionInv'
  <2>1. Input(command) \in Messages
    BY DEF Input, Messages, Kinds
  <2>2. up' \in [Session -> Streams]
    BY <1>5, <2>1, SendKeepsTypes DEF OnInputCommand
  <2>3. given' = given + 1 /\ given' \in Nat /\ ~Quiet'
    BY <1>1, <1>5 DEF OnInputCommand, Quiet
  <2>4. /\ UNCHANGED <<server, udp, now, sessionHistory>>
        /\ client' \in [Session -> {"none", "open", "connected", "left", "vanished"}]
    BY <1>1, <1>5 DEF OnInputCommand
  <2> QED BY <2>2, <2>3, <2>4, StayingKeeps
<1> QED BY <1>2, <1>3, <1>4, <1>5 DEF ClientStep

(* ... and hence every step.                                               *)
LEMMA SessionStep == SessionInv /\ [SessionNext]_sessionVars => SessionInv'
<1> SUFFICES ASSUME SessionInv, [SessionNext]_sessionVars PROVE SessionInv'
  OBVIOUS
<1>1. CASE Tick
  BY <1>1, TickKeepsSession
<1>2. ASSUME NEW k \in Session, ClientStep(k) PROVE SessionInv'
  BY <1>2, ClientStepKeepsSession
<1>3. CASE UNCHANGED sessionVars
  <2>1. UNCHANGED <<server, client, up, udp, now, given, sessionHistory>>
    BY <1>3 DEF sessionVars
  <2>2. Quiet' => Quiet
    BY <2>1 DEF Quiet, sessionHistory
  <2>3. Quiet => \A p \in Session : Peaceful(up'[p])
    BY <2>1 DEF SessionInv, AtPeace
  <2> QED BY <2>1, <2>2, <2>3, StayingKeeps DEF SessionInv, SessionTypeOK
<1> QED BY <1>1, <1>2, <1>3 DEF SessionNext

(* The invariant of the sessions.                                          *)
LEMMA SessionIsConsistent == SessionSpec => []SessionInv
<1> QED BY InitSession, SessionStep, PTL DEF SessionSpec

(* The members of the server, what clients sent and the clock stay what    *)
(* they are said to be.                                                    *)
THEOREM SessionsAreTyped == SessionSpec => []SessionTypeOK
<1>1. SessionInv => SessionTypeOK
  BY DEF SessionInv
<1> QED BY SessionIsConsistent, <1>1, PTL

(* TimeOutsAreEarned of any number of sessions and commands, for any       *)
(* intervals that the clock can hold (Server.cpp:checkForTimeOuts).        *)
THEOREM TimeOutsAreAlwaysEarned == SessionSpec => []TimeOutsAreEarned
<1>1. SessionInv => TimeOutsAreEarned
  BY DEF SessionInv
<1> QED BY SessionIsConsistent, <1>1, PTL

(* TheSilentAreRemoved, of any number of sessions and commands: within a   *)
(* time-out and a ping interval.                                           *)
THEOREM TheSilentAreAlwaysRemoved == SessionSpec => []TheSilentAreRemoved
<1>1. SessionInv => TheSilentAreRemoved
  BY DEF SessionInv
<1> QED BY SessionIsConsistent, <1>1, PTL

(* ServerOutlivesWhoStays, of any number of sessions.                      *)
THEOREM ServerAlwaysOutlivesWhoStays == SessionSpec => []ServerOutlivesWhoStays
<1>1. SessionInv => ServerOutlivesWhoStays
  <2> SUFFICES ASSUME SessionInv, server.stopped # "no",
                      ~ \E k \in Session : client[k] \in {"left", "vanished"} \/ ended[k] # "no",
                      ~ (given > 0)
               PROVE  FALSE
    BY DEF ServerOutlivesWhoStays
  <2>1. \A k \in Session : client[k] \in {"none", "open", "connected"} /\ ended[k] = "no"
    BY DEF SessionInv, SessionTypeOK
  <2>2. given = 0
    BY DEF SessionInv, SessionTypeOK
  <2>3. AtPeace
    BY <2>1, <2>2 DEF SessionInv, Quiet
  <2> QED BY <2>3 DEF AtPeace, Idle
<1> QED BY SessionIsConsistent, <1>1, PTL
=============================================================================
