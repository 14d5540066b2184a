-------------------------------- MODULE World --------------------------------
(***************************************************************************)
(* The world (src/Engine/Core/World.cpp) every system shares: entities in  *)
(* a tree, each with components that lie in one pool per type              *)
(* (src/Engine/Core/ComponentPool.cpp). Systems reach both through         *)
(* EntityWrapper (src/Engine/Core/EntityWrapper.cpp), and keep wrappers of *)
(* entities that may be gone when they use them: every operation that does *)
(* not check its argument may be given the number of a dead entity.        *)
(*                                                                         *)
(* A component is named by its type, its entity and a number that tells    *)
(* those of one entity and type apart; where it lies is MemoryPool's       *)
(* matter. Names and the fields of components are left out.                *)
(***************************************************************************)
EXTENDS Integers, FiniteSets, Functions

CONSTANTS
  ComponentType,      (* the registered types                              *)
  MaxEntities,        (* bound on the ids handed out                       *)
  MaxComponents,      (* bound on the components there are at a time       *)
  TemplateParent,     (* the world of an entity file: parents,             *)
  TemplateComponents  (* and <<type, entity>> of its components            *)

EntityID_Invalid == -1

Template == DOMAIN TemplateParent

ASSUME WorldAssumption ==
  /\ MaxEntities \in Nat
  /\ MaxComponents \in Nat
  /\ IsFiniteSet(Template)
  /\ \A e \in Template : TemplateParent[e] \in Template \cup {EntityID_Invalid}
  /\ TemplateComponents \subseteq ComponentType \X Template
  (* The world of the file is a tree itself. *)
  /\ \A e \in Template : \E below \in SUBSET Template :
       /\ e \notin below
       /\ \A x \in Template : TemplateParent[x] \in below \cup {e} => x \in below

VARIABLES
  nextID,      (* m_CurrentEntityID                                        *)
  parents,     (* m_EntityParents                                          *)
  children,    (* m_EntityChildren, pairs of a parent and its child        *)
  components,  (* what the pools hold                                      *)
  latest,      (* m_EntityToComponent of every pool                        *)
  status,      (* how the program ended, if it did                         *)
  announced,   (* history: the EntityDeleted events of each entity         *)
  looped,      (* history: an entity was put below itself                  *)
  strays       (* history: components attached to the dead, or superseded  *)

vars == <<nextID, parents, children, components, latest, status, announced,
          looped, strays>>

tree == <<nextID, parents, children>>
pools == <<components, latest>>

Entity == 0 .. MaxEntities - 1
Live == DOMAIN parents
ValidEntity(e) == e \in Live
Created == 0 .. nextID - 1
Key == ComponentType \X Entity
HasComponent(k) == k \in DOMAIN latest

TreeTypeOK ==
  /\ nextID \in 0 .. MaxEntities
  /\ parents \in [Live -> Created \cup {EntityID_Invalid}]
  /\ Live \subseteq Created
  /\ status \in {"running", "thrown", "looping"}
  /\ announced \in [Entity -> Nat]
  /\ looped \in BOOLEAN

PoolTypeOK ==
  /\ \A c \in components : c = <<c[1], c[2], c[3]>> /\ <<c[1], c[2]>> \in Key
  /\ latest = [k \in DOMAIN latest |-> latest[k]]
  /\ DOMAIN latest \subseteq Key

TypeOK == TreeTypeOK /\ PoolTypeOK

Running == status = "running"

(* An exception nobody catches: map::at of a key that is not there. *)
Throws == status' = "thrown" /\ UNCHANGED <<tree, pools, announced, looped, strays>>

-----------------------------------------------------------------------------
(* The tree. *)

Children(e) == {c \in Live : <<e, c>> \in children}

ClosedDown(S) == \A pair \in children : pair[1] \in S => pair[2] \in S

(* What a deletion of the entities of S reaches. *)
Subtree(S) == {x \in Live : \A T \in SUBSET Live : S \subseteq T /\ ClosedDown(T) => x \in T}

BelowItself(e) == e \in Subtree(Children(e))

(* Mutant: Ids generated from the number of live entities. *)
NewIDsReused(n) == Cardinality(Live) .. Cardinality(Live) + n - 1

(* generateEntityID, for as many entities as N has. *)
NewIDs(n) == nextID .. nextID + n - 1

Insert(parentOf) ==
  /\ nextID + Cardinality(DOMAIN parentOf) <= MaxEntities
  /\ nextID' = nextID + Cardinality(DOMAIN parentOf)
  /\ parents' = [e \in Live \cup DOMAIN parentOf |->
                   IF e \in DOMAIN parentOf THEN parentOf[e] ELSE parents[e]]
  /\ children' = children \cup {<<parentOf[e], e>> : e \in DOMAIN parentOf}

(* The number of the next component of type k[1] of entity k[2]. *)
Fresh(k) == CHOOSE n \in 1 .. MaxComponents : <<k[1], k[2], n>> \notin components

(* ComponentPool::Allocate for every key of K: the map is overwritten. *)
AllocateAll(K) ==
  /\ Cardinality(components) + Cardinality(K) <= MaxComponents
  /\ components' = components \cup {<<k[1], k[2], Fresh(k)>> : k \in K}
  /\ latest' = [k \in DOMAIN latest \cup K |-> IF k \in K THEN Fresh(k) ELSE latest[k]]
  /\ strays' = strays \cup {<<k[1], k[2], latest[k]>> : k \in K \cap DOMAIN latest}
                      \cup {<<k[1], k[2], Fresh(k)>> : k \in {j \in K : j[2] \notin DOMAIN parents'}}

(* ComponentPool::Delete for every key of K: what the map leads to is freed. *)
FreeAll(K) ==
  LET freed == {<<k[1], k[2], latest[k]>> : k \in K} IN
  /\ components' = components \ freed
  /\ latest' = Restrict(latest, DOMAIN latest \ K)
  /\ strays' = strays \ freed

(* Mutant: A deletion that leaves the components of cascaded children. *)
KeysOfFirst(S) == {k \in DOMAIN latest : k[2] \in S /\ parents[k[2]] \notin S}

KeysOf(S) == {k \in DOMAIN latest : k[2] \in S}

-----------------------------------------------------------------------------
(* The operations. *)

(* The id of a new entity may have been given as its own parent. *)
CreateEntity(parent) ==
  /\ Running
  /\ Insert([e \in NewIDs(1) |-> IF parent = e THEN EntityID_Invalid ELSE parent])
  /\ UNCHANGED <<pools, status, announced, looped, strays>>

(* Mutant: SetParent without erasing the pair of the last parent. *)
SetParentKeepsLast(e, parent) ==
  /\ Running
  /\ e # parent
  /\ IF ~ValidEntity(e)
       THEN Throws
       ELSE /\ parents' = [parents EXCEPT ![e] = parent]
            /\ children' = children \cup {<<parent, e>>}
            /\ looped' = (looped \/ parent \in Subtree({e}))
            /\ UNCHANGED <<nextID, pools, status, announced, strays>>

SetParent(e, parent) ==
  /\ Running
  /\ e # parent
  /\ IF ~ValidEntity(e)
       THEN Throws
       ELSE /\ parents' = [parents EXCEPT ![e] = parent]
            /\ children' = (children \ {<<parents[e], e>>}) \cup {<<parent, e>>}
            /\ looped' = (looped \/ parent \in Subtree({e}))
            /\ UNCHANGED <<nextID, pools, status, announced, strays>>

(* DeleteEntity of every member of S in turn. The recursion of one that is *)
(* below itself never ends.                                                *)
Delete(S) ==
  IF \E e \in Subtree(S) : BelowItself(e)
    THEN /\ status' = "looping"
         /\ UNCHANGED <<tree, pools, announced, looped, strays>>
    ELSE /\ parents' = Restrict(parents, Live \ Subtree(S))
         /\ children' = {pair \in children : pair[2] \notin Subtree(S)}
         /\ announced' = [e \in Entity |-> announced[e] + (IF e \in Subtree(S) THEN 1 ELSE 0)]
         /\ FreeAll(KeysOf(Subtree(S)))
         /\ UNCHANGED <<nextID, status, looped>>

DeleteEntity(e) ==
  /\ Running
  /\ ValidEntity(e)
  /\ Delete({e})

(* EntityWrapper::DeleteChildren does not ask whether the entity is valid. *)
DeleteChildren(e) ==
  /\ Running
  /\ Children(e) # {}
  /\ Delete(Children(e))

AttachComponent(k) ==
  /\ Running
  /\ UNCHANGED <<tree, status, announced, looped>>
  /\ AllocateAll({k})

(* EntityWrapper::operator[] attaches what it does not find. *)
Fetch(k) ==
  /\ Running
  /\ ~HasComponent(k)
  /\ UNCHANGED <<tree, status, announced, looped>>
  /\ AllocateAll({k})

DeleteComponent(k) ==
  /\ Running
  /\ IF HasComponent(k)
       THEN FreeAll({k}) /\ UNCHANGED <<tree, status, announced, looped>>
       ELSE Throws

(* EntityWrapper::Clone: a copy of the subtree of e, parents before their  *)
(* children, with the components the maps lead to.                         *)
Clone(e, parent) ==
  /\ Running
  /\ ValidEntity(e)
  /\ ~\E x \in Subtree({e}) : BelowItself(x)
  /\ \E new \in Bijection(Subtree({e}), NewIDs(Cardinality(Subtree({e})))) :
       /\ \A x \in Subtree({e}) \ {e} : new[parents[x]] < new[x]
       /\ Insert([n \in Range(new) |->
                    LET x == CHOOSE y \in DOMAIN new : new[y] = n
                    IN IF x = e THEN parent ELSE new[parents[x]]])
       /\ AllocateAll({<<k[1], new[k[2]]>> : k \in KeysOf(Subtree({e}))})
  /\ UNCHANGED <<status, announced, looped>>

(* World::Merge of an entity file's world: its map is in no order. *)
Merge ==
  /\ Running
  /\ \E new \in Bijection(Template, NewIDs(Cardinality(Template))) :
       /\ Insert([n \in Range(new) |->
                    LET p == TemplateParent[CHOOSE x \in Template : new[x] = n]
                    IN IF p \in Template THEN new[p] ELSE EntityID_Invalid])
       /\ AllocateAll({<<k[1], new[k[2]]>> : k \in TemplateComponents})
  /\ UNCHANGED <<status, announced, looped>>

Init ==
  /\ nextID = 0
  /\ parents = << >>
  /\ children = {}
  /\ components = {}
  /\ latest = << >>
  /\ status = "running"
  /\ announced = [e \in Entity |-> 0]
  /\ looped = FALSE
  /\ strays = {}

Next ==
  \/ \E parent \in 0 .. nextID \cup {EntityID_Invalid} : CreateEntity(parent)
  \/ \E e \in Created, parent \in Created \cup {EntityID_Invalid} : SetParent(e, parent)
  \/ \E e \in Created : DeleteEntity(e) \/ DeleteChildren(e)
  \/ \E k \in ComponentType \X Created : AttachComponent(k) \/ Fetch(k) \/ DeleteComponent(k)
  \/ \E e \in Live, parent \in Created \cup {EntityID_Invalid} : Clone(e, parent)
  \/ Merge

Spec == Init /\ [][Next]_vars

-----------------------------------------------------------------------------
(* Properties. *)

(* The two maps of the tree are each other's inverse whatever parents      *)
(* entities are given, dead ones included.                                 *)
MapsMirror == children = {<<parents[e], e>> : e \in Live}

(* Every entity hangs below an entity without a live parent, and           *)
(* DeleteEntity comes to an end, as long as SetParent put no entity below  *)
(* itself: nothing else can close a cycle.                                 *)
NothingLoops ==
  ~looped => /\ status # "looping"
             /\ \A e \in Live : ~BelowItself(e)

(* The tree's own consistency: its maps agree, hold ids that were handed   *)
(* out, and have no cycle but one SetParent was asked for.                 *)
TreeIsConsistent ==
  /\ Live \subseteq Created
  /\ Range(parents) \subseteq Created \cup {EntityID_Invalid}
  /\ MapsMirror
  /\ NothingLoops

(* Every entity that is gone was announced by one EntityDeleted event, and *)
(* none that is there by any: an id never comes back to life, so that a    *)
(* wrapper that was told of the deletion stays invalid.                    *)
DeletionsAreAnnouncedOnce ==
  \A e \in Entity : announced[e] = IF e \in Created \ Live THEN 1 ELSE 0

(* A component that belongs to no live entity, and which systems go on     *)
(* being updated with, is one that was attached to a dead entity, or one   *)
(* whose entity was given another of its type; and the map leads to a      *)
(* component that is in the pool.                                          *)
StraysAreExplained ==
  /\ \A k \in DOMAIN latest : <<k[1], k[2], latest[k]>> \in components
  /\ \A c \in components \ strays :
       /\ ValidEntity(c[2])
       /\ <<c[1], c[2]>> \in DOMAIN latest
       /\ c[3] = latest[<<c[1], c[2]>>]

=============================================================================
