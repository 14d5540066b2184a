------------------------------- MODULE Replica -------------------------------
(***************************************************************************)
(* The copy of the server's world that a client keeps (Client.cpp), made   *)
(* from what the server sends of its own (Server.cpp): the world when the  *)
(* client joins and when the map is reset, deletions and spawns by TCP, in *)
(* order, and snapshots of the networked entities by UDP. A snapshot may   *)
(* be lost, come twice, or after anything sent later: SnapshotChannel      *)
(* shows that one of several parts may even come after a newer one.        *)
(*                                                                         *)
(* An update of the client reads UDP before TCP. Of what it publishes, the *)
(* spawns are handled when the next update begins, and a death when the    *)
(* frame of that update ends. The client may disconnect and join another   *)
(* server, whose entities are numbered from zero again. Fields, names,     *)
(* the menu and what input commands do to the replica are left out.        *)
(***************************************************************************)
EXTENDS Integers, Sequences, FiniteSets

CONSTANT MaxEntities   (* bound on the entities made by all servers joined *)

ASSUME ReplicaAssumption == MaxEntities \in Nat \ {0}

EntityID_Invalid == -1

VARIABLES
  server,       (* the world of the server that is joined                  *)
  nextID,       (* its m_CurrentEntityID                                   *)
  tcp,          (* the stream to the client                                *)
  worlds,       (* the contents snapshots had                              *)
  before,       (* the entities of the servers joined before               *)
  joined,       (* the sockets are open                                    *)
  reading,      (* "udp" or "tcp": what the client's update is reading     *)
  replica,      (* the client's world, with its maps and its queue, below  *)
  deaths,       (* PlayerDeath events published in this frame              *)
  dying,        (* and in the one before                                   *)
  localPlayer   (* m_LocalPlayer                                           *)

worldVars == <<server, nextID>>
network == <<tcp, worlds>>
replicaVars == <<worldVars, network, before, joined, reading, replica, deaths, dying, localPlayer>>

(* An entity of the server: what it is, and its parent. "self" is this     *)
(* client's player, "weapon" a child of a player.                          *)
Entity(id, is, parent) == [id |-> id, is |-> is, parent |-> parent]
Map == Entity(0, "map", EntityID_Invalid)
IsPlayer(is) == is \in {"self", "player"}

Ids(world) == {e.id : e \in world}

(* What the deletion of some entities of a world takes with it.            *)
Cascade(world, ids) ==
  LET Down[S \in SUBSET Ids(world)] ==
        LET below == {e.id : e \in {f \in world : f.parent \in S}}
        IN IF below \subseteq S THEN S ELSE Down[S \cup below]
  IN Down[ids]

(* The i-th of some numbers, by size.                                      *)
Nth(ids, i) == CHOOSE n \in ids : Cardinality({m \in ids : m < n}) = i - 1

InOrder(world) ==
  [i \in 1 .. Cardinality(world) |-> CHOOSE e \in world : e.id = Nth(Ids(world), i)]

(* shouldSendToClient: players and pickups are NetworkComponents.          *)
Networked(world) == {e \in world : e.is # "map"}

Snapshot(world) == [is |-> "Snapshot", world |-> world]
Spawned(id) == [is |-> "OnPlayerSpawned", id |-> id]
Deleted(id) == [is |-> "EntityDeleted", id |-> id]
RemoveWorld == [is |-> "RemoveWorld"]

Nobody == [id |-> EntityID_Invalid, stale |-> FALSE]

ReplicaInit ==
  /\ server = {Map} /\ nextID = 1
  /\ tcp = <<Snapshot({Map})>> /\ worlds = {}
  /\ before = 0 /\ joined = TRUE
  /\ reading = "udp"
  (* local: what each entity is a copy of, its parent, and (history) whether *)
  (* nothing was going to delete it any more when it was made. spawns is   *)
  (* m_PlayerSpawnEvents; stale (history) says of an earlier session.      *)
  /\ replica = [local |-> <<>>, toClient |-> <<>>, toServer |-> <<>>, spawns |-> <<>>, published |-> <<>>]
  /\ deaths = {} /\ dying = {}
  /\ localPlayer = Nobody

-----------------------------------------------------------------------------
(* The server. *)

Becomes(world, next, messages) ==
  /\ joined /\ before + next <= MaxEntities
  /\ server' = world /\ nextID' = next
  /\ tcp' = tcp \o messages
  /\ worlds' = worlds \cup {Networked(world)}
  /\ UNCHANGED <<before, joined, reading, replica, deaths, dying, localPlayer>>

SpawnPlayer(is) ==
  /\ is = "self" => \A e \in server : e.is # "self"
  /\ Becomes(server \cup {Entity(nextID, is, EntityID_Invalid), Entity(nextID + 1, "weapon", nextID)},
             nextID + 2, IF is = "self" THEN <<Spawned(nextID)>> ELSE <<>>)

SpawnPickup ==
  \E map \in {e \in server : e.is = "map"} :
    Becomes(server \cup {Entity(nextID, "pickup", map.id)}, nextID + 1, <<>>)

(* Only the entity that was asked for is announced (Cascaded).             *)
Delete(e) ==
  /\ IsPlayer(e.is) \/ e.is = "pickup"
  /\ Becomes({f \in server : f.id \notin Cascade(server, {e.id})}, nextID, <<Deleted(e.id)>>)

(* Mutant: the numbers of the entities begin again. *)
ResetMapRenumbers ==
  LET new == {Map}
      roots == InOrder({e \in server : e.parent = EntityID_Invalid})
  IN Becomes(new, 1, <<RemoveWorld, Snapshot(new)>> \o [i \in DOMAIN roots |-> Deleted(roots[i].id)])

(* The deletions are events, handled after the new world was sent.         *)
ResetMap ==
  LET new == {[Map EXCEPT !.id = nextID]}
      roots == InOrder({e \in server : e.parent = EntityID_Invalid})
  IN Becomes(new, nextID + 1,
             <<RemoveWorld, Snapshot(new)>> \o [i \in DOMAIN roots |-> Deleted(roots[i].id)])

-----------------------------------------------------------------------------
(* The replica. r is its state while a message is parsed.                  *)

Live(r) == DOMAIN r.local

Restricted(f, S) == [x \in S |-> f[x]]
With(f, x, v) == [y \in DOMAIN f \cup {x} |-> IF y = x THEN v ELSE f[y]]

Copies(r) == {[id |-> n, parent |-> r.local[n].parent] : n \in Live(r)}

(* Mutant: what is below a deleted entity stays. *)
DeleteEntitiesAlone(r, ns) == [r EXCEPT !.local = Restricted(@, Live(r) \ ns)]

DeleteEntities(r, ns) ==
  [r EXCEPT !.local = Restricted(@, Live(r) \ Cascade(Copies(r), ns \cap Live(r)))]

DeleteFromServerClientMaps(r, ids) ==
  [r EXCEPT !.toClient = Restricted(@, DOMAIN @ \ ids),
            !.toServer = Restricted(@, DOMAIN @ \ {r.toClient[s] : s \in ids})]

InsertIntoServerClientMaps(r, s, n) ==
  [r EXCEPT !.toClient = IF s \in DOMAIN @ THEN @ ELSE With(@, s, n),
            !.toServer = IF n \in DOMAIN @ THEN @ ELSE With(@, n, s)]

(* serverClientMapsHasEntity is asked, and forgets what is gone.           *)
HasEntity(r, s) == s \in DOMAIN r.toClient /\ r.toClient[s] \in Live(r)
Asked(r, ids) ==
  DeleteFromServerClientMaps(r, {s \in ids \cap DOMAIN r.toClient : ~HasEntity(r, s)})

(* Local numbers are never used again; here one nobody knows any more is.  *)
Referenced(r) ==
  UNION {Live(r), DOMAIN r.toServer, {r.toClient[s] : s \in DOMAIN r.toClient}, deaths, dying,
         {localPlayer.id}, {r.published[i].id : i \in DOMAIN r.published}}
NewLocal(r) ==
  LET known == Referenced(r)
  IN CHOOSE n \in 0 .. Cardinality(known) : n \notin known /\ 0 .. n - 1 \subseteq known

(* What something read or published will delete, with what is below it.   *)
Condemned(r, messages) ==
  {a \in Live(r) : \/ a \in deaths \cup dying
                   \/ \E i \in DOMAIN messages : messages[i] = Deleted(r.local[a].of)}
Doomed(r, messages) ==
  IF \E i \in DOMAIN messages : messages[i] = RemoveWorld
    THEN Live(r) ELSE Cascade(Copies(r), Condemned(r, messages))
Exists(s) == s \in Ids(server)

(* What the replica has for the parent of an entity.                       *)
ParentOf(r, e) ==
  IF e.parent # EntityID_Invalid /\ HasEntity(r, e.parent)
    THEN r.toClient[e.parent] ELSE EntityID_Invalid

Create(r, e) ==
  LET n == NewLocal(r)
      made == [InsertIntoServerClientMaps(r, e.id, n) EXCEPT
                 !.local = With(@, n, [of |-> e.id, is |-> e.is, parent |-> ParentOf(r, e), late |-> FALSE])]
  IN [made EXCEPT !.local[n].late = ~Exists(e.id) /\ n \notin Doomed(made, tcp)]

ParentLogic(r, e) ==
  IF ParentOf(r, e) = EntityID_Invalid THEN r
  ELSE [r EXCEPT !.local[r.toClient[e.id]].parent = ParentOf(r, e)]

ParseEntity(r, e) ==
  LET asked == Asked(r, {e.id, e.parent})
  IN ParentLogic(IF HasEntity(asked, e.id) THEN asked ELSE Create(asked, e), e)

ParseEntities(r, entities) ==
  LET parsed[i \in 0 .. Len(entities)] ==
        IF i = 0 THEN r ELSE ParseEntity(parsed[i - 1], entities[i])
  IN parsed[Len(entities)]

(* What the maps have is announced, the rest waits on.                     *)
SpawnsAt(r, places) == [i \in 1 .. Cardinality(places) |-> r.spawns[Nth(places, i)]]

ParseSpawnEvents(r) ==
  LET known == {i \in DOMAIN r.spawns : HasEntity(r, r.spawns[i].id)}
      announced == [i \in DOMAIN SpawnsAt(r, known) |->
                      [SpawnsAt(r, known)[i] EXCEPT !.id = r.toClient[@]]]
  IN [Asked(r, {r.spawns[i].id : i \in DOMAIN r.spawns}) EXCEPT
        !.spawns = SpawnsAt(r, DOMAIN r.spawns \ known),
        !.published = @ \o announced]

(* Mutant: the spawns that wait for an entity are not looked at again. *)
ParseSnapshotOnly(r, world) == ParseEntities(r, InOrder(world))

ParseSnapshot(r, world) == ParseSpawnEvents(ParseEntities(r, InOrder(world)))

ParsePlayersSpawned(r, s) ==
  ParseSpawnEvents([r EXCEPT !.spawns = Append(@, [id |-> s, stale |-> FALSE])])

(* A player stays until his death was handled.                             *)
Dies(r, s) == HasEntity(r, s) /\ IsPlayer(r.local[r.toClient[s]].is)

ParseEntityDeletion(r, s) ==
  IF ~HasEntity(r, s) \/ Dies(r, s) THEN r
  ELSE DeleteFromServerClientMaps(DeleteEntities(r, {r.toClient[s]}), {s})

Emptied(r) == [r EXCEPT !.local = <<>>]

-----------------------------------------------------------------------------
(* The client. *)

Keeps == UNCHANGED <<worldVars, before, joined, dying, localPlayer>>

ReadSnapshot(world) ==
  /\ joined /\ reading = "udp"
  /\ replica' = ParseSnapshot(replica, world)
  /\ UNCHANGED <<network, reading, deaths>> /\ Keeps

Parsed(r, m) ==
  CASE m.is = "Snapshot" -> ParseSnapshot(r, m.world)
    [] m.is = "OnPlayerSpawned" -> ParsePlayersSpawned(r, m.id)
    [] m.is = "EntityDeleted" -> ParseEntityDeletion(r, m.id)
    [] m.is = "RemoveWorld" -> Emptied(r)

ReadMessage ==
  /\ joined /\ tcp # <<>>
  /\ tcp' = Tail(tcp) /\ reading' = "tcp"
  /\ replica' = Parsed(replica, Head(tcp))
  /\ deaths' = IF Head(tcp).is = "EntityDeleted" /\ Dies(replica, Head(tcp).id)
               THEN deaths \cup {replica.toClient[Head(tcp).id]} ELSE deaths
  /\ UNCHANGED worlds /\ Keeps

(* The systems handle the deaths of the frame before, and the next update  *)
(* begins with the spawns of this one.                                     *)
EndFrame ==
  /\ reading' = "udp"
  /\ replica' = [DeleteEntities(replica, dying) EXCEPT !.published = <<>>]
  /\ dying' = deaths /\ deaths' = {}
  /\ localPlayer' = IF replica.published = <<>> THEN localPlayer
                    ELSE replica.published[Len(replica.published)]
  /\ UNCHANGED <<worldVars, network, before, joined>>

(* disconnect: the world goes, the maps and the queue stay.                *)
Leave ==
  /\ joined /\ joined' = FALSE
  /\ replica' = [Emptied(replica) EXCEPT
                   !.spawns = [i \in DOMAIN @ |-> [@[i] EXCEPT !.stale = TRUE]]]
  /\ tcp' = <<>> /\ worlds' = {}
  /\ UNCHANGED <<worldVars, before, reading, deaths, dying, localPlayer>>

Join ==
  /\ ~joined /\ before + nextID < MaxEntities
  /\ before' = before + nextID /\ joined' = TRUE
  /\ server' = {Map} /\ nextID' = 1
  /\ tcp' = <<Snapshot({Map})>> /\ worlds' = {}
  /\ UNCHANGED <<reading, replica, deaths, dying, localPlayer>>

ServerStep ==
  \/ \E is \in {"self", "player"} : SpawnPlayer(is)
  \/ SpawnPickup
  \/ \E e \in server : Delete(e)
  \/ ResetMap

ClientStep ==
  \/ \E world \in worlds : ReadSnapshot(world)
  \/ ReadMessage
  \/ EndFrame

ReplicaNext == ServerStep \/ ClientStep \/ Leave \/ Join

ReplicaSpec == ReplicaInit /\ [][ReplicaNext]_replicaVars

-----------------------------------------------------------------------------
(* Properties. *)

(* Every entity of the server has one copy at most, and both maps lead     *)
(* from the one to the other: what the client tells the server of an       *)
(* entity is about the one it means (OnPlayerDamage looks it up with at()). *)
MapsMirror ==
  \A n \in Live(replica) :
    LET s == replica.local[n].of IN
    /\ s \in DOMAIN replica.toClient /\ replica.toClient[s] = n
    /\ n \in DOMAIN replica.toServer /\ replica.toServer[n] = s

(* A copy of what the server has deleted goes, too: something that was     *)
(* read, or is still to be read, deletes it - but for one made from a      *)
(* snapshot that came later than the deletion, which stays until the map   *)
(* is reset.                                                               *)
GhostsAreExplained ==
  joined => LET doomed == Doomed(replica, tcp) IN
    \A n \in Live(replica) : Exists(replica.local[n].of) \/ replica.local[n].late \/ n \in doomed

(* Every copy has its entity, one for one, or is known to be on its way out. *)
CopiesAreExplained == MapsMirror /\ GhostsAreExplained

(* When everything sent and published was handled, the local player is the *)
(* copy of the player the server gave this client - but for one that was   *)
(* announced for a late copy or out of an earlier session's queue.         *)
PlayerIsFollowed ==
  (joined /\ tcp = <<>> /\ replica.published = <<>>) =>
    \A e \in server :
      e.is = "self" /\ HasEntity(replica, e.id) =>
        \/ localPlayer.id = replica.toClient[e.id]
        \/ localPlayer.stale
        \/ localPlayer.id \in Live(replica) /\ replica.local[localPlayer.id].late

(* The copy of an entity that is still there stays: no message about       *)
(* another, however late, takes it away. Only a reset that is read after   *)
(* a snapshot of the new map does.                                         *)
CopiesStay ==
  [][(joined /\ joined') =>
       \A n \in Live(replica) :
         LET s == replica.local[n].of IN
         Exists(s) /\ s \in Ids(server') =>
           n \in Live(replica') \/ (tcp # tcp' /\ Head(tcp).is = "RemoveWorld")]_replicaVars

=============================================================================
