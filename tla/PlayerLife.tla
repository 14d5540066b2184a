----------------------------- MODULE PlayerLife -----------------------------
(***************************************************************************)
(* The life of the players on the server: a player asks to be spawned, is  *)
(* spawned by the next wave, is damaged, dies, is deleted and waits for    *)
(* the next wave. Four parts take turns in a tick and only talk through    *)
(* events, which each of them processes in the tick after they were        *)
(* published: the Server (src/Engine/Network/Server.cpp), HealthSystem,    *)
(* PlayerSpawnSystem and PlayerDeathSystem (src/Game/Systems); a fifth,    *)
(* PickupSpawnSystem, publishes health pickups.                            *)
(*                                                                         *)
(* Abstracted: components of an entity other than Health, Team and the     *)
(* ability that tells its class; the spawners but for their teams; what is *)
(* sent to the clients. Time advances by one per tick.                     *)
(***************************************************************************)
EXTENDS Integers, Sequences, FiniteSets, SequencesExt

CONSTANTS
  Player,          (* the PlayerIDs of the clients                         *)
  SpawnerTeam,     (* the teams that have a spawner                        *)
  MaxHealth,       (* Health.MaxHealth                                     *)
  Damage,          (* the damage of a hit, less a defender's boost         *)
  HealAmount,      (* what a health pickup gives                           *)
  MaxRespawnTime,  (* CapturePointGameMode.MaxRespawnTime, 0 if there is no*)
                   (* such component                                       *)
  MaxCommands,     (* bound on the messages with commands                  *)
  MaxHits          (* bound on the messages with damage                    *)

VARIABLES
  phase,           (* the part of the tick under way                       *)
  cursor,          (* how many events of the read queue it has seen        *)
  readQueue,       (* the events of the tick                               *)
  writeQueue,      (* the events of the next tick                          *)
  commands,        (* how many messages with commands were received        *)
  hits,            (* how many messages with damage were received          *)
  nextEntity,      (* World::m_CurrentEntityID                             *)
  live,            (* the player entities of the world                     *)
  health,          (* their Health.Health                                  *)
  kit,             (* their team and class                                 *)
  leaked,          (* entities deleted that have a Health component        *)
  map,             (* the map, under entity 0, has not been deleted        *)
  connected,       (* the keys of Server::m_ConnectedPlayers               *)
  entityOf,        (* their EntityID                                       *)
  spawnRequests,   (* PlayerSpawnSystem::m_SpawnRequests                   *)
  playerEntities,  (* PlayerSpawnSystem::m_PlayerEntities                  *)
  playerIDs,       (* PlayerSpawnSystem::m_PlayerIDs                       *)
  timer,           (* CapturePointGameMode.RespawnTime                     *)
  requested        (* history: the requests the death of an entity made    *)

vars == <<phase, cursor, readQueue, writeQueue, commands, hits, nextEntity, live,
          health, kit, leaked, map, connected, entityOf, spawnRequests,
          playerEntities, playerIDs, timer, requested>>

schedule == <<phase, cursor>>
messages == <<commands, hits>>
world == <<nextEntity, live, health, kit, leaked, map>>
session == <<connected, entityOf>>
spawning == <<spawnRequests, playerEntities, playerIDs, timer, requested>>

(* Every message makes one spawn request or one death at most. *)
Entity == 1 .. MaxCommands + MaxHits
MapRoot == 0
NoEntity == -1
Nobody == "nobody"

Team == SpawnerTeam \cup {"Spectator"}
Class == {"None", "Assault"}
Request == [player : Player, team : Team, class : Class]

Phase == {"receive", "disconnect", "Server", "HealthSystem", "PlayerSpawnSystem",
          "wave", "pickup", "PlayerDeathSystem", "terminated"}

InputCommand == [type : {"InputCommand"}, player : Player,
                 command : {"PickTeam", "PickClass", "Swap"}, team : Team]
PlayerDamage == [type : {"PlayerDamage"}, inflictor : Entity, victim : Entity,
                 damage : Damage]
PlayerHealthPickup == [type : {"PlayerHealthPickup"}, player : Entity]
PlayerDeath == [type : {"PlayerDeath"}, player : Entity, killer : Entity]
PlayerSpawned == [type : {"PlayerSpawned"}, id : Player, player : Entity]

Event == UNION {InputCommand, PlayerDamage, PlayerHealthPickup, PlayerDeath,
                PlayerSpawned}

TypeOK ==
  /\ phase \in Phase
  /\ cursor \in 0 .. Len(readQueue)
  /\ Range(readQueue) \cup Range(writeQueue) \subseteq Event
  /\ commands \in 0 .. MaxCommands
  /\ hits \in 0 .. MaxHits
  /\ nextEntity \in 1 .. MaxCommands + MaxHits + 1
  /\ live \cup leaked \subseteq 1 .. nextEntity - 1
  /\ live \cap leaked = {}
  /\ health \in [Entity -> Int]
  /\ \A e \in live \cup leaked : health[e] <= MaxHealth
  /\ kit \in [Entity -> [team : Team, class : Class]]
  /\ map \in BOOLEAN
  /\ connected \subseteq Player
  /\ entityOf \in [Player -> Entity \cup {MapRoot}]
  /\ Range(spawnRequests) \subseteq Request
  /\ playerEntities \in [Player -> Entity \cup {NoEntity}]
  /\ playerIDs \in [Entity -> Player \cup {Nobody}]
  /\ timer \in 0 .. MaxRespawnTime
  /\ requested \in [Entity -> Nat]

-----------------------------------------------------------------------------
(* The schedule of a tick. *)

(* The types of events the part under way subscribed to. *)
Subscribed ==
  CASE phase = "Server" -> {"PlayerSpawned", "PlayerDeath"}
    [] phase = "HealthSystem" -> {"PlayerDamage", "PlayerHealthPickup"}
    [] phase = "PlayerSpawnSystem" -> {"InputCommand", "PlayerSpawned", "PlayerDeath"}
    [] phase = "PlayerDeathSystem" -> {"PlayerDeath"}
    [] OTHER -> {}

IsHandler == Subscribed # {}

CurrentEvent == readQueue[cursor + 1]

(* The part under way is p, and its next event is of type t. *)
Delivers(p, t) ==
  /\ phase = p
  /\ cursor < Len(readQueue)
  /\ CurrentEvent.type = t
  /\ cursor' = cursor + 1

Returns == UNCHANGED phase

(* An exception nobody catches, or a null pointer: the server is gone. *)
Terminates == phase' = "terminated"

Publish(e) == writeQueue' = Append(writeQueue, e)

IgnoreEvent ==
  /\ IsHandler
  /\ cursor < Len(readQueue)
  /\ CurrentEvent.type \notin Subscribed
  /\ cursor' = cursor + 1
  /\ Returns
  /\ UNCHANGED <<readQueue, writeQueue, messages, world, session, spawning>>

Successor ==
  [receive |-> "disconnect", disconnect |-> "Server", Server |-> "HealthSystem",
   HealthSystem |-> "PlayerSpawnSystem", PlayerSpawnSystem |-> "wave",
   pickup |-> "PlayerDeathSystem"]

(* The next part of the tick takes over. *)
NextPhase ==
  /\ phase \in DOMAIN Successor
  /\ IsHandler => cursor = Len(readQueue)
  /\ phase' = Successor[phase]
  /\ cursor' = 0
  /\ UNCHANGED <<readQueue, writeQueue, messages, world, session, spawning>>

(* Game.cpp:257-258: the events published are those of the next tick. *)
EndTick ==
  /\ phase = "PlayerDeathSystem"
  /\ cursor = Len(readQueue)
  /\ phase' = "receive"
  /\ cursor' = 0
  /\ readQueue' = writeQueue
  /\ writeQueue' = <<>>
  /\ UNCHANGED <<messages, world, session, spawning>>

-----------------------------------------------------------------------------
(* The server. *)

(* The commands a client packs into one message: one, or a team and a      *)
(* class.                                                                  *)
Command(p, c, t) == [type |-> "InputCommand", player |-> p, command |-> c, team |-> t]
Commands(p) ==
  {<<Command(p, "PickClass", "Spectator")>>, <<Command(p, "Swap", "Spectator")>>}
    \cup {<<Command(p, "PickTeam", t)>> : t \in Team}
    \cup {<<Command(p, "PickTeam", t), Command(p, "PickClass", "Spectator")>> :
             t \in SpawnerTeam}

(* Messages of the clients become events: parseOnInputCommand and          *)
(* parseOnPlayerDamage. The entities a client names may be gone.           *)
Receive ==
  /\ phase = "receive"
  /\ \/ /\ commands < MaxCommands
        /\ commands' = commands + 1
        /\ \E p \in connected : \E packed \in Commands(p) :
             writeQueue' = writeQueue \o packed
        /\ UNCHANGED hits
     \/ /\ connected # {}
        /\ hits < MaxHits
        /\ hits' = hits + 1
        /\ \E e \in PlayerDamage :
             /\ {e.inflictor, e.victim} \subseteq 1 .. nextEntity - 1
             /\ Publish(e)
        /\ UNCHANGED commands
  /\ UNCHANGED <<schedule, readQueue, world, session, spawning>>

(* Server::disconnect deletes the player's entity, or the one with ID 0 if *)
(* the player was never spawned.                                           *)
Disconnect(p) ==
  /\ phase = "disconnect"
  /\ p \in connected
  /\ connected' = connected \ {p}
  /\ IF entityOf[p] = MapRoot
       THEN /\ map' = FALSE
            /\ UNCHANGED <<live, leaked>>
       ELSE /\ live' = live \ {entityOf[p]}
            /\ UNCHANGED <<map, leaked>>
  /\ entityOf' = [entityOf EXCEPT ![p] = MapRoot]
  /\ UNCHANGED <<schedule, readQueue, writeQueue, messages, nextEntity, health, kit,
                 spawning>>

(* Mutant: a player keeps the first entity it was given. *)
ServerOnPlayerSpawnedOnce ==
  /\ Delivers("Server", "PlayerSpawned")
  /\ IF CurrentEvent.id \in connected
       THEN /\ entityOf' = [entityOf EXCEPT ![CurrentEvent.id] =
                              IF @ = MapRoot THEN CurrentEvent.player ELSE @]
            /\ Returns
       ELSE /\ Terminates
            /\ UNCHANGED entityOf
  /\ UNCHANGED <<readQueue, writeQueue, messages, world, connected, spawning>>

(* Server::OnPlayerSpawned: for a player who has left, operator[] makes an *)
(* entry without a socket and the message is sent to a null pointer.       *)
ServerOnPlayerSpawned ==
  /\ Delivers("Server", "PlayerSpawned")
  /\ IF CurrentEvent.id \in connected
       THEN /\ entityOf' = [entityOf EXCEPT ![CurrentEvent.id] = CurrentEvent.player]
            /\ Returns
       ELSE /\ Terminates
            /\ UNCHANGED entityOf
  /\ UNCHANGED <<readQueue, writeQueue, messages, world, connected, spawning>>

(* Server::OnPlayerDeath names the killer and the casualty: at() throws if *)
(* either entity is no connected player's current one.                     *)
ServerOnPlayerDeath ==
  /\ Delivers("Server", "PlayerDeath")
  /\ IF {CurrentEvent.player, CurrentEvent.killer} \subseteq {entityOf[p] : p \in connected}
       THEN Returns
       ELSE Terminates
  /\ UNCHANGED <<readQueue, writeQueue, messages, world, session, spawning>>

-----------------------------------------------------------------------------
(* HealthSystem and the pickups. *)

Smaller(a, b) == IF a < b THEN a ELSE b

(* Mutant: a player whose health is exactly 0 does not die. *)
OnPlayerDamagedBelowZero ==
  /\ Delivers("HealthSystem", "PlayerDamage")
  /\ LET victim == CurrentEvent.victim
         rest == health[victim] - CurrentEvent.damage
     IN  IF victim \in live /\ health[victim] > 0 /\ CurrentEvent.damage > 0
           THEN /\ health' = [health EXCEPT ![victim] = rest]
                /\ IF rest < 0
                     THEN Publish([type |-> "PlayerDeath", player |-> victim,
                                   killer |-> CurrentEvent.inflictor])
                     ELSE UNCHANGED writeQueue
           ELSE UNCHANGED <<health, writeQueue>>
  /\ Returns
  /\ UNCHANGED <<readQueue, messages, nextEntity, live, kit, leaked, map, session,
                 spawning>>

OnPlayerDamaged ==
  /\ Delivers("HealthSystem", "PlayerDamage")
  /\ LET victim == CurrentEvent.victim
         rest == health[victim] - CurrentEvent.damage
     IN  IF victim \in live /\ health[victim] > 0 /\ CurrentEvent.damage > 0
           THEN /\ health' = [health EXCEPT ![victim] = rest]
                /\ IF rest <= 0
                     THEN Publish([type |-> "PlayerDeath", player |-> victim,
                                   killer |-> CurrentEvent.inflictor])
                     ELSE UNCHANGED writeQueue
           ELSE UNCHANGED <<health, writeQueue>>
  /\ Returns
  /\ UNCHANGED <<readQueue, messages, nextEntity, live, kit, leaked, map, session,
                 spawning>>

(* A player deleted since the pickup was published is not looked for:      *)
(* EntityWrapper::operator[] attaches a new Health component to its ID     *)
(* (EntityWrapper.cpp:188-196), which nothing will ever delete.            *)
OnPlayerHealthPickup ==
  /\ Delivers("HealthSystem", "PlayerHealthPickup")
  /\ LET e == CurrentEvent.player
         before == IF e \in live \cup leaked THEN health[e] ELSE MaxHealth
     IN  /\ health' = [health EXCEPT ![e] = Smaller(before + HealAmount, MaxHealth)]
         /\ leaked' = IF e \in live THEN leaked ELSE leaked \cup {e}
  /\ Returns
  /\ UNCHANGED <<readQueue, writeQueue, messages, nextEntity, live, kit, map, session,
                 spawning>>

(* PickupSpawnSystem::DoPickup: a player that is not at full health touches*)
(* a health pickup. A dead player is still one.                            *)
DoPickup(e) ==
  /\ phase = "pickup"
  /\ e \in live
  /\ health[e] < MaxHealth
  /\ Publish([type |-> "PlayerHealthPickup", player |-> e])
  /\ phase' = Successor["pickup"]
  /\ cursor' = 0
  /\ UNCHANGED <<readQueue, messages, world, session, spawning>>

-----------------------------------------------------------------------------
(* PlayerSpawnSystem. *)

(* The position of player p's first request, or the end. *)
RequestOf(p) ==
  CHOOSE i \in 1 .. Len(spawnRequests) + 1 :
    /\ i <= Len(spawnRequests) => spawnRequests[i].player = p
    /\ \A j \in 1 .. i - 1 : spawnRequests[j].player # p

(* m_PlayerEntities says that player p has no entity. *)
Bodiless(p) == playerEntities[p] \notin live

(* A command alters the player's request, or makes one. A swap without a   *)
(* request is taken for a class picked too early.                          *)
OnInputCommand ==
  /\ Delivers("PlayerSpawnSystem", "InputCommand")
  /\ LET e == CurrentEvent
         i == RequestOf(e.player)
         picked == IF e.command = "PickTeam"
                     THEN [player |-> e.player, team |-> e.team, class |-> "None"]
                     ELSE [player |-> e.player, team |-> "Spectator", class |-> "Assault"]
     IN  \/ /\ i <= Len(spawnRequests)
            /\ spawnRequests' =
                 CASE e.command = "Swap" -> [spawnRequests EXCEPT ![i].class = "None"]
                   [] e.command = "PickTeam" -> [spawnRequests EXCEPT ![i].team = e.team]
                   [] e.command = "PickClass" -> [spawnRequests EXCEPT ![i].class = "Assault"]
         \/ /\ i > Len(spawnRequests)
            /\ spawnRequests' = IF Bodiless(e.player)
                                  THEN Append(spawnRequests, picked)
                                  ELSE spawnRequests
  /\ Returns
  /\ UNCHANGED <<readQueue, writeQueue, messages, world, session, playerEntities,
                 playerIDs, timer, requested>>

OnPlayerSpawned ==
  /\ Delivers("PlayerSpawnSystem", "PlayerSpawned")
  /\ playerEntities' = [playerEntities EXCEPT ![CurrentEvent.id] = CurrentEvent.player]
  /\ playerIDs' = [playerIDs EXCEPT ![CurrentEvent.player] = CurrentEvent.id]
  /\ Returns
  /\ UNCHANGED <<readQueue, writeQueue, messages, world, session, spawnRequests, timer,
                 requested>>

(* Mutant: an entity that was deleted meanwhile asks for a spawn as well. *)
OnPlayerDeathUnchecked ==
  /\ Delivers("PlayerSpawnSystem", "PlayerDeath")
  /\ LET e == CurrentEvent.player
     IN  IF playerIDs[e] # Nobody
           THEN /\ spawnRequests' = Append(spawnRequests,
                     [player |-> playerIDs[e], team |-> kit[e].team,
                      class |-> kit[e].class])
                /\ requested' = [requested EXCEPT ![e] = @ + 1]
           ELSE UNCHANGED <<spawnRequests, requested>>
  /\ Returns
  /\ UNCHANGED <<readQueue, writeQueue, messages, world, session, playerEntities,
                 playerIDs, timer>>

(* A player who died asks for the same team and class again. *)
OnPlayerDeath ==
  /\ Delivers("PlayerSpawnSystem", "PlayerDeath")
  /\ LET e == CurrentEvent.player
     IN  IF e \in live /\ playerIDs[e] # Nobody
           THEN /\ spawnRequests' = Append(spawnRequests,
                     [player |-> playerIDs[e], team |-> kit[e].team,
                      class |-> kit[e].class])
                /\ requested' = [requested EXCEPT ![e] = @ + 1]
           ELSE UNCHANGED <<spawnRequests, requested>>
  /\ Returns
  /\ UNCHANGED <<readQueue, writeQueue, messages, world, session, playerEntities,
                 playerIDs, timer>>

(* A request can be carried out: a class is picked and a spawner is found. *)
Spawnable(r) == map /\ r.class # "None" /\ r.team \in SpawnerTeam

(* Whether the loop of Update carries out the i-th request. Both erase and *)
(* the loop move on, so the one after a request carried out is passed over.*)
IsSpawned[i \in 0 .. Len(spawnRequests)] ==
  /\ i > 0
  /\ Spawnable(spawnRequests[i])
  /\ ~ IsSpawned[i - 1]

(* Mutant: the loop ends at a player who has not picked a class. *)
CarriedOutUpToSpectator ==
  {i \in 1 .. Len(spawnRequests) :
     IsSpawned[i] /\ \A j \in 1 .. i : spawnRequests[j].class # "None"}

CarriedOut == {i \in 1 .. Len(spawnRequests) : IsSpawned[i]}

(* The requests of a set of positions, in order: one sequence. *)
RequestsAt(S) ==
  LET n == Cardinality(S)
      orders == {f \in [1 .. n -> S] : \A j, k \in 1 .. n : j < k => f[j] < f[k]}
  IN  {[k \in 1 .. n |-> spawnRequests[f[k]]] : f \in orders}

(* Update, when the respawn time has passed. *)
Wave ==
  \E spawned \in RequestsAt(CarriedOut),
     left \in RequestsAt((1 .. Len(spawnRequests)) \ CarriedOut) :
    LET entity(k) == nextEntity + k - 1
        created == {entity(k) : k \in 1 .. Len(spawned)}
    IN  /\ spawnRequests' = left
        /\ nextEntity' = nextEntity + Len(spawned)
        /\ live' = live \cup created
        /\ health' = [e \in Entity |-> IF e \in created THEN MaxHealth ELSE health[e]]
        /\ kit' = [e \in Entity |->
                     IF e \in created
                       THEN LET r == spawned[e - nextEntity + 1]
                            IN  [team |-> r.team, class |-> r.class]
                       ELSE kit[e]]
        /\ writeQueue' = writeQueue \o
             [k \in 1 .. Len(spawned) |->
                [type |-> "PlayerSpawned", id |-> spawned[k].player,
                 player |-> entity(k)]]

(* PlayerSpawnSystem::Update. *)
UpdateSpawns ==
  /\ phase = "wave"
  /\ IF map /\ timer + 1 < MaxRespawnTime
       THEN /\ timer' = timer + 1
            /\ UNCHANGED <<spawnRequests, nextEntity, live, health, kit, writeQueue>>
       ELSE /\ timer' = 0
            /\ Wave
  /\ phase' = "pickup"
  /\ cursor' = 0
  /\ UNCHANGED <<readQueue, messages, leaked, map, session, playerEntities, playerIDs,
                 requested>>

-----------------------------------------------------------------------------
(* PlayerDeathSystem. *)

OnPlayerDeathDelete ==
  /\ Delivers("PlayerDeathSystem", "PlayerDeath")
  /\ live' = live \ {CurrentEvent.player}
  /\ Returns
  /\ UNCHANGED <<readQueue, writeQueue, messages, nextEntity, health, kit, leaked, map,
                 session, spawning>>

-----------------------------------------------------------------------------

(* Everyone is connected and the map is loaded. *)
Init ==
  /\ phase = "receive"
  /\ cursor = 0
  /\ readQueue = <<>>
  /\ writeQueue = <<>>
  /\ commands = 0
  /\ hits = 0
  /\ nextEntity = 1
  /\ live = {}
  /\ health = [e \in Entity |-> MaxHealth]
  /\ kit = [e \in Entity |-> [team |-> "Spectator", class |-> "None"]]
  /\ leaked = {}
  /\ map = TRUE
  /\ connected = Player
  /\ entityOf = [p \in Player |-> MapRoot]
  /\ spawnRequests = <<>>
  /\ playerEntities = [p \in Player |-> NoEntity]
  /\ playerIDs = [e \in Entity |-> Nobody]
  /\ timer = 0
  /\ requested = [e \in Entity |-> 0]

(* What the server does on its own in every tick. *)
TickStep ==
  \/ IgnoreEvent
  \/ NextPhase
  \/ EndTick
  \/ ServerOnPlayerSpawned
  \/ ServerOnPlayerDeath
  \/ OnPlayerDamaged
  \/ OnPlayerHealthPickup
  \/ OnInputCommand
  \/ OnPlayerSpawned
  \/ OnPlayerDeath
  \/ UpdateSpawns
  \/ OnPlayerDeathDelete

Next ==
  \/ TickStep
  \/ Receive
  \/ \E p \in Player : Disconnect(p)
  \/ \E e \in Entity : DoPickup(e)

(* The main loop never stops ticking. *)
Spec == Init /\ [][Next]_vars /\ WF_vars(TickStep)

-----------------------------------------------------------------------------

(* The deaths of e that PlayerDeathSystem is still to process. *)
DeathIsPending(e) ==
  \/ \E i \in 1 .. Len(writeQueue) :
       writeQueue[i].type = "PlayerDeath" /\ writeQueue[i].player = e
  \/ \E i \in 1 .. Len(readQueue) :
       /\ readQueue[i].type = "PlayerDeath" /\ readQueue[i].player = e
       /\ phase = "PlayerDeathSystem" => i > cursor

(* A player without health does not stay in the world: whoever has none is *)
(* on the way to PlayerDeathSystem ("we will delete the entity in          *)
(* PlayerDeathSystem", HealthSystem.cpp:37), although health is only       *)
(* tested when damage is taken and pickups heal the dead.                  *)
TheDeadAreDeleted ==
  \A e \in live : health[e] <= 0 => DeathIsPending(e)

(* An entity dies for a spawn once, however often it is hit and healed     *)
(* before it is deleted.                                                   *)
DiesForASpawnOnce == \A e \in Entity : requested[e] <= 1

(* Between two ticks the Server and PlayerSpawnSystem, which learn of a    *)
(* spawn at different times, agree which entity a connected player has.    *)
SessionAgreesWithSpawns ==
  phase = "receive" =>
    \A p \in connected :
      playerEntities[p] # NoEntity => entityOf[p] = playerEntities[p]

(* Player p waits for a spawn that could be given. *)
Waits(p) ==
  \E i \in 1 .. Len(spawnRequests) :
    spawnRequests[i].player = p /\ Spawnable(spawnRequests[i])

(* A player who has picked a team and a class is spawned in the end, or    *)
(* changes the pick: nobody in m_SpawnRequests is passed over forever.     *)
EveryoneIsSpawned ==
  \A p \in Player : Waits(p) ~> (~ Waits(p) \/ phase = "terminated")

(* "If respawn time has passed, we spawn all players that have requested   *)
(* to be spawned" (PlayerSpawnSystem.cpp:48).                              *)
WavesSpawnEveryone ==
  [][phase = "wave" /\ phase' = "pickup" /\ timer' = 0 =>
       \A p \in Player : ~ Waits(p)']_vars

(* The entities in the world that player p was spawned as. *)
Bodies(p) ==
  {e \in live :
     \/ playerIDs[e] = p
     \/ [type |-> "PlayerSpawned", id |-> p, player |-> e]
          \in Range(readQueue) \cup Range(writeQueue)}

(* "Remove enteties and stuff" (Server.cpp:443): who disconnected is not   *)
(* in the world any more.                                                  *)
WhoLeftIsGone == \A p \in Player \ connected : Bodies(p) = {}

=============================================================================
