-------------------------- MODULE PlayerLifeProofs --------------------------
(***************************************************************************)
(* Proofs about the life of the players on the server, for any number of   *)
(* players, teams, hits and waves: between two ticks the Server and        *)
(* PlayerSpawnSystem agree who has which entity, and no entity asks for a  *)
(* spawn twice.                                                            *)
(*                                                                         *)
(* And about its pickups, for any number of players, frames and resets: a  *)
(* pickup is there or awaited, once, nobody takes one from afar, and who   *)
(* needs one and stays there has it in bounded time.                       *)
(***************************************************************************)
EXTENDS PlayerLife, Pickups, FiniteSetTheorems, WellFoundedInduction, TLAPS

(* The constants the code reads from components are numbers.               *)
ConstantsAreNumbers ==
  /\ MaxCommands \in Nat /\ MaxHits \in Nat
  /\ Damage \subseteq Int /\ MaxHealth \in Int /\ HealAmount \in Int

(* The events of the queues. How many entities there may be is left open.  *)
SpawnedEvent == [type : {"PlayerSpawned"}, id : Player, player : Nat]
QueuedEvent == UNION {InputCommand, PlayerDamage, PlayerHealthPickup, PlayerDeath,
                      SpawnedEvent}

(* The types of the variables the proofs speak of.                         *)
Typed ==
  /\ phase \in Phase
  /\ readQueue \in Seq(QueuedEvent)
  /\ writeQueue \in Seq(QueuedEvent)
  /\ cursor \in 0 .. Len(readQueue)
  /\ nextEntity \in Nat /\ nextEntity >= 1
  /\ live \subseteq 1 .. nextEntity - 1
  /\ health \in [Entity -> Int]
  /\ kit \in [Entity -> [team : Team, class : Class]]
  /\ connected \subseteq Player
  /\ entityOf \in [Player -> Int]
  /\ spawnRequests \in Seq(Request)
  /\ playerEntities \in [Player -> Int]
  /\ playerIDs \in [Entity -> Player \cup {Nobody}]
  /\ requested \in [Entity -> Nat]

(* What an event of a queue says.                                          *)
LEMMA EventFields ==
  ASSUME NEW e \in QueuedEvent
  PROVE  /\ e.type = "InputCommand" =>
              /\ e.player \in Player /\ e.team \in Team
              /\ e.command \in {"PickTeam", "PickClass", "Swap"}
         /\ e.type = "PlayerDamage" => e.victim \in Entity /\ e.inflictor \in Entity
                                         /\ e.damage \in Damage
         /\ e.type = "PlayerHealthPickup" => e.player \in Entity
         /\ e.type = "PlayerDeath" => e.player \in Entity /\ e.killer \in Entity
         /\ e.type = "PlayerSpawned" => e.id \in Player /\ e.player \in Nat
         /\ e.type \in {"InputCommand", "PlayerDamage", "PlayerHealthPickup",
                        "PlayerDeath", "PlayerSpawned"}
<1>1. CASE e \in InputCommand
  BY <1>1 DEF InputCommand
<1>2. CASE e \in PlayerDamage
  BY <1>2 DEF PlayerDamage
<1>3. CASE e \in PlayerHealthPickup
  BY <1>3 DEF PlayerHealthPickup
<1>4. CASE e \in PlayerDeath
  BY <1>4 DEF PlayerDeath
<1>5. CASE e \in SpawnedEvent
  BY <1>5 DEF SpawnedEvent
<1> QED
  BY <1>1, <1>2, <1>3, <1>4, <1>5 DEF QueuedEvent

(* The event a handler is given.                                           *)
LEMMA DeliveredEvent ==
  ASSUME Typed, NEW p, NEW t, Delivers(p, t)
  PROVE  /\ phase = p /\ cursor + 1 \in 1 .. Len(readQueue) /\ cursor' = cursor + 1
         /\ CurrentEvent = readQueue[cursor + 1] /\ CurrentEvent \in QueuedEvent
         /\ CurrentEvent.type = t
         /\ cursor \in Nat /\ Len(readQueue) \in Nat
<1>1. /\ phase = p /\ cursor + 1 \in 1 .. Len(readQueue) /\ cursor' = cursor + 1
      /\ cursor \in Nat /\ Len(readQueue) \in Nat
      /\ CurrentEvent.type = t /\ CurrentEvent = readQueue[cursor + 1]
  BY DEF Delivers, Typed, CurrentEvent
<1>2. readQueue[cursor + 1] \in QueuedEvent
  BY <1>1 DEF Typed
<1> QED
  BY <1>1, <1>2

(* The requests at some positions of m_SpawnRequests are requests.         *)
LEMMA RequestsAtAreRequests ==
  ASSUME Typed, NEW S \in SUBSET (1 .. Len(spawnRequests)), NEW s \in RequestsAt(S)
  PROVE  s \in Seq(Request)
<1>1. Len(spawnRequests) \in Nat
  BY DEF Typed
<1>2. Cardinality(S) \in Nat
  <2>1. IsFiniteSet(1 .. Len(spawnRequests))
    BY <1>1, FS_Interval
  <2> QED
    BY <2>1, FS_Subset, FS_CardinalityType
<1>3. PICK f \in [1 .. Cardinality(S) -> S] :
        s = [k \in 1 .. Cardinality(S) |-> spawnRequests[f[k]]]
  BY DEF RequestsAt
<1>4. ASSUME NEW k \in 1 .. Cardinality(S)
      PROVE  spawnRequests[f[k]] \in Request
  <2>1. f[k] \in 1 .. Len(spawnRequests)
    OBVIOUS
  <2> QED
    BY <2>1 DEF Typed
<1> QED
  BY <1>2, <1>3, <1>4

(* Altering one entry of m_SpawnRequests leaves requests.                  *)
LEMMA AlteredRequests ==
  ASSUME NEW s \in Seq(Request), NEW i, NEW t \in Team, NEW c \in Class
  PROVE  /\ [s EXCEPT ![i].team = t] \in Seq(Request)
         /\ [s EXCEPT ![i].class = c] \in Seq(Request)
<1>1. Len(s) \in Nat /\ s \in [1 .. Len(s) -> Request]
  OBVIOUS
<1>2. ASSUME NEW j \in 1 .. Len(s)
      PROVE  /\ [s[j] EXCEPT !.team = t] \in Request
             /\ [s[j] EXCEPT !.class = c] \in Request
  BY <1>1 DEF Request
<1>3. /\ [s EXCEPT ![i].team = t] \in [1 .. Len(s) -> Request]
      /\ [s EXCEPT ![i].class = c] \in [1 .. Len(s) -> Request]
  BY <1>1, <1>2
<1> QED
  BY <1>1, <1>3

(* What a wave appends to the queue: spawns of players.                    *)
LEMMA WaveFacts ==
  ASSUME Typed, Wave
  PROVE  /\ spawnRequests' \in Seq(Request)
         /\ nextEntity' \in Nat /\ nextEntity' >= nextEntity
         /\ live \subseteq live'
         /\ live' \subseteq live \cup (nextEntity .. nextEntity' - 1)
         /\ health' \in [Entity -> {MaxHealth} \cup {health[e] : e \in Entity}]
         /\ kit' \in [Entity -> [team : Team, class : Class]]
         /\ \E s \in Seq(SpawnedEvent) : writeQueue' = writeQueue \o s
<1> DEFINE all == 1 .. Len(spawnRequests)
<1>1. PICK spawned \in RequestsAt(CarriedOut), left \in RequestsAt(all \ CarriedOut) :
        /\ spawnRequests' = left
        /\ nextEntity' = nextEntity + Len(spawned)
        /\ live' = live \cup {nextEntity + k - 1 : k \in 1 .. Len(spawned)}
        /\ health' = [e \in Entity |->
                        IF e \in {nextEntity + k - 1 : k \in 1 .. Len(spawned)}
                          THEN MaxHealth ELSE health[e]]
        /\ kit' = [e \in Entity |->
                     IF e \in {nextEntity + k - 1 : k \in 1 .. Len(spawned)}
                       THEN [team |-> spawned[e - nextEntity + 1].team,
                             class |-> spawned[e - nextEntity + 1].class]
                       ELSE kit[e]]
        /\ writeQueue' = writeQueue \o
             [k \in 1 .. Len(spawned) |->
                [type |-> "PlayerSpawned", id |-> spawned[k].player,
                 player |-> nextEntity + k - 1]]
  BY DEF Wave
<1>2. spawned \in Seq(Request) /\ left \in Seq(Request)
  BY RequestsAtAreRequests DEF CarriedOut
<1>3. /\ Len(spawned) \in Nat
      /\ \A k \in 1 .. Len(spawned) : spawned[k] \in Request
      /\ nextEntity \in Nat /\ nextEntity >= 1
  BY <1>2 DEF Typed
<1> DEFINE created == {nextEntity + k - 1 : k \in 1 .. Len(spawned)}
<1>4. \A e \in created : e - nextEntity + 1 \in 1 .. Len(spawned)
                           /\ e \in nextEntity .. nextEntity + Len(spawned) - 1
  BY <1>3
<1>5. health' \in [Entity -> {MaxHealth} \cup {health[e] : e \in Entity}]
  BY <1>1
<1>6. kit' \in [Entity -> [team : Team, class : Class]]
  <2>1. ASSUME NEW e \in created
        PROVE  [team |-> spawned[e - nextEntity + 1].team,
                class |-> spawned[e - nextEntity + 1].class] \in [team : Team, class : Class]
    BY <1>3, <1>4 DEF Request
  <2>2. \A e \in Entity : kit[e] \in [team : Team, class : Class]
    BY DEF Typed
  <2> HIDE DEF created
  <2>3. kit' = [e \in Entity |->
                     IF e \in created
                       THEN [team |-> spawned[e - nextEntity + 1].team,
                             class |-> spawned[e - nextEntity + 1].class]
                       ELSE kit[e]]
    BY <1>1 DEF created
  <2> QED
    BY <2>1, <2>2, <2>3
<1>7. \E s \in Seq(SpawnedEvent) : writeQueue' = writeQueue \o s
  <2> DEFINE s == [k \in 1 .. Len(spawned) |->
                     [type |-> "PlayerSpawned", id |-> spawned[k].player,
                      player |-> nextEntity + k - 1]]
  <2>1. \A k \in 1 .. Len(spawned) :
          [type |-> "PlayerSpawned", id |-> spawned[k].player,
           player |-> nextEntity + k - 1] \in SpawnedEvent
    BY <1>3 DEF SpawnedEvent, Request
  <2>2. s \in Seq(SpawnedEvent)
    BY <1>3, <2>1
  <2> QED
    BY <1>1, <2>2
<1>8. live \subseteq live' /\ live' \subseteq live \cup (nextEntity .. nextEntity' - 1)
  <2>1. live' = live \cup created /\ nextEntity' = nextEntity + Len(spawned)
    BY <1>1
  <2> HIDE DEF created
  <2>2. created \subseteq nextEntity .. nextEntity' - 1
    BY <1>3, <1>4, <2>1
  <2> QED
    BY <2>1, <2>2
<1>9. nextEntity' \in Nat /\ nextEntity' >= nextEntity
  BY <1>1, <1>3
<1>10. spawnRequests' \in Seq(Request)
  BY <1>1, <1>2
<1> QED
  BY <1>5, <1>6, <1>7, <1>8, <1>9, <1>10

LEMMA InitTyped == ConstantsAreNumbers /\ Init => Typed
<1> SUFFICES ASSUME ConstantsAreNumbers, Init PROVE Typed
  OBVIOUS
<1>1. health \in [Entity -> Int] /\ requested \in [Entity -> Nat]
  BY DEF Init, ConstantsAreNumbers
<1>2. kit \in [Entity -> [team : Team, class : Class]]
  BY DEF Init, Team, Class
<1>3. entityOf \in [Player -> Int] /\ playerEntities \in [Player -> Int]
  BY DEF Init, MapRoot, NoEntity
<1>4. playerIDs \in [Entity -> Player \cup {Nobody}]
  BY DEF Init
<1> QED
  BY <1>1, <1>2, <1>3, <1>4 DEF Init, Typed, Phase

(* A handler's step keeps the schedule's types, whatever it appends.       *)
LEMMA DeliveryIsTyped ==
  ASSUME Typed, NEW p, NEW t, Delivers(p, t), readQueue' = readQueue,
         phase' \in {phase, "terminated"}
  PROVE  phase' \in Phase /\ cursor' \in 0 .. Len(readQueue') /\ readQueue' \in Seq(QueuedEvent)
<1>1. cursor + 1 \in 1 .. Len(readQueue) /\ cursor' = cursor + 1
  BY DeliveredEvent
<1> QED
  BY <1>1 DEF Typed, Phase

LEMMA NextTyped ==
  ASSUME ConstantsAreNumbers, Typed, [Next]_vars
  PROVE  Typed'
<1> USE DEF schedule, messages, world, session, spawning
<1>1. CASE IgnoreEvent
  BY <1>1 DEF IgnoreEvent, Typed, Returns
<1>2. CASE NextPhase
  <2>1. phase' \in Phase
    BY <1>2 DEF NextPhase, Successor, Phase
  <2> QED
    BY <1>2, <2>1 DEF NextPhase, Typed
<1>3. CASE EndTick
  BY <1>3 DEF EndTick, Typed, Phase
<1>4. CASE ServerOnPlayerSpawned
  <2>1. /\ Delivers("Server", "PlayerSpawned")
        /\ phase' \in {phase, "terminated"}
        /\ UNCHANGED <<readQueue, writeQueue, messages, world, connected, spawning>>
    BY <1>4 DEF ServerOnPlayerSpawned, Returns, Terminates
  <2>2. CurrentEvent.id \in Player /\ CurrentEvent.player \in Nat
    BY <2>1, DeliveredEvent, EventFields
  <2>3. entityOf' \in [Player -> Int]
    BY <1>4, <2>2 DEF ServerOnPlayerSpawned, Typed
  <2> QED
    BY <2>1, <2>3, DeliveryIsTyped DEF Typed
<1>5. CASE ServerOnPlayerDeath
  <2>1. /\ Delivers("Server", "PlayerDeath")
        /\ phase' \in {phase, "terminated"}
        /\ UNCHANGED <<readQueue, writeQueue, messages, world, session, spawning>>
    BY <1>5 DEF ServerOnPlayerDeath, Returns, Terminates
  <2> QED
    BY <2>1, DeliveryIsTyped DEF Typed
<1>6. CASE OnPlayerDamaged
  <2> DEFINE e == CurrentEvent
             death == [type |-> "PlayerDeath", player |-> e.victim, killer |-> e.inflictor]
  <2>1. /\ Delivers("HealthSystem", "PlayerDamage") /\ phase' = phase
        /\ UNCHANGED <<readQueue, messages, nextEntity, live, kit, leaked, map, session,
                       spawning>>
        /\ health' \in {health, [health EXCEPT ![e.victim] = health[e.victim] - e.damage]}
        /\ writeQueue' \in {writeQueue, Append(writeQueue, death)}
    BY <1>6 DEF OnPlayerDamaged, Returns, Publish
  <2>2. e.victim \in Entity /\ e.inflictor \in Entity /\ e.damage \in Int
    BY <2>1, DeliveredEvent, EventFields DEF ConstantsAreNumbers
  <2>3. health' \in [Entity -> Int]
    BY <2>1, <2>2 DEF Typed
  <2>4. death \in QueuedEvent
    BY <2>2 DEF QueuedEvent, PlayerDeath
  <2>5. writeQueue' \in Seq(QueuedEvent)
    <3> HIDE DEF death
    <3>1. writeQueue \in Seq(QueuedEvent) /\ Append(writeQueue, death) \in Seq(QueuedEvent)
      BY <2>4 DEF Typed
    <3> QED
      BY <2>1, <3>1
  <2> QED
    BY <2>1, <2>3, <2>5, DeliveryIsTyped DEF Typed
<1>7. CASE OnPlayerHealthPickup
  <2> DEFINE e == CurrentEvent.player
  <2>1. /\ Delivers("HealthSystem", "PlayerHealthPickup") /\ phase' = phase
        /\ UNCHANGED <<readQueue, writeQueue, messages, nextEntity, live, kit, map,
                       session, spawning>>
        /\ health' = [health EXCEPT ![e] =
                        Smaller((IF e \in live \cup leaked THEN health[e] ELSE MaxHealth)
                                  + HealAmount, MaxHealth)]
    BY <1>7 DEF OnPlayerHealthPickup, Returns
  <2>2. e \in Entity
    BY <2>1, DeliveredEvent, EventFields
  <2>3. health' \in [Entity -> Int]
    BY <2>1, <2>2 DEF Typed, Smaller, ConstantsAreNumbers
  <2> QED
    BY <2>1, <2>3, DeliveryIsTyped DEF Typed
<1>8. CASE OnInputCommand
  <2>1. /\ Delivers("PlayerSpawnSystem", "InputCommand") /\ phase' = phase
        /\ UNCHANGED <<readQueue, writeQueue, messages, world, session, playerEntities,
                       playerIDs, timer, requested>>
    BY <1>8 DEF OnInputCommand, Returns
  <2> DEFINE e == CurrentEvent
             i == RequestOf(e.player)
  <2>2. e.player \in Player /\ e.team \in Team /\ e.command \in {"PickTeam", "PickClass", "Swap"}
    BY <2>1, DeliveredEvent, EventFields
  <2>3. "None" \in Class /\ "Assault" \in Class /\ "Spectator" \in Team
    BY DEF Class, Team
  <2>4. /\ [player |-> e.player, team |-> e.team, class |-> "None"] \in Request
        /\ [player |-> e.player, team |-> "Spectator", class |-> "Assault"] \in Request
    BY <2>2, <2>3 DEF Request
  <2>5. spawnRequests' \in Seq(Request)
    <3> HIDE DEF i
    <3>1. \/ spawnRequests' = [spawnRequests EXCEPT ![i].class = "None"]
          \/ spawnRequests' = [spawnRequests EXCEPT ![i].team = e.team]
          \/ spawnRequests' = [spawnRequests EXCEPT ![i].class = "Assault"]
          \/ spawnRequests' = Append(spawnRequests,
               [player |-> e.player, team |-> e.team, class |-> "None"])
          \/ spawnRequests' = Append(spawnRequests,
               [player |-> e.player, team |-> "Spectator", class |-> "Assault"])
          \/ spawnRequests' = spawnRequests
      BY <1>8, <2>2 DEF OnInputCommand, i
    <3>2. spawnRequests \in Seq(Request)
      BY DEF Typed
    <3>3. /\ [spawnRequests EXCEPT ![i].class = "None"] \in Seq(Request)
          /\ [spawnRequests EXCEPT ![i].team = e.team] \in Seq(Request)
          /\ [spawnRequests EXCEPT ![i].class = "Assault"] \in Seq(Request)
      BY <2>2, <2>3, <3>2, AlteredRequests
    <3>4. \A r \in Request : Append(spawnRequests, r) \in Seq(Request)
      BY <3>2
    <3> QED
      BY <2>4, <3>1, <3>2, <3>3, <3>4
  <2> QED
    BY <2>1, <2>5, DeliveryIsTyped DEF Typed
<1>9. CASE OnPlayerSpawned
  <2>1. /\ Delivers("PlayerSpawnSystem", "PlayerSpawned") /\ phase' = phase
        /\ UNCHANGED <<readQueue, writeQueue, messages, world, session, spawnRequests,
                       timer, requested>>
        /\ playerEntities' = [playerEntities EXCEPT ![CurrentEvent.id] = CurrentEvent.player]
        /\ playerIDs' = [playerIDs EXCEPT ![CurrentEvent.player] = CurrentEvent.id]
    BY <1>9 DEF OnPlayerSpawned, Returns
  <2>2. CurrentEvent.id \in Player /\ CurrentEvent.player \in Nat
    BY <2>1, DeliveredEvent, EventFields
  <2>3. playerEntities' \in [Player -> Int]
    BY <2>1, <2>2 DEF Typed
  <2>4. playerIDs' \in [Entity -> Player \cup {Nobody}]
    BY <2>1, <2>2 DEF Typed
  <2> QED
    BY <2>1, <2>3, <2>4, DeliveryIsTyped DEF Typed
<1>10. CASE OnPlayerDeath
  <2> DEFINE e == CurrentEvent.player
             r == [player |-> playerIDs[e], team |-> kit[e].team, class |-> kit[e].class]
  <2>1. /\ Delivers("PlayerSpawnSystem", "PlayerDeath") /\ phase' = phase
        /\ UNCHANGED <<readQueue, writeQueue, messages, world, session, playerEntities,
                       playerIDs, timer>>
        /\ \/ UNCHANGED <<spawnRequests, requested>>
           \/ /\ playerIDs[e] # Nobody
              /\ spawnRequests' = Append(spawnRequests, r)
              /\ requested' = [requested EXCEPT ![e] = requested[e] + 1]
    BY <1>10 DEF OnPlayerDeath, Returns
  <2>2. e \in Entity
    BY <2>1, DeliveredEvent, EventFields
  <2>3. playerIDs[e] # Nobody => r \in Request
    BY <2>2 DEF Typed, Request
  <2>4. spawnRequests' \in Seq(Request)
    <3> HIDE DEF r
    <3>1. /\ spawnRequests \in Seq(Request)
          /\ r \in Request => Append(spawnRequests, r) \in Seq(Request)
      BY DEF Typed
    <3> QED
      BY <2>1, <2>3, <3>1
  <2>5. requested' \in [Entity -> Nat]
    <3>1. requested \in [Entity -> Nat] /\ requested[e] + 1 \in Nat
      BY <2>2 DEF Typed
    <3>2. [requested EXCEPT ![e] = requested[e] + 1] \in [Entity -> Nat]
      BY <3>1
    <3> QED
      BY <2>1, <3>1, <3>2
  <2> QED
    BY <2>1, <2>4, <2>5, DeliveryIsTyped DEF Typed
<1>11. CASE UpdateSpawns
  <2>1. /\ phase' \in Phase /\ cursor' \in 0 .. Len(readQueue)
        /\ UNCHANGED <<readQueue, messages, leaked, map, session, playerEntities,
                       playerIDs, requested>>
    BY <1>11 DEF UpdateSpawns, Phase, Typed
  <2>2. CASE Wave
    <3>1. PICK s \in Seq(SpawnedEvent) : writeQueue' = writeQueue \o s
      BY <2>2, WaveFacts
    <3>2. s \in Seq(QueuedEvent)
      BY DEF QueuedEvent
    <3>3. writeQueue' \in Seq(QueuedEvent)
      BY <3>1, <3>2 DEF Typed
    <3>4. \A e \in Entity : health[e] \in Int
      BY DEF Typed
    <3>5. health' \in [Entity -> Int]
      BY <2>2, <3>4, WaveFacts DEF ConstantsAreNumbers
    <3>6. live' \subseteq 1 .. nextEntity' - 1
      <4>1. /\ nextEntity \in Nat /\ nextEntity >= 1 /\ live \subseteq 1 .. nextEntity - 1
            /\ nextEntity' \in Nat /\ nextEntity' >= nextEntity
            /\ live' \subseteq live \cup (nextEntity .. nextEntity' - 1)
        BY <2>2, WaveFacts DEF Typed
      <4>2. \A n, m \in Nat : n >= 1 /\ m >= n =>
              (1 .. n - 1) \cup (n .. m - 1) \subseteq 1 .. m - 1
        OBVIOUS
      <4>3. (1 .. nextEntity - 1) \cup (nextEntity .. nextEntity' - 1)
              \subseteq 1 .. nextEntity' - 1
        BY <4>1, <4>2, Zenon
      <4> QED
        BY <4>1, <4>3, Zenon
    <3>7. /\ spawnRequests' \in Seq(Request)
          /\ nextEntity' \in Nat /\ nextEntity' >= 1
          /\ kit' \in [Entity -> [team : Team, class : Class]]
      BY <2>2, WaveFacts DEF Typed
    <3>8. /\ readQueue' \in Seq(QueuedEvent) /\ playerEntities' \in [Player -> Int]
          /\ playerIDs' \in [Entity -> Player \cup {Nobody}]
          /\ requested' \in [Entity -> Nat]
          /\ cursor' \in 0 .. Len(readQueue')
      BY <2>1 DEF Typed
    <3>9. connected' \subseteq Player /\ entityOf' \in [Player -> Int]
      BY <2>1 DEF Typed, session
    <3> QED
      BY <2>1, <3>3, <3>5, <3>6, <3>7, <3>8, <3>9 DEF Typed
  <2>3. CASE UNCHANGED <<spawnRequests, nextEntity, live, health, kit, writeQueue>>
    BY <2>1, <2>3 DEF Typed
  <2> QED
    BY <1>11, <2>2, <2>3 DEF UpdateSpawns
<1>12. CASE OnPlayerDeathDelete
  <2>1. /\ Delivers("PlayerDeathSystem", "PlayerDeath") /\ phase' = phase
        /\ live' \subseteq live
        /\ UNCHANGED <<readQueue, writeQueue, messages, nextEntity, health, kit, leaked,
                       map, session, spawning>>
    BY <1>12 DEF OnPlayerDeathDelete, Returns
  <2> QED
    BY <2>1, DeliveryIsTyped DEF Typed
<1>13. CASE Receive
  <2>1. /\ UNCHANGED <<schedule, readQueue, world, session, spawning>>
        /\ \/ \E p \in connected : \E packed \in Commands(p) :
                writeQueue' = writeQueue \o packed
           \/ \E e \in PlayerDamage : writeQueue' = Append(writeQueue, e)
    BY <1>13 DEF Receive, Publish
  <2>2. ASSUME NEW p \in Player, NEW packed \in Commands(p)
        PROVE  packed \in Seq(QueuedEvent)
    <3>1. \A c \in {"PickTeam", "PickClass", "Swap"}, t \in Team :
            Command(p, c, t) \in QueuedEvent
      BY DEF Command, QueuedEvent, InputCommand
    <3>2. "Spectator" \in Team /\ SpawnerTeam \subseteq Team
      BY DEF Team
    <3>3. /\ Command(p, "PickClass", "Spectator") \in QueuedEvent
          /\ Command(p, "Swap", "Spectator") \in QueuedEvent
          /\ \A t \in Team : Command(p, "PickTeam", t) \in QueuedEvent
      BY <3>1, <3>2
    <3>4. \/ packed = <<Command(p, "PickClass", "Spectator")>>
          \/ packed = <<Command(p, "Swap", "Spectator")>>
          \/ \E t \in Team : packed = <<Command(p, "PickTeam", t)>>
          \/ \E t \in SpawnerTeam :
               packed = <<Command(p, "PickTeam", t), Command(p, "PickClass", "Spectator")>>
      BY DEF Commands
    <3>5. \A a, b \in QueuedEvent : <<a>> \in Seq(QueuedEvent) /\ <<a, b>> \in Seq(QueuedEvent)
      OBVIOUS
    <3> QED
      BY <3>2, <3>3, <3>4, <3>5
  <2>3. writeQueue' \in Seq(QueuedEvent)
    <3>1. \A e \in PlayerDamage : e \in QueuedEvent
      BY DEF QueuedEvent
    <3>2. /\ writeQueue \in Seq(QueuedEvent) /\ connected \subseteq Player
          /\ \A e \in QueuedEvent : Append(writeQueue, e) \in Seq(QueuedEvent)
          /\ \A s \in Seq(QueuedEvent) : writeQueue \o s \in Seq(QueuedEvent)
      BY DEF Typed
    <3> QED
      BY <2>1, <2>2, <3>1, <3>2
  <2> QED
    BY <2>1, <2>3 DEF Typed
<1>14. ASSUME NEW p \in Player, Disconnect(p) PROVE Typed'
  <2>1. /\ connected' \subseteq connected /\ live' \subseteq live
        /\ entityOf' = [entityOf EXCEPT ![p] = MapRoot]
        /\ UNCHANGED <<schedule, readQueue, writeQueue, messages, nextEntity, health, kit,
                       spawning>>
    BY <1>14 DEF Disconnect
  <2>2. entityOf' \in [Player -> Int]
    BY <2>1 DEF Typed, MapRoot
  <2> QED
    BY <2>1, <2>2 DEF Typed
<1>15. ASSUME NEW e \in Entity, DoPickup(e) PROVE Typed'
  <2>1. /\ writeQueue' = Append(writeQueue, [type |-> "PlayerHealthPickup", player |-> e])
        /\ phase' \in Phase /\ cursor' = 0
        /\ UNCHANGED <<readQueue, messages, world, session, spawning>>
    BY <1>15 DEF DoPickup, Publish, Successor, Phase
  <2>2. [type |-> "PlayerHealthPickup", player |-> e] \in QueuedEvent
    BY DEF QueuedEvent, PlayerHealthPickup
  <2> QED
    BY <2>1, <2>2 DEF Typed
<1>16. CASE UNCHANGED vars
  BY <1>16 DEF vars, Typed
<1> QED
  BY <1>1, <1>2, <1>3, <1>4, <1>5, <1>6, <1>7, <1>8, <1>9, <1>10, <1>11, <1>12, <1>13,
     <1>14, <1>15, <1>16 DEF Next, TickStep

-----------------------------------------------------------------------------
(* What the Server and PlayerSpawnSystem know.                             *)

(* Event i of the read queue tells that player p was spawned.              *)
Spawns(i, p) == readQueue[i].type = "PlayerSpawned" /\ readQueue[i].id = p

NoSpawn(n, p) == \A i \in 1 .. n : ~ Spawns(i, p)

(* Event j is the last of the first n that tells that p was spawned.       *)
LastSpawn(j, n, p) ==
  j \in 1 .. n /\ Spawns(j, p) /\ \A i \in 1 .. n : i > j => ~ Spawns(i, p)

(* The Server and PlayerSpawnSystem agree about player p.                  *)
Agree(p) == playerEntities[p] # NoEntity => entityOf[p] = playerEntities[p]

(* The Server has been told n events of the tick; PlayerSpawnSystem none.  *)
Told(p, n) ==
  \/ NoSpawn(n, p) /\ Agree(p)
  \/ \E j \in 1 .. n : LastSpawn(j, n, p) /\ entityOf[p] = readQueue[j].player

(* The Server has been told all events; PlayerSpawnSystem n of them.       *)
Followed(p, n) ==
  \/ NoSpawn(Len(readQueue), p) /\ Agree(p)
  \/ \E j \in 1 .. Len(readQueue) :
       /\ LastSpawn(j, Len(readQueue), p) /\ entityOf[p] = readQueue[j].player
       /\ j <= n => playerEntities[p] = readQueue[j].player

(* What both know of a connected player, in every part of the tick.        *)
SessionInv ==
  \A p \in connected :
    /\ phase = "Server" => Told(p, cursor)
    /\ phase = "HealthSystem" => Told(p, Len(readQueue))
    /\ phase = "PlayerSpawnSystem" => Followed(p, cursor)
    /\ phase \in {"receive", "disconnect", "wave", "pickup", "PlayerDeathSystem"} =>
         Agree(p)

(* Queue q tells of one death of an entity at most.                        *)
OneDeathEach(q) ==
  \A i, j \in 1 .. Len(q) :
    /\ q[i].type = "PlayerDeath" /\ q[j].type = "PlayerDeath"
    /\ q[i].player = q[j].player
    => i = j

(* In queue q nobody is damaged once somebody was healed.                  *)
DamageFirst(q) ==
  \A i, j \in 1 .. Len(q) :
    i < j /\ q[i].type = "PlayerHealthPickup" => q[j].type # "PlayerDamage"

(* Until HealthSystem runs, only what clients sent waits for the next tick.*)
OnlyMessagesWait ==
  phase \in {"receive", "disconnect", "Server"} =>
    \A i \in 1 .. Len(writeQueue) :
      writeQueue[i].type \in {"InputCommand", "PlayerDamage"}

(* Whoever died in this tick can not be damaged again before the next one. *)
TheDyingStayDown ==
  phase = "HealthSystem" =>
    \A i \in 1 .. Len(writeQueue) : writeQueue[i].type = "PlayerDeath" =>
      \/ health[writeQueue[i].player] <= 0
      \/ \A j \in 1 .. Len(readQueue) : j > cursor => readQueue[j].type # "PlayerDamage"

(* The death of e has made its request and is about to delete e.           *)
BeingDeleted(e) ==
  \E i \in 1 .. Len(readQueue) :
    /\ readQueue[i].type = "PlayerDeath" /\ readQueue[i].player = e
    /\ \/ phase = "PlayerSpawnSystem" /\ i <= cursor
       \/ phase \in {"wave", "pickup"}
       \/ phase = "PlayerDeathSystem" /\ i > cursor

(* An entity whose death made a request made one, and is gone for good.    *)
RequestsAreFinal ==
  \A e \in Entity : requested[e] # 0 =>
    /\ requested[e] = 1 /\ e < nextEntity
    /\ e \in live => BeingDeleted(e)

DeathInv ==
  /\ OneDeathEach(readQueue) /\ OneDeathEach(writeQueue)
  /\ DamageFirst(readQueue) /\ DamageFirst(writeQueue)
  /\ OnlyMessagesWait
  /\ TheDyingStayDown
  /\ RequestsAreFinal

-----------------------------------------------------------------------------

(* An event that spawns somebody else changes nothing of what p's knowers  *)
(* have been told.                                                         *)
LEMMA TellOther ==
  ASSUME Typed, NEW p, cursor + 1 \in 1 .. Len(readQueue), ~ Spawns(cursor + 1, p)
  PROVE  /\ Told(p, cursor) => Told(p, cursor + 1)
         /\ Followed(p, cursor) => Followed(p, cursor + 1)
<1>1. cursor \in Nat /\ Len(readQueue) \in Nat
  BY DEF Typed
<1>2. Told(p, cursor) => Told(p, cursor + 1)
  <2>1. NoSpawn(cursor, p) => NoSpawn(cursor + 1, p)
    BY <1>1 DEF NoSpawn
  <2>2. \A j \in 1 .. cursor :
          j \in 1 .. cursor + 1 /\ (LastSpawn(j, cursor, p) => LastSpawn(j, cursor + 1, p))
    BY <1>1 DEF LastSpawn
  <2> QED
    BY <2>1, <2>2 DEF Told
<1>3. Followed(p, cursor) => Followed(p, cursor + 1)
  <2>1. \A j \in 1 .. Len(readQueue) :
          LastSpawn(j, Len(readQueue), p) /\ j <= cursor + 1 => j <= cursor
    BY <1>1 DEF LastSpawn
  <2> QED
    BY <2>1 DEF Followed
<1> QED
  BY <1>2, <1>3

(* A step that leaves alone what both know, and what they are told, keeps  *)
(* them in agreement.                                                      *)
LEMMA SessionKept ==
  ASSUME SessionInv, connected' \subseteq connected,
         UNCHANGED <<phase, readQueue, playerEntities>>,
         \A p \in connected' : entityOf'[p] = entityOf[p],
         cursor' = cursor \/ phase \in {"HealthSystem", "PlayerDeathSystem"}
  PROVE  SessionInv'
<1> SUFFICES ASSUME NEW p \in connected'
             PROVE  /\ phase = "Server" => Told(p, cursor)'
                    /\ phase = "HealthSystem" => Told(p, Len(readQueue))'
                    /\ phase = "PlayerSpawnSystem" => Followed(p, cursor)'
                    /\ phase \in {"receive", "disconnect", "wave", "pickup",
                                  "PlayerDeathSystem"} => Agree(p)'
  BY DEF SessionInv
<1>1. p \in connected /\ entityOf'[p] = entityOf[p]
  OBVIOUS
<1>2. Agree(p) => Agree(p)'
  BY <1>1 DEF Agree
<1>3. \A n : /\ NoSpawn(n, p) => NoSpawn(n, p)'
             /\ \A j : LastSpawn(j, n, p) => LastSpawn(j, n, p)'
  BY DEF NoSpawn, LastSpawn, Spawns
<1>4. phase = "Server" => Told(p, cursor)'
  BY <1>1, <1>2, <1>3 DEF SessionInv, Told
<1>5. phase = "HealthSystem" => Told(p, Len(readQueue))'
  BY <1>1, <1>2, <1>3 DEF SessionInv, Told
<1>6. phase = "PlayerSpawnSystem" => Followed(p, cursor)'
  BY <1>1, <1>2, <1>3 DEF SessionInv, Followed
<1> QED
  BY <1>1, <1>2, <1>4, <1>5, <1>6 DEF SessionInv

(* In the phases in which both agree, the next one finds them agreeing.    *)
LEMMA AgreementKept ==
  ASSUME SessionInv, UNCHANGED <<connected, entityOf, playerEntities>>,
         phase \in {"receive", "wave", "pickup", "PlayerDeathSystem"},
         phase' \in {"receive", "disconnect", "wave", "pickup", "PlayerDeathSystem"}
  PROVE  SessionInv'
  BY DEF SessionInv, Agree

(* The Server or PlayerSpawnSystem is given an event that is no spawn.     *)
LEMMA SessionTold ==
  ASSUME Typed, SessionInv, UNCHANGED <<readQueue, connected, entityOf, playerEntities>>,
         cursor + 1 \in 1 .. Len(readQueue), cursor' = cursor + 1,
         readQueue[cursor + 1].type # "PlayerSpawned",
         phase' \in {phase, "terminated"}
  PROVE  SessionInv'
<1> SUFFICES ASSUME NEW p \in connected, phase' = phase
             PROVE  /\ phase = "Server" => Told(p, cursor)'
                    /\ phase = "HealthSystem" => Told(p, Len(readQueue))'
                    /\ phase = "PlayerSpawnSystem" => Followed(p, cursor)'
                    /\ phase \in {"receive", "disconnect", "wave", "pickup",
                                  "PlayerDeathSystem"} => Agree(p)'
  BY DEF SessionInv
<1>1. ~ Spawns(cursor + 1, p)
  BY DEF Spawns
<1>2. /\ phase = "Server" => Told(p, cursor + 1)
      /\ phase = "PlayerSpawnSystem" => Followed(p, cursor + 1)
  BY <1>1, TellOther DEF SessionInv
<1>3. Agree(p)' <=> Agree(p)
  BY DEF Agree
<1>4. \A n : /\ NoSpawn(n, p)' <=> NoSpawn(n, p)
             /\ \A j : LastSpawn(j, n, p)' <=> LastSpawn(j, n, p)
  BY DEF NoSpawn, LastSpawn, Spawns
<1>5. phase = "Server" => Told(p, cursor)'
  BY <1>2, <1>3, <1>4 DEF Told
<1>6. phase = "HealthSystem" => Told(p, Len(readQueue))'
  BY <1>3, <1>4 DEF SessionInv, Told
<1>7. phase = "PlayerSpawnSystem" => Followed(p, cursor)'
  BY <1>2, <1>3, <1>4 DEF Followed
<1> QED
  BY <1>3, <1>5, <1>6, <1>7 DEF SessionInv

(* Every step keeps the Server and PlayerSpawnSystem in agreement.         *)
LEMMA NextSession ==
  ASSUME Typed, SessionInv, [Next]_vars
  PROVE  SessionInv'
<1> USE DEF schedule, messages, world, session, spawning
<1>1. CASE IgnoreEvent
  <2>1. /\ IsHandler /\ cursor + 1 \in 1 .. Len(readQueue) /\ cursor' = cursor + 1
        /\ readQueue[cursor + 1].type \notin Subscribed /\ phase' = phase
        /\ UNCHANGED <<readQueue, connected, entityOf, playerEntities>>
    BY <1>1 DEF IgnoreEvent, Returns, CurrentEvent, Typed
  <2>2. CASE phase \in {"Server", "PlayerSpawnSystem"}
    <3>1. readQueue[cursor + 1].type # "PlayerSpawned"
      BY <2>1, <2>2 DEF Subscribed
    <3> QED
      BY <2>1, <3>1, SessionTold
  <2>3. CASE phase \in {"HealthSystem", "PlayerDeathSystem"}
    BY <2>1, <2>3, SessionKept
  <2> QED
    BY <2>1, <2>2, <2>3 DEF IsHandler, Subscribed
<1>2. CASE NextPhase
  <2>1. /\ phase \in DOMAIN Successor /\ phase' = Successor[phase] /\ cursor' = 0
        /\ IsHandler => cursor = Len(readQueue)
        /\ UNCHANGED <<readQueue, connected, entityOf, playerEntities>>
    BY <1>2 DEF NextPhase
  <2>2. Len(readQueue) \in Nat
    BY DEF Typed
  <2> SUFFICES ASSUME NEW p \in connected
               PROVE  /\ phase' = "Server" => Told(p, cursor)'
                      /\ phase' = "HealthSystem" => Told(p, Len(readQueue))'
                      /\ phase' = "PlayerSpawnSystem" => Followed(p, cursor)'
                      /\ phase' \in {"receive", "disconnect", "wave", "pickup",
                                     "PlayerDeathSystem"} => Agree(p)'
    BY <2>1 DEF SessionInv
  <2>3. Agree(p)' <=> Agree(p)
    BY <2>1 DEF Agree
  <2>4. \A n : /\ NoSpawn(n, p)' <=> NoSpawn(n, p)
               /\ \A j : LastSpawn(j, n, p)' <=> LastSpawn(j, n, p)
    BY <2>1 DEF NoSpawn, LastSpawn, Spawns
  <2>5. CASE phase \in {"receive", "pickup"}
    BY <2>1, <2>3, <2>5 DEF Successor, SessionInv
  <2>6. CASE phase = "disconnect"
    <3>1. Agree(p)' /\ phase' = "Server"
      BY <2>1, <2>3, <2>6 DEF Successor, SessionInv
    <3>2. NoSpawn(cursor, p)'
      BY <2>1 DEF NoSpawn
    <3> QED
      BY <3>1, <3>2 DEF Told
  <2>7. CASE phase = "Server"
    <3>1. Told(p, Len(readQueue)) /\ phase' = "HealthSystem"
      BY <2>1, <2>7 DEF Successor, SessionInv, IsHandler, Subscribed
    <3> QED
      BY <2>1, <2>3, <2>4, <3>1 DEF Told
  <2>8. CASE phase = "HealthSystem"
    <3>1. Told(p, Len(readQueue)) /\ phase' = "PlayerSpawnSystem"
      BY <2>1, <2>8 DEF Successor, SessionInv
    <3>2. Followed(p, cursor)'
      BY <2>1, <2>2, <2>3, <2>4, <3>1 DEF Told, Followed
    <3> QED
      BY <3>1, <3>2
  <2>9. CASE phase = "PlayerSpawnSystem"
    <3>1. Followed(p, Len(readQueue)) /\ phase' = "wave"
      BY <2>1, <2>9 DEF Successor, SessionInv, IsHandler, Subscribed
    <3>2. Agree(p)
      BY <2>2, <3>1 DEF Followed, Agree
    <3> QED
      BY <2>3, <3>1, <3>2
  <2> QED
    BY <2>1, <2>5, <2>6, <2>7, <2>8, <2>9 DEF Successor
<1>3. CASE EndTick
  BY <1>3, AgreementKept DEF EndTick
<1>4. CASE ServerOnPlayerSpawned
  <2> DEFINE e == CurrentEvent
  <2>1. /\ phase = "Server" /\ cursor + 1 \in 1 .. Len(readQueue) /\ cursor' = cursor + 1
        /\ e = readQueue[cursor + 1] /\ e.type = "PlayerSpawned"
        /\ cursor \in Nat /\ Len(readQueue) \in Nat
        /\ UNCHANGED <<readQueue, connected, playerEntities>>
        /\ \/ /\ entityOf' = [entityOf EXCEPT ![e.id] = e.player] /\ phase' = phase
           \/ phase' = "terminated"
    BY <1>4, DeliveredEvent DEF ServerOnPlayerSpawned, Returns, Terminates
  <2> SUFFICES ASSUME NEW p \in connected, phase' = phase
               PROVE  Told(p, cursor)'
    BY <2>1 DEF SessionInv
  <2>2. \A n : /\ NoSpawn(n, p)' <=> NoSpawn(n, p)
               /\ \A j : LastSpawn(j, n, p)' <=> LastSpawn(j, n, p)
    BY <2>1 DEF NoSpawn, LastSpawn, Spawns
  <2>3. CASE e.id = p
    <3>1. LastSpawn(cursor + 1, cursor + 1, p)
      BY <2>1, <2>3 DEF LastSpawn, Spawns
    <3>2. entityOf'[p] = readQueue[cursor + 1].player
      BY <2>1, <2>3 DEF Typed
    <3>3. cursor + 1 \in 1 .. cursor'
      BY <2>1
    <3> QED
      BY <2>1, <2>2, <3>1, <3>2, <3>3 DEF Told
  <2>4. CASE e.id # p
    <3>1. ~ Spawns(cursor + 1, p)
      BY <2>1, <2>4 DEF Spawns
    <3>2. Told(p, cursor + 1)
      BY <2>1, <3>1, TellOther DEF SessionInv
    <3>3. entityOf'[p] = entityOf[p]
      BY <2>1, <2>4 DEF Typed
    <3>4. Agree(p)' <=> Agree(p)
      BY <2>1, <3>3 DEF Agree
    <3> QED
      BY <2>1, <2>2, <3>2, <3>3, <3>4 DEF Told
  <2> QED
    BY <2>3, <2>4
<1>5. CASE ServerOnPlayerDeath
  <2>1. Delivers("Server", "PlayerDeath") /\ phase' \in {phase, "terminated"}
        /\ UNCHANGED <<readQueue, connected, entityOf, playerEntities>>
    BY <1>5 DEF ServerOnPlayerDeath, Returns, Terminates
  <2> QED
    BY <2>1, DeliveredEvent, SessionTold
<1>6. CASE OnPlayerDamaged \/ OnPlayerHealthPickup
  <2>1. /\ phase = "HealthSystem"
        /\ UNCHANGED <<phase, readQueue, connected, entityOf, playerEntities>>
    BY <1>6 DEF OnPlayerDamaged, OnPlayerHealthPickup, Delivers, Returns
  <2> QED
    BY <2>1, SessionKept
<1>7. CASE OnInputCommand
  <2>1. Delivers("PlayerSpawnSystem", "InputCommand") /\ phase' = phase
        /\ UNCHANGED <<readQueue, connected, entityOf, playerEntities>>
    BY <1>7 DEF OnInputCommand, Returns
  <2> QED
    BY <2>1, DeliveredEvent, SessionTold
<1>8. CASE OnPlayerSpawned
  <2> DEFINE e == CurrentEvent
  <2>1. /\ phase = "PlayerSpawnSystem" /\ phase' = phase
        /\ cursor + 1 \in 1 .. Len(readQueue) /\ cursor' = cursor + 1
        /\ e = readQueue[cursor + 1] /\ e.type = "PlayerSpawned"
        /\ cursor \in Nat /\ Len(readQueue) \in Nat
        /\ UNCHANGED <<readQueue, connected, entityOf>>
        /\ playerEntities' = [playerEntities EXCEPT ![e.id] = e.player]
    BY <1>8, DeliveredEvent DEF OnPlayerSpawned, Returns
  <2> SUFFICES ASSUME NEW p \in connected
               PROVE  Followed(p, cursor)'
    BY <2>1 DEF SessionInv
  <2>2. \A n : /\ NoSpawn(n, p)' <=> NoSpawn(n, p)
               /\ \A j : LastSpawn(j, n, p)' <=> LastSpawn(j, n, p)
    BY <2>1 DEF NoSpawn, LastSpawn, Spawns
  <2>3. Followed(p, cursor)
    BY <2>1 DEF SessionInv
  <2>4. CASE e.id = p
    <3>1. Spawns(cursor + 1, p)
      BY <2>1, <2>4 DEF Spawns
    <3>2. PICK j \in 1 .. Len(readQueue) :
            /\ LastSpawn(j, Len(readQueue), p) /\ entityOf[p] = readQueue[j].player
            /\ j <= cursor => playerEntities[p] = readQueue[j].player
      BY <2>1, <2>3, <3>1 DEF Followed, NoSpawn
    <3>3. j >= cursor + 1
      BY <2>1, <3>1, <3>2 DEF LastSpawn
    <3>4. j <= cursor + 1 => playerEntities'[p] = readQueue[j].player
      <4>1. playerEntities'[p] = e.player
        BY <2>1, <2>4 DEF Typed
      <4> QED
        BY <2>1, <3>3, <4>1
    <3> QED
      BY <2>1, <2>2, <3>2, <3>4 DEF Followed
  <2>5. CASE e.id # p
    <3>1. ~ Spawns(cursor + 1, p)
      BY <2>1, <2>5 DEF Spawns
    <3>2. Followed(p, cursor + 1)
      BY <2>1, <2>3, <3>1, TellOther
    <3>3. playerEntities'[p] = playerEntities[p]
      BY <2>1, <2>5 DEF Typed
    <3>4. Agree(p)' <=> Agree(p)
      BY <2>1, <3>3 DEF Agree
    <3> QED
      BY <2>1, <2>2, <3>2, <3>3, <3>4 DEF Followed
  <2> QED
    BY <2>4, <2>5
<1>9. CASE OnPlayerDeath
  <2>1. Delivers("PlayerSpawnSystem", "PlayerDeath") /\ phase' = phase
        /\ UNCHANGED <<readQueue, connected, entityOf, playerEntities>>
    BY <1>9 DEF OnPlayerDeath, Returns
  <2> QED
    BY <2>1, DeliveredEvent, SessionTold
<1>10. CASE UpdateSpawns
  BY <1>10, AgreementKept DEF UpdateSpawns
<1>11. CASE OnPlayerDeathDelete
  <2>1. /\ phase = "PlayerDeathSystem"
        /\ UNCHANGED <<phase, readQueue, connected, entityOf, playerEntities>>
    BY <1>11 DEF OnPlayerDeathDelete, Delivers, Returns
  <2> QED
    BY <2>1, SessionKept
<1>12. CASE Receive
  BY <1>12, SessionKept DEF Receive
<1>13. ASSUME NEW p \in Player, Disconnect(p) PROVE SessionInv'
  <2>1. /\ connected' = connected \ {p}
        /\ entityOf' = [entityOf EXCEPT ![p] = MapRoot]
        /\ UNCHANGED <<phase, cursor, readQueue, playerEntities>>
    BY <1>13 DEF Disconnect
  <2>2. \A q \in connected' : entityOf'[q] = entityOf[q]
    BY <2>1 DEF Typed
  <2> QED
    BY <2>1, <2>2, SessionKept
<1>14. ASSUME NEW e \in Entity, DoPickup(e) PROVE SessionInv'
  BY <1>14, AgreementKept DEF DoPickup, Successor
<1>15. CASE UNCHANGED vars
  BY <1>15, SessionKept DEF vars
<1> QED
  BY <1>1, <1>2, <1>3, <1>4, <1>5, <1>6, <1>7, <1>8, <1>9, <1>10, <1>11, <1>12, <1>13,
     <1>14, <1>15 DEF Next, TickStep

-----------------------------------------------------------------------------

(* Which part of the tick follows which.                                   *)
LEMMA SuccessorOf ==
  ASSUME NEW p \in DOMAIN Successor
  PROVE  \/ p = "receive" /\ Successor[p] = "disconnect"
         \/ p = "disconnect" /\ Successor[p] = "Server"
         \/ p = "Server" /\ Successor[p] = "HealthSystem"
         \/ p = "HealthSystem" /\ Successor[p] = "PlayerSpawnSystem"
         \/ p = "PlayerSpawnSystem" /\ Successor[p] = "wave"
         \/ p = "pickup" /\ Successor[p] = "PlayerDeathSystem"
  BY DEF Successor

(* A queue that grew by neither deaths nor damage tells of no more deaths, *)
(* and of no damage after a pickup.                                        *)
LEMMA QuietGrowth ==
  ASSUME NEW q \in Seq(QueuedEvent), NEW s \in Seq(QueuedEvent),
         OneDeathEach(q), DamageFirst(q),
         \A i \in 1 .. Len(s) : s[i].type \notin {"PlayerDeath", "PlayerDamage"}
  PROVE  OneDeathEach(q \o s) /\ DamageFirst(q \o s)
<1> DEFINE r == q \o s
<1>1. /\ Len(q) \in Nat /\ Len(s) \in Nat /\ Len(r) = Len(q) + Len(s)
      /\ \A i \in 1 .. Len(q) : r[i] = q[i]
  OBVIOUS
<1>2. ASSUME NEW i \in 1 .. Len(r), i > Len(q)
      PROVE  r[i].type \notin {"PlayerDeath", "PlayerDamage"}
  <2>1. i - Len(q) \in 1 .. Len(s)
    BY <1>1, <1>2
  <2>2. r[i] = s[i - Len(q)]
    BY <1>1, <1>2
  <2> QED
    BY <2>1, <2>2
<1>3. \A i \in 1 .. Len(r) : i > Len(q) \/ i \in 1 .. Len(q)
  BY <1>1
<1> HIDE DEF r
<1>4. OneDeathEach(r)
  BY <1>1, <1>2, <1>3 DEF OneDeathEach
<1>5. DamageFirst(r)
  <2> SUFFICES ASSUME NEW i \in 1 .. Len(r), NEW j \in 1 .. Len(r), i < j,
                      r[i].type = "PlayerHealthPickup", r[j].type = "PlayerDamage"
               PROVE  FALSE
    BY DEF DamageFirst
  <2>1. j \in 1 .. Len(q)
    BY <1>2, <1>3
  <2>2. i \in 1 .. Len(q)
    BY <1>1, <2>1
  <2> QED
    BY <1>1, <2>1, <2>2 DEF DamageFirst
<1> QED
  BY <1>4, <1>5 DEF r

(* One event appended.                                                     *)
LEMMA Appended ==
  ASSUME NEW q \in Seq(QueuedEvent), NEW e \in QueuedEvent
  PROVE  /\ Len(q) \in Nat /\ Len(Append(q, e)) = Len(q) + 1
         /\ \A i \in 1 .. Len(q) : Append(q, e)[i] = q[i]
         /\ Append(q, e)[Len(q) + 1] = e
         /\ Append(q, e) = q \o <<e>>
  OBVIOUS

(* A wave of spawns tells of no death and no damage.                       *)
LEMMA WaveIsQuiet ==
  ASSUME Typed, OneDeathEach(writeQueue), DamageFirst(writeQueue), Wave
  PROVE  OneDeathEach(writeQueue') /\ DamageFirst(writeQueue')
<1>1. PICK s \in Seq(SpawnedEvent) : writeQueue' = writeQueue \o s
  BY WaveFacts
<1>2. s \in Seq(QueuedEvent)
  BY DEF QueuedEvent
<1>3. ASSUME NEW i \in 1 .. Len(s)
      PROVE  s[i].type \notin {"PlayerDeath", "PlayerDamage"}
  <2>1. s[i] \in SpawnedEvent
    OBVIOUS
  <2>2. s[i].type = "PlayerSpawned"
    BY <2>1 DEF SpawnedEvent
  <2> QED
    BY <2>2
<1>4. writeQueue \in Seq(QueuedEvent)
  BY DEF Typed
<1>5. OneDeathEach(writeQueue \o s) /\ DamageFirst(writeQueue \o s)
  BY <1>2, <1>3, <1>4, QuietGrowth
<1> QED
  BY <1>1, <1>5

(* A step outside the handlers of HealthSystem that leaves the queues and  *)
(* the requests alone and lets no deleted entity return.                   *)
LEMMA DeathsKept ==
  ASSUME Typed, DeathInv, UNCHANGED <<readQueue, writeQueue, requested, nextEntity, health>>,
         live' \subseteq live,
         phase' = phase \/ phase' \notin {"receive", "disconnect", "Server", "HealthSystem"},
         phase' = "HealthSystem" => cursor' \in Nat /\ cursor' >= cursor,
         \A e \in Entity : e \in live' /\ BeingDeleted(e) => BeingDeleted(e)'
  PROVE  DeathInv'
<1>1. /\ OneDeathEach(readQueue') /\ OneDeathEach(writeQueue')
      /\ DamageFirst(readQueue') /\ DamageFirst(writeQueue')
  BY DEF DeathInv
<1>2. OnlyMessagesWait'
  BY DEF DeathInv, OnlyMessagesWait
<1>3. TheDyingStayDown'
  <2>1. cursor \in Nat /\ Len(readQueue) \in Nat
    BY DEF Typed
  <2> QED
    BY <2>1 DEF DeathInv, TheDyingStayDown
<1>4. RequestsAreFinal'
  BY DEF DeathInv, RequestsAreFinal
<1> QED
  BY <1>1, <1>2, <1>3, <1>4 DEF DeathInv

(* Outside of the phases in which it is being deleted, an entity that made *)
(* its request is gone.                                                    *)
LEMMA GoneOrBeingDeleted ==
  ASSUME RequestsAreFinal,
         phase \notin {"PlayerSpawnSystem", "wave", "pickup", "PlayerDeathSystem"}
  PROVE  \A e \in Entity : requested[e] # 0 => e \notin live
  BY DEF RequestsAreFinal, BeingDeleted

(* Every step keeps the deaths of an entity apart.                         *)
LEMMA NextDeaths ==
  ASSUME ConstantsAreNumbers, Typed, DeathInv, [Next]_vars
  PROVE  DeathInv'
<1> USE DEF schedule, messages, world, session, spawning
<1>0. /\ cursor \in Nat /\ Len(readQueue) \in Nat /\ Len(writeQueue) \in Nat
      /\ readQueue \in Seq(QueuedEvent) /\ writeQueue \in Seq(QueuedEvent)
      /\ \A i \in 1 .. Len(readQueue) : readQueue[i] \in QueuedEvent
  BY DEF Typed
<1>1. CASE IgnoreEvent
  <2>1. /\ IsHandler /\ cursor + 1 \in 1 .. Len(readQueue) /\ cursor' = cursor + 1
        /\ readQueue[cursor + 1].type \notin Subscribed /\ phase' = phase
        /\ UNCHANGED <<readQueue, writeQueue, requested, nextEntity, health, live>>
    BY <1>1 DEF IgnoreEvent, Returns, CurrentEvent, Typed
  <2>2. ASSUME NEW e \in Entity, BeingDeleted(e) PROVE BeingDeleted(e)'
    <3>1. PICK i \in 1 .. Len(readQueue) :
            /\ readQueue[i].type = "PlayerDeath" /\ readQueue[i].player = e
            /\ \/ phase = "PlayerSpawnSystem" /\ i <= cursor
               \/ phase \in {"wave", "pickup"}
               \/ phase = "PlayerDeathSystem" /\ i > cursor
      BY <2>2 DEF BeingDeleted
    <3>2. phase = "PlayerDeathSystem" => i # cursor + 1
      BY <2>1, <3>1 DEF Subscribed
    <3>3. \/ phase' = "PlayerSpawnSystem" /\ i <= cursor'
          \/ phase' \in {"wave", "pickup"}
          \/ phase' = "PlayerDeathSystem" /\ i > cursor'
      BY <1>0, <2>1, <3>1, <3>2
    <3> QED
      BY <2>1, <3>1, <3>3 DEF BeingDeleted
  <2> QED
    BY <1>0, <2>1, <2>2, DeathsKept
<1>2. CASE NextPhase
  <2>1. /\ phase \in DOMAIN Successor /\ phase' = Successor[phase] /\ cursor' = 0
        /\ IsHandler => cursor = Len(readQueue)
        /\ UNCHANGED <<readQueue, writeQueue, requested, nextEntity, health, live>>
    BY <1>2 DEF NextPhase
  <2>2. /\ OneDeathEach(readQueue') /\ OneDeathEach(writeQueue')
        /\ DamageFirst(readQueue') /\ DamageFirst(writeQueue')
    BY <2>1 DEF DeathInv
  <2>3. OnlyMessagesWait'
    BY <2>1 DEF DeathInv, OnlyMessagesWait, Successor
  <2>4. TheDyingStayDown'
    <3>1. phase' = "HealthSystem" => phase = "Server"
      BY <2>1, SuccessorOf
    <3>2. phase = "Server" =>
            \A i \in 1 .. Len(writeQueue) : writeQueue[i].type # "PlayerDeath"
      BY DEF DeathInv, OnlyMessagesWait
    <3> QED
      BY <2>1, <3>1, <3>2 DEF TheDyingStayDown
  <2>5. RequestsAreFinal'
    <3> SUFFICES ASSUME NEW e \in Entity, requested[e] # 0, e \in live
                 PROVE  BeingDeleted(e)'
      BY <2>1 DEF DeathInv, RequestsAreFinal
    <3>1. BeingDeleted(e)
      BY DEF DeathInv, RequestsAreFinal
    <3>2. PICK i \in 1 .. Len(readQueue) :
            /\ readQueue[i].type = "PlayerDeath" /\ readQueue[i].player = e
            /\ \/ phase = "PlayerSpawnSystem" /\ i <= cursor
               \/ phase \in {"wave", "pickup"}
               \/ phase = "PlayerDeathSystem" /\ i > cursor
      BY <3>1 DEF BeingDeleted
    <3>3. \/ phase' \in {"wave", "pickup"}
          \/ phase' = "PlayerDeathSystem" /\ i > cursor'
      BY <1>0, <2>1, <3>2 DEF Successor
    <3> QED
      BY <2>1, <3>2, <3>3 DEF BeingDeleted
  <2> QED
    BY <2>2, <2>3, <2>4, <2>5 DEF DeathInv
<1>3. CASE EndTick
  <2>1. /\ phase = "PlayerDeathSystem" /\ cursor = Len(readQueue) /\ phase' = "receive"
        /\ readQueue' = writeQueue /\ writeQueue' = <<>>
        /\ UNCHANGED <<requested, nextEntity, health, live>>
    BY <1>3 DEF EndTick
  <2>2. /\ OneDeathEach(readQueue') /\ OneDeathEach(writeQueue')
        /\ DamageFirst(readQueue') /\ DamageFirst(writeQueue')
    BY <2>1 DEF DeathInv, OneDeathEach, DamageFirst
  <2>3. OnlyMessagesWait' /\ TheDyingStayDown'
    BY <2>1 DEF OnlyMessagesWait, TheDyingStayDown
  <2>4. RequestsAreFinal'
    <3>1. \A e \in Entity : ~ BeingDeleted(e)
      BY <1>0, <2>1 DEF BeingDeleted
    <3> QED
      BY <2>1, <3>1 DEF DeathInv, RequestsAreFinal
  <2> QED
    BY <2>2, <2>3, <2>4 DEF DeathInv
<1>4. CASE ServerOnPlayerSpawned \/ ServerOnPlayerDeath
  <2>1. /\ phase = "Server" /\ phase' \in {phase, "terminated"}
        /\ UNCHANGED <<readQueue, writeQueue, requested, nextEntity, health, live>>
    BY <1>4 DEF ServerOnPlayerSpawned, ServerOnPlayerDeath, Delivers, Returns, Terminates
  <2>2. \A e \in Entity : ~ BeingDeleted(e)
    BY <2>1 DEF BeingDeleted
  <2> QED
    BY <2>1, <2>2, DeathsKept
<1>5. CASE OnPlayerDamaged
  <2> DEFINE e == CurrentEvent
             v == e.victim
             death == [type |-> "PlayerDeath", player |-> v, killer |-> e.inflictor]
             rest == health[v] - e.damage
  <2>1. /\ phase = "HealthSystem" /\ phase' = phase
        /\ cursor + 1 \in 1 .. Len(readQueue) /\ cursor' = cursor + 1
        /\ e = readQueue[cursor + 1] /\ e.type = "PlayerDamage"
        /\ v \in Entity /\ e.inflictor \in Entity
        /\ health \in [Entity -> Int] /\ e.damage \in Int
    BY <1>5, DeliveredEvent, EventFields DEF OnPlayerDamaged, Returns, Typed,
       ConstantsAreNumbers
  <2>2. UNCHANGED <<readQueue, requested, nextEntity, live>>
    BY <1>5 DEF OnPlayerDamaged
  <2>3. \/ UNCHANGED <<health, writeQueue>>
        \/ /\ health[v] > 0 /\ e.damage > 0
           /\ health' = [health EXCEPT ![v] = rest]
           /\ rest > 0 /\ writeQueue' = writeQueue
        \/ /\ health[v] > 0
           /\ health' = [health EXCEPT ![v] = rest]
           /\ rest <= 0 /\ writeQueue' = Append(writeQueue, death)
    <3>1. rest \in Int
      BY <2>1
    <3> QED
      BY <1>5, <3>1 DEF OnPlayerDamaged, Publish
  <2>4. \A d \in Entity : ~ BeingDeleted(d)
    BY <2>1 DEF BeingDeleted
  <2>5. RequestsAreFinal'
    BY <2>2, <2>4 DEF DeathInv, RequestsAreFinal
  <2>6. OneDeathEach(readQueue') /\ DamageFirst(readQueue') /\ OnlyMessagesWait'
    BY <2>1, <2>2 DEF DeathInv, OnlyMessagesWait
  <2>7. \A i \in 1 .. Len(writeQueue) :
          writeQueue[i].type = "PlayerDeath" =>
            writeQueue[i].player \in Entity /\ health[writeQueue[i].player] <= 0
    <3> SUFFICES ASSUME NEW i \in 1 .. Len(writeQueue), writeQueue[i].type = "PlayerDeath"
                 PROVE  writeQueue[i].player \in Entity /\ health[writeQueue[i].player] <= 0
      OBVIOUS
    <3>1. writeQueue[i] \in QueuedEvent
      BY <1>0
    <3>2. cursor + 1 > cursor
      BY <1>0
    <3> QED
      BY <2>1, <3>1, <3>2, EventFields DEF DeathInv, TheDyingStayDown
  <2>8. CASE UNCHANGED <<health, writeQueue>>
    <3>1. TheDyingStayDown'
      BY <2>7, <2>8 DEF TheDyingStayDown
    <3> QED
      BY <2>5, <2>6, <2>8, <3>1 DEF DeathInv
  <2>9. CASE /\ health[v] > 0 /\ e.damage > 0
             /\ health' = [health EXCEPT ![v] = rest]
             /\ rest > 0 /\ writeQueue' = writeQueue
    <3>1. \A i \in 1 .. Len(writeQueue) :
            writeQueue[i].type = "PlayerDeath" => health'[writeQueue[i].player] <= 0
      <4> SUFFICES ASSUME NEW i \in 1 .. Len(writeQueue), writeQueue[i].type = "PlayerDeath"
                   PROVE  health'[writeQueue[i].player] <= 0
        OBVIOUS
      <4>1. writeQueue[i].player \in Entity /\ health[writeQueue[i].player] <= 0
        BY <2>7
      <4>2. writeQueue[i].player # v
        BY <2>1, <2>9, <4>1
      <4> HIDE DEF rest, v
      <4> QED
        BY <2>1, <2>9, <4>1, <4>2
    <3>2. TheDyingStayDown'
      BY <2>9, <3>1 DEF TheDyingStayDown
    <3> QED
      BY <2>5, <2>6, <2>9, <3>2 DEF DeathInv
  <2>10. CASE /\ health[v] > 0
              /\ health' = [health EXCEPT ![v] = rest]
              /\ rest <= 0 /\ writeQueue' = Append(writeQueue, death)
    <3>1. death \in QueuedEvent /\ death.type = "PlayerDeath" /\ death.player = v
      BY <2>1 DEF QueuedEvent, PlayerDeath
    <3> HIDE DEF death, rest, v, e
    <3>2. /\ Len(writeQueue') = Len(writeQueue) + 1
          /\ \A i \in 1 .. Len(writeQueue) : writeQueue'[i] = writeQueue[i]
          /\ writeQueue'[Len(writeQueue) + 1] = death
      BY <1>0, <2>10, <3>1, Appended
    <3>3. \A i \in 1 .. Len(writeQueue') : i \in 1 .. Len(writeQueue) \/ i = Len(writeQueue) + 1
      BY <1>0, <3>2
    <3>4. \A i \in 1 .. Len(writeQueue) :
            writeQueue[i].type = "PlayerDeath" => writeQueue[i].player # v
      BY <2>1, <2>7, <2>10
    <3>5. OneDeathEach(writeQueue')
      BY <3>1, <3>2, <3>3, <3>4 DEF DeathInv, OneDeathEach
    <3>6. DamageFirst(writeQueue')
      <4> SUFFICES ASSUME NEW i \in 1 .. Len(writeQueue'), NEW j \in 1 .. Len(writeQueue'),
                          i < j, writeQueue'[i].type = "PlayerHealthPickup",
                          writeQueue'[j].type = "PlayerDamage"
                   PROVE  FALSE
        BY DEF DamageFirst
      <4>1. j \in 1 .. Len(writeQueue)
        BY <3>1, <3>2, <3>3
      <4>2. i \in 1 .. Len(writeQueue)
        BY <1>0, <4>1
      <4> QED
        BY <3>2, <4>1, <4>2 DEF DeathInv, DamageFirst
    <3>7. TheDyingStayDown'
      <4> SUFFICES ASSUME NEW i \in 1 .. Len(writeQueue'), writeQueue'[i].type = "PlayerDeath"
                   PROVE  health'[writeQueue'[i].player] <= 0
        BY DEF TheDyingStayDown
      <4>1. CASE i = Len(writeQueue) + 1
        BY <2>1, <2>10, <3>1, <3>2, <4>1
      <4>2. CASE i \in 1 .. Len(writeQueue)
        <5>1. /\ writeQueue[i].player \in Entity /\ health[writeQueue[i].player] <= 0
              /\ writeQueue[i].player # v /\ writeQueue'[i] = writeQueue[i]
          BY <2>7, <3>2, <3>4, <4>2
        <5> QED
          BY <2>1, <2>10, <5>1
      <4> QED
        BY <3>3, <4>1, <4>2
    <3> QED
      BY <2>5, <2>6, <3>5, <3>6, <3>7 DEF DeathInv
  <2> QED
    BY <2>3, <2>8, <2>9, <2>10
<1>6. CASE OnPlayerHealthPickup
  <2>1. /\ phase = "HealthSystem" /\ phase' = phase
        /\ cursor + 1 \in 1 .. Len(readQueue) /\ cursor' = cursor + 1
        /\ readQueue[cursor + 1].type = "PlayerHealthPickup"
        /\ UNCHANGED <<readQueue, writeQueue, requested, nextEntity, live>>
    BY <1>6, DeliveredEvent DEF OnPlayerHealthPickup, Returns
  <2>2. \A j \in 1 .. Len(readQueue) : j > cursor' => readQueue[j].type # "PlayerDamage"
    BY <1>0, <2>1 DEF DeathInv, DamageFirst
  <2>3. TheDyingStayDown'
    BY <2>1, <2>2 DEF TheDyingStayDown
  <2>4. \A d \in Entity : ~ BeingDeleted(d)
    BY <2>1 DEF BeingDeleted
  <2>5. RequestsAreFinal'
    BY <2>1, <2>4 DEF DeathInv, RequestsAreFinal
  <2> QED
    BY <2>1, <2>3, <2>5 DEF DeathInv, OnlyMessagesWait
<1>7. CASE OnInputCommand \/ OnPlayerSpawned
  <2>1. /\ phase = "PlayerSpawnSystem" /\ phase' = phase /\ cursor' = cursor + 1
        /\ UNCHANGED <<readQueue, writeQueue, requested, nextEntity, health, live>>
    BY <1>7 DEF OnInputCommand, OnPlayerSpawned, Delivers, Returns
  <2>2. \A e \in Entity : BeingDeleted(e) => BeingDeleted(e)'
    BY <1>0, <2>1 DEF BeingDeleted
  <2> QED
    BY <2>1, <2>2, DeathsKept
<1>8. CASE OnPlayerDeath
  <2>0. PICK e \in Entity : e = CurrentEvent.player
    BY <1>8, DeliveredEvent, EventFields DEF OnPlayerDeath
  <2>1. /\ phase = "PlayerSpawnSystem" /\ phase' = phase
        /\ cursor + 1 \in 1 .. Len(readQueue) /\ cursor' = cursor + 1
        /\ e = readQueue[cursor + 1].player /\ readQueue[cursor + 1].type = "PlayerDeath"
        /\ UNCHANGED <<readQueue, writeQueue, nextEntity, health, live>>
        /\ \/ requested' = requested
           \/ e \in live /\ requested' = [requested EXCEPT ![e] = requested[e] + 1]
    BY <1>8, <2>0, DeliveredEvent DEF OnPlayerDeath, Returns
  <2>2. \A d \in Entity : BeingDeleted(d) => BeingDeleted(d)'
    BY <1>0, <2>1 DEF BeingDeleted
  <2>3. CASE requested' = requested
    BY <2>1, <2>2, <2>3, DeathsKept
  <2>4. CASE e \in live /\ requested' = [requested EXCEPT ![e] = requested[e] + 1]
    <3>1. requested[e] = 0
      <4> SUFFICES ASSUME requested[e] # 0 PROVE FALSE
        OBVIOUS
      <4>1. BeingDeleted(e)
        BY <2>1, <2>4 DEF DeathInv, RequestsAreFinal
      <4>2. PICK i \in 1 .. Len(readQueue) :
              /\ readQueue[i].type = "PlayerDeath" /\ readQueue[i].player = e
              /\ i <= cursor
        BY <2>1, <4>1 DEF BeingDeleted
      <4>3. i = cursor + 1
        BY <2>1, <4>2 DEF DeathInv, OneDeathEach
      <4> QED
        BY <1>0, <4>2, <4>3
    <3>2. BeingDeleted(e)'
      <4>1. /\ cursor + 1 \in 1 .. Len(readQueue') /\ cursor + 1 <= cursor'
            /\ readQueue'[cursor + 1].type = "PlayerDeath"
            /\ readQueue'[cursor + 1].player = e
            /\ phase' = "PlayerSpawnSystem"
        BY <1>0, <2>1
      <4> DEFINE k == cursor + 1
      <4> HIDE DEF k
      <4>2. /\ k \in 1 .. Len(readQueue') /\ k <= cursor'
            /\ readQueue'[k].type = "PlayerDeath" /\ readQueue'[k].player = e
        BY <4>1 DEF k
      <4>3. \E i \in 1 .. Len(readQueue') :
              /\ readQueue'[i].type = "PlayerDeath" /\ readQueue'[i].player = e
              /\ \/ phase' = "PlayerSpawnSystem" /\ i <= cursor'
                 \/ phase' \in {"wave", "pickup"}
                 \/ phase' = "PlayerDeathSystem" /\ i > cursor'
        BY <4>1, <4>2
      <4> QED
        BY <4>3 DEF BeingDeleted
    <3>3. e < nextEntity
      BY <2>4 DEF Typed
    <3>4. \A d \in Entity : d # e => requested'[d] = requested[d]
      BY <2>1, <2>4 DEF Typed
    <3>5. requested'[e] = 1
      BY <2>1, <2>4, <3>1 DEF Typed
    <3>6. RequestsAreFinal'
      <4> SUFFICES ASSUME NEW d \in Entity, requested'[d] # 0
                   PROVE  /\ requested'[d] = 1 /\ d < nextEntity
                          /\ d \in live => BeingDeleted(d)'
        BY <2>1 DEF RequestsAreFinal
      <4>1. CASE d = e
        BY <3>2, <3>3, <3>5, <4>1
      <4>2. CASE d # e
        BY <2>2, <3>4, <4>2 DEF DeathInv, RequestsAreFinal
      <4> QED
        BY <4>1, <4>2
    <3> QED
      BY <2>1, <3>6 DEF DeathInv, OnlyMessagesWait, TheDyingStayDown
  <2> QED
    BY <2>1, <2>3, <2>4
<1>9. CASE UpdateSpawns
  <2>1. /\ phase = "wave" /\ phase' = "pickup"
        /\ UNCHANGED <<readQueue, requested>>
        /\ \/ Wave
           \/ UNCHANGED <<nextEntity, live, health, writeQueue>>
    BY <1>9 DEF UpdateSpawns
  <2>2. \A e \in Entity : BeingDeleted(e) => BeingDeleted(e)'
    BY <2>1 DEF BeingDeleted
  <2>3. CASE Wave
    <3>1. OneDeathEach(writeQueue') /\ DamageFirst(writeQueue')
      BY <2>3, WaveIsQuiet DEF DeathInv
    <3>2. ASSUME NEW e \in Entity, requested[e] # 0
          PROVE  e < nextEntity' /\ (e \in live' => e \in live)
      <4>1. /\ nextEntity \in Nat /\ nextEntity' \in Nat /\ nextEntity' >= nextEntity
            /\ live' \subseteq live \cup (nextEntity .. nextEntity' - 1)
        BY <2>3, WaveFacts DEF Typed
      <4>2. e < nextEntity /\ e \in Int
        BY <3>2 DEF DeathInv, RequestsAreFinal, Entity
      <4>3. \A m \in Nat : e \notin nextEntity .. m - 1
        BY <4>1, <4>2
      <4> QED
        BY <4>1, <4>2, <4>3
    <3>3. RequestsAreFinal'
      BY <2>1, <2>2, <3>2 DEF DeathInv, RequestsAreFinal
    <3> QED
      BY <2>1, <3>1, <3>3 DEF DeathInv, OnlyMessagesWait, TheDyingStayDown
  <2>4. CASE UNCHANGED <<nextEntity, live, health, writeQueue>>
    BY <2>1, <2>2, <2>4, DeathsKept
  <2> QED
    BY <2>1, <2>3, <2>4
<1>10. CASE OnPlayerDeathDelete
  <2> DEFINE d == CurrentEvent.player
  <2>1. /\ phase = "PlayerDeathSystem" /\ phase' = phase
        /\ cursor + 1 \in 1 .. Len(readQueue) /\ cursor' = cursor + 1
        /\ d = readQueue[cursor + 1].player
        /\ UNCHANGED <<readQueue, writeQueue, requested, nextEntity, health>>
        /\ live' = live \ {d}
    BY <1>10, DeliveredEvent DEF OnPlayerDeathDelete, Returns
  <2>2. ASSUME NEW e \in Entity, e \in live', BeingDeleted(e) PROVE BeingDeleted(e)'
    <3>1. PICK i \in 1 .. Len(readQueue) :
            /\ readQueue[i].type = "PlayerDeath" /\ readQueue[i].player = e /\ i > cursor
      BY <2>1, <2>2 DEF BeingDeleted
    <3>2. i # cursor + 1
      BY <2>1, <2>2, <3>1
    <3>3. i > cursor'
      BY <1>0, <2>1, <3>1, <3>2
    <3> QED
      BY <2>1, <3>1, <3>3 DEF BeingDeleted
  <2> QED
    BY <2>1, <2>2, DeathsKept
<1>11. CASE Receive
  <2>1. /\ phase = "receive" /\ phase' = phase
        /\ UNCHANGED <<readQueue, requested, nextEntity, health, live>>
        /\ \/ \E p \in connected : \E packed \in Commands(p) :
                writeQueue' = writeQueue \o packed
           \/ \E e \in PlayerDamage : writeQueue' = Append(writeQueue, e)
    BY <1>11 DEF Receive, Publish
  <2>2. \A i \in 1 .. Len(writeQueue') : writeQueue'[i].type \in {"InputCommand", "PlayerDamage"}
    <3>1. \A i \in 1 .. Len(writeQueue) : writeQueue[i].type \in {"InputCommand", "PlayerDamage"}
      BY <2>1 DEF DeathInv, OnlyMessagesWait
    <3> DEFINE Msg == [type : {"InputCommand", "PlayerDamage"}]
               sent == {e \in QueuedEvent : e.type \in {"InputCommand", "PlayerDamage"}}
    <3>2. ASSUME NEW p \in Player, NEW packed \in Commands(p)
          PROVE  packed \in Seq(sent)
      <4>1. \A c \in {"PickTeam", "PickClass", "Swap"}, t \in Team : Command(p, c, t) \in sent
        BY DEF Command, QueuedEvent, InputCommand
      <4>2. "Spectator" \in Team /\ SpawnerTeam \subseteq Team
        BY DEF Team
      <4> HIDE DEF sent
      <4>3. /\ Command(p, "PickClass", "Spectator") \in sent
            /\ Command(p, "Swap", "Spectator") \in sent
            /\ \A t \in Team : Command(p, "PickTeam", t) \in sent
        BY <4>1, <4>2
      <4>4. \/ packed = <<Command(p, "PickClass", "Spectator")>>
            \/ packed = <<Command(p, "Swap", "Spectator")>>
            \/ \E t \in Team : packed = <<Command(p, "PickTeam", t)>>
            \/ \E t \in SpawnerTeam :
                 packed = <<Command(p, "PickTeam", t), Command(p, "PickClass", "Spectator")>>
        BY DEF Commands
      <4>5. \A a, b \in sent : <<a>> \in Seq(sent) /\ <<a, b>> \in Seq(sent)
        OBVIOUS
      <4> QED
        BY <4>2, <4>3, <4>4, <4>5
    <3>3. writeQueue \in Seq(sent)
      BY <1>0, <3>1
    <3>4. \A e \in PlayerDamage : e \in sent
      BY DEF QueuedEvent, PlayerDamage
    <3> HIDE DEF sent
    <3>5. writeQueue' \in Seq(sent)
      <4>1. /\ \A e \in sent : Append(writeQueue, e) \in Seq(sent)
            /\ \A s \in Seq(sent) : writeQueue \o s \in Seq(sent)
        BY <3>3
      <4>2. connected \subseteq Player
        BY DEF Typed
      <4> QED
        BY <2>1, <3>2, <3>4, <4>1, <4>2
    <3>6. \A i \in 1 .. Len(writeQueue') : writeQueue'[i] \in sent
      BY <3>5
    <3> QED
      BY <3>6 DEF sent
  <2>3. OneDeathEach(writeQueue') /\ DamageFirst(writeQueue')
    BY <2>2 DEF OneDeathEach, DamageFirst
  <2>4. \A e \in Entity : ~ BeingDeleted(e)
    BY <2>1 DEF BeingDeleted
  <2>5. RequestsAreFinal'
    BY <2>1, <2>4 DEF DeathInv, RequestsAreFinal
  <2> QED
    BY <2>1, <2>2, <2>3, <2>5 DEF DeathInv, OnlyMessagesWait, TheDyingStayDown
<1>12. ASSUME NEW p \in Player, Disconnect(p) PROVE DeathInv'
  <2>1. /\ live' \subseteq live /\ phase' = phase /\ cursor' = cursor
        /\ UNCHANGED <<readQueue, writeQueue, requested, nextEntity, health>>
    BY <1>12 DEF Disconnect
  <2>2. \A e \in Entity : BeingDeleted(e) => BeingDeleted(e)'
    BY <2>1 DEF BeingDeleted
  <2> QED
    BY <1>0, <2>1, <2>2, DeathsKept
<1>13. ASSUME NEW e \in Entity, DoPickup(e) PROVE DeathInv'
  <2> DEFINE a == [type |-> "PlayerHealthPickup", player |-> e]
  <2>1. /\ phase = "pickup" /\ phase' = "PlayerDeathSystem" /\ cursor' = 0
        /\ UNCHANGED <<readQueue, requested, nextEntity, health, live>>
        /\ writeQueue' = Append(writeQueue, a)
    BY <1>13 DEF DoPickup, Publish, Successor
  <2>2. a \in QueuedEvent /\ a.type = "PlayerHealthPickup"
    BY DEF QueuedEvent, PlayerHealthPickup
  <2> HIDE DEF a
  <2>3. OneDeathEach(writeQueue') /\ DamageFirst(writeQueue')
    <3>1. <<a>> \in Seq(QueuedEvent) /\ Len(<<a>>) = 1 /\ <<a>>[1] = a
      BY <2>2
    <3>2. OneDeathEach(writeQueue \o <<a>>) /\ DamageFirst(writeQueue \o <<a>>)
      <4>1. \A i \in 1 .. Len(<<a>>) : <<a>>[i].type \notin {"PlayerDeath", "PlayerDamage"}
        BY <2>2, <3>1
      <4> QED
        BY <1>0, <3>1, <4>1, QuietGrowth DEF DeathInv
    <3> QED
      BY <1>0, <2>1, <2>2, <3>2, Appended
  <2>4. \A d \in Entity : BeingDeleted(d) => BeingDeleted(d)'
    BY <1>0, <2>1 DEF BeingDeleted
  <2>5. RequestsAreFinal'
    BY <2>1, <2>4 DEF DeathInv, RequestsAreFinal
  <2> QED
    BY <2>1, <2>3, <2>5 DEF DeathInv, OnlyMessagesWait, TheDyingStayDown
<1>14. CASE UNCHANGED vars
  <2>1. \A e \in Entity : BeingDeleted(e) => BeingDeleted(e)'
    BY <1>14 DEF vars, BeingDeleted
  <2> QED
    BY <1>0, <1>14, <2>1, DeathsKept DEF vars
<1> QED
  BY <1>1, <1>2, <1>3, <1>4, <1>5, <1>6, <1>7, <1>8, <1>9, <1>10, <1>11, <1>12, <1>13,
     <1>14 DEF Next, TickStep

LEMMA InitDeathsAndSessions == Init => SessionInv /\ DeathInv
<1> SUFFICES ASSUME Init PROVE SessionInv /\ DeathInv
  OBVIOUS
<1>1. SessionInv
  BY DEF Init, SessionInv, Agree
<1>2. Len(readQueue) = 0 /\ Len(writeQueue) = 0
  BY DEF Init
<1>3. DeathInv
  BY <1>2 DEF Init, DeathInv, OneDeathEach, DamageFirst, OnlyMessagesWait,
              TheDyingStayDown, RequestsAreFinal
<1> QED
  BY <1>1, <1>3

(* The inductive invariant of the players' lives.                          *)
PlayerLifeInv == Typed /\ SessionInv /\ DeathInv

(* The inductive invariant holds on every server: the types, what the      *)
(* Server and PlayerSpawnSystem know at every point of a tick, and that    *)
(* the deaths of an entity stay apart.                                     *)
THEOREM PlayerLifeInvariance ==
  ASSUME ConstantsAreNumbers PROVE Spec => []PlayerLifeInv
<1>1. Init => PlayerLifeInv
  BY InitTyped, InitDeathsAndSessions DEF PlayerLifeInv
<1>2. PlayerLifeInv /\ [Next]_vars => PlayerLifeInv'
  BY NextTyped, NextSession, NextDeaths DEF PlayerLifeInv
<1> QED
  BY <1>1, <1>2, PTL DEF Spec

(* Between two ticks the Server and PlayerSpawnSystem, which learn of a    *)
(* spawn at different times (Server.cpp:499, PlayerSpawnSystem.cpp:190),   *)
(* agree which entity a connected player has.                              *)
THEOREM SessionsAgree ==
  ASSUME ConstantsAreNumbers PROVE Spec => []SessionAgreesWithSpawns
<1>1. PlayerLifeInv => SessionAgreesWithSpawns
  BY DEF PlayerLifeInv, SessionInv, Agree, SessionAgreesWithSpawns
<1> QED
  BY <1>1, PlayerLifeInvariance, PTL

(* An entity dies for a spawn once, however often it is hit and healed     *)
(* before it is deleted (HealthSystem.cpp, PlayerSpawnSystem.cpp).         *)
THEOREM DeathsRequestOnce ==
  ASSUME ConstantsAreNumbers PROVE Spec => []DiesForASpawnOnce
<1>1. PlayerLifeInv => DiesForASpawnOnce
  <2> SUFFICES ASSUME PlayerLifeInv, NEW e \in Entity PROVE requested[e] <= 1
    BY DEF DiesForASpawnOnce
  <2>1. requested[e] \in Nat /\ (requested[e] # 0 => requested[e] = 1)
    BY DEF PlayerLifeInv, Typed, DeathInv, RequestsAreFinal
  <2> QED
    BY <2>1
<1> QED
  BY <1>1, PlayerLifeInvariance, PTL

-----------------------------------------------------------------------------
(* The pickups.                                                            *)

(* The least of some numbers.                                              *)
LEMMA LeastExists ==
  ASSUME NEW T \in SUBSET Nat, T # {}
  PROVE  \E n \in T : \A m \in T : ~(m < n)
<1>1. PICK n \in T : \A m \in T : <<m, n>> \notin OpToRel(<, Nat)
  BY NatLessThanWellFounded, WFMin, Zenon
<1>2. \A m \in T : m < n => <<m, n>> \in OpToRel(<, Nat)
  BY DEF OpToRel
<1> QED BY <1>1, <1>2

(* What begins in a set and goes from each to the next in a step stays in  *)
(* them.                                                                   *)
LEMMA StaysIn ==
  ASSUME NEW n \in Nat, NEW S, NEW f, f[0] \in S[0],
         \A i \in 1 .. n : f[i - 1] \in S[i - 1] => f[i] \in S[i]
  PROVE  \A i \in 0 .. n : f[i] \in S[i]
<1> DEFINE T == {i \in 0 .. n : f[i] \notin S[i]}
<1>1. ASSUME T # {} PROVE FALSE
  <2>1. T \in SUBSET Nat
    OBVIOUS
  <2> HIDE DEF T
  <2>2. PICK m \in T : \A l \in T : ~(l < m)
    BY <1>1, <2>1, LeastExists
  <2> USE DEF T
  <2>3. m # 0 /\ m \in 1 .. n /\ m - 1 \in 0 .. n /\ m - 1 < m
    BY <2>2
  <2>4. f[m - 1] \in S[m - 1]
    BY <2>2, <2>3
  <2> QED BY <2>2, <2>3, <2>4
<1> QED BY <1>1

(* The first of some places.                                               *)
LEMMA FirstIs ==
  ASSUME NEW I \in SUBSET Nat, I # {}
  PROVE  First(I) \in I
<1>1. PICK n \in I : \A m \in I : ~(m < n)
  BY LeastExists
<1>2. \A m \in I : n <= m
  BY <1>1
<1> QED BY <1>2 DEF First

LEMMA WithoutIs ==
  ASSUME NEW S, NEW list \in Seq(S), NEW i \in 1 .. Len(list)
  PROVE  /\ Without(list, i) \in Seq(S)
         /\ Len(Without(list, i)) = Len(list) - 1
         /\ \A k \in 1 .. Len(list) - 1 :
              Without(list, i)[k] = IF k < i THEN list[k] ELSE list[k + 1]
<1> DEFINE a == SubSeq(list, 1, i - 1)
           b == SubSeq(list, i + 1, Len(list))
<1>1. /\ a \in Seq(S) /\ Len(a) = i - 1 /\ \A k \in 1 .. i - 1 : a[k] = list[k]
  OBVIOUS
<1>2. /\ b \in Seq(S) /\ Len(b) = Len(list) - i
      /\ \A k \in 1 .. Len(list) - i : b[k] = list[k + i]
  OBVIOUS
<1>3. Without(list, i) = a \o b
  BY DEF Without
<1> HIDE DEF a, b
<1>4. a \o b \in Seq(S) /\ Len(a \o b) = Len(list) - 1
  <2>1. a \o b \in Seq(S)
    BY <1>1, <1>2
  <2>2. a \in Seq(S) /\ b \in Seq(S) /\ Len(a) \in Nat /\ Len(b) \in Nat
    BY <1>1, <1>2
  <2>3. Len(a \o b) = Len(a) + Len(b)
    BY <2>2
  <2> QED BY <1>1, <1>2, <2>1, <2>3
<1>5. ASSUME NEW k \in 1 .. Len(list) - 1
      PROVE  (a \o b)[k] = IF k < i THEN list[k] ELSE list[k + 1]
  <2>1. CASE k < i
    <3>1. k \in 1 .. Len(a)
      BY <1>1, <2>1
    <3> QED BY <1>1, <1>2, <2>1, <3>1
  <2>2. CASE ~(k < i)
    <3>1. k - Len(a) \in 1 .. Len(b) /\ k = Len(a) + (k - Len(a))
      BY <1>1, <1>2, <2>2
    <3>2. (a \o b)[k] = b[k - Len(a)]
      BY <1>1, <1>2, <3>1
    <3>3. b[k - Len(a)] = list[k + 1]
      BY <1>1, <1>2, <2>2, <3>1
    <3> QED BY <2>2, <3>2, <3>3
  <2> QED BY <2>1, <2>2
<1> QED BY <1>3, <1>4, <1>5

(* Two who are listed for a pickup of their own: neither is gone.          *)
Named(e) == e.player # Gone /\ e.pickup # Gone

SameNames(e, f) == e.player = f.player /\ e.pickup = f.pickup

(* What the systems work with in a frame.                                  *)
Entry == [player : PickupPlayer \cup {Gone}, pickup : Nat]
Touchings == UNION {[T -> SUBSET PickupPlayer] : T \in SUBSET Nat}
Entries == Seq(Entry)
Timers == Seq(Int)
Takers == Seq(PickupPlayer \cup {Gone})

Work == [pickups : SUBSET Nat, waiting : Timers, atMaximum : Entries,
         touching : Touchings, gains : Takers]

TriggerTold == [is : {"TriggerTouch", "TriggerLeave"},
                player : PickupPlayer \cup {Gone}, pickup : Nat]
TriggerEvents == Seq(TriggerTold)

(* Nobody is listed twice for the same pickup.                             *)
ListedOnce(list) ==
  \A i, j \in DOMAIN list : Named(list[i]) /\ SameNames(list[i], list[j]) => i = j

(* A player's leaving is yet to be handled, after n events.                *)
LeaveComes(n, e) ==
  \E j \in n + 1 .. Len(events) : events[j].is = "TriggerLeave" /\ SameNames(events[j], e)

(* The list, after n events, when the pickups there are left.              *)
ListIsRight(list, there, n) ==
  /\ ListedOnce(list)
  /\ \A k \in DOMAIN list : Named(list[k]) =>
       /\ list[k].pickup \in there
       /\ list[k].player \in touching[list[k].pickup] \/ LeaveComes(n, list[k])
  /\ \A k \in DOMAIN list : \A j \in n + 1 .. Len(events) :
       Named(list[k]) /\ events[j].is = "TriggerTouch" => ~SameNames(events[j], list[k])

(* The events of the last frame.                                           *)
TouchesAreTrue ==
  \A j \in DOMAIN events : events[j].is = "TriggerTouch" /\ events[j].player # Gone =>
    /\ events[j].pickup \in pickups
    /\ events[j].player \in touching[events[j].pickup]
    /\ place[events[j].player] # "near"

ToldOnce ==
  \A i, j \in DOMAIN events :
    events[i].player # Gone /\ SameNames(events[i], events[j]) => i = j

(* Of the pickups a player is near, the triggers do not keep him.          *)
TheNearAreLetGo ==
  \A p \in Present : \A t \in pickups : place[p] = "near" => p \notin touching[t]

PickupsTyped ==
  /\ pickups \subseteq Nat \ {Gone} /\ IsFiniteSet(pickups)
  /\ waiting \in Timers /\ surplus \in Nat
  /\ atMaximum \in Entries
  /\ Present \subseteq PickupPlayer /\ DOMAIN place = Present
  /\ touching \in [pickups -> SUBSET Present]
  /\ events \in TriggerEvents
  /\ gains \in Takers

PickupsInv ==
  /\ PickupsTyped
  /\ PickupsAreConserved
  /\ ListIsRight(atMaximum, pickups, 0)
  /\ TouchesAreTrue /\ ToldOnce /\ TheNearAreLetGo

(* A frame after n events.                                                 *)
NotFromAfar(list) ==
  \A k \in DOMAIN list : list[k] \in Present => place[list[k]] # "near"

Handled(w, n) ==
  /\ w \in Work
  /\ w.pickups \subseteq pickups
  /\ w.touching = [t \in w.pickups |-> touching[t]]
  /\ Cardinality(w.pickups) + Len(w.waiting) = 1 + surplus
  /\ ListIsRight(w.atMaximum, w.pickups, n)
  /\ NotFromAfar(w.gains)

(* A frame after its events: the pickups it made are touched by nobody.    *)
Updated(w, count) ==
  /\ w \in Work
  /\ w.pickups \subseteq Nat \ {Gone} /\ IsFiniteSet(w.pickups)
  /\ w.touching = [t \in w.pickups |-> IF t \in pickups THEN touching[t] ELSE {}]
  /\ Cardinality(w.pickups) + Len(w.waiting) = count
  /\ ListedOnce(w.atMaximum)
  /\ \A k \in DOMAIN w.atMaximum : Named(w.atMaximum[k]) =>
       /\ w.atMaximum[k].pickup \in w.pickups
       /\ w.atMaximum[k].player \in w.touching[w.atMaximum[k].pickup]
  /\ NotFromAfar(w.gains)

(* Lists.                                                                  *)

LEMMA IsSequence ==
  ASSUME NEW S, NEW n \in Nat, NEW f, f = [k \in 1 .. n |-> f[k]],
         \A k \in 1 .. n : f[k] \in S
  PROVE  f \in Seq(S)
<1>1. f \in [1 .. n -> S]
  BY Zenon
<1> QED BY <1>1

LEMMA EntryFields ==
  ASSUME NEW list \in Entries
  PROVE  /\ Len(list) \in Nat /\ DOMAIN list = 1 .. Len(list)
         /\ \A k \in DOMAIN list : list[k] \in Entry
BY DEF Entries

(* A list of the same length, where an entry still named is the same.      *)
LEMMA StillListedOnce ==
  ASSUME NEW list, NEW r, DOMAIN r = DOMAIN list, ListedOnce(list),
         \A k \in DOMAIN r : Named(r[k]) => r[k] = list[k]
  PROVE  ListedOnce(r)
<1> SUFFICES ASSUME NEW i \in DOMAIN r, NEW j \in DOMAIN r,
                    Named(r[i]), SameNames(r[i], r[j])
             PROVE  i = j
  BY DEF ListedOnce
<1>1. Named(r[j])
  BY DEF Named, SameNames
<1>2. r[i] = list[i] /\ r[j] = list[j]
  BY <1>1
<1> QED BY <1>2 DEF ListedOnce

(* What is left of a list when a pickup is taken.                          *)
LEMMA ForgetIs ==
  ASSUME NEW list \in Entries, NEW t \in Nat
  PROVE  /\ Forget(list, t) \in Entries /\ DOMAIN Forget(list, t) = DOMAIN list
         /\ \A k \in DOMAIN list : Named(Forget(list, t)[k]) =>
              list[k].pickup # t /\ Forget(list, t)[k] = list[k]
<1> DEFINE r == Forget(list, t)
<1>1. DOMAIN r = DOMAIN list
  BY DEF Forget
<1>2. ASSUME NEW k \in DOMAIN list
      PROVE  /\ r[k] \in Entry
             /\ Named(r[k]) => list[k].pickup # t /\ r[k] = list[k]
  <2>1. list[k] \in Entry
    BY EntryFields
  <2>2. r[k] = IF list[k].pickup = t THEN [list[k] EXCEPT !.pickup = Gone] ELSE list[k]
    BY DEF Forget
  <2>3. [list[k] EXCEPT !.pickup = Gone] \in Entry
    BY <2>1 DEF Entry, Gone
  <2>4. ~Named([list[k] EXCEPT !.pickup = Gone])
    BY <2>1 DEF Entry, Named
  <2> HIDE DEF r
  <2> QED BY <2>1, <2>2, <2>3, <2>4
<1>3. r \in Entries
  <2>1. r = [k \in 1 .. Len(list) |-> r[k]]
    BY EntryFields DEF Forget
  <2> HIDE DEF r
  <2>2. Len(list) \in Nat /\ DOMAIN list = 1 .. Len(list)
    BY EntryFields
  <2>3. r \in Seq(Entry)
    BY <1>2, <2>1, <2>2, IsSequence
  <2> QED BY <2>3 DEF Entries
<1> QED BY <1>1, <1>2, <1>3

(* What those who were deleted leave of it.                                *)
LEMMA RenamedIs ==
  ASSUME NEW list \in Entries, NEW gone
  PROVE  /\ Renamed(list, gone) \in Entries /\ DOMAIN Renamed(list, gone) = DOMAIN list
         /\ \A k \in DOMAIN list : Named(Renamed(list, gone)[k]) =>
              list[k].player \notin gone /\ Renamed(list, gone)[k] = list[k]
<1> DEFINE r == Renamed(list, gone)
<1>1. DOMAIN r = DOMAIN list
  BY DEF Renamed
<1>2. ASSUME NEW k \in DOMAIN list
      PROVE  /\ r[k] \in Entry
             /\ Named(r[k]) => list[k].player \notin gone /\ r[k] = list[k]
  <2>1. list[k] \in Entry
    BY EntryFields
  <2>2. r[k] = IF list[k].player \in gone THEN [list[k] EXCEPT !.player = Gone] ELSE list[k]
    BY DEF Renamed
  <2>3. [list[k] EXCEPT !.player = Gone] \in Entry
    BY <2>1 DEF Entry
  <2>4. ~Named([list[k] EXCEPT !.player = Gone])
    BY <2>1 DEF Entry, Named
  <2> HIDE DEF r
  <2> QED BY <2>1, <2>2, <2>3, <2>4
<1>3. r \in Entries
  <2>1. r = [k \in 1 .. Len(list) |-> r[k]]
    BY EntryFields DEF Renamed
  <2> HIDE DEF r
  <2>2. Len(list) \in Nat /\ DOMAIN list = 1 .. Len(list)
    BY EntryFields
  <2>3. r \in Seq(Entry)
    BY <1>2, <2>1, <2>2, IsSequence
  <2> QED BY <2>3 DEF Entries
<1> QED BY <1>1, <1>2, <1>3

(* A list without one of its entries.                                      *)
LEMMA WithoutOnce ==
  ASSUME NEW list \in Entries, NEW i \in DOMAIN list, ListedOnce(list)
  PROVE  /\ Without(list, i) \in Entries /\ ListedOnce(Without(list, i))
         /\ \A k \in DOMAIN Without(list, i) : \E j \in DOMAIN list :
              /\ Without(list, i)[k] = list[j]
              /\ Named(list[i]) => ~SameNames(list[i], list[j])
<1> DEFINE r == Without(list, i)
           at(k) == IF k < i THEN k ELSE k + 1
<1>1. /\ r \in Entries /\ Len(r) = Len(list) - 1
      /\ \A k \in 1 .. Len(list) - 1 : r[k] = IF k < i THEN list[k] ELSE list[k + 1]
  BY WithoutIs, EntryFields DEF Entries
<1>2. DOMAIN r = 1 .. Len(list) - 1 /\ i \in 1 .. Len(list) /\ Len(list) \in Nat
      /\ DOMAIN list = 1 .. Len(list)
  BY <1>1, EntryFields
<1> HIDE DEF r
<1>3. \A k \in DOMAIN r : at(k) \in DOMAIN list /\ at(k) # i
  BY <1>2
<1>4. \A k \in DOMAIN r : r[k] = list[at(k)]
  BY <1>1, <1>2
<1>5. \A k, l \in DOMAIN r : at(k) = at(l) => k = l
  BY <1>2
<1> HIDE DEF at
<1>6. ListedOnce(r)
  BY <1>3, <1>4, <1>5 DEF ListedOnce
<1>7. \A k \in DOMAIN r : Named(list[i]) => ~SameNames(list[i], list[at(k)])
  BY <1>3 DEF ListedOnce
<1>8. \A k \in DOMAIN r : \E j \in DOMAIN list :
        r[k] = list[j] /\ (Named(list[i]) => ~SameNames(list[i], list[j]))
  BY <1>3, <1>4, <1>7
<1> QED BY <1>1, <1>6, <1>8 DEF r

(* The list when a pickup is taken: nobody is listed for it.               *)
LEMMA ForgottenIsRight ==
  ASSUME NEW list \in Entries, NEW there, NEW n, NEW t \in Nat,
         ListIsRight(list, there, n)
  PROVE  ListIsRight(Forget(list, t), there \ {t}, n)
<1> DEFINE r == Forget(list, t)
<1>1. /\ DOMAIN r = DOMAIN list
      /\ \A k \in DOMAIN list : Named(r[k]) => list[k].pickup # t /\ r[k] = list[k]
  BY ForgetIs
<1> HIDE DEF r
<1>2. ListedOnce(r)
  BY <1>1, StillListedOnce DEF ListIsRight
<1> QED BY <1>1, <1>2 DEF ListIsRight, r

(* The list when a player is taken off it who leaves a pickup.             *)
LEMMA ShorterIsRight ==
  ASSUME NEW list \in Entries, NEW there, NEW n \in Nat, NEW i \in DOMAIN list,
         n + 1 \in DOMAIN events, SameNames(list[i], events[n + 1]),
         events[n + 1].is = "TriggerLeave", events \in TriggerEvents,
         ListIsRight(list, there, n)
  PROVE  ListIsRight(Without(list, i), there, n + 1)
<1> DEFINE r == Without(list, i)
<1>1. /\ ListedOnce(r)
      /\ \A k \in DOMAIN r : \E j \in DOMAIN list :
           r[k] = list[j] /\ (Named(list[i]) => ~SameNames(list[i], list[j]))
  BY WithoutOnce DEF ListIsRight
<1> HIDE DEF r
<1>2. Len(events) \in Nat /\ DOMAIN events = 1 .. Len(events)
  BY DEF TriggerEvents
<1>3. ASSUME NEW k \in DOMAIN r, Named(r[k])
      PROVE  /\ r[k].pickup \in there
             /\ r[k].player \in touching[r[k].pickup] \/ LeaveComes(n + 1, r[k])
             /\ \A j \in n + 2 .. Len(events) :
                  events[j].is = "TriggerTouch" => ~SameNames(events[j], r[k])
  <2>1. PICK j \in DOMAIN list :
          r[k] = list[j] /\ (Named(list[i]) => ~SameNames(list[i], list[j]))
    BY <1>1
  <2>2. ~SameNames(events[n + 1], list[j])
    BY <1>3, <2>1 DEF SameNames, Named
  <2>3. LeaveComes(n, list[j]) => LeaveComes(n + 1, list[j])
    BY <1>2, <2>2 DEF LeaveComes
  <2>4. \A l \in n + 2 .. Len(events) : l \in n + 1 .. Len(events)
    BY <1>2
  <2> QED BY <1>3, <2>1, <2>3, <2>4 DEF ListIsRight
<1>4. n + 1 + 1 = n + 2
  OBVIOUS
<1> QED BY <1>1, <1>3, <1>4 DEF ListIsRight, r

(* The list when an event does not change it.                              *)
LEMMA ListStaysRight ==
  ASSUME NEW list \in Entries, NEW there, NEW n \in Nat,
         n + 1 \in DOMAIN events, events \in TriggerEvents,
         events[n + 1].is = "TriggerLeave" =>
           \A k \in DOMAIN list : Named(list[k]) => ~SameNames(events[n + 1], list[k]),
         ListIsRight(list, there, n)
  PROVE  ListIsRight(list, there, n + 1)
<1>1. Len(events) \in Nat /\ DOMAIN events = 1 .. Len(events)
  BY DEF TriggerEvents
<1>2. \A l \in n + 2 .. Len(events) : l \in n + 1 .. Len(events)
  BY <1>1
<1>3. \A k \in DOMAIN list :
        Named(list[k]) /\ LeaveComes(n, list[k]) => LeaveComes(n + 1, list[k])
  BY <1>1 DEF LeaveComes
<1>4. n + 1 + 1 = n + 2
  OBVIOUS
<1> QED BY <1>2, <1>3, <1>4 DEF ListIsRight

(* The list when a player is put on it who touches a pickup.               *)
LEMMA LongerIsRight ==
  ASSUME NEW list \in Entries, NEW there, NEW n \in Nat, NEW e \in Entry,
         n + 1 \in DOMAIN events, events \in TriggerEvents, ToldOnce,
         events[n + 1].is = "TriggerTouch", SameNames(e, events[n + 1]),
         Named(e) => e.pickup \in there /\ e.player \in touching[e.pickup],
         ListIsRight(list, there, n)
  PROVE  ListIsRight(Append(list, e), there, n + 1)
<1> DEFINE r == Append(list, e)
<1>1. Len(events) \in Nat /\ DOMAIN events = 1 .. Len(events)
  BY DEF TriggerEvents
<1>2. Len(list) \in Nat /\ DOMAIN list = 1 .. Len(list)
  BY EntryFields
<1>3. /\ DOMAIN r = 1 .. Len(list) + 1
      /\ r[Len(list) + 1] = e
      /\ \A k \in 1 .. Len(list) : r[k] = list[k]
  BY <1>2 DEF Entries
<1> HIDE DEF r
<1>4. ListIsRight(list, there, n + 1)
  BY ListStaysRight
<1>5. \A k \in DOMAIN list : Named(list[k]) => ~SameNames(list[k], e)
  <2>1. n + 1 \in n + 1 .. Len(events)
    BY <1>1
  <2> QED BY <2>1 DEF ListIsRight, SameNames
<1>6. ListedOnce(r)
  <2>1. SUFFICES ASSUME NEW i \in DOMAIN r, NEW j \in DOMAIN r,
                        Named(r[i]), SameNames(r[i], r[j])
                 PROVE  i = j
    BY DEF ListedOnce
  <2>2. Named(r[j]) /\ SameNames(r[j], r[i])
    BY <2>1 DEF Named, SameNames
  <2>3. CASE i \in DOMAIN list /\ j \in DOMAIN list
    BY <1>2, <1>3, <1>4, <2>1, <2>3 DEF ListIsRight, ListedOnce
  <2>4. CASE i = Len(list) + 1 /\ j \in DOMAIN list
    BY <1>2, <1>3, <1>5, <2>2, <2>4
  <2>5. CASE j = Len(list) + 1 /\ i \in DOMAIN list
    BY <1>2, <1>3, <1>5, <2>1, <2>5
  <2> QED BY <1>2, <1>3, <2>3, <2>4, <2>5
<1>7. Named(e) => \A j \in n + 2 .. Len(events) : ~SameNames(events[j], e)
  <2> SUFFICES ASSUME Named(e), NEW j \in n + 2 .. Len(events), SameNames(events[j], e)
               PROVE  FALSE
    OBVIOUS
  <2>1. j \in DOMAIN events /\ j # n + 1
    BY <1>1
  <2>2. events[n + 1].player # Gone /\ SameNames(events[n + 1], events[j])
    BY DEF Named, SameNames
  <2> QED BY <2>1, <2>2 DEF ToldOnce
<1>8. \A k \in DOMAIN r : (k \in DOMAIN list /\ r[k] = list[k]) \/ r[k] = e
  BY <1>2, <1>3
<1>9. n + 1 + 1 = n + 2
  OBVIOUS
<1> QED BY <1>4, <1>6, <1>7, <1>8, <1>9 DEF ListIsRight, r

(* A frame, one event after the other.                                     *)

LEMMA WorkFields ==
  ASSUME NEW s \in Work
  PROVE  /\ s.pickups \in SUBSET Nat /\ s.waiting \in Timers /\ s.atMaximum \in Entries
         /\ s.touching \in Touchings /\ s.gains \in Takers
BY DEF Work

LEMMA AppendTimer ==
  ASSUME NEW list \in Timers, NEW left \in Int
  PROVE  Append(list, left) \in Timers /\ Len(Append(list, left)) = Len(list) + 1
         /\ Len(list) \in Nat
BY DEF Timers

LEMMA AppendTaker ==
  ASSUME NEW list \in Takers, NEW p \in PickupPlayer \cup {Gone}
  PROVE  /\ Append(list, p) \in Takers
         /\ \A k \in DOMAIN Append(list, p) :
              Append(list, p)[k] = p \/ (k \in DOMAIN list /\ Append(list, p)[k] = list[k])
BY DEF Takers

LEMMA AppendEntry ==
  ASSUME NEW list \in Entries, NEW e \in Entry
  PROVE  Append(list, e) \in Entries
BY DEF Entries

LEMMA TriggerEventFields ==
  ASSUME NEW list \in TriggerEvents
  PROVE  /\ Len(list) \in Nat /\ DOMAIN list = 1 .. Len(list)
         /\ \A j \in DOMAIN list :
              /\ list[j].is \in {"TriggerTouch", "TriggerLeave"}
              /\ list[j].player \in PickupPlayer \cup {Gone}
              /\ list[j].pickup \in Nat
<1>1. /\ Len(list) \in Nat /\ DOMAIN list = 1 .. Len(list)
      /\ \A j \in DOMAIN list : list[j] \in TriggerTold
  BY DEF TriggerEvents
<1> QED BY <1>1 DEF TriggerTold

(* A map of who touches what, of other pickups.                            *)
LEMMA TouchingsOf ==
  ASSUME NEW T \in SUBSET Nat, NEW f, f = [t \in T |-> f[t]],
         \A t \in T : f[t] \subseteq PickupPlayer
  PROVE  f \in Touchings
<1>1. f \in [T -> SUBSET PickupPlayer]
  BY Zenon
<1> QED BY <1>1 DEF Touchings

LEMMA TouchedBy ==
  ASSUME NEW f \in Touchings, NEW t \in DOMAIN f
  PROVE  f[t] \subseteq PickupPlayer
BY DEF Touchings

(* What is left of a map when it has other pickups.                        *)
Kept(f, T) == [u \in T |-> f[u]]

CanTake(s, p, t) ==
  /\ s \in Work /\ DOMAIN s.touching = s.pickups
  /\ p \in PickupPlayer \cup {Gone} /\ t \in s.pickups

IsTaken(r, s, p, t) ==
  /\ r \in Work
  /\ r.pickups = s.pickups \ {t}
  /\ r.waiting = Append(s.waiting, RespawnTimer)
  /\ r.atMaximum = Forget(s.atMaximum, t)
  /\ r.touching = Kept(s.touching, s.pickups \ {t})
  /\ r.gains = Append(s.gains, p)

LEMMA TakenIs ==
  ASSUME NEW s, NEW p, NEW t, CanTake(s, p, t)
  PROVE  IsTaken(TakePickup(s, p, t), s, p, t)
<1> DEFINE r == TakePickup(s, p, t)
<1>0. /\ s \in Work /\ DOMAIN s.touching = s.pickups
      /\ p \in PickupPlayer \cup {Gone} /\ t \in s.pickups
  BY DEF CanTake
<1> DEFINE f == [u \in s.pickups \ {t} |-> s.touching[u]]
<1>1. r = [s EXCEPT !.gains = Append(s.gains, p), !.waiting = Append(s.waiting, RespawnTimer),
                    !.pickups = s.pickups \ {t}, !.atMaximum = Forget(s.atMaximum, t),
                    !.touching = f]
  BY <1>0 DEF TakePickup
<1>2. f \in Touchings
  <2>1. s.pickups \ {t} \in SUBSET Nat
    BY <1>0, WorkFields
  <2>2. \A u \in s.pickups \ {t} : f[u] \subseteq PickupPlayer
    BY <1>0, WorkFields, TouchedBy
  <2>3. f = [u \in s.pickups \ {t} |-> f[u]]
    OBVIOUS
  <2> HIDE DEF f
  <2> QED BY <2>1, <2>2, <2>3, TouchingsOf
<1> HIDE DEF f, r
<1>3. /\ Append(s.gains, p) \in Takers /\ Append(s.waiting, RespawnTimer) \in Timers
      /\ Forget(s.atMaximum, t) \in Entries /\ s.pickups \ {t} \in SUBSET Nat
  <2>1. /\ s.gains \in Takers /\ s.waiting \in Timers /\ s.atMaximum \in Entries
        /\ s.pickups \in SUBSET Nat /\ t \in Nat /\ RespawnTimer \in Int
    BY <1>0, WorkFields, PickupsAssumption
  <2> QED BY <1>0, <2>1, AppendTaker, AppendTimer, ForgetIs
<1>4. /\ r \in Work
      /\ r.pickups = s.pickups \ {t} /\ r.waiting = Append(s.waiting, RespawnTimer)
      /\ r.atMaximum = Forget(s.atMaximum, t) /\ r.touching = f
      /\ r.gains = Append(s.gains, p)
  BY <1>0, <1>1, <1>2, <1>3 DEF Work
<1> QED BY <1>4 DEF f, r, Kept, IsTaken

(* Whoever is listed or touches it takes a pickup rightly.                 *)
LEMMA TakesRightly ==
  ASSUME PickupsTyped, NEW s, NEW n, Handled(s, n), NEW t \in s.pickups,
         NEW p \in Present, place[p] # "near"
  PROVE  Handled(TakePickup(s, p, t), n)
<1> DEFINE r == TakePickup(s, p, t)
<1>1. /\ s \in Work /\ s.pickups \subseteq pickups /\ t \in Nat /\ t # Gone
      /\ DOMAIN s.touching = s.pickups /\ p \in PickupPlayer
  BY DEF Handled, PickupsTyped, Gone
<1>2. /\ r \in Work
      /\ r.pickups = s.pickups \ {t}
      /\ r.waiting = Append(s.waiting, RespawnTimer)
      /\ r.atMaximum = Forget(s.atMaximum, t)
      /\ r.touching = Kept(s.touching, s.pickups \ {t})
      /\ r.gains = Append(s.gains, p)
  <2>1. IsTaken(r, s, p, t)
    BY <1>1, TakenIs DEF CanTake
  <2> HIDE DEF r
  <2> QED BY <2>1 DEF IsTaken
<1> HIDE DEF r
<1>3. r.touching = [u \in r.pickups |-> touching[u]]
  BY <1>2 DEF Handled, Kept
<1>4. Cardinality(r.pickups) + Len(r.waiting) = 1 + surplus
  <2>1. IsFiniteSet(s.pickups)
    BY <1>1, FS_Subset DEF PickupsTyped
  <2>2. Cardinality(s.pickups \ {t}) = Cardinality(s.pickups) - 1 /\ Cardinality(s.pickups) \in Nat
    BY <2>1, FS_RemoveElement, FS_CardinalityType
  <2>3. Len(r.waiting) = Len(s.waiting) + 1 /\ Len(s.waiting) \in Nat
    <3>1. s.waiting \in Timers /\ RespawnTimer \in Int
      BY <1>1, WorkFields, PickupsAssumption
    <3> QED BY <1>2, <3>1, AppendTimer
  <2> QED BY <1>2, <2>2, <2>3 DEF Handled, PickupsTyped
<1>5. ListIsRight(r.atMaximum, r.pickups, n)
  BY <1>1, <1>2, WorkFields, ForgottenIsRight DEF Handled
<1>6. NotFromAfar(r.gains)
  <2>1. \A k \in DOMAIN r.gains :
          r.gains[k] = p \/ (k \in DOMAIN s.gains /\ r.gains[k] = s.gains[k])
    BY <1>1, <1>2, WorkFields, AppendTaker
  <2> QED BY <2>1 DEF NotFromAfar, Handled
<1> QED BY <1>1, <1>2, <1>3, <1>4, <1>5, <1>6 DEF Handled, r

(* The list of a frame is another one.                                     *)
LEMMA Relisted ==
  ASSUME NEW s, NEW n, Handled(s, n), NEW m, NEW list \in Entries,
         ListIsRight(list, s.pickups, m)
  PROVE  Handled([s EXCEPT !.atMaximum = list], m)
<1> DEFINE r == [s EXCEPT !.atMaximum = list]
<1>1. /\ r \in Work
      /\ r.pickups = s.pickups /\ r.waiting = s.waiting /\ r.atMaximum = list
      /\ r.touching = s.touching /\ r.gains = s.gains
  BY DEF Handled, Work
<1> HIDE DEF r
<1> QED BY <1>1 DEF Handled, r

(* As it is, after one event more.                                         *)
LEMMA NothingHappens ==
  ASSUME NEW s, NEW n, Handled(s, n), NEW m, ListIsRight(s.atMaximum, s.pickups, m)
  PROVE  Handled(s, m)
BY DEF Handled

(* A touch.                                                                *)
LEMMA TouchIsHandled ==
  ASSUME PickupsInv, NEW s, NEW n \in Nat, n + 1 \in DOMAIN events, Handled(s, n),
         NEW lev, DOMAIN lev = Present, events[n + 1].is = "TriggerTouch"
  PROVE  Handled(OnTriggerTouch(s, lev, events[n + 1]), n + 1)
<1> DEFINE e == events[n + 1]
           x == [player |-> e.player, pickup |-> e.pickup]
<1>1. /\ e.player \in PickupPlayer \cup {Gone} /\ e.pickup \in Nat
      /\ events \in TriggerEvents /\ ToldOnce /\ PickupsTyped
  BY TriggerEventFields DEF PickupsInv, PickupsTyped
<1>2. s \in Work /\ s.atMaximum \in Entries /\ ListIsRight(s.atMaximum, s.pickups, n)
  BY WorkFields DEF Handled
<1>3. ListIsRight(s.atMaximum, s.pickups, n + 1)
  BY <1>1, <1>2, ListStaysRight
<1>4. Handled(s, n + 1)
  BY <1>3, NothingHappens
<1>5. e.player # Gone =>
        e.player \in touching[e.pickup] /\ place[e.player] # "near"
  BY DEF PickupsInv, TouchesAreTrue
<1> HIDE DEF e
<1>6. x \in Entry /\ SameNames(x, e)
  BY <1>1 DEF Entry, SameNames
<1>7. ASSUME e.pickup \in s.pickups
      PROVE  Handled([s EXCEPT !.atMaximum = Append(s.atMaximum, x)], n + 1)
  <2>1. Named(x) => x.pickup \in s.pickups /\ x.player \in touching[x.pickup]
    BY <1>5, <1>7 DEF Named
  <2>2. ListIsRight(Append(s.atMaximum, x), s.pickups, n + 1)
    <3> HIDE DEF x
    <3> QED BY <1>1, <1>2, <1>6, <2>1, LongerIsRight DEF e
  <2>3. Append(s.atMaximum, x) \in Entries
    BY <1>2, <1>6, AppendEntry
  <2> HIDE DEF x
  <2> QED BY <2>2, <2>3, Relisted
<1>8. ASSUME e.pickup \in s.pickups, ~HasMaximum(lev, e.player)
      PROVE  Handled(TakePickup(s, e.player, e.pickup), n + 1)
  <2>1. e.player \in Present /\ e.player # Gone
    BY <1>1, <1>8, PickupsAssumption DEF HasMaximum, PickupsTyped
  <2> QED BY <1>1, <1>4, <1>5, <1>8, <2>1, TakesRightly
<1> QED BY <1>4, <1>7, <1>8 DEF OnTriggerTouch, e

(* A leave.                                                                *)
LEMMA LeaveIsHandled ==
  ASSUME PickupsInv, NEW s, NEW n \in Nat, n + 1 \in DOMAIN events, Handled(s, n),
         events[n + 1].is = "TriggerLeave"
  PROVE  Handled(OnTriggerLeave(s, events[n + 1]), n + 1)
<1> DEFINE e == events[n + 1]
           listed == {i \in DOMAIN s.atMaximum : SameNames(s.atMaximum[i], e)}
<1>1. events \in TriggerEvents
  BY DEF PickupsInv, PickupsTyped
<1>2. s.atMaximum \in Entries /\ ListIsRight(s.atMaximum, s.pickups, n)
  BY WorkFields DEF Handled
<1>3. ASSUME e.pickup \notin s.pickups \/ listed = {}
      PROVE  Handled(s, n + 1)
  <2>1. \A k \in DOMAIN s.atMaximum :
          Named(s.atMaximum[k]) => ~SameNames(e, s.atMaximum[k])
    BY <1>2, <1>3 DEF ListIsRight, SameNames
  <2>2. ListIsRight(s.atMaximum, s.pickups, n + 1)
    BY <1>1, <1>2, <2>1, ListStaysRight
  <2> QED BY <2>2, NothingHappens
<1>4. ASSUME listed # {}
      PROVE  Handled([s EXCEPT !.atMaximum = Without(s.atMaximum, First(listed))], n + 1)
  <2>1. listed \in SUBSET Nat
    BY <1>2, EntryFields
  <2>2. First(listed) \in listed
    BY <1>4, <2>1, FirstIs
  <2>3. ListIsRight(Without(s.atMaximum, First(listed)), s.pickups, n + 1)
    BY <1>1, <1>2, <2>2, ShorterIsRight
  <2>4. Without(s.atMaximum, First(listed)) \in Entries
    BY <1>2, <2>2, WithoutOnce DEF ListIsRight
  <2> QED BY <2>3, <2>4, Relisted
<1>5. listed = {i \in DOMAIN s.atMaximum :
                  s.atMaximum[i].player = e.player /\ s.atMaximum[i].pickup = e.pickup}
  BY DEF SameNames
<1> HIDE DEF listed, e
<1>6. OnTriggerLeave(s, e) =
        IF e.pickup \notin s.pickups \/ listed = {} THEN s
        ELSE [s EXCEPT !.atMaximum = Without(s.atMaximum, First(listed))]
  BY <1>5 DEF OnTriggerLeave
<1> QED BY <1>3, <1>4, <1>6 DEF e

LEMMA EventIsHandled ==
  ASSUME PickupsInv, NEW s, NEW n \in Nat, n + 1 \in DOMAIN events, Handled(s, n),
         NEW lev, DOMAIN lev = Present
  PROVE  Handled(HandleEvent(s, lev, events[n + 1]), n + 1)
<1>1. events[n + 1].is \in {"TriggerTouch", "TriggerLeave"}
  BY TriggerEventFields DEF PickupsInv, PickupsTyped
<1> QED BY <1>1, TouchIsHandled, LeaveIsHandled DEF HandleEvent

(* Loops as folds.                                                         *)

(* What n steps make of s, after each of them.                             *)
Folded(f, s, step, n) ==
  f = [i \in 0 .. n |-> IF i = 0 THEN s ELSE step[<<f[i - 1], i>>]]

(* A fold is there, however many steps it has.                             *)
LEMMA FoldExists ==
  ASSUME NEW s, NEW step, NEW n \in Nat
  PROVE  \E f : Folded(f, s, step, n)
<1> DEFINE T == {m \in Nat : ~ \E f : Folded(f, s, step, m)}
<1>1. ASSUME T # {} PROVE FALSE
  <2>1. \E m \in T : \A l \in T : ~(l < m)
    <3>1. T \in SUBSET Nat
      OBVIOUS
    <3> HIDE DEF T
    <3> QED BY <1>1, <3>1, LeastExists
  <2>2. PICK m \in T : \A l \in T : ~(l < m)
    BY <2>1
  <2>3. CASE m = 0
    <3> DEFINE f == [i \in 0 .. 0 |-> s]
    <3>1. Folded(f, s, step, 0)
      BY DEF Folded
    <3> QED BY <2>2, <2>3, <3>1
  <2>4. CASE m # 0
    <3>1. m \in Nat /\ m - 1 \in Nat /\ m - 1 < m
      BY <2>2, <2>4
    <3>2. m - 1 \notin T
      BY <2>2, <3>1
    <3>3. PICK f : Folded(f, s, step, m - 1)
      BY <3>1, <3>2
    <3> HIDE DEF T
    <3> DEFINE g == [i \in 0 .. m |-> IF i < m THEN f[i] ELSE step[<<f[m - 1], m>>]]
    <3>4. ASSUME NEW i \in 0 .. m
          PROVE  g[i] = IF i = 0 THEN s ELSE step[<<g[i - 1], i>>]
      <4>1. CASE i < m
        <5>1. i \in 0 .. m - 1 /\ g[i] = f[i]
          BY <4>1, <3>1
        <5>2. f[i] = IF i = 0 THEN s ELSE step[<<f[i - 1], i>>]
          BY <5>1, <3>3 DEF Folded
        <5>3. i # 0 => g[i - 1] = f[i - 1]
          BY <4>1, <3>1
        <5> HIDE DEF g
        <5> QED BY <5>1, <5>2, <5>3
      <4>2. CASE i = m
        <5>1. i # 0 /\ g[i - 1] = f[i - 1]
          BY <4>2, <3>1
        <5>2. g[i] = step[<<f[m - 1], m>>]
          BY <4>2, <3>1
        <5> HIDE DEF g
        <5> QED BY <4>2, <5>1, <5>2
      <4> QED BY <4>1, <4>2, <3>1
    <3>5. Folded(g, s, step, m)
      <4>1. g = [i \in 0 .. m |-> g[i]]
        OBVIOUS
      <4> HIDE DEF g
      <4> QED BY <3>4, <4>1 DEF Folded
    <3>6. m \notin T
      BY <3>5 DEF T
    <3> QED BY <2>2, <3>6
  <2> QED BY <2>3, <2>4
<1> QED BY <1>1

(* The events of the last frame, one after the other.                      *)
Handles(f, s, lev, list) ==
  f = [i \in 0 .. Len(list) |-> IF i = 0 THEN s ELSE HandleEvent(f[i - 1], lev, list[i])]

LEMMA EventsAreHandledInTurn ==
  ASSUME PickupsInv, NEW s, Handled(s, 0), NEW lev, DOMAIN lev = Present
  PROVE  \E g : /\ g[0] = s /\ g[Len(events)] = Handle(s, lev, events)
                /\ \A i \in 0 .. Len(events) : Handled(g[i], i)
                /\ \A i \in 1 .. Len(events) : g[i] = HandleEvent(g[i - 1], lev, events[i])
<1> DEFINE n == Len(events)
           S == [i \in 0 .. n |-> {w \in Work : Handled(w, i)}]
           step == [x \in Work \X (1 .. n) |-> HandleEvent(x[1], lev, events[x[2]])]
<1>1. n \in Nat /\ DOMAIN events = 1 .. n
  BY TriggerEventFields DEF PickupsInv, PickupsTyped
<1>2. \A i \in 0 .. n : \A w : w \in S[i] <=> Handled(w, i)
  BY DEF Handled
<1>3. \A i \in 1 .. n : i - 1 \in Nat /\ i - 1 \in 0 .. n /\ i \in 0 .. n /\ (i - 1) + 1 = i
  BY <1>1
<1>4. \A w \in Work : \A i \in 1 .. n : step[<<w, i>>] = HandleEvent(w, lev, events[i])
  OBVIOUS
<1> HIDE DEF S, step, n
<1>5. ASSUME NEW i \in 1 .. n, NEW w \in S[i - 1]
      PROVE  /\ step[<<w, i>>] = HandleEvent(w, lev, events[i])
             /\ HandleEvent(w, lev, events[i]) \in S[i]
  <2>1. Handled(w, i - 1) /\ w \in Work
    BY <1>2, <1>3 DEF Handled
  <2>2. Handled(HandleEvent(w, lev, events[(i - 1) + 1]), (i - 1) + 1)
    BY <1>1, <1>3, <2>1, EventIsHandled
  <2>3. Handled(HandleEvent(w, lev, events[i]), i)
    BY <1>3, <2>2
  <2> QED BY <1>2, <1>3, <1>4, <2>1, <2>3
<1>6. s \in S[0]
  BY <1>1, <1>2
<1>7. \E f : Handles(f, s, lev, events)
  <2>1. PICK f : Folded(f, s, step, n)
    BY <1>1, FoldExists
  <2>2. /\ f = [i \in 0 .. n |-> f[i]] /\ f[0] = s
        /\ \A i \in 1 .. n : f[i - 1] \in S[i - 1] /\ f[i] = step[<<f[i - 1], i>>]
    <3>1. f[0] = s /\ \A i \in 1 .. n : f[i] = step[<<f[i - 1], i>>]
      BY <1>1, <2>1 DEF Folded
    <3>2. f = [i \in 0 .. n |-> f[i]]
      BY <2>1 DEF Folded
    <3>3. \A i \in 0 .. n : f[i] \in S[i]
      <4>1. \A i \in 1 .. n : f[i - 1] \in S[i - 1] => f[i] \in S[i]
        BY <1>5, <3>1
      <4> QED BY <1>1, <1>6, <3>1, <4>1, StaysIn
    <3> QED BY <1>3, <3>1, <3>2, <3>3
  <2>3. \A i \in 0 .. n : f[i] = IF i = 0 THEN s ELSE HandleEvent(f[i - 1], lev, events[i])
    <3>1. \A i \in 1 .. n : f[i] = HandleEvent(f[i - 1], lev, events[i])
      BY <1>5, <2>2
    <3>2. \A i \in 0 .. n : (i = 0 /\ f[i] = s) \/ (i # 0 /\ i \in 1 .. n)
      BY <1>1, <2>2
    <3> QED BY <3>1, <3>2, Zenon
  <2>4. f = [i \in 0 .. n |-> IF i = 0 THEN s ELSE HandleEvent(f[i - 1], lev, events[i])]
    BY <2>2, <2>3, Zenon
  <2> QED BY <2>4 DEF Handles, n
<1> DEFINE g == CHOOSE f : Handles(f, s, lev, events)
<1>8. Handles(g, s, lev, events)
  BY <1>7
<1>9. Handle(s, lev, events) = g[n]
  BY DEF Handle, Handles, n
<1> HIDE DEF g
<1>10. g[0] = s /\ \A i \in 1 .. n : g[i] = HandleEvent(g[i - 1], lev, events[i])
  BY <1>1, <1>8 DEF Handles, n
<1>11. \A i \in 0 .. n : Handled(g[i], i)
  <2>1. \A i \in 1 .. n : g[i - 1] \in S[i - 1] => g[i] \in S[i]
    BY <1>5, <1>10
  <2>2. \A i \in 0 .. n : g[i] \in S[i]
    BY <1>1, <1>6, <1>10, <2>1, StaysIn
  <2> QED BY <1>2, <2>2
<1> QED BY <1>9, <1>10, <1>11 DEF n

LEMMA EventsAreHandled ==
  ASSUME PickupsInv, NEW s, Handled(s, 0), NEW lev, DOMAIN lev = Present
  PROVE  Handled(Handle(s, lev, events), Len(events))
<1>1. Len(events) \in 0 .. Len(events)
  BY TriggerEventFields DEF PickupsInv, PickupsTyped
<1> QED BY <1>1, EventsAreHandledInTurn

(* The timers, one after the other.                                        *)

(* A frame whose events are handled, with a list of timers of its own.     *)
LEMMA AllIsHandled ==
  ASSUME PickupsInv, NEW s, Handled(s, Len(events))
  PROVE  Updated([s EXCEPT !.waiting = <<>>], Cardinality(s.pickups))
<1> DEFINE r == [s EXCEPT !.waiting = <<>>]
<1>1. /\ r \in Work
      /\ r.pickups = s.pickups /\ r.waiting = <<>> /\ r.atMaximum = s.atMaximum
      /\ r.touching = s.touching /\ r.gains = s.gains
  <2>1. s \in Work /\ <<>> \in Timers
    BY DEF Handled, Timers
  <2> QED BY <2>1 DEF Work
<1>2. Len(events) \in Nat /\ pickups \subseteq Nat \ {Gone} /\ IsFiniteSet(pickups)
  BY TriggerEventFields DEF PickupsInv, PickupsTyped
<1>3. s.pickups \subseteq pickups /\ IsFiniteSet(s.pickups) /\ Cardinality(s.pickups) \in Nat
  BY <1>2, FS_Subset, FS_CardinalityType DEF Handled
<1>4. \A e : ~LeaveComes(Len(events), e)
  BY <1>2 DEF LeaveComes
<1> HIDE DEF r
<1>5. r.touching = [t \in r.pickups |-> IF t \in pickups THEN touching[t] ELSE {}]
  BY <1>1, <1>3 DEF Handled
<1>6. Cardinality(r.pickups) + Len(r.waiting) = Cardinality(s.pickups)
  <2>1. Len(r.waiting) = 0
    BY <1>1
  <2> QED BY <1>1, <1>3, <2>1
<1>7. \A k \in DOMAIN r.atMaximum : Named(r.atMaximum[k]) =>
        /\ r.atMaximum[k].pickup \in r.pickups
        /\ r.atMaximum[k].player \in r.touching[r.atMaximum[k].pickup]
  <2>1. \A k \in DOMAIN r.atMaximum : Named(r.atMaximum[k]) =>
          /\ r.atMaximum[k].pickup \in r.pickups
          /\ r.atMaximum[k].player \in touching[r.atMaximum[k].pickup]
    BY <1>1, <1>4 DEF Handled, ListIsRight
  <2>2. \A t \in r.pickups : r.touching[t] = touching[t]
    BY <1>1 DEF Handled
  <2> QED BY <2>1, <2>2
<1>8. ListedOnce(r.atMaximum) /\ NotFromAfar(r.gains)
  BY <1>1 DEF Handled, ListIsRight
<1>9. r.pickups \subseteq Nat \ {Gone} /\ IsFiniteSet(r.pickups)
  BY <1>1, <1>2, <1>3
<1> QED BY <1>1, <1>5, <1>6, <1>7, <1>8, <1>9 DEF Updated, r

(* There always is a number no pickup has.                                 *)
LEMMA NewPickupIsNew ==
  ASSUME NEW s, IsFiniteSet(s.pickups), IsFiniteSet(pickups)
  PROVE  NewPickup(s) \in Nat \ {Gone} /\ NewPickup(s) \notin s.pickups \cup pickups
<1> DEFINE known == s.pickups \cup pickups
           n == Cardinality(known)
<1>1. IsFiniteSet(known)
  BY FS_Union
<1>2. n \in Nat
  BY <1>1, FS_CardinalityType
<1>3. \E t \in 1 .. n + 1 : t \notin known
  <2> SUFFICES ASSUME 1 .. n + 1 \subseteq known
               PROVE  FALSE
    OBVIOUS
  <2>1. Cardinality(1 .. n + 1) = n + 1
    <3> HIDE DEF n
    <3>1. 1 \in Int /\ n + 1 \in Int /\ ~(1 > n + 1) /\ (n + 1) - 1 + 1 = n + 1
      BY <1>2
    <3> QED BY <3>1, FS_Interval
  <2>2. Cardinality(1 .. n + 1) <= n
    BY <1>1, FS_Subset
  <2> HIDE DEF n
  <2> QED BY <1>2, <2>1, <2>2
<1>4. NewPickup(s) \in 1 .. n + 1 /\ NewPickup(s) \notin known
  BY <1>3 DEF NewPickup
<1> HIDE DEF n
<1>5. 1 .. n + 1 \subseteq Nat \ {Gone}
  BY <1>2 DEF Gone
<1> QED BY <1>4, <1>5

LEMMA SpawnUpdates ==
  ASSUME PickupsTyped, NEW s, NEW count \in Int, Updated(s, count)
  PROVE  Updated(SpawnPickup(s), count + 1)
<1> DEFINE t == NewPickup(s)
           f == [u \in s.pickups \cup {t} |-> IF u = t THEN {} ELSE s.touching[u]]
           r == SpawnPickup(s)
<1>1. t \in Nat \ {Gone} /\ t \notin s.pickups /\ t \notin pickups
  BY NewPickupIsNew DEF Updated, PickupsTyped
<1>2. DOMAIN s.touching = s.pickups /\ s \in Work
  BY DEF Updated
<1>3. r = [s EXCEPT !.pickups = s.pickups \cup {t}, !.touching = f]
  BY <1>2 DEF SpawnPickup
<1>4. f \in Touchings
  <2>1. s.pickups \cup {t} \in SUBSET Nat
    BY <1>1, <1>2, WorkFields
  <2>2. \A u \in s.pickups \cup {t} : f[u] \subseteq PickupPlayer
    BY <1>2, WorkFields, TouchedBy
  <2>3. f = [u \in s.pickups \cup {t} |-> f[u]]
    OBVIOUS
  <2> HIDE DEF f, t
  <2> QED BY <2>1, <2>2, <2>3, TouchingsOf
<1> HIDE DEF t, r
<1>5. f = [u \in s.pickups \cup {t} |-> IF u \in pickups THEN touching[u] ELSE {}]
  <2>1. \A u \in s.pickups : s.touching[u] = IF u \in pickups THEN touching[u] ELSE {}
    BY DEF Updated
  <2> QED BY <1>1, <2>1
<1>6. \A u \in s.pickups : f[u] = s.touching[u]
  BY <1>1
<1> HIDE DEF f
<1>7. /\ r \in Work /\ r.pickups = s.pickups \cup {t}
      /\ r.waiting = s.waiting /\ r.atMaximum = s.atMaximum
      /\ r.touching = f /\ r.gains = s.gains
  <2>1. s.pickups \cup {t} \in SUBSET Nat
    BY <1>1, <1>2, WorkFields
  <2> QED BY <1>2, <1>3, <1>4, <2>1 DEF Work
<1>8. IsFiniteSet(r.pickups) /\ Cardinality(r.pickups) + Len(r.waiting) = count + 1
  <2>1. IsFiniteSet(s.pickups)
    BY DEF Updated
  <2>2. /\ IsFiniteSet(s.pickups \cup {t})
        /\ Cardinality(s.pickups \cup {t}) = Cardinality(s.pickups) + 1
        /\ Cardinality(s.pickups) \in Nat
    BY <1>1, <2>1, FS_AddElement, FS_CardinalityType
  <2>3. Len(s.waiting) \in Nat
    BY <1>2, WorkFields DEF Timers
  <2>4. Cardinality(s.pickups) + Len(s.waiting) = count
    BY DEF Updated
  <2> QED BY <1>7, <2>2, <2>3, <2>4
<1>9. \A k \in DOMAIN r.atMaximum : Named(r.atMaximum[k]) =>
        /\ r.atMaximum[k].pickup \in r.pickups
        /\ r.atMaximum[k].player \in r.touching[r.atMaximum[k].pickup]
  BY <1>6, <1>7 DEF Updated
<1>10. r.pickups \subseteq Nat \ {Gone} /\ ListedOnce(r.atMaximum) /\ NotFromAfar(r.gains)
  BY <1>1, <1>7 DEF Updated
<1> QED BY <1>5, <1>7, <1>8, <1>9, <1>10 DEF Updated, r

LEMMA WaitUpdates ==
  ASSUME NEW s, NEW count \in Int, Updated(s, count), NEW left \in Int
  PROVE  Updated([s EXCEPT !.waiting = Append(s.waiting, left)], count + 1)
<1> DEFINE r == [s EXCEPT !.waiting = Append(s.waiting, left)]
<1>1. s \in Work /\ s.waiting \in Timers
  BY WorkFields DEF Updated
<1>2. Append(s.waiting, left) \in Timers /\ Len(Append(s.waiting, left)) = Len(s.waiting) + 1
      /\ Len(s.waiting) \in Nat
  BY <1>1, AppendTimer
<1>3. /\ r \in Work /\ r.pickups = s.pickups
      /\ r.waiting = Append(s.waiting, left) /\ r.atMaximum = s.atMaximum
      /\ r.touching = s.touching /\ r.gains = s.gains
  BY <1>1, <1>2 DEF Work
<1> HIDE DEF r
<1>4. Cardinality(r.pickups) + Len(r.waiting) = count + 1
  <2>1. Cardinality(s.pickups) \in Nat
    BY FS_CardinalityType DEF Updated
  <2>2. Cardinality(s.pickups) + Len(s.waiting) = count
    BY DEF Updated
  <2> QED BY <1>2, <1>3, <2>1, <2>2
<1> QED BY <1>3, <1>4 DEF Updated, r

Updates(f, s) ==
  f = [i \in 0 .. Len(s.waiting) |->
         IF i = 0 THEN [s EXCEPT !.waiting = <<>>]
         ELSE UpdateTimer(f[i - 1], s.waiting[i] - 1)]

LEMMA TimersAreUpdatedInTurn ==
  ASSUME PickupsInv, NEW s, Handled(s, Len(events))
  PROVE  \E g :
           /\ g[0] = [s EXCEPT !.waiting = <<>>] /\ g[Len(s.waiting)] = UpdateTimers(s)
           /\ \A i \in 0 .. Len(s.waiting) : Updated(g[i], Cardinality(s.pickups) + i)
           /\ \A i \in 1 .. Len(s.waiting) : g[i] = UpdateTimer(g[i - 1], s.waiting[i] - 1)
<1> DEFINE n == Len(s.waiting)
           start == [s EXCEPT !.waiting = <<>>]
           c == Cardinality(s.pickups)
           S == [i \in 0 .. n |-> {w \in Work : Updated(w, c + i)}]
           step == [x \in Work \X (1 .. n) |-> UpdateTimer(x[1], s.waiting[x[2]] - 1)]
<1>1. /\ n \in Nat /\ DOMAIN s.waiting = 1 .. n
      /\ \A i \in 1 .. n : s.waiting[i] - 1 \in Int
  BY WorkFields DEF Handled, Timers
<1>2. c \in Nat
  <2>1. IsFiniteSet(s.pickups)
    BY FS_Subset DEF Handled, PickupsInv, PickupsTyped
  <2> QED BY <2>1, FS_CardinalityType
<1>3. Updated(start, c)
  BY AllIsHandled
<1>4. \A i \in 0 .. n : \A w : w \in S[i] <=> Updated(w, c + i)
  BY DEF Updated
<1>5. \A i \in 1 .. n : i - 1 \in 0 .. n /\ i \in 0 .. n
  BY <1>1
<1>6. \A w \in Work : \A i \in 1 .. n : step[<<w, i>>] = UpdateTimer(w, s.waiting[i] - 1)
  OBVIOUS
<1> HIDE DEF S, step, n, start, c
<1>7. ASSUME NEW i \in 1 .. n, NEW w \in S[i - 1]
      PROVE  /\ step[<<w, i>>] = UpdateTimer(w, s.waiting[i] - 1)
             /\ UpdateTimer(w, s.waiting[i] - 1) \in S[i]
  <2>1. Updated(w, c + (i - 1)) /\ w \in Work
    <3>1. Updated(w, c + (i - 1))
      BY <1>4, <1>5, Zenon
    <3> QED BY <3>1 DEF Updated
  <2>2. c + (i - 1) \in Int /\ (c + (i - 1)) + 1 = c + i
    BY <1>1, <1>2
  <2>3. /\ Updated(SpawnPickup(w), (c + (i - 1)) + 1)
        /\ Updated([w EXCEPT !.waiting = Append(w.waiting, s.waiting[i] - 1)], (c + (i - 1)) + 1)
    BY <1>1, <2>1, <2>2, SpawnUpdates, WaitUpdates DEF PickupsInv
  <2>4. Updated(UpdateTimer(w, s.waiting[i] - 1), c + i)
    BY <2>2, <2>3 DEF UpdateTimer
  <2> QED BY <1>4, <1>5, <1>6, <2>1, <2>4
<1>8. start \in S[0]
  <2>1. 0 \in 0 .. n /\ c + 0 = c
    BY <1>1, <1>2
  <2> QED BY <1>3, <1>4, <2>1
<1>9. \E f : Updates(f, s)
  <2>1. PICK f : Folded(f, start, step, n)
    BY <1>1, FoldExists
  <2>2. /\ f = [i \in 0 .. n |-> f[i]] /\ f[0] = start
        /\ \A i \in 1 .. n : f[i - 1] \in S[i - 1] /\ f[i] = step[<<f[i - 1], i>>]
    <3>1. f[0] = start /\ \A i \in 1 .. n : f[i] = step[<<f[i - 1], i>>]
      BY <1>1, <2>1 DEF Folded
    <3>2. f = [i \in 0 .. n |-> f[i]]
      BY <2>1 DEF Folded
    <3>3. \A i \in 0 .. n : f[i] \in S[i]
      <4>1. \A i \in 1 .. n : f[i - 1] \in S[i - 1] => f[i] \in S[i]
        BY <1>7, <3>1
      <4> QED BY <1>1, <1>8, <3>1, <4>1, StaysIn
    <3> QED BY <1>5, <3>1, <3>2, <3>3
  <2>3. \A i \in 0 .. n : f[i] = IF i = 0 THEN start ELSE UpdateTimer(f[i - 1], s.waiting[i] - 1)
    <3>1. \A i \in 1 .. n : f[i] = UpdateTimer(f[i - 1], s.waiting[i] - 1)
      BY <1>7, <2>2
    <3>2. \A i \in 0 .. n : (i = 0 /\ f[i] = start) \/ (i # 0 /\ i \in 1 .. n)
      BY <1>1, <2>2
    <3> QED BY <3>1, <3>2, Zenon
  <2>4. f = [i \in 0 .. n |-> IF i = 0 THEN start ELSE UpdateTimer(f[i - 1], s.waiting[i] - 1)]
    BY <2>2, <2>3, Zenon
  <2> QED BY <2>4 DEF Updates, n, start
<1> DEFINE g == CHOOSE f : Updates(f, s)
<1>10. Updates(g, s)
  BY <1>9
<1>11. UpdateTimers(s) = g[n]
  BY DEF UpdateTimers, Updates, n
<1> HIDE DEF g
<1>12. g[0] = start /\ \A i \in 1 .. n : g[i] = UpdateTimer(g[i - 1], s.waiting[i] - 1)
  BY <1>1, <1>10 DEF Updates, n, start
<1>13. \A i \in 0 .. n : Updated(g[i], c + i)
  <2>1. \A i \in 1 .. n : g[i - 1] \in S[i - 1] => g[i] \in S[i]
    BY <1>7, <1>12
  <2>2. \A i \in 0 .. n : g[i] \in S[i]
    BY <1>1, <1>8, <1>12, <2>1, StaysIn
  <2> QED BY <1>4, <2>2
<1> QED BY <1>11, <1>12, <1>13 DEF n, c, start

LEMMA TimersAreUpdated ==
  ASSUME PickupsInv, NEW s, Handled(s, Len(events))
  PROVE  Updated(UpdateTimers(s), 1 + surplus)
<1>1. Len(s.waiting) \in 0 .. Len(s.waiting)
  BY WorkFields DEF Handled, Timers
<1>2. Cardinality(s.pickups) + Len(s.waiting) = 1 + surplus
  BY DEF Handled
<1>3. \E w : w = UpdateTimers(s) /\ Updated(w, Cardinality(s.pickups) + Len(s.waiting))
  BY <1>1, TimersAreUpdatedInTurn
<1> QED BY <1>2, <1>3

(* The list, one of it in a frame.                                         *)
LEMMA ListIsUpdated ==
  ASSUME PickupsInv, NEW s, NEW count \in Int, Updated(s, count), NEW lev, DOMAIN lev = Present
  PROVE  Updated(UpdateListed(s, lev), count)
<1> DEFINE chosen == {i \in DOMAIN s.atMaximum :
                   s.atMaximum[i].player = Gone \/ ~HasMaximum(lev, s.atMaximum[i].player)}
           at == First(chosen)
           x == s.atMaximum[at]
           takes == x.player # Gone /\ x.pickup \in s.pickups
           taken == IF takes THEN TakePickup(s, x.player, x.pickup) ELSE s
           r == [taken EXCEPT !.atMaximum = Without(taken.atMaximum, at)]
<1> SUFFICES ASSUME chosen # {}
             PROVE  Updated(r, count)
  BY DEF UpdateListed, TakePickup
<1>1. s \in Work /\ s.atMaximum \in Entries /\ DOMAIN s.touching = s.pickups
  BY WorkFields DEF Updated
<1>2. at \in chosen
  <2>1. chosen \in SUBSET Nat
    BY <1>1, EntryFields
  <2> HIDE DEF chosen
  <2> QED BY <2>1, FirstIs
<1>3. at \in DOMAIN s.atMaximum /\ (x.player = Gone \/ ~HasMaximum(lev, x.player))
  BY <1>2
<1>4. x \in Entry
  BY <1>1, <1>3, EntryFields
<1> HIDE DEF chosen, at
<1>5. /\ taken \in Work
      /\ taken.atMaximum \in Entries /\ DOMAIN taken.atMaximum = DOMAIN s.atMaximum
      /\ \A k \in DOMAIN s.atMaximum : Named(taken.atMaximum[k]) =>
           /\ takes => s.atMaximum[k].pickup # x.pickup
           /\ taken.atMaximum[k] = s.atMaximum[k]
      /\ taken.pickups = IF takes THEN s.pickups \ {x.pickup} ELSE s.pickups
      /\ taken.touching = [u \in taken.pickups |-> s.touching[u]]
      /\ taken.waiting = IF takes THEN Append(s.waiting, RespawnTimer) ELSE s.waiting
      /\ taken.gains = IF takes THEN Append(s.gains, x.player) ELSE s.gains
  <2> HIDE DEF x
  <2>1. CASE takes
    <3>1. x.player \in PickupPlayer \cup {Gone} /\ x.pickup \in Nat /\ x.pickup \in s.pickups
      BY <1>4, <2>1 DEF Entry
    <3>2. /\ taken \in Work
          /\ taken.pickups = s.pickups \ {x.pickup}
          /\ taken.waiting = Append(s.waiting, RespawnTimer)
          /\ taken.atMaximum = Forget(s.atMaximum, x.pickup)
          /\ taken.touching = Kept(s.touching, s.pickups \ {x.pickup})
          /\ taken.gains = Append(s.gains, x.player)
      <4>1. IsTaken(TakePickup(s, x.player, x.pickup), s, x.player, x.pickup)
        BY <1>1, <3>1, TakenIs DEF CanTake
      <4>2. taken = TakePickup(s, x.player, x.pickup)
        BY <2>1
      <4> HIDE DEF taken, takes
      <4> QED BY <4>1, <4>2 DEF IsTaken
    <3>3. /\ Forget(s.atMaximum, x.pickup) \in Entries
          /\ DOMAIN Forget(s.atMaximum, x.pickup) = DOMAIN s.atMaximum
          /\ \A k \in DOMAIN s.atMaximum : Named(Forget(s.atMaximum, x.pickup)[k]) =>
               /\ s.atMaximum[k].pickup # x.pickup
               /\ Forget(s.atMaximum, x.pickup)[k] = s.atMaximum[k]
      BY <1>1, <3>1, ForgetIs
    <3> HIDE DEF taken, takes
    <3> QED BY <2>1, <3>2, <3>3 DEF Kept
  <2>2. CASE ~takes
    <3>1. s.touching = [u \in s.pickups |-> s.touching[u]]
      BY DEF Updated
    <3>2. taken = s
      BY <2>2
    <3> HIDE DEF taken, takes
    <3> QED BY <1>1, <2>2, <3>1, <3>2
  <2> QED BY <2>1, <2>2
<1>6. takes => x.player \in Present /\ place[x.player] # "near" /\ x.pickup \in Nat
  <2> SUFFICES ASSUME takes
               PROVE  x.player \in Present /\ place[x.player] # "near" /\ x.pickup \in Nat
    OBVIOUS
  <2>1. x.player \in Present
    BY <1>3 DEF HasMaximum
  <2>2. x.pickup # Gone /\ x.pickup \in Nat
    BY <1>4 DEF Entry, Updated
  <2>3. x.player \in s.touching[x.pickup]
    BY <1>3, <2>2 DEF Updated, Named
  <2>4. s.touching[x.pickup] = IF x.pickup \in pickups THEN touching[x.pickup] ELSE {}
    BY DEF Updated
  <2>5. x.pickup \in pickups /\ x.player \in touching[x.pickup]
    BY <2>3, <2>4
  <2>6. place[x.player] # "near"
    BY <2>1, <2>5 DEF PickupsInv, TheNearAreLetGo
  <2> QED BY <2>1, <2>2, <2>6
<1> HIDE DEF taken, takes, x
<1>7. ListedOnce(taken.atMaximum)
  BY <1>5, StillListedOnce DEF Updated
<1>8. LET list == Without(taken.atMaximum, at) IN
      /\ list \in Entries /\ ListedOnce(list)
      /\ \A k \in DOMAIN list : \E j \in DOMAIN taken.atMaximum : list[k] = taken.atMaximum[j]
  BY <1>3, <1>5, <1>7, WithoutOnce
<1>9. /\ r \in Work
      /\ r.pickups = taken.pickups /\ r.waiting = taken.waiting
      /\ r.atMaximum = Without(taken.atMaximum, at)
      /\ r.touching = taken.touching /\ r.gains = taken.gains
  BY <1>5, <1>8 DEF Work
<1> HIDE DEF r
<1>10. r.pickups \subseteq Nat \ {Gone} /\ IsFiniteSet(r.pickups)
  <2>1. IsFiniteSet(s.pickups)
    BY DEF Updated
  <2>2. IsFiniteSet(s.pickups \ {x.pickup})
    BY <2>1, FS_RemoveElement
  <2> QED BY <1>5, <1>9, <2>1, <2>2 DEF Updated
<1>11. r.touching = [t \in r.pickups |-> IF t \in pickups THEN touching[t] ELSE {}]
  <2>1. \A t \in s.pickups : s.touching[t] = IF t \in pickups THEN touching[t] ELSE {}
    BY DEF Updated
  <2>2. r.pickups \subseteq s.pickups
    BY <1>5, <1>9
  <2> QED BY <1>5, <1>9, <2>1, <2>2
<1>12. Cardinality(r.pickups) + Len(r.waiting) = count
  <2>1. CASE takes
    <3>1. x.pickup \in s.pickups /\ IsFiniteSet(s.pickups)
      BY <2>1 DEF takes, Updated
    <3>2. Cardinality(s.pickups \ {x.pickup}) = Cardinality(s.pickups) - 1
          /\ Cardinality(s.pickups) \in Nat
      BY <3>1, FS_RemoveElement, FS_CardinalityType
    <3>3. s.waiting \in Timers /\ RespawnTimer \in Int
      BY <1>1, WorkFields, PickupsAssumption
    <3>4. Len(r.waiting) = Len(s.waiting) + 1 /\ Len(s.waiting) \in Nat
      BY <1>5, <1>9, <2>1, <3>3, AppendTimer
    <3>5. Cardinality(s.pickups) + Len(s.waiting) = count
      BY DEF Updated
    <3> QED BY <1>5, <1>9, <2>1, <3>2, <3>4, <3>5
  <2>2. CASE ~takes
    BY <1>5, <1>9, <2>2 DEF Updated
  <2> QED BY <2>1, <2>2
<1>13. \A k \in DOMAIN r.atMaximum : Named(r.atMaximum[k]) =>
         /\ r.atMaximum[k].pickup \in r.pickups
         /\ r.atMaximum[k].player \in r.touching[r.atMaximum[k].pickup]
  <2> SUFFICES ASSUME NEW k \in DOMAIN r.atMaximum, Named(r.atMaximum[k])
               PROVE  /\ r.atMaximum[k].pickup \in r.pickups
                      /\ r.atMaximum[k].player \in r.touching[r.atMaximum[k].pickup]
    OBVIOUS
  <2>1. PICK j \in DOMAIN s.atMaximum : r.atMaximum[k] = taken.atMaximum[j]
    BY <1>5, <1>8, <1>9
  <2>2. r.atMaximum[k] = s.atMaximum[j] /\ (takes => s.atMaximum[j].pickup # x.pickup)
    BY <1>5, <2>1
  <2>3. /\ s.atMaximum[j].pickup \in s.pickups
        /\ s.atMaximum[j].player \in s.touching[s.atMaximum[j].pickup]
    BY <2>2 DEF Updated
  <2>4. s.atMaximum[j].pickup \in r.pickups
    BY <1>5, <1>9, <2>2, <2>3
  <2> QED BY <1>5, <1>9, <2>2, <2>3, <2>4
<1>14. NotFromAfar(r.gains)
  <2>1. CASE takes
    <3>1. s.gains \in Takers /\ x.player \in PickupPlayer \cup {Gone}
      BY <1>1, <1>4, WorkFields DEF Entry
    <3>2. \A k \in DOMAIN r.gains :
            r.gains[k] = x.player \/ (k \in DOMAIN s.gains /\ r.gains[k] = s.gains[k])
      BY <1>5, <1>9, <2>1, <3>1, AppendTaker
    <3> QED BY <1>6, <2>1, <3>2 DEF NotFromAfar, Updated
  <2>2. CASE ~takes
    BY <1>5, <1>9, <2>2 DEF Updated
  <2> QED BY <2>1, <2>2
<1>15. ListedOnce(r.atMaximum)
  BY <1>8, <1>9
<1> QED BY <1>9, <1>10, <1>11, <1>12, <1>13, <1>14, <1>15 DEF Updated, r

(* What the triggers tell.                                                 *)
LEMMA ToldInOrder ==
  ASSUME NEW S, IsFiniteSet(S)
  PROVE  \E n \in Nat : /\ DOMAIN InOrder(S) = 1 .. n
                        /\ \A i \in 1 .. n : InOrder(S)[i] \in S
                        /\ \A i, j \in 1 .. n : InOrder(S)[i] = InOrder(S)[j] => i = j
                        /\ \A x \in S : \E i \in 1 .. n : InOrder(S)[i] = x
<1> DEFINE n == Cardinality(S)
           order == InOrder(S)
<1>1. n \in Nat /\ Bijection(1 .. n, S) # {}
  BY FS_CardinalityType DEF ExistsBijection
<1>2. order \in Bijection(1 .. n, S)
  BY <1>1 DEF InOrder
<1> HIDE DEF n, order
<1>3. order \in [1 .. n -> S] /\ IsInjective(order) /\ order \in Surjection(1 .. n, S)
  BY <1>2 DEF Bijection, Injection
<1>4. DOMAIN order = 1 .. n /\ \A i \in 1 .. n : order[i] \in S
  BY <1>3
<1>5. \A i, j \in 1 .. n : order[i] = order[j] => i = j
  BY <1>3, <1>4 DEF IsInjective
<1>6. \A x \in S : \E i \in 1 .. n : order[i] = x
  BY <1>3 DEF Surjection
<1> QED BY <1>1, <1>4, <1>5, <1>6 DEF order

(* Pairs of a player and a pickup to tell of.                              *)
LEMMA ToTellIs ==
  ASSUME NEW s, NEW now, NEW x \in ToTell(s, now)
  PROVE  /\ x[1] \in DOMAIN now /\ x[2] \in s.pickups /\ x = <<x[1], x[2]>>
         /\ \/ now[x[1]] = "touching" /\ x[1] \notin s.touching[x[2]]
            \/ now[x[1]] = "near" /\ x[1] \in s.touching[x[2]]
BY DEF ToTell

LEMMA EventOfIs ==
  ASSUME NEW now, NEW gone, NEW x
  PROVE  /\ EventOf(now, gone, x).is =
              IF now[x[1]] = "touching" THEN "TriggerTouch" ELSE "TriggerLeave"
         /\ EventOf(now, gone, x).player = IF x[1] \in gone THEN Gone ELSE x[1]
         /\ EventOf(now, gone, x).pickup = x[2]
BY DEF EventOf, TriggerEvent, Name

(* A list is what is told of a frame.                                      *)
Tells(list, s, now, gone) ==
  /\ list \in TriggerEvents
  /\ \A i \in DOMAIN list : \E x \in ToTell(s, now) : list[i] = EventOf(now, gone, x)
  /\ \A x \in ToTell(s, now) : \E i \in DOMAIN list : list[i] = EventOf(now, gone, x)
  /\ \A i, j \in DOMAIN list : list[i].player # Gone /\ SameNames(list[i], list[j]) => i = j

LEMMA TriggersTell ==
  ASSUME PickupsTyped, NEW s, s.pickups \subseteq Nat, IsFiniteSet(s.pickups),
         NEW now \in [Present -> {"far", "near", "touching"}], NEW gone
  PROVE  Tells(UpdateTriggers(s, now, gone), s, now, gone)
<1> DEFINE S == ToTell(s, now)
           order == InOrder(S)
           list == UpdateTriggers(s, now, gone)
<1>1. IsFiniteSet(S)
  <2>1. IsFiniteSet(Present)
    BY FS_Subset, PickupsAssumption DEF PickupsTyped
  <2>2. IsFiniteSet(Present \X s.pickups)
    BY <2>1, FS_Product
  <2>3. S \subseteq Present \X s.pickups
    BY DEF ToTell
  <2> QED BY <2>2, <2>3, FS_Subset
<1> HIDE DEF S
<1>2. PICK n \in Nat : /\ DOMAIN order = 1 .. n
                       /\ \A i \in 1 .. n : order[i] \in S
                       /\ \A i, j \in 1 .. n : order[i] = order[j] => i = j
                       /\ \A x \in S : \E i \in 1 .. n : order[i] = x
  BY <1>1, ToldInOrder
<1>3. list = [i \in 1 .. n |-> EventOf(now, gone, order[i])]
  BY <1>2 DEF UpdateTriggers, S
<1> HIDE DEF order, list
<1>4. DOMAIN list = 1 .. n /\ \A i \in 1 .. n : list[i] = EventOf(now, gone, order[i])
  BY <1>3
<1>5. \A x \in S : /\ x[1] \in Present /\ x[1] \in PickupPlayer /\ x[1] # Gone
                   /\ x[2] \in Nat /\ x = <<x[1], x[2]>>
  BY ToTellIs, PickupsAssumption DEF S, PickupsTyped
<1>6. list \in TriggerEvents
  <2>1. \A x \in S : EventOf(now, gone, x) \in TriggerTold
    BY <1>5 DEF EventOf, TriggerEvent, Name, TriggerTold
  <2>2. \A i \in 1 .. n : list[i] \in TriggerTold
    BY <1>2, <1>4, <2>1
  <2>3. list = [i \in 1 .. n |-> list[i]]
    BY <1>3
  <2> QED BY <2>2, <2>3, IsSequence DEF TriggerEvents
<1>7. ASSUME NEW i \in 1 .. n, NEW j \in 1 .. n,
             list[i].player # Gone, SameNames(list[i], list[j])
      PROVE  i = j
  <2> DEFINE x == order[i]
             y == order[j]
  <2>1. x \in S /\ y \in S
    BY <1>2
  <2>2. list[i] = EventOf(now, gone, x) /\ list[j] = EventOf(now, gone, y)
    BY <1>4
  <2> HIDE DEF x, y
  <2>3. x[1] = y[1] /\ x[2] = y[2]
    <3>1. /\ list[i].player = (IF x[1] \in gone THEN Gone ELSE x[1]) /\ list[i].pickup = x[2]
          /\ list[j].player = (IF y[1] \in gone THEN Gone ELSE y[1]) /\ list[j].pickup = y[2]
      BY <2>2, EventOfIs
    <3> QED BY <1>7, <3>1 DEF SameNames
  <2>4. x = y
    BY <1>5, <2>1, <2>3
  <2> QED BY <1>2, <2>4 DEF x, y
<1> QED BY <1>2, <1>4, <1>6, <1>7 DEF Tells, S, list

(* A frame ends.                                                           *)
LEMMA WhoIsTouched ==
  ASSUME NEW s, NEW now, NEW p, NEW t
  PROVE  Touched(s, now, p, t) <=>
           now[p] = "touching" \/ (now[p] = "far" /\ p \in s.touching[t])
BY DEF Touched

LEMMA LeaveIsRight ==
  ASSUME PickupsInv, NEW s, Updated(s, 1 + surplus), NEW lev,
         NEW now \in [Present -> {"far", "near", "touching"}], NEW killed,
         Leave(s, lev, now, killed)
  PROVE  PickupsInv'
<1> DEFINE stays == Present \ dying
<1>1. /\ pickups' = s.pickups /\ waiting' = s.waiting /\ surplus' = surplus
      /\ atMaximum' = Renamed(s.atMaximum, dying)
      /\ gains' = [i \in DOMAIN s.gains |-> IF s.gains[i] \in dying THEN Gone ELSE s.gains[i]]
      /\ DOMAIN level' = stays /\ place' = [p \in stays |-> now[p]]
      /\ touching' = [t \in s.pickups |-> {p \in stays : Touched(s, now, p, t)}]
      /\ events' = UpdateTriggers(s, now, dying)
  BY DEF Leave, Name
<1>2. /\ s \in Work /\ s.waiting \in Timers /\ s.atMaximum \in Entries /\ s.gains \in Takers
      /\ s.pickups \subseteq Nat \ {Gone} /\ IsFiniteSet(s.pickups)
  BY WorkFields DEF Updated
<1>3. Present \subseteq PickupPlayer /\ Gone \notin PickupPlayer /\ surplus \in Nat
  BY PickupsAssumption DEF PickupsInv, PickupsTyped
<1>4. Tells(events', s, now, dying)
  <2>1. s.pickups \subseteq Nat
    BY <1>2
  <2>2. Tells(UpdateTriggers(s, now, dying), s, now, dying)
    BY <1>2, <2>1, TriggersTell DEF PickupsInv
  <2> QED BY <1>1, <2>2
<1>5. \A t \in s.pickups : s.touching[t] \subseteq Present
  BY DEF Updated, PickupsInv, PickupsTyped
<1>6. ASSUME NEW i \in DOMAIN events', events'[i].player # Gone
      PROVE  \E x \in ToTell(s, now) :
               /\ x[1] \in stays /\ x[2] \in s.pickups
               /\ events'[i].player = x[1] /\ events'[i].pickup = x[2]
               /\ events'[i].is = IF now[x[1]] = "touching" THEN "TriggerTouch" ELSE "TriggerLeave"
  <2>1. PICK x \in ToTell(s, now) : events'[i] = EventOf(now, dying, x)
    BY <1>4 DEF Tells
  <2>2. x[1] \in Present /\ x[2] \in s.pickups
    BY ToTellIs
  <2> QED BY <1>6, <2>1, <2>2, EventOfIs
<1> HIDE DEF stays
<1>7. stays \subseteq Present /\ (\A p \in Present : p \in stays <=> p \notin dying)
  BY DEF stays
<1>8. PickupsTyped'
  <2>1. (DOMAIN level)' = stays /\ (DOMAIN place)' = stays
    BY <1>1
  <2>2. touching' \in [s.pickups -> SUBSET stays]
    BY <1>1
  <2>3. gains' \in Takers
    <3>1. Len(s.gains) \in Nat /\ DOMAIN s.gains = 1 .. Len(s.gains)
          /\ \A i \in DOMAIN s.gains : s.gains[i] \in PickupPlayer \cup {Gone}
      BY <1>2 DEF Takers
    <3>2. gains' = [i \in 1 .. Len(s.gains) |-> gains'[i]]
      BY <1>1, <3>1
    <3>3. \A i \in 1 .. Len(s.gains) : gains'[i] \in PickupPlayer \cup {Gone}
      BY <1>1, <3>1
    <3> QED BY <3>1, <3>2, <3>3, IsSequence DEF Takers
  <2>4. atMaximum' \in Entries
    BY <1>1, <1>2, RenamedIs
  <2>5. events' \in TriggerEvents
    BY <1>4 DEF Tells
  <2> QED BY <1>1, <1>2, <1>3, <1>7, <2>1, <2>2, <2>3, <2>4, <2>5 DEF PickupsTyped, Present
<1>9. PickupsAreConserved'
  BY <1>1 DEF PickupsAreConserved, Updated
<1>10. /\ DOMAIN atMaximum' = DOMAIN s.atMaximum
       /\ \A k \in DOMAIN atMaximum' : Named(atMaximum'[k]) =>
            /\ s.atMaximum[k].player \notin dying
            /\ atMaximum'[k] = s.atMaximum[k]
  BY <1>1, <1>2, RenamedIs
<1>11. ASSUME NEW k \in DOMAIN atMaximum', Named(atMaximum'[k])
       PROVE  /\ atMaximum'[k].pickup \in s.pickups
              /\ atMaximum'[k].player \in stays
              /\ atMaximum'[k].player \in s.touching[atMaximum'[k].pickup]
  <2>1. /\ s.atMaximum[k].pickup \in s.pickups
        /\ s.atMaximum[k].player \in s.touching[s.atMaximum[k].pickup]
    BY <1>10, <1>11 DEF Updated
  <2> QED BY <1>5, <1>7, <1>10, <1>11, <2>1
<1>12. ListIsRight(atMaximum, pickups, 0)'
  <2>1. ListedOnce(atMaximum')
    BY <1>10, StillListedOnce DEF Updated
  <2>2. Len(events') \in Nat /\ DOMAIN events' = 1 .. Len(events')
    BY <1>4, TriggerEventFields DEF Tells
  <2>3. ASSUME NEW k \in DOMAIN atMaximum', Named(atMaximum'[k])
        PROVE  \/ atMaximum'[k].player \in touching'[atMaximum'[k].pickup]
               \/ \E j \in 0 + 1 .. Len(events') :
                    events'[j].is = "TriggerLeave" /\ SameNames(events'[j], atMaximum'[k])
    <3> DEFINE p == atMaximum'[k].player
               t == atMaximum'[k].pickup
    <3>1. t \in s.pickups /\ p \in stays /\ p \in s.touching[t] /\ p \in Present
      BY <1>7, <1>11, <2>3
    <3> HIDE DEF p, t
    <3>2. now[p] \in {"far", "near", "touching"}
      BY <3>1
    <3>3. CASE now[p] # "near"
      <4>1. p \in touching'[t]
        BY <1>1, <3>1, <3>2, <3>3, WhoIsTouched
      <4> QED BY <4>1 DEF p, t
    <3>4. CASE now[p] = "near"
      <4>1. <<p, t>> \in ToTell(s, now)
        BY <3>1, <3>4 DEF ToTell
      <4>2. PICK j \in DOMAIN events' : events'[j] = EventOf(now, dying, <<p, t>>)
        BY <1>4, <4>1 DEF Tells
      <4>3. events'[j].is = "TriggerLeave" /\ events'[j].player = p /\ events'[j].pickup = t
        <5>1. p \notin dying
          BY <1>7, <3>1
        <5> QED BY <3>4, <4>2, <5>1 DEF EventOf, TriggerEvent, Name
      <4>4. j \in 0 + 1 .. Len(events')
        BY <2>2
      <4> QED BY <4>3, <4>4 DEF SameNames, p, t
    <3> QED BY <3>3, <3>4
  <2>4. ASSUME NEW k \in DOMAIN atMaximum', Named(atMaximum'[k]),
               NEW j \in 0 + 1 .. Len(events'), events'[j].is = "TriggerTouch",
               SameNames(events'[j], atMaximum'[k])
        PROVE  FALSE
    <3>1. j \in DOMAIN events' /\ events'[j].player # Gone
      BY <2>2, <2>4 DEF Named, SameNames
    <3>2. PICK x \in ToTell(s, now) :
               /\ events'[j].player = x[1] /\ events'[j].pickup = x[2]
               /\ events'[j].is = IF now[x[1]] = "touching" THEN "TriggerTouch" ELSE "TriggerLeave"
      BY <1>6, <3>1
    <3>3. x[1] \notin s.touching[x[2]]
      BY <2>4, <3>2, ToTellIs
    <3> QED BY <1>11, <2>4, <3>2, <3>3 DEF SameNames
  <2> QED BY <1>1, <1>11, <2>1, <2>3, <2>4 DEF ListIsRight, LeaveComes
<1>13. TouchesAreTrue'
  <2> SUFFICES ASSUME NEW j \in DOMAIN events', events'[j].is = "TriggerTouch",
                      events'[j].player # Gone
               PROVE  /\ events'[j].pickup \in pickups'
                      /\ events'[j].player \in touching'[events'[j].pickup]
                      /\ place'[events'[j].player] # "near"
    BY DEF TouchesAreTrue
  <2>1. PICK x \in ToTell(s, now) :
               /\ x[1] \in stays /\ x[2] \in s.pickups
               /\ events'[j].player = x[1] /\ events'[j].pickup = x[2]
               /\ events'[j].is = IF now[x[1]] = "touching" THEN "TriggerTouch" ELSE "TriggerLeave"
    BY <1>6
  <2>2. now[x[1]] = "touching"
    BY <2>1
  <2>3. x[1] \in touching'[x[2]] /\ place'[x[1]] = "touching"
    BY <1>1, <2>1, <2>2, WhoIsTouched
  <2> QED BY <1>1, <2>1, <2>3
<1>14. ToldOnce'
  BY <1>4 DEF Tells, ToldOnce
<1>15. TheNearAreLetGo'
  <2> SUFFICES ASSUME NEW p \in stays, NEW t \in s.pickups, place'[p] = "near"
               PROVE  p \notin touching'[t]
    BY <1>1 DEF TheNearAreLetGo, Present
  <2>1. now[p] = "near"
    BY <1>1
  <2> QED BY <1>1, <2>1, WhoIsTouched
<1> QED BY <1>8, <1>9, <1>12, <1>13, <1>14, <1>15 DEF PickupsInv

(* The steps.                                                              *)

LEMMA PickupsInvHolds == PickupsInit => PickupsInv
<1> SUFFICES ASSUME PickupsInit
             PROVE  PickupsInv
  OBVIOUS
<1>1. PickupsTyped
  <2>1. waiting \in Timers /\ atMaximum \in Entries /\ events \in TriggerEvents /\ gains \in Takers
    BY DEF PickupsInit, Timers, Entries, TriggerEvents, Takers
  <2>2. pickups \subseteq Nat \ {Gone} /\ IsFiniteSet(pickups)
    <3>1. {1} \subseteq Nat \ {0} /\ IsFiniteSet({1})
      BY FS_Singleton, SMT
    <3> QED BY <3>1 DEF PickupsInit, Gone
  <2>3. Present = {} /\ DOMAIN place = {} /\ touching \in [pickups -> SUBSET Present]
    BY DEF PickupsInit, Present
  <2> QED BY <2>1, <2>2, <2>3 DEF PickupsTyped, PickupsInit
<1>2. PickupsAreConserved
  <2>1. Cardinality(pickups) = 1
    BY FS_Singleton DEF PickupsInit
  <2> QED BY <2>1 DEF PickupsInit, PickupsAreConserved
<1>3. DOMAIN events = {} /\ DOMAIN atMaximum = {} /\ Present = {}
  BY DEF PickupsInit, Present
<1> QED BY <1>1, <1>2, <1>3
     DEF PickupsInv, ListIsRight, ListedOnce, TouchesAreTrue, ToldOnce, TheNearAreLetGo

(* What the pickup system does in a frame.                                 *)
LEMMA NowIsHandled ==
  ASSUME PickupsInv
  PROVE  Handled(Now, 0)
<1>1. Now \in Work
  <2>1. touching \in Touchings /\ <<>> \in Takers /\ pickups \in SUBSET Nat
    BY DEF PickupsInv, PickupsTyped, Touchings, Takers
  <2> QED BY <2>1 DEF Now, Work, PickupsInv, PickupsTyped
<1>2. /\ Now.pickups = pickups /\ Now.touching = touching /\ Now.waiting = waiting
      /\ Now.atMaximum = atMaximum /\ Now.gains = <<>>
  BY DEF Now
<1>3. touching = [t \in pickups |-> touching[t]]
  BY DEF PickupsInv, PickupsTyped
<1>4. NotFromAfar(Now.gains)
  BY <1>2 DEF NotFromAfar
<1> QED BY <1>1, <1>2, <1>3, <1>4 DEF Handled, PickupsInv, PickupsAreConserved

LEMMA FrameIsUpdated ==
  ASSUME PickupsInv, NEW lev, DOMAIN lev = Present
  PROVE  Updated(UpdateListed(UpdateTimers(Handle(Now, lev, events)), lev), 1 + surplus)
<1>1. Updated(UpdateTimers(Handle(Now, lev, events)), 1 + surplus)
  BY NowIsHandled, EventsAreHandled, TimersAreUpdated
<1>2. 1 + surplus \in Int
  BY DEF PickupsInv, PickupsTyped
<1> QED BY <1>1, <1>2, ListIsUpdated

(* A frame, step by step.                                                  *)
LEMMA TickIs ==
  ASSUME Tick
  PROVE  \E lost, killed, lev, s, now :
           /\ lev = [p \in Present |-> Level(p, lost, killed)]
           /\ s = UpdateListed(UpdateTimers(Handle(Now, lev, events)), lev)
           /\ now \in [Present -> {"far", "near", "touching"}]
           /\ Leave(s, lev, now, killed)
<1>1. PICK lost \in SUBSET Present : \E killed \in SUBSET (Present \ lost) :
        \E lev \in {[p \in Present |-> Level(p, lost, killed)]} :
        \E s \in {UpdateListed(UpdateTimers(Handle(Now, lev, events)), lev)} :
        \E now \in [Present -> {"far", "near", "touching"}] :
          Leave(s, lev, now, killed)
  BY Zenon DEF Tick
<1>2. PICK killed \in SUBSET (Present \ lost) :
        \E lev \in {[p \in Present |-> Level(p, lost, killed)]} :
        \E s \in {UpdateListed(UpdateTimers(Handle(Now, lev, events)), lev)} :
        \E now \in [Present -> {"far", "near", "touching"}] :
          Leave(s, lev, now, killed)
  BY <1>1, Zenon
<1>3. PICK lev \in {[p \in Present |-> Level(p, lost, killed)]} :
        \E s \in {UpdateListed(UpdateTimers(Handle(Now, lev, events)), lev)} :
        \E now \in [Present -> {"far", "near", "touching"}] :
          Leave(s, lev, now, killed)
  BY <1>2, Zenon
<1> QED BY <1>3, Zenon

LEMMA FrameKeeps ==
  ASSUME PickupsInv, Tick
  PROVE  PickupsInv' /\ \A i \in DOMAIN gains' : gains'[i] \in Present => place[gains'[i]] # "near"
<1>1. PICK lev, s, now, killed :
        /\ DOMAIN lev = Present
        /\ s = UpdateListed(UpdateTimers(Handle(Now, lev, events)), lev)
        /\ now \in [Present -> {"far", "near", "touching"}]
        /\ Leave(s, lev, now, killed)
  <2>1. PICK lost, killed, lev, s, now :
          /\ lev = [p \in Present |-> Level(p, lost, killed)]
          /\ s = UpdateListed(UpdateTimers(Handle(Now, lev, events)), lev)
          /\ now \in [Present -> {"far", "near", "touching"}]
          /\ Leave(s, lev, now, killed)
    BY TickIs
  <2>2. DOMAIN lev = Present
    BY <2>1
  <2> QED BY <2>1, <2>2, Zenon
<1>2. Updated(s, 1 + surplus)
  BY <1>1, FrameIsUpdated
<1>3. PickupsInv'
  BY <1>1, <1>2, LeaveIsRight
<1>4. gains' = [i \in DOMAIN s.gains |-> IF s.gains[i] \in dying THEN Gone ELSE s.gains[i]]
  BY <1>1 DEF Leave, Name
<1>5. Gone \notin Present
  BY PickupsAssumption DEF PickupsInv, PickupsTyped
<1>6. \A i \in DOMAIN gains' : gains'[i] \in Present => place[gains'[i]] # "near"
  BY <1>2, <1>4, <1>5 DEF Updated, NotFromAfar
<1> QED BY <1>3, <1>6

LEMMA SpawnKeeps ==
  ASSUME PickupsInv, NEW p \in PickupPlayer, SpawnPlayer(p)
  PROVE  PickupsInv'
<1>1. /\ p \notin Present /\ Present' = Present \cup {p}
      /\ place' = [q \in Present \cup {p} |-> IF q = p THEN "far" ELSE place[q]]
      /\ UNCHANGED <<pickups, waiting, atMaximum, touching, events, gains, surplus>>
  BY DEF SpawnPlayer, Present
<1>2. \A q \in Present : place'[q] = place[q]
  BY <1>1
<1>3. PickupsTyped'
  BY <1>1 DEF PickupsInv, PickupsTyped
<1>4. PickupsAreConserved' /\ ListIsRight(atMaximum, pickups, 0)' /\ ToldOnce'
  BY <1>1 DEF PickupsInv, PickupsAreConserved, ListIsRight, LeaveComes, ToldOnce
<1>5. TouchesAreTrue'
  <2>1. \A t \in pickups : touching[t] \subseteq Present
    BY DEF PickupsInv, PickupsTyped
  <2> QED BY <1>1, <1>2, <2>1 DEF PickupsInv, TouchesAreTrue
<1>6. TheNearAreLetGo'
  BY <1>1, <1>2 DEF PickupsInv, TheNearAreLetGo
<1> QED BY <1>3, <1>4, <1>5, <1>6 DEF PickupsInv

LEMMA ResetKeeps ==
  ASSUME PickupsInv, Reset
  PROVE  PickupsInv' /\ \A i \in DOMAIN gains' : gains'[i] = Gone
<1>1. /\ pickups' = {1} /\ touching' = [t \in {1} |-> {}]
      /\ Present' = {} /\ place' = <<>>
      /\ atMaximum' = [i \in DOMAIN atMaximum |-> [player |-> Gone, pickup |-> Gone]]
      /\ events' = [i \in DOMAIN events |-> TriggerEvent(events[i].is, Gone, Gone)]
      /\ gains' = [i \in DOMAIN gains |-> Gone]
      /\ surplus' = Len(waiting) /\ waiting' = waiting
  BY DEF Reset, Present
<1>2. /\ Len(events) \in Nat /\ DOMAIN events = 1 .. Len(events)
      /\ \A j \in DOMAIN events : events[j].is \in {"TriggerTouch", "TriggerLeave"}
  BY TriggerEventFields DEF PickupsInv, PickupsTyped
<1>3. Len(atMaximum) \in Nat /\ DOMAIN atMaximum = 1 .. Len(atMaximum)
  BY EntryFields DEF PickupsInv, PickupsTyped
<1>4. PickupsTyped'
  <2>1. pickups' \subseteq Nat \ {Gone} /\ IsFiniteSet(pickups')
    <3>1. {1} \subseteq Nat \ {0} /\ IsFiniteSet({1})
      BY FS_Singleton, SMT
    <3> QED BY <1>1, <3>1 DEF Gone
  <2>2. waiting \in Timers /\ Len(waiting) \in Nat
    BY DEF PickupsInv, PickupsTyped, Timers
  <2>3. atMaximum' \in Entries
    <3>1. [player |-> Gone, pickup |-> Gone] \in Entry
      BY DEF Entry, Gone
    <3>2. atMaximum' = [i \in 1 .. Len(atMaximum) |-> atMaximum'[i]]
      BY <1>1, <1>3
    <3>3. \A i \in 1 .. Len(atMaximum) : atMaximum'[i] \in Entry
      BY <1>1, <1>3, <3>1
    <3> QED BY <1>3, <3>2, <3>3, IsSequence DEF Entries
  <2>4. events' \in TriggerEvents
    <3>1. \A i \in DOMAIN events : TriggerEvent(events[i].is, Gone, Gone) \in TriggerTold
      BY <1>2 DEF TriggerEvent, TriggerTold, Gone
    <3>2. events' = [i \in 1 .. Len(events) |-> events'[i]]
      BY <1>1, <1>2
    <3>3. \A i \in 1 .. Len(events) : events'[i] \in TriggerTold
      BY <1>1, <1>2, <3>1
    <3> QED BY <1>2, <3>2, <3>3, IsSequence DEF TriggerEvents
  <2>5. gains' \in Takers
    <3>1. Len(gains) \in Nat /\ DOMAIN gains = 1 .. Len(gains)
      BY DEF PickupsInv, PickupsTyped, Takers
    <3>2. gains' = [i \in 1 .. Len(gains) |-> gains'[i]]
      BY <1>1, <3>1
    <3>3. \A i \in 1 .. Len(gains) : gains'[i] \in PickupPlayer \cup {Gone}
      BY <1>1, <3>1
    <3> QED BY <3>1, <3>2, <3>3, IsSequence DEF Takers
  <2>6. DOMAIN place' = {} /\ touching' \in [pickups' -> SUBSET Present']
    BY <1>1
  <2> QED BY <1>1, <2>1, <2>2, <2>3, <2>4, <2>5, <2>6 DEF PickupsTyped
<1>5. PickupsAreConserved'
  <2>1. Cardinality({1}) = 1
    BY FS_Singleton
  <2> QED BY <1>1, <2>1 DEF PickupsAreConserved
<1>6. DOMAIN atMaximum' = DOMAIN atMaximum /\ \A k \in DOMAIN atMaximum' : ~Named(atMaximum'[k])
  BY <1>1 DEF Named
<1>7. DOMAIN events' = DOMAIN events /\ \A j \in DOMAIN events' : events'[j].player = Gone
  BY <1>1 DEF TriggerEvent
<1>8. ListIsRight(atMaximum, pickups, 0)'
  BY <1>6 DEF ListIsRight, ListedOnce
<1>9. TouchesAreTrue' /\ ToldOnce' /\ TheNearAreLetGo'
  BY <1>1, <1>7 DEF TouchesAreTrue, ToldOnce, TheNearAreLetGo
<1> QED BY <1>1, <1>4, <1>5, <1>8, <1>9 DEF PickupsInv

LEMMA PickupsInvStays == PickupsInv /\ [PickupsNext]_pickupVars => PickupsInv'
<1> SUFFICES ASSUME PickupsInv, [PickupsNext]_pickupVars
             PROVE  PickupsInv'
  OBVIOUS
<1>1. CASE Tick
  BY <1>1, FrameKeeps
<1>2. CASE \E p \in PickupPlayer : SpawnPlayer(p)
  BY <1>2, SpawnKeeps
<1>3. CASE Reset
  BY <1>3, ResetKeeps
<1>4. CASE UNCHANGED pickupVars
  BY <1>4 DEF pickupVars, PickupsInv, PickupsTyped, PickupsAreConserved, ListIsRight,
              ListedOnce, LeaveComes, TouchesAreTrue, ToldOnce, TheNearAreLetGo, Present
<1> QED BY <1>1, <1>2, <1>3, <1>4 DEF PickupsNext

(* In every behaviour the map's pickups are there or awaited, each of them *)
(* once: whoever touches, leaves, dies or is listed, none is taken twice   *)
(* in a frame (DoPickup, OnTriggerTouch, the timers of Update), however    *)
(* many players, resets and frames there are.                              *)
THEOREM PickupsAreAlwaysConserved == PickupsSpec => []PickupsAreConserved
<1>1. PickupsInv => PickupsAreConserved
  BY DEF PickupsInv
<1> QED BY <1>1, PickupsInvHolds, PickupsInvStays, PTL DEF PickupsSpec

(* A player who left a pickup within its region of the octree never takes  *)
(* it by having been listed for it: his leaving is told, and handled       *)
(* before the list is looked at (OnTriggerLeave, Update).                  *)
THEOREM NobodyEverTakesFromAfar == PickupsSpec => NobodyTakesFromAfar
<1>1. ASSUME PickupsInv, [PickupsNext]_pickupVars
      PROVE  [\A p \in Present : place[p] = "near" =>
                UNCHANGED gains \/ \A i \in DOMAIN gains' : gains'[i] # p]_pickupVars
  <2>1. CASE Tick
    BY <1>1, <2>1, FrameKeeps
  <2>2. CASE \E p \in PickupPlayer : SpawnPlayer(p)
    BY <2>2 DEF SpawnPlayer
  <2>3. CASE Reset
    <3>1. \A i \in DOMAIN gains' : gains'[i] = Gone
      BY <1>1, <2>3, ResetKeeps
    <3>2. Gone \notin Present
      BY <1>1, PickupsAssumption DEF PickupsInv, PickupsTyped
    <3> QED BY <3>1, <3>2
  <2> QED BY <1>1, <2>1, <2>2, <2>3 DEF PickupsNext
<1>2. PickupsSpec => []PickupsInv
  BY PickupsInvHolds, PickupsInvStays, PTL DEF PickupsSpec
<1> QED BY <1>1, <1>2, PTL DEF PickupsSpec, NobodyTakesFromAfar

(* Those in need are served.                                               *)

(* An entry, or an event, is of a player and a pickup.                     *)
IsOf(e, p, t) == e.player = p /\ e.pickup = t

(* A player's touch is yet to be handled, after n events.                  *)
TouchComes(n, p, t) ==
  \E j \in n + 1 .. Len(events) : events[j].is = "TriggerTouch" /\ IsOf(events[j], p, t)

(* A player is listed for a pickup, among the first m.                     *)
ListedWithin(list, p, t, m) == \E i \in DOMAIN list : i <= m /\ IsOf(list[i], p, t)

Listed(list, p, t) == \E i \in DOMAIN list : IsOf(list[i], p, t)

(* Whoever was seen to leave a pickup is not taken to touch it.            *)
LeavesAreTrue ==
  \A j \in DOMAIN events :
    events[j].is = "TriggerLeave" /\ events[j].player # Gone /\ events[j].pickup \in pickups =>
      events[j].player \notin touching[events[j].pickup]

(* Whoever touches a pickup has just come, or is listed, and the nearer to *)
(* its head the longer he is in need: each frame takes one off before him. *)
TheTouchingWait ==
  \A t \in pickups : \A p \in touching[t] :
    \/ TouchComes(0, p, t) /\ wanted[t][p] <= 1
    \/ ListedWithin(atMaximum, p, t, MaxListed - wanted[t][p])

TheOthersDoNot ==
  \A t \in pickups : \A p \in PickupPlayer \ touching[t] : wanted[t][p] = 0

Serving ==
  /\ level \in [Present -> Nat]
  /\ wanted \in [pickups -> [PickupPlayer -> Nat]]
  /\ LeavesAreTrue /\ TheTouchingWait /\ TheOthersDoNot

(* A player of a list is in another one, and not further behind.           *)
NotLater(list, r, p, t) ==
  \A i \in DOMAIN list : IsOf(list[i], p, t) =>
    \E j \in DOMAIN r : j <= i /\ IsOf(r[j], p, t)

(* Whoever is listed for a pickup is so when another is taken.             *)
LEMMA ForgettingKeeps ==
  ASSUME NEW list \in Entries, NEW u, NEW p, NEW t, u # t
  PROVE  NotLater(list, Forget(list, u), p, t)
<1>1. \A k \in DOMAIN list : list[k].pickup # u => Forget(list, u)[k] = list[k]
  BY DEF Forget
<1>2. DOMAIN Forget(list, u) = DOMAIN list
  BY DEF Forget
<1>3. \A k \in DOMAIN list : k <= k
  BY EntryFields
<1> QED BY <1>1, <1>2, <1>3 DEF NotLater, IsOf

(* He is when others are deleted.                                          *)
LEMMA RenamingKeeps ==
  ASSUME NEW list \in Entries, NEW gone, NEW p, NEW t, p \notin gone
  PROVE  NotLater(list, Renamed(list, gone), p, t)
<1>1. \A k \in DOMAIN list : list[k].player \notin gone => Renamed(list, gone)[k] = list[k]
  BY DEF Renamed
<1>2. DOMAIN Renamed(list, gone) = DOMAIN list
  BY DEF Renamed
<1>3. \A k \in DOMAIN list : k <= k
  BY EntryFields
<1> QED BY <1>1, <1>2, <1>3 DEF NotLater, IsOf

(* He is when someone is put on the list.                                  *)
LEMMA AppendingKeeps ==
  ASSUME NEW list \in Entries, NEW e \in Entry, NEW p, NEW t
  PROVE  /\ NotLater(list, Append(list, e), p, t)
         /\ IsOf(e, p, t) => Listed(Append(list, e), p, t)
<1> DEFINE r == Append(list, e)
<1>1. Len(list) \in Nat /\ DOMAIN list = 1 .. Len(list)
  BY EntryFields
<1>2. /\ DOMAIN r = 1 .. Len(list) + 1
      /\ r[Len(list) + 1] = e
      /\ \A k \in 1 .. Len(list) : r[k] = list[k]
  BY <1>1 DEF Entries
<1> HIDE DEF r
<1>3. NotLater(list, r, p, t)
  <2>1. \A k \in DOMAIN list : k \in DOMAIN r /\ k <= k /\ r[k] = list[k]
    BY <1>1, <1>2
  <2> QED BY <2>1 DEF NotLater
<1>4. Len(list) + 1 \in DOMAIN r
  BY <1>1, <1>2
<1> QED BY <1>2, <1>3, <1>4 DEF Listed, r

(* He is when someone else is taken off, and then further to the front if  *)
(* the other was before him.                                               *)
LEMMA RemovingKeeps ==
  ASSUME NEW list \in Entries, NEW i \in DOMAIN list, NEW p, NEW t, ~IsOf(list[i], p, t)
  PROVE  \A k \in DOMAIN list : IsOf(list[k], p, t) =>
           \E j \in DOMAIN Without(list, i) :
             j <= k /\ (i < k => j <= k - 1) /\ IsOf(Without(list, i)[j], p, t)
<1> DEFINE r == Without(list, i)
<1>1. Len(list) \in Nat /\ DOMAIN list = 1 .. Len(list)
  BY EntryFields
<1>2. /\ r \in Entries /\ Len(r) = Len(list) - 1
      /\ \A k \in 1 .. Len(list) - 1 : r[k] = IF k < i THEN list[k] ELSE list[k + 1]
  BY <1>1, WithoutIs DEF Entries
<1>3. DOMAIN r = 1 .. Len(list) - 1
  BY <1>2, EntryFields
<1> HIDE DEF r
<1>4. ASSUME NEW k \in DOMAIN list, IsOf(list[k], p, t)
      PROVE  \E j \in DOMAIN r : j <= k /\ (i < k => j <= k - 1) /\ IsOf(r[j], p, t)
  <2>1. k # i
    BY <1>4
  <2>2. CASE k < i
    <3>1. k \in DOMAIN r /\ k <= k /\ ~(i < k) /\ r[k] = list[k]
      BY <1>1, <1>2, <1>3, <2>2
    <3> QED BY <1>4, <3>1
  <2>3. CASE i < k
    <3>1. /\ k - 1 \in DOMAIN r /\ k - 1 <= k /\ ~(k - 1 < i) /\ (k - 1) + 1 = k
          /\ k - 1 <= k - 1 /\ k - 1 \in 1 .. Len(list) - 1
      BY <1>1, <1>3, <2>3
    <3>2. r[k - 1] = list[k]
      BY <1>2, <3>1
    <3> QED BY <1>4, <3>1, <3>2
  <2> QED BY <1>1, <2>1, <2>2, <2>3
<1> QED BY <1>4 DEF r

LEMMA RemovingIsNotLater ==
  ASSUME NEW list \in Entries, NEW i \in DOMAIN list, NEW p, NEW t, ~IsOf(list[i], p, t)
  PROVE  NotLater(list, Without(list, i), p, t)
BY RemovingKeeps DEF NotLater

(* What a list not later has kept.                                         *)
LEMMA NotLaterKeeps ==
  ASSUME NEW list \in Entries, NEW r \in Entries, NEW p, NEW t, NEW m \in Int,
         NotLater(list, r, p, t)
  PROVE  /\ ListedWithin(list, p, t, m) => ListedWithin(r, p, t, m)
         /\ Listed(list, p, t) => Listed(r, p, t)
<1>1. /\ \A i \in DOMAIN list : i \in Int
      /\ \A j \in DOMAIN r : j \in Int
  BY EntryFields
<1>2. \A i \in DOMAIN list : \A j \in DOMAIN r : j <= i /\ i <= m => j <= m
  BY <1>1
<1> QED BY <1>2 DEF NotLater, ListedWithin, Listed

(* After n events of a frame: if the pickup is there, the player's touch   *)
(* comes, or he is listed, among the first m or as one who has the maximum.*)
StillWaits(w, n, lev, p, t, m) ==
  t \in w.pickups =>
    \/ TouchComes(n, p, t)
    \/ ListedWithin(w.atMaximum, p, t, m)
    \/ HasMaximum(lev, p) /\ Listed(w.atMaximum, p, t)

LEMMA TouchIsNext ==
  ASSUME NEW n \in Nat, NEW p, NEW t, events \in TriggerEvents, TouchComes(n, p, t),
         ~(events[n + 1].is = "TriggerTouch" /\ IsOf(events[n + 1], p, t))
  PROVE  TouchComes(n + 1, p, t)
<1>1. Len(events) \in Nat /\ DOMAIN events = 1 .. Len(events)
  BY TriggerEventFields
<1>2. PICK j \in n + 1 .. Len(events) : events[j].is = "TriggerTouch" /\ IsOf(events[j], p, t)
  BY DEF TouchComes
<1>3. j \in (n + 1) + 1 .. Len(events)
  BY <1>1, <1>2
<1> QED BY <1>2, <1>3 DEF TouchComes

(* An event that is not of this player and pickup.                         *)
LEMMA WaitsOn ==
  ASSUME NEW n \in Nat, NEW lev, NEW p, NEW t, NEW m \in Int, events \in TriggerEvents,
         NEW s, s.atMaximum \in Entries, StillWaits(s, n, lev, p, t, m),
         NEW r, r.atMaximum \in Entries, t \in r.pickups => t \in s.pickups,
         t \in r.pickups => NotLater(s.atMaximum, r.atMaximum, p, t),
         ~(events[n + 1].is = "TriggerTouch" /\ IsOf(events[n + 1], p, t))
  PROVE  StillWaits(r, n + 1, lev, p, t, m)
<1> SUFFICES ASSUME t \in r.pickups
             PROVE  \/ TouchComes(n + 1, p, t)
                    \/ ListedWithin(r.atMaximum, p, t, m)
                    \/ HasMaximum(lev, p) /\ Listed(r.atMaximum, p, t)
  BY DEF StillWaits
<1>1. CASE TouchComes(n, p, t)
  BY <1>1, TouchIsNext
<1>2. /\ ListedWithin(s.atMaximum, p, t, m) => ListedWithin(r.atMaximum, p, t, m)
      /\ Listed(s.atMaximum, p, t) => Listed(r.atMaximum, p, t)
  BY NotLaterKeeps
<1> QED BY <1>1, <1>2 DEF StillWaits

(* A touch.                                                                *)
LEMMA TouchServes ==
  ASSUME PickupsInv, NEW s, NEW n \in Nat, n + 1 \in DOMAIN events, Handled(s, n),
         NEW lev, DOMAIN lev = Present, events[n + 1].is = "TriggerTouch",
         NEW p \in Present, NEW t \in pickups, NEW m \in Int, StillWaits(s, n, lev, p, t, m)
  PROVE  StillWaits(OnTriggerTouch(s, lev, events[n + 1]), n + 1, lev, p, t, m)
<1> DEFINE e == events[n + 1]
           x == [player |-> e.player, pickup |-> e.pickup]
<1>1. /\ e.player \in PickupPlayer \cup {Gone} /\ e.pickup \in Nat
      /\ events \in TriggerEvents /\ p # Gone
  BY TriggerEventFields, PickupsAssumption DEF PickupsInv, PickupsTyped
<1>2. s \in Work /\ s.atMaximum \in Entries /\ DOMAIN s.touching = s.pickups
  BY WorkFields DEF Handled
<1> HIDE DEF e
<1>3. ASSUME e.pickup \notin s.pickups \/ (kind = "ammo" /\ e.player = Gone)
      PROVE  StillWaits(s, n + 1, lev, p, t, m)
  <2>1. CASE IsOf(e, p, t)
    BY <1>1, <1>3, <2>1 DEF IsOf, StillWaits
  <2>2. CASE ~IsOf(e, p, t)
    <3>1. NotLater(s.atMaximum, s.atMaximum, p, t)
      <4>1. \A k \in DOMAIN s.atMaximum : k <= k
        BY <1>2, EntryFields
      <4> QED BY <4>1 DEF NotLater
    <3> QED BY <1>1, <1>2, <2>2, <3>1, WaitsOn DEF e
  <2> QED BY <2>1, <2>2
<1>4. ASSUME HasMaximum(lev, e.player)
      PROVE  StillWaits([s EXCEPT !.atMaximum = Append(s.atMaximum, x)], n + 1, lev, p, t, m)
  <2> DEFINE r == [s EXCEPT !.atMaximum = Append(s.atMaximum, x)]
  <2>1. x \in Entry /\ x.player = e.player /\ x.pickup = e.pickup
    BY <1>1 DEF Entry
  <2> HIDE DEF x
  <2>2. Append(s.atMaximum, x) \in Entries
    BY <1>2, <2>1, AppendEntry
  <2>3. r.atMaximum = Append(s.atMaximum, x) /\ r.pickups = s.pickups
    BY <1>2 DEF Work
  <2> HIDE DEF r
  <2>4. CASE IsOf(e, p, t)
    <3>1. IsOf(x, p, t)
      BY <2>1, <2>4 DEF IsOf
    <3>2. Listed(r.atMaximum, p, t)
      BY <1>2, <2>1, <2>3, <3>1, AppendingKeeps
    <3> QED BY <1>4, <2>4, <3>2 DEF StillWaits, IsOf, r
  <2>5. CASE ~IsOf(e, p, t)
    <3>1. NotLater(s.atMaximum, r.atMaximum, p, t)
      BY <1>2, <2>1, <2>3, AppendingKeeps
    <3>2. StillWaits(r, n + 1, lev, p, t, m)
      BY <1>1, <1>2, <2>2, <2>3, <2>5, <3>1, WaitsOn DEF e
    <3> QED BY <3>2 DEF r
  <2> QED BY <2>4, <2>5
<1>5. ASSUME e.pickup \in s.pickups
      PROVE  StillWaits(TakePickup(s, e.player, e.pickup), n + 1, lev, p, t, m)
  <2> DEFINE r == TakePickup(s, e.player, e.pickup)
  <2>1. IsTaken(r, s, e.player, e.pickup)
    BY <1>1, <1>2, <1>5, TakenIs DEF CanTake
  <2> HIDE DEF r
  <2>2. /\ r.atMaximum \in Entries /\ r.pickups = s.pickups \ {e.pickup}
        /\ r.atMaximum = Forget(s.atMaximum, e.pickup)
    BY <2>1, WorkFields DEF IsTaken
  <2>3. CASE e.pickup = t
    BY <2>2, <2>3 DEF StillWaits, r
  <2>4. CASE e.pickup # t
    <3>1. NotLater(s.atMaximum, r.atMaximum, p, t)
      BY <1>2, <2>2, <2>4, ForgettingKeeps
    <3>2. StillWaits(r, n + 1, lev, p, t, m)
      BY <1>1, <1>2, <2>2, <2>4, <3>1, WaitsOn DEF e, IsOf
    <3> QED BY <3>2 DEF r
  <2> QED BY <2>3, <2>4
<1> HIDE DEF x
<1>6. OnTriggerTouch(s, lev, e) =
        IF e.pickup \notin s.pickups \/ (kind = "ammo" /\ e.player = Gone) THEN s
        ELSE IF HasMaximum(lev, e.player) THEN [s EXCEPT !.atMaximum = Append(s.atMaximum, x)]
        ELSE TakePickup(s, e.player, e.pickup)
  BY DEF OnTriggerTouch, x
<1> QED BY <1>3, <1>4, <1>5, <1>6 DEF e

(* A leave, of another player or pickup.                                   *)
LEMMA LeaveServes ==
  ASSUME PickupsInv, NEW s, NEW n \in Nat, n + 1 \in DOMAIN events, Handled(s, n),
         NEW lev, events[n + 1].is = "TriggerLeave",
         NEW p, NEW t, NEW m \in Int, StillWaits(s, n, lev, p, t, m),
         ~IsOf(events[n + 1], p, t)
  PROVE  StillWaits(OnTriggerLeave(s, events[n + 1]), n + 1, lev, p, t, m)
<1> DEFINE e == events[n + 1]
           listed == {i \in DOMAIN s.atMaximum :
                        s.atMaximum[i].player = e.player /\ s.atMaximum[i].pickup = e.pickup}
<1>1. events \in TriggerEvents /\ e.is # "TriggerTouch"
  BY DEF PickupsInv, PickupsTyped
<1>2. s \in Work /\ s.atMaximum \in Entries
  BY WorkFields DEF Handled
<1>3. StillWaits(s, n + 1, lev, p, t, m)
  <2>1. NotLater(s.atMaximum, s.atMaximum, p, t)
    <3>1. \A k \in DOMAIN s.atMaximum : k <= k
      BY <1>2, EntryFields
    <3> QED BY <3>1 DEF NotLater
  <2> QED BY <1>1, <1>2, <2>1, WaitsOn
<1>4. ASSUME listed # {}
      PROVE  StillWaits([s EXCEPT !.atMaximum = Without(s.atMaximum, First(listed))], n + 1, lev, p, t, m)
  <2> DEFINE r == [s EXCEPT !.atMaximum = Without(s.atMaximum, First(listed))]
  <2>1. listed \in SUBSET Nat
    BY <1>2, EntryFields
  <2>2. First(listed) \in listed
    <3> HIDE DEF listed
    <3> QED BY <1>4, <2>1, FirstIs
  <2>3. First(listed) \in DOMAIN s.atMaximum /\ ~IsOf(s.atMaximum[First(listed)], p, t)
    BY <2>2 DEF IsOf
  <2> HIDE DEF listed
  <2>4. NotLater(s.atMaximum, Without(s.atMaximum, First(listed)), p, t)
    BY <1>2, <2>3, RemovingIsNotLater
  <2>5. Without(s.atMaximum, First(listed)) \in Entries
    BY <1>2, <2>3, WithoutOnce DEF Handled, ListIsRight
  <2>6. r.atMaximum = Without(s.atMaximum, First(listed)) /\ r.pickups = s.pickups
    BY <1>2 DEF Work
  <2> HIDE DEF r
  <2>7. StillWaits(r, n + 1, lev, p, t, m)
    BY <1>1, <1>2, <2>4, <2>5, <2>6, WaitsOn
  <2> QED BY <2>7 DEF r
<1>5. OnTriggerLeave(s, e) =
        IF e.pickup \notin s.pickups \/ listed = {} THEN s
        ELSE [s EXCEPT !.atMaximum = Without(s.atMaximum, First(listed))]
  BY DEF OnTriggerLeave
<1> HIDE DEF listed
<1> QED BY <1>3, <1>4, <1>5

(* The events of the last frame: who touches a pickup that is there after  *)
(* them is listed for it.                                                  *)
LEMMA EventsServe ==
  ASSUME PickupsInv, LeavesAreTrue, NEW s, Handled(s, 0), NEW lev, DOMAIN lev = Present,
         NEW p \in Present, NEW t \in pickups, p \in touching[t], NEW m \in Int,
         StillWaits(s, 0, lev, p, t, m)
  PROVE  StillWaits(Handle(s, lev, events), Len(events), lev, p, t, m)
<1>1. /\ events \in TriggerEvents /\ p # Gone
      /\ Len(events) \in Nat /\ DOMAIN events = 1 .. Len(events)
      /\ \A i \in DOMAIN events : events[i].is \in {"TriggerTouch", "TriggerLeave"}
  BY TriggerEventFields, PickupsAssumption DEF PickupsInv, PickupsTyped
<1>2. PICK g : /\ g[0] = s /\ g[Len(events)] = Handle(s, lev, events)
               /\ \A i \in 0 .. Len(events) : Handled(g[i], i)
               /\ \A i \in 1 .. Len(events) : g[i] = HandleEvent(g[i - 1], lev, events[i])
  BY EventsAreHandledInTurn
<1> DEFINE T == [i \in 0 .. Len(events) |-> {w \in Work : StillWaits(w, i, lev, p, t, m)}]
<1>3. \A i \in 0 .. Len(events) : g[i] \in T[i] <=> StillWaits(g[i], i, lev, p, t, m)
  BY <1>2 DEF Handled
<1> HIDE DEF T
<1>4. ASSUME NEW i \in 1 .. Len(events), g[i - 1] \in T[i - 1]
      PROVE  g[i] \in T[i]
  <2>1. /\ i - 1 \in Nat /\ i - 1 \in 0 .. Len(events) /\ i \in 0 .. Len(events)
        /\ (i - 1) + 1 = i /\ i \in DOMAIN events
    BY <1>1
  <2>2. Handled(g[i - 1], i - 1) /\ StillWaits(g[i - 1], i - 1, lev, p, t, m)
    BY <1>2, <1>3, <1>4, <2>1
  <2>3. CASE events[i].is = "TriggerTouch"
    <3>1. StillWaits(OnTriggerTouch(g[i - 1], lev, events[(i - 1) + 1]), (i - 1) + 1, lev, p, t, m)
      BY <2>1, <2>2, <2>3, TouchServes
    <3> QED BY <1>2, <1>3, <2>1, <2>3, <3>1 DEF HandleEvent
  <2>4. CASE events[i].is = "TriggerLeave"
    <3>1. ~IsOf(events[i], p, t)
      BY <1>1, <2>1, <2>4 DEF LeavesAreTrue, IsOf
    <3>2. StillWaits(OnTriggerLeave(g[i - 1], events[(i - 1) + 1]), (i - 1) + 1, lev, p, t, m)
      BY <2>1, <2>2, <2>4, <3>1, LeaveServes
    <3> QED BY <1>2, <1>3, <2>1, <2>4, <3>2 DEF HandleEvent
  <2> QED BY <1>1, <2>1, <2>3, <2>4
<1>5. g[0] \in T[0]
  BY <1>1, <1>2, <1>3
<1>6. \A i \in 0 .. Len(events) : g[i] \in T[i]
  BY <1>1, <1>4, <1>5, StaysIn
<1>7. Len(events) \in 0 .. Len(events)
  BY <1>1
<1> QED BY <1>2, <1>3, <1>6, <1>7

(* The timers leave the list alone, and what they make is new.             *)
LEMMA TimersServe ==
  ASSUME PickupsInv, NEW s, Handled(s, Len(events))
  PROVE  /\ UpdateTimers(s).atMaximum = s.atMaximum
         /\ \A t \in pickups : t \in UpdateTimers(s).pickups => t \in s.pickups
<1> DEFINE n == Len(s.waiting)
           T == [i \in 0 .. n |-> {w \in Work : /\ w.atMaximum = s.atMaximum
                                               /\ w.pickups \cap pickups \subseteq s.pickups}]
<1>1. n \in Nat /\ s \in Work /\ s.waiting \in Timers /\ \A i \in 1 .. n : s.waiting[i] - 1 \in Int
  BY WorkFields DEF Handled, Timers
<1>2. PICK g :
        /\ g[0] = [s EXCEPT !.waiting = <<>>] /\ g[n] = UpdateTimers(s)
        /\ \A i \in 0 .. n : Updated(g[i], Cardinality(s.pickups) + i)
        /\ \A i \in 1 .. n : g[i] = UpdateTimer(g[i - 1], s.waiting[i] - 1)
  BY TimersAreUpdatedInTurn
<1> HIDE DEF n
<1>3. g[0] \in T[0]
  <2>1. 0 \in 0 .. n
    BY <1>1
  <2>2. g[0] \in Work
    BY <1>2, <2>1 DEF Updated
  <2>3. g[0].atMaximum = s.atMaximum /\ g[0].pickups = s.pickups
    BY <1>1, <1>2 DEF Work
  <2> QED BY <2>1, <2>2, <2>3
<1>4. ASSUME NEW i \in 1 .. n, g[i - 1] \in T[i - 1]
      PROVE  g[i] \in T[i]
  <2> DEFINE w == g[i - 1]
             u == NewPickup(w)
  <2>1. i - 1 \in 0 .. n /\ i \in 0 .. n
    BY <1>1
  <2>2. /\ w \in Work /\ w.atMaximum = s.atMaximum
        /\ w.pickups \cap pickups \subseteq s.pickups
    BY <1>4, <2>1
  <2>3. u \notin pickups
    BY <1>2, <2>1, NewPickupIsNew DEF Updated, PickupsInv, PickupsTyped
  <2>4. g[i] = UpdateTimer(w, s.waiting[i] - 1) /\ g[i] \in Work
    BY <1>2, <2>1 DEF Updated
  <2> HIDE DEF w
  <2>5. /\ SpawnPickup(w).atMaximum = w.atMaximum
        /\ SpawnPickup(w).pickups = w.pickups \cup {u}
    BY <2>2 DEF SpawnPickup, Work
  <2>6. \A left : /\ [w EXCEPT !.waiting = Append(w.waiting, left)].atMaximum = w.atMaximum
                  /\ [w EXCEPT !.waiting = Append(w.waiting, left)].pickups = w.pickups
    BY <2>2 DEF Work
  <2> HIDE DEF u
  <2>7. g[i].atMaximum = s.atMaximum /\ g[i].pickups \cap pickups \subseteq s.pickups
    BY <2>2, <2>3, <2>4, <2>5, <2>6 DEF UpdateTimer
  <2> QED BY <2>1, <2>4, <2>7
<1>5. \A i \in 0 .. n : g[i] \in T[i]
  <2> HIDE DEF T
  <2> QED BY <1>1, <1>3, <1>4, StaysIn
<1>6. g[n] \in T[n] /\ n \in 0 .. n
  BY <1>1, <1>5
<1> QED BY <1>2, <1>6

LEMMA FirstIsLeast ==
  ASSUME NEW I \in SUBSET Nat, NEW k \in I
  PROVE  First(I) \in I /\ First(I) <= k
<1>1. PICK n \in I : \A j \in I : ~(j < n)
  BY LeastExists
<1>2. \A j \in I : n <= j
  BY <1>1
<1> QED BY <1>2 DEF First

(* The list: whoever is listed for a pickup that is there after it is      *)
(* listed then, and one place further to the front at least if he needs it.*)
LEMMA ListServes ==
  ASSUME PickupsInv, NEW s, NEW count, Updated(s, count), NEW lev, DOMAIN lev = Present,
         NEW p \in Present, NEW t \in UpdateListed(s, lev).pickups
  PROVE  /\ t \in s.pickups
         /\ Listed(s.atMaximum, p, t) => Listed(UpdateListed(s, lev).atMaximum, p, t)
         /\ \A m \in Int : ~HasMaximum(lev, p) /\ ListedWithin(s.atMaximum, p, t, m) =>
              ListedWithin(UpdateListed(s, lev).atMaximum, p, t, m - 1)
<1> DEFINE chosen == {i \in DOMAIN s.atMaximum :
                   s.atMaximum[i].player = Gone \/ ~HasMaximum(lev, s.atMaximum[i].player)}
           at == First(chosen)
           x == s.atMaximum[at]
           taken == IF x.player = Gone THEN s ELSE TakePickup(s, x.player, x.pickup)
           list == Without(taken.atMaximum, at)
           r == [taken EXCEPT !.atMaximum = list]
<1>1. s \in Work /\ s.atMaximum \in Entries /\ DOMAIN s.touching = s.pickups
  BY WorkFields DEF Updated
<1>2. p # Gone
  BY PickupsAssumption DEF PickupsInv, PickupsTyped
<1>3. \A i \in DOMAIN s.atMaximum : ~HasMaximum(lev, p) /\ IsOf(s.atMaximum[i], p, t) => i \in chosen
  BY DEF IsOf
<1>4. CASE chosen = {}
  <2>1. UpdateListed(s, lev) = s
    BY <1>4 DEF UpdateListed
  <2> QED BY <1>3, <1>4, <2>1 DEF ListedWithin
<1>5. CASE chosen # {}
  <2>1. UpdateListed(s, lev) = r
    BY <1>5 DEF UpdateListed
  <2>2. at \in chosen /\ \A k \in chosen : at <= k
    <3>1. chosen \in SUBSET Nat
      BY <1>1, EntryFields
    <3> HIDE DEF chosen
    <3> QED BY <1>5, <3>1, FirstIsLeast
  <2>3. at \in DOMAIN s.atMaximum /\ (x.player = Gone \/ ~HasMaximum(lev, x.player))
    BY <2>2
  <2>4. x.player \in PickupPlayer \cup {Gone} /\ x.pickup \in Nat
    BY <1>1, <2>3, EntryFields DEF Entry
  <2> DEFINE takes == x.player # Gone /\ x.pickup \in s.pickups
  <2> HIDE DEF chosen, at, x
  <2>5. /\ taken \in Work
        /\ taken.pickups = IF takes THEN s.pickups \ {x.pickup} ELSE s.pickups
        /\ taken.atMaximum = IF takes THEN Forget(s.atMaximum, x.pickup) ELSE s.atMaximum
    <3>1. CASE takes
      <4>1. IsTaken(TakePickup(s, x.player, x.pickup), s, x.player, x.pickup)
        BY <1>1, <2>4, <3>1, TakenIs DEF CanTake
      <4>2. taken = TakePickup(s, x.player, x.pickup)
        BY <3>1
      <4> HIDE DEF taken
      <4> QED BY <3>1, <4>1, <4>2 DEF IsTaken
    <3>2. CASE ~takes
      BY <1>1, <3>2 DEF TakePickup
    <3> QED BY <3>1, <3>2
  <2> HIDE DEF taken, list
  <2>6. r.pickups = taken.pickups /\ r.atMaximum = list
    BY <2>5 DEF Work
  <2> HIDE DEF r
  <2>7. t \in s.pickups /\ t # Gone /\ (takes => x.pickup # t)
    BY <2>1, <2>5, <2>6 DEF Updated
  <2>8. ~IsOf(x, p, t)
    BY <1>2, <2>7 DEF IsOf
  <2>9. /\ taken.atMaximum \in Entries /\ DOMAIN taken.atMaximum = DOMAIN s.atMaximum
        /\ ~IsOf(taken.atMaximum[at], p, t)
        /\ \A k \in DOMAIN s.atMaximum :
             IsOf(s.atMaximum[k], p, t) => IsOf(taken.atMaximum[k], p, t)
    <3>1. CASE takes
      <4>1. /\ Forget(s.atMaximum, x.pickup) \in Entries
            /\ DOMAIN Forget(s.atMaximum, x.pickup) = DOMAIN s.atMaximum
            /\ \A k \in DOMAIN s.atMaximum : Named(Forget(s.atMaximum, x.pickup)[k]) =>
                 Forget(s.atMaximum, x.pickup)[k] = s.atMaximum[k]
        BY <1>1, <2>4, ForgetIs
      <4>2. \A k \in DOMAIN s.atMaximum : s.atMaximum[k].pickup # x.pickup =>
              Forget(s.atMaximum, x.pickup)[k] = s.atMaximum[k]
        BY DEF Forget
      <4>3. ~IsOf(Forget(s.atMaximum, x.pickup)[at], p, t)
        <5> SUFFICES ASSUME IsOf(Forget(s.atMaximum, x.pickup)[at], p, t)
                     PROVE  FALSE
          OBVIOUS
        <5>1. Named(Forget(s.atMaximum, x.pickup)[at])
          BY <1>2, <2>7 DEF Named, IsOf
        <5>2. Forget(s.atMaximum, x.pickup)[at] = x
          BY <2>3, <4>1, <5>1 DEF x
        <5> QED BY <2>8, <5>2
      <4>4. \A k \in DOMAIN s.atMaximum : IsOf(s.atMaximum[k], p, t) =>
              IsOf(Forget(s.atMaximum, x.pickup)[k], p, t)
        BY <2>7, <3>1, <4>2 DEF IsOf
      <4> QED BY <2>5, <3>1, <4>1, <4>3, <4>4
    <3>2. CASE ~takes
      BY <1>1, <2>5, <2>8, <3>2 DEF x
    <3> QED BY <3>1, <3>2
  <2>10. \A k \in DOMAIN s.atMaximum : IsOf(s.atMaximum[k], p, t) =>
           \E j \in DOMAIN list : j <= k /\ (at < k => j <= k - 1) /\ IsOf(list[j], p, t)
    BY <2>3, <2>9, RemovingKeeps DEF list
  <2>11. Listed(s.atMaximum, p, t) => Listed(list, p, t)
    BY <2>10 DEF Listed
  <2>12. ASSUME NEW m \in Int, ~HasMaximum(lev, p), ListedWithin(s.atMaximum, p, t, m)
         PROVE  ListedWithin(list, p, t, m - 1)
    <3>1. PICK k \in DOMAIN s.atMaximum : k <= m /\ IsOf(s.atMaximum[k], p, t)
      BY <2>12 DEF ListedWithin
    <3>2. at <= k /\ at # k /\ at \in Int /\ k \in Int
      <4>1. at \in Int /\ k \in Int
        BY <1>1, <2>3, EntryFields
      <4> QED BY <1>3, <2>2, <2>8, <2>12, <3>1, <4>1 DEF x
    <3>3. at < k
      BY <3>2
    <3>4. PICK j \in DOMAIN list : j <= k - 1 /\ IsOf(list[j], p, t)
      BY <2>10, <3>1, <3>3
    <3>5. j \in Int
      <4>1. list \in Entries
        BY <2>3, <2>9, WithoutOnce, WithoutIs, EntryFields DEF list, Entries
      <4> QED BY <4>1, EntryFields
    <3>6. j <= m - 1
      BY <3>1, <3>2, <3>4, <3>5
    <3> QED BY <3>4, <3>6 DEF ListedWithin
  <2> QED BY <2>1, <2>6, <2>7, <2>11, <2>12
<1> QED BY <1>4, <1>5

(* What a frame leaves of those who touched a pickup that is still there.  *)
LEMMA FrameServes ==
  ASSUME PickupsInv, Serving, NEW lev, DOMAIN lev = Present,
         NEW s, s = UpdateListed(UpdateTimers(Handle(Now, lev, events)), lev),
         NEW p \in Present, NEW t \in s.pickups, p \in s.touching[t]
  PROVE  /\ t \in pickups /\ p \in touching[t] /\ Listed(s.atMaximum, p, t)
         /\ ~HasMaximum(lev, p) =>
              ListedWithin(s.atMaximum, p, t, (MaxListed - wanted[t][p]) - 1)
<1> DEFINE h == Handle(Now, lev, events)
           u == UpdateTimers(h)
           m == MaxListed - wanted[t][p]
<1>1. t \in pickups /\ p \in touching[t]
  <2>1. Updated(s, 1 + surplus)
    BY FrameIsUpdated
  <2>2. s.touching[t] = IF t \in pickups THEN touching[t] ELSE {}
    BY <2>1 DEF Updated
  <2> QED BY <2>2
<1>2. m \in Int /\ p \in PickupPlayer
  BY <1>1, PickupsAssumption DEF Serving, PickupsInv, PickupsTyped
<1>3. Handled(Now, 0) /\ Handled(h, Len(events)) /\ Updated(u, 1 + surplus)
  BY NowIsHandled, EventsAreHandled, TimersAreUpdated
<1> HIDE DEF m
<1>4. StillWaits(h, Len(events), lev, p, t, m)
  <2>1. StillWaits(Now, 0, lev, p, t, m)
    BY <1>1 DEF StillWaits, Now, Serving, TheTouchingWait, m
  <2> QED BY <1>1, <1>2, <1>3, <2>1, EventsServe DEF Serving
<1>5. ~TouchComes(Len(events), p, t)
  <2>1. Len(events) \in Nat
    BY TriggerEventFields DEF PickupsInv, PickupsTyped
  <2> QED BY <2>1 DEF TouchComes
<1>6. u.atMaximum = h.atMaximum /\ (t \in u.pickups => t \in h.pickups)
  BY <1>1, <1>3, TimersServe
<1> HIDE DEF u, h
<1>7. /\ t \in u.pickups
      /\ Listed(u.atMaximum, p, t) => Listed(s.atMaximum, p, t)
      /\ ~HasMaximum(lev, p) /\ ListedWithin(u.atMaximum, p, t, m) =>
           ListedWithin(s.atMaximum, p, t, m - 1)
  <2>1. s = UpdateListed(u, lev)
    BY DEF u, h
  <2> QED BY <1>2, <1>3, <2>1, ListServes
<1>8. ListedWithin(h.atMaximum, p, t, m) \/ (HasMaximum(lev, p) /\ Listed(h.atMaximum, p, t))
  BY <1>4, <1>5, <1>6, <1>7 DEF StillWaits
<1>9. ListedWithin(h.atMaximum, p, t, m) => Listed(h.atMaximum, p, t)
  BY DEF ListedWithin, Listed
<1> QED BY <1>1, <1>6, <1>7, <1>8, <1>9 DEF m

LEMMA LevelIsNumber ==
  ASSUME level \in [Present -> Nat], NEW p \in Present, NEW lost, NEW killed
  PROVE  Level(p, lost, killed) \in Nat
<1>1. level[p] \in Nat /\ MaxLevel \in Nat
  BY PickupsAssumption
<1>2. \A had \in Nat : had > 1 => had - 1 \in Nat
  OBVIOUS
<1> QED BY <1>1, <1>2 DEF Level

(* A frame ends: the waiting.                                              *)
LEMMA LeaveServesOn ==
  ASSUME PickupsInv, Serving, NEW lev \in [Present -> Nat],
         NEW s, s = UpdateListed(UpdateTimers(Handle(Now, lev, events)), lev),
         NEW now \in [Present -> {"far", "near", "touching"}], NEW killed,
         Leave(s, lev, now, killed)
  PROVE  Serving'
<1> DEFINE stays == Present \ dying
<1>1. /\ pickups' = s.pickups /\ Len(s.atMaximum) <= MaxListed
      /\ atMaximum' = Renamed(s.atMaximum, dying)
      /\ level' = [p \in stays |-> lev[p]]
      /\ touching' = [t \in s.pickups |-> {p \in stays : Touched(s, now, p, t)}]
      /\ events' = UpdateTriggers(s, now, dying)
      /\ wanted' = [t \in s.pickups |-> [p \in PickupPlayer |->
           IF t \in pickups /\ p \in stays /\ InNeed(lev, now, p)
           THEN AtMost(wanted[t][p] + 1, MaxListed + 1) ELSE 0]]
  BY DEF Leave
<1>2. Updated(s, 1 + surplus)
  BY FrameIsUpdated
<1>3. /\ s \in Work /\ s.atMaximum \in Entries
      /\ s.pickups \subseteq Nat \ {Gone} /\ IsFiniteSet(s.pickups)
  BY <1>2, WorkFields DEF Updated
<1>4. Present \subseteq PickupPlayer /\ Gone \notin PickupPlayer
      /\ MaxListed \in Nat \ {0} /\ MaxLevel \in Nat
  BY PickupsAssumption DEF PickupsInv, PickupsTyped
<1>5. Tells(events', s, now, dying)
  <2>1. s.pickups \subseteq Nat
    BY <1>3
  <2>2. Tells(UpdateTriggers(s, now, dying), s, now, dying)
    BY <1>3, <2>1, TriggersTell DEF PickupsInv
  <2> QED BY <1>1, <2>2
<1>6. Len(events') \in Nat /\ DOMAIN events' = 1 .. Len(events')
  BY <1>5, TriggerEventFields DEF Tells
<1> HIDE DEF stays
<1>7. \A p \in stays : p \in Present /\ p \notin dying /\ p \in PickupPlayer
  BY <1>4 DEF stays
<1>8. ASSUME NEW t \in s.pickups, NEW p \in PickupPlayer
      PROVE  /\ wanted'[t][p] \in Nat
             /\ wanted'[t][p] # 0 => /\ t \in pickups /\ p \in stays /\ InNeed(lev, now, p)
                                     /\ wanted'[t][p] <= wanted[t][p] + 1
  <2>1. wanted'[t][p] = IF t \in pickups /\ p \in stays /\ InNeed(lev, now, p)
                        THEN AtMost(wanted[t][p] + 1, MaxListed + 1) ELSE 0
    BY <1>1
  <2>2. t \in pickups => wanted[t][p] \in Nat
    BY DEF Serving
  <2>3. \A n \in Nat : AtMost(n, MaxListed + 1) \in Nat /\ AtMost(n, MaxListed + 1) <= n
    BY <1>4 DEF AtMost
  <2> QED BY <2>1, <2>2, <2>3
<1>9. /\ level' \in [stays -> Nat] /\ (DOMAIN level)' = stays
      /\ wanted' \in [s.pickups -> [PickupPlayer -> Nat]]
  <2>1. \A p \in stays : lev[p] \in Nat
    BY <1>7
  <2>2. level' \in [stays -> Nat] /\ DOMAIN level' = stays
    BY <1>1, <2>1
  <2>3. wanted' \in [s.pickups -> [PickupPlayer -> Nat]]
    BY <1>1, <1>8
  <2> QED BY <2>2, <2>3
<1>10. \A t \in s.pickups : \A p : p \in touching'[t] <=>
         p \in stays /\ (now[p] = "touching" \/ (now[p] = "far" /\ p \in s.touching[t]))
  BY <1>1, WhoIsTouched
<1>11. LeavesAreTrue'
  <2> SUFFICES ASSUME NEW j \in DOMAIN events', events'[j].is = "TriggerLeave",
                      events'[j].player # Gone, events'[j].pickup \in s.pickups
               PROVE  events'[j].player \notin touching'[events'[j].pickup]
    BY <1>1 DEF LeavesAreTrue
  <2>1. PICK x \in ToTell(s, now) : events'[j] = EventOf(now, dying, x)
    BY <1>5 DEF Tells
  <2>2. /\ events'[j].is = IF now[x[1]] = "touching" THEN "TriggerTouch" ELSE "TriggerLeave"
        /\ events'[j].player = x[1] /\ events'[j].pickup = x[2]
    BY <2>1, EventOfIs
  <2>3. now[x[1]] = "near"
    BY <2>2, ToTellIs
  <2> QED BY <1>10, <2>2, <2>3
<1>12. TheTouchingWait'
  <2> SUFFICES ASSUME NEW t \in s.pickups, NEW p \in touching'[t]
               PROVE  \/ TouchComes(0, p, t)' /\ wanted'[t][p] <= 1
                      \/ ListedWithin(atMaximum', p, t, MaxListed - wanted'[t][p])
    BY <1>1 DEF TheTouchingWait, ListedWithin
  <2>1. /\ p \in stays /\ p \in Present /\ p \notin dying /\ p \in PickupPlayer
        /\ now[p] = "touching" \/ (now[p] = "far" /\ p \in s.touching[t])
    BY <1>7, <1>10
  <2>2. s.touching[t] = IF t \in pickups THEN touching[t] ELSE {}
    BY <1>2 DEF Updated
  <2>3. wanted'[t][p] \in Nat /\ (t \in pickups => wanted[t][p] \in Nat)
    BY <1>8, <2>1 DEF Serving
  <2>4. CASE p \notin s.touching[t]
    <3>1. <<p, t>> \in ToTell(s, now) /\ now[p] = "touching"
      BY <2>1, <2>4 DEF ToTell
    <3>2. PICK j \in DOMAIN events' : events'[j] = EventOf(now, dying, <<p, t>>)
      BY <1>5, <3>1 DEF Tells
    <3>3. events'[j].is = "TriggerTouch" /\ IsOf(events'[j], p, t)
      BY <2>1, <3>1, <3>2, EventOfIs DEF IsOf
    <3>4. j \in 0 + 1 .. Len(events')
      BY <1>6
    <3>5. TouchComes(0, p, t)'
      BY <3>3, <3>4 DEF TouchComes, IsOf
    <3>6. wanted'[t][p] <= 1
      <4>1. t \in pickups => wanted[t][p] = 0
        BY <2>1, <2>2, <2>4 DEF Serving, TheOthersDoNot
      <4> QED BY <1>8, <2>1, <2>3, <4>1
    <3> QED BY <3>5, <3>6
  <2>5. CASE p \in s.touching[t]
    <3>1. /\ t \in pickups /\ p \in touching[t] /\ Listed(s.atMaximum, p, t)
          /\ ~HasMaximum(lev, p) =>
               ListedWithin(s.atMaximum, p, t, (MaxListed - wanted[t][p]) - 1)
      BY <2>1, <2>5, FrameServes
    <3>2. /\ atMaximum' \in Entries /\ DOMAIN atMaximum' = DOMAIN s.atMaximum
          /\ NotLater(s.atMaximum, atMaximum', p, t)
      BY <1>1, <1>3, <2>1, RenamedIs, RenamingKeeps
    <3>3. CASE wanted'[t][p] # 0
      <4>1. InNeed(lev, now, p) /\ wanted'[t][p] <= wanted[t][p] + 1 /\ wanted[t][p] \in Nat
        BY <1>8, <2>1, <2>3, <3>1, <3>3
      <4>2. ~HasMaximum(lev, p)
        <5>1. lev[p] \in Nat /\ p \in DOMAIN lev
          BY <2>1
        <5> QED BY <1>4, <4>1, <5>1 DEF InNeed, HasMaximum
      <4> DEFINE m == (MaxListed - wanted[t][p]) - 1
      <4>3. m \in Int /\ m <= MaxListed - wanted'[t][p] /\ MaxListed - wanted'[t][p] \in Int
        BY <1>4, <2>3, <4>1
      <4>4. ListedWithin(atMaximum', p, t, m)
        <5> HIDE DEF m
        <5>1. ListedWithin(s.atMaximum, p, t, m)
          BY <3>1, <4>2 DEF m
        <5> QED BY <1>3, <3>2, <4>3, <5>1, NotLaterKeeps
      <4>5. \A k \in DOMAIN atMaximum' : k \in Int
        BY <3>2, EntryFields
      <4>6. \A k \in Int : k <= m => k <= MaxListed - wanted'[t][p]
        <5> HIDE DEF m
        <5> QED BY <4>3
      <4> HIDE DEF m
      <4> QED BY <4>4, <4>5, <4>6 DEF ListedWithin
    <3>4. CASE wanted'[t][p] = 0
      <4>1. Listed(atMaximum', p, t)
        BY <1>3, <3>1, <3>2, NotLaterKeeps
      <4>2. \A k \in DOMAIN atMaximum' : k <= MaxListed
        <5>1. Len(s.atMaximum) \in Nat /\ DOMAIN s.atMaximum = 1 .. Len(s.atMaximum)
          BY <1>3, EntryFields
        <5> QED BY <1>1, <1>4, <3>2, <5>1
      <4>3. MaxListed - wanted'[t][p] = MaxListed
        BY <1>4, <3>4
      <4> QED BY <4>1, <4>2, <4>3 DEF Listed, ListedWithin
    <3> QED BY <3>3, <3>4
  <2> QED BY <2>4, <2>5
<1>13. TheOthersDoNot'
  <2> SUFFICES ASSUME NEW t \in s.pickups, NEW p \in PickupPlayer, wanted'[t][p] # 0
               PROVE  p \in touching'[t]
    BY <1>1 DEF TheOthersDoNot
  <2>1. p \in stays /\ now[p] = "touching"
    BY <1>8 DEF InNeed
  <2> QED BY <1>10, <2>1
<1> QED BY <1>1, <1>9, <1>11, <1>12, <1>13 DEF Serving, Present

LEMMA ServingHolds == PickupsInit => Serving
<1> SUFFICES ASSUME PickupsInit
             PROVE  Serving
  OBVIOUS
<1>1. level \in [Present -> Nat] /\ wanted \in [pickups -> [PickupPlayer -> Nat]]
  BY DEF PickupsInit, Present
<1>2. DOMAIN events = {} /\ \A t \in pickups : touching[t] = {}
  BY DEF PickupsInit
<1>3. \A t \in pickups : \A p \in PickupPlayer : wanted[t][p] = 0
  BY DEF PickupsInit
<1> QED BY <1>1, <1>2, <1>3 DEF Serving, LeavesAreTrue, TheTouchingWait, TheOthersDoNot

LEMMA ServingStays == PickupsInv /\ Serving /\ [PickupsNext]_pickupVars => Serving'
<1> SUFFICES ASSUME PickupsInv, Serving, [PickupsNext]_pickupVars
             PROVE  Serving'
  OBVIOUS
<1>1. CASE Tick
  <2>1. PICK lost, killed, lev, s, now :
          /\ lev = [p \in Present |-> Level(p, lost, killed)]
          /\ s = UpdateListed(UpdateTimers(Handle(Now, lev, events)), lev)
          /\ now \in [Present -> {"far", "near", "touching"}]
          /\ Leave(s, lev, now, killed)
    BY <1>1, TickIs
  <2>2. lev \in [Present -> Nat]
    BY <2>1, LevelIsNumber DEF Serving
  <2> QED BY <2>1, <2>2, LeaveServesOn
<1>2. CASE \E p \in PickupPlayer : SpawnPlayer(p)
  <2>1. PICK p \in PickupPlayer : SpawnPlayer(p)
    BY <1>2
  <2>2. /\ level' = [q \in Present \cup {p} |-> IF q = p THEN MaxLevel ELSE level[q]]
        /\ Present' = Present \cup {p}
        /\ UNCHANGED <<pickups, atMaximum, touching, events, wanted>>
    BY <2>1 DEF SpawnPlayer, Present
  <2>3. level' \in [Present' -> Nat]
    BY <2>2, PickupsAssumption DEF Serving
  <2> QED BY <2>2, <2>3
       DEF Serving, LeavesAreTrue, TheTouchingWait, TheOthersDoNot, TouchComes
<1>3. CASE Reset
  <2>1. /\ pickups' = {1} /\ touching' = [t \in {1} |-> {}] /\ level' = <<>>
        /\ events' = [i \in DOMAIN events |-> TriggerEvent(events[i].is, Gone, Gone)]
        /\ wanted' = [t \in {1} |-> [p \in PickupPlayer |-> 0]]
    BY <1>3 DEF Reset
  <2>2. level' \in [Present' -> Nat] /\ wanted' \in [pickups' -> [PickupPlayer -> Nat]]
    BY <2>1 DEF Present
  <2>3. \A j \in DOMAIN events' : events'[j].player = Gone
    BY <2>1 DEF TriggerEvent
  <2>4. \A t \in pickups' : touching'[t] = {} /\ \A p \in PickupPlayer : wanted'[t][p] = 0
    BY <2>1
  <2> QED BY <2>2, <2>3, <2>4 DEF Serving, LeavesAreTrue, TheTouchingWait, TheOthersDoNot
<1>4. CASE UNCHANGED pickupVars
  BY <1>4 DEF pickupVars, Serving, LeavesAreTrue, TheTouchingWait, TheOthersDoNot,
              TouchComes, Present
<1> QED BY <1>1, <1>2, <1>3, <1>4 DEF PickupsNext

(* A player in need waits at a pickup MaxListed frames at most, however    *)
(* many touch it, leave it and die: his touch is handled a frame after it  *)
(* is told, and from then on each frame that does not take the pickup      *)
(* takes somebody off the list before him (OnTriggerTouch and Update of    *)
(* the two systems).                                                       *)
THEOREM TheNeedyAreAlwaysServed == PickupsSpec => []TheNeedyAreServed
<1>1. PickupsInv /\ Serving => TheNeedyAreServed
  <2> SUFFICES ASSUME PickupsInv, Serving, NEW t \in pickups, NEW p \in PickupPlayer
               PROVE  wanted[t][p] <= MaxListed
    BY DEF TheNeedyAreServed
  <2>1. wanted[t][p] \in Nat /\ MaxListed \in Nat \ {0}
    BY PickupsAssumption DEF Serving
  <2>2. CASE p \notin touching[t]
    BY <2>1, <2>2 DEF Serving, TheOthersDoNot
  <2>3. CASE p \in touching[t]
    <3>1. CASE wanted[t][p] <= 1
      BY <2>1, <3>1
    <3>2. CASE ListedWithin(atMaximum, p, t, MaxListed - wanted[t][p])
      <4>1. PICK i \in DOMAIN atMaximum : i <= MaxListed - wanted[t][p]
        BY <3>2 DEF ListedWithin
      <4>2. i \in Nat
        BY EntryFields DEF PickupsInv, PickupsTyped
      <4> QED BY <2>1, <4>1, <4>2
    <3> QED BY <2>3, <3>1, <3>2 DEF Serving, TheTouchingWait
  <2> QED BY <2>2, <2>3
<1> QED BY <1>1, PickupsInvHolds, PickupsInvStays, ServingHolds, ServingStays, PTL
     DEF PickupsSpec

=============================================================================
