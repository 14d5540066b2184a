# TacticalZ in TLA+

TacticalZ is a team shooter with its own engine, written in C++. A match runs
on a server: `Game::Tick` (`src/src/Game/Game.cpp`) lets the network and some
fifty systems take turns, and they only talk to each other through an event
broker, a world of components and a few objects they share. The rules of the
game are spread over handlers that run one tick after the event that caused
them was published; what can go wrong in them is mostly a matter of *when*.

This directory holds models of the parts that carry those rules, the TLC
configurations that check them, and proofs, checked by TLAPS, of what holds for
every size of the system. Paths below are relative to `src/`: `Engine/...`
stands for `src/src/Engine/...`, `Game/...` for `src/src/Game/...`, and
`include/...` for `src/include/...`.

- [How to run](#how-to-run)
- [Inventory](#inventory) — the parts, their state, operations and hazards
- [Modules](#modules) — what each models and how it corresponds to the code
- [Runs](#runs) — what is checked, with which bounds
- [Fairness](#fairness)
- [Proofs](#proofs)
- [Where code and comments disagree](#where-code-and-comments-disagree)
- [What is not modelled](#what-is-not-modelled)
- [Plan](#plan)

## How to run

    tlc -workers 2 -config MCCore.cfg MCCore
    tlapm CapturePointProofs.tla

`PROJECT.json` lists the runs, the source lines every definition stands for
("map"), for every property a change of the model that breaks it ("mutants",
each an operator next to the one it alters and marked as a mutant in its
comment), the hazards, and the theorems.

## Inventory

| Part | State | Operations | Talks to | Module |
|---|---|---|---|---|
| **Event broker** `Engine/Core/EventBroker.cpp` | two queues, relays per context, `m_IsProcessing`, pending relays | Publish, Subscribe, Unsubscribe, Process, Swap, Clear | everybody: handlers call it back while it iterates | `EventBroker` |
| **Game loop**, system pipeline `Game/Game.cpp`, `include/Engine/Core/SystemPipeline.h` | the order of a tick | Tick, Update | broker, network, systems, pools | `GameTick` |
| **Memory pool**, object pool `include/Engine/Core/MemoryPool.h` | slot bits, hint, first slot, counts, memory outside | Allocate, Free, begin, ++, end, size, empty | component pools; iterated while systems allocate and free | `MemoryPool` |
| **World**, component pools `Engine/Core/World.cpp`, `ComponentPool.cpp`, `EntityWrapper.cpp` | entity ids, parents, children, pools | Create/DeleteEntity, SetParent, Attach/DeleteComponent, Clone, Merge | pools, broker; every system | `World` |
| **Players' life** `Game/Systems/HealthSystem.cpp`, `PlayerSpawnSystem.cpp`, `PlayerDeathSystem.cpp` | Health, requests, who is whom, respawn timer | damage, heal, die, request, spawn in waves, delete | each other by events, server | `PlayerLife` |
| **Pickups** `PickupSpawnSystem.cpp`, `AmmoPickupSystem.cpp` | pickups to respawn, players at maximum | touch, leave, respawn | HealthSystem, world, triggers | `Pickups` |
| **Capture points** `CapturePointSystem.cpp` | owner, timer, who touches, next points, winner | four handlers, UpdateComponent per point | triggers, HealthSystem, server | `CapturePoint` |
| **Weapons** `Game/Systems/Weapon/*`, `BoostSystem.cpp` | magazine, rest, reload and fire timers, weapon in hand | fire, reload, holster, equip, shield, give ammo | input, pickups, team mates | `Weapons` |
| **Server** `Engine/Network/Server.cpp`, `TCPServer.cpp` | connected players, their entity, socket and clock, countdown | connect, ping, time out, disconnect, kick, input, snapshots, reset of the map | all systems by events, clients by packets | `ServerSession`, `PlayerLife`, `CapturePoint` |
| **Client** `Engine/Network/Client.cpp` | maps between server's and own ids, spawns that wait | parse every message | world, transports | `Replica` |
| **Transports** `UDP*.cpp`, `Packet.cpp` | part sequences, groups | Send, Receive, split, put together | client, server | `SnapshotChannel` |
| **Resource manager** `ResourceManager.cpp` | cache, threads that load, what they threw | Load, Release | everybody, from several threads | `Resources` |
| **Input** `InputManager.cpp`, `InputProxy.cpp`, handlers, `FirstPersonInputController.h` | devices, bindings, command values, controllers | Update, Process, OnCommand | game loop, broker, movement | `Controls` |
| **Animation** `AnimationSystem.cpp`, `AutoBlendQueue.cpp`, `BlendTree.cpp` | weights, times, queues of blend jobs | requests of the movement, Update | movement, world | `Animation`, `BlendTree` |
| **Sound** `Engine/Sound/SoundManager.cpp`, `SoundSystem.cpp` | sources, emitters, current music | play, pause, change, free | world, systems, OpenAL | `Sound` |
| **Octree**, frustum, triggers `include/Engine/Core/Octree.h`, `Collision.cpp`, `TriggerSystem.cpp` | boxes, leaves, flags | add, clear, search by box, ray, frustum | collision, triggers, culling | `Octree`, `Pickups` |
| **Renderer** `Engine/Rendering/*Pass.cpp`, `RenderState.cpp`, `FrameBuffer.cpp` | OpenGL's state, textures and frame buffers | passes of a frame, resize, settings | OpenGL | `Drawing`, `RenderTargets` |
| **Render jobs, picking, buttons** `RenderSystem.cpp`, `PickingPass.cpp`, `ButtonSystem.cpp` | queues of a scene, colours, what was pressed | fill, draw, pick, press, release | world, GUI, weapons | `Picking` |
| Score screen, kill feed, HUD, end screen, spectator camera, transforms, entity files, configuration, editor | views of the above, parsing | | | — |

The repository's tests (`Tests/`) call single operations of the pool, the world,
the broker and the octree, or run a scripted number of ticks of one system
(`HealthSystemTest`, `CapturePointTest`, `PickupSpawnTest`); none varies the
order in which the parts take turns.

### What is hard, and what makes each part correct

- *Callbacks while a container is iterated over.* A handler may subscribe or
  unsubscribe in the middle of `EventBroker::Process`; a system may create or
  delete components of the pool it is called for. The loops must neither be
  disturbed nor miss anything (`IterationIsUndisturbed`, `DeliveryIsConsistent`,
  `ImplementsBus`, `LoopsAreComplete`).
- *Order within a tick.* Five swaps and one clear decide in which tick an event
  is seen. No event may be lost, seen twice, or fed back into its own tick
  (`ImplementsBus`, `NothingIsForgotten`, `OnlyInputIsReadInItsTick`).
- *State that is stale by a tick.* Every handler acts on what was true when the
  event was published; between a death and the deletion of the player a tick
  passes in which it may be healed, hit again and die again
  (`DiesForASpawnOnce`), the server and the spawner learn of a spawn at
  different times (`SessionAgreesWithSpawns`), capture points act on the owner
  they read before the contest (`TerritoryIsContiguous`), systems keep wrappers
  of entities that are gone (`StraysAreExplained`), a list of who waits at a
  pickup outlives the pickup (`PickupsAreConserved`, `NobodyTakesFromAfar`), a
  button is released in another frame than it was pressed (`ClicksAreMeant`).
- *Disconnects, time-outs and kicks* between any two steps of a session
  (`ServerOutlivesWhoStays`, `TimeOutsAreEarned`, `WhoLeftIsGone`).
- *Limits and overflow.* The pool is full and falls back to `malloc`
  (`ImplementsStore`, `CountsAreExact`); clocks overflow (`TheSilentAreRemoved`);
  colours run out (`PickedAsDrawn`); timers run past their ends
  (`CapturesAreEarned`).
- *Unreliable delivery.* Snapshots travel in parts that are lost, doubled and
  reordered (`DeliveredWhole`, `TheNewestIsKept`, `CompleteOnesAreDelivered`),
  and whole ones cross deletions, spawns and resets that travel by TCP
  (`CopiesAreExplained`, `PlayerIsFollowed`, `CopiesStay`).
- *Threads* of the resource manager (`HeldIsAlive`, `NothingIsMadeTwice`,
  `EveryLoadSettles`).
- *Counters that several handlers keep in step*: rounds (`AmmoIsAccounted`),
  keys that are down (`MotionNeedsKeys`, `KeysAreCounted`), weights of the
  copies of a subtree (`CopiesAgree`).
- *One state machine shared by everybody*: OpenGL (`DrawingIsSound`,
  `LooksTheSame`, `TargetsAreKept`).
- *Progress.* Deferred subscriptions take effect, requests are not passed over
  for ever, a lost home ends the match, a siege succeeds, an empty magazine is
  filled, a blend ends, a finished sound is freed.

`PROJECT.json` lists every hazard at its line.

## Modules

### `EventBroker`, `EventBus`, `GameTick`

`EventBroker` is the class itself: its fields are the variables, its methods
the actions. `Process` is taken apart where a handler may run: `BeginProcess`
(up to the loop, with the early return that leaves `m_IsProcessing` set),
`NextEvent` (outer loop), `Receive` (one relay of the inner loop; handlers
publish, subscribe and unsubscribe before the next), `EndProcess` (pending
subscriptions, then unsubscriptions). An event is its number; `published` maps
it to its type, payloads are left out. `equal_range` of a multimap gives the
relays of one type in no order a system may rely on, so any order is allowed.
`published`, `lastReceived` and `since` are histories.

`EventBus` is the promise: every listener sees the events of its type once, in
order, without a gap. `GameTick` extends the broker with `Game::Tick`:
`TickSteps` is the sequence of calls of one tick, with `InputManager::Update`,
`InputProxy::Update`, the network's update and `SystemPipeline::Update` inlined
as process, update, swap and clear steps. `ImplementsBus` maps the broker on
this schedule to `EventBus` (`Listener <- Relay, seen <- lastReceived`).
`GameTick` has no action for `Unsubscribe`: the broker is composed with it in
`MCEventBroker`, where it may come at any time, and since it does not take
effect (see below) promises about the listeners who stay are what is left.

### `MemoryPool`, `ObjectStore`

`MemoryPool` is the slot allocator under every component pool, field by field.
Addresses are slots, or members of `Outside` for what `malloc` returns.
`iterator` is a range-for loop under way, whose `end()` is fixed at its
beginning, as in `SystemPipeline::Update`; `Allocate` and `Free` come between
any two of its steps. `ObjectStore` is the promise of an allocator: an address
that is handed out is not in use, and the size is known.

### `World`

Entities in a tree (`parents`, `children`) with components that lie in pools
(`components`, and `latest` for the map from entities to them). Every operation
that does not test its argument may be given a dead entity, since systems keep
wrappers. `Delete` is `DeleteEntity` with its cascade; `Clone` and `Merge` copy
a subtree, or the world of an entity file (`TemplateParent`,
`TemplateComponents`), under new ids. `status` says how the program ended where
a cycle makes it recurse for ever. `announced`, `looped` and `strays` are
histories: deletions published, cycles made, components without an owner.

### `PlayerLife`

The server's parts that pass a player's life to each other: `Server` (input and
damage messages, `disconnect`, `OnPlayerSpawned`, `OnPlayerDeath`),
`HealthSystem`, `PlayerSpawnSystem`, `PickupSpawnSystem::DoPickup`,
`PlayerDeathSystem`. `phase` is the part under way, in the order `Game.cpp`
adds them; each handles the events of `readQueue` that it subscribed to, one
action per handler, and `EndTick` makes the events published the ones of the
next tick: what `GameTick` shows of the real broker is used here. Clients send
messages (one command, or a team and a class in one packet) and disconnect;
`terminated` is a server whose handler threw or called a null pointer.

Left out: cameras, names, the death effect, every component but Health, Team
and the ability that tells the class; spawners, but for their team. A tick
takes one unit of the respawn timer. `spawnRequests` is the deque; the loop over
it, which both erases and moves on, is the function `IsSpawned`. `RequestsAt(S)`
is the deque with only the positions of `S` left, in order.

### `CapturePoint`

`CapturePointSystem` with the Server's part in a match (`OnWin`, the countdown,
`resetMap`). A tick is the Server's update, the handlers, one `UpdateComponent`
per point in the order of the pool (`PoolOrder`: not the order of the points'
numbers), then the swap. `UpdateComponent` is `Idle` (a winner was found),
`Collect` (not all points are in the map yet) or `UpdatePoint`; the latter
computes both teams' next points, publishes a capture of the call before,
resets timers, counts who stands there, moves the timer, captures, and tests
for the win with the owner it began with. `m_CapturePointNumberToEntityMap` is
its set of keys `found`, into which `operator[]` also inserts -1 and the number
of points. Players are hurt, healed, deleted, spawned and walk as they please;
their health is one of five conditions that the code's `(int)Health == 0` tells
apart. Time is integral. A map has its homes at both ends and its points
apart, so a player touches one at a time; players spawned after a reset wait
until the reset is known to the system.

### `Pickups`

`PickupSpawnSystem` and `AmmoPickupSystem` (`kind`) around one pickup: `DoPickup`
on touch, `atMaximum` for those listed until they need it, of whom
`UpdateListed` looks at one per frame, `waiting` for pickups to be made again.
Touching and leaving are told by `TriggerSystem`, which sees only what is in the
region of the octree and what it saw before; players are hurt, die, are deleted
and walk off, and `Reset` replaces the map but not the systems' lists: the
pickups awaited then come to the new map as well (`surplus`). In which order the
players touching a pickup are told of is left open (`InOrder` fixes one). The
loops over the events, the timers and the list are folds of one step over a
record of the systems' state (`Now`), so that a theorem can be stated of them.
`wanted` (frames a player in need has touched a pickup), `gains` and `surplus`
are histories.

### `Weapons`

The weapons one player carries. `gun` holds of every weapon component what a
rule reads: magazine and rest, cooldown, reload timer, the reload queued or
under way, the trigger. Commands come between ticks in any order: select a slot
(holster and equip), press and release fire, reload, special ability; ammo is
given by a pickup or by a team mate's boost. A tick updates every component, and
the weapon in hand besides. Rifle and sidearm refill when the reload ends, the
shotgun loads shell by shell. Rounds fired and given, and the ticks since the
last shot, since the reload began and since the magazine is empty, are histories.

### `ServerSession`

The server's and the client's ends of a session: accept, TCP Connect, UDP
Connect, pings and answers, time-outs, commands and the snapshots that pass
them on, leaving, vanishing, kicking. All delay is put on the way to the server,
where messages of one stream come in order. The clock is that of the code,
`1000 * clock()` in a `long` of 32 bits: it wraps at `Half`, which a time-out and
a ping interval must fit below (`SessionAssumption`); `Garbage` is what the
uninitialised `m_StartPingTime` may hold. `stopped` says why a server is gone: an
exception nobody catches, or a null socket. One update reads everything that
waits: its stages (accept, streams, datagrams, commands passed on, time-outs,
pings) are operators on one record, applied in the code's order, and the loops
over players and messages are recursive functions.

### `SnapshotChannel`

The way of a snapshot from `UDPServer::SendToConnectedPlayers` to the parser of
one client. A datagram is `<<group, index>>`; what a part carries besides is
looked up in `sent`, the sizes of the snapshots of this session.

| Code | Model |
|---|---|
| `UDPClient::Connect`, and the server's answer to the UDP Connect | `Connect`: new session, the answer is in flight as `ConnectGroup` |
| `UDPClient::Disconnect` | `Disconnect` |
| `Server::sendSnapshot`, `SendToConnectedPlayers` | `SendSnapshot`: `Parts(size)` datagrams that announce `GroupSize(size)` |
| first loop of `Client::Update`, `readPartOfPacket` | `ReadPartOfPacket`, once per datagram |
| `Packet parsedPacket` and the end of that loop | `StartDrain` |
| `GetNextPacket` that returns true, with `parseMessageType` | `DeliverPacket` |
| `GetNextPacket` that returns false | `EndDrain` |
| `m_PacketSegmentMap`, `m_LastReceivedSnapshotGroup` | `segments`, `lastSnapshot` |

`inFlight` is a set that any step may read from in any order, or never: that is
reordering and loss. `MaxDuplicates` times a datagram that is read stays. A
group that is -1 in the code is the map's highest key there (it is unsigned)
and here. `Packet::Group` and its like read a `size_t` where the header holds
an `int`: `Group` adds the index, weighted with `WordBase` (2^32), if
`SizeTBytes` is 8, and `ToInt` takes it off again where the value goes into an
`int`. What parsing does to the read offset is kept (`OffsetsAfter`), up to the
point where a snapshot is read from its middle and the rest is garbage.

### `Replica`

A client's copy of the world. `server` makes and deletes entities; the join, the
reset, deletions and spawns come by the stream `tcp`, snapshots are any of the
contents the world had (`worlds`): lost, doubled, late. An update of the client
reads UDP before TCP. `replica` has the client's entities, both maps between
ids, and the spawns that wait for a snapshot that knows the entity; a player's
death deletes him a frame later. The client may leave and join another server,
whose ids begin at zero again.

`ParseSnapshot` goes through the entities of a snapshot in the order of their
numbers (`InOrder`), one `ParseEntity` each, and then through the spawns that wait;
`Parsed` gives the four messages of the stream their handlers. `Asked` is the
side effect of the question `serverClientMapsHasEntity`, which forgets what is
gone. `Cascade` is the recursion of `DeleteEntity`. `Condemned` and `Doomed` say
what the deaths published and the deletions still to be read will take away;
`late` (of a copy) and `stale` (of a spawn) are histories the properties need.

### `Resources`

`ResourceManager` with the threads it launches. A thread has a stack of calls of
`Load`, since a constructor loads what it needs (`Needs`); one that must wait
throws, and is run again from its beginning. A step is what happens between two
accesses to the shared maps. `thread` is `m_LoadingThreads`; `Join` waits for a
thread and learns of its failure from the cache, because what it threw went
into a copy of the pointer. `Construct` releases what a resource was made from
(`Frees`). `LoadedInThreads` are the files a thread is launched for; they need
nothing themselves. `ResourcesAssumption` says what the constructors of the
repository keep: none loads itself again, or loads something before it loads what
releases that. The main thread asks for what a frame shows, and for a replacement
when that is still loading or broken.

### `Controls`

From a key to motion: keyboard and mouse handlers with their bindings, the
`InputProxy` with the values of the tick before and the suppression of new input
while the GUI has it, and the player's controller with its count of keys, its
direction and the dash (double tap or the ability's key). `miscounted` is a
history: a press the controller never heard of.

### `Animation`, `BlendTree`

`BlendTree` has the pure part: how the tree is built from the entities, walked
from leaf to leaf, searched by name, posed, and which nodes one step of a blend
moves how (`Steps`, `AutoBlendStep`). A weight is 0, 1 or between, which is
exact for the formula. `Animation` has the requests of the controls and the
movement system (`Forward`, `Right`, `Crouch`, `Jump`, `OnDashAbility`), the
queues of blend jobs under their nodes, and `Update`. The player's model in
`MCPresentation` is the tree of `PlayerAssaultRed.xml`, with one dash of two.

### `Sound`

`SoundManager`'s sources in OpenAL (`al`), the emitters of entities, the music
and the combo of two pieces; the events of the systems wait for the next Update.
The local player spawns, makes sounds, is hurt and dies, cameras change, and the
editor's buttons pause and resume. The program never frees music, nor the cries
of a queue. Once such a source has stopped and is neither of the two pieces, no
handler can reach it, and the model lets go of it (`Forget`): so cameras follow
each other without a bound. That OpenAL may run out of sources is left out.

### `Octree`

The tree of boxes: `AddDynamicObject` with `childIndicesContainingBox`,
`ClearDynamicObjects`, and the questions by box, by frustum and by ray with the
`Checked` flags they reset. Corners are integers, directions of rays -1, 0 or 1
in each component, so that distances along a ray are exact; `Reach` stands for
the 75 units of `RayAABBIntr`.

### `Drawing`, `RenderTargets`

`Drawing`: OpenGL is a function of settings, a pass is a sequence of commands
that change them, and a `RenderState` undoes, when it is deleted, what was
changed through it. `Renderer::Draw` runs the passes for each scene; the jobs of
a queue come in any order and number. What is drawn is recorded with the
program, bones, textures, culling and targets it was drawn with. `RenderTargets`:
the passes keep names of textures and buffers in members, make them anew on a
resize or a change of settings, and attach them to frame buffers that point to
the members; OpenGL gives a deleted name again.

### `Picking`

`RenderSystem` fills the queues of a scene (`frame`) with what is shown,
`PickingPass` paints them with a colour per entity (`pass`), and a pick reads the
picture of the frame before. `ButtonSystem` remembers what was pressed and tells
of presses, releases and clicks (`said`). Entities come and go, are hidden and
faded; the editor's widgets are a second scene, of another world. The picture is
painted by turns: the jobs of both scenes, queue by queue, of which each takes the
colour of its entity or the next one. `PickingAssumption` only says that there are
finitely many entities and that a model has one to three groups of materials.

### `*Proofs`, `MC*`

The modules named `...Proofs` hold the theorems. Where the components of a run
are checked together, or one feeds the other, their proofs are in one module:
`CoreProofs` has those of `EventBroker`, `GameTick` and `Resources`,
`ServerProofs` those of `World` and `ServerSession`, `PlayerLifeProofs` those of
`PlayerLife` and `Pickups`, `InputProofs` those of `Controls` and `Picking`,
`SnapshotChannelProofs` those of `SnapshotChannel` and `Replica`;
`MemoryPoolProofs`, `CapturePointProofs` and `WeaponsProofs` those of their own.
A fact on numbers that several of them need is stated in each.
The `MC` modules give constants that a `.cfg` cannot write down. Where
components share nothing, one `MC` module checks several of them in one run: a
variable `part` says whose behaviour it is, and the variables of the others
keep still. That is a sum of machines, not a product, and each property is that
of its component.

## Runs

| Run | Bounds | Shows |
|---|---|---|
| `core` | tick: 5 contexts, 5 relays, one subscribed while the game runs, 3 events; resources: 8, of which two models share a texture with a sprite, any of 5 sets of them broken, 3 threads, with and without threading | only input is read in its own tick; the broker on this schedule implements `EventBus`; owed events arrive and subscriptions take effect; what is shown was loaded; no constructor goes on with something that was freed; every load settles |
| `pool` | 4 slots, 3 addresses outside (symmetric) | loops miss nothing, refinement of `ObjectStore` |
| `server` | world: 4 entities, 2 components of one type, an entity file of two; sessions: 2, 1 command, a time-out of 3 updates, pings every 2, a clock that wraps at 12 | the tree stays one; components without an owner are explained; time-outs are earned, and come; who stays cannot stop the server |
| `weapons` | rifle or shotgun, and sidearm, magazines 2/2/1, 3 rounds of rest, 2 given | rounds are accounted for, empty magazines are filled in time |
| `lives` | 2 players of one team, 2 health, hits and heals of 1, waves every 2 ticks, 4 messages, at most 2 with commands and 3 with hits; 2 players around a pickup that is gone for 1 frame, 2 of health or ammo at most, 1 reset | server and spawner agree; a life ends in one request; a request that can be carried out is in the end; a pickup is never lost or doubled, who needs it gets it, nobody from afar |
| `match` | 3 points visited 2, 0, 1, a player per team, timers of 1, ticks of 1 or 2 | contiguous territories, sieges succeed, a lost home leads to a new map |
| `snapshots` | a map of 2 groups; 3 snapshots of one part, of two, or that just fill a part; 1 datagram doubled; a `size_t` of 8 bytes | what is complete is parsed |
| `replica` | 5 entities, of two servers (1,089,167 states) | the maps mirror each other and copies are of what there is, or of what a late snapshot brought back; the local player is found; what the new map brought stays |
| `controls` | 5 keys: forward, back and right by a key each, the ability by a key and a mouse button; a cooldown of 3; 2 changes per tick, 2 keys down | no direction without a key |
| `presentation` | the player model's tree of 29 nodes, 3 commands; 4,280 trees of at most 5 nodes; sounds: 3 at a time and 2 events that wait without music, 1 and 3 with any number of cameras; 2 lives | copies of a subtree have equal weights, every small tree gets its pose, the feet follow and blends settle; only current music plays, finished sounds are freed |
| `rendering` | octree: a cube of 8, two levels of nodes, 9 boxes of which 2 are in the tree, 8 rays, 3 frusta; 2 models, one skinned, 2 shadow splits, 2 settings; sizes 1 and 2, 3 levels of multisampling, 3 of quality; 5 entities and a widget, colours up to 1, 2 changes | no search passes over anything, jobs are drawn with what is theirs, scenes leave no trace, targets are current and none is lost, picks find what was painted, the solid are hit, clicks are meant |
| `nearest` | one level of nodes, 2 boxes, 3 rays | ends in the counterexample of [Where code and comments disagree](#where-code-and-comments-disagree) |

`MCEventBroker.cfg` (`TypeOK`, `DeliveryIsConsistent`, `IterationIsUndisturbed`
of the broker alone, with `Unsubscribe` at any time) is kept for those who
change the broker, `MCSnapshotChannelRead.cfg` shows a disagreement.

Properties that are proved for every instance are checked by a run only where
they are what one would look for first; the others (`DeliveryIsConsistent`,
`DeletionsAreAnnouncedOnce`, `ShotsKeepTheirInterval`, `ReloadsTakeTheirTime`,
`DeliveredWhole`, `TheNewestIsKept`, `KeysAreCounted`, `DashesAreHeeded`, ...)
are defined in the modules and can be added to the configurations.

Why these bounds: three events let one be in each queue of the broker and one
more be published before the tick is over; a relay that is subscribed during the
game belongs to a context the broker does not know yet. Three threads are one
more than the resources that can be asked for at once and share a third. Four
slots hold a freed slot below, between and above allocated ones; three outside
addresses give `m_ExtraMemory` a middle. Four entities make a cycle of three and
one to look at it. Two sessions let a kick or a late Connect meet another
player's time-out; the clock wraps within a run. Two players give a wave a
request to pass over and a killer; three hits are a wound that lets a pickup be
taken, a deadly hit and one more after the heal, all before the player is
deleted. Three points are the two homes and a point between them that is
nobody's: the first map on which a capture changes which point is next for both
teams; the pool's order matters only in whether a point is visited before or
after the one captured, and 2, 0, 1 has both. Three snapshots are one more than
the map of that run may hold, so that one is evicted while another is
incomplete; a doubled datagram can come before its group is parsed, and after
it, when it makes a new one. Five entities are a map, a player with a weapon
and another of a second server. Two keys for one command and two commands of
one axis are what the sums and the count of keys can get wrong. Three commands
start a blend, another while it goes on, and one that is queued behind both.
Three events let the cameras of the menu, a match and its end, or a match twice,
be set before one Update; over Updates they follow each other in any number.
Two models make every pair of jobs in a queue; the colour that does not exist
is reached with the third entity. What the bounds could hide in the number of
relays, slots, entities, rounds, points, players, groups, parts and keys is
excluded by the proofs.

`MaxEvents` bounds `Publish`; `MaxEntities`, `MaxComponents` the world's and the
replica's actions; `MaxSessions`, `MaxCommands` the clients; `MaxCommands` and
`MaxHits`, both together `MaxMessages`, the players' messages; `MaxGiven`,
`MaxShields` the weapons' events;
`MaxListed`, `MaxResets` the pickups'; `MaxGroup`, `MaxDuplicates` the channel;
`MaxChanges`, `MaxKeysDown` the keys; `MaxSounds`, `MaxLives`, `MaxEvents`,
`MaxPresses` the sounds and the events that wait, with music `SoundsWithMusic`,
`EventsWithMusic` (a camera is an event, and music has no bound of its own);
`MaxObjects` the octree; `MaxChanges` the entities of `Picking`. Nothing else is
cut off. Deadlock checking is off in `MCServer`, `MCWeapons`, `MCPlayerLife` and
`MCReplica`: there a program that has terminated, or a bound that is reached,
stops the model.

## Fairness

- `GameTick`: `WF_tickVars(TickStep)`. `main` calls `Tick` as long as the game
  runs and no call of `Process` is left in the middle; handlers return.
  Publishing and subscribing are choices and get no fairness.
- `Resources`: weak fairness of the main loop and of each thread. A thread of
  the operating system that can run does; no constructor loops for ever.
- `PlayerLife`: `WF_vars(TickStep)`, `CapturePoint`: `WF_vars(Tick)`, `Animation`:
  `WF_vars(Update)`: the main loop again. Messages, pickups and disconnects may
  never come; players need never move, be hurt or spawn; commands need never be
  given.
- `SnapshotChannel`: weak fairness of `StartDrain`, `DeliverPacket` and
  `EndDrain`. The client's loop calls `Client::Update` every frame; its first
  loop ends when the socket is empty, the second when nothing complete is left.
  Datagrams need never be read, the server need never send, clients may leave.
- `Sound`: `WF_vars(Update)`, and of each source that it finishes: sounds of
  entities do not loop. Paused sources do not finish.
- In a run of several machines each has its own fairness, for its own behaviours;
  those of `MCPresentation` with music have none, nothing must come of them.
- The other modules promise no progress: `TheSilentAreRemoved`,
  `EmptyMagazinesAreRefilled` and `TheNeedyAreServed` count the ticks something
  takes, and are invariants.

## Proofs

All theorems hold for every value of the constants that satisfies the module's
named assumption (`BrokerAssumption`, `PoolAssumption`, `PointAssumption`,
`ChannelAssumption`, `WorldAssumption`, `WeaponsAssumption`,
`SidearmAssumption`, `ControlsAssumption`, `KeysAssumption`, `TickAssumption`,
`OneTurnEach`, `ResourcesAssumption`, `PickingAssumption`, `SessionAssumption`,
`PickupsAssumption`, `ReplicaAssumption`), which only say what the constants are:
`NumPoints >= 2`, `PoolOrder` visits every point, outside addresses are no slots,
an entity file is a tree itself, a weapon is not drawn faster than it fires, a
time-out fits on the clock, there are finitely many keys, players and entities,
and so on. TLC evaluates them on every run of their module. Three theorems say in
their statement what else they need: those of `PlayerLife` that the constants read
from components are numbers (`ConstantsAreNumbers`), and
`EmptyMagazinesAreAlwaysRefilled` that the program is a client (`IsClient`).

**Event broker.** `Inv` is the type invariant, `DeliveryIsConsistent`, and that
the queues hold only numbers of published events: without it, publishing could
change the type of the event under delivery. `IterationIsNeverDisturbed` follows
since `isProcessing` holds throughout a call, so `Subscribe` is deferred.

**Ticks.** `TickInv` adds to it where a tick stands. `QueuesInOrder`: the two
queues are the last numbers published, the older ones in the read queue, at
every step of `TickSteps` but the last, where a swap has just put the new events
into the read queue. `InputIsFirst`: what the devices and the proxy published
are the first events of the tick, and none of them is dropped before the systems
have read them. `NothingIsMissed`: a relay that has received an event has
received every one of its type up to `Handed(r)`, the last one its context had a
chance at, which depends on whether its turn is ahead, under way or over. Of
`TickSteps` only its shape is used (`TickShape`: where the swaps, the clears and
each turn are), so the systems may be any number. `TickImplementsBus` follows: a
delivery is of event `Handed(r) + 1`, and so of the next of its type. The bus
and `InputIsReadAtOnce` need `OneTurnEach`, that a context has one turn in the
pipeline: `RenderSystem::Update` processes its own a second time
(`RenderSystem.cpp:444`), so it is not among `SystemContexts`.

**Memory pool.** `Inv` adds to the counts, `begin()` and the hint that
`m_ExtraMemory` has no duplicates. Lemmas say what the two searches for a slot
find (from the well-foundedness of `<` on the naturals) and how each allocation
and free changes the set of objects in use. From `HintIsSound` a search that
reaches the end means that every slot is taken (`OutsideIsOnlyUsedWhenFull`),
and `Implementation` is the refinement of `ObjectStore`: allocation adds an
address that is not in use, freeing removes one, loops stutter.
`LoopsAreAlwaysComplete` has an invariant of its own, `LoopInv`: what was in use
throughout and lies behind the iterator was visited (`PoolIsSeen`), and while
`m_ExtraMemory` only grows, the objects outside keep their places before the
`end()` that was fixed at the beginning (`OutsideIsSeen`).

**World.** `Inv` is `TreeInv` and `PoolInv`. That there is no cycle is said
without recursion: for every entity there is a set that holds all that is below
it, and not itself (`NotBelowItself`); creating and moving an entity grow those
sets, deleting shrinks them, and a clone gets the images of its originals' sets
under the bijection of the ids. `PoolInv` keeps the map from entities to
components the inverse of the components that are no strays.

**Weapons.** `Inv` holds for each gun: `Sound` (rounds add up; the history
clocks are never behind the timers they measure, so that a cooldown of 0 means
that the interval is over and a timer of 0 that the reload took its time) and
`Prompt` (an empty sidearm has its reload queued or under way). One lemma per
operation on a gun, one step per action. `EmptyMagazinesAreAlwaysRefilled` adds
`ServedInv`: what an empty magazine has waited and the timers it still has to
wait for are together no more than its `Patience`, with one tick for the reload
to be queued, and two for a rifle, whose client asks for it by a command of its
own (`auto`). A dedicated server has no such command and waits for the client's.

**Controls.** `Inv` relates the controller to the last values of the commands.
`KeysAreAlwaysCounted` holds as long as no press went unheard: the count is the
number of movement commands that are not 0, a set's cardinality that a command
changes by one. `MotionAlwaysNeedsKeys` goes through all four layers: a
handler's value of a command is the sum of the values bound to the keys that are
down (`ValuesAreSums`), so it is 0 without a key of the command. Sums over sets
of keys are functions that satisfy the equations of a sum (`SumsUp`); that they
exist, and are 0 where all weights are, is shown with a least counterexample:
strict inclusion of finite sets is well-founded, which is why there must be
finitely many keys.

**Lives of players.** `PlayerLifeInv` has the types (`Typed`, with no bound on
the number of entities), `SessionInv` and `DeathInv`. `SessionInv` says for
every part of a tick which of the events read so far the Server and
`PlayerSpawnSystem` have been told (`Told`, `Followed`): the Server learns of a
spawn first, the system later in the tick, and in between the last spawn of a
player in the queue is what they will agree on. `DeathInv`: a queue tells of one
death of an entity at most, since damage of a tick is handled before its heals
(`DamageFirst`), so who died in it stays at 0 or less while there is damage to
come (`TheDyingStayDown`); and an entity whose death made a request made one,
and is deleted before the tick ends (`RequestsAreFinal`).

**Capture points.** `Inv` is `TypeOK` and the four invariants, with three facts
that make them inductive: where a tick stands (`TickInv`), that the homes are
owned (`HomesAreOwned`), and how the flags of a match hang together
(`MatchInv`: from the win to the reset the map is the winner's and the system
stands still; from the reset until it is handled the map is the fresh one). The
argument: only `NextPossible(t)` is ever captured and it is adjacent to the
contiguous territory of `t` (`NextIsBeyond`, `CaptureKeepsContiguity`); a team
that lost its home has lost everything, since its territory starts there
(`LoserOwnsNothing`), so it can capture nothing in the calls before the win is
published; the call after a capture announces it before that same call can find
the winner. `TimersAlwaysSettle` uses that after a capture is answered, all
timers but those of next points are set, and next points change only by another
capture.

**Snapshots.** `Inv` says that every datagram in flight, and every index in the
map, is a part of a packet that was sent, and that a vector of the map holds no
index twice. A vector as long as the group size its headers announce then holds
every part of the packet, by counting (`DeliveredWhole`): the announced size is
never less than the number of parts, and where it is one more the vector never
gets there. What goes to make room is a proper lower part of the map, so the
highest group stays (`TheNewestIsKept`), and a call that returns false has
looked at every group (`DrainSettles`). `NarrowSnapshotsInOrder` needs a
`size_t` of four bytes and that `m_LastReceivedSnapshotGroup` is the group
parsed last; with eight bytes it is false.

**Replica.** `ReplicaInv` has three parts. *What is told*: whatever snapshots
had of an entity was always the same (`KnownIs`; a weapon's parent is a player of
a lower number, and comes before it), the server's world agrees with it
(`ServerIs`), and every message in the stream is about what it can be about: a
deletion about what is gone, a spawn about a player of this client
(`MessagesAre`). *What is kept*: the replica is `SaneBy` all that. Both maps mirror
the copies; every copy is of something that was told of, below the copy of its
entity's parent or, unless it is a weapon, below nothing; and what is gone and not
late is doomed (`GhostsBy`). *Nothing else*: without a server there are no copies.
The difficulty is the cascade. `Cascade` is a recursive function; that it
stops is shown with a least counterexample, since it only grows in a finite set of
copies, and what it gives is the least set that has the deleted and everything
below what it has (`TakenIs`). From then on only that is used: what remains after
a deletion is doomed by what remains to doom it (`DoomedIsLeft`, `DeletedIsSane`),
and more messages doom more. Parsing a snapshot is a fold over its entities,
`Sane` is kept by each (`SaneStep`) and so by all (`EntitiesAreParsed`); nothing
that was there goes (`Kept`). `CopiesAlwaysStay`: below a copy of what is gone
there are only copies of what is gone, because the parents of what is there are
there (`OnlyTheGoneGo`: the copies of the gone are a set closed under the
cascade, and the cascade is the least one), so that no deletion, however late, and
no death takes a copy of what is there. `PlayerIsAlwaysFollowed` has a second
invariant, `FollowInv`: of the player the server gave this client, the spawn is
still in the stream, or waits for its copy, or its copy is the last that was
announced (`IsFollowed`), but for late copies and earlier sessions. Its core is the
order of the stream: whatever takes away a player of this client is followed by
the announcement of the next (`UndoneBefore`), and the spawn of one who is gone by
what takes him away (`SpawnsAreUndone`). So a player who is announced late cannot
hide the one there is.

**Resources.** `ResourcesInv` says that every call of `Load` on a stack fits
(`CallFits`): what its constructor has loaded is still in the cache under the
number it was given; a resource that is looked for or being made has no thread
left; what is being made is not in the cache. On the stack of the main thread,
what is loaded on top is below what is needed underneath (`MainFits`), and so by
the assumption it is not what a constructor further down has loaded and holds:
`HeldIsAlwaysAlive`. A loading thread is in one call, of the file it is
registered for (`WorkersFit`), and a file has one thread:
`NothingIsEverMadeTwice`.

**Picking.** The picture is a function over the turns of the painting: with
`Painted` the states of the painting satisfy the equations of the loop, and a
least counterexample shows that every state is a picture (`PictureInv`: an entry
has the colour of its key, a colour is of one entity at most but for the last of a
row). From it `WhatIsDrawnIsPicked`. `WhoIsSolidIsHit` needs that the frame has
every solid entity that was seen in its queue (`SolidAreQueued`), that what is not
solid has faded or has glass (`FadedInv`), and that nothing in a queue is passed
over. A queue is any order of a finite set (`AllAreQueued`). `ClicksAreAlwaysMeant`
follows each event of `ButtonSystem` from the pick that caused it.

**Server sessions.** An update is a chain of stages, each of which reads streams
or datagrams in a loop; a stage keeps `Reads` (types, who is connected, and in
peace that nothing was read that stops the server), by a least counterexample for
each loop. `ClocksAgree` is what the time-outs rest on: as long as a player's
silence is within the patience, the stamp of his last answer lies as far back on the
clock, modulo its wrap, as the history `silent` says (`Ago`), and so does the last
ping (`since`). Nobody is due who answered in time (`TimeOutsAreAlwaysEarned`), and
who did not is, at the first check after a ping, unless the distance is one the
clock cannot hold (`TheSilentAreAlwaysRemoved`). `ServerAlwaysOutlivesWhoStays` is
`Quiet => AtPeace`: as long as nobody left, was removed or gave a command, every
stream and datagram under way is harmless.

**Pickups.** `PickupsInv` says of the list `atMaximum` that it names a pair once,
that who is listed touches the pickup or will be told to have left, and is not
told to have touched it again (`ListIsRight`); that a touch that was told is true
(`TouchesAreTrue`), a pair is told of once (`ToldOnce`), and who is near but does
not touch is let go (`TheNearAreLetGo`). The events of a frame are a fold, of
which `Handled(w, n)` is what holds after `n` of them; the timers another, with
`Updated(w, count)`. Then `PickupsAreAlwaysConserved`: pickups there and awaited
are one, and those that were awaited when the map was reset. That sum was first
stated without them; TLC's counterexample with a pickup taken just before a reset
is what `surplus` stands for. `NobodyEverTakesFromAfar`: who is listed was told to
have left before he was out of reach of the list. `TheNeedyAreAlwaysServed` rests
on `Serving`: whoever touches a pickup has just come, or is listed among the first
`MaxListed - wanted`, because each frame that leaves the pickup takes an entry off
before his (`ListServes`), and what is added is added behind him. It was first
stated of a pickup, whoever was in need of it; that cannot be proved, and TLC shows
with four players that it is not so: as each of them is killed his entry stays, and
costs the next one a frame. Now it is stated of a player who stays.

**How loops are proved.** A recursive function `f[i \in 0 .. n]` is a choice of a
function that satisfies its equations; that one exists, that it is the one the
definition gives and that every value of it has a property are each shown for the
least index at which they would fail (`LeastExists`, from the well-foundedness of
`<` on the naturals). Nothing here needs an induction theorem with an operator as
its parameter.

**Left to TLC.** Liveness (`NothingIsForgotten`, `EveryLoadSettles`, in the core
`ShownIsLoaded`, `EveryoneIsSpawned`, `SiegesSucceed`, `LostHomesEndTheMatch`,
`CompleteOnesAreDelivered`, the second halves of `BlendsEndAsAsked` and
`SoundsAreFreed`): no prover here handles fairness. `CopiesAgree`,
`PosesAreComputed`, `BlendsEndAsAsked`, `OnlyCurrentMusicPlays` and
`SoundsAreFreed`: `BlendTree`, `Animation` and `Sound` declare recursive
operators, in whose presence the prover has no arithmetic. `NothingIsPassedOver`: the same of `Octree`.
`DrawingIsSound`, `LooksTheSame` and `TargetsAreKept`: their constants are the
program's own passes and targets, of which the runs have those that matter; there
is less to generalise. Every other invariant and action property that a passing run
checks is a theorem.

## Where code and comments disagree

One run ends in a counterexample:

- `nearest` — `Collision.h:110` says that the list a ray is tested against is
  sorted by distance, "e.g. result from ObjectsPossiblyHitByRay", and
  `include/Engine/Core/Octree.h:319` that the closest child is the first to be
  hit. Children are sorted by the distance of their centres, and a box that lies
  in several is listed with the first: a long box comes before a nearer one.

Other sentences of the repository the code does not keep are properties of the
modules, defined beside the others. To see the counterexample, add the property
to the configuration named:

1. `PendingUnsubscriptionsAreProcessed` (`MCEventBroker.cfg`):
   `unsubscribeImmediate` erases the relay from a copy of the context's relays
   (`Engine/Core/EventBroker.cpp:104`); it stays registered.
2. `WavesSpawnEveryone` and `WhoLeftIsGone` (`MCPlayerLife.cfg`): a wave passes
   over the request after each one it carries out (`PlayerSpawnSystem.cpp:114`:
   `it = erase(it)`, then `++it`), though nobody waits for ever
   (`EveryoneIsSpawned`); and a disconnect leaves the player's spawn request, so
   that the next wave spawns somebody who has left, and
   `Server::OnPlayerSpawned` sends to a socket that is not there
   (`Server.cpp:451`, `501`).
3. `CapturesAreEarned` (`MCMatch.cfg` with `MaxTimer = 2`, `DeltaTimes = {1, 3}`):
   defenders push the timer beyond their own end and `abs(timer) > max` gives
   the point to the attacker who comes next (`CapturePointSystem.cpp:226`).
4. `DeadDoNotCapture` (`MCMatch.cfg` with `DeltaTimes = {1}`): `(int)Health == 0`
   takes a player at -1 or less for a healthy one (`CapturePointSystem.cpp:177`).
5. `ReadFromTheStart` (`MCSnapshotChannelRead.cfg`): one `Packet` serves every
   packet of a frame (`Client.cpp:58`), and `ReconstructFromData`
   (`Packet.cpp:110`) leaves its read offset alone: when a frame parses two
   snapshots, the second is read from where the first one ended.
6. `SnapshotsInOrder` (`MCSnapshotChannel.cfg`): `Packet::Group` reads eight bytes
   of a four-byte field, so that the check for old snapshots in `GetNextPacket`
   (`UDPClient.cpp:201`) never finds one in a 64-bit build (a theorem for four
   bytes only).
7. `HolsteringCancelsReloads` (`MCWeapons.cfg`): "Cancel any reload"
   (`AssaultWeaponBehaviour.cpp:200`), but a reload that is queued when the
   weapon is put away is carried out when it is drawn.

Seen while reading, and kept in the models where it matters:

- `Process` of a context nothing is registered for leaves `m_IsProcessing` set;
  harmless, the next full call flushes what was deferred. A health pickup for a
  player deleted meanwhile attaches a Health component to the dead id (`leaked`
  in `PlayerLife`, `strays` in `World`). "only if they are spectating and/or just
  connected" (`PlayerSpawnSystem.cpp:170`) is not so: `m_PlayerEntities` is learnt
  a tick after the spawn, and a command in between makes a second request. The
  group size counts the header of the uncut packet (`UDPServer.cpp:66`): data
  that just fills its parts announces a part that is never sent.
- One listed player is looked at per frame, and a player who dies leaves his entry
  (`PickupSpawnSystem.cpp:43`): when those at a pickup die in turn it may lie
  there, always touched by someone in need.
- The server throws where a command of somebody who left goes into a snapshot
  (`Server.cpp:211`), where a late UDP Connect is of nobody (359), and where a
  player disconnects twice in an update; `TheSilentAreRemoved` holds only up to
  the time a wrapped clock hides, 35.8 minutes in the code.
- `ResourceManager.h:194` promises to rethrow what a thread threw, from a copy
  of the pointer (227) that is always null.
- `FirstPersonInputController.h:309`: a double tap is counted by commands, so two
  keys of one command, or two commands, make one as well.
- The counter of colours runs to 256 where the texture holds 255
  (`PickingPass.cpp:97`): every 257th entity is picked as the one before.
  `cModel["Transparent"]` is set and never taken back (`RenderSystem.cpp:275`),
  so that what was once seen through can never be hit again.
  `ButtonSystem::OnMouseRelease` releases a button that may be gone.
- `RenderState::StencilMask` resets the mask to the new value;
  `DrawFinalPass.cpp:1162` and `1557` are jobs drawn with textures or bones of
  another (the exceptions `Misdrawn` in `Drawing`).
- `AutoBlendQueue::Insert` tests the order of three queued jobs the wrong way
  round; an emitter whose parent is gone keeps `updateEmitters` from the others;
  a ray that runs in the plane of a box's side is taken for a hit.

## What is not modelled

HUD, score and spectator screens, kill feed, end screen, editor: they show
state that others own. Transforms: a cache of matrices. Entity files and
configuration: parsing. Shaders, meshes, keyframes, positions and gains of
sounds, velocities, the resolution of collisions: continuous, out of TLC's
reach; touches and leaves are free inputs of `CapturePoint`. Of what is
modelled, "components" in `PROJECT.json` says part by part what is left out:
payloads of events, fields and names of components, the contents of packets,
damage, the server list, the filter that keeps fields from the network, Reload
of resources, the first-person hands, what two unlocked accesses to one map do
to each other (a data race in `ResourceManager`, taken here as if accesses were
atomic).

## Plan

Done: the core (broker, pool, world), the rules of the game, the network, the
controls, presentation and rendering, and of the invariants and action properties
of the first four a theorem each. Next, in this order:

1. The cascade of `Replica` and the tree of `World` together: that the copies of a
   client are a subtree of the server's world as it was, not only one copy for one
   entity.
2. `Sound`, with its recursive operators rewritten as functions, so that
   `OnlyCurrentMusicPlays` can be proved for any number of sources; then
   `CopiesAgree` for any tree that `BlendTree` builds.
3. `TargetsAreKept`, whose constants are few sizes and levels but any number of
   frames.
4. The stops of the server: `WhoLeftIsGone` fails; which commands in flight are
   harmless to a session that ended could be an invariant of `ServerSession`.
