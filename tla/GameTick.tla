------------------------------ MODULE GameTick ------------------------------
(***************************************************************************)
(* Game::Tick (src/Game/Game.cpp:211-258) as the schedule in which the     *)
(* event broker's queues are swapped, cleared and processed by each        *)
(* context, with SystemPipeline::Update (include/Engine/Core/              *)
(* SystemPipeline.h:59-98). Four swaps put what the input phases publish   *)
(* into the queue of the previous tick's events, which the network and the *)
(* systems process next; everything they publish waits for the next tick.  *)
(***************************************************************************)
EXTENDS EventBroker

CONSTANTS
  InputManager,    (* the context of the input manager                     *)
  InputProxy,      (* the contexts InputProxy::Update processes            *)
  Network,         (* the network context: Client or Server                *)
  SystemContexts,  (* the systems' contexts, in the order they are updated *)
  InitialRelays,   (* the relays subscribed before the first tick          *)
  DeviceEvents,    (* the key and mouse events the input manager publishes *)
  CommandEvents    (* the commands the input proxy makes of them           *)

ASSUME TickAssumption ==
  /\ {InputManager, InputProxy, Network} \subseteq Context
  /\ SystemContexts \in Seq(Context)
  /\ InitialRelays \subseteq Relay
  /\ DeviceEvents \cup CommandEvents \subseteq EventType

(* The input manager listens to the mouse lock, the input handlers to the  *)
(* devices: nothing of what is published after their turn in a tick.       *)
ASSUME InputListeners ==
  \A r \in Relay :
    /\ ContextOf[r] = InputManager => TypeOf[r] \notin DeviceEvents \cup CommandEvents
    /\ ContextOf[r] = InputProxy => TypeOf[r] \notin CommandEvents

(* No context has two turns in a tick but the input manager. RenderSystem  *)
(* is not one of SystemContexts: its Update processes a second time what   *)
(* the pipeline has processed (RenderSystem.cpp:444).                      *)
ASSUME OneTurnEach ==
  /\ InputManager # InputProxy /\ InputManager # Network /\ InputProxy # Network
  /\ \A i \in 1 .. Len(SystemContexts) :
       /\ SystemContexts[i] \notin {InputManager, InputProxy, Network}
       /\ \A j \in 1 .. Len(SystemContexts) :
            SystemContexts[i] = SystemContexts[j] => i = j

VARIABLES
  pc,         (* the step of the tick under way                            *)
  fromInput,  (* history: the events an input phase published              *)
  tickStart   (* history: events published before this tick                *)

tickVars == <<vars, pc, fromInput, tickStart>>

-----------------------------------------------------------------------------

ProcessFor(c) == [op |-> "process", context |-> c]
SwapQueues == [op |-> "swap"]
ClearQueue == [op |-> "clear"]

(* Code outside any call of Process, and the types of events it publishes. *)
Update(types) == [op |-> "update", types |-> types]

(* What the network and the systems publish, their handlers included. *)
GameEvents == EventType \ DeviceEvents

(* Mutant: one swap too few after the input proxy has published. *)
InputStepsSwapForgotten ==
  << ProcessFor(InputManager), SwapQueues,
     ProcessFor(InputManager), Update(DeviceEvents), SwapQueues,
     ProcessFor(InputProxy), SwapQueues,
     Update(CommandEvents) >>

(* Game.cpp:219-229, InputManager::Update and InputProxy::Update inlined. *)
InputSteps ==
  << ProcessFor(InputManager), SwapQueues,
     ProcessFor(InputManager), Update(DeviceEvents), SwapQueues,
     ProcessFor(InputProxy), SwapQueues,
     Update(CommandEvents), SwapQueues >>

(* Game.cpp:236-244: the network processes its events and publishes what   *)
(* it received.                                                            *)
NetworkSteps ==
  <<Update(GameEvents), ProcessFor(Network), Update(GameEvents)>>

(* SystemPipeline::Update: every system processes its events, then updates *)
(* its components.                                                         *)
SystemSteps ==
  [i \in 1 .. 2 * Len(SystemContexts) |->
     IF i % 2 = 1 THEN ProcessFor(SystemContexts[(i + 1) \div 2])
                  ELSE Update(GameEvents)]

(* Mutant: the queue that was processed is cleared before the last swap. *)
TickStepsClearFirst ==
  InputSteps \o NetworkSteps \o SystemSteps \o <<ClearQueue, SwapQueues>>

TickSteps ==
  InputSteps \o NetworkSteps \o SystemSteps \o <<SwapQueues, ClearQueue>>

CurrentStep == TickSteps[pc]

(* To the next step; Tick is called again and again (src/Game/main.cpp:11). *)
Proceed ==
  /\ pc' = IF pc = Len(TickSteps) THEN 1 ELSE pc + 1
  /\ tickStart' = IF pc = Len(TickSteps) THEN Len(published) ELSE tickStart
  /\ UNCHANGED fromInput

StayInStep == UNCHANGED <<pc, fromInput, tickStart>>

-----------------------------------------------------------------------------

TickInit ==
  /\ eventQueueRead = <<>>
  /\ eventQueueWrite = <<>>
  /\ contextRelays = [c \in Context |-> {r \in InitialRelays : ContextOf[r] = c}]
  /\ isProcessing = FALSE
  /\ relaysToSubscribe = {}
  /\ relaysToUnsubscribe = {}
  /\ broker = InitialRelays
  /\ call = NoCall
  /\ published = <<>>
  /\ lastReceived = [r \in Relay |-> 0]
  /\ since = [r \in Relay |-> 0]
  /\ pc = 1
  /\ fromInput = {}
  /\ tickStart = 0

(* The types of events the code that runs may publish: an update, or a     *)
(* handler of the network or a system. The handlers of the input manager   *)
(* and of the input proxy only set their own state.                        *)
Publishable ==
  IF CurrentStep.op = "update" THEN CurrentStep.types
  ELSE IF InHandler /\ pc > Len(InputSteps) THEN GameEvents
  ELSE {}

PublishInTick(t) ==
  /\ t \in Publishable
  /\ Publish(t)
  /\ fromInput' = IF pc <= Len(InputSteps)
                    THEN fromInput \cup {Len(published) + 1}
                    ELSE fromInput
  /\ UNCHANGED <<pc, tickStart>>

(* A system creates a controller that subscribes, as                       *)
(* PlayerMovementSystem::OnPlayerSpawned does (PlayerMovementSystem.cpp:418).*)
SubscribeInTick(r) ==
  /\ InHandler \/ CurrentStep.op = "update"
  /\ pc > Len(InputSteps)
  /\ Subscribe(r)
  /\ StayInStep

EnterProcess ==
  /\ CurrentStep.op = "process"
  /\ BeginProcess(CurrentStep.context)
  /\ IF call' = NoCall THEN Proceed ELSE StayInStep

Dispatch ==
  /\ NextEvent \/ \E r \in Relay : Receive(r)
  /\ StayInStep

LeaveProcess ==
  /\ EndProcess
  /\ Proceed

LeaveUpdate ==
  /\ CurrentStep.op = "update"
  /\ Proceed
  /\ UNCHANGED vars

SwapInTick ==
  /\ CurrentStep.op = "swap"
  /\ Swap
  /\ Proceed

ClearInTick ==
  /\ CurrentStep.op = "clear"
  /\ Clear
  /\ Proceed

(* The steps Game::Tick takes on its own. *)
TickStep ==
  \/ EnterProcess
  \/ Dispatch
  \/ LeaveProcess
  \/ LeaveUpdate
  \/ SwapInTick
  \/ ClearInTick

TickNext ==
  \/ TickStep
  \/ \E t \in EventType : PublishInTick(t)
  \/ \E r \in Relay : SubscribeInTick(r)

(* The main loop calls Tick as long as the game runs, and no call of       *)
(* Process is left in the middle.                                          *)
TickSpec == TickInit /\ [][TickNext]_tickVars /\ WF_tickVars(TickStep)

-----------------------------------------------------------------------------

(* Context c is processed in every tick. *)
Scheduled(c) == \E i \in 1 .. Len(TickSteps) : TickSteps[i] = ProcessFor(c)

(* The events relay r is owed: of its type, published once registered. *)
Owed(r) ==
  {id \in since[r] + 1 .. Len(published) :
     /\ r \in contextRelays[ContextOf[r]]
     /\ Scheduled(ContextOf[r])
     /\ published[id] = TypeOf[r]}

(* The events of the current tick that are in the read queue. *)
ReadThisTick ==
  {eventQueueRead[i] : i \in 1 .. Len(eventQueueRead)} \ (1 .. tickStart)

(* While the network and the systems process events, the read queue holds  *)
(* exactly the input of this tick and none of what they publish: input is  *)
(* responsive (Game.cpp:219), and no event feeds back into the tick it was *)
(* published in and keeps Process from ending.                             *)
OnlyInputIsReadInItsTick ==
  call # NoCall /\ pc > Len(InputSteps) =>
    ReadThisTick = fromInput \ (1 .. tickStart)

(* Every relay sees the events of its type in the order of their           *)
(* publication, each once and none left out.                               *)
Bus == INSTANCE EventBus WITH Listener <- Relay, Wants <- TypeOf,
                              seen <- lastReceived
ImplementsBus == Bus!Spec

(* Nothing that was taken on is forgotten: every event a relay is owed     *)
(* reaches it, though queues are swapped five times and cleared once in a  *)
(* tick, and a subscription made while events are processed takes effect.  *)
NothingIsForgotten ==
  /\ \A r \in Relay, id \in Event :
       id \in Owed(r) ~> lastReceived[r] >= id
  /\ \A r \in Relay :
       r \in relaysToSubscribe ~> r \in contextRelays[ContextOf[r]]

=============================================================================
