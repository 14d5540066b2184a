------------------------------ MODULE CoreProofs ------------------------------
(***************************************************************************)
(* Proofs about the event broker, for every set of contexts, relays and    *)
(* event types: the type invariant, that a call of Process stays           *)
(* consistent, and that no handler disturbs what Process iterates over;    *)
(* then, for every order of systems, that the ticks of the game read their *)
(* input at once and implement the bus of EventBus. And about the resource *)
(* manager: what a constructor holds is alive, and nothing is made twice.  *)
(***************************************************************************)
EXTENDS GameTick, Resources, TLAPS

(* Every queued event was published. *)
QueuedWerePublished ==
  /\ eventQueueRead \in Seq(1 .. Len(published))
  /\ eventQueueWrite \in Seq(1 .. Len(published))

(* The inductive invariant: what a relay is given is looked up by the type *)
(* of the current event, which publishing must not change.                 *)
Inv == TypeOK /\ QueuedWerePublished /\ DeliveryIsConsistent

LEMMA InitInv == Init => Inv
<1> SUFFICES ASSUME Init PROVE Inv
  OBVIOUS
<1>1. TypeOK
  <2>1. contextRelays \in [Context -> SUBSET Relay]
    BY DEF Init
  <2>2. /\ lastReceived \in [Relay -> 0 .. MaxEvents]
        /\ since \in [Relay -> 0 .. MaxEvents]
    BY BrokerAssumption DEF Init
  <2>3. published \in Seq(EventType) /\ Len(published) <= MaxEvents
    BY BrokerAssumption DEF Init
  <2>4. eventQueueRead \in Seq(Event) /\ eventQueueWrite \in Seq(Event)
    BY DEF Init
  <2> QED
    BY <2>1, <2>2, <2>3, <2>4 DEF Init, TypeOK
<1>2. QueuedWerePublished
  BY DEF Init, QueuedWerePublished
<1>3. DeliveryIsConsistent
  BY DEF Init, DeliveryIsConsistent
<1> QED
  BY <1>1, <1>2, <1>3 DEF Inv

(* Registering relays keeps the types of the registry. *)
LEMMA RegisterIsTyped ==
  ASSUME TypeOK, NEW S \in SUBSET Relay, Register(S)
  PROVE  /\ broker' \subseteq Relay
         /\ contextRelays' \in [Context -> SUBSET Relay]
         /\ since' \in [Relay -> 0 .. MaxEvents]
<1>1. Len(published) \in 0 .. MaxEvents
  BY BrokerAssumption DEF TypeOK
<1>2. broker' \subseteq Relay
  BY DEF Register, TypeOK
<1>3. contextRelays' \in [Context -> SUBSET Relay]
  BY DEF Register, TypeOK
<1>4. since' \in [Relay -> 0 .. MaxEvents]
  BY <1>1 DEF Register, TypeOK
<1> QED
  BY <1>2, <1>3, <1>4

(* Neither a step that leaves the call, the registry, the queues and the   *)
(* types of the published events alone, nor the end of a call, can make a  *)
(* delivery inconsistent.                                                  *)
LEMMA DeliveryKept ==
  ASSUME Inv, UNCHANGED <<call, contextRelays, eventQueueRead>>,
         isProcessing' = isProcessing,
         \A id \in 1 .. Len(published) : published'[id] = published[id]
  PROVE  DeliveryIsConsistent'
<1> SUFFICES ASSUME call # NoCall, call.pending # {}
             PROVE  call.pending \subseteq Receivers(call.context, published[CurrentEvent])'
  BY DEF Inv, DeliveryIsConsistent
<1>1. /\ call \in Delivery
      /\ call.index \in 1 .. Len(eventQueueRead)
      /\ call.pending \subseteq Receivers(call.context, published[CurrentEvent])
  BY DEF Inv, TypeOK, DeliveryIsConsistent, Delivery
<1>2. CurrentEvent \in 1 .. Len(published)
  BY <1>1 DEF CurrentEvent, Inv, QueuedWerePublished
<1>3. CurrentEvent' = CurrentEvent
  BY DEF CurrentEvent
<1>4. published'[CurrentEvent] = published[CurrentEvent]
  BY <1>2
<1>5. Receivers(call.context, published[CurrentEvent])'
        = Receivers(call.context, published[CurrentEvent])
  BY <1>3, <1>4 DEF Receivers
<1> QED
  BY <1>1, <1>5

LEMMA NothingDelivered ==
  ASSUME call' = NoCall
  PROVE  DeliveryIsConsistent'
  BY DEF DeliveryIsConsistent, NoCall

LEMMA PublishPreserves ==
  ASSUME Inv, NEW t \in EventType, Publish(t)
  PROVE  Inv'
<1> USE BrokerAssumption
<1>1. /\ Len(published) \in Nat /\ Len(published) < MaxEvents
      /\ published \in Seq(EventType)
      /\ published' = Append(published, t)
      /\ eventQueueWrite' = Append(eventQueueWrite, Len(published) + 1)
      /\ UNCHANGED <<eventQueueRead, registry, isProcessing, deferred, call,
                     lastReceived>>
  BY DEF Publish, Inv, TypeOK
<1>2. /\ published' \in Seq(EventType)
      /\ Len(published') = Len(published) + 1
      /\ \A id \in 1 .. Len(published) : published'[id] = published[id]
  BY <1>1
<1>3. TypeOK'
  BY <1>1, <1>2 DEF Inv, TypeOK, registry, deferred, Event
<1>4. QueuedWerePublished'
  <2>1. 1 .. Len(published) \subseteq 1 .. Len(published')
    BY <1>1, <1>2
  <2>2. eventQueueRead \in Seq(1 .. Len(published'))
    BY <2>1, <1>1 DEF Inv, QueuedWerePublished
  <2>3. eventQueueWrite \in Seq(1 .. Len(published'))
    BY <2>1, <1>1 DEF Inv, QueuedWerePublished
  <2>4. Len(published) + 1 \in 1 .. Len(published')
    BY <1>1, <1>2
  <2> QED
    BY <1>1, <2>2, <2>3, <2>4 DEF QueuedWerePublished
<1>5. DeliveryIsConsistent'
  BY <1>1, <1>2, DeliveryKept DEF registry
<1> QED
  BY <1>3, <1>4, <1>5 DEF Inv

LEMMA SubscribePreserves ==
  ASSUME Inv, NEW r \in Relay, Subscribe(r)
  PROVE  Inv'
<1>1. UNCHANGED <<eventQueueRead, eventQueueWrite, isProcessing,
                  relaysToUnsubscribe, call, published, lastReceived>>
  BY DEF Subscribe, queues, history
<1>2. CASE isProcessing
  <2>1. /\ relaysToSubscribe' = relaysToSubscribe \cup {r}
        /\ UNCHANGED <<contextRelays, broker, since>>
    BY <1>2 DEF Subscribe, registry
  <2>2. TypeOK'
    BY <1>1, <2>1 DEF Inv, TypeOK
  <2>3. DeliveryIsConsistent'
    BY <1>1, <2>1, DeliveryKept
  <2> QED
    BY <1>1, <2>2, <2>3 DEF Inv, QueuedWerePublished
<1>3. CASE ~ isProcessing
  <2>1. Register({r}) /\ relaysToSubscribe' = relaysToSubscribe
    BY <1>3 DEF Subscribe
  <2>2. TypeOK'
    BY <1>1, <2>1, RegisterIsTyped DEF Inv, TypeOK
  <2>3. call' = NoCall
    BY <1>1, <1>3 DEF Inv, DeliveryIsConsistent
  <2> QED
    BY <1>1, <2>2, <2>3, NothingDelivered DEF Inv, QueuedWerePublished
<1> QED
  BY <1>2, <1>3

LEMMA UnsubscribePreserves ==
  ASSUME Inv, NEW r \in Relay, Unsubscribe(r)
  PROVE  Inv'
<1>1. /\ broker' = broker \ {r}
      /\ relaysToUnsubscribe' \in SUBSET Relay
      /\ UNCHANGED <<eventQueueRead, eventQueueWrite, isProcessing,
                     relaysToSubscribe, call, since, published, lastReceived,
                     contextRelays>>
  BY DEF Unsubscribe, UnsubscribeImmediate, queues, history, Inv, TypeOK
<1>2. TypeOK'
  BY <1>1 DEF Inv, TypeOK
<1>3. DeliveryIsConsistent'
  BY <1>1, DeliveryKept
<1> QED
  BY <1>1, <1>2, <1>3 DEF Inv, QueuedWerePublished

LEMMA BeginProcessPreserves ==
  ASSUME Inv, NEW c \in Context, BeginProcess(c)
  PROVE  Inv'
<1>1. UNCHANGED <<queues, registry, deferred, history>>
  BY DEF BeginProcess
<1>2. /\ isProcessing' = TRUE
      /\ call' = IF contextRelays[c] = {}
                   THEN NoCall ELSE [context |-> c, index |-> 0, pending |-> {}]
  BY DEF BeginProcess
<1>3. call' \in Delivery \cup {NoCall}
  BY <1>2 DEF Delivery
<1>4. TypeOK'
  BY <1>1, <1>2, <1>3 DEF Inv, TypeOK, queues, registry, deferred, history
<1>5. DeliveryIsConsistent'
  BY <1>1, <1>2 DEF DeliveryIsConsistent, Inv, TypeOK, queues
<1> QED
  BY <1>1, <1>4, <1>5 DEF Inv, QueuedWerePublished, queues, history

LEMMA NextEventPreserves ==
  ASSUME Inv, NextEvent
  PROVE  Inv'
<1> DEFINE n == call.index + 1
<1>1. /\ call \in Delivery
      /\ n \in 1 .. Len(eventQueueRead)
      /\ call' = [context |-> call.context, index |-> n,
                  pending |-> Receivers(call.context, published[eventQueueRead[n]])]
      /\ UNCHANGED <<queues, registry, isProcessing, deferred, history>>
  BY DEF NextEvent, Inv, TypeOK, Delivery
<1>2. Receivers(call.context, published[eventQueueRead[n]]) \in SUBSET Relay
  BY <1>1 DEF Receivers, Inv, TypeOK, Delivery
<1>3. call' \in Delivery
  BY <1>1, <1>2 DEF Delivery
<1>4. TypeOK'
  BY <1>1, <1>3 DEF Inv, TypeOK, queues, registry, deferred, history
<1>5. DeliveryIsConsistent'
  BY <1>1 DEF DeliveryIsConsistent, Inv, NextEvent, CurrentEvent, Receivers,
              queues, registry, history
<1> QED
  BY <1>1, <1>4, <1>5 DEF Inv, QueuedWerePublished, queues, history

LEMMA ReceivePreserves ==
  ASSUME Inv, NEW r \in Relay, Receive(r)
  PROVE  Inv'
<1>1. /\ call \in Delivery
      /\ call' = [call EXCEPT !.pending = call.pending \ {r}]
      /\ r \in call.pending
      /\ UNCHANGED <<queues, registry, isProcessing, deferred, published>>
  BY DEF Receive, Inv, TypeOK
<1>2. /\ isProcessing
      /\ call.index \in 1 .. Len(eventQueueRead)
      /\ call.pending \subseteq Receivers(call.context, published[CurrentEvent])
  BY <1>1 DEF Inv, TypeOK, DeliveryIsConsistent, Delivery, Receive
<1>3. call' \in Delivery
  BY <1>1 DEF Delivery
<1>4. CurrentEvent \in Event
  BY <1>2 DEF CurrentEvent, Inv, TypeOK
<1>5. lastReceived' \in [Relay -> 0 .. MaxEvents]
  BY <1>4 DEF Receive, Inv, TypeOK, Event
<1>6. TypeOK'
  BY <1>1, <1>3, <1>5 DEF Inv, TypeOK, queues, registry, deferred
<1>7. DeliveryIsConsistent'
  <2>1. /\ call'.index = call.index /\ call'.context = call.context
        /\ call'.pending = call.pending \ {r}
    BY <1>1 DEF Delivery
  <2>2. Receivers(call.context, published[CurrentEvent])'
          = Receivers(call.context, published[CurrentEvent])
    BY <1>1, <2>1 DEF Receivers, CurrentEvent, queues, registry
  <2> QED
    BY <1>1, <1>2, <2>1, <2>2 DEF DeliveryIsConsistent, queues
<1> QED
  BY <1>1, <1>6, <1>7 DEF Inv, QueuedWerePublished, queues

LEMMA EndProcessPreserves ==
  ASSUME Inv, EndProcess
  PROVE  Inv'
<1>1. /\ isProcessing' = FALSE /\ call' = NoCall
      /\ relaysToSubscribe' = {} /\ relaysToUnsubscribe' = {}
      /\ Register(relaysToSubscribe)
      /\ UNCHANGED <<queues, history>>
  BY DEF EndProcess
<1>2. TypeOK'
  BY <1>1, RegisterIsTyped DEF Inv, TypeOK, queues, history
<1> QED
  BY <1>1, <1>2, NothingDelivered DEF Inv, QueuedWerePublished, queues, history

LEMMA QueueStepPreserves ==
  ASSUME Inv, Swap \/ Clear
  PROVE  Inv'
<1>1. /\ call' = NoCall
      /\ UNCHANGED <<contextRelays, broker, since, isProcessing, relaysToSubscribe,
                     relaysToUnsubscribe, published, lastReceived>>
  BY DEF Swap, Clear, registry, deferred, history
<1>2. TypeOK' /\ QueuedWerePublished'
  <2>1. CASE Swap
    <3>1. eventQueueRead' = eventQueueWrite /\ eventQueueWrite' = eventQueueRead
      BY <2>1 DEF Swap
    <3> QED
      BY <1>1, <3>1 DEF Inv, TypeOK, QueuedWerePublished
  <2>2. CASE Clear
    <3>1. eventQueueRead' = eventQueueRead /\ eventQueueWrite' = <<>>
      BY <2>2 DEF Clear
    <3> QED
      BY <1>1, <3>1 DEF Inv, TypeOK, QueuedWerePublished
  <2> QED
    BY <2>1, <2>2
<1> QED
  BY <1>1, <1>2, NothingDelivered DEF Inv

LEMMA NextPreserves ==
  ASSUME Inv, [Next]_vars
  PROVE  Inv'
<1>1. CASE ClientStep
  BY <1>1, PublishPreserves, SubscribePreserves, UnsubscribePreserves DEF ClientStep
<1>2. CASE ProcessStep
  BY <1>2, BeginProcessPreserves, NextEventPreserves, ReceivePreserves,
     EndProcessPreserves DEF ProcessStep
<1>3. CASE Swap \/ Clear
  BY <1>3, QueueStepPreserves
<1>4. CASE UNCHANGED vars
  <2>1. DeliveryIsConsistent'
    BY <1>4, DeliveryKept DEF vars
  <2> QED
    BY <1>4, <2>1 DEF vars, Inv, TypeOK, QueuedWerePublished
<1> QED
  BY <1>1, <1>2, <1>3, <1>4 DEF Next

(* The inductive invariant holds in every state of every broker. *)
THEOREM Invariance == Spec => []Inv
<1>1. Init => Inv
  BY InitInv
<1>2. Inv /\ [Next]_vars => Inv'
  BY NextPreserves
<1> QED
  BY <1>1, <1>2, PTL DEF Spec

(* Every variable has its type. *)
THEOREM TypeCorrect == Spec => []TypeOK
<1>1. Inv => TypeOK
  BY DEF Inv
<1> QED
  BY <1>1, Invariance, PTL

(* While Process delivers, what it still has to deliver stays registered   *)
(* and in the queue (EventBroker.cpp:42-56), whatever the handlers call.   *)
THEOREM DeliveryIsAlwaysConsistent == Spec => []DeliveryIsConsistent
<1>1. Inv => DeliveryIsConsistent
  BY DEF Inv
<1> QED
  BY <1>1, Invariance, PTL

(* No step of a handler changes the relays or the queue of the call that   *)
(* is under way.                                                           *)
THEOREM IterationIsNeverDisturbed == Spec => IterationIsUndisturbed
<1>1. Inv /\ [Next]_vars =>
        [call # NoCall /\ call' # NoCall =>
           UNCHANGED <<contextRelays, eventQueueRead>>]_vars
  <2> SUFFICES ASSUME Inv, Next, call # NoCall, call' # NoCall
               PROVE  UNCHANGED <<contextRelays, eventQueueRead>>
    OBVIOUS
  <2>1. isProcessing
    BY DEF Inv, DeliveryIsConsistent
  <2>2. CASE ClientStep
    BY <2>1, <2>2 DEF ClientStep, Publish, Subscribe, Unsubscribe, registry,
                      queues, UnsubscribeImmediate
  <2>3. CASE ProcessStep
    BY <2>3 DEF ProcessStep, BeginProcess, NextEvent, Receive, EndProcess,
                registry, queues
  <2>4. CASE Swap \/ Clear
    BY <2>4 DEF Swap, Clear
  <2> QED
    BY <2>2, <2>3, <2>4 DEF Next
<1> QED
  BY <1>1, Invariance, PTL DEF Spec, IterationIsUndisturbed

-----------------------------------------------------------------------------
(* The broker in the tick of the game (GameTick).                          *)

Last == Len(TickSteps)

(* The shape of a tick: nine steps of input, three of the network, two for *)
(* every system, a swap and a clear.                                       *)
Shape ==
  /\ Last = 14 + 2 * Len(SystemContexts)
  /\ TickSteps[1] = ProcessFor(InputManager)
  /\ TickSteps[2] = SwapQueues
  /\ TickSteps[3] = ProcessFor(InputManager)
  /\ TickSteps[4] = Update(DeviceEvents)
  /\ TickSteps[5] = SwapQueues
  /\ TickSteps[6] = ProcessFor(InputProxy)
  /\ TickSteps[7] = SwapQueues
  /\ TickSteps[8] = Update(CommandEvents)
  /\ TickSteps[9] = SwapQueues
  /\ TickSteps[10] = Update(GameEvents)
  /\ TickSteps[11] = ProcessFor(Network)
  /\ TickSteps[12] = Update(GameEvents)
  /\ \A i \in 1 .. Len(SystemContexts) :
       /\ TickSteps[11 + 2 * i] = ProcessFor(SystemContexts[i])
       /\ TickSteps[12 + 2 * i] = Update(GameEvents)
  /\ TickSteps[Last - 1] = SwapQueues
  /\ TickSteps[Last] = ClearQueue

(* What the concatenation of two sequences holds. *)
LEMMA Joined ==
  ASSUME NEW S, NEW s \in Seq(S), NEW t \in Seq(S)
  PROVE  /\ s \o t \in Seq(S) /\ Len(s \o t) = Len(s) + Len(t)
         /\ \A i \in 1 .. Len(s) : (s \o t)[i] = s[i]
         /\ \A i \in 1 .. Len(t) : (s \o t)[Len(s) + i] = t[i]
<1>1. s \o t \in Seq(S) /\ Len(s \o t) = Len(s) + Len(t)
  OBVIOUS
<1>2. \A i \in 1 .. Len(s) : (s \o t)[i] = s[i]
  OBVIOUS
<1>3. ASSUME NEW i \in 1 .. Len(t) PROVE (s \o t)[Len(s) + i] = t[i]
  <2>1. Len(s) + i \in 1 .. Len(s) + Len(t) /\ Len(s) + i > Len(s) /\ Len(s) + i - Len(s) = i
    OBVIOUS
  <2>. QED BY <2>1
<1> QED
  BY <1>1, <1>2, <1>3

(* The steps of a tick. *)
LEMMA TickShape == Shape
<1> DEFINE any == {ProcessFor(c) : c \in Context} \cup {SwapQueues, ClearQueue}
                    \cup {Update(T) : T \in SUBSET EventType}
           n == Len(SystemContexts)
           a == InputSteps \o NetworkSteps
           b == a \o SystemSteps
           end == <<SwapQueues, ClearQueue>>
<1>1. n \in Nat /\ \A i \in 1 .. n : SystemContexts[i] \in Context
  BY TickAssumption
<1>2. InputSteps \in Seq(any) /\ Len(InputSteps) = 9
  BY TickAssumption DEF InputSteps
<1>3. NetworkSteps \in Seq(any) /\ Len(NetworkSteps) = 3
  BY TickAssumption DEF NetworkSteps, GameEvents
<1>4. end \in Seq(any) /\ Len(end) = 2 /\ end[1] = SwapQueues /\ end[2] = ClearQueue
  OBVIOUS
<1>5. SystemSteps \in Seq(any) /\ Len(SystemSteps) = 2 * n
  <2>1. \A i \in 1 .. 2 * n : i % 2 = 1 => (i + 1) \div 2 \in 1 .. n
    BY <1>1
  <2>2. \A i \in 1 .. 2 * n :
          (IF i % 2 = 1 THEN ProcessFor(SystemContexts[(i + 1) \div 2])
                        ELSE Update(GameEvents)) \in any
    BY <1>1, <2>1 DEF GameEvents
  <2>3. 2 * n \in Nat
    BY <1>1
  <2> QED
    BY <2>2, <2>3 DEF SystemSteps
<1>6. \A i \in 1 .. n :
        /\ SystemSteps[2 * i - 1] = ProcessFor(SystemContexts[i])
        /\ SystemSteps[2 * i] = Update(GameEvents)
  <2> SUFFICES ASSUME NEW i \in 1 .. n
               PROVE  /\ SystemSteps[2 * i - 1] = ProcessFor(SystemContexts[i])
                      /\ SystemSteps[2 * i] = Update(GameEvents)
    OBVIOUS
  <2>1. /\ 2 * i - 1 \in 1 .. 2 * n /\ 2 * i \in 1 .. 2 * n
        /\ (2 * i - 1) % 2 = 1 /\ (2 * i) % 2 = 0
        /\ ((2 * i - 1) + 1) \div 2 = i
    BY <1>1
  <2> QED
    BY <2>1 DEF SystemSteps
<1>7. TickSteps = b \o end /\ b = a \o SystemSteps /\ a = InputSteps \o NetworkSteps
  BY DEF TickSteps
<1> HIDE DEF any, a, b, end, n
<1>8. /\ a \in Seq(any) /\ Len(a) = 12
      /\ \A i \in 1 .. 9 : a[i] = InputSteps[i]
      /\ \A i \in 1 .. 3 : a[9 + i] = NetworkSteps[i]
  <2>1. InputSteps \in Seq(any) /\ NetworkSteps \in Seq(any)
    BY <1>2, <1>3
  <2>2. /\ InputSteps \o NetworkSteps \in Seq(any)
        /\ Len(InputSteps \o NetworkSteps) = Len(InputSteps) + Len(NetworkSteps)
        /\ \A i \in 1 .. Len(InputSteps) :
             (InputSteps \o NetworkSteps)[i] = InputSteps[i]
        /\ \A i \in 1 .. Len(NetworkSteps) :
             (InputSteps \o NetworkSteps)[Len(InputSteps) + i] = NetworkSteps[i]
    BY <2>1, Joined
  <2>3. /\ a \in Seq(any)
        /\ Len(a) = Len(InputSteps) + Len(NetworkSteps)
        /\ \A i \in 1 .. Len(InputSteps) : a[i] = InputSteps[i]
        /\ \A i \in 1 .. Len(NetworkSteps) : a[Len(InputSteps) + i] = NetworkSteps[i]
    BY <1>7, <2>2, Zenon
  <2> QED
    BY <1>2, <1>3, <2>3
<1>9. /\ b \in Seq(any) /\ Len(b) = 12 + 2 * n
      /\ \A i \in 1 .. 12 : b[i] = a[i]
      /\ \A i \in 1 .. 2 * n : b[12 + i] = SystemSteps[i]
  <2>1. a \in Seq(any) /\ SystemSteps \in Seq(any)
    BY <1>5, <1>8
  <2>2. /\ a \o SystemSteps \in Seq(any)
        /\ Len(a \o SystemSteps) = Len(a) + Len(SystemSteps)
        /\ \A i \in 1 .. Len(a) : (a \o SystemSteps)[i] = a[i]
        /\ \A i \in 1 .. Len(SystemSteps) :
             (a \o SystemSteps)[Len(a) + i] = SystemSteps[i]
    BY <2>1, Joined
  <2>3. /\ b \in Seq(any)
        /\ Len(b) = Len(a) + Len(SystemSteps)
        /\ \A i \in 1 .. Len(a) : b[i] = a[i]
        /\ \A i \in 1 .. Len(SystemSteps) : b[Len(a) + i] = SystemSteps[i]
    BY <1>7, <2>2, Zenon
  <2> QED
    BY <1>5, <1>8, <2>3
<1>10. /\ Last = 14 + 2 * n
       /\ \A i \in 1 .. 12 + 2 * n : TickSteps[i] = b[i]
       /\ TickSteps[13 + 2 * n] = SwapQueues
       /\ TickSteps[14 + 2 * n] = ClearQueue
  <2>1. b \in Seq(any) /\ end \in Seq(any)
    BY <1>4, <1>9
  <2>2. /\ Len(b \o end) = Len(b) + Len(end)
        /\ \A i \in 1 .. Len(b) : (b \o end)[i] = b[i]
        /\ \A i \in 1 .. Len(end) : (b \o end)[Len(b) + i] = end[i]
    BY <2>1, Joined
  <2>3. /\ Len(TickSteps) = Len(b) + Len(end)
        /\ \A i \in 1 .. Len(b) : TickSteps[i] = b[i]
        /\ \A i \in 1 .. Len(end) : TickSteps[Len(b) + i] = end[i]
    BY <1>7, <2>2, Zenon
  <2>4. /\ (12 + 2 * n) + 2 = 14 + 2 * n /\ (12 + 2 * n) + 1 = 13 + 2 * n
    BY <1>1
  <2> QED
    BY <1>4, <1>9, <2>3, <2>4 DEF Last
<1>11. \A i \in 1 .. 12 : TickSteps[i] = a[i]
  <2>1. \A i \in 1 .. 12 : i \in 1 .. 12 + 2 * n
    BY <1>1
  <2> QED
    BY <1>9, <1>10, <2>1
<1>12. \A i \in 1 .. 9 : TickSteps[i] = InputSteps[i]
  BY <1>8, <1>11
<1>13. \A i \in 1 .. n :
         /\ TickSteps[11 + 2 * i] = ProcessFor(SystemContexts[i])
         /\ TickSteps[12 + 2 * i] = Update(GameEvents)
  <2> SUFFICES ASSUME NEW i \in 1 .. n
               PROVE  /\ TickSteps[11 + 2 * i] = ProcessFor(SystemContexts[i])
                      /\ TickSteps[12 + 2 * i] = Update(GameEvents)
    OBVIOUS
  <2>1. /\ 2 * i - 1 \in 1 .. 2 * n /\ 2 * i \in 1 .. 2 * n
        /\ 12 + (2 * i - 1) = 11 + 2 * i
        /\ 11 + 2 * i \in 1 .. 12 + 2 * n /\ 12 + 2 * i \in 1 .. 12 + 2 * n
    BY <1>1
  <2>2. b[11 + 2 * i] = SystemSteps[2 * i - 1] /\ b[12 + 2 * i] = SystemSteps[2 * i]
    BY <1>9, <2>1
  <2> QED
    BY <1>6, <1>10, <2>1, <2>2
<1>14. Last - 1 = 13 + 2 * n
  BY <1>1, <1>10
<1>15. /\ TickSteps[10] = Update(GameEvents)
       /\ TickSteps[11] = ProcessFor(Network)
       /\ TickSteps[12] = Update(GameEvents)
  <2>1. /\ TickSteps[9 + 1] = NetworkSteps[1]
        /\ TickSteps[9 + 2] = NetworkSteps[2]
        /\ TickSteps[9 + 3] = NetworkSteps[3]
    BY <1>8, <1>11
  <2> QED
    BY <2>1 DEF NetworkSteps
<1>16. /\ TickSteps[1] = ProcessFor(InputManager)
       /\ TickSteps[2] = SwapQueues
       /\ TickSteps[3] = ProcessFor(InputManager)
       /\ TickSteps[4] = Update(DeviceEvents)
       /\ TickSteps[5] = SwapQueues
       /\ TickSteps[6] = ProcessFor(InputProxy)
       /\ TickSteps[7] = SwapQueues
       /\ TickSteps[8] = Update(CommandEvents)
       /\ TickSteps[9] = SwapQueues
  BY <1>12 DEF InputSteps
<1> QED
  BY <1>10, <1>13, <1>14, <1>15, <1>16 DEF Shape, n

(* Which contexts have a turn in which steps. *)
LEMMA ProcessAt ==
  ASSUME NEW i \in 1 .. Last, NEW c, TickSteps[i] = ProcessFor(c)
  PROVE  \/ i \in {1, 3} /\ c = InputManager
         \/ i = 6 /\ c = InputProxy
         \/ i = 11 /\ c = Network
         \/ \E k \in 1 .. Len(SystemContexts) : i = 11 + 2 * k /\ c = SystemContexts[k]
<1>1. Len(SystemContexts) \in Nat /\ Last = 14 + 2 * Len(SystemContexts)
  BY TickShape, TickAssumption DEF Shape
<1>2. ProcessFor(c).op = "process" /\ ProcessFor(c).context = c
  BY DEF ProcessFor
<1>3. CASE i \in 1 .. 12
  <2>1. i \notin {2, 4, 5, 7, 8, 9, 10, 12}
    BY <1>2, TickShape DEF Shape, SwapQueues, Update
  <2>2. i \in {1, 3, 6, 11}
    BY <1>3, <2>1
  <2> QED
    BY <1>2, <2>2, TickShape DEF Shape, ProcessFor
<1>4. CASE i \in 13 .. Last - 2
  <2> DEFINE k == (i - 11) \div 2
  <2>1. k \in 1 .. Len(SystemContexts) /\ (i = 11 + 2 * k \/ i = 12 + 2 * k)
    BY <1>1, <1>4
  <2> HIDE DEF k
  <2>2. i # 12 + 2 * k
    <3> SUFFICES ASSUME i = 12 + 2 * k PROVE FALSE
      OBVIOUS
    <3>1. TickSteps[i] = Update(GameEvents)
      BY <2>1, TickShape DEF Shape
    <3> QED
      BY <1>2, <3>1 DEF Update
  <2>3. ProcessFor(SystemContexts[k]).context = SystemContexts[k]
    BY DEF ProcessFor
  <2> QED
    BY <1>2, <2>1, <2>2, <2>3, TickShape DEF Shape
<1>5. CASE i \in {Last - 1, Last}
  BY <1>2, <1>5, TickShape DEF Shape, SwapQueues, ClearQueue
<1> QED
  BY <1>1, <1>3, <1>4, <1>5

(* What every step of a tick is. *)
LEMMA StepKinds ==
  ASSUME NEW i \in 1 .. Last
  PROVE  /\ TickSteps[i].op = "swap" => i \in {2, 5, 7, 9, Last - 1}
         /\ TickSteps[i].op = "clear" => i = Last
         /\ TickSteps[i].op = "process" =>
              TickSteps[i] = ProcessFor(TickSteps[i].context)
                /\ TickSteps[i].context \in Context
         /\ TickSteps[i].op = "update" =>
              \/ i = 4 /\ TickSteps[i].types = DeviceEvents
              \/ i = 8 /\ TickSteps[i].types = CommandEvents
              \/ i >= 10 /\ i < Last - 1 /\ TickSteps[i].types = GameEvents
<1>1. Len(SystemContexts) \in Nat /\ Last = 14 + 2 * Len(SystemContexts)
  BY TickShape, TickAssumption DEF Shape
<1>2. CASE i \in 1 .. 12
  <2>1. CASE i \in {1, 3, 6, 11}
    BY <2>1, TickShape, TickAssumption DEF Shape, ProcessFor
  <2>2. CASE i \in {2, 5, 7, 9}
    BY <2>2, TickShape DEF Shape, SwapQueues
  <2>3. CASE i \in {4, 8, 10, 12}
    BY <1>1, <2>3, TickShape DEF Shape, Update
  <2> QED
    BY <1>2, <2>1, <2>2, <2>3
<1>3. CASE i \in 13 .. Last - 2
  <2> DEFINE k == (i - 11) \div 2
  <2>1. k \in 1 .. Len(SystemContexts) /\ (i = 11 + 2 * k \/ i = 12 + 2 * k)
    BY <1>1, <1>3
  <2> HIDE DEF k
  <2>2. CASE i = 11 + 2 * k
    <3>1. TickSteps[i] = ProcessFor(SystemContexts[k]) /\ SystemContexts[k] \in Context
      BY <2>1, <2>2, TickShape, TickAssumption DEF Shape
    <3> QED
      BY <3>1 DEF ProcessFor
  <2>3. CASE i = 12 + 2 * k
    <3>1. TickSteps[i] = Update(GameEvents)
      BY <2>1, <2>3, TickShape DEF Shape
    <3> QED
      BY <1>1, <1>3, <3>1 DEF Update
  <2> QED
    BY <2>1, <2>2, <2>3
<1>4. CASE i \in {Last - 1, Last}
  BY <1>1, <1>4, TickShape DEF Shape, SwapQueues, ClearQueue
<1> QED
  BY <1>1, <1>2, <1>3, <1>4

(* From the fourth step on, a context that has its turn had none before. *)
LEMMA FirstTurn ==
  ASSUME NEW i \in 1 .. Last, i # 3, NEW c, TickSteps[i] = ProcessFor(c),
         NEW j \in 1 .. i - 1
  PROVE  TickSteps[j] # ProcessFor(c)
<1> SUFFICES ASSUME TickSteps[j] = ProcessFor(c) PROVE FALSE
  OBVIOUS
<1>1. Last \in Nat /\ j \in 1 .. Last /\ j < i
  BY TickShape, TickAssumption DEF Shape
<1>2. \/ i \in {1, 3} /\ c = InputManager
      \/ i = 6 /\ c = InputProxy
      \/ i = 11 /\ c = Network
      \/ \E k \in 1 .. Len(SystemContexts) : i = 11 + 2 * k /\ c = SystemContexts[k]
  BY ProcessAt
<1>3. \/ j \in {1, 3} /\ c = InputManager
      \/ j = 6 /\ c = InputProxy
      \/ j = 11 /\ c = Network
      \/ \E k \in 1 .. Len(SystemContexts) : j = 11 + 2 * k /\ c = SystemContexts[k]
  BY <1>1, ProcessAt
<1> QED
  BY <1>1, <1>2, <1>3, OneTurnEach

(* What q holds are the numbers up to last, in order. *)
Consecutive(q, last) == \A i \in 1 .. Len(q) : q[i] = last - Len(q) + i

(* The events published before those of the two queues. *)
Passed == Len(published) - Len(eventQueueWrite) - Len(eventQueueRead)

(* The queues hold the last events published, the read queue the older     *)
(* ones; until the input is complete one of the two is empty.              *)
QueuesInOrder ==
  /\ pc = Last => /\ Len(eventQueueRead) <= Len(published)
                  /\ Consecutive(eventQueueRead, Len(published))
  /\ pc # Last => /\ Passed >= 0
                  /\ Consecutive(eventQueueWrite, Len(published))
                  /\ Consecutive(eventQueueRead, Len(published) - Len(eventQueueWrite))
  /\ pc \in {1, 2, 6, 7} => eventQueueWrite = <<>>
  /\ pc \in {3, 4, 5, 8, 9} => eventQueueRead = <<>>

(* The events of the tick that an input phase published are the first ones *)
(* of the tick, and none of them has been dropped.                         *)
InputIsFirst ==
  /\ pc # Last => Passed <= tickStart
  /\ pc <= 9 => fromInput \ (1 .. tickStart) = tickStart + 1 .. Len(published)
  /\ pc > 9 /\ pc # Last =>
       /\ tickStart <= Len(published) - Len(eventQueueWrite)
       /\ fromInput \ (1 .. tickStart)
            = tickStart + 1 .. Len(published) - Len(eventQueueWrite)

(* The first turn of context c is still to come, or is under way. *)
Ahead(c) == \A i \in 1 .. pc - 1 : TickSteps[i] # ProcessFor(c)

(* Relay r's context has its turn. *)
Called(r) == call # NoCall /\ call.context = ContextOf[r]

(* The last event that relay r has had its chance to receive. *)
Handed(r) ==
  IF pc = Last THEN Len(published) - Len(eventQueueRead)
  ELSE IF Ahead(ContextOf[r])
    THEN IF Called(r) THEN Passed + call.index - (IF r \in call.pending THEN 1 ELSE 0)
                      ELSE Passed
    ELSE IF pc <= 9 THEN Len(published) ELSE Len(published) - Len(eventQueueWrite)

(* Relay r has received the events of its type up to n, from the first it  *)
(* received on.                                                            *)
UpToDate(r, n) ==
  /\ lastReceived[r] <= n
  /\ \A j \in lastReceived[r] + 1 .. n : published[j] # TypeOf[r]

(* Who has received an event is registered for a context of the tick, and  *)
(* has missed none since.                                                  *)
NothingIsMissed ==
  \A r \in Relay : lastReceived[r] # 0 =>
    /\ r \in contextRelays[ContextOf[r]]
    /\ Scheduled(ContextOf[r])
    /\ UpToDate(r, Handed(r))

(* A relay is filed under its own context. *)
Filed == \A c \in Context : \A r \in contextRelays[c] : ContextOf[r] = c

(* The inductive invariant of the tick. *)
TickInv ==
  /\ Inv
  /\ Filed
  /\ pc \in 1 .. Last
  /\ tickStart \in 0 .. Len(published)
  /\ fromInput \subseteq 1 .. Len(published)
  /\ relaysToUnsubscribe = {}
  /\ call # NoCall => CurrentStep = ProcessFor(call.context)
  /\ QueuesInOrder
  /\ InputIsFirst
  /\ NothingIsMissed

(* The types of what the invariant speaks of.                              *)
LEMMA TickFacts ==
  ASSUME TickInv
  PROVE  /\ Last \in Nat /\ Last >= 14 /\ pc \in 1 .. Last
         /\ Len(published) \in Nat /\ tickStart \in 0 .. Len(published)
         /\ Len(eventQueueRead) \in Nat /\ Len(eventQueueWrite) \in Nat
         /\ Passed = Len(published) - Len(eventQueueWrite) - Len(eventQueueRead)
         /\ call # NoCall => call \in Delivery
                               /\ call.index \in 0 .. Len(eventQueueRead)
         /\ \A r \in Relay : Handed(r) \in Int /\ Handed(r) <= Len(published)
                               /\ lastReceived[r] \in Nat
<1>1. Last \in Nat /\ Last >= 14
  BY TickShape, TickAssumption DEF Shape
<1>2. pc \in 1 .. Last /\ tickStart \in 0 .. Len(published)
  BY DEF TickInv
<1>3. /\ Len(published) \in Nat
      /\ Len(eventQueueRead) \in Nat /\ Len(eventQueueWrite) \in Nat
  BY DEF TickInv, Inv, TypeOK
<1>4. call # NoCall => call \in Delivery /\ call.index \in 0 .. Len(eventQueueRead)
  BY <1>3 DEF TickInv, Inv, TypeOK, DeliveryIsConsistent, Delivery
<1>5. ASSUME NEW r \in Relay PROVE Handed(r) \in Int /\ Handed(r) <= Len(published)
  BY <1>3, <1>4 DEF Handed, Called, Passed
<1>6. \A r \in Relay : lastReceived[r] \in Nat
  BY BrokerAssumption DEF TickInv, Inv, TypeOK
<1> QED
  BY <1>1, <1>2, <1>3, <1>4, <1>5, <1>6 DEF Passed

(* A step that only lets a relay's chances grow over events that are not   *)
(* of its type, and gives it none, misses nothing.                         *)
LEMMA MissedKept ==
  ASSUME TickInv, lastReceived' = lastReceived,
         \A id \in 1 .. Len(published) : published'[id] = published[id],
         \A c \in Context : contextRelays[c] \subseteq contextRelays'[c],
         \A r \in Relay :
           lastReceived[r] # 0 /\ r \in contextRelays[ContextOf[r]]
             /\ Scheduled(ContextOf[r]) =>
               /\ Handed(r)' \in Int /\ Handed(r) <= Handed(r)'
               /\ \A j \in Handed(r) + 1 .. Handed(r)' : published'[j] # TypeOf[r]
  PROVE  NothingIsMissed'
<1> SUFFICES ASSUME NEW r \in Relay, lastReceived[r] # 0
             PROVE  /\ r \in contextRelays'[ContextOf[r]]
                    /\ Scheduled(ContextOf[r])
                    /\ UpToDate(r, Handed(r))'
  BY DEF NothingIsMissed, Scheduled
<1>1. /\ r \in contextRelays[ContextOf[r]]
      /\ Scheduled(ContextOf[r])
      /\ UpToDate(r, Handed(r))
  BY DEF TickInv, NothingIsMissed
<1>2. ContextOf[r] \in Context
  BY BrokerAssumption
<1>3. /\ Handed(r) \in Int /\ Handed(r) <= Len(published)
      /\ lastReceived[r] \in Nat /\ Len(published) \in Nat
  BY TickFacts
<1>4. /\ Handed(r)' \in Int /\ Handed(r) <= Handed(r)'
      /\ \A j \in Handed(r) + 1 .. Handed(r)' : published'[j] # TypeOf[r]
  BY <1>1
<1>5. lastReceived'[r] <= Handed(r)'
  BY <1>1, <1>3, <1>4 DEF UpToDate
<1>6. ASSUME NEW j \in lastReceived[r] + 1 .. Handed(r)'
      PROVE  published'[j] # TypeOf[r]
  <2>1. CASE j <= Handed(r)
    BY <1>1, <1>3, <1>4, <2>1 DEF UpToDate
  <2>2. CASE j > Handed(r)
    BY <1>3, <1>4, <2>2
  <2> QED
    BY <1>3, <1>4, <2>1, <2>2
<1> QED
  BY <1>1, <1>2, <1>5, <1>6 DEF UpToDate

(* How the next step changes whose turn is to come.                        *)
LEMMA AheadNext ==
  ASSUME TickInv, Proceed, NEW c
  PROVE  /\ pc = Last => pc' = 1 /\ tickStart' = Len(published) /\ Ahead(c)'
         /\ pc # Last => /\ pc' = pc + 1 /\ tickStart' = tickStart
                         /\ Ahead(c)' <=> Ahead(c) /\ CurrentStep # ProcessFor(c)
         /\ fromInput' = fromInput
<1>1. Last \in Nat /\ Last >= 14 /\ pc \in 1 .. Last
  BY TickFacts
<1>2. CASE pc = Last
  BY <1>1, <1>2 DEF Proceed, Ahead, Last
<1>3. CASE pc # Last
  <2>1. pc' = pc + 1 /\ tickStart' = tickStart
    BY <1>3 DEF Proceed, Last
  <2>2. 1 .. pc' - 1 = (1 .. pc - 1) \cup {pc}
    BY <1>1, <2>1
  <2>3. Ahead(c)' <=> Ahead(c) /\ CurrentStep # ProcessFor(c)
    BY <2>2 DEF Ahead, CurrentStep
  <2> QED
    BY <1>3, <2>1, <2>3 DEF Proceed
<1> QED
  BY <1>2, <1>3 DEF Proceed

(* The steps that are a turn of a context or an update.                    *)
LEMMA TurnSteps ==
  ASSUME TickInv, CurrentStep.op \in {"process", "update"}
  PROVE  pc \in {1, 3, 4, 6, 8} \/ pc \in 10 .. Last - 2
<1>1. Last \in Nat /\ Last >= 14 /\ pc \in 1 .. Last
  BY TickFacts
<1>2. Len(SystemContexts) \in Nat /\ Last = 14 + 2 * Len(SystemContexts)
  BY TickShape, TickAssumption DEF Shape
<1>3. CASE CurrentStep.op = "process"
  <2>1. TickSteps[pc] = ProcessFor(TickSteps[pc].context)
    BY <1>1, <1>3, StepKinds DEF CurrentStep
  <2> DEFINE c == TickSteps[pc].context
  <2> HIDE DEF c
  <2>2. \/ pc \in {1, 3} /\ c = InputManager
        \/ pc = 6 /\ c = InputProxy
        \/ pc = 11 /\ c = Network
        \/ \E k \in 1 .. Len(SystemContexts) : pc = 11 + 2 * k /\ c = SystemContexts[k]
    BY <1>1, <2>1, ProcessAt DEF c
  <2> QED
    BY <1>1, <1>2, <2>2
<1>4. CASE CurrentStep.op = "update"
  BY <1>1, <1>4, StepKinds DEF CurrentStep
<1> QED
  BY <1>3, <1>4

(* While a call of Process is under way the step is its context's turn.    *)
LEMMA InCall ==
  ASSUME TickInv, call # NoCall
  PROVE  /\ CurrentStep = ProcessFor(call.context) /\ call.context \in Context
         /\ CurrentStep.op = "process"
         /\ pc \in {1, 3, 6} \/ pc \in 10 .. Last - 2
<1>1. CurrentStep = ProcessFor(call.context)
  BY DEF TickInv
<1>2. CurrentStep.op = "process"
  BY <1>1 DEF ProcessFor
<1>3. call.context \in Context
  BY TickFacts DEF Delivery
<1>4. pc \notin {4, 8}
  BY <1>2, TickShape DEF CurrentStep, Shape, Update
<1> QED
  BY <1>1, <1>2, <1>3, <1>4, TurnSteps

(* In its turn, a context the read queue has something for is ahead.       *)
LEMMA CalledIsAhead ==
  ASSUME TickInv, call # NoCall, pc # 3
  PROVE  Ahead(call.context)
<1>1. pc \in 1 .. Last /\ TickSteps[pc] = ProcessFor(call.context)
  BY TickFacts, InCall DEF CurrentStep
<1>2. \A j \in 1 .. pc - 1 : TickSteps[j] # ProcessFor(call.context)
  BY <1>1, FirstTurn
<1> QED
  BY <1>2 DEF Ahead

(* A step that leaves the queues and the events alone, within the step of  *)
(* the tick or on from a turn or an update, keeps the queues in order.     *)
LEMMA QueuesKept ==
  ASSUME TickInv, UNCHANGED <<queues, published>>,
         StayInStep \/ (Proceed /\ CurrentStep.op \in {"process", "update"})
  PROVE  /\ QueuesInOrder' /\ InputIsFirst'
         /\ pc' \in 1 .. Last /\ tickStart' \in 0 .. Len(published')
         /\ fromInput' \subseteq 1 .. Len(published')
<1>1. CASE StayInStep
  BY <1>1 DEF TickInv, StayInStep, queues, QueuesInOrder, InputIsFirst,
              Consecutive, Passed
<1>2. CASE Proceed /\ CurrentStep.op \in {"process", "update"}
  <2>1. pc \in {1, 3, 4, 6, 8} \/ pc \in 10 .. Last - 2
    BY <1>2, TurnSteps
  <2>2. Last \in Nat /\ Last >= 14
    BY TickFacts
  <2>3. pc' = pc + 1 /\ tickStart' = tickStart /\ fromInput' = fromInput
    BY <1>2, <2>1, <2>2, AheadNext
  <2>4. UNCHANGED <<eventQueueRead, eventQueueWrite, published>>
    BY DEF queues
  <2>5. QueuesInOrder'
    BY <2>1, <2>2, <2>3, <2>4 DEF TickInv, QueuesInOrder, Consecutive, Passed
  <2>6. InputIsFirst'
    BY <2>1, <2>2, <2>3, <2>4 DEF TickInv, InputIsFirst, Passed
  <2> QED
    BY <2>1, <2>2, <2>3, <2>4, <2>5, <2>6 DEF TickInv
<1> QED
  BY <1>1, <1>2

LEMMA EnterPreserves ==
  ASSUME TickInv, EnterProcess
  PROVE  TickInv'
<1> DEFINE c == CurrentStep.context
<1>1. pc \in 1 .. Last
  BY TickFacts
<1>2. /\ CurrentStep.op = "process" /\ BeginProcess(c)
      /\ IF call' = NoCall THEN Proceed ELSE StayInStep
  BY DEF EnterProcess
<1>3. CurrentStep = ProcessFor(c) /\ c \in Context
  BY <1>1, <1>2, StepKinds DEF CurrentStep
<1> HIDE DEF c
<1>4. Inv'
  BY <1>2, <1>3, BeginProcessPreserves DEF TickInv
<1>5. /\ call = NoCall
      /\ UNCHANGED <<eventQueueRead, eventQueueWrite, contextRelays, broker, since,
                     relaysToSubscribe, relaysToUnsubscribe, published, lastReceived>>
  BY <1>2 DEF BeginProcess, queues, registry, deferred, history
<1>6. /\ QueuesInOrder' /\ InputIsFirst'
      /\ pc' \in 1 .. Last /\ tickStart' \in 0 .. Len(published')
      /\ fromInput' \subseteq 1 .. Len(published')
  BY <1>2, <1>5, QueuesKept DEF queues
<1>7. CASE contextRelays[c] = {}
  <2>1. call' = NoCall /\ Proceed
    BY <1>2, <1>7 DEF BeginProcess
  <2>2. /\ pc \in {1, 3, 6} \/ pc \in 10 .. Last - 2
        /\ pc # Last /\ pc' = pc + 1 /\ pc' # Last
    <3>1. pc \in {1, 3, 4, 6, 8} \/ pc \in 10 .. Last - 2
      BY <1>2, TurnSteps
    <3>2. pc \notin {4, 8}
      BY <1>2, TickShape DEF CurrentStep, Shape, Update
    <3>3. Last \in Nat /\ Last >= 14
      BY TickFacts
    <3>4. pc # Last
      BY <3>1, <3>3
    <3>5. pc' = pc + 1
      BY <2>1, <3>4, AheadNext
    <3> QED
      BY <3>1, <3>2, <3>3, <3>5
  <2>3. ASSUME NEW r \in Relay, r \in contextRelays[ContextOf[r]]
        PROVE  Handed(r)' = Handed(r)
    <3>1. ContextOf[r] # c
      BY <1>7, <2>3
    <3>2. CurrentStep # ProcessFor(ContextOf[r])
      BY <1>3, <3>1 DEF ProcessFor
    <3>3. Ahead(ContextOf[r])' <=> Ahead(ContextOf[r])
      BY <2>1, <2>2, <3>2, AheadNext
    <3>4. Last \in Nat
      BY TickFacts
    <3> QED
      BY <1>5, <2>1, <2>2, <3>3, <3>4 DEF Handed, Called, Passed
  <2>4. NothingIsMissed'
    BY <1>5, <2>3, TickFacts, MissedKept
  <2> QED
    BY <1>4, <1>5, <1>6, <2>1, <2>4 DEF TickInv, Filed
<1>8. CASE contextRelays[c] # {}
  <2>1. /\ call' = [context |-> c, index |-> 0, pending |-> {}]
        /\ call' # NoCall
    BY <1>2, <1>8 DEF BeginProcess, NoCall
  <2>2. pc' = pc /\ StayInStep
    BY <1>2, <2>1 DEF StayInStep
  <2>3. CurrentStep' = ProcessFor(call'.context)
    BY <1>3, <2>1, <2>2 DEF CurrentStep
  <2>4. ASSUME NEW r \in Relay
        PROVE  Handed(r)' = Handed(r)
    <3>1. Passed \in Int
      BY TickFacts
    <3>2. Ahead(ContextOf[r])' <=> Ahead(ContextOf[r])
      BY <2>2 DEF Ahead
    <3> QED
      BY <1>5, <2>1, <2>2, <3>1, <3>2 DEF Handed, Called, Passed
  <2>5. NothingIsMissed'
    BY <1>5, <2>4, TickFacts, MissedKept
  <2> QED
    BY <1>4, <1>5, <1>6, <2>3, <2>5 DEF TickInv, Filed
<1> QED
  BY <1>7, <1>8

LEMMA NextEventInTick ==
  ASSUME TickInv, NextEvent, StayInStep
  PROVE  TickInv'
<1> DEFINE n == call.index + 1
           e == eventQueueRead[n]
<1>1. /\ call # NoCall /\ call.pending = {} /\ call.index < Len(eventQueueRead)
      /\ call' = [context |-> call.context, index |-> n,
                  pending |-> Receivers(call.context, published[e])]
      /\ UNCHANGED <<eventQueueRead, eventQueueWrite, contextRelays, broker, since,
                     relaysToSubscribe, relaysToUnsubscribe, published, lastReceived>>
      /\ UNCHANGED <<pc, fromInput, tickStart>>
  BY DEF NextEvent, queues, registry, deferred, history, StayInStep
<1>2. call' # NoCall /\ call'.context = call.context /\ call'.index = n
  BY <1>1 DEF NoCall
<1>3. Inv'
  BY NextEventPreserves DEF TickInv
<1>4. /\ QueuesInOrder' /\ InputIsFirst'
      /\ pc' \in 1 .. Last /\ tickStart' \in 0 .. Len(published')
      /\ fromInput' \subseteq 1 .. Len(published')
  <2>1. UNCHANGED <<queues, published>>
    BY <1>1 DEF queues
  <2> QED
    BY <2>1, QueuesKept
<1>5. CurrentStep' = ProcessFor(call'.context)
  BY <1>1, <1>2, InCall DEF CurrentStep
<1>6. /\ call.index \in Nat /\ n \in 1 .. Len(eventQueueRead)
      /\ Last \in Nat /\ Last >= 14 /\ pc # Last
      /\ Len(published) \in Nat
      /\ Len(eventQueueRead) \in Nat /\ Len(eventQueueWrite) \in Nat
  <2>1. pc \in {1, 3, 6} \/ pc \in 10 .. Last - 2
    BY <1>1, InCall
  <2>2. /\ Last \in Nat /\ Last >= 14 /\ Len(published) \in Nat
        /\ Len(eventQueueRead) \in Nat /\ Len(eventQueueWrite) \in Nat
    BY TickFacts
  <2>3. call.index \in 0 .. Len(eventQueueRead)
    BY <1>1, TickFacts
  <2>4. call.index \in Nat /\ n \in 1 .. Len(eventQueueRead)
    BY <1>1, <2>2, <2>3
  <2>5. pc # Last
    BY <2>1, <2>2
  <2> QED
    BY <2>2, <2>4, <2>5
<1>7. e = Passed + n
  BY <1>1, <1>6 DEF TickInv, QueuesInOrder, Consecutive, Passed
<1>8. ASSUME NEW r \in Relay, r \in contextRelays[ContextOf[r]]
      PROVE  /\ Handed(r)' \in Int /\ Handed(r) <= Handed(r)'
             /\ \A j \in Handed(r) + 1 .. Handed(r)' : published'[j] # TypeOf[r]
  <2>1. Ahead(ContextOf[r])' <=> Ahead(ContextOf[r])
    BY <1>1 DEF Ahead
  <2>2. Passed' = Passed /\ Passed \in Int
    BY <1>1, <1>6 DEF Passed
  <2>3. CASE ContextOf[r] = call.context /\ Ahead(ContextOf[r])
    <3>1. Handed(r) = Passed + call.index
      BY <1>1, <1>6, <2>3 DEF Handed, Called
    <3>2. Handed(r)' = Passed + n - (IF r \in call'.pending THEN 1 ELSE 0)
      BY <1>1, <1>2, <1>6, <2>1, <2>2, <2>3 DEF Handed, Called
    <3>3. CASE r \in call'.pending
      BY <1>6, <2>2, <3>1, <3>2, <3>3
    <3>4. CASE r \notin call'.pending
      <4>1. published[e] # TypeOf[r]
        BY <1>1, <1>8, <2>3, <3>4 DEF Receivers
      <4>2. \A j \in Handed(r) + 1 .. Handed(r)' : j = e
        BY <1>6, <1>7, <2>2, <3>1, <3>2, <3>4
      <4> QED
        BY <1>1, <1>6, <2>2, <3>1, <3>2, <3>4, <4>1, <4>2
    <3> QED
      BY <3>3, <3>4
  <2>4. CASE ~ (ContextOf[r] = call.context /\ Ahead(ContextOf[r]))
    <3>1. Handed(r)' = Handed(r)
      BY <1>1, <1>2, <1>6, <2>1, <2>2, <2>4 DEF Handed, Called
    <3> QED
      BY <3>1, TickFacts
  <2> QED
    BY <2>3, <2>4
<1>9. NothingIsMissed'
  BY <1>1, <1>8, MissedKept
<1> QED
  BY <1>1, <1>3, <1>4, <1>5, <1>9 DEF TickInv, Filed

(* A relay is given the event that follows those it was handed.            *)
LEMMA ReceiveNext ==
  ASSUME TickInv, NEW r \in Relay, Receive(r)
  PROVE  /\ call.context = ContextOf[r] /\ r \in contextRelays[ContextOf[r]]
         /\ Ahead(ContextOf[r]) /\ pc # Last
         /\ CurrentEvent = Passed + call.index /\ CurrentEvent = Handed(r) + 1
         /\ CurrentEvent \in 1 .. Len(published)
         /\ published[CurrentEvent] = TypeOf[r]
         /\ lastReceived' = [lastReceived EXCEPT ![r] = CurrentEvent]
<1>1. call # NoCall /\ r \in call.pending
  BY DEF Receive
<1>2. /\ call.index \in 1 .. Len(eventQueueRead)
      /\ call.pending \subseteq Receivers(call.context, published[CurrentEvent])
  BY <1>1, TickFacts DEF TickInv, Inv, DeliveryIsConsistent
<1>3. r \in contextRelays[call.context] /\ TypeOf[r] = published[CurrentEvent]
  BY <1>1, <1>2 DEF Receivers
<1>4. call.context = ContextOf[r]
  BY <1>1, <1>3, InCall DEF TickInv, Filed
<1>5. /\ Last \in Nat /\ Last >= 14 /\ pc # Last
      /\ Len(published) \in Nat
      /\ Len(eventQueueRead) \in Nat /\ Len(eventQueueWrite) \in Nat
  <2>1. pc \in {1, 3, 6} \/ pc \in 10 .. Last - 2
    BY <1>1, InCall
  <2>2. /\ Last \in Nat /\ Last >= 14 /\ Len(published) \in Nat
        /\ Len(eventQueueRead) \in Nat /\ Len(eventQueueWrite) \in Nat
    BY TickFacts
  <2> QED
    BY <2>1, <2>2
<1>6. pc # 3
  BY <1>2, <1>5 DEF TickInv, QueuesInOrder
<1>7. Ahead(ContextOf[r])
  BY <1>1, <1>4, <1>6, CalledIsAhead
<1>8. CurrentEvent = Passed + call.index
  BY <1>2, <1>5 DEF CurrentEvent, TickInv, QueuesInOrder, Consecutive, Passed
<1>9. CurrentEvent = Handed(r) + 1
  BY <1>1, <1>2, <1>4, <1>5, <1>7, <1>8 DEF Handed, Called, Passed
<1>10. CurrentEvent \in 1 .. Len(published)
  BY <1>2 DEF CurrentEvent, TickInv, Inv, QueuedWerePublished
<1>11. lastReceived' = [lastReceived EXCEPT ![r] = CurrentEvent]
  BY DEF Receive, TickInv
<1> QED
  BY <1>3, <1>4, <1>5, <1>7, <1>8, <1>9, <1>10, <1>11

LEMMA ReceiveInTick ==
  ASSUME TickInv, NEW r \in Relay, Receive(r), StayInStep
  PROVE  TickInv'
<1>1. /\ call # NoCall /\ r \in call.pending
      /\ call' = [call EXCEPT !.pending = call.pending \ {r}]
      /\ UNCHANGED <<eventQueueRead, eventQueueWrite, contextRelays, broker, since,
                     relaysToSubscribe, relaysToUnsubscribe, published>>
      /\ UNCHANGED <<pc, fromInput, tickStart>>
  BY DEF Receive, queues, registry, deferred, StayInStep
<1>2. call \in Delivery /\ call.index \in 0 .. Len(eventQueueRead)
  BY <1>1, TickFacts
<1>3. /\ call'.context = call.context /\ call'.index = call.index
      /\ call'.pending = call.pending \ {r} /\ call' # NoCall
  <2>1. /\ call'.context = call.context /\ call'.index = call.index
        /\ call'.pending = call.pending \ {r} /\ call' \in Delivery
    BY <1>1, <1>2 DEF Delivery
  <2>2. NoCall \notin Delivery
    BY DEF NoCall, Delivery
  <2> QED
    BY <2>1, <2>2
<1>4. Inv'
  BY ReceivePreserves DEF TickInv
<1>5. /\ QueuesInOrder' /\ InputIsFirst'
      /\ pc' \in 1 .. Last /\ tickStart' \in 0 .. Len(published')
      /\ fromInput' \subseteq 1 .. Len(published')
  <2>1. UNCHANGED <<queues, published>>
    BY <1>1 DEF queues
  <2> QED
    BY <2>1, QueuesKept
<1>6. CurrentStep' = ProcessFor(call'.context)
  BY <1>1, <1>3, InCall DEF CurrentStep
<1>7. /\ Last \in Nat /\ Passed' = Passed /\ Passed \in Int
      /\ \A c : Ahead(c)' <=> Ahead(c)
  BY <1>1, TickFacts DEF Ahead, Passed
<1>8. ASSUME NEW q \in Relay, lastReceived'[q] # 0
      PROVE  /\ q \in contextRelays'[ContextOf[q]]
             /\ Scheduled(ContextOf[q])
             /\ UpToDate(q, Handed(q))'
  <2>1. CASE q = r
    <3>1. lastReceived'[r] = CurrentEvent
      BY ReceiveNext DEF TickInv, Inv, TypeOK
    <3>2. Handed(r)' = CurrentEvent
      BY <1>1, <1>2, <1>3, <1>7, ReceiveNext DEF Handed, Called
    <3>3. UpToDate(r, Handed(r))'
      BY <3>1, <3>2, ReceiveNext DEF UpToDate
    <3>4. Scheduled(ContextOf[r])
      BY <1>1, InCall, ReceiveNext, TickFacts DEF Scheduled, CurrentStep, Last
    <3> QED
      BY <1>1, <2>1, <3>3, <3>4, ReceiveNext
  <2>2. CASE q # r
    <3>1. lastReceived'[q] = lastReceived[q]
      BY <2>2, ReceiveNext DEF TickInv, Inv, TypeOK
    <3>2. Handed(q)' = Handed(q)
      BY <1>1, <1>3, <1>7, <2>2 DEF Handed, Called
    <3>3. /\ q \in contextRelays[ContextOf[q]]
          /\ Scheduled(ContextOf[q])
          /\ UpToDate(q, Handed(q))
      BY <1>8, <3>1 DEF TickInv, NothingIsMissed
    <3>4. UpToDate(q, Handed(q))'
      BY <1>1, <3>1, <3>2, <3>3 DEF UpToDate
    <3> QED
      BY <1>1, <3>3, <3>4
  <2> QED
    BY <2>1, <2>2
<1>9. NothingIsMissed'
  BY <1>8 DEF NothingIsMissed, Scheduled
<1> QED
  BY <1>1, <1>4, <1>5, <1>6, <1>9 DEF TickInv, Filed

LEMMA LeaveProcessInTick ==
  ASSUME TickInv, LeaveProcess
  PROVE  TickInv'
<1>1. /\ call # NoCall /\ call.pending = {} /\ call.index = Len(eventQueueRead)
      /\ call' = NoCall /\ relaysToUnsubscribe' = {}
      /\ UNCHANGED <<eventQueueRead, eventQueueWrite, published, lastReceived>>
      /\ Register(relaysToSubscribe) /\ Proceed /\ EndProcess
  BY DEF LeaveProcess, EndProcess, queues, history
<1>2. Inv'
  BY <1>1, EndProcessPreserves DEF TickInv
<1>3. /\ QueuesInOrder' /\ InputIsFirst'
      /\ pc' \in 1 .. Last /\ tickStart' \in 0 .. Len(published')
      /\ fromInput' \subseteq 1 .. Len(published')
  <2>1. UNCHANGED <<queues, published>>
    BY <1>1 DEF queues
  <2>2. CurrentStep.op \in {"process", "update"}
    BY <1>1, InCall
  <2> QED
    BY <1>1, <2>1, <2>2, QueuesKept
<1>4. /\ pc \in {1, 3, 6} \/ pc \in 10 .. Last - 2
      /\ Last \in Nat /\ Last >= 14 /\ pc # Last
      /\ Len(published) \in Nat
      /\ Len(eventQueueRead) \in Nat /\ Len(eventQueueWrite) \in Nat
      /\ Passed = Len(published) - Len(eventQueueWrite) - Len(eventQueueRead)
  BY <1>1, InCall, TickFacts
<1>5. pc' = pc + 1
  BY <1>1, <1>4, AheadNext
<1>6. ASSUME NEW r \in Relay
      PROVE  Handed(r)' = Handed(r)
  <2>1. CASE ContextOf[r] = call.context /\ Ahead(ContextOf[r])
    <3>1. ~ Ahead(ContextOf[r])'
      BY <1>1, <1>4, <2>1, InCall, AheadNext
    <3>2. Handed(r) = Len(published) - Len(eventQueueWrite)
      BY <1>1, <1>4, <2>1 DEF Handed, Called
    <3>3. pc \in {1, 6} \/ pc >= 10
      <4>1. ASSUME pc = 3 PROVE FALSE
        <5>1. 1 \in 1 .. pc - 1 /\ TickSteps[1] = TickSteps[3]
          BY <4>1, TickShape DEF Shape
        <5>2. TickSteps[pc] = ProcessFor(ContextOf[r])
          BY <1>1, <2>1, InCall DEF CurrentStep
        <5> QED
          BY <2>1, <4>1, <5>1, <5>2 DEF Ahead
      <4> QED
        BY <1>4, <4>1
    <3>4. pc' <= 9 => Len(eventQueueWrite) = 0
      BY <1>4, <1>5, <3>3 DEF TickInv, QueuesInOrder
    <3> QED
      BY <1>1, <1>4, <1>5, <3>1, <3>2, <3>4 DEF Handed
  <2>2. CASE ContextOf[r] # call.context
    <3>1. CurrentStep # ProcessFor(ContextOf[r])
      BY <1>1, <2>2, InCall DEF ProcessFor
    <3>2. Ahead(ContextOf[r])' <=> Ahead(ContextOf[r])
      BY <1>1, <1>4, <3>1, AheadNext
    <3> QED
      BY <1>1, <1>4, <1>5, <2>2, <3>2 DEF Handed, Called, Passed
  <2>3. CASE ~ Ahead(ContextOf[r])
    <3>1. ~ Ahead(ContextOf[r])'
      BY <1>1, <1>4, <2>3, AheadNext
    <3> QED
      BY <1>1, <1>4, <1>5, <2>3, <3>1 DEF Handed
  <2> QED
    BY <2>1, <2>2, <2>3
<1>7. \A c \in Context :
        contextRelays'[c] = contextRelays[c] \cup {r \in relaysToSubscribe : ContextOf[r] = c}
  BY <1>1 DEF Register
<1>8. NothingIsMissed'
  BY <1>1, <1>6, <1>7, TickFacts, MissedKept
<1>9. Filed'
  BY <1>7 DEF TickInv, Filed
<1> QED
  BY <1>1, <1>2, <1>3, <1>8, <1>9 DEF TickInv

LEMMA LeaveUpdateInTick ==
  ASSUME TickInv, LeaveUpdate
  PROVE  TickInv'
<1>1. CurrentStep.op = "update" /\ Proceed /\ UNCHANGED vars
  BY DEF LeaveUpdate
<1>2. call = NoCall
  BY <1>1, InCall
<1>3. Inv' /\ Filed'
  BY <1>1, NextPreserves DEF TickInv, vars, Filed
<1>4. UNCHANGED <<queues, published>>
  BY <1>1 DEF vars, queues
<1>5. /\ QueuesInOrder' /\ InputIsFirst'
      /\ pc' \in 1 .. Last /\ tickStart' \in 0 .. Len(published')
      /\ fromInput' \subseteq 1 .. Len(published')
  BY <1>1, <1>4, QueuesKept
<1>6. /\ pc \in {4, 8} \/ pc \in 10 .. Last - 2
      /\ Last \in Nat /\ Last >= 14 /\ pc # Last
  <2>1. pc \in {1, 3, 4, 6, 8} \/ pc \in 10 .. Last - 2
    BY <1>1, TurnSteps
  <2>2. pc \notin {1, 3, 6}
    BY <1>1, TickShape DEF CurrentStep, Shape, ProcessFor
  <2> QED
    BY <2>1, <2>2, TickFacts
<1>7. pc' = pc + 1
  BY <1>1, <1>6, AheadNext
<1>8. ASSUME NEW r \in Relay
      PROVE  Handed(r)' = Handed(r)
  <2>1. CurrentStep # ProcessFor(ContextOf[r])
    BY <1>1 DEF ProcessFor
  <2>2. Ahead(ContextOf[r])' <=> Ahead(ContextOf[r])
    BY <1>1, <1>6, <2>1, AheadNext
  <2> QED
    BY <1>1, <1>6, <1>7, <2>2 DEF Handed, Called, Passed, vars
<1>9. NothingIsMissed'
  BY <1>1, <1>8, TickFacts, MissedKept DEF vars
<1> QED
  BY <1>1, <1>2, <1>3, <1>5, <1>9 DEF TickInv, vars

(* A context of the tick had its turn when the last swap comes.            *)
LEMMA AllHadTheirTurn ==
  ASSUME TickInv, NEW c, Scheduled(c), pc = Last - 1
  PROVE  ~ Ahead(c)
<1>1. PICK i \in 1 .. Last : TickSteps[i] = ProcessFor(c)
  BY DEF Scheduled, Last
<1>2. Last \in Nat /\ Last >= 14
  BY TickFacts
<1>3. TickSteps[i].op = "process"
  BY <1>1 DEF ProcessFor
<1>4. i # Last - 1 /\ i # Last
  BY <1>3, TickShape DEF Shape, SwapQueues, ClearQueue
<1>5. i \in 1 .. pc - 1
  BY <1>2, <1>4
<1> QED
  BY <1>1, <1>5 DEF Ahead

LEMMA SwapPreserves ==
  ASSUME TickInv, SwapInTick
  PROVE  TickInv'
<1>1. /\ CurrentStep.op = "swap" /\ Swap /\ Proceed
      /\ call = NoCall /\ call' = NoCall
      /\ eventQueueRead' = eventQueueWrite /\ eventQueueWrite' = eventQueueRead
      /\ UNCHANGED <<contextRelays, relaysToUnsubscribe, published, lastReceived>>
  BY DEF SwapInTick, Swap, registry, deferred, history
<1>2. /\ Last \in Nat /\ Last >= 14 /\ pc \in {2, 5, 7, 9, Last - 1}
      /\ Len(published) \in Nat
      /\ Len(eventQueueRead) \in Nat /\ Len(eventQueueWrite) \in Nat
      /\ Passed = Len(published) - Len(eventQueueWrite) - Len(eventQueueRead)
  BY <1>1, TickFacts, StepKinds DEF CurrentStep
<1>3. /\ pc # Last /\ pc' = pc + 1 /\ tickStart' = tickStart /\ fromInput' = fromInput
      /\ \A c : Ahead(c)' <=> Ahead(c)
  <2>1. pc # Last
    BY <1>2
  <2>2. \A c : CurrentStep # ProcessFor(c)
    BY <1>1 DEF ProcessFor
  <2> QED
    BY <1>1, <2>1, <2>2, AheadNext
<1>4. Inv' /\ Filed'
  BY <1>1, QueueStepPreserves DEF TickInv, Filed
<1>5. QueuesInOrder'
  <2>1. CASE pc \in {2, 7}
    <3>1. eventQueueWrite = <<>> /\ pc' \in {3, 8} /\ pc' # Last
      BY <1>2, <1>3, <2>1 DEF TickInv, QueuesInOrder
    <3> QED
      BY <1>1, <1>2, <1>3, <3>1 DEF TickInv, QueuesInOrder, Consecutive, Passed
  <2>2. CASE pc \in {5, 9}
    <3>1. eventQueueRead = <<>> /\ pc' \in {6, 10} /\ pc' # Last
      BY <1>2, <1>3, <2>2 DEF TickInv, QueuesInOrder
    <3> QED
      BY <1>1, <1>2, <1>3, <3>1 DEF TickInv, QueuesInOrder, Consecutive, Passed
  <2>3. CASE pc = Last - 1
    BY <1>1, <1>2, <1>3, <2>3 DEF TickInv, QueuesInOrder, Consecutive, Passed
  <2> QED
    BY <1>2, <2>1, <2>2, <2>3
<1>6. InputIsFirst'
  <2>1. Passed' = Passed
    BY <1>1, <1>2 DEF Passed
  <2>2. pc = 9 => eventQueueRead = <<>>
    BY DEF TickInv, QueuesInOrder
  <2> QED
    BY <1>1, <1>2, <1>3, <2>1, <2>2 DEF TickInv, InputIsFirst
<1>7. ASSUME NEW r \in Relay, Scheduled(ContextOf[r])
      PROVE  Handed(r)' = Handed(r)
  <2>1. Passed' = Passed
    BY <1>1, <1>2 DEF Passed
  <2>2. CASE pc \in {2, 5, 7}
    BY <1>1, <1>2, <1>3, <2>1, <2>2 DEF Handed, Called
  <2>3. CASE pc = 9
    <3>1. Len(eventQueueRead) = 0
      BY <2>3 DEF TickInv, QueuesInOrder
    <3> QED
      BY <1>1, <1>2, <1>3, <2>1, <2>3, <3>1 DEF Handed, Called
  <2>4. CASE pc = Last - 1
    BY <1>1, <1>2, <1>3, <1>7, <2>4, AllHadTheirTurn DEF Handed
  <2> QED
    BY <1>2, <2>2, <2>3, <2>4
<1>8. NothingIsMissed'
  BY <1>1, <1>7, TickFacts, MissedKept
<1> QED
  BY <1>1, <1>2, <1>3, <1>4, <1>5, <1>6, <1>8 DEF TickInv

LEMMA ClearPreserves ==
  ASSUME TickInv, ClearInTick
  PROVE  TickInv'
<1>1. /\ CurrentStep.op = "clear" /\ Clear /\ Proceed
      /\ call = NoCall /\ call' = NoCall
      /\ eventQueueRead' = eventQueueRead /\ eventQueueWrite' = <<>>
      /\ UNCHANGED <<contextRelays, relaysToUnsubscribe, published, lastReceived>>
  BY DEF ClearInTick, Clear, registry, deferred, history
<1>2. /\ Last \in Nat /\ Last >= 14 /\ pc = Last
      /\ Len(published) \in Nat /\ Len(eventQueueRead) \in Nat
  BY <1>1, TickFacts, StepKinds DEF CurrentStep
<1>3. /\ pc' = 1 /\ tickStart' = Len(published) /\ fromInput' = fromInput
      /\ \A c : Ahead(c)'
  BY <1>1, <1>2, AheadNext
<1>4. Inv' /\ Filed'
  BY <1>1, QueueStepPreserves DEF TickInv, Filed
<1>5. Len(eventQueueWrite') = 0 /\ Passed' = Len(published) - Len(eventQueueRead)
  BY <1>1, <1>2 DEF Passed
<1>6. QueuesInOrder'
  BY <1>1, <1>2, <1>3, <1>5 DEF TickInv, QueuesInOrder, Consecutive
<1>7. InputIsFirst'
  <2>1. fromInput' \ (1 .. tickStart') = {}
    BY <1>3 DEF TickInv
  <2>2. tickStart' + 1 .. Len(published') = {}
    BY <1>1, <1>2, <1>3
  <2> QED
    BY <1>1, <1>2, <1>3, <1>5, <2>1, <2>2 DEF InputIsFirst
<1>8. \A r \in Relay : Handed(r)' = Handed(r)
  BY <1>1, <1>2, <1>3, <1>5 DEF Handed, Called
<1>9. NothingIsMissed'
  BY <1>1, <1>8, TickFacts, MissedKept
<1> QED
  BY <1>1, <1>2, <1>3, <1>4, <1>6, <1>7, <1>9 DEF TickInv

(* When events are published, and of which types.                          *)
LEMMA PublishedWhen ==
  ASSUME TickInv, NEW t \in EventType, t \in Publishable
  PROVE  \/ pc = 4 /\ t \in DeviceEvents
         \/ pc = 8 /\ t \in CommandEvents
         \/ pc \in 10 .. Last - 2
<1>1. Last \in Nat /\ Last >= 14 /\ pc \in 1 .. Last
  BY TickFacts
<1>2. CASE CurrentStep.op = "update"
  <2>1. t \in CurrentStep.types
    BY <1>2 DEF Publishable
  <2> QED
    BY <1>1, <1>2, <2>1, StepKinds DEF CurrentStep
<1>3. CASE CurrentStep.op # "update"
  <2>1. InHandler /\ pc > Len(InputSteps)
    BY <1>3 DEF Publishable
  <2>2. call # NoCall
    BY <2>1 DEF InHandler
  <2>3. Len(InputSteps) = 9
    BY DEF InputSteps
  <2> QED
    BY <1>1, <2>1, <2>2, <2>3, InCall
<1> QED
  BY <1>2, <1>3

(* What an input phase publishes is not of the type of a relay whose       *)
(* context has had its turn.                                               *)
LEMMA InputComesInTime ==
  ASSUME TickInv, NEW t \in EventType, t \in Publishable, pc <= 9,
         NEW r \in Relay, ~ Ahead(ContextOf[r])
  PROVE  TypeOf[r] # t
<1>1. PICK j \in 1 .. pc - 1 : TickSteps[j] = ProcessFor(ContextOf[r])
  BY DEF Ahead
<1>2. Last \in Nat /\ Last >= 14 /\ pc \in 1 .. Last
  BY TickFacts
<1>3. \/ pc = 4 /\ t \in DeviceEvents
      \/ pc = 8 /\ t \in CommandEvents
  BY <1>2, PublishedWhen
<1>4. j \in 1 .. Last /\ j < pc
  BY <1>1, <1>2
<1>5. \/ ContextOf[r] = InputManager
      \/ ContextOf[r] = InputProxy /\ pc = 8
  BY <1>1, <1>3, <1>4, ProcessAt
<1> QED
  BY <1>3, <1>5, InputListeners

LEMMA PublishInTickPreserves ==
  ASSUME TickInv, NEW t \in EventType, PublishInTick(t)
  PROVE  TickInv'
<1>1. /\ published' = Append(published, t)
      /\ eventQueueWrite' = Append(eventQueueWrite, Len(published) + 1)
      /\ UNCHANGED <<eventQueueRead, contextRelays, relaysToUnsubscribe, call,
                     lastReceived, pc, tickStart>>
      /\ Len(published) < MaxEvents
  BY DEF PublishInTick, Publish, registry, deferred
<1>2. /\ Last \in Nat /\ Last >= 14 /\ pc \in 1 .. Last
      /\ Len(published) \in Nat /\ tickStart \in 0 .. Len(published)
      /\ Len(eventQueueRead) \in Nat /\ Len(eventQueueWrite) \in Nat
  BY TickFacts
<1>3. \/ pc = 4 /\ t \in DeviceEvents
      \/ pc = 8 /\ t \in CommandEvents
      \/ pc \in 10 .. Last - 2
  BY PublishedWhen DEF PublishInTick
<1>4. /\ Len(published') = Len(published) + 1
      /\ published'[Len(published) + 1] = t
      /\ \A id \in 1 .. Len(published) : published'[id] = published[id]
  BY <1>1, <1>2 DEF TickInv, Inv, TypeOK
<1>5. /\ Len(eventQueueWrite') = Len(eventQueueWrite) + 1
      /\ eventQueueWrite'[Len(eventQueueWrite) + 1] = Len(published) + 1
      /\ \A i \in 1 .. Len(eventQueueWrite) : eventQueueWrite'[i] = eventQueueWrite[i]
  BY <1>1, <1>2 DEF TickInv, Inv, TypeOK
<1>6. fromInput' = IF pc <= 9 THEN fromInput \cup {Len(published) + 1} ELSE fromInput
  <2>1. Len(InputSteps) = 9
    BY DEF InputSteps
  <2> QED
    BY <2>1 DEF PublishInTick
<1>7. Inv' /\ Filed'
  BY <1>1, PublishPreserves DEF TickInv, PublishInTick, Filed
<1>8. call # NoCall => CurrentStep' = ProcessFor(call.context)
  BY <1>1, InCall DEF CurrentStep
<1>9. Passed' = Passed
  BY <1>1, <1>2, <1>4, <1>5 DEF Passed
<1>10. QueuesInOrder'
  <2>1. pc # Last /\ pc \notin {1, 2, 6, 7}
    BY <1>2, <1>3
  <2>2. Passed' >= 0
    BY <1>9, <2>1 DEF TickInv, QueuesInOrder
  <2>3. Consecutive(eventQueueWrite', Len(published'))
    <3>1. Consecutive(eventQueueWrite, Len(published))
      BY <2>1 DEF TickInv, QueuesInOrder
    <3> SUFFICES ASSUME NEW i \in 1 .. Len(eventQueueWrite')
                 PROVE  eventQueueWrite'[i] = Len(published') - Len(eventQueueWrite') + i
      BY DEF Consecutive
    <3>2. CASE i = Len(eventQueueWrite) + 1
      BY <1>2, <1>4, <1>5, <3>2
    <3>3. CASE i \in 1 .. Len(eventQueueWrite)
      BY <1>2, <1>4, <1>5, <3>1, <3>3 DEF Consecutive
    <3> QED
      BY <1>2, <1>5, <3>2, <3>3
  <2>4. Consecutive(eventQueueRead', Len(published') - Len(eventQueueWrite'))
    <3>1. Consecutive(eventQueueRead, Len(published) - Len(eventQueueWrite))
      BY <2>1 DEF TickInv, QueuesInOrder
    <3>2. Len(published') - Len(eventQueueWrite') = Len(published) - Len(eventQueueWrite)
      BY <1>2, <1>4, <1>5
    <3> QED
      BY <1>1, <3>1, <3>2
  <2> QED
    BY <1>1, <2>1, <2>2, <2>3, <2>4 DEF TickInv, QueuesInOrder
<1>11. InputIsFirst'
  <2>1. pc # Last
    BY <1>2, <1>3
  <2>2. Passed' <= tickStart'
    BY <1>1, <1>9, <2>1 DEF TickInv, InputIsFirst
  <2>3. CASE pc <= 9
    <3>1. fromInput \ (1 .. tickStart) = tickStart + 1 .. Len(published)
      BY <2>3 DEF TickInv, InputIsFirst
    <3>2. fromInput' \ (1 .. tickStart)
            = (fromInput \ (1 .. tickStart)) \cup {Len(published) + 1}
      BY <1>2, <1>6, <2>3
    <3>3. fromInput' \ (1 .. tickStart) = tickStart + 1 .. Len(published) + 1
      BY <1>2, <3>1, <3>2
    <3>4. fromInput' \ (1 .. tickStart') = tickStart' + 1 .. Len(published')
      BY <1>1, <1>4, <3>3, Zenon
    <3>5. pc' = pc /\ ~ (pc > 9)
      BY <1>1, <1>2, <2>3
    <3> QED
      BY <2>2, <3>4, <3>5 DEF InputIsFirst
  <2>4. CASE pc > 9
    <3>1. Len(published') - Len(eventQueueWrite') = Len(published) - Len(eventQueueWrite)
      BY <1>2, <1>4, <1>5
    <3>2. fromInput' = fromInput /\ ~ (pc <= 9)
      BY <1>2, <1>6, <2>4
    <3> QED
      BY <1>1, <2>1, <2>2, <2>4, <3>1, <3>2 DEF TickInv, InputIsFirst
  <2> QED
    BY <1>2, <2>3, <2>4
<1>12. NothingIsMissed'
  <2>1. ASSUME NEW r \in Relay
        PROVE  /\ Handed(r)' \in Int /\ Handed(r) <= Handed(r)'
               /\ \A j \in Handed(r) + 1 .. Handed(r)' : published'[j] # TypeOf[r]
    <3>1. Ahead(ContextOf[r])' <=> Ahead(ContextOf[r])
      BY <1>1 DEF Ahead
    <3>2. CASE ~ Ahead(ContextOf[r]) /\ pc <= 9
      <4>1. pc # Last
        BY <1>2, <3>2
      <4>2. Handed(r) = Len(published) /\ Handed(r)' = Len(published) + 1
        BY <1>1, <1>4, <3>1, <3>2, <4>1 DEF Handed
      <4>3. TypeOf[r] # t
        BY <3>2, InputComesInTime DEF PublishInTick
      <4> QED
        BY <1>2, <1>4, <4>2, <4>3
    <3>3. CASE Ahead(ContextOf[r]) \/ ~ (pc <= 9)
      <4>1. pc # Last
        BY <1>2, <1>3
      <4>2. Len(published') - Len(eventQueueWrite') = Len(published) - Len(eventQueueWrite)
        BY <1>2, <1>4, <1>5
      <4>3. Handed(r)' = Handed(r)
        BY <1>1, <1>9, <3>1, <3>3, <4>1, <4>2 DEF Handed, Called
      <4> QED
        BY <4>3, TickFacts
    <3> QED
      BY <3>2, <3>3
  <2> QED
    BY <1>1, <1>4, <2>1, MissedKept
<1>13. /\ tickStart' \in 0 .. Len(published')
       /\ fromInput' \subseteq 1 .. Len(published')
  <2>1. tickStart' \in 0 .. Len(published')
    BY <1>1, <1>2, <1>4
  <2>2. fromInput' \subseteq fromInput \cup {Len(published) + 1}
    BY <1>6
  <2>3. fromInput \subseteq 1 .. Len(published)
    BY DEF TickInv
  <2> QED
    BY <1>2, <1>4, <2>1, <2>2, <2>3
<1> QED
  BY <1>1, <1>7, <1>8, <1>10, <1>11, <1>12, <1>13 DEF TickInv

LEMMA SubscribeInTickPreserves ==
  ASSUME TickInv, NEW r \in Relay, SubscribeInTick(r)
  PROVE  TickInv'
<1>1. /\ Subscribe(r) /\ StayInStep
      /\ UNCHANGED <<eventQueueRead, eventQueueWrite, relaysToUnsubscribe, call,
                     published, lastReceived>>
      /\ UNCHANGED <<pc, fromInput, tickStart>>
  BY DEF SubscribeInTick, Subscribe, queues, history, StayInStep
<1>2. Inv'
  BY <1>1, SubscribePreserves DEF TickInv
<1>3. \A c \in Context :
        /\ contextRelays[c] \subseteq contextRelays'[c]
        /\ contextRelays'[c] \subseteq contextRelays[c] \cup {q \in {r} : ContextOf[q] = c}
  <2>1. CASE isProcessing
    BY <1>1, <2>1 DEF Subscribe, registry
  <2>2. CASE ~ isProcessing
    <3>1. Register({r})
      BY <1>1, <2>2 DEF Subscribe
    <3> QED
      BY <3>1 DEF Register
  <2> QED
    BY <2>1, <2>2
<1>4. Filed'
  BY <1>3 DEF TickInv, Filed
<1>5. UNCHANGED <<queues, published>>
  BY <1>1 DEF queues
<1>6. /\ QueuesInOrder' /\ InputIsFirst'
      /\ pc' \in 1 .. Last /\ tickStart' \in 0 .. Len(published')
      /\ fromInput' \subseteq 1 .. Len(published')
  BY <1>1, <1>5, QueuesKept
<1>7. \A q \in Relay : Handed(q)' = Handed(q)
  BY <1>1 DEF Handed, Called, Passed, Ahead
<1>8. NothingIsMissed'
  BY <1>1, <1>3, <1>7, TickFacts, MissedKept
<1> QED
  BY <1>1, <1>2, <1>4, <1>6, <1>8, InCall DEF TickInv, CurrentStep

LEMMA TickInitInv == TickInit => TickInv
<1> SUFFICES ASSUME TickInit PROVE TickInv
  OBVIOUS
<1>1. contextRelays = [c \in Context |-> {r \in InitialRelays : ContextOf[r] = c}]
  BY DEF TickInit
<1>2. Last \in Nat /\ Last >= 14
  BY TickShape, TickAssumption DEF Shape
<1>3. TypeOK
  <2>1. contextRelays \in [Context -> SUBSET Relay] /\ broker \subseteq Relay
    BY TickAssumption DEF TickInit
  <2>2. /\ lastReceived \in [Relay -> 0 .. MaxEvents]
        /\ since \in [Relay -> 0 .. MaxEvents]
    BY BrokerAssumption DEF TickInit
  <2>3. published \in Seq(EventType) /\ Len(published) <= MaxEvents
    BY BrokerAssumption DEF TickInit
  <2>4. eventQueueRead \in Seq(Event) /\ eventQueueWrite \in Seq(Event)
    BY DEF TickInit
  <2> QED
    BY <2>1, <2>2, <2>3, <2>4 DEF TickInit, TypeOK
<1>4. Inv
  BY <1>3 DEF TickInit, Inv, QueuedWerePublished, DeliveryIsConsistent
<1>5. Filed
  BY <1>1 DEF Filed
<1>6. pc = 1 /\ pc # Last /\ pc \in 1 .. Last
  BY <1>2 DEF TickInit
<1>7. /\ Len(published) = 0 /\ Len(eventQueueRead) = 0 /\ Len(eventQueueWrite) = 0
      /\ tickStart = 0 /\ fromInput = {}
  BY DEF TickInit
<1>8. QueuesInOrder
  BY <1>6, <1>7 DEF QueuesInOrder, Consecutive, Passed, TickInit
<1>9. InputIsFirst
  BY <1>6, <1>7 DEF InputIsFirst, Passed
<1>10. NothingIsMissed
  BY DEF TickInit, NothingIsMissed
<1> QED
  BY <1>4, <1>5, <1>6, <1>7, <1>8, <1>9, <1>10 DEF TickInit, TickInv

LEMMA TickNextInv == TickInv /\ [TickNext]_tickVars => TickInv'
<1> SUFFICES ASSUME TickInv, [TickNext]_tickVars PROVE TickInv'
  OBVIOUS
<1>1. CASE TickStep
  <2>1. CASE Dispatch
    BY <2>1, NextEventInTick, ReceiveInTick DEF Dispatch
  <2> QED
    BY <1>1, <2>1, EnterPreserves, LeaveProcessInTick, LeaveUpdateInTick,
       SwapPreserves, ClearPreserves DEF TickStep
<1>2. CASE \E t \in EventType : PublishInTick(t)
  BY <1>2, PublishInTickPreserves
<1>3. CASE \E r \in Relay : SubscribeInTick(r)
  BY <1>3, SubscribeInTickPreserves
<1>4. CASE UNCHANGED tickVars
  <2>1. UNCHANGED vars /\ UNCHANGED <<pc, fromInput, tickStart>>
    BY <1>4 DEF tickVars
  <2>2. Inv' /\ Filed'
    BY <2>1, NextPreserves DEF TickInv, vars, Filed
  <2>3. UNCHANGED <<queues, published>> /\ StayInStep
    BY <2>1 DEF vars, queues, StayInStep
  <2>4. QueuesInOrder' /\ InputIsFirst'
    BY <2>3, QueuesKept
  <2>5. \A r \in Relay : Handed(r)' = Handed(r)
    BY <2>1 DEF vars, Handed, Called, Passed, Ahead
  <2>6. NothingIsMissed'
    BY <2>1, <2>5, TickFacts, MissedKept DEF vars
  <2> QED
    BY <2>1, <2>2, <2>4, <2>6 DEF TickInv, vars, CurrentStep
<1> QED
  BY <1>1, <1>2, <1>3, <1>4 DEF TickNext

(* The inductive invariant holds in every state of every tick: at any step *)
(* the queues hold the last events published, in order, and no relay has   *)
(* missed an event that it had its chance to receive.                      *)
THEOREM TickInvariance == TickSpec => []TickInv
<1> QED
  BY TickInitInv, TickNextInv, PTL DEF TickSpec

(* In the tick of the game, too, Process stays consistent.                 *)
THEOREM DeliveryIsConsistentInTicks == TickSpec => [](TypeOK /\ DeliveryIsConsistent)
<1>1. TickInv => TypeOK /\ DeliveryIsConsistent
  BY DEF TickInv, Inv
<1> QED
  BY <1>1, TickInvariance, PTL

(* What the network and the systems process is this tick's input and       *)
(* nothing of what they publish themselves (Game.cpp:219-254).             *)
THEOREM InputIsReadAtOnce == TickSpec => []OnlyInputIsReadInItsTick
<1>1. ASSUME TickInv, call # NoCall, pc > Len(InputSteps)
      PROVE  ReadThisTick = fromInput \ (1 .. tickStart)
  <2> DEFINE w == Len(published) - Len(eventQueueWrite)
             n == Len(eventQueueRead)
  <2>1. Len(InputSteps) = 9
    BY DEF InputSteps
  <2>2. /\ Last \in Nat /\ pc \in 10 .. Last - 2
        /\ tickStart \in Nat /\ w \in Int /\ n \in Nat
    BY <1>1, <2>1, InCall, TickFacts
  <2>3. pc # Last /\ pc > 9
    BY <2>2
  <2>4. /\ fromInput \ (1 .. tickStart) = tickStart + 1 .. w
        /\ w - n >= 0 /\ w - n <= tickStart
        /\ \A i \in 1 .. n : eventQueueRead[i] = w - n + i
    BY <1>1, <2>3 DEF TickInv, InputIsFirst, QueuesInOrder, Consecutive, Passed
  <2>5. \A i \in 1 .. n : eventQueueRead[i] \notin 1 .. tickStart
          => eventQueueRead[i] \in tickStart + 1 .. w
    BY <2>2, <2>4
  <2>6. ASSUME NEW e \in tickStart + 1 .. w
        PROVE  e \in ReadThisTick
    <3>1. e - (w - n) \in 1 .. n /\ w - n + (e - (w - n)) = e /\ e \notin 1 .. tickStart
      BY <2>2, <2>4
    <3> QED
      BY <2>4, <3>1 DEF ReadThisTick
  <2>7. ReadThisTick \subseteq tickStart + 1 .. w
    BY <2>5 DEF ReadThisTick
  <2> QED
    BY <2>4, <2>6, <2>7
<1>2. TickInv => OnlyInputIsReadInItsTick
  BY <1>1 DEF OnlyInputIsReadInItsTick
<1> QED
  BY <1>2, TickInvariance, PTL

(* The game's ticks implement the bus: every relay sees the events of its  *)
(* type in order, none of them left out.                                   *)
THEOREM TickImplementsBus == TickSpec => ImplementsBus
<1>1. TickInit => Bus!Init
  BY DEF TickInit, Bus!Init
<1>2. ASSUME TickInv, [TickNext]_tickVars
      PROVE  [Bus!Next]_(Bus!vars)
  <2>1. CASE \E t \in EventType : PublishInTick(t)
    BY <2>1 DEF PublishInTick, Publish, Bus!Next, Bus!Publish
  <2>2. ASSUME NEW r \in Relay, Receive(r), StayInStep
        PROVE  Bus!Deliver(r)
    <3> DEFINE e == CurrentEvent
    <3>1. /\ e = Handed(r) + 1 /\ e \in 1 .. Len(published)
          /\ published[e] = TypeOf[r]
          /\ lastReceived' = [lastReceived EXCEPT ![r] = e]
          /\ published' = published
      BY <1>2, <2>2, ReceiveNext DEF Receive
    <3> HIDE DEF e
    <3>2. /\ Len(published) \in Nat /\ Handed(r) \in Int
          /\ lastReceived[r] \in Nat
      BY <1>2, TickFacts
    <3>3. lastReceived[r] # 0 => UpToDate(r, Handed(r))
      BY <1>2 DEF TickInv, NothingIsMissed
    <3>4. e \in Bus!Unseen(r)
      BY <3>1, <3>2, <3>3 DEF Bus!Unseen, UpToDate
    <3>5. ASSUME lastReceived[r] # 0, NEW j \in Bus!Unseen(r)
          PROVE  e <= j
      BY <3>1, <3>2, <3>3, <3>5 DEF Bus!Unseen, UpToDate
    <3> QED
      BY <3>1, <3>4, <3>5 DEF Bus!Deliver
  <2>3. CASE UNCHANGED <<published, lastReceived>>
    BY <2>3 DEF Bus!vars
  <2>4. CASE TickStep
    BY <2>2, <2>3, <2>4 DEF TickStep, EnterProcess, BeginProcess, Dispatch, NextEvent,
       LeaveProcess, EndProcess, LeaveUpdate, SwapInTick, Swap, ClearInTick,
       Clear, vars, history, Bus!Next
  <2>5. CASE \E r \in Relay : SubscribeInTick(r)
    BY <2>3, <2>5 DEF SubscribeInTick, Subscribe, history
  <2> QED
    BY <1>2, <2>1, <2>3, <2>4, <2>5 DEF TickNext, tickVars, vars
<1> QED
  BY <1>1, <1>2, TickInvariance, PTL DEF TickSpec, ImplementsBus, Bus!Spec


-----------------------------------------------------------------------------
(* The resource manager: what the threads and the constructors hold.       *)

(* What a call of Load comes back with.                                    *)
Result ==
  {Nothing, StillLoading, FailedLoading} \cup {Loaded(object) : object \in Nat \ {0}}

(* A call of Load, where it stands, and what its constructor has loaded.   *)
LoadCall == [res : Resource, async : BOOLEAN, at : {"join", "look", "make"}, got : Seq(Nat)]

(* The types of the resource manager.                                      *)
ResourcesTypeOK ==
  /\ UseThreading \in BOOLEAN
  /\ broken \in SUBSET Resource
  /\ cache \in [Resource -> Nat \cup {Absent}]
  /\ made \in [Resource -> Nat]
  /\ thread \in [Resource -> Workers \cup {NoThread}]
  /\ stack \in [Thread -> Seq(LoadCall)]
  /\ result \in [Thread -> Result]
  /\ frame \in [left : SUBSET Wanted, asked : SUBSET Wanted]

(* What the constructor of a call of Load loads next.                      *)
NeedOf(load) == Needs[load.res][Len(load.got) + 1].on

(* A call that fits: what a constructor has loaded, it needs; a resource   *)
(* that is looked for or made has no thread of its own left; and what is   *)
(* being made is not in the cache yet.                                     *)
CallFits(load, cached, loading) ==
  /\ Len(load.got) <= Len(Needs[load.res])
  /\ load.at # "make" => load.got = <<>>
  /\ load.at # "join" => loading[load.res] = NoThread
  /\ load.at = "make" => cached[load.res] = Absent
  /\ load.async /\ load.res \notin Unsafe => load.res \in LoadedInThreads
  /\ \A k \in DOMAIN load.got :
       load.got[k] # Failed => cached[Needs[load.res][k].on] = load.got[k]

(* A call that waits for another does so in its constructor.               *)
Waits(load) == load.at = "make" /\ Len(load.got) < Len(Needs[load.res])

(* The calls of the main thread fit, each was made by the constructor      *)
(* below it, and none loads what one above it is loading.                  *)
MainFits ==
  /\ \A i \in DOMAIN stack[Main] : CallFits(stack[Main][i], cache, thread)
  /\ \A i \in DOMAIN stack[Main] : i > 1 =>
       Waits(stack[Main][i]) /\ stack[Main][i - 1].res = NeedOf(stack[Main][i])
  /\ \A i, j \in DOMAIN stack[Main] : i < j =>
       stack[Main][i].res \in Below(NeedOf(stack[Main][j]))

(* What a call came back with is what the constructor asked for, and is in *)
(* the cache.                                                              *)
MainGets ==
  stack[Main] # <<>> /\ result[Main] # Nothing =>
    /\ Waits(Top(Main))
    /\ result[Main].is = "ok" => cache[NeedOf(Top(Main))] = result[Main].object

(* The call a loading thread is in.                                        *)
Fetch(r) == [Call(r, TRUE) EXCEPT !.at = "make"]

(* A thread is in no call, or in that of a file it is registered for.      *)
WorkerFits(w, calls, cached, loading) ==
  calls # <<>> =>
    \E r \in LoadedInThreads :
      calls = <<Fetch(r)>> /\ loading[r] = w /\ cached[r] = Absent

(* No loading thread is in a call of another.                              *)
WorkersFit ==
  \A w \in Workers : result[w] = Nothing /\ WorkerFits(w, stack[w], cache, thread)

(* The inductive invariant of the resource manager.                        *)
ResourcesInv ==
  /\ ResourcesTypeOK
  /\ UseThreading \/ thread = [r \in Resource |-> NoThread]
  /\ MainFits /\ MainGets /\ WorkersFit

-----------------------------------------------------------------------------
(* A sequence with one more before it, ...                                 *)
LEMMA Pushed ==
  ASSUME NEW S, NEW s \in Seq(S), NEW c \in S
  PROVE  /\ <<c>> \o s \in Seq(S) /\ Len(<<c>> \o s) = Len(s) + 1
         /\ (<<c>> \o s)[1] = c
         /\ \A i \in 1 .. Len(s) : (<<c>> \o s)[i + 1] = s[i]
  OBVIOUS

(* ... with one less, ...                                                  *)
LEMMA Popped ==
  ASSUME NEW S, NEW s \in Seq(S), s # <<>>
  PROVE  /\ Tail(s) \in Seq(S) /\ Len(Tail(s)) = Len(s) - 1
         /\ \A i \in 1 .. Len(s) - 1 : Tail(s)[i] = s[i + 1]
  OBVIOUS

(* ... and with another for its first.                                     *)
LEMMA Replaced ==
  ASSUME NEW S, NEW s \in Seq(S), s # <<>>, NEW c \in S
  PROVE  /\ <<c>> \o Tail(s) \in Seq(S) /\ Len(<<c>> \o Tail(s)) = Len(s)
         /\ (<<c>> \o Tail(s))[1] = c
         /\ \A i \in 2 .. Len(s) : (<<c>> \o Tail(s))[i] = s[i]
<1>1. Tail(s) \in Seq(S) /\ Len(Tail(s)) = Len(s) - 1
  BY Popped
<1>2. ASSUME NEW i \in 2 .. Len(s)
      PROVE  (<<c>> \o Tail(s))[i] = s[i]
  <2>1. i - 1 \in 1 .. Len(Tail(s)) /\ (i - 1) + 1 = i
    BY <1>1
  <2>2. (<<c>> \o Tail(s))[(i - 1) + 1] = Tail(s)[i - 1]
    BY <1>1, <2>1, Pushed
  <2>3. Tail(s)[i - 1] = s[(i - 1) + 1]
    BY <1>1, <2>1, Popped
  <2> QED
    BY <2>1, <2>2, <2>3
<1>3. Len(<<c>> \o Tail(s)) = Len(s) /\ (<<c>> \o Tail(s))[1] = c
      /\ <<c>> \o Tail(s) \in Seq(S)
  BY <1>1, Pushed
<1> QED
  BY <1>2, <1>3

(* Loading a resource can load it, and what is loaded for what it loads.   *)
LEMMA BelowIsClosed ==
  ASSUME NEW r \in Resource
  PROVE  /\ r \in Below(r)
         /\ \A q \in Below(r) : q \in Resource /\ \A k \in DOMAIN Needs[q] :
              Needs[q][k].on \in Below(r)
<1>1. r \in Below(r)
  BY DEF Below
<1>2. ASSUME NEW q \in Below(r), NEW k \in DOMAIN Needs[q]
      PROVE  Needs[q][k].on \in Below(r)
  <2>1. q \in Resource /\ Needs[q][k].on \in Resource
    BY ResourcesAssumption DEF Below
  <2>2. ASSUME NEW S \in SUBSET Resource, r \in S, HoldsItsNeeds(S)
        PROVE  Needs[q][k].on \in S
    BY <2>2 DEF Below, HoldsItsNeeds
  <2> QED
    BY <2>1, <2>2 DEF Below
<1> QED
  BY <1>1, <1>2 DEF Below

(* What is needed can be loaded itself.                                    *)
LEMMA NeedsAreResources ==
  ASSUME NEW q \in Resource, NEW k \in DOMAIN Needs[q]
  PROVE  Needs[q][k].on \in Resource
<1> DEFINE needed == [on : Resource, async : BOOLEAN, try : BOOLEAN]
<1>1. Needs[q] \in Seq(needed)
  BY ResourcesAssumption
<1>2. Needs[q][k] \in needed
  <2> HIDE DEF needed
  <2> QED
    BY <1>1
<1> QED
  BY <1>2

(* What threads load are resources.                                        *)
LEMMA LoadedAreResources == LoadedInThreads \subseteq Resource
  BY NeedsAreResources, ResourcesAssumption DEF LoadedInThreads, NeededAsync

(* What a constructor that is not done needs next.                         *)
LEMMA NeedFacts ==
  ASSUME NEW load \in LoadCall, Len(load.got) < Len(Needs[load.res])
  PROVE  /\ Len(load.got) + 1 \in DOMAIN Needs[load.res]
         /\ NeedOf(load) \in Resource
         /\ Needs[load.res][Len(load.got) + 1] \in [on : Resource, async : BOOLEAN, try : BOOLEAN]
<1> DEFINE needed == [on : Resource, async : BOOLEAN, try : BOOLEAN]
<1>1. load.res \in Resource /\ Len(load.got) \in Nat
  BY DEF LoadCall
<1>2. Needs[load.res] \in Seq(needed)
  BY <1>1, ResourcesAssumption
<1>3. /\ Len(load.got) + 1 \in DOMAIN Needs[load.res]
      /\ Needs[load.res][Len(load.got) + 1] \in needed
  <2> HIDE DEF needed
  <2> QED
    BY <1>1, <1>2
<1> QED
  BY <1>3 DEF NeedOf

(* The calls that wait are for other resources than those above them, and  *)
(* what those release has not been loaded by them.                         *)
LEMMA WaitingAreOthers ==
  ASSUME ResourcesTypeOK, MainFits,
         NEW i \in DOMAIN stack[Main], NEW j \in DOMAIN stack[Main], i < j
  PROVE  /\ stack[Main][i].res # stack[Main][j].res
         /\ \A k \in DOMAIN stack[Main][j].got :
              Needs[stack[Main][j].res][k].on \notin Frees[stack[Main][i].res]
<1> DEFINE q == stack[Main][j]
<1>1. stack[Main] \in Seq(LoadCall)
  BY DEF ResourcesTypeOK, Thread
<1>2. q \in LoadCall /\ j > 1
  BY <1>1
<1>3. Len(q.got) < Len(Needs[q.res]) /\ stack[Main][i].res \in Below(NeedOf(q))
  BY <1>2 DEF MainFits, Waits
<1>4. Len(q.got) + 1 \in DOMAIN Needs[q.res] /\ q.res \in Resource
  BY <1>2, <1>3, NeedFacts DEF LoadCall
<1>5. DOMAIN q.got = 1 .. (Len(q.got) + 1) - 1
  BY <1>2 DEF LoadCall
<1> QED
  BY <1>3, <1>4, <1>5, ResourcesAssumption DEF NeedOf

-----------------------------------------------------------------------------
LEMMA ResourcesInitInv == ResourcesInit => ResourcesInv
<1> SUFFICES ASSUME ResourcesInit PROVE ResourcesInv
  OBVIOUS
<1>1. ResourcesTypeOK
  BY ResourcesAssumption DEF ResourcesInit, ResourcesTypeOK, Result, Thread
<1>2. MainFits /\ MainGets /\ WorkersFit
  BY DEF ResourcesInit, MainFits, MainGets, WorkersFit, WorkerFits, Thread
<1> QED
  BY <1>1, <1>2 DEF ResourcesInv, ResourcesInit

(* How a step changes the main thread's calls: the top one ends, goes on,  *)
(* or calls for what it needs; the others fit as before.                   *)
LEMMA MainPops ==
  ASSUME ResourcesTypeOK, MainFits, stack[Main] # <<>>,
         stack'[Main] = Tail(stack[Main]),
         \A i \in DOMAIN stack[Main] : i > 1 => CallFits(stack[Main][i], cache', thread'),
         Len(stack[Main]) > 1 /\ result'[Main].is = "ok" =>
           cache'[Top(Main).res] = result'[Main].object
  PROVE  MainFits' /\ MainGets' /\ stack'[Main] \in Seq(LoadCall)
<1> DEFINE s == stack[Main]
<1>1. s \in Seq(LoadCall)
  BY DEF ResourcesTypeOK, Thread
<1>2. /\ stack'[Main] \in Seq(LoadCall) /\ Len(stack'[Main]) = Len(s) - 1
      /\ \A i \in 1 .. Len(s) - 1 : stack'[Main][i] = s[i + 1]
  BY <1>1, Popped
<1>3. DOMAIN stack'[Main] = 1 .. Len(s) - 1 /\ DOMAIN s = 1 .. Len(s) /\ Len(s) \in Nat
  BY <1>1, <1>2
<1>4. \A i \in DOMAIN stack'[Main] : i + 1 \in DOMAIN s /\ stack'[Main][i] = s[i + 1]
  BY <1>2, <1>3
<1>5. \A i \in DOMAIN stack'[Main] : CallFits(stack'[Main][i], cache', thread')
  BY <1>3, <1>4
<1>6. \A i \in DOMAIN stack'[Main] : i > 1 =>
        Waits(stack'[Main][i]) /\ stack'[Main][i - 1].res = NeedOf(stack'[Main][i])
  BY <1>3, <1>4 DEF MainFits
<1>7. \A i, j \in DOMAIN stack'[Main] : i < j =>
        stack'[Main][i].res \in Below(NeedOf(stack'[Main][j]))
  BY <1>3, <1>4 DEF MainFits
<1>8. MainFits'
  BY <1>5, <1>6, <1>7 DEF MainFits
<1>9. MainGets'
  <2> SUFFICES ASSUME stack'[Main] # <<>>
               PROVE  /\ Waits(stack'[Main][1])
                      /\ result'[Main].is = "ok" => cache'[NeedOf(stack'[Main][1])] = result'[Main].object
    BY DEF MainGets, Top
  <2>1. Len(s) > 1 /\ 2 \in DOMAIN s /\ stack'[Main][1] = s[2]
    BY <1>2, <1>3
  <2>2. Waits(s[2]) /\ s[1].res = NeedOf(s[2])
    BY <2>1 DEF MainFits
  <2> QED
    BY <2>1, <2>2 DEF Top
<1> QED
  BY <1>2, <1>8, <1>9

(* The calls still fit when the last of them goes on.                      *)
LEMMA MainContinues ==
  ASSUME ResourcesTypeOK, MainFits, stack[Main] # <<>>,
         NEW c \in LoadCall, c.res = Top(Main).res, CallFits(c, cache', thread'),
         stack'[Main] = <<c>> \o Tail(stack[Main]), result'[Main] = Nothing,
         \A i \in DOMAIN stack[Main] : i > 1 => CallFits(stack[Main][i], cache', thread')
  PROVE  MainFits' /\ MainGets' /\ stack'[Main] \in Seq(LoadCall)
<1> DEFINE s == stack[Main]
<1>1. s \in Seq(LoadCall)
  BY DEF ResourcesTypeOK, Thread
<1>2. /\ stack'[Main] \in Seq(LoadCall) /\ Len(stack'[Main]) = Len(s)
      /\ stack'[Main][1] = c
      /\ \A i \in 2 .. Len(s) : stack'[Main][i] = s[i]
  BY <1>1, Replaced
<1>3. DOMAIN stack'[Main] = DOMAIN s /\ DOMAIN s = 1 .. Len(s) /\ Len(s) \in Nat
  BY <1>1, <1>2
<1>4. \A i \in DOMAIN s : i > 1 => stack'[Main][i] = s[i]
  BY <1>2, <1>3
<1>5. ASSUME NEW i \in DOMAIN s
      PROVE  stack'[Main][i].res = s[i].res
  <2>1. CASE i = 1
    BY <2>1, <1>2 DEF Top
  <2>2. CASE i > 1
    BY <2>2, <1>4
  <2> QED
    BY <2>1, <2>2, <1>3
<1>6. \A i \in DOMAIN stack'[Main] : CallFits(stack'[Main][i], cache', thread')
  BY <1>2, <1>3, <1>4
<1>7. \A i \in DOMAIN stack'[Main] : i > 1 =>
        Waits(stack'[Main][i]) /\ stack'[Main][i - 1].res = NeedOf(stack'[Main][i])
  <2> TAKE i \in DOMAIN stack'[Main]
  <2> HAVE i > 1
  <2>1. i \in DOMAIN s /\ i - 1 \in DOMAIN s
    BY <1>3
  <2>2. stack'[Main][i] = s[i] /\ stack'[Main][i - 1].res = s[i - 1].res
    BY <2>1, <1>4, <1>5
  <2> QED
    BY <2>1, <2>2 DEF MainFits
<1>8. ASSUME NEW i \in DOMAIN stack'[Main], NEW j \in DOMAIN stack'[Main], i < j
      PROVE  stack'[Main][i].res \in Below(NeedOf(stack'[Main][j]))
  <2>1. i \in DOMAIN s /\ j \in DOMAIN s /\ j > 1
    BY <1>3, <1>8
  <2>2. s[i].res \in Below(NeedOf(s[j])) /\ stack'[Main][j] = s[j]
    BY <2>1, <1>4, <1>8 DEF MainFits
  <2> QED
    BY <2>1, <2>2, <1>5
<1> QED
  BY <1>2, <1>6, <1>7, <1>8 DEF MainFits, MainGets

(* The calls still fit when the last of them loads what it needs.          *)
LEMMA MainPushes ==
  ASSUME ResourcesTypeOK, MainFits, stack[Main] # <<>>, Waits(Top(Main)),
         NEW c \in LoadCall, c.res = NeedOf(Top(Main)), CallFits(c, cache', thread'),
         stack'[Main] = <<c>> \o stack[Main], result'[Main] = Nothing,
         \A i \in DOMAIN stack[Main] : CallFits(stack[Main][i], cache', thread')
  PROVE  MainFits' /\ MainGets' /\ stack'[Main] \in Seq(LoadCall)
<1> DEFINE s == stack[Main]
<1>1. s \in Seq(LoadCall)
  BY DEF ResourcesTypeOK, Thread
<1>2. /\ stack'[Main] \in Seq(LoadCall) /\ Len(stack'[Main]) = Len(s) + 1
      /\ stack'[Main][1] = c
      /\ \A i \in 1 .. Len(s) : stack'[Main][i + 1] = s[i]
  BY <1>1, Pushed
<1>3. DOMAIN stack'[Main] = 1 .. Len(s) + 1 /\ DOMAIN s = 1 .. Len(s) /\ Len(s) \in Nat \ {0}
  BY <1>1, <1>2
<1>4. \A i \in DOMAIN stack'[Main] : i > 1 =>
        i - 1 \in DOMAIN s /\ stack'[Main][i] = s[i - 1]
  BY <1>2, <1>3
<1>5. \A i \in DOMAIN stack'[Main] : CallFits(stack'[Main][i], cache', thread')
  BY <1>2, <1>3, <1>4
<1>6. \A i \in DOMAIN stack'[Main] : i > 1 =>
        Waits(stack'[Main][i]) /\ stack'[Main][i - 1].res = NeedOf(stack'[Main][i])
  <2> TAKE i \in DOMAIN stack'[Main]
  <2>1. CASE i = 2
    BY <2>1, <1>2, <1>3, <1>4 DEF Top
  <2>2. CASE i > 2
    <3>1. i - 1 \in DOMAIN s /\ i - 1 > 1 /\ (i - 1) - 1 \in DOMAIN s /\ i - 1 \in DOMAIN stack'[Main]
      BY <2>2, <1>3
    <3> QED
      BY <2>2, <3>1, <1>3, <1>4 DEF MainFits
  <2> QED
    BY <2>1, <2>2, <1>3
<1>7. \A i, j \in DOMAIN stack'[Main] : i < j =>
        stack'[Main][i].res \in Below(NeedOf(stack'[Main][j]))
  <2> SUFFICES ASSUME NEW i \in DOMAIN stack'[Main], NEW j \in DOMAIN stack'[Main], i < j
               PROVE  stack'[Main][i].res \in Below(NeedOf(stack'[Main][j]))
    OBVIOUS
  <2>1. j - 1 \in DOMAIN s /\ stack'[Main][j] = s[j - 1] /\ s[j - 1] \in LoadCall
    BY <1>1, <1>3, <1>4
  <2>2. CASE i > 1
    BY <2>1, <2>2, <1>3, <1>4 DEF MainFits
  <2>3. CASE i = 1
    <3>1. Len(Top(Main).got) + 1 \in DOMAIN Needs[Top(Main).res] /\ NeedOf(Top(Main)) \in Resource
      BY <1>1, <1>3, NeedFacts DEF Waits, Top
    <3>2. CASE j = 2
      BY <2>1, <2>3, <3>1, <3>2, <1>2, BelowIsClosed DEF Top
    <3>3. CASE j > 2
      <4>1. 1 \in DOMAIN s /\ 1 < j - 1
        BY <3>3, <1>3
      <4>2. Top(Main).res \in Below(NeedOf(s[j - 1]))
        BY <4>1, <2>1 DEF MainFits, Top
      <4>3. NeedOf(s[j - 1]) \in Resource
        BY <2>1, <4>1, NeedFacts DEF MainFits, Waits
      <4>4. NeedOf(Top(Main)) \in Below(NeedOf(s[j - 1]))
        BY <4>2, <4>3, <3>1, BelowIsClosed DEF NeedOf
      <4> QED
        BY <4>4, <2>1, <2>3, <1>2
    <3> QED
      BY <3>2, <3>3, <2>3, <1>3
  <2> QED
    BY <2>2, <2>3, <1>3
<1> QED
  BY <1>2, <1>5, <1>6, <1>7 DEF MainFits, MainGets

-----------------------------------------------------------------------------
(* The steps of the main thread.                                           *)

(* Stacks have their types when the main thread moves.                     *)
LEMMA StacksAreTyped ==
  ASSUME ResourcesTypeOK, NEW s \in Seq(LoadCall),
         stack' = [stack EXCEPT ![Main] = s]
  PROVE  /\ stack' \in [Thread -> Seq(LoadCall)] /\ stack'[Main] = s
         /\ \A w \in Workers : stack'[w] = stack[w]
  BY ResourcesAssumption DEF ResourcesTypeOK, Thread, Main

(* The last call, ...                                                      *)
LEMMA TopIsTyped ==
  ASSUME ResourcesTypeOK, NEW t \in Thread, stack[t] # <<>>
  PROVE  /\ Top(t) \in LoadCall /\ 1 \in DOMAIN stack[t] /\ Top(t) = stack[t][1]
         /\ stack[t] \in Seq(LoadCall) /\ Tail(stack[t]) \in Seq(LoadCall)
         /\ \A c \in LoadCall : <<c>> \o Tail(stack[t]) \in Seq(LoadCall)
         /\ \A c \in LoadCall : <<c>> \o stack[t] \in Seq(LoadCall)
<1>1. stack[t] \in Seq(LoadCall)
  BY DEF ResourcesTypeOK
<1>2. Top(t) = stack[t][1] /\ Top(t) \in LoadCall /\ 1 \in DOMAIN stack[t]
  <2> HIDE DEF LoadCall
  <2> QED
    BY <1>1 DEF Top
<1> QED
  BY <1>1, <1>2, Pushed, Popped, Replaced

(* ... and any call, is of a resource.                                     *)
LEMMA CallIsTyped ==
  ASSUME ResourcesTypeOK, NEW t \in Thread, NEW i \in DOMAIN stack[t]
  PROVE  stack[t][i] \in LoadCall /\ stack[t][i].res \in Resource
<1>1. stack[t] \in Seq(LoadCall)
  BY DEF ResourcesTypeOK
<1>2. stack[t][i] \in LoadCall
  <2> HIDE DEF LoadCall
  <2> QED
    BY <1>1
<1> QED
  BY <1>2 DEF LoadCall

(* Results have their types when the main thread moves.                    *)
LEMMA ResultsAreTyped ==
  ASSUME ResourcesTypeOK, NEW v \in Result, result' = [result EXCEPT ![Main] = v]
  PROVE  /\ result' \in [Thread -> Result] /\ result'[Main] = v
         /\ \A w \in Workers : result'[w] = result[w]
  BY ResourcesAssumption DEF ResourcesTypeOK, Thread, Main

(* What a step of the main thread leaves of the others.                    *)
OnlyMainMoves ==
  /\ stack' \in [Thread -> Seq(LoadCall)] /\ result' \in [Thread -> Result]
  /\ \A w \in Workers : stack'[w] = stack[w] /\ result'[w] = result[w]

(* The calls still fit when the last of them returns.                      *)
LEMMA MainReturns ==
  ASSUME ResourcesTypeOK, MainFits, stack[Main] # <<>>,
         NEW v \in Result, Returns(Main, v),
         \A i \in DOMAIN stack[Main] : i > 1 => CallFits(stack[Main][i], cache', thread'),
         Len(stack[Main]) > 1 /\ v.is = "ok" => cache'[Top(Main).res] = v.object
  PROVE  MainFits' /\ MainGets' /\ OnlyMainMoves
<1>1. /\ stack' = [stack EXCEPT ![Main] = Tail(stack[Main])]
      /\ result' = [result EXCEPT ![Main] = v]
  BY DEF Returns
<1>2. Main \in Thread
  BY DEF Thread
<1>3. stack' \in [Thread -> Seq(LoadCall)] /\ stack'[Main] = Tail(stack[Main])
      /\ \A w \in Workers : stack'[w] = stack[w]
  BY <1>1, <1>2, TopIsTyped, StacksAreTyped
<1>4. result' \in [Thread -> Result] /\ result'[Main] = v
      /\ \A w \in Workers : result'[w] = result[w]
  BY <1>1, ResultsAreTyped
<1>5. MainFits' /\ MainGets'
  BY <1>3, <1>4, MainPops
<1> QED
  BY <1>3, <1>4, <1>5 DEF OnlyMainMoves

(* The types and the calls, when the last of them goes on.                 *)
LEMMA MainGoesOn ==
  ASSUME ResourcesTypeOK, MainFits, stack[Main] # <<>>,
         NEW c \in LoadCall, Continues(Main, c),
         c.res = Top(Main).res, CallFits(c, cache', thread'),
         \A i \in DOMAIN stack[Main] : i > 1 => CallFits(stack[Main][i], cache', thread')
  PROVE  MainFits' /\ MainGets' /\ OnlyMainMoves
<1>1. /\ stack' = [stack EXCEPT ![Main] = <<c>> \o Tail(stack[Main])]
      /\ result' = [result EXCEPT ![Main] = Nothing] /\ Nothing \in Result
  BY DEF Continues, Result
<1>2. Main \in Thread
  BY DEF Thread
<1>3. stack' \in [Thread -> Seq(LoadCall)] /\ stack'[Main] = <<c>> \o Tail(stack[Main])
      /\ \A w \in Workers : stack'[w] = stack[w]
  BY <1>1, <1>2, TopIsTyped, StacksAreTyped
<1>4. result' \in [Thread -> Result] /\ result'[Main] = Nothing
      /\ \A w \in Workers : result'[w] = result[w]
  BY <1>1, ResultsAreTyped
<1>5. MainFits' /\ MainGets'
  BY <1>3, <1>4, MainContinues
<1> QED
  BY <1>3, <1>4, <1>5 DEF OnlyMainMoves

(* The loading threads fit while their resources are left alone.           *)
LEMMA WorkersStillFit ==
  ASSUME WorkersFit, OnlyMainMoves,
         \A q \in LoadedInThreads :
           thread[q] # NoThread /\ stack[thread[q]] # <<>> /\ cache[q] = Absent
             => thread'[q] = thread[q] /\ cache'[q] = Absent
  PROVE  WorkersFit'
<1>1. ASSUME NEW w \in Workers
      PROVE  WorkerFits(w, stack[w], cache', thread')
  <2>1. CASE stack[w] = <<>>
    BY <2>1 DEF WorkerFits
  <2>2. CASE stack[w] # <<>>
    <3>1. PICK q \in LoadedInThreads :
            stack[w] = <<Fetch(q)>> /\ thread[q] = w /\ cache[q] = Absent
      BY <2>2 DEF WorkersFit, WorkerFits
    <3>2. w # NoThread
      BY ResourcesAssumption DEF NoThread
    <3> QED
      BY <2>2, <3>1, <3>2 DEF WorkerFits
  <2> QED
    BY <2>1, <2>2
<1> QED
  BY <1>1 DEF WorkersFit, OnlyMainMoves

(* Steps that leave the cache and the registered threads alone.            *)
LEMMA CallsFitStill ==
  ASSUME MainFits, UNCHANGED <<cache, thread>>
  PROVE  \A i \in DOMAIN stack[Main] : CallFits(stack[Main][i], cache', thread')
  BY DEF MainFits

(* A step of the main thread that leaves cache and threads alone.          *)
LEMMA QuietStep ==
  ASSUME ResourcesInv, UNCHANGED <<config, cache, made, thread>>,
         MainFits', MainGets', OnlyMainMoves,
         frame' \in [left : SUBSET Wanted, asked : SUBSET Wanted]
  PROVE  ResourcesInv'
<1>1. WorkersFit'
  BY WorkersStillFit DEF ResourcesInv
<1>2. ResourcesTypeOK'
  BY DEF ResourcesInv, ResourcesTypeOK, OnlyMainMoves, config
<1> QED
  BY <1>1, <1>2 DEF ResourcesInv, config

(* The steps of the main thread, one by one.                               *)
LEMMA MainJoins ==
  ASSUME ResourcesInv, Join(Main)
  PROVE  ResourcesInv'
<1> DEFINE r == Top(Main).res
           looks == [Top(Main) EXCEPT !.at = "look"]
<1>1. Main \in Thread /\ stack[Main] # <<>> /\ ResourcesTypeOK /\ MainFits /\ WorkersFit
  BY DEF ResourcesInv, Join, Active, Thread
<1>2. Top(Main) \in LoadCall /\ Top(Main).at = "join" /\ CallFits(Top(Main), cache, thread)
  BY <1>1, TopIsTyped DEF MainFits, Join
<1>3. UNCHANGED <<config, cache, made, frame>>
  BY DEF Join
<1>4. frame' \in [left : SUBSET Wanted, asked : SUBSET Wanted]
  BY <1>1, <1>3 DEF ResourcesTypeOK
<1>5. CASE Returns(Main, StillLoading) /\ UNCHANGED thread
  <2>1. MainFits' /\ MainGets' /\ OnlyMainMoves
    BY <1>1, <1>3, <1>5, CallsFitStill, MainReturns DEF StillLoading, Result
  <2> QED
    BY <2>1, <1>3, <1>4, <1>5, QuietStep
<1>6. CASE /\ ~(UseThreading /\ thread[r] # NoThread /\ Works(thread[r]))
           /\ thread' = [thread EXCEPT ![r] = IF UseThreading /\ thread[r] # NoThread THEN NoThread ELSE @]
           /\ Continues(Main, looks)
  <2>1. r \in Resource /\ looks \in LoadCall /\ looks.res = r /\ looks.at = "look"
        /\ looks.got = Top(Main).got /\ looks.async = Top(Main).async
    BY <1>2 DEF LoadCall
  <2>2. thread \in [Resource -> Workers \cup {NoThread}]
    BY <1>1 DEF ResourcesTypeOK
  <2>3. /\ thread' \in [Resource -> Workers \cup {NoThread}] /\ thread'[r] = NoThread
        /\ \A q \in Resource : q # r => thread'[q] = thread[q]
        /\ UseThreading \/ thread' = [q \in Resource |-> NoThread]
    BY <1>6, <2>1, <2>2 DEF ResourcesInv, NoThread
  <2>4. CallFits(looks, cache', thread')
    BY <1>2, <1>3, <2>1, <2>3 DEF CallFits
  <2>5. ASSUME NEW i \in DOMAIN stack[Main]
        PROVE  CallFits(stack[Main][i], cache', thread')
    <3>1. stack[Main][i].res \in Resource /\ CallFits(stack[Main][i], cache, thread)
      BY <1>1, CallIsTyped DEF MainFits
    <3> QED
      BY <3>1, <1>3, <2>3 DEF CallFits
  <2>6. MainFits' /\ MainGets' /\ OnlyMainMoves
    BY <1>1, <1>6, <2>1, <2>4, <2>5, MainGoesOn
  <2>7. ASSUME NEW q \in LoadedInThreads,
               thread[q] # NoThread /\ stack[thread[q]] # <<>> /\ cache[q] = Absent
        PROVE  thread'[q] = thread[q] /\ cache'[q] = Absent
    <3>1. q \in Resource
      BY LoadedAreResources
    <3>2. UseThreading
      BY <3>1, <2>7 DEF ResourcesInv
    <3>3. q # r
      BY <3>1, <3>2, <2>7, <1>6 DEF Works
    <3> QED
      BY <3>1, <3>3, <2>3, <2>7, <1>3
  <2>8. WorkersFit'
    BY <1>1, <2>6, <2>7, WorkersStillFit
  <2>9. ResourcesTypeOK'
    BY <1>1, <1>3, <1>4, <2>3, <2>6 DEF ResourcesTypeOK, OnlyMainMoves, config
  <2> QED
    BY <1>3, <2>3, <2>6, <2>8, <2>9 DEF ResourcesInv, config
<1> QED
  BY <1>5, <1>6 DEF Join

LEMMA MainFindsCached ==
  ASSUME ResourcesInv, Cached(Main)
  PROVE  ResourcesInv'
<1> DEFINE object == cache[Top(Main).res]
           v == IF object = Failed THEN FailedLoading ELSE Loaded(object)
<1>1. Main \in Thread /\ stack[Main] # <<>> /\ ResourcesTypeOK /\ MainFits
  BY DEF ResourcesInv, Cached, Active, Thread
<1>2. Top(Main) \in LoadCall
  BY <1>1, TopIsTyped
<1>3. /\ UNCHANGED <<config, cache, made, thread, frame>>
      /\ object # Absent /\ Returns(Main, v)
  BY DEF Cached
<1>4. object \in Nat
  BY <1>1, <1>2, <1>3 DEF LoadCall, ResourcesTypeOK
<1>5. v \in Result /\ (v.is = "ok" => cache'[Top(Main).res] = v.object)
  BY <1>3, <1>4 DEF Result, Failed, FailedLoading, Loaded
<1>6. MainFits' /\ MainGets' /\ OnlyMainMoves
  <2> HIDE DEF v
  <2> QED
    BY <1>1, <1>3, <1>5, CallsFitStill, MainReturns
<1> QED
  BY <1>1, <1>3, <1>6, QuietStep DEF ResourcesTypeOK

LEMMA MainMakes ==
  ASSUME ResourcesInv, Make(Main)
  PROVE  ResourcesInv'
<1> DEFINE makes == [Top(Main) EXCEPT !.at = "make"]
<1>1. Main \in Thread /\ stack[Main] # <<>> /\ ResourcesTypeOK /\ MainFits
  BY DEF ResourcesInv, Make, Active, Thread
<1>2. Top(Main) \in LoadCall /\ Top(Main).at = "look" /\ CallFits(Top(Main), cache, thread)
  BY <1>1, TopIsTyped DEF MainFits, Make
<1>3. /\ UNCHANGED <<config, cache, made, thread, frame>>
      /\ cache[Top(Main).res] = Absent /\ Continues(Main, makes)
  BY DEF Make
<1>4. makes \in LoadCall /\ makes.res = Top(Main).res /\ CallFits(makes, cache', thread')
  BY <1>2, <1>3 DEF LoadCall, CallFits
<1>5. MainFits' /\ MainGets' /\ OnlyMainMoves
  <2> HIDE DEF makes
  <2> QED
    BY <1>1, <1>3, <1>4, CallsFitStill, MainGoesOn
<1> QED
  BY <1>1, <1>3, <1>5, QuietStep DEF ResourcesTypeOK

LEMMA MainLoadsNeeded ==
  ASSUME ResourcesInv, LoadNeeded(Main)
  PROVE  ResourcesInv'
<1> DEFINE load == Top(Main)
           next == Call(Need(Main).on, Need(Main).async)
<1>1. Main \in Thread /\ stack[Main] # <<>> /\ ResourcesTypeOK /\ MainFits
  BY DEF ResourcesInv, LoadNeeded, Active, Thread
<1>2. load \in LoadCall /\ CallFits(load, cache, thread) /\ load.at = "make"
  BY <1>1, TopIsTyped DEF MainFits, LoadNeeded
<1>3. load.res \in Resource /\ load.got \in Seq(Nat) /\ Needs[load.res] \in Seq([on : Resource, async : BOOLEAN, try : BOOLEAN])
  BY <1>2, ResourcesAssumption DEF LoadCall
<1>4. Len(load.got) < Len(Needs[load.res])
  BY <1>2, <1>3 DEF LoadNeeded, HasAllItNeeds, CallFits
<1>5. /\ Len(load.got) + 1 \in DOMAIN Needs[load.res]
      /\ Need(Main) \in [on : Resource, async : BOOLEAN, try : BOOLEAN]
      /\ Need(Main).on = NeedOf(load)
  BY <1>2, <1>4, NeedFacts DEF Need, NeedOf
<1>6. next \in LoadCall /\ next.res = NeedOf(load) /\ next.at = "join" /\ next.got = <<>>
      /\ next.async = Need(Main).async
  BY <1>5 DEF Call, LoadCall
<1>7. CallFits(next, cache', thread')
  <2>1. next.async => next.res \in NeededAsync(load.res)
    BY <1>5, <1>6 DEF NeededAsync, Need
  <2>2. next.async /\ next.res \notin Unsafe => next.res \in LoadedInThreads
    BY <2>1, <1>3 DEF LoadedInThreads
  <2>3. Needs[next.res] \in Seq([on : Resource, async : BOOLEAN, try : BOOLEAN])
    BY <1>5, <1>6, ResourcesAssumption
  <2>4. Len(<<>>) <= Len(Needs[next.res]) /\ DOMAIN <<>> = {}
    BY <2>3
  <2> HIDE DEF next
  <2> QED
    BY <2>2, <2>4, <1>6 DEF CallFits
<1>8. UNCHANGED <<config, cache, made, thread, result, frame>>
      /\ stack' = [stack EXCEPT ![Main] = <<next>> \o stack[Main]] /\ result[Main] = Nothing
  BY DEF LoadNeeded, Active
<1>9. MainFits' /\ MainGets' /\ OnlyMainMoves
  <2> HIDE DEF next
  <2>1. stack' \in [Thread -> Seq(LoadCall)] /\ stack'[Main] = <<next>> \o stack[Main]
        /\ \A w \in Workers : stack'[w] = stack[w]
    BY <1>1, <1>6, <1>8, TopIsTyped, StacksAreTyped
  <2>2. MainFits' /\ MainGets'
    BY <2>1, <1>1, <1>2, <1>4, <1>6, <1>7, <1>8, CallsFitStill, MainPushes DEF Waits
  <2> QED
    BY <2>1, <2>2, <1>1, <1>8 DEF OnlyMainMoves, ResourcesTypeOK
<1> QED
  BY <1>1, <1>8, <1>9, QuietStep DEF ResourcesTypeOK

(* What a call holds is in the cache, as a resource that is not missing.   *)
LEMMA HeldIsInCache ==
  ASSUME ResourcesTypeOK, NEW load \in LoadCall, CallFits(load, cache, thread),
         NEW k \in DOMAIN load.got, load.got[k] # Failed
  PROVE  /\ Needs[load.res][k].on \in Resource
         /\ cache[Needs[load.res][k].on] = load.got[k]
         /\ cache[Needs[load.res][k].on] \in Nat \ {0}
<1>1. load.got \in Seq(Nat) /\ load.res \in Resource
      /\ Needs[load.res] \in Seq([on : Resource, async : BOOLEAN, try : BOOLEAN])
      /\ Len(load.got) <= Len(Needs[load.res])
  BY ResourcesAssumption DEF LoadCall, CallFits
<1>2. k \in DOMAIN Needs[load.res] /\ load.got[k] \in Nat
  BY <1>1
<1>3. Needs[load.res][k].on \in Resource
  BY <1>1, <1>2, NeedsAreResources
<1> QED
  BY <1>2, <1>3 DEF CallFits, Failed

(* A constructor that ends, on whatever thread, changes the entry of its   *)
(* own resource and of what it releases, which no call that waits holds.   *)
LEMMA WaitingStillFit ==
  ASSUME ResourcesTypeOK, MainFits, stack[Main] # <<>>, Top(Main).at = "make",
         UNCHANGED thread,
         \A q \in Resource : q # Top(Main).res =>
           cache'[q] = IF q \in Frees[Top(Main).res] THEN Absent ELSE cache[q]
  PROVE  \A i \in DOMAIN stack[Main] : i > 1 => CallFits(stack[Main][i], cache', thread')
<1> SUFFICES ASSUME NEW i \in DOMAIN stack[Main], i > 1
             PROVE  CallFits(stack[Main][i], cache', thread')
  OBVIOUS
<1> DEFINE r == Top(Main).res
           load == stack[Main][i]
<1>1. Main \in Thread /\ 1 \in DOMAIN stack[Main] /\ Top(Main) = stack[Main][1]
  BY TopIsTyped DEF Thread
<1>2. load \in LoadCall /\ load.res \in Resource /\ r \in Resource
  BY <1>1, CallIsTyped
<1>3. CallFits(load, cache, thread) /\ cache[r] = Absent
  BY <1>1 DEF MainFits, CallFits
<1>4. /\ r # load.res
      /\ \A k \in DOMAIN load.got : Needs[load.res][k].on \notin Frees[r]
  BY <1>1, WaitingAreOthers
<1>5. ASSUME NEW k \in DOMAIN load.got, load.got[k] # Failed
      PROVE  cache'[Needs[load.res][k].on] = load.got[k]
  BY <1>2, <1>3, <1>4, <1>5, HeldIsInCache DEF Absent
<1>6. load.at = "make" => cache'[load.res] = Absent
  BY <1>2, <1>3, <1>4 DEF CallFits
<1> QED
  BY <1>3, <1>5, <1>6 DEF CallFits

LEMMA MainFails ==
  ASSUME ResourcesInv, stack[Main] # <<>>, Top(Main).at = "make",
         Fails(Main), UNCHANGED <<config, thread, frame>>
  PROVE  ResourcesInv'
<1> DEFINE r == Top(Main).res
<1>1. ResourcesTypeOK /\ MainFits /\ WorkersFit /\ Main \in Thread
  BY DEF ResourcesInv, Thread
<1>2. Top(Main) \in LoadCall /\ r \in Resource /\ CallFits(Top(Main), cache, thread)
  BY <1>1, TopIsTyped DEF LoadCall, MainFits
<1>3. /\ cache' = [cache EXCEPT ![r] = Failed] /\ made' = made
      /\ Returns(Main, FailedLoading)
  BY DEF Fails
<1>4. cache' \in [Resource -> Nat \cup {Absent}]
      /\ \A q \in Resource : q # r => cache'[q] = cache[q]
  BY <1>1, <1>2, <1>3 DEF ResourcesTypeOK, Failed
<1>5. \A i \in DOMAIN stack[Main] : i > 1 => CallFits(stack[Main][i], cache', thread')
  <2> SUFFICES ASSUME NEW i \in DOMAIN stack[Main], i > 1
               PROVE  CallFits(stack[Main][i], cache', thread')
    OBVIOUS
  <2> DEFINE load == stack[Main][i]
  <2>1. load \in LoadCall /\ load.res \in Resource /\ CallFits(load, cache, thread)
        /\ 1 \in DOMAIN stack[Main] /\ Top(Main) = stack[Main][1]
    BY <1>1, CallIsTyped, TopIsTyped DEF MainFits
  <2>2. r # load.res /\ cache[r] = Absent
    BY <1>1, <1>2, <2>1, WaitingAreOthers DEF CallFits
  <2>3. ASSUME NEW k \in DOMAIN load.got, load.got[k] # Failed
        PROVE  cache'[Needs[load.res][k].on] = load.got[k]
    BY <1>1, <2>1, <2>2, <2>3, <1>4, HeldIsInCache DEF Absent
  <2> QED
    BY <2>1, <2>2, <2>3, <1>4 DEF CallFits
<1>6. MainFits' /\ MainGets' /\ OnlyMainMoves
  BY <1>1, <1>3, <1>5, MainReturns DEF FailedLoading, Result
<1>7. WorkersFit'
  <2>1. thread[r] = NoThread
    BY <1>2 DEF CallFits
  <2> QED
    BY <1>1, <1>4, <1>6, <2>1, LoadedAreResources, WorkersStillFit
<1>8. ResourcesTypeOK'
  BY <1>1, <1>3, <1>4, <1>6 DEF ResourcesTypeOK, OnlyMainMoves, config
<1> QED
  BY <1>6, <1>7, <1>8 DEF ResourcesInv, config

LEMMA MainConstructs ==
  ASSUME ResourcesInv, Construct(Main)
  PROVE  ResourcesInv'
<1> DEFINE r == Top(Main).res
<1>1. ResourcesTypeOK /\ MainFits /\ WorkersFit /\ Main \in Thread
      /\ stack[Main] # <<>> /\ Top(Main).at = "make" /\ UNCHANGED <<config, thread, frame>>
  BY DEF ResourcesInv, Thread, Construct, Active
<1>2. Top(Main) \in LoadCall /\ r \in Resource /\ CallFits(Top(Main), cache, thread)
  BY <1>1, TopIsTyped DEF LoadCall, MainFits
<1>3. CASE r \in broken
  BY <1>1, <1>3, MainFails DEF Construct
<1>4. CASE r \notin broken
  <2> DEFINE v == Loaded(made'[r])
  <2>1. /\ made' = [made EXCEPT ![r] = @ + 1]
        /\ cache' = [Released(Main) EXCEPT ![r] = made'[r]]
        /\ Returns(Main, v)
    BY <1>4 DEF Construct
  <2>2. made' \in [Resource -> Nat] /\ made'[r] \in Nat \ {0}
    BY <1>1, <1>2, <2>1 DEF ResourcesTypeOK
  <2>3. /\ cache' \in [Resource -> Nat \cup {Absent}] /\ cache'[r] = made'[r]
        /\ \A q \in Resource : q # r => cache'[q] = IF q \in Frees[r] THEN Absent ELSE cache[q]
    BY <1>1, <1>2, <2>1, <2>2 DEF ResourcesTypeOK, Released
  <2>4. v \in Result /\ v.object = cache'[r]
    BY <2>2, <2>3 DEF Loaded, Result
  <2>5. MainFits' /\ MainGets' /\ OnlyMainMoves
    <3> HIDE DEF v
    <3> QED
      BY <1>1, <2>1, <2>3, <2>4, WaitingStillFit, MainReturns
  <2>6. WorkersFit'
    <3>1. thread[r] = NoThread
      BY <1>1, <1>2 DEF CallFits
    <3>2. ASSUME NEW q \in LoadedInThreads, thread[q] # NoThread, cache[q] = Absent
          PROVE  cache'[q] = Absent /\ thread'[q] = thread[q]
      BY <1>1, <2>3, <3>1, <3>2, LoadedAreResources
    <3> QED
      BY <1>1, <2>5, <3>2, WorkersStillFit
  <2>7. ResourcesTypeOK'
    BY <1>1, <2>2, <2>3, <2>5 DEF ResourcesTypeOK, OnlyMainMoves, config
  <2> QED
    BY <1>1, <2>5, <2>6, <2>7 DEF ResourcesInv, config
<1> QED
  BY <1>3, <1>4

(* A call that has loaded something more.                                  *)
LEMMA NowHolds ==
  ASSUME NEW load \in LoadCall, NEW g \in Seq(Nat)
  PROVE  LET c == [load EXCEPT !.got = g] IN
         /\ c \in LoadCall /\ c.res = load.res /\ c.at = load.at
         /\ c.async = load.async /\ c.got = g
<1> DEFINE Numbers == Seq(Nat)
           c == [load EXCEPT !.got = g]
<1>1. load \in [res : Resource, async : BOOLEAN, at : {"join", "look", "make"}, got : Numbers]
      /\ g \in Numbers
  BY DEF LoadCall
<1>2. /\ c \in [res : Resource, async : BOOLEAN, at : {"join", "look", "make"}, got : Numbers]
      /\ c.res = load.res /\ c.at = load.at /\ c.async = load.async /\ c.got = g
  <2> HIDE DEF Numbers
  <2> QED
    BY <1>1
<1> QED
  BY <1>2 DEF LoadCall

LEMMA MainResumes ==
  ASSUME ResourcesInv, Resume(Main)
  PROVE  ResourcesInv'
<1> DEFINE load == Top(Main)
           v == result[Main]
           goesOn == [load EXCEPT !.got = Append(@, v.object)]
           restarts == [load EXCEPT !.got = <<>>]
<1>1. ResourcesTypeOK /\ MainFits /\ MainGets /\ Main \in Thread
      /\ stack[Main] # <<>> /\ v # Nothing
  BY DEF ResourcesInv, Thread, Resume
<1>2. load \in LoadCall /\ CallFits(load, cache, thread)
  BY <1>1, TopIsTyped DEF MainFits
<1>11. load.res \in Resource
  BY <1>2 DEF LoadCall
<1>3. v \in Result
  BY <1>1 DEF ResourcesTypeOK
<1>4. /\ Waits(load)
      /\ v.is = "ok" => cache[NeedOf(load)] = v.object
  BY <1>1 DEF MainGets
<1>5. UNCHANGED <<config, thread, frame>>
  BY DEF Resume
<1>6. load.got \in Seq(Nat) /\ Len(load.got) < Len(Needs[load.res]) /\ load.at = "make"
  BY <1>2, <1>4 DEF LoadCall, Waits
<1>7. CASE /\ v.is = "ok" \/ v.is = "failed"
           /\ Continues(Main, goesOn)
           /\ UNCHANGED <<cache, made>>
  <2>1. v.object \in Nat /\ (v.is = "failed" => v.object = Failed)
    BY <1>3, <1>7 DEF Result, Nothing, StillLoading, FailedLoading, Loaded, Failed
  <2>2. /\ goesOn \in LoadCall /\ goesOn.res = load.res /\ goesOn.at = "make"
        /\ goesOn.async = load.async /\ goesOn.got = Append(load.got, v.object)
    <3>1. Append(load.got, v.object) \in Seq(Nat)
      BY <1>6, <2>1
    <3> QED
      BY <3>1, <1>2, <1>6, NowHolds
  <2>3. /\ Len(goesOn.got) = Len(load.got) + 1 /\ DOMAIN goesOn.got = 1 .. Len(load.got) + 1
        /\ \A k \in 1 .. Len(load.got) : k \in DOMAIN load.got /\ goesOn.got[k] = load.got[k]
        /\ goesOn.got[Len(load.got) + 1] = v.object
    BY <1>6, <2>1, <2>2
  <2>4. Len(goesOn.got) <= Len(Needs[load.res])
    <3>1. Needs[load.res] \in Seq([on : Resource, async : BOOLEAN, try : BOOLEAN])
      BY <1>11, ResourcesAssumption
    <3>2. Len(load.got) \in Nat /\ Len(Needs[load.res]) \in Nat
      BY <3>1, <1>6
    <3> QED
      BY <3>2, <1>6, <2>3
  <2>5. ASSUME NEW k \in DOMAIN goesOn.got, goesOn.got[k] # Failed
        PROVE  cache[Needs[load.res][k].on] = goesOn.got[k]
    <3>1. CASE k = Len(load.got) + 1
      BY <3>1, <2>1, <2>3, <2>5, <1>4, <1>7 DEF NeedOf
    <3>2. CASE k \in 1 .. Len(load.got)
      BY <3>2, <2>3, <2>5, <1>2 DEF CallFits
    <3> QED
      BY <3>1, <3>2, <2>3, <1>6
  <2>6. CallFits(goesOn, cache', thread')
    <3> HIDE DEF goesOn
    <3> QED
      BY <1>2, <1>5, <1>6, <1>7, <2>2, <2>4, <2>5 DEF CallFits
  <2>7. MainFits' /\ MainGets' /\ OnlyMainMoves
    <3> HIDE DEF goesOn
    <3> QED
      BY <1>1, <1>5, <1>7, <2>2, <2>6, CallsFitStill, MainGoesOn
  <2> QED
    BY <1>1, <1>5, <1>7, <2>7, QuietStep DEF ResourcesTypeOK
<1>8. CASE Fails(Main)
  BY <1>1, <1>5, <1>6, <1>8, MainFails
<1>9. CASE Returns(Main, StillLoading) /\ UNCHANGED <<cache, made>>
  <2>1. MainFits' /\ MainGets' /\ OnlyMainMoves
    BY <1>1, <1>5, <1>9, CallsFitStill, MainReturns DEF StillLoading, Result
  <2> QED
    BY <1>1, <1>5, <1>9, <2>1, QuietStep DEF ResourcesTypeOK
<1>10. CASE Continues(Main, restarts) /\ UNCHANGED <<cache, made>>
  <2>1. /\ restarts \in LoadCall /\ restarts.res = load.res /\ restarts.at = "make"
        /\ restarts.async = load.async /\ restarts.got = <<>>
    <3>1. <<>> \in Seq(Nat)
      OBVIOUS
    <3> QED
      BY <3>1, <1>2, <1>6, NowHolds
  <2>2. Len(<<>>) <= Len(Needs[load.res]) /\ DOMAIN <<>> = {}
    <3>1. Needs[load.res] \in Seq([on : Resource, async : BOOLEAN, try : BOOLEAN])
      BY <1>2, ResourcesAssumption DEF LoadCall
    <3> QED
      BY <3>1
  <2>3. CallFits(restarts, cache', thread')
    <3> HIDE DEF restarts
    <3> QED
      BY <1>2, <1>5, <1>6, <1>10, <2>1, <2>2 DEF CallFits
  <2>4. MainFits' /\ MainGets' /\ OnlyMainMoves
    <3> HIDE DEF restarts
    <3> QED
      BY <1>1, <1>5, <1>10, <2>1, <2>3, CallsFitStill, MainGoesOn
  <2> QED
    BY <1>1, <1>5, <1>10, <2>4, QuietStep DEF ResourcesTypeOK
<1> QED
  BY <1>7, <1>8, <1>9, <1>10 DEF Resume

LEMMA MainLaunches ==
  ASSUME ResourcesInv, Launch(Main)
  PROVE  ResourcesInv'
<1> DEFINE r == Top(Main).res
<1>1. ResourcesTypeOK /\ MainFits /\ WorkersFit /\ Main \in Thread
      /\ stack[Main] # <<>> /\ Top(Main).at = "look"
  BY DEF ResourcesInv, Thread, Launch, Active
<1>2. Top(Main) \in LoadCall /\ CallFits(Top(Main), cache, thread)
      /\ 1 \in DOMAIN stack[Main] /\ Top(Main) = stack[Main][1]
  BY <1>1, TopIsTyped DEF MainFits
<1>3. /\ r \in LoadedInThreads /\ r \in Resource /\ cache[r] = Absent /\ UseThreading
      /\ thread[r] = NoThread
  BY <1>1, <1>2, LoadedAreResources DEF Launch, CallFits
<1>4. PICK w \in Free :
        /\ thread' = [thread EXCEPT ![r] = w]
        /\ stack' = [stack EXCEPT ![Main] = Tail(@), ![w] = <<Fetch(r)>>]
  BY DEF Launch, Fetch
<1>5. w \in Workers /\ stack[w] = <<>> /\ w # Main /\ w # NoThread /\ w \in Thread
      /\ \A q \in Resource : thread[q] # w
  BY ResourcesAssumption DEF Free, Main, NoThread, Thread
<1>6. /\ result' = [result EXCEPT ![Main] = StillLoading]
      /\ UNCHANGED <<config, cache, made, frame>>
  BY DEF Launch
<1>7. thread' \in [Resource -> Workers \cup {NoThread}] /\ thread'[r] = w
      /\ \A q \in Resource : q # r => thread'[q] = thread[q]
  BY <1>1, <1>3, <1>4, <1>5 DEF ResourcesTypeOK
<1>8. Fetch(r) \in LoadCall
  <2> DEFINE load == Call(r, TRUE)
  <2>1. load \in LoadCall
    BY <1>3 DEF Call, LoadCall
  <2>2. [load EXCEPT !.at = "make"] \in LoadCall
    <3> HIDE DEF load
    <3> QED
      BY <2>1 DEF LoadCall
  <2> QED
    BY <2>2 DEF Fetch
<1>9. /\ stack' \in [Thread -> Seq(LoadCall)] /\ stack'[Main] = Tail(stack[Main])
      /\ stack'[w] = <<Fetch(r)>>
      /\ \A v \in Workers : v # w => stack'[v] = stack[v]
  <2>1. Tail(stack[Main]) \in Seq(LoadCall)
    BY <1>1, TopIsTyped
  <2>2. <<Fetch(r)>> \in Seq(LoadCall)
    BY <1>8
  <2>3. stack \in [Thread -> Seq(LoadCall)] /\ Workers \subseteq Thread /\ Main \notin Workers
    BY <1>1, ResourcesAssumption DEF ResourcesTypeOK, Thread, Main
  <2> QED
    BY <1>1, <1>4, <1>5, <2>1, <2>2, <2>3
<1>10. result' \in [Thread -> Result] /\ result'[Main] = StillLoading
       /\ \A v \in Workers : result'[v] = result[v]
  BY <1>1, <1>6, ResultsAreTyped DEF Result
<1>11. ASSUME NEW i \in DOMAIN stack[Main], i > 1
       PROVE  CallFits(stack[Main][i], cache', thread')
  <2>1. stack[Main][i].res \in Resource /\ CallFits(stack[Main][i], cache, thread)
    BY <1>1, CallIsTyped DEF MainFits
  <2>2. stack[Main][i].res # r
    BY <1>1, <1>2, <1>11, WaitingAreOthers
  <2> QED
    BY <2>1, <2>2, <1>6, <1>7 DEF CallFits
<1>12. MainFits' /\ MainGets'
  BY <1>1, <1>9, <1>10, <1>11, MainPops DEF StillLoading
<1>13. ASSUME NEW v \in Workers
       PROVE  result'[v] = Nothing /\ WorkerFits(v, stack'[v], cache', thread')
  <2>1. result[v] = Nothing /\ WorkerFits(v, stack[v], cache, thread)
    BY <1>1 DEF WorkersFit
  <2>2. CASE v = w
    BY <2>1, <2>2, <1>3, <1>6, <1>7, <1>9, <1>10 DEF WorkerFits
  <2>3. CASE v # w
    <3>1. \A q \in LoadedInThreads : thread[q] = v => thread'[q] = v
      <4>1. v # NoThread
        BY ResourcesAssumption DEF NoThread
      <4> QED
        BY <4>1, <1>3, <1>7, LoadedAreResources
    <3> QED
      BY <2>1, <2>3, <3>1, <1>6, <1>9, <1>10 DEF WorkerFits
  <2> QED
    BY <2>2, <2>3
<1>14. WorkersFit'
  BY <1>13 DEF WorkersFit
<1>15. ResourcesTypeOK'
  BY <1>1, <1>6, <1>7, <1>9, <1>10 DEF ResourcesTypeOK, config
<1> QED
  BY <1>3, <1>6, <1>12, <1>14, <1>15 DEF ResourcesInv, config

(* The main thread asks for r, with nothing else under way.                *)
LEMMA MainAsks ==
  ASSUME ResourcesTypeOK, stack[Main] = <<>>, NEW r \in Resource, NEW async \in BOOLEAN,
         async => r \in Wanted, Ask(r, async), result' \in [Thread -> Result],
         result'[Main] = Nothing, \A w \in Workers : result'[w] = result[w],
         UNCHANGED <<cache, thread>>
  PROVE  MainFits' /\ MainGets' /\ OnlyMainMoves
<1> DEFINE load == Call(r, async)
<1>1. load \in LoadCall /\ load.res = r /\ load.at = "join" /\ load.got = <<>> /\ load.async = async
  BY DEF Call, LoadCall
<1>2. <<load>> \in Seq(LoadCall) /\ DOMAIN <<load>> = {1} /\ <<load>>[1] = load
  <2> HIDE DEF load
  <2> QED
    BY <1>1
<1>3. stack' = [stack EXCEPT ![Main] = <<load>>]
  BY DEF Ask
<1>4. stack' \in [Thread -> Seq(LoadCall)] /\ stack'[Main] = <<load>>
      /\ \A w \in Workers : stack'[w] = stack[w]
  <2> HIDE DEF load
  <2> QED
    BY <1>2, <1>3, StacksAreTyped
<1>5. CallFits(load, cache', thread')
  <2>1. async /\ r \notin Unsafe => r \in LoadedInThreads
    BY DEF LoadedInThreads
  <2>2. Needs[r] \in Seq([on : Resource, async : BOOLEAN, try : BOOLEAN])
    BY ResourcesAssumption
  <2>3. Len(<<>>) <= Len(Needs[r]) /\ DOMAIN <<>> = {}
    BY <2>2
  <2> HIDE DEF load
  <2> QED
    BY <1>1, <2>1, <2>3 DEF CallFits
<1>6. MainFits' /\ MainGets'
  <2> HIDE DEF load
  <2> QED
    BY <1>2, <1>4, <1>5 DEF MainFits, MainGets
<1> QED
  BY <1>4, <1>6 DEF OnlyMainMoves

LEMMA MainWants ==
  ASSUME ResourcesInv, Want
  PROVE  ResourcesInv'
<1>1. ResourcesTypeOK /\ stack[Main] = <<>> /\ result[Main] = Nothing
      /\ UNCHANGED <<config, cache, made, thread, result>>
  BY DEF ResourcesInv, Want, Idle
<1>2. PICK r \in frame.left :
        /\ Ask(r, TRUE)
        /\ frame' = [left |-> IF frame.left = {r} THEN Wanted ELSE frame.left \ {r},
                     asked |-> {r}]
  BY DEF Want
<1>3. r \in Wanted /\ r \in Resource /\ frame' \in [left : SUBSET Wanted, asked : SUBSET Wanted]
  BY <1>1, <1>2, ResourcesAssumption DEF ResourcesTypeOK
<1>4. MainFits' /\ MainGets' /\ OnlyMainMoves
  BY <1>1, <1>2, <1>3, MainAsks DEF ResourcesTypeOK
<1> QED
  BY <1>1, <1>3, <1>4, QuietStep

LEMMA MainIsAnswered ==
  ASSUME ResourcesInv, Answered
  PROVE  ResourcesInv'
<1>1. ResourcesTypeOK /\ stack[Main] = <<>> /\ result[Main] # Nothing /\ Main \in Thread
      /\ UNCHANGED <<config, cache, made, thread>>
      /\ result' = [result EXCEPT ![Main] = Nothing]
      /\ frame' = [frame EXCEPT !.asked = {}]
  BY DEF ResourcesInv, Answered, Thread
<1>2. result' \in [Thread -> Result] /\ result'[Main] = Nothing
      /\ \A w \in Workers : result'[w] = result[w]
  BY <1>1, ResultsAreTyped DEF Result
<1>3. frame' \in [left : SUBSET Wanted, asked : SUBSET Wanted]
  BY <1>1 DEF ResourcesTypeOK
<1>4. Instead \subseteq Resource
  <2>1. result[Main] \in Result /\ frame.asked \subseteq Wanted
    BY <1>1 DEF ResourcesTypeOK
  <2>2. result[Main].is \in {"ok", "still", "failed"}
    BY <1>1, <2>1 DEF Result, Nothing, StillLoading, FailedLoading, Loaded
  <2> QED
    BY <2>1, <2>2, ResourcesAssumption DEF Instead
<1>5. MainFits' /\ MainGets' /\ OnlyMainMoves
  <2>1. CASE UNCHANGED stack
    BY <2>1, <1>1, <1>2 DEF OnlyMainMoves, MainFits, MainGets, ResourcesTypeOK
  <2>2. CASE \E r \in Instead : Ask(r, FALSE)
    BY <2>2, <1>1, <1>2, <1>4, MainAsks
  <2> QED
    BY <2>1, <2>2 DEF Answered
<1> QED
  BY <1>1, <1>3, <1>5, QuietStep

(* The step of a launched thread: it has loaded a file, or failed to.      *)
LEMMA WorkerSteps ==
  ASSUME ResourcesInv, NEW w \in Workers, Step(w)
  PROVE  ResourcesInv'
<1>1. ResourcesTypeOK /\ MainFits /\ MainGets /\ WorkersFit
      /\ w \in Thread /\ w # Main /\ w # NoThread /\ Main \in Thread
  BY ResourcesAssumption DEF ResourcesInv, Thread, Main, NoThread
<1>2. result[w] = Nothing /\ WorkerFits(w, stack[w], cache, thread)
  BY <1>1 DEF WorkersFit
<1>3. stack[w] # <<>>
  BY <1>2 DEF Step, Join, Cached, Launch, Make, LoadNeeded, Construct, Resume, Active
<1>4. PICK r \in LoadedInThreads :
        stack[w] = <<Fetch(r)>> /\ thread[r] = w /\ cache[r] = Absent
  BY <1>2, <1>3 DEF WorkerFits
<1>5. Top(w) = Fetch(r) /\ Len(stack[w]) = 1 /\ Tail(stack[w]) = <<>>
  BY <1>4 DEF Top
<1>6. /\ Fetch(r).res = r /\ Fetch(r).at = "make" /\ Fetch(r).got = <<>>
      /\ r \in Resource /\ Needs[r] = <<>> /\ Frees[r] = {}
  BY LoadedAreResources, ResourcesAssumption DEF Fetch, Call
<1>7. Construct(w)
  BY <1>2, <1>5, <1>6 DEF Step, Join, Cached, Launch, Make, LoadNeeded, Resume, HasAllItNeeds
<1>8. /\ UNCHANGED <<config, thread, frame>>
      /\ \E v : Returns(w, v)
      /\ cache' \in [Resource -> Nat \cup {Absent}] /\ made' \in [Resource -> Nat]
      /\ \A q \in Resource : q # r => cache'[q] = cache[q]
  <2>1. CASE r \in broken
    <3>1. /\ cache' = [cache EXCEPT ![r] = Failed] /\ made' = made
          /\ Returns(w, FailedLoading) /\ UNCHANGED <<config, thread, frame>>
      BY <2>1, <1>5, <1>6, <1>7 DEF Construct, Fails
    <3> QED
      BY <3>1, <1>1, <1>6 DEF ResourcesTypeOK, Failed
  <2>2. CASE r \notin broken
    <3>1. /\ made' = [made EXCEPT ![r] = @ + 1]
          /\ cache' = [Released(w) EXCEPT ![r] = made'[r]]
          /\ Returns(w, Loaded(made'[r])) /\ UNCHANGED <<config, thread, frame>>
      BY <2>2, <1>5, <1>6, <1>7 DEF Construct
    <3>2. Released(w) = cache
      BY <1>1, <1>5, <1>6 DEF Released, ResourcesTypeOK
    <3> QED
      BY <3>1, <3>2, <1>1, <1>6 DEF ResourcesTypeOK
  <2> QED
    BY <2>1, <2>2
<1>9. /\ stack' = [stack EXCEPT ![w] = <<>>]
      /\ result' = [result EXCEPT ![w] = Nothing]
  BY <1>1, <1>5, <1>8 DEF Returns
<1>10. stack' \in [Thread -> Seq(LoadCall)] /\ stack'[Main] = stack[Main]
       /\ \A v \in Workers : stack'[v] = IF v = w THEN <<>> ELSE stack[v]
  <2>1. <<>> \in Seq(LoadCall)
    OBVIOUS
  <2>2. stack \in [Thread -> Seq(LoadCall)] /\ Workers \subseteq Thread
    BY <1>1 DEF ResourcesTypeOK, Thread
  <2> QED
    BY <2>1, <2>2, <1>1, <1>9
<1>11. result' = result
  BY <1>1, <1>2, <1>9 DEF ResourcesTypeOK
<1>12. \A i \in DOMAIN stack[Main] : CallFits(stack[Main][i], cache', thread')
  <2> SUFFICES ASSUME NEW i \in DOMAIN stack[Main]
               PROVE  CallFits(stack[Main][i], cache', thread')
    OBVIOUS
  <2> DEFINE load == stack[Main][i]
  <2>1. load \in LoadCall /\ load.res \in Resource /\ CallFits(load, cache, thread)
    BY <1>1, CallIsTyped DEF MainFits
  <2>2. ASSUME NEW k \in DOMAIN load.got, load.got[k] # Failed
        PROVE  cache'[Needs[load.res][k].on] = load.got[k]
    BY <2>1, <2>2, <1>1, <1>4, <1>8, HeldIsInCache DEF Absent
  <2>3. load.at = "make" => cache'[load.res] = Absent
    <3>1. load.at = "make" => load.res # r
      BY <2>1, <1>1, <1>4 DEF CallFits
    <3> QED
      BY <2>1, <3>1, <1>8 DEF CallFits
  <2> QED
    BY <2>1, <2>2, <2>3, <1>8 DEF CallFits
<1>13. MainFits'
  BY <1>1, <1>10, <1>12 DEF MainFits
<1>14. MainGets'
  <2> SUFFICES ASSUME stack[Main] # <<>>, result[Main] # Nothing
               PROVE  /\ Waits(Top(Main))
                      /\ result[Main].is = "ok" => cache'[NeedOf(Top(Main))] = result[Main].object
    BY <1>10, <1>11 DEF MainGets, Top
  <2>1. Waits(Top(Main)) /\ (result[Main].is = "ok" => cache[NeedOf(Top(Main))] = result[Main].object)
    BY <1>1 DEF MainGets
  <2>2. NeedOf(Top(Main)) \in Resource
    BY <1>1, <2>1, TopIsTyped, NeedFacts DEF Waits
  <2>3. result[Main].is = "ok" => result[Main].object \in Nat
    BY <1>1 DEF ResourcesTypeOK, Result, Nothing, StillLoading, FailedLoading, Loaded
  <2> QED
    BY <2>1, <2>2, <2>3, <1>4, <1>8 DEF Absent
<1>15. WorkersFit'
  <2> SUFFICES ASSUME NEW v \in Workers
               PROVE  result[v] = Nothing /\ WorkerFits(v, stack'[v], cache', thread')
    BY <1>11 DEF WorkersFit
  <2>1. result[v] = Nothing /\ WorkerFits(v, stack[v], cache, thread)
    BY <1>1 DEF WorkersFit
  <2>2. CASE v = w
    BY <2>1, <2>2, <1>10 DEF WorkerFits
  <2>3. CASE v # w
    BY <2>1, <2>3, <1>4, <1>8, <1>10, LoadedAreResources DEF WorkerFits
  <2> QED
    BY <2>2, <2>3
<1>16. ResourcesTypeOK'
  BY <1>1, <1>8, <1>10, <1>11 DEF ResourcesTypeOK, config
<1> QED
  BY <1>8, <1>13, <1>14, <1>15, <1>16 DEF ResourcesInv, config

LEMMA ResourcesStepInv == ResourcesInv /\ [ResourcesNext]_resourceVars => ResourcesInv'
<1> SUFFICES ASSUME ResourcesInv, [ResourcesNext]_resourceVars PROVE ResourcesInv'
  OBVIOUS
<1>1. CASE Step(Main)
  BY <1>1, MainJoins, MainFindsCached, MainLaunches, MainMakes, MainLoadsNeeded,
     MainConstructs, MainResumes DEF Step
<1>2. CASE Want
  BY <1>2, MainWants
<1>3. CASE Answered
  BY <1>3, MainIsAnswered
<1>4. CASE \E w \in Workers : Step(w)
  BY <1>4, WorkerSteps
<1>5. CASE UNCHANGED resourceVars
  BY <1>5 DEF resourceVars, config, ResourcesInv, ResourcesTypeOK, MainFits, MainGets,
     WorkersFit, Top
<1> QED
  BY <1>1, <1>2, <1>3, <1>4, <1>5 DEF ResourcesNext, MainStep

(* A thread that waits for a resource, or goes on from it, holds what is   *)
(* still there.                                                            *)
LEMMA ResourcesInvHolds == ResourcesInv => HeldIsAlive
<1> SUFFICES ASSUME ResourcesInv, NEW t \in Thread, NEW i \in DOMAIN stack[t],
                    NEW k \in DOMAIN stack[t][i].got, stack[t][i].got[k] # Failed
             PROVE  cache[Needs[stack[t][i].res][k].on] = stack[t][i].got[k]
  BY DEF HeldIsAlive
<1>1. CASE t = Main
  BY <1>1 DEF ResourcesInv, MainFits, CallFits
<1>2. CASE t \in Workers
  <2>1. PICK r \in LoadedInThreads : stack[t] = <<Fetch(r)>>
    <3>1. stack[t] # <<>>
      OBVIOUS
    <3> QED
      BY <3>1, <1>2 DEF ResourcesInv, WorkersFit, WorkerFits
  <2>2. stack[t][i] = Fetch(r)
    BY <2>1
  <2> QED
    BY <2>2 DEF Fetch, Call
<1> QED
  BY <1>1, <1>2 DEF Thread

(* The state has its types, for any resources and any number of threads.   *)
THEOREM ResourcesAreTyped == ResourcesSpec => []ResourcesTypeOK
<1>1. ResourcesInv => ResourcesTypeOK
  BY DEF ResourcesInv
<1> QED
  BY <1>1, ResourcesInitInv, ResourcesStepInv, PTL DEF ResourcesSpec

(* HeldIsAlive: whatever the threads do and constructors release, what a    *)
(* constructor has loaded is there until it is done with it.                *)
THEOREM HeldIsAlwaysAlive == ResourcesSpec => []HeldIsAlive
  BY ResourcesInitInv, ResourcesStepInv, ResourcesInvHolds, PTL DEF ResourcesSpec

(* Only what is not in the cache is ever made.                             *)
LEMMA MadeWasAbsent ==
  ASSUME ResourcesInv, ResourcesNext, NEW r \in Resource
  PROVE  cache'[r] = cache[r] \/ cache'[r] = Absent \/ cache[r] = Absent
<1>1. ResourcesTypeOK /\ Main \in Thread
  BY DEF ResourcesInv, Thread
<1>2. ASSUME NEW t \in Thread, NEW q \in Resource, Top(t).res = q, cache[q] = Absent,
             Fails(t) \/ Construct(t)
      PROVE  cache'[r] = cache[r] \/ cache'[r] = Absent \/ cache[r] = Absent
  BY <1>1, <1>2 DEF Construct, Fails, Released, ResourcesTypeOK
<1>3. ASSUME stack[Main] # <<>>, Top(Main).at = "make"
      PROVE  Top(Main).res \in Resource /\ cache[Top(Main).res] = Absent
  BY <1>1, <1>3, TopIsTyped, CallIsTyped DEF ResourcesInv, MainFits, CallFits
<1>4. CASE Construct(Main)
  BY <1>1, <1>2, <1>3, <1>4 DEF Construct, Active
<1>5. CASE Resume(Main)
  <2>1. CASE Fails(Main)
    BY <2>1, <1>1, <1>2, <1>3, <1>5 DEF Resume, ResourcesInv, MainGets, Waits
  <2>2. CASE UNCHANGED cache
    BY <2>2
  <2> QED
    BY <2>1, <2>2, <1>5 DEF Resume
<1>6. ASSUME NEW w \in Workers, Step(w), cache' # cache
      PROVE  cache'[r] = cache[r] \/ cache'[r] = Absent \/ cache[r] = Absent
  <2>1. result[w] = Nothing /\ WorkerFits(w, stack[w], cache, thread) /\ w \in Thread
    BY DEF ResourcesInv, WorkersFit, Thread
  <2>2. Construct(w)
    BY <1>6, <2>1 DEF Step, Join, Cached, Launch, Make, LoadNeeded, Resume
  <2>3. stack[w] # <<>>
    BY <2>2 DEF Construct, Active
  <2>4. PICK q \in LoadedInThreads : stack[w] = <<Fetch(q)>> /\ cache[q] = Absent
    BY <2>1, <2>3 DEF WorkerFits
  <2>5. Top(w).res = q /\ q \in Resource
    BY <2>4, LoadedAreResources DEF Top, Fetch, Call
  <2> QED
    BY <1>2, <2>1, <2>2, <2>4, <2>5
<1>7. CASE ~Construct(Main) /\ ~Resume(Main) /\ MainStep
  BY <1>7 DEF MainStep, Step, Join, Cached, Launch, Make, LoadNeeded, Want, Answered
<1> QED
  BY <1>4, <1>5, <1>6, <1>7 DEF ResourcesNext, MainStep, Step

(* NothingIsMadeTwice: threads that load what others load too, and         *)
(* constructors that begin again, replace no object that is in use.        *)
THEOREM NothingIsEverMadeTwice == ResourcesSpec => NothingIsMadeTwice
<1>1. ResourcesInv /\ [ResourcesNext]_resourceVars =>
        [\A r \in Resource : cache[r] > Failed => cache'[r] \in {cache[r], Absent}]_resourceVars
  BY MadeWasAbsent DEF Absent, Failed
<1> QED
  BY <1>1, ResourcesInitInv, ResourcesStepInv, PTL DEF ResourcesSpec, NothingIsMadeTwice

=============================================================================
