---------------------------- MODULE EventBroker ----------------------------
(***************************************************************************)
(* The event broker of the engine (include/Engine/Core/EventBroker.h and   *)
(* src/Engine/Core/EventBroker.cpp): two queues of published events, the   *)
(* relays registered per processing context, and the deferral of           *)
(* Subscribe and Unsubscribe while Process delivers events.                *)
(*                                                                         *)
(* An event is the number of its publication; published[id] is its type.   *)
(* The event IDs the broker hands to relays are left out: they are only    *)
(* read by the search in unsubscribeImmediate.                             *)
(***************************************************************************)
EXTENDS Integers, Sequences

CONSTANTS
  Context,    (* the context types events are processed in                 *)
  Relay,      (* the EventRelay objects                                    *)
  EventType,  (* the event types                                           *)
  ContextOf,  (* the context type a relay was instantiated with            *)
  TypeOf,     (* the event type a relay was instantiated with              *)
  MaxEvents   (* bound on the number of publications                       *)

ASSUME BrokerAssumption ==
  /\ ContextOf \in [Relay -> Context]
  /\ TypeOf \in [Relay -> EventType]
  /\ MaxEvents \in Nat

VARIABLES
  eventQueueRead,       (* *m_EventQueueRead                               *)
  eventQueueWrite,      (* *m_EventQueueWrite                              *)
  contextRelays,        (* m_ContextRelays                                 *)
  isProcessing,         (* m_IsProcessing                                  *)
  relaysToSubscribe,    (* m_RelaysToSubscribe                             *)
  relaysToUnsubscribe,  (* m_RelaysToUnsubscribe                           *)
  broker,               (* relays whose m_Broker is not null               *)
  call,                 (* the call of Process that is delivering          *)
  published,            (* history: the types of all events published      *)
  lastReceived,         (* history: the last event each relay received     *)
  since                 (* history: events published when it was registered*)

vars == <<eventQueueRead, eventQueueWrite, contextRelays, isProcessing,
          relaysToSubscribe, relaysToUnsubscribe, broker, call, published,
          lastReceived, since>>

queues == <<eventQueueRead, eventQueueWrite>>
registry == <<contextRelays, broker, since>>
deferred == <<relaysToSubscribe, relaysToUnsubscribe>>
history == <<published, lastReceived>>

Event == 1 .. MaxEvents

(* No call of Process is delivering. *)
NoCall == [index |-> 0]

(* The range-for of Process: the context, how many events of the read      *)
(* queue were begun, and the relays the current one is still to be given.  *)
Delivery == [context : Context, index : Nat, pending : SUBSET Relay]

TypeOK ==
  /\ eventQueueRead \in Seq(Event)
  /\ eventQueueWrite \in Seq(Event)
  /\ contextRelays \in [Context -> SUBSET Relay]
  /\ isProcessing \in BOOLEAN
  /\ relaysToSubscribe \subseteq Relay
  /\ relaysToUnsubscribe \subseteq Relay
  /\ broker \subseteq Relay
  /\ call \in Delivery \cup {NoCall}
  /\ published \in Seq(EventType)
  /\ Len(published) <= MaxEvents
  /\ lastReceived \in [Relay -> 0 .. MaxEvents]
  /\ since \in [Relay -> 0 .. MaxEvents]

-----------------------------------------------------------------------------

(* subscribeImmediate, for every relay of S. *)
Register(S) ==
  /\ broker' = broker \cup S
  /\ contextRelays' = [c \in Context |->
                         contextRelays[c] \cup {r \in S : ContextOf[r] = c}]
  /\ since' = [r \in Relay |-> IF r \in S THEN Len(published) ELSE since[r]]

(* A relay that no call of Subscribe was given yet: every relay of the     *)
(* program is subscribed once, by the constructor of its owner.            *)
Fresh(r) ==
  /\ r \notin contextRelays[ContextOf[r]]
  /\ r \notin relaysToSubscribe

(* The relays equal_range finds for an event of type t in context c. *)
Receivers(c, t) == {r \in contextRelays[c] : TypeOf[r] = t}

CurrentEvent == eventQueueRead[call.index]

(* A handler of the event being delivered has been called. *)
InHandler ==
  /\ call # NoCall
  /\ call.index > 0
  /\ Receivers(call.context, published[CurrentEvent])
       \ (call.pending \cup relaysToUnsubscribe) # {}

-----------------------------------------------------------------------------

Publish(t) ==
  /\ Len(published) < MaxEvents
  /\ published' = Append(published, t)
  /\ eventQueueWrite' = Append(eventQueueWrite, Len(published) + 1)
  /\ UNCHANGED <<eventQueueRead, registry, isProcessing, deferred, call,
                 lastReceived>>

Subscribe(r) ==
  /\ Fresh(r)
  /\ IF isProcessing
       THEN /\ relaysToSubscribe' = relaysToSubscribe \cup {r}
            /\ UNCHANGED registry
       ELSE /\ Register({r})
            /\ UNCHANGED relaysToSubscribe
  /\ UNCHANGED <<queues, isProcessing, relaysToUnsubscribe, call, history>>

(* unsubscribeImmediate erases from eventRelays, a copy of the context's   *)
(* relays, so the entry of the relay stays in m_ContextRelays.             *)
UnsubscribeImmediate(S) == UNCHANGED contextRelays

(* Called by the owner of a relay or by the relay's destructor. *)
Unsubscribe(r) ==
  /\ r \in broker
  /\ broker' = broker \ {r}
  /\ IF isProcessing
       THEN /\ relaysToUnsubscribe' = relaysToUnsubscribe \cup {r}
            /\ UNCHANGED contextRelays
       ELSE /\ UnsubscribeImmediate({r})
            /\ UNCHANGED relaysToUnsubscribe
  /\ UNCHANGED <<queues, isProcessing, relaysToSubscribe, call, since, history>>

(* Mutant: Process sets m_IsProcessing only after it looked the context up *)
(* and forgets to on the way into its loop.                                *)
BeginProcessUnflagged(c) ==
  /\ call = NoCall
  /\ isProcessing' = (contextRelays[c] = {})
  /\ call' = IF contextRelays[c] = {}
               THEN NoCall
               ELSE [context |-> c, index |-> 0, pending |-> {}]
  /\ UNCHANGED <<queues, registry, deferred, history>>

(* Process up to its loop. A context nothing was ever registered for is    *)
(* left at once, with m_IsProcessing still set.                            *)
BeginProcess(c) ==
  /\ call = NoCall
  /\ isProcessing' = TRUE
  /\ call' = IF contextRelays[c] = {}
               THEN NoCall
               ELSE [context |-> c, index |-> 0, pending |-> {}]
  /\ UNCHANGED <<queues, registry, deferred, history>>

(* The outer loop of Process takes the next event of the read queue. *)
NextEvent ==
  /\ call # NoCall
  /\ call.pending = {}
  /\ call.index < Len(eventQueueRead)
  /\ call' = [context |-> call.context,
              index   |-> call.index + 1,
              pending |-> Receivers(call.context,
                             published[eventQueueRead[call.index + 1]])]
  /\ UNCHANGED <<queues, registry, isProcessing, deferred, history>>

(* The inner loop: the relays of an event come in no particular order, and *)
(* one that waits to be unsubscribed is passed over.                       *)
Receive(r) ==
  /\ call # NoCall
  /\ r \in call.pending
  /\ call' = [call EXCEPT !.pending = @ \ {r}]
  /\ lastReceived' = IF r \in relaysToUnsubscribe
                       THEN lastReceived
                       ELSE [lastReceived EXCEPT ![r] = CurrentEvent]
  /\ UNCHANGED <<queues, registry, isProcessing, deferred, published>>

(* Mutant: the pending subscriptions are dropped instead of carried out. *)
EndProcessSubscriptionsDropped ==
  /\ call # NoCall
  /\ call.pending = {}
  /\ call.index = Len(eventQueueRead)
  /\ isProcessing' = FALSE
  /\ call' = NoCall
  /\ relaysToSubscribe' = {}
  /\ relaysToUnsubscribe' = {}
  /\ UNCHANGED <<queues, registry, history>>

(* After the loop: pending subscriptions first, then unsubscriptions. *)
EndProcess ==
  /\ call # NoCall
  /\ call.pending = {}
  /\ call.index = Len(eventQueueRead)
  /\ isProcessing' = FALSE
  /\ call' = NoCall
  /\ Register(relaysToSubscribe)
  /\ relaysToSubscribe' = {}
  /\ relaysToUnsubscribe' = {}
  /\ UNCHANGED <<queues, history>>

Swap ==
  /\ call = NoCall
  /\ eventQueueRead' = eventQueueWrite
  /\ eventQueueWrite' = eventQueueRead
  /\ UNCHANGED <<registry, isProcessing, deferred, call, history>>

(* Mutant: the processed events stay in the queue. *)
ClearForgotten ==
  /\ call = NoCall
  /\ UNCHANGED vars

Clear ==
  /\ call = NoCall
  /\ eventQueueWrite' = <<>>
  /\ UNCHANGED <<eventQueueRead, registry, isProcessing, deferred, call, history>>

-----------------------------------------------------------------------------

Init ==
  /\ eventQueueRead = <<>>
  /\ eventQueueWrite = <<>>
  /\ contextRelays = [c \in Context |-> {}]
  /\ isProcessing = FALSE
  /\ relaysToSubscribe = {}
  /\ relaysToUnsubscribe = {}
  /\ broker = {}
  /\ call = NoCall
  /\ published = <<>>
  /\ lastReceived = [r \in Relay |-> 0]
  /\ since = [r \in Relay |-> 0]

(* The calls the broker's owner and the handlers make. Between the events  *)
(* of a call of Process only a handler runs.                               *)
ClientStep ==
  /\ call = NoCall \/ InHandler
  /\ \/ \E t \in EventType : Publish(t)
     \/ \E r \in Relay : Subscribe(r) \/ Unsubscribe(r)

ProcessStep ==
  \/ \E c \in Context : BeginProcess(c)
  \/ NextEvent
  \/ \E r \in Relay : Receive(r)
  \/ EndProcess

Next == ClientStep \/ ProcessStep \/ Swap \/ Clear

Spec == Init /\ [][Next]_vars

-----------------------------------------------------------------------------

(* While Process is delivering, m_IsProcessing is set, the relays the      *)
(* current event goes to are registered for the call's context and the     *)
(* event's type, and the loop is inside the read queue: the iterators of   *)
(* Process (EventBroker.cpp:42-56) stay valid whatever the handlers call.  *)
DeliveryIsConsistent ==
  call # NoCall =>
    /\ isProcessing
    /\ call.index <= Len(eventQueueRead)
    /\ call.pending # {} =>
         /\ call.index > 0
         /\ call.pending \subseteq Receivers(call.context, published[CurrentEvent])

(* No handler can change the relays or the queue Process iterates over:    *)
(* what it subscribes or unsubscribes waits until the loop is over.        *)
IterationIsUndisturbed ==
  [][call # NoCall /\ call' # NoCall =>
       UNCHANGED <<contextRelays, eventQueueRead>>]_vars

(* "Process pending unsubscriptions" (EventBroker.cpp:66): once a relay     *)
(* waits no longer to be unsubscribed, it is registered no longer. The     *)
(* code does not keep this: see UnsubscribeImmediate.                      *)
PendingUnsubscriptionsAreProcessed ==
  [][\A r \in relaysToUnsubscribe \ relaysToUnsubscribe' :
       r \notin contextRelays'[ContextOf[r]]]_vars

=============================================================================
