------------------------------ MODULE EventBus ------------------------------
(***************************************************************************)
(* What the broker promises the systems that talk through it: every        *)
(* listener sees the events of its type in the order they were published,  *)
(* each of them once, with none left out from the first one it sees on.    *)
(***************************************************************************)
EXTENDS Integers, Sequences

CONSTANTS
  Listener,   (* whoever listens                                           *)
  EventType,  (* the event types                                           *)
  Wants       (* the event type of each listener                           *)

VARIABLES
  published,  (* the types of all events published, in order               *)
  seen        (* the last event each listener saw, 0 if none               *)

vars == <<published, seen>>

Init ==
  /\ published = <<>>
  /\ seen = [l \in Listener |-> 0]

Publish(t) ==
  /\ published' = Append(published, t)
  /\ UNCHANGED seen

(* The events listener l has still to see after the last one it saw. *)
Unseen(l) == {i \in seen[l] + 1 .. Len(published) : published[i] = Wants[l]}

(* A listener begins with any event, then takes one after the other. *)
Deliver(l) ==
  /\ \E i \in Unseen(l) :
       /\ seen[l] = 0 \/ \A j \in Unseen(l) : i <= j
       /\ seen' = [seen EXCEPT ![l] = i]
  /\ UNCHANGED published

Next ==
  \/ \E t \in EventType : Publish(t)
  \/ \E l \in Listener : Deliver(l)

Spec == Init /\ [][Next]_vars

=============================================================================
