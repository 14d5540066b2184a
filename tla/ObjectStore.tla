---------------------------- MODULE ObjectStore ----------------------------
(***************************************************************************)
(* What an allocator promises: an object is given an address that no       *)
(* object in use has and keeps it until it is freed, and the allocator     *)
(* knows how many it has given out.                                        *)
(***************************************************************************)
EXTENDS Integers

CONSTANT Address   (* the addresses an object can have                     *)

VARIABLES
  live,            (* the addresses in use                                 *)
  size             (* how many objects have been allocated and not freed   *)

vars == <<live, size>>

Init ==
  /\ live = {}
  /\ size = 0

Allocate ==
  /\ \E p \in Address \ live : live' = live \cup {p}
  /\ size' = size + 1

Free ==
  /\ \E p \in live : live' = live \ {p}
  /\ size' = size - 1

Next == Allocate \/ Free

Spec == Init /\ [][Next]_vars

=============================================================================
