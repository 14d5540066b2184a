------------------------------- MODULE Pickups -------------------------------
(***************************************************************************)
(* Health and ammo pickups on the server (PickupSpawnSystem.cpp,           *)
(* AmmoPickupSystem.cpp): a player who touches one takes it, or is listed  *)
(* until he needs it, and it is made again some time later. Touching and   *)
(* leaving are told by TriggerSystem.cpp, which sees a player only in the  *)
(* region of the octree the pickup is in, and only what it saw before; a   *)
(* player does not fit into a pickup, so nobody ever enters one.           *)
(*                                                                         *)
(* A step of Tick is one frame of SystemPipeline, with the systems in the  *)
(* order they have in Game.cpp: health, pickups, the octree, deaths,       *)
(* triggers. What is published in a frame is handled in the next.          *)
(*                                                                         *)
(* One pickup lies on the map. Players and pickups that were deleted are   *)
(* all the same, Gone, to those who still know of them.                    *)
(***************************************************************************)
EXTENDS Integers, Sequences, FiniteSets, Functions

CONSTANTS
  PickupPlayer,  (* the players of the map                                 *)
  MaxLevel,      (* MaxHealth, or MaxAmmo of the player's weapon            *)
  RespawnTimer,  (* in frames                                              *)
  MaxListed,     (* bound on the length of m_PickupAtMaximum               *)
  MaxResets      (* bound on the resets of the map                         *)

Gone == 0

ASSUME PickupsAssumption ==
  /\ Gone \notin PickupPlayer /\ IsFiniteSet(PickupPlayer)
  /\ MaxLevel \in Nat \ {0} /\ RespawnTimer \in Nat
  /\ MaxListed \in Nat \ {0} /\ MaxResets \in Nat

VARIABLES
  kind,       (* "health" or "ammo": which of the two systems              *)
  pickups,    (* the pickups there are, numbered from 1                    *)
  waiting,    (* m_ETriggerTouchVector: what is left of each timer         *)
  atMaximum,  (* m_PickupAtMaximum: pairs of a player and a pickup         *)
  level,      (* health, or ammo, of every player there is                 *)
  place,      (* "far", "near" (in the region), "touching": to the pickup  *)
  touching,   (* m_EntitiesTouchingTrigger of each pickup                  *)
  events,     (* touches and leaves published in the last frame            *)
  gains,      (* those who took a pickup in it                             *)
  dying,      (* those whose death was published in it                     *)
  resets,
  surplus,    (* history: pickups awaited when the map was last reset      *)
  wanted      (* history: frames a player in need has touched each pickup   *)

pickupVars == <<kind, pickups, waiting, atMaximum, level, place, touching, events,
                gains, dying, resets, surplus, wanted>>

Present == DOMAIN level

(* The systems' state while a frame runs.                                  *)
Now == [pickups |-> pickups, waiting |-> waiting, atMaximum |-> atMaximum,
        touching |-> touching, gains |-> <<>>]

TriggerEvent(is, player, pickup) == [is |-> is, player |-> player, pickup |-> pickup]

PickupsInit ==
  /\ kind \in {"health", "ammo"}
  /\ pickups = {1} /\ waiting = <<>> /\ atMaximum = <<>>
  /\ level = <<>> /\ place = <<>>
  /\ touching = [t \in {1} |-> {}]
  /\ events = <<>> /\ gains = <<>> /\ dying = {}
  /\ resets = 0 /\ surplus = 0
  /\ wanted = [t \in {1} |-> [p \in PickupPlayer |-> 0]]

-----------------------------------------------------------------------------
(* The pickup system. lev is what the players have in this frame.          *)

Forget(list, t) == [i \in DOMAIN list |-> IF list[i].pickup = t THEN [list[i] EXCEPT !.pickup = Gone] ELSE list[i]]

(* Mutant: a pickup that was taken is taken once more. *)
TakePickupUnchecked(s, p, t) ==
  [s EXCEPT !.gains = Append(@, p), !.waiting = Append(@, RespawnTimer),
            !.pickups = @ \ {t}, !.atMaximum = Forget(@, t),
            !.touching = [u \in DOMAIN @ \ {t} |-> @[u]]]

TakePickup(s, p, t) ==
  IF t \notin s.pickups THEN s
  ELSE [s EXCEPT !.gains = Append(@, p), !.waiting = Append(@, RespawnTimer),
                 !.pickups = @ \ {t}, !.atMaximum = Forget(@, t),
                 !.touching = [u \in DOMAIN @ \ {t} |-> @[u]]]

(* The health of an entity that is gone is made on demand: it is full.     *)
HasMaximum(lev, p) == p \notin DOMAIN lev \/ lev[p] >= MaxLevel

OnTriggerTouch(s, lev, e) ==
  IF e.pickup \notin s.pickups \/ (kind = "ammo" /\ e.player = Gone) THEN s
  ELSE IF HasMaximum(lev, e.player)
       THEN [s EXCEPT !.atMaximum = Append(@, [player |-> e.player, pickup |-> e.pickup])]
       ELSE TakePickup(s, e.player, e.pickup)

Without(list, i) == SubSeq(list, 1, i - 1) \o SubSeq(list, i + 1, Len(list))

First(I) == CHOOSE i \in I : \A j \in I : i <= j

(* Mutant: whoever leaves, the first who is listed for the pickup goes. *)
OnTriggerLeaveOfAny(s, e) ==
  LET listed == {i \in DOMAIN s.atMaximum : s.atMaximum[i].pickup = e.pickup}
  IN IF e.pickup \notin s.pickups \/ listed = {} THEN s
     ELSE [s EXCEPT !.atMaximum = Without(@, First(listed))]

OnTriggerLeave(s, e) ==
  LET listed == {i \in DOMAIN s.atMaximum :
                   s.atMaximum[i].player = e.player /\ s.atMaximum[i].pickup = e.pickup}
  IN IF e.pickup \notin s.pickups \/ listed = {} THEN s
     ELSE [s EXCEPT !.atMaximum = Without(@, First(listed))]

HandleEvent(s, lev, e) ==
  IF e.is = "TriggerTouch" THEN OnTriggerTouch(s, lev, e) ELSE OnTriggerLeave(s, e)

Handle(s, lev, list) ==
  LET handled[i \in 0 .. Len(list)] ==
        IF i = 0 THEN s ELSE HandleEvent(handled[i - 1], lev, list[i])
  IN handled[Len(list)]

(* A number no pickup had in this frame or the last one.                   *)
NewPickup(s) ==
  LET known == s.pickups \cup pickups
  IN CHOOSE t \in 1..(Cardinality(known) + 1) : t \notin known

SpawnPickup(s) ==
  LET t == NewPickup(s)
  IN [s EXCEPT !.pickups = @ \cup {t},
               !.touching = [u \in DOMAIN @ \cup {t} |-> IF u = t THEN {} ELSE @[u]]]

(* Timers below zero are over.                                             *)
UpdateTimer(s, timer) ==
  IF timer < 0 THEN SpawnPickup(s) ELSE [s EXCEPT !.waiting = Append(@, timer)]

UpdateTimers(s) ==
  LET after[i \in 0 .. Len(s.waiting)] ==
        IF i = 0 THEN [s EXCEPT !.waiting = <<>>] ELSE UpdateTimer(after[i - 1], s.waiting[i] - 1)
  IN after[Len(s.waiting)]

(* Mutant: only the first of the list is ever looked at. *)
UpdateListedFirst(s, lev) ==
  IF s.atMaximum = <<>> THEN s
  ELSE LET x == Head(s.atMaximum) IN
       IF x.player = Gone THEN [s EXCEPT !.atMaximum = Tail(@)]
       ELSE IF HasMaximum(lev, x.player) THEN s
       ELSE [TakePickup(s, x.player, x.pickup) EXCEPT !.atMaximum = Tail(@)]

(* The first of the list who is gone or needs it, one in a frame.          *)
UpdateListed(s, lev) ==
  LET chosen == {i \in DOMAIN s.atMaximum :
                   s.atMaximum[i].player = Gone \/ ~HasMaximum(lev, s.atMaximum[i].player)}
      x == s.atMaximum[First(chosen)]
  IN IF chosen = {} THEN s
     ELSE [(IF x.player = Gone THEN s ELSE TakePickup(s, x.player, x.pickup))
             EXCEPT !.atMaximum = Without(@, First(chosen))]

-----------------------------------------------------------------------------
(* The trigger system: what happens between pickup t and player p, who may *)
(* have been deleted in this frame, after the octree was filled.           *)

Name(p, gone) == IF p \in gone THEN Gone ELSE p

Touched(s, now, p, t) ==
  now[p] = "touching" \/ (now[p] = "far" /\ p \in s.touching[t])

ToTell(s, now) ==
  {x \in (DOMAIN now) \X s.pickups :
     \/ now[x[1]] = "touching" /\ x[1] \notin s.touching[x[2]]
     \/ now[x[1]] = "near" /\ x[1] \in s.touching[x[2]]}

EventOf(now, gone, x) ==
  TriggerEvent(IF now[x[1]] = "touching" THEN "TriggerTouch" ELSE "TriggerLeave",
               Name(x[1], gone), x[2])

(* In one of the orders the pools and the octree may have them: which one  *)
(* is left open, and two players that change places see them the other way *)
(* round.                                                                  *)
InOrder(S) == CHOOSE order \in Bijection(1 .. Cardinality(S), S) : TRUE

UpdateTriggers(s, now, gone) ==
  LET order == InOrder(ToTell(s, now))
  IN [i \in DOMAIN order |-> EventOf(now, gone, order[i])]

-----------------------------------------------------------------------------
AtMost(n, max) == IF n > max THEN max ELSE n

(* gains are handled before what is lost in the frame; who is killed has   *)
(* nothing left if health is what pickups give.                            *)
Level(p, lost, killed) ==
  IF p \in killed /\ kind = "health" THEN 0
  ELSE LET had == IF \E i \in DOMAIN gains : gains[i] = p THEN MaxLevel ELSE level[p]
       IN IF p \in lost /\ had > 1 THEN had - 1 ELSE had

Renamed(list, gone) ==
  [i \in DOMAIN list |-> IF list[i].player \in gone THEN [list[i] EXCEPT !.player = Gone] ELSE list[i]]

InNeed(lev, now, p) == lev[p] < MaxLevel /\ now[p] = "touching"

Leave(s, lev, now, killed) ==
  LET stays == Present \ dying IN
  /\ Len(s.atMaximum) <= MaxListed
  /\ pickups' = s.pickups /\ waiting' = s.waiting
  /\ atMaximum' = Renamed(s.atMaximum, dying)
  /\ gains' = [i \in DOMAIN s.gains |-> Name(s.gains[i], dying)]
  /\ level' = [p \in stays |-> lev[p]]
  /\ place' = [p \in stays |-> now[p]]
  /\ touching' = [t \in s.pickups |-> {p \in stays : Touched(s, now, p, t)}]
  /\ events' = UpdateTriggers(s, now, dying)
  /\ dying' = killed \ dying
  /\ wanted' = [t \in s.pickups |-> [p \in PickupPlayer |->
       IF t \in pickups /\ p \in stays /\ InNeed(lev, now, p)
       THEN AtMost(wanted[t][p] + 1, MaxListed + 1) ELSE 0]]
  /\ UNCHANGED <<kind, resets, surplus>>

Tick ==
  \E lost \in SUBSET Present : \E killed \in SUBSET (Present \ lost) :
  \E lev \in {[p \in Present |-> Level(p, lost, killed)]} :
  \E s \in {UpdateListed(UpdateTimers(Handle(Now, lev, events)), lev)} :
  \E now \in [Present -> {"far", "near", "touching"}] :
    Leave(s, lev, now, killed)

(* A player's spawn is not near a pickup.                                  *)
SpawnPlayer(p) ==
  /\ p \notin Present
  /\ level' = [q \in Present \cup {p} |-> IF q = p THEN MaxLevel ELSE level[q]]
  /\ place' = [q \in Present \cup {p} |-> IF q = p THEN "far" ELSE place[q]]
  /\ UNCHANGED <<kind, pickups, waiting, atMaximum, touching, events, gains, dying, resets, surplus, wanted>>

(* resetMap: the world goes and a new map comes, the systems' lists stay.  *)
Reset ==
  /\ resets < MaxResets /\ resets' = resets + 1
  /\ pickups' = {1} /\ touching' = [t \in {1} |-> {}]
  /\ level' = <<>> /\ place' = <<>> /\ dying' = {}
  /\ atMaximum' = [i \in DOMAIN atMaximum |-> [player |-> Gone, pickup |-> Gone]]
  /\ events' = [i \in DOMAIN events |-> TriggerEvent(events[i].is, Gone, Gone)]
  /\ gains' = [i \in DOMAIN gains |-> Gone]
  /\ surplus' = Len(waiting)
  /\ wanted' = [t \in {1} |-> [p \in PickupPlayer |-> 0]]
  /\ UNCHANGED <<kind, waiting>>

PickupsNext == Tick \/ (\E p \in PickupPlayer : SpawnPlayer(p)) \/ Reset

PickupsSpec == PickupsInit /\ [][PickupsNext]_pickupVars

-----------------------------------------------------------------------------
(* Properties. *)

(* The pickup is there, or it is awaited, and never twice, whoever touches *)
(* it at once, dies or leaves - but that what was awaited when the map was *)
(* last reset comes on top of what the new map has.                        *)
PickupsAreConserved == Cardinality(pickups) + Len(waiting) = 1 + surplus

(* Who is seen to leave a pickup is taken off the list before he comes to  *)
(* need it, so that nobody takes one from afar. (Who is out of its region  *)
(* of the octree when he leaves is not seen, and does: "far".)             *)
NobodyTakesFromAfar ==
  [][\A p \in Present : place[p] = "near" =>
        UNCHANGED gains \/ \A i \in DOMAIN gains' : gains'[i] # p]_pickupVars

(* A pickup a player in need touches is taken in bounded time, whether he  *)
(* came in need or came to need it there. A frame is lost for everyone     *)
(* listed before him, though, whose pickup, or who himself, is long gone;  *)
(* and if he leaves or dies, the time of the next one starts anew: there   *)
(* is no bound for a pickup that always someone in need touches.           *)
TheNeedyAreServed ==
  \A t \in pickups : \A p \in PickupPlayer : wanted[t][p] <= MaxListed

=============================================================================
