------------------------------- MODULE Weapons -------------------------------
(***************************************************************************)
(* The weapons one player carries (src/Game/Systems/Weapon): the assault   *)
(* rifle and the sidearm, which refill their magazine at once when the     *)
(* reload is over, and the defender's shotgun, which loads one shell after *)
(* the other. Input commands are handled between the ticks, in any order   *)
(* and number; a tick updates every weapon component, and UpdateWeapon     *)
(* only the weapon in hand.                                                *)
(*                                                                         *)
(* Times are whole ticks. Whom a shot hits, view punch, animations, sounds *)
(* and effects are left out. The death of the player deletes the           *)
(* components with him; one life is modelled.                              *)
(***************************************************************************)
EXTENDS Integers, FiniteSets, Functions

CONSTANTS
  Loadouts,      (* the sets of weapons a class of players carries         *)
  Kind,          (* "assault", "defender" or "sidearm" of every weapon     *)
  Slot,
  MagazineSize,
  MaxAmmo,       (* nothing of it is used by a sidearm                     *)
  FirePeriod,    (* 60 / RPM                                               *)
  ReloadTime,
  EquipTime,     (* of assault rifles and sidearms                         *)
  Automatic,     (* of sidearms                                            *)
  Gift,          (* rounds of an ammo pickup, or of a team mate's shot     *)
  MaxGiven,      (* bound on the rounds a weapon is given                  *)
  MaxShields,    (* bound on the shields a player deploys                  *)
  IsClient,
  IsServer       (* a local game is both, Game.cpp:117                     *)

Weapon == UNION Loadouts

ASSUME WeaponsAssumption ==
  /\ \A w \in Weapon : /\ Kind[w] \in {"assault", "defender", "sidearm"}
                       /\ {MagazineSize[w], FirePeriod[w], ReloadTime[w]} \subseteq Nat \ {0}
                       /\ {MaxAmmo[w], EquipTime[w]} \subseteq Nat
                       /\ Kind[w] # "defender" => EquipTime[w] >= FirePeriod[w]
  /\ \A carried \in Loadouts : \A v, w \in carried : Slot[v] = Slot[w] => v = w
  /\ {Gift, MaxGiven, MaxShields} \subseteq Nat
  /\ {IsClient, IsServer} \subseteq BOOLEAN

(* A sidearm is not fired or drawn within one tick.                        *)
ASSUME SidearmAssumption ==
  \A w \in Weapon : Kind[w] = "sidearm" => FirePeriod[w] >= 2 /\ EquipTime[w] >= 2

VARIABLES
  gun,     (* the component of every weapon carried, see NewGun            *)
  shields, (* Shield entities below the player                             *)
  auto     (* the rifle's own Reload command is on its way                 *)

vars == <<gun, shields, auto>>

AtLeast(n, min) == IF n < min THEN min ELSE n
AtMost(n, max) == IF n > max THEN max ELSE n

(* mag, ammo, cooldown, timer, queued, reloading and trigger are           *)
(* MagazineAmmo, Ammo, FireCooldown, ReloadTimer, ReloadQueued,            *)
(* IsReloading and TriggerHeld; held says whether the weapon has an entry  *)
(* in m_ActiveWeapons. The rest is history: the rounds fired and given;    *)
(* the ticks since the last shot, since the reload or its last shell began *)
(* and since the magazine in hand is empty; whether the reload was asked   *)
(* for since the weapon was drawn; whether a shot or a reload ever came    *)
(* too early.                                                              *)
NewGun(w) ==
  [mag |-> MagazineSize[w], ammo |-> MaxAmmo[w], cooldown |-> 0, timer |-> 0,
   queued |-> FALSE, reloading |-> FALSE, trigger |-> FALSE, held |-> FALSE,
   fired |-> 0, given |-> 0, since |-> FirePeriod[w], worked |-> 0,
   dry |-> 0, asked |-> FALSE, early |-> FALSE, rushed |-> FALSE]

(* What a weapon's component may be. *)
Gun(w) ==
  [mag : 0 .. MagazineSize[w], ammo : Nat, cooldown : Nat, timer : Nat,
   queued : BOOLEAN, reloading : BOOLEAN, trigger : BOOLEAN, held : BOOLEAN,
   fired : Nat, given : Nat, since : Nat, worked : Nat,
   dry : Nat, asked : BOOLEAN, early : BOOLEAN, rushed : BOOLEAN]

TypeOK ==
  /\ DOMAIN gun \in Loadouts
  /\ gun = [w \in DOMAIN gun |-> gun[w]]
  /\ \A w \in DOMAIN gun : gun[w] \in Gun(w)
  /\ shields \in 0 .. MaxShields
  /\ auto \in BOOLEAN

(* The time a reload nobody stops takes to begin and to end. *)
Patience(w) == AtLeast(EquipTime[w], FirePeriod[w]) + ReloadTime[w] + 1

HasAmmo(w, g) == Kind[w] = "sidearm" \/ g.ammo > 0

-----------------------------------------------------------------------------
(* Reloading. *)

CanReload(w, g) ==
  ~g.queued /\ ~g.reloading /\ g.mag < MagazineSize[w] /\ HasAmmo(w, g)

Asked(w, g) == [g EXCEPT !.timer = ReloadTime[w], !.worked = 0, !.asked = TRUE]

QueueReload(w, g) == IF CanReload(w, g) THEN [Asked(w, g) EXCEPT !.queued = TRUE] ELSE g
StartShells(w, g) == IF CanReload(w, g) THEN [Asked(w, g) EXCEPT !.reloading = TRUE] ELSE g

OnReload(w, g) == IF Kind[w] = "defender" THEN StartShells(w, g) ELSE QueueReload(w, g)

(* Mutant: The magazine is empty only below zero. *)
EmptyBelowZero(g) == g.mag < 0

Empty(g) == g.mag <= 0

(* The magazine is found empty by the sidearm or the shotgun. *)
AutoReload(w, g) == IF Empty(g) THEN OnReload(w, g) ELSE g

StartQueued(g) ==
  IF g.queued /\ g.cooldown = 0
    THEN [g EXCEPT !.queued = FALSE, !.reloading = TRUE]
    ELSE g

CountDown(g) == [g EXCEPT !.timer = AtLeast(g.timer - 1, 0)]

(* Whether what a reload gives comes too early. *)
Judged(w, g) == [g EXCEPT !.rushed = @ \/ (g.asked /\ g.worked < ReloadTime[w])]

(* Mutant: The ammo pays for a whole magazine. *)
RefillWhole(w, g) ==
  IF ~g.reloading \/ g.timer > 0 THEN g
  ELSE LET r == [Judged(w, g) EXCEPT !.reloading = FALSE, !.asked = FALSE] IN
       IF Kind[w] = "sidearm"
         THEN [r EXCEPT !.mag = MagazineSize[w]]
         ELSE [r EXCEPT !.mag = AtMost(g.ammo + g.mag, MagazineSize[w]),
                        !.ammo = AtLeast(g.ammo - MagazineSize[w], 0)]

(* A reload of the rifle or the sidearm, whose ammo has no end, is over. *)
Refill(w, g) ==
  IF ~g.reloading \/ g.timer > 0 THEN g
  ELSE LET r == [Judged(w, g) EXCEPT !.reloading = FALSE, !.asked = FALSE] IN
       IF Kind[w] = "sidearm"
         THEN [r EXCEPT !.mag = MagazineSize[w]]
         ELSE [r EXCEPT !.mag = AtMost(g.ammo + g.mag, MagazineSize[w]),
                        !.ammo = AtLeast(g.ammo - AtLeast(MagazineSize[w] - g.mag, 0), 0)]

(* Mutant: The timer is not set for the next shell. *)
LoadShellTimerKept(w, g) ==
  IF ~g.reloading \/ g.timer > 0 THEN g
  ELSE IF g.mag < MagazineSize[w] /\ g.ammo > 0
    THEN [Judged(w, g) EXCEPT !.mag = @ + 1, !.ammo = @ - 1, !.worked = 0]
    ELSE [g EXCEPT !.reloading = FALSE, !.asked = FALSE]

(* The shotgun takes a shell, or is done. *)
LoadShell(w, g) ==
  IF ~g.reloading \/ g.timer > 0 THEN g
  ELSE IF g.mag < MagazineSize[w] /\ g.ammo > 0
    THEN [Judged(w, g) EXCEPT !.mag = @ + 1, !.ammo = @ - 1,
                              !.timer = ReloadTime[w], !.worked = 0]
    ELSE [g EXCEPT !.reloading = FALSE, !.asked = FALSE]

-----------------------------------------------------------------------------
(* Firing. *)

CanFire(w, g) ==
  /\ g.trigger
  /\ g.cooldown = 0
  /\ IF Kind[w] = "defender" THEN shields = 0 ELSE ~g.reloading

(* A shot, or the click of an empty magazine, which costs the cooldown too. *)
Shoot(w, g) ==
  LET r == [g EXCEPT !.cooldown = FirePeriod[w]]
  IN IF Empty(g) THEN r
     ELSE [r EXCEPT !.mag = @ - 1,
                    !.fired = IF Kind[w] = "sidearm" THEN @ ELSE @ + 1,
                    !.early = @ \/ g.since < FirePeriod[w],
                    !.since = 0, !.dry = 0]

FireBullet(w, g) == IF CanFire(w, g) THEN Shoot(w, g) ELSE g

(* The shotgun stops its reload, even for a dry shot. *)
FireShell(w, g) ==
  IF CanFire(w, g)
    THEN [Shoot(w, g) EXCEPT !.reloading = FALSE, !.asked = FALSE, !.dry = 0]
    ELSE g

FireIfAble(w, g) == IF Kind[w] = "defender" THEN FireShell(w, g) ELSE FireBullet(w, g)

OnPrimaryFire(w, g) == FireIfAble(w, [g EXCEPT !.trigger = TRUE])
OnCeasePrimaryFire(g) == [g EXCEPT !.trigger = FALSE]

-----------------------------------------------------------------------------
(* Changing weapons. *)

(* Mutant: A weapon that is drawn may fire at once. *)
OnEquipReady(w, g) == [g EXCEPT !.held = TRUE, !.cooldown = 0]

OnEquip(w, g) ==
  [g EXCEPT !.held = TRUE,
            !.cooldown = IF Kind[w] = "defender" THEN @ ELSE EquipTime[w]]

SelectWeapon(w, g) == IF g.held THEN g ELSE OnEquip(w, g)

(* A queued reload stays queued. *)
Holster(g) ==
  IF ~g.held THEN g
  ELSE [g EXCEPT !.held = FALSE, !.trigger = FALSE, !.reloading = FALSE,
                 !.timer = 0, !.asked = FALSE, !.dry = 0]

-----------------------------------------------------------------------------
(* The tick. *)

Cool(w, g) ==
  [g EXCEPT !.cooldown = AtLeast(@ - 1, 0),
            !.since = AtMost(@ + 1, FirePeriod[w]),
            !.worked = AtMost(@ + 1, ReloadTime[w])]

UpdateRifle(w, g) ==
  LET r == StartQueued(g)
  IN FireBullet(w, Refill(w, IF r.reloading THEN CountDown(r) ELSE r))

UpdateSidearm(w, g) ==
  LET r == StartQueued(AutoReload(w, g))
      s == Refill(w, IF r.reloading THEN CountDown(r) ELSE r)
  IN IF Automatic[w] THEN FireBullet(w, s) ELSE s

UpdateShotgun(w, g) == FireShell(w, LoadShell(w, AutoReload(w, CountDown(g))))

UpdateWeapon(w, g) ==
  CASE Kind[w] = "assault" -> UpdateRifle(w, g)
    [] Kind[w] = "sidearm" -> UpdateSidearm(w, g)
    [] Kind[w] = "defender" -> UpdateShotgun(w, g)

(* The ticks an empty magazine was in hand with ammo to fill it. *)
Waited(w, g) ==
  [g EXCEPT !.dry = IF /\ g.mag = 0 /\ HasAmmo(w, g)
                       /\ ~(Kind[w] = "defender" /\ g.trigger)
                    THEN AtMost(@ + 1, Patience(w) + 1) ELSE 0]

UpdateComponent(w, g) ==
  IF g.held THEN Waited(w, UpdateWeapon(w, Cool(w, g))) ELSE Cool(w, g)

(* The events a tick published are processed before the next one. *)
Tick ==
  /\ ~auto
  /\ gun' = [w \in DOMAIN gun |-> UpdateComponent(w, gun[w])]
  /\ auto' = (IsClient /\ \E w \in DOMAIN gun :
                Kind[w] = "assault" /\ gun[w].held /\ Empty(gun[w]))
  /\ UNCHANGED shields

-----------------------------------------------------------------------------
(* Input commands, handled for every weapon the player has. *)

Select(slot) ==
  /\ gun' = [w \in DOMAIN gun |->
               IF Slot[w] = slot THEN SelectWeapon(w, gun[w]) ELSE Holster(gun[w])]
  /\ UNCHANGED <<shields, auto>>

PrimaryFire(pressed) ==
  /\ gun' = [w \in DOMAIN gun |->
               IF ~gun[w].held THEN gun[w]
               ELSE IF pressed THEN OnPrimaryFire(w, gun[w])
               ELSE OnCeasePrimaryFire(gun[w])]
  /\ UNCHANGED <<shields, auto>>

Reload ==
  /\ gun' = [w \in DOMAIN gun |-> IF gun[w].held THEN OnReload(w, gun[w]) ELSE gun[w]]
  /\ UNCHANGED <<shields, auto>>

(* The command UpdateWeapon of a rifle published, which whatever the       *)
(* player has in hand by then takes for its own.                           *)
AutoReloadCommand ==
  /\ auto
  /\ gun' = [w \in DOMAIN gun |-> IF gun[w].held THEN OnReload(w, gun[w]) ELSE gun[w]]
  /\ auto' = FALSE
  /\ UNCHANGED shields

(* The shield is only served while the shotgun is in hand: who changes     *)
(* weapons behind it keeps it.                                             *)
SpecialAbility(pressed) ==
  /\ \E w \in DOMAIN gun : Kind[w] = "defender" /\ gun[w].held
  /\ shields' = IF ~pressed THEN 0 ELSE IF IsServer THEN shields + 1 ELSE shields
  /\ shields' <= MaxShields
  /\ UNCHANGED <<gun, auto>>

(* AmmoPickupSystem::SetPlayerAmmo *)
PickUpAmmo(w) ==
  LET gain == AtMost(gun[w].ammo + Gift, MaxAmmo[w]) - gun[w].ammo IN
  /\ Kind[w] # "sidearm"
  /\ gain > 0
  /\ gun[w].given + gain <= MaxGiven
  /\ gun' = [gun EXCEPT ![w].ammo = @ + gain, ![w].given = @ + gain]
  /\ UNCHANGED <<shields, auto>>

(* BoostSystem::giveAmmo: a team mate shot at the player with his sidearm. *)
GiveAmmo(w) ==
  LET g == gun[w]
      loaded == AtMost(g.mag + Gift, MagazineSize[w])
      rest == IF loaded > g.mag THEN g.mag + Gift - MagazineSize[w] ELSE Gift
      kept == IF rest > 0 THEN AtMost(g.ammo + rest, MaxAmmo[w]) ELSE g.ammo
      gain == loaded - g.mag + kept - g.ammo
  IN /\ Kind[w] # "sidearm"
     /\ gain > 0
     /\ g.given + gain <= MaxGiven
     /\ gun' = [gun EXCEPT ![w].mag = loaded, ![w].ammo = kept, ![w].given = @ + gain]
     /\ UNCHANGED <<shields, auto>>

Init ==
  /\ \E carried \in Loadouts : gun = [w \in carried |-> NewGun(w)]
  /\ shields = 0
  /\ auto = FALSE

Next ==
  \/ Tick
  \/ AutoReloadCommand
  \/ Reload
  \/ \E slot \in Range(Slot) : Select(slot)
  \/ \E pressed \in BOOLEAN : PrimaryFire(pressed) \/ SpecialAbility(pressed)
  \/ \E w \in DOMAIN gun : PickUpAmmo(w) \/ GiveAmmo(w)

Spec == Init /\ [][Next]_vars

-----------------------------------------------------------------------------
(* Properties. *)

(* No round is lost or made: what was fired, is loaded and is carried add  *)
(* up to what the player started with and was given, whatever reloads were *)
(* begun, stopped, cancelled or paid for twice on the way; and the         *)
(* magazine never holds more than its size.                                *)
AmmoIsAccounted ==
  \A w \in DOMAIN gun :
    /\ gun[w].mag \in 0 .. MagazineSize[w]
    /\ Kind[w] # "sidearm" =>
         gun[w].fired + gun[w].mag + gun[w].ammo = MagazineSize[w] + MaxAmmo[w] + gun[w].given

(* No sequence of presses and changes of weapon makes a weapon fire faster *)
(* than its rate of fire.                                                  *)
ShotsKeepTheirInterval == \A w \in DOMAIN gun : ~gun[w].early

(* A reload that was asked for with the weapon in hand takes its time:     *)
(* ReloadTime for a magazine, and for every single shell.                  *)
ReloadsTakeTheirTime == \A w \in DOMAIN gun : ~gun[w].rushed

(* A magazine that is empty is refilled in the time a reload takes while   *)
(* the weapon stays in hand and there is ammo, without a command of the    *)
(* player and whatever he commands. Of the shotgun this is true only while *)
(* the trigger is released: every dry shot stops the reload it started     *)
(* again, and shots come as often as shells.                               *)
EmptyMagazinesAreRefilled == \A w \in DOMAIN gun : gun[w].dry <= Patience(w)

(* "Cancel any reload": a weapon that is drawn reloads only when it is     *)
(* asked to. A reload that was queued when it was put away is carried out  *)
(* after all, at once, since its timer was cleared.                        *)
HolsteringCancelsReloads ==
  [][Tick => \A w \in DOMAIN gun : gun'[w].mag > gun[w].mag => gun[w].asked]_vars

=============================================================================
