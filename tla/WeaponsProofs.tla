---------------------------- MODULE WeaponsProofs ----------------------------
(***************************************************************************)
(* Proofs about the weapons, for any classes, sizes of magazines, amounts  *)
(* of ammo and times: that no round is lost or made, that no weapon fires  *)
(* faster than it may, and that every reload takes its time.               *)
(***************************************************************************)
EXTENDS Weapons, TLAPS

(* The inductive invariant of one weapon. Rounds add up; the time since    *)
(* the last shot and the cooldown make up a period; the time since a       *)
(* reload was asked for and the time it still takes make up a reload.      *)
Accounted(w, g) ==
  Kind[w] # "sidearm" =>
    g.fired + g.mag + g.ammo = MagazineSize[w] + MaxAmmo[w] + g.given

Paced(w, g) == g.since + g.cooldown >= FirePeriod[w] /\ ~g.early

Timed(w, g) == (g.asked => g.timer + g.worked >= ReloadTime[w]) /\ ~g.rushed

Sound(w, g) == g \in Gun(w) /\ Accounted(w, g) /\ Paced(w, g) /\ Timed(w, g)

(* A sidearm in hand whose magazine is empty and that is not asked to      *)
(* reload is cooling down: UpdateWeapon, which asks for a reload itself,   *)
(* does so in a tick too early for the reload to begin in. It would lose a *)
(* tick otherwise, and the timer would be a tick ahead.                    *)
Prompt(w, g) ==
  Kind[w] = "sidearm" /\ g.held /\ g.mag = 0 /\ ~g.queued /\ ~g.reloading
    => g.cooldown >= 2

Fit(w, g) == Sound(w, g) /\ Prompt(w, g)

Inv == TypeOK /\ \A w \in DOMAIN gun : Fit(w, gun[w])

(* A tick has passed for the reload that the timer has not counted yet.    *)
Rested(w, g) ==
  g.asked => g.timer + g.worked >= ReloadTime[w] + 1 \/ g.worked >= ReloadTime[w]

(* There is a round in the magazine, or a reload to come.                  *)
Primed(w, g) == g.mag > 0 \/ g.queued \/ g.reloading

LEMMA Constants ==
  ASSUME NEW w \in Weapon
  PROVE  /\ Kind[w] \in {"assault", "defender", "sidearm"}
         /\ MagazineSize[w] \in Nat /\ MagazineSize[w] >= 1
         /\ FirePeriod[w] \in Nat /\ FirePeriod[w] >= 1
         /\ ReloadTime[w] \in Nat /\ ReloadTime[w] >= 1
         /\ MaxAmmo[w] \in Nat /\ EquipTime[w] \in Nat
         /\ Kind[w] # "defender" => EquipTime[w] >= FirePeriod[w]
         /\ Kind[w] = "sidearm" => FirePeriod[w] >= 2 /\ EquipTime[w] >= 2
<1>1. /\ Kind[w] \in {"assault", "defender", "sidearm"}
      /\ {MagazineSize[w], FirePeriod[w], ReloadTime[w]} \subseteq Nat \ {0}
      /\ {MaxAmmo[w], EquipTime[w]} \subseteq Nat
      /\ Kind[w] # "defender" => EquipTime[w] >= FirePeriod[w]
  BY WeaponsAssumption
<1> QED
  BY <1>1, SidearmAssumption

LEMMA Bounds == Gift \in Nat /\ MaxShields \in Nat
<1>1. {Gift, MaxGiven, MaxShields} \subseteq Nat
  BY WeaponsAssumption
<1> QED
  BY <1>1

-----------------------------------------------------------------------------
(* Reloading. *)

LEMMA ReloadIsAsked ==
  ASSUME NEW w \in Weapon, NEW g, Sound(w, g)
  PROVE  /\ Sound(w, OnReload(w, g))
         /\ Prompt(w, g) => Prompt(w, OnReload(w, g))
<1> DEFINE q == [g EXCEPT !.timer = ReloadTime[w], !.worked = 0, !.asked = TRUE,
                          !.queued = TRUE]
           s == [g EXCEPT !.timer = ReloadTime[w], !.worked = 0, !.asked = TRUE,
                          !.reloading = TRUE]
<1>1. OnReload(w, g) \in {g, q, s}
  <2>1. [Asked(w, g) EXCEPT !.queued = TRUE] = q
    BY DEF Asked, Sound, Gun
  <2>2. [Asked(w, g) EXCEPT !.reloading = TRUE] = s
    BY DEF Asked, Sound, Gun
  <2> QED
    BY <2>1, <2>2 DEF OnReload, QueueReload, StartShells
<1>2. Sound(w, q) /\ Prompt(w, q)
  <2>1. q \in Gun(w)
    BY Constants DEF Sound, Gun
  <2>2. /\ q.timer = ReloadTime[w] /\ q.worked = 0 /\ (q.queued \/ q.reloading)
        /\ q.fired = g.fired /\ q.mag = g.mag /\ q.ammo = g.ammo /\ q.given = g.given
        /\ q.since = g.since /\ q.cooldown = g.cooldown
        /\ q.early = g.early /\ q.rushed = g.rushed
    BY DEF Sound, Gun
  <2> HIDE DEF q
  <2>3. Accounted(w, q) /\ Paced(w, q)
    BY <2>2 DEF Sound, Accounted, Paced
  <2>4. Timed(w, q)
    BY <2>2, Constants DEF Sound, Timed
  <2>5. Prompt(w, q)
    BY <2>2 DEF Prompt
  <2> QED
    BY <2>1, <2>3, <2>4, <2>5 DEF Sound
<1>3. Sound(w, s) /\ Prompt(w, s)
  <2>1. s \in Gun(w)
    BY Constants DEF Sound, Gun
  <2>2. /\ s.timer = ReloadTime[w] /\ s.worked = 0 /\ (s.queued \/ s.reloading)
        /\ s.fired = g.fired /\ s.mag = g.mag /\ s.ammo = g.ammo /\ s.given = g.given
        /\ s.since = g.since /\ s.cooldown = g.cooldown
        /\ s.early = g.early /\ s.rushed = g.rushed
    BY DEF Sound, Gun
  <2> HIDE DEF s
  <2>3. Accounted(w, s) /\ Paced(w, s)
    BY <2>2 DEF Sound, Accounted, Paced
  <2>4. Timed(w, s)
    BY <2>2, Constants DEF Sound, Timed
  <2>5. Prompt(w, s)
    BY <2>2 DEF Prompt
  <2> QED
    BY <2>1, <2>3, <2>4, <2>5 DEF Sound
<1> HIDE DEF q, s
<1> QED
  BY <1>1, <1>2, <1>3

LEMMA QueuedIsStarted ==
  ASSUME NEW w \in Weapon, NEW g, Sound(w, g)
  PROVE  /\ Sound(w, StartQueued(g))
         /\ Rested(w, g) => Rested(w, StartQueued(g))
         /\ Primed(w, g) => Primed(w, StartQueued(g))
  BY Constants
     DEF Sound, Gun, Accounted, Paced, Timed, StartQueued, Rested, Primed

LEMMA TimerCountsDown ==
  ASSUME NEW w \in Weapon, NEW g, Sound(w, g), Rested(w, g)
  PROVE  /\ Sound(w, CountDown(g))
         /\ Primed(w, g) => Primed(w, CountDown(g))
<1> DEFINE t == AtLeast(g.timer - 1, 0)
<1>1. t \in Nat /\ t >= g.timer - 1
  BY DEF AtLeast, Sound, Gun
<1>2. CountDown(g) = [g EXCEPT !.timer = t]
  BY DEF CountDown
<1> HIDE DEF t
<1>3. g.asked => t + g.worked >= ReloadTime[w]
  BY <1>1, Constants DEF Rested, Sound, Gun
<1> QED
  BY <1>1, <1>2, <1>3, Constants DEF Sound, Gun, Accounted, Paced, Timed, Primed

LEMMA MagazineIsRefilled ==
  ASSUME NEW w \in Weapon, NEW g, Sound(w, g)
  PROVE  /\ Sound(w, Refill(w, g))
         /\ Kind[w] = "sidearm" /\ Primed(w, g) => Primed(w, Refill(w, g))
<1>1. CASE ~g.reloading \/ g.timer > 0
  BY <1>1 DEF Refill
<1>2. CASE g.reloading /\ ~(g.timer > 0)
  <2> DEFINE r == [g EXCEPT !.reloading = FALSE, !.asked = FALSE]
  <2>1. [Judged(w, g) EXCEPT !.reloading = FALSE, !.asked = FALSE] = r
    <3>1. ~(g.asked /\ g.worked < ReloadTime[w])
      BY <1>2, Constants DEF Sound, Gun, Timed
    <3> QED
      BY <3>1 DEF Judged, Sound, Gun
  <2>2. CASE Kind[w] = "sidearm"
    <3>1. Refill(w, g) = [r EXCEPT !.mag = MagazineSize[w]]
      BY <1>2, <2>1, <2>2 DEF Refill
    <3>2. Sound(w, r)
      BY Constants DEF Sound, Gun, Accounted, Paced, Timed
    <3> HIDE DEF r
    <3> QED
      BY <2>2, <3>1, <3>2, Constants DEF Sound, Gun, Accounted, Paced, Timed, Primed
  <2>3. CASE Kind[w] # "sidearm"
    <3> DEFINE mag == AtMost(g.ammo + g.mag, MagazineSize[w])
               ammo == AtLeast(g.ammo - AtLeast(MagazineSize[w] - g.mag, 0), 0)
    <3>1. mag \in 0 .. MagazineSize[w] /\ ammo \in Nat /\ mag + ammo = g.mag + g.ammo
      BY Constants DEF AtMost, AtLeast, Sound, Gun
    <3>2. Refill(w, g) = [r EXCEPT !.mag = mag, !.ammo = ammo]
      BY <1>2, <2>1, <2>3 DEF Refill, Sound, Gun
    <3>3. Sound(w, r) /\ r.mag = g.mag /\ r.ammo = g.ammo
      BY Constants DEF Sound, Gun, Accounted, Paced, Timed
    <3> HIDE DEF mag, ammo, r
    <3> DEFINE s == [r EXCEPT !.mag = mag, !.ammo = ammo]
    <3>4. s \in Gun(w)
      BY <3>1, <3>3 DEF Sound, Gun
    <3>5. /\ s.mag = mag /\ s.ammo = ammo /\ s.fired = r.fired /\ s.given = r.given
          /\ s.since = r.since /\ s.cooldown = r.cooldown /\ s.early = r.early
          /\ s.timer = r.timer /\ s.worked = r.worked /\ s.asked = r.asked
          /\ s.rushed = r.rushed
      BY <3>3 DEF Sound, Gun
    <3> HIDE DEF s
    <3>6. Accounted(w, s)
      BY <3>1, <3>3, <3>5, Constants DEF Sound, Gun, Accounted
    <3>7. Paced(w, s) /\ Timed(w, s)
      BY <3>3, <3>5 DEF Sound, Paced, Timed
    <3> QED
      BY <2>3, <3>2, <3>4, <3>6, <3>7 DEF Sound, s
  <2> QED
    BY <2>2, <2>3
<1> QED
  BY <1>1, <1>2 DEF Sound, Gun

LEMMA ShellIsLoaded ==
  ASSUME NEW w \in Weapon, NEW g, Sound(w, g), Kind[w] = "defender"
  PROVE  Sound(w, LoadShell(w, g))
<1> DEFINE done == [g EXCEPT !.reloading = FALSE, !.asked = FALSE]
           more == [g EXCEPT !.mag = g.mag + 1, !.ammo = g.ammo - 1,
                             !.timer = ReloadTime[w], !.worked = 0]
<1>1. CASE ~g.reloading \/ g.timer > 0
  BY <1>1 DEF LoadShell
<1>2. CASE g.reloading /\ ~(g.timer > 0) /\ ~(g.mag < MagazineSize[w] /\ g.ammo > 0)
  <2>1. LoadShell(w, g) = done
    BY <1>2 DEF LoadShell
  <2>2. Sound(w, done)
    BY Constants DEF Sound, Gun, Accounted, Paced, Timed
  <2> QED
    BY <2>1, <2>2
<1>3. CASE g.reloading /\ ~(g.timer > 0) /\ g.mag < MagazineSize[w] /\ g.ammo > 0
  <2>1. LoadShell(w, g) = more
    <3>1. ~(g.asked /\ g.worked < ReloadTime[w])
      BY <1>3, Constants DEF Sound, Gun, Timed
    <3>2. Judged(w, g) = g
      BY <3>1 DEF Judged, Sound, Gun
    <3> QED
      BY <1>3, <3>2 DEF LoadShell
  <2>2. more \in Gun(w)
    <3>1. g.mag + 1 \in 0 .. MagazineSize[w] /\ g.ammo - 1 \in Nat /\ ReloadTime[w] \in Nat
      BY <1>3, Constants DEF Sound, Gun
    <3> QED
      BY <3>1 DEF Sound, Gun
  <2>3. /\ more.mag = g.mag + 1 /\ more.ammo = g.ammo - 1
        /\ more.timer = ReloadTime[w] /\ more.worked = 0
        /\ more.fired = g.fired /\ more.given = g.given
        /\ more.since = g.since /\ more.cooldown = g.cooldown
        /\ more.early = g.early /\ more.rushed = g.rushed
    BY DEF Sound, Gun
  <2> HIDE DEF more
  <2>4. Accounted(w, more) /\ Paced(w, more)
    BY <1>3, <2>3, Constants DEF Sound, Gun, Accounted, Paced
  <2>5. Timed(w, more)
    BY <2>3, Constants DEF Sound, Timed
  <2> QED
    BY <2>1, <2>2, <2>4, <2>5 DEF Sound
<1> QED
  BY <1>1, <1>2, <1>3

-----------------------------------------------------------------------------
(* Firing. *)

LEMMA ShotIsFired ==
  ASSUME NEW w \in Weapon, NEW g, Sound(w, g), g.cooldown = 0
  PROVE  /\ Sound(w, Shoot(w, g))
         /\ Prompt(w, Shoot(w, g))
<1> DEFINE r == [g EXCEPT !.cooldown = FirePeriod[w]]
           n == IF Kind[w] = "sidearm" THEN g.fired ELSE g.fired + 1
           s == [g EXCEPT !.cooldown = FirePeriod[w], !.mag = g.mag - 1, !.fired = n,
                          !.since = 0, !.dry = 0]
<1>1. CASE Empty(g)
  <2>1. Shoot(w, g) = r
    BY <1>1 DEF Shoot
  <2> QED
    BY <2>1, Constants DEF Sound, Gun, Accounted, Paced, Timed, Prompt
<1>2. CASE ~Empty(g)
  <2>1. Shoot(w, g) = s
    <3>1. ~(g.since < FirePeriod[w]) /\ g.early = FALSE
      BY Constants DEF Sound, Gun, Paced
    <3> QED
      BY <1>2, <3>1 DEF Shoot, Sound, Gun
  <2>2. g.mag >= 1 /\ n \in Nat /\ (Kind[w] # "sidearm" => n = g.fired + 1)
    BY <1>2 DEF Empty, Sound, Gun
  <2> HIDE DEF n
  <2>3. s \in Gun(w)
    <3>1. g.mag - 1 \in 0 .. MagazineSize[w] /\ FirePeriod[w] \in Nat
      BY <2>2, Constants DEF Sound, Gun
    <3> QED
      BY <2>2, <3>1 DEF Sound, Gun
  <2>4. /\ s.mag = g.mag - 1 /\ s.fired = n /\ s.since = 0
        /\ s.cooldown = FirePeriod[w]
        /\ s.ammo = g.ammo /\ s.given = g.given
        /\ s.timer = g.timer /\ s.worked = g.worked /\ s.asked = g.asked
        /\ s.early = g.early /\ s.rushed = g.rushed
    BY DEF Sound, Gun
  <2> HIDE DEF s
  <2>5. Accounted(w, s)
    BY <2>2, <2>4, Constants DEF Sound, Gun, Accounted
  <2>8. Paced(w, s)
    BY <2>4, Constants DEF Sound, Paced
  <2>6. Timed(w, s)
    BY <2>4 DEF Sound, Timed
  <2>7. Prompt(w, s)
    BY <2>4, Constants DEF Prompt
  <2> QED
    BY <2>1, <2>3, <2>5, <2>6, <2>7, <2>8 DEF Sound
<1> QED
  BY <1>1, <1>2

LEMMA WeaponIsFired ==
  ASSUME NEW w \in Weapon, NEW g, Sound(w, g)
  PROVE  /\ Kind[w] # "defender" => Sound(w, FireBullet(w, g))
         /\ Kind[w] = "defender" => Sound(w, FireShell(w, g))
         /\ Prompt(w, g) \/ Primed(w, g) => Prompt(w, FireBullet(w, g))
<1>1. CASE CanFire(w, g)
  <2>1. Sound(w, Shoot(w, g)) /\ Prompt(w, Shoot(w, g))
    BY <1>1, ShotIsFired DEF CanFire
  <2> DEFINE s == Shoot(w, g)
             r == [s EXCEPT !.reloading = FALSE, !.asked = FALSE, !.dry = 0]
  <2>2. FireBullet(w, g) = s /\ FireShell(w, g) = r
    BY <1>1 DEF FireBullet, FireShell
  <2> HIDE DEF s
  <2>3. Sound(w, s) => Sound(w, r)
    BY Constants DEF Sound, Gun, Accounted, Paced, Timed
  <2> QED
    BY <2>1, <2>2, <2>3 DEF s
<1>2. CASE ~CanFire(w, g)
  BY <1>2, Constants DEF FireBullet, FireShell, Prompt, Primed, Sound, Gun
<1> QED
  BY <1>1, <1>2

-----------------------------------------------------------------------------
(* The tick. *)

LEMMA WeaponCools ==
  ASSUME NEW w \in Weapon, NEW g, Fit(w, g)
  PROVE  /\ Sound(w, Cool(w, g))
         /\ Rested(w, Cool(w, g))
         /\ g.held => \/ Primed(w, Cool(w, g))
                      \/ Cool(w, g).cooldown >= 1
                      \/ Kind[w] # "sidearm"
         /\ Cool(w, g).held = g.held
<1> DEFINE cooldown == AtLeast(g.cooldown - 1, 0)
           since == AtMost(g.since + 1, FirePeriod[w])
           worked == AtMost(g.worked + 1, ReloadTime[w])
<1>1. /\ cooldown \in Nat /\ since \in Nat /\ worked \in Nat
      /\ since + cooldown >= FirePeriod[w]
      /\ cooldown >= g.cooldown - 1
      /\ worked = g.worked + 1 \/ worked = ReloadTime[w]
  BY Constants DEF AtLeast, AtMost, Fit, Sound, Gun, Paced
<1>2. Cool(w, g) = [g EXCEPT !.cooldown = cooldown, !.since = since, !.worked = worked]
  BY DEF Cool, Fit, Sound, Gun
<1> HIDE DEF cooldown, since, worked
<1>3. Sound(w, Cool(w, g)) /\ Rested(w, Cool(w, g))
  <2> DEFINE s == [g EXCEPT !.cooldown = cooldown, !.since = since, !.worked = worked]
  <2>1. s \in Gun(w)
    BY <1>1, Constants DEF Fit, Sound, Gun
  <2>2. /\ s.cooldown = cooldown /\ s.since = since /\ s.worked = worked
        /\ s.mag = g.mag /\ s.fired = g.fired /\ s.ammo = g.ammo /\ s.given = g.given
        /\ s.timer = g.timer /\ s.asked = g.asked
        /\ s.early = g.early /\ s.rushed = g.rushed
    BY DEF Fit, Sound, Gun
  <2> HIDE DEF s
  <2>3. Accounted(w, s) /\ Paced(w, s)
    BY <1>1, <2>2 DEF Fit, Sound, Accounted, Paced
  <2>4. Timed(w, s) /\ Rested(w, s)
    BY <1>1, <2>2, Constants DEF Fit, Sound, Gun, Timed, Rested
  <2> QED
    BY <1>2, <2>1, <2>3, <2>4 DEF Sound, s
<1> QED
  BY <1>1, <1>2, <1>3 DEF Fit, Sound, Gun, Prompt, Primed

LEMMA RifleIsUpdated ==
  ASSUME NEW w \in Weapon, NEW g, Sound(w, g), Rested(w, g), Kind[w] = "assault"
  PROVE  Sound(w, UpdateRifle(w, g))
<1> DEFINE r == StartQueued(g)
           s == IF r.reloading THEN CountDown(r) ELSE r
           t == Refill(w, s)
<1>1. Sound(w, r) /\ Rested(w, r)
  BY QueuedIsStarted
<1>2. Sound(w, s)
  BY <1>1, TimerCountsDown
<1>3. Sound(w, t)
  BY <1>2, MagazineIsRefilled
<1> QED
  BY <1>3, WeaponIsFired DEF UpdateRifle

LEMMA SidearmIsUpdated ==
  ASSUME NEW w \in Weapon, NEW g, Sound(w, g), Rested(w, g), Kind[w] = "sidearm",
         Primed(w, g) \/ g.cooldown >= 1
  PROVE  Fit(w, UpdateSidearm(w, g))
<1> DEFINE a == AutoReload(w, g)
           r == StartQueued(a)
           s == IF r.reloading THEN CountDown(r) ELSE r
           t == Refill(w, s)
<1>1. Sound(w, t) /\ Primed(w, t)
  <2>1. CASE Primed(w, g)
    <3>1. a = g
      BY <2>1, Constants
         DEF AutoReload, Empty, OnReload, QueueReload, CanReload, Primed, Sound, Gun
    <3>2. Sound(w, r) /\ Rested(w, r) /\ Primed(w, r)
      BY <2>1, <3>1, QueuedIsStarted
    <3>3. Sound(w, s) /\ Primed(w, s)
      BY <3>2, TimerCountsDown
    <3> QED
      BY <3>3, MagazineIsRefilled
  <2>2. CASE ~Primed(w, g)
    <3>1. /\ Sound(w, a) /\ a.queued /\ ~a.reloading /\ a.cooldown >= 1
      <4>1. Sound(w, a)
        BY ReloadIsAsked DEF AutoReload
      <4>2. a = [Asked(w, g) EXCEPT !.queued = TRUE]
        BY <2>2, Constants
           DEF AutoReload, Empty, OnReload, QueueReload, CanReload, HasAmmo, Primed, Sound, Gun
      <4> QED
        BY <4>1, <4>2, <2>2 DEF Asked, Primed, Sound, Gun
    <3>2. r = a
      BY <3>1 DEF StartQueued
    <3>3. s = a
      BY <3>1, <3>2
    <3>4. t = a
      BY <3>1, <3>3 DEF Refill
    <3> QED
      BY <3>1, <3>4 DEF Primed
  <2> QED
    BY <2>1, <2>2
<1> HIDE DEF t
<1>2. Prompt(w, t)
  BY <1>1 DEF Primed, Prompt, Sound, Gun
<1>3. Fit(w, FireBullet(w, t))
  BY <1>1, WeaponIsFired DEF Fit
<1> QED
  BY <1>1, <1>2, <1>3 DEF UpdateSidearm, Fit, t

LEMMA ShotgunIsUpdated ==
  ASSUME NEW w \in Weapon, NEW g, Sound(w, g), Rested(w, g), Kind[w] = "defender"
  PROVE  Sound(w, UpdateShotgun(w, g))
<1>1. Sound(w, CountDown(g))
  BY TimerCountsDown
<1>2. Sound(w, AutoReload(w, CountDown(g)))
  BY <1>1, ReloadIsAsked DEF AutoReload
<1>3. Sound(w, LoadShell(w, AutoReload(w, CountDown(g))))
  BY <1>2, ShellIsLoaded
<1> QED
  BY <1>3, WeaponIsFired DEF UpdateShotgun

LEMMA ComponentIsUpdated ==
  ASSUME NEW w \in Weapon, NEW g, Fit(w, g)
  PROVE  Fit(w, UpdateComponent(w, g))
<1> DEFINE c == Cool(w, g)
           u == UpdateWeapon(w, c)
<1>1. /\ Sound(w, c) /\ Rested(w, c)
      /\ g.held => Primed(w, c) \/ c.cooldown >= 1 \/ Kind[w] # "sidearm"
      /\ c.held = g.held
  BY WeaponCools
<1>2. CASE ~g.held
  BY <1>1, <1>2 DEF UpdateComponent, Fit, Prompt
<1>3. CASE g.held
  <2>1. Fit(w, u)
    <3>1. CASE Kind[w] = "assault"
      BY <3>1, <1>1, RifleIsUpdated DEF UpdateWeapon, Fit, Prompt
    <3>2. CASE Kind[w] = "sidearm"
      BY <3>2, <1>1, <1>3, SidearmIsUpdated DEF UpdateWeapon
    <3>3. CASE Kind[w] = "defender"
      BY <3>3, <1>1, ShotgunIsUpdated DEF UpdateWeapon, Fit, Prompt
    <3> QED
      BY <3>1, <3>2, <3>3, Constants
  <2>2. UpdateComponent(w, g) = Waited(w, u)
    BY <1>3 DEF UpdateComponent
  <2> HIDE DEF u
  <2>3. Fit(w, Waited(w, u))
    BY <2>1, Constants
       DEF Fit, Sound, Gun, Accounted, Paced, Timed, Prompt, Waited, AtMost, AtLeast, Patience
  <2> QED
    BY <2>2, <2>3
<1> QED
  BY <1>2, <1>3

-----------------------------------------------------------------------------
(* Input commands and gifts. *)

LEMMA WeaponChanges ==
  ASSUME NEW w \in Weapon, NEW g, Fit(w, g)
  PROVE  Fit(w, SelectWeapon(w, g)) /\ Fit(w, Holster(g))
<1> DEFINE cooldown == IF Kind[w] = "defender" THEN g.cooldown ELSE EquipTime[w]
           e == [g EXCEPT !.held = TRUE, !.cooldown = cooldown]
           h == [g EXCEPT !.held = FALSE, !.trigger = FALSE, !.reloading = FALSE,
                          !.timer = 0, !.asked = FALSE, !.dry = 0]
<1>1. SelectWeapon(w, g) \in {g, e}
  BY DEF SelectWeapon, OnEquip, Fit, Sound, Gun
<1>2. Holster(g) \in {g, h}
  BY DEF Holster
<1>3. /\ cooldown \in Nat /\ g.since + cooldown >= FirePeriod[w]
      /\ Kind[w] = "sidearm" => cooldown >= 2
  BY Constants DEF Fit, Sound, Gun, Paced
<1> HIDE DEF cooldown
<1>4. Fit(w, e)
  <2>1. e \in Gun(w)
    BY <1>3 DEF Fit, Sound, Gun
  <2>2. /\ e.cooldown = cooldown /\ e.since = g.since
        /\ e.mag = g.mag /\ e.fired = g.fired /\ e.ammo = g.ammo /\ e.given = g.given
        /\ e.timer = g.timer /\ e.worked = g.worked /\ e.asked = g.asked
        /\ e.early = g.early /\ e.rushed = g.rushed
    BY DEF Fit, Sound, Gun
  <2> HIDE DEF e
  <2> QED
    BY <1>3, <2>1, <2>2 DEF Fit, Sound, Accounted, Paced, Timed, Prompt
<1>5. Fit(w, h)
  BY Constants DEF Fit, Sound, Gun, Accounted, Paced, Timed, Prompt
<1> QED
  BY <1>1, <1>2, <1>4, <1>5

LEMMA TriggerMoves ==
  ASSUME NEW w \in Weapon, NEW g, Fit(w, g)
  PROVE  Fit(w, OnPrimaryFire(w, g)) /\ Fit(w, OnCeasePrimaryFire(g))
<1>1. Fit(w, [g EXCEPT !.trigger = TRUE]) /\ Fit(w, [g EXCEPT !.trigger = FALSE])
  BY Constants DEF Fit, Sound, Gun, Accounted, Paced, Timed, Prompt
<1> DEFINE t == [g EXCEPT !.trigger = TRUE]
<1> HIDE DEF t
<1>2. ASSUME Fit(w, t) PROVE Fit(w, FireIfAble(w, t))
  <2>1. Kind[w] = "defender" => Prompt(w, FireShell(w, t))
    BY DEF Prompt
  <2> QED
    BY <1>2, <2>1, WeaponIsFired DEF FireIfAble, Fit
<1> QED
  BY <1>1, <1>2 DEF OnPrimaryFire, OnCeasePrimaryFire, t

(* Rounds are given: to the magazine, to the ammo carried, or to both.     *)
LEMMA RoundsAreGiven ==
  ASSUME NEW w \in Weapon, NEW g, Fit(w, g), Kind[w] # "sidearm",
         NEW mag \in 0 .. MagazineSize[w], NEW ammo \in Nat, NEW gain \in Nat,
         mag + ammo = g.mag + g.ammo + gain
  PROVE  Fit(w, [g EXCEPT !.mag = mag, !.ammo = ammo, !.given = @ + gain])
<1> DEFINE s == [g EXCEPT !.mag = mag, !.ammo = ammo, !.given = g.given + gain]
<1>1. s \in Gun(w)
  <2>1. g.given + gain \in Nat
    BY DEF Fit, Sound, Gun
  <2> QED
    BY <2>1 DEF Fit, Sound, Gun
<1>2. /\ s.mag = mag /\ s.ammo = ammo /\ s.given = g.given + gain /\ s.fired = g.fired
      /\ s.since = g.since /\ s.cooldown = g.cooldown /\ s.early = g.early
      /\ s.timer = g.timer /\ s.worked = g.worked /\ s.asked = g.asked
      /\ s.rushed = g.rushed
  BY DEF Fit, Sound, Gun
<1>3. [g EXCEPT !.mag = mag, !.ammo = ammo, !.given = @ + gain] = s
  BY DEF Fit, Sound, Gun
<1> HIDE DEF s
<1>4. Accounted(w, s)
  BY <1>2, Constants DEF Fit, Sound, Gun, Accounted
<1>5. Paced(w, s) /\ Timed(w, s) /\ Prompt(w, s)
  BY <1>2 DEF Fit, Sound, Paced, Timed, Prompt
<1> QED
  BY <1>1, <1>3, <1>4, <1>5 DEF Fit, Sound

-----------------------------------------------------------------------------
(* How long an empty magazine waits. *)

(* The ticks until a queued reload begins: a click of the empty magazine   *)
(* may still come before the next one.                                     *)
Pause(w, g) == IF g.cooldown = 0 THEN FirePeriod[w] ELSE g.cooldown

(* The longest cooldown a weapon has. *)
Rest(w) == AtLeast(EquipTime[w], FirePeriod[w])

(* The clocks of a weapon between two ticks. *)
Clocked(w, g) ==
  /\ g.timer <= ReloadTime[w] /\ g.cooldown <= Rest(w)
  /\ g.reloading => g.timer >= 1 /\ ~g.queued
  /\ Kind[w] = "defender" => ~g.queued
  /\ ~g.held => g.dry = 0 /\ ~g.reloading

(* What an empty magazine has waited and has yet to wait is a reload's     *)
(* time; idle is how long it may lie there without a reload to come.       *)
Served(w, g, idle) ==
  /\ g.dry <= Patience(w)
  /\ g.mag = 0 =>
       /\ ~HasAmmo(w, g) => g.dry = 0
       /\ g.reloading => g.dry + g.timer <= Patience(w)
       /\ g.queued => g.dry + g.timer + Pause(w, g) <= Patience(w) + 1
       /\ ~g.reloading /\ ~g.queued => g.dry <= idle

(* A rifle asks for its reload a tick late, by a command of its own.       *)
Idle(w) == IF auto /\ Kind[w] = "assault" THEN 2 ELSE 1

ServedInv == \A w \in DOMAIN gun : Clocked(w, gun[w]) /\ Served(w, gun[w], Idle(w))

(* The same within a tick, where the time waited is not counted yet:       *)
(* before the reload timer has moved, ...                                  *)
Hungry(w, g) == g.mag = 0 /\ HasAmmo(w, g)

Within(w, g) ==
  /\ g \in Gun(w) /\ g.held
  /\ g.timer <= ReloadTime[w] /\ g.cooldown <= Rest(w)
  /\ ~(g.queued /\ g.reloading)
  /\ Kind[w] = "defender" => ~g.queued

Cooled(w, g, idle) ==
  /\ Within(w, g)
  /\ Hungry(w, g) =>
       /\ g.queued => g.dry + g.timer + g.cooldown <= Patience(w)
       /\ g.reloading => g.dry + g.timer <= Patience(w)
       /\ ~g.reloading /\ ~g.queued => g.dry <= idle

(* ... after it has, ...                                                   *)
Counted(w, g, idle) ==
  /\ Within(w, g)
  /\ g.queued => g.cooldown >= 1
  /\ Hungry(w, g) =>
       /\ g.queued => g.dry + g.timer + g.cooldown <= Patience(w)
       /\ g.reloading => g.timer = 0 \/ g.dry + g.timer + 1 <= Patience(w)
       /\ ~g.reloading /\ ~g.queued => g.dry <= idle

(* ... and after a reload whose time is over has ended.                    *)
Settled(w, g, idle) == Counted(w, g, idle) /\ (g.reloading => g.timer >= 1)

(* Patience is the longest cooldown, a reload and a tick.                  *)
LEMMA PatienceIsLong ==
  ASSUME NEW w \in Weapon
  PROVE  /\ Rest(w) \in Nat /\ Rest(w) >= 1
         /\ FirePeriod[w] <= Rest(w) /\ EquipTime[w] <= Rest(w)
         /\ Patience(w) = Rest(w) + ReloadTime[w] + 1
  BY Constants DEF Rest, Patience, AtLeast

(* The cooldown falls before a queued reload is looked at.                 *)
LEMMA CooldownFalls ==
  ASSUME NEW w \in Weapon, NEW g \in Gun(w), Clocked(w, g), Served(w, g, 1)
  PROVE  /\ g.held => Cooled(w, Cool(w, g), IF g.mag = 0 THEN 1 ELSE 0)
         /\ ~g.held => Clocked(w, Cool(w, g)) /\ Served(w, Cool(w, g), 1)
<1> DEFINE c == AtLeast(g.cooldown - 1, 0)
           since == AtMost(g.since + 1, FirePeriod[w])
           worked == AtMost(g.worked + 1, ReloadTime[w])
           s == [g EXCEPT !.cooldown = c, !.since = since, !.worked = worked]
<1>1. /\ c \in Nat /\ since \in Nat /\ worked \in Nat /\ c <= g.cooldown
      /\ g.cooldown = 0 => c = 0
      /\ g.cooldown >= 1 => c = g.cooldown - 1
  BY Constants DEF AtLeast, AtMost, Gun
<1>2. Cool(w, g) = s
  BY DEF Cool, Gun
<1> HIDE DEF c, since, worked
<1>3. s \in Gun(w)
  BY <1>1 DEF Gun
<1>4. /\ s.cooldown = c /\ s.mag = g.mag /\ s.ammo = g.ammo /\ s.timer = g.timer
      /\ s.queued = g.queued /\ s.reloading = g.reloading /\ s.held = g.held
      /\ s.dry = g.dry
  BY DEF Gun
<1> HIDE DEF s
<1>5. /\ g.cooldown \in Nat /\ g.timer \in Nat /\ g.dry \in Nat /\ g.held \in BOOLEAN
      /\ g.mag \in Nat
  BY Constants DEF Gun
<1>6. ASSUME g.held PROVE Cooled(w, s, IF g.mag = 0 THEN 1 ELSE 0)
  <2>1. Within(w, s)
    BY <1>1, <1>3, <1>4, <1>5, <1>6, PatienceIsLong DEF Within, Clocked
  <2>2. ASSUME Hungry(w, s), s.queued
        PROVE  s.dry + s.timer + s.cooldown <= Patience(w)
    BY <1>1, <1>4, <1>5, <2>2, PatienceIsLong, Constants DEF Served, Hungry, Pause
  <2>3. ASSUME Hungry(w, s) PROVE /\ s.reloading => s.dry + s.timer <= Patience(w)
                                  /\ ~s.reloading /\ ~s.queued => s.dry <= 1
                                  /\ g.mag = 0
    BY <1>4, <2>3 DEF Served, Hungry
  <2> QED
    BY <2>1, <2>2, <2>3 DEF Cooled
<1>7. ASSUME ~g.held PROVE Clocked(w, s) /\ Served(w, s, 1)
  <2>1. g.dry = 0 /\ ~g.reloading
    BY <1>7 DEF Clocked
  <2>2. Clocked(w, s)
    BY <1>1, <1>4, <1>5, <2>1, PatienceIsLong DEF Clocked
  <2>3. Pause(w, s) \in Nat /\ Pause(w, s) <= Rest(w)
    BY <1>1, <1>4, <2>2, PatienceIsLong, Constants DEF Pause, Clocked
  <2> QED
    BY <1>4, <1>5, <2>1, <2>2, <2>3, PatienceIsLong, Constants DEF Served, Clocked
<1> QED
  BY <1>2, <1>6, <1>7

(* A queued reload starts when the cooldown is over, and every reload      *)
(* counts down.                                                            *)
LEMMA ReloadGoesOn ==
  ASSUME NEW w \in Weapon, NEW g, NEW idle \in {0, 1}, Cooled(w, g, idle)
  PROVE  LET r == StartQueued(g)
         IN Counted(w, IF r.reloading THEN CountDown(r) ELSE r, idle)
<1> DEFINE r == StartQueued(g)
           t == AtLeast(r.timer - 1, 0)
           s == IF r.reloading THEN [r EXCEPT !.timer = t] ELSE r
<1>1. /\ r \in Gun(w) /\ r.held
      /\ r.timer = g.timer /\ r.cooldown = g.cooldown /\ r.mag = g.mag
      /\ r.ammo = g.ammo /\ r.dry = g.dry
      /\ ~(r.queued /\ r.reloading)
      /\ Kind[w] = "defender" => ~r.queued
      /\ r.queued => g.queued /\ r.cooldown # 0
      /\ r.reloading => g.reloading \/ (g.queued /\ r.cooldown = 0)
      /\ ~r.reloading /\ ~r.queued => ~g.reloading /\ ~g.queued
  BY DEF StartQueued, Cooled, Within, Gun
<1> HIDE DEF r
<1>2. /\ r.cooldown \in Nat /\ r.timer \in Nat /\ r.dry \in Nat
      /\ t \in Nat /\ (t = 0 \/ t = r.timer - 1) /\ t <= r.timer
  BY <1>1 DEF Gun, AtLeast
<1>3. (IF r.reloading THEN CountDown(r) ELSE r) = s
  BY DEF CountDown
<1> HIDE DEF t
<1>4. /\ s \in Gun(w) /\ s.held
      /\ s.cooldown = g.cooldown /\ s.mag = g.mag /\ s.ammo = g.ammo /\ s.dry = g.dry
      /\ s.queued = r.queued /\ s.reloading = r.reloading
      /\ r.reloading => s.timer = t
      /\ ~r.reloading => s.timer = r.timer
  BY <1>1, <1>2 DEF Gun
<1> HIDE DEF s
<1>5. Within(w, s) /\ (s.queued => s.cooldown >= 1)
  BY <1>1, <1>2, <1>4, PatienceIsLong, Constants DEF Cooled, Within
<1>6. ASSUME Hungry(w, s) PROVE Hungry(w, g)
  BY <1>4, <1>6 DEF Hungry, HasAmmo
<1>7. ASSUME Hungry(w, s), s.queued
      PROVE  s.dry + s.timer + s.cooldown <= Patience(w)
  BY <1>1, <1>2, <1>4, <1>5, <1>6, <1>7 DEF Cooled, Within
<1>8. ASSUME Hungry(w, s), s.reloading
      PROVE  s.timer = 0 \/ s.dry + s.timer + 1 <= Patience(w)
  <2>1. r.dry + r.timer <= Patience(w)
    BY <1>1, <1>2, <1>4, <1>6, <1>8 DEF Cooled
  <2> QED
    BY <1>1, <1>2, <1>4, <1>8, <2>1, PatienceIsLong, Constants
<1>9. ASSUME Hungry(w, s), ~s.reloading, ~s.queued PROVE s.dry <= idle
  BY <1>1, <1>4, <1>6, <1>9 DEF Cooled
<1> QED
  BY <1>3, <1>5, <1>7, <1>8, <1>9 DEF Counted, r

(* A reload that is over has filled the magazine, or had nothing to.       *)
LEMMA RefillFills ==
  ASSUME NEW w \in Weapon, NEW g, NEW idle \in {0, 1}, Counted(w, g, idle),
         Kind[w] # "defender"
  PROVE  Settled(w, Refill(w, g), idle)
<1>1. g \in Gun(w)
  BY DEF Counted, Within
<1>2. CASE ~g.reloading \/ g.timer > 0
  BY <1>1, <1>2 DEF Refill, Settled, Gun
<1>3. CASE g.reloading /\ ~(g.timer > 0)
  <2> DEFINE r == [Judged(w, g) EXCEPT !.reloading = FALSE, !.asked = FALSE]
             mag == IF Kind[w] = "sidearm" THEN MagazineSize[w]
                    ELSE AtMost(g.ammo + g.mag, MagazineSize[w])
             ammo == IF Kind[w] = "sidearm" THEN g.ammo
                     ELSE AtLeast(g.ammo - AtLeast(MagazineSize[w] - g.mag, 0), 0)
             s == [r EXCEPT !.mag = mag, !.ammo = ammo]
  <2>1. /\ r \in Gun(w) /\ r.reloading = FALSE
        /\ r.queued = g.queued /\ r.cooldown = g.cooldown /\ r.timer = g.timer
        /\ r.held = g.held /\ r.dry = g.dry /\ r.ammo = g.ammo /\ r.mag = g.mag
    BY <1>1 DEF Judged, Gun
  <2>2. Refill(w, g) = s
    <3>1. CASE Kind[w] = "sidearm"
      <4>1. Refill(w, g) = [r EXCEPT !.mag = MagazineSize[w]]
        BY <1>3, <3>1 DEF Refill
      <4> HIDE DEF r
      <4> QED BY <2>1, <3>1, <4>1 DEF Gun
    <3>2. CASE Kind[w] # "sidearm"
      BY <1>3, <3>2 DEF Refill
    <3> QED BY <3>1, <3>2
  <2>3. /\ mag \in 0 .. MagazineSize[w] /\ ammo \in Nat
        /\ mag = 0 => Kind[w] # "sidearm" /\ ammo = 0
    BY <1>1, Constants DEF AtMost, AtLeast, Gun
  <2> HIDE DEF r, mag, ammo
  <2>4. /\ s \in Gun(w) /\ s.mag = mag /\ s.ammo = ammo /\ s.reloading = FALSE
        /\ s.queued = g.queued /\ s.cooldown = g.cooldown /\ s.timer = g.timer
        /\ s.held = g.held /\ s.dry = g.dry
    BY <2>1, <2>3 DEF Gun
  <2> HIDE DEF s
  <2>5. ~Hungry(w, s)
    BY <2>3, <2>4 DEF Hungry, HasAmmo
  <2>6. Within(w, s) /\ (s.queued => s.cooldown >= 1)
    BY <2>4 DEF Counted, Within
  <2> QED
    BY <2>2, <2>4, <2>5, <2>6 DEF Settled, Counted
<1> QED
  BY <1>1, <1>2, <1>3 DEF Gun

(* What a shot does to the clocks: a round that is fired was there to be.  *)
LEMMA ShotIsCounted ==
  ASSUME NEW w \in Weapon, NEW g \in Gun(w)
  PROVE  LET s == Shoot(w, g)
         IN /\ s \in Gun(w)
            /\ s.cooldown = FirePeriod[w] /\ s.timer = g.timer /\ s.queued = g.queued
            /\ s.reloading = g.reloading /\ s.held = g.held /\ s.ammo = g.ammo
            /\ s.trigger = g.trigger
            /\ s.dry = 0 \/ (g.mag = 0 /\ s.dry = g.dry)
<1> DEFINE r == [g EXCEPT !.cooldown = FirePeriod[w]]
           n == IF Kind[w] = "sidearm" THEN g.fired ELSE g.fired + 1
           early == g.early \/ g.since < FirePeriod[w]
           s == [g EXCEPT !.cooldown = FirePeriod[w], !.mag = g.mag - 1, !.fired = n,
                          !.early = early, !.since = 0, !.dry = 0]
<1>1. CASE Empty(g)
  <2>1. Shoot(w, g) = r /\ g.mag = 0
    BY <1>1, Constants DEF Shoot, Empty, Gun
  <2> QED
    BY <2>1, Constants DEF Gun
<1>2. CASE ~Empty(g)
  <2>1. Shoot(w, g) = s
    BY <1>2 DEF Shoot, Gun
  <2>2. /\ n \in Nat /\ early \in BOOLEAN /\ g.mag - 1 \in 0 .. MagazineSize[w]
        /\ FirePeriod[w] \in Nat
    BY <1>2, Constants DEF Empty, Gun
  <2> HIDE DEF n, early
  <2>3. s \in Gun(w)
    BY <2>2 DEF Gun
  <2>4. /\ s.cooldown = FirePeriod[w] /\ s.timer = g.timer /\ s.queued = g.queued
        /\ s.reloading = g.reloading /\ s.held = g.held /\ s.ammo = g.ammo
        /\ s.trigger = g.trigger /\ s.dry = 0
    BY DEF Gun
  <2> HIDE DEF s
  <2> QED
    BY <2>1, <2>3, <2>4
<1> QED
  BY <1>1, <1>2

(* A shot within a tick leaves what is to come.                            *)
LEMMA BulletSettles ==
  ASSUME NEW w \in Weapon, NEW g, NEW idle \in {0, 1}, Settled(w, g, idle),
         Kind[w] # "defender"
  PROVE  Settled(w, FireBullet(w, g), idle)
<1>1. CASE ~CanFire(w, g)
  BY <1>1 DEF FireBullet
<1>2. CASE CanFire(w, g)
  <2> DEFINE s == Shoot(w, g)
  <2>0. g \in Gun(w) /\ g.dry \in Nat
    BY DEF Settled, Counted, Within, Gun
  <2>1. /\ s \in Gun(w)
        /\ s.cooldown = FirePeriod[w] /\ s.timer = g.timer /\ s.queued = g.queued
        /\ s.reloading = g.reloading /\ s.held = g.held /\ s.ammo = g.ammo
        /\ s.dry = 0 \/ (g.mag = 0 /\ s.dry = g.dry)
    BY <2>0, ShotIsCounted
  <2>2. ~g.reloading /\ ~g.queued
    BY <1>2, <2>0, Constants DEF CanFire, Settled, Counted
  <2>3. FireBullet(w, g) = s
    BY <1>2 DEF FireBullet
  <2> HIDE DEF s
  <2>4. Within(w, s) /\ ~s.queued /\ ~s.reloading
    BY <2>1, <2>2, PatienceIsLong DEF Settled, Counted, Within
  <2>5. Hungry(w, s) => s.dry <= idle
    BY <2>1, <2>2 DEF Settled, Counted, Hungry, HasAmmo
  <2> QED
    BY <2>3, <2>4, <2>5 DEF Settled, Counted
<1> QED
  BY <1>1, <1>2

(* The sidearm and the shotgun ask for a reload as soon as they are empty. *)
LEMMA SidearmAsks ==
  ASSUME NEW w \in Weapon, NEW g, NEW idle \in {0, 1}, Cooled(w, g, idle),
         Kind[w] = "sidearm"
  PROVE  Cooled(w, AutoReload(w, g), 0)
<1> DEFINE q == [g EXCEPT !.timer = ReloadTime[w], !.worked = 0, !.asked = TRUE,
                          !.queued = TRUE]
<1>0. /\ g \in Gun(w) /\ g.mag \in 0 .. MagazineSize[w] /\ g.dry \in Nat
      /\ g.cooldown \in Nat /\ g.cooldown <= Rest(w)
  BY DEF Cooled, Within, Gun
<1>1. CASE Empty(g) /\ ~g.queued /\ ~g.reloading
  <2>1. AutoReload(w, g) = q
    BY <1>0, <1>1, Constants
       DEF AutoReload, OnReload, QueueReload, CanReload, HasAmmo, Asked, Empty, Gun
  <2>2. /\ q \in Gun(w) /\ q.timer = ReloadTime[w] /\ q.queued /\ q.mag = g.mag
        /\ q.dry = g.dry /\ q.cooldown = g.cooldown /\ q.reloading = g.reloading
        /\ q.held = g.held
    BY <1>0, Constants DEF Gun
  <2> HIDE DEF q
  <2>3. g.dry <= 1
    BY <1>0, <1>1 DEF Cooled, Hungry, HasAmmo, Empty
  <2>4. Within(w, q)
    BY <1>1, <2>2, Constants DEF Cooled, Within
  <2>5. q.dry + q.timer + q.cooldown <= Patience(w)
    BY <1>0, <2>2, <2>3, PatienceIsLong, Constants
  <2> QED
    BY <1>1, <2>1, <2>2, <2>4, <2>5 DEF Cooled
<1>2. CASE ~Empty(g) \/ g.queued \/ g.reloading
  <2>1. AutoReload(w, g) = g
    BY <1>2 DEF AutoReload, OnReload, QueueReload, CanReload
  <2> QED
    BY <1>0, <1>2, <2>1 DEF Cooled, Hungry, Empty
<1> QED
  BY <1>0, <1>1, <1>2 DEF Gun

(* The shotgun counts down first, ...                                      *)
LEMMA ShotgunCounts ==
  ASSUME NEW w \in Weapon, NEW g, NEW idle \in {0, 1}, Cooled(w, g, idle),
         Kind[w] = "defender"
  PROVE  Counted(w, CountDown(g), idle)
<1> DEFINE t == AtLeast(g.timer - 1, 0)
           s == [g EXCEPT !.timer = t]
<1>0. g \in Gun(w) /\ g.timer \in Nat /\ g.dry \in Nat
  BY DEF Cooled, Within, Gun
<1>1. t \in Nat /\ (t = 0 \/ t = g.timer - 1) /\ t <= g.timer
  BY <1>0 DEF AtLeast
<1>2. CountDown(g) = s
  BY DEF CountDown
<1> HIDE DEF t
<1>3. /\ s \in Gun(w) /\ s.timer = t /\ s.held = g.held /\ s.cooldown = g.cooldown
      /\ s.mag = g.mag /\ s.ammo = g.ammo /\ s.dry = g.dry /\ s.queued = g.queued
      /\ s.reloading = g.reloading
  BY <1>0, <1>1 DEF Gun
<1> HIDE DEF s
<1>4. Within(w, s) /\ ~s.queued
  BY <1>0, <1>1, <1>3, Constants DEF Cooled, Within
<1>5. Hungry(w, s) => Hungry(w, g)
  BY <1>3 DEF Hungry, HasAmmo
<1>6. ASSUME Hungry(w, s), s.reloading
      PROVE  s.timer = 0 \/ s.dry + s.timer + 1 <= Patience(w)
  <2>1. g.dry + g.timer <= Patience(w)
    BY <1>3, <1>5, <1>6 DEF Cooled
  <2> QED
    BY <1>0, <1>1, <1>3, <2>1, PatienceIsLong, Constants
<1> QED
  BY <1>2, <1>3, <1>4, <1>5, <1>6 DEF Counted, Cooled

(* ... then asks for its reload, ...                                       *)
LEMMA ShotgunAsks ==
  ASSUME NEW w \in Weapon, NEW g, NEW idle \in {0, 1}, Counted(w, g, idle),
         Kind[w] = "defender"
  PROVE  Counted(w, AutoReload(w, g), 0)
<1> DEFINE q == [g EXCEPT !.timer = ReloadTime[w], !.worked = 0, !.asked = TRUE,
                          !.reloading = TRUE]
<1>0. /\ g \in Gun(w) /\ g.mag \in 0 .. MagazineSize[w] /\ g.dry \in Nat /\ ~g.queued
      /\ g.reloading \in BOOLEAN
  BY DEF Counted, Within, Gun
<1>1. CASE Empty(g) /\ ~g.reloading /\ HasAmmo(w, g)
  <2>1. AutoReload(w, g) = q
    BY <1>0, <1>1, Constants
       DEF AutoReload, OnReload, StartShells, CanReload, Asked, Empty, Gun
  <2>2. /\ q \in Gun(w) /\ q.timer = ReloadTime[w] /\ q.queued = g.queued /\ q.mag = g.mag
        /\ q.dry = g.dry /\ q.cooldown = g.cooldown /\ q.reloading = TRUE
        /\ q.held = g.held
    BY <1>0, Constants DEF Gun
  <2> HIDE DEF q
  <2>3. g.dry <= 1
    BY <1>0, <1>1 DEF Counted, Hungry, Empty
  <2>4. Within(w, q)
    BY <1>0, <2>2, Constants DEF Counted, Within
  <2>5. q.dry + q.timer + 1 <= Patience(w)
    BY <1>0, <2>2, <2>3, PatienceIsLong, Constants
  <2> QED
    BY <1>0, <2>1, <2>2, <2>4, <2>5 DEF Counted
<1>2. CASE ~Empty(g) \/ g.reloading \/ ~HasAmmo(w, g)
  <2>1. AutoReload(w, g) = g
    BY <1>2 DEF AutoReload, OnReload, StartShells, CanReload
  <2> QED
    BY <1>0, <1>2, <2>1 DEF Counted, Hungry, Empty
<1> QED
  BY <1>0, <1>1, <1>2

(* ... takes a shell when its time has come, ...                           *)
LEMMA ShellFills ==
  ASSUME NEW w \in Weapon, NEW g, Counted(w, g, 0), Kind[w] = "defender"
  PROVE  Settled(w, LoadShell(w, g), 0)
<1> DEFINE done == [g EXCEPT !.reloading = FALSE, !.asked = FALSE]
           rushed == g.rushed \/ (g.asked /\ g.worked < ReloadTime[w])
           more == [g EXCEPT !.rushed = rushed, !.mag = g.mag + 1, !.ammo = g.ammo - 1,
                             !.timer = ReloadTime[w], !.worked = 0]
<1>0. /\ g \in Gun(w) /\ g.timer \in Nat /\ g.reloading \in BOOLEAN /\ g.ammo \in Nat
      /\ g.mag \in 0 .. MagazineSize[w] /\ ~g.queued
  BY DEF Counted, Within, Gun
<1>1. CASE ~g.reloading \/ g.timer > 0
  BY <1>0, <1>1 DEF LoadShell, Settled
<1>2. CASE g.reloading /\ ~(g.timer > 0) /\ ~(g.mag < MagazineSize[w] /\ g.ammo > 0)
  <2>1. LoadShell(w, g) = done
    BY <1>2 DEF LoadShell
  <2>2. /\ done \in Gun(w) /\ done.reloading = FALSE /\ done.queued = g.queued
        /\ done.mag = g.mag /\ done.ammo = g.ammo /\ done.timer = g.timer
        /\ done.cooldown = g.cooldown /\ done.held = g.held
    BY <1>0 DEF Gun
  <2> HIDE DEF done
  <2>3. Within(w, done)
    BY <2>2 DEF Counted, Within
  <2>4. ~Hungry(w, done)
    BY <1>0, <1>2, <2>2, Constants DEF Hungry, HasAmmo
  <2> QED
    BY <1>0, <2>1, <2>2, <2>3, <2>4 DEF Settled, Counted
<1>3. CASE g.reloading /\ ~(g.timer > 0) /\ g.mag < MagazineSize[w] /\ g.ammo > 0
  <2>1. LoadShell(w, g) = more
    BY <1>0, <1>3 DEF LoadShell, Judged, Gun
  <2>2. /\ rushed \in BOOLEAN /\ g.mag + 1 \in 0 .. MagazineSize[w] /\ g.ammo - 1 \in Nat
    BY <1>0, <1>3, Constants DEF Gun
  <2> HIDE DEF rushed
  <2>3. /\ more \in Gun(w) /\ more.reloading = g.reloading /\ more.queued = g.queued
        /\ more.mag = g.mag + 1 /\ more.timer = ReloadTime[w]
        /\ more.cooldown = g.cooldown /\ more.held = g.held
    BY <1>0, <2>2, Constants DEF Gun
  <2> HIDE DEF more
  <2>4. Within(w, more) /\ more.timer >= 1
    BY <1>0, <2>3, Constants DEF Counted, Within
  <2>5. ~Hungry(w, more)
    BY <1>0, <2>3 DEF Hungry
  <2> QED
    BY <1>0, <2>1, <2>3, <2>4, <2>5 DEF Settled, Counted
<1> QED
  BY <1>1, <1>2, <1>3

(* ... and may stop it all for a shot.                                     *)
LEMMA ShellSettles ==
  ASSUME NEW w \in Weapon, NEW g, Settled(w, g, 0), Kind[w] = "defender"
  PROVE  Settled(w, FireShell(w, g), 0)
<1>1. CASE ~CanFire(w, g)
  BY <1>1 DEF FireShell
<1>2. CASE CanFire(w, g)
  <2> DEFINE s == Shoot(w, g)
             r == [s EXCEPT !.reloading = FALSE, !.asked = FALSE, !.dry = 0]
  <2>1. g \in Gun(w)
    BY DEF Settled, Counted, Within
  <2>2. /\ s \in Gun(w) /\ s.cooldown = FirePeriod[w] /\ s.timer = g.timer
        /\ s.queued = g.queued /\ s.held = g.held
    BY <2>1, ShotIsCounted
  <2>3. FireShell(w, g) = r
    BY <1>2 DEF FireShell
  <2> HIDE DEF s
  <2>4. /\ r \in Gun(w) /\ r.cooldown = FirePeriod[w] /\ r.timer = g.timer
        /\ r.queued = g.queued /\ r.held = g.held /\ r.dry = 0 /\ r.reloading = FALSE
    BY <2>2 DEF Gun
  <2> HIDE DEF r
  <2>5. Within(w, r) /\ ~r.queued
    BY <2>4, PatienceIsLong DEF Settled, Counted, Within
  <2> QED
    BY <2>3, <2>4, <2>5 DEF Settled, Counted
<1> QED
  BY <1>1, <1>2

(* The tick is counted.                                                    *)
LEMMA WaitIsCounted ==
  ASSUME NEW w \in Weapon, NEW g, NEW idle \in {0, 1}, Settled(w, g, idle)
  PROVE  Clocked(w, Waited(w, g)) /\ Served(w, Waited(w, g), idle + 1)
<1> DEFINE counts == /\ g.mag = 0 /\ HasAmmo(w, g)
                     /\ ~(Kind[w] = "defender" /\ g.trigger)
           d == IF counts THEN AtMost(g.dry + 1, Patience(w) + 1) ELSE 0
           s == [g EXCEPT !.dry = d]
<1>0. /\ g \in Gun(w) /\ g.dry \in Nat /\ g.timer \in Nat /\ g.cooldown \in Nat /\ g.held
      /\ g.timer <= ReloadTime[w] /\ g.cooldown <= Rest(w)
      /\ ~(g.queued /\ g.reloading) /\ (Kind[w] = "defender" => ~g.queued)
  BY DEF Settled, Counted, Within, Gun
<1>1. Waited(w, g) = s
  BY <1>0 DEF Waited, Gun
<1>2. d \in Nat /\ d <= g.dry + 1 /\ (~Hungry(w, g) => d = 0)
  BY <1>0, PatienceIsLong, Constants DEF AtMost, Hungry
<1> HIDE DEF d
<1>3. /\ s.dry = d /\ s.mag = g.mag /\ s.ammo = g.ammo /\ s.timer = g.timer
      /\ s.cooldown = g.cooldown /\ s.queued = g.queued /\ s.reloading = g.reloading
      /\ s.held = g.held
  BY <1>0 DEF Gun
<1> HIDE DEF s
<1>4. Clocked(w, s)
  BY <1>0, <1>3 DEF Settled, Clocked
<1>5. HasAmmo(w, s) <=> HasAmmo(w, g)
  BY <1>3 DEF HasAmmo
<1>6. CASE ~Hungry(w, g)
  <2>1. s.dry = 0
    BY <1>2, <1>3, <1>6
  <2>2. s.queued => s.dry + s.timer + Pause(w, s) <= Patience(w) + 1
    BY <1>0, <1>3, <2>1, PatienceIsLong, Constants DEF Pause
  <2>3. s.dry + s.timer <= Patience(w) /\ s.dry <= Patience(w)
    BY <1>0, <1>3, <2>1, PatienceIsLong, Constants
  <2> QED
    BY <1>1, <1>4, <2>1, <2>2, <2>3 DEF Served
<1>7. CASE Hungry(w, g)
  <2>0. HasAmmo(w, s)
    BY <1>5, <1>7 DEF Hungry
  <2>1. ASSUME g.queued PROVE /\ s.dry <= Patience(w)
                              /\ s.dry + s.timer + Pause(w, s) <= Patience(w) + 1
    <3>1. g.cooldown >= 1 /\ g.dry + g.timer + g.cooldown <= Patience(w)
      BY <1>7, <2>1 DEF Settled, Counted
    <3>2. Pause(w, s) = g.cooldown
      BY <1>0, <1>3, <3>1 DEF Pause
    <3> QED
      BY <1>0, <1>2, <1>3, <3>1, <3>2, PatienceIsLong, Constants
  <2>2. ASSUME g.reloading PROVE s.dry <= Patience(w) /\ s.dry + s.timer <= Patience(w)
    <3>1. g.dry + g.timer + 1 <= Patience(w)
      BY <1>0, <1>7, <2>2 DEF Settled, Counted
    <3> QED
      BY <1>0, <1>2, <1>3, <3>1, PatienceIsLong, Constants
  <2>3. ASSUME ~g.queued, ~g.reloading PROVE s.dry <= Patience(w) /\ s.dry <= idle + 1
    <3>1. g.dry <= idle
      BY <1>7, <2>3 DEF Settled, Counted
    <3> QED
      BY <1>0, <1>2, <1>3, <3>1, PatienceIsLong, Constants
  <2> QED
    BY <1>0, <1>1, <1>3, <1>4, <2>0, <2>1, <2>2, <2>3 DEF Served
<1> QED
  BY <1>6, <1>7

(* A tick serves a weapon: a rifle that was empty in hand when it began    *)
(* may lie there for another, since its command is then on its way.        *)
LEMMA ComponentIsServed ==
  ASSUME NEW w \in Weapon, NEW g \in Gun(w), Clocked(w, g), Served(w, g, 1)
  PROVE  LET u == UpdateComponent(w, g)
         IN /\ Clocked(w, u) /\ Served(w, u, 2)
            /\ ~(Kind[w] = "assault" /\ g.held /\ g.mag = 0) => Served(w, u, 1)
<1> DEFINE e == IF g.mag = 0 THEN 1 ELSE 0
           c == Cool(w, g)
           u == UpdateWeapon(w, c)
<1>0. \A s : Served(w, s, 1) /\ s.dry \in Nat => Served(w, s, 2)
  BY DEF Served
<1>1. CASE ~g.held
  <2>1. Clocked(w, c) /\ Served(w, c, 1) /\ UpdateComponent(w, g) = c
    BY <1>1, CooldownFalls DEF UpdateComponent
  <2>2. c.dry = g.dry /\ g.dry \in Nat
    BY DEF Cool, Gun
  <2> QED
    BY <1>0, <2>1, <2>2
<1>2. CASE g.held
  <2>1. Cooled(w, c, e) /\ e \in {0, 1} /\ UpdateComponent(w, g) = Waited(w, u)
    BY <1>2, CooldownFalls DEF UpdateComponent
  <2> HIDE DEF c
  <2>2. CASE Kind[w] = "assault"
    <3> DEFINE r == StartQueued(c)
               s == IF r.reloading THEN CountDown(r) ELSE r
    <3>1. u = FireBullet(w, Refill(w, s))
      BY <2>2 DEF UpdateWeapon, UpdateRifle
    <3>2. Counted(w, s, e)
      BY <2>1, ReloadGoesOn
    <3> HIDE DEF s, u, e
    <3>3. Settled(w, u, e)
      BY <2>1, <2>2, <3>1, <3>2, RefillFills, BulletSettles
    <3>4. Clocked(w, Waited(w, u)) /\ Served(w, Waited(w, u), e + 1)
      BY <2>1, <3>3, WaitIsCounted
    <3>5. CASE g.mag = 0
      BY <1>2, <2>1, <2>2, <3>4, <3>5 DEF e
    <3>6. CASE g.mag # 0
      <4>1. Served(w, Waited(w, u), 1)
        BY <3>4, <3>6 DEF e
      <4>2. Waited(w, u).dry \in Nat
        BY <3>3, PatienceIsLong, Constants
           DEF Settled, Counted, Within, Gun, Waited, AtMost
      <4> QED
        BY <1>0, <2>1, <3>4, <4>1, <4>2
    <3> QED
      BY <3>5, <3>6
  <2>3. ASSUME Settled(w, u, 0)
        PROVE  Clocked(w, Waited(w, u)) /\ Served(w, Waited(w, u), 1)
               /\ Served(w, Waited(w, u), 2)
    <3> HIDE DEF u
    <3>1. Clocked(w, Waited(w, u)) /\ Served(w, Waited(w, u), 0 + 1)
      BY <2>3, WaitIsCounted
    <3>2. Waited(w, u).dry \in Nat
      BY <2>3, PatienceIsLong, Constants
         DEF Settled, Counted, Within, Gun, Waited, AtMost
    <3> QED
      BY <1>0, <3>1, <3>2
  <2>4. CASE Kind[w] = "sidearm"
    <3> DEFINE a == AutoReload(w, c)
               r == StartQueued(a)
               s == IF r.reloading THEN CountDown(r) ELSE r
               t == Refill(w, s)
    <3>1. u = IF Automatic[w] THEN FireBullet(w, t) ELSE t
      BY <2>4 DEF UpdateWeapon, UpdateSidearm
    <3>2. Cooled(w, a, 0)
      BY <2>1, <2>4, SidearmAsks
    <3> HIDE DEF a
    <3>3. Counted(w, s, 0)
      BY <3>2, ReloadGoesOn
    <3> HIDE DEF s, u
    <3>4. Settled(w, t, 0)
      BY <2>4, <3>3, RefillFills
    <3> HIDE DEF t
    <3>5. Settled(w, u, 0)
      BY <2>4, <3>1, <3>4, BulletSettles
    <3> QED
      BY <2>1, <2>3, <3>5
  <2>5. CASE Kind[w] = "defender"
    <3>1. u = FireShell(w, LoadShell(w, AutoReload(w, CountDown(c))))
      BY <2>5 DEF UpdateWeapon, UpdateShotgun
    <3> HIDE DEF u, e
    <3>2. Counted(w, CountDown(c), e)
      BY <2>1, <2>5, ShotgunCounts
    <3>3. Counted(w, AutoReload(w, CountDown(c)), 0)
      BY <2>1, <2>5, <3>2, ShotgunAsks
    <3>4. Settled(w, LoadShell(w, AutoReload(w, CountDown(c))), 0)
      BY <2>5, <3>3, ShellFills
    <3>5. Settled(w, u, 0)
      BY <2>5, <3>1, <3>4, ShellSettles
    <3> QED
      BY <2>1, <2>3, <3>5
  <2> QED
    BY <2>2, <2>4, <2>5, Constants
<1> QED
  BY <1>1, <1>2 DEF Gun

(* A gun of which nothing but the history has changed, or the trigger.     *)
LEMMA CommandServes ==
  ASSUME NEW w \in Weapon, NEW g \in Gun(w), Clocked(w, g), NEW idle \in {1, 2},
         Served(w, g, idle)
  PROVE  /\ Clocked(w, SelectWeapon(w, g)) /\ Served(w, SelectWeapon(w, g), idle)
         /\ Clocked(w, Holster(g)) /\ Served(w, Holster(g), idle)
         /\ Clocked(w, OnCeasePrimaryFire(g)) /\ Served(w, OnCeasePrimaryFire(g), idle)
         /\ g.held => Clocked(w, OnPrimaryFire(w, g)) /\ Served(w, OnPrimaryFire(w, g), idle)
<1>0. /\ g.dry \in Nat /\ g.timer \in Nat /\ g.cooldown \in Nat /\ g.mag \in Nat
      /\ g.reloading \in BOOLEAN /\ g.queued \in BOOLEAN
  BY Constants DEF Gun
<1>1. Clocked(w, SelectWeapon(w, g)) /\ Served(w, SelectWeapon(w, g), idle)
  <2> DEFINE cooldown == IF Kind[w] = "defender" THEN g.cooldown ELSE EquipTime[w]
             e == [g EXCEPT !.held = TRUE, !.cooldown = cooldown]
  <2>1. CASE g.held
    BY <2>1 DEF SelectWeapon
  <2>2. CASE ~g.held
    <3>1. SelectWeapon(w, g) = e
      BY <2>2 DEF SelectWeapon, OnEquip, Gun
    <3>2. cooldown \in Nat /\ cooldown <= Rest(w)
      BY <1>0, PatienceIsLong, Constants DEF Clocked
    <3> HIDE DEF cooldown
    <3>3. /\ e.held /\ e.cooldown = cooldown /\ e.timer = g.timer /\ e.dry = g.dry
          /\ e.reloading = g.reloading /\ e.queued = g.queued /\ e.mag = g.mag
      BY DEF Gun
    <3> HIDE DEF e
    <3>4. e.dry = 0 /\ ~e.reloading
      BY <2>2, <3>3 DEF Clocked
    <3>5. Clocked(w, e)
      BY <3>2, <3>3, <3>4 DEF Clocked
    <3>6. e.dry + e.timer + Pause(w, e) <= Patience(w) + 1 /\ e.dry <= Patience(w)
      BY <1>0, <3>2, <3>3, <3>4, PatienceIsLong, Constants DEF Pause, Clocked
    <3> QED
      BY <3>1, <3>4, <3>5, <3>6 DEF Served
  <2> QED
    BY <2>1, <2>2
<1>2. Clocked(w, Holster(g)) /\ Served(w, Holster(g), idle)
  <2> DEFINE h == [g EXCEPT !.held = FALSE, !.trigger = FALSE, !.reloading = FALSE,
                            !.timer = 0, !.asked = FALSE, !.dry = 0]
  <2>1. CASE ~g.held
    BY <2>1 DEF Holster
  <2>2. CASE g.held
    <3>1. Holster(g) = h
      BY <2>2 DEF Holster
    <3>2. /\ h.held = FALSE /\ h.reloading = FALSE /\ h.timer = 0 /\ h.dry = 0
          /\ h.cooldown = g.cooldown /\ h.queued = g.queued /\ h.mag = g.mag
      BY DEF Gun
    <3> HIDE DEF h
    <3>3. Clocked(w, h)
      BY <3>2, Constants DEF Clocked
    <3>4. h.dry + h.timer + Pause(w, h) <= Patience(w) + 1 /\ h.dry <= Patience(w)
      BY <1>0, <3>2, PatienceIsLong, Constants DEF Pause, Clocked
    <3> QED
      BY <3>1, <3>2, <3>3, <3>4 DEF Served
  <2> QED
    BY <2>1, <2>2
<1> DEFINE t == [g EXCEPT !.trigger = TRUE]
           c == [g EXCEPT !.trigger = FALSE]
<1>3. Clocked(w, c) /\ Served(w, c, idle)
  BY DEF Clocked, Served, Pause, HasAmmo, Gun
<1>4. /\ t \in Gun(w) /\ Clocked(w, t) /\ Served(w, t, idle) /\ t.held = g.held
      /\ t.dry \in Nat /\ t.timer \in Nat /\ t.cooldown \in Nat /\ t.mag \in Nat
  <2>1. t \in Gun(w)
    BY DEF Gun
  <2> QED
    BY <1>0, <2>1 DEF Clocked, Served, Pause, HasAmmo, Gun
<1> HIDE DEF t, c
<1>5. ASSUME g.held PROVE Clocked(w, FireIfAble(w, t)) /\ Served(w, FireIfAble(w, t), idle)
  <2>1. CASE ~CanFire(w, t)
    BY <1>4, <2>1 DEF FireIfAble, FireShell, FireBullet
  <2>2. CASE CanFire(w, t)
    <3> DEFINE s == Shoot(w, t)
               r == [s EXCEPT !.reloading = FALSE, !.asked = FALSE, !.dry = 0]
    <3>1. /\ s \in Gun(w)
          /\ s.cooldown = FirePeriod[w] /\ s.timer = t.timer /\ s.queued = t.queued
          /\ s.reloading = t.reloading /\ s.held = t.held /\ s.ammo = t.ammo
          /\ s.dry = 0 \/ (t.mag = 0 /\ s.dry = t.dry)
      BY <1>4, ShotIsCounted
    <3> HIDE DEF s
    <3>2. t.cooldown = 0
      BY <2>2 DEF CanFire
    <3>3. CASE Kind[w] # "defender"
      <4>1. FireIfAble(w, t) = s /\ ~t.reloading
        BY <2>2, <3>3 DEF FireIfAble, FireBullet, CanFire, s
      <4>2. Clocked(w, s)
        BY <1>4, <1>5, <3>1, <4>1, PatienceIsLong, Constants DEF Clocked
      <4>3. s.queued /\ s.mag = 0 => s.dry + s.timer + Pause(w, s) <= Patience(w) + 1
        <5>1. Pause(w, s) = FirePeriod[w] /\ Pause(w, t) = FirePeriod[w]
          BY <3>1, <3>2, Constants DEF Pause
        <5>2. CASE s.dry = 0
          BY <1>4, <3>1, <5>1, <5>2, PatienceIsLong, Constants DEF Clocked
        <5>3. CASE t.mag = 0 /\ s.dry = t.dry
          BY <1>4, <3>1, <5>1, <5>3 DEF Served
        <5> QED BY <3>1, <5>2, <5>3
      <4>4. /\ s.dry <= Patience(w)
            /\ ~HasAmmo(w, s) => s.dry = 0
            /\ ~s.queued => s.dry <= idle
        <5>1. CASE s.dry = 0
          BY <5>1, PatienceIsLong, Constants
        <5>2. CASE t.mag = 0 /\ s.dry = t.dry
          BY <1>4, <3>1, <4>1, <5>2 DEF Served, HasAmmo
        <5> QED BY <3>1, <5>1, <5>2
      <4> QED
        BY <3>1, <4>1, <4>2, <4>3, <4>4 DEF Served
    <3>4. CASE Kind[w] = "defender"
      <4>1. FireIfAble(w, t) = r
        BY <2>2, <3>4 DEF FireIfAble, FireShell, s
      <4>2. /\ r.cooldown = FirePeriod[w] /\ r.timer = t.timer /\ r.queued = t.queued
            /\ r.held = t.held /\ r.reloading = FALSE /\ r.dry = 0
        BY <3>1 DEF Gun
      <4> HIDE DEF r
      <4>3. Clocked(w, r) /\ ~r.queued
        BY <1>4, <3>4, <4>2, PatienceIsLong, Constants DEF Clocked
      <4> QED
        BY <4>1, <4>2, <4>3, PatienceIsLong, Constants DEF Served
    <3> QED
      BY <3>3, <3>4
  <2> QED
    BY <2>1, <2>2
<1> QED
  BY <1>1, <1>2, <1>3, <1>5 DEF OnPrimaryFire, OnCeasePrimaryFire, t, c

(* A reload command ends the wait for one.                                 *)
LEMMA ReloadServes ==
  ASSUME NEW w \in Weapon, NEW g \in Gun(w), Clocked(w, g), Served(w, g, 2)
  PROVE  /\ g.held => Clocked(w, OnReload(w, g)) /\ Served(w, OnReload(w, g), 1)
         /\ ~g.held => Served(w, g, 1)
<1>0. /\ g.dry \in Nat /\ g.timer \in Nat /\ g.cooldown \in Nat
      /\ g.mag \in 0 .. MagazineSize[w]
  BY Constants DEF Gun
<1> DEFINE q == [g EXCEPT !.timer = ReloadTime[w], !.worked = 0, !.asked = TRUE,
                          !.queued = TRUE]
           s == [g EXCEPT !.timer = ReloadTime[w], !.worked = 0, !.asked = TRUE,
                          !.reloading = TRUE]
<1>1. ASSUME ~g.held PROVE Served(w, g, 1)
  BY <1>1 DEF Served, Clocked
<1>2. CASE ~CanReload(w, g)
  <2>1. OnReload(w, g) = g
    BY <1>2 DEF OnReload, QueueReload, StartShells
  <2>2. Served(w, g, 1)
    BY <1>0, <1>2, Constants DEF Served, CanReload
  <2> QED
    BY <1>1, <2>1, <2>2
<1>3. CASE CanReload(w, g)
  <2>1. ~g.queued /\ ~g.reloading
    BY <1>3 DEF CanReload
  <2>2. CASE Kind[w] = "defender"
    <3>1. OnReload(w, g) = s
      BY <1>3, <2>2 DEF OnReload, StartShells, Asked, Gun
    <3>2. /\ s.timer = ReloadTime[w] /\ s.reloading = TRUE /\ s.queued = g.queued
          /\ s.mag = g.mag /\ s.dry = g.dry /\ s.ammo = g.ammo /\ s.cooldown = g.cooldown
          /\ s.held = g.held
      BY DEF Gun
    <3> HIDE DEF s
    <3>3. g.held => Clocked(w, s)
      BY <2>1, <3>2, Constants DEF Clocked
    <3>4. s.mag = 0 => s.dry + s.timer <= Patience(w)
      BY <1>0, <2>1, <3>2, PatienceIsLong, Constants DEF Served
    <3>5. Served(w, s, 1)
      BY <1>0, <2>1, <3>2, <3>4 DEF Served, HasAmmo
    <3> QED
      BY <1>1, <3>1, <3>3, <3>5
  <2>3. CASE Kind[w] # "defender"
    <3>1. OnReload(w, g) = q
      BY <1>3, <2>3 DEF OnReload, QueueReload, Asked, Gun
    <3>2. /\ q.timer = ReloadTime[w] /\ q.reloading = g.reloading /\ q.queued = TRUE
          /\ q.mag = g.mag /\ q.dry = g.dry /\ q.ammo = g.ammo /\ q.cooldown = g.cooldown
          /\ q.held = g.held
      BY DEF Gun
    <3> HIDE DEF q
    <3>3. g.held => Clocked(w, q)
      BY <2>1, <2>3, <3>2, Constants DEF Clocked
    <3>4. q.mag = 0 => q.dry + q.timer + Pause(w, q) <= Patience(w) + 1
      BY <1>0, <2>1, <3>2, PatienceIsLong, Constants DEF Served, Pause, Clocked
    <3>5. Served(w, q, 1)
      BY <1>0, <2>1, <3>2, <3>4 DEF Served, HasAmmo
    <3> QED
      BY <1>1, <3>1, <3>3, <3>5
  <2> QED
    BY <2>2, <2>3
<1> QED
  BY <1>2, <1>3

(* Rounds that are given feed a magazine that is empty, or were not there. *)
LEMMA GiftServes ==
  ASSUME NEW w \in Weapon, NEW g \in Gun(w), Clocked(w, g), NEW idle \in {1, 2},
         Served(w, g, idle), NEW mag \in Nat, NEW ammo \in Nat, NEW given,
         mag = 0 => g.mag = 0 /\ g.ammo <= ammo, Kind[w] # "sidearm"
  PROVE  LET s == [g EXCEPT !.mag = mag, !.ammo = ammo, !.given = given]
         IN Clocked(w, s) /\ Served(w, s, idle)
<1> DEFINE s == [g EXCEPT !.mag = mag, !.ammo = ammo, !.given = given]
<1>1. /\ s.mag = mag /\ s.ammo = ammo /\ s.timer = g.timer /\ s.cooldown = g.cooldown
      /\ s.queued = g.queued /\ s.reloading = g.reloading /\ s.held = g.held
      /\ s.dry = g.dry /\ g.ammo \in Nat
  BY DEF Gun
<1> HIDE DEF s
<1> QED
  BY <1>1 DEF Clocked, Served, HasAmmo, Pause, s

-----------------------------------------------------------------------------
(* The theorems. *)

LEMMA InitFits == Init => Inv
<1> SUFFICES ASSUME Init PROVE Inv
  OBVIOUS
<1>1. PICK carried \in Loadouts : gun = [w \in carried |-> NewGun(w)]
  BY DEF Init
<1>2. ASSUME NEW w \in carried
      PROVE  gun[w] = NewGun(w) /\ Fit(w, NewGun(w))
  <2>1. w \in Weapon
    BY <1>1 DEF Weapon
  <2>2. NewGun(w) \in Gun(w)
    BY <2>1, Constants DEF NewGun, Gun
  <2> QED
    BY <1>1, <2>1, <2>2, Constants
       DEF Fit, Sound, Accounted, Paced, Timed, Prompt, NewGun
<1>3. shields \in 0 .. MaxShields /\ auto \in BOOLEAN
  <2>1. shields = 0 /\ auto = FALSE
    BY DEF Init
  <2>2. shields \in 0 .. MaxShields
    BY <2>1, Bounds
  <2> QED
    BY <2>1, <2>2, Zenon
<1> QED
  BY <1>1, <1>2, <1>3 DEF Inv, TypeOK, Fit, Sound

(* A step that gives every weapon a component that fits.                   *)
LEMMA EveryGunFits ==
  ASSUME Inv, NEW f, gun' = f, f = [w \in DOMAIN gun |-> f[w]],
         \A w \in DOMAIN gun : Fit(w, f[w]),
         shields' \in 0 .. MaxShields, auto' \in BOOLEAN
  PROVE  Inv'
<1>1. DOMAIN gun' = DOMAIN gun
  OBVIOUS
<1> QED
  BY <1>1 DEF Inv, TypeOK, Fit, Sound, Accounted, Paced, Timed, Prompt, Gun

LEMMA OneGunFits ==
  ASSUME Inv, NEW w \in DOMAIN gun, NEW s, Fit(w, s), gun' = [gun EXCEPT ![w] = s],
         shields' \in 0 .. MaxShields, auto' \in BOOLEAN
  PROVE  Inv'
<1> DEFINE f == [v \in DOMAIN gun |-> IF v = w THEN s ELSE gun[v]]
<1>1. gun' = f
  BY DEF Inv, TypeOK
<1>2. \A v \in DOMAIN gun : Fit(v, f[v])
  BY DEF Inv
<1>3. f = [v \in DOMAIN gun |-> f[v]]
  OBVIOUS
<1> HIDE DEF f
<1> QED
  BY <1>1, <1>2, <1>3, EveryGunFits

LEMMA StepFits ==
  ASSUME Inv, [Next]_vars
  PROVE  Inv'
<1> USE DEF Inv
<1>1. /\ \A w \in DOMAIN gun : w \in Weapon /\ Fit(w, gun[w])
      /\ shields \in 0 .. MaxShields /\ auto \in BOOLEAN
  BY DEF TypeOK, Weapon
<1>2. CASE Tick
  <2>1. \A w \in DOMAIN gun : Fit(w, UpdateComponent(w, gun[w]))
    BY <1>1, ComponentIsUpdated
  <2>2. auto' \in BOOLEAN
    BY <1>2 DEF Tick
  <2> QED
    BY <1>1, <1>2, <2>1, <2>2, EveryGunFits DEF Tick
<1>3. CASE AutoReloadCommand \/ Reload
  <2>1. \A w \in DOMAIN gun : Fit(w, IF gun[w].held THEN OnReload(w, gun[w]) ELSE gun[w])
    BY <1>1, ReloadIsAsked DEF Fit
  <2>2. gun' = [w \in DOMAIN gun |-> IF gun[w].held THEN OnReload(w, gun[w]) ELSE gun[w]]
    BY <1>3 DEF AutoReloadCommand, Reload
  <2>3. shields' \in 0 .. MaxShields /\ auto' \in BOOLEAN
    BY <1>1, <1>3 DEF AutoReloadCommand, Reload
  <2> QED
    BY <2>1, <2>2, <2>3, EveryGunFits
<1>4. ASSUME NEW slot \in Range(Slot), Select(slot)
      PROVE  Inv'
  <2>1. \A w \in DOMAIN gun : Fit(w, IF Slot[w] = slot THEN SelectWeapon(w, gun[w])
                                     ELSE Holster(gun[w]))
    BY <1>1, WeaponChanges
  <2> QED
    BY <1>1, <1>4, <2>1, EveryGunFits DEF Select
<1>5. ASSUME NEW pressed \in BOOLEAN, PrimaryFire(pressed)
      PROVE  Inv'
  <2>1. \A w \in DOMAIN gun : Fit(w, IF ~gun[w].held THEN gun[w]
                                     ELSE IF pressed THEN OnPrimaryFire(w, gun[w])
                                     ELSE OnCeasePrimaryFire(gun[w]))
    BY <1>1, TriggerMoves
  <2> QED
    BY <1>1, <1>5, <2>1, EveryGunFits DEF PrimaryFire
<1>6. ASSUME NEW pressed \in BOOLEAN, SpecialAbility(pressed)
      PROVE  Inv'
  <2>1. shields' \in 0 .. MaxShields /\ gun' = gun /\ auto' = auto
    BY <1>1, <1>6, Bounds DEF SpecialAbility
  <2> QED
    BY <1>1, <2>1, EveryGunFits DEF TypeOK
<1>7. ASSUME NEW w \in DOMAIN gun, PickUpAmmo(w)
      PROVE  Inv'
  <2> DEFINE g == gun[w]
             gain == AtMost(g.ammo + Gift, MaxAmmo[w]) - g.ammo
             s == [g EXCEPT !.ammo = @ + gain, !.given = @ + gain]
  <2>2. g \in Gun(w) /\ Fit(w, g) /\ w \in Weapon
    BY <1>1 DEF Fit, Sound
  <2>6. /\ Kind[w] # "sidearm" /\ gain > 0
        /\ gun' = [gun EXCEPT ![w].ammo = @ + gain, ![w].given = @ + gain]
        /\ UNCHANGED <<shields, auto>>
    BY <1>7 DEF PickUpAmmo
  <2>7. gun' = [gun EXCEPT ![w] = s]
    BY <2>6, <2>2 DEF Gun, TypeOK
  <2>8. gain \in Int
    BY <2>2, Constants, Bounds DEF AtMost, Gun
  <2> HIDE DEF gain
  <2>1. /\ Kind[w] # "sidearm" /\ gain > 0 /\ gain \in Int
        /\ gun' = [gun EXCEPT ![w] = s]
        /\ UNCHANGED <<shields, auto>>
    BY <2>6, <2>7, <2>8
  <2>3. /\ g.mag \in 0 .. MagazineSize[w] /\ g.ammo + gain \in Nat /\ gain \in Nat
        /\ g.mag + (g.ammo + gain) = g.mag + g.ammo + gain
    BY <2>1, <2>2, Constants DEF Gun
  <2>4. s = [g EXCEPT !.mag = g.mag, !.ammo = g.ammo + gain, !.given = @ + gain]
    BY <2>2 DEF Gun
  <2>5. Fit(w, s)
    BY <2>1, <2>2, <2>3, <2>4, RoundsAreGiven
  <2> HIDE DEF s
  <2> QED
    BY <1>1, <2>1, <2>5, OneGunFits
<1>8. ASSUME NEW w \in DOMAIN gun, GiveAmmo(w)
      PROVE  Inv'
  <2> DEFINE g == gun[w]
             loaded == AtMost(g.mag + Gift, MagazineSize[w])
             rest == IF loaded > g.mag THEN g.mag + Gift - MagazineSize[w] ELSE Gift
             kept == IF rest > 0 THEN AtMost(g.ammo + rest, MaxAmmo[w]) ELSE g.ammo
             gain == loaded - g.mag + kept - g.ammo
             s == [g EXCEPT !.mag = loaded, !.ammo = kept, !.given = @ + gain]
  <2>1. g \in Gun(w) /\ Fit(w, g) /\ w \in Weapon
    BY <1>1 DEF Fit, Sound
  <2>2. /\ Kind[w] # "sidearm" /\ gain > 0
        /\ gun' = [gun EXCEPT ![w] = s]
        /\ UNCHANGED <<shields, auto>>
    BY <1>8 DEF GiveAmmo
  <2>3. loaded \in 0 .. MagazineSize[w]
    BY <2>1, Constants, Bounds DEF AtMost, Gun
  <2>4. kept \in Nat
    BY <2>1, Constants, Bounds DEF AtMost, Gun
  <2> HIDE DEF loaded, kept
  <2>5. gain \in Nat /\ loaded + kept = g.mag + g.ammo + gain
    BY <2>1, <2>2, <2>3, <2>4, Constants DEF Gun
  <2> HIDE DEF gain
  <2>6. Fit(w, s)
    BY <2>1, <2>2, <2>3, <2>4, <2>5, RoundsAreGiven
  <2> HIDE DEF s
  <2> QED
    BY <1>1, <2>2, <2>6, OneGunFits
<1>9. CASE UNCHANGED vars
  BY <1>1, <1>9, EveryGunFits DEF vars, TypeOK
<1> QED
  BY <1>2, <1>3, <1>4, <1>5, <1>6, <1>7, <1>8, <1>9 DEF Next

THEOREM Invariance == Spec => []Inv
BY InitFits, StepFits, PTL DEF Spec

(* Every reachable state is well-typed.                                    *)
THEOREM TypeCorrect == Spec => []TypeOK
<1>1. Inv => TypeOK
  BY DEF Inv
<1> QED
  BY <1>1, Invariance, PTL

(* Whatever reloads are begun, stopped and cancelled, the rounds of a      *)
(* rifle or a shotgun add up, and no magazine is overfull.                 *)
THEOREM AmmoIsAlwaysAccounted == Spec => []AmmoIsAccounted
<1>1. Inv => AmmoIsAccounted
  BY DEF Inv, Fit, Sound, Accounted, Gun, AmmoIsAccounted
<1> QED
  BY <1>1, Invariance, PTL

(* No weapon fires faster than its rate of fire: FireCooldown outlives the *)
(* holstering, and drawing takes longer than a period.                     *)
THEOREM ShotsAlwaysKeepTheirInterval == Spec => []ShotsKeepTheirInterval
<1>1. Inv => ShotsKeepTheirInterval
  BY DEF Inv, Fit, Sound, Paced, ShotsKeepTheirInterval
<1> QED
  BY <1>1, Invariance, PTL

(* A reload that was asked for takes ReloadTime, and so does every shell.  *)
THEOREM ReloadsAlwaysTakeTheirTime == Spec => []ReloadsTakeTheirTime
<1>1. Inv => ReloadsTakeTheirTime
  BY DEF Inv, Fit, Sound, Timed, ReloadsTakeTheirTime
<1> QED
  BY <1>1, Invariance, PTL

(* On a client no step makes an empty magazine wait longer than it may.    *)
LEMMA StepServes ==
  ASSUME IsClient, Inv, ServedInv, [Next]_vars
  PROVE  ServedInv'
<1>1. /\ \A w \in DOMAIN gun : /\ w \in Weapon /\ gun[w] \in Gun(w)
                               /\ Clocked(w, gun[w]) /\ Served(w, gun[w], Idle(w))
      /\ auto \in BOOLEAN
  BY DEF Inv, TypeOK, Weapon, ServedInv
<1>2. \A w : Idle(w) \in {1, 2}
  BY DEF Idle
<1>3. \A w \in DOMAIN gun : Served(w, gun[w], 2)
  <2> TAKE w \in DOMAIN gun
  <2>1. gun[w].dry \in Nat
    BY <1>1 DEF Gun
  <2> QED
    BY <1>1, <1>2, <2>1 DEF Served
<1>4. CASE Tick
  <2>1. ~auto /\ gun' = [w \in DOMAIN gun |-> UpdateComponent(w, gun[w])]
        /\ auto' = (IsClient /\ \E w \in DOMAIN gun :
                      Kind[w] = "assault" /\ gun[w].held /\ Empty(gun[w]))
    BY <1>4 DEF Tick
  <2>2. ASSUME NEW w \in DOMAIN gun
        PROVE  Clocked(w, gun'[w]) /\ Served(w, gun'[w], Idle(w)')
    <3>1. /\ Clocked(w, gun'[w]) /\ Served(w, gun'[w], 2)
          /\ ~(Kind[w] = "assault" /\ gun[w].held /\ gun[w].mag = 0) => Served(w, gun'[w], 1)
      <4>1. Served(w, gun[w], 1)
        BY <1>1, <2>1 DEF Idle
      <4> QED
        BY <1>1, <2>1, <4>1, ComponentIsServed
    <3>2. CASE Kind[w] = "assault" /\ gun[w].held /\ gun[w].mag = 0
      <4>1. Empty(gun[w])
        BY <3>2 DEF Empty
      <4>2. auto' = TRUE
        BY <2>1, <3>2, <4>1
      <4> QED
        BY <3>1, <3>2, <4>2 DEF Idle
    <3>3. CASE ~(Kind[w] = "assault" /\ gun[w].held /\ gun[w].mag = 0)
      BY <3>1, <3>3 DEF Idle
    <3> QED
      BY <3>2, <3>3
  <2> QED
    BY <2>1, <2>2 DEF ServedInv
<1>5. CASE AutoReloadCommand \/ Reload
  <2>1. gun' = [w \in DOMAIN gun |-> IF gun[w].held THEN OnReload(w, gun[w]) ELSE gun[w]]
    BY <1>5 DEF AutoReloadCommand, Reload
  <2>2. ASSUME NEW w \in DOMAIN gun
        PROVE  Clocked(w, gun'[w]) /\ Served(w, gun'[w], 1) /\ gun'[w].dry \in Nat
    <3>1. gun'[w] \in Gun(w)
      BY <2>1, StepFits DEF Inv, TypeOK
    <3>2. gun'[w].dry \in Nat
      BY <3>1 DEF Gun
    <3> QED
      BY <1>1, <1>3, <2>1, <3>2, ReloadServes
  <2>3. \A w \in DOMAIN gun : Served(w, gun'[w], Idle(w)')
    BY <2>2 DEF Served, Idle
  <2> QED
    BY <2>1, <2>2, <2>3 DEF ServedInv
<1>6. ASSUME auto' = auto, DOMAIN gun' = DOMAIN gun,
             \A w \in DOMAIN gun : Clocked(w, gun'[w]) /\ Served(w, gun'[w], Idle(w))
      PROVE  ServedInv'
  BY <1>6 DEF ServedInv, Idle
<1>7. ASSUME NEW slot \in Range(Slot), Select(slot)
      PROVE  ServedInv'
  <2>1. \A w \in DOMAIN gun :
          /\ Clocked(w, SelectWeapon(w, gun[w])) /\ Served(w, SelectWeapon(w, gun[w]), Idle(w))
          /\ Clocked(w, Holster(gun[w])) /\ Served(w, Holster(gun[w]), Idle(w))
    BY <1>1, <1>2, CommandServes
  <2> QED
    BY <1>6, <1>7, <2>1 DEF Select
<1>8. ASSUME NEW pressed \in BOOLEAN, PrimaryFire(pressed)
      PROVE  ServedInv'
  <2>1. \A w \in DOMAIN gun :
          /\ Clocked(w, OnCeasePrimaryFire(gun[w]))
          /\ Served(w, OnCeasePrimaryFire(gun[w]), Idle(w))
          /\ gun[w].held => /\ Clocked(w, OnPrimaryFire(w, gun[w]))
                            /\ Served(w, OnPrimaryFire(w, gun[w]), Idle(w))
    BY <1>1, <1>2, CommandServes
  <2> QED
    BY <1>1, <1>6, <1>8, <2>1 DEF PrimaryFire
<1>9. ASSUME NEW pressed \in BOOLEAN, SpecialAbility(pressed)
      PROVE  ServedInv'
  BY <1>1, <1>6, <1>9 DEF SpecialAbility
<1>10. ASSUME NEW w \in DOMAIN gun, NEW s, Clocked(w, s), Served(w, s, Idle(w)),
              gun' = [gun EXCEPT ![w] = s], auto' = auto
       PROVE  ServedInv'
  BY <1>1, <1>6, <1>10
<1>11. ASSUME NEW w \in DOMAIN gun, PickUpAmmo(w)
       PROVE  ServedInv'
  <2> DEFINE g == gun[w]
             gain == AtMost(g.ammo + Gift, MaxAmmo[w]) - g.ammo
  <2>1. g \in Gun(w) /\ w \in Weapon /\ g.mag \in Nat /\ g.ammo \in Nat
    BY <1>1, Constants DEF Gun
  <2>2. /\ Kind[w] # "sidearm" /\ gain > 0
        /\ gun' = [gun EXCEPT ![w].ammo = @ + gain, ![w].given = @ + gain]
        /\ UNCHANGED auto
    BY <1>11 DEF PickUpAmmo
  <2>3. gain \in Int
    BY <2>1, Constants, Bounds DEF AtMost
  <2> HIDE DEF gain
  <2> DEFINE s == [g EXCEPT !.mag = g.mag, !.ammo = g.ammo + gain,
                            !.given = g.given + gain]
  <2>4. gun' = [gun EXCEPT ![w] = s]
    BY <2>1, <2>2 DEF Gun, Inv, TypeOK
  <2>5. g.ammo + gain \in Nat /\ g.ammo <= g.ammo + gain
    BY <2>1, <2>2, <2>3
  <2>6. Clocked(w, g) /\ Served(w, g, Idle(w)) /\ Idle(w) \in {1, 2}
    BY <1>1, <1>2
  <2>7. Clocked(w, s) /\ Served(w, s, Idle(w))
    <3> HIDE DEF g
    <3> QED BY <2>1, <2>2, <2>5, <2>6, GiftServes
  <2> HIDE DEF s
  <2> QED
    BY <1>10, <2>2, <2>4, <2>7
<1>12. ASSUME NEW w \in DOMAIN gun, GiveAmmo(w)
       PROVE  ServedInv'
  <2> DEFINE g == gun[w]
             loaded == AtMost(g.mag + Gift, MagazineSize[w])
             rest == IF loaded > g.mag THEN g.mag + Gift - MagazineSize[w] ELSE Gift
             kept == IF rest > 0 THEN AtMost(g.ammo + rest, MaxAmmo[w]) ELSE g.ammo
             gain == loaded - g.mag + kept - g.ammo
  <2>1. g \in Gun(w) /\ w \in Weapon /\ g.mag \in 0 .. MagazineSize[w] /\ g.ammo \in Nat
    BY <1>1 DEF Gun
  <2>2. /\ Kind[w] # "sidearm" /\ gain > 0
        /\ gun' = [gun EXCEPT ![w].mag = loaded, ![w].ammo = kept, ![w].given = @ + gain]
        /\ UNCHANGED auto
    BY <1>12 DEF GiveAmmo
  <2>3. loaded \in Nat /\ kept \in Nat
    BY <2>1, Constants, Bounds DEF AtMost
  <2>4. loaded # 0
    <3>1. CASE Gift = 0
      <4>1. loaded = g.mag
        BY <2>1, <3>1, Constants DEF AtMost
      <4>2. kept = g.ammo
        BY <2>1, <3>1, <4>1
      <4> QED
        BY <2>1, <2>2, <4>1, <4>2
    <3>2. CASE Gift # 0
      BY <2>1, <3>2, Constants, Bounds DEF AtMost
    <3> QED BY <3>1, <3>2
  <2> HIDE DEF loaded, kept, gain
  <2> DEFINE s == [g EXCEPT !.mag = loaded, !.ammo = kept, !.given = g.given + gain]
  <2>5. gun' = [gun EXCEPT ![w] = s]
    BY <2>1, <2>2 DEF Gun, Inv, TypeOK
  <2>6. Clocked(w, g) /\ Served(w, g, Idle(w)) /\ Idle(w) \in {1, 2}
    BY <1>1, <1>2
  <2>7. Clocked(w, s) /\ Served(w, s, Idle(w))
    <3> HIDE DEF g
    <3> QED BY <2>1, <2>2, <2>3, <2>4, <2>6, GiftServes
  <2> HIDE DEF s
  <2> QED
    BY <1>10, <2>2, <2>5, <2>7
<1>13. CASE UNCHANGED vars
  BY <1>1, <1>6, <1>13 DEF vars
<1> QED
  BY <1>4, <1>5, <1>7, <1>8, <1>9, <1>11, <1>12, <1>13 DEF Next

(* On a client an empty magazine is refilled in the time the longest       *)
(* cooldown and a reload take, whatever is commanded meanwhile; a          *)
(* dedicated server waits for the client's command instead.                *)
THEOREM EmptyMagazinesAreAlwaysRefilled ==
  ASSUME IsClient
  PROVE  Spec => []EmptyMagazinesAreRefilled
<1>1. Init => ServedInv
  <2> SUFFICES ASSUME Init, NEW w \in DOMAIN gun
               PROVE  Clocked(w, gun[w]) /\ Served(w, gun[w], Idle(w))
    BY DEF ServedInv
  <2>1. w \in Weapon /\ gun[w] = NewGun(w)
    BY DEF Init, Weapon
  <2> QED
    BY <2>1, PatienceIsLong, Constants DEF NewGun, Clocked, Served
<1>2. Inv /\ ServedInv /\ [Next]_vars => ServedInv'
  BY StepServes
<1>3. ServedInv => EmptyMagazinesAreRefilled
  BY DEF ServedInv, Served, EmptyMagazinesAreRefilled
<1> QED
  BY <1>1, <1>2, <1>3, Invariance, PTL DEF Spec

=============================================================================
