----------------------------- MODULE MCWeapons ------------------------------
(* Two classes of players: rifle and sidearm, shotgun and sidearm.          *)
EXTENDS Weapons, TLC

CONSTANTS rifle, shotgun, sidearm

ClassLoadouts == {{rifle, sidearm}, {shotgun, sidearm}}

KindOf == rifle :> "assault" @@ shotgun :> "defender" @@ sidearm :> "sidearm"
SlotOf == rifle :> 1 @@ shotgun :> 1 @@ sidearm :> 2
SizeOf == rifle :> 2 @@ shotgun :> 2 @@ sidearm :> 1
AmmoOf == rifle :> 3 @@ shotgun :> 3 @@ sidearm :> 0
PeriodOf == rifle :> 1 @@ shotgun :> 2 @@ sidearm :> 2
ReloadOf == rifle :> 3 @@ shotgun :> 2 @@ sidearm :> 2
EquipOf == rifle :> 2 @@ shotgun :> 0 @@ sidearm :> 2
AutomaticOf == rifle :> TRUE @@ shotgun :> TRUE @@ sidearm :> FALSE
=============================================================================
