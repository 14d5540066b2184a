SPECIFICATION Spec
CONSTANTS
  rifle = rifle
  shotgun = shotgun
  sidearm = sidearm
  Loadouts <- ClassLoadouts
  Kind <- KindOf
  Slot <- SlotOf
  MagazineSize <- SizeOf
  MaxAmmo <- AmmoOf
  FirePeriod <- PeriodOf
  ReloadTime <- ReloadOf
  EquipTime <- EquipOf
  Automatic <- AutomaticOf
  Gift = 2
  MaxGiven = 2
  MaxShields = 2
  IsClient = TRUE
  IsServer = TRUE
INVARIANTS
  AmmoIsAccounted
  EmptyMagazinesAreRefilled
CHECK_DEADLOCK FALSE
