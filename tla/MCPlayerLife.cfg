SPECIFICATION PartSpec
CONSTANTS
  Player = {p1, p2}
  SpawnerTeam = {"Red"}
  MaxHealth = 2
  Damage = {1}
  HealAmount = 1
  MaxRespawnTime = 2
  MaxCommands = 2
  MaxHits = 3
  MaxMessages = 4
  PickupPlayer = {p1, p2}
  MaxLevel = 2
  RespawnTimer = 1
  MaxListed = 2
  MaxResets = 1
INVARIANTS
  SessionAgreesWithSpawns
  DiesForASpawnOnce
  PickupsAreConserved
  TheNeedyAreServed
PROPERTIES
  EveryoneIsSpawned
  NobodyTakesFromAfar
CHECK_DEADLOCK FALSE
