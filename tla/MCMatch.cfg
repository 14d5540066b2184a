CONSTANTS
  NumPoints = 3
  PoolOrder <- BackFirst
  First = "Red"
  Player = {"red", "blue"}
  TeamOf <- MCTeamOf
  MaxTimer = 1
  DeltaTimes = {1, 2}
  ResetCountdown = 1
SPECIFICATION Spec
INVARIANT TerritoryIsContiguous
PROPERTIES SiegesSucceed LostHomesEndTheMatch
