SPECIFICATION ReplicaSpec
CONSTANT MaxEntities = 5
INVARIANTS
  CopiesAreExplained
  PlayerIsFollowed
PROPERTY CopiesStay
CHECK_DEADLOCK FALSE
