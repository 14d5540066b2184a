SPECIFICATION ServerSpec
CONSTANTS
  ComponentType = {"Model"}
  MaxEntities = 4
  MaxComponents = 2
  TemplateParent <- MCTemplateParent
  TemplateComponents <- MCTemplateComponents
  MaxSessions = 2
  MaxCommands = 1
  PingPeriod = 2
  Timeout = 3
  Half = 6
  Garbage = {0, 4}
INVARIANTS
  TreeIsConsistent
  StraysAreExplained
  TimeOutsAreEarned
  TheSilentAreRemoved
  ServerOutlivesWhoStays
CHECK_DEADLOCK FALSE
