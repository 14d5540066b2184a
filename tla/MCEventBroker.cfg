CONSTANTS
  Context = {"System", "Sound"}
  Relay <- MCRelay
  EventType = {"PlayerDamage", "PlayerDeath"}
  ContextOf <- MCContextOf
  TypeOf <- MCTypeOf
  MaxEvents = 2
SPECIFICATION Spec
INVARIANTS TypeOK DeliveryIsConsistent
PROPERTIES IterationIsUndisturbed
