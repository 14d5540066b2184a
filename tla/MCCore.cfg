SPECIFICATION CoreSpec
CONSTANTS
  Context <- MCContext
  Relay <- MCRelay
  EventType = {"KeyDown", "InputCommand", "LockMouse"}
  DeviceEvents = {"KeyDown"}
  CommandEvents = {"InputCommand"}
  ContextOf <- MCContextOf
  TypeOf <- MCTypeOf
  MaxEvents = 3
  InputManager = "InputManager"
  InputProxy = "InputProxy"
  Network = "Network"
  SystemContexts <- MCSystemContexts
  InitialRelays <- MCInitialRelays
  model = model
  raptor = raptor
  rawModel = rawModel
  rawRaptor = rawRaptor
  texture = texture
  sprite = sprite
  png = png
  white = white
  Resource <- MCResource
  Unsafe <- MCUnsafe
  Needs <- MCNeeds
  Frees <- MCFrees
  Wanted <- MCWanted
  InsteadOf <- MCInsteadOf
  Preloaded <- MCPreloaded
  Faults <- MCFaults
  Workers = {1, 2, 3}
INVARIANTS
  OnlyInputIsReadInItsTick
  HeldIsAlive
PROPERTIES
  ImplementsBus
  NothingIsForgotten
  ShownIsLoaded
