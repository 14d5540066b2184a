CONSTANTS
  Key = {"W", "S", "D", "Shift", "Mouse4"}
  Binding <- MCBinding
  CoolDownMaxTimer = 3
  DoubleTapSensitivity = 2
  DoubleTapToDash = TRUE
  MaxChanges = 2
  MaxKeysDown = 2
SPECIFICATION Spec
INVARIANT MotionNeedsKeys
