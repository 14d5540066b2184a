CONSTANTS
  NumSlots = 4
  Outside = {x, y, z}
  DisableMemoryPool = FALSE
SPECIFICATION Spec
SYMMETRY OutsideSymmetry
INVARIANT LoopsAreComplete
PROPERTY ImplementsStore
