SPECIFICATION PartSpec
CONSTANTS
    NoNode = NoNode
    Tree <- MCTree
    Duration <- MCDuration
    Orders <- MCOrders
    MaxCommands = 3
    MaxLives = 2
    MaxPresses = 1
    MaxSounds = 3
    MaxEvents = 2
    SoundsWithMusic = 1
    EventsWithMusic = 3
    None = None
INVARIANTS
    CopiesAgree
    PosesAreComputed
    OnlyCurrentMusicPlays
PROPERTIES
    BlendsEndAsAsked
    SoundsAreFreed
