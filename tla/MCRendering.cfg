SPECIFICATION PartSpec
CONSTANTS
    Size = 8
    SubDivisions = 2
    Reach = 3
    MaxObjects = 2
    Boxes <- MCBoxes
    Rays <- MCRays
    Frusta <- MCFrusta
    Models = {1, 2}
    Skinned = {2}
    NrOfSplits = 2
    Settings <- MCSettings
    Sizes = {1, 2}
    Levels = {0, 1, 2}
    Qualities = {0, 1, 2}
    Entity <- MCEntity
    Parent <- MCParent
    Has <- MCHas
    Team <- MCTeam
    Groups <- MCGroups
    Glass <- MCGlass
    Late = {3}
    Widgets <- MCWidgets
    Limit = 2
    MaxEntityChanges = 2
    None = None
INVARIANTS
    NothingIsPassedOver
    DrawingIsSound
    LooksTheSame
    TargetsAreKept
    PickedAsDrawn
PROPERTIES
    TheSolidAreHit
    ClicksAreMeant
