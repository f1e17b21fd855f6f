SPECIFICATION Spec
CONSTANTS
    Expansion = {"start", "natural"}
    Tiles <- MCTiles
    Site <- MCSite
    Start = "start"
    Size <- MCSize
    AddonSize = 2
    Margin = 2
    Limit <- MCLimit
CHECK_DEADLOCK FALSE
INVARIANTS
    TypeOK
    GroundsDisjoint
    GapsKept
