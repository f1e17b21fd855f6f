SPECIFICATION FairSpec
CONSTANTS
    Reaper <- MCReaper
INVARIANTS
    TypeOK
PROPERTIES
    FightsWhenNear
    RetreatStands
    MarchesOn
