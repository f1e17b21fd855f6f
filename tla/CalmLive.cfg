SPECIFICATION FairSpec
CONSTANTS
    UnitType <- MCUnitType
    NoType = "Nothing"
    UnitTypeData <- MCUnitTypeData
    TechLine <- MCTechLine
    TownHallSupply = 2
    DepotSupply = 1
    Tag <- MCTag
    Mishaps <- NoMishap
    MaxMishaps = 0
    Targets <- MCUnitType
    MaxMinerals = 2
    MaxVespene = 1
    PlanningAhead = 1
    SupplyLimit = 3
    ReaperBatch = 2
    WorkersPerTownHall = 3
    WorkersPerRefinery = 0
    MaximumWorkers = 3
    Opening <- OpeningBarracks
    StartWorkers = 2
    StartMinerals = 1
INVARIANTS
    TypeOK
    RequirementAhead
PROPERTIES
    OpeningCompleted
    SupplyRequestAnswered
