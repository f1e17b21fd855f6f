SPECIFICATION Spec
CONSTANTS
    UnitType <- MCUnitType
    NoType = "Nothing"
    UnitTypeData <- MCUnitTypeData
    TechLine <- MCTechLine
    TownHallSupply = 2
    DepotSupply = 2
    Tag <- MCTag
    Mishaps <- Razing
    MaxMishaps = 2
    Targets <- MCUnitType
    MaxMinerals = 2
    MaxVespene = 1
    PlanningAhead = 1
    SupplyLimit = 4
    ReaperBatch = 2
    WorkersPerTownHall = 2
    WorkersPerRefinery = 0
    MaximumWorkers = 2
    Opening <- OpeningBarracks
    StartWorkers = 1
    StartMinerals = 1
INVARIANTS
    NoDeadlockInQueue
