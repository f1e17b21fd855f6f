SPECIFICATION Spec
CONSTANTS
    UnitType <- MCUnitType
    NoType = "Nothing"
    UnitTypeData <- MCUnitTypeData
    TechLine <- MCTechLine
    TownHallSupply = 3
    DepotSupply = 1
    Tag <- MCTag
    Mishaps <- NoMishap
    MaxMishaps = 0
    Targets <- MCUnitType
    MaxMinerals = 2
    MaxVespene = 0
    PlanningAhead = 1
    SupplyLimit = 6
    ReaperBatch = 2
    WorkersPerTownHall = 2
    WorkersPerRefinery = 0
    MaximumWorkers = 4
    Opening <- OpeningHall
    StartWorkers = 2
    StartMinerals = 1
INVARIANTS
    WorkersBounded
