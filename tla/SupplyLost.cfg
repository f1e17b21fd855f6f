SPECIFICATION FairSpec
CONSTANTS
    UnitType <- MCUnitType
    NoType = "Nothing"
    UnitTypeData <- MCUnitTypeData
    TechLine <- MCTechLine
    TownHallSupply = 2
    DepotSupply = 1
    Tag <- MCTag
    Mishaps <- LosingAndRazing
    MaxMishaps = 2
    Targets <- DepotOnly
    MaxMinerals = 1
    MaxVespene = 1
    PlanningAhead = 0
    SupplyLimit = 4
    ReaperBatch = 2
    WorkersPerTownHall = 3
    WorkersPerRefinery = 0
    MaximumWorkers = 3
    Opening <- OpeningDepot
    StartWorkers = 1
    StartMinerals = 1
PROPERTIES
    SuppliesRebuilt
