SPECIFICATION Spec
CONSTANTS
    UnitType <- MCUnitType
    NoType = "Nothing"
    UnitTypeData <- MCUnitTypeData
    TechLine <- MCTechLine
    TownHallSupply = 2
    DepotSupply = 1
    Tag <- MoreTags
    Mishaps <- Disorder
    MaxMishaps = 1
    Targets <- MCUnitType
    MaxMinerals = 1
    MaxVespene = 1
    PlanningAhead = 1
    SupplyLimit = 4
    ReaperBatch = 2
    WorkersPerTownHall = 2
    WorkersPerRefinery = 0
    MaximumWorkers = 2
    Opening <- OpeningDepotFirst
    StartWorkers = 2
    StartMinerals = 1
INVARIANTS
    RequestsAnswered
    NoForgottenBarracks
    CommandsWithinBudget
