SPECIFICATION Spec
CONSTANTS
    w1 = w1
    w2 = w2
    w3 = w3
    Expansion <- MCExpansion
    Worker <- MCWorker
    MineralIdeal = 1
    GasIdeal = 2
    ReqImbalance = 2
    StartWorkers <- MCStart
    Stranding = TRUE
    MaxMishaps = 1
SYMMETRY Interchangeable
INVARIANTS
    MineMayBeCalled
