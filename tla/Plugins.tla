------------------------------- MODULE Plugins -------------------------------
(***************************************************************************)
(* The plugins that fill Builder's queues (src/plugins, src/strategies):   *)
(* Miner asks for workers, QuarterMaster for supply, RepairMan for what    *)
(* was destroyed, ReaperRush for reapers and their reactors.               *)
(***************************************************************************)
EXTENDS Builder, FiniteSetsExt

CONSTANTS
    PlanningAhead,       \* m_planningAhead: supply to have in reserve
    SupplyLimit,         \* 200 in the source
    ReaperBatch,         \* 5 in the source
    WorkersPerTownHall,  \* ceil(1.5 * ideal_harvesters) of a town hall
    WorkersPerRefinery,  \* ideal_harvesters of a refinery
    MaximumWorkers       \* m_maximumWorkers

ASSUME PluginAssumption ==
    /\ {PlanningAhead, SupplyLimit, WorkersPerTownHall, WorkersPerRefinery,
        MaximumWorkers} \subseteq Nat
    /\ ReaperBatch \in Nat \ {0}

VARIABLES
    m_skip_turn,     \* QuarterMaster: a depot was asked for and has not begun
    m_reapersBuilt   \* ReaperRush: only the remainder by ReaperBatch is read

pluginVars == <<m_skip_turn, m_reapersBuilt>>

(***************************************************************************)
(* Miner                                                                   *)
(***************************************************************************)
TownHalls == {u \in listed : IsTownHall(view[u].type)}
Refineries == {u \in listed : view[u].type = "Refinery" /\ view[u].built}

(* The game reports ideal_harvesters only for a finished town hall. *)
OptimalWorkers ==
    LET wanted == WorkersPerTownHall * Cardinality(OneOf({"CommandCenter",
                       "OrbitalCommand", "PlanetaryFortress"}))
                  + WorkersPerRefinery * Cardinality(Refineries)
    IN  IF wanted < MaximumWorkers THEN wanted ELSE MaximumWorkers

(* Mutant: queued workers are not counted.                                  *)
NeedsWorkerOrderAnyway(u) == view[u].built /\ IsIdle(u)

NeedsWorkerOrder(u) == /\ view[u].built /\ IsIdle(u)
                       /\ CountScheduledTrainings("SCV") = 0

(* SecureMineralsIncome: one order for every idle town hall, unless one is  *)
(* queued already; town halls are visited, in whatever order they are       *)
(* listed, until the count of workers, which goes up with each visit, is    *)
(* optimal.  Up to one worker per refinery is inside it and not listed.     *)
SecureMineralsIncome ==
    \E inside \in 0 .. Cardinality(Refineries), visited \in SUBSET TownHalls :
       LET lacking == OptimalWorkers - (workers + inside)
       IN  /\ IF lacking <= 0 THEN visited = {}
              ELSE IF lacking >= Cardinality(TownHalls) THEN visited = TownHalls
              ELSE Cardinality(visited) = lacking
           /\ \E halls \in SetToSeqs({u \in visited : NeedsWorkerOrder(u)}) :
                 trainings' = trainings \o
                    [i \in DOMAIN halls |-> [type |-> "SCV", assignee |-> halls[i]]]

(***************************************************************************)
(* QuarterMaster                                                           *)
(***************************************************************************)
ExpectedConsumption ==
    foodUsed + PlanningAhead
    + MapThenSumSet(LAMBDA i : Food(trainings[i].type), DOMAIN trainings)

ExpectedSupply ==
    MapThenSumSet(LAMBDA u : UnitSupply(view[u].type), listed)
    + MapThenSumSet(LAMBDA i : OrderSupply(constructions[i]), DOMAIN constructions)

SupplyShort == /\ ExpectedSupply <= ExpectedConsumption
               /\ ExpectedSupply < SupplyLimit

RequestSupplies ==
    IF m_skip_turn \/ ~SupplyShort
    THEN UNCHANGED <<constructions, m_skip_turn>>
    ELSE /\ m_skip_turn' = TRUE
         /\ ScheduleConstruction("SupplyDepot", TRUE, Standing)

(* Mutants: any structure counts as the depot; only a finished depot does.  *)
QuarterMasterOnAnyCreated(u) == m_skip_turn' = (u \notin Tag)
QuarterMasterOnUnitFinished(u) ==
    m_skip_turn' = IF units[u].type = "SupplyDepot" /\ units[u].built
                   THEN FALSE ELSE m_skip_turn

QuarterMasterOnUnitCreated(u) ==
    m_skip_turn' = IF units[u].type = "SupplyDepot" THEN FALSE ELSE m_skip_turn

(***************************************************************************)
(* RepairMan: what was finished is ordered again, except supply, which is  *)
(* QuarterMaster's.                                                        *)
(***************************************************************************)
(* Mutant: nothing is ordered while the listing still shows one.            *)
RepairManOnLastDestroyed(u) ==
    IF /\ view[u].built /\ view[u].type # "SupplyDepot"
       /\ view[u].type \notin Standing
    THEN ScheduleConstruction(view[u].type, TRUE, Standing')
    ELSE UNCHANGED constructions

RepairManOnUnitDestroyed(u) ==
    IF view[u].built /\ view[u].type # "SupplyDepot"
    THEN ScheduleConstruction(view[u].type, TRUE, Standing')
    ELSE UNCHANGED constructions

(***************************************************************************)
(* ReaperRush: an idle barracks gets reapers, and now and then a reactor.  *)
(***************************************************************************)
ReaperRushOnUnitIdle(u) ==
    LET reaper == [type |-> "Reaper", assignee |-> u]
    IN  IF view[u]'.type # "Barracks"
        THEN UNCHANGED queueVars
        ELSE /\ IF m_reapersBuilt % ReaperBatch = 0 /\ ~HasReactor(u)'
                THEN ScheduleConstruction("BarracksReactor", TRUE, Standing')
                ELSE UNCHANGED constructions
             /\ trainings' = trainings \o (IF HasReactor(u)'
                                           THEN <<reaper, reaper>>
                                           ELSE <<reaper>>)

ReaperRushOnUnitCreated ==
    m_reapersBuilt' = (m_reapersBuilt + 1) % ReaperBatch
=============================================================================
