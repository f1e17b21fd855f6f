----------------------------- MODULE Dispatcher -----------------------------
(***************************************************************************)
(* Dispatcher (src/Dispatcher.cpp) under the client's coordinator: the     *)
(* loop that puts the game, the events, the plugins and Builder together.  *)
(*                                                                         *)
(*   game -> (observation) events -> Interface::OnStep -> Miner            *)
(*        -> QuarterMaster -> Builder -> SendActions -> game               *)
(*                                                                         *)
(* The game only moves in phase "game": the coordinator steps it and waits *)
(* (StepAgents), then runs the bot, then sends what the bot has commanded. *)
(***************************************************************************)
EXTENDS Plugins

CONSTANTS
    Opening,        \* what ReaperRush::OnGameStart schedules, in order
    StartWorkers,   \* SCVs the game begins with
    StartMinerals

ASSUME DispatcherAssumption ==
    /\ Opening \in Seq(UnitType)
    /\ 1 \in Tag
    /\ StartWorkers \in Nat
    /\ StartMinerals \in Nat

VARIABLE phase

vars == <<gameVars, obsVars, builderVars, pluginVars, phase>>
botVars == <<obsVars, builderVars, pluginVars, phase>>

Phases == {"opening", "game", "events", "miner", "quartermaster", "construct",
           "train"}

Init ==
    /\ units = [u \in Tag |-> IF u = 1
                              THEN [Site("CommandCenter") EXCEPT !.built = TRUE]
                              ELSE Vacant]
    /\ minerals = StartMinerals /\ vespene = 0
    /\ foodCap = TownHallSupply
    /\ foodUsed = StartWorkers * Food("SCV")
    /\ workers = StartWorkers /\ reapers = 0
    /\ commands = <<>>
    /\ travelling = [t \in UnitType |-> 0]
    /\ mishaps = 0
    /\ view = units /\ listed = Existing
    /\ commanded = {} /\ events = NoEvents
    /\ constructions = <<>> /\ trainings = <<>>
    /\ m_minerals = 0 /\ m_vespene = 0 /\ m_available_food = 0
    /\ cursor = 1
    /\ m_skip_turn = FALSE /\ m_reapersBuilt = 0
    /\ phase = "opening"

(* OnGameStart: ReaperRush schedules its opening, one order at a time. *)
ScheduleOpening ==
    /\ phase = "opening"
    /\ UNCHANGED <<gameVars, obsVars, trainings, budgetVars, pluginVars>>
    /\ IF cursor \in DOMAIN Opening
       THEN /\ ScheduleConstruction(Opening[cursor], FALSE, Standing)
            /\ cursor' = cursor + 1
            /\ UNCHANGED phase
       ELSE cursor' = 1 /\ phase' = "game" /\ UNCHANGED constructions

(***************************************************************************)
(* The game moves.  Nothing is built or trained within a single step.      *)
(***************************************************************************)
HandleCommand == phase = "game" /\ (SetOut \/ Obey \/ Refuse) /\ UNCHANGED botVars
LayStructure(t) == phase = "game" /\ Lay(t) /\ UNCHANGED botVars
LoseStructure(t) == phase = "game" /\ FailToLay(t) /\ UNCHANGED botVars
Earn == phase = "game" /\ Income /\ UNCHANGED botVars
CompleteStructure(u) ==
    phase = "game" /\ u \in listed /\ Complete(u) /\ UNCHANGED botVars
FinishOrder(u, i) ==
    /\ phase = "game" /\ u \in listed /\ i \in DOMAIN view[u].orders
    /\ Finish(u, i) /\ UNCHANGED botVars
RazeStructure(u) ==
    /\ phase = "game"
    /\ Raze(u, IF view[u].built THEN "razed" ELSE "unfinished")
    /\ UNCHANGED botVars

(* The step is over: the client takes an observation and finds the events. *)
Observe ==
    /\ phase = "game" /\ commands = <<>>
    /\ events' = NewEvents
    /\ reapers' = 0
    /\ phase' = "events"
    /\ UNCHANGED <<units, bankVars, foodCap, foodUsed, workers, commands,
                   travelling, mishaps, view, listed, commanded, builderVars,
                   pluginVars>>

(***************************************************************************)
(* Event handlers.                                                         *)
(***************************************************************************)
OnUnitDestroyed(u) ==
    /\ phase = "events" /\ u \in events.destroyed
    /\ events' = [events EXCEPT !.destroyed = @ \ {u}]
    /\ Refresh(u) /\ UNCHANGED <<listed, commanded>>
    /\ RepairManOnUnitDestroyed(u)
    /\ UNCHANGED <<gameVars, trainings, budgetVars, cursor, pluginVars, phase>>

OnUnitCreated(u) ==
    /\ phase = "events" /\ events.destroyed = {} /\ u \in events.created
    /\ events' = [events EXCEPT !.created = @ \ {u}]
    /\ Refresh(u) /\ UNCHANGED <<listed, commanded>>
    /\ QuarterMasterOnUnitCreated(u)
    /\ UNCHANGED <<gameVars, builderVars, m_reapersBuilt, phase>>

OnReaperCreated ==
    /\ phase = "events" /\ events.destroyed = {} /\ events.born > 0
    /\ events' = [events EXCEPT !.born = @ - 1]
    /\ ReaperRushOnUnitCreated
    /\ UNCHANGED <<gameVars, view, listed, commanded, builderVars, m_skip_turn,
                   phase>>

OnUnitIdle(u) ==
    /\ phase = "events" /\ u \in events.idle
    /\ events.destroyed = {} /\ events.created = {} /\ events.born = 0
    /\ events' = [events EXCEPT !.idle = @ \ {u}]
    /\ Refresh(u) /\ UNCHANGED <<listed, commanded>>
    /\ ReaperRushOnUnitIdle(u)
    /\ UNCHANGED <<gameVars, budgetVars, cursor, pluginVars, phase>>

(***************************************************************************)
(* Dispatcher::OnStep                                                      *)
(***************************************************************************)
ApiOnStep ==
    /\ phase = "events" /\ events = NoEvents
    /\ RefreshAll
    /\ phase' = "miner"
    /\ UNCHANGED <<gameVars, commanded, events, builderVars, pluginVars>>

MinerOnStep ==
    /\ phase = "miner"
    /\ SecureMineralsIncome
    /\ phase' = "quartermaster"
    /\ UNCHANGED <<gameVars, obsVars, constructions, budgetVars, cursor,
                   pluginVars>>

QuarterMasterOnStep ==
    /\ phase = "quartermaster"
    /\ UNCHANGED <<gameVars, obsVars, trainings, budgetVars, cursor,
                   m_reapersBuilt>>
    /\ RequestSupplies
    /\ phase' = "construct"

BuilderOnStep ==
    /\ phase = "construct"
    /\ BuildHead \/ HeadWaits
    /\ phase' = "train" /\ cursor' = 1
    /\ UNCHANGED <<units, bankVars, foodCap, popVars, travelling, obsVars,
                   trainings, pluginVars>>

TrainNext ==
    /\ phase = "train"
    /\ BuildTraining
    /\ UNCHANGED <<units, bankVars, foodCap, popVars, travelling, mishaps,
                   obsVars, pluginVars, phase>>

(* The loop is over, the client sends the commands and notes whom they      *)
(* were for.                                                                *)
SendActions ==
    /\ phase = "train" /\ cursor \notin DOMAIN trainings
    /\ commanded' = {commands[i].unit : i \in DOMAIN commands} \ {NullTag}
    /\ phase' = "game" /\ cursor' = 1
    /\ UNCHANGED <<gameVars, view, listed, events, queueVars, budgetVars,
                   pluginVars>>

BotStep ==
    \/ ScheduleOpening
    \/ \E u \in Tag : OnUnitDestroyed(u) \/ OnUnitCreated(u) \/ OnUnitIdle(u)
    \/ OnReaperCreated
    \/ ApiOnStep \/ MinerOnStep \/ QuarterMasterOnStep
    \/ BuilderOnStep \/ TrainNext \/ SendActions

GameStep ==
    \/ HandleCommand \/ Earn \/ Observe
    \/ \E t \in UnitType : LayStructure(t) \/ LoseStructure(t)
    \/ \E u \in Tag : CompleteStructure(u) \/ RazeStructure(u)
    \/ \E u \in Tag, i \in 1 .. 2 : FinishOrder(u, i)

Next == BotStep \/ GameStep

Spec == Init /\ [][Next]_vars

(***************************************************************************)
(* The coordinator's loop never stops, and the game never does: the bank   *)
(* fills up to its bound, an SCV that can pay builds, what is begun is     *)
(* finished.  The game stands still while the bot thinks, so its actions   *)
(* are enabled off and on; []<><<P => A>> says that P does not stay true   *)
(* for ever, over all these pauses, without A being taken.  Of mishaps     *)
(* nothing is assumed.                                                     *)
(***************************************************************************)
Fairness ==
    /\ WF_vars(BotStep) /\ WF_vars(HandleCommand) /\ WF_vars(Observe)
    /\ []<><<minerals < MaxMinerals => Earn /\ minerals' > minerals>>_vars
    /\ []<><<vespene < MaxVespene => Earn /\ vespene' > vespene>>_vars
    /\ \A t \in UnitType :
          []<><<travelling[t] > 0 /\ CanPay(t) /\ VacantTags # {}
                => LayStructure(t)>>_vars
    /\ \A u \in Tag :
          /\ []<><<units[u].alive /\ ~units[u].built
                   => CompleteStructure(u)>>_vars
          /\ []<><</\ units[u].alive /\ units[u].orders # <<>>
                   /\ Plot(units[u].orders[1]) # "Addon"
                   => FinishOrder(u, 1)>>_vars

FairSpec == Spec /\ Fairness

(***************************************************************************)
(* Properties.                                                             *)
(***************************************************************************)
(* Every variable has its type.  For m_minerals and m_vespene, which are    *)
(* unsigned in Builder.h, this says that no order takes more than is left.  *)
TypeOK ==
    /\ units \in [Tag -> Structure] /\ view \in [Tag -> Structure]
    /\ minerals \in Nat /\ vespene \in Nat
    /\ foodCap \in Int /\ foodUsed \in Int
    /\ workers \in Nat /\ reapers \in Nat /\ mishaps \in 0 .. MaxMishaps
    /\ commands \in Seq(Command)
    /\ travelling \in [UnitType -> Nat]
    /\ listed \subseteq Tag /\ commanded \subseteq Tag
    /\ events \in EventRecord
    /\ constructions \in Seq(UnitType) /\ trainings \in Seq(TrainingOrder)
    /\ m_minerals \in Nat /\ m_vespene \in Nat /\ m_available_food \in Int
    /\ cursor \in Nat \ {0}
    /\ m_skip_turn \in BOOLEAN /\ m_reapersBuilt \in 0 .. ReaperBatch - 1
    /\ phase \in Phases

(* A structure that counts as t stands or is being built, or a command for  *)
(* one is with the game or with an SCV on its way.                          *)
Coming(t) ==
    \/ \E u \in Tag : units[u].alive /\ units[u].type \in Satisfying(t)
    \/ \E i \in DOMAIN commands : commands[i].type = t
    \/ travelling[t] > 0

(* As long as nothing is destroyed or lost, the tech requirement of every   *)
(* queued construction is coming or queued ahead of it: the head of the     *)
(* queue, the only order Builder::OnStep tries, can always go ahead one     *)
(* day.                                                                     *)
RequirementAhead ==
    \A i \in DOMAIN constructions :
       LET r == Requirement(constructions[i])
       IN  r = NoType \/ Coming(r) \/ \E j \in 1 .. i - 1 : constructions[j] = r

(* No queued construction waits for one behind it: "Prevent deadlock" in    *)
(* Builder::ScheduleConstruction.                                           *)
NoDeadlockInQueue ==
    \A i \in DOMAIN constructions :
       LET r == Requirement(constructions[i])
       IN  (\E j \in i + 1 .. Len(constructions) : constructions[j] = r)
           => \/ Coming(r)
              \/ \E j \in 1 .. i - 1 : constructions[j] = r

(* What Builder commands in one step, over both queues, costs exactly what  *)
(* it took off the budget it read at the head of that step: together, the   *)
(* commands never cost more than the observed bank and supply.              *)
CommandsWithinBudget ==
    phase = "train" =>
       LET total(cost(_)) ==
               MapThenSumSet(LAMBDA i : cost(commands[i].type), DOMAIN commands)
       IN  /\ m_minerals + total(LAMBDA t : UnitTypeData[t].mineral_cost) = minerals
           /\ m_vespene + total(LAMBDA t : UnitTypeData[t].vespene_cost) = vespene
           /\ m_available_food + total(Food) = foodCap - foodUsed

(* While QuarterMaster skips its turns, a depot it can wait for is queued,  *)
(* commanded, on its way, or laid and not yet announced to the bot.         *)
Unannounced(t) == {u \in Tag : /\ units[u].alive /\ units[u].type = t
                               /\ view[u].type = NoType}
DepotComing ==
    \/ "SupplyDepot" \in Scheduled
    \/ \E i \in DOMAIN commands : commands[i].type = "SupplyDepot"
    \/ travelling["SupplyDepot"] > 0
    \/ Unannounced("SupplyDepot") # {}
SupplyRequestPending == m_skip_turn => DepotComing

(* And so step by step: QuarterMaster asks for a depot only while it waits  *)
(* for none, and neither its wait nor a depot on its way ends but by the    *)
(* beginning of a depot, whoever asked for it, the bot has not seen before. *)
SeenDepots == {u \in Tag : view[u].type = "SupplyDepot"}
Request == INSTANCE SupplyRequest WITH Depot <- Tag, asked <- m_skip_turn,
                                       coming <- DepotComing, seen <- SeenDepots
RequestSpec == Request!Spec

(* QuarterMaster asks again only when some depot has been announced since,  *)
(* however many steps SCVs take to reach their sites: of the depots ordered *)
(* by anybody and not announced there are never more than the opening       *)
(* names, and one while QuarterMaster skips its turns.  It need not be its  *)
(* own depot that was announced: each depot of the opening may be taken for *)
(* the one it waits for, and all those underway may then be its own.  (For  *)
(* an opening that names the depots it requires, and without razing:        *)
(* RepairMan may order depots as well.)                                     *)
InOpening(t) == Cardinality({i \in DOMAIN Opening : Opening[i] = t})
Underway(t) ==
    Cardinality({i \in DOMAIN constructions : constructions[i] = t})
    + Cardinality({i \in DOMAIN commands : commands[i].type = t})
    + travelling[t] + Cardinality(Unannounced(t))
RequestsAnswered ==
    Underway("SupplyDepot")
    <= InOpening("SupplyDepot") + (IF m_skip_turn THEN 1 ELSE 0)

(* Workers alive, in production, commanded or ordered never exceed the      *)
(* maximum by more than the number of town halls less one: Miner counts     *)
(* neither the worker in production at a town hall nor, at the next one,    *)
(* the one it has just commanded.                                           *)
WorkersBounded ==
    LET ordered == CountScheduledTrainings("SCV")
                   + Cardinality({i \in DOMAIN commands : commands[i].type = "SCV"})
        making == Cardinality({u \in Existing : units[u].orders = <<"SCV">>})
        halls == Cardinality({u \in Existing : IsTownHall(units[u].type)})
    IN  workers + making + ordered
        <= (IF StartWorkers > MaximumWorkers THEN StartWorkers ELSE MaximumWorkers)
           + halls - 1

(* A finished barracks that makes nothing is never forgotten: a training    *)
(* order names it, a command is on its way to it, or the next events will   *)
(* tell ReaperRush that it is idle.  The last needs the client to report    *)
(* a producer again whose command has failed.                               *)
NoForgottenBarracks ==
    \A u \in Existing :
       units[u].type = "Barracks" /\ units[u].built /\ units[u].orders = <<>>
       => \/ \E i \in DOMAIN trainings : trainings[i].assignee = u
          \/ \E i \in DOMAIN commands : commands[i].unit = u
          \/ u \in events.idle
          \/ phase = "game" /\ TurnedIdle(u)

(* Of every structure of the opening but depots and town halls, as many are *)
(* queued, commanded, on their way, standing, or destroyed and not yet      *)
(* handled by RepairMan as the opening asks for: a structure the bot has    *)
(* seen finished is not forgotten when it is razed.  (As long as no SCV is  *)
(* lost and no site razed before: those the code does forget.)              *)
Tally(t) ==
    Cardinality({i \in DOMAIN constructions : constructions[i] = t})
    + Cardinality({i \in DOMAIN commands : commands[i].type = t})
    + travelling[t]
    + Cardinality({u \in Existing : units[u].type = t})
    + Cardinality({u \in Tag \ Existing : view[u].alive /\ view[u].type = t})

NoForgottenStructure ==
    phase # "opening" =>
       \A t \in {x \in UnitType \ {"SupplyDepot"} : IsStructure(x)} :
          ~IsTownHall(t) =>
             Tally(t) >= InOpening(t)

(* A producer is commanded within one step at most as much as it has room   *)
(* for, counting the orders it already has: what m_order_queued_in_current_ *)
(* step is for.                                                             *)
CommandsFitProducer ==
    \A u \in listed :
       Len(view[u].orders)
       + Cardinality({i \in DOMAIN commands : commands[i].unit = u})
       <= IF HasReactor(u) THEN 2 ELSE 1

(* "Every 5th Reaper we will ask this Barracks if it needs an addon"        *)
(* (ReaperRush.cpp): no more reactors are ordered than barracks need.       *)
ReactorsNeeded ==
    Cardinality({i \in DOMAIN constructions : constructions[i] = "BarracksReactor"})
    <= Cardinality({u \in Existing : /\ units[u].type = "Barracks"
                                     /\ units[u].addon = NullTag})

(* The opening is built in the end, whatever else is trained meanwhile. *)
OpeningBuilt ==
    \A t \in {Opening[i] : i \in DOMAIN Opening} :
       Cardinality({u \in Existing : units[u].built /\ units[u].type = t})
       >= InOpening(t)
OpeningCompleted == <>OpeningBuilt

(* QuarterMaster does not skip its turns for ever. *)
SupplyRequestAnswered == m_skip_turn ~> ~m_skip_turn

(* Once a finished depot has been destroyed, supply does not stay short for *)
(* ever: RepairMan leaves it to QuarterMaster, who "is responsible for      *)
(* supplies rebuild" (RepairMan.cpp).                                       *)
DepotRazed == \E u \in Tag : /\ view[u].type = "SupplyDepot" /\ view[u].built
                             /\ ~units[u].alive
SuppliesRebuilt == DepotRazed /\ SupplyShort ~> ~SupplyShort
=============================================================================
