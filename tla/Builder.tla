------------------------------- MODULE Builder -------------------------------
(***************************************************************************)
(* Builder (src/Builder.cpp) with the blueprints it hands orders to        *)
(* (src/blueprints) and the producers Hub picks for them.                  *)
(*                                                                         *)
(* Two queues.  Of the constructions only the head is tried, once a step.  *)
(* Of the trainings every order is tried, and those that cannot be carried *)
(* out stay.  Both spend one budget, read from the game at the head of the *)
(* step.  An order that was carried out is forgotten: nobody waits for the *)
(* structure to appear.                                                    *)
(***************************************************************************)
EXTENDS Observer, SequencesExt

VARIABLES
    constructions,    \* m_construction_orders, types only: no one assigns them
    trainings,        \* m_training_orders
    m_minerals, m_vespene, m_available_food,
    cursor            \* the iterator of OnStep over the training orders

queueVars == <<constructions, trainings>>
budgetVars == <<m_minerals, m_vespene, m_available_food>>
builderVars == <<queueVars, budgetVars, cursor>>

TrainingOrder == [type : UnitType, assignee : Tag \cup {NullTag}]

Scheduled == {constructions[i] : i \in DOMAIN constructions}
CountScheduledTrainings(t) ==
    Cardinality({i \in DOMAIN trainings : trainings[i].type = t})

(***************************************************************************)
(* Scheduling.                                                             *)
(***************************************************************************)
(* ScheduleConstruction recurses along the tech requirements of t that are  *)
(* neither among the standing types nor queued: n of them are missing, and  *)
(* the next one, if any, is not.                                            *)
Missing(t, n, standing) ==
    LET missing(r) == r \notin standing /\ r \notin Scheduled
    IN  /\ \A i \in 1 .. n : missing(TechLine[t][i])
        /\ n < Len(TechLine[t]) => ~missing(TechLine[t][n + 1])

(* The deepest requirement is appended first.  Requirements always go to    *)
(* the back, whether or not the structure that needs them is urgent.        *)
Required(t, n) == [i \in 1 .. n |-> TechLine[t][n + 1 - i]]

(* Mutant: the structure goes to the queue before what it requires.         *)
ScheduleConstructionFirst(t, urgent, standing) ==
    \E n \in 0 .. Len(TechLine[t]) :
       /\ Missing(t, n, standing)
       /\ constructions' = IF urgent THEN <<t>> \o constructions \o Required(t, n)
                           ELSE constructions \o <<t>> \o Required(t, n)

ScheduleConstruction(t, urgent, standing) ==
    \E n \in 0 .. Len(TechLine[t]) :
       /\ Missing(t, n, standing)
       /\ constructions' = IF urgent
                           THEN <<t>> \o constructions \o Required(t, n)
                           ELSE constructions \o Required(t, n) \o <<t>>

(***************************************************************************)
(* Build.                                                                  *)
(***************************************************************************)
(* Mutant: vespene is not asked for.                                        *)
AffordableInMinerals(t, m, v, f) ==
    /\ m >= UnitTypeData[t].mineral_cost
    /\ Requirement(t) # NoType => OneOf(Satisfying(Requirement(t))) # {}
    /\ Food(t) > 0 => f >= Food(t)

Affordable(t, m, v, f) ==
    /\ m >= UnitTypeData[t].mineral_cost
    /\ v >= UnitTypeData[t].vespene_cost
    /\ Requirement(t) # NoType => OneOf(Satisfying(Requirement(t))) # {}
    /\ Food(t) > 0 => f >= Food(t)

(* GetFreeWorkers: an SCV is busy from the command to lay a structure until *)
(* it is idle again, with the structure finished or given up.               *)
FreeWorkerExists ==
    workers > MapThenSumSet(LAMBDA t : travelling[t], UnitType)
              + Cardinality({u \in listed : /\ IsStructure(view[u].type)
                                            /\ ~view[u].built})

(* Who may get the command: GetFreeBuildingProductionAssignee for Unit and  *)
(* Mutation, GetValidAssignee for Addon, which returns nobody when the      *)
(* order has an assignee.  For a structure it is some SCV, here NullTag.    *)
Producers(t, assignee) ==
    CASE IsStructure(t) -> {u \in {NullTag} : FreeWorkerExists}
      [] Plot(t) = "Addon" ->
           {u \in listed : /\ assignee = NullTag
                           /\ IsUnit(u, WhoBuilds(t)) /\ IsIdle(u)
                           /\ HasNoAddon(u)}
      [] assignee # NullTag ->
           {u \in {assignee} : IsIdleUnit(u, view[u].type)}
      [] OTHER -> {u \in listed : IsIdleUnit(u, WhoBuilds(t))}

(* Mutant: supply is not taken off.                                         *)
DeductMoney(t, m, v, f) ==
    /\ m_minerals' = m - UnitTypeData[t].mineral_cost
    /\ m_vespene' = v - UnitTypeData[t].vespene_cost
    /\ m_available_food' = f

Deduct(t, m, v, f) ==
    /\ m_minerals' = m - UnitTypeData[t].mineral_cost
    /\ m_vespene' = v - UnitTypeData[t].vespene_cost
    /\ m_available_food' = f - Food(t)

Issue(t, u) == commands' = Append(commands, [type |-> t, unit |-> u])

(* OnStep up to the training loop: the budget is read, and the head of the  *)
(* construction orders is tried.                                            *)
BuildHead ==
    LET t == Head(constructions)
        food == foodCap - foodUsed
    IN  /\ constructions # <<>>
        /\ Affordable(t, minerals, vespene, food)
        /\ \E u \in Producers(t, NullTag) :
              /\ Issue(t, u)
              /\ Deduct(t, minerals, vespene, food)
        /\ constructions' = Tail(constructions)
        /\ UNCHANGED <<trainings, mishaps>>

(* Mutant: an order that cannot be carried out is erased as well.           *)
HeadDropped ==
    /\ constructions # <<>> =>
          LET t == Head(constructions)
          IN  \/ ~Affordable(t, minerals, vespene, foodCap - foodUsed)
              \/ Producers(t, NullTag) = {}
    /\ constructions' = IF constructions = <<>> THEN <<>> ELSE Tail(constructions)
    /\ m_minerals' = minerals
    /\ m_vespene' = vespene
    /\ m_available_food' = foodCap - foodUsed
    /\ UNCHANGED <<trainings, commands, mishaps>>

HeadWaits ==
    /\ \/ constructions = <<>> /\ UNCHANGED mishaps
       \/ /\ constructions # <<>>
          /\ LET t == Head(constructions)
             IN  \/ /\ \/ ~Affordable(t, minerals, vespene, foodCap - foodUsed)
                       \/ Producers(t, NullTag) = {}
                    /\ UNCHANGED mishaps
                 \/ /\ IsStructure(t) \/ Plot(t) = "Addon"
                    /\ Mishap("crowded")
    /\ m_minerals' = minerals
    /\ m_vespene' = vespene
    /\ m_available_food' = foodCap - foodUsed
    /\ UNCHANGED <<queueVars, commands>>

(* The training loop: erase what was built, step over what was not.         *)
BuildTraining ==
    /\ cursor \in DOMAIN trainings
    /\ LET o == trainings[cursor]
           able == Affordable(o.type, m_minerals, m_vespene, m_available_food)
           who == Producers(o.type, o.assignee)
       IN  IF able /\ who # {}
           THEN /\ \E u \in who : Issue(o.type, u)
                /\ Deduct(o.type, m_minerals, m_vespene, m_available_food)
                /\ trainings' = RemoveAt(trainings, cursor)
                /\ UNCHANGED cursor
           ELSE /\ cursor' = cursor + 1
                /\ UNCHANGED <<trainings, budgetVars, commands>>
    /\ UNCHANGED constructions
=============================================================================
