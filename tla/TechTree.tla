------------------------------ MODULE TechTree ------------------------------
(***************************************************************************)
(* What the bot knows about the things it can order: the blueprint that    *)
(* carries an order out (src/blueprints), who makes it, and the numbers of *)
(* GetUnitTypeData (src/core/API.cpp).  The names are those of the source  *)
(* without the race prefix; the numbers are constants, so that a model can *)
(* scale them.                                                             *)
(***************************************************************************)
EXTENDS Integers, Sequences, FiniteSets

CONSTANTS
    UnitType,       \* the types the game is played with, names as below
    NoType,         \* UNIT_TYPEID::INVALID
    UnitTypeData,   \* type -> costs, food and tech requirement, from the game
    TechLine,       \* type -> its requirement, that one's requirement, ...
    TownHallSupply, \* 15 in the source, scaled down in models
    DepotSupply     \* 8 in the source, scaled down in models

Addons == {"BarracksTechLab", "BarracksReactor"}
BarracksUnits == {"Ghost", "Marine", "Marauder", "Reaper"}
Workers == {"SCV"}
Mutations == {"OrbitalCommand", "PlanetaryFortress"}

(* Blueprint::Plot: which blueprint carries out an order of this type. *)
Plot(t) ==
    IF t \in Addons THEN "Addon"
    ELSE IF t = "Refinery" THEN "Refinery"
    ELSE IF t \in BarracksUnits \cup Workers THEN "Unit"
    ELSE IF t \in Mutations THEN "Mutation"
    ELSE "Building"

(* Built by an SCV on a place of its own. *)
IsStructure(t) == Plot(t) \in {"Building", "Refinery"}

IsTownHall(t) == t \in {"CommandCenter", "OrbitalCommand", "PlanetaryFortress"}

(* The m_who_builds of Unit, the parent of Addon, the alias of Mutation.    *)
(* Nothing for an SCV (Unit is plotted with INVALID) and for structures.    *)
WhoBuilds(t) ==
    IF t \in Addons \cup BarracksUnits THEN "Barracks"
    ELSE IF t \in Mutations THEN "CommandCenter"
    ELSE NoType

(* Builder::Build: the types that count as the tech requirement r. *)
Satisfying(r) ==
    IF r = "CommandCenter"
    THEN {"CommandCenter", "OrbitalCommand", "PlanetaryFortress"}
    ELSE {r}

(* CalcSupplies for a unit, finished or not, and for an order. *)
UnitSupply(t) ==
    IF IsTownHall(t) THEN TownHallSupply
    ELSE IF t = "SupplyDepot" THEN DepotSupply
    ELSE 0

OrderSupply(t) == IF t \in Mutations THEN 0 ELSE UnitSupply(t)

Requirement(t) == UnitTypeData[t].tech_requirement

(***************************************************************************)
(* The assumptions on the game's data.  TechLine is the chain a recursion  *)
(* of ScheduleConstruction walks along, nearest requirement first.         *)
(***************************************************************************)
ASSUME UnitTypeDataAssumption ==
    /\ NoType \notin UnitType
    /\ UnitTypeData \in
          [UnitType -> [mineral_cost : Nat, vespene_cost : Nat,
                        food_required : Nat,
                        tech_requirement : UnitType \cup {NoType}]]
    /\ {"CommandCenter", "SupplyDepot", "Barracks", "SCV", "Reaper",
        "BarracksReactor"} \subseteq UnitType
    /\ TownHallSupply \in Nat
    /\ DepotSupply \in Nat

ASSUME TechLineAssumption ==
    /\ TechLine \in [UnitType -> Seq(UnitType)]
    /\ \A t \in UnitType :
          /\ TechLine[t] = <<>> <=> Requirement(t) = NoType
          /\ TechLine[t] # <<>> => TechLine[t][1] = Requirement(t)
          /\ \A i \in 1 .. Len(TechLine[t]) :
                IF i = Len(TechLine[t])
                THEN Requirement(TechLine[t][i]) = NoType
                ELSE Requirement(TechLine[t][i]) = TechLine[t][i + 1]
=============================================================================
