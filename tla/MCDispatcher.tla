---------------------------- MODULE MCDispatcher ----------------------------
(***************************************************************************)
(* Values for the constants of Dispatcher.  Every price is one unit of     *)
(* money, an orbital command two, and every unit born takes one supply.    *)
(***************************************************************************)
EXTENDS Dispatcher

MCUnitType == {"CommandCenter", "OrbitalCommand", "SupplyDepot", "Barracks",
               "BarracksReactor", "SCV", "Reaper"}

Datum(m, v, f, r) == [mineral_cost |-> m, vespene_cost |-> v,
                      food_required |-> f, tech_requirement |-> r]

MCUnitTypeData ==
    [t \in MCUnitType |->
        CASE t = "OrbitalCommand" -> Datum(2, 0, 0, "Barracks")
          [] t = "Barracks" -> Datum(1, 0, 0, "SupplyDepot")
          [] t = "BarracksReactor" -> Datum(1, 1, 0, "Nothing")
          [] t \in {"SCV", "Reaper"} -> Datum(1, 0, 1, "Nothing")
          [] OTHER -> Datum(1, 0, 0, "Nothing")]

MCTechLine ==
    [t \in MCUnitType |->
        CASE t = "OrbitalCommand" -> <<"Barracks", "SupplyDepot">>
          [] t = "Barracks" -> <<"SupplyDepot">>
          [] OTHER -> <<>>]

MCTag == 1 .. 6
MoreTags == 1 .. 8
OpeningOrbital == <<"OrbitalCommand", "SupplyDepot">>
OpeningBarracks == <<"Barracks">>
OpeningDepotFirst == <<"SupplyDepot", "Barracks">>
OpeningDepot == <<"SupplyDepot">>
BarracksOnly == {"Barracks", "BarracksReactor"}
NoMishap == {}
Razing == {"razed"}
Disorder == {"lost", "unpaid", "crowded", "unfinished"}
OpeningHall == <<"SupplyDepot", "CommandCenter">>
LosingAndRazing == {"lost", "razed"}
DepotOnly == {"SupplyDepot"}
=============================================================================
