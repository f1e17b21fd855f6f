-------------------------------- MODULE Game --------------------------------
(***************************************************************************)
(* The game the bot plays, as far as its orders can tell: the structures,  *)
(* the bank, the supply, and what becomes of a command after the bot has   *)
(* sent it.  StarCraft II is not part of the repository: this module says  *)
(* what the bot's code relies on.                                          *)
(*                                                                         *)
(* A command to a producer is obeyed or refused when it arrives.  A        *)
(* structure costs nothing until the SCV that carries its command arrives, *)
(* and by then the money may be gone, or the SCV.                          *)
(***************************************************************************)
EXTENDS TechTree

CONSTANTS
    Tag,            \* bound: tags of structures, each used once; 1 is the first hall
    Mishaps,        \* what may go wrong, a subset of MishapKinds
    MaxMishaps,     \* bound: how often something goes wrong
    Targets,        \* bound: the types of structures that raids destroy
    MaxMinerals,    \* bound: what the bank holds
    MaxVespene      \* bound

NullTag == 0

MishapKinds ==
    {"razed",       \* a structure is destroyed
     "unfinished",  \* it is, before the bot has seen it finished
     "lost",        \* an SCV is killed, or blocked, on its way to build
     "unpaid",      \* an SCV arrives and the money has been spent meanwhile
     "crowded"}     \* there is no place for a structure right now

ASSUME GameAssumption ==
    /\ Tag \subseteq Nat \ {NullTag}
    /\ IsFiniteSet(Tag)
    /\ Mishaps \subseteq MishapKinds
    /\ MaxMishaps \in Nat
    /\ Targets \subseteq UnitType
    /\ MaxMinerals \in Nat
    /\ MaxVespene \in Nat

VARIABLES
    units,       \* tag -> the structure
    minerals,    \* the bank
    vespene,
    foodCap,     \* supply provided by finished structures
    foodUsed,    \* supply taken, units in production included
    workers,     \* SCVs alive
    reapers,     \* reapers born since the last observation
    commands,    \* producers' and SCVs' commands the game has not handled yet
    travelling,  \* type -> structures SCVs are on their way to lay
    mishaps      \* how much has gone wrong so far

gameVars == <<units, minerals, vespene, foodCap, foodUsed, workers, reapers,
              commands, travelling, mishaps>>
bankVars == <<minerals, vespene>>
popVars == <<foodUsed, workers, reapers>>

Structure == [type : UnitType \cup {NoType}, alive : BOOLEAN, built : BOOLEAN,
              orders : Seq(UnitType), addon : Tag \cup {NullTag}]
Command == [type : UnitType, unit : Tag \cup {NullTag}]

Vacant == [type |-> NoType, alive |-> FALSE, built |-> FALSE,
           orders |-> <<>>, addon |-> NullTag]
Site(t) == [Vacant EXCEPT !.type = t, !.alive = TRUE]
VacantTags == {u \in Tag : units[u].type = NoType}
NextTag == CHOOSE u \in VacantTags : TRUE

(* A barracks with a finished reactor works on two orders at a time. *)
Reactors == {u \in Tag : /\ units[u].alive /\ units[u].built
                         /\ units[u].type = "BarracksReactor"}
Lanes(u) == IF units[u].addon \in Reactors THEN 2 ELSE 1
Food(t) == UnitTypeData[t].food_required
LaneFood(orders, i) == IF i \in DOMAIN orders THEN Food(orders[i]) ELSE 0

CanPay(t) == /\ minerals >= UnitTypeData[t].mineral_cost
             /\ vespene >= UnitTypeData[t].vespene_cost
Pay(t) == /\ minerals' = minerals - UnitTypeData[t].mineral_cost
          /\ vespene' = vespene - UnitTypeData[t].vespene_cost

Mishap(kind) == /\ kind \in Mishaps
                /\ mishaps < MaxMishaps
                /\ mishaps' = mishaps + 1

(***************************************************************************)
(* The commands the bot has sent, in the order it sent them.               *)
(***************************************************************************)
Accepts(c) ==
    LET u == units[c.unit]
        busy == \E i \in DOMAIN u.orders : Plot(u.orders[i]) # "Unit"
    IN  /\ u.alive /\ u.built /\ CanPay(c.type)
        /\ IF c.type \in Workers THEN IsTownHall(u.type)
           ELSE u.type = WhoBuilds(c.type)
        /\ CASE Plot(c.type) = "Unit" ->
                  /\ ~busy
                  /\ Len(u.orders) < Lanes(c.unit)
                  /\ foodUsed + Food(c.type) <= foodCap
             [] Plot(c.type) = "Addon" ->
                  u.orders = <<>> /\ u.addon = NullTag
             [] OTHER -> u.orders = <<>>

(* An SCV sets out with the command to lay a structure. *)
SetOut ==
    /\ commands # <<>>
    /\ IsStructure(Head(commands).type)
    /\ commands' = Tail(commands)
    /\ travelling' = [travelling EXCEPT ![Head(commands).type] = @ + 1]
    /\ UNCHANGED <<units, bankVars, popVars, foodCap, mishaps>>

(* A producer obeys: it trains, transforms itself, or attaches an addon. *)
Obey ==
    /\ commands # <<>>
    /\ LET c == Head(commands)
       IN  /\ ~IsStructure(c.type)
           /\ Accepts(c)
           /\ Plot(c.type) = "Addon" => VacantTags # {}
           /\ Pay(c.type)
           /\ foodUsed' = foodUsed + Food(c.type)
           /\ LET queued == [units EXCEPT ![c.unit].orders = Append(@, c.type)]
              IN units' = IF Plot(c.type) # "Addon" THEN queued
                          ELSE [queued EXCEPT ![c.unit].addon = NextTag,
                                              ![NextTag] = Site(c.type)]
    /\ commands' = Tail(commands)
    /\ UNCHANGED <<foodCap, workers, reapers, travelling, mishaps>>

(* It is dead, busy or of another type by now, or money or supply is gone. *)
Refuse ==
    /\ commands # <<>>
    /\ ~IsStructure(Head(commands).type)
    /\ ~Accepts(Head(commands))
    /\ commands' = Tail(commands)
    /\ UNCHANGED <<units, bankVars, popVars, foodCap, travelling, mishaps>>

(***************************************************************************)
(* SCVs on their way.                                                      *)
(***************************************************************************)
Lay(t) ==
    /\ travelling[t] > 0 /\ CanPay(t) /\ VacantTags # {}
    /\ travelling' = [travelling EXCEPT ![t] = @ - 1]
    /\ Pay(t)
    /\ units' = [units EXCEPT ![NextTag] = Site(t)]
    /\ UNCHANGED <<popVars, foodCap, commands, mishaps>>

(* It comes to nothing; the SCV may be among the dead.                     *)
FailToLay(t) ==
    /\ travelling[t] > 0
    /\ travelling' = [travelling EXCEPT ![t] = @ - 1]
    /\ \/ Mishap("lost") /\ \E dead \in 0 .. 1 :
             /\ dead <= workers
             /\ workers' = workers - dead
             /\ foodUsed' = foodUsed - dead * Food("SCV")
       \/ ~CanPay(t) /\ Mishap("unpaid") /\ UNCHANGED <<workers, foodUsed>>
    /\ UNCHANGED <<units, bankVars, reapers, foodCap, commands>>

(***************************************************************************)
(* Time passes.                                                            *)
(***************************************************************************)
Income ==
    /\ \/ minerals < MaxMinerals /\ minerals' = minerals + 1 /\ UNCHANGED vespene
       \/ vespene < MaxVespene /\ vespene' = vespene + 1 /\ UNCHANGED minerals
    /\ UNCHANGED <<units, popVars, foodCap, commands, travelling, mishaps>>

(* A site is finished; the barracks that attached an addon is free again.  *)
Complete(u) ==
    /\ units[u].alive /\ ~units[u].built
    /\ units' = [v \in Tag |->
          IF v = u THEN [units[v] EXCEPT !.built = TRUE]
          ELSE IF units[v].addon = u THEN [units[v] EXCEPT !.orders = <<>>]
          ELSE units[v]]
    /\ foodCap' = foodCap + UnitSupply(units[u].type)
    /\ UNCHANGED <<bankVars, popVars, commands, travelling, mishaps>>

(* The order in lane i is done: a unit is born, or the morph is over. *)
Finish(u, i) ==
    /\ units[u].alive /\ units[u].built
    /\ i \in DOMAIN units[u].orders
    /\ LET t == units[u].orders[i]
       IN  /\ Plot(t) \in {"Unit", "Mutation"}
           /\ units' = [units EXCEPT
                 ![u].orders = SubSeq(@, 1, i - 1) \o SubSeq(@, i + 1, Len(@)),
                 ![u].type = IF Plot(t) = "Mutation" THEN t ELSE @]
           /\ workers' = IF t = "SCV" THEN workers + 1 ELSE workers
           /\ reapers' = IF t = "Reaper" THEN reapers + 1 ELSE reapers
    /\ UNCHANGED <<bankVars, foodUsed, foodCap, commands, travelling, mishaps>>

(* The enemy razes a structure; what it was making is lost with it, and so  *)
(* is an addon it has not finished.                                         *)
Raze(u, kind) ==
    /\ units[u].alive /\ units[u].type \in Targets
    /\ Mishap(kind)
    /\ LET half == units[u].addon
           gone == {u} \cup (IF half \in Tag /\ ~units[half].built THEN {half} ELSE {})
       IN  units' = [v \in Tag |->
             IF v \in gone THEN [units[v] EXCEPT !.alive = FALSE, !.orders = <<>>]
             ELSE IF units[v].addon # u THEN units[v]
             ELSE [units[v] EXCEPT !.addon = NullTag,
                                   !.orders = IF units[u].built THEN @ ELSE <<>>]]
    /\ foodCap' = IF units[u].built THEN foodCap - UnitSupply(units[u].type)
                  ELSE foodCap
    /\ foodUsed' = foodUsed - LaneFood(units[u].orders, 1)
                            - LaneFood(units[u].orders, 2)
    /\ UNCHANGED <<bankVars, workers, reapers, commands, travelling>>
=============================================================================
