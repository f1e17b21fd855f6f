-------------------------- MODULE DispatcherProofs --------------------------
(***************************************************************************)
(* Theorems about Dispatcher, for every value of the constants.            *)
(***************************************************************************)
EXTENDS Dispatcher, TLAPS, SequenceTheorems, FiniteSetTheorems

(***************************************************************************)
(* Data.                                                                   *)
(***************************************************************************)
LEMMA DataTypes ==
    ASSUME NEW t \in UnitType
    PROVE  /\ UnitTypeData[t].mineral_cost \in Nat
           /\ UnitTypeData[t].vespene_cost \in Nat
           /\ Food(t) \in Nat
           /\ Requirement(t) \in UnitType \cup {NoType}
           /\ UnitSupply(t) \in Int
BY UnitTypeDataAssumption DEF Food, Requirement, UnitSupply

(* A structure stays one when one of its fields changes. *)
LEMMA FieldTypes ==
    ASSUME NEW s \in Structure
    PROVE  /\ \A t \in UnitType \cup {NoType} : [s EXCEPT !.type = t] \in Structure
           /\ \A b \in BOOLEAN : [s EXCEPT !.alive = b] \in Structure
           /\ \A b \in BOOLEAN : [s EXCEPT !.built = b] \in Structure
           /\ \A o \in Seq(UnitType) : [s EXCEPT !.orders = o] \in Structure
           /\ \A a \in Tag \cup {NullTag} : [s EXCEPT !.addon = a] \in Structure
<1>1. \A t \in UnitType \cup {NoType} : [s EXCEPT !.type = t] \in Structure
  BY DEF Structure
<1>2. \A b \in BOOLEAN : [s EXCEPT !.alive = b] \in Structure
  BY DEF Structure
<1>3. \A b \in BOOLEAN : [s EXCEPT !.built = b] \in Structure
  BY DEF Structure
<1>4. \A o \in Seq(UnitType) : [s EXCEPT !.orders = o] \in Structure
  BY DEF Structure
<1>5. \A a \in Tag \cup {NullTag} : [s EXCEPT !.addon = a] \in Structure
  BY DEF Structure
<1> QED BY <1>1, <1>2, <1>3, <1>4, <1>5

LEMMA StructureTypes ==
    /\ Vacant \in Structure
    /\ \A t \in UnitType : Site(t) \in Structure
<1>1. Vacant \in Structure
  BY EmptySeq DEF Vacant, Structure
<1>2. ASSUME NEW t \in UnitType PROVE Site(t) \in Structure
  <2>1. [Vacant EXCEPT !.type = t] \in Structure
    BY <1>1, FieldTypes
  <2>2. Site(t) = [[Vacant EXCEPT !.type = t] EXCEPT !.alive = TRUE]
    BY DEF Site
  <2> QED BY <2>1, <2>2, FieldTypes
<1> QED BY <1>1, <1>2

LEMMA PayType ==
    ASSUME NEW t \in UnitType, minerals \in Nat, vespene \in Nat,
           CanPay(t), Pay(t)
    PROVE  minerals' \in Nat /\ vespene' \in Nat
<1> DEFINE m == UnitTypeData[t].mineral_cost
           v == UnitTypeData[t].vespene_cost
<1>1. m \in Nat /\ v \in Nat
  BY DataTypes
<1>2. minerals >= m /\ vespene >= v /\ minerals' = minerals - m /\ vespene' = vespene - v
  BY DEF CanPay, Pay
<1> HIDE DEF m, v
<1> QED BY <1>1, <1>2

LEMMA NextTagType == VacantTags # {} => NextTag \in Tag
BY DEF NextTag, VacantTags

LEMMA CommandType ==
    ASSUME commands \in Seq(Command), commands # <<>>
    PROVE  /\ Head(commands) \in Command
           /\ Head(commands).type \in UnitType
           /\ Tail(commands) \in Seq(Command)
<1>1. Head(commands) \in Command /\ Tail(commands) \in Seq(Command)
  BY HeadTailProperties
<1> QED BY <1>1 DEF Command

(***************************************************************************)
(* The variables of the game, and those of the bot.                        *)
(***************************************************************************)
GameTypeOK ==
    /\ units \in [Tag -> Structure]
    /\ minerals \in Nat /\ vespene \in Nat
    /\ foodCap \in Int /\ foodUsed \in Int
    /\ workers \in Nat /\ reapers \in Nat /\ mishaps \in 0 .. MaxMishaps
    /\ commands \in Seq(Command)
    /\ travelling \in [UnitType -> Nat]

BotTypeOK ==
    /\ view \in [Tag -> Structure]
    /\ listed \subseteq Tag /\ commanded \subseteq Tag
    /\ events \in EventRecord
    /\ constructions \in Seq(UnitType) /\ trainings \in Seq(TrainingOrder)
    /\ m_minerals \in Nat /\ m_vespene \in Nat /\ m_available_food \in Int
    /\ cursor \in Nat \ {0}
    /\ m_skip_turn \in BOOLEAN /\ m_reapersBuilt \in 0 .. ReaperBatch - 1
    /\ phase \in Phases

LEMMA TypeSplit == TypeOK <=> GameTypeOK /\ BotTypeOK
BY DEF TypeOK, GameTypeOK, BotTypeOK

LEMMA BotStutter == BotTypeOK /\ UNCHANGED botVars => BotTypeOK'
BY DEF BotTypeOK, botVars, obsVars, builderVars, queueVars, budgetVars, pluginVars

LEMMA GameStutter == GameTypeOK /\ UNCHANGED gameVars => GameTypeOK'
BY DEF GameTypeOK, gameVars

LEMMA InitType == Init => TypeOK
<1> SUFFICES ASSUME Init PROVE TypeOK
  OBVIOUS
<1>1. units \in [Tag -> Structure]
  <2>1. Site("CommandCenter") \in Structure
    BY StructureTypes, UnitTypeDataAssumption
  <2>2. [Site("CommandCenter") EXCEPT !.built = TRUE] \in Structure
    BY <2>1, FieldTypes
  <2> QED BY <2>2, StructureTypes DEF Init
<1>2. events \in EventRecord
  BY DEF Init, NoEvents, EventRecord
<1>3. foodUsed \in Int
  BY DataTypes, UnitTypeDataAssumption, DispatcherAssumption DEF Init
<1>4. foodCap \in Int
  BY UnitTypeDataAssumption DEF Init
<1>5. commands \in Seq(Command) /\ constructions \in Seq(UnitType) /\ trainings \in Seq(TrainingOrder)
  BY EmptySeq DEF Init
<1>6. view \in [Tag -> Structure] /\ listed \subseteq Tag /\ commanded \subseteq Tag
  BY <1>1 DEF Init, Existing
<1>7. travelling \in [UnitType -> Nat]
  BY DEF Init
<1>8. /\ minerals \in Nat /\ vespene \in Nat /\ workers \in Nat /\ reapers \in Nat
      /\ mishaps \in 0 .. MaxMishaps
      /\ m_minerals \in Nat /\ m_vespene \in Nat /\ m_available_food \in Int
      /\ cursor \in Nat \ {0} /\ m_skip_turn \in BOOLEAN
      /\ m_reapersBuilt \in 0 .. ReaperBatch - 1 /\ phase \in Phases
  <2>1. StartMinerals \in Nat /\ StartWorkers \in Nat /\ MaxMishaps \in Nat /\ ReaperBatch \in Nat \ {0}
    BY DispatcherAssumption, GameAssumption, PluginAssumption
  <2>2. /\ minerals = StartMinerals /\ vespene = 0 /\ workers = StartWorkers /\ reapers = 0
        /\ mishaps = 0 /\ m_minerals = 0 /\ m_vespene = 0 /\ m_available_food = 0
        /\ cursor = 1 /\ m_skip_turn = FALSE /\ m_reapersBuilt = 0 /\ phase = "opening"
    BY DEF Init
  <2>3. m_skip_turn \in BOOLEAN /\ phase \in Phases
    BY <2>2 DEF Phases
  <2>4. /\ minerals \in Nat /\ vespene \in Nat /\ workers \in Nat /\ reapers \in Nat
        /\ mishaps \in 0 .. MaxMishaps
        /\ m_minerals \in Nat /\ m_vespene \in Nat /\ m_available_food \in Int
        /\ cursor \in Nat \ {0} /\ m_reapersBuilt \in 0 .. ReaperBatch - 1
    BY <2>1, <2>2
  <2> QED BY <2>3, <2>4
<1> QED BY <1>1, <1>2, <1>3, <1>4, <1>5, <1>6, <1>7, <1>8 DEF TypeOK

(***************************************************************************)
(* The game's actions.                                                     *)
(***************************************************************************)
LEMMA SetOutType == GameTypeOK /\ SetOut => GameTypeOK'
BY CommandType DEF GameTypeOK, SetOut, bankVars, popVars

LEMMA ObeyType == GameTypeOK /\ Obey => GameTypeOK'
<1> SUFFICES ASSUME GameTypeOK, Obey PROVE GameTypeOK'
  OBVIOUS
<1> DEFINE c == Head(commands)
<1>1. c \in Command /\ c.type \in UnitType /\ Tail(commands) \in Seq(Command)
  BY CommandType DEF GameTypeOK, Obey
<1>2. minerals' \in Nat /\ vespene' \in Nat
  <2>1. CanPay(c.type) /\ Pay(c.type)
    BY DEF Obey, Accepts
  <2> QED BY <1>1, <2>1, PayType DEF GameTypeOK
<1>3. units' \in [Tag -> Structure]
  <2> DEFINE queued == [units EXCEPT ![c.unit].orders = Append(@, c.type)]
  <2>1. queued \in [Tag -> Structure]
    <3>1. CASE c.unit \in Tag
      <4>1. Append(units[c.unit].orders, c.type) \in Seq(UnitType)
        BY <1>1, <3>1, AppendProperties DEF GameTypeOK, Structure
      <4> QED BY <4>1, <3>1 DEF GameTypeOK, Structure
    <3>2. CASE c.unit \notin Tag
      BY <3>2 DEF GameTypeOK
    <3> QED BY <3>1, <3>2
  <2>2. CASE Plot(c.type) # "Addon"
    BY <2>1, <2>2 DEF Obey
  <2>3. CASE Plot(c.type) = "Addon"
    <3>1. NextTag \in Tag
      BY <2>3, NextTagType DEF Obey
    <3>2. Site(c.type) \in Structure
      BY <1>1, StructureTypes
    <3>3. units' = [queued EXCEPT ![c.unit].addon = NextTag, ![NextTag] = Site(c.type)]
      BY <2>3 DEF Obey
    <3> HIDE DEF queued
    <3>4. [queued EXCEPT ![c.unit].addon = NextTag] \in [Tag -> Structure]
      BY <2>1, <3>1 DEF Structure
    <3> QED BY <3>1, <3>2, <3>3, <3>4
  <2> QED BY <2>2, <2>3
<1>4. foodUsed' \in Int
  BY <1>1, DataTypes DEF GameTypeOK, Obey
<1> QED BY <1>1, <1>2, <1>3, <1>4 DEF GameTypeOK, Obey

LEMMA RefuseType == GameTypeOK /\ Refuse => GameTypeOK'
BY CommandType DEF GameTypeOK, Refuse, bankVars, popVars

LEMMA LayType ==
    ASSUME GameTypeOK, NEW t \in UnitType, Lay(t)
    PROVE  GameTypeOK'
<1>1. NextTag \in Tag /\ Site(t) \in Structure
  BY NextTagType, StructureTypes DEF Lay
<1>2. units' \in [Tag -> Structure]
  BY <1>1 DEF Lay, GameTypeOK
<1>3. minerals' \in Nat /\ vespene' \in Nat
  <2>1. CanPay(t) /\ Pay(t)
    BY DEF Lay
  <2> QED BY <2>1, PayType DEF GameTypeOK
<1>4. travelling' \in [UnitType -> Nat]
  BY DEF GameTypeOK, Lay
<1> QED BY <1>2, <1>3, <1>4 DEF GameTypeOK, Lay, popVars

LEMMA FailToLayType ==
    ASSUME GameTypeOK, NEW t \in UnitType, FailToLay(t)
    PROVE  GameTypeOK'
<1>1. travelling' \in [UnitType -> Nat]
  BY DEF GameTypeOK, FailToLay
<1>2. mishaps' \in 0 .. MaxMishaps
  BY GameAssumption DEF GameTypeOK, FailToLay, Mishap
<1>3. workers' \in Nat /\ foodUsed' \in Int
  BY DataTypes, UnitTypeDataAssumption DEF GameTypeOK, FailToLay
<1> QED BY <1>1, <1>2, <1>3 DEF GameTypeOK, FailToLay, bankVars

LEMMA IncomeType == GameTypeOK /\ Income => GameTypeOK'
BY DEF GameTypeOK, Income, popVars

LEMMA CompleteType ==
    ASSUME GameTypeOK, NEW u \in Tag, Complete(u)
    PROVE  GameTypeOK'
<1>1. units' \in [Tag -> Structure]
  BY EmptySeq DEF GameTypeOK, Complete, Structure
<1>2. foodCap' \in Int
  BY UnitTypeDataAssumption DEF GameTypeOK, Complete, UnitSupply
<1> QED BY <1>1, <1>2 DEF GameTypeOK, Complete, bankVars, popVars

LEMMA FinishType ==
    ASSUME GameTypeOK, NEW u \in Tag, NEW i \in 1 .. 2, Finish(u, i)
    PROVE  GameTypeOK'
<1> DEFINE o == units[u].orders
           t == o[i]
<1>1. o \in Seq(UnitType) /\ i \in 1 .. Len(o) /\ t \in UnitType
  <2>1. o \in Seq(UnitType)
    BY DEF GameTypeOK, Structure
  <2> QED BY <2>1, LenProperties, ElementOfSeq DEF Finish
<1>2. SubSeq(o, 1, i - 1) \o SubSeq(o, i + 1, Len(o)) \in Seq(UnitType)
  <2> HIDE DEF o
  <2>1. Len(o) \in Nat /\ \A j \in 1 .. Len(o) : o[j] \in UnitType
    BY <1>1, LenProperties, ElementOfSeq
  <2>2. SubSeq(o, 1, i - 1) \in Seq(UnitType)
    BY <1>1, <2>1, SubSeqProperties
  <2>3. SubSeq(o, i + 1, Len(o)) \in Seq(UnitType)
    BY <1>1, <2>1, SubSeqProperties
  <2> QED BY <2>2, <2>3, ConcatProperties
<1>3. units' \in [Tag -> Structure]
  <2> DEFINE rest == SubSeq(o, 1, i - 1) \o SubSeq(o, i + 1, Len(o))
  <2>1. units' = [units EXCEPT ![u].orders = rest,
                               ![u].type = IF Plot(t) = "Mutation" THEN t ELSE @]
    BY DEF Finish
  <2>2. rest \in Seq(UnitType) /\ t \in UnitType
    BY <1>1, <1>2
  <2> HIDE DEF rest
  <2>3. [units[u] EXCEPT !.orders = rest] \in Structure
    BY <2>2, FieldTypes DEF GameTypeOK
  <2>4. [[units[u] EXCEPT !.orders = rest] EXCEPT !.type = t] \in Structure
    BY <2>2, <2>3, FieldTypes
  <2>5. units' = [units EXCEPT ![u] =
                     IF Plot(t) = "Mutation"
                     THEN [[units[u] EXCEPT !.orders = rest] EXCEPT !.type = t]
                     ELSE [units[u] EXCEPT !.orders = rest]]
    BY <2>1 DEF GameTypeOK, Structure
  <2> QED BY <2>3, <2>4, <2>5 DEF GameTypeOK
<1>4. /\ workers' \in {workers, workers + 1} /\ reapers' \in {reapers, reapers + 1}
      /\ UNCHANGED <<bankVars, foodUsed, foodCap, commands, travelling, mishaps>>
  BY DEF Finish
<1> QED BY <1>3, <1>4 DEF GameTypeOK, bankVars

LEMMA LaneFoodType ==
    ASSUME NEW o \in Seq(UnitType), NEW i \in 1 .. 2
    PROVE  LaneFood(o, i) \in Int
BY DataTypes, LenProperties, ElementOfSeq DEF LaneFood

LEMMA RazeType ==
    ASSUME GameTypeOK, NEW u \in Tag, NEW kind, Raze(u, kind)
    PROVE  GameTypeOK'
<1>1. units' \in [Tag -> Structure]
  <2> SUFFICES ASSUME NEW v \in Tag PROVE units'[v] \in Structure
    BY DEF Raze
  <2>1. units[v] \in Structure /\ units[v].orders \in Seq(UnitType) /\ <<>> \in Seq(UnitType)
    BY EmptySeq DEF GameTypeOK, Structure
  <2>2. \/ units'[v] = [[units[v] EXCEPT !.alive = FALSE] EXCEPT !.orders = <<>>]
        \/ units'[v] = units[v]
        \/ units'[v] = [[units[v] EXCEPT !.addon = NullTag] EXCEPT !.orders = @]
        \/ units'[v] = [[units[v] EXCEPT !.addon = NullTag] EXCEPT !.orders = <<>>]
    BY DEF Raze
  <2>3. [units[v] EXCEPT !.alive = FALSE] \in Structure /\ [units[v] EXCEPT !.addon = NullTag] \in Structure
    BY <2>1, FieldTypes
  <2>4. [units[v] EXCEPT !.addon = NullTag].orders \in Seq(UnitType)
    BY <2>3 DEF Structure
  <2> QED BY <2>1, <2>2, <2>3, <2>4, FieldTypes
<1>2. foodCap' \in Int
  <2>1. foodCap' = IF units[u].built THEN foodCap - UnitSupply(units[u].type) ELSE foodCap
    BY DEF Raze
  <2>2. UnitSupply(units[u].type) \in Int
    BY UnitTypeDataAssumption DEF UnitSupply
  <2> QED BY <2>1, <2>2 DEF GameTypeOK
<1>3. foodUsed' \in Int
  <2>1. units[u].orders \in Seq(UnitType)
    BY DEF GameTypeOK, Structure
  <2>2. foodUsed' = foodUsed - LaneFood(units[u].orders, 1) - LaneFood(units[u].orders, 2)
    BY DEF Raze
  <2> QED BY <2>1, <2>2, LaneFoodType DEF GameTypeOK
<1>4. mishaps' \in 0 .. MaxMishaps
  <2>1. Mishap(kind)
    BY DEF Raze
  <2> QED BY <2>1, GameAssumption DEF GameTypeOK, Mishap
<1>5. UNCHANGED <<bankVars, workers, reapers, commands, travelling>>
  BY DEF Raze
<1> QED BY <1>1, <1>2, <1>3, <1>4, <1>5 DEF GameTypeOK, bankVars

(***************************************************************************)
(* The bot's operators.                                                    *)
(***************************************************************************)
LEMMA RequiredType ==
    ASSUME NEW t \in UnitType, NEW n \in 0 .. Len(TechLine[t])
    PROVE  /\ Required(t, n) \in Seq(UnitType)
           /\ Len(Required(t, n)) = n
           /\ \A i \in 1 .. n : Required(t, n)[i] = TechLine[t][n + 1 - i]
<1>1. TechLine[t] \in Seq(UnitType)
  BY TechLineAssumption
<1>2. Len(TechLine[t]) \in Nat /\ n \in Nat
  BY <1>1, LenProperties
<1>3. \A i \in 1 .. n : TechLine[t][n + 1 - i] \in UnitType
  BY <1>1, <1>2, ElementOfSeq
<1>4. Required(t, n) \in [1 .. n -> UnitType]
  BY <1>3 DEF Required
<1>5. Required(t, n) \in Seq(UnitType)
  BY <1>2, <1>4, IsASeq
<1>6. DOMAIN Required(t, n) = 1 .. n
  BY <1>4
<1>7. Len(Required(t, n)) = n
  BY <1>2, <1>5, <1>6, LenProperties
<1> QED BY <1>5, <1>7 DEF Required

LEMMA ScheduleConstructionType ==
    ASSUME constructions \in Seq(UnitType), NEW t \in UnitType, NEW urgent,
           NEW standing, ScheduleConstruction(t, urgent, standing)
    PROVE  constructions' \in Seq(UnitType)
<1>1. PICK n \in 0 .. Len(TechLine[t]) :
          constructions' = IF urgent THEN <<t>> \o constructions \o Required(t, n)
                           ELSE constructions \o Required(t, n) \o <<t>>
  BY DEF ScheduleConstruction
<1>2. Required(t, n) \in Seq(UnitType) /\ <<t>> \in Seq(UnitType)
  BY RequiredType
<1> QED BY <1>1, <1>2, ConcatProperties

LEMMA ProducersType ==
    ASSUME BotTypeOK, NEW t \in UnitType, NEW a \in Tag \cup {NullTag}
    PROVE  Producers(t, a) \subseteq Tag \cup {NullTag}
BY DEF BotTypeOK, Producers

LEMMA IssueType ==
    ASSUME GameTypeOK, NEW t \in UnitType, NEW u \in Tag \cup {NullTag}, Issue(t, u)
    PROVE  commands' \in Seq(Command)
BY AppendProperties DEF GameTypeOK, Issue, Command

LEMMA DeductType ==
    ASSUME NEW t \in UnitType, NEW m \in Nat, NEW v \in Nat, NEW f \in Int,
           Affordable(t, m, v, f), Deduct(t, m, v, f)
    PROVE  m_minerals' \in Nat /\ m_vespene' \in Nat /\ m_available_food' \in Int
<1> DEFINE mc == UnitTypeData[t].mineral_cost
           vc == UnitTypeData[t].vespene_cost
<1>1. mc \in Nat /\ vc \in Nat /\ Food(t) \in Nat
  BY DataTypes
<1>2. m >= mc /\ v >= vc
  BY DEF Affordable
<1>3. m_minerals' = m - mc /\ m_vespene' = v - vc /\ m_available_food' = f - Food(t)
  BY DEF Deduct
<1> HIDE DEF mc, vc
<1> QED BY <1>1, <1>2, <1>3
(***************************************************************************)
(* The bot's actions.  RepairMan orders what it sees destroyed, so that    *)
(* types alone are not inductive: what is alive, or seen finished, is not  *)
(* a vacant tag.                                                           *)
(***************************************************************************)
Occupied ==
    \A u \in Tag : /\ units[u].alive \/ units[u].built => units[u].type # NoType
                   /\ view[u].built => view[u].type # NoType

TypeInv == TypeOK /\ Occupied

LEMMA ScheduleOpeningType == BotTypeOK /\ ScheduleOpening => BotTypeOK'
<1> SUFFICES ASSUME BotTypeOK, ScheduleOpening PROVE BotTypeOK'
  OBVIOUS
<1>1. UNCHANGED <<obsVars, trainings, budgetVars, pluginVars>>
  BY DEF ScheduleOpening
<1>2. CASE cursor \in DOMAIN Opening
  <2>1. Opening[cursor] \in UnitType
    BY <1>2, DispatcherAssumption, ElementOfSeq, LenProperties
  <2>2. constructions' \in Seq(UnitType)
    BY <1>2, <2>1, ScheduleConstructionType DEF ScheduleOpening, BotTypeOK
  <2>3. cursor' \in Nat \ {0} /\ UNCHANGED phase
    BY <1>2 DEF ScheduleOpening, BotTypeOK
  <2> QED BY <1>1, <2>2, <2>3 DEF BotTypeOK, obsVars, budgetVars, pluginVars
<1>3. CASE cursor \notin DOMAIN Opening
  <2>1. cursor' = 1 /\ phase' = "game" /\ UNCHANGED constructions
    BY <1>3 DEF ScheduleOpening
  <2>2. cursor' \in Nat \ {0}
    BY <2>1
  <2>3. phase' \in Phases
    BY <2>1 DEF Phases
  <2> QED BY <1>1, <2>1, <2>2, <2>3 DEF BotTypeOK, obsVars, budgetVars, pluginVars
<1> QED BY <1>2, <1>3

LEMMA RefreshType ==
    ASSUME TypeOK, NEW u \in Tag, Refresh(u)
    PROVE  view' \in [Tag -> Structure]
<1>1. units[u] \in Structure /\ view[u] \in Structure
  BY DEF TypeOK
<1>2. [view[u] EXCEPT !.alive = FALSE] \in Structure
  BY <1>1, FieldTypes
<1> QED BY <1>1, <1>2 DEF TypeOK, Refresh

LEMMA OnUnitDestroyedType ==
    ASSUME TypeInv, NEW u \in Tag, OnUnitDestroyed(u)
    PROVE  BotTypeOK'
<1>1. view' \in [Tag -> Structure]
  BY RefreshType DEF TypeInv, OnUnitDestroyed
<1>2. events' \in EventRecord
  BY DEF TypeInv, TypeOK, OnUnitDestroyed, EventRecord
<1>3. constructions' \in Seq(UnitType)
  <2>1. CASE view[u].built /\ view[u].type # "SupplyDepot"
    <3>1. view[u].type \in UnitType
      BY <2>1 DEF TypeInv, TypeOK, Occupied, Structure
    <3>2. ScheduleConstruction(view[u].type, TRUE, Standing')
      BY <2>1 DEF OnUnitDestroyed, RepairManOnUnitDestroyed
    <3> QED BY <3>1, <3>2, ScheduleConstructionType DEF TypeInv, TypeOK
  <2>2. CASE ~(view[u].built /\ view[u].type # "SupplyDepot")
    BY <2>2 DEF OnUnitDestroyed, RepairManOnUnitDestroyed, TypeInv, TypeOK
  <2> QED BY <2>1, <2>2
<1>4. UNCHANGED <<listed, commanded, trainings, budgetVars, cursor, pluginVars, phase>>
  BY DEF OnUnitDestroyed
<1> QED BY <1>1, <1>2, <1>3, <1>4 DEF TypeInv, TypeOK, BotTypeOK, budgetVars, pluginVars

LEMMA OnUnitCreatedType ==
    ASSUME TypeInv, NEW u \in Tag, OnUnitCreated(u)
    PROVE  BotTypeOK'
<1>1. view' \in [Tag -> Structure]
  BY RefreshType DEF TypeInv, OnUnitCreated
<1>2. events' \in EventRecord
  BY DEF TypeInv, TypeOK, OnUnitCreated, EventRecord
<1>3. m_skip_turn' \in BOOLEAN
  BY DEF TypeInv, TypeOK, OnUnitCreated, QuarterMasterOnUnitCreated
<1>4. UNCHANGED <<listed, commanded, builderVars, m_reapersBuilt, phase>>
  BY DEF OnUnitCreated
<1> QED BY <1>1, <1>2, <1>3, <1>4
        DEF TypeInv, TypeOK, BotTypeOK, builderVars, queueVars, budgetVars

LEMMA OnReaperCreatedType == TypeInv /\ OnReaperCreated => BotTypeOK'
<1> SUFFICES ASSUME TypeInv, OnReaperCreated PROVE BotTypeOK'
  OBVIOUS
<1>1. events' \in EventRecord
  <2>1. events \in EventRecord /\ events.born > 0
    BY DEF TypeInv, TypeOK, OnReaperCreated
  <2>2. events' = [events EXCEPT !.born = events.born - 1]
    BY DEF OnReaperCreated
  <2>3. events.born \in Nat
    BY <2>1 DEF EventRecord
  <2>4. events.born - 1 \in Nat
    BY <2>1, <2>3
  <2> QED BY <2>1, <2>2, <2>4 DEF EventRecord
<1>2. m_reapersBuilt' \in 0 .. ReaperBatch - 1
  <2>1. m_reapersBuilt \in Nat /\ ReaperBatch \in Nat \ {0}
    BY PluginAssumption DEF TypeInv, TypeOK
  <2>2. m_reapersBuilt' = (m_reapersBuilt + 1) % ReaperBatch
    BY DEF OnReaperCreated, ReaperRushOnUnitCreated
  <2> QED BY <2>1, <2>2
<1>3. UNCHANGED <<view, listed, commanded, builderVars, m_skip_turn, phase>>
  BY DEF OnReaperCreated
<1> QED BY <1>1, <1>2, <1>3
        DEF TypeInv, TypeOK, BotTypeOK, builderVars, queueVars, budgetVars

LEMMA OnUnitIdleType ==
    ASSUME TypeInv, NEW u \in Tag, OnUnitIdle(u)
    PROVE  BotTypeOK'
<1>1. view' \in [Tag -> Structure]
  BY RefreshType DEF TypeInv, OnUnitIdle
<1>2. events' \in EventRecord
  BY DEF TypeInv, TypeOK, OnUnitIdle, EventRecord
<1>3. ReaperRushOnUnitIdle(u)
  BY DEF OnUnitIdle
<1>4. constructions' \in Seq(UnitType)
  <2>1. \/ UNCHANGED constructions
        \/ ScheduleConstruction("BarracksReactor", TRUE, Standing')
    BY <1>3 DEF ReaperRushOnUnitIdle, queueVars
  <2> QED BY <2>1, ScheduleConstructionType, UnitTypeDataAssumption DEF TypeInv, TypeOK
<1>5. trainings' \in Seq(TrainingOrder)
  <2> DEFINE reaper == [type |-> "Reaper", assignee |-> u]
  <2>1. reaper \in TrainingOrder
    BY UnitTypeDataAssumption DEF TrainingOrder
  <2>2. <<reaper>> \in Seq(TrainingOrder) /\ <<reaper, reaper>> \in Seq(TrainingOrder)
    BY <2>1
  <2>3. \/ UNCHANGED trainings
        \/ trainings' = trainings \o <<reaper>>
        \/ trainings' = trainings \o <<reaper, reaper>>
    BY <1>3 DEF ReaperRushOnUnitIdle, queueVars
  <2> HIDE DEF reaper
  <2>4. trainings \in Seq(TrainingOrder)
    BY DEF TypeInv, TypeOK
  <2>5. /\ trainings \o <<reaper>> \in Seq(TrainingOrder)
        /\ trainings \o <<reaper, reaper>> \in Seq(TrainingOrder)
    BY <2>2, <2>4, ConcatProperties
  <2> QED BY <2>3, <2>4, <2>5
<1>6. UNCHANGED <<listed, commanded, budgetVars, cursor, pluginVars, phase>>
  BY DEF OnUnitIdle
<1> QED BY <1>1, <1>2, <1>4, <1>5, <1>6 DEF TypeInv, TypeOK, BotTypeOK, budgetVars, pluginVars

LEMMA ApiOnStepType == TypeInv /\ ApiOnStep => BotTypeOK'
<1> SUFFICES ASSUME TypeInv, ApiOnStep PROVE BotTypeOK'
  OBVIOUS
<1>1. view' \in [Tag -> Structure]
  BY DEF ApiOnStep, RefreshAll, TypeInv, TypeOK
<1>2. listed' \subseteq Tag
  BY DEF ApiOnStep, RefreshAll, Existing
<1>3. phase' \in Phases
  BY DEF ApiOnStep, Phases
<1>4. UNCHANGED <<commanded, events, builderVars, pluginVars>>
  BY DEF ApiOnStep
<1> QED BY <1>1, <1>2, <1>3, <1>4
        DEF TypeInv, TypeOK, BotTypeOK, builderVars, queueVars, budgetVars, pluginVars

LEMMA MinerOnStepType == TypeInv /\ MinerOnStep => BotTypeOK'
<1> SUFFICES ASSUME TypeInv, MinerOnStep PROVE BotTypeOK'
  OBVIOUS
<1>1. trainings' \in Seq(TrainingOrder)
  <2>1. PICK visited \in SUBSET TownHalls :
           \E halls \in SetToSeqs({u \in visited : NeedsWorkerOrder(u)}) :
              trainings' = trainings \o
                 [i \in DOMAIN halls |-> [type |-> "SCV", assignee |-> halls[i]]]
    BY DEF MinerOnStep, SecureMineralsIncome
  <2> DEFINE idle == {u \in visited : NeedsWorkerOrder(u)}
  <2>2. PICK halls \in SetToSeqs(idle) :
           trainings' = trainings \o
              [i \in DOMAIN halls |-> [type |-> "SCV", assignee |-> halls[i]]]
    BY <2>1
  <2>3. idle \subseteq Tag
    BY DEF TownHalls, TypeInv, TypeOK
  <2> HIDE DEF idle
  <2>4. Cardinality(idle) \in Nat
    BY <2>3, GameAssumption, FS_Subset, FS_CardinalityType
  <2>5. halls \in [1 .. Cardinality(idle) -> idle]
    BY <2>2 DEF SetToSeqs
  <2> DEFINE orders == [i \in DOMAIN halls |-> [type |-> "SCV", assignee |-> halls[i]]]
  <2>6. orders \in [1 .. Cardinality(idle) -> TrainingOrder]
    BY <2>3, <2>5, UnitTypeDataAssumption DEF TrainingOrder
  <2>7. orders \in Seq(TrainingOrder)
    BY <2>4, <2>6, IsASeq
  <2> QED BY <2>2, <2>7, ConcatProperties DEF TypeInv, TypeOK
<1>2. phase' \in Phases
  BY DEF MinerOnStep, Phases
<1>3. UNCHANGED <<obsVars, constructions, budgetVars, cursor, pluginVars>>
  BY DEF MinerOnStep
<1> QED BY <1>1, <1>2, <1>3 DEF TypeInv, TypeOK, BotTypeOK, obsVars, budgetVars, pluginVars

LEMMA QuarterMasterOnStepType == TypeInv /\ QuarterMasterOnStep => BotTypeOK'
<1> SUFFICES ASSUME TypeInv, QuarterMasterOnStep PROVE BotTypeOK'
  OBVIOUS
<1>1. \/ UNCHANGED <<constructions, m_skip_turn>>
      \/ m_skip_turn' = TRUE /\ ScheduleConstruction("SupplyDepot", TRUE, Standing)
  BY DEF QuarterMasterOnStep, RequestSupplies
<1>2. constructions' \in Seq(UnitType) /\ m_skip_turn' \in BOOLEAN
  BY <1>1, ScheduleConstructionType, UnitTypeDataAssumption DEF TypeInv, TypeOK
<1>3. phase' \in Phases
  BY DEF QuarterMasterOnStep, Phases
<1>4. UNCHANGED <<obsVars, trainings, budgetVars, cursor, m_reapersBuilt>>
  BY DEF QuarterMasterOnStep
<1> QED BY <1>2, <1>3, <1>4 DEF TypeInv, TypeOK, BotTypeOK, obsVars, budgetVars

LEMMA BuilderOnStepType == TypeInv /\ BuilderOnStep => TypeOK'
<1> SUFFICES ASSUME TypeInv, BuilderOnStep PROVE TypeOK'
  OBVIOUS
<1> DEFINE t == Head(constructions)
           food == foodCap - foodUsed
<1>0. minerals \in Nat /\ vespene \in Nat /\ food \in Int
  BY DEF TypeInv, TypeOK
<1>1. /\ commands' \in Seq(Command) /\ constructions' \in Seq(UnitType)
      /\ m_minerals' \in Nat /\ m_vespene' \in Nat /\ m_available_food' \in Int
      /\ mishaps' \in 0 .. MaxMishaps
      /\ UNCHANGED trainings
  <2>1. CASE BuildHead
    <3>1. t \in UnitType /\ Tail(constructions) \in Seq(UnitType)
      BY <2>1, HeadTailProperties DEF BuildHead, TypeInv, TypeOK
    <3>2. Affordable(t, minerals, vespene, food)
      BY <2>1 DEF BuildHead
    <3>3. PICK u \in Producers(t, NullTag) :
             Issue(t, u) /\ Deduct(t, minerals, vespene, food)
      BY <2>1 DEF BuildHead
    <3>4. constructions' = Tail(constructions) /\ UNCHANGED <<trainings, mishaps>>
      BY <2>1 DEF BuildHead
    <3> HIDE DEF t, food
    <3>5. u \in Tag \cup {NullTag}
      BY <3>1, <3>3, ProducersType, TypeSplit DEF TypeInv
    <3>6. commands' \in Seq(Command)
      BY <3>1, <3>3, <3>5, IssueType, TypeSplit DEF TypeInv
    <3>7. m_minerals' \in Nat /\ m_vespene' \in Nat /\ m_available_food' \in Int
      BY <1>0, <3>1, <3>2, <3>3, DeductType
    <3> QED BY <3>1, <3>4, <3>6, <3>7 DEF TypeInv, TypeOK
  <2>2. CASE HeadWaits
    <3>1. /\ m_minerals' = minerals /\ m_vespene' = vespene /\ m_available_food' = food
          /\ UNCHANGED <<queueVars, commands>>
          /\ \/ UNCHANGED mishaps
             \/ Mishap("crowded")
      BY <2>2 DEF HeadWaits
    <3> HIDE DEF food
    <3>2. mishaps' \in 0 .. MaxMishaps
      BY <3>1, GameAssumption DEF TypeInv, TypeOK, Mishap
    <3> QED BY <1>0, <3>1, <3>2 DEF TypeInv, TypeOK, queueVars
  <2> QED BY <2>1, <2>2 DEF BuilderOnStep
<1>2. cursor' \in Nat \ {0}
  BY DEF BuilderOnStep
<1>3. phase' \in Phases
  BY DEF BuilderOnStep, Phases
<1>4. UNCHANGED <<units, bankVars, foodCap, popVars, travelling, obsVars, pluginVars>>
  BY DEF BuilderOnStep
<1> QED BY <1>1, <1>2, <1>3, <1>4 DEF TypeInv, TypeOK, bankVars, popVars, obsVars, pluginVars

LEMMA TrainNextType == TypeInv /\ TrainNext => TypeOK'
<1> SUFFICES ASSUME TypeInv, TrainNext PROVE TypeOK'
  OBVIOUS
<1> DEFINE o == trainings[cursor]
<1>1. trainings \in Seq(TrainingOrder) /\ cursor \in Nat \ {0} /\ cursor \in DOMAIN trainings
  BY DEF TypeInv, TypeOK, TrainNext, BuildTraining
<1>2. o \in TrainingOrder
  BY <1>1, ElementOfSeq, LenProperties
<1>3. o.type \in UnitType /\ o.assignee \in Tag \cup {NullTag}
  BY <1>2 DEF TrainingOrder
<1>4. /\ commands' \in Seq(Command) /\ trainings' \in Seq(TrainingOrder)
      /\ m_minerals' \in Nat /\ m_vespene' \in Nat /\ m_available_food' \in Int
      /\ cursor' \in Nat \ {0}
  <2> DEFINE able == Affordable(o.type, m_minerals, m_vespene, m_available_food)
             who == Producers(o.type, o.assignee)
  <2>1. CASE able /\ who # {}
    <3>1. /\ \E u \in who : Issue(o.type, u)
          /\ Deduct(o.type, m_minerals, m_vespene, m_available_food)
          /\ trainings' = RemoveAt(trainings, cursor)
          /\ UNCHANGED cursor
      BY <2>1 DEF TrainNext, BuildTraining
    <3>2. PICK u \in who : Issue(o.type, u)
      BY <3>1
    <3> HIDE DEF o
    <3>3. u \in Tag \cup {NullTag}
      BY <1>3, <3>2, ProducersType, TypeSplit DEF TypeInv
    <3>4. commands' \in Seq(Command)
      BY <1>3, <3>2, <3>3, IssueType, TypeSplit DEF TypeInv
    <3>5. m_minerals' \in Nat /\ m_vespene' \in Nat /\ m_available_food' \in Int
      BY <1>3, <2>1, <3>1, DeductType DEF TypeInv, TypeOK
    <3>6. trainings' \in Seq(TrainingOrder)
      <4>1. Len(trainings) \in Nat /\ \A j \in 1 .. Len(trainings) : trainings[j] \in TrainingOrder
        BY <1>1, LenProperties, ElementOfSeq
      <4>2. cursor \in 1 .. Len(trainings)
        BY <1>1, LenProperties
      <4>3. SubSeq(trainings, 1, cursor - 1) \in Seq(TrainingOrder)
        BY <1>1, <4>1, <4>2, SubSeqProperties
      <4>4. SubSeq(trainings, cursor + 1, Len(trainings)) \in Seq(TrainingOrder)
        BY <1>1, <4>1, <4>2, SubSeqProperties
      <4> QED BY <3>1, <4>3, <4>4, ConcatProperties DEF RemoveAt
    <3> QED BY <1>1, <3>1, <3>4, <3>5, <3>6
  <2>2. CASE ~(able /\ who # {})
    <3>1. cursor' = cursor + 1 /\ UNCHANGED <<trainings, budgetVars, commands>>
      BY <2>2 DEF TrainNext, BuildTraining
    <3> QED BY <3>1 DEF TypeInv, TypeOK, budgetVars
  <2> QED BY <2>1, <2>2
<1>5. UNCHANGED <<units, bankVars, foodCap, popVars, travelling, mishaps, obsVars,
                  pluginVars, phase, constructions>>
  BY DEF TrainNext, BuildTraining
<1> QED BY <1>4, <1>5 DEF TypeInv, TypeOK, bankVars, popVars, obsVars, pluginVars

LEMMA SendActionsType == TypeInv /\ SendActions => BotTypeOK'
<1> SUFFICES ASSUME TypeInv, SendActions PROVE BotTypeOK'
  OBVIOUS
<1>1. commanded' \subseteq Tag
  <2>1. \A i \in DOMAIN commands : commands[i].unit \in Tag \cup {NullTag}
    <3>1. \A i \in DOMAIN commands : commands[i] \in Command
      BY ElementOfSeq, LenProperties DEF TypeInv, TypeOK
    <3> QED BY <3>1 DEF Command
  <2> QED BY <2>1 DEF SendActions
<1>2. cursor' \in Nat \ {0}
  BY DEF SendActions
<1>3. phase' \in Phases
  BY DEF SendActions, Phases
<1>4. UNCHANGED <<view, listed, events, queueVars, budgetVars, pluginVars>>
  BY DEF SendActions
<1> QED BY <1>1, <1>2, <1>3, <1>4 DEF TypeInv, TypeOK, BotTypeOK, queueVars, budgetVars, pluginVars

LEMMA ObserveType == TypeInv /\ Observe => TypeOK'
<1> SUFFICES ASSUME TypeInv, Observe PROVE TypeOK'
  OBVIOUS
<1>1. events' \in EventRecord
  <2>1. events' = NewEvents /\ listed \subseteq Tag /\ reapers \in Nat
    BY DEF TypeInv, TypeOK, Observe
  <2> QED BY <2>1 DEF NewEvents, Existing, EventRecord
<1>2. reapers' \in Nat
  BY DEF Observe
<1>3. phase' \in Phases
  BY DEF Observe, Phases
<1>4. UNCHANGED <<units, bankVars, foodCap, foodUsed, workers, commands,
                  travelling, mishaps, view, listed, commanded, builderVars,
                  pluginVars>>
  BY DEF Observe
<1> QED BY <1>1, <1>2, <1>3, <1>4
        DEF TypeInv, TypeOK, bankVars, builderVars, queueVars, budgetVars, pluginVars

(***************************************************************************)
(* Occupied.                                                               *)
(***************************************************************************)
GameOccupied == \A u \in Tag : units[u].alive \/ units[u].built => units[u].type # NoType
ViewOccupied == \A u \in Tag : view[u].built => view[u].type # NoType

LEMMA OccupiedSplit == Occupied <=> GameOccupied /\ ViewOccupied
BY DEF Occupied, GameOccupied, ViewOccupied
(* The structure at v keeps its type, or its tag was vacant and now carries *)
(* a site; it is alive or built only if it was, or its site is.             *)
Kept(v) == /\ units'[v].type = units[v].type
           /\ units'[v].alive => units[v].alive
           /\ units'[v].built => units[v].built \/ units[v].alive
Laid(v, t) == units[v].type = NoType /\ units'[v] = Site(t)

LEMMA SiteFields ==
    ASSUME NEW t
    PROVE  /\ Site(t).type = t /\ Site(t).alive = TRUE /\ Site(t).built = FALSE
           /\ Site(t).orders = <<>> /\ Site(t).addon = NullTag
BY DEF Site, Vacant

LEMMA NextTagVacant == VacantTags # {} => NextTag \in Tag /\ units[NextTag].type = NoType
BY DEF NextTag, VacantTags

(* Obeying lays an addon at most. *)
LEMMA ObeyUnits ==
    ASSUME GameTypeOK, Obey
    PROVE  \A v \in Tag : Kept(v) \/ (Plot(Head(commands).type) = "Addon"
                                      /\ Laid(v, Head(commands).type))
<1> SUFFICES ASSUME NEW v \in Tag
             PROVE  Kept(v) \/ (Plot(Head(commands).type) = "Addon"
                                /\ Laid(v, Head(commands).type))
  OBVIOUS
<1> DEFINE c == Head(commands)
           queued == [units EXCEPT ![c.unit].orders = Append(@, c.type)]
<1>1. /\ queued \in [Tag -> [type : UnitType \cup {NoType}, alive : BOOLEAN, built : BOOLEAN,
                             orders : {queued[w].orders : w \in Tag}, addon : Tag \cup {NullTag}]]
      /\ queued[v].type = units[v].type /\ queued[v].alive = units[v].alive
      /\ queued[v].built = units[v].built
  BY DEF GameTypeOK, Structure
<1>2. CASE Plot(c.type) # "Addon"
  <2>1. units' = queued
    BY <1>2 DEF Obey
  <2> QED BY <1>1, <2>1 DEF Kept
<1>3. CASE Plot(c.type) = "Addon"
  <2>1. NextTag \in Tag /\ units[NextTag].type = NoType
    BY <1>3, NextTagVacant DEF Obey
  <2>2. units' = [queued EXCEPT ![c.unit].addon = NextTag, ![NextTag] = Site(c.type)]
    BY <1>3 DEF Obey
  <2> HIDE DEF queued
  <2>3. CASE v = NextTag
    <3>1. units'[v] = Site(c.type)
      BY <1>1, <2>1, <2>2, <2>3
    <3> QED BY <1>3, <2>1, <2>3, <3>1 DEF Laid
  <2>4. CASE v # NextTag
    <3>1. /\ units'[v].type = queued[v].type /\ units'[v].alive = queued[v].alive
          /\ units'[v].built = queued[v].built
      BY <1>1, <2>1, <2>2, <2>4
    <3> QED BY <1>1, <3>1 DEF Kept
  <2> QED BY <2>3, <2>4
<1> QED BY <1>2, <1>3

LEMMA LayUnits ==
    ASSUME GameTypeOK, NEW t \in UnitType, Lay(t)
    PROVE  \A v \in Tag : Kept(v) \/ Laid(v, t)
<1>1. NextTag \in Tag /\ units[NextTag].type = NoType
  BY NextTagVacant DEF Lay
<1>2. units' = [units EXCEPT ![NextTag] = Site(t)]
  BY DEF Lay
<1> QED BY <1>1, <1>2 DEF GameTypeOK, Kept, Laid

LEMMA CompleteUnits ==
    ASSUME GameTypeOK, NEW u \in Tag, Complete(u)
    PROVE  \A v \in Tag : Kept(v)
<1> SUFFICES ASSUME NEW v \in Tag PROVE Kept(v)
  OBVIOUS
<1>1. /\ units[u].alive
      /\ units'[v] = IF v = u THEN [units[v] EXCEPT !.built = TRUE]
                     ELSE IF units[v].addon = u THEN [units[v] EXCEPT !.orders = <<>>]
                     ELSE units[v]
  BY DEF Complete
<1> QED BY <1>1 DEF GameTypeOK, Structure, Kept

LEMMA RazeUnits ==
    ASSUME GameTypeOK, NEW u \in Tag, NEW kind, Raze(u, kind)
    PROVE  \A v \in Tag : Kept(v)
<1> SUFFICES ASSUME NEW v \in Tag PROVE Kept(v)
  OBVIOUS
<1>1. \/ units'[v] = [[units[v] EXCEPT !.alive = FALSE] EXCEPT !.orders = <<>>]
      \/ units'[v] = units[v]
      \/ units'[v] = [[units[v] EXCEPT !.addon = NullTag] EXCEPT !.orders = @]
      \/ units'[v] = [[units[v] EXCEPT !.addon = NullTag] EXCEPT !.orders = <<>>]
  BY DEF Raze
<1> QED BY <1>1 DEF GameTypeOK, Structure, Kept

(* An order that is done changes a type only into another one. *)
LEMMA FinishUnits ==
    ASSUME GameTypeOK, NEW u \in Tag, NEW i \in 1 .. 2, Finish(u, i)
    PROVE  \A v \in Tag : Kept(v) \/ (v = u /\ units[u].alive /\ units'[u].type \in UnitType)
<1> SUFFICES ASSUME NEW v \in Tag
             PROVE  Kept(v) \/ (v = u /\ units[u].alive /\ units'[u].type \in UnitType)
  OBVIOUS
<1> DEFINE t == units[u].orders[i]
           rest == SubSeq(units[u].orders, 1, i - 1)
                   \o SubSeq(units[u].orders, i + 1, Len(units[u].orders))
<1>1. /\ units[u].alive
      /\ units' = [units EXCEPT ![u].orders = rest,
                                ![u].type = IF Plot(t) = "Mutation" THEN t ELSE @]
  BY DEF Finish
<1>2. t \in UnitType
  <2>1. units[u].orders \in Seq(UnitType)
    BY DEF GameTypeOK, Structure
  <2> QED BY <2>1, LenProperties, ElementOfSeq DEF Finish
<1> HIDE DEF rest, t
<1>3. CASE Plot(t) = "Mutation"
  BY <1>1, <1>2, <1>3 DEF GameTypeOK, Structure, Kept
<1>4. CASE Plot(t) # "Mutation"
  BY <1>1, <1>4 DEF GameTypeOK, Structure, Kept
<1> QED BY <1>3, <1>4

(* What the game does to a tag, told once for all its actions. *)
Change(v) ==
    \/ Kept(v)
    \/ \E t \in UnitType : Laid(v, t)
    \/ units[v].alive /\ units'[v].type \in UnitType

GameAction ==
    \/ SetOut \/ Obey \/ Refuse \/ Income
    \/ \E t \in UnitType : Lay(t) \/ FailToLay(t)
    \/ \E u \in Tag : Complete(u) \/ Raze(u, "razed") \/ Raze(u, "unfinished")
    \/ \E u \in Tag, i \in 1 .. 2 : Finish(u, i)

LEMMA GameChange ==
    ASSUME GameTypeOK, GameAction
    PROVE  GameTypeOK' /\ \A v \in Tag : Change(v)
<1>0. UNCHANGED units => \A v \in Tag : Change(v)
  BY DEF Change, Kept
<1>1. CASE SetOut \/ Refuse \/ Income
  BY <1>0, <1>1, SetOutType, RefuseType, IncomeType DEF SetOut, Refuse, Income
<1>2. CASE Obey
  <2>1. Head(commands).type \in UnitType
    BY <1>2, CommandType DEF Obey, GameTypeOK
  <2> QED BY <1>2, <2>1, ObeyType, ObeyUnits DEF Change
<1>3. ASSUME NEW t \in UnitType, Lay(t) PROVE GameTypeOK' /\ \A v \in Tag : Change(v)
  BY <1>3, LayType, LayUnits DEF Change
<1>4. ASSUME NEW t \in UnitType, FailToLay(t) PROVE GameTypeOK' /\ \A v \in Tag : Change(v)
  BY <1>0, <1>4, FailToLayType DEF FailToLay
<1>5. ASSUME NEW u \in Tag, Complete(u) PROVE GameTypeOK' /\ \A v \in Tag : Change(v)
  BY <1>5, CompleteType, CompleteUnits DEF Change
<1>6. ASSUME NEW u \in Tag, NEW kind, Raze(u, kind)
      PROVE  GameTypeOK' /\ \A v \in Tag : Change(v)
  BY <1>6, RazeType, RazeUnits DEF Change
<1>7. ASSUME NEW u \in Tag, NEW i \in 1 .. 2, Finish(u, i)
      PROVE  GameTypeOK' /\ \A v \in Tag : Change(v)
  BY <1>7, FinishType, FinishUnits DEF Change
<1> QED BY <1>1, <1>2, <1>3, <1>4, <1>5, <1>6, <1>7 DEF GameAction

LEMMA GameOccupiedStep ==
    ASSUME GameTypeOK, GameOccupied, GameAction
    PROVE  GameOccupied'
<1> SUFFICES ASSUME NEW v \in Tag, units'[v].alive \/ units'[v].built
             PROVE  units'[v].type # NoType
  BY DEF GameOccupied
<1>1. Change(v)
  BY GameChange
<1>2. CASE Kept(v)
  BY <1>2 DEF Kept, GameOccupied
<1>3. ASSUME NEW t \in UnitType, Laid(v, t) PROVE units'[v].type # NoType
  <2>1. units'[v] = Site(t)
    BY <1>3 DEF Laid
  <2>2. Site(t).type = t
    BY SiteFields
  <2> QED BY <2>1, <2>2, UnitTypeDataAssumption
<1>4. CASE units'[v].type \in UnitType
  BY <1>4, UnitTypeDataAssumption
<1> QED BY <1>1, <1>2, <1>3, <1>4 DEF Change

LEMMA RefreshOccupied ==
    ASSUME TypeInv, NEW u \in Tag, Refresh(u), UNCHANGED units
    PROVE  Occupied'
<1>1. \A v \in Tag : v # u => view'[v] = view[v]
  BY DEF Refresh, TypeInv, TypeOK
<1>2. view'[u] = units[u] \/ view'[u] = [view[u] EXCEPT !.alive = FALSE]
  BY DEF Refresh, TypeInv, TypeOK
<1>3. view[u] \in Structure
  BY DEF TypeInv, TypeOK
<1>4. view'[u].built => view'[u].type # NoType
  BY <1>2, <1>3 DEF TypeInv, Occupied, Structure
<1> QED BY <1>1, <1>4 DEF TypeInv, Occupied

(***************************************************************************)
(* The step lemma and the theorem.                                         *)
(***************************************************************************)
(* The game's steps are game actions that leave the bot alone, or Observe. *)
LEMMA GameStepIsAction ==
    GameStep => Observe \/ (GameAction /\ UNCHANGED botVars)
<1> SUFFICES ASSUME GameStep, ~Observe PROVE GameAction /\ UNCHANGED botVars
  OBVIOUS
<1>1. CASE HandleCommand \/ Earn
  BY <1>1 DEF HandleCommand, Earn, GameAction
<1>2. ASSUME NEW t \in UnitType, LayStructure(t) \/ LoseStructure(t)
      PROVE  GameAction /\ UNCHANGED botVars
  BY <1>2 DEF LayStructure, LoseStructure, GameAction
<1>3. ASSUME NEW u \in Tag, CompleteStructure(u) \/ RazeStructure(u)
      PROVE  GameAction /\ UNCHANGED botVars
  BY <1>3 DEF CompleteStructure, RazeStructure, GameAction
<1>4. ASSUME NEW u \in Tag, NEW i \in 1 .. 2, FinishOrder(u, i)
      PROVE  GameAction /\ UNCHANGED botVars
  BY <1>4 DEF FinishOrder, GameAction
<1> QED BY <1>1, <1>2, <1>3, <1>4 DEF GameStep

LEMMA InitOccupied == Init => Occupied
<1> SUFFICES ASSUME Init, NEW u \in Tag, units[u].alive \/ units[u].built
             PROVE  units[u].type # NoType
  BY DEF Init, Occupied
<1>1. CASE u = 1
  <2>1. units[u].type = "CommandCenter"
    BY <1>1 DEF Init, Site, Vacant
  <2> QED BY <2>1, UnitTypeDataAssumption
<1>2. CASE u # 1
  BY <1>2 DEF Init, Vacant
<1> QED BY <1>1, <1>2

LEMMA TypeJoin == GameTypeOK' /\ BotTypeOK' => TypeOK'
BY DEF TypeOK, GameTypeOK, BotTypeOK

LEMMA BotStepTypeInv == TypeInv /\ BotStep => TypeInv'
<1> SUFFICES ASSUME TypeInv, BotStep PROVE TypeInv'
  OBVIOUS
<1>0. /\ UNCHANGED gameVars => GameTypeOK' /\ UNCHANGED units
      /\ UNCHANGED obsVars => UNCHANGED view
      /\ UNCHANGED <<units, view>> => Occupied'
  <2>1. UNCHANGED gameVars => GameTypeOK'
    BY TypeSplit, GameStutter DEF TypeInv
  <2>2. UNCHANGED <<units, view>> => Occupied'
    BY DEF TypeInv, Occupied
  <2> QED BY <2>1, <2>2 DEF gameVars, obsVars
<1>j. GameTypeOK' /\ BotTypeOK' /\ Occupied' => TypeInv'
  BY TypeJoin DEF TypeInv
<1>1. CASE ScheduleOpening
  <2>1. UNCHANGED gameVars /\ UNCHANGED obsVars
    BY <1>1 DEF ScheduleOpening
  <2> QED BY <1>0, <1>j, <1>1, <2>1, ScheduleOpeningType, TypeSplit DEF TypeInv
<1>2. ASSUME NEW u \in Tag, OnUnitDestroyed(u) PROVE TypeInv'
  <2>1. UNCHANGED gameVars /\ Refresh(u)
    BY <1>2 DEF OnUnitDestroyed
  <2> QED BY <1>0, <1>j, <1>2, <2>1, OnUnitDestroyedType, RefreshOccupied
<1>3. ASSUME NEW u \in Tag, OnUnitCreated(u) PROVE TypeInv'
  <2>1. UNCHANGED gameVars /\ Refresh(u)
    BY <1>3 DEF OnUnitCreated
  <2> QED BY <1>0, <1>j, <1>3, <2>1, OnUnitCreatedType, RefreshOccupied
<1>4. ASSUME NEW u \in Tag, OnUnitIdle(u) PROVE TypeInv'
  <2>1. UNCHANGED gameVars /\ Refresh(u)
    BY <1>4 DEF OnUnitIdle
  <2> QED BY <1>0, <1>j, <1>4, <2>1, OnUnitIdleType, RefreshOccupied
<1>5. CASE OnReaperCreated
  <2>1. UNCHANGED gameVars /\ UNCHANGED view
    BY <1>5 DEF OnReaperCreated
  <2> QED BY <1>0, <1>j, <1>5, <2>1, OnReaperCreatedType
<1>6. CASE ApiOnStep
  <2>1. UNCHANGED gameVars /\ RefreshAll
    BY <1>6 DEF ApiOnStep
  <2>2. Occupied'
    BY <1>0, <2>1 DEF RefreshAll, TypeInv, Occupied
  <2> QED BY <1>0, <1>j, <1>6, <2>1, <2>2, ApiOnStepType
<1>7. CASE MinerOnStep
  <2>1. UNCHANGED gameVars /\ UNCHANGED obsVars
    BY <1>7 DEF MinerOnStep
  <2> QED BY <1>0, <1>j, <1>7, <2>1, MinerOnStepType
<1>8. CASE QuarterMasterOnStep
  <2>1. UNCHANGED gameVars /\ UNCHANGED obsVars
    BY <1>8 DEF QuarterMasterOnStep
  <2> QED BY <1>0, <1>j, <1>8, <2>1, QuarterMasterOnStepType
<1>9. CASE BuilderOnStep
  <2>1. UNCHANGED <<units, obsVars>>
    BY <1>9 DEF BuilderOnStep
  <2> QED BY <1>0, <1>9, <2>1, BuilderOnStepType DEF TypeInv
<1>10. CASE TrainNext
  <2>1. UNCHANGED <<units, obsVars>>
    BY <1>10 DEF TrainNext
  <2> QED BY <1>0, <1>10, <2>1, TrainNextType DEF TypeInv
<1>11. CASE SendActions
  <2>1. UNCHANGED gameVars /\ UNCHANGED view
    BY <1>11 DEF SendActions
  <2> QED BY <1>0, <1>j, <1>11, <2>1, SendActionsType
<1> QED BY <1>1, <1>2, <1>3, <1>4, <1>5, <1>6, <1>7, <1>8, <1>9, <1>10, <1>11 DEF BotStep

LEMMA GameStepTypeInv == TypeInv /\ GameStep => TypeInv'
<1> SUFFICES ASSUME TypeInv, GameStep PROVE TypeInv'
  OBVIOUS
<1>1. CASE Observe
  <2>1. Occupied'
    BY <1>1 DEF Observe, TypeInv, Occupied
  <2> QED BY <1>1, <2>1, ObserveType DEF TypeInv
<1>2. CASE GameAction /\ UNCHANGED botVars
  <2>1. GameTypeOK' /\ BotTypeOK'
    BY <1>2, TypeSplit, GameChange, BotStutter DEF TypeInv
  <2>2. GameOccupied'
    BY <1>2, TypeSplit, OccupiedSplit, GameOccupiedStep DEF TypeInv
  <2>3. ViewOccupied'
    BY <1>2, OccupiedSplit DEF TypeInv, ViewOccupied, botVars, obsVars
  <2>4. TypeOK'
    BY <2>1 DEF TypeOK, GameTypeOK, BotTypeOK
  <2>5. Occupied'
    BY <2>2, <2>3 DEF Occupied, GameOccupied, ViewOccupied
  <2> QED BY <2>4, <2>5 DEF TypeInv
<1> QED BY <1>1, <1>2, GameStepIsAction

LEMMA TypeInvStutter == TypeInv /\ UNCHANGED vars => TypeInv'
BY DEF TypeInv, TypeOK, Occupied, vars, gameVars, bankVars, popVars, obsVars,
       builderVars, queueVars, budgetVars, pluginVars

(* Types and Occupied are one inductive invariant of the bot and the game.  *)
THEOREM TypeInvariance == Spec => []TypeInv
<1>1. Init => TypeInv
  BY InitType, InitOccupied DEF TypeInv
<1>2. TypeInv /\ [Next]_vars => TypeInv'
  BY BotStepTypeInv, GameStepTypeInv, TypeInvStutter DEF Next
<1> QED BY <1>1, <1>2, PTL DEF Spec

(* Every variable always has its type: the budget, which is unsigned in     *)
(* Builder.h, included.                                                     *)
THEOREM TypeCorrect == Spec => []TypeOK
<1>1. TypeInv => TypeOK
  BY DEF TypeInv
<1> QED BY <1>1, TypeInvariance, PTL
=============================================================================
