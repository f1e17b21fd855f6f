---------------------------- MODULE SupplyProofs ----------------------------
(***************************************************************************)
(* QuarterMaster keeps the promise of SupplyRequest, for every value of    *)
(* the constants, as long as no SCV is lost or finds the money spent, and  *)
(* no site is razed before the bot has seen it finished.                   *)
(***************************************************************************)
EXTENDS DispatcherProofs

(***************************************************************************)
(* Sequences.                                                              *)
(***************************************************************************)
Elems(s) == {s[i] : i \in DOMAIN s}

LEMMA ElemsConcat ==
    ASSUME NEW S, NEW s \in Seq(S), NEW t \in Seq(S)
    PROVE  Elems(s) \subseteq Elems(s \o t) /\ Elems(t) \subseteq Elems(s \o t)
<1>1. /\ s \o t \in Seq(S) /\ Len(s \o t) = Len(s) + Len(t)
      /\ \A i \in 1 .. Len(s) + Len(t) :
            (s \o t)[i] = IF i <= Len(s) THEN s[i] ELSE t[i - Len(s)]
  BY ConcatProperties
<1>2. /\ DOMAIN s = 1 .. Len(s) /\ DOMAIN t = 1 .. Len(t)
      /\ DOMAIN (s \o t) = 1 .. Len(s) + Len(t)
      /\ Len(s) \in Nat /\ Len(t) \in Nat
  BY <1>1, LenProperties
<1>3. ASSUME NEW i \in 1 .. Len(s) PROVE s[i] \in Elems(s \o t)
  <2>1. i \in 1 .. Len(s) + Len(t) /\ (s \o t)[i] = s[i]
    BY <1>1, <1>2
  <2> QED BY <1>2, <2>1 DEF Elems
<1>4. ASSUME NEW i \in 1 .. Len(t) PROVE t[i] \in Elems(s \o t)
  <2>1. i + Len(s) \in 1 .. Len(s) + Len(t) /\ ~(i + Len(s) <= Len(s)) /\ i + Len(s) - Len(s) = i
    BY <1>2
  <2>2. (s \o t)[i + Len(s)] = t[i]
    BY <1>1, <2>1
  <2> QED BY <1>2, <2>1, <2>2 DEF Elems
<1> QED BY <1>2, <1>3, <1>4 DEF Elems

LEMMA ElemsHeadTail ==
    ASSUME NEW S, NEW s \in Seq(S), s # <<>>
    PROVE  \A x \in Elems(s) : x = Head(s) \/ x \in Elems(Tail(s))
<1> SUFFICES ASSUME NEW i \in DOMAIN s, s[i] # Head(s) PROVE s[i] \in Elems(Tail(s))
  BY DEF Elems
<1>1. /\ Head(s) = s[1] /\ Tail(s) \in Seq(S) /\ Len(Tail(s)) = Len(s) - 1
      /\ \A j \in 1 .. Len(Tail(s)) : Tail(s)[j] = s[j + 1]
  BY HeadTailProperties
<1>2. Len(s) \in Nat /\ i \in 1 .. Len(s) /\ DOMAIN Tail(s) = 1 .. Len(Tail(s))
  BY <1>1, LenProperties
<1>3. i - 1 \in 1 .. Len(Tail(s)) /\ i - 1 + 1 = i
  BY <1>1, <1>2
<1>4. Tail(s)[i - 1] = s[i]
  BY <1>1, <1>3
<1> QED BY <1>2, <1>3, <1>4 DEF Elems

LEMMA ElemsAppend ==
    ASSUME NEW S, NEW s \in Seq(S), NEW x \in S
    PROVE  Elems(s) \subseteq Elems(Append(s, x)) /\ x \in Elems(Append(s, x))
<1>1. /\ Append(s, x) \in Seq(S) /\ Len(Append(s, x)) = Len(s) + 1
      /\ \A i \in 1 .. Len(s) : Append(s, x)[i] = s[i]
      /\ Append(s, x)[Len(s) + 1] = x
  BY AppendProperties
<1>2. /\ DOMAIN s = 1 .. Len(s) /\ DOMAIN Append(s, x) = 1 .. Len(s) + 1 /\ Len(s) \in Nat
  BY <1>1, LenProperties
<1>3. 1 .. Len(s) \subseteq 1 .. Len(s) + 1 /\ Len(s) + 1 \in 1 .. Len(s) + 1
  BY <1>2
<1> QED BY <1>1, <1>2, <1>3 DEF Elems

LEMMA ElemsSingle == \A x : x \in Elems(<<x>>)
BY DEF Elems

(***************************************************************************)
(* Builder's queue.                                                        *)
(***************************************************************************)
(* What is scheduled is queued, and nothing leaves the queue by it. *)
LEMMA ScheduleConstructionGrows ==
    ASSUME constructions \in Seq(UnitType), NEW t \in UnitType, NEW urgent,
           NEW standing, ScheduleConstruction(t, urgent, standing)
    PROVE  /\ Elems(constructions) \subseteq Elems(constructions')
           /\ t \in Elems(constructions')
<1>1. PICK n \in 0 .. Len(TechLine[t]) :
          constructions' = IF urgent THEN <<t>> \o constructions \o Required(t, n)
                           ELSE constructions \o Required(t, n) \o <<t>>
  BY DEF ScheduleConstruction
<1> DEFINE r == Required(t, n)
<1>2. r \in Seq(UnitType) /\ <<t>> \in Seq(UnitType)
  BY RequiredType
<1> HIDE DEF r
<1>3. <<t>> \o constructions \in Seq(UnitType) /\ constructions \o r \in Seq(UnitType)
  BY <1>2, ConcatProperties
<1>4. CASE urgent
  <2>1. constructions' = (<<t>> \o constructions) \o r
    BY <1>1, <1>4 DEF r
  <2>2. /\ Elems(<<t>>) \subseteq Elems(<<t>> \o constructions)
        /\ Elems(constructions) \subseteq Elems(<<t>> \o constructions)
    BY <1>2, ElemsConcat
  <2>3. Elems(<<t>> \o constructions) \subseteq Elems(constructions')
    BY <1>2, <1>3, <2>1, ElemsConcat
  <2> QED BY <2>2, <2>3, ElemsSingle
<1>5. CASE ~urgent
  <2>1. constructions' = (constructions \o r) \o <<t>>
    BY <1>1, <1>5 DEF r
  <2>2. Elems(constructions) \subseteq Elems(constructions \o r)
    BY <1>2, ElemsConcat
  <2>3. /\ Elems(constructions \o r) \subseteq Elems(constructions')
        /\ Elems(<<t>>) \subseteq Elems(constructions')
    BY <1>2, <1>3, <2>1, ElemsConcat
  <2> QED BY <2>2, <2>3, ElemsSingle
<1> QED BY <1>4, <1>5
(***************************************************************************)
(* The inductive invariant.  An addon's tag names an addon, and addons and *)
(* depots have no orders, so that they never become anything else.  What   *)
(* is listed has been seen; while events are issued, what has not been     *)
(* seen is still to be announced, and what is announced has not been seen. *)
(***************************************************************************)
Passive == Addons \cup {"SupplyDepot"}
AddonsAttached ==
    \A u \in Tag :
       /\ units[u].addon # NullTag => units[units[u].addon].type \in Addons \cap UnitType
       /\ units[u].type \in Passive => units[u].orders = <<>>

Announced ==
    /\ \A u \in Tag : view[u].type # NoType => units[u].type # NoType
    /\ \A u \in listed : view[u].type # NoType
    /\ phase = "events" =>
          /\ events.destroyed \subseteq listed
          /\ \A u \in Tag : units[u].alive /\ view[u].type = NoType => u \in events.created

Sighted ==
    /\ \A u \in Tag : view[u].type # NoType =>
          (view[u].type = "SupplyDepot" <=> units[u].type = "SupplyDepot")
    /\ IF phase = "events"
       THEN \A u \in events.created : units[u].alive /\ view[u].type = NoType
       ELSE \A u \in Tag : units[u].alive /\ view[u].type # NoType => u \in listed

SightInv == TypeInv /\ AddonsAttached /\ Announced /\ Sighted

(* SCVs arrive and can pay, and no site is razed unseen. *)
Untroubled == Mishaps \subseteq {"razed", "crowded"}

LEMMA AddonPlot == \A t : Plot(t) = "Addon" <=> t \in Addons
BY DEF Plot, Addons, BarracksUnits, Workers, Mutations

LEMMA DepotPlot == IsStructure("SupplyDepot") /\ "SupplyDepot" \notin Addons
BY DEF IsStructure, Plot, Addons, BarracksUnits, Workers, Mutations

(* Whoever is given an order is neither an addon nor a depot. *)
LEMMA ProducerIsActive ==
    ASSUME ~IsStructure(Head(commands).type), Accepts(Head(commands))
    PROVE  units[Head(commands).unit].type \notin Passive
<1> DEFINE c == Head(commands)
           t == units[c.unit].type
<1>1. IF c.type \in Workers THEN IsTownHall(t) ELSE t = WhoBuilds(c.type)
  BY DEF Accepts
<1>2. c.type \in Addons \cup BarracksUnits \cup Workers \cup Mutations
  BY DEF IsStructure, Plot
<1>3. CASE c.type \in Workers
  BY <1>1, <1>3 DEF IsTownHall, Passive, Addons
<1>4. CASE c.type \notin Workers
  <2>1. t = "Barracks" \/ t = "CommandCenter"
    BY <1>1, <1>2, <1>4 DEF WhoBuilds
  <2> QED BY <2>1 DEF Passive, Addons
<1> QED BY <1>3, <1>4

(***************************************************************************)
(* Addons.                                                                 *)
(***************************************************************************)
LEMMA ObeyAddons ==
    ASSUME GameTypeOK, GameOccupied, AddonsAttached, Obey
    PROVE  AddonsAttached'
<1> DEFINE c == Head(commands)
           queued == [units EXCEPT ![c.unit].orders = Append(@, c.type)]
<1>1. c.type \in UnitType /\ ~IsStructure(c.type) /\ Accepts(c)
  BY CommandType DEF Obey, GameTypeOK
<1>2. units[c.unit].type \notin Passive
  BY <1>1, ProducerIsActive
<1>3. ASSUME NEW v \in Tag
      PROVE  /\ queued[v].type = units[v].type /\ queued[v].addon = units[v].addon
             /\ v # c.unit => queued[v].orders = units[v].orders
  BY DEF GameTypeOK, Structure
<1>4. CASE Plot(c.type) # "Addon"
  <2>1. units' = queued
    BY <1>4 DEF Obey
  <2> QED BY <1>2, <1>3, <2>1 DEF AddonsAttached, GameTypeOK, Structure
<1>5. CASE Plot(c.type) = "Addon"
  <2>1. NextTag \in Tag /\ units[NextTag].type = NoType
    BY <1>5, NextTagVacant DEF Obey
  <2>2. units' = [queued EXCEPT ![c.unit].addon = NextTag, ![NextTag] = Site(c.type)]
    BY <1>5 DEF Obey
  <2>3. queued \in [Tag -> [type : UnitType \cup {NoType}, alive : BOOLEAN, built : BOOLEAN,
                            orders : {queued[w].orders : w \in Tag}, addon : Tag \cup {NullTag}]]
    BY DEF GameTypeOK, Structure
  <2> HIDE DEF queued
  <2>4. units'[NextTag] = Site(c.type)
    BY <2>1, <2>2, <2>3
  <2>5. ASSUME NEW v \in Tag, v # NextTag
        PROVE  /\ units'[v].type = queued[v].type /\ units'[v].orders = queued[v].orders
               /\ units'[v].addon = queued[v].addon \/ units'[v].addon = NextTag
    BY <2>1, <2>2, <2>3, <2>5
  <2>s. Site(c.type).type = c.type /\ Site(c.type).addon = NullTag /\ Site(c.type).orders = <<>>
    BY SiteFields
  <2>6. units'[NextTag].type \in Addons \cap UnitType
    BY <1>1, <1>5, <2>4, <2>s, AddonPlot
  <2> SUFFICES ASSUME NEW v \in Tag
               PROVE  /\ units'[v].addon # NullTag
                         => units'[units'[v].addon].type \in Addons \cap UnitType
                      /\ units'[v].type \in Passive => units'[v].orders = <<>>
    BY DEF AddonsAttached
  <2>7. CASE v = NextTag
    BY <2>4, <2>7, <2>s
  <2>8. CASE v # NextTag
    <3>1. units'[v].type \in Passive => units'[v].orders = <<>>
      BY <1>2, <1>3, <2>5, <2>8 DEF AddonsAttached
    <3>2. CASE units'[v].addon = NextTag
      BY <2>6, <3>1, <3>2
    <3>3. CASE units'[v].addon = units[v].addon /\ units[v].addon # NullTag
      <4> DEFINE a == units[v].addon
      <4>1. a \in Tag /\ units[a].type \in Addons \cap UnitType
        BY <3>3 DEF AddonsAttached, GameTypeOK, Structure
      <4>2. a # NextTag
        BY <2>1, <4>1, UnitTypeDataAssumption
      <4> QED BY <1>3, <2>5, <3>1, <3>3, <4>1, <4>2
    <3>4. CASE units'[v].addon = units[v].addon /\ units[v].addon = NullTag
      BY <3>1, <3>4
    <3> QED BY <1>3, <2>5, <2>8, <3>2, <3>3, <3>4
  <2> QED BY <2>7, <2>8
<1> QED BY <1>4, <1>5

LEMMA LayAddons ==
    ASSUME GameTypeOK, AddonsAttached, NEW t \in UnitType, Lay(t)
    PROVE  AddonsAttached'
<1>1. NextTag \in Tag /\ units[NextTag].type = NoType
  BY NextTagVacant DEF Lay
<1>2. units' = [units EXCEPT ![NextTag] = Site(t)]
  BY DEF Lay
<1>3. units'[NextTag] = Site(t) /\ \A v \in Tag : v # NextTag => units'[v] = units[v]
  BY <1>1, <1>2 DEF GameTypeOK
<1> SUFFICES ASSUME NEW v \in Tag
             PROVE  /\ units'[v].addon # NullTag
                       => units'[units'[v].addon].type \in Addons \cap UnitType
                    /\ units'[v].type \in Passive => units'[v].orders = <<>>
  BY DEF AddonsAttached
<1>4. CASE v = NextTag
  <2>1. Site(t).addon = NullTag /\ Site(t).orders = <<>>
    BY SiteFields
  <2> QED BY <1>3, <1>4, <2>1
<1>5. CASE v # NextTag
  <2> DEFINE a == units[v].addon
  <2>1. units'[v] = units[v] /\ a \in Tag \cup {NullTag}
    BY <1>3, <1>5 DEF GameTypeOK, Structure
  <2>2. ASSUME a # NullTag PROVE units'[a].type \in Addons \cap UnitType
    <3>1. a \in Tag /\ units[a].type \in Addons \cap UnitType
      BY <2>1, <2>2 DEF AddonsAttached
    <3>2. a # NextTag
      BY <1>1, <3>1, UnitTypeDataAssumption
    <3> QED BY <1>3, <3>1, <3>2
  <2> QED BY <2>1, <2>2 DEF AddonsAttached
<1> QED BY <1>4, <1>5

(* Complete and Raze take orders and addons away, and change no type. *)
LEMMA FewerAddons ==
    ASSUME GameTypeOK, AddonsAttached,
           \A v \in Tag : /\ units'[v].type = units[v].type
                          /\ units'[v].addon \in {units[v].addon, NullTag}
                          /\ units'[v].orders \in {units[v].orders, <<>>}
    PROVE  AddonsAttached'
<1> SUFFICES ASSUME NEW v \in Tag
             PROVE  /\ units'[v].addon # NullTag
                       => units'[units'[v].addon].type \in Addons \cap UnitType
                    /\ units'[v].type \in Passive => units'[v].orders = <<>>
  BY DEF AddonsAttached
<1>1. units[v].addon \in Tag \cup {NullTag}
  BY DEF GameTypeOK, Structure
<1> QED BY <1>1 DEF AddonsAttached

LEMMA CompleteAddons ==
    ASSUME GameTypeOK, AddonsAttached, NEW u \in Tag, Complete(u)
    PROVE  AddonsAttached'
<1>1. ASSUME NEW v \in Tag
      PROVE  /\ units'[v].type = units[v].type
             /\ units'[v].addon \in {units[v].addon, NullTag}
             /\ units'[v].orders \in {units[v].orders, <<>>}
  <2>1. units'[v] = IF v = u THEN [units[v] EXCEPT !.built = TRUE]
                    ELSE IF units[v].addon = u THEN [units[v] EXCEPT !.orders = <<>>]
                    ELSE units[v]
    BY DEF Complete
  <2> QED BY <2>1 DEF GameTypeOK, Structure
<1> QED BY <1>1, FewerAddons

LEMMA RazeAddons ==
    ASSUME GameTypeOK, AddonsAttached, NEW u \in Tag, NEW kind, Raze(u, kind)
    PROVE  AddonsAttached'
<1>1. ASSUME NEW v \in Tag
      PROVE  /\ units'[v].type = units[v].type
             /\ units'[v].addon \in {units[v].addon, NullTag}
             /\ units'[v].orders \in {units[v].orders, <<>>}
  <2>1. \/ units'[v] = [[units[v] EXCEPT !.alive = FALSE] EXCEPT !.orders = <<>>]
        \/ units'[v] = units[v]
        \/ units'[v] = [[units[v] EXCEPT !.addon = NullTag] EXCEPT !.orders = @]
        \/ units'[v] = [[units[v] EXCEPT !.addon = NullTag] EXCEPT !.orders = <<>>]
    BY DEF Raze
  <2> QED BY <2>1 DEF GameTypeOK, Structure
<1> QED BY <1>1, FewerAddons

LEMMA FinishAddons ==
    ASSUME GameTypeOK, AddonsAttached, NEW u \in Tag, NEW i \in 1 .. 2, Finish(u, i)
    PROVE  AddonsAttached'
<1> DEFINE t == units[u].orders[i]
           rest == SubSeq(units[u].orders, 1, i - 1)
                   \o SubSeq(units[u].orders, i + 1, Len(units[u].orders))
<1>1. units' = [units EXCEPT ![u].orders = rest,
                             ![u].type = IF Plot(t) = "Mutation" THEN t ELSE @]
  BY DEF Finish
<1>2. units[u].type \notin Passive
  <2>1. units[u].orders # <<>>
    BY DEF Finish
  <2> QED BY <2>1 DEF AddonsAttached
<1>3. Plot(t) = "Mutation" => t \notin Passive
  BY AddonPlot, DepotPlot DEF Passive, IsStructure
<1> HIDE DEF rest, t
<1>4. \A v \in Tag : /\ v # u => units'[v] = units[v]
                     /\ units'[v].addon = units[v].addon
  BY <1>1 DEF GameTypeOK, Structure
<1>5. units'[u].type \notin Passive
  <2>1. units'[u].type = IF Plot(t) = "Mutation" THEN t ELSE units[u].type
    BY <1>1 DEF GameTypeOK, Structure
  <2> QED BY <1>2, <1>3, <2>1
<1> SUFFICES ASSUME NEW v \in Tag
             PROVE  /\ units'[v].addon # NullTag
                       => units'[units'[v].addon].type \in Addons \cap UnitType
                    /\ units'[v].type \in Passive => units'[v].orders = <<>>
  BY DEF AddonsAttached
<1>6. units'[v].type \in Passive => units'[v].orders = <<>>
  BY <1>4, <1>5 DEF AddonsAttached
<1>7. ASSUME units'[v].addon # NullTag
      PROVE  units'[units'[v].addon].type \in Addons \cap UnitType
  <2> DEFINE a == units[v].addon
  <2>1. a \in Tag /\ units[a].type \in Addons \cap UnitType /\ units'[v].addon = a
    BY <1>4, <1>7 DEF AddonsAttached, GameTypeOK, Structure
  <2>2. a # u
    BY <1>2, <2>1 DEF Passive
  <2> QED BY <1>4, <2>1, <2>2
<1> QED BY <1>6, <1>7

LEMMA GameAddons ==
    ASSUME GameTypeOK, GameOccupied, AddonsAttached, GameAction
    PROVE  AddonsAttached'
<1>0. UNCHANGED units => AddonsAttached'
  BY DEF AddonsAttached
<1>1. CASE SetOut \/ Refuse \/ Income
  BY <1>0, <1>1 DEF SetOut, Refuse, Income
<1>2. CASE Obey
  BY <1>2, ObeyAddons
<1>3. ASSUME NEW t \in UnitType, Lay(t) PROVE AddonsAttached'
  BY <1>3, LayAddons
<1>4. ASSUME NEW t \in UnitType, FailToLay(t) PROVE AddonsAttached'
  BY <1>0, <1>4 DEF FailToLay
<1>5. ASSUME NEW u \in Tag, Complete(u) PROVE AddonsAttached'
  BY <1>5, CompleteAddons
<1>6. ASSUME NEW u \in Tag, NEW kind, Raze(u, kind) PROVE AddonsAttached'
  BY <1>6, RazeAddons
<1>7. ASSUME NEW u \in Tag, NEW i \in 1 .. 2, Finish(u, i) PROVE AddonsAttached'
  BY <1>7, FinishAddons
<1> QED BY <1>1, <1>2, <1>3, <1>4, <1>5, <1>6, <1>7 DEF GameAction
(***************************************************************************)
(* What has been seen, and what is still to be announced.                  *)
(***************************************************************************)
SeenOnce ==
    /\ \A u \in Tag : view[u].type # NoType => units[u].type # NoType
    /\ \A u \in listed : view[u].type # NoType

LEMMA AnnouncedSplit == Announced => SeenOnce
BY DEF Announced, SeenOnce

(* A fresh copy hides nothing, and shows the structure if it stands. *)
LEMMA RefreshSees ==
    ASSUME TypeInv, SeenOnce, NEW u \in Tag, Refresh(u), UNCHANGED <<units, listed>>
    PROVE  /\ SeenOnce'
           /\ \A v \in Tag : v # u => view'[v] = view[v]
           /\ \A v \in Tag : view'[v].type = NoType =>
                 view[v].type = NoType /\ (units[v].alive => v # u)
<1>1. \A v \in Tag : v # u => view'[v] = view[v]
  BY DEF Refresh, TypeInv, TypeOK
<1>2. view'[u].type = IF units[u].alive THEN units[u].type ELSE view[u].type
  BY DEF Refresh, TypeInv, TypeOK, Structure
<1>3. units[u].alive => units[u].type # NoType
  BY DEF TypeInv, Occupied
<1>4. \A v \in Tag : view'[v].type = NoType =>
         view[v].type = NoType /\ (units[v].alive => v # u)
  BY <1>1, <1>2, <1>3 DEF SeenOnce
<1>5. \A v \in Tag : view'[v].type # NoType => units'[v].type # NoType
  BY <1>1, <1>2 DEF SeenOnce
<1>6. \A v \in listed' : view'[v].type # NoType
  BY <1>4 DEF SeenOnce, TypeInv, TypeOK
<1> QED BY <1>1, <1>4, <1>5, <1>6 DEF SeenOnce

LEMMA GameStepInGame == GameStep => phase = "game"
BY DEF GameStep, HandleCommand, Earn, Observe, LayStructure, LoseStructure,
       CompleteStructure, RazeStructure, FinishOrder

LEMMA GameStepAnnounced ==
    ASSUME TypeInv, Announced, GameStep
    PROVE  Announced'
<1>1. CASE Observe
  <2>1. UNCHANGED <<units, view, listed>> /\ events' = NewEvents
    BY <1>1 DEF Observe
  <2>2. SeenOnce'
    BY <2>1 DEF Announced, SeenOnce
  <2>3. events'.destroyed = listed \ Existing /\ events'.created = Existing \ listed
    BY <2>1 DEF NewEvents
  <2>4. \A u \in Tag : units'[u].alive /\ view'[u].type = NoType => u \in events'.created
    BY <2>1, <2>3 DEF Announced, Existing
  <2> QED BY <2>1, <2>2, <2>3, <2>4 DEF Announced, SeenOnce
<1>2. CASE GameAction /\ UNCHANGED botVars
  <2>1. UNCHANGED <<view, listed>> /\ phase' = "game"
    BY <1>2, GameStepInGame DEF botVars, obsVars
  <2>2. ASSUME NEW v \in Tag, units[v].type # NoType PROVE units'[v].type # NoType
    <3>1. Change(v)
      BY <1>2, GameChange, TypeSplit DEF TypeInv
    <3> QED BY <2>2, <3>1, UnitTypeDataAssumption DEF Change, Kept, Laid
  <2> QED BY <2>1, <2>2 DEF Announced
<1> QED BY <1>1, <1>2, GameStepIsAction

LEMMA BotStepAnnounced ==
    ASSUME TypeInv, Announced, BotStep
    PROVE  Announced'
<1>0. SeenOnce
  BY AnnouncedSplit
<1>1. CASE ScheduleOpening \/ MinerOnStep \/ QuarterMasterOnStep \/ SendActions
  <2>1. UNCHANGED <<units, view, listed>> /\ phase' # "events"
    BY <1>1 DEF ScheduleOpening, MinerOnStep, QuarterMasterOnStep, SendActions,
                gameVars, obsVars
  <2> QED BY <2>1 DEF Announced
<1>2. CASE BuilderOnStep \/ TrainNext
  <2>1. UNCHANGED <<units, view, listed>> /\ phase' # "events"
    BY <1>2 DEF BuilderOnStep, TrainNext, obsVars
  <2> QED BY <2>1 DEF Announced
<1>3. ASSUME NEW u \in Tag, OnUnitDestroyed(u) PROVE Announced'
  <2>1. /\ UNCHANGED <<units, listed, phase>> /\ Refresh(u)
        /\ events'.destroyed = events.destroyed \ {u} /\ events'.created = events.created
    BY <1>3 DEF OnUnitDestroyed, gameVars, TypeInv, TypeOK, EventRecord
  <2>2. SeenOnce' /\ \A v \in Tag : view'[v].type = NoType => view[v].type = NoType
    BY <1>0, <2>1, RefreshSees
  <2> QED BY <2>1, <2>2 DEF Announced, SeenOnce
<1>4. ASSUME NEW u \in Tag, OnUnitCreated(u) PROVE Announced'
  <2>1. /\ UNCHANGED <<units, listed, phase>> /\ Refresh(u)
        /\ events'.destroyed = events.destroyed /\ events'.created = events.created \ {u}
    BY <1>4 DEF OnUnitCreated, gameVars, TypeInv, TypeOK, EventRecord
  <2>2. SeenOnce' /\ \A v \in Tag : view'[v].type = NoType =>
                        view[v].type = NoType /\ (units[v].alive => v # u)
    BY <1>0, <2>1, RefreshSees
  <2> QED BY <2>1, <2>2 DEF Announced, SeenOnce
<1>5. ASSUME NEW u \in Tag, OnUnitIdle(u) PROVE Announced'
  <2>1. /\ UNCHANGED <<units, listed, phase>> /\ Refresh(u)
        /\ events'.destroyed = events.destroyed /\ events'.created = events.created
    BY <1>5 DEF OnUnitIdle, gameVars, TypeInv, TypeOK, EventRecord
  <2>2. SeenOnce' /\ \A v \in Tag : view'[v].type = NoType => view[v].type = NoType
    BY <1>0, <2>1, RefreshSees
  <2> QED BY <2>1, <2>2 DEF Announced, SeenOnce
<1>6. CASE OnReaperCreated
  <2>1. /\ UNCHANGED <<units, view, listed, phase>>
        /\ events'.destroyed = events.destroyed /\ events'.created = events.created
    BY <1>6 DEF OnReaperCreated, gameVars, TypeInv, TypeOK, EventRecord
  <2> QED BY <2>1 DEF Announced
<1>7. CASE ApiOnStep
  <2>1. UNCHANGED units /\ phase' # "events" /\ listed' = Existing
        /\ view' = [u \in Tag |-> IF u \in Existing THEN units[u] ELSE view[u]]
    BY <1>7 DEF ApiOnStep, RefreshAll, gameVars
  <2>2. \A u \in Existing : units[u].type # NoType /\ u \in Tag
    BY DEF Existing, TypeInv, Occupied
  <2> QED BY <2>1, <2>2 DEF Announced
<1> QED BY <1>1, <1>2, <1>3, <1>4, <1>5, <1>6, <1>7 DEF BotStep

(***************************************************************************)
(* A depot that is coming keeps coming, whatever the game does.            *)
(***************************************************************************)
LEMMA DepotComingCases ==
    DepotComing => \/ "SupplyDepot" \in Elems(constructions)
                   \/ \E c \in Elems(commands) : c.type = "SupplyDepot"
                   \/ travelling["SupplyDepot"] > 0
                   \/ \E v \in Tag : v \in Unannounced("SupplyDepot")
BY DEF DepotComing, Scheduled, Elems, Unannounced

LEMMA DepotComingNext ==
    /\ "SupplyDepot" \in Elems(constructions') => DepotComing'
    /\ \A c \in Elems(commands') : c.type = "SupplyDepot" => DepotComing'
    /\ travelling'["SupplyDepot"] > 0 => DepotComing'
    /\ \A v \in Tag : units'[v].alive /\ units'[v].type = "SupplyDepot"
                      /\ view'[v].type = NoType => DepotComing'
BY DEF DepotComing, Scheduled, Elems, Unannounced

(* An SCV that sets out takes its command along; nobody else takes one of   *)
(* a structure.                                                             *)
LEMMA CommandComing ==
    ASSUME TypeInv, GameAction, NEW c \in Elems(commands), c.type = "SupplyDepot"
    PROVE  DepotComing'
<1>0. commands \in Seq(Command) /\ travelling \in [UnitType -> Nat]
      /\ "SupplyDepot" \in UnitType
  BY UnitTypeDataAssumption DEF TypeInv, TypeOK
<1>1. commands # <<>> => c = Head(commands) \/ c \in Elems(Tail(commands))
  BY <1>0, ElemsHeadTail
<1>2. CASE SetOut
  <2>1. c \in Elems(Tail(commands)) => DepotComing'
    BY <1>2, DepotComingNext DEF SetOut
  <2>2. c = Head(commands) => travelling'["SupplyDepot"] > 0
    BY <1>0, <1>2 DEF SetOut
  <2> QED BY <1>1, <1>2, <2>1, <2>2, DepotComingNext DEF SetOut
<1>3. CASE Obey \/ Refuse
  <2>1. commands # <<>> /\ ~IsStructure(Head(commands).type) /\ commands' = Tail(commands)
    BY <1>3 DEF Obey, Refuse
  <2>2. c \in Elems(commands')
    BY <1>1, <2>1, DepotPlot
  <2> QED BY <2>2, DepotComingNext
<1>4. CASE commands' = commands
  BY <1>4, DepotComingNext
<1>5. SetOut \/ Obey \/ Refuse \/ commands' = commands
  BY DEF GameAction, Income, Lay, FailToLay, Complete, Raze, Finish
<1> QED BY <1>2, <1>3, <1>4, <1>5

(* An SCV on its way arrives, or goes on: Untroubled.                       *)
LEMMA TravellingComing ==
    ASSUME Untroubled, TypeInv, SeenOnce, GameAction, UNCHANGED botVars,
           travelling["SupplyDepot"] > 0
    PROVE  DepotComing'
<1>0. travelling \in [UnitType -> Nat] /\ "SupplyDepot" \in UnitType
      /\ units \in [Tag -> Structure]
  BY UnitTypeDataAssumption DEF TypeInv, TypeOK
<1>1. CASE SetOut
  <2>1. travelling'["SupplyDepot"] > 0
    BY <1>0, <1>1 DEF SetOut
  <2> QED BY <2>1, DepotComingNext
<1>2. ASSUME NEW t \in UnitType, Lay(t) PROVE DepotComing'
  <2>1. CASE t = "SupplyDepot"
    <3>1. NextTag \in Tag /\ units[NextTag].type = NoType
      BY <1>2, NextTagVacant DEF Lay
    <3>2. units'[NextTag] = Site("SupplyDepot")
      BY <1>0, <1>2, <2>1, <3>1 DEF Lay
    <3>3. Site("SupplyDepot").type = "SupplyDepot" /\ Site("SupplyDepot").alive = TRUE
      BY SiteFields
    <3>4. view'[NextTag].type = NoType
      BY <3>1 DEF SeenOnce, botVars, obsVars
    <3> QED BY <3>1, <3>2, <3>3, <3>4, DepotComingNext
  <2>2. CASE t # "SupplyDepot"
    <3>1. travelling'["SupplyDepot"] > 0
      BY <1>0, <1>2, <2>2 DEF Lay
    <3> QED BY <3>1, DepotComingNext
  <2> QED BY <2>1, <2>2
<1>3. ASSUME NEW t \in UnitType, FailToLay(t) PROVE FALSE
  BY <1>3 DEF FailToLay, Mishap, Untroubled
<1>4. CASE travelling' = travelling
  BY <1>4, DepotComingNext
<1>5. \/ SetOut
      \/ \E t \in UnitType : Lay(t) \/ FailToLay(t)
      \/ travelling' = travelling
  BY DEF GameAction, Income, Obey, Refuse, Complete, Raze, Finish
<1> QED BY <1>1, <1>2, <1>3, <1>4, <1>5

(* What has not been seen is neither razed (Untroubled) nor works.          *)
LEMMA UnseenStays ==
    ASSUME Untroubled, TypeInv, AddonsAttached, SeenOnce, GameStep, ~Observe,
           NEW v \in Unannounced("SupplyDepot")
    PROVE  units'[v].alive /\ units'[v].type = "SupplyDepot"
<1>0. /\ units \in [Tag -> Structure] /\ v \in Tag
      /\ units[v].alive /\ units[v].type = "SupplyDepot" /\ view[v].type = NoType
      /\ units[v].type # NoType /\ units[v].type \notin Addons
  BY UnitTypeDataAssumption, DepotPlot DEF TypeInv, TypeOK, Unannounced
<1>1. CASE HandleCommand \/ Earn
  <2>1. CASE UNCHANGED units
    BY <1>0, <2>1
  <2>2. CASE Obey
    <3> DEFINE c == Head(commands)
               queued == [units EXCEPT ![c.unit].orders = Append(@, c.type)]
    <3>1. queued[v].alive = units[v].alive /\ queued[v].type = units[v].type
          /\ queued \in [Tag -> [type : UnitType \cup {NoType}, alive : BOOLEAN,
                                 built : BOOLEAN, orders : {queued[w].orders : w \in Tag},
                                 addon : Tag \cup {NullTag}]]
      BY <1>0 DEF Structure
    <3>2. CASE units' = queued
      BY <1>0, <3>1, <3>2
    <3>3. CASE Plot(c.type) = "Addon"
      <4>1. NextTag \in Tag /\ NextTag # v
        BY <1>0, <2>2, <3>3, NextTagVacant DEF Obey
      <4>2. units' = [queued EXCEPT ![c.unit].addon = NextTag, ![NextTag] = Site(c.type)]
        BY <2>2, <3>3 DEF Obey
      <4> HIDE DEF queued
      <4>3. units'[v].alive = queued[v].alive /\ units'[v].type = queued[v].type
        BY <1>0, <3>1, <4>1, <4>2
      <4> QED BY <1>0, <3>1, <4>3
    <3> QED BY <2>2, <3>2, <3>3 DEF Obey
  <2> QED BY <1>1, <2>1, <2>2 DEF HandleCommand, Earn, SetOut, Refuse, Income
<1>2. ASSUME NEW t \in UnitType, LayStructure(t) PROVE units'[v] = units[v]
  <2>1. NextTag \in Tag /\ NextTag # v
    BY <1>0, <1>2, NextTagVacant DEF LayStructure, Lay
  <2> QED BY <1>0, <1>2, <2>1 DEF LayStructure, Lay
<1>3. ASSUME NEW t \in UnitType, LoseStructure(t) PROVE units'[v] = units[v]
  BY <1>3 DEF LoseStructure, FailToLay
<1>4. ASSUME NEW u \in Tag, CompleteStructure(u)
      PROVE  units'[v].alive = units[v].alive /\ units'[v].type = units[v].type
  <2>1. units'[v] = IF v = u THEN [units[v] EXCEPT !.built = TRUE]
                    ELSE IF units[v].addon = u THEN [units[v] EXCEPT !.orders = <<>>]
                    ELSE units[v]
    BY <1>0, <1>4 DEF CompleteStructure, Complete
  <2> QED BY <1>0, <2>1 DEF Structure
<1>5. ASSUME NEW u \in Tag, RazeStructure(u)
      PROVE  units'[v].alive = units[v].alive /\ units'[v].type = units[v].type
  <2>1. v # u
    <3>1. view[u].built
      BY <1>5 DEF RazeStructure, Raze, Mishap, Untroubled
    <3> QED BY <1>0, <3>1 DEF TypeInv, Occupied
  <2>2. units[u].addon # v
    <3>1. v # NullTag
      BY <1>0, GameAssumption
    <3> QED BY <1>0, <3>1 DEF AddonsAttached
  <2>3. \/ units'[v] = units[v]
        \/ units'[v] = [[units[v] EXCEPT !.addon = NullTag] EXCEPT !.orders = @]
        \/ units'[v] = [[units[v] EXCEPT !.addon = NullTag] EXCEPT !.orders = <<>>]
    BY <1>0, <1>5, <2>1, <2>2 DEF RazeStructure, Raze
  <2> QED BY <1>0, <2>3 DEF Structure
<1>6. ASSUME NEW u \in Tag, NEW i \in 1 .. 2, FinishOrder(u, i)
      PROVE  units'[v] = units[v]
  <2>1. v # u
    BY <1>0, <1>6 DEF FinishOrder, SeenOnce
  <2> DEFINE t == units[u].orders[i]
             rest == SubSeq(units[u].orders, 1, i - 1)
                     \o SubSeq(units[u].orders, i + 1, Len(units[u].orders))
  <2>2. units' = [units EXCEPT ![u].orders = rest,
                               ![u].type = IF Plot(t) = "Mutation" THEN t ELSE @]
    BY <1>6 DEF FinishOrder, Finish
  <2> HIDE DEF rest, t
  <2> QED BY <1>0, <2>1, <2>2
<1> QED BY <1>0, <1>1, <1>2, <1>3, <1>4, <1>5, <1>6 DEF GameStep

LEMMA GameStepComing ==
    ASSUME Untroubled, SightInv, GameStep, DepotComing
    PROVE  DepotComing'
<1>1. CASE Observe
  BY <1>1 DEF Observe, DepotComing, Scheduled, Unannounced, builderVars, queueVars
<1>2. CASE ~Observe
  <2>1. GameAction /\ UNCHANGED botVars
    BY <1>2, GameStepIsAction
  <2>2. UNCHANGED <<constructions, view>>
    BY <2>1 DEF botVars, builderVars, queueVars, obsVars
  <2>3. TypeInv /\ AddonsAttached /\ SeenOnce
    BY AnnouncedSplit DEF SightInv
  <2>4. CASE "SupplyDepot" \in Elems(constructions)
    BY <2>2, <2>4, DepotComingNext
  <2>5. ASSUME NEW c \in Elems(commands), c.type = "SupplyDepot" PROVE DepotComing'
    BY <2>1, <2>3, <2>5, CommandComing
  <2>6. CASE travelling["SupplyDepot"] > 0
    BY <2>1, <2>3, <2>6, TravellingComing
  <2>7. ASSUME NEW v \in Tag, v \in Unannounced("SupplyDepot") PROVE DepotComing'
    <3>1. units'[v].alive /\ units'[v].type = "SupplyDepot"
      BY <1>2, <2>3, <2>7, UnseenStays
    <3>2. view'[v].type = NoType
      BY <2>2, <2>7 DEF Unannounced
    <3> QED BY <3>1, <3>2, DepotComingNext
  <2> QED BY <2>4, <2>5, <2>6, <2>7, DepotComingCases
<1> QED BY <1>1, <1>2

(***************************************************************************)
(* The bot neither loses a depot from its queue, but to a command, nor     *)
(* overlooks one that begins.                                              *)
(***************************************************************************)
(* A step that leaves the game alone, takes nothing from the queue and      *)
(* hides nothing that is unannounced keeps every depot coming.              *)
LEMMA KeptComing ==
    ASSUME DepotComing, UNCHANGED <<units, travelling>>,
           Elems(constructions) \subseteq Elems(constructions'),
           Elems(commands) \subseteq Elems(commands'),
           \A v \in Unannounced("SupplyDepot") : view'[v] = view[v]
    PROVE  DepotComing'
<1>1. ASSUME NEW v \in Tag, v \in Unannounced("SupplyDepot") PROVE DepotComing'
  <2>1. units'[v].alive /\ units'[v].type = "SupplyDepot" /\ view'[v].type = NoType
    BY <1>1 DEF Unannounced
  <2> QED BY <2>1, DepotComingNext
<1>2. ASSUME NEW c \in Elems(commands), c.type = "SupplyDepot" PROVE DepotComing'
  BY <1>2, DepotComingNext
<1> QED BY <1>1, <1>2, DepotComingCases, DepotComingNext

(* The head of the queue becomes a command.                                 *)
LEMMA BuildHeadComing ==
    ASSUME TypeInv, BuildHead, UNCHANGED <<units, travelling, view>>, DepotComing
    PROVE  DepotComing'
<1> DEFINE t == Head(constructions)
<1>1. constructions \in Seq(UnitType) /\ constructions # <<>> /\ commands \in Seq(Command)
  BY DEF BuildHead, TypeInv, TypeOK
<1>2. t \in UnitType
  BY <1>1, HeadTailProperties
<1>3. PICK u \in Producers(t, NullTag) : commands' = Append(commands, [type |-> t, unit |-> u])
  BY DEF BuildHead, Issue
<1>4. u \in Tag \cup {NullTag}
  BY <1>2, ProducersType, TypeSplit DEF TypeInv
<1> DEFINE c == [type |-> t, unit |-> u]
<1>5. c \in Command /\ c.type = t
  BY <1>2, <1>4 DEF Command
<1> HIDE DEF c
<1>6. commands' = Append(commands, c)
  BY <1>3 DEF c
<1>7. Elems(commands) \subseteq Elems(commands') /\ c \in Elems(commands')
  BY <1>1, <1>5, <1>6, ElemsAppend
<1>8. \A x \in Elems(constructions) : x = t \/ x \in Elems(constructions')
  BY <1>1, ElemsHeadTail DEF BuildHead
<1>9. CASE "SupplyDepot" \in Elems(constructions)
  BY <1>5, <1>7, <1>8, <1>9, DepotComingNext
<1>10. ASSUME NEW d \in Elems(commands), d.type = "SupplyDepot" PROVE DepotComing'
  BY <1>7, <1>10, DepotComingNext
<1>11. CASE travelling["SupplyDepot"] > 0
  BY <1>11, DepotComingNext
<1>12. ASSUME NEW v \in Tag, v \in Unannounced("SupplyDepot") PROVE DepotComing'
  BY <1>12, DepotComingNext DEF Unannounced
<1> QED BY <1>9, <1>10, <1>11, <1>12, DepotComingCases

LEMMA TrainNextCommands ==
    ASSUME TypeInv, BuildTraining
    PROVE  Elems(commands) \subseteq Elems(commands')
<1> DEFINE o == trainings[cursor]
<1>1. commands \in Seq(Command)
  BY DEF TypeInv, TypeOK
<1>2. CASE UNCHANGED commands
  BY <1>2
<1>3. ASSUME NEW u \in Producers(o.type, o.assignee), Issue(o.type, u)
      PROVE  Elems(commands) \subseteq Elems(commands')
  <2>1. o \in TrainingOrder
    BY ElementOfSeq, LenProperties DEF BuildTraining, TypeInv, TypeOK
  <2>2. o.type \in UnitType /\ o.assignee \in Tag \cup {NullTag}
    BY <2>1 DEF TrainingOrder
  <2>3. u \in Tag \cup {NullTag}
    BY <1>3, <2>2, ProducersType, TypeSplit DEF TypeInv
  <2> DEFINE c == [type |-> o.type, unit |-> u]
  <2>4. c \in Command
    BY <2>2, <2>3 DEF Command
  <2>5. commands' = Append(commands, c)
    BY <1>3 DEF Issue
  <2> HIDE DEF c
  <2> QED BY <1>1, <2>4, <2>5, ElemsAppend
<1> QED BY <1>2, <1>3 DEF BuildTraining

(* A depot the bot has not seen begins. *)
Begins(u) == OnUnitCreated(u) /\ units[u].type = "SupplyDepot"

LEMMA BotStepComing ==
    ASSUME SightInv, BotStep, DepotComing, \A u \in Tag : ~Begins(u)
    PROVE  DepotComing'
<1>0. TypeInv /\ SeenOnce /\ Announced /\ constructions \in Seq(UnitType)
  BY AnnouncedSplit DEF SightInv, TypeInv, TypeOK
<1>1. CASE ScheduleOpening
  <2>1. UNCHANGED <<units, travelling, commands, view>>
    BY <1>1 DEF ScheduleOpening, gameVars, obsVars
  <2>2. Elems(constructions) \subseteq Elems(constructions')
    <3>1. CASE cursor \in DOMAIN Opening
      <4>1. Opening[cursor] \in UnitType
        BY <3>1, DispatcherAssumption, ElementOfSeq, LenProperties
      <4> QED BY <1>0, <1>1, <3>1, <4>1, ScheduleConstructionGrows DEF ScheduleOpening
    <3>2. CASE cursor \notin DOMAIN Opening
      BY <1>1, <3>2 DEF ScheduleOpening
    <3> QED BY <3>1, <3>2
  <2> QED BY <1>0, <2>1, <2>2, KeptComing
<1>2. ASSUME NEW u \in Tag, OnUnitDestroyed(u) PROVE DepotComing'
  <2>1. UNCHANGED <<units, listed, travelling, commands>> /\ Refresh(u)
    BY <1>2 DEF OnUnitDestroyed, gameVars
  <2>2. Elems(constructions) \subseteq Elems(constructions')
    <3>1. CASE UNCHANGED constructions
      BY <3>1
    <3>2. CASE view[u].built /\ ScheduleConstruction(view[u].type, TRUE, Standing')
      <4>1. view[u].type \in UnitType
        BY <1>0, <3>2 DEF TypeInv, TypeOK, Occupied, Structure
      <4> QED BY <1>0, <3>2, <4>1, ScheduleConstructionGrows
    <3> QED BY <1>2, <3>1, <3>2 DEF OnUnitDestroyed, RepairManOnUnitDestroyed
  <2>3. \A v \in Unannounced("SupplyDepot") : view'[v] = view[v]
    <3>1. u \in listed
      BY <1>0, <1>2 DEF OnUnitDestroyed, Announced
    <3>2. view[u].type # NoType
      BY <1>0, <3>1 DEF SeenOnce
    <3>3. \A v \in Tag : v # u => view'[v] = view[v]
      BY <1>0, <2>1, RefreshSees
    <3> QED BY <3>2, <3>3 DEF Unannounced
  <2> QED BY <1>0, <2>1, <2>2, <2>3, KeptComing
<1>3. ASSUME NEW u \in Tag, OnUnitCreated(u) PROVE DepotComing'
  <2>1. UNCHANGED <<units, listed, travelling, commands, constructions>> /\ Refresh(u)
    BY <1>3 DEF OnUnitCreated, gameVars, builderVars, queueVars
  <2>2. \A v \in Tag : v # u => view'[v] = view[v]
    BY <1>0, <2>1, RefreshSees
  <2>3. \A v \in Unannounced("SupplyDepot") : view'[v] = view[v]
    BY <1>3, <2>2 DEF Begins, Unannounced
  <2> QED BY <2>1, <2>3, KeptComing
<1>4. ASSUME NEW u \in Tag, OnUnitIdle(u) PROVE DepotComing'
  <2>1. UNCHANGED <<units, travelling, commands>>
    BY <1>4 DEF OnUnitIdle, gameVars
  <2>2. Elems(constructions) \subseteq Elems(constructions')
    <3>1. CASE UNCHANGED constructions
      BY <3>1
    <3>2. CASE ScheduleConstruction("BarracksReactor", TRUE, Standing')
      BY <1>0, <3>2, UnitTypeDataAssumption, ScheduleConstructionGrows
    <3> QED BY <1>4, <3>1, <3>2 DEF OnUnitIdle, ReaperRushOnUnitIdle, queueVars
  <2>3. Unannounced("SupplyDepot") = {}
    BY <1>0, <1>4 DEF OnUnitIdle, Announced, Unannounced
  <2> QED BY <1>0, <2>1, <2>2, <2>3, KeptComing
<1>5. CASE OnReaperCreated
  <2>1. UNCHANGED <<units, travelling, commands, view, constructions>>
    BY <1>5 DEF OnReaperCreated, gameVars, builderVars, queueVars
  <2> QED BY <1>0, <2>1, KeptComing
<1>6. CASE ApiOnStep
  <2>1. UNCHANGED <<units, travelling, commands, constructions>>
    BY <1>6 DEF ApiOnStep, gameVars, builderVars, queueVars
  <2>2. Unannounced("SupplyDepot") = {}
    BY <1>0, <1>6 DEF ApiOnStep, NoEvents, Announced, Unannounced
  <2> QED BY <1>0, <2>1, <2>2, KeptComing
<1>7. CASE MinerOnStep
  <2>1. UNCHANGED <<units, travelling, commands, view, constructions>>
    BY <1>7 DEF MinerOnStep, gameVars, obsVars
  <2> QED BY <1>0, <2>1, KeptComing
<1>8. CASE QuarterMasterOnStep
  <2>1. UNCHANGED <<units, travelling, commands, view>>
    BY <1>8 DEF QuarterMasterOnStep, gameVars, obsVars
  <2>2. CASE UNCHANGED constructions
    BY <1>0, <2>1, <2>2, KeptComing
  <2>3. CASE ScheduleConstruction("SupplyDepot", TRUE, Standing)
    <3>1. "SupplyDepot" \in Elems(constructions')
      BY <1>0, <2>3, UnitTypeDataAssumption, ScheduleConstructionGrows
    <3> QED BY <3>1, DepotComingNext
  <2> QED BY <1>8, <2>2, <2>3 DEF QuarterMasterOnStep, RequestSupplies
<1>9. CASE BuilderOnStep
  <2>1. UNCHANGED <<units, travelling, view>>
    BY <1>9 DEF BuilderOnStep, obsVars
  <2>2. CASE BuildHead
    BY <1>0, <2>1, <2>2, BuildHeadComing
  <2>3. CASE HeadWaits
    BY <1>0, <2>1, <2>3, KeptComing DEF HeadWaits, queueVars
  <2> QED BY <1>9, <2>2, <2>3 DEF BuilderOnStep
<1>10. CASE TrainNext
  <2>1. UNCHANGED <<units, travelling, view, constructions>> /\ BuildTraining
    BY <1>10 DEF TrainNext, BuildTraining, obsVars
  <2>2. Elems(commands) \subseteq Elems(commands')
    BY <1>0, <2>1, TrainNextCommands
  <2> QED BY <1>0, <2>1, <2>2, KeptComing
<1>11. CASE SendActions
  <2>1. UNCHANGED <<units, travelling, commands, view, constructions>>
    BY <1>11 DEF SendActions, gameVars, queueVars
  <2> QED BY <1>0, <2>1, KeptComing
<1> QED BY <1>1, <1>2, <1>3, <1>4, <1>5, <1>6, <1>7, <1>8, <1>9, <1>10, <1>11 DEF BotStep

(***************************************************************************)
(* Who has been seen.                                                      *)
(***************************************************************************)
(* A depot stays a depot, and nothing that stands turns into one.           *)
LEMMA DepotStays ==
    ASSUME TypeInv, AddonsAttached, GameAction, NEW v \in Tag, units[v].type # NoType
    PROVE  units'[v].type = "SupplyDepot" <=> units[v].type = "SupplyDepot"
<1>0. units \in [Tag -> Structure]
  BY DEF TypeInv, TypeOK
<1>1. CASE \E u \in Tag, i \in 1 .. 2 : Finish(u, i)
  <2>1. PICK u \in Tag, i \in 1 .. 2 : Finish(u, i)
    BY <1>1
  <2> DEFINE t == units[u].orders[i]
             rest == SubSeq(units[u].orders, 1, i - 1)
                     \o SubSeq(units[u].orders, i + 1, Len(units[u].orders))
  <2>2. units[u].orders # <<>>
    BY <2>1 DEF Finish
  <2>3. units[u].type # "SupplyDepot"
    BY <2>2 DEF AddonsAttached, Passive
  <2>4. Plot(t) = "Mutation" => t # "SupplyDepot"
    BY DepotPlot DEF IsStructure
  <2>5. units' = [units EXCEPT ![u].orders = rest,
                               ![u].type = IF Plot(t) = "Mutation" THEN t ELSE @]
    BY <2>1 DEF Finish
  <2> HIDE DEF rest, t
  <2>6. \/ units'[v].type = units[v].type
        \/ v = u /\ units'[v].type = t /\ Plot(t) = "Mutation"
    BY <1>0, <2>5 DEF Structure
  <2> QED BY <2>3, <2>4, <2>6
<1>2. CASE ~\E u \in Tag, i \in 1 .. 2 : Finish(u, i)
  <2>1. Kept(v) \/ \E t \in UnitType : Laid(v, t)
    <3>0. UNCHANGED units => Kept(v)
      BY DEF Kept
    <3>1. CASE SetOut \/ Refuse \/ Income
      BY <3>0, <3>1 DEF SetOut, Refuse, Income
    <3>2. CASE Obey
      <4>1. Head(commands).type \in UnitType
        BY <3>2, CommandType DEF Obey, TypeInv, TypeOK
      <4> QED BY <3>2, <4>1, ObeyUnits, TypeSplit DEF TypeInv
    <3>3. ASSUME NEW t \in UnitType, Lay(t) \/ FailToLay(t)
          PROVE  Kept(v) \/ \E x \in UnitType : Laid(v, x)
      BY <3>0, <3>3, LayUnits, TypeSplit DEF FailToLay, TypeInv
    <3>4. ASSUME NEW u \in Tag, Complete(u) PROVE Kept(v)
      BY <3>4, CompleteUnits, TypeSplit DEF TypeInv
    <3>5. ASSUME NEW u \in Tag, NEW kind, Raze(u, kind) PROVE Kept(v)
      BY <3>5, RazeUnits, TypeSplit DEF TypeInv
    <3> QED BY <1>2, <3>1, <3>2, <3>3, <3>4, <3>5 DEF GameAction
  <2> QED BY <2>1 DEF Kept, Laid
<1> QED BY <1>1, <1>2

LEMMA GameStepSighted ==
    ASSUME SightInv, GameStep
    PROVE  Sighted'
<1>0. /\ TypeInv /\ AddonsAttached /\ SeenOnce /\ Sighted
      /\ phase = "game" /\ listed \subseteq Tag
  BY AnnouncedSplit, GameStepInGame DEF SightInv, TypeInv, TypeOK
<1>1. CASE Observe
  <2>1. UNCHANGED <<units, view, listed>> /\ phase' = "events" /\ events' = NewEvents
    BY <1>1 DEF Observe
  <2>2. events'.created = Existing \ listed
    BY <2>1 DEF NewEvents
  <2>3. \A u \in events'.created : units[u].alive /\ view[u].type = NoType
    BY <1>0, <2>2 DEF Sighted, Existing
  <2> QED BY <1>0, <2>1, <2>3 DEF Sighted
<1>2. CASE GameAction /\ UNCHANGED botVars
  <2>1. UNCHANGED <<view, listed>> /\ phase' = "game"
    BY <1>0, <1>2 DEF botVars, obsVars
  <2>2. ASSUME NEW v \in Tag, view[v].type # NoType
        PROVE  /\ units'[v].type = "SupplyDepot" <=> units[v].type = "SupplyDepot"
               /\ units'[v].alive => units[v].alive
    <3>1. units[v].type # NoType
      BY <1>0, <2>2 DEF SeenOnce
    <3>2. Change(v)
      BY <1>2, GameChange, TypeSplit DEF SightInv, TypeInv
    <3> QED BY <1>0, <1>2, <3>1, <3>2, DepotStays DEF Change, Kept, Laid
  <2> QED BY <1>0, <2>1, <2>2 DEF Sighted
<1> QED BY <1>1, <1>2, GameStepIsAction

(* A fresh copy of a structure already seen shows no other kind.            *)
LEMMA RefreshKnows ==
    ASSUME TypeInv, SeenOnce, Sighted, NEW u \in Tag, Refresh(u),
           UNCHANGED <<units, listed>>
    PROVE  /\ \A v \in Tag : view'[v].type # NoType =>
                 (view'[v].type = "SupplyDepot" <=> units'[v].type = "SupplyDepot")
           /\ view[u].type # NoType => SeenDepots' = SeenDepots
<1>1. \A v \in Tag : v # u => view'[v] = view[v]
  BY RefreshSees
<1>2. view'[u].type = IF units[u].alive THEN units[u].type ELSE view[u].type
  BY DEF Refresh, TypeInv, TypeOK, Structure
<1>3. \A v \in Tag : view'[v].type # NoType =>
         (view'[v].type = "SupplyDepot" <=> units'[v].type = "SupplyDepot")
  BY <1>1, <1>2 DEF Sighted
<1>4. ASSUME view[u].type # NoType PROVE SeenDepots' = SeenDepots
  <2>1. view'[u].type = "SupplyDepot" <=> view[u].type = "SupplyDepot"
    BY <1>2, <1>4 DEF Sighted
  <2> QED BY <1>1, <2>1 DEF SeenDepots
<1> QED BY <1>3, <1>4

LEMMA BotStepSighted ==
    ASSUME SightInv, BotStep
    PROVE  Sighted'
<1>0. TypeInv /\ SeenOnce /\ Announced /\ Sighted
  BY AnnouncedSplit DEF SightInv
<1>1. CASE ScheduleOpening \/ MinerOnStep \/ QuarterMasterOnStep \/ SendActions
            \/ BuilderOnStep \/ TrainNext
  <2>1. UNCHANGED <<units, view, listed>> /\ phase' # "events" /\ phase # "events"
    BY <1>1 DEF ScheduleOpening, MinerOnStep, QuarterMasterOnStep, SendActions,
                BuilderOnStep, TrainNext, gameVars, obsVars
  <2> QED BY <1>0, <2>1 DEF Sighted
<1>2. ASSUME NEW u \in Tag, OnUnitDestroyed(u) PROVE Sighted'
  <2>1. /\ UNCHANGED <<units, listed, phase>> /\ Refresh(u) /\ phase = "events"
        /\ events'.created = events.created
    BY <1>0, <1>2 DEF OnUnitDestroyed, gameVars, TypeInv, TypeOK, EventRecord
  <2>2. view[u].type # NoType
    BY <1>0, <1>2 DEF OnUnitDestroyed, Announced
  <2>3. \A v \in Tag : v # u => view'[v] = view[v]
    BY <1>0, <2>1, RefreshSees
  <2>4. events.created \subseteq Tag
    BY <1>0 DEF TypeInv, TypeOK, EventRecord
  <2>5. \A v \in events'.created : units'[v].alive /\ view'[v].type = NoType
    BY <1>0, <2>1, <2>2, <2>3, <2>4 DEF Sighted
  <2> QED BY <1>0, <2>1, <2>5, RefreshKnows DEF Sighted
<1>3. ASSUME NEW u \in Tag, OnUnitCreated(u) PROVE Sighted'
  <2>1. /\ UNCHANGED <<units, listed, phase>> /\ Refresh(u) /\ phase = "events"
        /\ events'.created = events.created \ {u}
    BY <1>0, <1>3 DEF OnUnitCreated, gameVars, TypeInv, TypeOK, EventRecord
  <2>2. \A v \in Tag : v # u => view'[v] = view[v]
    BY <1>0, <2>1, RefreshSees
  <2>3. events.created \subseteq Tag
    BY <1>0 DEF TypeInv, TypeOK, EventRecord
  <2>4. \A v \in events'.created : units'[v].alive /\ view'[v].type = NoType
    BY <1>0, <2>1, <2>2, <2>3 DEF Sighted
  <2> QED BY <1>0, <2>1, <2>4, RefreshKnows DEF Sighted
<1>4. ASSUME NEW u \in Tag, OnUnitIdle(u) PROVE Sighted'
  <2>1. /\ UNCHANGED <<units, listed, phase>> /\ Refresh(u) /\ phase = "events"
        /\ events'.created = {}
    BY <1>0, <1>4 DEF OnUnitIdle, gameVars, TypeInv, TypeOK, EventRecord
  <2> QED BY <1>0, <2>1, RefreshKnows DEF Sighted
<1>5. CASE OnReaperCreated
  <2>1. UNCHANGED <<units, view, listed, phase>> /\ events'.created = events.created
    BY <1>0, <1>5 DEF OnReaperCreated, gameVars, TypeInv, TypeOK, EventRecord
  <2> QED BY <1>0, <2>1 DEF Sighted
<1>6. CASE ApiOnStep
  <2>1. /\ UNCHANGED units /\ phase' # "events" /\ listed' = Existing
        /\ view' = [u \in Tag |-> IF u \in Existing THEN units[u] ELSE view[u]]
    BY <1>6 DEF ApiOnStep, RefreshAll, gameVars
  <2> QED BY <1>0, <2>1 DEF Sighted, Existing
<1> QED BY <1>1, <1>2, <1>3, <1>4, <1>5, <1>6 DEF BotStep

(***************************************************************************)
(* Every step is one of SupplyRequest, or none.                            *)
(***************************************************************************)
LEMMA BotStepSeen ==
    ASSUME SightInv, BotStep, \A u \in Tag : ~Begins(u)
    PROVE  SeenDepots' = SeenDepots
<1>0. TypeInv /\ SeenOnce /\ Announced /\ Sighted /\ view \in [Tag -> Structure]
  BY AnnouncedSplit DEF SightInv, TypeInv, TypeOK
<1>1. CASE UNCHANGED view
  BY <1>1 DEF SeenDepots
<1>2. ASSUME NEW u \in Tag, OnUnitDestroyed(u) PROVE SeenDepots' = SeenDepots
  <2>1. UNCHANGED <<units, listed>> /\ Refresh(u)
    BY <1>2 DEF OnUnitDestroyed, gameVars
  <2>2. view[u].type # NoType
    BY <1>0, <1>2 DEF OnUnitDestroyed, Announced
  <2> QED BY <1>0, <2>1, <2>2, RefreshKnows
<1>3. ASSUME NEW u \in Tag, OnUnitIdle(u) PROVE SeenDepots' = SeenDepots
  <2>1. UNCHANGED <<units, listed>> /\ Refresh(u) /\ phase = "events" /\ events.created = {}
    BY <1>3 DEF OnUnitIdle, gameVars
  <2>2. CASE view[u].type # NoType
    BY <1>0, <2>1, <2>2, RefreshKnows
  <2>3. CASE view[u].type = NoType
    <3>1. ~units[u].alive
      BY <1>0, <2>1, <2>3 DEF Announced
    <3>2. \A v \in Tag : view'[v].type = view[v].type
      BY <1>0, <2>1, <3>1 DEF Refresh, Structure
    <3> QED BY <3>2 DEF SeenDepots
  <2> QED BY <2>2, <2>3
<1>4. ASSUME NEW u \in Tag, OnUnitCreated(u) PROVE SeenDepots' = SeenDepots
  <2>1. UNCHANGED <<units, listed>> /\ Refresh(u) /\ phase = "events" /\ u \in events.created
    BY <1>4 DEF OnUnitCreated, gameVars
  <2>2. units[u].alive /\ units[u].type # "SupplyDepot" /\ view[u].type = NoType
    BY <1>0, <1>4, <2>1 DEF Sighted, Begins
  <2>3. view'[u].type # "SupplyDepot" /\ view[u].type # "SupplyDepot"
    BY <1>0, <2>1, <2>2, UnitTypeDataAssumption DEF Refresh
  <2>4. \A v \in Tag : v # u => view'[v] = view[v]
    BY <1>0, <2>1, RefreshSees
  <2> QED BY <2>3, <2>4 DEF SeenDepots
<1>5. CASE ApiOnStep
  <2>1. /\ phase = "events" /\ events.created = {}
        /\ view' = [u \in Tag |-> IF u \in Existing THEN units[u] ELSE view[u]]
    BY <1>5 DEF ApiOnStep, RefreshAll, NoEvents
  <2>2. ASSUME NEW v \in Tag
        PROVE  view'[v].type = "SupplyDepot" <=> view[v].type = "SupplyDepot"
    <3>1. CASE v \in Existing
      <4>1. view[v].type # NoType
        BY <1>0, <2>1, <3>1 DEF Announced, Existing
      <4> QED BY <1>0, <2>1, <3>1, <4>1 DEF Sighted
    <3>2. CASE v \notin Existing
      BY <2>1, <3>2
    <3> QED BY <3>1, <3>2
  <2> QED BY <2>2 DEF SeenDepots
<1>6. \/ UNCHANGED view \/ ApiOnStep
      \/ \E u \in Tag : OnUnitDestroyed(u) \/ OnUnitCreated(u) \/ OnUnitIdle(u)
  BY DEF BotStep, ScheduleOpening, OnReaperCreated, MinerOnStep, QuarterMasterOnStep,
         BuilderOnStep, TrainNext, SendActions, obsVars
<1> QED BY <1>1, <1>2, <1>3, <1>4, <1>5, <1>6

(* QuarterMaster begins to wait by asking, and ends by a depot's beginning. *)
LEMMA BotStepAsks ==
    ASSUME SightInv, BotStep, \A u \in Tag : ~Begins(u)
    PROVE  m_skip_turn' = m_skip_turn \/ (~m_skip_turn /\ m_skip_turn' /\ DepotComing')
<1>1. CASE QuarterMasterOnStep /\ ScheduleConstruction("SupplyDepot", TRUE, Standing)
           /\ ~m_skip_turn /\ m_skip_turn'
  <2>1. constructions \in Seq(UnitType) /\ "SupplyDepot" \in UnitType
    BY UnitTypeDataAssumption DEF SightInv, TypeInv, TypeOK
  <2>2. "SupplyDepot" \in Elems(constructions')
    BY <1>1, <2>1, ScheduleConstructionGrows
  <2> QED BY <1>1, <2>2, DepotComingNext
<1>2. QuarterMasterOnStep =>
         \/ m_skip_turn' = m_skip_turn
         \/ /\ ScheduleConstruction("SupplyDepot", TRUE, Standing)
            /\ ~m_skip_turn /\ m_skip_turn'
  BY DEF QuarterMasterOnStep, RequestSupplies
<1>3. ASSUME NEW u \in Tag, OnUnitCreated(u) PROVE m_skip_turn' = m_skip_turn
  BY <1>3 DEF OnUnitCreated, QuarterMasterOnUnitCreated, Begins
<1>4. \/ m_skip_turn' = m_skip_turn \/ QuarterMasterOnStep
      \/ \E u \in Tag : OnUnitCreated(u)
  BY DEF BotStep, ScheduleOpening, OnUnitDestroyed, OnUnitIdle, OnReaperCreated,
         ApiOnStep, MinerOnStep, BuilderOnStep, TrainNext, SendActions, pluginVars
<1> QED BY <1>1, <1>2, <1>3, <1>4

LEMMA BeginsIsBegin ==
    ASSUME SightInv, NEW u \in Tag, Begins(u)
    PROVE  Request!Begin
<1>1. /\ TypeInv /\ SeenOnce /\ Sighted
      /\ phase = "events" /\ u \in events.created /\ UNCHANGED <<units, listed>>
      /\ Refresh(u) /\ units[u].type = "SupplyDepot" /\ QuarterMasterOnUnitCreated(u)
  BY AnnouncedSplit DEF Begins, OnUnitCreated, gameVars, SightInv
<1>2. units[u].alive /\ view[u].type = NoType /\ "SupplyDepot" # NoType
  BY <1>1, UnitTypeDataAssumption DEF Sighted
<1>3. DepotComing
  <2>1. u \in Unannounced("SupplyDepot")
    BY <1>1, <1>2 DEF Unannounced
  <2> QED BY <2>1 DEF DepotComing
<1>4. ~m_skip_turn'
  BY <1>1 DEF QuarterMasterOnUnitCreated
<1>5. DepotComing' \in BOOLEAN
  BY DEF DepotComing
<1>6. view'[u].type = "SupplyDepot"
  BY <1>1, <1>2 DEF Refresh, TypeInv, TypeOK
<1>7. \A v \in Tag : v # u => view'[v] = view[v]
  BY <1>1, RefreshSees
<1>8. u \in Tag \ SeenDepots /\ SeenDepots' = SeenDepots \cup {u}
  BY <1>2, <1>6, <1>7 DEF SeenDepots
<1> QED BY <1>3, <1>4, <1>5, <1>8 DEF Request!Begin

LEMMA RequestStep ==
    ASSUME Untroubled, SightInv, [Next]_vars
    PROVE  [Request!Next]_<<m_skip_turn, DepotComing, SeenDepots>>
<1>0. m_skip_turn \in BOOLEAN /\ DepotComing \in BOOLEAN /\ DepotComing' \in BOOLEAN
  BY DEF SightInv, TypeInv, TypeOK, DepotComing
<1>1. ASSUME NEW u \in Tag, Begins(u) PROVE Request!Next
  BY <1>1, BeginsIsBegin DEF Request!Next
<1>2. ASSUME SeenDepots' = SeenDepots, DepotComing => DepotComing',
             \/ m_skip_turn' = m_skip_turn
             \/ ~m_skip_turn /\ m_skip_turn' /\ DepotComing'
      PROVE  Request!Next \/ UNCHANGED <<m_skip_turn, DepotComing, SeenDepots>>
  BY <1>0, <1>2 DEF Request!Next, Request!Ask, Request!Require
<1>3. CASE BotStep /\ \A u \in Tag : ~Begins(u)
  BY <1>2, <1>3, BotStepComing, BotStepSeen, BotStepAsks
<1>4. CASE GameStep
  <2>1. UNCHANGED <<view, m_skip_turn>>
    BY <1>4, GameStepIsAction DEF Observe, botVars, obsVars, pluginVars
  <2>2. SeenDepots' = SeenDepots
    BY <2>1 DEF SeenDepots
  <2> QED BY <1>2, <1>4, <2>1, <2>2, GameStepComing
<1>5. CASE UNCHANGED vars
  <2>1. SeenDepots' = SeenDepots /\ DepotComing' = DepotComing /\ m_skip_turn' = m_skip_turn
    BY <1>5 DEF vars, gameVars, obsVars, builderVars, queueVars, pluginVars,
                SeenDepots, DepotComing, Scheduled, Unannounced
  <2> QED BY <2>1
<1> QED BY <1>1, <1>3, <1>4, <1>5 DEF Next

LEMMA SightInvInit == Init => SightInv
<1> SUFFICES ASSUME Init PROVE SightInv
  OBVIOUS
<1>1. TypeInv
  BY InitType, InitOccupied DEF TypeInv
<1>2. \A u \in Tag : units[u].addon = NullTag /\ units[u].orders = <<>>
  BY DEF Init, Site, Vacant
<1>3. AddonsAttached
  BY <1>2 DEF AddonsAttached
<1>4. view = units /\ listed = Existing /\ phase = "opening"
  BY DEF Init
<1>5. Announced
  BY <1>1, <1>4 DEF Announced, Existing, TypeInv, Occupied
<1>6. Sighted
  BY <1>4 DEF Sighted, Existing
<1> QED BY <1>1, <1>3, <1>5, <1>6 DEF SightInv

LEMMA RequestInit == Init => Request!Init
<1> SUFFICES ASSUME Init PROVE Request!Init
  OBVIOUS
<1>1. \A u \in Tag : view[u] = units[u] /\ units[u].type \in {"CommandCenter", NoType}
  BY DEF Init, Site, Vacant
<1>2. "SupplyDepot" # NoType /\ "CommandCenter" # NoType /\ "SupplyDepot" \in UnitType
  BY UnitTypeDataAssumption
<1>3. SeenDepots = {} /\ Unannounced("SupplyDepot") = {}
  BY <1>1, <1>2 DEF SeenDepots, Unannounced
<1>4. constructions = <<>> /\ commands = <<>> /\ travelling["SupplyDepot"] = 0 /\ ~m_skip_turn
  BY <1>2 DEF Init
<1> QED BY <1>3, <1>4 DEF DepotComing, Scheduled, Request!Init

LEMMA SightInvStep ==
    ASSUME SightInv, [Next]_vars
    PROVE  SightInv'
<1>0. TypeInv /\ AddonsAttached /\ Announced /\ Sighted /\ GameTypeOK /\ GameOccupied
  BY TypeSplit, OccupiedSplit DEF SightInv, TypeInv
<1>1. CASE UNCHANGED vars
  <2>1. UNCHANGED <<units, view, listed, events, phase>>
    BY <1>1 DEF vars, gameVars, obsVars
  <2> QED BY <1>0, <1>1, <2>1, TypeInvStutter
          DEF SightInv, AddonsAttached, Announced, Sighted
<1>2. CASE BotStep
  <2>1. UNCHANGED units
    BY <1>2 DEF BotStep, ScheduleOpening, OnUnitDestroyed, OnUnitCreated, OnUnitIdle,
         OnReaperCreated, ApiOnStep, MinerOnStep, QuarterMasterOnStep, BuilderOnStep,
         TrainNext, SendActions, gameVars
  <2>2. AddonsAttached'
    BY <1>0, <2>1 DEF AddonsAttached
  <2> QED BY <1>0, <1>2, <2>2, BotStepTypeInv, BotStepAnnounced, BotStepSighted DEF SightInv
<1>3. CASE GameStep
  <2>1. AddonsAttached'
    <3>1. CASE Observe
      BY <1>0, <3>1 DEF Observe, AddonsAttached
    <3> QED BY <1>0, <1>3, <3>1, GameStepIsAction, GameAddons
  <2> QED BY <1>0, <1>3, <2>1, GameStepTypeInv, GameStepAnnounced, GameStepSighted DEF SightInv
<1> QED BY <1>1, <1>2, <1>3 DEF Next

(* What the bot has listed, seen and been told of agrees with what stands,  *)
(* whatever goes wrong: the client announces every structure exactly once.  *)
THEOREM SightInvariance == Spec => []SightInv
<1> QED BY SightInvInit, SightInvStep, PTL DEF Spec

(* As long as SCVs arrive and can pay, and no site is razed unseen,         *)
(* QuarterMaster and Builder implement SupplyRequest: a depot asked for is  *)
(* never lost between the queue, the command, the SCV, the site and the     *)
(* event that announces it, and it is not asked for twice.                  *)
THEOREM RequestImplemented ==
    ASSUME Untroubled
    PROVE  Spec => RequestSpec
<1>1. SightInv /\ [Next]_vars => [Request!Next]_<<m_skip_turn, DepotComing, SeenDepots>>
  BY RequestStep
<1> QED BY <1>1, RequestInit, SightInvariance, PTL DEF Spec, RequestSpec, Request!Spec

(* Under the same conditions QuarterMaster never skips its turns in vain.   *)
THEOREM NeverSkipsInVain ==
    ASSUME Untroubled
    PROVE  Spec => []SupplyRequestPending
<1>1. Request!Init => SupplyRequestPending
  BY DEF Request!Init, SupplyRequestPending
<1>2. SupplyRequestPending /\ [Request!Next]_<<m_skip_turn, DepotComing, SeenDepots>>
      => SupplyRequestPending'
  BY DEF SupplyRequestPending, Request!Next, Request!Ask, Request!Require, Request!Begin
<1> QED BY <1>1, <1>2, RequestImplemented, PTL DEF RequestSpec, Request!Spec
=============================================================================
