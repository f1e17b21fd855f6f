----------------------------- MODULE QueueProofs -----------------------------
(***************************************************************************)
(* The queue of constructions, for every value of the constants: as long   *)
(* as nothing is destroyed or lost, whatever an order requires is on its   *)
(* way or ahead of it.                                                     *)
(***************************************************************************)
EXTENDS BarracksProofs

(***************************************************************************)
(* Who works on what.  Only a command center transforms itself, only town  *)
(* halls train workers, and only barracks have addons and with them room   *)
(* for a second order.                                                     *)
(***************************************************************************)
FitOrders(s) ==
    /\ s.type # "Barracks" => Len(s.orders) <= 1 /\ s.addon = NullTag
    /\ \A o \in Elems(s.orders) :
          /\ Plot(o) = "Mutation" => s.type = "CommandCenter"
          /\ o = "SCV" => IsTownHall(s.type)

OrdersFit == \A u \in Tag : FitOrders(units[u])

LEMMA EmptyFits ==
    ASSUME NEW s, s.orders = <<>>, s.addon = NullTag
    PROVE  FitOrders(s)
BY DEF FitOrders, Elems

LEMMA MutationPlot ==
    /\ \A t : Plot(t) = "Mutation" <=> t \in Mutations
    /\ \A t : t \in Mutations => IsTownHall(t) /\ t # "Barracks" /\ t # "CommandCenter"
    /\ Plot("SCV") = "Unit"
BY DEF Plot, Mutations, Addons, BarracksUnits, Workers, IsTownHall

(* A structure that loses its orders, or its addon, or is finished.         *)
LEMMA FewerOrdersFit ==
    ASSUME NEW s, NEW r, FitOrders(s), r.type = s.type,
           r.orders = s.orders \/ r.orders = <<>>,
           r.addon = s.addon \/ r.addon = NullTag
    PROVE  FitOrders(r)
BY DEF FitOrders, Elems

LEMMA ObeyFits ==
    ASSUME GameTypeOK, OrdersFit, Obey
    PROVE  OrdersFit'
<1> SUFFICES ASSUME NEW v \in Tag PROVE FitOrders(units'[v])
  BY DEF OrdersFit
<1> DEFINE c == Head(commands)
           queued == [units EXCEPT ![c.unit].orders = Append(@, c.type)]
<1>1. /\ queued \in [Tag -> [type : UnitType \cup {NoType}, alive : BOOLEAN, built : BOOLEAN,
                             orders : {queued[w].orders : w \in Tag}, addon : Tag \cup {NullTag}]]
      /\ queued[v].type = units[v].type /\ queued[v].addon = units[v].addon
      /\ (v # c.unit => queued[v].orders = units[v].orders)
      /\ (v = c.unit => queued[v].orders = Append(units[v].orders, c.type))
      /\ c.type \in UnitType
  BY CommandType DEF GameTypeOK, Structure, Obey
<1>2. /\ Accepts(c) /\ ~IsStructure(c.type)
      /\ FitOrders(units[v]) /\ units[v].orders \in Seq(UnitType)
  BY DEF Obey, OrdersFit, GameTypeOK, Structure
<1>3. ASSUME v = c.unit
      PROVE  /\ c.type \notin Workers => units[v].type = WhoBuilds(c.type)
             /\ c.type \in Workers => IsTownHall(units[v].type)
             /\ units[v].orders = <<>> \/ Plot(c.type) = "Unit"
             /\ Len(units[v].orders) < Lanes(v) \/ units[v].orders = <<>>
             /\ Plot(c.type) = "Addon" => units[v].orders = <<>> /\ units[v].addon = NullTag
  BY <1>2, <1>3 DEF Accepts
<1>4. ASSUME v = c.unit, units[v].type # "Barracks" PROVE units[v].orders = <<>>
  <2>1. units[v].addon = NullTag
    BY <1>2, <1>4 DEF FitOrders
  <2>2. Lanes(v) = 1
    BY <2>1, GameAssumption DEF Lanes, Reactors
  <2>3. Len(units[v].orders) \in Nat
    BY <1>2, LenProperties
  <2>4. units[v].orders = <<>> \/ Len(units[v].orders) = 0
    BY <1>3, <1>4, <2>2, <2>3
  <2> QED BY <1>2, <2>4, EmptySeq
<1>5. FitOrders(queued[v])
  <2>1. CASE v # c.unit
    BY <1>1, <1>2, <2>1 DEF FitOrders
  <2>2. CASE v = c.unit
    <3> DEFINE o == Append(units[v].orders, c.type)
    <3>1. /\ Elems(o) \subseteq Elems(units[v].orders) \cup {c.type}
          /\ Len(o) = Len(units[v].orders) + 1
      <4>1. units[v].orders \in Seq(UnitType) /\ c.type \in UnitType
        BY <1>1, <1>2
      <4> HIDE DEF c
      <4> QED BY <4>1, ElemsOfAppend, AppendProperties
    <3>2. queued[v].type # "Barracks" => Len(o) <= 1 /\ queued[v].addon = NullTag
      <4>1. ASSUME units[v].type # "Barracks" PROVE Len(o) <= 1 /\ units[v].addon = NullTag
        <5>1. Len(units[v].orders) = 0
          BY <1>4, <2>2, <4>1
        <5> QED BY <1>2, <3>1, <4>1, <5>1 DEF FitOrders
      <4> QED BY <1>1, <4>1
    <3>3. Plot(c.type) = "Mutation" => queued[v].type = "CommandCenter"
      <4>1. c.type \in Mutations => WhoBuilds(c.type) = "CommandCenter" /\ c.type \notin Workers
        BY DEF WhoBuilds, Mutations, Addons, BarracksUnits, Workers
      <4> QED BY <1>1, <1>3, <2>2, <4>1, MutationPlot
    <3>4. c.type = "SCV" => IsTownHall(queued[v].type)
      BY <1>1, <1>3, <2>2 DEF Workers
    <3> HIDE DEF o, queued
    <3>5. queued[v].orders = o
      BY <1>1, <2>2 DEF o
    <3> QED BY <1>1, <1>2, <3>1, <3>2, <3>3, <3>4, <3>5 DEF FitOrders
  <2> QED BY <2>1, <2>2
<1>6. CASE Plot(c.type) # "Addon"
  <2>1. units' = queued
    BY <1>6 DEF Obey
  <2> QED BY <1>5, <2>1
<1>7. CASE Plot(c.type) = "Addon"
  <2>1. NextTag \in Tag
    BY <1>7, NextTagVacant DEF Obey
  <2>2. units' = [queued EXCEPT ![c.unit].addon = NextTag, ![NextTag] = Site(c.type)]
    BY <1>7 DEF Obey
  <2>3. ASSUME v = c.unit PROVE units[v].type = "Barracks"
    <3>1. c.type \in Addons
      BY <1>7, AddonPlot
    <3>2. WhoBuilds(c.type) = "Barracks" /\ c.type \notin Workers
      BY <3>1 DEF WhoBuilds, Addons, Workers
    <3> QED BY <1>3, <2>3, <3>2
  <2> HIDE DEF queued
  <2>4. CASE v = NextTag
    <3>1. units'[v] = Site(c.type)
      BY <1>1, <2>1, <2>2, <2>4
    <3> QED BY <3>1, SiteFields, EmptyFits
  <2>5. CASE v # NextTag
    <3>1. /\ units'[v].type = queued[v].type /\ units'[v].orders = queued[v].orders
          /\ v # c.unit => units'[v].addon = queued[v].addon
      BY <1>1, <2>1, <2>2, <2>5
    <3> QED BY <1>1, <1>5, <2>3, <3>1 DEF FitOrders
  <2> QED BY <2>4, <2>5
<1> QED BY <1>6, <1>7

LEMMA FinishFits ==
    ASSUME GameTypeOK, OrdersFit, NEW u \in Tag, NEW i \in 1 .. 2, Finish(u, i)
    PROVE  OrdersFit'
<1> SUFFICES ASSUME NEW v \in Tag PROVE FitOrders(units'[v])
  BY DEF OrdersFit
<1> DEFINE o == units[u].orders
           t == o[i]
           rest == RemoveAt(o, i)
<1>1. /\ units' = [units EXCEPT ![u].orders = rest,
                                ![u].type = IF Plot(t) = "Mutation" THEN t ELSE @]
      /\ i \in DOMAIN o /\ o \in Seq(UnitType)
      /\ FitOrders(units[v]) /\ FitOrders(units[u])
  BY DEF Finish, RemoveAt, GameTypeOK, Structure, OrdersFit
<1>2. Len(o) \in Nat /\ i \in 1 .. Len(o) /\ t \in Elems(o)
  BY <1>1, LenProperties DEF Elems
<1>3. Elems(rest) \subseteq Elems(o) /\ Len(rest) = Len(o) - 1 /\ rest \in Seq(UnitType)
  BY <1>1, ElemsOfRemoveAt, RemoveAtProperties
<1> HIDE DEF rest, t
<1>4. CASE v # u
  <2>1. units'[v] = units[v]
    BY <1>1, <1>4 DEF GameTypeOK
  <2> QED BY <1>1, <2>1
<1>5. CASE v = u
  <2>1. /\ units'[v].addon = units[v].addon /\ units'[v].orders = rest
        /\ units'[v].type = IF Plot(t) = "Mutation" THEN t ELSE units[v].type
    BY <1>1, <1>5 DEF GameTypeOK, Structure
  <2>2. CASE Plot(t) = "Mutation"
    <3>1. units[u].type = "CommandCenter"
      BY <1>1, <1>2, <2>2 DEF FitOrders
    <3>2. Len(o) <= 1 /\ units[u].addon = NullTag
      BY <1>1, <3>1 DEF FitOrders
    <3>3. rest = <<>>
      BY <1>2, <1>3, <3>2, EmptySeq
    <3> QED BY <1>5, <2>1, <3>2, <3>3, EmptyFits
  <2>3. CASE Plot(t) # "Mutation"
    <3>1. units'[v].type = units[v].type /\ FitOrders(units[v]) /\ units[v].orders = o
      BY <1>1, <1>5, <2>1, <2>3
    <3>2. Len(o) <= 1 => Len(rest) <= 1
      BY <1>2, <1>3
    <3>3. Elems(units'[v].orders) \subseteq Elems(units[v].orders)
      BY <1>3, <2>1, <3>1
    <3> QED BY <2>1, <3>1, <3>2, <3>3 DEF FitOrders
  <2> QED BY <2>2, <2>3
<1> QED BY <1>4, <1>5

LEMMA GameFits ==
    ASSUME GameTypeOK, OrdersFit, GameAction
    PROVE  OrdersFit'
<1>0. UNCHANGED units => OrdersFit'
  BY DEF OrdersFit
<1>1. CASE SetOut \/ Refuse \/ Income
  BY <1>0, <1>1 DEF SetOut, Refuse, Income
<1>2. CASE Obey
  BY <1>2, ObeyFits
<1>3. ASSUME NEW t \in UnitType, Lay(t) PROVE OrdersFit'
  <2>1. NextTag \in Tag /\ units' = [units EXCEPT ![NextTag] = Site(t)]
    BY <1>3, NextTagVacant DEF Lay
  <2>2. FitOrders(Site(t))
    BY SiteFields, EmptyFits
  <2> QED BY <2>1, <2>2 DEF OrdersFit, GameTypeOK
<1>4. ASSUME NEW t \in UnitType, FailToLay(t) PROVE OrdersFit'
  BY <1>0, <1>4 DEF FailToLay
<1>5. ASSUME \A v \in Tag : /\ units'[v].type = units[v].type
                            /\ units'[v].addon \in {units[v].addon, NullTag}
                            /\ units'[v].orders \in {units[v].orders, <<>>}
      PROVE  OrdersFit'
  BY <1>5, FewerOrdersFit DEF OrdersFit
<1>6. ASSUME NEW u \in Tag, Complete(u) PROVE OrdersFit'
  <2>1. \A v \in Tag : units'[v] = IF v = u THEN [units[v] EXCEPT !.built = TRUE]
                    ELSE IF units[v].addon = u THEN [units[v] EXCEPT !.orders = <<>>]
                    ELSE units[v]
    BY <1>6 DEF Complete
  <2>2. \A v \in Tag : /\ units'[v].type = units[v].type
                       /\ units'[v].addon \in {units[v].addon, NullTag}
                       /\ units'[v].orders \in {units[v].orders, <<>>}
    BY <2>1 DEF GameTypeOK, Structure
  <2> QED BY <1>5, <2>2
<1>7. ASSUME NEW u \in Tag, NEW kind, Raze(u, kind) PROVE OrdersFit'
  <2>1. ASSUME NEW v \in Tag
        PROVE  /\ units'[v].type = units[v].type
               /\ units'[v].addon \in {units[v].addon, NullTag}
               /\ units'[v].orders \in {units[v].orders, <<>>}
    <3>1. \/ units'[v] = [[units[v] EXCEPT !.alive = FALSE] EXCEPT !.orders = <<>>]
          \/ units'[v] = units[v]
          \/ units'[v] = [[units[v] EXCEPT !.addon = NullTag] EXCEPT !.orders = @]
          \/ units'[v] = [[units[v] EXCEPT !.addon = NullTag] EXCEPT !.orders = <<>>]
      BY <1>7 DEF Raze
    <3> QED BY <3>1 DEF GameTypeOK, Structure
  <2> QED BY <1>5, <2>1
<1>8. ASSUME NEW u \in Tag, NEW i \in 1 .. 2, Finish(u, i) PROVE OrdersFit'
  BY <1>8, FinishFits
<1> QED BY <1>1, <1>2, <1>3, <1>4, <1>6, <1>7, <1>8 DEF GameAction

LEMMA BotKeepsUnits == BotStep => UNCHANGED units
BY DEF BotStep, ScheduleOpening, OnUnitDestroyed, OnUnitCreated, OnUnitIdle,
       OnReaperCreated, ApiOnStep, MinerOnStep, QuarterMasterOnStep, BuilderOnStep,
       TrainNext, SendActions, gameVars

LEMMA OrdersFitStep ==
    ASSUME TypeInv, OrdersFit, [Next]_vars
    PROVE  OrdersFit'
<1>1. CASE UNCHANGED units
  BY <1>1 DEF OrdersFit
<1>2. CASE GameAction
  BY <1>2, TypeSplit, GameFits DEF TypeInv
<1>3. UNCHANGED units \/ GameAction
  BY BotKeepsUnits, GameStepIsAction DEF Next, vars, gameVars, Observe
<1> QED BY <1>1, <1>2, <1>3

LEMMA OrdersFitInit == Init => OrdersFit
<1> SUFFICES ASSUME Init, NEW u \in Tag PROVE FitOrders(units[u])
  BY DEF OrdersFit
<1>1. units[u].orders = <<>> /\ units[u].addon = NullTag
  BY DEF Init, Site, Vacant
<1> QED BY <1>1, EmptyFits

(***************************************************************************)
(* Queues in which whatever an order requires, if it is not among S, is    *)
(* ahead of it.                                                            *)
(***************************************************************************)
AheadIn(q, S) ==
    \A i \in DOMAIN q :
       \/ Requirement(q[i]) \in S \cup {NoType}
       \/ \E j \in 1 .. i - 1 : q[j] = Requirement(q[i])

LEMMA AheadConcat ==
    ASSUME NEW q \in Seq(UnitType), NEW p \in Seq(UnitType), NEW S,
           AheadIn(q, S), AheadIn(p, S \cup Elems(q))
    PROVE  AheadIn(q \o p, S)
<1>1. /\ q \o p \in Seq(UnitType) /\ Len(q \o p) = Len(q) + Len(p)
      /\ \A i \in 1 .. Len(q) + Len(p) :
            (q \o p)[i] = IF i <= Len(q) THEN q[i] ELSE p[i - Len(q)]
  BY ConcatProperties
<1>2. /\ DOMAIN q = 1 .. Len(q) /\ DOMAIN p = 1 .. Len(p)
      /\ DOMAIN (q \o p) = 1 .. Len(q) + Len(p)
      /\ Len(q) \in Nat /\ Len(p) \in Nat
  BY <1>1, LenProperties
<1> DEFINE a == q \o p
<1> HIDE DEF a
<1>3. ASSUME NEW i \in 1 .. Len(q)
      PROVE  \/ Requirement(a[i]) \in S \cup {NoType}
             \/ \E j \in 1 .. i - 1 : a[j] = Requirement(a[i])
  <2>1. a[i] = q[i] /\ \A j \in 1 .. i - 1 : a[j] = q[j]
    BY <1>1, <1>2 DEF a
  <2> QED BY <1>2, <2>1 DEF AheadIn
<1>4. ASSUME NEW i \in 1 .. Len(p)
      PROVE  \/ Requirement(a[Len(q) + i]) \in S \cup {NoType}
             \/ \E j \in 1 .. Len(q) + i - 1 : a[j] = Requirement(a[Len(q) + i])
  <2>1. a[Len(q) + i] = p[i]
    <3>1. Len(q) + i \in 1 .. Len(q) + Len(p) /\ ~(Len(q) + i <= Len(q)) /\ Len(q) + i - Len(q) = i
      BY <1>2
    <3> QED BY <1>1, <3>1 DEF a
  <2>2. CASE Requirement(p[i]) \in S \cup {NoType}
    BY <2>1, <2>2
  <2>3. CASE Requirement(p[i]) \in Elems(q)
    <3>1. PICK j \in DOMAIN q : q[j] = Requirement(p[i])
      BY <2>3 DEF Elems
    <3>2. j \in 1 .. Len(q) + i - 1 /\ a[j] = q[j]
      BY <1>1, <1>2 DEF a
    <3> QED BY <2>1, <3>1, <3>2
  <2>4. ASSUME NEW j \in 1 .. i - 1, p[j] = Requirement(p[i])
        PROVE  \E k \in 1 .. Len(q) + i - 1 : a[k] = Requirement(a[Len(q) + i])
    <3>1. /\ Len(q) + j \in 1 .. Len(q) + i - 1 /\ Len(q) + j \in 1 .. Len(q) + Len(p)
          /\ ~(Len(q) + j <= Len(q)) /\ Len(q) + j - Len(q) = j
      BY <1>2
    <3>2. a[Len(q) + j] = p[j]
      BY <1>1, <3>1 DEF a
    <3> QED BY <2>1, <2>4, <3>1, <3>2
  <2> QED BY <1>2, <2>2, <2>3, <2>4 DEF AheadIn
<1>5. ASSUME NEW i \in DOMAIN a
      PROVE  \/ Requirement(a[i]) \in S \cup {NoType}
             \/ \E j \in 1 .. i - 1 : a[j] = Requirement(a[i])
  <2>1. CASE i <= Len(q)
    BY <1>2, <1>3, <2>1 DEF a
  <2>2. CASE ~(i <= Len(q))
    <3>1. i - Len(q) \in 1 .. Len(p) /\ Len(q) + (i - Len(q)) = i
      BY <1>2, <2>2 DEF a
    <3>2. \/ Requirement(a[Len(q) + (i - Len(q))]) \in S \cup {NoType}
          \/ \E j \in 1 .. Len(q) + (i - Len(q)) - 1 : a[j] = Requirement(a[Len(q) + (i - Len(q))])
      BY <1>4, <3>1
    <3> QED BY <3>1, <3>2
  <2> QED BY <2>1, <2>2
<1> QED BY <1>5 DEF AheadIn, a

LEMMA AheadTail ==
    ASSUME NEW q \in Seq(UnitType), q # <<>>, NEW S, AheadIn(q, S)
    PROVE  AheadIn(Tail(q), S \cup {Head(q)})
<1>1. /\ Tail(q) \in Seq(UnitType) /\ Len(Tail(q)) = Len(q) - 1 /\ Head(q) = q[1]
      /\ \A i \in 1 .. Len(Tail(q)) : Tail(q)[i] = q[i + 1]
  BY HeadTailProperties
<1>2. /\ Len(q) \in Nat /\ DOMAIN q = 1 .. Len(q) /\ DOMAIN Tail(q) = 1 .. Len(q) - 1
  BY <1>1, LenProperties
<1> DEFINE b == Tail(q)
<1> HIDE DEF b
<1>3. ASSUME NEW i \in DOMAIN b
      PROVE  \/ Requirement(b[i]) \in (S \cup {Head(q)}) \cup {NoType}
             \/ \E j \in 1 .. i - 1 : b[j] = Requirement(b[i])
  <2>1. i + 1 \in DOMAIN q /\ b[i] = q[i + 1] /\ (i + 1) - 1 = i
    BY <1>1, <1>2 DEF b
  <2>2. ASSUME NEW j \in 1 .. i, q[j] = Requirement(q[i + 1])
        PROVE  \/ q[j] = Head(q)
               \/ \E k \in 1 .. i - 1 : b[k] = Requirement(b[i])
    <3>1. CASE j = 1
      BY <1>1, <3>1
    <3>2. CASE j # 1
      <4>1. j - 1 \in 1 .. i - 1 /\ j - 1 \in 1 .. Len(q) - 1 /\ (j - 1) + 1 = j
        BY <1>2, <3>2 DEF b
      <4>2. b[j - 1] = q[j]
        BY <1>1, <4>1 DEF b
      <4> QED BY <2>1, <2>2, <4>1, <4>2
    <3> QED BY <3>1, <3>2
  <2>3. \/ Requirement(q[i + 1]) \in S \cup {NoType}
        \/ \E j \in 1 .. i : q[j] = Requirement(q[i + 1])
    BY <2>1 DEF AheadIn
  <2> QED BY <2>1, <2>2, <2>3
<1> QED BY <1>3 DEF AheadIn, b

LEMMA AheadMonotone ==
    ASSUME NEW q, NEW S, NEW T, AheadIn(q, S),
           \A i \in DOMAIN q : Requirement(q[i]) \in S => Requirement(q[i]) \in T
    PROVE  AheadIn(q, T)
BY DEF AheadIn

(* What ScheduleConstruction appends goes from the deepest requirement to   *)
(* the structure.                                                           *)
LEMMA AheadRequired ==
    ASSUME NEW t \in UnitType, NEW n \in 0 .. Len(TechLine[t]), NEW S,
           n < Len(TechLine[t]) => TechLine[t][n + 1] \in S
    PROVE  AheadIn(Required(t, n) \o <<t>>, S)
<1> DEFINE line == TechLine[t]
           p == Required(t, n)
           a == p \o <<t>>
<1>1. /\ line \in Seq(UnitType) /\ Len(line) \in Nat
      /\ line = <<>> <=> Requirement(t) = NoType
      /\ line # <<>> => line[1] = Requirement(t)
      /\ \A i \in 1 .. Len(line) :
            IF i = Len(line) THEN Requirement(line[i]) = NoType
            ELSE Requirement(line[i]) = line[i + 1]
  BY TechLineAssumption, LenProperties
<1>2. p \in Seq(UnitType) /\ Len(p) = n /\ \A i \in 1 .. n : p[i] = line[n + 1 - i]
  BY RequiredType
<1>3. n < Len(line) => line[n + 1] \in S
  OBVIOUS
<1> HIDE DEF line, p
<1>4. <<t>> \in Seq(UnitType) /\ Len(<<t>>) = 1 /\ <<t>>[1] = t
  OBVIOUS
<1>5. /\ a \in Seq(UnitType) /\ Len(a) = n + 1
      /\ \A i \in 1 .. n : a[i] = p[i]
      /\ a[n + 1] = t
  <2>1. /\ a \in Seq(UnitType) /\ Len(a) = Len(p) + Len(<<t>>)
        /\ \A i \in 1 .. Len(p) + Len(<<t>>) :
              a[i] = IF i <= Len(p) THEN p[i] ELSE <<t>>[i - Len(p)]
    BY <1>2, <1>4, ConcatProperties
  <2>2. n \in Nat /\ Len(p) = n /\ Len(<<t>>) = 1
    BY <1>1, <1>2
  <2>3. \A i \in 1 .. n : a[i] = p[i]
    BY <2>1, <2>2
  <2>4. a[n + 1] = <<t>>[(n + 1) - n]
    BY <2>1, <2>2
  <2> QED BY <2>1, <2>2, <2>3, <2>4
<1> HIDE DEF a
<1>6. DOMAIN a = 1 .. n + 1 /\ n \in Nat /\ n <= Len(line)
  BY <1>1, <1>5, LenProperties DEF line
<1>7. ASSUME NEW i \in 1 .. n
      PROVE  \/ Requirement(a[i]) \in S \cup {NoType}
             \/ \E j \in 1 .. i - 1 : a[j] = Requirement(a[i])
  <2> DEFINE k == n + 1 - i
  <2>1. k \in 1 .. n /\ k \in 1 .. Len(line) /\ a[i] = line[k]
    BY <1>2, <1>5, <1>6
  <2>2. CASE k = Len(line)
    BY <1>1, <2>1, <2>2
  <2>3. CASE k # Len(line)
    <3>1. Requirement(a[i]) = line[k + 1]
      BY <1>1, <2>1, <2>3
    <3>2. CASE k = n
      BY <1>3, <1>6, <2>1, <2>3, <3>1, <3>2
    <3>3. CASE k # n
      <4>1. i - 1 \in 1 .. i - 1 /\ i - 1 \in 1 .. n /\ n + 1 - (i - 1) = k + 1
        BY <1>6, <2>1, <3>3
      <4>2. a[i - 1] = line[k + 1]
        BY <1>2, <1>5, <4>1
      <4> QED BY <3>1, <4>1, <4>2
    <3> QED BY <3>2, <3>3
  <2> QED BY <2>2, <2>3
<1>8. \/ Requirement(t) \in S \cup {NoType}
      \/ \E j \in 1 .. n : a[j] = Requirement(t)
  <2>1. CASE line = <<>>
    BY <1>1, <2>1
  <2>2. CASE line # <<>> /\ n = 0
    <3>1. Len(line) > 0
      BY <1>1, <2>2, EmptySeq
    <3> QED BY <1>1, <1>3, <2>2, <3>1
  <2>3. CASE line # <<>> /\ n # 0
    <3>1. n \in 1 .. n /\ n + 1 - n = 1
      BY <1>6, <2>3
    <3>2. a[n] = line[1]
      BY <1>2, <1>5, <3>1
    <3> QED BY <1>1, <2>3, <3>1, <3>2
  <2> QED BY <2>1, <2>2, <2>3
<1>9. ASSUME NEW i \in DOMAIN a
      PROVE  \/ Requirement(a[i]) \in S \cup {NoType}
             \/ \E j \in 1 .. i - 1 : a[j] = Requirement(a[i])
  <2>1. i \in 1 .. n \/ i = n + 1
    BY <1>6
  <2>2. CASE i = n + 1
    BY <1>5, <1>6, <1>8, <2>2
  <2> QED BY <1>7, <2>1, <2>2
<1> QED BY <1>9 DEF AheadIn, a, p

(***************************************************************************)
(* Scheduling.  An order that is not urgent goes behind all it requires;   *)
(* an urgent one goes to the front, and must not require anything.         *)
(***************************************************************************)
LEMMA ScheduledLater ==
    ASSUME constructions \in Seq(UnitType), NEW t \in UnitType, NEW standing, NEW S,
           ScheduleConstruction(t, FALSE, standing), standing \cap UnitType \subseteq S,
           AheadIn(constructions, S)
    PROVE  /\ AheadIn(constructions', S)
           /\ Elems(constructions') \subseteq
                 Elems(constructions) \cup {t} \cup Elems(TechLine[t])
<1>1. PICK n \in 0 .. Len(TechLine[t]) :
         /\ Missing(t, n, standing)
         /\ constructions' = constructions \o Required(t, n) \o <<t>>
  BY DEF ScheduleConstruction
<1> DEFINE p == Required(t, n) \o <<t>>
<1>2. /\ Required(t, n) \in Seq(UnitType) /\ Len(Required(t, n)) = n /\ <<t>> \in Seq(UnitType)
      /\ TechLine[t] \in Seq(UnitType) /\ Len(TechLine[t]) \in Nat
      /\ \A i \in 1 .. n : Required(t, n)[i] = TechLine[t][n + 1 - i]
  BY RequiredType, TechLineAssumption, LenProperties
<1>3. p \in Seq(UnitType) /\ constructions' = constructions \o p
  BY <1>1, <1>2, ConcatProperties, ConcatAssociative
<1>4. n < Len(TechLine[t]) => TechLine[t][n + 1] \in S \cup Elems(constructions)
  <2>1. ASSUME n < Len(TechLine[t])
        PROVE  TechLine[t][n + 1] \in standing \cup Scheduled /\ TechLine[t][n + 1] \in UnitType
    <3>1. n + 1 \in 1 .. Len(TechLine[t])
      BY <1>2, <2>1
    <3>2. TechLine[t][n + 1] \in UnitType
      BY <1>2, <3>1, ElementOfSeq
    <3> QED BY <1>1, <2>1, <3>2 DEF Missing
  <2> QED BY <2>1 DEF Scheduled, Elems
<1>5. AheadIn(p, S \cup Elems(constructions))
  BY <1>4, AheadRequired
<1>6. Elems(p) \subseteq {t} \cup Elems(TechLine[t])
  <2>1. Elems(Required(t, n)) \subseteq Elems(TechLine[t])
    <3>1. DOMAIN Required(t, n) = 1 .. n /\ DOMAIN TechLine[t] = 1 .. Len(TechLine[t])
      BY <1>2, LenProperties
    <3>2. \A i \in 1 .. n : n + 1 - i \in 1 .. Len(TechLine[t])
      BY <1>2
    <3> QED BY <1>2, <3>1, <3>2 DEF Elems
  <2>2. Elems(p) \subseteq Elems(Required(t, n)) \cup Elems(<<t>>)
    BY <1>2, ElemsOfConcat
  <2>3. Elems(<<t>>) = {t}
    BY DEF Elems
  <2> QED BY <2>1, <2>2, <2>3
<1> HIDE DEF p
<1>7. AheadIn(constructions \o p, S)
  BY <1>3, <1>5, AheadConcat
<1>8. Elems(constructions \o p) \subseteq Elems(constructions) \cup Elems(p)
  BY <1>3, ElemsOfConcat
<1> QED BY <1>3, <1>6, <1>7, <1>8

LEMMA ScheduledUrgently ==
    ASSUME constructions \in Seq(UnitType), NEW t \in UnitType, NEW standing,
           ScheduleConstruction(t, TRUE, standing), Requirement(t) = NoType
    PROVE  constructions' = <<t>> \o constructions
<1>1. PICK n \in 0 .. Len(TechLine[t]) :
         constructions' = <<t>> \o constructions \o Required(t, n)
  BY DEF ScheduleConstruction
<1>2. TechLine[t] = <<>>
  BY TechLineAssumption
<1>3. Required(t, n) = <<>>
  BY <1>2, RequiredType, EmptySeq
<1>4. <<t>> \in Seq(UnitType) /\ <<t>> \o constructions \in Seq(UnitType)
  BY ConcatProperties
<1> QED BY <1>1, <1>3, <1>4, ConcatEmptySeq

LEMMA UrgentAhead ==
    ASSUME constructions \in Seq(UnitType), NEW t \in UnitType, NEW standing, NEW S,
           ScheduleConstruction(t, TRUE, standing), Requirement(t) = NoType,
           AheadIn(constructions, S)
    PROVE  /\ AheadIn(constructions', S)
           /\ Elems(constructions') \subseteq Elems(constructions) \cup {t}
<1>0. <<t>> \in Seq(UnitType)
  OBVIOUS
<1>1. constructions' = <<t>> \o constructions
  BY ScheduledUrgently
<1>2. Elems(<<t>>) = {t} /\ AheadIn(<<t>>, S)
  BY DEF AheadIn, Elems
<1>3. AheadIn(constructions, S \cup Elems(<<t>>))
  BY AheadMonotone
<1> QED BY <1>0, <1>1, <1>2, <1>3, AheadConcat, ElemsOfConcat

(***************************************************************************)
(* What the theorem supposes: nothing is destroyed, lost or unpaid; what   *)
(* the opening requires are structures an SCV builds; the depot and the    *)
(* reactor, which are urgent, require nothing.                             *)
(***************************************************************************)
Calm == Mishaps \subseteq {"crowded"}
StructuresRequired ==
    \A i \in DOMAIN Opening : \A r \in Elems(TechLine[Opening[i]]) : IsStructure(r)
UrgentRequireNothing ==
    Requirement("SupplyDepot") = NoType /\ Requirement("BarracksReactor") = NoType

(* Once it is coming, a structure stays so: it is commanded, an SCV sets    *)
(* out, lays it, and it stands, if only as what counts for it.              *)
LEMMA StandingStays ==
    ASSUME Calm, GameTypeOK, GameOccupied, OrdersFit, GameAction, NEW v \in Tag, NEW r \in UnitType,
           units[v].alive, units[v].type \in Satisfying(r), IsStructure(r)
    PROVE  units'[v].alive /\ units'[v].type \in Satisfying(r)
<1>0. UNCHANGED units => units'[v].alive /\ units'[v].type \in Satisfying(r)
  OBVIOUS
<1>1. r \notin Mutations /\ units[v].type # NoType
  BY MutationPlot DEF IsStructure, GameOccupied
<1>2. CASE SetOut \/ Refuse \/ Income
  BY <1>0, <1>2 DEF SetOut, Refuse, Income
<1>3. CASE Obey
  <2> DEFINE c == Head(commands)
             queued == [units EXCEPT ![c.unit].orders = Append(@, c.type)]
  <2>1. /\ queued[v].alive = units[v].alive /\ queued[v].type = units[v].type
        /\ queued \in [Tag -> [type : UnitType \cup {NoType}, alive : BOOLEAN,
                               built : BOOLEAN, orders : {queued[w].orders : w \in Tag},
                               addon : Tag \cup {NullTag}]]
    BY DEF GameTypeOK, Structure
  <2>2. CASE units' = queued
    BY <2>1, <2>2
  <2>3. CASE Plot(c.type) = "Addon"
    <3>1. NextTag \in Tag /\ NextTag # v
      BY <1>1, <1>3, <2>3, NextTagVacant DEF Obey
    <3>2. units' = [queued EXCEPT ![c.unit].addon = NextTag, ![NextTag] = Site(c.type)]
      BY <1>3, <2>3 DEF Obey
    <3> HIDE DEF queued
    <3>3. units'[v].alive = queued[v].alive /\ units'[v].type = queued[v].type
      BY <2>1, <3>1, <3>2
    <3> QED BY <2>1, <3>3
  <2> QED BY <1>3, <2>2, <2>3 DEF Obey
<1>4. ASSUME NEW t \in UnitType, Lay(t)
      PROVE  units'[v].alive /\ units'[v].type \in Satisfying(r)
  <2>1. NextTag \in Tag /\ NextTag # v
    BY <1>1, <1>4, NextTagVacant DEF Lay
  <2> QED BY <1>4, <2>1 DEF Lay, GameTypeOK
<1>5. ASSUME NEW t \in UnitType, FailToLay(t)
      PROVE  units'[v].alive /\ units'[v].type \in Satisfying(r)
  BY <1>0, <1>5 DEF FailToLay
<1>6. ASSUME NEW u \in Tag, Complete(u)
      PROVE  units'[v].alive /\ units'[v].type \in Satisfying(r)
  <2>1. units'[v] = IF v = u THEN [units[v] EXCEPT !.built = TRUE]
                    ELSE IF units[v].addon = u THEN [units[v] EXCEPT !.orders = <<>>]
                    ELSE units[v]
    BY <1>6 DEF Complete
  <2>2. units'[v].alive = units[v].alive /\ units'[v].type = units[v].type
    BY <2>1 DEF GameTypeOK, Structure
  <2> QED BY <2>2
<1>7. ASSUME NEW u \in Tag, NEW kind \in {"razed", "unfinished"}, Raze(u, kind) PROVE FALSE
  BY <1>7 DEF Raze, Mishap, Calm
<1>8. ASSUME NEW u \in Tag, NEW i \in 1 .. 2, Finish(u, i)
      PROVE  units'[v].alive /\ units'[v].type \in Satisfying(r)
  <2> DEFINE t == units[u].orders[i]
             rest == SubSeq(units[u].orders, 1, i - 1)
                     \o SubSeq(units[u].orders, i + 1, Len(units[u].orders))
  <2>1. /\ units' = [units EXCEPT ![u].orders = rest,
                                  ![u].type = IF Plot(t) = "Mutation" THEN t ELSE @]
        /\ t \in Elems(units[u].orders)
    BY <1>8 DEF Finish, Elems
  <2>2. Plot(t) = "Mutation" => t \in Mutations /\ units[u].type = "CommandCenter"
    BY <2>1, MutationPlot DEF OrdersFit, FitOrders
  <2> HIDE DEF t, rest
  <2>3. /\ units'[v].alive = units[v].alive
        /\ units'[v].type = IF v = u /\ Plot(t) = "Mutation" THEN t ELSE units[v].type
    BY <2>1 DEF GameTypeOK, Structure
  <2> QED BY <1>1, <2>2, <2>3 DEF Satisfying, Mutations
<1> QED BY <1>2, <1>3, <1>4, <1>5, <1>6, <1>7, <1>8 DEF GameAction

LEMMA GameComing ==
    ASSUME Calm, GameTypeOK, GameOccupied, OrdersFit, GameAction, NEW r \in UnitType, IsStructure(r),
           Coming(r)
    PROVE  Coming(r)'
<1>1. ASSUME NEW v \in Tag, units[v].alive, units[v].type \in Satisfying(r)
      PROVE  Coming(r)'
  BY <1>1, StandingStays DEF Coming
<1>2. ASSUME NEW c \in Elems(commands), c.type = r
      PROVE  Coming(r)'
  <2>0. commands \in Seq(Command) /\ commands # <<>> /\ travelling \in [UnitType -> Nat]
    BY DEF GameTypeOK, Elems
  <2>1. c = Head(commands) \/ c \in Elems(Tail(commands))
    BY <2>0, ElemsHeadTail
  <2>2. \A q : commands' = q /\ c \in Elems(q) => Coming(r)'
    BY <1>2 DEF Coming, Elems
  <2>3. CASE SetOut
    <3>1. c = Head(commands) => travelling'[r] > 0
      BY <1>2, <2>0, <2>3 DEF SetOut
    <3> QED BY <2>1, <2>2, <2>3, <3>1 DEF SetOut, Coming
  <2>4. CASE Obey \/ Refuse
    BY <1>2, <2>1, <2>2, <2>4 DEF Obey, Refuse
  <2>5. CASE UNCHANGED commands
    BY <2>2, <2>5
  <2> QED BY <2>3, <2>4, <2>5 DEF GameAction, Income, Lay, FailToLay, Complete, Raze, Finish
<1>3. CASE travelling[r] > 0
  <2>0. travelling \in [UnitType -> Nat] /\ units \in [Tag -> Structure]
    BY DEF GameTypeOK
  <2>1. CASE SetOut
    <3>1. travelling'[r] > 0
      BY <1>3, <2>0, <2>1 DEF SetOut
    <3> QED BY <3>1 DEF Coming
  <2>2. ASSUME NEW t \in UnitType, Lay(t) PROVE Coming(r)'
    <3>1. CASE t = r
      <4>1. NextTag \in Tag /\ units' = [units EXCEPT ![NextTag] = Site(r)]
        BY <2>2, <3>1, NextTagVacant DEF Lay
      <4>2. units'[NextTag].alive /\ units'[NextTag].type = r
        BY <2>0, <4>1, SiteFields
      <4>3. r \in Satisfying(r)
        BY DEF Satisfying
      <4> QED BY <4>1, <4>2, <4>3 DEF Coming
    <3>2. CASE t # r
      <4>1. travelling'[r] > 0
        BY <1>3, <2>0, <2>2, <3>2 DEF Lay
      <4> QED BY <4>1 DEF Coming
    <3> QED BY <3>1, <3>2
  <2>3. ASSUME NEW t \in UnitType, FailToLay(t) PROVE FALSE
    BY <2>3 DEF FailToLay, Mishap, Calm
  <2>4. CASE UNCHANGED travelling
    BY <1>3, <2>4 DEF Coming
  <2> QED BY <2>1, <2>2, <2>3, <2>4 DEF GameAction, Obey, Refuse, Income, Complete, Raze, Finish
<1> QED BY <1>1, <1>2, <1>3 DEF Coming, Elems

(***************************************************************************)
(* The inductive invariant.  Nothing dies, so that RepairMan never orders  *)
(* anything; whatever a queued order requires is a structure, whose        *)
(* command no producer can refuse.                                         *)
(***************************************************************************)
ComingTypes == {r \in UnitType : Coming(r)}
NothingDies == listed \subseteq Existing /\ events.destroyed = {}
Sturdy == \A x \in Elems(constructions) :
             Requirement(x) = NoType \/ IsStructure(Requirement(x))

QueueInv ==
    /\ StepInv /\ OrdersFit /\ NothingDies /\ Sturdy
    /\ AheadIn(constructions, ComingTypes)

LEMMA QueueInvAhead == QueueInv => RequirementAhead
<1> SUFFICES ASSUME QueueInv, NEW i \in DOMAIN constructions
             PROVE  LET r == Requirement(constructions[i])
                    IN  r = NoType \/ Coming(r) \/ \E j \in 1 .. i - 1 : constructions[j] = r
  BY DEF RequirementAhead
<1> QED BY DEF QueueInv, AheadIn, ComingTypes

LEMMA ComingGrows ==
    ASSUME UNCHANGED <<units, travelling>>, Elems(commands) \subseteq Elems(commands')
    PROVE  ComingTypes \subseteq ComingTypes'
<1> SUFFICES ASSUME NEW r \in UnitType, Coming(r) PROVE Coming(r)'
  BY DEF ComingTypes
<1>1. ASSUME NEW c \in Elems(commands), c.type = r PROVE Coming(r)'
  BY <1>1 DEF Coming, Elems
<1> QED BY <1>1 DEF Coming, Elems

LEMMA NothingDiesStep ==
    ASSUME Calm, TypeInv, NothingDies, StepOrder, [Next]_vars
    PROVE  NothingDies'
<1>0. listed \subseteq Tag /\ GameTypeOK /\ units \in [Tag -> Structure] /\ events \in EventRecord
  BY TypeSplit DEF TypeInv, TypeOK
<1>1. CASE UNCHANGED vars
  BY <1>1 DEF vars, gameVars, obsVars, NothingDies, Existing
<1>2. CASE Observe
  <2>1. UNCHANGED <<units, listed>> /\ events'.destroyed = listed \ Existing
    BY <1>2 DEF Observe, NewEvents
  <2> QED BY <2>1 DEF NothingDies, Existing
<1>3. CASE GameAction /\ UNCHANGED botVars
  <2>1. UNCHANGED <<listed, events>>
    BY <1>3 DEF botVars, obsVars
  <2>2. ASSUME NEW v \in Tag, units[v].alive PROVE units'[v].alive
    <3>1. CASE \E u \in Tag : Raze(u, "razed") \/ Raze(u, "unfinished")
      BY <3>1 DEF Raze, Mishap, Calm
    <3>2. CASE \E u \in Tag, i \in 1 .. 2 : Finish(u, i)
      <4>1. PICK u \in Tag, i \in 1 .. 2 : Finish(u, i)
        BY <3>2
      <4> DEFINE o == SubSeq(units[u].orders, 1, i - 1)
                      \o SubSeq(units[u].orders, i + 1, Len(units[u].orders))
                 t == IF Plot(units[u].orders[i]) = "Mutation" THEN units[u].orders[i]
                      ELSE units[u].type
      <4>2. units' = [units EXCEPT ![u].orders = o, ![u].type = t]
        BY <4>1 DEF Finish
      <4> HIDE DEF o, t
      <4> QED BY <1>0, <2>2, <4>2 DEF Structure
    <3>3. CASE SetOut \/ Refuse \/ Income \/ \E t \in UnitType : FailToLay(t)
      BY <2>2, <3>3 DEF SetOut, Refuse, Income, FailToLay
    <3>4. CASE \E t \in UnitType : Lay(t)
      <4>1. PICK t \in UnitType : Lay(t)
        BY <3>4
      <4>2. NextTag \in Tag /\ units' = [units EXCEPT ![NextTag] = Site(t)]
        BY <4>1, NextTagVacant DEF Lay
      <4> QED BY <1>0, <2>2, <4>2, SiteFields
    <3>5. CASE \E u \in Tag : Complete(u)
      <4>1. PICK u \in Tag : Complete(u)
        BY <3>5
      <4>2. units'[v] = IF v = u THEN [units[v] EXCEPT !.built = TRUE]
                        ELSE IF units[v].addon = u THEN [units[v] EXCEPT !.orders = <<>>]
                        ELSE units[v]
        BY <4>1 DEF Complete
      <4> QED BY <1>0, <2>2, <4>2 DEF Structure
    <3>6. CASE Obey
      <4> DEFINE c == Head(commands)
                 queued == [units EXCEPT ![c.unit].orders = Append(@, c.type)]
      <4>1. /\ queued[v].alive = units[v].alive
            /\ queued \in [Tag -> [type : UnitType \cup {NoType}, alive : BOOLEAN,
                                   built : BOOLEAN, orders : {queued[w].orders : w \in Tag},
                                   addon : Tag \cup {NullTag}]]
        BY <1>0 DEF Structure
      <4>2. CASE units' = queued
        BY <2>2, <4>1, <4>2
      <4>3. CASE Plot(c.type) = "Addon"
        <5>1. NextTag \in Tag
          BY <3>6, <4>3, NextTagVacant DEF Obey
        <5>2. units' = [queued EXCEPT ![c.unit].addon = NextTag, ![NextTag] = Site(c.type)]
          BY <3>6, <4>3 DEF Obey
        <5> HIDE DEF queued
        <5>3. units'[v].alive = queued[v].alive \/ units'[v] = Site(c.type)
          BY <4>1, <5>1, <5>2
        <5> QED BY <2>2, <4>1, <5>3, SiteFields
      <4> QED BY <3>6, <4>2, <4>3 DEF Obey
    <3> QED BY <1>3, <3>1, <3>2, <3>3, <3>4, <3>5, <3>6 DEF GameAction
  <2> QED BY <1>0, <2>1, <2>2 DEF NothingDies, Existing
<1>4. CASE BotStep
  <2>1. UNCHANGED units
    BY <1>4, BotKeepsUnits
  <2>2. listed' = listed \/ listed' = Existing
    BY <1>4 DEF BotStep, ScheduleOpening, OnUnitDestroyed, OnUnitCreated, OnUnitIdle,
       OnReaperCreated, ApiOnStep, RefreshAll, MinerOnStep, QuarterMasterOnStep,
       BuilderOnStep, TrainNext, SendActions, obsVars
  <2>3. events'.destroyed = events.destroyed \/ \E u \in Tag : OnUnitDestroyed(u)
    BY <1>0, <1>4 DEF BotStep, ScheduleOpening, OnUnitCreated, OnUnitIdle,
       OnReaperCreated, ApiOnStep, MinerOnStep, QuarterMasterOnStep,
       BuilderOnStep, TrainNext, SendActions, obsVars, EventRecord
  <2> QED BY <2>1, <2>2, <2>3 DEF NothingDies, Existing, OnUnitDestroyed
<1> QED BY <1>1, <1>2, <1>3, <1>4, GameStepIsAction DEF Next

(* A step of the bot that schedules nothing, or only what requires nothing. *)
LEMMA KeptQueue ==
    ASSUME Sturdy, AheadIn(constructions, ComingTypes), ComingTypes \subseteq ComingTypes',
           UNCHANGED constructions
    PROVE  Sturdy' /\ AheadIn(constructions', ComingTypes')
<1>1. AheadIn(constructions, ComingTypes')
  BY AheadMonotone
<1> QED BY <1>1 DEF Sturdy

LEMMA UrgentQueue ==
    ASSUME Sturdy, AheadIn(constructions, ComingTypes), ComingTypes \subseteq ComingTypes',
           constructions \in Seq(UnitType), NEW t \in UnitType, NEW standing,
           Requirement(t) = NoType, ScheduleConstruction(t, TRUE, standing)
    PROVE  Sturdy' /\ AheadIn(constructions', ComingTypes')
<1>1. AheadIn(constructions, ComingTypes')
  BY AheadMonotone
<1> QED BY <1>1, UrgentAhead DEF Sturdy

LEMMA OpeningQueue ==
    ASSUME StructuresRequired, QueueInv, ScheduleOpening
    PROVE  Sturdy' /\ AheadIn(constructions', ComingTypes')
<1>0. /\ constructions \in Seq(UnitType) /\ phase = "opening" /\ Fresh /\ Sturdy
      /\ UNCHANGED <<units, travelling, commands>> /\ AheadIn(constructions, ComingTypes)
  BY DEF QueueInv, StepInv, SightInv, TypeInv, TypeOK, ScheduleOpening, gameVars, StepOrder
<1>1. ComingTypes' = ComingTypes
  BY <1>0 DEF ComingTypes, Coming
<1>2. CASE cursor \in DOMAIN Opening
  <2> DEFINE t == Opening[cursor]
  <2>1. t \in UnitType /\ ScheduleConstruction(t, FALSE, Standing)
    BY <1>2, DispatcherAssumption, ElementOfSeq, LenProperties DEF ScheduleOpening
  <2>2. Standing \cap UnitType \subseteq ComingTypes
    <3>1. ASSUME NEW r \in UnitType, NEW v \in listed, view[v].type = r PROVE Coming(r)
      <4>1. v \in Tag /\ units[v].alive /\ units[v].type = r
        BY <1>0, <3>1 DEF Fresh, Existing
      <4> QED BY <4>1 DEF Coming, Satisfying
    <3> QED BY <3>1 DEF Standing, ComingTypes
  <2>3. \A r \in Elems(TechLine[t]) : IsStructure(r)
    BY <1>2 DEF StructuresRequired
  <2>4. Requirement(t) = NoType \/ IsStructure(Requirement(t))
    <3>1. TechLine[t] \in Seq(UnitType)
      BY <2>1, TechLineAssumption
    <3>2. CASE TechLine[t] # <<>>
      <4>1. 1 \in DOMAIN TechLine[t]
        BY <3>1, <3>2, LenProperties, EmptySeq
      <4> QED BY <2>1, <2>3, <3>2, <4>1, TechLineAssumption DEF Elems
    <3> QED BY <2>1, <3>2, TechLineAssumption
  <2>5. ASSUME NEW r \in Elems(TechLine[t])
        PROVE  Requirement(r) = NoType \/ IsStructure(Requirement(r))
    <3>1. TechLine[t] \in Seq(UnitType)
      BY <2>1, TechLineAssumption
    <3>2. PICK i \in 1 .. Len(TechLine[t]) : r = TechLine[t][i]
      BY <3>1, LenProperties DEF Elems
    <3>3. CASE i = Len(TechLine[t])
      BY <2>1, <3>2, <3>3, TechLineAssumption
    <3>4. CASE i # Len(TechLine[t])
      <4>1. Requirement(r) = TechLine[t][i + 1]
        BY <2>1, <3>2, <3>4, TechLineAssumption
      <4>2. i + 1 \in DOMAIN TechLine[t]
        BY <3>1, <3>4, LenProperties
      <4> QED BY <2>3, <4>1, <4>2 DEF Elems
    <3> QED BY <3>3, <3>4
  <2> HIDE DEF t
  <2>6. /\ AheadIn(constructions', ComingTypes)
        /\ Elems(constructions') \subseteq Elems(constructions) \cup {t} \cup Elems(TechLine[t])
    BY <1>0, <2>1, <2>2, ScheduledLater
  <2> QED BY <1>0, <1>1, <2>4, <2>5, <2>6 DEF Sturdy
<1>3. CASE cursor \notin DOMAIN Opening
  BY <1>0, <1>1, <1>3, KeptQueue DEF ScheduleOpening
<1> QED BY <1>2, <1>3

LEMMA BuildHeadQueue ==
    ASSUME QueueInv, BuildHead, UNCHANGED <<units, travelling>>
    PROVE  Sturdy' /\ AheadIn(constructions', ComingTypes')
<1> DEFINE t == Head(constructions)
<1>0. /\ constructions \in Seq(UnitType) /\ constructions # <<>> /\ Sturdy /\ TypeInv
      /\ commands \in Seq(Command) /\ AheadIn(constructions, ComingTypes)
      /\ constructions' = Tail(constructions)
  BY DEF QueueInv, StepInv, SightInv, TypeInv, TypeOK, BuildHead
<1>1. t \in UnitType
  BY <1>0, HeadTailProperties
<1>2. PICK u \in Producers(t, NullTag) : commands' = Append(commands, [type |-> t, unit |-> u])
  BY DEF BuildHead, Issue
<1> HIDE DEF t
<1>3. u \in Tag \cup {NullTag}
  BY <1>0, <1>1, <1>2, ProducersType, TypeSplit DEF TypeInv
<1> DEFINE c == [type |-> t, unit |-> u]
<1>4. c \in Command /\ c.type = t
  BY <1>1, <1>3 DEF Command
<1> HIDE DEF c
<1>5. Elems(commands) \subseteq Elems(commands') /\ c \in Elems(commands')
  BY <1>0, <1>2, <1>4, ElemsAppend DEF c
<1>6. ComingTypes \subseteq ComingTypes'
  BY <1>5, ComingGrows
<1>7. t \in ComingTypes'
  <2>1. \E i \in DOMAIN commands' : commands'[i].type = t
    BY <1>4, <1>5 DEF Elems
  <2> QED BY <1>1, <2>1 DEF ComingTypes, Coming
<1>8. AheadIn(constructions', ComingTypes \cup {t})
  BY <1>0, AheadTail DEF t
<1>9. AheadIn(constructions', ComingTypes')
  BY <1>6, <1>7, <1>8, AheadMonotone
<1>10. Sturdy'
  BY <1>0, ElemsOfTail DEF Sturdy
<1> QED BY <1>9, <1>10

LEMMA BotQueue ==
    ASSUME StructuresRequired, UrgentRequireNothing, QueueInv, BotStep
    PROVE  Sturdy' /\ AheadIn(constructions', ComingTypes')
<1>0. /\ TypeInv /\ OrdersAssigned /\ Sturdy /\ AheadIn(constructions, ComingTypes)
      /\ constructions \in Seq(UnitType) /\ events.destroyed = {}
      /\ "SupplyDepot" \in UnitType /\ "BarracksReactor" \in UnitType
      /\ Requirement("SupplyDepot") = NoType /\ Requirement("BarracksReactor") = NoType
  BY UnitTypeDataAssumption
     DEF QueueInv, StepInv, SightInv, TypeInv, TypeOK, NothingDies, UrgentRequireNothing
<1>1. UNCHANGED <<units, travelling, commands>> => ComingTypes \subseteq ComingTypes'
  BY DEF ComingTypes, Coming
<1>2. CASE ScheduleOpening
  BY <1>2, OpeningQueue
<1>3. CASE \E u \in Tag : OnUnitDestroyed(u)
  BY <1>0, <1>3 DEF OnUnitDestroyed
<1>4. CASE \/ \E u \in Tag : OnUnitCreated(u)
           \/ OnReaperCreated \/ ApiOnStep \/ MinerOnStep \/ SendActions
  <2>1. UNCHANGED <<units, travelling, commands, constructions>>
    BY <1>4 DEF OnUnitCreated, OnReaperCreated, ApiOnStep, MinerOnStep, SendActions,
                gameVars, builderVars, queueVars
  <2> QED BY <1>0, <1>1, <2>1, KeptQueue
<1>5. ASSUME NEW u \in Tag, OnUnitIdle(u)
      PROVE  Sturdy' /\ AheadIn(constructions', ComingTypes')
  <2>1. UNCHANGED <<units, travelling, commands>>
    BY <1>5 DEF OnUnitIdle, gameVars
  <2>2. \/ UNCHANGED constructions
        \/ ScheduleConstruction("BarracksReactor", TRUE, Standing')
    BY <1>5 DEF OnUnitIdle, ReaperRushOnUnitIdle, queueVars
  <2> QED BY <1>0, <1>1, <2>1, <2>2, KeptQueue, UrgentQueue
<1>6. CASE QuarterMasterOnStep
  <2>1. UNCHANGED <<units, travelling, commands>>
    BY <1>6 DEF QuarterMasterOnStep, gameVars
  <2>2. \/ UNCHANGED constructions
        \/ ScheduleConstruction("SupplyDepot", TRUE, Standing)
    BY <1>6 DEF QuarterMasterOnStep, RequestSupplies
  <2> QED BY <1>0, <1>1, <2>1, <2>2, KeptQueue, UrgentQueue
<1>7. CASE BuilderOnStep
  <2>1. UNCHANGED <<units, travelling>>
    BY <1>7 DEF BuilderOnStep
  <2>2. CASE BuildHead
    BY <2>1, <2>2, BuildHeadQueue
  <2>3. CASE HeadWaits
    BY <1>0, <1>1, <2>1, <2>3, KeptQueue DEF HeadWaits, queueVars
  <2> QED BY <1>7, <2>2, <2>3 DEF BuilderOnStep
<1>8. CASE TrainNext
  <2>1. UNCHANGED <<units, travelling, constructions>> /\ BuildTraining
    BY <1>8 DEF TrainNext, BuildTraining
  <2>2. ComingTypes \subseteq ComingTypes'
    BY <1>0, <2>1, TrainNextOrders, ComingGrows
  <2> QED BY <1>0, <2>1, <2>2, KeptQueue
<1> QED BY <1>2, <1>3, <1>4, <1>5, <1>6, <1>7, <1>8 DEF BotStep

LEMMA GameQueue ==
    ASSUME Calm, QueueInv, GameStep
    PROVE  Sturdy' /\ AheadIn(constructions', ComingTypes')
<1>0. /\ GameTypeOK /\ GameOccupied /\ OrdersFit /\ Sturdy
      /\ AheadIn(constructions, ComingTypes)
  BY TypeSplit, OccupiedSplit DEF QueueInv, StepInv, SightInv, TypeInv
<1>1. CASE Observe
  <2>1. UNCHANGED <<units, travelling, commands, constructions>>
    BY <1>1 DEF Observe, builderVars, queueVars
  <2>2. ComingTypes' = ComingTypes
    BY <2>1 DEF ComingTypes, Coming
  <2> QED BY <1>0, <2>1, <2>2, KeptQueue
<1>2. CASE GameAction /\ UNCHANGED botVars
  <2>1. UNCHANGED constructions
    BY <1>2 DEF botVars, builderVars, queueVars
  <2>2. ASSUME NEW i \in DOMAIN constructions, Requirement(constructions[i]) \in ComingTypes
        PROVE  Requirement(constructions[i]) \in ComingTypes'
    <3>1. PICK r \in UnitType : r = Requirement(constructions[i]) /\ Coming(r)
      BY <2>2 DEF ComingTypes
    <3>2. constructions[i] \in Elems(constructions) /\ r # NoType
      BY <3>1, UnitTypeDataAssumption DEF Elems
    <3>3. IsStructure(r)
      BY <1>0, <3>1, <3>2 DEF Sturdy
    <3>4. Coming(r)'
      BY <1>0, <1>2, <3>1, <3>3, GameComing
    <3> QED BY <3>1, <3>4 DEF ComingTypes
  <2>3. AheadIn(constructions, ComingTypes')
    BY <1>0, <2>2, AheadMonotone
  <2> QED BY <1>0, <2>1, <2>3 DEF Sturdy
<1> QED BY <1>1, <1>2, GameStepIsAction

LEMMA QueueInvInit == Init => QueueInv
<1> SUFFICES ASSUME Init PROVE QueueInv
  OBVIOUS
<1>1. StepInv /\ OrdersFit
  BY SightInvInit, StepOrderInit, OrdersFitInit DEF StepInv
<1>2. constructions = <<>> /\ listed = Existing /\ events.destroyed = {}
  BY DEF Init, NoEvents
<1> QED BY <1>1, <1>2 DEF QueueInv, NothingDies, Sturdy, AheadIn, Elems

LEMMA QueueInvStep ==
    ASSUME Calm, StructuresRequired, UrgentRequireNothing, QueueInv, [Next]_vars
    PROVE  QueueInv'
<1>0. StepInv /\ OrdersFit /\ NothingDies /\ TypeInv /\ StepOrder
  BY DEF QueueInv, StepInv, SightInv
<1>1. StepInv' /\ OrdersFit' /\ NothingDies'
  BY <1>0, StepInvStep, OrdersFitStep, NothingDiesStep
<1>2. Sturdy' /\ AheadIn(constructions', ComingTypes')
  <2>1. CASE UNCHANGED vars
    <3>1. UNCHANGED <<units, travelling, commands, constructions>>
      BY <2>1 DEF vars, gameVars, builderVars, queueVars
    <3>2. ComingTypes' = ComingTypes
      BY <3>1 DEF ComingTypes, Coming
    <3> QED BY <3>1, <3>2, KeptQueue DEF QueueInv
  <2> QED BY <2>1, BotQueue, GameQueue DEF Next
<1> QED BY <1>1, <1>2 DEF QueueInv

(* The head of the construction queue, the only order Builder tries, can    *)
(* always go ahead one day: as long as nothing is destroyed or lost, what   *)
(* an order requires stands, is on its way, or is ahead of it, whatever the *)
(* opening and however SCVs, producers and the bank delay each other.       *)
THEOREM RequirementAlwaysAhead ==
    ASSUME Calm, StructuresRequired, UrgentRequireNothing
    PROVE  Spec => []RequirementAhead
<1>1. QueueInv /\ [Next]_vars => QueueInv'
  BY QueueInvStep
<1> QED BY <1>1, QueueInvInit, QueueInvAhead, PTL DEF Spec

(* Then no order waits for one behind it, either: the deadlock that         *)
(* ScheduleConstruction's recursion is to prevent needs a loss, or an       *)
(* urgent order that requires something.                                    *)
THEOREM DeadlockNeedsLoss ==
    ASSUME Calm, StructuresRequired, UrgentRequireNothing
    PROVE  Spec => []NoDeadlockInQueue
<1>1. TypeOK /\ RequirementAhead => NoDeadlockInQueue
  <2> SUFFICES ASSUME TypeOK, RequirementAhead, NEW i \in DOMAIN constructions,
                      NEW k \in i + 1 .. Len(constructions),
                      constructions[k] = Requirement(constructions[i])
               PROVE  \/ Coming(Requirement(constructions[i]))
                      \/ \E j \in 1 .. i - 1 : constructions[j] = Requirement(constructions[i])
    BY DEF NoDeadlockInQueue
  <2>1. constructions \in Seq(UnitType)
    BY DEF TypeOK
  <2>2. Len(constructions) \in Nat /\ i \in 1 .. Len(constructions)
    BY <2>1, LenProperties
  <2>3. k \in 1 .. Len(constructions)
    BY <2>2
  <2>4. constructions[k] \in UnitType
    BY <2>1, <2>3, ElementOfSeq
  <2>5. Requirement(constructions[i]) # NoType
    BY <2>4, UnitTypeDataAssumption
  <2> QED BY <2>5 DEF RequirementAhead
<1> QED BY <1>1, TypeCorrect, RequirementAlwaysAhead, PTL
=============================================================================
