--------------------------- MODULE BarracksProofs ---------------------------
(***************************************************************************)
(* The order of a step, and what follows from it: no finished barracks     *)
(* that makes nothing is ever forgotten, for every value of the constants  *)
(* and whatever goes wrong.                                                *)
(***************************************************************************)
EXTENDS SupplyProofs

(***************************************************************************)
(* Sequences.                                                              *)
(***************************************************************************)
LEMMA ElemsType ==
    ASSUME NEW S, NEW s \in Seq(S)
    PROVE  Elems(s) \subseteq S
BY ElementOfSeq, LenProperties DEF Elems

LEMMA ElemsOfConcat ==
    ASSUME NEW S, NEW s \in Seq(S), NEW t \in Seq(S)
    PROVE  Elems(s \o t) \subseteq Elems(s) \cup Elems(t)
<1>1. /\ Len(s \o t) = Len(s) + Len(t) /\ s \o t \in Seq(S)
      /\ \A i \in 1 .. Len(s) + Len(t) :
            (s \o t)[i] = IF i <= Len(s) THEN s[i] ELSE t[i - Len(s)]
  BY ConcatProperties
<1>2. /\ DOMAIN s = 1 .. Len(s) /\ DOMAIN t = 1 .. Len(t)
      /\ DOMAIN (s \o t) = 1 .. Len(s) + Len(t)
      /\ Len(s) \in Nat /\ Len(t) \in Nat
  BY <1>1, LenProperties
<1>3. ASSUME NEW i \in 1 .. Len(s) + Len(t)
      PROVE  (s \o t)[i] \in Elems(s) \cup Elems(t)
  <2>1. CASE i <= Len(s)
    <3>1. i \in DOMAIN s /\ (s \o t)[i] = s[i]
      BY <1>1, <1>2, <2>1
    <3> QED BY <3>1 DEF Elems
  <2>2. CASE ~(i <= Len(s))
    <3>1. i - Len(s) \in DOMAIN t /\ (s \o t)[i] = t[i - Len(s)]
      BY <1>1, <1>2, <2>2
    <3> QED BY <3>1 DEF Elems
  <2> QED BY <2>1, <2>2
<1>4. \A x \in Elems(s \o t) : \E i \in 1 .. Len(s) + Len(t) : x = (s \o t)[i]
  BY <1>2 DEF Elems
<1> QED BY <1>3, <1>4

LEMMA ElemsOfAppend ==
    ASSUME NEW S, NEW s \in Seq(S), NEW x \in S
    PROVE  Elems(Append(s, x)) \subseteq Elems(s) \cup {x}
<1>1. /\ Len(Append(s, x)) = Len(s) + 1 /\ Append(s, x) \in Seq(S)
      /\ \A i \in 1 .. Len(s) : Append(s, x)[i] = s[i]
      /\ Append(s, x)[Len(s) + 1] = x
  BY AppendProperties
<1>2. DOMAIN s = 1 .. Len(s) /\ DOMAIN Append(s, x) = 1 .. Len(s) + 1 /\ Len(s) \in Nat
  BY <1>1, LenProperties
<1>3. ASSUME NEW i \in DOMAIN Append(s, x) PROVE Append(s, x)[i] \in Elems(s) \cup {x}
  <2>1. i \in 1 .. Len(s) \/ i = Len(s) + 1
    BY <1>2
  <2> QED BY <1>1, <1>2, <2>1 DEF Elems
<1> QED BY <1>3 DEF Elems

LEMMA ElemsOfTail ==
    ASSUME NEW S, NEW s \in Seq(S), s # <<>>
    PROVE  Elems(Tail(s)) \subseteq Elems(s) /\ Head(s) \in Elems(s)
<1>1. /\ Tail(s) \in Seq(S) /\ Len(Tail(s)) = Len(s) - 1 /\ Head(s) = s[1]
      /\ \A j \in 1 .. Len(Tail(s)) : Tail(s)[j] = s[j + 1]
  BY HeadTailProperties
<1>2. DOMAIN s = 1 .. Len(s) /\ DOMAIN Tail(s) = 1 .. Len(s) - 1 /\ Len(s) \in Nat /\ Len(s) > 0
  BY <1>1, LenProperties, EmptySeq
<1>3. ASSUME NEW j \in DOMAIN Tail(s) PROVE Tail(s)[j] \in Elems(s)
  <2>1. j + 1 \in DOMAIN s /\ Tail(s)[j] = s[j + 1]
    BY <1>1, <1>2
  <2> QED BY <2>1 DEF Elems
<1>4. 1 \in DOMAIN s
  BY <1>2
<1> QED BY <1>1, <1>3, <1>4 DEF Elems

(* What is left when the element at i is taken out. *)
LEMMA RemoveAtProperties ==
    ASSUME NEW S, NEW s \in Seq(S), NEW i \in DOMAIN s
    PROVE  /\ RemoveAt(s, i) \in Seq(S)
           /\ Len(RemoveAt(s, i)) = Len(s) - 1
           /\ \A j \in 1 .. Len(s) - 1 :
                 RemoveAt(s, i)[j] = IF j < i THEN s[j] ELSE s[j + 1]
<1> DEFINE a == SubSeq(s, 1, i - 1)
           b == SubSeq(s, i + 1, Len(s))
<1>1. Len(s) \in Nat /\ i \in 1 .. Len(s) /\ \A j \in 1 .. Len(s) : s[j] \in S
  BY LenProperties, ElementOfSeq
<1>2. a \in Seq(S) /\ Len(a) = i - 1 /\ \A j \in 1 .. i - 1 : a[j] = s[j]
  <2>1. 1 \in 1 .. Len(s) + 1 /\ i - 1 \in 1 - 1 .. Len(s)
    BY <1>1
  <2>2. a \in Seq(S) /\ Len(a) = (IF 1 <= i - 1 THEN i - 1 - 1 + 1 ELSE 0)
        /\ \A j \in 1 .. i - 1 - 1 + 1 : a[j] = s[1 + j - 1]
    BY <1>1, <2>1, SubSeqProperties
  <2>3. Len(a) = i - 1
    BY <1>1, <2>2
  <2>4. \A j \in 1 .. i - 1 : 1 + j - 1 = j /\ j \in 1 .. i - 1 - 1 + 1
    BY <1>1
  <2> QED BY <2>2, <2>3, <2>4
<1>3. b \in Seq(S) /\ Len(b) = Len(s) - i /\ \A j \in 1 .. Len(s) - i : b[j] = s[i + j]
  <2>1. i + 1 \in 1 .. Len(s) + 1 /\ Len(s) \in (i + 1) - 1 .. Len(s)
    BY <1>1
  <2>2. b \in Seq(S) /\ Len(b) = (IF i + 1 <= Len(s) THEN Len(s) - (i + 1) + 1 ELSE 0)
        /\ \A j \in 1 .. Len(s) - (i + 1) + 1 : b[j] = s[(i + 1) + j - 1]
    BY <1>1, <2>1, SubSeqProperties
  <2>3. Len(b) = Len(s) - i
    BY <1>1, <2>2
  <2>4. \A j \in 1 .. Len(s) - i : (i + 1) + j - 1 = i + j /\ j \in 1 .. Len(s) - (i + 1) + 1
    BY <1>1
  <2> QED BY <2>2, <2>3, <2>4
<1>4. RemoveAt(s, i) = a \o b
  BY DEF RemoveAt
<1> HIDE DEF a, b
<1>5. /\ a \o b \in Seq(S) /\ Len(a \o b) = Len(s) - 1
      /\ \A j \in 1 .. Len(a) + Len(b) :
            (a \o b)[j] = IF j <= Len(a) THEN a[j] ELSE b[j - Len(a)]
  <2>1. /\ a \o b \in Seq(S) /\ Len(a \o b) = Len(a) + Len(b)
        /\ \A j \in 1 .. Len(a) + Len(b) :
              (a \o b)[j] = IF j <= Len(a) THEN a[j] ELSE b[j - Len(a)]
    BY <1>2, <1>3, ConcatProperties
  <2>2. Len(a) + Len(b) = Len(s) - 1
    BY <1>1, <1>2, <1>3
  <2> QED BY <2>1, <2>2
<1>6. ASSUME NEW j \in 1 .. Len(s) - 1
      PROVE  (a \o b)[j] = IF j < i THEN s[j] ELSE s[j + 1]
  <2>1. j \in 1 .. Len(a) + Len(b)
    BY <1>1, <1>2, <1>3
  <2>2. CASE j < i
    <3>1. j <= Len(a) /\ j \in 1 .. i - 1
      BY <1>1, <1>2, <2>2
    <3> QED BY <1>2, <1>5, <2>1, <2>2, <3>1
  <2>3. CASE ~(j < i)
    <3>1. ~(j <= Len(a)) /\ j - Len(a) \in 1 .. Len(s) - i /\ i + (j - Len(a)) = j + 1
      BY <1>1, <1>2, <2>3
    <3> QED BY <1>3, <1>5, <2>1, <2>3, <3>1
  <2> QED BY <2>2, <2>3
<1> QED BY <1>4, <1>5, <1>6

LEMMA ElemsOfRemoveAt ==
    ASSUME NEW S, NEW s \in Seq(S), NEW i \in DOMAIN s
    PROVE  /\ Elems(RemoveAt(s, i)) \subseteq Elems(s)
           /\ Elems(s) \subseteq Elems(RemoveAt(s, i)) \cup {s[i]}
<1> DEFINE r == RemoveAt(s, i)
<1>1. Len(s) \in Nat /\ i \in 1 .. Len(s) /\ DOMAIN s = 1 .. Len(s)
  BY LenProperties
<1>2. /\ DOMAIN r = 1 .. Len(s) - 1
      /\ \A j \in 1 .. Len(s) - 1 : r[j] = IF j < i THEN s[j] ELSE s[j + 1]
  BY RemoveAtProperties, LenProperties
<1> HIDE DEF r
<1>3. ASSUME NEW j \in DOMAIN r PROVE r[j] \in Elems(s)
  <2>1. j \in 1 .. Len(s) /\ j + 1 \in 1 .. Len(s)
    BY <1>1, <1>2
  <2> QED BY <1>1, <1>2, <2>1 DEF Elems
<1>4. ASSUME NEW j \in DOMAIN s, j # i PROVE s[j] \in Elems(r)
  <2>1. CASE j < i
    <3>1. j \in DOMAIN r /\ r[j] = s[j]
      BY <1>1, <1>2, <2>1
    <3> QED BY <3>1 DEF Elems
  <2>2. CASE ~(j < i)
    <3>1. j - 1 \in 1 .. Len(s) - 1 /\ ~(j - 1 < i) /\ (j - 1) + 1 = j
      BY <1>1, <1>4, <2>2
    <3>2. r[j - 1] = s[j]
      BY <1>2, <3>1
    <3> QED BY <1>2, <3>1, <3>2 DEF Elems
  <2> QED BY <2>1, <2>2
<1> QED BY <1>3, <1>4 DEF Elems, r

(***************************************************************************)
(* The order of a step.  Events are issued in their phase only, commands   *)
(* are given in "train" (its head in "construct") and obeyed in "game",    *)
(* and in between the bot works on copies that are true.  All training     *)
(* orders are ReaperRush's and Miner's, who assign them to a producer.     *)
(***************************************************************************)
Fresh == listed = Existing /\ \A u \in Existing : view[u] = units[u]

StepOrder ==
    /\ phase # "events" => events = NoEvents
    /\ events.idle \subseteq Existing
    /\ phase \notin {"game", "events"} => Fresh
    /\ phase \notin {"game", "train"} => commands = <<>>

OrdersAssigned ==
    \A o \in Elems(trainings) : o.type \in {"SCV", "Reaper"} /\ o.assignee # NullTag

StepInv == SightInv /\ StepOrder /\ OrdersAssigned

LEMMA UnitPlot ==
    /\ Plot("SCV") = "Unit" /\ Plot("Reaper") = "Unit"
    /\ ~IsStructure("SCV") /\ ~IsStructure("Reaper")
BY DEF Plot, IsStructure, Addons, BarracksUnits, Workers, Mutations

(* Such an order is for its assignee, or for nobody yet. *)
LEMMA AssigneeProduces ==
    ASSUME NEW o, o.type \in {"SCV", "Reaper"}, o.assignee # NullTag
    PROVE  Producers(o.type, o.assignee) \subseteq {o.assignee}
<1>1. Plot(o.type) = "Unit" /\ ~IsStructure(o.type)
  BY UnitPlot
<1> QED BY <1>1 DEF Producers

(* What an idle event and what Miner add to the training orders. *)
LEMMA IdleOrders ==
    ASSUME TypeOK, NEW u \in Tag, ReaperRushOnUnitIdle(u)
    PROVE  \/ UNCHANGED trainings
           \/ /\ trainings' \in Seq(TrainingOrder)
              /\ Elems(trainings) \subseteq Elems(trainings')
              /\ [type |-> "Reaper", assignee |-> u] \in Elems(trainings')
              /\ Elems(trainings') \subseteq
                    Elems(trainings) \cup {[type |-> "Reaper", assignee |-> u]}
<1> DEFINE reaper == [type |-> "Reaper", assignee |-> u]
<1>1. reaper \in TrainingOrder /\ trainings \in Seq(TrainingOrder)
  BY UnitTypeDataAssumption DEF TypeOK, TrainingOrder
<1>2. \/ UNCHANGED trainings
      \/ trainings' = trainings \o <<reaper>>
      \/ trainings' = trainings \o <<reaper, reaper>>
  BY DEF ReaperRushOnUnitIdle, queueVars
<1> HIDE DEF reaper
<1>3. <<reaper>> \in Seq(TrainingOrder) /\ <<reaper, reaper>> \in Seq(TrainingOrder)
  BY <1>1
<1>4. Elems(<<reaper>>) = {reaper} /\ Elems(<<reaper, reaper>>) = {reaper}
  BY DEF Elems
<1>5. ASSUME NEW added \in {<<reaper>>, <<reaper, reaper>>},
             trainings' = trainings \o added
      PROVE  /\ trainings' \in Seq(TrainingOrder)
             /\ Elems(trainings) \subseteq Elems(trainings')
             /\ reaper \in Elems(trainings')
             /\ Elems(trainings') \subseteq Elems(trainings) \cup {reaper}
  <2>1. added \in Seq(TrainingOrder) /\ Elems(added) = {reaper}
    BY <1>3, <1>4
  <2>2. trainings' \in Seq(TrainingOrder)
    BY <1>1, <1>5, <2>1, ConcatProperties
  <2>3. Elems(trainings) \subseteq Elems(trainings') /\ Elems(added) \subseteq Elems(trainings')
    BY <1>1, <1>5, <2>1, ElemsConcat
  <2>4. Elems(trainings') \subseteq Elems(trainings) \cup Elems(added)
    BY <1>1, <1>5, <2>1, ElemsOfConcat
  <2> QED BY <2>1, <2>2, <2>3, <2>4
<1> QED BY <1>2, <1>5 DEF reaper

LEMMA MinerOrders ==
    ASSUME TypeOK, SecureMineralsIncome
    PROVE  /\ Elems(trainings) \subseteq Elems(trainings')
           /\ \A o \in Elems(trainings') :
                 o \in Elems(trainings) \/ (o.type = "SCV" /\ o.assignee \in Tag)
<1>1. PICK visited \in SUBSET TownHalls :
         \E halls \in SetToSeqs({u \in visited : NeedsWorkerOrder(u)}) :
            trainings' = trainings \o
               [i \in DOMAIN halls |-> [type |-> "SCV", assignee |-> halls[i]]]
  BY DEF SecureMineralsIncome
<1> DEFINE idle == {u \in visited : NeedsWorkerOrder(u)}
<1>2. PICK halls \in SetToSeqs(idle) :
         trainings' = trainings \o
            [i \in DOMAIN halls |-> [type |-> "SCV", assignee |-> halls[i]]]
  BY <1>1
<1>3. idle \subseteq Tag
  BY DEF TownHalls, TypeOK
<1> HIDE DEF idle
<1>4. Cardinality(idle) \in Nat
  BY <1>3, GameAssumption, FS_Subset, FS_CardinalityType
<1>5. halls \in [1 .. Cardinality(idle) -> idle]
  BY <1>2 DEF SetToSeqs
<1> DEFINE orders == [i \in DOMAIN halls |-> [type |-> "SCV", assignee |-> halls[i]]]
<1>6. orders \in [1 .. Cardinality(idle) -> TrainingOrder]
  BY <1>3, <1>5, UnitTypeDataAssumption DEF TrainingOrder
<1>7. orders \in Seq(TrainingOrder) /\ trainings \in Seq(TrainingOrder)
  <2>1. trainings \in Seq(TrainingOrder)
    BY DEF TypeOK
  <2> HIDE DEF orders
  <2>2. orders \in Seq(TrainingOrder)
    BY <1>4, <1>6, IsASeq
  <2> QED BY <2>1, <2>2
<1>8. \A o \in Elems(orders) : o.type = "SCV" /\ o.assignee \in Tag
  BY <1>3, <1>5 DEF Elems
<1>9. trainings' = trainings \o orders
  BY <1>2
<1> HIDE DEF orders
<1>10. Elems(trainings) \subseteq Elems(trainings')
  BY <1>7, <1>9, ElemsConcat
<1>11. Elems(trainings') \subseteq Elems(trainings) \cup Elems(orders)
  BY <1>7, <1>9, ElemsOfConcat
<1> QED BY <1>8, <1>10, <1>11

(* Builder carries out an order, and its assignee is commanded, or goes on. *)
LEMMA TrainNextOrders ==
    ASSUME TypeInv, OrdersAssigned, BuildTraining
    PROVE  /\ Elems(trainings') \subseteq Elems(trainings)
           /\ Elems(commands) \subseteq Elems(commands')
           /\ \A o \in Elems(trainings) :
                 \/ o \in Elems(trainings')
                 \/ [type |-> o.type, unit |-> o.assignee] \in Elems(commands')
           /\ \A c \in Elems(commands') :
                 \/ c \in Elems(commands)
                 \/ c.type \in {"SCV", "Reaper"} /\ c.unit # NullTag
<1> DEFINE o == trainings[cursor]
<1>1. /\ trainings \in Seq(TrainingOrder) /\ commands \in Seq(Command)
      /\ cursor \in DOMAIN trainings
  BY DEF TypeInv, TypeOK, BuildTraining
<1>2. o \in Elems(trainings) /\ o \in TrainingOrder
  BY <1>1, ElementOfSeq, LenProperties DEF Elems
<1>3. /\ o.type \in UnitType /\ o.assignee \in Tag \cup {NullTag}
      /\ o.type \in {"SCV", "Reaper"} /\ o.assignee # NullTag
  BY <1>2 DEF TrainingOrder, OrdersAssigned
<1>4. \/ /\ \E u \in Producers(o.type, o.assignee) : Issue(o.type, u)
         /\ trainings' = RemoveAt(trainings, cursor)
      \/ UNCHANGED <<trainings, commands>>
  BY DEF BuildTraining
<1>5. CASE UNCHANGED <<trainings, commands>>
  BY <1>5 DEF Elems
<1>6. CASE /\ \E u \in Producers(o.type, o.assignee) : Issue(o.type, u)
           /\ trainings' = RemoveAt(trainings, cursor)
  <2> DEFINE c == [type |-> o.type, unit |-> o.assignee]
  <2>1. commands' = Append(commands, c)
    <3>1. PICK u \in Producers(o.type, o.assignee) : Issue(o.type, u)
      BY <1>6
    <3>2. u = o.assignee
      BY <1>3, <3>1, AssigneeProduces
    <3> QED BY <3>1, <3>2 DEF Issue
  <2>2. c \in Command
    BY <1>3 DEF Command
  <2>3. c.type \in {"SCV", "Reaper"} /\ c.unit # NullTag
    BY <1>3
  <2> HIDE DEF c
  <2>4. /\ Elems(commands) \subseteq Elems(commands') /\ c \in Elems(commands')
        /\ Elems(commands') \subseteq Elems(commands) \cup {c}
    BY <1>1, <2>1, <2>2, ElemsAppend, ElemsOfAppend
  <2>5. /\ Elems(trainings') \subseteq Elems(trainings)
        /\ Elems(trainings) \subseteq Elems(trainings') \cup {o}
    BY <1>1, <1>6, ElemsOfRemoveAt
  <2> QED BY <2>3, <2>4, <2>5 DEF c
<1> QED BY <1>4, <1>5, <1>6

LEMMA StepOrderInit == Init => StepOrder /\ OrdersAssigned
<1> SUFFICES ASSUME Init PROVE StepOrder /\ OrdersAssigned
  OBVIOUS
<1>1. /\ events = NoEvents /\ commands = <<>> /\ trainings = <<>>
      /\ view = units /\ listed = Existing
  BY DEF Init
<1>2. events.idle = {}
  BY <1>1 DEF NoEvents
<1> QED BY <1>1, <1>2 DEF StepOrder, Fresh, OrdersAssigned, Elems

LEMMA StepOrderGame ==
    ASSUME StepOrder, GameStep
    PROVE  StepOrder'
<1>0. phase = "game" /\ events = NoEvents
  BY GameStepInGame DEF StepOrder
<1>1. CASE Observe
  <2>1. /\ UNCHANGED <<units, commands>> /\ commands = <<>> /\ phase' = "events"
        /\ events' = NewEvents
    BY <1>1 DEF Observe
  <2>2. events'.idle \subseteq Existing'
    BY <2>1 DEF NewEvents, Existing
  <2> QED BY <2>1, <2>2 DEF StepOrder
<1>2. CASE UNCHANGED botVars
  <2>1. phase' = "game" /\ events' = NoEvents
    BY <1>0, <1>2 DEF botVars, obsVars
  <2>2. events'.idle = {}
    BY <2>1 DEF NoEvents
  <2> QED BY <2>1, <2>2 DEF StepOrder
<1> QED BY <1>1, <1>2, GameStepIsAction

LEMMA StepOrderBot ==
    ASSUME TypeInv, StepOrder, BotStep
    PROVE  StepOrder'
<1>0. units \in [Tag -> Structure] /\ view \in [Tag -> Structure]
  BY DEF TypeInv, TypeOK
<1>1. CASE ScheduleOpening \/ MinerOnStep \/ QuarterMasterOnStep \/ SendActions
  <2>1. UNCHANGED <<units, view, listed, events, commands>>
    BY <1>1 DEF ScheduleOpening, MinerOnStep, QuarterMasterOnStep, SendActions,
                gameVars, obsVars
  <2>2. /\ phase' # "events"
        /\ phase' \in {"game", "events"} \/ phase \notin {"game", "events"}
        /\ phase' \in {"game", "train"} \/ phase \notin {"game", "train"}
        /\ phase # "events"
    BY <1>1 DEF ScheduleOpening, MinerOnStep, QuarterMasterOnStep, SendActions
  <2> QED BY <2>1, <2>2 DEF StepOrder, Fresh, Existing
<1>2. CASE BuilderOnStep \/ TrainNext
  <2>1. /\ UNCHANGED <<units, view, listed, events>> /\ phase' = "train"
        /\ phase \in {"construct", "train"}
    BY <1>2 DEF BuilderOnStep, TrainNext, obsVars
  <2> QED BY <2>1 DEF StepOrder, Fresh, Existing
<1>3. CASE \/ \E u \in Tag : OnUnitDestroyed(u) \/ OnUnitCreated(u) \/ OnUnitIdle(u)
           \/ OnReaperCreated
  <2>1. /\ UNCHANGED <<units, commands>> /\ phase = "events" /\ phase' = "events"
        /\ \/ events'.idle = events.idle
           \/ events'.idle \subseteq events.idle
    BY <1>3 DEF OnUnitDestroyed, OnUnitCreated, OnUnitIdle, OnReaperCreated, gameVars,
               TypeInv, TypeOK, EventRecord
  <2> QED BY <2>1 DEF StepOrder, Existing
<1>4. CASE ApiOnStep
  <2>1. /\ UNCHANGED <<units, events, commands>> /\ phase' = "miner" /\ phase = "events"
        /\ events = NoEvents
    BY <1>4 DEF ApiOnStep, gameVars
  <2>2. Fresh'
    BY <1>0, <1>4, <2>1 DEF ApiOnStep, RefreshAll, Fresh, Existing
  <2> QED BY <2>1, <2>2 DEF StepOrder, Existing
<1> QED BY <1>1, <1>2, <1>3, <1>4 DEF BotStep

LEMMA OrdersAssignedStep ==
    ASSUME TypeInv, OrdersAssigned, [Next]_vars
    PROVE  OrdersAssigned'
<1>1. CASE UNCHANGED trainings
  BY <1>1 DEF OrdersAssigned, Elems
<1>2. ASSUME NEW u \in Tag, OnUnitIdle(u) PROVE OrdersAssigned'
  <2>1. ReaperRushOnUnitIdle(u) /\ u # NullTag
    BY <1>2, GameAssumption DEF OnUnitIdle
  <2>2. Elems(trainings') \subseteq Elems(trainings) \cup {[type |-> "Reaper", assignee |-> u]}
        \/ UNCHANGED trainings
    BY <2>1, IdleOrders DEF TypeInv
  <2> QED BY <1>1, <2>1, <2>2 DEF OrdersAssigned
<1>3. CASE MinerOnStep
  <2>1. \A o \in Elems(trainings') :
           o \in Elems(trainings) \/ (o.type = "SCV" /\ o.assignee \in Tag)
    BY <1>3, MinerOrders DEF MinerOnStep, TypeInv
  <2> QED BY <2>1, GameAssumption DEF OrdersAssigned
<1>4. CASE TrainNext
  <2>1. Elems(trainings') \subseteq Elems(trainings)
    BY <1>4, TrainNextOrders DEF TrainNext
  <2> QED BY <2>1 DEF OrdersAssigned
<1>5. \/ UNCHANGED trainings
      \/ \E u \in Tag : OnUnitIdle(u)
      \/ MinerOnStep \/ TrainNext
  <2>1. CASE UNCHANGED vars
    BY <2>1 DEF vars, builderVars, queueVars
  <2>2. CASE GameStep
    BY <2>2, GameStepIsAction DEF Observe, botVars, builderVars, queueVars
  <2>3. CASE BotStep
    BY <2>3 DEF BotStep, ScheduleOpening, OnUnitDestroyed, OnUnitCreated,
                OnReaperCreated, ApiOnStep, QuarterMasterOnStep, BuilderOnStep,
                SendActions, builderVars, queueVars
  <2> QED BY <2>1, <2>2, <2>3 DEF Next
<1> QED BY <1>1, <1>2, <1>3, <1>4, <1>5

LEMMA StepInvStep ==
    ASSUME StepInv, [Next]_vars
    PROVE  StepInv'
<1>0. SightInv /\ StepOrder /\ OrdersAssigned /\ TypeInv
  BY DEF StepInv, SightInv
<1>1. SightInv' /\ OrdersAssigned'
  BY <1>0, SightInvStep, OrdersAssignedStep
<1>2. StepOrder'
  <2>1. CASE UNCHANGED vars
    <3>1. UNCHANGED <<units, view, listed, events, commands, phase>>
      BY <2>1 DEF vars, gameVars, obsVars
    <3> QED BY <1>0, <3>1 DEF StepOrder, Fresh, Existing
  <2> QED BY <1>0, <2>1, StepOrderGame, StepOrderBot DEF Next
<1> QED BY <1>1, <1>2 DEF StepInv

(* Between the events and the commands the bot's copies of all structures   *)
(* are true, the commands are those of this step, and every training order  *)
(* has an assignee: whatever goes wrong.                                    *)
THEOREM StepInvariance == Spec => []StepInv
<1>1. Init => StepInv
  BY SightInvInit, StepOrderInit DEF StepInv
<1>2. StepInv /\ [Next]_vars => StepInv'
  BY StepInvStep
<1> QED BY <1>1, <1>2, PTL DEF Spec

(***************************************************************************)
(* The inductive invariant of the barracks.  While the game moves, whoever *)
(* is addressed by a command is in the list of those commanded, and        *)
(* whoever makes something or is not finished is known to the client as    *)
(* busy, unfinished, new or commanded: when it turns idle, the client      *)
(* reports it.                                                             *)
(***************************************************************************)
Changed(u) == \/ u \notin listed \/ view[u].orders # <<>> \/ ~view[u].built
              \/ u \in commanded

NothingUnseen ==
    phase = "game" =>
       /\ \A c \in Elems(commands) : c.unit \in commanded \cup {NullTag}
       /\ \A u \in Existing : units[u].orders # <<>> \/ ~units[u].built => Changed(u)

BarracksInv == StepInv /\ NothingUnseen /\ NoForgottenBarracks

(* What the game does to a structure that stands after it. *)
Stir(v) ==
    units'[v].alive =>
       \/ \E t \in UnitType : Laid(v, t)
       \/ /\ units[v].alive
          /\ units'[v].type = "Barracks" => units[v].type = "Barracks"
          /\ units[v].built => units'[v].built
          /\ \/ units'[v].orders # <<>> => units[v].orders # <<>>
             \/ commands # <<>> /\ v = Head(commands).unit

LEMMA ObeyStirs ==
    ASSUME GameTypeOK, Obey, NEW v \in Tag
    PROVE  Stir(v)
<1> DEFINE c == Head(commands)
           queued == [units EXCEPT ![c.unit].orders = Append(@, c.type)]
<1>1. /\ queued \in [Tag -> [type : UnitType \cup {NoType}, alive : BOOLEAN, built : BOOLEAN,
                             orders : {queued[w].orders : w \in Tag}, addon : Tag \cup {NullTag}]]
      /\ queued[v].type = units[v].type /\ queued[v].alive = units[v].alive
      /\ queued[v].built = units[v].built /\ (v # c.unit => queued[v].orders = units[v].orders)
      /\ commands # <<>> /\ c.type \in UnitType
  BY CommandType DEF GameTypeOK, Structure, Obey
<1>2. CASE Plot(c.type) # "Addon"
  <2>1. units' = queued
    BY <1>2 DEF Obey
  <2> QED BY <1>1, <2>1 DEF Stir
<1>3. CASE Plot(c.type) = "Addon"
  <2>1. NextTag \in Tag /\ units[NextTag].type = NoType
    BY <1>3, NextTagVacant DEF Obey
  <2>2. units' = [queued EXCEPT ![c.unit].addon = NextTag, ![NextTag] = Site(c.type)]
    BY <1>3 DEF Obey
  <2> HIDE DEF queued
  <2>3. CASE v = NextTag
    <3>1. units'[v] = Site(c.type)
      BY <1>1, <2>1, <2>2, <2>3
    <3> QED BY <1>1, <2>1, <2>3, <3>1 DEF Laid, Stir
  <2>4. CASE v # NextTag
    <3>1. /\ units'[v].type = queued[v].type /\ units'[v].alive = queued[v].alive
          /\ units'[v].built = queued[v].built /\ units'[v].orders = queued[v].orders
      BY <1>1, <2>1, <2>2, <2>4
    <3> QED BY <1>1, <3>1 DEF Stir
  <2> QED BY <2>3, <2>4
<1> QED BY <1>2, <1>3

LEMMA FinishStirs ==
    ASSUME GameTypeOK, NEW u \in Tag, NEW i \in 1 .. 2, Finish(u, i), NEW v \in Tag
    PROVE  Stir(v)
<1> DEFINE t == units[u].orders[i]
           rest == SubSeq(units[u].orders, 1, i - 1)
                   \o SubSeq(units[u].orders, i + 1, Len(units[u].orders))
<1>1. /\ units' = [units EXCEPT ![u].orders = rest,
                                ![u].type = IF Plot(t) = "Mutation" THEN t ELSE @]
      /\ units[u].orders # <<>>
  BY DEF Finish
<1>2. Plot(t) = "Mutation" => t # "Barracks"
  BY DEF Plot, Addons, BarracksUnits, Workers, Mutations
<1> HIDE DEF t, rest
<1>3. CASE v = u
  <2>1. /\ units'[v].alive = units[v].alive /\ units'[v].built = units[v].built
        /\ units'[v].type = IF Plot(t) = "Mutation" THEN t ELSE units[v].type
    BY <1>1, <1>3 DEF GameTypeOK, Structure
  <2> QED BY <1>1, <1>2, <1>3, <2>1 DEF Stir
<1>4. CASE v # u
  <2>1. units'[v] = units[v]
    BY <1>1, <1>4 DEF GameTypeOK
  <2> QED BY <2>1 DEF Stir
<1> QED BY <1>3, <1>4

LEMMA GameStirs ==
    ASSUME GameTypeOK, GameAction, NEW v \in Tag
    PROVE  Stir(v)
<1>0. UNCHANGED units => Stir(v)
  BY DEF Stir
<1>1. CASE SetOut \/ Refuse \/ Income
  BY <1>0, <1>1 DEF SetOut, Refuse, Income
<1>2. CASE Obey
  BY <1>2, ObeyStirs
<1>3. ASSUME NEW t \in UnitType, Lay(t) PROVE Stir(v)
  <2>1. NextTag \in Tag /\ units[NextTag].type = NoType
    BY <1>3, NextTagVacant DEF Lay
  <2>2. units' = [units EXCEPT ![NextTag] = Site(t)]
    BY <1>3 DEF Lay
  <2>3. Laid(v, t) \/ units'[v] = units[v]
    BY <2>1, <2>2 DEF GameTypeOK, Laid
  <2> QED BY <2>3 DEF Stir
<1>4. ASSUME NEW t \in UnitType, FailToLay(t) PROVE Stir(v)
  BY <1>0, <1>4 DEF FailToLay
<1>5. ASSUME NEW u \in Tag, Complete(u) PROVE Stir(v)
  <2>1. units'[v] = IF v = u THEN [units[v] EXCEPT !.built = TRUE]
                    ELSE IF units[v].addon = u THEN [units[v] EXCEPT !.orders = <<>>]
                    ELSE units[v]
    BY <1>5 DEF Complete
  <2> QED BY <2>1 DEF GameTypeOK, Structure, Stir
<1>6. ASSUME NEW u \in Tag, NEW kind, Raze(u, kind) PROVE Stir(v)
  <2>1. \/ units'[v] = [[units[v] EXCEPT !.alive = FALSE] EXCEPT !.orders = <<>>]
        \/ units'[v] = units[v]
        \/ units'[v] = [[units[v] EXCEPT !.addon = NullTag] EXCEPT !.orders = @]
        \/ units'[v] = [[units[v] EXCEPT !.addon = NullTag] EXCEPT !.orders = <<>>]
    BY <1>6 DEF Raze
  <2>2. /\ units'[v].type = units[v].type /\ units'[v].built = units[v].built
        /\ units'[v].alive => units[v].alive
        /\ units'[v].orders \in {units[v].orders, <<>>}
    BY <2>1 DEF GameTypeOK, Structure
  <2> QED BY <2>2 DEF Stir
<1>7. ASSUME NEW u \in Tag, NEW i \in 1 .. 2, Finish(u, i) PROVE Stir(v)
  BY <1>7, FinishStirs
<1> QED BY <1>1, <1>2, <1>3, <1>4, <1>5, <1>6, <1>7 DEF GameAction

(* The game takes the first command from the list, or leaves the list alone. *)
LEMMA GameCommands ==
    ASSUME GameTypeOK, GameAction
    PROVE  Elems(commands') \subseteq Elems(commands)
<1>1. \/ commands # <<>> /\ commands' = Tail(commands)
      \/ UNCHANGED commands
  BY DEF GameAction, SetOut, Obey, Refuse, Income, Lay, FailToLay, Complete, Raze, Finish
<1> QED BY <1>1, ElemsOfTail DEF GameTypeOK, Elems

LEMMA GameNothingUnseen ==
    ASSUME StepInv, NothingUnseen, GameStep
    PROVE  NothingUnseen'
<1>0. /\ TypeInv /\ GameTypeOK /\ SeenOnce /\ phase = "game" /\ listed \subseteq Tag
      /\ commands \in Seq(Command)
  BY GameStepInGame, TypeSplit, AnnouncedSplit DEF StepInv, SightInv, TypeInv, TypeOK
<1>1. CASE Observe
  BY <1>1 DEF Observe, NothingUnseen
<1>2. CASE GameAction /\ UNCHANGED botVars
  <2>1. UNCHANGED <<view, listed, commanded>>
    BY <1>2 DEF botVars, obsVars
  <2>2. \A c \in Elems(commands') : c.unit \in commanded \cup {NullTag}
    BY <1>0, <1>2, GameCommands DEF NothingUnseen
  <2>3. ASSUME NEW v \in Tag, units'[v].alive, units'[v].orders # <<>> \/ ~units'[v].built
        PROVE  Changed(v)
    <3>1. Stir(v)
      BY <1>0, <1>2, GameStirs
    <3>2. ASSUME NEW t \in UnitType, Laid(v, t) PROVE v \notin listed
      BY <1>0, <3>2 DEF Laid, SeenOnce
    <3>3. ASSUME commands # <<>>, v = Head(commands).unit PROVE v \in commanded
      <4>1. Head(commands) \in Elems(commands)
        BY <1>0, <3>3, ElemsOfTail
      <4> QED BY <1>0, <3>3, <4>1, GameAssumption DEF NothingUnseen
    <3> QED BY <1>0, <2>3, <3>1, <3>2, <3>3 DEF Stir, NothingUnseen, Changed, Existing
  <2> QED BY <2>1, <2>2, <2>3 DEF NothingUnseen, Changed, Existing
<1> QED BY <1>1, <1>2, GameStepIsAction

LEMMA GameNoForgottenBarracks ==
    ASSUME BarracksInv, GameStep
    PROVE  NoForgottenBarracks'
<1>0. /\ StepInv /\ NothingUnseen /\ NoForgottenBarracks /\ GameTypeOK /\ phase = "game"
      /\ commands \in Seq(Command)
  BY GameStepInGame, TypeSplit DEF BarracksInv, StepInv, SightInv, TypeInv, TypeOK
<1>1. events.idle = {}
  BY <1>0 DEF StepInv, StepOrder, NoEvents
<1>2. CASE Observe
  <2>1. /\ UNCHANGED <<units, trainings>> /\ commands = <<>>
        /\ events' = NewEvents
    BY <1>2 DEF Observe, builderVars, queueVars
  <2>2. events'.idle = {u \in Existing : TurnedIdle(u)}
    BY <2>1 DEF NewEvents
  <2> QED BY <1>0, <1>1, <2>1, <2>2 DEF NoForgottenBarracks, Existing
<1>3. CASE GameAction /\ UNCHANGED botVars
  <2>1. UNCHANGED <<view, listed, commanded, trainings, phase>>
    BY <1>3 DEF botVars, obsVars, builderVars, queueVars
  <2> SUFFICES ASSUME NEW v \in Existing', units'[v].type = "Barracks", units'[v].built,
                      units'[v].orders = <<>>,
                      ~\E i \in DOMAIN trainings : trainings[i].assignee = v
               PROVE  TurnedIdle(v)'
    BY <1>0, <2>1 DEF NoForgottenBarracks
  <2>2. v \in Tag /\ units'[v].alive /\ Stir(v)
    BY <1>0, <1>3, GameStirs DEF Existing
  <2>3. ASSUME NEW t \in UnitType, Laid(v, t) PROVE FALSE
    BY <2>3, SiteFields DEF Laid
  <2>4. v \in Existing /\ units[v].type = "Barracks"
    BY <2>2, <2>3 DEF Stir, Existing
  <2>5. Changed(v)
    <3>1. CASE units[v].orders # <<>> \/ ~units[v].built
      BY <1>0, <2>4, <3>1 DEF NothingUnseen
    <3>2. CASE units[v].orders = <<>> /\ units[v].built
      <4>1. (\E i \in DOMAIN commands : commands[i].unit = v) \/ TurnedIdle(v)
        BY <1>0, <1>1, <2>4, <3>2 DEF NoForgottenBarracks
      <4>2. ASSUME NEW i \in DOMAIN commands, commands[i].unit = v PROVE v \in commanded
        <5>1. commands[i] \in Elems(commands) /\ v # NullTag
          BY <2>2, GameAssumption DEF Elems
        <5> QED BY <1>0, <4>2, <5>1 DEF NothingUnseen
      <4> QED BY <4>1, <4>2 DEF TurnedIdle, Changed
    <3> QED BY <3>1, <3>2
  <2> QED BY <2>1, <2>5 DEF TurnedIdle, Changed
<1> QED BY <1>2, <1>3, GameStepIsAction

LEMMA BotNothingUnseen ==
    ASSUME StepInv, NothingUnseen, BotStep
    PROVE  NothingUnseen'
<1>0. /\ StepOrder /\ commands \in Seq(Command)
  BY DEF StepInv, SightInv, TypeInv, TypeOK
<1>1. CASE SendActions
  <2>1. /\ UNCHANGED <<units, view, listed, commands>> /\ phase = "train"
        /\ commanded' = {commands[i].unit : i \in DOMAIN commands} \ {NullTag}
    BY <1>1 DEF SendActions, gameVars
  <2>2. Fresh
    BY <1>0, <2>1 DEF StepOrder
  <2>3. \A u \in Existing' : units'[u].orders # <<>> \/ ~units'[u].built => Changed(u)'
    BY <2>1, <2>2 DEF Fresh, Existing, Changed
  <2> QED BY <2>1, <2>3 DEF NothingUnseen, Elems
<1>2. CASE ScheduleOpening
  <2>1. /\ UNCHANGED <<units, view, listed, commands>> /\ phase = "opening"
    BY <1>2 DEF ScheduleOpening, gameVars, obsVars
  <2>2. Fresh /\ commands = <<>>
    BY <1>0, <2>1 DEF StepOrder
  <2>3. \A u \in Existing' : units'[u].orders # <<>> \/ ~units'[u].built => Changed(u)'
    BY <2>1, <2>2 DEF Fresh, Existing, Changed
  <2> QED BY <2>1, <2>2, <2>3 DEF NothingUnseen, Elems
<1>3. CASE ~SendActions /\ ~ScheduleOpening
  <2>1. phase' # "game"
    BY <1>3 DEF BotStep, OnUnitDestroyed, OnUnitCreated, OnUnitIdle, OnReaperCreated,
                ApiOnStep, MinerOnStep, QuarterMasterOnStep, BuilderOnStep, TrainNext
  <2> QED BY <2>1 DEF NothingUnseen
<1> QED BY <1>1, <1>2, <1>3

(* Orders and commands that name a barracks, and its idle event, outlive a  *)
(* step of the bot that keeps them.                                         *)
LEMMA KeptBarracks ==
    ASSUME NoForgottenBarracks, phase # "game", UNCHANGED units,
           Elems(trainings) \subseteq Elems(trainings'),
           Elems(commands) \subseteq Elems(commands'),
           events.idle \subseteq events'.idle
    PROVE  NoForgottenBarracks'
<1> SUFFICES ASSUME NEW v \in Existing, units[v].type = "Barracks", units[v].built,
                    units[v].orders = <<>>
             PROVE  \/ \E i \in DOMAIN trainings' : trainings'[i].assignee = v
                    \/ \E i \in DOMAIN commands' : commands'[i].unit = v
                    \/ v \in events'.idle
  BY DEF NoForgottenBarracks, Existing
<1>1. \/ \E i \in DOMAIN trainings : trainings[i].assignee = v
      \/ \E i \in DOMAIN commands : commands[i].unit = v
      \/ v \in events.idle
  BY DEF NoForgottenBarracks
<1>2. ASSUME NEW o \in Elems(trainings), o.assignee = v
      PROVE  \E i \in DOMAIN trainings' : trainings'[i].assignee = v
  BY <1>2 DEF Elems
<1>3. ASSUME NEW c \in Elems(commands), c.unit = v
      PROVE  \E i \in DOMAIN commands' : commands'[i].unit = v
  BY <1>3 DEF Elems
<1> QED BY <1>1, <1>2, <1>3 DEF Elems

(* An idle event goes, and an order for the barracks comes.                 *)
LEMMA IdleBarracks ==
    ASSUME BarracksInv, NEW u \in Tag, OnUnitIdle(u)
    PROVE  NoForgottenBarracks'
<1>0. /\ TypeOK /\ StepOrder /\ NoForgottenBarracks /\ phase = "events"
      /\ UNCHANGED <<units, commands>>
      /\ events'.idle = events.idle \ {u} /\ u \in events.idle
      /\ Refresh(u) /\ ReaperRushOnUnitIdle(u)
  BY DEF BarracksInv, StepInv, SightInv, TypeInv, TypeOK, EventRecord, OnUnitIdle, gameVars
<1>1. units[u].alive
  BY <1>0 DEF StepOrder, Existing
<1>2. view[u]'.type = units[u].type
  BY <1>0, <1>1 DEF Refresh, TypeOK
<1>3. \/ UNCHANGED trainings
      \/ /\ Elems(trainings) \subseteq Elems(trainings')
         /\ [type |-> "Reaper", assignee |-> u] \in Elems(trainings')
  BY <1>0, IdleOrders
<1>4. ASSUME units[u].type = "Barracks"
      PROVE  [type |-> "Reaper", assignee |-> u] \in Elems(trainings')
  <2> DEFINE reaper == [type |-> "Reaper", assignee |-> u]
  <2>1. \/ trainings' = trainings \o <<reaper>>
        \/ trainings' = trainings \o <<reaper, reaper>>
    BY <1>0, <1>2, <1>4 DEF ReaperRushOnUnitIdle
  <2>2. reaper \in TrainingOrder /\ trainings \in Seq(TrainingOrder)
    BY <1>0, UnitTypeDataAssumption DEF TypeOK, TrainingOrder
  <2> HIDE DEF reaper
  <2>3. /\ <<reaper>> \in Seq(TrainingOrder) /\ <<reaper, reaper>> \in Seq(TrainingOrder)
        /\ reaper \in Elems(<<reaper>>) /\ reaper \in Elems(<<reaper, reaper>>)
    BY <2>2 DEF Elems
  <2>4. reaper \in Elems(trainings')
    BY <2>1, <2>2, <2>3, ElemsConcat
  <2> QED BY <2>4 DEF reaper
<1> SUFFICES ASSUME NEW v \in Existing, units[v].type = "Barracks", units[v].built,
                    units[v].orders = <<>>
             PROVE  \/ \E i \in DOMAIN trainings' : trainings'[i].assignee = v
                    \/ \E i \in DOMAIN commands' : commands'[i].unit = v
                    \/ v \in events'.idle
  BY <1>0 DEF NoForgottenBarracks, Existing
<1>5. CASE v = u
  <2>1. [type |-> "Reaper", assignee |-> u] \in Elems(trainings')
    BY <1>4, <1>5
  <2>2. \E i \in DOMAIN trainings' : trainings'[i] = [type |-> "Reaper", assignee |-> u]
    BY <2>1 DEF Elems
  <2> QED BY <1>5, <2>2
<1>6. CASE v # u
  <2>1. \/ \E i \in DOMAIN trainings : trainings[i].assignee = v
        \/ \E i \in DOMAIN commands : commands[i].unit = v
        \/ v \in events.idle
    BY <1>0 DEF NoForgottenBarracks
  <2>2. Elems(trainings) \subseteq Elems(trainings')
    BY <1>3 DEF Elems
  <2>3. ASSUME NEW i \in DOMAIN trainings, trainings[i].assignee = v
        PROVE  \E j \in DOMAIN trainings' : trainings'[j].assignee = v
    <3>1. trainings[i] \in Elems(trainings')
      BY <2>2 DEF Elems
    <3> QED BY <2>3, <3>1 DEF Elems
  <2> QED BY <1>0, <1>6, <2>1, <2>3
<1> QED BY <1>5, <1>6

LEMMA BotNoForgottenBarracks ==
    ASSUME BarracksInv, BotStep
    PROVE  NoForgottenBarracks'
<1>0. /\ StepInv /\ NoForgottenBarracks /\ TypeInv /\ StepOrder /\ OrdersAssigned
      /\ TypeOK
  BY DEF BarracksInv, StepInv, SightInv, TypeInv
<1>1. CASE ScheduleOpening \/ QuarterMasterOnStep \/ SendActions
  <2>1. /\ UNCHANGED <<units, commands, trainings, events>> /\ phase # "game"
    BY <1>1 DEF ScheduleOpening, QuarterMasterOnStep, SendActions, gameVars, obsVars, queueVars
  <2> QED BY <1>0, <2>1, KeptBarracks
<1>2. CASE \E u \in Tag : OnUnitDestroyed(u) \/ OnUnitCreated(u)
  <2>1. /\ UNCHANGED <<units, commands, trainings>> /\ phase # "game"
        /\ events'.idle = events.idle
    BY <1>0, <1>2 DEF OnUnitDestroyed, OnUnitCreated, gameVars, builderVars, queueVars,
                      TypeOK, EventRecord
  <2> QED BY <1>0, <2>1, KeptBarracks
<1>3. CASE OnReaperCreated
  <2>1. /\ UNCHANGED <<units, commands, trainings>> /\ phase # "game"
        /\ events'.idle = events.idle
    BY <1>0, <1>3 DEF OnReaperCreated, gameVars, builderVars, queueVars, TypeOK, EventRecord
  <2> QED BY <1>0, <2>1, KeptBarracks
<1>4. ASSUME NEW u \in Tag, OnUnitIdle(u) PROVE NoForgottenBarracks'
  BY <1>4, IdleBarracks
<1>5. CASE ApiOnStep
  <2>1. UNCHANGED <<units, commands, trainings, events>> /\ phase # "game"
    BY <1>5 DEF ApiOnStep, gameVars, builderVars, queueVars
  <2> QED BY <1>0, <2>1, KeptBarracks
<1>6. CASE MinerOnStep
  <2>1. /\ UNCHANGED <<units, commands, events>> /\ phase # "game"
        /\ Elems(trainings) \subseteq Elems(trainings')
    BY <1>0, <1>6, MinerOrders DEF MinerOnStep, gameVars, obsVars
  <2> QED BY <1>0, <2>1, KeptBarracks
<1>7. CASE BuilderOnStep
  <2>1. UNCHANGED <<units, trainings, events>> /\ phase = "construct"
    BY <1>7 DEF BuilderOnStep, obsVars
  <2>2. commands = <<>>
    BY <1>0, <2>1 DEF StepOrder
  <2> QED BY <1>0, <2>1, <2>2, KeptBarracks DEF Elems
<1>8. CASE TrainNext
  <2>1. /\ UNCHANGED <<units, events>> /\ phase = "train" /\ BuildTraining
    BY <1>8 DEF TrainNext, obsVars
  <2> SUFFICES ASSUME NEW v \in Existing, units[v].type = "Barracks", units[v].built,
                      units[v].orders = <<>>
               PROVE  \/ \E i \in DOMAIN trainings' : trainings'[i].assignee = v
                      \/ \E i \in DOMAIN commands' : commands'[i].unit = v
                      \/ v \in events'.idle
    BY <2>1 DEF NoForgottenBarracks, Existing
  <2>2. /\ Elems(commands) \subseteq Elems(commands')
        /\ \A o \in Elems(trainings) :
              \/ o \in Elems(trainings')
              \/ [type |-> o.type, unit |-> o.assignee] \in Elems(commands')
    BY <1>0, <2>1, TrainNextOrders
  <2>3. \/ \E i \in DOMAIN trainings : trainings[i].assignee = v
        \/ \E i \in DOMAIN commands : commands[i].unit = v
        \/ v \in events.idle
    BY <1>0, <2>1 DEF NoForgottenBarracks
  <2>4. ASSUME NEW o \in Elems(trainings), o.assignee = v
        PROVE  \/ \E i \in DOMAIN trainings' : trainings'[i].assignee = v
               \/ \E i \in DOMAIN commands' : commands'[i].unit = v
    <3>1. CASE o \in Elems(trainings')
      BY <2>4, <3>1 DEF Elems
    <3>2. CASE [type |-> o.type, unit |-> o.assignee] \in Elems(commands')
      <4>1. PICK i \in DOMAIN commands' : commands'[i] = [type |-> o.type, unit |-> o.assignee]
        BY <3>2 DEF Elems
      <4> QED BY <2>4, <4>1
    <3> QED BY <2>2, <3>1, <3>2
  <2>5. ASSUME NEW c \in Elems(commands), c.unit = v
        PROVE  \E i \in DOMAIN commands' : commands'[i].unit = v
    BY <2>2, <2>5 DEF Elems
  <2> QED BY <2>1, <2>3, <2>4, <2>5 DEF Elems
<1> QED BY <1>1, <1>2, <1>3, <1>4, <1>5, <1>6, <1>7, <1>8 DEF BotStep

LEMMA BarracksInvInit == Init => BarracksInv
<1> SUFFICES ASSUME Init PROVE BarracksInv
  OBVIOUS
<1>1. StepInv
  BY SightInvInit, StepOrderInit DEF StepInv
<1>2. NothingUnseen
  BY DEF Init, NothingUnseen
<1>3. \A v \in Tag : units[v].type # "Barracks"
  BY UnitTypeDataAssumption DEF Init, Site, Vacant
<1> QED BY <1>1, <1>2, <1>3 DEF BarracksInv, NoForgottenBarracks, Existing

LEMMA BarracksInvStep ==
    ASSUME BarracksInv, [Next]_vars
    PROVE  BarracksInv'
<1>0. StepInv /\ NothingUnseen /\ NoForgottenBarracks
  BY DEF BarracksInv
<1>1. StepInv'
  BY <1>0, StepInvStep
<1>2. CASE UNCHANGED vars
  <2>1. UNCHANGED <<units, view, listed, commanded, events, commands, trainings, phase>>
    BY <1>2 DEF vars, gameVars, obsVars, builderVars, queueVars
  <2> QED BY <1>0, <1>1, <2>1
          DEF BarracksInv, NothingUnseen, NoForgottenBarracks, Existing, Changed, TurnedIdle
<1>3. CASE GameStep
  BY <1>0, <1>1, <1>3, GameNothingUnseen, GameNoForgottenBarracks DEF BarracksInv
<1>4. CASE BotStep
  BY <1>0, <1>1, <1>4, BotNothingUnseen, BotNoForgottenBarracks DEF BarracksInv
<1> QED BY <1>2, <1>3, <1>4 DEF Next

(* A finished barracks that makes nothing is never forgotten, whatever is   *)
(* destroyed, refused, lost or unpaid: the client reports every producer    *)
(* that may have turned idle since the bot last looked.                     *)
THEOREM BarracksNeverForgotten == Spec => []NoForgottenBarracks
<1>1. BarracksInv => NoForgottenBarracks
  BY DEF BarracksInv
<1> QED BY <1>1, BarracksInvInit, BarracksInvStep, PTL DEF Spec
=============================================================================
