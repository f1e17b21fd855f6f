--------------------------- MODULE WorkersProofs ----------------------------
(***************************************************************************)
(* Theorems about Workers, for any number of bases and workers and any     *)
(* number of mishaps.                                                      *)
(***************************************************************************)
EXTENDS Workers, FiniteSetTheorems, TLAPS

Place == Expansion \cup {NoBase}
DoingSet == [task : Tasks, at : Place]
CommandSet == {NoOrder} \cup [task : {"mine", "gas", "build", "refinery"}, at : Place]

(***************************************************************************)
(* Types.                                                                  *)
(***************************************************************************)
MapTypes ==
    /\ hall \in [Expansion -> {"none", "site", "hall"}]
    /\ rig \in [Expansion -> {"none", "site", "rig", "dry"}]
    /\ mishaps \in 0 .. MaxMishaps
    /\ mined \subseteq Expansion /\ fallen \subseteq Expansion
DoingTypes == doing \in [Worker -> DoingSet]
HubTypes ==
    /\ ours \subseteq Expansion /\ refineries \subseteq Expansion
    /\ rich \subseteq Expansion /\ reserved \subseteq Expansion
WorkerTypes ==
    /\ job \in [Worker -> JobSet] /\ home \in [Worker -> Place]
    /\ command \in [Worker -> CommandSet]
StepTypes ==
    /\ seen \in [Worker -> {"no", "idle", "told", "busy"}]
    /\ m_vespeneGasStop \in BOOLEAN
    /\ phase \in BotSteps \cup {"game", "destroyed"} /\ cursor \in Expansion

TypeInv == MapTypes /\ DoingTypes /\ HubTypes /\ WorkerTypes /\ StepTypes

LEMMA ExpansionRange ==
    /\ Cardinality(Expansion) \in Nat /\ 1 \in Expansion /\ Last \in Expansion
    /\ \A e \in Expansion : e \in Nat /\ (e # Last => e + 1 \in Expansion)
<1> DEFINE n == Cardinality(Expansion)
<1>1. n \in Nat
  BY FS_CardinalityType, WorkersAssumption
<1>2. Expansion = 1 .. n /\ 1 \in Expansion /\ Last = n
  BY WorkersAssumption DEF Last
<1> HIDE DEF n
<1> QED BY <1>1, <1>2 DEF n

LEMMA DoingOrder ==
    ASSUME NEW task \in Tasks, NEW e \in Place PROVE Order(task, e) \in DoingSet
BY DEF Order, DoingSet

LEMMA CommandOrder ==
    ASSUME NEW task \in {"mine", "gas", "build", "refinery"}, NEW e \in Place
    PROVE  Order(task, e) \in CommandSet
BY DEF Order, CommandSet

LEMMA KnownOrders ==
    /\ Minerals \in CommandSet /\ NoOrder \in CommandSet /\ Idle \in DoingSet
    /\ \A e \in Place : /\ Order("gas", e) \in CommandSet /\ Order("build", e) \in CommandSet
                        /\ Order("refinery", e) \in CommandSet
                        /\ Order("gas", e) \in DoingSet /\ Order("build", e) \in DoingSet
                        /\ Order("inside", e) \in DoingSet /\ Order("dead", e) \in DoingSet
    /\ NoBase \in Place /\ Minerals \in DoingSet
<1>1. NoBase \in Place
  BY DEF Place
<1>2. Order("mine", NoBase) \in CommandSet /\ NoOrder \in CommandSet
  BY <1>1, CommandOrder DEF CommandSet
<1>3. {"idle", "mine", "gas", "build", "inside", "dead"} \subseteq Tasks
  BY DEF Tasks
<1>4. Order("idle", NoBase) \in DoingSet /\ Order("mine", NoBase) \in DoingSet
  BY <1>1, <1>3, DoingOrder
<1>5. ASSUME NEW e \in Place
      PROVE  /\ Order("gas", e) \in CommandSet /\ Order("build", e) \in CommandSet
             /\ Order("refinery", e) \in CommandSet
  BY CommandOrder
<1>6. ASSUME NEW e \in Place
      PROVE  /\ Order("gas", e) \in DoingSet /\ Order("build", e) \in DoingSet
             /\ Order("inside", e) \in DoingSet /\ Order("dead", e) \in DoingSet
  BY <1>3, DoingOrder
<1> QED BY <1>1, <1>2, <1>4, <1>5, <1>6 DEF Minerals, Idle

LEMMA CommandsType ==
    ASSUME command \in [Worker -> CommandSet], NEW ws, NEW order \in CommandSet
    PROVE  Commands(ws, order) \in [Worker -> CommandSet]
BY DEF Commands

LEMMA JobsType ==
    ASSUME job \in [Worker -> JobSet], NEW ws, NEW j \in JobSet
    PROVE  Jobs(ws, j) \in [Worker -> JobSet]
BY DEF Jobs

LEMMA OutcomeTypes ==
    ASSUME TypeInv, NEW w \in Worker PROVE Outcomes(w) \subseteq DoingSet
<1>1. doing[w] \in DoingSet /\ command[w] \in CommandSet /\ Idle \in DoingSet
  BY KnownOrders DEF TypeInv, DoingTypes, WorkerTypes
<1>2. CASE command[w] = NoOrder \/ w \notin Alive
  BY <1>1, <1>2 DEF Outcomes
<1>3. CASE ~(command[w] = NoOrder \/ w \notin Alive)
  <2>1. command[w].task \in Tasks /\ command[w].at \in Place
    BY <1>1, <1>3 DEF CommandSet, Tasks
  <2>2. Order(command[w].task, command[w].at) \in DoingSet
    BY <2>1, DoingOrder
  <2> QED BY <1>1, <2>2 DEF Outcomes
<1> QED BY <1>2, <1>3

LEMMA SendTypes == ASSUME TypeInv, Send PROVE TypeInv'
<1>1. doing' \in [Worker -> DoingSet]
  <2>1. /\ doing' \in [Worker -> UNION {Outcomes(w) : w \in Worker}]
        /\ \A w \in Worker : doing'[w] \in Outcomes(w)
    BY DEF Send
  <2> QED BY <2>1, OutcomeTypes
<1>2. command' \in [Worker -> CommandSet]
  BY KnownOrders DEF Send
<1>3. StepTypes'
  BY DEF Send, TypeInv, StepTypes, BotSteps
<1>4. MapTypes' /\ HubTypes'
  BY DEF Send, TypeInv, MapTypes, HubTypes, hubVars
<1>5. WorkerTypes'
  BY <1>2 DEF Send, TypeInv, WorkerTypes
<1> QED BY <1>1, <1>3, <1>4, <1>5 DEF TypeInv, DoingTypes

LEMMA GameTypes == ASSUME TypeInv, Game PROVE TypeInv'
<1>1. HubTypes' /\ WorkerTypes' /\ StepTypes'
  <2>1. UNCHANGED botVars
    BY DEF Game, Born, Enter, Leave, Stall, Construct, Kill, RazeHall, RazeRefinery, Exhaust
  <2> QED BY <2>1 DEF botVars, hubVars, TypeInv, HubTypes, WorkerTypes, StepTypes
<1>2. /\ \A w \in Worker : doing[w].at \in Place
      /\ \A e \in Expansion : e \in Place
  BY DEF TypeInv, DoingTypes, DoingSet, Place
<1>3. \A w \in Worker, order \in DoingSet : Turn(w, order) => DoingTypes'
  BY DEF TypeInv, DoingTypes, Turn
<1>4. ASSUME NEW w \in Worker, Born(w) \/ Enter(w) \/ Leave(w) \/ Stall(w) \/ Kill(w)
      PROVE  MapTypes' /\ DoingTypes'
  <2>1. DoingTypes'
    <3>1. \E order \in DoingSet : Turn(w, order)
      <4>1. CASE Born(w)
        BY <4>1, KnownOrders DEF Born, Turn
      <4>2. CASE Enter(w) \/ Leave(w)
        BY <1>2, <4>2, KnownOrders DEF Enter, Leave
      <4>3. CASE Stall(w)
        BY <4>3, KnownOrders DEF Stall
      <4>4. CASE Kill(w)
        BY <4>4, KnownOrders DEF Kill
      <4> QED BY <1>4, <4>1, <4>2, <4>3, <4>4
    <3> QED BY <1>3, <3>1
  <2>2. MapTypes'
    BY <1>4, WorkersAssumption
    DEF Born, Enter, Leave, Stall, Kill, Mishap, TypeInv, MapTypes
  <2> QED BY <2>1, <2>2
<1>5. ASSUME NEW w \in Worker, Construct(w) PROVE MapTypes' /\ DoingTypes'
  <2>1. DoingTypes'
    <3>1. (\E order \in DoingSet : Turn(w, order)) \/ UNCHANGED doing
      <4>1. \/ \E x \in Expansion : Turn(w, Order("build", x))
            \/ Turn(w, Idle) \/ Turn(w, Order("gas", doing[w].at)) \/ UNCHANGED doing
        BY <1>5 DEF Construct
      <4>2. ASSUME NEW x \in Place
            PROVE  Order("build", x) \in DoingSet /\ Order("gas", x) \in DoingSet
                   /\ Idle \in DoingSet
        BY KnownOrders
      <4> QED BY <1>2, <4>1, <4>2
    <3> QED BY <1>3, <3>1 DEF TypeInv, DoingTypes
  <2>2. UNCHANGED <<mined, mishaps, fallen>>
    BY <1>5 DEF Construct
  <2>3. hall' \in [Expansion -> {"none", "site", "hall"}]
    BY <1>5 DEF Construct, TypeInv, MapTypes
  <2>4. rig' \in [Expansion -> {"none", "site", "rig", "dry"}]
    BY <1>5 DEF Construct, TypeInv, MapTypes
  <2> QED BY <2>1, <2>2, <2>3, <2>4 DEF TypeInv, MapTypes
<1>6. ASSUME NEW e \in Expansion, RazeHall(e) \/ RazeRefinery(e) \/ Exhaust(e)
      PROVE  MapTypes' /\ DoingTypes'
  <2>1. mishaps' \in 0 .. MaxMishaps
    BY <1>6, WorkersAssumption DEF RazeHall, RazeRefinery, Exhaust, Mishap, TypeInv, MapTypes
  <2>2. hall' \in [Expansion -> {"none", "site", "hall"}]
    BY <1>6 DEF RazeHall, RazeRefinery, Exhaust, TypeInv, MapTypes
  <2>3. rig' \in [Expansion -> {"none", "site", "rig", "dry"}]
    BY <1>6 DEF RazeHall, RazeRefinery, Exhaust, TypeInv, MapTypes
  <2>4. mined' \subseteq Expansion /\ fallen' \subseteq Expansion
    BY <1>6 DEF RazeHall, RazeRefinery, Exhaust, TypeInv, MapTypes
  <2>5. DoingTypes'
    BY <1>6, KnownOrders DEF RazeHall, RazeRefinery, Exhaust, TypeInv, DoingTypes
  <2> QED BY <2>1, <2>2, <2>3, <2>4, <2>5 DEF MapTypes
<1> QED BY <1>1, <1>4, <1>5, <1>6 DEF Game, TypeInv

LEMMA MineTypes == ASSUME TypeInv, NEW ws, Mine(ws) PROVE WorkerTypes'
<1>1. home' \in [Worker -> Place]
  BY DEF Mine, Place
<1>2. "minerals" \in JobSet
  BY DEF JobSet
<1>3. \E sent : command' = Commands(sent, Minerals) /\ job' = Jobs(sent, "minerals")
  BY DEF Mine
<1> QED BY <1>1, <1>2, <1>3, KnownOrders, CommandsType, JobsType DEF TypeInv, WorkerTypes

LEMMA HallDestroyedTypes ==
    ASSUME TypeInv, NEW e \in Expansion, HallDestroyed(e) PROVE TypeInv'
<1>1. MapTypes' /\ DoingTypes'
  BY DEF HallDestroyed, TypeInv, MapTypes, DoingTypes
<1>5. HubTypes'
  BY DEF HallDestroyed, TypeInv, HubTypes
<1>6. StepTypes'
  BY DEF HallDestroyed, TypeInv, StepTypes
<1>2. ASSUME ClearWorkersHomeBase(e) PROVE WorkerTypes'
  BY <1>2, KnownOrders DEF ClearWorkersHomeBase, TypeInv, WorkerTypes
<1>3. ASSUME SplitWorkersOff(e) PROVE WorkerTypes'
  <2>1. home' \in [Worker -> Place]
    <3>1. PICK f \in RoundRobin(BasedAt(e), ActiveBut(e)) :
             home' = [w \in Worker |-> IF w \in BasedAt(e) THEN f[w] ELSE home[w]]
      BY <1>3 DEF SplitWorkersOff
    <3>2. f \in [BasedAt(e) -> ActiveBut(e)]
      BY DEF RoundRobin
    <3>3. ActiveBut(e) \subseteq Place
      BY DEF ActiveBut, TypeInv, HubTypes, Place
    <3> QED BY <3>1, <3>2, <3>3 DEF TypeInv, WorkerTypes
  <2>2. "minerals" \in JobSet
    BY DEF JobSet
  <2> DEFINE gatherers == {w \in BasedAt(e) : job[w] \in {"minerals", "vespene"}}
  <2>3. command' = Commands(gatherers, Minerals) /\ job' = Jobs(gatherers, "minerals")
    BY <1>3 DEF SplitWorkersOff
  <2> HIDE DEF gatherers
  <2> QED BY <2>1, <2>2, <2>3, KnownOrders, CommandsType, JobsType DEF TypeInv, WorkerTypes
<1>4. WorkerTypes'
  BY <1>2, <1>3 DEF HallDestroyed, TypeInv
<1> QED BY <1>1, <1>4, <1>5, <1>6 DEF TypeInv

LEMMA AnnounceTypes == ASSUME TypeInv, Announce PROVE TypeInv'
<1>1. MapTypes' /\ DoingTypes'
  BY DEF Announce, gameVars, TypeInv, MapTypes, DoingTypes
<1>2. HubTypes'
  BY DEF Announce, TypeInv, HubTypes
<1>3. WorkerTypes'
  BY DEF Announce, TypeInv, WorkerTypes, JobSet
<1>4. StepTypes'
  BY DEF Announce, TypeInv, StepTypes, BotSteps
<1> QED BY <1>1, <1>2, <1>3, <1>4 DEF TypeInv

LEMMA BalanceTypes == ASSUME TypeInv, BalanceWorkers PROVE WorkerTypes'
<1>1. PICK bottom \in rich : \E ws :
          /\ home' = [w \in Worker |-> IF w \in ws THEN bottom ELSE home[w]]
          /\ command' = Commands(ws, Minerals)
  BY DEF BalanceWorkers
<1>2. bottom \in Place
  BY DEF TypeInv, HubTypes, Place
<1>3. command' \in [Worker -> CommandSet]
  BY <1>1, KnownOrders, CommandsType DEF TypeInv, WorkerTypes
<1>4. home' \in [Worker -> Place]
  BY <1>1, <1>2 DEF TypeInv, WorkerTypes
<1> QED BY <1>3, <1>4 DEF BalanceWorkers, TypeInv, WorkerTypes

LEMMA GatherTypes ==
    ASSUME TypeInv, NEW e \in Expansion, SecureVespene(e) PROVE WorkerTypes'
<1>1. ASSUME NEW w, GatherVespene(w, e) PROVE WorkerTypes'
  <2>1. "vespene" \in JobSet /\ e \in Place
    BY DEF JobSet, Place
  <2>2. home' \in [Worker -> Place]
    BY <1>1, <2>1 DEF GatherVespene, TypeInv, WorkerTypes
  <2> QED BY <1>1, <2>1, <2>2, KnownOrders, CommandsType, JobsType
          DEF GatherVespene, TypeInv, WorkerTypes
<1>2. ASSUME NEW w, Mine({w}) PROVE WorkerTypes'
  BY <1>2, MineTypes
<1>3. CASE UNCHANGED <<job, home, command>>
  BY <1>3 DEF TypeInv, WorkerTypes
<1> QED BY <1>1, <1>2, <1>3 DEF SecureVespene

LEMMA BuilderTypes == ASSUME TypeInv, Builder PROVE WorkerTypes' /\ HubTypes'
<1>1. {"building", "building_refinery"} \subseteq JobSet
  BY DEF JobSet
<1>2. ASSUME NEW w, Build(w) PROVE command' \in [Worker -> CommandSet] /\ job' \in [Worker -> JobSet]
  BY <1>1, <1>2, KnownOrders, CommandsType, JobsType DEF Build, TypeInv, WorkerTypes
<1>3. ASSUME NEW w, NEW e \in Expansion, BuildRefinery(w, e)
      PROVE command' \in [Worker -> CommandSet] /\ job' \in [Worker -> JobSet]
  <2>1. e \in Place
    BY DEF Place
  <2> QED BY <1>1, <1>3, <2>1, KnownOrders, CommandsType, JobsType
          DEF BuildRefinery, TypeInv, WorkerTypes
<1>4. ours \subseteq Expansion
  BY DEF TypeInv, HubTypes
<1>5. command' \in [Worker -> CommandSet] /\ job' \in [Worker -> JobSet]
  <2>1. CASE UNCHANGED <<job, command, reserved>>
    BY <2>1 DEF TypeInv, WorkerTypes
  <2>2. CASE \E w \in Free : Build(w)
    BY <1>2, <2>2
  <2>3. CASE \E w, e : e \in ours /\ BuildRefinery(w, e)
    BY <1>3, <1>4, <2>3
  <2> QED BY <2>1, <2>2, <2>3 DEF Builder
<1>6. home' = home
  BY DEF Builder
<1>7. HubTypes'
  BY <1>4 DEF Builder, hubVars, TypeInv, HubTypes
<1> QED BY <1>5, <1>6, <1>7 DEF TypeInv, WorkerTypes

LEMMA BotTypes == ASSUME TypeInv, Bot PROVE TypeInv'
<1>1. CASE \E e \in Expansion : HallDestroyed(e)
  BY <1>1, HallDestroyedTypes
<1>2. CASE Announce
  BY <1>2, AnnounceTypes
<1>3. ASSUME MineIdle \/ Balance \/ WatchBank \/ SecureVespeneIncome \/ Builder
      PROVE  TypeInv'
  <2>1. MapTypes' /\ DoingTypes'
    BY <1>3 DEF MineIdle, Balance, WatchBank, SecureVespeneIncome, Builder, gameVars,
                TypeInv, MapTypes, DoingTypes
  <2>2. cursor' \in Expansion
    <3>1. CASE SecureVespeneIncome
      BY <3>1, ExpansionRange DEF SecureVespeneIncome, NextRefinery, TypeInv, StepTypes
    <3>2. CASE MineIdle \/ Balance \/ WatchBank \/ Builder
      BY <3>2 DEF MineIdle, Balance, WatchBank, Builder, TypeInv, StepTypes
    <3> QED BY <1>3, <3>1, <3>2
  <2>3. StepTypes'
    BY <1>3, <2>2 DEF MineIdle, Balance, WatchBank, SecureVespeneIncome, Builder,
                      TypeInv, StepTypes, BotSteps
  <2>4. WorkerTypes'
    <3>1. CASE MineIdle
      BY <3>1, MineTypes DEF MineIdle
    <3>2. CASE Balance
      BY <3>2, BalanceTypes DEF Balance, TypeInv, WorkerTypes
    <3>3. CASE WatchBank
      BY <3>3, MineTypes DEF WatchBank, TypeInv, WorkerTypes
    <3>4. CASE SecureVespeneIncome
      BY <3>4, GatherTypes DEF SecureVespeneIncome, TypeInv, StepTypes
    <3>5. CASE Builder
      BY <3>5, BuilderTypes
    <3> QED BY <1>3, <3>1, <3>2, <3>3, <3>4, <3>5
  <2>5. HubTypes'
    <3>1. CASE Builder
      BY <3>1, BuilderTypes
    <3>2. CASE MineIdle \/ Balance \/ WatchBank \/ SecureVespeneIncome
      BY <3>2 DEF MineIdle, Balance, WatchBank, SecureVespeneIncome, hubVars,
                  TypeInv, HubTypes
    <3> QED BY <1>3, <3>1, <3>2
  <2> QED BY <2>1, <2>3, <2>4, <2>5 DEF TypeInv
<1> QED BY <1>1, <1>2, <1>3 DEF Bot

LEMMA StutterTypes == ASSUME TypeInv, UNCHANGED vars PROVE TypeInv'
BY DEF vars, gameVars, hubVars, TypeInv, MapTypes, DoingTypes, HubTypes, WorkerTypes, StepTypes

LEMMA InitTypes == ASSUME Init PROVE TypeInv
<1>1. 1 \in Expansion /\ NoOrder \in CommandSet /\ Idle \in DoingSet /\ NoBase \in Place
      /\ Order("unborn", NoBase) \in DoingSet
  BY ExpansionRange, KnownOrders, DoingOrder DEF Tasks
<1>2. MapTypes /\ HubTypes
  BY <1>1, WorkersAssumption DEF Init, MapTypes, HubTypes
<1>3. DoingTypes
  BY <1>1 DEF Init, DoingTypes
<1>4. WorkerTypes /\ StepTypes
  BY <1>1 DEF Init, WorkerTypes, StepTypes, JobSet, BotSteps
<1> QED BY <1>2, <1>3, <1>4 DEF TypeInv

(* The inductive invariant of the types, for every worker and base.         *)
THEOREM TypeInvariance == Spec => []TypeInv
<1>1. Init => TypeInv
  BY InitTypes
<1>2. TypeInv /\ [Next]_vars => TypeInv'
  BY SendTypes, GameTypes, BotTypes, StutterTypes DEF Next
<1> QED BY <1>1, <1>2, PTL DEF Spec

(* TypeOK of Workers; of the cursor it says that SecureVespeneIncome comes  *)
(* to its end.                                                              *)
THEOREM WorkersTypeCorrect == Spec => []TypeOK
<1>1. TypeInv => TypeOK
  <2>1. TypeInv => command \in [Worker -> [task : Tasks \cup {"none"}, at : Place]]
    BY DEF TypeInv, WorkerTypes, CommandSet, NoOrder, Order, Tasks, Place
  <2> QED BY <2>1 DEF TypeInv, MapTypes, DoingTypes, HubTypes, WorkerTypes, StepTypes,
                      TypeOK, DoingSet, Place
<1> QED BY <1>1, TypeInvariance, PTL

(***************************************************************************)
(* Homes.  What makes the assertion of Worker::Mine hold: a worker that is *)
(* alive or listed calls nothing its home but a base of Hub, and when that *)
(* base has fallen it is listed, so that OnUnitDestroyed will reach it.    *)
(***************************************************************************)
HomeKept == \A w \in Alive \cup Listed : Asserted(w)
InReach == \A w \in Alive : home[w] \in fallen => w \in Listed
NoHomeBeforeBirth ==
    \A w \in Worker : doing[w].task = "unborn" => home[w] = NoBase /\ w \notin Listed
RichAreOurs == phase \in BotSteps => rich \subseteq ours
HomeInv == HomeKept /\ InReach /\ NoHomeBeforeBirth /\ RichAreOurs

(* What a step of the bot may do to homes without Hub losing a base. *)
LEMMA HomesMoved ==
    ASSUME HomeInv, UNCHANGED <<doing, fallen, seen>>, ours \subseteq ours', RichAreOurs',
           home' \in [Worker -> Place],
           \A w \in Worker : home'[w] # home[w] => w \in Listed /\ home'[w] \in ours
    PROVE  HomeInv'
<1>1. Alive' = Alive /\ Listed' = Listed
  BY DEF Alive, Listed
<1>2. Alive \cup Listed \subseteq Worker
  BY DEF Alive, Listed
<1>3. HomeKept'
  BY <1>1, <1>2 DEF HomeInv, HomeKept, Asserted
<1>4. InReach'
  BY <1>1, <1>2 DEF HomeInv, InReach
<1>5. NoHomeBeforeBirth'
  BY <1>1 DEF HomeInv, NoHomeBeforeBirth
<1> QED BY <1>3, <1>4, <1>5 DEF HomeInv

LEMMA MineMoves ==
    ASSUME TypeInv, HomeInv, phase \in BotSteps, NEW ws, ws \subseteq Listed, Mine(ws)
    PROVE  \A w \in Worker : home'[w] # home[w] => w \in Listed /\ home'[w] \in ours
<1> SUFFICES ASSUME NEW w \in Worker, home'[w] # home[w]
             PROVE  w \in Listed /\ home'[w] \in ours
  OBVIOUS
<1>1. home'[w] \in IF w \in ws THEN MineBases(home[w]) ELSE {home[w]}
  BY DEF Mine
<1>2. w \in ws /\ home'[w] \in rich
  BY <1>1 DEF MineBases
<1> QED BY <1>2 DEF HomeInv, RichAreOurs

LEMMA BotHomes ==
    ASSUME TypeInv, TypeInv', HomeInv,
           MineIdle \/ Balance \/ WatchBank \/ SecureVespeneIncome \/ Builder
    PROVE  HomeInv'
<1>1. /\ UNCHANGED <<doing, fallen, seen, ours, rich>> /\ phase \in BotSteps
      /\ RichAreOurs'
  BY DEF MineIdle, Balance, WatchBank, SecureVespeneIncome, Builder, gameVars, hubVars,
         HomeInv, RichAreOurs, BotSteps
<1>2. home' \in [Worker -> Place]
  BY DEF TypeInv, WorkerTypes
<1>3. \A jobs : Job(jobs) \subseteq Listed
  BY DEF Job
<1>4. \A w \in Worker : home'[w] # home[w] => w \in Listed /\ home'[w] \in ours
  <2>1. CASE MineIdle
    BY <1>1, <1>3, <2>1, MineMoves DEF MineIdle
  <2>2. CASE Balance
    <3>1. ASSUME BalanceWorkers, NEW w \in Worker, home'[w] # home[w]
          PROVE  w \in Listed /\ home'[w] \in ours
      <4>1. PICK top \in rich, bottom \in rich : \E ws \in SUBSET Miners(top) :
                home' = [x \in Worker |-> IF x \in ws THEN bottom ELSE home[x]]
        BY <3>1 DEF BalanceWorkers
      <4>2. w \in Miners(top) /\ home'[w] = bottom
        BY <3>1, <4>1
      <4> QED BY <1>1, <4>2 DEF Miners, BasedAt, HomeInv, RichAreOurs
    <3> QED BY <2>2, <3>1 DEF Balance
  <2>3. CASE WatchBank
    BY <1>1, <1>3, <2>3, MineMoves DEF WatchBank
  <2>4. CASE SecureVespeneIncome
    <3>1. SecureVespene(cursor)
      BY <2>4 DEF SecureVespeneIncome
    <3>2. CASE \E w \in GasWorkers : Mine({w})
      BY <1>1, <1>3, <3>2, MineMoves DEF GasWorkers
    <3>3. ASSUME cursor \in ours, NEW w \in Free, GatherVespene(w, cursor)
          PROVE  \A x \in Worker : home'[x] # home[x] => x \in Listed /\ home'[x] \in ours
      BY <1>3, <3>3 DEF GatherVespene, Free, TypeInv, WorkerTypes
    <3> QED BY <3>1, <3>2, <3>3 DEF SecureVespene
  <2>5. CASE Builder
    BY <2>5 DEF Builder
  <2> QED BY <2>1, <2>2, <2>3, <2>4, <2>5
<1> QED BY <1>1, <1>2, <1>4, HomesMoved

LEMMA HallDestroyedHomes ==
    ASSUME TypeInv, HomeInv, NEW e \in Expansion, HallDestroyed(e) PROVE HomeInv'
<1>1. /\ UNCHANGED <<doing, seen>> /\ fallen' = fallen \ {e} /\ ours' = ours \ {e}
      /\ e \in fallen /\ phase' \notin BotSteps
  BY DEF HallDestroyed, BotSteps
<1>2. Alive' = Alive /\ Listed' = Listed
  BY <1>1 DEF Alive, Listed
<1>3. ASSUME NEW w \in Worker
      PROVE  IF w \in Listed /\ home[w] = e
               THEN home'[w] \in (ours \ {e}) \cup {NoBase} ELSE home'[w] = home[w]
  <2>1. CASE ClearWorkersHomeBase(e)
    BY <2>1 DEF ClearWorkersHomeBase, BasedAt
  <2>2. CASE SplitWorkersOff(e)
    <3>1. PICK f \in RoundRobin(BasedAt(e), ActiveBut(e)) :
             home' = [x \in Worker |-> IF x \in BasedAt(e) THEN f[x] ELSE home[x]]
      BY <2>2 DEF SplitWorkersOff
    <3>2. f \in [BasedAt(e) -> ActiveBut(e)]
      BY DEF RoundRobin
    <3> QED BY <3>1, <3>2 DEF ActiveBut, BasedAt
  <2> QED BY <2>1, <2>2 DEF HallDestroyed
<1>4. Alive \cup Listed \subseteq Worker
  BY DEF Alive, Listed
<1>5. HomeKept'
  <2> SUFFICES ASSUME NEW w \in Alive \cup Listed PROVE Asserted(w)'
    BY <1>2 DEF HomeKept
  <2>1. Asserted(w)
    BY DEF HomeInv, HomeKept
  <2>2. home[w] = e => w \in Listed
    BY <1>1 DEF HomeInv, InReach
  <2> QED BY <1>1, <1>3, <1>4, <2>1, <2>2 DEF Asserted
<1>6. InReach'
  <2> SUFFICES ASSUME NEW w \in Alive, home'[w] \in fallen \ {e}, w \notin Listed
               PROVE  FALSE
    BY <1>1, <1>2 DEF InReach
  <2> QED BY <1>3, <1>4 DEF HomeInv, InReach
<1>7. NoHomeBeforeBirth'
  BY <1>1, <1>2, <1>3 DEF HomeInv, NoHomeBeforeBirth
<1>8. RichAreOurs'
  BY <1>1 DEF RichAreOurs
<1> QED BY <1>5, <1>6, <1>7, <1>8 DEF HomeInv

LEMMA AnnounceHomes == ASSUME TypeInv, HomeInv, Announce PROVE HomeInv'
<1>1. /\ UNCHANGED <<doing, home>> /\ fallen' = {} /\ ours \subseteq ours' /\ rich' \subseteq ours'
  BY DEF Announce, gameVars
<1>2. Alive' = Alive
  BY <1>1 DEF Alive
<1>3. Listed' \subseteq Alive
  BY DEF Announce, Listed, Visible, Alive
<1>4. HomeKept'
  BY <1>1, <1>2, <1>3 DEF HomeInv, HomeKept, Asserted
<1>5. InReach' /\ RichAreOurs'
  BY <1>1 DEF InReach, RichAreOurs
<1>6. NoHomeBeforeBirth'
  BY <1>1, <1>3 DEF HomeInv, NoHomeBeforeBirth, Alive
<1> QED BY <1>4, <1>5, <1>6 DEF HomeInv

LEMMA SendHomes == ASSUME TypeInv, HomeInv, Send PROVE HomeInv'
<1>1. UNCHANGED <<home, ours, rich, fallen>> /\ phase' \notin BotSteps
  BY DEF Send, hubVars, BotSteps
<1>2. Listed' = Listed
  BY DEF Send, Listed
<1>3. ASSUME NEW w \in Worker
      PROVE  /\ w \notin Alive => doing'[w] = doing[w]
             /\ w \in Alive => doing'[w].task # "unborn"
  <2>1. doing'[w] \in Outcomes(w)
    BY DEF Send
  <2>2. CASE w \notin Alive
    BY <2>1, <2>2 DEF Outcomes
  <2>3. CASE w \in Alive
    <3>1. doing[w].task # "unborn" /\ Idle.task # "unborn"
      BY <2>3 DEF Alive, Idle, Order
    <3>2. command[w] # NoOrder => Order(command[w].task, command[w].at).task # "unborn"
      BY DEF TypeInv, WorkerTypes, CommandSet, Order
    <3> QED BY <2>1, <3>1, <3>2 DEF Outcomes
  <2> QED BY <2>2, <2>3
<1>4. Alive' \subseteq Alive
  BY <1>3 DEF Alive
<1>5. HomeKept'
  BY <1>1, <1>2, <1>4 DEF HomeInv, HomeKept, Asserted
<1>6. InReach'
  BY <1>1, <1>2, <1>4 DEF HomeInv, InReach
<1>7. NoHomeBeforeBirth'
  BY <1>1, <1>2, <1>3 DEF HomeInv, NoHomeBeforeBirth, Alive
<1>8. RichAreOurs'
  BY <1>1 DEF RichAreOurs
<1> QED BY <1>5, <1>6, <1>7, <1>8 DEF HomeInv

LEMMA NoBaseFalls == NoBase \notin Expansion
<1>1. \A n : NoBase \notin 1 .. n
  BY DEF NoBase
<1> QED BY <1>1, WorkersAssumption

(* No dead worker comes to life, and none is ever unborn.                   *)
NoRevival(w) == \/ doing'[w] = doing[w]
                \/ doing'[w].task # "unborn" /\ doing[w].task # "dead"

LEMMA TurnRevivesNone ==
    ASSUME DoingTypes, NEW w \in Worker, NEW order, Turn(w, order), order.task # "unborn",
           doing[w].task # "dead", NEW x \in Worker
    PROVE  NoRevival(x)
BY DEF DoingTypes, Turn, NoRevival

LEMMA GameRevivesNone ==
    ASSUME TypeInv, Game, NEW x \in Worker PROVE NoRevival(x)
<1>1. \A e : /\ Order("inside", e).task # "unborn" /\ Order("gas", e).task # "unborn"
             /\ Order("build", e).task # "unborn" /\ Order("dead", e).task # "unborn"
             /\ Idle.task # "unborn" /\ Minerals.task # "unborn"
  BY DEF Order, Idle, Minerals
<1>2. DoingTypes
  BY DEF TypeInv
<1>3. ASSUME NEW w \in Worker, Born(w) \/ Enter(w) \/ Leave(w) \/ Stall(w) \/ Kill(w)
      PROVE  NoRevival(x)
  <2>1. doing[w].task # "dead"
    BY <1>3 DEF Born, Enter, Leave, Stall, Kill, Visible, Alive
  <2>2. \/ Turn(w, Idle) \/ Turn(w, Minerals) \/ Turn(w, Order("inside", doing[w].at))
        \/ Turn(w, Order("gas", doing[w].at)) \/ Turn(w, Order("dead", NoBase))
    BY <1>3 DEF Born, Enter, Leave, Stall, Kill
  <2> QED BY <1>1, <1>2, <2>1, <2>2, TurnRevivesNone
<1>4. ASSUME NEW w \in Worker, Construct(w) PROVE NoRevival(x)
  <2>1. doing[w].task # "dead"
    BY <1>4 DEF Construct, Order
  <2>2. \/ \E e : Turn(w, Order("build", e))
        \/ Turn(w, Idle) \/ Turn(w, Order("gas", doing[w].at)) \/ UNCHANGED doing
    BY <1>4 DEF Construct
  <2> QED BY <1>1, <1>2, <2>1, <2>2, TurnRevivesNone DEF NoRevival
<1>5. ASSUME NEW e \in Expansion, RazeRefinery(e) PROVE NoRevival(x)
  <2> DEFINE there == {Order(t, e) : t \in {"gas", "inside", "refinery"}}
  <2>1. \A order \in there : order.task # "dead"
    BY DEF Order
  <2>2. doing'[x] = IF doing[x] \in there THEN Idle ELSE doing[x]
    BY <1>5 DEF RazeRefinery
  <2> HIDE DEF there
  <2>3. doing'[x] = doing[x] \/ (doing'[x] = Idle /\ doing[x].task # "dead")
    <3>1. CASE doing[x] \in there
      BY <2>1, <2>2, <3>1
    <3>2. CASE doing[x] \notin there
      BY <2>2, <3>2
    <3> QED BY <3>1, <3>2
  <2> QED BY <1>1, <2>3 DEF NoRevival
<1>6. ASSUME NEW e \in Expansion, RazeHall(e) \/ Exhaust(e) PROVE NoRevival(x)
  BY <1>6 DEF RazeHall, Exhaust, NoRevival
<1> QED BY <1>3, <1>4, <1>5, <1>6 DEF Game

LEMMA GameHomes == ASSUME TypeInv, HomeInv, ~Stranding, Game PROVE HomeInv'
<1>1. UNCHANGED botVars
  BY DEF Game, Born, Enter, Leave, Stall, Construct, Kill, RazeHall, RazeRefinery, Exhaust
<1>2. UNCHANGED <<home, ours, rich, phase>> /\ Listed' = Listed
  BY <1>1 DEF botVars, hubVars, Listed
<1>3. \A w \in Worker : NoRevival(w)
  BY GameRevivesNone
<1>4. \A w \in Alive' : w \in Alive \/ home[w] = NoBase
  BY <1>3 DEF NoRevival, Alive, HomeInv, NoHomeBeforeBirth
<1>5. fallen' = fallen \/ \E e \in Expansion :
         /\ fallen' = fallen \cup {e}
         /\ \A w \in Alive : home[w] = e => w \in Listed
  BY DEF Game, Born, Enter, Leave, Stall, Construct, Kill, RazeHall, RazeRefinery, Exhaust
<1>6. HomeKept'
  BY <1>2, <1>4 DEF HomeInv, HomeKept, Asserted
<1>7. InReach'
  BY <1>2, <1>4, <1>5, NoBaseFalls DEF HomeInv, InReach, TypeInv, MapTypes
<1>8. NoHomeBeforeBirth' /\ RichAreOurs'
  BY <1>2, <1>3 DEF NoRevival, HomeInv, NoHomeBeforeBirth, RichAreOurs
<1> QED BY <1>6, <1>7, <1>8 DEF HomeInv

LEMMA StutterHomes == ASSUME HomeInv, UNCHANGED vars PROVE HomeInv'
BY DEF vars, gameVars, hubVars, HomeInv, HomeKept, InReach, NoHomeBeforeBirth, RichAreOurs,
       Alive, Listed, Asserted

LEMMA InitHomes == ASSUME Init PROVE HomeInv
<1>1. Idle.task = "idle" /\ Order("unborn", NoBase).task = "unborn"
  BY DEF Idle, Order
<1>2. \A w \in Worker : /\ home[w] = NoBase
                        /\ doing[w].task = "unborn" => w \notin StartWorkers
  BY <1>1 DEF Init
<1>3. HomeKept /\ NoHomeBeforeBirth
  BY <1>2 DEF Init, HomeKept, NoHomeBeforeBirth, Asserted, Alive, Listed
<1>4. InReach /\ RichAreOurs
  BY DEF Init, InReach, RichAreOurs
<1> QED BY <1>3, <1>4 DEF HomeInv

(* The inductive invariant of the homes: whoever calls a fallen base its    *)
(* home is in reach of Miner::OnUnitDestroyed, unless it was out of sight.  *)
THEOREM HomeInvariance == ASSUME ~Stranding PROVE Spec => []HomeInv
<1>1. Init => HomeInv
  BY InitHomes
<1>2. TypeInv /\ TypeInv' /\ HomeInv /\ [Next]_vars => HomeInv'
  <2> SUFFICES ASSUME TypeInv, TypeInv', HomeInv, [Next]_vars PROVE HomeInv'
    OBVIOUS
  <2>1. CASE Send
    BY <2>1, SendHomes
  <2>2. CASE Game
    BY <2>2, GameHomes
  <2>3. CASE \E e \in Expansion : HallDestroyed(e)
    BY <2>3, HallDestroyedHomes
  <2>4. CASE Announce
    BY <2>4, AnnounceHomes
  <2>5. CASE MineIdle \/ Balance \/ WatchBank \/ SecureVespeneIncome \/ Builder
    BY <2>5, BotHomes
  <2>6. CASE UNCHANGED vars
    BY <2>6, StutterHomes
  <2> QED BY <2>1, <2>2, <2>3, <2>4, <2>5, <2>6 DEF Next, Bot
<1> QED BY <1>1, <1>2, TypeInvariance, PTL DEF Spec

(* The assertion of Worker::Mine, for every listed worker, as long as no    *)
(* base falls while a worker of it is out of sight.                         *)
THEOREM HomesStand == ASSUME ~Stranding PROVE Spec => []HomeStands
<1>1. HomeInv => HomeStands
  BY DEF HomeInv, HomeKept, HomeStands
<1> QED BY <1>1, HomeInvariance, PTL

(***************************************************************************)
(* Orders.  An idle worker keeps no job as a harvester of vespene unless   *)
(* it has been told so in this very step.                                  *)
(***************************************************************************)
ToldSince == \A w \in Worker : seen[w] = "idle" /\ job[w] = "vespene"
                               => phase \in BotSteps /\ command[w].task = "gas"
CopiesAgree == phase \in BotSteps => \A w \in Listed : doing[w] = Idle => seen[w] = "idle"
OrderInv == ToldSince /\ CopiesAgree

(* Mine and GatherVespene record the job of whomever they command.          *)
LEMMA MineRecords ==
    ASSUME TypeInv, OrderInv, NEW ws, Mine(ws), UNCHANGED seen, phase' \in BotSteps
    PROVE  ToldSince'
<1>1. PICK sent : command' = Commands(sent, Minerals) /\ job' = Jobs(sent, "minerals")
  BY DEF Mine
<1> QED BY <1>1 DEF Commands, Jobs, TypeInv, WorkerTypes, OrderInv, ToldSince

LEMMA BotOrders ==
    ASSUME TypeInv, OrderInv,
           MineIdle \/ Balance \/ WatchBank \/ SecureVespeneIncome \/ Builder
    PROVE  OrderInv'
<1>1. UNCHANGED <<doing, seen>> /\ phase \in BotSteps /\ phase' \in BotSteps
  BY DEF MineIdle, Balance, WatchBank, SecureVespeneIncome, Builder, gameVars, BotSteps
<1>2. CopiesAgree'
  BY <1>1 DEF OrderInv, CopiesAgree, Listed
<1>3. ASSUME UNCHANGED <<job, command>> PROVE ToldSince'
  BY <1>1, <1>3 DEF OrderInv, ToldSince
<1>4. ASSUME NEW ws, Mine(ws) PROVE ToldSince'
  BY <1>1, <1>4, MineRecords
<1>5. ASSUME NEW ws, \A w \in ws : job[w] = "minerals", UNCHANGED job,
             command' = Commands(ws, Minerals)
      PROVE  ToldSince'
  BY <1>1, <1>5 DEF OrderInv, ToldSince, Commands, TypeInv, WorkerTypes
<1>6. ASSUME NEW w, NEW e, GatherVespene(w, e) PROVE ToldSince'
  <2>1. Order("gas", e).task = "gas"
    BY DEF Order
  <2> QED BY <1>1, <1>6, <2>1
          DEF GatherVespene, Commands, Jobs, OrderInv, ToldSince, TypeInv, WorkerTypes
<1>7. ASSUME NEW w, NEW e, Build(w) \/ BuildRefinery(w, e) PROVE ToldSince'
  BY <1>1, <1>7
  DEF Build, BuildRefinery, Commands, Jobs, OrderInv, ToldSince, TypeInv, WorkerTypes
<1>8. ToldSince'
  <2>1. CASE MineIdle
    BY <1>4, <2>1 DEF MineIdle
  <2>2. CASE Balance
    BY <1>3, <1>5, <2>2 DEF Balance, BalanceWorkers, Miners
  <2>3. CASE WatchBank
    BY <1>3, <1>4, <2>3 DEF WatchBank
  <2>4. CASE SecureVespeneIncome
    BY <1>3, <1>4, <1>6, <2>4 DEF SecureVespeneIncome, SecureVespene
  <2>5. CASE Builder
    BY <1>3, <1>7, <2>5 DEF Builder
  <2> QED BY <2>1, <2>2, <2>3, <2>4, <2>5
<1> QED BY <1>2, <1>8 DEF OrderInv

LEMMA HallDestroyedOrders ==
    ASSUME TypeInv, OrderInv, NEW e \in Expansion, HallDestroyed(e) PROVE OrderInv'
<1>1. /\ UNCHANGED seen /\ phase \notin BotSteps /\ phase' \notin BotSteps
  BY DEF HallDestroyed, BotSteps
<1>2. \A w \in Worker : job'[w] = "vespene" => job[w] = "vespene"
  <2>1. CASE ClearWorkersHomeBase(e)
    BY <2>1 DEF ClearWorkersHomeBase
  <2>2. CASE SplitWorkersOff(e)
    <3>1. \E sent : job' = Jobs(sent, "minerals")
      BY <2>2 DEF SplitWorkersOff
    <3> QED BY <3>1 DEF Jobs
  <2> QED BY <2>1, <2>2 DEF HallDestroyed
<1> QED BY <1>1, <1>2 DEF OrderInv, ToldSince, CopiesAgree

LEMMA AnnounceOrders == ASSUME TypeInv, OrderInv, Announce PROVE OrderInv'
<1>1. /\ phase \notin BotSteps /\ UNCHANGED doing
      /\ job' = [w \in Worker |-> IF TurnedIdle(w) /\ job[w] \in JobsEndedByIdling
                                    THEN "nothing" ELSE job[w]]
      /\ seen' = [w \in Worker |-> IF w \notin Visible THEN "no"
                                   ELSE IF doing[w] = Idle THEN "idle" ELSE "busy"]
  BY DEF Announce, gameVars, BotSteps
<1>2. ASSUME NEW w \in Worker, seen'[w] = "idle" PROVE job'[w] # "vespene"
  <2>1. w \in Visible /\ doing[w] = Idle
    BY <1>1, <1>2
  <2>2. CASE seen[w] = "idle"
    BY <1>1, <2>2 DEF OrderInv, ToldSince
  <2>3. CASE seen[w] # "idle"
    BY <1>1, <2>1, <2>3 DEF TurnedIdle, JobsEndedByIdling
  <2> QED BY <2>2, <2>3
<1>3. CopiesAgree'
  BY <1>1 DEF CopiesAgree, Listed
<1> QED BY <1>2, <1>3 DEF OrderInv, ToldSince

LEMMA SendOrders == ASSUME TypeInv, OrderInv, Send PROVE OrderInv'
<1>1. /\ UNCHANGED job /\ phase' \notin BotSteps
      /\ seen' = [w \in Worker |-> IF seen[w] = "idle" /\ command[w] # NoOrder
                                   THEN "told" ELSE seen[w]]
  BY DEF Send, BotSteps
<1>2. NoOrder.task # "gas"
  BY DEF NoOrder, Order
<1>3. ASSUME NEW w \in Worker, seen'[w] = "idle" PROVE job'[w] # "vespene"
  BY <1>1, <1>2, <1>3 DEF OrderInv, ToldSince
<1> QED BY <1>1, <1>3 DEF OrderInv, ToldSince, CopiesAgree

LEMMA GameOrders == ASSUME OrderInv, Game PROVE OrderInv'
<1>1. UNCHANGED <<job, seen, command, phase>> /\ phase \notin BotSteps
  BY DEF Game, Born, Enter, Leave, Stall, Construct, Kill, RazeHall, RazeRefinery, Exhaust,
         botVars, BotSteps
<1> QED BY <1>1 DEF OrderInv, ToldSince, CopiesAgree

(* The inductive invariant of the gas workers: an idle one keeps its job    *)
(* only if told to gather in this very step.                                *)
THEOREM OrderInvariance == Spec => []OrderInv
<1>1. Init => OrderInv
  <2> SUFFICES ASSUME Init PROVE OrderInv
    OBVIOUS
  <2>1. ToldSince
    BY DEF Init, ToldSince
  <2>2. CopiesAgree
    BY DEF Init, CopiesAgree, Listed
  <2> QED BY <2>1, <2>2 DEF OrderInv
<1>2. TypeInv /\ OrderInv /\ [Next]_vars => OrderInv'
  <2> SUFFICES ASSUME TypeInv, OrderInv, [Next]_vars PROVE OrderInv'
    OBVIOUS
  <2>1. CASE UNCHANGED vars
    BY <2>1 DEF vars, gameVars, OrderInv, ToldSince, CopiesAgree, Listed
  <2> QED BY <2>1, SendOrders, GameOrders, HallDestroyedOrders, AnnounceOrders, BotOrders
          DEF Next, Bot
<1> QED BY <1>1, <1>2, TypeInvariance, PTL DEF Spec

(* SecureVespeneIncome never reads the first order of a worker that has     *)
(* none: of those it lists, every one is at work.                           *)
THEOREM GasWorkersAtWork == Spec => []GasWorkersHaveOrders
<1>1. OrderInv => GasWorkersHaveOrders
  BY DEF OrderInv, ToldSince, CopiesAgree, GasWorkersHaveOrders, GasWorkers, Job, Listed,
         BotSteps
<1> QED BY <1>1, OrderInvariance, PTL

(***************************************************************************)
(* Idle hands.  An idle worker that has been told nothing has no job, or   *)
(* has built a refinery; and once MineIdle is through, it has no job only  *)
(* where there is nowhere to mine.                                         *)
(***************************************************************************)
Resting(w) == seen[w] = "idle" /\ command[w] = NoOrder
NowhereToMine(w) == rich = {} /\ home[w] = NoBase
BeforeMine == {"game", "destroyed", "mine"}

RestBefore ==
    phase \in BeforeMine =>
       \A w \in Worker : seen[w] = "idle" => job[w] \in {"nothing", "building_refinery"}
RestAfter ==
    phase \notin BeforeMine =>
       \A w \in Worker : Resting(w) => \/ job[w] = "building_refinery"
                                       \/ job[w] = "nothing" /\ NowhereToMine(w)
RestInv == RestBefore /\ RestAfter

LEMMA RealOrders ==
    /\ Minerals # NoOrder
    /\ \A e : /\ Order("gas", e) # NoOrder /\ Order("build", e) # NoOrder
             /\ Order("refinery", e) # NoOrder
<1>1. \A t, e : Order(t, e).task = t
  BY DEF Order
<1>2. NoOrder.task = "none" /\ Minerals.task = "mine"
  BY <1>1 DEF NoOrder, Minerals
<1> QED BY <1>1, <1>2

(* A later step of the bot leaves alone whomever it does not command.       *)
LEMMA LeftAlone ==
    ASSUME RestInv, UNCHANGED <<seen, rich>>, phase \notin BeforeMine, phase' \notin BeforeMine,
           \A w \in Worker : command'[w] = NoOrder /\ job[w] \in {"nothing", "building_refinery"}
                   => command[w] = NoOrder /\ job'[w] = job[w] /\ home'[w] = home[w],
           \A w \in Worker : command'[w] = NoOrder => command[w] = NoOrder
    PROVE  RestInv'
BY DEF RestInv, RestBefore, RestAfter, Resting, NowhereToMine

LEMMA MineLeavesAlone ==
    ASSUME TypeInv, NEW ws, Mine(ws), NEW w \in Worker, command'[w] = NoOrder
    PROVE  /\ command[w] = NoOrder /\ job'[w] = job[w]
           /\ IF w \in ws THEN home'[w] = NoBase /\ home'[w] \in MineBases(home[w])
                          ELSE home'[w] = home[w]
<1> DEFINE sent == {x \in ws : home'[x] # NoBase}
<1>1. /\ command' = Commands(sent, Minerals) /\ job' = Jobs(sent, "minerals")
      /\ home'[w] \in IF w \in ws THEN MineBases(home[w]) ELSE {home[w]}
  BY DEF Mine
<1>2. w \in sent <=> w \in ws /\ home'[w] # NoBase
  OBVIOUS
<1> HIDE DEF sent
<1>3. w \notin sent
  BY <1>1, RealOrders DEF Commands
<1> QED BY <1>1, <1>2, <1>3 DEF Commands, Jobs, TypeInv, WorkerTypes

LEMMA MineIdleRests == ASSUME TypeInv, RestInv, MineIdle PROVE RestInv'
<1>1. /\ UNCHANGED <<seen, rich>> /\ phase = "mine" /\ phase' = "balance"
      /\ Mine(Job({"nothing"}))
  BY DEF MineIdle, hubVars
<1>2. ASSUME NEW w \in Worker, seen[w] = "idle", command'[w] = NoOrder
      PROVE  \/ job'[w] = "building_refinery"
             \/ job'[w] = "nothing" /\ rich = {} /\ home'[w] = NoBase
  <2>1. job'[w] = job[w] /\ job[w] \in {"nothing", "building_refinery"}
    BY <1>1, <1>2, MineLeavesAlone DEF RestInv, RestBefore, BeforeMine
  <2>2. CASE job[w] = "nothing"
    <3>1. w \in Job({"nothing"})
      BY <1>2, <2>2 DEF Job, Listed
    <3>2. home'[w] = NoBase /\ home'[w] \in MineBases(home[w])
      BY <1>1, <1>2, <3>1, MineLeavesAlone
    <3>3. rich = {}
      BY <3>2, NoBaseFalls DEF MineBases, TypeInv, HubTypes
    <3> QED BY <2>1, <2>2, <3>2, <3>3
  <2> QED BY <2>1, <2>2
<1> QED BY <1>1, <1>2 DEF RestInv, RestBefore, RestAfter, Resting, NowhereToMine, BeforeMine

LEMMA LaterRests ==
    ASSUME TypeInv, RestInv, Balance \/ WatchBank \/ SecureVespeneIncome \/ Builder
    PROVE  RestInv'
<1>1. UNCHANGED <<seen, rich>> /\ phase \notin BeforeMine /\ phase' \notin BeforeMine
  BY DEF Balance, WatchBank, SecureVespeneIncome, Builder, hubVars, BeforeMine
<1> DEFINE Alone == \A w \in Worker : command'[w] = NoOrder =>
              /\ command[w] = NoOrder
              /\ job[w] \in {"nothing", "building_refinery"}
                    => job'[w] = job[w] /\ home'[w] = home[w]
<1>2. ASSUME UNCHANGED <<job, home, command>> PROVE Alone
  BY <1>2
<1>3. ASSUME NEW ws, Mine(ws), \A w \in ws : job[w] = "vespene" PROVE Alone
  BY <1>3, MineLeavesAlone
<1>4. ASSUME BalanceWorkers PROVE Alone
  <2>1. PICK top \in rich, bottom \in rich : \E ws \in SUBSET Miners(top) :
            /\ home' = [w \in Worker |-> IF w \in ws THEN bottom ELSE home[w]]
            /\ command' = Commands(ws, Minerals)
    BY <1>4 DEF BalanceWorkers
  <2>2. UNCHANGED job
    BY <1>4 DEF BalanceWorkers
  <2> QED BY <2>1, <2>2, RealOrders DEF Commands
<1>5. ASSUME NEW w, NEW e, GatherVespene(w, e) PROVE Alone
  BY <1>5, RealOrders DEF GatherVespene, Commands, Jobs, TypeInv, WorkerTypes
<1>6. ASSUME NEW w, NEW e, Build(w) \/ BuildRefinery(w, e), UNCHANGED home PROVE Alone
  BY <1>6, RealOrders DEF Build, BuildRefinery, Commands, Jobs, TypeInv, WorkerTypes
<1>7. Alone
  <2>1. CASE Balance
    BY <1>2, <1>4, <2>1 DEF Balance
  <2>2. CASE WatchBank
    BY <1>2, <1>3, <2>2 DEF WatchBank, Job
  <2>3. CASE SecureVespeneIncome
    BY <1>2, <1>3, <1>5, <2>3 DEF SecureVespeneIncome, SecureVespene, GasWorkers, Job
  <2>4. CASE Builder
    BY <1>2, <1>6, <2>4 DEF Builder
  <2> QED BY <2>1, <2>2, <2>3, <2>4
<1> QED BY <1>1, <1>7, LeftAlone

LEMMA EventsRest ==
    ASSUME TypeInv, RestInv, (\E e \in Expansion : HallDestroyed(e)) \/ Announce \/ Send \/ Game
    PROVE  RestInv'
<1>1. CASE \E e \in Expansion : HallDestroyed(e)
  <2>1. PICK e \in Expansion : HallDestroyed(e)
    BY <1>1
  <2>2. UNCHANGED seen /\ phase \in BeforeMine /\ phase' \in BeforeMine
    BY <2>1 DEF HallDestroyed, BeforeMine
  <2>3. \A w \in Worker : job'[w] # job[w] => job[w] \in {"minerals", "vespene"}
    <3>1. CASE ClearWorkersHomeBase(e)
      BY <3>1 DEF ClearWorkersHomeBase
    <3>2. CASE SplitWorkersOff(e)
      BY <3>2 DEF SplitWorkersOff, Jobs, TypeInv, WorkerTypes
    <3> QED BY <2>1, <3>1, <3>2 DEF HallDestroyed
  <2> QED BY <2>2, <2>3 DEF RestInv, RestBefore, RestAfter
<1>2. CASE Announce
  <2>1. /\ phase \in BeforeMine /\ phase' \in BeforeMine /\ UNCHANGED doing
        /\ job' = [w \in Worker |-> IF TurnedIdle(w) /\ job[w] \in JobsEndedByIdling
                                      THEN "nothing" ELSE job[w]]
        /\ seen' = [w \in Worker |-> IF w \notin Visible THEN "no"
                                     ELSE IF doing[w] = Idle THEN "idle" ELSE "busy"]
    BY <1>2 DEF Announce, gameVars, BeforeMine
  <2>2. ASSUME NEW w \in Worker, seen'[w] = "idle"
        PROVE  job'[w] \in {"nothing", "building_refinery"}
    <3>1. w \in Visible /\ doing[w] = Idle /\ job[w] \in JobSet
      BY <2>1, <2>2 DEF TypeInv, WorkerTypes
    <3>2. CASE seen[w] = "idle"
      BY <2>1, <3>2 DEF RestInv, RestBefore
    <3>3. CASE seen[w] # "idle"
      BY <2>1, <3>1, <3>3 DEF TurnedIdle, JobsEndedByIdling, JobSet
    <3> QED BY <3>2, <3>3
  <2> QED BY <2>1, <2>2 DEF RestInv, RestBefore, RestAfter
<1>3. CASE Send
  <2>1. /\ UNCHANGED job /\ phase \notin BeforeMine /\ phase' \in BeforeMine
        /\ seen' = [w \in Worker |-> IF seen[w] = "idle" /\ command[w] # NoOrder
                                     THEN "told" ELSE seen[w]]
    BY <1>3 DEF Send, BeforeMine
  <2> QED BY <2>1 DEF RestInv, RestBefore, RestAfter, Resting
<1>4. CASE Game
  <2>1. UNCHANGED <<job, seen, phase>> /\ phase \in BeforeMine
    BY <1>4 DEF Game, Born, Enter, Leave, Stall, Construct, Kill, RazeHall, RazeRefinery,
                Exhaust, botVars, BeforeMine
  <2> QED BY <2>1 DEF RestInv, RestBefore, RestAfter
<1> QED BY <1>1, <1>2, <1>3, <1>4

(* The inductive invariant of the idle: once Miner::OnUnitIdle is through,  *)
(* only who has nowhere to mine or has built a refinery is left idle.       *)
THEOREM RestInvariance == Spec => []RestInv
<1>1. Init => RestInv
  BY DEF Init, RestInv, RestBefore, RestAfter, BeforeMine
<1>2. TypeInv /\ RestInv /\ [Next]_vars => RestInv'
  <2> SUFFICES ASSUME TypeInv, RestInv, [Next]_vars PROVE RestInv'
    OBVIOUS
  <2>1. CASE UNCHANGED vars
    BY <2>1 DEF vars, hubVars, RestInv, RestBefore, RestAfter, Resting, NowhereToMine
  <2> QED BY <2>1, EventsRest, MineIdleRests, LaterRests DEF Next, Bot
<1> QED BY <1>1, <1>2, TypeInvariance, PTL DEF Spec

(* No step ends with a worker in sight left idle that could mine.           *)
THEOREM HandsBusy == Spec => []NoIdleHand
<1>1. OrderInv /\ RestInv => NoIdleHand
  BY DEF OrderInv, CopiesAgree, RestInv, RestAfter, Resting, NowhereToMine, BeforeMine,
         NoIdleHand, Listed, BotSteps
<1> QED BY <1>1, OrderInvariance, RestInvariance, PTL

(***************************************************************************)
(* Jobs.  What a living worker does fits its job, and what it has been     *)
(* told fits it better.  A worker may idle whatever its job: that is what  *)
(* the event is for.  Nobody out of sight is told anything, since what it  *)
(* has not heard could not be taken back.                                  *)
(***************************************************************************)
Fits(task, j) ==
    /\ task = "mine" => j \in {"minerals", "nothing"}
    /\ task \in {"gas", "inside"} => j \in {"vespene", "building_refinery"}
    /\ task = "build" => j = "building"
    /\ task = "refinery" => j = "building_refinery"

Fitting(w) ==
    IF command[w] = NoOrder
      THEN Fits(doing[w].task, job[w])
      ELSE Fits(command[w].task, job[w]) /\ doing[w].task # "inside"

AtWork == \A w \in Alive : Fitting(w)
NewbornsFree ==
    \A w \in Worker : doing[w].task = "unborn" => job[w] = "nothing" /\ command[w] = NoOrder
InSight == phase \in BotSteps => \A w \in Listed : w \in Visible
PendingSoFar ==
    \A w \in Worker : /\ phase = "game" => command[w] = NoOrder
                      /\ phase = "destroyed" => command[w] \in {NoOrder, Minerals}
NoneStranded == \A w \in Alive : home[w] \in fallen => doing[w].task # "inside"
IdlersAlike == \A w \in Worker : doing[w].task = "idle" => doing[w] = Idle

JobInv == AtWork /\ NewbornsFree /\ InSight /\ PendingSoFar /\ NoneStranded /\ IdlersAlike

LEMMA TasksOfOrders ==
    /\ \A t, e : Order(t, e).task = t
    /\ Minerals.task = "mine" /\ Idle.task = "idle" /\ NoOrder.task = "none"
BY DEF Order, Minerals, Idle, NoOrder

(* A step of the bot tells only workers in sight what to do, and records it.*)
ToldAndRecorded ==
    \A w \in Worker :
       \/ command'[w] = command[w] /\ job'[w] = job[w]
       \/ /\ w \in Listed /\ command'[w] # NoOrder
          /\ Fits(command'[w].task, job'[w])

LEMMA MineTells ==
    ASSUME TypeInv, NEW ws, ws \subseteq Listed, Mine(ws) PROVE ToldAndRecorded
<1>1. PICK sent : /\ command' = Commands(sent, Minerals) /\ job' = Jobs(sent, "minerals")
                  /\ sent \subseteq ws
  BY DEF Mine
<1> QED BY <1>1, RealOrders, TasksOfOrders
        DEF ToldAndRecorded, Commands, Jobs, Fits, TypeInv, WorkerTypes

LEMMA BotTells ==
    ASSUME TypeInv, MineIdle \/ Balance \/ WatchBank \/ SecureVespeneIncome \/ Builder
    PROVE  ToldAndRecorded
<1>1. \A jobs : Job(jobs) \subseteq Listed
  BY DEF Job
<1>2. ASSUME UNCHANGED <<job, command>> PROVE ToldAndRecorded
  BY <1>2 DEF ToldAndRecorded
<1>3. ASSUME BalanceWorkers PROVE ToldAndRecorded
  <2>1. PICK top \in rich : \E ws \in SUBSET Miners(top) : command' = Commands(ws, Minerals)
    BY <1>3 DEF BalanceWorkers
  <2>2. UNCHANGED job
    BY <1>3 DEF BalanceWorkers
  <2>3. \A w \in Miners(top) : w \in Listed /\ job[w] = "minerals"
    BY DEF Miners, BasedAt
  <2> QED BY <2>1, <2>2, <2>3, RealOrders, TasksOfOrders
          DEF ToldAndRecorded, Commands, Fits, TypeInv, WorkerTypes
<1>4. ASSUME NEW w \in Listed, NEW e, GatherVespene(w, e) PROVE ToldAndRecorded
  BY <1>4, RealOrders, TasksOfOrders
  DEF ToldAndRecorded, GatherVespene, Commands, Jobs, Fits, TypeInv, WorkerTypes
<1>5. ASSUME NEW w \in Listed, Build(w) PROVE ToldAndRecorded
  BY <1>5, RealOrders, TasksOfOrders
  DEF ToldAndRecorded, Build, Commands, Jobs, Fits, TypeInv, WorkerTypes
<1>6. ASSUME NEW w \in Listed, NEW e, BuildRefinery(w, e) PROVE ToldAndRecorded
  BY <1>6, RealOrders, TasksOfOrders
  DEF ToldAndRecorded, BuildRefinery, Commands, Jobs, Fits, TypeInv, WorkerTypes
<1>7. CASE MineIdle
  BY <1>1, <1>7, MineTells DEF MineIdle
<1>8. CASE Balance
  BY <1>2, <1>3, <1>8 DEF Balance
<1>9. CASE WatchBank
  BY <1>1, <1>2, <1>9, MineTells DEF WatchBank
<1>10. CASE SecureVespeneIncome
  <2>1. CASE \E w \in GasWorkers : Mine({w})
    BY <1>1, <2>1, MineTells DEF GasWorkers
  <2>2. CASE \E w \in Free : GatherVespene(w, cursor)
    BY <1>1, <1>4, <2>2 DEF Free
  <2> QED BY <1>2, <1>10, <2>1, <2>2 DEF SecureVespeneIncome, SecureVespene
<1>11. CASE Builder
  <2>1. \/ UNCHANGED <<job, command>>
        \/ \E w \in Listed : Build(w) \/ \E e : BuildRefinery(w, e)
    BY <1>1, <1>11 DEF Builder, Free
  <2> QED BY <1>2, <1>5, <1>6, <2>1
<1> QED BY <1>7, <1>8, <1>9, <1>10, <1>11

LEMMA BotJobs ==
    ASSUME TypeInv, HomeInv, HomeInv', JobInv,
           MineIdle \/ Balance \/ WatchBank \/ SecureVespeneIncome \/ Builder
    PROVE  JobInv'
<1>1. UNCHANGED <<doing, seen, fallen>> /\ phase \in BotSteps /\ phase' \in BotSteps
  BY DEF MineIdle, Balance, WatchBank, SecureVespeneIncome, Builder, gameVars, BotSteps
<1>2. Alive' = Alive /\ Visible' = Visible /\ Listed' = Listed /\ Alive \subseteq Worker
  BY <1>1 DEF Alive, Visible, Listed
<1>3. ToldAndRecorded
  BY BotTells
<1>4. \A w \in Listed : w \in Alive /\ doing[w].task # "inside"
  BY <1>1 DEF JobInv, InSight, Visible
<1>5. AtWork'
  <2> SUFFICES ASSUME NEW w \in Alive PROVE Fitting(w)'
    BY <1>2 DEF AtWork
  <2> QED BY <1>1, <1>2, <1>3, <1>4 DEF ToldAndRecorded, JobInv, AtWork, Fitting
<1>6. NewbornsFree'
  BY <1>1, <1>3, <1>4 DEF ToldAndRecorded, JobInv, NewbornsFree, Alive
<1>7. InSight' /\ IdlersAlike'
  BY <1>1, <1>2 DEF JobInv, InSight, IdlersAlike
<1>8. PendingSoFar'
  BY <1>1 DEF PendingSoFar, BotSteps
<1>9. NoneStranded'
  <2> SUFFICES ASSUME NEW w \in Alive, home'[w] \in fallen PROVE doing[w].task # "inside"
    BY <1>1, <1>2 DEF NoneStranded
  <2>1. w \in Listed
    BY <1>1, <1>2 DEF HomeInv, InReach
  <2> QED BY <1>4, <2>1
<1> QED BY <1>5, <1>6, <1>7, <1>8, <1>9 DEF JobInv
LEMMA HallDestroyedJobs ==
    ASSUME TypeInv, HomeInv, JobInv, NEW e \in Expansion, HallDestroyed(e)
    PROVE  JobInv'
<1>1. /\ UNCHANGED <<doing, seen>> /\ fallen' = fallen \ {e} /\ e \in fallen
      /\ phase \in {"game", "destroyed"} /\ phase' = "destroyed"
  BY DEF HallDestroyed
<1>2. Alive' = Alive /\ Alive \subseteq Worker
  BY <1>1 DEF Alive
<1>3. \A w \in Worker :
         /\ \/ command'[w] = command[w] /\ job'[w] = job[w]
            \/ /\ w \in BasedAt(e) /\ job[w] \in {"minerals", "vespene"}
               /\ command'[w] = Minerals /\ job'[w] = "minerals"
         /\ home'[w] = home[w] \/ home[w] = e
  <2>1. CASE ClearWorkersHomeBase(e)
    BY <2>1 DEF ClearWorkersHomeBase, BasedAt
  <2>2. CASE SplitWorkersOff(e)
    <3>1. PICK f \in RoundRobin(BasedAt(e), ActiveBut(e)) :
             home' = [x \in Worker |-> IF x \in BasedAt(e) THEN f[x] ELSE home[x]]
      BY <2>2 DEF SplitWorkersOff
    <3>2. \A w \in Worker : home'[w] = home[w] \/ home[w] = e
      BY <3>1 DEF BasedAt
    <3>3. \A w \in Worker :
            \/ command'[w] = command[w] /\ job'[w] = job[w]
            \/ /\ w \in BasedAt(e) /\ job[w] \in {"minerals", "vespene"}
               /\ command'[w] = Minerals /\ job'[w] = "minerals"
      BY <2>2 DEF SplitWorkersOff, Commands, Jobs, TypeInv, WorkerTypes
    <3> QED BY <3>2, <3>3
  <2> QED BY <2>1, <2>2 DEF HallDestroyed
<1>4. \A w \in Alive : w \in BasedAt(e) => doing[w].task # "inside"
  BY <1>1 DEF JobInv, NoneStranded, BasedAt
<1>5. AtWork'
  <2> SUFFICES ASSUME NEW w \in Alive PROVE Fitting(w)'
    BY <1>2 DEF AtWork
  <2>1. Fitting(w) /\ w \in Worker
    BY <1>2 DEF JobInv, AtWork
  <2>2. CASE command'[w] = command[w] /\ job'[w] = job[w]
    BY <1>1, <2>1, <2>2 DEF Fitting
  <2>3. CASE w \in BasedAt(e) /\ command'[w] = Minerals /\ job'[w] = "minerals"
    BY <1>1, <1>4, <2>3, RealOrders, TasksOfOrders DEF Fitting, Fits
  <2> QED BY <1>3, <2>1, <2>2, <2>3
<1>6. NewbornsFree'
  BY <1>1, <1>3 DEF JobInv, NewbornsFree
<1>7. InSight' /\ IdlersAlike'
  BY <1>1 DEF JobInv, InSight, IdlersAlike, BotSteps
<1>8. PendingSoFar'
  BY <1>1, <1>3 DEF JobInv, PendingSoFar
<1>9. NoneStranded'
  <2> SUFFICES ASSUME NEW w \in Alive, home'[w] \in fallen \ {e} PROVE doing[w].task # "inside"
    BY <1>1, <1>2 DEF NoneStranded
  <2>1. CASE home[w] = e
    BY <1>1, <2>1 DEF JobInv, NoneStranded
  <2>2. CASE home[w] # e
    BY <1>2, <1>3, <2>2 DEF JobInv, NoneStranded
  <2> QED BY <2>1, <2>2
<1> QED BY <1>5, <1>6, <1>7, <1>8, <1>9 DEF JobInv

LEMMA AnnounceJobs == ASSUME TypeInv, JobInv, Announce PROVE JobInv'
<1>1. /\ UNCHANGED <<doing, home, command, fallen>> /\ fallen = {}
      /\ phase \in {"game", "destroyed"} /\ phase' = "mine"
  BY DEF Announce, gameVars
<1>2. Alive' = Alive /\ Visible' = Visible /\ Alive \subseteq Worker
  BY <1>1 DEF Alive, Visible
<1>3. \A w \in Worker : \/ job'[w] = job[w]
                        \/ doing[w] = Idle /\ job'[w] = "nothing"
  BY DEF Announce, TurnedIdle
<1>4. \A w \in Worker : command[w] \in {NoOrder, Minerals}
  BY <1>1 DEF JobInv, PendingSoFar
<1>5. AtWork'
  <2> SUFFICES ASSUME NEW w \in Alive PROVE Fitting(w)'
    BY <1>2 DEF AtWork
  <2>1. Fitting(w) /\ w \in Worker
    BY <1>2 DEF JobInv, AtWork
  <2>2. CASE job'[w] = job[w]
    BY <1>1, <2>1, <2>2 DEF Fitting
  <2>3. CASE doing[w] = Idle /\ job'[w] = "nothing"
    BY <1>1, <1>4, <2>1, <2>3, RealOrders, TasksOfOrders DEF Fitting, Fits
  <2> QED BY <1>3, <2>1, <2>2, <2>3
<1>6. NewbornsFree'
  BY <1>1, <1>3 DEF JobInv, NewbornsFree
<1>7. InSight'
  <2>1. Listed' \subseteq Visible
    BY DEF Announce, Listed
  <2> QED BY <1>2, <2>1 DEF InSight
<1>8. IdlersAlike' /\ NoneStranded'
  BY <1>1, <1>2 DEF JobInv, IdlersAlike, NoneStranded
<1>9. PendingSoFar'
  BY <1>1 DEF PendingSoFar
<1> QED BY <1>5, <1>6, <1>7, <1>8, <1>9 DEF JobInv

LEMMA SendJobs == ASSUME TypeInv, JobInv, Send PROVE JobInv'
<1>1. /\ UNCHANGED <<job, home, fallen>> /\ phase' = "game"
      /\ command' = [w \in Worker |-> NoOrder]
  BY DEF Send
<1>2. ASSUME NEW w \in Alive
      PROVE  /\ Fits(doing'[w].task, job[w])
             /\ doing'[w].task = "inside" => doing[w].task = "inside"
             /\ doing'[w].task = "idle" => doing'[w] = Idle
             /\ doing'[w].task # "unborn"
  <2>1. /\ doing'[w] \in Outcomes(w) /\ Fitting(w) /\ w \in Worker
        /\ doing[w].task # "unborn" /\ (doing[w].task = "idle" => doing[w] = Idle)
    BY DEF Send, JobInv, AtWork, IdlersAlike, Alive
  <2>2. CASE command[w] = NoOrder
    BY <2>1, <2>2 DEF Outcomes, Fitting
  <2>3. CASE command[w] # NoOrder
    <3>1. command[w].task \in {"mine", "gas", "build", "refinery"}
      BY <2>1, <2>3 DEF TypeInv, WorkerTypes, CommandSet
    <3>2. doing'[w] \in {Order(command[w].task, command[w].at), Idle}
      BY <2>1, <2>3 DEF Outcomes, Fitting
    <3> QED BY <2>1, <2>3, <3>1, <3>2, TasksOfOrders DEF Fitting, Fits
  <2> QED BY <2>2, <2>3
<1>3. \A w \in Worker : w \notin Alive => doing'[w] = doing[w]
  BY DEF Send, Outcomes
<1>4. Alive' \subseteq Alive /\ Alive \subseteq Worker
  BY <1>3 DEF Alive
<1>5. AtWork' /\ PendingSoFar'
  BY <1>1, <1>2, <1>4 DEF AtWork, Fitting, PendingSoFar
<1>6. NewbornsFree' /\ IdlersAlike'
  BY <1>1, <1>2, <1>3 DEF JobInv, NewbornsFree, IdlersAlike
<1>7. InSight'
  BY <1>1 DEF InSight, BotSteps
<1>8. NoneStranded'
  BY <1>1, <1>2, <1>4 DEF JobInv, NoneStranded
<1> QED BY <1>5, <1>6, <1>7, <1>8 DEF JobInv

(* What the game may make of a worker's order.                              *)
Allowed(w) ==
    \/ doing'[w] = doing[w]
    \/ doing'[w].task = "dead"
    \/ /\ Fits(doing[w].task, job[w]) => Fits(doing'[w].task, job[w])
       /\ doing[w].task = "unborn" => doing'[w].task \in {"idle", "mine"}
       /\ doing'[w].task # "unborn"
       /\ doing'[w].task = "idle" => doing'[w] = Idle
       /\ doing'[w].task = "inside" => home[w] \notin fallen

LEMMA TurnAllows ==
    ASSUME TypeInv, NEW w \in Worker, NEW order, Turn(w, order)
    PROVE  /\ doing'[w] = order
           /\ \A x \in Worker : x # w => Allowed(x)
BY DEF Turn, TypeInv, DoingTypes, Allowed
LEMMA GameAllows ==
    ASSUME TypeInv, JobInv, ~Stranding, Game, NEW w \in Worker PROVE Allowed(w)
<1>1. ASSUME NEW x \in Worker, Born(x) PROVE Allowed(w)
  <2>1. PICK order \in {Idle, Minerals} : Turn(x, order) /\ doing[x].task = "unborn"
    BY <1>1 DEF Born
  <2>2. x = w => Allowed(w)
    <3>1. x = w => /\ doing'[w] = order /\ doing[w].task = "unborn"
                   /\ job[w] = "nothing"
      BY <2>1, TurnAllows DEF JobInv, NewbornsFree
    <3> QED BY <2>1, <3>1, TasksOfOrders DEF Allowed, Fits
  <2> QED BY <2>1, <2>2, TurnAllows
<1>2. ASSUME NEW x \in Worker, Enter(x) PROVE Allowed(w)
  <2>1. /\ Turn(x, Order("inside", doing[x].at)) /\ doing[x].task = "gas"
        /\ home[x] \notin fallen
    BY <1>2 DEF Enter
  <2>2. x = w => Allowed(w)
    <3>1. x = w => doing'[w].task = "inside"
      BY <2>1, TurnAllows, TasksOfOrders
    <3> QED BY <2>1, <3>1 DEF Allowed, Fits
  <2> QED BY <2>1, <2>2, TurnAllows
<1>3. ASSUME NEW x \in Worker, Leave(x) PROVE Allowed(w)
  <2>1. Turn(x, Order("gas", doing[x].at)) /\ doing[x].task = "inside"
    BY <1>3 DEF Leave
  <2>2. x = w => Allowed(w)
    <3>1. x = w => doing'[w].task = "gas"
      BY <2>1, TurnAllows, TasksOfOrders
    <3> QED BY <2>1, <3>1 DEF Allowed, Fits
  <2> QED BY <2>1, <2>2, TurnAllows
<1>4. ASSUME NEW x \in Worker, doing[x].task # "unborn", Turn(x, Idle) PROVE Allowed(w)
  <2>1. x = w => Allowed(w)
    BY <1>4, TurnAllows, TasksOfOrders DEF Allowed, Fits
  <2> QED BY <1>4, <2>1, TurnAllows
<1>5. ASSUME NEW x \in Worker, Stall(x) PROVE Allowed(w)
  BY <1>4, <1>5 DEF Stall
<1>6. ASSUME NEW x \in Worker, Construct(x) PROVE Allowed(w)
  <2>1. CASE \E e \in Expansion : doing[x] = Order("build", NoBase) /\ Turn(x, Order("build", e))
    <3>1. PICK e \in Expansion : doing[x] = Order("build", NoBase) /\ Turn(x, Order("build", e))
      BY <2>1
    <3>2. x = w => doing'[w].task = "build" /\ doing[w].task = "build"
      BY <3>1, TurnAllows, TasksOfOrders
    <3> QED BY <3>1, <3>2, TurnAllows DEF Allowed
  <2>2. CASE doing[x].task = "build" /\ Turn(x, Idle)
    BY <1>4, <2>2
  <2>3. CASE doing[x].task = "refinery" /\ Turn(x, Order("gas", doing[x].at))
    <3>1. x = w => doing'[w].task = "gas" /\ doing[w].task = "refinery"
      BY <2>3, TurnAllows, TasksOfOrders
    <3> QED BY <2>3, <3>1, TurnAllows DEF Allowed, Fits
  <2>4. CASE UNCHANGED doing
    BY <2>4 DEF Allowed
  <2> QED BY <1>6, <2>1, <2>2, <2>3, <2>4 DEF Construct
<1>7. ASSUME NEW x \in Worker, Kill(x) PROVE Allowed(w)
  <2>1. Turn(x, Order("dead", NoBase))
    BY <1>7 DEF Kill
  <2>2. x = w => doing'[w].task = "dead"
    BY <2>1, TurnAllows, TasksOfOrders
  <2> QED BY <2>1, <2>2, TurnAllows DEF Allowed
<1>8. ASSUME NEW e \in Expansion, RazeHall(e) \/ Exhaust(e) PROVE Allowed(w)
  BY <1>8 DEF RazeHall, Exhaust, Allowed
<1>9. ASSUME NEW e \in Expansion, RazeRefinery(e) PROVE Allowed(w)
  <2>1. doing'[w] = IF doing[w] \in {Order(t, e) : t \in {"gas", "inside", "refinery"}}
                      THEN Idle ELSE doing[w]
    BY <1>9 DEF RazeRefinery
  <2>2. CASE doing[w] \in {Order(t, e) : t \in {"gas", "inside", "refinery"}}
    <3>1. doing[w].task # "unborn" /\ doing'[w] = Idle
      BY <2>1, <2>2, TasksOfOrders
    <3> QED BY <3>1, TasksOfOrders DEF Allowed, Fits
  <2> QED BY <2>1, <2>2 DEF Allowed
<1> QED BY <1>1, <1>2, <1>3, <1>5, <1>6, <1>7, <1>8, <1>9 DEF Game

LEMMA GameJobs == ASSUME TypeInv, HomeInv, JobInv, ~Stranding, Game PROVE JobInv'
<1>1. UNCHANGED botVars /\ phase = "game"
  BY DEF Game, Born, Enter, Leave, Stall, Construct, Kill, RazeHall, RazeRefinery, Exhaust
<1>2. UNCHANGED <<home, job, command, phase>>
  BY <1>1 DEF botVars
<1>3. \A w \in Worker : Allowed(w)
  BY GameAllows
<1>4. \A w \in Worker : command[w] = NoOrder
  BY <1>1 DEF JobInv, PendingSoFar
<1>5. Alive \subseteq Worker /\ Alive' \subseteq Worker
  BY DEF Alive
<1>6. ASSUME NEW w \in Alive' PROVE Fits(doing'[w].task, job[w])
  <2>1. w \in Worker /\ doing'[w].task # "dead"
    BY <1>5 DEF Alive
  <2>2. Allowed(w)
    BY <1>3, <2>1
  <2>3. CASE w \in Alive
    <3>1. Fits(doing[w].task, job[w])
      BY <1>4, <2>1, <2>3 DEF JobInv, AtWork, Fitting
    <3> QED BY <2>1, <2>2, <3>1 DEF Allowed
  <2>4. CASE w \notin Alive
    <3>1. doing[w].task \in {"unborn", "dead"}
      BY <2>1, <2>4 DEF Alive
    <3>2. Fits(doing[w].task, job[w])
      BY <3>1 DEF Fits
    <3> QED BY <2>1, <2>2, <3>1, <3>2 DEF Allowed
  <2> QED BY <2>3, <2>4
<1>7. AtWork' /\ PendingSoFar'
  BY <1>2, <1>4, <1>5, <1>6 DEF AtWork, Fitting, PendingSoFar
<1>8. NewbornsFree'
  <2> SUFFICES ASSUME NEW w \in Worker, doing'[w].task = "unborn" PROVE job[w] = "nothing"
    BY <1>2, <1>4 DEF NewbornsFree
  <2>1. doing[w].task = "unborn"
    BY <1>3 DEF Allowed
  <2> QED BY <2>1 DEF JobInv, NewbornsFree
<1>9. IdlersAlike'
  <2> SUFFICES ASSUME NEW w \in Worker, doing'[w].task = "idle" PROVE doing'[w] = Idle
    BY DEF IdlersAlike
  <2> QED BY <1>3 DEF Allowed, JobInv, IdlersAlike
<1>10. InSight'
  BY <1>1, <1>2 DEF InSight, BotSteps
<1>11. NoneStranded'
  <2> SUFFICES ASSUME NEW w \in Alive', home[w] \in fallen', doing'[w].task = "inside"
               PROVE  FALSE
    BY <1>2 DEF NoneStranded
  <2>1. CASE UNCHANGED fallen
    <3>1. doing'[w] = doing[w]
      BY <1>3, <1>5, <2>1 DEF Allowed
    <3> QED BY <2>1, <3>1 DEF JobInv, NoneStranded, Alive
  <2>2. CASE \E e \in Expansion : RazeHall(e)
    <3>1. PICK e \in Expansion : RazeHall(e)
      BY <2>2
    <3>2. /\ UNCHANGED doing /\ fallen' = fallen \cup {e}
          /\ \A x \in Alive : home[x] = e => doing[x].task # "inside"
      BY <3>1 DEF RazeHall
    <3>3. w \in Alive
      BY <3>2 DEF Alive
    <3> QED BY <3>2, <3>3 DEF JobInv, NoneStranded
  <2> QED BY <2>1, <2>2
          DEF Game, Born, Enter, Leave, Stall, Construct, Kill, RazeRefinery, Exhaust
<1> QED BY <1>7, <1>8, <1>9, <1>10, <1>11 DEF JobInv

LEMMA StutterJobs == ASSUME JobInv, UNCHANGED vars PROVE JobInv'
<1>1. /\ UNCHANGED <<doing, job, home, command, phase, seen, fallen>>
  BY DEF vars, gameVars, hubVars
<1>2. Alive' = Alive /\ Visible' = Visible /\ Listed' = Listed
  BY <1>1 DEF Alive, Visible, Listed
<1> QED BY <1>1, <1>2 DEF JobInv, AtWork, Fitting, NewbornsFree, InSight, PendingSoFar,
                        NoneStranded, IdlersAlike

LEMMA InitJobs == ASSUME Init PROVE JobInv
<1>1. \A w \in Worker :
         /\ doing[w] = IF w \in StartWorkers THEN Idle ELSE Order("unborn", NoBase)
         /\ job[w] = "nothing" /\ command[w] = NoOrder
         /\ seen[w] = IF w \in StartWorkers THEN "idle" ELSE "no"
  BY DEF Init
<1>2. \A w \in Worker : doing[w].task = IF w \in StartWorkers THEN "idle" ELSE "unborn"
  BY <1>1, TasksOfOrders
<1>3. AtWork /\ NewbornsFree
  BY <1>1, <1>2 DEF AtWork, Alive, Fitting, Fits, NewbornsFree
<1>4. InSight /\ NoneStranded /\ IdlersAlike
  BY <1>1, <1>2 DEF InSight, NoneStranded, IdlersAlike, Listed, Visible, Alive
<1>5. PendingSoFar
  BY DEF Init, PendingSoFar
<1> QED BY <1>3, <1>4, <1>5 DEF JobInv

(* The inductive invariant of the jobs: what a worker does fits its job,    *)
(* and what it has been told fits better.                                   *)
THEOREM JobInvariance == ASSUME ~Stranding PROVE Spec => []JobInv
<1>1. Init => JobInv
  BY InitJobs
<1>2. TypeInv /\ HomeInv /\ HomeInv' /\ JobInv /\ [Next]_vars => JobInv'
  <2> SUFFICES ASSUME TypeInv, HomeInv, HomeInv', JobInv, [Next]_vars PROVE JobInv'
    OBVIOUS
  <2>1. CASE \E e \in Expansion : HallDestroyed(e)
    BY <2>1, HallDestroyedJobs
  <2>2. CASE MineIdle \/ Balance \/ WatchBank \/ SecureVespeneIncome \/ Builder
    BY <2>2, BotJobs
  <2> QED BY <2>1, <2>2, AnnounceJobs, SendJobs, GameJobs, StutterJobs DEF Next, Bot
<1> QED BY <1>1, <1>2, TypeInvariance, HomeInvariance, PTL DEF Spec

(* When a step ends, the job of every worker in sight is what it does or    *)
(* has been told to do, as long as no base falls while a worker of it is    *)
(* out of sight.                                                            *)
THEOREM JobsAgree == ASSUME ~Stranding PROVE Spec => []JobsMatch
<1>1. TypeInv /\ OrderInv /\ RestInv /\ JobInv => JobsMatch
  <2> SUFFICES ASSUME TypeInv, OrderInv, RestInv, JobInv, phase = "send",
                      NEW w \in Listed \cap Alive
               PROVE  LET task == (IF command[w] = NoOrder THEN doing[w] ELSE command[w]).task
                      IN  CASE task = "mine" -> job[w] \in {"minerals", "nothing"}
                            [] task = "gas" -> job[w] \in {"vespene", "building_refinery"}
                            [] task = "build" -> job[w] = "building"
                            [] task = "refinery" -> job[w] = "building_refinery"
                            [] task = "idle" -> job[w] \in {"nothing", "building_refinery"}
    BY DEF JobsMatch
  <2>1. Fitting(w) /\ w \in Worker /\ doing[w].task # "inside"
    BY DEF JobInv, AtWork, InSight, BotSteps, Visible, Alive
  <2>2. CASE command[w] # NoOrder
    <3>1. command[w].task \in {"mine", "gas", "build", "refinery"}
      BY <2>1, <2>2 DEF TypeInv, WorkerTypes, CommandSet
    <3>2. Fits(command[w].task, job[w])
      BY <2>1, <2>2 DEF Fitting
    <3> QED BY <2>2, <3>1, <3>2 DEF Fits
  <2>3. CASE command[w] = NoOrder
    <3>1. doing[w].task \in {"idle", "mine", "gas", "build", "refinery"}
      BY <2>1 DEF TypeInv, DoingTypes, DoingSet, Tasks, Alive
    <3>2. doing[w].task = "idle" => job[w] \in {"nothing", "building_refinery"}
      BY <2>1, <2>3 DEF JobInv, IdlersAlike, OrderInv, CopiesAgree, BotSteps, RestInv,
                        RestAfter, BeforeMine, Resting
    <3>3. Fits(doing[w].task, job[w])
      BY <2>1, <2>3 DEF Fitting
    <3> QED BY <2>3, <3>1, <3>2, <3>3 DEF Fits
  <2> QED BY <2>2, <2>3
<1> QED BY <1>1, TypeInvariance, OrderInvariance, RestInvariance, JobInvariance, PTL

(***************************************************************************)
(* Refineries.  Whoever gathers at a refinery, in or out of sight, counts  *)
(* together with whoever has just been told to: SecureVespeneIncome looks  *)
(* at each refinery once a step, before anyone it sends there has moved.   *)
(* Nobody works at one that does not stand.                                *)
(***************************************************************************)
Sent(e) == {w \in Worker : command[w] = Order("gas", e)}
Crew(e) == Assigned(e) \cup Sent(e)
Unbuilt(e) == rig[e] \in {"none", "site"}
CrewFits(e) ==
    /\ IsFiniteSet(Crew(e)) /\ Cardinality(Crew(e)) <= GasIdeal
    /\ Unbuilt(e) => Crew(e) = {}
SentSoFar ==
    \A w \in Worker : command[w].task = "gas" =>
       /\ phase \in {"vespene", "build", "send"}
       /\ phase = "vespene" => command[w].at < cursor
CrewInv == SentSoFar /\ \A e \in Expansion : CrewFits(e)

LEMMA PlacesOfOrders == \A t, e : Order(t, e).task = t /\ Order(t, e).at = e
BY DEF Order

LEMMA FewerCrew ==
    ASSUME NEW e \in Expansion, CrewFits(e), Crew(e)' \subseteq Crew(e),
           Unbuilt(e)' => Unbuilt(e) \/ Crew(e)' = {}
    PROVE  CrewFits(e)'
<1>1. IsFiniteSet(Crew(e)) /\ Cardinality(Crew(e)) <= GasIdeal
  BY DEF CrewFits
<1>2. IsFiniteSet(Crew(e)') /\ Cardinality(Crew(e)') <= Cardinality(Crew(e))
  BY <1>1, FS_Subset
<1>3. /\ Cardinality(Crew(e)) \in Nat /\ Cardinality(Crew(e)') \in Nat /\ GasIdeal \in Nat
  BY <1>1, <1>2, FS_CardinalityType, WorkersAssumption
<1> QED BY <1>1, <1>2, <1>3 DEF CrewFits

LEMMA TurnCrew ==
    ASSUME DoingTypes, NEW w \in Worker, NEW order, Turn(w, order), NEW e
    PROVE  /\ Assigned(e)' \subseteq Assigned(e) \cup {w}
           /\ order.task \notin {"gas", "inside"} \/ order.at # e
              => Assigned(e)' \subseteq Assigned(e)
<1>1. /\ doing'[w] = order
      /\ \A x \in Worker : x # w => doing'[x] = doing[x]
  BY DEF Turn, DoingTypes
<1> QED BY <1>1 DEF Assigned, Alive

LEMMA GameCrew ==
    ASSUME TypeInv, SentSoFar, Game, NEW e \in Expansion, CrewFits(e)
    PROVE  CrewFits(e)'
<1>1. UNCHANGED botVars /\ phase = "game"
  BY DEF Game, Born, Enter, Leave, Stall, Construct, Kill, RazeHall, RazeRefinery, Exhaust
<1>2. UNCHANGED command /\ Sent(e) = {} /\ Sent(e)' = {}
  BY <1>1, PlacesOfOrders DEF botVars, SentSoFar, Sent
<1>3. Crew(e) = Assigned(e) /\ Crew(e)' = Assigned(e)'
  BY <1>2 DEF Crew
<1>4. ASSUME Assigned(e)' \subseteq Assigned(e),
             Unbuilt(e)' => Unbuilt(e) \/ Assigned(e)' = {}
      PROVE  CrewFits(e)'
  BY <1>3, <1>4, FewerCrew
<1>5. ASSUME NEW w \in Worker, NEW order, Turn(w, order), UNCHANGED rig,
             order.task \notin {"gas", "inside"} \/ order.at # e \/ w \in Assigned(e)
      PROVE  CrewFits(e)'
  <2>1. Assigned(e)' \subseteq Assigned(e)
    BY <1>5, TurnCrew DEF TypeInv
  <2> QED BY <1>4, <1>5, <2>1 DEF Unbuilt
<1>6. ASSUME NEW w \in Worker, Born(w) \/ Stall(w) \/ Kill(w) PROVE CrewFits(e)'
  <2>1. PICK order \in {Idle, Minerals, Order("dead", NoBase)} : Turn(w, order)
    BY <1>6 DEF Born, Stall, Kill
  <2>2. order.task \notin {"gas", "inside"} /\ UNCHANGED rig
    BY <1>6, <2>1, TasksOfOrders DEF Born, Stall, Kill
  <2> QED BY <1>5, <2>1, <2>2
<1>7. ASSUME NEW w \in Worker, Enter(w) \/ Leave(w) PROVE CrewFits(e)'
  <2>1. PICK task \in {"gas", "inside"} : Turn(w, Order(task, doing[w].at))
    BY <1>7 DEF Enter, Leave
  <2>2. doing[w].at = e => w \in Assigned(e)
    BY <1>7 DEF Enter, Leave, Assigned, Alive
  <2>3. UNCHANGED rig
    BY <1>7 DEF Enter, Leave
  <2> QED BY <1>5, <2>1, <2>2, <2>3, PlacesOfOrders
<1>8. ASSUME NEW w \in Worker, Construct(w) PROVE CrewFits(e)'
  <2>1. CASE UNCHANGED rig /\ \E x : Turn(w, Order("build", x))
    BY <1>5, <2>1, PlacesOfOrders
  <2>2. CASE UNCHANGED rig /\ Turn(w, Idle)
    BY <1>5, <2>2, TasksOfOrders
  <2>3. CASE /\ rig[doing[w].at] = "none" /\ UNCHANGED doing
             /\ rig' = [rig EXCEPT ![doing[w].at] = "site"]
    <3>1. Assigned(e)' = Assigned(e) /\ (Unbuilt(e)' => Unbuilt(e))
      BY <2>3 DEF Assigned, Alive, Unbuilt, TypeInv, MapTypes
    <3> QED BY <1>4, <3>1
  <2>4. CASE /\ rig[doing[w].at] = "site"
             /\ rig' = [rig EXCEPT ![doing[w].at] = "rig"]
             /\ Turn(w, Order("gas", doing[w].at))
    <3>1. CASE doing[w].at = e
      <4>1. Assigned(e) = {} /\ ~Unbuilt(e)'
        BY <1>3, <2>4, <3>1 DEF CrewFits, Unbuilt, TypeInv, MapTypes
      <4>2. Assigned(e)' \subseteq {w}
        BY <2>4, <4>1, TurnCrew DEF TypeInv
      <4>3. IsFiniteSet({w}) /\ Cardinality({w}) = 1 /\ GasIdeal >= 1
        <5>1. IsFiniteSet({w}) /\ Cardinality({w}) = 1
          BY FS_Singleton
        <5>2. GasIdeal >= 1
          BY WorkersAssumption
        <5> QED BY <5>1, <5>2
      <4>4. IsFiniteSet(Assigned(e)') /\ Cardinality(Assigned(e)') <= 1
        BY <4>2, <4>3, FS_Subset
      <4>5. Cardinality(Assigned(e)') \in Nat /\ GasIdeal \in Nat
        BY <4>4, FS_CardinalityType, WorkersAssumption
      <4> QED BY <1>3, <4>1, <4>3, <4>4, <4>5 DEF CrewFits
    <3>2. CASE doing[w].at # e
      <4>1. Assigned(e)' \subseteq Assigned(e)
        BY <2>4, <3>2, TurnCrew, PlacesOfOrders DEF TypeInv
      <4>2. rig'[e] = rig[e]
        BY <2>4, <3>2 DEF TypeInv, MapTypes
      <4> QED BY <1>4, <4>1, <4>2 DEF Unbuilt
    <3> QED BY <3>1, <3>2
  <2> QED BY <1>8, <2>1, <2>2, <2>3, <2>4 DEF Construct
<1>9. ASSUME NEW x \in Expansion, RazeRefinery(x) PROVE CrewFits(e)'
  <2>1. \A w \in Worker : \/ doing'[w] = doing[w] /\ doing[w] # Order("gas", x)
                                                  /\ doing[w] # Order("inside", x)
                          \/ doing'[w] = Idle
    BY <1>9 DEF RazeRefinery
  <2>2. Assigned(e)' \subseteq Assigned(e)
    BY <2>1, TasksOfOrders DEF Assigned, Alive
  <2>3. CASE x = e
    <3>1. Assigned(e)' = {}
      <4> SUFFICES ASSUME NEW w \in Worker, w \in Assigned(e)' PROVE FALSE
        BY DEF Assigned, Alive
      <4>1. doing'[w].task \in {"gas", "inside"} /\ doing'[w].at = e
        BY DEF Assigned
      <4>2. doing'[w] = doing[w] /\ doing[w] \in DoingSet
        BY <2>1, <4>1, TasksOfOrders DEF TypeInv, DoingTypes
      <4>3. doing[w] = Order("gas", e) \/ doing[w] = Order("inside", e)
        BY <4>1, <4>2 DEF DoingSet, Order
      <4> QED BY <2>1, <2>3, <4>1, <4>2, <4>3, TasksOfOrders
    <3> QED BY <1>4, <2>2, <3>1
  <2>4. CASE x # e
    <3>1. rig'[e] = rig[e]
      BY <1>9, <2>4 DEF RazeRefinery, TypeInv, MapTypes
    <3> QED BY <1>4, <2>2, <3>1 DEF Unbuilt
  <2> QED BY <2>3, <2>4
<1>10. ASSUME NEW x \in Expansion, RazeHall(x) \/ Exhaust(x) PROVE CrewFits(e)'
  <2>1. UNCHANGED doing /\ (rig'[e] = rig[e] \/ rig'[e] = "dry")
    BY <1>10 DEF RazeHall, Exhaust, TypeInv, MapTypes
  <2>2. Assigned(e)' = Assigned(e)
    BY <2>1 DEF Assigned, Alive
  <2> QED BY <1>4, <2>1, <2>2 DEF Unbuilt
<1> QED BY <1>6, <1>7, <1>8, <1>9, <1>10 DEF Game

LEMMA SendCrew ==
    ASSUME TypeInv, Send, NEW e \in Expansion, CrewFits(e) PROVE CrewFits(e)'
<1>1. UNCHANGED rig /\ \A w \in Worker : command'[w] = NoOrder
  BY DEF Send
<1>2. Sent(e)' = {}
  BY <1>1, TasksOfOrders DEF Sent
<1>3. ASSUME NEW w \in Worker, w \in Assigned(e)' PROVE w \in Crew(e)
  <2>1. doing'[w] \in Outcomes(w)
    BY DEF Send
  <2>2. doing'[w].task \in {"gas", "inside"} /\ doing'[w].at = e
    BY <1>3 DEF Assigned
  <2>3. CASE doing'[w] = doing[w]
    BY <1>3, <2>3 DEF Crew, Assigned, Alive
  <2>4. CASE doing'[w] # doing[w]
    <3>1. /\ doing'[w] \in {Order(command[w].task, command[w].at), Idle}
          /\ command[w] # NoOrder
      BY <2>1, <2>4 DEF Outcomes
    <3>2. command[w].task \in {"gas", "inside"} /\ command[w].at = e
      BY <2>2, <3>1, TasksOfOrders, PlacesOfOrders
    <3>3. command[w] = Order("gas", e)
      BY <3>1, <3>2 DEF TypeInv, WorkerTypes, CommandSet, Order
    <3> QED BY <3>3 DEF Crew, Sent
  <2> QED BY <2>3, <2>4
<1>4. Crew(e)' \subseteq Crew(e)
  BY <1>2, <1>3 DEF Crew, Assigned, Alive
<1> QED BY <1>1, <1>4, FewerCrew DEF Unbuilt

(* Every step of the bot but the second half of SecureVespeneIncome leaves  *)
(* the refineries as they are or takes harvesters off them.                 *)
LEMMA BotCrew ==
    ASSUME TypeInv, SentSoFar, Bot, NEW e \in Expansion, CrewFits(e)
    PROVE  CrewFits(e)'
<1>1. UNCHANGED <<rig, doing>>
  BY DEF Bot, HallDestroyed, Announce, MineIdle, Balance, WatchBank, SecureVespeneIncome,
         Builder, gameVars
<1>2. Assigned(e)' = Assigned(e) /\ (Unbuilt(e)' <=> Unbuilt(e))
  BY <1>1 DEF Assigned, Alive, Unbuilt
<1>3. ASSUME Sent(e)' \subseteq Sent(e) PROVE CrewFits(e)'
  BY <1>2, <1>3, FewerCrew DEF Crew
<1>4. ASSUME NEW ws, NEW order, order.task # "gas", command' = Commands(ws, order)
      PROVE  CrewFits(e)'
  <2>1. Sent(e)' \subseteq Sent(e)
    BY <1>4, PlacesOfOrders DEF Sent, Commands
  <2> QED BY <1>3, <2>1
<1>5. ASSUME UNCHANGED command PROVE CrewFits(e)'
  BY <1>3, <1>5 DEF Sent
<1>6. ASSUME NEW ws, Mine(ws) PROVE CrewFits(e)'
  <2>1. \E sent : command' = Commands(sent, Minerals)
    BY <1>6 DEF Mine
  <2> QED BY <1>4, <2>1, TasksOfOrders
<1>7. CASE \E x \in Expansion : HallDestroyed(x)
  <2>1. UNCHANGED command \/ \E sent : command' = Commands(sent, Minerals)
    BY <1>7 DEF HallDestroyed, ClearWorkersHomeBase, SplitWorkersOff
  <2> QED BY <1>4, <1>5, <2>1, TasksOfOrders
<1>8. CASE Announce
  BY <1>5, <1>8 DEF Announce
<1>9. CASE MineIdle \/ WatchBank
  BY <1>5, <1>6, <1>9 DEF MineIdle, WatchBank
<1>10. CASE Balance
  <2>1. UNCHANGED command \/ \E sent : command' = Commands(sent, Minerals)
    BY <1>10 DEF Balance, BalanceWorkers
  <2> QED BY <1>4, <1>5, <2>1, TasksOfOrders
<1>11. CASE Builder
  <2>1. \/ UNCHANGED command
        \/ \E w : Build(w) \/ \E x : BuildRefinery(w, x)
    BY <1>11 DEF Builder
  <2>2. \/ UNCHANGED command
        \/ \E ws, order : order.task # "gas" /\ command' = Commands(ws, order)
    <3>1. CASE \E w : Build(w)
      <4>1. PICK w : command' = Commands({w}, Order("build", NoBase))
        BY <3>1 DEF Build
      <4> QED BY <4>1, PlacesOfOrders
    <3>2. CASE \E w, x : BuildRefinery(w, x)
      <4>1. PICK w, x : command' = Commands({w}, Order("refinery", x))
        BY <3>2 DEF BuildRefinery
      <4> QED BY <4>1, PlacesOfOrders
    <3> QED BY <2>1, <3>1, <3>2
  <2> QED BY <1>4, <1>5, <2>2
<1>12. CASE SecureVespeneIncome
  <2>1. CASE \E w : Mine({w})
    BY <1>6, <2>1
  <2>2. ASSUME TooFew(cursor), NEW w \in Free, GatherVespene(w, cursor) PROVE CrewFits(e)'
    <3>1. command' = Commands({w}, Order("gas", cursor)) /\ phase = "vespene"
      BY <1>12, <2>2 DEF GatherVespene, SecureVespeneIncome
    <3>2. CASE cursor # e
      <4>1. Sent(e)' \subseteq Sent(e)
        BY <3>1, <3>2, PlacesOfOrders DEF Sent, Commands
      <4> QED BY <1>3, <4>1
    <3>3. CASE cursor = e
      <4>1. e \in Nat
        BY ExpansionRange
      <4>2. Sent(e) = {}
        BY <3>1, <3>3, <4>1, PlacesOfOrders DEF SentSoFar, Sent
      <4>3. Sent(e)' \subseteq {w}
        BY <3>1, <4>2 DEF Sent, Commands
      <4>4. Crew(e) = Assigned(e) /\ Crew(e)' \subseteq Assigned(e) \cup {w}
        BY <1>2, <4>2, <4>3 DEF Crew
      <4>5. IsFiniteSet(Assigned(e)) /\ Cardinality(Assigned(e)) \in Nat
        BY <4>4, FS_CardinalityType DEF CrewFits
      <4>6. /\ Cardinality(Assigned(e)) < GasIdeal /\ ~Unbuilt(e)
        BY <2>2, <3>3, <4>5 DEF TooFew, IdealAt, Unbuilt
      <4>7. /\ IsFiniteSet(Assigned(e) \cup {w})
            /\ Cardinality(Assigned(e) \cup {w}) <= Cardinality(Assigned(e)) + 1
        <5>1. /\ IsFiniteSet(Assigned(e) \cup {w})
              /\ \/ Cardinality(Assigned(e) \cup {w}) = Cardinality(Assigned(e))
                 \/ Cardinality(Assigned(e) \cup {w}) = Cardinality(Assigned(e)) + 1
          BY <4>5, FS_AddElement, Zenon
        <5> QED BY <4>5, <5>1
      <4>8. /\ IsFiniteSet(Crew(e)')
            /\ Cardinality(Crew(e)') <= Cardinality(Assigned(e) \cup {w})
        BY <4>4, <4>7, FS_Subset
      <4>9. /\ Cardinality(Crew(e)') \in Nat /\ Cardinality(Assigned(e) \cup {w}) \in Nat
            /\ GasIdeal \in Nat
        BY <4>7, <4>8, FS_CardinalityType, WorkersAssumption
      <4>10. Cardinality(Crew(e)') <= GasIdeal
        BY <4>5, <4>6, <4>7, <4>8, <4>9
      <4> QED BY <1>2, <4>6, <4>8, <4>10 DEF CrewFits
    <3> QED BY <3>2, <3>3
  <2> QED BY <1>5, <1>12, <2>1, <2>2 DEF SecureVespeneIncome, SecureVespene
<1> QED BY <1>7, <1>8, <1>9, <1>10, <1>11, <1>12 DEF Bot

(* Only SecureVespeneIncome sends anyone to gather vespene.                 *)
LEMMA OnlyCursorSends ==
    ASSUME Bot, NEW w \in Worker, command'[w].task = "gas"
    PROVE  \/ command'[w] = command[w]
           \/ SecureVespeneIncome /\ command'[w] = Order("gas", cursor)
<1>1. ASSUME NEW ws, NEW order, command' = Commands(ws, order)
      PROVE  command'[w] = command[w] \/ command'[w] = order
  BY <1>1 DEF Commands
<1>2. ASSUME NEW ws, Mine(ws) PROVE command'[w] = command[w]
  BY <1>1, <1>2, TasksOfOrders DEF Mine
<1>3. CASE \E x \in Expansion : HallDestroyed(x)
  BY <1>1, <1>3, TasksOfOrders DEF HallDestroyed, ClearWorkersHomeBase, SplitWorkersOff
<1>4. CASE Announce \/ MineIdle \/ WatchBank
  BY <1>2, <1>4 DEF Announce, MineIdle, WatchBank
<1>5. CASE Balance
  BY <1>1, <1>5, TasksOfOrders DEF Balance, BalanceWorkers
<1>6. CASE Builder
  <2>1. CASE UNCHANGED command
    BY <2>1
  <2>2. CASE \E x : Build(x)
    BY <1>1, <2>2, PlacesOfOrders DEF Build
  <2>3. CASE \E x, e : BuildRefinery(x, e)
    <3>1. PICK x, e : command' = Commands({x}, Order("refinery", e))
      BY <2>3 DEF BuildRefinery
    <3> QED BY <1>1, <3>1, PlacesOfOrders
  <2> QED BY <1>6, <2>1, <2>2, <2>3 DEF Builder
<1>7. CASE SecureVespeneIncome
  BY <1>1, <1>2, <1>7 DEF SecureVespeneIncome, SecureVespene, GatherVespene
<1> QED BY <1>3, <1>4, <1>5, <1>6, <1>7 DEF Bot

LEMMA SentSoFarStep == ASSUME TypeInv, SentSoFar, [Next]_vars PROVE SentSoFar'
<1>1. CASE UNCHANGED vars
  BY <1>1 DEF vars, SentSoFar
<1>2. CASE Game
  <2>1. UNCHANGED botVars
    BY <1>2 DEF Game, Born, Enter, Leave, Stall, Construct, Kill, RazeHall, RazeRefinery,
                Exhaust
  <2> QED BY <2>1 DEF botVars, SentSoFar
<1>3. CASE Send
  BY <1>3, TasksOfOrders DEF Send, SentSoFar
<1>4. CASE Bot
  <2> SUFFICES ASSUME NEW w \in Worker, command'[w].task = "gas"
               PROVE  /\ phase' \in {"vespene", "build", "send"}
                      /\ phase' = "vespene" => command'[w].at < cursor'
    BY DEF SentSoFar
  <2>1. CASE SecureVespeneIncome
    <3>1. /\ phase = "vespene" /\ phase' \in {"vespene", "build"}
          /\ phase' = "vespene" => cursor' = cursor + 1
      BY <2>1 DEF SecureVespeneIncome, NextRefinery
    <3>2. command'[w].at < cursor \/ command'[w].at = cursor
      BY <1>4, <3>1, OnlyCursorSends, PlacesOfOrders DEF SentSoFar
    <3>3. cursor \in Nat /\ command'[w].at \in Nat
      <4>1. cursor \in Expansion /\ command[w] \in CommandSet
        BY DEF TypeInv, StepTypes, WorkerTypes
      <4>2. cursor \in Nat /\ NoBase \in Nat /\ \A e \in Place : e \in Nat
        BY <4>1, ExpansionRange DEF Place, NoBase
      <4> QED BY <1>4, <4>1, <4>2, OnlyCursorSends, PlacesOfOrders, TasksOfOrders
              DEF CommandSet
    <3> QED BY <3>1, <3>2, <3>3
  <2>2. CASE ~SecureVespeneIncome
    <3>1. phase \in {"vespene", "build", "send"} /\ command'[w] = command[w]
      BY <1>4, <2>2, OnlyCursorSends DEF SentSoFar
    <3>2. Builder
      BY <1>4, <2>2, <3>1 DEF Bot, HallDestroyed, Announce, MineIdle, Balance, WatchBank
    <3> QED BY <3>2 DEF Builder
  <2> QED BY <2>1, <2>2
<1> QED BY <1>1, <1>2, <1>3, <1>4 DEF Next

LEMMA InitCrew == Init => CrewInv
<1> SUFFICES ASSUME Init PROVE CrewInv
  OBVIOUS
<1>1. /\ \A w \in Worker : /\ doing[w] \in {Idle, Order("unborn", NoBase)}
                           /\ command[w] = NoOrder
  BY DEF Init
<1>2. ASSUME NEW e \in Expansion PROVE Crew(e) = {}
  BY <1>1, TasksOfOrders DEF Crew, Sent, Assigned, Alive
<1>3. SentSoFar
  BY <1>1, TasksOfOrders DEF SentSoFar
<1>4. Cardinality({}) <= GasIdeal /\ IsFiniteSet({})
  BY FS_EmptySet, WorkersAssumption
<1> QED BY <1>2, <1>3, <1>4 DEF CrewInv, CrewFits

(* The inductive invariant of the refineries: those working at one and      *)
(* those sent there in this step are never more than it has use for, and    *)
(* nobody is at one that does not stand, although those inside are in no    *)
(* list that SecureVespeneIncome takes workers from.                        *)
THEOREM CrewInvariance == Spec => []CrewInv
<1>1. TypeInv /\ CrewInv /\ [Next]_vars => CrewInv'
  <2> SUFFICES ASSUME TypeInv, CrewInv, [Next]_vars PROVE CrewInv'
    OBVIOUS
  <2>1. SentSoFar'
    BY SentSoFarStep DEF CrewInv
  <2>2. ASSUME NEW e \in Expansion PROVE CrewFits(e)'
    <3>1. CrewFits(e) /\ SentSoFar
      BY DEF CrewInv
    <3>2. CASE UNCHANGED vars
      <4>1. UNCHANGED <<rig, doing, command>>
        BY <3>2 DEF vars, gameVars
      <4> QED BY <3>1, <4>1 DEF CrewFits, Crew, Sent, Assigned, Alive, Unbuilt
    <3> QED BY <3>1, <3>2, GameCrew, SendCrew, BotCrew DEF Next
  <2> QED BY <2>1, <2>2 DEF CrewInv
<1> QED BY <1>1, InitCrew, TypeInvariance, PTL DEF Spec

(* However many steps a worker takes out of sight, whatever falls or runs   *)
(* dry, and however late a command is heard, SecureVespeneIncome never      *)
(* crowds a refinery.                                                       *)
THEOREM RefineriesCrewed == Spec => []GasCrewed
<1>1. CrewInv => GasCrewed
  <2> SUFFICES ASSUME CrewInv, NEW e \in Expansion PROVE Cardinality(Assigned(e)) <= GasIdeal
    BY DEF GasCrewed
  <2>1. IsFiniteSet(Crew(e)) /\ Cardinality(Crew(e)) <= GasIdeal
    BY DEF CrewInv, CrewFits
  <2>2. IsFiniteSet(Assigned(e)) /\ Cardinality(Assigned(e)) <= Cardinality(Crew(e))
    BY <2>1, FS_Subset DEF Crew
  <2>3. /\ Cardinality(Crew(e)) \in Nat /\ Cardinality(Assigned(e)) \in Nat /\ GasIdeal \in Nat
    BY <2>1, <2>2, FS_CardinalityType, WorkersAssumption
  <2> QED BY <2>1, <2>2, <2>3
<1> QED BY <1>1, CrewInvariance, PTL

(***************************************************************************)
(* Transfers.                                                              *)
(***************************************************************************)

LEMMA TransferArithmetic ==
    ASSUME NEW m \in Nat, NEW n \in Nat, NEW s \in Nat, NEW t \in Nat, NEW k \in Nat,
           s = IF m - MineralIdeal > 0 THEN m - MineralIdeal ELSE 0,
           t = IF n - MineralIdeal > 0 THEN n - MineralIdeal ELSE 0,
           s - t >= ReqImbalance, k = Transfer(s - t), k <= m
    PROVE  LET a == IF (m - k) - MineralIdeal > 0 THEN (m - k) - MineralIdeal ELSE 0
               b == IF (n + k) - MineralIdeal > 0 THEN (n + k) - MineralIdeal ELSE 0
           IN  a >= b - 1
<1>1. MineralIdeal \in Nat /\ ReqImbalance \in Nat \ {0}
  BY WorkersAssumption
<1>2. 2 * k <= (s - t) + 1
  BY DEF Transfer
<1>3. s = m - MineralIdeal /\ s - t >= 1
  BY <1>1
<1> QED BY <1>1, <1>2, <1>3

LEMMA BalanceTips ==
    ASSUME BalanceWorkers, UNCHANGED seen, TypeInv, NEW a \in rich, NEW b \in rich,
           Cardinality(Miners(a)') < Cardinality(Miners(a)),
           Cardinality(Miners(b)') > Cardinality(Miners(b))
    PROVE  Surplus(a)' >= Surplus(b)' - 1
<1>1. PICK top \in rich, bottom \in rich :
        /\ top # bottom /\ Surplus(top) - Surplus(bottom) >= ReqImbalance
        /\ \E ws \in SUBSET Miners(top) :
              /\ Cardinality(ws) = Transfer(Surplus(top) - Surplus(bottom))
              /\ home' = [w \in Worker |-> IF w \in ws THEN bottom ELSE home[w]]
  BY DEF BalanceWorkers
<1>2. PICK ws \in SUBSET Miners(top) :
              /\ Cardinality(ws) = Transfer(Surplus(top) - Surplus(bottom))
              /\ home' = [w \in Worker |-> IF w \in ws THEN bottom ELSE home[w]]
  BY <1>1
<1>3. \A e \in rich : Miners(e) \subseteq Worker
  BY DEF Miners, BasedAt, Listed
<1>4. ASSUME NEW e PROVE IsFiniteSet(Miners(e)) /\ Cardinality(Miners(e)) \in Nat
  <2>1. Miners(e) \subseteq Worker
    BY DEF Miners, BasedAt, Listed
  <2> QED BY <2>1, FS_Subset, FS_CardinalityType, WorkersAssumption
<1>5. UNCHANGED job /\ Listed' = Listed
  BY DEF BalanceWorkers, Listed
<1>6. /\ Miners(top)' = Miners(top) \ ws /\ Miners(bottom)' = Miners(bottom) \cup ws
      /\ \A e \in rich : e # top /\ e # bottom => Miners(e)' = Miners(e)
  BY <1>1, <1>2, <1>3, <1>5 DEF Miners, BasedAt, Listed
<1>7. ws \cap Miners(bottom) = {}
  BY <1>1, <1>2 DEF Miners, BasedAt
<1>8. /\ IsFiniteSet(ws) /\ Cardinality(ws) \in Nat
      /\ Cardinality(ws) <= Cardinality(Miners(top))
  BY <1>4, FS_Subset, FS_CardinalityType
<1>9. Cardinality(Miners(bottom)') = Cardinality(Miners(bottom)) + Cardinality(ws)
  <2>1. /\ IsFiniteSet(Miners(bottom)) /\ Cardinality(Miners(bottom)) \in Nat
        /\ Miners(bottom) \cap ws = {} /\ Cardinality({}) = 0
    BY <1>4, <1>7, FS_EmptySet
  <2>2. Cardinality(Miners(bottom) \cup ws) =
          Cardinality(Miners(bottom)) + Cardinality(ws) - Cardinality(Miners(bottom) \cap ws)
    BY <1>8, <2>1, FS_Union
  <2>3. Cardinality(Miners(bottom) \cap ws) = 0 /\ Miners(bottom)' = Miners(bottom) \cup ws
    BY <1>6, <2>1
  <2> QED BY <1>8, <2>1, <2>2, <2>3
<1>10. Cardinality(Miners(top)') = Cardinality(Miners(top)) - Cardinality(ws)
  <2>1. Miners(top) \cap ws = ws
    BY <1>2
  <2> QED BY <1>4, <1>6, <2>1, FS_Difference
<1>11. a = top /\ b = bottom
  <2>1. /\ Cardinality(Miners(a)) \in Nat /\ Cardinality(Miners(b)) \in Nat
        /\ Cardinality(Miners(top)) \in Nat /\ Cardinality(Miners(bottom)) \in Nat
    BY <1>4
  <2>2. a # bottom
    BY <1>8, <1>9, <2>1
  <2>3. b # top
    BY <1>8, <1>10, <2>1
  <2>4. a = top \/ Miners(a)' = Miners(a)
    BY <1>6, <2>2
  <2>5. b = bottom \/ Miners(b)' = Miners(b)
    BY <1>6, <2>3
  <2> QED BY <2>1, <2>4, <2>5
<1>12. Surplus(top) \in Nat /\ Surplus(bottom) \in Nat
  BY <1>4, WorkersAssumption DEF Surplus
<1> DEFINE m == Cardinality(Miners(top))
           n == Cardinality(Miners(bottom))
           k == Cardinality(ws)
<1>13. Surplus(top)' = IF (m - k) - MineralIdeal > 0 THEN (m - k) - MineralIdeal ELSE 0
  BY <1>10 DEF Surplus
<1>14. Surplus(bottom)' = IF (n + k) - MineralIdeal > 0 THEN (n + k) - MineralIdeal ELSE 0
  BY <1>9 DEF Surplus
<1>15. /\ Surplus(top) = IF m - MineralIdeal > 0 THEN m - MineralIdeal ELSE 0
       /\ Surplus(bottom) = IF n - MineralIdeal > 0 THEN n - MineralIdeal ELSE 0
  BY DEF Surplus
<1>16. m \in Nat /\ n \in Nat /\ k \in Nat /\ k <= m
  BY <1>4, <1>8
<1> HIDE DEF m, n, k
<1>17. k = Transfer(Surplus(top) - Surplus(bottom))
  BY <1>2 DEF k
<1>18. Surplus(top) - Surplus(bottom) >= ReqImbalance
  BY <1>1
<1> DEFINE s == Surplus(top)
           t == Surplus(bottom)
           c == IF (m - k) - MineralIdeal > 0 THEN (m - k) - MineralIdeal ELSE 0
           d == IF (n + k) - MineralIdeal > 0 THEN (n + k) - MineralIdeal ELSE 0
<1>19. /\ s \in Nat /\ t \in Nat /\ s - t >= ReqImbalance /\ k = Transfer(s - t)
       /\ s = IF m - MineralIdeal > 0 THEN m - MineralIdeal ELSE 0
       /\ t = IF n - MineralIdeal > 0 THEN n - MineralIdeal ELSE 0
  BY <1>12, <1>15, <1>17, <1>18
<1> HIDE DEF s, t
<1>20. c >= d - 1
  BY <1>16, <1>19, TransferArithmetic
<1>21. Surplus(a)' = c /\ Surplus(b)' = d
  BY <1>11, <1>13, <1>14
<1> HIDE DEF c, d
<1> QED BY <1>20, <1>21

(* BalanceWorkers never tips the scales, whatever the imbalance and the     *)
(* ideal number of harvesters.                                              *)
THEOREM TransfersNeverOvershoot == Spec => BalanceNeverOvershoots
<1> DEFINE Kept == phase = "balance" =>
                     \A a, b \in rich :
                        /\ Cardinality(Miners(a)') < Cardinality(Miners(a))
                        /\ Cardinality(Miners(b)') > Cardinality(Miners(b))
                        => Surplus(a)' >= Surplus(b)' - 1
<1>1. TypeInv /\ [Next]_vars => [Kept]_vars
  <2> SUFFICES ASSUME TypeInv, Next, phase = "balance", NEW a \in rich, NEW b \in rich,
                      Cardinality(Miners(a)') < Cardinality(Miners(a)),
                      Cardinality(Miners(b)') > Cardinality(Miners(b))
               PROVE  Surplus(a)' >= Surplus(b)' - 1
    OBVIOUS
  <2>1. Balance
    BY DEF Next, Game, Born, Enter, Leave, Stall, Construct, Kill, RazeHall, RazeRefinery,
           Exhaust, Bot, HallDestroyed, Announce, MineIdle, WatchBank, SecureVespeneIncome,
           Builder, Send
  <2>2. UNCHANGED seen
    BY <2>1 DEF Balance
  <2>3. CASE BalanceWorkers
    BY <2>2, <2>3, BalanceTips
  <2>4. CASE UNCHANGED <<job, home, command>>
    <3>1. Miners(a)' = Miners(a)
      BY <2>2, <2>4 DEF Miners, BasedAt, Listed
    <3>2. Cardinality(Miners(a)) \in Nat
      <4>1. Miners(a) \subseteq Worker
        BY DEF Miners, BasedAt, Listed
      <4> QED BY <4>1, FS_Subset, FS_CardinalityType, WorkersAssumption
    <3> QED BY <3>1, <3>2
  <2> QED BY <2>1, <2>3, <2>4 DEF Balance
<1> QED BY <1>1, TypeInvariance, PTL DEF Spec, BalanceNeverOvershoots
=============================================================================
