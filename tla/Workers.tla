------------------------------ MODULE Workers -------------------------------
(***************************************************************************)
(* What the SCVs do and what the bot believes they do: Worker              *)
(* (src/objects/Worker.cpp), the economy half of Miner                     *)
(* (src/plugins/Miner.cpp) and the expansions kept by Hub (src/Hub.cpp).   *)
(*                                                                         *)
(* A step of the bot: the town halls that fell are handled one by one, the *)
(* other events follow, then Miner::OnStep and one construction of the     *)
(* Builder.  Commands act when the step ends.  A worker inside a refinery  *)
(* is in no list of units, so no handler reaches it.                       *)
(*                                                                         *)
(* A base has one refinery, and all mineral lines the same ideal number of *)
(* harvesters.  "The closest" worker or base is any of them.               *)
(***************************************************************************)
EXTENDS Integers, FiniteSets

CONSTANTS
    Expansion,     \* 1 .. n, by distance from the start
    Worker,
    MineralIdeal,  \* ideal_harvesters of a finished hall by its minerals
    GasIdeal,      \* and of a finished refinery, 3 in the game
    ReqImbalance,  \* m_reqImbalanceToTransfer, 2 in the source
    StartWorkers,  \* the workers alive at the beginning
    Stranding,     \* may a base fall while a gas worker of it is out of sight?
    MaxMishaps     \* bound on what the enemy and exhaustion may take away

ASSUME WorkersAssumption ==
    /\ Expansion = 1 .. Cardinality(Expansion) /\ IsFiniteSet(Expansion)
    /\ 1 \in Expansion /\ StartWorkers \subseteq Worker /\ IsFiniteSet(Worker)
    /\ MineralIdeal \in Nat \ {0} /\ GasIdeal \in Nat \ {0}
    /\ ReqImbalance \in Nat \ {0} /\ Stranding \in BOOLEAN /\ MaxMishaps \in Nat

VARIABLES
    hall,       \* the town hall of each expansion: "none", "site" or "hall"
    mined,      \* expansions whose minerals are exhausted
    rig,        \* its refinery: "none", "site", "rig" or "dry"
    doing,      \* each worker's order: a task and the place it is for
    mishaps,
    fallen,     \* town halls destroyed since the last observation
    ours,       \* Hub: expansions with m_alliance Self and their m_townHall
    refineries, \* Hub: expansions whose list of refineries is not empty
    reserved,   \* BuildingPlacer: geysers whose tiles are marked
    rich,       \* of ours, those whose copy has ideal_harvesters > 0
    job, home,  \* Worker: m_job, m_homeBase
    seen,       \* the last copy of a worker: "no" (not listed), "idle", "busy",
                \* or "told": idle, and commanded since
    command,    \* the last command of this step to each worker
    m_vespeneGasStop,
    phase, cursor \* the cursor is that of SecureVespeneIncome

gameVars == <<hall, mined, rig, doing, mishaps, fallen>>
hubVars == <<ours, refineries, rich>>
vars == <<gameVars, hubVars, reserved, job, home, seen, command,
          m_vespeneGasStop, phase, cursor>>

NoBase == 0
Order(task, place) == [task |-> task, at |-> place]
NoOrder == Order("none", NoBase)
Idle == Order("idle", NoBase)
Minerals == Order("mine", NoBase)

Alive == {w \in Worker : doing[w].task \notin {"unborn", "dead"}}
Visible == {w \in Alive : doing[w].task # "inside"}
Listed == {w \in Worker : seen[w] # "no"}
Job(jobs) == {w \in Listed : job[w] \in jobs}
BasedAt(e) == {w \in Listed : home[w] = e}

(* assigned_harvesters and ideal_harvesters of the refinery at e. *)
Assigned(e) == {w \in Alive : /\ doing[w].task \in {"gas", "inside"}
                              /\ doing[w].at = e}
IdealAt(e) == IF rig[e] = "rig" THEN GasIdeal ELSE 0

Commands(ws, order) == [w \in Worker |-> IF w \in ws THEN order ELSE command[w]]
Jobs(ws, j) == [w \in Worker |-> IF w \in ws THEN j ELSE job[w]]

-----------------------------------------------------------------------------
(* The game, between two steps of the bot. *)

Mishap == mishaps < MaxMishaps /\ mishaps' = mishaps + 1

(* ActionInterface::SendActions.  A building site may be refused, a         *)
(* refinery gone; a worker that has just entered one may not hear.          *)
Outcomes(w) ==
    LET c == command[w]
        out == Order(c.task, c.at)
    IN  IF c = NoOrder \/ w \notin Alive THEN {doing[w]}
        ELSE IF doing[w].task = "inside" THEN {doing[w], out}
        ELSE IF c.task \in {"build", "refinery"} THEN {out, Idle}
        ELSE IF c.task = "gas" /\ rig[c.at] # "rig" THEN {Idle}
        ELSE {out}

Send ==
    /\ phase = "send"
    /\ doing' \in {d \in [Worker -> UNION {Outcomes(w) : w \in Worker}] :
                     \A w \in Worker : d[w] \in Outcomes(w)}
    /\ seen' = [w \in Worker |-> IF seen[w] = "idle" /\ command[w] # NoOrder
                                   THEN "told" ELSE seen[w]]
    /\ command' = [w \in Worker |-> NoOrder]
    /\ phase' = "game"
    /\ UNCHANGED <<hall, mined, rig, mishaps, fallen, hubVars, reserved, job,
                   home, m_vespeneGasStop, cursor>>

botVars == <<hubVars, reserved, job, home, seen, command, m_vespeneGasStop,
             phase, cursor>>

Turn(w, order) == doing' = [doing EXCEPT ![w] = order]

Born(w) ==
    /\ phase = "game" /\ doing[w].task = "unborn"
    /\ \E e \in Expansion : hall[e] = "hall"
    /\ \E order \in {Idle, Minerals} : Turn(w, order)
    /\ UNCHANGED <<hall, mined, rig, mishaps, fallen, botVars>>

(* A gas worker goes in and comes out, unseen in between. *)
Enter(w) ==
    /\ phase = "game" /\ doing[w].task = "gas" /\ rig[doing[w].at] = "rig"
    /\ Stranding \/ home[w] \notin fallen
    /\ Turn(w, Order("inside", doing[w].at))
    /\ UNCHANGED <<hall, mined, rig, mishaps, fallen, botVars>>

Leave(w) ==
    /\ phase = "game" /\ doing[w].task = "inside"
    /\ Turn(w, Order("gas", doing[w].at))
    /\ UNCHANGED <<hall, mined, rig, mishaps, fallen, botVars>>

(* Nothing left to gather, or nowhere to bring it. *)
Stall(w) ==
    /\ phase = "game"
    /\ \/ doing[w].task \in {"mine", "gas"} /\ \A e \in Expansion : hall[e] # "hall"
       \/ doing[w].task = "mine" /\ mined # {}
       \/ doing[w].task = "gas" /\ rig[doing[w].at] # "rig"
    /\ Turn(w, Idle)
    /\ UNCHANGED <<hall, mined, rig, mishaps, fallen, botVars>>

(* A structure is laid and finished; the builder of a refinery stays to     *)
(* harvest it.  Of the others only town halls matter here.                  *)
Construct(w) ==
    LET e == doing[w].at
    IN  /\ phase = "game"
        /\ \/ /\ doing[w] = Order("build", NoBase)
              /\ \E x \in Expansion :
                    /\ hall[x] = "none" /\ x \notin fallen
                    /\ hall' = [hall EXCEPT ![x] = "site"]
                    /\ Turn(w, Order("build", x))
              /\ UNCHANGED rig
           \/ /\ doing[w].task = "build" /\ e # NoBase /\ hall[e] = "site"
              /\ hall' = [hall EXCEPT ![e] = "hall"] /\ Turn(w, Idle)
              /\ UNCHANGED rig
           \/ /\ doing[w].task = "refinery"
              /\ \/ /\ rig[e] = "none"
                    /\ rig' = [rig EXCEPT ![e] = "site"] /\ UNCHANGED doing
                 \/ /\ rig[e] = "site"
                    /\ rig' = [rig EXCEPT ![e] = "rig"] /\ Turn(w, Order("gas", e))
              /\ UNCHANGED hall
           \/ doing[w].task = "build" /\ Turn(w, Idle) /\ UNCHANGED <<hall, rig>>
        /\ UNCHANGED <<mined, mishaps, fallen, botVars>>

Kill(w) ==
    /\ phase = "game" /\ Mishap /\ w \in Visible
    /\ Turn(w, Order("dead", NoBase))
    /\ UNCHANGED <<hall, mined, rig, fallen, botVars>>

RazeHall(e) ==
    /\ phase = "game" /\ Mishap /\ hall[e] # "none"
    /\ Stranding \/ \A w \in Alive : home[w] = e =>
                       w \in Listed /\ doing[w].task # "inside"
    /\ hall' = [hall EXCEPT ![e] = "none"] /\ fallen' = fallen \cup {e}
    /\ UNCHANGED <<mined, rig, doing, botVars>>

RazeRefinery(e) ==
    /\ phase = "game" /\ Mishap /\ rig[e] # "none"
    /\ rig' = [rig EXCEPT ![e] = "none"]
    /\ doing' = [w \in Worker |->
                   IF doing[w] \in {Order(t, e) : t \in {"gas", "inside", "refinery"}}
                     THEN Idle ELSE doing[w]]
    /\ UNCHANGED <<hall, mined, fallen, botVars>>

Exhaust(e) ==
    /\ phase = "game" /\ Mishap
    /\ \/ /\ hall[e] = "hall" /\ e \notin mined /\ mined' = mined \cup {e}
          /\ UNCHANGED rig
       \/ /\ rig[e] = "rig" /\ rig' = [rig EXCEPT ![e] = "dry"]
          /\ UNCHANGED mined
    /\ UNCHANGED <<hall, doing, fallen, botVars>>

-----------------------------------------------------------------------------
(* Worker *)

(* The assertion at the head of Worker::Mine.  Without it m_townHall, a     *)
(* null pointer, would be followed.                                         *)
Asserted(w) == home[w] = NoBase \/ home[w] \in ours

(* Where a worker mines that calls h its home: there if it has minerals,    *)
(* else at the closest of ours that does, else at h all the same.           *)
MineBases(h) == IF h \in rich \/ rich = {} THEN {h} ELSE rich

Mine(ws) ==
    /\ \A w \in ws : Asserted(w)
    /\ home' \in {h \in [Worker -> Expansion \cup {NoBase}] :
                   \A w \in Worker : h[w] \in IF w \in ws THEN MineBases(home[w])
                                            ELSE {home[w]}}
    /\ LET sent == {w \in ws : home'[w] # NoBase}
       IN  command' = Commands(sent, Minerals) /\ job' = Jobs(sent, "minerals")

(* The town hall closest to the refinery of a base of ours is that base's. *)
(* Mutant: m_job kept.                                                      *)
GatherVespeneUnrecorded(w, e) ==
    /\ command' = Commands({w}, Order("gas", e))
    /\ home' = [home EXCEPT ![w] = e] /\ UNCHANGED job
GatherVespene(w, e) ==
    /\ command' = Commands({w}, Order("gas", e))
    /\ job' = Jobs({w}, "vespene")
    /\ home' = [home EXCEPT ![w] = e]

Build(w) ==
    /\ command' = Commands({w}, Order("build", NoBase))
    /\ job' = Jobs({w}, "building")

BuildRefinery(w, e) ==
    /\ command' = Commands({w}, Order("refinery", e))
    /\ job' = Jobs({w}, "building_refinery")

-----------------------------------------------------------------------------
(* Events *)

(* Other bases of ours that need harvesters, by their last copies. *)
(* Mutant: the base that fell is among them.                                *)
ActiveBeforeHub(e) == ours \cap rich
ActiveBut(e) == (ours \ {e}) \cap rich

(* One worker at a base, one at the next, and over again. *)
RoundRobin(ws, bases) ==
    LET k == Cardinality(bases)
        share(b) == (Cardinality(ws) - Cardinality({a \in bases : a <= b}) + k) \div k
    IN  {f \in [ws -> bases] :
           \A b \in bases : Cardinality({w \in ws : f[w] = b}) = share(b)}

(* Miner::OnUnitDestroyed: all that are based at e find a new home, or,     *)
(* when there is no other, have none.                                       *)
ClearWorkersHomeBase(e) ==
    /\ ActiveBut(e) = {}
    /\ home' = [w \in Worker |-> IF w \in BasedAt(e) THEN NoBase ELSE home[w]]
    /\ UNCHANGED <<job, command>>

SplitWorkersOff(e) ==
    /\ ActiveBut(e) # {}
    /\ \E f \in RoundRobin(BasedAt(e), ActiveBut(e)) :
          home' = [w \in Worker |-> IF w \in BasedAt(e) THEN f[w] ELSE home[w]]
    /\ LET gatherers == {w \in BasedAt(e) : job[w] \in {"minerals", "vespene"}}
       IN  /\ command' = Commands(gatherers, Minerals)
           /\ job' = Jobs(gatherers, "minerals")

HallDestroyed(e) ==
    /\ phase \in {"game", "destroyed"} /\ phase' = "destroyed"
    /\ e \in fallen /\ fallen' = fallen \ {e}
    /\ ours' = ours \ {e}
    /\ ClearWorkersHomeBase(e) \/ SplitWorkersOff(e)
    /\ UNCHANGED <<hall, mined, rig, doing, mishaps, refineries, rich,
                   reserved, seen, m_vespeneGasStop, cursor>>

(* ControlImp::IssueIdleEvent *)
TurnedIdle(w) ==
    w \in Visible /\ doing[w] = Idle /\ seen[w] # "idle"

(* Miner::OnUnitIdle *)
(* Mutant: "building" kept.                                                 *)
JobsKeptByBuilders == {"minerals", "vespene"}
(* Mutant: "vespene" kept.                                                  *)
JobsKeptByHarvesters == {"minerals", "building"}
JobsEndedByIdling == {"minerals", "vespene", "building"}

(* The remaining events, and Interface::OnStep, which copies every unit. *)
Announce ==
    /\ phase \in {"game", "destroyed"} /\ fallen = {} /\ phase' = "mine"
    /\ ours' = ours \cup {e \in Expansion : hall[e] # "none"}
    /\ refineries' = {e \in Expansion : rig[e] # "none"}
    /\ job' = [w \in Worker |-> IF TurnedIdle(w) /\ job[w] \in JobsEndedByIdling
                                  THEN "nothing" ELSE job[w]]
    /\ rich' = {e \in Expansion : hall[e] = "hall" /\ e \notin mined}
    /\ seen' = [w \in Worker |-> IF w \notin Visible THEN "no"
                                  ELSE IF doing[w] = Idle THEN "idle" ELSE "busy"]
    /\ UNCHANGED <<gameVars, reserved, home, command, m_vespeneGasStop, cursor>>

-----------------------------------------------------------------------------
(* Miner::OnStep *)

MineIdle ==
    /\ phase = "mine" /\ phase' = "balance"
    /\ Mine(Job({"nothing"}))
    /\ UNCHANGED <<gameVars, hubVars, reserved, seen, m_vespeneGasStop, cursor>>

Miners(e) == {w \in BasedAt(e) : job[w] = "minerals"}
Surplus(e) == LET over == Cardinality(Miners(e)) - MineralIdeal
              IN  IF over > 0 THEN over ELSE 0

(* The ends of sorted_expansions. *)
Top(e) == \A x \in rich :
             Surplus(x) < Surplus(e) \/ (Surplus(x) = Surplus(e) /\ x <= e)
Bottom(e) == \A x \in rich :
             Surplus(x) > Surplus(e) \/ (Surplus(x) = Surplus(e) /\ x >= e)
(* Mutant: one too many.                                                    *)
TransferUnhalved(diff) == diff + 1
Transfer(diff) == (diff + 1) \div 2

BalanceWorkers ==
    /\ \E top, bottom \in rich :
          LET diff == Surplus(top) - Surplus(bottom)
          IN  /\ top # bottom /\ Top(top) /\ Bottom(bottom) /\ diff >= ReqImbalance
              /\ \E ws \in SUBSET Miners(top) :
                    /\ Cardinality(ws) = Transfer(diff)
                    /\ home' = [w \in Worker |-> IF w \in ws THEN bottom ELSE home[w]]
                    /\ command' = Commands(ws, Minerals)
    /\ UNCHANGED job

(* Every m_stepsBetweenBalance loops of the game. *)
Balance ==
    /\ phase = "balance" /\ phase' = "bank"
    /\ BalanceWorkers \/ UNCHANGED <<job, home, command>>
    /\ UNCHANGED <<gameVars, hubVars, reserved, seen, m_vespeneGasStop, cursor>>

(* The head of SecureVespeneIncome.  The thresholds for vespene against     *)
(* minerals leave a gap: at no bank are both to stop and to start called    *)
(* for, at some neither.                                                    *)
WatchBank ==
    /\ phase = "bank"
    /\ m_vespeneGasStop' \in BOOLEAN
    /\ IF m_vespeneGasStop' /\ ~m_vespeneGasStop
         THEN Mine(Job({"vespene"}))
         ELSE UNCHANGED <<job, home, command>>
    /\ phase' = IF m_vespeneGasStop' THEN "build" ELSE "vespene"
    /\ UNCHANGED <<gameVars, hubVars, reserved, seen, cursor>>

(* GetFreeWorkers, and the gas workers listed before the loop. *)
Free == Job({"nothing", "minerals"})
GasWorkers == {w \in Job({"vespene"}) : command[w].task # "gas"}

(* Mutant: off by one.                                                      *)
NotTooMany(e) == Cardinality(Assigned(e)) <= IdealAt(e)
TooFew(e) == Cardinality(Assigned(e)) < IdealAt(e)
TooMany(e) == Cardinality(Assigned(e)) > IdealAt(e)

(* One refinery.  Whoever of those too many is on the way back with its      *)
(* cargo has the town hall for a target and is passed over: it may be that   *)
(* none is moved.                                                           *)
SecureVespene(e) ==
    \/ e \in ours \cap refineries /\ TooFew(e) /\ \E w \in Free : GatherVespene(w, e)
    \/ /\ e \in ours \cap refineries /\ TooMany(e)
       /\ \E w \in GasWorkers : doing[w] = Order("gas", e) /\ Mine({w})
    \/ /\ e \in ours \cap refineries /\ TooFew(e) => Free = {}
       /\ UNCHANGED <<job, home, command>>

Last == Cardinality(Expansion)

(* Mutant: no end.                                                          *)
NextRefineryForever == cursor' = cursor + 1
NextRefinery == cursor' = IF cursor = Last THEN 1 ELSE cursor + 1

SecureVespeneIncome ==
    /\ phase = "vespene" /\ SecureVespene(cursor) /\ NextRefinery
    /\ phase' = IF cursor = Last THEN "build" ELSE "vespene"
    /\ UNCHANGED <<gameVars, hubVars, reserved, seen, m_vespeneGasStop>>

(* Builder::OnStep: at most one construction a step.  Refinery::Build marks *)
(* the tiles of a geyser, and nothing ever frees them; gas workers build    *)
(* refineries when no other is free.                                        *)
Builder ==
    /\ phase = "build" /\ phase' = "send"
    /\ \/ (\E w \in Free : Build(w)) /\ UNCHANGED reserved
       \/ \E w \in IF Free = {} THEN Job({"vespene"}) ELSE Free,
            e \in ours \ reserved :
            BuildRefinery(w, e) /\ reserved' = reserved \cup {e}
       \/ UNCHANGED <<job, command, reserved>>
    /\ UNCHANGED <<gameVars, hubVars, home, seen, m_vespeneGasStop,
                   cursor>>

-----------------------------------------------------------------------------
Init ==
    /\ hall = [e \in Expansion |-> IF e = 1 THEN "hall" ELSE "none"]
    /\ mined = {} /\ rig = [e \in Expansion |-> "none"]
    /\ doing = [w \in Worker |-> IF w \in StartWorkers THEN Idle
                                 ELSE Order("unborn", NoBase)]
    /\ mishaps = 0 /\ fallen = {}
    /\ ours = {1} /\ refineries = {} /\ rich = {1} /\ reserved = {}
    /\ job = [w \in Worker |-> "nothing"] /\ home = [w \in Worker |-> NoBase]
    /\ seen = [w \in Worker |-> IF w \in StartWorkers THEN "idle" ELSE "no"]
    /\ command = [w \in Worker |-> NoOrder]
    /\ m_vespeneGasStop = FALSE /\ phase = "mine" /\ cursor = 1

Game ==
    \/ \E w \in Worker : Born(w) \/ Enter(w) \/ Leave(w) \/ Stall(w)
                        \/ Construct(w) \/ Kill(w)
    \/ \E e \in Expansion : RazeHall(e) \/ RazeRefinery(e) \/ Exhaust(e)

Bot == (\E e \in Expansion : HallDestroyed(e)) \/ Announce \/ MineIdle \/ Balance
       \/ WatchBank \/ SecureVespeneIncome \/ Builder

Next == Game \/ Bot \/ Send

Spec == Init /\ [][Next]_vars

-----------------------------------------------------------------------------
Tasks == {"unborn", "idle", "mine", "gas", "inside", "build", "refinery", "dead"}
JobSet == {"nothing", "minerals", "vespene", "building", "building_refinery"}
BotSteps == {"mine", "balance", "bank", "vespene", "build", "send"}

TypeOK ==
    LET place == Expansion \cup {NoBase}
    IN  /\ hall \in [Expansion -> {"none", "site", "hall"}]
        /\ rig \in [Expansion -> {"none", "site", "rig", "dry"}]
        /\ doing \in [Worker -> [task : Tasks, at : place]]
        /\ mishaps \in 0 .. MaxMishaps
        /\ mined \cup fallen \cup ours \cup refineries \cup rich \cup reserved \subseteq Expansion
        /\ job \in [Worker -> JobSet] /\ home \in [Worker -> place]
        /\ seen \in [Worker -> {"no", "idle", "told", "busy"}]
        /\ command \in [Worker -> [task : Tasks \cup {"none"}, at : place]]
        /\ m_vespeneGasStop \in BOOLEAN
        /\ phase \in BotSteps \cup {"game", "destroyed"}
        /\ cursor \in Expansion

(* "assert(m_homeBase->m_alliance == Self && m_townHall && is_alive)"       *)
(* (Worker.cpp): whatever falls, no worker Miner can reach calls a lost     *)
(* expansion its home once the events are handled.                          *)
HomeStands == phase \in BotSteps => \A w \in Listed : Asserted(w)

(* The same where Miner::OnStep is about to call Mine. *)
MineMayBeCalled == phase = "mine" => \A w \in Job({"nothing"}) : Asserted(w)

(* No worker in sight is left idle when a step ends, unless no base of ours *)
(* needs harvesters and it has none, or it has built a refinery.            *)
NoIdleHand ==
    phase = "send" =>
       \A w \in Listed \cap Alive :
          doing[w] = Idle /\ command[w] = NoOrder
          => job[w] = "building_refinery" \/ (rich = {} /\ home[w] = NoBase)

(* SecureVespeneIncome reads the first order of every gas worker it lists:  *)
(* it has one.                                                              *)
GasWorkersHaveOrders ==
    phase = "vespene" => \A w \in GasWorkers : doing[w] # Idle

(* When a step ends, the job of every worker in sight is what it does, or   *)
(* what it has just been told to do.                                        *)
JobsMatch ==
    phase = "send" =>
       \A w \in Listed \cap Alive :
          LET task == (IF command[w] = NoOrder THEN doing[w] ELSE command[w]).task
          IN  CASE task = "mine" -> job[w] \in {"minerals", "nothing"}
                [] task = "gas" -> job[w] \in {"vespene", "building_refinery"}
                [] task = "build" -> job[w] = "building"
                [] task = "refinery" -> job[w] = "building_refinery"
                [] task = "idle" -> job[w] \in {"nothing", "building_refinery"}

(* However many steps a worker takes out of sight, no refinery ever has     *)
(* more harvesters than it can use.                                         *)
GasCrewed == \A e \in Expansion : Cardinality(Assigned(e)) <= GasIdeal

(* BalanceWorkers never tips the scales: the base that gave ends with at    *)
(* most one harvester less above its ideal than the base that took.         *)
BalanceNeverOvershoots ==
    [][phase = "balance" =>
         \A a, b \in rich :
            /\ Cardinality(Miners(a)') < Cardinality(Miners(a))
            /\ Cardinality(Miners(b)') > Cardinality(Miners(b))
            => Surplus(a)' >= Surplus(b)' - 1]_vars
=============================================================================
