# BenBot: a verification project

BenBot (`src/src`) plays StarCraft II through the client library cpp-sc2
(`src/cpp-sc2`).  Many times a second the client takes an observation of the
game, turns the difference to the previous one into events, and lets the bot
run; the bot answers with commands, most of which the game carries out much
later, and some not at all.  Nothing is persisted and nothing runs in parallel
inside the bot, but the bot and the game are two actors that see each other
only through old copies and late commands.  Almost everything that can go
wrong goes wrong there: what was ordered, commanded, on its way, begun, seen,
finished or destroyed has to be accounted for by handlers that each know a
part of it.

This directory models that loop for the game the bot really plays (Terran,
`ReaperRush`, the strategy `Dispatcher` installs), checks it with TLC, and
proves the parts that matter for all values of the constants with TLAPS.

## The system

| Component (source) | State it keeps | Operations |
|---|---|---|
| `Builder` (`Builder.cpp`) | construction orders, training orders, the budget of the step | `ScheduleConstruction` (with its recursion along the tech requirements), `ScheduleOrders`, `ScheduleTraining`, `Build`, `OnStep` |
| Blueprints (`blueprints/`) | none | who carries out an order, and where: `Building`, `Refinery`, `Addon`, `Unit`, `Mutation`, ... |
| `Hub` (`Hub.cpp`) | expansions, geysers and refineries, scans | finds a free producer or worker; claims expansions |
| `QuarterMaster` | `m_skip_turn`, `m_planningAhead` | requests a depot when supply gets short |
| `RepairMan` | none | orders again what was destroyed |
| `ReaperRush` | `m_reapersBuilt` | opening, a reaper for every idle barracks, reactors |
| `Miner` (`Miner.cpp`), `Worker` | jobs and home bases of workers | orders workers, balances minerals and vespene |
| `Dispatcher` (`Dispatcher.cpp`) | the list of plugins | passes events and steps on, in order |
| API layer (`core/API.cpp`, `WrappedUnit`, `Helpers`) | map of copies of units, list of the last step | queries, actions, refreshes |
| Client (`cpp-sc2`) | two observations, tags commanded last | `IssueEvents`, `SendActions`, the coordinator's loop |
| `BuildingPlacer` (`core/BuildingPlacer.cpp`) | reserved tiles and geysers | places for structures |
| `ControlGroup`, `Combat`, micro plugins | movement state of groups | the army |

How they interact in one step (`CoordinatorImp::StepAgents`, `CallOnStep`):

    the game moves -> observation -> events: all destroyed, then all created,
    then all idle, each handed by Dispatcher to Builder's clients
    (RepairMan, QuarterMaster, ReaperRush) with a fresh copy of that one unit
    -> Interface::OnStep refreshes all copies
    -> Miner, QuarterMaster  (fill Builder's queues)
    -> Builder               (head of the constructions, then every training)
    -> SendActions           (the commands leave for the game)

What makes this hard to test:

* a structure passes through six places (queue, command, SCV on its way,
  site, created event, list of units), and each plugin looks at one or two;
* event handlers see the copy of one unit refreshed and the others stale;
* a structure is paid when the SCV arrives, not when it is commanded;
* orders are forgotten once they are commanded, while commands may fail;
* two queues and several plugins compete for the same bank, supply and producers.

What would make each component correct is stated in the section on properties;
the list of hazards, each with its line, is in `PROJECT.json`.

## The modules

    TechTree  <-  Game  <-  Observer  <-  Builder  <-  Plugins  <-  Dispatcher  <-  MCDispatcher
                                                                   Dispatcher  --implements-->  SupplyRequest
                                                                   Dispatcher  <-  DispatcherProofs  <-  SupplyProofs
                                             SupplyProofs  <-  BarracksProofs  <-  QueueProofs  <-  CountingProofs
    Workers        <-  MCWorkers,        WorkersProofs
    Placement      <-  MCPlacement,      PlacementProofs
    ControlGroups  <-  MCControlGroups,  ControlGroupsProofs

The production of the game is one chain of modules, composed in `Dispatcher`.
The other three are each a specification of their own, because they share no
state with it but the fact that a worker is free, a place was found, or a
reaper was born; composing them would multiply the states without letting any
of them see more.


* **TechTree** - `Blueprint::Plot`, the tech requirements (`TechLine` is the
  chain the recursion of `ScheduleConstruction` walks), and the numbers of
  `GetUnitTypeData`, all of them constants.
* **Game** - StarCraft II as far as the code relies on it.  It is not in the
  repository and every definition is marked external.  A structure has a tag,
  a type, orders, an addon, and is alive and built or not; tags are never used
  twice.  A command to a producer is obeyed or refused on arrival, a structure
  is paid for and laid when the SCV gets there.  `Mishaps` says which of five
  things may go wrong, `MaxMishaps` how often.
* **Observer** - what the bot sees: `view` (`m_unit_map`) and `listed`
  (`m_last_step_units`), the events an observation leads to (`IssueEvents`),
  the refresh of one copy (`WrapAndUpdateUnit`) and of all (`Interface::OnStep`),
  and the filters of `Helpers.cpp`, which never ask whether a unit is alive.
  The addon of a dead barracks may be dead as well; `Observer::GetUnit` then
  falls back to the client's list, where a build with assertions stops
  (`API.cpp:246`) and one without finds the kept copy.  The model is of the latter.
* **Builder** - both queues, the budget, `ScheduleConstruction`, and `OnStep`
  split into `BuildHead`/`HeadWaits` (one try for the head of the
  constructions) and `BuildTraining` (one try for the order the iterator
  points at).  `Producers` is the choice of the blueprints and of `Hub`.
* **Plugins** - the operations of `Miner` (workers), `QuarterMaster`,
  `RepairMan` and `ReaperRush`.
* **Dispatcher** - the loop: `phase` is the place in `StepAgents` where control
  is.  It composes all of the above, states the fairness and the properties.
* **SupplyRequest** - the abstract specification of what `QuarterMaster`
  promises; `Dispatcher!RequestSpec` is the refinement
  (`asked <- m_skip_turn`, `coming <- DepotComing`, `seen <- SeenDepots`).
* **Workers** - the economy half of `Miner`, `Worker` and the expansions that
  `Hub` claims and loses: what each SCV does, what the bot believes of it
  (`job`, `home`), and the last copy of it (`seen`).
* **Placement** - `BuildingPlacer` and the search of `Building::Build`: the
  squares that are marked, what was placed there and what became of it.
* **ControlGroups** - `Combat` with a `ControlGroup` for each reaper, and the
  reaper's behaviour tree near enemies, the leaves of `Reaper.h` under `Selector`.
* **MCDispatcher**, **MCWorkers**, **MCPlacement**, **MCControlGroups** -
  values of the constants for the runs.
* **DispatcherProofs** (types), **SupplyProofs** (the refinement),
  **BarracksProofs** (the order of a step, idle barracks), **QueueProofs** (the
  construction queue), **CountingProofs** (budget, depots, structures, workers),
  **WorkersProofs**, **PlacementProofs**, **ControlGroupsProofs** - theorems.

### How the model corresponds to the code

Each handler is one action, with everything it changes; the recursion in
`ScheduleConstruction` is one step that appends the missing requirements,
deepest first.  Two loops are split by round, because each round reads what
the ones before have changed: the event queue of the client (one handler per
step) and the iterator of `Builder::OnStep` over the trainings (`cursor`).  Since the
coordinator runs in stepped mode (`StepAgents` waits for the game's answer, and
the game waits for the bot), the game moves only in `phase = "game"`; this is
what lets the model freeze it while the bot thinks.  Nothing that the bot
commands, and nothing that begins, is finished within the same game step:
`CompleteStructure` and `FinishOrder` ask that it was there at the last observation.

Where the code iterates over a list whose order is the game's (units, town
halls), the model takes any order; where it picks one of several candidates
(by distance), it takes any of them.  Workers are a number: of an SCV only
that it is busy matters here (`FreeWorkerExists`).  Reapers are a number as
well: `ReaperRush` only counts them, modulo `ReaperBatch`.  Construction orders
carry only their type, since no caller of the modelled game presets an
assignee.

In `Workers` a step of the bot is a chain of phases: `HallDestroyed` for each
town hall that fell (`Hub` first, then `Miner`), `Announce` for all other events
and the refresh of the copies, `MineIdle`, `Balance`, `WatchBank` (the
thresholds of vespene against minerals, of which only what they call for is
kept), `SecureVespeneIncome` refinery by refinery (`cursor`), `Builder` with at
most one construction, and `Send`.  A gas worker inside its refinery is missing
from the observation, so the bot's list lacks it, and so do all handlers that
work by that list; this is the point of `Enter` and `Leave`.  `command` keeps the last
command to each worker, since a later one of the same step replaces an earlier
one.  "The closest" worker or base is any of them; a mineral line is a number
of harvesters it can take.  An SCV that returns its cargo has the town hall for
a target, and the code, which looks for the refinery, does not find it; the model
does not tell the two ways apart, so that from a refinery with too many one is
taken, or none.

In `Placement` tiles are squares with a corner, as the game's footprints are;
`Corners` holds, for every size, the corners from which a square is buildable.
The code scans a region column by column, and the game may refuse a place for
the units on it, so any place that passes all tests may be taken.  Nothing ever
frees what is marked: the handlers of `BuildingPlacer` that would do so have no
caller.  Where the addon will stand is computed twice, by the bot in
`ReserveBuildingSpace` and by the game (`AddonGround`, from the centre); the
model keeps both.

In `ControlGroups` one action `Step` is what `Combat` does in a step: new
reapers get their groups, idle groups are sent, each group cleans up, updates
its movement state and moves or fights.  Where a reaper is, is one of three
places: `home`, `field` and `target`, and the game moves it by its order.  A
group of one has no spread, so it never waits for stragglers.  The leaf
`RetreatBecauseOfHealth` fails at the very point of the start location, which `home`
surrounds, so at `home` it may do either.

The model leaves out: Zerg and Protoss, upgrades, queued (urgent) trainings,
vision, damage, cancelled structures (the bot never cancels), and where things
are (a structure finds a place or, with the mishap "crowded", does not).

### Definitions kept as mutants

Some modules hold operators commented as mutants, such as
`AffordableInMinerals` or `NewEventsFinishedOnly`.  No specification uses them.
Each is the neighbouring definition with one plausible bug; substituting it
breaks the property named with it in `PROJECT.json`, which shows that the
property says something about the code.

## Properties, runs and what they show

The runs of production are of `MCDispatcher`; the numbers of the passing runs
are distinct states.

| Run | Properties | What it shows |
|---|---|---|
| `raided` (775 000) | `NoForgottenStructure`, `SupplyRequestPending`, `RequestSpec` | A barracks or reactor that the bot has seen finished is razed, once, at any moment (sites razed before are forgotten by the code: hazard at `RepairMan.cpp:29`). No structure of the opening is forgotten between queue, command, SCV, site, destruction and `RepairMan`; and step by step `QuarterMaster` keeps the promise of `SupplyRequest`. |
| `disorder` (1 200 000) | `RequestsAnswered`, `NoForgottenBarracks`, `CommandsWithinBudget` | SCVs are lost or find the money spent, there is no place, sites are razed unseen. `QuarterMaster` asks again only when some depot has been announced since it last asked, so that the depots underway, whoever ordered them, never exceed those of the opening by more than one; an idle barracks is always going to be heard of; what is commanded in one step costs exactly what was taken off the budget. |
| `expand` (57 000) | `WorkersBounded` | With a second town hall the number of workers overshoots `m_maximumWorkers`, by no more than the number of town halls less one. |
| `calm_live` (80 000) | `TypeOK`, `RequirementAhead`, `OpeningCompleted`, `SupplyRequestAnswered` | With nothing lost, the requirement of each queued construction is standing, coming, or queued before it, so that the head of the queue, the only order `OnStep` tries, can always go ahead one day; the opening is built and each request for supply is answered, although trainings compete for the same bank. `TypeOK` includes that the budget, unsigned in `Builder.h`, never goes below zero. |
| `mining` (1 235 000) | `TypeOK`, `HomeStands`, `NoIdleHand`, `GasWorkersHaveOrders`, `JobsMatch`, `GasCrewed`, `BalanceNeverOvershoots` | SCVs are born, gather, vanish into refineries, build and die; a town hall, refinery or deposit may be lost. The assertion of `Worker::Mine` holds; no worker in sight ends a step idle that could mine; the order that `SecureVespeneIncome` reads is there; what the bot believes a worker does is what it does or was just told; no refinery is overcrewed, though workers inside are in no list; balancing never makes the giver poorer than the taker by more than one. |
| `lost_base` | `MineMayBeCalled` violated | see finding 5 |
| `harass` (38 000) | `TypeOK`, `FightsWhenNear`, `RetreatStands`, `MarchesOn` | Reapers meet and lose enemies, are hurt, heal and die at any moment between two steps. A group fights exactly when its reaper lives and has enemies near; no command of the same step overrides a retreat; and a reaper that is left alone for good reaches the enemy, whatever state its group was in. |
| `placing` (63 000) | `TypeOK`, `GroundsDisjoint`, `GapsKept` | Structures are placed, laid, given addons and lost in any order. Marks stay on buildable ground, no ground meets another or any addon's, and the gaps for units are kept. |
| `queue_deadlock` | `NoDeadlockInQueue` violated | see finding 1 |
| `twice_commanded` | `CommandsFitProducer` violated | see finding 2 |
| `reactor_queue` | `ReactorsNeeded` violated | see finding 3 |
| `supply_lost` | `SuppliesRebuilt` violated | see finding 4 |

Deadlock is checked in every run but `placing`, which ends once all places are
taken and everything is lost; everywhere else the system never stops.

### Findings

1. **The construction queue can block for ever.**  `ScheduleConstruction`
   recurses for a missing requirement, commented "Prevent deadlock."
   (`src/src/Builder.cpp:71`).  An urgent order, however, is put in front, and its
   requirement at the back, or it is found queued already.  Once RepairMan
   rebuilds a barracks while the depot is gone or still queued, the head of the
   queue waits for an order behind it, and only the head is ever tried.
   `RequirementAhead` shows that this needs a loss: it holds when nothing is destroyed,
   and `DeadlockNeedsLoss` proves it for every opening and tech tree.
2. **A producer is commanded twice in one step.**
   `m_order_queued_in_current_step` (`src/src/core/WrappedUnit.hpp:68`) is read by
   `IsIdle` and `NumberOfOrders`, but `Action::Build` never sets it.  So the
   head of the constructions and the trainings choose the same producer; the
   budget is charged twice and the second order forgotten.
3. **Reactors pile up.**  "Every 5th Reaper we will ask this Barracks if it
   needs an addon" (`src/src/strategies/terran/ReaperRush.cpp:32`), but the question is
   repeated at each idle event until the count changes.  The surplus reactor is
   urgent, no barracks can take it, and it blocks the construction queue.
4. **Supply may never be rebuilt.**  "QuarterMaster is responsible for supplies
   rebuild" (`src/src/plugins/RepairMan.cpp:43`).  `m_skip_turn` is reset only by a
   created depot; if the SCV that was to build it is lost, `QuarterMaster`
   skips its turns for ever.

5. **A worker may call a lost base its home.**  `Worker::Mine` asserts that
   the home base is the bot's and its town hall alive
   (`src/src/objects/Worker.cpp:64`).  `Miner::OnUnitDestroyed` gives new homes to the
   workers it finds in the list of units, and one that is inside a refinery is not
   in it.  It comes out with the lost base as its home; as soon as
   it has nothing to do, the assertion fails (and where assertions are off, a null
   pointer is followed).  `HomesStand` proves that there is no other way: if no base
   falls while a worker of it is out of sight (`~Stranding`, as in `mining`), the
   assertion holds for every listed worker.

Findings 2 and 3 also bound what can be checked elsewhere: `OpeningCompleted`
is checked for a game without vespene-hungry reactors at the head, and
`CommandsWithinBudget` speaks of commands, not of what the game accepts.

### Bounds, and why they are enough

* Prices are one unit (an orbital command two), units take one supply, and the
  bank holds one or two units, so that "can pay", "cannot pay" and "can pay only
  one of two" all occur.  The real numbers only make the runs between these
  cases longer.
* `TownHallSupply` is 2 or 3, `DepotSupply` 1 or 2 and `SupplyLimit` 3 to 6
  instead of 15, 8 and 200: supply runs short, one to four depots answer
  it, and the limit is reached.
* `ReaperBatch` is 2 instead of 5: the count passes multiples and non-multiples.
* `Tag` has six or eight tags.  A run in which they are used up does not
  deadlock: SCVs wait on their way.  The invariants are checked up to there;
  in `calm_live` six tags are enough for the opening and for every depot up to `SupplyLimit`.
* One or two mishaps.  Each property concerns one accident at a time and what
  the handlers make of it; `NoDeadlockInQueue` needs two.
* Openings of one or two orders, chosen for the recursion of
  `ScheduleConstruction`: `OpeningBarracks` pulls in its requirement, and
  `OpeningOrbital` a chain of two, and then finds its second order queued already.
  The second is left to the runs that look for a violation: with it, finding 3
  reaches an opening in which nothing is lost.
* `Workers`: two expansions and three SCVs, two of them from the beginning, with
  an ideal of one harvester by the minerals of a base and two by its refinery
  (eight to sixteen, and three, in the game): three SCVs are one too many for a
  base, so that there is surplus, shortage, a base to balance to, and a worker to
  take off a refinery.  One mishap; with two, the first 7.6 million states showed
  no violation before the run was stopped, so it is not listed.  The theorems
  about `Workers` have no such bounds.
* `ControlGroups`: two reapers; groups share nothing, and one would do for
  the invariants.  The theorems hold for any number.
* `Placement`: footprints and margin are the game's and the code's (2, 3, 5,
  addon 2, margin 2).  The first region is 9 by 12 tiles, and the natural one
  just holds its town hall (5 by 6); one depot, two barracks, one hall: the smallest
  region in which two barracks with their addons and margins get into each other's way.

### Fairness

`Fairness` is what the coordinator and the game provide.  The coordinator's
loop goes on (weak fairness of `BotStep`, of the arrival of commands and of
`Observe`).  The game goes on: income arrives until the bank is full, an SCV
that can pay builds, what is begun is finished, orders are completed.  The
game's actions are disabled while the bot thinks, so weak fairness would say
nothing of them, and strong fairness would let an SCV that can pay for one
moment win over everything; the form `[]<><<P => A>>_vars` says that `P` does
not stay true for ever, over all pauses, without `A` being taken.  A condition
that comes and goes (a bank emptied by trainings at every step) is thus not
promised anything, and `OpeningCompleted` has to follow from the bot's own
order of spending.  Of mishaps nothing is assumed.

In `ControlGroups` (`MarchesOn`) the bot steps for ever, which is the loop of the
coordinator, and the game carries out what a reaper is told (`Travel`), which
is what a path to the enemy's start location gives.  That enemies leave a
reaper alone is the property's premise, not a fairness assumption.  `Workers` and
`Placement` state safety only.

## What is proved

For every value of the constants that satisfies the named assumptions
(`UnitTypeDataAssumption`, `TechLineAssumption`, `GameAssumption`,
`PluginAssumption`, `DispatcherAssumption`; TLC evaluates them in each run):

* `DispatcherProofs!TypeCorrect`: `Spec => []TypeOK`.  Types alone are not
  inductive, because `RepairMan` orders whatever it sees destroyed: the type of
  the copy must be a real one.  The inductive invariant is
  `TypeInv == TypeOK /\ Occupied`, where `Occupied` says that what is alive,
  built, or seen built is not a vacant tag (`TypeInvariance`).  For the
  budget the argument is that `Affordable` is asked with the same numbers that
  `Deduct` then lowers.
* `SupplyProofs!RequestImplemented`: `Spec => RequestSpec`, the refinement, for
  `Untroubled` constants, that is, if no SCV is lost or cannot pay and no site
  is razed before the bot has seen it finished; razing in general, and structures
  that find no place, are allowed.  Finding 4 shows that the condition is needed.  The
  argument follows the depot through the six places.  `Elems` and its lemmas
  let a depot be followed without indices: `ScheduleConstruction` only adds to
  the queue, `BuildHead` turns the head into a command, `SetOut` a command into a
  journey, `Lay` a journey into a site that the bot has not seen, and `ApiOnStep`
  cannot overlook it, because events come first.  For the last two facts a strengthening is needed,
  `SightInv`: an addon's tag names an addon (a razed barracks takes its
  unfinished addon along, never a depot), addons and depots have no orders
  (nothing mutates into or from a depot), what is listed has been seen,
  and while events are issued, exactly what lives and has not been seen is
  still to be announced.  `SightInvariance` proves it without any condition on
  mishaps.
* `SupplyProofs!NeverSkipsInVain`: `Spec => []SupplyRequestPending`, from the
  refinement and the abstract specification.

* `BarracksProofs!BarracksNeverForgotten`: `Spec => []NoForgottenBarracks`, whatever
  goes wrong.  First the order of a step (`StepInv`, theorem `StepInvariance`):
  no events outside the phase of events, no commands before `Builder` runs, a
  listing that is the game's from `ApiOnStep` to the game's next move
  (`Fresh`), and a producer in every training order.  Then `NothingUnseen`:
  whoever got a command that the bot has sent is in `commanded`, and what works
  or is unbuilt at the game's side looked different when last listed, or is in
  `commanded`, so that the client will find it idle and say so.  A refused
  command is covered by `commanded`, which is all the property rests on there.
* `QueueProofs!RequirementAlwaysAhead`: `Spec => []RequirementAhead`, if nothing
  is lost or destroyed (`Calm`; a structure may find no place), what the opening
  requires are structures (`StructuresRequired`: nothing would count an SCV as
  coming), and depots and reactors require nothing that `ScheduleConstruction`
  would put behind them (`UrgentRequireNothing`, as in the runs; finding 1 is
  what happens to an urgent order for which this fails).  The
  queue is followed through `AheadIn`, "whatever is required is in `S` or
  ahead", which concatenation, removal at the head and the chain that
  `ScheduleConstruction` appends keep; `OrdersFit` says who can work on what, so
  that only a command center ever becomes another type, and one that counts for
  a command center as well.  `Coming` therefore counts what `Builder::Build` does,
  the aliases in `Satisfying`.
* `QueueProofs!DeadlockNeedsLoss`: under the same conditions `NoDeadlockInQueue`,
  which the run of finding 1 violates.
* `CountingProofs!BudgetKept`: `Spec => []CommandsWithinBudget`, without any
  condition.  The sums are over the commands of the step; `BudgetInv` says the
  same of `Spent`, for which one more command costs its price more
  (`SpentAppend`).
* `CountingProofs!RequestsMatched`: `Spec => []RequestsAnswered`, if nothing
  finished is razed (else `RepairMan` may order what requires a depot and with
  it a depot), depots and reactors require nothing, and an opening
  names the depots it requires before what requires them (`OpeningNamesDepots`; the
  recursion orders one depot more otherwise, which no one asked
  `QuarterMaster` for).  SCVs may be lost, be unable to pay or find no place,
  and sites may be razed unfinished.  The
  invariant `RequestsInv` counts: depots queued, commanded and travelled for
  (`OnTheWay`) and sites not announced are at most those scheduled so far by
  the opening (`OpenedSoFar`) and one while `m_skip_turn` is set.  Each step of
  the game takes one from a place and adds one to the next (`GameWay`,
  `GameUnannounced`); `OnUnitCreated` resets `m_skip_turn` in the step in which one
  leaves the sum.  The bound is of all depots together, and it is tight: the
  opening's depot and `QuarterMaster`'s own may travel at the same time, the one
  laid first clears `m_skip_turn` (`QuarterMaster.cpp:172`), and `QuarterMaster` asks
  again while the other is still on its way.  If the first was the opening's, two
  of its own are then underway, and they may stay two: what the theorem says is
  that each depot of the opening is mistaken for an answer at most once.
* `CountingProofs!StructuresNeverForgotten`: `Spec => []NoForgottenStructure`, if
  `Untroubled`, with razing of whatever the bot has seen finished.  `TallyInv`
  counts the other way, a lower bound: on the way, or known to the game or to
  the bot (`Known`).  It needs that the bot's copies stay true to type
  (`SeenTrue`, up to the orbital command a command center becomes) and that what
  has fallen was seen finished (`FallenFinished`), since `RepairMan` orders again
  only that.  A copy is marked dead in the very step that orders the structure
  again (`BotKnown`).
* `CountingProofs!CrewNeverExceeds`: `Spec => []WorkersBounded`, if nothing is razed
  (`Unrazed`: a lost hall leaves its workers behind, and the bound with one hall
  less is no longer true), and if the opening and its requirements are structures
  (`OpeningTrainsNobody`).  `HallsInv` follows the worker from order to command to
  production to life: no step of the game or of `Builder` adds to their sum,
  and `Miner`, the only one that does, orders when no order is queued and no
  command is out, at most as many as are lacking (`MinerHires`), and only for halls that
  make nothing, so that these and those in production are together no more than the
  halls.

Sums and cardinalities over queues are within the prover's reach after all.  The
library's induction theorems cannot be instantiated, but well-founded induction
on the subsets of a finite set takes the property as a set (`FiniteInduction`);
from it follow that the recursive function behind `MapThenSumSet` exists, and
that the order of the summands does not matter (`SumsExist`, `SumsAgree`, `SumsCommute`).
The effect of `Append`, `Tail`, `RemoveAt` and `\o` on a count follows from
bijections between the sets of indices (`CountRenumbered`).

For `Workers`, from `WorkersAssumption`, for any number of bases, workers and
mishaps:

* `WorkersProofs!WorkersTypeCorrect`: `Spec => []TypeOK`, by `TypeInv`, which
  also says that only four kinds of commands are ever given.
* `WorkersProofs!HomesStand`: `Spec => []HomeStands` if `~Stranding`.  The
  property alone is not inductive: between the fall of a town hall and its
  event homes are lost already.  `HomeInv` says that whoever is alive or listed
  calls a base of `Hub` its home (a fallen one is still `Hub`'s), that
  whoever calls a fallen base its home is listed, so that `OnUnitDestroyed`
  reaches it, that nobody is born with a home, and that the bases that
  are offered as new homes are `Hub`'s.  `~Stranding` is used in one place, the fall of
  a hall (`GameHomes`).
* `WorkersProofs!GasWorkersAtWork`: `Spec => []GasWorkersHaveOrders`, by
  `OrderInv`: an idle worker keeps its job in vespene only if told to gather
  in this very step, and copies and workers agree while the bot thinks.
* `WorkersProofs!HandsBusy`: `Spec => []NoIdleHand`, by `RestInv`: before
  `MineIdle` an idle worker has no job or has built a refinery, and after it
  it has no job only where there is nowhere to mine; every later operation
  leaves alone whomever it does not command (`LeftAlone`).
* `WorkersProofs!JobsAgree`: `Spec => []JobsMatch` if `~Stranding`, by `JobInv`.
  The jobs may disagree with the orders while events are pending, so the invariant
  says less of idle workers and more of the others: what a living worker does
  fits its job, and what it has been told fits it better.  A command a worker
  inside a refinery does not hear would break that, so `JobInv` also says that nobody
  inside is told anything; the one operation that commands from a stale list,
  `SplitWorkersOff`, is safe because nobody inside belongs to a fallen base
  (`NoneStranded`, the second use of `~Stranding`).  Idle workers are covered by
  `RestInv`.

* `WorkersProofs!RefineriesCrewed`: `Spec => []GasCrewed`, lost bases or not, by
  `CrewInv` (theorem `CrewInvariance`): those who work at a refinery, inside or
  not, and those sent there in this step are no more than it has use for, and
  nobody is at one that does not stand.  The counts that
  `SecureVespeneIncome` takes are the game's, which include the workers inside.
* `WorkersProofs!TransfersNeverOvershoot`: `Spec => BalanceNeverOvershoots`, an
  action property, from `TypeInv` and the arithmetic of `BalanceTips`: one
  worker changes two counts by one, which is why the loop moves no more than
  half of what they differ by.

For `Placement`, from `PlacementAssumption`, for every map, margin and number of
structures, if a barracks covers three tiles and an addon two
(`GameFootprints`; the displacement of the addon in the code is right for these
only): `MarkedOnBuildable`, `NothingMarkedTwice` and `MarginsKept`.  The
inductive invariant is `PlacementInv`: the ground of every structure, and of the
addon it may get, is among the marked squares (`Booked`), so that keeping apart
from these is enough.  What is marked lies inside what was searched, a margin from
its border (`MarkedInsideSearched`), and where the game will put the addon is
what was marked for it (`GroundsAreMarked`).

For `ControlGroups`, for any number of reapers: `GroupsWellFormed`,
`EveryFightLed` (`FightsWhenNear`) and `RetreatOrdered` (`RetreatStands`).  The
inductive invariant `CombatInv` says that a group keeps its reaper while that
lives and is at rest when it is not sent; `UpdateFights` follows the cases of
`Update` from there.

Each invariant and action property of the passing runs is stated by one of
these theorems.  Only model-checked are the liveness properties
(`OpeningCompleted`, `SupplyRequestAnswered`, `MarchesOn`; fairness is beyond the prover's
temporal backend), and the violated properties, which are no theorems.

Conditions on constants are named, and each is met by a run of the same
property: `Calm` by `calm_live`, `Untroubled` by `raided`, no razing by `disorder`
(where all else goes wrong), `Unrazed` by `expand`, `~Stranding` by `mining`.

## What is not modelled, and the plan

Within the modelled parts: MULEs, scans and scouting workers; geysers further
off than a base's own; groups of more than one unit with their regrouping and the
main group, to which nothing is ever added; micro plugins other than the
reaper's; running leaves, sequences and decorators of the behaviour trees,
which no tree in use has; what `BuildingPlacer` would do if anything
called its handlers; and the ground of the first town hall, which the map may
or may not count as buildable (if it does, an addon's place may be marked under it).

Next, in the order of their importance to the bot:

1. **Proofs** - weaker conditions: `RequestsAnswered` and `WorkersBounded` with razing
   (what `RepairMan` may order, and how many halls were lost, would have to enter the
   bounds), and `NoForgottenStructure` for sites razed before they were seen finished, of which the
   code forgets exactly these.
2. **Composition** - `Workers` with `Dispatcher`, so that the builder of a
   structure is one of the workers, and the training orders of a fallen town hall.
3. **Assignees** - orders that name their producer, among them addons with a
   preset barracks, whose dead assignee is the subject of a hazard that no
   property covers yet.

Not planned: Overseer (map analysis before the game, vendored), other races'
plugins and strategies, which `Dispatcher` never installs for Terran, logging
and chat, and the transport layer and contributed libraries of cpp-sc2, which
make up most of the repository's lines and none of the bot's logic.
