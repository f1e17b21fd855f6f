------------------------------ MODULE Observer ------------------------------
(***************************************************************************)
(* What the bot sees of the game: the client library (cpp-sc2) compares    *)
(* two observations and turns the difference into events, and the API      *)
(* layer (src/core/API.cpp) hands out copies of the units.                 *)
(*                                                                         *)
(* The copies are older than the events.  The list of units, and every     *)
(* copy but the one of the event at hand, are those of the previous step   *)
(* until Interface::OnStep, which runs after all events.                   *)
(***************************************************************************)
EXTENDS Game

VARIABLES
    view,       \* m_unit_map: tag -> the copy of the unit, Vacant if none
    listed,     \* m_last_step_units
    commanded,  \* tags of the commands of the last SendActions
    events      \* events the client has still to issue for this observation

obsVars == <<view, listed, commanded, events>>

(* IssueEvents: all that were destroyed, then all that were created, then   *)
(* all that are idle.  "born" counts the created reapers.                   *)
NoEvents == [destroyed |-> {}, created |-> {}, born |-> 0, idle |-> {}]
EventRecord == [destroyed : SUBSET Tag, created : SUBSET Tag, born : Nat,
                idle : SUBSET Tag]

Existing == {u \in Tag : units[u].alive}

(* Mutant: a failed command is not reported.                                *)
TurnedIdleUnlessRefused(u) ==
    /\ units[u].orders = <<>> /\ units[u].built
    /\ u \notin listed \/ view[u].orders # <<>> \/ ~view[u].built

(* IssueIdleEvent: idle now, and new, or busy or unfinished before, or the  *)
(* addressee of a command that must have failed.                            *)
TurnedIdle(u) ==
    /\ units[u].orders = <<>> /\ units[u].built
    /\ \/ u \notin listed
       \/ view[u].orders # <<>>
       \/ ~view[u].built
       \/ u \in commanded

(* Mutant: what is not finished is not announced.                           *)
NewEventsFinishedOnly ==
    [destroyed |-> listed \ Existing,
     created   |-> {u \in Existing \ listed : units[u].built},
     born      |-> reapers,
     idle      |-> {u \in Existing : TurnedIdle(u)}]

(* UpdateObservation and the scan of IssueEvents over both observations.    *)
NewEvents ==
    [destroyed |-> listed \ Existing,
     created   |-> Existing \ listed,
     born      |-> reapers,
     idle      |-> {u \in Existing : TurnedIdle(u)}]

(* WrapAndUpdateUnit: the copy of this one unit is refreshed.  A dead unit  *)
(* is no longer observed: only its is_alive changes.                        *)
Refresh(u) ==
    view' = [view EXCEPT ![u] = IF units[u].alive THEN units[u]
                                ELSE [@ EXCEPT !.alive = FALSE]]

(* Interface::OnStep: every unit in the game is copied and listed.          *)
RefreshAll ==
    /\ view' = [u \in Tag |-> IF u \in Existing THEN units[u] ELSE view[u]]
    /\ listed' = Existing

(* Filters of src/core/Helpers.cpp.  None asks whether the unit is alive.   *)
IsUnit(u, type) == view[u].type = type /\ view[u].built
(* A dead addon is looked up all the same, and still has its type: the      *)
(* client keeps its copy of it.  Observer::GetUnit asserts that it does not *)
(* come to that; NDEBUG builds, which are modelled, go on.                  *)
HasReactor(u) == /\ view[u].addon # NullTag
                 /\ view[view[u].addon].type = "BarracksReactor"
HasNoAddon(u) == view[u].addon = NullTag
IsIdle(u) == view[u].orders = <<>>
IsIdleUnit(u, type) ==
    /\ IsUnit(u, type)
    /\ IF HasReactor(u) THEN Len(view[u].orders) < 2 ELSE IsIdle(u)

OneOf(types) == {u \in listed : view[u].built /\ view[u].type \in types}

(* The types CountUnitType finds at least one unit of. *)
Standing == {view[u].type : u \in {v \in listed : view[v].built}}
=============================================================================
