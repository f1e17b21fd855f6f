--------------------------- MODULE ControlGroups ----------------------------
(***************************************************************************)
(* The attack: Combat (src/plugins/Combat.cpp) keeps one control group     *)
(* (src/groups/ControlGroup.cpp) per reaper and sends it to the start      *)
(* location of the enemy; near enemies the behaviour tree of the reaper    *)
(* (src/plugins/micro/Reaper.h) takes over.                                *)
(*                                                                         *)
(* A group of one has no spread, so it never regroups; the main group,     *)
(* which nothing is ever added to, is left out.                            *)
(***************************************************************************)
EXTENDS Naturals

CONSTANT Reaper

VARIABLES
    place,   \* of each reaper: "unborn", "home", "field", "target" or "dead"
    health,  \* "full", "hurt" or "low" (below 35)
    near,    \* reapers with an enemy within AggroRadius
    order,   \* what each reaper does: "none", "approach", "retreat", "fire"
    group    \* its control group

vars == <<place, health, near, order, group>>

Places == {"unborn", "home", "field", "target", "dead"}
Healths == {"full", "hurt", "low"}
MovementState == {"idle", "approach", "combat"}
Alive == {r \in Reaper : place[r] \notin {"unborn", "dead"}}

(* Of the units of a group, only whether it has its one; "none" is a group  *)
(* Combat has not made yet.                                                 *)
Group == [manned : BOOLEAN, sent : BOOLEAN, state : MovementState \cup {"none"}]
NoGroup == [manned |-> FALSE, sent |-> FALSE, state |-> "none"]

(* ControlGroup(unit): sent from the beginning, though never told where to. *)
NewGroup == [manned |-> TRUE, sent |-> TRUE, state |-> "idle"]

-----------------------------------------------------------------------------
(* ControlGroup *)

Approach(g) == [g EXCEPT !.state = "approach"]
(* Mutant: no state to go on from.                                          *)
AbortMovementForGood(g) == [g EXCEPT !.state = "none"]
AbortMovement(g) == [g EXCEPT !.state = "idle"]
Send(g) == Approach([g EXCEPT !.sent = TRUE])

(* OnStep: dead units leave the group. *)
CleanUp(g, r) == [g EXCEPT !.manned = @ /\ r \in Alive]

Update(g, enemies) ==
    CASE ~g.sent -> g
      [] g.sent /\ ~g.manned -> AbortMovement([g EXCEPT !.sent = FALSE])
      [] g.sent /\ g.manned /\ enemies -> [g EXCEPT !.state = "combat"]
      [] g.sent /\ g.manned /\ ~enemies ->
            CASE g.state = "combat" -> AbortMovement([g EXCEPT !.sent = FALSE])
              [] g.state = "approach" -> g
              [] g.state = "idle" -> Approach(g)

(* UpdateMovement: its state, and whether the group orders its units on.    *)
Arrived(g, r) == [g EXCEPT !.state = IF @ = "approach" /\ place[r] = "target"
                                       THEN "idle" ELSE @]
(* Mutant: falls through.                                                   *)
MovesOnEvenInCombat(g) == g.state \in {"approach", "combat"}
MovesOn(g) == g.state = "approach"

(* Combat::OnStep, for one group. *)
(* Mutant: never sent again.                                                *)
EngagedOnce(g, r) == Update(CleanUp(g, r), r \in near)
Engaged(g, r) ==
    LET sent == IF ~g.sent /\ g.manned THEN Send(g) ELSE g
    IN  Update(CleanUp(sent, r), r \in near)

-----------------------------------------------------------------------------
(* The behaviour tree of a reaper.  What a leaf may return: its status and   *)
(* the order the reaper has then.                                           *)
Success(o) == [status |-> "SUCCESS", order |-> o]
Failure(r) == [status |-> "FAILURE", order |-> order[r]]

(* It fails at the very point of the start location, which "home" surrounds.*)
RetreatBecauseOfHealth(r) ==
    (IF health[r] = "low" THEN {Success("retreat")} ELSE {})
    \cup (IF health[r] # "low" \/ place[r] = "home" THEN {Failure(r)} ELSE {})

(* It fails while the weapon cools down. *)
FireWeapon(r) == {Success("fire"), Failure(r)}

BackUpAndThrowKD8Charge(r) ==
    {Success(IF health[r] = "full" THEN order[r] ELSE "retreat")}

(* Selector::Run, for two children; no leaf is left RUNNING. *)
Selector(first, second) ==
    {x \in first : x.status = "SUCCESS"}
    \cup (IF \E x \in first : x.status = "FAILURE" THEN second ELSE {})

OnCombatStep(r) ==
    {x.order : x \in Selector(RetreatBecauseOfHealth(r),
                              Selector(FireWeapon(r), BackUpAndThrowKD8Charge(r)))}

(* The order a reaper ends the step with: the last command counts. *)
Outcomes(r, g) ==
    IF r \notin Alive \/ ~g.manned THEN {order[r]}
    ELSE IF MovesOn(g) THEN {"approach"}
    ELSE IF g.state = "combat" THEN OnCombatStep(r)
    ELSE {order[r]}

(* A step of the bot: reapers not seen before get their group              *)
(* (Combat::OnUnitCreated), then Combat::OnStep.                            *)
Step ==
    LET known(r) == IF group[r] = NoGroup /\ r \in Alive THEN NewGroup ELSE group[r]
        engaged == [r \in Reaper |-> IF known(r) = NoGroup THEN NoGroup
                                     ELSE Engaged(known(r), r)]
    IN  /\ group' = [r \in Reaper |-> Arrived(engaged[r], r)]
        /\ order' \in {o \in [Reaper -> {"none", "approach", "retreat", "fire"}] :
                         \A r \in Reaper : o[r] \in Outcomes(r, engaged[r])}
        /\ UNCHANGED <<place, health, near>>

-----------------------------------------------------------------------------
(* The game *)

Born(r) ==
    /\ place[r] = "unborn" /\ place' = [place EXCEPT ![r] = "home"]
    /\ UNCHANGED <<health, near, order, group>>

Die(r) ==
    /\ r \in Alive /\ r \in near /\ place' = [place EXCEPT ![r] = "dead"]
    /\ near' = near \ {r}
    /\ UNCHANGED <<health, order, group>>

(* Reapers heal out of combat. *)
Wounded(r) ==
    /\ r \in Alive
    /\ \/ r \in near /\ health[r] # "low"
          /\ health' = [health EXCEPT ![r] = IF @ = "full" THEN "hurt" ELSE "low"]
       \/ r \notin near /\ health[r] # "full"
          /\ health' = [health EXCEPT ![r] = IF @ = "low" THEN "hurt" ELSE "full"]
    /\ UNCHANGED <<place, near, order, group>>

Travel(r) ==
    /\ r \in Alive
    /\ \/ order[r] = "approach" /\ place[r] # "target"
          /\ place' = [place EXCEPT ![r] = IF @ = "home" THEN "field" ELSE "target"]
       \/ order[r] = "retreat" /\ place[r] # "home"
          /\ place' = [place EXCEPT ![r] = IF @ = "target" THEN "field" ELSE "home"]
    /\ UNCHANGED <<health, near, order, group>>

(* Enemies come near, or are left behind or killed. *)
Meet(r) ==
    /\ r \in Alive
    /\ near' \in {near \cup {r}, near \ {r}} /\ near' # near
    /\ UNCHANGED <<place, health, order, group>>

Init ==
    /\ place = [r \in Reaper |-> "unborn"] /\ health = [r \in Reaper |-> "full"]
    /\ near = {} /\ order = [r \in Reaper |-> "none"]
    /\ group = [r \in Reaper |-> NoGroup]

Game == \E r \in Reaper : Born(r) \/ Die(r) \/ Wounded(r) \/ Travel(r) \/ Meet(r)
Next == Step \/ Game

Spec == Init /\ [][Next]_vars

(* The bot steps for ever, and the game carries out what it is told. *)
FairSpec == Spec /\ WF_vars(Step) /\ \A r \in Reaper : WF_vars(Travel(r))

-----------------------------------------------------------------------------
TypeOK ==
    /\ place \in [Reaper -> Places] /\ health \in [Reaper -> Healths]
    /\ near \subseteq Reaper
    /\ order \in [Reaper -> {"none", "approach", "retreat", "fire"}]
    /\ group \in [Reaper -> Group]
    /\ \A r \in Reaper : group[r].state = "none" => group[r] = NoGroup

(* Every step ends with exactly the groups in combat whose reaper lives and *)
(* has enemies near: no fight is missed, whatever the group was at, and     *)
(* none is led without a reaper or an enemy.                                *)
FightsWhenNear ==
    [][Step => \A r \in Reaper :
                  (group'[r].state = "combat") <=> (r \in Alive /\ r \in near)]_vars

(* A reaper low on health with enemies near is pulled back: no command of   *)
(* its group overrides the retreat.                                         *)
RetreatStands ==
    [][Step => \A r \in Alive \cap near :
                  health[r] = "low" /\ place[r] # "home" => order'[r] = "retreat"]_vars

(* A reaper that is left alone reaches the enemy's start location, whatever *)
(* it was doing when the last enemy was gone.                               *)
MarchesOn ==
    \A r \in Reaper : <>[](r \in Alive /\ r \notin near) => <>[](place[r] = "target")
=============================================================================
