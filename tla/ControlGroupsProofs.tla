------------------------ MODULE ControlGroupsProofs -------------------------
(***************************************************************************)
(* Theorems about ControlGroups, for any number of reapers.                *)
(***************************************************************************)
EXTENDS ControlGroups, TLAPS

OrderSet == {"none", "approach", "retreat", "fire"}

(***************************************************************************)
(* The invariant: a group Combat has made has a state to go on from, keeps *)
(* its reaper while that lives, and is at rest when it is not sent.        *)
(***************************************************************************)
Ready(g) == /\ g \in [manned : BOOLEAN, sent : BOOLEAN, state : MovementState]
            /\ ~g.sent => g.state = "idle"

GroupInv ==
    \A r \in Reaper :
       \/ group[r] = NoGroup
       \/ Ready(group[r]) /\ place[r] # "unborn" /\ (r \in Alive => group[r].manned)

VarTypes ==
    /\ place \in [Reaper -> Places] /\ health \in [Reaper -> Healths]
    /\ near \subseteq Reaper /\ order \in [Reaper -> OrderSet]
    /\ DOMAIN group = Reaper /\ group = [r \in Reaper |-> group[r]]

CombatInv == VarTypes /\ GroupInv

(***************************************************************************)
(* One group in one step of Combat.                                        *)
(***************************************************************************)
LEMMA NewGroupReady == Ready(NewGroup) /\ NewGroup # NoGroup /\ NewGroup.manned
BY DEF Ready, NewGroup, NoGroup, MovementState

LEMMA SentBeforeUpdate ==
    ASSUME NEW g, Ready(g), NEW r
    PROVE  LET s == CleanUp(IF ~g.sent /\ g.manned THEN Send(g) ELSE g, r)
           IN  /\ Ready(s)
               /\ s.manned <=> (g.manned /\ r \in Alive)
               /\ s.manned => s.sent
<1> DEFINE sent == IF ~g.sent /\ g.manned THEN Send(g) ELSE g
           s == CleanUp(sent, r)
<1>1. /\ Ready(sent) /\ sent.manned = g.manned
      /\ sent.manned => sent.sent
  BY DEF Ready, Send, Approach, MovementState
<1> HIDE DEF sent
<1>2. Ready(s) /\ s.manned = (sent.manned /\ r \in Alive) /\ s.sent = sent.sent
  BY <1>1 DEF Ready, CleanUp
<1> QED BY <1>1, <1>2 DEF sent

LEMMA UpdateFights ==
    ASSUME NEW s, Ready(s), s.manned => s.sent, NEW enemies \in BOOLEAN
    PROVE  /\ Ready(Update(s, enemies))
           /\ Update(s, enemies).manned = s.manned
           /\ (Update(s, enemies).state = "combat") <=> (s.manned /\ enemies)
<1>1. CASE ~s.sent
  BY <1>1 DEF Update, Ready
<1>2. CASE s.sent /\ ~s.manned
  BY <1>2 DEF Update, Ready, AbortMovement, MovementState
<1>3. CASE s.sent /\ s.manned /\ enemies
  BY <1>3 DEF Update, Ready, MovementState
<1>4. CASE s.sent /\ s.manned /\ ~enemies
  <2>1. s.state \in MovementState
    BY DEF Ready
  <2>2. CASE s.state = "combat"
    BY <1>4, <2>2 DEF Update, Ready, AbortMovement, MovementState
  <2>3. CASE s.state = "approach"
    BY <1>4, <2>3 DEF Update
  <2>4. CASE s.state = "idle"
    BY <1>4, <2>4 DEF Update, Ready, Approach, MovementState
  <2> QED BY <2>1, <2>2, <2>3, <2>4 DEF MovementState
<1> QED BY <1>1, <1>2, <1>3, <1>4 DEF Ready

LEMMA EngagedFights ==
    ASSUME NEW g, Ready(g), NEW r
    PROVE  /\ Ready(Engaged(g, r))
           /\ Engaged(g, r).manned <=> (g.manned /\ r \in Alive)
           /\ (Engaged(g, r).state = "combat")
                 <=> (g.manned /\ r \in Alive /\ r \in near)
<1> DEFINE s == CleanUp(IF ~g.sent /\ g.manned THEN Send(g) ELSE g, r)
<1>1. /\ Ready(s) /\ (s.manned => s.sent)
      /\ s.manned <=> (g.manned /\ r \in Alive)
  BY SentBeforeUpdate
<1>2. Engaged(g, r) = Update(s, r \in near)
  BY DEF Engaged
<1>3. (r \in near) \in BOOLEAN
  OBVIOUS
<1> HIDE DEF s
<1>4. /\ Ready(Update(s, r \in near)) /\ Update(s, r \in near).manned = s.manned
      /\ (Update(s, r \in near).state = "combat") <=> (s.manned /\ r \in near)
  BY <1>1, <1>3, UpdateFights
<1> QED BY <1>1, <1>2, <1>4

LEMMA ArrivedKeeps ==
    ASSUME NEW g, Ready(g), NEW r
    PROVE  /\ Ready(Arrived(g, r)) /\ Arrived(g, r).manned = g.manned
           /\ (Arrived(g, r).state = "combat") <=> (g.state = "combat")
BY DEF Ready, Arrived, MovementState

LEMMA ArrivedNowhere == ASSUME NEW r PROVE Arrived(NoGroup, r) = NoGroup
BY DEF Arrived, NoGroup

(***************************************************************************)
(* A step of the bot.                                                      *)
(***************************************************************************)
Known(r) == IF group[r] = NoGroup /\ r \in Alive THEN NewGroup ELSE group[r]
EngagedNow(r) == IF Known(r) = NoGroup THEN NoGroup ELSE Engaged(Known(r), r)

LEMMA StepOfGroup ==
    ASSUME CombatInv, NEW r \in Reaper
    PROVE  \/ EngagedNow(r) = NoGroup /\ r \notin Alive
           \/ /\ Ready(EngagedNow(r)) /\ place[r] # "unborn"
              /\ r \in Alive => EngagedNow(r).manned
              /\ (EngagedNow(r).state = "combat") <=> (r \in Alive /\ r \in near)
<1>1. CASE Known(r) = NoGroup
  BY <1>1, NewGroupReady DEF EngagedNow, Known
<1>2. CASE Known(r) # NoGroup
  <2>1. /\ Ready(Known(r)) /\ place[r] # "unborn"
        /\ r \in Alive => Known(r).manned
    BY <1>2, NewGroupReady DEF Known, CombatInv, GroupInv, Alive
  <2>2. /\ Ready(Engaged(Known(r), r))
        /\ Engaged(Known(r), r).manned <=> (Known(r).manned /\ r \in Alive)
        /\ (Engaged(Known(r), r).state = "combat")
              <=> (Known(r).manned /\ r \in Alive /\ r \in near)
    BY <2>1, EngagedFights
  <2>3. EngagedNow(r) = Engaged(Known(r), r)
    BY <1>2 DEF EngagedNow
  <2> QED BY <2>1, <2>2, <2>3
<1> QED BY <1>1, <1>2

LEMMA StepAsNamed ==
    ASSUME Step
    PROVE  /\ group' = [r \in Reaper |-> Arrived(EngagedNow(r), r)]
           /\ order' \in [Reaper -> OrderSet]
           /\ \A r \in Reaper : order'[r] \in Outcomes(r, EngagedNow(r))
           /\ UNCHANGED <<place, health, near>>
BY DEF Step, EngagedNow, Known, OrderSet

LEMMA StepKeeps ==
    ASSUME CombatInv, Step PROVE CombatInv'
<1>1. /\ group' = [r \in Reaper |-> Arrived(EngagedNow(r), r)]
      /\ order' \in [Reaper -> OrderSet] /\ UNCHANGED <<place, health, near>>
  BY StepAsNamed
<1>2. VarTypes'
  BY <1>1 DEF CombatInv, VarTypes
<1>3. Alive' = Alive
  BY <1>1 DEF Alive
<1>4. ASSUME NEW r \in Reaper
      PROVE  \/ group'[r] = NoGroup
             \/ /\ Ready(group'[r]) /\ place'[r] # "unborn"
                /\ r \in Alive' => group'[r].manned
  <2>1. group'[r] = Arrived(EngagedNow(r), r)
    BY <1>1
  <2>2. CASE EngagedNow(r) = NoGroup
    BY <2>1, <2>2, ArrivedNowhere
  <2>3. CASE EngagedNow(r) # NoGroup
    <3>1. /\ Ready(EngagedNow(r)) /\ place[r] # "unborn"
          /\ r \in Alive => EngagedNow(r).manned
      BY <2>3, StepOfGroup
    <3>2. /\ Ready(Arrived(EngagedNow(r), r))
          /\ Arrived(EngagedNow(r), r).manned = EngagedNow(r).manned
      BY <3>1, ArrivedKeeps
    <3> QED BY <1>1, <1>3, <2>1, <3>1, <3>2
  <2> QED BY <2>2, <2>3
<1>5. GroupInv'
  BY <1>4 DEF GroupInv, Ready, NoGroup
<1> QED BY <1>2, <1>5 DEF CombatInv

LEMMA GameKeeps ==
    ASSUME CombatInv, NEW r \in Reaper,
           Born(r) \/ Die(r) \/ Wounded(r) \/ Travel(r) \/ Meet(r)
    PROVE  CombatInv'
<1>1. group' = group /\ order' = order
  BY DEF Born, Die, Wounded, Travel, Meet
<1>2. VarTypes'
  BY <1>1 DEF CombatInv, VarTypes, Born, Die, Wounded, Travel, Meet, Places, Healths
<1>3. ASSUME NEW x \in Reaper, group[x] # NoGroup
      PROVE  place'[x] # "unborn" /\ (x \in Alive' => x \in Alive)
  <2>1. place[x] # "unborn"
    BY <1>3 DEF CombatInv, GroupInv
  <2> QED BY <1>3, <2>1 DEF CombatInv, VarTypes, Alive, Born, Die, Wounded, Travel, Meet
<1>4. GroupInv'
  BY <1>1, <1>3 DEF CombatInv, GroupInv, Ready, NoGroup
<1> QED BY <1>2, <1>4 DEF CombatInv

(* Whatever the enemy does, CombatInv is an invariant. *)
THEOREM CombatInvariance == Spec => []CombatInv
<1>1. Init => CombatInv
  BY DEF Init, CombatInv, VarTypes, GroupInv, Places, Healths, OrderSet
<1>2. CombatInv /\ [Next]_vars => CombatInv'
  <2> SUFFICES ASSUME CombatInv, [Next]_vars PROVE CombatInv'
    OBVIOUS
  <2>1. CASE Step
    BY <2>1, StepKeeps
  <2>2. CASE Game
    BY <2>2, GameKeeps DEF Game
  <2>3. CASE UNCHANGED vars
    BY <2>3 DEF vars, CombatInv, VarTypes, GroupInv, Alive, Ready, NoGroup
  <2> QED BY <2>1, <2>2, <2>3 DEF Next
<1> QED BY <1>1, <1>2, PTL DEF Spec

(* TypeOK of ControlGroups: a group that was made never loses its state. *)
THEOREM GroupsWellFormed == Spec => []TypeOK
<1>1. CombatInv => TypeOK
  <2> SUFFICES ASSUME CombatInv PROVE TypeOK
    OBVIOUS
  <2>1. ASSUME NEW r \in Reaper
        PROVE  group[r] \in Group /\ (group[r].state = "none" => group[r] = NoGroup)
    <3>1. CASE group[r] = NoGroup
      BY <3>1 DEF NoGroup, Group
    <3>2. CASE Ready(group[r])
      <4>1. group[r].state # "none"
        BY <3>2 DEF Ready, MovementState
      <4>2. group[r] \in Group
        BY <3>2 DEF Ready, Group
      <4> QED BY <4>1, <4>2
    <3> QED BY <3>1, <3>2 DEF CombatInv, GroupInv
  <2>2. group \in [Reaper -> Group]
    BY <2>1 DEF CombatInv, VarTypes
  <2> QED BY <2>1, <2>2 DEF CombatInv, VarTypes, OrderSet, TypeOK
<1> QED BY <1>1, CombatInvariance, PTL

(* No fight is missed by a control group, and none is led in vain. *)
THEOREM EveryFightLed == Spec => FightsWhenNear
<1> DEFINE Led == Step => \A r \in Reaper :
                     (group'[r].state = "combat") <=> (r \in Alive /\ r \in near)
<1>1. CombatInv /\ [Next]_vars => Led
  <2> SUFFICES ASSUME CombatInv, Step, NEW r \in Reaper
               PROVE  (group'[r].state = "combat") <=> (r \in Alive /\ r \in near)
    OBVIOUS
  <2>1. group'[r] = Arrived(EngagedNow(r), r)
    BY StepAsNamed
  <2>2. CASE EngagedNow(r) = NoGroup
    <3>1. group'[r].state # "combat"
      BY <2>1, <2>2, ArrivedNowhere DEF NoGroup
    <3>2. r \notin Alive
      BY <2>2, StepOfGroup DEF Ready, NoGroup, MovementState
    <3> QED BY <3>1, <3>2
  <2>3. CASE EngagedNow(r) # NoGroup
    <3>1. /\ Ready(EngagedNow(r))
          /\ (EngagedNow(r).state = "combat") <=> (r \in Alive /\ r \in near)
      BY <2>3, StepOfGroup
    <3> QED BY <2>1, <3>1, ArrivedKeeps
  <2> QED BY <2>2, <2>3
<1>2. CombatInv /\ [Next]_vars => [Led]_vars
  BY <1>1
<1> QED BY <1>2, CombatInvariance, PTL DEF Spec, FightsWhenNear

(* A hurt reaper with enemies near is pulled back, whatever else its group  *)
(* orders in that step.                                                     *)
THEOREM RetreatOrdered == Spec => RetreatStands
<1> DEFINE Pulled == Step => \A r \in Alive \cap near :
                        health[r] = "low" /\ place[r] # "home" => order'[r] = "retreat"
<1>1. CombatInv /\ [Next]_vars => Pulled
  <2> SUFFICES ASSUME CombatInv, Step, NEW r \in Alive \cap near,
                      health[r] = "low", place[r] # "home"
               PROVE  order'[r] = "retreat"
    OBVIOUS
  <2>1. r \in Reaper
    BY DEF Alive
  <2>2. EngagedNow(r).manned /\ EngagedNow(r).state = "combat"
    BY <2>1, StepOfGroup
  <2>3. order'[r] \in OnCombatStep(r)
    <3>1. order'[r] \in Outcomes(r, EngagedNow(r))
      BY <2>1, StepAsNamed
    <3>2. r \in Alive /\ ~MovesOn(EngagedNow(r))
      BY <2>2 DEF MovesOn
    <3> QED BY <2>2, <3>1, <3>2 DEF Outcomes
  <2>4. OnCombatStep(r) = {"retreat"}
    <3> DEFINE s == Success("retreat")
               rest == Selector(FireWeapon(r), BackUpAndThrowKD8Charge(r))
    <3>1. RetreatBecauseOfHealth(r) = {s}
      BY DEF RetreatBecauseOfHealth
    <3>2. s.status = "SUCCESS" /\ s.order = "retreat"
      BY DEF Success
    <3> HIDE DEF s, rest
    <3>3. Selector({s}, rest) = {s}
      BY <3>2 DEF Selector
    <3>4. OnCombatStep(r) = {x.order : x \in {s}}
      BY <3>1, <3>3 DEF OnCombatStep, rest
    <3> QED BY <3>2, <3>4
  <2> QED BY <2>3, <2>4
<1>2. CombatInv /\ [Next]_vars => [Pulled]_vars
  BY <1>1
<1> QED BY <1>2, CombatInvariance, PTL DEF Spec, RetreatStands
=============================================================================
