----------------------------- MODULE Placement ------------------------------
(***************************************************************************)
(* Where the bot builds: BuildingPlacer (src/core/BuildingPlacer.cpp) and  *)
(* the blueprint Building (src/blueprints/Building.cpp).                   *)
(*                                                                         *)
(* BuildingPlacer keeps the tiles it has promised and nothing else: its    *)
(* handlers of units are never called, and nothing that is marked is ever  *)
(* freed, be the structure lost or never laid.  What stands on the ground  *)
(* it learns from the game, one structure at a time.                       *)
(*                                                                         *)
(* The regions are scanned column by column and the game may refuse a      *)
(* place for the units on it, so any place that passes may be taken.       *)
(* Refineries are in Workers.                                              *)
(***************************************************************************)
EXTENDS Integers, FiniteSets

CONSTANTS
    Expansion,   \* Hub::GetExpansions
    Tiles,       \* m_buildableTiles of the region of each
    Site,        \* the tile at the corner of its town hall
    Start,       \* the expansion with a town hall from the beginning
    Size,        \* of "depot", "barracks" and "hall": 2, 3 and 5
    AddonSize,   \* AddonSize, 2
    Margin,      \* DefaultBuildingMargin, 2
    Limit        \* bound on the orders for each kind

Kind == {"depot", "barracks", "hall"}

ASSUME PlacementAssumption ==
    /\ Start \in Expansion
    /\ Tiles \in [Expansion -> SUBSET (Int \X Int)]
    /\ Site \in [Expansion -> Int \X Int]
    /\ Size \in [Kind -> 1 .. Size["hall"]] /\ AddonSize \in 1 .. Size["hall"]
    /\ Margin \in Nat
    /\ Limit \in [Kind -> Nat]

VARIABLES
    occupied,  \* m_occupiedTiles, as the squares that were marked
    placed,    \* what the bot has found a place for, and what became of it
    start      \* does the first town hall stand?

vars == <<occupied, placed, start>>

Square(x, y, n) == [x |-> x, y |-> y, n |-> n]
Covered(s) == (s.x .. s.x + s.n - 1) \X (s.y .. s.y + s.n - 1)

(* Two squares with at least gap tiles between them. *)
Apart(a, b, gap) ==
    \/ a.x + a.n + gap <= b.x \/ b.x + b.n + gap <= a.x
    \/ a.y + a.n + gap <= b.y \/ b.y + b.n + gap <= a.y

(* Where the game puts the addon: GetTerranAddonPosition, from the centre. *)
AddonGround(s) ==
    Square((2 * s.x + s.n + 5 - AddonSize) \div 2,
           (2 * s.y + s.n - 1 - AddonSize) \div 2, AddonSize)

IsAddonBuilding(kind) == kind = "barracks"
Grounds(b) == {b.ground} \cup (IF IsAddonBuilding(b.kind) THEN {AddonGround(b.ground)}
                                                          ELSE {})
TownHallLocation(e) == Square(Site[e][1], Site[e][2], Size["hall"])

Standing ==
    {b.ground : b \in {c \in placed : c.status = "stands"}}
    \cup {AddonGround(b.ground) : b \in {c \in placed : c.addon}}
    \cup (IF start THEN {TownHallLocation(Start)} ELSE {})

-----------------------------------------------------------------------------
(* BuildingPlacer *)

(* The corners from which a square of n tiles is buildable. *)
Corners == [e \in Expansion |->
              [n \in 1 .. Size["hall"] + 2 * Margin |->
                 {p \in Tiles[e] : Covered(Square(p[1], p[2], n)) \subseteq Tiles[e]}]]

IsBuildSpaceFree(s, e) ==
    /\ <<s.x, s.y>> \in Corners[e][s.n]
    /\ \A o \in occupied : Apart(o, s, 0)

(* Query::CanBePlaced asks about the structure, not about its addon. *)
CanBePlaced(s) == \A o \in Standing : Apart(o, s, 0)

BuildingMargin(kind) == IF kind = "depot" THEN 0 ELSE Margin

(* Mutant: the margin not searched.                                         *)
NothingAround(kind) == 0
(* Mutant: the margin counted once.                                         *)
AroundOnOneSide(kind) == BuildingMargin(kind)
Around(kind) == 2 * BuildingMargin(kind)

(* What is searched, and from its corner what is marked. *)
Searched(kind, p) ==
    LET n == Size[kind]
    IN  {Square(p[1], p[2], n + Around(kind))}
        \cup IF IsAddonBuilding(kind)
               THEN {Square(p[1] + n, p[2], AddonSize + Around(kind))} ELSE {}

Ground(kind, p) ==
    Square(p[1] + BuildingMargin(kind), p[2] + BuildingMargin(kind), Size[kind])
(* Mutant: the addon's tiles left.                                          *)
MarkedForStructure(kind, p) == {Ground(kind, p)}
Marked(kind, p) ==
    LET s == Ground(kind, p)
    IN  {s} \cup IF IsAddonBuilding(kind)
                   THEN {Square(s.x + s.n, s.y, AddonSize)} ELSE {}

MarkTilesAsReserved(squares) == occupied' = occupied \cup squares

-----------------------------------------------------------------------------
(* Building::Build: the place is taken even if no worker is free to build.  *)
Taken(kind, s) ==
    \E status \in {"ordered", "lost"} :
       placed' = placed \cup {[kind |-> kind, ground |-> s, status |-> status,
                                addon |-> FALSE]}

(* All expansions are neutral to BuildingPlacer: Hub never tells m_owner.   *)
BuildAtExpansion(e) ==
    LET s == TownHallLocation(e)
    IN  /\ IsBuildSpaceFree(s, e) /\ CanBePlaced(s)
        /\ MarkTilesAsReserved({s}) /\ Taken("hall", s)

BuildInRegion(kind, e) ==
    \E p \in Corners[e][Size[kind] + Around(kind)] :
       /\ \A s \in Searched(kind, p) : IsBuildSpaceFree(s, e)
       /\ CanBePlaced(Ground(kind, p))
       /\ MarkTilesAsReserved(Marked(kind, p)) /\ Taken(kind, Ground(kind, p))

Build(kind) ==
    /\ Cardinality({b \in placed : b.kind = kind}) < Limit[kind]
    /\ \E e \in Expansion :
          \/ kind = "hall" /\ BuildAtExpansion(e)
          \/ BuildInRegion(kind, e)
    /\ UNCHANGED start

-----------------------------------------------------------------------------
(* The game *)

Becomes(b, c) == placed' = (placed \ {b}) \cup {c} /\ UNCHANGED <<occupied, start>>

Lay(b) ==
    /\ b.status = "ordered" /\ CanBePlaced(b.ground)
    /\ Becomes(b, [b EXCEPT !.status = "stands"])

(* The builder dies, or the structure is destroyed; an addon outlives it.   *)
Lose(b) == b.status # "lost" /\ Becomes(b, [b EXCEPT !.status = "lost"])

BuildAddon(b) ==
    /\ IsAddonBuilding(b.kind) /\ b.status = "stands" /\ ~b.addon
    /\ CanBePlaced(AddonGround(b.ground)) /\ Becomes(b, [b EXCEPT !.addon = TRUE])

LoseAddon(b) == b.addon /\ Becomes(b, [b EXCEPT !.addon = FALSE])

LoseStart == start /\ start' = FALSE /\ UNCHANGED <<occupied, placed>>

Init == occupied = {} /\ placed = {} /\ start = TRUE

Game == (\E b \in placed : Lay(b) \/ Lose(b) \/ BuildAddon(b) \/ LoseAddon(b))
        \/ LoseStart
Next == (\E kind \in Kind : Build(kind)) \/ Game

Spec == Init /\ [][Next]_vars

-----------------------------------------------------------------------------
(* Every marked square lies on buildable tiles of a region. *)
TypeOK ==
    /\ start \in BOOLEAN
    /\ \A b \in placed : /\ b.kind \in Kind /\ b.addon \in BOOLEAN
                         /\ b.status \in {"ordered", "stands", "lost"}
    /\ \A s \in occupied \cup {b.ground : b \in placed} :
          \E e \in Expansion : Covered(s) \subseteq Tiles[e]

(* "Tried to mark already occupied tile as reserved" (MarkTilesAsReserved)  *)
(* never happens, and what is reserved is what will be built on: the ground *)
(* of no structure reaches that of another, nor the ground on which the     *)
(* game will put the addon of another, or its own.                          *)
GroundsDisjoint ==
    \A b, c \in placed : \A s \in Grounds(b), t \in Grounds(c) :
       <<b, s>> # <<c, t>> => Apart(s, t, 0)

(* "gaps are between buildings for unit movement" (ReserveBuildingSpace):   *)
(* depots and halls at an expansion apart, all that was placed, addons      *)
(* included, keeps the margin from each other, in whatever order the places *)
(* were found and whichever of the structures were never laid.              *)
GapsKept ==
    LET margined == {b \in placed : /\ b.kind # "depot"
                                    /\ \A e \in Expansion : b.ground # TownHallLocation(e)}
    IN  \A b, c \in margined :
           b # c => \A s \in Grounds(b), t \in Grounds(c) : Apart(s, t, Margin)
=============================================================================
