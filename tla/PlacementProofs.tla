-------------------------- MODULE PlacementProofs ---------------------------
(***************************************************************************)
(* Theorems about Placement, for every map and every margin.               *)
(***************************************************************************)
EXTENDS Placement, TLAPS

(* The displacement of an addon is made for the game's footprints: three    *)
(* tiles for what can have an addon, two for the addon.                     *)
GameFootprints == Size["barracks"] = 3 /\ AddonSize = 2

SquareType == [x : Int, y : Int, n : Nat \ {0}]

(***************************************************************************)
(* Squares.                                                                *)
(***************************************************************************)
LEMMA SquareTypes ==
    ASSUME NEW x \in Int, NEW y \in Int, NEW n \in Nat \ {0}
    PROVE  /\ Square(x, y, n) \in SquareType
           /\ Square(x, y, n).x = x /\ Square(x, y, n).y = y /\ Square(x, y, n).n = n
BY DEF Square, SquareType

LEMMA ApartSymmetric ==
    ASSUME NEW a \in SquareType, NEW b \in SquareType, NEW gap \in Nat, Apart(a, b, gap)
    PROVE  Apart(b, a, gap)
BY DEF SquareType, Apart

(* s lies within t, with m tiles to spare on every side. *)
Inside(s, t, m) ==
    /\ t.x + m <= s.x /\ s.x + s.n + m <= t.x + t.n
    /\ t.y + m <= s.y /\ s.y + s.n + m <= t.y + t.n

LEMMA ApartFromInside ==
    ASSUME NEW o \in SquareType, NEW s \in SquareType, NEW t \in SquareType,
           NEW m \in Nat, Apart(o, t, 0), Inside(s, t, m)
    PROVE  Apart(o, s, m) /\ Apart(o, s, 0)
BY DEF SquareType, Apart, Inside

LEMMA CoveredInside ==
    ASSUME NEW s \in SquareType, NEW t \in SquareType, NEW m \in Nat, Inside(s, t, m)
    PROVE  Covered(s) \subseteq Covered(t)
<1>1. s.x .. s.x + s.n - 1 \subseteq t.x .. t.x + t.n - 1
  BY DEF SquareType, Inside
<1>2. s.y .. s.y + s.n - 1 \subseteq t.y .. t.y + t.n - 1
  BY DEF SquareType, Inside
<1> QED BY <1>1, <1>2 DEF Covered

(***************************************************************************)
(* What is searched and what is marked.                                    *)
(***************************************************************************)
LEMMA KindTypes ==
    ASSUME NEW kind \in Kind
    PROVE  /\ Size[kind] \in Nat \ {0} /\ AddonSize \in Nat \ {0}
           /\ Size[kind] + Around(kind) \in 1 .. Size["hall"] + 2 * Margin
           /\ AddonSize + Around(kind) \in 1 .. Size["hall"] + 2 * Margin
           /\ BuildingMargin(kind) \in Nat /\ Around(kind) = 2 * BuildingMargin(kind)
<1>1. /\ Size[kind] \in 1 .. Size["hall"] /\ AddonSize \in 1 .. Size["hall"]
      /\ Size["hall"] \in 1 .. Size["hall"] /\ Margin \in Nat
  BY PlacementAssumption DEF Kind
<1>2. Size["hall"] \in Int
  BY <1>1
<1>3. BuildingMargin(kind) \in Nat /\ BuildingMargin(kind) <= Margin
  BY <1>1 DEF BuildingMargin
<1> DEFINE m == BuildingMargin(kind)
           h == Size["hall"]
<1>4. Around(kind) = 2 * m
  BY DEF Around
<1> HIDE DEF m, h
<1>5. m \in Nat /\ m <= Margin /\ h \in Int /\ Size[kind] \in 1 .. h /\ AddonSize \in 1 .. h
  BY <1>1, <1>2, <1>3 DEF m, h
<1>6. /\ Size[kind] + 2 * m \in 1 .. h + 2 * Margin
      /\ AddonSize + 2 * m \in 1 .. h + 2 * Margin
      /\ Size[kind] \in Nat \ {0} /\ AddonSize \in Nat \ {0}
  BY <1>5, <1>1
<1> QED BY <1>4, <1>5, <1>6 DEF m, h

LEMMA GroundType ==
    ASSUME NEW kind \in Kind, NEW p \in Int \X Int
    PROVE  /\ Ground(kind, p) \in SquareType /\ Ground(kind, p).n = Size[kind]
           /\ Ground(kind, p).x = p[1] + BuildingMargin(kind)
           /\ Ground(kind, p).y = p[2] + BuildingMargin(kind)
<1>1. p[1] \in Int /\ p[2] \in Int /\ Size[kind] \in Nat \ {0} /\ BuildingMargin(kind) \in Nat
  BY KindTypes
<1>2. p[1] + BuildingMargin(kind) \in Int /\ p[2] + BuildingMargin(kind) \in Int
  BY <1>1
<1> QED BY <1>1, <1>2, SquareTypes DEF Ground

(* Whatever is marked lies inside a square that was searched, the margin    *)
(* kept on every side.                                                      *)
LEMMA MarkedInsideSearched ==
    ASSUME NEW kind \in Kind, NEW p \in Int \X Int, NEW s \in Marked(kind, p)
    PROVE  /\ s \in SquareType
           /\ \E t \in Searched(kind, p) :
                 t \in SquareType /\ Inside(s, t, BuildingMargin(kind))
<1> DEFINE m == BuildingMargin(kind)
           g == Ground(kind, p)
           n == Size[kind]
<1>1. /\ p[1] \in Int /\ p[2] \in Int /\ n \in Nat \ {0} /\ m \in Nat
      /\ AddonSize \in Nat \ {0} /\ Around(kind) = 2 * m
  BY KindTypes
<1>2. g \in SquareType /\ g.x = p[1] + m /\ g.y = p[2] + m /\ g.n = n
  BY GroundType
<1>3. CASE s = g
  <2> DEFINE t == Square(p[1], p[2], n + Around(kind))
  <2>1. n + Around(kind) \in Nat \ {0} /\ n + Around(kind) = n + 2 * m
    BY <1>1
  <2>2. t \in SquareType /\ t.x = p[1] /\ t.y = p[2] /\ t.n = n + 2 * m
    BY <1>1, <2>1, SquareTypes
  <2>3. t \in Searched(kind, p)
    BY DEF Searched
  <2> HIDE DEF t, g, m, n
  <2>4. Inside(g, t, m)
    BY <1>1, <1>2, <2>2 DEF Inside
  <2> QED BY <1>2, <1>3, <2>2, <2>3, <2>4 DEF m
<1>4. CASE IsAddonBuilding(kind) /\ s = Square(g.x + g.n, g.y, AddonSize)
  <2> DEFINE t == Square(p[1] + n, p[2], AddonSize + Around(kind))
  <2>1. /\ AddonSize + Around(kind) \in Nat \ {0}
        /\ AddonSize + Around(kind) = AddonSize + 2 * m /\ p[1] + n \in Int
    BY <1>1
  <2>2. t \in SquareType /\ t.x = p[1] + n /\ t.y = p[2] /\ t.n = AddonSize + 2 * m
    <3>1. ASSUME NEW x \in Int, NEW k \in Nat \ {0}
          PROVE  /\ Square(x, p[2], k) \in SquareType /\ Square(x, p[2], k).x = x
                 /\ Square(x, p[2], k).y = p[2] /\ Square(x, p[2], k).n = k
      BY <1>1, SquareTypes
    <3> HIDE DEF n
    <3>2. /\ t \in SquareType /\ t.x = p[1] + n /\ t.y = p[2]
          /\ t.n = AddonSize + Around(kind)
      BY <2>1, <3>1
    <3> QED BY <2>1, <3>2
  <2>3. t \in Searched(kind, p)
    BY <1>4 DEF Searched
  <2>4. g.x + g.n \in Int /\ g.y \in Int
    BY <1>2 DEF SquareType
  <2>5. /\ s \in SquareType /\ s.x = g.x + g.n /\ s.y = g.y /\ s.n = AddonSize
    <3>1. ASSUME NEW x \in Int, NEW y \in Int, s = Square(x, y, AddonSize)
          PROVE  s \in SquareType /\ s.x = x /\ s.y = y /\ s.n = AddonSize
      BY <1>1, <3>1, SquareTypes
    <3> HIDE DEF g
    <3> QED BY <1>4, <2>4, <3>1
  <2> HIDE DEF t, g, m, n
  <2>6. Inside(s, t, m)
    BY <1>1, <1>2, <2>2, <2>5 DEF Inside
  <2> QED BY <2>2, <2>3, <2>5, <2>6 DEF m
<1> QED BY <1>3, <1>4 DEF Marked

(* Where the game will put the addon is what BuildingPlacer marked for it. *)
LEMMA GroundsAreMarked ==
    ASSUME GameFootprints, NEW kind \in Kind, NEW p \in Int \X Int,
           NEW b, b.kind = kind, b.ground = Ground(kind, p)
    PROVE  Grounds(b) = Marked(kind, p)
<1> DEFINE g == Ground(kind, p)
<1>1. g \in SquareType /\ g.n = Size[kind]
  BY GroundType
<1>2. CASE IsAddonBuilding(kind)
  <2>1. g.n = 3 /\ AddonSize = 2 /\ g.x \in Int /\ g.y \in Int
    BY <1>1, <1>2 DEF GameFootprints, IsAddonBuilding, SquareType
  <2> HIDE DEF g
  <2>2. /\ (2 * g.x + g.n + 5 - AddonSize) \div 2 = g.x + g.n
        /\ (2 * g.y + g.n - 1 - AddonSize) \div 2 = g.y
    BY <2>1
  <2>3. AddonGround(g) = Square(g.x + g.n, g.y, AddonSize)
    BY <2>2 DEF AddonGround
  <2> QED BY <1>2, <2>3 DEF g, Grounds, Marked
<1>3. CASE ~IsAddonBuilding(kind)
  BY <1>3 DEF Grounds, Marked
<1> QED BY <1>2, <1>3

LEMMA GroundsApart ==
    ASSUME GameFootprints, NEW kind \in Kind, NEW p \in Int \X Int,
           NEW s \in Marked(kind, p), NEW t \in Marked(kind, p), s # t
    PROVE  Apart(s, t, 0)
<1> DEFINE g == Ground(kind, p)
           a == Square(g.x + g.n, g.y, AddonSize)
<1>1. g \in SquareType /\ g.n = Size[kind] /\ AddonSize \in Nat \ {0}
  BY GroundType, KindTypes
<1>2. a \in SquareType /\ a.x = g.x + g.n
  <2>1. g.x + g.n \in Int /\ g.y \in Int
    BY <1>1 DEF SquareType
  <2> QED BY <1>1, <2>1, SquareTypes
<1>3. s \in {g, a} /\ t \in {g, a}
  BY DEF Marked
<1> HIDE DEF g, a
<1>4. Apart(g, a, 0) /\ Apart(a, g, 0)
  BY <1>1, <1>2 DEF Apart, SquareType
<1> QED BY <1>3, <1>4

(***************************************************************************)
(* The invariant: whatever is placed has its grounds among the squares that *)
(* are marked, so that asking for squares apart from these is enough.       *)
(***************************************************************************)
StructureOn(s) ==
    [kind : Kind, ground : {s}, status : {"ordered", "stands", "lost"}, addon : BOOLEAN]

BookedTypes ==
    /\ start \in BOOLEAN
    /\ \A o \in occupied : /\ o \in SquareType
                           /\ \E e \in Expansion : Covered(o) \subseteq Tiles[e]
    /\ \A b \in placed : \E s \in occupied : b \in StructureOn(s)

Booked == \A b \in placed : b.ground \in occupied /\ Grounds(b) \subseteq occupied

PlacementInv == BookedTypes /\ Booked /\ GroundsDisjoint /\ GapsKept

Margined(b) == b.kind # "depot" /\ \A e \in Expansion : b.ground # TownHallLocation(e)

LEMMA GapsKeptMeaning ==
    GapsKept <=> \A b, c \in placed :
                    Margined(b) /\ Margined(c) /\ b # c
                    => \A s \in Grounds(b), t \in Grounds(c) : Apart(s, t, Margin)
BY DEF GapsKept, Margined

(* A place found: its squares keep apart from all that are marked, and, if  *)
(* the structure has a margin, keep it.                                     *)
LEMMA PlaceTaken ==
    ASSUME PlacementInv, NEW kind \in Kind, NEW s, NEW squares,
           \A t \in squares : /\ t \in SquareType
                              /\ \E e \in Expansion : Covered(t) \subseteq Tiles[e]
                              /\ \A o \in occupied : Apart(o, t, 0),
           \A t, u \in squares : t # u => Apart(t, u, 0),
           \A b : b.kind = kind /\ b.ground = s =>
                     s \in squares /\ Grounds(b) \subseteq squares,
           \/ kind = "depot"
           \/ \E e \in Expansion : s = TownHallLocation(e)
           \/ \A t \in squares, o \in occupied : Apart(o, t, Margin),
           MarkTilesAsReserved(squares), Taken(kind, s), UNCHANGED start
    PROVE  PlacementInv'
<1>0. PICK status \in {"ordered", "lost"} :
          placed' = placed \cup {[kind |-> kind, ground |-> s, status |-> status,
                                  addon |-> FALSE]}
  BY DEF Taken
<1> DEFINE b == [kind |-> kind, ground |-> s, status |-> status, addon |-> FALSE]
<1>1. /\ b \in placed' /\ placed' = placed \cup {b} /\ b \in StructureOn(s)
      /\ b.kind = kind /\ b.ground = s
  BY <1>0 DEF StructureOn
<1> HIDE DEF b
<1>2. s \in squares /\ Grounds(b) \subseteq squares
  BY <1>1
<1>3. occupied' = occupied \cup squares
  BY DEF MarkTilesAsReserved
<1>4. Margin \in Nat /\ 0 \in Nat
  BY PlacementAssumption
<1>5. \A c \in placed : \A t \in Grounds(c) : t \in occupied /\ t \in SquareType
  BY DEF PlacementInv, Booked, BookedTypes
<1>6. BookedTypes'
  BY <1>1, <1>3 DEF PlacementInv, BookedTypes
<1>7. Booked'
  <2>1. ASSUME NEW c \in placed' PROVE c.ground \in occupied' /\ Grounds(c) \subseteq occupied'
    <3>1. CASE c \in placed
      BY <1>3, <3>1 DEF PlacementInv, Booked
    <3>2. CASE c = b
      BY <1>1, <1>2, <1>3, <3>2
    <3> QED BY <1>1, <3>1, <3>2
  <2> QED BY <2>1 DEF Booked, Grounds, AddonGround, Square, IsAddonBuilding
<1>8. GroundsDisjoint'
  <2>1. ASSUME NEW c \in placed', NEW d \in placed', NEW t \in Grounds(c), NEW u \in Grounds(d),
               <<c, t>> # <<d, u>>
        PROVE  Apart(t, u, 0)
    <3>1. CASE c \in placed /\ d \in placed
      BY <2>1, <3>1 DEF PlacementInv, GroundsDisjoint
    <3>2. CASE c = b /\ d = b
      BY <1>2, <2>1, <3>2
    <3>3. CASE c \in placed /\ d = b
      BY <1>2, <1>5, <3>3
    <3>4. CASE c = b /\ d \in placed
      <4>1. Apart(u, t, 0) /\ u \in SquareType /\ t \in SquareType
        BY <1>2, <1>5, <3>4
      <4> QED BY <1>4, <4>1, ApartSymmetric
    <3> QED BY <1>1, <3>1, <3>2, <3>3, <3>4
  <2> QED BY <2>1 DEF GroundsDisjoint, Grounds, AddonGround, Square, IsAddonBuilding, Apart
<1>9. GapsKept'
  <2>1. ASSUME NEW c \in placed', NEW d \in placed', Margined(c), Margined(d), c # d,
               NEW t \in Grounds(c), NEW u \in Grounds(d)
        PROVE  Apart(t, u, Margin)
    <3>1. CASE c \in placed /\ d \in placed
      BY <2>1, <3>1, GapsKeptMeaning DEF PlacementInv
    <3>2. CASE c \in placed /\ d = b
      BY <1>1, <1>2, <1>5, <2>1, <3>2 DEF Margined
    <3>3. CASE c = b /\ d \in placed
      <4>1. Apart(u, t, Margin)
        BY <1>1, <1>2, <1>5, <2>1, <3>3 DEF Margined
      <4>2. u \in SquareType /\ t \in SquareType
        BY <1>2, <1>5, <3>3
      <4> QED BY <1>4, <4>1, <4>2, ApartSymmetric
    <3> QED BY <1>1, <2>1, <3>1, <3>2, <3>3
  <2> QED BY <2>1 DEF GapsKept, Margined, TownHallLocation, Grounds, AddonGround, Square,
                      IsAddonBuilding, Apart
<1> QED BY <1>6, <1>7, <1>8, <1>9 DEF PlacementInv

LEMMA AtExpansion ==
    ASSUME PlacementInv, NEW e \in Expansion, BuildAtExpansion(e), UNCHANGED start
    PROVE  PlacementInv'
<1> DEFINE s == TownHallLocation(e)
<1>1. s \in SquareType /\ s.n = Size["hall"]
  <2>1. Site[e] \in Int \X Int /\ Size["hall"] \in Nat \ {0}
    BY PlacementAssumption, KindTypes DEF Kind
  <2>2. Site[e][1] \in Int /\ Site[e][2] \in Int
    BY <2>1
  <2> QED BY <2>1, <2>2, SquareTypes DEF TownHallLocation
<1>2. /\ IsBuildSpaceFree(s, e) /\ MarkTilesAsReserved({s}) /\ Taken("hall", s)
  BY DEF BuildAtExpansion
<1>3. \A o \in occupied : Apart(o, s, 0)
  BY <1>2 DEF IsBuildSpaceFree
<1>4. Covered(s) \subseteq Tiles[e]
  <2>1. s.n \in 1 .. Size["hall"] + 2 * Margin
    <3>1. Size["hall"] \in Nat \ {0} /\ Margin \in Nat
      BY PlacementAssumption, KindTypes DEF Kind
    <3> QED BY <1>1, <3>1
  <2>2. <<s.x, s.y>> \in Corners[e][s.n]
    BY <1>2 DEF IsBuildSpaceFree
  <2> HIDE DEF s
  <2>3. Covered(Square(s.x, s.y, s.n)) \subseteq Tiles[e]
    BY <2>1, <2>2 DEF Corners
  <2>4. Covered(Square(s.x, s.y, s.n)) = Covered(s)
    BY <1>1 DEF Covered, Square, SquareType
  <2> QED BY <2>3, <2>4
<1>5. \A b : b.kind = "hall" /\ b.ground = s => s \in {s} /\ Grounds(b) \subseteq {s}
  BY DEF Grounds, IsAddonBuilding
<1>6. "hall" \in Kind /\ \E f \in Expansion : s = TownHallLocation(f)
  BY DEF Kind
<1> HIDE DEF s
<1> QED BY <1>1, <1>2, <1>3, <1>4, <1>5, <1>6, PlaceTaken

LEMMA InRegion ==
    ASSUME GameFootprints, PlacementInv, NEW kind \in Kind, NEW e \in Expansion,
           BuildInRegion(kind, e), UNCHANGED start
    PROVE  PlacementInv'
<1>1. PICK p \in Corners[e][Size[kind] + Around(kind)] :
          /\ \A t \in Searched(kind, p) : IsBuildSpaceFree(t, e)
          /\ MarkTilesAsReserved(Marked(kind, p)) /\ Taken(kind, Ground(kind, p))
  BY DEF BuildInRegion
<1>2. p \in Int \X Int
  <2>1. Tiles[e] \subseteq Int \X Int
    BY PlacementAssumption
  <2>2. p \in Tiles[e]
    BY KindTypes DEF Corners
  <2> QED BY <2>1, <2>2
<1> DEFINE m == BuildingMargin(kind)
<1>3. m \in Nat
  BY KindTypes
<1>4. ASSUME NEW s \in Marked(kind, p)
      PROVE  /\ s \in SquareType
             /\ \E f \in Expansion : Covered(s) \subseteq Tiles[f]
             /\ \A o \in occupied : Apart(o, s, 0) /\ Apart(o, s, m)
  <2>1. s \in SquareType
    BY <1>2, <1>4, MarkedInsideSearched
  <2>2. PICK t \in Searched(kind, p) : t \in SquareType /\ Inside(s, t, m)
    BY <1>2, <1>4, MarkedInsideSearched
  <2>3. <<t.x, t.y>> \in Corners[e][t.n] /\ \A o \in occupied : Apart(o, t, 0)
    BY <1>1, <2>2 DEF IsBuildSpaceFree
  <2>4. t.n \in 1 .. Size["hall"] + 2 * Margin
    <3>1. t.n \in {Size[kind] + Around(kind), AddonSize + Around(kind)}
      BY <2>2 DEF Searched, Square
    <3> QED BY <3>1, KindTypes
  <2>5. Covered(t) \subseteq Tiles[e]
    <3>1. Covered(Square(t.x, t.y, t.n)) \subseteq Tiles[e]
      BY <2>3, <2>4 DEF Corners
    <3>2. Covered(Square(t.x, t.y, t.n)) = Covered(t)
      BY <2>2 DEF Covered, Square, SquareType
    <3> QED BY <3>1, <3>2
  <2>6. Covered(s) \subseteq Covered(t)
    BY <1>3, <2>1, <2>2, CoveredInside
  <2>7. ASSUME NEW o \in occupied PROVE Apart(o, s, 0) /\ Apart(o, s, m)
    <3>1. o \in SquareType
      BY DEF PlacementInv, BookedTypes
    <3> QED BY <1>3, <2>1, <2>2, <2>3, <3>1, ApartFromInside
  <2> QED BY <2>1, <2>5, <2>6, <2>7
<1>5. \A t, u \in Marked(kind, p) : t # u => Apart(t, u, 0)
  BY <1>2, GroundsApart
<1>6. \A b : b.kind = kind /\ b.ground = Ground(kind, p) =>
                Ground(kind, p) \in Marked(kind, p) /\ Grounds(b) \subseteq Marked(kind, p)
  <2>1. Ground(kind, p) \in Marked(kind, p)
    BY DEF Marked
  <2> QED BY <1>2, <2>1, GroundsAreMarked
<1>7. kind = "depot" \/ m = Margin
  BY DEF BuildingMargin
<1> HIDE DEF m
<1>8. \/ kind = "depot"
      \/ \A t \in Marked(kind, p), o \in occupied : Apart(o, t, Margin)
  BY <1>4, <1>7
<1>9. \A t \in Marked(kind, p) : /\ t \in SquareType
                                 /\ \E f \in Expansion : Covered(t) \subseteq Tiles[f]
                                 /\ \A o \in occupied : Apart(o, t, 0)
  BY <1>4
<1> QED BY <1>1, <1>5, <1>6, <1>8, <1>9, PlaceTaken

(* Whatever happens to a structure, its ground and its addon's stay its own.*)
LEMMA ChangeOfStructure ==
    ASSUME PlacementInv, NEW b \in placed, NEW c, Becomes(b, c),
           c.kind = b.kind, c.ground = b.ground, c \in StructureOn(b.ground)
    PROVE  PlacementInv'
<1>1. placed' = (placed \ {b}) \cup {c} /\ occupied' = occupied /\ start' = start
  BY DEF Becomes
<1>2. Grounds(c) = Grounds(b)
  BY DEF Grounds
<1>3. Margined(c) <=> Margined(b)
  BY DEF Margined
<1>4. BookedTypes'
  <2>1. \E s \in occupied : c \in StructureOn(s)
    BY DEF PlacementInv, Booked
  <2> QED BY <1>1, <2>1 DEF PlacementInv, BookedTypes, StructureOn
<1>5. Booked'
  <2>1. ASSUME NEW d \in placed' PROVE d.ground \in occupied' /\ Grounds(d) \subseteq occupied'
    BY <1>1, <1>2 DEF PlacementInv, Booked
  <2> QED BY <2>1 DEF Booked, Grounds, AddonGround, Square, IsAddonBuilding
<1> DEFINE old(d) == IF d = c THEN b ELSE d
<1>6. \A d \in placed' : old(d) \in placed /\ Grounds(old(d)) = Grounds(d)
                         /\ (Margined(old(d)) <=> Margined(d))
  BY <1>1, <1>2, <1>3
<1>7. \A d, f \in placed' : d # f => old(d) # old(f)
  BY <1>1
<1> HIDE DEF old
<1>8. GroundsDisjoint'
  <2>1. ASSUME NEW d \in placed', NEW f \in placed', NEW t \in Grounds(d), NEW u \in Grounds(f),
               <<d, t>> # <<f, u>>
        PROVE  Apart(t, u, 0)
    <3>1. <<old(d), t>> # <<old(f), u>>
      BY <1>7, <2>1
    <3> QED BY <1>6, <3>1 DEF PlacementInv, GroundsDisjoint
  <2> QED BY <2>1 DEF GroundsDisjoint, Grounds, AddonGround, Square, IsAddonBuilding, Apart
<1>9. GapsKept'
  <2>1. ASSUME NEW d \in placed', NEW f \in placed', Margined(d), Margined(f), d # f,
               NEW t \in Grounds(d), NEW u \in Grounds(f)
        PROVE  Apart(t, u, Margin)
    BY <1>6, <1>7, <2>1, GapsKeptMeaning DEF PlacementInv
  <2> QED BY <2>1 DEF GapsKept, Margined, TownHallLocation, Grounds, AddonGround, Square,
                      IsAddonBuilding, Apart
<1> QED BY <1>4, <1>5, <1>8, <1>9 DEF PlacementInv

(* Whatever may be lost and whichever places are refused, PlacementInv is   *)
(* an invariant.                                                            *)
THEOREM PlacementInvariance ==
    ASSUME GameFootprints PROVE Spec => []PlacementInv
<1>1. Init => PlacementInv
  BY DEF Init, PlacementInv, BookedTypes, Booked, GroundsDisjoint, GapsKept
<1>2. PlacementInv /\ [Next]_vars => PlacementInv'
  <2> SUFFICES ASSUME PlacementInv, [Next]_vars PROVE PlacementInv'
    OBVIOUS
  <2>1. ASSUME NEW kind \in Kind, Build(kind) PROVE PlacementInv'
    <3>1. PICK e \in Expansion : BuildAtExpansion(e) \/ BuildInRegion(kind, e)
      BY <2>1 DEF Build
    <3>2. UNCHANGED start
      BY <2>1 DEF Build
    <3> QED BY <3>1, <3>2, AtExpansion, InRegion
  <2>2. ASSUME NEW b \in placed, Lay(b) \/ Lose(b) \/ BuildAddon(b) \/ LoseAddon(b)
        PROVE  PlacementInv'
    <3>1. PICK s \in occupied : b \in StructureOn(s)
      BY DEF PlacementInv, BookedTypes
    <3>2. ASSUME NEW c \in {[b EXCEPT !.status = "stands"], [b EXCEPT !.status = "lost"],
                            [b EXCEPT !.addon = TRUE], [b EXCEPT !.addon = FALSE]}
          PROVE  c.kind = b.kind /\ c.ground = b.ground /\ c \in StructureOn(b.ground)
      BY <3>1 DEF StructureOn
    <3>3. PICK c \in {[b EXCEPT !.status = "stands"], [b EXCEPT !.status = "lost"],
                      [b EXCEPT !.addon = TRUE], [b EXCEPT !.addon = FALSE]} : Becomes(b, c)
      BY <2>2 DEF Lay, Lose, BuildAddon, LoseAddon
    <3> QED BY <3>2, <3>3, ChangeOfStructure
  <2>3. CASE LoseStart
    BY <2>3 DEF LoseStart, PlacementInv, BookedTypes, Booked, GroundsDisjoint, GapsKept
  <2>4. CASE UNCHANGED vars
    BY <2>4 DEF vars, PlacementInv, BookedTypes, Booked, GroundsDisjoint, GapsKept
  <2> QED BY <2>1, <2>2, <2>3, <2>4 DEF Next, Game
<1> QED BY <1>1, <1>2, PTL DEF Spec

(* TypeOK of Placement: every square BuildingPlacer marks lies on buildable *)
(* tiles of one region.                                                     *)
THEOREM MarkedOnBuildable == ASSUME GameFootprints PROVE Spec => []TypeOK
<1>1. PlacementInv => TypeOK
  BY DEF PlacementInv, BookedTypes, Booked, TypeOK, StructureOn
<1> QED BY <1>1, PlacementInvariance, PTL

(* "Tried to mark already occupied tile as reserved": no ground, and no     *)
(* ground of an addon, meets another.                                       *)
THEOREM NothingMarkedTwice == ASSUME GameFootprints PROVE Spec => []GroundsDisjoint
<1>1. PlacementInv => GroundsDisjoint
  BY DEF PlacementInv
<1> QED BY <1>1, PlacementInvariance, PTL

(* The gaps for units between the structures that ask for them.             *)
THEOREM MarginsKept == ASSUME GameFootprints PROVE Spec => []GapsKept
<1>1. PlacementInv => GapsKept
  BY DEF PlacementInv
<1> QED BY <1>1, PlacementInvariance, PTL
=============================================================================
