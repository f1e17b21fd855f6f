--------------------------- MODULE CountingProofs ---------------------------
(***************************************************************************)
(* What adds up, for every value of the constants: the commands of a step  *)
(* against the bank (BudgetKept); the depots ordered against those asked   *)
(* for (RequestsMatched); the structures queued, on their way, standing    *)
(* and destroyed against the opening (StructuresNeverForgotten); the       *)
(* workers alive, made, commanded and ordered against Miner's maximum      *)
(* (CrewNeverExceeds).                                                     *)
(*                                                                         *)
(* A sum over a finite set is a recursive function of its subsets.  That   *)
(* it exists and does not depend on the order of the summands is proved by *)
(* induction on finite sets, of which the property is a set of sets: an    *)
(* induction theorem with an operator for a parameter is not needed.       *)
(* Counts over queues are sizes of sets of indices, and rest on bijections *)
(* between these.                                                          *)
(***************************************************************************)
EXTENDS QueueProofs, WellFoundedInduction

(***************************************************************************)
(* Sums.                                                                   *)
(***************************************************************************)
LEMMA FiniteInduction ==
    ASSUME NEW S, IsFiniteSet(S), NEW P,
           \A T \in SUBSET S : (\A U \in SUBSET T : U # T => U \in P) => T \in P
    PROVE  SUBSET S \subseteq P
<1> DEFINE bad == (SUBSET S) \ P
<1>1. SUFFICES ASSUME bad # {} PROVE FALSE
  OBVIOUS
<1>2. IsWellFoundedOn(StrictSubsetOrdering(S), SUBSET S)
  BY FS_StrictSubsetOrderingWellFounded, FS_FiniteSubsetsOfFinite
<1>3. PICK T \in bad : \A U \in bad : <<U, T>> \notin StrictSubsetOrdering(S)
  <2>1. bad \subseteq SUBSET S
    OBVIOUS
  <2> HIDE DEF bad
  <2> QED BY <1>1, <1>2, <2>1, WFMin
<1>4. ASSUME NEW U \in SUBSET T, U # T PROVE U \in P
  <2>1. U \in SUBSET S /\ T \in SUBSET S
    OBVIOUS
  <2>2. <<U, T>> \in StrictSubsetOrdering(S)
    BY <1>4, <2>1 DEF StrictSubsetOrdering
  <2> QED BY <1>3, <2>1, <2>2
<1> QED BY <1>4

Some(s) == CHOOSE x \in s : TRUE
Sums(it, g, S) ==
    it = [s \in SUBSET S |-> IF s = {} THEN 0 ELSE g[Some(s)] + it[s \ {Some(s)}]]
SumOf(g, S) == MapThenSumSet(LAMBDA x : g[x], S)

(* The element that is added next is one. *)
LEMMA SomeIn == ASSUME NEW s, s # {} PROVE Some(s) \in s
BY DEF Some

(* The recursion of a sum, at any subset. *)
LEMMA SumsAt ==
    ASSUME NEW S, NEW g, NEW it, Sums(it, g, S)
    PROVE  /\ it[{}] = 0
           /\ \A s \in SUBSET S : s # {} =>
                 /\ Some(s) \in s /\ s \ {Some(s)} \in SUBSET S
                 /\ it[s] = g[Some(s)] + it[s \ {Some(s)}]
BY SomeIn DEF Sums

(* Two sums of the same numbers are equal. *)
LEMMA SumsAgree ==
    ASSUME NEW S, IsFiniteSet(S), NEW T \in SUBSET S, NEW g, NEW h, NEW a, NEW b,
           Sums(a, g, S), Sums(b, h, T), \A x \in T : g[x] = h[x]
    PROVE  \A s \in SUBSET T : a[s] = b[s]
<1> DEFINE P == {s \in SUBSET T : a[s] = b[s]}
<1>1. IsFiniteSet(T)
  BY FS_Subset
<1>2. /\ a[{}] = 0
      /\ \A s \in SUBSET S : s # {} => a[s] = g[Some(s)] + a[s \ {Some(s)}]
  BY SumsAt, SMTT(60)
<1>3. /\ b[{}] = 0
      /\ \A s \in SUBSET T : s # {} => b[s] = h[Some(s)] + b[s \ {Some(s)}]
  BY SumsAt
<1>4. ASSUME NEW s \in SUBSET T, \A u \in SUBSET s : u # s => u \in P PROVE s \in P
  <2>1. CASE s = {}
    BY <1>2, <1>3, <2>1
  <2>2. CASE s # {}
    <3>0. s \in SUBSET S /\ a[s] = g[Some(s)] + a[s \ {Some(s)}]
      BY <1>2, <2>2
    <3>1. /\ Some(s) \in s
          /\ b[s] = h[Some(s)] + b[s \ {Some(s)}]
      BY <1>3, <2>2, SomeIn
    <3>2. s \ {Some(s)} \in SUBSET s /\ s \ {Some(s)} # s
      BY <3>1
    <3>3. a[s \ {Some(s)}] = b[s \ {Some(s)}]
      BY <1>4, <3>2
    <3> QED BY <3>0, <3>1, <3>3
  <2> QED BY <2>1, <2>2
<1> HIDE DEF P
<1>5. SUBSET T \subseteq P
  BY <1>1, <1>4, FiniteInduction
<1> QED BY <1>5 DEF P

(* The recursive function exists. *)
LEMMA SumsExist ==
    ASSUME NEW S, IsFiniteSet(S), NEW g \in [S -> Int]
    PROVE  \E it \in [SUBSET S -> Int] : Sums(it, g, S)
<1> DEFINE Summed(T) == \E it \in [SUBSET T -> Int] : Sums(it, g, T)
           P == {T \in SUBSET S : Summed(T)}
<1>1. ASSUME NEW T \in SUBSET S, \A U \in SUBSET T : U # T => U \in P PROVE T \in P
  <2> DEFINE J(U) == CHOOSE it \in [SUBSET U -> Int] : Sums(it, g, U)
  <2>1. ASSUME NEW U \in SUBSET T, U # T
        PROVE  J(U) \in [SUBSET U -> Int] /\ Sums(J(U), g, U)
    <3>1. Summed(U)
      BY <1>1, <2>1
    <3> QED BY <3>1
  <2> HIDE DEF J
  <2> DEFINE x == Some(T)
             top == IF T = {} THEN 0 ELSE g[x] + J(T \ {x})[T \ {x}]
             it == [s \in SUBSET T |-> IF s = T THEN top ELSE J(s)[s]]
  <2>2. T # {} => x \in T /\ T \ {x} \in SUBSET T /\ T \ {x} # T
    BY SomeIn
  <2>3. \A s \in SUBSET T : s # T => J(s)[s] \in Int
    BY <2>1
  <2>4. top \in Int
    BY <2>2, <2>3
  <2>5. it \in [SUBSET T -> Int]
    BY <2>3, <2>4
  <2>6. ASSUME NEW s \in SUBSET T
        PROVE  it[s] = IF s = {} THEN 0 ELSE g[Some(s)] + it[s \ {Some(s)}]
    <3>1. CASE s = T
      BY <2>2, <3>1
    <3>2. CASE s # T /\ s = {}
      <4>1. J(s)[s] = 0
        BY <2>1, <3>2, SumsAt
      <4> QED BY <3>2, <4>1
    <3>3. CASE s # T /\ s # {}
      <4> DEFINE y == Some(s)
                 r == s \ {y}
      <4>1. /\ J(s)[s] = g[y] + J(s)[r] /\ r \in SUBSET s /\ r # s /\ Sums(J(s), g, s)
        <5>1. Sums(J(s), g, s)
          BY <2>1, <3>3
        <5>2. s \in SUBSET s
          OBVIOUS
        <5>3. y \in s /\ J(s)[s] = g[y] + J(s)[s \ {y}]
          BY <3>3, <5>1, <5>2, SumsAt
        <5> QED BY <5>1, <5>3
      <4>2. r \in SUBSET T /\ r # T /\ Sums(J(r), g, r)
        BY <2>1, <4>1
      <4>3. IsFiniteSet(s)
        BY FS_Subset
      <4> HIDE DEF r, y
      <4>4. J(s)[r] = J(r)[r]
        BY <4>1, <4>2, <4>3, SumsAgree
      <4>5. it[s] = J(s)[s] /\ it[r] = J(r)[r]
        BY <3>3, <4>2
      <4> QED BY <3>3, <4>1, <4>4, <4>5 DEF r, y
    <3> QED BY <3>1, <3>2, <3>3
  <2>7. Sums(it, g, T)
    <3> HIDE DEF it
    <3>1. it = [s \in SUBSET T |-> it[s]]
      BY <2>5
    <3> QED BY <2>6, <3>1 DEF Sums
  <2> HIDE DEF it
  <2> QED BY <2>5, <2>7
<1> HIDE DEF P
<1>2. SUBSET S \subseteq P
  BY <1>1, FiniteInduction
<1> QED BY <1>2 DEF P

(* The sum does not depend on the order.                                    *)
LEMMA SumsCommute ==
    ASSUME NEW S, IsFiniteSet(S), NEW g, NEW it, Sums(it, g, S),
           \A x \in S : g[x] \in Int, \A s \in SUBSET S : it[s] \in Int
    PROVE  \A x \in S : it[S] = g[x] + it[S \ {x}]
<1>0. \A s \in SUBSET S : s # {} => Some(s) \in s /\ it[s] = g[Some(s)] + it[s \ {Some(s)}]
  BY SumsAt, SMTT(60)
<1> DEFINE P == {t \in SUBSET S : \A z \in t : it[t] = g[z] + it[t \ {z}]}
<1>1. ASSUME NEW t \in SUBSET S, \A u \in SUBSET t : u # t => u \in P PROVE t \in P
  <2> SUFFICES ASSUME NEW z \in t PROVE it[t] = g[z] + it[t \ {z}]
    OBVIOUS
  <2>1. /\ Some(t) \in t /\ it[t] = g[Some(t)] + it[t \ {Some(t)}]
    BY <1>0
  <2>2. CASE Some(t) = z
    BY <2>1, <2>2
  <2>3. CASE Some(t) # z
    <3> DEFINE y == Some(t)
               u == t \ {y}
               v == t \ {z}
    <3>1. u \in P /\ z \in u /\ v \in P /\ y \in v
      BY <1>1, <2>1, <2>3
    <3>2. it[u] = g[z] + it[u \ {z}] /\ it[v] = g[y] + it[v \ {y}]
      BY <3>1
    <3>3. u \ {z} = v \ {y}
      OBVIOUS
    <3>4. /\ g[y] \in Int /\ g[z] \in Int /\ it[u] \in Int /\ it[v] \in Int
          /\ it[u \ {z}] \in Int
      BY <2>1
    <3>5. it[t] = g[y] + it[u]
      BY <2>1
    <3> HIDE DEF y, u, v
    <3> DEFINE gy == g[y]
               gz == g[z]
               rest == it[u \ {z}]
    <3>6. /\ it[t] = gy + it[u] /\ it[u] = gz + rest /\ it[v] = gy + rest
          /\ gy \in Int /\ gz \in Int /\ rest \in Int
      BY <3>2, <3>3, <3>4, <3>5
    <3> HIDE DEF gy, gz, rest
    <3>7. it[t] = gz + it[v]
      BY <3>6
    <3> QED BY <3>7 DEF v, gz
  <2> QED BY <2>2, <2>3
<1> HIDE DEF P
<1>2. SUBSET S \subseteq P
  BY <1>1, FiniteInduction
<1> QED BY <1>2 DEF P

(* The sum that the community modules fold is the recursive one. *)
LEMMA SumOfSums ==
    ASSUME NEW S, IsFiniteSet(S), NEW g \in [S -> Int]
    PROVE  \E it \in [SUBSET S -> Int] : Sums(it, g, S) /\ SumOf(g, S) = it[S]
<1>1. PICK a \in [SUBSET S -> Int] : Sums(a, g, S)
  BY SumsExist
<1> DEFINE it == CHOOSE f : Sums(f, g, S)
<1>2. Sums(it, g, S)
  BY <1>1
<1>3. SumOf(g, S) = it[S]
  BY DEF SumOf, Sums, Some, MapThenSumSet, MapThenFoldSet
<1>4. it = a
  <2> HIDE DEF it
  <2>1. \A s \in SUBSET S : it[s] = a[s]
    BY <1>1, <1>2, SumsAgree
  <2>2. it = [s \in SUBSET S |-> it[s]]
    BY <1>2 DEF Sums
  <2> QED BY <2>1, <2>2
<1> HIDE DEF it
<1> QED BY <1>1, <1>3, <1>4

(* A sum with one more summand.                                             *)
LEMMA SumOfOneMore ==
    ASSUME NEW D, IsFiniteSet(D), NEW E, NEW n, n \in D, E = D \ {n}, NEW g, NEW h,
           g \in [D -> Int], h \in [E -> Int], \A i \in E : g[i] = h[i]
    PROVE  SumOf(g, D) = g[n] + SumOf(h, E) /\ SumOf(h, E) \in Int
<1>1. IsFiniteSet(E) /\ E \in SUBSET D /\ D \in SUBSET D
  BY FS_Subset
<1>2. PICK a \in [SUBSET D -> Int] : Sums(a, g, D) /\ SumOf(g, D) = a[D]
  BY SumOfSums
<1>3. PICK b \in [SUBSET E -> Int] : Sums(b, h, E) /\ SumOf(h, E) = b[E]
  BY <1>1, SumOfSums
<1>4. a[E] = b[E]
  BY <1>1, <1>2, <1>3, SumsAgree
<1>5. \A x \in D : a[D] = g[x] + a[D \ {x}]
  <2>1. Sums(a, g, D) /\ (\A x \in D : g[x] \in Int) /\ (\A s \in SUBSET D : a[s] \in Int)
    BY <1>2
  <2> QED BY <2>1, SumsCommute, SMTT(60)
<1>6. b[E] \in Int
  BY <1>3
<1> QED BY <1>2, <1>3, <1>4, <1>5, <1>6

(***************************************************************************)
(* What commands cost.                                                     *)
(***************************************************************************)
Costs(cost, cs) == [i \in DOMAIN cs |-> cost[cs[i].type]]
Spent(cost, cs) == SumOf(Costs(cost, cs), DOMAIN cs)

(* The costs of the commands are numbers. *)
LEMMA CostsType ==
    ASSUME NEW cs \in Seq(Command), NEW cost \in [UnitType -> Int]
    PROVE  /\ DOMAIN cs = 1 .. Len(cs) /\ Len(cs) \in Nat /\ IsFiniteSet(DOMAIN cs)
           /\ Costs(cost, cs) \in [DOMAIN cs -> Int]
           /\ \A i \in DOMAIN cs : cs[i] \in Command
<1>1. DOMAIN cs = 1 .. Len(cs) /\ Len(cs) \in Nat /\ \A i \in DOMAIN cs : cs[i] \in Command
  BY LenProperties, ElementOfSeq
<1>2. IsFiniteSet(1 .. Len(cs))
  BY <1>1, FS_Interval
<1>3. \A i \in DOMAIN cs : cs[i].type \in UnitType
  BY <1>1 DEF Command
<1> QED BY <1>1, <1>2, <1>3 DEF Costs

(* So is what they come to. *)
LEMMA SpentType ==
    ASSUME NEW cs \in Seq(Command), NEW cost \in [UnitType -> Int]
    PROVE  Spent(cost, cs) \in Int
<1>1. IsFiniteSet(DOMAIN cs) /\ Costs(cost, cs) \in [DOMAIN cs -> Int]
  BY CostsType
<1> DEFINE D == DOMAIN cs
           g == Costs(cost, cs)
<1> HIDE DEF D, g
<1>2. \E it \in [SUBSET D -> Int] : SumOf(g, D) = it[D]
  BY <1>1, SumOfSums DEF D, g
<1>3. D \in SUBSET D
  OBVIOUS
<1> QED BY <1>2, <1>3 DEF Spent, D, g

(* No command costs nothing. *)
LEMMA SpentNothing ==
    ASSUME NEW cost \in [UnitType -> Int] PROVE Spent(cost, <<>>) = 0
<1>1. /\ <<>> \in Seq(Command) /\ DOMAIN <<>> = {}
  BY EmptySeq
<1>2. IsFiniteSet({}) /\ Costs(cost, <<>>) \in [{} -> Int]
  BY <1>1, CostsType
<1>3. PICK it : Sums(it, Costs(cost, <<>>), {}) /\ SumOf(Costs(cost, <<>>), {}) = it[{}]
  BY <1>2, SumOfSums
<1> QED BY <1>1, <1>3, SumsAt DEF Spent

(* One more command costs its price more. *)
LEMMA SpentAppend ==
    ASSUME NEW cost \in [UnitType -> Int], NEW cs \in Seq(Command), NEW c \in Command
    PROVE  Spent(cost, Append(cs, c)) = Spent(cost, cs) + cost[c.type]
<1> DEFINE ds == Append(cs, c)
           n == Len(cs) + 1
           D == DOMAIN ds
           E == DOMAIN cs
           g == Costs(cost, ds)
           h == Costs(cost, cs)
<1>1. /\ ds \in Seq(Command) /\ Len(ds) = Len(cs) + 1 /\ ds[n] = c
      /\ \A i \in 1 .. Len(cs) : ds[i] = cs[i]
  BY AppendProperties
<1>2. /\ E = 1 .. Len(cs) /\ Len(cs) \in Nat /\ IsFiniteSet(E) /\ h \in [E -> Int]
  BY CostsType
<1>3. /\ D = 1 .. n /\ IsFiniteSet(D) /\ g \in [D -> Int]
  <2> HIDE DEF ds, n
  <2>1. D = 1 .. Len(ds) /\ IsFiniteSet(D) /\ g \in [D -> Int]
    BY <1>1, CostsType
  <2> QED BY <1>1, <2>1 DEF n
<1>4. /\ n \in D /\ D \ {n} = E /\ E \in SUBSET D
  BY <1>2, <1>3
<1>5. g[n] = cost[c.type] /\ \A i \in E : g[i] = h[i]
  <2> HIDE DEF ds, n
  <2>1. \A i \in D : g[i] = cost[ds[i].type]
    BY DEF Costs
  <2>2. \A i \in E : h[i] = cost[cs[i].type]
    BY DEF Costs
  <2> QED BY <1>1, <1>2, <1>4, <2>1, <2>2
<1> HIDE DEF D, E, g, h, n, ds
<1>6. SumOf(g, D) = cost[c.type] + SumOf(h, E) /\ SumOf(h, E) \in Int
  <2>1. /\ IsFiniteSet(D) /\ n \in D /\ E = D \ {n}
        /\ g \in [D -> Int] /\ h \in [E -> Int] /\ \A i \in E : g[i] = h[i]
    BY <1>2, <1>3, <1>4, <1>5
  <2>2. SumOf(g, D) = g[n] + SumOf(h, E) /\ SumOf(h, E) \in Int
    BY <2>1, SumOfOneMore
  <2> QED BY <1>5, <2>2
<1>7. cost[c.type] \in Int
  BY DEF Command
<1>8. Spent(cost, ds) = SumOf(g, D) /\ Spent(cost, cs) = SumOf(h, E)
  BY DEF Spent, D, E, g, h
<1> QED BY <1>6, <1>7, <1>8 DEF ds

MineralCost == [t \in UnitType |-> UnitTypeData[t].mineral_cost]
VespeneCost == [t \in UnitType |-> UnitTypeData[t].vespene_cost]
FoodCost == [t \in UnitType |-> Food(t)]

(* The three costs Builder deducts. *)
LEMMA CostTypes == \A cost \in {MineralCost, VespeneCost, FoodCost} : cost \in [UnitType -> Int]
BY UnitTypeDataAssumption DEF MineralCost, VespeneCost, FoodCost, Food

(* The sums of CommandsWithinBudget are these. *)
LEMMA SpentMinerals ==
    ASSUME NEW cs \in Seq(Command)
    PROVE  MapThenSumSet(LAMBDA i : UnitTypeData[cs[i].type].mineral_cost, DOMAIN cs)
           = Spent(MineralCost, cs)
<1> DEFINE D == DOMAIN cs
           g == Costs(MineralCost, cs)
           Own(f) == f = [s \in SUBSET D |->
                            IF s = {} THEN 0
                            ELSE UnitTypeData[cs[Some(s)].type].mineral_cost
                                 + f[s \ {Some(s)}]]
           it == CHOOSE f : Own(f)
<1>1. IsFiniteSet(D) /\ g \in [D -> Int] /\ \A i \in D : cs[i] \in Command
  BY CostsType, CostTypes
<1>2. \A i \in D : g[i] = UnitTypeData[cs[i].type].mineral_cost
  BY <1>1 DEF Costs, MineralCost, Command
<1>3. MapThenSumSet(LAMBDA i : UnitTypeData[cs[i].type].mineral_cost, D) = it[D]
  BY DEF Some, MapThenSumSet, MapThenFoldSet
<1> HIDE DEF D, g
<1>4. \A f : Own(f) <=> Sums(f, g, D)
  <2>1. \A s \in SUBSET D : s # {} =>
          UnitTypeData[cs[Some(s)].type].mineral_cost = g[Some(s)]
    BY <1>2, SomeIn
  <2> QED BY <2>1 DEF Sums
<1>5. PICK a \in [SUBSET D -> Int] : Sums(a, g, D) /\ SumOf(g, D) = a[D]
  BY <1>1, SumOfSums
<1>6. Sums(it, g, D)
  BY <1>4, <1>5
<1> HIDE DEF it
<1>7. it[D] = a[D]
  BY <1>1, <1>5, <1>6, SumsAgree
<1> QED BY <1>3, <1>5, <1>7 DEF Spent, D, g
(* The same for vespene, *)
LEMMA SpentVespene ==
    ASSUME NEW cs \in Seq(Command)
    PROVE  MapThenSumSet(LAMBDA i : UnitTypeData[cs[i].type].vespene_cost, DOMAIN cs)
           = Spent(VespeneCost, cs)
<1> DEFINE D == DOMAIN cs
           g == Costs(VespeneCost, cs)
           Own(f) == f = [s \in SUBSET D |->
                            IF s = {} THEN 0
                            ELSE UnitTypeData[cs[Some(s)].type].vespene_cost
                                 + f[s \ {Some(s)}]]
           it == CHOOSE f : Own(f)
<1>1. IsFiniteSet(D) /\ g \in [D -> Int] /\ \A i \in D : cs[i] \in Command
  BY CostsType, CostTypes
<1>2. \A i \in D : g[i] = UnitTypeData[cs[i].type].vespene_cost
  BY <1>1 DEF Costs, VespeneCost, Command
<1>3. MapThenSumSet(LAMBDA i : UnitTypeData[cs[i].type].vespene_cost, D) = it[D]
  BY DEF Some, MapThenSumSet, MapThenFoldSet
<1> HIDE DEF D, g
<1>4. \A f : Own(f) <=> Sums(f, g, D)
  <2>1. \A s \in SUBSET D : s # {} =>
          UnitTypeData[cs[Some(s)].type].vespene_cost = g[Some(s)]
    BY <1>2, SomeIn
  <2> QED BY <2>1 DEF Sums
<1>5. PICK a \in [SUBSET D -> Int] : Sums(a, g, D) /\ SumOf(g, D) = a[D]
  BY <1>1, SumOfSums
<1>6. Sums(it, g, D)
  BY <1>4, <1>5
<1> HIDE DEF it
<1>7. it[D] = a[D]
  BY <1>1, <1>5, <1>6, SumsAgree
<1> QED BY <1>3, <1>5, <1>7 DEF Spent, D, g

(* and for supply. *)
LEMMA SpentFood ==
    ASSUME NEW cs \in Seq(Command)
    PROVE  MapThenSumSet(LAMBDA i : Food(cs[i].type), DOMAIN cs)
           = Spent(FoodCost, cs)
<1> DEFINE D == DOMAIN cs
           g == Costs(FoodCost, cs)
           Own(f) == f = [s \in SUBSET D |->
                            IF s = {} THEN 0
                            ELSE Food(cs[Some(s)].type)
                                 + f[s \ {Some(s)}]]
           it == CHOOSE f : Own(f)
<1>1. IsFiniteSet(D) /\ g \in [D -> Int] /\ \A i \in D : cs[i] \in Command
  BY CostsType, CostTypes
<1>2. \A i \in D : g[i] = Food(cs[i].type)
  BY <1>1 DEF Costs, FoodCost, Command
<1>3. MapThenSumSet(LAMBDA i : Food(cs[i].type), D) = it[D]
  BY DEF Some, MapThenSumSet, MapThenFoldSet
<1> HIDE DEF D, g
<1>4. \A f : Own(f) <=> Sums(f, g, D)
  <2>1. \A s \in SUBSET D : s # {} =>
          Food(cs[Some(s)].type) = g[Some(s)]
    BY <1>2, SomeIn
  <2> QED BY <2>1 DEF Sums
<1>5. PICK a \in [SUBSET D -> Int] : Sums(a, g, D) /\ SumOf(g, D) = a[D]
  BY <1>1, SumOfSums
<1>6. Sums(it, g, D)
  BY <1>4, <1>5
<1> HIDE DEF it
<1>7. it[D] = a[D]
  BY <1>1, <1>5, <1>6, SumsAgree
<1> QED BY <1>3, <1>5, <1>7 DEF Spent, D, g

(***************************************************************************)
(* Builder's budget.                                                       *)
(***************************************************************************)
Budgeted(m, v, f, cs) ==
    /\ m + Spent(MineralCost, cs) = minerals
    /\ v + Spent(VespeneCost, cs) = vespene
    /\ f + Spent(FoodCost, cs) = foodCap - foodUsed
BudgetInv == phase = "train" => Budgeted(m_minerals, m_vespene, m_available_food, commands)

(* The property in terms of these sums. *)
LEMMA BudgetMeans ==
    ASSUME TypeOK PROVE BudgetInv <=> CommandsWithinBudget
<1>1. commands \in Seq(Command)
  BY DEF TypeOK
<1>2. /\ MapThenSumSet(LAMBDA i : UnitTypeData[commands[i].type].mineral_cost, DOMAIN commands)
         = Spent(MineralCost, commands)
      /\ MapThenSumSet(LAMBDA i : UnitTypeData[commands[i].type].vespene_cost, DOMAIN commands)
         = Spent(VespeneCost, commands)
      /\ MapThenSumSet(LAMBDA i : Food(commands[i].type), DOMAIN commands)
         = Spent(FoodCost, commands)
  BY <1>1, SpentMinerals, SpentVespene, SpentFood
<1> QED BY <1>2 DEF BudgetInv, Budgeted, CommandsWithinBudget

(* A command is given for what it costs.                                    *)
LEMMA BudgetAfter ==
    ASSUME NEW t \in UnitType, NEW u \in Tag \cup {NullTag}, NEW m \in Int, NEW v \in Int,
           NEW f \in Int, commands \in Seq(Command), Budgeted(m, v, f, commands),
           Issue(t, u), Deduct(t, m, v, f),
           UNCHANGED <<minerals, vespene, foodCap, foodUsed>>
    PROVE  Budgeted(m_minerals, m_vespene, m_available_food, commands)'
<1> DEFINE c == [type |-> t, unit |-> u]
<1>1. c \in Command /\ c.type = t /\ commands' = Append(commands, c)
  BY DEF Command, Issue
<1> HIDE DEF c
<1>2. /\ Spent(MineralCost, commands') = Spent(MineralCost, commands) + MineralCost[t]
      /\ Spent(VespeneCost, commands') = Spent(VespeneCost, commands) + VespeneCost[t]
      /\ Spent(FoodCost, commands') = Spent(FoodCost, commands) + FoodCost[t]
  BY <1>1, CostTypes, SpentAppend
<1>3. /\ m_minerals' = m - MineralCost[t] /\ m_vespene' = v - VespeneCost[t]
      /\ m_available_food' = f - FoodCost[t]
  BY DEF Deduct, MineralCost, VespeneCost, FoodCost
<1>4. /\ MineralCost[t] \in Int /\ VespeneCost[t] \in Int /\ FoodCost[t] \in Int
      /\ Spent(MineralCost, commands) \in Int /\ Spent(VespeneCost, commands) \in Int
      /\ Spent(FoodCost, commands) \in Int
  BY CostTypes, SpentType
<1>5. /\ m + Spent(MineralCost, commands) = minerals
      /\ v + Spent(VespeneCost, commands) = vespene
      /\ f + Spent(FoodCost, commands) = foodCap - foodUsed
  BY DEF Budgeted
<1>6. /\ m_minerals' + Spent(MineralCost, commands') = minerals
      /\ m_vespene' + Spent(VespeneCost, commands') = vespene
      /\ m_available_food' + Spent(FoodCost, commands') = foodCap - foodUsed
  <2>1. m_minerals' + Spent(MineralCost, commands') = minerals
    <3> DEFINE cost == MineralCost[t]
               before == Spent(MineralCost, commands)
               after == Spent(MineralCost, commands')
    <3>1. /\ m_minerals' = m - cost /\ after = before + cost /\ m + before = minerals
          /\ cost \in Int /\ before \in Int
      BY <1>2, <1>3, <1>4, <1>5
    <3> HIDE DEF cost, before, after
    <3>2. m_minerals' + after = m + before
      BY <3>1
    <3> QED BY <3>1, <3>2 DEF after
  <2>2. m_vespene' + Spent(VespeneCost, commands') = vespene
    <3> DEFINE cost == VespeneCost[t]
               before == Spent(VespeneCost, commands)
               after == Spent(VespeneCost, commands')
    <3>1. /\ m_vespene' = v - cost /\ after = before + cost /\ v + before = vespene
          /\ cost \in Int /\ before \in Int
      BY <1>2, <1>3, <1>4, <1>5
    <3> HIDE DEF cost, before, after
    <3>2. m_vespene' + after = v + before
      BY <3>1
    <3> QED BY <3>1, <3>2 DEF after
  <2>3. m_available_food' + Spent(FoodCost, commands') = foodCap - foodUsed
    <3> DEFINE cost == FoodCost[t]
               before == Spent(FoodCost, commands)
               after == Spent(FoodCost, commands')
    <3>1. /\ m_available_food' = f - cost /\ after = before + cost /\ f + before = foodCap - foodUsed
          /\ cost \in Int /\ before \in Int
      BY <1>2, <1>3, <1>4, <1>5
    <3> HIDE DEF cost, before, after
    <3>2. m_available_food' + after = f + before
      BY <3>1
    <3> QED BY <3>1, <3>2 DEF after
  <2> QED BY <2>1, <2>2, <2>3
<1> QED BY <1>6 DEF Budgeted

(* Builder's step opens the balance, and every order keeps it. *)
LEMMA BudgetStep ==
    ASSUME StepInv, BudgetInv, [Next]_vars PROVE BudgetInv'
<1>0. /\ TypeOK /\ commands \in Seq(Command) /\ minerals \in Nat /\ vespene \in Nat
      /\ foodCap \in Int /\ foodUsed \in Int
      /\ m_minerals \in Nat /\ m_vespene \in Nat /\ m_available_food \in Int
      /\ phase = "construct" => commands = <<>>
  BY DEF StepInv, SightInv, TypeInv, TypeOK, StepOrder
<1>1. CASE UNCHANGED vars
  BY <1>1 DEF vars, gameVars, builderVars, budgetVars, BudgetInv, Budgeted
<1>2. CASE GameStep
  <2>1. phase = "game" /\ phase' # "train"
    BY <1>2, GameStepInGame
       DEF GameStep, HandleCommand, Earn, Observe, LayStructure, LoseStructure,
           CompleteStructure, RazeStructure, FinishOrder, botVars
  <2> QED BY <2>1 DEF BudgetInv
<1>3. CASE BuilderOnStep
  <2>1. UNCHANGED <<minerals, vespene, foodCap, foodUsed>> /\ commands = <<>>
    BY <1>0, <1>3 DEF BuilderOnStep, bankVars, popVars
  <2>2. Budgeted(minerals, vespene, foodCap - foodUsed, commands)
    <3>1. /\ Spent(MineralCost, <<>>) = 0 /\ Spent(VespeneCost, <<>>) = 0
          /\ Spent(FoodCost, <<>>) = 0
      BY CostTypes, SpentNothing
    <3> QED BY <1>0, <2>1, <3>1 DEF Budgeted
  <2>3. CASE BuildHead
    <3> DEFINE t == Head(constructions)
    <3>1. t \in UnitType
      BY <1>0, <2>3, HeadTailProperties DEF BuildHead, TypeOK
    <3>2. PICK u \in Producers(t, NullTag) :
             Issue(t, u) /\ Deduct(t, minerals, vespene, foodCap - foodUsed)
      BY <2>3 DEF BuildHead
    <3>3. u \in Tag \cup {NullTag}
      BY <1>0, <3>1, ProducersType, TypeSplit
    <3>4. foodCap - foodUsed \in Int
      BY <1>0
    <3> HIDE DEF t
    <3>5. Budgeted(m_minerals, m_vespene, m_available_food, commands)'
      BY <1>0, <2>1, <2>2, <3>1, <3>2, <3>3, <3>4, BudgetAfter
    <3> QED BY <3>5 DEF BudgetInv
  <2>4. CASE HeadWaits
    <3>1. /\ m_minerals' = minerals /\ m_vespene' = vespene
          /\ m_available_food' = foodCap - foodUsed /\ UNCHANGED commands
      BY <2>4 DEF HeadWaits
    <3> QED BY <2>1, <2>2, <3>1 DEF BudgetInv, Budgeted
  <2> QED BY <1>3, <2>3, <2>4 DEF BuilderOnStep
<1>4. CASE TrainNext
  <2>1. /\ UNCHANGED <<minerals, vespene, foodCap, foodUsed>> /\ BuildTraining
        /\ Budgeted(m_minerals, m_vespene, m_available_food, commands)
    BY <1>4 DEF TrainNext, bankVars, popVars, BudgetInv
  <2>2. CASE UNCHANGED <<budgetVars, commands>>
    BY <2>1, <2>2 DEF budgetVars, BudgetInv, Budgeted
  <2>3. CASE ~UNCHANGED <<budgetVars, commands>>
    <3> DEFINE o == trainings[cursor]
    <3>1. o.type \in UnitType /\ o.assignee \in Tag \cup {NullTag}
      <4>1. trainings \in Seq(TrainingOrder) /\ cursor \in DOMAIN trainings
        BY <1>0, <2>1 DEF BuildTraining, TypeOK
      <4>2. o \in TrainingOrder
        BY <4>1, ElementOfSeq, LenProperties
      <4> HIDE DEF o
      <4> QED BY <4>2 DEF TrainingOrder
    <3>2. PICK u \in Producers(o.type, o.assignee) :
             Issue(o.type, u) /\ Deduct(o.type, m_minerals, m_vespene, m_available_food)
      BY <2>1, <2>3 DEF BuildTraining
    <3>3. u \in Tag \cup {NullTag}
      BY <1>0, <3>1, ProducersType, TypeSplit
    <3>4. m_minerals \in Int /\ m_vespene \in Int
      BY <1>0
    <3> HIDE DEF o
    <3>5. Budgeted(m_minerals, m_vespene, m_available_food, commands)'
      BY <1>0, <2>1, <3>1, <3>2, <3>3, <3>4, BudgetAfter
    <3> QED BY <3>5 DEF BudgetInv
  <2> QED BY <2>2, <2>3
<1>5. CASE BotStep /\ ~BuilderOnStep /\ ~TrainNext
  <2>1. phase' # "train"
    BY <1>5 DEF BotStep, ScheduleOpening, OnUnitDestroyed, OnUnitCreated, OnUnitIdle,
                OnReaperCreated, ApiOnStep, MinerOnStep, QuarterMasterOnStep, SendActions
  <2> QED BY <2>1 DEF BudgetInv
<1> QED BY <1>1, <1>2, <1>3, <1>4, <1>5 DEF Next

(* What Builder commands in one step, over both queues and however many     *)
(* orders they hold, costs exactly what it took off the bank and the supply *)
(* it read at the head of that step.                                        *)
THEOREM BudgetKept == Spec => []CommandsWithinBudget
<1>1. Init => BudgetInv
  BY DEF Init, BudgetInv
<1>2. StepInv /\ BudgetInv /\ [Next]_vars => BudgetInv'
  BY BudgetStep
<1>3. StepInv /\ BudgetInv => CommandsWithinBudget
  BY BudgetMeans DEF StepInv, SightInv, TypeInv
<1> QED BY <1>1, <1>2, <1>3, StepInvariance, PTL DEF Spec

(***************************************************************************)
(* How many elements of a sequence are in a set.                           *)
(***************************************************************************)
Count(s, V) == Cardinality({i \in DOMAIN s : s[i] \in V})

(* A finite set and its image under a bijection have one size. *)
LEMMA SameSize ==
    ASSUME NEW A, NEW B, IsFiniteSet(A), NEW f \in [A -> B],
           \A x, y \in A : f[x] = f[y] => x = y,
           \A z \in B : \E x \in A : f[x] = z
    PROVE  IsFiniteSet(B) /\ Cardinality(B) = Cardinality(A)
<1>1. f \in Bijection(A, B)
  BY DEF Bijection, Injection, Surjection, IsInjective
<1>2. ExistsBijection(A, B)
  BY <1>1 DEF ExistsBijection
<1> QED BY <1>2, FS_Bijection

(* A count is a number. *)
LEMMA IndicesFinite ==
    ASSUME NEW S, NEW s \in Seq(S), NEW V
    PROVE  /\ IsFiniteSet({i \in DOMAIN s : s[i] \in V}) /\ Count(s, V) \in Nat
           /\ DOMAIN s = 1 .. Len(s) /\ Len(s) \in Nat /\ IsFiniteSet(DOMAIN s)
<1>1. DOMAIN s = 1 .. Len(s) /\ Len(s) \in Nat
  BY LenProperties
<1>2. IsFiniteSet(1 .. Len(s))
  BY <1>1, FS_Interval
<1>3. {i \in DOMAIN s : s[i] \in V} \in SUBSET (1 .. Len(s))
  BY <1>1
<1>4. IsFiniteSet({i \in DOMAIN s : s[i] \in V})
  BY <1>2, <1>3, FS_Subset
<1> QED BY <1>1, <1>2, <1>4, FS_CardinalityType DEF Count

(* A sequence that holds the elements of another one at D, renumbered.      *)
Renumbers(f, t, s, D) ==
    /\ \A x \in DOMAIN t : f[x] \in D /\ t[x] = s[f[x]]
    /\ \A x, y \in DOMAIN t : f[x] = f[y] => x = y
    /\ \A z \in D : \E x \in DOMAIN t : f[x] = z

(* Renumbering a sequence changes no count. *)
LEMMA CountRenumbered ==
    ASSUME NEW s, NEW t, NEW V, NEW D, IsFiniteSet(DOMAIN t), NEW f, Renumbers(f, t, s, D)
    PROVE  Count(t, V) = Cardinality({i \in D : s[i] \in V})
<1>0. /\ \A x \in DOMAIN t : f[x] \in D /\ t[x] = s[f[x]]
      /\ \A x, y \in DOMAIN t : f[x] = f[y] => x = y
      /\ \A z \in D : \E x \in DOMAIN t : f[x] = z
  BY DEF Renumbers
<1> DEFINE A == {i \in DOMAIN t : t[i] \in V}
           B == {i \in D : s[i] \in V}
           g == [i \in A |-> f[i]]
<1>1. IsFiniteSet(A)
  BY FS_Subset
<1>2. g \in [A -> B] /\ \A i \in A : g[i] = f[i]
  BY <1>0
<1>3. \A x, y \in A : g[x] = g[y] => x = y
  BY <1>0
<1>4. \A z \in B : \E x \in A : g[x] = z
  <2> SUFFICES ASSUME NEW z \in B PROVE \E x \in A : g[x] = z
    OBVIOUS
  <2>1. PICK x \in DOMAIN t : f[x] = z
    BY <1>0
  <2> QED BY <1>0, <2>1
<1> HIDE DEF g, A, B
<1>5. Cardinality(B) = Cardinality(A)
  BY <1>1, <1>2, <1>3, <1>4, SameSize
<1> QED BY <1>5 DEF Count, A, B

(* What is not there counts nothing. *)
LEMMA CountNone ==
    ASSUME NEW s, NEW V, Elems(s) \cap V = {}
    PROVE  Count(s, V) = 0
<1>1. {i \in DOMAIN s : s[i] \in V} = {}
  BY DEF Elems
<1> QED BY <1>1, FS_EmptySet DEF Count

(* Nothing is in the empty sequence. *)
LEMMA CountEmpty == ASSUME NEW V PROVE Count(<<>>, V) = 0
BY CountNone DEF Elems

(* How the operations on queues change a count: at the back, *)
LEMMA CountAppend ==
    ASSUME NEW S, NEW s \in Seq(S), NEW x \in S, NEW V
    PROVE  Count(Append(s, x), V) = Count(s, V) + (IF x \in V THEN 1 ELSE 0)
<1> DEFINE n == Len(s) + 1
           A == {i \in DOMAIN s : s[i] \in V}
           a == Append(s, x)
           B == {i \in DOMAIN a : a[i] \in V}
<1>1. /\ a \in Seq(S) /\ Len(a) = n /\ a[n] = x /\ \A i \in 1 .. Len(s) : a[i] = s[i]
  BY AppendProperties
<1>2. /\ DOMAIN s = 1 .. Len(s) /\ Len(s) \in Nat /\ IsFiniteSet(A) /\ Count(s, V) \in Nat
  BY IndicesFinite
<1>3. DOMAIN a = 1 .. n /\ n \notin A /\ n \in Nat
  BY <1>1, <1>2, LenProperties
<1> HIDE DEF a
<1>4. CASE x \in V
  <2>1. B = A \cup {n}
    <3>1. \A i \in 1 .. n : i = n \/ i \in 1 .. Len(s)
      BY <1>2
    <3>2. n \in 1 .. n /\ 1 .. Len(s) \subseteq 1 .. n
      BY <1>2
    <3> QED BY <1>1, <1>2, <1>3, <1>4, <3>1, <3>2
  <2> HIDE DEF A, B, n
  <2>2. Cardinality(A \cup {n}) = Cardinality(A) + 1
    BY <1>2, <1>3, FS_AddElement
  <2> QED BY <1>4, <2>1, <2>2 DEF Count, A, B, a
<1>5. CASE x \notin V
  <2>1. B = A
    <3>1. \A i \in 1 .. n : i = n \/ i \in 1 .. Len(s)
      BY <1>2
    <3>2. 1 .. Len(s) \subseteq 1 .. n
      BY <1>2
    <3> QED BY <1>1, <1>2, <1>3, <1>5, <3>1, <3>2
  <2>2. Count(a, V) = Count(s, V)
    BY <2>1 DEF Count
  <2> QED BY <1>2, <1>5, <2>2 DEF a
<1> QED BY <1>4, <1>5

(* anywhere, *)
LEMMA CountRemoveAt ==
    ASSUME NEW S, NEW s \in Seq(S), NEW i \in DOMAIN s, NEW V
    PROVE  Count(s, V) = Count(RemoveAt(s, i), V) + (IF s[i] \in V THEN 1 ELSE 0)
<1> DEFINE r == RemoveAt(s, i)
           D == DOMAIN s \ {i}
           f == [j \in DOMAIN r |-> IF j < i THEN j ELSE j + 1]
           A == {j \in DOMAIN s : s[j] \in V}
           B == {j \in D : s[j] \in V}
<1>1. Len(s) \in Nat /\ i \in 1 .. Len(s) /\ DOMAIN s = 1 .. Len(s) /\ IsFiniteSet(A)
  BY IndicesFinite
<1>2. /\ r \in Seq(S) /\ DOMAIN r = 1 .. Len(s) - 1
      /\ \A j \in 1 .. Len(s) - 1 : r[j] = IF j < i THEN s[j] ELSE s[j + 1]
  BY RemoveAtProperties, LenProperties
<1> HIDE DEF r
<1>3. f \in [DOMAIN r -> D] /\ \A j \in DOMAIN r : f[j] = IF j < i THEN j ELSE j + 1
  BY <1>1, <1>2
<1>4. \A x, y \in DOMAIN r : f[x] = f[y] => x = y
  BY <1>1, <1>2
<1>5. ASSUME NEW z \in D PROVE \E x \in DOMAIN r : f[x] = z
  <2>1. CASE z < i
    <3>1. z \in DOMAIN r
      BY <1>1, <1>2, <2>1
    <3> QED BY <1>3, <2>1, <3>1
  <2>2. CASE ~(z < i)
    <3>1. z - 1 \in DOMAIN r /\ ~(z - 1 < i) /\ (z - 1) + 1 = z
      BY <1>1, <1>2, <2>2
    <3> QED BY <1>3, <3>1
  <2> QED BY <2>1, <2>2
<1>6. \A x \in DOMAIN r : f[x] \in D /\ r[x] = s[f[x]]
  BY <1>2, <1>3
<1> HIDE DEF f
<1>7. Count(r, V) = Cardinality(B)
  <2>1. IsFiniteSet(DOMAIN r)
    BY <1>2, IndicesFinite
  <2>2. Renumbers(f, r, s, D)
    BY <1>4, <1>5, <1>6 DEF Renumbers
  <2> HIDE DEF D
  <2> QED BY <2>1, <2>2, CountRenumbered
<1>8. Count(s, V) = Cardinality(A) /\ Cardinality(A) \in Nat /\ B = A \ {i}
  BY <1>1, IndicesFinite DEF Count
<1>9. i \in A <=> s[i] \in V
  OBVIOUS
<1> HIDE DEF A, B
<1>10. Cardinality(A \ {i}) = IF i \in A THEN Cardinality(A) - 1 ELSE Cardinality(A)
  BY <1>1, FS_RemoveElement
<1> QED BY <1>7, <1>8, <1>9, <1>10 DEF r

(* at the front, *)
LEMMA CountTail ==
    ASSUME NEW S, NEW s \in Seq(S), s # <<>>, NEW V
    PROVE  Count(s, V) = Count(Tail(s), V) + (IF Head(s) \in V THEN 1 ELSE 0)
<1>1. /\ Tail(s) \in Seq(S) /\ Len(Tail(s)) = Len(s) - 1 /\ Head(s) = s[1]
      /\ \A j \in 1 .. Len(Tail(s)) : Tail(s)[j] = s[j + 1]
  BY HeadTailProperties
<1>2. DOMAIN s = 1 .. Len(s) /\ DOMAIN Tail(s) = 1 .. Len(s) - 1 /\ Len(s) \in Nat /\ Len(s) > 0
  BY <1>1, LenProperties, EmptySeq
<1>3. 1 \in DOMAIN s
  BY <1>2
<1> DEFINE r == RemoveAt(s, 1)
<1>4. /\ r \in Seq(S) /\ DOMAIN r = 1 .. Len(s) - 1 /\ Len(r) = Len(s) - 1
      /\ \A j \in 1 .. Len(s) - 1 : r[j] = IF j < 1 THEN s[j] ELSE s[j + 1]
  BY <1>3, RemoveAtProperties, LenProperties
<1>5. Count(s, V) = Count(r, V) + (IF s[1] \in V THEN 1 ELSE 0)
  BY <1>3, CountRemoveAt
<1> HIDE DEF r
<1>6. \A j \in DOMAIN r : r[j] = Tail(s)[j]
  BY <1>1, <1>2, <1>4
<1>7. {j \in DOMAIN r : r[j] \in V} = {j \in DOMAIN Tail(s) : Tail(s)[j] \in V}
  BY <1>2, <1>4, <1>6
<1> QED BY <1>1, <1>5, <1>7 DEF Count

(* and two queues in a row. *)
LEMMA CountConcat ==
    ASSUME NEW S, NEW s \in Seq(S), NEW t \in Seq(S), NEW V
    PROVE  Count(s \o t, V) = Count(s, V) + Count(t, V)
<1> DEFINE c == s \o t
           D == Len(s) + 1 .. Len(s) + Len(t)
           f == [j \in DOMAIN t |-> Len(s) + j]
           A == {j \in DOMAIN s : s[j] \in V}
           B == {j \in D : c[j] \in V}
           C == {j \in DOMAIN c : c[j] \in V}
<1>1. /\ Len(c) = Len(s) + Len(t) /\ c \in Seq(S)
      /\ \A i \in 1 .. Len(s) + Len(t) :
            c[i] = IF i <= Len(s) THEN s[i] ELSE t[i - Len(s)]
  BY ConcatProperties
<1>2. /\ DOMAIN s = 1 .. Len(s) /\ DOMAIN t = 1 .. Len(t) /\ Len(s) \in Nat /\ Len(t) \in Nat
      /\ IsFiniteSet(A) /\ Count(s, V) \in Nat /\ Count(t, V) \in Nat
  BY IndicesFinite
<1>3. DOMAIN c = 1 .. Len(s) + Len(t) /\ IsFiniteSet(C)
  BY <1>1, IndicesFinite
<1> HIDE DEF c
<1>4. D \in SUBSET DOMAIN c
  BY <1>2, <1>3
<1>5. f \in [DOMAIN t -> D] /\ \A j \in DOMAIN t : f[j] = Len(s) + j
  BY <1>2
<1>6. \A x, y \in DOMAIN t : f[x] = f[y] => x = y
  BY <1>2
<1>7. ASSUME NEW z \in D PROVE \E x \in DOMAIN t : f[x] = z
  <2>1. z - Len(s) \in DOMAIN t /\ Len(s) + (z - Len(s)) = z
    BY <1>2
  <2> QED BY <1>5, <2>1
<1>8. \A x \in DOMAIN t : f[x] \in D /\ t[x] = c[f[x]]
  <2> SUFFICES ASSUME NEW x \in DOMAIN t PROVE f[x] \in D /\ t[x] = c[f[x]]
    OBVIOUS
  <2>1. /\ f[x] = Len(s) + x /\ f[x] \in D /\ f[x] \in 1 .. Len(s) + Len(t) /\ ~(f[x] <= Len(s))
        /\ f[x] - Len(s) = x
    BY <1>2
  <2> HIDE DEF f
  <2> QED BY <1>1, <2>1
<1> HIDE DEF f
<1>9. Count(t, V) = Cardinality(B)
  <2>1. IsFiniteSet(DOMAIN t)
    BY IndicesFinite
  <2>2. Renumbers(f, t, c, D)
    BY <1>6, <1>7, <1>8 DEF Renumbers
  <2> HIDE DEF D
  <2> QED BY <2>1, <2>2, CountRenumbered
<1>10. C = A \cup B /\ A \cap B = {} /\ IsFiniteSet(B)
  <2>1. \A j \in DOMAIN s : j \in DOMAIN c /\ j \notin D /\ c[j] = s[j]
    BY <1>1, <1>2, <1>3
  <2>2. \A j \in DOMAIN c : j \in DOMAIN s \/ j \in D
    BY <1>2, <1>3
  <2>3. C = A \cup B /\ A \cap B = {}
    <3> HIDE DEF D
    <3> QED BY <1>4, <2>1, <2>2
  <2>4. B \in SUBSET C
    BY <2>3
  <2> QED BY <1>3, <2>3, <2>4, FS_Subset
<1> HIDE DEF A, B, C, D
<1>11. Cardinality(A \cup B) = Cardinality(A) + Cardinality(B) - 0
  BY <1>2, <1>10, FS_Union, FS_EmptySet
<1>12. Cardinality(A) = Count(s, V) /\ Cardinality(C) = Count(c, V)
  BY DEF A, C, Count
<1> QED BY <1>2, <1>9, <1>10, <1>11, <1>12 DEF c

(***************************************************************************)
(* The way of a structure: queued, commanded, an SCV travelling.           *)
(***************************************************************************)
CommandsFor(t) == {c \in Command : c.type = t}
Queued(t) == Count(constructions, {t})
Commanded(t) == Count(commands, CommandsFor(t))
OnTheWay(t) == Queued(t) + Commanded(t) + travelling[t]

(* The stations of an order as the properties count them. *)
LEMMA WayTypes ==
    ASSUME TypeOK, NEW t \in UnitType
    PROVE  /\ Queued(t) \in Nat /\ Commanded(t) \in Nat /\ travelling[t] \in Nat
           /\ Cardinality({i \in DOMAIN constructions : constructions[i] = t}) = Queued(t)
           /\ Cardinality({i \in DOMAIN commands : commands[i].type = t}) = Commanded(t)
<1>1. constructions \in Seq(UnitType) /\ commands \in Seq(Command) /\ travelling[t] \in Nat
  BY DEF TypeOK
<1>2. Queued(t) \in Nat /\ Commanded(t) \in Nat
  BY <1>1, IndicesFinite DEF Queued, Commanded
<1>3. \A i \in DOMAIN commands : commands[i] \in Command
  BY <1>1, ElementOfSeq, LenProperties
<1>4. /\ {i \in DOMAIN constructions : constructions[i] = t}
         = {i \in DOMAIN constructions : constructions[i] \in {t}}
      /\ {i \in DOMAIN commands : commands[i].type = t}
         = {i \in DOMAIN commands : commands[i] \in CommandsFor(t)}
  BY <1>3 DEF CommandsFor
<1> QED BY <1>1, <1>2, <1>4 DEF Queued, Commanded, Count

(* The game takes the first command. *)
LEMMA CommandTaken ==
    ASSUME GameTypeOK, commands # <<>>, commands' = Tail(commands), NEW t
    PROVE  Commanded(t) = Commanded(t)' + (IF Head(commands).type = t THEN 1 ELSE 0)
<1>1. commands \in Seq(Command) /\ Head(commands) \in Command
  BY HeadTailProperties DEF GameTypeOK
<1>2. Count(commands, CommandsFor(t))
      = Count(Tail(commands), CommandsFor(t))
        + (IF Head(commands) \in CommandsFor(t) THEN 1 ELSE 0)
  BY <1>1, CountTail
<1> QED BY <1>1, <1>2 DEF Commanded, CommandsFor

(* What is on its way leaves it only by being laid or lost.                 *)
LEMMA GameWay ==
    ASSUME TypeOK, GameAction, UNCHANGED botVars, NEW t \in UnitType, IsStructure(t)
    PROVE  /\ OnTheWay(t) \in Nat /\ OnTheWay(t)' \in Int
           /\ Lay(t) \/ FailToLay(t) => OnTheWay(t)' = OnTheWay(t) - 1
           /\ ~Lay(t) /\ ~FailToLay(t) => OnTheWay(t)' = OnTheWay(t)
<1>0. /\ Queued(t) \in Nat /\ Commanded(t) \in Nat /\ travelling[t] \in Nat
      /\ travelling \in [UnitType -> Nat] /\ GameTypeOK
  BY WayTypes, TypeSplit DEF TypeOK
<1>1. Queued(t)' = Queued(t)
  BY DEF botVars, builderVars, queueVars, Queued
<1>2. CASE SetOut
  <2>1. commands # <<>> /\ commands' = Tail(commands)
        /\ travelling' = [travelling EXCEPT ![Head(commands).type] = @ + 1]
    BY <1>2 DEF SetOut
  <2>2. Commanded(t) = Commanded(t)' + (IF Head(commands).type = t THEN 1 ELSE 0)
        /\ Commanded(t)' \in Nat
    <3>1. commands \in Seq(Command) /\ commands' \in Seq(Command)
      BY <1>0, <2>1, HeadTailProperties DEF GameTypeOK
    <3> QED BY <1>0, <2>1, <3>1, CommandTaken, IndicesFinite DEF Commanded
  <2>3. travelling'[t] = travelling[t] + (IF Head(commands).type = t THEN 1 ELSE 0)
    BY <1>0, <2>1
  <2>4. ~Lay(t) /\ ~FailToLay(t)
    BY <1>0, <2>1, <2>3 DEF Lay, FailToLay
  <2> QED BY <1>0, <1>1, <2>2, <2>3, <2>4 DEF OnTheWay
<1>3. CASE Obey \/ Refuse
  <2>1. /\ commands # <<>> /\ commands' = Tail(commands) /\ travelling' = travelling
        /\ ~IsStructure(Head(commands).type)
    BY <1>3 DEF Obey, Refuse
  <2>2. Commanded(t) = Commanded(t)' /\ Commanded(t)' \in Nat
    <3>1. commands \in Seq(Command) /\ commands' \in Seq(Command)
      BY <1>0, <2>1, HeadTailProperties DEF GameTypeOK
    <3>2. Commanded(t) = Commanded(t)' + (IF Head(commands).type = t THEN 1 ELSE 0)
      BY <1>0, <2>1, CommandTaken
    <3>3. Head(commands).type # t
      BY <2>1
    <3>4. Commanded(t)' \in Nat
      BY <3>1, IndicesFinite DEF Commanded
    <3> QED BY <3>2, <3>3, <3>4
  <2>3. ~Lay(t) /\ ~FailToLay(t)
    BY <1>0, <2>1 DEF Lay, FailToLay
  <2> QED BY <1>0, <1>1, <2>1, <2>2, <2>3 DEF OnTheWay
<1>4. ASSUME NEW x \in UnitType, Lay(x) \/ FailToLay(x)
      PROVE  /\ OnTheWay(t) \in Nat /\ OnTheWay(t)' \in Int
             /\ Lay(t) \/ FailToLay(t) => OnTheWay(t)' = OnTheWay(t) - 1
             /\ ~Lay(t) /\ ~FailToLay(t) => OnTheWay(t)' = OnTheWay(t)
  <2>1. /\ travelling[x] > 0 /\ commands' = commands
        /\ travelling' = [travelling EXCEPT ![x] = @ - 1]
    BY <1>4 DEF Lay, FailToLay
  <2>2. Commanded(t)' = Commanded(t)
    BY <2>1 DEF Commanded
  <2>3. travelling'[t] = IF x = t THEN travelling[t] - 1 ELSE travelling[t]
    BY <1>0, <2>1
  <2>4. x # t => ~Lay(t) /\ ~FailToLay(t)
    BY <1>0, <2>3 DEF Lay, FailToLay
  <2> QED BY <1>0, <1>1, <1>4, <2>2, <2>3, <2>4 DEF OnTheWay
<1>5. CASE UNCHANGED <<commands, travelling>>
  <2>1. Commanded(t)' = Commanded(t) /\ travelling'[t] = travelling[t]
    BY <1>5 DEF Commanded
  <2>2. ~Lay(t) /\ ~FailToLay(t)
    BY <1>0, <1>5 DEF Lay, FailToLay
  <2> QED BY <1>0, <1>1, <2>1, <2>2 DEF OnTheWay
<1> QED BY <1>2, <1>3, <1>4, <1>5 DEF GameAction, Income, Complete, Raze, Finish

(* Scheduling adds the structure, and of what it requires only what is      *)
(* neither standing nor queued.                                             *)
LEMMA ScheduledMore ==
    ASSUME constructions \in Seq(UnitType), NEW t \in UnitType, NEW urgent, NEW standing,
           ScheduleConstruction(t, urgent, standing), NEW x \in UnitType
    PROVE  /\ Queued(x)' >= Queued(x) + (IF x = t THEN 1 ELSE 0)
           /\ x \in Elems(constructions) \/ x \notin Elems(TechLine[t])
              => Queued(x)' = Queued(x) + (IF x = t THEN 1 ELSE 0)
<1>1. PICK n \in 0 .. Len(TechLine[t]) :
         /\ Missing(t, n, standing)
         /\ constructions' = IF urgent THEN <<t>> \o constructions \o Required(t, n)
                             ELSE constructions \o Required(t, n) \o <<t>>
  BY DEF ScheduleConstruction
<1> DEFINE r == Required(t, n)
           p == <<t>>
           one == IF x = t THEN 1 ELSE 0
<1>2. /\ r \in Seq(UnitType) /\ Len(r) = n /\ p \in Seq(UnitType)
      /\ \A i \in 1 .. n : r[i] = TechLine[t][n + 1 - i]
      /\ TechLine[t] \in Seq(UnitType) /\ Len(TechLine[t]) \in Nat
  BY RequiredType, TechLineAssumption, LenProperties
<1>3. \A y \in Elems(r) : y \in Elems(TechLine[t]) /\ y \notin Elems(constructions)
  <2>1. DOMAIN r = 1 .. n /\ DOMAIN TechLine[t] = 1 .. Len(TechLine[t])
    BY <1>2, LenProperties
  <2> HIDE DEF r
  <2>2. \A i \in 1 .. n : n + 1 - i \in 1 .. n /\ n + 1 - i \in 1 .. Len(TechLine[t])
    BY <1>2
  <2>3. \A j \in 1 .. n : TechLine[t][j] \notin Scheduled
    BY <1>1 DEF Missing
  <2>4. Scheduled = Elems(constructions)
    BY DEF Scheduled, Elems
  <2> QED BY <1>2, <2>1, <2>2, <2>3, <2>4 DEF Elems
<1>4. /\ Count(r, {x}) \in Nat /\ Count(constructions, {x}) \in Nat
      /\ x \notin Elems(r) => Count(r, {x}) = 0
  <2> HIDE DEF r
  <2> QED BY <1>2, IndicesFinite, CountNone
<1>5. Count(p, {x}) = one
  <2>1. <<>> \in Seq(UnitType) /\ <<t>> = Append(<<>>, t)
    BY EmptySeq
  <2>2. Count(Append(<<>>, t), {x}) = Count(<<>>, {x}) + (IF t \in {x} THEN 1 ELSE 0)
    BY <2>1, CountAppend
  <2> QED BY <2>1, <2>2, CountEmpty
<1> HIDE DEF r, p
<1>6. Queued(x)' = Queued(x) + Count(r, {x}) + one
  <2>1. CASE urgent
    <3> DEFINE front == p \o constructions
    <3>1. front \in Seq(UnitType) /\ constructions' = front \o r
      BY <1>1, <1>2, <2>1, ConcatProperties DEF r, p
    <3>2. Count(front, {x}) = Count(p, {x}) + Count(constructions, {x})
      BY <1>2, CountConcat
    <3> HIDE DEF front
    <3>3. Count(front \o r, {x}) = Count(front, {x}) + Count(r, {x})
      BY <1>2, <3>1, CountConcat
    <3> QED BY <1>4, <1>5, <3>1, <3>2, <3>3 DEF Queued
  <2>2. CASE ~urgent
    <3> DEFINE front == constructions \o r
    <3>1. front \in Seq(UnitType) /\ constructions' = front \o p
      BY <1>1, <1>2, <2>2, ConcatProperties DEF r, p
    <3>2. Count(front, {x}) = Count(constructions, {x}) + Count(r, {x})
      BY <1>2, CountConcat
    <3> HIDE DEF front
    <3>3. Count(front \o p, {x}) = Count(front, {x}) + Count(p, {x})
      BY <1>2, <3>1, CountConcat
    <3> QED BY <1>4, <1>5, <3>1, <3>2, <3>3 DEF Queued
  <2> QED BY <2>1, <2>2
<1> QED BY <1>3, <1>4, <1>6 DEF Queued

(* Builder's command takes the place of the order.                          *)
LEMMA BuildHeadWay ==
    ASSUME TypeInv, BuildHead, UNCHANGED travelling, NEW t \in UnitType
    PROVE  OnTheWay(t)' = OnTheWay(t)
<1> DEFINE h == Head(constructions)
           one == IF h = t THEN 1 ELSE 0
<1>1. /\ constructions \in Seq(UnitType) /\ constructions # <<>> /\ commands \in Seq(Command)
      /\ constructions' = Tail(constructions) /\ h \in UnitType
      /\ Tail(constructions) \in Seq(UnitType)
  BY HeadTailProperties DEF TypeInv, TypeOK, BuildHead
<1>2. PICK u \in Producers(h, NullTag) : commands' = Append(commands, [type |-> h, unit |-> u])
  BY DEF BuildHead, Issue
<1> HIDE DEF h
<1>3. u \in Tag \cup {NullTag}
  BY <1>1, <1>2, ProducersType, TypeSplit DEF TypeInv
<1> DEFINE c == [type |-> h, unit |-> u]
<1>4. c \in Command /\ (c \in CommandsFor(t) <=> h = t)
  BY <1>1, <1>3 DEF Command, CommandsFor
<1> HIDE DEF c
<1>5. Commanded(t)' = Commanded(t) + one
  <2>1. Count(Append(commands, c), CommandsFor(t))
        = Count(commands, CommandsFor(t)) + (IF c \in CommandsFor(t) THEN 1 ELSE 0)
    BY <1>1, <1>4, CountAppend
  <2> QED BY <1>2, <1>4, <2>1 DEF Commanded, c
<1>6. Queued(t) = Queued(t)' + one
  <2>1. Count(constructions, {t})
        = Count(Tail(constructions), {t}) + (IF Head(constructions) \in {t} THEN 1 ELSE 0)
    BY <1>1, CountTail
  <2> QED BY <1>1, <2>1 DEF Queued, h
<1>7. Queued(t)' \in Nat /\ Commanded(t) \in Nat /\ travelling[t] \in Nat
  <2>1. Count(Tail(constructions), {t}) \in Nat
    BY <1>1, IndicesFinite
  <2> QED BY <1>1, <2>1, WayTypes DEF Queued, TypeInv
<1> QED BY <1>5, <1>6, <1>7 DEF OnTheWay

(* The training loop leaves the way of structures alone. *)
LEMMA TrainNextWay ==
    ASSUME TypeInv, OrdersAssigned, BuildTraining, UNCHANGED travelling,
           NEW t \in UnitType, IsStructure(t)
    PROVE  OnTheWay(t)' = OnTheWay(t)
<1>1. CASE UNCHANGED commands
  BY <1>1 DEF BuildTraining, OnTheWay, Queued, Commanded
<1>2. CASE ~UNCHANGED commands
  <2> DEFINE o == trainings[cursor]
  <2>1. trainings \in Seq(TrainingOrder) /\ cursor \in DOMAIN trainings /\ commands \in Seq(Command)
    BY DEF BuildTraining, TypeInv, TypeOK
  <2>2. o \in TrainingOrder /\ o \in Elems(trainings)
    BY <2>1, ElementOfSeq, LenProperties DEF Elems
  <2>3. PICK u \in Producers(o.type, o.assignee) :
           commands' = Append(commands, [type |-> o.type, unit |-> u])
    BY <1>2 DEF BuildTraining, Issue
  <2> HIDE DEF o
  <2>4. o.type \in UnitType /\ o.assignee \in Tag \cup {NullTag} /\ ~IsStructure(o.type)
    <3>1. o.type \in {"SCV", "Reaper"}
      BY <2>2 DEF OrdersAssigned
    <3>2. Plot(o.type) = "Unit"
      BY <3>1, UnitPlot
    <3> QED BY <2>2, <3>2 DEF TrainingOrder, IsStructure
  <2>5. u \in Tag \cup {NullTag}
    BY <2>3, <2>4, ProducersType, TypeSplit DEF TypeInv
  <2> DEFINE c == [type |-> o.type, unit |-> u]
  <2>6. c \in Command /\ c \notin CommandsFor(t)
    BY <2>4, <2>5 DEF Command, CommandsFor
  <2> HIDE DEF c
  <2>7. Count(Append(commands, c), CommandsFor(t))
        = Count(commands, CommandsFor(t)) + (IF c \in CommandsFor(t) THEN 1 ELSE 0)
    BY <2>1, <2>6, CountAppend
  <2>8. Commanded(t)' = Commanded(t)
    <3>1. Commanded(t) \in Nat
      BY WayTypes DEF TypeInv
    <3> QED BY <2>3, <2>6, <2>7, <3>1 DEF Commanded, c
  <2> QED BY <2>8 DEF BuildTraining, OnTheWay, Queued
<1> QED BY <1>1, <1>2

Schedules == \/ ScheduleOpening \/ QuarterMasterOnStep
             \/ \E u \in Tag : OnUnitDestroyed(u) \/ OnUnitIdle(u)

(* Only what schedules lengthens the way: Builder moves an order along it. *)
LEMMA BotWay ==
    ASSUME StepInv, BotStep, NEW t \in UnitType, IsStructure(t)
    PROVE  IF Schedules THEN UNCHANGED <<Commanded(t), travelling>>
           ELSE OnTheWay(t)' = OnTheWay(t)
<1>0. TypeInv /\ OrdersAssigned
  BY DEF StepInv, SightInv
<1>1. CASE Schedules
  BY <1>1 DEF Schedules, ScheduleOpening, OnUnitDestroyed, OnUnitIdle, QuarterMasterOnStep,
              gameVars, Commanded
<1>2. CASE BuilderOnStep
  <2>1. UNCHANGED travelling
    BY <1>2 DEF BuilderOnStep
  <2>2. CASE HeadWaits
    BY <2>1, <2>2 DEF HeadWaits, queueVars, OnTheWay, Queued, Commanded
  <2>3. ~Schedules
    BY <1>2 DEF Schedules, BuilderOnStep, ScheduleOpening, OnUnitDestroyed, OnUnitIdle,
                QuarterMasterOnStep
  <2> QED BY <1>0, <1>2, <2>1, <2>2, <2>3, BuildHeadWay DEF BuilderOnStep
<1>3. CASE TrainNext
  <2>1. UNCHANGED travelling /\ BuildTraining
    BY <1>3 DEF TrainNext
  <2>2. ~Schedules
    BY <1>3 DEF Schedules, TrainNext, ScheduleOpening, OnUnitDestroyed, OnUnitIdle,
                QuarterMasterOnStep
  <2> QED BY <1>0, <2>1, <2>2, TrainNextWay
<1>4. CASE ~Schedules /\ ~BuilderOnStep /\ ~TrainNext
  <2>1. UNCHANGED <<commands, travelling, constructions>>
    BY <1>4 DEF BotStep, Schedules, OnUnitCreated, OnReaperCreated, ApiOnStep, MinerOnStep,
                SendActions, gameVars, builderVars, queueVars
  <2> QED BY <1>4, <2>1 DEF OnTheWay, Queued, Commanded
<1> QED BY <1>1, <1>2, <1>3, <1>4

(***************************************************************************)
(* What stands keeps standing unless it is razed, and is never unbuilt;    *)
(* only a command center becomes something else.                           *)
(***************************************************************************)
Stands(v) ==
    /\ units'[v].alive
    /\ units[v].built => units'[v].built
    /\ \/ units'[v].type = units[v].type
       \/ units[v].type = "CommandCenter" /\ units'[v].type \in Mutations

GameBuilds ==
    \/ SetOut \/ Obey \/ Refuse \/ Income
    \/ \E t \in UnitType : Lay(t) \/ FailToLay(t)
    \/ \E u \in Tag : Complete(u)
    \/ \E u \in Tag, i \in 1 .. 2 : Finish(u, i)

(* The game's steps. *)
LEMMA GameBuildsOrRazes ==
    /\ GameStep => \/ Observe
                   \/ (GameBuilds \/ \E u \in Tag : RazeStructure(u)) /\ UNCHANGED botVars
    /\ GameBuilds => GameAction
BY DEF GameStep, GameBuilds, GameAction, HandleCommand, Earn, LayStructure, LoseStructure,
       CompleteStructure, RazeStructure, FinishOrder

(* No step but a raze takes a structure down. *)
LEMMA StandingKept ==
    ASSUME GameTypeOK, GameOccupied, OrdersFit, GameBuilds, NEW v \in Tag, units[v].alive
    PROVE  Stands(v)
<1>0. UNCHANGED units => Stands(v)
  BY DEF Stands
<1>1. units[v].type # NoType /\ units \in [Tag -> Structure]
  BY DEF GameOccupied, GameTypeOK
<1>2. CASE SetOut \/ Refuse \/ Income
  BY <1>0, <1>2 DEF SetOut, Refuse, Income
<1>3. CASE Obey
  <2> DEFINE c == Head(commands)
             queued == [units EXCEPT ![c.unit].orders = Append(@, c.type)]
  <2>1. /\ queued[v].alive = units[v].alive /\ queued[v].type = units[v].type
        /\ queued[v].built = units[v].built
        /\ queued \in [Tag -> [type : UnitType \cup {NoType}, alive : BOOLEAN,
                               built : BOOLEAN, orders : {queued[w].orders : w \in Tag},
                               addon : Tag \cup {NullTag}]]
    BY <1>1 DEF Structure
  <2>2. CASE units' = queued
    BY <2>1, <2>2 DEF Stands
  <2>3. CASE Plot(c.type) = "Addon"
    <3>1. NextTag \in Tag /\ NextTag # v
      BY <1>1, <1>3, <2>3, NextTagVacant DEF Obey
    <3>2. units' = [queued EXCEPT ![c.unit].addon = NextTag, ![NextTag] = Site(c.type)]
      BY <1>3, <2>3 DEF Obey
    <3> HIDE DEF queued
    <3>3. /\ units'[v].alive = queued[v].alive /\ units'[v].type = queued[v].type
          /\ units'[v].built = queued[v].built
      BY <2>1, <3>1, <3>2
    <3> QED BY <2>1, <3>3 DEF Stands
  <2> QED BY <1>3, <2>2, <2>3 DEF Obey
<1>4. ASSUME NEW t \in UnitType, Lay(t)
      PROVE  Stands(v)
  <2>1. NextTag \in Tag /\ NextTag # v
    BY <1>1, <1>4, NextTagVacant DEF Lay
  <2>2. units'[v] = units[v]
    BY <1>1, <1>4, <2>1 DEF Lay
  <2> QED BY <2>2 DEF Stands
<1>5. ASSUME NEW t \in UnitType, FailToLay(t)
      PROVE  Stands(v)
  BY <1>0, <1>5 DEF FailToLay
<1>6. ASSUME NEW u \in Tag, Complete(u)
      PROVE  Stands(v)
  <2>1. units'[v] = IF v = u THEN [units[v] EXCEPT !.built = TRUE]
                    ELSE IF units[v].addon = u THEN [units[v] EXCEPT !.orders = <<>>]
                    ELSE units[v]
    BY <1>6 DEF Complete
  <2>2. /\ units'[v].alive = units[v].alive /\ units'[v].type = units[v].type
        /\ units[v].built => units'[v].built
    BY <1>1, <2>1 DEF Structure
  <2> QED BY <2>2 DEF Stands
<1>7. ASSUME NEW u \in Tag, NEW i \in 1 .. 2, Finish(u, i)
      PROVE  Stands(v)
  <2> DEFINE t == units[u].orders[i]
             rest == SubSeq(units[u].orders, 1, i - 1)
                     \o SubSeq(units[u].orders, i + 1, Len(units[u].orders))
  <2>1. /\ units' = [units EXCEPT ![u].orders = rest,
                                  ![u].type = IF Plot(t) = "Mutation" THEN t ELSE @]
        /\ t \in Elems(units[u].orders)
    BY <1>7 DEF Finish, Elems
  <2>2. Plot(t) = "Mutation" => t \in Mutations /\ units[u].type = "CommandCenter"
    BY <2>1, MutationPlot DEF OrdersFit, FitOrders
  <2> HIDE DEF t, rest
  <2>3. /\ units'[v].alive = units[v].alive /\ units'[v].built = units[v].built
        /\ units'[v].type = IF v = u /\ Plot(t) = "Mutation" THEN t ELSE units[v].type
    BY <1>1, <2>1 DEF Structure
  <2> QED BY <2>2, <2>3 DEF Stands
<1> QED BY <1>2, <1>3, <1>4, <1>5, <1>6, <1>7 DEF GameBuilds

(* Razing kills the structure and an addon it has not finished, and changes *)
(* no type and no progress.                                                 *)
LEMMA RazedKept ==
    ASSUME GameTypeOK, NEW u \in Tag, NEW kind, Raze(u, kind), NEW v \in Tag
    PROVE  /\ units'[v].type = units[v].type /\ units'[v].built = units[v].built
           /\ units'[v].alive => units[v].alive
           /\ \/ v = u
              \/ v = units[u].addon /\ ~units[v].built
              \/ units'[v].alive = units[v].alive
<1> DEFINE half == units[u].addon
           gone == {u} \cup (IF half \in Tag /\ ~units[half].built THEN {half} ELSE {})
<1>1. /\ v \in gone => units'[v] = [[units[v] EXCEPT !.alive = FALSE] EXCEPT !.orders = <<>>]
      /\ v \notin gone => \/ units'[v] = units[v]
                          \/ units'[v] = [[units[v] EXCEPT !.addon = NullTag] EXCEPT !.orders = @]
                          \/ units'[v] = [[units[v] EXCEPT !.addon = NullTag] EXCEPT !.orders = <<>>]
  BY DEF Raze
<1>2. v \in gone => v = u \/ (v = half /\ ~units[v].built)
  OBVIOUS
<1> HIDE DEF gone
<1> QED BY <1>1, <1>2 DEF GameTypeOK, Structure

(* What the bot does to its copies.                                         *)
Copied(v) ==
    \/ view'[v] = view[v]
    \/ units[v].alive /\ view'[v] = units[v]
    \/ ~units[v].alive /\ view'[v] = [view[v] EXCEPT !.alive = FALSE]

(* The bot's copies of units only ever take what the game shows. *)
LEMMA BotCopies ==
    ASSUME TypeOK, BotStep, NEW v \in Tag
    PROVE  Copied(v) /\ UNCHANGED units
<1>1. UNCHANGED units
  BY BotKeepsUnits
<1>2. view \in [Tag -> Structure]
  BY DEF TypeOK
<1>3. ASSUME NEW u \in Tag, Refresh(u) PROVE Copied(v)
  BY <1>2, <1>3 DEF Refresh, Copied
<1>4. CASE ApiOnStep
  BY <1>1, <1>4 DEF ApiOnStep, RefreshAll, Existing, Copied
<1>5. CASE UNCHANGED view
  BY <1>1, <1>5 DEF Copied
<1> QED BY <1>1, <1>3, <1>4, <1>5 DEF BotStep, ScheduleOpening, OnUnitDestroyed, OnUnitCreated,
      OnUnitIdle, OnReaperCreated, MinerOnStep, QuarterMasterOnStep, BuilderOnStep, TrainNext,
      SendActions, obsVars

(***************************************************************************)
(* QuarterMaster's depots.                                                 *)
(***************************************************************************)
Depot == "SupplyDepot"
OpeningNamesDepots ==
    \A i \in DOMAIN Opening : Depot \in Elems(TechLine[Opening[i]])
                              => \E j \in 1 .. i - 1 : Opening[j] = Depot

OpenedSoFar(t) ==
    Cardinality({i \in DOMAIN Opening : Opening[i] = t /\ (phase = "opening" => i < cursor)})
Asked == IF m_skip_turn THEN 1 ELSE 0
NothingRazed == \A u \in Tag : view[u].built => units[u].alive /\ units[u].built
OpeningQueued ==
    phase = "opening" => \A i \in DOMAIN Opening : i < cursor => Opening[i] \in Elems(constructions)
DepotsCounted ==
    OnTheWay(Depot) + Cardinality(Unannounced(Depot)) <= OpenedSoFar(Depot) + Asked

DestroyedDead == events.destroyed \cap Existing = {}

RequestsInv ==
    /\ StepInv /\ OrdersFit /\ NothingRazed /\ DestroyedDead /\ OpeningQueued
    /\ DepotsCounted

(* Without razing, what the bot saw finished stands. *)
LEMMA NothingRazedStep ==
    ASSUME "razed" \notin Mishaps, TypeInv, OrdersFit, NothingRazed, [Next]_vars
    PROVE  NothingRazed'
<1>0. GameTypeOK /\ GameOccupied /\ TypeOK /\ view \in [Tag -> Structure]
  BY TypeSplit, OccupiedSplit DEF TypeInv, TypeOK
<1>1. CASE UNCHANGED <<units, view>>
  BY <1>1 DEF NothingRazed
<1>2. CASE BotStep
  <2> SUFFICES ASSUME NEW v \in Tag, view'[v].built PROVE units'[v].alive /\ units'[v].built
    BY DEF NothingRazed
  <2>1. Copied(v) /\ UNCHANGED units
    BY <1>0, <1>2, BotCopies
  <2>2. view[v].built => units[v].alive /\ units[v].built
    BY DEF NothingRazed
  <2> QED BY <1>0, <2>1, <2>2 DEF Copied, Structure
<1>3. ASSUME NEW u \in Tag, RazeStructure(u) PROVE NothingRazed'
  <2>1. /\ Raze(u, IF view[u].built THEN "razed" ELSE "unfinished") /\ view' = view
    BY <1>3 DEF RazeStructure, botVars, obsVars
  <2>2. ~view[u].built /\ Raze(u, "unfinished")
    BY <2>1 DEF Raze, Mishap
  <2> SUFFICES ASSUME NEW v \in Tag, view[v].built PROVE units'[v].alive /\ units'[v].built
    BY <2>1 DEF NothingRazed
  <2>3. units[v].alive /\ units[v].built
    BY DEF NothingRazed
  <2> QED BY <1>0, <2>2, <2>3, RazedKept
<1>4. CASE GameBuilds /\ UNCHANGED botVars
  <2>1. view' = view
    BY <1>4 DEF botVars, obsVars
  <2> SUFFICES ASSUME NEW v \in Tag, view[v].built PROVE units'[v].alive /\ units'[v].built
    BY <2>1 DEF NothingRazed
  <2>2. units[v].alive /\ units[v].built
    BY DEF NothingRazed
  <2> QED BY <1>0, <1>4, <2>2, StandingKept DEF Stands
<1>5. Observe => UNCHANGED <<units, view>>
  BY DEF Observe
<1> QED BY <1>1, <1>2, <1>3, <1>4, <1>5, GameBuildsOrRazes DEF Next, vars, gameVars, obsVars

(* What is reported destroyed is dead. *)
LEMMA DestroyedDeadStep ==
    ASSUME StepInv, DestroyedDead, [Next]_vars
    PROVE  DestroyedDead'
<1>0. events \in EventRecord
  BY DEF StepInv, SightInv, TypeInv, TypeOK
<1>1. CASE UNCHANGED <<units, events>>
  BY <1>1 DEF DestroyedDead, Existing
<1>2. CASE BotStep
  <2>1. UNCHANGED units
    BY <1>2, BotKeepsUnits
  <2>2. events'.destroyed \subseteq events.destroyed
    BY <1>0, <1>2 DEF BotStep, ScheduleOpening, OnUnitDestroyed, OnUnitCreated, OnUnitIdle,
       OnReaperCreated, ApiOnStep, MinerOnStep, QuarterMasterOnStep, BuilderOnStep, TrainNext,
       SendActions, obsVars, EventRecord
  <2> QED BY <2>1, <2>2 DEF DestroyedDead, Existing
<1>3. CASE GameStep
  <2>1. CASE Observe
    BY <2>1 DEF Observe, NewEvents, DestroyedDead, Existing
  <2>2. CASE UNCHANGED botVars
    <3>1. phase = "game" /\ events' = events
      BY <1>3, <2>2, GameStepInGame DEF botVars, obsVars
    <3>2. events'.destroyed = {}
      BY <3>1 DEF StepInv, StepOrder, NoEvents
    <3> QED BY <3>2 DEF DestroyedDead
  <2> QED BY <1>3, <2>1, <2>2, GameStepIsAction
<1> QED BY <1>1, <1>2, <1>3 DEF Next, vars, gameVars, obsVars

(* What the opening has ordered so far. *)
LEMMA OpenedMore ==
    ASSUME cursor \in Nat \ {0}, ScheduleOpening, NEW t
    PROVE  /\ OpenedSoFar(t) \in Nat
           /\ OpenedSoFar(t)' = OpenedSoFar(t)
                 + (IF cursor \in DOMAIN Opening /\ Opening[cursor] = t THEN 1 ELSE 0)
<1> DEFINE S == {i \in DOMAIN Opening : Opening[i] = t /\ (phase = "opening" => i < cursor)}
<1>1. IsFiniteSet(DOMAIN Opening) /\ DOMAIN Opening = 1 .. Len(Opening) /\ Len(Opening) \in Nat
  BY DispatcherAssumption, IndicesFinite
<1>2. IsFiniteSet(S) /\ Cardinality(S) \in Nat
  BY <1>1, FS_Subset, FS_CardinalityType
<1>3. phase = "opening"
  BY DEF ScheduleOpening
<1>4. CASE cursor \in DOMAIN Opening
  <2>1. phase' = "opening" /\ cursor' = cursor + 1
    BY <1>3, <1>4 DEF ScheduleOpening
  <2>2. CASE Opening[cursor] = t
    <3>1. S' = S \cup {cursor} /\ cursor \notin S
      BY <1>1, <1>3, <1>4, <2>1, <2>2
    <3> HIDE DEF S
    <3>2. Cardinality(S \cup {cursor}) = Cardinality(S) + 1
      BY <1>2, <3>1, FS_AddElement
    <3> QED BY <1>2, <1>4, <2>2, <3>1, <3>2 DEF OpenedSoFar, S
  <2>3. CASE Opening[cursor] # t
    <3>1. S' = S
      BY <1>1, <1>3, <1>4, <2>1, <2>3
    <3>2. OpenedSoFar(t) = Cardinality(S) /\ OpenedSoFar(t)' = Cardinality(S')
      BY DEF OpenedSoFar
    <3> HIDE DEF S
    <3> QED BY <1>2, <2>3, <3>1, <3>2
  <2> QED BY <2>2, <2>3
<1>5. CASE cursor \notin DOMAIN Opening
  <2>1. phase' = "game"
    BY <1>5 DEF ScheduleOpening
  <2>2. S' = S
    BY <1>1, <1>3, <1>5, <2>1
  <2> QED BY <1>2, <1>5, <2>2 DEF OpenedSoFar
<1> QED BY <1>4, <1>5

(* After the opening nothing is opened, *)
LEMMA OpenedStays ==
    ASSUME (phase # "opening" /\ phase' # "opening") \/ UNCHANGED <<phase, cursor>>, NEW t
    PROVE  OpenedSoFar(t) \in Nat /\ OpenedSoFar(t)' = OpenedSoFar(t)
<1> DEFINE S == {i \in DOMAIN Opening : Opening[i] = t /\ (phase = "opening" => i < cursor)}
<1>1. IsFiniteSet(DOMAIN Opening)
  BY DispatcherAssumption, IndicesFinite
<1>2. IsFiniteSet(S) /\ Cardinality(S) \in Nat
  BY <1>1, FS_Subset, FS_CardinalityType
<1>3. S' = S
  OBVIOUS
<1> QED BY <1>2, <1>3 DEF OpenedSoFar

(* Only ScheduleOpening is of the opening. *)
LEMMA PastOpening ==
    /\ BotStep /\ ~ScheduleOpening => phase # "opening" /\ phase' # "opening"
    /\ GameStep => phase # "opening" /\ phase' # "opening"
<1>1. BotStep /\ ~ScheduleOpening => phase # "opening" /\ phase' # "opening"
  BY DEF BotStep, OnUnitDestroyed, OnUnitCreated, OnUnitIdle, OnReaperCreated, ApiOnStep,
         MinerOnStep, QuarterMasterOnStep, BuilderOnStep, TrainNext, SendActions
<1>2. GameStep => phase # "opening" /\ phase' # "opening"
  BY GameStepInGame, GameStepIsAction DEF Observe, botVars
<1> QED BY <1>1, <1>2

(* and all of it was. *)
LEMMA OpenedAll ==
    ASSUME NEW t
    PROVE  /\ InOpening(t) \in Nat /\ OpenedSoFar(t) \in Nat /\ OpenedSoFar(t) <= InOpening(t)
           /\ phase # "opening" => OpenedSoFar(t) = InOpening(t)
<1> DEFINE S == {i \in DOMAIN Opening : Opening[i] = t /\ (phase = "opening" => i < cursor)}
           A == {i \in DOMAIN Opening : Opening[i] = t}
<1>1. IsFiniteSet(DOMAIN Opening)
  BY DispatcherAssumption, IndicesFinite
<1>2. IsFiniteSet(A) /\ Cardinality(A) \in Nat
  BY <1>1, FS_Subset, FS_CardinalityType
<1>3. S \subseteq A /\ (phase # "opening" => S = A)
  OBVIOUS
<1>4. IsFiniteSet(S) /\ Cardinality(S) \in Nat /\ Cardinality(S) <= Cardinality(A)
  BY <1>2, <1>3, FS_Subset, FS_CardinalityType
<1> QED BY <1>2, <1>3, <1>4 DEF OpenedSoFar, InOpening

(* While the opening is scheduled, what was scheduled is queued. *)
LEMMA OpeningQueuedStep ==
    ASSUME TypeInv, OpeningQueued, [Next]_vars
    PROVE  OpeningQueued'
<1>1. CASE UNCHANGED <<phase, cursor, constructions>>
  BY <1>1 DEF OpeningQueued
<1>2. CASE ScheduleOpening
  <2>1. /\ cursor \in Nat \ {0} /\ constructions \in Seq(UnitType) /\ phase = "opening"
        /\ DOMAIN Opening = 1 .. Len(Opening) /\ Len(Opening) \in Nat
    BY <1>2, DispatcherAssumption, LenProperties DEF TypeInv, TypeOK, ScheduleOpening
  <2>2. CASE cursor \in DOMAIN Opening
    <3> DEFINE t == Opening[cursor]
    <3>1. /\ t \in UnitType /\ ScheduleConstruction(t, FALSE, Standing)
          /\ cursor' = cursor + 1 /\ phase' = phase
      BY <1>2, <2>2, DispatcherAssumption, ElementOfSeq, LenProperties DEF ScheduleOpening
    <3> HIDE DEF t
    <3>2. Elems(constructions) \subseteq Elems(constructions') /\ t \in Elems(constructions')
      BY <2>1, <3>1, ScheduleConstructionGrows
    <3>3. ASSUME NEW i \in DOMAIN Opening, i < cursor'
          PROVE  Opening[i] \in Elems(constructions')
      <4>1. i < cursor \/ i = cursor
        BY <2>1, <3>1, <3>3
      <4> QED BY <2>1, <3>2, <4>1 DEF OpeningQueued, t
    <3> QED BY <3>3 DEF OpeningQueued
  <2>3. CASE cursor \notin DOMAIN Opening
    BY <1>2, <2>3 DEF ScheduleOpening, OpeningQueued
  <2> QED BY <2>2, <2>3
<1>3. phase' # "opening" => OpeningQueued'
  BY DEF OpeningQueued
<1> QED BY <1>1, <1>2, <1>3, PastOpening DEF Next, vars, builderVars, queueVars

(* A site appears where an SCV lays it; an addon is no site of a structure. *)
LEMMA LaidByLay ==
    ASSUME GameTypeOK, GameOccupied, GameAction, NEW v \in Tag, units[v].type = NoType,
           NEW t \in UnitType, t \notin Addons, units'[v].type = t, units'[v].alive
    PROVE  Lay(t) /\ v = NextTag
<1>0. t # NoType /\ units \in [Tag -> Structure]
  BY UnitTypeDataAssumption DEF GameTypeOK
<1>1. ~UNCHANGED units /\ ~Kept(v)
  BY <1>0 DEF Kept
<1>2. CASE Obey
  <2>1. PICK c \in {Head(commands)} : Plot(c.type) = "Addon" /\ Laid(v, c.type)
    BY <1>1, <1>2, ObeyUnits
  <2>2. t = c.type
    BY <2>1, SiteFields DEF Laid
  <2> QED BY <2>1, <2>2, AddonPlot
<1>3. ASSUME NEW x \in UnitType, Lay(x)
      PROVE  Lay(t) /\ v = NextTag
  <2>1. NextTag \in Tag /\ units' = [units EXCEPT ![NextTag] = Site(x)]
    BY <1>3, NextTagVacant DEF Lay
  <2>2. v = NextTag
    BY <1>0, <2>1
  <2>3. units'[v] = Site(x)
    BY <1>0, <2>1, <2>2
  <2>4. x = t
    BY <2>3, SiteFields
  <2> QED BY <1>3, <2>2, <2>4
<1>4. ASSUME NEW u \in Tag, Complete(u) PROVE FALSE
  BY <1>1, <1>4, CompleteUnits
<1>5. ASSUME NEW u \in Tag, Raze(u, "razed") \/ Raze(u, "unfinished") PROVE FALSE
  BY <1>1, <1>5, RazeUnits
<1>6. ASSUME NEW u \in Tag, NEW i \in 1 .. 2, Finish(u, i) PROVE FALSE
  <2>1. v = u /\ units[u].alive
    BY <1>1, <1>6, FinishUnits
  <2> QED BY <2>1 DEF GameOccupied
<1> QED BY <1>1, <1>2, <1>3, <1>4, <1>5, <1>6
        DEF GameAction, SetOut, Refuse, Income, FailToLay

(* The sites not announced are finitely many. *)
LEMMA UnannouncedFinite ==
    \A t : IsFiniteSet(Unannounced(t)) /\ Cardinality(Unannounced(t)) \in Nat
<1> TAKE t
<1>1. Unannounced(t) \subseteq Tag /\ IsFiniteSet(Tag)
  BY GameAssumption DEF Unannounced
<1> QED BY <1>1, FS_Subset, FS_CardinalityType

(* A depot the bot has not seen is one that has just been laid.             *)
LEMMA GameUnannounced ==
    ASSUME SightInv, GameAction, UNCHANGED botVars
    PROVE  LET U == Unannounced(Depot)
           IN  /\ Cardinality(U) \in Nat /\ Cardinality(U') \in Nat
               /\ Cardinality(U') <= Cardinality(U) + (IF Lay(Depot) THEN 1 ELSE 0)
<1> DEFINE U == Unannounced(Depot)
           V == U'
<1>0. /\ TypeInv /\ GameTypeOK /\ GameOccupied /\ AddonsAttached
      /\ Depot \in UnitType /\ Depot \notin Addons /\ Depot # NoType /\ view' = view
      /\ units \in [Tag -> Structure]
  BY TypeSplit, OccupiedSplit, DepotPlot, UnitTypeDataAssumption
     DEF SightInv, TypeInv, TypeOK, Depot, botVars, obsVars
<1>1. ASSUME NEW v \in V
      PROVE  v \in U \/ (Lay(Depot) /\ v = NextTag)
  <2>1. v \in Tag /\ units'[v].alive /\ units'[v].type = Depot /\ view[v].type = NoType
    BY <1>0 DEF Unannounced
  <2>2. CASE units[v].type = NoType
    BY <1>0, <2>1, <2>2, LaidByLay
  <2>3. CASE units[v].type # NoType
    <3>1. units[v].type = Depot
      BY <1>0, <2>1, <2>3, DepotStays DEF Depot
    <3>2. units[v].alive
      <4>1. Change(v)
        BY <1>0, <2>1, GameChange
      <4> QED BY <2>1, <2>3, <4>1 DEF Change, Kept, Laid
    <3> QED BY <2>1, <3>1, <3>2 DEF Unannounced
  <2> QED BY <2>2, <2>3
<1>2. IsFiniteSet(U) /\ Cardinality(U) \in Nat
  BY UnannouncedFinite
<1> HIDE DEF U, V
<1>3. CASE ~Lay(Depot)
  <2>1. V \subseteq U
    BY <1>1, <1>3
  <2>2. Cardinality(V) \in Nat /\ Cardinality(V) <= Cardinality(U)
    BY <1>2, <2>1, FS_Subset, FS_CardinalityType
  <2> QED BY <1>2, <1>3, <2>2 DEF U, V
<1>4. CASE Lay(Depot)
  <2> DEFINE W == U \cup {NextTag}
  <2>1. V \subseteq W
    BY <1>1
  <2>2. IsFiniteSet(W) /\ Cardinality(W) \in Nat /\ Cardinality(W) <= Cardinality(U) + 1
    <3>1. W = U \/ NextTag \notin U
      OBVIOUS
    <3>2. NextTag \notin U => IsFiniteSet(W) /\ Cardinality(W) = Cardinality(U) + 1
      BY <1>2, FS_AddElement
    <3> HIDE DEF W
    <3> QED BY <1>2, <3>1, <3>2
  <2> HIDE DEF W
  <2>3. Cardinality(V) \in Nat /\ Cardinality(V) <= Cardinality(W)
    BY <2>1, <2>2, FS_Subset, FS_CardinalityType
  <2> QED BY <1>2, <1>4, <2>2, <2>3 DEF U, V
<1> QED BY <1>3, <1>4

(* The bot's copies only reveal: a depot it has seen stays seen.            *)
LEMMA BotUnannounced ==
    ASSUME TypeInv, BotStep, NEW t
    PROVE  Unannounced(t)' \subseteq Unannounced(t)
<1> SUFFICES ASSUME NEW v \in Unannounced(t)' PROVE v \in Unannounced(t)
  OBVIOUS
<1>0. TypeOK /\ GameOccupied /\ view \in [Tag -> Structure]
  BY OccupiedSplit DEF TypeInv, TypeOK
<1>1. /\ v \in Tag /\ units'[v].alive /\ units'[v].type = t /\ view'[v].type = NoType
  BY DEF Unannounced
<1>2. Copied(v) /\ units' = units
  BY <1>0, <1>1, BotCopies
<1>3. view[v].type = NoType
  BY <1>0, <1>1, <1>2 DEF Copied, GameOccupied
<1> QED BY <1>1, <1>2, <1>3 DEF Unannounced

USE DEF Depot

(* The game moves a depot along, or loses it. *)
LEMMA GameDepotsCounted ==
    ASSUME SightInv, DepotsCounted, GameStep
    PROVE  DepotsCounted'
<1>0. TypeInv /\ TypeOK /\ Depot \in UnitType /\ IsStructure(Depot)
  BY DepotPlot, UnitTypeDataAssumption DEF SightInv, TypeInv, Depot
<1>1. phase # "opening" /\ phase' # "opening"
  BY PastOpening
<1>2. OpenedSoFar(Depot) \in Nat /\ OpenedSoFar(Depot)' = OpenedSoFar(Depot)
  BY <1>1, OpenedStays
<1>3. CASE Observe
  <2>1. /\ UNCHANGED <<OnTheWay(Depot), Unannounced(Depot), m_skip_turn>>
    BY <1>3 DEF Observe, OnTheWay, Queued, Commanded, Unannounced, builderVars, queueVars,
                pluginVars
  <2> QED BY <1>2, <2>1 DEF DepotsCounted, Asked
<1>4. CASE GameAction /\ UNCHANGED botVars
  <2>1. /\ OnTheWay(Depot) \in Nat /\ OnTheWay(Depot)' \in Int
        /\ Lay(Depot) \/ FailToLay(Depot) => OnTheWay(Depot)' = OnTheWay(Depot) - 1
        /\ ~Lay(Depot) /\ ~FailToLay(Depot) => OnTheWay(Depot)' = OnTheWay(Depot)
    BY <1>0, <1>4, GameWay
  <2>2. /\ Cardinality(Unannounced(Depot)) \in Nat /\ Cardinality(Unannounced(Depot)') \in Nat
        /\ Cardinality(Unannounced(Depot)')
           <= Cardinality(Unannounced(Depot)) + (IF Lay(Depot) THEN 1 ELSE 0)
    BY <1>4, GameUnannounced
  <2>3. Asked' = Asked /\ Asked \in Nat
    BY <1>4 DEF botVars, pluginVars, Asked
  <2> QED BY <1>2, <2>1, <2>2, <2>3 DEF DepotsCounted
<1> QED BY <1>3, <1>4, GameStepIsAction

(* Whatever is asked for but a depot, or an opening's order that names its  *)
(* depots first, brings no depot.                                           *)
LEMMA UrgentDepots ==
    ASSUME UrgentRequireNothing, constructions \in Seq(UnitType), NEW standing,
           NEW t \in {"SupplyDepot", "BarracksReactor"}, ScheduleConstruction(t, TRUE, standing)
    PROVE  Queued(Depot)' = Queued(Depot) + (IF t = Depot THEN 1 ELSE 0)
<1>1. t \in UnitType /\ Depot \in UnitType /\ TechLine[t] = <<>>
  BY UnitTypeDataAssumption, TechLineAssumption DEF UrgentRequireNothing, Depot
<1>2. Depot \notin Elems(TechLine[t])
  BY <1>1 DEF Elems
<1> QED BY <1>1, <1>2, ScheduledMore

(* The opening orders the depots it names, and no others. *)
LEMMA OpeningDepots ==
    ASSUME OpeningNamesDepots, TypeInv, OpeningQueued, ScheduleOpening
    PROVE  Queued(Depot)' = Queued(Depot)
              + (IF cursor \in DOMAIN Opening /\ Opening[cursor] = Depot THEN 1 ELSE 0)
<1>0. /\ constructions \in Seq(UnitType) /\ Depot \in UnitType /\ phase = "opening"
      /\ Queued(Depot) \in Nat /\ DOMAIN Opening = 1 .. Len(Opening) /\ cursor \in Nat
      /\ Len(Opening) \in Nat
  BY UnitTypeDataAssumption, WayTypes, DispatcherAssumption, LenProperties
     DEF TypeInv, TypeOK, Depot, ScheduleOpening
<1>1. CASE cursor \in DOMAIN Opening
  <2> DEFINE t == Opening[cursor]
  <2>1. t \in UnitType /\ ScheduleConstruction(t, FALSE, Standing)
    BY <1>1, DispatcherAssumption, ElementOfSeq, LenProperties DEF ScheduleOpening
  <2>2. Depot \in Elems(constructions) \/ Depot \notin Elems(TechLine[t])
    <3>1. ASSUME NEW j \in 1 .. cursor - 1, Opening[j] = Depot
          PROVE  Depot \in Elems(constructions)
      <4>1. j \in DOMAIN Opening /\ j < cursor
        BY <1>0, <1>1
      <4> QED BY <1>0, <3>1, <4>1 DEF OpeningQueued
    <3> QED BY <1>1, <3>1 DEF OpeningNamesDepots
  <2> HIDE DEF t
  <2>3. Queued(Depot)' = Queued(Depot) + (IF Depot = t THEN 1 ELSE 0)
    BY <1>0, <2>1, <2>2, ScheduledMore
  <2> QED BY <1>1, <2>3 DEF t
<1>2. CASE cursor \notin DOMAIN Opening
  <2>1. UNCHANGED constructions
    BY <1>2 DEF ScheduleOpening
  <2>2. Queued(Depot)' = Queued(Depot)
    BY <2>1 DEF Queued
  <2> QED BY <1>0, <1>2, <2>2
<1> QED BY <1>1, <1>2

(* A depot more is ordered with m_skip_turn set, and m_skip_turn is reset   *)
(* with a depot announced.                                                  *)
LEMMA BotDepotsCounted ==
    ASSUME UrgentRequireNothing, OpeningNamesDepots, RequestsInv, BotStep
    PROVE  DepotsCounted'
<1>0. /\ StepInv /\ SightInv /\ TypeInv /\ TypeOK /\ DepotsCounted /\ OpeningQueued
      /\ Depot \in UnitType /\ IsStructure(Depot) /\ constructions \in Seq(UnitType)
      /\ m_skip_turn \in BOOLEAN /\ cursor \in Nat \ {0} /\ events \in EventRecord
  BY DepotPlot, UnitTypeDataAssumption DEF RequestsInv, StepInv, SightInv, TypeInv, TypeOK, Depot
<1>1. /\ Queued(Depot) \in Nat /\ Commanded(Depot) \in Nat /\ travelling[Depot] \in Nat
      /\ Cardinality(Unannounced(Depot)) \in Nat
  BY <1>0, WayTypes, UnannouncedFinite
<1> DEFINE k == Cardinality(Unannounced(Depot))
           l == Cardinality(Unannounced(Depot)')
<1>2. l \in Nat /\ k \in Nat /\ l <= k
  <2>1. Unannounced(Depot)' \subseteq Unannounced(Depot)
    BY <1>0, BotUnannounced
  <2> QED BY <2>1, UnannouncedFinite, FS_Subset, FS_CardinalityType
<1>3. IF Schedules THEN UNCHANGED <<Commanded(Depot), travelling>>
      ELSE OnTheWay(Depot)' = OnTheWay(Depot)
  BY <1>0, BotWay
<1>4. Asked \in {0, 1} /\ OpenedSoFar(Depot) \in Nat
  BY OpenedAll DEF Asked
<1>5. ~ScheduleOpening => OpenedSoFar(Depot)' = OpenedSoFar(Depot)
  BY PastOpening, OpenedStays
<1>6. DepotsCounted' <=> OnTheWay(Depot)' + l <= OpenedSoFar(Depot)' + Asked'
  BY DEF DepotsCounted
<1>7. /\ OnTheWay(Depot) = Queued(Depot) + Commanded(Depot) + travelling[Depot]
      /\ OnTheWay(Depot)' = Queued(Depot)' + Commanded(Depot)' + travelling'[Depot]
      /\ OnTheWay(Depot) + k <= OpenedSoFar(Depot) + Asked
  BY <1>0 DEF OnTheWay, DepotsCounted
<1> HIDE DEF k, l
<1>10. CASE ScheduleOpening
  <2>1. Asked' = Asked
    BY <1>10 DEF ScheduleOpening, pluginVars, Asked
  <2>2. OpenedSoFar(Depot)' = OpenedSoFar(Depot)
           + (IF cursor \in DOMAIN Opening /\ Opening[cursor] = Depot THEN 1 ELSE 0)
    BY <1>0, <1>10, OpenedMore
  <2>3. Queued(Depot)' = Queued(Depot)
           + (IF cursor \in DOMAIN Opening /\ Opening[cursor] = Depot THEN 1 ELSE 0)
    BY <1>0, <1>10, OpeningDepots
  <2>4. Commanded(Depot)' = Commanded(Depot) /\ travelling' = travelling
    BY <1>3, <1>10 DEF Schedules
  <2>5. OnTheWay(Depot)' = OnTheWay(Depot)
           + (IF cursor \in DOMAIN Opening /\ Opening[cursor] = Depot THEN 1 ELSE 0)
    BY <1>1, <1>7, <2>3, <2>4
  <2>6. OnTheWay(Depot) \in Nat
    BY <1>1, <1>7
  <2>7. OnTheWay(Depot)' + l <= OpenedSoFar(Depot)' + Asked'
    BY <1>1, <1>2, <1>4, <1>7, <2>1, <2>2, <2>5, <2>6
  <2> QED BY <1>6, <2>7
<1>11. CASE QuarterMasterOnStep
  <2>1. Commanded(Depot)' = Commanded(Depot) /\ travelling' = travelling
    BY <1>3, <1>11 DEF Schedules
  <2>2. OpenedSoFar(Depot)' = OpenedSoFar(Depot)
    BY <1>5, <1>11 DEF QuarterMasterOnStep, ScheduleOpening
  <2>3. CASE UNCHANGED <<constructions, m_skip_turn>>
    <3>1. Queued(Depot)' = Queued(Depot) /\ Asked' = Asked
      BY <2>3 DEF Queued, Asked
    <3> QED BY <1>1, <1>2, <1>4, <1>6, <1>7, <2>1, <2>2, <3>1
  <2>4. CASE /\ ~m_skip_turn /\ m_skip_turn'
             /\ ScheduleConstruction("SupplyDepot", TRUE, Standing)
    <3>1. Asked = 0 /\ Asked' = 1
      BY <2>4 DEF Asked
    <3>2. Queued(Depot)' = Queued(Depot) + 1
      BY <1>0, <2>4, UrgentDepots DEF Depot
    <3> QED BY <1>1, <1>2, <1>4, <1>6, <1>7, <2>1, <2>2, <3>1, <3>2
  <2> QED BY <1>11, <2>3, <2>4 DEF QuarterMasterOnStep, RequestSupplies
<1>12. ASSUME NEW u \in Tag, OnUnitIdle(u) \/ OnUnitDestroyed(u) PROVE DepotsCounted'
  <2>1. Commanded(Depot)' = Commanded(Depot) /\ travelling' = travelling
    BY <1>3, <1>12 DEF Schedules
  <2>2. OpenedSoFar(Depot)' = OpenedSoFar(Depot)
    BY <1>5, <1>12 DEF OnUnitIdle, OnUnitDestroyed, ScheduleOpening
  <2>3. Asked' = Asked
    BY <1>12 DEF OnUnitIdle, OnUnitDestroyed, pluginVars, Asked
  <2>4. Queued(Depot)' = Queued(Depot)
    <3>1. CASE UNCHANGED constructions
      BY <3>1 DEF Queued
    <3>2. CASE ScheduleConstruction("BarracksReactor", TRUE, Standing')
      <4>1. Queued(Depot)' = Queued(Depot) + (IF "BarracksReactor" = Depot THEN 1 ELSE 0)
        BY <1>0, <3>2, UrgentDepots
      <4>2. "BarracksReactor" # Depot
        OBVIOUS
      <4> QED BY <1>1, <4>1, <4>2
    <3>3. OnUnitDestroyed(u) => UNCHANGED constructions
      <4>1. OnUnitDestroyed(u) => u \in events.destroyed
        BY DEF OnUnitDestroyed
      <4>2. u \in events.destroyed => ~view[u].built
        BY DEF RequestsInv, DestroyedDead, NothingRazed, Existing
      <4> QED BY <4>1, <4>2 DEF OnUnitDestroyed, RepairManOnUnitDestroyed
    <3>4. OnUnitIdle(u) => \/ UNCHANGED constructions
                           \/ ScheduleConstruction("BarracksReactor", TRUE, Standing')
      BY DEF OnUnitIdle, ReaperRushOnUnitIdle, queueVars
    <3> QED BY <1>12, <3>1, <3>2, <3>3, <3>4
  <2> QED BY <1>1, <1>2, <1>4, <1>6, <1>7, <2>1, <2>2, <2>3, <2>4
<1>13. ASSUME NEW u \in Tag, OnUnitCreated(u) PROVE DepotsCounted'
  <2>1. ~Schedules /\ ~ScheduleOpening
    BY <1>13 DEF Schedules, OnUnitCreated, ScheduleOpening, QuarterMasterOnStep, OnUnitIdle,
                 OnUnitDestroyed, queueVars, builderVars
  <2>2. /\ u \in events.created /\ phase = "events" /\ Refresh(u) /\ UNCHANGED <<units, listed>>
        /\ m_skip_turn' = IF units[u].type = Depot THEN FALSE ELSE m_skip_turn
    BY <1>13 DEF OnUnitCreated, QuarterMasterOnUnitCreated, gameVars, Depot
  <2>3. CASE units[u].type # Depot
    <3>1. Asked' = Asked
      BY <2>2, <2>3 DEF Asked
    <3> QED BY <1>1, <1>2, <1>3, <1>4, <1>5, <1>6, <1>7, <2>1, <3>1
  <2>4. CASE units[u].type = Depot
    <3>1. Asked' = 0
      BY <2>2, <2>4 DEF Asked
    <3>2. u \in Unannounced(Depot)
      BY <1>0, <2>2, <2>4 DEF SightInv, Sighted, Unannounced
    <3>3. u \notin Unannounced(Depot)'
      <4>1. units[u].alive /\ view \in [Tag -> Structure]
        BY <1>0, <3>2 DEF Unannounced, TypeOK
      <4>2. view'[u] = units[u]
        BY <2>2, <4>1 DEF Refresh
      <4>3. view'[u].type # NoType
        BY <2>4, <4>2, UnitTypeDataAssumption DEF Depot
      <4> QED BY <4>3 DEF Unannounced
    <3>4. Unannounced(Depot)' \subseteq Unannounced(Depot) \ {u}
      BY <1>0, <3>3, BotUnannounced
    <3>5. /\ IsFiniteSet(Unannounced(Depot) \ {u})
          /\ Cardinality(Unannounced(Depot) \ {u}) = k - 1
      BY <3>2, UnannouncedFinite, FS_RemoveElement DEF k
    <3>6. l <= k - 1
      BY <3>4, <3>5, FS_Subset DEF l
    <3> QED BY <1>1, <1>2, <1>3, <1>4, <1>5, <1>6, <1>7, <2>1, <3>1, <3>6
  <2> QED BY <2>3, <2>4
<1>14. CASE /\ ~ScheduleOpening /\ ~QuarterMasterOnStep
            /\ \A u \in Tag : ~OnUnitIdle(u) /\ ~OnUnitDestroyed(u) /\ ~OnUnitCreated(u)
  <2>1. ~Schedules
    BY <1>14 DEF Schedules
  <2>2. Asked' = Asked
    BY <1>14 DEF BotStep, OnReaperCreated, ApiOnStep, MinerOnStep, BuilderOnStep, TrainNext,
                 SendActions, pluginVars, Asked
  <2> QED BY <1>1, <1>2, <1>3, <1>4, <1>5, <1>6, <1>7, <1>14, <2>1, <2>2
<1> QED BY <1>10, <1>11, <1>12, <1>13, <1>14

(* RequestsInv holds to begin with, *)
LEMMA RequestsInvInit == Init => RequestsInv
<1> SUFFICES ASSUME Init PROVE RequestsInv
  OBVIOUS
<1>1. StepInv /\ OrdersFit
  BY SightInvInit, StepOrderInit, OrdersFitInit DEF StepInv
<1>2. NothingRazed
  <2>1. view = units /\ 1 \in Tag
    BY DispatcherAssumption DEF Init
  <2>2. \A u \in Tag : u # 1 => units[u] = Vacant
    BY DEF Init
  <2>3. units[1] = [Site("CommandCenter") EXCEPT !.built = TRUE]
    BY <2>1 DEF Init
  <2>4. units[1].alive
    BY <2>3 DEF Site, Vacant
  <2> QED BY <2>1, <2>2, <2>4 DEF NothingRazed, Vacant
<1>3. DestroyedDead
  BY DEF Init, NoEvents, DestroyedDead
<1>4. OpeningQueued
  <2>1. DOMAIN Opening = 1 .. Len(Opening) /\ Len(Opening) \in Nat /\ cursor = 1
    BY DispatcherAssumption, LenProperties DEF Init
  <2> QED BY <2>1 DEF OpeningQueued
<1>5. DepotsCounted
  <2>1. /\ constructions = <<>> /\ commands = <<>> /\ travelling[Depot] = 0 /\ view = units
    BY UnitTypeDataAssumption DEF Init, Depot
  <2>2. Queued(Depot) = 0 /\ Commanded(Depot) = 0
    BY <2>1, CountEmpty DEF Queued, Commanded
  <2>3. Unannounced(Depot) = {}
    BY <2>1, UnitTypeDataAssumption DEF Unannounced, Depot
  <2>4. Cardinality(Unannounced(Depot)) = 0
    BY <2>3, FS_EmptySet
  <2>5. OpenedSoFar(Depot) \in Nat /\ Asked \in Nat
    BY OpenedAll DEF Asked
  <2> QED BY <2>1, <2>2, <2>4, <2>5 DEF DepotsCounted, OnTheWay
<1> QED BY <1>1, <1>2, <1>3, <1>4, <1>5 DEF RequestsInv

(* every step keeps it, *)
LEMMA RequestsInvStep ==
    ASSUME "razed" \notin Mishaps, UrgentRequireNothing, OpeningNamesDepots,
           RequestsInv, [Next]_vars
    PROVE  RequestsInv'
<1>0. TypeInv /\ SightInv
  BY DEF RequestsInv, StepInv, SightInv
<1>1. StepInv' /\ OrdersFit' /\ DestroyedDead' /\ OpeningQueued' /\ NothingRazed'
  BY <1>0, StepInvStep, OrdersFitStep, DestroyedDeadStep, OpeningQueuedStep, NothingRazedStep
     DEF RequestsInv
<1>2. DepotsCounted'
  <2>1. UNCHANGED vars => DepotsCounted'
    BY DEF RequestsInv, DepotsCounted, OnTheWay, Queued, Commanded, Unannounced, OpenedSoFar,
              Asked, vars, gameVars, obsVars, builderVars, queueVars, pluginVars
  <2>2. Next => DepotsCounted'
    BY <1>0, GameDepotsCounted, BotDepotsCounted DEF Next, RequestsInv
  <2> QED BY <2>1, <2>2
<1> QED BY <1>1, <1>2 DEF RequestsInv

(* and it says what was to be proved. *)
LEMMA RequestsInvMeans == RequestsInv => RequestsAnswered
<1> SUFFICES ASSUME RequestsInv PROVE RequestsAnswered
  OBVIOUS
<1>1. TypeOK /\ Depot \in UnitType
  BY UnitTypeDataAssumption DEF RequestsInv, StepInv, SightInv, TypeInv, Depot
<1>2. Underway(Depot) = OnTheWay(Depot) + Cardinality(Unannounced(Depot))
  BY <1>1, WayTypes DEF Underway, OnTheWay
<1>3. OpenedSoFar(Depot) <= InOpening(Depot) /\ OpenedSoFar(Depot) \in Nat /\ InOpening(Depot) \in Nat
  BY OpenedAll
<1>4. OnTheWay(Depot) \in Nat /\ Cardinality(Unannounced(Depot)) \in Nat /\ Asked \in Nat
  <2>1. /\ Queued(Depot) \in Nat /\ Commanded(Depot) \in Nat /\ travelling[Depot] \in Nat
        /\ Asked \in Nat
    BY <1>1, WayTypes DEF Asked
  <2> QED BY <2>1, UnannouncedFinite DEF OnTheWay
<1> QED BY <1>2, <1>3, <1>4 DEF RequestsInv, DepotsCounted, RequestsAnswered, Depot, Asked

(* QuarterMaster asks again only when a depot has been announced since: of  *)
(* the depots queued, commanded, with a travelling SCV or laid and not      *)
(* announced to the bot there are at most as many as the opening names, and *)
(* one while m_skip_turn is set, however long SCVs travel and whatever else *)
(* goes wrong.  Of its own there may be more than one: what is announced    *)
(* may be a depot of the opening.  Without razing, when depots and reactors *)
(* require no structure, and for an opening that names the depots its       *)
(* structures require: RepairMan and ScheduleConstruction order depots as   *)
(* well otherwise.                                                          *)
THEOREM RequestsMatched ==
    ASSUME "razed" \notin Mishaps, UrgentRequireNothing, OpeningNamesDepots
    PROVE  Spec => []RequestsAnswered
<1>1. Init => RequestsInv
  BY RequestsInvInit
<1>2. RequestsInv /\ [Next]_vars => RequestsInv'
  BY RequestsInvStep
<1>3. RequestsInv => RequestsAnswered
  BY RequestsInvMeans
<1> QED BY <1>1, <1>2, <1>3, PTL DEF Spec
HIDE DEF Depot

(***************************************************************************)
(* The inductive invariant of the structures.  The structures the game or  *)
(* the bot knows of a type are those that stand and those that fell and    *)
(* whose copies are not yet marked dead; what fell was seen finished, or   *)
(* is an addon; copies show a structure's type, or that of the command     *)
(* center it was.                                                          *)
(***************************************************************************)
Plain(t) == t \in UnitType /\ IsStructure(t) /\ ~IsTownHall(t) /\ t # Depot
Known(t) == {u \in Tag : IF units[u].alive THEN units[u].type = t
                         ELSE view[u].alive /\ view[u].type = t}
SeenTrue ==
    \A u \in Tag : view[u].type # NoType =>
       /\ units[u].alive => view[u].alive
       /\ \/ view[u].type = units[u].type
          \/ view[u].type = "CommandCenter" /\ units[u].type \in Mutations
FallenFinished ==
    \A u \in Tag : ~units[u].alive /\ view[u].alive /\ view[u].type # NoType
                  => view[u].built \/ view[u].type \in Addons
AllTallied ==
    \A t \in UnitType :
       Plain(t) => OnTheWay(t) + Cardinality(Known(t)) >= OpenedSoFar(t)

TallyInv ==
    StepInv /\ OrdersFit /\ DestroyedDead /\ SeenTrue /\ FallenFinished /\ AllTallied

(* What sort of types these are. *)
LEMMA PlainTypes ==
    ASSUME NEW t, Plain(t)
    PROVE  /\ t \in UnitType /\ t # NoType /\ t \notin Addons /\ t \notin Mutations
           /\ t # "CommandCenter" /\ t # "SupplyDepot" /\ IsStructure(t)
<1>1. /\ t \in UnitType /\ t # "SupplyDepot" /\ IsStructure(t)
      /\ t \notin {"CommandCenter", "OrbitalCommand", "PlanetaryFortress"}
  BY DEF Plain, IsTownHall, Depot
<1>2. t # NoType
  BY <1>1, UnitTypeDataAssumption
<1>3. t \notin Addons
  BY <1>1, AddonPlot DEF IsStructure
<1> QED BY <1>1, <1>2, <1>3 DEF Mutations

(* The known structures are finitely many. *)
LEMMA KnownFinite ==
    ASSUME NEW t
    PROVE  /\ IsFiniteSet(Known(t)) /\ Cardinality(Known(t)) \in Nat
           /\ IsFiniteSet(Known(t)') /\ Cardinality(Known(t)') \in Nat
<1>1. Known(t) \subseteq Tag /\ Known(t)' \subseteq Tag /\ IsFiniteSet(Tag)
  BY GameAssumption DEF Known
<1> QED BY <1>1, FS_Subset, FS_CardinalityType

(* A structure keeps its type for ever, but for a command center.           *)
LEMMA TypeKept ==
    ASSUME GameTypeOK, GameOccupied, OrdersFit, GameAction, NEW v \in Tag, units[v].type # NoType
    PROVE  /\ units'[v].alive => units[v].alive
           /\ \/ units'[v].type = units[v].type
              \/ units[v].type = "CommandCenter" /\ units'[v].type \in Mutations
<1>1. Change(v)
  BY GameChange
<1>2. CASE ~units[v].alive
  BY <1>1, <1>2 DEF Change, Kept, Laid
<1>3. CASE units[v].alive /\ GameBuilds
  BY <1>3, StandingKept DEF Stands
<1>4. CASE units[v].alive /\ \E u \in Tag : Raze(u, "razed") \/ Raze(u, "unfinished")
  BY <1>4, RazedKept
<1> QED BY <1>2, <1>3, <1>4 DEF GameAction, GameBuilds

(* Copies stay true to type. *)
LEMMA SeenTrueStep ==
    ASSUME StepInv, OrdersFit, SeenTrue, [Next]_vars
    PROVE  SeenTrue'
<1>0. /\ GameTypeOK /\ GameOccupied /\ ViewOccupied /\ TypeOK /\ view \in [Tag -> Structure]
      /\ SeenOnce
  BY TypeSplit, OccupiedSplit, AnnouncedSplit DEF StepInv, SightInv, TypeInv, TypeOK
<1>1. CASE UNCHANGED <<units, view>>
  BY <1>1 DEF SeenTrue
<1>2. CASE BotStep
  <2> SUFFICES ASSUME NEW v \in Tag, view'[v].type # NoType
               PROVE  /\ units'[v].alive => view'[v].alive
                      /\ \/ view'[v].type = units'[v].type
                         \/ view'[v].type = "CommandCenter" /\ units'[v].type \in Mutations
    BY DEF SeenTrue
  <2>1. Copied(v) /\ units' = units
    BY <1>0, <1>2, BotCopies
  <2>2. CASE view'[v] = view[v]
    BY <2>1, <2>2 DEF SeenTrue
  <2>3. CASE units[v].alive /\ view'[v] = units[v]
    BY <2>1, <2>3
  <2>4. CASE ~units[v].alive /\ view'[v] = [view[v] EXCEPT !.alive = FALSE]
    <3>1. view'[v].type = view[v].type
      BY <1>0, <2>4 DEF Structure
    <3> QED BY <2>1, <2>4, <3>1 DEF SeenTrue
  <2> QED BY <2>1, <2>2, <2>3, <2>4 DEF Copied
<1>3. CASE GameAction /\ UNCHANGED botVars
  <2>1. view' = view
    BY <1>3 DEF botVars, obsVars
  <2> SUFFICES ASSUME NEW v \in Tag, view[v].type # NoType
               PROVE  /\ units'[v].alive => view[v].alive
                      /\ \/ view[v].type = units'[v].type
                         \/ view[v].type = "CommandCenter" /\ units'[v].type \in Mutations
    BY <2>1 DEF SeenTrue
  <2>2. units[v].type # NoType
    BY <1>0 DEF SeenOnce
  <2>3. "CommandCenter" \notin Mutations
    BY DEF Mutations
  <2> QED BY <1>0, <1>3, <2>2, <2>3, TypeKept DEF SeenTrue
<1>4. Observe => UNCHANGED <<units, view>>
  BY DEF Observe
<1> QED BY <1>1, <1>2, <1>3, <1>4, GameStepIsAction DEF Next, vars, gameVars, obsVars

(* Under Untroubled, only what the bot has seen finished is razed.          *)
LEMMA RazedIsSeen ==
    ASSUME Untroubled, NEW u \in Tag, RazeStructure(u)
    PROVE  view[u].built /\ Raze(u, "razed") /\ view' = view
BY DEF Untroubled, RazeStructure, Raze, Mishap, botVars, obsVars

(* What falls was seen finished: only that is razed. *)
LEMMA FallenFinishedStep ==
    ASSUME Untroubled, StepInv, OrdersFit, SeenTrue, FallenFinished, [Next]_vars
    PROVE  FallenFinished'
<1>0. /\ GameTypeOK /\ GameOccupied /\ ViewOccupied /\ TypeOK /\ view \in [Tag -> Structure]
      /\ SeenOnce /\ AddonsAttached /\ NullTag \notin Tag
  BY TypeSplit, OccupiedSplit, AnnouncedSplit, GameAssumption
     DEF StepInv, SightInv, TypeInv, TypeOK
<1>1. CASE UNCHANGED <<units, view>>
  BY <1>1 DEF FallenFinished
<1>2. CASE BotStep
  <2> SUFFICES ASSUME NEW v \in Tag, ~units'[v].alive, view'[v].alive,
                                view'[v].type # NoType
               PROVE  view'[v].built \/ view'[v].type \in Addons
    BY DEF FallenFinished
  <2>1. Copied(v) /\ units' = units
    BY <1>0, <1>2, BotCopies
  <2>2. view'[v] = view[v]
    BY <1>0, <2>1 DEF Copied, Structure
  <2> QED BY <2>1, <2>2 DEF FallenFinished
<1>3. ASSUME NEW u \in Tag, RazeStructure(u) PROVE FallenFinished'
  <2>1. view[u].built /\ Raze(u, "razed") /\ view' = view
    BY <1>3, RazedIsSeen
  <2> SUFFICES ASSUME NEW v \in Tag, ~units'[v].alive, view[v].alive,
                                view[v].type # NoType
               PROVE  view[v].built \/ view[v].type \in Addons
    BY <2>1 DEF FallenFinished
  <2>2. CASE ~units[v].alive
    BY <2>2 DEF FallenFinished
  <2>3. CASE units[v].alive /\ v # u
    <3>1. v = units[u].addon
      BY <1>0, <2>1, <2>3, RazedKept
    <3>2. units[v].type \in Addons
      BY <1>0, <3>1 DEF AddonsAttached
    <3>3. view[v].type # NoType => view[v].type \in Addons
      BY <3>2 DEF SeenTrue, Addons, Mutations
    <3> QED BY <3>3
  <2> QED BY <2>1, <2>2, <2>3
<1>4. CASE GameBuilds /\ UNCHANGED botVars
  <2>1. view' = view
    BY <1>4 DEF botVars, obsVars
  <2> SUFFICES ASSUME NEW v \in Tag, ~units'[v].alive, view[v].alive,
                                view[v].type # NoType
               PROVE  view[v].built \/ view[v].type \in Addons
    BY <2>1 DEF FallenFinished
  <2>2. ~units[v].alive
    BY <1>0, <1>4, StandingKept DEF Stands
  <2> QED BY <2>2 DEF FallenFinished
<1>5. Observe => UNCHANGED <<units, view>>
  BY DEF Observe
<1> QED BY <1>1, <1>2, <1>3, <1>4, <1>5, GameBuildsOrRazes DEF Next, vars, gameVars, obsVars

(* What is known stays known while the game moves, and what is laid is new. *)
LEMMA GameKnown ==
    ASSUME Untroubled, TallyInv, GameStep, ~Observe, NEW t, Plain(t)
    PROVE  /\ Known(t) \subseteq Known(t)'
           /\ Lay(t) => /\ NextTag \in Known(t)' /\ NextTag \notin Known(t)
<1>0. /\ GameTypeOK /\ GameOccupied /\ ViewOccupied /\ SeenOnce /\ AddonsAttached
      /\ OrdersFit /\ SeenTrue /\ NullTag \notin Tag /\ units \in [Tag -> Structure]
  BY TypeSplit, OccupiedSplit, AnnouncedSplit, GameAssumption
     DEF TallyInv, StepInv, SightInv, TypeInv, TypeOK
<1>1. /\ t \in UnitType /\ t # NoType /\ t \notin Addons /\ t \notin Mutations
      /\ t # "CommandCenter" /\ IsStructure(t)
  BY PlainTypes
<1>2. GameAction /\ view' = view
  BY GameStepIsAction DEF botVars, obsVars
<1>3. ASSUME NEW v \in Known(t) PROVE v \in Known(t)'
  <2>0. v \in Tag
    BY DEF Known
  <2>1. CASE ~units[v].alive
    <3>1. view[v].alive /\ view[v].type = t
      BY <2>1 DEF Known
    <3>2. units[v].type # NoType
      BY <1>0, <1>1, <2>0, <3>1 DEF SeenOnce
    <3>3. ~units'[v].alive
      BY <1>0, <1>2, <2>0, <2>1, <3>2, TypeKept
    <3> QED BY <1>2, <2>0, <3>1, <3>3 DEF Known
  <2>2. CASE units[v].alive /\ GameBuilds
    <3>1. units[v].type = t /\ Stands(v)
      BY <1>0, <2>0, <2>2, StandingKept DEF Known
    <3> QED BY <1>1, <2>0, <3>1 DEF Stands, Known
  <2>3. ASSUME units[v].alive, NEW u \in Tag, RazeStructure(u)
        PROVE  v \in Known(t)'
    <3>0. units[v].type = t
      BY <2>3 DEF Known
    <3>1. view[u].built /\ Raze(u, "razed")
      BY <2>3, RazedIsSeen
    <3>2. /\ units'[v].type = t
          /\ \/ v = u
             \/ v = units[u].addon
             \/ units'[v].alive
      BY <1>0, <2>0, <2>3, <3>0, <3>1, RazedKept
    <3>3. CASE v = u
      <4>1. view[v].type # NoType
        BY <1>0, <3>1, <3>3 DEF ViewOccupied
      <4>2. view[v].alive /\ view[v].type = t
        BY <1>0, <1>1, <2>0, <2>3, <3>0, <4>1 DEF SeenTrue
      <4> QED BY <1>2, <2>0, <3>2, <4>2 DEF Known
    <3>4. v # units[u].addon
      BY <1>0, <1>1, <2>0, <3>0 DEF AddonsAttached
    <3>5. CASE units'[v].alive
      BY <2>0, <3>2, <3>5 DEF Known
    <3> QED BY <3>2, <3>3, <3>4, <3>5
  <2> QED BY <2>1, <2>2, <2>3, GameBuildsOrRazes
<1>4. ASSUME Lay(t) PROVE NextTag \in Known(t)' /\ NextTag \notin Known(t)
  <2>1. /\ NextTag \in Tag /\ units[NextTag].type = NoType
        /\ units' = [units EXCEPT ![NextTag] = Site(t)]
    BY <1>4, NextTagVacant DEF Lay
  <2>2. ~units[NextTag].alive /\ view[NextTag].type = NoType
    BY <1>0, <2>1 DEF GameOccupied, SeenOnce
  <2>3. units'[NextTag] = Site(t)
    BY <1>0, <2>1
  <2>4. units'[NextTag].alive /\ units'[NextTag].type = t
    BY <2>3, SiteFields
  <2> QED BY <1>1, <2>1, <2>2, <2>4 DEF Known
<1> QED BY <1>3, <1>4

(* Only the handler of a structure's destruction forgets it.                *)
LEMMA BotKnown ==
    ASSUME TallyInv, BotStep, NEW t, NEW v \in Known(t), v \notin Known(t)'
    PROVE  /\ OnUnitDestroyed(v) /\ ~units[v].alive /\ view[v].alive /\ view[v].type = t
           /\ \A u \in Tag : OnUnitDestroyed(u) => u = v
<1>0. /\ TypeOK /\ view \in [Tag -> Structure] /\ events \in EventRecord /\ Sighted
      /\ events.idle \subseteq Existing
  BY DEF TallyInv, StepInv, StepOrder, SightInv, TypeInv, TypeOK
<1>1. v \in Tag
  BY DEF Known
<1>2. units' = units
  BY BotKeepsUnits
<1>3. ~units[v].alive /\ view[v].alive /\ view[v].type = t
  BY <1>1, <1>2 DEF Known
<1>4. view'[v] # view[v]
  BY <1>1, <1>2, <1>3 DEF Known
<1>5. ASSUME NEW u \in Tag, Refresh(u) PROVE u = v
  BY <1>0, <1>1, <1>4, <1>5 DEF Refresh
<1>6. ASSUME NEW u \in Tag, OnUnitCreated(u) PROVE FALSE
  <2>1. u = v /\ units[u].alive
    BY <1>0, <1>5, <1>6 DEF OnUnitCreated, Sighted
  <2> QED BY <1>3, <2>1
<1>7. ASSUME NEW u \in Tag, OnUnitIdle(u) PROVE FALSE
  <2>1. u = v /\ units[u].alive
    BY <1>0, <1>5, <1>7 DEF OnUnitIdle, Existing
  <2> QED BY <1>3, <2>1
<1>8. ASSUME NEW u \in Tag, OnUnitDestroyed(u) PROVE u = v
  BY <1>5, <1>8 DEF OnUnitDestroyed
<1>9. ~ApiOnStep
  BY <1>1, <1>3, <1>4 DEF ApiOnStep, RefreshAll, Existing
<1>10. \/ UNCHANGED view \/ ApiOnStep
       \/ \E u \in Tag : OnUnitDestroyed(u) \/ OnUnitCreated(u) \/ OnUnitIdle(u)
  BY DEF BotStep, ScheduleOpening, OnReaperCreated, MinerOnStep, QuarterMasterOnStep,
         BuilderOnStep, TrainNext, SendActions, obsVars
<1> QED BY <1>3, <1>4, <1>6, <1>7, <1>8, <1>9, <1>10

(* Scheduling takes nothing from the queue. *)
LEMMA QueuedGrows ==
    ASSUME constructions \in Seq(UnitType), NEW y \in UnitType, NEW urgent, NEW standing,
           ScheduleConstruction(y, urgent, standing), NEW t \in UnitType
    PROVE  /\ Queued(t)' \in Nat /\ Queued(t)' >= Queued(t)
           /\ y = t => Queued(t)' >= Queued(t) + 1
<1>1. Queued(t) \in Nat
  BY IndicesFinite DEF Queued
<1>2. constructions' \in Seq(UnitType)
  BY ScheduleConstructionType
<1>3. Queued(t)' \in Nat
  BY <1>2, IndicesFinite DEF Queued
<1>4. Queued(t)' >= Queued(t) + (IF t = y THEN 1 ELSE 0)
  BY ScheduledMore
<1> QED BY <1>1, <1>3, <1>4

(* A structure laid is known when its SCV is no longer on the way. *)
LEMMA GameTallied ==
    ASSUME Untroubled, TallyInv, GameStep
    PROVE  AllTallied'
<1> SUFFICES ASSUME NEW t \in UnitType, Plain(t)
             PROVE  OnTheWay(t)' + Cardinality(Known(t)') >= OpenedSoFar(t)'
  BY DEF AllTallied, Plain
<1>0. TypeOK /\ IsStructure(t)
  BY PlainTypes DEF TallyInv, StepInv, SightInv, TypeInv
<1>1. OpenedSoFar(t) \in Nat /\ OpenedSoFar(t)' = OpenedSoFar(t)
  BY PastOpening, OpenedStays
<1>2. OnTheWay(t) + Cardinality(Known(t)) >= OpenedSoFar(t)
  BY DEF TallyInv, AllTallied
<1>3. CASE Observe
  <2>1. UNCHANGED <<OnTheWay(t), Known(t)>>
    BY <1>3 DEF Observe, OnTheWay, Queued, Commanded, Known, builderVars, queueVars
  <2> QED BY <1>1, <1>2, <2>1
<1>4. CASE ~Observe
  <2>1. GameAction /\ UNCHANGED botVars
    BY <1>4, GameStepIsAction
  <2>2. ~FailToLay(t)
    BY DEF Untroubled, FailToLay, Mishap
  <2>3. /\ OnTheWay(t) \in Nat /\ OnTheWay(t)' \in Int
        /\ Lay(t) => OnTheWay(t)' = OnTheWay(t) - 1
        /\ ~Lay(t) => OnTheWay(t)' = OnTheWay(t)
    BY <1>0, <2>1, <2>2, GameWay
  <2> DEFINE K == Known(t)
             L == Known(t)'
  <2>4. K \subseteq L /\ (Lay(t) => NextTag \in L /\ NextTag \notin K)
    BY <1>4, GameKnown
  <2>5. IsFiniteSet(K) /\ Cardinality(K) \in Nat /\ IsFiniteSet(L) /\ Cardinality(L) \in Nat
    BY KnownFinite
  <2>6. OnTheWay(t) + Cardinality(K) >= OpenedSoFar(t)
    BY <1>2
  <2> SUFFICES OnTheWay(t)' + Cardinality(L) >= OpenedSoFar(t)'
    OBVIOUS
  <2> HIDE DEF K, L
  <2>7. CASE ~Lay(t)
    <3>1. Cardinality(K) <= Cardinality(L)
      BY <2>4, <2>5, FS_Subset
    <3> QED BY <1>1, <2>3, <2>5, <2>6, <2>7, <3>1
  <2>8. CASE Lay(t)
    <3>1. K \subseteq L \ {NextTag} /\ NextTag \in L
      BY <2>4, <2>8
    <3>2. /\ IsFiniteSet(L \ {NextTag})
          /\ Cardinality(L \ {NextTag}) = Cardinality(L) - 1
      BY <2>5, <3>1, FS_RemoveElement
    <3>3. Cardinality(K) <= Cardinality(L) - 1
      BY <3>1, <3>2, FS_Subset
    <3> QED BY <1>1, <2>3, <2>5, <2>6, <2>8, <3>3
  <2> QED BY <2>7, <2>8
<1> QED BY <1>3, <1>4

(* A structure's copy is marked dead in the step that orders it again. *)
LEMMA BotTallied ==
    ASSUME TallyInv, BotStep
    PROVE  AllTallied'
<1> SUFFICES ASSUME NEW t \in UnitType, Plain(t)
             PROVE  OnTheWay(t)' + Cardinality(Known(t)') >= OpenedSoFar(t)'
  BY DEF AllTallied, Plain
<1>0. /\ StepInv /\ TypeOK /\ IsStructure(t) /\ t \notin Addons /\ t # "SupplyDepot"
      /\ constructions \in Seq(UnitType) /\ cursor \in Nat \ {0}
  BY PlainTypes DEF TallyInv, StepInv, SightInv, TypeInv, TypeOK
<1> DEFINE K == Known(t)
           L == Known(t)'
<1>1. /\ IsFiniteSet(K) /\ Cardinality(K) \in Nat /\ IsFiniteSet(L) /\ Cardinality(L) \in Nat
      /\ OnTheWay(t) + Cardinality(K) >= OpenedSoFar(t) /\ K \subseteq Tag
  BY KnownFinite DEF TallyInv, AllTallied, Known
<1>2. \A v \in K : v \notin L =>
         /\ OnUnitDestroyed(v) /\ ~units[v].alive /\ view[v].alive /\ view[v].type = t
         /\ \A u \in Tag : OnUnitDestroyed(u) => u = v
  BY BotKnown
<1> SUFFICES OnTheWay(t)' + Cardinality(L) >= OpenedSoFar(t)'
  OBVIOUS
<1> HIDE DEF K, L
<1>3. /\ Queued(t) \in Nat /\ Commanded(t) \in Nat /\ travelling[t] \in Nat
      /\ OnTheWay(t) = Queued(t) + Commanded(t) + travelling[t] /\ OnTheWay(t) \in Nat
      /\ OnTheWay(t)' = Queued(t)' + Commanded(t)' + travelling'[t]
  <2>1. Queued(t) \in Nat /\ Commanded(t) \in Nat /\ travelling[t] \in Nat
    BY <1>0, WayTypes
  <2> QED BY <2>1 DEF OnTheWay
<1>4. IF Schedules THEN UNCHANGED <<Commanded(t), travelling>>
      ELSE OnTheWay(t)' = OnTheWay(t)
  BY <1>0, BotWay
<1>5. ~ScheduleOpening => OpenedSoFar(t)' = OpenedSoFar(t)
  BY PastOpening, OpenedStays
<1>6. OpenedSoFar(t) \in Nat
  BY OpenedAll
<1>7. K \subseteq L => Cardinality(K) <= Cardinality(L)
  BY <1>1, FS_Subset
<1>10. CASE ScheduleOpening
  <2>1. K \subseteq L
    BY <1>2, <1>10 DEF ScheduleOpening, OnUnitDestroyed
  <2>2. OpenedSoFar(t)' = OpenedSoFar(t)
           + (IF cursor \in DOMAIN Opening /\ Opening[cursor] = t THEN 1 ELSE 0)
    BY <1>0, <1>10, OpenedMore
  <2>3. Queued(t)' >= Queued(t)
           + (IF cursor \in DOMAIN Opening /\ Opening[cursor] = t THEN 1 ELSE 0)
        /\ Queued(t)' \in Nat
    <3>0. Queued(t)' \in Nat
      <4>1. constructions' \in Seq(UnitType)
        BY <1>10, ScheduleOpeningType, TypeSplit, <1>0 DEF BotTypeOK
      <4> QED BY <4>1, IndicesFinite DEF Queued
    <3>1. CASE cursor \in DOMAIN Opening
      <4> DEFINE x == Opening[cursor]
      <4>2. x \in UnitType /\ ScheduleConstruction(x, FALSE, Standing)
        BY <1>10, <3>1, DispatcherAssumption, ElementOfSeq, LenProperties DEF ScheduleOpening
      <4> HIDE DEF x
      <4>3. Queued(t)' >= Queued(t) + (IF t = x THEN 1 ELSE 0)
        BY <1>0, <4>2, ScheduledMore
      <4> QED BY <3>0, <3>1, <4>3 DEF x
    <3>2. CASE cursor \notin DOMAIN Opening
      <4>1. UNCHANGED constructions
        BY <1>10, <3>2 DEF ScheduleOpening
      <4>2. Queued(t)' = Queued(t)
        BY <4>1 DEF Queued
      <4> QED BY <1>3, <3>2, <4>2
    <3> QED BY <3>1, <3>2
  <2>4. Commanded(t)' = Commanded(t) /\ travelling' = travelling
    BY <1>4, <1>10 DEF Schedules
  <2> QED BY <1>1, <1>3, <1>6, <1>7, <2>1, <2>2, <2>3, <2>4
<1>11. CASE QuarterMasterOnStep \/ \E u \in Tag : OnUnitIdle(u)
  <2>1. K \subseteq L /\ ~ScheduleOpening
    BY <1>2, <1>11 DEF ScheduleOpening, QuarterMasterOnStep, OnUnitIdle, OnUnitDestroyed
  <2>2. Commanded(t)' = Commanded(t) /\ travelling' = travelling
    BY <1>4, <1>11 DEF Schedules
  <2>3. Queued(t)' >= Queued(t) /\ Queued(t)' \in Nat
    <3>1. UNCHANGED constructions => Queued(t)' = Queued(t)
      BY DEF Queued
    <3>2. "SupplyDepot" \in UnitType /\ "BarracksReactor" \in UnitType
      BY UnitTypeDataAssumption
    <3>3. \/ UNCHANGED constructions
          \/ ScheduleConstruction("BarracksReactor", TRUE, Standing')
          \/ ScheduleConstruction("SupplyDepot", TRUE, Standing)
      BY <1>11 DEF QuarterMasterOnStep, RequestSupplies, OnUnitIdle, ReaperRushOnUnitIdle,
                   queueVars
    <3>4. CASE ScheduleConstruction("BarracksReactor", TRUE, Standing')
      BY <1>0, <3>2, <3>4, QueuedGrows
    <3>5. CASE ScheduleConstruction("SupplyDepot", TRUE, Standing)
      BY <1>0, <3>2, <3>5, QueuedGrows
    <3>6. CASE UNCHANGED constructions
      BY <1>3, <3>1, <3>6
    <3> QED BY <3>3, <3>4, <3>5, <3>6
  <2> QED BY <1>1, <1>3, <1>5, <1>6, <1>7, <2>1, <2>2, <2>3
<1>12. ASSUME NEW u \in Tag, OnUnitDestroyed(u)
       PROVE  OnTheWay(t)' + Cardinality(L) >= OpenedSoFar(t)'
  <2>1. OpenedSoFar(t)' = OpenedSoFar(t)
    BY <1>5, <1>12 DEF ScheduleOpening, OnUnitDestroyed
  <2>2. Commanded(t)' = Commanded(t) /\ travelling' = travelling
    BY <1>4, <1>12 DEF Schedules
  <2>3. IF view[u].built /\ view[u].type # "SupplyDepot"
        THEN ScheduleConstruction(view[u].type, TRUE, Standing') ELSE UNCHANGED constructions
    BY <1>12 DEF OnUnitDestroyed, RepairManOnUnitDestroyed
  <2>4. view[u].built => view[u].type \in UnitType
    BY OccupiedSplit DEF TallyInv, StepInv, SightInv, TypeInv, TypeOK, ViewOccupied, Structure
  <2>5. UNCHANGED constructions => Queued(t)' = Queued(t)
    BY DEF Queued
  <2>6. Queued(t)' \in Nat /\ Queued(t)' >= Queued(t)
    <3>1. CASE UNCHANGED constructions
      BY <1>3, <2>5, <3>1
    <3>2. CASE view[u].built /\ ScheduleConstruction(view[u].type, TRUE, Standing')
      <4>1. view[u].type \in UnitType
        BY <2>4, <3>2
      <4> QED BY <1>0, <3>2, <4>1, QueuedGrows
    <3> QED BY <2>3, <3>1, <3>2
  <2>7. CASE K \subseteq L
    BY <1>1, <1>3, <1>6, <1>7, <2>1, <2>2, <2>6, <2>7
  <2>8. CASE ~(K \subseteq L)
    <3>1. \A v \in K : v \notin L => v = u
      BY <1>2, <1>12
    <3>2. u \in K /\ ~units[u].alive /\ view[u].alive /\ view[u].type = t
      BY <1>2, <2>8, <3>1
    <3>3. view[u].built
      BY <1>0, <3>2, UnitTypeDataAssumption DEF TallyInv, FallenFinished
    <3>4. ScheduleConstruction(t, TRUE, Standing')
      BY <1>0, <2>3, <3>2, <3>3
    <3>5. Queued(t)' >= Queued(t) + 1
      BY <1>0, <3>4, QueuedGrows
    <3>6. Cardinality(K \ {u}) = Cardinality(K) - 1 /\ IsFiniteSet(K \ {u})
      BY <1>1, <3>2, FS_RemoveElement
    <3>7. Cardinality(K \ {u}) <= Cardinality(L)
      <4>1. K \ {u} \subseteq L
        BY <3>1
      <4> QED BY <1>1, <4>1, FS_Subset
    <3> QED BY <1>1, <1>3, <1>6, <2>1, <2>2, <2>6, <3>5, <3>6, <3>7
  <2> QED BY <2>7, <2>8
<1>13. CASE ~Schedules
  <2>1. K \subseteq L /\ ~ScheduleOpening
    BY <1>1, <1>2, <1>13 DEF Schedules
  <2> QED BY <1>1, <1>3, <1>4, <1>5, <1>6, <1>7, <1>13, <2>1
<1> QED BY <1>10, <1>11, <1>12, <1>13 DEF Schedules

(* TallyInv holds to begin with, *)
LEMMA TallyInvInit == Init => TallyInv
<1> SUFFICES ASSUME Init PROVE TallyInv
  OBVIOUS
<1>1. StepInv /\ OrdersFit /\ DestroyedDead
  BY SightInvInit, StepOrderInit, OrdersFitInit DEF StepInv, Init, NoEvents, DestroyedDead
<1>2. SeenTrue /\ FallenFinished
  BY DEF Init, SeenTrue, FallenFinished
<1>3. ASSUME NEW t \in UnitType
      PROVE  OnTheWay(t) + Cardinality(Known(t)) >= OpenedSoFar(t)
  <2>1. /\ constructions = <<>> /\ commands = <<>> /\ travelling[t] = 0
        /\ cursor = 1 /\ phase = "opening"
    BY DEF Init
  <2>2. Queued(t) = 0 /\ Commanded(t) = 0
    BY <2>1, CountEmpty DEF Queued, Commanded
  <2>3. OpenedSoFar(t) = 0
    <3>1. DOMAIN Opening = 1 .. Len(Opening) /\ Len(Opening) \in Nat
      BY DispatcherAssumption, LenProperties
    <3>2. {i \in DOMAIN Opening : Opening[i] = t /\ (phase = "opening" => i < cursor)} = {}
      BY <2>1, <3>1
    <3> QED BY <3>2, FS_EmptySet DEF OpenedSoFar
  <2>4. Cardinality(Known(t)) \in Nat
    BY KnownFinite
  <2> QED BY <2>1, <2>2, <2>3, <2>4 DEF OnTheWay
<1> QED BY <1>1, <1>2, <1>3 DEF TallyInv, AllTallied

(* every step keeps it, *)
LEMMA TallyInvStep ==
    ASSUME Untroubled, TallyInv, [Next]_vars
    PROVE  TallyInv'
<1>1. StepInv /\ OrdersFit /\ TypeInv
  BY DEF TallyInv, StepInv, SightInv
<1>2. StepInv' /\ OrdersFit' /\ DestroyedDead' /\ SeenTrue' /\ FallenFinished'
  BY <1>1, StepInvStep, OrdersFitStep, DestroyedDeadStep, SeenTrueStep, FallenFinishedStep
     DEF TallyInv
<1>3. AllTallied'
  <2>1. UNCHANGED vars => AllTallied'
    BY DEF TallyInv, AllTallied, OnTheWay, Queued, Commanded, Known, OpenedSoFar, Plain,
           vars, gameVars, obsVars, builderVars, queueVars
  <2>2. Next => AllTallied'
    BY GameTallied, BotTallied DEF Next
  <2> QED BY <2>1, <2>2
<1> QED BY <1>2, <1>3 DEF TallyInv

(* and it says what was to be proved. *)
LEMMA TallyInvMeans == TallyInv => NoForgottenStructure
<1> SUFFICES ASSUME TallyInv, phase # "opening", NEW t \in UnitType \ {"SupplyDepot"},
                    IsStructure(t), ~IsTownHall(t)
             PROVE  Tally(t) >= InOpening(t)
  BY DEF NoForgottenStructure
<1>0. TypeOK /\ Plain(t) /\ t \in UnitType
  BY DEF TallyInv, StepInv, SightInv, TypeInv, Plain, Depot
<1> DEFINE A == {u \in Existing : units[u].type = t}
           B == {u \in Tag \ Existing : view[u].alive /\ view[u].type = t}
<1>1. Known(t) = A \cup B /\ A \cap B = {}
  BY DEF Known, Existing
<1>2. IsFiniteSet(A) /\ IsFiniteSet(B)
  <2>1. A \subseteq Tag /\ B \subseteq Tag /\ IsFiniteSet(Tag)
    BY GameAssumption DEF Existing
  <2> QED BY <2>1, FS_Subset
<1>3. Tally(t) = OnTheWay(t) + Cardinality(A) + Cardinality(B)
  BY <1>0, WayTypes DEF Tally, OnTheWay
<1> HIDE DEF A, B
<1>4. Cardinality(A) \in Nat /\ Cardinality(B) \in Nat
      /\ Cardinality(Known(t)) = Cardinality(A) + Cardinality(B)
  <2>1. Cardinality(A) \in Nat /\ Cardinality(B) \in Nat
    BY <1>2, FS_CardinalityType
  <2>2. Cardinality(A \cup B) = Cardinality(A) + Cardinality(B) - Cardinality(A \cap B)
    BY <1>2, FS_Union
  <2>3. Cardinality(A \cap B) = 0
    BY <1>1, FS_EmptySet
  <2> QED BY <1>1, <2>1, <2>2, <2>3
<1>5. OnTheWay(t) \in Nat
  <2>1. Queued(t) \in Nat /\ Commanded(t) \in Nat /\ travelling[t] \in Nat
    BY <1>0, WayTypes
  <2> QED BY <2>1 DEF OnTheWay
<1>6. OpenedSoFar(t) = InOpening(t) /\ InOpening(t) \in Nat
  BY OpenedAll
<1>7. OnTheWay(t) + Cardinality(Known(t)) >= OpenedSoFar(t)
  BY <1>0 DEF TallyInv, AllTallied
<1> QED BY <1>3, <1>4, <1>5, <1>6, <1>7

(* No structure of the opening is forgotten: of every type but depots and   *)
(* town halls, as many are queued, commanded, on their way, standing, or    *)
(* destroyed and still to be handled by RepairMan as the opening asks for,  *)
(* whatever is razed when it is finished. Untroubled: the game refuses no   *)
(* command, no site is lost and nothing is razed unfinished, the cases the  *)
(* code has no answer to.                                                   *)
THEOREM StructuresNeverForgotten ==
    ASSUME Untroubled
    PROVE  Spec => []NoForgottenStructure
<1>1. Init => TallyInv
  BY TallyInvInit
<1>2. TallyInv /\ [Next]_vars => TallyInv'
  BY TallyInvStep
<1>3. TallyInv => NoForgottenStructure
  BY TallyInvMeans
<1> QED BY <1>1, <1>2, <1>3, PTL DEF Spec

(***************************************************************************)
(* The workers: those alive, in production, ordered and commanded.  Each   *)
(* turns into the next, and only Miner adds to them.                       *)
(***************************************************************************)
Making == {u \in Tag : units[u].alive /\ "SCV" \in Elems(units[u].orders)}
Halls == {u \in Tag : units[u].alive /\ IsTownHall(units[u].type)}
WorkerOrders == {o \in TrainingOrder : o.type = "SCV"}
Ordered == Count(trainings, WorkerOrders)
Crew == workers + Cardinality(Making) + Commanded("SCV") + Ordered
WorkerLimit == IF StartWorkers > MaximumWorkers THEN StartWorkers ELSE MaximumWorkers
CrewBounded == Crew <= WorkerLimit + Cardinality(Halls) - 1

Unrazed == Mishaps \cap {"razed", "unfinished"} = {}
OpeningTrainsNobody == \A i \in DOMAIN Opening : Opening[i] # "SCV"

HallsInv ==
    /\ StepInv /\ OrdersFit /\ NothingRazed /\ DestroyedDead
    /\ "SCV" \notin Elems(constructions)
    /\ CrewBounded

(* Both are finite sets. *)
LEMMA CrewTypes ==
    /\ IsFiniteSet(Making) /\ Cardinality(Making) \in Nat
    /\ IsFiniteSet(Halls) /\ Cardinality(Halls) \in Nat
    /\ IsFiniteSet(Making') /\ Cardinality(Making') \in Nat
    /\ IsFiniteSet(Halls') /\ Cardinality(Halls') \in Nat
<1>1. /\ Making \subseteq Tag /\ Making' \subseteq Tag /\ Halls \subseteq Tag
      /\ Halls' \subseteq Tag /\ IsFiniteSet(Tag)
  BY GameAssumption DEF Making, Halls
<1> QED BY <1>1, FS_Subset, FS_CardinalityType

(* Workers are made at town halls, one at a time. *)
LEMMA WorkersAtHalls ==
    ASSUME OrdersFit, TypeOK
    PROVE  /\ Making \subseteq Halls
           /\ \A u \in Making : Len(units[u].orders) = 1
<1> SUFFICES ASSUME NEW u \in Making PROVE u \in Halls /\ Len(units[u].orders) = 1
  OBVIOUS
<1>1. u \in Tag /\ units[u].alive /\ "SCV" \in Elems(units[u].orders)
  BY DEF Making
<1>2. FitOrders(units[u]) /\ units[u].orders \in Seq(UnitType)
  BY <1>1 DEF OrdersFit, TypeOK, Structure
<1>3. IsTownHall(units[u].type) /\ Len(units[u].orders) <= 1
  BY <1>1, <1>2 DEF FitOrders, IsTownHall
<1>4. Len(units[u].orders) # 0
  <2>1. DOMAIN units[u].orders = 1 .. Len(units[u].orders)
    BY <1>2, LenProperties
  <2> QED BY <1>1, <2>1 DEF Elems
<1>5. Len(units[u].orders) \in Nat
  BY <1>2, LenProperties
<1>6. Len(units[u].orders) = 1
  <2> DEFINE n == Len(units[u].orders)
  <2>1. n \in Nat /\ n <= 1 /\ n # 0
    BY <1>3, <1>4, <1>5
  <2> HIDE DEF n
  <2>2. n = 1
    BY <2>1
  <2> QED BY <2>2 DEF n
<1> QED BY <1>1, <1>3, <1>6 DEF Halls

(* Town halls stay town halls while nothing is razed. *)
LEMMA HallsStay ==
    ASSUME GameTypeOK, GameOccupied, OrdersFit, GameBuilds
    PROVE  Halls \subseteq Halls'
<1> SUFFICES ASSUME NEW v \in Halls PROVE v \in Halls'
  OBVIOUS
<1>1. v \in Tag /\ units[v].alive /\ IsTownHall(units[v].type)
  BY DEF Halls
<1>2. Stands(v)
  BY <1>1, StandingKept
<1> QED BY <1>1, <1>2, MutationPlot DEF Stands, Halls

(* The crew without the workers that are only ordered, which is the game's. *)
Hired == workers + Cardinality(Making) + Commanded("SCV")

(* Fewer in production, commanded and alive. *)
LEMMA FewerMaking ==
    ASSUME TypeOK, workers' \in Nat, workers' <= workers, Making' \subseteq Making,
           Commanded("SCV")' \in Nat, Commanded("SCV")' <= Commanded("SCV")
    PROVE  Hired' <= Hired
<1>1. Cardinality(Making') <= Cardinality(Making)
  BY CrewTypes, FS_Subset
<1>2. workers \in Nat /\ Commanded("SCV") \in Nat
  BY UnitTypeDataAssumption, WayTypes DEF TypeOK
<1> QED BY <1>1, <1>2, CrewTypes DEF Hired

(* A worker command, when obeyed, is in production or lost. *)
LEMMA ObeyCrew ==
    ASSUME TypeOK, GameTypeOK', GameOccupied, OrdersFit, Obey
    PROVE  Hired' <= Hired
<1> DEFINE c == Head(commands)
           queued == [units EXCEPT ![c.unit].orders = Append(@, c.type)]
<1>0. units \in [Tag -> Structure] /\ workers \in Nat /\ GameTypeOK
  BY TypeSplit DEF TypeOK
<1>1. /\ \A v \in Tag : /\ queued[v].alive = units[v].alive
                        /\ v # c.unit => queued[v].orders = units[v].orders
                        /\ v = c.unit => queued[v].orders = Append(units[v].orders, c.type)
      /\ queued \in [Tag -> [type : UnitType \cup {NoType}, alive : BOOLEAN, built : BOOLEAN,
                             orders : {queued[w].orders : w \in Tag}, addon : Tag \cup {NullTag}]]
  BY <1>0 DEF Structure
<1>2. /\ commands # <<>> /\ commands' = Tail(commands) /\ workers' = workers
      /\ c.type \in UnitType
  BY <1>0, CommandType DEF Obey, GameTypeOK
<1>3. \A v \in Tag : units'[v].alive =>
         \/ units'[v].orders = <<>>
         \/ units'[v].alive = queued[v].alive /\ units'[v].orders = queued[v].orders
  <2> SUFFICES ASSUME NEW v \in Tag
               PROVE  \/ units'[v].orders = <<>>
                      \/ units'[v].alive = queued[v].alive /\ units'[v].orders = queued[v].orders
    OBVIOUS
  <2>1. CASE units' = queued
    BY <2>1
  <2>2. CASE Plot(c.type) = "Addon"
    <3>1. NextTag \in Tag
      BY <2>2, NextTagVacant DEF Obey
    <3>2. units' = [queued EXCEPT ![c.unit].addon = NextTag, ![NextTag] = Site(c.type)]
      BY <2>2 DEF Obey
    <3> HIDE DEF queued
    <3>3. CASE v = NextTag
      <4>1. units'[v] = Site(c.type)
        BY <1>1, <3>1, <3>2, <3>3
      <4> QED BY <4>1, SiteFields
    <3>4. CASE v # NextTag
      BY <1>1, <3>1, <3>2, <3>4
    <3> QED BY <3>3, <3>4
  <2> QED BY <2>1, <2>2 DEF Obey
<1>4. ASSUME NEW v \in Making' PROVE v \in Making \/ (c.type = "SCV" /\ v = c.unit)
  <2>1. v \in Tag /\ units'[v].alive /\ "SCV" \in Elems(units'[v].orders)
    BY DEF Making
  <2>2. units'[v].orders # <<>>
    BY <2>1 DEF Elems
  <2>3. units[v].alive /\ units'[v].orders = queued[v].orders
    BY <1>1, <1>3, <2>1, <2>2
  <2>4. CASE v # c.unit
    BY <1>1, <2>1, <2>3, <2>4 DEF Making
  <2>5. CASE v = c.unit
    <3>1. units[v].orders \in Seq(UnitType)
      BY <1>0, <2>1 DEF Structure
    <3>2. units'[v].orders = Append(units[v].orders, c.type)
      BY <1>1, <2>1, <2>3, <2>5
    <3> HIDE DEF c
    <3>3. Elems(units'[v].orders) \subseteq Elems(units[v].orders) \cup {c.type}
      BY <1>2, <3>1, <3>2, ElemsOfAppend
    <3> QED BY <2>1, <2>3, <2>5, <3>3 DEF Making
  <2> QED BY <2>4, <2>5
<1> HIDE DEF queued
<1>5. /\ Commanded("SCV") = Commanded("SCV")' + (IF c.type = "SCV" THEN 1 ELSE 0)
      /\ Commanded("SCV")' \in Nat
  <2>1. Commanded("SCV") = Commanded("SCV")' + (IF c.type = "SCV" THEN 1 ELSE 0)
    BY <1>0, <1>2, CommandTaken
  <2>2. commands' \in Seq(Command)
    BY DEF GameTypeOK
  <2> QED BY <2>1, <2>2, IndicesFinite DEF Commanded
<1>6. CASE c.type # "SCV"
  <2>1. Making' \subseteq Making
    BY <1>4, <1>6
  <2> QED BY <1>0, <1>2, <1>5, <1>6, <2>1, FewerMaking
<1>7. CASE c.type = "SCV"
  <2> DEFINE M == Making
             N == Making'
  <2>1. IsFiniteSet(M) /\ Cardinality(M) \in Nat /\ IsFiniteSet(N) /\ Cardinality(N) \in Nat
    BY CrewTypes
  <2>2. \A v \in N : v \in M \/ v = c.unit
    BY <1>4
  <2>3. Hired = workers + Cardinality(M) + Commanded("SCV")
        /\ Hired' = workers + Cardinality(N) + Commanded("SCV")'
    BY <1>2 DEF Hired
  <2> HIDE DEF M, N, c
  <2>4. N \ {c.unit} \subseteq M
    BY <2>2
  <2>5. /\ Cardinality(N \ {c.unit}) <= Cardinality(M)
        /\ Cardinality(N) <= Cardinality(N \ {c.unit}) + 1
        /\ Cardinality(N \ {c.unit}) \in Nat
    <3>1. IsFiniteSet(N \ {c.unit}) /\ Cardinality(N \ {c.unit}) \in Nat
          /\ Cardinality(N \ {c.unit}) <= Cardinality(M)
      BY <2>1, <2>4, FS_Subset, FS_CardinalityType
    <3>2. c.unit \in N => Cardinality(N \ {c.unit}) = Cardinality(N) - 1
      BY <2>1, FS_RemoveElement
    <3>3. c.unit \notin N => N \ {c.unit} = N
      OBVIOUS
    <3> QED BY <2>1, <3>1, <3>2, <3>3
  <2> QED BY <1>0, <1>5, <1>7, <2>1, <2>3, <2>5
<1> QED BY <1>6, <1>7

(* A finished worker is no longer in production. *)
LEMMA FinishCrew ==
    ASSUME TypeOK, OrdersFit, NEW u \in Tag, NEW i \in 1 .. 2, Finish(u, i)
    PROVE  Hired' <= Hired
<1> DEFINE o == units[u].orders
           t == o[i]
           rest == RemoveAt(o, i)
<1>1. /\ units' = [units EXCEPT ![u].orders = rest,
                                ![u].type = IF Plot(t) = "Mutation" THEN t ELSE @]
      /\ i \in DOMAIN o /\ o \in Seq(UnitType) /\ units[u].alive
      /\ workers' = IF t = "SCV" THEN workers + 1 ELSE workers
      /\ commands' = commands /\ units \in [Tag -> Structure] /\ workers \in Nat
  BY DEF Finish, RemoveAt, TypeOK, Structure
<1>2. Len(o) \in Nat /\ i \in 1 .. Len(o) /\ t \in Elems(o)
  BY <1>1, LenProperties DEF Elems
<1>3. Elems(rest) \subseteq Elems(o) /\ Len(rest) = Len(o) - 1 /\ rest \in Seq(UnitType)
  BY <1>1, ElemsOfRemoveAt, RemoveAtProperties
<1> HIDE DEF rest, t
<1>4. ASSUME NEW v \in Making' PROVE v \in Making /\ (v = u => t # "SCV")
  <2>1. v \in Tag /\ units'[v].alive /\ "SCV" \in Elems(units'[v].orders)
    BY DEF Making
  <2>2. CASE v # u
    <3>1. units'[v] = units[v]
      BY <1>1, <2>1, <2>2
    <3> QED BY <2>1, <2>2, <3>1 DEF Making
  <2>3. CASE v = u
    <3>1. units'[v].orders = rest
      BY <1>1, <2>1, <2>3 DEF Structure
    <3>2. u \in Making /\ Elems(rest) # {}
      BY <1>1, <1>3, <2>1, <2>3, <3>1 DEF Making
    <3>3. Len(rest) = 0
      BY <1>3, <3>2, WorkersAtHalls
    <3>4. Elems(rest) = {}
      <4>1. DOMAIN rest = 1 .. 0
        BY <1>3, <3>3, LenProperties
      <4> QED BY <4>1 DEF Elems
    <3> QED BY <3>2, <3>4
  <2> QED BY <2>2, <2>3
<1>5. Commanded("SCV") \in Nat /\ Commanded("SCV")' = Commanded("SCV")
  BY <1>1, UnitTypeDataAssumption, WayTypes DEF Commanded
<1>6. CASE t # "SCV"
  <2>1. Making' \subseteq Making
    BY <1>4
  <2> QED BY <1>1, <1>5, <1>6, <2>1, FewerMaking
<1>7. CASE t = "SCV"
  <2> DEFINE M == Making
             N == Making'
  <2>1. IsFiniteSet(M) /\ Cardinality(M) \in Nat /\ IsFiniteSet(N) /\ Cardinality(N) \in Nat
    BY CrewTypes
  <2>2. N \subseteq M \ {u} /\ u \in M
    BY <1>1, <1>2, <1>4, <1>7 DEF Making
  <2>3. Hired = workers + Cardinality(M) + Commanded("SCV")
        /\ Hired' = workers + 1 + Cardinality(N) + Commanded("SCV")
    BY <1>1, <1>5, <1>7 DEF Hired
  <2> HIDE DEF M, N
  <2>4. IsFiniteSet(M \ {u}) /\ Cardinality(M \ {u}) = Cardinality(M) - 1
    BY <2>1, <2>2, FS_RemoveElement
  <2>5. Cardinality(N) <= Cardinality(M) - 1
    BY <2>2, <2>4, FS_Subset
  <2> QED BY <1>1, <1>5, <2>1, <2>3, <2>5
<1> QED BY <1>6, <1>7

(* The game makes no worker of nothing. *)
LEMMA GameCrew ==
    ASSUME TypeOK, GameOccupied, OrdersFit, GameBuilds
    PROVE  Hired' <= Hired
<1>0. /\ GameTypeOK /\ GameTypeOK' /\ units \in [Tag -> Structure] /\ workers \in Nat
      /\ Commanded("SCV") \in Nat /\ "SCV" \in UnitType
  BY TypeSplit, GameChange, GameBuildsOrRazes, UnitTypeDataAssumption, WayTypes DEF TypeOK
<1>1. commands' = commands => Commanded("SCV")' = Commanded("SCV")
  BY DEF Commanded
<1>2. units' = units => Making' = Making
  BY DEF Making
<1>3. CASE SetOut \/ Refuse
  <2>1. /\ commands # <<>> /\ commands' = Tail(commands) /\ UNCHANGED <<units, workers>>
    BY <1>3 DEF SetOut, Refuse, popVars
  <2>2. Commanded("SCV") = Commanded("SCV")' + (IF Head(commands).type = "SCV" THEN 1 ELSE 0)
    BY <1>0, <2>1, CommandTaken
  <2>3. Commanded("SCV")' \in Nat
    BY <1>0, IndicesFinite DEF Commanded, GameTypeOK
  <2> QED BY <1>0, <1>2, <2>1, <2>2, <2>3, FewerMaking
<1>4. CASE Income
  <2>1. UNCHANGED <<units, workers, commands>>
    BY <1>4 DEF Income, popVars
  <2> QED BY <1>0, <1>1, <1>2, <2>1, FewerMaking
<1>5. ASSUME NEW t \in UnitType, FailToLay(t) PROVE Hired' <= Hired
  <2>1. UNCHANGED <<units, commands>> /\ workers' \in Nat
    BY <1>0, <1>5 DEF FailToLay, GameTypeOK
  <2>2. workers' <= workers
    BY <1>0, <1>5 DEF FailToLay
  <2> QED BY <1>0, <1>1, <1>2, <2>1, <2>2, FewerMaking
<1>6. ASSUME NEW t \in UnitType, Lay(t) PROVE Hired' <= Hired
  <2>1. NextTag \in Tag /\ units' = [units EXCEPT ![NextTag] = Site(t)]
        /\ UNCHANGED <<commands, workers>>
    BY <1>6, NextTagVacant DEF Lay, popVars
  <2>2. ASSUME NEW v \in Making' PROVE v \in Making
    <3>1. v \in Tag /\ units'[v].alive /\ "SCV" \in Elems(units'[v].orders)
      BY DEF Making
    <3>2. CASE v = NextTag
      <4>1. units'[v] = Site(t)
        BY <1>0, <2>1, <3>2
      <4>2. units'[v].orders = <<>>
        BY <4>1, SiteFields
      <4>3. Elems(<<>>) = {}
        BY DEF Elems
      <4> QED BY <3>1, <4>2, <4>3
    <3>3. CASE v # NextTag
      <4>1. units'[v] = units[v]
        BY <1>0, <2>1, <3>1, <3>3
      <4> QED BY <3>1, <4>1 DEF Making
    <3> QED BY <3>2, <3>3
  <2> QED BY <1>0, <1>1, <2>1, <2>2, FewerMaking
<1>7. ASSUME NEW u \in Tag, Complete(u) PROVE Hired' <= Hired
  <2>1. UNCHANGED <<commands, workers>>
    BY <1>7 DEF Complete, popVars
  <2>2. ASSUME NEW v \in Making' PROVE v \in Making
    <3>1. v \in Tag /\ units'[v].alive /\ "SCV" \in Elems(units'[v].orders)
      BY DEF Making
    <3>2. \/ units'[v] = [units[v] EXCEPT !.built = TRUE]
          \/ units'[v] = [units[v] EXCEPT !.orders = <<>>]
          \/ units'[v] = units[v]
      BY <1>7, <3>1 DEF Complete
    <3>3. /\ units'[v].alive = units[v].alive
          /\ units'[v].orders = units[v].orders \/ units'[v].orders = <<>>
      BY <1>0, <3>1, <3>2 DEF Structure
    <3> QED BY <3>1, <3>3 DEF Making, Elems
  <2> QED BY <1>0, <1>1, <2>1, <2>2, FewerMaking
<1> QED BY <1>0, <1>3, <1>4, <1>5, <1>6, <1>7, ObeyCrew, FinishCrew DEF GameBuilds

(* Miner's own count of the worker orders. *)
LEMMA OrderedTypes ==
    ASSUME TypeOK
    PROVE  Ordered \in Nat /\ Ordered = CountScheduledTrainings("SCV")
<1>1. trainings \in Seq(TrainingOrder)
  BY DEF TypeOK
<1>2. \A i \in DOMAIN trainings : trainings[i] \in TrainingOrder
  BY <1>1, LenProperties, ElementOfSeq
<1>3. {i \in DOMAIN trainings : trainings[i] \in WorkerOrders}
      = {i \in DOMAIN trainings : trainings[i].type = "SCV"}
  BY <1>2 DEF WorkerOrders
<1>4. Ordered \in Nat
  BY <1>1, IndicesFinite DEF Ordered
<1> QED BY <1>3, <1>4 DEF Ordered, Count, CountScheduledTrainings

(* When Miner runs, the listing is the game's, and a town hall that needs an*)
(* order makes no worker while none is ordered.                             *)
LEMMA TownHallsFresh ==
    ASSUME TypeOK, Fresh
    PROVE  /\ TownHalls = Halls
           /\ \A u \in Halls : NeedsWorkerOrder(u) => u \notin Making /\ Ordered = 0
<1>1. listed = Existing /\ \A u \in Existing : view[u] = units[u]
  BY DEF Fresh
<1>2. TownHalls = Halls
  BY <1>1 DEF TownHalls, Halls, Existing
<1>3. ASSUME NEW u \in Halls, NeedsWorkerOrder(u) PROVE u \notin Making
  <2>1. units[u].orders = <<>>
    BY <1>1, <1>3 DEF NeedsWorkerOrder, IsIdle, Halls, Existing
  <2>2. Elems(<<>>) = {}
    BY DEF Elems
  <2> QED BY <2>1, <2>2 DEF Making
<1>4. ASSUME NEW u \in Halls, NeedsWorkerOrder(u) PROVE Ordered = 0
  BY <1>4, OrderedTypes DEF NeedsWorkerOrder
<1> QED BY <1>2, <1>3, <1>4

(* Miner orders no more workers than are lacking, and one for a town hall   *)
(* that makes none at most.                                                 *)
LEMMA MinerHires ==
    ASSUME TypeOK, OrdersFit, SecureMineralsIncome, Fresh
    PROVE  \/ Ordered' = Ordered
           \/ \E n \in Nat \ {0} :
                 /\ Ordered = 0 /\ Ordered' = n
                 /\ n + workers <= MaximumWorkers
                 /\ n + Cardinality(Making) <= Cardinality(Halls)
<1>1. PICK inside \in 0 .. Cardinality(Refineries), visited \in SUBSET TownHalls :
         LET lacking == OptimalWorkers - (workers + inside)
         IN  /\ IF lacking <= 0 THEN visited = {}
                ELSE IF lacking >= Cardinality(TownHalls) THEN visited = TownHalls
                ELSE Cardinality(visited) = lacking
             /\ \E halls \in SetToSeqs({u \in visited : NeedsWorkerOrder(u)}) :
                   trainings' = trainings \o
                      [i \in DOMAIN halls |-> [type |-> "SCV", assignee |-> halls[i]]]
  BY DEF SecureMineralsIncome
<1> DEFINE idle == {u \in visited : NeedsWorkerOrder(u)}
           lacking == OptimalWorkers - (workers + inside)
<1>2. PICK halls \in SetToSeqs(idle) :
         trainings' = trainings \o
            [i \in DOMAIN halls |-> [type |-> "SCV", assignee |-> halls[i]]]
  BY <1>1
<1>3. /\ visited \subseteq Halls /\ idle \subseteq visited /\ idle \subseteq Halls \ Making
      /\ (idle # {} => Ordered = 0)
      /\ Cardinality(TownHalls) = Cardinality(Halls)
  BY TownHallsFresh
<1>4. IsFiniteSet(Refineries) /\ Cardinality(Refineries) \in Nat
      /\ IsFiniteSet(OneOf({"CommandCenter", "OrbitalCommand", "PlanetaryFortress"}))
      /\ Cardinality(OneOf({"CommandCenter", "OrbitalCommand", "PlanetaryFortress"})) \in Nat
  <2>1. Refineries \subseteq Tag
        /\ OneOf({"CommandCenter", "OrbitalCommand", "PlanetaryFortress"}) \subseteq Tag
    BY DEF Refineries, OneOf, TypeOK
  <2> QED BY <2>1, GameAssumption, FS_Subset, FS_CardinalityType
<1>5. OptimalWorkers \in Int /\ OptimalWorkers <= MaximumWorkers /\ workers \in Nat
  <2>1. WorkersPerTownHall \in Nat /\ WorkersPerRefinery \in Nat /\ MaximumWorkers \in Nat
    BY PluginAssumption
  <2> DEFINE a == Cardinality(OneOf({"CommandCenter", "OrbitalCommand", "PlanetaryFortress"}))
             b == Cardinality(Refineries)
             w == WorkersPerTownHall * a + WorkersPerRefinery * b
  <2>2. a \in Nat /\ b \in Nat
    BY <1>4
  <2>3. OptimalWorkers = IF w < MaximumWorkers THEN w ELSE MaximumWorkers
    BY DEF OptimalWorkers
  <2> HIDE DEF a, b
  <2>4. w \in Nat
    BY <2>1, <2>2
  <2> HIDE DEF w
  <2> QED BY <2>1, <2>3, <2>4 DEF TypeOK
<1>6. lacking \in Int /\ lacking <= MaximumWorkers - workers
  BY <1>4, <1>5, PluginAssumption
<1> HIDE DEF lacking
<1>7. \/ lacking <= 0 /\ visited = {}
      \/ /\ lacking > 0
         /\ \/ visited = TownHalls /\ lacking >= Cardinality(TownHalls)
            \/ Cardinality(visited) = lacking
  BY <1>1, <1>6 DEF lacking
<1> HIDE DEF idle
<1> DEFINE n == Cardinality(idle)
<1>8. /\ IsFiniteSet(visited) /\ Cardinality(visited) \in Nat /\ IsFiniteSet(idle)
      /\ n \in Nat /\ n <= Cardinality(visited)
  <2>1. IsFiniteSet(visited)
    BY <1>3, CrewTypes, FS_Subset
  <2> QED BY <1>3, <2>1, FS_Subset, FS_CardinalityType
<1>9. n > 0 => n <= lacking
  <2>1. CASE visited = {}
    <3>1. Cardinality(visited) = 0
      BY <2>1, FS_EmptySet
    <3> QED BY <1>8, <3>1
  <2>2. CASE visited = TownHalls /\ lacking >= Cardinality(TownHalls)
    BY <1>6, <1>8, <2>2
  <2>3. CASE Cardinality(visited) = lacking
    BY <1>6, <1>8, <2>3
  <2> QED BY <1>7, <2>1, <2>2, <2>3
<1>10. n + Cardinality(Making) <= Cardinality(Halls)
  <2> DEFINE M == Making
             H == Halls
  <2>1. M \subseteq H /\ idle \subseteq H \ M
    BY <1>3, WorkersAtHalls
  <2>2. IsFiniteSet(M) /\ Cardinality(M) \in Nat /\ IsFiniteSet(H) /\ Cardinality(H) \in Nat
    BY CrewTypes
  <2> SUFFICES n + Cardinality(M) <= Cardinality(H)
    OBVIOUS
  <2> HIDE DEF M, H
  <2>3. /\ IsFiniteSet(M \cup idle) /\ Cardinality(M \cup idle) <= Cardinality(H)
        /\ M \cap idle = {}
    BY <1>8, <2>1, <2>2, FS_Union, FS_Subset
  <2>4. Cardinality(M \cup idle) = Cardinality(M) + n
    <3>1. Cardinality(M \cup idle) = Cardinality(M) + n - Cardinality(M \cap idle)
      BY <1>8, <2>2, FS_Union
    <3>2. Cardinality(M \cap idle) = 0
      BY <2>3, FS_EmptySet
    <3> QED BY <1>8, <2>2, <3>1, <3>2
  <2> QED BY <1>8, <2>2, <2>3, <2>4
<1> DEFINE orders == [i \in DOMAIN halls |-> [type |-> "SCV", assignee |-> halls[i]]]
<1>11. halls \in [1 .. n -> idle]
  BY <1>2 DEF SetToSeqs
<1>12. orders \in [1 .. n -> WorkerOrders] /\ idle \subseteq Tag
  <2>1. idle \subseteq Tag
    BY <1>3 DEF Halls
  <2> QED BY <1>11, <2>1, UnitTypeDataAssumption DEF TrainingOrder, WorkerOrders
<1>13. Count(orders, WorkerOrders) = n
  <2>1. DOMAIN orders = 1 .. n /\ \A i \in 1 .. n : orders[i] \in WorkerOrders
    BY <1>12
  <2> HIDE DEF orders
  <2>2. {i \in DOMAIN orders : orders[i] \in WorkerOrders} = 1 .. n
    BY <2>1
  <2>3. Cardinality(1 .. n) = n
    <3> HIDE DEF n
    <3> QED BY <1>8, FS_Interval
  <2> QED BY <2>2, <2>3 DEF Count
<1>14. orders \in Seq(TrainingOrder) /\ trainings \in Seq(TrainingOrder)
  <2>1. orders \in [1 .. n -> TrainingOrder]
    BY <1>12 DEF WorkerOrders
  <2> HIDE DEF orders, n
  <2>2. orders \in Seq(TrainingOrder)
    BY <1>8, <2>1, IsASeq
  <2> QED BY <2>2 DEF TypeOK
<1>15. Ordered' = Ordered + n
  <2>1. trainings' = trainings \o orders
    BY <1>2
  <2> HIDE DEF orders, n
  <2>2. Count(trainings \o orders, WorkerOrders) = Count(trainings, WorkerOrders) + n
    BY <1>13, <1>14, CountConcat
  <2> QED BY <2>1, <2>2 DEF Ordered
<1>16. Ordered \in Nat
  BY OrderedTypes
<1>17. CASE n = 0
  BY <1>15, <1>16, <1>17
<1>18. CASE n # 0
  <2>1. Ordered = 0
    <3>1. idle # {}
      BY <1>18, FS_EmptySet
    <3> QED BY <1>3, <3>1
  <2> HIDE DEF n
  <2>2. n \in Nat \ {0} /\ Ordered' = n
    BY <1>8, <1>15, <1>18, <2>1
  <2>3. n + workers <= MaximumWorkers
    BY <1>5, <1>6, <1>8, <1>9, <1>18, PluginAssumption
  <2> QED BY <1>10, <2>1, <2>2, <2>3
<1> QED BY <1>17, <1>18

(* Builder's construction orders command no worker. *)
LEMMA HeadCommanded ==
    ASSUME TypeInv, BuildHead, Head(constructions) # "SCV"
    PROVE  Commanded("SCV")' = Commanded("SCV")
<1> DEFINE t == Head(constructions)
<1>1. constructions # <<>> /\ constructions \in Seq(UnitType) /\ commands \in Seq(Command)
  BY DEF BuildHead, TypeInv, TypeOK
<1>2. t \in UnitType
  BY <1>1, HeadTailProperties
<1>3. PICK u \in Producers(t, NullTag) : commands' = Append(commands, [type |-> t, unit |-> u])
  BY DEF BuildHead, Issue
<1>4. u \in Tag \cup {NullTag}
  BY <1>2, <1>3, ProducersType, TypeSplit DEF TypeInv
<1> HIDE DEF t
<1> DEFINE c == [type |-> t, unit |-> u]
<1>5. c \in Command /\ c \notin CommandsFor("SCV")
  BY <1>2, <1>4 DEF Command, CommandsFor, t
<1> HIDE DEF c
<1>6. Count(Append(commands, c), CommandsFor("SCV"))
      = Count(commands, CommandsFor("SCV")) + (IF c \in CommandsFor("SCV") THEN 1 ELSE 0)
  BY <1>1, <1>5, CountAppend
<1>7. Commanded("SCV") \in Nat
  BY WayTypes, UnitTypeDataAssumption DEF TypeInv
<1> QED BY <1>3, <1>5, <1>6, <1>7 DEF Commanded, c

(* A worker order becomes a worker command, one for one. *)
LEMMA TrainNextHires ==
    ASSUME TypeInv, OrdersAssigned, BuildTraining
    PROVE  /\ Ordered' \in Nat /\ Commanded("SCV")' \in Nat
           /\ Commanded("SCV")' + Ordered' = Commanded("SCV") + Ordered
<1>0. Commanded("SCV") \in Nat /\ Ordered \in Nat
  BY WayTypes, OrderedTypes, UnitTypeDataAssumption DEF TypeInv
<1>1. CASE UNCHANGED <<trainings, commands>>
  BY <1>0, <1>1 DEF Commanded, Ordered
<1>2. CASE ~UNCHANGED <<trainings, commands>>
  <2> DEFINE o == trainings[cursor]
  <2>1. trainings \in Seq(TrainingOrder) /\ cursor \in DOMAIN trainings /\ commands \in Seq(Command)
    BY DEF BuildTraining, TypeInv, TypeOK
  <2>2. o \in TrainingOrder
    BY <2>1, ElementOfSeq, LenProperties
  <2>3. PICK u \in Producers(o.type, o.assignee) :
           commands' = Append(commands, [type |-> o.type, unit |-> u])
    BY <1>2 DEF BuildTraining, Issue
  <2>4. trainings' = RemoveAt(trainings, cursor)
    BY <1>2 DEF BuildTraining
  <2> HIDE DEF o
  <2>5. u \in Tag \cup {NullTag} /\ o.type \in UnitType
    BY <2>2, <2>3, ProducersType, TypeSplit DEF TypeInv, TrainingOrder
  <2> DEFINE c == [type |-> o.type, unit |-> u]
  <2>6. c \in Command /\ (c \in CommandsFor("SCV") <=> o \in WorkerOrders)
    BY <2>2, <2>5 DEF Command, CommandsFor, WorkerOrders
  <2> HIDE DEF c
  <2>7. Count(Append(commands, c), CommandsFor("SCV"))
        = Count(commands, CommandsFor("SCV")) + (IF c \in CommandsFor("SCV") THEN 1 ELSE 0)
    BY <2>1, <2>6, CountAppend
  <2>8. Count(trainings, WorkerOrders)
        = Count(RemoveAt(trainings, cursor), WorkerOrders) + (IF o \in WorkerOrders THEN 1 ELSE 0)
    BY <2>1, CountRemoveAt DEF o
  <2>9. RemoveAt(trainings, cursor) \in Seq(TrainingOrder)
    BY <2>1, RemoveAtProperties
  <2>10. Count(RemoveAt(trainings, cursor), WorkerOrders) \in Nat
    BY <2>9, IndicesFinite
  <2>11. /\ Commanded("SCV")' = Commanded("SCV") + (IF o \in WorkerOrders THEN 1 ELSE 0)
         /\ Ordered = Ordered' + (IF o \in WorkerOrders THEN 1 ELSE 0)
         /\ Ordered' \in Nat
    BY <2>3, <2>4, <2>6, <2>7, <2>8, <2>10 DEF Commanded, Ordered, c
  <2> QED BY <1>0, <2>11
<1> QED BY <1>1, <1>2

(* ReaperRush orders no workers. *)
LEMMA IdleOrdersNoWorker ==
    ASSUME TypeOK, NEW u \in Tag, ReaperRushOnUnitIdle(u)
    PROVE  Ordered' = Ordered
<1> DEFINE reaper == [type |-> "Reaper", assignee |-> u]
<1>1. reaper \in TrainingOrder /\ trainings \in Seq(TrainingOrder) /\ reaper \notin WorkerOrders
  BY UnitTypeDataAssumption DEF TypeOK, TrainingOrder, WorkerOrders
<1>2. \/ UNCHANGED trainings
      \/ trainings' = trainings \o <<reaper>>
      \/ trainings' = trainings \o <<reaper, reaper>>
  BY DEF ReaperRushOnUnitIdle, queueVars
<1> HIDE DEF reaper
<1>3. ASSUME NEW added \in {<<reaper>>, <<reaper, reaper>>}, trainings' = trainings \o added
      PROVE  Ordered' = Ordered
  <2>1. added \in Seq(TrainingOrder)
    <3>1. <<reaper>> \in Seq(TrainingOrder) /\ <<reaper, reaper>> \in Seq(TrainingOrder)
      BY <1>1
    <3> QED BY <3>1
  <2>2. Elems(added) \cap WorkerOrders = {}
    BY <1>1 DEF Elems
  <2>3. Count(added, WorkerOrders) = 0
    BY <2>2, CountNone
  <2>4. Count(trainings \o added, WorkerOrders)
        = Count(trainings, WorkerOrders) + Count(added, WorkerOrders)
    BY <1>1, <2>1, CountConcat
  <2>5. Ordered \in Nat
    BY OrderedTypes
  <2> QED BY <1>3, <2>3, <2>4, <2>5 DEF Ordered
<1> QED BY <1>2, <1>3 DEF Ordered

(* No worker gets into the queue of the constructions. *)
LEMMA NobodyQueuedStep ==
    ASSUME StructuresRequired, UrgentRequireNothing, OpeningTrainsNobody, HallsInv, [Next]_vars
    PROVE  "SCV" \notin Elems(constructions')
<1>0. /\ "SCV" \notin Elems(constructions) /\ constructions \in Seq(UnitType) /\ TypeInv
      /\ "SupplyDepot" \in UnitType /\ "BarracksReactor" \in UnitType
  BY UnitTypeDataAssumption DEF HallsInv, StepInv, SightInv, TypeInv, TypeOK
<1>1. CASE UNCHANGED constructions
  BY <1>0, <1>1
<1>2. CASE ScheduleOpening
  <2>1. CASE UNCHANGED constructions
    BY <1>0, <2>1
  <2>2. CASE cursor \in DOMAIN Opening /\ ScheduleConstruction(Opening[cursor], FALSE, Standing)
    <3> DEFINE t == Opening[cursor]
    <3>1. t \in UnitType /\ t # "SCV"
      BY <2>2, DispatcherAssumption, ElementOfSeq, LenProperties DEF OpeningTrainsNobody
    <3>2. "SCV" \notin Elems(TechLine[t])
      BY <2>2, UnitPlot DEF StructuresRequired
    <3>3. Elems(constructions') \subseteq Elems(constructions) \cup {t} \cup Elems(TechLine[t])
      <4>1. ScheduleConstruction(t, FALSE, Standing)
        BY <2>2
      <4> DEFINE S == Standing \cup UnitType
      <4>2. AheadIn(constructions, S) /\ Standing \cap UnitType \subseteq S
        <5>1. \A i \in DOMAIN constructions : constructions[i] \in UnitType
          BY <1>0, LenProperties, ElementOfSeq
        <5>2. \A x \in UnitType : Requirement(x) \in UnitType \cup {NoType}
          BY DataTypes
        <5> QED BY <5>1, <5>2 DEF AheadIn
      <4> HIDE DEF t, S
      <4> QED BY <1>0, <3>1, <4>1, <4>2, ScheduledLater
    <3> QED BY <1>0, <3>1, <3>2, <3>3
  <2> QED BY <1>2, <2>1, <2>2 DEF ScheduleOpening
<1>3. ASSUME NEW t \in {"SupplyDepot", "BarracksReactor"}, NEW standing,
             ScheduleConstruction(t, TRUE, standing)
      PROVE  "SCV" \notin Elems(constructions')
  <2>1. constructions' = <<t>> \o constructions
    BY <1>0, <1>3, ScheduledUrgently DEF UrgentRequireNothing
  <2>2. <<t>> \in Seq(UnitType) /\ Elems(<<t>>) = {t}
    BY <1>0 DEF Elems
  <2>3. Elems(constructions') \subseteq {t} \cup Elems(constructions)
    BY <1>0, <2>1, <2>2, ElemsOfConcat
  <2> QED BY <1>0, <2>3
<1>4. CASE QuarterMasterOnStep
  BY <1>1, <1>3, <1>4 DEF QuarterMasterOnStep, RequestSupplies
<1>5. ASSUME NEW u \in Tag, OnUnitDestroyed(u) PROVE UNCHANGED constructions
  <2>1. u \in events.destroyed
    BY <1>5 DEF OnUnitDestroyed
  <2>2. ~view[u].built
    BY <2>1 DEF HallsInv, DestroyedDead, NothingRazed, Existing
  <2> QED BY <1>5, <2>2 DEF OnUnitDestroyed, RepairManOnUnitDestroyed
<1>6. ASSUME NEW u \in Tag, OnUnitIdle(u) PROVE "SCV" \notin Elems(constructions')
  <2>1. \/ UNCHANGED constructions
        \/ ScheduleConstruction("BarracksReactor", TRUE, Standing')
    BY <1>6 DEF OnUnitIdle, ReaperRushOnUnitIdle, queueVars
  <2> QED BY <1>1, <1>3, <2>1
<1>7. CASE BuilderOnStep
  <2>1. CASE HeadWaits
    BY <1>0, <2>1 DEF HeadWaits, queueVars
  <2>2. CASE BuildHead
    <3>1. Elems(Tail(constructions)) \subseteq Elems(constructions)
      BY <1>0, <2>2, ElemsOfTail DEF BuildHead
    <3> QED BY <1>0, <2>2, <3>1 DEF BuildHead
  <2> QED BY <1>7, <2>1, <2>2 DEF BuilderOnStep
<1>8. CASE \/ GameStep \/ UNCHANGED vars \/ \E u \in Tag : OnUnitCreated(u)
           \/ OnReaperCreated \/ ApiOnStep \/ MinerOnStep \/ TrainNext \/ SendActions
  <2>1. UNCHANGED constructions
    BY <1>8, GameBuildsOrRazes DEF Observe, botVars, vars, builderVars, queueVars, OnUnitCreated,
       OnReaperCreated, ApiOnStep, MinerOnStep, TrainNext, BuildTraining, SendActions
  <2> QED BY <1>1, <2>1
<1> QED BY <1>1, <1>2, <1>4, <1>5, <1>6, <1>7, <1>8 DEF Next, BotStep

(* The bound is a number. *)
LEMMA LimitType == WorkerLimit \in Nat /\ MaximumWorkers <= WorkerLimit /\ StartWorkers <= WorkerLimit
BY PluginAssumption, DispatcherAssumption DEF WorkerLimit

(* The bot's steps keep within the bound: only Miner adds to the crew. *)
LEMMA BotCrewBounded ==
    ASSUME HallsInv, BotStep
    PROVE  CrewBounded'
<1>0. /\ TypeInv /\ TypeOK /\ StepOrder /\ OrdersAssigned /\ OrdersFit /\ CrewBounded
      /\ workers \in Nat /\ Ordered \in Nat /\ Commanded("SCV") \in Nat
      /\ Cardinality(Making) \in Nat /\ Cardinality(Halls) \in Nat
      /\ WorkerLimit \in Nat /\ MaximumWorkers <= WorkerLimit /\ MaximumWorkers \in Nat
  BY OrderedTypes, WayTypes, CrewTypes, LimitType, PluginAssumption, UnitTypeDataAssumption
     DEF HallsInv, StepInv, SightInv, TypeInv, TypeOK
<1>1. UNCHANGED <<units, workers>>
  BY BotKeepsUnits DEF BotStep, ScheduleOpening, OnUnitDestroyed, OnUnitCreated, OnUnitIdle,
     OnReaperCreated, ApiOnStep, MinerOnStep, QuarterMasterOnStep, BuilderOnStep, TrainNext,
     SendActions, gameVars, popVars
<1>2. UNCHANGED <<Making, Halls>>
  BY <1>1 DEF Making, Halls
<1>3. ASSUME Commanded("SCV")' + Ordered' = Commanded("SCV") + Ordered,
             Commanded("SCV")' \in Nat, Ordered' \in Nat
      PROVE  CrewBounded'
  <2>1. workers' = workers /\ Cardinality(Making') = Cardinality(Making)
        /\ Cardinality(Halls') = Cardinality(Halls)
    BY <1>1, <1>2
  <2>2. Crew' = Crew
    BY <1>0, <1>3, <2>1 DEF Crew
  <2> QED BY <1>0, <2>1, <2>2 DEF CrewBounded
<1>4. UNCHANGED <<commands, trainings>> => CrewBounded'
  BY <1>0, <1>3 DEF Commanded, Ordered
<1>5. CASE MinerOnStep
  <2>1. SecureMineralsIncome /\ UNCHANGED commands /\ Fresh /\ commands = <<>>
    BY <1>0, <1>5 DEF MinerOnStep, StepOrder, gameVars
  <2>2. Commanded("SCV") = 0 /\ Commanded("SCV")' = 0
    BY <2>1, CountEmpty DEF Commanded
  <2>3. CASE Ordered' = Ordered
    BY <1>0, <1>3, <2>2, <2>3
  <2>4. ASSUME NEW n \in Nat \ {0}, Ordered' = n, n + workers <= MaximumWorkers,
               n + Cardinality(Making) <= Cardinality(Halls)
        PROVE  CrewBounded'
    <3>1. workers' = workers /\ Cardinality(Making') = Cardinality(Making)
          /\ Cardinality(Halls') = Cardinality(Halls)
      BY <1>1, <1>2
    <3>2. Crew' = workers + Cardinality(Making) + n
      BY <1>0, <2>2, <2>4, <3>1 DEF Crew
    <3>3. workers + Cardinality(Making) + n <= WorkerLimit + Cardinality(Halls) - 1
      BY <1>0, <2>4
    <3> QED BY <3>1, <3>2, <3>3 DEF CrewBounded, WorkerLimit
  <2> QED BY <1>0, <2>1, <2>3, <2>4, MinerHires
<1>6. CASE BuilderOnStep
  <2>1. UNCHANGED trainings
    BY <1>6 DEF BuilderOnStep
  <2>2. CASE HeadWaits
    BY <1>4, <2>1, <2>2 DEF HeadWaits
  <2>3. CASE BuildHead
    <3>1. Head(constructions) # "SCV"
      <4>1. constructions \in Seq(UnitType) /\ constructions # <<>>
        BY <1>0, <2>3 DEF BuildHead, TypeOK
      <4>2. Head(constructions) \in Elems(constructions)
        BY <4>1, ElemsOfTail
      <4> QED BY <4>2 DEF HallsInv
    <3>2. Commanded("SCV")' = Commanded("SCV") /\ Ordered' = Ordered
      BY <1>0, <2>1, <2>3, <3>1, HeadCommanded DEF Ordered
    <3> QED BY <1>0, <1>3, <3>2
  <2> QED BY <1>6, <2>2, <2>3 DEF BuilderOnStep
<1>7. CASE TrainNext
  BY <1>0, <1>3, <1>7, TrainNextHires DEF TrainNext
<1>8. ASSUME NEW u \in Tag, OnUnitIdle(u) PROVE CrewBounded'
  <2>1. UNCHANGED commands /\ Ordered' = Ordered
    BY <1>0, <1>8, IdleOrdersNoWorker DEF OnUnitIdle, gameVars
  <2> QED BY <1>0, <1>3, <2>1 DEF Commanded
<1>9. CASE /\ ~MinerOnStep /\ ~BuilderOnStep /\ ~TrainNext
           /\ \A u \in Tag : ~OnUnitIdle(u)
  <2>1. UNCHANGED <<commands, trainings>>
    BY <1>9 DEF BotStep, ScheduleOpening, OnUnitDestroyed, OnUnitCreated, OnReaperCreated,
       ApiOnStep, QuarterMasterOnStep, SendActions, gameVars, builderVars, queueVars
  <2> QED BY <1>4, <2>1
<1> QED BY <1>5, <1>6, <1>7, <1>8, <1>9

(* The game adds no worker that was not commanded, and keeps the town halls. *)
LEMMA GameCrewBounded ==
    ASSUME Unrazed, HallsInv, GameStep
    PROVE  CrewBounded'
<1>0. /\ TypeInv /\ TypeOK /\ TypeInv' /\ OrdersFit /\ CrewBounded /\ GameTypeOK /\ GameOccupied
      /\ workers \in Nat /\ Ordered \in Nat /\ Commanded("SCV") \in Nat
      /\ Cardinality(Making) \in Nat /\ Cardinality(Halls) \in Nat
      /\ Cardinality(Making') \in Nat /\ Cardinality(Halls') \in Nat
      /\ WorkerLimit \in Nat
  BY OrderedTypes, WayTypes, CrewTypes, LimitType, UnitTypeDataAssumption, TypeSplit,
     GameStepTypeInv, OccupiedSplit DEF HallsInv, StepInv, SightInv, TypeInv, TypeOK
<1>1. CASE Observe
  <2>1. UNCHANGED <<units, workers, commands, trainings>>
    BY <1>1 DEF Observe, builderVars, queueVars
  <2> QED BY <1>0, <2>1 DEF CrewBounded, Crew, Making, Halls, Commanded, Ordered, WorkerLimit
<1>2. \A u \in Tag : ~RazeStructure(u)
  BY DEF RazeStructure, Raze, Mishap, Unrazed
<1>3. CASE GameBuilds /\ UNCHANGED botVars
  <2>1. Hired' <= Hired
    BY <1>0, <1>3, GameCrew
  <2>2. Ordered' = Ordered
    BY <1>3 DEF botVars, builderVars, queueVars, Ordered
  <2>3. Cardinality(Halls) <= Cardinality(Halls')
    BY <1>0, <1>3, HallsStay, CrewTypes, FS_Subset
  <2>4. workers' \in Nat /\ Commanded("SCV")' \in Nat
    <3>1. commands' \in Seq(Command) /\ workers' \in Nat
      BY <1>0 DEF TypeInv, TypeOK
    <3> QED BY <3>1, IndicesFinite DEF Commanded
  <2>5. Crew = Hired + Ordered /\ Crew' = Hired' + Ordered' /\ Hired \in Nat /\ Hired' \in Nat
    BY <1>0, <2>4 DEF Crew, Hired
  <2>6. Hired' + Ordered' <= WorkerLimit + Cardinality(Halls') - 1
    BY <1>0, <2>1, <2>2, <2>3, <2>5 DEF CrewBounded
  <2> QED BY <2>5, <2>6 DEF CrewBounded, WorkerLimit
<1> QED BY <1>1, <1>2, <1>3, GameBuildsOrRazes

(* It holds to begin with, *)
LEMMA HallsInvInit == Init => HallsInv
<1> SUFFICES ASSUME Init PROVE HallsInv
  OBVIOUS
<1>1. StepInv /\ OrdersFit /\ NothingRazed /\ DestroyedDead
  BY RequestsInvInit DEF RequestsInv
<1>2. constructions = <<>> /\ trainings = <<>> /\ commands = <<>> /\ workers = StartWorkers
  BY DEF Init
<1>3. "SCV" \notin Elems(constructions)
  BY <1>2 DEF Elems
<1>4. /\ 1 \in Tag /\ \A u \in Tag : u # 1 => units[u] = Vacant
      /\ units[1] = [Site("CommandCenter") EXCEPT !.built = TRUE]
  BY DispatcherAssumption DEF Init
<1>5. units[1].alive /\ units[1].type = "CommandCenter" /\ units[1].orders = <<>>
      /\ ~Vacant.alive
  BY <1>4 DEF Site, Vacant
<1>6. Making = {} /\ Halls = {1}
  <2>1. \A u \in Tag : units[u].alive => u = 1
    BY <1>4, <1>5
  <2>2. Elems(<<>>) = {}
    BY DEF Elems
  <2>3. IsTownHall(units[1].type)
    BY <1>5 DEF IsTownHall
  <2>4. Making = {}
    BY <1>5, <2>1, <2>2 DEF Making
  <2>5. Halls = {1}
    BY <1>4, <1>5, <2>1, <2>3 DEF Halls
  <2> QED BY <2>4, <2>5
<1>7. Cardinality(Making) = 0 /\ Cardinality(Halls) = 1
  BY <1>6, FS_EmptySet, FS_Singleton
<1>8. Commanded("SCV") = 0 /\ Ordered = 0
  BY <1>2, CountEmpty DEF Commanded, Ordered
<1>9. CrewBounded
  BY <1>2, <1>7, <1>8, LimitType, DispatcherAssumption DEF CrewBounded, Crew
<1> QED BY <1>1, <1>3, <1>9 DEF HallsInv

(* every step keeps it, *)
LEMMA HallsInvStep ==
    ASSUME Unrazed, StructuresRequired, UrgentRequireNothing, OpeningTrainsNobody,
           HallsInv, [Next]_vars
    PROVE  HallsInv'
<1>0. TypeInv /\ SightInv
  BY DEF HallsInv, StepInv, SightInv
<1>1. StepInv' /\ OrdersFit' /\ DestroyedDead' /\ NothingRazed'
  BY <1>0, StepInvStep, OrdersFitStep, DestroyedDeadStep, NothingRazedStep DEF HallsInv, Unrazed
<1>2. "SCV" \notin Elems(constructions')
  BY NobodyQueuedStep
<1>3. CrewBounded'
  <2>1. UNCHANGED vars => CrewBounded'
    BY DEF HallsInv, CrewBounded, Crew, Making, Halls, Commanded, Ordered, WorkerLimit, vars,
           gameVars, builderVars, queueVars
  <2> QED BY <2>1, GameCrewBounded, BotCrewBounded DEF Next
<1> QED BY <1>1, <1>2, <1>3 DEF HallsInv

(* and it says what was to be proved. *)
LEMMA HallsInvMeans == HallsInv => WorkersBounded
<1> SUFFICES ASSUME HallsInv PROVE WorkersBounded
  OBVIOUS
<1>0. /\ TypeOK /\ workers \in Nat /\ "SCV" \in UnitType /\ CrewBounded
      /\ Commanded("SCV") \in Nat
  BY UnitTypeDataAssumption, WayTypes DEF HallsInv, StepInv, SightInv, TypeInv, TypeOK
<1> DEFINE making == {u \in Existing : units[u].orders = <<"SCV">>}
           commanding == {i \in DOMAIN commands : commands[i].type = "SCV"}
           halls == {u \in Existing : IsTownHall(units[u].type)}
<1>1. making \subseteq Making /\ halls = Halls
  BY DEF Existing, Making, Halls, Elems
<1>2. Cardinality(making) \in Nat /\ Cardinality(making) <= Cardinality(Making)
  BY <1>1, CrewTypes, FS_Subset, FS_CardinalityType
<1>3. Cardinality(commanding) = Commanded("SCV") /\ Cardinality(halls) = Cardinality(Halls)
  BY <1>0, <1>1, WayTypes
<1>4. Ordered \in Nat /\ Ordered = CountScheduledTrainings("SCV")
  BY <1>0, OrderedTypes
<1>5. WorkersBounded <=>
        workers + Cardinality(making)
        + (CountScheduledTrainings("SCV") + Cardinality(commanding))
        <= WorkerLimit + Cardinality(halls) - 1
  BY DEF WorkersBounded, WorkerLimit
<1> HIDE DEF making, commanding, halls
<1>6. workers + Cardinality(making) + (Ordered + Commanded("SCV"))
      <= WorkerLimit + Cardinality(Halls) - 1
  BY <1>0, <1>2, <1>4, CrewTypes, LimitType DEF CrewBounded, Crew
<1> QED BY <1>3, <1>4, <1>5, <1>6

(* The workers alive, in production, commanded and ordered never exceed     *)
(* m_maximumWorkers (or the number the game begins with) by more than the   *)
(* number of town halls less one, whatever Miner::SecureMineralsIncome      *)
(* counts when: for an opening of structures, as long as nothing is razed,  *)
(* which would take the town hall and leave the workers.                    *)
THEOREM CrewNeverExceeds ==
    ASSUME Unrazed, StructuresRequired, UrgentRequireNothing, OpeningTrainsNobody
    PROVE  Spec => []WorkersBounded
<1>1. Init => HallsInv
  BY HallsInvInit
<1>2. HallsInv /\ [Next]_vars => HallsInv'
  BY HallsInvStep
<1>3. HallsInv => WorkersBounded
  BY HallsInvMeans
<1> QED BY <1>1, <1>2, <1>3, PTL DEF Spec
=============================================================================
