--------------------------- MODULE IceMassProofs ---------------------------
(***************************************************************************)
(* Proofs about IceMass for grids of every size, any partition of them,     *)
(* every flow and source of mass, all calving mechanisms in any order and   *)
(* any number of steps: the flow moves ice without creating it, a step ends *)
(* with a consistent geometry, no iceberg is left, the discharge is the     *)
(* mass that calving takes, and the reported fluxes account for the mass.   *)
(*                                                                          *)
(* The module first proves that sums over cells do not depend on the order  *)
(* of the terms, then for each operation what it does to one cell and to    *)
(* the sums, and at last the theorems, each from the types (TypeInv) and an *)
(* inductive invariant of its own.                                          *)
(***************************************************************************)
EXTENDS IceMass, FiniteSetTheorems, WellFoundedInduction, TLAPS

-----------------------------------------------------------------------------
(* Induction over the finite sets of cells: G holds every one of them if it *)
(* holds the empty set and, with a set, the set with one more cell.         *)
LEMMA CellsFinite == IsFiniteSet(Cells)
<1>1. Mx \in Nat /\ My \in Nat
  BY GridAssumption
<1>2. IsFiniteSet(0 .. Mx - 1) /\ IsFiniteSet(0 .. My - 1)
  BY <1>1, FS_Interval
<1> QED
  BY <1>2, FS_Product DEF Cells

LEMMA SetInduction ==
  ASSUME NEW G, {} \in G,
         \A s \in SUBSET Cells : \A x \in Cells : s \in G /\ x \notin s => s \cup {x} \in G
  PROVE  SUBSET Cells \subseteq G
<1> DEFINE Bad == {s \in SUBSET Cells : s \notin G}
           R   == StrictSubsetOrdering(Cells)
<1>1. IsWellFoundedOn(R, SUBSET Cells)
  BY CellsFinite, FS_StrictSubsetOrderingWellFounded, FS_FiniteSubsetsOfFinite
<1>2. Bad = {}
  <2> SUFFICES ASSUME Bad # {} PROVE FALSE
    OBVIOUS
  <2>1. PICK s \in Bad : \A v \in Bad : ~(<<v, s>> \in R)
    <3>1. Bad \subseteq SUBSET Cells
      OBVIOUS
    <3> HIDE DEF Bad, R
    <3> QED
      BY <1>1, <3>1, WFMin
  <2>2. s \in SUBSET Cells /\ s \notin G
    BY <2>1
  <2>3. PICK x \in s : TRUE
    BY <2>2
  <2>4. s \ {x} \in SUBSET Cells /\ x \in Cells /\ x \notin s \ {x} /\ (s \ {x}) \cup {x} = s
    BY <2>2, <2>3
  <2>5. <<s \ {x}, s>> \in R
    BY <2>2, <2>3, <2>4 DEF StrictSubsetOrdering
  <2>6. s \ {x} \in G
    <3> HIDE DEF R
    <3> QED
      BY <2>1, <2>4, <2>5
  <2>7. (s \ {x}) \cup {x} \in G
    BY <2>4, <2>6
  <2> QED
    BY <2>2, <2>4, <2>7
<1> QED
  BY <1>2

-----------------------------------------------------------------------------
(* Sums over sets of cells.  g are the sums of f over the subsets of T.     *)
SumsWithin(g, f, T) ==
  /\ g \in [SUBSET T -> Int] /\ g[{}] = 0
  /\ \A s \in SUBSET T : \A x \in s : g[s] = f[x] + g[s \ {x}]

LEMMA SumsExist ==
  ASSUME NEW f \in [Cells -> Int]
  PROVE  \E g : SumsWithin(g, f, Cells)
<1> DEFINE G == {T \in SUBSET Cells : \E g : SumsWithin(g, f, T)}
<1>1. {} \in G
  <2>1. SumsWithin([s \in SUBSET {} |-> 0], f, {})
    BY DEF SumsWithin
  <2> QED
    BY <2>1
<1>2. ASSUME NEW T \in SUBSET Cells, NEW y \in Cells, T \in G, y \notin T
      PROVE  T \cup {y} \in G
  <2>1. PICK g : SumsWithin(g, f, T)
    BY <1>2
  <2> DEFINE U == T \cup {y}
             h == [s \in SUBSET U |-> IF y \in s THEN f[y] + g[s \ {y}] ELSE g[s]]
  <2>2. /\ g \in [SUBSET T -> Int] /\ g[{}] = 0 /\ f[y] \in Int
        /\ \A s \in SUBSET T : \A x \in s : g[s] = f[x] + g[s \ {x}]
    BY <2>1 DEF SumsWithin
  <2>3. \A s \in SUBSET U : (y \notin s => s \in SUBSET T) /\ s \ {y} \in SUBSET T
    OBVIOUS
  <2>4. h \in [SUBSET U -> Int]
    <3>1. ASSUME NEW s \in SUBSET U
          PROVE  (IF y \in s THEN f[y] + g[s \ {y}] ELSE g[s]) \in Int
      <4>1. g[s \ {y}] \in Int
        BY <2>2, <2>3
      <4>2. y \notin s => g[s] \in Int
        BY <2>2, <2>3
      <4> QED
        BY <2>2, <4>1, <4>2
    <3> QED
      BY <3>1
  <2>5. h[{}] = 0
    BY <2>2
  <2>6. ASSUME NEW s \in SUBSET U, NEW x \in s PROVE h[s] = f[x] + h[s \ {x}]
    <3>1. s \ {x} \in SUBSET U /\ s \ {y} \in SUBSET T
      OBVIOUS
    <3>2. CASE x = y
      <4>1. h[s] = f[y] + g[s \ {y}] /\ h[s \ {x}] = g[s \ {x}]
        BY <3>1, <3>2
      <4> HIDE DEF h
      <4> QED
        BY <3>2, <4>1
    <3>3. CASE x # y /\ y \in s
      <4>1. h[s] = f[y] + g[s \ {y}] /\ h[s \ {x}] = f[y] + g[(s \ {x}) \ {y}]
        BY <3>1, <3>3
      <4>2. x \in s \ {y} /\ (s \ {y}) \ {x} = (s \ {x}) \ {y}
        BY <3>3
      <4>3. g[s \ {y}] = f[x] + g[(s \ {x}) \ {y}]
        BY <2>2, <3>1, <4>2
      <4>4. (s \ {x}) \ {y} \in SUBSET T /\ x \in Cells
        OBVIOUS
      <4>5. f[x] \in Int /\ g[(s \ {x}) \ {y}] \in Int
        BY <2>2, <4>4
      <4> HIDE DEF h
      <4> QED
        BY <2>2, <4>1, <4>3, <4>5
    <3>4. CASE x # y /\ y \notin s
      <4>1. h[s] = g[s] /\ h[s \ {x}] = g[s \ {x}]
        BY <3>1, <3>4
      <4>2. s \in SUBSET T
        BY <3>4
      <4> HIDE DEF h
      <4> QED
        BY <2>2, <4>1, <4>2
    <3> QED
      BY <3>2, <3>3, <3>4
  <2>7. SumsWithin(h, f, U)
    <3> HIDE DEF h
    <3> QED
      BY <2>4, <2>5, <2>6 DEF SumsWithin
  <2> QED
    BY <2>7
<1>3. SUBSET Cells \subseteq G
  <2> HIDE DEF G
  <2> QED
    BY <1>1, <1>2, SetInduction
<1> QED
  BY <1>3

(* What the library computes, cell by cell in an order of its own.          *)
LEMMA SumIs ==
  ASSUME NEW f \in [Cells -> Int], NEW S \in SUBSET Cells,
         NEW g, SumsWithin(g, f, Cells)
  PROVE  SumOver(S, f) = g[S]
<1> DEFINE Any(s) == CHOOSE x \in s : TRUE
           Rest(s) == s \ {Any(s)}
           Adding(h) == h = [s \in SUBSET S |-> IF s = {} THEN 0 ELSE f[Any(s)] + h[Rest(s)]]
           sums == [s \in SUBSET S |-> g[s]]
           lib == CHOOSE h : Adding(h)
<1>1. SumOver(S, f) = lib[S]
  BY DEF SumOver, MapThenSumSet, MapThenFoldSet
<1>2. /\ g[{}] = 0
      /\ \A s \in SUBSET Cells : \A x \in s : g[s] = f[x] + g[s \ {x}]
  BY DEF SumsWithin
<1>3. ASSUME NEW s \in SUBSET S, s # {}
      PROVE  /\ Any(s) \in s /\ Rest(s) \in SUBSET S
             /\ g[s] = f[Any(s)] + g[Rest(s)]
  <2>1. Any(s) \in s
    BY <1>3
  <2> HIDE DEF Any
  <2> QED
    BY <1>2, <2>1
<1>4. Adding(sums)
  <2>1. ASSUME NEW s \in SUBSET S
        PROVE  g[s] = IF s = {} THEN 0 ELSE f[Any(s)] + sums[Rest(s)]
    <3> HIDE DEF Any, Rest
    <3> QED
      BY <1>2, <1>3
  <2> HIDE DEF Any, Rest
  <2> QED
    BY <2>1
<1>5. Adding(lib)
  <2> HIDE DEF Adding, sums
  <2> QED
    BY <1>4
<1>6. ASSUME NEW s \in SUBSET S
      PROVE  lib[s] = IF s = {} THEN 0 ELSE f[Any(s)] + lib[Rest(s)]
  <2> HIDE DEF Any, Rest, lib
  <2> QED
    BY <1>5
<1> HIDE DEF lib
<1> DEFINE Bad == {s \in SUBSET S : lib[s] # g[s]}
           R   == StrictSubsetOrdering(S)
<1>7. IsWellFoundedOn(R, SUBSET S)
  <2>1. IsFiniteSet(S)
    BY CellsFinite, FS_Subset
  <2> QED
    BY <2>1, FS_StrictSubsetOrderingWellFounded, FS_FiniteSubsetsOfFinite
<1>8. Bad = {}
  <2> SUFFICES ASSUME Bad # {} PROVE FALSE
    OBVIOUS
  <2>1. PICK s \in Bad : \A v \in Bad : ~(<<v, s>> \in R)
    <3>1. Bad \subseteq SUBSET S
      OBVIOUS
    <3> HIDE DEF Bad, R
    <3> QED
      BY <1>7, <3>1, WFMin
  <2>2. s \in SUBSET S /\ lib[s] # g[s]
    BY <2>1
  <2>3. s # {}
    BY <1>2, <1>6, <2>2
  <2>4. /\ Any(s) \in s /\ Rest(s) \in SUBSET S
        /\ g[s] = f[Any(s)] + g[Rest(s)]
    <3> HIDE DEF Any, Rest
    <3> QED
      BY <1>3, <2>2, <2>3
  <2>5. <<Rest(s), s>> \in R
    <3>1. Rest(s) \subseteq s /\ Rest(s) # s
      <4> HIDE DEF Any
      <4> QED
        BY <2>4
    <3> HIDE DEF Rest
    <3> QED
      BY <2>2, <2>4, <3>1 DEF StrictSubsetOrdering
  <2>6. lib[Rest(s)] = g[Rest(s)]
    <3> HIDE DEF Rest, R
    <3> QED
      BY <2>1, <2>4, <2>5
  <2> HIDE DEF Any, Rest
  <2> QED
    BY <1>6, <2>2, <2>3, <2>4, <2>6
<1> QED
  BY <1>1, <1>8

(* Sums are numbers; they may begin with any cell.                          *)
LEMMA SumEmpty ==
  ASSUME NEW f \in [Cells -> Int]
  PROVE  SumOver({}, f) = 0
<1>1. PICK g : SumsWithin(g, f, Cells)
  BY SumsExist
<1> QED
  BY <1>1, SumIs DEF SumsWithin

LEMMA SumType ==
  ASSUME NEW f \in [Cells -> Int], NEW S \in SUBSET Cells
  PROVE  SumOver(S, f) \in Int
<1>1. PICK g : SumsWithin(g, f, Cells)
  BY SumsExist
<1>2. SumOver(S, f) = g[S]
  BY <1>1, SumIs
<1>3. g[S] \in Int
  BY <1>1 DEF SumsWithin
<1> QED
  BY <1>2, <1>3

LEMMA SumPeels ==
  ASSUME NEW f \in [Cells -> Int], NEW S \in SUBSET Cells, NEW x \in Cells, x \notin S
  PROVE  SumOver(S \cup {x}, f) = f[x] + SumOver(S, f)
<1>1. PICK g : SumsWithin(g, f, Cells)
  BY SumsExist
<1>2. S \cup {x} \in SUBSET Cells /\ x \in S \cup {x} /\ (S \cup {x}) \ {x} = S
  OBVIOUS
<1>3. g[S \cup {x}] = f[x] + g[(S \cup {x}) \ {x}]
  BY <1>1, <1>2 DEF SumsWithin
<1> QED
  BY <1>1, <1>2, <1>3, SumIs

(* The sum of a sum,                                                        *)
LEMMA SumPlus ==
  ASSUME NEW f \in [Cells -> Int], NEW g \in [Cells -> Int], NEW h \in [Cells -> Int],
         NEW S \in SUBSET Cells, \A c \in S : h[c] = f[c] + g[c]
  PROVE  SumOver(S, h) = SumOver(S, f) + SumOver(S, g)
<1> DEFINE G == {s \in SUBSET Cells :
                   s \subseteq S => SumOver(s, h) = SumOver(s, f) + SumOver(s, g)}
<1>1. {} \in G
  BY SumEmpty
<1>2. ASSUME NEW s \in SUBSET Cells, NEW x \in Cells, s \in G, x \notin s
      PROVE  s \cup {x} \in G
  <2> SUFFICES ASSUME s \cup {x} \subseteq S
               PROVE  SumOver(s \cup {x}, h) = SumOver(s \cup {x}, f) + SumOver(s \cup {x}, g)
    OBVIOUS
  <2>1. SumOver(s, h) = SumOver(s, f) + SumOver(s, g)
    BY <1>2
  <2>2. h[x] = f[x] + g[x] /\ f[x] \in Int /\ g[x] \in Int
    OBVIOUS
  <2>3. SumOver(s, f) \in Int /\ SumOver(s, g) \in Int
    BY SumType
  <2>4. /\ SumOver(s \cup {x}, h) = h[x] + SumOver(s, h)
        /\ SumOver(s \cup {x}, f) = f[x] + SumOver(s, f)
        /\ SumOver(s \cup {x}, g) = g[x] + SumOver(s, g)
    BY <1>2, SumPeels
  <2> QED
    BY <2>1, <2>2, <2>3, <2>4
<1>3. SUBSET Cells \subseteq G
  <2> HIDE DEF G
  <2> QED
    BY <1>1, <1>2, SetInduction
<1> QED
  BY <1>3

(* of the same numbers,                                                     *)
LEMMA SumSame ==
  ASSUME NEW f \in [Cells -> Int], NEW h \in [Cells -> Int],
         NEW S \in SUBSET Cells, \A c \in S : h[c] = f[c]
  PROVE  SumOver(S, h) = SumOver(S, f)
<1> DEFINE G == {s \in SUBSET Cells : s \subseteq S => SumOver(s, h) = SumOver(s, f)}
<1>1. {} \in G
  BY SumEmpty
<1>2. ASSUME NEW s \in SUBSET Cells, NEW x \in Cells, s \in G, x \notin s
      PROVE  s \cup {x} \in G
  <2> SUFFICES ASSUME s \cup {x} \subseteq S
               PROVE  SumOver(s \cup {x}, h) = SumOver(s \cup {x}, f)
    OBVIOUS
  <2>1. SumOver(s, h) = SumOver(s, f) /\ h[x] = f[x]
    BY <1>2
  <2>2. /\ SumOver(s \cup {x}, h) = h[x] + SumOver(s, h)
        /\ SumOver(s \cup {x}, f) = f[x] + SumOver(s, f)
    BY <1>2, SumPeels
  <2> QED
    BY <2>1, <2>2
<1>3. SUBSET Cells \subseteq G
  <2> HIDE DEF G
  <2> QED
    BY <1>1, <1>2, SetInduction
<1> QED
  BY <1>3

(* of a difference,                                                         *)
LEMMA SumMinus ==
  ASSUME NEW f \in [Cells -> Int], NEW g \in [Cells -> Int], NEW h \in [Cells -> Int],
         NEW S \in SUBSET Cells, \A c \in S : h[c] = f[c] - g[c]
  PROVE  SumOver(S, h) = SumOver(S, f) - SumOver(S, g)
<1>1. \A c \in S : f[c] = h[c] + g[c]
  <2>1. \A c \in S : f[c] \in Int /\ g[c] \in Int /\ h[c] = f[c] - g[c]
    OBVIOUS
  <2> QED
    BY <2>1
<1>2. SumOver(S, f) = SumOver(S, h) + SumOver(S, g)
  BY <1>1, SumPlus
<1>3. SumOver(S, f) \in Int /\ SumOver(S, g) \in Int /\ SumOver(S, h) \in Int
  BY SumType
<1> QED
  BY <1>2, <1>3

(* of nothing but what is on a part of the cells,                           *)
LEMMA SumMasked ==
  ASSUME NEW f \in [Cells -> Int], NEW h \in [Cells -> Int], NEW S \in SUBSET Cells,
         \A c \in Cells : h[c] = IF c \in S THEN f[c] ELSE 0
  PROVE  Total(h) = SumOver(S, f)
<1> DEFINE G == {s \in SUBSET Cells : SumOver(s, h) = SumOver(s \cap S, f)}
<1>1. {} \in G
  <2>1. {} \cap S = {}
    OBVIOUS
  <2> QED
    BY <2>1, SumEmpty
<1>2. ASSUME NEW s \in SUBSET Cells, NEW x \in Cells, s \in G, x \notin s
      PROVE  s \cup {x} \in G
  <2> SUFFICES SumOver(s \cup {x}, h) = SumOver((s \cup {x}) \cap S, f)
    OBVIOUS
  <2>1. SumOver(s, h) = SumOver(s \cap S, f) /\ SumOver(s \cap S, f) \in Int
    BY <1>2, SumType
  <2>2. SumOver(s \cup {x}, h) = h[x] + SumOver(s, h)
    BY <1>2, SumPeels
  <2>3. CASE x \in S
    <3>1. (s \cup {x}) \cap S = (s \cap S) \cup {x}
      BY <2>3
    <3>2. SumOver((s \cap S) \cup {x}, f) = f[x] + SumOver(s \cap S, f)
      BY <1>2, SumPeels
    <3>3. h[x] = f[x]
      BY <2>3
    <3> QED
      BY <2>1, <2>2, <3>1, <3>2, <3>3
  <2>4. CASE x \notin S
    <3>1. (s \cup {x}) \cap S = s \cap S
      BY <2>4
    <3>2. h[x] = 0
      BY <2>4
    <3> QED
      BY <2>1, <2>2, <3>1, <3>2
  <2> QED
    BY <2>3, <2>4
<1>3. SUBSET Cells \subseteq G
  <2> HIDE DEF G
  <2> QED
    BY <1>1, <1>2, SetInduction
<1>4. SumOver(Cells, h) = SumOver(Cells \cap S, f) /\ Cells \cap S = S
  BY <1>3
<1> QED
  BY <1>4 DEF Total

(* of numbers that are not negative,                                        *)
LEMMA SumPositive ==
  ASSUME NEW f \in [Cells -> Nat], NEW S \in SUBSET Cells
  PROVE  SumOver(S, f) \in Nat
<1> DEFINE G == {s \in SUBSET Cells : SumOver(s, f) \in Nat}
<1>0. f \in [Cells -> Int]
  OBVIOUS
<1>1. {} \in G
  BY <1>0, SumEmpty
<1>2. ASSUME NEW s \in SUBSET Cells, NEW x \in Cells, s \in G, x \notin s
      PROVE  s \cup {x} \in G
  <2>1. SumOver(s \cup {x}, f) = f[x] + SumOver(s, f)
    BY <1>0, <1>2, SumPeels
  <2>2. f[x] \in Nat /\ SumOver(s, f) \in Nat
    BY <1>2
  <2> QED
    BY <2>1, <2>2
<1>3. SUBSET Cells \subseteq G
  <2> HIDE DEF G
  <2> QED
    BY <1>1, <1>2, SetInduction
<1> QED
  BY <1>3

(* and of a field that is moved: p is a permutation of the cells.           *)
LEMMA SumMoved ==
  ASSUME NEW f \in [Cells -> Int], NEW h \in [Cells -> Int], NEW p \in [Cells -> Cells],
         \A c, x \in Cells : p[c] = p[x] => c = x,
         \A x \in Cells : \E c \in Cells : p[c] = x,
         \A c \in Cells : h[c] = f[p[c]]
  PROVE  Total(h) = Total(f)
<1> DEFINE At(s) == {p[c] : c \in s}
           G == {s \in SUBSET Cells : SumOver(s, h) = SumOver(At(s), f)}
<1>1. {} \in G
  <2>1. At({}) = {}
    OBVIOUS
  <2> QED
    BY <2>1, SumEmpty
<1>2. ASSUME NEW s \in SUBSET Cells, NEW x \in Cells, s \in G, x \notin s
      PROVE  s \cup {x} \in G
  <2>1. /\ At(s \cup {x}) = At(s) \cup {p[x]}
        /\ p[x] \notin At(s) /\ p[x] \in Cells /\ At(s) \in SUBSET Cells
    BY <1>2
  <2> HIDE DEF At
  <2>2. SumOver(At(s) \cup {p[x]}, f) = f[p[x]] + SumOver(At(s), f)
    BY <2>1, SumPeels
  <2>3. SumOver(s \cup {x}, h) = h[x] + SumOver(s, h)
    BY <1>2, SumPeels
  <2> QED
    BY <1>2, <2>1, <2>2, <2>3
<1>3. SUBSET Cells \subseteq G
  <2> HIDE DEF G
  <2> QED
    BY <1>1, <1>2, SetInduction
<1>4. At(Cells) = Cells
  OBVIOUS
<1> QED
  BY <1>3, <1>4 DEF Total

-----------------------------------------------------------------------------
(* The periodic grid.                                                       *)
LEMMA Wraps ==
  ASSUME NEW m \in Nat \ {0}, NEW a \in 0 .. m - 1
  PROVE  /\ (a + 1) % m = IF a = m - 1 THEN 0 ELSE a + 1
         /\ (a - 1) % m = IF a = 0 THEN m - 1 ELSE a - 1
         /\ (a + -1) % m = IF a = 0 THEN m - 1 ELSE a - 1
         /\ (a + 0) % m = a
OBVIOUS

(* The neighbours of a cell,                                                *)
LEMMA Neighbors ==
  ASSUME NEW c \in Cells
  PROVE  /\ c = <<c[1], c[2]>> /\ c[1] \in 0 .. Mx - 1 /\ c[2] \in 0 .. My - 1
         /\ Neighbor(c, "e") = <<IF c[1] = Mx - 1 THEN 0 ELSE c[1] + 1, c[2]>>
         /\ Neighbor(c, "w") = <<IF c[1] = 0 THEN Mx - 1 ELSE c[1] - 1, c[2]>>
         /\ Neighbor(c, "n") = <<c[1], IF c[2] = My - 1 THEN 0 ELSE c[2] + 1>>
         /\ Neighbor(c, "s") = <<c[1], IF c[2] = 0 THEN My - 1 ELSE c[2] - 1>>
<1>1. Mx \in Nat \ {0} /\ My \in Nat \ {0}
  BY GridAssumption
<1>2. c = <<c[1], c[2]>> /\ c[1] \in 0 .. Mx - 1 /\ c[2] \in 0 .. My - 1
  BY DEF Cells
<1>3. /\ Offset["e"] = <<1, 0>> /\ Offset["w"] = <<-1, 0>>
      /\ Offset["n"] = <<0, 1>> /\ Offset["s"] = <<0, -1>>
  BY DEF Offset
<1>4. /\ Neighbor(c, "e") = <<(c[1] + 1) % Mx, (c[2] + 0) % My>>
      /\ Neighbor(c, "w") = <<(c[1] + -1) % Mx, (c[2] + 0) % My>>
      /\ Neighbor(c, "n") = <<(c[1] + 0) % Mx, (c[2] + 1) % My>>
      /\ Neighbor(c, "s") = <<(c[1] + 0) % Mx, (c[2] + -1) % My>>
  BY <1>3 DEF Neighbor, Shift
<1>5. /\ (c[1] + 1) % Mx = IF c[1] = Mx - 1 THEN 0 ELSE c[1] + 1
      /\ (c[1] + -1) % Mx = IF c[1] = 0 THEN Mx - 1 ELSE c[1] - 1
      /\ (c[1] + 0) % Mx = c[1]
      /\ (c[2] + 1) % My = IF c[2] = My - 1 THEN 0 ELSE c[2] + 1
      /\ (c[2] + -1) % My = IF c[2] = 0 THEN My - 1 ELSE c[2] - 1
      /\ (c[2] + 0) % My = c[2]
  <2>1. /\ (c[1] + 1) % Mx = IF c[1] = Mx - 1 THEN 0 ELSE c[1] + 1
        /\ (c[1] + -1) % Mx = IF c[1] = 0 THEN Mx - 1 ELSE c[1] - 1
        /\ (c[1] + 0) % Mx = c[1]
    BY <1>1, <1>2, Wraps
  <2>2. /\ (c[2] + 1) % My = IF c[2] = My - 1 THEN 0 ELSE c[2] + 1
        /\ (c[2] + -1) % My = IF c[2] = 0 THEN My - 1 ELSE c[2] - 1
        /\ (c[2] + 0) % My = c[2]
    BY <1>1, <1>2, Wraps
  <2> QED
    BY <2>1, <2>2, Zenon
<1>6. /\ Neighbor(c, "e") = <<IF c[1] = Mx - 1 THEN 0 ELSE c[1] + 1, c[2]>>
      /\ Neighbor(c, "w") = <<IF c[1] = 0 THEN Mx - 1 ELSE c[1] - 1, c[2]>>
  BY <1>4, <1>5, Zenon
<1>7. /\ Neighbor(c, "n") = <<c[1], IF c[2] = My - 1 THEN 0 ELSE c[2] + 1>>
      /\ Neighbor(c, "s") = <<c[1], IF c[2] = 0 THEN My - 1 ELSE c[2] - 1>>
  BY <1>4, <1>5, Zenon
<1> QED
  BY <1>2, <1>6, <1>7, Zenon

(* which are cells, and which have it as theirs on the other side.          *)
LEMMA Opposites ==
  ASSUME NEW c \in Cells
  PROVE  /\ \A d \in Directions : Neighbor(c, d) \in Cells /\ Neighbor(c, d) \in Star(c)
         /\ Neighbor(Neighbor(c, "e"), "w") = c /\ Neighbor(Neighbor(c, "w"), "e") = c
         /\ Neighbor(Neighbor(c, "n"), "s") = c /\ Neighbor(Neighbor(c, "s"), "n") = c
<1>1. Mx \in Nat \ {0} /\ My \in Nat \ {0}
  BY GridAssumption
<1>2. c = <<c[1], c[2]>> /\ c[1] \in 0 .. Mx - 1 /\ c[2] \in 0 .. My - 1
  BY Neighbors
<1>3. /\ Neighbor(c, "e") \in Cells /\ Neighbor(c, "w") \in Cells
      /\ Neighbor(c, "n") \in Cells /\ Neighbor(c, "s") \in Cells
  <2>1. \A i \in 0 .. Mx - 1, j \in 0 .. My - 1 : <<i, j>> \in Cells
    BY DEF Cells
  <2>2. /\ (IF c[1] = Mx - 1 THEN 0 ELSE c[1] + 1) \in 0 .. Mx - 1
        /\ (IF c[1] = 0 THEN Mx - 1 ELSE c[1] - 1) \in 0 .. Mx - 1
        /\ (IF c[2] = My - 1 THEN 0 ELSE c[2] + 1) \in 0 .. My - 1
        /\ (IF c[2] = 0 THEN My - 1 ELSE c[2] - 1) \in 0 .. My - 1
    BY <1>1, <1>2
  <2>3. PICK e \in 0 .. Mx - 1 : e = IF c[1] = Mx - 1 THEN 0 ELSE c[1] + 1
    BY <2>2
  <2>4. PICK w \in 0 .. Mx - 1 : w = IF c[1] = 0 THEN Mx - 1 ELSE c[1] - 1
    BY <2>2
  <2>5. PICK n \in 0 .. My - 1 : n = IF c[2] = My - 1 THEN 0 ELSE c[2] + 1
    BY <2>2
  <2>6. PICK s \in 0 .. My - 1 : s = IF c[2] = 0 THEN My - 1 ELSE c[2] - 1
    BY <2>2
  <2>7. /\ Neighbor(c, "e") = <<e, c[2]>> /\ Neighbor(c, "w") = <<w, c[2]>>
        /\ Neighbor(c, "n") = <<c[1], n>> /\ Neighbor(c, "s") = <<c[1], s>>
    BY <2>3, <2>4, <2>5, <2>6, Neighbors
  <2> QED
    BY <1>2, <2>1, <2>7
<1>4. Neighbor(Neighbor(c, "e"), "w") = c
  <2>1. PICK x \in Cells : x = Neighbor(c, "e")
    BY <1>3
  <2>2. x[1] = (IF c[1] = Mx - 1 THEN 0 ELSE c[1] + 1) /\ x[2] = c[2]
    BY <2>1, Neighbors
  <2>3. Neighbor(x, "w") = <<IF x[1] = 0 THEN Mx - 1 ELSE x[1] - 1, x[2]>>
    BY Neighbors
  <2> QED
    BY <1>1, <1>2, <2>1, <2>2, <2>3
<1>5. Neighbor(Neighbor(c, "w"), "e") = c
  <2>1. PICK x \in Cells : x = Neighbor(c, "w")
    BY <1>3
  <2>2. x[1] = (IF c[1] = 0 THEN Mx - 1 ELSE c[1] - 1) /\ x[2] = c[2]
    BY <2>1, Neighbors
  <2>3. Neighbor(x, "e") = <<IF x[1] = Mx - 1 THEN 0 ELSE x[1] + 1, x[2]>>
    BY Neighbors
  <2> QED
    BY <1>1, <1>2, <2>1, <2>2, <2>3
<1>6. Neighbor(Neighbor(c, "n"), "s") = c
  <2>1. PICK x \in Cells : x = Neighbor(c, "n")
    BY <1>3
  <2>2. x[2] = (IF c[2] = My - 1 THEN 0 ELSE c[2] + 1) /\ x[1] = c[1]
    BY <2>1, Neighbors
  <2>3. Neighbor(x, "s") = <<x[1], IF x[2] = 0 THEN My - 1 ELSE x[2] - 1>>
    BY Neighbors
  <2> QED
    BY <1>1, <1>2, <2>1, <2>2, <2>3
<1>7. Neighbor(Neighbor(c, "s"), "n") = c
  <2>1. PICK x \in Cells : x = Neighbor(c, "s")
    BY <1>3
  <2>2. x[2] = (IF c[2] = 0 THEN My - 1 ELSE c[2] - 1) /\ x[1] = c[1]
    BY <2>1, Neighbors
  <2>3. Neighbor(x, "n") = <<x[1], IF x[2] = My - 1 THEN 0 ELSE x[2] + 1>>
    BY Neighbors
  <2> QED
    BY <1>1, <1>2, <2>1, <2>2, <2>3
<1>8. \A d \in Directions : Neighbor(c, d) \in Cells /\ Neighbor(c, d) \in Star(c)
  BY <1>3 DEF Directions, Star
<1> QED
  BY <1>4, <1>5, <1>6, <1>7, <1>8

(* A field has the same total when it is moved to the next cells.           *)
LEMMA TotalMoved ==
  ASSUME NEW f \in [Cells -> Int], NEW d \in Directions,
         NEW h \in [Cells -> Int], \A c \in Cells : h[c] = f[Neighbor(c, d)]
  PROVE  Total(h) = Total(f)
<1> DEFINE p == [c \in Cells |-> Neighbor(c, d)]
           q == [c \in Cells |-> Neighbor(c, Opposite[d])]
<1>1. Opposite[d] \in Directions
  BY DEF Directions, Opposite
<1>2. \A c \in Cells : /\ Neighbor(c, d) \in Cells /\ Neighbor(c, Opposite[d]) \in Cells
                       /\ Neighbor(Neighbor(c, d), Opposite[d]) = c
                       /\ Neighbor(Neighbor(c, Opposite[d]), d) = c
  <2>1. d \in {"n", "e", "s", "w"}
    BY DEF Directions
  <2>2. Opposite["n"] = "s" /\ Opposite["s"] = "n" /\ Opposite["e"] = "w" /\ Opposite["w"] = "e"
    BY DEF Opposite
  <2> QED
    BY <1>1, <2>1, <2>2, Opposites
<1>3. p \in [Cells -> Cells] /\ q \in [Cells -> Cells]
  BY <1>2
<1>4. \A c \in Cells : q[p[c]] = c /\ p[q[c]] = c
  BY <1>2
<1>5. \A c \in Cells : h[c] = f[p[c]]
  OBVIOUS
<1> HIDE DEF p, q
<1>6. \A c, x \in Cells : p[c] = p[x] => c = x
  BY <1>4
<1>7. \A x \in Cells : \E c \in Cells : p[c] = x
  BY <1>3, <1>4
<1> QED
  BY <1>3, <1>5, <1>6, <1>7, SumMoved

-----------------------------------------------------------------------------
(* The flux through an interface.                                           *)
ForcingType == [vel : [Cells -> Int \X Int], q : [Cells -> Int \X Int],
                smb : Int, bmr : Int]

LEMMA Compared ==
  ASSUME NEW vel \in [Cells -> Int \X Int], NEW c \in Cells, NEW d \in Directions
  PROVE  Comp(vel, c, d) \in Int
BY DEF Comp

LEMMA VelocityType ==
  ASSUME NEW vel \in [Cells -> Int \X Int], NEW m, NEW c \in Cells, NEW x \in Cells,
         NEW d \in Directions
  PROVE  SlidingVelocity(m, vel, c, x, d) \in Int
<1>1. /\ Comp(vel, c, d) \in Int /\ Comp(vel, x, d) \in Int
      /\ Comp(BCVel, c, d) \in Int /\ Comp(BCVel, x, d) \in Int
  BY TransportAssumption, Compared
<1>2. \A p, r, a, b : a \in Int /\ b \in Int => Interface(p, r, a, b) \in Int
  BY DEF Interface
<1> QED
  BY <1>1, <1>2 DEF SlidingVelocity, Velocity

LEMMA QuotientType ==
  ASSUME NEW a \in Int, NEW b \in Nat \ {0}
  PROVE  /\ a \div b \in Int
         /\ a >= 0 => a \div b \in Nat
OBVIOUS

LEMMA FluxIsNumber ==
  ASSUME NEW vel \in [Cells -> Int \X Int], NEW q \in [Cells -> Int \X Int],
         NEW thick \in [Cells -> Nat], NEW m, NEW c \in Cells, NEW x \in Cells,
         NEW d \in Directions
  PROVE  FluxTo(m, vel, q, thick, c, x, d) \in Int
<1>1. PICK v \in Int : v = SlidingVelocity(m, vel, c, x, d)
  BY VelocityType
<1>2. PICK H \in Nat : H = thick[IF (v > 0) = (d \in {"e", "n"}) THEN c ELSE x]
  OBVIOUS
<1>3. 2 * VelUnit \in Nat \ {0}
  BY TransportAssumption
<1>4. (v * H) \div (2 * VelUnit) \in Int
  <2>1. v * H \in Int
    OBVIOUS
  <2> QED
    BY <1>3, <2>1, QuotientType
<1>5. Upwind(v, thick, c, x, d) \in Int
  BY <1>2, <1>4 DEF Upwind
<1>6. DiffusiveFlux(m, q, c, x, d) \in Int
  BY DEF DiffusiveFlux
<1> QED
  BY <1>1, <1>5, <1>6 DEF FluxTo

(* What leaves a cell to the east or to the north enters its neighbour.     *)
LEMMA VelocityAcross ==
  ASSUME NEW vel \in [Cells -> Int \X Int], NEW m, NEW c \in Cells, NEW x \in Cells,
         NEW d \in Directions, NEW e \in Directions,
         d \in {"e", "w"} <=> e \in {"e", "w"}
  PROVE  SlidingVelocity(m, vel, c, x, d) = SlidingVelocity(m, vel, x, c, e)
<1>1. \A w : /\ Comp(w, c, d) = Comp(w, c, e) /\ Comp(w, x, d) = Comp(w, x, e)
  BY DEF Comp
<1>2. /\ Comp(vel, c, d) \in Int /\ Comp(vel, x, d) \in Int
      /\ Comp(BCVel, c, d) \in Int /\ Comp(BCVel, x, d) \in Int
  BY TransportAssumption, Compared
<1>3. Velocity(m, vel, c, x, d) = Velocity(m, vel, x, c, e)
  <2>1. PICK a \in Int, b \in Int : a = Comp(BCVel, c, d) /\ b = Comp(BCVel, x, d)
    BY <1>2
  <2>2. PICK k \in Int, l \in Int : k = Comp(vel, c, d) /\ l = Comp(vel, x, d)
    BY <1>2
  <2>3. a = Comp(BCVel, c, e) /\ b = Comp(BCVel, x, e)
        /\ k = Comp(vel, c, e) /\ l = Comp(vel, x, e)
    BY <1>1, <2>1, <2>2
  <2>4. a + b = b + a /\ k + l = l + k
    OBVIOUS
  <2>5. /\ Velocity(m, vel, c, x, d) =
             IF c \in BCMask \/ x \in BCMask
               THEN Interface(c \in BCMask, x \in BCMask, a, b)
               ELSE Interface(Icy(m[c]), Icy(m[x]), k, l)
        /\ Velocity(m, vel, x, c, e) =
             IF c \in BCMask \/ x \in BCMask
               THEN Interface(x \in BCMask, c \in BCMask, b, a)
               ELSE Interface(Icy(m[x]), Icy(m[c]), l, k)
    BY <2>1, <2>2, <2>3 DEF Velocity
  <2> QED
    BY <2>4, <2>5 DEF Interface
<1>4. Slides(m[c], m[x]) <=> Slides(m[x], m[c])
  BY DEF Slides
<1> QED
  BY <1>3, <1>4 DEF SlidingVelocity

LEMMA FluxAcross ==
  ASSUME NEW vel \in [Cells -> Int \X Int], NEW q, NEW thick, NEW m,
         NEW c \in Cells, NEW x \in Cells,
         NEW d \in {"e", "n"}, NEW e \in {"w", "s"}, d = "e" <=> e = "w"
  PROVE  FluxTo(m, vel, q, thick, c, x, d) = FluxTo(m, vel, q, thick, x, c, e)
<1>1. PICK v \in Int : v = SlidingVelocity(m, vel, c, x, d)
  BY VelocityType DEF Directions
<1>2. v = SlidingVelocity(m, vel, x, c, e)
  BY <1>1, VelocityAcross DEF Directions
<1>3. Upwind(v, thick, c, x, d) = Upwind(v, thick, x, c, e)
  BY DEF Upwind
<1>4. DiffusiveFlux(m, q, c, x, d) = DiffusiveFlux(m, q, x, c, e)
  <2>1. Diffuses(m[c], m[x]) <=> Diffuses(m[x], m[c])
    BY DEF Diffuses
  <2>2. /\ d \in {"e", "n"} /\ e \notin {"e", "n"}
        /\ d \in {"e", "w"} <=> e \in {"e", "w"}
    OBVIOUS
  <2> QED
    BY <2>1, <2>2 DEF DiffusiveFlux
<1> QED
  BY <1>1, <1>2, <1>3, <1>4 DEF FluxTo

(* The divergence is a number, and over all the cells there is none.        *)
LEMMA DivIsNumber ==
  ASSUME NEW s, s.thk \in [Cells -> Nat], NEW f \in ForcingType, NEW c \in Cells
  PROVE  /\ \A d \in Directions : Flux(s, f, c, d) \in Int
         /\ Div(s, f, c) \in Int
<1>1. f.vel \in [Cells -> Int \X Int] /\ f.q \in [Cells -> Int \X Int]
  BY DEF ForcingType
<1>2. ASSUME NEW d \in Directions PROVE Flux(s, f, c, d) \in Int
  <2>1. Neighbor(c, d) \in Cells
    BY Opposites
  <2> QED
    BY <1>1, <2>1, FluxIsNumber DEF Flux
<1>3. {"e", "w", "n", "s"} \subseteq Directions
  BY DEF Directions
<1>4. /\ Flux(s, f, c, "e") \in Int /\ Flux(s, f, c, "w") \in Int
      /\ Flux(s, f, c, "n") \in Int /\ Flux(s, f, c, "s") \in Int
  BY <1>2, <1>3
<1> QED
  BY <1>2, <1>4 DEF Div

LEMMA NoDivergence ==
  ASSUME NEW s, s.thk \in [Cells -> Nat], NEW f \in ForcingType
  PROVE  Total([c \in Cells |-> Div(s, f, c)]) = 0
<1> DEFINE E == [c \in Cells |-> Flux(s, f, c, "e")]
           W == [c \in Cells |-> Flux(s, f, c, "w")]
           N == [c \in Cells |-> Flux(s, f, c, "n")]
           S == [c \in Cells |-> Flux(s, f, c, "s")]
           X == [c \in Cells |-> E[c] - W[c]]
           Y == [c \in Cells |-> N[c] - S[c]]
           D == [c \in Cells |-> Div(s, f, c)]
<1>1. f.vel \in [Cells -> Int \X Int]
  BY DEF ForcingType
<1>2. {"e", "w", "n", "s"} \subseteq Directions
  BY DEF Directions
<1>3. /\ E \in [Cells -> Int] /\ W \in [Cells -> Int]
      /\ N \in [Cells -> Int] /\ S \in [Cells -> Int] /\ D \in [Cells -> Int]
  BY <1>2, DivIsNumber
<1>4. X \in [Cells -> Int] /\ Y \in [Cells -> Int]
  <2> HIDE DEF E, W, N, S
  <2> QED
    BY <1>3
<1>5. Total(E) = Total(W)
  <2>1. ASSUME NEW c \in Cells PROVE E[c] = W[Neighbor(c, "e")]
    <3>1. /\ Neighbor(c, "e") \in Cells /\ Neighbor(Neighbor(c, "e"), "w") = c
      BY <1>2, Opposites
    <3>2. FluxTo(s.mask, f.vel, f.q, s.thk, c, Neighbor(c, "e"), "e")
            = FluxTo(s.mask, f.vel, f.q, s.thk, Neighbor(c, "e"), c, "w")
      BY <1>1, <3>1, FluxAcross
    <3> QED
      BY <3>1, <3>2 DEF Flux
  <2> HIDE DEF E, W
  <2> QED
    BY <1>2, <1>3, <2>1, TotalMoved
<1>6. Total(N) = Total(S)
  <2>1. ASSUME NEW c \in Cells PROVE N[c] = S[Neighbor(c, "n")]
    <3>1. /\ Neighbor(c, "n") \in Cells /\ Neighbor(Neighbor(c, "n"), "s") = c
      BY <1>2, Opposites
    <3>2. FluxTo(s.mask, f.vel, f.q, s.thk, c, Neighbor(c, "n"), "n")
            = FluxTo(s.mask, f.vel, f.q, s.thk, Neighbor(c, "n"), c, "s")
      BY <1>1, <3>1, FluxAcross
    <3> QED
      BY <3>1, <3>2 DEF Flux
  <2> HIDE DEF N, S
  <2> QED
    BY <1>2, <1>3, <2>1, TotalMoved
<1>7. \A c \in Cells : D[c] = X[c] + Y[c]
  <2>1. ASSUME NEW c \in Cells PROVE D[c] = X[c] + Y[c]
    <3>1. D[c] = E[c] - W[c] + N[c] - S[c] /\ X[c] = E[c] - W[c] /\ Y[c] = N[c] - S[c]
      BY DEF Div
    <3> HIDE DEF E, W, N, S, X, Y, D
    <3>2. E[c] \in Int /\ W[c] \in Int /\ N[c] \in Int /\ S[c] \in Int
      BY <1>3
    <3> QED
      BY <3>1, <3>2
  <2> QED
    BY <2>1
<1>8. Total(X) = Total(E) - Total(W) /\ Total(Y) = Total(N) - Total(S)
  <2> HIDE DEF E, W, N, S
  <2>1. \A c \in Cells : X[c] = E[c] - W[c] /\ Y[c] = N[c] - S[c]
    OBVIOUS
  <2> HIDE DEF X, Y
  <2> QED
    BY <1>3, <1>4, <2>1, SumMinus DEF Total
<1> HIDE DEF E, W, N, S, X, Y
<1>9. Total(D) = Total(X) + Total(Y)
  <2> HIDE DEF D
  <2> QED
    BY <1>3, <1>4, <1>7, SumPlus DEF Total
<1>10. Total(E) \in Int /\ Total(N) \in Int
  BY <1>3, SumType DEF Total
<1> HIDE DEF D
<1>11. Total(D) = 0
  BY <1>5, <1>6, <1>8, <1>9, <1>10
<1> QED
  BY <1>11 DEF D

-----------------------------------------------------------------------------
(* The mask.  Land is where no ice floats, however thin.                    *)
Land == {c \in Cells : ~Floats(c, 0)}

LEMMA TimesAlpha ==
  ASSUME NEW a \in Nat \ {0}, NEW x \in Int, NEW y \in Int
  PROVE  a * x \in Int /\ a * (x + y) = a * x + a * y /\ (y >= 0 => a * y >= y)
OBVIOUS

(* Thinner ice floats if thicker ice does.                                  *)
LEMMA ThinnerFloats ==
  ASSUME NEW c \in Cells, NEW H \in Nat, NEW K \in Nat, K <= H, Floats(c, H)
  PROVE  Floats(c, K)
<1>1. AlphaInv \in Nat \ {0} /\ FloatingTol \in Nat /\ SeaLevel \in Int /\ Bed[c] \in Int
  BY MaskAssumption, BedAssumption
<1>2. PICK D \in Nat : H = K + D
  <2>1. H - K \in Nat /\ H = K + (H - K)
    OBVIOUS
  <2> QED
    BY <2>1
<1>3. /\ AlphaInv * (Bed[c] + H) = AlphaInv * (Bed[c] + K) + AlphaInv * D
      /\ AlphaInv * D >= D
  <2>1. Bed[c] + K \in Int /\ Bed[c] + H = (Bed[c] + K) + D
    BY <1>1, <1>2
  <2> QED
    BY <1>1, <2>1, TimesAlpha
<1>4. PICK g \in Int : g = AlphaInv * (Bed[c] + K)
  BY <1>1
<1>5. PICK t \in Int : t = AlphaInv * FloatingTol
  BY <1>1
<1>6. PICK l \in Int : l = AlphaInv * SeaLevel
  BY <1>1
<1>7. PICK b \in Int : b = AlphaInv * D
  BY <1>1
<1>8. l + H > g + b + t
  BY <1>3, <1>4, <1>5, <1>6, <1>7 DEF Floats, HFloating, HGrounded
<1>9. l + K > g + t
  BY <1>2, <1>3, <1>4, <1>5, <1>6, <1>7, <1>8
<1> QED
  BY <1>4, <1>5, <1>6, <1>9 DEF Floats, HFloating, HGrounded

LEMMA MaskType ==
  ASSUME NEW H \in [Cells -> Nat]
  PROVE  /\ MaskOf(H) \in [Cells -> Types]
         /\ SurfaceElev(H) \in [Cells -> Int]
         /\ \A c \in Cells : /\ MaskOf(H)[c] = TypeOf(c, H[c])
                             /\ SurfaceElev(H)[c] = SurfaceOf(c, H[c])
<1>1. ASSUME NEW c \in Cells PROVE TypeOf(c, H[c]) \in Types
  BY DEF TypeOf, Types
<1>2. ASSUME NEW c \in Cells PROVE SurfaceOf(c, H[c]) \in Int
  <2>1. AlphaInv \in Nat /\ SeaLevel \in Int /\ Bed[c] \in Int /\ H[c] \in Nat
    BY MaskAssumption, BedAssumption
  <2>2. AlphaInv * (Bed[c] + H[c]) \in Int /\ AlphaInv * SeaLevel + H[c] \in Int
    BY <2>1
  <2> QED
    BY <2>2 DEF SurfaceOf, HFloating, HGrounded
<1> QED
  BY <1>1, <1>2 DEF MaskOf, SurfaceElev

(* The types of cells, in terms of the thickness.                           *)
LEMMA TypeIs ==
  ASSUME NEW c \in Cells, NEW H \in Nat
  PROVE  /\ Ocean(TypeOf(c, H)) <=> Floats(c, H)
         /\ Icy(TypeOf(c, H)) <=> H >= IceFreeThickness
         /\ GroundedIce(TypeOf(c, H)) <=> ~Floats(c, H) /\ H >= IceFreeThickness
         /\ FloatingIce(TypeOf(c, H)) <=> Floats(c, H) /\ H >= IceFreeThickness
         /\ IceFreeOcean(TypeOf(c, H)) <=> Floats(c, H) /\ H < IceFreeThickness
<1>1. IceFreeThickness \in Nat
  BY MaskAssumption
<1> QED
  BY <1>1 DEF TypeOf, Ocean, Icy, GroundedIce, FloatingIce, IceFreeOcean

(* Where the mask says ocean the bed is below the sea.                      *)
AtSea(m) == \A c \in Cells : Ocean(m[c]) => c \notin Land

LEMMA OceanIsAtSea ==
  ASSUME NEW H \in [Cells -> Nat]
  PROVE  AtSea(MaskOf(H))
<1> SUFFICES ASSUME NEW c \in Cells, Ocean(MaskOf(H)[c]) PROVE c \notin Land
  BY DEF AtSea
<1>1. Floats(c, H[c])
  BY MaskType, TypeIs
<1>2. Floats(c, 0)
  BY <1>1, ThinnerFloats
<1> QED
  BY <1>2 DEF Land

-----------------------------------------------------------------------------
(* Loops over the cells, one after the other: what a loop that starts from  *)
(* a leaves after each of n cells, when cell k turns v into next[<<k, v>>]. *)
LEMMA LeastOf ==
  ASSUME NEW S \in SUBSET Nat, S # {}
  PROVE  \E m \in S : \A k \in S : m <= k
<1> DEFINE R == OpToRel(<, Nat)
<1>1. \A x, y \in Nat : x < y => <<x, y>> \in R
  BY DEF OpToRel
<1>2. IsWellFoundedOn(R, Nat)
  BY NatLessThanWellFounded
<1> HIDE DEF R
<1>3. PICK m \in S : \A y \in S : ~(<<y, m>> \in R)
  BY <1>2, WFMin
<1>4. SUFFICES ASSUME NEW k \in S PROVE m <= k
  OBVIOUS
<1>5. k \in Nat /\ m \in Nat
  OBVIOUS
<1>6. ~(k < m)
  BY <1>1, <1>3, <1>5
<1> QED
  BY <1>5, <1>6

LEMMA StepByStep ==
  ASSUME NEW n \in Nat, NEW G, 0 \in G, \A k \in 1 .. n : k - 1 \in G => k \in G
  PROVE  0 .. n \subseteq G
<1> DEFINE Bad == {k \in 0 .. n : k \notin G}
<1>1. Bad = {}
  <2> SUFFICES ASSUME Bad # {} PROVE FALSE
    OBVIOUS
  <2>1. Bad \in SUBSET Nat
    OBVIOUS
  <2>2. PICK k \in Bad : \A j \in Bad : k <= j
    <3> HIDE DEF Bad
    <3> QED
      BY <2>1, LeastOf
  <2>3. k \in 0 .. n /\ k \notin G /\ k # 0
    BY <2>2
  <2>4. k - 1 \in 0 .. n /\ k \in 1 .. n /\ ~(k <= k - 1)
    BY <2>3
  <2>5. k - 1 \notin Bad
    <3> HIDE DEF Bad
    <3> QED
      BY <2>2, <2>4
  <2> QED
    BY <2>3, <2>4, <2>5
<1> QED
  BY <1>1

Loops(w, n, V, a, next) ==
  /\ w \in [0 .. n -> V] /\ w[0] = a
  /\ \A k \in 1 .. n : w[k] = next[<<k, w[k - 1]>>]

LEMMA LoopExists ==
  ASSUME NEW n \in Nat, NEW V, NEW a \in V, NEW next \in [(1 .. n) \X V -> V]
  PROVE  \E w : Loops(w, n, V, a, next)
<1> USE DEF Loops
<1> DEFINE G == {m \in 0 .. n : \E w : Loops(w, m, V, a, next)}
<1>1. 0 \in G
  <2>1. Loops([k \in 0 .. 0 |-> a], 0, V, a, next)
    OBVIOUS
  <2>2. 0 \in 0 .. n
    OBVIOUS
  <2>3. \E w : Loops(w, 0, V, a, next)
    <3> QED
      BY <2>1
  <2> QED
    BY <2>2, <2>3
<1>2. ASSUME NEW m \in 1 .. n, m - 1 \in G PROVE m \in G
  <2>1. PICK w : Loops(w, m - 1, V, a, next)
    BY <1>2
  <2> DEFINE v == [k \in 0 .. m |-> IF k = m THEN next[<<m, w[m - 1]>>] ELSE w[k]]
  <2>2. /\ w \in [0 .. m - 1 -> V] /\ w[0] = a
        /\ \A k \in 1 .. m - 1 : w[k] = next[<<k, w[k - 1]>>]
    BY <2>1
  <2>3. m - 1 \in 0 .. m - 1 /\ w[m - 1] \in V
    BY <2>2
  <2>4. next[<<m, w[m - 1]>>] \in V
    <3>1. <<m, w[m - 1]>> \in (1 .. n) \X V
      BY <2>3
    <3> QED
      BY <3>1
  <2>5. v \in [0 .. m -> V] /\ v[0] = a
    BY <2>2, <2>4
  <2>6. ASSUME NEW k \in 1 .. m PROVE v[k] = next[<<k, v[k - 1]>>]
    <3>1. k - 1 \in 0 .. m /\ k - 1 # m /\ v[k - 1] = w[k - 1]
      OBVIOUS
    <3>2. CASE k = m
      <4>1. v[k] = next[<<m, w[m - 1]>>]
        BY <3>2
      <4> HIDE DEF v
      <4> QED
        BY <3>1, <3>2, <4>1
    <3>3. CASE k # m
      <4>1. v[k] = w[k] /\ k \in 1 .. m - 1
        BY <3>3
      <4> HIDE DEF v
      <4> QED
        BY <2>2, <3>1, <4>1
    <3> QED
      BY <3>2, <3>3
  <2>7. Loops(v, m, V, a, next)
    <3> HIDE DEF v
    <3> QED
      BY <2>5, <2>6
  <2>8. m \in 0 .. n
    OBVIOUS
  <2> QED
    BY <2>7, <2>8
<1>3. 0 .. n \subseteq G
  <2> HIDE DEF G
  <2> QED
    BY <1>1, <1>2, StepByStep
<1> HIDE DEF Loops
<1>4. n \in G
  BY <1>3
<1> QED
  BY <1>4

-----------------------------------------------------------------------------
(* How many sides a set of directions has.                                  *)
One(p) == IF p THEN 1 ELSE 0

LEMMA CountOneMore ==
  ASSUME NEW S, IsFiniteSet(S), NEW x, x \notin S, NEW p \in BOOLEAN,
         NEW U, U = IF p THEN S \cup {x} ELSE S
  PROVE  /\ IsFiniteSet(U) /\ Cardinality(U) = Cardinality(S) + One(p)
         /\ Cardinality(S) \in Nat
<1>1. Cardinality(S) \in Nat
  BY FS_CardinalityType
<1>2. IsFiniteSet(S \cup {x}) /\ Cardinality(S \cup {x}) = Cardinality(S) + 1
  BY FS_AddElement
<1> QED
  BY <1>1, <1>2 DEF One



(* The sides of a set of directions,                                        *)
LEMMA SidesCount ==
  ASSUME NEW S \in SUBSET Directions
  PROVE  /\ IsFiniteSet(S)
         /\ Cardinality(S) = One("e" \in S) + One("w" \in S) + One("n" \in S) + One("s" \in S)
<1> DEFINE A == IF "e" \in S THEN {"e"} ELSE {}
           B == IF "w" \in S THEN A \cup {"w"} ELSE A
           C == IF "n" \in S THEN B \cup {"n"} ELSE B
           D == IF "s" \in S THEN C \cup {"s"} ELSE C
<1>1. D = S
  BY DEF Directions
<1>2. IsFiniteSet({}) /\ Cardinality({}) = 0
  BY FS_EmptySet
<1>3. A = (IF "e" \in S THEN {} \cup {"e"} ELSE {}) /\ "w" \notin A
  OBVIOUS
<1>4. "n" \notin B /\ "s" \notin C
  OBVIOUS
<1>5. IsFiniteSet(A) /\ Cardinality(A) = One("e" \in S)
  <2>1. IsFiniteSet({"e"}) /\ Cardinality({"e"}) = 1
    BY FS_Singleton
  <2> QED
    BY <1>2, <2>1 DEF One
<1> HIDE DEF A
<1>6. IsFiniteSet(B) /\ Cardinality(B) = Cardinality(A) + One("w" \in S)
  <2>1. PICK p \in BOOLEAN : p <=> "w" \in S
    OBVIOUS
  <2>2. B = IF p THEN A \cup {"w"} ELSE A
    BY <2>1
  <2> HIDE DEF B
  <2> QED
    BY <1>3, <1>5, <2>1, <2>2, CountOneMore DEF One
<1> HIDE DEF B
<1>7. IsFiniteSet(C) /\ Cardinality(C) = Cardinality(B) + One("n" \in S)
  <2>1. PICK p \in BOOLEAN : p <=> "n" \in S
    OBVIOUS
  <2>2. C = IF p THEN B \cup {"n"} ELSE B
    BY <2>1
  <2> HIDE DEF C
  <2> QED
    BY <1>4, <1>6, <2>1, <2>2, CountOneMore DEF One
<1> HIDE DEF C
<1>8. IsFiniteSet(D) /\ Cardinality(D) = Cardinality(C) + One("s" \in S)
  <2>1. PICK p \in BOOLEAN : p <=> "s" \in S
    OBVIOUS
  <2>2. D = IF p THEN C \cup {"s"} ELSE C
    BY <2>1
  <2> HIDE DEF D
  <2> QED
    BY <1>4, <1>7, <2>1, <2>2, CountOneMore DEF One
<1> HIDE DEF D
<1> QED
  BY <1>1, <1>5, <1>6, <1>7, <1>8

(* and how many of them come before a side in the order of the code.        *)
Before(S, d) ==
  LET order == <<"e", "w", "n", "s">>
  IN  {k \in 1 .. 4 : order[k] \in S /\ \E l \in k + 1 .. 4 : order[l] = d}

LEMMA BeforeCount ==
  ASSUME NEW S \in SUBSET Directions
  PROVE  /\ Cardinality(Before(S, "e")) = 0
         /\ Cardinality(Before(S, "w")) = One("e" \in S)
         /\ Cardinality(Before(S, "n")) = One("e" \in S) + One("w" \in S)
         /\ Cardinality(Before(S, "s")) = One("e" \in S) + One("w" \in S) + One("n" \in S)
<1> DEFINE A == IF "e" \in S THEN {1} ELSE {}
           B == IF "w" \in S THEN A \cup {2} ELSE A
           C == IF "n" \in S THEN B \cup {3} ELSE B
<1>1. /\ Before(S, "e") = {} /\ Before(S, "w") = A
      /\ Before(S, "n") = B /\ Before(S, "s") = C
  <2> DEFINE order == <<"e", "w", "n", "s">>
  <2>1. order[1] = "e" /\ order[2] = "w" /\ order[3] = "n" /\ order[4] = "s"
    OBVIOUS
  <2>2. \A k \in 1 .. 4 : k = 1 \/ k = 2 \/ k = 3 \/ k = 4
    OBVIOUS
  <2>3. \A d : Before(S, d) = {k \in 1 .. 4 : order[k] \in S /\ \E l \in k + 1 .. 4 : order[l] = d}
    BY DEF Before
  <2> HIDE DEF order
  <2>4. \A k \in 1 .. 4 : \A l \in 1 .. 4 : l \in k + 1 .. 4 <=> k < l
    OBVIOUS
  <2>5. ASSUME NEW k \in 1 .. 4
        PROVE  /\ ~\E l \in k + 1 .. 4 : order[l] = "e"
               /\ (\E l \in k + 1 .. 4 : order[l] = "w") <=> k = 1
               /\ (\E l \in k + 1 .. 4 : order[l] = "n") <=> k = 1 \/ k = 2
               /\ (\E l \in k + 1 .. 4 : order[l] = "s") <=> k = 1 \/ k = 2 \/ k = 3
    <3>1. \A l \in k + 1 .. 4 : l = 2 \/ l = 3 \/ l = 4
      OBVIOUS
    <3>2. /\ 2 \in k + 1 .. 4 <=> k = 1
          /\ 3 \in k + 1 .. 4 <=> k = 1 \/ k = 2
          /\ 4 \in k + 1 .. 4 <=> k = 1 \/ k = 2 \/ k = 3
      OBVIOUS
    <3>3. /\ \A l \in k + 1 .. 4 : order[l] # "e"
          /\ \A l \in k + 1 .. 4 : order[l] = "w" => l = 2
          /\ \A l \in k + 1 .. 4 : order[l] = "n" => l = 3
          /\ \A l \in k + 1 .. 4 : order[l] = "s" => l = 4
      BY <2>1, <3>1
    <3> QED
      BY <2>1, <3>2, <3>3
  <2>6. Before(S, "e") = {}
    BY <2>3, <2>5
  <2>7. Before(S, "w") = A
    BY <2>1, <2>3, <2>5
  <2>8. Before(S, "n") = B
    BY <2>1, <2>3, <2>5
  <2>9. Before(S, "s") = C
    BY <2>1, <2>3, <2>5
  <2> QED
    BY <2>6, <2>7, <2>8, <2>9
<1>2. IsFiniteSet({}) /\ Cardinality({}) = 0
  BY FS_EmptySet
<1>3. A = (IF "e" \in S THEN {} \cup {1} ELSE {}) /\ 2 \notin A /\ 3 \notin B
  OBVIOUS
<1>4. IsFiniteSet(A) /\ Cardinality(A) = One("e" \in S)
  <2>1. PICK p \in BOOLEAN : p <=> "e" \in S
    OBVIOUS
  <2> HIDE DEF A
  <2>2. A = IF p THEN {} \cup {1} ELSE {}
    BY <1>3, <2>1
  <2> QED
    BY <1>2, <2>1, <2>2, CountOneMore DEF One
<1> HIDE DEF A
<1>5. IsFiniteSet(B) /\ Cardinality(B) = Cardinality(A) + One("w" \in S)
  <2>1. PICK p \in BOOLEAN : p <=> "w" \in S
    OBVIOUS
  <2>2. B = IF p THEN A \cup {2} ELSE A
    BY <2>1
  <2> HIDE DEF B
  <2> QED
    BY <1>3, <1>4, <2>1, <2>2, CountOneMore DEF One
<1> HIDE DEF B
<1>6. Cardinality(C) = Cardinality(B) + One("n" \in S)
  <2>1. PICK p \in BOOLEAN : p <=> "n" \in S
    OBVIOUS
  <2>2. C = IF p THEN B \cup {3} ELSE B
    BY <2>1
  <2> HIDE DEF C
  <2> QED
    BY <1>3, <1>5, <2>1, <2>2, CountOneMore DEF One
<1> HIDE DEF C
<1> QED
  BY <1>1, <1>2, <1>4, <1>5, <1>6

(* The shares of a residual are numbers that add up to it.                  *)
LEMMA Divided ==
  ASSUME NEW R \in Nat, NEW n \in Nat \ {0}
  PROVE  \E q \in Nat, r \in 0 .. n - 1 : q = R \div n /\ r = R % n /\ R = n * q + r
<1>1. PICK q \in Int, r \in Int : q = R \div n /\ r = R % n
  OBVIOUS
<1>2. R = n * q + r /\ q \in Nat /\ r \in 0 .. n - 1
  BY <1>1
<1> QED
  BY <1>1, <1>2

LEMMA SharesAdd ==
  ASSUME NEW R \in Nat, NEW S \in SUBSET Directions, S # {}
  PROVE  /\ \A d \in Directions : Share(R, S, d) \in Nat
         /\ R = (IF "e" \in S THEN Share(R, S, "e") ELSE 0)
                + (IF "w" \in S THEN Share(R, S, "w") ELSE 0)
                + (IF "n" \in S THEN Share(R, S, "n") ELSE 0)
                + (IF "s" \in S THEN Share(R, S, "s") ELSE 0)
<1>1. PICK e \in {0, 1}, w \in {0, 1}, n \in {0, 1}, s \in {0, 1} :
        e = One("e" \in S) /\ w = One("w" \in S) /\ n = One("n" \in S) /\ s = One("s" \in S)
  BY DEF One
<1>2. Cardinality(S) = e + w + n + s
  BY <1>1, SidesCount
<1>3. e + w + n + s \in {1, 2, 3, 4}
  <2>1. "e" \in S \/ "w" \in S \/ "n" \in S \/ "s" \in S
    BY DEF Directions
  <2>2. e = 1 \/ w = 1 \/ n = 1 \/ s = 1
    BY <1>1, <2>1 DEF One
  <2> QED
    BY <2>2
<1>4. PICK m \in {1, 2, 3, 4} : m = e + w + n + s
  BY <1>3
<1>5. PICK q \in Nat, r \in 0 .. m - 1 : q = R \div m /\ r = R % m /\ R = m * q + r
  BY Divided
<1>6. ASSUME NEW d \in Directions
      PROVE  Share(R, S, d) = q + One(Cardinality(Before(S, d)) < r)
  <2>1. Share(R, S, d) = R \div m + (IF Cardinality(Before(S, d)) < R % m THEN 1 ELSE 0)
    BY <1>2, <1>4 DEF Share, Before
  <2> QED
    BY <1>5, <2>1 DEF One
<1>7. /\ Share(R, S, "e") = q + One(0 < r)
      /\ Share(R, S, "w") = q + One(e < r)
      /\ Share(R, S, "n") = q + One(e + w < r)
      /\ Share(R, S, "s") = q + One(e + w + n < r)
  BY <1>1, <1>6, BeforeCount DEF Directions
<1>8. \A d \in Directions : Share(R, S, d) \in Nat
  BY <1>6 DEF One
<1>9. R = (IF e = 1 THEN Share(R, S, "e") ELSE 0) + (IF w = 1 THEN Share(R, S, "w") ELSE 0)
          + (IF n = 1 THEN Share(R, S, "n") ELSE 0) + (IF s = 1 THEN Share(R, S, "s") ELSE 0)
  <2>1. CASE m = 1
    <3>1. R = q + r /\ r = 0
      BY <1>5, <2>1
    <3> QED
      BY <1>4, <1>7, <2>1, <3>1 DEF One
  <2>2. CASE m = 2
    <3>1. R = q + q + r /\ r \in {0, 1}
      BY <1>5, <2>2
    <3> QED
      BY <1>4, <1>7, <2>2, <3>1 DEF One
  <2>3. CASE m = 3
    <3>1. R = q + q + q + r /\ r \in {0, 1, 2}
      BY <1>5, <2>3
    <3> QED
      BY <1>4, <1>7, <2>3, <3>1 DEF One
  <2>4. CASE m = 4
    <3>1. R = q + q + q + q + r /\ r \in {0, 1, 2, 3}
      BY <1>5, <2>4
    <3> QED
      BY <1>4, <1>7, <2>4, <3>1 DEF One
  <2> QED
    BY <2>1, <2>2, <2>3, <2>4
<1>10. /\ "e" \in S <=> e = 1
       /\ "w" \in S <=> w = 1
       /\ "n" \in S <=> n = 1
       /\ "s" \in S <=> s = 1
  BY <1>1 DEF One
<1> QED
  BY <1>8, <1>9, <1>10

-----------------------------------------------------------------------------
(* The threshold thickness is not negative.                                 *)
LEMMA MeanType ==
  ASSUME NEW n \in Nat, NEW sumH \in Nat, NEW sumh \in Int, NEW bed \in Int
  PROVE  MeanThickness(n, sumH, sumh, bed) \in Nat
<1>1. CASE n = 0
  BY <1>1 DEF MeanThickness
<1>2. CASE n # 0
  <2>1. AlphaInv \in Nat \ {0}
    BY MaskAssumption
  <2>2. n * AlphaInv \in Nat \ {0}
    BY <1>2, <2>1
  <2>3. sumh - n * AlphaInv * bed \in Int
    BY <2>1
  <2>4. (sumh - n * AlphaInv * bed) \div (n * AlphaInv) \in Int
    BY <2>2, <2>3, QuotientType
  <2>5. sumH \div n \in Nat
    BY <1>2, QuotientType
  <2>6. PICK x \in Int : x = (sumh - n * AlphaInv * bed) \div (n * AlphaInv)
    BY <2>4
  <2>7. MeanThickness(n, sumH, sumh, bed) =
          IF AlphaInv * (n * bed + sumH) > sumh THEN Max0(x) ELSE sumH \div n
    BY <1>2, <2>6 DEF MeanThickness
  <2>8. Max0(x) \in Nat
    BY DEF Max0
  <2> QED
    BY <2>5, <2>7, <2>8
<1> QED
  BY <1>1, <1>2

LEMMA OverType ==
  ASSUME NEW m, NEW c \in Cells
  PROVE  /\ \A v \in [Cells -> Int] : OverNeighbors(m, c, v) \in Int
         /\ \A v \in [Cells -> Nat] : OverNeighbors(m, c, v) \in Nat
<1>1. /\ Neighbor(c, "e") \in Cells /\ Neighbor(c, "w") \in Cells
      /\ Neighbor(c, "n") \in Cells /\ Neighbor(c, "s") \in Cells
  BY Opposites DEF Directions
<1>2. ASSUME NEW v \in [Cells -> Int] PROVE OverNeighbors(m, c, v) \in Int
  <2>1. \A x \in Cells : OverIcy(m, x, v[x]) \in Int
    BY DEF OverIcy
  <2> QED
    BY <1>1, <2>1 DEF OverNeighbors
<1>3. ASSUME NEW v \in [Cells -> Nat] PROVE OverNeighbors(m, c, v) \in Nat
  <2>1. \A x \in Cells : OverIcy(m, x, v[x]) \in Nat
    BY DEF OverIcy
  <2> QED
    BY <1>1, <2>1 DEF OverNeighbors
<1> QED
  BY <1>2, <1>3

LEMMA ThresholdType ==
  ASSUME NEW m, NEW H \in [Cells -> Nat], NEW h \in [Cells -> Int], NEW c \in Cells
  PROVE  ThresholdThickness(m, H, h, c) \in Nat
<1>1. Cardinality({d \in Directions : Icy(m[Neighbor(c, d)])}) \in Nat
  <2>1. IsFiniteSet({d \in Directions : Icy(m[Neighbor(c, d)])})
    BY SidesCount
  <2> QED
    BY <2>1, FS_CardinalityType
<1>2. OverNeighbors(m, c, H) \in Nat /\ OverNeighbors(m, c, h) \in Int /\ Bed[c] \in Int
  BY OverType, BedAssumption
<1> QED
  BY <1>1, <1>2, MeanType DEF ThresholdThickness

-----------------------------------------------------------------------------
(* The geometry.                                                            *)
Geometries == [thk : [Cells -> Nat], href : [Cells -> Nat],
               mask : [Cells -> Types], surf : [Cells -> Int]]

(* What a cell gets in a step, in the terms of massContExplicitStep.        *)
Filling(s, f, c) == Max0(s.href[c] - Div(s, f, c))
Needed(s, c)     == ThresholdThickness(s.mask, s.thk, s.surf, c)
Full(s, f, c)    == PartCell(s, c) /\ Filling(s, f, c) >= Needed(s, c)
Sources(s, f, c) == ~Prescribed(c) /\ (Full(s, f, c) \/ ~IceFreeOcean(s.mask[c]))

NewThickness(s, f, c) ==
  s.thk[c] + (IF Sources(s, f, c) THEN f.smb - f.bmr ELSE 0)
           + (IF Sources(s, f, c) /\ Full(s, f, c) THEN Needed(s, c) ELSE 0)
           - (IF PartCell(s, c) \/ Prescribed(c) THEN 0 ELSE Div(s, f, c))

LEMMA CellUpdateIs ==
  ASSUME NEW s \in Geometries, NEW f \in ForcingType, NEW c \in Cells
  PROVE  /\ s.thk[c] \in Nat /\ s.href[c] \in Nat /\ f.smb \in Int /\ f.bmr \in Int
         /\ Div(s, f, c) \in Int /\ Filling(s, f, c) \in Nat /\ Needed(s, c) \in Nat
         /\ NewThickness(s, f, c) \in Int
         /\ CellUpdate(s, f, c).thk  = Max0(NewThickness(s, f, c))
         /\ CellUpdate(s, f, c).href = IF Full(s, f, c) THEN 0
                                       ELSE IF PartCell(s, c) THEN Filling(s, f, c)
                                       ELSE s.href[c]
         /\ CellUpdate(s, f, c).residual =
              IF Full(s, f, c) THEN Filling(s, f, c) - Needed(s, c) ELSE 0
         /\ CellUpdate(s, f, c).smb = IF Sources(s, f, c) THEN f.smb ELSE 0
         /\ CellUpdate(s, f, c).bmr = IF Sources(s, f, c) THEN f.bmr ELSE 0
         /\ CellUpdate(s, f, c).nonneg =
              Max0(-NewThickness(s, f, c))
                - (IF PartCell(s, c) THEN Max0(Div(s, f, c) - s.href[c]) ELSE 0)
         /\ CellUpdate(s, f, c).divQ =
              IF PartCell(s, c) \/ ~Prescribed(c) THEN Div(s, f, c) ELSE 0
<1>1. /\ s.thk \in [Cells -> Nat] /\ s.href \in [Cells -> Nat] /\ s.surf \in [Cells -> Int]
      /\ f.smb \in Int /\ f.bmr \in Int /\ s.thk[c] \in Nat /\ s.href[c] \in Nat
  BY DEF Geometries, ForcingType
<1>2. PICK div \in Int : div = Div(s, f, c)
  BY <1>1, DivIsNumber
<1>3. s.href[c] - div \in Int
  BY <1>1
<1>4. PICK in \in Nat : in = Filling(s, f, c)
  BY <1>2, <1>3 DEF Max0, Filling
<1>5. PICK T \in Nat : T = Needed(s, c)
  BY <1>1, ThresholdType DEF Needed
<1>6. NewThickness(s, f, c) \in Int
  BY <1>1, <1>2, <1>5 DEF NewThickness
<1>7. CellUpdate(s, f, c) =
        [thk      |-> Max0(NewThickness(s, f, c)),
         href     |-> IF Full(s, f, c) THEN 0 ELSE IF PartCell(s, c) THEN Filling(s, f, c)
                      ELSE s.href[c],
         residual |-> IF Full(s, f, c) THEN Filling(s, f, c) - Needed(s, c) ELSE 0,
         smb      |-> IF Sources(s, f, c) THEN f.smb ELSE 0,
         bmr      |-> IF Sources(s, f, c) THEN f.bmr ELSE 0,
         nonneg   |-> Max0(-NewThickness(s, f, c))
                        - (IF PartCell(s, c) THEN Max0(Div(s, f, c) - s.href[c]) ELSE 0),
         divQ     |-> IF PartCell(s, c) \/ ~Prescribed(c) THEN Div(s, f, c) ELSE 0]
  BY DEF CellUpdate, Filling, Needed, Full, Sources, NewThickness
<1> QED
  BY <1>1, <1>2, <1>4, <1>5, <1>6, <1>7

LEMMA CellUpdateType ==
  ASSUME NEW s \in Geometries, NEW f \in ForcingType, NEW c \in Cells
  PROVE  /\ CellUpdate(s, f, c).thk \in Nat /\ CellUpdate(s, f, c).href \in Nat
         /\ CellUpdate(s, f, c).residual \in Nat /\ CellUpdate(s, f, c).smb \in Int
         /\ CellUpdate(s, f, c).bmr \in Int /\ CellUpdate(s, f, c).nonneg \in Int
         /\ CellUpdate(s, f, c).divQ \in Int
<1>1. \A x \in Int : Max0(x) \in Nat
  BY DEF Max0
<1>2. /\ s.href[c] \in Nat /\ f.smb \in Int /\ f.bmr \in Int
      /\ Div(s, f, c) \in Int /\ Filling(s, f, c) \in Nat /\ Needed(s, c) \in Nat
      /\ NewThickness(s, f, c) \in Int
  BY CellUpdateIs
<1>3. /\ Max0(NewThickness(s, f, c)) \in Nat /\ Max0(-NewThickness(s, f, c)) \in Nat
      /\ Max0(Div(s, f, c) - s.href[c]) \in Nat
  BY <1>1, <1>2
<1>4. Full(s, f, c) => Filling(s, f, c) - Needed(s, c) \in Nat
  BY <1>2 DEF Full
<1> QED
  BY <1>2, <1>3, <1>4, CellUpdateIs

-----------------------------------------------------------------------------
(* The first part of an iteration of the redistribution: what a cell gives  *)
(* to its neighbour in direction d.                                         *)
Gives(m, R, rankOf, x, d) ==
  IF R[x] > 0 /\ d \in OpenSides(m, x) /\ Owns(rankOf, x, Neighbor(x, d))
    THEN Share(R[x], OpenSides(m, x), d) ELSE 0

LEMMA SidesType ==
  ASSUME NEW m, NEW x \in Cells
  PROVE  /\ OpenSides(m, x) \in SUBSET Directions
         /\ \A d \in Directions : d \in OpenSides(m, x) <=> IceFreeOcean(m[Neighbor(x, d)])
BY DEF OpenSides

LEMMA GivesType ==
  ASSUME NEW m, NEW R \in [Cells -> Nat], NEW rankOf, NEW x \in Cells, NEW d \in Directions
  PROVE  Gives(m, R, rankOf, x, d) \in Nat
<1>1. CASE d \in OpenSides(m, x)
  <2>1. OpenSides(m, x) # {} /\ OpenSides(m, x) \in SUBSET Directions
    BY <1>1, SidesType
  <2>2. Share(R[x], OpenSides(m, x), d) \in Nat
    BY <2>1, SharesAdd
  <2> QED
    BY <2>2 DEF Gives
<1>2. CASE d \notin OpenSides(m, x)
  BY <1>2 DEF Gives
<1> QED
  BY <1>1, <1>2

(* What a cell gets from the neighbour in direction d is what that gives in *)
(* the opposite direction.                                                  *)
LEMMA GivenIsReceived ==
  ASSUME NEW m, NEW R, NEW rankOf, NEW c \in Cells, NEW d \in Directions
  PROVE  From(m, R, rankOf, c, d, Neighbor(c, d))
           = Gives(m, R, rankOf, Neighbor(c, d), Opposite[d])
<1>1. Opposite[d] \in Directions /\ Neighbor(c, d) \in Cells
      /\ Neighbor(Neighbor(c, d), Opposite[d]) = c
  <2>1. d \in {"n", "e", "s", "w"}
    BY DEF Directions
  <2>2. /\ Opposite["n"] = "s" /\ Opposite["s"] = "n"
        /\ Opposite["e"] = "w" /\ Opposite["w"] = "e"
    BY DEF Opposite
  <2>3. Opposite[d] \in Directions
    BY <2>1, <2>2 DEF Directions
  <2> QED
    BY <2>1, <2>2, <2>3, Opposites
<1>2. Opposite[d] \in OpenSides(m, Neighbor(c, d)) <=> IceFreeOcean(m[c])
  BY <1>1, SidesType
<1> QED
  BY <1>1, <1>2 DEF From, Gives

LEMMA ReceivedIs ==
  ASSUME NEW m, NEW R \in [Cells -> Nat], NEW rankOf, NEW c \in Cells
  PROVE  /\ \A d \in Directions : Gives(m, R, rankOf, Neighbor(c, d), Opposite[d]) \in Nat
         /\ Received(m, R, rankOf, c)
              = Gives(m, R, rankOf, Neighbor(c, "n"), "s")
                + Gives(m, R, rankOf, Neighbor(c, "e"), "w")
                + Gives(m, R, rankOf, Neighbor(c, "s"), "n")
                + Gives(m, R, rankOf, Neighbor(c, "w"), "e")
         /\ Received(m, R, rankOf, c) \in Nat
         /\ ~IceFreeOcean(m[c]) => Received(m, R, rankOf, c) = 0
<1>1. {"n", "e", "s", "w"} = Directions
  BY DEF Directions
<1>2. /\ Opposite["n"] = "s" /\ Opposite["s"] = "n"
      /\ Opposite["e"] = "w" /\ Opposite["w"] = "e"
  BY DEF Opposite
<1>3. ASSUME NEW d \in Directions
      PROVE  Gives(m, R, rankOf, Neighbor(c, d), Opposite[d]) \in Nat
  <2>1. Neighbor(c, d) \in Cells /\ Opposite[d] \in Directions
    BY <1>1, <1>2, Opposites
  <2> QED
    BY <2>1, GivesType
<1>4. /\ From(m, R, rankOf, c, "n", Neighbor(c, "n")) = Gives(m, R, rankOf, Neighbor(c, "n"), "s")
      /\ From(m, R, rankOf, c, "e", Neighbor(c, "e")) = Gives(m, R, rankOf, Neighbor(c, "e"), "w")
      /\ From(m, R, rankOf, c, "s", Neighbor(c, "s")) = Gives(m, R, rankOf, Neighbor(c, "s"), "n")
      /\ From(m, R, rankOf, c, "w", Neighbor(c, "w")) = Gives(m, R, rankOf, Neighbor(c, "w"), "e")
  BY <1>1, <1>2, GivenIsReceived
<1>5. /\ Gives(m, R, rankOf, Neighbor(c, "n"), "s") \in Nat
      /\ Gives(m, R, rankOf, Neighbor(c, "e"), "w") \in Nat
      /\ Gives(m, R, rankOf, Neighbor(c, "s"), "n") \in Nat
      /\ Gives(m, R, rankOf, Neighbor(c, "w"), "e") \in Nat
  BY <1>1, <1>2, <1>3
<1>6. Received(m, R, rankOf, c)
        = Gives(m, R, rankOf, Neighbor(c, "n"), "s")
          + Gives(m, R, rankOf, Neighbor(c, "e"), "w")
          + Gives(m, R, rankOf, Neighbor(c, "s"), "n")
          + Gives(m, R, rankOf, Neighbor(c, "w"), "e")
  BY <1>4 DEF Received
<1>7. ~IceFreeOcean(m[c]) => Received(m, R, rankOf, c) = 0
  BY DEF Received, From
<1> QED
  BY <1>3, <1>5, <1>6, <1>7

LEMMA FirstStepType ==
  ASSUME NEW H \in [Cells -> Nat], NEW F \in [Cells -> Nat], NEW R \in [Cells -> Nat],
         NEW rankOf
  PROVE  /\ FirstStep(H, F, R, rankOf).thk \in [Cells -> Nat]
         /\ FirstStep(H, F, R, rankOf).href \in [Cells -> Nat]
         /\ \A c \in Cells :
              /\ FirstStep(H, F, R, rankOf).thk[c] =
                   H[c] + IF OpenSides(MaskOf(H), c) = {} THEN R[c] ELSE 0
              /\ FirstStep(H, F, R, rankOf).href[c] = F[c] + Received(MaskOf(H), R, rankOf, c)
              /\ FirstStep(H, F, R, rankOf).href[c] > 0 => F[c] > 0 \/ c \notin Land
<1>1. PICK m : m = MaskOf(H)
  OBVIOUS
<1>2. FirstStep(H, F, R, rankOf) =
        [thk  |-> [c \in Cells |-> H[c] + IF OpenSides(m, c) = {} THEN R[c] ELSE 0],
         href |-> [c \in Cells |-> F[c] + Received(m, R, rankOf, c)]]
  BY <1>1 DEF FirstStep, Distributed
<1>3. ASSUME NEW c \in Cells
      PROVE  /\ H[c] + (IF OpenSides(m, c) = {} THEN R[c] ELSE 0) \in Nat
             /\ F[c] + Received(m, R, rankOf, c) \in Nat
             /\ F[c] + Received(m, R, rankOf, c) > 0 => F[c] > 0 \/ c \notin Land
  <2>1. Received(m, R, rankOf, c) \in Nat /\ (~IceFreeOcean(m[c]) => Received(m, R, rankOf, c) = 0)
    BY ReceivedIs
  <2>2. IceFreeOcean(m[c]) => c \notin Land
    BY <1>1, OceanIsAtSea DEF AtSea, IceFreeOcean, Ocean
  <2> QED
    BY <2>1, <2>2
<1> QED
  BY <1>1, <1>2, <1>3

(* It places what it is given, if no residual is to go to a cell that its   *)
(* processor does not own.                                                  *)
LEMMA FirstStepConserves ==
  ASSUME NEW H \in [Cells -> Nat], NEW F \in [Cells -> Nat], NEW R \in [Cells -> Nat],
         NEW rankOf,
         \A x \in Cells : R[x] > 0 =>
            \A d \in OpenSides(MaskOf(H), x) : Owns(rankOf, x, Neighbor(x, d))
  PROVE  Total(FirstStep(H, F, R, rankOf).thk) + Total(FirstStep(H, F, R, rankOf).href)
           = Total(H) + Total(F) + Total(R)
<1>1. PICK m : m = MaskOf(H)
  OBVIOUS
<1> DEFINE G(d) == [x \in Cells |-> Gives(m, R, rankOf, x, d)]
           I(d) == [c \in Cells |-> Gives(m, R, rankOf, Neighbor(c, Opposite[d]), d)]
           K == [c \in Cells |-> IF OpenSides(m, c) = {} THEN R[c] ELSE 0]
           V == [c \in Cells |-> Received(m, R, rankOf, c)]
           A == [c \in Cells |-> I("s")[c] + I("w")[c]]
           B == [c \in Cells |-> I("n")[c] + I("e")[c]]
           X == [c \in Cells |-> G("s")[c] + G("w")[c]]
           Y == [c \in Cells |-> G("n")[c] + G("e")[c]]
           Z == [c \in Cells |-> X[c] + Y[c]]
<1>2. {"n", "e", "s", "w"} = Directions
  BY DEF Directions
<1>3. /\ Opposite["n"] = "s" /\ Opposite["s"] = "n"
      /\ Opposite["e"] = "w" /\ Opposite["w"] = "e"
      /\ \A d \in Directions : Opposite[d] \in Directions /\ Opposite[Opposite[d]] = d
  BY DEF Opposite, Directions
<1>4. ASSUME NEW d \in Directions
      PROVE  G(d) \in [Cells -> Int] /\ I(d) \in [Cells -> Int] /\ Total(I(d)) = Total(G(d))
  <2>1. G(d) \in [Cells -> Int]
    BY GivesType
  <2>2. ASSUME NEW c \in Cells
        PROVE  Neighbor(c, Opposite[d]) \in Cells /\ I(d)[c] = G(d)[Neighbor(c, Opposite[d])]
    BY <1>3, Opposites
  <2>3. I(d) \in [Cells -> Int]
    <3>1. ASSUME NEW c \in Cells PROVE Gives(m, R, rankOf, Neighbor(c, Opposite[d]), d) \in Int
      <4>1. PICK x \in Cells : x = Neighbor(c, Opposite[d])
        BY <2>2
      <4>2. Gives(m, R, rankOf, x, d) \in Nat
        BY GivesType
      <4> QED
        BY <4>1, <4>2
    <3> QED
      BY <3>1
  <2>4. PICK g \in [Cells -> Int], i \in [Cells -> Int] : g = G(d) /\ i = I(d)
    BY <2>1, <2>3
  <2>5. \A c \in Cells : i[c] = g[Neighbor(c, Opposite[d])]
    BY <2>2, <2>4
  <2>6. Total(i) = Total(g)
    BY <1>3, <2>5, TotalMoved
  <2> QED
    BY <2>1, <2>3, <2>4, <2>6
<1>5. /\ G("n") \in [Cells -> Int] /\ G("e") \in [Cells -> Int]
      /\ G("s") \in [Cells -> Int] /\ G("w") \in [Cells -> Int]
      /\ I("n") \in [Cells -> Int] /\ I("e") \in [Cells -> Int]
      /\ I("s") \in [Cells -> Int] /\ I("w") \in [Cells -> Int]
  BY <1>2, <1>4
<1>6. /\ A \in [Cells -> Int] /\ B \in [Cells -> Int]
      /\ X \in [Cells -> Int] /\ Y \in [Cells -> Int]
  <2> HIDE DEF G, I
  <2> QED
    BY <1>5
<1>7. Z \in [Cells -> Int]
  <2> HIDE DEF X, Y
  <2> QED
    BY <1>6
<1>8. K \in [Cells -> Int] /\ V \in [Cells -> Int]
  <2>1. \A c \in Cells : Received(m, R, rankOf, c) \in Int
    BY ReceivedIs
  <2>2. \A c \in Cells : (IF OpenSides(m, c) = {} THEN R[c] ELSE 0) \in Int
    OBVIOUS
  <2> QED
    BY <2>1, <2>2
<1>9. \A c \in Cells : V[c] = A[c] + B[c]
  <2>1. ASSUME NEW c \in Cells PROVE V[c] = A[c] + B[c]
    <3>1. /\ A[c] = I("s")[c] + I("w")[c] /\ B[c] = I("n")[c] + I("e")[c]
          /\ V[c] = Received(m, R, rankOf, c)
      OBVIOUS
    <3>2. /\ I("s")[c] = Gives(m, R, rankOf, Neighbor(c, "n"), "s")
          /\ I("w")[c] = Gives(m, R, rankOf, Neighbor(c, "e"), "w")
          /\ I("n")[c] = Gives(m, R, rankOf, Neighbor(c, "s"), "n")
          /\ I("e")[c] = Gives(m, R, rankOf, Neighbor(c, "w"), "e")
      BY <1>3
    <3>3. /\ I("s")[c] \in Int /\ I("w")[c] \in Int /\ I("n")[c] \in Int /\ I("e")[c] \in Int
      BY <1>5
    <3> HIDE DEF I, A, B, V
    <3>4. V[c] = I("s")[c] + I("w")[c] + I("n")[c] + I("e")[c]
      BY <3>1, <3>2, ReceivedIs
    <3> QED
      BY <3>1, <3>3, <3>4
  <2> QED
    BY <2>1
<1>10. \A c \in Cells : R[c] = K[c] + Z[c]
  <2>1. ASSUME NEW c \in Cells PROVE R[c] = K[c] + Z[c]
    <3>1. PICK S \in SUBSET Directions : S = OpenSides(m, c)
      BY SidesType
    <3>2. Z[c] = G("s")[c] + G("w")[c] + (G("n")[c] + G("e")[c])
      OBVIOUS
    <3>3. ASSUME NEW d \in Directions
          PROVE  G(d)[c] = IF R[c] > 0 /\ d \in S THEN Share(R[c], S, d) ELSE 0
      BY <1>1, <3>1 DEF Gives
    <3>4. K[c] = IF S = {} THEN R[c] ELSE 0
      BY <3>1
    <3> HIDE DEF G, K, Z
    <3>5. /\ G("e")[c] = IF R[c] > 0 /\ "e" \in S THEN Share(R[c], S, "e") ELSE 0
          /\ G("w")[c] = IF R[c] > 0 /\ "w" \in S THEN Share(R[c], S, "w") ELSE 0
          /\ G("n")[c] = IF R[c] > 0 /\ "n" \in S THEN Share(R[c], S, "n") ELSE 0
          /\ G("s")[c] = IF R[c] > 0 /\ "s" \in S THEN Share(R[c], S, "s") ELSE 0
      BY <1>2, <3>3
    <3>6. CASE S = {}
      BY <3>2, <3>4, <3>5, <3>6
    <3>7. CASE S # {} /\ R[c] = 0
      BY <3>2, <3>4, <3>5, <3>7
    <3>8. CASE S # {} /\ R[c] > 0
      <4>1. /\ \A d \in Directions : Share(R[c], S, d) \in Nat
            /\ R[c] = (IF "e" \in S THEN Share(R[c], S, "e") ELSE 0)
                      + (IF "w" \in S THEN Share(R[c], S, "w") ELSE 0)
                      + (IF "n" \in S THEN Share(R[c], S, "n") ELSE 0)
                      + (IF "s" \in S THEN Share(R[c], S, "s") ELSE 0)
        BY <3>8, SharesAdd
      <4>2. PICK e \in Nat, w \in Nat, n \in Nat, s \in Nat :
              /\ e = (IF "e" \in S THEN Share(R[c], S, "e") ELSE 0)
              /\ w = (IF "w" \in S THEN Share(R[c], S, "w") ELSE 0)
              /\ n = (IF "n" \in S THEN Share(R[c], S, "n") ELSE 0)
              /\ s = (IF "s" \in S THEN Share(R[c], S, "s") ELSE 0)
        BY <1>2, <4>1
      <4>3. G("e")[c] = e /\ G("w")[c] = w /\ G("n")[c] = n /\ G("s")[c] = s
        BY <3>5, <3>8, <4>2
      <4>4. R[c] = e + w + n + s
        BY <4>1, <4>2
      <4>5. K[c] = 0
        BY <3>4, <3>8
      <4> QED
        BY <3>2, <4>3, <4>4, <4>5
    <3> QED
      BY <3>6, <3>7, <3>8
  <2> QED
    BY <2>1
<1>11. /\ Total(I("n")) = Total(G("n")) /\ Total(I("e")) = Total(G("e"))
       /\ Total(I("s")) = Total(G("s")) /\ Total(I("w")) = Total(G("w"))
  BY <1>2, <1>4
<1>12. /\ Total(A) = Total(I("s")) + Total(I("w")) /\ Total(B) = Total(I("n")) + Total(I("e"))
       /\ Total(X) = Total(G("s")) + Total(G("w")) /\ Total(Y) = Total(G("n")) + Total(G("e"))
  <2>1. \A c \in Cells : /\ A[c] = I("s")[c] + I("w")[c] /\ B[c] = I("n")[c] + I("e")[c]
                         /\ X[c] = G("s")[c] + G("w")[c] /\ Y[c] = G("n")[c] + G("e")[c]
    OBVIOUS
  <2> HIDE DEF A, B, X, Y, I, G
  <2>2. Total(A) = Total(I("s")) + Total(I("w"))
    BY <1>5, <1>6, <2>1, SumPlus DEF Total
  <2>3. Total(B) = Total(I("n")) + Total(I("e"))
    BY <1>5, <1>6, <2>1, SumPlus DEF Total
  <2>4. Total(X) = Total(G("s")) + Total(G("w"))
    BY <1>5, <1>6, <2>1, SumPlus DEF Total
  <2>5. Total(Y) = Total(G("n")) + Total(G("e"))
    BY <1>5, <1>6, <2>1, SumPlus DEF Total
  <2> QED
    BY <2>2, <2>3, <2>4, <2>5
<1>13. Total(Z) = Total(X) + Total(Y)
  <2>1. \A c \in Cells : Z[c] = X[c] + Y[c]
    OBVIOUS
  <2> HIDE DEF X, Y, Z
  <2> QED
    BY <1>6, <1>7, <2>1, SumPlus DEF Total
<1> HIDE DEF A, B, X, Y, Z, I, G, K, V
<1>14. Total(V) = Total(A) + Total(B)
  BY <1>6, <1>8, <1>9, SumPlus DEF Total
<1>15. Total(R) = Total(K) + Total(Z)
  BY <1>7, <1>8, <1>10, SumPlus DEF Total
<1>16. PICK T \in [Cells -> Int] : T = FirstStep(H, F, R, rankOf).thk
  BY FirstStepType
<1>17. PICK U \in [Cells -> Int] : U = FirstStep(H, F, R, rankOf).href
  BY FirstStepType
<1>18. Total(T) = Total(H) + Total(K)
  <2>1. \A c \in Cells : T[c] = H[c] + K[c]
    BY <1>1, <1>16, FirstStepType DEF K
  <2> QED
    BY <1>8, <2>1, SumPlus DEF Total
<1>19. Total(U) = Total(F) + Total(V)
  <2>1. \A c \in Cells : U[c] = F[c] + V[c]
    BY <1>1, <1>17, FirstStepType DEF V
  <2> QED
    BY <1>8, <2>1, SumPlus DEF Total
<1>20. /\ Total(I("n")) \in Int /\ Total(I("e")) \in Int
       /\ Total(I("s")) \in Int /\ Total(I("w")) \in Int
       /\ Total(H) \in Int /\ Total(F) \in Int /\ Total(K) \in Int
  BY <1>5, <1>8, SumType DEF Total
<1>21. Total(T) + Total(U) = Total(H) + Total(F) + Total(R)
  BY <1>11, <1>12, <1>13, <1>14, <1>15, <1>18, <1>19, <1>20
<1> QED
  BY <1>16, <1>17, <1>21

-----------------------------------------------------------------------------
(* The second part: the cells in the order of Points.                       *)
LEMMA Factors ==
  ASSUME NEW a \in Nat, NEW b \in Nat, NEW m \in Nat, a >= b
  PROVE  m * a >= m * b
<1>1. PICK d \in Nat : a = b + d
  <2>1. a - b \in Nat /\ a = b + (a - b)
    OBVIOUS
  <2> QED
    BY <2>1
<1>2. m * a = m * b + m * d /\ m * d \in Nat /\ m * b \in Nat
  BY <1>1
<1> QED
  BY <1>2

LEMMA CellAtType ==
  ASSUME NEW k \in 1 .. Mx * My
  PROVE  CellAt(k) \in Cells /\ Mx * My \in Nat
<1>1. Mx \in Nat /\ My \in Nat \ {0} /\ Mx * My \in Nat
  BY GridAssumption
<1>2. k - 1 \in Nat /\ k - 1 < Mx * My
  BY <1>1
<1>3. PICK q \in Nat, r \in 0 .. My - 1 :
        q = (k - 1) \div My /\ r = (k - 1) % My /\ k - 1 = My * q + r
  BY <1>1, <1>2, Divided
<1>4. q < Mx
  <2> SUFFICES ASSUME q >= Mx PROVE FALSE
    BY <1>1
  <2>1. My * q >= My * Mx
    BY <1>1, Factors
  <2>2. My * Mx = Mx * My
    BY <1>1
  <2>3. PICK p \in Nat : p = My * q
    BY <1>1
  <2>4. PICK t \in Nat : t = Mx * My
    BY <1>1
  <2> QED
    BY <1>2, <1>3, <2>1, <2>2, <2>3, <2>4
<1>5. q \in 0 .. Mx - 1
  BY <1>1, <1>4
<1>6. CellAt(k) = <<q, r>>
  BY <1>3 DEF CellAt
<1> QED
  BY <1>1, <1>5, <1>6 DEF Cells

(* The geometry with the residual that an iteration works on, and what it   *)
(* can become: ice and residual come from href, cell by cell.               *)
Workings == [thk : [Cells -> Nat], href : [Cells -> Nat], residual : [Cells -> Nat],
             mask : [Cells -> Types], surf : [Cells -> Int]]

FilledFrom(g) ==
  {v \in Workings :
     /\ v.mask = g.mask /\ v.surf = g.surf
     /\ \A c \in Cells :
          /\ v.thk[c] + v.href[c] + v.residual[c] = g.thk[c] + g.href[c] + g.residual[c]
          /\ v.residual[c] # 0 => v.href[c] = 0 /\ g.href[c] > 0
          /\ v.href[c] \in {0, g.href[c]}}

LEMMA FillCellKeeps ==
  ASSUME NEW g \in Workings, NEW v \in FilledFrom(g), NEW x \in Cells, NEW rankOf
  PROVE  FillCell(v, g.thk, x, rankOf) \in FilledFrom(g)
<1>1. /\ v \in Workings /\ v.thk \in [Cells -> Nat] /\ v.href \in [Cells -> Nat]
      /\ v.residual \in [Cells -> Nat] /\ v.surf \in [Cells -> Int]
      /\ g.thk \in [Cells -> Nat] /\ g.href \in [Cells -> Nat] /\ g.residual \in [Cells -> Nat]
      /\ v.mask = g.mask /\ v.surf = g.surf
  BY DEF FilledFrom, Workings
<1>2. \A c \in Cells :
        /\ v.thk[c] + v.href[c] + v.residual[c] = g.thk[c] + g.href[c] + g.residual[c]
        /\ v.residual[c] # 0 => v.href[c] = 0 /\ g.href[c] > 0
        /\ v.href[c] \in {0, g.href[c]}
  BY DEF FilledFrom
<1> DEFINE seen == [y \in Cells |-> IF Owns(rankOf, x, y) THEN v.thk[y] ELSE g.thk[y]]
<1>3. PICK T \in Nat : T = ThresholdThickness(v.mask, seen, v.surf, x)
  <2>1. seen \in [Cells -> Nat]
    BY <1>1
  <2> HIDE DEF seen
  <2> QED
    BY <1>1, <2>1, ThresholdType
<1>4. CASE v.href[x] = 0 \/ v.href[x] < T
  <2>1. FillCell(v, g.thk, x, rankOf) = v
    BY <1>3, <1>4 DEF FillCell
  <2> QED
    BY <2>1
<1>5. CASE ~(v.href[x] = 0 \/ v.href[x] < T)
  <2> DEFINE w == [v EXCEPT !.thk[x] = @ + T, !.href[x] = 0, !.residual[x] = v.href[x] - T]
  <2>1. FillCell(v, g.thk, x, rankOf) = w
    BY <1>3, <1>5 DEF FillCell
  <2>2. v.href[x] \in Nat /\ v.thk[x] \in Nat /\ v.href[x] - T \in Nat /\ v.href[x] > 0
    BY <1>1, <1>3, <1>5
  <2>3. PICK a \in [Cells -> Nat] : a = [v.thk EXCEPT ![x] = @ + T]
    <3>1. PICK e \in Nat : e = v.thk[x] + T
      BY <2>2
    <3>2. [v.thk EXCEPT ![x] = e] \in [Cells -> Nat]
      BY <1>1
    <3> QED
      BY <3>1, <3>2
  <2>4. PICK b \in [Cells -> Nat] : b = [v.href EXCEPT ![x] = 0]
    BY <1>1
  <2>5. PICK r \in [Cells -> Nat] : r = [v.residual EXCEPT ![x] = v.href[x] - T]
    BY <1>1, <2>2
  <2>6. /\ w \in Workings /\ w.thk = a /\ w.href = b /\ w.residual = r
        /\ w.mask = v.mask /\ w.surf = v.surf
    BY <1>1, <2>3, <2>4, <2>5 DEF Workings
  <2>7. ASSUME NEW c \in Cells
        PROVE  /\ a[c] + b[c] + r[c] = g.thk[c] + g.href[c] + g.residual[c]
               /\ r[c] # 0 => b[c] = 0 /\ g.href[c] > 0
               /\ b[c] \in {0, g.href[c]}
    <3>1. CASE c = x
      <4>1. a[c] = v.thk[c] + T /\ b[c] = 0 /\ r[c] = v.href[c] - T
        BY <1>1, <2>3, <2>4, <2>5, <3>1
      <4>2. v.residual[c] = 0 /\ v.href[c] = g.href[c]
        BY <1>2, <2>2, <3>1
      <4>3. v.thk[c] + v.href[c] + v.residual[c] = g.thk[c] + g.href[c] + g.residual[c]
        BY <1>2
      <4>4. v.thk[c] \in Nat /\ v.href[c] \in Nat /\ g.thk[c] \in Nat /\ g.residual[c] \in Nat
        BY <1>1
      <4> QED
        BY <2>2, <3>1, <4>1, <4>2, <4>3, <4>4
    <3>2. CASE c # x
      <4>1. a[c] = v.thk[c] /\ b[c] = v.href[c] /\ r[c] = v.residual[c]
        BY <1>1, <2>3, <2>4, <2>5, <3>2
      <4> QED
        BY <1>2, <4>1
    <3> QED
      BY <3>1, <3>2
  <2> HIDE DEF w
  <2>8. w \in FilledFrom(g)
    BY <1>1, <2>6, <2>7 DEF FilledFrom
  <2> QED
    BY <2>1, <2>8
<1> QED
  BY <1>4, <1>5

LEMMA SecondStepFills ==
  ASSUME NEW g \in Workings, \A c \in Cells : g.residual[c] = 0, NEW rankOf
  PROVE  SecondStep(g, rankOf) \in FilledFrom(g)
<1>1. PICK N \in Nat : N = Mx * My
  BY GridAssumption
<1>2. PICK V : V = FilledFrom(g)
  OBVIOUS
<1>3. g \in V
  BY <1>2 DEF FilledFrom, Workings
<1>4. \A k \in 1 .. N : \A v \in V : FillCell(v, g.thk, CellAt(k), rankOf) \in V
  BY <1>1, <1>2, CellAtType, FillCellKeeps
<1>5. PICK next \in [(1 .. N) \X V -> V] :
        \A k \in 1 .. N : \A v \in V : next[<<k, v>>] = FillCell(v, g.thk, CellAt(k), rankOf)
  <2> DEFINE f == [kv \in (1 .. N) \X V |-> FillCell(kv[2], g.thk, CellAt(kv[1]), rankOf)]
  <2>1. f \in [(1 .. N) \X V -> V]
    BY <1>4
  <2>2. \A k \in 1 .. N : \A v \in V : f[<<k, v>>] = FillCell(v, g.thk, CellAt(k), rankOf)
    OBVIOUS
  <2> HIDE DEF f
  <2> QED
    BY <2>1, <2>2
<1>6. PICK w : /\ w \in [0 .. N -> V] /\ w[0] = g
               /\ \A k \in 1 .. N : w[k] = next[<<k, w[k - 1]>>]
  <2>1. \E w : Loops(w, N, V, g, next)
    BY <1>3, LoopExists
  <2> QED
    BY <2>1 DEF Loops
<1> DEFINE Walk(x) == x = [k \in 0 .. N |-> IF k = 0 THEN g
                             ELSE FillCell(x[k - 1], g.thk, CellAt(k), rankOf)]
           walk == CHOOSE x : Walk(x)
<1>7. Walk(w)
  <2>1. ASSUME NEW k \in 0 .. N
        PROVE  w[k] = IF k = 0 THEN g ELSE FillCell(w[k - 1], g.thk, CellAt(k), rankOf)
    <3>1. CASE k = 0
      BY <1>6, <3>1
    <3>2. CASE k # 0
      <4>1. k \in 1 .. N /\ k - 1 \in 0 .. N
        BY <3>2
      <4>2. w[k - 1] \in V /\ w[k] = next[<<k, w[k - 1]>>]
        BY <1>6, <4>1
      <4> QED
        BY <1>5, <3>2, <4>1, <4>2
    <3> QED
      BY <3>1, <3>2
  <2> QED
    BY <1>6, <2>1
<1>8. Walk(walk)
  <2> HIDE DEF Walk
  <2> QED
    BY <1>7
<1>9. SecondStep(g, rankOf) = walk[N]
  BY <1>1 DEF SecondStep
<1> DEFINE Good == {k \in 0 .. N : walk[k] \in V}
<1>10. 0 \in Good
  <2>1. walk[0] = g
    <3> HIDE DEF walk
    <3> QED
      BY <1>8
  <2> HIDE DEF walk
  <2> QED
    BY <1>3, <2>1
<1>11. ASSUME NEW k \in 1 .. N, k - 1 \in Good PROVE k \in Good
  <2>1. k \in 0 .. N /\ k # 0
    OBVIOUS
  <2>2. walk[k] = FillCell(walk[k - 1], g.thk, CellAt(k), rankOf)
    <3> HIDE DEF walk
    <3> QED
      BY <1>8, <2>1
  <2>3. walk[k - 1] \in V
    BY <1>11
  <2> HIDE DEF walk
  <2>4. walk[k] \in V
    BY <1>4, <2>2, <2>3
  <2> QED
    BY <2>1, <2>4
<1>12. 0 .. N \subseteq Good
  <2> HIDE DEF Good
  <2> QED
    BY <1>10, <1>11, StepByStep
<1>13. N \in 0 .. N
  OBVIOUS
<1> QED
  BY <1>2, <1>9, <1>12, <1>13

(* An iteration of the redistribution.                                      *)
LEMMA WithTypesIs ==
  ASSUME NEW H \in [Cells -> Nat], NEW F \in [Cells -> Nat], NEW R \in [Cells -> Nat],
         NEW rankOf
  PROVE  /\ WithTypes(FirstStep(H, F, R, rankOf)) \in Workings
         /\ WithTypes(FirstStep(H, F, R, rankOf)).thk = FirstStep(H, F, R, rankOf).thk
         /\ WithTypes(FirstStep(H, F, R, rankOf)).href = FirstStep(H, F, R, rankOf).href
         /\ WithTypes(FirstStep(H, F, R, rankOf)).mask = MaskOf(FirstStep(H, F, R, rankOf).thk)
         /\ \A c \in Cells : WithTypes(FirstStep(H, F, R, rankOf)).residual[c] = 0
<1>1. PICK T \in [Cells -> Nat] : T = FirstStep(H, F, R, rankOf).thk
  BY FirstStepType
<1>2. PICK U \in [Cells -> Nat] : U = FirstStep(H, F, R, rankOf).href
  BY FirstStepType
<1>3. WithTypes(FirstStep(H, F, R, rankOf)) =
        [thk |-> T, href |-> U, residual |-> [c \in Cells |-> 0],
         mask |-> MaskOf(T), surf |-> SurfaceElev(T)]
  BY <1>1, <1>2 DEF WithTypes
<1>4. MaskOf(T) \in [Cells -> Types] /\ SurfaceElev(T) \in [Cells -> Int]
  BY MaskType
<1> QED
  BY <1>1, <1>2, <1>3, <1>4 DEF Workings

LEMMA IterationIs ==
  ASSUME NEW H \in [Cells -> Nat], NEW F \in [Cells -> Nat], NEW R \in [Cells -> Nat],
         NEW rankOf, NEW r, r = RedistributionIteration(H, F, R, rankOf)
  PROVE  /\ r \in Workings
         /\ AtSea(r.mask)
         /\ \A c \in Cells :
              /\ r.href[c] > 0 => F[c] > 0 \/ c \notin Land
              /\ r.residual[c] > 0 => F[c] > 0 \/ c \notin Land
              /\ r.thk[c] + r.href[c] + r.residual[c] =
                   FirstStep(H, F, R, rankOf).thk[c] + FirstStep(H, F, R, rankOf).href[c]
<1>1. PICK g \in Workings : g = WithTypes(FirstStep(H, F, R, rankOf))
  BY WithTypesIs
<1>2. /\ g.thk = FirstStep(H, F, R, rankOf).thk /\ g.href = FirstStep(H, F, R, rankOf).href
      /\ g.mask = MaskOf(FirstStep(H, F, R, rankOf).thk)
      /\ \A c \in Cells : g.residual[c] = 0
  BY <1>1, WithTypesIs
<1>3. r \in FilledFrom(g)
  BY <1>1, <1>2, SecondStepFills DEF RedistributionIteration
<1>4. r \in Workings /\ r.mask = g.mask
  BY <1>3 DEF FilledFrom
<1>5. AtSea(r.mask)
  BY <1>2, <1>4, OceanIsAtSea, FirstStepType
<1>6. ASSUME NEW c \in Cells
      PROVE  /\ r.href[c] > 0 => F[c] > 0 \/ c \notin Land
             /\ r.residual[c] > 0 => F[c] > 0 \/ c \notin Land
             /\ r.thk[c] + r.href[c] + r.residual[c] = g.thk[c] + g.href[c]
  <2>1. /\ r.thk[c] + r.href[c] + r.residual[c] = g.thk[c] + g.href[c] + g.residual[c]
        /\ r.residual[c] # 0 => g.href[c] > 0
        /\ r.href[c] \in {0, g.href[c]}
    BY <1>3 DEF FilledFrom
  <2>2. g.href[c] > 0 => F[c] > 0 \/ c \notin Land
    BY <1>2, FirstStepType
  <2>3. g.thk[c] \in Nat /\ g.href[c] \in Nat /\ r.href[c] \in Nat /\ r.residual[c] \in Nat
    BY <1>4 DEF Workings
  <2> QED
    BY <1>2, <2>1, <2>2, <2>3
<1> QED
  BY <1>2, <1>4, <1>5, <1>6

(* Its totals.                                                              *)
LEMMA IterationConserves ==
  ASSUME NEW H \in [Cells -> Nat], NEW F \in [Cells -> Nat], NEW R \in [Cells -> Nat],
         NEW rankOf, NEW r, r = RedistributionIteration(H, F, R, rankOf),
         \A x \in Cells : R[x] > 0 =>
            \A d \in OpenSides(MaskOf(H), x) : Owns(rankOf, x, Neighbor(x, d))
  PROVE  Total(r.thk) + Total(r.href) + Total(r.residual) = Total(H) + Total(F) + Total(R)
<1>1. PICK T \in [Cells -> Nat] : T = FirstStep(H, F, R, rankOf).thk
  BY FirstStepType
<1>2. PICK U \in [Cells -> Nat] : U = FirstStep(H, F, R, rankOf).href
  BY FirstStepType
<1>3. Total(T) + Total(U) = Total(H) + Total(F) + Total(R)
  BY <1>1, <1>2, FirstStepConserves
<1>4. /\ r.thk \in [Cells -> Nat] /\ r.href \in [Cells -> Nat] /\ r.residual \in [Cells -> Nat]
  BY IterationIs DEF Workings
<1>5. \A c \in Cells : r.thk[c] + r.href[c] + r.residual[c] = T[c] + U[c]
  BY <1>1, <1>2, IterationIs
<1>6. PICK f \in [Cells -> Int], g \in [Cells -> Int], h \in [Cells -> Int] :
        f = r.thk /\ g = r.href /\ h = r.residual
  BY <1>4
<1>7. PICK x : x = [c \in Cells |-> f[c] + g[c]]
  OBVIOUS
<1>8. PICK y : y = [c \in Cells |-> T[c] + U[c]]
  OBVIOUS
<1>9. x \in [Cells -> Int] /\ y \in [Cells -> Int] /\ T \in [Cells -> Int] /\ U \in [Cells -> Int]
  BY <1>7, <1>8
<1>10. Total(x) = Total(f) + Total(g)
  <2>1. \A c \in Cells : x[c] = f[c] + g[c]
    BY <1>7
  <2> QED
    BY <1>9, <2>1, SumPlus DEF Total
<1>11. Total(y) = Total(T) + Total(U)
  <2>1. \A c \in Cells : y[c] = T[c] + U[c]
    BY <1>8
  <2> QED
    BY <1>9, <2>1, SumPlus DEF Total
<1>12. Total(y) = Total(x) + Total(h)
  <2>1. \A c \in Cells : y[c] = x[c] + h[c]
    BY <1>5, <1>6, <1>7, <1>8
  <2> QED
    BY <1>9, <2>1, SumPlus DEF Total
<1> QED
  BY <1>3, <1>6, <1>10, <1>11, <1>12

-----------------------------------------------------------------------------
(* Icebergs.  within are the cells that are reached from the anchored ones. *)
Near(S) == UNION {Around(c) : c \in S}

Reaches(within, icy, anchored) ==
  /\ within \in [0 .. Mx * My -> SUBSET Cells] /\ within[0] = anchored
  /\ \A k \in 1 .. Mx * My : within[k] = within[k - 1] \cup (icy \cap Near(within[k - 1]))

LEMMA DetachedIs ==
  ASSUME NEW icy \in SUBSET Cells, NEW anchored \in SUBSET Cells
  PROVE  \E within : /\ Reaches(within, icy, anchored)
                     /\ Detached(icy, anchored) = icy \ within[Mx * My]
<1>1. PICK N \in Nat : N = Mx * My
  BY GridAssumption
<1>2. PICK V : V = SUBSET Cells
  OBVIOUS
<1>3. PICK next \in [(1 .. N) \X V -> V] :
        \A k \in 1 .. N : \A S \in V : next[<<k, S>>] = S \cup (icy \cap Near(S))
  <2> DEFINE f == [kS \in (1 .. N) \X V |-> kS[2] \cup (icy \cap Near(kS[2]))]
  <2>1. f \in [(1 .. N) \X V -> V]
    <3>1. ASSUME NEW kS \in (1 .. N) \X V PROVE kS[2] \cup (icy \cap Near(kS[2])) \in V
      <4>1. kS[2] \in V
        OBVIOUS
      <4>2. PICK S \in V : S = kS[2]
        BY <4>1
      <4>3. S \cup (icy \cap Near(S)) \in V
        BY <1>2
      <4> QED
        BY <4>2, <4>3
    <3> QED
      BY <3>1
  <2>2. \A k \in 1 .. N : \A S \in V : f[<<k, S>>] = S \cup (icy \cap Near(S))
    OBVIOUS
  <2> HIDE DEF f
  <2> QED
    BY <2>1, <2>2
<1>4. anchored \in V
  BY <1>2
<1>5. PICK w : /\ w \in [0 .. N -> V] /\ w[0] = anchored
               /\ \A k \in 1 .. N : w[k] = next[<<k, w[k - 1]>>]
  <2>1. \E w : Loops(w, N, V, anchored, next)
    BY <1>4, LoopExists
  <2> QED
    BY <2>1 DEF Loops
<1> DEFINE Walk(x) == x = [k \in 0 .. N |-> IF k = 0 THEN anchored
                             ELSE x[k - 1] \cup (icy \cap Near(x[k - 1]))]
           walk == CHOOSE x : Walk(x)
<1>6. Walk(w)
  <2>1. ASSUME NEW k \in 0 .. N
        PROVE  w[k] = IF k = 0 THEN anchored ELSE w[k - 1] \cup (icy \cap Near(w[k - 1]))
    <3>1. CASE k = 0
      BY <1>5, <3>1
    <3>2. CASE k # 0
      <4>1. k \in 1 .. N /\ k - 1 \in 0 .. N
        BY <3>2
      <4>2. w[k - 1] \in V /\ w[k] = next[<<k, w[k - 1]>>]
        BY <1>5, <4>1
      <4> QED
        BY <1>3, <3>2, <4>1, <4>2
    <3> QED
      BY <3>1, <3>2
  <2> QED
    BY <1>5, <2>1
<1>7. Walk(walk)
  <2> HIDE DEF Walk
  <2> QED
    BY <1>6
<1>8. Detached(icy, anchored) = icy \ walk[N]
  BY <1>1 DEF Detached, Near
<1>9. walk \in [0 .. N -> SUBSET Cells]
  <2> DEFINE Good == {k \in 0 .. N : walk[k] \in V}
  <2>1. 0 \in Good
    <3>1. walk[0] = anchored
      <4> HIDE DEF walk
      <4> QED
        BY <1>7
    <3> HIDE DEF walk
    <3> QED
      BY <1>4, <3>1
  <2>2. ASSUME NEW k \in 1 .. N, k - 1 \in Good PROVE k \in Good
    <3>1. k \in 0 .. N /\ k # 0
      OBVIOUS
    <3>2. walk[k] = walk[k - 1] \cup (icy \cap Near(walk[k - 1]))
      <4> HIDE DEF walk
      <4> QED
        BY <1>7, <3>1
    <3>3. walk[k - 1] \in V
      BY <2>2
    <3> HIDE DEF walk
    <3> QED
      BY <1>2, <3>1, <3>2, <3>3
  <2>3. 0 .. N \subseteq Good
    <3> HIDE DEF Good
    <3> QED
      BY <2>1, <2>2, StepByStep
  <2> HIDE DEF walk
  <2> QED
    BY <1>2, <1>7, <2>3
<1>10. Reaches(walk, icy, anchored)
  <2>1. ASSUME NEW k \in 1 .. N
        PROVE  walk[k] = walk[k - 1] \cup (icy \cap Near(walk[k - 1]))
    <3>1. k \in 0 .. N /\ k # 0
      OBVIOUS
    <3> HIDE DEF walk
    <3> QED
      BY <1>7, <3>1
  <2>2. walk[0] = anchored
    <3> HIDE DEF walk
    <3> QED
      BY <1>7
  <2> HIDE DEF walk
  <2> QED
    BY <1>1, <1>9, <2>1, <2>2 DEF Reaches
<1> HIDE DEF walk
<1> QED
  BY <1>1, <1>8, <1>10

(* The cells that are reached become more.                                  *)
LEMMA ReachesMore ==
  ASSUME NEW icy \in SUBSET Cells, NEW anchored \in SUBSET Cells,
         NEW within, Reaches(within, icy, anchored)
  PROVE  /\ \A k \in 0 .. Mx * My : within[k] \subseteq within[Mx * My]
         /\ within[Mx * My] \in SUBSET Cells
<1>1. PICK N \in Nat : N = Mx * My
  BY GridAssumption
<1>2. /\ within \in [0 .. N -> SUBSET Cells]
      /\ \A k \in 1 .. N : within[k - 1] \subseteq within[k]
  BY <1>1 DEF Reaches
<1> DEFINE Good == {k \in 0 .. N : within[N - k] \subseteq within[N]}
<1>3. 0 \in Good
  OBVIOUS
<1>4. ASSUME NEW k \in 1 .. N, k - 1 \in Good PROVE k \in Good
  <2>1. N - (k - 1) \in 1 .. N /\ (N - (k - 1)) - 1 = N - k
    OBVIOUS
  <2>2. within[N - k] \subseteq within[N - (k - 1)]
    BY <1>2, <2>1
  <2> QED
    BY <1>4, <2>2
<1>5. 0 .. N \subseteq Good
  <2> HIDE DEF Good
  <2> QED
    BY <1>3, <1>4, StepByStep
<1>6. ASSUME NEW k \in 0 .. N PROVE within[k] \subseteq within[N]
  <2>1. N - k \in 0 .. N /\ N - (N - k) = k
    OBVIOUS
  <2>2. N - k \in Good
    BY <1>5, <2>1
  <2>3. within[N - (N - k)] \subseteq within[N]
    BY <2>2
  <2> QED
    BY <2>1, <2>3
<1>7. within[N] \in SUBSET Cells
  BY <1>2
<1> QED
  BY <1>1, <1>6, <1>7

LEMMA DetachedApart ==
  ASSUME NEW icy \in SUBSET Cells, NEW anchored \in SUBSET Cells
  PROVE  Detached(icy, anchored) \subseteq icy \ anchored
<1>1. PICK within : /\ Reaches(within, icy, anchored)
                    /\ Detached(icy, anchored) = icy \ within[Mx * My]
  BY DetachedIs
<1>2. 0 \in 0 .. Mx * My
  BY GridAssumption
<1>3. anchored \subseteq within[Mx * My]
  BY <1>1, <1>2, ReachesMore DEF Reaches
<1> QED
  BY <1>1, <1>3

(* Without the detached cells none is detached, nor if more are anchored.   *)
LEMMA NothingDetached ==
  ASSUME NEW icy \in SUBSET Cells, NEW anchored \in SUBSET Cells,
         NEW some, some \in SUBSET Cells, anchored \subseteq some
  PROVE  Detached(icy \ Detached(icy, anchored), some) = {}
<1>1. PICK w : /\ Reaches(w, icy, anchored)
               /\ Detached(icy, anchored) = icy \ w[Mx * My]
  BY DetachedIs
<1>2. PICK left \in SUBSET Cells : left = icy \ Detached(icy, anchored)
  OBVIOUS
<1>3. PICK v : /\ Reaches(v, left, some)
               /\ Detached(left, some) = left \ v[Mx * My]
  BY DetachedIs
<1>4. PICK N \in Nat : N = Mx * My
  BY GridAssumption
<1>5. /\ w \in [0 .. N -> SUBSET Cells] /\ w[0] = anchored
      /\ \A k \in 1 .. N : w[k] = w[k - 1] \cup (icy \cap Near(w[k - 1]))
      /\ v \in [0 .. N -> SUBSET Cells] /\ v[0] = some
      /\ \A k \in 1 .. N : v[k] = v[k - 1] \cup (left \cap Near(v[k - 1]))
  BY <1>1, <1>3, <1>4 DEF Reaches
<1>6. \A k \in 0 .. N : w[k] \subseteq w[N]
  BY <1>1, <1>4, ReachesMore
<1> DEFINE Good == {k \in 0 .. N : w[k] \subseteq v[k]}
<1>7. 0 \in Good
  BY <1>5
<1>8. ASSUME NEW k \in 1 .. N, k - 1 \in Good PROVE k \in Good
  <2>1. k \in 0 .. N /\ k - 1 \in 0 .. N
    OBVIOUS
  <2>2. w[k - 1] \subseteq v[k - 1]
    BY <1>8
  <2>3. Near(w[k - 1]) \subseteq Near(v[k - 1])
    BY <2>2 DEF Near
  <2>4. icy \cap Near(w[k - 1]) \subseteq left
    <3>1. icy \cap Near(w[k - 1]) \subseteq w[N]
      BY <1>5, <1>6, <2>1
    <3> QED
      BY <1>1, <1>2, <1>4, <3>1
  <2>5. w[k] = w[k - 1] \cup (icy \cap Near(w[k - 1]))
        /\ v[k] = v[k - 1] \cup (left \cap Near(v[k - 1]))
    BY <1>5
  <2>6. w[k] \subseteq v[k]
    BY <2>2, <2>3, <2>4, <2>5
  <2> QED
    BY <2>1, <2>6
<1>9. 0 .. N \subseteq Good
  <2> HIDE DEF Good
  <2> QED
    BY <1>7, <1>8, StepByStep
<1>10. N \in 0 .. N
  OBVIOUS
<1>11. w[N] \subseteq v[N]
  BY <1>9, <1>10
<1> QED
  BY <1>1, <1>2, <1>3, <1>4, <1>11

-----------------------------------------------------------------------------
(* The update of mask and surface.                                          *)
LEMMA IcebergsFloat ==
  ASSUME NEW H \in [Cells -> Nat]
  PROVE  /\ Icebergs(MaskOf(H)) \in SUBSET Cells
         /\ \A c \in Icebergs(MaskOf(H)) : Floats(c, H[c]) /\ H[c] >= IceFreeThickness
<1>1. PICK icy \in SUBSET Cells : icy = {c \in Cells : Icy(MaskOf(H)[c])}
  OBVIOUS
<1>2. PICK anchored \in SUBSET Cells :
        anchored = {c \in Cells : \/ GroundedIce(MaskOf(H)[c])
                                  \/ Icy(MaskOf(H)[c]) /\ c \in BCMask}
  OBVIOUS
<1>3. Icebergs(MaskOf(H)) = Detached(icy, anchored)
  BY <1>1, <1>2 DEF Icebergs
<1>4. Detached(icy, anchored) \subseteq icy \ anchored
  BY DetachedApart
<1>5. ASSUME NEW c \in Icebergs(MaskOf(H))
      PROVE  Floats(c, H[c]) /\ H[c] >= IceFreeThickness
  <2>1. c \in Cells /\ Icy(MaskOf(H)[c]) /\ ~GroundedIce(MaskOf(H)[c])
    BY <1>1, <1>2, <1>3, <1>4, <1>5
  <2>2. MaskOf(H)[c] = TypeOf(c, H[c]) /\ H[c] \in Nat
    BY <2>1, MaskType
  <2> QED
    BY <2>1, <2>2, TypeIs
<1> QED
  BY <1>3, <1>4, <1>5

LEMMA WithoutIceItIsOcean ==
  ASSUME NEW H \in [Cells -> Nat], NEW S \in SUBSET Cells,
         \A c \in S : Floats(c, H[c]),
         NEW K, K = [c \in Cells |-> IF c \in S THEN 0 ELSE H[c]]
  PROVE  K \in [Cells -> Nat] /\ Opened(MaskOf(H), S) = MaskOf(K)
<1>1. K \in [Cells -> Nat]
  OBVIOUS
<1>2. ASSUME NEW c \in Cells
      PROVE  (IF c \in S THEN "ice_free_ocean" ELSE MaskOf(H)[c]) = TypeOf(c, K[c])
  <2>1. CASE c \in S
    <3>1. K[c] = 0 /\ H[c] \in Nat /\ Floats(c, H[c])
      BY <2>1
    <3>2. Floats(c, 0)
      BY <3>1, ThinnerFloats
    <3>3. TypeOf(c, 0) = "ice_free_ocean"
      BY <3>2, MaskAssumption DEF TypeOf
    <3> QED
      BY <2>1, <3>1, <3>3
  <2>2. CASE c \notin S
    BY <2>2, MaskType
  <2> QED
    BY <2>1, <2>2
<1> QED
  BY <1>1, <1>2 DEF Opened, MaskOf

LEMMA UpdatedIs ==
  ASSUME NEW H \in [Cells -> Nat]
  PROVE  /\ Updated(H).thk \in [Cells -> Nat]
         /\ Updated(H).mask = MaskOf(Updated(H).thk)
         /\ Updated(H).surf = SurfaceElev(Updated(H).thk)
         /\ \A c \in Cells : Updated(H).thk[c] = 0 \/ Updated(H).thk[c] = H[c]
         /\ \A c \in Cells : Updated(H).thk[c] # H[c] => c \notin Land
         /\ ~setup.killIcebergs => Updated(H).thk = H
<1>1. PICK S \in SUBSET Cells : S = Icebergs(MaskOf(H))
  BY IcebergsFloat
<1>2. PICK K : K = [c \in Cells |-> IF c \in S THEN 0 ELSE H[c]]
  OBVIOUS
<1>3. K \in [Cells -> Nat] /\ Opened(MaskOf(H), S) = MaskOf(K)
  BY <1>1, <1>2, IcebergsFloat, WithoutIceItIsOcean
<1>4. CASE setup.killIcebergs
  <2>1. /\ Updated(H).thk = K /\ Updated(H).mask = Opened(MaskOf(H), S)
        /\ Updated(H).surf = SurfaceElev(K)
    BY <1>1, <1>2, <1>4 DEF Updated, WithSurface, WithoutIcebergs, Removed
  <2>2. ASSUME NEW c \in Cells, K[c] # H[c] PROVE c \notin Land
    <3>1. Floats(c, H[c]) /\ H[c] \in Nat
      BY <1>1, <1>2, <2>2, IcebergsFloat
    <3> QED
      BY <3>1, ThinnerFloats DEF Land
  <2>3. \A c \in Cells : K[c] = 0 \/ K[c] = H[c]
    BY <1>2
  <2> QED
    BY <1>3, <1>4, <2>1, <2>2, <2>3
<1>5. CASE ~setup.killIcebergs
  <2>1. Updated(H).thk = H /\ Updated(H).mask = MaskOf(H) /\ Updated(H).surf = SurfaceElev(H)
    BY <1>5 DEF Updated, WithSurface, WithoutIcebergs
  <2> QED
    BY <1>5, <2>1
<1> QED
  BY <1>4, <1>5

(* No ice is cut off when the thickness has been updated, nor after ice has *)
(* become thicker.                                                          *)
LEMMA NothingCutOff ==
  ASSUME NEW H \in [Cells -> Nat], setup.killIcebergs, NEW K \in [Cells -> Nat],
         \A c \in Cells : /\ K[c] >= Updated(H).thk[c]
                          /\ K[c] >= IceFreeThickness => Updated(H).thk[c] >= IceFreeThickness
  PROVE  Icebergs(MaskOf(K)) = {}
<1>1. PICK icy \in SUBSET Cells : icy = {c \in Cells : Icy(MaskOf(H)[c])}
  OBVIOUS
<1>2. PICK anchored \in SUBSET Cells :
        anchored = {c \in Cells : \/ GroundedIce(MaskOf(H)[c])
                                  \/ Icy(MaskOf(H)[c]) /\ c \in BCMask}
  OBVIOUS
<1>3. PICK S \in SUBSET Cells : S = Detached(icy, anchored)
  BY DetachedApart
<1>4. S = Icebergs(MaskOf(H)) /\ S \subseteq icy \ anchored
  BY <1>1, <1>2, <1>3, DetachedApart DEF Icebergs
<1>5. PICK T \in [Cells -> Nat] : T = [c \in Cells |-> IF c \in S THEN 0 ELSE H[c]]
  OBVIOUS
<1>6. Updated(H).thk = T
  BY <1>4, <1>5 DEF Updated, WithSurface, WithoutIcebergs, Removed
<1>7. \A c \in Cells : Icy(MaskOf(H)[c]) <=> H[c] >= IceFreeThickness
  BY MaskType, TypeIs
<1>8. \A c \in Cells : GroundedIce(MaskOf(H)[c]) <=> ~Floats(c, H[c]) /\ H[c] >= IceFreeThickness
  BY MaskType, TypeIs
<1>9. PICK now \in SUBSET Cells : now = {c \in Cells : Icy(MaskOf(K)[c])}
  OBVIOUS
<1>10. PICK some \in SUBSET Cells :
         some = {c \in Cells : \/ GroundedIce(MaskOf(K)[c])
                               \/ Icy(MaskOf(K)[c]) /\ c \in BCMask}
  OBVIOUS
<1>11. now = icy \ S
  <2>1. ASSUME NEW c \in Cells PROVE c \in now <=> c \in icy /\ c \notin S
    <3>1. c \in now <=> K[c] >= IceFreeThickness
      BY <1>9, MaskType, TypeIs
    <3>2. K[c] >= IceFreeThickness <=> T[c] >= IceFreeThickness
      <4>1. K[c] \in Nat /\ T[c] \in Nat /\ IceFreeThickness \in Nat
        BY MaskAssumption
      <4>2. K[c] >= T[c] /\ (K[c] >= IceFreeThickness => T[c] >= IceFreeThickness)
        BY <1>6
      <4> QED
        BY <4>1, <4>2
    <3>3. T[c] >= IceFreeThickness <=> c \notin S /\ H[c] >= IceFreeThickness
      BY <1>5, MaskAssumption
    <3> QED
      BY <1>1, <1>7, <3>1, <3>2, <3>3
  <2> QED
    BY <2>1
<1>12. anchored \subseteq some
  <2>1. ASSUME NEW c \in anchored PROVE c \in some
    <3>1. c \in Cells /\ c \notin S /\ H[c] >= IceFreeThickness
      <4>1. c \in Cells /\ c \notin S
        BY <1>4, <2>1
      <4>2. GroundedIce(MaskOf(H)[c]) \/ Icy(MaskOf(H)[c])
        BY <1>2, <2>1
      <4> QED
        BY <1>7, <1>8, <4>1, <4>2
    <3>2. H[c] \in Nat /\ K[c] \in Nat /\ K[c] >= H[c] /\ K[c] >= IceFreeThickness
      BY <1>5, <1>6, <3>1, MaskAssumption
    <3>3. Icy(MaskOf(K)[c])
      BY <3>1, <3>2, MaskType, TypeIs
    <3>4. CASE GroundedIce(MaskOf(H)[c])
      <4>1. ~Floats(c, H[c])
        BY <1>8, <3>1, <3>4
      <4>2. ~Floats(c, K[c])
        BY <3>1, <3>2, <4>1, ThinnerFloats
      <4>3. GroundedIce(MaskOf(K)[c])
        BY <3>1, <3>2, <4>2, MaskType, TypeIs
      <4> QED
        BY <1>10, <3>1, <4>3
    <3>5. CASE c \in BCMask
      BY <1>10, <3>1, <3>3, <3>5
    <3> QED
      BY <1>2, <2>1, <3>4, <3>5
  <2> QED
    BY <2>1
<1>13. Icebergs(MaskOf(K)) = Detached(now, some)
  BY <1>9, <1>10 DEF Icebergs
<1> QED
  BY <1>3, <1>11, <1>12, <1>13, NothingDetached

-----------------------------------------------------------------------------
(* Loops that remove cells one after the other: what every step keeps, they *)
(* keep.                                                                    *)
LEMMA WalkedByIsTip ==
  ASSUME NEW m, NEW rankOf, NEW V, {} \in V,
         \A S \in V : \A c \in Cells :
            IsTip(Opened(m, {x \in S : Owns(rankOf, c, x)}), c) => S \cup {c} \in V
  PROVE  Walked(m, rankOf, IsTip) \in V
<1>1. PICK N \in Nat : N = Mx * My
  BY GridAssumption
<1> DEFINE Left(k, S) ==
             IF IsTip(Opened(m, {x \in S : Owns(rankOf, CellAt(k), x)}), CellAt(k))
               THEN S \cup {CellAt(k)} ELSE S
<1>2. ASSUME NEW k \in 1 .. N, NEW S \in V PROVE Left(k, S) \in V
  <2>1. CellAt(k) \in Cells
    BY <1>1, CellAtType
  <2> QED
    BY <2>1
<1>3. PICK next \in [(1 .. N) \X V -> V] :
        \A k \in 1 .. N : \A S \in V : next[<<k, S>>] = Left(k, S)
  <2> DEFINE f == [kS \in (1 .. N) \X V |-> Left(kS[1], kS[2])]
  <2> HIDE DEF Left
  <2>1. f \in [(1 .. N) \X V -> V]
    <3>1. ASSUME NEW kS \in (1 .. N) \X V PROVE Left(kS[1], kS[2]) \in V
      <4>1. kS[1] \in 1 .. N /\ kS[2] \in V
        OBVIOUS
      <4> QED
        BY <1>2, <4>1
    <3> QED
      BY <3>1
  <2>2. \A k \in 1 .. N : \A S \in V : f[<<k, S>>] = Left(k, S)
    OBVIOUS
  <2> HIDE DEF f
  <2> QED
    BY <2>1, <2>2
<1>4. PICK w : /\ w \in [0 .. N -> V] /\ w[0] = {}
               /\ \A k \in 1 .. N : w[k] = next[<<k, w[k - 1]>>]
  <2>1. \E w : Loops(w, N, V, {}, next)
    BY LoopExists
  <2> QED
    BY <2>1 DEF Loops
<1> HIDE DEF Left
<1> DEFINE Walk(x) == x = [k \in 0 .. N |-> IF k = 0 THEN {} ELSE Left(k, x[k - 1])]
           walk == CHOOSE x : Walk(x)
<1>5. Walk(w)
  <2>1. ASSUME NEW k \in 0 .. N
        PROVE  w[k] = IF k = 0 THEN {} ELSE Left(k, w[k - 1])
    <3>1. CASE k = 0
      BY <1>4, <3>1
    <3>2. CASE k # 0
      <4>1. k \in 1 .. N /\ k - 1 \in 0 .. N
        BY <3>2
      <4>2. w[k - 1] \in V /\ w[k] = next[<<k, w[k - 1]>>]
        BY <1>4, <4>1
      <4> QED
        BY <1>3, <3>2, <4>1, <4>2
    <3> QED
      BY <3>1, <3>2
  <2> QED
    BY <1>4, <2>1
<1>6. Walk(walk)
  <2> HIDE DEF Walk
  <2> QED
    BY <1>5
<1>7. Walked(m, rankOf, IsTip) = walk[N]
  <2> USE DEF Left
  <2> QED
    BY <1>1 DEF Walked
<1> DEFINE Good == {k \in 0 .. N : walk[k] \in V}
<1>8. 0 \in Good
  <2>1. walk[0] = {}
    <3> HIDE DEF walk
    <3> QED
      BY <1>6
  <2>2. {} \in V
    OBVIOUS
  <2>3. 0 \in 0 .. N
    OBVIOUS
  <2> HIDE DEF walk
  <2>4. walk[0] \in V
    BY <2>1, <2>2
  <2> QED
    BY <2>3, <2>4
<1>9. ASSUME NEW k \in 1 .. N, k - 1 \in Good PROVE k \in Good
  <2>1. k \in 0 .. N /\ k # 0
    OBVIOUS
  <2>2. walk[k] = Left(k, walk[k - 1])
    <3> HIDE DEF walk
    <3> QED
      BY <1>6, <2>1
  <2>3. walk[k - 1] \in V
    BY <1>9
  <2> HIDE DEF walk
  <2> QED
    BY <1>2, <2>1, <2>2, <2>3
<1>10. 0 .. N \subseteq Good
  <2> HIDE DEF Good
  <2> QED
    BY <1>8, <1>9, StepByStep
<1> QED
  BY <1>7, <1>10

LEMMA WalkedByBeyondFixedFront ==
  ASSUME NEW m, NEW rankOf, NEW V, {} \in V,
         \A S \in V : \A c \in Cells :
            BeyondFixedFront(Opened(m, {x \in S : Owns(rankOf, c, x)}), c) => S \cup {c} \in V
  PROVE  Walked(m, rankOf, BeyondFixedFront) \in V
<1>1. PICK N \in Nat : N = Mx * My
  BY GridAssumption
<1> DEFINE Left(k, S) ==
             IF BeyondFixedFront(Opened(m, {x \in S : Owns(rankOf, CellAt(k), x)}), CellAt(k))
               THEN S \cup {CellAt(k)} ELSE S
<1>2. ASSUME NEW k \in 1 .. N, NEW S \in V PROVE Left(k, S) \in V
  <2>1. CellAt(k) \in Cells
    BY <1>1, CellAtType
  <2> QED
    BY <2>1
<1>3. PICK next \in [(1 .. N) \X V -> V] :
        \A k \in 1 .. N : \A S \in V : next[<<k, S>>] = Left(k, S)
  <2> DEFINE f == [kS \in (1 .. N) \X V |-> Left(kS[1], kS[2])]
  <2> HIDE DEF Left
  <2>1. f \in [(1 .. N) \X V -> V]
    <3>1. ASSUME NEW kS \in (1 .. N) \X V PROVE Left(kS[1], kS[2]) \in V
      <4>1. kS[1] \in 1 .. N /\ kS[2] \in V
        OBVIOUS
      <4> QED
        BY <1>2, <4>1
    <3> QED
      BY <3>1
  <2>2. \A k \in 1 .. N : \A S \in V : f[<<k, S>>] = Left(k, S)
    OBVIOUS
  <2> HIDE DEF f
  <2> QED
    BY <2>1, <2>2
<1>4. PICK w : /\ w \in [0 .. N -> V] /\ w[0] = {}
               /\ \A k \in 1 .. N : w[k] = next[<<k, w[k - 1]>>]
  <2>1. \E w : Loops(w, N, V, {}, next)
    BY LoopExists
  <2> QED
    BY <2>1 DEF Loops
<1> HIDE DEF Left
<1> DEFINE Walk(x) == x = [k \in 0 .. N |-> IF k = 0 THEN {} ELSE Left(k, x[k - 1])]
           walk == CHOOSE x : Walk(x)
<1>5. Walk(w)
  <2>1. ASSUME NEW k \in 0 .. N
        PROVE  w[k] = IF k = 0 THEN {} ELSE Left(k, w[k - 1])
    <3>1. CASE k = 0
      BY <1>4, <3>1
    <3>2. CASE k # 0
      <4>1. k \in 1 .. N /\ k - 1 \in 0 .. N
        BY <3>2
      <4>2. w[k - 1] \in V /\ w[k] = next[<<k, w[k - 1]>>]
        BY <1>4, <4>1
      <4> QED
        BY <1>3, <3>2, <4>1, <4>2
    <3> QED
      BY <3>1, <3>2
  <2> QED
    BY <1>4, <2>1
<1>6. Walk(walk)
  <2> HIDE DEF Walk
  <2> QED
    BY <1>5
<1>7. Walked(m, rankOf, BeyondFixedFront) = walk[N]
  <2> USE DEF Left
  <2> QED
    BY <1>1 DEF Walked
<1> DEFINE Good == {k \in 0 .. N : walk[k] \in V}
<1>8. 0 \in Good
  <2>1. walk[0] = {}
    <3> HIDE DEF walk
    <3> QED
      BY <1>6
  <2>2. {} \in V
    OBVIOUS
  <2>3. 0 \in 0 .. N
    OBVIOUS
  <2> HIDE DEF walk
  <2>4. walk[0] \in V
    BY <2>1, <2>2
  <2> QED
    BY <2>3, <2>4
<1>9. ASSUME NEW k \in 1 .. N, k - 1 \in Good PROVE k \in Good
  <2>1. k \in 0 .. N /\ k # 0
    OBVIOUS
  <2>2. walk[k] = Left(k, walk[k - 1])
    <3> HIDE DEF walk
    <3> QED
      BY <1>6, <2>1
  <2>3. walk[k - 1] \in V
    BY <1>9
  <2> HIDE DEF walk
  <2> QED
    BY <1>2, <2>1, <2>2, <2>3
<1>10. 0 .. N \subseteq Good
  <2> HIDE DEF Good
  <2> QED
    BY <1>8, <1>9, StepByStep
<1> QED
  BY <1>7, <1>10

-----------------------------------------------------------------------------
(* What calving may do to the geometry: every cell keeps its ice or loses   *)
(* all of it; and, but for eigen-calving, what is lost is lost at sea.      *)
Thinned(g) ==
  {h \in Geometries :
     \A c \in Cells : /\ h.thk[c] = 0 \/ h.thk[c] = g.thk[c]
                      /\ h.thk[c] # 0 => h.href[c] <= g.href[c]}

LostAtSea(g) ==
  {h \in Geometries :
     /\ AtSea(h.mask)
     /\ \A c \in Cells : \/ h.thk[c] = g.thk[c] /\ h.href[c] = g.href[c]
                         \/ c \notin Land /\ h.thk[c] = 0 /\ h.href[c] <= g.href[c]}

LEMMA GeometryIs ==
  ASSUME NEW g \in Geometries
  PROVE  /\ g.thk \in [Cells -> Nat] /\ g.href \in [Cells -> Nat]
         /\ g.mask \in [Cells -> Types] /\ g.surf \in [Cells -> Int]
         /\ \A c \in Cells : g.thk[c] \in Nat /\ g.href[c] \in Nat
BY DEF Geometries

LEMMA Unharmed ==
  ASSUME NEW g \in Geometries
  PROVE  /\ g \in Thinned(g)
         /\ AtSea(g.mask) => g \in LostAtSea(g)
<1>1. \A c \in Cells : g.href[c] <= g.href[c]
  BY GeometryIs
<1> QED
  BY <1>1 DEF Thinned, LostAtSea

LEMMA ThinnedTwice ==
  ASSUME NEW g \in Geometries, NEW h \in Thinned(g), NEW k \in Thinned(h)
  PROVE  k \in Thinned(g)
<1>1. h \in Geometries /\ k \in Geometries
  BY DEF Thinned
<1>2. ASSUME NEW c \in Cells
      PROVE  /\ k.thk[c] = 0 \/ k.thk[c] = g.thk[c]
             /\ k.thk[c] # 0 => k.href[c] <= g.href[c]
  <2>1. /\ g.thk[c] \in Nat /\ g.href[c] \in Nat /\ h.thk[c] \in Nat /\ h.href[c] \in Nat
        /\ k.thk[c] \in Nat /\ k.href[c] \in Nat
    BY <1>1, GeometryIs
  <2>2. /\ h.thk[c] = 0 \/ h.thk[c] = g.thk[c]
        /\ h.thk[c] # 0 => h.href[c] <= g.href[c]
    BY DEF Thinned
  <2>3. /\ k.thk[c] = 0 \/ k.thk[c] = h.thk[c]
        /\ k.thk[c] # 0 => k.href[c] <= h.href[c]
    BY DEF Thinned
  <2> QED
    BY <2>1, <2>2, <2>3
<1> QED
  BY <1>1, <1>2 DEF Thinned

LEMMA LostTwice ==
  ASSUME NEW g \in Geometries, NEW h \in LostAtSea(g), NEW k \in LostAtSea(h)
  PROVE  k \in LostAtSea(g)
<1>1. h \in Geometries /\ k \in Geometries /\ AtSea(k.mask)
  BY DEF LostAtSea
<1>2. ASSUME NEW c \in Cells
      PROVE  \/ k.thk[c] = g.thk[c] /\ k.href[c] = g.href[c]
             \/ c \notin Land /\ k.thk[c] = 0 /\ k.href[c] <= g.href[c]
  <2>1. /\ g.thk[c] \in Nat /\ g.href[c] \in Nat /\ h.thk[c] \in Nat /\ h.href[c] \in Nat
        /\ k.thk[c] \in Nat /\ k.href[c] \in Nat
    BY <1>1, GeometryIs
  <2>2. \/ h.thk[c] = g.thk[c] /\ h.href[c] = g.href[c]
        \/ c \notin Land /\ h.thk[c] = 0 /\ h.href[c] <= g.href[c]
    BY DEF LostAtSea
  <2>3. \/ k.thk[c] = h.thk[c] /\ k.href[c] = h.href[c]
        \/ c \notin Land /\ k.thk[c] = 0 /\ k.href[c] <= h.href[c]
    BY DEF LostAtSea
  <2> QED
    BY <2>1, <2>2, <2>3
<1> QED
  BY <1>1, <1>2 DEF LostAtSea

LEMMA RemovedIs ==
  ASSUME NEW g \in Geometries, NEW S \in SUBSET Cells
  PROVE  /\ Removed(g, S) \in Geometries
         /\ Removed(g, S).href = g.href
         /\ Removed(g, S).mask = Opened(g.mask, S)
         /\ \A c \in Cells : Removed(g, S).thk[c] = IF c \in S THEN 0 ELSE g.thk[c]
         /\ Removed(g, S) \in Thinned(g)
<1>1. PICK T : T = [c \in Cells |-> IF c \in S THEN 0 ELSE g.thk[c]]
  OBVIOUS
<1>2. T \in [Cells -> Nat]
  BY <1>1, GeometryIs
<1>3. PICK M : M = Opened(g.mask, S)
  OBVIOUS
<1>4. M \in [Cells -> Types]
  <2>1. "ice_free_ocean" \in Types
    BY DEF Types
  <2> QED
    BY <1>3, <2>1, GeometryIs DEF Opened
<1>5. Removed(g, S) = [thk |-> T, href |-> g.href, mask |-> M, surf |-> g.surf]
  <2>1. Removed(g, S) = [g EXCEPT !.thk = T, !.mask = M]
    BY <1>1, <1>3 DEF Removed
  <2> QED
    BY <2>1 DEF Geometries
<1>6. Removed(g, S) \in Geometries
  BY <1>2, <1>4, <1>5, GeometryIs DEF Geometries
<1>7. \A c \in Cells : g.href[c] <= g.href[c]
  BY GeometryIs
<1>8. Removed(g, S) \in Thinned(g)
  <2>1. \A c \in Cells : /\ Removed(g, S).thk[c] = 0 \/ Removed(g, S).thk[c] = g.thk[c]
                         /\ Removed(g, S).href[c] <= g.href[c]
    BY <1>1, <1>5, <1>7
  <2> QED
    BY <1>6, <2>1 DEF Thinned
<1> QED
  BY <1>1, <1>3, <1>5, <1>6, <1>8

LEMMA RemovedAtSea ==
  ASSUME NEW g \in Geometries, NEW S \in SUBSET (Cells \ Land), AtSea(g.mask)
  PROVE  Removed(g, S) \in LostAtSea(g)
<1>1. S \in SUBSET Cells
  OBVIOUS
<1>2. AtSea(Removed(g, S).mask)
  <2>1. AtSea(Opened(g.mask, S))
    BY DEF AtSea, Opened
  <2> QED
    BY <1>1, <2>1, RemovedIs
<1>3. ASSUME NEW c \in Cells
      PROVE  \/ /\ Removed(g, S).thk[c] = g.thk[c] /\ Removed(g, S).href[c] = g.href[c]
             \/ /\ c \notin Land /\ Removed(g, S).thk[c] = 0
                /\ Removed(g, S).href[c] <= g.href[c]
  <2>1. /\ Removed(g, S).href = g.href
        /\ Removed(g, S).thk[c] = IF c \in S THEN 0 ELSE g.thk[c]
    BY <1>1, RemovedIs
  <2>2. g.href[c] <= g.href[c]
    BY GeometryIs
  <2> QED
    BY <2>1, <2>2
<1> QED
  BY <1>1, <1>2, <1>3, RemovedIs DEF LostAtSea

(* No tongue of ice ends on land: a cell on land has two neighbours there.  *)
NoHeadland ==
  \A c \in Land : \E d, e \in Directions :
     d # e /\ Neighbor(c, d) \in Land /\ Neighbor(c, e) \in Land

LEMMA TipAtSea ==
  ASSUME NoHeadland, NEW m \in [Cells -> Types], AtSea(m), NEW c \in Cells, IsTip(m, c)
  PROVE  c \notin Land
<1> SUFFICES ASSUME c \in Land PROVE FALSE
  OBVIOUS
<1>1. PICK d \in Directions : TipOf(m, c, d)
  BY DEF IsTip
<1>2. \A e \in Directions \ {d} : ~Blocked(m, c, Neighbor(c, e))
  BY <1>1 DEF TipOf
<1>3. PICK a \in Directions, b \in Directions :
        a # b /\ Neighbor(c, a) \in Land /\ Neighbor(c, b) \in Land
  BY DEF NoHeadland
<1>4. PICK e \in {a, b} : e # d
  BY <1>3
<1>5. e \in Directions \ {d} /\ Neighbor(c, e) \in Land
  BY <1>3, <1>4
<1>6. \A x \in Land : x \in Cells /\ ~Ocean(m[x])
  BY DEF AtSea, Land
<1>7. GroundedIce(m[c])
  <2>1. Icy(m[c])
    BY DEF IsTip
  <2>2. ~Ocean(m[c])
    BY <1>6
  <2> QED
    BY <2>1, <2>2 DEF Icy, Ocean, GroundedIce
<1>8. ~IceFreeOcean(m[Neighbor(c, e)])
  <2>1. ~Ocean(m[Neighbor(c, e)])
    BY <1>5, <1>6
  <2> QED
    BY <2>1 DEF Ocean, IceFreeOcean
<1>9. Blocked(m, c, Neighbor(c, e))
  BY <1>7, <1>8 DEF Blocked
<1> QED
  BY <1>2, <1>5, <1>9

LEMMA OpenedIs ==
  ASSUME NEW m \in [Cells -> Types], NEW S \in SUBSET Cells
  PROVE  /\ Opened(m, S) \in [Cells -> Types]
         /\ AtSea(m) /\ S \cap Land = {} => AtSea(Opened(m, S))
<1>1. "ice_free_ocean" \in Types
  BY DEF Types
<1> QED
  BY <1>1 DEF Opened, AtSea

LEMMA TonguesThin ==
  ASSUME NEW g \in Geometries, NEW rankOf
  PROVE  /\ RemoveNarrowTongues(g, rankOf) \in Thinned(g)
         /\ NoHeadland /\ AtSea(g.mask) => RemoveNarrowTongues(g, rankOf) \in LostAtSea(g)
<1>1. PICK S : S = Walked(g.mask, rankOf, IsTip)
  OBVIOUS
<1>2. S \in SUBSET Cells
  <2>1. PICK V : V = SUBSET Cells
    OBVIOUS
  <2>2. {} \in V /\ \A s \in V : \A c \in Cells : s \cup {c} \in V
    BY <2>1
  <2>3. Walked(g.mask, rankOf, IsTip) \in V
    BY <2>2, WalkedByIsTip
  <2> QED
    BY <1>1, <2>1, <2>3
<1>3. RemoveNarrowTongues(g, rankOf) = Removed(g, S)
  BY <1>1 DEF RemoveNarrowTongues
<1>4. ASSUME NoHeadland, AtSea(g.mask) PROVE S \in SUBSET (Cells \ Land)
  <2>1. PICK V : V = SUBSET (Cells \ Land)
    OBVIOUS
  <2>2. ASSUME NEW s \in V, NEW c \in Cells,
               IsTip(Opened(g.mask, {x \in s : Owns(rankOf, c, x)}), c)
        PROVE  s \cup {c} \in V
    <3>1. PICK t : t = {x \in s : Owns(rankOf, c, x)}
      OBVIOUS
    <3>2. t \in SUBSET Cells /\ t \cap Land = {}
      BY <2>1, <3>1
    <3>3. Opened(g.mask, t) \in [Cells -> Types] /\ AtSea(Opened(g.mask, t))
      BY <1>4, <3>2, OpenedIs, GeometryIs
    <3>4. IsTip(Opened(g.mask, t), c)
      BY <2>2, <3>1
    <3>5. c \notin Land
      BY <1>4, <3>3, <3>4, TipAtSea
    <3> QED
      BY <2>1, <3>5
  <2>3. {} \in V
    BY <2>1
  <2>4. \A s \in V : \A c \in Cells :
          IsTip(Opened(g.mask, {x \in s : Owns(rankOf, c, x)}), c) => s \cup {c} \in V
    BY <2>2
  <2>5. Walked(g.mask, rankOf, IsTip) \in V
    BY <2>3, <2>4, WalkedByIsTip
  <2> QED
    BY <1>1, <2>1, <2>5
<1> QED
  BY <1>2, <1>3, <1>4, RemovedIs, RemovedAtSea

LEMMA OceanKillThins ==
  ASSUME NEW g \in Geometries, NEW rankOf
  PROVE  /\ OceanKill(g, rankOf) \in Thinned(g)
         /\ AtSea(g.mask) => OceanKill(g, rankOf) \in LostAtSea(g)
<1>1. PICK V : V = SUBSET (Cells \ Land)
  OBVIOUS
<1>2. {} \in V
  BY <1>1
<1>3. \A s \in V : \A c \in Cells :
        BeyondFixedFront(Opened(g.mask, {x \in s : Owns(rankOf, c, x)}), c) => s \cup {c} \in V
  <2>1. ASSUME NEW c \in OceanKillMask PROVE c \notin Land
    BY OceanKillAssumption DEF Land
  <2>2. ASSUME NEW s \in V, NEW c \in Cells, c \in OceanKillMask PROVE s \cup {c} \in V
    BY <1>1, <2>1, <2>2
  <2>3. \A m : \A c \in Cells : BeyondFixedFront(m, c) => c \in OceanKillMask
    BY DEF BeyondFixedFront
  <2> QED
    BY <2>2, <2>3
<1>4. PICK S : S = Walked(g.mask, rankOf, BeyondFixedFront)
  OBVIOUS
<1>5. S \in V
  BY <1>2, <1>3, <1>4, WalkedByBeyondFixedFront
<1>6. OceanKill(g, rankOf) = Removed(g, S)
  BY <1>4 DEF OceanKill
<1>7. S \in SUBSET Cells /\ S \in SUBSET (Cells \ Land)
  BY <1>1, <1>5
<1> QED
  BY <1>6, <1>7, RemovedIs, RemovedAtSea

LEMMA FloatingThins ==
  ASSUME NEW g \in Geometries
  PROVE  /\ FloatKill(g) \in Thinned(g) /\ CalvingAtThickness(g) \in Thinned(g)
         /\ AtSea(g.mask) => /\ FloatKill(g) \in LostAtSea(g)
                             /\ CalvingAtThickness(g) \in LostAtSea(g)
<1>1. PICK S : S = {c \in Cells : FloatingIce(g.mask[c]) /\ ~Lake(g.mask, c)}
  OBVIOUS
<1>2. PICK T : T = {c \in Cells : /\ FloatingIce(g.mask[c])
                                  /\ NextToIceFreeOcean(g.mask, c)
                                  /\ g.thk[c] < Threshold}
  OBVIOUS
<1>3. FloatKill(g) = Removed(g, S) /\ CalvingAtThickness(g) = Removed(g, T)
  BY <1>1, <1>2 DEF FloatKill, CalvingAtThickness
<1>4. S \in SUBSET Cells /\ T \in SUBSET Cells
  BY <1>1, <1>2
<1>5. ASSUME AtSea(g.mask) PROVE S \in SUBSET (Cells \ Land) /\ T \in SUBSET (Cells \ Land)
  <2>1. \A c \in Cells : FloatingIce(g.mask[c]) => c \notin Land
    BY <1>5 DEF AtSea, FloatingIce, Ocean
  <2> QED
    BY <1>1, <1>2, <2>1
<1> QED
  BY <1>3, <1>4, <1>5, RemovedIs, RemovedAtSea

LEMMA CrevassedIs ==
  ASSUME NEW g \in Geometries, NEW S \in SUBSET Cells
  PROVE  /\ Crevassed(g, S) \in Thinned(g)
         /\ AtSea(g.mask) /\ S \cap Land = {} => Crevassed(g, S) \in LostAtSea(g)
<1>1. PICK h \in Geometries : h = Removed(g, S)
  BY RemovedIs
<1>2. /\ h.href = g.href /\ h.mask = Opened(g.mask, S)
      /\ \A c \in Cells : h.thk[c] = IF c \in S THEN 0 ELSE g.thk[c]
  BY <1>1, RemovedIs
<1>3. PICK F : F = [c \in Cells |-> IF c \in S THEN 0 ELSE g.href[c]]
  OBVIOUS
<1>4. F \in [Cells -> Nat]
  BY <1>3, GeometryIs
<1>5. Crevassed(g, S) = [h EXCEPT !.href = F]
  BY <1>1, <1>2, <1>3 DEF Crevassed
<1>6. PICK k : k = Crevassed(g, S)
  OBVIOUS
<1>7. k \in Geometries /\ k.thk = h.thk /\ k.href = F /\ k.mask = h.mask
  BY <1>4, <1>5, <1>6 DEF Geometries
<1>8. ASSUME NEW c \in Cells
      PROVE  /\ k.thk[c] = IF c \in S THEN 0 ELSE g.thk[c]
             /\ k.href[c] = IF c \in S THEN 0 ELSE g.href[c]
             /\ k.href[c] <= g.href[c]
  <2>1. /\ k.thk[c] = IF c \in S THEN 0 ELSE g.thk[c]
        /\ k.href[c] = IF c \in S THEN 0 ELSE g.href[c]
    BY <1>2, <1>3, <1>7
  <2>2. g.href[c] \in Nat
    BY GeometryIs
  <2> QED
    BY <2>1, <2>2
<1>9. k \in Thinned(g)
  BY <1>7, <1>8 DEF Thinned
<1>10. ASSUME AtSea(g.mask), S \cap Land = {} PROVE k \in LostAtSea(g)
  <2>1. AtSea(k.mask)
    BY <1>2, <1>7, <1>10, OpenedIs, GeometryIs
  <2> QED
    BY <1>7, <1>8, <1>10, <2>1 DEF LostAtSea
<1> QED
  BY <1>6, <1>9, <1>10

LEMMA CrevassesThin ==
  ASSUME NEW g \in Geometries, NEW depth \in [Cells -> Nat], NEW rankOf
  PROVE  /\ CrevassesCalving(g, depth, rankOf) \in Thinned(g)
         /\ NoHeadland /\ AtSea(g.mask) /\ (\A c \in Land : depth[c] = 0)
              => CrevassesCalving(g, depth, rankOf) \in LostAtSea(g)
<1>1. PICK S \in SUBSET Cells : S = CrevasseLoss(g, depth)
  BY DEF CrevasseLoss
<1>2. PICK h : h = Crevassed(g, S)
  OBVIOUS
<1>3. h \in Thinned(g) /\ h \in Geometries
  BY <1>2, CrevassedIs DEF Thinned
<1>4. CrevassesCalving(g, depth, rankOf) = RemoveNarrowTongues(h, rankOf)
  BY <1>1, <1>2 DEF CrevassesCalving
<1>5. ASSUME NoHeadland, AtSea(g.mask), \A c \in Land : depth[c] = 0
      PROVE  CrevassesCalving(g, depth, rankOf) \in LostAtSea(g)
  <2>1. ASSUME NEW c \in S, c \in Land PROVE FALSE
    <3>1. c \in Cells /\ depth[c] >= g.thk[c] + g.href[c] /\ g.thk[c] + g.href[c] > 0
      BY <1>1 DEF CrevasseLoss
    <3>2. depth[c] = 0 /\ g.thk[c] \in Nat /\ g.href[c] \in Nat
      BY <1>5, <2>1, <3>1, GeometryIs
    <3> QED
      BY <3>1, <3>2
  <2>2. h \in LostAtSea(g)
    BY <1>2, <1>5, <2>1, CrevassedIs
  <2>3. AtSea(h.mask)
    BY <2>2 DEF LostAtSea
  <2>4. CrevassesCalving(g, depth, rankOf) \in LostAtSea(h)
    BY <1>3, <1>4, <1>5, <2>3, TonguesThin
  <2> QED
    BY <1>3, <2>2, <2>4, LostTwice
<1>6. CrevassesCalving(g, depth, rankOf) \in Thinned(g)
  <2>1. CrevassesCalving(g, depth, rankOf) \in Thinned(h)
    BY <1>3, <1>4, TonguesThin
  <2> QED
    BY <1>3, <2>1, ThinnedTwice
<1> QED
  BY <1>5, <1>6

(* Eigen-calving: cells that lose more than their href are emptied.         *)
LEMMA ExcessType ==
  ASSUME NEW g \in Geometries, NEW rate \in [Cells -> Nat], NEW c \in Cells
  PROVE  ExcessLoss(g, rate, c) \in Nat
<1>1. CASE AtFront(g.mask, c) /\ rate[c] > g.href[c]
  <2>1. PICK S \in SUBSET Directions :
          S = {d \in Directions : FloatingIce(g.mask[Neighbor(c, d)])}
    OBVIOUS
  <2>2. PICK d \in Directions : FloatingIce(g.mask[Neighbor(c, d)])
    BY <1>1 DEF AtFront, NextToFloatingIce, NextTo, Star
  <2>3. d \in S
    BY <2>1, <2>2
  <2>4. Cardinality(S) \in Nat \ {0}
    BY <2>3, SidesCount DEF One, Directions
  <2>5. rate[c] \in Nat /\ g.href[c] \in Nat
    BY GeometryIs
  <2>6. PICK a \in Nat : a = rate[c] - g.href[c]
    BY <1>1, <2>5
  <2>7. ExcessLoss(g, rate, c) = a \div Cardinality(S)
    BY <1>1, <2>1, <2>6 DEF ExcessLoss
  <2> QED
    BY <2>4, <2>6, <2>7, QuotientType
<1>2. CASE ~(AtFront(g.mask, c) /\ rate[c] > g.href[c])
  BY <1>2 DEF ExcessLoss
<1> QED
  BY <1>1, <1>2

LEMMA LossType ==
  ASSUME NEW g \in Geometries, NEW rate \in [Cells -> Nat], NEW c \in Cells
  PROVE  LossFromFront(g, rate, c) \in Nat
<1>1. \A d \in Directions : ExcessLoss(g, rate, Neighbor(c, d)) \in Nat
  BY ExcessType, Opposites
<1>2. /\ ExcessLoss(g, rate, Neighbor(c, "n")) \in Nat
      /\ ExcessLoss(g, rate, Neighbor(c, "e")) \in Nat
      /\ ExcessLoss(g, rate, Neighbor(c, "s")) \in Nat
      /\ ExcessLoss(g, rate, Neighbor(c, "w")) \in Nat
  BY <1>1 DEF Directions
<1> QED
  BY <1>2 DEF LossFromFront

LEMMA EigenThins ==
  ASSUME NEW g \in Geometries, NEW rate \in [Cells -> Nat], NEW rankOf
  PROVE  EigenCalving(g, rate, rankOf) \in Thinned(g)
<1>1. PICK loss \in [Cells -> Nat] : loss = [c \in Cells |-> LossFromFront(g, rate, c)]
  BY LossType
<1>2. PICK S \in SUBSET Cells : S = {c \in Cells : loss[c] > 0}
  OBVIOUS
<1>3. PICK h \in Geometries : h = Removed(g, S)
  BY RemovedIs
<1>4. \A c \in Cells : h.thk[c] = IF c \in S THEN 0 ELSE g.thk[c]
  BY <1>3, RemovedIs
<1>5. ASSUME NEW c \in Cells
      PROVE  /\ FrontHref(g, rate, loss, c) \in Nat
             /\ c \notin S => FrontHref(g, rate, loss, c) <= g.href[c]
  <2>1. g.thk[c] \in Nat /\ g.href[c] \in Nat /\ loss[c] \in Nat /\ rate[c] \in Nat
    BY GeometryIs
  <2>2. CASE loss[c] > 0
    <3>0. ~AtFront(g.mask, c)
      <4>1. LossFromFront(g, rate, c) > 0
        BY <1>1, <2>2
      <4>2. FloatingIce(g.mask[c])
        BY <4>1 DEF LossFromFront
      <4> QED
        BY <4>2 DEF AtFront, FloatingIce, IceFreeOcean
    <3>1. FrontHref(g, rate, loss, c) = IF g.thk[c] > loss[c] THEN g.thk[c] - loss[c] ELSE 0
      BY <2>2, <3>0 DEF FrontHref
    <3>2. c \in S
      BY <1>2, <2>2
    <3> QED
      BY <2>1, <3>1, <3>2
  <2>3. CASE ~(loss[c] > 0) /\ AtFront(g.mask, c) /\ rate[c] > 0
    <3>1. FrontHref(g, rate, loss, c) = IF g.href[c] > rate[c] THEN g.href[c] - rate[c] ELSE 0
      BY <2>3 DEF FrontHref
    <3> QED
      BY <2>1, <3>1
  <2>4. CASE ~(loss[c] > 0) /\ ~(AtFront(g.mask, c) /\ rate[c] > 0)
    <3>1. FrontHref(g, rate, loss, c) = g.href[c]
      BY <2>4 DEF FrontHref
    <3> QED
      BY <2>1, <3>1
  <2> QED
    BY <2>2, <2>3, <2>4
<1>6. PICK F \in [Cells -> Nat] : F = [c \in Cells |-> FrontHref(g, rate, loss, c)]
  BY <1>5
<1>7. PICK k : k = Retreat(g, rate, loss)
  OBVIOUS
<1>8. k = [h EXCEPT !.href = F]
  BY <1>2, <1>3, <1>6, <1>7 DEF Retreat
<1>9. k \in Geometries /\ k.thk = h.thk /\ k.href = F
  BY <1>8 DEF Geometries
<1>10. ASSUME NEW c \in Cells
       PROVE  /\ k.thk[c] = 0 \/ k.thk[c] = g.thk[c]
              /\ k.thk[c] # 0 => k.href[c] <= g.href[c]
  BY <1>4, <1>5, <1>6, <1>9
<1>11. k \in Thinned(g)
  BY <1>9, <1>10 DEF Thinned
<1>12. EigenCalving(g, rate, rankOf) = RemoveNarrowTongues(k, rankOf)
  BY <1>1, <1>7 DEF EigenCalving
<1> QED
  BY <1>9, <1>11, <1>12, TonguesThin, ThinnedTwice

(* All the mechanisms together.                                             *)
AttackOnlyAtSea(rate) ==
  "crevasses_calving" \in setup.methods => NoHeadland /\ \A c \in Land : rate[c] = 0

LEMMA CalvedIs ==
  ASSUME NEW g \in Geometries, NEW rate \in [Cells -> Nat]
  PROVE  /\ Calved(g, rate) \in Thinned(g)
         /\ /\ "eigen_calving" \notin setup.methods /\ AttackOnlyAtSea(rate) /\ AtSea(g.mask)
            => Calved(g, rate) \in LostAtSea(g)
<1>1. PICK a : a = Eigen(g, rate)
  OBVIOUS
<1>2. PICK b : b = Crevasses(a, rate)
  OBVIOUS
<1>3. PICK c : c = Ocean_Kill(b)
  OBVIOUS
<1>4. PICK d : d = Float_Kill(c)
  OBVIOUS
<1>5. PICK e : e = Thickness(d)
  OBVIOUS
<1>6. e = Calved(g, rate)
  BY <1>1, <1>2, <1>3, <1>4, <1>5 DEF Calved
<1>7. a \in Thinned(g) /\ a \in Geometries
  BY <1>1, EigenThins, Unharmed DEF Eigen, Thinned
<1>8. b \in Thinned(a) /\ b \in Geometries
  BY <1>2, <1>7, CrevassesThin, Unharmed DEF Crevasses, Thinned
<1>9. c \in Thinned(b) /\ c \in Geometries
  BY <1>3, <1>8, OceanKillThins, Unharmed DEF Ocean_Kill, Thinned
<1>10. d \in Thinned(c) /\ d \in Geometries
  BY <1>4, <1>9, FloatingThins, Unharmed DEF Float_Kill, Thinned
<1>11. e \in Thinned(d)
  BY <1>5, <1>10, FloatingThins, Unharmed DEF Thickness
<1>12. e \in Thinned(g)
  BY <1>7, <1>8, <1>9, <1>10, <1>11, ThinnedTwice
<1>13. ASSUME "eigen_calving" \notin setup.methods, AttackOnlyAtSea(rate), AtSea(g.mask)
       PROVE  e \in LostAtSea(g)
  <2>1. a \in LostAtSea(g) /\ AtSea(a.mask)
    BY <1>1, <1>13, Unharmed DEF Eigen
  <2>2. b \in LostAtSea(a)
    <3>1. CASE "crevasses_calving" \in setup.methods
      <4>1. NoHeadland /\ \A x \in Land : rate[x] = 0
        BY <1>13, <3>1 DEF AttackOnlyAtSea
      <4>2. b = CrevassesCalving(a, rate, setup.rankOf)
        BY <1>2, <3>1 DEF Crevasses
      <4> QED
        BY <1>7, <2>1, <4>1, <4>2, CrevassesThin
    <3>2. CASE "crevasses_calving" \notin setup.methods
      BY <1>2, <1>7, <2>1, <3>2, Unharmed DEF Crevasses
    <3> QED
      BY <3>1, <3>2
  <2>3. AtSea(b.mask)
    BY <2>2 DEF LostAtSea
  <2>4. c \in LostAtSea(b)
    BY <1>3, <1>8, <2>3, OceanKillThins, Unharmed DEF Ocean_Kill
  <2>5. AtSea(c.mask)
    BY <2>4 DEF LostAtSea
  <2>6. d \in LostAtSea(c)
    BY <1>4, <1>9, <2>5, FloatingThins, Unharmed DEF Float_Kill
  <2>7. AtSea(d.mask)
    BY <2>6 DEF LostAtSea
  <2>8. e \in LostAtSea(d)
    BY <1>5, <1>10, <2>7, FloatingThins, Unharmed DEF Thickness
  <2> QED
    BY <1>7, <1>8, <1>9, <1>10, <2>1, <2>2, <2>4, <2>6, <2>8, LostTwice
<1> QED
  BY <1>6, <1>12, <1>13

-----------------------------------------------------------------------------
(* The cleanup of Href after calving, which a second one leaves as it is.   *)
LEMMA CleanupIs ==
  ASSUME NEW w \in Geometries
  PROVE  /\ HrefCleanup(w) \in Geometries
         /\ HrefCleanup(w).mask = w.mask /\ HrefCleanup(w).surf = w.surf
         /\ ~PartGrid => HrefCleanup(w) = w
         /\ PartGrid => \A c \in Cells :
              /\ HrefCleanup(w).thk[c] = w.thk[c] + IF Joins(w, c) THEN w.href[c] ELSE 0
              /\ HrefCleanup(w).href[c] =
                   IF Joins(w, c) \/ ~NextToIce(w.mask, c) THEN 0 ELSE w.href[c]
<1>1. CASE PartGrid
  <2>1. PICK T : T = [c \in Cells |-> w.thk[c] + IF Joins(w, c) THEN w.href[c] ELSE 0]
    OBVIOUS
  <2>2. PICK F : F = [c \in Cells |-> IF Joins(w, c) \/ ~NextToIce(w.mask, c) THEN 0
                                      ELSE w.href[c]]
    OBVIOUS
  <2>3. T \in [Cells -> Nat] /\ F \in [Cells -> Nat]
    <3>1. \A c \in Cells : w.thk[c] \in Nat /\ w.href[c] \in Nat
      BY GeometryIs
    <3>2. ASSUME NEW c \in Cells
          PROVE  (w.thk[c] + IF Joins(w, c) THEN w.href[c] ELSE 0) \in Nat
      BY <3>1
    <3>3. T \in [Cells -> Nat]
      BY <2>1, <3>2
    <3>4. F \in [Cells -> Nat]
      BY <2>2, <3>1
    <3> QED
      BY <3>3, <3>4
  <2>4. HrefCleanup(w) = [w EXCEPT !.thk = T, !.href = F]
    BY <1>1, <2>1, <2>2 DEF HrefCleanup
  <2>5. PICK h : h = [w EXCEPT !.thk = T, !.href = F]
    OBVIOUS
  <2>6. h \in Geometries /\ h.thk = T /\ h.href = F /\ h.mask = w.mask /\ h.surf = w.surf
    BY <2>3, <2>5 DEF Geometries
  <2>7. \A c \in Cells : /\ h.thk[c] = w.thk[c] + IF Joins(w, c) THEN w.href[c] ELSE 0
                         /\ h.href[c] = IF Joins(w, c) \/ ~NextToIce(w.mask, c) THEN 0
                                        ELSE w.href[c]
    BY <2>1, <2>2, <2>6
  <2>8. HrefCleanup(w) = h
    BY <2>4, <2>5
  <2> QED
    BY <1>1, <2>6, <2>7, <2>8
<1>2. CASE ~PartGrid
  BY <1>2 DEF HrefCleanup
<1> QED
  BY <1>1, <1>2

LEMMA CleanupOnce ==
  ASSUME NEW w \in Geometries, NEW h, h = HrefCleanup(w)
  PROVE  HrefCleanup(h).thk = h.thk /\ HrefCleanup(h).href = h.href
<1>1. h \in Geometries /\ h.mask = w.mask
  BY CleanupIs
<1>2. CASE ~PartGrid
  BY <1>1, <1>2, CleanupIs
<1>3. CASE PartGrid
  <2>1. PICK k \in Geometries : k = HrefCleanup(h)
    BY <1>1, CleanupIs
  <2>2. ASSUME NEW c \in Cells PROVE k.thk[c] = h.thk[c] /\ k.href[c] = h.href[c]
    <3>1. /\ w.thk[c] \in Nat /\ w.href[c] \in Nat /\ h.thk[c] \in Nat /\ h.href[c] \in Nat
      BY <1>1, GeometryIs
    <3>2. /\ h.thk[c] = w.thk[c] + IF Joins(w, c) THEN w.href[c] ELSE 0
          /\ h.href[c] = IF Joins(w, c) \/ ~NextToIce(w.mask, c) THEN 0 ELSE w.href[c]
      BY <1>3, CleanupIs
    <3>3. /\ k.thk[c] = h.thk[c] + IF Joins(h, c) THEN h.href[c] ELSE 0
          /\ k.href[c] = IF Joins(h, c) \/ ~NextToIce(h.mask, c) THEN 0 ELSE h.href[c]
      BY <1>1, <1>3, <2>1, CleanupIs
    <3>4. ~Joins(h, c)
      BY <3>1, <3>2 DEF Joins
    <3>5. NextToIce(h.mask, c) <=> NextToIce(w.mask, c)
      BY <1>1
    <3> QED
      BY <3>1, <3>2, <3>3, <3>4, <3>5
  <2>3. /\ k.thk \in [Cells -> Nat] /\ k.href \in [Cells -> Nat]
        /\ h.thk \in [Cells -> Nat] /\ h.href \in [Cells -> Nat]
    BY <1>1, GeometryIs
  <2>4. k.thk = h.thk /\ k.href = h.href
    BY <2>2, <2>3
  <2> QED
    BY <2>1, <2>4
<1> QED
  BY <1>2, <1>3

(* What calving, the update and the cleanup leave of a geometry g.          *)
Unclean(g) == [thk |-> Updated(g.thk).thk, mask |-> Updated(g.thk).mask,
               surf |-> Updated(g.thk).surf, href |-> g.href]

LEMMA BeforeCleanup ==
  ASSUME NEW g \in Geometries
  PROVE  /\ Unclean(g) \in Geometries
         /\ Unclean(g).thk = Updated(g.thk).thk /\ Unclean(g).href = g.href
         /\ Unclean(g).mask = MaskOf(Unclean(g).thk)
         /\ Unclean(g).surf = SurfaceElev(Unclean(g).thk)
         /\ CleanedUp(g, Updated(g.thk)) = HrefCleanup(Unclean(g))
<1>1. PICK T : T = Updated(g.thk).thk
  OBVIOUS
<1>2. /\ T \in [Cells -> Nat] /\ Updated(g.thk).mask = MaskOf(T)
      /\ Updated(g.thk).surf = SurfaceElev(T) /\ g.href \in [Cells -> Nat]
  BY <1>1, UpdatedIs, GeometryIs
<1>3. Unclean(g) = [thk |-> T, mask |-> MaskOf(T), surf |-> SurfaceElev(T), href |-> g.href]
  BY <1>1, <1>2 DEF Unclean
<1>4. MaskOf(T) \in [Cells -> Types] /\ SurfaceElev(T) \in [Cells -> Int]
  BY <1>2, MaskType
<1>5. Unclean(g) \in Geometries
  BY <1>2, <1>3, <1>4 DEF Geometries
<1>6. CleanedUp(g, Updated(g.thk)) = HrefCleanup(Unclean(g))
  BY DEF CleanedUp, Unclean
<1> QED
  BY <1>1, <1>3, <1>5, <1>6

LEMMA CleanedUpIs ==
  ASSUME NEW g \in Geometries, NEW h, h = CleanedUp(g, Updated(g.thk))
  PROVE  /\ h \in Geometries
         /\ h.mask = MaskOf(Updated(g.thk).thk) /\ h.surf = SurfaceElev(Updated(g.thk).thk)
         /\ HrefCleanup(h).thk = h.thk /\ HrefCleanup(h).href = h.href
<1>1. PICK w \in Geometries : w = Unclean(g)
  BY BeforeCleanup
<1>2. h = HrefCleanup(w)
  BY <1>1, BeforeCleanup
<1> QED
  BY <1>1, <1>2, BeforeCleanup, CleanupIs, CleanupOnce

(* Where cells at sea lose all their ice, the discharge is the whole loss.  *)
LEMMA DischargeOfCell ==
  ASSUME NEW s \in Geometries, NEW g \in LostAtSea(s), NEW h,
         h = CleanedUp(g, Updated(g.thk)), NEW c \in Cells,
         s.href[c] > 0 => PartGrid /\ c \notin Land
  PROVE  h.thk[c] + h.href[c] - s.thk[c] - s.href[c] =
           IF IceFreeOcean(h.mask[c])
             THEN h.thk[c] - s.thk[c]
                  + (IF PartGrid
                       THEN IF h.href[c] > s.href[c] THEN 0 ELSE h.href[c] - s.href[c]
                       ELSE 0)
             ELSE 0
<1>1. g \in Geometries
  BY DEF LostAtSea
<1>2. PICK w \in Geometries : w = Unclean(g)
  BY <1>1, BeforeCleanup
<1>3. /\ w.thk = Updated(g.thk).thk /\ w.href = g.href /\ w.mask = MaskOf(w.thk)
      /\ h = HrefCleanup(w)
  BY <1>1, <1>2, BeforeCleanup
<1>4. h \in Geometries /\ h.mask = w.mask
  BY <1>3, CleanupIs
<1>5. /\ s.thk[c] \in Nat /\ s.href[c] \in Nat /\ g.thk[c] \in Nat /\ g.href[c] \in Nat
      /\ w.thk[c] \in Nat /\ w.href[c] \in Nat /\ h.thk[c] \in Nat /\ h.href[c] \in Nat
  BY <1>1, <1>4, GeometryIs
<1>6. \/ g.thk[c] = s.thk[c] /\ g.href[c] = s.href[c]
      \/ c \notin Land /\ g.thk[c] = 0 /\ g.href[c] <= s.href[c]
  BY DEF LostAtSea
<1>7. /\ w.thk[c] = 0 \/ w.thk[c] = g.thk[c]
      /\ w.thk[c] # g.thk[c] => c \notin Land
      /\ w.href[c] = g.href[c]
  <2>1. g.thk \in [Cells -> Nat]
    BY <1>1, GeometryIs
  <2> QED
    BY <1>3, <2>1, UpdatedIs
<1>8. /\ c \notin Land /\ w.thk[c] = 0 => IceFreeOcean(w.mask[c])
  <2>1. w.mask[c] = TypeOf(c, w.thk[c])
    BY <1>2, <1>3, MaskType, GeometryIs
  <2>2. ASSUME c \notin Land, w.thk[c] = 0 PROVE IceFreeOcean(w.mask[c])
    <3>1. Floats(c, 0) /\ 0 < IceFreeThickness
      BY <2>2, MaskAssumption DEF Land
    <3> QED
      BY <2>1, <2>2, <3>1 DEF TypeOf, IceFreeOcean
  <2> QED
    BY <2>2
<1>9. \/ w.thk[c] = s.thk[c] /\ w.href[c] = s.href[c]
      \/ c \notin Land /\ w.thk[c] = 0 /\ w.href[c] <= s.href[c]
  BY <1>5, <1>6, <1>7
<1>10. CASE ~PartGrid
  <2>1. h = w /\ s.href[c] = 0
    BY <1>3, <1>5, <1>10, CleanupIs
  <2>2. w.href[c] = 0 /\ h.thk[c] = w.thk[c] /\ h.href[c] = 0
    BY <1>5, <1>9, <2>1
  <2>3. CASE IceFreeOcean(h.mask[c])
    BY <1>5, <1>10, <2>1, <2>2, <2>3
  <2>4. CASE ~IceFreeOcean(h.mask[c])
    <3>1. w.thk[c] = s.thk[c]
      BY <1>4, <1>8, <1>9, <2>4
    <3> QED
      BY <1>5, <2>1, <2>2, <2>4, <3>1
  <2> QED
    BY <2>3, <2>4
<1>11. CASE PartGrid
  <2>1. /\ h.thk[c] = w.thk[c] + IF Joins(w, c) THEN w.href[c] ELSE 0
        /\ h.href[c] = IF Joins(w, c) \/ ~NextToIce(w.mask, c) THEN 0 ELSE w.href[c]
    BY <1>3, <1>11, CleanupIs
  <2>2. Joins(w, c) <=> w.thk[c] > 0 /\ w.href[c] > 0
    BY DEF Joins
  <2>3. w.href[c] <= s.href[c] /\ h.href[c] <= s.href[c]
    BY <1>5, <1>9, <2>1
  <2>4. CASE IceFreeOcean(h.mask[c])
    BY <1>5, <1>11, <2>3, <2>4
  <2>5. CASE ~IceFreeOcean(h.mask[c])
    <3>1. w.thk[c] = s.thk[c] /\ w.href[c] = s.href[c]
      BY <1>4, <1>8, <1>9, <2>5
    <3>2. w.href[c] > 0 => w.thk[c] > 0
      BY <1>4, <1>5, <1>8, <2>5, <3>1
    <3>3. h.thk[c] + h.href[c] = w.thk[c] + w.href[c]
      BY <1>5, <2>1, <2>2, <3>2
    <3> QED
      BY <1>5, <2>5, <3>1, <3>3
  <2> QED
    BY <2>4, <2>5
<1> QED
  BY <1>10, <1>11

LEMMA DischargeIs ==
  ASSUME NEW s \in Geometries, NEW g \in LostAtSea(s), NEW h,
         h = CleanedUp(g, Updated(g.thk)),
         \A c \in Cells : s.href[c] > 0 => PartGrid /\ c \notin Land
  PROVE  Discharge(h, s.thk, s.href) =
           CellArea * (Total(h.thk) + Total(h.href) - Total(s.thk) - Total(s.href))
<1> DEFINE Gain(c) == IF h.href[c] > s.href[c] THEN 0 ELSE h.href[c] - s.href[c]
           Change(c) == h.thk[c] - s.thk[c] + IF PartGrid THEN Gain(c) ELSE 0
<1>1. g \in Geometries
  BY DEF LostAtSea
<1>2. h \in Geometries
  BY <1>1, CleanedUpIs
<1>3. ASSUME NEW c \in Cells
      PROVE  s.thk[c] \in Nat /\ s.href[c] \in Nat /\ h.thk[c] \in Nat /\ h.href[c] \in Nat
  BY <1>2, GeometryIs
<1>4. PICK S \in SUBSET Cells : S = {c \in Cells : IceFreeOcean(h.mask[c])}
  OBVIOUS
<1>5. PICK f \in [Cells -> Int] : f = [c \in Cells |-> Change(c)]
  <2>1. \A c \in Cells : Change(c) \in Int
    BY <1>3
  <2> QED
    BY <2>1
<1>6. Discharge(h, s.thk, s.href) = CellArea * SumOver(S, f)
  BY <1>4, <1>5 DEF Discharge
<1>7. PICK all : all = [c \in Cells |-> h.thk[c] + h.href[c]]
  OBVIOUS
<1>8. PICK was : was = [c \in Cells |-> s.thk[c] + s.href[c]]
  OBVIOUS
<1>9. PICK d : d = [c \in Cells |-> all[c] - was[c]]
  OBVIOUS
<1>10. all \in [Cells -> Int] /\ was \in [Cells -> Int]
  BY <1>3, <1>7, <1>8
<1>11. d \in [Cells -> Int]
  BY <1>9, <1>10
<1>12. \A c \in Cells : d[c] = IF c \in S THEN f[c] ELSE 0
  <2>1. ASSUME NEW c \in Cells PROVE d[c] = IF c \in S THEN f[c] ELSE 0
    <3>1. d[c] = h.thk[c] + h.href[c] - s.thk[c] - s.href[c]
      BY <1>3, <1>7, <1>8, <1>9
    <3>2. h.thk[c] + h.href[c] - s.thk[c] - s.href[c] =
            IF IceFreeOcean(h.mask[c]) THEN Change(c) ELSE 0
      BY DischargeOfCell
    <3>3. f[c] = Change(c) /\ (c \in S <=> IceFreeOcean(h.mask[c]))
      BY <1>4, <1>5
    <3> HIDE DEF Change
    <3> QED
      BY <3>1, <3>2, <3>3
  <2> QED
    BY <2>1
<1>13. SumOver(S, f) = Total(d)
  BY <1>11, <1>12, SumMasked
<1>14. /\ h.thk \in [Cells -> Int] /\ h.href \in [Cells -> Int]
       /\ s.thk \in [Cells -> Int] /\ s.href \in [Cells -> Int]
  BY <1>2, GeometryIs
<1>15. Total(d) = Total(all) - Total(was)
  <2>1. \A c \in Cells : d[c] = all[c] - was[c]
    BY <1>9
  <2> QED
    BY <1>10, <1>11, <2>1, SumMinus DEF Total
<1>16. Total(all) = Total(h.thk) + Total(h.href)
  <2>1. \A c \in Cells : all[c] = h.thk[c] + h.href[c]
    BY <1>7
  <2> QED
    BY <1>10, <1>14, <2>1, SumPlus DEF Total
<1>17. Total(was) = Total(s.thk) + Total(s.href)
  <2>1. \A c \in Cells : was[c] = s.thk[c] + s.href[c]
    BY <1>8
  <2> QED
    BY <1>10, <1>14, <2>1, SumPlus DEF Total
<1>18. /\ Total(h.thk) \in Int /\ Total(h.href) \in Int
       /\ Total(s.thk) \in Int /\ Total(s.href) \in Int
  BY <1>14, SumType DEF Total
<1>19. SumOver(S, f) = Total(h.thk) + Total(h.href) - Total(s.thk) - Total(s.href)
  BY <1>13, <1>15, <1>16, <1>17, <1>18
<1> QED
  BY <1>6, <1>19

-----------------------------------------------------------------------------
(* Type correctness.  The redistribution goes on only while it has          *)
(* iterations left, and every flux is a number.                             *)
Fluxes == [surface : Int, grounded : Int, shelf : Int, nonneg : Int, divQ : Int,
           land : Int, ocean : Int, discharge : Int]

TypeInv ==
  /\ setup \in Setups
  /\ pc \in {"step", "transport", "redistribute", "update", "calving"}
  /\ thk \in [Cells -> Nat] /\ href \in [Cells -> Nat]
  /\ mask \in [Cells -> Types] /\ surf \in [Cells -> Int]
  /\ residual \in [Cells -> Nat] /\ work \in [Cells -> Nat]
  /\ loop \in 0 .. 3 /\ (pc = "redistribute" => loop < 3)
  /\ dropped \in Nat /\ steps \in 0 .. MaxSteps
  /\ flux \in Fluxes

LEMMA TypeInvGivesTypeOK == TypeInv => TypeOK
<1> SUFFICES ASSUME TypeInv PROVE TypeOK
  OBVIOUS
<1>1. \A k \in DOMAIN flux : flux[k] \in Int
  BY DEF TypeInv, Fluxes
<1> QED
  BY <1>1 DEF TypeInv, TypeOK, MaxLoopCount

LEMMA GeometryType == TypeInv => Geometry \in Geometries
BY DEF TypeInv, Geometry, Geometries

LEMMA SetupIs ==
  ASSUME NEW s \in Setups
  PROVE  /\ \A g \in s.ice : g.thk \in [Cells -> Nat] /\ g.href \in [Cells -> Nat]
         /\ \A rate \in s.rates : rate \in [Cells -> Nat]
         /\ s.redist \in BOOLEAN /\ s.subgl \in BOOLEAN /\ s.killIcebergs \in BOOLEAN
         /\ s.saveOld \in BOOLEAN
<1>1. /\ {s.redist, s.subgl, s.killIcebergs, s.saveOld} \subseteq BOOLEAN
      /\ s.ice \subseteq [thk : [Cells -> Nat], href : [Cells -> Nat]]
      /\ s.rates \subseteq [Cells -> Nat]
  BY IceMassAssumption
<1> QED
  BY <1>1

LEMMA ForcingIs ==
  ASSUME NEW f \in Forcings
  PROVE  f \in ForcingType
BY IceMassAssumption DEF ForcingType

(* The update of the mask, as a step.                                       *)
LEMMA UpdateIs ==
  ASSUME thk \in [Cells -> Nat], Update(thk)
  PROVE  /\ thk' = Updated(thk).thk
         /\ thk' \in [Cells -> Nat] /\ mask' = MaskOf(thk') /\ surf' = SurfaceElev(thk')
         /\ mask' \in [Cells -> Types] /\ surf' \in [Cells -> Int]
         /\ AtSea(mask')
<1>1. PICK u : u = Updated(thk)
  OBVIOUS
<1>2. thk' = u.thk /\ mask' = u.mask /\ surf' = u.surf
  BY <1>1 DEF Update
<1>3. PICK T : T = thk'
  OBVIOUS
<1>4. T \in [Cells -> Nat] /\ u.mask = MaskOf(T) /\ u.surf = SurfaceElev(T)
  BY <1>1, <1>2, <1>3, UpdatedIs
<1>5. MaskOf(T) \in [Cells -> Types] /\ SurfaceElev(T) \in [Cells -> Int] /\ AtSea(MaskOf(T))
  BY <1>4, MaskType, OceanIsAtSea
<1>6. MaskOf(T) = MaskOf(thk') /\ SurfaceElev(T) = SurfaceElev(thk')
  BY <1>3
<1> QED
  BY <1>1, <1>2, <1>3, <1>4, <1>5, <1>6

LEMMA TotalType ==
  /\ \A f \in [Cells -> Int] : Total(f) \in Int
  /\ \A f \in [Cells -> Nat] : Total(f) \in Nat
<1>1. Cells \in SUBSET Cells
  OBVIOUS
<1>2. ASSUME NEW f \in [Cells -> Int] PROVE Total(f) \in Int
  BY <1>1, SumType DEF Total
<1>3. ASSUME NEW f \in [Cells -> Nat] PROVE Total(f) \in Nat
  BY <1>1, SumPositive DEF Total
<1> QED
  BY <1>2, <1>3

LEMMA AreaTimes ==
  ASSUME NEW x \in Int
  PROVE  CellArea * x \in Int /\ (x >= 0 => CellArea * x >= 0)
<1>1. CellArea \in Nat
  BY IceMassAssumption
<1>2. PICK a \in Nat : a = CellArea
  BY <1>1
<1>3. a * x \in Int
  OBVIOUS
<1>4. x >= 0 => a * x >= 0
  <2>1. ASSUME x >= 0 PROVE a * x >= a * 0
    <3>1. PICK y \in Nat : y = x
      BY <2>1
    <3>2. a * y >= a * 0
      BY Factors
    <3> QED
      BY <3>1, <3>2
  <2>2. a * 0 = 0
    OBVIOUS
  <2> QED
    BY <2>1, <2>2
<1> QED
  BY <1>2, <1>3, <1>4

(* What a mass continuity step reports.                                     *)
Smb(u)    == [c \in Cells |-> u[c].smb]
Bmr(u)    == [c \in Cells |-> u[c].bmr]
Nonneg(u) == [c \in Cells |-> u[c].nonneg]
DivQ(u)   == [c \in Cells |-> u[c].divQ]

Wet(s) == {c \in Cells : Ocean(s.mask[c])}

LEMMA ReportedIs ==
  ASSUME flux \in Fluxes, NEW s \in Geometries, NEW f \in ForcingType,
         NEW u, u = [c \in Cells |-> CellUpdate(s, f, c)]
  PROVE  /\ Smb(u) \in [Cells -> Int] /\ Bmr(u) \in [Cells -> Int]
         /\ Nonneg(u) \in [Cells -> Int] /\ DivQ(u) \in [Cells -> Int]
         /\ Reported(s, u) \in Fluxes
         /\ Reported(s, u).surface  = flux.surface + CellArea * Total(Smb(u))
         /\ Reported(s, u).grounded = flux.grounded - CellArea * SumOver(Cells \ Wet(s), Bmr(u))
         /\ Reported(s, u).shelf    = flux.shelf - CellArea * SumOver(Wet(s), Bmr(u))
         /\ Reported(s, u).nonneg   = flux.nonneg + CellArea * Total(Nonneg(u))
         /\ Reported(s, u).divQ     = flux.divQ - CellArea * Total(DivQ(u))
         /\ Reported(s, u).discharge = flux.discharge
<1>1. ASSUME NEW c \in Cells
      PROVE  u[c].smb \in Int /\ u[c].bmr \in Int /\ u[c].nonneg \in Int /\ u[c].divQ \in Int
  <2>1. u[c] = CellUpdate(s, f, c)
    OBVIOUS
  <2> QED
    BY <2>1, CellUpdateType
<1>2. /\ Smb(u) \in [Cells -> Int] /\ Bmr(u) \in [Cells -> Int]
      /\ Nonneg(u) \in [Cells -> Int] /\ DivQ(u) \in [Cells -> Int]
  BY <1>1 DEF Smb, Bmr, Nonneg, DivQ
<1>3. PICK source \in [Cells -> Int] : source = [c \in Cells |-> u[c].smb - u[c].bmr]
  <2>1. \A c \in Cells : u[c].smb - u[c].bmr \in Int
    BY <1>1
  <2> QED
    BY <2>1
<1>4. PICK sea \in SUBSET Cells : sea = {c \in Wet(s) : ~Lake(s.mask, c)}
  BY DEF Wet
<1>5. Wet(s) \in SUBSET Cells /\ Cells \ Wet(s) \in SUBSET Cells /\ Cells \ sea \in SUBSET Cells
  BY DEF Wet
<1>6. PICK a \in Int, b \in Int, d \in Int, e \in Int, k \in Int, l \in Int, m \in Int :
        /\ a = CellArea * Total(Smb(u))
        /\ b = CellArea * SumOver(Cells \ Wet(s), Bmr(u))
        /\ d = CellArea * SumOver(Wet(s), Bmr(u))
        /\ e = CellArea * Total(Nonneg(u))
        /\ k = CellArea * Total(DivQ(u))
        /\ l = SumOver(Cells \ sea, source)
        /\ m = SumOver(sea, source)
  <2>1. Total(Smb(u)) \in Int /\ Total(Nonneg(u)) \in Int /\ Total(DivQ(u)) \in Int
    BY <1>2, TotalType
  <2>2. SumOver(Cells \ Wet(s), Bmr(u)) \in Int /\ SumOver(Wet(s), Bmr(u)) \in Int
    BY <1>2, <1>5, SumType
  <2>3. SumOver(Cells \ sea, source) \in Int /\ SumOver(sea, source) \in Int
    BY <1>3, <1>4, <1>5, SumType
  <2> QED
    BY <2>1, <2>2, <2>3, AreaTimes
<1>7. Reported(s, u) =
        [flux EXCEPT !.surface = flux.surface + a, !.grounded = flux.grounded - b,
                     !.shelf = flux.shelf - d, !.nonneg = flux.nonneg + e,
                     !.divQ = flux.divQ - k, !.land = flux.land + l, !.ocean = flux.ocean + m]
  BY <1>3, <1>4, <1>6 DEF Reported, Smb, Bmr, Nonneg, DivQ, Wet
<1>8. /\ flux.surface \in Int /\ flux.grounded \in Int /\ flux.shelf \in Int
      /\ flux.nonneg \in Int /\ flux.divQ \in Int /\ flux.land \in Int /\ flux.ocean \in Int
  BY DEF Fluxes
<1>9. PICK r : r = Reported(s, u)
  OBVIOUS
<1>10. /\ r \in Fluxes /\ r.surface = flux.surface + a /\ r.grounded = flux.grounded - b
       /\ r.shelf = flux.shelf - d /\ r.nonneg = flux.nonneg + e /\ r.divQ = flux.divQ - k
       /\ r.discharge = flux.discharge
  <2>1. r = [surface |-> flux.surface + a, grounded |-> flux.grounded - b,
             shelf |-> flux.shelf - d, nonneg |-> flux.nonneg + e, divQ |-> flux.divQ - k,
             land |-> flux.land + l, ocean |-> flux.ocean + m, discharge |-> flux.discharge]
    BY <1>7, <1>9 DEF Fluxes
  <2>2. /\ flux.surface + a \in Int /\ flux.grounded - b \in Int /\ flux.shelf - d \in Int
        /\ flux.nonneg + e \in Int /\ flux.divQ - k \in Int /\ flux.land + l \in Int
        /\ flux.ocean + m \in Int /\ flux.discharge \in Int
    BY <1>8 DEF Fluxes
  <2> QED
    BY <2>1, <2>2 DEF Fluxes
<1> QED
  BY <1>2, <1>6, <1>9, <1>10

-----------------------------------------------------------------------------
(* The two actions that do most, taken apart.                               *)
LEMMA TransportIs ==
  ASSUME TypeInv, MassContExplicitStep
  PROVE  \E f, u :
           /\ f \in Forcings /\ f \in ForcingType /\ Geometry \in Geometries
           /\ u = [c \in Cells |-> CellUpdate(Geometry, f, c)]
           /\ thk' = [c \in Cells |-> u[c].thk]
           /\ href' = [c \in Cells |-> u[c].href]
           /\ residual' = IF setup.redist THEN [c \in Cells |-> u[c].residual] ELSE residual
           /\ flux' = Reported(Geometry, u)
           /\ \A c \in Cells : u[c].thk \in Nat /\ u[c].href \in Nat /\ u[c].residual \in Nat
<1>1. PICK f \in Forcings : \E u \in {[c \in Cells |-> CellUpdate(Geometry, f, c)]} :
        /\ thk' = [c \in Cells |-> u[c].thk]
        /\ href' = [c \in Cells |-> u[c].href]
        /\ residual' = IF setup.redist THEN [c \in Cells |-> u[c].residual] ELSE residual
        /\ flux' = Reported(Geometry, u)
  BY DEF MassContExplicitStep
<1>2. PICK u : /\ u = [c \in Cells |-> CellUpdate(Geometry, f, c)]
               /\ thk' = [c \in Cells |-> u[c].thk]
               /\ href' = [c \in Cells |-> u[c].href]
               /\ residual' = IF setup.redist THEN [c \in Cells |-> u[c].residual] ELSE residual
               /\ flux' = Reported(Geometry, u)
  BY <1>1
<1>3. f \in ForcingType /\ Geometry \in Geometries
  BY ForcingIs, GeometryType
<1>4. \A c \in Cells : u[c].thk \in Nat /\ u[c].href \in Nat /\ u[c].residual \in Nat
  <2>1. \A c \in Cells : u[c] = CellUpdate(Geometry, f, c)
    BY <1>2
  <2> QED
    BY <1>3, <2>1, CellUpdateType
<1> QED
  BY <1>2, <1>3, <1>4

LEMMA RedistributionIs ==
  ASSUME TypeInv, ResidualRedistribution
  PROVE  \E r \in Workings :
           /\ r = RedistributionIteration(thk, href, residual, setup.rankOf)
           /\ thk' = r.thk /\ href' = r.href /\ residual' = r.residual
           /\ mask' = r.mask /\ surf' = r.surf
           /\ \/ /\ pc' = "update" /\ dropped' = dropped + CellArea * Total(r.residual)
              \/ pc' = "redistribute" /\ dropped' = dropped /\ loop + 1 # 3
<1>1. PICK r : /\ r = RedistributionIteration(thk, href, residual, setup.rankOf)
               /\ thk' = r.thk /\ href' = r.href /\ residual' = r.residual
               /\ mask' = r.mask /\ surf' = r.surf
               /\ IF Total(r.residual) = 0 \/ loop + 1 = MaxLoopCount
                  THEN pc' = "update" /\ dropped' = dropped + CellArea * Total(r.residual)
                  ELSE pc' = "redistribute" /\ UNCHANGED dropped
  BY DEF ResidualRedistribution
<1>2. r \in Workings
  BY <1>1, IterationIs DEF TypeInv
<1> QED
  BY <1>1, <1>2 DEF MaxLoopCount

LEMMA DoCalvingIs ==
  ASSUME TypeInv, DoCalving
  PROVE  \E rate \in setup.rates, g \in Geometries, h \in Geometries :
           /\ rate \in [Cells -> Nat] /\ Geometry \in Geometries
           /\ g = Calved(Geometry, rate) /\ g \in Thinned(Geometry)
           /\ h = CleanedUp(g, Updated(g.thk))
           /\ thk' = h.thk /\ href' = h.href
           /\ mask' = MaskOf(Updated(g.thk).thk) /\ surf' = SurfaceElev(Updated(g.thk).thk)
           /\ mask' = h.mask /\ surf' = h.surf
           /\ flux' = [flux EXCEPT !.discharge = @ + Discharge(h, OldH, OldHref),
                                   !.ocean = @ + Discharge(h, OldH, OldHref)]
<1>1. PICK rate \in setup.rates : \E g \in {Calved(Geometry, rate)} :
        \E h \in {CleanedUp(g, Updated(g.thk))} : \E lost \in {Discharge(h, OldH, OldHref)} :
          /\ flux' = [flux EXCEPT !.discharge = @ + lost, !.ocean = @ + lost]
          /\ \E k \in {HrefCleanup(h)} : thk' = k.thk /\ href' = k.href
          /\ mask' = h.mask /\ surf' = h.surf
  BY DEF DoCalving
<1>2. PICK g, h :
        /\ g = Calved(Geometry, rate) /\ h = CleanedUp(g, Updated(g.thk))
        /\ flux' = [flux EXCEPT !.discharge = @ + Discharge(h, OldH, OldHref),
                                !.ocean = @ + Discharge(h, OldH, OldHref)]
        /\ thk' = HrefCleanup(h).thk /\ href' = HrefCleanup(h).href
        /\ mask' = h.mask /\ surf' = h.surf
  BY <1>1
<1>3. rate \in [Cells -> Nat] /\ Geometry \in Geometries
  BY SetupIs, GeometryType DEF TypeInv
<1>4. g \in Thinned(Geometry)
  BY <1>2, <1>3, CalvedIs
<1>5. g \in Geometries
  BY <1>4 DEF Thinned
<1>6. /\ h \in Geometries /\ h.mask = MaskOf(Updated(g.thk).thk)
      /\ h.surf = SurfaceElev(Updated(g.thk).thk)
      /\ HrefCleanup(h).thk = h.thk /\ HrefCleanup(h).href = h.href
  BY <1>2, <1>5, CleanedUpIs
<1> QED
  BY <1>2, <1>3, <1>4, <1>5, <1>6

LEMMA DischargeType ==
  ASSUME NEW h \in Geometries, NEW H \in [Cells -> Nat], NEW F \in [Cells -> Nat]
  PROVE  Discharge(h, H, F) \in Int
<1> DEFINE Gain(c) == IF h.href[c] > F[c] THEN 0 ELSE h.href[c] - F[c]
           Change(c) == h.thk[c] - H[c] + IF PartGrid THEN Gain(c) ELSE 0
<1>1. ASSUME NEW c \in Cells PROVE Change(c) \in Int
  <2>1. h.thk[c] \in Nat /\ h.href[c] \in Nat /\ H[c] \in Nat /\ F[c] \in Nat
    BY GeometryIs
  <2> QED
    BY <2>1
<1>2. PICK f \in [Cells -> Int] : f = [c \in Cells |-> Change(c)]
  <2> HIDE DEF Change
  <2> QED
    BY <1>1
<1>3. PICK S \in SUBSET Cells : S = {c \in Cells : IceFreeOcean(h.mask[c])}
  OBVIOUS
<1>4. Discharge(h, H, F) = CellArea * SumOver(S, f)
  BY <1>2, <1>3 DEF Discharge
<1> QED
  BY <1>4, SumType, AreaTimes

LEMMA OldType == TypeInv => OldH \in [Cells -> Nat] /\ OldHref \in [Cells -> Nat]
BY DEF TypeInv, OldH, OldHref

LEMMA ZeroType == Zero \in [Cells -> Nat] /\ \A c \in Cells : Zero[c] = 0
BY DEF Zero

LEMMA InitIs ==
  ASSUME Init
  PROVE  \E g \in setup.ice : /\ g.thk \in [Cells -> Nat] /\ g.href \in [Cells -> Nat]
                              /\ thk = Updated(g.thk).thk /\ href = g.href
                              /\ mask = MaskOf(thk) /\ surf = SurfaceElev(thk)
                              /\ thk \in [Cells -> Nat] /\ href \in [Cells -> Nat]
                              /\ mass0 = CellArea * (Total(thk) + Total(href))
<1>1. PICK g \in setup.ice : \E u \in {Updated(g.thk)} :
        /\ thk = u.thk /\ mask = u.mask /\ surf = u.surf /\ href = g.href
        /\ mass0 = CellArea * (Total(u.thk) + Total(g.href))
  BY DEF Init
<1>2. g.thk \in [Cells -> Nat] /\ g.href \in [Cells -> Nat]
  BY SetupIs DEF Init
<1>3. /\ Updated(g.thk).thk \in [Cells -> Nat]
      /\ Updated(g.thk).mask = MaskOf(Updated(g.thk).thk)
      /\ Updated(g.thk).surf = SurfaceElev(Updated(g.thk).thk)
  BY <1>2, UpdatedIs
<1> QED
  BY <1>1, <1>2, <1>3

LEMMA InitType == Init => TypeInv
<1> SUFFICES ASSUME Init PROVE TypeInv
  OBVIOUS
<1>1. /\ setup \in Setups /\ pc = "step" /\ residual = Zero /\ work = Zero
      /\ loop = 0 /\ flux = NoFlux /\ dropped = 0 /\ steps = 0
  BY DEF Init
<1>2. thk \in [Cells -> Nat] /\ href \in [Cells -> Nat]
  BY InitIs
<1>3. mask \in [Cells -> Types] /\ surf \in [Cells -> Int]
  BY InitIs, MaskType
<1>4. flux \in Fluxes
  BY <1>1 DEF NoFlux, Fluxes
<1>5. 0 \in 0 .. MaxSteps
  BY IceMassAssumption
<1> QED
  BY <1>1, <1>2, <1>3, <1>4, <1>5, ZeroType DEF TypeInv

LEMMA StepType == TypeInv /\ [Next]_vars => TypeInv'
<1> SUFFICES ASSUME TypeInv, [Next]_vars PROVE TypeInv'
  OBVIOUS
<1>0. CASE UNCHANGED vars
  BY <1>0 DEF vars, TypeInv
<1>1. CASE BeginStep
  <2>1. /\ setup' = setup /\ pc' = "transport" /\ href' = href /\ residual' = residual
        /\ work' = work /\ loop' = loop /\ flux' = flux /\ dropped' = dropped
        /\ steps' = steps + 1 /\ steps < MaxSteps
    BY <1>1 DEF BeginStep
  <2>2. thk' \in [Cells -> Nat] /\ mask' \in [Cells -> Types] /\ surf' \in [Cells -> Int]
    <3>1. CASE setup.subgl
      BY <1>1, <3>1, UpdateIs DEF BeginStep, TypeInv
    <3>2. CASE ~setup.subgl
      BY <1>1, <3>2 DEF BeginStep, TypeInv
    <3> QED
      BY <3>1, <3>2
  <2>3. steps' \in 0 .. MaxSteps
    <3>1. MaxSteps \in Nat /\ steps \in 0 .. MaxSteps
      BY IceMassAssumption DEF TypeInv
    <3> QED
      BY <2>1, <3>1
  <2> QED
    BY <2>1, <2>2, <2>3 DEF TypeInv
<1>2. CASE MassContExplicitStep
  <2>1. PICK f, u :
           /\ f \in Forcings /\ f \in ForcingType /\ Geometry \in Geometries
           /\ u = [c \in Cells |-> CellUpdate(Geometry, f, c)]
           /\ thk' = [c \in Cells |-> u[c].thk]
           /\ href' = [c \in Cells |-> u[c].href]
           /\ residual' = IF setup.redist THEN [c \in Cells |-> u[c].residual] ELSE residual
           /\ flux' = Reported(Geometry, u)
           /\ \A c \in Cells : u[c].thk \in Nat /\ u[c].href \in Nat /\ u[c].residual \in Nat
    BY <1>2, TransportIs
  <2>2. /\ setup' = setup /\ mask' = mask /\ surf' = surf /\ dropped' = dropped
        /\ steps' = steps /\ loop' = 0 /\ work' = thk'
        /\ pc' = IF setup.redist THEN "redistribute" ELSE "update"
    BY <1>2 DEF MassContExplicitStep
  <2>3. thk' \in [Cells -> Nat] /\ href' \in [Cells -> Nat]
    BY <2>1
  <2>4. residual' \in [Cells -> Nat]
    <3>1. CASE setup.redist
      BY <2>1, <3>1
    <3>2. CASE ~setup.redist
      BY <2>1, <3>2 DEF TypeInv
    <3> QED
      BY <3>1, <3>2
  <2>5. flux' \in Fluxes
    <3>1. flux \in Fluxes
      BY DEF TypeInv
    <3> QED
      BY <2>1, <3>1, ReportedIs
  <2>6. pc' \in {"redistribute", "update"}
    BY <2>2
  <2> QED
    BY <2>2, <2>3, <2>4, <2>5, <2>6 DEF TypeInv
<1>3. CASE ResidualRedistribution
  <2>1. PICK r \in Workings :
           /\ r = RedistributionIteration(thk, href, residual, setup.rankOf)
           /\ thk' = r.thk /\ href' = r.href /\ residual' = r.residual
           /\ mask' = r.mask /\ surf' = r.surf
           /\ \/ /\ pc' = "update" /\ dropped' = dropped + CellArea * Total(r.residual)
              \/ pc' = "redistribute" /\ dropped' = dropped /\ loop + 1 # 3
    BY <1>3, RedistributionIs
  <2>2. /\ setup' = setup /\ work' = work /\ flux' = flux /\ steps' = steps
        /\ loop' = loop + 1 /\ pc = "redistribute"
    BY <1>3 DEF ResidualRedistribution
  <2>3. /\ thk' \in [Cells -> Nat] /\ href' \in [Cells -> Nat] /\ residual' \in [Cells -> Nat]
        /\ mask' \in [Cells -> Types] /\ surf' \in [Cells -> Int]
    BY <2>1 DEF Workings
  <2>4. loop \in 0 .. 3 /\ loop < 3
    BY <2>2 DEF TypeInv
  <2>5. loop' \in 0 .. 3 /\ (pc' = "redistribute" => loop' < 3)
    BY <2>1, <2>2, <2>4
  <2>6. dropped' \in Nat
    <3>1. r.residual \in [Cells -> Nat] /\ dropped \in Nat
      BY DEF Workings, TypeInv
    <3>2. PICK t \in Nat : t = Total(r.residual)
      BY <3>1, TotalType
    <3>3. CellArea * t \in Nat
      BY AreaTimes
    <3>4. dropped' = dropped \/ dropped' = dropped + CellArea * t
      BY <2>1, <3>2
    <3> QED
      BY <3>1, <3>3, <3>4
  <2> QED
    BY <2>1, <2>2, <2>3, <2>5, <2>6 DEF TypeInv
<1>4. CASE UpdateSurfaceElevationAndMask
  <2>1. thk' \in [Cells -> Nat] /\ mask' \in [Cells -> Types] /\ surf' \in [Cells -> Int]
    BY <1>4, UpdateIs DEF UpdateSurfaceElevationAndMask, TypeInv
  <2>2. /\ pc' = "calving" /\ setup' = setup /\ href' = href /\ residual' = residual
        /\ work' = work /\ loop' = loop /\ flux' = flux /\ dropped' = dropped /\ steps' = steps
    BY <1>4 DEF UpdateSurfaceElevationAndMask
  <2> QED
    BY <2>1, <2>2 DEF TypeInv
<1>5. CASE DoCalving
  <2>1. PICK rate \in setup.rates, g \in Geometries, h \in Geometries :
           /\ thk' = h.thk /\ href' = h.href /\ mask' = h.mask /\ surf' = h.surf
           /\ flux' = [flux EXCEPT !.discharge = @ + Discharge(h, OldH, OldHref),
                                   !.ocean = @ + Discharge(h, OldH, OldHref)]
    BY <1>5, DoCalvingIs
  <2>2. /\ work' = OldH /\ residual' = OldHref /\ pc' = "step" /\ setup' = setup
        /\ loop' = loop /\ dropped' = dropped /\ steps' = steps
    BY <1>5 DEF DoCalving
  <2>3. /\ thk' \in [Cells -> Nat] /\ href' \in [Cells -> Nat]
        /\ mask' \in [Cells -> Types] /\ surf' \in [Cells -> Int]
    BY <2>1, GeometryIs
  <2>4. PICK lost \in Int : lost = Discharge(h, OldH, OldHref)
    BY OldType, DischargeType
  <2>5. flux' \in Fluxes
    <3>1. flux' = [flux EXCEPT !.discharge = flux.discharge + lost, !.ocean = flux.ocean + lost]
      BY <2>1, <2>4
    <3>2. flux \in Fluxes /\ flux.discharge + lost \in Int /\ flux.ocean + lost \in Int
      BY DEF TypeInv, Fluxes
    <3> QED
      BY <3>1, <3>2 DEF Fluxes
  <2> QED
    BY <2>2, <2>3, <2>5, OldType DEF TypeInv
<1> QED
  BY <1>0, <1>1, <1>2, <1>3, <1>4, <1>5 DEF Next

(* The geometry, the fields of the redistribution and the fluxes have their *)
(* types in every state, and no thickness or filling is negative, however   *)
(* the nonnegativity rule, the redistribution and calving change them.      *)
THEOREM TypeIsInvariant == Spec => []TypeInv
<1>1. Init => TypeInv
  BY InitType
<1>2. TypeInv /\ [Next]_vars => TypeInv'
  BY StepType
<1> QED
  BY <1>1, <1>2, PTL DEF Spec

(* The same for the type invariant that the model checker tests.            *)
THEOREM TypeCorrect == Spec => []TypeOK
<1>1. TypeInv => TypeOK
  BY TypeInvGivesTypeOK
<1> QED
  BY <1>1, TypeIsInvariant, PTL

-----------------------------------------------------------------------------
(* The flow only moves ice.                                                 *)
LEMMA DivergencesOf ==
  ASSUME BCMask = {}, NEW s \in Geometries, NEW f \in ForcingType,
         NEW u, u = [c \in Cells |-> CellUpdate(s, f, c)]
  PROVE  /\ \A c \in Cells : DivQ(u)[c] = Div(s, f, c)
         /\ Total(DivQ(u)) = 0
<1>1. ASSUME NEW c \in Cells PROVE u[c].divQ = Div(s, f, c)
  <2>1. u[c] = CellUpdate(s, f, c)
    OBVIOUS
  <2>2. ~Prescribed(c)
    BY DEF Prescribed
  <2> QED
    BY <2>1, <2>2, CellUpdateIs
<1>2. DivQ(u) = [c \in Cells |-> Div(s, f, c)]
  BY <1>1 DEF DivQ
<1>3. s.thk \in [Cells -> Nat]
  BY GeometryIs
<1> QED
  BY <1>2, <1>3, NoDivergence

DivergenceInv == TypeInv /\ NoNetDivergence

(* What flows out of one side of an interface flows in on the other, in     *)
(* every step and on every grid (adjust_flow, cell_interface_fluxes), as    *)
(* long as no velocities are prescribed: cells with prescribed velocities   *)
(* keep their thickness whatever their neighbours exchange with them.       *)
THEOREM FlowMovesIce == BCMask = {} /\ Spec => []NoNetDivergence
<1> SUFFICES ASSUME BCMask = {} PROVE Spec => []NoNetDivergence
  OBVIOUS
<1>1. Init => DivergenceInv
  <2>1. Init => flux.divQ = 0
    BY DEF Init, NoFlux
  <2> QED
    BY <2>1, InitType DEF DivergenceInv, NoNetDivergence
<1>2. DivergenceInv /\ [Next]_vars => DivergenceInv'
  <2> SUFFICES ASSUME DivergenceInv, [Next]_vars PROVE DivergenceInv'
    OBVIOUS
  <2>1. TypeInv /\ flux.divQ = 0 /\ flux \in Fluxes
    BY DEF DivergenceInv, NoNetDivergence, TypeInv
  <2>2. TypeInv'
    BY <2>1, StepType
  <2>3. CASE flux' = flux
    BY <2>1, <2>2, <2>3 DEF DivergenceInv, NoNetDivergence
  <2>4. CASE MassContExplicitStep
    <3>1. PICK f, u :
            /\ f \in Forcings /\ f \in ForcingType /\ Geometry \in Geometries
            /\ u = [c \in Cells |-> CellUpdate(Geometry, f, c)]
            /\ flux' = Reported(Geometry, u)
      BY <2>1, <2>4, TransportIs
    <3>2. flux'.divQ = flux.divQ - CellArea * Total(DivQ(u))
      BY <2>1, <3>1, ReportedIs
    <3>3. Total(DivQ(u)) = 0
      BY <3>1, DivergencesOf
    <3>4. CellArea * 0 = 0
      BY IceMassAssumption
    <3>5. flux'.divQ = 0
      BY <2>1, <3>2, <3>3, <3>4
    <3> QED
      BY <2>2, <3>5 DEF DivergenceInv, NoNetDivergence
  <2>5. CASE DoCalving
    <3>1. PICK lost : flux' = [flux EXCEPT !.discharge = flux.discharge + lost,
                                           !.ocean = flux.ocean + lost]
      <4>1. PICK h : flux' = [flux EXCEPT !.discharge = @ + Discharge(h, OldH, OldHref),
                                          !.ocean = @ + Discharge(h, OldH, OldHref)]
        BY <2>1, <2>5, DoCalvingIs
      <4> QED
        BY <4>1
    <3>2. flux'.divQ = flux.divQ
      BY <2>1, <3>1 DEF Fluxes
    <3> QED
      BY <2>1, <2>2, <3>2 DEF DivergenceInv, NoNetDivergence
  <2>6. CASE BeginStep
    BY <2>3, <2>6 DEF BeginStep
  <2>7. CASE ResidualRedistribution
    BY <2>3, <2>7 DEF ResidualRedistribution
  <2>8. CASE UpdateSurfaceElevationAndMask
    BY <2>3, <2>8 DEF UpdateSurfaceElevationAndMask
  <2>9. CASE UNCHANGED vars
    BY <2>3, <2>9 DEF vars
  <2> QED
    BY <2>4, <2>5, <2>6, <2>7, <2>8, <2>9 DEF Next
<1>3. DivergenceInv => NoNetDivergence
  BY DEF DivergenceInv
<1> QED
  BY <1>1, <1>2, <1>3, PTL DEF Spec

-----------------------------------------------------------------------------
(* The state after a step.                                                  *)

(* do_calving() meets no cell that has both ice and a partial filling, which *)
(* is what Href_cleanup() says of the code before it.                       *)
NoJoining ==
  pc = "calving" => \A c \in Cells : ~(thk[c] > 0 /\ href[c] > 0)

(* Calving and the cleanup leave cells that had no ice and a filling alone. *)
LEMMA NothingJoins ==
  ASSUME TypeInv, NoJoining, DoCalving, NEW g \in Thinned(Geometry)
  PROVE  \A c \in Cells : ~Joins(Unclean(g), c)
<1> SUFFICES ASSUME NEW c \in Cells, Joins(Unclean(g), c) PROVE FALSE
  OBVIOUS
<1>1. pc = "calving"
  BY DEF DoCalving
<1>2. g \in Geometries
  BY DEF Thinned
<1>3. /\ Unclean(g).thk[c] > 0 /\ Unclean(g).href[c] > 0
      /\ Unclean(g).thk = Updated(g.thk).thk /\ Unclean(g).href = g.href
  BY <1>2, BeforeCleanup DEF Joins
<1>4. g.thk \in [Cells -> Nat] /\ g.href[c] \in Nat /\ g.thk[c] \in Nat
  BY <1>2, GeometryIs
<1>5. g.thk[c] # 0
  <2>1. Updated(g.thk).thk[c] = 0 \/ Updated(g.thk).thk[c] = g.thk[c]
    BY <1>4, UpdatedIs
  <2> QED
    BY <1>3, <2>1
<1>6. g.thk[c] = Geometry.thk[c] /\ g.href[c] <= Geometry.href[c]
  BY <1>5 DEF Thinned
<1>7. Geometry.thk[c] = thk[c] /\ Geometry.href[c] = href[c]
  BY DEF Geometry
<1>8. thk[c] \in Nat /\ href[c] \in Nat
  BY DEF TypeInv
<1> QED
  BY <1>1, <1>3, <1>4, <1>5, <1>6, <1>7, <1>8 DEF NoJoining

ConsistentInv == TypeInv /\ GeometryConsistent

(* No thickness, Href or residual is ever negative, and after every step the *)
(* mask and the surface elevation are those of the thickness, although      *)
(* Href_cleanup() changes thicknesses after they have been updated: given   *)
(* that do_calving() meets no cell with both ice and a partial filling.     *)
THEOREM StateIsConsistent == Spec /\ []NoJoining => []StateConsistent
<1>1. Init => ConsistentInv
  BY InitType, InitIs DEF ConsistentInv, GeometryConsistent
<1>2. ConsistentInv /\ NoJoining /\ [Next]_vars => ConsistentInv'
  <2> SUFFICES ASSUME ConsistentInv, NoJoining, [Next]_vars PROVE ConsistentInv'
    OBVIOUS
  <2>1. TypeInv /\ TypeInv'
    BY StepType DEF ConsistentInv
  <2>2. CASE pc' # "step"
    BY <2>1, <2>2 DEF ConsistentInv, GeometryConsistent
  <2>3. CASE DoCalving
    <3>1. PICK rate \in setup.rates, g \in Geometries, h \in Geometries :
            /\ g \in Thinned(Geometry)
            /\ h = CleanedUp(g, Updated(g.thk)) /\ thk' = h.thk
            /\ mask' = MaskOf(Updated(g.thk).thk) /\ surf' = SurfaceElev(Updated(g.thk).thk)
      BY <2>1, <2>3, DoCalvingIs
    <3>2. PICK w \in Geometries : w = Unclean(g)
      BY BeforeCleanup
    <3>3. w.thk = Updated(g.thk).thk /\ h = HrefCleanup(w)
      BY <3>1, <3>2, BeforeCleanup
    <3>4. \A c \in Cells : ~Joins(w, c)
      BY <2>1, <2>3, <3>1, <3>2, NothingJoins DEF ConsistentInv
    <3>5. h.thk = w.thk
      <4>1. CASE PartGrid
        <5>1. \A c \in Cells : h.thk[c] = w.thk[c] + 0
          BY <3>3, <3>4, <4>1, CleanupIs
        <5>2. h.thk \in [Cells -> Nat] /\ w.thk \in [Cells -> Nat]
          BY GeometryIs
        <5>3. \A c \in Cells : h.thk[c] = w.thk[c]
          BY <5>1, <5>2
        <5> QED
          BY <5>2, <5>3
      <4>2. CASE ~PartGrid
        BY <3>3, <4>2, CleanupIs
      <4> QED
        BY <4>1, <4>2
    <3>6. PICK T : T = Updated(g.thk).thk
      OBVIOUS
    <3>7. thk' = T /\ mask' = MaskOf(T) /\ surf' = SurfaceElev(T)
      BY <3>1, <3>3, <3>5, <3>6
    <3>8. mask' = MaskOf(thk') /\ surf' = SurfaceElev(thk')
      BY <3>7
    <3> QED
      BY <2>1, <3>8 DEF ConsistentInv, GeometryConsistent
  <2>4. CASE BeginStep
    BY <2>2, <2>4 DEF BeginStep
  <2>5. CASE MassContExplicitStep
    BY <2>2, <2>5 DEF MassContExplicitStep
  <2>6. CASE ResidualRedistribution
    BY <2>2, <2>6 DEF ResidualRedistribution
  <2>7. CASE UpdateSurfaceElevationAndMask
    BY <2>2, <2>7 DEF UpdateSurfaceElevationAndMask
  <2>8. CASE UNCHANGED vars
    <3>1. thk' = thk /\ mask' = mask /\ surf' = surf /\ pc' = pc
      BY <2>8 DEF vars
    <3>2. MaskOf(thk') = MaskOf(thk) /\ SurfaceElev(thk') = SurfaceElev(thk)
      BY <3>1
    <3> QED
      BY <2>1, <3>1, <3>2 DEF ConsistentInv, GeometryConsistent
  <2> QED
    BY <2>3, <2>4, <2>5, <2>6, <2>7, <2>8 DEF Next
<1>3. ConsistentInv => StateConsistent
  BY TypeInvGivesTypeOK DEF ConsistentInv, StateConsistent
<1> QED
  BY <1>1, <1>2, <1>3, PTL DEF Spec

(* Calving never meets a partial filling in a cell with less ice than       *)
(* counts as ice.                                                           *)
ThinNeverJoins ==
  pc = "calving" => \A c \in Cells : href[c] > 0 => thk[c] = 0 \/ thk[c] >= IceFreeThickness

IcebergInv == TypeInv /\ NoIcebergs

(* With -kill_icebergs no ice is left after a step that no path of icy      *)
(* cells connects with grounded ice or with a cell of prescribed velocity,  *)
(* whatever the grid, the processors and the calving methods: Href_cleanup() *)
(* and calving come after or before the removal, and do not undo it.        *)
THEOREM IcebergsAreGone == Spec /\ []ThinNeverJoins => []NoIcebergs
<1>1. Init => IcebergInv
  <2> SUFFICES ASSUME Init PROVE IcebergInv
    OBVIOUS
  <2>1. TypeInv
    BY InitType
  <2>2. ASSUME setup.killIcebergs PROVE Icebergs(MaskOf(thk)) = {}
    <3>1. PICK g \in setup.ice : /\ g.thk \in [Cells -> Nat] /\ thk \in [Cells -> Nat]
                                 /\ thk = Updated(g.thk).thk
      BY InitIs
    <3>2. \A c \in Cells : /\ thk[c] >= Updated(g.thk).thk[c]
                           /\ thk[c] >= IceFreeThickness => Updated(g.thk).thk[c] >= IceFreeThickness
      BY <3>1
    <3> QED
      BY <2>2, <3>1, <3>2, NothingCutOff
  <2> QED
    BY <2>1, <2>2 DEF IcebergInv, NoIcebergs
<1>2. IcebergInv /\ ThinNeverJoins /\ [Next]_vars => IcebergInv'
  <2> SUFFICES ASSUME IcebergInv, ThinNeverJoins, [Next]_vars PROVE IcebergInv'
    OBVIOUS
  <2>1. TypeInv /\ TypeInv'
    BY StepType DEF IcebergInv
  <2>2. CASE pc' # "step"
    BY <2>1, <2>2 DEF IcebergInv, NoIcebergs
  <2>3. CASE DoCalving
    <3>1. setup' = setup
      BY <2>3 DEF DoCalving
    <3>2. PICK rate \in setup.rates, g \in Geometries, h \in Geometries :
            /\ g \in Thinned(Geometry)
            /\ h = CleanedUp(g, Updated(g.thk)) /\ thk' = h.thk
      BY <2>1, <2>3, DoCalvingIs
    <3>3. PICK w \in Geometries : w = Unclean(g)
      BY BeforeCleanup
    <3>4. w.thk = Updated(g.thk).thk /\ w.href = g.href /\ h = HrefCleanup(w)
      BY <3>2, <3>3, BeforeCleanup
    <3>5. ASSUME NEW c \in Cells
          PROVE  /\ h.thk[c] >= w.thk[c]
                 /\ h.thk[c] >= IceFreeThickness => w.thk[c] >= IceFreeThickness
      <4>1. /\ w.thk[c] \in Nat /\ w.href[c] \in Nat /\ h.thk[c] \in Nat /\ g.thk[c] \in Nat
            /\ g.href[c] \in Nat /\ thk[c] \in Nat /\ href[c] \in Nat /\ IceFreeThickness \in Nat
        BY <2>1, GeometryIs, MaskAssumption DEF TypeInv
      <4>2. CASE PartGrid /\ Joins(w, c)
        <5>1. h.thk[c] = w.thk[c] + w.href[c] /\ w.thk[c] > 0 /\ w.href[c] > 0
          BY <3>4, <4>2, CleanupIs DEF Joins
        <5>2. w.thk[c] = 0 \/ w.thk[c] = g.thk[c]
          <6>1. g.thk \in [Cells -> Nat]
            BY GeometryIs
          <6> QED
            BY <3>4, <6>1, UpdatedIs
        <5>3. w.thk[c] = g.thk[c] /\ g.thk[c] # 0 /\ g.href[c] > 0
          BY <3>4, <4>1, <5>1, <5>2
        <5>4. g.thk[c] = thk[c] /\ g.href[c] <= href[c]
          BY <3>2, <5>3 DEF Thinned, Geometry
        <5>5. thk[c] >= IceFreeThickness
          BY <2>3, <4>1, <5>3, <5>4 DEF ThinNeverJoins, DoCalving
        <5> QED
          BY <4>1, <5>1, <5>3, <5>4, <5>5
      <4>3. CASE ~(PartGrid /\ Joins(w, c))
        <5>1. h.thk[c] = w.thk[c]
          BY <3>4, <4>1, <4>3, CleanupIs
        <5> QED
          BY <4>1, <5>1
      <4> QED
        BY <4>2, <4>3
    <3>6. ASSUME setup.killIcebergs PROVE Icebergs(MaskOf(h.thk)) = {}
      <4>1. g.thk \in [Cells -> Nat] /\ h.thk \in [Cells -> Nat]
        BY GeometryIs
      <4>2. \A c \in Cells : /\ h.thk[c] >= Updated(g.thk).thk[c]
                             /\ h.thk[c] >= IceFreeThickness
                                  => Updated(g.thk).thk[c] >= IceFreeThickness
        BY <3>4, <3>5
      <4> QED
        BY <3>6, <4>1, <4>2, NothingCutOff
    <3>7. setup'.killIcebergs => Icebergs(MaskOf(thk')) = {}
      BY <3>1, <3>2, <3>6
    <3> QED
      BY <2>1, <3>7 DEF IcebergInv, NoIcebergs
  <2>4. CASE BeginStep
    BY <2>2, <2>4 DEF BeginStep
  <2>5. CASE MassContExplicitStep
    BY <2>2, <2>5 DEF MassContExplicitStep
  <2>6. CASE ResidualRedistribution
    BY <2>2, <2>6 DEF ResidualRedistribution
  <2>7. CASE UpdateSurfaceElevationAndMask
    BY <2>2, <2>7 DEF UpdateSurfaceElevationAndMask
  <2>8. CASE UNCHANGED vars
    <3>1. thk' = thk /\ setup' = setup /\ pc' = pc
      BY <2>8 DEF vars
    <3>2. Icebergs(MaskOf(thk')) = Icebergs(MaskOf(thk))
      BY <3>1
    <3> QED
      BY <2>1, <3>1, <3>2 DEF IcebergInv, NoIcebergs
  <2> QED
    BY <2>3, <2>4, <2>5, <2>6, <2>7, <2>8 DEF Next
<1>3. IcebergInv => NoIcebergs
  BY DEF IcebergInv
<1> QED
  BY <1>1, <1>2, <1>3, PTL DEF Spec

-----------------------------------------------------------------------------
(* Where the mass of partially filled cells is.  What is asked of a run:    *)
(* fillings only with -part_grid and only at sea, at the start; -part_redist *)
(* only with -part_grid, which has the field Href; and crevasses that reach *)
(* the ice only at sea, where the land has no headlands.                    *)
SoundSetups ==
  \A s \in Setups :
     /\ \A g \in s.ice : \A c \in Cells : g.href[c] > 0 => PartGrid /\ c \notin Land
     /\ s.redist => PartGrid
     /\ "crevasses_calving" \in s.methods =>
          NoHeadland /\ \A rate \in s.rates : \A c \in Land : rate[c] = 0

FillingsAtSea ==
  "eigen_calving" \notin setup.methods =>
     /\ AtSea(mask)
     /\ \A c \in Cells : href[c] > 0 => PartGrid /\ c \notin Land
     /\ pc = "redistribute" => /\ setup.redist
                               /\ \A c \in Cells : residual[c] > 0 => c \notin Land

SeaInv == TypeInv /\ FillingsAtSea

LEMMA CalvingLosesAtSea ==
  ASSUME SoundSetups, SeaInv, "eigen_calving" \notin setup.methods,
         NEW rate \in setup.rates, rate \in [Cells -> Nat]
  PROVE  Calved(Geometry, rate) \in LostAtSea(Geometry)
<1>1. setup \in Setups /\ Geometry \in Geometries
  BY GeometryType DEF SeaInv, TypeInv
<1>2. AttackOnlyAtSea(rate)
  BY <1>1 DEF SoundSetups, AttackOnlyAtSea
<1>3. AtSea(Geometry.mask)
  BY DEF SeaInv, FillingsAtSea, Geometry
<1> QED
  BY <1>1, <1>2, <1>3, CalvedIs

LEMMA InitAtSea == SoundSetups /\ Init => SeaInv
<1> SUFFICES ASSUME SoundSetups, Init PROVE SeaInv
  OBVIOUS
<1>1. TypeInv /\ pc = "step" /\ setup \in Setups
  BY InitType DEF Init
<1>2. PICK g \in setup.ice : /\ href = g.href /\ mask = MaskOf(thk) /\ thk \in [Cells -> Nat]
  BY InitIs
<1>3. AtSea(mask)
  BY <1>2, OceanIsAtSea
<1>4. \A c \in Cells : href[c] > 0 => PartGrid /\ c \notin Land
  BY <1>1, <1>2 DEF SoundSetups
<1> QED
  BY <1>1, <1>3, <1>4 DEF SeaInv, FillingsAtSea

LEMMA StepAtSea == SoundSetups /\ SeaInv /\ [Next]_vars => SeaInv'
<1> SUFFICES ASSUME SoundSetups, SeaInv, [Next]_vars PROVE SeaInv'
  OBVIOUS
<1>1. TypeInv /\ TypeInv'
  BY StepType DEF SeaInv
<1>2. setup' = setup
  BY DEF Next, vars, BeginStep, MassContExplicitStep, ResidualRedistribution,
         UpdateSurfaceElevationAndMask, DoCalving
<1>3. CASE "eigen_calving" \in setup.methods
  BY <1>1, <1>2, <1>3 DEF SeaInv, FillingsAtSea
<1>4. CASE "eigen_calving" \notin setup.methods
  <2>1. /\ AtSea(mask)
        /\ \A c \in Cells : href[c] > 0 => PartGrid /\ c \notin Land
        /\ pc = "redistribute" => /\ setup.redist
                                  /\ \A c \in Cells : residual[c] > 0 => c \notin Land
    BY <1>4 DEF SeaInv, FillingsAtSea
  <2> SUFFICES /\ AtSea(mask')
               /\ \A c \in Cells : href'[c] > 0 => PartGrid /\ c \notin Land
               /\ pc' = "redistribute" => /\ setup'.redist
                                          /\ \A c \in Cells : residual'[c] > 0 => c \notin Land
    BY <1>1, <1>2 DEF SeaInv, FillingsAtSea
  <2>2. CASE BeginStep
    <3>1. AtSea(mask')
      <4>1. CASE setup.subgl
        BY <1>1, <2>2, <4>1, UpdateIs DEF BeginStep, TypeInv
      <4>2. CASE ~setup.subgl
        <5>1. mask' = mask
          BY <2>2, <4>2 DEF BeginStep
        <5> QED
          BY <2>1, <5>1
      <4> QED
        BY <4>1, <4>2
    <3> QED
      BY <2>1, <2>2, <3>1 DEF BeginStep
  <2>3. CASE MassContExplicitStep
    <3>1. PICK f, u :
            /\ f \in Forcings /\ f \in ForcingType /\ Geometry \in Geometries
            /\ u = [c \in Cells |-> CellUpdate(Geometry, f, c)]
            /\ href' = [c \in Cells |-> u[c].href]
            /\ residual' = IF setup.redist THEN [c \in Cells |-> u[c].residual] ELSE residual
      BY <1>1, <2>3, TransportIs
    <3>2. mask' = mask /\ pc' = IF setup.redist THEN "redistribute" ELSE "update"
      BY <2>3 DEF MassContExplicitStep
    <3>3. ASSUME NEW c \in Cells, PartCell(Geometry, c) PROVE PartGrid /\ c \notin Land
      <4>1. PartGrid /\ IceFreeOcean(mask[c])
        BY <3>3 DEF PartCell, Geometry
      <4> QED
        BY <2>1, <4>1 DEF AtSea, IceFreeOcean, Ocean
    <3>4. ASSUME NEW c \in Cells
          PROVE  /\ u[c].href > 0 => PartGrid /\ c \notin Land
                 /\ u[c].residual > 0 => c \notin Land
      <4>1. u[c] = CellUpdate(Geometry, f, c)
        BY <3>1
      <4>2. /\ u[c].href = IF Full(Geometry, f, c) THEN 0
                           ELSE IF PartCell(Geometry, c) THEN Filling(Geometry, f, c)
                           ELSE Geometry.href[c]
            /\ u[c].residual = IF Full(Geometry, f, c)
                               THEN Filling(Geometry, f, c) - Needed(Geometry, c) ELSE 0
        BY <3>1, <4>1, CellUpdateIs
      <4>3. Full(Geometry, f, c) => PartCell(Geometry, c)
        BY DEF Full
      <4>4. Geometry.href[c] = href[c]
        BY DEF Geometry
      <4>5. CASE PartCell(Geometry, c)
        BY <3>3, <4>5
      <4>6. CASE ~PartCell(Geometry, c)
        <5>1. u[c].href = href[c] /\ u[c].residual = 0
          BY <4>2, <4>3, <4>4, <4>6
        <5> QED
          BY <2>1, <5>1
      <4> QED
        BY <4>5, <4>6
    <3>5. \A c \in Cells : href'[c] > 0 => PartGrid /\ c \notin Land
      BY <3>1, <3>4
    <3>6. pc' = "redistribute" => /\ setup'.redist
                                  /\ \A c \in Cells : residual'[c] > 0 => c \notin Land
      <4>1. CASE setup.redist
        <5>1. \A c \in Cells : residual'[c] = u[c].residual
          BY <3>1, <4>1
        <5> QED
          BY <1>2, <3>4, <4>1, <5>1
      <4>2. CASE ~setup.redist
        BY <3>2, <4>2
      <4> QED
        BY <4>1, <4>2
    <3> QED
      BY <2>1, <3>2, <3>5, <3>6
  <2>4. CASE ResidualRedistribution
    <3>1. PICK r \in Workings :
            /\ r = RedistributionIteration(thk, href, residual, setup.rankOf)
            /\ href' = r.href /\ residual' = r.residual /\ mask' = r.mask
      BY <1>1, <2>4, RedistributionIs
    <3>2. pc = "redistribute" /\ setup.redist
      BY <2>1, <2>4 DEF ResidualRedistribution
    <3>3. PartGrid
      BY <1>1, <3>2 DEF SoundSetups, TypeInv
    <3>4. /\ AtSea(r.mask)
          /\ \A c \in Cells : /\ r.href[c] > 0 => href[c] > 0 \/ c \notin Land
                              /\ r.residual[c] > 0 => href[c] > 0 \/ c \notin Land
      <4>1. thk \in [Cells -> Nat] /\ href \in [Cells -> Nat] /\ residual \in [Cells -> Nat]
        BY <1>1 DEF TypeInv
      <4> QED
        BY <3>1, <4>1, IterationIs
    <3> QED
      BY <1>2, <2>1, <3>1, <3>2, <3>3, <3>4
  <2>5. CASE UpdateSurfaceElevationAndMask
    <3>1. AtSea(mask')
      BY <1>1, <2>5, UpdateIs DEF UpdateSurfaceElevationAndMask, TypeInv
    <3> QED
      BY <2>1, <2>5, <3>1 DEF UpdateSurfaceElevationAndMask
  <2>6. CASE DoCalving
    <3>1. PICK rate \in setup.rates, g \in Geometries, h \in Geometries :
            /\ rate \in [Cells -> Nat] /\ Geometry \in Geometries
            /\ g = Calved(Geometry, rate)
            /\ h = CleanedUp(g, Updated(g.thk))
            /\ href' = h.href /\ mask' = MaskOf(Updated(g.thk).thk)
      BY <1>1, <2>6, DoCalvingIs
    <3>2. g \in LostAtSea(Geometry)
      BY <1>4, <3>1, CalvingLosesAtSea
    <3>3. AtSea(mask')
      BY <3>1, UpdatedIs, OceanIsAtSea, GeometryIs
    <3>4. PICK w \in Geometries : w = Unclean(g)
      BY BeforeCleanup
    <3>5. w.href = g.href /\ h = HrefCleanup(w)
      BY <3>1, <3>4, BeforeCleanup
    <3>6. ASSUME NEW c \in Cells, h.href[c] > 0 PROVE PartGrid /\ c \notin Land
      <4>1. /\ h.href[c] \in Nat /\ w.href[c] \in Nat /\ g.href[c] \in Nat /\ href[c] \in Nat
        BY <1>1, GeometryIs DEF TypeInv
      <4>2. w.href[c] > 0
        <5>1. h.href[c] = 0 \/ h.href[c] = w.href[c]
          BY <3>5, CleanupIs
        <5> QED
          BY <3>6, <4>1, <5>1
      <4>3. g.href[c] <= href[c]
        <5>1. \/ g.href[c] = Geometry.href[c]
              \/ g.href[c] <= Geometry.href[c]
          BY <3>2 DEF LostAtSea
        <5> QED
          BY <4>1, <5>1 DEF Geometry
      <4> QED
        BY <2>1, <3>5, <4>1, <4>2, <4>3
    <3>7. pc' = "step"
      BY <2>6 DEF DoCalving
    <3> QED
      BY <3>1, <3>3, <3>6, <3>7
  <2>7. CASE UNCHANGED vars
    BY <2>1, <2>7 DEF vars
  <2> QED
    BY <2>2, <2>3, <2>4, <2>5, <2>6, <2>7 DEF Next
<1> QED
  BY <1>3, <1>4

(* The discharge that do_calving() reports is the mass that it removes:     *)
(* whatever the calving methods other than eigen-calving, the removal of    *)
(* icebergs and the cleanup of Href do in a step, if the geometry before it *)
(* is saved.                                                                *)
LEMMA DischargeRightly ==
  ASSUME SoundSetups, SeaInv, DoCalving, DischargeCounted
  PROVE  DischargeRight
<1>1. TypeInv /\ "eigen_calving" \notin setup.methods /\ setup.saveOld
  BY DEF SeaInv, DischargeCounted
<1>2. PICK rate \in setup.rates, g \in Geometries, h \in Geometries :
        /\ rate \in [Cells -> Nat] /\ Geometry \in Geometries
        /\ g = Calved(Geometry, rate)
        /\ h = CleanedUp(g, Updated(g.thk))
        /\ thk' = h.thk /\ href' = h.href
        /\ flux' = [flux EXCEPT !.discharge = @ + Discharge(h, OldH, OldHref),
                                !.ocean = @ + Discharge(h, OldH, OldHref)]
  BY <1>1, DoCalvingIs
<1>3. g \in LostAtSea(Geometry)
  BY <1>1, <1>2, CalvingLosesAtSea
<1>4. OldH = thk /\ OldHref = href /\ Geometry.thk = thk /\ Geometry.href = href
  BY <1>1 DEF OldH, OldHref, Geometry
<1>5. \A c \in Cells : Geometry.href[c] > 0 => PartGrid /\ c \notin Land
  BY <1>1, <1>4 DEF SeaInv, FillingsAtSea
<1>6. Discharge(h, thk, href) =
        CellArea * (Total(h.thk) + Total(h.href) - Total(thk) - Total(href))
  BY <1>2, <1>3, <1>4, <1>5, DischargeIs
<1>7. PICK lost \in Int : lost = Discharge(h, OldH, OldHref)
  BY <1>1, OldType, DischargeType
<1>8. flux' = [flux EXCEPT !.discharge = flux.discharge + lost, !.ocean = flux.ocean + lost]
  BY <1>2, <1>7
<1>9. flux'.discharge = flux.discharge + lost
  BY <1>1, <1>8 DEF TypeInv, Fluxes
<1>10. flux.discharge \in Int
  BY <1>1 DEF TypeInv, Fluxes
<1>11. flux'.discharge - flux.discharge = lost
  BY <1>7, <1>9, <1>10
<1>12. /\ Total(thk') = Total(h.thk) /\ Total(href') = Total(h.href)
  BY <1>2
<1> QED
  BY <1>4, <1>6, <1>7, <1>11, <1>12 DEF DischargeRight

(* What the discharge grows by in do_calving() is what the ice loses there, *)
(* thickness and filling, for every order and number of the mechanisms, of  *)
(* those whose losses the code counts (eigen-calving is not one, nor is the *)
(* removal of icebergs without a 2D diagnostic).  The setups start with     *)
(* fillings at sea only.                                                    *)
THEOREM DischargeIsTheLoss == SoundSetups /\ Spec => DischargeIsLoss
<1> SUFFICES ASSUME SoundSetups PROVE Spec => DischargeIsLoss
  OBVIOUS
<1>1. Init => SeaInv
  BY InitAtSea
<1>2. SeaInv /\ [Next]_vars => SeaInv'
  BY StepAtSea
<1>3. SeaInv /\ [Next]_vars => [pc = "calving" /\ DischargeCounted => DischargeRight]_vars
  <2> SUFFICES ASSUME SeaInv, Next, pc = "calving", DischargeCounted PROVE DischargeRight
    OBVIOUS
  <2>1. DoCalving
    BY DEF Next, BeginStep, MassContExplicitStep, ResidualRedistribution,
           UpdateSurfaceElevationAndMask
  <2> QED
    BY <2>1, DischargeRightly
<1> QED
  BY <1>1, <1>2, <1>3, PTL DEF Spec, DischargeIsLoss

-----------------------------------------------------------------------------
(* What is reported accounts for the mass.                                  *)
LEMMA PlusFunction ==
  ASSUME NEW f \in [Cells -> Int], NEW g \in [Cells -> Int]
  PROVE  \E h \in [Cells -> Int] : \A c \in Cells : h[c] = f[c] + g[c]
<1>1. PICK h : h = [c \in Cells |-> f[c] + g[c]]
  OBVIOUS
<1>2. h \in [Cells -> Int] /\ \A c \in Cells : h[c] = f[c] + g[c]
  BY <1>1
<1> QED
  BY <1>2

LEMMA MinusFunction ==
  ASSUME NEW f \in [Cells -> Int], NEW g \in [Cells -> Int]
  PROVE  \E h \in [Cells -> Int] : \A c \in Cells : h[c] = f[c] - g[c]
<1>1. PICK h : h = [c \in Cells |-> f[c] - g[c]]
  OBVIOUS
<1>2. h \in [Cells -> Int] /\ \A c \in Cells : h[c] = f[c] - g[c]
  BY <1>1
<1> QED
  BY <1>2

LEMMA MaskedFunction ==
  ASSUME NEW f \in [Cells -> Int], NEW S \in SUBSET Cells
  PROVE  \E h \in [Cells -> Int] : \A c \in Cells : h[c] = IF c \in S THEN f[c] ELSE 0
<1>1. PICK h : h = [c \in Cells |-> IF c \in S THEN f[c] ELSE 0]
  OBVIOUS
<1>2. h \in [Cells -> Int] /\ \A c \in Cells : h[c] = IF c \in S THEN f[c] ELSE 0
  BY <1>1
<1> QED
  BY <1>2

LEMMA SumSplit ==
  ASSUME NEW f \in [Cells -> Int], NEW S \in SUBSET Cells
  PROVE  Total(f) = SumOver(Cells \ S, f) + SumOver(S, f)
<1>1. PICK R \in SUBSET Cells : R = Cells \ S
  OBVIOUS
<1>2. PICK g \in [Cells -> Int] : \A c \in Cells : g[c] = IF c \in S THEN f[c] ELSE 0
  BY MaskedFunction
<1>3. PICK h \in [Cells -> Int] : \A c \in Cells : h[c] = IF c \in R THEN f[c] ELSE 0
  BY MaskedFunction
<1>4. Total(g) = SumOver(S, f) /\ Total(h) = SumOver(R, f)
  BY <1>2, <1>3, SumMasked
<1>5. Total(f) = Total(h) + Total(g)
  <2>1. \A c \in Cells : f[c] = h[c] + g[c]
    BY <1>1, <1>2, <1>3
  <2> QED
    BY <2>1, SumPlus DEF Total
<1> QED
  BY <1>1, <1>4, <1>5

LEMMA MaxOf ==
  ASSUME NEW x \in Int
  PROVE  /\ Max0(x) \in Nat
         /\ Max0(x) = x + Max0(-x)
         /\ x <= 0 => Max0(x) = 0
         /\ x >= 0 => Max0(x) = x
BY DEF Max0

(* A cell: its sources, what flows in, and what a negative thickness adds.  *)
LEMMA CellAccounts ==
  ASSUME BCMask = {}, NEW s \in Geometries, NEW f \in ForcingType, NEW c \in Cells,
         PartCell(s, c) => Div(s, f, c) <= s.href[c],
         NEW u, u = CellUpdate(s, f, c)
  PROVE  u.thk + u.href + u.residual
           = s.thk[c] + s.href[c] + u.smb - u.bmr + u.nonneg - Div(s, f, c)
<1>1. ~Prescribed(c)
  BY DEF Prescribed
<1>2. PICK H \in Int, d \in Int, fill \in Nat, need \in Nat, t \in Nat, h \in Nat,
           smb \in Int, bmr \in Int :
        /\ H = NewThickness(s, f, c) /\ d = Div(s, f, c) /\ fill = Filling(s, f, c)
        /\ need = Needed(s, c) /\ t = s.thk[c] /\ h = s.href[c]
        /\ smb = f.smb /\ bmr = f.bmr
  BY CellUpdateIs
<1>3. /\ u.thk  = Max0(H)
      /\ u.href = IF Full(s, f, c) THEN 0 ELSE IF PartCell(s, c) THEN fill ELSE h
      /\ u.residual = IF Full(s, f, c) THEN fill - need ELSE 0
      /\ u.smb = IF Sources(s, f, c) THEN smb ELSE 0
      /\ u.bmr = IF Sources(s, f, c) THEN bmr ELSE 0
      /\ u.nonneg = Max0(-H) - (IF PartCell(s, c) THEN Max0(d - h) ELSE 0)
  BY <1>2, CellUpdateIs
<1>4. PICK p \in Nat, m \in Nat : p = Max0(H) /\ m = Max0(-H) /\ p = H + m
  BY MaxOf
<1>5. CASE ~PartCell(s, c)
  <2>1. ~Full(s, f, c)
    BY <1>5 DEF Full
  <2>2. H = t + (IF Sources(s, f, c) THEN smb - bmr ELSE 0) - d
    BY <1>1, <1>2, <1>5, <2>1 DEF NewThickness
  <2> QED
    BY <1>2, <1>3, <1>4, <1>5, <2>1, <2>2
<1>6. CASE PartCell(s, c)
  <2>1. d <= h
    BY <1>2, <1>6
  <2>2. fill = h - d /\ Max0(d - h) = 0
    <3>1. h - d \in Int /\ h - d >= 0 /\ d - h \in Int /\ d - h <= 0
      BY <2>1
    <3>2. fill = Max0(h - d)
      BY <1>2 DEF Filling
    <3> QED
      BY <3>1, <3>2, MaxOf
  <2>3. u.nonneg = m
    BY <1>3, <1>4, <1>6, <2>2
  <2>4. CASE Full(s, f, c)
    <3>1. Sources(s, f, c)
      BY <1>1, <2>4 DEF Sources
    <3>2. H = t + (smb - bmr) + need
      BY <1>2, <1>6, <2>4, <3>1 DEF NewThickness
    <3> QED
      BY <1>2, <1>3, <1>4, <2>2, <2>3, <2>4, <3>1, <3>2
  <2>5. CASE ~Full(s, f, c)
    <3>1. ~Sources(s, f, c)
      BY <1>6, <2>5 DEF Sources, PartCell
    <3>2. H = t
      BY <1>2, <1>6, <2>5, <3>1 DEF NewThickness
    <3> QED
      BY <1>2, <1>3, <1>4, <1>6, <2>2, <2>3, <2>5, <3>1, <3>2
  <2> QED
    BY <2>4, <2>5
<1> QED
  BY <1>5, <1>6

Thks(u)      == [c \in Cells |-> u[c].thk]
Hrefs(u)     == [c \in Cells |-> u[c].href]
Residuals(u) == [c \in Cells |-> u[c].residual]

LEMMA TransportAccounts ==
  ASSUME BCMask = {}, NEW s \in Geometries, NEW f \in ForcingType,
         \A c \in Cells : PartCell(s, c) => Div(s, f, c) <= s.href[c],
         NEW u, u = [c \in Cells |-> CellUpdate(s, f, c)]
  PROVE  Total(Thks(u)) + Total(Hrefs(u)) + Total(Residuals(u))
           = Total(s.thk) + Total(s.href) + Total(Smb(u)) - SumOver(Cells \ Wet(s), Bmr(u))
             - SumOver(Wet(s), Bmr(u)) + Total(Nonneg(u))
<1>1. ASSUME NEW c \in Cells
      PROVE  /\ u[c].thk \in Nat /\ u[c].href \in Nat /\ u[c].residual \in Nat
             /\ u[c].smb \in Int /\ u[c].bmr \in Int /\ u[c].nonneg \in Int
             /\ Div(s, f, c) \in Int
             /\ u[c].thk + u[c].href + u[c].residual
                  = s.thk[c] + s.href[c] + u[c].smb - u[c].bmr + u[c].nonneg - Div(s, f, c)
  <2>1. u[c] = CellUpdate(s, f, c)
    OBVIOUS
  <2>2. s.thk \in [Cells -> Nat]
    BY GeometryIs
  <2> QED
    BY <2>1, <2>2, CellAccounts, CellUpdateType, DivIsNumber
<1>2. PICK T \in [Cells -> Int], F \in [Cells -> Int], R \in [Cells -> Int],
           a \in [Cells -> Int], b \in [Cells -> Int], n \in [Cells -> Int] :
        /\ T = Thks(u) /\ F = Hrefs(u) /\ R = Residuals(u)
        /\ a = Smb(u) /\ b = Bmr(u) /\ n = Nonneg(u)
  <2>1. Thks(u) \in [Cells -> Int] /\ Hrefs(u) \in [Cells -> Int]
    BY <1>1 DEF Thks, Hrefs
  <2>2. Residuals(u) \in [Cells -> Int] /\ Smb(u) \in [Cells -> Int]
    BY <1>1 DEF Residuals, Smb
  <2>3. Bmr(u) \in [Cells -> Int] /\ Nonneg(u) \in [Cells -> Int]
    BY <1>1 DEF Bmr, Nonneg
  <2> QED
    BY <2>1, <2>2, <2>3
<1>3. PICK H \in [Cells -> Int], h \in [Cells -> Int] : H = s.thk /\ h = s.href
  BY GeometryIs
<1>4. PICK d \in [Cells -> Int] : d = [c \in Cells |-> Div(s, f, c)]
  BY <1>1
<1>5. Total(d) = 0
  BY <1>4, NoDivergence, GeometryIs
<1>6. \A c \in Cells : T[c] + F[c] + R[c] = H[c] + h[c] + a[c] - b[c] + n[c] - d[c]
  BY <1>1, <1>2, <1>3, <1>4 DEF Thks, Hrefs, Residuals, Smb, Bmr, Nonneg
<1>7. PICK x1 \in [Cells -> Int] : \A c \in Cells : x1[c] = T[c] + F[c]
  BY PlusFunction
<1>8. PICK x2 \in [Cells -> Int] : \A c \in Cells : x2[c] = x1[c] + R[c]
  BY PlusFunction
<1>9. PICK y1 \in [Cells -> Int] : \A c \in Cells : y1[c] = H[c] + h[c]
  BY PlusFunction
<1>10. PICK y2 \in [Cells -> Int] : \A c \in Cells : y2[c] = y1[c] + a[c]
  BY PlusFunction
<1>11. PICK y3 \in [Cells -> Int] : \A c \in Cells : y3[c] = y2[c] - b[c]
  BY MinusFunction
<1>12. PICK y4 \in [Cells -> Int] : \A c \in Cells : y4[c] = y3[c] + n[c]
  BY PlusFunction
<1>13. Total(x1) = Total(T) + Total(F)
  BY <1>7, SumPlus DEF Total
<1>14. Total(x2) = Total(x1) + Total(R)
  BY <1>8, SumPlus DEF Total
<1>15. Total(y1) = Total(H) + Total(h)
  BY <1>9, SumPlus DEF Total
<1>16. Total(y2) = Total(y1) + Total(a)
  BY <1>10, SumPlus DEF Total
<1>17. Total(y3) = Total(y2) - Total(b)
  BY <1>11, SumMinus DEF Total
<1>18. Total(y4) = Total(y3) + Total(n)
  BY <1>12, SumPlus DEF Total
<1>19. Total(x2) = Total(y4) - Total(d)
  <2>1. \A c \in Cells : x2[c] = y4[c] - d[c]
    BY <1>6, <1>7, <1>8, <1>9, <1>10, <1>11, <1>12
  <2> QED
    BY <2>1, SumMinus DEF Total
<1>20. Wet(s) \in SUBSET Cells
  BY DEF Wet
<1>21. Total(b) = SumOver(Cells \ Wet(s), b) + SumOver(Wet(s), b)
  BY <1>20, SumSplit
<1>22. /\ Total(T) \in Int /\ Total(F) \in Int /\ Total(R) \in Int /\ Total(H) \in Int
       /\ Total(h) \in Int /\ Total(a) \in Int /\ Total(n) \in Int
  BY TotalType
<1>23. SumOver(Cells \ Wet(s), b) \in Int /\ SumOver(Wet(s), b) \in Int
  <2>1. Cells \ Wet(s) \in SUBSET Cells
    OBVIOUS
  <2> QED
    BY <1>20, <2>1, SumType
<1>24. Total(T) + Total(F) + Total(R)
         = Total(H) + Total(h) + Total(a) - SumOver(Cells \ Wet(s), b) - SumOver(Wet(s), b)
           + Total(n)
  BY <1>5, <1>13, <1>14, <1>15, <1>16, <1>17, <1>18, <1>19, <1>21, <1>22, <1>23
<1> QED
  BY <1>2, <1>3, <1>24

LEMMA AreaAdds ==
  ASSUME NEW x \in Int, NEW y \in Int
  PROVE  /\ CellArea * (x + y) = CellArea * x + CellArea * y
         /\ CellArea * (x - y) = CellArea * x - CellArea * y
         /\ CellArea * x \in Int /\ CellArea * y \in Int
<1>1. CellArea \in Nat \ {0}
  BY IceMassAssumption
<1>2. CellArea * (x + y) = CellArea * x + CellArea * y
  BY <1>1, TimesAlpha
<1>3. /\ CellArea * x \in Int /\ CellArea * y \in Int /\ CellArea * (x - y) \in Int
  BY AreaTimes
<1>4. CellArea * ((x - y) + y) = CellArea * (x - y) + CellArea * y
  <2>1. x - y \in Int
    OBVIOUS
  <2> QED
    BY <1>1, <2>1, TimesAlpha
<1>5. (x - y) + y = x
  OBVIOUS
<1>6. CellArea * x = CellArea * (x - y) + CellArea * y
  BY <1>4, <1>5
<1> QED
  BY <1>2, <1>3, <1>6

LEMMA MassIs ==
  ASSUME TypeInv
  PROVE  /\ pc # "redistribute" => Mass = CellArea * (Total(thk) + Total(href))
         /\ pc = "redistribute" => Mass = CellArea * (Total(thk) + Total(href) + Total(residual))
<1>1. CASE pc = "redistribute"
  BY <1>1 DEF Mass
<1>2. CASE pc # "redistribute"
  <2>1. Mass = CellArea * (Total(thk) + Total(href) + 0)
    BY <1>2 DEF Mass
  <2>2. Total(thk) \in Int /\ Total(href) \in Int
    BY TotalType DEF TypeInv
  <2>3. Total(thk) + Total(href) + 0 = Total(thk) + Total(href)
    BY <2>2
  <2> QED
    BY <1>2, <2>1, <2>3
<1> QED
  BY <1>1, <1>2

(* Neither side of the boundary of the grid, where the grid is periodic and *)
(* residuals are not handed on, is at sea if the other one is.              *)
ClosedBoundary ==
  \A c \in Cells \ Land : \A d \in Directions :
     Neighbor(c, d) \notin Land => Neighbor(c, d) \in Around(c)

(* No partially filled cell loses more by the flow than it holds: what such *)
(* a cell lacks is subtracted from the reported nonnegative rule flux       *)
(* though it adds mass.                                                     *)
NoCellDrained ==
  pc = "transport" => \A f \in Forcings : \A c \in Cells :
     PartCell(Geometry, c) => Div(Geometry, f, c) <= href[c]

Counted == setup.redist /\ OneProcessor /\ ~setup.killIcebergs /\ DischargeCounted

Reports == flux.surface + flux.grounded + flux.shelf + flux.nonneg + flux.discharge

AccountInv == SeaInv /\ mass0 \in Int /\ MassAccounted

LEMMA AccountedIs ==
  ASSUME TypeInv, mass0 \in Int
  PROVE  /\ MassAccounted <=> (Counted => Mass + dropped = mass0 + Reports)
         /\ Reports \in Int /\ dropped \in Int /\ Mass \in Int
         /\ Total(thk) \in Int /\ Total(href) \in Int /\ Total(residual) \in Int
<1>1. /\ flux.surface \in Int /\ flux.grounded \in Int /\ flux.shelf \in Int
      /\ flux.nonneg \in Int /\ flux.discharge \in Int
  BY DEF TypeInv, Fluxes
<1>2. /\ Total(thk) \in Int /\ Total(href) \in Int /\ Total(residual) \in Int
  BY TotalType DEF TypeInv
<1>3. Mass \in Int
  <2>1. Total(thk) + Total(href) \in Int /\ Total(thk) + Total(href) + Total(residual) \in Int
    BY <1>2
  <2> QED
    BY <2>1, MassIs, AreaTimes
<1>4. mass0 + flux.surface + flux.grounded + flux.shelf + flux.nonneg + flux.discharge
        = mass0 + Reports
  BY <1>1 DEF Reports
<1>5. MassAccounted <=> (Counted => Mass + dropped = mass0 + Reports)
  BY <1>4 DEF MassAccounted, Accounted, Counted
<1>6. Reports \in Int /\ dropped \in Int
  BY <1>1 DEF Reports, TypeInv
<1> QED
  BY <1>2, <1>3, <1>5, <1>6

LEMMA InitAccounts == SoundSetups /\ Init => AccountInv
<1> SUFFICES ASSUME SoundSetups, Init PROVE AccountInv
  OBVIOUS
<1>1. SeaInv /\ TypeInv
  BY InitAtSea DEF SeaInv
<1>2. /\ pc = "step" /\ flux = NoFlux /\ dropped = 0
  BY DEF Init
<1>3. mass0 = CellArea * (Total(thk) + Total(href))
  BY InitIs
<1>4. Mass = mass0
  BY <1>1, <1>2, <1>3, MassIs
<1>5. Total(thk) + Total(href) \in Int
  BY <1>1, TotalType DEF TypeInv
<1>6. mass0 \in Int
  BY <1>3, <1>5, AreaTimes
<1>7. Reports = 0
  BY <1>2 DEF Reports, NoFlux
<1>8. Mass + dropped = mass0 + Reports
  BY <1>2, <1>4, <1>6, <1>7
<1> QED
  BY <1>1, <1>6, <1>8, AccountedIs DEF AccountInv

(* A mass continuity step.                                                  *)
LEMMA TransportKeepsAccounts ==
  ASSUME BCMask = {}, TypeInv, mass0 \in Int, NoCellDrained, MassContExplicitStep, Counted,
         Mass + dropped = mass0 + Reports
  PROVE  (Mass + dropped = mass0 + Reports)'
<1>1. PICK f, u :
        /\ f \in Forcings /\ f \in ForcingType /\ Geometry \in Geometries
        /\ u = [c \in Cells |-> CellUpdate(Geometry, f, c)]
        /\ thk' = [c \in Cells |-> u[c].thk]
        /\ href' = [c \in Cells |-> u[c].href]
        /\ residual' = IF setup.redist THEN [c \in Cells |-> u[c].residual] ELSE residual
        /\ flux' = Reported(Geometry, u)
  BY TransportIs
<1>2. /\ thk' = Thks(u) /\ href' = Hrefs(u) /\ residual' = Residuals(u)
  BY <1>1 DEF Thks, Hrefs, Residuals, Counted
<1>3. /\ pc = "transport" /\ pc' = "redistribute" /\ mass0' = mass0 /\ dropped' = dropped
  BY DEF MassContExplicitStep, Counted
<1>4. \A c \in Cells : PartCell(Geometry, c) => Div(Geometry, f, c) <= Geometry.href[c]
  BY <1>1, <1>3 DEF NoCellDrained, Geometry
<1>5. TypeInv'
  BY StepType DEF Next
<1>6. PICK x \in Int, a \in Int, b \in Int, d \in Int, n \in Int :
        /\ x = Total(thk) + Total(href) /\ a = Total(Smb(u))
        /\ b = SumOver(Cells \ Wet(Geometry), Bmr(u)) /\ d = SumOver(Wet(Geometry), Bmr(u))
        /\ n = Total(Nonneg(u))
  <2>1. /\ Smb(u) \in [Cells -> Int] /\ Bmr(u) \in [Cells -> Int] /\ Nonneg(u) \in [Cells -> Int]
    BY <1>1, ReportedIs DEF TypeInv
  <2>2. Cells \ Wet(Geometry) \in SUBSET Cells /\ Wet(Geometry) \in SUBSET Cells
    BY DEF Wet
  <2>3. SumOver(Cells \ Wet(Geometry), Bmr(u)) \in Int /\ SumOver(Wet(Geometry), Bmr(u)) \in Int
    BY <2>1, <2>2, SumType
  <2>4. Total(Smb(u)) \in Int /\ Total(Nonneg(u)) \in Int
    BY <2>1, TotalType
  <2>5. Total(thk) + Total(href) \in Int
    BY TotalType DEF TypeInv
  <2> QED
    BY <2>3, <2>4, <2>5
<1>7. Total(thk') + Total(href') + Total(residual') = x + a - b - d + n
  <2>1. Total(Thks(u)) + Total(Hrefs(u)) + Total(Residuals(u))
           = Total(Geometry.thk) + Total(Geometry.href) + Total(Smb(u))
             - SumOver(Cells \ Wet(Geometry), Bmr(u))
             - SumOver(Wet(Geometry), Bmr(u)) + Total(Nonneg(u))
    BY <1>1, <1>4, TransportAccounts
  <2>2. Geometry.thk = thk /\ Geometry.href = href
    BY DEF Geometry
  <2> QED
    BY <1>2, <1>6, <2>1, <2>2
<1>8. PICK ax \in Int, aa \in Int, ab \in Int, ad \in Int, an \in Int :
        /\ ax = CellArea * x /\ aa = CellArea * a /\ ab = CellArea * b
        /\ ad = CellArea * d /\ an = CellArea * n
  BY AreaTimes
<1>9. Mass' = ax + aa - ab - ad + an
  <2>1. Mass' = CellArea * (Total(thk') + Total(href') + Total(residual'))
    BY <1>3 DEF Mass
  <2>2. PICK p \in Int : p = x + a
    OBVIOUS
  <2>3. CellArea * p = ax + aa
    <3>1. CellArea * (x + a) = CellArea * x + CellArea * a
      BY AreaAdds
    <3> QED
      BY <1>8, <2>2, <3>1
  <2>4. PICK q \in Int : q = p - b
    OBVIOUS
  <2>5. CellArea * q = ax + aa - ab
    <3>1. CellArea * (p - b) = CellArea * p - CellArea * b
      BY AreaAdds
    <3> QED
      BY <1>8, <2>3, <2>4, <3>1
  <2>6. PICK r \in Int : r = q - d
    OBVIOUS
  <2>7. CellArea * r = ax + aa - ab - ad
    <3>1. CellArea * (q - d) = CellArea * q - CellArea * d
      BY AreaAdds
    <3> QED
      BY <1>8, <2>5, <2>6, <3>1
  <2>8. CellArea * (r + n) = ax + aa - ab - ad + an
    <3>1. CellArea * (r + n) = CellArea * r + CellArea * n
      BY AreaAdds
    <3> QED
      BY <1>8, <2>7, <3>1
  <2>9. Total(thk') + Total(href') + Total(residual') = r + n
    BY <1>7, <2>2, <2>4, <2>6
  <2> QED
    BY <2>1, <2>8, <2>9
<1>10. Mass = ax
  <2>1. Mass = CellArea * (Total(thk) + Total(href))
    BY <1>3, MassIs
  <2> QED
    BY <1>6, <1>8, <2>1
<1>11. /\ flux'.surface = flux.surface + aa /\ flux'.grounded = flux.grounded - ab
       /\ flux'.shelf = flux.shelf - ad /\ flux'.nonneg = flux.nonneg + an
       /\ flux'.discharge = flux.discharge
  <2>1. flux \in Fluxes
    BY DEF TypeInv
  <2> QED
    BY <1>1, <1>6, <1>8, <2>1, ReportedIs
<1>12. /\ flux.surface \in Int /\ flux.grounded \in Int /\ flux.shelf \in Int
       /\ flux.nonneg \in Int /\ flux.discharge \in Int /\ dropped \in Int
  BY DEF TypeInv, Fluxes
<1>13. PICK s0 \in Int, g0 \in Int, h0 \in Int, n0 \in Int, d0 \in Int :
         /\ s0 = flux.surface /\ g0 = flux.grounded /\ h0 = flux.shelf /\ n0 = flux.nonneg
         /\ d0 = flux.discharge
  BY <1>12
<1>14. Reports = s0 + g0 + h0 + n0 + d0
  BY <1>13 DEF Reports
<1>15. Reports' = (s0 + aa) + (g0 - ab) + (h0 - ad) + (n0 + an) + d0
  BY <1>11, <1>13 DEF Reports
<1>16. ax + dropped = mass0 + (s0 + g0 + h0 + n0 + d0)
  BY <1>10, <1>14
<1>17. (ax + aa - ab - ad + an) + dropped
         = mass0 + ((s0 + aa) + (g0 - ab) + (h0 - ad) + (n0 + an) + d0)
  BY <1>12, <1>16
<1> QED
  BY <1>3, <1>9, <1>15, <1>17

(* A redistribution iteration.                                              *)
LEMMA RedistributionKeepsAccounts ==
  ASSUME ClosedBoundary, SeaInv, mass0 \in Int, ResidualRedistribution, Counted,
         Mass + dropped = mass0 + Reports
  PROVE  (Mass + dropped = mass0 + Reports)'
<1>1. TypeInv /\ pc = "redistribute" /\ mass0' = mass0 /\ flux' = flux
  BY DEF SeaInv, ResidualRedistribution
<1>2. PICK r \in Workings :
        /\ r = RedistributionIteration(thk, href, residual, setup.rankOf)
        /\ thk' = r.thk /\ href' = r.href /\ residual' = r.residual
        /\ \/ /\ pc' = "update" /\ dropped' = dropped + CellArea * Total(r.residual)
           \/ pc' = "redistribute" /\ dropped' = dropped
  BY <1>1, RedistributionIs
<1>3. \A x \in Cells : residual[x] > 0 =>
        \A d \in OpenSides(MaskOf(thk), x) : Owns(setup.rankOf, x, Neighbor(x, d))
  <2> SUFFICES ASSUME NEW x \in Cells, residual[x] > 0, NEW d \in OpenSides(MaskOf(thk), x)
               PROVE  Owns(setup.rankOf, x, Neighbor(x, d))
    OBVIOUS
  <2>1. x \notin Land
    BY <1>1 DEF SeaInv, FillingsAtSea, Counted, DischargeCounted
  <2>2. d \in Directions /\ IceFreeOcean(MaskOf(thk)[Neighbor(x, d)])
    BY DEF OpenSides
  <2>3. Neighbor(x, d) \in Cells
    BY <2>2, Opposites
  <2>4. Neighbor(x, d) \notin Land
    <3>1. AtSea(MaskOf(thk))
      BY <1>1, OceanIsAtSea DEF TypeInv
    <3> QED
      BY <2>2, <2>3, <3>1 DEF AtSea, IceFreeOcean, Ocean
  <2>5. Neighbor(x, d) \in Around(x)
    BY <2>1, <2>2, <2>4 DEF ClosedBoundary
  <2>6. setup.rankOf[Neighbor(x, d)] = setup.rankOf[x]
    BY <2>3 DEF Counted, OneProcessor
  <2> QED
    BY <2>5, <2>6 DEF Owns, Around
<1>4. Total(r.thk) + Total(r.href) + Total(r.residual)
        = Total(thk) + Total(href) + Total(residual)
  BY <1>1, <1>2, <1>3, IterationConserves DEF TypeInv
<1>5. PICK x \in Int, y \in Int : x = Total(r.thk) + Total(r.href) /\ y = Total(r.residual)
  <2>1. /\ r.thk \in [Cells -> Int] /\ r.href \in [Cells -> Int] /\ r.residual \in [Cells -> Int]
    BY DEF Workings
  <2>2. Total(r.thk) \in Int /\ Total(r.href) \in Int /\ Total(r.residual) \in Int
    BY <2>1, TotalType
  <2> QED
    BY <2>2
<1>6. Mass = CellArea * (x + y)
  <2>1. Mass = CellArea * (Total(thk) + Total(href) + Total(residual))
    BY <1>1, MassIs
  <2>2. Total(thk) + Total(href) + Total(residual) = x + y
    BY <1>4, <1>5
  <2> QED
    BY <2>1, <2>2
<1>7. PICK ax \in Int, ay \in Int :
        ax = CellArea * x /\ ay = CellArea * y /\ CellArea * (x + y) = ax + ay
  <2>1. CellArea * x \in Int /\ CellArea * y \in Int
    BY AreaAdds
  <2>2. CellArea * (x + y) = CellArea * x + CellArea * y
    BY AreaAdds
  <2> QED
    BY <2>1, <2>2
<1>8. Reports' = Reports
  BY <1>1 DEF Reports
<1>9. dropped \in Int /\ Reports \in Int
  BY <1>1, AccountedIs
<1>10. Mass' + dropped' = Mass + dropped
  <2>1. CASE pc' = "update" /\ dropped' = dropped + CellArea * Total(r.residual)
    <3>1. Mass' = CellArea * (Total(thk') + Total(href') + 0)
      BY <2>1 DEF Mass
    <3>2. Total(thk') + Total(href') + 0 = x
      BY <1>2, <1>5
    <3>3. Mass' = ax /\ dropped' = dropped + ay
      BY <1>5, <1>7, <2>1, <3>1, <3>2
    <3> QED
      BY <1>6, <1>7, <1>9, <3>3
  <2>2. CASE pc' = "redistribute" /\ dropped' = dropped
    <3>1. Mass' = CellArea * (Total(thk') + Total(href') + Total(residual'))
      BY <2>2 DEF Mass
    <3>2. Mass' = CellArea * (x + y)
      BY <1>2, <1>5, <3>1
    <3> QED
      BY <1>6, <2>2, <3>2
  <2> QED
    BY <1>2, <2>1, <2>2
<1> QED
  BY <1>1, <1>8, <1>10

LEMMA CalvingKeepsAccounts ==
  ASSUME SoundSetups, SeaInv, mass0 \in Int, DoCalving, Counted,
         Mass + dropped = mass0 + Reports
  PROVE  (Mass + dropped = mass0 + Reports)'
<1>1. /\ TypeInv /\ pc = "calving" /\ pc' = "step" /\ mass0' = mass0 /\ dropped' = dropped
  BY DEF SeaInv, DoCalving
<1>2. DischargeRight
  BY DischargeRightly DEF Counted
<1>3. TypeInv'
  BY <1>1, StepType DEF Next
<1>4. PICK x \in Int, y \in Int :
        x = Total(thk) + Total(href) /\ y = Total(thk') + Total(href')
  <2>1. Total(thk) \in Int /\ Total(href) \in Int
    BY <1>1, TotalType DEF TypeInv
  <2>2. Total(thk') \in Int /\ Total(href') \in Int
    BY <1>3, TotalType DEF TypeInv
  <2> QED
    BY <2>1, <2>2
<1>5. flux'.discharge - flux.discharge = CellArea * (y - x)
  <2>1. Total(thk') + Total(href') - Total(thk) - Total(href) = y - x
    <3>1. Total(thk) \in Int /\ Total(href) \in Int
      BY <1>1, TotalType DEF TypeInv
    <3>2. Total(thk') \in Int /\ Total(href') \in Int
      BY <1>3, TotalType DEF TypeInv
    <3> QED
      BY <1>4, <3>1, <3>2
  <2> QED
    BY <1>2, <2>1 DEF DischargeRight
<1>6. PICK ax \in Int, ay \in Int :
        ax = CellArea * x /\ ay = CellArea * y /\ CellArea * (y - x) = ay - ax
  <2>1. CellArea * x \in Int /\ CellArea * y \in Int
    BY AreaAdds
  <2>2. CellArea * (y - x) = CellArea * y - CellArea * x
    BY AreaAdds
  <2> QED
    BY <2>1, <2>2
<1>7. Mass = ax
  <2>1. Mass = CellArea * (Total(thk) + Total(href))
    BY <1>1, MassIs
  <2> QED
    BY <1>4, <1>6, <2>1
<1>8. Mass' = ay
  <2>1. Mass' = CellArea * (Total(thk') + Total(href') + 0)
    BY <1>1 DEF Mass
  <2>2. Total(thk') + Total(href') + 0 = y
    BY <1>4
  <2> QED
    BY <1>6, <2>1, <2>2
<1>9. /\ flux'.surface = flux.surface /\ flux'.grounded = flux.grounded
      /\ flux'.shelf = flux.shelf /\ flux'.nonneg = flux.nonneg
      /\ flux'.discharge \in Int
  <2>1. PICK lost \in Int : flux' = [flux EXCEPT !.discharge = flux.discharge + lost,
                                                 !.ocean = flux.ocean + lost]
    <3>1. PICK h \in Geometries :
            flux' = [flux EXCEPT !.discharge = @ + Discharge(h, OldH, OldHref),
                                 !.ocean = @ + Discharge(h, OldH, OldHref)]
      BY <1>1, DoCalvingIs
    <3>2. Discharge(h, OldH, OldHref) \in Int
      BY <1>1, OldType, DischargeType
    <3> QED
      BY <3>1, <3>2
  <2>2. flux'.discharge \in Int
    BY <1>3 DEF TypeInv, Fluxes
  <2> QED
    BY <1>1, <2>1, <2>2 DEF TypeInv, Fluxes
<1>10. PICK s0 \in Int, d0 \in Int, d1 \in Int :
         /\ s0 = flux.surface + flux.grounded + flux.shelf + flux.nonneg
         /\ d0 = flux.discharge /\ d1 = flux'.discharge
  BY <1>1, <1>9 DEF TypeInv, Fluxes
<1>11. Reports = s0 + d0
  BY <1>10 DEF Reports
<1>12. Reports' = s0 + d1
  BY <1>9, <1>10 DEF Reports
<1>13. dropped \in Int
  BY <1>1 DEF TypeInv
<1>14. d1 - d0 = ay - ax
  BY <1>5, <1>6, <1>10
<1>15. ax + dropped = mass0 + (s0 + d0)
  BY <1>7, <1>11
<1>16. ay + dropped = mass0 + (s0 + d1)
  BY <1>13, <1>14, <1>15
<1> QED
  BY <1>1, <1>8, <1>12, <1>16

LEMMA AccountsKept ==
  ASSUME BCMask = {}, SoundSetups, ClosedBoundary
  PROVE  AccountInv /\ NoCellDrained /\ [Next]_vars => AccountInv'
<1> SUFFICES ASSUME AccountInv, NoCellDrained, [Next]_vars PROVE AccountInv'
  OBVIOUS
<1>1. SeaInv /\ SeaInv' /\ TypeInv /\ TypeInv' /\ mass0 \in Int
  BY StepAtSea DEF AccountInv, SeaInv
<1>2. setup' = setup /\ mass0' = mass0
  BY DEF Next, vars, BeginStep, MassContExplicitStep, ResidualRedistribution,
         UpdateSurfaceElevationAndMask, DoCalving
<1>3. Counted' <=> Counted
  BY <1>2 DEF Counted, OneProcessor, DischargeCounted
<1>4. Counted => Mass + dropped = mass0 + Reports
  BY <1>1, AccountedIs DEF AccountInv
<1>5. ASSUME Counted => (Mass + dropped = mass0 + Reports)' PROVE AccountInv'
  <2>1. Counted' => (Mass + dropped = mass0 + Reports)'
    BY <1>3, <1>5
  <2>2. MassAccounted'
    <3>1. /\ flux'.surface \in Int /\ flux'.grounded \in Int /\ flux'.shelf \in Int
          /\ flux'.nonneg \in Int /\ flux'.discharge \in Int
      BY <1>1 DEF TypeInv, Fluxes
    <3>2. mass0' \in Int
      BY <1>1, <1>2
    <3>3. mass0' + flux'.surface + flux'.grounded + flux'.shelf + flux'.nonneg + flux'.discharge
            = mass0' + Reports'
      BY <3>1, <3>2 DEF Reports
    <3>4. Counted' => Accounted'
      BY <2>1, <3>3 DEF Accounted
    <3> QED
      BY <3>4 DEF MassAccounted, Counted
  <2> QED
    BY <1>1, <1>2, <2>2 DEF AccountInv
<1> SUFFICES ASSUME Counted PROVE (Mass + dropped = mass0 + Reports)'
  BY <1>5
<1>6. Mass + dropped = mass0 + Reports
  BY <1>4
<1>7. ASSUME thk' = thk, href' = href, pc # "redistribute", pc' # "redistribute",
             flux' = flux, dropped' = dropped
      PROVE  (Mass + dropped = mass0 + Reports)'
  <2>1. Mass = CellArea * (Total(thk) + Total(href))
    BY <1>1, <1>7, MassIs
  <2>2. Mass' = CellArea * (Total(thk') + Total(href') + 0)
    BY <1>7 DEF Mass
  <2>3. Total(thk') + Total(href') + 0 = Total(thk) + Total(href)
    BY <1>1, <1>7, TotalType DEF TypeInv
  <2>4. Mass' = Mass /\ Reports' = Reports
    BY <1>7, <2>1, <2>2, <2>3 DEF Reports
  <2> QED
    BY <1>2, <1>6, <1>7, <2>4
<1>8. ASSUME Update(thk) PROVE thk' = thk
  BY <1>1, <1>8, UpdateIs, UpdatedIs DEF Counted, TypeInv
<1>9. CASE BeginStep
  <2>1. thk' = thk
    <3>1. CASE setup.subgl
      BY <1>8, <1>9, <3>1 DEF BeginStep
    <3>2. CASE ~setup.subgl
      BY <1>9, <3>2 DEF BeginStep
    <3> QED
      BY <3>1, <3>2
  <2> QED
    BY <1>7, <1>9, <2>1 DEF BeginStep
<1>10. CASE MassContExplicitStep
  BY <1>1, <1>6, <1>10, TransportKeepsAccounts
<1>11. CASE ResidualRedistribution
  BY <1>1, <1>6, <1>11, RedistributionKeepsAccounts
<1>12. CASE UpdateSurfaceElevationAndMask
  BY <1>7, <1>8, <1>12 DEF UpdateSurfaceElevationAndMask
<1>13. CASE DoCalving
  BY <1>1, <1>6, <1>13, CalvingKeepsAccounts
<1>14. CASE UNCHANGED vars
  <2>1. /\ thk' = thk /\ href' = href /\ residual' = residual /\ pc' = pc /\ flux' = flux
        /\ dropped' = dropped
    BY <1>14 DEF vars
  <2>2. Mass' = Mass /\ Reports' = Reports
    BY <2>1 DEF Mass, Reports
  <2> QED
    BY <1>2, <1>6, <2>1, <2>2
<1> QED
  BY <1>9, <1>10, <1>11, <1>12, <1>13, <1>14 DEF Next

(* The mass of the ice changes by what is reported and by nothing else, but *)
(* for residuals that three iterations did not place: whatever the flow, the *)
(* sources, the redistribution and calving do in any number of steps on one *)
(* processor with -part_redist.  It needs a boundary of the grid that no    *)
(* residual crosses, no prescribed velocities, and partially filled cells   *)
(* that lose no more than they hold, as the code reports what such cells    *)
(* gain from the nonnegativity rule with the wrong sign.                    *)
THEOREM MassIsAccounted ==
  BCMask = {} /\ SoundSetups /\ ClosedBoundary /\ Spec /\ []NoCellDrained => []MassAccounted
<1> SUFFICES ASSUME BCMask = {}, SoundSetups, ClosedBoundary
             PROVE  Spec /\ []NoCellDrained => []MassAccounted
  OBVIOUS
<1>1. Init => AccountInv
  BY InitAccounts
<1>2. AccountInv /\ NoCellDrained /\ [Next]_vars => AccountInv'
  BY AccountsKept
<1>3. AccountInv => MassAccounted
  BY DEF AccountInv
<1> QED
  BY <1>1, <1>2, <1>3, PTL DEF Spec
=============================================================================
