---------------------------- MODULE EditorProofs ----------------------------
(***************************************************************************)
(* The editor for any world, grid, map and number of edits: the merge, the *)
(* layout that reaches the server, and the selection; and the layouts in   *)
(* the browser for any tabs, names and number of slots and saves.          *)
(***************************************************************************)
EXTENDS MapEditor, LayoutStore, FiniteSetTheorems, SequenceTheorems, WellFoundedInduction, TLAPS

\* A block of the editor, as the server would take it.
Shape == [id : Nat \ {0}, x : Int, y : Int, width : Int, height : Int,
          type : Kinds, extra : Options \cup {NoOption}]
Drawn == {b \in Shape : LegalBlock(b)}

(***************************************************************************)
(* Sorting: the places of the blocks are a permutation                     *)
(***************************************************************************)

\* Who comes before a block, and how many they are.
Ahead(list, j, vertical) == {i \in DOMAIN list : Earlier(list, i, j, vertical)}
Place(list, j, vertical) == Cardinality(Ahead(list, j, vertical)) + 1

LEMMA EarlierIsAnOrder ==
  ASSUME NEW list \in Seq(Shape), NEW vertical \in BOOLEAN
  PROVE  /\ \A i \in DOMAIN list : ~Earlier(list, i, i, vertical)
         /\ \A i, j \in DOMAIN list :
              i # j => Earlier(list, i, j, vertical) \/ Earlier(list, j, i, vertical)
         /\ \A i, j, k \in DOMAIN list :
              Earlier(list, i, j, vertical) /\ Earlier(list, j, k, vertical)
                => Earlier(list, i, k, vertical)
<1>1. \A i \in DOMAIN list : list[i].x \in Int /\ list[i].y \in Int /\ i \in Int
  <2>1. \A i \in DOMAIN list : list[i] \in Shape /\ i \in Int
    OBVIOUS
  <2> QED BY <2>1 DEF Shape
<1> QED BY <1>1 DEF Earlier, Before

LEMMA UpTo ==
  ASSUME NEW n \in Nat
  PROVE  IsFiniteSet(1 .. n) /\ Cardinality(1 .. n) = n
<1>1. 1 \in Int /\ n \in Int
  OBVIOUS
<1>2. IsFiniteSet(1 .. n) /\ Cardinality(1 .. n) = IF 1 > n THEN 0 ELSE n - 1 + 1
  BY ONLY <1>1, FS_Interval
<1> QED BY <1>2

LEMMA Numbered ==
  ASSUME NEW S, NEW list \in Seq(S)
  PROVE  /\ Len(list) \in Nat /\ DOMAIN list = 1 .. Len(list)
         /\ IsFiniteSet(1 .. Len(list)) /\ Cardinality(1 .. Len(list)) = Len(list)
BY UpTo

LEMMA PlacesDiffer ==
  ASSUME NEW list \in Seq(Shape), NEW vertical \in BOOLEAN
  PROVE  /\ \A j \in DOMAIN list : Place(list, j, vertical) \in DOMAIN list
         /\ \A i, j \in DOMAIN list :
              Place(list, i, vertical) = Place(list, j, vertical) => i = j
<1> DEFINE n == Len(list)
<1>1. n \in Nat /\ DOMAIN list = 1 .. n /\ IsFiniteSet(1 .. n) /\ Cardinality(1 .. n) = n
  BY Numbered
<1>2. ASSUME NEW j \in DOMAIN list
      PROVE  /\ IsFiniteSet(Ahead(list, j, vertical)) /\ j \notin Ahead(list, j, vertical)
             /\ Cardinality(Ahead(list, j, vertical)) \in Nat
             /\ Cardinality(Ahead(list, j, vertical)) < n
  <2>1. Ahead(list, j, vertical) \subseteq 1 .. n /\ j \notin Ahead(list, j, vertical)
    BY <1>1, EarlierIsAnOrder DEF Ahead
  <2>2. /\ IsFiniteSet(Ahead(list, j, vertical)) /\ Cardinality(Ahead(list, j, vertical)) <= n
        /\ Cardinality(Ahead(list, j, vertical)) = n => Ahead(list, j, vertical) = 1 .. n
    BY <1>1, <2>1, FS_Subset
  <2>3. Cardinality(Ahead(list, j, vertical)) \in Nat
    BY <2>2, FS_CardinalityType
  <2> QED BY <1>1, <2>1, <2>2, <2>3
<1>3. ASSUME NEW i \in DOMAIN list, NEW j \in DOMAIN list, Earlier(list, i, j, vertical)
      PROVE  Cardinality(Ahead(list, i, vertical)) < Cardinality(Ahead(list, j, vertical))
  <2>1. Ahead(list, i, vertical) \subseteq Ahead(list, j, vertical)
    BY <1>3, EarlierIsAnOrder DEF Ahead
  <2>2. i \in Ahead(list, j, vertical) /\ i \notin Ahead(list, i, vertical)
    BY <1>3, EarlierIsAnOrder DEF Ahead
  <2>3. /\ Cardinality(Ahead(list, i, vertical)) <= Cardinality(Ahead(list, j, vertical))
        /\ Cardinality(Ahead(list, i, vertical)) # Cardinality(Ahead(list, j, vertical))
    BY <1>2, <2>1, <2>2, FS_Subset
  <2> QED BY <1>2, <2>3
<1>4. \A j \in DOMAIN list : Place(list, j, vertical) \in DOMAIN list
  BY <1>1, <1>2 DEF Place
<1>5. ASSUME NEW i \in DOMAIN list, NEW j \in DOMAIN list, i # j
      PROVE  Place(list, i, vertical) # Place(list, j, vertical)
  BY <1>2, <1>3, <1>5, EarlierIsAnOrder DEF Place
<1> QED BY <1>4, <1>5

\* The sort is a permutation: every block has a place, every place a block.
Order(list, vertical) ==
  [k \in DOMAIN list |-> CHOOSE j \in DOMAIN list : Place(list, j, vertical) = k]

LEMMA SortPermutes ==
  ASSUME NEW list \in Seq(Shape), NEW vertical \in BOOLEAN
  PROVE  LET p == Order(list, vertical)
         IN /\ p \in [DOMAIN list -> DOMAIN list]
            /\ \A j \in DOMAIN list : p[Place(list, j, vertical)] = j
            /\ \A i, j \in DOMAIN list : p[i] = p[j] => i = j
            /\ InOrder(list, vertical) = [k \in DOMAIN list |-> list[p[k]]]
<1> DEFINE n == Len(list)  D == DOMAIN list  f == [j \in D |-> Place(list, j, vertical)]
<1>1. n \in Nat /\ D = 1 .. n /\ IsFiniteSet(D)
  <2>1. n \in Nat /\ D = 1 .. n
    OBVIOUS
  <2> QED BY <2>1, FS_Interval
<1>2. f \in Injection(D, D)
  BY PlacesDiffer DEF Injection, IsInjective
<1>3. f \in Surjection(D, D)
  BY <1>1, <1>2, FS_Injection
<1>4. \A k \in D : \E j \in D : Place(list, j, vertical) = k
  BY <1>3 DEF Surjection
<1>5. \A k \in D : /\ Order(list, vertical)[k] \in D
                   /\ Place(list, Order(list, vertical)[k], vertical) = k
  BY <1>4 DEF Order
<1>6. \A j \in D : Order(list, vertical)[Place(list, j, vertical)] = j
  BY <1>5, PlacesDiffer
<1>7. InOrder(list, vertical) = [k \in D |-> list[Order(list, vertical)[k]]]
  BY DEF InOrder, Order, Place, Ahead
<1> QED BY <1>5, <1>6, <1>7 DEF Order

(***************************************************************************)
(* The fold of a pass, block by block                                      *)
(***************************************************************************)

\* One step of the pass, and what the fold computes of it.
Add(out, block, vertical) ==
  IF /\ out # <<>> /\ Joins(Last(out), block, vertical) /\ SameKind(Last(out), block)
    THEN [out EXCEPT ![Len(out)] = Joined(@, block, vertical)]
    ELSE Append(out, block)

Folds(g, S, list, vertical) ==
  g = [s \in SUBSET S |-> IF s = {} THEN <<>>
                          ELSE Add(g[s \ {Max(s)}], list[Max(s)], vertical)]

LEMMA PassIsAFold ==
  ASSUME NEW list, NEW vertical
  PROVE  MergePass(list, vertical) =
           LET ord == InOrder(list, vertical)
           IN (CHOOSE g : Folds(g, DOMAIN ord, ord, vertical))[DOMAIN ord]
BY DEF MergePass, FoldLeft, MapThenFoldSet, Folds, Add

LEMMA LeastFailure ==
  ASSUME NEW Bad \in SUBSET Nat, Bad # {}
  PROVE  \E m \in Bad : \A k \in Bad : m <= k
<1> DEFINE R == OpToRel(<, Nat)
<1>1. PICK m \in Bad : \A k \in Bad : <<k, m>> \notin R
  BY NatLessThanWellFounded, WFMin
<1>2. ASSUME NEW k \in Bad PROVE m <= k
  <2>1. m \in Nat /\ k \in Nat
    OBVIOUS
  <2>2. ~ (k < m)
    BY <1>1, <2>1 DEF OpToRel
  <2> QED BY <2>1, <2>2
<1> QED BY <1>2

LEMMA FoldExists ==
  ASSUME NEW list, NEW vertical, NEW n \in Nat
  PROVE  \E g : Folds(g, 1 .. n, list, vertical)
<1> DEFINE Bad == {m \in Nat : ~\E g : Folds(g, 1 .. m, list, vertical)}
<1>1. SUFFICES ASSUME Bad # {} PROVE FALSE
  OBVIOUS
<1>2. PICK m \in Bad : \A k \in Bad : m <= k
  BY <1>1, LeastFailure
<1>3. m # 0
  <2>1. SUFFICES \E g : Folds(g, 1 .. 0, list, vertical)
    BY <1>2
  <2>2. 1 .. 0 = {}
    OBVIOUS
  <2>3. Folds([s \in SUBSET (1 .. 0) |-> <<>>], 1 .. 0, list, vertical)
    BY <2>2 DEF Folds
  <2> QED BY <2>3
<1>4. m - 1 \in Nat /\ m - 1 \notin Bad
  BY <1>2, <1>3
<1>5. PICK g : Folds(g, 1 .. m - 1, list, vertical)
  BY <1>4
<1> DEFINE h == [s \in SUBSET (1 .. m) |->
                   IF m \in s THEN Add(g[s \ {m}], list[m], vertical) ELSE g[s]]
<1>6. ASSUME NEW s \in SUBSET (1 .. m)
      PROVE  h[s] = IF s = {} THEN <<>> ELSE Add(h[s \ {Max(s)}], list[Max(s)], vertical)
  <2>1. CASE m \in s
    <3>1. Max(s) = m
      <4>1. \A y \in s : y \in Int /\ m >= y
        BY <1>2
      <4>2. \A x \in s : (\A y \in s : x >= y) => x = m
        BY <1>2, <2>1, <4>1
      <4> QED BY <2>1, <4>1, <4>2 DEF Max
    <3>2. s \ {m} \in SUBSET (1 .. m) /\ h[s \ {m}] = g[s \ {m}]
      OBVIOUS
    <3> QED BY <2>1, <3>1, <3>2
  <2>2. CASE m \notin s
    <3>1. s \in SUBSET (1 .. m - 1) /\ h[s] = g[s]
      BY <1>2, <2>2
    <3>2. s \ {Max(s)} \in SUBSET (1 .. m) /\ h[s \ {Max(s)}] = g[s \ {Max(s)}]
      BY <2>2
    <3>3. g[s] = IF s = {} THEN <<>> ELSE Add(g[s \ {Max(s)}], list[Max(s)], vertical)
      BY <1>5, <3>1 DEF Folds
    <3> QED BY <3>1, <3>2, <3>3
  <2> QED BY <2>1, <2>2
<1>7. Folds(h, 1 .. m, list, vertical)
  <2> HIDE DEF h
  <2>1. h = [s \in SUBSET (1 .. m) |-> h[s]]
    BY DEF h
  <2> QED BY <1>6, <2>1 DEF Folds
<1> QED BY <1>2, <1>7

(***************************************************************************)
(* One step of a pass                                                      *)
(***************************************************************************)

\* The cells of three blocks of one type that differ in one extent only.
Wide(b) == b.x .. b.x + b.width - 1
High(b) == b.y .. b.y + b.height - 1
Alike(a, b) == a.type = b.type /\ a.extra = b.extra

LEMMA CellsAdd ==
  ASSUME NEW j, NEW p, NEW b, Alike(j, p), Alike(b, p),
         \/ Wide(j) = Wide(p) /\ Wide(b) = Wide(p) /\ High(j) = High(p) \cup High(b)
         \/ High(j) = High(p) /\ High(b) = High(p) /\ Wide(j) = Wide(p) \cup Wide(b)
  PROVE  Cells(j) = Cells(p) \cup Cells(b)
<1>1. \A q : Cells(q) = {<<x, y, q.type, q.extra>> : x \in Wide(q), y \in High(q)}
  BY DEF Cells, Wide, High
<1>2. /\ Cells(j) = {<<x, y, p.type, p.extra>> : x \in Wide(j), y \in High(j)}
      /\ Cells(p) = {<<x, y, p.type, p.extra>> : x \in Wide(p), y \in High(p)}
      /\ Cells(b) = {<<x, y, p.type, p.extra>> : x \in Wide(b), y \in High(b)}
  BY <1>1 DEF Alike
<1> QED BY <1>2

\* Two blocks that meet become one that covers what both did.
LEMMA JoinedCovers ==
  ASSUME NEW p \in Drawn, NEW b \in Drawn, NEW vertical \in BOOLEAN,
         Joins(p, b, vertical), SameKind(p, b)
  PROVE  /\ Joined(p, b, vertical) \in Drawn
         /\ Joined(p, b, vertical).type = p.type
         /\ Cells(Joined(p, b, vertical)) = Cells(p) \cup Cells(b)
<1> DEFINE j == Joined(p, b, vertical)
<1>1. /\ p \in Shape /\ b \in Shape /\ LegalBlock(p) /\ LegalBlock(b)
      /\ p.x \in Int /\ p.y \in Int /\ p.width \in Int /\ p.height \in Int
      /\ b.x \in Int /\ b.y \in Int /\ b.width \in Int /\ b.height \in Int
      /\ p.width > 0 /\ p.height > 0 /\ b.width > 0 /\ b.height > 0
      /\ p.type = b.type /\ p.extra = b.extra
  BY WorldAssumption DEF Drawn, Shape, LegalBlock, SameKind
<1>2. CASE vertical
  <2>1. /\ j = [p EXCEPT !.height = p.height + b.height]
        /\ p.x = b.x /\ p.width = b.width /\ p.y + p.height = b.y
    BY <1>2 DEF Joined, Joins
  <2>2. /\ j \in Shape /\ j.x = p.x /\ j.y = p.y /\ j.width = p.width
        /\ j.height = p.height + b.height /\ j.type = p.type /\ j.extra = p.extra
    BY <1>1, <2>1 DEF Shape
  <2> HIDE DEF j
  <2>3. LegalBlock(j)
    BY <1>1, <2>1, <2>2, WorldAssumption DEF LegalBlock
  <2>4. High(j) = High(p) \cup High(b)
    BY <1>1, <2>1, <2>2 DEF High
  <2>5. Cells(j) = Cells(p) \cup Cells(b)
    <3>1. Wide(j) = Wide(p) /\ Wide(b) = Wide(p) /\ Alike(j, p) /\ Alike(b, p)
      BY <1>1, <2>1, <2>2 DEF Wide, Alike
    <3> QED BY <2>4, <3>1, CellsAdd
  <2> QED BY <2>2, <2>3, <2>5 DEF Drawn, j
<1>3. CASE ~vertical
  <2>1. /\ j = [p EXCEPT !.width = p.width + b.width]
        /\ p.y = b.y /\ p.height = b.height /\ p.x + p.width = b.x
    BY <1>3 DEF Joined, Joins
  <2>2. /\ j \in Shape /\ j.x = p.x /\ j.y = p.y /\ j.height = p.height
        /\ j.width = p.width + b.width /\ j.type = p.type /\ j.extra = p.extra
    BY <1>1, <2>1 DEF Shape
  <2> HIDE DEF j
  <2>3. LegalBlock(j)
    BY <1>1, <2>1, <2>2, WorldAssumption DEF LegalBlock
  <2>4. Wide(j) = Wide(p) \cup Wide(b)
    BY <1>1, <2>1, <2>2 DEF Wide
  <2>5. Cells(j) = Cells(p) \cup Cells(b)
    <3>1. High(j) = High(p) /\ High(b) = High(p) /\ Alike(j, p) /\ Alike(b, p)
      BY <1>1, <2>1, <2>2 DEF High, Alike
    <3> QED BY <2>4, <3>1, CellsAdd
  <2> QED BY <2>2, <2>3, <2>5 DEF Drawn, j
<1> QED BY <1>2, <1>3

LEMMA MoversAreFinite ==
  ASSUME NEW S, NEW list \in Seq(S)
  PROVE  /\ IsFiniteSet(Movers(list)) /\ Cardinality(Movers(list)) \in Nat
         /\ Movers(list) \subseteq 1 .. Len(list)
<1>1. Movers(list) \subseteq 1 .. Len(list)
  BY Numbered DEF Movers
<1> QED BY <1>1, Numbered, FS_Subset, FS_CardinalityType

\* A pass adds the ground of a block and, if it is one, a mover.
LEMMA AddKeeps ==
  ASSUME NEW out \in Seq(Drawn), NEW b \in Drawn, NEW vertical \in BOOLEAN
  PROVE  LET now == Add(out, b, vertical)
         IN /\ now \in Seq(Drawn) /\ now # <<>> /\ Len(now) <= Len(out) + 1
            /\ Ground(now) = Ground(out) \cup Cells(b)
            /\ Cardinality(Movers(now)) =
                 Cardinality(Movers(out)) + (IF b.type = "mover" THEN 1 ELSE 0)
<1> DEFINE now == Add(out, b, vertical)  n == Len(out)
<1>1. n \in Nat /\ DOMAIN out = 1 .. n /\ \A i \in 1 .. n : out[i] \in Drawn
  OBVIOUS
<1>2. CASE out # <<>> /\ Joins(Last(out), b, vertical) /\ SameKind(Last(out), b)
  <2> DEFINE p == out[n]
  <2>1. n \in 1 .. n /\ p \in Drawn /\ Last(out) = p
    BY <1>1, <1>2 DEF Last
  <2>2. now = [out EXCEPT ![n] = Joined(p, b, vertical)]
    BY <1>2 DEF Add
  <2>3. /\ Joined(p, b, vertical) \in Drawn /\ Joined(p, b, vertical).type = p.type
        /\ Cells(Joined(p, b, vertical)) = Cells(p) \cup Cells(b)
    BY <1>2, <2>1, JoinedCovers
  <2> HIDE DEF now, p
  <2>4. /\ now \in Seq(Drawn) /\ Len(now) = n /\ DOMAIN now = 1 .. n
        /\ now[n] = Joined(p, b, vertical)
        /\ \A i \in 1 .. n : i # n => now[i] = out[i]
    BY <1>1, <2>1, <2>2, <2>3
  <2>5. Ground(now) = Ground(out) \cup Cells(b)
    <3>1. Ground(now) = UNION {Cells(now[i]) : i \in 1 .. n}
      BY <2>4 DEF Ground
    <3>2. Ground(out) = UNION {Cells(out[i]) : i \in 1 .. n}
      BY <1>1 DEF Ground
    <3>3. Cells(now[n]) = Cells(out[n]) \cup Cells(b)
      BY <2>3, <2>4 DEF p
    <3> QED BY <2>1, <2>4, <3>1, <3>2, <3>3
  <2>6. Movers(now) = Movers(out)
    BY <1>1, <2>3, <2>4 DEF Movers, p
  <2>7. b.type # "mover"
    BY <1>2 DEF SameKind
  <2>8. Cardinality(Movers(out)) \in Nat
    BY MoversAreFinite
  <2>9. now # <<>> /\ Len(now) <= Len(out) + 1
    <3>1. n \in Nat /\ n \in 1 .. n /\ Len(now) = n
      BY <1>1, <2>1, <2>4
    <3>2. Len(now) # 0 /\ Len(now) <= n + 1
      BY ONLY <3>1
    <3> QED BY <3>2
  <2>10. Cardinality(Movers(now)) = Cardinality(Movers(out)) + (IF b.type = "mover" THEN 1 ELSE 0)
    BY <2>6, <2>7, <2>8
  <2> QED BY <2>4, <2>5, <2>9, <2>10 DEF now
<1>3. CASE ~(out # <<>> /\ Joins(Last(out), b, vertical) /\ SameKind(Last(out), b))
  <2>1. now = Append(out, b)
    BY <1>3 DEF Add
  <2> HIDE DEF now
  <2>2. /\ now \in Seq(Drawn) /\ Len(now) = n + 1 /\ DOMAIN now = 1 .. n + 1
        /\ now[n + 1] = b /\ \A i \in 1 .. n : now[i] = out[i]
    BY <1>1, <2>1
  <2>3. Ground(now) = Ground(out) \cup Cells(b)
    <3>1. Ground(now) = UNION {Cells(now[i]) : i \in 1 .. n + 1}
      BY <2>2 DEF Ground
    <3>2. Ground(out) = UNION {Cells(out[i]) : i \in 1 .. n}
      BY <1>1 DEF Ground
    <3>3. 1 .. n + 1 = (1 .. n) \cup {n + 1}
      BY <1>1
    <3> QED BY <2>2, <3>1, <3>2, <3>3
  <2>4. Movers(now) = IF b.type = "mover" THEN Movers(out) \cup {n + 1} ELSE Movers(out)
    BY <1>1, <2>2 DEF Movers
  <2>5. /\ IsFiniteSet(Movers(out)) /\ Cardinality(Movers(out)) \in Nat
        /\ n + 1 \notin Movers(out)
    BY <1>1, MoversAreFinite
  <2>6. Cardinality(Movers(out) \cup {n + 1}) = Cardinality(Movers(out)) + 1
    BY <2>5, FS_AddElement
  <2> QED BY <1>1, <2>2, <2>3, <2>4, <2>5, <2>6 DEF now
<1> QED BY <1>2, <1>3

(***************************************************************************)
(* A pass, and the merge                                                   *)
(***************************************************************************)

\* What is said of the first k blocks when a pass has added them.
FirstMovers(list, k) == {i \in 1 .. k : list[i].type = "mover"}
Collected(out, list, k) ==
  /\ out \in Seq(Drawn) /\ Len(out) <= k /\ (k > 0 => out # <<>>)
  /\ Ground(out) = UNION {Cells(list[i]) : i \in 1 .. k}
  /\ Cardinality(Movers(out)) = Cardinality(FirstMovers(list, k))

LEMMA OneMoreKept ==
  ASSUME NEW list \in Seq(Drawn), NEW k \in 1 .. Len(list), NEW out, Collected(out, list, k - 1),
         NEW vertical \in BOOLEAN
  PROVE  Collected(Add(out, list[k], vertical), list, k)
<1> DEFINE now == Add(out, list[k], vertical)
<1>1. /\ k \in Nat /\ k - 1 \in Nat /\ list[k] \in Drawn /\ out \in Seq(Drawn)
      /\ Len(out) <= k - 1 /\ Len(out) \in Nat
      /\ Ground(out) = UNION {Cells(list[i]) : i \in 1 .. k - 1}
      /\ Cardinality(Movers(out)) = Cardinality(FirstMovers(list, k - 1))
  BY DEF Collected
<1>2. /\ now \in Seq(Drawn) /\ now # <<>> /\ Len(now) <= Len(out) + 1
      /\ Ground(now) = Ground(out) \cup Cells(list[k])
      /\ Cardinality(Movers(now)) =
           Cardinality(Movers(out)) + (IF list[k].type = "mover" THEN 1 ELSE 0)
  BY <1>1, AddKeeps
<1> HIDE DEF now
<1>3. 1 .. k = (1 .. k - 1) \cup {k} /\ k \notin 1 .. k - 1
  BY <1>1
<1>4. Ground(now) = UNION {Cells(list[i]) : i \in 1 .. k}
  BY <1>1, <1>2, <1>3
<1>5. Cardinality(FirstMovers(list, k)) =
        Cardinality(FirstMovers(list, k - 1)) + (IF list[k].type = "mover" THEN 1 ELSE 0)
  <2>1. FirstMovers(list, k) = IF list[k].type = "mover" THEN FirstMovers(list, k - 1) \cup {k}
                                                         ELSE FirstMovers(list, k - 1)
    BY <1>3 DEF FirstMovers
  <2>2. /\ IsFiniteSet(FirstMovers(list, k - 1)) /\ k \notin FirstMovers(list, k - 1)
        /\ Cardinality(FirstMovers(list, k - 1)) \in Nat
    <3>1. FirstMovers(list, k - 1) \subseteq 1 .. Len(list) /\ k \notin FirstMovers(list, k - 1)
      BY <1>3 DEF FirstMovers
    <3> QED BY <3>1, Numbered, FS_Subset, FS_CardinalityType
  <2>3. Cardinality(FirstMovers(list, k - 1) \cup {k}) = Cardinality(FirstMovers(list, k - 1)) + 1
    BY <2>2, FS_AddElement
  <2> QED BY <2>1, <2>2, <2>3
<1>6. Len(now) <= k
  BY <1>1, <1>2
<1> QED BY <1>1, <1>2, <1>4, <1>5, <1>6 DEF Collected, now

LEMMA WholeListIsKept ==
  ASSUME NEW list \in Seq(Drawn), NEW vertical \in BOOLEAN, NEW g,
         Folds(g, 1 .. Len(list), list, vertical)
  PROVE  Collected(g[1 .. Len(list)], list, Len(list))
<1> DEFINE n == Len(list)  Bad == {k \in 0 .. n : ~Collected(g[1 .. k], list, k)}
<1>1. SUFFICES ASSUME Bad # {} PROVE FALSE
  OBVIOUS
<1>2. PICK k \in Bad : \A j \in Bad : k <= j
  <2>1. Bad \subseteq Nat
    OBVIOUS
  <2> HIDE DEF Bad
  <2> QED BY <1>1, <2>1, LeastFailure
<1>3. k # 0
  <2>1. 1 .. 0 = {}
    OBVIOUS
  <2>2. g[1 .. 0] = <<>>
    BY <2>1 DEF Folds
  <2>3. Movers(<<>>) = {} /\ FirstMovers(list, 0) = {}
    BY <2>1 DEF Movers, FirstMovers
  <2>4. Ground(<<>>) = {} /\ UNION {Cells(list[i]) : i \in 1 .. 0} = {}
    BY <2>1 DEF Ground
  <2>5. Collected(<<>>, list, 0)
    <3>1. <<>> \in Seq(Drawn) /\ Len(<<>>) <= 0
      OBVIOUS
    <3>2. Cardinality(Movers(<<>>)) = Cardinality(FirstMovers(list, 0))
      BY <2>3
    <3>3. Ground(<<>>) = UNION {Cells(list[i]) : i \in 1 .. 0}
      BY <2>4
    <3> QED BY <3>1, <3>2, <3>3 DEF Collected
  <2> QED BY <1>2, <2>2, <2>5
<1>4. /\ k \in 1 .. n /\ k - 1 \in 0 .. n /\ k - 1 \notin Bad
  BY <1>2, <1>3
<1>5. Collected(g[1 .. k - 1], list, k - 1)
  BY <1>4
<1>6. g[1 .. k] = Add(g[1 .. k - 1], list[k], vertical)
  <2>1. Max(1 .. k) = k
    <3>1. \A x \in 1 .. k : (\A y \in 1 .. k : x >= y) => x = k
      BY <1>4
    <3> QED BY <1>4, <3>1 DEF Max
  <2>2. (1 .. k) \ {k} = 1 .. k - 1 /\ 1 .. k # {} /\ 1 .. k \in SUBSET (1 .. n)
    <3>1. k \in Nat /\ n \in Nat /\ 1 <= k /\ k <= n
      BY <1>4
    <3> HIDE DEF n
    <3>2. (1 .. k) \ {k} = 1 .. k - 1
      BY <3>1
    <3>3. 1 \in 1 .. k
      BY <3>1
    <3>4. 1 .. k \subseteq 1 .. n
      BY <3>1
    <3> QED BY <3>2, <3>3, <3>4
  <2> QED BY <2>1, <2>2 DEF Folds
<1>7. Collected(g[1 .. k], list, k)
  BY <1>4, <1>5, <1>6, OneMoreKept
<1> QED BY <1>2, <1>7

\* The sorted list has the same ground and as many movers.
LEMMA SortKeeps ==
  ASSUME NEW list \in Seq(Drawn), NEW vertical \in BOOLEAN
  PROVE  LET ord == InOrder(list, vertical)
         IN /\ ord \in Seq(Drawn) /\ Len(ord) = Len(list)
            /\ Ground(ord) = Ground(list)
            /\ Cardinality(Movers(ord)) = Cardinality(Movers(list))
<1> DEFINE ord == InOrder(list, vertical)  p == Order(list, vertical)  n == Len(list)
           D == DOMAIN list
<1>1. n \in Nat /\ D = 1 .. n /\ list \in Seq(Shape) /\ \A i \in D : list[i] \in Drawn
  BY DEF Drawn
<1>2. /\ p \in [D -> D] /\ \A j \in D : p[Place(list, j, vertical)] = j
      /\ \A i, j \in D : p[i] = p[j] => i = j
      /\ ord = [k \in D |-> list[p[k]]]
      /\ \A j \in D : Place(list, j, vertical) \in D
  BY <1>1, SortPermutes, PlacesDiffer
<1> HIDE DEF p
<1>3. ord \in Seq(Drawn) /\ Len(ord) = n /\ DOMAIN ord = D
  BY <1>1, <1>2
<1>4. Ground(ord) = Ground(list)
  <2>1. {Cells(ord[k]) : k \in D} = {Cells(list[j]) : j \in D}
    <3>1. \A k \in D : p[k] \in D /\ ord[k] = list[p[k]]
      BY <1>2
    <3>2. \A j \in D : \E k \in D : p[k] = j
      BY <1>2
    <3> HIDE DEF ord, D
    <3> QED BY <3>1, <3>2
  <2> QED BY <1>3, <2>1 DEF Ground
<1>5. Cardinality(Movers(ord)) = Cardinality(Movers(list))
  <2> DEFINE f == [k \in Movers(ord) |-> p[k]]
  <2>1. Movers(ord) \subseteq D /\ \A k \in D : ord[k] = list[p[k]]
    BY <1>2, <1>3 DEF Movers
  <2>2. f \in Bijection(Movers(ord), Movers(list))
    <3>1. \A k \in Movers(ord) : f[k] \in Movers(list)
      BY <1>2, <2>1 DEF Movers
    <3>2. \A j \in Movers(list) : \E k \in Movers(ord) : f[k] = j
      <4>1. TAKE j \in Movers(list)
      <4>2. j \in D /\ Place(list, j, vertical) \in D /\ p[Place(list, j, vertical)] = j
        BY <1>2 DEF Movers
      <4>3. Place(list, j, vertical) \in Movers(ord)
        BY <1>3, <2>1, <4>2 DEF Movers
      <4> QED BY <4>2, <4>3
    <3>3. \A i, j \in Movers(ord) : f[i] = f[j] => i = j
      BY <1>2, <2>1
    <3> QED BY <3>1, <3>2, <3>3 DEF Bijection, Injection, Surjection, IsInjective
  <2>3. IsFiniteSet(Movers(ord))
    BY <1>3, MoversAreFinite
  <2>4. ExistsBijection(Movers(ord), Movers(list))
    BY <2>2 DEF ExistsBijection
  <2> QED BY <2>3, <2>4, FS_Bijection
<1> QED BY <1>3, <1>4, <1>5

LEMMA PassKeeps ==
  ASSUME NEW list \in Seq(Drawn), NEW vertical \in BOOLEAN
  PROVE  LET out == MergePass(list, vertical)
         IN /\ out \in Seq(Drawn) /\ Len(out) <= Len(list) /\ (list # <<>> => out # <<>>)
            /\ Ground(out) = Ground(list)
            /\ Cardinality(Movers(out)) = Cardinality(Movers(list))
<1> DEFINE ord == InOrder(list, vertical)  out == MergePass(list, vertical)
           g == CHOOSE h : Folds(h, DOMAIN ord, ord, vertical)
<1>1. /\ ord \in Seq(Drawn) /\ Len(ord) = Len(list) /\ Ground(ord) = Ground(list)
      /\ Cardinality(Movers(ord)) = Cardinality(Movers(list))
  BY SortKeeps
<1>2. out = g[DOMAIN ord]
  BY PassIsAFold
<1> HIDE DEF ord, out
<1>3. Len(ord) \in Nat /\ DOMAIN ord = 1 .. Len(ord)
  BY <1>1
<1>4. Folds(g, 1 .. Len(ord), ord, vertical)
  BY <1>3, FoldExists
<1>5. Collected(out, ord, Len(ord))
  <2> HIDE DEF g
  <2> QED BY <1>1, <1>2, <1>3, <1>4, WholeListIsKept
<1>6. /\ Movers(ord) = FirstMovers(ord, Len(ord))
      /\ Ground(ord) = UNION {Cells(ord[i]) : i \in 1 .. Len(ord)}
  BY <1>3 DEF Movers, FirstMovers, Ground
<1>7. list # <<>> => Len(list) > 0
  OBVIOUS
<1> QED BY <1>1, <1>3, <1>5, <1>6, <1>7 DEF Collected, out

\* mergeBlocks, for any list of blocks: no ground is lost or added, the movers
\* stay, and there are no more blocks than before.
THEOREM MergeKeeps ==
  ASSUME NEW list \in Seq(Drawn)
  PROVE  /\ MergeBlocks(list) \in Seq(Drawn) /\ Len(MergeBlocks(list)) <= Len(list)
         /\ list # <<>> => MergeBlocks(list) # <<>>
         /\ Ground(MergeBlocks(list)) = Ground(list)
         /\ Cardinality(Movers(MergeBlocks(list))) = Cardinality(Movers(list))
<1> DEFINE mid == MergePass(list, FALSE)
<1>1. /\ mid \in Seq(Drawn) /\ Len(mid) <= Len(list) /\ (list # <<>> => mid # <<>>)
      /\ Ground(mid) = Ground(list)
      /\ Cardinality(Movers(mid)) = Cardinality(Movers(list))
  BY PassKeeps
<1>2. MergeBlocks(list) = MergePass(mid, TRUE)
  BY DEF MergeBlocks
<1> HIDE DEF mid
<1>3. LET out == MergePass(mid, TRUE)
      IN /\ out \in Seq(Drawn) /\ Len(out) <= Len(mid) /\ (mid # <<>> => out # <<>>)
         /\ Ground(out) = Ground(mid)
         /\ Cardinality(Movers(out)) = Cardinality(Movers(mid))
  BY <1>1, PassKeeps
<1> DEFINE out == MergeBlocks(list)
<1>4. /\ out \in Seq(Drawn) /\ Len(out) <= Len(mid) /\ (mid # <<>> => out # <<>>)
      /\ Ground(out) = Ground(mid)
      /\ Cardinality(Movers(out)) = Cardinality(Movers(mid))
  BY <1>2, <1>3
<1> HIDE DEF out
<1>5. Len(mid) \in Nat /\ Len(list) \in Nat /\ Len(out) \in Nat
  BY <1>1, <1>4
<1>6. Len(out) <= Len(list)
  BY <1>1, <1>4, <1>5
<1> QED BY <1>1, <1>4, <1>6 DEF out

(***************************************************************************)
(* The layout that is sent                                                 *)
(***************************************************************************)

\* A block of a layout: it has no name, and the server takes it as it is.
Plain == [x : Int, y : Int, width : Int, height : Int,
          type : Kinds, extra : Options \cup {NoOption}]
Sent  == {b \in Plain : LegalBlock(b)}

LEMMA NormalStays ==
  ASSUME NEW b \in Sent
  PROVE  Normalize(b) = b
<1>1. /\ b \in Plain /\ LegalBlock(b)
      /\ b = [x |-> b.x, y |-> b.y, width |-> b.width, height |-> b.height,
              type |-> b.type, extra |-> b.extra]
  BY DEF Sent, Plain
<1>2. /\ Clamp(b.width, MinSize, Width) = b.width
      /\ Clamp(b.height, MinSize, Height) = b.height
      /\ Clamp(b.x, 0, Width - b.width) = b.x
      /\ Clamp(b.y, 0, Height - b.height) = b.y
  BY <1>1, WorldAssumption DEF LegalBlock, Clamp
<1>3. /\ b.type \in Kinds
      /\ b.extra = IF ~HasOption(b.type) THEN NoOption
                   ELSE IF b.extra \in Options THEN b.extra ELSE "default"
  BY <1>1 DEF LegalBlock
<1>4. Normalize(b) = [b EXCEPT !.x = b.x, !.y = b.y, !.width = b.width, !.height = b.height,
                               !.type = b.type, !.extra = b.extra]
  BY <1>2, <1>3 DEF Normalize
<1> QED BY <1>1, <1>4

\* The server takes a list it allows as it is.
THEOREM AllowedStays ==
  ASSUME NEW list \in Seq(Sent), Len(list) <= MaxBlocks
  PROVE  NormalizeAll(list) = list
<1>1. /\ Len(list) \in Nat /\ DOMAIN list = 1 .. Len(list)
      /\ list = [i \in 1 .. Len(list) |-> list[i]]
      /\ \A i \in 1 .. Len(list) : list[i] \in Sent
  OBVIOUS
<1>2. (IF Len(list) < MaxBlocks THEN Len(list) ELSE MaxBlocks) = Len(list)
  BY <1>1, WorldAssumption
<1>3. NormalizeAll(list) = [i \in 1 .. Len(list) |-> Normalize(list[i])]
  BY <1>2 DEF NormalizeAll
<1> QED BY <1>1, <1>3, NormalStays

LEMMA NamelessAreSent ==
  ASSUME NEW list \in Seq(Drawn)
  PROVE  /\ Nameless(list) \in Seq(Sent) /\ Len(Nameless(list)) = Len(list)
         /\ list # <<>> => Nameless(list) # <<>>
<1> DEFINE n == Len(list)  bare(i) == Nameless(list)[i]
<1>1. /\ n \in Nat /\ DOMAIN list = 1 .. n /\ \A i \in 1 .. n : list[i] \in Drawn
      /\ (list # <<>> => n # 0)
  OBVIOUS
<1>2. ASSUME NEW i \in 1 .. n PROVE bare(i) \in Sent
  <2> DEFINE b == list[i]
  <2>1. b \in Shape /\ LegalBlock(b)
    BY <1>1 DEF Drawn
  <2>2. bare(i) = [x |-> b.x, y |-> b.y, width |-> b.width, height |-> b.height,
                   type |-> b.type, extra |-> b.extra]
    BY <1>1 DEF Nameless
  <2> HIDE DEF b, bare
  <2>3. bare(i) \in Plain
    BY <2>1, <2>2 DEF Shape, Plain
  <2>4. LegalBlock(bare(i))
    BY <2>1, <2>2 DEF LegalBlock
  <2> QED BY <2>3, <2>4 DEF Sent
<1>3. Nameless(list) = [i \in 1 .. n |-> bare(i)]
  BY <1>1 DEF Nameless
<1> HIDE DEF bare
<1>4. Nameless(list) \in Seq(Sent) /\ Len(Nameless(list)) = n
  BY <1>1, <1>2, <1>3
<1> QED BY <1>1, <1>4

(***************************************************************************)
(* Blocks into the world                                                   *)
(***************************************************************************)

\* A block with the options of its type, wherever it is and however large.
Sketched == {b \in Shape : b.extra \in (IF HasOption(b.type) THEN Options ELSE {NoOption})}

LEMMA FitsTheWorld ==
  ASSUME NEW b \in Sketched
  PROVE  FitToWorld(b) \in Drawn /\ FitToWorld(b).id = b.id /\ FitToWorld(b).type = b.type
<1> DEFINE w == Clamp(b.width, MinSize, Width)  h == Clamp(b.height, MinSize, Height)
           x == Clamp(b.x, 0, Width - w)  y == Clamp(b.y, 0, Height - h)
           r == [id |-> b.id, x |-> x, y |-> y, width |-> w, height |-> h,
                 type |-> b.type, extra |-> b.extra]
<1>1. /\ b \in Shape /\ b.x \in Int /\ b.y \in Int /\ b.width \in Int /\ b.height \in Int
      /\ b.id \in Nat \ {0} /\ b.type \in Kinds /\ b.extra \in Options \cup {NoOption}
      /\ b.extra \in (IF HasOption(b.type) THEN Options ELSE {NoOption})
  BY DEF Sketched, Shape
<1>2. FitToWorld(b) = r
  <2>1. FitToWorld(b) = [b EXCEPT !.width = w, !.height = h, !.x = x, !.y = y]
    BY DEF FitToWorld
  <2> HIDE DEF w, h, x, y
  <2> QED BY <1>1, <2>1 DEF Shape
<1>3. /\ w \in Int /\ h \in Int /\ w >= MinSize /\ w <= Width /\ h >= MinSize /\ h <= Height
  BY <1>1, WorldAssumption DEF Clamp
<1>4. x \in Int /\ y \in Int /\ x >= 0 /\ x + w <= Width /\ y >= 0 /\ y + h <= Height
  <2> HIDE DEF w, h
  <2> QED BY <1>1, <1>3, WorldAssumption DEF Clamp
<1> HIDE DEF w, h, x, y
<1>5. r \in Shape
  BY <1>1, <1>3, <1>4 DEF Shape
<1>6. LegalBlock(r)
  BY <1>1, <1>3, <1>4 DEF LegalBlock
<1> QED BY <1>2, <1>5, <1>6 DEF Drawn

LEMMA DrawnIsSketched == Drawn \subseteq Sketched
BY DEF Drawn, Sketched, LegalBlock

LEMMA DefaultsAreSketched ==
  ASSUME NEW b \in Shape, NEW kind \in Kinds
  PROVE  WithDefaults(b, kind) \in Sketched /\ WithDefaults(b, kind).id = b.id
<1> DEFINE e == IF ~HasOption(kind) THEN NoOption
                ELSE IF b.type = kind /\ b.extra # NoOption THEN b.extra ELSE "default"
<1>1. b.extra \in Options \cup {NoOption} /\ "default" \in Options
  BY WorldAssumption DEF Shape
<1>2. e \in (IF HasOption(kind) THEN Options ELSE {NoOption})
  BY <1>1
<1>3. WithDefaults(b, kind) = [b EXCEPT !.type = kind, !.extra = e]
  BY DEF WithDefaults
<1> HIDE DEF e
<1> QED BY <1>2, <1>3 DEF Shape, Sketched

LEMMA DefaultsAreDrawn ==
  ASSUME NEW b \in Drawn, NEW kind \in Kinds
  PROVE  WithDefaults(b, kind) \in Drawn /\ WithDefaults(b, kind).id = b.id
<1> DEFINE e == IF ~HasOption(kind) THEN NoOption
                ELSE IF b.type = kind /\ b.extra # NoOption THEN b.extra ELSE "default"
           r == [b EXCEPT !.type = kind, !.extra = e]
<1>1. /\ b \in Shape /\ LegalBlock(b)
      /\ b.extra \in (IF HasOption(b.type) THEN Options ELSE {NoOption})
  BY DEF Drawn, LegalBlock
<1>2. e \in (IF HasOption(kind) THEN Options ELSE {NoOption})
  BY <1>1, WorldAssumption
<1>3. WithDefaults(b, kind) = r
  BY DEF WithDefaults
<1> HIDE DEF e
<1>4. /\ r \in Shape /\ r.id = b.id /\ r.x = b.x /\ r.y = b.y /\ r.width = b.width
      /\ r.height = b.height /\ r.type = kind /\ r.extra = e
  BY <1>1, <1>2 DEF Shape
<1> HIDE DEF r
<1>5. LegalBlock(r)
  BY <1>1, <1>2, <1>4 DEF LegalBlock
<1> QED BY <1>3, <1>4, <1>5 DEF Drawn

\* A layout is opened as it is, each block with a name of its own.
LEMMA LoadedAreDrawn ==
  ASSUME NEW list \in Seq(Sent)
  PROVE  /\ Loaded(list) \in Seq(Drawn) /\ Len(Loaded(list)) = Len(list)
         /\ DOMAIN Loaded(list) = DOMAIN list
         /\ \A i \in DOMAIN list : Loaded(list)[i].id = i
<1> DEFINE n == Len(list)  open(i) == Loaded(list)[i]
<1>1. n \in Nat /\ DOMAIN list = 1 .. n /\ \A i \in 1 .. n : list[i] \in Sent
  OBVIOUS
<1>2. Loaded(list) = [i \in 1 .. n |-> open(i)]
  BY <1>1 DEF Loaded, Named
<1>3. ASSUME NEW i \in 1 .. n PROVE open(i) \in Drawn /\ open(i).id = i
  <2> DEFINE b == list[i]  d == WithDefaults(b, b.type)
             e == IF ~HasOption(b.type) THEN NoOption
                  ELSE IF b.extra # NoOption THEN b.extra ELSE "default"
  <2>1. b \in Plain /\ LegalBlock(b)
    BY <1>1 DEF Sent
  <2>2. open(i) = [id |-> i, x |-> d.x, y |-> d.y, width |-> d.width, height |-> d.height,
                   type |-> d.type, extra |-> d.extra]
    BY <1>1 DEF Loaded, Named
  <2>3. d = [b EXCEPT !.type = b.type, !.extra = e]
    BY DEF WithDefaults
  <2>4. e \in (IF HasOption(b.type) THEN Options ELSE {NoOption})
    BY <2>1, WorldAssumption DEF LegalBlock
  <2> HIDE DEF e, d, b, open
  <2>5. /\ d.x = b.x /\ d.y = b.y /\ d.width = b.width /\ d.height = b.height
        /\ d.type = b.type /\ d.extra = e
    BY <2>1, <2>3 DEF Plain
  <2>6. /\ open(i) \in Shape /\ open(i).id = i
    BY <1>1, <2>1, <2>2, <2>4, <2>5 DEF Shape, Plain
  <2>7. LegalBlock(open(i))
    BY <2>1, <2>2, <2>4, <2>5 DEF LegalBlock
  <2> QED BY <2>6, <2>7 DEF Drawn
<1> HIDE DEF open
<1>4. Loaded(list) \in Seq(Drawn) /\ Len(Loaded(list)) = n /\ DOMAIN Loaded(list) = 1 .. n
  BY <1>1, <1>2, <1>3
<1>5. \A i \in 1 .. n : Loaded(list)[i].id = i
  BY <1>2, <1>3
<1> QED BY <1>1, <1>4, <1>5

LEMMA ResizedIsDrawn ==
  ASSUME NEW b \in Drawn, NEW handle, NEW dx \in Int, NEW dy \in Int
  PROVE  Resized(b, handle, dx, dy) \in Drawn /\ Resized(b, handle, dx, dy).id = b.id
<1> DEFINE x0 == IF "w" \in handle THEN b.x + dx ELSE b.x
           y0 == IF "n" \in handle THEN b.y + dy ELSE b.y
           w0 == b.width  + (IF "e" \in handle THEN dx ELSE IF "w" \in handle THEN -dx ELSE 0)
           h0 == b.height + (IF "s" \in handle THEN dy ELSE IF "n" \in handle THEN -dy ELSE 0)
           x1 == IF w0 < 0 THEN x0 + w0 ELSE x0
           y1 == IF h0 < 0 THEN y0 + h0 ELSE y0
           w1 == IF w0 < 0 THEN -w0 ELSE w0
           h1 == IF h0 < 0 THEN -h0 ELSE h0
           c  == [b EXCEPT !.x = x1, !.y = y1, !.width = w1, !.height = h1]
<1>1. b.x \in Int /\ b.y \in Int /\ b.width \in Int /\ b.height \in Int
  BY DEF Drawn, LegalBlock
<1>2. x0 \in Int /\ y0 \in Int /\ w0 \in Int /\ h0 \in Int
  BY <1>1
<1>3. Resized(b, handle, dx, dy) = FitToWorld(c)
  BY DEF Resized
<1> HIDE DEF x0, y0, w0, h0
<1>4. x1 \in Int /\ y1 \in Int /\ w1 \in Int /\ h1 \in Int
  BY <1>2
<1> HIDE DEF x1, y1, w1, h1
<1>5. c \in Sketched /\ c.id = b.id
  <2>1. b \in Sketched
    BY DrawnIsSketched
  <2> QED BY <1>4, <2>1 DEF Sketched, Shape
<1> HIDE DEF c
<1> QED BY <1>3, <1>5, FitsTheWorld

(***************************************************************************)
(* Lists of blocks                                                         *)
(***************************************************************************)

LEMMA RemovedShifts ==
  ASSUME NEW S, NEW list \in Seq(S), NEW i \in DOMAIN list
  PROVE  /\ RemoveAt(list, i) \in Seq(S) /\ Len(RemoveAt(list, i)) = Len(list) - 1
         /\ \A k \in 1 .. Len(list) - 1 :
              RemoveAt(list, i)[k] = IF k < i THEN list[k] ELSE list[k + 1]
<1> DEFINE n == Len(list)  a == SubSeq(list, 1, i - 1)  b == SubSeq(list, i + 1, n)
<1>1. n \in Nat /\ i \in 1 .. n /\ \A k \in 1 .. n : list[k] \in S
  OBVIOUS
<1>2. a \in Seq(S) /\ Len(a) = i - 1 /\ \A k \in 1 .. i - 1 : a[k] = list[k]
  BY <1>1
<1>3. b \in Seq(S) /\ Len(b) = n - i /\ \A k \in 1 .. n - i : b[k] = list[i + k]
  BY <1>1
<1>4. RemoveAt(list, i) = a \o b
  BY DEF RemoveAt
<1> HIDE DEF a, b
<1>5. /\ a \o b \in Seq(S) /\ Len(a \o b) = n - 1
      /\ \A k \in 1 .. n - 1 : (a \o b)[k] = IF k <= i - 1 THEN a[k] ELSE b[k - (i - 1)]
  BY <1>1, <1>2, <1>3
<1>6. ASSUME NEW k \in 1 .. n - 1
      PROVE  (a \o b)[k] = IF k < i THEN list[k] ELSE list[k + 1]
  <2>1. CASE k < i
    BY <1>1, <1>2, <1>5, <2>1
  <2>2. CASE k >= i
    <3>1. k - (i - 1) \in 1 .. n - i /\ i + (k - (i - 1)) = k + 1
      BY <1>1, <2>2
    <3>2. ~(k <= i - 1) /\ ~(k < i)
      BY <1>1, <2>2
    <3> QED BY <1>3, <1>5, <3>1, <3>2
  <2>3. k < i \/ k >= i
    BY <1>1
  <2> QED BY <2>1, <2>2, <2>3
<1> QED BY <1>4, <1>5, <1>6

(***************************************************************************)
(* The invariant                                                           *)
(***************************************************************************)

Layouts == {s \in Seq(Sent) : Len(s) <= MaxBlocks}
Boxes   == [x : Int, y : Int, width : Int, height : Int]
Spots   == Int \X Int
Names1  == Nat \ {0}

Takes == {"move", "resize"}
Drags ==
  {NoDrag} \cup [kind : {"erase"}, id : {Nothing}]
    \cup [kind : {"draw"}, from : Spots, id : {Nothing}]
    \cup [kind : {"move"}, from : Spots, index : Names1, base : Drawn, id : Names1]
    \cup [kind : {"resize"}, from : Spots, index : Names1, handle : Handles, base : Drawn,
          id : Names1]

RoomTypes ==
  /\ layout \in Layouts /\ shelf \in Layouts /\ custom \in BOOLEAN
  /\ wire.type \in {"none", "set_platforms", "reset_platforms"}
  /\ wire.type = "none" => wire = NoWire
  /\ wire.type = "set_platforms" => wire.platforms \in Layouts \ {<<>>}

EditorTypes ==
  /\ editing \in BOOLEAN /\ edits \in 0 .. MaxEdits /\ tool \in Tools
  /\ blocks \in Seq(Drawn) /\ Len(blocks) <= MaxBlocks
  /\ selected \in 0 .. MaxBlocks /\ chosen \in Nat
  /\ drag \in Drags /\ draft \in {NoDraft} \cup Boxes
  /\ ~editing => selected = Nothing /\ chosen = Nothing /\ drag = NoDrag

\* The blocks of the list have names of their own.
OwnNames == \A i, j \in DOMAIN blocks : blocks[i].id = blocks[j].id => i = j

\* A block that is dragged is the selected one, until it goes; and where it was
\* taken from is the only place where its name can be.
DragIsSelected ==
  drag.kind \in Takes =>
    /\ drag.base.id = drag.id
    /\ \A i \in DOMAIN blocks : blocks[i].id = drag.id => i = drag.index
    /\ \/ selected = drag.index /\ chosen = drag.id
       \/ selected = Nothing /\ chosen = Nothing

ListInv   == OwnNames /\ SelectionIsTheUsers /\ DragIsSelected
EditorInv == RoomTypes /\ EditorTypes /\ ListInv

LEMMA OriginalIsALayout == Original \in Layouts
<1>1. Original \in Seq(Plain) /\ Len(Original) <= MaxBlocks
  BY EditorBounds DEF Plain
<1>2. \A i \in DOMAIN Original : Original[i] \in Sent
  BY <1>1, EditorBounds DEF Sent
<1>3. Original \in Seq(Sent)
  BY <1>1, <1>2
<1> QED BY <1>1, <1>3 DEF Layouts

(***************************************************************************)
(* What the handlers have in common                                        *)
(***************************************************************************)

LEMMA TopBlock ==
  ASSUME NEW at, EditorTypes
  PROVE  BlockAt(at) \in 0 .. Len(blocks) /\ (BlockAt(at) # 0 => BlockAt(at) \in DOMAIN blocks)
<1> DEFINE n == Len(blocks)  under == {i \in DOMAIN blocks : Hits(blocks[i], at)}
           Depths == {n - i : i \in under}
<1>1. n \in Nat /\ DOMAIN blocks = 1 .. n /\ under \subseteq 1 .. n
  BY DEF EditorTypes
<1>2. CASE under = {}
  BY <1>1, <1>2 DEF BlockAt
<1>3. CASE under # {}
  <2>1. Depths \in SUBSET Nat /\ Depths # {}
    BY <1>1, <1>3
  <2>2. PICK m \in Depths : \A k \in Depths : m <= k
    <3> HIDE DEF Depths
    <3> QED BY <2>1, LeastFailure
  <2>3. PICK i \in under : m = n - i
    OBVIOUS
  <2>4. ASSUME NEW j \in under PROVE j <= i
    <3>1. n - i <= n - j
      BY <2>2, <2>3
    <3> QED BY <1>1, <3>1
  <2> HIDE DEF under
  <2>5. (CHOOSE k \in under : \A j \in under : j <= k) \in under
    BY <2>4
  <2>6. BlockAt(at) = CHOOSE k \in under : \A j \in under : j <= k
    BY <1>3 DEF BlockAt, under
  <2>7. BlockAt(at) \in under
    BY <2>5, <2>6
  <2>8. BlockAt(at) \in 1 .. n
    BY <1>1, <2>7
  <2> QED BY <1>1, <2>8
<1> QED BY <1>2, <1>3

LEMMA RoomStays ==
  ASSUME RoomTypes, UNCHANGED <<roomVars, shelf>>
  PROVE  RoomTypes'
BY DEF RoomTypes, roomVars

\* A block that is taken out: the others keep their names, and the selection
\* its block.
LEMMA RemovedOne ==
  ASSUME EditorTypes, ListInv, NEW index \in 1 .. MaxBlocks, RemoveBlock(index)
  PROVE  /\ blocks' \in Seq(Drawn) /\ Len(blocks') <= MaxBlocks
         /\ selected' \in 0 .. MaxBlocks /\ chosen' \in Nat
         /\ OwnNames' /\ SelectionIsTheUsers'
         /\ \A i \in DOMAIN blocks' : \E j \in DOMAIN blocks :
              j # index /\ blocks'[i].id = blocks[j].id
<1> DEFINE n == Len(blocks)
<1>1. /\ n \in Nat /\ n <= MaxBlocks /\ MaxBlocks \in Nat /\ DOMAIN blocks = 1 .. n
      /\ selected \in 0 .. MaxBlocks /\ chosen \in Nat
      /\ blocks \in Seq(Drawn) /\ \A i \in 1 .. n : blocks[i].id \in Nat \ {0}
  <2>1. blocks \in Seq(Drawn)
    BY DEF EditorTypes
  <2>2. \A i \in DOMAIN blocks : blocks[i] \in Drawn
    BY <2>1
  <2>3. \A i \in DOMAIN blocks : blocks[i].id \in Nat \ {0}
    BY <2>2 DEF Drawn, Shape
  <2>4. n \in Nat /\ DOMAIN blocks = 1 .. n
    BY <2>1
  <2> QED BY <2>1, <2>3, <2>4, WorldAssumption DEF EditorTypes
<1>2. /\ selected' = IF selected \in {Nothing, index} THEN Nothing
                     ELSE IF selected > index THEN selected - 1 ELSE selected
      /\ chosen' = IF selected = index THEN Nothing ELSE chosen
  BY DEF RemoveBlock
<1>3. selected' \in 0 .. MaxBlocks /\ chosen' \in Nat
  BY <1>1, <1>2 DEF Nothing
<1>4. /\ \A i, j \in 1 .. n : blocks[i].id = blocks[j].id => i = j
      /\ selected \in 1 .. n => blocks[selected].id = chosen
      /\ \A i \in 1 .. n : blocks[i].id = chosen => selected \in 1 .. n
  BY <1>1 DEF ListInv, OwnNames, SelectionIsTheUsers, Current
<1>5. CASE index \in 1 .. n
  <2>1. blocks' = RemoveAt(blocks, index)
    BY <1>1, <1>5 DEF RemoveBlock
  <2>2. /\ blocks' \in Seq(Drawn) /\ Len(blocks') = n - 1
        /\ \A k \in 1 .. n - 1 : blocks'[k] = IF k < index THEN blocks[k] ELSE blocks[k + 1]
    BY <1>1, <1>5, <2>1, RemovedShifts
  <2> HIDE DEF n
  <2>3. DOMAIN blocks' = 1 .. n - 1
    BY <2>2
  <2> DEFINE old(k) == IF k < index THEN k ELSE k + 1
  <2>4. ASSUME NEW k \in 1 .. n - 1
        PROVE  old(k) \in 1 .. n /\ old(k) # index /\ blocks'[k].id = blocks[old(k)].id
    BY <1>1, <1>5, <2>2
  <2>5. \A k, l \in 1 .. n - 1 : old(k) = old(l) => k = l
    BY <1>1, <1>5
  <2>6. OwnNames'
    <3>1. \A k, l \in 1 .. n - 1 : blocks'[k].id = blocks'[l].id => k = l
      <4> HIDE DEF old
      <4> QED BY <1>4, <2>4, <2>5
    <3> QED BY <2>3, <3>1 DEF OwnNames
  <2>7. SelectionIsTheUsers'
    <3>1. selected' \in 1 .. n - 1 =>
            /\ selected # index /\ chosen' = chosen /\ old(selected') = selected
            /\ selected \in 1 .. n
      BY <1>1, <1>2, <1>5 DEF Nothing
    <3>2. selected' \in 1 .. n - 1 => blocks'[selected'].id = chosen'
      BY <1>4, <2>4, <3>1
    <3>3. ASSUME NEW k \in 1 .. n - 1, blocks'[k].id = chosen' PROVE selected' \in 1 .. n - 1
      <4>1. chosen' # 0
        BY <1>1, <2>4, <3>3
      <4>2. chosen' = chosen /\ selected # index
        BY <1>2, <4>1 DEF Nothing
      <4>3. selected \in 1 .. n /\ selected = old(k)
        <5> HIDE DEF old
        <5> QED BY <1>4, <2>4, <3>3, <4>2
      <4> QED BY <1>1, <1>2, <1>5, <4>2, <4>3 DEF Nothing
    <3> QED BY <2>3, <3>2, <3>3 DEF SelectionIsTheUsers, Current
  <2>8. Len(blocks') <= MaxBlocks
    BY <1>1, <2>2
  <2>9. \A i \in DOMAIN blocks' : \E j \in DOMAIN blocks :
          j # index /\ blocks'[i].id = blocks[j].id
    <3> HIDE DEF old
    <3> QED BY <1>1, <2>3, <2>4
  <2> QED BY <1>3, <2>2, <2>6, <2>7, <2>8, <2>9
<1>6. CASE index \notin 1 .. n
  <2>1. blocks' = blocks
    BY <1>1, <1>6 DEF RemoveBlock
  <2>2. SelectionIsTheUsers'
    <3>1. selected' \in 1 .. n => blocks[selected'].id = chosen'
      BY <1>1, <1>2, <1>4, <1>6 DEF Nothing
    <3>2. ASSUME NEW k \in 1 .. n, blocks[k].id = chosen' PROVE selected' \in 1 .. n
      BY <1>1, <1>2, <1>4, <1>6, <3>2 DEF Nothing
    <3> QED BY <1>1, <2>1, <3>1, <3>2 DEF SelectionIsTheUsers, Current
  <2>3. OwnNames'
    BY <2>1 DEF ListInv, OwnNames
  <2> QED BY <1>1, <1>3, <1>6, <2>1, <2>2, <2>3
<1> QED BY <1>5, <1>6

\* A block that is changed keeps its name: so does the rest, and the selection
\* and the drag are what they were.
LEMMA PatchedOne ==
  ASSUME EditorTypes, NEW i \in DOMAIN blocks, NEW block \in Drawn, block.id = blocks[i].id,
         Patch(i, block)
  PROVE  /\ blocks' \in Seq(Drawn) /\ Len(blocks') = Len(blocks)
         /\ DOMAIN blocks' = DOMAIN blocks
         /\ \A k \in DOMAIN blocks : blocks'[k].id = blocks[k].id
<1>1. blocks \in Seq(Drawn) /\ blocks' = [blocks EXCEPT ![i] = block]
  BY DEF EditorTypes, Patch
<1> QED BY <1>1

LEMMA SameNames ==
  ASSUME ListInv, DOMAIN blocks' = DOMAIN blocks,
         \A k \in DOMAIN blocks : blocks'[k].id = blocks[k].id,
         selected' = selected, chosen' = chosen, drag' \in {drag, NoDrag}
  PROVE  ListInv'
<1>1. OwnNames'
  BY DEF ListInv, OwnNames
<1>2. SelectionIsTheUsers'
  BY DEF ListInv, SelectionIsTheUsers, Current
<1>3. DragIsSelected'
  <2>1. CASE drag' = NoDrag
    BY <2>1 DEF DragIsSelected, NoDrag, Takes
  <2>2. CASE drag' = drag
    BY <2>2 DEF ListInv, DragIsSelected, Takes
  <2> QED BY <2>1, <2>2
<1> QED BY <1>1, <1>2, <1>3 DEF ListInv

\* Without a selection there is nothing it could have lost.
LEMMA Deselected ==
  ASSUME blocks' \in Seq(Drawn), selected' = Nothing, chosen' = Nothing
  PROVE  SelectionIsTheUsers'
<1>1. \A i \in DOMAIN blocks' : i # 0 /\ blocks'[i].id # 0
  <2>1. \A i \in DOMAIN blocks' : i \in 1 .. Len(blocks') /\ blocks'[i] \in Drawn
    OBVIOUS
  <2> QED BY <2>1 DEF Drawn, Shape
<1> QED BY <1>1 DEF SelectionIsTheUsers, Current, Nothing

LEMMA NothingIsDragged ==
  ASSUME drag'.kind \notin Takes
  PROVE  DragIsSelected'
BY DEF DragIsSelected

LEMMA BlocksOfTheList ==
  ASSUME EditorTypes
  PROVE  /\ Len(blocks) \in Nat /\ MaxBlocks \in Nat /\ DOMAIN blocks = 1 .. Len(blocks)
         /\ \A i \in DOMAIN blocks :
              /\ i \in 1 .. MaxBlocks /\ i \in Nat \ {0} /\ blocks[i] \in Drawn
              /\ blocks[i] \in Sketched /\ blocks[i] \in Shape /\ blocks[i].id \in Nat \ {0}
              /\ blocks[i].type \in Kinds
<1>1. Len(blocks) \in Nat /\ MaxBlocks \in Nat /\ DOMAIN blocks = 1 .. Len(blocks)
  BY WorldAssumption DEF EditorTypes
<1>2. \A i \in DOMAIN blocks : blocks[i] \in Drawn /\ i \in 1 .. MaxBlocks /\ i \in Nat \ {0}
  BY <1>1 DEF EditorTypes
<1>3. \A b \in Drawn : b \in Sketched /\ b \in Shape /\ b.id \in Nat \ {0} /\ b.type \in Kinds
  BY DrawnIsSketched DEF Drawn, Shape
<1> QED BY <1>1, <1>2, <1>3

\* A name that is free: there are more numbers than names.
LEMMA NewNameIsNew ==
  ASSUME EditorTypes
  PROVE  NewName \in Nat \ {0} /\ NewName \notin Names
<1> DEFINE ids == {blocks[i].id : i \in DOMAIN blocks}  c == Cardinality(Names)
           f == [i \in 1 .. Len(blocks) |-> blocks[i].id]
           held == IF drag = NoDrag THEN {} ELSE {drag.id}
<1>1. IsFiniteSet(ids)
  <2>1. DOMAIN blocks = 1 .. Len(blocks) /\ IsFiniteSet(1 .. Len(blocks))
    BY Numbered DEF EditorTypes
  <2>2. f \in Surjection(1 .. Len(blocks), ids)
    BY <2>1 DEF Surjection
  <2> QED BY <2>1, <2>2, FS_Surjection
<1>2. IsFiniteSet(Names) /\ c \in Nat
  <2>1. IsFiniteSet({chosen}) /\ IsFiniteSet(held)
    BY FS_Singleton, FS_EmptySet
  <2>2. Names = (ids \cup {chosen}) \cup held
    BY DEF Names
  <2>3. IsFiniteSet(ids \cup {chosen})
    BY <1>1, <2>1, FS_Union
  <2>4. IsFiniteSet((ids \cup {chosen}) \cup held)
    BY <2>1, <2>3, FS_Union
  <2> QED BY <2>2, <2>4, FS_CardinalityType
<1> HIDE DEF c
<1>3. \E k \in 1 .. c + 1 : k \notin Names
  <2>1. SUFFICES ASSUME 1 .. c + 1 \subseteq Names PROVE FALSE
    OBVIOUS
  <2>2. Cardinality(1 .. c + 1) <= c
    BY <1>2, <2>1, FS_Subset DEF c
  <2>3. c + 1 \in Nat
    BY <1>2
  <2>4. Cardinality(1 .. c + 1) = c + 1
    BY <2>3, UpTo
  <2> QED BY <1>2, <2>2, <2>4
<1>4. NewName \in 1 .. c + 1 /\ NewName \notin Names
  BY <1>3 DEF NewName, c
<1> QED BY <1>2, <1>4

LEMMA SnapIsInt ==
  ASSUME NEW v \in Int
  PROVE  SnapTo(v) \in Int
<1>1. Grid \in Nat \ {0} /\ 2 * v + Grid \in Int /\ 2 * Grid \in Nat \ {0}
  BY WorldAssumption
<1>2. (2 * v + Grid) \div (2 * Grid) \in Int
  BY <1>1
<1> QED BY <1>1, <1>2 DEF SnapTo

LEMMA BoxIsABox ==
  ASSUME NEW a \in Spots, NEW b \in Spots
  PROVE  Box(a, b) \in Boxes
<1> DEFINE x1 == Clamp(SnapTo(a[1]), 0, Width)  y1 == Clamp(SnapTo(a[2]), 0, Height)
           x2 == Clamp(SnapTo(b[1]), 0, Width)  y2 == Clamp(SnapTo(b[2]), 0, Height)
<1>1. /\ SnapTo(a[1]) \in Int /\ SnapTo(a[2]) \in Int /\ SnapTo(b[1]) \in Int
      /\ SnapTo(b[2]) \in Int
  BY SnapIsInt DEF Spots
<1>2. x1 \in Int /\ y1 \in Int /\ x2 \in Int /\ y2 \in Int
  BY <1>1, WorldAssumption DEF Clamp
<1>3. Box(a, b) = [x |-> IF x1 < x2 THEN x1 ELSE x2, y |-> IF y1 < y2 THEN y1 ELSE y2,
                   width  |-> IF x1 < x2 THEN x2 - x1 ELSE x1 - x2,
                   height |-> IF y1 < y2 THEN y2 - y1 ELSE y1 - y2]
  BY DEF Box
<1> HIDE DEF x1, x2, y1, y2
<1> QED BY <1>2, <1>3 DEF Boxes

(***************************************************************************)
(* Every step keeps the invariant                                          *)
(***************************************************************************)

\* What a key or the pointer does leaves the room alone, and the editor open.
LEMMA EditorStep ==
  ASSUME EditorInv, editing, UNCHANGED <<roomVars, shelf, editing>>,
         edits' \in 0 .. MaxEdits, tool' \in Tools,
         blocks' \in Seq(Drawn), Len(blocks') <= MaxBlocks,
         selected' \in 0 .. MaxBlocks, chosen' \in Nat,
         drag' \in Drags, draft' \in {NoDraft} \cup Boxes, ListInv'
  PROVE  EditorInv'
<1>1. RoomTypes'
  BY RoomStays DEF EditorInv
<1>2. EditorTypes'
  BY DEF EditorTypes
<1> QED BY <1>1, <1>2 DEF EditorInv

LEMMA Edited ==
  ASSUME EditorInv, Edit
  PROVE  editing /\ edits' \in 0 .. MaxEdits
<1>1. edits \in 0 .. MaxEdits /\ MaxEdits \in Nat
  BY EditorBounds DEF EditorInv, EditorTypes
<1> QED BY <1>1 DEF Edit

LEMMA PatchStep ==
  ASSUME EditorInv, editing, NEW i \in DOMAIN blocks, NEW block \in Drawn,
         block.id = blocks[i].id, Patch(i, block),
         edits' \in 0 .. MaxEdits, tool' \in Tools, draft' \in {NoDraft} \cup Boxes,
         UNCHANGED <<roomVars, shelf, editing, selected, chosen, drag>>
  PROVE  EditorInv'
<1>1. EditorTypes /\ ListInv
  BY DEF EditorInv
<1>2. /\ blocks' \in Seq(Drawn) /\ Len(blocks') = Len(blocks) /\ DOMAIN blocks' = DOMAIN blocks
      /\ \A k \in DOMAIN blocks : blocks'[k].id = blocks[k].id
  BY <1>1, PatchedOne
<1>3. ListInv'
  BY <1>1, <1>2, SameNames
<1>4. /\ Len(blocks') <= MaxBlocks /\ selected' \in 0 .. MaxBlocks /\ chosen' \in Nat
      /\ drag' \in Drags
  BY <1>1, <1>2 DEF EditorTypes
<1> QED BY <1>2, <1>3, <1>4, EditorStep

\* Other numbers leave a block its name, type and options.
LEMMA OtherNumbers ==
  ASSUME NEW b \in Sketched, NEW u \in Int, NEW v \in Int
  PROVE  /\ [b EXCEPT !.width = u, !.height = v] \in Sketched
         /\ [b EXCEPT !.width = u, !.height = v].id = b.id
         /\ [b EXCEPT !.x = u, !.y = v] \in Sketched
         /\ [b EXCEPT !.x = u, !.y = v].id = b.id
BY DEF Sketched, Shape

LEMMA KeysKeep ==
  ASSUME EditorInv, Keys
  PROVE  EditorInv'
<1>1. EditorTypes /\ ListInv
  BY DEF EditorInv
<1>2. CASE KeyDelete
  <2>1. editing /\ edits' \in 0 .. MaxEdits
    BY <1>2, Edited DEF KeyDelete
  <2>2. /\ selected \in 1 .. MaxBlocks /\ RemoveBlock(selected)
        /\ UNCHANGED <<roomVars, shelf, editing, tool, drag, draft>>
    BY <1>1, <1>2 DEF KeyDelete, EditorTypes, Nothing
  <2>3. /\ blocks' \in Seq(Drawn) /\ Len(blocks') <= MaxBlocks
        /\ selected' \in 0 .. MaxBlocks /\ chosen' \in Nat
        /\ OwnNames' /\ SelectionIsTheUsers'
        /\ \A i \in DOMAIN blocks' : \E j \in DOMAIN blocks :
             j # selected /\ blocks'[i].id = blocks[j].id
    BY <1>1, <2>2, RemovedOne
  <2>4. selected' = Nothing /\ chosen' = Nothing
    BY <2>2 DEF RemoveBlock
  <2>5. DragIsSelected'
    <3>1. SUFFICES ASSUME drag.kind \in Takes PROVE DragIsSelected'
      BY <2>2 DEF DragIsSelected
    <3>2. /\ drag.base.id = drag.id /\ selected = drag.index
          /\ \A i \in DOMAIN blocks : blocks[i].id = drag.id => i = drag.index
      BY <1>1, <2>2, <3>1 DEF ListInv, DragIsSelected, Nothing
    <3>3. \A i \in DOMAIN blocks' : blocks'[i].id # drag.id
      BY <2>3, <3>2
    <3> QED BY <2>2, <2>4, <3>2, <3>3 DEF DragIsSelected
  <2>6. ListInv'
    BY <2>3, <2>5 DEF ListInv
  <2>7. tool' \in Tools /\ drag' \in Drags /\ draft' \in {NoDraft} \cup Boxes
    BY <1>1, <2>2 DEF EditorTypes
  <2> QED BY <2>1, <2>2, <2>3, <2>6, <2>7, EditorStep
<1>3. ASSUME NEW dx \in Int, NEW dy \in Int, NEW shift \in BOOLEAN, KeyArrow(dx, dy, shift)
      PROVE  EditorInv'
  <2> DEFINE b == blocks[selected]
             c == IF shift THEN [b EXCEPT !.width = @ + dx, !.height = @ + dy]
                           ELSE [b EXCEPT !.x = @ + dx, !.y = @ + dy]
  <2>1. editing /\ edits' \in 0 .. MaxEdits
    BY <1>3, Edited DEF KeyArrow
  <2>2. /\ selected \in DOMAIN blocks /\ Patch(selected, FitToWorld(c))
        /\ UNCHANGED <<roomVars, shelf, editing, tool, selected, drag, draft, chosen>>
    BY <1>3 DEF KeyArrow, Current
  <2>3. b \in Sketched
    BY <1>1, <2>2, BlocksOfTheList
  <2>4. c \in Sketched /\ c.id = b.id
    <3> HIDE DEF b
    <3>1. b \in Shape /\ b.x \in Int /\ b.y \in Int /\ b.width \in Int /\ b.height \in Int
          /\ b.extra \in (IF HasOption(b.type) THEN Options ELSE {NoOption})
      BY <2>3 DEF Sketched, Shape
    <3> DEFINE w == b.width + dx  h == b.height + dy  x == b.x + dx  y == b.y + dy
    <3>2. w \in Int /\ h \in Int /\ x \in Int /\ y \in Int
      BY <3>1
    <3>3. c = IF shift THEN [b EXCEPT !.width = w, !.height = h] ELSE [b EXCEPT !.x = x, !.y = y]
      OBVIOUS
    <3> HIDE DEF w, h, x, y, c
    <3> QED BY <2>3, <3>2, <3>3, OtherNumbers
  <2> HIDE DEF c
  <2>5. FitToWorld(c) \in Drawn /\ FitToWorld(c).id = blocks[selected].id
    BY <2>4, FitsTheWorld
  <2>6. tool' \in Tools /\ draft' \in {NoDraft} \cup Boxes
    BY <1>1, <2>2 DEF EditorTypes
  <2> QED BY <2>1, <2>2, <2>5, <2>6, PatchStep
<1>4. 0 \in Int /\ Grid \in Int /\ -Grid \in Int
  BY WorldAssumption
<1> QED BY <1>2, <1>3, <1>4 DEF Keys

LEMMA ErasedAt ==
  ASSUME EditorInv, NEW at,
         BlockAt(at) # 0 => RemoveBlock(BlockAt(at)),
         BlockAt(at) = 0 => UNCHANGED <<blocks, selected, chosen>>
  PROVE  /\ blocks' \in Seq(Drawn) /\ Len(blocks') <= MaxBlocks
         /\ selected' \in 0 .. MaxBlocks /\ chosen' \in Nat
         /\ OwnNames' /\ SelectionIsTheUsers'
<1>1. EditorTypes /\ ListInv
  BY DEF EditorInv
<1>2. CASE BlockAt(at) # 0
  <2>1. BlockAt(at) \in 1 .. MaxBlocks
    BY <1>1, <1>2, TopBlock, BlocksOfTheList
  <2> QED BY <1>1, <1>2, <2>1, RemovedOne
<1>3. CASE BlockAt(at) = 0
  <2>1. blocks' = blocks /\ selected' = selected /\ chosen' = chosen
    BY <1>3
  <2> QED BY <1>1, <2>1 DEF EditorTypes, ListInv, OwnNames, SelectionIsTheUsers, Current
<1> QED BY <1>2, <1>3

LEMMA PressKeeps ==
  ASSUME EditorInv, NEW at \in Points, PointerErase(at) \/ PointerTake(at) \/ PointerDraw(at)
  PROVE  EditorInv'
<1>1. EditorTypes /\ ListInv /\ at \in Spots
  BY EditorBounds DEF EditorInv, Spots
<1>2. CASE PointerErase(at)
  <2>1. editing /\ edits' \in 0 .. MaxEdits
    BY <1>2, Edited DEF PointerErase
  <2>2. /\ drag' = [kind |-> "erase", id |-> Nothing]
        /\ UNCHANGED <<roomVars, shelf, editing, tool, draft>>
        /\ BlockAt(at) # 0 => RemoveBlock(BlockAt(at))
        /\ BlockAt(at) = 0 => UNCHANGED <<blocks, selected, chosen>>
    BY <1>2 DEF PointerErase
  <2>3. /\ blocks' \in Seq(Drawn) /\ Len(blocks') <= MaxBlocks
        /\ selected' \in 0 .. MaxBlocks /\ chosen' \in Nat
        /\ OwnNames' /\ SelectionIsTheUsers'
    BY <2>2, ErasedAt
  <2>4. drag' \in Drags /\ drag'.kind \notin Takes
    BY <2>2 DEF Drags, Takes
  <2>5. ListInv'
    BY <2>3, <2>4, NothingIsDragged DEF ListInv
  <2>6. tool' \in Tools /\ draft' \in {NoDraft} \cup Boxes
    BY <1>1, <2>2 DEF EditorTypes
  <2> QED BY <2>1, <2>2, <2>3, <2>4, <2>5, <2>6, EditorStep
<1>3. CASE PointerTake(at)
  <2> DEFINE i == BlockAt(at)
  <2>1. /\ editing /\ i # 0 /\ selected' = i /\ chosen' = blocks[i].id /\ tool' = blocks[i].type
        /\ drag' = [kind |-> "move", from |-> at, index |-> i, base |-> blocks[i],
                    id |-> blocks[i].id]
        /\ UNCHANGED <<roomVars, shelf, editing, blocks, draft, edits>>
    BY <1>3 DEF PointerTake, AtRest, Select
  <2>2. i \in DOMAIN blocks
    BY <1>1, <2>1, TopBlock
  <2> HIDE DEF i
  <2>3. /\ i \in 1 .. MaxBlocks /\ i \in Nat \ {0} /\ blocks[i] \in Drawn
        /\ blocks[i].id \in Nat \ {0} /\ blocks[i].type \in Kinds
    BY <1>1, <2>2, BlocksOfTheList
  <2>4. drag' \in Drags
    BY <1>1, <2>1, <2>3 DEF Drags, Names1
  <2>5. OwnNames'
    BY <1>1, <2>1 DEF ListInv, OwnNames
  <2>6. SelectionIsTheUsers'
    BY <2>1, <2>2 DEF SelectionIsTheUsers, Current
  <2>7. DragIsSelected'
    <3>1. \A k \in DOMAIN blocks : blocks[k].id = blocks[i].id => k = i
      BY <1>1, <2>2 DEF ListInv, OwnNames
    <3>2. /\ drag'.base.id = drag'.id /\ drag'.id = blocks[i].id /\ drag'.index = i
      BY <2>1
    <3> QED BY <2>1, <3>1, <3>2 DEF DragIsSelected
  <2>8. /\ edits' \in 0 .. MaxEdits /\ tool' \in Tools /\ blocks' \in Seq(Drawn)
        /\ Len(blocks') <= MaxBlocks /\ selected' \in 0 .. MaxBlocks /\ chosen' \in Nat
        /\ draft' \in {NoDraft} \cup Boxes
    BY <1>1, <2>1, <2>3 DEF EditorTypes, Tools
  <2> QED BY <2>1, <2>4, <2>5, <2>6, <2>7, <2>8, EditorStep DEF ListInv
<1>4. CASE PointerDraw(at)
  <2>1. /\ editing /\ selected' = Nothing /\ chosen' = Nothing
        /\ drag' = [kind |-> "draw", from |-> at, id |-> Nothing]
        /\ UNCHANGED <<roomVars, shelf, editing, blocks, tool, draft, edits>>
    BY <1>4 DEF PointerDraw, AtRest, Select
  <2>2. drag' \in Drags /\ drag'.kind \notin Takes
    BY <1>1, <2>1 DEF Drags, Takes
  <2>3. /\ edits' \in 0 .. MaxEdits /\ tool' \in Tools /\ blocks' \in Seq(Drawn)
        /\ Len(blocks') <= MaxBlocks /\ selected' \in 0 .. MaxBlocks /\ chosen' \in Nat
        /\ draft' \in {NoDraft} \cup Boxes
    BY <1>1, <2>1, WorldAssumption DEF EditorTypes, Nothing
  <2>4. OwnNames'
    BY <1>1, <2>1 DEF ListInv, OwnNames
  <2>5. ListInv'
    BY <2>1, <2>2, <2>3, <2>4, Deselected, NothingIsDragged DEF ListInv
  <2> QED BY <2>1, <2>2, <2>3, <2>5, EditorStep
<1> QED BY <1>2, <1>3, <1>4

LEMMA ResizeKeeps ==
  ASSUME EditorInv, NEW handle \in Handles, StartResize(handle)
  PROVE  EditorInv'
<1> DEFINE i == selected  b == blocks[i]
<1>1. EditorTypes /\ ListInv
  BY DEF EditorInv
<1>2. /\ editing /\ i \in DOMAIN blocks
      /\ drag' = [kind |-> "resize", from |-> HandleAt(b, handle), index |-> i,
                  handle |-> handle, base |-> b, id |-> b.id]
      /\ UNCHANGED <<roomVars, shelf, editing, blocks, tool, selected, draft, chosen, edits>>
  BY DEF StartResize, AtRest, Current
<1>3. i \in Nat \ {0} /\ b \in Drawn /\ b.id \in Nat \ {0}
  BY <1>1, <1>2, BlocksOfTheList
<1>4. HandleAt(b, handle) \in Spots
  <2>1. b.x \in Int /\ b.y \in Int /\ b.width \in Int /\ b.height \in Int
    BY <1>3 DEF Drawn, LegalBlock
  <2>2. b.width \div 2 \in Int /\ b.height \div 2 \in Int
    BY <2>1
  <2> HIDE DEF b
  <2>3. /\ b.x + (IF "w" \in handle THEN 0
                   ELSE IF "e" \in handle THEN b.width ELSE b.width \div 2) \in Int
        /\ b.y + (IF "n" \in handle THEN 0
                   ELSE IF "s" \in handle THEN b.height ELSE b.height \div 2) \in Int
    BY <2>1, <2>2
  <2> QED BY <2>3 DEF HandleAt, Spots
<1>5. drag' \in Drags
  <2> HIDE DEF b
  <2> QED BY <1>2, <1>3, <1>4 DEF Drags, Names1
<1>6. OwnNames'
  BY <1>1, <1>2 DEF ListInv, OwnNames
<1>7. SelectionIsTheUsers'
  BY <1>1, <1>2 DEF ListInv, SelectionIsTheUsers, Current
<1>8. DragIsSelected'
  <2>1. \A k \in DOMAIN blocks : blocks[k].id = b.id => k = i
    BY <1>1, <1>2 DEF ListInv, OwnNames
  <2>2. /\ drag'.base.id = drag'.id /\ drag'.id = b.id /\ drag'.index = i
    BY <1>2
  <2>3. chosen = b.id
    BY <1>1, <1>2 DEF ListInv, SelectionIsTheUsers, Current
  <2> QED BY <1>2, <2>1, <2>2, <2>3 DEF DragIsSelected
<1>9. /\ edits' \in 0 .. MaxEdits /\ tool' \in Tools /\ blocks' \in Seq(Drawn)
      /\ Len(blocks') <= MaxBlocks /\ selected' \in 0 .. MaxBlocks /\ chosen' \in Nat
      /\ draft' \in {NoDraft} \cup Boxes
  BY <1>1, <1>2 DEF EditorTypes
<1> QED BY <1>2, <1>5, <1>6, <1>7, <1>8, <1>9, EditorStep DEF ListInv

\* A drag that is under way.
LEMMA TheDrag ==
  ASSUME EditorTypes, drag # NoDrag
  PROVE  /\ drag.kind \in {"erase", "draw", "move", "resize"}
         /\ drag.kind # "erase" => drag.from[1] \in Int /\ drag.from[2] \in Int
                                   /\ drag.from \in Spots
         /\ drag.kind \in Takes => /\ drag.base \in Drawn /\ drag.base.x \in Int
                                   /\ drag.base.y \in Int
<1>1. drag \in Drags
  BY DEF EditorTypes
<1>2. \A b \in Drawn : b.x \in Int /\ b.y \in Int
  BY DEF Drawn, LegalBlock
<1>3. \A p \in Spots : p[1] \in Int /\ p[2] \in Int
  BY DEF Spots
<1>4. drag \in [kind : {"erase"}, id : {Nothing}] =>
        drag.kind = "erase"
  OBVIOUS
<1>5. drag \in [kind : {"draw"}, from : Spots, id : {Nothing}] =>
        drag.kind = "draw" /\ drag.from \in Spots
  OBVIOUS
<1>6. drag \in [kind : {"move"}, from : Spots, index : Names1, base : Drawn, id : Names1] =>
        drag.kind = "move" /\ drag.from \in Spots /\ drag.base \in Drawn
  OBVIOUS
<1>7. drag \in [kind : {"resize"}, from : Spots, index : Names1, handle : Handles, base : Drawn,
                id : Names1] =>
        drag.kind = "resize" /\ drag.from \in Spots /\ drag.base \in Drawn
  OBVIOUS
<1> QED BY <1>1, <1>2, <1>3, <1>4, <1>5, <1>6, <1>7 DEF Drags, Takes

LEMMA MoveKeeps ==
  ASSUME EditorInv, NEW at \in Points, PointerMove(at)
  PROVE  EditorInv'
<1> DEFINE dx == SnapTo(at[1] - drag.from[1])  dy == SnapTo(at[2] - drag.from[2])
           i == drag.index
<1>1. EditorTypes /\ ListInv /\ at \in Spots /\ at[1] \in Int /\ at[2] \in Int
  BY EditorBounds DEF EditorInv, Spots
<1>2. /\ editing /\ edits' \in 0 .. MaxEdits /\ drag # NoDrag
      /\ UNCHANGED <<roomVars, shelf, editing, tool, drag>>
  BY Edited DEF PointerMove
<1>3. /\ drag.kind \in {"erase", "draw", "move", "resize"}
      /\ drag.kind # "erase" => dx \in Int /\ dy \in Int /\ drag.from \in Spots
      /\ drag.kind \in Takes => drag.base \in Drawn /\ drag.base.x \in Int /\ drag.base.y \in Int
  <2>1. drag.kind # "erase" => drag.from[1] \in Int /\ drag.from[2] \in Int /\ drag.from \in Spots
    BY <1>1, <1>2, TheDrag
  <2>2. drag.kind # "erase" => at[1] - drag.from[1] \in Int /\ at[2] - drag.from[2] \in Int
    BY <1>1, <2>1
  <2> QED BY <1>1, <1>2, <2>1, <2>2, TheDrag, SnapIsInt
<1>4. tool' \in Tools /\ drag' \in Drags /\ selected \in 0 .. MaxBlocks /\ chosen \in Nat
      /\ blocks \in Seq(Drawn) /\ Len(blocks) <= MaxBlocks /\ draft \in {NoDraft} \cup Boxes
  BY <1>1, <1>2 DEF EditorTypes
<1>5. CASE drag.kind = "erase"
  <2>1. /\ BlockAt(at) # 0 => RemoveBlock(BlockAt(at))
        /\ BlockAt(at) = 0 => UNCHANGED <<blocks, selected, chosen>>
        /\ draft' = draft
    BY <1>5 DEF PointerMove
  <2>2. /\ blocks' \in Seq(Drawn) /\ Len(blocks') <= MaxBlocks
        /\ selected' \in 0 .. MaxBlocks /\ chosen' \in Nat
        /\ OwnNames' /\ SelectionIsTheUsers'
    BY <2>1, ErasedAt
  <2>3. ListInv'
    BY <1>2, <1>5, <2>2, NothingIsDragged DEF ListInv, Takes
  <2> QED BY <1>2, <1>4, <2>1, <2>2, <2>3, EditorStep
<1>6. CASE drag.kind = "draw"
  <2>1. draft' = Box(drag.from, at) /\ UNCHANGED <<blocks, selected, chosen>>
    BY <1>6 DEF PointerMove
  <2>2. draft' \in Boxes
    BY <1>1, <1>3, <1>6, <2>1, BoxIsABox
  <2>3. ListInv'
    BY <1>1, <1>2, <2>1, SameNames
  <2> QED BY <1>2, <1>4, <2>1, <2>2, <2>3, EditorStep
<1>7. CASE drag.kind \in Takes /\ i \notin DOMAIN blocks
  <2>1. UNCHANGED <<blocks, draft, selected, chosen>>
    BY <1>7 DEF PointerMove, Takes
  <2>2. ListInv'
    BY <1>1, <1>2, <2>1, SameNames
  <2> QED BY <1>2, <1>4, <2>1, <2>2, EditorStep
<1>8. CASE drag.kind = "move" /\ i \in DOMAIN blocks
  <2> DEFINE x == drag.base.x + dx  y == drag.base.y + dy
             c == [blocks[i] EXCEPT !.x = x, !.y = y]
  <2>1. Patch(i, FitToWorld(c)) /\ UNCHANGED <<draft, selected, chosen>>
    BY <1>8 DEF PointerMove
  <2>2. x \in Int /\ y \in Int
    BY <1>3, <1>8 DEF Takes
  <2> HIDE DEF x, y
  <2>3. blocks[i] \in Sketched
    BY <1>1, <1>8, BlocksOfTheList
  <2>4. c \in Sketched /\ c.id = blocks[i].id
    BY <2>2, <2>3, OtherNumbers
  <2> HIDE DEF c, i
  <2>5. FitToWorld(c) \in Drawn /\ FitToWorld(c).id = blocks[i].id
    BY <2>4, FitsTheWorld
  <2> QED BY <1>2, <1>4, <1>8, <2>1, <2>5, PatchStep
<1>9. CASE drag.kind = "resize" /\ i \in DOMAIN blocks
  <2> DEFINE c == Resized(drag.base, drag.handle, dx, dy)
  <2>1. Patch(i, c) /\ UNCHANGED <<draft, selected, chosen>>
    BY <1>9 DEF PointerMove
  <2>2. c \in Drawn /\ c.id = drag.base.id
    <3> HIDE DEF dx, dy
    <3> QED BY <1>3, <1>9, ResizedIsDrawn DEF Takes
  <2> HIDE DEF c
  <2>3. /\ drag.base.id = drag.id
        /\ \A k \in DOMAIN blocks : blocks[k].id = drag.id => k = i
        /\ \/ selected = i /\ chosen = drag.id
           \/ selected = Nothing /\ chosen = Nothing
    BY <1>1, <1>9 DEF ListInv, DragIsSelected, Takes
  <2>4. /\ blocks' \in Seq(Drawn) /\ Len(blocks') = Len(blocks) /\ DOMAIN blocks' = DOMAIN blocks
        /\ blocks'[i].id = drag.id
        /\ \A k \in DOMAIN blocks : k # i => blocks'[k] = blocks[k]
    <3>1. blocks' = [blocks EXCEPT ![i] = c]
      BY <2>1 DEF Patch
    <3> HIDE DEF i
    <3> QED BY <1>4, <1>9, <2>2, <2>3, <3>1
  <2> HIDE DEF i
  <2>5. OwnNames'
    <3>1. \A k, l \in DOMAIN blocks : blocks'[k].id = blocks'[l].id => k = l
      BY <1>1, <2>3, <2>4 DEF ListInv, OwnNames
    <3> QED BY <2>4, <3>1 DEF OwnNames
  <2>6. SelectionIsTheUsers'
    <3>1. CASE selected = i /\ chosen = drag.id
      BY <1>9, <2>1, <2>4, <3>1 DEF SelectionIsTheUsers, Current
    <3>2. CASE selected = Nothing /\ chosen = Nothing
      BY <2>1, <2>4, <3>2, Deselected
    <3> QED BY <2>3, <3>1, <3>2
  <2>7. DragIsSelected'
    <3>1. \A k \in DOMAIN blocks' : blocks'[k].id = drag.id => k = i
      BY <2>3, <2>4
    <3> QED BY <1>2, <2>1, <2>3, <3>1 DEF DragIsSelected, i
  <2> QED BY <1>2, <1>4, <2>1, <2>4, <2>5, <2>6, <2>7, EditorStep DEF ListInv
<1> QED BY <1>3, <1>5, <1>6, <1>7, <1>8, <1>9 DEF Takes

LEMMA UpKeeps ==
  ASSUME EditorInv, PointerUp
  PROVE  EditorInv'
<1>1. EditorTypes /\ ListInv
  BY DEF EditorInv
<1>2. /\ editing /\ drag # NoDrag /\ drag' = NoDrag /\ draft' = NoDraft
      /\ UNCHANGED <<roomVars, shelf, editing, tool, edits>>
  BY DEF PointerUp
<1>3. /\ edits' \in 0 .. MaxEdits /\ tool' \in Tools /\ drag' \in Drags
      /\ draft' \in {NoDraft} \cup Boxes /\ drag'.kind \notin Takes
      /\ blocks \in Seq(Drawn) /\ Len(blocks) <= MaxBlocks /\ selected \in 0 .. MaxBlocks
      /\ chosen \in Nat
  BY <1>1, <1>2 DEF EditorTypes, Drags, NoDrag, Takes
<1>4. CASE drag.kind # "draw" \/ Full
  <2>1. UNCHANGED <<blocks, selected, chosen>>
    BY <1>4 DEF PointerUp
  <2>2. ListInv'
    BY <1>1, <1>2, <2>1, SameNames
  <2> QED BY <1>2, <1>3, <2>1, <2>2, EditorStep
<1>5. CASE ~(drag.kind # "draw" \/ Full)
  <2> DEFINE cell == [x |-> Clamp((drag.from[1] \div Grid) * Grid, 0, Width - Grid),
                      y |-> Clamp((drag.from[2] \div Grid) * Grid, 0, Height - Grid),
                      width |-> Grid, height |-> Grid]
             r == IF draft.width >= MinSize /\ draft.height >= MinSize THEN draft ELSE cell
             b == [id |-> NewName, x |-> r.x, y |-> r.y, width |-> r.width,
                   height |-> r.height, type |-> "solid", extra |-> NoOption]
             d == FitToWorld(WithDefaults(b, Brush))
             n == Len(blocks)
  <2>1. /\ blocks' = Append(blocks, d) /\ selected' = n + 1 /\ chosen' = NewName
    BY <1>5 DEF PointerUp, Select
  <2>2. n \in Nat /\ n < MaxBlocks /\ MaxBlocks \in Nat /\ DOMAIN blocks = 1 .. n
    BY <1>1, <1>5, BlocksOfTheList DEF Full
  <2>3. r.x \in Int /\ r.y \in Int /\ r.width \in Int /\ r.height \in Int
    <3>1. drag.from[1] \in Int /\ drag.from[2] \in Int
      BY <1>1, <1>2, <1>5, TheDrag
    <3>2. Grid \in Nat \ {0} /\ Width \in Nat /\ Height \in Nat /\ MinSize \in Nat \ {0}
      BY WorldAssumption
    <3>3. drag.from[1] \div Grid \in Int /\ drag.from[2] \div Grid \in Int
      BY <3>1, <3>2
    <3>4. (drag.from[1] \div Grid) * Grid \in Int /\ (drag.from[2] \div Grid) * Grid \in Int
      BY <3>2, <3>3
    <3>5. cell.x \in Int /\ cell.y \in Int /\ cell.width \in Int /\ cell.height \in Int
      BY <3>2, <3>4 DEF Clamp
    <3> HIDE DEF cell
    <3>6. draft \in {NoDraft} \cup Boxes
      BY <1>1 DEF EditorTypes
    <3>7. CASE draft = NoDraft
      BY <3>2, <3>5, <3>7 DEF NoDraft
    <3>8. CASE draft \in Boxes
      BY <3>5, <3>8 DEF Boxes
    <3> QED BY <3>6, <3>7, <3>8
  <2> HIDE DEF r
  <2>4. NewName \in Nat \ {0} /\ NewName \notin Names
    BY <1>1, NewNameIsNew
  <2>5. Brush \in Kinds
    BY <1>1, WorldAssumption DEF Brush, EditorTypes, Tools
  <2>6. b \in Shape /\ b.id = NewName
    BY <2>3, <2>4, WorldAssumption DEF Shape
  <2> HIDE DEF b
  <2>7. d \in Drawn /\ d.id = NewName
    <3>1. WithDefaults(b, Brush) \in Sketched /\ WithDefaults(b, Brush).id = NewName
      BY <2>5, <2>6, DefaultsAreSketched
    <3> QED BY <3>1, FitsTheWorld
  <2> HIDE DEF d
  <2>8. /\ blocks' \in Seq(Drawn) /\ Len(blocks') = n + 1 /\ DOMAIN blocks' = 1 .. n + 1
        /\ blocks'[n + 1] = d /\ \A k \in 1 .. n : blocks'[k] = blocks[k]
    BY <1>3, <2>1, <2>2, <2>7
  <2>9. \A k \in 1 .. n : blocks[k].id # NewName
    BY <2>2, <2>4 DEF Names
  <2>10. OwnNames'
    <3>1. ASSUME NEW k \in 1 .. n + 1, NEW l \in 1 .. n + 1, blocks'[k].id = blocks'[l].id
          PROVE  k = l
      <4>1. CASE k = n + 1 \/ l = n + 1
        BY <2>2, <2>7, <2>8, <2>9, <3>1, <4>1
      <4>2. CASE k \in 1 .. n /\ l \in 1 .. n
        BY <1>1, <2>2, <2>8, <3>1, <4>2 DEF ListInv, OwnNames
      <4>3. \A m \in 1 .. n + 1 : m \in 1 .. n \/ m = n + 1
        BY <2>2
      <4> QED BY <4>1, <4>2, <4>3
    <3> QED BY <2>8, <3>1 DEF OwnNames
  <2>11. SelectionIsTheUsers'
    <3>1. n + 1 \in 1 .. n + 1
      BY <2>2
    <3> QED BY <2>1, <2>7, <2>8, <3>1 DEF SelectionIsTheUsers, Current
  <2>12. ListInv'
    BY <1>3, <2>10, <2>11, NothingIsDragged DEF ListInv
  <2>13. Len(blocks') <= MaxBlocks /\ selected' \in 0 .. MaxBlocks /\ chosen' \in Nat
    BY <2>1, <2>2, <2>4, <2>8
  <2> QED BY <1>2, <1>3, <2>8, <2>12, <2>13, EditorStep
<1> QED BY <1>4, <1>5

LEMMA PanelKeeps ==
  ASSUME EditorInv, Panel
  PROVE  EditorInv'
<1>1. EditorTypes /\ ListInv /\ RoomTypes
  BY DEF EditorInv
<1>2. /\ tool \in Tools /\ drag \in Drags /\ selected \in 0 .. MaxBlocks /\ chosen \in Nat
      /\ blocks \in Seq(Drawn) /\ Len(blocks) <= MaxBlocks /\ draft \in {NoDraft} \cup Boxes
      /\ 0 \in 0 .. MaxBlocks
  BY <1>1, WorldAssumption DEF EditorTypes
<1>3. ASSUME NEW next \in Tools, PickTool(next)
      PROVE  EditorInv'
  <2>1. /\ editing /\ edits' \in 0 .. MaxEdits /\ drag = NoDrag /\ tool' = next
        /\ UNCHANGED <<roomVars, shelf, editing, drag, draft>>
    BY <1>3, Edited DEF PickTool, AtRest
  <2>2. CASE next = "eraser"
    <3>1. selected' = Nothing /\ chosen' = Nothing /\ blocks' = blocks
      BY <1>3, <2>2 DEF PickTool, Select
    <3>2. ListInv'
      <4>1. OwnNames'
        BY <1>1, <3>1 DEF ListInv, OwnNames
      <4>2. DragIsSelected'
        BY <2>1, NothingIsDragged DEF NoDrag, Takes
      <4> QED BY <1>2, <3>1, <4>1, <4>2, Deselected DEF ListInv
    <3> QED BY <1>2, <2>1, <3>1, <3>2, EditorStep DEF Nothing
  <2>3. CASE next # "eraser" /\ Current
    <3> DEFINE d == WithDefaults(blocks[selected], next)
    <3>1. Patch(selected, d) /\ UNCHANGED <<selected, chosen>> /\ selected \in DOMAIN blocks
      BY <1>3, <2>3 DEF PickTool, Current
    <3>2. d \in Drawn /\ d.id = blocks[selected].id
      BY <1>1, <2>3, <3>1, BlocksOfTheList, DefaultsAreDrawn DEF Tools
    <3> HIDE DEF d
    <3> QED BY <1>2, <2>1, <3>1, <3>2, PatchStep
  <2>4. CASE next # "eraser" /\ ~Current
    <3>1. UNCHANGED <<blocks, selected, chosen>>
      BY <1>3, <2>4 DEF PickTool
    <3>2. ListInv'
      BY <1>1, <2>1, <3>1, SameNames
    <3> QED BY <1>2, <2>1, <3>1, <3>2, EditorStep
  <2> QED BY <2>2, <2>3, <2>4
<1>4. ASSUME NEW field \in {"x", "y", "width", "height"}, NEW n \in Numbers, TypeNumber(field, n)
      PROVE  EditorInv'
  <2> DEFINE b == blocks[selected]  c == [b EXCEPT ![field] = n]
  <2>1. /\ editing /\ edits' \in 0 .. MaxEdits /\ selected \in DOMAIN blocks
        /\ Patch(selected, FitToWorld(c))
        /\ UNCHANGED <<roomVars, shelf, editing, tool, selected, drag, draft, chosen>>
    BY <1>4, Edited DEF TypeNumber, Current
  <2>2. b \in Sketched /\ n \in Int
    BY <1>1, <2>1, BlocksOfTheList, EditorBounds
  <2>3. c \in Sketched /\ c.id = b.id
    <3> HIDE DEF b
    <3>1. CASE field = "x"
      BY <2>2, <3>1 DEF Sketched, Shape
    <3>2. CASE field = "y"
      BY <2>2, <3>2 DEF Sketched, Shape
    <3>3. CASE field = "width"
      BY <2>2, <3>3 DEF Sketched, Shape
    <3>4. CASE field = "height"
      BY <2>2, <3>4 DEF Sketched, Shape
    <3> QED BY <3>1, <3>2, <3>3, <3>4
  <2> HIDE DEF c
  <2>4. FitToWorld(c) \in Drawn /\ FitToWorld(c).id = blocks[selected].id
    BY <2>3, FitsTheWorld
  <2> QED BY <1>2, <2>1, <2>4, PatchStep
<1>5. ASSUME NEW option \in Options, SetOption(option)
      PROVE  EditorInv'
  <2> DEFINE b == blocks[selected]  c == [b EXCEPT !.extra = option]
  <2>1. /\ editing /\ edits' \in 0 .. MaxEdits /\ selected \in DOMAIN blocks
        /\ HasOption(b.type) /\ Patch(selected, FitToWorld(c))
        /\ UNCHANGED <<roomVars, shelf, editing, tool, selected, drag, draft, chosen>>
    BY <1>5, Edited DEF SetOption, Current
  <2>2. b \in Sketched
    BY <1>1, <2>1, BlocksOfTheList
  <2>3. c \in Sketched /\ c.id = b.id
    <3> HIDE DEF b
    <3> QED BY <2>1, <2>2 DEF Sketched, Shape
  <2> HIDE DEF c
  <2>4. FitToWorld(c) \in Drawn /\ FitToWorld(c).id = blocks[selected].id
    BY <2>3, FitsTheWorld
  <2> QED BY <1>2, <2>1, <2>4, PatchStep
<1>6. CASE Store
  <2>1. /\ editing /\ edits' \in 0 .. MaxEdits /\ shelf' = Nameless(MergeBlocks(blocks))
        /\ UNCHANGED <<roomVars, editorVars, chosen>>
    BY <1>6, Edited DEF Store
  <2>2. shelf' \in Layouts
    <3>1. MergeBlocks(blocks) \in Seq(Drawn) /\ Len(MergeBlocks(blocks)) <= Len(blocks)
      BY <1>2, MergeKeeps
    <3>2. /\ shelf' \in Seq(Sent) /\ Len(shelf') = Len(MergeBlocks(blocks))
      BY <2>1, <3>1, NamelessAreSent
    <3>3. Len(MergeBlocks(blocks)) \in Nat /\ Len(blocks) \in Nat /\ MaxBlocks \in Nat
      BY <1>2, <3>1, WorldAssumption
    <3> QED BY <1>2, <3>1, <3>2, <3>3 DEF Layouts
  <2>3. RoomTypes'
    BY <1>1, <2>1, <2>2 DEF RoomTypes, roomVars
  <2>4. EditorTypes'
    BY <1>1, <2>1 DEF EditorTypes, editorVars
  <2>5. ListInv'
    BY <1>1, <2>1, SameNames DEF editorVars
  <2> QED BY <2>3, <2>4, <2>5 DEF EditorInv
<1>7. CASE LoadSlot
  <2>1. /\ editing /\ edits' \in 0 .. MaxEdits /\ drag = NoDrag /\ blocks' = Loaded(shelf)
        /\ selected' = Nothing /\ chosen' = Nothing
        /\ UNCHANGED <<roomVars, shelf, editing, tool, drag, draft>>
    BY <1>7, Edited DEF LoadSlot, AtRest, Select
  <2>2. /\ blocks' \in Seq(Drawn) /\ Len(blocks') <= MaxBlocks
        /\ \A i \in DOMAIN blocks' : blocks'[i].id = i
    BY <1>1, <2>1, LoadedAreDrawn DEF RoomTypes, Layouts
  <2>3. ListInv'
    BY <2>1, <2>2, Deselected, NothingIsDragged DEF ListInv, OwnNames, NoDrag, Takes
  <2> QED BY <1>2, <2>1, <2>2, <2>3, EditorStep DEF Nothing
<1>8. CASE ClearAll
  <2>1. /\ editing /\ edits' \in 0 .. MaxEdits /\ drag = NoDrag /\ blocks' = <<>>
        /\ UNCHANGED <<roomVars, shelf, editing, tool, selected, drag, draft, chosen>>
    BY <1>8, Edited DEF ClearAll, AtRest
  <2>2. blocks' \in Seq(Drawn) /\ Len(blocks') <= MaxBlocks /\ DOMAIN blocks' = {}
    BY <2>1, WorldAssumption
  <2>3. ListInv'
    BY <2>1, <2>2, NothingIsDragged
      DEF ListInv, OwnNames, SelectionIsTheUsers, Current, NoDrag, Takes
  <2> QED BY <1>2, <2>1, <2>2, <2>3, EditorStep
<1> QED BY <1>3, <1>4, <1>5, <1>6, <1>7, <1>8 DEF Panel

LEMMA RoomKeeps ==
  ASSUME EditorInv, OpenEditor \/ Close \/ SaveAndApply \/ ResetToOriginal \/ RoomApplies
  PROVE  EditorInv'
<1>1. EditorTypes /\ ListInv /\ RoomTypes
  BY DEF EditorInv
<1>2. MaxBlocks \in Nat /\ MaxEdits \in Nat /\ "solid" \in Tools
  BY WorldAssumption, EditorBounds DEF Tools
<1>3. CASE OpenEditor
  <2>1. /\ ~editing /\ edits < MaxEdits /\ edits' = edits + 1 /\ editing' = TRUE
        /\ blocks' = Loaded(layout)
        /\ UNCHANGED <<roomVars, shelf, tool, selected, drag, draft, chosen>>
    BY <1>3 DEF OpenEditor
  <2>2. selected = Nothing /\ chosen = Nothing /\ drag = NoDrag
    BY <1>1, <2>1 DEF EditorTypes
  <2>3. /\ blocks' \in Seq(Drawn) /\ Len(blocks') <= MaxBlocks
        /\ \A i \in DOMAIN blocks' : blocks'[i].id = i
    BY <1>1, <2>1, LoadedAreDrawn DEF RoomTypes, Layouts
  <2>4. ListInv'
    BY <2>1, <2>2, <2>3, Deselected, NothingIsDragged DEF ListInv, OwnNames, NoDrag, Takes
  <2>5. RoomTypes'
    BY <1>1, <2>1, RoomStays
  <2>6. EditorTypes'
    BY <1>1, <1>2, <2>1, <2>3 DEF EditorTypes
  <2> QED BY <2>4, <2>5, <2>6 DEF EditorInv
<1>4. ASSUME Gone, edits' = edits PROVE EditorTypes' /\ ListInv'
  <2>1. /\ editing' = FALSE /\ blocks' = <<>> /\ tool' = "solid" /\ selected' = Nothing
        /\ chosen' = Nothing /\ drag' = NoDrag /\ draft' = NoDraft
    BY <1>4 DEF Gone, Select
  <2>2. blocks' \in Seq(Drawn) /\ Len(blocks') = 0 /\ DOMAIN blocks' = {}
    BY <2>1
  <2>3. EditorTypes'
    <3>1. NoDrag \in Drags /\ Nothing \in 0 .. MaxBlocks /\ Nothing \in Nat
      BY <1>2 DEF Drags, Nothing
    <3>2. Len(blocks') <= MaxBlocks
      BY <1>2, <2>2
    <3>3. edits' \in 0 .. MaxEdits
      BY <1>1, <1>4 DEF EditorTypes
    <3>4. editing' \in BOOLEAN
      BY <2>1, Zenon
    <3> QED BY <1>2, <2>1, <2>2, <3>1, <3>2, <3>3, <3>4 DEF EditorTypes
  <2>4. ListInv'
    BY <2>1, <2>2, Deselected, NothingIsDragged DEF ListInv, OwnNames, NoDrag, Takes
  <2> QED BY <2>3, <2>4
<1>5. CASE Close
  <2>1. Gone /\ edits' = edits /\ UNCHANGED <<roomVars, shelf>>
    BY <1>5 DEF Close
  <2> QED BY <1>1, <1>4, <2>1, RoomStays DEF EditorInv
<1>6. CASE SaveAndApply
  <2> DEFINE sent == Nameless(MergeBlocks(blocks))
  <2>1. /\ blocks # <<>> /\ wire' = [type |-> "set_platforms", platforms |-> sent]
        /\ Gone /\ UNCHANGED <<layout, custom, shelf, edits>>
    BY <1>6 DEF SaveAndApply
  <2>2. sent \in Layouts \ {<<>>}
    <3>1. blocks \in Seq(Drawn) /\ Len(blocks) <= MaxBlocks
      BY <1>1 DEF EditorTypes
    <3>2. /\ MergeBlocks(blocks) \in Seq(Drawn) /\ Len(MergeBlocks(blocks)) <= Len(blocks)
          /\ MergeBlocks(blocks) # <<>>
      BY <2>1, <3>1, MergeKeeps
    <3>3. sent \in Seq(Sent) /\ Len(sent) = Len(MergeBlocks(blocks)) /\ sent # <<>>
      BY <3>2, NamelessAreSent
    <3>4. Len(MergeBlocks(blocks)) \in Nat /\ Len(blocks) \in Nat
      BY <3>1, <3>2
    <3> QED BY <1>2, <3>1, <3>2, <3>3, <3>4 DEF Layouts
  <2> HIDE DEF sent
  <2>3. RoomTypes'
    BY <1>1, <2>1, <2>2 DEF RoomTypes
  <2> QED BY <1>4, <2>1, <2>3 DEF EditorInv
<1>7. CASE ResetToOriginal
  <2>1. /\ wire' = [type |-> "reset_platforms"] /\ Gone
        /\ UNCHANGED <<layout, custom, shelf, edits>>
    BY <1>7 DEF ResetToOriginal
  <2>2. RoomTypes'
    BY <1>1, <2>1 DEF RoomTypes
  <2> QED BY <1>4, <2>1, <2>2 DEF EditorInv
<1>8. CASE RoomApplies
  <2>1. /\ wire # NoWire /\ wire' = NoWire /\ UNCHANGED <<shelf, editorVars, chosen, edits>>
    BY <1>8 DEF RoomApplies
  <2>2. layout' \in Layouts /\ custom' \in BOOLEAN
    <3>1. CASE wire.type = "reset_platforms"
      <4>1. layout' = Original /\ custom' = FALSE
        BY <1>8, <3>1 DEF RoomApplies
      <4>2. Original \in Layouts
        BY OriginalIsALayout
      <4> QED BY <4>1, <4>2
    <3>2. CASE wire.type # "reset_platforms"
      <4>1. wire.platforms \in Layouts
        BY <1>1, <2>1, <3>2 DEF RoomTypes
      <4>2. NormalizeAll(wire.platforms) = wire.platforms
        BY <4>1, AllowedStays DEF Layouts
      <4>3. \/ layout' = layout /\ custom' = custom
            \/ layout' = wire.platforms /\ custom' = TRUE
        BY <1>8, <3>2, <4>2 DEF RoomApplies
      <4> QED BY <1>1, <4>1, <4>3 DEF RoomTypes
    <3> QED BY <3>1, <3>2
  <2>3. RoomTypes'
    BY <1>1, <2>1, <2>2 DEF RoomTypes, NoWire
  <2>4. EditorTypes'
    BY <1>1, <2>1 DEF EditorTypes, editorVars
  <2>5. ListInv'
    BY <1>1, <2>1, SameNames DEF editorVars
  <2> QED BY <2>3, <2>4, <2>5 DEF EditorInv
<1> QED BY <1>3, <1>5, <1>6, <1>7, <1>8

LEMMA InitInv ==
  ASSUME Init
  PROVE  EditorInv
<1>1. RoomTypes
  <2>1. <<>> \in Layouts
    BY WorldAssumption DEF Layouts
  <2> QED BY <2>1, OriginalIsALayout DEF Init, RoomTypes, NoWire
<1>2. EditorTypes
  <2>1. <<>> \in Seq(Drawn) /\ Len(<<>>) = 0
    OBVIOUS
  <2>2. NoDrag \in Drags /\ Nothing \in 0 .. MaxBlocks /\ Nothing \in Nat
    BY WorldAssumption DEF Drags, Nothing
  <2>3. edits \in 0 .. MaxEdits /\ tool \in Tools
    BY WorldAssumption, EditorBounds DEF Init, Tools
  <2>4. blocks \in Seq(Drawn) /\ Len(blocks) <= MaxBlocks
    BY <2>1, WorldAssumption DEF Init
  <2>5. editing \in BOOLEAN
    BY Zenon DEF Init
  <2> QED BY <2>2, <2>3, <2>4, <2>5 DEF Init, EditorTypes
<1>3. ListInv
  BY DEF Init, ListInv, OwnNames, SelectionIsTheUsers, Current, DragIsSelected, NoDrag, Takes,
         Nothing
<1> QED BY <1>1, <1>2, <1>3 DEF EditorInv

LEMMA StepKeeps ==
  ASSUME EditorInv, [Next]_vars
  PROVE  EditorInv'
<1>1. CASE Pointer
  BY <1>1, PressKeeps, MoveKeeps, ResizeKeeps, UpKeeps DEF Pointer
<1>2. CASE UNCHANGED vars
  <2>1. RoomTypes'
    BY <1>2 DEF EditorInv, RoomTypes, vars, roomVars
  <2>2. EditorTypes'
    BY <1>2 DEF EditorInv, EditorTypes, vars, editorVars
  <2>3. ListInv'
    BY <1>2, SameNames DEF EditorInv, vars, editorVars
  <2> QED BY <2>1, <2>2, <2>3 DEF EditorInv
<1> QED BY <1>1, <1>2, KeysKeep, PanelKeeps, RoomKeeps DEF Next

(***************************************************************************)
(* Theorems                                                                *)
(***************************************************************************)

\* The editor keeps its lists of legal blocks, the names of their blocks apart,
\* and the drag with the selection.
THEOREM EditorInvariant == Spec => []EditorInv
<1>1. Init => EditorInv
  BY InitInv
<1>2. EditorInv /\ [Next]_vars => EditorInv'
  BY StepKeeps
<1> QED BY <1>1, <1>2, PTL DEF Spec

\* removeAt: the selection stays with the block that the user selected, for any
\* map, any pointer and any number of edits.
THEOREM SelectionStays == Spec => []SelectionIsTheUsers
<1>1. EditorInv => SelectionIsTheUsers
  BY DEF EditorInv, ListInv
<1> QED BY <1>1, EditorInvariant, PTL

\* mergeBlocks: whatever the user has drawn, merging loses and adds no ground,
\* leaves the movers alone and makes no more blocks.
THEOREM MergingIsLossless == Spec => []MergeKeepsTheGround
<1>1. EditorInv => MergeKeepsTheGround
  BY MergeKeeps DEF EditorInv, EditorTypes, MergeKeepsTheGround
<1> QED BY <1>1, EditorInvariant, PTL

\* MAX_BLOCKS and MIN_SIZE of the editor are those of the server: it takes what
\* is sent to it as it is.
THEOREM LayoutArrives == Spec => []LayoutArrivesAsDrawn
<1>1. EditorInv => LayoutArrivesAsDrawn
  BY AllowedStays DEF EditorInv, RoomTypes, Layouts, LayoutArrivesAsDrawn
<1> QED BY <1>1, EditorInvariant, PTL

\* Types: the blocks of the editor, of the room and of the shelf are such that
\* the server takes them, and never more than it takes.
THEOREM EditorTypeOK == Spec => []TypeOK
<1>1. EditorInv => TypeOK
  <2>1. SUFFICES ASSUME EditorInv PROVE TypeOK
    OBVIOUS
  <2>2. /\ \A s \in Seq(Drawn) : \A i \in DOMAIN s : LegalBlock(s[i])
        /\ \A s \in Seq(Sent) : \A i \in DOMAIN s : LegalBlock(s[i])
    BY DEF Drawn, Sent
  <2>3. /\ \A i \in DOMAIN blocks : LegalBlock(blocks[i])
        /\ \A i \in DOMAIN layout : LegalBlock(layout[i])
        /\ \A i \in DOMAIN shelf : LegalBlock(shelf[i])
    BY <2>1, <2>2 DEF EditorInv, EditorTypes, RoomTypes, Layouts
  <2> QED BY <2>1, <2>3 DEF TypeOK, EditorInv, EditorTypes, RoomTypes, Layouts
<1> QED BY <1>1, EditorInvariant, PTL

(***************************************************************************)
(* The layouts in the browser                                              *)
(***************************************************************************)

Saved == [name : SlotNames, at : Nat]
Apart(S) == \A s, u \in S : s.at = u.at => s = u
Descending(list) == \A i, j \in DOMAIN list : i < j => list[i].at > list[j].at

\* Slots of different times have one order, the newest first.
LEMMA NewestComesFirst ==
  ASSUME NEW S \in SUBSET Saved, IsFiniteSet(S), Apart(S)
  PROVE  /\ NewestFirst(S) \in Seq(Saved) /\ Slots(NewestFirst(S)) = S
         /\ Descending(NewestFirst(S))
<1> DEFINE n == Cardinality(S)  since(s) == {u \in S : u.at >= s.at}
           rank(s) == Cardinality(since(s))  f == [s \in S |-> rank(s)]
           l == NewestFirst(S)
<1>1. n \in Nat /\ \A s \in S : s.at \in Nat /\ s \in Saved
  BY FS_CardinalityType DEF Saved
<1>2. ASSUME NEW s \in S
      PROVE  /\ IsFiniteSet(since(s)) /\ rank(s) \in Nat /\ rank(s) <= n
             /\ s \in since(s) /\ rank(s) # 0
  <2>1. since(s) \subseteq S /\ s \in since(s)
    BY <1>1
  <2> HIDE DEF since
  <2>2. IsFiniteSet(since(s)) /\ rank(s) <= n
    BY <2>1, FS_Subset
  <2>3. rank(s) \in Nat /\ (rank(s) = 0 <=> since(s) = {})
    BY <2>2, FS_CardinalityType, FS_EmptySet
  <2> QED BY <2>1, <2>2, <2>3
<1>3. ASSUME NEW s \in S, NEW u \in S
      PROVE  /\ s.at >= u.at => rank(s) <= rank(u)
             /\ rank(s) = rank(u) => s = u
  <2>1. ASSUME NEW a \in S, NEW b \in S, a.at >= b.at
        PROVE  rank(a) <= rank(b) /\ (rank(a) = rank(b) => a = b)
    <3>1. since(a) \subseteq since(b)
      BY <1>1, <2>1
    <3>2. a.at # b.at => b \notin since(a)
      BY <1>1, <2>1
    <3>3. rank(a) <= rank(b) /\ (rank(b) = rank(a) => since(b) = since(a))
      <4> HIDE DEF since
      <4> QED BY <1>2, <3>1, FS_Subset
    <3> HIDE DEF rank, since
    <3> QED BY <1>2, <3>2, <3>3 DEF Apart
  <2> HIDE DEF rank
  <2>2. s.at >= u.at \/ u.at >= s.at
    BY <1>1
  <2> QED BY <2>1, <2>2
<1>4. /\ \A s \in S : rank(s) \in 1 .. n
      /\ \A s, u \in S : rank(s) = rank(u) => s = u
  <2> HIDE DEF rank, since, f
  <2> QED BY <1>1, <1>2, <1>3
<1>5. \A k \in 1 .. n : \E s \in S : rank(s) = k
  <2> HIDE DEF rank
  <2>1. f \in Injection(S, 1 .. n)
    BY <1>4 DEF Injection, IsInjective
  <2>2. IsFiniteSet(1 .. n) /\ Cardinality(1 .. n) = n
    BY <1>1, UpTo
  <2>3. f \in Surjection(S, 1 .. n)
    BY <2>1, <2>2, FS_Injection
  <2> QED BY <2>3 DEF Surjection
<1>6. l = [k \in 1 .. n |-> CHOOSE s \in S : rank(s) = k]
  BY DEF NewestFirst
<1> HIDE DEF rank, l
<1>7. \A k \in 1 .. n : l[k] \in S /\ rank(l[k]) = k
  BY <1>5, <1>6
<1>8. l \in Seq(Saved) /\ DOMAIN l = 1 .. n
  BY <1>1, <1>6, <1>7
<1>9. Slots(l) = S
  <2>1. \A s \in S : rank(s) \in 1 .. n /\ l[rank(s)] = s
    BY <1>7, <1>4
  <2> QED BY <1>7, <1>8, <2>1 DEF Slots
<1>10. Descending(l)
  <2>1. ASSUME NEW i \in 1 .. n, NEW j \in 1 .. n, i < j PROVE l[i].at > l[j].at
    <3>1. ~(l[j].at >= l[i].at)
      BY <1>1, <1>3, <1>7, <2>1
    <3> QED BY <1>1, <1>7, <3>1
  <2> QED BY <1>8, <2>1 DEF Descending
<1> QED BY <1>8, <1>9, <1>10 DEF l

LEMMA DescendingAreApart ==
  ASSUME NEW list \in Seq(Saved), Descending(list)
  PROVE  /\ Slots(list) \in SUBSET Saved /\ IsFiniteSet(Slots(list)) /\ Apart(Slots(list))
<1> DEFINE n == Len(list)  f == [i \in 1 .. n |-> list[i]]
<1>1. /\ n \in Nat /\ DOMAIN list = 1 .. n /\ IsFiniteSet(1 .. n)
      /\ \A i \in 1 .. n : list[i] \in Saved
  BY Numbered
<1>2. Slots(list) = {list[i] : i \in 1 .. n}
  BY <1>1 DEF Slots
<1>3. f \in Surjection(1 .. n, Slots(list))
  BY <1>2 DEF Surjection
<1>4. IsFiniteSet(Slots(list))
  BY <1>1, <1>3, FS_Surjection
<1>5. Apart(Slots(list))
  <2>1. ASSUME NEW i \in 1 .. n, NEW j \in 1 .. n, list[i].at = list[j].at PROVE i = j
    <3>1. /\ i < j => list[i].at > list[j].at
          /\ j < i => list[j].at > list[i].at
      BY <1>1 DEF Descending
    <3>2. list[i].at \in Nat /\ i \in Nat /\ j \in Nat
      BY <1>1 DEF Saved
    <3> QED BY <2>1, <3>1, <3>2
  <2> QED BY <1>2, <2>1 DEF Apart
<1> QED BY <1>1, <1>2, <1>4, <1>5

\* What write cuts off is older than all that it keeps.
LEMMA OldestAreCut ==
  ASSUME NEW list \in Seq(Saved), Descending(list)
  PROVE  /\ Kept(list) \in Seq(Saved) /\ Descending(Kept(list))
         /\ Slots(Kept(list)) \subseteq Slots(list)
         /\ \A s \in Slots(list) \ Slots(Kept(list)) :
              Len(Kept(list)) = MaxSlots /\ \A u \in Slots(Kept(list)) : u.at > s.at
<1> DEFINE n == Len(list)
<1>1. n \in Nat /\ DOMAIN list = 1 .. n /\ MaxSlots \in Nat
  BY StoreAssumption
<1>2. CASE n > MaxSlots
  <2> DEFINE k == SubSeq(list, 1, MaxSlots)
  <2>1. Kept(list) = k
    BY <1>2 DEF Kept
  <2>2. /\ k \in Seq(Saved) /\ Len(k) = MaxSlots /\ DOMAIN k = 1 .. MaxSlots
        /\ \A i \in 1 .. MaxSlots : k[i] = list[i]
    BY <1>1, <1>2
  <2> HIDE DEF k
  <2>3. 1 .. MaxSlots \subseteq 1 .. n
    BY <1>1, <1>2
  <2>4. Descending(k) /\ Slots(k) \subseteq Slots(list)
    BY <1>1, <2>2, <2>3 DEF Descending, Slots
  <2>5. ASSUME NEW s \in Slots(list) \ Slots(k), NEW u \in Slots(k) PROVE u.at > s.at
    <3>1. PICK i \in 1 .. n : list[i] = s
      BY <1>1 DEF Slots
    <3>2. PICK j \in 1 .. MaxSlots : list[j] = u
      BY <2>2 DEF Slots
    <3>3. i \notin 1 .. MaxSlots
      BY <2>2, <3>1 DEF Slots
    <3>4. j < i
      BY <1>1, <3>3
    <3> QED BY <1>1, <2>3, <3>1, <3>2, <3>4 DEF Descending
  <2> QED BY <2>1, <2>2, <2>4, <2>5
<1>3. CASE ~(n > MaxSlots)
  BY <1>3 DEF Kept
<1> QED BY <1>2, <1>3

\* The disk is in order, and nothing on it is from a time to come.
StoreInv ==
  /\ clock \in Nat /\ disk \in Seq(Saved) /\ Descending(disk)
  /\ \A s \in Slots(disk) : s.at <= clock

\* What a write starts from: the list of the disk without one name.
LEMMA WithoutName ==
  ASSUME StoreInv, ~blocked, NEW name
  PROVE  LET list == Without(ListLayouts, name)
         IN /\ list \in Seq(Saved) /\ Descending(list)
            /\ Slots(list) = {s \in Slots(disk) : s.name # name}
<1>1. /\ Slots(disk) \in SUBSET Saved /\ IsFiniteSet(Slots(disk)) /\ Apart(Slots(disk))
  BY DescendingAreApart DEF StoreInv
<1>2. Slots(ListLayouts) = Slots(disk)
  BY <1>1, NewestComesFirst DEF ListLayouts
<1> DEFINE S == {s \in Slots(disk) : s.name # name}
<1>3. Without(ListLayouts, name) = NewestFirst(S)
  BY <1>2 DEF Without
<1>4. S \in SUBSET Saved /\ IsFiniteSet(S) /\ Apart(S)
  <2>1. S \subseteq Slots(disk)
    OBVIOUS
  <2> HIDE DEF S
  <2> QED BY <1>1, <2>1, FS_Subset DEF Apart
<1> HIDE DEF S
<1> QED BY <1>3, <1>4, NewestComesFirst DEF S

LEMMA WriteKeepsOrder ==
  ASSUME StoreInv, NEW t, NEW list \in Seq(Saved), Descending(list), Write(t, list),
         clock' \in Nat, clock <= clock', ~blocked => \A s \in Slots(list) : s.at <= clock'
  PROVE  StoreInv'
<1>1. CASE ~blocked /\ disk' = Kept(list)
  BY <1>1, OldestAreCut DEF StoreInv
<1>2. CASE disk' = disk
  <2>1. \A s \in Slots(disk) : s.at \in Nat
    BY DescendingAreApart DEF StoreInv, Saved
  <2> QED BY <1>2, <2>1 DEF StoreInv
<1> QED BY <1>1, <1>2 DEF Write

\* The list that a save writes: the new slot is the newest.
LEMMA SavedComesFirst ==
  ASSUME StoreInv, ~blocked, NEW name \in SlotNames
  PROVE  LET list == <<Slot(name)>> \o Without(ListLayouts, name)
         IN /\ list \in Seq(Saved) /\ Descending(list)
            /\ Slots(list) = {Slot(name)} \cup {s \in Slots(disk) : s.name # name}
<1> DEFINE rest == Without(ListLayouts, name)  list == <<Slot(name)>> \o rest
           m == Len(rest)
<1>1. /\ rest \in Seq(Saved) /\ Descending(rest)
      /\ Slots(rest) = {s \in Slots(disk) : s.name # name}
  BY WithoutName
<1>2. Slot(name) \in Saved /\ Slot(name).at = clock + 1 /\ clock \in Nat
  BY DEF StoreInv, Slot, Saved
<1> HIDE DEF rest
<1>3. /\ m \in Nat /\ DOMAIN rest = 1 .. m /\ list \in Seq(Saved) /\ DOMAIN list = 1 .. m + 1
      /\ list[1] = Slot(name) /\ \A i \in 2 .. m + 1 : list[i] = rest[i - 1]
  BY <1>1, <1>2
<1> HIDE DEF list, m
<1>4. \A s \in Slots(rest) : s.at <= clock /\ s.at \in Nat
  BY <1>1, DescendingAreApart DEF StoreInv, Saved
<1>5. Descending(list)
  <2>1. ASSUME NEW i \in 1 .. m + 1, NEW j \in 1 .. m + 1, i < j PROVE list[i].at > list[j].at
    <3>1. j \in 2 .. m + 1 /\ j - 1 \in 1 .. m /\ list[j] = rest[j - 1]
      BY <1>3, <2>1
    <3>2. CASE i = 1
      <4>1. rest[j - 1] \in Slots(rest)
        BY <1>3, <3>1 DEF Slots
      <4> QED BY <1>2, <1>3, <1>4, <3>1, <3>2, <4>1
    <3>3. CASE i # 1
      <4>1. i \in 2 .. m + 1 /\ i - 1 \in 1 .. m /\ i - 1 < j - 1
        BY <1>3, <2>1, <3>3
      <4> QED BY <1>1, <1>3, <3>1, <4>1 DEF Descending
    <3> QED BY <3>2, <3>3
  <2> QED BY <1>3, <2>1 DEF Descending
<1>6. Slots(list) = {Slot(name)} \cup Slots(rest)
  <2>1. 1 .. m + 1 = {1} \cup 2 .. m + 1
    BY <1>3
  <2>2. Slots(list) = {list[i] : i \in 1 .. m + 1} /\ Slots(rest) = {rest[i] : i \in 1 .. m}
    BY <1>3 DEF Slots
  <2>3. {list[i] : i \in 2 .. m + 1} = {rest[i] : i \in 1 .. m}
    <3>1. \A i \in 2 .. m + 1 : i - 1 \in 1 .. m
      BY <1>3
    <3>2. \A i \in 1 .. m : i + 1 \in 2 .. m + 1 /\ list[i + 1] = rest[i]
      BY <1>3
    <3> QED BY <1>3, <3>1, <3>2
  <2> QED BY <1>3, <2>1, <2>2, <2>3
<1> QED BY <1>1, <1>3, <1>5, <1>6 DEF list, rest

\* A step of a tab or of the browser: the disk stays in order, and a slot that
\* goes was named, or the oldest of too many.
Goes(s) ==
  \/ \E t \in Tabs : SaveLayout(t, s.name) \/ DeleteLayout(t, s.name)
  \/ Len(disk') = MaxSlots /\ \A u \in Slots(disk') : u.at > s.at

LEMMA StoreStep ==
  ASSUME StoreInv, [StoreNext]_storeVars
  PROVE  StoreInv' /\ \A s \in Slots(disk) \ Slots(disk') : Goes(s)
<1>1. ASSUME NEW t \in Tabs, NEW name \in SlotNames, SaveLayout(t, name)
      PROVE  StoreInv' /\ \A s \in Slots(disk) \ Slots(disk') : Goes(s)
  <2> DEFINE list == <<Slot(name)>> \o Without(ListLayouts, name)
  <2>1. clock \in Nat /\ clock' = clock + 1 /\ Write(t, list)
    BY <1>1 DEF SaveLayout, StoreInv
  <2>2. CASE disk' = disk
    <3>1. \A s \in Slots(disk) : s.at \in Nat
      BY DescendingAreApart DEF StoreInv, Saved
    <3> QED BY <2>1, <2>2, <3>1 DEF StoreInv
  <2>3. CASE ~blocked /\ disk' = Kept(list)
    <3>1. /\ list \in Seq(Saved) /\ Descending(list)
          /\ Slots(list) = {Slot(name)} \cup {s \in Slots(disk) : s.name # name}
      BY <2>3, SavedComesFirst
    <3> HIDE DEF list
    <3>2. \A s \in Slots(list) : s.at <= clock'
      <4>1. \A s \in Slots(disk) : s.at \in Nat /\ s.at <= clock
        BY DescendingAreApart DEF StoreInv, Saved
      <4> QED BY <2>1, <3>1, <4>1 DEF Slot
    <3>3. StoreInv'
      BY <2>1, <3>1, <3>2, WriteKeepsOrder
    <3>4. ASSUME NEW s \in Slots(disk) \ Slots(disk') PROVE Goes(s)
      <4>1. CASE s.name = name
        BY <1>1, <4>1 DEF Goes
      <4>2. CASE s.name # name
        BY <2>3, <3>1, <4>2, OldestAreCut DEF Goes
      <4> QED BY <4>1, <4>2
    <3> QED BY <3>3, <3>4
  <2> QED BY <2>1, <2>2, <2>3 DEF Write
<1>2. ASSUME NEW t \in Tabs, NEW name \in SlotNames, DeleteLayout(t, name)
      PROVE  StoreInv' /\ \A s \in Slots(disk) \ Slots(disk') : Goes(s)
  <2> DEFINE list == Without(ListLayouts, name)
  <2>1. clock \in Nat /\ clock' = clock /\ Write(t, list)
    BY <1>2 DEF DeleteLayout, StoreInv
  <2>2. CASE disk' = disk
    BY <2>1, <2>2 DEF StoreInv
  <2>3. CASE ~blocked /\ disk' = Kept(list)
    <3>1. /\ list \in Seq(Saved) /\ Descending(list)
          /\ Slots(list) = {s \in Slots(disk) : s.name # name}
      BY <2>3, WithoutName
    <3> HIDE DEF list
    <3>2. \A s \in Slots(list) : s.at <= clock'
      BY <2>1, <3>1 DEF StoreInv
    <3>3. StoreInv'
      BY <2>1, <3>1, <3>2, WriteKeepsOrder
    <3>4. ASSUME NEW s \in Slots(disk) \ Slots(disk') PROVE Goes(s)
      <4>1. CASE s.name = name
        BY <1>2, <4>1 DEF Goes
      <4>2. CASE s.name # name
        BY <2>3, <3>1, <4>2, OldestAreCut DEF Goes
      <4> QED BY <4>1, <4>2
    <3> QED BY <3>3, <3>4
  <2> QED BY <2>1, <2>2, <2>3 DEF Write
<1>3. CASE (\E t \in Tabs : Reopen(t)) \/ Block \/ UNCHANGED storeVars
  <2>1. disk' = disk /\ clock' = clock
    BY <1>3 DEF Reopen, Block, storeVars
  <2> QED BY <2>1 DEF StoreInv
<1> QED BY <1>1, <1>2, <1>3 DEF StoreNext

LEMMA StoreBegins == StoreInit => StoreInv
BY DEF StoreInit, StoreInv, Descending, Slots

\* saveLayout and deleteLayout: a layout goes from the disk only by its own name or
\* as the oldest of more than MAX_SLOTS, in any number of tabs, with writes that
\* fail and lists on the screen that are old.
THEOREM NothingElseIsLost == StoreSpec => OnlyTheOldestGo
<1>1. StoreInit => StoreInv
  BY StoreBegins
<1>2. StoreInv /\ [StoreNext]_storeVars => StoreInv'
  BY StoreStep
<1>3. StoreInv /\ [StoreNext]_storeVars =>
        [\A s \in Slots(disk) \ Slots(disk') :
           \/ \E t \in Tabs : SaveLayout(t, s.name) \/ DeleteLayout(t, s.name)
           \/ /\ Len(disk') = MaxSlots
              /\ \A u \in Slots(disk') : u.at > s.at]_storeVars
  BY StoreStep DEF Goes
<1> QED BY <1>1, <1>2, <1>3, PTL DEF StoreSpec, OnlyTheOldestGo
====
